SPECIFICATION ComponentsSpec
CONSTANTS
    MaxRows = 2
    MaxSeconds = 3
    Messages = {required, short}
    NoMessage = empty
    MaxBytes = 3
    MaxClock = 2
    MaxPoints = 2
    MaxClicks = 3
    MaxToasts = 3
    MaxSlides = 3
    Keys = {rx, tx}
    NoKey = nokey
INVARIANTS
    BytesPlottedOnce
    ShownForATime
    CarouselCurrent
