SPECIFICATION FairSpec
CONSTANTS
    Tokens = {t1, t2}
    Hooks = {h1, h2}
    NoToken = NoToken
INVARIANTS
    TypeOK
    OneStreamPerToken
    OneAttemptAtATime
    GoneIsQuiet
PROPERTIES
    RefusedForAReason
    StreamsHaveListeners
    HookTriesAgain
