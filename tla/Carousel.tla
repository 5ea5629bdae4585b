------------------------------ MODULE Carousel ------------------------------
(***************************************************************************)
(* The carousel of frontend/components/ui/carousel.tsx: React state that   *)
(* mirrors the embla carousel of a library, by its events "select" and     *)
(* "reInit".  Embla has its own idea of the slides until it starts again.  *)
(***************************************************************************)
EXTENDS Mounted, Integers

CONSTANT MaxSlides

ASSUME CarouselAssumption == MaxSlides \in Nat \ {0}

\* children: the slides in the page; api: there is an embla, with its slides and its
\* index; due: the effect of a new api is; heard: the events listened to
NoCarousel == [kind |-> "carousel", children |-> MaxSlides, api |-> FALSE, slides |-> 0,
               index |-> 0, due |-> FALSE, heard |-> {},
               canScrollPrev |-> FALSE, canScrollNext |-> FALSE]

Lesser(m, n) == IF m < n THEN m ELSE n

\* api.canScrollPrev and api.canScrollNext, without opts.loop
EmblaCanScrollPrev(c) == c.index > 0
EmblaCanScrollNext(c) == c.index < c.slides - 1

OnSelect(c) == [c EXCEPT !.canScrollPrev = EmblaCanScrollPrev(c),
                         !.canScrollNext = EmblaCanScrollNext(c)]

\* embla fires the event
Emit(event, c) == ui' = IF event \in c.heard THEN OnSelect(c) ELSE c

\* a viewport, perhaps another one: embla starts on its slides
EmblaCreated ==
    /\ Is("carousel")
    /\ ui' = [ui EXCEPT !.api = TRUE, !.slides = ui.children, !.index = 0, !.due = TRUE,
                        !.heard = {}]

\* Wrong: embla may start again unheard.
ListenToSelect ==
    /\ Is("carousel")
    /\ ui.due
    /\ ui' = OnSelect([ui EXCEPT !.due = FALSE, !.heard = {"select"}])

\* the effect of the api; what is not removed of the listeners goes with the old embla
Listen ==
    /\ Is("carousel")
    /\ ui.due
    /\ ui' = OnSelect([ui EXCEPT !.due = FALSE, !.heard = {"select", "reInit"}])

ScrollTo(index) ==
    /\ index # ui.index
    /\ Emit("select", [ui EXCEPT !.index = index])

\* at an end embla stays where it is
ScrollPrev == ui.api /\ EmblaCanScrollPrev(ui) /\ ScrollTo(ui.index - 1)
ScrollNext == ui.api /\ EmblaCanScrollNext(ui) /\ ScrollTo(ui.index + 1)

\* the arrow keys
OnArrow(key) ==
    /\ Is("carousel")
    /\ \/ key = "ArrowLeft" /\ ScrollPrev
       \/ key = "ArrowRight" /\ ScrollNext

\* the buttons at the sides, or above and below: disabled at an end
CarouselPrevious == Is("carousel") /\ ui.canScrollPrev /\ ScrollPrev
CarouselNext == Is("carousel") /\ ui.canScrollNext /\ ScrollNext

Drag(index) ==
    /\ Is("carousel")
    /\ ui.api
    /\ index < ui.slides
    /\ ScrollTo(index)

ChangeChildren(n) ==
    /\ Is("carousel")
    /\ ui' = [ui EXCEPT !.children = n]

\* embla observes its container
ReInit ==
    /\ Is("carousel")
    /\ ui.api
    /\ ui.children # ui.slides
    /\ Emit("reInit", [ui EXCEPT !.slides = ui.children,
                                 !.index = Lesser(@, ui.children - 1)])

CarouselSteps ==
    \/ EmblaCreated \/ Listen \/ ReInit \/ CarouselPrevious \/ CarouselNext
    \/ \E key \in {"ArrowLeft", "ArrowRight"} : OnArrow(key)
    \/ \E index \in 0 .. MaxSlides - 1 : Drag(index)
    \/ \E n \in 1 .. MaxSlides : ChangeChildren(n)
=============================================================================
