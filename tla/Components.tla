----------------------------- MODULE Components -----------------------------
(***************************************************************************)
(* The components of the dashboard that have a state of their own, one of  *)
(* them mounted.                                                           *)
(***************************************************************************)
EXTENDS TrafficGraph, CopyButton, PeersTable, HeaderClock, Toasts, Sidebar, Carousel,
        ChartLabels, FormItems, Inputs

ComponentsInit ==
    \/ ui \in {GraphOpened, CopyShown, Header, NoToast, NoCarousel}
    \/ ui \in Tables
    \/ ui \in Sidebars
    \/ ui \in Items \cup FieldErrors
    \/ ui \in Sliders \cup Toggles \cup ToggleGroups \cup Days \cup Addons
    \/ ui \in {c \in Charts : c.labelled \subseteq c.config}

ComponentsNext ==
    \/ GraphNext
    \/ CopyNext
    \/ TableNext
    \/ HeaderNext
    \/ ToastsNext
    \/ SidebarNext
    \/ CarouselSteps
    \/ Point
    \/ FormNext
    \/ InputsNext

ComponentsSpec == ComponentsInit /\ [][ComponentsNext]_ui

-----------------------------------------------------------------------------
\* However the messages and the readings of the clock come, and whatever was skipped or
\* fell out of the window, each point of the graph goes on where the one before it ends
\* and holds no more than the counter grew by meanwhile.  As long as the counter has not
\* started again, no byte is left out either: the points hold all that it grew by since
\* the first of them, but for what is to come into the next one.
BytesPlottedOnce ==
    Is("graph") =>
        \A i \in DOMAIN ui.graphData :
            LET point == ui.graphData[i] IN
            /\ i > 1 => point.from = ui.graphData[i - 1].to
            /\ TrafficChart[i] <= point.to - point.from
            /\ ~ui.fell => /\ TrafficChart[i] = point.to - point.from
                           /\ i = Len(ui.graphData) =>
                                 point.to + (ui.bytes - ui.rx) = ui.grown

\* What is shown for a time only has a timer that ends it: the check mark of a copy,
\* whatever was clicked meanwhile; and of the toasts in the store those that were
\* dismissed and no others, whatever was shown, updated or dismissed meanwhile.  A toast
\* that an update opens again after it was dismissed still goes.
ShownForATime ==
    /\ Is("copy") => (CopyableValue = "Check" => ui.timers > 0)
    /\ Is("toasts") =>
          \A t \in ui.toasts : t.id \in ui.dismissed <=> t.id \in ui.toastTimeouts

\* Once the effect of a new embla has run, the buttons of the carousel are enabled just
\* where embla can scroll to, whatever was scrolled, dragged or changed among the slides
\* before embla heard of it, and however often embla was created.
CarouselCurrent ==
    Is("carousel") /\ ui.api /\ ~ui.due =>
        /\ ui.canScrollPrev <=> EmblaCanScrollPrev(ui)
        /\ ui.canScrollNext <=> EmblaCanScrollNext(ui)
=============================================================================
