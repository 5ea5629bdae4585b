---------------------------- MODULE HeaderClock ----------------------------
(***************************************************************************)
(* The clock in the header of the dashboard                                *)
(* (frontend/components/dashboard/dashboard-header.tsx), set by an         *)
(* interval as long as the header is mounted.                              *)
(***************************************************************************)
EXTENDS Mounted, Naturals

CONSTANT MaxSeconds

\* time: as shown, 0 for an empty text; now: the seconds since the header was mounted,
\* from 1; intervals: those running; mounted: not yet "no" when the effect is to come
Header == [kind |-> "header", time |-> 0, now |-> 1, intervals |-> 0,
           mounted |-> "rendered"]

UpdateTime(header) == [header EXCEPT !.time = header.now]

\* the effect
StartClock ==
    /\ Is("header")
    /\ ui.mounted = "rendered"
    /\ ui' = [UpdateTime(ui) EXCEPT !.mounted = "yes", !.intervals = @ + 1]

\* the browser may be late
SecondPasses ==
    /\ Is("header")
    /\ ui.now < MaxSeconds
    /\ ui' = [ui EXCEPT !.now = @ + 1]

IntervalFires ==
    /\ Is("header")
    /\ ui.intervals > 0
    /\ ui' = UpdateTime(ui)

\* and its cleanup
StopClock ==
    /\ Is("header")
    /\ ui.mounted = "yes"
    /\ ui' = [ui EXCEPT !.mounted = "no", !.intervals = @ - 1]

\* another page, with the header again
RemountHeader ==
    /\ Is("header")
    /\ ui.mounted = "no"
    /\ ui' = [ui EXCEPT !.mounted = "rendered", !.time = 0]

DashboardHeader == IF ui.time = 0 THEN {} ELSE {ui.time}

HeaderNext == StartClock \/ SecondPasses \/ IntervalFires \/ StopClock \/ RemountHeader
=============================================================================
