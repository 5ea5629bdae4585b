---------------------------- MODULE TrafficGraph ----------------------------
(***************************************************************************)
(* The traffic graph of a peer (frontend/app/(dashboard)/peers/page.tsx,   *)
(* components/peer/traffic-chart.tsx), fed by the messages of the stream.  *)
(* One direction is modelled; the effect runs when either changes.  A      *)
(* point keeps the bytes of its interval, whose division by the length of  *)
(* the interval is left out.                                               *)
(***************************************************************************)
EXTENDS Mounted, Integers, Sequences

CONSTANTS MaxBytes, MaxClock, MaxPoints

ASSUME GraphAssumption == MaxBytes \in Nat /\ MaxClock \in Nat /\ MaxPoints \in Nat

\* bytes: the counter shown; due: the effect of the counters is; rx, time: prevStats;
\* history: the bytes that the counter grew by, those of them when prevStats was set, and
\* whether the counter ever fell; from, to: of a point, those before and after its interval
GraphOpened == [kind |-> "graph", peer |-> FALSE, bytes |-> 0, due |-> FALSE, now |-> 0,
                rx |-> -1, time |-> 0, graphData |-> <<>>,
                grown |-> 0, seen |-> 0, fell |-> FALSE]

AtLeastZero(n) == IF n < 0 THEN 0 ELSE n

\* the counters change to n; other: so does that of the other direction
Counted(n, other) ==
    [ui EXCEPT !.bytes = n, !.due = @ \/ other \/ n # ui.bytes,
               !.grown = @ + IF ui.rx = -1 THEN 0 ELSE AtLeastZero(n - ui.bytes),
               !.fell = @ \/ n < ui.bytes]

\* the row of the table, whose counters are zero: nothing ever updates them.  The graph
\* stays when the address changes to that of another peer
GraphPeerFound ==
    /\ Is("graph")
    /\ ui' = [Counted(0, ~ui.peer) EXCEPT !.peer = TRUE]

\* the counters of the interface, which start again when it does; MaxBytes bounds them
StatsReceived(n, other) ==
    /\ Is("graph")
    /\ ui.peer
    /\ ui.grown <= MaxBytes
    /\ ui' = Counted(n, other)

\* Date.now: it may stand still between two messages, or be set back
Tick(now) ==
    /\ Is("graph")
    /\ now # ui.now
    /\ ui' = [ui EXCEPT !.now = now]

Remembered == [ui EXCEPT !.rx = ui.bytes, !.time = ui.now, !.due = FALSE,
                         !.seen = ui.grown]

LastPoints(s) ==
    SubSeq(s, IF Len(s) > MaxPoints THEN Len(s) - MaxPoints + 1 ELSE 1, Len(s))

Plotted(moved) ==
    LET point == [bytes |-> moved, from |-> ui.seen, to |-> ui.grown] IN
    [Remembered EXCEPT !.graphData = LastPoints(Append(@, point))]

\* Wrong: an interval of no length is passed over with its bytes.
PlotPassingOver ==
    /\ Is("graph")
    /\ ui.due
    /\ ui' = IF ui.rx = -1 \/ ui.now <= ui.time THEN Remembered
             ELSE Plotted(AtLeastZero(ui.bytes - ui.rx))

\* the effect: the first counters are only remembered, and an interval of no length is
\* left for the next one
Plot ==
    /\ Is("graph")
    /\ ui.due
    /\ ui' = IF ui.rx = -1 THEN Remembered
             ELSE IF ui.now <= ui.time THEN [ui EXCEPT !.due = FALSE]
             ELSE Plotted(AtLeastZero(ui.bytes - ui.rx))

\* a chart of no points shows a zero
TrafficChart ==
    IF ui.graphData = <<>> THEN <<0>>
    ELSE [i \in DOMAIN ui.graphData |-> ui.graphData[i].bytes]

GraphNext ==
    \/ GraphPeerFound
    \/ \E n \in 0 .. MaxBytes, other \in BOOLEAN : StatsReceived(n, other)
    \/ \E now \in 0 .. MaxClock : Tick(now)
    \/ Plot
=============================================================================
