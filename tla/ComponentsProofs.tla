-------------------------- MODULE ComponentsProofs --------------------------
(***************************************************************************)
(* What the components of the dashboard show, however often the user       *)
(* clicks and the counters, the window or the page change: the bounds that *)
(* TLC needs are any numbers here.                                         *)
(*                                                                         *)
(* Each component has an invariant of its own, and no step takes one for   *)
(* another; where no property is claimed it is the type of its state.      *)
(* Three of them say more than what is shown: a graph's next point starts  *)
(* where its last one ends, and what the counter grew by since is still to *)
(* come; the ids given to toasts so far are those up to the count, and no  *)
(* other was dismissed; a carousel whose effect has run hears of every     *)
(* change of embla.                                                        *)
(***************************************************************************)
EXTENDS Components, TLAPS

-----------------------------------------------------------------------------
(* The graph: the points follow each other in what the counter grew by. *)

GraphPoint == [bytes : Nat, from : Nat, to : Nat]

GraphStates == [kind : {"graph"}, peer : BOOLEAN, bytes : Nat, due : BOOLEAN, now : Int,
           rx : Nat \cup {-1}, time : Int, graphData : Seq(GraphPoint),
           grown : Nat, seen : Nat, fell : BOOLEAN]

\* a point holds what the counter grew by since the one before it, and no more
Follows(data, fell) ==
    /\ \A i \in 1 .. Len(data) :
          /\ data[i].bytes <= data[i].to - data[i].from
          /\ ~fell => data[i].bytes = data[i].to - data[i].from
    /\ \A i \in 2 .. Len(data) : data[i].from = data[i - 1].to

\* the next point starts where the last one ends, and what is to come into it
GraphInv ==
    /\ ui \in GraphStates
    /\ Follows(ui.graphData, ui.fell)
    /\ ui.graphData # <<>> => /\ ui.rx # -1
                              /\ ui.graphData[Len(ui.graphData)].to = ui.seen
    /\ ui.rx # -1 => /\ ui.bytes - ui.rx <= ui.grown - ui.seen
                     /\ ui.seen <= ui.grown
                     /\ ~ui.fell => ui.bytes - ui.rx = ui.grown - ui.seen

LEMMA LastPointsFollow ==
    ASSUME NEW data \in Seq(GraphPoint), NEW fell \in BOOLEAN, NEW point \in GraphPoint,
           Follows(data, fell),
           data # <<>> => data[Len(data)].to = point.from,
           point.bytes <= point.to - point.from,
           ~fell => point.bytes = point.to - point.from
    PROVE  LET longer == LastPoints(Append(data, point)) IN
           /\ longer \in Seq(GraphPoint)
           /\ Follows(longer, fell)
           /\ longer # <<>> => longer[Len(longer)] = point
<1> DEFINE all == Append(data, point)
<1> DEFINE first == IF Len(all) > MaxPoints THEN Len(all) - MaxPoints + 1 ELSE 1
<1> DEFINE longer == SubSeq(all, first, Len(all))
<1>1. /\ all \in Seq(GraphPoint)
      /\ Len(all) = Len(data) + 1
      /\ all[Len(all)] = point
      /\ \A i \in 1 .. Len(data) : all[i] = data[i]
    OBVIOUS
<1>2. Follows(all, fell)
    BY <1>1 DEF Follows
<1>3. first \in 1 .. Len(all) + 1
    BY <1>1, GraphAssumption
<1> HIDE DEF all, first
<1>4. /\ longer \in Seq(GraphPoint)
      /\ Len(longer) = Len(all) - first + 1
      /\ \A i \in 1 .. Len(longer) : longer[i] = all[first + i - 1]
    BY <1>1, <1>3
<1>5. LastPoints(Append(data, point)) = longer
    BY DEF LastPoints, all, first
<1> HIDE DEF longer
<1>6. Follows(longer, fell)
  <2>1. ASSUME NEW i \in 1 .. Len(longer)
        PROVE  /\ longer[i].bytes <= longer[i].to - longer[i].from
               /\ ~fell => longer[i].bytes = longer[i].to - longer[i].from
               /\ i > 1 => longer[i].from = longer[i - 1].to
    <3> DEFINE k == first + i - 1
    <3>1. k \in 1 .. Len(all) /\ longer[i] = all[k]
      BY <1>1, <1>3, <1>4
    <3>2. /\ all[k].bytes <= all[k].to - all[k].from
          /\ ~fell => all[k].bytes = all[k].to - all[k].from
      BY <1>2, <3>1 DEF Follows
    <3>3. ASSUME i > 1 PROVE longer[i].from = longer[i - 1].to
      <4>1. /\ k \in 2 .. Len(all)
            /\ i - 1 \in 1 .. Len(longer)
            /\ first + (i - 1) - 1 = k - 1
        BY <1>1, <1>3, <1>4, <3>3, SMTT(30)
      <4>2. longer[i - 1] = all[k - 1]
        BY <1>4, <4>1
      <4>3. QED
        BY <1>2, <3>1, <4>1, <4>2 DEF Follows
    <3>4. QED
      BY <3>1, <3>2, <3>3
  <2>2. QED
    BY <1>1, <1>3, <1>4, <2>1 DEF Follows
<1>7. longer # <<>> => longer[Len(longer)] = point
    BY <1>1, <1>3, <1>4
<1>8. QED
    BY <1>4, <1>5, <1>6, <1>7

LEMMA GraphSteps ==
    ASSUME GraphInv, GraphNext
    PROVE  GraphInv'
<1>0. ui \in GraphStates
    BY DEF GraphInv
<1>1. ASSUME NEW n \in Nat, NEW other \in BOOLEAN, NEW peer \in BOOLEAN,
             ui' = [Counted(n, other) EXCEPT !.peer = peer]
      PROVE  GraphInv'
  <2> DEFINE due == ui.due \/ other \/ n # ui.bytes
  <2> DEFINE grown == ui.grown + IF ui.rx = -1 THEN 0 ELSE AtLeastZero(n - ui.bytes)
  <2> DEFINE fell == ui.fell \/ n < ui.bytes
  <2>1. /\ ui.bytes \in Nat /\ ui.grown \in Nat /\ ui.seen \in Nat
        /\ ui.rx \in Nat \cup {-1} /\ ui.fell \in BOOLEAN
    BY <1>0 DEF GraphStates
  <2>2. due \in BOOLEAN /\ fell \in BOOLEAN /\ grown \in Nat
    BY <2>1 DEF AtLeastZero
  <2>3. /\ ui.fell => fell
        /\ ui.rx # -1 => /\ n - ui.bytes <= grown - ui.grown
                         /\ grown >= ui.grown
                         /\ ~fell => n - ui.bytes = grown - ui.grown
    BY <2>1 DEF AtLeastZero
  <2>4. ui' = [[ui EXCEPT !.bytes = n, !.due = due, !.grown = grown, !.fell = fell]
                   EXCEPT !.peer = peer]
    BY <1>1 DEF Counted
  <2> HIDE DEF due, grown, fell
  <2>5. /\ ui' \in GraphStates
        /\ ui'.bytes = n /\ ui'.grown = grown /\ ui'.fell = fell
        /\ ui'.graphData = ui.graphData /\ ui'.rx = ui.rx /\ ui'.seen = ui.seen
    BY <1>0, <2>2, <2>4 DEF GraphStates
  <2>6. Follows(ui.graphData, fell)
    BY <2>3 DEF GraphInv, Follows
  <2>7. ui.rx # -1 => /\ n - ui.rx <= grown - ui.seen
                      /\ ui.seen <= grown
                      /\ ~fell => n - ui.rx = grown - ui.seen
    <3>1. SUFFICES ASSUME ui.rx # -1
                   PROVE  /\ n - ui.rx <= grown - ui.seen
                          /\ ui.seen <= grown
                          /\ ~fell => n - ui.rx = grown - ui.seen
      OBVIOUS
    <3>2. /\ ui.bytes - ui.rx <= ui.grown - ui.seen
          /\ ui.seen <= ui.grown
          /\ ~ui.fell => ui.bytes - ui.rx = ui.grown - ui.seen
      BY <3>1 DEF GraphInv
    <3>3. QED
      BY <2>1, <2>2, <2>3, <3>1, <3>2
  <2>8. ui.graphData # <<>> => /\ ui.rx # -1
                               /\ ui.graphData[Len(ui.graphData)].to = ui.seen
    BY DEF GraphInv
  <2>9. QED
    BY <2>5, <2>6, <2>7, <2>8 DEF GraphInv
<1>2. ASSUME GraphPeerFound PROVE GraphInv'
  <2>1. ui' = [Counted(0, ~ui.peer) EXCEPT !.peer = TRUE]
    BY <1>2 DEF GraphPeerFound
  <2>2. 0 \in Nat /\ (~ui.peer) \in BOOLEAN /\ TRUE \in BOOLEAN
    OBVIOUS
  <2>3. QED
    BY <1>1, <2>1, <2>2
<1>3. ASSUME NEW n \in 0 .. MaxBytes, NEW other \in BOOLEAN, StatsReceived(n, other)
      PROVE  GraphInv'
  <2>1. n \in Nat
    BY GraphAssumption
  <2>2. [Counted(n, other) EXCEPT !.peer = ui.peer] = Counted(n, other)
    BY <1>0 DEF Counted, GraphStates
  <2>3. QED
    BY <1>0, <1>1, <1>3, <2>1, <2>2 DEF StatsReceived, GraphStates
<1>4. ASSUME NEW now \in 0 .. MaxClock, Tick(now) PROVE GraphInv'
  <2>1. now \in Int /\ ui' = [ui EXCEPT !.now = now]
    BY <1>4, GraphAssumption DEF Tick
  <2>2. /\ ui' \in GraphStates
        /\ ui'.bytes = ui.bytes /\ ui'.grown = ui.grown /\ ui'.fell = ui.fell
        /\ ui'.graphData = ui.graphData /\ ui'.rx = ui.rx /\ ui'.seen = ui.seen
    BY <1>0, <2>1, SMTT(30) DEF GraphStates
  <2>3. QED
    BY <2>2 DEF GraphInv
<1>5. ASSUME Plot PROVE GraphInv'
  <2>1. /\ ui.bytes \in Nat /\ ui.grown \in Nat /\ ui.seen \in Nat
        /\ ui.rx \in Nat \cup {-1} /\ ui.fell \in BOOLEAN
        /\ ui.graphData \in Seq(GraphPoint)
    BY <1>0 DEF GraphStates
  <2>2. /\ Remembered \in GraphStates
        /\ Remembered.bytes = ui.bytes /\ Remembered.rx = ui.bytes
        /\ Remembered.grown = ui.grown /\ Remembered.seen = ui.grown
        /\ Remembered.fell = ui.fell
        /\ Remembered.graphData = ui.graphData
    BY <1>0 DEF Remembered, GraphStates
  <2>3. CASE ui.rx = -1
    <3>1. ui' = Remembered /\ ui.graphData = <<>>
      BY <1>5, <2>3 DEF Plot, GraphInv
    <3>2. QED
      BY <2>1, <2>2, <3>1 DEF GraphInv
  <2>4. CASE ui.rx # -1 /\ ui.now <= ui.time
    <3>1. ui' = [ui EXCEPT !.due = FALSE]
      BY <1>5, <2>4 DEF Plot
    <3>2. /\ ui' \in GraphStates
          /\ ui'.bytes = ui.bytes /\ ui'.grown = ui.grown /\ ui'.fell = ui.fell
          /\ ui'.graphData = ui.graphData /\ ui'.rx = ui.rx /\ ui'.seen = ui.seen
      BY <1>0, <3>1 DEF GraphStates
    <3>3. QED
      BY <3>2 DEF GraphInv
  <2>5. CASE ui.rx # -1 /\ ~(ui.now <= ui.time)
    <3> DEFINE moved == AtLeastZero(ui.bytes - ui.rx)
    <3> DEFINE point == [bytes |-> moved, from |-> ui.seen, to |-> ui.grown]
    <3> DEFINE data == LastPoints(Append(ui.graphData, point))
    <3>1. point \in GraphPoint /\ moved \in Nat
      BY <2>1, <2>5 DEF AtLeastZero, GraphPoint
    <3>2. moved <= ui.grown - ui.seen /\ (~ui.fell => moved = ui.grown - ui.seen)
      BY <2>1, <2>5 DEF GraphInv, AtLeastZero
    <3>3. /\ data \in Seq(GraphPoint)
          /\ Follows(data, ui.fell)
          /\ data # <<>> => data[Len(data)] = point
      <4>1. point.bytes = moved /\ point.from = ui.seen /\ point.to = ui.grown
        OBVIOUS
      <4>2. Follows(ui.graphData, ui.fell)
        BY DEF GraphInv
      <4>3. ui.graphData # <<>> => ui.graphData[Len(ui.graphData)].to = ui.seen
        BY DEF GraphInv
      <4> HIDE DEF point, moved
      <4>4. QED
        BY <2>1, <3>1, <3>2, <4>1, <4>2, <4>3, LastPointsFollow
    <3>4. ui' = [Remembered EXCEPT !.graphData = data]
      BY <1>5, <2>2, <2>5 DEF Plot, Plotted
    <3>5. point.to = ui.grown
      OBVIOUS
    <3> HIDE DEF data, point, moved
    <3>6. /\ ui' \in GraphStates
          /\ ui'.bytes = ui.bytes /\ ui'.rx = ui.bytes
          /\ ui'.grown = ui.grown /\ ui'.seen = ui.grown
          /\ ui'.fell = ui.fell
          /\ ui'.graphData = data
      BY <2>2, <3>3, <3>4 DEF GraphStates
    <3>7. QED
      BY <2>1, <3>3, <3>5, <3>6 DEF GraphInv
  <2>6. QED
    BY <2>3, <2>4, <2>5
<1>6. QED
    BY <1>2, <1>3, <1>4, <1>5 DEF GraphNext

LEMMA GraphShown ==
    ASSUME GraphInv
    PROVE  BytesPlottedOnce
<1>1. /\ ui \in GraphStates
      /\ ui.graphData \in Seq(GraphPoint)
    BY DEF GraphInv, GraphStates
<1> SUFFICES ASSUME NEW i \in DOMAIN ui.graphData
             PROVE  LET point == ui.graphData[i] IN
                    /\ i > 1 => point.from = ui.graphData[i - 1].to
                    /\ TrafficChart[i] <= point.to - point.from
                    /\ ~ui.fell => /\ TrafficChart[i] = point.to - point.from
                                   /\ i = Len(ui.graphData) =>
                                         point.to + (ui.bytes - ui.rx) = ui.grown
    BY DEF BytesPlottedOnce
<1>2. i \in 1 .. Len(ui.graphData) /\ ui.graphData # <<>>
    BY <1>1
<1>3. TrafficChart[i] = ui.graphData[i].bytes
    BY <1>2 DEF TrafficChart
<1>4. ui.bytes \in Nat /\ ui.grown \in Nat /\ ui.seen \in Nat /\ ui.rx \in Nat \cup {-1}
    BY <1>1 DEF GraphStates
<1>5. QED
    BY <1>2, <1>3, <1>4, SMTT(30) DEF GraphInv, Follows

-----------------------------------------------------------------------------
(* The copy button: a check mark has a timer. *)

CopyInv ==
    /\ ui \in [kind : {"copy"}, copied : BOOLEAN, writing : Nat, timers : Nat]
    /\ ui.copied => ui.timers > 0

LEMMA CopySteps ==
    ASSUME CopyInv, CopyNext
    PROVE  CopyInv'
<1> USE DEF CopyInv
<1>1. ASSUME HandleCopy PROVE CopyInv'
  <2>1. ui' = [ui EXCEPT !.writing = ui.writing + 1]
    BY <1>1 DEF HandleCopy
  <2>2. QED
    BY <2>1
<1>2. ASSUME Copied PROVE CopyInv'
  <2>1. /\ ui' = [ui EXCEPT !.writing = ui.writing - 1, !.copied = TRUE,
                            !.timers = ui.timers + 1]
        /\ ui.writing - 1 \in Nat /\ ui.timers + 1 \in Nat /\ ui.timers + 1 > 0
    BY <1>2 DEF Copied
  <2>2. QED
    BY <2>1
<1>3. ASSUME NotCopied PROVE CopyInv'
  <2>1. /\ ui' = [ui EXCEPT !.writing = ui.writing - 1]
        /\ ui.writing - 1 \in Nat
    BY <1>3 DEF NotCopied
  <2>2. QED
    BY <2>1
<1>4. ASSUME Uncheck PROVE CopyInv'
  <2>1. /\ ui' = [ui EXCEPT !.copied = FALSE, !.timers = ui.timers - 1]
        /\ ui.timers - 1 \in Nat
    BY <1>4 DEF Uncheck
  <2>2. QED
    BY <2>1
<1>5. QED
    BY <1>1, <1>2, <1>3, <1>4 DEF CopyNext

-----------------------------------------------------------------------------
(* The table. *)

TableInv ==
    ui \in [kind : {"table"}, peers : [Rows -> MappedPeer], searchQuery : SUBSET Rows,
            roleFilter : RoleOptions]

LEMMA TableSteps ==
    ASSUME TableInv, TableNext
    PROVE  TableInv'
<1> USE DEF TableInv
<1>1. ASSUME NEW found \in SUBSET Rows, SetSearchQuery(found) PROVE TableInv'
    BY <1>1 DEF SetSearchQuery
<1>2. ASSUME NEW role \in RoleOptions, SetRoleFilter(role) PROVE TableInv'
    BY <1>2 DEF SetRoleFilter
<1>3. ASSUME NEW p \in Rows, NEW online \in BOOLEAN, NEW rx \in {0, 200},
             TableStats(p, online, rx)
      PROVE  TableInv'
  <2> DEFINE status == IF online THEN "online" ELSE "idle"
  <2> DEFINE one == [ui EXCEPT !.peers[p].status = status]
  <2>1. status \in {"online", "idle", "offline"}
    OBVIOUS
  <2>2. ui' = [one EXCEPT !.peers[p].rxTraffic = rx]
    BY <1>3, Zenon DEF TableStats
  <2> HIDE DEF status
  <2>3. one \in [kind : {"table"}, peers : [Rows -> MappedPeer],
                searchQuery : SUBSET Rows, roleFilter : RoleOptions]
    BY <2>1, SMTT(30) DEF MappedPeer
  <2> HIDE DEF one
  <2>4. \A peers \in [Rows -> MappedPeer] :
            [peers EXCEPT ![p].rxTraffic = rx] \in [Rows -> MappedPeer]
    BY DEF MappedPeer
  <2>5. [one EXCEPT !.peers[p].rxTraffic = rx] =
            [one EXCEPT !.peers = [one.peers EXCEPT ![p].rxTraffic = rx]]
    BY <2>3
  <2>6. QED
    BY <2>2, <2>3, <2>4, <2>5
<1>4. QED
    BY <1>1, <1>2, <1>3 DEF TableNext

-----------------------------------------------------------------------------
(* The header, the slider, the day and the other inputs. *)

HeaderInv ==
    ui \in [kind : {"header"}, time : Nat, now : Nat, intervals : Int,
            mounted : {"rendered", "yes", "no"}]

LEMMA HeaderSteps ==
    ASSUME HeaderInv, HeaderNext
    PROVE  HeaderInv'
<1> USE DEF HeaderInv
<1>1. ASSUME StartClock PROVE HeaderInv'
  <2>1. /\ UpdateTime(ui) \in [kind : {"header"}, time : Nat, now : Nat, intervals : Int,
                               mounted : {"rendered", "yes", "no"}]
        /\ UpdateTime(ui).intervals + 1 \in Int
    BY DEF UpdateTime
  <2>2. ui' = [UpdateTime(ui) EXCEPT !.mounted = "yes",
                                     !.intervals = UpdateTime(ui).intervals + 1]
    BY <1>1 DEF StartClock
  <2>3. QED
    BY <2>1, <2>2
<1>2. ASSUME SecondPasses PROVE HeaderInv'
    BY <1>2 DEF SecondPasses
<1>3. ASSUME IntervalFires PROVE HeaderInv'
    BY <1>3 DEF IntervalFires, UpdateTime
<1>4. ASSUME StopClock PROVE HeaderInv'
  <2>1. ui.intervals - 1 \in Int
    OBVIOUS
  <2>2. \A n \in Int : [ui EXCEPT !.mounted = "no", !.intervals = n] \in
                           [kind : {"header"}, time : Nat, now : Nat, intervals : Int,
                            mounted : {"rendered", "yes", "no"}]
    OBVIOUS
  <2>3. ui' = [ui EXCEPT !.mounted = "no", !.intervals = ui.intervals - 1]
    BY <1>4 DEF StopClock
  <2>4. QED
    BY <2>1, <2>2, <2>3
<1>5. ASSUME RemountHeader PROVE HeaderInv'
    BY <1>5 DEF RemountHeader
<1>6. QED
    BY <1>1, <1>2, <1>3, <1>4, <1>5 DEF HeaderNext

SliderInv ==
    ui \in [kind : {"slider"}, value : 0 .. 2, defaultValue : 0 .. 2, thumbs : 0 .. 2]

ToggleInv == ui \in Toggles

GroupInv == ui \in ToggleGroups

DayInv ==
    ui \in [kind : {"day"}, focused : BOOLEAN, due : BOOLEAN, hasFocus : BOOLEAN,
            selected : BOOLEAN, range : SUBSET {"start", "end", "middle"}]

AddonInv ==
    ui \in [kind : {"addon"}, control : {"input", "textarea", "input and button"},
            hasFocus : {"nothing", "input", "button"}]

InputInv == SliderInv \/ ToggleInv \/ GroupInv \/ DayInv \/ AddonInv

LEMMA InputSteps ==
    ASSUME InputInv, InputsNext
    PROVE  InputInv'
<1>1. /\ Is("slider") => SliderInv
      /\ Is("toggle") => ToggleInv
      /\ Is("group") => GroupInv
      /\ Is("day") => DayInv
      /\ Is("addon") => AddonInv
    BY DEF Is, InputInv, SliderInv, ToggleInv, GroupInv, DayInv, AddonInv, Toggles,
           ToggleGroups
<1>2. ASSUME NEW n \in 1 .. 2, ChangeValue(n) PROVE SliderInv'
  <2>1. SliderInv /\ n \in 0 .. 2 /\ ui' = [ui EXCEPT !.value = n, !.thumbs = n]
    BY <1>1, <1>2 DEF ChangeValue
  <2>2. QED
    BY <2>1 DEF SliderInv
<1>3. ASSUME DragThumb PROVE InputInv'
    BY <1>3 DEF DragThumb, InputInv, SliderInv, ToggleInv, GroupInv, DayInv, AddonInv
<1>4. ASSUME CyberToggle PROVE ToggleInv'
    BY <1>1, <1>4 DEF CyberToggle, ToggleInv, Toggles
<1>5. ASSUME NEW looks \in Looks, ChangeLooks(looks) PROVE GroupInv'
    BY <1>1, <1>5 DEF ChangeLooks, GroupInv, ToggleGroups
<1>6. ASSUME MoveFocus \/ FollowFocus \/ Blur PROVE DayInv'
  <2>1. CASE MoveFocus
    BY <1>1, <2>1 DEF MoveFocus, DayInv
  <2>2. CASE FollowFocus
    BY <1>1, <2>2 DEF FollowFocus, DayInv
  <2>3. CASE Blur
    BY <1>1, <2>3 DEF Blur, DayInv
  <2>4. QED
    BY <1>6, <2>1, <2>2, <2>3
<1>7. ASSUME NEW target \in {"button", "ornament"}, InputGroupAddon(target) PROVE AddonInv'
    BY <1>1, <1>7 DEF InputGroupAddon, AddonInv
<1>8. QED
    BY <1>2, <1>3, <1>4, <1>5, <1>6, <1>7 DEF InputsNext, InputInv

-----------------------------------------------------------------------------
(* The toasts: which of them have a timer. *)

ToastRecords == [id : Nat, open : BOOLEAN]

ToastStates ==
    [kind : {"toasts"}, count : Nat, toasts : SUBSET ToastRecords,
     toastTimeouts : SUBSET Nat, state : SUBSET ToastRecords,
     pending : SUBSET SUBSET ToastRecords,
     phase : {"unmounted", "rendered", "subscribed", "apart"}, dismissed : SUBSET Nat]

\* the toasts with a timer are those that were dismissed; a number that is yet to be
\* given was not dismissed and has no timer
StoreInv(toasts, timeouts, count, dismissed) ==
    /\ \A t \in toasts : t.id \in 1 .. count /\ (t.id \in dismissed <=> t.id \in timeouts)
    /\ timeouts \subseteq 1 .. count
    /\ dismissed \subseteq 1 .. count

ToastsInv ==
    /\ ui \in ToastStates
    /\ StoreInv(ui.toasts, ui.toastTimeouts, ui.count, ui.dismissed)

\* What a dispatched action leaves: the reduced toasts, given to the listeners.
Dispatched(toasts, timeouts, count, dismissed) ==
    /\ ui'.kind = ui.kind /\ ui'.phase = ui.phase /\ ui'.state = ui.state
    /\ ui'.toasts = toasts /\ ui'.toastTimeouts = timeouts /\ ui'.count = count
    /\ ui'.pending = IF Listening THEN {toasts} ELSE ui.pending
    /\ ui'.dismissed = dismissed
    /\ ui' = [kind |-> ui'.kind, count |-> ui'.count, toasts |-> ui'.toasts,
              toastTimeouts |-> ui'.toastTimeouts, state |-> ui'.state,
              pending |-> ui'.pending, phase |-> ui'.phase, dismissed |-> ui'.dismissed]

LEMMA DispatchSteps ==
    ASSUME ToastsInv, NEW toasts \in SUBSET ToastRecords, NEW timeouts \in SUBSET Nat,
           NEW count \in Nat, NEW dismissed \in SUBSET Nat,
           Dispatched(toasts, timeouts, count, dismissed),
           StoreInv(toasts, timeouts, count, dismissed)
    PROVE  ToastsInv'
<1>1. /\ ui.kind = "toasts" /\ ui.state \in SUBSET ToastRecords
      /\ ui.pending \in SUBSET SUBSET ToastRecords
      /\ ui.phase \in {"unmounted", "rendered", "subscribed", "apart"}
    BY DEF ToastsInv, ToastStates
<1>2. ui'.pending \in SUBSET SUBSET ToastRecords
    BY <1>1 DEF Dispatched, Listening
<1>3. ui' \in ToastStates
    BY <1>1, <1>2 DEF Dispatched, ToastStates
<1>4. StoreInv(ui'.toasts, ui'.toastTimeouts, ui'.count, ui'.dismissed)
    BY DEF Dispatched
<1>5. QED
    BY <1>3, <1>4 DEF ToastsInv

\* an action that gives no number; what it dismisses is added by the caller
LEMMA DispatchFields ==
    ASSUME ToastsInv, NEW type, NEW id, NEW open, NEW dismissed,
           ui' = [Dispatch(type, id, open) EXCEPT !.dismissed = dismissed]
    PROVE  LET action == [type |-> type, id |-> id, open |-> open] IN
           Dispatched(Reducer(ui.toasts, action), Timeouts(action), ui.count, dismissed)
<1> DEFINE action == [type |-> type, id |-> id, open |-> open]
<1> DEFINE toasts == Reducer(ui.toasts, action)
<1> DEFINE timeouts == Timeouts(action)
<1>1. ui' = [[ui EXCEPT !.toasts = toasts, !.toastTimeouts = timeouts,
                        !.pending = IF Listening THEN {toasts} ELSE ui.pending]
                EXCEPT !.dismissed = dismissed]
    BY DEF Dispatch
<1> HIDE DEF toasts, timeouts
<1>2. Dispatched(toasts, timeouts, ui.count, dismissed)
    BY <1>1 DEF Dispatched, ToastsInv, ToastStates
<1>3. QED
    BY <1>2 DEF toasts, timeouts

\* what is dispatched by itself dismisses nothing
LEMMA NothingDismissed ==
    ASSUME ToastsInv, NEW type, NEW id, NEW open
    PROVE  Dispatch(type, id, open) =
               [Dispatch(type, id, open) EXCEPT !.dismissed = ui.dismissed]
<1> DEFINE action == [type |-> type, id |-> id, open |-> open]
<1> DEFINE toasts == Reducer(ui.toasts, action)
<1> DEFINE timeouts == Timeouts(action)
<1> DEFINE pending == IF Listening THEN {toasts} ELSE ui.pending
<1>1. Dispatch(type, id, open) =
          [ui EXCEPT !.toasts = toasts, !.toastTimeouts = timeouts, !.pending = pending]
    BY DEF Dispatch
<1> HIDE DEF toasts, timeouts, pending
<1>2. QED
    BY <1>1 DEF ToastsInv, ToastStates

LEMMA ToastSteps ==
    ASSUME ToastsInv, Toast
    PROVE  ToastsInv'
<1> DEFINE id == ui.count + 1
<1> DEFINE action == [type |-> "ADD_TOAST", id |-> id, open |-> {TRUE}]
<1> DEFINE toasts == Reducer(ui.toasts, action)
<1>1. /\ ui.count \in Nat /\ id \in Nat /\ id \in 1 .. id
      /\ ui.toasts \in SUBSET ToastRecords
      /\ ui.toastTimeouts \in SUBSET Nat
      /\ ui.dismissed \in SUBSET Nat
      /\ StoreInv(ui.toasts, ui.toastTimeouts, ui.count, ui.dismissed)
    BY DEF ToastsInv, ToastStates
<1>2. /\ toasts \subseteq ui.toasts \cup {[id |-> id, open |-> TRUE]}
      /\ Timeouts(action) = ui.toastTimeouts
  <2>1. action.type = "ADD_TOAST" /\ action.id = id
    OBVIOUS
  <2>2. toasts = Newest(ui.toasts \cup {[id |-> id, open |-> TRUE]}, TOAST_LIMIT)
    BY <2>1 DEF Reducer
  <2>3. QED
    BY <2>1, <2>2 DEF Newest, Timeouts
<1>3. ui' = [ui EXCEPT !.toasts = toasts, !.toastTimeouts = Timeouts(action),
                       !.pending = IF Listening THEN {toasts} ELSE ui.pending,
                       !.count = id]
    BY DEF Toast, Dispatch
<1> HIDE DEF toasts, action
<1>4. Dispatched(toasts, ui.toastTimeouts, id, ui.dismissed)
    BY <1>2, <1>3 DEF Dispatched, ToastsInv, ToastStates
<1>5. toasts \in SUBSET ToastRecords
  <2>1. [id |-> id, open |-> TRUE] \in ToastRecords
    BY <1>1 DEF ToastRecords
  <2>2. QED
    BY <1>1, <1>2, <2>1
<1>6. StoreInv(toasts, ui.toastTimeouts, id, ui.dismissed)
  <2>1. \A t \in toasts : t \in ui.toasts \/ t = [id |-> id, open |-> TRUE]
    BY <1>2
  <2>2. ASSUME NEW t \in toasts
        PROVE  t.id \in 1 .. id /\ (t.id \in ui.dismissed <=> t.id \in ui.toastTimeouts)
    <3>1. CASE t \in ui.toasts
      BY <1>1, <3>1 DEF StoreInv
    <3>2. CASE t = [id |-> id, open |-> TRUE]
      BY <1>1, <3>2 DEF StoreInv
    <3>3. QED
      BY <2>1, <3>1, <3>2
  <2>3. QED
    BY <1>1, <2>2 DEF StoreInv
<1>7. QED
    BY <1>1, <1>4, <1>5, <1>6, DispatchSteps

LEMMA DismissSteps ==
    ASSUME ToastsInv, NEW id \in Nat, Dismiss(id)
    PROVE  ToastsInv'
<1> DEFINE action == [type |-> "DISMISS_TOAST", id |-> id, open |-> {}]
<1> DEFINE timeouts == ui.toastTimeouts \cup Meant(id)
<1> DEFINE dismissed == ui.dismissed \cup Meant(id)
<1> DEFINE closed(t) == [t EXCEPT !.open = t.open /\ id \notin {0, t.id}]
<1> DEFINE toasts == {closed(t) : t \in ui.toasts}
<1>1. /\ ui.count \in Nat /\ id \in 0 .. ui.count
      /\ ui.toasts \in SUBSET ToastRecords
      /\ ui.toastTimeouts \in SUBSET Nat
      /\ ui.dismissed \in SUBSET Nat
      /\ StoreInv(ui.toasts, ui.toastTimeouts, ui.count, ui.dismissed)
    BY DEF ToastsInv, ToastStates, Dismiss
<1>2. action.type = "DISMISS_TOAST" /\ action.id = id
    OBVIOUS
<1>3. /\ Reducer(ui.toasts, action) = toasts
      /\ Timeouts(action) = timeouts
    BY <1>2 DEF Reducer, Timeouts, AddToRemoveQueue
<1>4. Dispatched(toasts, timeouts, ui.count, dismissed)
  <2>1. ui' = [Dispatch("DISMISS_TOAST", id, {}) EXCEPT !.dismissed = dismissed]
    <3>1. ui' = [Dispatch("DISMISS_TOAST", id, {})
                    EXCEPT !.dismissed = Dispatch("DISMISS_TOAST", id, {}).dismissed
                                             \cup Meant(id)]
      BY DEF Dismiss
    <3>2. Dispatch("DISMISS_TOAST", id, {}).dismissed = ui.dismissed
      BY DEF Dispatch, ToastsInv, ToastStates
    <3>3. QED
      BY <3>1, <3>2
  <2>2. Dispatched(Reducer(ui.toasts, action), Timeouts(action), ui.count, dismissed)
    BY <2>1, DispatchFields, Zenon
  <2>3. QED
    BY <1>3, <2>2
<1>5. ASSUME NEW t \in ui.toasts
      PROVE  closed(t) \in ToastRecords /\ closed(t).id = t.id
    BY <1>1 DEF ToastRecords
<1> HIDE DEF action, closed
<1>6. toasts \in SUBSET ToastRecords
    BY <1>5
<1>7. Meant(id) \subseteq 1 .. ui.count
    BY <1>1 DEF StoreInv, IdsOf, Meant
<1>8. timeouts \subseteq 1 .. ui.count /\ dismissed \subseteq 1 .. ui.count
    BY <1>1, <1>7 DEF StoreInv
<1>9. ASSUME NEW t \in ui.toasts
      PROVE  /\ closed(t).id \in 1 .. ui.count
             /\ closed(t).id \in dismissed <=> closed(t).id \in timeouts
    BY <1>1, <1>5 DEF StoreInv
<1>10. StoreInv(toasts, timeouts, ui.count, dismissed)
    BY <1>8, <1>9 DEF StoreInv
<1>11. QED
    BY <1>1, <1>4, <1>6, <1>8, <1>10, DispatchSteps

\* an update may open or close a toast; it sets no timer and stops none
LEMMA UpdateSteps ==
    ASSUME ToastsInv, NEW id \in Nat, NEW open \in OpenProps, Update(id, open)
    PROVE  ToastsInv'
<1> DEFINE action == [type |-> "UPDATE_TOAST", id |-> id, open |-> open]
<1> DEFINE updated(t) ==
        IF t.id = id /\ open # {} THEN [t EXCEPT !.open = TRUE \in open] ELSE t
<1> DEFINE toasts == {updated(t) : t \in ui.toasts}
<1>1. /\ ui.toasts \in SUBSET ToastRecords
      /\ StoreInv(ui.toasts, ui.toastTimeouts, ui.count, ui.dismissed)
    BY DEF ToastsInv, ToastStates
<1>2. action.type = "UPDATE_TOAST" /\ action.id = id /\ action.open = open
    OBVIOUS
<1>3. /\ Reducer(ui.toasts, action) = toasts
      /\ Timeouts(action) = ui.toastTimeouts
    BY <1>2 DEF Reducer, Timeouts
<1>4. Dispatched(toasts, ui.toastTimeouts, ui.count, ui.dismissed)
  <2>1. ui' = [Dispatch("UPDATE_TOAST", id, open) EXCEPT !.dismissed = ui.dismissed]
    BY NothingDismissed, Zenon DEF Update
  <2>2. Dispatched(Reducer(ui.toasts, action), Timeouts(action), ui.count, ui.dismissed)
    BY <2>1, DispatchFields, Zenon
  <2>3. QED
    BY <1>3, <2>2
<1>5. ASSUME NEW t \in ui.toasts
      PROVE  updated(t) \in ToastRecords /\ updated(t).id = t.id
  <2>1. t \in ToastRecords
    BY <1>1
  <2>2. ASSUME NEW b \in BOOLEAN
        PROVE  [t EXCEPT !.open = b] \in ToastRecords /\ [t EXCEPT !.open = b].id = t.id
    BY <2>1 DEF ToastRecords
  <2>3. (TRUE \in open) \in BOOLEAN
    OBVIOUS
  <2>4. CASE t.id = id /\ open # {}
    BY <2>2, <2>3, <2>4
  <2>5. CASE ~(t.id = id /\ open # {})
    BY <2>1, <2>5
  <2>6. QED
    BY <2>4, <2>5
<1> HIDE DEF action, updated
<1>6. toasts \in SUBSET ToastRecords
    BY <1>5
<1>7. StoreInv(toasts, ui.toastTimeouts, ui.count, ui.dismissed)
    BY <1>1, <1>5 DEF StoreInv
<1>8. QED
    BY <1>4, <1>6, <1>7, DispatchSteps DEF ToastsInv, ToastStates

LEMMA RemoveSteps ==
    ASSUME ToastsInv, NEW id \in Nat, RemoveLater(id)
    PROVE  ToastsInv'
<1> DEFINE action == [type |-> "REMOVE_TOAST", id |-> id, open |-> {}]
<1> DEFINE toasts == {t \in ui.toasts : t.id # id}
<1> DEFINE timeouts == ui.toastTimeouts \ {id}
<1>1. action.type = "REMOVE_TOAST" /\ action.id = id
    OBVIOUS
<1>2. /\ Reducer(ui.toasts, action) = toasts
      /\ Timeouts(action) = timeouts
    BY <1>1 DEF Reducer, Timeouts
<1>3. Dispatched(toasts, timeouts, ui.count, ui.dismissed)
  <2>1. ui' = [Dispatch("REMOVE_TOAST", id, {}) EXCEPT !.dismissed = ui.dismissed]
    BY NothingDismissed, Zenon DEF RemoveLater
  <2>2. Dispatched(Reducer(ui.toasts, action), Timeouts(action), ui.count, ui.dismissed)
    BY <2>1, DispatchFields, Zenon
  <2>3. QED
    BY <1>2, <2>2
<1>4. StoreInv(toasts, timeouts, ui.count, ui.dismissed)
    BY DEF StoreInv, ToastsInv
<1>5. QED
    BY <1>3, <1>4, DispatchSteps DEF ToastsInv, ToastStates

LEMMA ToasterSteps ==
    ASSUME ToastsInv,
           MountToaster \/ Subscribe \/ RenderToaster \/ Unsubscribe \/ UnmountToaster
    PROVE  ToastsInv'
<1> USE DEF ToastsInv, ToastStates
<1>1. CASE MountToaster
    BY <1>1 DEF MountToaster
<1>2. CASE Subscribe
    BY <1>2 DEF Subscribe
<1>3. CASE RenderToaster
  <2>1. PICK state \in ui.pending :
            /\ ui' = [ui EXCEPT !.phase = "rendered", !.state = state, !.pending = {}]
            /\ ui.phase = "subscribed"
    BY <1>3 DEF RenderToaster
  <2>2. QED
    BY <2>1
<1>4. CASE Unsubscribe
    BY <1>4 DEF Unsubscribe
<1>5. CASE UnmountToaster
    BY <1>5 DEF UnmountToaster, Listening
<1>6. QED
    BY <1>1, <1>2, <1>3, <1>4, <1>5

LEMMA StoreSteps ==
    ASSUME ToastsInv, ToastsNext
    PROVE  ToastsInv'
<1>1. CASE Toast
    BY <1>1, ToastSteps
<1>2. CASE \E id \in 0 .. MaxToasts, open \in OpenProps : Update(id, open)
  <2>1. PICK id \in 0 .. MaxToasts, open \in OpenProps : Update(id, open)
    BY <1>2
  <2>2. id \in Nat
    BY <2>1 DEF Update, ToastsInv, ToastStates
  <2>3. QED
    BY <2>1, <2>2, UpdateSteps
<1>3. CASE \E id \in 0 .. MaxToasts : Dismiss(id) \/ RemoveLater(id)
  <2>1. PICK id \in 0 .. MaxToasts : Dismiss(id) \/ RemoveLater(id)
    BY <1>3
  <2>2. id \in Nat
    BY <2>1 DEF Dismiss, RemoveLater, ToastsInv, ToastStates
  <2>3. QED
    BY <2>1, <2>2, DismissSteps, RemoveSteps
<1>4. CASE MountToaster \/ Subscribe \/ RenderToaster \/ Unsubscribe \/ UnmountToaster
    BY <1>4, ToasterSteps
<1>5. QED
    BY <1>1, <1>2, <1>3, <1>4 DEF ToastsNext

-----------------------------------------------------------------------------
(* The sidebar, the carousel, the chart and the form. *)

SidebarStates ==
    [kind : {"sidebar"}, narrow : BOOLEAN, isMobile : {"undefined", "yes", "no"},
     watching : BOOLEAN, resized : BOOLEAN, openProp : SUBSET BOOLEAN,
     onOpenChange : BOOLEAN, open : BOOLEAN, openMobile : BOOLEAN,
     cookie : SUBSET BOOLEAN]

SidebarInv == ui \in SidebarStates

LEMMA SidebarSteps ==
    ASSUME SidebarInv, SidebarNext
    PROVE  SidebarInv'
<1> USE DEF SidebarInv, SidebarStates, Measured
<1>1. CASE WatchWindow
    BY <1>1 DEF WatchWindow
<1>2. CASE Resize
    BY <1>2 DEF Resize
<1>3. CASE OnChange
    BY <1>3 DEF OnChange
<1>4. ASSUME NEW open \in BOOLEAN, SetOpenMobile(open) PROVE SidebarInv'
    BY <1>4 DEF SetOpenMobile
<1>5. ASSUME NEW open \in BOOLEAN, SetOpen(open) PROVE SidebarInv'
  <2>1. CASE ui.onOpenChange
    <3>1. PICK prop \in SUBSET BOOLEAN : ui' = [ui EXCEPT !.openProp = prop,
                                                         !.cookie = {open}]
      BY <1>5, <2>1 DEF SetOpen
    <3>2. QED
      BY <3>1
  <2>2. CASE ~ui.onOpenChange
    <3>1. ui' = [ui EXCEPT !.open = open, !.cookie = {open}]
      BY <1>5, <2>2 DEF SetOpen
    <3>2. QED
      BY <3>1
  <2>3. QED
    BY <2>1, <2>2
<1>6. IsOpen \in BOOLEAN
  <2>1. ui.open \in BOOLEAN /\ (TRUE \in ui.openProp) \in BOOLEAN
    OBVIOUS
  <2>2. QED
    BY <2>1, Zenon DEF IsOpen
<1>7. ToggleSidebar => SidebarInv'
    BY <1>4, <1>5, <1>6 DEF ToggleSidebar
<1>8. CloseSheet => SidebarInv'
    BY <1>4 DEF CloseSheet
<1>9. CASE ChangeOpenProp
  <2>1. PICK prop \in SUBSET BOOLEAN : ui' = [ui EXCEPT !.openProp = prop]
    BY <1>6, <1>9 DEF ChangeOpenProp
  <2>2. QED
    BY <2>1
<1>10. QED
    BY <1>1, <1>2, <1>3, <1>7, <1>8, <1>9
    DEF SidebarNext, SidebarTrigger, HandleKeyDown, SidebarRail

CarouselStates ==
    [kind : {"carousel"}, children : Int, api : BOOLEAN, slides : Int, index : Int,
     due : BOOLEAN, heard : SUBSET {"select", "reInit"},
     canScrollPrev : BOOLEAN, canScrollNext : BOOLEAN]

\* once its effect has run, the component hears of every change of embla
CarouselInv ==
    /\ ui \in CarouselStates
    /\ ui.api /\ ~ui.due => ui.heard = {"select", "reInit"}
    /\ CarouselCurrent

LEMMA SelectFields ==
    ASSUME NEW c \in CarouselStates
    PROVE  LET s == OnSelect(c) IN
           /\ s \in CarouselStates
           /\ s.api = c.api /\ s.due = c.due /\ s.heard = c.heard
           /\ s.canScrollPrev <=> EmblaCanScrollPrev(s)
           /\ s.canScrollNext <=> EmblaCanScrollNext(s)
<1> DEFINE prev == EmblaCanScrollPrev(c)
<1> DEFINE next == EmblaCanScrollNext(c)
<1> DEFINE s == [c EXCEPT !.canScrollPrev = prev, !.canScrollNext = next]
<1>1. prev \in BOOLEAN /\ next \in BOOLEAN
    BY DEF EmblaCanScrollPrev, EmblaCanScrollNext
<1>2. OnSelect(c) = s
    BY DEF OnSelect
<1> HIDE DEF prev, next
<1>3. /\ s \in CarouselStates
      /\ s.api = c.api /\ s.due = c.due /\ s.heard = c.heard
      /\ s.index = c.index /\ s.slides = c.slides
    BY <1>1 DEF CarouselStates
<1>4. s.canScrollPrev = prev /\ s.canScrollNext = next
    BY <1>1 DEF CarouselStates
<1> HIDE DEF s
<1>5. (s.canScrollPrev <=> EmblaCanScrollPrev(s)) /\ (s.canScrollNext <=> EmblaCanScrollNext(s))
    BY <1>3, <1>4 DEF prev, next, EmblaCanScrollPrev, EmblaCanScrollNext
<1>6. QED
    BY <1>2, <1>3, <1>5, Zenon

LEMMA EmitSteps ==
    ASSUME CarouselInv, ui.api, NEW event \in {"select", "reInit"},
           NEW slides \in Int, NEW index \in Int,
           Emit(event, [ui EXCEPT !.slides = slides, !.index = index])
    PROVE  CarouselInv'
<1> DEFINE c == [ui EXCEPT !.slides = slides, !.index = index]
<1>1. /\ c \in CarouselStates
      /\ c.api /\ c.due = ui.due /\ c.heard = ui.heard
    BY DEF CarouselInv, CarouselStates
<1>2. ui' = IF event \in c.heard THEN OnSelect(c) ELSE c
    BY DEF Emit
<1> HIDE DEF c
<1>3. CASE event \in c.heard
  <2>1. /\ ui' \in CarouselStates
        /\ ui'.due = c.due /\ ui'.heard = c.heard
        /\ ui'.canScrollPrev <=> EmblaCanScrollPrev(ui')
        /\ ui'.canScrollNext <=> EmblaCanScrollNext(ui')
    BY <1>1, <1>2, <1>3, SelectFields
  <2>2. QED
    BY <1>1, <2>1 DEF CarouselInv, CarouselCurrent
<1>4. CASE event \notin c.heard
  <2>1. ui'.due
    BY <1>1, <1>2, <1>4 DEF CarouselInv, CarouselStates
  <2>2. QED
    BY <1>1, <1>2, <1>4, <2>1 DEF CarouselInv, CarouselCurrent
<1>5. QED
    BY <1>3, <1>4

\* embla keeps its slides when it scrolls
LEMMA ScrollSteps ==
    ASSUME CarouselInv, ui.api, NEW index \in Int, ScrollTo(index)
    PROVE  CarouselInv'
<1>1. [ui EXCEPT !.index = index] = [ui EXCEPT !.slides = ui.slides, !.index = index]
    BY DEF CarouselInv, CarouselStates
<1>2. QED
    BY <1>1, EmitSteps DEF ScrollTo, CarouselInv, CarouselStates

LEMMA CarouselKeeps ==
    ASSUME CarouselInv, CarouselSteps
    PROVE  CarouselInv'
<1>1. CASE EmblaCreated
  <2> DEFINE a == [ui EXCEPT !.api = TRUE]
  <2> DEFINE c == [a EXCEPT !.slides = ui.children, !.index = 0]
  <2>1. c \in CarouselStates
    <3>1. a \in CarouselStates /\ ui.children \in Int
      BY DEF CarouselInv, CarouselStates
    <3> HIDE DEF a
    <3>2. \A m, n \in Int : [a EXCEPT !.slides = m, !.index = n] \in CarouselStates
      BY <3>1 DEF CarouselStates
    <3>3. 0 \in Int
      OBVIOUS
    <3>4. QED
      BY <3>1, <3>2, <3>3, Zenon
  <2>2. ui' = [c EXCEPT !.due = TRUE, !.heard = {}]
    BY <1>1, Zenon DEF EmblaCreated
  <2> HIDE DEF c
  <2>3. ui' \in CarouselStates /\ ui'.due
    BY <2>1, <2>2 DEF CarouselStates
  <2>4. QED
    BY <2>3 DEF CarouselInv, CarouselCurrent
<1>2. CASE Listen
  <2> DEFINE c == [ui EXCEPT !.due = FALSE, !.heard = {"select", "reInit"}]
  <2>1. /\ c \in CarouselStates
        /\ c.heard = {"select", "reInit"}
        /\ ui' = OnSelect(c)
    BY <1>2 DEF Listen, CarouselInv, CarouselStates
  <2> HIDE DEF c
  <2>2. /\ ui' \in CarouselStates
        /\ ui'.heard = c.heard
        /\ ui'.canScrollPrev <=> EmblaCanScrollPrev(ui')
        /\ ui'.canScrollNext <=> EmblaCanScrollNext(ui')
    BY <2>1, SelectFields
  <2>3. QED
    BY <2>1, <2>2 DEF CarouselInv, CarouselCurrent
<1>3. CASE ReInit
  <2> DEFINE index == Lesser(ui.index, ui.children - 1)
  <2>1. ui.api /\ ui.children \in Int /\ index \in Int
    BY <1>3 DEF ReInit, Lesser, CarouselInv, CarouselStates
  <2>2. [ui EXCEPT !.slides = ui.children].index = ui.index
    BY DEF CarouselInv, CarouselStates
  <2>3. Emit("reInit", [ui EXCEPT !.slides = ui.children, !.index = index])
    BY <1>3, <2>2 DEF ReInit
  <2>4. QED
    BY <2>1, <2>3, EmitSteps
<1>4. ScrollPrev \/ ScrollNext => CarouselInv'
    BY ScrollSteps DEF ScrollPrev, ScrollNext, CarouselInv, CarouselStates
<1>5. ASSUME NEW index \in 0 .. MaxSlides - 1, Drag(index) PROVE CarouselInv'
    BY <1>5, ScrollSteps DEF Drag
<1>6. ASSUME NEW n \in 1 .. MaxSlides, ChangeChildren(n) PROVE CarouselInv'
    BY <1>6 DEF ChangeChildren, CarouselInv, CarouselStates, CarouselCurrent,
                EmblaCanScrollPrev, EmblaCanScrollNext
<1>7. QED
    BY <1>1, <1>2, <1>3, <1>4, <1>5, <1>6
    DEF CarouselSteps, CarouselPrevious, CarouselNext, OnArrow

\* the configuration of a chart is given once; the pointer comes and goes
ChartInv ==
    ui \in [kind : {"chart"}, config : SUBSET Keys, labelled : SUBSET Keys,
            colors : [Keys -> {"none", "color", "theme"}],
            dataKey : Keys, name : Keys \cup {NoKey}, word : Keys \cup {NoKey},
            active : BOOLEAN]

ItemInv ==
    ui \in [kind : {"item"}, error : Errors, help : BOOLEAN,
            parts : SUBSET {"description", "message"}]

ErrorLists == Seq(Messages \cup {NoMessage})

ErrorsInv ==
    ui \in [kind : {"errors"}, given : BOOLEAN, errors : ErrorLists, children : BOOLEAN]

LEMMA FormSteps ==
    ASSUME ItemInv \/ ErrorsInv, FormNext
    PROVE  ItemInv' \/ ErrorsInv'
<1>1. (Is("item") => ItemInv) /\ (Is("errors") => ErrorsInv)
    BY DEF Is, ItemInv, ErrorsInv
<1>2. ASSUME NEW error \in Errors, Validate(error) PROVE ItemInv'
    BY <1>1, <1>2 DEF Validate, ItemInv
<1>3. ASSUME NEW message \in Messages \cup {NoMessage}, AddError(message)
      PROVE  ErrorsInv'
  <2> DEFINE errors == Append(ui.errors, message)
  <2>1. ErrorsInv /\ ui' = [ui EXCEPT !.errors = errors]
    BY <1>1, <1>3 DEF AddError
  <2>2. errors \in ErrorLists
    BY <2>1 DEF ErrorsInv, ErrorLists
  <2> HIDE DEF errors
  <2>3. QED
    BY <2>1, <2>2 DEF ErrorsInv
<1>4. ASSUME ClearErrors PROVE ErrorsInv'
  <2>1. << >> \in ErrorLists
    BY DEF ErrorLists
  <2>2. QED
    BY <1>1, <1>4, <2>1 DEF ClearErrors, ErrorsInv
<1>5. QED
    BY <1>2, <1>3, <1>4 DEF FormNext

-----------------------------------------------------------------------------
(* Whichever component is mounted. *)

ComponentsInv ==
    \/ GraphInv
    \/ CopyInv
    \/ TableInv
    \/ HeaderInv
    \/ ToastsInv
    \/ SidebarInv
    \/ CarouselInv
    \/ ChartInv
    \/ ItemInv \/ ErrorsInv
    \/ InputInv

InputKinds == {"slider", "toggle", "group", "day", "addon"}

LEMMA Kinds ==
    /\ GraphInv => Is("graph")
    /\ CopyInv => Is("copy")
    /\ TableInv => Is("table")
    /\ HeaderInv => Is("header")
    /\ ToastsInv => Is("toasts")
    /\ SidebarInv => Is("sidebar")
    /\ CarouselInv => Is("carousel")
    /\ ChartInv => Is("chart")
    /\ ItemInv => Is("item")
    /\ ErrorsInv => Is("errors")
    /\ InputInv => ui.kind \in InputKinds
<1>1. /\ GraphInv => Is("graph")
      /\ CopyInv => Is("copy")
      /\ TableInv => Is("table")
      /\ HeaderInv => Is("header")
    BY DEF Is, GraphInv, GraphStates, CopyInv, TableInv, HeaderInv
<1>2. /\ ToastsInv => Is("toasts")
      /\ SidebarInv => Is("sidebar")
      /\ CarouselInv => Is("carousel")
    BY DEF Is, ToastsInv, ToastStates, SidebarInv, SidebarStates, CarouselInv,
           CarouselStates
<1>3. /\ ChartInv => Is("chart")
      /\ ItemInv => Is("item")
      /\ ErrorsInv => Is("errors")
    BY DEF Is, ChartInv, ItemInv, ErrorsInv
<1>4. InputInv => ui.kind \in InputKinds
    BY DEF InputInv, SliderInv, ToggleInv, GroupInv, DayInv, AddonInv, Toggles,
           ToggleGroups, InputKinds
<1>5. QED
    BY <1>1, <1>2, <1>3, <1>4

\* no step takes one component for another
LEMMA NextKinds ==
    /\ GraphNext => Is("graph")
    /\ CopyNext => Is("copy")
    /\ TableNext => Is("table")
    /\ HeaderNext => Is("header")
    /\ ToastsNext => Is("toasts")
    /\ SidebarNext => Is("sidebar")
    /\ CarouselSteps => Is("carousel")
    /\ Point => Is("chart")
    /\ FormNext => Is("item") \/ Is("errors")
    /\ InputsNext => ui.kind \in InputKinds
<1>1. GraphNext => Is("graph")
    BY Zenon DEF GraphNext, GraphPeerFound, StatsReceived, Tick, Plot
<1>2. CopyNext => Is("copy")
    BY Zenon DEF CopyNext, HandleCopy, Copied, NotCopied, Uncheck
<1>3. TableNext => Is("table")
    BY Zenon DEF TableNext, SetSearchQuery, SetRoleFilter, TableStats
<1>4. HeaderNext => Is("header")
    BY Zenon DEF HeaderNext, StartClock, SecondPasses, IntervalFires, StopClock,
                 RemountHeader
<1>5. ToastsNext => Is("toasts")
    BY Zenon DEF ToastsNext, Toast, Update, Dismiss, RemoveLater, MountToaster, Subscribe,
                 RenderToaster, Unsubscribe, UnmountToaster
<1>6. SidebarNext => Is("sidebar")
    BY Zenon DEF SidebarNext, WatchWindow, Resize, OnChange, ChangeOpenProp,
                 SidebarTrigger, HandleKeyDown, SidebarRail, CloseSheet
<1>7. CarouselSteps => Is("carousel")
    BY Zenon DEF CarouselSteps, EmblaCreated, Listen, ReInit, CarouselPrevious,
                 CarouselNext, OnArrow, Drag, ChangeChildren
<1>8. Point => Is("chart")
    BY DEF Point
<1>9. FormNext => Is("item") \/ Is("errors")
    BY Zenon DEF FormNext, Validate, AddError, ClearErrors
<1>10. InputsNext => ui.kind \in InputKinds
    BY DEF InputsNext, ChangeValue, DragThumb, CyberToggle, ChangeLooks, MoveFocus,
           FollowFocus, Blur, InputGroupAddon, Is, InputKinds
<1>11. QED
    BY <1>1, <1>2, <1>3, <1>4, <1>5, <1>6, <1>7, <1>8, <1>9, <1>10

\* the invariant of the kind that is mounted
LEMMA OfItsKind ==
    ASSUME ComponentsInv
    PROVE  /\ Is("graph") => GraphInv
           /\ Is("copy") => CopyInv
           /\ Is("table") => TableInv
           /\ Is("header") => HeaderInv
           /\ Is("toasts") => ToastsInv
           /\ Is("sidebar") => SidebarInv
           /\ Is("carousel") => CarouselInv
           /\ Is("chart") => ChartInv
           /\ Is("item") => ItemInv
           /\ Is("errors") => ErrorsInv
           /\ ui.kind \in InputKinds => InputInv
    BY Kinds DEF ComponentsInv, Is, InputKinds

LEMMA ComponentsStart ==
    ComponentsInit => ComponentsInv
<1>1. ui = GraphOpened => GraphInv
    BY DEF GraphOpened, GraphInv, GraphStates, Follows
<1>2. ui = CopyShown => CopyInv
    BY DEF CopyShown, CopyInv
<1>3. ui = Header => HeaderInv
    BY DEF Header, HeaderInv
<1>4. ui = NoToast => ToastsInv
    BY DEF NoToast, ToastsInv, ToastStates, StoreInv
<1>5. ui = NoCarousel => CarouselInv
    BY CarouselAssumption DEF NoCarousel, CarouselInv, CarouselStates, CarouselCurrent
<1>6. ui \in Tables => TableInv
    BY DEF Tables, TableInv, RoleOptions
<1>7. ui \in Sidebars => SidebarInv
    BY DEF Sidebars, SidebarInv, SidebarStates
<1>8. /\ ui \in Items => ItemInv
      /\ ui \in FieldErrors => ErrorsInv
  <2>1. << >> \in ErrorLists
    BY DEF ErrorLists
  <2>2. QED
    BY <2>1 DEF Items, ItemInv, Errors, FieldErrors, ErrorsInv
<1>9. ui \in Sliders \cup Toggles \cup ToggleGroups \cup Days \cup Addons => InputInv
  <2>1. ui \in Sliders => SliderInv
    BY DEF Sliders, SliderInv
  <2>2. ui \in Days => DayInv
    BY DEF Days, DayInv
  <2>3. ui \in Addons => AddonInv
    BY DEF Addons, AddonInv
  <2>4. QED
    BY <2>1, <2>2, <2>3 DEF InputInv, ToggleInv, GroupInv
<1>10. ui \in Charts => ChartInv
    BY DEF Charts, ChartInv
<1>11. QED
    BY <1>1, <1>2, <1>3, <1>4, <1>5, <1>6, <1>7, <1>8, <1>9, <1>10
    DEF ComponentsInit, ComponentsInv

LEMMA ComponentsKeep ==
    ASSUME ComponentsInv, [ComponentsNext]_ui
    PROVE  ComponentsInv'
<1>1. CASE GraphNext
    BY <1>1, NextKinds, OfItsKind, GraphSteps DEF ComponentsInv
<1>2. CASE CopyNext
    BY <1>2, NextKinds, OfItsKind, CopySteps DEF ComponentsInv
<1>3. CASE TableNext
    BY <1>3, NextKinds, OfItsKind, TableSteps DEF ComponentsInv
<1>4. CASE HeaderNext
    BY <1>4, NextKinds, OfItsKind, HeaderSteps DEF ComponentsInv
<1>5. CASE ToastsNext
    BY <1>5, NextKinds, OfItsKind, StoreSteps DEF ComponentsInv
<1>6. CASE SidebarNext
    BY <1>6, NextKinds, OfItsKind, SidebarSteps DEF ComponentsInv
<1>7. CASE CarouselSteps
    BY <1>7, NextKinds, OfItsKind, CarouselKeeps DEF ComponentsInv
<1>8. CASE Point
  <2>1. ChartInv
    BY <1>8, NextKinds, OfItsKind
  <2>2. ChartInv'
    BY <1>8, <2>1 DEF Point, ChartInv
  <2>3. QED
    BY <2>2 DEF ComponentsInv
<1>9. CASE FormNext
    BY <1>9, NextKinds, OfItsKind, FormSteps DEF ComponentsInv
<1>10. CASE InputsNext
    BY <1>10, NextKinds, OfItsKind, InputSteps DEF ComponentsInv
<1>11. CASE UNCHANGED ui
  <2>1. /\ GraphInv => GraphInv'
        /\ CopyInv => CopyInv'
        /\ TableInv => TableInv'
        /\ HeaderInv => HeaderInv'
    BY <1>11 DEF GraphInv, CopyInv, TableInv, HeaderInv
  <2>2. /\ ToastsInv => ToastsInv'
        /\ ChartInv => ChartInv'
        /\ ItemInv => ItemInv'
        /\ ErrorsInv => ErrorsInv'
    BY <1>11 DEF ToastsInv, ChartInv, ItemInv, ErrorsInv
  <2>3. SidebarInv => SidebarInv'
    BY <1>11 DEF SidebarInv
  <2>4. CarouselInv => CarouselInv'
    BY <1>11 DEF CarouselInv, CarouselCurrent, EmblaCanScrollPrev, EmblaCanScrollNext, Is
  <2>5. SliderInv => SliderInv'
    BY <1>11 DEF SliderInv
  <2>6. InputInv => InputInv'
    BY <1>11, <2>5 DEF InputInv, ToggleInv, GroupInv, DayInv, AddonInv
  <2>7. QED
    BY <2>1, <2>2, <2>3, <2>4, <2>6 DEF ComponentsInv
<1>12. QED
    BY <1>1, <1>2, <1>3, <1>4, <1>5, <1>6, <1>7, <1>8, <1>9, <1>10, <1>11
    DEF ComponentsNext

LEMMA ComponentsInvariant == ComponentsSpec => []ComponentsInv
<1>1. QED
    BY ComponentsStart, ComponentsKeep, PTL DEF ComponentsSpec

-----------------------------------------------------------------------------
\* The graph (app/(dashboard)/peers/page.tsx): however the messages and the readings of
\* the clock come, its points follow each other and hold no byte twice; until the counter
\* first starts again they pass over none either.
THEOREM GraphCountsOnce == ComponentsSpec => []BytesPlottedOnce
<1>1. ComponentsInv => BytesPlottedOnce
    BY OfItsKind, GraphShown DEF BytesPlottedOnce
<1>2. QED
    BY <1>1, ComponentsInvariant, PTL

\* The copy button and the toasts (components/peer/peer-config.tsx, hooks/use-toast.ts):
\* a check mark has a timer that ends it, and a toast in the store has one exactly when
\* it was ever dismissed, also when an update opened it again.
THEOREM TimersEndWhatIsShown == ComponentsSpec => []ShownForATime
<1>1. ComponentsInv => ShownForATime
  <2>1. CopyInv => (CopyableValue = "Check" => ui.timers > 0)
    BY DEF CopyInv, CopyableValue
  <2>2. ToastsInv =>
            \A t \in ui.toasts : t.id \in ui.dismissed <=> t.id \in ui.toastTimeouts
    BY DEF ToastsInv, StoreInv
  <2>3. QED
    BY <2>1, <2>2, OfItsKind DEF ShownForATime
<1>2. QED
    BY <1>1, ComponentsInvariant, PTL

\* The buttons of the carousel (components/ui/carousel.tsx): from the moment the effect of
\* a new embla has run it hears of every scroll and of every change of the slides, so its
\* buttons are enabled just where embla can scroll to.
THEOREM ButtonsFitEmbla == ComponentsSpec => []CarouselCurrent
<1>1. ComponentsInv => CarouselCurrent
    BY OfItsKind DEF CarouselInv, CarouselCurrent
<1>2. QED
    BY <1>1, ComponentsInvariant, PTL
=============================================================================
