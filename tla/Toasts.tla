------------------------------- MODULE Toasts -------------------------------
(***************************************************************************)
(* The toasts (frontend/hooks/use-toast.ts, components/ui/toaster.tsx): a  *)
(* store outside React, and a Toaster that mirrors it.  The effect that    *)
(* subscribes the Toaster runs after each render: it unsubscribes it and   *)
(* subscribes it again, with the effects of other components in between.   *)
(* The text of a toast is left out, and the order of the toasts: the       *)
(* newest, whose id is the greatest, comes first.                          *)
(***************************************************************************)
EXTENDS Mounted, Integers, FiniteSets

CONSTANT MaxToasts

TOAST_LIMIT == 1

\* count, toasts (memoryState), toastTimeouts: the store.  state, pending: what the
\* Toaster shows, and what setState was given since.  phase: "subscribed", or "rendered"
\* with the effect to come, or "apart" from the listeners; dismissed: history, the ids
\* ever dismissed
NoToast == [kind |-> "toasts", count |-> 0, toasts |-> {}, toastTimeouts |-> {},
            state |-> {}, pending |-> {}, phase |-> "unmounted", dismissed |-> {}]

IdsOf(toasts) == {t.id : t \in toasts}

\* 0 for toastId: undefined, which means every toast
Meant(id) == IF id = 0 THEN IdsOf(ui.toasts) ELSE {id}

\* the props given to update: open is among them, or not
OpenProps == {{}, {TRUE}, {FALSE}}

Newest(toasts, limit) ==
    {t \in toasts : Cardinality({u \in toasts : u.id > t.id}) < limit}

Reducer(toasts, action) ==
    CASE action.type = "ADD_TOAST" ->
            Newest(toasts \cup {[id |-> action.id, open |-> TRUE]}, TOAST_LIMIT)
      [] action.type = "UPDATE_TOAST" ->
            {IF t.id = action.id /\ action.open # {}
             THEN [t EXCEPT !.open = TRUE \in action.open]
             ELSE t : t \in toasts}
      [] action.type = "DISMISS_TOAST" ->
            {[t EXCEPT !.open = @ /\ action.id \notin {0, t.id}] : t \in toasts}
      [] action.type = "REMOVE_TOAST" -> {t \in toasts : t.id # action.id}

\* Wrong: one timer at a time.
AddToRemoveQueueOnce(timeouts, ids) == IF timeouts # {} THEN timeouts ELSE ids

AddToRemoveQueue(timeouts, ids) == timeouts \cup ids

Timeouts(action) ==
    CASE action.type = "DISMISS_TOAST" ->
            AddToRemoveQueue(ui.toastTimeouts, Meant(action.id))
      [] action.type = "REMOVE_TOAST" -> ui.toastTimeouts \ {action.id}
      [] OTHER -> ui.toastTimeouts

Listening == ui.phase \in {"subscribed", "rendered"}

Dispatch(type, id, open) ==
    LET action == [type |-> type, id |-> id, open |-> open] IN
    [ui EXCEPT !.toasts = Reducer(@, action),
               !.toastTimeouts = Timeouts(action),
               !.pending = IF Listening THEN {Reducer(ui.toasts, action)} ELSE @]

Toast ==
    /\ Is("toasts")
    /\ ui.count < MaxToasts
    /\ ui' = [Dispatch("ADD_TOAST", ui.count + 1, {TRUE}) EXCEPT !.count = @ + 1]

\* by the handle that toast returned, also when the toast was dismissed or has gone
Update(id, open) ==
    /\ Is("toasts")
    /\ id \in 1 .. ui.count
    /\ ui' = Dispatch("UPDATE_TOAST", id, open)

\* by the handle, by closing the toast, or all of them
Dismiss(id) ==
    /\ Is("toasts")
    /\ id \in 0 .. ui.count
    /\ ui' = [Dispatch("DISMISS_TOAST", id, {}) EXCEPT !.dismissed = @ \cup Meant(id)]

\* after TOAST_REMOVE_DELAY
RemoveLater(id) ==
    /\ Is("toasts")
    /\ id \in ui.toastTimeouts
    /\ ui' = Dispatch("REMOVE_TOAST", id, {})

\* the first render takes the store's state
MountToaster ==
    /\ Is("toasts")
    /\ ui.phase = "unmounted"
    /\ ui' = [ui EXCEPT !.phase = "apart", !.state = ui.toasts]

Subscribe ==
    /\ Is("toasts")
    /\ ui.phase = "apart"
    /\ ui' = [ui EXCEPT !.phase = "subscribed"]

RenderToaster ==
    /\ Is("toasts")
    /\ ui.phase = "subscribed"
    /\ \E state \in ui.pending :
          ui' = [ui EXCEPT !.phase = "rendered", !.state = state, !.pending = {}]

Unsubscribe ==
    /\ Is("toasts")
    /\ ui.phase = "rendered"
    /\ ui' = [ui EXCEPT !.phase = "apart"]

UnmountToaster ==
    /\ Is("toasts")
    /\ Listening
    /\ ui' = [ui EXCEPT !.phase = "unmounted", !.state = {}, !.pending = {}]

\* the toasts drawn, open or fading
Toaster == IdsOf(ui.state)

ToastsNext ==
    \/ Toast
    \/ \E id \in 0 .. MaxToasts, open \in OpenProps : Update(id, open)
    \/ \E id \in 0 .. MaxToasts : Dismiss(id) \/ RemoveLater(id)
    \/ MountToaster \/ Subscribe \/ RenderToaster \/ Unsubscribe \/ UnmountToaster
=============================================================================
