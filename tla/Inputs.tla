------------------------------- MODULE Inputs -------------------------------
(***************************************************************************)
(* Inputs that keep no value of their own (frontend/components/ui/,        *)
(* components/cyber/): a slider and a toggle whose parent may hold the     *)
(* value, the looks of a group of toggles, a day of a calendar, and the    *)
(* ornament of an input.                                                   *)
(***************************************************************************)
EXTENDS Mounted, Naturals

\* value, defaultValue: how many numbers each has, 0 for one that is not given; thumbs:
\* how many numbers the slider of Radix holds, which starts with one if it is given none
Sliders == {s \in [kind : {"slider"}, value : 0 .. 2, defaultValue : 0 .. 2,
                   thumbs : 0 .. 2] :
    s.thumbs = IF s.value # 0 THEN s.value
               ELSE IF s.defaultValue # 0 THEN s.defaultValue ELSE 1}

\* a range by default
Slider == IF ui.value # 0 THEN ui.value
          ELSE IF ui.defaultValue # 0 THEN ui.defaultValue
          ELSE 2

\* the parent of a slider it controls gives it another number of values
ChangeValue(n) ==
    /\ Is("slider")
    /\ ui.value # 0
    /\ ui' = [ui EXCEPT !.value = n, !.thumbs = n]

Toggles == [kind : {"toggle"}, checked : BOOLEAN]

\* a thumb is dragged, which changes no number of values
DragThumb == Is("slider") /\ UNCHANGED ui

\* the page takes what it is told
CyberToggle ==
    /\ Is("toggle")
    /\ ui' = [ui EXCEPT !.checked = ~@]

\* variant, size: one word for both, "" for one that is not given; items: their own
Looks == {"", "default", "outline"}
ToggleGroups == [kind : {"group"}, looks : Looks, items : [1 .. 2 -> Looks]]

\* what the items inherit, also when it is nothing
ToggleGroup == ui.looks

\* the group's goes before the item's own; "" is drawn as "default"
ToggleGroupItem(i) ==
    IF ToggleGroup # "" THEN ToggleGroup
    ELSE IF ui.items[i] # "" THEN ui.items[i]
    ELSE "default"

ChangeLooks(looks) ==
    /\ Is("group")
    /\ ui' = [ui EXCEPT !.looks = looks]

\* focused: the calendar's; due: the effect that follows it is; hasFocus: the browser's
Days == [kind : {"day"}, focused : {FALSE}, due : {TRUE}, hasFocus : {FALSE},
         selected : BOOLEAN, range : SUBSET {"start", "end", "middle"}]

\* the arrow keys of the calendar
MoveFocus ==
    /\ Is("day")
    /\ ui' = [ui EXCEPT !.focused = ~@, !.due = TRUE]

\* the focus is taken, never given up
FollowFocus ==
    /\ Is("day")
    /\ ui.due
    /\ ui' = [ui EXCEPT !.due = FALSE, !.hasFocus = @ \/ ui.focused]

\* the focus goes elsewhere, which the calendar hears of
Blur ==
    /\ Is("day")
    /\ ui.hasFocus
    /\ ui' = [ui EXCEPT !.hasFocus = FALSE, !.focused = FALSE, !.due = @ \/ ui.focused]

\* a day selected by itself, or its place in a range
CalendarDayButton ==
    [single |-> ui.selected /\ ui.range = {}, range |-> ui.range]

\* control: what the group holds beside its ornament
Addons == [kind : {"addon"}, control : {"input", "textarea", "input and button"},
           hasFocus : {"nothing"}]

\* only an input is looked for, and a button keeps the click
InputGroupAddon(target) ==
    /\ Is("addon")
    /\ target = "button" => ui.control = "input and button"
    /\ ui' = [ui EXCEPT !.hasFocus =
          IF target = "button" THEN "button"
          ELSE IF ui.control = "textarea" THEN @
          ELSE "input"]

InputsNext ==
    \/ \E n \in 1 .. 2 : ChangeValue(n)
    \/ DragThumb \/ CyberToggle
    \/ \E looks \in Looks : ChangeLooks(looks)
    \/ MoveFocus \/ FollowFocus \/ Blur
    \/ \E target \in {"button", "ornament"} : InputGroupAddon(target)
=============================================================================
