---------------------------- MODULE ChartLabels ----------------------------
(***************************************************************************)
(* How a chart of frontend/components/ui/chart.tsx names its series: the   *)
(* tooltip and the legend each look one up in the configuration of the     *)
(* chart.  No nameKey, labelKey or formatter is given, and no label is     *)
(* hidden; an entry of the configuration is known by its key.              *)
(***************************************************************************)
EXTENDS Mounted

CONSTANTS Keys, NoKey

\* config: the keys it has; labelled: those whose entry has a label; a series: its
\* dataKey and the name it may have; word: what the data have under its dataKey, unless
\* it is a number; colors: the entries with one color, or with one for each theme;
\* active: the pointer is over the chart
Charts == [kind : {"chart"}, config : SUBSET Keys, labelled : SUBSET Keys,
           colors : [Keys -> {"none", "color", "theme"}],
           dataKey : Keys, name : Keys \cup {NoKey}, word : Keys \cup {NoKey},
           active : {FALSE}]

\* the entry of a key: that of the word found under the key, if there is one
PayloadConfig(key, word) ==
    IF word # NoKey /\ word \in ui.config THEN word
    ELSE IF key \in ui.config THEN key
    ELSE NoKey

Label(entry) == IF entry \in ui.labelled THEN entry ELSE NoKey

\* recharts names a series without a name by its dataKey
ItemName == IF ui.name = NoKey THEN ui.dataKey ELSE ui.name

WordUnder(key) == IF key = ui.dataKey THEN ui.word ELSE NoKey

\* the heading: the label of the entry that the category names, or the category as it
\* is; where the category is no string, the label of the series, if it has one
TooltipLabel(category) ==
    LET entry == IF category = NoKey THEN PayloadConfig(ui.dataKey, ui.word)
                 ELSE category
    IN  IF ~ui.active THEN {}
        ELSE IF entry \in ui.labelled THEN {[label |-> entry]}
        ELSE {[text |-> text] : text \in {category} \ {NoKey}}

\* a row: the entry found, whose icon it shows, and the label of it or the name
TooltipContent ==
    LET entry == PayloadConfig(ItemName, WordUnder(ItemName)) IN
    IF ~ui.active THEN {}
    ELSE {[entry |-> entry, text |-> IF Label(entry) = NoKey THEN ItemName ELSE entry]}

\* the legend has no value to look at
LegendContent ==
    LET entry == PayloadConfig(ui.dataKey, NoKey) IN
    [entry |-> entry, text |-> Label(entry)]

\* the variables --color-key of each theme; there is no sheet without one
ChartStyle ==
    LET colored == {key \in ui.config : ui.colors[key] # "none"} IN
    IF colored = {} THEN {}
    ELSE {[theme |-> theme, key |-> key] : theme \in {"light", "dark"}, key \in colored}

Point ==
    /\ Is("chart")
    /\ ui' = [ui EXCEPT !.active = ~@]
=============================================================================
