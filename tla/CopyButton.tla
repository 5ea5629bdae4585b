----------------------------- MODULE CopyButton -----------------------------
(***************************************************************************)
(* A value of the peer's configuration that a click copies                 *)
(* (frontend/components/peer/peer-config.tsx): the check mark goes away    *)
(* after two seconds, by a timer that a second click does not clear.       *)
(***************************************************************************)
EXTENDS Mounted, Naturals

CONSTANT MaxClicks

\* writing: clicks whose text is not in the clipboard yet; timers: those running
CopyShown == [kind |-> "copy", copied |-> FALSE, writing |-> 0, timers |-> 0]

HandleCopy ==
    /\ Is("copy")
    /\ ui.writing + ui.timers < MaxClicks
    /\ ui' = [ui EXCEPT !.writing = @ + 1]

Copied ==
    /\ Is("copy")
    /\ ui.writing > 0
    /\ ui' = [ui EXCEPT !.writing = @ - 1, !.copied = TRUE, !.timers = @ + 1]

\* the browser refuses, and nothing is shown
NotCopied ==
    /\ Is("copy")
    /\ ui.writing > 0
    /\ ui' = [ui EXCEPT !.writing = @ - 1]

\* after 2000 ms
Uncheck ==
    /\ Is("copy")
    /\ ui.timers > 0
    /\ ui' = [ui EXCEPT !.copied = FALSE, !.timers = @ - 1]

\* the button: a check mark, or the sign to copy
CopyableValue == IF ui.copied THEN "Check" ELSE "Copy"

CopyNext == HandleCopy \/ Copied \/ NotCopied \/ Uncheck
=============================================================================
