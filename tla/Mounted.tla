------------------------------ MODULE Mounted ------------------------------
(***************************************************************************)
(* A component with state of its own, mounted in a page: ui is a record of *)
(* its React state and of what it mirrors outside React.  Rendering        *)
(* follows the event that sets a state at once, except where a module      *)
(* says that an effect or an event of the browser comes later.             *)
(***************************************************************************)
VARIABLE ui

Is(kind) == ui.kind = kind
=============================================================================
