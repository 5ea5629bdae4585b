------------------------------ MODULE Sidebar ------------------------------
(***************************************************************************)
(* The sidebar of frontend/components/ui/sidebar.tsx and the hook          *)
(* useIsMobile (frontend/hooks/use-mobile.ts): a column that can be        *)
(* collapsed, or a sheet over the page when the window is narrow.          *)
(***************************************************************************)
EXTENDS Mounted

\* narrow: the window is; isMobile: of useIsMobile; watching: its effect has run;
\* resized: the browser has yet to fire "change"; openProp: the prop open, if it is
\* given; onOpenChange: the parent gave a handler; open: the state of its own; cookie:
\* what was last written in it, if anything
Sidebars == [kind : {"sidebar"}, narrow : BOOLEAN, isMobile : {"undefined"},
             watching : {FALSE}, resized : {FALSE}, openProp : {{}, {TRUE}, {FALSE}},
             onOpenChange : BOOLEAN, open : BOOLEAN, openMobile : {FALSE}, cookie : {{}}]

IsMobile == ui.isMobile = "yes"

IsOpen == IF ui.openProp = {} THEN ui.open ELSE TRUE \in ui.openProp

State == IF IsOpen THEN "expanded" ELSE "collapsed"

Measured == IF ui.narrow THEN "yes" ELSE "no"

WatchWindow ==
    /\ Is("sidebar")
    /\ ~ui.watching
    /\ ui' = [ui EXCEPT !.watching = TRUE, !.isMobile = Measured]

Resize ==
    /\ Is("sidebar")
    /\ ui' = [ui EXCEPT !.narrow = ~@, !.resized = ui.watching]

OnChange ==
    /\ Is("sidebar")
    /\ ui.resized
    /\ ui' = [ui EXCEPT !.resized = FALSE, !.isMobile = Measured]

\* a parent that is told may refuse, or have no prop to change: then nothing opens or
\* closes; the cookie is written all the same
SetOpen(open) ==
    \/ /\ ui.onOpenChange
       /\ \E prop \in {ui.openProp} \cup (IF ui.openProp = {} THEN {} ELSE {{open}}) :
             ui' = [ui EXCEPT !.openProp = prop, !.cookie = {open}]
    \/ /\ ~ui.onOpenChange
       /\ ui' = [ui EXCEPT !.open = open, !.cookie = {open}]

SetOpenMobile(open) == ui' = [ui EXCEPT !.openMobile = open]

ToggleSidebar ==
    IF IsMobile THEN SetOpenMobile(~ui.openMobile) ELSE SetOpen(~IsOpen)

\* the parent changes the prop of its own accord
ChangeOpenProp ==
    /\ Is("sidebar")
    /\ ui.openProp # {}
    /\ ui' = [ui EXCEPT !.openProp = {~IsOpen}]

\* collapsible: "none", "offcanvas" or "icon"
SidebarView(collapsible) ==
    IF collapsible = "none" THEN "expanded"
    ELSE IF IsMobile THEN (IF ui.openMobile THEN "sheet" ELSE "nothing")
    ELSE IF State = "expanded" THEN "expanded"
    ELSE collapsible

SidebarTrigger == Is("sidebar") /\ ToggleSidebar

\* Ctrl or Cmd, and B
HandleKeyDown == Is("sidebar") /\ ToggleSidebar

\* at the edge of the column, also of a collapsed one
SidebarRail ==
    /\ Is("sidebar")
    /\ SidebarView("offcanvas") \notin {"sheet", "nothing"}
    /\ ToggleSidebar

\* a click outside the sheet
CloseSheet ==
    /\ Is("sidebar")
    /\ SidebarView("offcanvas") = "sheet"
    /\ SetOpenMobile(FALSE)

\* the tooltip of a button, which stands for its text
MenuTooltip == State = "collapsed" /\ ~IsMobile

\* what goes away beside the icons
IconsOnly(collapsible) == SidebarView(collapsible) = "icon"

GroupLabel(collapsible) == ~IconsOnly(collapsible)
GroupAction(collapsible) == ~IconsOnly(collapsible)
MenuAction(collapsible) == ~IconsOnly(collapsible)
MenuBadge(collapsible) == ~IconsOnly(collapsible)
MenuSub(collapsible) == ~IconsOnly(collapsible)
MenuSubButton(collapsible) == ~IconsOnly(collapsible) /\ MenuSub(collapsible)

SidebarNext ==
    \/ WatchWindow \/ Resize \/ OnChange \/ ChangeOpenProp
    \/ SidebarTrigger \/ HandleKeyDown \/ SidebarRail \/ CloseSheet
=============================================================================
