------------------------------ MODULE FocusWay ------------------------------
(***************************************************************************)
(* Which region has the keys: the left dock, a pane, the bottom dock or    *)
(* the status bar, how focus moves between them, and the way back `esc`    *)
(* takes.  Around it: docks that fold and open, panes that split and       *)
(* close, a zoom that hides everything else, and a layout that follows the *)
(* width of the terminal.                                                  *)
(*                                                                         *)
(* Handlers call one another in an order that matters, so each is an       *)
(* operator from one state of the interface to the next, and an action     *)
(* applies one to what the event finds: every event first lets the layout  *)
(* follow the screen.  Where a region is drawn is in PaneLayout, except    *)
(* for what a zoom hides: of the panes' reading order this module says     *)
(* only that a new pane comes after the one it was split from, and that a  *)
(* close may change it.                                                    *)
(***************************************************************************)
EXTENDS Integers, Sequences, FiniteSets, SequencesExt, FiniteSetsExt, Retain

CONSTANTS StackDepth,  \* STACK_DEPTH: how far back `esc` remembers
          MaxPanes     \* bound: panes ever made

VARIABLES ui,    \* the interface
          wide   \* the terminal is ADAPT_WIDTH columns or more

vars == <<ui, wide>>

Focus == {"Tree", "Editor", "Status", "BottomDock"}
Preset == {"Focus", "Standard"}
NoPane == -1

\* `Place`: a region to go back to, a pane by its id.
Dock == [at |-> "Tree", pane |-> NoPane]
Bottom == [at |-> "BottomDock", pane |-> NoPane]
StatusBar == [at |-> "Status", pane |-> NoPane]
PaneAt(id) == [at |-> "Editor", pane |-> id]

Panes(u) == Range(u.panes)

\* `App::place`
Here(u) == IF u.focus = "Editor" THEN PaneAt(u.pane)
           ELSE [at |-> u.focus, pane |-> NoPane]

\* `App::zoomed`, as the region that has the whole body.
DockFills(u) == u.focus = "Tree" /\ u.dockZoomed /\ u.dockOpen
PaneFills(u) == u.focus = "Editor" /\ u.zoomedPane = u.pane
IsZoomed(u) == DockFills(u) \/ PaneFills(u)

Visible(u) == IF PaneFills(u) THEN {u.pane}
              ELSE IF DockFills(u) THEN {} ELSE Panes(u)
-----------------------------------------------------------------------------
\* Mutant: at the limit the newest place is lost instead of the oldest.
RememberOldest(u) ==
    IF (u.cameFrom # <<>> /\ Last(u.cameFrom) = Here(u))
       \/ Len(u.cameFrom) = StackDepth
    THEN u
    ELSE [u EXCEPT !.cameFrom = Append(@, Here(u))]

\* Mutant: the stack has no limit.
RememberAll(u) ==
    IF u.cameFrom # <<>> /\ Last(u.cameFrom) = Here(u)
    THEN u
    ELSE [u EXCEPT !.cameFrom = Append(@, Here(u))]

Remember(u) ==
    LET back == IF u.cameFrom # <<>> /\ Last(u.cameFrom) = Here(u)
                THEN u.cameFrom
                ELSE Append(u.cameFrom, Here(u))
    IN  [u EXCEPT !.cameFrom = IF Len(back) > StackDepth THEN Tail(back)
                                                          ELSE back]

Forget(u, place) ==
    [u EXCEPT !.cameFrom = Those(@, Len(@), Range(@) \ {place})]

TakeFocus(u, focus) ==
    IF focus = u.focus THEN u
    ELSE [u EXCEPT !.dockZoomed = FALSE, !.zoomedPane = NoPane, !.focus = focus]

SetFocus(u, focus) ==
    IF focus = u.focus THEN u ELSE TakeFocus(Remember(u), focus)

\* Whether `arrive` finds the place there.
IsThere(u, place) ==
    CASE place = Dock -> u.dockOpen
      [] place = Bottom -> u.bottomOpen
      [] place = StatusBar -> TRUE
      [] OTHER -> place.pane \in Panes(u)

\* `App::arrive` at a place that is there.
Arrive(u, place) ==
    IF place.at # "Editor" THEN TakeFocus(u, place.at)
    ELSE TakeFocus([u EXCEPT
            !.pane = place.pane,
            !.zoomedPane = IF @ = place.pane THEN @ ELSE NoPane], "Editor")

\* `App::go_back`: down the way back to the first place that is there and is
\* not here.
Ways(u) == {n \in DOMAIN u.cameFrom :
                u.cameFrom[n] # Here(u) /\ IsThere(u, u.cameFrom[n])}
CanGoBack(u) == Ways(u) # {}
GoBack(u) ==
    IF ~CanGoBack(u) THEN [u EXCEPT !.cameFrom = <<>>]
    ELSE LET n == Max(Ways(u))
         IN  Arrive([u EXCEPT !.cameFrom = SubSeq(@, 1, n - 1)], u.cameFrom[n])

\* `esc` with nothing of the region's own to cancel.
FocusBack(u) ==
    IF u.focus = "Editor" THEN u
    ELSE IF CanGoBack(u) THEN GoBack(u)
    ELSE Arrive(GoBack(u), PaneAt(u.pane))

MakeCurrent(u, id) ==
    LET v == IF u.focus = "Editor" /\ id # u.pane THEN Remember(u) ELSE u
    IN  SetFocus([v EXCEPT !.pane = id,
                           !.zoomedPane = IF @ = id THEN @ ELSE NoPane], "Editor")
-----------------------------------------------------------------------------
(***************************************************************************)
(* The docks and the layout.                                               *)
(***************************************************************************)
\* `fold_dock` and `fold_bottom`, once the dock at `place` is closed.
LeaveFolded(u, place) ==
    LET v == Forget(u, place)
    IN  IF u.focus # place.at THEN v
        ELSE IF CanGoBack(v) THEN GoBack(v)
        ELSE Forget(SetFocus(GoBack(v), "Editor"), place)

FoldDock(u) == LeaveFolded([u EXCEPT !.dockOpen = FALSE], Dock)
FoldBottom(u) == LeaveFolded([u EXCEPT !.bottomOpen = FALSE], Bottom)
OpenDock(u) == SetFocus([u EXCEPT !.dockOpen = TRUE], "Tree")

ToggleLeftDock(u) ==
    LET v == [u EXCEPT !.chosen = TRUE]
    IN  IF ~u.dockOpen THEN OpenDock(v)
        ELSE IF u.focus # "Tree" THEN SetFocus(v, "Tree")
        ELSE FoldDock(v)

ToggleBottomDock(u) ==
    IF ~u.bottomOpen THEN SetFocus([u EXCEPT !.bottomOpen = TRUE], "BottomDock")
    ELSE IF u.focus # "BottomDock" THEN SetFocus(u, "BottomDock")
    ELSE FoldBottom(u)

SetPreset(u, preset) ==
    LET v == [u EXCEPT !.preset = preset]
    IN  IF preset = "Standard" THEN [v EXCEPT !.dockOpen = TRUE]
        ELSE IF u.dockOpen THEN FoldDock(v) ELSE v

NextPreset(preset) == IF preset = "Focus" THEN "Standard" ELSE "Focus"
CycleLayout(u) == SetPreset([u EXCEPT !.chosen = TRUE], NextPreset(u.preset))

\* Mutant: the dock is closed under whatever has the keys.
AdaptClosing(u, isWide) ==
    IF ~u.adapt \/ u.chosen \/ u.preset # "Standard" THEN u
    ELSE [u EXCEPT !.dockOpen = isWide]

\* `adapt_to`
AdaptTo(u, isWide) ==
    IF ~u.adapt \/ u.chosen \/ u.preset # "Standard" \/ isWide = u.dockOpen THEN u
    ELSE IF isWide THEN [u EXCEPT !.dockOpen = TRUE]
    ELSE FoldDock(u)

ToggleZoom(u) ==
    LET v == [u EXCEPT !.dockZoomed = FALSE, !.zoomedPane = NoPane]
    IN  IF IsZoomed(u) THEN v
        ELSE IF u.focus = "Tree" THEN [v EXCEPT !.dockZoomed = u.dockOpen]
        ELSE IF u.focus = "Editor" THEN [v EXCEPT !.zoomedPane = u.pane]
        ELSE v
-----------------------------------------------------------------------------
(***************************************************************************)
(* The `f6` walk.                                                          *)
(***************************************************************************)
\* Mutant: the bottom dock is not a stop.
WalkWithoutBottom(u) ==
    (IF u.dockOpen THEN <<Dock>> ELSE <<>>)
    \o [n \in DOMAIN u.panes |-> PaneAt(u.panes[n])]
    \o <<StatusBar>>

Walk(u) ==
    (IF u.dockOpen THEN <<Dock>> ELSE <<>>)
    \o [n \in DOMAIN u.panes |-> PaneAt(u.panes[n])]
    \o (IF u.bottomOpen THEN <<Bottom>> ELSE <<>>)
    \o <<StatusBar>>

\* `step_focus`; a place that is not on the walk counts as its first stop.
StepFocus(u, delta) ==
    LET walk == Walk(u)
        at == IF Contains(walk, Here(u)) THEN CHOOSE n \in DOMAIN walk :
                                                 walk[n] = Here(u)
              ELSE 1
        next == walk[((at - 1 + delta) % Len(walk)) + 1]
    IN  IF next.at = "Editor" THEN MakeCurrent(u, next.pane)
        ELSE SetFocus(u, next.at)
-----------------------------------------------------------------------------
(***************************************************************************)
(* Panes.                                                                  *)
(***************************************************************************)
\* `open_path` on a file that is open in the pane `id`, and `settle_active_tab`
\* for one that opens in the current pane.
Show(u, id) == SetFocus([u EXCEPT !.pane = id], "Editor")

Split(u, order) ==
    Show([u EXCEPT !.panes = order, !.nextPane = @ + 1], u.nextPane)

\* `request_close_pane`, once it has its answer: `next` takes its place.
ClosePane(u, order, next) ==
    Forget(MakeCurrent([u EXCEPT !.panes = order, !.pane = next], next),
           PaneAt(u.pane))

\* `press_pane_at`, and what the press goes on to do on each part of a pane.
PressPane(u, id, part) ==
    LET v == IF id = u.pane THEN u
             ELSE IF u.focus = "Editor" THEN [Remember(u) EXCEPT !.pane = id]
             ELSE [u EXCEPT !.pane = id]
    IN  CASE part = "zoom" -> ToggleZoom(SetFocus(v, "Editor"))
          [] part = "text" -> SetFocus(v, "Editor")
          [] part = "tab row" -> v

Orders(ids) == SetToSeqs(ids)
-----------------------------------------------------------------------------
Start(adapt) ==
    [focus |-> "Tree", pane |-> 0, panes |-> <<0>>, nextPane |-> 1,
     cameFrom |-> <<>>, dockOpen |-> TRUE, dockZoomed |-> FALSE,
     bottomOpen |-> FALSE, zoomedPane |-> NoPane, preset |-> "Standard",
     adapt |-> adapt, chosen |-> FALSE]

\* `App::new`, then the layout of `config.toml`.
Init ==
    /\ wide \in BOOLEAN
    /\ \E preset \in Preset, adapt \in BOOLEAN :
          ui = SetPreset(Start(adapt), preset)

\* What an event finds: `step_at` sets the screen first.
Seen == AdaptTo(ui, wide)
Becomes(u) == ui' = u /\ UNCHANGED wide

Resize ==
    /\ wide' = ~wide
    /\ ui' = AdaptTo(ui, wide')

Key == \E h \in {ToggleLeftDock(Seen), ToggleBottomDock(Seen), CycleLayout(Seen),
                 ToggleZoom(Seen), FocusBack(Seen)} : Becomes(h)

Walks == \E delta \in {-1, 1} : Becomes(StepFocus(Seen, delta))

\* `alt` with an arrow or a number: a pane on screen.
GoToPane == \E id \in Visible(Seen) : Becomes(MakeCurrent(Seen, id))

\* A file chosen in the tree, the picker, the problems list, or the answer to
\* goto-definition.
OpenFile == \E id \in Panes(Seen) : Becomes(Show(Seen, id))

\* The new pane is to the right of its sibling or under it: after it in the
\* order of the walk.
SplitPane ==
    /\ Seen.nextPane < MaxPanes
    /\ \E n \in DOMAIN Seen.panes : \E m \in n..Len(Seen.panes) :
          /\ Seen.panes[n] = Seen.pane
          /\ Becomes(Split(Seen, InsertAt(Seen.panes, m + 1, Seen.nextPane)))

CloseCurrent ==
    /\ Len(Seen.panes) > 1
    /\ \E order \in Orders(Panes(Seen) \ {Seen.pane}) :
          \E next \in Range(order) : Becomes(ClosePane(Seen, order, next))

Press ==
    \/ \E id \in Visible(Seen), part \in {"zoom", "text", "tab row"} :
          Becomes(PressPane(Seen, id, part))
    \/ /\ Seen.dockOpen /\ ~PaneFills(Seen)
       /\ \/ Becomes(SetFocus(Seen, "Tree"))
          \/ Becomes(ToggleZoom(SetFocus(Seen, "Tree")))
    \/ /\ ~Seen.dockOpen /\ ~PaneFills(Seen)
       /\ Becomes(OpenDock([Seen EXCEPT !.chosen = TRUE]))
    \/ /\ Seen.bottomOpen /\ ~IsZoomed(Seen)
       /\ Becomes(SetFocus(Seen, "BottomDock"))

\* A segment of the status bar, pressed or entered: the keys go to the pane
\* and what it does is one of the keys above.
Segment == Becomes(SetFocus(Seen, "Editor"))

\* The settings tab changes the layout or whether it adapts.
ChangeSetting ==
    \/ \E preset \in Preset : Becomes(SetPreset(Seen, preset))
    \/ Becomes([Seen EXCEPT !.adapt = ~@])

Next ==
    \/ Resize
    \/ Key
    \/ Walks
    \/ GoToPane
    \/ OpenFile
    \/ SplitPane
    \/ CloseCurrent
    \/ Press
    \/ Segment
    \/ ChangeSetting

Spec == Init /\ [][Next]_vars
-----------------------------------------------------------------------------
Places == {Dock, Bottom, StatusBar} \cup {PaneAt(id) : id \in 0..(MaxPanes - 1)}

\* Every field has its type: the current pane is one of the panes, and the way
\* back is no longer than STACK_DEPTH.
TypeOK ==
    /\ ui.focus \in Focus
    /\ IsInjective(ui.panes)
    /\ ui.pane \in Panes(ui)
    /\ ui.nextPane \in 1..MaxPanes
    /\ Range(ui.cameFrom) \subseteq Places
    /\ Len(ui.cameFrom) <= StackDepth
    /\ ui.preset \in Preset
    /\ {ui.dockOpen, ui.dockZoomed, ui.bottomOpen, ui.adapt, ui.chosen, wide}
          \subseteq BOOLEAN
    /\ ui.zoomedPane \in {NoPane} \cup 0..(MaxPanes - 1)

\* A folded dock never has the keys ("a folded dock cannot hold it",
\* fold_dock), whatever folded it: its key, a preset, or a narrow terminal.
FocusHasRoom ==
    /\ ui.focus = "Tree" => ui.dockOpen
    /\ ui.focus = "BottomDock" => ui.bottomOpen

\* The way back never names a pane that closed or a dock that folded
\* (App::forget).
WayBackExists == \A place \in Range(ui.cameFrom) : IsThere(ui, place)

\* Going to a dock or the status bar and pressing `esc` returns to where the
\* keys were, and so does opening a dock and folding it again, however long
\* the way back already was (focus_back, fold_dock, fold_bottom).
WayBackReturns ==
    /\ \A place \in {Dock, Bottom, StatusBar} :
          IsThere(ui, place) /\ place # Here(ui) =>
             Here(FocusBack(SetFocus(ui, place.at))) = Here(ui)
    /\ ~ui.dockOpen => Here(ToggleLeftDock(ToggleLeftDock(ui))) = Here(ui)
    /\ ~ui.bottomOpen => Here(ToggleBottomDock(ToggleBottomDock(ui))) = Here(ui)

\* `f6` from anywhere visits every open region once and comes back, and
\* `shift+f6` undoes it (step_focus: "Fixed, so a screen-reader user can learn
\* it").
WalkIsARing ==
    LET stops == Len(Walk(ui))
        round[n \in 0..stops] == IF n = 0 THEN ui ELSE StepFocus(round[n - 1], 1)
    IN  /\ \A place \in Places : IsThere(ui, place) =>
              \E n \in 1..stops : Here(round[n]) = place
        /\ Here(round[stops]) = Here(ui)
        /\ Here(StepFocus(round[1], -1)) = Here(ui)

\* The way back leads to what is there, and where the keys were.
WayBack == WayBackExists /\ WayBackReturns
=============================================================================
