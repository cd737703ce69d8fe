-------------------------------- MODULE Tabs --------------------------------
(***************************************************************************)
(* The open files: panes, the tabs in each, which tab is shown, and the    *)
(* three questions asked before unsaved work is thrown away; and what a    *)
(* start finds again of them.                                              *)
(*                                                                         *)
(* A question is a flag that the next press of the same thing answers: a   *)
(* tab close remembers an index, a pane close a pane, a quit nothing but   *)
(* that it asked.  Every other key and most presses call `clear_transient` *)
(* and drop all three.  Events that are not input (a server's answer, the  *)
(* file watcher) drop none.                                                *)
(*                                                                         *)
(* `last_used` stamps matter only by their order, so `recent` holds the    *)
(* keys of the tabs that were ever shown, the latest last.  A tab's key is *)
(* its identity and is not in the code.  Tabs that hold a view instead of  *)
(* an editor, and where on screen a pane is, are left out; focus is in     *)
(* FocusWay.                                                               *)
(***************************************************************************)
EXTENDS Integers, Sequences, FiniteSets, SequencesExt, FiniteSetsExt, Retain

CONSTANTS Files,     \* files in the project
          MaxTabs,   \* bound: tabs open at one time
          MaxPanes   \* bound: panes ever made

Untitled == "untitled"

ASSUME BoundsAssumption ==
    /\ MaxTabs \in Nat \ {0}
    /\ MaxPanes \in Nat \ {0}
    /\ Untitled \notin Files

VARIABLES panes,             \* every pane and its tabs
          pane,              \* index of the current one
          nextPane,          \* the id the next pane gets
          recent,            \* keys of tabs, by last_used
          closePending,      \* the index whose close was refused
          closePanePending,  \* the pane whose close was refused
          quitPending,       \* a quit was refused
          quit,
          asked              \* history: what the questions were about

questions == <<closePending, closePanePending, quitPending, asked>>
vars == <<panes, pane, nextPane, recent, quit, questions>>

NoIndex == 0
NoPane == -1
NoKey == 0
\* The tab whose close was refused, the pane it is in, and the pane whose
\* close was.
Nobody == [tab |-> NoKey, within |-> NoPane, pane |-> NoPane]

TabsOf(ps) == UNION {Range(ps[i].tabs) : i \in DOMAIN ps}
KeysOf(ps) == {t.key : t \in TabsOf(ps)}
AllTabs == TabsOf(panes)
Shown(p) == p.tabs[p.active]
Current == panes[pane]

Keys == 1..(MaxTabs + 1)
FreshKey == CHOOSE k \in Keys : k \notin KeysOf(panes)
HasRoom == Cardinality(AllTabs) < MaxTabs

NewTab(file) ==
    [key |-> FreshKey, file |-> file, dirty |-> FALSE, changed |-> FALSE]

\* Mutant: a file open in another pane is opened again in this one.
PlacesHere(file) ==
    {at \in {pane} \X (1..MaxTabs) :
        /\ at[2] \in DOMAIN panes[at[1]].tabs
        /\ panes[at[1]].tabs[at[2]].file = file}

\* Where a file is open: `tab_for`, as a pane and a tab.
Places(file) ==
    {at \in (DOMAIN panes) \X (1..MaxTabs) :
        /\ at[2] \in DOMAIN panes[at[1]].tabs
        /\ panes[at[1]].tabs[at[2]].file = file}
IsOpen(file) == Places(file) # {}

Init ==
    /\ panes = <<[id |-> 0, active |-> 1,
                  tabs |-> <<[key |-> 1, file |-> Untitled, dirty |-> FALSE,
                              changed |-> FALSE]>>]>>
    /\ pane = 1
    /\ nextPane = 1
    /\ recent = <<1>>
    /\ closePending = NoIndex
    /\ closePanePending = NoPane
    /\ quitPending = FALSE
    /\ quit = FALSE
    /\ asked = Nobody

\* `clear_transient`, as far as the questions go.
ClearTransient ==
    /\ closePending' = NoIndex
    /\ closePanePending' = NoPane
    /\ quitPending' = FALSE
    /\ asked' = Nobody

\* An input drops the questions, a background event leaves them alone.
Input == ClearTransient
Background == UNCHANGED questions

\* `warn_if_changed_on_disk`
Settled(p) == [p EXCEPT !.tabs[p.active].changed = FALSE]

\* A stamp goes with its tab; the new one is the highest.
Stamps(ps) == Those(recent, Len(recent), KeysOf(ps))
Stamped(ps, key) == Append(Those(recent, Len(recent), KeysOf(ps) \ {key}), key)

\* `settle_active_tab` for the pane at `i`, which holds `p` from now on.
Settle(i, p) ==
    /\ panes' = [panes EXCEPT ![i] = Settled(p)]
    /\ recent' = Stamped(panes', Shown(p).key)
    /\ pane' = i

(***************************************************************************)
(* Opening and showing.                                                    *)
(***************************************************************************)
\* `open_path`: switch to the tab that has it, replace a lone untouched
\* untitled buffer, or add a tab.
Open(file) ==
    IF IsOpen(file)
    THEN \E at \in Places(file) :
            LET p == panes[at[1]]
            IN  IF p.active = at[2]
                THEN pane' = at[1] /\ UNCHANGED <<panes, recent>>
                ELSE Settle(at[1], [p EXCEPT !.active = at[2]])
    ELSE LET scratch == /\ Len(Current.tabs) = 1
                        /\ Current.tabs[1].file = Untitled
                        /\ ~Current.tabs[1].dirty
         IN  IF scratch
             THEN Settle(pane, [Current EXCEPT !.tabs = <<NewTab(file)>>])
             ELSE /\ HasRoom
                  /\ Settle(pane, [Current EXCEPT
                        !.tabs = Append(@, NewTab(file)),
                        !.active = Len(Current.tabs) + 1])

OpenFile(file) ==
    /\ Open(file)
    /\ Input
    /\ UNCHANGED <<nextPane, quit>>

\* Goto-definition's answer opens the file when it arrives.
AnswerOpens(file) ==
    /\ Open(file)
    /\ Background
    /\ UNCHANGED <<nextPane, quit>>

\* `activate_tab`: next, previous, the nth, or a click on its label.
ActivateTab(i) ==
    /\ i \in DOMAIN Current.tabs
    /\ i # Current.active
    /\ Settle(pane, [Current EXCEPT !.active = i])
    /\ Input
    /\ UNCHANGED <<nextPane, quit>>

\* Another pane becomes current, by a key or a press in its text.
GoTo(i) ==
    /\ pane' = i
    /\ panes' = [panes EXCEPT ![i] = Settled(@)]
    /\ UNCHANGED <<nextPane, recent, quit>>

SwitchPane(i) == i \in DOMAIN panes \ {pane} /\ GoTo(i) /\ Input

\* A press on the empty end of its tab row, or `esc` on the status bar, which
\* takes its own keys: neither clears what was asked.
SwitchPaneQuietly(i) == i \in DOMAIN panes \ {pane} /\ GoTo(i) /\ Background

Split ==
    /\ nextPane < MaxPanes
    /\ HasRoom
    /\ LET p == [id |-> nextPane, tabs |-> <<NewTab(Untitled)>>, active |-> 1]
       IN  /\ panes' = Append(panes, p)
           /\ pane' = Len(panes) + 1
           /\ recent' = Append(recent, FreshKey)
    /\ nextPane' = nextPane + 1
    /\ Input
    /\ UNCHANGED quit

(***************************************************************************)
(* Work done on the tabs.                                                  *)
(***************************************************************************)
SetDirty(i, j, dirty) ==
    panes' = [panes EXCEPT ![i].tabs[j].dirty = dirty]

\* Typing in the shown tab, or undoing to the saved text, or saving.
ChangeShown ==
    /\ SetDirty(pane, Current.active, ~Shown(Current).dirty)
    /\ Input
    /\ UNCHANGED <<pane, nextPane, recent, quit>>

\* A server's workspace edit, to an open file or to one opened behind the
\* shown tab.  Nothing is shown and nothing stamped.
ServerEdits(file) ==
    /\ IF IsOpen(file)
       THEN \E at \in Places(file) : SetDirty(at[1], at[2], TRUE)
       ELSE /\ HasRoom
            /\ panes' = [panes EXCEPT ![pane].tabs =
                            Append(@, [NewTab(file) EXCEPT !.dirty = TRUE])]
    /\ Background
    /\ UNCHANGED <<pane, nextPane, recent, quit>>

\* The watcher reports a write under unsaved work: said at once where the tab
\* is on screen, kept for its arrival where it is not.
OutsideWrite(file) ==
    /\ \E at \in Places(file) :
          /\ panes[at[1]].tabs[at[2]].dirty
          /\ panes' = [panes EXCEPT ![at[1]].tabs[at[2]].changed =
                          at[2] # panes[at[1]].active]
    /\ Background
    /\ UNCHANGED <<pane, nextPane, recent, quit>>

(***************************************************************************)
(* Closing.                                                                *)
(***************************************************************************)
\* `most_recently_used` after the removal: the newest stamp, and among the
\* tabs never shown the last.
MostRecent(tabs) ==
    LET shown == {j \in DOMAIN tabs : tabs[j].key \in Range(recent)}
        stamp(j) == CHOOSE n \in DOMAIN recent : recent[n] = tabs[j].key
    IN  IF shown = {} THEN Len(tabs)
        ELSE CHOOSE j \in shown : \A k \in shown : stamp(k) <= stamp(j)

\* Mutant: the answer outlives the question.
AnswerTabKeeping ==
    /\ asked' = [asked EXCEPT !.tab = NoKey, !.within = NoPane]
    /\ UNCHANGED <<closePending, closePanePending, quitPending>>

\* "The answer dies with the question."
AnswerTab ==
    /\ closePending' = NoIndex
    /\ asked' = [asked EXCEPT !.tab = NoKey, !.within = NoPane]
    /\ UNCHANGED <<closePanePending, quitPending>>

\* Mutant: a tab to the left goes and the number stays.
ActiveStill(p, j) == p.active

ActiveAfter(p, j) == IF j < p.active THEN p.active - 1 ELSE p.active

\* `close_tab` in the pane at `i`: never zero tabs, and the shown tab stays
\* shown unless it is the one closed.
CloseTab(i, j) ==
    LET p == panes[i]
        left == RemoveAt(p.tabs, j)
    IN  IF Len(p.tabs) = 1
        THEN Settle(i, [p EXCEPT !.tabs = <<NewTab(Untitled)>>])
        ELSE IF j # p.active
        THEN /\ panes' = [panes EXCEPT ![i].tabs = left,
                              ![i].active = ActiveAfter(p, j)]
             /\ recent' = Stamps(panes')
             /\ pane' = i
        ELSE Settle(i, [p EXCEPT !.tabs = left, !.active = MostRecent(left)])

\* `request_close_tab`, in the pane the gesture made current.
RequestCloseTab(i, j) ==
    IF panes[i].tabs[j].dirty /\ closePending # j
    THEN /\ closePending' = j
         /\ asked' = [asked EXCEPT !.tab = panes[i].tabs[j].key,
                                !.within = panes[i].id]
         /\ GoTo(i)
         /\ UNCHANGED <<closePanePending, quitPending>>
    ELSE /\ CloseTab(i, j)
         /\ AnswerTab
         /\ UNCHANGED <<nextPane, quit>>

\* Ctrl+W, by key or from the palette: the tab that is shown.
CloseShown == RequestCloseTab(pane, Current.active)

\* A close box or a middle click, on any tab of any pane: the press makes the
\* pane current first, and a close is not a press that clears.
PressCloseBox(i, j) ==
    /\ i \in DOMAIN panes
    /\ j \in DOMAIN panes[i].tabs
    /\ RequestCloseTab(i, j)

\* `request_close_pane`
ClosePane ==
    /\ Len(panes) > 1
    /\ IF Range(Current.tabs) \cap {t \in AllTabs : t.dirty} # {}
          /\ closePanePending # Current.id
       THEN /\ closePanePending' = Current.id
            /\ asked' = [asked EXCEPT !.pane = Current.id]
            /\ UNCHANGED <<panes, pane, recent, closePending, quitPending>>
       ELSE /\ closePanePending' = NoPane
            /\ asked' = [asked EXCEPT !.pane = NoPane]
            /\ \E next \in 1..(Len(panes) - 1) :
                  LET left == RemoveAt(panes, pane)
                  IN  /\ panes' = [left EXCEPT ![next] = Settled(@)]
                      /\ pane' = next
            /\ recent' = Stamps(panes')
            /\ UNCHANGED <<closePending, quitPending>>
    /\ UNCHANGED <<nextPane, quit>>

\* Mutant: only the tab on screen is asked about.
QuitBlockedHere == Shown(Current).dirty
\* Every tab of every pane.
QuitBlocked == \E t \in AllTabs : t.dirty

\* What a session does not keep goes with the process.
Quit ==
    /\ IF QuitBlocked /\ ~quitPending
       THEN /\ quitPending' = TRUE
            /\ UNCHANGED <<quit, recent, closePending, closePanePending, asked>>
       ELSE /\ quit' = TRUE
            /\ recent' = <<>>
            /\ ClearTransient
    /\ UNCHANGED <<panes, pane, nextPane>>

(***************************************************************************)
(* Starting again.                                                         *)
(***************************************************************************)
\* A pane as `session` writes it and `restore` reads it when these files have
\* gone: the files with a path, and on screen the one that was or, if it is
\* gone, the last before it.  A pane with none left is as `Pane::new` makes it.
Restored(p, gone) ==
    LET titled == {t \in Range(p.tabs) : t.file # Untitled}
        here == {t \in titled : t.file \notin gone}
        saved == Those(p.tabs, Len(p.tabs), titled)
        active == IF Shown(p) \in titled THEN Len(Those(p.tabs, p.active, titled))
                                         ELSE 1
        kept == Those(saved, Len(saved), here)
        upTo == Len(Those(saved, active, here))
        back == [n \in DOMAIN kept |->
                    [kept[n] EXCEPT !.dirty = FALSE, !.changed = FALSE]]
    IN  IF kept = <<>>
        THEN [p EXCEPT !.active = 1,
                       !.tabs = <<[p.tabs[1] EXCEPT !.file = Untitled,
                                     !.dirty = FALSE, !.changed = FALSE]>>]
        ELSE [p EXCEPT !.tabs = back, !.active = Max({1, upTo})]

\* `save_session` at the end of a run, and `restore_session` in the next one.
\* Each pane's tab settles, the current pane's last.
Restart ==
    /\ quit
    /\ quit' = FALSE
    /\ \E gone \in SUBSET Files :
          panes' = [i \in DOMAIN panes |-> Restored(panes[i], gone)]
    /\ LET others == Those(panes', Len(panes'), Range(panes') \ {panes'[pane]})
       IN  recent' = [i \in DOMAIN others |-> Shown(others[i]).key]
                        \o <<Shown(panes'[pane]).key>>
    /\ nextPane' = Max({panes[i].id : i \in DOMAIN panes}) + 1
    /\ ClearTransient
    /\ UNCHANGED pane

Work ==
    /\ ~quit
    /\ \/ \E file \in Files : \/ OpenFile(file)
                              \/ AnswerOpens(file)
                              \/ ServerEdits(file)
                              \/ OutsideWrite(file)
       \/ \E i \in 1..MaxTabs : ActivateTab(i)
       \/ \E i \in 1..MaxPanes : SwitchPane(i) \/ SwitchPaneQuietly(i)
       \/ Split
       \/ ChangeShown
       \/ CloseShown
       \/ \E i \in 1..MaxPanes, j \in 1..MaxTabs : PressCloseBox(i, j)
       \/ ClosePane
       \/ Quit

Next == Work \/ Restart

Spec == Init /\ [][Next]_vars
-----------------------------------------------------------------------------
Tab == [key : Keys, file : Files \cup {Untitled}, dirty : BOOLEAN,
        changed : BOOLEAN]

\* Every variable has its type: at least one pane, at least one tab in each,
\* the current pane and every shown tab there.
TypeOK ==
    /\ panes # <<>>
    /\ \A i \in DOMAIN panes :
          /\ panes[i].tabs \in Seq(Tab)
          /\ panes[i].active \in DOMAIN panes[i].tabs
          /\ panes[i].id \in 0..(nextPane - 1)
    /\ pane \in DOMAIN panes
    /\ nextPane \in 1..MaxPanes
    /\ Range(recent) \subseteq Keys
    /\ closePending \in 0..MaxTabs
    /\ closePanePending \in {NoPane} \cup 0..(nextPane - 1)
    /\ quitPending \in BOOLEAN
    /\ quit \in BOOLEAN

\* One file is open in one tab, whatever the pane: two buffers of one file
\* would overwrite each other's saves.
OneTabPerFile ==
    \A t, u \in AllTabs : t.file = u.file /\ t.file \in Files => t = u

\* A write made under unsaved work is never kept to itself by a tab on
\* screen (`changed_on_disk` is said on arrival).
ChangeIsSaid == \A i \in DOMAIN panes : ~Shown(panes[i]).changed

\* Every variable has its type, one file is open in one tab, whatever the pane
\* (tabs.rs, open_path), and no tab on screen keeps a write under unsaved work
\* to itself (background.rs, warn_if_changed_on_disk).
TabsSound == TypeOK /\ OneTabPerFile /\ ChangeIsSaid

\* The tabs with unsaved work that a step throws away.
Discarded ==
    {t \in AllTabs : t.dirty /\ \A u \in TabsOf(panes') : u.key # t.key}

\* A close throws unsaved work away only after a question about that tab or
\* that pane, whatever opened and closed since; but a refused index is read
\* against another pane when the pane changes in between (see the README).
ClosingAsks ==
    ~quit => \A t \in Discarded :
        \/ t.key = asked.tab
        \/ \E p \in Range(panes) :
              /\ t \in Range(p.tabs)
              /\ \/ p.id # asked.within /\ asked.within # NoPane
                 \/ Len(panes') < Len(panes) /\ asked.pane = Current.id

\* Leaving with unsaved work, in any tab of any pane, takes a second quit.
QuitAsks == quit' /\ (\E t \in AllTabs : t.dirty) => quitPending

FilesOf(p) == [n \in DOMAIN p.tabs |-> p.tabs[n].file]
Titled(p) == Range(FilesOf(p)) \ {Untitled}

\* What is started again on is what was quit on, but for the files that have
\* gone: every other is in its pane and in its order, none is new, and what
\* was on screen is on screen.
ComesBack ==
    quit /\ ~quit' =>
        /\ DOMAIN panes' = DOMAIN panes
        /\ \A i \in DOMAIN panes :
              LET was == panes[i]
                  is == panes'[i]
              IN  /\ Titled(is) \subseteq Titled(was)
                  /\ SelectSeq(FilesOf(is), LAMBDA f : f # Untitled) =
                        SelectSeq(FilesOf(was), LAMBDA f : f \in Titled(is))
                  /\ Shown(was).file \in Titled(is) =>
                        Shown(is).file = Shown(was).file
        /\ \A t \in TabsOf(panes') : ~t.dirty

\* Unsaved work is never thrown away in one step: "a close box that skipped
\* the question would be the one path in the editor that loses work in a
\* single click" (tabs.rs, request_close_tab), and so would a quit; and nothing
\* but that work and files that have gone is lost by a quit (sessions.rs).
DiscardsWhatWasAsked == ClosingAsks /\ QuitAsks /\ ComesBack
=============================================================================
