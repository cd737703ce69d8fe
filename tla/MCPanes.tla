------------------------------- MODULE MCPanes -------------------------------
(***************************************************************************)
(* Tabs and FocusWay on small instances, and the panels of the two docks,  *)
(* TreePanel and Problems.  They are views of the same window - what is in *)
(* the panes, which region has the keys, what each dock shows - and share  *)
(* no variable: a behaviour is of one of them.                             *)
(***************************************************************************)
EXTENDS Tabs, TLC

CONSTANTS StackDepth,  \* how far back `esc` remembers
          WayPanes,    \* bound: panes ever made, for FocusWay
          DockRows     \* the rows of a dock that is drawn

VARIABLES view,                    \* what moves: tabs, focus or a panel
          ui, wide,                \* FocusWay's
          disk, unreadable, tree,  \* TreePanel's
          open, diagnostics, caret, panel  \* those of Problems

\* A region to go back to can be remembered, and there is a pane.
ASSUME WayAssumption ==
    /\ StackDepth \in Nat \ {0}
    /\ WayPanes \in Nat \ {0}

Way == INSTANCE FocusWay WITH MaxPanes <- WayPanes

\* Four paths: three directories, one of them in another, and one file.
Paths == {<<1>>, <<1, 1>>, <<1, 2>>, <<2>>}
Folders == {<<1>>, <<1, 2>>, <<2>>}

Tree == INSTANCE TreePanel WITH
    Project <- Paths, Dirs <- Folders, Heights <- DockRows

\* Two files of two lines; a report has no error, or one where a hint is.
Checked == {1, 2}
LastOfChecked == 1
Published == {{[at |-> 0, severity |-> "hint"]},
              {[at |-> 1, severity |-> "hint"], [at |-> 1, severity |-> "error"]}}

Panel == INSTANCE Problems WITH
    Files <- Checked, LastLine <- LastOfChecked, Reports <- Published,
    Heights <- DockRows

focusVars == <<ui, wide>>
treeVars == <<disk, unreadable, tree>>
problemVars == <<open, diagnostics, caret, panel>>

PanesInit ==
    /\ view \in {"tabs", "focus", "tree", "problems"}
    /\ Init
    /\ Way!Init
    /\ view # "focus" => wide /\ ui = Way!Start(FALSE)
    /\ Tree!TreeInit
    /\ Panel!ProblemsInit

PanesNext ==
    /\ UNCHANGED view
    /\ \/ view = "tabs" /\ Next /\ UNCHANGED <<focusVars, treeVars, problemVars>>
       \/ view = "focus" /\ Way!Next /\ UNCHANGED <<vars, treeVars, problemVars>>
       \/ view = "tree" /\ Tree!TreeNext /\ UNCHANGED <<vars, focusVars, problemVars>>
       \/ view = "problems" /\ Panel!ProblemsNext /\ UNCHANGED <<vars, focusVars, treeVars>>

PanesSpec ==
    PanesInit /\ [][PanesNext]_<<view, vars, focusVars, treeVars, problemVars>>

\* Nothing that happens and no property tells one file from another.
FileSymmetry == Permutations(Files)
-----------------------------------------------------------------------------
\* Every field has its type, the keys are never in a dock that is folded
\* (docking.rs, fold_dock), the way back names only what exists, `esc` returns
\* to where the keys were (focus.rs, forget and focus_back), and `f6` visits
\* every open region and comes back (focus.rs, step_focus).
FocusSound ==
    view = "focus" => Way!TypeOK /\ Way!FocusHasRoom /\ Way!WayBack /\ Way!WalkIsARing

\* What the keys of a dock act on is something it shows, however the files and
\* the diagnostics changed: a row of the tree (typ-panel-tree, rebuild), a
\* problem whose message can be brought into sight (problems.rs, reveal); and
\* `f8` goes round the problems of the file (bottom.rs, next_problem).
DocksFit ==
    /\ view = "tree" => Tree!TreeFits
    /\ view = "problems" => Panel!ProblemsFit /\ Panel!F8GoesRound

\* No step takes from the reader what was not asked about: the work in a tab
\* (tabs.rs, close_tab), and the place in the tree (typ-panel-tree, rebuild).
NothingIsTaken ==
    [][/\ vars # vars' => DiscardsWhatWasAsked
       /\ Tree!TreeKeepsItsPlace]_<<vars, treeVars>>
=============================================================================
