------------------------------ MODULE TreePanel ------------------------------
(***************************************************************************)
(* The file tree: the rows of the directories that are open, read again    *)
(* from the disk whenever one opens or closes and at no other time, so the *)
(* rows may be of files that have gone.  Directories can also stop being   *)
(* readable, the root among them.                                          *)
(*                                                                         *)
(* A path is its names from the root, and names are numbers, in the order  *)
(* of the alphabet.  Opening a file is in Tabs.                            *)
(***************************************************************************)
EXTENDS Integers, Sequences, FiniteSets, SequencesExt, FiniteSetsExt

CONSTANTS Project,   \* the paths there may be, each with the directory it is in
          Dirs,      \* those that are directories
          Heights    \* how many rows the dock may have

VARIABLES disk,       \* the paths there are
          unreadable, \* the directories that cannot be read
          tree        \* TreePanel; `held` is history: the root could not be
                      \* read when the rows were last to be rebuilt

treeVars == <<disk, unreadable, tree>>

Root == <<>>
Notch == 3

Floor(m) == IF m < 0 THEN 0 ELSE m
Clamp(m, low, high) == Max({low, Min({m, high})})
-----------------------------------------------------------------------------
\* `read_children`: directories first, each alphabetically.
ReadChildren(dir) ==
    LET Rank(p) == IF p \in Dirs THEN 0 ELSE 1
        Before(p, q) == \/ Rank(p) < Rank(q)
                        \/ Rank(p) = Rank(q) /\ Last(p) < Last(q)
    IN  SetToSortSeq({p \in disk : Front(p) = dir}, Before)

\* `descend`: what is under each directory that is open and can be read.
RowsUnder(open) ==
    LET rows[dir \in Dirs \cup {Root}] ==
            LET Below(p) == IF p \in open \ unreadable THEN rows[p] ELSE <<>>
                children == ReadChildren(dir)
            IN  FlattenSeq([n \in DOMAIN children |->
                                <<children[n]>> \o Below(children[n])])
    IN  rows[Root]

Selected(t) == IF t.selected < Len(t.rows) THEN t.rows[t.selected + 1] ELSE Root

\* Mutant: the selection stays at its index.
SameRow(t, rows) == Clamp(t.selected, 0, Floor(Len(rows) - 1))

\* The row of the path that was selected, or the same index.
RowFor(t, rows) ==
    IF Contains(rows, Selected(t))
    THEN (CHOOSE n \in DOMAIN rows : rows[n] = Selected(t)) - 1
    ELSE Clamp(t.selected, 0, Floor(Len(rows) - 1))

\* `rebuild`: a root that cannot be read leaves the rows, and any other
\* directory is closed.
Rebuild(t) ==
    IF Root \in unreadable THEN [t EXCEPT !.held = TRUE]
    ELSE LET rows == RowsUnder(t.expanded)
         IN  [t EXCEPT !.rows = rows, !.selected = RowFor(t, rows), !.held = FALSE,
                       !.expanded = @ \ (unreadable \cap Range(rows))]

SetExpanded(t, dir, expand) ==
    Rebuild([t EXCEPT !.expanded = IF expand THEN @ \cup {dir}
                                   ELSE {p \in @ : ~IsPrefix(dir, p)}])

\* `activate` of a directory; a file is opened, which is not the tree's.
Activate(t) ==
    LET dir == Selected(t)
    IN  IF dir \in Dirs THEN SetExpanded(t, dir, dir \notin t.expanded) ELSE t

ScrollToSelection(t) ==
    IF t.height = 0 THEN t
    ELSE IF t.selected < t.top THEN [t EXCEPT !.top = t.selected]
    ELSE IF t.selected >= t.top + t.height
    THEN [t EXCEPT !.top = t.selected - t.height + 1]
    ELSE t

MoveSelection(t, delta) ==
    ScrollToSelection([t EXCEPT
        !.selected = Clamp(@ + delta, 0, Floor(Len(t.rows) - 1))])

\* `visible`: what render draws and a press can land on.
Visible(t) ==
    LET start == Min({t.top, Len(t.rows)})
    IN  start..(Min({start + t.height, Len(t.rows)}) - 1)
-----------------------------------------------------------------------------
\* Nothing is open in `TreePanel::new`, and the root could be read.
TreeInit ==
    /\ disk = Project
    /\ unreadable = {}
    /\ tree = [rows |-> RowsUnder({}), expanded |-> {}, selected |-> 0, top |-> 0,
               height |-> 0, held |-> FALSE]

Becomes(t) == tree' = t /\ UNCHANGED <<disk, unreadable>>

Arrow == \E delta \in {-1, 1} : Becomes(MoveSelection(tree, delta))
Enter == Becomes(Activate(tree))

Right ==
    /\ Selected(tree) \in Dirs \ tree.expanded
    /\ Becomes(SetExpanded(tree, Selected(tree), TRUE))
Left ==
    /\ Selected(tree) \in Dirs \cap tree.expanded
    /\ Becomes(SetExpanded(tree, Selected(tree), FALSE))

\* A press selects, and on what is selected it is `Enter`.
Press ==
    \E row \in 0..(tree.height - 1) :
        /\ tree.top + row \in Visible(tree)
        /\ Becomes(IF tree.top + row = tree.selected THEN Activate(tree)
                   ELSE [tree EXCEPT !.selected = tree.top + row])

\* The right button, and its menu: `select`.
PressForMenu == \E row \in Visible(tree) : Becomes([tree EXCEPT !.selected = row])

Wheel ==
    \E delta \in {-Notch, Notch} :
        Becomes([tree EXCEPT !.top =
            Clamp(@ + delta, 0, Floor(Len(tree.rows) - Max({tree.height, 1})))])

Draw == \E height \in Heights : Becomes([tree EXCEPT !.height = height])

\* Other programs: a path goes with what is under it, or comes back.  One is
\* gone at a time: a bound.
DiskChanges ==
    /\ \/ disk # Project /\ disk' = Project
       \/ disk = Project /\ \E p \in Project :
              disk' = {q \in disk : ~IsPrefix(p, q)}
    /\ UNCHANGED <<unreadable, tree>>

\* One directory at a time cannot be read: a bound.
AccessChanges ==
    /\ \/ unreadable # {} /\ unreadable' = {}
       \/ unreadable = {} /\ \E dir \in Dirs \cup {Root} : unreadable' = {dir}
    /\ UNCHANGED <<disk, tree>>

TreeNext ==
    \/ Arrow
    \/ Enter
    \/ Right
    \/ Left
    \/ Press
    \/ PressForMenu
    \/ Wheel
    \/ Draw
    \/ DiskChanges
    \/ AccessChanges

TreeSpec == TreeInit /\ [][TreeNext]_treeVars
-----------------------------------------------------------------------------
\* The rows are those a reader expects whatever was opened, closed or removed:
\* each once, directories before files, each under its own directory and only
\* under one that is marked as open; the selection is one of them.  When the
\* root could not be read the rows are of before (see the README).
TreeFits ==
    LET rows == tree.rows
        Rank(p, n) == <<IF SubSeq(p, 1, n) \in Dirs THEN 0 ELSE 1, p[n]>>
        Precedes(p, q) ==
            \/ IsStrictPrefix(p, q)
            \/ \E n \in 1..Min({Len(p), Len(q)}) :
                  /\ SubSeq(p, 1, n - 1) = SubSeq(q, 1, n - 1)
                  /\ \/ Rank(p, n)[1] < Rank(q, n)[1]
                     \/ Rank(p, n)[1] = Rank(q, n)[1] /\ p[n] < q[n]
    IN  /\ tree.selected \in 0..Floor(Len(rows) - 1)
        /\ \A n \in DOMAIN rows, m \in DOMAIN rows : n < m => Precedes(rows[n], rows[m])
        /\ \A p \in Range(rows) : Len(p) > 1 =>
              Front(p) \in Range(rows) /\ (Front(p) \in tree.expanded \/ tree.held)

\* A directory that opens or closes leaves the selection on its file if that is
\* still shown, and one that cannot be read keeps no other from being read:
\* every directory that is then marked as open shows all it has (typ-panel-tree
\* lib.rs, rebuild: "One unreadable directory does not stop the rest").
TreeKeepsItsPlace ==
    tree.rows # tree'.rows =>
        /\ Contains(tree'.rows, Selected(tree)) => Selected(tree') = Selected(tree)
        /\ \A dir \in tree'.expanded \cap Range(tree'.rows) :
              {p \in disk : Front(p) = dir} \subseteq Range(tree'.rows)
=============================================================================
