------------------------------- MODULE Problems -------------------------------
(***************************************************************************)
(* The problems of every open file: the list in the bottom dock, which is  *)
(* a copy made when the dock opens and at every drawing, its choice and    *)
(* what of it is scrolled into sight, and `f8`, which makes a list of its  *)
(* own and goes from where the caret is.                                   *)
(*                                                                         *)
(* Files are numbers in the order of their paths and a place is a line:    *)
(* where diagnostics come from is in DocumentSync.                         *)
(***************************************************************************)
EXTENDS Integers, Sequences, FiniteSets, SequencesExt, FiniteSetsExt

CONSTANTS Files,      \* numbers, in the order of the paths
          LastLine,   \* the last line of each file
          Reports,    \* the sets of diagnostics a server may publish
          Heights     \* how many rows the dock may have

VARIABLES open,         \* the files in tabs, in the order of the tabs
          diagnostics,  \* what the server holds of each file
          caret,        \* the file on screen and the line, or Nowhere
          panel         \* ProblemsPanel, and the rows it has

problemVars == <<open, diagnostics, caret, panel>>

Nowhere == [file |-> 0, at |-> 0]
Context == 1
Notch == 3

Floor(m) == IF m < 0 THEN 0 ELSE m
Rank(severity) == IF severity = "error" THEN 0 ELSE 1
-----------------------------------------------------------------------------
\* One file's diagnostics as problems, by place and then by severity.
ProblemsOf(file) ==
    LET Before(d, e) == \/ d.at < e.at
                        \/ d.at = e.at /\ Rank(d.severity) < Rank(e.severity)
        found == SetToSortSeq(diagnostics[file], Before)
    IN  [n \in DOMAIN found |-> [file |-> file, at |-> found[n].at,
                                 severity |-> found[n].severity]]

HasError(file) == \E d \in diagnostics[file] : d.severity = "error"

\* Mutant: only the problems are sorted, errors first, and not the files.
CollectLoose ==
    LET all == FlattenSeq([n \in DOMAIN open |-> ProblemsOf(open[n])])
    IN  SelectSeq(all, LAMBDA p : p.severity = "error")
            \o SelectSeq(all, LAMBDA p : p.severity # "error")

\* `collect_problems`: file by file, those with an error first, then by path.
CollectProblems ==
    LET Before(f, g) == \/ HasError(f) /\ ~HasError(g)
                        \/ HasError(f) = HasError(g) /\ f < g
        files == SetToSortSeq({f \in Range(open) : diagnostics[f] # {}}, Before)
    IN  FlattenSeq([n \in DOMAIN files |-> ProblemsOf(files[n])])

\* `ProblemsPanel::set`
Refreshed(p) ==
    IF p.problems = CollectProblems THEN p
    ELSE [p EXCEPT !.problems = CollectProblems,
                   !.selected = Min({@, Floor(Len(CollectProblems) - 1)})]

\* The lines around a problem.
Excerpt(problem) ==
    Cardinality(Floor(problem.at - Context)..Min({problem.at + Context, LastLine}))

\* `rows`: a heading before a file's first problem, and each problem's message
\* and excerpt.
Rows(list) ==
    FlattenSeq([n \in DOMAIN list |->
        (IF n = 1 \/ list[n - 1].file # list[n].file
         THEN <<[is |-> "file", problem |-> n]>> ELSE <<>>)
        \o <<[is |-> "message", problem |-> n]>>
        \o [k \in 1..Excerpt(list[n]) |-> [is |-> "line", problem |-> n]]])

\* Where, from 0, the message of the one chosen is.
MessageRow(p) ==
    LET rows == Rows(p.problems)
    IN  (CHOOSE n \in DOMAIN rows :
            rows[n] = [is |-> "message", problem |-> p.selected + 1]) - 1

\* Mutant: the row under the last one is taken for one on show.
RevealLate(p) ==
    IF p.problems = <<>> THEN p
    ELSE LET at == MessageRow(p)
         IN  IF Floor(at - 1) < p.top THEN [p EXCEPT !.top = Floor(at - 1)]
             ELSE IF at > p.top + p.height
             THEN [p EXCEPT !.top = at + 1 - Max({p.height, 1})]
             ELSE p

\* `reveal`, with the heading above the message.
Reveal(p) ==
    IF p.problems = <<>> THEN p
    ELSE LET at == MessageRow(p)
         IN  IF Floor(at - 1) < p.top THEN [p EXCEPT !.top = Floor(at - 1)]
             ELSE IF at >= p.top + p.height
             THEN [p EXCEPT !.top = at + 1 - Max({p.height, 1})]
             ELSE p

\* `next_problem`: after the caret in its file, or after the file's last, or
\* the first of all.
NextProblem(list, from) ==
    LET here == {n \in DOMAIN list : list[n].file = from.file}
        after == {n \in here : list[n].at > from.at}
    IN  list[IF after # {} THEN Min(after)
             ELSE IF here # {} THEN (Max(here) % Len(list)) + 1
             ELSE 1]

Place(problem) == [file |-> problem.file, at |-> problem.at]
-----------------------------------------------------------------------------
ProblemsInit ==
    /\ open = <<>>
    /\ diagnostics = [f \in Files |-> {}]
    /\ caret = Nowhere
    /\ panel = [problems |-> <<>>, selected |-> 0, top |-> 0, height |-> 0]

Becomes(p) == panel' = p /\ UNCHANGED <<open, diagnostics, caret>>

OpenTab(file) ==
    /\ open' = IF file \in Range(open) THEN open ELSE Append(open, file)
    /\ \E line \in 0..LastLine : caret' = [file |-> file, at |-> line]
    /\ UNCHANGED <<diagnostics, panel>>

\* The server is told at the end of the batch, and its diagnostics go.
CloseTab(file) ==
    /\ file \in Range(open)
    /\ open' = SelectSeq(open, LAMBDA f : f # file)
    /\ diagnostics' = [diagnostics EXCEPT ![file] = {}]
    /\ caret' = IF open' = <<>> THEN Nowhere ELSE [file |-> Last(open'), at |-> 0]
    /\ UNCHANGED panel

Publish(file) ==
    /\ file \in Range(open)
    /\ \E report \in Reports : diagnostics' = [diagnostics EXCEPT ![file] = report]
    /\ UNCHANGED <<open, caret, panel>>

\* `toggle_bottom_dock`, when it opens the dock.
OpenDock == Becomes(Refreshed(panel))

\* `render_bottom`, on a dock of any height.
Draw ==
    \E height \in Heights :
        LET p == Refreshed([panel EXCEPT !.height = height])
        IN  Becomes(Reveal(p))

Key ==
    LET last == Floor(Len(panel.problems) - 1)
    IN  \E at \in {Floor(panel.selected - 1), Min({panel.selected + 1, last}),
                   0, last} :
            Becomes([panel EXCEPT !.selected = at])

\* `jump_to`: the file opens if it is not open.
JumpTo(place) ==
    /\ open' = IF place.file \in Range(open) THEN open ELSE Append(open, place.file)
    /\ caret' = place
    /\ UNCHANGED diagnostics

Enter ==
    /\ panel.problems # <<>>
    /\ JumpTo(Place(panel.problems[panel.selected + 1]))
    /\ UNCHANGED panel

\* A press on a problem's rows (`blocks`) chooses it and jumps.
Press ==
    \E row \in 1..panel.height :
        LET rows == Rows(panel.problems)
            hit == rows[panel.top + row]
        IN  /\ panel.top + row \in DOMAIN rows
            /\ hit.is # "file"
            /\ panel' = [panel EXCEPT !.selected = hit.problem - 1]
            /\ JumpTo(Place(panel.problems[hit.problem]))

Wheel ==
    \E delta \in {-Notch, Notch} :
        Becomes([panel EXCEPT !.top =
            Min({Floor(@ + delta), Floor(Len(Rows(panel.problems)) - panel.height)})])

PressF8 ==
    /\ CollectProblems # <<>>
    /\ JumpTo(Place(NextProblem(CollectProblems, caret)))
    /\ UNCHANGED panel

ProblemsNext ==
    \/ \E file \in Files : OpenTab(file) \/ CloseTab(file) \/ Publish(file)
    \/ OpenDock
    \/ Draw
    \/ Key
    \/ Enter
    \/ Press
    \/ Wheel
    \/ PressF8

ProblemsSpec == ProblemsInit /\ [][ProblemsNext]_problemVars
-----------------------------------------------------------------------------
\* However the list changed under it, the choice is one of the problems and
\* its message can be brought into sight and then stays there, with two rows
\* or more (see the README for one); and each file has one heading, the files
\* with an error above the others.
ProblemsFit ==
    LET list == panel.problems
        headings == SelectSeq(Rows(list), LAMBDA r : r.is = "file")
        files == {list[n].file : n \in DOMAIN list}
        Faulty(n) == \E m \in DOMAIN list : list[m].file = list[n].file
                                            /\ list[m].severity = "error"
    IN  /\ panel.selected \in 0..Floor(Len(list) - 1)
        /\ Len(headings) = Cardinality(files)
        /\ \A n \in DOMAIN list, m \in DOMAIN list :
              n < m /\ Faulty(m) => Faulty(n)
        /\ \A height \in Heights \ {0, 1} :
              LET drawn == Reveal([panel EXCEPT !.height = height])
              IN  list # <<>> => /\ Reveal(drawn) = drawn
                                 /\ MessageRow(drawn) \in
                                        drawn.top..(drawn.top + height - 1)

\* `f8` goes round: pressed as often as there are problems, from anywhere, it
\* has been at every place where there is one.
F8GoesRound ==
    LET list == CollectProblems
        at[n \in Nat] == IF n = 0 THEN caret ELSE Place(NextProblem(list, at[n - 1]))
    IN  list # <<>> =>
            {at[n] : n \in 1..Len(list)} = {Place(list[n]) : n \in DOMAIN list}
=============================================================================
