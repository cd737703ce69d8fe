---------------------------- MODULE UndoTimeline ----------------------------
(***************************************************************************)
(* What undo and redo promise the user, with no stacks in it: the versions *)
(* of a text form one line, the cursor stands on one of them, undo and     *)
(* redo move the cursor by one and change no version.  A new edit replaces *)
(* what lay ahead of the cursor; an edit that continues a run replaces the *)
(* version the run has reached.  Only an edit opens a run, and the run is  *)
(* over once the cursor has moved, another text was opened, or the version *)
(* on screen was written while the keys went to the text.  The line        *)
(* forgets its oldest version, never its newest, once it holds Depth steps.*)
(***************************************************************************)
EXTENDS Integers, Sequences

CONSTANTS Texts,   \* the texts a file can hold
          Depth,   \* how many steps back the line remembers
          Kinds,   \* the kinds of edit that run on into one step
          Idle     \* no run is open

VARIABLES line,    \* the versions, oldest first
          at,      \* the one on screen
          run,     \* the kind of the run that led here, while it is open
          keys,    \* the keys go to the text
          stored   \* the version last written or read

timeline == <<line, at, run, keys, stored>>

\* The newest Depth + 1 versions of a line.
Remembered(versions) ==
    IF Len(versions) > Depth + 1 THEN Tail(versions) ELSE versions

Init == \E t \in Texts :
    /\ line = <<t>>
    /\ at = 1
    /\ run = Idle
    /\ keys = TRUE
    /\ stored = t

Open(t) ==
    /\ line' = <<t>>
    /\ at' = 1
    /\ run' = Idle
    /\ stored' = t
    /\ UNCHANGED keys

\* A new step: everything ahead of the cursor is gone.
Step(t) ==
    /\ line' = Remembered(Append(SubSeq(line, 1, at), t))
    /\ at' = Len(line')
    /\ run' \in Kinds \cup {Idle}
    /\ UNCHANGED <<keys, stored>>

\* More of the run that led here: the run stays one step.
Continue(t) ==
    /\ keys
    /\ run \in Kinds
    /\ at > 1
    /\ line' = Append(SubSeq(line, 1, at - 1), t)
    /\ UNCHANGED <<at, run, keys, stored>>

Back ==
    /\ keys
    /\ at > 1
    /\ at' = at - 1
    /\ run' = Idle
    /\ UNCHANGED <<line, keys, stored>>

Forward ==
    /\ keys
    /\ at < Len(line)
    /\ at' = at + 1
    /\ run' = Idle
    /\ UNCHANGED <<line, keys, stored>>

\* A save that is asked for in the text ends the run; one asked for
\* elsewhere does not.
Write ==
    /\ stored' = line[at]
    /\ run' = IF keys THEN Idle ELSE run
    /\ UNCHANGED <<line, at, keys>>

\* The caret or the keys move: a run may end here, and none is opened.
Rest ==
    /\ run' \in {run, Idle}
    /\ keys' \in BOOLEAN
    /\ UNCHANGED <<line, at, stored>>

Next ==
    \/ \E t \in Texts : Open(t) \/ Step(t) \/ Continue(t)
    \/ Back
    \/ Forward
    \/ Write
    \/ Rest

Spec == Init /\ [][Next]_timeline
=============================================================================
