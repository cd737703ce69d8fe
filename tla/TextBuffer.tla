----------------------------- MODULE TextBuffer -----------------------------
(***************************************************************************)
(* One editor tab's text: the buffer, its undo history and its save point. *)
(*                                                                         *)
(* The buffer does not keep a "dirty" flag.  Every edit gives the text a   *)
(* fresh `state` taken from `revision`, undo and redo bring back the state *)
(* a snapshot was taken in, and the buffer is clean exactly when `state`   *)
(* is the one last saved.  The text itself is never compared.  A handler   *)
(* runs to its end before the next one starts, so an edit group            *)
(* (`begin_edit_group` .. `end_edit_group`) is one action.                 *)
(*                                                                         *)
(* Texts are opaque values.  Selections and scrolling are left out.        *)
(***************************************************************************)
EXTENDS Integers, Sequences, SequencesExt

CONSTANTS Texts,          \* the texts a file can hold
          MaxUndoSteps,   \* MAX_UNDO_STEPS: steps the history keeps
          MaxCarets,      \* carets an edit is made at
          MaxRevision     \* bound: changes to one buffer

ASSUME LimitsAssumption ==
    /\ Texts # {}
    /\ MaxUndoSteps \in Nat \ {0}
    /\ MaxCarets \in Nat \ {0}
    /\ MaxRevision \in Nat

VARIABLES text,        \* rope
          state,       \* which version of the text the rope holds
          savedState,  \* the version on disk, as of the last load or save
          revision,    \* changes to the text since this buffer was made
          undo, redo,  \* History's stacks of snapshots, newest last
          openRun,     \* the kind of the run open for coalescing
          focus,       \* which panel has the keys
          saved        \* history: the text last loaded or written

history == <<undo, redo, openRun>>
vars == <<text, state, savedState, revision, undo, redo, openRun, focus, saved>>

EditKind == {"Insert", "Delete", "Other"}
NoRun == "None"

Snapshot == [text : Texts, state : Nat]
Current == [text |-> text, state |-> state]

IsDirty == state # savedState
-----------------------------------------------------------------------------
\* Mutant: a reload keeps the old buffer's state numbers.
LoadedKeepingState(t) ==
    /\ text' = t
    /\ saved' = t
    /\ state' = state
    /\ savedState' = state
    /\ revision' = 0
    /\ undo' = <<>>
    /\ redo' = <<>>
    /\ openRun' = NoRun

\* A buffer just read from disk: `TextBuffer::from_path`.
Loaded(t) ==
    /\ text' = t
    /\ saved' = t
    /\ state' = 0
    /\ savedState' = 0
    /\ revision' = 0
    /\ undo' = <<>>
    /\ redo' = <<>>
    /\ openRun' = NoRun

Init ==
    /\ text \in Texts
    /\ saved = text
    /\ state = 0
    /\ savedState = 0
    /\ revision = 0
    /\ undo = <<>>
    /\ redo = <<>>
    /\ openRun = NoRun
    /\ focus = "Editor"

\* Mutant: off by one.
CappedLate(stack) ==
    IF Len(stack) > MaxUndoSteps + 1 THEN Tail(stack) ELSE stack

\* Forget the oldest step, never the newest.
Capped(stack) == IF Len(stack) > MaxUndoSteps THEN Tail(stack) ELSE stack

\* The undo stack after recording an edit of this kind while `run` is open:
\* the snapshot that predates the whole run is already there.
Recorded(run, kind) ==
    IF run = kind /\ kind # "Other" THEN undo
    ELSE Capped(Append(undo, Current))

\* Mutant: the state is only moved on by the first caret's edit.
TouchOnce(carets) ==
    /\ revision' = revision + carets
    /\ state' = state + 1

\* One touch per caret that changed something; the last leaves its revision
\* as the state.
Touch(carets) ==
    /\ revision' = revision + carets
    /\ state' = revision'

\* An edit group that changes the text at one caret or more.  A group that
\* changes nothing records nothing and is no step here.
EditGroup(run, kind, t, carets) ==
    /\ revision + carets <= MaxRevision
    /\ undo' = Recorded(run, kind)
    /\ redo' = <<>>
    /\ text' = t
    /\ Touch(carets)
    /\ UNCHANGED <<savedState, saved, focus>>

\* InsertChar, InsertNewline and Delete, which do not end the run first.
Type(kind) ==
    /\ focus = "Editor"
    /\ \E t \in Texts, carets \in 1..MaxCarets :
          EditGroup(openRun, kind, t, carets)
    /\ openRun' = kind

\* Paste, cut, indent, outdent, replace all: a step that stands alone.
EditAlone ==
    /\ \E t \in Texts, carets \in 1..MaxCarets :
          EditGroup(NoRun, "Other", t, carets)
    /\ openRun' = "Other"

\* A completion accepted, or a server's edits: the run ends on both sides.
EditFromServer ==
    /\ \E t \in Texts, carets \in 1..MaxCarets :
          EditGroup(NoRun, "Other", t, carets)
    /\ openRun' = NoRun

\* Any editor action that is not an edit (a motion, a selection), a click in
\* the text, or a key that moves focus: it reaches `perform` first.
Boundary ==
    /\ openRun' = NoRun
    /\ focus' \in {"Editor", "Tree"}
    /\ "Editor" \in {focus, focus'}
    /\ UNCHANGED <<text, state, savedState, revision, undo, redo, saved>>

\* Focus goes to the tree by a click on it, and comes back by a key: neither
\* passes through the editor.
FocusElsewhere ==
    /\ focus' = IF focus = "Editor" THEN "Tree" ELSE "Editor"
    /\ UNCHANGED <<text, state, savedState, revision, history, saved>>

\* Mutant: the text comes back and its state does not.
RestoreTextOnly(snapshot) ==
    /\ text' = snapshot.text
    /\ revision' = revision + 1
    /\ state' = state

\* A version from the history comes back: the revision moves, the state is
\* the old one.
Restore(snapshot) ==
    /\ text' = snapshot.text
    /\ revision' = revision + 1
    /\ state' = snapshot.state

\* Mutant: the run that was open goes on after an undo.
UndoInRun ==
    /\ focus = "Editor"
    /\ undo # <<>>
    /\ revision < MaxRevision
    /\ undo' = Front(undo)
    /\ redo' = Append(redo, Current)
    /\ Restore(Last(undo))
    /\ UNCHANGED <<openRun, savedState, saved, focus>>

Undo ==
    /\ focus = "Editor"
    /\ undo # <<>>
    /\ revision < MaxRevision
    /\ undo' = Front(undo)
    /\ redo' = Append(redo, Current)
    /\ Restore(Last(undo))
    /\ openRun' = NoRun
    /\ UNCHANGED <<savedState, saved, focus>>

Redo ==
    /\ focus = "Editor"
    /\ redo # <<>>
    /\ revision < MaxRevision
    /\ redo' = Front(redo)
    /\ undo' = Append(undo, Current)
    /\ Restore(Last(redo))
    /\ openRun' = NoRun
    /\ UNCHANGED <<savedState, saved, focus>>

\* The save itself succeeded.  The action is offered to the focused panel
\* first, and the editor ends its run before it declines; with the tree
\* focused the editor on screen is saved without being asked.
Save ==
    /\ savedState' = state
    /\ saved' = text
    /\ openRun' = IF focus = "Editor" THEN NoRun ELSE openRun
    /\ UNCHANGED <<text, state, revision, undo, redo, focus>>

\* The watcher reports an outside write and the buffer is clean.
Reload ==
    /\ ~IsDirty
    /\ \E t \in Texts \ {text} : Loaded(t)
    /\ UNCHANGED focus

Next ==
    \/ \E kind \in EditKind : Type(kind)
    \/ EditAlone
    \/ EditFromServer
    \/ Boundary
    \/ FocusElsewhere
    \/ Undo
    \/ Redo
    \/ Save
    \/ Reload

Spec == Init /\ [][Next]_vars
-----------------------------------------------------------------------------
\* Every variable has its type, and no state was ever issued ahead of the
\* revision it is taken from.
TypeOK ==
    /\ text \in Texts
    /\ saved \in Texts
    /\ revision \in Nat
    /\ state \in 0..revision
    /\ savedState \in 0..revision
    /\ undo \in Seq(Snapshot)
    /\ redo \in Seq(Snapshot)
    /\ openRun \in EditKind \cup {NoRun}
    /\ focus \in {"Editor", "Tree"}

\* The buffer's claim of being clean (`is_dirty`) is about the text and not
\* only about a number: a clean buffer holds exactly the text last loaded or
\* written, however many undos and redos led there.
CleanIsSaved == ~IsDirty => text = saved

\* The history never holds more than MAX_UNDO_STEPS versions, although only
\* `record` trims and `redo` pushes on the same stack.
HistoryBounded == Len(undo) + Len(redo) <= MaxUndoSteps

\* Versions of the text that are still reachable: on screen, or in a stack.
Versions == {Current} \cup Range(undo) \cup Range(redo)

\* A state names one text: two snapshots with the same state hold the same
\* text, and the saved state names the saved text wherever it still is.
StateNamesText ==
    \A v, w \in Versions :
        /\ v.state = w.state => v.text = w.text
        /\ v.state = savedState => v.text = saved

TextsOf(snapshots) == [i \in 1..Len(snapshots) |-> snapshots[i].text]

\* The kinds whose edits run on: an "Other" is a step of its own.
RunningKinds == EditKind \ {"Other"}
RunOpen == IF openRun \in RunningKinds THEN openRun ELSE NoRun

\* The two stacks and the text on screen, read as one line of versions.
Timeline == INSTANCE UndoTimeline WITH
    Depth <- MaxUndoSteps,
    Kinds <- RunningKinds,
    Idle <- NoRun,
    line <- TextsOf(undo) \o <<text>> \o Reverse(TextsOf(redo)),
    at <- Len(undo) + 1,
    run <- RunOpen,
    keys <- focus = "Editor",
    stored <- saved

\* Undo and redo only move along one line of versions; an edit drops what
\* lay ahead of it; coalescing only replaces the version its own open run
\* has reached, and no edit continues the run of before an undo, a redo, a
\* reload, or a save made with the editor focused.
ImplementsTimeline == Timeline!Spec
=============================================================================
