------------------------------- MODULE SaveFile -------------------------------
(***************************************************************************)
(* Writing a file from several editors at once, on a disk that may lose    *)
(* power and among programs that may put files anywhere.                   *)
(*                                                                         *)
(* A buffer is saved with care: a temporary file of its own name, created  *)
(* exclusively, given the mode of the original, written, flushed, renamed  *)
(* over the target, the directory flushed.  Settings, key bindings and     *)
(* sessions are saved plainly: one temporary name, written and renamed.    *)
(*                                                                         *)
(* A directory maps names to files; what a crash of the machine may leave  *)
(* of a file or of the target's entry is kept beside it (`maybe`).  Texts  *)
(* are numbered in the order their saves begin; the target is the file     *)
(* behind the path, a symlink resolved.                                    *)
(***************************************************************************)
EXTENDS Integers, Sequences, SequencesExt, FiniteSets

CONSTANTS Editors,       \* instances of the editor
          Ways,          \* how the file is saved: careful, plain, or either
          TempAttempts,  \* TEMP_ATTEMPTS
          MayLosePower,  \* whether the machine may stop
          MaxSaves,      \* bound: saves begun
          MaxSquats      \* bound: files others put at temporary names

ASSUME SaveFileAssumption ==
    /\ TempAttempts \in Nat \ {0} /\ {MaxSaves, MaxSquats} \subseteq Nat
    /\ Ways \subseteq {"careful", "plain"} /\ MayLosePower \in BOOLEAN

Target == <<"target">>
PlainTemp == <<"target.toml.tmp">>
Temps == Editors \X (0..TempAttempts - 1)
Names == {Target, PlainTemp} \cup Temps

NoFile == 0
Empty == 0      \* created, nothing written
Part == -1      \* not the whole of a text
Theirs == -2    \* another program's text
Original == 1   \* what the target held at first

Modes == {"private", "open"}

VARIABLES dir,       \* the file each name names
          file,      \* every file made
          entry,     \* the files the target may name after a power loss
          existed,   \* the target was there at first
          plain,     \* it is a setting's or a session's file
          at,        \* the step each editor is at
          save,      \* the save each editor is doing
          saves,     \* saves begun
          renamed,   \* history: the texts renamed over the target
          promised,  \* history: how many of them are known to be durable
          calm       \* history: no two saves overlapped, no power was lost

given == <<existed, plain>>
vars == <<dir, file, entry, given, at, save, saves, renamed, promised, calm>>

File(text, mode) == [text |-> text, mode |-> mode, maybe |-> {text}]
NoSave == [text |-> Empty, temp |-> Target, id |-> NoFile, attempt |-> 0]

Init ==
    \E there \in BOOLEAN, mode \in Modes :
        /\ existed = there
        /\ file = <<File(Original, mode)>>
        /\ dir = [n \in Names |-> IF there /\ n = Target THEN 1 ELSE NoFile]
        /\ entry = {dir[Target]}
        /\ at = [e \in Editors |-> "idle"]
        /\ save = [e \in Editors |-> NoSave]
        /\ saves = 0
        /\ renamed = <<>>
        /\ promised = 0
        /\ plain \in {way = "plain" : way \in Ways}
        /\ calm = TRUE

Goes(e, step) == at' = [at EXCEPT ![e] = step]
Rewritten(id, f) == file' = [file EXCEPT ![id] = f]
Takes(e, temp, id) == save' = [save EXCEPT ![e].temp = temp, ![e].id = id]

-----------------------------------------------------------------------------
(* TextBuffer::save *)

Begin(e) ==
    /\ at[e] = "idle" /\ saves < MaxSaves
    /\ saves' = saves + 1
    /\ calm' = (calm /\ \A other \in Editors : at[other] \in {"idle", "killed"})
    /\ save' = [save EXCEPT ![e] = [NoSave EXCEPT !.text = Original + saves + 1]]
    /\ Goes(e, IF plain THEN "open" ELSE "create")
    /\ UNCHANGED <<dir, file, entry, given, renamed, promised>>

\* A save that failed before there was a temporary file, or that is done.
Returns(e) == /\ Goes(e, "idle")
              /\ save' = [save EXCEPT ![e] = NoSave]

CreateMode == IF dir[Target] # NoFile THEN "private" ELSE "open"

\* Mutant: there is always another name.
NextEver(e) == save' = [save EXCEPT ![e].attempt = @ + 1] /\ UNCHANGED at

\* The next name is tried when this one is taken.
NextName(e) ==
    IF save[e].attempt + 1 < TempAttempts
    THEN save' = [save EXCEPT ![e].attempt = @ + 1] /\ UNCHANGED at
    ELSE Returns(e)

\* Mutant: File::create instead of create_new.
Truncated(e, temp) ==
    /\ Takes(e, temp, dir[temp])
    /\ Rewritten(dir[temp], [file[dir[temp]] EXCEPT
                                !.text = Empty, !.maybe = @ \cup {Empty}])
    /\ Goes(e, "mode")
    /\ UNCHANGED dir

\* create_new refuses a name that is there.
AlreadyExists(e, temp) == NextName(e) /\ UNCHANGED <<dir, file>>

CreateTemp(e) ==
    LET temp == <<e, save[e].attempt>>
    IN /\ at[e] = "create"
       /\ \/ dir[temp] # NoFile /\ AlreadyExists(e, temp)
          \/ /\ dir[temp] = NoFile
             /\ file' = Append(file, File(Empty, CreateMode))
             /\ dir' = [dir EXCEPT ![temp] = Len(file) + 1]
             /\ Takes(e, temp, Len(file) + 1)
             /\ Goes(e, "mode")
          \/ Returns(e) /\ UNCHANGED <<dir, file>>
       /\ UNCHANGED <<entry, given, saves, renamed, promised, calm>>

\* Any step after the temporary file is there may fail, and then removes it.
RemovesTemp(e) == dir' = [dir EXCEPT ![save[e].temp] = NoFile]

Fails(e) ==
    /\ at[e] \in {"mode", "write", "written", "sync", "rename"} /\ ~plain
    /\ RemovesTemp(e)
    /\ Returns(e)
    /\ UNCHANGED <<file, entry, given, saves, renamed, promised, calm>>

\* Mutant: the mode is not copied.
NoPermissions(e) == file[save[e].id].mode

\* copy_permissions, where there is an original.
Permissions(e) ==
    IF dir[Target] = NoFile THEN file[save[e].id].mode
    ELSE file[dir[Target]].mode

CopyPermissions(e) ==
    /\ at[e] = "mode"
    /\ Rewritten(save[e].id, [file[save[e].id] EXCEPT !.mode = Permissions(e)])
    /\ Goes(e, "write")
    /\ UNCHANGED <<dir, entry, given, save, saves, renamed, promised, calm>>

\* write_all, of a text of more than one chunk.
WriteAll(e) ==
    /\ \/ /\ at[e] = "write" /\ Goes(e, "written")
          /\ Rewritten(save[e].id, [file[save[e].id] EXCEPT
                                        !.text = Part, !.maybe = @ \cup {Part}])
       \/ /\ at[e] = "written" /\ Goes(e, IF plain THEN "rename" ELSE "sync")
          /\ Rewritten(save[e].id, [file[save[e].id] EXCEPT
                           !.text = save[e].text, !.maybe = @ \cup {save[e].text}])
    /\ UNCHANGED <<dir, entry, given, save, saves, renamed, promised, calm>>

\* Mutant: no sync_all before the rename.
Unflushed(f) == f

Flushed(f) == [f EXCEPT !.maybe = {f.text}]

SyncAll(e) ==
    /\ at[e] = "sync"
    /\ Rewritten(save[e].id, Flushed(file[save[e].id]))
    /\ Goes(e, "rename")
    /\ UNCHANGED <<dir, entry, given, save, saves, renamed, promised, calm>>

Rename(e) ==
    /\ at[e] = "rename" /\ dir[save[e].temp] # NoFile
    /\ dir' = [dir EXCEPT ![Target] = dir[save[e].temp],
                          ![save[e].temp] = NoFile]
    /\ entry' = entry \cup {dir[save[e].temp]}
    /\ renamed' = Append(renamed, save[e].text)
    /\ IF plain THEN Returns(e) ELSE Goes(e, "sync_dir") /\ UNCHANGED save
    /\ UNCHANGED <<file, given, saves, promised, calm>>

\* Mutant: the directory is not flushed.
NoSync == entry

Synced == {dir[Target]}

\* Where the directory cannot be flushed the save has worked all the same, and
\* promises nothing about a power loss.
SyncParentDir(e) ==
    /\ at[e] = "sync_dir"
    /\ \/ entry' = Synced /\ promised' = Len(renamed)
       \/ UNCHANGED <<entry, promised>>
    /\ Returns(e)
    /\ UNCHANGED <<dir, file, given, saves, renamed, calm>>

-----------------------------------------------------------------------------
(* The plain save of config/write.rs and session.rs.  Its steps are also     *)
(* WriteAll and Rename.                                                      *)

\* Mutant: the file is written in place.
InPlace == Target

TempBeside == PlainTemp

\* fs::write creates the file or truncates the one that is there.
OpenPlain(e) ==
    LET temp == TempBeside
    IN /\ at[e] = "open"
       /\ IF dir[temp] = NoFile
          THEN /\ file' = Append(file, File(Empty, "open"))
               /\ dir' = [dir EXCEPT ![temp] = Len(file) + 1]
               /\ Takes(e, temp, Len(file) + 1)
          ELSE /\ Rewritten(dir[temp], [file[dir[temp]] EXCEPT
                                        !.text = Empty,
                                        !.maybe = @ \cup {Empty}])
               /\ Takes(e, temp, dir[temp])
               /\ UNCHANGED dir
       /\ Goes(e, "write")
       /\ UNCHANGED <<entry, given, saves, renamed, promised, calm>>

\* A step fails, or the name to rename is gone; nothing is cleaned up.
FailsPlain(e) ==
    /\ plain /\ at[e] \in {"open", "write", "written", "rename"}
    /\ Returns(e)
    /\ UNCHANGED <<dir, file, entry, given, saves, renamed, promised, calm>>

-----------------------------------------------------------------------------
(* What else happens to a disk. *)

Killed(e) ==
    /\ at[e] # "killed"
    /\ Goes(e, "killed")
    /\ UNCHANGED <<dir, file, entry, given, save, saves, renamed, promised, calm>>

Foreign == {id \in 1..Len(file) : Theirs \in file[id].maybe}

Squats ==
    /\ Cardinality(Foreign) < MaxSquats
    /\ \E temp \in Temps :
           /\ dir[temp] = NoFile
           /\ file' = Append(file, File(Theirs, "open"))
           /\ dir' = [dir EXCEPT ![temp] = Len(file) + 1]
    /\ UNCHANGED <<entry, given, at, save, saves, renamed, promised, calm>>

\* What is not flushed may be there or not.
LosesPower ==
    /\ MayLosePower /\ \E e \in Editors : at[e] # "killed"
    /\ at' = [e \in Editors |-> "killed"]
    /\ calm' = FALSE
    /\ \E id \in entry :
           /\ dir' = [dir EXCEPT ![Target] = id]
           /\ entry' = {id}
           /\ IF id = NoFile THEN UNCHANGED file
              ELSE \E text \in file[id].maybe :
                       Rewritten(id, [file[id] EXCEPT !.text = text,
                                                      !.maybe = {text}])
    /\ UNCHANGED <<given, save, saves, renamed, promised>>

Next ==
    \/ \E e \in Editors :
           \/ Begin(e) \/ CreateTemp(e) \/ CopyPermissions(e) \/ WriteAll(e)
           \/ SyncAll(e) \/ Rename(e) \/ SyncParentDir(e) \/ Fails(e)
           \/ OpenPlain(e) \/ FailsPlain(e) \/ Killed(e)
    \/ Squats \/ LosesPower

Spec == Init /\ [][Next]_vars

-----------------------------------------------------------------------------
(* Properties. *)

Texts == {Empty, Part, Theirs} \cup (Original..Original + MaxSaves)
Steps == {"idle", "create", "mode", "open", "write", "written", "sync", "rename",
          "sync_dir", "killed"}

\* The states of the variables (TextBuffer::save and the files it touches).
TypeOK ==
    /\ dir \in [Names -> 0..Len(file)]
    /\ \A id \in 1..Len(file) :
           /\ file[id].text \in file[id].maybe
           /\ file[id].maybe \subseteq Texts /\ file[id].mode \in Modes
    /\ entry \subseteq 0..Len(file) /\ (plain \/ dir[Target] \in entry)
    /\ at \in [Editors -> Steps]
    /\ \A e \in Editors : save[e].attempt < TempAttempts
    /\ \A e \in Editors : at[e] \in {"write", "written", "sync", "rename"} =>
           /\ save[e].id \in 1..Len(file)
           /\ save[e].text \in Texts
    /\ promised \in 0..Len(renamed)

Whole ==
    /\ existed => dir[Target] # NoFile
    /\ dir[Target] # NoFile => file[dir[Target]].text >= Original

\* A file saved with care is always whole: what it was, or all of a text that
\* was saved, whatever fails, is killed or loses power, and it is always there
\* ("an interrupted save leaves the previous file intact", buffer.rs).
TargetWhole == ~plain => Whole

\* So is one saved plainly, killed at any point, as long as one editor at a time
\* saves it: "a crash mid-write leaves the old session rather than half of a new
\* one" (session.rs save).
WholeUnlessShared == plain /\ calm => Whole

\* A save that returned and flushed the directory survives a power loss: the
\* path then names its text or one renamed later (write_all_and_sync,
\* sync_parent_dir).
SavedIsDurable ==
    promised > 0 =>
        /\ dir[Target] # NoFile
        /\ \E i \in promised..Len(renamed) : renamed[i] = file[dir[Target]].text

\* The text of a file that is replaced is never on disk under another mode,
\* in the temporary file or in what takes its place (create_temp,
\* copy_permissions).
UnderItsMode ==
    existed /\ ~plain => \A id \in 1..Len(file) :
        file[id].text \notin {Empty, Theirs} => file[id].mode = file[1].mode

\* What another program put at a temporary name is neither written through
\* nor removed nor renamed over the target (create_temp).
OthersUntouched ==
    \A id \in Foreign : /\ file[id].text = Theirs
                        /\ \E temp \in Temps : dir[temp] = id

\* Types, and: the file is whole, saved with care or plainly (TextBuffer::save,
\* session::save).
SavedWhole == TypeOK /\ TargetWhole /\ WholeUnlessShared

\* A save harms nothing but the file's old text: not its mode, and no file of
\* another program (create_temp, copy_permissions).
NothingSpoiled == UnderItsMode /\ OthersUntouched
=============================================================================
