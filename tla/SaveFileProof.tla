----------------------------- MODULE SaveFileProof -----------------------------
(***************************************************************************)
(* Proofs about SaveFile: that a file saved with care is always whole, that*)
(* a save that promised durability survives a power loss, and that a save  *)
(* spoils nothing else, for every set of editors, every number of saves    *)
(* and every number of temporary names.                                    *)
(*                                                                         *)
(* None of the three is inductive.  What is: every name names a file of    *)
(* its own, an editor's temporary file is its own until it is renamed, and *)
(* holds at each step what that step left in it; and every file the target *)
(* may name after a power loss is already whole and under its mode.        *)
(***************************************************************************)
EXTENDS SaveFile, SequenceTheorems, TLAPS

\* The steps of a save that has a temporary file.
Holding == {"mode", "write", "written", "sync", "rename"}

\* The steps of a save not yet done or given up.
Underway == Steps \ {"idle", "killed"}

\* The types TypeOK leaves out, of what a step computes with.
Typed ==
    /\ TypeOK
    /\ file \in Seq([text : Texts, mode : Modes, maybe : SUBSET Texts])
    /\ Len(file) >= 1
    /\ save \in [Editors -> [text : Texts, temp : Names, id : 0..Len(file),
                             attempt : 0..TempAttempts - 1]]
    /\ saves \in 0..MaxSaves
    /\ renamed \in Seq(Texts)
    /\ {existed, plain, calm} \subseteq BOOLEAN

\* Which steps a save of each way goes through, and what it is saving.
OnItsWay ==
    \A e \in Editors :
        /\ plain => at[e] \notin {"create", "mode", "sync", "sync_dir"}
        /\ ~plain => at[e] # "open"
        /\ at[e] \in Underway => save[e].text >= Original

\* No two names name one file, and what the target may name after a power loss
\* no other name does.
NamesApart ==
    /\ \A m, n \in Names : dir[m] = dir[n] /\ dir[m] # NoFile => m = n
    /\ dir[Target] \in entry
    /\ \A id \in entry, n \in Names : n # Target /\ id # NoFile => dir[n] # id

\* The file an editor writes is not another program's, and is what its own
\* temporary name names, never the file that was there at first.
HoldsItsOwn ==
    \A e \in Editors : at[e] \in Holding =>
        /\ save[e].id \in 1..Len(file) \ Foreign
        /\ plain => save[e].temp = PlainTemp
        /\ ~plain => /\ save[e].temp = <<e, save[e].attempt>>
                     /\ dir[save[e].temp] = save[e].id
                     /\ save[e].id # 1

\* Another program's files are at temporary names and nowhere else.
OthersApart ==
    /\ OthersUntouched
    /\ dir[Target] \notin Foreign /\ dir[PlainTemp] \notin Foreign
    /\ entry \cap Foreign = {}

\* What each step of a careful save has left in the temporary file.
StepsDone ==
    ~plain => \A e \in Editors :
        /\ at[e] = "mode" => file[save[e].id].text = Empty
        /\ existed /\ at[e] \in Holding \ {"mode"} =>
               file[save[e].id].mode = file[1].mode
        /\ at[e] \in {"sync", "rename"} =>
               file[save[e].id].text = save[e].text
        /\ at[e] = "rename" => file[save[e].id].maybe = {save[e].text}
        /\ at[e] = "sync_dir" => renamed # <<>>

\* What the target may name after a power loss is whole, and is one of the
\* texts promised.
EntryWhole ==
    ~plain =>
        /\ existed => NoFile \notin entry
        /\ \A id \in entry : id # NoFile =>
               \A text \in file[id].maybe : text >= Original
        /\ promised > 0 => \A id \in entry :
               /\ id # NoFile
               /\ \E i \in promised..Len(renamed) : file[id].maybe = {renamed[i]}
        /\ renamed # <<>> /\ (\E e \in Editors : at[e] # "killed") =>
               /\ dir[Target] # NoFile
               /\ file[dir[Target]].maybe = {renamed[Len(renamed)]}

\* A plain save nobody else's overlaps: its file is the one at the one
\* temporary name, and is whole when it is renamed.
AloneWhole ==
    plain /\ calm =>
        /\ Whole
        /\ \A e, f \in Editors :
               at[e] \in Underway /\ at[f] \in Underway => e = f
        /\ \A e \in Editors : at[e] \in Holding =>
               /\ dir[PlainTemp] = save[e].id
               /\ at[e] = "rename" => file[save[e].id].text = save[e].text

PromisedCarefully == plain => promised = 0

SaveInv ==
    /\ Typed
    /\ OnItsWay
    /\ NamesApart
    /\ HoldsItsOwn
    /\ OthersApart
    /\ StepsDone
    /\ UnderItsMode
    /\ EntryWhole
    /\ AloneWhole
    /\ PromisedCarefully

-----------------------------------------------------------------------------
(***************************************************************************)
(* Names and files.                                                        *)
(***************************************************************************)

\* The target, the one temporary name of a plain save and the temporary names
\* of careful saves differ, and two editors' differ.
LEMMA NamesDiffer ==
    /\ Target # PlainTemp /\ Target \notin Temps /\ PlainTemp \notin Temps
    /\ {Target, PlainTemp} \subseteq Names /\ Temps \subseteq Names
    /\ \A e \in Editors, a \in 0..TempAttempts - 1 : <<e, a>> \in Temps
    /\ \A e, f, a, b : <<e, a>> = <<f, b>> => e = f /\ a = b
  BY DEF Target, PlainTemp, Temps, Names

\* A text is one of the constants' texts; none of a save's is another's.
LEMMA TextsDiffer ==
    /\ {Empty, Part, Theirs, Original} \subseteq Texts
    /\ \A t \in Texts : t >= Original => t \notin {Empty, Part, Theirs}
    /\ \A t \in Texts : t \in Int
    /\ Empty < Original /\ Theirs # Empty /\ Theirs # Part
  BY SaveFileAssumption DEF Empty, Part, Theirs, Original, Texts

Files == [text : Texts, mode : Modes, maybe : SUBSET Texts]

\* What Rewritten does to the files: one changes, and none appears.
LEMMA RewrittenFile ==
    ASSUME Typed, NEW id \in 1..Len(file), NEW f \in Files, Rewritten(id, f)
    PROVE  /\ file' \in Seq(Files) /\ Len(file') = Len(file)
           /\ file'[id] = f
           /\ \A other \in 1..Len(file) : other # id => file'[other] = file[other]
  BY ExceptSeq DEF Typed, Files, Rewritten

\* A file made: one more, and none changes.
LEMMA MadeFile ==
    ASSUME Typed, NEW f \in Files, file' = Append(file, f)
    PROVE  /\ file' \in Seq(Files) /\ Len(file') = Len(file) + 1
           /\ Len(file) \in Nat
           /\ file'[Len(file) + 1] = f
           /\ \A other \in 1..Len(file) : file'[other] = file[other]
  BY AppendProperties, LenProperties DEF Typed, Files

\* A file just made is a file.
LEMMA FileType ==
    ASSUME NEW text \in Texts, NEW mode \in Modes
    PROVE  /\ File(text, mode) \in Files
           /\ File(text, mode).text = text /\ File(text, mode).mode = mode
           /\ File(text, mode).maybe = {text}
  BY DEF File, Files

\* Every file made is a file.
LEMMA FilesType ==
    ASSUME Typed
    PROVE  /\ file \in Seq(Files)
           /\ Len(file) \in Nat
           /\ \A id \in 1..Len(file) :
                  /\ file[id] \in Files /\ file[id].text \in file[id].maybe
                  /\ file[id].text \in Texts /\ file[id].mode \in Modes
                  /\ file[id].maybe \subseteq Texts
  BY ElementOfSeq, LenProperties DEF Typed, TypeOK, Files

-----------------------------------------------------------------------------
\* Before any save the target is what it was, and nothing else is there.
LEMMA InitSaveInv == Init => SaveInv
<1> SUFFICES ASSUME Init PROVE SaveInv
  OBVIOUS
<1>1. PICK there \in BOOLEAN, mode \in Modes :
          /\ existed = there
          /\ file = <<File(Original, mode)>>
          /\ dir = [n \in Names |-> IF there /\ n = Target THEN 1 ELSE NoFile]
  BY DEF Init
<1>2. /\ file \in Seq(Files) /\ Len(file) = 1
      /\ file[1].text = Original /\ file[1].maybe = {Original}
      /\ file[1].mode \in Modes
  BY <1>1, FileType, TextsDiffer
<1>3. /\ dir[Target] = IF existed THEN 1 ELSE NoFile
      /\ \A n \in Names : n # Target => dir[n] = NoFile
      /\ dir \in [Names -> 0..1]
  BY <1>1, NamesDiffer DEF NoFile
<1>4. Foreign = {}
  BY <1>2 DEF Foreign, Theirs, Original
<1>5. Typed
  <2>1. TypeOK
    BY <1>2, <1>3, NamesDiffer, SaveFileAssumption, TextsDiffer
      DEF Init, TypeOK, Steps, NoSave, NoFile
  <2>2. plain \in BOOLEAN
    BY DEF Init
  <2> QED
    BY <2>1, <2>2, <1>1, <1>2, NamesDiffer, SaveFileAssumption, TextsDiffer
      DEF Init, Typed, NoSave, NoFile, Files
<1>6. OnItsWay /\ HoldsItsOwn /\ StepsDone /\ PromisedCarefully
  BY DEF Init, OnItsWay, HoldsItsOwn, StepsDone, PromisedCarefully, Holding,
         Underway
<1>7. NamesApart
  BY <1>3 DEF Init, NamesApart
<1>8. OthersApart
  BY <1>4, <1>3, NamesDiffer DEF OthersApart, OthersUntouched
<1>9. UnderItsMode
  BY <1>2 DEF UnderItsMode
<1>10. EntryWhole
  BY <1>2, <1>3 DEF Init, EntryWhole, NoFile, Original
<1>11. AloneWhole
  <2>1. Whole
    BY <1>2, <1>3 DEF Whole, NoFile, Original
  <2> QED BY <2>1 DEF Init, AloneWhole, Holding, Underway
<1> QED
  BY <1>5, <1>6, <1>7, <1>8, <1>9, <1>10, <1>11 DEF SaveInv

-----------------------------------------------------------------------------
(***************************************************************************)
(* The steps of a save.                                                    *)
(***************************************************************************)

\* An editor that returns or is killed leaves every file as it was.
LEMMA StopsSaveInv ==
    ASSUME SaveInv, NEW e \in Editors, NEW step \in {"idle", "killed"},
           at[e] # "killed", Goes(e, step),
           save' = save \/ save' = [save EXCEPT ![e] = NoSave],
           UNCHANGED <<dir, file, entry, given, saves, renamed, promised, calm>>
    PROVE  SaveInv'
<1> USE DEF given
<1>0. Typed
  BY DEF SaveInv
<1>1. /\ at'[e] = step
      /\ \A o \in Editors : o # e => at'[o] = at[o] /\ save'[o] = save[o]
  BY DEF SaveInv, Typed, TypeOK, Goes
<1>2. Foreign' = Foreign
  BY DEF Foreign
<1>3. Typed'
  <2>1. at' \in [Editors -> Steps]
    BY DEF SaveInv, Typed, TypeOK, Goes, Steps
  <2>2. save' \in [Editors -> [text : Texts, temp : Names, id : 0..Len(file),
                               attempt : 0..TempAttempts - 1]]
    <3>1. NoSave \in [text : Texts, temp : Names, id : 0..Len(file),
                      attempt : 0..TempAttempts - 1]
      BY <1>0, NamesDiffer, TextsDiffer, SaveFileAssumption, FilesType
        DEF NoSave, NoFile
    <3> QED BY <1>0, <3>1 DEF Typed
  <2>3. \A o \in Editors : save'[o].attempt < TempAttempts
    BY <2>2, SaveFileAssumption
  <2>4. \A o \in Editors : at'[o] \in {"write", "written", "sync", "rename"} =>
            save'[o].id \in 1..Len(file') /\ save'[o].text \in Texts
    BY <1>0, <1>1 DEF Typed, TypeOK
  <2>5. TypeOK'
    BY <1>0, <2>1, <2>3, <2>4 DEF Typed, TypeOK
  <2> QED BY <1>0, <2>2, <2>5 DEF Typed
<1>4. OnItsWay'
  BY <1>1 DEF SaveInv, OnItsWay, Underway
<1>5. NamesApart' /\ OthersApart' /\ UnderItsMode' /\ PromisedCarefully'
  BY <1>2 DEF SaveInv, NamesApart, OthersApart, OthersUntouched, UnderItsMode,
              PromisedCarefully
<1>6. HoldsItsOwn'
  BY <1>1, <1>2 DEF SaveInv, HoldsItsOwn, Holding
<1>7. StepsDone'
  BY <1>1 DEF SaveInv, StepsDone, Holding
<1>8. EntryWhole'
  <2>1. (\E o \in Editors : at'[o] # "killed") => \E o \in Editors : at[o] # "killed"
    OBVIOUS
  <2> QED BY <2>1 DEF SaveInv, EntryWhole
<1>9. AloneWhole'
  BY <1>1 DEF SaveInv, AloneWhole, Whole, Holding, Underway
<1> QED
  BY <1>3, <1>4, <1>5, <1>6, <1>7, <1>8, <1>9 DEF SaveInv

\* What the types of the next state come down to.
LEMMA TypedFrom ==
    ASSUME Typed, UNCHANGED given,
           file' \in Seq(Files), Len(file') >= 1,
           \A id \in 1..Len(file') : file'[id].text \in file'[id].maybe,
           dir' \in [Names -> 0..Len(file')], entry' \subseteq 0..Len(file'),
           dir'[Target] \in entry',
           at' \in [Editors -> Steps],
           save' \in [Editors -> [text : Texts, temp : Names, id : 0..Len(file'),
                                  attempt : 0..TempAttempts - 1]],
           \A e \in Editors : at'[e] \in Holding => save'[e].id # NoFile,
           saves' \in 0..MaxSaves, renamed' \in Seq(Texts),
           promised' \in 0..Len(renamed'), calm' \in BOOLEAN
    PROVE  Typed'
<1>1. Len(file') \in Nat /\ \A id \in 1..Len(file') : file'[id] \in Files
  BY LenProperties, ElementOfSeq
<1>2. TypeOK'
  <2>1. \A e \in Editors : save'[e].attempt < TempAttempts
    BY SaveFileAssumption
  <2>2. \A e \in Editors : at'[e] \in {"write", "written", "sync", "rename"} =>
            save'[e].id \in 1..Len(file') /\ save'[e].text \in Texts
    BY <1>1 DEF Holding, NoFile
  <2> QED BY <1>1, <2>1, <2>2 DEF TypeOK, Files
<1> QED BY <1>2 DEF Typed, Files, given

SaveRecords(n) == [text : Texts, temp : Names, id : 0..n,
                   attempt : 0..TempAttempts - 1]

\* One editor is given a file, which may be one more.
LEMMA TakenFile ==
    ASSUME Typed, NEW e \in Editors, NEW temp \in Names, NEW n \in Nat,
           n >= Len(file), NEW id \in 0..n, Takes(e, temp, id)
    PROVE  /\ save' \in [Editors -> SaveRecords(n)]
           /\ save'[e].text = save[e].text /\ save'[e].attempt = save[e].attempt
           /\ save'[e].temp = temp /\ save'[e].id = id
           /\ \A o \in Editors : o # e => save'[o] = save[o]
<1>1. Len(file) \in Nat /\ save \in [Editors -> SaveRecords(Len(file))]
  BY FilesType DEF Typed, SaveRecords
<1>2. 0..Len(file) \subseteq 0..n
  BY <1>1
<1>3. save \in [Editors -> [text : Texts, temp : Names, id : 0..n,
                           attempt : 0..TempAttempts - 1]]
  BY <1>1, <1>2 DEF SaveRecords
<1> QED BY <1>3 DEF Takes, SaveRecords

\* A save begins: it has a text and no file yet.
LEMMA BeginSaveInv ==
    ASSUME SaveInv, NEW e \in Editors, Begin(e)
    PROVE  SaveInv'
<1> USE DEF given
<1> DEFINE begun == [NoSave EXCEPT !.text = Original + saves + 1]
<1>0. Typed
  BY DEF SaveInv
<1>1. /\ at'[e] \in {"open", "create"} /\ at[e] = "idle"
      /\ plain => at'[e] = "open"
      /\ ~plain => at'[e] = "create"
      /\ \A o \in Editors : o # e => at'[o] = at[o] /\ save'[o] = save[o]
  BY <1>0 DEF Begin, Goes, Typed, TypeOK
<1>2. /\ begun \in [text : Texts, temp : Names, id : 0..Len(file),
                    attempt : 0..TempAttempts - 1]
      /\ begun.text >= Original
      /\ saves' \in 0..MaxSaves
  <2>1. saves' \in 0..MaxSaves /\ Original + saves + 1 \in Original..Original + MaxSaves
    BY <1>0, SaveFileAssumption DEF Begin, Typed, Original
  <2>2. /\ 0 \in 0..TempAttempts - 1 /\ NoFile \in 0..Len(file)
        /\ Target \in Names
    BY <1>0, NamesDiffer, SaveFileAssumption, FilesType DEF NoFile
  <2>3. begun = [text |-> Original + saves + 1, temp |-> Target, id |-> NoFile,
                 attempt |-> 0]
    BY DEF NoSave
  <2> HIDE DEF begun
  <2> QED BY <2>1, <2>2, <2>3 DEF Texts, Original
<1>3. Foreign' = Foreign
  BY DEF Begin, Foreign
<1>4. save'[e] = begun
  BY <1>0 DEF Begin, Typed
<1> HIDE DEF begun
<1>5. Typed'
  <2>1. at' \in [Editors -> Steps]
    BY <1>0 DEF Typed, TypeOK, Begin, Goes, Steps
  <2>2. save' \in [Editors -> [text : Texts, temp : Names, id : 0..Len(file),
                               attempt : 0..TempAttempts - 1]]
    BY <1>0, <1>2 DEF Begin, Typed, begun
  <2>3. \A o \in Editors : at'[o] \in Holding => save'[o].id # NoFile
    BY <1>0, <1>1, FilesType DEF SaveInv, HoldsItsOwn, Holding, NoFile
  <2> QED
    BY <1>0, <1>2, <2>1, <2>2, <2>3, TypedFrom, FilesType
      DEF Begin, Typed, TypeOK, SaveInv, NamesApart
<1>6. OnItsWay'
  BY <1>1, <1>2, <1>4 DEF SaveInv, OnItsWay, Begin
<1>7. NamesApart' /\ OthersApart' /\ UnderItsMode' /\ PromisedCarefully'
  BY <1>3 DEF SaveInv, NamesApart, OthersApart, OthersUntouched, UnderItsMode,
              PromisedCarefully, Begin
<1>8. HoldsItsOwn'
  BY <1>1, <1>3 DEF SaveInv, HoldsItsOwn, Holding, Begin
<1>9. StepsDone'
  BY <1>1 DEF SaveInv, StepsDone, Holding, Begin
<1>10. EntryWhole'
  BY <1>1 DEF SaveInv, EntryWhole, Begin
<1>11. AloneWhole'
  BY <1>1 DEF SaveInv, AloneWhole, Whole, Holding, Underway, Begin
<1> QED
  BY <1>5, <1>6, <1>7, <1>8, <1>9, <1>10, <1>11 DEF SaveInv

\* An editor works on the file it holds: the mode is copied, some of the text is
\* written, all of it is, it is flushed.
LEMMA WorksSaveInv ==
    ASSUME SaveInv, NEW e \in Editors, NEW step \in Holding \ {"mode"},
           NEW f \in Files,
           at[e] \in Holding, Goes(e, step), Rewritten(save[e].id, f),
           f.text \in f.maybe, Theirs \notin f.maybe,
           plain => step # "sync",
           existed /\ ~plain => f.mode = file[1].mode,
           step \in {"sync", "rename"} => f.text = save[e].text,
           step = "rename" /\ ~plain => f.maybe = {save[e].text},
           UNCHANGED <<dir, entry, given, save, saves, renamed, promised, calm>>
    PROVE  SaveInv'
<1> USE DEF given
<1> DEFINE own == save[e].id
<1>0. Typed
  BY DEF SaveInv
<1>1. /\ at'[e] = step
      /\ \A o \in Editors : o # e => at'[o] = at[o]
  BY <1>0 DEF Goes, Typed, TypeOK
<1>2. /\ own \in 1..Len(file) \ Foreign
      /\ plain => save[e].temp = PlainTemp
      /\ ~plain => /\ save[e].temp = <<e, save[e].attempt>>
                   /\ dir[save[e].temp] = own
                   /\ own # 1
  BY DEF SaveInv, HoldsItsOwn
<1> HIDE DEF own
<1>3. /\ file' \in Seq(Files) /\ Len(file') = Len(file) /\ Len(file) \in Nat
      /\ file'[own] = f
      /\ \A other \in 1..Len(file) : other # own => file'[other] = file[other]
  <2>1. Rewritten(own, f)
    BY DEF own
  <2> QED BY <1>0, <1>2, <2>1, RewrittenFile, FilesType
<1>4. Foreign' = Foreign
  BY <1>2, <1>3 DEF Foreign
<1>5. Typed'
  <2>1. at' \in [Editors -> Steps]
    BY <1>0 DEF Typed, TypeOK, Goes, Steps, Holding
  <2>2. \A o \in Editors : at'[o] \in Holding => save'[o].id # NoFile
    BY <1>0, <1>1, <1>2 DEF SaveInv, HoldsItsOwn, NoFile, own
  <2>3. \A id \in 1..Len(file') : file'[id].text \in file'[id].maybe
    BY <1>0, <1>3, FilesType
  <2> QED
    BY <1>0, <1>3, <2>1, <2>2, <2>3, TypedFrom
      DEF Typed, TypeOK, SaveInv, NamesApart
<1>6. OnItsWay'
  BY <1>1 DEF SaveInv, OnItsWay, Holding, Underway, Steps
<1>7. NamesApart' /\ PromisedCarefully'
  BY DEF SaveInv, NamesApart, PromisedCarefully
<1>8. OthersApart'
  <2>1. \A id \in Foreign : id \in 1..Len(file) /\ id # own
    BY <1>2 DEF Foreign
  <2> QED
    BY <1>3, <1>4, <2>1 DEF SaveInv, OthersApart, OthersUntouched
<1>9. HoldsItsOwn'
  BY <1>1, <1>3, <1>4 DEF SaveInv, HoldsItsOwn
\* No other editor holds this file, and the target does not name it.
<1>10. ASSUME ~plain
       PROVE  /\ \A o \in Editors : at[o] \in Holding /\ o # e => save[o].id # own
              /\ own \notin entry
  <2>1. save[e].temp \in Temps /\ own # NoFile
    <3>1. save[e].attempt \in 0..TempAttempts - 1
      BY <1>0 DEF Typed
    <3>2. <<e, save[e].attempt>> \in Temps
      BY <3>1, NamesDiffer
    <3>3. own # NoFile
      BY <1>2, <1>3 DEF NoFile
    <3> QED BY <1>2, <1>10, <3>2, <3>3
  <2>2. own \notin entry
    BY <1>2, <1>10, <2>1, NamesDiffer DEF SaveInv, NamesApart
  <2>3. ASSUME NEW o \in Editors, at[o] \in Holding, o # e
        PROVE  save[o].id # own
    <3>1. /\ save[o].temp = <<o, save[o].attempt>>
          /\ save[o].temp \in Names /\ dir[save[o].temp] = save[o].id
      BY <1>0, <1>10, <2>3 DEF SaveInv, HoldsItsOwn, Typed
    <3>2. save[o].temp # save[e].temp
      BY <1>2, <1>10, <2>3, <3>1, NamesDiffer
    <3>3. save[e].temp \in Names
      BY <1>0 DEF Typed
    <3> QED BY <1>2, <1>10, <2>1, <3>1, <3>2, <3>3 DEF SaveInv, NamesApart
  <2> QED BY <2>2, <2>3
<1>11. UnderItsMode'
  <2> SUFFICES ASSUME existed, ~plain, NEW id \in 1..Len(file'),
                      file'[id].text \notin {Empty, Theirs}
               PROVE  file'[id].mode = file'[1].mode
    BY DEF UnderItsMode
  <2>1. file'[1] = file[1]
    BY <1>0, <1>2, <1>3 DEF Typed
  <2> QED BY <1>3, <2>1 DEF SaveInv, UnderItsMode
<1>12. StepsDone'
  <2> SUFFICES ASSUME ~plain, NEW o \in Editors
               PROVE  /\ at'[o] = "mode" => file'[save[o].id].text = Empty
                      /\ existed /\ at'[o] \in Holding \ {"mode"} =>
                             file'[save[o].id].mode = file'[1].mode
                      /\ at'[o] \in {"sync", "rename"} =>
                             file'[save[o].id].text = save[o].text
                      /\ at'[o] = "rename" =>
                             file'[save[o].id].maybe = {save[o].text}
                      /\ at'[o] = "sync_dir" => renamed # <<>>
    BY DEF StepsDone
  <2>1. file'[1] = file[1]
    BY <1>0, <1>2, <1>3 DEF Typed
  <2>2. CASE o = e
    BY <1>1, <1>3, <2>1, <2>2 DEF own, Holding
  <2>3. CASE o # e /\ at[o] \in Holding
    <3>1. save[o].id \in 1..Len(file) /\ file'[save[o].id] = file[save[o].id]
      BY <1>3, <1>10, <2>3 DEF SaveInv, HoldsItsOwn
    <3> QED
      BY <1>1, <2>1, <2>3, <3>1 DEF SaveInv, StepsDone
  <2>4. CASE o # e /\ at[o] \notin Holding
    BY <1>1, <2>4 DEF SaveInv, StepsDone, Holding
  <2> QED BY <2>2, <2>3, <2>4
<1>13. EntryWhole'
  <2> SUFFICES ASSUME ~plain PROVE EntryWhole'
    BY DEF EntryWhole
  <2>1. \A id \in entry : id # NoFile => file'[id] = file[id]
    BY <1>0, <1>3, <1>10 DEF Typed, TypeOK, NoFile
  <2>2. dir[Target] \in entry
    BY DEF SaveInv, NamesApart
  <2>3. \E o \in Editors : at[o] # "killed"
    BY DEF Holding
  <2>4. dir[Target] # NoFile => file'[dir[Target]] = file[dir[Target]]
    BY <2>1, <2>2
  <2> QED BY <2>1, <2>3, <2>4 DEF SaveInv, EntryWhole
<1>14. AloneWhole'
  <2> SUFFICES ASSUME plain, calm PROVE AloneWhole'
    BY DEF AloneWhole
  <2>1. /\ Whole
        /\ \A o, p \in Editors :
               at[o] \in Underway /\ at[p] \in Underway => o = p
        /\ \A o \in Editors : at[o] \in Holding =>
               /\ dir[PlainTemp] = save[o].id
               /\ at[o] = "rename" => file[save[o].id].text = save[o].text
    BY DEF SaveInv, AloneWhole
  <2>2. at[e] \in Underway /\ Holding \subseteq Underway
    BY DEF Holding, Underway, Steps
  <2>3. dir[PlainTemp] = own
    BY <2>1 DEF own
  <2>4. dir[Target] # NoFile => file'[dir[Target]] = file[dir[Target]]
    BY <1>0, <1>2, <1>3, <2>3, NamesDiffer
      DEF Typed, TypeOK, SaveInv, NamesApart, NoFile
  <2>5. Whole'
    BY <2>1, <2>4 DEF Whole
  <2>6. \A o \in Editors : at'[o] \in Underway => at[o] \in Underway
    BY <1>1, <2>2
  <2>7. \A o \in Editors : at'[o] \in Holding => o = e
    BY <1>1, <2>1, <2>2
  <2> QED
    BY <1>1, <1>3, <2>1, <2>3, <2>5, <2>6, <2>7 DEF AloneWhole, own
<1> QED
  BY <1>5, <1>6, <1>7, <1>8, <1>9, <1>11, <1>12, <1>13, <1>14 DEF SaveInv

\* The mode is copied: after it the temporary file has the target's.
LEMMA CopyPermissionsSaveInv ==
    ASSUME SaveInv, NEW e \in Editors, CopyPermissions(e)
    PROVE  SaveInv'
<1> DEFINE old == file[save[e].id]
           f == [old EXCEPT !.mode = Permissions(e)]
<1>1. Typed /\ at[e] = "mode"
  BY DEF SaveInv, CopyPermissions
<1>2. ~plain /\ save[e].id \in 1..Len(file) \ Foreign
  BY <1>1 DEF SaveInv, OnItsWay, HoldsItsOwn, Holding
<1>3. /\ old \in Files /\ old.text \in old.maybe /\ Theirs \notin old.maybe
  BY <1>1, <1>2, FilesType DEF Foreign
<1>4. /\ dir[Target] \in 0..Len(file)
      /\ Permissions(e) \in Modes
  BY <1>1, <1>2, FilesType, NamesDiffer DEF Typed, TypeOK, Permissions, NoFile
<1>5. f \in Files /\ f.text = old.text /\ f.maybe = old.maybe /\ f.mode = Permissions(e)
  BY <1>3, <1>4 DEF Files
\* The target has a text, which is under the mode of the file there at first.
<1>6. existed => Permissions(e) = file[1].mode
  <2> SUFFICES ASSUME existed PROVE Permissions(e) = file[1].mode
    OBVIOUS
  <2>1. dir[Target] \in entry /\ dir[Target] # NoFile
    BY <1>2 DEF SaveInv, NamesApart, EntryWhole
  <2>2. dir[Target] \in 1..Len(file)
    BY <1>1, <1>4, <2>1, FilesType DEF NoFile
  <2>3. file[dir[Target]].text >= Original
    BY <1>1, <1>2, <2>1, <2>2, FilesType DEF SaveInv, EntryWhole
  <2>4. file[dir[Target]].text \notin {Empty, Theirs}
    BY <1>1, <2>2, <2>3, FilesType, TextsDiffer
  <2> QED BY <1>2, <2>1, <2>2, <2>4 DEF SaveInv, UnderItsMode, Permissions
<1>7. Rewritten(save[e].id, f) /\ Goes(e, "write")
  BY DEF CopyPermissions
<1> HIDE DEF f, old
<1> QED
  BY <1>1, <1>2, <1>3, <1>5, <1>6, <1>7, WorksSaveInv
    DEF CopyPermissions, Holding

\* The text is written, first not all of it.
LEMMA WriteAllSaveInv ==
    ASSUME SaveInv, NEW e \in Editors, WriteAll(e)
    PROVE  SaveInv'
<1> DEFINE old == file[save[e].id]
           Wrote(text) == [old EXCEPT !.text = text, !.maybe = @ \cup {text}]
<1>1. Typed /\ at[e] \in {"write", "written"}
  BY DEF SaveInv, WriteAll
<1>2. save[e].id \in 1..Len(file) \ Foreign /\ save[e].text >= Original
  BY <1>1 DEF SaveInv, OnItsWay, HoldsItsOwn, Holding, Underway, Steps
<1>3. /\ old \in Files /\ old.text \in old.maybe /\ Theirs \notin old.maybe
  BY <1>1, <1>2, FilesType DEF Foreign
<1>4. existed /\ ~plain => old.mode = file[1].mode
  BY <1>1 DEF SaveInv, StepsDone, Holding
<1>5. ASSUME NEW text \in Texts
      PROVE  /\ Wrote(text) \in Files /\ Wrote(text).mode = old.mode
             /\ Wrote(text).text = text
             /\ Wrote(text).maybe = old.maybe \cup {text}
  BY <1>3 DEF Files
<1>6. /\ save[e].text \in Texts /\ save[e].text # Theirs
      /\ Part \in Texts /\ Part # Theirs
  BY <1>1, <1>2, TextsDiffer DEF Typed
<1>7. CASE at[e] = "write"
  <2>1. Rewritten(save[e].id, Wrote(Part)) /\ Goes(e, "written")
    BY <1>7 DEF WriteAll
  <2> HIDE DEF Wrote, old
  <2>2. /\ Wrote(Part) \in Files /\ Wrote(Part).text \in Wrote(Part).maybe
        /\ Theirs \notin Wrote(Part).maybe
        /\ existed /\ ~plain => Wrote(Part).mode = file[1].mode
    BY <1>3, <1>4, <1>5, <1>6
  <2> QED
    BY <1>7, <2>1, <2>2, WorksSaveInv DEF WriteAll, Holding
<1>8. CASE at[e] = "written"
  <2> DEFINE whole == Wrote(save[e].text)
             step == IF plain THEN "rename" ELSE "sync"
  <2>1. Rewritten(save[e].id, whole) /\ Goes(e, step)
    BY <1>8 DEF WriteAll
  <2> HIDE DEF Wrote, old
  <2>2. /\ whole \in Files /\ whole.text = save[e].text
        /\ whole.text \in whole.maybe /\ Theirs \notin whole.maybe
        /\ existed /\ ~plain => whole.mode = file[1].mode
    BY <1>3, <1>4, <1>5, <1>6
  <2> HIDE DEF whole
  <2>3. /\ step \in Holding \ {"mode"} /\ (plain => step # "sync")
        /\ ~(step = "rename" /\ ~plain)
    BY DEF Holding
  <2> HIDE DEF step
  <2> QED
    BY <1>8, <2>1, <2>2, <2>3, WorksSaveInv DEF WriteAll, Holding
<1> QED BY <1>1, <1>7, <1>8

\* The file is flushed: what it may hold is what it holds.
LEMMA SyncAllSaveInv ==
    ASSUME SaveInv, NEW e \in Editors, SyncAll(e)
    PROVE  SaveInv'
<1> DEFINE old == file[save[e].id]
           f == Flushed(old)
<1>1. Typed /\ at[e] = "sync"
  BY DEF SaveInv, SyncAll
<1>2. /\ ~plain /\ save[e].id \in 1..Len(file) \ Foreign
      /\ old.text = save[e].text
      /\ existed => old.mode = file[1].mode
  BY <1>1 DEF SaveInv, OnItsWay, HoldsItsOwn, Holding, StepsDone
<1>3. /\ old \in Files /\ old.text \in old.maybe /\ Theirs \notin old.maybe
  BY <1>1, <1>2, FilesType DEF Foreign
<1>4. /\ f \in Files /\ f.text = old.text /\ f.maybe = {old.text}
      /\ f.mode = old.mode
  BY <1>3 DEF Files, Flushed
<1>5. Rewritten(save[e].id, f) /\ Goes(e, "rename")
  BY DEF SyncAll
<1> HIDE DEF f, old
<1> QED
  BY <1>1, <1>2, <1>3, <1>4, <1>5, WorksSaveInv DEF SyncAll, Holding

\* A file made at a free name, by an editor or by another program, is apart from
\* every file there is.
LEMMA MadeApart ==
    ASSUME SaveInv, NEW temp \in Names \ {Target}, dir[temp] = NoFile,
           NEW text \in {Empty, Theirs}, NEW mode \in Modes,
           text = Theirs => temp \in Temps,
           file' = Append(file, File(text, mode)),
           dir' = [dir EXCEPT ![temp] = Len(file) + 1],
           UNCHANGED <<entry, given>>
    PROVE  /\ Len(file) \in Nat /\ Len(file) >= 1
           /\ file' \in Seq(Files) /\ Len(file') = Len(file) + 1
           /\ \A id \in 1..Len(file) : file'[id] = file[id]
           /\ file'[Len(file) + 1] = File(text, mode)
           /\ \A id \in 1..Len(file') : file'[id].text \in file'[id].maybe
           /\ dir' \in [Names -> 0..Len(file')]
           /\ dir'[temp] = Len(file) + 1
           /\ \A n \in Names : n # temp => dir'[n] = dir[n]
           /\ entry \subseteq 0..Len(file)
           /\ Foreign' = Foreign \cup (IF text = Theirs THEN {Len(file) + 1} ELSE {})
           /\ NamesApart' /\ OthersApart' /\ UnderItsMode'
<1> USE DEF given
<1> DEFINE new == Len(file) + 1
<1>0. Typed
  BY DEF SaveInv
<1>1. /\ File(text, mode) \in Files /\ File(text, mode).text = text
      /\ File(text, mode).maybe = {text}
  BY TextsDiffer, FileType
<1>2. /\ Len(file) \in Nat /\ Len(file) >= 1
      /\ file' \in Seq(Files) /\ Len(file') = new
      /\ \A id \in 1..Len(file) : file'[id] = file[id]
      /\ file'[new] = File(text, mode)
  <2>1. \A f \in Files : file' = Append(file, f) =>
            /\ file' \in Seq(Files) /\ Len(file') = Len(file) + 1
            /\ file'[Len(file) + 1] = f
            /\ \A other \in 1..Len(file) : file'[other] = file[other]
    BY <1>0, MadeFile
  <2> QED BY <1>0, <1>1, <2>1, FilesType DEF Typed
<1>3. \A id \in 1..Len(file') : id # new => id \in 1..Len(file)
  BY <1>2
<1>4. \A id \in 1..Len(file') : file'[id].text \in file'[id].maybe
  BY <1>0, <1>1, <1>2, <1>3, FilesType
<1>5. /\ dir \in [Names -> 0..Len(file)] /\ entry \subseteq 0..Len(file)
      /\ dir[Target] \in entry
  BY <1>0 DEF Typed, TypeOK, SaveInv, NamesApart
<1>6. /\ dir' \in [Names -> 0..Len(file')] /\ dir'[temp] = new
      /\ \A n \in Names : n # temp => dir'[n] = dir[n]
  BY <1>2, <1>5
<1>7. Foreign' = Foreign \cup (IF text = Theirs THEN {new} ELSE {})
  <2>1. \A id \in 1..Len(file') :
            Theirs \in file'[id].maybe <=> id \in Foreign \/ (id = new /\ text = Theirs)
    BY <1>1, <1>2, <1>3 DEF Foreign
  <2>2. Foreign \subseteq 1..Len(file') /\ new \in 1..Len(file')
    BY <1>2 DEF Foreign
  <2> QED BY <2>1, <2>2 DEF Foreign
<1>8. NamesApart'
  BY <1>2, <1>5, <1>6 DEF SaveInv, NamesApart, NoFile
<1>9. OthersApart'
  <2>1. \A id \in Foreign : id \in 1..Len(file) /\ id # new
    BY <1>2 DEF Foreign
  <2>2. OthersUntouched'
    <3> SUFFICES ASSUME NEW id \in Foreign'
                 PROVE  /\ file'[id].text = Theirs
                        /\ \E t \in Temps : dir'[t] = id
      BY DEF OthersUntouched
    <3>1. CASE id \in Foreign
      <4>1. PICK t \in Temps : dir[t] = id
        BY <3>1 DEF SaveInv, OthersApart, OthersUntouched
      <4>2. t # temp /\ t \in Names
        BY <1>2, <2>1, <3>1, <4>1, NamesDiffer DEF NoFile
      <4> QED
        BY <1>2, <1>6, <2>1, <3>1, <4>1, <4>2
          DEF SaveInv, OthersApart, OthersUntouched
    <3>2. CASE id = new /\ text = Theirs
      BY <1>1, <1>2, <1>6, <3>2
    <3> QED BY <1>7, <3>1, <3>2
  <2>3. dir'[Target] = dir[Target] /\ dir'[Target] \in 0..Len(file)
    BY <1>5, <1>6, NamesDiffer
  <2>4. dir'[PlainTemp] \notin Foreign'
    <3>1. CASE temp = PlainTemp
      BY <1>6, <1>7, <2>1, <3>1, NamesDiffer
    <3>2. CASE temp # PlainTemp
      <4>1. dir'[PlainTemp] = dir[PlainTemp] /\ dir[PlainTemp] \in 0..Len(file)
        BY <1>5, <1>6, <3>2, NamesDiffer
      <4> QED BY <1>2, <1>7, <4>1 DEF SaveInv, OthersApart
    <3> QED BY <3>1, <3>2
  <2>5. dir'[Target] \notin Foreign' /\ entry \cap Foreign' = {}
    BY <1>2, <1>5, <1>7, <2>3 DEF SaveInv, OthersApart
  <2> QED BY <2>2, <2>4, <2>5 DEF OthersApart
<1>10. UnderItsMode'
  <2>1. file'[1] = file[1]
    BY <1>2
  <2> QED BY <1>1, <1>2, <1>3, <2>1 DEF SaveInv, UnderItsMode
<1> QED
  BY <1>2, <1>4, <1>5, <1>6, <1>7, <1>8, <1>9, <1>10

\* The name is taken, and the editor goes on to the next one.
LEMMA RetriesSaveInv ==
    ASSUME SaveInv, NEW e \in Editors, at[e] = "create",
           save[e].attempt + 1 < TempAttempts,
           save' = [save EXCEPT ![e].attempt = @ + 1],
           UNCHANGED <<at, dir, file, entry, given, saves, renamed, promised, calm>>
    PROVE  SaveInv'
<1> USE DEF given
<1>0. Typed
  BY DEF SaveInv
<1>1. /\ \A o \in Editors : o # e => save'[o] = save[o]
      /\ save'[e].text = save[e].text /\ save'[e].id = save[e].id
  BY <1>0 DEF Typed
<1>2. Foreign' = Foreign
  BY DEF Foreign
<1>3. Typed'
  <2>1. save' \in [Editors -> [text : Texts, temp : Names, id : 0..Len(file),
                               attempt : 0..TempAttempts - 1]]
    <3>1. /\ save[e] \in SaveRecords(Len(file)) /\ Len(file) \in Nat
          /\ TempAttempts \in Nat
      BY <1>0, FilesType, SaveFileAssumption DEF Typed, SaveRecords
    <3>2. save[e].attempt + 1 \in 0..TempAttempts - 1
      BY <3>1 DEF SaveRecords
    <3>3. [save[e] EXCEPT !.attempt = @ + 1] \in SaveRecords(Len(file))
      BY <3>1, <3>2 DEF SaveRecords
    <3> QED BY <1>0, <3>1, <3>3 DEF Typed, SaveRecords
  <2>2. \A o \in Editors : at'[o] \in Holding => save'[o].id # NoFile
    BY <1>0, <1>1, FilesType DEF SaveInv, HoldsItsOwn, NoFile
  <2> QED
    BY <1>0, <2>1, <2>2, TypedFrom, FilesType
      DEF Typed, TypeOK, SaveInv, NamesApart, Files
<1>4. OnItsWay'
  BY <1>1 DEF SaveInv, OnItsWay
<1>5. NamesApart' /\ OthersApart' /\ UnderItsMode' /\ PromisedCarefully'
  BY <1>2 DEF SaveInv, NamesApart, OthersApart, OthersUntouched, UnderItsMode,
              PromisedCarefully
<1>6. HoldsItsOwn'
  BY <1>1, <1>2 DEF SaveInv, HoldsItsOwn, Holding
<1>7. StepsDone' /\ EntryWhole'
  <2>1. StepsDone'
    BY <1>1 DEF SaveInv, StepsDone, Holding
  <2>2. EntryWhole'
    BY DEF SaveInv, EntryWhole
  <2> QED BY <2>1, <2>2
<1>8. AloneWhole'
  BY <1>1 DEF SaveInv, AloneWhole, Whole, Holding
<1> QED
  BY <1>3, <1>4, <1>5, <1>6, <1>7, <1>8 DEF SaveInv

\* A temporary file is made, of the editor's own name, empty.
LEMMA CreatesSaveInv ==
    ASSUME SaveInv, NEW e \in Editors, at[e] = "create",
           dir[<<e, save[e].attempt>>] = NoFile,
           file' = Append(file, File(Empty, CreateMode)),
           dir' = [dir EXCEPT ![<<e, save[e].attempt>>] = Len(file) + 1],
           Takes(e, <<e, save[e].attempt>>, Len(file) + 1),
           Goes(e, "mode"),
           UNCHANGED <<entry, given, saves, renamed, promised, calm>>
    PROVE  SaveInv'
<1> USE DEF given
<1> DEFINE temp == <<e, save[e].attempt>>
           new == Len(file) + 1
<1>0. Typed
  BY DEF SaveInv
<1>1. temp \in Temps /\ temp \in Names \ {Target}
  <2>1. save[e].attempt \in 0..TempAttempts - 1
    BY <1>0 DEF Typed
  <2> QED BY <2>1, NamesDiffer
<1>2. CreateMode \in Modes
  BY DEF CreateMode, Modes
<1> HIDE DEF temp
<1>3. /\ Len(file) \in Nat /\ Len(file) >= 1
      /\ file' \in Seq(Files) /\ Len(file') = new
      /\ \A id \in 1..Len(file) : file'[id] = file[id]
      /\ file'[new] = File(Empty, CreateMode)
      /\ \A id \in 1..Len(file') : file'[id].text \in file'[id].maybe
      /\ dir' \in [Names -> 0..Len(file')]
      /\ dir'[temp] = new
      /\ \A n \in Names : n # temp => dir'[n] = dir[n]
      /\ entry \subseteq 0..Len(file)
      /\ Foreign' = Foreign
      /\ NamesApart' /\ OthersApart' /\ UnderItsMode'
  <2>1. dir[temp] = NoFile /\ dir' = [dir EXCEPT ![temp] = Len(file) + 1]
    BY DEF temp
  <2> QED BY <1>1, <1>2, <2>1, MadeApart, TextsDiffer
<1>4. /\ at'[e] = "mode"
      /\ \A o \in Editors : o # e => at'[o] = at[o]
      /\ at' \in [Editors -> Steps]
  BY <1>0 DEF Goes, Typed, TypeOK, Steps
<1>5. ~plain
  BY DEF SaveInv, OnItsWay
<1>6. \A o \in Editors : at[o] \in Holding =>
          save[o].id \in 1..Len(file) /\ file'[save[o].id] = file[save[o].id]
  BY <1>3 DEF SaveInv, HoldsItsOwn
<1>7. /\ save' \in [Editors -> SaveRecords(new)]
      /\ save'[e].text = save[e].text /\ save'[e].attempt = save[e].attempt
      /\ save'[e].temp = temp /\ save'[e].id = new
      /\ \A o \in Editors : o # e => save'[o] = save[o]
  <2>1. Takes(e, temp, new)
    BY DEF temp
  <2>2. new \in Nat /\ new >= Len(file) /\ new \in 0..new
    BY <1>3
  <2> HIDE DEF new
  <2> QED BY <1>0, <1>1, <2>1, <2>2, TakenFile
<1>8. Typed'
  <2>1. \A o \in Editors : at'[o] \in Holding => save'[o].id # NoFile
    <3> SUFFICES ASSUME NEW o \in Editors, at'[o] \in Holding
                 PROVE  save'[o].id # NoFile
      OBVIOUS
    <3>1. CASE o = e
      BY <1>3, <1>7, <3>1 DEF NoFile
    <3>2. CASE o # e
      BY <1>4, <1>6, <1>7, <3>2 DEF NoFile
    <3> QED BY <3>1, <3>2
  <2>2. /\ Len(file') >= 1 /\ entry' \subseteq 0..Len(file')
        /\ dir'[Target] \in entry'
    BY <1>3 DEF NamesApart
  <2>3. save' \in [Editors -> [text : Texts, temp : Names, id : 0..Len(file'),
                               attempt : 0..TempAttempts - 1]]
    BY <1>3, <1>7 DEF SaveRecords
  <2> QED
    BY <1>0, <1>3, <1>4, <2>1, <2>2, <2>3, TypedFrom DEF Typed, TypeOK
<1>9. OnItsWay'
  BY <1>4, <1>5, <1>7 DEF SaveInv, OnItsWay, Underway, Steps
<1>10. HoldsItsOwn'
  <2> SUFFICES ASSUME NEW o \in Editors, at'[o] \in Holding
               PROVE  /\ save'[o].id \in 1..Len(file') \ Foreign
                      /\ save'[o].temp = <<o, save'[o].attempt>>
                      /\ dir'[save'[o].temp] = save'[o].id
                      /\ save'[o].id # 1
    BY <1>3, <1>5 DEF HoldsItsOwn
  <2>1. CASE o = e
    <3>1. save'[o].id = new /\ save'[o].temp = temp /\ temp = <<o, save'[o].attempt>>
      BY <1>7, <2>1 DEF temp
    <3>2. new \notin Foreign /\ new \in 1..Len(file') /\ new # 1
      BY <1>3 DEF Foreign
    <3> QED BY <1>3, <3>1, <3>2
  <2>2. CASE o # e
    <3>1. /\ save'[o] = save[o] /\ at[o] \in Holding
          /\ save[o].id \in 1..Len(file) \ Foreign
          /\ save[o].temp = <<o, save[o].attempt>> /\ save[o].temp \in Names
          /\ dir[save[o].temp] = save[o].id /\ save[o].id # 1
      BY <1>0, <1>4, <1>5, <1>7, <2>2 DEF SaveInv, HoldsItsOwn, Typed
    <3>2. save[o].temp # temp
      BY <2>2, <3>1, NamesDiffer DEF temp
    <3>3. save[o].id \in 1..Len(file')
      BY <1>3, <3>1
    <3> QED
      BY <1>3, <3>1, <3>2, <3>3
  <2> QED BY <2>1, <2>2
<1>11. StepsDone'
  <2> SUFFICES ASSUME NEW o \in Editors
               PROVE  /\ at'[o] = "mode" => file'[save'[o].id].text = Empty
                      /\ existed /\ at'[o] \in Holding \ {"mode"} =>
                             file'[save'[o].id].mode = file'[1].mode
                      /\ at'[o] \in {"sync", "rename"} =>
                             file'[save'[o].id].text = save'[o].text
                      /\ at'[o] = "rename" =>
                             file'[save'[o].id].maybe = {save'[o].text}
                      /\ at'[o] = "sync_dir" => renamed # <<>>
    BY DEF StepsDone
  <2>1. CASE o = e
    BY <1>2, <1>3, <1>4, <1>7, <2>1, FileType, TextsDiffer
  <2>2. CASE o # e /\ at[o] \in Holding
    <3>1. /\ save'[o] = save[o] /\ at'[o] = at[o]
          /\ file'[save[o].id] = file[save[o].id] /\ file'[1] = file[1]
      BY <1>3, <1>4, <1>6, <1>7, <2>2
    <3>2. StepsDone
      BY DEF SaveInv
    <3>3. /\ at[o] = "mode" => file[save[o].id].text = Empty
          /\ existed /\ at[o] \in Holding \ {"mode"} =>
                 file[save[o].id].mode = file[1].mode
          /\ at[o] \in {"sync", "rename"} =>
                 file[save[o].id].text = save[o].text
          /\ at[o] = "rename" =>
                 file[save[o].id].maybe = {save[o].text}
          /\ at[o] = "sync_dir" => renamed # <<>>
      BY <1>5, <3>2 DEF StepsDone
    <3> QED BY <3>1, <3>3
  <2>3. CASE o # e /\ at[o] \notin Holding
    BY <1>4, <1>5, <2>3 DEF SaveInv, StepsDone, Holding
  <2> QED BY <2>1, <2>2, <2>3
<1>12. EntryWhole'
  <2>1. \A id \in entry : id # NoFile => file'[id] = file[id]
    BY <1>3 DEF NoFile
  <2>2. dir[Target] \in entry /\ dir'[Target] = dir[Target]
    BY <1>1, <1>3, NamesDiffer DEF SaveInv, NamesApart
  <2>3. /\ renamed # <<>> => dir[Target] # NoFile
        /\ renamed # <<>> => file[dir[Target]].maybe = {renamed[Len(renamed)]}
    BY <1>5 DEF SaveInv, EntryWhole
  <2>4. renamed # <<>> => file'[dir'[Target]].maybe = {renamed[Len(renamed)]}
    BY <2>1, <2>2, <2>3
  <2>5. promised > 0 => \A id \in entry :
            /\ id # NoFile
            /\ \E i \in promised..Len(renamed) : file'[id].maybe = {renamed[i]}
    <3> SUFFICES ASSUME promised > 0, NEW id \in entry
                 PROVE  /\ id # NoFile
                        /\ \E i \in promised..Len(renamed) :
                               file'[id].maybe = {renamed[i]}
      OBVIOUS
    <3>1. EntryWhole
      BY DEF SaveInv
    <3>2. /\ id # NoFile
          /\ \E i \in promised..Len(renamed) : file[id].maybe = {renamed[i]}
      BY <1>5, <3>1 DEF EntryWhole
    <3> QED BY <2>1, <3>2
  <2>6. \A id \in entry : id # NoFile =>
            \A text \in file'[id].maybe : text >= Original
    BY <1>5, <2>1 DEF SaveInv, EntryWhole
  <2> QED BY <1>5, <2>2, <2>3, <2>4, <2>5, <2>6 DEF SaveInv, EntryWhole
<1>13. AloneWhole' /\ PromisedCarefully'
  BY <1>5 DEF AloneWhole, PromisedCarefully
<1> QED
  BY <1>3, <1>8, <1>9, <1>10, <1>11, <1>12, <1>13 DEF SaveInv

\* A careful save makes its file, tries the next name, or gives up.
LEMMA CreateTempSaveInv ==
    ASSUME SaveInv, NEW e \in Editors, CreateTemp(e)
    PROVE  SaveInv'
<1>1. CASE Returns(e) /\ UNCHANGED <<dir, file>>
  BY <1>1, StopsSaveInv DEF CreateTemp, Returns
<1>2. CASE /\ save[e].attempt + 1 < TempAttempts
           /\ save' = [save EXCEPT ![e].attempt = @ + 1]
           /\ UNCHANGED <<at, dir, file>>
  BY <1>2, RetriesSaveInv DEF CreateTemp
<1>3. CASE dir[<<e, save[e].attempt>>] = NoFile /\ ~(Returns(e) /\ UNCHANGED <<dir, file>>)
  BY <1>3, CreatesSaveInv DEF CreateTemp
<1> QED
  BY <1>1, <1>2, <1>3 DEF CreateTemp, AlreadyExists, NextName

\* What an editor holds, and that nobody else does, when saving with care.
LEMMA HeldAlone ==
    ASSUME SaveInv, ~plain, NEW e \in Editors, at[e] \in Holding
    PROVE  /\ save[e].temp \in Temps /\ save[e].temp \in Names \ {Target, PlainTemp}
           /\ dir[save[e].temp] = save[e].id
           /\ save[e].id \in 1..Len(file) \ Foreign /\ save[e].id # NoFile
           /\ save[e].id \notin entry
           /\ \A o \in Editors : at[o] \in Holding /\ o # e =>
                  save[o].temp # save[e].temp
<1>0. Typed
  BY DEF SaveInv
<1>1. \A o \in Editors : save[o].attempt \in 0..TempAttempts - 1
  BY <1>0 DEF Typed
<1>2. \A o \in Editors : at[o] \in Holding =>
          /\ save[o].temp = <<o, save[o].attempt>> /\ save[o].temp \in Temps
          /\ dir[save[o].temp] = save[o].id
          /\ save[o].id \in 1..Len(file) \ Foreign
  <2>1. \A o \in Editors : <<o, save[o].attempt>> \in Temps
    BY <1>1, NamesDiffer
  <2> QED BY <2>1 DEF SaveInv, HoldsItsOwn
<1>3. save[e].id # NoFile
  BY <1>2 DEF Foreign, NoFile
<1>4. save[e].id \notin entry
  BY <1>2, <1>3, NamesDiffer DEF SaveInv, NamesApart
<1>5. \A o \in Editors : at[o] \in Holding /\ o # e => save[o].temp # save[e].temp
  BY <1>2, NamesDiffer
<1> QED BY <1>2, <1>3, <1>4, <1>5, NamesDiffer

\* A careful save that fails takes its temporary file away, and nothing else.
LEMMA FailsSaveInv ==
    ASSUME SaveInv, NEW e \in Editors, Fails(e)
    PROVE  SaveInv'
<1> USE DEF given
<1> DEFINE temp == save[e].temp
<1>0. Typed /\ ~plain /\ at[e] \in Holding
  BY DEF SaveInv, Fails, Holding
<1>1. /\ temp \in Temps /\ temp \in Names \ {Target, PlainTemp}
      /\ dir[temp] = save[e].id
      /\ save[e].id \in 1..Len(file) \ Foreign
      /\ \A o \in Editors : at[o] \in Holding /\ o # e => save[o].temp # temp
  BY <1>0, HeldAlone
<1>2. dir' = [dir EXCEPT ![temp] = NoFile] /\ dir \in [Names -> 0..Len(file)]
  BY <1>0 DEF Fails, RemovesTemp, Typed, TypeOK
<1> HIDE DEF temp
<1>3. /\ dir' \in [Names -> 0..Len(file)] /\ dir'[temp] = NoFile
      /\ \A n \in Names : n # temp => dir'[n] = dir[n]
  BY <1>0, <1>1, <1>2, FilesType DEF NoFile
<1>4. /\ at'[e] = "idle" /\ at' \in [Editors -> Steps]
      /\ \A o \in Editors : o # e => at'[o] = at[o] /\ save'[o] = save[o]
  BY <1>0 DEF Fails, Returns, Goes, Typed, TypeOK, Steps
<1>5. Foreign' = Foreign
  BY DEF Foreign, Fails
<1>6. NamesApart'
  BY <1>1, <1>3, NamesDiffer DEF SaveInv, NamesApart, Fails
<1>7. Typed'
  <2>1. save' \in [Editors -> [text : Texts, temp : Names, id : 0..Len(file),
                               attempt : 0..TempAttempts - 1]]
    <3>1. NoSave \in [text : Texts, temp : Names, id : 0..Len(file),
                      attempt : 0..TempAttempts - 1]
      BY <1>0, NamesDiffer, TextsDiffer, SaveFileAssumption, FilesType
        DEF NoSave, NoFile
    <3> QED BY <1>0, <3>1 DEF Typed, Fails, Returns
  <2>2. \A o \in Editors : at'[o] \in Holding => save'[o].id # NoFile
    BY <1>0, <1>4, FilesType DEF SaveInv, HoldsItsOwn, Holding, NoFile
  <2>3. dir'[Target] \in entry'
    BY <1>6 DEF NamesApart
  <2> QED
    BY <1>0, <1>3, <1>4, <2>1, <2>2, <2>3, TypedFrom, FilesType
      DEF Typed, TypeOK, Fails, Files
<1>8. OnItsWay'
  BY <1>4 DEF SaveInv, OnItsWay, Underway, Fails
<1>9. HoldsItsOwn'
  <2>1. ASSUME NEW o \in Editors, at'[o] \in Holding
        PROVE  /\ o # e /\ save'[o] = save[o] /\ at[o] \in Holding
               /\ save[o].temp # temp /\ save[o].temp \in Names
               /\ dir'[save[o].temp] = dir[save[o].temp]
    <3>1. o # e
      BY <1>4, <2>1 DEF Holding
    <3> QED BY <1>0, <1>1, <1>3, <1>4, <2>1, <3>1 DEF Typed
  <2> QED
    BY <1>0, <1>5, <2>1 DEF SaveInv, HoldsItsOwn, Fails
<1>10. OthersApart'
  <2>1. \A id \in Foreign : \E t \in Temps : dir'[t] = id
    BY <1>1, <1>3, NamesDiffer DEF SaveInv, OthersApart, OthersUntouched
  <2>2. /\ dir'[Target] = dir[Target] /\ dir'[PlainTemp] = dir[PlainTemp]
    BY <1>1, <1>3, NamesDiffer
  <2> QED
    BY <1>5, <2>1, <2>2 DEF SaveInv, OthersApart, OthersUntouched, Fails
<1>11. UnderItsMode'
  BY DEF SaveInv, UnderItsMode, Fails
<1>12. StepsDone'
  <2>1. \A o \in Editors : at'[o] \in Holding \cup {"sync_dir"} =>
            o # e /\ save'[o] = save[o] /\ at'[o] = at[o]
    BY <1>4 DEF Holding
  <2> QED
    BY <2>1 DEF SaveInv, StepsDone, Holding, Fails
<1>13. EntryWhole'
  <2>1. dir'[Target] = dir[Target] /\ \E o \in Editors : at[o] # "killed"
    BY <1>0, <1>1, <1>3, NamesDiffer DEF Holding
  <2> QED BY <2>1 DEF SaveInv, EntryWhole, Fails
<1>14. AloneWhole' /\ PromisedCarefully'
  BY <1>0 DEF AloneWhole, PromisedCarefully, Fails
<1> QED
  BY <1>6, <1>7, <1>8, <1>9, <1>10, <1>11, <1>12, <1>13, <1>14 DEF SaveInv

\* The directory is flushed: what the target names it names for good.
LEMMA SyncParentDirSaveInv ==
    ASSUME SaveInv, NEW e \in Editors, SyncParentDir(e)
    PROVE  SaveInv'
<1> USE DEF given
<1>0. Typed /\ at[e] = "sync_dir" /\ ~plain
  BY DEF SaveInv, SyncParentDir, OnItsWay
<1>1. CASE UNCHANGED <<entry, promised>>
  BY <1>0, <1>1, StopsSaveInv DEF SyncParentDir, Returns
<1>2. CASE entry' = Synced /\ promised' = Len(renamed)
  <2>1. /\ at'[e] = "idle" /\ at' \in [Editors -> Steps]
        /\ \A o \in Editors : o # e => at'[o] = at[o] /\ save'[o] = save[o]
    BY <1>0 DEF SyncParentDir, Returns, Goes, Typed, TypeOK, Steps
  <2>2. Foreign' = Foreign
    BY DEF Foreign, SyncParentDir
  <2>3. /\ Len(renamed) \in Nat /\ Len(renamed) > 0
        /\ dir[Target] # NoFile /\ dir[Target] \in entry
        /\ file[dir[Target]].maybe = {renamed[Len(renamed)]}
    <3>1. renamed # <<>>
      BY <1>0 DEF SaveInv, StepsDone
    <3>2. Len(renamed) \in Nat \ {0}
      BY <1>0, <3>1, EmptySeq DEF Typed
    <3> QED
      BY <1>0, <3>1, <3>2 DEF SaveInv, EntryWhole, NamesApart
  <2>4. Typed'
    <3>1. save' \in [Editors -> [text : Texts, temp : Names, id : 0..Len(file),
                                 attempt : 0..TempAttempts - 1]]
      <4>1. NoSave \in [text : Texts, temp : Names, id : 0..Len(file),
                        attempt : 0..TempAttempts - 1]
        BY <1>0, NamesDiffer, TextsDiffer, SaveFileAssumption, FilesType
          DEF NoSave, NoFile
      <4> QED BY <1>0, <4>1 DEF Typed, SyncParentDir, Returns
    <3>2. \A o \in Editors : at'[o] \in Holding => save'[o].id # NoFile
      BY <1>0, <2>1, FilesType DEF SaveInv, HoldsItsOwn, Holding, NoFile
    <3>3. /\ entry' \subseteq 0..Len(file) /\ dir[Target] \in entry'
          /\ promised' \in 0..Len(renamed')
      BY <1>0, <1>2, <2>3, NamesDiffer DEF Typed, TypeOK, Synced, SyncParentDir
    <3> QED
      BY <1>0, <2>1, <3>1, <3>2, <3>3, TypedFrom, FilesType
        DEF Typed, TypeOK, SyncParentDir, Files
  <2>5. OnItsWay'
    BY <2>1 DEF SaveInv, OnItsWay, Underway, SyncParentDir
  <2>6. NamesApart' /\ OthersApart'
    BY <1>2, <2>2, <2>3
      DEF SaveInv, NamesApart, OthersApart, OthersUntouched, Synced, SyncParentDir
  <2>7. HoldsItsOwn'
    BY <2>1, <2>2 DEF SaveInv, HoldsItsOwn, Holding, SyncParentDir
  <2>8. StepsDone' /\ UnderItsMode'
    BY <2>1 DEF SaveInv, StepsDone, UnderItsMode, Holding, SyncParentDir
  <2>9. EntryWhole'
    <3>1. file[dir[Target]].maybe = {renamed[Len(renamed)]}
            /\ \A text \in file[dir[Target]].maybe : text >= Original
      BY <1>0, <2>3 DEF SaveInv, EntryWhole
    <3>2. \E i \in Len(renamed)..Len(renamed) :
              file[dir[Target]].maybe = {renamed[i]}
      BY <2>3
    <3> QED
      BY <1>2, <2>3, <3>1, <3>2 DEF EntryWhole, Synced, SyncParentDir
  <2>10. AloneWhole' /\ PromisedCarefully'
    BY <1>0 DEF AloneWhole, PromisedCarefully, SyncParentDir
  <2> QED
    BY <2>4, <2>5, <2>6, <2>7, <2>8, <2>9, <2>10 DEF SaveInv
<1> QED BY <1>1, <1>2 DEF SyncParentDir

\* The file is renamed over the target, which from then on is it.
LEMMA RenameSaveInv ==
    ASSUME SaveInv, NEW e \in Editors, Rename(e)
    PROVE  SaveInv'
<1> USE DEF given
<1> DEFINE temp == save[e].temp
           own == dir[temp]
<1>0. /\ Typed /\ at[e] = "rename" /\ at[e] \in Holding
      /\ temp \in Names /\ save[e].text \in Texts /\ save[e].text >= Original
  BY DEF SaveInv, Rename, Holding, Typed, OnItsWay, Underway, Steps
<1>1. /\ temp # Target
      /\ plain => temp = PlainTemp
      /\ own \in 1..Len(file) \ Foreign
      /\ ~plain => /\ temp \in Temps /\ own = save[e].id /\ own \notin entry
                   /\ \A o \in Editors : at[o] \in Holding /\ o # e =>
                          save[o].temp # temp
  <2>1. own \in 0..Len(file) /\ own # NoFile
    BY <1>0 DEF Typed, TypeOK, Rename
  <2>2. own \in 1..Len(file)
    BY <1>0, <2>1, FilesType DEF NoFile
  <2>3. CASE plain
    BY <1>0, <2>2, <2>3, NamesDiffer DEF SaveInv, HoldsItsOwn, OthersApart
  <2>4. CASE ~plain
    BY <1>0, <2>2, <2>4, HeldAlone
  <2> QED BY <2>3, <2>4
<1>2. /\ dir' = [dir EXCEPT ![Target] = own, ![temp] = NoFile]
      /\ dir \in [Names -> 0..Len(file)] /\ entry \subseteq 0..Len(file)
      /\ dir[Target] \in entry
      /\ entry' = entry \cup {own} /\ own # NoFile
  BY <1>0 DEF Rename, Typed, TypeOK, SaveInv, NamesApart
<1> HIDE DEF own, temp
<1>3. /\ dir' \in [Names -> 0..Len(file)]
      /\ dir'[temp] = NoFile /\ dir'[Target] = own
      /\ \A n \in Names \ {Target, temp} : dir'[n] = dir[n]
  BY <1>0, <1>1, <1>2, FilesType, NamesDiffer DEF NoFile
<1>4. /\ at' \in [Editors -> Steps]
      /\ plain => at'[e] = "idle"
      /\ ~plain => at'[e] = "sync_dir" /\ save' = save
      /\ \A o \in Editors : o # e => at'[o] = at[o] /\ save'[o] = save[o]
  BY <1>0 DEF Rename, Returns, Goes, Typed, TypeOK, Steps
<1>5. Foreign' = Foreign
  BY DEF Foreign, Rename
<1>6. /\ Len(renamed) \in Nat /\ renamed' \in Seq(Texts)
      /\ Len(renamed') = Len(renamed) + 1 /\ renamed' # <<>>
      /\ renamed'[Len(renamed')] = save[e].text
      /\ \A i \in 1..Len(renamed) : renamed'[i] = renamed[i]
  <2>1. renamed \in Seq(Texts) /\ renamed' = Append(renamed, save[e].text)
    BY <1>0 DEF Rename, Typed
  <2> QED BY <1>0, <2>1, AppendProperties, LenProperties
<1>7. NamesApart'
  <2>1. \A n \in Names : n # temp => dir[n] # own
    BY <1>0, <1>2 DEF SaveInv, NamesApart, own
  <2>2. \A m, n \in Names : dir'[m] = dir'[n] /\ dir'[m] # NoFile => m = n
    BY <1>2, <1>3, <2>1 DEF SaveInv, NamesApart
  <2>3. \A id \in entry', n \in Names : n # Target /\ id # NoFile => dir'[n] # id
    BY <1>2, <1>3, <2>1 DEF SaveInv, NamesApart
  <2> QED BY <1>2, <1>3, <2>2, <2>3 DEF NamesApart
<1>8. Typed'
  <2>1. save' \in [Editors -> [text : Texts, temp : Names, id : 0..Len(file),
                               attempt : 0..TempAttempts - 1]]
    <3>1. NoSave \in [text : Texts, temp : Names, id : 0..Len(file),
                      attempt : 0..TempAttempts - 1]
      BY <1>0, NamesDiffer, TextsDiffer, SaveFileAssumption, FilesType
        DEF NoSave, NoFile
    <3>2. save' = save \/ save' = [save EXCEPT ![e] = NoSave]
      BY DEF Rename, Returns
    <3> QED BY <1>0, <3>1, <3>2 DEF Typed
  <2>2. \A o \in Editors : at'[o] \in Holding => save'[o].id # NoFile
    BY <1>0, <1>4, FilesType DEF SaveInv, HoldsItsOwn, Holding, NoFile
  <2>3. entry' \subseteq 0..Len(file') /\ dir'[Target] \in entry'
    BY <1>1, <1>2, <1>3 DEF Rename
  <2>4. promised' \in 0..Len(renamed')
    BY <1>0, <1>6 DEF Typed, TypeOK, Rename
  <2> QED
    BY <1>0, <1>3, <1>4, <1>6, <2>1, <2>2, <2>3, <2>4, TypedFrom, FilesType
      DEF Typed, TypeOK, Rename, Files
<1>9. OnItsWay'
  BY <1>0, <1>4 DEF SaveInv, OnItsWay, Underway, Rename
<1>10. HoldsItsOwn'
  <2>1. \A o \in Editors : at'[o] \in Holding =>
            /\ o # e /\ save'[o] = save[o] /\ at[o] \in Holding
            /\ save[o].id \in 1..Len(file) \ Foreign
            /\ plain => save[o].temp = PlainTemp
            /\ ~plain => /\ save[o].temp = <<o, save[o].attempt>>
                         /\ dir[save[o].temp] = save[o].id
                         /\ save[o].id # 1
    BY <1>4 DEF SaveInv, HoldsItsOwn, Holding
  <2>2. ASSUME ~plain, NEW o \in Editors, at'[o] \in Holding
        PROVE  dir'[save[o].temp] = dir[save[o].temp]
    <3>1. save[o].temp \in Names \ {Target, PlainTemp}
      BY <2>1, <2>2, HeldAlone
    <3>2. save[o].temp # temp
      BY <1>1, <2>1, <2>2
    <3> QED BY <1>3, <3>1, <3>2
  <2>3. UNCHANGED <<file, plain>>
    BY DEF Rename
  <2> QED BY <1>5, <2>1, <2>2, <2>3 DEF HoldsItsOwn
<1>11. OthersApart'
  <2>1. \A id \in Foreign : \E t \in Temps : dir'[t] = id
    <3> SUFFICES ASSUME NEW id \in Foreign PROVE \E t \in Temps : dir'[t] = id
      OBVIOUS
    <3>1. PICK t \in Temps : dir[t] = id
      BY DEF SaveInv, OthersApart, OthersUntouched
    <3>2. t # temp /\ t # Target /\ t \in Names
      BY <1>1, <3>1, NamesDiffer DEF own
    <3> QED BY <1>3, <3>1, <3>2
  <2>2. dir'[PlainTemp] \in {NoFile, dir[PlainTemp]}
    BY <1>3, NamesDiffer
  <2>3. NoFile \notin Foreign
    BY DEF NoFile, Foreign
  <2>4. OthersApart /\ file' = file
    BY DEF SaveInv, Rename
  <2>5. OthersUntouched'
    BY <1>5, <2>1, <2>4 DEF OthersApart, OthersUntouched
  <2>6. dir'[Target] \notin Foreign' /\ dir'[PlainTemp] \notin Foreign'
    BY <1>1, <1>3, <1>5, <2>2, <2>3, <2>4 DEF OthersApart
  <2>7. entry' \cap Foreign' = {}
    BY <1>1, <1>2, <1>5, <2>4 DEF OthersApart
  <2> QED BY <2>5, <2>6, <2>7 DEF OthersApart
<1>12. UnderItsMode'
  BY DEF SaveInv, UnderItsMode, Rename
<1>13. StepsDone'
  <2> SUFFICES ASSUME ~plain PROVE StepsDone'
    BY DEF StepsDone, Rename
  <2>1. save' = save /\ \A o \in Editors : at'[o] = at[o] \/ at'[o] = "sync_dir"
    BY <1>4
  <2>2. UNCHANGED <<file, existed>>
    BY DEF Rename
  <2>3. StepsDone
    BY DEF SaveInv
  <2>4. \A o \in Editors : at'[o] \in Holding => at'[o] = at[o]
    BY <2>1 DEF Holding
  <2> QED
    BY <1>6, <2>1, <2>2, <2>3, <2>4 DEF StepsDone, Holding
<1>14. EntryWhole'
  <2> SUFFICES ASSUME ~plain PROVE EntryWhole'
    BY DEF EntryWhole, Rename
  <2>1. file[own].maybe = {save[e].text}
    BY <1>0, <1>1 DEF SaveInv, StepsDone
  <2>2. EntryWhole
    BY DEF SaveInv
  <2>3. existed => NoFile \notin entry'
    BY <1>2, <2>2 DEF EntryWhole
  <2>4. \A id \in entry' : id # NoFile =>
            \A text \in file[id].maybe : text >= Original
    BY <1>0, <1>2, <2>1, <2>2 DEF EntryWhole
  <2>5. ASSUME promised > 0, NEW id \in entry'
        PROVE  /\ id # NoFile
               /\ \E i \in promised..Len(renamed') : file[id].maybe = {renamed'[i]}
    <3>1. promised \in 0..Len(renamed)
      BY <1>0 DEF Typed, TypeOK
    <3>2. CASE id = own
      <4>1. Len(renamed') \in promised..Len(renamed')
        BY <1>6, <3>1
      <4> QED BY <1>2, <1>6, <2>1, <3>2, <4>1
    <3>3. CASE id \in entry
      <4>1. PICK i \in promised..Len(renamed) : file[id].maybe = {renamed[i]}
        BY <2>2, <2>5, <3>3 DEF EntryWhole
      <4>2. i \in 1..Len(renamed) /\ i \in promised..Len(renamed')
        BY <1>6, <2>5, <3>1
      <4>3. id # NoFile
        BY <2>2, <2>5, <3>3 DEF EntryWhole
      <4> QED BY <1>6, <4>1, <4>2, <4>3
    <3> QED BY <1>2, <3>2, <3>3
  <2>6. dir'[Target] = own /\ file[own].maybe = {renamed'[Len(renamed')]}
    BY <1>3, <1>6, <2>1
  <2>7. UNCHANGED <<file, existed, promised>>
    BY DEF Rename
  <2> QED BY <1>2, <2>3, <2>4, <2>5, <2>6, <2>7 DEF EntryWhole
<1>15. AloneWhole'
  <2> SUFFICES ASSUME plain, calm PROVE AloneWhole'
    BY DEF AloneWhole, Rename
  <2>1. /\ \A o, p \in Editors :
               at[o] \in Underway /\ at[p] \in Underway => o = p
        /\ own = save[e].id /\ file[own].text = save[e].text
    BY <1>0, <1>1 DEF SaveInv, AloneWhole, own
  <2>2. at[e] \in Underway /\ at'[e] \notin Underway
    BY <1>0, <1>4 DEF Underway, Steps
  <2>3. \A o \in Editors : at'[o] \notin Underway
    BY <1>4, <2>1, <2>2
  <2>4. Holding \subseteq Underway
    BY DEF Holding, Underway, Steps
  <2>5. Whole'
    BY <1>0, <1>2, <1>3, <2>1 DEF Whole, Rename
  <2> QED BY <2>3, <2>4, <2>5 DEF AloneWhole
<1>16. PromisedCarefully'
  BY DEF SaveInv, PromisedCarefully, Rename
<1> QED
  BY <1>7, <1>8, <1>9, <1>10, <1>11, <1>12, <1>13, <1>14, <1>15, <1>16
    DEF SaveInv

-----------------------------------------------------------------------------
(***************************************************************************)
(* A plain save, and what else happens to a disk.                          *)
(***************************************************************************)

\* The one temporary name is free, and a file is made at it.
LEMMA MakesPlainSaveInv ==
    ASSUME SaveInv, NEW e \in Editors, at[e] = "open", dir[PlainTemp] = NoFile,
           file' = Append(file, File(Empty, "open")),
           dir' = [dir EXCEPT ![PlainTemp] = Len(file) + 1],
           Takes(e, PlainTemp, Len(file) + 1), Goes(e, "write"),
           UNCHANGED <<entry, given, saves, renamed, promised, calm>>
    PROVE  SaveInv'
<1> USE DEF given
<1> DEFINE new == Len(file) + 1
<1>0. Typed /\ plain
  BY DEF SaveInv, OnItsWay
<1>1. PlainTemp \in Names \ {Target} /\ "open" \in Modes
  BY NamesDiffer DEF Modes
<1>2. /\ Len(file) \in Nat /\ Len(file) >= 1
      /\ file' \in Seq(Files) /\ Len(file') = new
      /\ \A id \in 1..Len(file) : file'[id] = file[id]
      /\ file'[new] = File(Empty, "open")
      /\ \A id \in 1..Len(file') : file'[id].text \in file'[id].maybe
      /\ dir' \in [Names -> 0..Len(file')]
      /\ dir'[PlainTemp] = new
      /\ \A n \in Names : n # PlainTemp => dir'[n] = dir[n]
      /\ entry \subseteq 0..Len(file)
      /\ Foreign' = Foreign
      /\ NamesApart' /\ OthersApart' /\ UnderItsMode'
  BY <1>1, MadeApart, TextsDiffer
<1>3. /\ at'[e] = "write" /\ at' \in [Editors -> Steps]
      /\ \A o \in Editors : o # e => at'[o] = at[o]
  BY <1>0 DEF Goes, Typed, TypeOK, Steps
<1>4. /\ save' \in [Editors -> SaveRecords(new)]
      /\ save'[e].text = save[e].text
      /\ save'[e].temp = PlainTemp /\ save'[e].id = new
      /\ \A o \in Editors : o # e => save'[o] = save[o]
  <2>1. new \in Nat /\ new >= Len(file) /\ new \in 0..new
    BY <1>2
  <2>2. Takes(e, PlainTemp, new)
    OBVIOUS
  <2> HIDE DEF new
  <2> QED BY <1>0, <1>1, <2>1, <2>2, TakenFile
<1>5. HoldsItsOwn'
  <2> SUFFICES ASSUME NEW o \in Editors, at'[o] \in Holding
               PROVE  /\ save'[o].id \in 1..Len(file') \ Foreign
                      /\ save'[o].temp = PlainTemp
    BY <1>0, <1>2 DEF HoldsItsOwn
  <2>1. CASE o = e
    BY <1>2, <1>4, <2>1 DEF Foreign
  <2>2. CASE o # e
    <3>1. save[o].id \in 1..Len(file) \ Foreign /\ save[o].temp = PlainTemp
      BY <1>0, <1>3, <2>2 DEF SaveInv, HoldsItsOwn
    <3> QED BY <1>2, <1>4, <2>2, <3>1
  <2> QED BY <2>1, <2>2
<1>6. Typed'
  <2>1. \A o \in Editors : at'[o] \in Holding => save'[o].id # NoFile
    BY <1>2, <1>5 DEF HoldsItsOwn, Foreign, NoFile
  <2>2. /\ Len(file') >= 1 /\ entry' \subseteq 0..Len(file')
        /\ dir'[Target] \in entry'
    BY <1>2 DEF NamesApart
  <2>3. save' \in [Editors -> [text : Texts, temp : Names, id : 0..Len(file'),
                               attempt : 0..TempAttempts - 1]]
    BY <1>2, <1>4 DEF SaveRecords
  <2> QED
    BY <1>0, <1>2, <1>3, <2>1, <2>2, <2>3, TypedFrom DEF Typed, TypeOK
<1>7. OnItsWay'
  BY <1>0, <1>3, <1>4 DEF SaveInv, OnItsWay, Underway, Steps
<1>8. StepsDone' /\ EntryWhole' /\ PromisedCarefully'
  BY <1>0 DEF SaveInv, StepsDone, EntryWhole, PromisedCarefully
<1>9. AloneWhole'
  <2> SUFFICES ASSUME calm PROVE AloneWhole'
    BY DEF AloneWhole
  <2>1. /\ Whole
        /\ \A o, p \in Editors :
               at[o] \in Underway /\ at[p] \in Underway => o = p
    BY <1>0 DEF SaveInv, AloneWhole
  <2>2. at[e] \in Underway /\ Holding \subseteq Underway
    BY DEF Holding, Underway, Steps
  <2>3. \A o \in Editors : at'[o] \in Underway => o = e
    BY <1>3, <2>1, <2>2
  <2>4. /\ dir'[Target] = dir[Target] /\ dir[Target] \in 0..Len(file)
        /\ dir[Target] # NoFile => file'[dir[Target]] = file[dir[Target]]
    BY <1>0, <1>2, NamesDiffer DEF Typed, TypeOK, NoFile
  <2>5. Whole'
    BY <2>1, <2>4 DEF Whole
  <2> QED BY <1>2, <1>3, <1>4, <2>2, <2>3, <2>5 DEF AloneWhole
<1> QED
  BY <1>2, <1>5, <1>6, <1>7, <1>8, <1>9 DEF SaveInv

\* The one temporary name names a file, another editor's or left behind, which
\* is truncated.
LEMMA TruncatesSaveInv ==
    ASSUME SaveInv, NEW e \in Editors, at[e] = "open", dir[PlainTemp] # NoFile,
           NEW f \in Files, f.text = Empty,
           f.maybe = file[dir[PlainTemp]].maybe \cup {Empty},
           Rewritten(dir[PlainTemp], f),
           Takes(e, PlainTemp, dir[PlainTemp]), Goes(e, "write"),
           UNCHANGED <<dir, entry, given, saves, renamed, promised, calm>>
    PROVE  SaveInv'
<1> USE DEF given
<1> DEFINE id == dir[PlainTemp]
<1>0. Typed /\ plain
  BY DEF SaveInv, OnItsWay
<1>1. /\ id \in 1..Len(file) \ Foreign /\ Len(file) \in Nat
      /\ Theirs \notin f.maybe /\ id # dir[Target]
  <2>1. Len(file) \in Nat /\ id \in 0..Len(file) /\ id # 0
    BY <1>0, FilesType, NamesDiffer DEF Typed, TypeOK, NoFile
  <2>2. id \notin Foreign /\ id # dir[Target]
    BY NamesDiffer DEF SaveInv, OthersApart, NamesApart
  <2> QED BY <2>1, <2>2, TextsDiffer DEF Foreign
<1> HIDE DEF id
<1>2. /\ file' \in Seq(Files) /\ Len(file') = Len(file) /\ file'[id] = f
      /\ \A other \in 1..Len(file) : other # id => file'[other] = file[other]
  BY <1>0, <1>1, RewrittenFile DEF id
<1>3. /\ at'[e] = "write" /\ at' \in [Editors -> Steps]
      /\ \A o \in Editors : o # e => at'[o] = at[o]
  BY <1>0 DEF Goes, Typed, TypeOK, Steps
<1>4. /\ save' \in [Editors -> SaveRecords(Len(file))]
      /\ save'[e].text = save[e].text
      /\ save'[e].temp = PlainTemp /\ save'[e].id = id
      /\ \A o \in Editors : o # e => save'[o] = save[o]
  <2>1. id \in 0..Len(file) /\ Len(file) >= Len(file)
    BY <1>1
  <2>2. Takes(e, PlainTemp, id)
    BY DEF id
  <2> QED BY <1>0, <1>1, <2>1, <2>2, NamesDiffer, TakenFile
<1>5. Foreign' = Foreign
  BY <1>1, <1>2 DEF Foreign
<1>6. HoldsItsOwn'
  <2> SUFFICES ASSUME NEW o \in Editors, at'[o] \in Holding
               PROVE  /\ save'[o].id \in 1..Len(file) \ Foreign
                      /\ save'[o].temp = PlainTemp
    BY <1>0, <1>2, <1>5 DEF HoldsItsOwn
  <2>1. CASE o = e
    BY <1>1, <1>4, <2>1
  <2>2. CASE o # e
    BY <1>0, <1>3, <1>4, <2>2 DEF SaveInv, HoldsItsOwn
  <2> QED BY <2>1, <2>2
<1>7. Typed'
  <2>1. \A o \in Editors : at'[o] \in Holding => save'[o].id # NoFile
    BY <1>6 DEF HoldsItsOwn, Foreign, NoFile
  <2>2. \A other \in 1..Len(file') : file'[other].text \in file'[other].maybe
    BY <1>0, <1>2, FilesType
  <2>3. save' \in [Editors -> [text : Texts, temp : Names, id : 0..Len(file'),
                               attempt : 0..TempAttempts - 1]]
    BY <1>2, <1>4 DEF SaveRecords
  <2>4. dir'[Target] \in entry'
    BY DEF SaveInv, NamesApart
  <2> QED
    BY <1>0, <1>2, <1>3, <2>1, <2>2, <2>3, <2>4, TypedFrom DEF Typed, TypeOK
<1>8. OnItsWay'
  BY <1>0, <1>3, <1>4 DEF SaveInv, OnItsWay, Underway, Steps
<1>9. StepsDone' /\ EntryWhole' /\ UnderItsMode' /\ PromisedCarefully'
  BY <1>0 DEF SaveInv, StepsDone, EntryWhole, UnderItsMode, PromisedCarefully
<1>10. NamesApart'
  BY DEF SaveInv, NamesApart
<1>11. OthersApart'
  <2>1. \A other \in Foreign : other \in 1..Len(file) /\ other # id
    BY <1>1 DEF Foreign
  <2> QED
    BY <1>2, <1>5, <2>1 DEF SaveInv, OthersApart, OthersUntouched
<1>12. AloneWhole'
  <2> SUFFICES ASSUME calm PROVE AloneWhole'
    BY DEF AloneWhole
  <2>1. /\ Whole
        /\ \A o, p \in Editors :
               at[o] \in Underway /\ at[p] \in Underway => o = p
    BY <1>0 DEF SaveInv, AloneWhole
  <2>2. at[e] \in Underway /\ Holding \subseteq Underway
    BY DEF Holding, Underway, Steps
  <2>3. \A o \in Editors : at'[o] \in Underway => o = e
    BY <1>3, <2>1, <2>2
  <2>4. dir[Target] # NoFile => file'[dir[Target]] = file[dir[Target]]
    BY <1>0, <1>1, <1>2, NamesDiffer DEF Typed, TypeOK, NoFile
  <2>5. Whole'
    BY <2>1, <2>4 DEF Whole
  <2> QED BY <1>3, <1>4, <2>2, <2>3, <2>5 DEF AloneWhole, id
<1> QED
  BY <1>6, <1>7, <1>8, <1>9, <1>10, <1>11, <1>12 DEF SaveInv

\* A plain save opens the file at the one temporary name.
LEMMA OpenPlainSaveInv ==
    ASSUME SaveInv, NEW e \in Editors, OpenPlain(e)
    PROVE  SaveInv'
<1>1. Typed /\ at[e] = "open" /\ Goes(e, "write")
  BY DEF SaveInv, OpenPlain
<1>2. CASE dir[PlainTemp] = NoFile
  BY <1>1, <1>2, MakesPlainSaveInv DEF OpenPlain, TempBeside
<1>3. CASE dir[PlainTemp] # NoFile
  <2> DEFINE old == file[dir[PlainTemp]]
             f == [old EXCEPT !.text = Empty, !.maybe = @ \cup {Empty}]
  <2>1. dir[PlainTemp] \in 1..Len(file)
    BY <1>1, <1>3, FilesType, NamesDiffer DEF Typed, TypeOK, NoFile
  <2>2. old \in Files
    BY <1>1, <2>1, FilesType
  <2>3. f \in Files /\ f.text = Empty /\ f.maybe = old.maybe \cup {Empty}
    BY <2>2, TextsDiffer DEF Files
  <2>4. Rewritten(dir[PlainTemp], f)
    BY <1>3 DEF OpenPlain, TempBeside
  <2> HIDE DEF f
  <2> QED
    BY <1>1, <1>3, <2>3, <2>4, TruncatesSaveInv DEF OpenPlain, TempBeside
<1> QED BY <1>2, <1>3

\* Another program puts a file at a temporary name nobody has taken.
LEMMA SquatsSaveInv == ASSUME SaveInv, Squats PROVE SaveInv'
<1> USE DEF given
<1>0. Typed
  BY DEF SaveInv
<1>1. PICK temp \in Temps :
          /\ dir[temp] = NoFile
          /\ file' = Append(file, File(Theirs, "open"))
          /\ dir' = [dir EXCEPT ![temp] = Len(file) + 1]
  BY DEF Squats
<1>2. temp \in Names \ {Target, PlainTemp} /\ "open" \in Modes
  BY NamesDiffer DEF Modes
<1>3. /\ Len(file) \in Nat /\ Len(file) >= 1
      /\ file' \in Seq(Files) /\ Len(file') = Len(file) + 1
      /\ \A id \in 1..Len(file) : file'[id] = file[id]
      /\ \A id \in 1..Len(file') : file'[id].text \in file'[id].maybe
      /\ dir' \in [Names -> 0..Len(file')]
      /\ \A n \in Names : n # temp => dir'[n] = dir[n]
      /\ entry \subseteq 0..Len(file)
      /\ Foreign' = Foreign \cup {Len(file) + 1}
      /\ NamesApart' /\ OthersApart' /\ UnderItsMode'
  <2>1. UNCHANGED <<entry, given>>
    BY DEF Squats
  <2> QED BY <1>1, <1>2, <2>1, MadeApart
<1>4. \A e \in Editors : at[e] \in Holding =>
          /\ save[e].id \in 1..Len(file) /\ file'[save[e].id] = file[save[e].id]
          /\ save[e].id \in 1..Len(file') \ Foreign'
  BY <1>3 DEF SaveInv, HoldsItsOwn
<1>5. HoldsItsOwn'
  <2> SUFFICES ASSUME NEW e \in Editors, at[e] \in Holding
               PROVE  /\ plain => save[e].temp = PlainTemp
                      /\ ~plain => /\ save[e].temp = <<e, save[e].attempt>>
                                   /\ dir'[save[e].temp] = save[e].id
                                   /\ save[e].id # 1
    BY <1>4 DEF HoldsItsOwn, Squats
  <2>1. ~plain => dir'[save[e].temp] = dir[save[e].temp]
    <3>1. save[e].temp \in Names
      BY <1>0 DEF Typed
    <3>2. save[e].id # NoFile
      BY DEF SaveInv, HoldsItsOwn, Foreign, NoFile
    <3>3. ~plain => save[e].temp # temp
      BY <1>1, <3>2 DEF SaveInv, HoldsItsOwn
    <3> QED BY <1>3, <3>1, <3>3
  <2> QED BY <2>1 DEF SaveInv, HoldsItsOwn
<1>6. Typed'
  <2>1. \A e \in Editors : at'[e] \in Holding => save'[e].id # NoFile
    BY <1>4 DEF Squats, NoFile
  <2>2. /\ Len(file') >= 1 /\ entry' \subseteq 0..Len(file')
        /\ dir'[Target] \in entry'
    BY <1>3 DEF NamesApart, Squats
  <2>3. save' \in [Editors -> [text : Texts, temp : Names, id : 0..Len(file'),
                               attempt : 0..TempAttempts - 1]]
    <3>1. 0..Len(file) \subseteq 0..Len(file')
      BY <1>3
    <3>2. save' = save
      BY DEF Squats
    <3> QED BY <1>0, <3>1, <3>2 DEF Typed
  <2> QED
    BY <1>0, <1>3, <2>1, <2>2, <2>3, TypedFrom DEF Typed, TypeOK, Squats
<1>7. OnItsWay' /\ PromisedCarefully'
  BY DEF SaveInv, OnItsWay, PromisedCarefully, Squats
<1>8. StepsDone'
  <2>1. StepsDone /\ UNCHANGED <<at, save, existed, plain, renamed>>
    BY DEF SaveInv, Squats
  <2>2. file'[1] = file[1]
    BY <1>3
  <2> QED BY <1>4, <2>1, <2>2 DEF StepsDone, Holding
<1>9. dir'[Target] = dir[Target] /\ dir[Target] \in 0..Len(file)
  BY <1>0, <1>2, <1>3, NamesDiffer DEF Typed, TypeOK
<1>10. EntryWhole'
  <2>1. /\ EntryWhole /\ dir[Target] \in entry
        /\ UNCHANGED <<plain, entry, existed, promised, renamed, at>>
    BY DEF SaveInv, NamesApart, Squats
  <2>2. \A id \in entry : id # NoFile => file'[id] = file[id]
    BY <1>3 DEF NoFile
  <2>3. promised > 0 /\ ~plain => \A id \in entry :
            /\ id # NoFile
            /\ \E i \in promised..Len(renamed) : file'[id].maybe = {renamed[i]}
    BY <2>1, <2>2 DEF EntryWhole
  <2>4. ~plain => \A id \in entry : id # NoFile =>
               \A text \in file'[id].maybe : text >= Original
    BY <2>1, <2>2 DEF EntryWhole
  <2> QED BY <1>9, <2>1, <2>2, <2>3, <2>4 DEF EntryWhole
<1>11. AloneWhole'
  <2>1. /\ AloneWhole /\ UNCHANGED <<plain, calm, existed, at, save>>
    BY DEF SaveInv, Squats
  <2>2. dir[Target] # NoFile => file'[dir[Target]] = file[dir[Target]]
    BY <1>3, <1>9 DEF NoFile
  <2>3. Whole => Whole'
    BY <1>9, <2>1, <2>2 DEF Whole
  <2>4. dir'[PlainTemp] = dir[PlainTemp]
    BY <1>2, <1>3, NamesDiffer
  <2> QED BY <1>4, <2>1, <2>3, <2>4 DEF AloneWhole
<1> QED
  BY <1>3, <1>5, <1>6, <1>7, <1>8, <1>10, <1>11 DEF SaveInv

\* The machine stops: every editor with it, and of the target what may be left.
LEMMA LosesPowerSaveInv == ASSUME SaveInv, LosesPower PROVE SaveInv'
<1> USE DEF given
<1>0. Typed
  BY DEF SaveInv
<1>1. PICK id \in entry :
          /\ dir' = [dir EXCEPT ![Target] = id]
          /\ entry' = {id}
          /\ IF id = NoFile THEN UNCHANGED file
             ELSE \E text \in file[id].maybe :
                      Rewritten(id, [file[id] EXCEPT !.text = text,
                                                     !.maybe = {text}])
  BY DEF LosesPower
<1>2. /\ id \in 0..Len(file) /\ Len(file) \in Nat /\ Len(file) >= 1
      /\ file \in Seq(Files) /\ id \notin Foreign
      /\ dir \in [Names -> 0..Len(file)]
  BY <1>0, FilesType DEF Typed, TypeOK, SaveInv, OthersApart
<1>3. /\ dir' \in [Names -> 0..Len(file)] /\ dir'[Target] = id
      /\ \A n \in Names : n # Target => dir'[n] = dir[n]
  BY <1>1, <1>2, NamesDiffer
<1>4. /\ file' \in Seq(Files) /\ Len(file') = Len(file)
      /\ \A other \in 1..Len(file) : other # id => file'[other] = file[other]
      /\ id # NoFile => /\ id \in 1..Len(file)
                        /\ file'[id].mode = file[id].mode
                        /\ file'[id].text \in file[id].maybe
                        /\ file'[id].maybe = {file'[id].text}
  <2>1. CASE id = NoFile
    BY <1>1, <1>2, <2>1
  <2>2. CASE id # NoFile
    <3>1. id \in 1..Len(file)
      BY <1>2, <2>2 DEF NoFile
    <3>2. PICK text \in file[id].maybe :
              Rewritten(id, [file[id] EXCEPT !.text = text, !.maybe = {text}])
      BY <1>1, <2>2
    <3> DEFINE f == [file[id] EXCEPT !.text = text, !.maybe = {text}]
    <3>3. /\ f \in Files /\ f.mode = file[id].mode /\ f.text = text
          /\ f.maybe = {text} /\ Rewritten(id, f)
      <4>1. file[id] \in Files /\ text \in Texts
        BY <1>0, <3>1, FilesType
      <4> QED BY <3>2, <4>1 DEF Files
    <3> HIDE DEF f
    <3> QED BY <1>0, <3>1, <3>2, <3>3, RewrittenFile
  <2> QED BY <2>1, <2>2
<1>5. Foreign' = Foreign
  <2>1. \A other \in 1..Len(file) :
            Theirs \in file'[other].maybe <=> Theirs \in file[other].maybe
    BY <1>2, <1>4 DEF Foreign, NoFile
  <2> QED BY <1>4, <2>1 DEF Foreign
<1>6. /\ \A e \in Editors : at'[e] = "killed"
      /\ at' \in [Editors -> Steps]
      /\ UNCHANGED <<existed, plain, save, saves, renamed, promised>>
      /\ calm' = FALSE /\ entry' = {id}
  BY <1>1 DEF LosesPower, Steps
<1>7. Typed'
  <2>1. \A e \in Editors : at'[e] \in Holding => save'[e].id # NoFile
    BY <1>6 DEF Holding
  <2>2. \A other \in 1..Len(file') : file'[other].text \in file'[other].maybe
    BY <1>0, <1>4, FilesType DEF NoFile
  <2>3. entry' \subseteq 0..Len(file') /\ dir'[Target] \in entry'
    BY <1>2, <1>3, <1>4, <1>6
  <2> QED
    BY <1>0, <1>2, <1>3, <1>4, <1>6, <2>1, <2>2, <2>3, TypedFrom
      DEF Typed, TypeOK
<1>8. OnItsWay' /\ HoldsItsOwn' /\ StepsDone' /\ AloneWhole' /\ PromisedCarefully'
  BY <1>6 DEF SaveInv, OnItsWay, HoldsItsOwn, StepsDone, AloneWhole,
              PromisedCarefully, Holding, Underway
<1>9. NamesApart'
  <2>1. \A n \in Names : n # Target /\ id # NoFile => dir[n] # id
    BY DEF SaveInv, NamesApart
  <2> QED BY <1>3, <1>6, <2>1 DEF SaveInv, NamesApart
<1>10. OthersApart'
  <2>1. OthersApart
    BY DEF SaveInv
  <2>2. OthersUntouched'
    <3> SUFFICES ASSUME NEW other \in Foreign
                 PROVE  /\ file'[other].text = Theirs
                        /\ \E t \in Temps : dir'[t] = other
      BY <1>5 DEF OthersUntouched
    <3>1. other \in 1..Len(file) /\ other # id
      BY <1>2 DEF Foreign
    <3>2. PICK t \in Temps : dir[t] = other
      BY <2>1 DEF OthersApart, OthersUntouched
    <3> QED
      BY <1>3, <1>4, <2>1, <3>1, <3>2, NamesDiffer
        DEF OthersApart, OthersUntouched
  <2>3. dir'[PlainTemp] = dir[PlainTemp]
    BY <1>3, NamesDiffer
  <2> QED BY <1>2, <1>3, <1>5, <1>6, <2>1, <2>2, <2>3 DEF OthersApart
<1>11. ASSUME ~plain, id # NoFile
       PROVE  /\ \A text \in file'[id].maybe : text >= Original
              /\ file[id].text \notin {Empty, Theirs}
  <2>1. \A text \in file[id].maybe : text >= Original
    BY <1>11 DEF SaveInv, EntryWhole
  <2>2. file[id].text \in file[id].maybe /\ file[id].text \in Texts
    BY <1>0, <1>4, <1>11, FilesType
  <2> QED BY <1>4, <1>11, <2>1, <2>2, TextsDiffer
<1>12. UnderItsMode'
  <2> SUFFICES ASSUME existed, ~plain, NEW other \in 1..Len(file),
                      file'[other].text \notin {Empty, Theirs}
               PROVE  file'[other].mode = file'[1].mode
    BY <1>4, <1>6 DEF UnderItsMode
  <2>1. \A any \in 1..Len(file) : file'[any].mode = file[any].mode
    BY <1>4 DEF NoFile
  <2>2. file[other].text \notin {Empty, Theirs}
    BY <1>4, <1>11 DEF NoFile
  <2>3. 1 \in 1..Len(file)
    BY <1>2
  <2> QED BY <2>1, <2>2, <2>3 DEF SaveInv, UnderItsMode
<1>13. EntryWhole'
  <2> SUFFICES ASSUME ~plain PROVE EntryWhole'
    BY <1>6 DEF EntryWhole
  <2>1. existed => id # NoFile
    BY DEF SaveInv, EntryWhole
  <2>2. ASSUME promised > 0
        PROVE  /\ id # NoFile
               /\ \E i \in promised..Len(renamed) : file'[id].maybe = {renamed[i]}
    <3>1. PICK i \in promised..Len(renamed) : file[id].maybe = {renamed[i]}
      BY <2>2 DEF SaveInv, EntryWhole
    <3>2. id # NoFile
      BY <2>2 DEF SaveInv, EntryWhole
    <3> QED BY <1>4, <3>1, <3>2
  <2> QED BY <1>3, <1>6, <1>11, <2>1, <2>2 DEF EntryWhole
<1> QED
  BY <1>7, <1>8, <1>9, <1>10, <1>12, <1>13 DEF SaveInv

-----------------------------------------------------------------------------
\* Every step of every editor, and of what is around them, keeps the invariant.
LEMMA NextSaveInv == SaveInv /\ [Next]_vars => SaveInv'
<1> SUFFICES ASSUME SaveInv, [Next]_vars PROVE SaveInv'
  OBVIOUS
<1>1. ASSUME NEW e \in Editors, Begin(e) PROVE SaveInv'
  BY <1>1, BeginSaveInv
<1>2. ASSUME NEW e \in Editors, CreateTemp(e) PROVE SaveInv'
  BY <1>2, CreateTempSaveInv
<1>3. ASSUME NEW e \in Editors, CopyPermissions(e) PROVE SaveInv'
  BY <1>3, CopyPermissionsSaveInv
<1>4. ASSUME NEW e \in Editors, WriteAll(e) PROVE SaveInv'
  BY <1>4, WriteAllSaveInv
<1>5. ASSUME NEW e \in Editors, SyncAll(e) PROVE SaveInv'
  BY <1>5, SyncAllSaveInv
<1>6. ASSUME NEW e \in Editors, Rename(e) PROVE SaveInv'
  BY <1>6, RenameSaveInv
<1>7. ASSUME NEW e \in Editors, SyncParentDir(e) PROVE SaveInv'
  BY <1>7, SyncParentDirSaveInv
<1>8. ASSUME NEW e \in Editors, Fails(e) PROVE SaveInv'
  BY <1>8, FailsSaveInv
<1>9. ASSUME NEW e \in Editors, OpenPlain(e) PROVE SaveInv'
  BY <1>9, OpenPlainSaveInv
<1>10. ASSUME NEW e \in Editors, FailsPlain(e) \/ Killed(e) PROVE SaveInv'
  <2>1. at[e] # "killed" /\ \E step \in {"idle", "killed"} : Goes(e, step)
    BY <1>10 DEF FailsPlain, Killed, Returns
  <2>2. /\ save' = save \/ save' = [save EXCEPT ![e] = NoSave]
        /\ UNCHANGED <<dir, file, entry, given, saves, renamed, promised, calm>>
    BY <1>10 DEF FailsPlain, Killed, Returns
  <2> QED BY <2>1, <2>2, StopsSaveInv
<1>11. CASE Squats
  BY <1>11, SquatsSaveInv
<1>12. CASE LosesPower
  BY <1>12, LosesPowerSaveInv
<1>13. CASE UNCHANGED vars
  <2>1. Foreign' = Foreign
    BY <1>13 DEF vars, Foreign
  <2>2. Typed' /\ OnItsWay' /\ NamesApart'
    BY <1>13 DEF vars, given, SaveInv, Typed, TypeOK, OnItsWay, NamesApart
  <2>3. HoldsItsOwn' /\ OthersApart'
    BY <1>13, <2>1
      DEF vars, given, SaveInv, HoldsItsOwn, OthersApart, OthersUntouched
  <2>4. StepsDone' /\ UnderItsMode'
    BY <1>13 DEF vars, given, SaveInv, StepsDone, UnderItsMode
  <2>5. EntryWhole' /\ PromisedCarefully'
    BY <1>13 DEF vars, given, SaveInv, EntryWhole, PromisedCarefully
  <2>6. AloneWhole'
    BY <1>13 DEF vars, given, SaveInv, AloneWhole, Whole
  <2> QED BY <2>2, <2>3, <2>4, <2>5, <2>6 DEF SaveInv
<1> QED
  BY <1>1, <1>2, <1>3, <1>4, <1>5, <1>6, <1>7, <1>8, <1>9, <1>10, <1>11, <1>12,
     <1>13 DEF Next

LEMMA SaveInvAlways == Spec => []SaveInv
  BY InitSaveInv, NextSaveInv, PTL DEF Spec

\* A file saved with care is always whole, whatever fails, is killed or loses
\* power at any step, and whoever else saves it; one saved plainly is, as long
\* as no two saves overlap (TextBuffer::save, session::save).
THEOREM SavedStaysWhole == Spec => []SavedWhole
<1>1. SaveInv => SavedWhole
  <2> SUFFICES ASSUME SaveInv PROVE SavedWhole
    OBVIOUS
  <2>1. Typed /\ TypeOK
    BY DEF SaveInv, Typed
  <2>2. TargetWhole
    <3> SUFFICES ASSUME ~plain PROVE Whole
      BY DEF TargetWhole
    <3>1. /\ dir[Target] \in entry /\ EntryWhole
          /\ dir[Target] \in 0..Len(file)
      BY <2>1, NamesDiffer DEF SaveInv, NamesApart, TypeOK
    <3>2. dir[Target] # NoFile => file[dir[Target]].text \in file[dir[Target]].maybe
      BY <2>1, <3>1, FilesType DEF NoFile
    <3> QED BY <3>1, <3>2 DEF EntryWhole, Whole
  <2>3. WholeUnlessShared
    BY DEF SaveInv, AloneWhole, WholeUnlessShared
  <2> QED BY <2>1, <2>2, <2>3 DEF SavedWhole
<1> QED BY SaveInvAlways, <1>1, PTL

\* A save that returned and flushed the directory is not undone by a power loss:
\* the path names its text, or one renamed after it (sync_parent_dir).
THEOREM SavedStaysDurable == Spec => []SavedIsDurable
<1>1. SaveInv => SavedIsDurable
  <2> SUFFICES ASSUME SaveInv, promised > 0
               PROVE  /\ dir[Target] # NoFile
                      /\ \E i \in promised..Len(renamed) :
                             renamed[i] = file[dir[Target]].text
    BY DEF SavedIsDurable
  <2>1. Typed /\ ~plain /\ dir[Target] \in entry /\ dir[Target] \in 0..Len(file)
    BY NamesDiffer
      DEF SaveInv, Typed, TypeOK, PromisedCarefully, NamesApart
  <2>2. /\ dir[Target] # NoFile
        /\ \E i \in promised..Len(renamed) : file[dir[Target]].maybe = {renamed[i]}
    BY <2>1 DEF SaveInv, EntryWhole
  <2>3. file[dir[Target]].text \in file[dir[Target]].maybe
    BY <2>1, <2>2, FilesType DEF NoFile
  <2> QED BY <2>2, <2>3
<1> QED BY SaveInvAlways, <1>1, PTL

\* The file's text is never on disk under another mode, and no other program's
\* file is written through, removed or renamed (create_temp, copy_permissions).
THEOREM SavesSpoilNothing == Spec => []NothingSpoiled
<1>1. SaveInv => NothingSpoiled
  BY DEF SaveInv, OthersApart, NothingSpoiled
<1> QED BY SaveInvAlways, <1>1, PTL
=============================================================================
