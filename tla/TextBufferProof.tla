-------------------------- MODULE TextBufferProof --------------------------
(***************************************************************************)
(* Proofs about TextBuffer: its types, that a clean buffer holds the text  *)
(* that was saved, and that it implements UndoTimeline, for every set of   *)
(* texts, every history length and every number of carets.                 *)
(*                                                                         *)
(* CleanIsSaved is not inductive: it says nothing of the snapshots undo    *)
(* may bring back.  What is inductive is that a state names one text among *)
(* every version still reachable, and that no reachable version's state is *)
(* ahead of the revision, so the state an edit issues is a new one.        *)
(***************************************************************************)
EXTENDS TextBuffer, SequenceTheorems, TLAPS

\* No version still reachable is ahead of the revision states come from.
StatesIssued == \A v \in Versions : v.state <= revision

\* The inductive strengthening of CleanIsSaved.
SaveInv == TypeOK /\ StatesIssued /\ StateNamesText

-----------------------------------------------------------------------------
\* A push (`Vec::push` on a stack): nothing is there but what was and what was
\* pushed.
LEMMA PushedRange ==
    ASSUME NEW S, NEW s \in Seq(S), NEW e \in S
    PROVE  /\ Append(s, e) \in Seq(S)
           /\ Append(s, e) # <<>>
           /\ Range(Append(s, e)) \subseteq Range(s) \cup {e}
  BY DEF Range

\* Dropping the oldest (`Vec::remove(0)` in record) brings nothing new.
LEMMA TailRange ==
    ASSUME NEW S, NEW s \in Seq(S), s # <<>>
    PROVE  Tail(s) \in Seq(S) /\ Range(Tail(s)) \subseteq Range(s)
  BY DEF Range

\* A pop (`Vec::pop` in undo and redo): what is left, and what is popped, was
\* there, and one less is left.
LEMMA FrontRange ==
    ASSUME NEW S, NEW s \in Seq(S), s # <<>>
    PROVE  /\ Front(s) \in Seq(S)
           /\ Range(Front(s)) \subseteq Range(s)
           /\ Last(s) \in S
           /\ Last(s) \in Range(s)
           /\ Len(Front(s)) = Len(s) - 1
           /\ \A i \in 1..Len(s) - 1 : Front(s)[i] = s[i]
<1>1. Len(s) \in Nat \ {0} /\ \A i \in 1..Len(s) : s[i] \in S
  BY EmptySeq, ElementOfSeq
<1>2. Last(s) \in S /\ Last(s) \in Range(s)
  BY <1>1 DEF Last, Range
<1>3. /\ Front(s) \in Seq(S)
      /\ Len(Front(s)) = Len(s) - 1
      /\ \A i \in 1..Len(s) - 1 : Front(s)[i] = s[i]
  <2>1. Len(s) - 1 \in Int /\ \A i \in 1..Len(s) - 1 : s[i] \in S
    BY <1>1
  <2>2. /\ SubSeq(s, 1, Len(s) - 1) \in Seq(S)
        /\ Len(SubSeq(s, 1, Len(s) - 1)) =
              IF 1 <= Len(s) - 1 THEN Len(s) - 1 - 1 + 1 ELSE 0
        /\ \A i \in 1..Len(s) - 1 - 1 + 1 :
              SubSeq(s, 1, Len(s) - 1)[i] = s[1 + i - 1]
    BY <2>1, SubSeqProperties
  <2>3. \A i \in 1..Len(s) - 1 :
            1 + i - 1 = i /\ i \in 1..Len(s) - 1 - 1 + 1
    BY <1>1
  <2>4. Len(SubSeq(s, 1, Len(s) - 1)) = Len(s) - 1
    <3> DEFINE n == Len(s)
               front == Len(SubSeq(s, 1, n - 1))
    <3>1. n \in Nat \ {0} /\ front = IF 1 <= n - 1 THEN n - 1 - 1 + 1 ELSE 0
      BY <1>1, <2>2
    <3> HIDE DEF n, front
    <3>2. front = n - 1
      BY <3>1
    <3> QED BY <3>2 DEF n, front
  <2>5. \A i \in 1..Len(s) - 1 : SubSeq(s, 1, Len(s) - 1)[i] = s[i]
    BY <2>2, <2>3
  <2> QED BY <2>2, <2>4, <2>5 DEF Front
<1>4. Range(Front(s)) \subseteq Range(s)
  BY <1>1, <1>3 DEF Range
<1> QED BY <1>2, <1>3, <1>4

\* A cleared stack (`Vec::clear`) holds nothing.
LEMMA EmptyRange == Range(<<>>) = {}
  BY DEF Range

\* What a stack of snapshots holds is snapshots.
LEMMA RangeType ==
    ASSUME NEW S, NEW s \in Seq(S)
    PROVE  Range(s) \subseteq S
  BY ElementOfSeq DEF Range

\* Every version still reachable is a snapshot, so its state is a number.
LEMMA VersionsType == TypeOK => Versions \subseteq Snapshot
<1> SUFFICES ASSUME TypeOK PROVE Versions \subseteq Snapshot
  OBVIOUS
<1>1. Range(undo) \subseteq Snapshot /\ Range(redo) \subseteq Snapshot
  BY RangeType DEF TypeOK
<1>2. Current \in Snapshot
  BY DEF TypeOK, Current, Snapshot
<1> QED BY <1>1, <1>2 DEF Versions

\* The version on screen is a snapshot (`snapshot_with`), and is reachable.
LEMMA CurrentType == TypeOK => Current \in Snapshot /\ Current \in Versions
  BY DEF TypeOK, Current, Snapshot, Versions

\* What recording an edit leaves on the undo stack, whatever run is open.
LEMMA RecordedRange ==
    ASSUME TypeOK, NEW run, NEW kind
    PROVE  /\ Recorded(run, kind) \in Seq(Snapshot)
           /\ Range(Recorded(run, kind)) \subseteq Versions
<1> DEFINE pushed == Append(undo, Current)
<1>1. /\ undo \in Seq(Snapshot)
      /\ Range(undo) \subseteq Versions
  BY DEF TypeOK, Versions
<1>2. /\ pushed \in Seq(Snapshot)
      /\ pushed # <<>>
      /\ Range(pushed) \subseteq Versions
  BY <1>1, CurrentType, PushedRange
<1>3. /\ Capped(pushed) \in Seq(Snapshot)
      /\ Range(Capped(pushed)) \subseteq Versions
  <2>1. /\ Tail(pushed) \in Seq(Snapshot)
        /\ Range(Tail(pushed)) \subseteq Versions
    BY <1>2, TailRange
  <2> QED BY <1>2, <2>1 DEF Capped
<1> QED BY <1>1, <1>3 DEF Recorded

-----------------------------------------------------------------------------
(***************************************************************************)
(* The three shapes a step has.                                            *)
(***************************************************************************)

\* An edit: the versions reachable afterwards were reachable before, except
\* the one on screen, whose state was never issued.
LEMMA FreshVersion ==
    ASSUME SaveInv, TypeOK',
           Versions' \subseteq Versions \cup {Current'},
           revision' >= revision, state' > revision, state' <= revision',
           UNCHANGED <<savedState, saved>>
    PROVE  SaveInv'
<1>1. \A v \in Versions : v.state \in Nat
  BY VersionsType DEF SaveInv, Snapshot
<1>2. Current'.state = state' /\ Current'.text = text'
  BY DEF Current
<1>3. StatesIssued'
  BY <1>1, <1>2 DEF SaveInv, StatesIssued, TypeOK
<1>4. StateNamesText'
  BY <1>1, <1>2 DEF SaveInv, StatesIssued, StateNamesText, TypeOK
<1> QED BY <1>3, <1>4 DEF SaveInv

\* Undo, redo, and whatever leaves the text alone: no version is new.
LEMMA NoNewVersion ==
    ASSUME SaveInv, TypeOK', Versions' \subseteq Versions,
           revision' >= revision, UNCHANGED <<savedState, saved>>
    PROVE  SaveInv'
<1>1. \A v \in Versions : v.state \in Nat
  BY VersionsType DEF SaveInv, Snapshot
<1> QED
  BY <1>1 DEF SaveInv, StatesIssued, StateNamesText, TypeOK

\* An edit group, whatever its kind and whatever run it continues.
LEMMA EditGroupSaveInv ==
    ASSUME SaveInv, NEW run, NEW kind, NEW t \in Texts,
           NEW carets \in 1..MaxCarets,
           EditGroup(run, kind, t, carets),
           openRun' \in EditKind \cup {NoRun}
    PROVE  SaveInv'
<1>1. TypeOK'
  <2>1. undo' \in Seq(Snapshot)
    BY RecordedRange DEF SaveInv, EditGroup
  <2>2. revision' \in Nat /\ state' = revision' /\ revision' > revision
    BY LimitsAssumption DEF SaveInv, TypeOK, EditGroup, Touch
  <2> QED
    BY <2>1, <2>2 DEF SaveInv, TypeOK, EditGroup
<1>2. Versions' \subseteq Versions \cup {Current'}
  <2>1. Range(undo') \subseteq Versions
    BY RecordedRange DEF SaveInv, EditGroup
  <2>2. Range(redo') = {}
    BY EmptyRange DEF EditGroup
  <2> QED BY <2>1, <2>2 DEF Versions
<1>3. revision' > revision /\ state' = revision' /\ revision' \in Nat /\ revision \in Nat
  BY LimitsAssumption DEF SaveInv, TypeOK, EditGroup, Touch
<1> QED
  BY <1>1, <1>2, <1>3, FreshVersion DEF EditGroup

-----------------------------------------------------------------------------
\* A buffer just opened (`from_path`): one version, in state zero, saved.
LEMMA InitSaveInv == Init => SaveInv
<1> SUFFICES ASSUME Init PROVE SaveInv
  OBVIOUS
<1>1. TypeOK
  BY LimitsAssumption DEF Init, TypeOK, NoRun
<1>2. Versions = {Current} /\ Current.state = 0 /\ Current.text = text
  BY EmptyRange DEF Init, Versions, Current
<1> QED
  BY <1>1, <1>2 DEF SaveInv, StatesIssued, StateNamesText, Init

\* Every handler of the buffer keeps the invariant.
LEMMA NextSaveInv == SaveInv /\ [Next]_vars => SaveInv'
<1> SUFFICES ASSUME SaveInv, [Next]_vars PROVE SaveInv'
  OBVIOUS
<1> USE DEF history
<1>0. TypeOK
  BY DEF SaveInv
<1>1. ASSUME NEW kind \in EditKind, Type(kind) PROVE SaveInv'
  BY <1>1, EditGroupSaveInv DEF Type
<1>2. CASE EditAlone
  BY <1>2, EditGroupSaveInv DEF EditAlone, EditKind
<1>3. CASE EditFromServer
  BY <1>3, EditGroupSaveInv DEF EditFromServer, NoRun
<1>4. CASE Boundary \/ FocusElsewhere
  <2>1. TypeOK'
    BY <1>0, <1>4 DEF TypeOK, Boundary, FocusElsewhere
  <2>2. Versions' = Versions /\ revision' >= revision
    BY <1>0, <1>4 DEF TypeOK, Boundary, FocusElsewhere, Versions, Current
  <2> QED
    BY <1>4, <2>1, <2>2, NoNewVersion DEF Boundary, FocusElsewhere
<1>5. CASE Undo
  <2>1. /\ Front(undo) \in Seq(Snapshot)
        /\ Range(Front(undo)) \subseteq Range(undo)
        /\ Last(undo) \in Snapshot
        /\ Last(undo) \in Range(undo)
    BY <1>0, <1>5, FrontRange DEF Undo, TypeOK
  <2>2. /\ redo' \in Seq(Snapshot)
        /\ Range(redo') \subseteq Range(redo) \cup {Current}
    BY <1>0, <1>5, CurrentType, PushedRange DEF Undo, TypeOK
  <2>3. state' \in 0..revision
    BY <1>5, <2>1 DEF Undo, Restore, SaveInv, StatesIssued, Versions, Snapshot
  <2>4. TypeOK'
    BY <1>0, <1>5, <2>1, <2>2, <2>3
      DEF Undo, Restore, TypeOK, Snapshot, NoRun
  <2>5. Current' = Last(undo)
    BY <1>5, <2>1 DEF Undo, Restore, Current, Snapshot
  <2>6. Versions' \subseteq Versions
    BY <1>5, <2>1, <2>2, <2>5 DEF Undo, Versions
  <2> QED
    BY <1>0, <1>5, <2>4, <2>6, NoNewVersion DEF Undo, Restore, TypeOK
<1>6. CASE Redo
  <2>1. /\ Front(redo) \in Seq(Snapshot)
        /\ Range(Front(redo)) \subseteq Range(redo)
        /\ Last(redo) \in Snapshot
        /\ Last(redo) \in Range(redo)
    BY <1>0, <1>6, FrontRange DEF Redo, TypeOK
  <2>2. /\ undo' \in Seq(Snapshot)
        /\ Range(undo') \subseteq Range(undo) \cup {Current}
    BY <1>0, <1>6, CurrentType, PushedRange DEF Redo, TypeOK
  <2>3. state' \in 0..revision
    BY <1>6, <2>1 DEF Redo, Restore, SaveInv, StatesIssued, Versions, Snapshot
  <2>4. TypeOK'
    BY <1>0, <1>6, <2>1, <2>2, <2>3
      DEF Redo, Restore, TypeOK, Snapshot, NoRun
  <2>5. Current' = Last(redo)
    BY <1>6, <2>1 DEF Redo, Restore, Current, Snapshot
  <2>6. Versions' \subseteq Versions
    BY <1>6, <2>1, <2>2, <2>5 DEF Redo, Versions
  <2> QED
    BY <1>0, <1>6, <2>4, <2>6, NoNewVersion DEF Redo, Restore, TypeOK
<1>7. CASE Save
  <2>1. TypeOK'
    BY <1>0, <1>7 DEF TypeOK, Save
  <2>2. Versions' = Versions /\ Current.state = state /\ Current.text = text
    BY <1>7 DEF Save, Versions, Current
  <2>3. Current \in Versions
    BY DEF Versions
  <2> QED
    BY <1>7, <2>1, <2>2, <2>3
      DEF Save, SaveInv, StatesIssued, StateNamesText
<1>8. CASE Reload
  <2>1. TypeOK'
    BY <1>0, <1>8 DEF TypeOK, Reload, Loaded, NoRun
  <2>2. /\ Versions' = {Current'}
        /\ Current'.state = 0
        /\ Current'.text = text'
    BY <1>8, EmptyRange DEF Reload, Loaded, Versions, Current
  <2> QED
    BY <1>8, <2>1, <2>2
      DEF Reload, Loaded, SaveInv, StatesIssued, StateNamesText
<1>9. CASE UNCHANGED vars
  <2>1. TypeOK' /\ Versions' = Versions
    BY <1>0, <1>9 DEF vars, TypeOK, Versions, Current
  <2> QED
    BY <1>9, <2>1 DEF vars, SaveInv, StatesIssued, StateNamesText
<1> QED
  BY <1>1, <1>2, <1>3, <1>4, <1>5, <1>6, <1>7, <1>8, <1>9 DEF Next

\* The types hold in every state, and no state is ever issued twice in one
\* buffer's life: `state` and `savedState` never run ahead of `revision`.
THEOREM TypeCorrect == Spec => []TypeOK
<1>1. SaveInv => TypeOK
  BY DEF SaveInv
<1> QED BY InitSaveInv, NextSaveInv, <1>1, PTL DEF Spec

\* A state names one text among all versions undo and redo can reach, and
\* the saved state names the saved text.
THEOREM StatesNameTexts == Spec => []StateNamesText
<1>1. SaveInv => StateNamesText
  BY DEF SaveInv
<1> QED BY InitSaveInv, NextSaveInv, <1>1, PTL DEF Spec

\* A clean buffer holds the text that was last loaded or written: quitting
\* without a question, and reloading over it, lose no work.
THEOREM CleanMeansSaved == Spec => []CleanIsSaved
<1>1. SaveInv => CleanIsSaved
  <2> SUFFICES ASSUME SaveInv, ~IsDirty PROVE text = saved
    BY DEF CleanIsSaved
  <2>1. Current \in Versions /\ Current.state = state /\ Current.text = text
    BY DEF Versions, Current
  <2> QED BY <2>1 DEF SaveInv, StateNamesText, IsDirty
<1> QED BY InitSaveInv, NextSaveInv, <1>1, PTL DEF Spec
-----------------------------------------------------------------------------
(***************************************************************************)
(* The length of the history.  `record` trims one stack and redo pushes on *)
(* it untrimmed; what bounds both is that they are bounded together, and   *)
(* that recording empties the other.                                       *)
(***************************************************************************)

\* The inductive strengthening of HistoryBounded.
LengthInv == TypeOK /\ HistoryBounded

\* What recording leaves is within MAX_UNDO_STEPS, whatever run is open.
LEMMA RecordedLength ==
    ASSUME LengthInv, NEW run, NEW kind
    PROVE  Len(Recorded(run, kind)) <= MaxUndoSteps
<1> DEFINE pushed == Append(undo, Current)
<1>1. /\ undo \in Seq(Snapshot) /\ Current \in Snapshot
      /\ Len(undo) \in Nat /\ Len(redo) \in Nat
      /\ Len(undo) <= MaxUndoSteps
  BY CurrentType, LenProperties, LimitsAssumption
    DEF LengthInv, TypeOK, HistoryBounded
<1>2. /\ pushed \in Seq(Snapshot) /\ pushed # <<>>
      /\ Len(pushed) = Len(undo) + 1
  BY <1>1, AppendProperties
<1>3. Len(Capped(pushed)) <= MaxUndoSteps
  <2>1. Len(Tail(pushed)) = Len(undo)
    BY <1>1, <1>2, HeadTailProperties
  <2> QED BY <1>1, <1>2, <2>1, LimitsAssumption DEF Capped
<1> QED BY <1>1, <1>3 DEF Recorded

\* An edit of any kind empties one stack and leaves the other within bounds.
LEMMA EditGroupLength ==
    ASSUME LengthInv, TypeOK', NEW run, NEW kind, NEW t \in Texts,
           NEW carets \in 1..MaxCarets, EditGroup(run, kind, t, carets)
    PROVE  LengthInv'
<1>1. Len(undo') <= MaxUndoSteps /\ Len(undo') \in Nat
  BY RecordedLength, LenProperties DEF EditGroup, TypeOK
<1>2. Len(redo') = 0
  BY EmptySeq DEF EditGroup
<1> QED BY <1>1, <1>2, LimitsAssumption DEF LengthInv, HistoryBounded

\* Every handler of the buffer keeps the two stacks within one bound.
LEMMA NextLengthInv == LengthInv /\ TypeOK' /\ [Next]_vars => LengthInv'
<1> SUFFICES ASSUME LengthInv, TypeOK', [Next]_vars PROVE LengthInv'
  OBVIOUS
<1> USE DEF history
<1>0. /\ undo \in Seq(Snapshot) /\ redo \in Seq(Snapshot)
      /\ Current \in Snapshot
      /\ Len(undo) \in Nat /\ Len(redo) \in Nat
      /\ Len(undo) + Len(redo) <= MaxUndoSteps
  BY CurrentType, LenProperties DEF LengthInv, TypeOK, HistoryBounded
<1>1. ASSUME NEW kind \in EditKind, Type(kind) PROVE LengthInv'
  BY <1>1, EditGroupLength DEF Type
<1>2. CASE EditAlone
  BY <1>2, EditGroupLength DEF EditAlone
<1>3. CASE EditFromServer
  BY <1>3, EditGroupLength DEF EditFromServer
<1>4. CASE Boundary \/ FocusElsewhere \/ Save \/ UNCHANGED vars
  <2>1. undo' = undo /\ redo' = redo
    BY <1>4 DEF Boundary, FocusElsewhere, Save, vars
  <2> QED BY <2>1 DEF LengthInv, HistoryBounded
<1>5. CASE Undo
  <2>1. Len(undo') = Len(undo) - 1
    BY <1>0, <1>5, FrontRange DEF Undo
  <2>2. Len(redo') = Len(redo) + 1
    BY <1>0, <1>5, AppendProperties DEF Undo
  <2> QED BY <1>0, <2>1, <2>2 DEF LengthInv, HistoryBounded
<1>6. CASE Redo
  <2>1. Len(redo') = Len(redo) - 1
    BY <1>0, <1>6, FrontRange DEF Redo
  <2>2. Len(undo') = Len(undo) + 1
    BY <1>0, <1>6, AppendProperties DEF Redo
  <2> QED BY <1>0, <2>1, <2>2 DEF LengthInv, HistoryBounded
<1>7. CASE Reload
  <2>1. Len(undo') = 0 /\ Len(redo') = 0
    BY <1>7, EmptySeq DEF Reload, Loaded
  <2> QED BY <2>1, LimitsAssumption DEF LengthInv, HistoryBounded
<1> QED
  BY <1>1, <1>2, <1>3, <1>4, <1>5, <1>6, <1>7 DEF Next

\* The history never holds more than MAX_UNDO_STEPS versions in its two stacks
\* together, although only `record` trims.
THEOREM HistoryStaysBounded == Spec => []HistoryBounded
<1>1. Init => LengthInv
  <2> SUFFICES ASSUME Init PROVE LengthInv
    OBVIOUS
  <2>1. TypeOK
    BY InitSaveInv DEF SaveInv
  <2>2. Len(undo) = 0 /\ Len(redo) = 0
    BY EmptySeq DEF Init
  <2> QED BY <2>1, <2>2, LimitsAssumption DEF LengthInv, HistoryBounded
<1>2. LengthInv => HistoryBounded
  BY DEF LengthInv
<1> QED
  BY <1>1, <1>2, NextLengthInv, TypeCorrect, PTL DEF Spec

-----------------------------------------------------------------------------
(***************************************************************************)
(* TextBuffer implements UndoTimeline: the two stacks and the text on      *)
(* screen, read as one line, change as the line of versions a user is      *)
(* promised.                                                               *)
(*                                                                         *)
(* Every step of the buffer maps to a step of the line or to none.  What   *)
(* needs an invariant is the edit that continues a run: it replaces the    *)
(* version the run has reached, so a run that is open must have recorded   *)
(* the one before it, on a stack nothing else has emptied.                 *)
(***************************************************************************)
LineOf(u, t, r) == TextsOf(u) \o <<t>> \o Reverse(TextsOf(r))

\* A run that is open has recorded the version before it.
RunHasVersion == openRun \in EditKind => undo # <<>>

TimelineInv == TypeOK /\ RunHasVersion

-----------------------------------------------------------------------------
\* The texts of a stack, in its order.
LEMMA TextsOfStack ==
    ASSUME NEW u \in Seq(Snapshot)
    PROVE  /\ TextsOf(u) \in Seq(Texts) /\ Len(TextsOf(u)) = Len(u)
           /\ \A i \in 1..Len(u) : TextsOf(u)[i] = u[i].text
<1>1. Len(u) \in Nat /\ \A i \in 1..Len(u) : u[i].text \in Texts
  <2>1. \A i \in 1..Len(u) : u[i] \in Snapshot
    BY ElementOfSeq
  <2> QED BY <2>1, LenProperties DEF Snapshot
<1> QED BY <1>1 DEF TextsOf

\* The redo stack read backwards: the newest of it is the next version.
LEMMA ReversedStack ==
    ASSUME NEW s \in Seq(Texts)
    PROVE  /\ Reverse(s) \in Seq(Texts) /\ Len(Reverse(s)) = Len(s)
           /\ \A i \in 1..Len(s) : \A j \in Int :
                  j = Len(s) - i + 1 => Reverse(s)[j] = s[i]
<1>1. Len(s) \in Nat /\ \A i \in 1..Len(s) : s[i] \in Texts
  BY ElementOfSeq, LenProperties
<1>2. \A i \in 1..Len(s) : s[Len(s) - i + 1] \in Texts
  <2>1. \A i \in 1..Len(s) : Len(s) - i + 1 \in 1..Len(s)
    BY <1>1
  <2> QED BY <1>1, <2>1
<1>3. Reverse(s) \in Seq(Texts) /\ Len(Reverse(s)) = Len(s)
  BY <1>1, <1>2 DEF Reverse
<1>4. ASSUME NEW i \in 1..Len(s), NEW j \in Int, j = Len(s) - i + 1
      PROVE  Reverse(s)[j] = s[i]
  <2>1. j \in 1..Len(s) /\ Len(s) - j + 1 = i
    BY <1>1, <1>4
  <2> QED BY <2>1 DEF Reverse
<1> QED BY <1>3, <1>4

\* One sequence after another, place by place.
Joined(x, y, z) ==
    /\ Len(z) = Len(x) + Len(y)
    /\ \A i \in 1..Len(x) : z[i] = x[i]
    /\ \A i \in 1..Len(y) : \A j \in Int : j = Len(x) + i => z[j] = y[i]

LEMMA ConcatShape ==
    ASSUME NEW S, NEW x \in Seq(S), NEW y \in Seq(S)
    PROVE  x \o y \in Seq(S) /\ Joined(x, y, x \o y)
<1>1. /\ x \o y \in Seq(S) /\ Len(x \o y) = Len(x) + Len(y)
      /\ \A i \in 1..Len(x) + Len(y) :
             (x \o y)[i] = IF i <= Len(x) THEN x[i] ELSE y[i - Len(x)]
      /\ Len(x) \in Nat /\ Len(y) \in Nat
  BY ConcatProperties, LenProperties
<1> DEFINE c == x \o y
           n == Len(x)
           m == Len(y)
<1>2. /\ n \in Nat /\ m \in Nat
      /\ \A i \in 1..n + m : c[i] = IF i <= n THEN x[i] ELSE y[i - n]
  BY <1>1
<1> HIDE DEF c, n, m
<1>3. \A i \in 1..n : c[i] = x[i]
  BY <1>2
<1>4. ASSUME NEW i \in 1..m, NEW j \in Int, j = n + i PROVE c[j] = y[i]
  <2>1. j \in 1..n + m /\ ~(j <= n) /\ j - n = i
    BY <1>2, <1>4
  <2> QED BY <1>2, <2>1
<1> QED BY <1>1, <1>3, <1>4 DEF Joined, c, n, m

\* The line: what undo brings back, the text on screen, what redo brings back.
IsLine(u, t, r, l) ==
    /\ Len(l) = Len(u) + 1 + Len(r)
    /\ \A i \in 1..Len(u) : l[i] = u[i].text
    /\ l[Len(u) + 1] = t
    /\ \A i \in 1..Len(r) : \A j \in Int :
           j = Len(u) + Len(r) + 2 - i => l[j] = r[i].text

LEMMA LineShape ==
    ASSUME NEW u \in Seq(Snapshot), NEW t \in Texts, NEW r \in Seq(Snapshot)
    PROVE  LineOf(u, t, r) \in Seq(Texts) /\ IsLine(u, t, r, LineOf(u, t, r))
<1> DEFINE a == TextsOf(u)
           b == <<t>>
           c == Reverse(TextsOf(r))
           n == Len(u)
           m == Len(r)
<1>0. n \in Nat /\ m \in Nat
  BY LenProperties
<1>1. a \in Seq(Texts) /\ Len(a) = n /\ \A i \in 1..n : a[i] = u[i].text
  BY TextsOfStack
<1>2. b \in Seq(Texts) /\ Len(b) = 1 /\ b[1] = t
  OBVIOUS
<1>3. /\ c \in Seq(Texts) /\ Len(c) = m
      /\ \A i \in 1..m : \A j \in Int : j = m - i + 1 => c[j] = r[i].text
  <2>1. /\ TextsOf(r) \in Seq(Texts) /\ Len(TextsOf(r)) = m
        /\ \A i \in 1..m : TextsOf(r)[i] = r[i].text
    BY TextsOfStack
  <2> QED BY <2>1, ReversedStack
<1> HIDE DEF a, b, c, n, m
<1>4. /\ a \o b \in Seq(Texts) /\ Len(a \o b) = n + 1
      /\ \A i \in 1..n : (a \o b)[i] = a[i]
      /\ (a \o b)[n + 1] = t
  <2>1. a \o b \in Seq(Texts) /\ Joined(a, b, a \o b)
    BY <1>1, <1>2, ConcatShape
  <2> QED BY <1>0, <1>1, <1>2, <2>1 DEF Joined
<1> DEFINE ab == a \o b
<1> HIDE DEF ab
<1>5. /\ ab \in Seq(Texts) /\ Len(ab) = n + 1
      /\ \A i \in 1..n : ab[i] = a[i]
      /\ ab[n + 1] = t
  BY <1>4 DEF ab
<1>6. /\ ab \o c \in Seq(Texts) /\ Len(ab \o c) = n + 1 + m
      /\ \A i \in 1..n + 1 : (ab \o c)[i] = ab[i]
      /\ \A i \in 1..m : \A j \in Int : j = n + 1 + i => (ab \o c)[j] = c[i]
  <2>1. ab \o c \in Seq(Texts) /\ Joined(ab, c, ab \o c)
    BY <1>3, <1>5, ConcatShape
  <2> QED BY <1>0, <1>3, <1>5, <2>1 DEF Joined
<1> DEFINE l == ab \o c
<1>7. LineOf(u, t, r) = l
  BY DEF LineOf, l, ab, a, b, c
<1> HIDE DEF l
<1>8. \A i \in 1..m : \A j \in Int : j = n + m + 2 - i => l[j] = r[i].text
  <2> SUFFICES ASSUME NEW i \in 1..m, NEW j \in Int, j = n + m + 2 - i
               PROVE  l[j] = r[i].text
    OBVIOUS
  <2>1. PICK k \in 1..m : k = m - i + 1
    BY <1>0
  <2>2. j = n + 1 + k
    BY <1>0, <2>1
  <2>3. c[k] = r[i].text
    BY <1>3, <2>1
  <2>4. l[j] = c[k]
    BY <1>6, <2>2 DEF l
  <2> QED BY <2>3, <2>4
<1>9. \A i \in 1..n : i \in 1..n + 1
  BY <1>0
<1>10. n + 1 \in 1..n + 1
  BY <1>0
<1>11. \A i \in 1..n : l[i] = u[i].text
  BY <1>1, <1>5, <1>6, <1>9 DEF l
<1>12. l[n + 1] = t
  BY <1>5, <1>6, <1>10 DEF l
<1>13. l \in Seq(Texts) /\ Len(l) = n + 1 + m
  BY <1>6 DEF l
<1> QED BY <1>7, <1>8, <1>11, <1>12, <1>13 DEF IsLine, n, m

\* A line is known by its three parts.
LEMMA LineIs ==
    ASSUME NEW u \in Seq(Snapshot), NEW t \in Texts, NEW r \in Seq(Snapshot),
           NEW l \in Seq(Texts), IsLine(u, t, r, l)
    PROVE  l = LineOf(u, t, r)
<1> DEFINE k == LineOf(u, t, r)
           n == Len(u)
           m == Len(r)
<1>0. n \in Nat /\ m \in Nat
  BY LenProperties
<1>1. /\ k \in Seq(Texts) /\ Len(k) = n + 1 + m
      /\ \A i \in 1..n : k[i] = u[i].text
      /\ k[n + 1] = t
      /\ \A i \in 1..m : \A j \in Int : j = n + m + 2 - i => k[j] = r[i].text
  <2>1. k \in Seq(Texts) /\ IsLine(u, t, r, k)
    BY LineShape
  <2> HIDE DEF k
  <2> QED BY <2>1 DEF IsLine
<1>2. /\ Len(l) = n + 1 + m
      /\ \A i \in 1..n : l[i] = u[i].text
      /\ l[n + 1] = t
      /\ \A i \in 1..m : \A j \in Int : j = n + m + 2 - i => l[j] = r[i].text
  BY DEF IsLine
<1> HIDE DEF k, n, m
<1>3. ASSUME NEW j \in 1..Len(l) PROVE l[j] = k[j]
  <2>1. CASE j \in 1..n
    BY <1>1, <1>2, <2>1
  <2>2. CASE j = n + 1
    BY <1>1, <1>2, <2>2
  <2>3. CASE j \notin 1..n /\ j # n + 1
    <3>1. j \in Int /\ j <= n + 1 + m /\ j > n + 1
      BY <1>0, <1>2, <2>3
    <3>2. PICK i \in 1..m : i = n + m + 2 - j
      BY <1>0, <3>1
    <3>3. j = n + m + 2 - i
      BY <1>0, <3>1, <3>2
    <3> QED BY <1>1, <1>2, <3>1, <3>3
  <2> QED BY <2>1, <2>2, <2>3
<1>4. l = k
  BY <1>1, <1>2, <1>3, SeqEqual
<1> QED BY <1>4 DEF k

-----------------------------------------------------------------------------
(***************************************************************************)
(* The invariant.                                                          *)
(***************************************************************************)

\* A stack that something was recorded on is not empty.
LEMMA RecordedNotEmpty ==
    ASSUME TypeOK, NEW run, NEW kind, ~(run = kind /\ kind # "Other") \/ undo # <<>>
    PROVE  Recorded(run, kind) # <<>>
<1> DEFINE pushed == Append(undo, Current)
<1>1. /\ undo \in Seq(Snapshot) /\ Current \in Snapshot /\ Len(undo) \in Nat
  BY CurrentType, LenProperties DEF TypeOK
<1>2. pushed \in Seq(Snapshot) /\ pushed # <<>> /\ Len(pushed) = Len(undo) + 1
  BY <1>1, AppendProperties
<1>3. Capped(pushed) # <<>>
  <2>1. CASE Len(pushed) > MaxUndoSteps
    <3>1. Tail(pushed) \in Seq(Snapshot) /\ Len(Tail(pushed)) = Len(undo)
      BY <1>1, <1>2, HeadTailProperties
    <3>2. Len(Tail(pushed)) # 0
      BY <1>1, <1>2, <2>1, <3>1, LimitsAssumption
    <3> QED BY <2>1, <3>2, EmptySeq DEF Capped
  <2>2. CASE ~(Len(pushed) > MaxUndoSteps)
    BY <1>2, <2>2 DEF Capped
  <2> QED BY <2>1, <2>2
<1> QED BY <1>3 DEF Recorded

\* Every handler of the buffer keeps the invariant.
LEMMA NextTimelineInv == TimelineInv /\ TypeOK' /\ [Next]_vars => TimelineInv'
<1> SUFFICES ASSUME TimelineInv, [Next]_vars PROVE RunHasVersion'
  BY DEF TimelineInv
<1> USE DEF history
<1>0. TypeOK /\ RunHasVersion
  BY DEF TimelineInv
<1>1. ASSUME NEW kind \in EditKind, Type(kind) PROVE RunHasVersion'
  <2>1. undo' = Recorded(openRun, kind) /\ openRun' = kind
    BY <1>1 DEF Type, EditGroup
  <2>2. openRun = kind => undo # <<>>
    BY <1>0, <1>1 DEF RunHasVersion
  <2> QED BY <1>0, <2>1, <2>2, RecordedNotEmpty DEF RunHasVersion
<1>2. CASE EditAlone
  <2>1. undo' = Recorded(NoRun, "Other")
    BY <1>2 DEF EditAlone, EditGroup
  <2> QED BY <1>0, <2>1, RecordedNotEmpty DEF RunHasVersion
<1>3. CASE openRun' = NoRun
  BY <1>3 DEF RunHasVersion, NoRun, EditKind
<1>4. CASE FocusElsewhere \/ Save \/ UNCHANGED vars
  BY <1>0, <1>3, <1>4 DEF FocusElsewhere, Save, vars, RunHasVersion
<1>5. EditFromServer \/ Boundary \/ Undo \/ Redo \/ Reload => openRun' = NoRun
  BY DEF EditFromServer, Boundary, Undo, Redo, Reload, Loaded
<1> QED BY <1>1, <1>2, <1>3, <1>4, <1>5 DEF Next

LEMMA SpecTimelineInv == Spec => []TimelineInv
<1>1. Init => TimelineInv
  <2>1. Init => TypeOK
    BY InitSaveInv DEF SaveInv
  <2> QED BY <2>1 DEF Init, TimelineInv, RunHasVersion, NoRun, EditKind
<1> QED BY <1>1, NextTimelineInv, TypeCorrect, PTL DEF Spec

-----------------------------------------------------------------------------
(***************************************************************************)
(* Steps of the line.                                                      *)
(***************************************************************************)

\* The versions up to the one on screen.
LEMMA LinePrefix ==
    ASSUME NEW u \in Seq(Snapshot), NEW t \in Texts, NEW r \in Seq(Snapshot),
           NEW k \in 0..Len(u) + 1
    PROVE  /\ SubSeq(LineOf(u, t, r), 1, k) \in Seq(Texts)
           /\ Len(SubSeq(LineOf(u, t, r), 1, k)) = k
           /\ \A i \in 1..k : SubSeq(LineOf(u, t, r), 1, k)[i] = LineOf(u, t, r)[i]
<1> DEFINE l == LineOf(u, t, r)
<1>1. l \in Seq(Texts) /\ Len(l) = Len(u) + 1 + Len(r) /\ Len(u) \in Nat /\ Len(r) \in Nat
  BY LineShape, LenProperties DEF IsLine
<1> HIDE DEF l
<1>2. k \in Nat /\ k <= Len(l) /\ \A i \in 1..k : l[i] \in Texts
  BY <1>1, ElementOfSeq
<1>3. /\ SubSeq(l, 1, k) \in Seq(Texts)
      /\ Len(SubSeq(l, 1, k)) = IF 1 <= k THEN k - 1 + 1 ELSE 0
      /\ \A i \in 1..k - 1 + 1 : SubSeq(l, 1, k)[i] = l[1 + i - 1]
  BY <1>2, SubSeqProperties
<1>4. Len(SubSeq(l, 1, k)) = k
  BY <1>2, <1>3
<1>5. \A i \in 1..k : SubSeq(l, 1, k)[i] = l[i]
  <2>1. \A i \in 1..k : i \in 1..k - 1 + 1 /\ 1 + i - 1 = i
    BY <1>2
  <2> QED BY <1>3, <2>1
<1> QED BY <1>3, <1>4, <1>5 DEF l

\* A buffer just opened.
LEMMA OpenLine ==
    ASSUME NEW t \in Texts
    PROVE  LineOf(<<>>, t, <<>>) = <<t>>
<1>1. <<>> \in Seq(Snapshot) /\ Len(<<>>) = 0 /\ <<t>> \in Seq(Texts)
  BY EmptySeq
<1>2. IsLine(<<>>, t, <<>>, <<t>>)
  BY <1>1 DEF IsLine
<1> QED BY <1>1, <1>2, LineIs

\* The line up to somewhere, and one more version: what lay ahead is gone.
LEMMA GrownLine ==
    ASSUME NEW u \in Seq(Snapshot), NEW c \in Snapshot, NEW t \in Texts,
           NEW r \in Seq(Snapshot)
    PROVE  /\ Append(SubSeq(LineOf(u, c.text, r), 1, Len(u) + 1), t)
                  = LineOf(Append(u, c), t, <<>>)
           /\ Append(SubSeq(LineOf(u, c.text, r), 1, Len(u)), t) = LineOf(u, t, <<>>)
<1> DEFINE l == LineOf(u, c.text, r)
           n == Len(u)
<1>0. /\ n \in Nat /\ c.text \in Texts
      /\ <<>> \in Seq(Snapshot) /\ Len(<<>>) = 0
  BY LenProperties, EmptySeq DEF Snapshot
<1>1. \A i \in 1..n : l[i] = u[i].text
  <2>1. IsLine(u, c.text, r, l)
    BY <1>0, LineShape
  <2> QED BY <2>1 DEF IsLine
<1>2. l[n + 1] = c.text
  <2>1. IsLine(u, c.text, r, l)
    BY <1>0, LineShape
  <2> QED BY <2>1 DEF IsLine
<1>3. \A k \in 0..n + 1 : /\ SubSeq(l, 1, k) \in Seq(Texts) /\ Len(SubSeq(l, 1, k)) = k
                          /\ \A i \in 1..k : SubSeq(l, 1, k)[i] = l[i]
  BY <1>0, LinePrefix
<1> HIDE DEF l, n
<1>4. n \in 0..n + 1 /\ n + 1 \in 0..n + 1
  BY <1>0
<1>5. Append(SubSeq(l, 1, n + 1), t) = LineOf(Append(u, c), t, <<>>)
  <2> DEFINE p == SubSeq(l, 1, n + 1)
             w == Append(u, c)
             g == Append(p, t)
  <2>1. p \in Seq(Texts) /\ Len(p) = n + 1 /\ \A i \in 1..n + 1 : p[i] = l[i]
    BY <1>3, <1>4
  <2>2. /\ w \in Seq(Snapshot) /\ Len(w) = n + 1 /\ w[n + 1] = c
        /\ \A i \in 1..n : w[i] = u[i]
    BY AppendProperties DEF n
  <2> HIDE DEF p, w
  <2>3. /\ g \in Seq(Texts) /\ Len(g) = n + 2 /\ g[n + 2] = t
        /\ \A i \in 1..n + 1 : g[i] = p[i]
    BY <1>0, <2>1, AppendProperties
  <2> HIDE DEF g
  <2>4. \A i \in 1..n + 1 : g[i] = w[i].text
    <3> SUFFICES ASSUME NEW i \in 1..n + 1 PROVE g[i] = w[i].text
      OBVIOUS
    <3>1. g[i] = l[i]
      BY <2>1, <2>3
    <3>2. CASE i = n + 1
      BY <1>2, <2>2, <3>1, <3>2
    <3>3. CASE i # n + 1
      <4>1. i \in 1..n
        BY <1>0, <3>3
      <4> QED BY <1>1, <2>2, <3>1, <4>1
    <3> QED BY <3>2, <3>3
  <2>5. IsLine(w, t, <<>>, g)
    BY <1>0, <2>2, <2>3, <2>4 DEF IsLine
  <2>6. g = LineOf(w, t, <<>>)
    BY <1>0, <2>2, <2>3, <2>5, LineIs
  <2> QED BY <2>6 DEF g, p, w
<1>6. Append(SubSeq(l, 1, n), t) = LineOf(u, t, <<>>)
  <2> DEFINE p == SubSeq(l, 1, n)
             g == Append(p, t)
  <2>1. p \in Seq(Texts) /\ Len(p) = n /\ \A i \in 1..n : p[i] = l[i]
    BY <1>3, <1>4
  <2> HIDE DEF p
  <2>2. /\ g \in Seq(Texts) /\ Len(g) = n + 1 /\ g[n + 1] = t
        /\ \A i \in 1..n : g[i] = p[i]
    BY <1>0, <2>1, AppendProperties
  <2> HIDE DEF g
  <2>3. IsLine(u, t, <<>>, g)
    BY <1>0, <1>1, <2>1, <2>2 DEF IsLine, n
  <2>4. g = LineOf(u, t, <<>>)
    BY <1>0, <2>2, <2>3, LineIs
  <2> QED BY <2>4 DEF g, p
<1> QED BY <1>5, <1>6 DEF l, n

\* An edit recorded: the line grows by a step and forgets its oldest.
LEMMA StepLine ==
    ASSUME NEW u \in Seq(Snapshot), NEW c \in Snapshot, NEW t \in Texts,
           NEW r \in Seq(Snapshot)
    PROVE  LineOf(Capped(Append(u, c)), t, <<>>) =
               Timeline!Remembered(Append(SubSeq(LineOf(u, c.text, r), 1, Len(u) + 1), t))
<1> DEFINE w == Append(u, c)
           g == LineOf(w, t, <<>>)
<1>1. Append(SubSeq(LineOf(u, c.text, r), 1, Len(u) + 1), t) = g
  BY GrownLine
<1>2. /\ w \in Seq(Snapshot) /\ w # <<>> /\ Len(w) = Len(u) + 1 /\ Len(w) \in Nat \ {0}
      /\ <<>> \in Seq(Snapshot) /\ Len(<<>>) = 0
  BY AppendProperties, LenProperties, EmptySeq
<1> HIDE DEF w
<1>3. g \in Seq(Texts) /\ IsLine(w, t, <<>>, g)
  BY <1>2, LineShape
<1> HIDE DEF g
<1>4. /\ Len(g) = Len(w) + 1 /\ g # <<>>
      /\ \A i \in 1..Len(w) : g[i] = w[i].text
      /\ g[Len(w) + 1] = t
  <2>1. Len(g) = Len(w) + 1
    BY <1>2, <1>3 DEF IsLine
  <2>2. Len(g) # 0
    BY <1>2, <2>1
  <2> QED BY <1>3, <2>1, <2>2, EmptySeq DEF IsLine
<1>5. CASE Len(w) > MaxUndoSteps
  <2> DEFINE x == Tail(w)
             h == Tail(g)
  <2>1. /\ x \in Seq(Snapshot) /\ Len(x) = Len(w) - 1
        /\ \A i \in 1..Len(x) : x[i] = w[i + 1]
    BY <1>2, HeadTailProperties
  <2>2. /\ h \in Seq(Texts) /\ Len(h) = Len(g) - 1
        /\ \A i \in 1..Len(h) : h[i] = g[i + 1]
    BY <1>3, <1>4, HeadTailProperties
  <2>3. Capped(w) = x /\ Timeline!Remembered(g) = h
    <3>1. Len(g) > MaxUndoSteps + 1
      BY <1>2, <1>4, <1>5, LimitsAssumption
    <3> QED BY <1>5, <3>1 DEF Capped, Timeline!Remembered
  <2> HIDE DEF x, h
  <2>4. Len(h) = Len(x) + 1 /\ Len(x) \in Nat /\ Len(h) = Len(w)
    BY <1>2, <1>4, <2>1, <2>2
  <2>5. \A i \in 1..Len(x) : h[i] = x[i].text
    <3> SUFFICES ASSUME NEW i \in 1..Len(x) PROVE h[i] = x[i].text
      OBVIOUS
    <3>1. i \in 1..Len(h) /\ i + 1 \in 1..Len(w)
      BY <1>2, <2>4
    <3> QED BY <1>4, <2>1, <2>2, <3>1
  <2>6. h[Len(x) + 1] = t
    BY <1>2, <1>4, <2>2, <2>4
  <2>7. IsLine(x, t, <<>>, h)
    BY <1>2, <2>4, <2>5, <2>6 DEF IsLine
  <2>8. h = LineOf(x, t, <<>>)
    BY <1>2, <2>1, <2>2, <2>7, LineIs
  <2> QED BY <1>1, <2>3, <2>8 DEF w
<1>6. CASE ~(Len(w) > MaxUndoSteps)
  <2>1. Capped(w) = w /\ Timeline!Remembered(g) = g
    <3>1. ~(Len(g) > MaxUndoSteps + 1)
      BY <1>2, <1>4, <1>6, LimitsAssumption
    <3> QED BY <1>6, <3>1 DEF Capped, Timeline!Remembered
  <2> QED BY <1>1, <2>1 DEF w, g
<1> QED BY <1>5, <1>6

\* Undo: the same line, one version back.
LEMMA BackLine ==
    ASSUME NEW u \in Seq(Snapshot), u # <<>>, NEW c \in Snapshot,
           NEW r \in Seq(Snapshot)
    PROVE  LineOf(Front(u), Last(u).text, Append(r, c)) = LineOf(u, c.text, r)
<1> DEFINE l == LineOf(u, c.text, r)
           f == Front(u)
           w == Append(r, c)
           t == Last(u).text
           n == Len(u)
           m == Len(r)
<1>1. n \in Nat \ {0} /\ m \in Nat /\ c.text \in Texts
  BY LenProperties, EmptySeq DEF Snapshot
<1>2. /\ f \in Seq(Snapshot) /\ Len(f) = n - 1
      /\ \A i \in 1..n - 1 : f[i] = u[i]
      /\ t = u[n].text /\ t \in Texts
  <2>1. f \in Seq(Snapshot) /\ Len(f) = n - 1 /\ Last(u) \in Snapshot
    BY FrontRange
  <2>2. \A i \in 1..n - 1 : f[i] = u[i]
    BY FrontRange
  <2>3. Last(u) = u[n]
    BY DEF Last
  <2>4. t = u[n].text /\ t \in Texts
    BY <2>1, <2>3 DEF Snapshot
  <2> QED BY <2>1, <2>2, <2>4
<1>3. /\ w \in Seq(Snapshot) /\ Len(w) = m + 1 /\ w[m + 1] = c
      /\ \A i \in 1..m : w[i] = r[i]
  BY AppendProperties
<1>4. l \in Seq(Texts) /\ IsLine(u, c.text, r, l)
  BY <1>1, LineShape
<1> HIDE DEF l, f, w, t
<1>5. /\ Len(l) = n + 1 + m
      /\ \A i \in 1..n : l[i] = u[i].text
      /\ l[n + 1] = c.text
      /\ \A i \in 1..m : \A j \in Int : j = n + m + 2 - i => l[j] = r[i].text
  BY <1>4 DEF IsLine
<1> HIDE DEF n, m
<1>6. Len(l) = Len(f) + 1 + Len(w)
  BY <1>1, <1>2, <1>3, <1>5
<1>7. \A i \in 1..Len(f) : l[i] = f[i].text
  BY <1>1, <1>2, <1>5
<1>8. l[Len(f) + 1] = t
  BY <1>1, <1>2, <1>5
<1>9. \A i \in 1..Len(w) : \A j \in Int : j = Len(f) + Len(w) + 2 - i => l[j] = w[i].text
  <2> SUFFICES ASSUME NEW i \in 1..m + 1, NEW j \in Int, j = n - 1 + (m + 1) + 2 - i
               PROVE  l[j] = w[i].text
    BY <1>2, <1>3
  <2>1. CASE i = m + 1
    <3>1. j = n + 1
      BY <1>1, <2>1
    <3> QED BY <1>3, <1>5, <2>1, <3>1
  <2>2. CASE i # m + 1
    <3>1. i \in 1..m /\ j = n + m + 2 - i
      BY <1>1, <2>2
    <3> QED BY <1>3, <1>5, <3>1
  <2> QED BY <2>1, <2>2
<1>10. IsLine(f, t, w, l)
  BY <1>6, <1>7, <1>8, <1>9 DEF IsLine
<1>11. l = LineOf(f, t, w)
  BY <1>2, <1>3, <1>4, <1>10, LineIs
<1> QED BY <1>11 DEF l, f, t, w

\* A push and a pop.
LEMMA PushPop ==
    ASSUME NEW S, NEW s \in Seq(S), NEW e \in S
    PROVE  /\ Front(Append(s, e)) = s /\ Last(Append(s, e)) = e
           /\ s # <<>> => Append(Front(s), Last(s)) = s
<1> DEFINE w == Append(s, e)
<1>1. /\ w \in Seq(S) /\ w # <<>> /\ Len(w) = Len(s) + 1 /\ w[Len(s) + 1] = e
      /\ \A i \in 1..Len(s) : w[i] = s[i]
      /\ Len(s) \in Nat
  BY AppendProperties, LenProperties
<1> HIDE DEF w
<1>2. Last(w) = e
  BY <1>1 DEF Last
<1>3. Front(w) = s
  <2>1. /\ Front(w) \in Seq(S) /\ Len(Front(w)) = Len(w) - 1
        /\ \A i \in 1..Len(w) - 1 : Front(w)[i] = w[i]
    BY <1>1, FrontRange
  <2> DEFINE f == Front(w)
  <2> HIDE DEF f
  <2>2. f \in Seq(S) /\ Len(f) = Len(s) /\ \A i \in 1..Len(f) : f[i] = s[i]
    BY <1>1, <2>1 DEF f
  <2>3. f = s
    BY <2>2, SeqEqual
  <2> QED BY <2>3 DEF f
<1>4. ASSUME s # <<>> PROVE Append(Front(s), Last(s)) = s
  <2> DEFINE f == Front(s)
             g == Append(f, Last(s))
  <2>1. /\ f \in Seq(S) /\ Len(f) = Len(s) - 1 /\ Last(s) \in S
        /\ \A i \in 1..Len(s) - 1 : f[i] = s[i]
        /\ Last(s) = s[Len(s)] /\ Len(s) \in Nat \ {0}
    BY <1>1, <1>4, FrontRange, EmptySeq DEF Last
  <2> HIDE DEF f
  <2>2. /\ g \in Seq(S) /\ Len(g) = Len(f) + 1 /\ g[Len(f) + 1] = Last(s)
        /\ \A i \in 1..Len(f) : g[i] = f[i]
    BY <2>1, AppendProperties
  <2> HIDE DEF g
  <2>3. Len(g) = Len(s) /\ \A i \in 1..Len(g) : g[i] = s[i]
    BY <2>1, <2>2
  <2>4. g = s
    BY <2>2, <2>3, SeqEqual
  <2> QED BY <2>4 DEF g, f
<1> QED BY <1>2, <1>3, <1>4 DEF w

\* Redo: the same line, one version on.
LEMMA ForwardLine ==
    ASSUME NEW u \in Seq(Snapshot), NEW c \in Snapshot,
           NEW r \in Seq(Snapshot), r # <<>>
    PROVE  LineOf(Append(u, c), Last(r).text, Front(r)) = LineOf(u, c.text, r)
<1> DEFINE w == Append(u, c)
           d == Last(r)
           f == Front(r)
<1>1. w \in Seq(Snapshot) /\ w # <<>> /\ d \in Snapshot /\ f \in Seq(Snapshot)
  BY PushedRange, FrontRange
<1>2. Front(w) = u /\ Last(w) = c /\ Append(f, d) = r
  BY PushPop
<1> HIDE DEF w, d, f
<1>3. LineOf(Front(w), Last(w).text, Append(f, d)) = LineOf(w, d.text, f)
  BY <1>1, BackLine
<1>4. LineOf(u, c.text, r) = LineOf(w, d.text, f)
  BY <1>2, <1>3
<1> QED BY <1>4 DEF w, d, f

-----------------------------------------------------------------------------
(***************************************************************************)
(* Steps of the buffer, as steps of the line.                              *)
(***************************************************************************)

\* The buffer's line is the one UndoTimeline is instantiated with.
LEMMA LineOfBuffer ==
    /\ Timeline!Init <=> \E t \in Texts :
           /\ LineOf(undo, text, redo) = <<t>> /\ Len(undo) + 1 = 1
           /\ RunOpen = NoRun /\ (focus = "Editor") = TRUE /\ saved = t
    /\ \A t : Timeline!Step(t) <=>
           /\ LineOf(undo', text', redo') =
                  Timeline!Remembered(Append(SubSeq(LineOf(undo, text, redo), 1, Len(undo) + 1), t))
           /\ Len(undo') + 1 = Len(LineOf(undo', text', redo'))
           /\ RunOpen' \in RunningKinds \cup {NoRun}
           /\ UNCHANGED <<focus = "Editor", saved>>
    /\ \A t : Timeline!Continue(t) <=>
           /\ focus = "Editor"
           /\ RunOpen \in RunningKinds
           /\ Len(undo) + 1 > 1
           /\ LineOf(undo', text', redo') =
                  Append(SubSeq(LineOf(undo, text, redo), 1, (Len(undo) + 1) - 1), t)
           /\ UNCHANGED <<Len(undo) + 1, RunOpen, focus = "Editor", saved>>
    /\ \A t : Timeline!Open(t) <=>
           /\ LineOf(undo', text', redo') = <<t>> /\ Len(undo') + 1 = 1
           /\ RunOpen' = NoRun /\ saved' = t
           /\ UNCHANGED (focus = "Editor")
    /\ Timeline!Back <=>
           /\ focus = "Editor"
           /\ Len(undo) + 1 > 1
           /\ Len(undo') + 1 = (Len(undo) + 1) - 1
           /\ RunOpen' = NoRun
           /\ UNCHANGED <<LineOf(undo, text, redo), focus = "Editor", saved>>
    /\ Timeline!Forward <=>
           /\ focus = "Editor"
           /\ Len(undo) + 1 < Len(LineOf(undo, text, redo))
           /\ Len(undo') + 1 = Len(undo) + 1 + 1
           /\ RunOpen' = NoRun
           /\ UNCHANGED <<LineOf(undo, text, redo), focus = "Editor", saved>>
<1> USE DEF LineOf, TextsOf
<1>1. Timeline!Init <=> \E t \in Texts :
           /\ LineOf(undo, text, redo) = <<t>> /\ Len(undo) + 1 = 1
           /\ RunOpen = NoRun /\ (focus = "Editor") = TRUE /\ saved = t
  BY DEF Timeline!Init
<1>2. ASSUME NEW t
      PROVE  Timeline!Step(t) <=>
           /\ LineOf(undo', text', redo') =
                  Timeline!Remembered(Append(SubSeq(LineOf(undo, text, redo), 1, Len(undo) + 1), t))
           /\ Len(undo') + 1 = Len(LineOf(undo', text', redo'))
           /\ RunOpen' \in RunningKinds \cup {NoRun}
           /\ UNCHANGED <<focus = "Editor", saved>>
  BY DEF Timeline!Step
<1>3. ASSUME NEW t
      PROVE  Timeline!Continue(t) <=>
           /\ focus = "Editor"
           /\ RunOpen \in RunningKinds
           /\ Len(undo) + 1 > 1
           /\ LineOf(undo', text', redo') =
                  Append(SubSeq(LineOf(undo, text, redo), 1, (Len(undo) + 1) - 1), t)
           /\ UNCHANGED <<Len(undo) + 1, RunOpen, focus = "Editor", saved>>
  BY DEF Timeline!Continue
<1>4. ASSUME NEW t
      PROVE  Timeline!Open(t) <=>
           /\ LineOf(undo', text', redo') = <<t>> /\ Len(undo') + 1 = 1
           /\ RunOpen' = NoRun /\ saved' = t
           /\ UNCHANGED (focus = "Editor")
  BY DEF Timeline!Open
<1>5. Timeline!Back <=>
           /\ focus = "Editor"
           /\ Len(undo) + 1 > 1
           /\ Len(undo') + 1 = (Len(undo) + 1) - 1
           /\ RunOpen' = NoRun
           /\ UNCHANGED <<LineOf(undo, text, redo), focus = "Editor", saved>>
  BY DEF Timeline!Back
<1>6. Timeline!Forward <=>
           /\ focus = "Editor"
           /\ Len(undo) + 1 < Len(LineOf(undo, text, redo))
           /\ Len(undo') + 1 = Len(undo) + 1 + 1
           /\ RunOpen' = NoRun
           /\ UNCHANGED <<LineOf(undo, text, redo), focus = "Editor", saved>>
  BY DEF Timeline!Forward
<1> QED BY <1>1, <1>2, <1>3, <1>4, <1>5, <1>6, Zenon

\* What leaves the stacks and the text alone moves at most the keys, the run
\* and what was written.
LEMMA StillOfBuffer ==
    ASSUME undo' = undo, redo' = redo, text' = text
    PROVE  /\ RunOpen' \in {RunOpen, NoRun} /\ saved' = saved => Timeline!Rest
           /\ /\ saved' = LineOf(undo, text, redo)[Len(undo) + 1]
              /\ RunOpen' = IF focus = "Editor" THEN NoRun ELSE RunOpen
              /\ focus' = focus
              => Timeline!Write
           /\ openRun' = openRun /\ saved' = saved /\ focus' = focus =>
                  UNCHANGED Timeline!timeline
<1>1. LineOf(undo, text, redo)' = LineOf(undo, text, redo) /\ (Len(undo) + 1)' = Len(undo) + 1
  BY DEF LineOf, TextsOf
<1>2. ASSUME RunOpen' \in {RunOpen, NoRun}, saved' = saved PROVE Timeline!Rest
  <2>1. (focus = "Editor")' \in BOOLEAN
    OBVIOUS
  <2> QED BY <1>1, <1>2, <2>1 DEF Timeline!Rest, LineOf
<1>3. ASSUME saved' = LineOf(undo, text, redo)[Len(undo) + 1],
             RunOpen' = IF focus = "Editor" THEN NoRun ELSE RunOpen, focus' = focus
      PROVE  Timeline!Write
  <2>1. (focus = "Editor")' = (focus = "Editor")
    BY <1>3
  <2> QED BY <1>1, <1>3, <2>1 DEF Timeline!Write, LineOf
<1>4. ASSUME openRun' = openRun, saved' = saved, focus' = focus
      PROVE  UNCHANGED Timeline!timeline
  <2>1. (focus = "Editor")' = (focus = "Editor") /\ RunOpen' = RunOpen
    BY <1>4 DEF RunOpen
  <2> QED BY <1>1, <1>4, <2>1 DEF Timeline!timeline, LineOf
<1> QED BY <1>2, <1>3, <1>4

\* An edit is a new step, or goes on with the version its run has reached.
LEMMA EditGroupLine ==
    ASSUME TypeOK, NEW run, NEW kind, NEW t \in Texts, NEW carets,
           run = kind /\ kind # "Other" =>
               /\ undo # <<>> /\ focus = "Editor"
               /\ run \in EditKind /\ openRun = run /\ openRun' = openRun,
           EditGroup(run, kind, t, carets)
    PROVE  Timeline!Step(t) \/ Timeline!Continue(t)
<1>1. /\ undo \in Seq(Snapshot) /\ redo \in Seq(Snapshot) /\ Current \in Snapshot
      /\ Current.text = text /\ Len(undo) \in Nat
      /\ undo' = Recorded(run, kind) /\ redo' = <<>> /\ text' = t
      /\ <<>> \in Seq(Snapshot) /\ Len(<<>>) = 0
      /\ focus' = focus /\ saved' = saved
  BY CurrentType, LenProperties, EmptySeq DEF TypeOK, EditGroup, Current
<1> DEFINE line == LineOf(undo, text, redo)
<1>2. CASE run = kind /\ kind # "Other"
  <2>1. undo' = undo /\ undo # <<>> /\ focus = "Editor"
    BY <1>1, <1>2 DEF Recorded
  <2>2. Append(SubSeq(line, 1, Len(undo)), t) = LineOf(undo, t, <<>>)
    BY <1>1, GrownLine
  <2>3. Len(undo) + 1 > 1 /\ (Len(undo) + 1) - 1 = Len(undo)
    BY <1>1, <2>1, EmptySeq
  <2>4. LineOf(undo', text', redo') = Append(SubSeq(line, 1, (Len(undo) + 1) - 1), t)
    BY <1>1, <2>1, <2>2, <2>3
  <2>5. RunOpen \in RunningKinds /\ RunOpen' = RunOpen
    BY <1>2 DEF RunOpen, RunningKinds
  <2>6. UNCHANGED <<Len(undo) + 1, RunOpen, focus = "Editor", saved>>
    BY <1>1, <2>1, <2>5
  <2> HIDE DEF line
  <2>7. Timeline!Continue(t)
    BY <2>1, <2>3, <2>4, <2>5, <2>6, LineOfBuffer DEF line
  <2> QED BY <2>7
<1>3. CASE ~(run = kind /\ kind # "Other")
  <2> DEFINE w == Capped(Append(undo, Current))
  <2>1. undo' = w
    BY <1>1, <1>3 DEF Recorded
  <2>2. LineOf(w, t, <<>>) =
            Timeline!Remembered(Append(SubSeq(line, 1, Len(undo) + 1), t))
    BY <1>1, StepLine
  <2>3. w \in Seq(Snapshot)
    BY <2>1, <1>1, RecordedRange
  <2> HIDE DEF w
  <2>4. IsLine(w, t, <<>>, LineOf(w, t, <<>>)) /\ Len(w) \in Nat
    BY <1>1, <2>3, LineShape, LenProperties
  <2>5. Len(LineOf(w, t, <<>>)) = Len(w) + 1
    BY <1>1, <2>4 DEF IsLine
  <2>6. RunOpen' \in RunningKinds \cup {NoRun} /\ UNCHANGED <<focus = "Editor", saved>>
    BY <1>1 DEF RunOpen
  <2>7. Timeline!Step(t)
    BY <1>1, <2>1, <2>2, <2>5, <2>6, LineOfBuffer
  <2> QED BY <2>7
<1> QED BY <1>2, <1>3

\* Undo moves back.
LEMMA UndoLine ==
    ASSUME TypeOK, Undo
    PROVE  Timeline!Back
<1>1. /\ undo \in Seq(Snapshot) /\ redo \in Seq(Snapshot) /\ Current \in Snapshot
      /\ Current.text = text /\ undo # <<>> /\ Len(undo) \in Nat \ {0}
      /\ undo' = Front(undo) /\ redo' = Append(redo, Current) /\ text' = Last(undo).text
  BY CurrentType, LenProperties, EmptySeq DEF TypeOK, Undo, Restore, Current
<1>2. LineOf(undo', text', redo') = LineOf(undo, text, redo)
  BY <1>1, BackLine
<1>3. Len(undo') = Len(undo) - 1
  BY <1>1, FrontRange
<1>4. Len(undo) + 1 > 1 /\ Len(undo') + 1 = (Len(undo) + 1) - 1
  BY <1>1, <1>3
<1>5. focus = "Editor" /\ RunOpen' = NoRun /\ focus' = focus /\ saved' = saved
  BY DEF Undo, RunOpen
<1>6. UNCHANGED <<LineOf(undo, text, redo), focus = "Editor", saved>>
  BY <1>2, <1>5 DEF LineOf, TextsOf
<1> QED BY <1>4, <1>5, <1>6, LineOfBuffer

\* Redo moves on.
LEMMA RedoLine ==
    ASSUME TypeOK, Redo
    PROVE  Timeline!Forward
<1>1. /\ undo \in Seq(Snapshot) /\ redo \in Seq(Snapshot) /\ Current \in Snapshot
      /\ Current.text = text /\ redo # <<>> /\ Len(undo) \in Nat /\ Len(redo) \in Nat \ {0}
      /\ redo' = Front(redo) /\ undo' = Append(undo, Current) /\ text' = Last(redo).text
      /\ text \in Texts
  BY CurrentType, LenProperties, EmptySeq DEF TypeOK, Redo, Restore, Current
<1>2. LineOf(undo', text', redo') = LineOf(undo, text, redo)
  BY <1>1, ForwardLine
<1>3. Len(undo') = Len(undo) + 1
  BY <1>1, AppendProperties
<1>4. IsLine(undo, text, redo, LineOf(undo, text, redo))
  BY <1>1, LineShape
<1>5. Len(undo) + 1 < Len(LineOf(undo, text, redo)) /\ Len(undo') + 1 = Len(undo) + 1 + 1
  BY <1>1, <1>3, <1>4 DEF IsLine
<1>6. focus = "Editor" /\ RunOpen' = NoRun /\ focus' = focus /\ saved' = saved
  BY DEF Redo, RunOpen
<1>7. UNCHANGED <<LineOf(undo, text, redo), focus = "Editor", saved>>
  BY <1>2, <1>6 DEF LineOf, TextsOf
<1> QED BY <1>5, <1>6, <1>7, LineOfBuffer

\* A buffer just read is a line of one version, with no run open.
LEMMA OpenedLine ==
    ASSUME NEW t \in Texts
    PROVE  /\ undo = <<>> /\ redo = <<>> /\ text = t =>
                  LineOf(undo, text, redo) = <<t>> /\ Len(undo) + 1 = 1
           /\ Loaded(t) /\ focus' = focus => Timeline!Open(t)
<1>1. LineOf(<<>>, t, <<>>) = <<t>> /\ Len(<<>>) = 0
  BY OpenLine, EmptySeq
<1>2. ASSUME Loaded(t), focus' = focus PROVE Timeline!Open(t)
  <2>1. undo' = <<>> /\ redo' = <<>> /\ text' = t /\ saved' = t /\ RunOpen' = NoRun
    BY <1>2 DEF Loaded, RunOpen
  <2>2. UNCHANGED (focus = "Editor")
    BY <1>2
  <2> QED BY <1>1, <2>1, <2>2, LineOfBuffer
<1> QED BY <1>1, <1>2

\* The version on screen is where the cursor stands.
LEMMA CursorText ==
    ASSUME TypeOK
    PROVE  LineOf(undo, text, redo)[Len(undo) + 1] = text
<1>1. /\ undo \in Seq(Snapshot) /\ redo \in Seq(Snapshot) /\ text \in Texts
      /\ Len(undo) \in Nat
  BY LenProperties DEF TypeOK
<1>2. IsLine(undo, text, redo, LineOf(undo, text, redo))
  BY <1>1, LineShape
<1> QED BY <1>1, <1>2 DEF IsLine

\* Every handler of the buffer takes a step of the line or leaves it alone.
LEMMA NextLine ==
    ASSUME TimelineInv, [Next]_vars
    PROVE  [Timeline!Next]_(Timeline!timeline)
<1> USE DEF history
<1>0. TypeOK /\ RunHasVersion
  BY DEF TimelineInv
<1>1. ASSUME NEW kind \in EditKind, Type(kind)
      PROVE  Timeline!Next
  <2>1. PICK t \in Texts, carets \in 1..MaxCarets : EditGroup(openRun, kind, t, carets)
    BY <1>1 DEF Type
  <2>2. openRun = kind =>
            /\ undo # <<>> /\ focus = "Editor"
            /\ openRun \in EditKind /\ openRun' = openRun
    BY <1>0, <1>1 DEF RunHasVersion, Type
  <2>3. Timeline!Step(t) \/ Timeline!Continue(t)
    BY <1>0, <2>1, <2>2, EditGroupLine
  <2> QED BY <2>3 DEF Timeline!Next
<1>2. CASE EditAlone \/ EditFromServer
  <2>1. PICK t \in Texts, carets \in 1..MaxCarets : EditGroup(NoRun, "Other", t, carets)
    BY <1>2 DEF EditAlone, EditFromServer
  <2>2. Timeline!Step(t) \/ Timeline!Continue(t)
    BY <1>0, <2>1, EditGroupLine
  <2> QED BY <2>2 DEF Timeline!Next
<1>3. CASE Undo
  BY <1>0, <1>3, UndoLine DEF Timeline!Next
<1>4. CASE Redo
  BY <1>0, <1>4, RedoLine DEF Timeline!Next
<1>5. CASE Reload
  <2>1. PICK t \in Texts : Loaded(t) /\ focus' = focus
    BY <1>5 DEF Reload
  <2>2. Timeline!Open(t)
    BY <2>1, OpenedLine
  <2> QED BY <2>2 DEF Timeline!Next
<1>6. CASE Boundary \/ FocusElsewhere
  <2>1. /\ undo' = undo /\ redo' = redo /\ text' = text /\ saved' = saved
        /\ openRun' \in {openRun, NoRun}
    BY <1>6 DEF Boundary, FocusElsewhere
  <2>2. RunOpen' \in {RunOpen, NoRun}
    BY <2>1 DEF RunOpen
  <2> QED BY <2>1, <2>2, StillOfBuffer DEF Timeline!Next
<1>7. CASE Save
  <2>1. /\ undo' = undo /\ redo' = redo /\ text' = text /\ saved' = text /\ focus' = focus
        /\ openRun' = IF focus = "Editor" THEN NoRun ELSE openRun
    BY <1>7 DEF Save
  <2>2. RunOpen' = IF focus = "Editor" THEN NoRun ELSE RunOpen
    BY <2>1 DEF RunOpen
  <2> QED BY <1>0, <2>1, <2>2, CursorText, StillOfBuffer DEF Timeline!Next
<1>8. CASE UNCHANGED vars
  BY <1>8, StillOfBuffer DEF vars
<1> QED BY <1>1, <1>2, <1>3, <1>4, <1>5, <1>6, <1>7, <1>8 DEF Next

\* The buffer and its two stacks implement the line of versions a user is
\* promised: undo and redo only move along it, an edit only replaces what lies
\* ahead or the version its own open run has reached, a run is over after an
\* undo, a redo, a reload or a save made with the editor focused, and only the
\* oldest version is ever forgotten.
THEOREM BufferImplementsTimeline == Spec => ImplementsTimeline
<1>1. Init => Timeline!Init
  <2> SUFFICES ASSUME Init PROVE Timeline!Init
    OBVIOUS
  <2>1. /\ LineOf(undo, text, redo) = <<text>> /\ Len(undo) + 1 = 1 /\ text \in Texts
        /\ RunOpen = NoRun /\ focus = "Editor" /\ saved = text
    BY OpenedLine DEF Init, RunOpen
  <2>2. (focus = "Editor") = TRUE
    BY <2>1
  <2> QED BY <2>1, <2>2, LineOfBuffer
<1>2. TimelineInv /\ [Next]_vars => [Timeline!Next]_(Timeline!timeline)
  BY NextLine
<1> QED
  BY <1>1, <1>2, SpecTimelineInv, PTL DEF Spec, ImplementsTimeline, Timeline!Spec
=============================================================================
