----------------------------- MODULE Keybindings -----------------------------
(***************************************************************************)
(* The keybindings tab (`keybindings/`), the keymap the editor runs        *)
(* (`app/live.rs`) and the menu a prefix puts up (`app/door.rs`).          *)
(*                                                                         *)
(* A change goes to keys.toml one row at a time, is read back, and only    *)
(* then becomes the tab's keymap and the editor's.  The file belongs to    *)
(* the user as well, who may edit it meanwhile.  The search row's query    *)
(* only narrows which rows can be selected and is left out.                *)
(***************************************************************************)
EXTENDS Keymap

CONSTANTS KeyFiles,   \* what keys.toml may be at the start
          KeyEdits,   \* what others may make of it
          MaxKeySteps \* changes that can be undone, edits by others, openings of
                      \* the tab and files not put back

VARIABLES keysFile,   \* keys.toml
          keys,       \* KeysView
          appKeymap,  \* App::keymap
          door,       \* App::menu: the prefix pressed and the rows under it
          keysPast    \* history: events so far, whether others have edited the file
                      \* since the tab read it, whether one was not put back

keyVars == <<keysFile, keys, appKeymap, door, keysPast>>

NoChord == NotAKey
NoRow == [chord |-> NoChord, action |-> "none"]
Row(chord, action) == [chord |-> chord, action |-> action]

NotRecording == [on |-> FALSE, row |-> NoRow, steps |-> <<>>, waiting |-> FALSE]

\* The chord pressed, once it is whole.
Recorded(recording) == IF recording.waiting THEN NoChord ELSE recording.steps

NoMenu == [prefix |-> NoChord, rows |-> {}]

\* reload: what the file now says.
Reloaded(view, file) == [view EXCEPT !.keymap = LoadKeymap(file), !.user = UserChords(file)]

Opened(file) == [keymap |-> LoadKeymap(file), user |-> UserChords(file),
                 selected |-> NoRow, recording |-> NotRecording, undo |-> <<>>]

KeysInit == /\ keysFile \in KeyFiles
            /\ keys = Opened(keysFile)
            /\ appKeymap = LoadKeymap(keysFile)
            /\ door = NoMenu
            /\ keysPast = [events |-> 0, touched |-> FALSE, stranded |-> FALSE]

-----------------------------------------------------------------------------
(* Selecting and recording.  The float is modal, and so is the menu. *)

\* A row for every chord, and one for an action that has none.
Rows(keymap) == {Row(c, keymap[c]) : c \in DOMAIN keymap}
                \cup {Row(NoChord, a) : a \in {b \in Actions : BindingsFor(keymap, b) = {}}}

Free == ~keys.recording.on /\ door = NoMenu

SelectRow == \E row \in Rows(keys.keymap) \cup {NoRow} :
    /\ Free /\ row # keys.selected
    /\ keys' = [keys EXCEPT !.selected = row]
    /\ UNCHANGED <<keysFile, appKeymap, door, keysPast>>

\* A key of the drawn keyboard: what is selected is what it runs.
PickKey == \E chord \in {<<"x">>, <<"k", "x">>, <<"k", "k">>} :
    /\ Free
    /\ keys' = [keys EXCEPT !.selected =
                    IF chord \in DOMAIN keys.keymap THEN Row(chord, keys.keymap[chord]) ELSE NoRow]
    /\ UNCHANGED <<keysFile, appKeymap, door, keysPast>>

Record == /\ Free /\ keys.selected # NoRow
          /\ keys' = [keys EXCEPT !.recording = [on |-> TRUE, row |-> keys.selected,
                                                 steps |-> <<>>, waiting |-> FALSE]]
          /\ UNCHANGED <<keysFile, appKeymap, door, keysPast>>

RecordingKey == \E step \in Steps :
    /\ keys.recording.on /\ door = NoMenu
    /\ keys' = [keys EXCEPT !.recording =
                   IF @.waiting THEN [@ EXCEPT !.steps = Append(@, step), !.waiting = FALSE]
                   ELSE [@ EXCEPT !.steps = <<step>>,
                                  !.waiting = Resolve(keys.keymap, <<>>, step) = Pending]]
    /\ UNCHANGED <<keysFile, appKeymap, door, keysPast>>

CancelRecording == /\ keys.recording.on /\ door = NoMenu
                   /\ keys' = [keys EXCEPT !.recording = NotRecording]
                   /\ UNCHANGED <<keysFile, appKeymap, door, keysPast>>

-----------------------------------------------------------------------------
(* Changes.  A disk that fails does so at the write numbered `fails`, and  *)
(* may fail again when the file is put back.                               *)

MoreKeySteps == Len(keys.undo) + keysPast.events < MaxKeySteps

KeyWrite(chord, value) == [chord |-> chord, value |-> value]

\* The tab and the editor take the file as it now is.
KeysTaken(file, view, touched) ==
    /\ keysFile' = file
    /\ keys' = Reloaded(view, file)
    /\ appKeymap' = LoadKeymap(file)
    /\ keysPast' = [keysPast EXCEPT !.touched = touched, !.stranded = FALSE]

\* Mutant: what was written before a failure stays.
WriteKeysKeepingHalf(writes, select, view) ==
    \E fails \in 0..Len(writes) :
        LET written == WriteBindings(keysFile, writes, fails)
        IN  IF written.done /\ Merges(written.file)
            THEN KeysTaken(written.file,
                           [view EXCEPT !.undo = Append(@, Remembered(keysFile)), !.selected = select],
                           FALSE)
            ELSE /\ keysFile' = written.file
                 /\ keys' = view
                 /\ UNCHANGED <<appKeymap, keysPast>>

\* write: the rows in turn, then a look at whether the whole still loads;
\* what would not is put back as it was remembered.
WriteKeys(writes, select, view) ==
    \E fails \in 0..Len(writes), restored \in {TRUE, ~MoreKeySteps} :
        LET written == WriteBindings(keysFile, writes, fails)
            before == Remembered(keysFile)
        IN  IF written.done /\ Merges(written.file)
            THEN KeysTaken(written.file,
                           [view EXCEPT !.undo = Append(@, before), !.selected = select], FALSE)
            ELSE /\ keysFile' = IF restored THEN before ELSE written.file
                 /\ keys' = view
                 /\ keysPast' = [keysPast EXCEPT !.events = IF restored THEN @ ELSE @ + 1,
                                                 !.stranded = @ \/ keysFile' # before]
                 /\ UNCHANGED appKeymap

\* An empty row over a default; no row where only the file bound the chord.
Unbinding(chord) == IF chord \in DOMAIN Defaults THEN Unbound ELSE Nothing

\* Back on a default, the row comes out rather than restating it.
Setting(chord, action) ==
    IF chord \in DOMAIN Defaults /\ Defaults[chord] = action THEN Nothing ELSE action

Replace ==
    LET new == Recorded(keys.recording)
        row == keys.recording.row
        done == [keys EXCEPT !.recording = NotRecording]
    IN  /\ keys.recording.on /\ new # NoChord /\ door = NoMenu
        /\ MoreKeySteps
        /\ UNCHANGED door
        /\ IF new = row.chord
           THEN keys' = done /\ UNCHANGED <<keysFile, appKeymap, keysPast>>
           ELSE WriteKeys(<<KeyWrite(new, Setting(new, row.action))>>
                          \o (IF row.chord = NoChord THEN <<>>
                              ELSE <<KeyWrite(row.chord, Unbinding(row.chord))>>),
                          Row(new, row.action), done)

Unbind == /\ Free /\ keys.selected.chord # NoChord
          /\ MoreKeySteps
          /\ WriteKeys(<<KeyWrite(keys.selected.chord, Unbinding(keys.selected.chord))>>,
                       Row(NoChord, keys.selected.action), keys)
          /\ UNCHANGED door

\* Mutant: only the chords it has now, not the ones taken from it.
RowsItHas(view, action) == {c \in view.user : c \in BindingsFor(view.keymap, action)}

\* The file's rows that give the action a chord or take one of its own.
RowsOf(view, action) ==
    {c \in view.user : c \in BindingsFor(view.keymap, action) \cup BindingsFor(Defaults, action)}

\* The chord first in a table.
FirstOf(chords) == IF chords = {} THEN NoChord
                   ELSE CHOOSE c \in chords : \A d \in chords : ~Below(Bytes(d), Bytes(c))

Reset ==
    LET action == keys.selected.action
        mine == RowsOf(keys, action)
    IN  /\ Free /\ keys.selected # NoRow
        /\ mine # {}
        /\ MoreKeySteps
        /\ WriteKeys(SetToSeq({KeyWrite(c, Nothing) : c \in mine}),
                     Row(FirstOf(BindingsFor(Defaults, action)), action), keys)
        /\ UNCHANGED door

\* The text before the last change, whatever the file has become since.  The
\* row selected stays.
UndoKeys ==
    /\ Free /\ keys.undo # <<>>
    /\ KeysTaken(Last(keys.undo), [keys EXCEPT !.undo = Front(@)], FALSE)
    /\ UNCHANGED door

-----------------------------------------------------------------------------
(* The editor's keys. *)

\* A step as the keymap has it, unless the float takes it; the menu owns the
\* key after a prefix, and whatever that key is the menu goes.
Press == \E step \in Steps :
    /\ ~keys.recording.on
    /\ door' = IF door = NoMenu /\ Resolve(appKeymap, <<>>, step) = Pending
               THEN [prefix |-> <<step>>, rows |-> Under(appKeymap, <<step>>)] ELSE NoMenu
    /\ UNCHANGED <<keysFile, keys, appKeymap, keysPast>>

-----------------------------------------------------------------------------
(* The user and the outside. *)

EditKeysFile == \E file \in KeyEdits :
    /\ MoreKeySteps
    /\ keysFile' = file
    /\ keysPast' = [keysPast EXCEPT !.events = @ + 1, !.touched = TRUE]
    /\ UNCHANGED <<keys, appKeymap, door>>

\* The tab closed and opened: the editor's keymap stays what it was.
ReopenKeys == /\ door = NoMenu /\ MoreKeySteps
              /\ keys' = Opened(keysFile)
              /\ keysPast' = [keysPast EXCEPT !.events = @ + 1]
              /\ UNCHANGED <<keysFile, appKeymap, door>>

KeysNext == \/ SelectRow \/ PickKey \/ Record \/ RecordingKey \/ CancelRecording
            \/ Replace \/ Unbind \/ Reset \/ UndoKeys
            \/ Press \/ EditKeysFile \/ ReopenKeys

-----------------------------------------------------------------------------
(* Properties. *)

\* Pressing the steps of a bound chord runs what it is bound to: no chord is
\* shadowed, and the menu of a prefix lists its chords and no other.
Reachable(keymap) == \A chord \in DOMAIN keymap :
    IF Len(chord) = 1 THEN Resolve(keymap, <<>>, chord[1]) = Matched(keymap[chord])
    ELSE /\ Resolve(keymap, <<>>, chord[1]) = Pending
         /\ Under(keymap, <<chord[1]>>) = {c \in DOMAIN keymap : Len(c) = 2 /\ c[1] = chord[1]}
         /\ Resolve(keymap, <<chord[1]>>, chord[2]) = Matched(keymap[chord])

KeysInForce ==
    /\ Reachable(appKeymap)
    /\ door # NoMenu => door.rows # {} /\ door.rows \subseteq DOMAIN appKeymap
    /\ ~keysPast.touched /\ ~keysPast.stranded =>
          /\ appKeymap = LoadKeymap(keysFile)
          /\ keys.keymap = appKeymap
          /\ keys.user = UserChords(keysFile)

\* What the two tables say of every chord but these is the same.
SameBut(keymap, after, chords) == \A c \in (DOMAIN keymap \cup DOMAIN after) \ chords :
    c \in DOMAIN keymap /\ c \in DOMAIN after /\ keymap[c] = after[c]

\* Nobody but the tab has changed the file, which loads and spells each chord
\* once.
Plain == /\ ~keysPast.touched /\ ~keysPast.stranded /\ Merges(keysFile)
         /\ \A key \in Keys(keysFile) : CanonicalSequence(key) = key

\* A change the tab made, and one it gave up.
Made == Len(keys'.undo) = Len(keys.undo) + 1
GivenUp == ~Made /\ ~keysPast'.stranded

ReplaceIsExact ==
    LET new == Recorded(keys.recording)
        row == keys.recording.row
    IN  Replace /\ Plain /\ Made /\ CanonicalSequence(new) = new =>
            /\ SameBut(keys.keymap, keys'.keymap, {new, row.chord})
            /\ new \in DOMAIN keys'.keymap /\ keys'.keymap[new] = row.action
            /\ row.chord \notin DOMAIN keys'.keymap

UnbindIsExact ==
    Unbind /\ Plain /\ Made =>
        /\ SameBut(keys.keymap, keys'.keymap, {keys.selected.chord})
        /\ keys.selected.chord \notin DOMAIN keys'.keymap

ResetIsExact ==
    LET action == keys.selected.action
        touches == BindingsFor(Defaults, action) \cup BindingsFor(keys.keymap, action)
    IN  Reset /\ Plain /\ Made =>
            /\ BindingsFor(keys'.keymap, action) = BindingsFor(Defaults, action)
            /\ SameBut(keys.keymap, keys'.keymap, touches)

\* The user's comments outlive every change, but for one after the value of a
\* row that goes; and a change that is given up leaves the file; a file that
\* could not be read is not one of those.
KeysFileIsKept ==
    Replace \/ Unbind \/ Reset =>
        /\ NotesOutlive(keysFile, keysFile')
        /\ GivenUp /\ keysFile.is # "unreadable" => keysFile' = keysFile

KeyChangesAreExact == ReplaceIsExact /\ UnbindIsExact /\ ResetIsExact /\ KeysFileIsKept
=============================================================================
