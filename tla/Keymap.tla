------------------------------- MODULE Keymap -------------------------------
(***************************************************************************)
(* Which keys mean what (`typ-core` keymap.rs, key.rs; `config/keys.rs`).  *)
(*                                                                         *)
(* A chord is a sequence of one or two steps; a step is one key with its   *)
(* modifiers in their fixed order, and is spelled as the bytes the table   *)
(* sorts by.  A keymap is a function from chords to actions.               *)
(***************************************************************************)
EXTENDS ConfigFile

CONSTANTS Actions,
          Defaults     \* the shipped table: a function from chords to actions

\* The prefix, a letter, the space key and a key no config file can name.
Steps == {"k", "x", " ", "odd"}
Spelling(step) == CASE step = "k" -> <<107>> [] step = "x" -> <<120>>
                    [] step = " " -> <<32>> [] OTHER -> <<111, 100, 100>>

Space == 32
Bang == 33      \* the byte after the space
Bytes(chord) == IF Len(chord) = 1 THEN Spelling(chord[1])
                ELSE Spelling(chord[1]) \o <<Space>> \o Spelling(chord[2])

\* The order of strings.
Below(s, t) == \/ IsStrictPrefix(s, t)
               \/ \E i \in DOMAIN s \cap DOMAIN t :
                     s[i] < t[i] /\ \A j \in 1..i - 1 : s[j] = t[j]

NotAKey == <<>>

\* A chord as a file spells it, split at spaces: the space key is itself only
\* alone.
CanonicalSequence(spelled) ==
    LET steps == SelectSeq(spelled, LAMBDA step : step # " ")
    IN  IF steps = <<>> THEN <<" ">>
        ELSE IF "odd" \in Range(steps) THEN NotAKey ELSE steps

-----------------------------------------------------------------------------
(* resolve, under. *)

Sorted(keymap) == SetToSortSeq(DOMAIN keymap, LAMBDA c, d : Below(Bytes(c), Bytes(d)))

\* The rows under a prefix: those from it and a space to it and the byte after.
Under(keymap, prefix) ==
    LET first == Bytes(prefix) \o <<Space>>
        end == Bytes(prefix) \o <<Bang>>
    IN  {c \in DOMAIN keymap : ~Below(Bytes(c), first) /\ Below(Bytes(c), end)}

\* Whether the next chord of the table starts with this one and a space.
StartsASequence(keymap, chord) ==
    LET later == SelectSeq(Sorted(keymap), LAMBDA c : Below(Bytes(chord), Bytes(c)))
    IN  /\ later # <<>>
        /\ IsPrefix(Bytes(chord) \o <<Space>>, Bytes(later[1]))

Matched(action) == [is |-> "Matched", action |-> action]
Pending == [is |-> "Pending", action |-> "none"]
NotFound == [is |-> "NotFound", action |-> "none"]

Resolve(keymap, prefix, step) ==
    CASE Append(prefix, step) \in DOMAIN keymap -> Matched(keymap[Append(prefix, step)])
      [] Append(prefix, step) \notin DOMAIN keymap /\ prefix = <<>>
         /\ StartsASequence(keymap, <<step>>) -> Pending
      [] OTHER -> NotFound

BindingsFor(keymap, action) == {c \in DOMAIN keymap : keymap[c] = action}

-----------------------------------------------------------------------------
(* merge_toml: all of the file, or none of it. *)

Unbound == "unbound"     \* an empty action in the file

\* A chord bound on its own that also starts a sequence.
PrefixClash(keymap) == \E c, d \in DOMAIN keymap : Len(c) = 1 /\ Len(d) = 2 /\ d[1] = c[1]

\* Lines of two spellings of one chord are taken in the order of the
\* spellings, so the last of them is the one that counts.
LineFor(file, chord) ==
    LET of == {line \in Range(file.lines) : CanonicalSequence(line.key) = chord}
    IN  CHOOSE line \in of : \A l \in of : ~Below(Bytes(line.key), Bytes(l.key))

Chords(file) == {CanonicalSequence(key) : key \in Keys(file)}

Merged(file) ==
    LET bound == {c \in Chords(file) : LineFor(file, c).value # Unbound}
        freed == Chords(file) \ bound
    IN  [c \in (DOMAIN Defaults \ freed) \cup bound |->
            IF c \in bound THEN LineFor(file, c).value ELSE Defaults[c]]

\* Mutant: a chord may be bound and start sequences.
MergesClashing(file) ==
    /\ Parses(file)
    /\ \A line \in Range(file.lines) : CanonicalSequence(line.key) # NotAKey
                                       /\ line.value \in Actions \cup {Unbound}

Merges(file) ==
    /\ Parses(file)
    /\ \A line \in Range(file.lines) : CanonicalSequence(line.key) # NotAKey
                                       /\ line.value \in Actions \cup {Unbound}
    /\ ~PrefixClash(Merged(file))

LoadKeymap(file) == IF Merges(file) THEN Merged(file) ELSE Defaults

\* The chords the file names, if it parses at all.
UserChords(file) == Chords(file) \ {NotAKey}

\* The row `chord` is written to: the first that means it, or a new one.
RowFor(file, chord) ==
    LET means(i) == CanonicalSequence(file.lines[i].key) = chord
    IN  IF \E i \in DOMAIN file.lines : means(i)
        THEN file.lines[Min({i \in DOMAIN file.lines : means(i)})].key
        ELSE chord

\* What is left of writes in turn, each `[chord, value]`: the file, and whether
\* all of them were made.  The first is refused if the file does not parse,
\* and the one numbered `fails` if the disk does not take it.
WriteBindings(file, writes, fails) ==
    LET made == IF ~Parses(file) THEN 0 ELSE IF fails = 0 THEN Len(writes) ELSE fails - 1
    IN  [file |-> FoldLeft(LAMBDA f, w : Written(f, RowFor(f, w.chord), w.value),
                           file, SubSeq(writes, 1, made)),
         done |-> made = Len(writes)]
=============================================================================
