----------------------------- MODULE ConfigFile -----------------------------
(***************************************************************************)
(* `keys.toml` and `config.toml` as the editor reads and writes them       *)
(* (`config/write.rs`, `config.rs`).                                       *)
(*                                                                         *)
(* A file is absent, or cannot be read as text (no permission, UTF-16), or *)
(* does not parse, or is a table.  That is its lines in order and the      *)
(* comments after the last.  A line is a key, its value, the comments      *)
(* above it and those after the value; or it is the `[[language]]` tables, *)
(* which come last, and of which all comments count as above.  A write     *)
(* replaces the file whole or fails and leaves it.                         *)
(***************************************************************************)
EXTENDS Integers, Sequences, SequencesExt, FiniteSetsExt, Functions

Absent == [is |-> "absent", lines |-> <<>>, trailing |-> {}]
Unreadable == [is |-> "unreadable", lines |-> <<>>, trailing |-> {}]
Broken == [is |-> "broken", lines |-> <<>>, trailing |-> {}]
Table(lines, trailing) == [is |-> "table", lines |-> lines, trailing |-> trailing]
Line(key, value, above, beside) ==
    [key |-> key, value |-> value, above |-> above, beside |-> beside, is |-> "value"]
Section(key, value, inside) ==
    [key |-> key, value |-> value, above |-> inside, beside |-> {}, is |-> "table"]

Parses(file) == file.is \notin {"unreadable", "broken"}
Keys(file) == {line.key : line \in Range(file.lines)}
Notes(file) == file.trailing \cup UNION {line.above \cup line.beside : line \in Range(file.lines)}

\* TOML takes a key once.
IsFile(file) == \A i, j \in DOMAIN file.lines : file.lines[i].key = file.lines[j].key => i = j

At(file, key) == CHOOSE i \in DOMAIN file.lines : file.lines[i].key = key

\* No value: the key is to be left out.
Nothing == "nothing"

\* Mutant: the comments above go with the key.
RemovePlainly(file, key) ==
    IF key \notin Keys(file) THEN file
    ELSE [file EXCEPT !.lines = RemoveAt(@, At(file, key))]

\* The comments above a key go to the key that takes its place, or to the
\* end if there is none or a table.  A table's are not its key's.
RemoveKeepingComments(file, key) ==
    IF key \notin Keys(file) THEN file
    ELSE LET at == At(file, key)
             rest == RemoveAt(file.lines, at)
             notes == IF file.lines[at].is = "table" THEN {} ELSE file.lines[at].above
         IN  IF at \in DOMAIN rest /\ rest[at].is = "value"
             THEN [file EXCEPT !.lines = [rest EXCEPT ![at].above = @ \cup notes]]
             ELSE [file EXCEPT !.lines = rest, !.trailing = @ \cup notes]

\* The file with `key` set, which creates it, or taken out, which does too.
\* A value replaced leaves the comments; a new key goes in above the tables.
Written(file, key, value) ==
    LET table == [file EXCEPT !.is = "table"]
    IN  CASE value = Nothing -> RemoveKeepingComments(table, key)
          [] value # Nothing /\ key \in Keys(file) ->
                [table EXCEPT !.lines = [@ EXCEPT ![At(file, key)].value = value]]
          [] OTHER ->
                LET Is(form) == SelectSeq(file.lines, LAMBDA line : line.is = form)
                IN  [table EXCEPT !.lines =
                        Append(Is("value"), Line(key, value, {}, {})) \o Is("table")]

\* The file a tab puts back to undo a change it is about to make: what it
\* could read, and no file if it could read none.
Remembered(file) == IF file.is = "unreadable" THEN Absent ELSE file

-----------------------------------------------------------------------------
\* The comments that go with a line that is taken out: after its value, and
\* all there are of a table.
Inside(line) == line.beside \cup (IF line.is = "table" THEN line.above ELSE {})

\* Nothing else the user wrote is gone from a file, and nothing is added.
NotesOutlive(file, after) ==
    LET out == {line \in Range(file.lines) : line.key \notin Keys(after)}
    IN  Notes(after) = Notes(file) \ UNION {Inside(line) : line \in out}
=============================================================================
