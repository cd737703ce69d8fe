---------------------------- MODULE TextQueries ----------------------------
(***************************************************************************)
(* What is asked of a text that is not edited: the partner of a bracket,   *)
(* columns on screen, positions in a server's units, line endings, the     *)
(* indent a file was written with, and the search of a whole buffer chunk  *)
(* by chunk.  Pure functions, each with what it must agree with.           *)
(***************************************************************************)
EXTENDS Text

CONSTANTS MaxLineLen,   \* bound: graphemes of a line that is queried
          MaxDepths     \* bound: lines of a file whose indent is measured

-----------------------------------------------------------------------------
(* Brackets. *)

Pairs == {<<"(", ")">>, <<"[", "]">>}
NoGrapheme == ""
CharAt(text, p) ==
    IF p.line <= LastLine(text) /\ p.col < LineLen(text, p.line)
    THEN LineOf(text, p.line)[p.col + 1] ELSE NoGrapheme

Earliest(S) == CHOOSE p \in S : \A q \in S : Upto(p, q)
Latest(S) == CHOOSE p \in S : \A q \in S : Upto(q, p)
NoPair == <<>>

\* As many of one as of the other between two positions, both included.
Balanced(text, from, to, pair) ==
    LET count(g) == Cardinality({p \in Positions(text) :
            Upto(from, p) /\ Upto(p, to) /\ CharAt(text, p) = g})
    IN  count(pair[1]) = count(pair[2])

\* Mutant: the first closing bracket, whatever was opened in between.
ScanForwardFlat(text, from, pair, maxLines) ==
    LET ends == {p \in Positions(text) :
            /\ Before(from, p)
            /\ p.line <= from.line + maxLines
            /\ CharAt(text, p) = pair[2]}
    IN  IF ends = {} THEN NoPair ELSE <<from, Earliest(ends)>>

ScanForward(text, from, pair, maxLines) ==
    LET ends == {p \in Positions(text) :
            /\ Before(from, p)
            /\ p.line <= from.line + maxLines
            /\ CharAt(text, p) = pair[2]
            /\ Balanced(text, from, p, pair)}
    IN  IF ends = {} THEN NoPair ELSE <<from, Earliest(ends)>>

ScanBackward(text, from, pair, maxLines) ==
    LET starts == {p \in Positions(text) :
            /\ Before(p, from)
            /\ p.line >= from.line - maxLines
            /\ CharAt(text, p) = pair[1]
            /\ Balanced(text, p, from, pair)}
    IN  IF starts = {} THEN NoPair ELSE <<Latest(starts), from>>

\* The pair of the bracket at one place.
PairOf(text, probe, maxLines) ==
    LET found == {ScanForward(text, probe, pair, maxLines) :
                    pair \in {x \in Pairs : x[1] = CharAt(text, probe)}}
           \cup {ScanBackward(text, probe, pair, maxLines) :
                    pair \in {x \in Pairs : x[2] = CharAt(text, probe)}}
    IN  IF found = {} THEN NoPair ELSE CHOOSE pair \in found : TRUE

\* `match_at`: at the caret, else just before it.
MatchAt(text, at, maxLines) ==
    LET here == PairOf(text, at, maxLines)
    IN  IF here # NoPair \/ at.col = 0 THEN here
        ELSE PairOf(text, At(at.line, at.col - 1), maxLines)

-----------------------------------------------------------------------------
(* Columns and cells of the screen. *)

Width(g) == CASE g = "W" -> 2 [] OTHER -> 1

Advance(col, g, tab) == IF g = "\t" THEN col + tab - (col % tab) ELSE col + Width(g)

\* Where the grapheme at `col` begins on screen.
DisplayCol(line, col, tab) ==
    FoldLeft(LAMBDA at, g : Advance(at, g, tab), 0,
             SubSeq(line, 1, Min({col, Len(line)})))

\* Mutant: the right half of a wide grapheme is taken for the next one.
GraphemeColNarrow(line, display, tab) ==
    Min({col \in 0..Len(line) :
           col = Len(line) \/ display <= DisplayCol(line, col, tab)})

\* The grapheme drawn over a column, or the end of the line.
GraphemeCol(line, display, tab) ==
    Min({col \in 0..Len(line) :
           col = Len(line) \/ display < DisplayCol(line, col + 1, tab)})

\* A view of a text: its first line and column and its size, in cells, with
\* a gutter before it.
CellOf(text, view, p) ==
    LET row == p.line - view.top
        col == DisplayCol(LineOf(text, p.line), p.col, view.tab) - view.left
    IN  IF row \in 0..view.height - 1 /\ col \in 0..view.width - 1
        THEN <<view.gutter + col, row>> ELSE <<>>

\* The position a click at a cell is at.
PositionAt(text, view, cell) ==
    LET line == Min({view.top + cell[2], LastLine(text)})
        col == Max({0, cell[1] - view.gutter}) + view.left
    IN  At(line, GraphemeCol(LineOf(text, line), col, view.tab))

-----------------------------------------------------------------------------
(* Positions in a server's units. *)

\* The code points of a grapheme: "e" is a letter and its accent.
CharsOf(g) == CASE g = "e" -> <<"a", "accent">>
                [] g = "E" -> <<"astral">>
                [] OTHER -> <<g>>

Units(char, encoding) ==
    CASE encoding = "Utf32" -> 1
      [] encoding = "Utf16" -> IF char = "astral" THEN 2 ELSE 1
      [] encoding = "Utf8" -> CASE char = "astral" -> 4
                                [] char = "W" -> 3
                                [] char = "accent" -> 2
                                [] OTHER -> 1

CharsOfLine(line) == FlattenSeq([i \in DOMAIN line |-> CharsOf(line[i])])
\* The rope: its lines, each but the last with its break.
Rope(text) ==
    FlattenSeq([i \in DOMAIN text |->
        CharsOfLine(text[i]) \o (IF i < Len(text) THEN <<"\n">> ELSE <<>>)])

\* Chars before a line, and the units of the first `n` chars of the rope.
LineToChar(text, line) ==
    Len(FlattenSeq([i \in 1..line |-> CharsOfLine(text[i])])) + line
UnitsBefore(rope, n, encoding) ==
    FoldLeft(LAMBDA sum, char : sum + Units(char, encoding), 0, SubSeq(rope, 1, n))
CharToLine(text, n) ==
    Max({line \in 0..LastLine(text) : LineToChar(text, line) <= n})

\* `char_index` and `position`: the two places where columns become chars
\* and come back.  An offset inside a grapheme is where the grapheme starts.
CharIndex(text, p) ==
    LET at == CharOffset(text, p)
    IN  LineToChar(text, at.line) + Len(CharsOfLine(SubSeq(LineOf(text, at.line), 1, at.col)))

PositionOf(text, n) ==
    LET char == Min({n, Len(Rope(text))})
        line == CharToLine(text, char)
        into == char - LineToChar(text, line)
    IN  At(line, Max({col \in 0..LineLen(text, line) :
                        Len(CharsOfLine(SubSeq(LineOf(text, line), 1, col))) <= into}))

ToLsp(encoding, text, n) ==
    LET rope == Rope(text)
        char == Min({n, Len(rope)})
        line == CharToLine(text, char)
    IN  [line |-> line,
         character |-> UnitsBefore(rope, char, encoding)
                       - UnitsBefore(rope, LineToChar(text, line), encoding)]

\* Mutant: a column past the end of its line runs on into the next one.
FromLspRunningOn(encoding, text, pos) ==
    LET rope == Rope(text)
        unit == UnitsBefore(rope, LineToChar(text, pos.line), encoding) + pos.character
    IN  IF pos.line > LastLine(text) THEN Len(rope)
        ELSE Max({n \in 0..Len(rope) : UnitsBefore(rope, n, encoding) <= unit})

\* Clamped at every step: past the file, past the line, inside a pair.
FromLsp(encoding, text, pos) ==
    LET rope == Rope(text)
        start == LineToChar(text, pos.line)
        end == start + Len(CharsOfLine(LineOf(text, pos.line)))
        unit == Min({UnitsBefore(rope, start, encoding) + pos.character,
                     UnitsBefore(rope, Len(rope), encoding)})
        found == Max({n \in 0..Len(rope) : UnitsBefore(rope, n, encoding) <= unit})
    IN  IF pos.line > LastLine(text) THEN Len(rope) ELSE Min({found, end})

-----------------------------------------------------------------------------
(* Line endings: a file is a sequence of characters here. *)

Detect(file) ==
    LET breaks == {i \in DOMAIN file : file[i] = "\n"}
    IN  IF /\ breaks # {}
           /\ Min(breaks) > 1
           /\ file[Min(breaks) - 1] = "\r"
        THEN "Crlf" ELSE "Lf"

\* What the rope is made from: each pair of a CRLF file is one break.
Loaded(file) ==
    IF Detect(file) = "Lf" THEN file
    ELSE SelectSeq([i \in DOMAIN file |->
                        IF /\ file[i] = "\r"
                           /\ i < Len(file)
                           /\ file[i + 1] = "\n"
                        THEN "dropped" ELSE file[i]],
                   LAMBDA char : char # "dropped")

TextAsSaved(loaded, ending) ==
    IF ending = "Lf" THEN loaded
    ELSE FlattenSeq([i \in DOMAIN loaded |->
                        IF loaded[i] = "\n" THEN <<"\r", "\n">> ELSE <<loaded[i]>>])

-----------------------------------------------------------------------------
(* The indent a file was written with. *)

Allowed == <<2, 4, 6, 8, 3, 5, 7>>
MaxGuess == 8

\* Columns before the first grapheme that is not a blank: Len if there is
\* none.
Indent(line) ==
    Min({i \in 0..Len(line) : i = Len(line) \/ line[i + 1] \notin {" ", "\t"}})

NoDiff == [spaces |-> 0, aligned |-> FALSE]

\* How two lines' indents differ, after the prefix they share.
SpacesDiff(a, aLen, b, bLen) ==
    LET shared == Max({i \in 0..Min({aLen, bLen}) : SubSeq(a, 1, i) = SubSeq(b, 1, i)})
        of(line, len, g) == Cardinality({i \in shared + 1..len : line[i] = g})
        aSpaces == of(a, aLen, " ")
        aTabs == of(a, aLen, "\t")
        bSpaces == of(b, bLen, " ")
        bTabs == of(b, bLen, "\t")
        spaces == IF aSpaces > bSpaces THEN aSpaces - bSpaces ELSE bSpaces - aSpaces
        tabs == IF aTabs > bTabs THEN aTabs - bTabs ELSE bTabs - aTabs
    IN  CASE (aSpaces > 0 /\ aTabs > 0) \/ (bSpaces > 0 /\ bTabs > 0) -> NoDiff
          [] tabs = 0 ->
                [spaces |-> spaces,
                 aligned |-> /\ spaces > 0
                             /\ bSpaces \in 1..Min({Len(a), Len(b) - 1})
                             /\ b[bSpaces + 1] # " "
                             /\ a[bSpaces] = " "
                             /\ Last(a) = ","]
          [] OTHER -> IF spaces % tabs = 0
                      THEN [spaces |-> spaces \div tabs, aligned |-> FALSE]
                      ELSE NoDiff

NoWidth == 0

\* Each pair of lines votes; the earliest width in order of preference wins.
DetectIndentWidth(lines) ==
    LET Vote(acc, line) ==
            LET indent == Indent(line)
                diff == SpacesDiff(acc.previous, acc.indent, line, indent)
            IN  IF indent = Len(line) \/ diff.aligned THEN acc
                ELSE [previous |-> line, indent |-> indent,
                      scores |-> IF diff.spaces <= MaxGuess
                                 THEN [acc.scores EXCEPT ![diff.spaces] = @ + 1]
                                 ELSE acc.scores]
        scores == FoldLeft(Vote, [previous |-> <<>>, indent |-> 0,
                                  scores |-> [w \in 0..MaxGuess |-> 0]], lines).scores
        best == FoldLeft(LAMBDA w, v : IF scores[v] > (IF w = NoWidth THEN 0 ELSE scores[w])
                                       THEN v ELSE w, NoWidth, Allowed)
    IN  IF best = 4 /\ scores[2] > 0 /\ scores[2] * 3 >= scores[4] * 2 THEN 2 ELSE best

-----------------------------------------------------------------------------
(* Searching a line and a buffer the fast way. *)

\* `find_in_ascii_line`: from one place the needle stands at to the next.
FindInAsciiLine(line, query) ==
    LET n == Len(query.needle)
        stands(i) == SubSeq(line, i + 1, i + n) = query.needle
        from[i \in 0..Len(line)] ==
            LET found == {k \in i..Len(line) - n : stands(k)}
            IN  IF found = {} THEN <<>>
                ELSE IF MatchesAt(line, query, Min(found))
                     THEN <<Min(found)>> \o from[Min(found) + n]
                     ELSE from[Min(found) + 1]
    IN  from[0]

\* Mutant: the end of a chunk is not carried into the next one.
CarryNothing(window, needle) == <<>>

\* What of a chunk's end is searched again with the next one.
Carry(window, needle) ==
    SubSeq(window, Max({0, Len(window) - (Len(needle) - 1)}) + 1, Len(window))

\* Lines where the needle is met in chunks that follow one another.
CandidateLines(chunks, needle) ==
    LET rope == FlattenSeq(chunks)
        LineAt(n) == Cardinality({i \in 1..n : rope[i] = "\n"})
        Scan(acc, chunk) ==
            LET window == acc.carry \o chunk
                first == acc.start - Len(acc.carry)
                met == {i \in 0..Len(window) - Len(needle) :
                          SubSeq(window, i + 1, i + Len(needle)) = needle}
            IN  [carry |-> Carry(window, needle),
                 start |-> acc.start + Len(chunk),
                 lines |-> acc.lines \cup {LineAt(first + i) : i \in met}]
    IN  FoldLeft(Scan, [carry |-> <<>>, start |-> 0, lines |-> {}], chunks).lines

\* `find_all` of a case-sensitive query: only the candidates are matched.
FindAllInCandidateLines(text, chunks, query) ==
    LET candidates == SetToSortSeq(CandidateLines(chunks, query.needle), <)
    IN  FlattenSeq([i \in DOMAIN candidates |-> HitsIn(text, candidates[i], query)])

-----------------------------------------------------------------------------
(* What the queries promise, over every small input. *)

Strings(alphabet, n) == UNION {[1..k -> alphabet] : k \in 0..n}
Encodings == {"Utf8", "Utf16", "Utf32"}

\* A place keeps its meaning when it is said in other units and read back:
\* a column as a cell (the right half of a wide grapheme is that grapheme),
\* a position as a character of the rope, a character as a server's line and
\* column; and a column past the end of a line is the end of that line, in
\* every encoding.  (grapheme.rs, buffer.rs, lib.rs `cell_of` and
\* `handle_mouse`, typ-lsp position.rs.)
AllUnitsRoundTrip ==
    /\ \A line \in Strings({"a", "W", "\t"}, MaxLineLen), tab \in {2, 3} :
          \A col \in 0..Len(line) - 1 :
             \A cell \in DisplayCol(line, col, tab)..DisplayCol(line, col + 1, tab) - 1 :
                /\ GraphemeCol(line, cell, tab) = col
                /\ \A left \in 0..2 :
                      LET view == [top |-> 0, left |-> left, width |-> 3, height |-> 1,
                                   gutter |-> 2, tab |-> tab]
                          at == CellOf(<<line>>, view, At(0, col))
                      IN  at # <<>> => PositionAt(<<line>>, view, at) = At(0, col)
    /\ \A one, two \in Strings({"a", "e", "E", "W"}, MaxLineLen - 1) :
          LET text == <<one, two>>
              rope == Rope(text)
          IN  /\ \A p \in Positions(text) : PositionOf(text, CharIndex(text, p)) = p
              /\ \A encoding \in Encodings :
                    /\ \A n \in 0..Len(rope) :
                          FromLsp(encoding, text, ToLsp(encoding, text, n)) = n
                    /\ \A line \in 0..1 :
                          FromLsp(encoding, text, [line |-> line, character |-> 99])
                              = CharIndex(text, EndOf(text, line))

\* A file all of whose breaks are alike.
Unmixed(file) ==
    Detect(file) = "Lf" \/ \A i \in DOMAIN file : file[i] = "\n" => i > 1 /\ file[i - 1] = "\r"

\* Up to one level deeper from a line to the next, out by any number.
Depths == {d \in Strings(0..2, MaxDepths) :
              /\ \E i \in DOMAIN d : d[i] > 0
              /\ \A i \in DOMAIN d : d[i] <= (IF i = 1 THEN 0 ELSE d[i - 1]) + 1}

\* The two ways to the same answer agree: the scan of bytes and the scan of
\* graphemes, the search chunk by chunk wherever the rope is cut and the one
\* line by line, a bracket's partner and the partner's partner.  A file of
\* one line ending is saved as it was read, and a file indented by one width
\* is found to be.  (search.rs, brackets.rs, line_ending.rs, indent.rs.)
AllQueriesAgree ==
    /\ \A needle \in Strings({"a", "b"}, 2) \ {<<>>}, whole \in BOOLEAN :
          LET query == Query(needle, TRUE, whole)
          IN  /\ \A line \in Strings({"a", "b", " "}, MaxLineLen + 1) :
                    FindInAsciiLine(line, query) = FindInLine(line, query)
              /\ \A one, two \in Strings({"a", "b"}, MaxLineLen - 1) :
                    LET rope == Append(one, "\n") \o two
                    IN  \A i, j \in 0..Len(rope) : i <= j =>
                           FindAllInCandidateLines(<<one, two>>,
                               <<SubSeq(rope, 1, i), SubSeq(rope, i + 1, j),
                                 SubSeq(rope, j + 1, Len(rope))>>, query)
                             = FindAll(<<one, two>>, query)
    /\ \A one, two \in Strings({"(", ")", "["}, MaxLineLen - 1) :
          \A p \in Positions(<<one, two>>) :
             LET pair == PairOf(<<one, two>>, p, 9)
             IN  pair # NoPair => /\ p \in ToSet(pair)
                                  /\ \A q \in ToSet(pair) : PairOf(<<one, two>>, q, 9) = pair
    /\ \A file \in Strings({"a", "\r", "\n"}, MaxLineLen + 1) :
          Unmixed(file) => TextAsSaved(Loaded(file), Detect(file)) = file
    /\ \A depths \in Depths, width \in ToSet(Allowed) :
          DetectIndentWidth([i \in DOMAIN depths |->
              Append([k \in 1..width * depths[i] |-> " "], "a")]) = width
=============================================================================
