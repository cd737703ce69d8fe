-------------------------------- MODULE Text --------------------------------
(***************************************************************************)
(* Texts, positions and selections: the pure half of `typ-buffer`.         *)
(*                                                                         *)
(* A text is a sequence of at least one line, a line a sequence of         *)
(* graphemes (the strings of `Width` and `Class`; the line break is not    *)
(* one of them).  Lines and columns count from zero, as in the code, and a *)
(* column counts graphemes.  A selection is two positions; a caret is a    *)
(* selection of no text.                                                   *)
(***************************************************************************)
EXTENDS Integers, Sequences, SequencesExt, FiniteSetsExt

At(line, col) == [line |-> line, col |-> col]
\* A line past the end reads as empty, as `with_line_str` has it.
LineOf(text, line) == IF line < Len(text) THEN text[line + 1] ELSE <<>>
LastLine(text) == Len(text) - 1
LineLen(text, line) == Len(LineOf(text, line))
EndOf(text, line) == At(line, LineLen(text, line))
Positions(text) ==
    UNION {{At(line, col) : col \in 0..LineLen(text, line)} :
           line \in 0..LastLine(text)}

Before(p, q) == p.line < q.line \/ (p.line = q.line /\ p.col < q.col)
Upto(p, q) == p = q \/ Before(p, q)
Earlier(p, q) == IF Before(q, p) THEN q ELSE p
Later(p, q) == IF Before(p, q) THEN q ELSE p

-----------------------------------------------------------------------------
(* Replacing text. *)

\* Where `char_offset` puts a position: each coordinate clamped by itself.
CharOffset(text, p) ==
    LET line == Min({p.line, LastLine(text)})
    IN  At(line, Min({p.col, LineLen(text, line)}))

\* What stands between two positions, itself a text.
TextInRange(text, start, end) ==
    LET from == CharOffset(text, start)
        to == CharOffset(text, end)
    IN  CASE Upto(to, from) -> <<<<>>>>
          [] from.line = to.line ->
                <<SubSeq(LineOf(text, from.line), from.col + 1, to.col)>>
          [] OTHER ->
                <<SubSeq(LineOf(text, from.line), from.col + 1, LineLen(text, from.line))>>
                \o SubSeq(text, from.line + 2, to.line)
                \o <<SubSeq(LineOf(text, to.line), 1, to.col)>>

\* One text after another: the last line of the first and the first of the
\* second are one line.
Joined(a, b) == Front(a) \o <<Last(a) \o Head(b)>> \o Tail(b)

ReplaceRange(text, start, end, new) ==
    LET from == CharOffset(text, start)
        to == CharOffset(text, end)
        before == TextInRange(text, At(0, 0), from)
        after == TextInRange(text, to, EndOf(text, LastLine(text)))
    IN  IF Before(to, from) THEN text ELSE Joined(Joined(before, new), after)

\* Where the end of `new` is once it stands at `start`.
PositionAfter(start, new) ==
    IF Len(new) = 1 THEN At(start.line, start.col + Len(new[1]))
    ELSE At(start.line + Len(new) - 1, Len(Last(new)))

-----------------------------------------------------------------------------
(* Where positions go when the text before them changes. *)

NoShift == [lines |-> 0, cols |-> 0, colLine |-> -1]

\* A span is an edit that ran: where it began, ended, and ends now.
Span(start, oldEnd, newEnd) ==
    [start |-> start, oldEnd |-> oldEnd, newEnd |-> newEnd]

\* `Shift::apply`: a position of the text before the batch, now.
Shifted(shift, p) ==
    At(Max({0, p.line + shift.lines}),
       IF shift.colLine = p.line THEN Max({0, p.col + shift.cols}) ELSE p.col)

\* Mutant: the column shift of an earlier line is carried to the next one.
RecordCarrying(shift, origEndLine, span) ==
    [lines |-> shift.lines + span.newEnd.line - span.oldEnd.line,
     cols |-> shift.cols + span.newEnd.col - span.oldEnd.col,
     colLine |-> origEndLine]

\* `Shift::record`.
RecordShift(shift, origEndLine, span) ==
    LET delta == span.newEnd.col - span.oldEnd.col
    IN  [lines |-> shift.lines + span.newEnd.line - span.oldEnd.line,
         cols |-> IF shift.colLine = origEndLine THEN shift.cols + delta ELSE delta,
         colLine |-> origEndLine]

ShiftOne(p, span) ==
    CASE Before(p, span.start) -> p
      [] Upto(p, span.oldEnd) -> span.start
      [] OTHER -> At(Max({0, p.line + span.newEnd.line - span.oldEnd.line}),
                     IF p.line = span.oldEnd.line
                     THEN Max({0, p.col + span.newEnd.col - span.oldEnd.col})
                     ELSE p.col)

\* A position moved through edits in the order they ran.
ShiftThrough(p, spans) == FoldLeft(ShiftOne, p, spans)

-----------------------------------------------------------------------------
(* Selections: never empty, in document order, never overlapping. *)

Selection(anchor, head) == [anchor |-> anchor, head |-> head]
Caret(p) == Selection(p, p)
IsCaret(s) == s.anchor = s.head
Start(s) == Earlier(s.anchor, s.head)
End(s) == Later(s.anchor, s.head)

\* Mutant: a caret at the start of a selection stays a second cursor.
OverlapsStrictly(a, b) == Before(Start(b), End(a))

\* Of two selections in document order: they share text, or the first is a
\* caret where the second starts (or where it is).
Overlaps(a, b) ==
    \/ Before(Start(b), End(a))
    \/ IsCaret(a) /\ End(a) = Start(b)

Covers(outer, inner) ==
    Upto(Start(outer), Start(inner)) /\ Upto(End(inner), End(outer))

Backwards(s) == Before(s.head, s.anchor)

\* The smallest selection covering both, backwards only if both are.
Union(a, b) ==
    LET start == Earlier(Start(a), Start(b))
        end == Later(End(a), End(b))
    IN  IF Backwards(a) /\ Backwards(b) THEN Selection(end, start)
        ELSE Selection(start, end)

ByRange(a, b) ==
    \/ Before(Start(a), Start(b))
    \/ Start(a) = Start(b) /\ Before(End(a), End(b))

\* A set of selections and the one the user is steering.
Single(s) == [list |-> <<s>>, primary |-> 1]
Primary(sels) == sels.list[sels.primary]
Cursor(sels) == Primary(sels).head

Normalize(sels) ==
    LET Take(merged, s) ==
            IF merged # <<>> /\ Overlaps(Last(merged), s)
            THEN Append(Front(merged), Union(Last(merged), s))
            ELSE Append(merged, s)
        list == FoldLeft(Take, <<>>, SortSeq(sels.list, ByRange))
        holds == {i \in DOMAIN list : Covers(list[i], Primary(sels))}
    IN  [list |-> list, primary |-> IF holds = {} THEN 1 ELSE Min(holds)]

Push(sels, s) ==
    Normalize([list |-> Append(sels.list, s), primary |-> Len(sels.list) + 1])

Extend(sels, more) ==
    Normalize([list |-> sels.list \o more,
               primary |-> IF more = <<>> THEN sels.primary
                           ELSE Len(sels.list) + Len(more)])

\* Every selection rewritten, one by one and in order.
MapInPlace(sels, F(_)) ==
    Normalize([sels EXCEPT !.list = [i \in DOMAIN @ |-> F(@[i])]])

\* How many there are before the first that Test fails: `partition_point`.
PartitionPoint(list, Test(_)) ==
    Min({i \in 0..Len(list) : i = Len(list) \/ ~Test(list[i + 1])})

TouchingLine(sels, line) ==
    LET from == PartitionPoint(sels.list, LAMBDA s : End(s).line < line)
        to == PartitionPoint(sels.list, LAMBDA s : Start(s).line <= line)
    IN  SubSeq(sels.list, from + 1, to)

-----------------------------------------------------------------------------
(* Words and search, on one line. *)

Class(g) ==
    CASE g \in {" ", "\t"} -> "Whitespace"
      [] g \in {"a", "A", "b", "W", "e"} -> "Word"
      [] OTHER -> "Punctuation"

IsWord(g) == Class(g) = "Word"

\* The end of the run of one class that starts at `col`.
RunEnd(line, col) ==
    Min({i \in col..Len(line) :
           i = Len(line) \/ Class(line[i + 1]) # Class(line[col + 1])})

\* The start of the run of one class that ends at `col`.
RunStart(line, col) ==
    Max({i \in 0..col : i = 0 \/ Class(line[i]) # Class(line[col])})

NextWordBoundary(line, col) ==
    LET i == Min({k \in Min({col, Len(line)})..Len(line) :
                    k = Len(line) \/ Class(line[k + 1]) # "Whitespace"})
    IN  IF i = Len(line) THEN i ELSE RunEnd(line, i)

PreviousWordBoundary(line, col) ==
    LET i == Max({k \in 0..Min({col, Len(line)}) :
                    k = 0 \/ Class(line[k]) # "Whitespace"})
    IN  IF i = 0 THEN 0 ELSE RunStart(line, i)

NoWord == <<>>

\* The run `col` is in, or just after at the end of the line.
WordAt(line, col) ==
    LET probe == Min({col, Len(line) - 1})
    IN  IF line = <<>> \/ Class(line[probe + 1]) = "Whitespace" THEN NoWord
        ELSE <<RunStart(line, probe + 1), RunEnd(line, probe)>>

\* A query: what to find, and how.
Query(needle, caseSensitive, wholeWord) ==
    [needle |-> needle, caseSensitive |-> caseSensitive, wholeWord |-> wholeWord]

Folded(g) == IF g = "A" THEN "a" ELSE g
GraphemeEq(a, b, caseSensitive) ==
    IF caseSensitive THEN a = b ELSE Folded(a) = Folded(b)

\* A match that starts at `i` and is not the inside of a longer word.
MatchesAt(line, query, i) ==
    LET n == Len(query.needle)
    IN  /\ i + n <= Len(line)
        /\ \A k \in 1..n : GraphemeEq(line[i + k], query.needle[k], query.caseSensitive)
        /\ query.wholeWord =>
              /\ i = 0 \/ ~IsWord(line[i])
              /\ i + n = Len(line) \/ ~IsWord(line[i + n + 1])

\* The columns of matches that do not overlap, from the left:
\* `find_in_line_with`, grapheme by grapheme.
FindInLine(line, query) ==
    LET n == Len(query.needle)
        from[i \in 0..Len(line)] ==
            CASE i + n > Len(line) -> <<>>
              [] MatchesAt(line, query, i) -> <<i>> \o from[i + n]
              [] OTHER -> from[i + 1]
    IN  IF n = 0 THEN <<>> ELSE from[0]

Hit(line, col, query) == Selection(At(line, col), At(line, col + Len(query.needle)))
HitsIn(text, line, query) ==
    LET cols == FindInLine(LineOf(text, line), query)
    IN  [i \in DOMAIN cols |-> Hit(line, cols[i], query)]

FindAll(text, query) ==
    FlattenSeq([i \in 1..Len(text) |-> HitsIn(text, i - 1, query)])

\* Mutant: the search does not wrap round to the top.
FindNextBelow(text, query, after) ==
    SelectSeq(FindAll(text, query), LAMBDA hit : Before(after, Start(hit)))

\* The first match after `after`, or from the top if there is none: a
\* sequence of at most one.
FindNext(text, query, after) ==
    LET all == FindAll(text, query)
        below == SelectSeq(all, LAMBDA hit : Before(after, Start(hit)))
        above == SelectSeq(all, LAMBDA hit : Start(hit).line <= after.line)
        found == below \o above
    IN  SubSeq(found, 1, Min({1, Len(found)}))
=============================================================================
