---------------------------- MODULE EditorPanel ----------------------------
(***************************************************************************)
(* The editor panel: carets over a text, the actions that move them, and   *)
(* the edits made at all of them at once (`typ-panel-editor`).             *)
(*                                                                         *)
(* An action describes one edit per selection in the text as it is, and    *)
(* `edit_at_each_selection` applies them one after another, shifting each  *)
(* by what the earlier ones did.  Undo is left to `TextBuffer`, scrolling  *)
(* and drawing to `TextQueries`.                                           *)
(***************************************************************************)
EXTENDS TextQueries

CONSTANTS OpenTexts,    \* the texts a file is opened or reloaded with
          Inserts,      \* what is typed, pasted or sent, as texts
          TabWidth,     \* tab_width
          Page,         \* rows a page motion covers
          MaxCarets,    \* bound: selections at a time
          MaxSize,      \* bound: graphemes and breaks in the text
          MaxSteps      \* bound: keys, clicks and edits in a row

VARIABLES text,
          sels,         \* Selections: the list and the primary
          goal,         \* goal_col: the column vertical motion wants
          clip,         \* the clipboard's register, as a text
          dragAnchor,   \* where the button went down, while it is held
          steps,        \* how many there were
          strayed       \* history: an edit's ranges overlapped, or the text
                        \* changed under a button that was held

vars == <<text, sels, goal, clip, dragAnchor, steps, strayed>>

NoGoal == -1
NoAnchor == At(-1, -1)
Nothing == <<<<>>>>

Init ==
    /\ text \in OpenTexts
    /\ sels = Single(Caret(At(0, 0)))
    /\ goal = NoGoal
    /\ clip = Nothing
    /\ dragAnchor = NoAnchor
    /\ steps = 0
    /\ strayed = FALSE

-----------------------------------------------------------------------------
(* Moving. *)

Vertical(p, delta, wanted) ==
    LET line == Max({0, Min({p.line + delta, LastLine(text)})})
    IN  At(line, GraphemeCol(LineOf(text, line), wanted, TabWidth))

LeftOf(p) ==
    CASE p.col > 0 -> At(p.line, p.col - 1)
      [] p.col = 0 /\ p.line > 0 -> EndOf(text, p.line - 1)
      [] OTHER -> p

RightOf(p) ==
    CASE p.col < LineLen(text, p.line) -> At(p.line, p.col + 1)
      [] p.col >= LineLen(text, p.line) /\ p.line < LastLine(text) -> At(p.line + 1, 0)
      [] OTHER -> p

WordLeftOf(p) ==
    IF p.col = 0 THEN LeftOf(p)
    ELSE At(p.line, PreviousWordBoundary(LineOf(text, p.line), p.col))

WordRightOf(p) ==
    IF p.col >= LineLen(text, p.line) THEN RightOf(p)
    ELSE At(p.line, NextWordBoundary(LineOf(text, p.line), p.col))

VerticalMotions == {"Up", "Down", "PageUp", "PageDown"}
BackMotions == {"Left", "WordLeft", "LineStart", "DocumentStart"}
Motions == VerticalMotions \cup BackMotions
               \cup {"Right", "WordRight", "LineEnd", "DocumentEnd"}

MovedPosition(p, motion, wanted) ==
    CASE motion = "Left" -> LeftOf(p)
      [] motion = "Right" -> RightOf(p)
      [] motion = "Up" -> Vertical(p, -1, wanted)
      [] motion = "Down" -> Vertical(p, 1, wanted)
      [] motion = "PageUp" -> Vertical(p, -Page, wanted)
      [] motion = "PageDown" -> Vertical(p, Page, wanted)
      [] motion = "WordLeft" -> WordLeftOf(p)
      [] motion = "WordRight" -> WordRightOf(p)
      [] motion = "LineStart" -> At(p.line, 0)
      [] motion = "LineEnd" -> EndOf(text, p.line)
      [] motion = "DocumentStart" -> At(0, 0)
      [] motion = "DocumentEnd" -> EndOf(text, LastLine(text))

\* A plain motion over selected text goes to its end in that direction.
MoveSelection(s, motion, extend, wanted) ==
    IF ~extend /\ ~IsCaret(s) /\ motion \notin VerticalMotions
    THEN Caret(IF motion \in BackMotions THEN Start(s) ELSE End(s))
    ELSE LET head == MovedPosition(s.head, motion, wanted)
         IN  Selection(IF extend THEN s.anchor ELSE head, head)

\* What every action that only selects leaves alone.
Selecting(new) ==
    /\ Len(new.list) <= MaxCarets
    /\ sels' = new
    /\ UNCHANGED <<text, clip, strayed>>

\* The column wanted is the primary's as the first vertical motion found it,
\* for every selection and until anything but a vertical motion.
Move(motion, extend) ==
    /\ goal' = CASE motion \notin VerticalMotions -> NoGoal
                 [] goal # NoGoal -> goal
                 [] OTHER -> DisplayCol(LineOf(text, Cursor(sels).line),
                                        Cursor(sels).col, TabWidth)
    /\ Selecting(MapInPlace(sels, LAMBDA s : MoveSelection(s, motion, extend, goal')))
    /\ UNCHANGED dragAnchor

SelectAll ==
    /\ Selecting(Single(Selection(At(0, 0), EndOf(text, LastLine(text)))))
    /\ goal' = NoGoal
    /\ UNCHANGED dragAnchor

SelectLine ==
    /\ Selecting(Single(Selection(At(Cursor(sels).line, 0), EndOf(text, Cursor(sels).line))))
    /\ goal' = NoGoal
    /\ UNCHANGED dragAnchor

CollapseSelections ==
    /\ Selecting(Single(Caret(Cursor(sels))))
    /\ goal' = NoGoal
    /\ UNCHANGED dragAnchor

AddCursor(delta) ==
    LET line == Cursor(sels).line + delta
    IN  /\ line \in 0..LastLine(text)
        /\ Selecting(Push(sels, Caret(At(line, Min({Cursor(sels).col, LineLen(text, line)})))))
        /\ UNCHANGED <<goal, dragAnchor>>

-----------------------------------------------------------------------------
(* Occurrences. *)

\* The word under a bare caret, selected; the selections as they are if
\* there is a selection or no word.
WordUnderCaret ==
    LET at == Cursor(sels)
        word == WordAt(LineOf(text, at.line), at.col)
    IN  IF ~IsCaret(Primary(sels)) \/ word = NoWord THEN sels
        ELSE Single(Selection(At(at.line, word[1]), At(at.line, word[2])))

\* What is looked for when `s` is the primary selection: whole words if it
\* is one.  Text of more than one line is found nowhere.
OccurrenceQuery(s) ==
    LET line == LineOf(text, Start(s).line)
        needle == TextInRange(text, Start(s), End(s))
    IN  Query(IF Len(needle) = 1 THEN needle[1] ELSE <<>>, TRUE,
              /\ Start(s).line = End(s).line
              /\ WordAt(line, Start(s).col) = <<Start(s).col, End(s).col>>
              /\ IsWord(line[Start(s).col + 1]))

\* Ctrl+D, from selections whose primary is not a caret.
WithNextOccurrence(held) ==
    LET s == Primary(held)
        hit == FindNext(text, OccurrenceQuery(s), Start(s))
    IN  IF \/ hit = <<>>
           \/ \E h \in ToSet(held.list) : Start(h) = Start(hit[1]) /\ End(h) = End(hit[1])
        THEN held ELSE Push(held, hit[1])

AllOccurrences(s) ==
    LET hits == FindAll(text, OccurrenceQuery(s))
    IN  IF hits = <<>> THEN Single(s) ELSE Extend(Single(hits[1]), Tail(hits))

SelectNextOccurrence ==
    /\ IF WordUnderCaret # sels
       THEN /\ Selecting(WordUnderCaret)
            /\ goal' = NoGoal
       ELSE /\ ~IsCaret(Primary(sels))
            /\ Selecting(WithNextOccurrence(sels))
            /\ UNCHANGED goal
    /\ UNCHANGED dragAnchor

SelectAllOccurrences ==
    LET s == Primary(WordUnderCaret)
    IN  /\ ~IsCaret(s)
        /\ Selecting(IF FindAll(text, OccurrenceQuery(s)) = <<>> THEN WordUnderCaret
                     ELSE AllOccurrences(s))
        /\ goal' = IF WordUnderCaret # sels THEN NoGoal ELSE goal
        /\ UNCHANGED dragAnchor

-----------------------------------------------------------------------------
(* Editing at every selection. *)

Edit(start, end, new) == [start |-> start, end |-> end, new |-> new]

\* Mutant: the edits are not shifted by the ones before them.
ApplyInPlace(was, described) ==
    FoldLeft(LAMBDA acc, edit :
                LET after == PositionAfter(edit.start, edit.new)
                IN  [text |-> ReplaceRange(acc.text, edit.start, edit.end, edit.new),
                     shift |-> NoShift,
                     heads |-> Append(acc.heads, after),
                     spans |-> Append(acc.spans, Span(edit.start, edit.end, after))],
             [text |-> was, shift |-> NoShift, heads |-> <<>>, spans |-> <<>>], described)

\* The edits, described in one text and in its order, applied to it one by
\* one: the text, where each left its caret, and the spans it recorded.
ApplyInTurn(was, described) ==
    FoldLeft(LAMBDA acc, edit :
                LET start == Shifted(acc.shift, edit.start)
                    end == Shifted(acc.shift, edit.end)
                    after == PositionAfter(start, edit.new)
                    span == Span(start, end, after)
                IN  [text |-> ReplaceRange(acc.text, start, end, edit.new),
                     shift |-> RecordShift(acc.shift, edit.end.line, span),
                     heads |-> Append(acc.heads, after),
                     spans |-> Append(acc.spans, span)],
             [text |-> was, shift |-> NoShift, heads |-> <<>>, spans |-> <<>>], described)

\* What is said not to be: two edits of one stretch of text.  `ByRange` is
\* the order they are in.
Disjoint(described) ==
    \A i, j \in DOMAIN described : i < j => Upto(described[i].end, described[j].start)

Size(was) == FoldLeft(LAMBDA sum, line : sum + Len(line) + 1, 0, was)

\* The text an action makes.
Becomes(new) ==
    /\ Size(new) <= MaxSize
    /\ text' = new

\* `edit_at_each_selection`: a caret after what each edit put in.
EditEach(described) ==
    LET done == ApplyInTurn(text, described)
    IN  /\ Becomes(done.text)
        /\ sels' = MapInPlace([sels EXCEPT !.list = [i \in DOMAIN @ |-> Caret(done.heads[i])]],
                              LAMBDA s : s)
        /\ goal' = NoGoal
        /\ strayed' = ~Disjoint(described)
        /\ UNCHANGED dragAnchor

\* What each action asks for at one selection.
Typed(new, s) == Edit(Start(s), End(s), new)
DeleteRange(start, end) == Edit(start, end, Nothing)

DeletedAt(direction, byWord, s) ==
    LET line == LineOf(text, s.head.line)
        target == CASE ~IsCaret(s) -> s.head
                    [] direction = "Backward" ->
                          IF byWord THEN WordLeftOf(s.head) ELSE LeftOf(s.head)
                    [] OTHER -> IF byWord THEN WordRightOf(s.head) ELSE RightOf(s.head)
    IN  IF ~IsCaret(s) THEN DeleteRange(Start(s), End(s))
        ELSE DeleteRange(Earlier(s.head, target), Later(s.head, target))

CompletedAt(back, new, s) == Edit(At(s.head.line, Max({0, s.head.col - back})), s.head, new)

StopAfter(s) ==
    LET display == DisplayCol(LineOf(text, s.head.line), s.head.col, TabWidth)
    IN  Edit(s.head, s.head, <<[i \in 1..TabWidth - (display % TabWidth) |-> " "]>>)

EachSelection(Describe(_)) == [i \in DOMAIN sels.list |-> Describe(sels.list[i])]

Type(new) == EditEach(EachSelection(LAMBDA s : Typed(new, s))) /\ UNCHANGED clip
Delete(direction, byWord) ==
    EditEach(EachSelection(LAMBDA s : DeletedAt(direction, byWord, s))) /\ UNCHANGED clip
Complete(back, new) ==
    EditEach(EachSelection(LAMBDA s : CompletedAt(back, new, s))) /\ UNCHANGED clip

-----------------------------------------------------------------------------
(* The clipboard. *)

NonEmpty(list) == SelectSeq(list, LAMBDA s : ~IsCaret(s))

\* The selections' texts, a line break between each and the next.
SelectedText ==
    LET chosen == NonEmpty(sels.list)
    IN  IF chosen = <<>> THEN Nothing
        ELSE FlattenSeq([i \in DOMAIN chosen |->
                            TextInRange(text, Start(chosen[i]), End(chosen[i]))])

\* Mutant: the first line goes to every caret.
PasteFirst(held, count) ==
    [i \in 1..count |-> IF count > 1 THEN <<held[1]>> ELSE held]

\* `str::lines` of what is held, one to each selection if there are as many
\* of either, and the whole at each if not.
Pieces(held, count) ==
    LET lines == IF Last(held) = <<>> THEN Front(held) ELSE held
    IN  [i \in 1..count |-> IF count > 1 /\ Len(lines) = count THEN <<lines[i]>> ELSE held]

PasteEdits(held, list) ==
    [i \in DOMAIN list |-> Edit(Start(list[i]), End(list[i]), Pieces(held, Len(list))[i])]

CutEdits(list) == [i \in DOMAIN list |-> DeleteRange(Start(list[i]), End(list[i]))]

Copy ==
    /\ clip' = IF SelectedText = Nothing THEN clip ELSE SelectedText
    /\ UNCHANGED <<text, sels, goal, dragAnchor, steps, strayed>>

Cut ==
    /\ SelectedText # Nothing
    /\ clip' = SelectedText
    /\ EditEach(CutEdits(sels.list))

Paste ==
    /\ clip # Nothing
    /\ EditEach(PasteEdits(clip, sels.list))
    /\ UNCHANGED clip

-----------------------------------------------------------------------------
(* Indenting whole lines. *)

\* The lines a selection touches: not the one it ends at the start of.
LinesOf(s) ==
    LET last == IF End(s).col = 0 /\ End(s).line > Start(s).line
                THEN End(s).line - 1 ELSE End(s).line
    IN  Start(s).line..last

IndentDelta(line) ==
    IF \A i \in DOMAIN line : Class(line[i]) = "Whitespace" THEN 0 ELSE TabWidth

OutdentDelta(line) ==
    IF line # <<>> /\ line[1] = "\t" THEN -1
    ELSE -Max({n \in 0..Min({TabWidth, Len(line)}) : \A i \in 1..n : line[i] = " "})

Touched == UNION {LinesOf(s) : s \in ToSet(sels.list)}

\* Every line moved by its own delta, the last first, and every selection
\* with the line it is on.
ShiftLines(by) ==
    LET touched == DOMAIN by
        delta(line) == IF line \in touched THEN by[line] ELSE 0
        Moved(was, line) ==
            IF delta(line) > 0
            THEN ReplaceRange(was, At(line, 0), At(line, 0),
                              <<[i \in 1..delta(line) |-> " "]>>)
            ELSE ReplaceRange(was, At(line, 0), At(line, -delta(line)), Nothing)
        Carried(p) == At(p.line, Max({0, p.col + delta(p.line)}))
    IN  /\ \E line \in touched : delta(line) # 0
        /\ Becomes(FoldLeft(Moved, text, SetToSortSeq(touched, >)))
        /\ sels' = MapInPlace(sels, LAMBDA s : Selection(Carried(s.anchor), Carried(s.head)))
        /\ goal' = NoGoal
        /\ UNCHANGED <<clip, dragAnchor, strayed>>

\* With nothing selected the tab key types; else it shifts lines.
IndentLines ==
    \/ /\ NonEmpty(sels.list) = <<>>
       /\ EditEach(EachSelection(StopAfter))
       /\ UNCHANGED clip
    \/ /\ NonEmpty(sels.list) # <<>>
       /\ ShiftLines([line \in Touched |-> IndentDelta(LineOf(text, line))])

OutdentLines == ShiftLines([line \in Touched |-> OutdentDelta(LineOf(text, line))])

-----------------------------------------------------------------------------
(* Edits that come from outside, and jumps. *)

\* Mutant: the first edit is made first.
ApplyFirstFirst(was, sorted) ==
    FoldLeft(LAMBDA acc, edit : [text |-> ReplaceRange(acc.text, edit.start, edit.end, edit.new),
                                 spans |-> Append(acc.spans,
                                     Span(edit.start, edit.end, PositionAfter(edit.start, edit.new)))],
             [text |-> was, spans |-> <<>>], sorted)

\* A server's edits, none over another, the last first.
ApplyLastFirst(was, sorted) ==
    FoldRight(LAMBDA edit, acc : [text |-> ReplaceRange(acc.text, edit.start, edit.end, edit.new),
                                  spans |-> Append(acc.spans,
                                      Span(edit.start, edit.end, PositionAfter(edit.start, edit.new)))],
              sorted, [text |-> was, spans |-> <<>>])

ApplyEdits(sorted) ==
    LET done == ApplyLastFirst(text, sorted)
    IN  /\ Becomes(done.text)
        /\ sels' = MapInPlace(sels, LAMBDA s : Selection(ShiftThrough(s.anchor, done.spans),
                                                         ShiftThrough(s.head, done.spans)))
        /\ goal' = NoGoal
        /\ UNCHANGED <<clip, dragAnchor, strayed>>

Clamped(new) ==
    MapInPlace(sels, LAMBDA s : Selection(CharOffset(new, s.anchor), CharOffset(new, s.head)))

ReplaceHits(query, replacement) ==
    LET hits == FindAll(text, query)
        new == FoldRight(LAMBDA hit, was : ReplaceRange(was, Start(hit), End(hit), replacement),
                         hits, text)
    IN  /\ hits # <<>>
        /\ Becomes(new)
        /\ sels' = Clamped(new)
        /\ goal' = NoGoal
        /\ UNCHANGED <<clip, dragAnchor, strayed>>

\* `reload`: what is on disk now.
Reload(new) ==
    /\ Becomes(new)
    /\ sels' = Clamped(new)
    /\ goal' = NoGoal
    /\ UNCHANGED <<clip, dragAnchor, strayed>>

\* `goto` and `restore_view`: a place the text may no longer have.
Goto(p) ==
    /\ Selecting(Single(Caret(CharOffset(text, p))))
    /\ goal' = NoGoal
    /\ UNCHANGED dragAnchor

\* `select_range`, of a match found now.
SelectRange(query) ==
    LET hit == FindNext(text, query, Cursor(sels))
    IN  /\ hit # <<>>
        /\ Selecting(Single(hit[1]))
        /\ goal' = NoGoal
        /\ UNCHANGED dragAnchor

-----------------------------------------------------------------------------
(* The mouse. *)

Click(p) ==
    /\ Selecting(Single(Caret(p)))
    /\ goal' = NoGoal
    /\ dragAnchor' = p

AltClick(p) ==
    /\ Selecting(Push(sels, Caret(p)))
    /\ dragAnchor' = p
    /\ UNCHANGED goal

\* A second click at one place selects the word there.
ClickAgain(p) ==
    LET word == WordAt(LineOf(text, p.line), p.col)
    IN  /\ word # NoWord
        /\ Selecting(Single(Selection(At(p.line, word[1]), At(p.line, word[2]))))
        /\ goal' = NoGoal
        /\ dragAnchor' = NoAnchor

\* The anchor is where the button went down, in the text of that moment.
Drag(p) ==
    /\ dragAnchor # NoAnchor
    /\ sels' = Single(Selection(dragAnchor, p))
    /\ goal' = NoGoal
    /\ strayed' = (dragAnchor \notin Positions(text))
    /\ UNCHANGED <<text, clip, dragAnchor>>

Release ==
    /\ dragAnchor' = NoAnchor
    /\ UNCHANGED <<text, sels, goal, clip, strayed>>

RightClick(p) ==
    /\ \E s \in ToSet(sels.list) : Upto(Start(s), p) /\ Before(p, End(s))
    /\ Copy

MiddleClick(p) ==
    /\ clip # Nothing
    /\ LET at == ApplyInTurn(text, PasteEdits(clip, <<Caret(p)>>))
       IN  /\ Becomes(at.text)
           /\ sels' = Single(Caret(at.heads[1]))
    /\ goal' = NoGoal
    /\ UNCHANGED <<clip, dragAnchor, strayed>>

-----------------------------------------------------------------------------
Directions == {"Backward", "Forward"}
Queries == {Query(<<"a">>, FALSE, FALSE), Query(<<"a">>, TRUE, TRUE)}

\* Two edits of a server at one place: an insertion, and what follows it
\* taken out from there to anywhere.
ServerEdits ==
    LET ranges == {r \in Positions(text) \X Positions(text) : Upto(r[1], r[2])}
    IN  {<<Edit(r[1], r[1], new), DeleteRange(r[1], r[2])>> :
            r \in {x \in ranges : x[1].col \in {0, LineLen(text, x[1].line)}}, new \in Inserts}

\* Bound: the model stops at a stray, whose text and carets the program goes
\* on with as they are.
Next ==
    /\ ~strayed
    /\ steps < MaxSteps
    /\ steps' = steps + 1
    /\ \/ \E motion \in Motions, extend \in BOOLEAN : Move(motion, extend)
       \/ SelectAll \/ SelectLine \/ CollapseSelections
       \/ \E delta \in {-1, 1} : AddCursor(delta)
       \/ SelectNextOccurrence \/ SelectAllOccurrences
       \/ \E new \in Inserts : Type(new) \/ Complete(1, new)
       \/ \E direction \in Directions, byWord \in BOOLEAN : Delete(direction, byWord)
       \/ IndentLines \/ OutdentLines
       \/ Copy \/ Cut \/ Paste
       \/ \E sorted \in ServerEdits : ApplyEdits(sorted)
       \/ \E query \in Queries, new \in Inserts : ReplaceHits(query, new)
       \/ \E query \in Queries : SelectRange(query)
       \/ \E new \in OpenTexts : Reload(new) \/ \E p \in Positions(new) : Goto(p)
       \/ \E p \in Positions(text) :
             Click(p) \/ AltClick(p) \/ ClickAgain(p) \/ Drag(p) \/ RightClick(p) \/ MiddleClick(p)
       \/ Release

Spec == Init /\ [][Next]_vars

-----------------------------------------------------------------------------
(* What editing promises. *)

\* Every caret is in the text, the selections are in its order and share
\* nothing, and the drawing of a line is given those that touch it.  They
\* leave the text only as a stray does.  (selection.rs: "Never empty, always
\* sorted, never overlapping"; touching_line is a binary search.)
SelectionsSound ==
    ~strayed =>
        /\ goal \in Int /\ steps \in 0..MaxSteps
        /\ sels.primary \in DOMAIN sels.list
        /\ \A s \in ToSet(sels.list) : {s.anchor, s.head} \subseteq Positions(text)
        /\ \A i, j \in DOMAIN sels.list : i < j =>
              /\ Upto(End(sels.list[i]), Start(sels.list[j]))
              /\ End(sels.list[i]) = Start(sels.list[j]) => ~IsCaret(sels.list[i])
        /\ \A line \in 0..LastLine(text) :
              TouchingLine(sels, line)
                  = SelectSeq(sels.list, LAMBDA s : line \in Start(s).line..End(s).line)

Break == "\n"
Flat(was) == FlattenSeq([i \in DOMAIN was |-> IF i < Len(was) THEN Append(was[i], Break)
                                              ELSE was[i]])
Offset(was, p) == Len(Flat(TextInRange(was, At(0, 0), p)))

\* A text with every edit made where it was described, all at once; and how
\* much of it stands before the end of what the i-th edit put in.
Rebuilt(was, described) ==
    LET cut(i) == IF i = 0 THEN 0 ELSE Offset(was, described[i].end)
        kept(i) == SubSeq(Flat(was), cut(i - 1) + 1, Offset(was, described[i].start))
    IN  FlattenSeq([i \in DOMAIN described |-> kept(i) \o Flat(described[i].new)])
        \o SubSeq(Flat(was), cut(Len(described)) + 1, Len(Flat(was)))

LandsWhereDescribed(described) ==
    LET done == ApplyInTurn(text, described)
        end == EndOf(text, LastLine(text))
        upTo(i) == Rebuilt(TextInRange(text, At(0, 0), described[i].end),
                           SubSeq(described, 1, i))
    IN  /\ Flat(done.text) = Rebuilt(text, described)
        /\ \A i \in DOMAIN described : Offset(done.text, done.heads[i]) = Len(upTo(i))

\* What can be asked for at the selections there are.
AllTyped == {EachSelection(LAMBDA s : Typed(new, s)) : new \in Inserts}
                \cup {PasteEdits(clip, sels.list), EachSelection(StopAfter)}
AllDeleted == {EachSelection(LAMBDA s : DeletedAt(direction, byWord, s)) :
                  direction \in Directions, byWord \in BOOLEAN}

\* Edits at many carets, described in one text and made one after another
\* with a running shift, make the text they describe, and leave each caret
\* after its own insertion.  (change.rs: "lets several cursors edit the same
\* line without the later ones landing in the wrong place".)
CaretEditsLand ==
    ~strayed /\ goal = NoGoal => \A described \in AllTyped \cup AllDeleted :
                    Disjoint(described) => LandsWhereDescribed(described)

\* What depends on the text alone is looked at with the caret at its start.
AtTheStart == sels = Single(Caret(At(0, 0))) /\ goal = NoGoal

\* A server's edits, made last first, make the text they describe, and a
\* caret outside them stays between the graphemes it was between.
\* (apply_edits: "the caret stays on the word it was on".)
ServerEditsLand ==
    ~strayed /\ AtTheStart => \A described \in ServerEdits :
        LET done == ApplyLastFirst(text, described)
            grown(p) == FoldLeft(LAMBDA sum, e : IF Before(e.end, p)
                                    THEN sum + Len(Flat(e.new)) - Offset(text, e.end)
                                         + Offset(text, e.start)
                                    ELSE sum, 0, described)
        IN  /\ Flat(done.text) = Rebuilt(text, described)
            /\ \A p \in Positions(text) :
                  (\A e \in ToSet(described) : Before(p, e.start) \/ Before(e.end, p))
                      => Offset(done.text, ShiftThrough(p, done.spans))
                            = Offset(text, p) + grown(p)

\* Edits described in one text make the text they describe, whether made at
\* carets or by a server.
EditsLand == CaretEditsLand /\ ServerEditsLand

\* The comment of `edit_at_each_selection` says it of every edit it is given:
\* "keeping every other selection pointing at the text it was aimed at".
DeletesWhatWasDescribed ==
    ~strayed => \A described \in AllDeleted :
        LET gone == UNION {{p \in Positions(text) : Upto(e.start, p) /\ Before(p, e.end)} :
                             e \in ToSet(described)}
        IN  Len(Flat(ApplyInTurn(text, described).text)) = Len(Flat(text)) - Cardinality(gone)

\* Cut at any number of carets and paste where they are: the text is as it
\* was.  (actions.rs: "what makes a multi-cursor copy round-trip through a
\* paste".)
CutPasteRestores ==
    LET cut == ApplyInTurn(text, CutEdits(sels.list))
        carets == [i \in DOMAIN cut.heads |-> Caret(cut.heads[i])]
        apart == \A i, j \in DOMAIN carets : i # j => carets[i] # carets[j]
        whole == Len(carets) = 1 \/ \A s \in ToSet(sels.list) : Start(s).line = End(s).line
    IN  ~strayed /\ goal = NoGoal /\ NonEmpty(sels.list) = sels.list /\ apart /\ whole =>
            ApplyInTurn(cut.text, PasteEdits(SelectedText, carets)).text = text

\* From one word, the key that adds the next one reaches every other, and
\* then adds nothing: what the key that selects all selects at once.  (From a
\* part of a word it may not: a match that is a word is looked for as one.)
\* (occurrence.rs: "without it this either loops forever or stacks duplicate
\* cursors on one word".)
OccurrencesAllReached ==
    LET start == Primary(WordUnderCaret)
        hits == FindAll(text, OccurrenceQuery(start))
        pressed[n \in 0..Len(hits)] ==
            IF n = 0 THEN Single(start) ELSE WithNextOccurrence(pressed[n - 1])
    IN  ~strayed /\ ~IsCaret(start) /\ start \in ToSet(hits)
           /\ OccurrenceQuery(start).wholeWord =>
            /\ ToSet(pressed[Len(hits)].list) = ToSet(hits)
            /\ Len(pressed[Len(hits) - 1].list) = Len(hits)
            /\ ToSet(AllOccurrences(start).list) = ToSet(hits)

\* What `TextQueries` states of every small input, looked at once: positions
\* survive the way to a server's units and back, and each fast query answers
\* what its plain definition does (position.rs, search.rs, indent.rs).
QueriesAgree == steps = 0 => AllUnitsRoundTrip /\ AllQueriesAgree
=============================================================================
