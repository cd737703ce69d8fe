----------------------------- MODULE Completion -----------------------------
(***************************************************************************)
(* Completion and signature help (`app/complete.rs`, `complete_list.rs`,   *)
(* `completion.rs`, `app/signature.rs`), from the key that wants one to    *)
(* the item accepted.                                                      *)
(*                                                                         *)
(* A key only records that it wants a question; the end of the batch asks  *)
(* it, after the server was told of the edits, and one of a kind at a      *)
(* time.  An answer is taken if no edit was sent since the question, and   *)
(* asked about again otherwise.  The list is narrowed as the word grows,   *)
(* and the server is not asked until it said its list was incomplete.      *)
(*                                                                         *)
(* One line of one file, whose server offers one of the two, one caret,    *)
(* and another file that no server has.  A column is the number of         *)
(* characters before it.  Of a question's version, `current` says whether  *)
(* it is still the document's.  `hoping` and `strayed` are history.        *)
(***************************************************************************)
EXTENDS Integers, Sequences, SequencesExt, FiniteSetsExt

CONSTANT MaxLine          \* bound: characters of the line

ASSUME CompletionAssumption == MaxLine \in Nat

VARIABLES line, caret,
          offers,         \* what the server can be asked
          place,          \* where the keys go
          edited,         \* since the last sync
          handling,       \* events were handled since the last sync
          list,           \* Completing::list
          wanted,         \* Completing::wanted
          asked,          \* the completion in flight
          signature,      \* where the signature on screen began
          signing,        \* Signing::wanted
          askedSignature, \* the signature help in flight
          hoping,         \* a character typed wants a list, and no answer came
          strayed         \* the caret did more than type since the question

user == <<line, caret, place>>
completing == <<list, wanted, asked>>
signingVars == <<signature, signing, askedSignature>>
completionVars == <<offers, user, edited, handling, completing, signingVars, hoping, strayed>>

Word == "f"                \* a character of a word
Trigger == "."             \* the server asks to be asked about
Opens == "("               \* the same, for signatures
Ends == ")"
Typeable == IF offers = "completion" THEN {Word, Trigger, Opens} ELSE {Word, Opens, Ends}

Nothing == [is |-> "nothing"]
NowhereIs == -1

\* The text, a float over it, another panel, or another file.
Places == {"editor", "float", "panel", "file"}
InEditor == place # "panel"
Here == place # "file"
Keys == place = "editor"

IsWord(chars) == \A i \in DOMAIN chars : chars[i] = Word
Between(chars, from, to) == SubSeq(chars, from + 1, to)
WordStart(chars, col) == Min({from \in 0..col : IsWord(Between(chars, from, col))})
WordStartHere == WordStart(line, caret)

-----------------------------------------------------------------------------
(* The list. *)

\* What the server offers for a word: the word, longer, and after a trigger an
\* item that takes the trigger away.
Plain == [filter |-> <<Word, Word>>, text |-> <<Word, Word>>, edit |-> NowhereIs]
Rewriting(at) == [filter |-> <<Word>>, text |-> <<Word>>, edit |-> at]
Offered(q) == IF q.rewrites THEN <<Rewriting(q.start - 1), Plain>> ELSE <<Plain>>

MatchesTyped(typed, item) == IsPrefix(typed, item.filter)

\* Those of the items that match, in their order.
Matching(items, typed) ==
    LET matching[n \in 0..Len(items)] ==
            IF n = 0 THEN <<>>
            ELSE IF MatchesTyped(typed, items[n]) THEN Append(matching[n - 1], items[n])
            ELSE matching[n - 1]
    IN  matching[Len(items)]

Shown(l) == Matching(l.items, l.query)
Selected(l) == Shown(l)[l.selected + 1]

\* `completion_query`: what was typed of the word, unless the caret has left it.
InWord(l) == Keys /\ caret >= l.start /\ IsWord(Between(line, l.start, caret))
Typed(l) == Between(line, l.start, caret)

\* A changed word puts the choice at the top; a list with nothing to show goes.
Filtered(l, typed) ==
    IF typed = l.query THEN l ELSE [l EXCEPT !.query = typed, !.selected = 0]

Refiltered(l) ==
    IF l = Nothing \/ ~InWord(l) THEN Nothing
    ELSE LET narrowed == Filtered(l, Typed(l))
         IN  IF Shown(narrowed) = <<>> THEN Nothing ELSE narrowed

\* `about` is history: the word the question was about.
NewList(q, items, incomplete) ==
    [is |-> "list", items |-> items, incomplete |-> incomplete, start |-> WordStartHere,
     query |-> <<>>, selected |-> 0, about |-> q.start]

MoveChoice(l, delta) ==
    [l EXCEPT !.selected = Max({0, Min({@ + delta, Len(Shown(l)) - 1})})]

\* What is drawn after the caret: the rest of the chosen item's text.
Ghost(l) == IF IsPrefix(l.query, Selected(l).text)
            THEN Between(Selected(l).text, Len(l.query), Len(Selected(l).text)) ELSE <<>>

-----------------------------------------------------------------------------
(* Where they go, in a pane from row `top` to before row `bottom`, for a    *)
(* caret on row `y`: below it with a row between, or above.                 *)

MostRows == 3        \* MAX_ROWS is ten
BoxHeight == 3
Least(a, b) == Min({a, b})
Most(a, b) == Max({a, b})

\* Mutant: the first row is always on show.
FirstAlways(visible, selected) == 0

\* The rows scroll with the choice.
First(visible, selected) == Most(0, selected + 1 - visible)

\* `List::layout`: the rows it takes, and the first item on show.
ListPlace(top, bottom, y, count, selected) ==
    LET needed == Least(count, MostRows) + 2
        below == Most(0, bottom - (y + 2))
        above == Most(0, y - top - 1)
        under == needed <= below \/ below >= above
        height == Least(needed, IF under THEN below ELSE above)
        at == IF under THEN y + 2 ELSE y - 1 - height
        visible == Most(0, height - 2)
    IN  [rows |-> (at..at + height - 1) \cap (top..bottom - 1), at |-> at,
         visible |-> visible, first |-> First(visible, selected)]

\* `row_rects`: the item on each row inside the border, for the paint and the
\* click.
ItemAt(box, count, row) ==
    LET i == box.first + row - (box.at + 1)
    IN  IF row > box.at /\ row <= box.at + box.visible /\ i < count THEN i ELSE NowhereIs

\* `Signature::area`.
SignatureRows(top, bottom, y) ==
    LET at == IF y > top + BoxHeight THEN y - BoxHeight - 1 ELSE y + 2
    IN  (at..at + BoxHeight - 1) \cap (top..bottom - 1)

-----------------------------------------------------------------------------
(* Keys and the mouse. *)

\* `completion_typed`, after the editor has put the character in.
CompletionTyped(c) ==
    /\ list' = IF c = Word THEN list ELSE Nothing
    /\ wanted' = CASE c = Trigger /\ offers = "completion" -> "char"
                   [] c = Word /\ list = Nothing -> "typed"
                   [] c = Word /\ list # Nothing /\ list.incomplete -> "incomplete"
                   [] OTHER -> wanted
    /\ UNCHANGED asked

CloseSignature == signature' = NowhereIs /\ signing' = FALSE /\ askedSignature' = Nothing

SignatureTyped(c) ==
    IF c = Ends THEN CloseSignature
    ELSE signing' = (signing \/ (c = Opens /\ offers = "signature")) /\ UNCHANGED <<signature, askedSignature>>

CloseCompletion == list' = Nothing /\ wanted' = "none" /\ asked' = Nothing

Replaced(from, to, text) ==
    Between(line, 0, from) \o text \o Between(line, to, Len(line))

Edited(text, at) == line' = text /\ caret' = at /\ edited' = TRUE
Strays == hoping' = FALSE /\ strayed' = (list' # Nothing \/ asked' # Nothing)
Stays == UNCHANGED <<offers, place>>

Type(c) ==
    /\ Keys
    /\ Len(line) < MaxLine
    /\ Edited(Replaced(caret, caret, <<c>>), caret + 1)
    /\ CompletionTyped(c)
    /\ SignatureTyped(c)
    /\ hoping' = (offers = "completion" /\ (c = Trigger \/ (c = Word /\ (hoping \/ list = Nothing))))
    /\ handling' = TRUE
    /\ UNCHANGED strayed
    /\ Stays

\* A paste is not typing: nothing is wanted for it.
PasteWord ==
    /\ Keys
    /\ Len(line) < MaxLine
    /\ Edited(Replaced(caret, caret, <<Word>>), caret + 1)
    /\ handling' = TRUE
    /\ Stays /\ UNCHANGED <<completing, signingVars>> /\ Strays

Backspace ==
    /\ Keys
    /\ caret > 0
    /\ Edited(Replaced(caret - 1, caret, <<>>), caret - 1)
    /\ handling' = TRUE
    /\ Stays /\ UNCHANGED <<completing, signingVars>> /\ Strays

\* A key that is the editor's leaves the list to the end of the batch.
MoveCaret(col) ==
    /\ Keys
    /\ col \in 0..Len(line) \ {caret}
    /\ caret' = col
    /\ handling' = TRUE
    /\ Stays /\ UNCHANGED <<line, edited, completing, signingVars>> /\ Strays

\* A press off the list puts it away and goes on to the text.
Press(col) ==
    /\ Keys
    /\ list # Nothing /\ InWord(list)
    /\ col \in 0..Len(line)
    /\ caret' = col
    /\ CloseCompletion
    /\ handling' = TRUE /\ Strays
    /\ Stays /\ UNCHANGED <<line, edited, signingVars>>

Arrow(delta) ==
    /\ Keys
    /\ list # Nothing
    /\ list' = MoveChoice(list, delta)
    /\ handling' = TRUE
    /\ UNCHANGED <<offers, user, edited, wanted, asked, signingVars, hoping, strayed>>

\* Signature help gives `esc` on; the list does not.
Esc ==
    /\ Keys
    /\ IF list # Nothing THEN CloseCompletion /\ UNCHANGED signingVars
       ELSE CloseSignature /\ UNCHANGED completing
    /\ handling' = TRUE /\ hoping' = FALSE
    /\ UNCHANGED <<offers, user, edited, strayed>>

\* Where what is accepted goes: from the server's own edit, or the word's start.
AcceptStart(item) == IF item.edit # NowhereIs /\ item.edit <= caret THEN item.edit ELSE list.start

\* `tab`, `enter` or a press on a row.  Nothing happens, and the key is gone,
\* when the caret has left the word since the list was last narrowed.
Accept ==
    /\ Keys
    /\ list # Nothing
    /\ handling' = TRUE
    /\ IF InWord(list)
       THEN LET item == Selected(list)
                start == AcceptStart(item)
                text == Replaced(start, caret, item.text)
            IN  Len(text) <= MaxLine /\ Edited(text, start + Len(item.text)) /\ CloseCompletion
       ELSE UNCHANGED <<line, caret, edited, completing>>
    /\ Stays /\ UNCHANGED signingVars /\ Strays

\* Another file is shown, the focus moves, or a float opens or closes.
Leaves ==
    /\ place' \in Places \ {place}
    /\ handling' = TRUE
    /\ UNCHANGED <<offers, line, caret, edited, completing, signingVars>> /\ Strays

-----------------------------------------------------------------------------
(* The end of a batch: the edits are sent, then each kind is settled. *)

NewQuestion ==
    [is |-> "question", start |-> WordStartHere, caret |-> caret, current |-> TRUE,
     rewrites |-> WordStartHere > 0 /\ line[WordStartHere] = Trigger]
Sent(q) == IF q = Nothing THEN q ELSE [q EXCEPT !.current = @ /\ ~edited]

\* Mutant: whoever has the focus.
HasWordAnywhere == Here /\ (wanted = "char" \/ WordStartHere # caret)

\* There is something to complete; a trigger needs no word.
HasWord == InEditor /\ Here /\ (wanted = "char" \/ WordStartHere # caret)

SettleCompletion ==
    LET due == wanted # "none" /\ asked = Nothing
    IN  /\ list' = Refiltered(list)
        /\ wanted' = IF due THEN "none" ELSE wanted
        /\ asked' = IF due /\ HasWord /\ offers = "completion" THEN NewQuestion ELSE Sent(asked)

InCall == InEditor /\ Here /\ caret >= signature

SettleSignature ==
    LET due == signing /\ askedSignature = Nothing
    IN  /\ signature' = IF InCall THEN signature ELSE NowhereIs
        /\ signing' = (signing /\ ~due)
        /\ askedSignature' = IF due /\ Here /\ offers = "signature" THEN NewQuestion ELSE Sent(askedSignature)

SyncLanguageServers ==
    /\ handling
    /\ handling' = FALSE /\ edited' = FALSE
    /\ SettleCompletion
    /\ SettleSignature
    /\ strayed' = (strayed /\ (list' # Nothing \/ (asked # Nothing /\ asked' # Nothing)))
    /\ UNCHANGED <<offers, user, hoping>>

-----------------------------------------------------------------------------
(* Answers. *)

\* Mutant: any answer for the file on screen will do.
IsCurrentAnyway(q) == InEditor /\ Here

IsCurrent(q) == q.current /\ InEditor /\ Here

\* Mutant: a word not answered about is given up.
CompleteNoMore == UNCHANGED wanted

CompleteAgain == wanted' = IF wanted = "none" THEN "typed" ELSE wanted

\* What was offered, all of it or what matches the word asked about.
Answers(q) ==
    {[items |-> Offered(q), incomplete |-> FALSE], [items |-> <<>>, incomplete |-> FALSE],
     [items |-> Matching(Offered(q), [i \in 1..q.caret - q.start |-> Word]),
      incomplete |-> TRUE]}

CompletionAnswered ==
    /\ asked # Nothing
    /\ asked' = Nothing
    /\ IF IsCurrent(asked)
       THEN \E answer \in Answers(asked) :
               /\ list' = Refiltered(IF answer.items = <<>> THEN Nothing
                                     ELSE NewList(asked, answer.items, answer.incomplete))
               /\ hoping' = FALSE /\ strayed' = (strayed \/ edited)
               /\ UNCHANGED wanted
       ELSE CompleteAgain /\ UNCHANGED <<list, hoping, strayed>>
    /\ handling' = TRUE
    /\ UNCHANGED <<offers, user, edited, signingVars>>

\* `ContentModified`: the question is still open.
CompletionModified ==
    /\ asked # Nothing
    /\ asked' = Nothing
    /\ CompleteAgain
    /\ handling' = TRUE
    /\ UNCHANGED <<offers, user, edited, list, signingVars, hoping, strayed>>

\* Any other error is said on the bar.
CompletionRefused ==
    /\ asked # Nothing
    /\ asked' = Nothing /\ hoping' = FALSE
    /\ handling' = TRUE
    /\ UNCHANGED <<offers, user, edited, list, wanted, signingVars, strayed>>

SignatureAnswered ==
    /\ askedSignature # Nothing
    /\ askedSignature' = Nothing
    /\ IF IsCurrent(askedSignature)
       THEN /\ signature' \in {NowhereIs, IF signature # NowhereIs THEN signature
                                          ELSE askedSignature.caret}
            /\ UNCHANGED signing
       ELSE signing' = TRUE /\ UNCHANGED signature
    /\ handling' = TRUE
    /\ UNCHANGED <<offers, user, edited, completing, hoping, strayed>>

SignatureModified ==
    /\ askedSignature # Nothing
    /\ askedSignature' = Nothing /\ signing' = TRUE
    /\ handling' = TRUE
    /\ UNCHANGED <<offers, user, edited, completing, signature, hoping, strayed>>

-----------------------------------------------------------------------------
CompletionInit ==
    /\ line = <<>> /\ caret = 0
    /\ offers \in {"completion", "signature"} /\ place = "editor"
    /\ edited = FALSE /\ handling = FALSE
    /\ list = Nothing /\ wanted = "none" /\ asked = Nothing
    /\ signature = NowhereIs /\ signing = FALSE /\ askedSignature = Nothing
    /\ hoping = FALSE /\ strayed = FALSE

CompletionNext ==
    \/ \E c \in Typeable : Type(c)
    \/ PasteWord \/ Backspace
    \/ \E col \in 0..MaxLine : MoveCaret(col) \/ Press(col)
    \/ \E delta \in {-1, 1} : Arrow(delta)
    \/ Esc \/ Accept
    \/ Leaves
    \/ SyncLanguageServers
    \/ CompletionAnswered \/ CompletionModified \/ CompletionRefused
    \/ SignatureAnswered \/ SignatureModified

\* The loop ends its batches and the server answers; it does not cancel what
\* it was asked for ever.
CompletionFairness ==
    /\ WF_completionVars(SyncLanguageServers)
    /\ SF_completionVars(CompletionAnswered)
    /\ SF_completionVars(SignatureAnswered)

-----------------------------------------------------------------------------
\* Neither covers the caret's row or leaves the pane, however little room there
\* is, and if any item is on show then the chosen one is, where a click on its
\* row chooses it.
PlacedRoundTheCaret ==
    \A bottom \in 1..9 : \A y \in 0..bottom - 1 : \A count \in 1..MostRows + 2 :
        \A selected \in 0..count - 1 :
            LET box == ListPlace(0, bottom, y, count, selected)
            IN  /\ y \notin box.rows \cup SignatureRows(0, bottom, y)
                /\ box.visible > 0 =>
                      \E row \in box.rows : ItemAt(box, count, row) = selected

\* Between batches the list on screen is that of the word before the caret, a
\* row of it is chosen; and the signature is of a call the caret is still in.
ListFitsTheWord ==
    ~handling =>
        /\ list # Nothing =>
              /\ Keys
              /\ list.query = Between(line, list.start, caret)
              /\ IsWord(list.query)
              /\ Shown(list) # <<>> /\ list.selected \in 0..Len(Shown(list)) - 1
        /\ signature # NowhereIs => InEditor /\ Here /\ caret >= signature

\* A word typed with no list up is being asked about until an answer comes,
\* however many questions about it were overtaken or cancelled.  (A trigger
\* that no word follows is not: see the README.)
WordIsAsked == ~handling /\ hoping /\ WordStartHere # caret => asked # Nothing

\* What is accepted between batches, by a user who only typed since the
\* question, goes over the word that was asked about, all that was typed of
\* it, matches it, and takes away what the server meant it to.
AcceptsWhatIsShown ==
    [][Accept /\ list # Nothing /\ ~handling /\ ~strayed =>
        LET item == Selected(list)
        IN  /\ list.start = WordStartHere /\ list.about = list.start
            /\ MatchesTyped(Between(line, list.start, caret), item)
            /\ item.edit # NowhereIs =>
                  item.edit = list.start - 1 /\ line[item.edit + 1] = Trigger
            /\ item.edit = NowhereIs => line' = Replaced(caret, caret, Ghost(list))]_completionVars

\* A user who rests is not asked for any more, and no signature is if the
\* keys are in the editor.
EventuallyQuiet ==
    <>[][UNCHANGED user]_completionVars =>
        <>[](asked = Nothing /\ (InEditor => askedSignature = Nothing))
=============================================================================
