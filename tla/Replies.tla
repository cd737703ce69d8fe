------------------------------ MODULE Replies ------------------------------
(***************************************************************************)
(* What a server's answers mean (`lsp/reply.rs`): one meaning, whichever   *)
(* of the shapes the protocol allows it comes in.                          *)
(*                                                                         *)
(* A JSON value is a record with the fields it has, tagged by what it      *)
(* `is`: null, text, a list or an object.  A text is the widths of its     *)
(* characters in UTF-16 (1 or 2), and a label also what the characters     *)
(* are.                                                                    *)
(***************************************************************************)
EXTENDS Integers, Sequences, SequencesExt, FiniteSetsExt

NoValue == [is |-> "null"]
JsonList(items) == [is |-> "list", items |-> items]
Has(value, field) == value.is = "object" /\ field \in DOMAIN value
Field(value, field) == IF Has(value, field) THEN value[field] ELSE NoValue
FirstOf(value, fields) ==
    LET there == SelectSeq(fields, LAMBDA field : Has(value, field))
    IN  IF there = <<>> THEN NoValue ELSE value[Head(there)]

\* The items of a value that may be a list, and the value alone if not.
ItemsOf(value) == IF value.is = "list" THEN value.items ELSE <<>>

-----------------------------------------------------------------------------
(* Definitions. *)

\* Mutant: a link is read as a location is.
RangeOfLocation(one) == Field(one, "range")

\* A link names where to go apart from all it covers.
RangeOf(one) == IF Has(one, "targetUri") THEN FirstOf(one, <<"targetSelectionRange", "targetRange">>)
                ELSE Field(one, "range")

DefinitionTarget(result) ==
    LET one == IF result.is # "list" THEN result
               ELSE IF result.items = <<>> THEN NoValue ELSE Head(result.items)
        uri == FirstOf(one, <<"targetUri", "uri">>)
    IN  IF uri = NoValue \/ RangeOf(one) = NoValue THEN NoValue
        ELSE [is |-> "target", uri |-> uri, start |-> RangeOf(one)]

-----------------------------------------------------------------------------
(* Code actions. *)

\* Bare, the item is its own command.
CommandOf(item) ==
    CASE Field(item, "command").is = "text" -> item
      [] Field(item, "command").is = "object" -> item.command
      [] OTHER -> NoValue

CodeActionsOf(result) ==
    LET offered == SelectSeq(ItemsOf(result),
                             LAMBDA item : ~Has(item, "disabled") /\ Field(item, "title").is = "text")
    IN  [i \in DOMAIN offered |->
            [title |-> offered[i].title, edit |-> Field(offered[i], "edit"),
             command |-> CommandOf(offered[i])]]

-----------------------------------------------------------------------------
(* Hovers.  A line is a fence, blank, or words. *)

MarkedString(value) == IF value.is = "text" THEN value ELSE Field(value, "value")
FlattenMarkdown(text) == SelectSeq(text.lines, LAMBDA written : written \notin {"fence", "blank"})
HoverText(result) ==
    LET contents == Field(result, "contents")
        said == SelectSeq([i \in DOMAIN ItemsOf(contents) |-> MarkedString(contents.items[i])],
                          LAMBDA value : value # NoValue)
        values == IF contents.is = "list" THEN said
                  ELSE IF MarkedString(contents) = NoValue THEN <<>> ELSE <<MarkedString(contents)>>
    IN  FlattenSeq([i \in DOMAIN values |-> FlattenMarkdown(values[i])])

-----------------------------------------------------------------------------
(* Completions.  A label, and what it is sorted by, is a number. *)

\* The edit's text, then the insert text, then the label.
TextPutIn(item) ==
    IF Field(Field(item, "textEdit"), "newText") # NoValue THEN item.textEdit.newText
    ELSE FirstOf(item, <<"insertText", "label">>)

CompletionItem(item) ==
    [label |-> item.label, filter |-> FirstOf(item, <<"filterText", "label">>),
     text |-> TextPutIn(item), edit |-> FirstOf(Field(item, "textEdit"), <<"range", "insert">>)]

\* By sort text, which is the label if there is none, and as they came if the
\* same.
CompletionItems(result) ==
    LET all == SelectSeq(IF result.is = "list" THEN result.items ELSE ItemsOf(Field(result, "items")),
                         LAMBDA item : Has(item, "label"))
        key(i) == FirstOf(all[i], <<"sortText", "label">>).number
        order == SetToSortSeq(DOMAIN all, LAMBDA i, j : key(i) < key(j) \/ (key(i) = key(j) /\ i < j))
    IN  [items |-> [i \in DOMAIN order |-> CompletionItem(all[order[i]])],
         incomplete |-> Field(result, "isIncomplete") = [is |-> "true"]]

-----------------------------------------------------------------------------
(* Signatures. *)

Units(label, chars) == FoldSeq(LAMBDA char, sum : sum + char.units, 0, SubSeq(label, 1, chars))

\* Mutant: UTF-16 offsets taken for characters.
CharsAtUnits(label, units) == Min({units, Len(label)})

\* The characters that begin within so many units.
CharsAt(label, units) ==
    Min({n \in 0..Len(label) : Units(label, n) >= units \/ n = Len(label)})

\* A parameter is its own text, or a pair of offsets: characters from and to.
ParameterRange(label, parameter) ==
    IF parameter.is = "text"
    THEN LET begins == {n \in 0..Len(label) : n + Len(parameter.chars) <= Len(label)
                            /\ SubSeq(label, n + 1, n + Len(parameter.chars)) = parameter.chars}
         IN  IF begins = {} THEN <<>> ELSE <<Min(begins), Min(begins) + Len(parameter.chars)>>
    ELSE <<CharsAt(label, parameter.from), CharsAt(label, parameter.to)>>

\* The signature's own active parameter goes first.
SignatureHelp(result) ==
    LET all == ItemsOf(Field(result, "signatures"))
        index == IF Has(result, "activeSignature") THEN result.activeSignature ELSE 0
        one == IF index < Len(all) THEN all[index + 1] ELSE all[1]
        active == IF Has(one, "activeParameter") THEN one.activeParameter
                  ELSE IF Has(result, "activeParameter") THEN result.activeParameter ELSE -1
        parameters == ItemsOf(Field(one, "parameters"))
    IN  IF all = <<>> THEN NoValue
        ELSE [is |-> "signature", label |-> one.label,
              active |-> IF active \in 0..Len(parameters) - 1
                         THEN ParameterRange(one.label, parameters[active + 1]) ELSE <<>>]

-----------------------------------------------------------------------------
(* What they are read back as. *)

Num(n) == [is |-> "text", number |-> n]

Location(u, s) == [is |-> "object", uri |-> u, range |-> s]
Link(u, s, whole) == [is |-> "object", targetUri |-> u, targetRange |-> whole, targetSelectionRange |-> s]
LinkOfWhole(u, s) == [is |-> "object", targetUri |-> u, targetRange |-> s]

OneTargetWhateverItsShape ==
    \A u, s, other \in {Num(1), Num(2)} :
        LET target == [is |-> "target", uri |-> u, start |-> s]
        IN  /\ \A one \in {Location(u, s), Link(u, s, other), LinkOfWhole(u, s)} :
                  DefinitionTarget(one) = target
                  /\ DefinitionTarget(JsonList(<<one, Location(other, other)>>)) = target
            /\ DefinitionTarget(NoValue) = NoValue
            /\ DefinitionTarget(JsonList(<<>>)) = NoValue

\* A parameter named by offsets is the characters its server meant, however
\* wide they are, and one named by its text is that text.
Chars == {[units |-> 1, what |-> "a"], [units |-> 1, what |-> "b"], [units |-> 2, what |-> "wide"]}
ParametersAreMarked ==
    \A label \in UNION {[1..n -> Chars] : n \in 0..3} :
        \A from \in 0..Len(label) : \A to \in from..Len(label) :
            LET pair == [is |-> "pair", from |-> Units(label, from), to |-> Units(label, to)]
                chars == SubSeq(label, from + 1, to)
                named == ParameterRange(label, [is |-> "text", chars |-> chars])
            IN  /\ ParameterRange(label, pair) = <<from, to>>
                /\ SubSeq(label, named[1] + 1, named[2]) = chars

\* The order is the one the server meant, whichever fields say so.
Item(label, sort) ==
    IF sort = 0 THEN [is |-> "object", label |-> Num(label)]
    ELSE [is |-> "object", label |-> Num(label), sortText |-> Num(sort)]
SortOf(label, sort) == IF sort = 0 THEN label ELSE sort
CompletionsInOrder ==
    \A labels \in [1..3 -> 1..2], sorts \in [1..3 -> 0..2] :
        LET sent == [i \in 1..3 |-> Item(labels[i], sorts[i])]
            read == CompletionItems(JsonList(sent))
            inObject == CompletionItems([is |-> "object", items |-> JsonList(sent),
                                         isIncomplete |-> [is |-> "true"]])
            keys == SortSeq([i \in 1..3 |-> SortOf(labels[i], sorts[i])], <)
        IN  /\ read.items = inObject.items /\ ~read.incomplete /\ inObject.incomplete
            /\ Len(read.items) = 3
            /\ \E order \in [1..3 -> 1..3] :
                  /\ IsInjective(order)
                  /\ \A i \in 1..3 :
                        /\ read.items[i].label = sent[order[i]].label
                        /\ SortOf(labels[order[i]], sorts[order[i]]) = keys[i]
                        /\ i < 3 /\ keys[i] = keys[i + 1] => order[i] < order[i + 1]

\* A command is the same, bare or in an action.
OneCommandWhateverItsShape ==
    LET bare == [is |-> "object", title |-> Num(1), command |-> Num(2)]
        wrapped == [is |-> "object", title |-> Num(1), command |-> bare]
        disabled == [is |-> "object", title |-> Num(1), disabled |-> NoValue]
        read == CodeActionsOf(JsonList(<<disabled, wrapped, NoValue, bare>>))
    IN  Len(read) = 2 /\ read[1] = read[2] /\ read[1].command = bare

\* So are the words of a hover.
OneHoverWhateverItsShape ==
    LET text == [is |-> "text", lines |-> <<"fence", "words", "fence", "blank", "more">>]
        markup == [is |-> "object", value |-> text]
        hover(contents) == HoverText([is |-> "object", contents |-> contents])
    IN  /\ hover(text) = <<"words", "more">>
        /\ hover(markup) = hover(text)
        /\ hover(JsonList(<<markup, NoValue>>)) = hover(text)

RepliesAreRead ==
    /\ OneTargetWhateverItsShape /\ OneCommandWhateverItsShape /\ OneHoverWhateverItsShape
    /\ ParametersAreMarked /\ CompletionsInOrder
=============================================================================
