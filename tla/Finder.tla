------------------------------- MODULE Finder -------------------------------
(***************************************************************************)
(* The picker and the worker that finds for it (`typ-picker`, `typ-find`,  *)
(* `app/picker.rs`).                                                       *)
(*                                                                         *)
(* One thread walks the project, ranks its paths and searches its text.    *)
(* The app sends it jobs, each question under the next generation, and     *)
(* takes only the answer to the last question of either kind.  The overlay *)
(* shows whichever list its mode is about, and the mode of a file query is *)
(* read off its first character.                                           *)
(*                                                                         *)
(* A list is the question it answers: a query and, for paths, how many     *)
(* walks had been asked for when the paths were walked.  How many rows it  *)
(* has is a function of that.                                              *)
(***************************************************************************)
EXTENDS ProjectText, FiniteSets

CONSTANTS Letters,      \* what can be typed; ">" makes a file query a command
          MaxQuery,     \* bound: characters of a query
          MaxGeneration,\* bound: questions asked
          MaxRows,      \* rows the largest list has
          Window,       \* rows the overlay shows
          MayDie        \* whether the worker's thread may panic

\* The bounds are counts, and an overlay that shows its list has a row for it.
ASSUME FinderAssumption ==
    /\ {MaxQuery, MaxGeneration, MaxRows} \subseteq Nat
    /\ Window \in Nat \ {0}
    /\ MayDie \in BOOLEAN

VARIABLES jobs,         \* the channel to the worker
          batch,        \* what it drained and has not done: one of each kind
          corpus,       \* the walk its paths are from
          alive,        \* the thread
          results,      \* the channel back
          generation,   \* FindWorker::generation
          awaited,      \* awaited_filter
          walks,        \* walks asked for: history, and index_requested
          wired,        \* find_worker: Some, and believed alive
          findHits, grepHits,
          picker

worker == <<batch, corpus, alive>>
vars == <<jobs, batch, corpus, alive, results, generation, awaited, walks, wired,
          findHits, grepHits, picker>>

Nobody == <<>>
Queries == UNION {[1..n -> Letters] : n \in 0..MaxQuery}

Index(walk) == [kind |-> "Index", walk |-> walk]
Question(kind, g, query, walk) == [kind |-> kind, generation |-> g, query |-> query, walk |-> walk]
List(query, walk) == [query |-> query, walk |-> walk]
NoList == List(Nobody, 0)

\* A longer query matches less; no paths are known before a walk, and an
\* empty search finds nothing.
PathRows(list) == IF list.walk = 0 THEN 0 ELSE Max({0, MaxRows - Len(list.query)})
LineRows(list) == IF list.query = Nobody THEN 0 ELSE Max({0, MaxRows + 1 - Len(list.query)})

-----------------------------------------------------------------------------
(* The overlay. *)

Prefix == ">"
Picker(mode) == [mode |-> mode, query |-> Nobody, hits |-> NoList, lines |-> NoList,
                 commands |-> Nobody, selected |-> 0, offset |-> 0]
Closed == Picker("Closed")
IsOpen == picker.mode # "Closed"

Rows(p) == CASE p.mode = "Files" -> PathRows(p.hits)
             [] p.mode = "Search" -> LineRows(p.lines)
             [] p.mode = "Commands" -> MaxRows
             [] OTHER -> 0

\* Mutant: a shorter list leaves the selection where it was.
ClampedNever(p) == p

Clamped(p) ==
    LET selected == Max({0, Min({p.selected, Rows(p) - 1})})
    IN  [p EXCEPT !.selected = selected,
                  !.offset = Min({IF Rows(p) = 0 THEN 0 ELSE @, selected})]

AtTop(p) == [p EXCEPT !.selected = 0, !.offset = 0]
WithQuery(p, query) == IF query = p.query THEN p ELSE AtTop([p EXCEPT !.query = query])
WithMode(p, mode) == IF mode = p.mode THEN p ELSE AtTop([p EXCEPT !.mode = mode])

WithHits(p) ==
    CASE p.mode = "Files" -> Clamped([p EXCEPT !.hits = findHits'])
      [] p.mode = "Search" -> Clamped([p EXCEPT !.lines = grepHits'])
      [] OTHER -> p

\* The mode a query is in; a search stays one whatever is typed.
ModeOf(p) ==
    CASE p.mode = "Search" -> "Search"
      [] p.mode # "Search" /\ p.query # Nobody /\ p.query[1] = Prefix -> "Commands"
      [] OTHER -> "Files"

Ranked(p) == Clamped([p EXCEPT !.commands = IF p.query # Nobody /\ p.query[1] = Prefix
                                            THEN Tail(p.query) ELSE p.query])

-----------------------------------------------------------------------------
(* Asking the worker.  What it is sent is lost once its thread is gone, and *)
(* the first send after that is how the app learns of it.                   *)

Ask(asked) ==
    /\ jobs' = IF wired /\ alive THEN jobs \o asked ELSE jobs
    /\ wired' = (wired /\ (asked = <<>> \/ alive))

Questions(asked) == {n \in DOMAIN asked : asked[n].kind # "Index"}

\* The numbers that go with it; a worker let go of is still counted for.
Counted(asked) ==
    /\ generation < MaxGeneration \/ Questions(asked) = {}
    /\ generation' = generation + Cardinality(Questions(asked))
    /\ awaited' = IF Questions(asked) = {} THEN awaited
                  ELSE asked[Max(Questions(asked))].generation
    /\ walks' = walks + Cardinality(DOMAIN asked \ Questions(asked))
    /\ Ask(asked)

NextWalk == walks + 1

\* Mutant: only opening the picker asks for a walk.
RequestUnwalked(p) ==
    CASE p.mode = "Files" -> <<Question("Filter", generation + 1, p.query, walks)>>
      [] p.mode = "Search" -> <<Question("Grep", generation + 1, p.query, walks)>>
      [] OTHER -> <<>>

\* What a changed query asks: nothing for a command, and a walk before the
\* first question about paths.
Request(p) ==
    CASE p.mode = "Files" ->
            (IF walks = 0 THEN <<Index(NextWalk)>> ELSE <<>>)
            \o <<Question("Filter", generation + 1, p.query, Max({1, walks}))>>
      [] p.mode = "Search" -> <<Question("Grep", generation + 1, p.query, walks)>>
      [] OTHER -> <<>>

QueryChanged(query) ==
    LET typed == WithQuery(picker, query)
        moded == WithMode(typed, ModeOf(typed))
    IN  /\ picker' = IF moded.mode = "Commands" THEN Ranked(moded) ELSE moded
        /\ Counted(Request(moded))
        /\ UNCHANGED <<batch, corpus, alive, results, findHits, grepHits>>

-----------------------------------------------------------------------------
(* The user. *)

OpenPicker ==
    /\ ~IsOpen
    /\ picker' = Clamped([Picker("Files") EXCEPT !.hits = findHits])
    /\ Counted(<<Index(NextWalk), Question("Filter", generation + 1, Nobody, NextWalk)>>)
    /\ UNCHANGED <<batch, corpus, alive, results, findHits, grepHits>>

OpenSearch ==
    /\ ~IsOpen
    /\ picker' = Picker("Search")
    /\ grepHits' = NoList
    /\ UNCHANGED <<jobs, batch, corpus, alive, results, generation, awaited, walks, wired, findHits>>

OpenCommandPalette ==
    /\ ~IsOpen
    /\ picker' = Ranked([Picker("Commands") EXCEPT !.query = <<Prefix>>])
    /\ UNCHANGED <<jobs, batch, corpus, alive, results, generation, awaited, walks, wired,
                   findHits, grepHits>>

\* Typing a character and pasting two; an empty paste changes nothing.
Insert(letters) ==
    /\ IsOpen
    /\ Len(picker.query) + Len(letters) <= MaxQuery
    /\ QueryChanged(picker.query \o letters)

DeleteBackward ==
    /\ IsOpen
    /\ picker.query # Nobody
    /\ QueryChanged(Front(picker.query))

\* Keys, the wheel and a frame: the overlay's own state.
Looking(p) ==
    /\ IsOpen
    /\ picker' = p
    /\ UNCHANGED <<jobs, batch, corpus, alive, results, generation, awaited, walks, wired,
                   findHits, grepHits>>

MoveSelection(delta) ==
    /\ Rows(picker) > 0
    /\ Looking([picker EXCEPT !.selected = Max({0, Min({@ + delta, Rows(picker) - 1})})])

Home == Looking([picker EXCEPT !.selected = 0])

Scroll(delta) ==
    LET offset == Max({0, Min({picker.offset + delta, Rows(picker) - Window})})
        last == Rows(picker) - 1
        top == Min({offset, last})
        bottom == Min({offset + Window - 1, last})
    IN  Looking([picker EXCEPT !.offset = offset,
                               !.selected = IF last < 0 THEN @
                                            ELSE Max({top, Min({@, bottom})})])

\* `visible`, which every frame asks for.
Draw ==
    Looking([picker EXCEPT !.offset =
        CASE picker.selected < @ -> picker.selected
          [] picker.selected >= @ + Window -> picker.selected + 1 - Window
          [] OTHER -> @])

\* Enter on a row, a click on one, escape, or a click away: the overlay goes
\* and whatever was asked for it is still answered.
Choose(row) ==
    /\ row < Rows(picker)
    /\ Looking(Closed)

Close == Looking(Closed)

-----------------------------------------------------------------------------
(* The worker. *)

LastOf(kind) ==
    LET ofKind == {n \in DOMAIN jobs : jobs[n].kind = kind}
    IN  IF ofKind = {} THEN <<>> ELSE <<jobs[Max(ofKind)]>>

\* Mutant: what is queued collapses into its last job, whatever it is.
DrainLast == <<Last(jobs)>>

\* Mutant: ranked before the walk.
DrainRankFirst == LastOf("Filter") \o LastOf("Index") \o LastOf("Grep")

\* All that is queued, the last of each kind, in the order they are done.
Drain == LastOf("Index") \o LastOf("Filter") \o LastOf("Grep")

Take ==
    /\ alive /\ batch = <<>> /\ jobs # <<>>
    /\ batch' = Drain
    /\ jobs' = <<>>
    /\ UNCHANGED <<corpus, alive, results, generation, awaited, walks, wired, findHits, grepHits,
                   picker>>

\* What one job of the batch sends back.
Found(job) ==
    CASE job.kind = "Index" -> [kind |-> "Indexed", generation |-> 0, list |-> NoList, asked |-> 0]
      [] job.kind = "Filter" -> [kind |-> "Files", generation |-> job.generation,
                                 list |-> List(job.query, corpus), asked |-> job.walk]
      [] OTHER -> [kind |-> "Lines", generation |-> job.generation,
                   list |-> List(job.query, 0), asked |-> 0]

Work ==
    /\ alive /\ batch # <<>>
    /\ corpus' = IF Head(batch).kind = "Index" THEN Head(batch).walk ELSE corpus
    /\ results' = Append(results, Found(Head(batch)))
    /\ batch' = Tail(batch)
    /\ UNCHANGED <<jobs, alive, generation, awaited, walks, wired, findHits, grepHits, picker>>

\* A panic in a walk, a ranking or a search ends the thread and its channel.
Die ==
    /\ MayDie /\ alive /\ batch # <<>>
    /\ alive' = FALSE
    /\ batch' = <<>>
    /\ jobs' = <<>>
    /\ UNCHANGED <<corpus, results, generation, awaited, walks, wired, findHits, grepHits, picker>>

\* Mutant: any answer will do.
IsAwaitedAnyway(found) == TRUE

IsAwaited(found) == awaited = found.generation

HandleFound ==
    LET found == Head(results)
    IN  /\ results # <<>>
        /\ results' = Tail(results)
        /\ findHits' = IF found.kind = "Files" /\ IsAwaited(found) THEN found.list ELSE findHits
        /\ grepHits' = IF found.kind = "Lines" /\ IsAwaited(found) THEN found.list ELSE grepHits
        /\ picker' = IF found.kind # "Indexed" /\ IsAwaited(found) THEN WithHits(picker) ELSE picker
        /\ UNCHANGED <<jobs, batch, corpus, alive, generation, awaited, walks, wired>>

-----------------------------------------------------------------------------
Init ==
    /\ jobs = <<>> /\ batch = <<>> /\ results = <<>>
    /\ corpus = 0 /\ generation = 0 /\ awaited = 0 /\ walks = 0
    /\ alive = TRUE /\ wired = TRUE
    /\ findHits = NoList /\ grepHits = NoList
    /\ picker = Closed

Next ==
    \/ OpenPicker \/ OpenSearch \/ OpenCommandPalette
    \/ \E letters \in Queries \ {Nobody} : Insert(letters)
    \/ DeleteBackward
    \/ \E delta \in {-1, 1, -10, 10} : MoveSelection(delta)
    \/ \E delta \in {-1, 1} : Scroll(delta)
    \/ Home \/ Draw \/ Close
    \/ Choose(picker.selected)
    \/ Take \/ Work \/ Die \/ HandleFound

\* The thread runs and the loop reads its channel; nobody has to type.
Spec == Init /\ [][Next]_vars /\ WF_vars(Take) /\ WF_vars(Work) /\ WF_vars(HandleFound)

-----------------------------------------------------------------------------
\* Nothing asked is still to be done or to be read.
Settled == jobs = <<>> /\ batch = <<>> /\ results = <<>>

\* The selected row is a row of the list on screen, or the list is empty:
\* Enter never opens what is not there, however the list shrinks under it.
\* And the list is that of the query on screen: of commands at once and
\* exactly while it starts with the prefix, of paths and of lines once all
\* that was asked is answered.
\* (lib.rs: "a selection past the end is an out-of-bounds index on the very
\* next render"; picker.rs: "the `>` that set it, or the backspace that took
\* it away again".)
ChoiceIsARow ==
    /\ IsOpen => /\ picker.selected \in 0..Max({0, Rows(picker) - 1})
                 /\ picker.offset \in 0..Max({0, Rows(picker) - 1})
    /\ picker.mode \in {"Files", "Commands"} =>
          (picker.mode = "Commands") = (picker.query # Nobody /\ picker.query[1] = Prefix)
    /\ picker.mode = "Commands" => picker.commands = Tail(picker.query)
    /\ Settled /\ wired /\ alive =>
          /\ picker.mode = "Files" => picker.hits.query = picker.query
          /\ picker.mode = "Search" /\ picker.query # Nobody => picker.lines.query = picker.query

\* An answer that changes the list is to the query on screen, though two
\* kinds of question share one channel and a slow answer comes after the
\* query, the mode or the overlay has changed.  A search with nothing typed
\* is left out: see the README.
\* (picker.rs: "a late answer from the mode you have left can never be
\* mistaken for an answer to the one you are in".)
AnswerIsOfScreen ==
    [][HandleFound =>
        /\ picker'.hits # picker.hits => picker'.hits.query = picker.query
        /\ picker'.lines # picker.lines /\ picker.query # Nobody =>
              picker'.lines.query = picker.query]_vars

\* Paths are ranked from a walk no older than the last one asked for before
\* them, though the two travel in one queue that is drained at once.
\* (worker.rs: "a re-index must not be answered with the previous corpus".)
RankedFromTheWalk ==
    \A i \in DOMAIN results : results[i].kind = "Files" => results[i].list.walk >= results[i].asked

\* A picker left open on a query gets its list, unless the thread is gone.
\* (worker.rs drains its queue to the last job of each kind.)
EventuallyListed ==
    <>[][picker'.query = picker.query /\ picker'.mode = picker.mode]_vars =>
        <>[](alive /\ picker.mode = "Files" =>
                 picker.hits.query = picker.query /\ picker.hits.walk > 0)
=============================================================================
