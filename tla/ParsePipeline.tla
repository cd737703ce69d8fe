----------------------------- MODULE ParsePipeline -----------------------------
(***************************************************************************)
(* Syntax highlighting: one parse thread shared by every open file.        *)
(*                                                                         *)
(* The event loop asks for a parse of each file on screen whose text has   *)
(* moved on, and every tab remembers which request it waits for.  The      *)
(* thread takes the newest request and drops the ones queued before it,    *)
(* whichever tab they came from, so the loop has to notice from the        *)
(* answers that do come which ones never will.                             *)
(*                                                                         *)
(* A text is named by where it came from: which file the tab was opened    *)
(* on, how often that was reloaded, and the revision, which restarts with  *)
(* every reload.  A tree is named by the text it was parsed from.  The     *)
(* generation the editor keeps beside its tree is left out: a tab awaits   *)
(* ever higher ones, so its check never fires.  Files with no grammar ask  *)
(* for nothing.                                                            *)
(***************************************************************************)
EXTENDS Integers, Sequences, FiniteSets, SequencesExt

CONSTANTS Tabs,         \* places for an open file
          MaxPanes,     \* panes on screen
          PaneOf,       \* the pane a tab is in
          First,        \* the tab each pane shows at the start
          Unparsable,   \* tabs whose text the parser gives up on
          MaxRevision,  \* bound: edits of one buffer
          MaxBuffer,    \* bound: reloads of one file
          MaxFile,      \* bound: files opened in one place
          MaxRequests,  \* bound: nothing new happens after so many
          MayDie        \* whether the thread may panic

Panes == 1..MaxPanes

ASSUME PanesAssumption ==
    /\ MaxPanes \in Nat \ {0}
    /\ PaneOf \in [Tabs -> Panes]
    /\ First \in [Panes -> Tabs]
    /\ \A p \in Panes : PaneOf[First[p]] = p
    /\ Unparsable \subseteq Tabs
    /\ {MaxRevision, MaxBuffer, MaxFile, MaxRequests} \subseteq Nat
    /\ MaxFile # 0
    /\ MayDie \in BOOLEAN

VARIABLES tabs,        \* each tab's text, tree, and what it asked for
          shown,       \* the tab on screen in each pane
          generation,  \* of the last request
          queue,       \* requests the thread has not taken
          running,     \* the request it works on
          results,     \* answers on their way to the loop
          worker       \* the thread, and what the loop knows of it

thread == <<queue, running, results>>
vars == <<tabs, shown, generation, worker, thread>>

NoTree == [of |-> First[1], file |-> 0, buffer |-> 0, revision |-> -1]
NotParsed == -1
NoGeneration == 0
Idle == [generation |-> NoGeneration, text |-> NoTree]

Texts == [of : Tabs, file : 1..MaxFile, buffer : 0..MaxBuffer,
          revision : 0..MaxRevision]

\* A tab just opened, on the `n`th file it is opened on.
Fresh(t, n) ==
    [text |-> [of |-> t, file |-> n, buffer |-> 0, revision |-> 0],
     tree |-> NoTree, parsed |-> NotParsed, awaited |-> NoGeneration]

IsStale(tab) == tab.parsed # tab.text.revision

\* `request_parse_for` one pane.  A send to a thread that has gone tells the
\* loop so, and records nothing.
AskFor(s, t) ==
    IF ~IsStale(s.tabs[t]) \/ s.worker = "given up" THEN s
    ELSE IF s.worker = "dead" THEN [s EXCEPT !.worker = "given up"]
    ELSE [s EXCEPT
            !.generation = @ + 1,
            !.queue = Append(@, [generation |-> s.generation + 1,
                                 text |-> s.tabs[t].text]),
            !.tabs[t].parsed = s.tabs[t].text.revision,
            !.tabs[t].awaited = s.generation + 1]

\* Mutant: only the first pane's file is kept fresh.
RequestFirstPane(ts, sh) ==
    LET s == AskFor([tabs |-> ts, generation |-> generation, queue |-> queue,
                     worker |-> worker], sh[1])
    IN  /\ tabs' = s.tabs
        /\ generation' = s.generation
        /\ queue' = s.queue
        /\ worker' = s.worker
        /\ shown' = sh

\* One pane after the other is asked for, the panes showing `sh`.
AskForAll(s, sh) ==
    LET asked[p \in 0..MaxPanes] ==
            IF p = 0 THEN s ELSE AskFor(asked[p - 1], sh[p])
    IN  asked[MaxPanes]

\* `request_parse_if_stale`, the end of every turn of the loop: the tabs are
\* `ts` by then, and the panes show `sh`.
RequestParseIfStale(ts, sh) ==
    LET s == AskForAll([tabs |-> ts, generation |-> generation,
                        queue |-> queue, worker |-> worker], sh)
    IN  /\ tabs' = s.tabs
        /\ generation' = s.generation
        /\ queue' = s.queue
        /\ worker' = s.worker
        /\ shown' = sh

\* `set_event_sender` starts the thread and asks for what is open already.
Init ==
    LET s == AskForAll([tabs |-> [t \in Tabs |-> Fresh(t, 1)],
                        generation |-> 0, queue |-> <<>>,
                        worker |-> "running"], First)
    IN  /\ tabs = s.tabs
        /\ generation = s.generation
        /\ queue = s.queue
        /\ worker = s.worker
        /\ shown = First
        /\ running = Idle
        /\ results = <<>>

(***************************************************************************)
(* The event loop.                                                         *)
(***************************************************************************)
Busy == generation >= MaxRequests

\* An edit: by hand of a file on screen, by a server of any file.
Edit(t) ==
    /\ ~Busy
    /\ tabs[t].text.revision < MaxRevision
    /\ RequestParseIfStale([tabs EXCEPT ![t].text.revision = @ + 1], shown)
    /\ UNCHANGED <<running, results>>

\* `reload`, and what `handle_external_change` resets after it.
Reloaded(tab) ==
    [tab EXCEPT !.text.buffer = @ + 1, !.text.revision = 0, !.tree = NoTree,
                !.parsed = NotParsed]

\* An outside write to a file with no unsaved work, on screen or not.
Reload(t) ==
    /\ ~Busy
    /\ tabs[t].text.buffer < MaxBuffer
    /\ RequestParseIfStale([tabs EXCEPT ![t] = Reloaded(@)], shown)
    /\ UNCHANGED <<running, results>>

\* The tab is closed and another file opened in its place.
Replace(t) ==
    /\ ~Busy
    /\ tabs[t].text.file < MaxFile
    /\ RequestParseIfStale([tabs EXCEPT ![t] = Fresh(t, @.text.file + 1)],
                           shown)
    /\ UNCHANGED <<running, results>>

\* `settle_active_tab`: the pane shows another of its tabs.
Switch(t) ==
    /\ shown[PaneOf[t]] # t
    /\ RequestParseIfStale(tabs, [shown EXCEPT ![PaneOf[t]] = t])
    /\ UNCHANGED <<running, results>>

\* Mutant: the request is forgotten, what it was for is not.
ForgottenHalf(tab, g) ==
    IF tab.awaited # NoGeneration /\ tab.awaited < g
    THEN [tab EXCEPT !.awaited = NoGeneration]
    ELSE tab

\* Requests older than an answer that came will never be answered.
Forgotten(tab, g) ==
    IF tab.awaited # NoGeneration /\ tab.awaited < g
    THEN [tab EXCEPT !.awaited = NoGeneration, !.parsed = NotParsed]
    ELSE tab

\* Mutant: whichever tab has asked, if not before this.
AcceptsLater(tab, g) == tab.awaited >= g

\* The tab an answer is for: it waits for that very generation.
Accepts(tab, g) == tab.awaited = g

HandleParsed ==
    /\ results # <<>>
    /\ LET answer == Head(results)
           Delivered(tab) ==
               IF Accepts(tab, answer.generation)
               THEN [tab EXCEPT !.awaited = NoGeneration, !.tree = answer.text]
               ELSE tab
       IN  RequestParseIfStale(
               [t \in Tabs |->
                    Delivered(Forgotten(tabs[t], answer.generation))],
               shown)
    /\ results' = Tail(results)
    /\ UNCHANGED running

(***************************************************************************)
(* The thread.                                                             *)
(***************************************************************************)
\* What is queued behind a job describes newer text: the last one is run.
Newest == Last(queue)

WorkerTakes ==
    /\ worker = "running"
    /\ running = Idle
    /\ queue # <<>>
    /\ running' = Newest
    /\ queue' = <<>>
    /\ UNCHANGED <<tabs, shown, generation, worker, results>>

\* The parse ends.  One that ran into its time limit answers nothing.
WorkerDone ==
    /\ worker = "running"
    /\ running # Idle
    /\ results' = IF running.text.of \in Unparsable THEN results
                  ELSE Append(results, running)
    /\ running' = Idle
    /\ UNCHANGED <<tabs, shown, generation, worker, queue>>

\* A panic, while compiling a grammar's queries.
WorkerDies ==
    /\ MayDie
    /\ worker = "running"
    /\ running # Idle
    /\ worker' = "dead"
    /\ running' = Idle
    /\ queue' = <<>>
    /\ UNCHANGED <<tabs, shown, generation, results>>

Next ==
    \/ \E t \in Tabs : \/ Edit(t)
                       \/ Reload(t)
                       \/ Replace(t)
                       \/ Switch(t)
    \/ HandleParsed
    \/ WorkerTakes
    \/ WorkerDone
    \/ WorkerDies

Spec == Init /\ [][Next]_vars

\* The loop reads its channel and the thread works; nobody is bound to type.
Fairness ==
    /\ WF_vars(HandleParsed)
    /\ WF_vars(WorkerTakes)
    /\ WF_vars(WorkerDone)

FairSpec == Spec /\ Fairness

--------------------------------------------------------------------------------
IsShown(t) == shown[PaneOf[t]] = t
IsCurrent(t) == tabs[t].tree = tabs[t].text

Jobs == Range(queue) \cup Range(results) \cup ({running} \ {Idle})

\* Types, and: no tab waits for a request that was never made, and no two
\* wait for the same one.
TypeOK ==
    /\ tabs \in [Tabs -> [text : Texts, tree : Texts \cup {NoTree},
                          parsed : 0..MaxRevision \cup {NotParsed},
                          awaited : 0..generation]]
    /\ shown \in [Panes -> Tabs]
    /\ \A p \in Panes : PaneOf[shown[p]] = p
    /\ worker \in {"running", "dead", "given up"}
    /\ \A job \in Jobs : job.generation \in 1..generation /\ job.text \in Texts
    /\ \A t, u \in Tabs :
          tabs[t].awaited = tabs[u].awaited /\ t # u
              => tabs[t].awaited = NoGeneration

\* A tab is only ever coloured from a text of its own file: an answer that
\* comes after its tab was closed, or while another one is on screen, colours
\* nobody else.  This is about `handle_parsed`.
TreeIsOfItsFile ==
    \A t \in Tabs :
        tabs[t].tree # NoTree =>
            /\ tabs[t].tree.of = t
            /\ tabs[t].tree.file = tabs[t].text.file

\* A tab that believes its text was parsed and waits for no answer has the
\* tree of that text: the belief is what stops it from ever asking again.
\* This is about `parsed_revision`, set when a request is made.
BelievesRightly ==
    \A t \in Tabs :
        ~IsStale(tabs[t]) /\ tabs[t].awaited = NoGeneration => IsCurrent(t)

\* A file that stays on screen ends up coloured as it stands, unless the
\* thread is gone.  This is about requests dropped behind another tab's.
EventuallyColoured ==
    \A t \in Tabs \ Unparsable :
        <>[]IsShown(t) => <>[](IsCurrent(t) \/ worker # "running")

\* Types, and: no tab is wrong about having been parsed (handle_parsed).
ParseSound == TypeOK /\ BelievesRightly
================================================================================
