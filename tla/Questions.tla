------------------------------ MODULE Questions ------------------------------
(***************************************************************************)
(* What the editor asks language servers, and which answer it gives to     *)
(* which question.                                                         *)
(*                                                                         *)
(* Three kinds stand for the seven: a hover is asked by a key about the    *)
(* caret and abandons the one before it (definition and prepareRename are  *)
(* the same), a code action is asked at the end of a batch, one at a time  *)
(* (completion and signature help are the same but for what wants them),   *)
(* and a rename is asked by a prompt and checked by version only.  Every   *)
(* request is numbered, from one, by the client of one server process, and *)
(* the numbers start again when the server is restarted.                   *)
(*                                                                         *)
(* A text is a number that every change makes larger.  `life`, in          *)
(* questions and answers, is the process they belong to, and no code has   *)
(* it.  Carets are on lines of their own.                                  *)
(***************************************************************************)
EXTENDS Integers, Sequences, FiniteSets, SequencesExt

CONSTANTS Docs,        \* open files
          Servers,     \* slots for servers
          Carets,      \* where the caret can be
          Setups,      \* what is open, who serves it, what can happen
          MaxRetries,  \* a hover cancelled by its server is asked again
          MaxText      \* bound: edits of one file

\* A setup: the server of each open file, or none; what the servers can be
\* asked; whether the keys may leave the editor; and two bounds, on the
\* processes started in one slot and on the requests made of one process.
Kinds == {"hover", "codeAction", "rename"}
NoServer == "none"

ASSUME SetupsAssumption ==
    /\ \A s \in Setups :
          /\ DOMAIN s.serverOf \subseteq Docs
          /\ \A d \in DOMAIN s.serverOf : s.serverOf[d] \in Servers \cup {NoServer}
          /\ s.kinds \subseteq Kinds
          /\ s.mayLeave \in BOOLEAN
          /\ s.maxLives \in Nat \ {0}
          /\ s.maxId \in Nat
    /\ {MaxRetries, MaxText} \subseteq Nat
    /\ Carets # {}
    /\ NoServer \notin Docs \cup Servers

VARIABLES setup,    \* the one at work
          shown,    \* the file on screen
          caret,    \* in each file
          focus,    \* the keys are in the editor
          text,     \* of each file
          batch,    \* events were handled since the last sync
          client,   \* each slot's client
          alive,    \* its process runs
          life,     \* processes started in the slot
          nextId,   \* the last request's number, in this life
          doc,      \* what the server was told about each file
          pending,  \* questions not answered yet
          wire,     \* requests a process has not answered yet
          events,   \* what the servers said and the loop has not handled
          asked,    \* the file, caret and version last asked about
          offered,  \* the code actions on offer, maybe none, and what for
          acted,    \* history: the question and answer of this step
          refused   \* history: the last code action question was refused

editor == <<shown, caret, focus>>
servers == <<client, alive, life>>
talk == <<nextId, pending, wire>>
fixing == <<asked, offered>>
vars == <<setup, editor, text, batch, servers, doc, talk, events, fixing, acted,
          refused>>

Unknown == [known |-> FALSE, version |-> 0, text |-> 0]
NotAsked == [doc |-> NoServer, caret |-> 0, version |-> -1]
NoOffer == [doc |-> NoServer, caret |-> 0, text |-> -1]
NotActed == [kind |-> "none"]

Open == DOMAIN setup.serverOf
ServerOf == [d \in Docs |-> IF d \in Open THEN setup.serverOf[d] ELSE NoServer]

Busy == \E s \in Servers : nextId[s] >= setup.maxId

Init ==
    /\ setup \in Setups
    /\ shown \in Open
    /\ caret \in [Docs -> {CHOOSE c \in Carets : TRUE}]
    /\ focus = TRUE
    /\ text = [d \in Docs |-> 0]
    /\ batch = TRUE
    /\ client = [s \in Servers |-> "ready"]
    /\ alive = [s \in Servers |-> TRUE]
    /\ life = [s \in Servers |-> 1]
    /\ nextId = [s \in Servers |-> 1]
    /\ doc = [d \in Docs |-> Unknown]
    /\ pending = <<>>
    /\ wire = [s \in Servers |-> {}]
    /\ events = <<>>
    /\ asked = NotAsked
    /\ offered = NoOffer
    /\ acted = NotActed
    /\ refused = FALSE

(***************************************************************************)
(* Asking.                                                                 *)
(***************************************************************************)
\* `able`: the file is announced to a server that runs and offers it.
CanAsk(d, kind, docs) == docs[d].known /\ kind \in setup.kinds

\* `ask_with`: one more request, and one more question, after `waiting`.
Ask(d, kind, retries, docs, waiting) ==
    LET s == ServerOf[d]
        id == nextId[s] + 1
    IN  /\ nextId' = [nextId EXCEPT ![s] = id]
        /\ pending' = Append(waiting,
               [server |-> s, id |-> id, kind |-> kind, doc |-> d,
                caret |-> caret[d], version |-> docs[d].version,
                retries |-> retries, life |-> life[s]])
        /\ wire' = [wire EXCEPT ![s] = @ \cup
               {[id |-> id, kind |-> kind, life |-> life[s],
                 text |-> docs[d].text]}]

\* Mutant: the one before is left waiting.
CancelledKeeping(kind, waiting) == waiting

\* `cancel`: nobody waits for these any more, whatever the server does.
Cancelled(kind, waiting) ==
    LET kept[n \in 0..Len(waiting)] ==
            IF n = 0 THEN <<>>
            ELSE IF waiting[n].kind = kind THEN kept[n - 1]
            ELSE Append(kept[n - 1], waiting[n])
    IN  kept[Len(waiting)]

InFlight(kind) == \E i \in DOMAIN pending : pending[i].kind = kind

\* `ask_server_again`, about the caret as it is now.
AskServer(kind, retries, waiting) ==
    IF CanAsk(shown, kind, doc)
    THEN Ask(shown, kind, retries, doc, Cancelled(kind, waiting))
    ELSE /\ pending' = Cancelled(kind, waiting)
         /\ UNCHANGED <<nextId, wire>>

(***************************************************************************)
(* What the user does.                                                     *)
(***************************************************************************)
Handled == batch' = TRUE /\ UNCHANGED <<servers, doc>>
Quietly == UNCHANGED <<talk, events, fixing, refused>> /\ acted' = NotActed

Edit(c) ==
    /\ focus
    /\ ~Busy
    /\ text[shown] < MaxText
    /\ text' = [text EXCEPT ![shown] = @ + 1]
    /\ caret' = [caret EXCEPT ![shown] = c]
    /\ Handled
    /\ Quietly
    /\ UNCHANGED <<shown, focus>>

Move(c) ==
    /\ focus
    /\ ~Busy
    /\ caret[shown] # c
    /\ caret' = [caret EXCEPT ![shown] = c]
    /\ Handled
    /\ Quietly
    /\ UNCHANGED <<shown, focus, text>>

\* Another file is shown, wherever the keys are.
Switch(d) ==
    /\ ~Busy
    /\ d \in Open \ {shown}
    /\ shown' = d
    /\ Handled
    /\ Quietly
    /\ UNCHANGED <<caret, focus, text>>

\* The keys go to a dock, or come back.
MoveFocus ==
    /\ setup.mayLeave
    /\ ~Busy
    /\ focus' = ~focus
    /\ Handled
    /\ Quietly
    /\ UNCHANGED <<shown, caret, text>>

\* The key for hover.
AskHover ==
    /\ ~Busy
    /\ AskServer("hover", 0, pending)
    /\ Handled
    /\ UNCHANGED <<editor, text, events, fixing, refused>>
    /\ acted' = NotActed

\* `rename_to`: the prompt was answered.  A rename before it still waits.
AskRename ==
    /\ ~Busy
    /\ CanAsk(shown, "rename", doc)
    /\ Ask(shown, "rename", 0, doc, pending)
    /\ Handled
    /\ UNCHANGED <<editor, text, events, fixing, refused>>
    /\ acted' = NotActed

(***************************************************************************)
(* The end of a batch.                                                     *)
(***************************************************************************)
\* What the server of a file knows once it has been told what changed.
Synced(d) ==
    IF ServerOf[d] = NoServer \/ client[ServerOf[d]] # "ready" THEN doc[d]
    ELSE IF ~doc[d].known THEN [known |-> TRUE, version |-> 0, text |-> text[d]]
    ELSE IF doc[d].text = text[d] THEN doc[d]
    ELSE [known |-> TRUE, version |-> doc[d].version + 1, text |-> text[d]]

IsHere(offer) == offer.doc = shown /\ offer.caret = caret[shown]

\* The early returns of `settle_code_actions`.
MayAsk(docs) == focus /\ docs[shown].known /\ ~InFlight("codeAction")

\* Mutant: an edit that leaves the caret is no news.
KeyOfPlace(docs) == [doc |-> shown, caret |-> caret[shown], version |-> 0]

\* What is asked about: the file, the caret and the version.
Key(docs) ==
    [doc |-> shown, caret |-> caret[shown], version |-> docs[shown].version]

SettleCodeActions(docs) ==
    LET key == Key(docs)
    IN  /\ offered' = IF IsHere(offered) THEN offered ELSE NoOffer
        /\ IF MayAsk(docs) /\ asked # key
           THEN /\ asked' = key
                /\ refused' = FALSE
                /\ IF CanAsk(shown, "codeAction", docs)
                   THEN Ask(shown, "codeAction", 0, docs, pending)
                   ELSE UNCHANGED talk
           ELSE UNCHANGED <<asked, refused, talk>>

EndBatch ==
    /\ batch
    /\ batch' = FALSE
    /\ doc' = [d \in Docs |-> Synced(d)]
    /\ SettleCodeActions([d \in Docs |-> Synced(d)])
    /\ UNCHANGED <<editor, text, servers, events>>
    /\ acted' = NotActed

(***************************************************************************)
(* What the servers say.                                                   *)
(***************************************************************************)
\* Mutant: a number alone is taken for a name.
MatchesById(q, e) == q.id = e.id

Matches(q, e) == q.server = e.server /\ q.id = e.id

\* `take_pending`: the place of the first question it matches, or 0.
TakePending(e) == SelectInSeq(pending, LAMBDA q : Matches(q, e))

\* A position is as it was when it was asked about.
StillThere(q) == shown = q.doc /\ caret[q.doc] = q.caret

\* What `version` says: no text was sent since the question.
SameVersion(q) == doc[q.doc].known /\ doc[q.doc].version = q.version

\* Mutant: the question counts as answered.
AskNoMore == UNCHANGED asked

\* `code_actions_again`: whatever was asked counts as never asked.
AskAgain == asked' = NotAsked

\* The server's state changed under the request: the question is still open.
Modified(q, waiting) ==
    /\ acted' = NotActed
    /\ UNCHANGED <<text, offered>>
    /\ CASE q.kind = "codeAction" ->
                /\ AskAgain
                /\ pending' = waiting
                /\ UNCHANGED <<nextId, wire>>
         [] q.kind = "hover" /\ q.retries < MaxRetries ->
                /\ AskServer("hover", q.retries + 1, waiting)
                /\ UNCHANGED asked
         [] OTHER ->
                /\ pending' = waiting
                /\ UNCHANGED <<nextId, wire, asked>>

\* The server could or would not answer.  Code actions are asked for at every
\* move, so of them nothing is said, and what is on offer stays.
Refused(waiting) ==
    /\ pending' = waiting
    /\ acted' = NotActed
    /\ UNCHANGED <<text, nextId, wire, fixing>>

\* The answer is acted upon: the file's text is `text[q.doc]` as that happens.
Act(q, e) ==
    acted' = [kind |-> q.kind, question |-> q, answer |-> e,
              text |-> text[q.doc]]

Answered(q, e, waiting) ==
    LET current == SameVersion(q) /\ focus /\ StillThere(q)
    IN
    /\ pending' = waiting
    /\ UNCHANGED <<nextId, wire>>
    /\ CASE q.kind = "codeAction" /\ current ->
                /\ offered' =
                       [doc |-> q.doc, caret |-> q.caret, text |-> e.text]
                /\ Act(q, e)
                /\ UNCHANGED <<asked, text>>
         [] q.kind = "codeAction" /\ ~current ->
                /\ AskAgain
                /\ acted' = NotActed
                /\ UNCHANGED <<offered, text>>
         [] q.kind = "rename" /\ SameVersion(q) ->
                /\ text' = [text EXCEPT ![q.doc] = @ + 1]
                /\ Act(q, e)
                /\ UNCHANGED fixing
         [] q.kind = "hover" /\ StillThere(q) ->
                /\ Act(q, e)
                /\ UNCHANGED <<fixing, text>>
         [] OTHER ->
                /\ acted' = NotActed
                /\ UNCHANGED <<fixing, text>>

\* `handle_answer`.  A slot without a client drops what is said in its name.
HandleAnswer(e) ==
    LET i == TakePending(e)
    IN  /\ UNCHANGED <<servers, doc>>
        /\ IF client[e.server] = "none" \/ i = 0
           THEN /\ acted' = NotActed
                /\ UNCHANGED <<text, talk, fixing, refused>>
           ELSE LET q == pending[i]
                    waiting == RemoveAt(pending, i)
                IN  /\ CASE e.outcome = "modified" -> Modified(q, waiting)
                         [] e.outcome = "refused" -> Refused(waiting)
                         [] e.outcome = "answer" -> Answered(q, e, waiting)
                    /\ refused' = IF q.kind = "codeAction"
                                  THEN e.outcome = "refused" ELSE refused

\* The answer to `initialize`.
HandleReady(e) ==
    /\ client' = [client EXCEPT
            ![e.server] = IF @ = "starting" THEN "ready" ELSE @]
    /\ acted' = NotActed
    /\ UNCHANGED <<alive, life, doc, text, talk, fixing, refused>>

\* Mutant: the files of a server given up on stay known.
ForgottenUnlessStopped(s) ==
    [d \in Docs |-> IF ServerOf[d] = s /\ life[s] > 1 THEN Unknown ELSE doc[d]]

\* Nothing is known of what a server that is gone was told.
Forgotten(s) == [d \in Docs |-> IF ServerOf[d] = s THEN Unknown ELSE doc[d]]

\* The server is gone.  Its files are forgotten, and it is started again or
\* given up on; what it was asked still waits.
HandleClosed(e) ==
    LET s == e.server
    IN  /\ doc' = Forgotten(s)
        /\ wire' = [wire EXCEPT ![s] = {}]
        /\ \/ /\ client' = [client EXCEPT ![s] = "starting"]
              /\ alive' = [alive EXCEPT ![s] = TRUE]
              /\ life' = [life EXCEPT ![s] = @ + 1]
              /\ nextId' = [nextId EXCEPT ![s] = 1]
           \/ /\ client' = [client EXCEPT ![s] = "none"]
              /\ UNCHANGED <<alive, life, nextId>>
        /\ acted' = NotActed
        /\ UNCHANGED <<text, pending, fixing, refused>>

Handle ==
    /\ events # <<>>
    /\ LET e == Head(events)
       IN  CASE e.type = "answer" -> HandleAnswer(e)
             [] e.type = "ready" -> HandleReady(e)
             [] e.type = "closed" -> HandleClosed(e)
    /\ events' = Tail(events)
    /\ batch' = TRUE
    /\ UNCHANGED editor

(***************************************************************************)
(* The processes.                                                          *)
(***************************************************************************)
Process == UNCHANGED <<editor, text, batch, client, life, doc, nextId, pending,
                       fixing, acted, refused>>

\* A request is answered, in whatever order, if it was cancelled or not; or
\* the answer is an error, of which ContentModified is one.
Answer(s) ==
    /\ alive[s]
    /\ \E r \in wire[s], outcome \in {"answer", "modified", "refused"} :
          /\ outcome = "modified" => ~Busy
          /\ wire' = [wire EXCEPT ![s] = @ \ {r}]
          /\ events' = Append(events,
                 [type |-> "answer", server |-> s, id |-> r.id,
                  outcome |-> outcome, kind |-> r.kind, life |-> r.life,
                  text |-> r.text])
    /\ UNCHANGED alive
    /\ Process

Says(type, s) == \E i \in DOMAIN events :
    events[i].type = type /\ events[i].server = s

FinishStart(s) ==
    /\ alive[s]
    /\ client[s] = "starting"
    /\ ~Says("ready", s)
    /\ events' = Append(events, [type |-> "ready", server |-> s])
    /\ UNCHANGED <<alive, wire>>
    /\ Process

\* The process dies.  The end of its output is reported after all it said, or
\* a write that fails is, before what the loop has not handled yet.
Crash(s) ==
    /\ alive[s]
    /\ client[s] = "ready"
    /\ life[s] < setup.maxLives
    /\ \E d \in Open : ServerOf[d] = s
    /\ alive' = [alive EXCEPT ![s] = FALSE]
    /\ \E i \in 0..Len(events) :
          events' = SubSeq(events, 1, i)
                    \o <<[type |-> "closed", server |-> s]>>
                    \o SubSeq(events, i + 1, Len(events))
    /\ UNCHANGED wire
    /\ Process

Step ==
    \/ \E c \in Carets : Edit(c) \/ Move(c)
    \/ \E d \in Docs : Switch(d)
    \/ MoveFocus
    \/ AskHover
    \/ AskRename
    \/ EndBatch
    \/ Handle
    \/ \E s \in Servers : Answer(s) \/ FinishStart(s) \/ Crash(s)

Next == Step /\ UNCHANGED setup

Spec == Init /\ [][Next]_vars

\* The loop ends its batches and handles what arrives; a process that runs
\* answers what it was asked.  Nobody types and nothing crashes for sure.
Fairness ==
    /\ WF_vars(EndBatch /\ UNCHANGED setup)
    /\ WF_vars(Handle /\ UNCHANGED setup)
    /\ \A s \in Servers : /\ WF_vars(Answer(s) /\ UNCHANGED setup)
                          /\ WF_vars(FinishStart(s) /\ UNCHANGED setup)

FairSpec == Spec /\ Fairness

--------------------------------------------------------------------------------
Questions ==
    [server : Servers, id : Nat \ {0}, kind : Kinds, doc : Docs,
     caret : Carets, version : Nat, retries : 0..MaxRetries, life : Nat]

\* Types, and: a file is known to no server but one that has finished its
\* handshake.
TypeOK ==
    /\ setup \in Setups
    /\ shown \in Open
    /\ caret \in [Docs -> Carets]
    /\ {focus, batch, refused} \subseteq BOOLEAN
    /\ text \in [Docs -> Nat]
    /\ client \in [Servers -> {"ready", "starting", "none"}]
    /\ \A s \in Servers : client[s] # "none" => life[s] \in 1..setup.maxLives
    /\ \A i \in DOMAIN pending : pending[i] \in Questions
    /\ \A d \in Docs :
          /\ doc[d].known => client[ServerOf[d]] = "ready"
          /\ doc[d].known /\ ~batch => doc[d].text = text[d]

\* An answer that is acted upon is the answer to that question: the same
\* process was asked the same thing.  This is about `take_pending`.
AnswersItsQuestion ==
    acted # NotActed =>
        /\ acted.answer.kind = acted.question.kind
        /\ acted.answer.life = acted.question.life
        /\ acted.answer.server = acted.question.server

NoneCrashed == \A s \in Servers : alive[s] /\ life[s] = 1

\* The same as long as no server crashed, however alike two servers number
\* their requests and in whatever order they answer.
AnswersUntilCrash == NoneCrashed => AnswersItsQuestion

\* Of a hover, and of code actions, one question at a time waits.
OneInFlight ==
    \A i, j \in DOMAIN pending :
        /\ pending[i].kind = pending[j].kind
        /\ pending[i].kind # "rename"
        => i = j

\* What is on offer between batches, for this caret, is about the text on
\* screen once no question is in flight, as long as no server crashed and the
\* last question was not refused: a refusal (`handle_answer`) takes back
\* nothing, and the place counts as asked about.
OfferFitsText ==
    /\ NoneCrashed /\ ~batch /\ focus /\ ~refused
    /\ IsHere(offered) /\ ~InFlight("codeAction")
    => offered.text = text[shown]

\* One question of a kind waits, only files of a running server are known,
\* and what a file's server was told is its text (take_pending, Exited).
QuestionsSound == TypeOK /\ OneInFlight

\* Once the user rests in a file with a running server, what is on offer is
\* about this caret and this text, as long as no server crashed, the keys
\* never left the editor and the last question was not refused (see the
\* README for each).
EventuallyOffered ==
    <>[][UNCHANGED <<editor, text, servers>>]_vars =>
        <>[](NoneCrashed /\ ~setup.mayLeave /\ doc[shown].known /\ ~refused
             => offered = [doc |-> shown, caret |-> caret[shown],
                           text |-> text[shown]])
================================================================================
