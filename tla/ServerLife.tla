------------------------------ MODULE ServerLife ------------------------------
(***************************************************************************)
(* The life of a language server: started for the first file that wants    *)
(* it, restarted when it exits, given up on when it exits too often,       *)
(* started again when the user asks.                                       *)
(*                                                                         *)
(* A process has a writer thread, which feeds its input, and a reader      *)
(* thread, which turns its output into events of the loop.  Whichever      *)
(* learns first that the conversation is over sends "closed".  A slot is   *)
(* one configuration and root; its id is used by every process started in  *)
(* it, so an event says the slot and not the process.  `by`, in events, is *)
(* the process, which no code has.                                         *)
(***************************************************************************)
EXTENDS Integers, Sequences, SequencesExt, FiniteSets

CONSTANTS Slots,        \* configurations and roots that have a server
          MaxRestarts,  \* MAX_RESTARTS
          CrashWindow,  \* CRASH_WINDOW
          MaxErrors,    \* MAX_CONSECUTIVE_ERRORS
          Answers,      \* what servers answer to initialize
          Frames,       \* what else they send: a note, or a bad frame
          MaxProcs,     \* bound: no process starts after so many
          MaxPipe,      \* bound: frames a reader is behind
          MaxAsked,     \* bound: times the user asks to restart
          MaxTime       \* bound: the clock

ASSUME ServerLifeAssumption ==
    /\ {MaxRestarts, MaxErrors} \subseteq Nat \ {0}
    /\ {CrashWindow, MaxProcs, MaxPipe, MaxAsked, MaxTime} \subseteq Nat
    /\ Answers \subseteq {"ready", "refused"} /\ Frames \subseteq {"note", "bad"}

VARIABLES server,  \* each slot's entry in the list of servers
          proc,    \* every process started, oldest first
          events,  \* the loop's channel
          open,    \* the editor runs
          now,     \* the clock
          asked,   \* times the user asked
          starts   \* history: when each slot's processes started, since asked

vars == <<server, proc, events, open, now, asked, starts>>

NoProc == 0
NeverStarted == [known |-> FALSE, client |-> NoProc, talk |-> "awaiting",
                 exits |-> <<>>, everReady |-> FALSE, stopped |-> FALSE]

\* A process as Client::start leaves it: its first request is queued.
Fresh(s) == [slot |-> s, runs |-> TRUE, stdin |-> TRUE, queued |-> TRUE,
             pipe |-> <<>>, answer |-> "none", errors |-> 0,
             reads |-> TRUE, writes |-> TRUE, closed |-> FALSE]

Init ==
    /\ server = [s \in Slots |-> NeverStarted]
    /\ proc = <<>>
    /\ events = <<>>
    /\ open = TRUE
    /\ now = 0
    /\ asked = 0
    /\ starts = [s \in Slots |-> <<>>]

Procs == 1..Len(proc)

\* Whether a spawn finds its binary and a process: at the bound it does not.
Spawns == IF Len(proc) < MaxProcs THEN BOOLEAN ELSE {FALSE}

-----------------------------------------------------------------------------
(* A process and its threads. *)

Says(p, frame) ==
    /\ proc[p].runs /\ Len(proc[p].pipe) < MaxPipe
    /\ proc' = [proc EXCEPT ![p].pipe = Append(@, frame),
                            ![p].answer = IF frame \in {"ready", "refused"}
                                          THEN frame ELSE @]
    /\ UNCHANGED <<server, events, open, now, asked, starts>>

AnswersInitialize(p) ==
    /\ proc[p].answer = "none" /\ ~proc[p].queued
    /\ \E frame \in Answers : Says(p, frame)

Talks(p) ==
    /\ proc[p].answer = "ready"
    /\ \E frame \in Frames : Says(p, frame)

BreaksInput(p) ==
    /\ proc[p].runs /\ proc[p].stdin
    /\ proc' = [proc EXCEPT ![p].stdin = FALSE]
    /\ UNCHANGED <<server, events, open, now, asked, starts>>

Dies(p) ==
    /\ proc[p].runs
    /\ proc' = [proc EXCEPT ![p].runs = FALSE, ![p].stdin = FALSE]
    /\ UNCHANGED <<server, events, open, now, asked, starts>>

\* The first of the two threads to end sends the event, the other nothing.
ClosedBy(p) ==
    IF proc[p].closed THEN <<>>
    ELSE <<[slot |-> proc[p].slot, says |-> "closed", by |-> p]>>

Close(p, ended) ==
    /\ proc' = [proc EXCEPT ![p] = [ended EXCEPT !.closed = TRUE]]
    /\ events' = events \o ClosedBy(p)

\* Mutant: a failed write is nobody's news.
DeafWriter(p, ended) ==
    /\ proc' = [proc EXCEPT ![p] = ended]
    /\ UNCHANGED events

FailedWrite(p, ended) == Close(p, ended)

Writer(p) ==
    /\ proc[p].writes /\ proc[p].queued
    /\ IF proc[p].stdin
       THEN /\ proc' = [proc EXCEPT ![p].queued = FALSE]
            /\ UNCHANGED events
       ELSE FailedWrite(p, [proc[p] EXCEPT !.queued = FALSE, !.writes = FALSE])
    /\ UNCHANGED <<server, open, now, asked, starts>>

ReadsFrame(p) ==
    LET frame == Head(proc[p].pipe)
        rest == [proc[p] EXCEPT !.pipe = Tail(@)]
    IN IF frame = "bad"
       THEN IF proc[p].errors + 1 >= MaxErrors
            THEN Close(p, [rest EXCEPT !.reads = FALSE, !.pipe = <<>>])
            ELSE /\ proc' = [proc EXCEPT ![p] = [rest EXCEPT !.errors = @ + 1]]
                 /\ UNCHANGED events
       ELSE /\ proc' = [proc EXCEPT ![p] = [rest EXCEPT !.errors = 0]]
            /\ events' = Append(events, [slot |-> proc[p].slot,
                                         says |-> frame, by |-> p])

Reader(p) ==
    /\ proc[p].reads
    /\ \/ proc[p].pipe # <<>> /\ ReadsFrame(p)
       \/ /\ proc[p].pipe = <<>> /\ ~proc[p].runs
          /\ Close(p, [proc[p] EXCEPT !.reads = FALSE])
    /\ UNCHANGED <<server, open, now, asked, starts>>

-----------------------------------------------------------------------------
(* The list of servers. *)

\* Dropping a client kills its process and waits for it.
\* Mutant: the process is left running.
Abandoned(p) == proc

Dropped(p) ==
    IF p = NoProc THEN proc
    ELSE [proc EXCEPT ![p].runs = FALSE, ![p].stdin = FALSE]

Talking(entry, p) ==
    [entry EXCEPT !.known = TRUE, !.client = p, !.talk = "awaiting"]
GivenUp(entry) == [entry EXCEPT !.known = TRUE, !.stopped = TRUE]

\* server_for: a file of this slot was reconciled.  A server given up on is
\* there, and starts nothing.
\* Mutant: a server given up on is one that is wanted.
WantsTheRunning(s) == server[s].client = NoProc

Wants(s) == ~server[s].known

ServerFor(s) ==
    /\ open /\ Wants(s)
    /\ \E ok \in Spawns :
           /\ proc' = IF ok THEN Append(proc, Fresh(s)) ELSE proc
           /\ server' = [server EXCEPT ![s] =
                  IF ok THEN Talking(NeverStarted, Len(proc) + 1)
                  ELSE GivenUp(NeverStarted)]
           /\ starts' = [starts EXCEPT ![s] = IF ok THEN Append(@, now) ELSE @]
    /\ UNCHANGED <<events, open, now, asked>>

\* Anything the loop has to say to a server it is talking to.
Send(s) ==
    /\ open /\ server[s].client # NoProc /\ server[s].talk = "ready"
    /\ ~proc[server[s].client].queued /\ proc[server[s].client].writes
    /\ proc' = [proc EXCEPT ![server[s].client].queued = TRUE]
    /\ UNCHANGED <<server, events, open, now, asked, starts>>

\* Mutant: what the process before proved counts for this one.
RestartedKeeping(entry, p) == Talking(entry, p)

Restarted(entry, p) == [Talking(entry, p) EXCEPT !.everReady = FALSE]

\* restart, of a slot whose client is gone and whose process `procs` records.
Restart(s, entry, procs) ==
    \E ok \in Spawns :
        /\ proc' = IF ok THEN Append(procs, Fresh(s)) ELSE procs
        /\ server' = [server EXCEPT ![s] =
               IF ok THEN Restarted(entry, Len(procs) + 1) ELSE GivenUp(entry)]
        /\ starts' = [starts EXCEPT ![s] = IF ok THEN Append(@, now) ELSE @]

Span(exits) == exits[Len(exits)] - exits[1]
Looping(exits) == Len(exits) > MaxRestarts /\ Span(exits) <= CrashWindow

\* Past the restarts that are free, the oldest exit is forgotten.
\* Mutant: no exit is ever forgotten.
KeptAll(exits) == exits

Kept(exits) == IF Len(exits) > MaxRestarts THEN Tail(exits) ELSE exits

\* after_exit, of an entry that knows whether it was ever ready.
AfterExit(s, entry) ==
    LET exits == Append(entry.exits, now)
        gone == [entry EXCEPT !.client = NoProc, !.exits = exits]
        procs == Dropped(entry.client)
    IN IF ~entry.everReady \/ Looping(exits)
       THEN /\ server' = [server EXCEPT ![s] = GivenUp(gone)]
            /\ proc' = procs
            /\ UNCHANGED starts
       ELSE Restart(s, [gone EXCEPT !.exits = Kept(exits)], procs)

\* Client::handle: the answer to initialize is the client's own business.
Heard(entry, says) ==
    LET talk == IF entry.talk = "awaiting" /\ says \in {"ready", "refused"}
                THEN says ELSE entry.talk
    IN [entry EXCEPT !.talk = talk, !.everReady = @ \/ talk = "ready"]

Handle ==
    /\ open /\ events # <<>>
    /\ events' = Tail(events)
    /\ LET s == Head(events).slot
           entry == Heard(server[s], Head(events).says)
       IN IF server[s].client = NoProc
          THEN UNCHANGED <<server, proc, starts>>
          ELSE IF Head(events).says = "closed"
          THEN AfterExit(s, entry)
          ELSE server' = [server EXCEPT ![s] = entry] /\ UNCHANGED <<proc, starts>>
    /\ UNCHANGED <<open, now, asked>>

\* restart_all, of one slot: the slots are started one after another and no
\* slot's outcome depends on another's.
RestartAsked(s) ==
    /\ open /\ asked < MaxAsked
    /\ server[s].known /\ server[s].client = NoProc
    /\ asked' = asked + 1
    /\ LET entry == [server[s] EXCEPT !.stopped = FALSE, !.exits = <<>>]
       IN \E ok \in Spawns :
              /\ proc' = IF ok THEN Append(proc, Fresh(s)) ELSE proc
              /\ server' = [server EXCEPT ![s] =
                     IF ok THEN Restarted(entry, Len(proc) + 1)
                     ELSE GivenUp(entry)]
              /\ starts' = [starts EXCEPT ![s] = IF ok THEN <<now>> ELSE <<>>]
    /\ UNCHANGED <<events, open, now>>

\* shutdown, and the clients dropped with it.
Shutdown ==
    /\ open
    /\ open' = FALSE
    /\ server' = [s \in Slots |-> [server[s] EXCEPT !.client = NoProc,
                                   !.stopped = server[s].known]]
    /\ proc' = [p \in Procs |->
           IF server[proc[p].slot].client = p
           THEN [proc[p] EXCEPT !.runs = FALSE, !.stdin = FALSE]
           ELSE proc[p]]
    /\ UNCHANGED <<events, now, asked, starts>>

Tick ==
    /\ open /\ now < MaxTime
    /\ now' = now + 1
    /\ UNCHANGED <<server, proc, events, open, asked, starts>>

\* The threads are the editor's and end with it, whose exit nobody waits for.
Next ==
    \/ \E p \in Procs : /\ open
                        /\ \/ AnswersInitialize(p) \/ Talks(p)
                           \/ BreaksInput(p) \/ Dies(p)
                           \/ Writer(p) \/ Reader(p)
    \/ \E s \in Slots : ServerFor(s) \/ Send(s) \/ RestartAsked(s)
    \/ Handle \/ Shutdown \/ Tick

Spec == Init /\ [][Next]_vars

\* The threads run and the loop takes its events.
FairSpec ==
    /\ Spec
    /\ WF_vars(Handle)
    /\ \A p \in 1..MaxProcs :
           /\ WF_vars(open /\ p \in Procs /\ Writer(p))
           /\ WF_vars(open /\ p \in Procs /\ Reader(p))

-----------------------------------------------------------------------------
(* Properties. *)

Entries ==
    [known : BOOLEAN, client : 0..MaxProcs, everReady : BOOLEAN,
     talk : {"awaiting", "ready", "refused"}, stopped : BOOLEAN,
     exits : UNION {[1..n -> 0..MaxTime] : n \in 0..MaxRestarts + 1}]

\* The states of the variables; a client is of a process of its own slot, and
\* a server given up on has none (Server, lsp/mod.rs).
TypeOK ==
    /\ server \in [Slots -> Entries]
    /\ Len(proc) <= MaxProcs
    /\ \A p \in Procs : /\ proc[p].slot \in Slots
                        /\ proc[p].errors < MaxErrors
                        /\ proc[p].answer \in {"none", "ready", "refused"}
    /\ \A s \in Slots :
           /\ server[s].client # NoProc =>
                  /\ server[s].client \in Procs
                  /\ proc[server[s].client].slot = s
                  /\ ~server[s].stopped
           /\ server[s].known /\ server[s].client = NoProc => server[s].stopped
    /\ now \in 0..MaxTime /\ asked \in 0..MaxAsked /\ open \in BOOLEAN

\* No crash loop: whatever the files reconciled and the order of the events,
\* more than MAX_RESTARTS restarts nobody asked for take longer than
\* CRASH_WINDOW (after_exit, server_for).  The first start is not a restart.
CrashLoopStops ==
    \A s \in Slots : \A i \in 2..Len(starts[s]) - MaxRestarts :
        starts[s][i + MaxRestarts] - starts[s][i] > CrashWindow

\* One process per slot: a process that runs is the one its slot's client
\* talks to, so none outlives its client or the editor (server_for, restart,
\* Drop for Transport).
OneProcess ==
    \A p \in Procs : proc[p].runs => server[proc[p].slot].client = p

\* A server is restarted by itself only when the process that ended had
\* answered initialize: one that dies before is not installed rather than
\* crashed, and restarting it would burn the window (after_exit).  Until the
\* user asks: then a late answer of the process before can be taken for one
\* of the process just started, since an event says the slot only.
RestartsWhatWorked ==
    [][\A s \in Slots :
           /\ asked = 0
           /\ server[s].client # NoProc
           /\ server'[s].client \notin {NoProc, server[s].client}
           => proc[server[s].client].answer = "ready"]_vars

\* A server that died, or whose input broke with something left to write, is
\* noticed: its slot does not stay with a client that talks to nobody
\* (Transport::spawn's two threads, after_exit).
EventuallyNoticed ==
    \A p \in 1..MaxProcs :
        /\ p \in Procs
        /\ ~proc[p].runs \/ (proc[p].queued /\ ~proc[p].stdin)
        ~> \A s \in Slots : server[s].client # p

\* Types, one process per slot, and no crash loop (server_for, after_exit).
ServersSound == TypeOK /\ OneProcess /\ CrashLoopStops
=============================================================================
