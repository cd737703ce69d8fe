---------------------------- MODULE ServerLifeProof ----------------------------
(***************************************************************************)
(* Proofs about ServerLife: that no slot ever has two processes, that no   *)
(* crash loop outlasts its window, and that a server is restarted by itself*)
(* only when the process before had answered, for every set of slots and   *)
(* every bound.                                                            *)
(*                                                                         *)
(* The exits a slot remembers are the newest of its starts, which is what  *)
(* makes the span of one bound the other.  An answer to initialize is in   *)
(* one place at most: the pipe of its process, the loop's channel, or      *)
(* heard.  While the user has not asked, an answer under way is of the     *)
(* process its slot talks to.                                              *)
(***************************************************************************)
EXTENDS ServerLife, SequenceTheorems, TLAPS

Processes ==
    [slot : Slots, runs : BOOLEAN, stdin : BOOLEAN, queued : BOOLEAN,
     pipe : Seq({"ready", "refused", "note", "bad"}),
     answer : {"none", "ready", "refused"}, errors : 0..MaxErrors - 1,
     reads : BOOLEAN, writes : BOOLEAN, closed : BOOLEAN]

Events == [slot : Slots, says : {"ready", "refused", "note", "closed"}, by : Nat]

Servers ==
    [known : BOOLEAN, client : 0..MaxProcs, everReady : BOOLEAN,
     talk : {"awaiting", "ready", "refused"}, stopped : BOOLEAN,
     exits : Seq(0..MaxTime)]

Typed ==
    /\ server \in [Slots -> Servers]
    /\ proc \in Seq(Processes) /\ Len(proc) <= MaxProcs
    /\ events \in Seq(Events)
    /\ starts \in [Slots -> Seq(0..MaxTime)]
    /\ now \in 0..MaxTime /\ asked \in 0..MaxAsked /\ open \in BOOLEAN

\* What an entry of the list says of its process.
EntriesRight ==
    \A s \in Slots :
        /\ server[s].client # NoProc =>
               /\ server[s].known /\ ~server[s].stopped
               /\ server[s].client \in Procs
               /\ proc[server[s].client].slot = s
        /\ server[s].known /\ server[s].client = NoProc => server[s].stopped
        /\ ~server[s].known => \A p \in Procs : proc[p].slot # s

\* The exits are the newest of the starts, the first start aside.
Newest(exits, begun) ==
    /\ Len(begun) >= 1
    /\ Len(exits) <= Len(begun) - 1 /\ Len(exits) <= MaxRestarts
    /\ Len(exits) < Len(begun) - 1 => Len(exits) = MaxRestarts
    /\ \A i \in 1..Len(exits) : exits[i] = begun[Len(begun) - Len(exits) + i]

Spaced(begun) ==
    \A i \in 2..Len(begun) - MaxRestarts : begun[i + MaxRestarts] - begun[i] > CrashWindow

\* What a slot remembers of its exits.
ExitsAreStarts ==
    \A s \in Slots :
        /\ Len(server[s].exits) <= MaxRestarts + 1
        /\ server[s].client # NoProc => Newest(server[s].exits, starts[s])
        /\ ~server[s].known => Len(starts[s]) = 0

\* An event is of a process of the slot it names.
EventsRight ==
    \A i \in 1..Len(events) :
        /\ events[i].by \in Procs
        /\ events[i].slot = proc[events[i].by].slot

InPipe(p) == \E i \in 1..Len(proc[p].pipe) : proc[p].pipe[i] = "ready"
InEvents(p) ==
    \E i \in 1..Len(events) : events[i].by = p /\ events[i].says = "ready"

\* A process answers once, and its answer is in one place.
AnsweredOnce ==
    \A p \in Procs :
        /\ InPipe(p) => proc[p].answer = "ready" /\ ~InEvents(p)
        /\ InEvents(p) => proc[p].answer = "ready"
        /\ \A i, j \in 1..Len(proc[p].pipe) :
               proc[p].pipe[i] = "ready" /\ proc[p].pipe[j] = "ready" => i = j
        /\ \A i, j \in 1..Len(events) :
               /\ events[i].by = p /\ events[i].says = "ready"
               /\ events[j].by = p /\ events[j].says = "ready"
               => i = j

\* Until the user asks: a slot that has heard an answer has heard its own
\* process's, and an answer under way is its own process's.
HeardItsOwn ==
    asked = 0 => \A s \in Slots : server[s].client # NoProc =>
        /\ server[s].talk = "ready" \/ server[s].everReady =>
               /\ proc[server[s].client].answer = "ready"
               /\ ~InPipe(server[s].client) /\ ~InEvents(server[s].client)
        /\ \A p \in Procs : proc[p].slot = s /\ p # server[s].client =>
               ~InPipe(p) /\ ~InEvents(p)

LifeInv ==
    /\ Typed
    /\ EntriesRight
    /\ OneProcess
    /\ ExitsAreStarts
    /\ CrashLoopStops
    /\ EventsRight
    /\ AnsweredOnce
    /\ HeardItsOwn

-----------------------------------------------------------------------------
(***************************************************************************)
(* Processes, and what is under way of their answers.                      *)
(***************************************************************************)

\* Every process and every entry is of its type.
LEMMA TypesOfOne ==
    ASSUME Typed
    PROVE  /\ Len(proc) \in Nat /\ Len(events) \in Nat
           /\ \A p \in Procs : proc[p] \in Processes
           /\ \A s \in Slots : server[s] \in Servers
           /\ \A i \in 1..Len(events) : events[i] \in Events
  BY ElementOfSeq, LenProperties DEF Typed, Procs

\* One process changes, and none starts.
LEMMA ChangedProcess ==
    ASSUME Typed, NEW p \in Procs, NEW f \in Processes,
           proc' = [proc EXCEPT ![p] = f]
    PROVE  /\ proc' \in Seq(Processes) /\ Len(proc') = Len(proc)
           /\ Procs' = Procs
           /\ proc'[p] = f
           /\ \A q \in Procs : q # p => proc'[q] = proc[q]
<1>1. p \in 1..Len(proc)
  BY DEF Procs
<1>2. /\ proc' \in Seq(Processes) /\ Len(proc') = Len(proc)
      /\ \A q \in 1..Len(proc) : proc'[q] = IF q = p THEN f ELSE proc[q]
  BY <1>1, ExceptSeq DEF Typed
<1> QED BY <1>1, <1>2 DEF Procs

\* An event is added to the loop's channel.
LEMMA AddedEvent ==
    ASSUME Typed, NEW ev \in Events, events' = Append(events, ev)
    PROVE  /\ events' \in Seq(Events) /\ Len(events') = Len(events) + 1
           /\ events'[Len(events) + 1] = ev
           /\ \A i \in 1..Len(events) : events'[i] = events[i]
           /\ Len(events) \in Nat
  BY AppendProperties, LenProperties DEF Typed

-----------------------------------------------------------------------------
\* Nothing has started, and nobody has asked.
LEMMA InitLifeInv == Init => LifeInv
<1> SUFFICES ASSUME Init PROVE LifeInv
  OBVIOUS
<1>1. Len(proc) = 0 /\ Len(events) = 0 /\ Procs = {}
  BY EmptySeq DEF Init, Procs
<1>2. Typed
  BY <1>1, EmptySeq, ServerLifeAssumption DEF Init, Typed, NeverStarted, Servers, NoProc
<1>3. EntriesRight /\ OneProcess /\ EventsRight /\ AnsweredOnce
  BY <1>1 DEF Init, EntriesRight, OneProcess, EventsRight, AnsweredOnce, NeverStarted, NoProc
<1>4. ExitsAreStarts
  BY EmptySeq, ServerLifeAssumption DEF Init, ExitsAreStarts, NeverStarted, NoProc
<1>5. CrashLoopStops
  <2>1. \A s \in Slots : 2..Len(starts[s]) - MaxRestarts = {}
    BY EmptySeq, ServerLifeAssumption DEF Init
  <2> QED BY <2>1 DEF CrashLoopStops
<1>6. HeardItsOwn
  BY DEF Init, HeardItsOwn, NeverStarted
<1> QED BY <1>2, <1>3, <1>4, <1>5, <1>6 DEF LifeInv

-----------------------------------------------------------------------------
(***************************************************************************)
(* Steps of one process and of its threads.                                *)
(***************************************************************************)

\* A process changes: it stays in its slot, does not come back, and what is
\* under way of its answer was under way, unless it is just given.
LEMMA ProcessLifeInv ==
    ASSUME LifeInv, NEW p \in Procs, NEW f \in Processes,
           proc' = [proc EXCEPT ![p] = f],
           f.slot = proc[p].slot, f.runs => proc[p].runs,
           f.answer = proc[p].answer \/ proc[p].answer = "none",
           events' \in Seq(Events), EventsRight', AnsweredOnce',
           \A q \in Procs : InPipe(q)' \/ InEvents(q)' =>
               \/ InPipe(q) \/ InEvents(q)
               \/ q = p /\ proc[p].runs /\ proc[p].answer = "none",
           UNCHANGED <<server, open, now, asked, starts>>
    PROVE  LifeInv'
<1>0. Typed
  BY DEF LifeInv
<1>1. /\ proc' \in Seq(Processes) /\ Len(proc') = Len(proc) /\ Procs' = Procs
      /\ proc'[p] = f
      /\ \A q \in Procs : q # p => proc'[q] = proc[q]
  BY <1>0, ChangedProcess
<1>2. \A q \in Procs : /\ proc'[q].slot = proc[q].slot
                       /\ proc'[q].runs => proc[q].runs
                       /\ proc[q].answer = "ready" => proc'[q].answer = "ready"
  BY <1>1
<1>3. Typed'
  BY <1>0, <1>1 DEF Typed
<1>4. EntriesRight' /\ OneProcess'
  BY <1>1, <1>2 DEF LifeInv, EntriesRight, OneProcess
<1>5. ExitsAreStarts' /\ CrashLoopStops'
  BY DEF LifeInv, ExitsAreStarts, CrashLoopStops
<1>6. HeardItsOwn'
  <2> SUFFICES ASSUME asked = 0, NEW s \in Slots, server[s].client # NoProc
               PROVE  /\ server[s].talk = "ready" \/ server[s].everReady =>
                          /\ proc'[server[s].client].answer = "ready"
                          /\ ~InPipe(server[s].client)'
                          /\ ~InEvents(server[s].client)'
                      /\ \A q \in Procs : proc'[q].slot = s /\ q # server[s].client =>
                             ~InPipe(q)' /\ ~InEvents(q)'
    BY <1>1 DEF HeardItsOwn
  <2>1. /\ server[s].talk = "ready" \/ server[s].everReady =>
               /\ proc[server[s].client].answer = "ready"
               /\ ~InPipe(server[s].client) /\ ~InEvents(server[s].client)
        /\ \A q \in Procs : proc[q].slot = s /\ q # server[s].client =>
               ~InPipe(q) /\ ~InEvents(q)
    BY DEF LifeInv, HeardItsOwn
  <2>2. server[s].client \in Procs
    BY DEF LifeInv, EntriesRight
  <2>3. \A q \in Procs : proc[q].slot = s /\ q # server[s].client => ~proc[q].runs
    BY DEF LifeInv, OneProcess
  <2> QED BY <1>2, <2>1, <2>2, <2>3
<1> QED
  BY <1>3, <1>4, <1>5, <1>6 DEF LifeInv

\* An answer that is once in a pipe is at most once in a part of it.
LEMMA OnceInPart ==
    ASSUME NEW x, NEW y, NEW k \in Nat,
           \A i \in 1..Len(y) : i + k \in 1..Len(x) /\ y[i] = x[i + k],
           \A i, j \in 1..Len(x) : x[i] = "ready" /\ x[j] = "ready" => i = j
    PROVE  \A i, j \in 1..Len(y) : y[i] = "ready" /\ y[j] = "ready" => i = j
<1> SUFFICES ASSUME NEW i \in 1..Len(y), NEW j \in 1..Len(y), y[i] = "ready", y[j] = "ready"
             PROVE  i = j
  OBVIOUS
<1>1. i + k \in 1..Len(x) /\ x[i + k] = "ready"
  OBVIOUS
<1>2. j + k \in 1..Len(x) /\ x[j + k] = "ready"
  OBVIOUS
<1>3. i + k = j + k
  BY <1>1, <1>2
<1> QED BY <1>3

\* A step that gives no answer and takes none out of the pipe: the pipe stays,
\* is dropped, or loses its head; the loop learns nothing or something else.
LEMMA QuietLifeInv ==
    ASSUME LifeInv, NEW p \in Procs, NEW f \in Processes, NEW k \in Nat,
           proc' = [proc EXCEPT ![p] = f],
           f.slot = proc[p].slot, f.runs => proc[p].runs,
           f.answer = proc[p].answer,
           \A i \in 1..Len(f.pipe) :
               i + k \in 1..Len(proc[p].pipe) /\ f.pipe[i] = proc[p].pipe[i + k],
           \/ events' = events
           \/ \E ev \in Events : /\ events' = Append(events, ev)
                                 /\ ev.by = p /\ ev.slot = proc[p].slot
                                 /\ ev.says # "ready",
           UNCHANGED <<server, open, now, asked, starts>>
    PROVE  LifeInv'
<1>0. Typed /\ EventsRight /\ AnsweredOnce
  BY DEF LifeInv
<1>1. /\ Procs' = Procs
      /\ proc'[p] = f
      /\ \A q \in Procs : q # p => proc'[q] = proc[q]
  BY <1>0, ChangedProcess
<1>2. \A q \in Procs : proc'[q].slot = proc[q].slot /\ proc'[q].answer = proc[q].answer
  BY <1>1
<1>3. /\ events' \in Seq(Events) /\ EventsRight'
      /\ \A i \in 1..Len(events') : events'[i].says = "ready" =>
             i \in 1..Len(events) /\ events'[i] = events[i]
  <2>1. CASE events' = events
    BY <1>0, <1>1, <1>2, <2>1 DEF Typed, EventsRight
  <2>2. CASE events' # events
    <3>1. PICK ev \in Events : /\ events' = Append(events, ev)
                               /\ ev.by = p /\ ev.slot = proc[p].slot
                               /\ ev.says # "ready"
      BY <2>2
    <3>2. /\ events' \in Seq(Events) /\ Len(events') = Len(events) + 1
          /\ events'[Len(events) + 1] = ev /\ Len(events) \in Nat
          /\ \A i \in 1..Len(events) : events'[i] = events[i]
      BY <1>0, <3>1, AddedEvent
    <3>3. \A i \in 1..Len(events') : i # Len(events) + 1 => i \in 1..Len(events)
      BY <3>2
    <3> QED
      BY <1>0, <1>1, <1>2, <3>1, <3>2, <3>3 DEF EventsRight
  <2> QED BY <2>1, <2>2
<1>4. \A q \in Procs : /\ InEvents(q)' => InEvents(q)
                       /\ InPipe(q)' => InPipe(q)
  <2>1. \A q \in Procs : InEvents(q)' => InEvents(q)
    BY <1>3 DEF InEvents
  <2>2. \A q \in Procs : InPipe(q)' => InPipe(q)
    BY <1>1 DEF InPipe
  <2> QED BY <2>1, <2>2
<1>5. AnsweredOnce'
  <2> SUFFICES ASSUME NEW q \in Procs
               PROVE  /\ InPipe(q)' => proc'[q].answer = "ready" /\ ~InEvents(q)'
                      /\ InEvents(q)' => proc'[q].answer = "ready"
                      /\ \A i, j \in 1..Len(proc'[q].pipe) :
                             proc'[q].pipe[i] = "ready" /\ proc'[q].pipe[j] = "ready"
                             => i = j
                      /\ \A i, j \in 1..Len(events') :
                             /\ events'[i].by = q /\ events'[i].says = "ready"
                             /\ events'[j].by = q /\ events'[j].says = "ready"
                             => i = j
    BY <1>1 DEF AnsweredOnce
  <2>1. \A i, j \in 1..Len(proc[q].pipe) :
            proc[q].pipe[i] = "ready" /\ proc[q].pipe[j] = "ready" => i = j
    BY <1>0 DEF AnsweredOnce
  <2>2. \A i, j \in 1..Len(proc'[q].pipe) :
            proc'[q].pipe[i] = "ready" /\ proc'[q].pipe[j] = "ready" => i = j
    <3>1. CASE q = p
      <4>1. proc'[q].pipe = f.pipe
        BY <1>1, <3>1
      <4>2. \A i, j \in 1..Len(f.pipe) : f.pipe[i] = "ready" /\ f.pipe[j] = "ready" => i = j
        <5>1. \A i, j \in 1..Len(proc[p].pipe) :
                  proc[p].pipe[i] = "ready" /\ proc[p].pipe[j] = "ready" => i = j
          BY <2>1, <3>1
        <5> DEFINE x == proc[p].pipe
                   y == f.pipe
        <5>2. /\ \A i \in 1..Len(y) : i + k \in 1..Len(x) /\ y[i] = x[i + k]
              /\ \A i, j \in 1..Len(x) : x[i] = "ready" /\ x[j] = "ready" => i = j
          BY <5>1
        <5> HIDE DEF x, y
        <5>3. \A i, j \in 1..Len(y) : y[i] = "ready" /\ y[j] = "ready" => i = j
          BY <5>2, OnceInPart, Zenon
        <5> QED BY <5>3 DEF y
      <4> QED BY <4>1, <4>2
    <3>2. CASE q # p
      BY <1>1, <2>1, <3>2
    <3> QED BY <3>1, <3>2
  <2>3. \A i, j \in 1..Len(events') :
            /\ events'[i].by = q /\ events'[i].says = "ready"
            /\ events'[j].by = q /\ events'[j].says = "ready"
            => i = j
    BY <1>0, <1>3 DEF AnsweredOnce
  <2> QED BY <1>0, <1>2, <1>4, <2>2, <2>3 DEF AnsweredOnce
<1> QED
  BY <1>3, <1>4, <1>5, ProcessLifeInv

\* A step of one process whose pipe and answer stay, and nothing is heard.
LEMMA UnheardLifeInv ==
    ASSUME LifeInv, NEW p \in Procs, NEW f \in Processes,
           proc' = [proc EXCEPT ![p] = f],
           f.slot = proc[p].slot, f.runs => proc[p].runs,
           f.answer = proc[p].answer, f.pipe = proc[p].pipe,
           events' = events,
           UNCHANGED <<server, open, now, asked, starts>>
    PROVE  LifeInv'
<1>1. 0 \in Nat
  OBVIOUS
<1>2. \A i \in 1..Len(f.pipe) :
          i + 0 \in 1..Len(proc[p].pipe) /\ f.pipe[i] = proc[p].pipe[i + 0]
  OBVIOUS
<1> QED BY <1>1, <1>2, QuietLifeInv

\* The server writes a frame: an answer to initialize only if it gave none.
LEMMA SaysLifeInv ==
    ASSUME LifeInv, NEW p \in Procs, NEW frame \in {"ready", "refused", "note", "bad"},
           Says(p, frame),
           frame \in {"ready", "refused"} => proc[p].answer = "none"
    PROVE  LifeInv'
<1> DEFINE f == [proc[p] EXCEPT !.pipe = Append(@, frame),
                                !.answer = IF frame \in {"ready", "refused"}
                                           THEN frame ELSE @]
           n == Len(proc[p].pipe)
<1>0. Typed /\ EventsRight /\ AnsweredOnce /\ proc[p] \in Processes
  BY TypesOfOne DEF LifeInv
<1>1. /\ f.slot = proc[p].slot /\ f.runs = proc[p].runs /\ proc[p].runs
      /\ f.pipe = Append(proc[p].pipe, frame)
      /\ f.answer = IF frame \in {"ready", "refused"} THEN frame ELSE proc[p].answer
  BY <1>0 DEF Processes, Says
<1>2. /\ f.pipe \in Seq({"ready", "refused", "note", "bad"})
      /\ Len(f.pipe) = n + 1 /\ n \in Nat
      /\ f.pipe[n + 1] = frame
      /\ \A i \in 1..n : f.pipe[i] = proc[p].pipe[i]
  BY <1>0, <1>1, AppendProperties, LenProperties DEF Processes
<1>3. f \in Processes
  <2>1. f.answer \in {"none", "ready", "refused"}
    BY <1>0, <1>1 DEF Processes
  <2> QED BY <1>0, <1>1, <1>2, <2>1 DEF Processes
<1>4. proc' = [proc EXCEPT ![p] = f]
  BY <1>0 DEF Says, Typed, Processes
<1>5. events' = events /\ UNCHANGED <<server, open, now, asked, starts>>
  BY DEF Says
<1> HIDE DEF f, n
<1>6. /\ Procs' = Procs
      /\ proc'[p] = f
      /\ \A q \in Procs : q # p => proc'[q] = proc[q]
  BY <1>0, <1>3, <1>4, ChangedProcess
<1>7. events' \in Seq(Events) /\ EventsRight'
  BY <1>0, <1>1, <1>5, <1>6 DEF Typed, EventsRight
<1>8. \A q \in Procs : /\ InEvents(q)' => InEvents(q)
                       /\ q # p => (InPipe(q)' => InPipe(q))
  BY <1>5, <1>6 DEF InEvents, InPipe
<1>9. InPipe(p)' => InPipe(p) \/ frame = "ready"
  <2>1. \A i \in 1..n + 1 : i = n + 1 \/ i \in 1..n
    BY <1>2
  <2>2. \A i \in 1..n : f.pipe[i] = "ready" => InPipe(p)
    BY <1>2 DEF InPipe, n
  <2>3. \A i \in 1..n + 1 : f.pipe[i] = "ready" => InPipe(p) \/ frame = "ready"
    BY <1>2, <2>1, <2>2
  <2> QED BY <1>2, <1>6, <2>3 DEF InPipe
<1>10. AnsweredOnce'
  <2>1. \A q \in Procs : q # p =>
            /\ InPipe(q)' => proc'[q].answer = "ready" /\ ~InEvents(q)'
            /\ InEvents(q)' => proc'[q].answer = "ready"
            /\ \A i, j \in 1..Len(proc'[q].pipe) :
                   proc'[q].pipe[i] = "ready" /\ proc'[q].pipe[j] = "ready" => i = j
    BY <1>0, <1>6, <1>8 DEF AnsweredOnce
  <2>2. \A q \in Procs : \A i, j \in 1..Len(events') :
            /\ events'[i].by = q /\ events'[i].says = "ready"
            /\ events'[j].by = q /\ events'[j].says = "ready"
            => i = j
    BY <1>0, <1>5 DEF AnsweredOnce
  <2>3. /\ InPipe(p) => proc[p].answer = "ready" /\ ~InEvents(p)
        /\ InEvents(p) => proc[p].answer = "ready"
        /\ \A i, j \in 1..n :
               proc[p].pipe[i] = "ready" /\ proc[p].pipe[j] = "ready" => i = j
    BY <1>0 DEF AnsweredOnce, n
  <2>4. /\ InPipe(p)' => proc'[p].answer = "ready" /\ ~InEvents(p)'
        /\ InEvents(p)' => proc'[p].answer = "ready"
    BY <1>1, <1>6, <1>8, <1>9, <2>3
  <2>5. \A i, j \in 1..n + 1 : f.pipe[i] = "ready" /\ f.pipe[j] = "ready" => i = j
    <3>1. CASE frame = "ready"
      <4>1. ~InPipe(p)
        BY <2>3, <3>1
      <4>2. \A i \in 1..n : f.pipe[i] # "ready"
        BY <1>2, <4>1 DEF InPipe, n
      <4>3. \A i \in 1..n + 1 : i = n + 1 \/ i \in 1..n
        BY <1>2
      <4> QED BY <4>2, <4>3
    <3>2. CASE frame # "ready"
      <4>1. \A i \in 1..n + 1 : f.pipe[i] = "ready" =>
                i \in 1..n /\ proc[p].pipe[i] = "ready"
        BY <1>2, <3>2
      <4> QED BY <2>3, <4>1
    <3> QED BY <3>1, <3>2
  <2>6. \A i, j \in 1..Len(proc'[p].pipe) :
            proc'[p].pipe[i] = "ready" /\ proc'[p].pipe[j] = "ready" => i = j
    BY <1>2, <1>6, <2>5
  <2> QED BY <1>6, <2>1, <2>2, <2>4, <2>6 DEF AnsweredOnce
<1>11. \A q \in Procs : InPipe(q)' \/ InEvents(q)' =>
           \/ InPipe(q) \/ InEvents(q)
           \/ q = p /\ proc[p].runs /\ proc[p].answer = "none"
  BY <1>1, <1>8, <1>9
<1>12. f.answer = proc[p].answer \/ proc[p].answer = "none"
  BY <1>1
<1> QED
  BY <1>1, <1>3, <1>4, <1>5, <1>7, <1>10, <1>11, <1>12, ProcessLifeInv

-----------------------------------------------------------------------------
\* The server answers initialize, or says something else.
LEMMA TalkLifeInv ==
    ASSUME LifeInv, NEW p \in Procs, AnswersInitialize(p) \/ Talks(p)
    PROVE  LifeInv'
<1>1. CASE AnswersInitialize(p)
  <2>1. PICK frame \in Answers : Says(p, frame)
    BY <1>1 DEF AnswersInitialize
  <2>2. frame \in {"ready", "refused"} /\ proc[p].answer = "none"
    BY <1>1, ServerLifeAssumption DEF AnswersInitialize
  <2> QED BY <2>1, <2>2, SaysLifeInv
<1>2. CASE Talks(p)
  <2>1. PICK frame \in Frames : Says(p, frame)
    BY <1>2 DEF Talks
  <2>2. frame \in {"note", "bad"}
    BY ServerLifeAssumption
  <2> QED BY <2>1, <2>2, SaysLifeInv
<1> QED BY <1>1, <1>2

\* The server stops reading its input, or dies.
LEMMA EndsLifeInv ==
    ASSUME LifeInv, NEW p \in Procs, BreaksInput(p) \/ Dies(p)
    PROVE  LifeInv'
<1>0. Typed /\ proc[p] \in Processes
  BY TypesOfOne DEF LifeInv
<1>1. CASE BreaksInput(p)
  <2> DEFINE f == [proc[p] EXCEPT !.stdin = FALSE]
  <2>1. /\ f \in Processes /\ f.slot = proc[p].slot /\ f.runs = proc[p].runs
        /\ f.answer = proc[p].answer /\ f.pipe = proc[p].pipe
    BY <1>0 DEF Processes
  <2>2. proc' = [proc EXCEPT ![p] = f]
    BY <1>0, <1>1 DEF BreaksInput, Typed, Processes
  <2>3. events' = events /\ UNCHANGED <<server, open, now, asked, starts>>
    BY <1>1 DEF BreaksInput
  <2> HIDE DEF f
  <2> QED BY <2>1, <2>2, <2>3, UnheardLifeInv
<1>2. CASE Dies(p)
  <2> DEFINE f == [proc[p] EXCEPT !.runs = FALSE, !.stdin = FALSE]
  <2>1. /\ f \in Processes /\ f.slot = proc[p].slot /\ ~f.runs
        /\ f.answer = proc[p].answer /\ f.pipe = proc[p].pipe
    BY <1>0 DEF Processes
  <2>2. proc' = [proc EXCEPT ![p] = f]
    BY <1>0, <1>2 DEF Dies, Typed, Processes
  <2>3. events' = events /\ UNCHANGED <<server, open, now, asked, starts>>
    BY <1>2 DEF Dies
  <2> HIDE DEF f
  <2> QED BY <2>1, <2>2, <2>3, UnheardLifeInv
<1> QED BY <1>1, <1>2

\* The first thread to end sends the event; what was in the pipe stays there
\* or is dropped.
LEMMA CloseLifeInv ==
    ASSUME LifeInv, NEW p \in Procs, NEW ended \in Processes, Close(p, ended),
           ended.slot = proc[p].slot, ended.runs => proc[p].runs,
           ended.answer = proc[p].answer,
           ended.pipe = proc[p].pipe \/ ended.pipe = <<>>,
           UNCHANGED <<server, open, now, asked, starts>>
    PROVE  LifeInv'
<1> DEFINE f == [ended EXCEPT !.closed = TRUE]
<1>0. Typed /\ proc[p] \in Processes
  BY TypesOfOne DEF LifeInv
<1>1. /\ f \in Processes /\ f.slot = proc[p].slot /\ (f.runs => proc[p].runs)
      /\ f.answer = proc[p].answer /\ f.pipe = ended.pipe
  BY DEF Processes
<1>2. proc' = [proc EXCEPT ![p] = f]
  BY DEF Close
<1>3. /\ 0 \in Nat
      /\ \A i \in 1..Len(f.pipe) :
             i + 0 \in 1..Len(proc[p].pipe) /\ f.pipe[i] = proc[p].pipe[i + 0]
  BY <1>1, EmptySeq
<1>4. \/ events' = events
      \/ \E ev \in Events : /\ events' = Append(events, ev)
                            /\ ev.by = p /\ ev.slot = proc[p].slot
                            /\ ev.says # "ready"
  <2>1. CASE proc[p].closed
    BY <1>0, <2>1, ConcatEmptySeq DEF Close, ClosedBy, Typed
  <2>2. CASE ~proc[p].closed
    <3> DEFINE ev == [slot |-> proc[p].slot, says |-> "closed", by |-> p]
    <3>1. ev \in Events /\ ev.by = p /\ ev.slot = proc[p].slot /\ ev.says # "ready"
      BY <1>0, TypesOfOne DEF Events, Processes, Procs
    <3>2. events' = Append(events, ev)
      BY <1>0, <2>2, <3>1, AppendIsConcat DEF Close, ClosedBy, Typed
    <3> QED BY <3>1, <3>2
  <2> QED BY <2>1, <2>2
<1> HIDE DEF f
<1> QED
  BY <1>1, <1>2, <1>3, <1>4, QuietLifeInv

\* The writer thread.
LEMMA WriterLifeInv ==
    ASSUME LifeInv, NEW p \in Procs, Writer(p)
    PROVE  LifeInv'
<1>0. Typed /\ proc[p] \in Processes
  BY TypesOfOne DEF LifeInv
<1>1. CASE proc[p].stdin
  <2> DEFINE f == [proc[p] EXCEPT !.queued = FALSE]
  <2>1. /\ f \in Processes /\ f.slot = proc[p].slot /\ f.runs = proc[p].runs
        /\ f.answer = proc[p].answer /\ f.pipe = proc[p].pipe
    BY <1>0 DEF Processes
  <2>2. proc' = [proc EXCEPT ![p] = f]
    BY <1>0, <1>1 DEF Writer, Typed, Processes
  <2>3. events' = events /\ UNCHANGED <<server, open, now, asked, starts>>
    BY <1>1 DEF Writer
  <2> HIDE DEF f
  <2> QED BY <2>1, <2>2, <2>3, UnheardLifeInv
<1>2. CASE ~proc[p].stdin
  <2> DEFINE f == [proc[p] EXCEPT !.queued = FALSE, !.writes = FALSE]
  <2>1. /\ f \in Processes /\ f.slot = proc[p].slot /\ f.runs = proc[p].runs
        /\ f.answer = proc[p].answer /\ f.pipe = proc[p].pipe
    BY <1>0 DEF Processes
  <2>2. Close(p, f) /\ UNCHANGED <<server, open, now, asked, starts>>
    BY <1>2 DEF Writer, FailedWrite
  <2> HIDE DEF f
  <2> QED BY <2>1, <2>2, CloseLifeInv
<1> QED BY <1>1, <1>2

-----------------------------------------------------------------------------
\* The reader takes the answer out of the pipe and gives it to the loop.
LEMMA ReadyLifeInv ==
    ASSUME LifeInv, NEW p \in Procs, NEW f \in Processes,
           proc' = [proc EXCEPT ![p] = f],
           f.slot = proc[p].slot, f.runs = proc[p].runs,
           f.answer = proc[p].answer,
           proc[p].pipe # <<>>, proc[p].pipe[1] = "ready",
           f.pipe = Tail(proc[p].pipe),
           NEW ev \in Events, events' = Append(events, ev),
           ev.by = p, ev.slot = proc[p].slot, ev.says = "ready",
           UNCHANGED <<server, open, now, asked, starts>>
    PROVE  LifeInv'
<1>0. Typed /\ EventsRight /\ AnsweredOnce /\ proc[p] \in Processes
  BY TypesOfOne DEF LifeInv
<1>1. /\ Procs' = Procs
      /\ proc'[p] = f
      /\ \A q \in Procs : q # p => proc'[q] = proc[q]
  BY <1>0, ChangedProcess
<1>2. \A q \in Procs : proc'[q].slot = proc[q].slot /\ proc'[q].answer = proc[q].answer
  BY <1>1
<1>3. /\ events' \in Seq(Events) /\ Len(events') = Len(events) + 1
      /\ events'[Len(events) + 1] = ev /\ Len(events) \in Nat
      /\ \A i \in 1..Len(events) : events'[i] = events[i]
  BY <1>0, AddedEvent
<1>4. \A i \in 1..Len(events') : i = Len(events) + 1 \/ i \in 1..Len(events)
  BY <1>3
<1>5. EventsRight'
  BY <1>0, <1>1, <1>2, <1>3, <1>4 DEF EventsRight
<1>6. /\ Len(proc[p].pipe) \in Nat \ {0}
      /\ Len(f.pipe) = Len(proc[p].pipe) - 1
      /\ \A i \in 1..Len(f.pipe) : f.pipe[i] = proc[p].pipe[i + 1]
  BY <1>0, HeadTailProperties, LenProperties, EmptySeq DEF Processes
<1>7. /\ InPipe(p) /\ proc[p].answer = "ready" /\ ~InEvents(p)
      /\ \A i, j \in 1..Len(proc[p].pipe) :
             proc[p].pipe[i] = "ready" /\ proc[p].pipe[j] = "ready" => i = j
  <2>1. 1 \in 1..Len(proc[p].pipe)
    BY <1>6
  <2> QED BY <1>0, <2>1 DEF InPipe, AnsweredOnce
<1>8. \A i \in 1..Len(f.pipe) : f.pipe[i] # "ready"
  <2> SUFFICES ASSUME NEW i \in 1..Len(f.pipe), f.pipe[i] = "ready"
               PROVE  FALSE
    OBVIOUS
  <2>1. /\ i + 1 \in 1..Len(proc[p].pipe) /\ i + 1 # 1
        /\ 1 \in 1..Len(proc[p].pipe)
    BY <1>6
  <2>2. proc[p].pipe[i + 1] = "ready"
    BY <1>6
  <2> QED BY <1>7, <2>1, <2>2
<1>9. ~InPipe(p)' /\ \A q \in Procs : q # p => (InPipe(q)' <=> InPipe(q))
  BY <1>1, <1>8 DEF InPipe
<1>10. \A q \in Procs : q # p => (InEvents(q)' => InEvents(q))
  BY <1>3, <1>4 DEF InEvents
<1>11. AnsweredOnce'
  <2>1. \A q \in Procs : /\ InPipe(q)' => proc'[q].answer = "ready" /\ ~InEvents(q)'
                         /\ InEvents(q)' => proc'[q].answer = "ready"
    BY <1>0, <1>2, <1>7, <1>9, <1>10 DEF AnsweredOnce
  <2>2. \A q \in Procs : \A i, j \in 1..Len(proc'[q].pipe) :
            proc'[q].pipe[i] = "ready" /\ proc'[q].pipe[j] = "ready" => i = j
    <3> SUFFICES ASSUME NEW q \in Procs
                 PROVE  \A i, j \in 1..Len(proc'[q].pipe) :
                            proc'[q].pipe[i] = "ready" /\ proc'[q].pipe[j] = "ready"
                            => i = j
      OBVIOUS
    <3>1. CASE q = p
      <4>1. proc'[q].pipe = f.pipe
        BY <1>1, <3>1
      <4> QED BY <1>8, <4>1
    <3>2. CASE q # p
      <4>1. proc'[q].pipe = proc[q].pipe
        BY <1>1, <3>2
      <4> QED BY <1>0, <4>1 DEF AnsweredOnce
    <3> QED BY <3>1, <3>2
  <2>3. \A i \in 1..Len(events) : events[i].by = p => events[i].says # "ready"
    BY <1>7 DEF InEvents
  <2>4. \A q \in Procs : \A i, j \in 1..Len(events) :
            /\ events[i].by = q /\ events[i].says = "ready"
            /\ events[j].by = q /\ events[j].says = "ready"
            => i = j
    BY <1>0 DEF AnsweredOnce
  <2>5. \A q \in Procs : \A i, j \in 1..Len(events') :
            /\ events'[i].by = q /\ events'[i].says = "ready"
            /\ events'[j].by = q /\ events'[j].says = "ready"
            => i = j
    BY <1>3, <1>4, <2>3, <2>4
  <2> QED BY <1>1, <2>1, <2>2, <2>5 DEF AnsweredOnce
<1>12. \A q \in Procs : InPipe(q)' \/ InEvents(q)' => InPipe(q) \/ InEvents(q)
  BY <1>7, <1>9, <1>10
<1> QED
  BY <1>3, <1>5, <1>11, <1>12, ProcessLifeInv

\* The reader thread: a frame, or the end of the output.
LEMMA ReaderLifeInv ==
    ASSUME LifeInv, NEW p \in Procs, Reader(p)
    PROVE  LifeInv'
<1>0. Typed /\ proc[p] \in Processes
  BY TypesOfOne DEF LifeInv
<1>1. UNCHANGED <<server, open, now, asked, starts>>
  BY DEF Reader
<1>2. CASE proc[p].pipe = <<>>
  <2> DEFINE f == [proc[p] EXCEPT !.reads = FALSE]
  <2>1. /\ f \in Processes /\ f.slot = proc[p].slot /\ f.runs = proc[p].runs
        /\ f.answer = proc[p].answer /\ f.pipe = proc[p].pipe
    BY <1>0 DEF Processes
  <2>2. Close(p, f)
    BY <1>2 DEF Reader
  <2> HIDE DEF f
  <2> QED BY <1>1, <2>1, <2>2, CloseLifeInv
<1>3. CASE proc[p].pipe # <<>>
  <2> DEFINE frame == Head(proc[p].pipe)
             rest == [proc[p] EXCEPT !.pipe = Tail(@)]
             pipe == proc[p].pipe
  <2>0. ReadsFrame(p)
    BY <1>3 DEF Reader
  <2>1. /\ Tail(pipe) \in Seq({"ready", "refused", "note", "bad"})
        /\ frame = pipe[1] /\ frame \in {"ready", "refused", "note", "bad"}
        /\ Len(pipe) \in Nat \ {0} /\ Len(Tail(pipe)) = Len(pipe) - 1
        /\ \A i \in 1..Len(Tail(pipe)) : Tail(pipe)[i] = pipe[i + 1]
    BY <1>0, <1>3, HeadTailProperties, LenProperties, EmptySeq DEF Processes
  <2>2. /\ 1 \in Nat
        /\ \A i \in 1..Len(Tail(pipe)) :
               i + 1 \in 1..Len(pipe) /\ Tail(pipe)[i] = pipe[i + 1]
    BY <2>1
  <2>3. CASE frame = "bad" /\ proc[p].errors + 1 >= MaxErrors
    <3> DEFINE f == [rest EXCEPT !.reads = FALSE, !.pipe = <<>>]
    <3>1. /\ f \in Processes /\ f.slot = proc[p].slot /\ f.runs = proc[p].runs
          /\ f.answer = proc[p].answer /\ f.pipe = <<>>
      BY <1>0, EmptySeq DEF Processes
    <3>2. Close(p, f)
      BY <2>0, <2>3 DEF ReadsFrame
    <3> HIDE DEF f
    <3> QED BY <1>1, <3>1, <3>2, CloseLifeInv
  <2>4. CASE frame = "bad" /\ ~(proc[p].errors + 1 >= MaxErrors)
    <3> DEFINE f == [rest EXCEPT !.errors = @ + 1]
    <3>1. /\ f.slot = proc[p].slot /\ f.runs = proc[p].runs
          /\ f.answer = proc[p].answer /\ f.pipe = Tail(pipe)
      BY <1>0 DEF Processes
    <3>2. f \in Processes
      <4>1. rest \in Processes /\ rest.errors = proc[p].errors
        BY <1>0, <2>1 DEF Processes
      <4>2. rest.errors + 1 \in 0..MaxErrors - 1
        BY <1>0, <2>4, <4>1, ServerLifeAssumption DEF Processes
      <4> HIDE DEF rest
      <4> QED BY <4>1, <4>2 DEF Processes
    <3>3. proc' = [proc EXCEPT ![p] = f] /\ events' = events
      BY <2>0, <2>4 DEF ReadsFrame
    <3> HIDE DEF f
    <3>4. \A i \in 1..Len(f.pipe) :
              i + 1 \in 1..Len(proc[p].pipe) /\ f.pipe[i] = proc[p].pipe[i + 1]
      BY <2>2, <3>1
    <3> HIDE DEF frame, rest, pipe
    <3> QED BY <1>1, <2>2, <3>1, <3>2, <3>3, <3>4, QuietLifeInv
  <2>5. CASE frame # "bad"
    <3> DEFINE f == [rest EXCEPT !.errors = 0]
               ev == [slot |-> proc[p].slot, says |-> frame, by |-> p]
    <3>1. /\ f.slot = proc[p].slot /\ f.runs = proc[p].runs
          /\ f.answer = proc[p].answer /\ f.pipe = Tail(pipe)
      BY <1>0 DEF Processes
    <3>2. f \in Processes
      <4>1. rest \in Processes
        BY <1>0, <2>1 DEF Processes
      <4>2. 0 \in 0..MaxErrors - 1
        BY ServerLifeAssumption
      <4> HIDE DEF rest
      <4> QED BY <4>1, <4>2 DEF Processes
    <3>3. proc' = [proc EXCEPT ![p] = f] /\ events' = Append(events, ev)
      BY <2>0, <2>5 DEF ReadsFrame
    <3>4. /\ ev \in Events /\ ev.by = p /\ ev.slot = proc[p].slot
          /\ ev.says = frame
      BY <1>0, <2>1, <2>5, TypesOfOne DEF Events, Processes, Procs
    <3> HIDE DEF f, ev
    <3>5. CASE frame = "ready"
      <4>1. proc[p].pipe[1] = "ready" /\ ev.says = "ready"
        BY <2>1, <3>4, <3>5
      <4>2. f.pipe = Tail(proc[p].pipe)
        BY <3>1
      <4> HIDE DEF frame, rest, pipe
      <4> QED
        BY <1>1, <1>3, <3>1, <3>2, <3>3, <3>4, <4>1, <4>2, ReadyLifeInv
    <3>6. CASE frame # "ready"
      <4>1. \A i \in 1..Len(f.pipe) :
                i + 1 \in 1..Len(proc[p].pipe) /\ f.pipe[i] = proc[p].pipe[i + 1]
        BY <2>2, <3>1
      <4>2. ev.says # "ready"
        BY <3>4, <3>6
      <4> HIDE DEF frame, rest, pipe
      <4> QED
        BY <1>1, <2>2, <3>1, <3>2, <3>3, <3>4, <4>1, <4>2, QuietLifeInv
    <3> QED BY <3>5, <3>6
  <2> QED BY <2>3, <2>4, <2>5
<1> QED BY <1>2, <1>3

-----------------------------------------------------------------------------
(***************************************************************************)
(* The exits remembered.                                                   *)
(***************************************************************************)

\* A restart of a server that does not loop: what it remembers is still the
\* newest of its starts, and its starts are still spaced.
LEMMA NextExits ==
    ASSUME NEW x \in Seq(0..MaxTime), NEW e \in Seq(0..MaxTime), NEW t \in 0..MaxTime,
           Newest(e, x), Spaced(x), ~Looping(Append(e, t))
    PROVE  /\ Kept(Append(e, t)) \in Seq(0..MaxTime)
           /\ Newest(Kept(Append(e, t)), Append(x, t))
           /\ Spaced(Append(x, t))
<1> DEFINE a == Append(e, t)
           b == Append(x, t)
           n == Len(x)
           m == Len(e)
<1>1. /\ a \in Seq(0..MaxTime) /\ Len(a) = m + 1 /\ a[m + 1] = t
      /\ \A i \in 1..m : a[i] = e[i]
      /\ b \in Seq(0..MaxTime) /\ Len(b) = n + 1 /\ b[n + 1] = t
      /\ \A i \in 1..n : b[i] = x[i]
      /\ n \in Nat /\ m \in Nat
  BY AppendProperties, LenProperties
<1>2. /\ n >= 1 /\ m <= n - 1 /\ m <= MaxRestarts
      /\ m < n - 1 => m = MaxRestarts
      /\ \A i \in 1..m : e[i] = x[n - m + i]
  BY DEF Newest
<1>3. MaxRestarts \in Nat /\ MaxRestarts >= 1 /\ CrashWindow \in Nat
  BY ServerLifeAssumption
<1>4. \A i \in 1..m + 1 : \A j \in Int : j = n - m + i => a[i] = b[j]
  <2> SUFFICES ASSUME NEW i \in 1..m + 1, NEW j \in Int, j = n - m + i
               PROVE  a[i] = b[j]
    OBVIOUS
  <2>1. CASE i = m + 1
    BY <1>1, <2>1
  <2>2. CASE i # m + 1
    <3>1. i \in 1..m /\ j \in 1..n
      BY <1>1, <1>2, <2>2
    <3> QED BY <1>1, <1>2, <3>1
  <2> QED BY <2>1, <2>2
<1>5. ~(Len(a) > MaxRestarts /\ a[Len(a)] - a[1] <= CrashWindow)
  BY DEF Looping, Span
<1> HIDE DEF a, b, n, m
<1>6. CASE m + 1 > MaxRestarts
  <2>1. m = MaxRestarts /\ Kept(a) = Tail(a)
    BY <1>1, <1>2, <1>3, <1>6 DEF Kept
  <2> DEFINE r == Tail(a)
  <2>2. /\ r \in Seq(0..MaxTime) /\ Len(r) = m
        /\ \A i \in 1..m : r[i] = a[i + 1]
    BY <1>1, EmptySeq, HeadTailProperties
  <2> HIDE DEF r
  <2>3. \A i \in 1..m : \A j \in Int : j = n + 1 - m + i => r[i] = b[j]
    <3> SUFFICES ASSUME NEW i \in 1..m, NEW j \in Int, j = n + 1 - m + i
                 PROVE  r[i] = b[j]
      OBVIOUS
    <3>1. i + 1 \in 1..m + 1 /\ j = n - m + (i + 1)
      BY <1>1
    <3>2. a[i + 1] = b[j]
      BY <1>4, <3>1
    <3> QED BY <2>2, <3>2
  <2>4. Newest(r, b)
    <3>1. /\ Len(b) = n + 1 /\ Len(r) = m /\ n \in Nat /\ m \in Nat
          /\ m = MaxRestarts /\ m <= n
      BY <1>1, <1>2, <1>3, <2>1, <2>2
    <3>2. \A i \in 1..Len(r) : r[i] = b[Len(b) - Len(r) + i]
      <4>1. \A i \in 1..m : /\ Len(b) - Len(r) + i \in Int
                            /\ Len(b) - Len(r) + i = n + 1 - m + i
        BY <3>1
      <4> QED BY <2>3, <3>1, <4>1
    <3>3. /\ Len(b) >= 1 /\ Len(r) <= Len(b) - 1 /\ Len(r) <= MaxRestarts
          /\ Len(r) = MaxRestarts
      BY <1>3, <3>1
    <3> QED BY <3>2, <3>3, Zenon DEF Newest
  <2>5. \A i \in 2..n + 1 - MaxRestarts : b[i + MaxRestarts] - b[i] > CrashWindow
    <3> SUFFICES ASSUME NEW i \in 2..n + 1 - MaxRestarts
                 PROVE  b[i + MaxRestarts] - b[i] > CrashWindow
      OBVIOUS
    <3>1. CASE i = n + 1 - MaxRestarts
      <4>1. a[1] = b[i] /\ a[m + 1] = b[i + MaxRestarts]
        <5>1. /\ 1 \in 1..m + 1 /\ m + 1 \in 1..m + 1
              /\ i = n - m + 1 /\ i + MaxRestarts = n - m + (m + 1)
              /\ i \in Int /\ i + MaxRestarts \in Int
          BY <1>1, <1>2, <1>3, <2>1, <3>1
        <5> QED BY <1>4, <5>1
      <4>2. ~(b[i + MaxRestarts] - b[i] <= CrashWindow)
        BY <1>1, <1>5, <1>6, <4>1
      <4>3. b[i] \in Int /\ b[i + MaxRestarts] \in Int
        <5>1. i \in 1..Len(b) /\ i + MaxRestarts \in 1..Len(b)
          BY <1>1, <1>3, <3>1
        <5>2. b[i] \in 0..MaxTime /\ b[i + MaxRestarts] \in 0..MaxTime
          BY <1>1, <5>1, ElementOfSeq
        <5> QED BY <5>2
      <4> QED BY <1>3, <4>2, <4>3
    <3>2. CASE i # n + 1 - MaxRestarts
      <4>1. /\ i \in 2..n - MaxRestarts
            /\ i \in 1..n /\ i + MaxRestarts \in 1..n
        BY <1>1, <1>3, <3>2
      <4>2. x[i + MaxRestarts] - x[i] > CrashWindow
        BY <4>1 DEF Spaced, n
      <4>3. b[i] = x[i] /\ b[i + MaxRestarts] = x[i + MaxRestarts]
        BY <1>1, <1>3, <4>1
      <4> QED BY <1>1, <1>3, <4>2, <4>3
    <3> QED BY <3>1, <3>2
  <2>6. Spaced(b)
    <3>1. Len(b) - MaxRestarts = n + 1 - MaxRestarts
      BY <1>1, <1>3
    <3> QED BY <2>5, <3>1, Zenon DEF Spaced
  <2> QED BY <2>1, <2>2, <2>4, <2>6 DEF a, b, r
<1>7. CASE ~(m + 1 > MaxRestarts)
  <2>1. Kept(a) = a
    BY <1>1, <1>7 DEF Kept
  <2>2. m = n - 1
    BY <1>1, <1>2, <1>3, <1>7
  <2>3. Newest(a, b)
    <3>1. \A i \in 1..m + 1 : a[i] = b[Len(b) - Len(a) + i]
      <4>1. \A i \in 1..m + 1 : /\ Len(b) - Len(a) + i \in Int
                                /\ Len(b) - Len(a) + i = n - m + i
        BY <1>1
      <4> QED BY <1>4, <4>1
    <3> QED BY <1>1, <1>3, <1>7, <2>2, <3>1 DEF Newest
  <2>4. 2..Len(b) - MaxRestarts = {}
    BY <1>1, <1>3, <1>7, <2>2
  <2> QED BY <1>1, <2>1, <2>3, <2>4 DEF Spaced, a, b
<1> QED BY <1>1, <1>3, <1>6, <1>7

\* A first start, or one the user asked for.
LEMMA FirstStart ==
    ASSUME NEW t \in 0..MaxTime
    PROVE  /\ Newest(<<>>, <<t>>) /\ Spaced(<<t>>)
           /\ <<t>> \in Seq(0..MaxTime) /\ Spaced(<<>>)
<1>1. /\ <<t>> \in Seq(0..MaxTime) /\ Len(<<t>>) = 1 /\ Len(<<>>) = 0
  OBVIOUS
<1>2. 2..1 - MaxRestarts = {} /\ 2..0 - MaxRestarts = {} /\ 1..0 = {}
  BY ServerLifeAssumption
<1> QED BY <1>1, <1>2, ServerLifeAssumption DEF Newest, Spaced

-----------------------------------------------------------------------------
(***************************************************************************)
(* Steps of the loop.  A loop's step takes events, ends processes and      *)
(* starts one.                                                             *)
(***************************************************************************)

\* The processes, of which some may have ended.
Same(procs) ==
    /\ procs \in Seq(Processes) /\ Len(procs) = Len(proc)
    /\ \A q \in Procs : /\ procs[q].slot = proc[q].slot
                        /\ procs[q].pipe = proc[q].pipe
                        /\ procs[q].answer = proc[q].answer
                        /\ procs[q].runs => proc[q].runs

EventsTaken ==
    /\ events' \in Seq(Events)
    /\ \E k \in Nat : \A i \in 1..Len(events') :
           i + k \in 1..Len(events) /\ events'[i] = events[i + k]

\* What is under way of an answer is what was.
LEMMA TakenEvents ==
    ASSUME LifeInv, EventsTaken
    PROVE  /\ \A q : InEvents(q)' => InEvents(q)
           /\ \A i \in 1..Len(events') : \E j \in 1..Len(events) : events'[i] = events[j]
           /\ \A q \in Procs : \A i, j \in 1..Len(events') :
                  /\ events'[i].by = q /\ events'[i].says = "ready"
                  /\ events'[j].by = q /\ events'[j].says = "ready"
                  => i = j
<1>1. PICK k \in Nat : \A i \in 1..Len(events') :
          i + k \in 1..Len(events) /\ events'[i] = events[i + k]
  BY DEF EventsTaken
<1>2. \A q : InEvents(q)' => InEvents(q)
  BY <1>1 DEF InEvents
<1>3. \A i \in 1..Len(events') : \E j \in 1..Len(events) : events'[i] = events[j]
  BY <1>1
<1>4. ASSUME NEW q \in Procs, NEW i \in 1..Len(events'), NEW j \in 1..Len(events'),
             events'[i].by = q, events'[i].says = "ready",
             events'[j].by = q, events'[j].says = "ready"
      PROVE  i = j
  <2>1. /\ i + k \in 1..Len(events) /\ events[i + k].by = q /\ events[i + k].says = "ready"
        /\ j + k \in 1..Len(events) /\ events[j + k].by = q /\ events[j + k].says = "ready"
    BY <1>1, <1>4
  <2>2. i + k = j + k
    BY <2>1 DEF LifeInv, AnsweredOnce
  <2> QED BY <2>2
<1> QED BY <1>2, <1>3, <1>4

\* No event is taken, or the oldest.
LEMMA EventsTakenNow ==
    ASSUME Typed, events' = events \/ (events # <<>> /\ events' = Tail(events))
    PROVE  EventsTaken
<1>1. CASE events' = events
  <2>1. /\ 0 \in Nat
        /\ \A i \in 1..Len(events') :
               i + 0 \in 1..Len(events) /\ events'[i] = events[i + 0]
    BY <1>1
  <2> QED BY <1>1, <2>1 DEF EventsTaken, Typed
<1>2. CASE events # <<>> /\ events' = Tail(events)
  <2>1. /\ events' \in Seq(Events) /\ Len(events') = Len(events) - 1
        /\ \A i \in 1..Len(events') : events'[i] = events[i + 1]
        /\ Len(events) \in Nat
    BY <1>2, HeadTailProperties, LenProperties DEF Typed
  <2>2. /\ 1 \in Nat
        /\ \A i \in 1..Len(events') :
               i + 1 \in 1..Len(events) /\ events'[i] = events[i + 1]
    BY <2>1
  <2> QED BY <2>1, <2>2 DEF EventsTaken
<1> QED BY <1>1, <1>2

\* No process starts.
LEMMA SameProcs ==
    ASSUME LifeInv, Same(proc'), EventsTaken
    PROVE  /\ Procs' = Procs /\ EventsRight' /\ AnsweredOnce'
           /\ \A q \in Procs : /\ InPipe(q)' <=> InPipe(q)
                               /\ InEvents(q)' => InEvents(q)
<1>1. Procs' = Procs
  BY DEF Same, Procs
<1>2. EventsRight'
  BY <1>1, TakenEvents DEF LifeInv, EventsRight, Same
<1>3. \A q \in Procs : InPipe(q)' <=> InPipe(q)
  BY DEF InPipe, Same
<1>4. AnsweredOnce'
  <2>1. \A q \in Procs : /\ InPipe(q)' => proc'[q].answer = "ready" /\ ~InEvents(q)'
                         /\ InEvents(q)' => proc'[q].answer = "ready"
    BY <1>3, TakenEvents DEF LifeInv, AnsweredOnce, Same
  <2>2. \A q \in Procs : \A i, j \in 1..Len(proc'[q].pipe) :
            proc'[q].pipe[i] = "ready" /\ proc'[q].pipe[j] = "ready" => i = j
    BY DEF LifeInv, AnsweredOnce, Same
  <2> QED BY <1>1, <2>1, <2>2, TakenEvents DEF AnsweredOnce
<1> QED BY <1>1, <1>2, <1>3, <1>4, TakenEvents

\* A process starts, after some may have ended.
LEMMA MoreProcs ==
    ASSUME LifeInv, NEW procs, Same(procs), NEW s \in Slots,
           NEW new \in Nat, new = Len(proc) + 1,
           proc' = Append(procs, Fresh(s)), EventsTaken
    PROVE  /\ proc' \in Seq(Processes) /\ Len(proc') = new
           /\ Procs' = Procs \cup {new} /\ new \notin Procs
           /\ proc'[new] = Fresh(s)
           /\ \A q \in Procs : proc'[q] = procs[q]
           /\ EventsRight' /\ AnsweredOnce'
           /\ ~InPipe(new)' /\ ~InEvents(new)'
           /\ \A q \in Procs : /\ InPipe(q)' <=> InPipe(q)
                               /\ InEvents(q)' => InEvents(q)
<1>0. Typed /\ EventsRight /\ AnsweredOnce /\ Len(proc) \in Nat
  BY TypesOfOne DEF LifeInv
<1>t. /\ \A q \in Procs : InEvents(q)' => InEvents(q)
      /\ InEvents(new)' => InEvents(new)
      /\ \A i \in 1..Len(events') : \E j \in 1..Len(events) : events'[i] = events[j]
      /\ \A q \in Procs : \A i, j \in 1..Len(events') :
             /\ events'[i].by = q /\ events'[i].says = "ready"
             /\ events'[j].by = q /\ events'[j].says = "ready"
             => i = j
  BY TakenEvents
<1>1. Fresh(s) \in Processes
  BY EmptySeq, ServerLifeAssumption DEF Fresh, Processes
<1>2. /\ proc' \in Seq(Processes) /\ Len(proc') = new
      /\ proc'[new] = Fresh(s)
      /\ \A q \in 1..Len(proc) : proc'[q] = procs[q]
  BY <1>1, AppendProperties DEF Same
<1>3. Procs' = Procs \cup {new} /\ new \notin Procs
  BY <1>0, <1>2 DEF Procs
<1>4. \A q \in Procs : proc'[q] = procs[q]
  BY <1>2 DEF Procs
<1>a. \A q \in Procs : /\ proc'[q].slot = proc[q].slot
                       /\ proc'[q].pipe = proc[q].pipe
                       /\ proc'[q].answer = proc[q].answer
  BY <1>4 DEF Same
<1>5. EventsRight'
  <2> SUFFICES ASSUME NEW i \in 1..Len(events')
               PROVE  /\ events'[i].by \in Procs'
                      /\ events'[i].slot = proc'[events'[i].by].slot
    BY DEF EventsRight
  <2>1. PICK j \in 1..Len(events) : events'[i] = events[j]
    BY <1>t
  <2>2. events[j].by \in Procs /\ events[j].slot = proc[events[j].by].slot
    BY <1>0 DEF EventsRight
  <2> QED BY <1>3, <1>a, <2>1, <2>2
<1>6. ~InEvents(new)'
  BY <1>0, <1>3, <1>t DEF EventsRight, InEvents
<1>7. Len(proc'[new].pipe) = 0
  BY <1>2, EmptySeq DEF Fresh
<1>8. ~InPipe(new)'
  BY <1>7 DEF InPipe
<1>9. \A q \in Procs : InPipe(q)' <=> InPipe(q)
  BY <1>4 DEF InPipe, Same
<1>10. AnsweredOnce'
  <2>1. \A q \in Procs : /\ InPipe(q)' => proc'[q].answer = "ready" /\ ~InEvents(q)'
                         /\ InEvents(q)' => proc'[q].answer = "ready"
    BY <1>0, <1>a, <1>9, <1>t DEF AnsweredOnce
  <2>2. \A q \in Procs : \A i, j \in 1..Len(proc'[q].pipe) :
            proc'[q].pipe[i] = "ready" /\ proc'[q].pipe[j] = "ready" => i = j
    <3> SUFFICES ASSUME NEW q \in Procs
                 PROVE  \A i, j \in 1..Len(proc'[q].pipe) :
                            proc'[q].pipe[i] = "ready" /\ proc'[q].pipe[j] = "ready"
                            => i = j
      OBVIOUS
    <3>1. proc'[q].pipe = proc[q].pipe
      BY <1>a
    <3> QED BY <1>0, <3>1 DEF AnsweredOnce
  <2>3. \A i, j \in 1..Len(events') :
            ~(events'[i].by = new /\ events'[i].says = "ready")
    BY <1>6 DEF InEvents
  <2>4. \A i, j \in 1..Len(proc'[new].pipe) : i = j
    BY <1>7
  <2> QED
    BY <1>3, <1>6, <1>8, <2>1, <2>2, <2>3, <2>4, <1>t DEF AnsweredOnce
<1> QED
  BY <1>2, <1>3, <1>4, <1>5, <1>6, <1>8, <1>9, <1>10, <1>t

\* A slot's entry changes: the others' do not.
LEMMA ChangedSlot ==
    ASSUME Typed, NEW s \in Slots, NEW entry \in Servers,
           server' = [server EXCEPT ![s] = entry],
           NEW begun \in Seq(0..MaxTime), starts' = [starts EXCEPT ![s] = begun]
    PROVE  /\ server' \in [Slots -> Servers] /\ starts' \in [Slots -> Seq(0..MaxTime)]
           /\ server'[s] = entry /\ starts'[s] = begun
           /\ \A t \in Slots : t # s => server'[t] = server[t] /\ starts'[t] = starts[t]
<1>1. server' \in [Slots -> Servers] /\ starts' \in [Slots -> Seq(0..MaxTime)]
  BY DEF Typed
<1> QED BY <1>1 DEF Typed

\* A slot gets a process: it had none that runs, and until the user asks no
\* answer is under way to it.
LEMMA StartLifeInv ==
    ASSUME LifeInv, NEW s \in Slots, NEW procs, Same(procs),
           Len(proc) < MaxProcs, NEW new \in Nat, new = Len(proc) + 1,
           \A q \in Procs : proc[q].slot = s => ~procs[q].runs,
           proc' = Append(procs, Fresh(s)), EventsTaken,
           NEW entry \in Servers, server' = [server EXCEPT ![s] = entry],
           entry.client = new, entry.known, ~entry.stopped, entry.talk = "awaiting",
           asked' = 0 => /\ asked = 0 /\ ~entry.everReady
                         /\ \A q \in Procs : proc[q].slot = s =>
                                ~InPipe(q) /\ ~InEvents(q),
           NEW begun \in Seq(0..MaxTime), starts' = [starts EXCEPT ![s] = begun],
           Newest(entry.exits, begun), Spaced(begun),
           asked' \in 0..MaxAsked, UNCHANGED <<open, now>>
    PROVE  LifeInv'
<1>0. Typed
  BY DEF LifeInv
<1>1. /\ server' \in [Slots -> Servers] /\ starts' \in [Slots -> Seq(0..MaxTime)]
      /\ server'[s] = entry /\ starts'[s] = begun
      /\ \A t \in Slots : t # s => server'[t] = server[t] /\ starts'[t] = starts[t]
  BY <1>0, ChangedSlot
<1>2. /\ proc' \in Seq(Processes) /\ Len(proc') = new
      /\ Procs' = Procs \cup {new} /\ new \notin Procs
      /\ proc'[new] = Fresh(s)
      /\ \A q \in Procs : proc'[q] = procs[q]
      /\ EventsRight' /\ AnsweredOnce'
      /\ ~InPipe(new)' /\ ~InEvents(new)'
      /\ \A q \in Procs : /\ InPipe(q)' <=> InPipe(q)
                          /\ InEvents(q)' => InEvents(q)
  BY MoreProcs
<1>3. /\ proc'[new].slot = s /\ new # NoProc
      /\ \A q \in Procs : /\ proc'[q].slot = proc[q].slot
                          /\ proc'[q].answer = proc[q].answer
                          /\ proc'[q].runs => proc[q].runs
                          /\ proc[q].slot = s => ~proc'[q].runs
  BY <1>2 DEF Same, Fresh, NoProc, Procs
<1>4. Typed'
  <2>1. events' \in Seq(Events)
    BY DEF EventsTaken
  <2>2. now' \in 0..MaxTime /\ open' \in BOOLEAN /\ new <= MaxProcs
    BY <1>0, ServerLifeAssumption DEF Typed
  <2> QED BY <1>1, <1>2, <2>1, <2>2 DEF Typed
<1>5. EntriesRight'
  <2> SUFFICES ASSUME NEW t \in Slots
               PROVE  /\ server'[t].client # NoProc =>
                           /\ server'[t].known /\ ~server'[t].stopped
                           /\ server'[t].client \in Procs'
                           /\ proc'[server'[t].client].slot = t
                      /\ server'[t].known /\ server'[t].client = NoProc
                         => server'[t].stopped
                      /\ ~server'[t].known => \A q \in Procs' : proc'[q].slot # t
    BY DEF EntriesRight
  <2>1. CASE t = s
    BY <1>1, <1>2, <1>3, <2>1
  <2>2. CASE t # s
    <3>1. server'[t] = server[t]
      BY <1>1, <2>2
    <3>2. /\ server[t].client # NoProc =>
               /\ server[t].known /\ ~server[t].stopped
               /\ server[t].client \in Procs
               /\ proc[server[t].client].slot = t
          /\ server[t].known /\ server[t].client = NoProc => server[t].stopped
          /\ ~server[t].known => \A q \in Procs : proc[q].slot # t
      BY DEF LifeInv, EntriesRight
    <3>3. \A q \in Procs' : proc'[q].slot = t => q \in Procs /\ proc[q].slot = t
      BY <1>2, <1>3, <2>2
    <3>4. server[t].client \in Procs => /\ server[t].client \in Procs'
                                       /\ proc'[server[t].client].slot = t
                                          <=> proc[server[t].client].slot = t
      BY <1>2, <1>3
    <3> QED BY <3>1, <3>2, <3>3, <3>4
  <2> QED BY <2>1, <2>2
<1>6. OneProcess'
  <2> SUFFICES ASSUME NEW q \in Procs', proc'[q].runs
               PROVE  server'[proc'[q].slot].client = q
    BY DEF OneProcess
  <2>1. CASE q = new
    <3>1. proc'[q].slot = s /\ server'[s].client = new
      BY <1>1, <1>3, <2>1
    <3> QED BY <2>1, <3>1
  <2>2. CASE q # new
    <3>1. q \in Procs /\ proc[q].runs /\ proc[q].slot # s /\ proc'[q].slot = proc[q].slot
      BY <1>2, <1>3, <2>2
    <3>2. server[proc[q].slot].client = q /\ proc[q].slot \in Slots
      BY <1>0, <3>1, TypesOfOne DEF LifeInv, OneProcess, Processes
    <3> QED BY <1>1, <3>1, <3>2
  <2> QED BY <2>1, <2>2
<1>7. ExitsAreStarts'
  <2>1. Len(entry.exits) <= MaxRestarts + 1
    BY LenProperties, ServerLifeAssumption DEF Newest, Servers
  <2>2. \A t \in Slots : t # s =>
            /\ Len(server'[t].exits) <= MaxRestarts + 1
            /\ server'[t].client # NoProc => Newest(server'[t].exits, starts'[t])
            /\ ~server'[t].known => Len(starts'[t]) = 0
    BY <1>1 DEF LifeInv, ExitsAreStarts
  <2>3. ExitsAreStarts' <=>
            \A t \in Slots :
                /\ Len(server'[t].exits) <= MaxRestarts + 1
                /\ server'[t].client # NoProc => Newest(server'[t].exits, starts'[t])
                /\ ~server'[t].known => Len(starts'[t]) = 0
    BY DEF ExitsAreStarts, Newest
  <2> QED BY <1>1, <2>1, <2>2, <2>3
<1>8. CrashLoopStops'
  <2>1. \A t \in Slots : t # s => Spaced(starts'[t])
    BY <1>1 DEF LifeInv, CrashLoopStops, Spaced
  <2>2. \A t \in Slots : Spaced(starts'[t])
    BY <1>1, <2>1
  <2> QED BY <2>2 DEF CrashLoopStops, Spaced
<1>9. HeardItsOwn'
  <2> SUFFICES ASSUME asked' = 0, NEW t \in Slots, server'[t].client # NoProc
               PROVE  /\ server'[t].talk = "ready" \/ server'[t].everReady =>
                          /\ proc'[server'[t].client].answer = "ready"
                          /\ ~InPipe(server[t].client)'
                          /\ ~InEvents(server[t].client)'
                      /\ \A q \in Procs' : proc'[q].slot = t /\ q # server'[t].client =>
                             ~InPipe(q)' /\ ~InEvents(q)'
    BY DEF HeardItsOwn
  <2>1. CASE t = s
    <3>1. /\ server'[t].client = new /\ server'[t].talk = "awaiting"
          /\ ~server'[t].everReady
      BY <1>1, <2>1
    <3>2. \A q \in Procs' : proc'[q].slot = t /\ q # new => q \in Procs /\ proc[q].slot = s
      BY <1>2, <1>3, <2>1
    <3> QED BY <1>2, <3>1, <3>2
  <2>2. CASE t # s
    <3>1. server'[t] = server[t] /\ server[t].client \in Procs
      BY <1>1, <2>2 DEF LifeInv, EntriesRight
    <3>2. /\ server[t].talk = "ready" \/ server[t].everReady =>
              /\ proc[server[t].client].answer = "ready"
              /\ ~InPipe(server[t].client) /\ ~InEvents(server[t].client)
          /\ \A q \in Procs : proc[q].slot = t /\ q # server[t].client =>
                 ~InPipe(q) /\ ~InEvents(q)
      BY <3>1 DEF LifeInv, HeardItsOwn
    <3>3. \A q \in Procs' : proc'[q].slot = t => q \in Procs /\ proc[q].slot = t
      BY <1>2, <1>3, <2>2
    <3>4. PICK c \in Procs : c = server[t].client
      BY <3>1
    <3>5. InPipe(server[t].client)' <=> InPipe(c)'
      BY <3>1, <3>4 DEF InPipe
    <3>6. InEvents(server[t].client)' <=> InEvents(c)'
      BY <3>1, <3>4 DEF InEvents
    <3>7. /\ server[t].talk = "ready" \/ server[t].everReady =>
              /\ proc'[c].answer = "ready" /\ ~InPipe(c)' /\ ~InEvents(c)'
          /\ \A q \in Procs : proc[q].slot = t /\ q # c => ~InPipe(q)' /\ ~InEvents(q)'
      BY <1>2, <1>3, <3>2, <3>4
    <3> QED BY <3>1, <3>3, <3>4, <3>5, <3>6, <3>7
  <2> QED BY <2>1, <2>2
<1> QED
  BY <1>2, <1>4, <1>5, <1>6, <1>7, <1>8, <1>9 DEF LifeInv

\* No process starts and every slot keeps its process or loses it: a slot that
\* keeps it has not heard more, or has heard its own process's answer.
LEMMA KeepLifeInv ==
    ASSUME LifeInv, Same(proc'), EventsTaken,
           server' \in [Slots -> Servers],
           starts' \in [Slots -> Seq(0..MaxTime)],
           \A s \in Slots :
               \/ /\ server'[s].client = NoProc
                  /\ server'[s].known => server'[s].stopped
                  /\ Len(server'[s].exits) <= MaxRestarts + 1
                  /\ ~server'[s].known => ~server[s].known /\ Len(starts'[s]) = 0
                  /\ \A q \in Procs : proc[q].slot = s => ~proc'[q].runs
                  /\ Spaced(starts'[s])
               \/ /\ starts'[s] = starts[s]
                  /\ server'[s].known = server[s].known
                  /\ server'[s].client = server[s].client
                  /\ server'[s].stopped = server[s].stopped
                  /\ server'[s].exits = server[s].exits
                  /\ asked' = 0 /\ server[s].client # NoProc =>
                         \/ server'[s].talk = "ready" \/ server'[s].everReady =>
                                server[s].talk = "ready" \/ server[s].everReady
                         \/ /\ proc[server[s].client].answer = "ready"
                            /\ ~InPipe(server[s].client)
                            /\ \A i \in 1..Len(events') :
                                   ~(/\ events'[i].by = server[s].client
                                     /\ events'[i].says = "ready"),
           asked' \in 0..MaxAsked, asked' = 0 => asked = 0,
           now' \in 0..MaxTime, open' \in BOOLEAN
    PROVE  LifeInv'
<1>0. Typed
  BY DEF LifeInv
<1>1. /\ Procs' = Procs /\ EventsRight' /\ AnsweredOnce'
      /\ \A q \in Procs : /\ InPipe(q)' <=> InPipe(q)
                          /\ InEvents(q)' => InEvents(q)
  BY SameProcs
<1>2. \A q \in Procs : /\ proc'[q].slot = proc[q].slot
                       /\ proc'[q].answer = proc[q].answer
                       /\ proc'[q].runs => proc[q].runs
                       /\ proc[q].slot \in Slots
  BY <1>0, TypesOfOne DEF Same, Processes
<1>3. Typed'
  BY <1>0 DEF Typed, Same, EventsTaken
<1>4. ASSUME NEW s \in Slots
      PROVE  /\ server'[s].client # NoProc =>
                  /\ server'[s].client = server[s].client
                  /\ server'[s].known /\ ~server'[s].stopped
                  /\ server'[s].client \in Procs
                  /\ proc[server'[s].client].slot = s
             /\ server'[s].known /\ server'[s].client = NoProc => server'[s].stopped
             /\ ~server'[s].known => \A q \in Procs : proc[q].slot # s
             /\ Len(server'[s].exits) <= MaxRestarts + 1
             /\ server'[s].client # NoProc => Newest(server'[s].exits, starts'[s])
             /\ ~server'[s].known => Len(starts'[s]) = 0
             /\ Spaced(starts'[s])
             /\ \A q \in Procs : proc[q].slot = s /\ proc'[q].runs => server'[s].client = q
  <2>1. /\ server[s].client # NoProc =>
               /\ server[s].known /\ ~server[s].stopped
               /\ server[s].client \in Procs
               /\ proc[server[s].client].slot = s
        /\ server[s].known /\ server[s].client = NoProc => server[s].stopped
        /\ ~server[s].known => \A q \in Procs : proc[q].slot # s
    BY DEF LifeInv, EntriesRight
  <2>2. /\ Len(server[s].exits) <= MaxRestarts + 1
        /\ server[s].client # NoProc => Newest(server[s].exits, starts[s])
        /\ ~server[s].known => Len(starts[s]) = 0
        /\ Spaced(starts[s])
    BY DEF LifeInv, ExitsAreStarts, CrashLoopStops, Spaced
  <2>3. \A q \in Procs : proc[q].slot = s /\ proc'[q].runs => server[s].client = q
    BY <1>2 DEF LifeInv, OneProcess
  <2> QED BY <2>1, <2>2, <2>3
<1>5. EntriesRight'
  BY <1>1, <1>2, <1>4 DEF EntriesRight
<1>6. OneProcess'
  BY <1>1, <1>2, <1>4 DEF OneProcess
<1>7. ExitsAreStarts'
  <2>1. ExitsAreStarts' <=>
            \A t \in Slots :
                /\ Len(server'[t].exits) <= MaxRestarts + 1
                /\ server'[t].client # NoProc => Newest(server'[t].exits, starts'[t])
                /\ ~server'[t].known => Len(starts'[t]) = 0
    BY DEF ExitsAreStarts, Newest
  <2> QED BY <1>4, <2>1
<1>8. CrashLoopStops'
  BY <1>4 DEF CrashLoopStops, Spaced
<1>9. HeardItsOwn'
  <2> SUFFICES ASSUME asked' = 0, NEW s \in Slots, server'[s].client # NoProc
               PROVE  /\ server'[s].talk = "ready" \/ server'[s].everReady =>
                          /\ proc'[server'[s].client].answer = "ready"
                          /\ ~InPipe(server[s].client)'
                          /\ ~InEvents(server[s].client)'
                      /\ \A q \in Procs' : proc'[q].slot = s /\ q # server'[s].client =>
                             ~InPipe(q)' /\ ~InEvents(q)'
    BY DEF HeardItsOwn
  <2>1. PICK c \in Procs : c = server[s].client /\ c = server'[s].client /\ proc[c].slot = s
    BY <1>4
  <2>2. InPipe(server[s].client)' <=> InPipe(c)'
    BY <2>1 DEF InPipe
  <2>3. InEvents(server[s].client)' <=> InEvents(c)'
    BY <2>1 DEF InEvents
  <2>4. /\ server[s].talk = "ready" \/ server[s].everReady =>
              proc[c].answer = "ready" /\ ~InPipe(c) /\ ~InEvents(c)
        /\ \A q \in Procs : proc[q].slot = s /\ q # c => ~InPipe(q) /\ ~InEvents(q)
    BY <2>1 DEF LifeInv, HeardItsOwn
  <2>5. \/ server'[s].talk = "ready" \/ server'[s].everReady =>
               server[s].talk = "ready" \/ server[s].everReady
        \/ /\ proc[c].answer = "ready" /\ ~InPipe(c)
           /\ \A i \in 1..Len(events') :
                  ~(events'[i].by = c /\ events'[i].says = "ready")
    BY <2>1
  <2>6. server'[s].talk = "ready" \/ server'[s].everReady =>
            proc'[c].answer = "ready" /\ ~InPipe(c)' /\ ~InEvents(c)'
    BY <1>1, <1>2, <2>4, <2>5 DEF InEvents
  <2>7. \A q \in Procs : proc'[q].slot = s /\ q # c => ~InPipe(q)' /\ ~InEvents(q)'
    BY <1>1, <1>2, <2>4
  <2> QED BY <1>1, <2>1, <2>2, <2>3, <2>6, <2>7
<1> QED
  BY <1>1, <1>3, <1>5, <1>6, <1>7, <1>8, <1>9 DEF LifeInv

\* The client's process has ended, and the others are as they were.
LEMMA DroppedIsSame ==
    ASSUME LifeInv, NEW s \in Slots, server[s].client # NoProc
    PROVE  /\ Same(Dropped(server[s].client))
           /\ \A q \in Procs : proc[q].slot = s => ~Dropped(server[s].client)[q].runs
<1> DEFINE p == server[s].client
           f == [proc[p] EXCEPT !.runs = FALSE, !.stdin = FALSE]
           procs == Dropped(p)
<1>0. Typed /\ p \in Procs /\ p \in 1..Len(proc) /\ proc[p].slot = s
  BY DEF LifeInv, EntriesRight, Procs
<1>1. proc[p] \in Processes
  BY <1>0, TypesOfOne
<1>2. /\ f \in Processes /\ f.slot = s /\ f.pipe = proc[p].pipe
      /\ f.answer = proc[p].answer /\ ~f.runs
  BY <1>0, <1>1 DEF Processes
<1>3. procs = [proc EXCEPT ![p] = f]
  BY <1>0, <1>1 DEF Dropped, Typed, Processes
<1>4. \A q \in Procs : proc[q].slot = s /\ q # p => ~proc[q].runs
  BY DEF LifeInv, OneProcess
<1> HIDE DEF f
<1>5. /\ procs \in Seq(Processes) /\ Len(procs) = Len(proc)
      /\ \A q \in 1..Len(proc) : procs[q] = IF q = p THEN f ELSE proc[q]
  BY <1>0, <1>2, <1>3, ExceptSeq DEF Typed
<1> HIDE DEF p, procs
<1>6. \A q \in Procs : procs[q] = IF q = p THEN f ELSE proc[q]
  BY <1>5 DEF Procs
<1>7. Same(procs)
  BY <1>0, <1>2, <1>5, <1>6 DEF Same
<1>8. \A q \in Procs : proc[q].slot = s => ~procs[q].runs
  BY <1>2, <1>4, <1>6
<1> QED BY <1>7, <1>8 DEF p, procs

\* The processes as they are.
LEMMA ProcIsSame ==
    ASSUME Typed
    PROVE  Same(proc)
  BY DEF Typed, Same

-----------------------------------------------------------------------------
\* A process that starts is one more.
LEMMA Spawning ==
    ASSUME Typed, NEW ok \in Spawns, ok
    PROVE  /\ Len(proc) < MaxProcs /\ Len(proc) + 1 \in Nat
           /\ Len(proc) + 1 \in 0..MaxProcs
<1>1. Len(proc) \in Nat /\ MaxProcs \in Nat
  BY TypesOfOne, ServerLifeAssumption
<1>2. Len(proc) < MaxProcs
  <2> SUFFICES ASSUME ~(Len(proc) < MaxProcs) PROVE FALSE
    OBVIOUS
  <2>1. Spawns = {FALSE}
    BY DEF Spawns
  <2> QED BY <2>1
<1> QED BY <1>1, <1>2

\* The entries that a slot can get are entries.
LEMMA NewEntries ==
    ASSUME NEW e \in Servers, NEW p \in 0..MaxProcs
    PROVE  /\ Restarted(e, p) \in Servers
           /\ Restarted(e, p).client = p /\ Restarted(e, p).known
           /\ Restarted(e, p).stopped = e.stopped /\ Restarted(e, p).exits = e.exits
           /\ Restarted(e, p).talk = "awaiting" /\ ~Restarted(e, p).everReady
           /\ GivenUp(e) \in Servers
           /\ GivenUp(e).client = e.client /\ GivenUp(e).known
           /\ GivenUp(e).stopped /\ GivenUp(e).exits = e.exits
  BY DEF Restarted, Talking, GivenUp, Servers

\* A slot whose server was never wanted.
LEMMA FirstEntry ==
    /\ NeverStarted \in Servers
    /\ \A p \in 0..MaxProcs :
           /\ Talking(NeverStarted, p) \in Servers
           /\ Talking(NeverStarted, p).client = p /\ Talking(NeverStarted, p).known
           /\ ~Talking(NeverStarted, p).stopped
           /\ Talking(NeverStarted, p).exits = <<>>
           /\ Talking(NeverStarted, p).talk = "awaiting"
           /\ ~Talking(NeverStarted, p).everReady
    /\ NeverStarted.client = NoProc /\ NeverStarted.exits = <<>>
<1>1. 0 \in 0..MaxProcs
  BY ServerLifeAssumption
<1>2. NeverStarted \in Servers
  BY <1>1, EmptySeq DEF NeverStarted, NoProc, Servers
<1>3. NeverStarted.exits = <<>> /\ ~NeverStarted.stopped /\ ~NeverStarted.everReady
      /\ NeverStarted.client = NoProc
  BY DEF NeverStarted
<1> HIDE DEF NeverStarted
<1> QED BY <1>2, <1>3 DEF Talking, Servers

-----------------------------------------------------------------------------
\* server_for: no process of this slot has ever been started.
LEMMA ServerForLifeInv ==
    ASSUME LifeInv, NEW s \in Slots, ServerFor(s)
    PROVE  LifeInv'
<1>0. Typed /\ Same(proc) /\ EventsTaken
  BY ProcIsSame, EventsTakenNow DEF LifeInv, ServerFor
<1>1. /\ ~server[s].known /\ \A q \in Procs : proc[q].slot # s
      /\ starts[s] = <<>> /\ now \in 0..MaxTime /\ asked \in 0..MaxAsked
      /\ UNCHANGED <<open, now, asked>> /\ open \in BOOLEAN
  BY EmptySeq DEF LifeInv, Typed, EntriesRight, ExitsAreStarts, ServerFor, Wants
<1>2. PICK ok \in Spawns :
          /\ proc' = IF ok THEN Append(proc, Fresh(s)) ELSE proc
          /\ server' = [server EXCEPT ![s] =
                 IF ok THEN Talking(NeverStarted, Len(proc) + 1)
                 ELSE GivenUp(NeverStarted)]
          /\ starts' = [starts EXCEPT ![s] = IF ok THEN Append(@, now) ELSE @]
  BY DEF ServerFor
<1>3. CASE ok
  <2> DEFINE entry == Talking(NeverStarted, Len(proc) + 1)
             begun == <<now>>
             new == Len(proc) + 1
  <2>1. Len(proc) < MaxProcs /\ new \in Nat /\ new \in 0..MaxProcs
    BY <1>0, <1>3, Spawning
  <2>2. /\ entry.client = new /\ entry.known /\ ~entry.stopped
        /\ entry.talk = "awaiting" /\ ~entry.everReady /\ entry.exits = <<>>
    BY <2>1, FirstEntry
  <2>3. entry \in Servers
    BY <2>1, FirstEntry
  <2>4. begun \in Seq(0..MaxTime) /\ Newest(<<>>, begun) /\ Spaced(begun)
    BY <1>1, FirstStart
  <2>5. Append(starts[s], now) = begun
    BY <1>1
  <2>6. /\ proc' = Append(proc, Fresh(s))
        /\ server' = [server EXCEPT ![s] = entry]
        /\ starts' = [starts EXCEPT ![s] = begun]
    BY <1>2, <1>3, <2>5
  <2>7. Newest(entry.exits, begun)
    BY <2>2, <2>4
  <2> HIDE DEF entry, begun
  <2> QED
    BY <1>0, <1>1, <2>1, <2>2, <2>3, <2>4, <2>6, <2>7, StartLifeInv
<1>4. CASE ~ok
  <2> DEFINE entry == GivenUp(NeverStarted)
  <2>1. /\ entry.client = NoProc /\ entry.known /\ entry.stopped /\ entry.exits = <<>>
    BY FirstEntry DEF GivenUp, Servers
  <2>2. entry \in Servers
    BY FirstEntry DEF GivenUp, Servers
  <2>3. /\ proc' = proc /\ server' = [server EXCEPT ![s] = entry]
        /\ starts' = starts
    BY <1>0, <1>2, <1>4 DEF Typed
  <2> HIDE DEF entry
  <2>4. /\ server' \in [Slots -> Servers] /\ server'[s] = entry
        /\ \A t \in Slots : t # s => server'[t] = server[t]
    BY <1>0, <2>2, <2>3 DEF Typed
  <2>5. /\ \A q \in Procs : proc[q].slot = s => ~proc'[q].runs
        /\ Spaced(starts'[s]) /\ Len(entry.exits) <= MaxRestarts + 1
    <3>1. Len(entry.exits) = 0 /\ 0 <= MaxRestarts + 1
      BY <2>1, EmptySeq, ServerLifeAssumption
    <3>2. Spaced(starts'[s])
      BY <1>1, <2>3, FirstStart
    <3> QED BY <1>1, <3>1, <3>2
  <2>6. Same(proc') /\ starts' \in [Slots -> Seq(0..MaxTime)]
    BY <1>0, <2>3 DEF Typed
  <2> QED
    BY <1>0, <1>1, <2>1, <2>3, <2>4, <2>5, <2>6, KeepLifeInv
<1> QED BY <1>3, <1>4

\* The loop says something to a server that runs.
LEMMA SendLifeInv ==
    ASSUME LifeInv, NEW s \in Slots, Send(s)
    PROVE  LifeInv'
<1> DEFINE p == server[s].client
           f == [proc[p] EXCEPT !.queued = TRUE]
<1>0. Typed /\ p \in Procs
  BY DEF LifeInv, EntriesRight, Send
<1>1. proc[p] \in Processes
  BY <1>0, TypesOfOne
<1>2. /\ f \in Processes /\ f.slot = proc[p].slot /\ f.runs = proc[p].runs
      /\ f.answer = proc[p].answer /\ f.pipe = proc[p].pipe
  BY <1>1 DEF Processes
<1>3. proc' = [proc EXCEPT ![p] = f]
  BY <1>0, <1>1 DEF Send, Typed, Processes
<1>4. events' = events /\ UNCHANGED <<server, open, now, asked, starts>>
  BY DEF Send
<1> HIDE DEF p, f
<1> QED BY <1>0, <1>2, <1>3, <1>4, UnheardLifeInv

\* restart_all, of one slot: whoever is given up on is started again.
LEMMA RestartAskedLifeInv ==
    ASSUME LifeInv, NEW s \in Slots, RestartAsked(s)
    PROVE  LifeInv'
<1> DEFINE entry == [server[s] EXCEPT !.stopped = FALSE, !.exits = <<>>]
<1>0. Typed /\ Same(proc) /\ EventsTaken /\ server[s] \in Servers
  BY ProcIsSame, EventsTakenNow, TypesOfOne DEF LifeInv, RestartAsked
<1>1. /\ asked' \in 0..MaxAsked /\ asked' # 0 /\ UNCHANGED <<open, now>>
      /\ now \in 0..MaxTime /\ open \in BOOLEAN
  BY <1>0, ServerLifeAssumption DEF RestartAsked, Typed
<1>2. /\ server[s].known /\ server[s].client = NoProc
      /\ \A q \in Procs : proc[q].slot = s => ~proc[q].runs
  BY DEF RestartAsked, LifeInv, OneProcess, Procs, NoProc
<1>3. PICK ok \in Spawns :
          /\ proc' = IF ok THEN Append(proc, Fresh(s)) ELSE proc
          /\ server' = [server EXCEPT ![s] =
                 IF ok THEN Restarted(entry, Len(proc) + 1) ELSE GivenUp(entry)]
          /\ starts' = [starts EXCEPT ![s] = IF ok THEN <<now>> ELSE <<>>]
  BY DEF RestartAsked
<1>4. CASE ok
  <2> DEFINE e == Restarted(entry, Len(proc) + 1)
             begun == <<now>>
             new == Len(proc) + 1
  <2>1. Len(proc) < MaxProcs /\ new \in Nat /\ new \in 0..MaxProcs
    BY <1>0, <1>4, Spawning
  <2>2. /\ e.client = new /\ e.known /\ ~e.stopped
        /\ e.talk = "awaiting" /\ ~e.everReady /\ e.exits = <<>>
    BY <1>0 DEF Restarted, Talking, Servers
  <2>3. e \in Servers
    <3>1. entry \in Servers
      BY <1>0, EmptySeq DEF Servers
    <3> HIDE DEF entry
    <3> QED BY <2>1, <3>1, NewEntries
  <2>4. begun \in Seq(0..MaxTime) /\ Newest(<<>>, begun) /\ Spaced(begun)
    BY <1>1, FirstStart
  <2>5. /\ proc' = Append(proc, Fresh(s))
        /\ server' = [server EXCEPT ![s] = e]
        /\ starts' = [starts EXCEPT ![s] = begun]
    BY <1>3, <1>4
  <2>6. Newest(e.exits, begun)
    BY <2>2, <2>4
  <2> HIDE DEF entry, e, begun
  <2> QED
    BY <1>0, <1>1, <1>2, <2>1, <2>2, <2>3, <2>4, <2>5, <2>6, StartLifeInv
<1>5. CASE ~ok
  <2> DEFINE e == GivenUp(entry)
  <2>0. 0 \in 0..MaxProcs
    BY ServerLifeAssumption
  <2>1. e.client = NoProc /\ e.known /\ e.stopped /\ e.exits = <<>>
    BY <1>0, <1>2 DEF GivenUp, Servers
  <2>2. e \in Servers
    <3>1. entry \in Servers
      BY <1>0, EmptySeq DEF Servers
    <3> HIDE DEF entry
    <3> QED BY <2>0, <3>1, NewEntries
  <2>3. /\ proc' = proc /\ server' = [server EXCEPT ![s] = e]
        /\ starts' = [starts EXCEPT ![s] = <<>>]
    BY <1>3, <1>5
  <2> HIDE DEF entry, e
  <2>4. <<>> \in Seq(0..MaxTime) /\ Spaced(<<>>)
    BY <1>1, FirstStart, EmptySeq
  <2>5. /\ server' \in [Slots -> Servers] /\ starts' \in [Slots -> Seq(0..MaxTime)]
        /\ server'[s] = e /\ starts'[s] = <<>>
        /\ \A t \in Slots : t # s => server'[t] = server[t] /\ starts'[t] = starts[t]
    BY <1>0, <2>2, <2>3, <2>4, ChangedSlot
  <2>6. /\ \A q \in Procs : proc[q].slot = s => ~proc'[q].runs
        /\ Len(e.exits) <= MaxRestarts + 1
    BY <1>2, <2>1, <2>3, EmptySeq, ServerLifeAssumption
  <2>7. Same(proc')
    BY <1>0, <2>3
  <2> QED
    BY <1>0, <1>1, <2>1, <2>4, <2>5, <2>6, <2>7, KeepLifeInv
<1> QED BY <1>4, <1>5

-----------------------------------------------------------------------------
\* shutdown: no slot keeps its process.
LEMMA ShutdownLifeInv ==
    ASSUME LifeInv, Shutdown
    PROVE  LifeInv'
<1>0. Typed /\ EventsTaken
  BY EventsTakenNow DEF LifeInv, Shutdown
<1>1. \A s \in Slots : server[s] \in Servers
  BY <1>0, TypesOfOne
<1>2. \A s \in Slots : /\ server'[s] \in Servers /\ server'[s].client = NoProc
                       /\ server'[s].known = server[s].known
                       /\ server'[s].exits = server[s].exits
                       /\ server'[s].stopped = server[s].known
  <2>1. 0 \in 0..MaxProcs
    BY ServerLifeAssumption
  <2> SUFFICES ASSUME NEW s \in Slots
               PROVE  /\ server'[s] \in Servers /\ server'[s].client = NoProc
                      /\ server'[s].known = server[s].known
                      /\ server'[s].exits = server[s].exits
                      /\ server'[s].stopped = server[s].known
    OBVIOUS
  <2>2. server'[s] = [server[s] EXCEPT !.client = NoProc, !.stopped = server[s].known]
    BY DEF Shutdown
  <2> QED BY <1>1, <2>1, <2>2 DEF Servers, NoProc
<1>3. server' \in [Slots -> Servers]
  BY <1>2 DEF Shutdown
<1>4. \A q \in Procs : proc[q] \in Processes
  BY <1>0, TypesOfOne
<1>5. \A q \in Procs : /\ proc'[q] \in Processes
                       /\ proc'[q].slot = proc[q].slot
                       /\ proc'[q].pipe = proc[q].pipe
                       /\ proc'[q].answer = proc[q].answer
                       /\ ~proc'[q].runs
  <2> SUFFICES ASSUME NEW q \in Procs
               PROVE  /\ proc'[q] \in Processes
                      /\ proc'[q].slot = proc[q].slot
                      /\ proc'[q].pipe = proc[q].pipe
                      /\ proc'[q].answer = proc[q].answer
                      /\ ~proc'[q].runs
    OBVIOUS
  <2>1. CASE server[proc[q].slot].client = q
    BY <1>4, <2>1 DEF Shutdown, Processes
  <2>2. CASE server[proc[q].slot].client # q
    BY <1>4, <2>2 DEF Shutdown, LifeInv, OneProcess
  <2> QED BY <2>1, <2>2
<1>6. proc' \in Seq(Processes) /\ Len(proc') = Len(proc)
  <2>1. /\ Len(proc) \in Nat /\ proc' \in [1..Len(proc) -> Processes]
    BY <1>0, <1>5, TypesOfOne DEF Shutdown, Procs
  <2> QED BY <2>1, SeqDef, LenProperties
<1>7. Same(proc')
  BY <1>5, <1>6 DEF Same
<1>8. /\ starts' = starts /\ starts' \in [Slots -> Seq(0..MaxTime)]
      /\ now' \in 0..MaxTime /\ asked' = asked /\ asked' \in 0..MaxAsked
      /\ open' \in BOOLEAN
  BY <1>0 DEF Shutdown, Typed
<1>9. \A s \in Slots : /\ Spaced(starts'[s])
                       /\ Len(server'[s].exits) <= MaxRestarts + 1
                       /\ ~server'[s].known => ~server[s].known /\ Len(starts'[s]) = 0
  BY <1>2, <1>8 DEF LifeInv, ExitsAreStarts, CrashLoopStops, Spaced
<1> QED
  BY <1>0, <1>2, <1>3, <1>5, <1>7, <1>8, <1>9, KeepLifeInv

\* The clock moves.
LEMMA TickLifeInv ==
    ASSUME LifeInv, Tick
    PROVE  LifeInv'
<1>0. Typed /\ EventsTaken /\ Same(proc)
  BY ProcIsSame, EventsTakenNow DEF LifeInv, Tick
<1>1. /\ now' \in 0..MaxTime /\ proc' = proc /\ server' = server /\ starts' = starts
      /\ asked' = asked /\ open' = open
  BY <1>0, ServerLifeAssumption DEF Tick, Typed
<1>2. Same(proc')
  BY <1>0, <1>1
<1>3. /\ server' \in [Slots -> Servers] /\ starts' \in [Slots -> Seq(0..MaxTime)]
      /\ asked' \in 0..MaxAsked /\ open' \in BOOLEAN
  BY <1>0, <1>1 DEF Typed
<1> QED BY <1>0, <1>1, <1>2, <1>3, KeepLifeInv

-----------------------------------------------------------------------------
(***************************************************************************)
(* The loop takes an event.                                                *)
(***************************************************************************)

\* The oldest event is of a process of its slot.
LEMMA HeadEvent ==
    ASSUME LifeInv, Handle
    PROVE  /\ Head(events) = events[1] /\ events[1] \in Events
           /\ 1 \in 1..Len(events)
           /\ events[1].slot \in Slots /\ events[1].by \in Procs
           /\ proc[events[1].by].slot = events[1].slot
           /\ EventsTaken
           /\ Len(events') = Len(events) - 1
           /\ \A i \in 1..Len(events') :
                  i + 1 \in 1..Len(events) /\ events'[i] = events[i + 1]
<1>0. /\ Typed /\ EventsRight /\ events \in Seq(Events) /\ events # <<>>
      /\ events' = Tail(events)
  BY DEF LifeInv, Handle, Typed
<1>1. /\ Len(events') = Len(events) - 1 /\ Len(events) \in Nat
      /\ \A i \in 1..Len(events') : events'[i] = events[i + 1]
      /\ Head(events) = events[1]
  BY <1>0, HeadTailProperties, LenProperties
<1>2. 1 \in 1..Len(events)
  BY <1>0, <1>1, EmptySeq
<1>3. /\ events[1] \in Events /\ events[1].by \in Procs
      /\ proc[events[1].by].slot = events[1].slot
  BY <1>0, <1>2, TypesOfOne DEF EventsRight
<1>4. \A i \in 1..Len(events') : i + 1 \in 1..Len(events)
  BY <1>1
<1> QED BY <1>0, <1>1, <1>2, <1>3, <1>4, EventsTakenNow DEF Events

\* Whatever is not the end of the conversation.
LEMMA HeardLifeInv ==
    ASSUME LifeInv, Handle,
           server[Head(events).slot].client = NoProc \/ Head(events).says # "closed"
    PROVE  LifeInv'
<1> DEFINE ev == events[1]
           s == events[1].slot
           e == Heard(server[s], ev.says)
<1>0. /\ Typed /\ s \in Slots /\ ev.by \in Procs /\ proc[ev.by].slot = s
      /\ Head(events) = ev /\ EventsTaken /\ 1 \in 1..Len(events) /\ ev \in Events
      /\ \A i \in 1..Len(events') :
             i + 1 \in 1..Len(events) /\ events'[i] = events[i + 1]
  BY HeadEvent DEF LifeInv
<1>1. /\ UNCHANGED <<open, now, asked, proc, starts>>
      /\ \/ server' = server
         \/ server[s].client # NoProc /\ server' = [server EXCEPT ![s] = e]
  BY <1>0 DEF Handle
<1>2. server[s] \in Servers
  BY <1>0, TypesOfOne
<1>3. /\ e \in Servers /\ e.known = server[s].known /\ e.client = server[s].client
      /\ e.stopped = server[s].stopped /\ e.exits = server[s].exits
      /\ \/ e.talk = "ready" \/ e.everReady =>
                server[s].talk = "ready" \/ server[s].everReady
         \/ ev.says = "ready"
  BY <1>2 DEF Heard, Servers
<1>4. asked' = 0 /\ server[s].client # NoProc /\ ev.says = "ready" =>
          /\ proc[server[s].client].answer = "ready"
          /\ ~InPipe(server[s].client)
          /\ \A i \in 1..Len(events') :
                 ~(events'[i].by = server[s].client /\ events'[i].says = "ready")
  <2> SUFFICES ASSUME asked = 0, server[s].client # NoProc, ev.says = "ready"
               PROVE  /\ proc[server[s].client].answer = "ready"
                      /\ ~InPipe(server[s].client)
                      /\ \A i \in 1..Len(events') :
                             ~(/\ events'[i].by = server[s].client
                               /\ events'[i].says = "ready")
    BY <1>1
  <2>1. InEvents(ev.by)
    BY <1>0 DEF InEvents
  <2>2. ev.by = server[s].client
    BY <1>0, <2>1 DEF LifeInv, HeardItsOwn
  <2>3. proc[ev.by].answer = "ready" /\ ~InPipe(ev.by)
    BY <1>0, <2>1 DEF LifeInv, AnsweredOnce
  <2>4. \A j \in 1..Len(events) :
            events[j].by = ev.by /\ events[j].says = "ready" => j = 1
    BY <1>0 DEF LifeInv, AnsweredOnce
  <2>5. \A i \in 1..Len(events') : ~(events'[i].by = ev.by /\ events'[i].says = "ready")
    <3> SUFFICES ASSUME NEW i \in 1..Len(events'),
                        events'[i].by = ev.by, events'[i].says = "ready"
                 PROVE  FALSE
      OBVIOUS
    <3>1. i + 1 \in 1..Len(events) /\ i + 1 # 1
      BY <1>0
    <3>2. events[i + 1].by = ev.by /\ events[i + 1].says = "ready"
      BY <1>0
    <3> QED BY <2>4, <3>1, <3>2
  <2> QED BY <2>2, <2>3, <2>5
<1> HIDE DEF ev, s, e
<1>5. /\ server' \in [Slots -> Servers]
      /\ \A t \in Slots :
             server'[t] = server[t] \/ (t = s /\ server[s].client # NoProc /\ server'[t] = e)
  BY <1>0, <1>1, <1>3 DEF Typed
<1>6. \A t \in Slots :
          /\ starts'[t] = starts[t]
          /\ server'[t].known = server[t].known
          /\ server'[t].client = server[t].client
          /\ server'[t].stopped = server[t].stopped
          /\ server'[t].exits = server[t].exits
          /\ asked' = 0 /\ server[t].client # NoProc =>
                 \/ server'[t].talk = "ready" \/ server'[t].everReady =>
                        server[t].talk = "ready" \/ server[t].everReady
                 \/ /\ proc[server[t].client].answer = "ready"
                    /\ ~InPipe(server[t].client)
                    /\ \A i \in 1..Len(events') :
                           ~(/\ events'[i].by = server[t].client
                             /\ events'[i].says = "ready")
  BY <1>1, <1>3, <1>4, <1>5
<1>7. /\ Same(proc') /\ starts' \in [Slots -> Seq(0..MaxTime)]
      /\ asked' \in 0..MaxAsked /\ (asked' = 0 => asked = 0)
      /\ now' \in 0..MaxTime /\ open' \in BOOLEAN
  BY <1>0, <1>1, ProcIsSame DEF Typed
<1> QED BY <1>0, <1>5, <1>6, <1>7, KeepLifeInv

\* What a slot knows when the conversation with its process is over.
LEMMA ExitEntry ==
    ASSUME LifeInv, NEW s \in Slots, server[s].client # NoProc
    PROVE  LET entry == Heard(server[s], "closed")
               exits == Append(entry.exits, now)
               gone == [entry EXCEPT !.client = NoProc, !.exits = exits]
           IN /\ gone \in Servers /\ gone.client = NoProc /\ gone.known /\ ~gone.stopped
              /\ gone.exits = exits
              /\ entry.client = server[s].client /\ entry.exits = server[s].exits
              /\ entry.everReady => server[s].everReady \/ server[s].talk = "ready"
              /\ exits \in Seq(0..MaxTime) /\ Len(exits) <= MaxRestarts + 1
              /\ Newest(server[s].exits, starts[s]) /\ Spaced(starts[s])
              /\ server[s].exits \in Seq(0..MaxTime)
              /\ starts[s] \in Seq(0..MaxTime) /\ now \in 0..MaxTime
<1> DEFINE entry == Heard(server[s], "closed")
           exits == Append(entry.exits, now)
           gone == [entry EXCEPT !.client = NoProc, !.exits = exits]
<1>1. Typed /\ server[s] \in Servers /\ server[s].known /\ ~server[s].stopped
  BY TypesOfOne DEF LifeInv, EntriesRight
<1>2. /\ entry \in Servers /\ entry.known /\ ~entry.stopped
      /\ entry.client = server[s].client /\ entry.exits = server[s].exits
      /\ entry.everReady => server[s].everReady \/ server[s].talk = "ready"
  BY <1>1 DEF Heard, Servers
<1>3. /\ Newest(server[s].exits, starts[s]) /\ Spaced(starts[s])
      /\ starts[s] \in Seq(0..MaxTime) /\ now \in 0..MaxTime
      /\ server[s].exits \in Seq(0..MaxTime)
  BY <1>1 DEF LifeInv, ExitsAreStarts, CrashLoopStops, Spaced, Typed, Servers
<1> HIDE DEF entry
<1>4. exits \in Seq(0..MaxTime) /\ Len(exits) = Len(server[s].exits) + 1
  BY <1>2, <1>3, AppendProperties
<1>5. Len(exits) <= MaxRestarts + 1
  BY <1>3, <1>4, LenProperties, ServerLifeAssumption DEF Newest
<1>6. 0 \in 0..MaxProcs
  BY ServerLifeAssumption
<1> HIDE DEF exits
<1>7. /\ gone \in Servers /\ gone.client = NoProc /\ gone.known /\ ~gone.stopped
      /\ gone.exits = exits
  BY <1>2, <1>4, <1>6 DEF Servers, NoProc
<1> QED BY <1>2, <1>3, <1>4, <1>5, <1>7 DEF entry, exits

\* after_exit: the process is waited for, and the slot given up on or given
\* another.
LEMMA ClosedLifeInv ==
    ASSUME LifeInv, Handle,
           server[Head(events).slot].client # NoProc, Head(events).says = "closed"
    PROVE  LifeInv'
<1> DEFINE s == events[1].slot
           entry == Heard(server[s], "closed")
           exits == Append(entry.exits, now)
           gone == [entry EXCEPT !.client = NoProc, !.exits = exits]
           procs == Dropped(server[s].client)
<1>0. Typed /\ s \in Slots /\ Head(events) = events[1] /\ EventsTaken
  BY HeadEvent DEF LifeInv
<1>1. /\ server[s].client # NoProc /\ AfterExit(s, entry)
      /\ UNCHANGED <<open, now, asked>>
      /\ now' \in 0..MaxTime /\ asked' \in 0..MaxAsked /\ open' \in BOOLEAN
  BY <1>0 DEF Handle, Typed
<1>2. /\ gone \in Servers /\ gone.client = NoProc /\ gone.known /\ ~gone.stopped
      /\ gone.exits = exits
      /\ entry.client = server[s].client /\ entry.exits = server[s].exits
      /\ entry.everReady => server[s].everReady \/ server[s].talk = "ready"
      /\ exits \in Seq(0..MaxTime) /\ Len(exits) <= MaxRestarts + 1
      /\ Newest(server[s].exits, starts[s]) /\ Spaced(starts[s])
      /\ server[s].exits \in Seq(0..MaxTime)
      /\ starts[s] \in Seq(0..MaxTime) /\ now \in 0..MaxTime
  BY <1>0, <1>1, ExitEntry
<1>3. /\ Same(procs) /\ \A q \in Procs : proc[q].slot = s => ~procs[q].runs
  BY <1>0, <1>1, DroppedIsSame
<1> HIDE DEF procs
<1>z. 0 \in 0..MaxProcs
  BY ServerLifeAssumption
\* The slot is left without a process.
<1>4. ASSUME NEW e \in Servers, e.client = NoProc, e.known, e.stopped,
             Len(e.exits) <= MaxRestarts + 1,
             server' = [server EXCEPT ![s] = e], proc' = procs, starts' = starts
      PROVE  LifeInv'
  <2>1. /\ server' \in [Slots -> Servers] /\ server'[s] = e
        /\ \A t \in Slots : t # s => server'[t] = server[t]
    BY <1>0, <1>4 DEF Typed
  <2>2. /\ Same(proc') /\ starts' \in [Slots -> Seq(0..MaxTime)]
        /\ \A q \in Procs : proc[q].slot = s => ~proc'[q].runs
        /\ Spaced(starts'[s])
    BY <1>0, <1>2, <1>3, <1>4 DEF Typed
  <2> HIDE DEF s
  <2>3. asked' = 0 => asked = 0
    BY <1>1
  <2> QED BY <1>0, <1>1, <1>4, <2>1, <2>2, <2>3, KeepLifeInv
<1>5. CASE ~entry.everReady \/ Looping(exits)
  <2>1. /\ server' = [server EXCEPT ![s] = GivenUp(gone)]
        /\ proc' = procs /\ starts' = starts
    BY <1>1, <1>2, <1>5 DEF AfterExit, procs
  <2> HIDE DEF gone, exits, entry, s
  <2>2. /\ GivenUp(gone) \in Servers /\ GivenUp(gone).client = NoProc
        /\ GivenUp(gone).known /\ GivenUp(gone).stopped
        /\ GivenUp(gone).exits = exits
    BY <1>2, <1>z, NewEntries
  <2> QED BY <1>2, <1>4, <2>1, <2>2
<1>6. CASE entry.everReady /\ ~Looping(exits)
  <2> DEFINE again == [gone EXCEPT !.exits = Kept(exits)]
  <2>1. Restart(s, again, procs)
    BY <1>1, <1>2, <1>6 DEF AfterExit, procs
  <2>2. PICK ok \in Spawns :
            /\ proc' = IF ok THEN Append(procs, Fresh(s)) ELSE procs
            /\ server' = [server EXCEPT ![s] =
                   IF ok THEN Restarted(again, Len(procs) + 1) ELSE GivenUp(again)]
            /\ starts' = [starts EXCEPT ![s] = IF ok THEN Append(@, now) ELSE @]
    BY <2>1 DEF Restart
  <2>3. exits = Append(server[s].exits, now)
    BY <1>2
  <2>4. /\ Kept(exits) \in Seq(0..MaxTime)
        /\ Newest(Kept(exits), Append(starts[s], now))
        /\ Spaced(Append(starts[s], now))
    BY <1>2, <1>6, <2>3, NextExits
  <2> HIDE DEF exits, entry
  <2>5. /\ again \in Servers /\ again.client = NoProc /\ again.known
        /\ ~again.stopped /\ again.exits = Kept(exits)
    <3> HIDE DEF gone
    <3> QED BY <1>2, <2>4 DEF Servers
  <2> HIDE DEF gone, again, s
  <2>6. CASE ok
    <3> DEFINE new == Len(proc) + 1
               e == Restarted(again, new)
               begun == Append(starts[s], now)
    <3>1. Len(proc) < MaxProcs /\ new \in Nat /\ new \in 0..MaxProcs
      BY <1>0, <2>6, Spawning
    <3>2. Len(procs) + 1 = new
      BY <1>3 DEF Same
    <3>3. /\ e \in Servers /\ e.client = new /\ e.known /\ ~e.stopped
          /\ e.exits = Kept(exits) /\ e.talk = "awaiting" /\ ~e.everReady
      BY <2>5, <3>1, NewEntries
    <3>4. /\ proc' = Append(procs, Fresh(s))
          /\ server' = [server EXCEPT ![s] = e]
          /\ starts' = [starts EXCEPT ![s] = begun]
      BY <2>2, <2>6, <3>2
    <3>5. begun \in Seq(0..MaxTime)
      BY <1>2, AppendProperties
    <3>6. asked' = 0 => \A q \in Procs : proc[q].slot = s => ~InPipe(q) /\ ~InEvents(q)
      BY <1>0, <1>1, <1>2, <1>6 DEF LifeInv, HeardItsOwn
    <3>7. Newest(e.exits, begun) /\ Spaced(begun)
      BY <2>4, <3>3
    <3>8. UNCHANGED <<open, now>> /\ (asked' = 0 => asked = 0) /\ asked' \in 0..MaxAsked
      BY <1>1
    <3> HIDE DEF e, begun
    <3> QED
      BY <1>0, <1>3, <3>1, <3>3, <3>4, <3>5, <3>6, <3>7, <3>8, StartLifeInv
  <2>7. CASE ~ok
    <3>1. /\ server' = [server EXCEPT ![s] = GivenUp(again)]
          /\ proc' = procs /\ starts' = starts
      BY <1>0, <2>2, <2>7 DEF Typed
    <3>2. /\ GivenUp(again) \in Servers /\ GivenUp(again).client = NoProc
          /\ GivenUp(again).known /\ GivenUp(again).stopped
          /\ GivenUp(again).exits = Kept(exits)
      BY <1>z, <2>5, NewEntries
    <3>3. Len(Kept(exits)) <= MaxRestarts + 1
      BY <2>4, LenProperties, ServerLifeAssumption DEF Newest
    <3> QED BY <1>4, <3>1, <3>2, <3>3
  <2> QED BY <2>6, <2>7
<1> QED BY <1>5, <1>6

LEMMA HandleLifeInv ==
    ASSUME LifeInv, Handle
    PROVE  LifeInv'
  BY HeardLifeInv, ClosedLifeInv

-----------------------------------------------------------------------------
\* Every step keeps the invariant.
LEMMA NextLifeInv == LifeInv /\ [Next]_vars => LifeInv'
<1> SUFFICES ASSUME LifeInv, [Next]_vars PROVE LifeInv'
  OBVIOUS
<1>1. ASSUME NEW p \in Procs,
             \/ AnswersInitialize(p) \/ Talks(p)
             \/ BreaksInput(p) \/ Dies(p) \/ Writer(p) \/ Reader(p)
      PROVE  LifeInv'
  BY <1>1, TalkLifeInv, EndsLifeInv, WriterLifeInv, ReaderLifeInv
<1>2. ASSUME NEW s \in Slots, ServerFor(s) \/ Send(s) \/ RestartAsked(s)
      PROVE  LifeInv'
  BY <1>2, ServerForLifeInv, SendLifeInv, RestartAskedLifeInv
<1>3. CASE Handle \/ Shutdown \/ Tick
  BY <1>3, HandleLifeInv, ShutdownLifeInv, TickLifeInv
<1>4. CASE UNCHANGED vars
  <2>1. /\ Typed' /\ EntriesRight' /\ OneProcess'
    BY <1>4 DEF vars, LifeInv, Typed, EntriesRight, OneProcess, Procs
  <2>2. ExitsAreStarts' /\ CrashLoopStops'
    BY <1>4 DEF vars, LifeInv, ExitsAreStarts, CrashLoopStops, Newest
  <2>3. EventsRight' /\ AnsweredOnce'
    <3>1. proc' = proc /\ events' = events /\ EventsRight /\ AnsweredOnce
      BY <1>4 DEF vars, LifeInv
    <3>2. EventsRight'
      BY <3>1 DEF EventsRight, Procs
    <3>3. AnsweredOnce'
      BY <3>1 DEF AnsweredOnce, Procs, InPipe, InEvents
    <3> QED BY <3>2, <3>3
  <2>4. HeardItsOwn'
    BY <1>4 DEF vars, LifeInv, HeardItsOwn, Procs, InPipe, InEvents
  <2> QED BY <2>1, <2>2, <2>3, <2>4 DEF LifeInv
<1> QED BY <1>1, <1>2, <1>3, <1>4 DEF Next

LEMMA SpecLifeInv == Spec => []LifeInv
<1> QED BY InitLifeInv, NextLifeInv, PTL DEF Spec

\* The invariant says what ServersSound says.
LEMMA LifeInvIsSound == LifeInv => ServersSound
<1> SUFFICES ASSUME LifeInv PROVE ServersSound
  OBVIOUS
<1>0. Typed
  BY DEF LifeInv
<1>1. server \in [Slots -> Entries]
  <2>1. \A s \in Slots : server[s] \in Entries
    <3> SUFFICES ASSUME NEW s \in Slots PROVE server[s] \in Entries
      OBVIOUS
    <3>1. server[s] \in Servers
      BY <1>0, TypesOfOne
    <3>2. /\ server[s].exits \in Seq(0..MaxTime)
          /\ Len(server[s].exits) <= MaxRestarts + 1
      BY <3>1 DEF LifeInv, ExitsAreStarts, Servers
    <3>3. /\ Len(server[s].exits) \in 0..MaxRestarts + 1
          /\ server[s].exits \in [1..Len(server[s].exits) -> 0..MaxTime]
      <4>1. /\ Len(server[s].exits) \in Nat
            /\ server[s].exits \in [1..Len(server[s].exits) -> 0..MaxTime]
        BY <3>2, LenProperties
      <4> QED BY <3>2, <4>1, ServerLifeAssumption
    <3>4. server[s].exits \in UNION {[1..n -> 0..MaxTime] : n \in 0..MaxRestarts + 1}
      BY <3>3
    <3> QED BY <3>1, <3>4 DEF Servers, Entries
  <2> QED BY <1>0, <2>1 DEF Typed
<1>2. \A p \in Procs : /\ proc[p].slot \in Slots
                       /\ proc[p].errors < MaxErrors
                       /\ proc[p].answer \in {"none", "ready", "refused"}
  BY <1>0, TypesOfOne, ServerLifeAssumption DEF Processes
<1>3. TypeOK
  BY <1>0, <1>1, <1>2 DEF TypeOK, Typed, LifeInv, EntriesRight
<1> QED BY <1>3 DEF LifeInv, ServersSound

\* Whatever the servers do and in whatever order the loop learns of it: one
\* process per slot, none left behind, and no crash loop longer than its
\* window.
THEOREM ServersStaySound == Spec => []ServersSound
  BY SpecLifeInv, LifeInvIsSound, PTL

-----------------------------------------------------------------------------
\* Only the end of a conversation gives a slot another process, and only of a
\* server that had been heard.
LEMMA HandleRestarts ==
    ASSUME LifeInv, Handle, NEW s \in Slots, asked = 0, server[s].client # NoProc,
           server'[s].client \notin {NoProc, server[s].client}
    PROVE  proc[server[s].client].answer = "ready"
<1> DEFINE t == events[1].slot
           entry == Heard(server[t], Head(events).says)
<1>1. Typed /\ t \in Slots /\ Head(events) = events[1] /\ server[t] \in Servers
  BY HeadEvent, TypesOfOne DEF LifeInv
<1>2. CASE server[t].client = NoProc
  BY <1>1, <1>2 DEF Handle
<1>3. CASE server[t].client # NoProc /\ Head(events).says # "closed"
  <2>1. server' = [server EXCEPT ![t] = entry]
    BY <1>1, <1>3 DEF Handle
  <2>2. entry.client = server[t].client
    BY <1>1 DEF Heard, Servers
  <2> QED BY <1>1, <2>1, <2>2 DEF Typed
<1>4. CASE server[t].client # NoProc /\ Head(events).says = "closed"
  <2>1. AfterExit(t, entry)
    BY <1>1, <1>4 DEF Handle
  <2>2. \E e : server' = [server EXCEPT ![t] = e]
    BY <2>1 DEF AfterExit, Restart
  <2>3. t = s
    BY <1>1, <2>2 DEF Typed
  <2>4. /\ [entry EXCEPT !.client = NoProc, !.exits = Append(entry.exits, now)] \in Servers
        /\ [entry EXCEPT !.client = NoProc,
                         !.exits = Append(entry.exits, now)].client = NoProc
        /\ entry.everReady => server[s].everReady \/ server[s].talk = "ready"
    BY <1>1, <1>4, <2>3, ExitEntry
  <2>5. CASE ~entry.everReady
    <3> DEFINE gone == [entry EXCEPT !.client = NoProc, !.exits = Append(entry.exits, now)]
    <3>1. server' = [server EXCEPT ![t] = GivenUp(gone)]
      BY <2>1, <2>5 DEF AfterExit
    <3> HIDE DEF gone
    <3>2. GivenUp(gone).client = NoProc
      BY <2>4 DEF GivenUp, Servers, gone
    <3> QED BY <1>1, <2>3, <3>1, <3>2 DEF Typed
  <2>6. CASE entry.everReady
    BY <1>4, <2>3, <2>4, <2>6 DEF LifeInv, HeardItsOwn
  <2> QED BY <2>5, <2>6
<1> QED BY <1>2, <1>3, <1>4

\* A server is restarted by itself only when its process had answered.
LEMMA StepRestarts ==
    ASSUME LifeInv, [Next]_vars
    PROVE  \A s \in Slots :
               /\ asked = 0
               /\ server[s].client # NoProc
               /\ server'[s].client \notin {NoProc, server[s].client}
               => proc[server[s].client].answer = "ready"
<1> SUFFICES ASSUME NEW s \in Slots, asked = 0, server[s].client # NoProc,
                    server'[s].client \notin {NoProc, server[s].client}
             PROVE  proc[server[s].client].answer = "ready"
  OBVIOUS
<1>0. Typed
  BY DEF LifeInv
<1>1. ASSUME NEW p \in Procs,
             \/ AnswersInitialize(p) \/ Talks(p)
             \/ BreaksInput(p) \/ Dies(p) \/ Writer(p) \/ Reader(p)
      PROVE  FALSE
  <2>1. server' = server
    BY <1>1 DEF AnswersInitialize, Talks, Says, BreaksInput, Dies, Writer, Reader
  <2> QED BY <2>1
<1>2. ASSUME NEW t \in Slots, ServerFor(t) \/ Send(t) \/ RestartAsked(t)
      PROVE  FALSE
  <2>1. server' = server \/ server[t].client = NoProc
    BY <1>2 DEF ServerFor, Wants, Send, RestartAsked, LifeInv, EntriesRight
  <2>2. \E e : server' = [server EXCEPT ![t] = e] \/ server' = server
    BY <1>2 DEF ServerFor, Send, RestartAsked
  <2> QED BY <1>0, <2>1, <2>2 DEF Typed
<1>3. CASE Handle
  BY <1>3, HandleRestarts
<1>4. CASE Shutdown \/ Tick \/ UNCHANGED vars
  <2>1. server' = server \/ server'[s].client = NoProc
    BY <1>0, <1>4, TypesOfOne DEF Shutdown, Tick, vars, Servers
  <2> QED BY <2>1
<1> QED BY <1>1, <1>2, <1>3, <1>4 DEF Next

\* Until the user asks, what is restarted had worked: no server that dies
\* before it answers is started again by itself.
THEOREM RestartsStayEarned == Spec => RestartsWhatWorked
<1>1. LifeInv /\ [Next]_vars =>
          [\A s \in Slots :
               /\ asked = 0
               /\ server[s].client # NoProc
               /\ server'[s].client \notin {NoProc, server[s].client}
               => proc[server[s].client].answer = "ready"]_vars
  BY StepRestarts
<1> QED BY <1>1, SpecLifeInv, PTL DEF Spec, RestartsWhatWorked
=============================================================================
