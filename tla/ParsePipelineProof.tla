-------------------------- MODULE ParsePipelineProof --------------------------
(***************************************************************************)
(* Proofs about ParsePipeline: that a tree only ever colours the file it   *)
(* was parsed from, and that no tab is wrong about having been parsed, for *)
(* any tabs and panes, any files the parser gives up on and any bounds.    *)
(***************************************************************************)
EXTENDS ParsePipeline, SequenceTheorems, WellFoundedInduction, TLAPS

Requests == [generation : Nat \ {0}, text : Texts]

TabStates == [text : Texts, tree : Texts \cup {NoTree},
              parsed : 0..MaxRevision \cup {NotParsed}, awaited : Nat]

\* What the loop works on when it asks for parses.
Loops == [tabs : [Tabs -> TabStates], generation : Nat,
          queue : Seq(Requests), worker : {"running", "dead", "given up"}]

\* The text a tab believes was parsed.
Believed(tab) == [tab.text EXCEPT !.revision = tab.parsed]

(***************************************************************************)
(* The inductive invariant, of the loop's state `s` and the jobs that left *)
(* the queue.                                                              *)
(***************************************************************************)
\* A tab has a text of its own, and its tree is of that file.
OwnFile(s) ==
    \A t \in Tabs :
        /\ s.tabs[t].text.of = t
        /\ s.tabs[t].tree # NoTree =>
              /\ s.tabs[t].tree.of = t
              /\ s.tabs[t].tree.file = s.tabs[t].text.file

\* Nobody is ahead of the count, and no two tabs wait for the same answer.
Counted(s, taken) ==
    /\ \A job \in Range(s.queue) \cup taken : job.generation <= s.generation
    /\ \A t \in Tabs : s.tabs[t].awaited <= s.generation
    /\ \A t, u \in Tabs :
          s.tabs[t].awaited = s.tabs[u].awaited /\ t # u
              => s.tabs[t].awaited = NoGeneration

\* The job a tab waits for is of its own file, and of the very text it
\* believes was parsed.
JobFits(tab, t, job) ==
    job.generation = tab.awaited =>
        /\ job.text.of = t
        /\ job.text.file = tab.text.file
        /\ tab.parsed # NotParsed => job.text = Believed(tab)

JobsFit(s, taken) ==
    \A t \in Tabs, job \in Range(s.queue) \cup taken :
        JobFits(s.tabs[t], t, job)

\* A tab that waits for nothing has the tree it believes it has.
HasItsTree(tab) ==
    tab.awaited = NoGeneration /\ tab.parsed # NotParsed
        => tab.tree = Believed(tab)

TreesFit(s) == \A t \in Tabs : HasItsTree(s.tabs[t])

LoopSound(s, taken) ==
    /\ s \in Loops
    /\ OwnFile(s)
    /\ Counted(s, taken)
    /\ JobsFit(s, taken)
    /\ TreesFit(s)

Loop == [tabs |-> tabs, generation |-> generation, queue |-> queue,
         worker |-> worker]

Taken == Range(results) \cup ({running} \ {Idle})

PipeInv ==
    /\ LoopSound(Loop, Taken)
    /\ results \in Seq(Requests)
    /\ running \in Requests \cup {Idle}
    /\ shown \in [Panes -> Tabs]
    /\ \A p \in Panes : PaneOf[shown[p]] = p

(***************************************************************************)
(* Sequences as sets of jobs.                                              *)
(***************************************************************************)
LEMMA RangeOfAppend ==
    ASSUME NEW q \in Seq(Requests), NEW x \in Requests
    PROVE  Range(Append(q, x)) = Range(q) \cup {x}
<1>1. PICK r : r = Append(q, x)
  OBVIOUS
<1>2. /\ Len(q) \in Nat /\ DOMAIN q = 1..Len(q)
      /\ DOMAIN r = 1..(Len(q) + 1)
      /\ \A i \in 1..Len(q) : r[i] = q[i]
      /\ r[Len(q) + 1] = x
  BY <1>1
<1>3. \A i \in 1..(Len(q) + 1) : i \in 1..Len(q) \/ i = Len(q) + 1
  BY <1>2
<1>4. Range(r) \subseteq Range(q) \cup {x}
  BY <1>2, <1>3 DEF Range
<1>5. \A i \in 1..Len(q) : i \in 1..(Len(q) + 1)
  BY <1>2
<1>6. Len(q) + 1 \in 1..(Len(q) + 1)
  BY <1>2
<1>7. Range(q) \cup {x} \subseteq Range(r)
  BY <1>2, <1>5, <1>6 DEF Range
<1> QED
  BY <1>1, <1>4, <1>7

LEMMA RangeOfTail ==
    ASSUME NEW q \in Seq(Requests), q # <<>>
    PROVE  /\ Tail(q) \in Seq(Requests)
           /\ Range(Tail(q)) \subseteq Range(q)
           /\ Head(q) \in Range(q)
BY DEF Range

LEMMA RangeOfNone == Range(<<>>) = {}
BY DEF Range

LEMMA JobsAreRequests ==
    ASSUME NEW q \in Seq(Requests)
    PROVE  Range(q) \subseteq Requests
BY DEF Range

(***************************************************************************)
(* Asking for one pane keeps the loop's state sound.                       *)
(***************************************************************************)
LEMMA AskForKeeps ==
    ASSUME NEW s, NEW taken, NEW t \in Tabs,
           taken \subseteq Requests, LoopSound(s, taken)
    PROVE  LoopSound(AskFor(s, t), taken)
<1>1. s \in Loops /\ s.tabs[t] \in TabStates
  BY DEF LoopSound, Loops
<1>2. CASE ~IsStale(s.tabs[t]) \/ s.worker = "given up"
  BY <1>2 DEF AskFor
<1>3. CASE /\ IsStale(s.tabs[t]) /\ s.worker # "given up"
           /\ s.worker = "dead"
  <2>1. AskFor(s, t) = [s EXCEPT !.worker = "given up"]
    BY <1>3 DEF AskFor
  <2>2. PICK r : r = AskFor(s, t)
    OBVIOUS
  <2>3. /\ r \in Loops /\ r.tabs = s.tabs /\ r.generation = s.generation
        /\ r.queue = s.queue
    BY <1>1, <2>1, <2>2 DEF Loops
  <2> QED
    BY <2>2, <2>3 DEF LoopSound, OwnFile, Counted, JobsFit, TreesFit
<1>4. CASE /\ IsStale(s.tabs[t]) /\ s.worker # "given up"
           /\ s.worker # "dead"
  <2> DEFINE tab == [s.tabs[t] EXCEPT !.parsed = s.tabs[t].text.revision,
                                      !.awaited = s.generation + 1]
             job == [generation |-> s.generation + 1, text |-> s.tabs[t].text]
  <2>1. PICK r : r = AskFor(s, t)
    OBVIOUS
  <2>2. /\ r.generation = s.generation + 1
        /\ r.queue = Append(s.queue, job)
        /\ r.worker = s.worker
        /\ r.tabs = [s.tabs EXCEPT ![t] = tab]
        /\ r = [tabs |-> r.tabs, generation |-> r.generation,
                queue |-> r.queue, worker |-> r.worker]
    BY <1>1, <1>4, <2>1 DEF AskFor, Loops, TabStates
  <2>3. /\ tab \in TabStates /\ job \in Requests
        /\ tab.text = s.tabs[t].text /\ tab.tree = s.tabs[t].tree
        /\ tab.parsed = tab.text.revision /\ tab.awaited = s.generation + 1
        /\ job.generation = s.generation + 1 /\ job.text = tab.text
        /\ s.generation \in Nat
    <3>1. PICK old : old = s.tabs[t]
      OBVIOUS
    <3>2. PICK g : g = s.generation
      OBVIOUS
    <3>3. /\ old \in TabStates /\ g \in Nat /\ old.text \in Texts
          /\ old.text.revision \in 0..MaxRevision
          /\ g + 1 \in Nat \ {0}
      <4>1. old \in TabStates /\ g \in Nat
        BY <1>1, <3>1, <3>2 DEF Loops
      <4>2. old.text \in Texts
        BY <4>1 DEF TabStates
      <4>3. old.text.revision \in 0..MaxRevision
        BY <4>2 DEF Texts
      <4> QED
        BY <4>1, <4>2, <4>3
    <3>4. tab = [old EXCEPT !.parsed = old.text.revision, !.awaited = g + 1]
      BY <3>1, <3>2
    <3>5. job = [generation |-> g + 1, text |-> old.text]
      BY <3>1, <3>2
    <3> HIDE DEF tab, job
    <3>6. tab \in TabStates
      BY <3>3, <3>4 DEF TabStates
    <3>7. job \in Requests
      BY <3>3, <3>5 DEF Requests
    <3>8. /\ tab.text = old.text /\ tab.tree = old.tree
          /\ tab.parsed = old.text.revision /\ tab.awaited = g + 1
      BY <3>3, <3>4 DEF TabStates
    <3>9. job.generation = g + 1 /\ job.text = old.text
      BY <3>5
    <3> QED
      BY <3>1, <3>2, <3>3, <3>6, <3>7, <3>8, <3>9
  <2>4. /\ r.tabs[t] = tab
        /\ \A u \in Tabs \ {t} : r.tabs[u] = s.tabs[u]
    BY <1>1, <2>2 DEF Loops
  <2> HIDE DEF tab, job
  <2>5. Range(r.queue) = Range(s.queue) \cup {job} /\ r.queue \in Seq(Requests)
    <3>1. s.queue \in Seq(Requests)
      BY <1>1 DEF Loops
    <3> QED
      BY <2>2, <2>3, <3>1, RangeOfAppend
  <2>6. r \in Loops
    <3>1. /\ s.tabs \in [Tabs -> TabStates]
          /\ s.worker \in {"running", "dead", "given up"}
      BY <1>1 DEF Loops
    <3>2. r.tabs \in [Tabs -> TabStates] /\ r.generation \in Nat
      <4>1. s.tabs \in [Tabs -> TabStates] /\ tab \in TabStates
        BY <2>3, <3>1
      <4>2. r.tabs = [s.tabs EXCEPT ![t] = tab]
        BY <2>2
      <4>3. r.tabs \in [Tabs -> TabStates]
        BY ONLY <4>1, <4>2
      <4> QED
        BY <2>2, <2>3, <4>3
    <3>3. [tabs |-> r.tabs, generation |-> r.generation,
           queue |-> r.queue, worker |-> r.worker] \in Loops
      BY <2>2, <2>5, <3>1, <3>2 DEF Loops
    <3> QED
      BY <2>2, <3>3, Zenon
  <2>7. OwnFile(r)
    BY <2>3, <2>4 DEF OwnFile, LoopSound
  <2>8. Counted(r, taken)
    <3>1. Counted(s, taken)
      BY DEF LoopSound
    <3>2. \A u \in Tabs : s.tabs[u].awaited \in Nat
      BY <1>1 DEF Loops, TabStates
    <3>3. \A u \in Tabs : r.tabs[u].awaited <= r.generation
      BY <2>2, <2>3, <2>4, <3>1, <3>2 DEF Counted
    <3>4. \A j \in Range(r.queue) \cup taken : j.generation <= r.generation
      <4>1. \A j \in Range(s.queue) \cup taken : j.generation \in Nat
        BY <1>1, JobsAreRequests DEF Loops, Requests
      <4> QED
        BY <2>2, <2>3, <2>5, <3>1, <4>1 DEF Counted
    <3>5. \A u, v \in Tabs :
             r.tabs[u].awaited = r.tabs[v].awaited /\ u # v
                 => r.tabs[u].awaited = NoGeneration
      BY <2>2, <2>3, <2>4, <3>1, <3>2 DEF Counted
    <3> QED
      BY <3>3, <3>4, <3>5 DEF Counted
  <2>9. JobsFit(r, taken)
    <3>1. ASSUME NEW u \in Tabs, NEW j \in Range(r.queue) \cup taken
          PROVE  JobFits(r.tabs[u], u, j)
      <4>1. \A k \in Range(s.queue) \cup taken :
               k.generation \in Nat /\ k.generation <= s.generation
        BY <1>1, JobsAreRequests DEF Loops, Requests, LoopSound, Counted
      <4>2. \A v \in Tabs : s.tabs[v].awaited \in Nat
                            /\ s.tabs[v].awaited <= s.generation
        BY <1>1 DEF Loops, TabStates, LoopSound, Counted
      <4>3. CASE j # job /\ u # t
        BY <2>4, <2>5, <4>3 DEF LoopSound, JobsFit
      <4>4. CASE j # job /\ u = t
        <5>1. j.generation # tab.awaited
          BY <2>3, <2>5, <4>1, <4>4
        <5> QED
          BY <2>4, <4>4, <5>1 DEF JobFits
      <4>5. CASE j = job /\ u # t
        <5>1. j.generation # s.tabs[u].awaited
          BY <2>3, <4>2, <4>5
        <5> QED
          BY <2>4, <4>5, <5>1 DEF JobFits
      <4>6. CASE j = job /\ u = t
        <5>1. tab.text.of = t /\ tab.text \in Texts
          BY <2>3 DEF LoopSound, OwnFile, TabStates
        <5>2. Believed(tab) = tab.text
          BY <2>3, <5>1 DEF Believed, Texts
        <5> QED
          BY <2>3, <2>4, <4>6, <5>1, <5>2 DEF JobFits
      <4> QED
        BY <4>3, <4>4, <4>5, <4>6
    <3> QED
      BY <3>1 DEF JobsFit
  <2>10. TreesFit(r)
    <3>1. HasItsTree(tab)
      BY <2>3 DEF HasItsTree, NoGeneration
    <3> QED
      BY <2>4, <3>1 DEF TreesFit, LoopSound
  <2> QED
    BY <2>1, <2>6, <2>7, <2>8, <2>9, <2>10 DEF LoopSound
<1> QED
  BY <1>2, <1>3, <1>4

(***************************************************************************)
(* And so does asking for every pane.                                      *)
(***************************************************************************)
\* A set of numbers that is not empty has a least member.
LEMMA LeastNumber ==
    ASSUME NEW T, T \subseteq Nat, T # {}
    PROVE  \E x \in T : \A y \in T : x <= y
<1>1. IsWellFoundedOn(OpToRel(<, Nat), Nat)
  BY NatLessThanWellFounded
<1>2. PICK x \in T : \A y \in T : <<y, x>> \notin OpToRel(<, Nat)
  BY <1>1, WFMin, Zenon
<1>3. \A y \in T : ~(y < x)
  BY <1>2 DEF OpToRel
<1> QED
  BY <1>3

\* `asked` is what `AskForAll` has after each of the first `m` panes.
IsAsked(asked, s, sh, m) ==
    asked = [p \in 0..m |-> IF p = 0 THEN s ELSE AskFor(asked[p - 1], sh[p])]

\* The recursion of `AskForAll`, up to any pane, has a solution.
LEMMA AskedExists ==
    ASSUME NEW s, NEW sh, NEW m \in Nat
    PROVE  \E asked : IsAsked(asked, s, sh, m)
<1> DEFINE Next1(f, p) == IF p = 0 THEN s ELSE AskFor(f[p - 1], sh[p])
           Solved(k) == \E f : f = [p \in 0..k |-> Next1(f, p)]
           Bad == {k \in Nat : ~Solved(k)}
<1>1. SUFFICES ASSUME Bad # {}  PROVE FALSE
  BY DEF IsAsked
<1>2. PICK k \in Bad : \A l \in Bad : k <= l
  <2>1. Bad \subseteq Nat
    OBVIOUS
  <2> HIDE DEF Bad
  <2> QED
    BY <1>1, <2>1, LeastNumber
<1>3. k # 0
  <2>1. SUFFICES ASSUME k = 0  PROVE FALSE
    OBVIOUS
  <2> DEFINE f == [p \in 0..0 |-> s]
  <2>2. f = [p \in 0..0 |-> Next1(f, p)]
    OBVIOUS
  <2> HIDE DEF f
  <2> QED
    BY <2>1, <2>2
<1>4. k \in Nat /\ k - 1 \in Nat /\ k - 1 \notin Bad
  <2>1. Bad \subseteq Nat
    OBVIOUS
  <2> HIDE DEF Bad
  <2> QED
    BY <1>2, <1>3, <2>1
<1>5. PICK f : f = [p \in 0..(k - 1) |-> Next1(f, p)]
  BY <1>4
<1> DEFINE g == [p \in 0..k |-> IF p = k THEN Next1(f, k) ELSE f[p]]
<1>6. \A p \in 0..k : g[p] = Next1(g, p)
  <2> SUFFICES ASSUME NEW p \in 0..k  PROVE g[p] = Next1(g, p)
    OBVIOUS
  <2>1. p # 0 => p - 1 \in 0..(k - 1) /\ g[p - 1] = f[p - 1]
    BY <1>4
  <2>2. CASE p = k
    BY <2>1, <2>2, <1>3, <1>4
  <2>3. CASE p # k
    <3>1. p \in 0..(k - 1) /\ g[p] = f[p]
      BY <2>3, <1>4
    <3>2. f[p] = Next1(f, p)
      BY <1>5, <3>1
    <3> QED
      BY <3>1, <3>2, <2>1
  <2> QED
    BY <2>2, <2>3
<1>7. g = [p \in 0..k |-> Next1(g, p)]
  <2>1. g = [p \in 0..k |-> g[p]]
    OBVIOUS
  <2> HIDE DEF g
  <2> QED
    BY <1>6, <2>1
<1> HIDE DEF g
<1> QED
  BY <1>2, <1>7

LEMMA AskForAllKeeps ==
    ASSUME NEW s, NEW taken, NEW sh \in [Panes -> Tabs],
           taken \subseteq Requests, LoopSound(s, taken)
    PROVE  LoopSound(AskForAll(s, sh), taken)
<1> DEFINE asked == CHOOSE f : IsAsked(f, s, sh, MaxPanes)
<1>1. MaxPanes \in Nat /\ Panes = 1..MaxPanes
  BY PanesAssumption DEF Panes
<1>2. IsAsked(asked, s, sh, MaxPanes)
  BY <1>1, AskedExists
<1>3. AskForAll(s, sh) = asked[MaxPanes]
  BY DEF AskForAll, IsAsked
<1> HIDE DEF asked
<1>4. /\ asked[0] = s
      /\ \A p \in 1..MaxPanes : asked[p] = AskFor(asked[p - 1], sh[p])
  <2>1. \A p \in 0..MaxPanes :
           asked[p] = IF p = 0 THEN s ELSE AskFor(asked[p - 1], sh[p])
    BY <1>2 DEF IsAsked
  <2>2. 0 \in 0..MaxPanes /\ \A p \in 1..MaxPanes : p \in 0..MaxPanes /\ p # 0
    BY <1>1
  <2> QED
    BY <2>1, <2>2
<1> DEFINE Bad == {p \in 0..MaxPanes : ~LoopSound(asked[p], taken)}
<1>5. SUFFICES ASSUME Bad # {}  PROVE FALSE
  BY <1>1, <1>3
<1>6. PICK p \in Bad : \A q \in Bad : p <= q
  <2>1. Bad \subseteq Nat
    BY <1>1
  <2> HIDE DEF Bad
  <2> QED
    BY <1>5, <2>1, LeastNumber
<1>7. p # 0
  BY <1>4, <1>6
<1>8. p \in 1..MaxPanes /\ p - 1 \in 0..MaxPanes /\ p - 1 \notin Bad
  BY <1>1, <1>6, <1>7
<1>9. LoopSound(asked[p - 1], taken) /\ sh[p] \in Tabs
  BY <1>1, <1>8
<1>10. LoopSound(AskFor(asked[p - 1], sh[p]), taken)
  BY <1>9, AskForKeeps
<1> QED
  BY <1>4, <1>6, <1>8, <1>10


(***************************************************************************)
(* The turns of the loop: what a tab may become before parses are asked    *)
(* for.                                                                    *)
(***************************************************************************)
TabKept(old, new, t) ==
    /\ new \in TabStates
    /\ new.text.of = t
    /\ new.tree # NoTree => new.tree.of = t /\ new.tree.file = new.text.file
    /\ new.awaited \in {old.awaited, NoGeneration}
    /\ HasItsTree(new)
    /\ \A job \in Requests : JobFits(old, t, job) => JobFits(new, t, job)

With(ts) == [tabs |-> ts, generation |-> generation, queue |-> queue,
             worker |-> worker]

LEMMA TakenAreRequests ==
    ASSUME PipeInv
    PROVE  Taken \subseteq Requests
BY JobsAreRequests DEF PipeInv, Taken

LEMMA KeptAsItIs ==
    ASSUME PipeInv, NEW t \in Tabs
    PROVE  TabKept(tabs[t], tabs[t], t)
<1>1. tabs \in [Tabs -> TabStates]
  BY DEF PipeInv, LoopSound, Loop, Loops
<1> QED
  BY <1>1 DEF PipeInv, LoopSound, Loop, OwnFile, TreesFit, TabKept

LEMMA WithKept ==
    ASSUME PipeInv, NEW ts, NEW fewer, fewer \subseteq Taken,
           ts \in [Tabs -> TabStates],
           \A t \in Tabs : TabKept(tabs[t], ts[t], t)
    PROVE  LoopSound(With(ts), fewer)
<1>1. /\ tabs \in [Tabs -> TabStates] /\ generation \in Nat
      /\ queue \in Seq(Requests) /\ worker \in {"running", "dead", "given up"}
  BY DEF PipeInv, LoopSound, Loop, Loops
<1>2. /\ With(ts).tabs = ts /\ With(ts).generation = generation
      /\ With(ts).queue = queue /\ With(ts).worker = worker
  BY DEF With
<1>4. With(ts) \in Loops
  BY <1>1 DEF With, Loops
<1>5. OwnFile(With(ts))
  BY <1>2 DEF OwnFile, TabKept
<1>6. Counted(With(ts), fewer)
  <2>1. Counted(Loop, Taken)
    BY DEF PipeInv, LoopSound
  <2>2. /\ \A job \in Range(queue) \cup Taken : job.generation <= generation
        /\ \A t \in Tabs : tabs[t].awaited <= generation
        /\ \A t, u \in Tabs :
              tabs[t].awaited = tabs[u].awaited /\ t # u
                  => tabs[t].awaited = NoGeneration
    BY <2>1 DEF Counted, Loop
  <2>3. \A t \in Tabs : ts[t].awaited \in {tabs[t].awaited, NoGeneration}
    BY DEF TabKept
  <2>4. \A t \in Tabs : ts[t].awaited <= generation
    <3>1. generation \in Nat
      BY <1>1, Zenon
    <3>2. 0 <= generation
      BY ONLY <3>1
    <3> QED
      BY ONLY <2>2, <2>3, <3>2 DEF NoGeneration
  <2>5. \A t, u \in Tabs :
           ts[t].awaited = ts[u].awaited /\ t # u
               => ts[t].awaited = NoGeneration
    BY <2>2, <2>3
  <2> QED
    BY <1>2, <2>2, <2>4, <2>5 DEF Counted
<1>7. JobsFit(With(ts), fewer)
  <2>1. ASSUME NEW t \in Tabs, NEW job \in Range(queue) \cup fewer
        PROVE  JobFits(ts[t], t, job)
    <3>1. job \in Requests
      BY <1>1, JobsAreRequests, TakenAreRequests
    <3>2. JobFits(tabs[t], t, job)
      BY DEF PipeInv, LoopSound, JobsFit, Loop
    <3> QED
      BY <3>1, <3>2 DEF TabKept
  <2> QED
    BY <1>2, <2>1 DEF JobsFit
<1>8. TreesFit(With(ts))
  BY <1>2 DEF TreesFit, TabKept
<1> QED
  BY <1>4, <1>5, <1>6, <1>7, <1>8 DEF LoopSound

\* What is left of a sound state when jobs are taken off its queue.
LEMMA FewerJobs ==
    ASSUME NEW r, NEW s, NEW taken, NEW fewer, LoopSound(s, taken), r \in Loops,
           r.tabs = s.tabs, r.generation = s.generation,
           Range(r.queue) \cup fewer \subseteq Range(s.queue) \cup taken
    PROVE  LoopSound(r, fewer)
BY DEF LoopSound, OwnFile, Counted, JobsFit, TreesFit

\* The end of a turn of the loop.
LEMMA RequestKeeps ==
    ASSUME NEW ts, NEW sh \in [Panes -> Tabs], \A p \in Panes : PaneOf[sh[p]] = p,
           LoopSound(With(ts), Taken'), Taken' \subseteq Requests,
           RequestParseIfStale(ts, sh),
           results' \in Seq(Requests), running' \in Requests \cup {Idle}
    PROVE  PipeInv'
<1>1. PICK r : r = AskForAll(With(ts), sh)
  OBVIOUS
<1>2. /\ tabs' = r.tabs /\ generation' = r.generation /\ queue' = r.queue
      /\ worker' = r.worker /\ shown' = sh
  BY <1>1 DEF RequestParseIfStale, With
<1>3. LoopSound(r, Taken')
  <2>1. PICK taken : taken = Taken'
    OBVIOUS
  <2>2. LoopSound(r, taken)
    BY <1>1, <2>1, AskForAllKeeps
  <2> QED
    BY <2>1, <2>2
<1>4. LoopSound(Loop', Taken')
  <2>1. PICK l : l = Loop'
    OBVIOUS
  <2>2. /\ l.tabs = r.tabs /\ l.generation = r.generation
        /\ l.queue = r.queue /\ l.worker = r.worker
    BY <1>2, <2>1 DEF Loop
  <2>3. l \in Loops
    BY <1>2, <1>3, <2>1 DEF Loop, Loops, LoopSound
  <2>4. LoopSound(l, Taken')
    BY <1>3, <2>2, <2>3
       DEF LoopSound, OwnFile, Counted, JobsFit, TreesFit
  <2> QED
    BY <2>1, <2>4
<1> QED
  BY <1>2, <1>4 DEF PipeInv

(***************************************************************************)
(* Each step keeps the invariant.                                          *)
(***************************************************************************)
LEMMA InitSound ==
    ASSUME Init
    PROVE  PipeInv
<1> DEFINE s == [tabs |-> [t \in Tabs |-> Fresh(t, 1)], generation |-> 0,
                 queue |-> <<>>, worker |-> "running"]
<1>1. /\ First \in [Panes -> Tabs]
      /\ \A p \in Panes : PaneOf[First[p]] = p
      /\ {MaxRevision, MaxBuffer, MaxFile} \subseteq Nat /\ MaxFile # 0
  BY PanesAssumption
<1>2. s.tabs = [t \in Tabs |-> Fresh(t, 1)] /\ s.generation = 0
      /\ s.queue = <<>> /\ s.worker = "running"
  OBVIOUS
<1>3. ASSUME NEW t \in Tabs
      PROVE  /\ Fresh(t, 1) \in TabStates
             /\ Fresh(t, 1).text.of = t /\ Fresh(t, 1).tree = NoTree
             /\ Fresh(t, 1).parsed = NotParsed
             /\ Fresh(t, 1).awaited = NoGeneration
  BY <1>1 DEF Fresh, TabStates, Texts, NotParsed, NoGeneration
<1>4. s \in Loops
  BY <1>3 DEF Loops
<1> HIDE DEF s
<1>5. OwnFile(s)
  BY <1>2, <1>3 DEF OwnFile
<1>6. Counted(s, {})
  BY <1>2, <1>3, RangeOfNone DEF Counted, NoGeneration
<1>7. JobsFit(s, {})
  BY <1>2, RangeOfNone DEF JobsFit
<1>8. TreesFit(s)
  BY <1>2, <1>3 DEF TreesFit, HasItsTree
<1>9. LoopSound(s, {})
  BY <1>4, <1>5, <1>6, <1>7, <1>8 DEF LoopSound
<1>10. PICK r : r = AskForAll(s, First)
  OBVIOUS
<1>11. LoopSound(r, {})
  BY <1>1, <1>9, <1>10, AskForAllKeeps
<1>12. /\ tabs = r.tabs /\ generation = r.generation /\ queue = r.queue
       /\ worker = r.worker /\ shown = First /\ running = Idle /\ results = <<>>
  BY <1>10 DEF Init, s
<1>13. Taken = {}
  BY <1>12, RangeOfNone DEF Taken
<1>14. Loop \in Loops
  BY <1>11, <1>12 DEF Loop, Loops, LoopSound
<1>15. LoopSound(Loop, Taken)
  BY <1>11, <1>12, <1>13, <1>14
     DEF LoopSound, OwnFile, Counted, JobsFit, TreesFit, Loop
<1> QED
  BY <1>1, <1>12, <1>15 DEF PipeInv

\* An edit, a reload or another file in one tab.
LEMMA OneTabKeeps ==
    ASSUME PipeInv, NEW t \in Tabs, NEW new, TabKept(tabs[t], new, t),
           RequestParseIfStale([tabs EXCEPT ![t] = new], shown),
           UNCHANGED <<running, results>>
    PROVE  PipeInv'
<1>1. tabs \in [Tabs -> TabStates]
  BY DEF PipeInv, LoopSound, Loop, Loops
<1>2. PICK ts : ts = [tabs EXCEPT ![t] = new]
  OBVIOUS
<1>3. /\ ts \in [Tabs -> TabStates] /\ ts[t] = new
      /\ \A u \in Tabs \ {t} : ts[u] = tabs[u]
  BY <1>1, <1>2 DEF TabKept
<1>4. \A u \in Tabs : TabKept(tabs[u], ts[u], u)
  BY <1>3, KeptAsItIs
<1>5. Taken' = Taken
  BY DEF Taken
<1>6. LoopSound(With(ts), Taken)
  BY ONLY PipeInv, <1>3, <1>4, WithKept
<1>7. RequestParseIfStale(ts, shown)
  BY <1>2
<1>8. /\ results' \in Seq(Requests) /\ running' \in Requests \cup {Idle}
      /\ shown \in [Panes -> Tabs] /\ \A p \in Panes : PaneOf[shown[p]] = p
  BY DEF PipeInv
<1> QED
  BY <1>5, <1>6, <1>7, <1>8, TakenAreRequests, RequestKeeps

LEMMA TabFacts ==
    ASSUME PipeInv, NEW t \in Tabs
    PROVE  /\ tabs[t] \in TabStates
           /\ tabs[t].text \in Texts /\ tabs[t].text.of = t
           /\ tabs[t].awaited \in Nat
           /\ tabs[t].parsed \in 0..MaxRevision \cup {NotParsed}
           /\ tabs[t].tree \in Texts \cup {NoTree}
           /\ tabs[t].tree # NoTree =>
                 tabs[t].tree.of = t /\ tabs[t].tree.file = tabs[t].text.file
           /\ HasItsTree(tabs[t])
<1>1. tabs[t] \in TabStates
  BY DEF PipeInv, LoopSound, Loop, Loops
<1> QED
  BY <1>1 DEF PipeInv, LoopSound, Loop, OwnFile, TreesFit, TabStates

LEMMA EditKeeps ==
    ASSUME PipeInv, NEW t \in Tabs, Edit(t)
    PROVE  PipeInv'
<1>1. PICK old : old = tabs[t]
  OBVIOUS
<1>2. PICK new : new = [old EXCEPT !.text.revision = @ + 1]
  OBVIOUS
<1>3. /\ old \in TabStates /\ old.text \in Texts /\ old.text.of = t
      /\ old.tree # NoTree => old.tree.of = t /\ old.tree.file = old.text.file
      /\ HasItsTree(old)
  BY <1>1, TabFacts
<1>4. old.text.revision \in 0..MaxRevision /\ old.text.revision < MaxRevision
      /\ MaxRevision \in Nat
  BY <1>1, <1>3, PanesAssumption DEF Edit, Texts
<1>5. /\ new.text = [old.text EXCEPT !.revision = @ + 1]
      /\ new.tree = old.tree /\ new.parsed = old.parsed
      /\ new.awaited = old.awaited
  BY <1>2, <1>3 DEF TabStates
<1>6. /\ new.text \in Texts
      /\ new.text.of = old.text.of /\ new.text.file = old.text.file
      /\ \A k : [new.text EXCEPT !.revision = k] = [old.text EXCEPT !.revision = k]
  <2>1. PICK x : x = old.text
    OBVIOUS
  <2>2. PICK y : y = new.text
    OBVIOUS
  <2>3. PICK r : r = x.revision + 1
    OBVIOUS
  <2>4. x \in Texts /\ r \in 0..MaxRevision /\ y = [x EXCEPT !.revision = r]
    BY <1>3, <1>4, <1>5, <2>1, <2>2, <2>3
  <2>5. y \in Texts /\ y.of = x.of /\ y.file = x.file
    BY ONLY <2>4 DEF Texts
  <2>6. \A k : [y EXCEPT !.revision = k] = [x EXCEPT !.revision = k]
    BY ONLY <2>4 DEF Texts
  <2> QED
    BY <2>1, <2>2, <2>5, <2>6
<1>7. new \in TabStates
  BY <1>2, <1>3, <1>5, <1>6 DEF TabStates
<1>8. Believed(new) = Believed(old)
  BY <1>5, <1>6 DEF Believed
<1>9. TabKept(old, new, t)
  BY <1>3, <1>5, <1>6, <1>7, <1>8 DEF TabKept, HasItsTree, JobFits
<1>10. [tabs EXCEPT ![t].text.revision = @ + 1] = [tabs EXCEPT ![t] = new]
  BY <1>1, <1>2
<1> QED
  BY <1>1, <1>9, <1>10, OneTabKeeps DEF Edit

LEMMA ReloadKeeps ==
    ASSUME PipeInv, NEW t \in Tabs, Reload(t)
    PROVE  PipeInv'
<1>1. PICK old : old = tabs[t]
  OBVIOUS
<1>2. PICK new : new = Reloaded(old)
  OBVIOUS
<1>3. /\ old \in TabStates /\ old.text \in Texts /\ old.text.of = t
  BY <1>1, TabFacts
<1>4. old.text.buffer \in 0..MaxBuffer /\ old.text.buffer < MaxBuffer
      /\ MaxBuffer \in Nat /\ MaxRevision \in Nat
  BY <1>1, <1>3, PanesAssumption DEF Reload, Texts
<1>5. /\ new.text = [old.text EXCEPT !.buffer = @ + 1, !.revision = 0]
      /\ new.tree = NoTree /\ new.parsed = NotParsed
      /\ new.awaited = old.awaited
  BY <1>2, <1>3 DEF TabStates, Reloaded, Texts
<1>6. /\ new.text \in Texts
      /\ new.text.of = old.text.of /\ new.text.file = old.text.file
  <2>1. PICK x : x = old.text
    OBVIOUS
  <2>2. PICK y : y = new.text
    OBVIOUS
  <2>3. PICK b : b = x.buffer + 1
    OBVIOUS
  <2>4. /\ x \in Texts /\ b \in 0..MaxBuffer /\ 0 \in 0..MaxRevision
        /\ y = [x EXCEPT !.buffer = b, !.revision = 0]
    BY <1>3, <1>4, <1>5, <2>1, <2>2, <2>3
  <2>5. y \in Texts /\ y.of = x.of /\ y.file = x.file
    BY ONLY <2>4 DEF Texts
  <2> QED
    BY <2>1, <2>2, <2>5
<1>7. new \in TabStates
  <2>1. new = [text |-> new.text, tree |-> new.tree, parsed |-> new.parsed,
               awaited |-> new.awaited]
    BY <1>2, <1>3 DEF Reloaded, TabStates
  <2>2. [text |-> new.text, tree |-> new.tree, parsed |-> new.parsed,
         awaited |-> new.awaited] \in TabStates
    BY <1>3, <1>5, <1>6 DEF TabStates
  <2> QED
    BY <2>1, <2>2, Zenon
<1>8. TabKept(old, new, t)
  BY <1>3, <1>5, <1>6, <1>7 DEF TabKept, HasItsTree, JobFits
<1>9. RequestParseIfStale([tabs EXCEPT ![t] = new], shown)
  BY <1>1, <1>2 DEF Reload
<1> QED
  BY <1>1, <1>8, <1>9, OneTabKeeps DEF Reload

LEMMA ReplaceKeeps ==
    ASSUME PipeInv, NEW t \in Tabs, Replace(t)
    PROVE  PipeInv'
<1>1. PICK old : old = tabs[t]
  OBVIOUS
<1>2. PICK new : new = Fresh(t, old.text.file + 1)
  OBVIOUS
<1>3. /\ old \in TabStates /\ old.text \in Texts
  BY <1>1, TabFacts
<1>4. /\ old.text.file \in 1..MaxFile /\ old.text.file < MaxFile
      /\ {MaxBuffer, MaxRevision, MaxFile} \subseteq Nat
  BY <1>1, <1>3, PanesAssumption DEF Replace, Texts
<1>5. /\ new.text.of = t
      /\ new.tree = NoTree /\ new.parsed = NotParsed
      /\ new.awaited = NoGeneration
      /\ new \in TabStates
  BY <1>2, <1>4 DEF TabStates, Fresh, Texts, NoGeneration, NotParsed
<1>6. \A job \in Requests : job.generation # NoGeneration
  BY DEF Requests, NoGeneration
<1>7. TabKept(old, new, t)
  BY <1>5, <1>6 DEF TabKept, HasItsTree, JobFits
<1>8. RequestParseIfStale([tabs EXCEPT ![t] = new], shown)
  BY <1>1, <1>2 DEF Replace
<1> QED
  BY <1>1, <1>7, <1>8, OneTabKeeps DEF Replace

LEMMA SwitchKeeps ==
    ASSUME PipeInv, NEW t \in Tabs, Switch(t)
    PROVE  PipeInv'
<1>1. tabs = [u \in Tabs |-> tabs[u]] /\ shown \in [Panes -> Tabs]
      /\ PaneOf[t] \in Panes
  BY PanesAssumption DEF PipeInv, LoopSound, Loop, Loops
<1>2. PICK sh : sh = [shown EXCEPT ![PaneOf[t]] = t]
  OBVIOUS
<1>3. sh \in [Panes -> Tabs] /\ \A p \in Panes : PaneOf[sh[p]] = p
  BY <1>1, <1>2 DEF PipeInv
<1>4. LoopSound(With(tabs), Taken)
  BY DEF PipeInv, With, Loop
<1>5. Taken' = Taken
  BY DEF Taken, Switch
<1>6. results' \in Seq(Requests) /\ running' \in Requests \cup {Idle}
  BY DEF PipeInv, Switch
<1> QED
  BY <1>2, <1>3, <1>4, <1>5, <1>6, TakenAreRequests, RequestKeeps DEF Switch

\* An answer comes: the tabs that gave up on an older one ask again, and the
\* tab that waits for it takes its tree.
LEMMA HandleParsedKeeps ==
    ASSUME PipeInv, HandleParsed
    PROVE  PipeInv'
<1> DEFINE answer == Head(results)
           g == answer.generation
           Delivered(tab) ==
               IF Accepts(tab, g)
               THEN [tab EXCEPT !.awaited = NoGeneration, !.tree = answer.text]
               ELSE tab
           ts == [t \in Tabs |-> Delivered(Forgotten(tabs[t], g))]
<1>1. /\ results # <<>> /\ results' = Tail(results) /\ running' = running
      /\ RequestParseIfStale(ts, shown)
  BY DEF HandleParsed
<1>2. results \in Seq(Requests) /\ running \in Requests \cup {Idle}
      /\ shown \in [Panes -> Tabs] /\ \A p \in Panes : PaneOf[shown[p]] = p
  BY DEF PipeInv
<1>3. /\ results' \in Seq(Requests) /\ Range(results') \subseteq Range(results)
      /\ answer \in Range(results)
  BY <1>1, <1>2, RangeOfTail
<1>4. Taken' \subseteq Taken /\ answer \in Taken
  BY <1>1, <1>3 DEF Taken
<1>5. answer \in Requests /\ g \in Nat \ {0} /\ answer.text \in Texts
  BY <1>4, TakenAreRequests DEF Requests
<1>6. ASSUME NEW t \in Tabs
      PROVE  TabKept(tabs[t], ts[t], t)
  <2>1. PICK old : old = tabs[t]
    OBVIOUS
  <2>2. PICK mid : mid = Forgotten(old, g)
    OBVIOUS
  <2>3. PICK new : new = Delivered(mid)
    OBVIOUS
  <2>4. ts[t] = new
    BY <2>1, <2>2, <2>3
  <2>5. PICK a : a = answer
    OBVIOUS
  <2>6. /\ JobFits(old, t, a) /\ a.generation = g /\ g # NoGeneration
        /\ a.text \in Texts
    BY <1>4, <1>5, <2>1, <2>5
       DEF PipeInv, LoopSound, JobsFit, Loop, NoGeneration
  <2>7. new = IF mid.awaited = g
              THEN [mid EXCEPT !.awaited = NoGeneration, !.tree = a.text]
              ELSE mid
    BY <2>3, <2>5 DEF Accepts
  <2> HIDE DEF answer, ts, g
  <2>8. TabKept(old, old, t) /\ old \in TabStates
    BY <2>1, KeptAsItIs DEF TabKept
  <2>9. \A job \in Requests : job.generation # NoGeneration
    BY DEF Requests, NoGeneration
  <2>10. CASE old.awaited # NoGeneration /\ old.awaited < g
    <3>1. mid = [old EXCEPT !.awaited = NoGeneration, !.parsed = NotParsed]
      BY <2>2, <2>10 DEF Forgotten
    <3>2. /\ mid \in TabStates /\ mid.awaited = NoGeneration
          /\ mid.parsed = NotParsed /\ mid.text = old.text
          /\ mid.tree = old.tree
      BY <2>8, <3>1 DEF TabStates, NoGeneration
    <3>3. new = mid
      BY <2>6, <2>7, <3>2
    <3> QED
      BY <2>1, <2>4, <2>8, <2>9, <3>2, <3>3 DEF TabKept, HasItsTree, JobFits
  <2>11. CASE ~(old.awaited # NoGeneration /\ old.awaited < g)
    <3>1. mid = old
      BY <2>2, <2>11 DEF Forgotten
    <3>2. CASE old.awaited # g
      BY <2>1, <2>4, <2>7, <2>8, <3>1, <3>2
    <3>3. CASE old.awaited = g
      <4>1. new = [old EXCEPT !.awaited = NoGeneration, !.tree = a.text]
        BY <2>7, <3>1, <3>3
      <4>2. /\ new \in TabStates /\ new.awaited = NoGeneration
            /\ new.tree = a.text /\ new.parsed = old.parsed
            /\ new.text = old.text
        BY <2>6, <2>8, <4>1 DEF TabStates, NoGeneration
      <4>3. /\ a.text.of = t /\ a.text.file = old.text.file
            /\ old.parsed # NotParsed => a.text = Believed(old)
        BY <2>6, <3>3 DEF JobFits
      <4>4. Believed(new) = Believed(old)
        BY <4>2 DEF Believed
      <4>5. HasItsTree(new)
        BY <4>2, <4>3, <4>4 DEF HasItsTree
      <4>6. \A job \in Requests : JobFits(new, t, job)
        BY <2>9, <4>2 DEF JobFits
      <4>7. new.text.of = t
        BY <2>8, <4>2 DEF TabKept
      <4> QED
        BY <2>1, <2>4, <4>2, <4>3, <4>5, <4>6, <4>7 DEF TabKept
    <3> QED
      BY <3>2, <3>3
  <2> QED
    BY <2>10, <2>11
<1>7. ts \in [Tabs -> TabStates]
  BY <1>6 DEF TabKept
<1> HIDE DEF ts, answer
<1>8. LoopSound(With(ts), Taken')
  <2>1. PICK fewer : fewer = Taken'
    OBVIOUS
  <2>2. PICK us : us = ts
    OBVIOUS
  <2>3. LoopSound(With(us), fewer)
    BY <1>4, <1>6, <1>7, <2>1, <2>2, WithKept
  <2> QED
    BY <2>1, <2>2, <2>3
<1>9. Taken' \subseteq Requests
  BY <1>4, TakenAreRequests
<1>10. PICK us : us = ts
  OBVIOUS
<1> QED
  BY <1>1, <1>2, <1>3, <1>8, <1>9, <1>10, RequestKeeps

\* The thread takes the newest job, or ends one, or dies.
LEMMA ThreadKeeps ==
    ASSUME PipeInv, WorkerTakes \/ WorkerDone \/ WorkerDies
    PROVE  PipeInv'
<1>1. /\ LoopSound(Loop, Taken)
      /\ results \in Seq(Requests) /\ running \in Requests \cup {Idle}
      /\ shown \in [Panes -> Tabs] /\ \A p \in Panes : PaneOf[shown[p]] = p
  BY DEF PipeInv
<1>2. /\ tabs \in [Tabs -> TabStates] /\ generation \in Nat
      /\ queue \in Seq(Requests) /\ worker \in {"running", "dead", "given up"}
  BY <1>1 DEF LoopSound, Loop, Loops
<1>3. /\ tabs' = tabs /\ generation' = generation /\ shown' = shown
      /\ worker' \in {worker, "dead"}
  BY DEF WorkerTakes, WorkerDone, WorkerDies
<1>4. /\ queue' \in Seq(Requests) /\ results' \in Seq(Requests)
      /\ running' \in Requests \cup {Idle}
      /\ Range(queue') \cup Taken' \subseteq Range(queue) \cup Taken
  <2>1. CASE WorkerTakes
    <3>1. /\ queue # <<>> /\ running' = queue[Len(queue)] /\ queue' = <<>>
          /\ results' = results
      BY <2>1 DEF WorkerTakes, Newest, Last
    <3>2. PICK q : q = queue
      OBVIOUS
    <3>3. q \in Seq(Requests) /\ q # <<>>
      BY <1>2, <3>1, <3>2
    <3>4. Len(q) \in DOMAIN q
      BY ONLY <3>3
    <3>5. running' \in Range(queue)
      BY <3>1, <3>2, <3>4 DEF Range
    <3>6. running' \in Requests
      BY <1>2, <3>5, JobsAreRequests
    <3>7. Range(queue') = {} /\ queue' \in Seq(Requests)
      BY <3>1, RangeOfNone
    <3>8. Taken' \subseteq Range(queue) \cup Taken
      BY <3>1, <3>5 DEF Taken
    <3> QED
      BY <1>1, <3>1, <3>6, <3>7, <3>8
  <2>2. CASE WorkerDone
    <3>1. /\ running # Idle /\ running' = Idle /\ queue' = queue
          /\ results' = results \/ results' = Append(results, running)
      BY <2>2 DEF WorkerDone
    <3>2. running \in Requests
      BY <1>1, <3>1
    <3>3. /\ results' \in Seq(Requests)
          /\ Range(results') \subseteq Range(results) \cup {running}
      <4>1. CASE results' = results
        BY <1>1, <4>1
      <4>2. CASE results' = Append(results, running)
        BY <1>1, <3>2, <4>2, RangeOfAppend
      <4> QED
        BY <3>1, <4>1, <4>2
    <3> QED
      BY <1>2, <3>1, <3>3 DEF Taken
  <2>3. CASE WorkerDies
    BY <1>1, <1>2, <2>3, RangeOfNone DEF WorkerDies, Taken
  <2> QED
    BY <2>1, <2>2, <2>3
<1>5. LoopSound(Loop', Taken')
  <2>1. PICK r : r = Loop'
    OBVIOUS
  <2>2. PICK fewer : fewer = Taken'
    OBVIOUS
  <2>3. PICK s : s = Loop
    OBVIOUS
  <2>4. /\ r.tabs = s.tabs /\ r.generation = s.generation
        /\ r.queue = queue' /\ s.queue = queue
    BY <1>3, <2>1, <2>3 DEF Loop
  <2>5. r \in Loops
    BY <1>2, <1>3, <1>4, <2>1 DEF Loop, Loops
  <2>6. LoopSound(s, Taken)
    BY <1>1, <2>3
  <2>7. PICK taken : taken = Taken
    OBVIOUS
  <2>8. Range(r.queue) \cup fewer \subseteq Range(s.queue) \cup taken
    BY <1>4, <2>2, <2>4, <2>7
  <2>9. LoopSound(r, fewer)
    BY <2>4, <2>5, <2>6, <2>7, <2>8, FewerJobs
  <2> QED
    BY <2>1, <2>2, <2>9
<1> QED
  BY <1>1, <1>3, <1>4, <1>5 DEF PipeInv

LEMMA StepKeeps ==
    ASSUME PipeInv, [Next]_vars
    PROVE  PipeInv'
<1>1. CASE Next
  BY <1>1, EditKeeps, ReloadKeeps, ReplaceKeeps, SwitchKeeps,
     HandleParsedKeeps, ThreadKeeps DEF Next
<1>2. CASE UNCHANGED vars
  <2>1. Loop' = Loop /\ Taken' = Taken
    BY <1>2 DEF vars, thread, Loop, Taken
  <2>2. results' = results /\ running' = running /\ shown' = shown
    BY <1>2 DEF vars, thread
  <2> QED
    BY <2>1, <2>2 DEF PipeInv
<1> QED
  BY <1>1, <1>2

LEMMA PipeInvHolds == Spec => []PipeInv
<1>1. Init => PipeInv
  BY InitSound
<1>2. PipeInv /\ [Next]_vars => PipeInv'
  BY StepKeeps
<1> QED
  BY <1>1, <1>2, PTL DEF Spec

(***************************************************************************)
(* What the invariant says of the properties.                              *)
(***************************************************************************)
\* A tree only ever colours the file it was parsed from.  This is about
\* `handle_parsed`.
THEOREM TreesStayWithTheirFile == Spec => []TreeIsOfItsFile
<1>1. PipeInv => TreeIsOfItsFile
  BY TabFacts DEF TreeIsOfItsFile
<1> QED
  BY <1>1, PipeInvHolds, PTL

LEMMA TypesHold ==
    ASSUME PipeInv
    PROVE  TypeOK
<1>1. ASSUME NEW t \in Tabs
      PROVE  tabs[t] \in [text : Texts, tree : Texts \cup {NoTree},
                          parsed : 0..MaxRevision \cup {NotParsed},
                          awaited : 0..generation]
  <2>1. PICK tab : tab = tabs[t]
    OBVIOUS
  <2>2. tab \in TabStates
    BY <2>1, TabFacts
  <2>3. tab.awaited <= generation /\ generation \in Nat
    BY <2>1 DEF PipeInv, LoopSound, Counted, Loop, Loops
  <2> QED
    BY <2>1, <2>2, <2>3 DEF TabStates
<1>2. tabs \in [Tabs -> [text : Texts, tree : Texts \cup {NoTree},
                         parsed : 0..MaxRevision \cup {NotParsed},
                         awaited : 0..generation]]
  <2>1. tabs \in [Tabs -> TabStates]
    BY DEF PipeInv, LoopSound, Loop, Loops
  <2> QED
    BY <1>1, <2>1
<1>3. \A job \in Jobs : job.generation \in 1..generation /\ job.text \in Texts
  <2>1. queue \in Seq(Requests) /\ generation \in Nat
    BY DEF PipeInv, LoopSound, Loop, Loops
  <2>2. \A job \in Range(queue) \cup Taken : job.generation <= generation
    BY DEF PipeInv, LoopSound, Loop, Counted
  <2>3. Range(queue) \cup Taken \subseteq Requests
    BY <2>1, JobsAreRequests, TakenAreRequests
  <2>4. Jobs = Range(queue) \cup Taken
    BY DEF Jobs, Taken
  <2> QED
    BY <2>1, <2>2, <2>3, <2>4 DEF Requests
<1>4. /\ shown \in [Panes -> Tabs]
      /\ \A p \in Panes : PaneOf[shown[p]] = p
      /\ worker \in {"running", "dead", "given up"}
  BY DEF PipeInv, LoopSound, Loop, Loops
<1>5. \A t, u \in Tabs :
          tabs[t].awaited = tabs[u].awaited /\ t # u
              => tabs[t].awaited = NoGeneration
  BY DEF PipeInv, LoopSound, Counted, Loop
<1> QED
  BY <1>2, <1>3, <1>4, <1>5 DEF TypeOK

\* No tab is wrong about having been parsed: one whose text is the one it
\* last asked about, and that waits for nothing, has the tree of that text.
\* This is about `parsed_revision` and what `handle_parsed` forgets.
THEOREM TabsBelieveRightly == Spec => []ParseSound
<1>1. PipeInv => BelievesRightly
  <2> SUFFICES ASSUME PipeInv, NEW t \in Tabs, ~IsStale(tabs[t]),
                      tabs[t].awaited = NoGeneration
               PROVE  IsCurrent(t)
    BY DEF BelievesRightly
  <2>1. PICK tab : tab = tabs[t]
    OBVIOUS
  <2>2. tab.text \in Texts /\ tab.parsed = tab.text.revision /\ HasItsTree(tab)
    BY <2>1, TabFacts DEF IsStale
  <2>3. tab.text.revision \in 0..MaxRevision
    BY <2>2 DEF Texts
  <2>4. tab.parsed # NotParsed
    BY <2>2, <2>3, PanesAssumption DEF NotParsed
  <2>5. tab.tree = Believed(tab)
    BY <2>1, <2>2, <2>4 DEF HasItsTree
  <2>6. Believed(tab) = tab.text
    BY <2>2 DEF Believed, Texts
  <2> QED
    BY <2>1, <2>5, <2>6 DEF IsCurrent
<1>2. PipeInv => ParseSound
  BY <1>1, TypesHold DEF ParseSound
<1> QED
  BY <1>2, PipeInvHolds, PTL
==============================================================================
