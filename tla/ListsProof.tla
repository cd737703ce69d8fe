------------------------------ MODULE ListsProof ------------------------------
(***************************************************************************)
(* Proofs about Lists: that what is chosen in the picker and accepted from *)
(* the completion list is what is shown, that an answer that comes late    *)
(* changes no list it is not about, and that paths are ranked from the     *)
(* walk asked for before them; for any letters, any length of a query or a *)
(* line, any number of questions and rows, and a thread that may die.      *)
(***************************************************************************)
EXTENDS Lists, SequenceTheorems, FiniteSetTheorems, WellFoundedInduction, TLAPS

(***************************************************************************)
(* Numbers.                                                                *)
(***************************************************************************)
LEMMA LeastOfTwo ==
    ASSUME NEW a \in Int, NEW b \in Int
    PROVE  Min({a, b}) = IF a <= b THEN a ELSE b
<1> DEFINE m == IF a <= b THEN a ELSE b
<1>1. m \in {a, b} /\ \A y \in {a, b} : m <= y
  OBVIOUS
<1>2. ASSUME NEW x \in {a, b}, \A y \in {a, b} : x <= y  PROVE x = m
  BY <1>2
<1> QED BY <1>1, <1>2 DEF Min

LEMMA MostOfTwo ==
    ASSUME NEW a \in Int, NEW b \in Int
    PROVE  Max({a, b}) = IF a >= b THEN a ELSE b
<1> DEFINE m == IF a >= b THEN a ELSE b
<1>1. m \in {a, b} /\ \A y \in {a, b} : m >= y
  OBVIOUS
<1>2. ASSUME NEW x \in {a, b}, \A y \in {a, b} : x >= y  PROVE x = m
  BY <1>2
<1> QED BY <1>1, <1>2 DEF Max

\* What holds of no number less than all others for which it fails, holds.
LEMMA EveryNumber ==
    ASSUME NEW N \in Nat, NEW T, 0 \in T, \A n \in 1..N : n - 1 \in T => n \in T
    PROVE  \A n \in 0..N : n \in T
<1> DEFINE Bad == {n \in 0..N : n \notin T}
<1>1. SUFFICES ASSUME Bad # {} PROVE FALSE
  OBVIOUS
<1>2. PICK x \in Bad : \A y \in Bad : ~(y < x)
  <2>1. IsWellFoundedOn(OpToRel(<, Nat), Nat)
    BY NatLessThanWellFounded
  <2>2. Bad \subseteq Nat
    OBVIOUS
  <2> HIDE DEF Bad
  <2>3. PICK x \in Bad : \A y \in Bad : <<y, x>> \notin OpToRel(<, Nat)
    BY <1>1, <2>1, <2>2, WFMin, Zenon
  <2> QED BY <2>2, <2>3 DEF OpToRel
<1>3. x # 0 /\ x \in 1..N /\ x - 1 \in 0..N /\ x - 1 < x
  BY <1>2
<1>4. x - 1 \in T
  BY <1>2, <1>3
<1> QED BY <1>2, <1>3, <1>4

\* A set of places of a queue that is not empty has a last one.
LEMMA LastPlace ==
    ASSUME NEW N \in Nat, NEW S, S \subseteq 1..N, S # {}
    PROVE  Max(S) \in S /\ \A n \in S : n <= Max(S)
<1> DEFINE T == {k \in 0..N : (\E n \in S : n <= k) =>
                                 \E m \in S : m <= k /\ \A n \in S : n <= k => n <= m}
<1>1. 0 \in T
  OBVIOUS
<1>2. ASSUME NEW k \in 1..N, k - 1 \in T  PROVE k \in T
  <2>1. CASE k \in S
    BY <2>1
  <2>2. CASE k \notin S
    <3>1. \A n \in S : n <= k => n <= k - 1
      BY <2>2
    <3>2. \A m \in S : m <= k - 1 => m <= k
      OBVIOUS
    <3> QED BY <1>2, <3>1, <3>2
  <2> QED BY <2>1, <2>2
<1> HIDE DEF T
<1>3. N \in T
  BY <1>1, <1>2, EveryNumber
<1>4. PICK m \in S : \A n \in S : n <= m
  <2>1. \A n \in S : n <= N
    OBVIOUS
  <2>2. (\E n \in S : n <= N) => \E m \in S : m <= N /\ \A n \in S : n <= N => n <= m
    BY <1>3 DEF T
  <2> QED BY <2>1, <2>2
<1>5. m \in S /\ \A n \in S : m >= n
  BY <1>4
<1>6. Max(S) \in S /\ \A n \in S : Max(S) >= n
  BY <1>5 DEF Max
<1> QED BY <1>6

-----------------------------------------------------------------------------
(***************************************************************************)
(* The finding thread: types, and the invariant of all but the overlay.    *)
(***************************************************************************)
Query == Seq(Letters \cup {Prefix})
FoundList == [query : Query, walk : Nat]
Jobs == [kind : {"Index"}, walk : Nat]
        \cup [kind : {"Filter", "Grep"}, generation : Nat, query : Query, walk : Nat]
Reports == [kind : {"Indexed", "Files", "Lines"}, generation : Nat, list : FoundList, asked : Nat]

WorkerTypes ==
    /\ jobs \in Seq(Jobs) /\ batch \in Seq(Jobs) /\ results \in Seq(Reports)
    /\ corpus \in Nat /\ generation \in Nat /\ awaited \in Nat /\ walks \in Nat
    /\ alive \in BOOLEAN /\ wired \in BOOLEAN
    /\ findHits \in FoundList /\ grepHits \in FoundList

\* Every question counted is awaited; a thread that is gone holds nothing, and
\* one that is not is written to.
Counters ==
    /\ awaited = generation
    /\ alive => wired
    /\ ~alive => jobs = <<>> /\ batch = <<>>

\* The walks that are queued are newer and newer, and newer than the one under
\* way and the one the paths are from.
WalksInOrder ==
    /\ corpus <= walks
    /\ \A n \in DOMAIN jobs : jobs[n].kind = "Index" => corpus <= jobs[n].walk /\ jobs[n].walk <= walks
    /\ \A m, n \in DOMAIN jobs :
          m < n /\ jobs[m].kind = "Index" /\ jobs[n].kind = "Index" => jobs[m].walk <= jobs[n].walk
    /\ \A n \in DOMAIN batch : batch[n].kind = "Index" =>
          /\ n = 1 /\ corpus <= batch[n].walk /\ batch[n].walk <= walks
          /\ \A m \in DOMAIN jobs : jobs[m].kind = "Index" => batch[n].walk <= jobs[m].walk

\* The last walk asked for is done, under way or queued.
WalkComes ==
    alive => \/ corpus = walks
             \/ \E n \in DOMAIN batch : batch[n].kind = "Index" /\ batch[n].walk = walks
             \/ \E n \in DOMAIN jobs : jobs[n].kind = "Index" /\ jobs[n].walk = walks

\* What is to be ranked is ranked after the walk it was asked after.
RankedAfter ==
    /\ \A n \in DOMAIN jobs : jobs[n].kind = "Filter" => jobs[n].walk <= walks
    /\ \A n \in DOMAIN batch : batch[n].kind = "Filter" =>
          \/ batch[n].walk <= corpus
          \/ batch[1].kind = "Index" /\ batch[n].walk <= batch[1].walk
    /\ RankedFromTheWalk

\* The questions under way, as what would be answered.
Asked(job) == [answers |-> IF job.kind = "Filter" THEN "Files" ELSE "Lines",
               generation |-> job.generation, query |-> job.query]
Told(found) == [answers |-> found.kind, generation |-> found.generation,
                query |-> found.list.query]
AskedIn(queue) == {Asked(queue[n]) : n \in Questions(queue)}
ToldIn(queue) == {Told(queue[n]) : n \in {m \in DOMAIN queue : queue[m].kind # "Indexed"}}

UnderWay == AskedIn(jobs) \cup AskedIn(batch) \cup ToldIn(results)

\* They are numbered in the order they were asked.
Numbered ==
    /\ \A q \in UnderWay : q.generation <= generation
    /\ \A m, n \in Questions(jobs) : m < n => jobs[m].generation < jobs[n].generation

WorkerInv ==
    WorkerTypes /\ Counters /\ WalksInOrder /\ WalkComes /\ RankedAfter /\ Numbered

-----------------------------------------------------------------------------
\* The last job of its kind in the queue.
LastOfKind(n) ==
    n \in DOMAIN jobs /\ \A m \in DOMAIN jobs : jobs[m].kind = jobs[n].kind => m <= n

\* Every job of the queue is one of three kinds, and the last of each is there.
LEMMA KindHasLast ==
    ASSUME jobs \in Seq(Jobs), NEW k \in DOMAIN jobs
    PROVE  \E n \in DOMAIN jobs : LastOfKind(n) /\ jobs[n].kind = jobs[k].kind /\ k <= n
<1> DEFINE S == {n \in DOMAIN jobs : jobs[n].kind = jobs[k].kind}
<1>1. S \subseteq 1..Len(jobs) /\ S # {} /\ Len(jobs) \in Nat /\ k \in S
  BY LenProperties
<1> HIDE DEF S
<1>2. Max(S) \in S /\ \A n \in S : n <= Max(S)
  BY <1>1, LastPlace
<1> QED BY <1>1, <1>2 DEF S, LastOfKind

LEMMA LastOfIs ==
    ASSUME jobs \in Seq(Jobs), NEW kind
    PROVE  \/ LastOf(kind) = <<>> /\ \A n \in DOMAIN jobs : jobs[n].kind # kind
           \/ \E n \in DOMAIN jobs : LastOfKind(n) /\ jobs[n].kind = kind /\ LastOf(kind) = <<jobs[n]>>
<1> DEFINE S == {n \in DOMAIN jobs : jobs[n].kind = kind}
<1>1. LastOf(kind) = IF S = {} THEN <<>> ELSE <<jobs[Max(S)]>>
  BY DEF LastOf
<1>2. S \subseteq 1..Len(jobs) /\ Len(jobs) \in Nat
  BY LenProperties
<1>3. CASE S = {}
  BY <1>1, <1>3
<1>4. CASE S # {}
  <2> HIDE DEF S
  <2>1. Max(S) \in S /\ \A n \in S : n <= Max(S)
    BY <1>2, <1>4, LastPlace
  <2>2. Max(S) \in DOMAIN jobs /\ LastOfKind(Max(S)) /\ jobs[Max(S)].kind = kind
    BY <2>1 DEF S, LastOfKind
  <2> QED BY <1>1, <1>4, <2>2
<1> QED BY <1>3, <1>4

LEMMA AtMostOne ==
    ASSUME NEW S, NEW s, s = <<>> \/ \E x \in S : s = <<x>>
    PROVE  s \in Seq(S) /\ Len(s) \in {0, 1} /\ DOMAIN s = 1..Len(s)
<1>1. CASE s = <<>>
  BY <1>1
<1>2. CASE \E x \in S : s = <<x>>
  <2>1. PICK x \in S : s = <<x>>
    BY <1>2
  <2>2. <<x>> \in Seq(S) /\ Len(<<x>>) = 1 /\ DOMAIN <<x>> = 1..1
    OBVIOUS
  <2> QED BY <2>1, <2>2
<1> QED BY <1>1, <1>2

\* What is drained is the last of each kind, each of them, and a walk first.
LEMMA DrainIs ==
    ASSUME jobs \in Seq(Jobs)
    PROVE  /\ Drain \in Seq(Jobs)
           /\ \A i \in DOMAIN Drain : \E n \in DOMAIN jobs :
                 LastOfKind(n) /\ Drain[i] = jobs[n] /\ (jobs[n].kind = "Index" => i = 1)
           /\ \A n \in DOMAIN jobs : LastOfKind(n) =>
                 \E i \in DOMAIN Drain : Drain[i] = jobs[n] /\ (jobs[n].kind = "Index" => i = 1)
<1> DEFINE LastIs(kind, s) ==
      \/ s = <<>> /\ \A n \in DOMAIN jobs : jobs[n].kind # kind
      \/ \E n \in DOMAIN jobs : LastOfKind(n) /\ jobs[n].kind = kind /\ s = <<jobs[n]>>
<1> DEFINE Drained(s) ==
      /\ s \in Seq(Jobs)
      /\ \A i \in DOMAIN s : \E n \in DOMAIN jobs :
            LastOfKind(n) /\ s[i] = jobs[n] /\ (jobs[n].kind = "Index" => i = 1)
      /\ \A n \in DOMAIN jobs : LastOfKind(n) =>
            \E i \in DOMAIN s : s[i] = jobs[n] /\ (jobs[n].kind = "Index" => i = 1)
<1>1. LastIs("Index", LastOf("Index")) /\ LastIs("Filter", LastOf("Filter")) /\ LastIs("Grep", LastOf("Grep"))
  BY LastOfIs
<1>2. \A n \in DOMAIN jobs : jobs[n] \in Jobs /\ jobs[n].kind \in {"Index", "Filter", "Grep"}
  BY ElementOfSeq, LenProperties DEF Jobs
<1>3. \A m, n \in DOMAIN jobs : LastOfKind(m) /\ LastOfKind(n) /\ jobs[m].kind = jobs[n].kind => m = n
  BY LenProperties DEF LastOfKind
<1>4. ASSUME NEW a, NEW b, NEW c, LastIs("Index", a), LastIs("Filter", b), LastIs("Grep", c)
      PROVE  Drained(a \o b \o c)
  <2>1. /\ a = <<>> \/ \E x \in Jobs : a = <<x>>
        /\ b = <<>> \/ \E x \in Jobs : b = <<x>>
        /\ c = <<>> \/ \E x \in Jobs : c = <<x>>
    BY <1>2, <1>4
  <2>2. a \o b \o c \in Seq(Jobs) /\ Len(a \o b \o c) = Len(a) + Len(b) + Len(c)
    <3>1. a \in Seq(Jobs) /\ b \in Seq(Jobs) /\ c \in Seq(Jobs)
      BY <2>1, AtMostOne
    <3>2. a \o b \in Seq(Jobs) /\ Len(a \o b) = Len(a) + Len(b)
      BY <3>1, ConcatProperties
    <3> QED BY <3>1, <3>2, ConcatProperties, LenProperties
  <2>3. /\ \A i \in DOMAIN a : (a \o b \o c)[i] = a[i]
        /\ \A i \in DOMAIN b : (a \o b \o c)[Len(a) + i] = b[i]
        /\ \A i \in DOMAIN c : (a \o b \o c)[Len(a) + Len(b) + i] = c[i]
    BY <2>1
  <2>4. Len(a) \in {0, 1} /\ Len(b) \in {0, 1} /\ Len(c) \in {0, 1}
    BY <2>1
  <2>5. ASSUME NEW i \in DOMAIN (a \o b \o c)
        PROVE  \/ i = 1 /\ i \in DOMAIN a
               \/ i - Len(a) = 1 /\ i - Len(a) \in DOMAIN b
               \/ i - Len(a) - Len(b) = 1 /\ i - Len(a) - Len(b) \in DOMAIN c
    <3>1. i \in 1..Len(a) + Len(b) + Len(c)
      BY <2>2, LenProperties
    <3>2. DOMAIN a = 1..Len(a) /\ DOMAIN b = 1..Len(b) /\ DOMAIN c = 1..Len(c)
      BY <2>1, AtMostOne
    <3>3. ASSUME NEW l \in {0, 1}, NEW m \in {0, 1}, NEW n \in {0, 1}, i \in 1..l + m + n
          PROVE  (i = 1 /\ i \in 1..l) \/ (i - l = 1 /\ i - l \in 1..m)
                 \/ (i - l - m = 1 /\ i - l - m \in 1..n)
      BY <3>3
    <3> QED BY <2>4, <3>1, <3>2, <3>3
  <2> DEFINE s == a \o b \o c
  <2> HIDE DEF s
  <2>6. ASSUME NEW i \in DOMAIN s
        PROVE  \E n \in DOMAIN jobs : LastOfKind(n) /\ s[i] = jobs[n] /\ (jobs[n].kind = "Index" => i = 1)
    <3>1. CASE i = 1 /\ i \in DOMAIN a
      BY <3>1, <1>4, <2>3 DEF s
    <3>2. CASE i - Len(a) = 1 /\ i - Len(a) \in DOMAIN b
      <4>1. s[i] = b[1]
        BY <3>2, <2>3, <2>4 DEF s
      <4> QED BY <3>2, <4>1, <1>4
    <3>3. CASE i - Len(a) - Len(b) = 1 /\ i - Len(a) - Len(b) \in DOMAIN c
      <4>1. s[i] = c[1]
        BY <3>3, <2>3, <2>4 DEF s
      <4> QED BY <3>3, <4>1, <1>4
    <3> QED BY <2>5, <3>1, <3>2, <3>3 DEF s
  <2>7. ASSUME NEW n \in DOMAIN jobs, LastOfKind(n)
        PROVE  \E i \in DOMAIN s : s[i] = jobs[n] /\ (jobs[n].kind = "Index" => i = 1)
    <3>1. CASE jobs[n].kind = "Index"
      <4>1. a = <<jobs[n]>>
        BY <3>1, <1>3, <1>4, <2>7
      <4> QED BY <4>1, <2>2, <2>3, <2>4 DEF s
    <3>2. CASE jobs[n].kind = "Filter"
      <4>1. b = <<jobs[n]>>
        BY <3>2, <1>3, <1>4, <2>7
      <4>2. Len(a) + 1 \in DOMAIN s /\ s[Len(a) + 1] = jobs[n]
        BY <4>1, <2>2, <2>3, <2>4, LenProperties DEF s
      <4> QED BY <4>2, <3>2
    <3>3. CASE jobs[n].kind = "Grep"
      <4>1. c = <<jobs[n]>>
        BY <3>3, <1>3, <1>4, <2>7
      <4>2. Len(a) + Len(b) + 1 \in DOMAIN s /\ s[Len(a) + Len(b) + 1] = jobs[n]
        <5>1. Len(c) = 1 /\ DOMAIN c = {1} /\ c[1] = jobs[n]
          BY <4>1
        <5>2. DOMAIN s = 1..Len(a) + Len(b) + 1
          <6>1. Len(s) = Len(a) + Len(b) + 1 /\ s \in Seq(Jobs)
            BY <5>1, <2>2 DEF s
          <6> QED BY <6>1, LenProperties
        <5>3. s[Len(a) + Len(b) + 1] = c[1]
          BY <5>1, <2>3 DEF s
        <5> QED BY <5>1, <5>2, <5>3, <2>4
      <4> QED BY <4>2, <3>3
    <3> QED BY <1>2, <3>1, <3>2, <3>3
  <2> QED BY <2>2, <2>6, <2>7 DEF s
<1> HIDE DEF LastIs, Drained
<1>5. Drained(LastOf("Index") \o LastOf("Filter") \o LastOf("Grep"))
  BY <1>1, <1>4
<1>6. Drained(Drain)
  BY <1>5 DEF Drain
<1> QED BY <1>6 DEF Drained

-----------------------------------------------------------------------------
(***************************************************************************)
(* The thread keeps its invariant.                                         *)
(***************************************************************************)
LEMMA OfKind ==
    /\ \A job \in Jobs : /\ job.kind \in {"Index", "Filter", "Grep"} /\ job.walk \in Nat
                         /\ job.kind # "Index" => job.generation \in Nat /\ job.query \in Query
    /\ \A found \in Reports : /\ found.kind \in {"Indexed", "Files", "Lines"}
                              /\ found.generation \in Nat /\ found.asked \in Nat
                              /\ found.list \in FoundList
    /\ \A l \in FoundList : l.query \in Query /\ l.walk \in Nat
    /\ \A walk \in Nat : Index(walk) \in Jobs /\ Index(walk).kind = "Index" /\ Index(walk).walk = walk
    /\ \A kind \in {"Filter", "Grep"}, g \in Nat, query \in Query, walk \in Nat :
          LET q == Question(kind, g, query, walk)
          IN  q \in Jobs /\ q.kind = kind /\ q.generation = g /\ q.query = query /\ q.walk = walk
    /\ \A query \in Query, walk \in Nat :
          List(query, walk) \in FoundList /\ List(query, walk).query = query /\ List(query, walk).walk = walk
    /\ NoList \in FoundList
  BY DEF Jobs, Reports, FoundList, Query, Index, Question, List, NoList, Nobody

LEMMA InQueue ==
    ASSUME NEW S, NEW s \in Seq(S)
    PROVE  DOMAIN s = 1..Len(s) /\ Len(s) \in Nat /\ \A n \in DOMAIN s : s[n] \in S
  BY ElementOfSeq, LenProperties

\* The tail of a queue is all of it but its head.
LEMMA TailIs ==
    ASSUME NEW S, NEW s \in Seq(S), s # <<>>
    PROVE  /\ Tail(s) \in Seq(S) /\ 1 \in DOMAIN s /\ s[1] \in S /\ Head(s) = s[1]
           /\ \A n \in DOMAIN Tail(s) : n + 1 \in DOMAIN s /\ n + 1 > 1 /\ Tail(s)[n] = s[n + 1]
           /\ \A n \in DOMAIN s : n # 1 => n - 1 \in DOMAIN Tail(s) /\ Tail(s)[n - 1] = s[n]
<1>1. /\ Tail(s) \in Seq(S) /\ Len(Tail(s)) = Len(s) - 1 /\ Head(s) = s[1]
      /\ \A n \in 1..Len(s) - 1 : Tail(s)[n] = s[n + 1]
  BY HeadTailProperties
<1>2. DOMAIN s = 1..Len(s) /\ DOMAIN Tail(s) = 1..Len(s) - 1 /\ Len(s) \in Nat /\ Len(s) # 0
  BY <1>1, LenProperties, EmptySeq
<1> QED BY <1>1, <1>2, ElementOfSeq

LEMMA QueuedIs ==
    ASSUME NEW S, NEW s \in Seq(S), NEW x \in S
    PROVE  /\ Append(s, x) \in Seq(S) /\ Len(s) + 1 \in DOMAIN Append(s, x)
           /\ Append(s, x)[Len(s) + 1] = x
           /\ \A n \in DOMAIN s : n \in DOMAIN Append(s, x) /\ Append(s, x)[n] = s[n]
           /\ \A n \in DOMAIN Append(s, x) : n # Len(s) + 1 => n \in DOMAIN s
<1>1. /\ Append(s, x) \in Seq(S) /\ Len(Append(s, x)) = Len(s) + 1
      /\ \A n \in 1..Len(s) : Append(s, x)[n] = s[n]
      /\ Append(s, x)[Len(s) + 1] = x
  BY AppendProperties
<1> QED BY <1>1, LenProperties

LEMMA UnderWayIs ==
    ASSUME WorkerTypes
    PROVE  \A a \in UnderWay : a.generation \in Nat /\ a.query \in Query /\ a.answers \in {"Files", "Lines"}
<1>1. /\ \A n \in DOMAIN jobs : jobs[n] \in Jobs
      /\ \A n \in DOMAIN batch : batch[n] \in Jobs
      /\ \A n \in DOMAIN results : results[n] \in Reports
  BY InQueue DEF WorkerTypes
<1>2. ASSUME NEW a \in AskedIn(jobs) \cup AskedIn(batch)
      PROVE  a.generation \in Nat /\ a.query \in Query /\ a.answers \in {"Files", "Lines"}
  <2>1. PICK job \in Jobs : job.kind # "Index" /\ a = Asked(job)
    BY <1>1, <1>2 DEF AskedIn, Questions
  <2> QED BY <2>1, OfKind DEF Asked
<1>3. ASSUME NEW a \in ToldIn(results)
      PROVE  a.generation \in Nat /\ a.query \in Query /\ a.answers \in {"Files", "Lines"}
  <2>1. PICK found \in Reports : found.kind # "Indexed" /\ a = Told(found)
    BY <1>1, <1>3 DEF ToldIn
  <2> QED BY <2>1, OfKind DEF Told
<1> QED BY <1>2, <1>3 DEF UnderWay

LEMMA WorkerStarts ==
    ASSUME Init
    PROVE  WorkerInv /\ UnderWay = {}
<1> USE DEF Init
<1>1. WorkerTypes
  BY OfKind DEF WorkerTypes
<1>2. UnderWay = {}
  BY DEF UnderWay, AskedIn, ToldIn, Questions
<1>3. Counters /\ WalksInOrder /\ WalkComes /\ RankedAfter
  BY DEF Counters, WalksInOrder, WalkComes, RankedAfter, RankedFromTheWalk
<1>4. Numbered
  BY <1>2 DEF Numbered, Questions
<1> QED BY <1>1, <1>2, <1>3, <1>4 DEF WorkerInv

LEMMA WorkWorks ==
    ASSUME WorkerInv, Work
    PROVE  WorkerInv' /\ UnderWay' = UnderWay
<1> DEFINE job == batch[1]
<1>1. /\ WorkerTypes /\ Counters /\ WalksInOrder /\ WalkComes /\ RankedAfter /\ Numbered
      /\ batch \in Seq(Jobs) /\ batch # <<>> /\ Head(batch) = job /\ job \in Jobs /\ alive
      /\ 1 \in DOMAIN batch
  BY TailIs DEF WorkerInv, WorkerTypes, Work
<1>2. /\ batch' \in Seq(Jobs)
      /\ \A n \in DOMAIN batch' : n + 1 \in DOMAIN batch /\ n + 1 > 1 /\ batch'[n] = batch[n + 1] /\ n \in Nat
      /\ \A n \in DOMAIN batch : n # 1 => n - 1 \in DOMAIN batch' /\ batch'[n - 1] = batch[n]
  BY <1>1, TailIs, InQueue DEF Work
<1>3. /\ corpus' = IF job.kind = "Index" THEN job.walk ELSE corpus
      /\ results' = Append(results, Found(job)) /\ results \in Seq(Reports)
      /\ UNCHANGED <<jobs, alive, generation, awaited, walks, wired, findHits, grepHits>>
  BY <1>1 DEF Work, WorkerTypes
<1>4. Found(job) \in Reports
  BY <1>1, OfKind DEF Found, Reports, FoundList, WorkerTypes, List, NoList, Nobody, Query
<1>5. /\ results' \in Seq(Reports) /\ Len(results) + 1 \in DOMAIN results'
      /\ results'[Len(results) + 1] = Found(job)
      /\ \A n \in DOMAIN results : n \in DOMAIN results' /\ results'[n] = results[n]
      /\ \A n \in DOMAIN results' : n # Len(results) + 1 => n \in DOMAIN results
  BY <1>3, <1>4, QueuedIs
<1>6. corpus' \in Nat /\ corpus <= corpus' /\ corpus' <= walks /\ walks \in Nat /\ corpus \in Nat
  BY <1>1, <1>3, OfKind DEF WorkerTypes, WalksInOrder
<1>7. WorkerTypes' /\ Counters'
  BY <1>1, <1>2, <1>3, <1>5, <1>6 DEF WorkerTypes, Counters
<1>8. \A n \in DOMAIN batch' : batch'[n].kind # "Index"
  BY <1>1, <1>2 DEF WalksInOrder
<1>9. WalksInOrder'
  BY <1>1, <1>2, <1>3, <1>6, <1>8, InQueue, OfKind DEF WalksInOrder, WorkerTypes
<1>10. WalkComes'
  <2>1. CASE corpus = walks
    BY <2>1, <1>3, <1>6 DEF WalkComes
  <2>2. CASE \E n \in DOMAIN batch : batch[n].kind = "Index" /\ batch[n].walk = walks
    BY <2>2, <1>1, <1>3 DEF WalkComes, WalksInOrder
  <2>3. CASE \E n \in DOMAIN jobs : jobs[n].kind = "Index" /\ jobs[n].walk = walks
    BY <2>3, <1>3 DEF WalkComes
  <2> QED BY <1>1, <2>1, <2>2, <2>3 DEF WalkComes
<1>11. RankedAfter'
  <2>1. ASSUME NEW n \in DOMAIN batch', batch'[n].kind = "Filter"  PROVE batch'[n].walk <= corpus'
    BY <2>1, <1>1, <1>2, <1>3, <1>6, InQueue, OfKind DEF RankedAfter
  <2>2. ASSUME NEW n \in DOMAIN results', results'[n].kind = "Files"
        PROVE  results'[n].list.walk >= results'[n].asked
    <3>1. CASE n = Len(results) + 1
      <4>1. job.kind = "Filter" /\ Found(job).list.walk = corpus /\ Found(job).asked = job.walk
        BY <2>2, <3>1, <1>1, <1>5, OfKind DEF Found, List
      <4>2. job.walk <= corpus /\ job.walk \in Nat
        BY <4>1, <1>1, OfKind DEF RankedAfter
      <4> QED BY <3>1, <4>1, <4>2, <1>5, <1>6
    <3>2. CASE n # Len(results) + 1
      BY <3>2, <2>2, <1>1, <1>5 DEF RankedAfter, RankedFromTheWalk
    <3> QED BY <3>1, <3>2
  <2> QED BY <2>1, <2>2, <1>1, <1>3 DEF RankedAfter, RankedFromTheWalk
<1>12. UnderWay' = UnderWay
  <2>1. job.kind # "Index" => Asked(job) = Told(Found(job)) /\ Found(job).kind # "Indexed"
    BY <1>1, OfKind DEF Asked, Told, Found, List
  <2>2. job.kind = "Index" => Found(job).kind = "Indexed"
    BY DEF Found
  <2>3. ASSUME NEW a \in UnderWay  PROVE a \in UnderWay'
    <3>1. CASE a \in AskedIn(jobs)
      BY <3>1, <1>3 DEF UnderWay, AskedIn, Questions, Asked
    <3>2. CASE a \in AskedIn(batch)
      <4>1. PICK n \in DOMAIN batch : batch[n].kind # "Index" /\ a = Asked(batch[n])
        BY <3>2 DEF AskedIn, Questions
      <4>2. CASE n = 1
        BY <4>1, <4>2, <2>1, <1>5 DEF UnderWay, ToldIn, Told
      <4>3. CASE n # 1
        BY <4>1, <4>3, <1>2 DEF UnderWay, AskedIn, Questions, Asked
      <4> QED BY <4>2, <4>3
    <3>3. CASE a \in ToldIn(results)
      BY <3>3, <1>5 DEF UnderWay, ToldIn, Told
    <3> QED BY <3>1, <3>2, <3>3 DEF UnderWay
  <2>4. ASSUME NEW a \in UnderWay'  PROVE a \in UnderWay
    <3>1. CASE a \in AskedIn(jobs)'
      BY <3>1, <1>3 DEF UnderWay, AskedIn, Questions, Asked
    <3>2. CASE a \in AskedIn(batch)'
      BY <3>2, <1>2 DEF UnderWay, AskedIn, Questions, Asked
    <3>3. CASE a \in ToldIn(results)'
      <4>1. PICK n \in DOMAIN results' : results'[n].kind # "Indexed" /\ a = Told(results'[n])
        BY <3>3 DEF ToldIn, Told
      <4>2. CASE n = Len(results) + 1
        BY <4>1, <4>2, <2>1, <2>2, <1>1, <1>5 DEF UnderWay, AskedIn, Questions
      <4>3. CASE n # Len(results) + 1
        BY <4>1, <4>3, <1>5 DEF UnderWay, ToldIn
      <4> QED BY <4>2, <4>3
    <3> QED BY <3>1, <3>2, <3>3 DEF UnderWay
  <2> QED BY <2>3, <2>4
<1>13. Numbered'
  BY <1>1, <1>3, <1>12 DEF Numbered, Questions
<1> QED BY <1>7, <1>9, <1>10, <1>11, <1>12, <1>13 DEF WorkerInv

\* A question of the newest number is the last of its kind, so draining keeps it.
LEMMA TakeTakes ==
    ASSUME WorkerInv, Take
    PROVE  /\ WorkerInv' /\ UnderWay' \subseteq UnderWay
           /\ \A a \in UnderWay : a.generation = generation => a \in UnderWay'
<1>1. /\ WorkerTypes /\ Counters /\ WalksInOrder /\ WalkComes /\ RankedAfter /\ Numbered
      /\ batch = <<>> /\ jobs \in Seq(Jobs) /\ alive
  BY DEF WorkerInv, WorkerTypes, Take
<1>2. /\ batch' \in Seq(Jobs) /\ jobs' = <<>>
      /\ \A i \in DOMAIN batch' : \E n \in DOMAIN jobs :
            LastOfKind(n) /\ batch'[i] = jobs[n] /\ (jobs[n].kind = "Index" => i = 1)
      /\ \A n \in DOMAIN jobs : LastOfKind(n) =>
            \E i \in DOMAIN batch' : batch'[i] = jobs[n] /\ (jobs[n].kind = "Index" => i = 1)
  BY <1>1, DrainIs DEF Take
<1>3. UNCHANGED <<corpus, alive, results, generation, awaited, walks, wired, findHits, grepHits>>
  BY DEF Take
<1>4. WorkerTypes' /\ Counters'
  BY <1>1, <1>2, <1>3 DEF WorkerTypes, Counters
<1>5. /\ DOMAIN jobs \subseteq Nat /\ walks \in Nat /\ corpus \in Nat /\ generation \in Nat
      /\ \A n \in DOMAIN jobs : jobs[n] \in Jobs
  BY <1>1, InQueue DEF WorkerTypes
<1>6. \A k \in DOMAIN jobs : \E n \in DOMAIN jobs : LastOfKind(n) /\ jobs[n].kind = jobs[k].kind /\ k <= n
  BY <1>1, KindHasLast
<1>7. WalksInOrder'
  BY <1>1, <1>2, <1>3 DEF WalksInOrder
<1>8. corpus = walks \/ (1 \in DOMAIN batch' /\ batch'[1].kind = "Index" /\ batch'[1].walk = walks)
  <2>1. SUFFICES ASSUME corpus # walks
                 PROVE  1 \in DOMAIN batch' /\ batch'[1].kind = "Index" /\ batch'[1].walk = walks
    OBVIOUS
  <2>2. PICK k \in DOMAIN jobs : jobs[k].kind = "Index" /\ jobs[k].walk = walks
    BY <1>1, <2>1 DEF WalkComes
  <2>3. PICK n \in DOMAIN jobs : LastOfKind(n) /\ jobs[n].kind = "Index" /\ k <= n
    BY <1>6, <2>2
  <2>4. jobs[n].walk = walks
    <3>1. jobs[n].walk \in Nat /\ jobs[n].walk <= walks
      BY <1>1, <1>5, <2>3, OfKind DEF WalksInOrder
    <3>2. k < n => walks <= jobs[n].walk
      BY <1>1, <2>2, <2>3 DEF WalksInOrder
    <3>3. k = n => walks = jobs[n].walk
      BY <2>2
    <3> QED BY <1>5, <2>3, <3>1, <3>2, <3>3
  <2> QED BY <1>2, <2>3, <2>4
<1>9. WalkComes'
  BY <1>3, <1>8 DEF WalkComes
<1>10. RankedAfter'
  <2>1. ASSUME NEW i \in DOMAIN batch', batch'[i].kind = "Filter"
        PROVE  \/ batch'[i].walk <= corpus
               \/ batch'[1].kind = "Index" /\ batch'[i].walk <= batch'[1].walk
    <3>1. batch'[i].walk <= walks
      BY <1>1, <1>2, <2>1 DEF RankedAfter
    <3> QED BY <1>8, <3>1
  <2> QED BY <1>1, <1>2, <1>3, <2>1 DEF RankedAfter, RankedFromTheWalk
<1>11. UnderWay' \subseteq UnderWay
  BY <1>2, <1>3 DEF UnderWay, AskedIn, ToldIn, Questions, Asked, Told
<1>12. ASSUME NEW a \in UnderWay, a.generation = generation  PROVE a \in UnderWay'
  <2>1. CASE a \in AskedIn(jobs)
    <3>1. PICK k \in DOMAIN jobs : jobs[k].kind # "Index" /\ a = Asked(jobs[k])
      BY <2>1 DEF AskedIn, Questions
    <3>2. PICK n \in DOMAIN jobs : LastOfKind(n) /\ jobs[n].kind = jobs[k].kind /\ k <= n
      BY <1>6
    <3>3. jobs[k].generation = generation /\ jobs[n].generation <= generation
          /\ jobs[n].generation \in Nat
      <4>1. jobs[k].generation = generation
        BY <1>12, <3>1 DEF Asked
      <4>2. Asked(jobs[n]) \in UnderWay /\ Asked(jobs[n]).generation = jobs[n].generation
        BY <3>1, <3>2 DEF UnderWay, AskedIn, Questions, Asked
      <4>3. jobs[n].generation <= generation
        BY <1>1, <4>2 DEF Numbered
      <4>4. jobs[n].generation \in Nat
        BY <1>5, <3>1, <3>2, OfKind
      <4> QED BY <4>1, <4>3, <4>4
    <3>4. n = k
      <4>1. k < n => jobs[k].generation < jobs[n].generation
        BY <1>1, <3>1, <3>2 DEF Numbered, Questions
      <4> QED BY <1>5, <3>2, <3>3, <4>1
    <3> QED BY <1>2, <3>1, <3>2, <3>4 DEF UnderWay, AskedIn, Questions, Asked
  <2>2. CASE a \in AskedIn(batch)
    BY <2>2, <1>1 DEF AskedIn, Questions
  <2>3. CASE a \in ToldIn(results)
    BY <2>3, <1>3 DEF UnderWay, ToldIn, Told
  <2> QED BY <2>1, <2>2, <2>3 DEF UnderWay
<1>13. Numbered'
  BY <1>1, <1>2, <1>3, <1>11 DEF Numbered, Questions
<1> QED BY <1>4, <1>7, <1>9, <1>10, <1>11, <1>12, <1>13 DEF WorkerInv

LEMMA DieDies ==
    ASSUME WorkerInv, Die
    PROVE  WorkerInv' /\ UnderWay' \subseteq UnderWay
<1>1. /\ WorkerTypes /\ Counters /\ WalksInOrder /\ RankedAfter /\ Numbered
      /\ jobs' = <<>> /\ batch' = <<>> /\ alive' = FALSE
      /\ UNCHANGED <<corpus, results, generation, awaited, walks, wired, findHits, grepHits>>
  BY DEF WorkerInv, Die
<1>2. UnderWay' \subseteq UnderWay
  BY <1>1 DEF UnderWay, AskedIn, ToldIn, Questions, Told
<1>3. WorkerTypes' /\ Counters' /\ WalksInOrder' /\ WalkComes'
  <2>1. jobs' \in Seq(Jobs) /\ batch' \in Seq(Jobs) /\ DOMAIN jobs' = {} /\ DOMAIN batch' = {}
    BY <1>1
  <2>2. WorkerTypes'
    BY <1>1, <2>1 DEF WorkerTypes
  <2>3. Counters' /\ WalkComes'
    BY <1>1 DEF Counters, WalkComes
  <2>4. WalksInOrder'
    BY <1>1, <2>1 DEF WalksInOrder
  <2> QED BY <2>2, <2>3, <2>4
<1>4. RankedAfter'
  BY <1>1 DEF RankedAfter, RankedFromTheWalk
<1>5. Numbered'
  BY <1>1, <1>2 DEF Numbered, Questions
<1> QED BY <1>2, <1>3, <1>4, <1>5 DEF WorkerInv

LEMMA AnswerIsRead ==
    ASSUME WorkerInv, HandleFound
    PROVE  /\ WorkerInv' /\ UnderWay' \subseteq UnderWay
           /\ Head(results) \in Reports
           /\ Head(results).kind # "Indexed" => Told(Head(results)) \in UnderWay
           /\ \A a \in UnderWay : a \in UnderWay'
                 \/ (Head(results).kind # "Indexed" /\ a = Told(Head(results)))
<1>1. /\ WorkerTypes /\ Counters /\ WalksInOrder /\ WalkComes /\ RankedAfter /\ Numbered
      /\ results \in Seq(Reports) /\ results # <<>> /\ results' = Tail(results)
      /\ UNCHANGED <<jobs, batch, corpus, alive, generation, awaited, walks, wired>>
  BY DEF WorkerInv, WorkerTypes, HandleFound
<1>2. /\ results' \in Seq(Reports) /\ 1 \in DOMAIN results /\ results[1] \in Reports
      /\ Head(results) = results[1]
      /\ \A n \in DOMAIN results' : n + 1 \in DOMAIN results /\ results'[n] = results[n + 1]
      /\ \A n \in DOMAIN results : n # 1 => n - 1 \in DOMAIN results' /\ results'[n - 1] = results[n]
  BY <1>1, TailIs
<1>3. findHits' \in FoundList /\ grepHits' \in FoundList
  BY <1>1, <1>2, OfKind DEF HandleFound, WorkerTypes
<1>4. WorkerTypes' /\ Counters' /\ WalksInOrder' /\ WalkComes'
  BY <1>1, <1>2, <1>3 DEF WorkerTypes, Counters, WalksInOrder, WalkComes
<1>5. RankedAfter'
  BY <1>1, <1>2 DEF RankedAfter, RankedFromTheWalk
<1>6. UnderWay' \subseteq UnderWay
  BY <1>1, <1>2 DEF UnderWay, AskedIn, ToldIn, Questions, Asked, Told
<1>7. Head(results).kind # "Indexed" => Told(Head(results)) \in UnderWay
  BY <1>2 DEF UnderWay, ToldIn
<1>8. ASSUME NEW a \in UnderWay, ~(Head(results).kind # "Indexed" /\ a = Told(Head(results)))
      PROVE  a \in UnderWay'
  <2>1. CASE a \in AskedIn(jobs) \cup AskedIn(batch)
    BY <2>1, <1>1 DEF UnderWay, AskedIn, Questions, Asked
  <2>2. CASE a \in ToldIn(results)
    <3>1. PICK n \in DOMAIN results : results[n].kind # "Indexed" /\ a = Told(results[n])
      BY <2>2 DEF ToldIn
    <3>2. n # 1
      BY <1>2, <1>8, <3>1
    <3>3. n - 1 \in DOMAIN results' /\ results'[n - 1].kind # "Indexed" /\ a = Told(results'[n - 1])
      BY <1>2, <3>1, <3>2
    <3> QED BY <3>3 DEF UnderWay, ToldIn, Told
  <2> QED BY <2>1, <2>2 DEF UnderWay
<1>9. Numbered'
  BY <1>1, <1>6 DEF Numbered, Questions
<1> QED BY <1>2, <1>4, <1>5, <1>6, <1>7, <1>8, <1>9 DEF WorkerInv

LEMMA PairIs ==
    ASSUME NEW S, NEW a \in S, NEW b \in S
    PROVE  <<a>> \o <<b>> = <<a, b>>
<1>1. <<a>> \in Seq(S)
  OBVIOUS
<1>2. <<a, b>> = Append(<<a>>, b)
  OBVIOUS
<1> QED BY <1>1, <1>2, AppendIsConcat

\* What counting comes to for the two things that are asked, and for nothing.
LEMMA CountedNone ==
    ASSUME Counted(<<>>), jobs \in Seq(Jobs), generation \in Nat, walks \in Nat, wired \in BOOLEAN
    PROVE  UNCHANGED <<jobs, generation, awaited, walks, wired>>
<1>1. Questions(<<>>) = {} /\ DOMAIN <<>> = {} /\ Cardinality({}) = 0
  BY FS_EmptySet DEF Questions
<1>2. generation' = generation + 0 /\ walks' = walks + 0 /\ awaited' = awaited
  BY <1>1 DEF Counted
<1>3. jobs \o <<>> = jobs
  BY ConcatEmptySeq
<1>4. jobs' = jobs /\ wired' = wired
  BY <1>3 DEF Counted, Ask
<1> QED BY <1>2, <1>4

LEMMA CountedOne ==
    ASSUME NEW q \in Jobs, q.kind # "Index", Counted(<<q>>), jobs \in Seq(Jobs),
           generation \in Nat, walks \in Nat
    PROVE  /\ generation' = generation + 1 /\ walks' = walks /\ awaited' = q.generation
           /\ jobs' = IF wired /\ alive THEN Append(jobs, q) ELSE jobs
           /\ wired' = (wired /\ alive)
<1>1. DOMAIN <<q>> = {1} /\ Questions(<<q>>) = {1}
  BY DEF Questions
<1>2. Cardinality({1}) = 1 /\ Cardinality({}) = 0 /\ {1} \ {1} = {}
  BY FS_Singleton, FS_EmptySet
<1>3. Max({1}) = 1
  <2>1. {1} \subseteq 1..1 /\ {1} # {}
    OBVIOUS
  <2>2. Max({1}) \in {1}
    BY <2>1, LastPlace
  <2> QED BY <2>2
<1>4. generation' = generation + 1 /\ walks' = walks + 0
  BY <1>1, <1>2 DEF Counted
<1>5. awaited' = q.generation
  <2>1. Questions(<<q>>) # {} /\ Max(Questions(<<q>>)) = 1
    <3>1. {1} # {}
      OBVIOUS
    <3> QED BY <1>1, <1>3, <3>1, Zenon
  <2>2. awaited' = <<q>>[Max(Questions(<<q>>))].generation
    BY <2>1 DEF Counted
  <2> QED BY <2>1, <2>2
<1>6. Append(jobs, q) = jobs \o <<q>>
  BY AppendIsConcat
<1>7. <<q>> # <<>>
  OBVIOUS
<1> QED BY <1>4, <1>5, <1>6, <1>7 DEF Counted, Ask

LEMMA CountedTwo ==
    ASSUME NEW q \in Jobs, q.kind # "Index", Counted(<<Index(NextWalk), q>>), jobs \in Seq(Jobs),
           generation \in Nat, walks \in Nat
    PROVE  /\ generation' = generation + 1 /\ walks' = walks + 1 /\ awaited' = q.generation
           /\ jobs' = IF wired /\ alive THEN Append(Append(jobs, Index(walks + 1)), q) ELSE jobs
           /\ wired' = (wired /\ alive)
<1> DEFINE i == Index(walks + 1)
<1>1. i \in Jobs /\ i.kind = "Index"
  BY OfKind
<1> HIDE DEF i
<1>2. Counted(<<i, q>>)
  BY DEF i, NextWalk
<1>3. DOMAIN <<i, q>> = {1, 2} /\ Questions(<<i, q>>) = {2}
  <2>1. DOMAIN <<i, q>> = {1, 2} /\ <<i, q>>[1] = i /\ <<i, q>>[2] = q
    OBVIOUS
  <2>2. Questions(<<i, q>>) = {n \in {1, 2} : <<i, q>>[n].kind # "Index"}
    BY <2>1 DEF Questions
  <2> QED BY <2>1, <2>2, <1>1
<1>4. {1, 2} \ {2} = {1} /\ Cardinality({1}) = 1 /\ Cardinality({2}) = 1
  <2>1. {1, 2} \ {2} = {1}
    OBVIOUS
  <2> QED BY <2>1, FS_Singleton
<1>5. Max({2}) = 2 /\ <<i, q>>[2] = q
  <2>1. {2} \subseteq 1..2 /\ {2} # {}
    OBVIOUS
  <2>2. Max({2}) \in {2}
    BY <2>1, LastPlace
  <2> QED BY <2>2
<1>6. generation' = generation + 1 /\ walks' = walks + 1
  BY <1>2, <1>3, <1>4 DEF Counted
<1>7. awaited' = q.generation
  BY <1>2, <1>3, <1>5 DEF Counted
<1>8. jobs \o <<i, q>> = Append(Append(jobs, i), q)
  <2>1. <<i, q>> = Append(<<i>>, q)
    OBVIOUS
  <2>2. Append(jobs, i) = jobs \o <<i>> /\ Append(jobs, i) \in Seq(Jobs)
    BY <1>1, AppendIsConcat, AppendProperties
  <2>3. Append(Append(jobs, i), q) = (jobs \o <<i>>) \o <<q>>
    BY <2>2, AppendIsConcat
  <2>4. <<i, q>> = <<i>> \o <<q>> /\ <<i>> \in Seq(Jobs) /\ <<q>> \in Seq(Jobs)
    BY <1>1
  <2>5. (jobs \o <<i>>) \o <<q>> = jobs \o (<<i>> \o <<q>>)
    BY <2>4, ConcatAssociative
  <2> QED BY <2>3, <2>4, <2>5
<1>9. <<i, q>> # <<>>
  OBVIOUS
<1>10. jobs' = IF wired /\ alive THEN Append(Append(jobs, i), q) ELSE jobs
  BY <1>2, <1>8, <1>9 DEF Counted, Ask
<1>11. wired' = (wired /\ alive)
  BY <1>2, <1>9 DEF Counted, Ask
<1> QED BY <1>6, <1>7, <1>10, <1>11 DEF i

\* A question asked, with or without a walk before it, is the newest, and is
\* under way if there is a thread to answer it.
LEMMA AskAsks ==
    ASSUME WorkerInv, NEW kind \in {"Filter", "Grep"}, NEW query \in Query, NEW walk \in Nat,
           walk <= walks', UNCHANGED <<batch, corpus, alive, results>>,
           findHits' \in FoundList, grepHits' \in FoundList,
           Counted(<<Question(kind, generation + 1, query, walk)>>)
           \/ Counted(<<Index(NextWalk), Question(kind, generation + 1, query, walk)>>)
    PROVE  /\ WorkerInv' /\ generation' = generation + 1
           /\ UnderWay' \subseteq UnderWay \cup {Asked(Question(kind, generation + 1, query, walk))}
           /\ alive => Asked(Question(kind, generation + 1, query, walk)) \in UnderWay'
<1> DEFINE q == Question(kind, generation + 1, query, walk)
<1>1. /\ WorkerTypes /\ Counters /\ WalksInOrder /\ WalkComes /\ RankedAfter /\ Numbered
      /\ jobs \in Seq(Jobs) /\ generation \in Nat /\ walks \in Nat /\ corpus \in Nat
      /\ alive \in BOOLEAN /\ wired \in BOOLEAN
  BY DEF WorkerInv, WorkerTypes
<1>2. /\ q \in Jobs /\ q.kind = kind /\ q.kind # "Index" /\ q.generation = generation + 1
      /\ q.query = query /\ q.walk = walk
  BY <1>1, OfKind
<1> HIDE DEF q
<1>3. /\ generation' = generation + 1 /\ awaited' = generation + 1
      /\ walks' \in Nat /\ walks <= walks' /\ wired' = (wired /\ alive)
      /\ walks' \in {walks, walks + 1}
      /\ jobs' = IF ~(wired /\ alive) THEN jobs
                 ELSE IF walks' = walks THEN Append(jobs, q)
                 ELSE Append(Append(jobs, Index(walks')), q)
  <2>1. CASE Counted(<<q>>)
    BY <1>1, <1>2, <2>1, CountedOne
  <2>2. CASE Counted(<<Index(NextWalk), q>>)
    BY <1>1, <1>2, <2>2, CountedTwo
  <2> QED BY <2>1, <2>2 DEF q
<1>4. CASE ~alive
  <2>1. /\ jobs = <<>> /\ jobs' = <<>> /\ batch = <<>> /\ wired' = FALSE
    BY <1>1, <1>3, <1>4 DEF Counters
  <2>2. UnderWay' = UnderWay
    BY <2>1 DEF UnderWay, AskedIn, ToldIn, Questions, Asked, Told
  <2>3. WorkerTypes'
    BY <1>1, <1>3, <2>1 DEF WorkerTypes
  <2>4. Counters' /\ WalkComes'
    BY <1>1, <1>3, <1>4, <2>1 DEF Counters, WalkComes
  <2>5. WalksInOrder' /\ RankedAfter'
    <3>1. DOMAIN jobs' = {} /\ DOMAIN batch' = {}
      BY <2>1
    <3>2. corpus' <= walks'
      BY <1>1, <1>3 DEF WalksInOrder
    <3> QED BY <1>1, <3>1, <3>2 DEF WalksInOrder, RankedAfter, RankedFromTheWalk
  <2>6. Numbered'
    <3>1. \A a \in UnderWay : a.generation <= generation + 1
      <4>1. \A a \in UnderWay : a.generation <= generation /\ a.generation \in Nat
        <5>1. \A a \in UnderWay : a.generation \in Nat
          BY <1>1, UnderWayIs
        <5> QED BY <1>1, <5>1 DEF Numbered
      <4> QED BY <1>1, <4>1
    <3> QED BY <1>3, <2>1, <2>2, <3>1 DEF Numbered, Questions
  <2> QED BY <1>3, <1>4, <2>2, <2>3, <2>4, <2>5, <2>6 DEF WorkerInv, q
<1>5. CASE alive
  <2> DEFINE w == Len(jobs) + 1
  <2>1. /\ jobs' \in Seq(Jobs) /\ DOMAIN jobs' \subseteq Nat
        /\ \A n \in DOMAIN jobs : n \in DOMAIN jobs' /\ jobs'[n] = jobs[n] /\ n \in Nat /\ n < w
        /\ \E n \in DOMAIN jobs' : jobs'[n] = q
        /\ walks' # walks => \E n \in DOMAIN jobs' : jobs'[n] = Index(walks')
        /\ \A n \in DOMAIN jobs' :
              \/ n \in DOMAIN jobs
              \/ n >= w /\ jobs'[n] = q
              \/ n = w /\ jobs'[n] = Index(walks') /\ walks' = walks + 1
        /\ \A m, n \in DOMAIN jobs' : m < n /\ m \notin DOMAIN jobs =>
              n \notin DOMAIN jobs /\ jobs'[m] = Index(walks') /\ jobs'[n] = q
        /\ w \in Nat
    <3>1. w \in Nat /\ DOMAIN jobs = 1..w - 1
      BY <1>1, InQueue
    <3>2. CASE walks' = walks
      <4>1. jobs' = Append(jobs, q)
        BY <1>1, <1>3, <1>5, <3>2 DEF Counters
      <4>2. DOMAIN jobs' = 1..w /\ jobs'[w] = q /\ jobs' \in Seq(Jobs)
            /\ \A n \in 1..w - 1 : jobs'[n] = jobs[n]
        BY <1>1, <1>2, <3>1, <4>1, AppendProperties, LenProperties
      <4> QED BY <3>1, <3>2, <4>2
    <3>3. CASE walks' # walks
      <4>1. jobs' = Append(Append(jobs, Index(walks')), q)
        BY <1>1, <1>3, <1>5, <3>3 DEF Counters
      <4>2. Index(walks') \in Jobs /\ walks' = walks + 1
        BY <1>3, <3>3, OfKind
      <4> DEFINE walked == Append(jobs, Index(walks'))
      <4>3. walked \in Seq(Jobs) /\ Len(walked) = w /\ walked[w] = Index(walks')
            /\ \A n \in 1..w - 1 : walked[n] = jobs[n]
        BY <1>1, <3>1, <4>2, AppendProperties
      <4> HIDE DEF walked
      <4>4. jobs' \in Seq(Jobs) /\ Len(jobs') = w + 1 /\ jobs'[w + 1] = q
            /\ \A n \in 1..w : jobs'[n] = walked[n]
        BY <1>2, <4>1, <4>3, AppendProperties DEF walked
      <4>5. DOMAIN jobs' = 1..w + 1 /\ jobs'[w] = Index(walks') /\ \A n \in 1..w - 1 : jobs'[n] = jobs[n]
        BY <3>1, <4>3, <4>4, LenProperties
      <4> QED BY <3>1, <3>3, <4>2, <4>4, <4>5
    <3> QED BY <3>2, <3>3
  <2>2. /\ Index(walks').kind = "Index" /\ Index(walks').walk = walks'
        /\ \A n \in DOMAIN jobs : jobs[n] \in Jobs
        /\ \A n \in DOMAIN batch : batch[n] \in Jobs
    BY <1>1, <1>3, OfKind, InQueue DEF WorkerTypes
  <2> HIDE DEF w
  <2>3. WorkerTypes' /\ Counters' /\ wired'
    <3>1. wired' = TRUE /\ alive' = TRUE
      BY <1>1, <1>3, <1>5 DEF Counters
    <3>2. Counters'
      BY <1>3, <3>1 DEF Counters
    <3>3. WorkerTypes'
      BY <1>1, <1>3, <2>1, <3>1 DEF WorkerTypes
    <3> QED BY <3>1, <3>2, <3>3
  <2>4. WalksInOrder'
    <3>1. corpus <= walks
      BY <1>1 DEF WalksInOrder
    <3>2. ASSUME NEW n \in DOMAIN jobs', jobs'[n].kind = "Index"
          PROVE  corpus <= jobs'[n].walk /\ jobs'[n].walk <= walks'
      <4>1. CASE n \in DOMAIN jobs
        <5>1. jobs'[n] = jobs[n] /\ jobs[n].walk \in Nat
          BY <2>1, <2>2, <4>1, OfKind
        <5>2. corpus <= jobs[n].walk /\ jobs[n].walk <= walks
          BY <1>1, <3>2, <4>1, <5>1 DEF WalksInOrder
        <5> QED BY <1>1, <1>3, <5>1, <5>2
      <4>2. CASE n \notin DOMAIN jobs
        BY <1>1, <1>2, <1>3, <2>1, <2>2, <3>1, <3>2, <4>2
      <4> QED BY <4>1, <4>2
    <3>3. ASSUME NEW m \in DOMAIN jobs', NEW n \in DOMAIN jobs', m < n,
                 jobs'[m].kind = "Index", jobs'[n].kind = "Index"
          PROVE  jobs'[m].walk <= jobs'[n].walk
      <4>1. m \in DOMAIN jobs
        BY <1>2, <2>1, <3>3
      <4>2. CASE n \in DOMAIN jobs
        BY <1>1, <2>1, <3>3, <4>1, <4>2 DEF WalksInOrder
      <4>3. CASE n \notin DOMAIN jobs
        <5>1. jobs'[n].walk = walks'
          BY <1>2, <2>1, <2>2, <3>3, <4>3
        <5> QED BY <5>1, <3>2, <3>3
      <4> QED BY <4>2, <4>3
    <3>4. ASSUME NEW n \in DOMAIN batch', batch'[n].kind = "Index"
          PROVE  /\ n = 1 /\ corpus <= batch'[n].walk /\ batch'[n].walk <= walks'
                 /\ \A m \in DOMAIN jobs' : jobs'[m].kind = "Index" => batch'[n].walk <= jobs'[m].walk
      <4>1. n \in DOMAIN batch /\ batch'[n] = batch[n] /\ batch[n].walk \in Nat
        BY <2>2, <3>4, OfKind
      <4>2. n = 1 /\ corpus <= batch[n].walk /\ batch[n].walk <= walks
        BY <1>1, <3>4, <4>1 DEF WalksInOrder
      <4>3. ASSUME NEW m \in DOMAIN jobs', jobs'[m].kind = "Index"
            PROVE  batch[n].walk <= jobs'[m].walk
        <5>1. CASE m \in DOMAIN jobs
          BY <1>1, <2>1, <3>4, <4>1, <4>3, <5>1 DEF WalksInOrder
        <5>2. CASE m \notin DOMAIN jobs
          BY <1>1, <1>2, <1>3, <2>1, <2>2, <4>1, <4>2, <4>3, <5>2
        <5> QED BY <5>1, <5>2
      <4> QED BY <1>1, <1>3, <4>1, <4>2, <4>3
    <3>5. corpus' <= walks'
      BY <1>1, <1>3, <3>1
    <3> QED BY <3>2, <3>3, <3>4, <3>5 DEF WalksInOrder
  <2>5. WalkComes'
    <3>1. CASE walks' # walks
      BY <2>1, <2>2, <3>1 DEF WalkComes
    <3>2. CASE walks' = walks
      BY <1>1, <1>5, <2>1, <3>2 DEF WalkComes
    <3> QED BY <3>1, <3>2
  <2>6. RankedAfter'
    <3>1. ASSUME NEW n \in DOMAIN jobs', jobs'[n].kind = "Filter"  PROVE jobs'[n].walk <= walks'
      <4>1. CASE n \in DOMAIN jobs
        <5>1. jobs'[n] = jobs[n] /\ jobs[n].walk \in Nat
          BY <2>1, <2>2, <4>1, OfKind
        <5>2. jobs[n].walk <= walks
          BY <1>1, <3>1, <4>1, <5>1 DEF RankedAfter
        <5>3. walks \in Nat /\ walks' \in Nat /\ walks <= walks'
          BY <1>1, <1>3
        <5> QED BY <5>1, <5>2, <5>3
      <4>2. CASE n \notin DOMAIN jobs
        BY <1>2, <2>1, <2>2, <3>1, <4>2
      <4> QED BY <4>1, <4>2
    <3> QED BY <1>1, <3>1 DEF RankedAfter, RankedFromTheWalk
  <2>7. UnderWay' \subseteq UnderWay \cup {Asked(q)}
    <3>1. ASSUME NEW n \in DOMAIN jobs', jobs'[n].kind # "Index"
          PROVE  (n \in Questions(jobs) /\ jobs'[n] = jobs[n]) \/ jobs'[n] = q
      BY <2>1, <2>2, <3>1 DEF Questions
    <3>2. AskedIn(jobs)' \subseteq AskedIn(jobs) \cup {Asked(q)}
      BY <3>1 DEF AskedIn, Questions, Asked
    <3>3. AskedIn(batch)' = AskedIn(batch) /\ ToldIn(results)' = ToldIn(results)
      BY DEF AskedIn, ToldIn, Questions, Asked, Told
    <3> QED BY <3>2, <3>3 DEF UnderWay
  <2>8. Asked(q) \in UnderWay'
    BY <1>2, <2>1 DEF UnderWay, AskedIn, Questions, Asked
  <2>9. Numbered'
    <3>1. \A a \in UnderWay : a.generation \in Nat
      BY <1>1, UnderWayIs
    <3>2. \A a \in UnderWay' : a.generation <= generation'
      BY <1>1, <1>2, <1>3, <2>7, <3>1 DEF Numbered, Asked
    <3>3. ASSUME NEW m \in DOMAIN jobs', NEW n \in DOMAIN jobs', m < n,
                 jobs'[m].kind # "Index", jobs'[n].kind # "Index"
          PROVE  jobs'[m].generation < jobs'[n].generation
      <4>1. m \in DOMAIN jobs
        BY <2>1, <2>2, <3>3
      <4>2. CASE n \in DOMAIN jobs
        BY <1>1, <2>1, <3>3, <4>1, <4>2 DEF Numbered, Questions
      <4>3. CASE n \notin DOMAIN jobs
        <5>1. Asked(jobs[m]) \in UnderWay /\ Asked(jobs[m]).generation = jobs[m].generation
          BY <2>1, <3>3, <4>1 DEF UnderWay, AskedIn, Questions, Asked
        <5>2. jobs[m].generation <= generation /\ jobs[m].generation \in Nat
          BY <1>1, <3>1, <5>1 DEF Numbered
        <5> QED BY <1>1, <1>2, <2>1, <2>2, <3>3, <4>1, <4>3, <5>2
      <4> QED BY <4>2, <4>3
    <3> QED BY <3>2, <3>3 DEF Numbered, Questions
  <2> QED BY <1>3, <2>3, <2>4, <2>5, <2>6, <2>7, <2>8, <2>9 DEF WorkerInv, q
<1> QED BY <1>1, <1>4, <1>5

-----------------------------------------------------------------------------
(***************************************************************************)
(* The overlay: its list, its choice, and the answers it waits for.        *)
(***************************************************************************)
Pickers == [mode : {"Closed", "Files", "Search", "Commands"}, query : Query, hits : FoundList,
            lines : FoundList, commands : Query, selected : Nat, offset : Nat]

Starts(query) == query # Nobody /\ query[1] = Prefix
Placed(p) == p.selected \in 0..Max({0, Rows(p) - 1}) /\ p.offset \in 0..Max({0, Rows(p) - 1})
Moded(p) == /\ p.mode \in {"Files", "Commands"} => (p.mode = "Commands") = Starts(p.query)
            /\ p.mode = "Commands" => p.commands = Tail(p.query)

\* An answer under way that will be taken is to the query on screen.
OfScreen ==
    \A a \in UnderWay : a.generation = generation =>
        /\ picker.mode = "Files" => a.answers = "Files" /\ a.query = picker.query
        /\ picker.mode = "Search" /\ picker.query # Nobody =>
              a.answers = "Lines" /\ a.query = picker.query

\* If the list is not yet that of the query, such an answer is under way.
StillComing ==
    alive =>
        /\ picker.mode = "Files" =>
              picker.hits.query = picker.query \/ \E a \in UnderWay : a.generation = generation
        /\ picker.mode = "Search" /\ picker.query # Nobody =>
              picker.lines.query = picker.query \/ \E a \in UnderWay : a.generation = generation

ScreenInv == picker \in Pickers /\ Placed(picker) /\ Moded(picker) /\ OfScreen /\ StillComing

LEMMA RowsAre ==
    ASSUME NEW p \in Pickers
    PROVE  /\ Rows(p) \in Nat
           /\ Max({0, Rows(p) - 1}) = IF Rows(p) = 0 THEN 0 ELSE Rows(p) - 1
<1>1. MaxRows \in Nat
  BY FinderAssumption
<1>2. \A n \in Int : Max({0, n}) = IF 0 >= n THEN 0 ELSE n
  BY MostOfTwo
<1>3. \A query \in Query : Len(query) \in Nat
  BY LenProperties DEF Query
<1>4. \A l \in FoundList : PathRows(l) \in Nat /\ LineRows(l) \in Nat
  <2> TAKE l \in FoundList
  <2>1. l.query \in Query
    BY OfKind
  <2>2. MaxRows - Len(l.query) \in Int /\ MaxRows + 1 - Len(l.query) \in Int
    BY <1>1, <1>3, <2>1
  <2>3. Max({0, MaxRows - Len(l.query)}) \in Nat /\ Max({0, MaxRows + 1 - Len(l.query)}) \in Nat
    BY <1>2, <2>2
  <2> QED BY <2>3 DEF PathRows, LineRows
<1>5. p.hits \in FoundList /\ p.lines \in FoundList
  BY DEF Pickers
<1>6. Rows(p) \in Nat
  BY <1>1, <1>4, <1>5 DEF Rows
<1>7. Rows(p) - 1 \in Int
  BY <1>6
<1> QED BY <1>2, <1>6, <1>7

\* Clamping keeps the list and its query and puts the choice on one of its rows.
LEMMA ClampedIs ==
    ASSUME NEW p \in Pickers
    PROVE  /\ Clamped(p) \in Pickers /\ Placed(Clamped(p))
           /\ Clamped(p).mode = p.mode /\ Clamped(p).query = p.query /\ Clamped(p).hits = p.hits
           /\ Clamped(p).lines = p.lines /\ Clamped(p).commands = p.commands
<1> DEFINE selected == Max({0, Min({p.selected, Rows(p) - 1})})
           offset == Min({IF Rows(p) = 0 THEN 0 ELSE p.offset, selected})
<1>1. Rows(p) \in Nat /\ p.selected \in Nat /\ p.offset \in Nat /\ Rows(p) - 1 \in Int
  <2>1. Rows(p) \in Nat
    BY RowsAre
  <2>2. p.selected \in Nat /\ p.offset \in Nat
    BY DEF Pickers
  <2> QED BY <2>1, <2>2
<1>2. Min({p.selected, Rows(p) - 1}) = IF p.selected <= Rows(p) - 1 THEN p.selected ELSE Rows(p) - 1
  BY <1>1, LeastOfTwo
<1>3. selected \in Nat /\ selected <= (IF Rows(p) = 0 THEN 0 ELSE Rows(p) - 1)
  <2> DEFINE m == Min({p.selected, Rows(p) - 1})
  <2>1. m \in Int
    BY <1>1, <1>2
  <2> HIDE DEF m
  <2>2. Max({0, m}) = IF 0 >= m THEN 0 ELSE m
    BY <2>1, MostOfTwo
  <2> QED BY <1>1, <1>2, <2>1, <2>2 DEF m
<1> HIDE DEF selected
<1>4. offset \in Nat /\ offset <= selected
  <2> DEFINE o == IF Rows(p) = 0 THEN 0 ELSE p.offset
  <2>1. o \in Nat
    BY <1>1
  <2> HIDE DEF o
  <2>2. Min({o, selected}) = IF o <= selected THEN o ELSE selected
    BY <1>3, <2>1, LeastOfTwo
  <2> QED BY <1>3, <2>1, <2>2 DEF o
<1> HIDE DEF offset
<1>5. Clamped(p) = [p EXCEPT !.selected = selected, !.offset = offset]
  BY DEF Clamped, selected, offset, Pickers
<1> DEFINE c == [p EXCEPT !.selected = selected, !.offset = offset]
<1>6. /\ c \in Pickers /\ c.mode = p.mode /\ c.query = p.query /\ c.hits = p.hits
      /\ c.lines = p.lines /\ c.commands = p.commands
      /\ c.selected = selected /\ c.offset = offset
  BY <1>3, <1>4 DEF Pickers
<1> HIDE DEF c
<1>7. Rows(c) = Rows(p)
  BY <1>6 DEF Rows
<1>8. Max({0, Rows(c) - 1}) = IF Rows(p) = 0 THEN 0 ELSE Rows(p) - 1
  BY <1>7, RowsAre
<1>9. Placed(c)
  BY <1>1, <1>3, <1>4, <1>6, <1>8 DEF Placed
<1>10. Clamped(p) = c
  BY <1>5 DEF c
<1> QED BY <1>6, <1>9, <1>10

LEMMA PickerIs ==
    /\ \A mode \in {"Closed", "Files", "Search", "Commands"} :
          /\ Picker(mode) \in Pickers /\ Picker(mode).mode = mode /\ Picker(mode).query = Nobody
          /\ Picker(mode).selected = 0 /\ Picker(mode).offset = 0
    /\ Nobody \in Query /\ <<Prefix>> \in Query
  BY OfKind DEF Picker, Pickers, Query, Nobody

\* At the top is on the list, however long it is.
LEMMA TopIsPlaced ==
    ASSUME NEW p \in Pickers, p.selected = 0, p.offset = 0
    PROVE  Placed(p)
<1>1. Rows(p) \in Nat /\ Max({0, Rows(p) - 1}) = IF Rows(p) = 0 THEN 0 ELSE Rows(p) - 1
  BY RowsAre
<1>2. 0 \in 0..Max({0, Rows(p) - 1})
  BY <1>1
<1> QED BY <1>2 DEF Placed

LEMMA TailOfQuery ==
    ASSUME NEW query \in Query, query # Nobody
    PROVE  Tail(query) \in Query
  BY HeadTailProperties DEF Query, Nobody

LEMMA RankedIs ==
    ASSUME NEW p \in Pickers
    PROVE  /\ Ranked(p) \in Pickers /\ Placed(Ranked(p))
           /\ Ranked(p).mode = p.mode /\ Ranked(p).query = p.query
           /\ Starts(p.query) => Ranked(p).commands = Tail(p.query)
<1> DEFINE commands == IF p.query # Nobody /\ p.query[1] = Prefix THEN Tail(p.query) ELSE p.query
           r == [p EXCEPT !.commands = commands]
<1>1. p.query \in Query
  BY DEF Pickers
<1>2. commands \in Query
  BY <1>1, TailOfQuery
<1>3. Starts(p.query) => commands = Tail(p.query)
  BY DEF Starts
<1> HIDE DEF commands
<1>4. r \in Pickers /\ r.mode = p.mode /\ r.query = p.query /\ r.commands = commands
  BY <1>2 DEF Pickers
<1>5. Ranked(p) = Clamped(r)
  BY DEF Ranked, commands
<1> HIDE DEF r
<1> QED BY <1>3, <1>4, <1>5, ClampedIs

\* A choice moved: all else is as it was.
LEMMA MovedIs ==
    ASSUME NEW p \in Pickers, NEW s \in Nat, NEW o \in Nat, NEW moved,
           moved = [p EXCEPT !.selected = s, !.offset = o]
    PROVE  /\ moved \in Pickers /\ moved.mode = p.mode /\ moved.query = p.query
           /\ moved.hits = p.hits /\ moved.lines = p.lines /\ moved.commands = p.commands
           /\ moved.selected = s /\ moved.offset = o
  BY DEF Pickers

LEMMA AtTopIs ==
    ASSUME NEW p \in Pickers
    PROVE  /\ AtTop(p) \in Pickers /\ AtTop(p).mode = p.mode /\ AtTop(p).query = p.query
           /\ AtTop(p).selected = 0 /\ AtTop(p).offset = 0
<1> DEFINE s == p.selected - p.selected
<1>1. p.selected \in Nat
  BY DEF Pickers
<1>2. s = 0
  BY <1>1
<1>3. AtTop(p) = [p EXCEPT !.selected = s, !.offset = s]
  BY <1>2, Zenon DEF AtTop
<1> HIDE DEF s
<1>4. s \in Nat
  BY <1>2
<1> DEFINE top == AtTop(p)
<1>5. top = [p EXCEPT !.selected = s, !.offset = s]
  BY <1>3
<1> HIDE DEF top
<1>6. /\ top \in Pickers /\ top.mode = p.mode /\ top.query = p.query
      /\ top.selected = s /\ top.offset = s
  BY <1>4, <1>5 DEF Pickers
<1> QED BY <1>2, <1>6 DEF top

\* The overlay after a query is typed: of the mode the query is in.
LEMMA TypedIs ==
    ASSUME NEW p \in Pickers, NEW query \in Query, Placed(p), Moded(p), p.mode # "Closed",
           NEW typed, typed = WithQuery(p, query),
           NEW moded, moded = WithMode(typed, ModeOf(typed))
    PROVE  /\ moded \in Pickers /\ Placed(moded) /\ moded.query = query /\ moded.mode # "Closed"
           /\ moded.mode \in {"Files", "Commands"} => (moded.mode = "Commands") = Starts(query)
<1>1. p.mode \in {"Files", "Search", "Commands"} /\ p.query \in Query
  BY DEF Pickers
<1>2. CASE query = p.query
  <2>1. typed = p
    BY <1>2 DEF WithQuery
  <2>2. ModeOf(typed) = p.mode
    BY <1>1, <2>1 DEF ModeOf, Moded, Starts
  <2>3. moded = p
    BY <2>1, <2>2 DEF WithMode
  <2> QED BY <1>1, <1>2, <2>3 DEF Moded
<1>3. CASE query # p.query
  <2> DEFINE q == [p EXCEPT !.query = query]
             m == [typed EXCEPT !.mode = ModeOf(typed)]
  <2>1. q \in Pickers /\ q.query = query /\ q.mode = p.mode
    BY DEF Pickers
  <2>2. typed = AtTop(q)
    BY <1>3 DEF WithQuery
  <2> HIDE DEF q
  <2>3. /\ typed \in Pickers /\ typed.query = query /\ typed.mode = p.mode
        /\ typed.selected = 0 /\ typed.offset = 0
    BY <2>1, <2>2, AtTopIs
  <2>4. /\ ModeOf(typed) \in {"Files", "Search", "Commands"}
        /\ ModeOf(typed) \in {"Files", "Commands"} => (ModeOf(typed) = "Commands") = Starts(query)
    <3>1. CASE typed.mode = "Search"
      BY <3>1 DEF ModeOf
    <3>2. CASE typed.mode # "Search"
      <4>1. ModeOf(typed) = IF Starts(query) THEN "Commands" ELSE "Files"
        BY <2>3, <3>2 DEF ModeOf, Starts
      <4>2. Starts(query) \in BOOLEAN
        BY DEF Starts
      <4> QED BY <4>1, <4>2
    <3> QED BY <3>1, <3>2
  <2>5. /\ moded \in Pickers /\ moded.query = query /\ moded.mode = ModeOf(typed)
        /\ moded.selected = 0 /\ moded.offset = 0
    <3>1. CASE ModeOf(typed) = typed.mode
      BY <2>3, <3>1 DEF WithMode
    <3>2. CASE ModeOf(typed) # typed.mode
      <4>1. moded = AtTop(m)
        BY <3>2 DEF WithMode
      <4>2. m \in Pickers /\ m.query = query /\ m.mode = ModeOf(typed)
        BY <2>3, <2>4 DEF Pickers
      <4> HIDE DEF m
      <4> QED BY <4>1, <4>2, AtTopIs
    <3> QED BY <3>1, <3>2
  <2> QED BY <2>4, <2>5, TopIsPlaced
<1> QED BY <1>2, <1>3

\* What is asked for a list on screen is to the query on screen.
LEMMA AskedOfScreen ==
    ASSUME WorkerInv, NEW kind \in {"Filter", "Grep"}, NEW query \in Query, NEW walk \in Nat,
           walk <= walks', UNCHANGED <<batch, corpus, alive, results>>,
           findHits' \in FoundList, grepHits' \in FoundList,
           Counted(<<Question(kind, generation + 1, query, walk)>>)
           \/ Counted(<<Index(NextWalk), Question(kind, generation + 1, query, walk)>>),
           picker' \in Pickers, Placed(picker'), Moded(picker'), picker'.query = query,
           picker'.mode = IF kind = "Filter" THEN "Files" ELSE "Search"
    PROVE  WorkerInv' /\ ScreenInv'
<1> DEFINE q == Question(kind, generation + 1, query, walk)
<1>1. /\ WorkerInv' /\ generation' = generation + 1
      /\ UnderWay' \subseteq UnderWay \cup {Asked(q)}
      /\ alive => Asked(q) \in UnderWay'
  BY AskAsks
<1>2. WorkerTypes /\ Numbered /\ generation \in Nat
  BY DEF WorkerInv, WorkerTypes
<1>3. \A a \in UnderWay : a.generation <= generation /\ a.generation \in Nat
  BY <1>2, UnderWayIs DEF Numbered
<1>4. Asked(q).generation = generation + 1 /\ Asked(q).query = query
      /\ Asked(q).answers = IF kind = "Filter" THEN "Files" ELSE "Lines"
  BY DEF Asked, Question
<1> HIDE DEF q
<1>5. \A a \in UnderWay' : a.generation = generation' => a = Asked(q)
  BY <1>1, <1>2, <1>3
<1>6. OfScreen'
  BY <1>4, <1>5 DEF OfScreen
<1>7. StillComing'
  BY <1>1, <1>4 DEF StillComing
<1> QED BY <1>1, <1>6, <1>7 DEF ScreenInv, Placed, Moded, Rows

\* A mode that waits for nothing keeps what is under way.
LEMMA NothingAsked ==
    ASSUME WorkerInv, UNCHANGED <<jobs, batch, corpus, alive, results, generation, awaited, walks, wired>>,
           findHits' \in FoundList, grepHits' \in FoundList
    PROVE  WorkerInv' /\ UnderWay' = UnderWay /\ generation' = generation /\ alive' = alive
<1>1. UnderWay' = UnderWay
  BY DEF UnderWay, AskedIn, ToldIn, Questions, Asked, Told
<1>2. WorkerTypes' /\ Counters' /\ WalksInOrder' /\ WalkComes'
  BY DEF WorkerInv, WorkerTypes, Counters, WalksInOrder, WalkComes
<1>3. RankedAfter'
  BY DEF WorkerInv, RankedAfter, RankedFromTheWalk
<1>4. Numbered'
  BY <1>1 DEF WorkerInv, Numbered, Questions
<1> QED BY <1>1, <1>2, <1>3, <1>4 DEF WorkerInv

LEMMA QueryChanges ==
    ASSUME WorkerInv, ScreenInv, IsOpen, NEW query \in Query, QueryChanged(query)
    PROVE  WorkerInv' /\ ScreenInv'
<1> DEFINE typed == WithQuery(picker, query)
           moded == WithMode(typed, ModeOf(typed))
<1>1. /\ picker' = IF moded.mode = "Commands" THEN Ranked(moded) ELSE moded
      /\ Counted(Request(moded))
      /\ UNCHANGED <<batch, corpus, alive, results, findHits, grepHits>>
  BY DEF QueryChanged
<1>2. /\ moded \in Pickers /\ Placed(moded) /\ moded.query = query /\ moded.mode # "Closed"
      /\ moded.mode \in {"Files", "Commands"} => (moded.mode = "Commands") = Starts(query)
  BY TypedIs DEF ScreenInv, IsOpen
<1>3. /\ WorkerTypes /\ jobs \in Seq(Jobs) /\ generation \in Nat /\ walks \in Nat /\ wired \in BOOLEAN
      /\ findHits' \in FoundList /\ grepHits' \in FoundList
  BY <1>1 DEF WorkerInv, WorkerTypes
<1> HIDE DEF typed, moded
<1>4. CASE moded.mode = "Commands"
  <2>1. Counted(<<>>) /\ picker' = Ranked(moded)
    BY <1>1, <1>4 DEF Request
  <2>2. UNCHANGED <<jobs, generation, awaited, walks, wired>>
    BY <1>3, <2>1, CountedNone
  <2>3. WorkerInv'
    BY <1>1, <1>3, <2>2, NothingAsked
  <2>4. /\ picker' \in Pickers /\ Placed(picker') /\ picker'.mode = "Commands"
        /\ picker'.query = query /\ picker'.commands = Tail(query) /\ Starts(query)
    BY <1>2, <1>4, <2>1, RankedIs
  <2>5. Moded(picker')
    BY <2>4 DEF Moded
  <2>6. OfScreen' /\ StillComing'
    BY <2>4 DEF OfScreen, StillComing
  <2> QED BY <2>3, <2>4, <2>5, <2>6 DEF ScreenInv, Placed, Moded, Rows
<1>5. CASE moded.mode = "Files"
  <2> DEFINE walk == Max({1, walks})
             q == Question("Filter", generation + 1, query, walk)
  <2>1. picker' = moded /\ Moded(moded)
    BY <1>1, <1>2, <1>5 DEF Moded
  <2>2. walk = (IF walks = 0 THEN 1 ELSE walks) /\ walk \in Nat
    BY <1>3, MostOfTwo
  <2>3. q \in Jobs /\ q.kind # "Index"
    BY <1>3, <2>2, OfKind
  <2>4. Request(moded) = (IF walks = 0 THEN <<Index(NextWalk)>> ELSE <<>>) \o <<q>>
    BY <1>2, <1>5 DEF Request
  <2> HIDE DEF walk
  <2>5. CASE walks = 0
    <3>1. <<Index(NextWalk)>> \o <<q>> = <<Index(NextWalk), q>>
      <4>1. Index(NextWalk) \in Jobs
        BY <1>3, OfKind DEF NextWalk
      <4> HIDE DEF q
      <4> QED BY <2>3, <4>1, PairIs
    <3>2. Counted(<<Index(NextWalk), q>>)
      BY <1>1, <2>4, <2>5, <3>1
    <3>3. walks' = walks + 1
      BY <1>3, <2>3, <3>2, CountedTwo
    <3>4. walk <= walks'
      BY <2>2, <2>5, <3>3
    <3> QED BY <1>1, <1>2, <1>3, <1>5, <2>1, <2>2, <3>2, <3>4, AskedOfScreen
  <2>6. CASE walks # 0
    <3>1. <<>> \o <<q>> = <<q>>
      OBVIOUS
    <3>2. Counted(<<q>>)
      BY <1>1, <2>4, <2>6, <3>1
    <3>3. walks' = walks
      BY <1>3, <2>3, <3>2, CountedOne
    <3>4. walk <= walks'
      BY <1>3, <2>2, <2>6, <3>3
    <3> QED BY <1>1, <1>2, <1>3, <1>5, <2>1, <2>2, <3>2, <3>4, AskedOfScreen
  <2> QED BY <2>5, <2>6
<1>6. CASE moded.mode = "Search"
  <2> DEFINE q == Question("Grep", generation + 1, query, walks)
  <2>1. picker' = moded /\ Moded(moded)
    BY <1>1, <1>2, <1>6 DEF Moded
  <2>2. q \in Jobs /\ q.kind # "Index"
    <3>1. "Grep" \in {"Filter", "Grep"} /\ generation + 1 \in Nat /\ walks \in Nat
      BY <1>3
    <3>2. q \in Jobs /\ q.kind = "Grep"
      BY <3>1, OfKind
    <3> QED BY <3>2
  <2>3. Counted(<<q>>)
    BY <1>1, <1>2, <1>6 DEF Request
  <2>4. walks' = walks /\ walks <= walks'
    BY <1>3, <2>2, <2>3, CountedOne
  <2> QED BY <1>1, <1>2, <1>3, <1>6, <2>1, <2>3, <2>4, AskedOfScreen
<1> QED BY <1>2, <1>4, <1>5, <1>6 DEF Pickers

LEMMA OverlayOpens ==
    ASSUME WorkerInv, ScreenInv, OpenPicker \/ OpenSearch \/ OpenCommandPalette
    PROVE  WorkerInv' /\ ScreenInv'
<1>1. /\ WorkerTypes /\ jobs \in Seq(Jobs) /\ generation \in Nat /\ walks \in Nat
      /\ findHits \in FoundList /\ grepHits \in FoundList
  BY DEF WorkerInv, WorkerTypes
<1>2. CASE OpenPicker
  <2> DEFINE p == [Picker("Files") EXCEPT !.hits = findHits]
             q == Question("Filter", generation + 1, Nobody, NextWalk)
  <2>1. p \in Pickers /\ p.mode = "Files" /\ p.query = Nobody
    BY <1>1, PickerIs DEF Pickers
  <2>2. /\ picker' = Clamped(p) /\ Counted(<<Index(NextWalk), q>>)
        /\ UNCHANGED <<batch, corpus, alive, results, findHits, grepHits>>
    BY <1>2 DEF OpenPicker
  <2>3. NextWalk \in Nat /\ q \in Jobs /\ q.kind # "Index"
    BY <1>1, PickerIs, OfKind DEF NextWalk
  <2>4. NextWalk <= walks'
    BY <1>1, <2>2, <2>3, CountedTwo DEF NextWalk
  <2> HIDE DEF p
  <2>5. picker' \in Pickers /\ Placed(picker') /\ picker'.mode = "Files" /\ picker'.query = Nobody
    BY <2>1, <2>2, ClampedIs
  <2>6. Moded(picker')
    BY <2>5 DEF Moded, Starts
  <2>7. Nobody \in Query /\ "Filter" \in {"Filter", "Grep"}
        /\ findHits' \in FoundList /\ grepHits' \in FoundList
    BY <1>1, <2>2, PickerIs
  <2> QED BY <2>2, <2>3, <2>4, <2>5, <2>6, <2>7, AskedOfScreen
<1>3. CASE OpenSearch
  <2>1. WorkerInv'
    BY <1>1, <1>3, OfKind, NothingAsked DEF OpenSearch
  <2>2. /\ picker' \in Pickers /\ picker'.mode = "Search" /\ picker'.query = Nobody
        /\ Placed(picker')
    BY <1>3, PickerIs, TopIsPlaced DEF OpenSearch
  <2> QED BY <2>1, <2>2 DEF ScreenInv, Placed, Moded, Rows, OfScreen, StillComing
<1>4. CASE OpenCommandPalette
  <2> DEFINE p == [Picker("Commands") EXCEPT !.query = <<Prefix>>]
  <2>1. WorkerInv'
    BY <1>1, <1>4, NothingAsked DEF OpenCommandPalette
  <2>2. p \in Pickers /\ p.mode = "Commands" /\ p.query = <<Prefix>>
    BY PickerIs DEF Pickers
  <2>3. picker' = Ranked(p)
    BY <1>4 DEF OpenCommandPalette
  <2>4. Starts(<<Prefix>>)
    BY DEF Starts, Nobody
  <2> HIDE DEF p
  <2>5. /\ picker' \in Pickers /\ Placed(picker') /\ picker'.mode = "Commands"
        /\ picker'.query = <<Prefix>> /\ picker'.commands = Tail(<<Prefix>>)
    BY <2>2, <2>3, <2>4, RankedIs
  <2>6. Moded(picker')
    BY <2>4, <2>5 DEF Moded
  <2> QED BY <2>1, <2>5, <2>6 DEF ScreenInv, Placed, Moded, Rows, OfScreen, StillComing
<1> QED BY <1>2, <1>3, <1>4

LEMMA Typing ==
    ASSUME WorkerInv, ScreenInv, (\E letters \in Queries \ {Nobody} : Insert(letters)) \/ DeleteBackward
    PROVE  WorkerInv' /\ ScreenInv'
<1>1. picker.query \in Query
  BY DEF ScreenInv, Pickers
<1>2. CASE \E letters \in Queries \ {Nobody} : Insert(letters)
  <2>1. PICK letters \in Queries : Insert(letters)
    BY <1>2
  <2>2. letters \in Query
    BY <2>1, FinderAssumption DEF Queries, Query
  <2>3. picker.query \o letters \in Query
    BY <1>1, <2>2, ConcatProperties DEF Query
  <2> QED BY <2>1, <2>3, QueryChanges DEF Insert
<1>3. CASE DeleteBackward
  <2>1. Front(picker.query) \in Query
    <3>1. /\ picker.query # <<>> /\ picker.query \in Seq(Letters \cup {Prefix})
          /\ Front(picker.query) = SubSeq(picker.query, 1, Len(picker.query) - 1)
      BY <1>1, <1>3 DEF DeleteBackward, Query, Front, Nobody
    <3>2. Len(picker.query) \in Nat /\ Len(picker.query) # 0
      BY <3>1, EmptySeq, LenProperties
    <3> QED BY <3>1, <3>2, SubSeqProperties DEF Query
  <2> QED BY <1>3, <2>1, QueryChanges DEF DeleteBackward
<1> QED BY <1>2, <1>3

\* Looking about moves the choice and what is in view, and nothing else.
LEMMA Looks ==
    ASSUME WorkerInv, ScreenInv, NEW p \in Pickers, Looking(p), Placed(p),
           \/ p.mode = "Closed"
           \/ /\ p.mode = picker.mode /\ p.query = picker.query /\ p.hits = picker.hits
              /\ p.lines = picker.lines /\ p.commands = picker.commands
    PROVE  WorkerInv' /\ ScreenInv'
<1>1. /\ picker' = p
      /\ UNCHANGED <<jobs, batch, corpus, alive, results, generation, awaited, walks, wired,
                     findHits, grepHits>>
      /\ findHits \in FoundList /\ grepHits \in FoundList
  BY DEF Looking, WorkerInv, WorkerTypes
<1>2. WorkerInv' /\ UnderWay' = UnderWay /\ generation' = generation /\ alive' = alive
  BY <1>1, NothingAsked
<1>3. Moded(p)
  BY DEF Moded, ScreenInv
<1>4. OfScreen' /\ StillComing'
  BY <1>1, <1>2 DEF OfScreen, StillComing, ScreenInv
<1> QED BY <1>1, <1>2, <1>3, <1>4 DEF ScreenInv, Placed, Moded, Rows

\* The numbers of a choice that moves.
LEMMA Between0 ==
    ASSUME NEW a \in Int, NEW b \in Int
    PROVE  Max({0, Min({a, b})}) = IF a <= 0 \/ b <= 0 THEN 0 ELSE IF a <= b THEN a ELSE b
<1>1. Min({a, b}) = IF a <= b THEN a ELSE b
  BY LeastOfTwo
<1>2. \A m \in Int : Max({0, m}) = IF 0 >= m THEN 0 ELSE m
  BY MostOfTwo
<1> QED BY <1>1, <1>2

LEMMA LookingAbout ==
    ASSUME WorkerInv, ScreenInv,
           \/ \E delta \in {-1, 1, -10, 10} : MoveSelection(delta)
           \/ \E delta \in {-1, 1} : Scroll(delta)
           \/ Home \/ Draw \/ Close
           \/ Choose(picker.selected)
    PROVE  WorkerInv' /\ ScreenInv'
<1> DEFINE rows == Rows(picker)
           last == IF rows = 0 THEN 0 ELSE rows - 1
           selected == picker.selected
           offset == picker.offset
<1>1. /\ picker \in Pickers /\ selected \in 0..last /\ offset \in 0..last
      /\ rows \in Nat /\ last \in Nat
  BY RowsAre DEF ScreenInv, Placed
<1>2. ASSUME NEW s \in Nat, NEW o \in Nat, s <= last, o <= last,
             Looking([picker EXCEPT !.selected = s, !.offset = o])
      PROVE  WorkerInv' /\ ScreenInv'
  <2> DEFINE p == [picker EXCEPT !.selected = s, !.offset = o]
  <2>1. /\ p \in Pickers /\ p.mode = picker.mode /\ p.query = picker.query /\ p.hits = picker.hits
        /\ p.lines = picker.lines /\ p.commands = picker.commands
        /\ p.selected = s /\ p.offset = o
    BY <1>1 DEF Pickers
  <2>2. Looking(p)
    BY <1>2
  <2> HIDE DEF p
  <2>3. Rows(p) = rows
    BY <2>1 DEF Rows
  <2>4. Max({0, Rows(p) - 1}) = last
    BY <2>1, <2>3, RowsAre
  <2>5. Placed(p)
    BY <1>1, <1>2, <2>1, <2>4 DEF Placed
  <2> QED BY <2>1, <2>2, <2>5, Looks
<1>3. CASE \E delta \in {-1, 1, -10, 10} : MoveSelection(delta)
  <2>1. PICK delta \in {-1, 1, -10, 10} : MoveSelection(delta)
    BY <1>3
  <2> DEFINE s == Max({0, Min({selected + delta, rows - 1})})
  <2>2. s \in Nat /\ s <= last
    <3>1. selected + delta \in Int /\ rows - 1 \in Int
      BY <1>1
    <3>2. s = IF selected + delta <= 0 \/ rows - 1 <= 0 THEN 0
              ELSE IF selected + delta <= rows - 1 THEN selected + delta ELSE rows - 1
      BY <3>1, Between0
    <3> QED BY <1>1, <3>1, <3>2
  <2>3. Looking([picker EXCEPT !.selected = s, !.offset = offset])
    <3>1. Looking([picker EXCEPT !.selected = s])
      BY <2>1 DEF MoveSelection
    <3>2. [picker EXCEPT !.selected = s] = [picker EXCEPT !.selected = s, !.offset = offset]
      BY <1>1 DEF Pickers
    <3> QED BY <3>1, <3>2
  <2>4. offset \in Nat /\ offset <= last
    BY <1>1
  <2> HIDE DEF s, offset, selected, last, rows
  <2> QED BY <1>2, <2>2, <2>3, <2>4
<1>4. CASE \E delta \in {-1, 1} : Scroll(delta)
  <2>1. PICK delta \in {-1, 1} : Scroll(delta)
    BY <1>4
  <2> DEFINE o == Max({0, Min({offset + delta, rows - Window})})
             l == rows - 1
             top == Min({o, l})
             bottom == Min({o + Window - 1, l})
             s == IF l < 0 THEN selected ELSE Max({top, Min({selected, bottom})})
  <2>2. Window \in Nat /\ Window >= 1 /\ rows - Window \in Int /\ offset + delta \in Int
    BY <1>1, FinderAssumption
  <2>3. o = IF offset + delta <= 0 \/ rows - Window <= 0 THEN 0
            ELSE IF offset + delta <= rows - Window THEN offset + delta ELSE rows - Window
    BY <2>2, Between0
  <2>4. o \in Nat /\ o <= last
    BY <1>1, <2>2, <2>3
  <2>5. Looking([picker EXCEPT !.selected = s, !.offset = o])
    <3>1. Looking([picker EXCEPT !.offset = o, !.selected = IF l < 0 THEN selected
                                               ELSE Max({top, Min({selected, bottom})})])
      BY <1>1, <2>1 DEF Scroll, Pickers
    <3>2. [picker EXCEPT !.offset = o, !.selected = s] = [picker EXCEPT !.selected = s, !.offset = o]
      BY <1>1 DEF Pickers
    <3> QED BY <3>1, <3>2
  <2> HIDE DEF o
  <2>6. s \in Nat /\ s <= last
    <3>1. CASE rows = 0
      BY <1>1, <3>1
    <3>2. CASE rows # 0
      <4>1. l \in Nat /\ last = l /\ o + Window - 1 \in Nat /\ selected \in Nat
        BY <1>1, <2>2, <2>4, <3>2
      <4>2. top = (IF o <= l THEN o ELSE l) /\ bottom = (IF o + Window - 1 <= l THEN o + Window - 1 ELSE l)
        BY <2>4, <4>1, LeastOfTwo
      <4>3. top \in Nat /\ top <= l /\ bottom \in Nat /\ bottom <= l
        BY <2>2, <2>4, <4>1, <4>2
      <4> HIDE DEF top, bottom, l
      <4>4. Min({selected, bottom}) = IF selected <= bottom THEN selected ELSE bottom
        BY <4>1, <4>3, LeastOfTwo
      <4>5. Min({selected, bottom}) \in Nat /\ Min({selected, bottom}) <= l
        BY <4>1, <4>3, <4>4
      <4> DEFINE m == Min({selected, bottom})
      <4> HIDE DEF m
      <4>6. Max({top, m}) = IF top >= m THEN top ELSE m
        BY <4>3, <4>5, MostOfTwo DEF m
      <4>7. Max({top, m}) \in Nat /\ Max({top, m}) <= l
        BY <4>3, <4>5, <4>6 DEF m
      <4> QED BY <4>1, <4>7 DEF m
    <3> QED BY <3>1, <3>2
  <2> HIDE DEF s
  <2> QED BY <1>2, <2>4, <2>5, <2>6
<1>5. CASE Home
  <2>1. PICK z \in Nat : z = selected - selected
    BY <1>1
  <2>2. Looking([picker EXCEPT !.selected = z, !.offset = offset])
    <3>1. z = 0
      BY <1>1, <2>1
    <3>2. Looking([picker EXCEPT !.selected = z])
      BY <1>5, <3>1 DEF Home
    <3>3. [picker EXCEPT !.selected = z] = [picker EXCEPT !.selected = z, !.offset = offset]
      BY <1>1 DEF Pickers
    <3> QED BY <3>2, <3>3
  <2>3. z <= last /\ offset \in Nat /\ offset <= last
    BY <1>1, <2>1
  <2> HIDE DEF offset, selected, last, rows
  <2> QED BY <1>2, <2>2, <2>3
<1>6. CASE Draw
  <2> DEFINE o == CASE selected < offset -> selected
                    [] selected >= offset + Window -> selected + 1 - Window
                    [] OTHER -> offset
  <2>1. o \in Nat /\ o <= last
    <3>1. Window \in Nat /\ Window >= 1
      BY FinderAssumption
    <3>2. /\ selected \in Nat /\ offset \in Nat /\ selected <= last /\ offset <= last /\ last \in Nat
      BY <1>1
    <3> HIDE DEF offset, selected, last, rows
    <3>3. CASE selected < offset
      <4>1. ~(selected >= offset + Window)
        BY <3>1, <3>2, <3>3
      <4>2. o = selected
        BY <3>3, <4>1
      <4> QED BY <3>2, <4>2
    <3>4. CASE ~(selected < offset) /\ selected >= offset + Window
      <4>1. o = selected + 1 - Window
        BY <3>4
      <4> QED BY <3>1, <3>2, <3>4, <4>1
    <3>5. CASE ~(selected < offset) /\ ~(selected >= offset + Window)
      <4>1. o = offset
        BY <3>5
      <4> QED BY <3>2, <4>1
    <3> QED BY <3>3, <3>4, <3>5
  <2>2. Looking([picker EXCEPT !.selected = selected, !.offset = o])
    <3>1. Looking([picker EXCEPT !.offset = o])
      BY <1>1, <1>6 DEF Draw, Pickers
    <3>2. [picker EXCEPT !.offset = o] = [picker EXCEPT !.selected = selected, !.offset = o]
      BY <1>1 DEF Pickers
    <3> QED BY <3>1, <3>2
  <2>3. selected \in Nat /\ selected <= last
    BY <1>1
  <2> HIDE DEF o, offset, selected, last, rows
  <2> QED BY <1>2, <2>1, <2>2, <2>3
<1>7. CASE Close \/ Choose(picker.selected)
  <2>1. Looking(Closed) /\ Closed \in Pickers /\ Closed.mode = "Closed" /\ Placed(Closed)
    BY <1>7, PickerIs, TopIsPlaced DEF Close, Choose, Closed
  <2> QED BY <2>1, Looks
<1> QED BY <1>3, <1>4, <1>5, <1>6, <1>7

\* An answer taken is to the query on screen; one that is not changes nothing.
LEMMA AnswerFits ==
    ASSUME WorkerInv, ScreenInv, HandleFound
    PROVE  /\ WorkerInv' /\ ScreenInv'
           /\ picker'.hits # picker.hits => picker'.hits.query = picker.query
           /\ picker'.lines # picker.lines /\ picker.query # Nobody =>
                 picker'.lines.query = picker.query
<1> DEFINE found == Head(results)
           taken == found.kind # "Indexed" /\ IsAwaited(found)
<1>1. /\ WorkerInv' /\ UnderWay' \subseteq UnderWay /\ found \in Reports
      /\ found.kind # "Indexed" => Told(found) \in UnderWay
      /\ \A a \in UnderWay : a \in UnderWay' \/ (found.kind # "Indexed" /\ a = Told(found))
  BY AnswerIsRead
<1>2. /\ findHits' = IF found.kind = "Files" /\ IsAwaited(found) THEN found.list ELSE findHits
      /\ grepHits' = IF found.kind = "Lines" /\ IsAwaited(found) THEN found.list ELSE grepHits
      /\ picker' = IF taken THEN WithHits(picker) ELSE picker
      /\ UNCHANGED <<alive, generation, awaited>>
  BY DEF HandleFound
<1>3. /\ picker \in Pickers /\ Placed(picker) /\ Moded(picker) /\ OfScreen /\ StillComing
      /\ awaited = generation
      /\ findHits \in FoundList /\ grepHits \in FoundList
      /\ picker.hits \in FoundList /\ picker.lines \in FoundList
      /\ found.kind \in {"Indexed", "Files", "Lines"} /\ found.list \in FoundList
  BY <1>1, OfKind DEF ScreenInv, WorkerInv, Counters, WorkerTypes, Pickers
<1>4. /\ Told(found).answers = found.kind /\ Told(found).generation = found.generation
      /\ Told(found).query = found.list.query
  BY DEF Told
<1> HIDE DEF found
<1>5. CASE ~taken
  <2>1. \A a \in UnderWay : a.generation = generation => a \in UnderWay'
    BY <1>1, <1>3, <1>4, <1>5 DEF IsAwaited
  <2>2. picker' = picker
    BY <1>2, <1>5
  <2>3. OfScreen'
    BY <1>1, <1>2, <1>3, <2>2 DEF OfScreen
  <2>4. StillComing'
    BY <1>2, <1>3, <2>1, <2>2 DEF StillComing
  <2> QED BY <1>1, <1>3, <2>2, <2>3, <2>4 DEF ScreenInv, Placed, Moded, Rows
<1>6. CASE taken
  <2>1. found.generation = generation /\ Told(found) \in UnderWay /\ picker' = WithHits(picker)
    BY <1>1, <1>2, <1>3, <1>6 DEF IsAwaited
  <2>2. /\ picker.mode = "Files" => found.kind = "Files" /\ found.list.query = picker.query
        /\ picker.mode = "Search" /\ picker.query # Nobody =>
              found.kind = "Lines" /\ found.list.query = picker.query
    BY <1>3, <1>4, <2>1 DEF OfScreen
  <2>3. findHits' \in FoundList /\ grepHits' \in FoundList
    BY <1>2, <1>3
  <2>4. CASE picker.mode = "Files"
    <3> DEFINE p == [picker EXCEPT !.hits = findHits']
    <3>1. /\ p \in Pickers /\ p.mode = picker.mode /\ p.query = picker.query
          /\ p.hits = findHits' /\ p.lines = picker.lines /\ p.commands = picker.commands
      BY <1>3, <2>3 DEF Pickers
    <3>2. picker' = Clamped(p)
      BY <2>1, <2>4 DEF WithHits
    <3> HIDE DEF p
    <3>3. /\ picker' \in Pickers /\ Placed(picker') /\ picker'.mode = "Files"
          /\ picker'.query = picker.query /\ picker'.hits = findHits' /\ picker'.lines = picker.lines
      BY <2>4, <3>1, <3>2, ClampedIs
    <3>4. findHits' = found.list
      BY <1>2, <1>6, <2>2, <2>4
    <3>5. Moded(picker')
      BY <1>3, <2>4, <3>3 DEF Moded
    <3>6. OfScreen'
      BY <1>1, <1>2, <1>3, <2>4, <3>3 DEF OfScreen
    <3>7. StillComing'
      BY <2>2, <2>4, <3>3, <3>4 DEF StillComing
    <3> QED BY <1>1, <2>2, <2>4, <3>3, <3>4, <3>5, <3>6, <3>7 DEF ScreenInv, Placed, Moded, Rows
  <2>5. CASE picker.mode = "Search"
    <3> DEFINE p == [picker EXCEPT !.lines = grepHits']
    <3>1. /\ p \in Pickers /\ p.mode = picker.mode /\ p.query = picker.query
          /\ p.lines = grepHits' /\ p.hits = picker.hits /\ p.commands = picker.commands
      BY <1>3, <2>3 DEF Pickers
    <3>2. picker' = Clamped(p)
      BY <2>1, <2>5 DEF WithHits
    <3> HIDE DEF p
    <3>3. /\ picker' \in Pickers /\ Placed(picker') /\ picker'.mode = "Search"
          /\ picker'.query = picker.query /\ picker'.lines = grepHits' /\ picker'.hits = picker.hits
      BY <2>5, <3>1, <3>2, ClampedIs
    <3>4. picker.query # Nobody => grepHits' = found.list
      BY <1>2, <1>6, <2>2, <2>5
    <3>5. Moded(picker')
      BY <3>3 DEF Moded
    <3>6. OfScreen'
      BY <1>1, <1>2, <1>3, <2>5, <3>3 DEF OfScreen
    <3>7. StillComing'
      BY <2>2, <2>5, <3>3, <3>4 DEF StillComing
    <3> QED BY <1>1, <2>2, <2>5, <3>3, <3>4, <3>5, <3>6, <3>7 DEF ScreenInv, Placed, Moded, Rows
  <2>6. CASE picker.mode \notin {"Files", "Search"}
    <3>1. picker' = picker
      BY <2>1, <2>6 DEF WithHits
    <3>2. OfScreen' /\ StillComing'
      BY <2>6, <3>1 DEF OfScreen, StillComing
    <3> QED BY <1>1, <1>3, <3>1, <3>2 DEF ScreenInv, Placed, Moded, Rows
  <2> QED BY <2>4, <2>5, <2>6
<1> QED BY <1>5, <1>6

LEMMA WorkerOnly ==
    ASSUME WorkerInv, ScreenInv, Take \/ Work \/ Die
    PROVE  WorkerInv' /\ ScreenInv'
<1>1. CASE Take
  <2>1. /\ WorkerInv' /\ UnderWay' \subseteq UnderWay /\ UNCHANGED <<picker, generation, alive>>
        /\ \A a \in UnderWay : a.generation = generation => a \in UnderWay'
    BY <1>1, TakeTakes DEF Take
  <2> QED BY <2>1 DEF ScreenInv, Placed, Moded, Rows, OfScreen, StillComing
<1>2. CASE Work
  <2>1. /\ WorkerInv' /\ UnderWay' = UnderWay /\ UNCHANGED <<picker, generation, alive>>
    BY <1>2, WorkWorks DEF Work
  <2> QED BY <2>1 DEF ScreenInv, Placed, Moded, Rows, OfScreen, StillComing
<1>3. CASE Die
  <2>1. /\ WorkerInv' /\ UnderWay' \subseteq UnderWay /\ UNCHANGED <<picker, generation>> /\ alive' = FALSE
    BY <1>3, DieDies DEF Die
  <2> QED BY <2>1 DEF ScreenInv, Placed, Moded, Rows, OfScreen, StillComing
<1> QED BY <1>1, <1>2, <1>3

LEMMA FinderKeeps ==
    ASSUME WorkerInv, ScreenInv, [Next]_vars
    PROVE  WorkerInv' /\ ScreenInv'
<1>1. CASE UNCHANGED vars
  <2>1. UNCHANGED <<jobs, batch, corpus, alive, results, generation, awaited, walks, wired,
                    findHits, grepHits, picker>>
    BY <1>1 DEF vars
  <2>2. WorkerInv' /\ UnderWay' = UnderWay
    BY <2>1, NothingAsked DEF WorkerInv, WorkerTypes
  <2> QED BY <2>1, <2>2 DEF ScreenInv, Placed, Moded, Rows, OfScreen, StillComing
<1>2. CASE Next
  BY <1>2, OverlayOpens, Typing, LookingAbout, WorkerOnly, AnswerFits DEF Next
<1> QED BY <1>1, <1>2

LEMMA FinderStarts ==
    ASSUME Init
    PROVE  WorkerInv /\ ScreenInv
<1>1. WorkerInv /\ UnderWay = {}
  BY WorkerStarts
<1>2. picker \in Pickers /\ picker.mode = "Closed" /\ Placed(picker)
  BY PickerIs, TopIsPlaced DEF Init, Closed
<1> QED BY <1>1, <1>2 DEF ScreenInv, Moded, OfScreen, StillComing

\* What the invariant comes to: the properties of the picker.
LEMMA PickerFits ==
    ASSUME WorkerInv, ScreenInv
    PROVE  ChoiceIsARow /\ RankedFromTheWalk
<1>1. RankedFromTheWalk
  BY DEF WorkerInv, RankedAfter
<1>2. Settled => UnderWay = {}
  BY DEF Settled, UnderWay, AskedIn, ToldIn, Questions
<1>3. ChoiceIsARow
  BY <1>2 DEF ChoiceIsARow, ScreenInv, Placed, Moded, Starts, StillComing, IsOpen
<1> QED BY <1>1, <1>3

-----------------------------------------------------------------------------
(***************************************************************************)
(* The completion list: what it shows.                                     *)
(***************************************************************************)
\* `kept` solves the recursion of `Matching` up to `n`.
Step(kept, items, m, typed) ==
    IF m = 0 THEN <<>>
    ELSE IF MatchesTyped(typed, items[m]) THEN Append(kept[m - 1], items[m])
    ELSE kept[m - 1]
Solves(kept, items, n, typed) == kept = [m \in 0..n |-> Step(kept, items, m, typed)]

LEMMA SolutionExists ==
    ASSUME NEW items, NEW typed, NEW n \in Nat
    PROVE  \E kept : Solves(kept, items, n, typed)
<1> DEFINE T == {k \in Nat : \E f : Solves(f, items, k, typed)}
<1>1. 0 \in T
  <2> DEFINE f == [m \in 0..0 |-> <<>>]
  <2>1. \A m \in 0..0 : f[m] = Step(f, items, m, typed)
    BY DEF Step
  <2>2. f = [m \in 0..0 |-> f[m]]
    OBVIOUS
  <2> HIDE DEF f
  <2>3. Solves(f, items, 0, typed)
    BY <2>1, <2>2 DEF Solves
  <2> QED BY <2>3
<1>2. ASSUME NEW k \in 1..n, k - 1 \in T PROVE k \in T
  <2>1. PICK f : f = [m \in 0..(k - 1) |-> Step(f, items, m, typed)]
    BY <1>2 DEF Solves
  <2> DEFINE g == [m \in 0..k |-> IF m = k THEN Step(f, items, k, typed) ELSE f[m]]
  <2>2. \A m \in 0..k : g[m] = Step(g, items, m, typed)
    <3> SUFFICES ASSUME NEW m \in 0..k PROVE g[m] = Step(g, items, m, typed)
      OBVIOUS
    <3>1. m # 0 => m - 1 \in 0..(k - 1) /\ g[m - 1] = f[m - 1]
      OBVIOUS
    <3>2. CASE m = k
      BY <3>1, <3>2 DEF Step
    <3>3. CASE m # k
      <4>1. m \in 0..(k - 1) /\ g[m] = f[m]
        BY <3>3
      <4>2. f[m] = Step(f, items, m, typed)
        BY <2>1, <4>1
      <4> QED BY <3>1, <4>1, <4>2 DEF Step
    <3> QED BY <3>2, <3>3
  <2>3. g = [m \in 0..k |-> g[m]]
    OBVIOUS
  <2> HIDE DEF g
  <2>4. Solves(g, items, k, typed)
    BY <2>2, <2>3 DEF Solves
  <2> QED BY <2>4
<1> HIDE DEF T
<1>3. n \in T
  BY <1>1, <1>2, EveryNumber
<1> QED BY <1>3 DEF T

\* What is shown are items that match what was typed.
LEMMA MatchingAre ==
    ASSUME NEW X, NEW items \in Seq(X), NEW typed
    PROVE  Matching(items, typed) \in Seq({item \in X : MatchesTyped(typed, item)})
<1> DEFINE Y == {item \in X : MatchesTyped(typed, item)}
           N == Len(items)
           f == CHOOSE kept : Solves(kept, items, N, typed)
           T == {m \in 0..N : f[m] \in Seq(Y)}
<1>1. N \in Nat /\ \A m \in 1..N : items[m] \in X
  BY LenProperties, ElementOfSeq
<1>2. Solves(f, items, N, typed)
  BY <1>1, SolutionExists
<1>3. Matching(items, typed) = f[N]
  BY DEF Matching, Solves, Step
<1> HIDE DEF f
<1>4. \A m \in 0..N : f[m] = Step(f, items, m, typed)
  BY <1>2 DEF Solves
<1> HIDE DEF N
<1> HIDE DEF Y
<1>5. 0 \in T
  <2>1. 0 \in 0..N
    BY <1>1
  <2>2. f[0] = <<>>
    BY <1>4, <2>1 DEF Step
  <2>3. <<>> \in Seq(Y)
    BY EmptySeq
  <2> QED BY <2>1, <2>2, <2>3
<1>6. ASSUME NEW m \in 1..N, m - 1 \in T  PROVE m \in T
  <2>1. m \in 0..N /\ m # 0 /\ f[m - 1] \in Seq(Y)
    BY <1>1, <1>6
  <2>2. f[m] = IF MatchesTyped(typed, items[m]) THEN Append(f[m - 1], items[m]) ELSE f[m - 1]
    BY <1>4, <2>1 DEF Step
  <2>3. MatchesTyped(typed, items[m]) => items[m] \in Y
    BY <1>1 DEF Y
  <2>4. f[m] \in Seq(Y)
    BY <2>1, <2>2, <2>3, AppendProperties
  <2> QED BY <2>1, <2>4
<1> HIDE DEF T
<1>7. N \in T
  <2>1. N \in Nat
    BY <1>1
  <2>2. \A n \in 0..N : n \in T
    BY <1>5, <1>6, <2>1, EveryNumber
  <2> QED BY <2>1, <2>2
<1>8. f[N] \in Seq(Y)
  BY <1>7 DEF T
<1> QED BY <1>3, <1>8 DEF Y

-----------------------------------------------------------------------------
(***************************************************************************)
(* The word before the caret.                                              *)
(***************************************************************************)
Signs == {Word, Trigger, Opens, Ends}

\* The characters of `chars` between two columns are those of a word.
Wordly(chars, from, to) == \A i \in from + 1..to : chars[i] = Word

LEMMA BetweenIs ==
    ASSUME NEW chars \in Seq(Signs), NEW from \in 0..Len(chars), NEW to \in 0..Len(chars)
    PROVE  /\ Between(chars, from, to) \in Seq(Signs)
           /\ Len(Between(chars, from, to)) = IF from <= to THEN to - from ELSE 0
           /\ \A i \in 1..to - from : Between(chars, from, to)[i] = chars[from + i]
           /\ IsWord(Between(chars, from, to)) = Wordly(chars, from, to)
<1> DEFINE s == Between(chars, from, to)
<1>1. Len(chars) \in Nat /\ from + 1 \in Int /\ to \in Int /\ from \in Nat /\ to \in Nat
  BY LenProperties
<1>2. \A i \in from + 1..to : chars[i] \in Signs
  BY <1>1, ElementOfSeq
<1>3. /\ s \in Seq(Signs)
      /\ Len(s) = IF from + 1 <= to THEN to - (from + 1) + 1 ELSE 0
      /\ \A i \in 1..to - (from + 1) + 1 : s[i] = chars[from + 1 + i - 1]
  BY <1>1, <1>2, SubSeqProperties DEF Between
<1> HIDE DEF s
<1>4. Len(s) = (IF from <= to THEN to - from ELSE 0) /\ \A i \in 1..to - from : s[i] = chars[from + i]
  <2>1. to - (from + 1) + 1 = to - from
    BY <1>1
  <2>2. \A i \in 1..to - from : from + 1 + i - 1 = from + i
    BY <1>1
  <2> QED BY <1>1, <1>3, <2>1, <2>2
<1>5. DOMAIN s = 1..Len(s)
  BY <1>3, LenProperties
<1>6. IsWord(s) => Wordly(chars, from, to)
  <2> SUFFICES ASSUME IsWord(s), NEW i \in from + 1..to PROVE chars[i] = Word
    BY DEF Wordly
  <2>1. i - from \in DOMAIN s /\ i - from \in 1..to - from /\ from + (i - from) = i
    BY <1>1, <1>4, <1>5
  <2> QED BY <1>4, <2>1 DEF IsWord
<1>7. Wordly(chars, from, to) => IsWord(s)
  <2> SUFFICES ASSUME Wordly(chars, from, to), NEW i \in DOMAIN s PROVE s[i] = Word
    BY DEF IsWord
  <2>1. i \in 1..to - from /\ from + i \in from + 1..to
    BY <1>1, <1>4, <1>5
  <2> QED BY <1>4, <2>1 DEF Wordly
<1>8. IsWord(s) \in BOOLEAN /\ Wordly(chars, from, to) \in BOOLEAN
  BY DEF IsWord, Wordly
<1> QED BY <1>3, <1>4, <1>6, <1>7, <1>8 DEF s

\* A set of columns that is not empty has a first one.
LEMMA FirstColumn ==
    ASSUME NEW N \in Nat, NEW S, S \subseteq 0..N, S # {}
    PROVE  Min(S) \in S /\ \A n \in S : Min(S) <= n
<1> DEFINE M == {n \in 1..N + 1 : N + 1 - n \in S}
<1>1. M \subseteq 1..N + 1 /\ N + 1 \in Nat
  OBVIOUS
<1>2. M # {}
  <2>1. PICK n \in S : TRUE
    OBVIOUS
  <2>2. N + 1 - n \in M
    BY <2>1
  <2> QED BY <2>2
<1> HIDE DEF M
<1>3. Max(M) \in M /\ \A n \in M : n <= Max(M)
  BY <1>1, <1>2, LastPlace
<1> DEFINE m == N + 1 - Max(M)
<1>4. m \in S /\ \A n \in S : m <= n
  <2>1. m \in S
    BY <1>3 DEF M
  <2>2. ASSUME NEW n \in S  PROVE m <= n
    <3>1. N + 1 - n \in M
      BY DEF M
    <3>2. N + 1 - n <= Max(M) /\ Max(M) \in 1..N + 1 /\ n \in 0..N
      BY <1>1, <1>3, <3>1
    <3> QED BY <3>2
  <2> QED BY <2>1, <2>2
<1> HIDE DEF m
<1>5. Min(S) \in S /\ \A n \in S : Min(S) <= n
  BY <1>4 DEF Min
<1> QED BY <1>5

\* Where a word starts: what follows is of the word, and what is before is not.
LEMMA StartIs ==
    ASSUME NEW chars \in Seq(Signs), NEW col \in 0..Len(chars), NEW start
    PROVE  (start = WordStart(chars, col)) =
              /\ start \in 0..col /\ Wordly(chars, start, col)
              /\ start = 0 \/ chars[start] # Word
<1> DEFINE S == {from \in 0..col : IsWord(Between(chars, from, col))}
           w == WordStart(chars, col)
           Is(n) == /\ n \in 0..col /\ Wordly(chars, n, col)
                    /\ n = 0 \/ chars[n] # Word
<1>1. Len(chars) \in Nat /\ col \in Nat
  BY LenProperties
<1>2. ASSUME NEW from \in 0..col
      PROVE  IsWord(Between(chars, from, col)) = Wordly(chars, from, col)
  <2>1. from \in 0..Len(chars)
    BY <1>1
  <2> QED BY <2>1, BetweenIs
<1>3. S \subseteq 0..col /\ col \in S
  <2>1. Wordly(chars, col, col) /\ col \in 0..col
    BY <1>1 DEF Wordly
  <2> QED BY <1>2, <2>1
<1>4. w = Min(S)
  BY DEF WordStart
<1>5. w \in S /\ \A n \in S : w <= n
  <2> HIDE DEF S
  <2> QED BY <1>1, <1>3, <1>4, FirstColumn
<1> HIDE DEF w
<1>6. Is(w)
  <2>1. w \in 0..col /\ Wordly(chars, w, col)
    BY <1>2, <1>5
  <2>2. ASSUME w # 0, chars[w] = Word  PROVE FALSE
    <3>1. w - 1 \in 0..col /\ w \in Nat
      BY <1>1, <2>1, <2>2
    <3>2. Wordly(chars, w - 1, col)
      BY <2>1, <2>2, <3>1 DEF Wordly
    <3>3. w - 1 \in S
      BY <1>2, <3>1, <3>2
    <3> QED BY <1>5, <3>1, <3>3
  <2> QED BY <2>1, <2>2
<1>7. ASSUME Is(start)  PROVE start = w
  <2>1. start \in S /\ w <= start
    BY <1>2, <1>5, <1>7
  <2>2. ASSUME w < start  PROVE FALSE
    <3>1. start \in w + 1..col /\ start # 0
      BY <1>6, <1>7, <2>2
    <3>2. chars[start] = Word
      BY <1>6, <3>1 DEF Wordly
    <3> QED BY <1>7, <3>1, <3>2
  <2> QED BY <1>6, <1>7, <2>1, <2>2
<1>8. Is(start) \in BOOLEAN
  OBVIOUS
<1> HIDE DEF Is
<1>9. (start = w) = Is(start)
  BY <1>6, <1>7, <1>8
<1> QED BY <1>9 DEF w, Is

\* What a replacement leaves: the text before it, what is put in, the rest.
LEMMA ReplacedIs ==
    ASSUME line \in Seq(Signs), NEW to \in 0..Len(line), NEW from \in 0..to, NEW text \in Seq(Signs)
    PROVE  /\ Replaced(from, to, text) \in Seq(Signs)
           /\ Len(Replaced(from, to, text)) = from + Len(text) + Len(line) - to
           /\ Len(text) \in Nat /\ Len(line) \in Nat
           /\ \A i \in 1..from : Replaced(from, to, text)[i] = line[i]
           /\ \A i \in 1..Len(text) : Replaced(from, to, text)[from + i] = text[i]
<1> DEFINE replaced == Replaced(from, to, text)
<1> DEFINE a == Between(line, 0, from)
           b == Between(line, to, Len(line))
<1>1. /\ Len(line) \in Nat /\ Len(text) \in Nat /\ to \in Nat /\ from \in Nat /\ from <= to
      /\ to <= Len(line)
  BY LenProperties
<1>2. /\ 0 \in 0..Len(line) /\ from \in 0..Len(line) /\ to \in 0..Len(line) /\ Len(line) \in 0..Len(line)
  BY <1>1
<1>3. /\ a \in Seq(Signs) /\ Len(a) = IF 0 <= from THEN from - 0 ELSE 0
      /\ \A i \in 1..from - 0 : a[i] = line[0 + i]
  BY <1>2, BetweenIs
<1>4. b \in Seq(Signs) /\ Len(b) = IF to <= Len(line) THEN Len(line) - to ELSE 0
  BY <1>2, BetweenIs
<1>5. Len(a) = from /\ Len(b) = Len(line) - to /\ \A i \in 1..from : a[i] = line[i]
  BY <1>1, <1>3, <1>4
<1>6. replaced = (a \o text) \o b
  BY DEF Replaced
<1> HIDE DEF a, b, replaced
<1>7. /\ a \o text \in Seq(Signs) /\ Len(a \o text) = from + Len(text)
      /\ \A i \in 1..from + Len(text) : (a \o text)[i] = IF i <= from THEN a[i] ELSE text[i - from]
  BY <1>3, <1>5, ConcatProperties
<1> DEFINE s == a \o text
<1>8. /\ replaced \in Seq(Signs) /\ Len(replaced) = from + Len(text) + Len(b)
      /\ \A i \in 1..from + Len(text) + Len(b) : replaced[i] = IF i <= from + Len(text) THEN s[i] ELSE b[i - (from + Len(text))]
  <2>1. s \in Seq(Signs) /\ Len(s) = from + Len(text) /\ replaced = s \o b
    BY <1>6, <1>7
  <2> HIDE DEF s
  <2>2. PICK t \in Seq(Signs) : t = s
    BY <2>1
  <2>3. PICK u \in Seq(Signs) : u = b
    BY <1>4
  <2>4. /\ t \o u \in Seq(Signs) /\ Len(t \o u) = Len(t) + Len(u)
        /\ \A i \in 1..Len(t) + Len(u) : (t \o u)[i] = IF i <= Len(t) THEN t[i] ELSE u[i - Len(t)]
    BY ConcatProperties
  <2> QED BY <2>1, <2>2, <2>3, <2>4
<1>9. \A i \in 1..from + Len(text) : replaced[i] = IF i <= from THEN a[i] ELSE text[i - from]
  <2>1. \A i \in 1..from + Len(text) : i \in 1..from + Len(text) + Len(b) /\ i <= from + Len(text)
    BY <1>1, <1>5
  <2> QED BY <1>7, <1>8, <2>1
<1>10. \A i \in 1..from : replaced[i] = line[i]
  BY <1>1, <1>5, <1>9
<1>11. ASSUME NEW i \in 1..Len(text)  PROVE replaced[from + i] = text[i]
  <2>1. from + i \in 1..from + Len(text) /\ ~(from + i <= from) /\ from + i - from = i
    BY <1>1
  <2> QED BY <1>9, <2>1
<1> QED BY <1>1, <1>5, <1>8, <1>10, <1>11 DEF replaced

\* A character put in at the caret.
LEMMA TypedAtCaret ==
    ASSUME line \in Seq(Signs), caret \in 0..Len(line), NEW c \in Signs,
           Edited(Replaced(caret, caret, <<c>>), caret + 1)
    PROVE  /\ line' \in Seq(Signs) /\ Len(line') = Len(line) + 1 /\ caret' = caret + 1
           /\ caret' \in 0..Len(line') /\ Len(line) \in Nat /\ caret \in Nat
           /\ line'[caret + 1] = c /\ \A i \in 1..caret : line'[i] = line[i]
<1>1. <<c>> \in Seq(Signs) /\ Len(<<c>>) = 1 /\ <<c>>[1] = c
  OBVIOUS
<1>2. Len(line) \in Nat /\ caret \in Nat /\ caret \in 0..caret /\ caret <= Len(line)
  BY LenProperties
<1>3. line' = Replaced(caret, caret, <<c>>) /\ caret' = caret + 1
  BY DEF Edited
<1> DEFINE text == <<c>>
<1>4. text \in Seq(Signs) /\ Len(text) = 1 /\ text[1] = c /\ line' = Replaced(caret, caret, text)
  BY <1>1, <1>3
<1> HIDE DEF text
<1>5. /\ line' \in Seq(Signs) /\ Len(line') = caret + Len(text) + Len(line) - caret
      /\ \A i \in 1..caret : line'[i] = line[i]
      /\ \A i \in 1..Len(text) : line'[caret + i] = text[i]
  <2>1. PICK at \in 0..Len(line) : at = caret
    OBVIOUS
  <2>2. at \in 0..at
    BY <1>2, <2>1
  <2>3. line' = Replaced(at, at, text)
    BY <1>4, <2>1
  <2>4. /\ line' \in Seq(Signs) /\ Len(line') = at + Len(text) + Len(line) - at
        /\ \A i \in 1..at : line'[i] = line[i]
        /\ \A i \in 1..Len(text) : line'[at + i] = text[i]
    <3>1. /\ Replaced(at, at, text) \in Seq(Signs)
          /\ Len(Replaced(at, at, text)) = at + Len(text) + Len(line) - at
          /\ \A i \in 1..at : Replaced(at, at, text)[i] = line[i]
          /\ \A i \in 1..Len(text) : Replaced(at, at, text)[at + i] = text[i]
      BY <1>4, <2>2, ReplacedIs
    <3> QED BY <2>3, <3>1
  <2> QED BY <2>1, <2>4
<1>6. line'[caret + 1] = c
  BY <1>4, <1>5
<1>7. Len(line') = Len(line) + 1
  BY <1>2, <1>4, <1>5
<1>8. caret' \in 0..Len(line')
  BY <1>2, <1>3, <1>7
<1> QED BY <1>2, <1>3, <1>5, <1>6, <1>7, <1>8

\* A character of a word leaves the word where it starts; it is in the word.
LEMMA WordGrows ==
    ASSUME line \in Seq(Signs), caret \in 0..Len(line), Edited(Replaced(caret, caret, <<Word>>), caret + 1)
    PROVE  WordStartHere' = WordStartHere /\ WordStartHere \in 0..caret
<1>1. /\ line' \in Seq(Signs) /\ Len(line') = Len(line) + 1 /\ caret' = caret + 1
      /\ caret' \in 0..Len(line') /\ Len(line) \in Nat /\ caret \in Nat
      /\ line'[caret + 1] = Word /\ \A i \in 1..caret : line'[i] = line[i]
  BY TypedAtCaret DEF Signs
<1> DEFINE w == WordStart(line, caret)
<1>2. /\ w \in 0..caret /\ Wordly(line, w, caret)
      /\ w = 0 \/ line[w] # Word
  <2> DEFINE start == w
  <2>1. start = WordStart(line, caret)
    OBVIOUS
  <2> HIDE DEF start
  <2>2. /\ start \in 0..caret /\ Wordly(line, start, caret)
        /\ start = 0 \/ line[start] # Word
    BY <2>1, StartIs
  <2> QED BY <2>1, <2>2
<1> HIDE DEF w
<1>3. Wordly(line', w, caret')
  <2> SUFFICES ASSUME NEW i \in w + 1..caret + 1 PROVE line'[i] = Word
    BY <1>1 DEF Wordly
  <2>1. CASE i = caret + 1
    BY <1>1, <2>1
  <2>2. CASE i # caret + 1
    <3>1. i \in w + 1..caret /\ i \in 1..caret
      BY <1>1, <1>2, <2>2
    <3> QED BY <1>1, <1>2, <3>1 DEF Wordly
  <2> QED BY <2>1, <2>2
<1>4. w = 0 \/ line'[w] # Word
  <2>1. w # 0 => w \in 1..caret
    BY <1>1, <1>2
  <2> QED BY <1>1, <1>2, <2>1
<1>5. w \in 0..caret'
  BY <1>1, <1>2
<1>6. w = WordStart(line', caret')
  BY <1>1, <1>3, <1>4, <1>5, StartIs
<1> QED BY <1>2, <1>6 DEF w, WordStartHere

LEMMA StartIsHere ==
    ASSUME line \in Seq(Signs), caret \in 0..Len(line)
    PROVE  /\ WordStartHere \in 0..caret /\ WordStartHere \in Nat
           /\ WordStartHere # caret => line[caret] = Word
<1> DEFINE start == WordStartHere
<1>1. start = WordStart(line, caret)
  BY DEF WordStartHere
<1> HIDE DEF start
<1>2. start \in 0..caret /\ Wordly(line, start, caret)
  BY <1>1, StartIs
<1>3. caret \in Nat /\ start \in Nat
  BY <1>2, LenProperties
<1>4. start # caret => caret \in start + 1..caret
  BY <1>2, <1>3
<1> QED BY <1>2, <1>3, <1>4 DEF start, Wordly

-----------------------------------------------------------------------------
(***************************************************************************)
(* The invariant of the completion list.                                   *)
(***************************************************************************)
Items == {item \in [filter : Seq(Signs), text : Seq(Signs), edit : Int] :
             item.text = item.filter /\ item.edit >= NowhereIs}
CompletionLists == [is : {"list"}, items : Seq(Items), incomplete : BOOLEAN, start : Nat,
                    query : Seq(Signs), selected : Nat, about : Nat]
Asks == {q \in [is : {"question"}, start : Nat, caret : Nat, current : BOOLEAN, rewrites : BOOLEAN] :
            q.rewrites => q.start > 0}

CompletionTypes ==
    /\ line \in Seq(Signs) /\ caret \in 0..Len(line)
    /\ offers \in {"completion", "signature"} /\ place \in Places
    /\ edited \in BOOLEAN /\ handling \in BOOLEAN
    /\ list \in CompletionLists \cup {Nothing}
    /\ wanted \in {"none", "char", "typed", "incomplete"}
    /\ asked \in Asks \cup {Nothing}
    /\ signature \in Int /\ signing \in BOOLEAN /\ askedSignature \in Asks \cup {Nothing}
    /\ hoping \in BOOLEAN /\ strayed \in BOOLEAN

\* A list has something to show, and one of that is chosen.
Choosing(l) == Shown(l) # <<>> /\ l.selected \in 0..Len(Shown(l)) - 1

\* Between batches it is that of the word before the caret, and what is wanted
\* waits for the question under way.
Narrowed ==
    ~handling =>
        /\ list # Nothing => /\ Keys
                             /\ list.query = Between(line, list.start, caret)
                             /\ IsWord(list.query)
        /\ signature # NowhereIs => InEditor /\ Here /\ caret >= signature
        /\ wanted = "none" \/ asked # Nothing

\* A word hoped for is wanted or being asked about.
Hoped ==
    hoping => /\ place = "editor" /\ offers = "completion" /\ list = Nothing
              /\ WordStartHere # caret => asked # Nothing \/ wanted # "none"

\* Items whose own edit takes away the trigger before the word.
ItemsFor(chars, start) ==
    {item \in Items : item.edit # NowhereIs => start > 0 /\ item.edit = start - 1 /\ chars[start] = Trigger}

\* While the user only types, a list is of the word at the caret and was asked
\* for it, and a question no edit overtook is about what is there now.
ListKept ==
    list # Nothing /\ ~strayed =>
        /\ list.start = WordStartHere /\ list.about = list.start
        /\ list.items \in Seq(ItemsFor(line, list.start))
AskedKept ==
    asked # Nothing /\ asked.current /\ ~edited /\ ~strayed =>
        /\ asked.start = WordStartHere
        /\ asked.rewrites => WordStartHere > 0 /\ line[WordStartHere] = Trigger

ListInv ==
    /\ CompletionTypes
    /\ list # Nothing => Choosing(list)
    /\ Narrowed /\ Hoped /\ ListKept /\ AskedKept

LEMMA NothingIs ==
    /\ \A l \in CompletionLists : l # Nothing
    /\ \A q \in Asks : q # Nothing
  BY DEF CompletionLists, Asks, Nothing

\* The list as the end of a batch leaves it: gone, or narrowed to the word.
LEMMA RefilteredIs ==
    ASSUME line \in Seq(Signs), caret \in 0..Len(line),
           NEW l \in CompletionLists \cup {Nothing},
           l # Nothing => l.selected = 0 \/ Choosing(l),
           NEW r, r = Refiltered(l)
    PROVE  /\ r \in CompletionLists \cup {Nothing}
           /\ r # Nothing =>
                 /\ l # Nothing /\ Choosing(r) /\ Keys
                 /\ r.query = Between(line, r.start, caret) /\ IsWord(r.query)
                 /\ r.start = l.start /\ r.about = l.about /\ r.items = l.items
<1>1. SUFFICES ASSUME r # Nothing
               PROVE  /\ r \in CompletionLists /\ l # Nothing /\ Choosing(r) /\ Keys
                      /\ r.query = Between(line, r.start, caret) /\ IsWord(r.query)
                      /\ r.start = l.start /\ r.about = l.about /\ r.items = l.items
  BY NothingIs
<1> DEFINE typed == Between(line, l.start, caret)
           narrowed == Filtered(l, typed)
<1>2. /\ l # Nothing /\ InWord(l) /\ r = narrowed /\ Shown(narrowed) # <<>>
  BY <1>1 DEF Refiltered, Typed
<1>3. l \in CompletionLists /\ Keys /\ caret >= l.start /\ IsWord(typed)
  BY <1>2 DEF InWord
<1>4. typed \in Seq(Signs)
  <2>1. Len(line) \in Nat /\ l.start \in Nat
    BY <1>3, LenProperties DEF CompletionLists
  <2>2. l.start \in 0..Len(line)
    BY <1>3, <2>1
  <2> QED BY <2>2, BetweenIs
<1> HIDE DEF typed
<1>5. CASE typed = l.query
  <2>1. r = l
    BY <1>2, <1>5 DEF Filtered
  <2>2. Shown(l) # <<>> /\ l.selected \in 0..Len(Shown(l)) - 1
    <3>1. Shown(l) \in Seq(Items)
      <4>1. l.items \in Seq(Items)
        BY <1>3 DEF CompletionLists
      <4>2. Matching(l.items, l.query) \in Seq({item \in Items : MatchesTyped(l.query, item)})
        BY <4>1, MatchingAre
      <4> QED BY <4>2, SeqMonotonic DEF Shown
    <3>2. Shown(l) # <<>>
      BY <1>2, <2>1
    <3>3. Len(Shown(l)) \in Nat \ {0}
      BY <3>1, <3>2, EmptySeq
    <3> QED BY <1>2, <3>2, <3>3 DEF Choosing
  <2> QED BY <1>2, <1>3, <1>5, <2>1, <2>2 DEF Choosing, typed
<1>6. CASE typed # l.query
  <2>1. r = [l EXCEPT !.query = typed, !.selected = 0]
    BY <1>2, <1>6 DEF Filtered
  <2>2. PICK z \in Nat : z = 0
    OBVIOUS
  <2>3. r = [l EXCEPT !.query = typed, !.selected = z]
    BY <2>1, <2>2, Zenon
  <2>4. /\ r \in CompletionLists /\ r.query = typed /\ r.selected = z
        /\ r.start = l.start /\ r.about = l.about /\ r.items = l.items
    BY <1>3, <1>4, <2>3 DEF CompletionLists
  <2>5. Shown(r) \in Seq(Items)
    <3>1. r.items \in Seq(Items)
      BY <2>4 DEF CompletionLists
    <3>2. Matching(r.items, r.query) \in Seq({item \in Items : MatchesTyped(r.query, item)})
      BY <3>1, MatchingAre
    <3> QED BY <3>2, SeqMonotonic DEF Shown
  <2>6. Len(Shown(r)) \in Nat \ {0} /\ Shown(r) # <<>>
    BY <1>2, <2>5, EmptySeq
  <2> QED BY <1>2, <1>3, <2>2, <2>4, <2>6 DEF Choosing, typed
<1> QED BY <1>5, <1>6

\* A step that strays, or closes what is there, leaves nothing to keep.
LEMMA StrayingKeeps ==
    ASSUME ListInv, CompletionTypes', handling' = TRUE, hoping' = FALSE,
           list' = list \/ list' = Nothing,
           ~strayed' => list' = Nothing /\ asked' = Nothing
    PROVE  ListInv'
<1>1. (list # Nothing => Choosing(list))'
  BY DEF ListInv, Choosing
<1>2. Narrowed' /\ Hoped' /\ ListKept' /\ AskedKept'
  BY DEF Narrowed, Hoped, ListKept, AskedKept
<1> QED BY <1>1, <1>2 DEF ListInv

LEMMA ListStarts ==
    ASSUME CompletionInit
    PROVE  ListInv
<1> USE DEF CompletionInit
<1>1. CompletionTypes
  <2>1. <<>> \in Seq(Signs) /\ Len(<<>>) = 0 /\ NowhereIs \in Int
    BY EmptySeq DEF NowhereIs
  <2>2. line \in Seq(Signs) /\ caret \in 0..Len(line)
    BY <2>1
  <2>3. /\ edited \in BOOLEAN /\ handling \in BOOLEAN /\ signing \in BOOLEAN
        /\ hoping \in BOOLEAN /\ strayed \in BOOLEAN
    OBVIOUS
  <2>4. /\ list \in CompletionLists \cup {Nothing} /\ asked \in Asks \cup {Nothing}
        /\ askedSignature \in Asks \cup {Nothing} /\ signature \in Int
        /\ wanted \in {"none", "char", "typed", "incomplete"}
        /\ offers \in {"completion", "signature"} /\ place \in Places
    BY <2>1 DEF Places
  <2> QED BY <2>2, <2>3, <2>4 DEF CompletionTypes
<1>2. Narrowed /\ Hoped /\ ListKept /\ AskedKept
  BY DEF Narrowed, Hoped, ListKept, AskedKept
<1> QED BY <1>1, <1>2 DEF ListInv

LEMMA TypeKeeps ==
    ASSUME ListInv, NEW c \in Typeable, Type(c)
    PROVE  ListInv'
<1>1. /\ CompletionTypes /\ line \in Seq(Signs) /\ caret \in 0..Len(line)
      /\ place = "editor" /\ c \in Signs
      /\ Edited(Replaced(caret, caret, <<c>>), caret + 1)
      /\ list' = (IF c = Word THEN list ELSE Nothing) /\ asked' = asked
      /\ handling' = TRUE /\ edited' = TRUE /\ strayed' = strayed
      /\ offers' = offers /\ place' = place
      /\ hoping' = (offers = "completion" /\ (c = Trigger \/ (c = Word /\ (hoping \/ list = Nothing))))
  BY DEF ListInv, CompletionTypes, Type, Keys, Edited, CompletionTyped, Stays, Typeable, Signs
<1>2. /\ line' \in Seq(Signs) /\ Len(line') = Len(line) + 1 /\ caret' = caret + 1
      /\ caret' \in 0..Len(line') /\ Len(line) \in Nat /\ caret \in Nat
      /\ line'[caret + 1] = c /\ \A i \in 1..caret : line'[i] = line[i]
  BY <1>1, TypedAtCaret
<1>3. wanted' = CASE c = Trigger /\ offers = "completion" -> "char"
                  [] c = Word /\ list = Nothing -> "typed"
                  [] c = Word /\ list # Nothing /\ list.incomplete -> "incomplete"
                  [] OTHER -> wanted
  BY DEF Type, CompletionTyped
<1>4. /\ wanted' \in {"none", "char", "typed", "incomplete"}
      /\ c = Trigger /\ offers = "completion" => wanted' # "none"
      /\ c = Word /\ list = Nothing => wanted' # "none"
  <2>1. wanted \in {"none", "char", "typed", "incomplete"}
    BY <1>1 DEF CompletionTypes
  <2> QED BY <1>3, <2>1 DEF Word, Trigger
<1>5. CompletionTypes'
  <2>1. signature' \in Int /\ signing' \in BOOLEAN /\ askedSignature' \in Asks \cup {Nothing}
    <3>1. /\ signature \in Int /\ signing \in BOOLEAN /\ askedSignature \in Asks \cup {Nothing}
      BY <1>1 DEF CompletionTypes
    <3>1a. SignatureTyped(c)
      BY DEF Type
    <3>2. CASE c = Ends
      <4>1. signature' = NowhereIs /\ signing' = FALSE /\ askedSignature' = Nothing
        BY <3>1a, <3>2 DEF SignatureTyped, CloseSignature
      <4>2. NowhereIs \in Int
        BY DEF NowhereIs
      <4> QED BY <4>1, <4>2
    <3>3. CASE c # Ends
      <4>1. /\ signature' = signature /\ askedSignature' = askedSignature
            /\ signing' = (signing \/ (c = Opens /\ offers = "signature"))
        BY <3>1a, <3>3 DEF SignatureTyped
      <4>2. signing' \in BOOLEAN
        BY <3>1, <4>1
      <4> QED BY <3>1, <4>1, <4>2
    <3> QED BY <3>2, <3>3
  <2>2. hoping' \in BOOLEAN
    BY <1>1
  <2> QED BY <1>1, <1>2, <1>4, <2>1, <2>2 DEF CompletionTypes
<1>6. (list # Nothing => Choosing(list))'
  BY <1>1 DEF ListInv, Choosing
<1>7. Narrowed'
  BY <1>1 DEF Narrowed
<1>8. Hoped'
  <2> SUFFICES ASSUME hoping' = TRUE PROVE Hoped'
    BY <1>5 DEF Hoped, CompletionTypes
  <2>1. offers = "completion" /\ (c = Trigger \/ (c = Word /\ (hoping \/ list = Nothing)))
    <3>1. hoping' = (offers = "completion" /\ (c = Trigger \/ (c = Word /\ (hoping \/ list = Nothing))))
      BY <1>1
    <3>2. hoping'
      OBVIOUS
    <3> QED BY <3>1, <3>2
  <2>2. c = Word => list = Nothing
    <3>1. Hoped
      BY DEF ListInv
    <3>2. hoping => list = Nothing
      BY <3>1 DEF Hoped
    <3>3. c = Word => hoping \/ list = Nothing
      BY <2>1 DEF Word, Trigger
    <3> QED BY <3>2, <3>3
  <2>3. list' = Nothing /\ wanted' # "none"
    BY <1>1, <1>4, <2>1, <2>2 DEF Word, Trigger
  <2> QED BY <1>1, <2>1, <2>3 DEF Hoped
<1>9. ListKept'
  <2> SUFFICES ASSUME list' # Nothing, ~strayed'
               PROVE  /\ list'.start = WordStartHere' /\ list'.about = list'.start
                      /\ list'.items \in Seq(ItemsFor(line', list'.start))
    BY DEF ListKept
  <2>1. c = Word /\ list' = list /\ list # Nothing /\ ~strayed
    BY <1>1
  <2>2. /\ list.start = WordStartHere /\ list.about = list.start
        /\ list.items \in Seq(ItemsFor(line, list.start))
    BY <2>1 DEF ListInv, ListKept
  <2>3. WordStartHere' = WordStartHere /\ WordStartHere \in 0..caret
    BY <1>1, <2>1, WordGrows
  <2>4. ItemsFor(line, list.start) \subseteq ItemsFor(line', list.start)
    <3>1. list.start > 0 => line'[list.start] = line[list.start]
      BY <1>2, <2>2, <2>3
    <3> QED BY <3>1 DEF ItemsFor
  <2> QED BY <2>1, <2>2, <2>3, <2>4, SeqMonotonic
<1>10. AskedKept'
  BY <1>1 DEF AskedKept
<1> QED BY <1>5, <1>6, <1>7, <1>8, <1>9, <1>10 DEF ListInv

\* An action of the user's that strays puts the list away or leaves it.
LEMMA StrayKeeps ==
    ASSUME ListInv, Strays, offers' = offers, place' \in Places,
           line' \in Seq(Signs), caret' \in 0..Len(line'), edited' \in BOOLEAN, handling' = TRUE,
           list' = list \/ list' = Nothing, asked' = asked \/ asked' = Nothing,
           wanted' = wanted \/ wanted' = "none", UNCHANGED signingVars
    PROVE  ListInv'
<1>1. hoping' = FALSE /\ strayed' \in BOOLEAN
  BY DEF Strays
<1>2. ~strayed' => list' = Nothing /\ asked' = Nothing
  BY DEF Strays
<1>3. CompletionTypes
  BY DEF ListInv
<1>4. signature' \in Int /\ signing' \in BOOLEAN /\ askedSignature' \in Asks \cup {Nothing}
  BY <1>3 DEF CompletionTypes, signingVars
<1>5. /\ list' \in CompletionLists \cup {Nothing} /\ asked' \in Asks \cup {Nothing}
      /\ wanted' \in {"none", "char", "typed", "incomplete"}
      /\ offers' \in {"completion", "signature"}
  BY <1>3 DEF CompletionTypes
<1>6. CompletionTypes'
  BY <1>1, <1>4, <1>5 DEF CompletionTypes
<1> QED BY <1>1, <1>2, <1>6, StrayingKeeps

LEMMA PasteKeeps ==
    ASSUME ListInv, PasteWord
    PROVE  ListInv'
<1>1. line \in Seq(Signs) /\ caret \in 0..Len(line) /\ place \in Places /\ Word \in Signs
  BY DEF ListInv, CompletionTypes, Signs
<1>2. Edited(Replaced(caret, caret, <<Word>>), caret + 1)
  BY DEF PasteWord
<1>3. line' \in Seq(Signs) /\ caret' \in 0..Len(line')
  BY <1>1, <1>2, TypedAtCaret
<1>4. /\ Strays /\ UNCHANGED signingVars /\ offers' = offers /\ place' = place
      /\ handling' = TRUE /\ edited' = TRUE /\ list' = list /\ asked' = asked /\ wanted' = wanted
  BY <1>2 DEF PasteWord, Stays, completing, Edited
<1> QED BY <1>1, <1>3, <1>4, StrayKeeps

LEMMA BackspaceKeeps ==
    ASSUME ListInv, Backspace
    PROVE  ListInv'
<1>1. line \in Seq(Signs) /\ caret \in 0..Len(line) /\ place \in Places /\ caret > 0
  BY DEF ListInv, CompletionTypes, Backspace
<1>2. PICK t \in Seq(Signs) : t = <<>> /\ Len(t) = 0
  BY EmptySeq
<1>3. /\ Strays /\ UNCHANGED signingVars /\ offers' = offers /\ place' = place
      /\ handling' = TRUE /\ edited' = TRUE /\ list' = list /\ asked' = asked /\ wanted' = wanted
      /\ line' = Replaced(caret - 1, caret, t) /\ caret' = caret - 1
  BY <1>2 DEF Backspace, Stays, completing, Edited
<1>4. Len(line) \in Nat /\ caret \in Nat /\ caret - 1 \in 0..caret
  BY <1>1, LenProperties
<1>5. line' \in Seq(Signs) /\ Len(line') = caret - 1 + Len(t) + Len(line) - caret
  BY <1>1, <1>3, <1>4, ReplacedIs
<1>6. caret' \in 0..Len(line')
  BY <1>1, <1>2, <1>3, <1>4, <1>5
<1> QED BY <1>1, <1>3, <1>5, <1>6, StrayKeeps

LEMMA MoveKeeps ==
    ASSUME ListInv, NEW col \in 0..MaxLine, MoveCaret(col) \/ Press(col)
    PROVE  ListInv'
<1>1. /\ line \in Seq(Signs) /\ place \in Places /\ edited \in BOOLEAN
  BY DEF ListInv, CompletionTypes
<1>2. /\ Strays /\ UNCHANGED signingVars /\ offers' = offers /\ place' = place /\ line' = line
      /\ handling' = TRUE /\ edited' = edited /\ caret' = col /\ col \in 0..Len(line)
      /\ list' = list \/ list' = Nothing
      /\ asked' = asked \/ asked' = Nothing
      /\ wanted' = wanted \/ wanted' = "none"
  BY DEF MoveCaret, Press, Stays, completing, CloseCompletion
<1> QED BY <1>1, <1>2, StrayKeeps

LEMMA LeavesKeeps ==
    ASSUME ListInv, Leaves
    PROVE  ListInv'
<1>1. /\ line \in Seq(Signs) /\ caret \in 0..Len(line) /\ edited \in BOOLEAN
  BY DEF ListInv, CompletionTypes
<1>2. /\ Strays /\ UNCHANGED signingVars /\ offers' = offers /\ place' \in Places /\ line' = line
      /\ handling' = TRUE /\ edited' = edited /\ caret' = caret
      /\ list' = list /\ asked' = asked /\ wanted' = wanted
  BY DEF Leaves, completing
<1>3. line' \in Seq(Signs) /\ caret' \in 0..Len(line') /\ edited' \in BOOLEAN
  BY <1>1, <1>2
<1> QED BY <1>2, <1>3, StrayKeeps

\* What a list with a choice shows are items of it, and one is chosen.
LEMMA ChosenIs ==
    ASSUME NEW X, NEW l, l.items \in Seq(X), Choosing(l)
    PROVE  Selected(l) \in X /\ MatchesTyped(l.query, Selected(l))
<1> DEFINE Y == {item \in X : MatchesTyped(l.query, item)}
<1>1. Shown(l) \in Seq(Y)
  BY MatchingAre DEF Shown
<1> HIDE DEF Y
<1>2. l.selected + 1 \in 1..Len(Shown(l))
  BY <1>1, LenProperties DEF Choosing
<1>3. Selected(l) \in Y
  BY <1>1, <1>2, ElementOfSeq DEF Selected
<1> QED BY <1>3 DEF Y

\* Where what is accepted goes is before the caret.
LEMMA AcceptStartIs ==
    ASSUME CompletionTypes, NEW item \in Items, list # Nothing, InWord(list)
    PROVE  AcceptStart(item) \in 0..caret
<1>1. caret \in Nat /\ list \in CompletionLists /\ caret >= list.start /\ item.edit \in Int /\ item.edit >= -1
  BY LenProperties DEF CompletionTypes, InWord, Items, NowhereIs
<1>2. list.start \in Nat
  BY <1>1 DEF CompletionLists
<1> QED BY <1>1, <1>2 DEF AcceptStart, NowhereIs

LEMMA AcceptKeeps ==
    ASSUME ListInv, Accept
    PROVE  ListInv'
<1>1. /\ line \in Seq(Signs) /\ caret \in 0..Len(line) /\ edited \in BOOLEAN /\ place \in Places
      /\ CompletionTypes /\ list \in CompletionLists /\ Choosing(list) /\ list # Nothing
  BY DEF ListInv, CompletionTypes, Accept
<1>2. /\ Strays /\ UNCHANGED signingVars /\ offers' = offers /\ place' = place
      /\ handling' = TRUE
  BY DEF Accept, Stays
<1>3. CASE InWord(list)
  <2> DEFINE item == Selected(list)
             start == AcceptStart(item)
  <2>1. item \in Items
    <3>1. list.items \in Seq(Items)
      BY <1>1 DEF CompletionLists
    <3> QED BY <1>1, <3>1, ChosenIs
  <2>2. start \in 0..caret /\ item.text \in Seq(Signs)
    BY <1>1, <1>3, <2>1, AcceptStartIs DEF Items
  <2>3. Edited(Replaced(start, caret, item.text), start + Len(item.text)) /\ CloseCompletion
    BY <1>3 DEF Accept
  <2> HIDE DEF start, item
  <2> DEFINE text == item.text
  <2>4. line' = Replaced(start, caret, text) /\ caret' = start + Len(text) /\ text \in Seq(Signs) /\ edited' = TRUE
    BY <2>2, <2>3 DEF Edited
  <2> HIDE DEF text
  <2>5. /\ line' \in Seq(Signs) /\ Len(line') = start + Len(text) + Len(line) - caret
        /\ Len(text) \in Nat /\ Len(line) \in Nat
    BY <1>1, <2>2, <2>4, ReplacedIs
  <2>6. caret' \in 0..Len(line')
    BY <1>1, <2>2, <2>4, <2>5
  <2>7. list' = Nothing /\ wanted' = "none" /\ asked' = Nothing
    BY <2>3 DEF CloseCompletion
  <2> QED BY <1>1, <1>2, <2>4, <2>5, <2>6, <2>7, StrayKeeps
<1>4. CASE ~InWord(list)
  <2>1. /\ line' = line /\ caret' = caret /\ edited' = edited
        /\ list' = list /\ asked' = asked /\ wanted' = wanted
    BY <1>4 DEF Accept, completing
  <2>2. line' \in Seq(Signs) /\ caret' \in 0..Len(line') /\ edited' \in BOOLEAN
    BY <1>1, <2>1
  <2> QED BY <1>1, <1>2, <2>1, <2>2, StrayKeeps
<1> QED BY <1>3, <1>4

\* A choice moved is one of what is shown.
LEMMA MovedChoiceIs ==
    ASSUME NEW l \in CompletionLists, Choosing(l), NEW delta \in Int,
           NEW r, r = MoveChoice(l, delta)
    PROVE  /\ r \in CompletionLists /\ Choosing(r)
           /\ r.items = l.items /\ r.query = l.query /\ r.start = l.start /\ r.about = l.about
<1> DEFINE n == Len(Shown(l)) - 1
           chosen == Max({0, Min({l.selected + delta, n})})
<1>1. n \in Nat
  <2>1. l.items \in Seq(Items)
    BY DEF CompletionLists
  <2>2. Shown(l) \in Seq({item \in Items : MatchesTyped(l.query, item)})
    BY <2>1, MatchingAre DEF Shown
  <2> QED BY <2>2, EmptySeq DEF Choosing
<1>2. l.selected \in Nat
  BY DEF CompletionLists
<1>3. r = [l EXCEPT !.selected = chosen]
  BY DEF MoveChoice
<1> HIDE DEF n
<1>4. chosen \in 0..n
  <2>1. Min({l.selected + delta, n}) \in Int /\ Min({l.selected + delta, n}) <= n
    BY <1>1, <1>2, LeastOfTwo
  <2> QED BY <1>1, <2>1, MostOfTwo
<1> HIDE DEF chosen
<1>5. /\ r \in CompletionLists /\ r.selected = chosen
      /\ r.items = l.items /\ r.query = l.query /\ r.start = l.start /\ r.about = l.about
  BY <1>1, <1>3, <1>4 DEF CompletionLists
<1>6. Shown(r) = Shown(l)
  BY <1>5 DEF Shown
<1> QED BY <1>4, <1>5, <1>6 DEF Choosing, n

LEMMA ArrowKeeps ==
    ASSUME ListInv, NEW delta \in {-1, 1}, Arrow(delta)
    PROVE  ListInv'
<1>1. CompletionTypes /\ list \in CompletionLists /\ Choosing(list) /\ list # Nothing /\ Hoped /\ ListKept /\ AskedKept
  BY DEF ListInv, CompletionTypes, Arrow
<1>2. /\ line' = line /\ caret' = caret /\ place' = place /\ offers' = offers /\ edited' = edited
      /\ handling' = TRUE /\ wanted' = wanted /\ asked' = asked /\ hoping' = hoping /\ strayed' = strayed
      /\ signature' = signature /\ signing' = signing /\ askedSignature' = askedSignature
      /\ list' = MoveChoice(list, delta)
  BY DEF Arrow, user, signingVars
<1>3. /\ list' \in CompletionLists /\ Choosing(list')
      /\ list'.items = list.items /\ list'.query = list.query
      /\ list'.start = list.start /\ list'.about = list.about
  <2>1. delta \in Int
    OBVIOUS
  <2> QED BY <1>1, <1>2, <2>1, MovedChoiceIs
<1>4. CompletionTypes'
  BY <1>1, <1>2, <1>3 DEF CompletionTypes
<1>5. Narrowed'
  BY <1>2 DEF Narrowed
<1>6. Hoped'
  <2>1. ~hoping
    BY <1>1 DEF Hoped
  <2> QED BY <1>2, <2>1 DEF Hoped
<1>7. WordStartHere' = WordStartHere
  BY <1>2 DEF WordStartHere
<1>8. ListKept' /\ AskedKept'
  BY <1>1, <1>2, <1>3, <1>7 DEF ListKept, AskedKept
<1>9. (list # Nothing => Choosing(list))'
  BY <1>3 DEF Choosing
<1> QED BY <1>4, <1>5, <1>6, <1>8, <1>9 DEF ListInv

LEMMA EscKeeps ==
    ASSUME ListInv, Esc
    PROVE  ListInv'
<1>1. CompletionTypes /\ ListKept /\ AskedKept
  BY DEF ListInv
<1>2. /\ line' = line /\ caret' = caret /\ place' = place /\ offers' = offers /\ edited' = edited
      /\ handling' = TRUE /\ hoping' = FALSE /\ strayed' = strayed
  BY DEF Esc, user
<1>3. \/ /\ list' = Nothing /\ wanted' = "none" /\ asked' = Nothing
         /\ signature' = signature /\ signing' = signing /\ askedSignature' = askedSignature
      \/ /\ signature' = NowhereIs /\ signing' = FALSE /\ askedSignature' = Nothing
         /\ list' = list /\ wanted' = wanted /\ asked' = asked
  BY DEF Esc, CloseCompletion, CloseSignature, signingVars, completing
<1>4. NowhereIs \in Int
  BY DEF NowhereIs
<1>5. CompletionTypes'
  BY <1>1, <1>2, <1>3, <1>4 DEF CompletionTypes
<1>6. Narrowed' /\ Hoped'
  BY <1>2 DEF Narrowed, Hoped
<1>7. WordStartHere' = WordStartHere
  BY <1>2 DEF WordStartHere
<1>8. ListKept' /\ AskedKept'
  BY <1>1, <1>2, <1>3, <1>7 DEF ListKept, AskedKept
<1>9. (list # Nothing => Choosing(list))'
  BY <1>3 DEF ListInv, Choosing
<1> QED BY <1>5, <1>6, <1>8, <1>9 DEF ListInv

\* A question asked now is of the word before the caret.
LEMMA AskIs ==
    ASSUME line \in Seq(Signs), caret \in 0..Len(line)
    PROVE  /\ NewQuestion \in Asks /\ NewQuestion.start = WordStartHere
           /\ NewQuestion.rewrites => WordStartHere > 0 /\ line[WordStartHere] = Trigger
<1>1. WordStartHere \in Nat /\ caret \in Nat
  BY StartIsHere, LenProperties
<1> DEFINE start == WordStartHere
           rewrites == start > 0 /\ line[start] = Trigger
<1>2. NewQuestion = [is |-> "question", start |-> start, caret |-> caret, current |-> TRUE, rewrites |-> rewrites]
  BY DEF NewQuestion
<1>3. rewrites \in BOOLEAN /\ (rewrites => start > 0 /\ line[start] = Trigger)
  OBVIOUS
<1> HIDE DEF rewrites, start
<1>4. NewQuestion.start = start /\ NewQuestion.rewrites = rewrites
  BY <1>2
<1>5. NewQuestion \in [is : {"question"}, start : Nat, caret : Nat, current : BOOLEAN, rewrites : BOOLEAN]
  BY <1>1, <1>2, <1>3 DEF start
<1>6. NewQuestion \in Asks
  BY <1>3, <1>4, <1>5 DEF Asks
<1> QED BY <1>3, <1>4, <1>6 DEF start

\* A question a sync has sent edits past is not current.
LEMMA SentIs ==
    ASSUME NEW q \in Asks \cup {Nothing}, edited \in BOOLEAN
    PROVE  /\ Sent(q) \in Asks \cup {Nothing} /\ (Sent(q) = Nothing) = (q = Nothing)
           /\ q # Nothing =>
                 /\ Sent(q).start = q.start /\ Sent(q).rewrites = q.rewrites
                 /\ Sent(q).current => q.current /\ ~edited
<1>1. CASE q = Nothing
  BY <1>1 DEF Sent
<1>2. CASE q # Nothing
  <2>1. q \in Asks
    BY <1>2
  <2> DEFINE current == q.current /\ ~edited
  <2>2. current \in BOOLEAN /\ (current => q.current /\ ~edited)
    OBVIOUS
  <2>3. Sent(q) = [q EXCEPT !.current = current]
    BY <1>2 DEF Sent
  <2> HIDE DEF current
  <2>4. /\ Sent(q) \in Asks /\ Sent(q).start = q.start /\ Sent(q).rewrites = q.rewrites
        /\ Sent(q).current = current
    BY <2>1, <2>2, <2>3 DEF Asks
  <2> QED BY <1>2, <2>2, <2>4, NothingIs
<1> QED BY <1>1, <1>2

LEMMA SyncKeeps ==
    ASSUME ListInv, SyncLanguageServers
    PROVE  ListInv'
<1>1. /\ CompletionTypes /\ Hoped /\ ListKept /\ AskedKept
      /\ list # Nothing => Choosing(list)
      /\ line \in Seq(Signs) /\ caret \in 0..Len(line) /\ edited \in BOOLEAN
      /\ list \in CompletionLists \cup {Nothing} /\ asked \in Asks \cup {Nothing}
      /\ askedSignature \in Asks \cup {Nothing} /\ signature \in Int
  BY DEF ListInv, CompletionTypes
<1>2. /\ line' = line /\ caret' = caret /\ place' = place /\ offers' = offers /\ edited' = FALSE
      /\ handling' = FALSE /\ hoping' = hoping /\ list' = Refiltered(list)
  BY DEF SyncLanguageServers, SettleCompletion, user
<1>3. strayed' = (strayed /\ (list' # Nothing \/ (asked # Nothing /\ asked' # Nothing)))
  BY DEF SyncLanguageServers
<1>3a. ASSUME ~strayed', list' # Nothing \/ (asked # Nothing /\ asked' # Nothing)  PROVE ~strayed
  BY <1>3, <1>3a
<1>3b. hoping' = hoping
  BY <1>2
<1> DEFINE due == wanted # "none" /\ asked = Nothing
           dueToo == signing /\ askedSignature = Nothing
<1>4. /\ wanted' = (IF due THEN "none" ELSE wanted)
      /\ asked' = IF due /\ HasWord /\ offers = "completion" THEN NewQuestion ELSE Sent(asked)
  BY DEF SyncLanguageServers, SettleCompletion
<1>5. /\ signature' = (IF InCall THEN signature ELSE NowhereIs)
      /\ signing' = (signing /\ ~dueToo)
      /\ askedSignature' = IF dueToo /\ Here /\ offers = "signature" THEN NewQuestion ELSE Sent(askedSignature)
  BY DEF SyncLanguageServers, SettleSignature
<1> HIDE DEF dueToo
<1>6. /\ list' \in CompletionLists \cup {Nothing}
      /\ list' # Nothing =>
            /\ list # Nothing /\ Choosing(list') /\ Keys
            /\ list'.query = Between(line, list'.start, caret) /\ IsWord(list'.query)
            /\ list'.start = list.start /\ list'.about = list.about /\ list'.items = list.items
  <2> DEFINE l == list
             r == list'
  <2>1. l \in CompletionLists \cup {Nothing} /\ (l # Nothing => Choosing(l)) /\ r = Refiltered(l)
    <3>1. l \in CompletionLists \cup {Nothing} /\ (l # Nothing => Choosing(l))
      BY <1>1
    <3>2. r = Refiltered(l)
      BY <1>2
    <3> QED BY <3>1, <3>2
  <2> HIDE DEF l, r
  <2>2. PICK rr : rr = r
    OBVIOUS
  <2>3. PICK ll \in CompletionLists \cup {Nothing} : ll = l
    BY <2>1
  <2>4. /\ rr \in CompletionLists \cup {Nothing}
        /\ rr # Nothing =>
              /\ ll # Nothing /\ Choosing(rr) /\ Keys
              /\ rr.query = Between(line, rr.start, caret) /\ IsWord(rr.query)
              /\ rr.start = ll.start /\ rr.about = ll.about /\ rr.items = ll.items
    BY <1>1, <2>1, <2>2, <2>3, RefilteredIs
  <2> QED BY <2>2, <2>3, <2>4 DEF l, r
<1>7. CompletionTypes'
  <2>1. asked' \in Asks \cup {Nothing}
    BY <1>1, <1>4, AskIs, SentIs
  <2>2. askedSignature' \in Asks \cup {Nothing}
    BY <1>1, <1>5, AskIs, SentIs
  <2>3. signing' \in BOOLEAN
    BY <1>5
  <2>4. signature' \in Int
    <3>1. NowhereIs \in Int
      BY DEF NowhereIs
    <3>2. signature \in Int
      BY <1>1
    <3>3. signature' = signature \/ signature' = NowhereIs
      BY <1>5
    <3> QED BY <3>1, <3>2, <3>3
  <2>5. wanted' \in {"none", "char", "typed", "incomplete"}
    <3>1. wanted' = wanted \/ wanted' = "none"
      BY <1>4
    <3>2. wanted \in {"none", "char", "typed", "incomplete"}
      BY <1>1 DEF CompletionTypes
    <3> QED BY <3>1, <3>2
  <2>6. strayed' \in BOOLEAN /\ edited' \in BOOLEAN /\ handling' \in BOOLEAN
    <3>1. strayed' \in BOOLEAN
      BY <1>3
    <3>2. edited' \in BOOLEAN /\ handling' \in BOOLEAN
      BY <1>2
    <3> QED BY <3>1, <3>2
  <2>7. /\ line' \in Seq(Signs) /\ caret' \in 0..Len(line') /\ offers' \in {"completion", "signature"}
        /\ place' \in Places /\ hoping' \in BOOLEAN
    <3>1. offers \in {"completion", "signature"} /\ place \in Places
      BY <1>1 DEF CompletionTypes
    <3>2. hoping' \in BOOLEAN
      BY <1>1, <1>3b DEF CompletionTypes
    <3> QED BY <1>1, <1>2, <3>1, <3>2
  <2> QED BY <1>6, <2>1, <2>2, <2>3, <2>4, <2>5, <2>6, <2>7 DEF CompletionTypes
<1>8. (list # Nothing => Choosing(list))'
  BY <1>6 DEF Choosing
<1>9. Narrowed'
  <2>1. list' # Nothing => /\ Keys' /\ list'.query = Between(line', list'.start, caret')
                           /\ IsWord(list'.query)
    BY <1>2, <1>6 DEF Keys
  <2>2. signature' # NowhereIs => InEditor' /\ Here' /\ caret' >= signature'
    BY <1>2, <1>5 DEF InCall, InEditor, Here
  <2>3. wanted' = "none" \/ asked' # Nothing
    <3>1. CASE asked = Nothing
      BY <1>4, <3>1
    <3>2. CASE asked # Nothing
      BY <1>1, <1>4, <3>2, SentIs
    <3> QED BY <3>1, <3>2
  <2> QED BY <2>1, <2>2, <2>3 DEF Narrowed
<1>10. WordStartHere' = WordStartHere
  BY <1>2 DEF WordStartHere
<1>11. Hoped'
  <2> SUFFICES ASSUME hoping' PROVE /\ place' = "editor" /\ offers' = "completion" /\ list' = Nothing
                                    /\ WordStartHere' # caret' => asked' # Nothing \/ wanted' # "none"
    BY DEF Hoped
  <2>1. hoping
    BY <1>3b
  <2>2. /\ place = "editor" /\ offers = "completion" /\ list = Nothing
        /\ WordStartHere # caret => asked # Nothing \/ wanted # "none"
    BY <1>1, <2>1 DEF Hoped
  <2>3. list' = Nothing
    BY <1>6, <2>2
  <2>4. ASSUME WordStartHere # caret  PROVE asked' # Nothing
    <3>1. CASE asked # Nothing
      BY <1>1, <1>4, <3>1, SentIs
    <3>2. CASE asked = Nothing
      <4>1. due /\ HasWord
        BY <2>2, <2>4, <3>2 DEF HasWord, InEditor, Here
      <4>2. asked' = NewQuestion
        BY <1>4, <2>2, <4>1
      <4> QED BY <1>1, <4>2, AskIs, NothingIs
    <3> QED BY <3>1, <3>2
  <2> QED BY <1>2, <1>10, <2>2, <2>3, <2>4
<1> HIDE DEF due
<1>12. ListKept'
  <2> SUFFICES ASSUME list' # Nothing, ~strayed'
               PROVE  /\ list'.start = WordStartHere' /\ list'.about = list'.start
                      /\ list'.items \in Seq(ItemsFor(line', list'.start))
    BY DEF ListKept
  <2>1. ~strayed /\ list # Nothing
    BY <1>3a, <1>6
  <2>2. /\ list.start = WordStartHere /\ list.about = list.start
        /\ list.items \in Seq(ItemsFor(line, list.start))
    BY <1>1, <2>1 DEF ListKept
  <2> QED BY <1>2, <1>6, <1>10, <2>2
<1>13. AskedKept'
  <2> SUFFICES ASSUME asked' # Nothing, asked'.current, ~strayed'
               PROVE  /\ asked'.start = WordStartHere'
                      /\ asked'.rewrites => WordStartHere' > 0 /\ line'[WordStartHere'] = Trigger
    BY DEF AskedKept
  <2>1. CASE asked' = NewQuestion
    BY <1>1, <1>2, <1>10, <2>1, AskIs
  <2>2. CASE asked' = Sent(asked)
    <3>1. /\ asked # Nothing /\ asked'.start = asked.start /\ asked'.rewrites = asked.rewrites
          /\ asked.current /\ ~edited
      BY <1>1, <2>2, SentIs
    <3>2. ~strayed
      <4>1. asked' # Nothing
        OBVIOUS
      <4> QED BY <1>3a, <3>1, <4>1
    <3>3. /\ asked.start = WordStartHere
          /\ asked.rewrites => WordStartHere > 0 /\ line[WordStartHere] = Trigger
      BY <1>1, <3>1, <3>2 DEF AskedKept
    <3> QED BY <1>2, <1>10, <3>1, <3>3
  <2> QED BY <1>4, <2>1, <2>2
<1> QED BY <1>7, <1>8, <1>9, <1>11, <1>12, <1>13 DEF ListInv

\* What a server offers for a question.
LEMMA OfferedIs ==
    ASSUME NEW q \in Asks, NEW X, Plain \in X, q.rewrites => Rewriting(q.start - 1) \in X
    PROVE  Offered(q) \in Seq(X)
<1>1. PICK a \in X : a = Plain
  OBVIOUS
<1>2. CASE q.rewrites
  <2>1. PICK b \in X : b = Rewriting(q.start - 1)
    BY <1>2
  <2>2. Offered(q) = <<b, a>>
    BY <1>1, <1>2, <2>1 DEF Offered
  <2> QED BY <2>2
<1>3. CASE ~q.rewrites
  <2>1. Offered(q) = <<a>>
    BY <1>1, <1>3 DEF Offered
  <2> QED BY <2>1
<1> QED BY <1>2, <1>3

LEMMA PlainIs ==
    Plain \in Items /\ Plain.edit = NowhereIs
<1>1. PICK word \in Seq(Signs) : word = <<Word, Word>>
  <2>1. PICK sign \in Signs : sign = Word
    BY DEF Signs
  <2>2. <<sign, sign>> \in Seq(Signs)
    OBVIOUS
  <2> QED BY <2>1, <2>2
<1>2. PICK none \in Int : none = NowhereIs
  BY DEF NowhereIs
<1>3. Plain = [filter |-> word, text |-> word, edit |-> none]
  BY <1>1, <1>2 DEF Plain
<1>4. none >= NowhereIs
  BY <1>2
<1>5. Plain \in Items
  BY <1>3, <1>4 DEF Items
<1>6. Plain.edit = none
  BY <1>3
<1> QED BY <1>2, <1>5, <1>6

LEMMA RewritingIs ==
    ASSUME NEW at \in Nat
    PROVE  Rewriting(at) \in Items /\ Rewriting(at).edit = at
<1>1. <<Word>> \in Seq(Signs)
  BY DEF Signs
<1> QED BY <1>1 DEF Rewriting, Items, NowhereIs

LEMMA OfferedFits ==
    ASSUME NEW q \in Asks
    PROVE  /\ Offered(q) \in Seq(Items)
           /\ (q.rewrites => line[q.start] = Trigger) => Offered(q) \in Seq(ItemsFor(line, q.start))
<1>1. q.start \in Nat /\ (q.rewrites => q.start > 0)
  BY DEF Asks
<1>2. Plain \in Items /\ Plain.edit = NowhereIs
  BY PlainIs
<1>3. q.rewrites => q.start - 1 \in Nat
  BY <1>1
<1>4. q.rewrites => Rewriting(q.start - 1) \in Items /\ Rewriting(q.start - 1).edit = q.start - 1
  BY <1>3, RewritingIs
<1>5. Plain \in ItemsFor(line, q.start)
  BY <1>2 DEF ItemsFor
<1>6. ASSUME q.rewrites => line[q.start] = Trigger
      PROVE  q.rewrites => Rewriting(q.start - 1) \in ItemsFor(line, q.start)
  BY <1>1, <1>4, <1>6 DEF ItemsFor
<1> QED BY <1>2, <1>4, <1>5, <1>6, OfferedIs

\* What comes of it: all of it, some of it or none.
LEMMA AnswersAre ==
    ASSUME NEW X, NEW q, Offered(q) \in Seq(X), NEW answer \in Answers(q)
    PROVE  answer.items \in Seq(X) /\ answer.incomplete \in BOOLEAN
<1> DEFINE typed == [i \in 1..q.caret - q.start |-> Word]
<1>1. Matching(Offered(q), typed) \in Seq(X)
  <2> HIDE DEF typed
  <2>1. PICK items \in Seq(X) : items = Offered(q)
    OBVIOUS
  <2>2. Matching(items, typed) \in Seq({item \in X : MatchesTyped(typed, item)})
    BY MatchingAre
  <2>3. Matching(items, typed) \in Seq(X)
    BY <2>2, SeqMonotonic
  <2> QED BY <2>1, <2>3
<1> DEFINE all == Offered(q)
           some == Matching(Offered(q), typed)
<1>2. \/ answer = [items |-> all, incomplete |-> FALSE]
      \/ answer = [items |-> <<>>, incomplete |-> FALSE]
      \/ answer = [items |-> some, incomplete |-> TRUE]
  BY DEF Answers
<1> HIDE DEF typed, all, some
<1>3. answer.items = all \/ answer.items = <<>> \/ answer.items = some
  BY <1>2
<1>4. answer.incomplete = FALSE \/ answer.incomplete = TRUE
  BY <1>2
<1>5. <<>> \in Seq(X)
  BY EmptySeq
<1> QED BY <1>1, <1>3, <1>4, <1>5 DEF all, some

\* A list that is new has nothing typed of it, and its first item chosen.
LEMMA NewListIs ==
    ASSUME line \in Seq(Signs), caret \in 0..Len(line),
           NEW q \in Asks, NEW items \in Seq(Items), NEW incomplete \in BOOLEAN,
           NEW l, l = NewList(q, items, incomplete)
    PROVE  /\ l \in CompletionLists /\ l.selected = 0
           /\ l.start = WordStartHere /\ l.about = q.start /\ l.items = items
<1>1. WordStartHere \in Nat /\ q.start \in Nat
  BY StartIsHere DEF Asks
<1>2. PICK query \in Seq(Signs) : query = <<>>
  BY EmptySeq
<1>3. PICK z \in Nat : z = 0
  OBVIOUS
<1> DEFINE start == WordStartHere
<1>4. l = [is |-> "list", items |-> items, incomplete |-> incomplete, start |-> start,
           query |-> query, selected |-> z, about |-> q.start]
  BY <1>2, <1>3 DEF NewList
<1>5. start \in Nat
  BY <1>1
<1> HIDE DEF start
<1>6. l \in CompletionLists
  BY <1>1, <1>4, <1>5 DEF CompletionLists
<1>7. l.selected = z /\ l.start = start /\ l.about = q.start /\ l.items = items
  BY <1>4
<1> QED BY <1>3, <1>6, <1>7 DEF start

\* An answer that is taken: the list is of the word before the caret, and of
\* what was asked if no edit came between.
LEMMA TakenKeeps ==
    ASSUME ListInv, asked # Nothing, CompletionAnswered, IsCurrent(asked)
    PROVE  ListInv'
<1>1. /\ CompletionTypes /\ AskedKept /\ line \in Seq(Signs) /\ caret \in 0..Len(line)
      /\ edited \in BOOLEAN /\ strayed \in BOOLEAN /\ asked \in Asks /\ asked.current
  BY DEF ListInv, CompletionTypes, IsCurrent
<1>2. PICK answer \in Answers(asked) :
         list' = Refiltered(IF answer.items = <<>> THEN Nothing
                            ELSE NewList(asked, answer.items, answer.incomplete))
  BY DEF CompletionAnswered
<1>3. /\ line' = line /\ caret' = caret /\ place' = place /\ offers' = offers /\ edited' = edited
      /\ handling' = TRUE /\ wanted' = wanted /\ asked' = Nothing /\ hoping' = FALSE
      /\ signature' = signature /\ signing' = signing /\ askedSignature' = askedSignature
  BY DEF CompletionAnswered, user, signingVars
<1>4. strayed' = (strayed \/ edited)
  BY DEF CompletionAnswered
<1>5. strayed' \in BOOLEAN /\ (~strayed' => ~strayed /\ ~edited)
  BY <1>4
<1> DEFINE l == IF answer.items = <<>> THEN Nothing
                ELSE NewList(asked, answer.items, answer.incomplete)
<1>6. /\ l \in CompletionLists \cup {Nothing}
      /\ l # Nothing => /\ l.selected = 0 /\ l.start = WordStartHere /\ l.about = asked.start
                        /\ l.items = answer.items
  <2>1. CASE answer.items = <<>>
    BY <2>1
  <2>2. CASE answer.items # <<>>
    <3>1. Offered(asked) \in Seq(Items)
      BY <1>1, OfferedFits
    <3>2. answer.items \in Seq(Items) /\ answer.incomplete \in BOOLEAN
      BY <3>1, AnswersAre
    <3>3. PICK items \in Seq(Items), incomplete \in BOOLEAN : items = answer.items /\ incomplete = answer.incomplete
      BY <3>2
    <3>4. l = NewList(asked, items, incomplete)
      BY <2>2, <3>3
    <3> HIDE DEF l
    <3>5. /\ l \in CompletionLists /\ l.selected = 0
          /\ l.start = WordStartHere /\ l.about = asked.start /\ l.items = items
      BY <1>1, <3>4, NewListIs
    <3> QED BY <3>3, <3>5
  <2> QED BY <2>1, <2>2
<1>7. list' = Refiltered(l)
  BY <1>2
<1> HIDE DEF l
<1>8. /\ list' \in CompletionLists \cup {Nothing}
      /\ list' # Nothing =>
            /\ l # Nothing /\ Choosing(list') /\ Keys
            /\ list'.query = Between(line, list'.start, caret) /\ IsWord(list'.query)
            /\ list'.start = l.start /\ list'.about = l.about /\ list'.items = l.items
  <2>1. PICK r : r = list'
    OBVIOUS
  <2>2. /\ r \in CompletionLists \cup {Nothing}
        /\ r # Nothing =>
              /\ l # Nothing /\ Choosing(r) /\ Keys
              /\ r.query = Between(line, r.start, caret) /\ IsWord(r.query)
              /\ r.start = l.start /\ r.about = l.about /\ r.items = l.items
    BY <1>1, <1>6, <1>7, <2>1, RefilteredIs
  <2> QED BY <2>1, <2>2
<1>9. CompletionTypes'
  BY <1>1, <1>3, <1>5, <1>8 DEF CompletionTypes
<1>10. (list # Nothing => Choosing(list))'
  BY <1>8 DEF Choosing
<1>11. Narrowed' /\ Hoped' /\ AskedKept'
  BY <1>3 DEF Narrowed, Hoped, AskedKept
<1>12. ListKept'
  <2> SUFFICES ASSUME list' # Nothing, ~strayed'
               PROVE  /\ list'.start = WordStartHere' /\ list'.about = list'.start
                      /\ list'.items \in Seq(ItemsFor(line', list'.start))
    BY DEF ListKept
  <2>1. ~strayed /\ ~edited
    BY <1>5
  <2>2. asked.start = WordStartHere /\ (asked.rewrites => line[asked.start] = Trigger)
    BY <1>1, <2>1 DEF AskedKept
  <2>3. Offered(asked) \in Seq(ItemsFor(line, asked.start))
    BY <1>1, <2>2, OfferedFits
  <2>4. answer.items \in Seq(ItemsFor(line, asked.start))
    BY <2>3, AnswersAre
  <2>5. /\ list'.start = WordStartHere /\ list'.about = asked.start /\ list'.items = answer.items
    BY <1>6, <1>8
  <2>6. WordStartHere' = WordStartHere
    BY <1>3 DEF WordStartHere
  <2> QED BY <1>3, <2>2, <2>4, <2>5, <2>6
<1> QED BY <1>9, <1>10, <1>11, <1>12 DEF ListInv

\* A step that takes no answer and leaves the line and its list alone keeps
\* what it does not give up.
LEMMA QuietKeeps ==
    ASSUME ListInv, UNCHANGED <<offers, user, edited, list>>, handling' = TRUE,
           strayed' = strayed, asked' = asked \/ asked' = Nothing,
           wanted' \in {"none", "char", "typed", "incomplete"},
           hoping' = FALSE \/ (hoping' = hoping /\ ((asked' = asked /\ wanted' = wanted) \/ wanted' # "none")),
           signature' \in Int, signing' \in BOOLEAN, askedSignature' \in Asks \cup {Nothing}
    PROVE  ListInv'
<1>1. CompletionTypes /\ Hoped /\ ListKept /\ AskedKept
  BY DEF ListInv
<1>2. /\ line' = line /\ caret' = caret /\ place' = place /\ offers' = offers /\ edited' = edited
      /\ list' = list
  BY DEF user
<1>3. hoping' \in BOOLEAN
  BY <1>1 DEF CompletionTypes
<1>4. CompletionTypes'
  BY <1>1, <1>2, <1>3 DEF CompletionTypes
<1>5. (list # Nothing => Choosing(list))'
  BY <1>2 DEF ListInv, Choosing
<1>6. Narrowed'
  BY DEF Narrowed
<1>7. WordStartHere' = WordStartHere
  BY <1>2 DEF WordStartHere
<1>8. ListKept' /\ AskedKept'
  BY <1>1, <1>2, <1>7 DEF ListKept, AskedKept
<1>9. Hoped'
  <2> SUFFICES ASSUME hoping' PROVE Hoped'
    BY DEF Hoped
  <2>1. hoping /\ ((asked' = asked /\ wanted' = wanted) \/ wanted' # "none")
    OBVIOUS
  <2>2. /\ place = "editor" /\ offers = "completion" /\ list = Nothing
        /\ WordStartHere # caret => asked # Nothing \/ wanted # "none"
    BY <1>1, <2>1 DEF Hoped
  <2> QED BY <1>2, <1>7, <2>1, <2>2 DEF Hoped
<1> QED BY <1>4, <1>5, <1>6, <1>8, <1>9 DEF ListInv

LEMMA AnswerKeeps ==
    ASSUME ListInv, CompletionAnswered \/ CompletionModified \/ CompletionRefused
    PROVE  ListInv'
<1>1. /\ CompletionTypes /\ signature \in Int /\ signing \in BOOLEAN
      /\ askedSignature \in Asks \cup {Nothing}
      /\ wanted \in {"none", "char", "typed", "incomplete"}
  BY DEF ListInv, CompletionTypes
<1>2. CASE CompletionAnswered /\ IsCurrent(asked)
  <2>1. asked # Nothing
    BY <1>2 DEF CompletionAnswered
  <2> QED BY <1>2, <2>1, TakenKeeps
<1>3. CASE (CompletionAnswered /\ ~IsCurrent(asked)) \/ CompletionModified
  <2>1. /\ UNCHANGED <<offers, user, edited, list>> /\ UNCHANGED signingVars /\ handling' = TRUE
        /\ strayed' = strayed /\ asked' = Nothing /\ hoping' = hoping /\ CompleteAgain
    BY <1>3 DEF CompletionAnswered, CompletionModified
  <2>2. wanted' \in {"none", "char", "typed", "incomplete"} /\ wanted' # "none"
    BY <1>1, <2>1 DEF CompleteAgain
  <2>3. signature' = signature /\ signing' = signing /\ askedSignature' = askedSignature
    BY <2>1 DEF signingVars
  <2> QED BY <1>1, <2>1, <2>2, <2>3, QuietKeeps
<1>4. CASE CompletionRefused
  <2>1. /\ UNCHANGED <<offers, user, edited, list>> /\ handling' = TRUE
        /\ strayed' = strayed /\ asked' = Nothing /\ hoping' = FALSE /\ wanted' = wanted
        /\ signature' = signature /\ signing' = signing /\ askedSignature' = askedSignature
    BY <1>4 DEF CompletionRefused, signingVars
  <2> QED BY <1>1, <2>1, QuietKeeps
<1> QED BY <1>2, <1>3, <1>4

LEMMA SignatureKeeps ==
    ASSUME ListInv, SignatureAnswered \/ SignatureModified
    PROVE  ListInv'
<1>1. /\ signature \in Int /\ signing \in BOOLEAN /\ askedSignature \in Asks \cup {Nothing}
      /\ wanted \in {"none", "char", "typed", "incomplete"} /\ NowhereIs \in Int
  BY DEF ListInv, CompletionTypes, NowhereIs
<1>2. /\ UNCHANGED <<offers, user, edited, list>> /\ handling' = TRUE
      /\ strayed' = strayed /\ asked' = asked /\ hoping' = hoping /\ wanted' = wanted
      /\ askedSignature' = Nothing /\ askedSignature # Nothing
  BY DEF SignatureAnswered, SignatureModified, completing
<1>3. askedSignature.caret \in Int
  BY <1>1, <1>2 DEF Asks
<1>4. signing' = signing \/ signing' = TRUE
  BY DEF SignatureAnswered, SignatureModified
<1>5. signature' = signature \/ signature' \in {NowhereIs, IF signature # NowhereIs THEN signature ELSE askedSignature.caret}
  BY DEF SignatureAnswered, SignatureModified
<1>6. signature' \in Int /\ signing' \in BOOLEAN
  BY <1>1, <1>3, <1>4, <1>5
<1> QED BY <1>1, <1>2, <1>6, QuietKeeps

\* Every step of the completion keeps its invariant.
LEMMA CompletionKeeps ==
    ASSUME ListInv, CompletionNext
    PROVE  ListInv'
<1>1. \A c \in Typeable : Type(c) => ListInv'
  BY TypeKeeps
<1>2. \A col \in 0..MaxLine : MoveCaret(col) \/ Press(col) => ListInv'
  BY MoveKeeps
<1>3. \A delta \in {-1, 1} : Arrow(delta) => ListInv'
  BY ArrowKeeps
<1>4. CASE PasteWord \/ Backspace \/ Leaves
  BY <1>4, PasteKeeps, BackspaceKeeps, LeavesKeeps
<1>5. CASE Esc \/ Accept \/ SyncLanguageServers
  BY <1>5, EscKeeps, AcceptKeeps, SyncKeeps
<1>6. CASE CompletionAnswered \/ CompletionModified \/ CompletionRefused
  BY <1>6, AnswerKeeps
<1>7. CASE SignatureAnswered \/ SignatureModified
  BY <1>7, SignatureKeeps
<1> QED BY <1>1, <1>2, <1>3, <1>4, <1>5, <1>6, <1>7 DEF CompletionNext

LEMMA UnchangedKeeps ==
    ASSUME ListInv, UNCHANGED completionVars
    PROVE  ListInv'
<1>1. /\ line' = line /\ caret' = caret /\ place' = place /\ offers' = offers /\ edited' = edited
      /\ handling' = handling /\ wanted' = wanted /\ asked' = asked /\ list' = list
  BY DEF completionVars, user, completing
<1>2. hoping' = hoping /\ strayed' = strayed
  BY DEF completionVars
<1>3. signature' = signature /\ signing' = signing /\ askedSignature' = askedSignature
  BY DEF completionVars, signingVars
<1>4. WordStartHere' = WordStartHere /\ Keys' = Keys /\ InEditor' = InEditor /\ Here' = Here
  BY <1>1 DEF WordStartHere, Keys, InEditor, Here
<1>5. CompletionTypes'
  BY <1>1, <1>2, <1>3 DEF ListInv, CompletionTypes
<1>6. (list # Nothing => Choosing(list))'
  BY <1>1 DEF ListInv, Choosing
<1>7. Narrowed'
  BY <1>1, <1>3, <1>4 DEF ListInv, Narrowed
<1>8. Hoped'
  BY <1>1, <1>2, <1>4 DEF ListInv, Hoped
<1>9. ListKept' /\ AskedKept'
  BY <1>1, <1>2, <1>4 DEF ListInv, ListKept, AskedKept
<1> QED BY <1>5, <1>6, <1>7, <1>8, <1>9 DEF ListInv

-----------------------------------------------------------------------------
(***************************************************************************)
(* What the invariants come to.                                            *)
(***************************************************************************)
LEMMA WordFits ==
    ASSUME ListInv
    PROVE  ListFitsTheWord /\ WordIsAsked
<1>1. ListFitsTheWord
  BY DEF ListInv, Narrowed, Choosing, ListFitsTheWord
<1>2. WordIsAsked
  BY DEF ListInv, Narrowed, Hoped, WordIsAsked
<1> QED BY <1>1, <1>2

\* What goes over the word that was typed is what goes after it and completes it.
LEMMA GhostCompletes ==
    ASSUME line \in Seq(Signs), caret \in 0..Len(line), NEW start \in 0..caret,
           NEW text \in Seq(Signs), NEW typed, typed = Between(line, start, caret),
           IsPrefix(typed, text)
    PROVE  Replaced(start, caret, text)
         = Replaced(caret, caret, Between(text, Len(typed), Len(text)))
<1>1. /\ Len(line) \in Nat /\ Len(text) \in Nat /\ caret \in Nat /\ start \in Nat
      /\ start <= caret /\ caret <= Len(line)
  BY LenProperties
<1>2. /\ 0 \in 0..Len(line) /\ start \in 0..Len(line) /\ caret \in 0..Len(line)
      /\ Len(line) \in 0..Len(line)
  BY <1>1
<1>3. PICK before \in Seq(Signs) : before = Between(line, 0, start)
  BY <1>2, BetweenIs
<1>4. PICK word \in Seq(Signs) : word = typed
  BY <1>2, BetweenIs
<1>5. PICK after \in Seq(Signs) : after = Between(line, caret, Len(line))
  BY <1>2, BetweenIs
<1>6. Between(line, 0, caret) = before \o word
  <2>1. /\ 1 \in 1..Len(line) + 1 /\ start \in 1 - 1..Len(line) /\ caret \in start..Len(line)
    BY <1>1
  <2>2. SubSeq(line, 1, start) \o SubSeq(line, start + 1, caret) = SubSeq(line, 1, caret)
    BY <2>1, ConcatAdjacentSubSeq
  <2>3. 0 + 1 = 1
    OBVIOUS
  <2> QED BY <1>3, <1>4, <2>2, <2>3 DEF Between
<1>7. Len(word) \in Nat /\ Len(word) <= Len(text) /\ SubSeq(word, 1, Len(word)) = SubSeq(text, 1, Len(word))
  BY <1>4, LenProperties DEF IsPrefix
<1>8. PICK rest \in Seq(Signs) : rest = Between(text, Len(word), Len(text))
  <2>1. Len(word) \in 0..Len(text) /\ Len(text) \in 0..Len(text)
    BY <1>1, <1>7
  <2> QED BY <2>1, BetweenIs
<1>9. word \o rest = text
  <2>1. /\ 1 \in 1..Len(text) + 1 /\ Len(word) \in 1 - 1..Len(text) /\ Len(text) \in Len(word)..Len(text)
    BY <1>1, <1>7
  <2>2. SubSeq(text, 1, Len(word)) \o SubSeq(text, Len(word) + 1, Len(text)) = SubSeq(text, 1, Len(text))
    BY <2>1, ConcatAdjacentSubSeq
  <2>3. SubSeq(word, 1, Len(word)) = word
    OBVIOUS
  <2>4. SubSeq(text, 1, Len(text)) = text
    OBVIOUS
  <2> QED BY <1>7, <1>8, <2>2, <2>3, <2>4 DEF Between
<1>10. Replaced(start, caret, text) = (before \o text) \o after
  BY <1>3, <1>5 DEF Replaced
<1>11. Replaced(caret, caret, rest) = ((before \o word) \o rest) \o after
  BY <1>5, <1>6 DEF Replaced
<1>12. (before \o word) \o rest = before \o (word \o rest)
  BY ConcatAssociative
<1> QED BY <1>4, <1>8, <1>9, <1>10, <1>11, <1>12

LEMMA AcceptFits ==
    ASSUME ListInv, Accept, list # Nothing, ~handling, ~strayed
    PROVE  LET item == Selected(list)
           IN  /\ list.start = WordStartHere /\ list.about = list.start
               /\ MatchesTyped(Between(line, list.start, caret), item)
               /\ item.edit # NowhereIs =>
                     item.edit = list.start - 1 /\ line[item.edit + 1] = Trigger
               /\ item.edit = NowhereIs => line' = Replaced(caret, caret, Ghost(list))
<1> DEFINE item == Selected(list)
<1>1. /\ line \in Seq(Signs) /\ caret \in 0..Len(line) /\ list \in CompletionLists /\ Choosing(list)
  BY DEF ListInv, CompletionTypes
<1>2. /\ Keys /\ list.query = Between(line, list.start, caret) /\ IsWord(list.query)
  BY DEF ListInv, Narrowed
<1>3. /\ list.start = WordStartHere /\ list.about = list.start
      /\ list.items \in Seq(ItemsFor(line, list.start))
  BY DEF ListInv, ListKept
<1>4. list.start \in 0..caret /\ list.start \in Nat /\ caret \in Nat
  BY <1>1, <1>3, StartIsHere, LenProperties
<1>5. item \in ItemsFor(line, list.start) /\ MatchesTyped(list.query, item)
  <2>1. PICK X : X = ItemsFor(line, list.start)
    OBVIOUS
  <2>2. Selected(list) \in X /\ MatchesTyped(list.query, Selected(list))
    <3>1. PICK l : l = list
      OBVIOUS
    <3>2. l.items \in Seq(X) /\ Choosing(l)
      BY <1>1, <1>3, <2>1, <3>1
    <3>3. Selected(l) \in X /\ MatchesTyped(l.query, Selected(l))
      BY <3>2, ChosenIs
    <3> QED BY <3>1, <3>3
  <2> QED BY <2>1, <2>2
<1> HIDE DEF item
<1>6. /\ item.edit # NowhereIs => /\ item.edit = list.start - 1 /\ list.start \in Nat
                                  /\ line[list.start] = Trigger
      /\ item.text \in Seq(Signs) /\ item.text = item.filter
  BY <1>4, <1>5 DEF ItemsFor, Items
<1>7. item.edit # NowhereIs => item.edit + 1 = list.start
  BY <1>6
<1>8. ASSUME item.edit = NowhereIs  PROVE line' = Replaced(caret, caret, Ghost(list))
  <2>1. InWord(list)
    BY <1>2, <1>4 DEF InWord
  <2>2. line' = Replaced(AcceptStart(item), caret, item.text)
    BY <2>1 DEF Accept, Edited, item
  <2>3. AcceptStart(item) = list.start
    BY <1>8 DEF AcceptStart
  <2>4. IsPrefix(list.query, item.text)
    BY <1>5, <1>6 DEF MatchesTyped
  <2>5. Ghost(list) = Between(item.text, Len(list.query), Len(item.text))
    BY <2>4 DEF Ghost, item
  <2>6. PICK text \in Seq(Signs) : text = item.text
    BY <1>6
  <2>7. PICK start \in 0..caret : start = list.start
    BY <1>4
  <2>8. PICK typed : typed = list.query
    OBVIOUS
  <2>9. typed = Between(line, start, caret) /\ IsPrefix(typed, text)
    BY <1>2, <2>4, <2>6, <2>7, <2>8
  <2>10. Replaced(start, caret, text) = Replaced(caret, caret, Between(text, Len(typed), Len(text)))
    BY <1>1, <2>9, GhostCompletes
  <2> QED BY <2>2, <2>3, <2>5, <2>6, <2>7, <2>8, <2>10
<1> QED BY <1>2, <1>3, <1>5, <1>6, <1>7, <1>8 DEF item

-----------------------------------------------------------------------------
(***************************************************************************)
(* Where the list goes.                                                    *)
(***************************************************************************)
\* In a pane from any row to any other, for a caret on any row of it.
LEMMA PlaceIs ==
    ASSUME NEW top \in Int, NEW bottom \in Int, NEW y \in top..bottom - 1,
           NEW count \in Nat \ {0}, NEW selected \in 0..count - 1,
           NEW box, box = ListPlace(top, bottom, y, count, selected)
    PROVE  /\ y \notin box.rows \cup SignatureRows(top, bottom, y)
           /\ box.rows \subseteq top..bottom - 1
           /\ box.visible > 0 => \E row \in box.rows : ItemAt(box, count, row) = selected
<1> DEFINE needed == Least(count, MostRows) + 2
           below == Most(0, bottom - (y + 2))
           above == Most(0, y - top - 1)
           under == needed <= below \/ below >= above
           height == Least(needed, IF under THEN below ELSE above)
           at == IF under THEN y + 2 ELSE y - 1 - height
           visible == Most(0, height - 2)
           first == Most(0, selected + 1 - visible)
<1>1. box = [rows |-> (at..at + height - 1) \cap (top..bottom - 1), at |-> at,
             visible |-> visible, first |-> first]
  BY DEF ListPlace, First
<1>2. needed \in 3..5
  <2>1. needed = (IF count <= MostRows THEN count ELSE MostRows) + 2
    BY LeastOfTwo DEF Least, MostRows
  <2> QED BY <2>1 DEF MostRows
<1>3. /\ below = IF 0 >= bottom - (y + 2) THEN 0 ELSE bottom - (y + 2)
      /\ above = IF 0 >= y - top - 1 THEN 0 ELSE y - top - 1
  <2>1. bottom - (y + 2) \in Int /\ y - top - 1 \in Int
    OBVIOUS
  <2> QED BY <2>1, MostOfTwo DEF Most
<1> HIDE DEF needed, below, above
<1>4. below \in Nat /\ above \in Nat
  BY <1>3
<1> DEFINE room == IF under THEN below ELSE above
<1>5. room \in Nat /\ (under => room = below) /\ (~under => room = above)
  BY <1>4
<1>6. height \in Nat /\ height <= room
  <2>1. height = Least(needed, room)
    OBVIOUS
  <2> HIDE DEF height, room
  <2>2. height = IF needed <= room THEN needed ELSE room
    BY <1>2, <1>5, <2>1, LeastOfTwo DEF Least
  <2> QED BY <1>2, <1>5, <2>2
<1>7. under \in BOOLEAN /\ at = IF under THEN y + 2 ELSE y - 1 - height
  OBVIOUS
<1> HIDE DEF under, height, room, at
<1>8. visible \in Nat /\ (visible > 0 => visible = height - 2)
  <2>1. visible = IF 0 >= height - 2 THEN 0 ELSE height - 2
    BY <1>6, MostOfTwo DEF Most
  <2> HIDE DEF visible
  <2> QED BY <1>6, <2>1
<1> HIDE DEF visible
<1>9. first \in Nat /\ (visible > 0 => first <= selected /\ selected + 1 - first <= visible)
  <2>1. first = IF 0 >= selected + 1 - visible THEN 0 ELSE selected + 1 - visible
    BY <1>8, MostOfTwo DEF Most
  <2> HIDE DEF first
  <2>2. selected \in Nat /\ visible \in Nat
    BY <1>8
  <2> QED BY <2>1, <2>2
<1> HIDE DEF first
<1>10. /\ box.rows = (at..at + height - 1) \cap (top..bottom - 1)
       /\ box.at = at /\ box.visible = visible /\ box.first = first
  BY <1>1
<1>11. at \in Int /\ (at > y \/ at + height - 1 < y)
  BY <1>6, <1>7
<1>12. y \notin box.rows
  BY <1>6, <1>10, <1>11
<1>13. y \notin SignatureRows(top, bottom, y)
  BY DEF SignatureRows, BoxHeight
<1>14. ASSUME visible > 0  PROVE \E row \in box.rows : ItemAt(box, count, row) = selected
  <2> DEFINE row == at + 1 + (selected - first)
  <2>1. height >= 3 /\ visible = height - 2
    BY <1>6, <1>8, <1>14
  <2>2. at >= top /\ at + height <= bottom
    <3>1. CASE under
      BY <1>3, <1>5, <1>6, <1>7, <2>1, <3>1
    <3>2. CASE ~under
      BY <1>3, <1>5, <1>6, <1>7, <2>1, <3>2
    <3> QED BY <3>1, <3>2
  <2>3. row \in Int /\ row > at /\ row <= at + visible
    BY <1>8, <1>9, <1>11, <1>14
  <2>4. row \in (at..at + height - 1) \cap (top..bottom - 1)
    BY <1>6, <1>11, <2>1, <2>2, <2>3
  <2>5. first + row - (at + 1) = selected /\ selected < count
    BY <1>9, <1>11
  <2> HIDE DEF row
  <2>6. ItemAt(box, count, row) = selected
    BY <1>10, <2>3, <2>5 DEF ItemAt
  <2> QED BY <1>10, <2>4, <2>6
<1>15. box.rows \subseteq top..bottom - 1
  BY <1>10
<1> QED BY <1>10, <1>12, <1>13, <1>14, <1>15

\* Neither float covers the row the user types on, and the chosen item is on
\* show if any is.
THEOREM ListsArePlaced == PlacedRoundTheCaret
<1> SUFFICES ASSUME NEW bottom \in 1..9, NEW y \in 0..bottom - 1, NEW count \in 1..MostRows + 2,
                    NEW selected \in 0..count - 1
             PROVE  LET box == ListPlace(0, bottom, y, count, selected)
                    IN  /\ y \notin box.rows \cup SignatureRows(0, bottom, y)
                        /\ box.visible > 0 => \E row \in box.rows : ItemAt(box, count, row) = selected
  BY DEF PlacedRoundTheCaret
<1>1. PICK top \in Int : top = 0
  OBVIOUS
<1>2. bottom \in Int /\ count \in Nat \ {0} /\ y \in top..bottom - 1
  BY <1>1 DEF MostRows
<1>3. PICK box : box = ListPlace(top, bottom, y, count, selected)
  OBVIOUS
<1>4. /\ y \notin box.rows \cup SignatureRows(top, bottom, y)
      /\ box.visible > 0 => \E row \in box.rows : ItemAt(box, count, row) = selected
  BY <1>2, <1>3, PlaceIs
<1> QED BY <1>1, <1>3, <1>4

-----------------------------------------------------------------------------
(***************************************************************************)
(* The theorems.                                                           *)
(***************************************************************************)
ListsInv == WorkerInv /\ ScreenInv /\ ListInv

\* Both lists keep their invariants, whichever of the two the user types in.
THEOREM ListsInvariant == ListsSpec => []ListsInv
<1>1. ListsInit => ListsInv
  BY FinderStarts, ListStarts DEF ListsInit, ListsInv
<1>2. ListsInv /\ [ListsNext]_listsVars => ListsInv'
  <2> SUFFICES ASSUME ListsInv, [ListsNext]_listsVars PROVE ListsInv'
    OBVIOUS
  <2>1. [Next]_vars
    BY DEF ListsNext, listsVars
  <2>2. CompletionNext \/ UNCHANGED completionVars
    BY DEF ListsNext, listsVars
  <2>3. WorkerInv' /\ ScreenInv'
    BY <2>1, FinderKeeps DEF ListsInv
  <2>4. ListInv'
    BY <2>2, CompletionKeeps, UnchangedKeeps DEF ListsInv
  <2> QED BY <2>3, <2>4 DEF ListsInv
<1> QED BY <1>1, <1>2, PTL DEF ListsSpec

\* The choice in the picker is a row of the list of the query on screen, its
\* paths come of the last walk asked for before them; between batches the
\* completion list is that of the word before the caret and has a choice, and
\* a word typed with no list up is being asked about.
THEOREM ListsAlwaysFit == ListsSpec => []ListsFit
<1>1. ListsInv => ListsFit
  BY PickerFits, WordFits DEF ListsInv, ListsFit
<1> QED BY <1>1, ListsInvariant, PTL

\* No answer changes the picker's list unless it is to the query on screen.
THEOREM AnswersAreOfScreen == ListsSpec => AnswerIsOfScreen
<1>1. ListsInv /\ HandleFound =>
         /\ picker'.hits # picker.hits => picker'.hits.query = picker.query
         /\ picker'.lines # picker.lines /\ picker.query # Nobody =>
               picker'.lines.query = picker.query
  BY AnswerFits DEF ListsInv
<1> QED BY <1>1, ListsInvariant, PTL DEF AnswerIsOfScreen

\* What a user who only typed accepts between batches matches all that was
\* typed of the word asked about, takes away what the server meant it to, and
\* leaves the text the ghost after the caret showed.
THEOREM AcceptedIsShown == ListsSpec => AcceptsWhatIsShown
<1>1. ListsInv =>
         [Accept /\ list # Nothing /\ ~handling /\ ~strayed =>
             LET item == Selected(list)
             IN  /\ list.start = WordStartHere /\ list.about = list.start
                 /\ MatchesTyped(Between(line, list.start, caret), item)
                 /\ item.edit # NowhereIs =>
                       item.edit = list.start - 1 /\ line[item.edit + 1] = Trigger
                 /\ item.edit = NowhereIs => line' = Replaced(caret, caret, Ghost(list))]_completionVars
  BY AcceptFits DEF ListsInv
<1> QED BY <1>1, ListsInvariant, PTL DEF AcceptsWhatIsShown
=============================================================================
