---------------------------- MODULE QuestionsProof ----------------------------
(***************************************************************************)
(* Proofs about Questions: that a process that never crashed is answered   *)
(* for what it was asked, that one question of a kind waits, and that what *)
(* is on offer between batches fits the text on screen, for any files,     *)
(* servers, carets and setups.                                             *)
(***************************************************************************)
EXTENDS Questions, SequenceTheorems, WellFoundedInduction, TLAPS

(***************************************************************************)
(* What the operators on the questions that wait return.                   *)
(***************************************************************************)
\* A set of numbers that is not empty has a least member.
LEMMA LeastNumber ==
    ASSUME NEW T, T \subseteq Nat, T # {}
    PROVE  \E x \in T : \A y \in T : x <= y
<1>1. IsWellFoundedOn(OpToRel(<, Nat), Nat)
  BY NatLessThanWellFounded
<1>2. PICK x \in T : \A y \in T : <<y, x>> \notin OpToRel(<, Nat)
  BY <1>1, WFMin, Zenon
<1>3. \A y \in T : ~(y < x)
  BY <1>2 DEF OpToRel
<1> QED
  BY <1>3

\* Positions of `fewer` name different places of `waiting` and what is there.
Among(fewer, waiting) ==
    /\ fewer \in Seq(Questions)
    /\ \A i, j \in DOMAIN fewer : \E k, l \in DOMAIN waiting :
          /\ fewer[i] = waiting[k]
          /\ fewer[j] = waiting[l]
          /\ i # j => k # l

\* Every question of a kind but this one is still among the fewer.
KeepsAllBut(kind, fewer, waiting) ==
    \A j \in DOMAIN waiting : waiting[j].kind # kind =>
        \E i \in DOMAIN fewer : fewer[i] = waiting[j]

\* `kept` is what `Cancelled` keeps of the first `m` questions, and of fewer.
IsKept(kept, kind, waiting, m) ==
    kept = [n \in 0..m |-> IF n = 0 THEN <<>>
                           ELSE IF waiting[n].kind = kind THEN kept[n - 1]
                           ELSE Append(kept[n - 1], waiting[n])]

\* The recursion of `Cancelled`, up to any place, has a solution.
LEMMA KeptExists ==
    ASSUME NEW kind, NEW waiting, NEW m \in Nat
    PROVE  \E kept : IsKept(kept, kind, waiting, m)
<1> DEFINE Next1(f, n) == IF n = 0 THEN <<>>
                          ELSE IF waiting[n].kind = kind THEN f[n - 1]
                          ELSE Append(f[n - 1], waiting[n])
           Solved(k) == \E f : f = [n \in 0..k |-> Next1(f, n)]
           Bad == {k \in Nat : ~Solved(k)}
<1>1. SUFFICES ASSUME Bad # {}  PROVE FALSE
  BY DEF IsKept
<1>2. PICK k \in Bad : \A l \in Bad : k <= l
  <2>1. Bad \subseteq Nat
    OBVIOUS
  <2> HIDE DEF Bad
  <2> QED
    BY <1>1, <2>1, LeastNumber
<1>3. k # 0
  <2>1. SUFFICES ASSUME k = 0  PROVE FALSE
    OBVIOUS
  <2> DEFINE f == [n \in 0..0 |-> <<>>]
  <2>2. f = [n \in 0..0 |-> Next1(f, n)]
    OBVIOUS
  <2> HIDE DEF f
  <2> QED
    BY <2>1, <2>2
<1>4. k \in Nat /\ k - 1 \in Nat /\ k - 1 \notin Bad
  <2>1. Bad \subseteq Nat
    OBVIOUS
  <2> HIDE DEF Bad
  <2> QED
    BY <1>2, <1>3, <2>1
<1>5. PICK f : f = [n \in 0..(k - 1) |-> Next1(f, n)]
  BY <1>4
<1> DEFINE g == [n \in 0..k |-> IF n = k THEN Next1(f, k) ELSE f[n]]
<1>6. \A n \in 0..k : g[n] = Next1(g, n)
  <2> SUFFICES ASSUME NEW n \in 0..k  PROVE g[n] = Next1(g, n)
    OBVIOUS
  <2>1. n # 0 => n - 1 \in 0..(k - 1) /\ g[n - 1] = f[n - 1]
    BY <1>4
  <2>2. CASE n = k
    BY <2>1, <2>2, <1>3, <1>4
  <2>3. CASE n # k
    <3>1. n \in 0..(k - 1) /\ g[n] = f[n]
      BY <2>3, <1>4
    <3>2. f[n] = Next1(f, n)
      BY <1>5, <3>1
    <3> QED
      BY <3>1, <3>2, <2>1
  <2> QED
    BY <2>2, <2>3
<1>7. g = [n \in 0..k |-> Next1(g, n)]
  <2>1. g = [n \in 0..k |-> g[n]]
    OBVIOUS
  <2> HIDE DEF g
  <2> QED
    BY <1>6, <2>1
<1> HIDE DEF g
<1> QED
  BY <1>2, <1>7

\* What is left after a cancellation: questions of other kinds, all of them.
LEMMA CancelledLeaves ==
    ASSUME NEW kind, NEW waiting \in Seq(Questions)
    PROVE  /\ Among(Cancelled(kind, waiting), waiting)
           /\ KeepsAllBut(kind, Cancelled(kind, waiting), waiting)
           /\ \A i \in DOMAIN Cancelled(kind, waiting) :
                 Cancelled(kind, waiting)[i].kind # kind
<1> DEFINE N == Len(waiting)
           kept == CHOOSE f : IsKept(f, kind, waiting, N)
<1>1. N \in Nat
  OBVIOUS
<1>2. IsKept(kept, kind, waiting, N)
  <2> HIDE DEF N
  <2> QED
    BY <1>1, KeptExists
<1>3. Cancelled(kind, waiting) = kept[N]
  BY DEF Cancelled, IsKept
<1>0. N = Len(waiting) /\ waiting \in [1..N -> Questions]
  OBVIOUS
<1> HIDE DEF kept, N
<1>4. /\ kept[0] = <<>>
      /\ \A n \in 1..N : kept[n] = IF waiting[n].kind = kind THEN kept[n - 1]
                                   ELSE Append(kept[n - 1], waiting[n])
  <2>1. \A n \in 0..N : kept[n] = IF n = 0 THEN <<>>
                                  ELSE IF waiting[n].kind = kind THEN kept[n - 1]
                                  ELSE Append(kept[n - 1], waiting[n])
    BY <1>2 DEF IsKept
  <2>2. 0 \in 0..N /\ \A n \in 1..N : n \in 0..N /\ n # 0
    BY <1>1
  <2> QED
    BY <2>1, <2>2
<1> DEFINE Right(n) ==
        /\ kept[n] \in Seq(Questions)
        /\ \A i, j \in DOMAIN kept[n] : \E k, l \in 1..n :
              /\ kept[n][i] = waiting[k] /\ kept[n][j] = waiting[l]
              /\ i # j => k # l
        /\ \A j \in 1..n : waiting[j].kind # kind =>
              \E i \in DOMAIN kept[n] : kept[n][i] = waiting[j]
        /\ \A i \in DOMAIN kept[n] : kept[n][i].kind # kind
<1>5. Right(0)
  BY <1>4
<1>6. ASSUME NEW n \in 1..N, Right(n - 1)  PROVE Right(n)
  <2>1. n \in Nat /\ n - 1 \in Nat /\ waiting[n] \in Questions
    BY <1>0, <1>1
  <2>2. CASE waiting[n].kind = kind
    <3>1. kept[n] = kept[n - 1]
      BY <1>4, <2>2
    <3>2. \A k \in 1..(n - 1) : k \in 1..n
      BY <2>1
    <3>3. \A k \in 1..n : waiting[k].kind # kind => k \in 1..(n - 1)
      BY <2>1, <2>2
    <3> DEFINE old == kept[n - 1]
    <3>4. /\ old \in Seq(Questions)
          /\ \A i, j \in DOMAIN old : \E k, l \in 1..(n - 1) :
                /\ old[i] = waiting[k] /\ old[j] = waiting[l]
                /\ i # j => k # l
          /\ \A j \in 1..(n - 1) : waiting[j].kind # kind =>
                \E i \in DOMAIN old : old[i] = waiting[j]
          /\ \A i \in DOMAIN old : old[i].kind # kind
      BY <1>6
    <3>5. kept[n] = old
      BY <3>1
    <3> HIDE DEF old, Right
    <3>6. \A i, j \in DOMAIN old : \E k, l \in 1..n :
              /\ old[i] = waiting[k] /\ old[j] = waiting[l]
              /\ i # j => k # l
      <4> SUFFICES ASSUME NEW i \in DOMAIN old, NEW j \in DOMAIN old
                   PROVE  \E k, l \in 1..n :
                             /\ old[i] = waiting[k] /\ old[j] = waiting[l]
                             /\ i # j => k # l
        OBVIOUS
      <4>1. PICK k \in 1..(n - 1), l \in 1..(n - 1) :
               /\ old[i] = waiting[k] /\ old[j] = waiting[l]
               /\ i # j => k # l
        BY <3>4, Zenon
      <4> QED
        BY <3>2, <4>1
    <3>7. \A j \in 1..n : waiting[j].kind # kind =>
              \E i \in DOMAIN old : old[i] = waiting[j]
      BY <3>3, <3>4
    <3>8. \A i, j \in DOMAIN kept[n] : \E k, l \in 1..n :
              /\ kept[n][i] = waiting[k] /\ kept[n][j] = waiting[l]
              /\ i # j => k # l
      BY ONLY <3>5, <3>6
    <3>9. /\ kept[n] \in Seq(Questions)
          /\ \A i \in DOMAIN kept[n] : kept[n][i].kind # kind
      BY ONLY <3>4, <3>5
    <3>10. \A j \in 1..n : waiting[j].kind # kind =>
              \E i \in DOMAIN kept[n] : kept[n][i] = waiting[j]
      BY ONLY <3>5, <3>7
    <3> QED
      BY ONLY <3>8, <3>9, <3>10 DEF Right
  <2>3. CASE waiting[n].kind # kind
    <3> DEFINE old == kept[n - 1]
    <3>1. kept[n] = Append(old, waiting[n]) /\ old \in Seq(Questions)
      BY <1>4, <1>6, <2>3
    <3>2. /\ kept[n] \in Seq(Questions)
          /\ Len(kept[n]) = Len(old) + 1
          /\ DOMAIN kept[n] = 1..(Len(old) + 1)
          /\ DOMAIN old = 1..Len(old) /\ Len(old) \in Nat
          /\ \A i \in 1..Len(old) : kept[n][i] = old[i]
          /\ kept[n][Len(old) + 1] = waiting[n]
      BY <2>1, <3>1
    <3>6. /\ \A i, j \in DOMAIN old : \E k, l \in 1..(n - 1) :
                /\ old[i] = waiting[k] /\ old[j] = waiting[l]
                /\ i # j => k # l
          /\ \A j \in 1..(n - 1) : waiting[j].kind # kind =>
                \E i \in DOMAIN old : old[i] = waiting[j]
          /\ \A i \in DOMAIN old : old[i].kind # kind
      BY <1>6
    <3> HIDE DEF old, Right
    <3>3. \A i, j \in DOMAIN kept[n] : \E k, l \in 1..n :
              /\ kept[n][i] = waiting[k] /\ kept[n][j] = waiting[l]
              /\ i # j => k # l
      <4> SUFFICES ASSUME NEW i \in DOMAIN kept[n], NEW j \in DOMAIN kept[n]
                   PROVE  \E k, l \in 1..n :
                             /\ kept[n][i] = waiting[k]
                             /\ kept[n][j] = waiting[l]
                             /\ i # j => k # l
        OBVIOUS
      <4>1. n \in 1..n /\ \A k \in 1..(n - 1) : k \in 1..n /\ k # n
        BY <2>1
      <4>2. CASE i \in 1..Len(old) /\ j \in 1..Len(old)
        <5>0. i \in DOMAIN old /\ j \in DOMAIN old
          BY <3>2, <4>2
        <5>1. PICK k \in 1..(n - 1), l \in 1..(n - 1) :
                 /\ old[i] = waiting[k] /\ old[j] = waiting[l]
                 /\ i # j => k # l
          BY <3>6, <5>0, Zenon
        <5> QED
          BY <5>1, <3>2, <4>1, <4>2
      <4>3. CASE i \in 1..Len(old) /\ j = Len(old) + 1
        <5>1. PICK k \in 1..(n - 1) : old[i] = waiting[k]
          BY <3>6, <3>2, <4>3
        <5> QED
          BY <5>1, <3>2, <4>1, <4>3
      <4>4. CASE i = Len(old) + 1 /\ j \in 1..Len(old)
        <5>1. PICK l \in 1..(n - 1) : old[j] = waiting[l]
          BY <3>6, <3>2, <4>4
        <5> QED
          BY <5>1, <3>2, <4>1, <4>4
      <4>5. CASE i = Len(old) + 1 /\ j = Len(old) + 1
        BY <3>2, <4>1, <4>5
      <4> QED
        BY <3>2, <4>2, <4>3, <4>4, <4>5
    <3>4. \A j \in 1..n : waiting[j].kind # kind =>
              \E i \in DOMAIN kept[n] : kept[n][i] = waiting[j]
      <4> SUFFICES ASSUME NEW j \in 1..n, waiting[j].kind # kind
                   PROVE  \E i \in DOMAIN kept[n] : kept[n][i] = waiting[j]
        OBVIOUS
      <4>1. CASE j = n
        BY <3>2, <4>1
      <4>2. CASE j # n
        <5>1. j \in 1..(n - 1)
          BY <2>1, <4>2
        <5>2. PICK i \in DOMAIN old : old[i] = waiting[j]
          BY <3>6, <5>1
        <5> QED
          BY <3>2, <5>2
      <4> QED
        BY <4>1, <4>2
    <3>5. \A i \in DOMAIN kept[n] : kept[n][i].kind # kind
      BY <2>3, <3>2, <3>6
    <3> QED
      BY <3>2, <3>3, <3>4, <3>5 DEF Right
  <2> QED
    BY <2>2, <2>3
<1> HIDE DEF Right
<1>7. Right(N)
  <2> DEFINE Bad == {n \in 0..N : ~Right(n)}
  <2>1. SUFFICES ASSUME Bad # {}  PROVE FALSE
    BY <1>1
  <2>2. Bad \subseteq Nat
    OBVIOUS
  <2>3. PICK n \in Bad : \A m \in Bad : n <= m
    <3> HIDE DEF Bad
    <3> QED
      BY <2>1, <2>2, LeastNumber
  <2>4. n # 0 /\ n \in 1..N
    BY <1>1, <1>5, <2>3
  <2>5. n - 1 \in 0..N /\ ~(n <= n - 1)
    BY <1>1, <2>4
  <2>6. Right(n - 1)
    BY <2>3, <2>5
  <2> QED
    BY <1>6, <2>3, <2>4, <2>6
<1>8. DOMAIN waiting = 1..N
  BY <1>0
<1>9. /\ Among(kept[N], waiting)
      /\ KeepsAllBut(kind, kept[N], waiting)
      /\ \A i \in DOMAIN kept[N] : kept[N][i].kind # kind
  <2> DEFINE left == kept[N]
  <2>1. /\ left \in Seq(Questions)
        /\ \A i, j \in DOMAIN left : \E k, l \in 1..N :
              /\ left[i] = waiting[k] /\ left[j] = waiting[l]
              /\ i # j => k # l
        /\ \A j \in 1..N : waiting[j].kind # kind =>
              \E i \in DOMAIN left : left[i] = waiting[j]
        /\ \A i \in DOMAIN left : left[i].kind # kind
    BY <1>7 DEF Right
  <2> HIDE DEF left
  <2>2. Among(left, waiting)
    <3>1. ASSUME NEW i \in DOMAIN left, NEW j \in DOMAIN left
          PROVE  \E k, l \in DOMAIN waiting :
                    /\ left[i] = waiting[k] /\ left[j] = waiting[l]
                    /\ i # j => k # l
      <4>1. PICK k \in 1..N, l \in 1..N :
               /\ left[i] = waiting[k] /\ left[j] = waiting[l]
               /\ i # j => k # l
        BY <2>1, Zenon
      <4> QED
        BY <1>8, <4>1
    <3> QED
      BY <2>1, <3>1 DEF Among
  <2>3. KeepsAllBut(kind, left, waiting)
    BY <1>8, <2>1, Zenon DEF KeepsAllBut
  <2> QED
    BY <2>1, <2>2, <2>3 DEF left
<1> QED
  BY <1>3, <1>9, Zenon

\* What is left after one question is taken: the others, all of them.
LEMMA RemovedLeaves ==
    ASSUME NEW waiting \in Seq(Questions), NEW i \in DOMAIN waiting
    PROVE  /\ Among(RemoveAt(waiting, i), waiting)
           /\ KeepsAllBut(waiting[i].kind, RemoveAt(waiting, i), waiting)
<1> DEFINE left == RemoveAt(waiting, i)
           N == Len(waiting)
<1>1. N \in Nat /\ i \in 1..N /\ DOMAIN waiting = 1..N
  OBVIOUS
<1>2. /\ left \in Seq(Questions)
      /\ Len(left) = N - 1
      /\ DOMAIN left = 1..(N - 1)
      /\ \A k \in 1..(N - 1) :
            left[k] = IF k < i THEN waiting[k] ELSE waiting[k + 1]
  <2> DEFINE front == SubSeq(waiting, 1, i - 1)
             rest == SubSeq(waiting, i + 1, N)
  <2>1. /\ front \in Seq(Questions) /\ Len(front) = i - 1
        /\ \A k \in 1..(i - 1) : front[k] = waiting[k]
    BY <1>1
  <2>2. /\ rest \in Seq(Questions) /\ Len(rest) = N - i
        /\ \A k \in 1..(N - i) : rest[k] = waiting[i + k]
    BY <1>1
  <2>3. left = front \o rest
    BY DEF RemoveAt
  <2> HIDE DEF front, rest, left, N
  <2>4. left \in Seq(Questions) /\ Len(left) = N - 1
    <3>1. left \in Seq(Questions)
      BY <2>1, <2>2, <2>3
    <3>2. Len(left) = Len(front) + Len(rest)
      BY <2>1, <2>2, <2>3, ConcatProperties
    <3> QED
      BY <1>1, <2>1, <2>2, <3>1, <3>2
  <2>5. ASSUME NEW k \in 1..(N - 1)
        PROVE  left[k] = IF k < i THEN waiting[k] ELSE waiting[k + 1]
    <3>1. left[k] = IF k <= i - 1 THEN front[k] ELSE rest[k - (i - 1)]
      BY <1>1, <2>1, <2>2, <2>3
    <3>2. k >= i => /\ k - (i - 1) \in 1..(N - i)
                    /\ i + (k - (i - 1)) = k + 1
      BY <1>1
    <3>3. k >= i => rest[k - (i - 1)] = waiting[k + 1]
      BY <2>2, <3>2
    <3> QED
      BY <1>1, <2>1, <3>1, <3>3
  <2> QED
    BY <1>1, <2>4, <2>5
<1> HIDE DEF left, N
<1> DEFINE Place(k) == IF k < i THEN k ELSE k + 1
<1>3. ASSUME NEW j \in DOMAIN left, NEW k \in DOMAIN left
      PROVE  \E l, m \in DOMAIN waiting :
                /\ left[j] = waiting[l] /\ left[k] = waiting[m]
                /\ j # k => l # m
  <2>1. Place(j) \in DOMAIN waiting /\ Place(k) \in DOMAIN waiting
    BY <1>1, <1>2
  <2>2. left[j] = waiting[Place(j)] /\ left[k] = waiting[Place(k)]
    BY <1>2
  <2>3. j # k => Place(j) # Place(k)
    BY <1>1, <1>2
  <2> HIDE DEF Place
  <2> QED
    BY <2>1, <2>2, <2>3
<1>4. ASSUME NEW j \in DOMAIN waiting, waiting[j].kind # waiting[i].kind
      PROVE  \E k \in DOMAIN left : left[k] = waiting[j]
  <2>1. j # i /\ j \in 1..N
    BY <1>1, <1>4
  <2>2. CASE j < i
    BY <1>1, <1>2, <2>1, <2>2
  <2>3. CASE j > i
    <3>1. j - 1 \in 1..(N - 1) /\ ~(j - 1 < i) /\ (j - 1) + 1 = j
      BY <1>1, <2>1, <2>3
    <3> QED
      BY <1>2, <3>1
  <2> QED
    BY <1>1, <2>1, <2>2, <2>3
<1>5. Among(left, waiting)
  BY <1>2, <1>3 DEF Among
<1>6. KeepsAllBut(waiting[i].kind, left, waiting)
  BY <1>4 DEF KeepsAllBut
<1> QED
  BY <1>5, <1>6 DEF left

\* The question an answer is taken for is one that waits and matches it.
LEMMA TakenMatches ==
    ASSUME NEW e, TakePending(e) # 0, pending \in Seq(Questions)
    PROVE  /\ TakePending(e) \in DOMAIN pending
           /\ Matches(pending[TakePending(e)], e)
<1> DEFINE I == {i \in 1..Len(pending) : Matches(pending[i], e)}
<1>1. TakePending(e) = IF I # {} THEN CHOOSE x \in I : \A y \in I : x <= y ELSE 0
  BY DEF TakePending, SelectInSeq, Min
<1>2. I # {} /\ I \subseteq Nat
  BY <1>1
<1>3. \E x \in I : \A y \in I : x <= y
  <2> HIDE DEF I
  <2> QED
    BY <1>2, LeastNumber
<1>4. TakePending(e) \in I
  <2> HIDE DEF I
  <2> QED
    BY <1>1, <1>2, <1>3
<1> QED
  BY <1>4

\* Fewer of fewer are fewer.
LEMMA AmongTransitive ==
    ASSUME NEW u, NEW v, NEW w, Among(u, v), Among(v, w)
    PROVE  Among(u, w)
<1>1. ASSUME NEW i \in DOMAIN u, NEW j \in DOMAIN u
      PROVE  \E k, l \in DOMAIN w :
                u[i] = w[k] /\ u[j] = w[l] /\ (i # j => k # l)
  <2>1. PICK k, l \in DOMAIN v :
           u[i] = v[k] /\ u[j] = v[l] /\ (i # j => k # l)
    BY DEF Among
  <2>2. PICK m, n \in DOMAIN w :
           v[k] = w[m] /\ v[l] = w[n] /\ (k # l => m # n)
    BY DEF Among
  <2> QED
    BY <2>1, <2>2
<1> QED
  BY <1>1 DEF Among

\* All that wait are among themselves.
LEMMA AmongItself ==
    ASSUME NEW w \in Seq(Questions)
    PROVE  Among(w, w)
BY DEF Among

(***************************************************************************)
(* The inductive invariant.                                                *)
(***************************************************************************)
Requests == [id : Nat \ {0}, kind : Kinds, life : Nat, text : Nat]

Answers == [type : {"answer"}, server : Servers, id : Nat \ {0},
            outcome : {"answer", "modified", "refused"}, kind : Kinds, life : Nat,
            text : Nat]

Notices == [type : {"ready", "closed"}, server : Servers]

\* The types, with those TypeOK leaves out.
EditorTyped ==
    /\ setup \in Setups
    /\ shown \in Open
    /\ caret \in [Docs -> Carets]
    /\ focus \in BOOLEAN
    /\ batch \in BOOLEAN
    /\ text \in [Docs -> Nat]

ServersTyped ==
    /\ client \in [Servers -> {"ready", "starting", "none"}]
    /\ alive \in [Servers -> BOOLEAN]
    /\ life \in [Servers -> Nat \ {0}]
    /\ \A s \in Servers : client[s] # "none" => life[s] <= setup.maxLives

DocsTyped ==
    /\ doc \in [Docs -> [known : BOOLEAN, version : Nat, text : Nat]]
    /\ \A d \in Docs : doc[d].known =>
          /\ ServerOf[d] \in Servers
          /\ client[ServerOf[d]] = "ready"
          /\ ~batch => doc[d].text = text[d]

TalkTyped ==
    /\ pending \in Seq(Questions)
    /\ wire \in [Servers -> SUBSET Requests]
    /\ nextId \in [Servers -> Nat \ {0}]

EventsTyped == events \in Seq(Answers \cup Notices)

FixingTyped ==
    /\ refused \in BOOLEAN
    /\ asked # NotAsked =>
          asked.doc \in Docs /\ asked.caret \in Carets /\ asked.version \in Nat
    /\ offered # NoOffer => offered.doc \in Docs /\ offered.caret \in Carets

Typed ==
    /\ EditorTyped
    /\ ServersTyped
    /\ DocsTyped
    /\ TalkTyped
    /\ EventsTyped
    /\ FixingTyped

\* The end of a process is reported once, and while it is not handled nothing
\* else happens to its slot.
OneEnd ==
    /\ \A i \in DOMAIN events : events[i].type = "closed" =>
          /\ ~alive[events[i].server]
          /\ client[events[i].server] = "ready"
          /\ life[events[i].server] < setup.maxLives
    /\ \A i, j \in DOMAIN events :
          /\ events[i].type = "closed"
          /\ events[j].type = "closed"
          /\ events[i].server = events[j].server
          => i = j

\* A request or an answer with a question's number is that question's, and
\* tells of the text its file had at the version it was asked about.
IsFor(said, q) ==
    said.id = q.id =>
        /\ said.kind = q.kind
        /\ doc[q.doc].version = q.version => said.text = doc[q.doc].text

\* What holds of a question that waits while no process has ended.
Living(q) ==
    /\ q.life = 1
    /\ q.id <= nextId[q.server]
    /\ doc[q.doc].known
    /\ q.version <= doc[q.doc].version
    /\ q.kind \in setup.kinds
    /\ \A r \in wire[q.server] : IsFor(r, q)
    /\ \A j \in DOMAIN events :
          events[j].type = "answer" /\ events[j].server = q.server
              => IsFor(events[j], q)

AllLiving == \A i \in DOMAIN pending : Living(pending[i])

\* Nothing was said by a process but the first, or to a question not asked.
SaidByTheFirst ==
    /\ \A s \in Servers : \A r \in wire[s] : r.life = 1 /\ r.id <= nextId[s]
    /\ \A j \in DOMAIN events : events[j].type = "answer" =>
          events[j].life = 1 /\ events[j].id <= nextId[events[j].server]

\* The version last asked about was one its file had.
AskedOfAVersion ==
    asked # NotAsked =>
        doc[asked.doc].known /\ asked.version <= doc[asked.doc].version

\* What is on offer at the place last asked about, at the version asked about
\* and with no question in flight, fits the text of that version, unless the
\* question was refused.
OfferOfAVersion ==
    /\ offered # NoOffer =>
          doc[offered.doc].known /\ "codeAction" \in setup.kinds
    /\ /\ offered # NoOffer
       /\ asked # NotAsked
       /\ offered.doc = asked.doc
       /\ offered.caret = asked.caret
       /\ doc[asked.doc].version = asked.version
       /\ ~InFlight("codeAction")
       /\ ~refused
       => offered.text = doc[offered.doc].text

UntilCrash ==
    NoneCrashed => /\ AllLiving
                   /\ SaidByTheFirst
                   /\ AskedOfAVersion
                   /\ OfferOfAVersion

QuestionsInv ==
    /\ Typed
    /\ OneEnd
    /\ OneInFlight
    /\ UntilCrash
    /\ AnswersUntilCrash
    /\ OfferFitsText

(***************************************************************************)
(* What a step does with the questions.                                    *)
(***************************************************************************)
\* What the assumption says of the setup at work.
LEMMA SetupFacts ==
    ASSUME SetupsAssumption, setup \in Setups
    PROVE  /\ Open \subseteq Docs
           /\ \A d \in Docs : ServerOf[d] \in Servers \cup {NoServer}
           /\ setup.maxLives \in Nat \ {0}
           /\ setup.kinds \subseteq Kinds
           /\ NoServer \notin Docs \cup Servers
BY DEF SetupsAssumption, Open, ServerOf

\* No question is asked, and these still wait.
Unasked(left) ==
    /\ pending' = left
    /\ UNCHANGED <<nextId, wire>>

\* One question is asked about a file as it is told by then.
AskedOne(d, kind, left) ==
    /\ kind \in setup.kinds
    /\ doc'[d].known
    /\ ServerOf[d] \in Servers
    /\ \E q \in Questions, r \in Requests :
          /\ q.server = ServerOf[d]
          /\ q.id = nextId[ServerOf[d]] + 1
          /\ q.kind = kind
          /\ q.doc = d
          /\ q.version = doc'[d].version
          /\ q.life = life[ServerOf[d]]
          /\ r.id = q.id /\ r.kind = kind /\ r.life = q.life
          /\ r.text = doc'[d].text
          /\ pending' = Append(left, q)
          /\ nextId' = [nextId EXCEPT ![ServerOf[d]] = @ + 1]
          /\ wire' = [wire EXCEPT ![ServerOf[d]] = @ \cup {r}]

\* Fewer questions wait, and perhaps one more, the only one of its kind.
TalksOn ==
    \E left \in Seq(Questions) :
        /\ Among(left, pending)
        /\ \/ Unasked(left)
           \/ \E d \in Docs, kind \in Kinds :
                 /\ AskedOne(d, kind, left)
                 /\ kind # "rename" =>
                       \A i \in DOMAIN left : left[i].kind # kind

\* A question about code actions that waits still does, or another.
ActionsWait == InFlight("codeAction") => InFlight("codeAction")'

\* `Ask` asks one question.
LEMMA AskAsksOne ==
    ASSUME SetupsAssumption, Typed, DocsTyped', setup' = setup,
           NEW d \in Open, NEW kind \in Kinds, NEW retries \in 0..MaxRetries,
           NEW left \in Seq(Questions),
           CanAsk(d, kind, doc'), Ask(d, kind, retries, doc', left)
    PROVE  AskedOne(d, kind, left)
<1>1. d \in Docs /\ ServerOf' = ServerOf
  BY SetupFacts DEF Typed, EditorTyped, ServerOf, Open
<1>2. kind \in setup.kinds /\ doc'[d].known /\ ServerOf[d] \in Servers
  BY <1>1 DEF CanAsk, DocsTyped
<1>3. /\ doc'[d].version \in Nat /\ doc'[d].text \in Nat
      /\ nextId[ServerOf[d]] + 1 \in Nat \ {0}
      /\ life[ServerOf[d]] \in Nat
      /\ caret[d] \in Carets
  BY <1>1, <1>2 DEF DocsTyped, Typed, TalkTyped, ServersTyped, EditorTyped
<1> DEFINE q == [server |-> ServerOf[d], id |-> nextId[ServerOf[d]] + 1,
                 kind |-> kind, doc |-> d, caret |-> caret[d],
                 version |-> doc'[d].version, retries |-> retries,
                 life |-> life[ServerOf[d]]]
           r == [id |-> nextId[ServerOf[d]] + 1, kind |-> kind,
                 life |-> life[ServerOf[d]], text |-> doc'[d].text]
<1>4. q \in Questions /\ r \in Requests
  BY <1>1, <1>2, <1>3 DEF Questions, Requests
<1>5. /\ pending' = Append(left, q)
      /\ nextId' = [nextId EXCEPT ![ServerOf[d]] = nextId[ServerOf[d]] + 1]
      /\ wire' = [wire EXCEPT ![ServerOf[d]] = wire[ServerOf[d]] \cup {r}]
  BY DEF Ask
<1>6. /\ q.server = ServerOf[d] /\ q.id = nextId[ServerOf[d]] + 1
      /\ q.kind = kind /\ q.doc = d /\ q.version = doc'[d].version
      /\ q.life = life[ServerOf[d]]
      /\ r.id = q.id /\ r.kind = kind /\ r.life = q.life
      /\ r.text = doc'[d].text
  OBVIOUS
<1> HIDE DEF q, r
<1> QED
  BY <1>2, <1>4, <1>5, <1>6 DEF AskedOne

\* What a step adds to the questions keeps their types.
LEMMA TalkStaysTyped ==
    ASSUME Typed, TalksOn
    PROVE  TalkTyped'
<1>1. PICK left \in Seq(Questions) :
         \/ Unasked(left)
         \/ \E d \in Docs, kind \in Kinds : AskedOne(d, kind, left)
  BY DEF TalksOn
<1>2. CASE Unasked(left)
  BY <1>2 DEF Unasked, Typed, TalkTyped
<1>3. CASE \E d \in Docs, kind \in Kinds : AskedOne(d, kind, left)
  <2>1. PICK d \in Docs, kind \in Kinds : AskedOne(d, kind, left)
    BY <1>3
  <2>2. PICK q \in Questions, r \in Requests :
           /\ ServerOf[d] \in Servers
           /\ pending' = Append(left, q)
           /\ nextId' = [nextId EXCEPT ![ServerOf[d]] = @ + 1]
           /\ wire' = [wire EXCEPT ![ServerOf[d]] = @ \cup {r}]
    BY <2>1 DEF AskedOne
  <2>3. pending' \in Seq(Questions)
    BY <2>2
  <2>4. nextId' \in [Servers -> Nat \ {0}]
    BY <2>2 DEF Typed, TalkTyped
  <2>5. wire' \in [Servers -> SUBSET Requests]
    BY <2>2 DEF Typed, TalkTyped
  <2> QED
    BY <2>3, <2>4, <2>5 DEF TalkTyped
<1> QED
  BY <1>1, <1>2, <1>3

\* Places of fewer questions that have one kind are one place.
LEMMA OneAmong ==
    ASSUME OneInFlight, NEW left, Among(left, pending),
           NEW i \in DOMAIN left, NEW j \in DOMAIN left,
           left[i].kind = left[j].kind, left[i].kind # "rename"
    PROVE  i = j
<1>1. PICK k, l \in DOMAIN pending :
         left[i] = pending[k] /\ left[j] = pending[l] /\ (i # j => k # l)
  BY DEF Among
<1> QED
  BY <1>1 DEF OneInFlight

\* One question of a kind waits after a step, as before it.
LEMMA OneStaysInFlight ==
    ASSUME OneInFlight, TalksOn
    PROVE  OneInFlight'
<1>1. PICK left \in Seq(Questions) :
         /\ Among(left, pending)
         /\ \/ Unasked(left)
            \/ \E d \in Docs, kind \in Kinds :
                  /\ AskedOne(d, kind, left)
                  /\ kind # "rename" =>
                        \A i \in DOMAIN left : left[i].kind # kind
  BY DEF TalksOn
<1>2. ASSUME NEW i \in DOMAIN left, NEW j \in DOMAIN left,
             left[i].kind = left[j].kind, left[i].kind # "rename"
      PROVE  i = j
  BY <1>1, <1>2, OneAmong
<1>3. CASE Unasked(left)
  BY <1>2, <1>3 DEF Unasked, OneInFlight
<1>4. CASE \E d \in Docs, kind \in Kinds :
              /\ AskedOne(d, kind, left)
              /\ kind # "rename" => \A i \in DOMAIN left : left[i].kind # kind
  <2>1. PICK d \in Docs, kind \in Kinds :
           /\ AskedOne(d, kind, left)
           /\ kind # "rename" => \A i \in DOMAIN left : left[i].kind # kind
    BY <1>4
  <2>2. PICK q \in Questions : q.kind = kind /\ pending' = Append(left, q)
    BY <2>1 DEF AskedOne
  <2>3. /\ DOMAIN left = 1..Len(left) /\ Len(left) \in Nat
        /\ DOMAIN pending' = 1..(Len(left) + 1)
        /\ \A i \in 1..Len(left) : pending'[i] = left[i]
        /\ pending'[Len(left) + 1] = q
    BY <2>2
  <2>4. ASSUME NEW i \in DOMAIN pending', NEW j \in DOMAIN pending',
               pending'[i].kind = pending'[j].kind,
               pending'[i].kind # "rename"
        PROVE  i = j
    <3>1. CASE i \in DOMAIN left /\ j \in DOMAIN left
      BY <1>2, <2>3, <2>4, <3>1
    <3>2. CASE i \in DOMAIN left /\ j = Len(left) + 1
      BY <2>1, <2>2, <2>3, <2>4, <3>2
    <3>3. CASE i = Len(left) + 1 /\ j \in DOMAIN left
      BY <2>1, <2>2, <2>3, <2>4, <3>3
    <3> QED
      BY <2>3, <3>1, <3>2, <3>3
  <2> QED
    BY <2>4 DEF OneInFlight
<1> QED
  BY <1>1, <1>3, <1>4

\* Files stay known, and a version stands for the text it stood for.
Grow ==
    \A d \in Docs : doc[d].known =>
        /\ doc'[d].known
        /\ doc'[d].version >= doc[d].version
        /\ doc'[d].version = doc[d].version => doc'[d].text = doc[d].text

\* No server has answered since.
NothingSaid ==
    \A j \in DOMAIN events' : events'[j].type = "answer" =>
        \E k \in DOMAIN events : events'[j] = events[k]

\* A question that waits lives on while others are asked and nothing is said.
LEMMA LivingStays ==
    ASSUME Typed, DocsTyped', SaidByTheFirst, Grow, NothingSaid, TalksOn,
           setup' = setup, NEW q \in Questions, Living(q)
    PROVE  Living(q)'
<1>1. q.doc \in Docs /\ q.server \in Servers /\ q.id \in Nat /\ q.version \in Nat
  BY DEF Questions
<1>2. /\ doc[q.doc].known /\ q.version <= doc[q.doc].version
      /\ doc[q.doc].version \in Nat
  BY <1>1 DEF Living, Typed, DocsTyped
<1>3. /\ doc'[q.doc].known
      /\ doc'[q.doc].version >= doc[q.doc].version
      /\ doc'[q.doc].version = doc[q.doc].version
            => doc'[q.doc].text = doc[q.doc].text
  BY <1>1, <1>2 DEF Grow
<1>4. ASSUME NEW said, IsFor(said, q)  PROVE IsFor(said, q)'
  <2>1. SUFFICES ASSUME said.id = q.id, doc'[q.doc].version = q.version
                 PROVE  said.kind = q.kind /\ said.text = doc'[q.doc].text
    BY <1>4 DEF IsFor
  <2> QED
    BY <1>1, <1>2, <1>3, <1>4, <2>1 DEF IsFor
<1>5. \A j \in DOMAIN events' :
         events'[j].type = "answer" /\ events'[j].server = q.server
             => IsFor(events[j], q)'
  <2> SUFFICES ASSUME NEW j \in DOMAIN events', events'[j].type = "answer",
                      events'[j].server = q.server
               PROVE  IsFor(events[j], q)'
    OBVIOUS
  <2>1. PICK k \in DOMAIN events : events'[j] = events[k]
    BY DEF NothingSaid
  <2>2. IsFor(events[k], q)
    BY <2>1 DEF Living
  <2>3. PICK said : said = events[k]
    OBVIOUS
  <2>4. IsFor(said, q)'
    BY <1>4, <2>2, <2>3
  <2> QED
    BY <2>1, <2>3, <2>4 DEF IsFor
<1>6. /\ q.id <= nextId'[q.server]
      /\ \A r \in wire'[q.server] : IsFor(r, q)'
  <2>1. /\ q.id <= nextId[q.server] /\ nextId[q.server] \in Nat
        /\ \A r \in wire[q.server] : IsFor(r, q)'
    BY <1>1, <1>4 DEF Living, Typed, TalkTyped
  <2>2. PICK left :
           \/ Unasked(left)
           \/ \E d \in Docs, kind \in Kinds : AskedOne(d, kind, left)
    BY DEF TalksOn
  <2>3. CASE Unasked(left)
    BY <2>1, <2>3 DEF Unasked
  <2>4. CASE \E d \in Docs, kind \in Kinds : AskedOne(d, kind, left)
    <3>1. PICK d \in Docs, kind \in Kinds : AskedOne(d, kind, left)
      BY <2>4
    <3>2. PICK n \in Questions, r \in Requests :
             /\ ServerOf[d] \in Servers
             /\ n.id = nextId[ServerOf[d]] + 1 /\ r.id = n.id
             /\ nextId' = [nextId EXCEPT ![ServerOf[d]] = @ + 1]
             /\ wire' = [wire EXCEPT ![ServerOf[d]] = @ \cup {r}]
      BY <3>1 DEF AskedOne
    <3>3. CASE q.server = ServerOf[d]
      <4>1. nextId'[q.server] = nextId[q.server] + 1
        BY <1>1, <3>2, <3>3 DEF Typed, TalkTyped
      <4>2. wire'[q.server] = wire[q.server] \cup {r}
        BY <1>1, <3>2, <3>3 DEF Typed, TalkTyped
      <4>3. r.id # q.id
        BY <1>1, <2>1, <3>2, <3>3
      <4>4. IsFor(r, q)'
        BY <4>3 DEF IsFor
      <4> QED
        BY <1>1, <2>1, <4>1, <4>2, <4>4
    <3>4. CASE q.server # ServerOf[d]
      <4>1. nextId'[q.server] = nextId[q.server] /\ wire'[q.server] = wire[q.server]
        BY <1>1, <3>2, <3>4 DEF Typed, TalkTyped
      <4> QED
        BY <2>1, <4>1
    <3> QED
      BY <3>3, <3>4
  <2> QED
    BY <2>2, <2>3, <2>4
<1>7. q.life = 1 /\ q.kind \in setup'.kinds
  BY DEF Living
<1>8. q.version <= doc'[q.doc].version
  BY <1>1, <1>2, <1>3 DEF DocsTyped
<1> QED
  BY <1>3, <1>5, <1>6, <1>7, <1>8, Zenon DEF Living

\* Every question that waits lives on, and so does the one that is asked.
LEMMA AllLiveOn ==
    ASSUME Typed, DocsTyped', NoneCrashed, AllLiving, SaidByTheFirst, Grow,
           NothingSaid, TalksOn, setup' = setup
    PROVE  AllLiving' /\ SaidByTheFirst'
<1>1. ASSUME NEW i \in DOMAIN pending
      PROVE  \E q \in Questions : q = pending[i] /\ Living(q)'
  <2>1. PICK q : q = pending[i]
    OBVIOUS
  <2>2. q \in Questions /\ Living(q)
    BY <2>1 DEF AllLiving, Typed, TalkTyped
  <2>3. Living(q)'
    BY <2>2, LivingStays
  <2> QED
    BY <2>1, <2>2, <2>3
<1>2. PICK left \in Seq(Questions) :
         /\ Among(left, pending)
         /\ \/ Unasked(left)
            \/ \E d \in Docs, kind \in Kinds : AskedOne(d, kind, left)
  BY DEF TalksOn
<1>3. ASSUME NEW i \in DOMAIN left
      PROVE  \E q \in Questions : q = left[i] /\ Living(q)'
  <2>1. PICK k \in DOMAIN pending : left[i] = pending[k]
    BY <1>2 DEF Among
  <2> QED
    BY <1>1, <2>1
<1>4. \A j \in DOMAIN events' : events'[j].type = "answer" =>
         /\ events'[j].server \in Servers
         /\ events'[j].id \in Nat
         /\ events'[j].life = 1
         /\ events'[j].id <= nextId[events'[j].server]
  <2> SUFFICES ASSUME NEW j \in DOMAIN events', events'[j].type = "answer"
               PROVE  /\ events'[j].server \in Servers
                      /\ events'[j].id \in Nat
                      /\ events'[j].life = 1
                      /\ events'[j].id <= nextId[events'[j].server]
    OBVIOUS
  <2>1. PICK k \in DOMAIN events : events'[j] = events[k]
    BY DEF NothingSaid
  <2>2. events[k] \in Answers
    BY <2>1 DEF Typed, EventsTyped, Notices
  <2> QED
    BY <2>1, <2>2 DEF SaidByTheFirst, Answers
<1>5. CASE Unasked(left)
  <2>1. AllLiving'
    <3> SUFFICES ASSUME NEW i \in DOMAIN pending'  PROVE Living(pending[i])'
      BY DEF AllLiving
    <3>1. PICK q \in Questions : q = left[i] /\ Living(q)'
      BY <1>3, <1>5 DEF Unasked
    <3>2. q = pending'[i]
      BY <1>5, <3>1 DEF Unasked
    <3> QED
      BY <3>1, <3>2 DEF Living, IsFor
  <2>2. SaidByTheFirst'
    BY <1>4, <1>5 DEF Unasked, SaidByTheFirst
  <2> QED
    BY <2>1, <2>2
<1>6. CASE \E d \in Docs, kind \in Kinds : AskedOne(d, kind, left)
  <2>1. PICK d \in Docs, kind \in Kinds : AskedOne(d, kind, left)
    BY <1>6
  <2>2. PICK s \in Servers : s = ServerOf[d]
    BY <2>1 DEF AskedOne
  <2>3. kind \in setup'.kinds /\ doc'[d].known
    BY <2>1 DEF AskedOne
  <2>4. PICK q \in Questions, r \in Requests :
           /\ q.server = s /\ q.id = nextId[s] + 1 /\ q.kind = kind /\ q.doc = d
           /\ q.version = doc'[d].version
           /\ q.life = life[s]
           /\ r.id = q.id /\ r.kind = kind /\ r.life = q.life
           /\ r.text = doc'[d].text
           /\ pending' = Append(left, q)
           /\ nextId' = [nextId EXCEPT ![s] = @ + 1]
           /\ wire' = [wire EXCEPT ![s] = @ \cup {r}]
    <3>1. PICK q \in Questions, r \in Requests :
             /\ q.server = ServerOf[d]
             /\ q.id = nextId[ServerOf[d]] + 1
             /\ q.kind = kind
             /\ q.doc = d
             /\ q.version = doc'[d].version
             /\ q.life = life[ServerOf[d]]
             /\ r.id = q.id /\ r.kind = kind /\ r.life = q.life
             /\ r.text = doc'[d].text
             /\ pending' = Append(left, q)
             /\ nextId' = [nextId EXCEPT ![ServerOf[d]] = @ + 1]
             /\ wire' = [wire EXCEPT ![ServerOf[d]] = @ \cup {r}]
      BY <2>1 DEF AskedOne
    <3> QED
      BY <2>2, <3>1
  <2>5. q.life = 1 /\ doc'[d].version \in Nat /\ nextId[s] \in Nat
    BY <2>4 DEF NoneCrashed, DocsTyped, Typed, TalkTyped
  <2>6. /\ nextId'[s] = nextId[s] + 1
        /\ wire'[s] = wire[s] \cup {r}
        /\ \A t \in Servers \ {s} :
              nextId'[t] = nextId[t] /\ wire'[t] = wire[t]
    BY <2>4 DEF Typed, TalkTyped
  <2>7. \A o \in wire[s] : o.id # q.id
    BY <2>4, <2>5 DEF SaidByTheFirst, Typed, TalkTyped, Requests
  <2>8. Living(q)'
    <3>1. \A o \in wire'[s] : IsFor(o, q)'
      BY <2>4, <2>6, <2>7 DEF IsFor
    <3>2. ASSUME NEW j \in DOMAIN events', events'[j].type = "answer",
                 events'[j].server = s
          PROVE  IsFor(events[j], q)'
      BY <1>4, <2>4, <2>5, <3>2 DEF IsFor
    <3>3. q.id <= nextId'[s] /\ q.version <= doc'[d].version
      BY <2>4, <2>5, <2>6
    <3> QED
      BY <2>3, <2>4, <2>5, <3>1, <3>2, <3>3 DEF Living
  <2>9. /\ DOMAIN left = 1..Len(left) /\ Len(left) \in Nat
        /\ DOMAIN pending' = 1..(Len(left) + 1)
        /\ \A i \in 1..Len(left) : pending'[i] = left[i]
        /\ pending'[Len(left) + 1] = q
    BY <2>4
  <2>10. AllLiving'
    <3> SUFFICES ASSUME NEW i \in DOMAIN pending'  PROVE Living(pending[i])'
      BY DEF AllLiving
    <3>1. \E o \in Questions : o = pending'[i] /\ Living(o)'
      BY <1>3, <2>8, <2>9
    <3>2. PICK o \in Questions : o = pending'[i] /\ Living(o)'
      BY <3>1
    <3> QED
      BY <3>2 DEF Living, IsFor
  <2>11. SaidByTheFirst'
    <3>1. ASSUME NEW t \in Servers, NEW o \in wire'[t]
          PROVE  o.life = 1 /\ o.id <= nextId'[t]
      <4>1. CASE t = s /\ o = r
        BY <2>4, <2>5, <2>6, <4>1 DEF Requests
      <4>2. CASE o \in wire[t]
        <5>1. o.life = 1 /\ o.id <= nextId[t] /\ o.id \in Nat /\ nextId[t] \in Nat
          BY <4>2 DEF SaidByTheFirst, Typed, TalkTyped, Requests
        <5> QED
          BY <2>6, <5>1
      <4> QED
        BY <2>6, <3>1, <4>1, <4>2
    <3>2. ASSUME NEW j \in DOMAIN events', events'[j].type = "answer"
          PROVE  /\ events'[j].life = 1
                 /\ events'[j].id <= nextId'[events'[j].server]
      <4>1. nextId[events'[j].server] \in Nat
        BY <1>4, <3>2 DEF Typed, TalkTyped
      <4> QED
        BY <1>4, <2>5, <2>6, <3>2, <4>1
    <3> QED
      BY <3>1, <3>2 DEF SaidByTheFirst
  <2> QED
    BY <2>10, <2>11
<1> QED
  BY <1>2, <1>5, <1>6

\* What was asked about and what is on offer stay of a version, unless they
\* are forgotten.
LEMMA FixingStays ==
    ASSUME Typed, DocsTyped', Grow, AskedOfAVersion, OfferOfAVersion,
           setup' = setup, offered' \in {offered, NoOffer},
           \/ asked' = asked /\ refused' = refused /\ ActionsWait
           \/ asked' = asked /\ refused' = TRUE
           \/ asked' = NotAsked
    PROVE  AskedOfAVersion' /\ OfferOfAVersion'
<1>1. AskedOfAVersion'
  <2>1. SUFFICES ASSUME asked' # NotAsked
                 PROVE  /\ doc'[asked'.doc].known
                        /\ asked'.version <= doc'[asked'.doc].version
    BY DEF AskedOfAVersion
  <2>2. /\ asked' = asked /\ asked.doc \in Docs /\ asked.version \in Nat
        /\ doc[asked.doc].known /\ asked.version <= doc[asked.doc].version
    BY <2>1 DEF AskedOfAVersion, Typed, FixingTyped
  <2>3. /\ doc'[asked.doc].known
        /\ doc'[asked.doc].version >= doc[asked.doc].version
    BY <2>2 DEF Grow
  <2>4. doc[asked.doc].version \in Nat /\ doc'[asked.doc].version \in Nat
    BY <2>2 DEF Typed, DocsTyped
  <2> QED
    BY <2>2, <2>3, <2>4
<1>2. ASSUME offered' # NoOffer
      PROVE  /\ offered' = offered /\ offered # NoOffer
             /\ offered.doc \in Docs
             /\ doc'[offered.doc].known
             /\ "codeAction" \in setup'.kinds
  BY <1>2 DEF OfferOfAVersion, Typed, FixingTyped, Grow
<1>3. ASSUME offered' # NoOffer, asked' # NotAsked,
             offered'.doc = asked'.doc, offered'.caret = asked'.caret,
             doc'[asked'.doc].version = asked'.version,
             ~InFlight("codeAction")', ~refused'
      PROVE  offered'.text = doc'[offered'.doc].text
  <2>1. /\ offered' = offered /\ offered # NoOffer
        /\ asked' = asked /\ asked # NotAsked
        /\ asked.doc \in Docs /\ asked.version \in Nat
        /\ offered.doc = asked.doc /\ offered.caret = asked.caret
    BY <1>2, <1>3 DEF Typed, FixingTyped
  <2>2. ~InFlight("codeAction") /\ ~refused
    BY <1>3, <2>1 DEF ActionsWait
  <2>3. /\ doc[asked.doc].known /\ asked.version <= doc[asked.doc].version
        /\ doc[asked.doc].version \in Nat
    BY <2>1 DEF AskedOfAVersion, Typed, DocsTyped
  <2>4. /\ doc'[asked.doc].version >= doc[asked.doc].version
        /\ doc'[asked.doc].version = doc[asked.doc].version
              => doc'[asked.doc].text = doc[asked.doc].text
    BY <2>1, <2>3 DEF Grow
  <2>5. doc'[asked.doc].version = asked.version
    BY <1>3, <2>1
  <2>6. doc[asked.doc].version = asked.version
    BY <2>1, <2>3, <2>4, <2>5
  <2>7. offered.text = doc[offered.doc].text
    BY <2>1, <2>2, <2>6 DEF OfferOfAVersion
  <2> QED
    BY <2>1, <2>4, <2>5, <2>6, <2>7
<1>4. OfferOfAVersion'
  BY <1>2, <1>3 DEF OfferOfAVersion
<1> QED
  BY <1>1, <1>4

\* A step of the loop keeps the invariant if what it does to the questions and
\* the offer does, as far as only they tell.
LEMMA LoopKeeps ==
    ASSUME QuestionsInv, setup' = setup, UNCHANGED <<alive, life>>,
           EditorTyped', ServersTyped', DocsTyped', EventsTyped', FixingTyped',
           OneEnd', TalksOn, Grow, NothingSaid,
           AskedOfAVersion /\ OfferOfAVersion /\ AllLiving /\ NoneCrashed
               => AskedOfAVersion' /\ OfferOfAVersion',
           AnswersUntilCrash', OfferFitsText'
    PROVE  QuestionsInv'
<1>1. Typed'
  BY TalkStaysTyped DEF Typed, QuestionsInv
<1>2. OneInFlight'
  BY OneStaysInFlight DEF QuestionsInv
<1>3. UntilCrash'
  <2>1. SUFFICES ASSUME NoneCrashed'
                 PROVE  /\ AllLiving' /\ SaidByTheFirst'
                        /\ AskedOfAVersion' /\ OfferOfAVersion'
    BY DEF UntilCrash
  <2>2. NoneCrashed
    BY <2>1 DEF NoneCrashed
  <2>3. /\ Typed /\ AllLiving /\ SaidByTheFirst
        /\ AskedOfAVersion /\ OfferOfAVersion
    BY <2>2 DEF QuestionsInv, UntilCrash
  <2> QED
    BY <2>2, <2>3, AllLiveOn
<1> QED
  BY <1>1, <1>2, <1>3 DEF QuestionsInv

\* Nothing is asked and nothing cancelled.
LEMMA UnaskedTalksOn ==
    ASSUME Typed, UNCHANGED talk
    PROVE  TalksOn /\ ActionsWait
<1>1. pending \in Seq(Questions) /\ Among(pending, pending) /\ Unasked(pending)
  BY AmongItself DEF Typed, TalkTyped, Unasked, talk
<1>2. ActionsWait
  BY DEF ActionsWait, InFlight, talk
<1> QED
  BY <1>1, <1>2 DEF TalksOn

\* What was said and not handled, or all of it but the first, is in order.
LEMMA EventsStay ==
    ASSUME Typed, OneEnd, setup' = setup, UNCHANGED <<alive, life>>,
           \A s \in Servers : client[s] = "ready" => client'[s] = "ready",
           events' = events \/ (events # <<>> /\ events' = Tail(events))
    PROVE  EventsTyped' /\ OneEnd' /\ NothingSaid
<1>1. events \in Seq(Answers \cup Notices)
  BY DEF Typed, EventsTyped
<1>2. CASE events' = events
  <2>1. \A i \in DOMAIN events : events[i].server \in Servers
    BY <1>1 DEF Answers, Notices
  <2>2. OneEnd'
    BY <1>2, <2>1 DEF OneEnd
  <2> QED
    BY <1>1, <1>2, <2>2 DEF EventsTyped, NothingSaid
<1>3. CASE events # <<>> /\ events' = Tail(events)
  <2>1. /\ events' \in Seq(Answers \cup Notices)
        /\ \A i \in DOMAIN events' :
              /\ i \in Nat /\ i + 1 \in DOMAIN events
              /\ events'[i] = events[i + 1]
              /\ events[i + 1].server \in Servers
    <3>1. /\ events' \in Seq(Answers \cup Notices)
          /\ Len(events') = Len(events) - 1
          /\ \A i \in 1..Len(events') : events'[i] = events[i + 1]
      BY <1>1, <1>3
    <3>2. \A i \in DOMAIN events' : i \in Nat /\ i + 1 \in DOMAIN events
      BY <1>1, <3>1
    <3> QED
      BY <1>1, <3>1, <3>2 DEF Answers, Notices
  <2>2. ASSUME NEW i \in DOMAIN events', events'[i].type = "closed"
        PROVE  /\ ~alive'[events'[i].server]
               /\ client'[events'[i].server] = "ready"
               /\ life'[events'[i].server] < setup'.maxLives
    BY <2>1, <2>2 DEF OneEnd
  <2>3. ASSUME NEW i \in DOMAIN events', NEW j \in DOMAIN events',
               events'[i].type = "closed", events'[j].type = "closed",
               events'[i].server = events'[j].server
        PROVE  i = j
    <3>1. i + 1 = j + 1
      BY <2>1, <2>3 DEF OneEnd
    <3>2. i \in Nat /\ j \in Nat
      BY <2>1
    <3> QED
      BY <3>1, <3>2
  <2>4. OneEnd'
    BY <2>2, <2>3 DEF OneEnd
  <2>5. NothingSaid
    BY <2>1 DEF NothingSaid
  <2> QED
    BY <2>1, <2>4, <2>5 DEF EventsTyped
<1> QED
  BY <1>2, <1>3

(***************************************************************************)
(* Each action keeps the invariant.                                        *)
(***************************************************************************)
\* A step after which the batch is not over shows no offer to check.
LEMMA NoOfferInBatch ==
    ASSUME batch' = TRUE
    PROVE  OfferFitsText'
BY DEF OfferFitsText

\* A step that acts on no answer acts on no wrong one.
LEMMA NoAnswerActed ==
    ASSUME acted' = NotActed
    PROVE  AnswersUntilCrash'
BY DEF AnswersUntilCrash, AnswersItsQuestion

\* Edits, motions, other files and the focus.
LEMMA QuietlyKeeps ==
    ASSUME QuestionsInv, setup' = setup, EditorTyped', Handled, Quietly
    PROVE  QuestionsInv'
<1>1. /\ Typed /\ OneEnd
      /\ UNCHANGED <<alive, life>> /\ client' = client
      /\ doc' = doc /\ batch' = TRUE /\ events' = events
      /\ asked' = asked /\ offered' = offered /\ acted' = NotActed
      /\ refused' = refused
      /\ UNCHANGED talk
  BY DEF QuestionsInv, Handled, Quietly, servers, fixing
<1>2. ServersTyped' /\ FixingTyped'
  BY <1>1 DEF Typed, ServersTyped, FixingTyped
<1>3. DocsTyped'
  BY <1>1 DEF Typed, DocsTyped, ServerOf, Open
<1>4. TalksOn /\ ActionsWait
  BY <1>1, UnaskedTalksOn
<1>5. Grow
  BY <1>1 DEF Grow, Typed, DocsTyped
<1>6. EventsTyped' /\ OneEnd' /\ NothingSaid
  BY <1>1, EventsStay
<1>7. AskedOfAVersion /\ OfferOfAVersion => AskedOfAVersion' /\ OfferOfAVersion'
  BY <1>1, <1>3, <1>4, <1>5, FixingStays
<1> QED
  BY <1>1, <1>2, <1>3, <1>4, <1>5, <1>6, <1>7, LoopKeeps, NoOfferInBatch,
     NoAnswerActed

\* A question asked of a server, if it can be, after those that still wait.
LEMMA AskServerTalks ==
    ASSUME SetupsAssumption, Typed, DocsTyped', setup' = setup, doc' = doc,
           NEW kind \in Kinds, NEW retries \in 0..MaxRetries,
           NEW waiting \in Seq(Questions), Among(waiting, pending),
           AskServer(kind, retries, waiting)
    PROVE  /\ TalksOn
           /\ \A j \in DOMAIN waiting : waiting[j].kind # kind =>
                 \E i \in DOMAIN pending' : pending'[i] = waiting[j]
<1>1. PICK left : left = Cancelled(kind, waiting)
  OBVIOUS
<1>2. /\ Among(left, waiting)
      /\ KeepsAllBut(kind, left, waiting)
      /\ \A i \in DOMAIN left : left[i].kind # kind
  BY <1>1, CancelledLeaves
<1>3. Among(left, pending) /\ left \in Seq(Questions)
  BY <1>2, AmongTransitive DEF Among
<1>4. CASE CanAsk(shown, kind, doc)
  <2>1. Ask(shown, kind, retries, doc', left) /\ CanAsk(shown, kind, doc')
    BY <1>1, <1>4 DEF AskServer
  <2>2. shown \in Open
    BY DEF Typed, EditorTyped
  <2>3. AskedOne(shown, kind, left)
    BY <1>3, <2>1, <2>2, AskAsksOne
  <2>4. shown \in Docs
    BY <2>2, SetupFacts DEF Typed, EditorTyped
  <2>5. TalksOn
    BY <1>2, <1>3, <2>3, <2>4 DEF TalksOn
  <2>6. PICK q \in Questions : pending' = Append(left, q)
    BY <2>3 DEF AskedOne
  <2>7. \A i \in DOMAIN left : i \in DOMAIN pending' /\ pending'[i] = left[i]
    BY <1>3, <2>6
  <2> QED
    BY <1>2, <2>5, <2>7 DEF KeepsAllBut
<1>5. CASE ~CanAsk(shown, kind, doc)
  <2>1. Unasked(left)
    BY <1>1, <1>5 DEF AskServer, Unasked
  <2>2. TalksOn
    BY <1>3, <2>1 DEF TalksOn
  <2> QED
    BY <1>2, <2>1, <2>2 DEF KeepsAllBut, Unasked
<1> QED
  BY <1>4, <1>5

\* The key for hover.
LEMMA AskHoverKeeps ==
    ASSUME SetupsAssumption, QuestionsInv, setup' = setup, AskHover
    PROVE  QuestionsInv'
<1>1. /\ Typed /\ OneEnd
      /\ UNCHANGED <<alive, life>> /\ client' = client
      /\ doc' = doc /\ batch' = TRUE /\ events' = events
      /\ asked' = asked /\ offered' = offered /\ acted' = NotActed
      /\ refused' = refused
      /\ UNCHANGED <<editor, text>>
      /\ AskServer("hover", 0, pending)
  BY DEF QuestionsInv, AskHover, Handled, servers, fixing
<1>2. EditorTyped' /\ ServersTyped' /\ FixingTyped'
  BY <1>1 DEF Typed, EditorTyped, ServersTyped, FixingTyped, editor, Open
<1>3. DocsTyped'
  BY <1>1 DEF Typed, DocsTyped, ServerOf, Open
<1>4. /\ TalksOn
      /\ \A j \in DOMAIN pending : pending[j].kind # "hover" =>
            \E i \in DOMAIN pending' : pending'[i] = pending[j]
  <2>1. /\ "hover" \in Kinds /\ 0 \in 0..MaxRetries
        /\ pending \in Seq(Questions) /\ Among(pending, pending)
    BY <1>1, AmongItself DEF Kinds, Typed, TalkTyped, SetupsAssumption
  <2>2. PICK waiting : waiting = pending
    OBVIOUS
  <2> QED
    BY <1>1, <1>3, <2>1, <2>2, AskServerTalks
<1>5. ActionsWait
  BY <1>4 DEF ActionsWait, InFlight
<1>6. Grow
  BY <1>1 DEF Grow, Typed, DocsTyped
<1>7. EventsTyped' /\ OneEnd' /\ NothingSaid
  BY <1>1, EventsStay
<1>8. AskedOfAVersion /\ OfferOfAVersion => AskedOfAVersion' /\ OfferOfAVersion'
  BY <1>1, <1>3, <1>5, <1>6, FixingStays
<1> QED
  BY <1>1, <1>2, <1>3, <1>4, <1>6, <1>7, <1>8, LoopKeeps, NoOfferInBatch,
     NoAnswerActed

\* The answer to the prompt for a new name.
LEMMA AskRenameKeeps ==
    ASSUME SetupsAssumption, QuestionsInv, setup' = setup, AskRename
    PROVE  QuestionsInv'
<1>1. /\ Typed /\ OneEnd
      /\ UNCHANGED <<alive, life>> /\ client' = client
      /\ doc' = doc /\ batch' = TRUE /\ events' = events
      /\ asked' = asked /\ offered' = offered /\ acted' = NotActed
      /\ refused' = refused
      /\ UNCHANGED <<editor, text>>
      /\ CanAsk(shown, "rename", doc')
      /\ Ask(shown, "rename", 0, doc', pending)
  BY DEF QuestionsInv, AskRename, Handled, servers, fixing
<1>2. EditorTyped' /\ ServersTyped' /\ FixingTyped'
  BY <1>1 DEF Typed, EditorTyped, ServersTyped, FixingTyped, editor, Open
<1>3. DocsTyped'
  BY <1>1 DEF Typed, DocsTyped, ServerOf, Open
<1>4. TalksOn /\ ActionsWait
  <2>1. PICK left : left = pending
    OBVIOUS
  <2>2. /\ "rename" \in Kinds /\ 0 \in 0..MaxRetries
        /\ left \in Seq(Questions) /\ Among(left, pending)
        /\ shown \in Open /\ shown \in Docs
    BY <1>1, <2>1, AmongItself, SetupFacts
       DEF Kinds, Typed, TalkTyped, EditorTyped, SetupsAssumption
  <2>3. AskedOne(shown, "rename", left)
    BY <1>1, <1>3, <2>1, <2>2, AskAsksOne
  <2>4. TalksOn
    BY <2>2, <2>3 DEF TalksOn
  <2>5. PICK q \in Questions : pending' = Append(left, q)
    BY <2>3 DEF AskedOne
  <2>6. \A i \in DOMAIN left : i \in DOMAIN pending' /\ pending'[i] = left[i]
    BY <2>2, <2>5
  <2> QED
    BY <2>1, <2>4, <2>6 DEF ActionsWait, InFlight
<1>5. Grow
  BY <1>1 DEF Grow, Typed, DocsTyped
<1>6. EventsTyped' /\ OneEnd' /\ NothingSaid
  BY <1>1, EventsStay
<1>7. AskedOfAVersion /\ OfferOfAVersion => AskedOfAVersion' /\ OfferOfAVersion'
  BY <1>1, <1>3, <1>4, <1>5, FixingStays
<1> QED
  BY <1>1, <1>2, <1>3, <1>4, <1>5, <1>6, <1>7, LoopKeeps, NoOfferInBatch,
     NoAnswerActed

\* What is told at the end of a batch is typed, and tells of the same files.
LEMMA SyncTells ==
    ASSUME SetupsAssumption, Typed, setup' = setup, batch' = FALSE,
           UNCHANGED <<editor, text, servers>>,
           doc' = [d \in Docs |-> Synced(d)]
    PROVE  DocsTyped' /\ Grow
<1>1. ASSUME NEW d \in Docs
      PROVE  /\ doc'[d] \in [known : BOOLEAN, version : Nat, text : Nat]
             /\ doc'[d].known => /\ ServerOf[d] \in Servers
                                 /\ client[ServerOf[d]] = "ready"
                                 /\ doc'[d].text = text[d]
             /\ doc[d].known =>
                   /\ doc'[d].known
                   /\ doc'[d].version >= doc[d].version
                   /\ doc'[d].version = doc[d].version
                         => doc'[d].text = doc[d].text
  <2>1. /\ doc'[d] = Synced(d)
        /\ doc[d] \in [known : BOOLEAN, version : Nat, text : Nat]
        /\ text[d] \in Nat
        /\ ServerOf[d] \in Servers \cup {NoServer}
    BY SetupFacts DEF Typed, DocsTyped, EditorTyped
  <2>2. doc[d].known => ServerOf[d] \in Servers /\ client[ServerOf[d]] = "ready"
    BY DEF Typed, DocsTyped
  <2>3. NoServer \notin Servers
    BY SetupsAssumption DEF SetupsAssumption
  <2>4. CASE ServerOf[d] = NoServer \/ client[ServerOf[d]] # "ready"
    BY <2>1, <2>2, <2>3, <2>4 DEF Synced
  <2>5. CASE ServerOf[d] # NoServer /\ client[ServerOf[d]] = "ready"
    <3>1. CASE ~doc[d].known
      BY <2>1, <2>5, <3>1 DEF Synced
    <3>2. CASE doc[d].known /\ doc[d].text = text[d]
      BY <2>1, <2>5, <3>2 DEF Synced
    <3>3. CASE doc[d].known /\ doc[d].text # text[d]
      <4>1. doc'[d] = [known |-> TRUE, version |-> doc[d].version + 1,
                       text |-> text[d]]
        BY <2>1, <2>5, <3>3 DEF Synced
      <4>2. doc[d].version \in Nat
        BY <2>1
      <4>3. /\ doc'[d].known
            /\ doc'[d].version = doc[d].version + 1
            /\ doc'[d].text = text[d]
        BY <4>1
      <4>4. /\ doc'[d].version >= doc[d].version
            /\ doc'[d].version # doc[d].version
        BY <4>2, <4>3
      <4>5. doc'[d] \in [known : BOOLEAN, version : Nat, text : Nat]
        <5>1. doc[d].version + 1 \in Nat /\ text[d] \in Nat
          BY <2>1, <4>2
        <5>2. [known |-> TRUE, version |-> doc[d].version + 1, text |-> text[d]]
                  \in [known : BOOLEAN, version : Nat, text : Nat]
          BY <5>1
        <5> QED
          BY <4>1, <5>2, Zenon
      <4> QED
        BY <2>1, <2>5, <4>3, <4>4, <4>5
    <3> QED
      BY <3>1, <3>2, <3>3
  <2> QED
    BY <2>4, <2>5
<1>2. ServerOf' = ServerOf /\ text' = text /\ client' = client
  BY DEF ServerOf, Open, servers
<1>3. doc' \in [Docs -> [known : BOOLEAN, version : Nat, text : Nat]]
  BY <1>1
<1> QED
  BY <1>1, <1>2, <1>3 DEF DocsTyped, Grow

\* The sync and the question about code actions.
LEMMA EndBatchKeeps ==
    ASSUME SetupsAssumption, QuestionsInv, setup' = setup, EndBatch
    PROVE  QuestionsInv'
<1>1. /\ Typed /\ OneEnd
      /\ UNCHANGED <<alive, life>> /\ client' = client
      /\ batch' = FALSE /\ events' = events /\ acted' = NotActed
      /\ UNCHANGED <<editor, text, servers>>
      /\ shown' = shown /\ caret' = caret /\ focus' = focus
      /\ doc' = [d \in Docs |-> Synced(d)]
  BY DEF QuestionsInv, EndBatch, servers, editor
<1>2. DocsTyped' /\ Grow
  BY <1>1, SyncTells
<1>3. EditorTyped' /\ ServersTyped'
  BY <1>1 DEF Typed, EditorTyped, ServersTyped, Open
<1>4. PICK docs : docs = doc'
  OBVIOUS
<1>5. SettleCodeActions(docs)
  BY <1>1, <1>4 DEF EndBatch
<1> DEFINE key == Key(docs)
<1>6. /\ key.doc = shown /\ key.caret = caret[shown]
      /\ key.version = doc'[shown].version
      /\ shown \in Docs /\ shown \in Open
      /\ caret[shown] \in Carets /\ doc'[shown].version \in Nat
  BY <1>1, <1>2, <1>4, SetupFacts DEF Key, Typed, EditorTyped, DocsTyped
<1>7. /\ offered' = IF IsHere(offered) THEN offered ELSE NoOffer
      /\ \/ /\ MayAsk(docs) /\ asked # key /\ asked' = key /\ refused' = FALSE
            /\ \/ /\ CanAsk(shown, "codeAction", doc')
                  /\ Ask(shown, "codeAction", 0, doc', pending)
               \/ /\ ~CanAsk(shown, "codeAction", doc')
                  /\ UNCHANGED talk
         \/ /\ ~(MayAsk(docs) /\ asked # key)
            /\ asked' = asked /\ refused' = refused /\ UNCHANGED talk
  BY <1>4, <1>5 DEF SettleCodeActions
<1> HIDE DEF key
<1>8. FixingTyped'
  BY <1>1, <1>6, <1>7 DEF Typed, FixingTyped
<1>9. ASSUME UNCHANGED talk  PROVE TalksOn /\ ActionsWait
  BY <1>1, <1>9, UnaskedTalksOn
<1>10. ASSUME MayAsk(docs), CanAsk(shown, "codeAction", doc'),
              Ask(shown, "codeAction", 0, doc', pending)
       PROVE  TalksOn /\ InFlight("codeAction")'
  <2>1. PICK left : left = pending
    OBVIOUS
  <2>2. /\ "codeAction" \in Kinds /\ 0 \in 0..MaxRetries
        /\ left \in Seq(Questions) /\ Among(left, pending)
    BY <1>1, <2>1, AmongItself
       DEF Kinds, Typed, TalkTyped, SetupsAssumption
  <2>3. AskedOne(shown, "codeAction", left)
    BY <1>1, <1>2, <1>6, <1>10, <2>1, <2>2, AskAsksOne
  <2>4. \A i \in DOMAIN left : left[i].kind # "codeAction"
    BY <1>10, <2>1 DEF MayAsk, InFlight
  <2>5. TalksOn
    BY <1>6, <2>2, <2>3, <2>4 DEF TalksOn
  <2>6. PICK q \in Questions :
           q.kind = "codeAction" /\ pending' = Append(left, q)
    BY <2>3 DEF AskedOne
  <2>7. Len(left) + 1 \in DOMAIN pending' /\ pending'[Len(left) + 1] = q
    BY <2>2, <2>6
  <2> QED
    BY <2>5, <2>6, <2>7 DEF InFlight
<1>11. TalksOn /\ ActionsWait
  BY <1>7, <1>9, <1>10 DEF ActionsWait
<1>12. EventsTyped' /\ OneEnd' /\ NothingSaid
  BY <1>1, EventsStay
<1>13. ASSUME AskedOfAVersion, OfferOfAVersion
       PROVE  AskedOfAVersion' /\ OfferOfAVersion'
  <2>1. CASE asked' = asked /\ refused' = refused
    BY <1>1, <1>2, <1>7, <1>11, <1>13, <2>1, FixingStays
  <2>2. CASE MayAsk(docs) /\ asked # key /\ asked' = key
    <3>1. doc'[shown].known
      BY <1>4, <2>2 DEF MayAsk
    <3>2. AskedOfAVersion'
      BY <1>6, <2>2, <3>1 DEF AskedOfAVersion
    <3>3. offered' # NoOffer =>
             /\ offered' = offered /\ offered.doc \in Docs
             /\ doc[offered.doc].known /\ "codeAction" \in setup'.kinds
             /\ doc'[offered.doc].known
      BY <1>1, <1>2, <1>7, <1>13 DEF OfferOfAVersion, Typed, FixingTyped, Grow
    <3>4. offered' # NoOffer => CanAsk(shown, "codeAction", doc')
      BY <3>1, <3>3 DEF CanAsk
    <3>5. offered' # NoOffer => InFlight("codeAction")'
      BY <1>7, <1>10, <2>2, <3>4, Zenon
    <3> QED
      BY <3>2, <3>3, <3>5 DEF OfferOfAVersion
  <2> QED
    BY <1>7, <2>1, <2>2
<1>14. OfferFitsText'
  <2>1. SUFFICES ASSUME NoneCrashed', focus', IsHere(offered)',
                        ~InFlight("codeAction")', ~refused'
                 PROVE  offered'.text = text'[shown']
    BY DEF OfferFitsText
  <2>2. AskedOfAVersion /\ OfferOfAVersion
    BY <1>1, <2>1 DEF QuestionsInv, UntilCrash, NoneCrashed
  <2>3. offered'.doc = shown /\ offered'.caret = caret[shown]
    BY <1>1, <2>1 DEF IsHere
  <2>4. offered' = offered /\ offered # NoOffer
    <3>1. NoOffer.doc \notin Docs
      BY SetupsAssumption DEF SetupsAssumption, NoOffer
    <3> QED
      BY <1>6, <1>7, <2>3, <3>1
  <2>5. doc[shown].known /\ "codeAction" \in setup.kinds
    BY <2>2, <2>3, <2>4 DEF OfferOfAVersion
  <2>6. /\ doc'[shown].known
        /\ doc'[shown].version >= doc[shown].version
        /\ doc'[shown].version = doc[shown].version
              => doc'[shown].text = doc[shown].text
    BY <1>2, <1>6, <2>5 DEF Grow
  <2>7. ~InFlight("codeAction")
    BY <1>11, <2>1 DEF ActionsWait
  <2>8. MayAsk(docs) /\ CanAsk(shown, "codeAction", doc')
    BY <1>1, <1>4, <2>1, <2>5, <2>6, <2>7 DEF MayAsk, CanAsk
  <2>9. asked = key /\ ~refused
    BY <1>7, <1>10, <2>1, <2>8
  <2>10. asked # NotAsked
    <3>1. NotAsked.doc \notin Docs
      BY SetupsAssumption DEF SetupsAssumption, NotAsked
    <3> QED
      BY <1>6, <2>9, <3>1
  <2>11. doc'[shown].version <= doc[shown].version
    BY <1>6, <2>2, <2>9, <2>10 DEF AskedOfAVersion
  <2>12. doc'[shown].version = doc[shown].version
    <3>1. doc[shown].version \in Nat
      BY <1>1, <1>6 DEF Typed, DocsTyped
    <3> QED
      BY <1>6, <2>6, <2>11, <3>1
  <2>13. offered.text = doc[shown].text
    BY <1>6, <2>2, <2>3, <2>4, <2>7, <2>9, <2>10, <2>12 DEF OfferOfAVersion
  <2>14. doc'[shown].text = text'[shown]
    BY <1>1, <1>2, <1>6, <2>6 DEF DocsTyped
  <2> QED
    BY <1>1, <2>4, <2>6, <2>12, <2>13, <2>14
<1> QED
  BY <1>1, <1>2, <1>3, <1>8, <1>11, <1>12, <1>13, <1>14, LoopKeeps, NoAnswerActed

\* What is said of an answer that is acted upon.
LEMMA ActsOnItsQuestion ==
    ASSUME Typed, UntilCrash, UNCHANGED <<alive, life>>,
           NEW q, NEW e,
           \E i \in DOMAIN pending : q = pending[i],
           \E j \in DOMAIN events : e = events[j],
           e.type = "answer", Matches(q, e), Act(q, e)
    PROVE  AnswersUntilCrash'
<1>1. SUFFICES ASSUME NoneCrashed
               PROVE  e.kind = q.kind /\ e.life = q.life /\ e.server = q.server
  BY DEF AnswersUntilCrash, AnswersItsQuestion, Act, NoneCrashed
<1>2. Living(q) /\ e.life = 1
  BY <1>1 DEF UntilCrash, AllLiving, SaidByTheFirst
<1>3. IsFor(e, q)
  BY <1>2 DEF Living, Matches
<1> QED
  BY <1>2, <1>3 DEF Living, IsFor, Matches

\* A server that cancelled its work because the text changed under it.
LEMMA ModifiedKeeps ==
    ASSUME SetupsAssumption, Typed, DocsTyped', setup' = setup, doc' = doc,
           NEW i \in DOMAIN pending, NEW q, q = pending[i],
           NEW left, left = RemoveAt(pending, i), Modified(q, left)
    PROVE  /\ TalksOn
           /\ offered' = offered /\ text' = text /\ acted' = NotActed
           /\ \/ q.kind # "codeAction" /\ asked' = asked /\ ActionsWait
              \/ asked' = NotAsked
<1>1. /\ pending \in Seq(Questions) /\ q \in Questions
      /\ Among(left, pending) /\ left \in Seq(Questions)
      /\ KeepsAllBut(q.kind, left, pending)
  <2>1. pending \in Seq(Questions)
    BY DEF Typed, TalkTyped
  <2> QED
    BY <2>1, RemovedLeaves DEF Among
<1>2. offered' = offered /\ text' = text /\ acted' = NotActed
  BY DEF Modified
<1>3. CASE q.kind = "codeAction"
  <2>1. asked' = NotAsked /\ Unasked(left)
    BY <1>3 DEF Modified, AskAgain, Unasked
  <2>2. TalksOn
    BY <1>1, <2>1 DEF TalksOn
  <2> QED
    BY <1>2, <2>1, <2>2
<1>4. CASE q.kind = "hover" /\ q.retries < MaxRetries
  <2>1. asked' = asked /\ AskServer("hover", q.retries + 1, left)
    BY <1>4 DEF Modified
  <2>2. PICK n \in 0..MaxRetries : n = q.retries + 1
    BY <1>1, <1>4, SetupsAssumption DEF SetupsAssumption, Questions
  <2>3. /\ TalksOn
        /\ \A j \in DOMAIN left : left[j].kind # "hover" =>
              \E k \in DOMAIN pending' : pending'[k] = left[j]
    <3>1. AskServer("hover", n, left) /\ "hover" \in Kinds
      BY <2>1, <2>2 DEF Kinds
    <3> QED
      BY <1>1, <3>1, AskServerTalks
  <2>4. ActionsWait
    <3>1. SUFFICES ASSUME NEW j \in DOMAIN pending, pending[j].kind = "codeAction"
                   PROVE  \E k \in DOMAIN pending' : pending'[k].kind = "codeAction"
      BY DEF ActionsWait, InFlight
    <3>2. PICK k \in DOMAIN left : left[k] = pending[j]
      BY <1>1, <1>4, <3>1 DEF KeepsAllBut
    <3> QED
      BY <2>3, <3>1, <3>2
  <2> QED
    BY <1>2, <1>4, <2>1, <2>3, <2>4
<1>5. CASE q.kind # "codeAction" /\ ~(q.kind = "hover" /\ q.retries < MaxRetries)
  <2>1. asked' = asked /\ Unasked(left)
    BY <1>5 DEF Modified, Unasked
  <2>2. TalksOn
    BY <1>1, <2>1 DEF TalksOn
  <2>3. ActionsWait
    BY <1>1, <1>5, <2>1 DEF ActionsWait, InFlight, KeepsAllBut, Unasked
  <2> QED
    BY <1>2, <1>5, <2>1, <2>2, <2>3
<1> QED
  BY <1>3, <1>4, <1>5

\* A server that could not answer, or would not.
LEMMA RefusedKeeps ==
    ASSUME Typed, DocsTyped', setup' = setup, doc' = doc, Grow,
           NEW i \in DOMAIN pending, NEW q, q = pending[i],
           NEW left, left = RemoveAt(pending, i), Refused(left),
           refused' = IF q.kind = "codeAction" THEN TRUE ELSE refused
    PROVE  /\ TalksOn /\ FixingTyped' /\ text' = text /\ acted' = NotActed
           /\ AskedOfAVersion /\ OfferOfAVersion
                  => AskedOfAVersion' /\ OfferOfAVersion'
<1>1. /\ pending \in Seq(Questions)
      /\ Among(left, pending) /\ left \in Seq(Questions)
      /\ KeepsAllBut(q.kind, left, pending)
  <2>1. pending \in Seq(Questions)
    BY DEF Typed, TalkTyped
  <2> QED
    BY <2>1, RemovedLeaves DEF Among
<1>2. /\ Unasked(left) /\ text' = text /\ acted' = NotActed
      /\ asked' = asked /\ offered' = offered
  BY DEF Refused, Unasked, fixing
<1>3. TalksOn
  BY <1>1, <1>2 DEF TalksOn
<1>4. FixingTyped'
  BY <1>2 DEF Typed, FixingTyped
<1>5. CASE q.kind = "codeAction"
  BY <1>2, <1>3, <1>4, <1>5, FixingStays
<1>6. CASE q.kind # "codeAction"
  <2>1. ActionsWait
    BY <1>1, <1>2, <1>6 DEF ActionsWait, InFlight, KeepsAllBut, Unasked
  <2> QED
    BY <1>2, <1>3, <1>4, <1>6, <2>1, FixingStays
<1> QED
  BY <1>5, <1>6

\* A question that was answered.
LEMMA AnsweredKeeps ==
    ASSUME SetupsAssumption, Typed, UntilCrash, DocsTyped', setup' = setup,
           doc' = doc, UNCHANGED <<alive, life>>, Grow,
           NEW i \in DOMAIN pending, NEW q, q = pending[i],
           NEW left, left = RemoveAt(pending, i),
           NEW e, \E j \in DOMAIN events : e = events[j],
           e.type = "answer", Matches(q, e), Answered(q, e, left),
           refused' = IF q.kind = "codeAction" THEN FALSE ELSE refused
    PROVE  /\ TalksOn /\ FixingTyped' /\ text' \in [Docs -> Nat]
           /\ AnswersUntilCrash'
           /\ AskedOfAVersion /\ OfferOfAVersion /\ AllLiving /\ NoneCrashed
                  => AskedOfAVersion' /\ OfferOfAVersion'
<1>1. /\ pending \in Seq(Questions) /\ q \in Questions
      /\ Among(left, pending) /\ left \in Seq(Questions)
      /\ KeepsAllBut(q.kind, left, pending)
      /\ text \in [Docs -> Nat]
  <2>1. pending \in Seq(Questions)
    BY DEF Typed, TalkTyped
  <2> QED
    BY <2>1, RemovedLeaves DEF Among, Typed, EditorTyped
<1>2. q.doc \in Docs /\ q.caret \in Carets
  BY <1>1 DEF Questions
<1>3. Unasked(left)
  BY DEF Answered, Unasked
<1>4. TalksOn
  BY <1>1, <1>3 DEF TalksOn
<1>5. ASSUME asked' = asked, offered' = offered,
             q.kind # "codeAction", AskedOfAVersion, OfferOfAVersion
      PROVE  AskedOfAVersion' /\ OfferOfAVersion'
  <2>1. ActionsWait
    BY <1>1, <1>3, <1>5 DEF ActionsWait, InFlight, KeepsAllBut, Unasked
  <2> QED
    BY <1>5, <2>1, FixingStays
<1>6. ASSUME asked' = asked, offered' = offered  PROVE FixingTyped'
  BY <1>6 DEF Typed, FixingTyped
<1> DEFINE current == SameVersion(q) /\ focus /\ StillThere(q)
<1>7. CASE q.kind = "codeAction" /\ current
  <2>1. /\ offered' = [doc |-> q.doc, caret |-> q.caret, text |-> e.text]
        /\ Act(q, e) /\ asked' = asked /\ text' = text
    BY <1>7 DEF Answered
  <2>2. FixingTyped'
    BY <1>2, <2>1 DEF Typed, FixingTyped
  <2>3. ASSUME AskedOfAVersion, AllLiving, NoneCrashed
        PROVE  AskedOfAVersion' /\ OfferOfAVersion'
    <3>1. Living(q)
      BY <2>3 DEF AllLiving
    <3>2. IsFor(e, q)
      BY <3>1 DEF Living, Matches
    <3>3. e.text = doc[q.doc].text
      BY <1>7, <3>2 DEF IsFor, Matches, SameVersion
    <3>4. offered'.doc = q.doc /\ offered'.text = doc'[q.doc].text
      BY <2>1, <3>3
    <3>5. doc'[q.doc].known /\ "codeAction" \in setup'.kinds
      BY <1>7, <3>1 DEF Living
    <3>6. AskedOfAVersion'
      BY <2>1, <2>3 DEF AskedOfAVersion
    <3> QED
      BY <3>4, <3>5, <3>6 DEF OfferOfAVersion
  <2> QED
    BY <1>1, <1>4, <2>1, <2>2, <2>3, ActsOnItsQuestion
<1>8. CASE q.kind = "codeAction" /\ ~current
  <2>1. /\ asked' = NotAsked /\ acted' = NotActed
        /\ offered' = offered /\ text' = text
    BY <1>8 DEF Answered, AskAgain
  <2>2. FixingTyped'
    BY <2>1 DEF Typed, FixingTyped
  <2>3. AskedOfAVersion /\ OfferOfAVersion => AskedOfAVersion' /\ OfferOfAVersion'
    BY <2>1, FixingStays
  <2> QED
    BY <1>1, <1>4, <2>1, <2>2, <2>3, NoAnswerActed
<1>9. CASE q.kind = "rename" /\ SameVersion(q)
  <2>1. /\ text' = [text EXCEPT ![q.doc] = @ + 1]
        /\ Act(q, e) /\ asked' = asked /\ offered' = offered
    BY <1>9 DEF Answered, fixing
  <2>2. text' \in [Docs -> Nat]
    BY <1>1, <1>2, <2>1
  <2> QED
    BY <1>4, <1>5, <1>6, <1>9, <2>1, <2>2, ActsOnItsQuestion
<1>10. CASE q.kind = "hover" /\ StillThere(q)
  <2>1. Act(q, e) /\ asked' = asked /\ offered' = offered /\ text' = text
    BY <1>10 DEF Answered, fixing
  <2> QED
    BY <1>1, <1>4, <1>5, <1>6, <1>10, <2>1, ActsOnItsQuestion
<1>11. CASE /\ q.kind # "codeAction"
            /\ ~(q.kind = "rename" /\ SameVersion(q))
            /\ ~(q.kind = "hover" /\ StillThere(q))
  <2>1. /\ acted' = NotActed /\ asked' = asked /\ offered' = offered
        /\ text' = text
    BY <1>11 DEF Answered, fixing
  <2> QED
    BY <1>1, <1>4, <1>5, <1>6, <1>11, <2>1, NoAnswerActed
<1> QED
  BY <1>7, <1>8, <1>9, <1>10, <1>11

\* The first of what was said is of the servers.
LEMMA HeadSaid ==
    ASSUME Typed, events # <<>>, NEW e, e = Head(events)
    PROVE  /\ e \in Answers \cup Notices
           /\ e.server \in Servers
           /\ 1 \in DOMAIN events /\ e = events[1]
           /\ \E j \in DOMAIN events : e = events[j]
<1>1. events \in Seq(Answers \cup Notices)
  BY DEF Typed, EventsTyped
<1>2. 1 \in DOMAIN events /\ e = events[1] /\ e \in Answers \cup Notices
  BY <1>1
<1> QED
  BY <1>2 DEF Answers, Notices

\* An answer is handled.
LEMMA HandleAnswerKeeps ==
    ASSUME SetupsAssumption, QuestionsInv, setup' = setup, UNCHANGED editor,
           events # <<>>, NEW e, e = Head(events), e.type = "answer",
           HandleAnswer(e), events' = Tail(events), batch' = TRUE
    PROVE  QuestionsInv'
<1>1. /\ Typed /\ OneEnd /\ UntilCrash
      /\ UNCHANGED <<alive, life>> /\ client' = client /\ doc' = doc
      /\ shown' = shown /\ caret' = caret /\ focus' = focus
  BY DEF QuestionsInv, HandleAnswer, servers, editor
<1>2. e.server \in Servers /\ \E j \in DOMAIN events : e = events[j]
  BY <1>1, HeadSaid
<1>3. ServersTyped'
  BY <1>1 DEF Typed, ServersTyped
<1>4. DocsTyped'
  BY <1>1 DEF Typed, DocsTyped, ServerOf, Open
<1>5. Grow
  BY <1>1 DEF Grow, Typed, DocsTyped
<1>6. EventsTyped' /\ OneEnd' /\ NothingSaid
  BY <1>1, EventsStay
<1>7. ASSUME text' \in [Docs -> Nat]  PROVE EditorTyped'
  BY <1>1, <1>7 DEF Typed, EditorTyped, Open
<1>8. text \in [Docs -> Nat] /\ pending \in Seq(Questions)
  BY <1>1 DEF Typed, EditorTyped, TalkTyped
<1> DEFINE Told ==
        AskedOfAVersion /\ OfferOfAVersion /\ AllLiving /\ NoneCrashed
            => AskedOfAVersion' /\ OfferOfAVersion'
<1>9. SUFFICES TalksOn /\ FixingTyped' /\ text' \in [Docs -> Nat]
               /\ AnswersUntilCrash' /\ Told
  BY <1>1, <1>3, <1>4, <1>5, <1>6, <1>7, LoopKeeps, NoOfferInBatch
<1>10. PICK i : i = TakePending(e)
  OBVIOUS
<1>11. CASE client[e.server] = "none" \/ i = 0
  <2>1. /\ acted' = NotActed /\ text' = text
        /\ UNCHANGED talk /\ asked' = asked /\ offered' = offered
        /\ refused' = refused
    BY <1>10, <1>11 DEF HandleAnswer, fixing
  <2>2. FixingTyped'
    BY <1>1, <2>1 DEF Typed, FixingTyped
  <2>3. TalksOn /\ ActionsWait
    BY <1>1, <2>1, UnaskedTalksOn
  <2>4. Told
    BY <1>1, <1>4, <1>5, <2>1, <2>3, FixingStays
  <2> QED
    BY <1>8, <2>1, <2>2, <2>3, <2>4, NoAnswerActed
<1>12. CASE client[e.server] # "none" /\ i # 0
  <2>1. i \in DOMAIN pending /\ Matches(pending[i], e)
    BY <1>8, <1>10, <1>12, TakenMatches
  <2>2. PICK q, left : q = pending[i] /\ left = RemoveAt(pending, i)
    OBVIOUS
  <2>3. /\ CASE e.outcome = "modified" -> Modified(q, left)
             [] e.outcome = "refused" -> Refused(left)
             [] e.outcome = "answer" -> Answered(q, e, left)
        /\ refused' = IF q.kind = "codeAction"
                      THEN e.outcome = "refused" ELSE refused
    BY <1>10, <1>12, <2>2 DEF HandleAnswer
  <2>4. e.outcome \in {"modified", "refused", "answer"}
    BY <1>1, HeadSaid DEF Answers, Notices
  <2>5. CASE e.outcome = "modified"
    <3>1. Modified(q, left) /\ (q.kind # "codeAction" => refused' = refused)
      BY <2>3, <2>5
    <3>2. /\ TalksOn
          /\ offered' = offered /\ text' = text /\ acted' = NotActed
          /\ \/ q.kind # "codeAction" /\ asked' = asked /\ ActionsWait
             \/ asked' = NotAsked
      BY <1>1, <1>4, <2>1, <2>2, <3>1, ModifiedKeeps
    <3>3. FixingTyped'
      BY <1>1, <2>3, <2>5, <3>2 DEF Typed, FixingTyped
    <3>4. Told
      BY <1>1, <1>4, <1>5, <3>1, <3>2, FixingStays
    <3> QED
      BY <1>8, <3>2, <3>3, <3>4, NoAnswerActed
  <2>6. CASE e.outcome = "refused"
    <3>1. /\ Refused(left)
          /\ refused' = IF q.kind = "codeAction" THEN TRUE ELSE refused
      BY <2>3, <2>6
    <3>2. /\ TalksOn /\ FixingTyped' /\ text' = text /\ acted' = NotActed
          /\ AskedOfAVersion /\ OfferOfAVersion
                 => AskedOfAVersion' /\ OfferOfAVersion'
      BY <1>1, <1>4, <1>5, <2>1, <2>2, <3>1, RefusedKeeps
    <3> QED
      BY <1>8, <3>2, NoAnswerActed
  <2>7. CASE e.outcome = "answer"
    <3>1. /\ Answered(q, e, left)
          /\ refused' = IF q.kind = "codeAction" THEN FALSE ELSE refused
      BY <2>3, <2>7
    <3>2. /\ i \in DOMAIN pending /\ q = pending[i] /\ left = RemoveAt(pending, i)
          /\ Matches(q, e)
      BY <2>1, <2>2
    <3> HIDE DEF Told
    <3>3. /\ TalksOn /\ FixingTyped' /\ text' \in [Docs -> Nat]
          /\ AnswersUntilCrash'
          /\ AskedOfAVersion /\ OfferOfAVersion /\ AllLiving /\ NoneCrashed
                 => AskedOfAVersion' /\ OfferOfAVersion'
      BY <1>1, <1>2, <1>4, <1>5, <3>1, <3>2, AnsweredKeeps, ZenonT(60)
    <3> QED
      BY <3>3 DEF Told
  <2> QED
    BY <2>4, <2>5, <2>6, <2>7
<1> QED
  BY <1>11, <1>12

\* A server has started.
LEMMA HandleReadyKeeps ==
    ASSUME SetupsAssumption, QuestionsInv, setup' = setup, UNCHANGED editor,
           events # <<>>, NEW e, e = Head(events), HandleReady(e),
           events' = Tail(events), batch' = TRUE
    PROVE  QuestionsInv'
<1>1. /\ Typed /\ OneEnd
      /\ UNCHANGED <<alive, life>> /\ doc' = doc
      /\ client' = [client EXCEPT
             ![e.server] = IF @ = "starting" THEN "ready" ELSE @]
      /\ text' = text /\ UNCHANGED talk
      /\ asked' = asked /\ offered' = offered /\ acted' = NotActed
      /\ refused' = refused
      /\ shown' = shown /\ caret' = caret /\ focus' = focus
  BY DEF QuestionsInv, HandleReady, editor, fixing
<1>2. e.server \in Servers
  BY <1>1, HeadSaid
<1>3. /\ client' \in [Servers -> {"ready", "starting", "none"}]
      /\ \A s \in Servers : /\ client[s] = "ready" => client'[s] = "ready"
                            /\ client'[s] # "none" => client[s] # "none"
  BY <1>1, <1>2 DEF Typed, ServersTyped
<1>4. ServersTyped'
  BY <1>1, <1>3 DEF Typed, ServersTyped
<1>5. EditorTyped' /\ FixingTyped'
  BY <1>1 DEF Typed, EditorTyped, FixingTyped, Open
<1>6. DocsTyped'
  BY <1>1, <1>3 DEF Typed, DocsTyped, ServerOf, Open
<1>7. Grow
  BY <1>1 DEF Grow, Typed, DocsTyped
<1>8. EventsTyped' /\ OneEnd' /\ NothingSaid
  BY <1>1, <1>3, EventsStay
<1>9. TalksOn /\ ActionsWait
  BY <1>1, UnaskedTalksOn
<1>10. AskedOfAVersion /\ OfferOfAVersion => AskedOfAVersion' /\ OfferOfAVersion'
  BY <1>1, <1>6, <1>7, <1>9, FixingStays
<1> QED
  BY <1>1, <1>4, <1>5, <1>6, <1>7, <1>8, <1>9, <1>10, LoopKeeps,
     NoOfferInBatch, NoAnswerActed

\* A server is gone: it is started again, or given up on.
LEMMA HandleClosedKeeps ==
    ASSUME SetupsAssumption, QuestionsInv, setup' = setup, UNCHANGED editor,
           events # <<>>, NEW e, e = Head(events), e.type = "closed",
           HandleClosed(e), events' = Tail(events), batch' = TRUE
    PROVE  QuestionsInv'
<1>1. /\ Typed /\ OneEnd
      /\ text' = text /\ pending' = pending
      /\ asked' = asked /\ offered' = offered /\ acted' = NotActed
      /\ refused' = refused
      /\ shown' = shown /\ caret' = caret /\ focus' = focus
  BY DEF QuestionsInv, HandleClosed, editor, fixing
<1>2. PICK s \in Servers : s = e.server
  BY <1>1, HeadSaid
<1>3. /\ 1 \in DOMAIN events /\ events[1].type = "closed" /\ events[1].server = s
  BY <1>1, <1>2, HeadSaid
<1>4. ~alive[s] /\ client[s] = "ready" /\ life[s] < setup.maxLives
  BY <1>1, <1>3 DEF OneEnd
<1>5. /\ doc' = Forgotten(s)
      /\ wire' = [wire EXCEPT ![s] = {}]
      /\ \/ /\ client' = [client EXCEPT ![s] = "starting"]
            /\ alive' = [alive EXCEPT ![s] = TRUE]
            /\ life' = [life EXCEPT ![s] = @ + 1]
            /\ nextId' = [nextId EXCEPT ![s] = 1]
         \/ /\ client' = [client EXCEPT ![s] = "none"]
            /\ UNCHANGED <<alive, life, nextId>>
  BY <1>2 DEF HandleClosed
<1>6. EditorTyped' /\ FixingTyped'
  BY <1>1 DEF Typed, EditorTyped, FixingTyped, Open
<1>7. \A t \in Servers \ {s} :
         client'[t] = client[t] /\ alive'[t] = alive[t] /\ life'[t] = life[t]
  BY <1>1, <1>5 DEF Typed, ServersTyped
<1>8. /\ client'[s] \in {"starting", "none"}
      /\ client'[s] = "starting" => life'[s] = life[s] + 1
      /\ ~alive'[s] \/ life'[s] # 1
  BY <1>1, <1>4, <1>5 DEF Typed, ServersTyped
<1>9. ServersTyped'
  <2>1. client' \in [Servers -> {"ready", "starting", "none"}]
    BY <1>1, <1>5 DEF Typed, ServersTyped
  <2>2. alive' \in [Servers -> BOOLEAN] /\ life' \in [Servers -> Nat \ {0}]
    <3>1. alive \in [Servers -> BOOLEAN] /\ life \in [Servers -> Nat \ {0}]
      BY <1>1 DEF Typed, ServersTyped
    <3>2. life[s] + 1 \in Nat \ {0}
      BY <3>1
    <3>3. /\ alive' = [alive EXCEPT ![s] = TRUE] \/ alive' = alive
          /\ life' = [life EXCEPT ![s] = @ + 1] \/ life' = life
      BY <1>5, Zenon
    <3>4. alive' \in [Servers -> BOOLEAN]
      <4>1. CASE alive' = alive
        BY <3>1, <4>1
      <4>2. CASE alive' = [alive EXCEPT ![s] = TRUE]
        BY <3>1, <4>2
      <4> QED
        BY <3>3, <4>1, <4>2
    <3>5. life' \in [Servers -> Nat \ {0}]
      <4>1. CASE life' = life
        BY <3>1, <4>1
      <4>2. CASE life' = [life EXCEPT ![s] = @ + 1]
        BY <3>1, <3>2, <4>2
      <4> QED
        BY <3>3, <4>1, <4>2
    <3> QED
      BY <3>4, <3>5
  <2>3. life[s] + 1 <= setup.maxLives
    BY <1>1, <1>4, SetupFacts DEF Typed, ServersTyped, EditorTyped
  <2>4. \A t \in Servers : client'[t] # "none" => life'[t] <= setup'.maxLives
    BY <1>1, <1>7, <1>8, <2>3 DEF Typed, ServersTyped
  <2> QED
    BY <2>1, <2>2, <2>4 DEF ServersTyped
<1>10. DocsTyped'
  <2>1. ServerOf' = ServerOf
    BY DEF ServerOf, Open
  <2>2. Unknown \in [known : BOOLEAN, version : Nat, text : Nat] /\ ~Unknown.known
    BY DEF Unknown
  <2>3. ASSUME NEW d \in Docs
        PROVE  /\ doc'[d] \in [known : BOOLEAN, version : Nat, text : Nat]
               /\ doc'[d].known =>
                     /\ ServerOf[d] \in Servers
                     /\ client'[ServerOf[d]] = "ready"
    <3>1. CASE ServerOf[d] = s
      <4>1. doc'[d] = Unknown
        BY <1>5, <3>1 DEF Forgotten
      <4> QED
        BY <2>2, <4>1
    <3>2. CASE ServerOf[d] # s
      <4>1. doc'[d] = doc[d]
        BY <1>5, <3>2 DEF Forgotten
      <4> QED
        BY <1>1, <1>7, <3>2, <4>1 DEF Typed, DocsTyped
    <3> QED
      BY <3>1, <3>2
  <2>4. doc' = [d \in Docs |-> doc'[d]]
    BY <1>5 DEF Forgotten
  <2> QED
    BY <2>1, <2>3, <2>4 DEF DocsTyped
<1>11. TalkTyped'
  BY <1>1, <1>5 DEF Typed, TalkTyped
<1>12. /\ events' \in Seq(Answers \cup Notices)
       /\ \A i \in DOMAIN events' :
             /\ i \in Nat /\ i # 0
             /\ i + 1 \in DOMAIN events
             /\ events'[i] = events[i + 1]
             /\ events'[i].server \in Servers
  <2>1. events \in Seq(Answers \cup Notices)
    BY <1>1 DEF Typed, EventsTyped
  <2>2. /\ events' \in Seq(Answers \cup Notices)
        /\ Len(events') = Len(events) - 1
        /\ \A i \in 1..Len(events') : events'[i] = events[i + 1]
    BY <2>1
  <2>3. \A i \in DOMAIN events' : i \in Nat /\ i # 0 /\ i + 1 \in DOMAIN events
    BY <2>1, <2>2
  <2>4. \A i \in DOMAIN events' : events'[i].server \in Servers
    BY <2>2 DEF Answers, Notices
  <2> QED
    BY <2>2, <2>3, <2>4
<1>13. OneEnd'
  <2>1. ASSUME NEW i \in DOMAIN events', events'[i].type = "closed"
        PROVE  /\ events'[i].server \in Servers \ {s}
               /\ ~alive[events'[i].server]
               /\ client[events'[i].server] = "ready"
               /\ life[events'[i].server] < setup.maxLives
    <3>1. i + 1 # 1
      BY <1>12
    <3>2. events'[i].server # s
      BY <1>1, <1>3, <1>12, <2>1, <3>1 DEF OneEnd
    <3> QED
      BY <1>1, <1>12, <2>1, <3>2 DEF OneEnd
  <2>2. ASSUME NEW i \in DOMAIN events', NEW j \in DOMAIN events',
               events'[i].type = "closed", events'[j].type = "closed",
               events'[i].server = events'[j].server
        PROVE  i = j
    <3>1. i + 1 = j + 1
      BY <1>1, <1>12, <2>2 DEF OneEnd
    <3> QED
      BY <1>12, <3>1
  <2> QED
    BY <1>7, <2>1, <2>2 DEF OneEnd
<1>14. OneInFlight'
  BY <1>1 DEF QuestionsInv, OneInFlight
<1>15. ~NoneCrashed'
  BY <1>8 DEF NoneCrashed
<1>16. Typed'
  BY <1>6, <1>9, <1>10, <1>11, <1>12 DEF Typed, EventsTyped
<1> QED
  BY <1>1, <1>13, <1>14, <1>15, <1>16, NoOfferInBatch, NoAnswerActed
     DEF QuestionsInv, UntilCrash

\* A process answers a request.
LEMMA AnswerKeeps ==
    ASSUME QuestionsInv, setup' = setup, NEW s \in Servers, Answer(s)
    PROVE  QuestionsInv'
<1>1. /\ Typed /\ OneEnd /\ UntilCrash
      /\ shown' = shown /\ caret' = caret /\ focus' = focus
      /\ text' = text /\ batch' = batch /\ client' = client /\ life' = life
      /\ doc' = doc /\ nextId' = nextId /\ pending' = pending
      /\ asked' = asked /\ offered' = offered /\ acted' = acted
      /\ refused' = refused
      /\ alive' = alive
  BY DEF QuestionsInv, Answer, Process, editor, fixing
<1>2. PICK r \in wire[s], outcome \in {"answer", "modified", "refused"} :
         /\ wire' = [wire EXCEPT ![s] = @ \ {r}]
         /\ events' = Append(events,
                [type |-> "answer", server |-> s, id |-> r.id,
                 outcome |-> outcome, kind |-> r.kind, life |-> r.life,
                 text |-> r.text])
  BY DEF Answer
<1>3. PICK a : a = [type |-> "answer", server |-> s, id |-> r.id,
                    outcome |-> outcome, kind |-> r.kind, life |-> r.life,
                    text |-> r.text]
  OBVIOUS
<1>4. r \in Requests /\ events \in Seq(Answers \cup Notices)
  BY <1>1 DEF Typed, TalkTyped, EventsTyped
<1>5. /\ a \in Answers
      /\ a.type = "answer" /\ a.server = s /\ a.id = r.id
      /\ a.kind = r.kind /\ a.life = r.life /\ a.text = r.text
  BY <1>3, <1>4 DEF Answers, Requests
<1>6. /\ events' \in Seq(Answers \cup Notices)
      /\ DOMAIN events = 1..Len(events) /\ Len(events) \in Nat
      /\ DOMAIN events' = 1..(Len(events) + 1)
      /\ \A i \in 1..Len(events) : events'[i] = events[i]
      /\ events'[Len(events) + 1] = a
  BY <1>2, <1>3, <1>4, <1>5
<1>7. /\ wire' \in [Servers -> SUBSET Requests]
      /\ \A t \in Servers : wire'[t] \subseteq wire[t]
  BY <1>1, <1>2 DEF Typed, TalkTyped
<1>8. Typed'
  <2>1. EditorTyped' /\ ServersTyped' /\ FixingTyped'
    BY <1>1 DEF Typed, EditorTyped, ServersTyped, FixingTyped, Open
  <2>2. DocsTyped'
    BY <1>1 DEF Typed, DocsTyped, ServerOf, Open
  <2>3. TalkTyped' /\ EventsTyped'
    BY <1>1, <1>6, <1>7 DEF Typed, TalkTyped, EventsTyped
  <2> QED
    BY <2>1, <2>2, <2>3 DEF Typed
<1>9. OneEnd'
  <2>1. \A i \in DOMAIN events' : events'[i].type = "closed" =>
           i \in DOMAIN events /\ events'[i] = events[i]
    BY <1>5, <1>6
  <2> QED
    BY <1>1, <2>1 DEF OneEnd
<1>10. OneInFlight' /\ AnswersUntilCrash' /\ OfferFitsText'
  BY <1>1 DEF QuestionsInv, OneInFlight, AnswersUntilCrash, AnswersItsQuestion,
              OfferFitsText, NoneCrashed, IsHere, InFlight
<1>11. UntilCrash'
  <2>1. SUFFICES ASSUME NoneCrashed'
                 PROVE  /\ AllLiving' /\ SaidByTheFirst'
                        /\ AskedOfAVersion' /\ OfferOfAVersion'
    BY DEF UntilCrash
  <2>2. /\ AllLiving /\ SaidByTheFirst /\ AskedOfAVersion /\ OfferOfAVersion
    BY <1>1, <2>1 DEF UntilCrash, NoneCrashed
  <2>3. AskedOfAVersion' /\ OfferOfAVersion'
    BY <1>1, <2>2 DEF AskedOfAVersion, OfferOfAVersion, InFlight
  <2>4. SaidByTheFirst'
    <3>1. a.life = 1 /\ a.id <= nextId[a.server]
      BY <1>5, <2>2 DEF SaidByTheFirst
    <3>2. \A t \in Servers : \A o \in wire'[t] : o.life = 1 /\ o.id <= nextId'[t]
      BY <1>1, <1>7, <2>2 DEF SaidByTheFirst
    <3>3. \A j \in DOMAIN events' : events'[j].type = "answer" =>
             /\ events'[j].life = 1
             /\ events'[j].id <= nextId'[events'[j].server]
      BY <1>1, <1>6, <2>2, <3>1 DEF SaidByTheFirst
    <3> QED
      BY <3>2, <3>3 DEF SaidByTheFirst
  <2>5. ASSUME NEW q \in Questions, Living(q)  PROVE Living(q)'
    <3>1. \A o : IsFor(o, q) => IsFor(o, q)'
      BY <1>1 DEF IsFor
    <3>2. \A o \in wire'[q.server] : IsFor(o, q)'
      BY <1>7, <2>5, <3>1 DEF Living, Questions
    <3>3. ASSUME NEW j \in DOMAIN events', events'[j].type = "answer",
                 events'[j].server = q.server
          PROVE  IsFor(events[j], q)'
      <4>1. CASE j \in DOMAIN events
        <5>1. IsFor(events[j], q) /\ events'[j] = events[j]
          BY <1>6, <2>5, <3>3, <4>1 DEF Living
        <5> QED
          BY <1>1, <5>1 DEF IsFor
      <4>2. CASE j = Len(events) + 1
        <5>1. events'[j] = a /\ q.server = s
          BY <1>5, <1>6, <3>3, <4>2
        <5>2. IsFor(r, q)
          BY <2>5, <5>1 DEF Living
        <5> QED
          BY <1>1, <1>5, <5>1, <5>2 DEF IsFor
      <4> QED
        BY <1>6, <4>1, <4>2
    <3> QED
      BY <1>1, <2>5, <3>2, <3>3 DEF Living
  <2>6. AllLiving'
    <3> SUFFICES ASSUME NEW i \in DOMAIN pending'  PROVE Living(pending[i])'
      BY DEF AllLiving
    <3>1. PICK q \in Questions : q = pending[i] /\ Living(q)
      BY <1>1, <2>2 DEF AllLiving, Typed, TalkTyped
    <3>2. Living(q)' /\ q = pending'[i]
      BY <1>1, <2>5, <3>1
    <3> QED
      BY <3>2 DEF Living, IsFor
  <2> QED
    BY <2>3, <2>4, <2>6
<1> QED
  BY <1>8, <1>9, <1>10, <1>11 DEF QuestionsInv

\* A process has finished its handshake.
LEMMA FinishStartKeeps ==
    ASSUME QuestionsInv, setup' = setup, NEW s \in Servers, FinishStart(s)
    PROVE  QuestionsInv'
<1>1. /\ Typed /\ OneEnd
      /\ shown' = shown /\ caret' = caret /\ focus' = focus
      /\ text' = text /\ batch' = batch /\ client' = client
      /\ UNCHANGED <<alive, life>> /\ doc' = doc /\ UNCHANGED talk
      /\ asked' = asked /\ offered' = offered /\ acted' = acted
      /\ refused' = refused
      /\ events' = Append(events, [type |-> "ready", server |-> s])
  BY DEF QuestionsInv, FinishStart, Process, editor, fixing, talk
<1>2. PICK a : a = [type |-> "ready", server |-> s]
  OBVIOUS
<1>3. a \in Notices /\ a.type = "ready" /\ events \in Seq(Answers \cup Notices)
  BY <1>1, <1>2 DEF Notices, Typed, EventsTyped
<1>4. /\ events' \in Seq(Answers \cup Notices)
      /\ \A i \in DOMAIN events' :
            \/ i \in DOMAIN events /\ events'[i] = events[i]
            \/ events'[i].type = "ready"
  BY <1>1, <1>2, <1>3
<1>5. EditorTyped' /\ ServersTyped' /\ FixingTyped'
  BY <1>1 DEF Typed, EditorTyped, ServersTyped, FixingTyped, Open
<1>6. DocsTyped'
  BY <1>1 DEF Typed, DocsTyped, ServerOf, Open
<1>7. EventsTyped' /\ NothingSaid
  BY <1>4 DEF EventsTyped, NothingSaid
<1>8. OneEnd'
  <2>1. \A i \in DOMAIN events' : events'[i].type = "closed" =>
           i \in DOMAIN events /\ events'[i] = events[i]
    BY <1>4
  <2> QED
    BY <1>1, <2>1 DEF OneEnd
<1>9. TalksOn /\ ActionsWait
  BY <1>1, UnaskedTalksOn
<1>10. Grow
  BY <1>1 DEF Grow, Typed, DocsTyped
<1>11. AskedOfAVersion /\ OfferOfAVersion => AskedOfAVersion' /\ OfferOfAVersion'
  BY <1>1, <1>6, <1>9, <1>10, FixingStays
<1>12. AnswersUntilCrash' /\ OfferFitsText'
  BY <1>1 DEF QuestionsInv, AnswersUntilCrash, AnswersItsQuestion,
              OfferFitsText, NoneCrashed, IsHere, InFlight, talk
<1> QED
  BY <1>1, <1>5, <1>6, <1>7, <1>8, <1>9, <1>10, <1>11, <1>12, LoopKeeps

\* `longer` is q with one element put in after the first n.
Insertion(All, q, a, n, longer) ==
    /\ q \in Seq(All)
    /\ a \in All
    /\ n \in 0..Len(q)
    /\ longer = SubSeq(q, 1, n) \o <<a>> \o SubSeq(q, n + 1, Len(q))

HasInserted(All, q, a, n, longer) ==
    /\ longer \in Seq(All)
    /\ Len(longer) = Len(q) + 1
    /\ \A i \in 1..n : longer[i] = q[i]
    /\ longer[n + 1] = a
    /\ \A i \in (n + 2)..(Len(q) + 1) : longer[i] = q[i - 1]

\* The other elements keep their order.
LEMMA Inserted ==
    ASSUME NEW All, NEW q, NEW a, NEW n, NEW longer,
           Insertion(All, q, a, n, longer)
    PROVE  HasInserted(All, q, a, n, longer)
<1>1. /\ Len(q) \in Nat /\ n \in Nat /\ n <= Len(q) /\ n \in Int
      /\ n + 1 \in Int /\ Len(q) \in Int
      /\ \A i \in 1..Len(q) : q[i] \in All
  BY DEF Insertion
<1>2. PICK front : front = SubSeq(q, 1, n)
  OBVIOUS
<1>3. PICK rest : rest = SubSeq(q, n + 1, Len(q))
  OBVIOUS
<1>4. front \in Seq(All) /\ Len(front) = n /\ \A k \in 1..n : front[k] = q[k]
  <2>1. \A i \in 1..n : q[i] \in All
    BY <1>1
  <2>2. /\ front \in Seq(All)
        /\ Len(front) = IF 1 <= n THEN n - 1 + 1 ELSE 0
        /\ \A i \in 1..(n - 1 + 1) : front[i] = q[1 + i - 1]
    BY <1>1, <1>2, <2>1, SubSeqProperties
  <2> QED
    BY <1>1, <2>2
<1>5. /\ rest \in Seq(All) /\ Len(rest) = Len(q) - n
      /\ \A k \in 1..(Len(q) - n) : rest[k] = q[n + k]
  <2>1. \A i \in (n + 1)..Len(q) : q[i] \in All
    BY <1>1
  <2>2. /\ rest \in Seq(All)
        /\ Len(rest) = IF n + 1 <= Len(q) THEN Len(q) - (n + 1) + 1 ELSE 0
        /\ \A i \in 1..(Len(q) - (n + 1) + 1) : rest[i] = q[(n + 1) + i - 1]
    BY <1>1, <1>3, <2>1, SubSeqProperties
  <2>3. Len(rest) = Len(q) - n
    BY <1>1, <2>2
  <2>4. ASSUME NEW k \in 1..(Len(q) - n)
        PROVE  rest[k] = q[n + k]
    <3>1. /\ k \in 1..(Len(q) - (n + 1) + 1)
          /\ (n + 1) + k - 1 = n + k
      BY <1>1
    <3>2. rest[k] = q[(n + 1) + k - 1]
      BY <2>2, <3>1
    <3> QED
      BY <3>1, <3>2
  <2> QED
    BY <2>2, <2>3, <2>4
<1>6. longer = front \o <<a>> \o rest
  BY <1>2, <1>3 DEF Insertion
<1>7. n \in Nat /\ Len(rest) \in Nat /\ Len(front) = n
  BY <1>1, <1>4, <1>5
<1>8. PICK one : one = <<a>>
  OBVIOUS
<1>9. one \in Seq(All) /\ Len(one) = 1 /\ one[1] = a
  BY <1>8 DEF Insertion
<1>10. PICK both : both = front \o one
  OBVIOUS
<1>11. /\ both \in Seq(All) /\ Len(both) = n + 1
      /\ \A i \in 1..(n + 1) : both[i] = IF i <= n THEN front[i] ELSE one[i - n]
  <2>1. /\ both \in Seq(All) /\ Len(both) = Len(front) + Len(one)
        /\ \A i \in 1..(Len(front) + Len(one)) :
              both[i] = IF i <= Len(front) THEN front[i] ELSE one[i - Len(front)]
    BY <1>4, <1>9, <1>10, ConcatProperties, Zenon
  <2> QED
    BY <1>7, <1>9, <2>1
<1>12. longer = both \o rest
  BY <1>6, <1>8, <1>10
<1>13. /\ longer \in Seq(All) /\ Len(longer) = n + 1 + Len(rest)
      /\ \A i \in 1..(n + 1 + Len(rest)) :
            longer[i] = IF i <= n + 1 THEN both[i] ELSE rest[i - (n + 1)]
  <2>1. /\ both \o rest \in Seq(All)
        /\ Len(both \o rest) = Len(both) + Len(rest)
        /\ \A i \in 1..(Len(both) + Len(rest)) : (both \o rest)[i] =
              IF i <= Len(both) THEN both[i] ELSE rest[i - Len(both)]
    BY <1>5, <1>11, ConcatProperties, Zenon
  <2>2. /\ longer \in Seq(All) /\ Len(longer) = Len(both) + Len(rest)
        /\ \A i \in 1..(Len(both) + Len(rest)) :
              longer[i] = IF i <= Len(both) THEN both[i] ELSE rest[i - Len(both)]
    BY <1>12, <2>1, Zenon
  <2>3. Len(both) = n + 1
    BY <1>11
  <2> QED
    BY <1>7, <2>2, <2>3, Zenon
<1>14. \A i \in 1..n : longer[i] = front[i]
  BY <1>7, <1>11, <1>13
<1>15. longer[n + 1] = a
  <2>1. n + 1 \in 1..(n + 1 + Len(rest)) /\ n + 1 \in 1..(n + 1)
        /\ ~(n + 1 <= n) /\ (n + 1) - n = 1
    BY <1>7
  <2> QED
    <3>1. both[n + 1] = one[1]
      BY <1>11, <2>1
    <3>2. longer[n + 1] = both[n + 1]
      <4>1. PICK m : m = n + 1
        OBVIOUS
      <4>2. m <= n + 1 /\ m \in 1..(n + 1 + Len(rest))
        BY <1>7, <4>1
      <4>3. longer[m] = both[m]
        BY <1>13, <4>2, Zenon
      <4> QED
        BY <4>1, <4>3, Zenon
    <3> QED
      BY <1>9, <3>1, <3>2
<1>16. ASSUME NEW k \in 1..Len(rest)
       PROVE  longer[n + 1 + k] = rest[k]
  <2>1. /\ n + 1 + k \in 1..(n + 1 + Len(rest)) /\ ~(n + 1 + k <= n + 1)
        /\ (n + 1 + k) - (n + 1) = k
    BY <1>7
  <2> QED
    BY <1>13, <2>1
<1>17. /\ longer \in Seq(All)
      /\ Len(longer) = n + 1 + Len(rest)
      /\ \A i \in 1..n : longer[i] = front[i]
      /\ longer[n + 1] = a
      /\ \A k \in 1..Len(rest) : longer[n + 1 + k] = rest[k]
  BY <1>13, <1>14, <1>15, <1>16
<1>18. \A i \in 1..n : longer[i] = q[i]
  BY <1>4, <1>17
<1>19. ASSUME NEW i \in (n + 2)..(Len(q) + 1)
      PROVE  longer[i] = q[i - 1]
  <2>1. PICK k : k = i - (n + 1)
    OBVIOUS
  <2>2. k \in 1..(Len(q) - n) /\ n + 1 + k = i /\ n + k = i - 1
    BY <1>1, <2>1
  <2>3. rest[k] = q[n + k]
    BY <1>5, <2>2
  <2>4. k \in 1..Len(rest)
    BY <1>5, <2>2
  <2>5. longer[n + 1 + k] = rest[k]
    BY <1>16, <2>4, Zenon
  <2> QED
    BY <2>2, <2>3, <2>5
<1>20. Len(longer) = Len(q) + 1 /\ longer \in Seq(All) /\ longer[n + 1] = a
  <2>1. Len(rest) = Len(q) - n
    BY <1>5
  <2>2. Len(longer) = n + 1 + Len(rest) /\ longer \in Seq(All)
    BY <1>13
  <2> QED
    BY <1>1, <1>15, <2>1, <2>2
<1>21. \A i \in (n + 2)..(Len(q) + 1) : longer[i] = q[i - 1]
  BY <1>19
<1> QED
  BY <1>18, <1>20, <1>21 DEF HasInserted

\* What is reported among the events is one more of them.
LEMMA InsertedEvent ==
    ASSUME NEW a \in Answers \cup Notices,
           events \in Seq(Answers \cup Notices), NEW n \in 0..Len(events),
           events' = SubSeq(events, 1, n) \o <<a>>
                     \o SubSeq(events, n + 1, Len(events))
    PROVE  /\ events' \in Seq(Answers \cup Notices)
           /\ \A i \in DOMAIN events' :
                 \/ i = n + 1 /\ events'[i] = a
                 \/ i <= n /\ i \in DOMAIN events /\ events'[i] = events[i]
                 \/ /\ i > n + 1 /\ i - 1 \in DOMAIN events
                    /\ events'[i] = events[i - 1]
<1>1. PICK q : q = events
  OBVIOUS
<1>2. PICK longer : longer = events'
  OBVIOUS
<1>3. PICK All : All = Answers \cup Notices
  OBVIOUS
<1>4. /\ q \in Seq(All) /\ a \in All /\ n \in 0..Len(q)
      /\ longer = SubSeq(q, 1, n) \o <<a>> \o SubSeq(q, n + 1, Len(q))
  BY <1>1, <1>2, <1>3
<1>5. /\ longer \in Seq(All)
      /\ Len(longer) = Len(q) + 1
      /\ \A i \in 1..n : longer[i] = q[i]
      /\ longer[n + 1] = a
      /\ \A i \in (n + 2)..(Len(q) + 1) : longer[i] = q[i - 1]
  <2>1. Insertion(All, q, a, n, longer)
    BY <1>4 DEF Insertion
  <2>2. HasInserted(All, q, a, n, longer)
    BY <2>1, Inserted
  <2> QED
    BY <2>2 DEF HasInserted
<1>6. /\ DOMAIN longer = 1..(Len(q) + 1) /\ DOMAIN q = 1..Len(q)
      /\ Len(q) \in Nat /\ n \in Nat /\ n <= Len(q)
  <2>1. DOMAIN q = 1..Len(q) /\ Len(q) \in Nat /\ n \in Nat /\ n <= Len(q)
    BY ONLY <1>4
  <2>2. DOMAIN longer = 1..Len(longer)
    BY ONLY <1>5, LenProperties
  <2> QED
    BY <1>5, <2>1, <2>2
<1>7. ASSUME NEW i \in DOMAIN longer
      PROVE  \/ i = n + 1 /\ longer[i] = a
             \/ i <= n /\ i \in DOMAIN q /\ longer[i] = q[i]
             \/ i > n + 1 /\ i - 1 \in DOMAIN q /\ longer[i] = q[i - 1]
  <2>1. CASE i = n + 1
    BY <1>5, <2>1
  <2>2. CASE i <= n
    BY <1>5, <1>6, <2>2
  <2>3. CASE i > n + 1
    BY <1>5, <1>6, <2>3
  <2> QED
    BY <1>6, <2>1, <2>2, <2>3
<1> QED
  BY <1>1, <1>2, <1>3, <1>5, <1>7, Zenon

\* A process dies.
LEMMA CrashKeeps ==
    ASSUME QuestionsInv, setup' = setup, NEW s \in Servers, Crash(s)
    PROVE  QuestionsInv'
<1>1. /\ Typed /\ OneEnd
      /\ shown' = shown /\ caret' = caret /\ focus' = focus
      /\ text' = text /\ batch' = batch /\ client' = client /\ life' = life
      /\ doc' = doc /\ nextId' = nextId /\ pending' = pending /\ wire' = wire
      /\ asked' = asked /\ offered' = offered /\ acted' = acted
      /\ refused' = refused
      /\ alive' = [alive EXCEPT ![s] = FALSE]
      /\ alive[s] /\ client[s] = "ready" /\ life[s] < setup.maxLives
  BY DEF QuestionsInv, Crash, Process, editor, fixing
<1>2. PICK n \in 0..Len(events) :
         events' = SubSeq(events, 1, n)
                   \o <<[type |-> "closed", server |-> s]>>
                   \o SubSeq(events, n + 1, Len(events))
  BY DEF Crash
<1>3. PICK a : a = [type |-> "closed", server |-> s]
  OBVIOUS
<1>4. a \in Answers \cup Notices /\ a.type = "closed" /\ a.server = s
  BY <1>3 DEF Notices
<1>5. events \in Seq(Answers \cup Notices)
  BY <1>1 DEF Typed, EventsTyped
<1>6. /\ events' \in Seq(Answers \cup Notices)
      /\ \A i \in DOMAIN events' :
            \/ i = n + 1 /\ events'[i] = a
            \/ i <= n /\ i \in DOMAIN events /\ events'[i] = events[i]
            \/ i > n + 1 /\ i - 1 \in DOMAIN events /\ events'[i] = events[i - 1]
  BY <1>2, <1>3, <1>4, <1>5, InsertedEvent
<1>7. /\ alive' \in [Servers -> BOOLEAN] /\ ~alive'[s]
      /\ \A t \in Servers : ~alive[t] => ~alive'[t]
  BY <1>1 DEF Typed, ServersTyped
<1>8. \A i \in DOMAIN events : events[i].type = "closed" =>
         events[i].server \in Servers /\ events[i].server # s
  BY <1>1, <1>5 DEF OneEnd, Answers, Notices
<1>9. OneEnd'
  <2>1. ASSUME NEW i \in DOMAIN events', events'[i].type = "closed"
        PROVE  /\ ~alive'[events'[i].server]
               /\ client[events'[i].server] = "ready"
               /\ life[events'[i].server] < setup.maxLives
    <3>1. CASE events'[i] = a
      BY <1>1, <1>4, <1>7, <3>1
    <3>2. CASE \E k \in DOMAIN events : events'[i] = events[k]
      BY <1>1, <1>7, <1>8, <2>1, <3>2 DEF OneEnd
    <3> QED
      BY <1>6, <3>1, <3>2
  <2>2. ASSUME NEW i \in DOMAIN events', NEW j \in DOMAIN events',
               events'[i].type = "closed", events'[j].type = "closed",
               events'[i].server = events'[j].server
        PROVE  i = j
    <3>1. DOMAIN events' \subseteq Nat /\ n \in Nat
      BY <1>5, <1>6
    <3>2. CASE i = n + 1 /\ events'[i] = a
      <4>1. j = n + 1
        BY <1>4, <1>6, <1>8, <2>2, <3>2
      <4> QED
        BY <3>2, <4>1
    <3>3. CASE j = n + 1 /\ events'[j] = a
      <4>1. i = n + 1
        BY <1>4, <1>6, <1>8, <2>2, <3>3
      <4> QED
        BY <3>3, <4>1
    <3>4. CASE i # n + 1 /\ j # n + 1
      <4> DEFINE old(k) == IF k <= n THEN k ELSE k - 1
      <4>1. /\ old(i) \in DOMAIN events /\ events'[i] = events[old(i)]
            /\ old(j) \in DOMAIN events /\ events'[j] = events[old(j)]
        BY <1>6, <3>1, <3>4
      <4>2. old(i) = old(j)
        <5> HIDE DEF old
        <5> QED
          BY <1>1, <2>2, <4>1 DEF OneEnd
      <4>3. (i <= n \/ i > n + 1) /\ (j <= n \/ j > n + 1)
        BY <3>1, <3>4
      <4> QED
        BY <3>1, <4>2, <4>3
    <3> QED
      BY <1>6, <3>2, <3>3, <3>4
  <2> QED
    BY <1>1, <2>1, <2>2 DEF OneEnd
<1>10. ~NoneCrashed'
  BY <1>7 DEF NoneCrashed
<1>11. Typed'
  <2>1. EditorTyped' /\ FixingTyped'
    BY <1>1 DEF Typed, EditorTyped, FixingTyped, Open
  <2>2. ServersTyped'
    BY <1>1, <1>7 DEF Typed, ServersTyped
  <2>3. DocsTyped'
    BY <1>1 DEF Typed, DocsTyped, ServerOf, Open
  <2>4. TalkTyped' /\ EventsTyped'
    BY <1>1, <1>6 DEF Typed, TalkTyped, EventsTyped
  <2> QED
    BY <2>1, <2>2, <2>3, <2>4 DEF Typed
<1>12. OneInFlight'
  BY <1>1 DEF QuestionsInv, OneInFlight
<1> QED
  BY <1>9, <1>10, <1>11, <1>12
     DEF QuestionsInv, UntilCrash, AnswersUntilCrash, OfferFitsText

\* Every action keeps the invariant.
LEMMA QuestionsStep ==
    ASSUME SetupsAssumption, QuestionsInv, [Next]_vars
    PROVE  QuestionsInv'
<1>1. CASE UNCHANGED vars
  <2>1. /\ setup' = setup /\ shown' = shown /\ caret' = caret /\ focus' = focus
        /\ text' = text /\ batch' = batch /\ client' = client /\ alive' = alive
        /\ life' = life /\ doc' = doc /\ nextId' = nextId
        /\ pending' = pending /\ wire' = wire /\ events' = events
        /\ asked' = asked /\ offered' = offered /\ acted' = acted
        /\ refused' = refused
    BY <1>1 DEF vars, editor, servers, talk, fixing
  <2>2. EditorTyped' /\ ServersTyped' /\ TalkTyped' /\ EventsTyped' /\ FixingTyped'
    BY <2>1 DEF QuestionsInv, Typed, EditorTyped, ServersTyped, TalkTyped,
                EventsTyped, FixingTyped, Open
  <2>3. DocsTyped'
    BY <2>1 DEF QuestionsInv, Typed, DocsTyped, ServerOf, Open
  <2>4. OneEnd' /\ OneInFlight'
    BY <2>1 DEF QuestionsInv, OneEnd, OneInFlight
  <2>5. UntilCrash'
    BY <2>1 DEF QuestionsInv, UntilCrash, NoneCrashed, AllLiving, Living, IsFor,
                SaidByTheFirst, AskedOfAVersion, OfferOfAVersion, InFlight
  <2>6. AnswersUntilCrash' /\ OfferFitsText'
    BY <2>1 DEF QuestionsInv, AnswersUntilCrash, AnswersItsQuestion,
                OfferFitsText, NoneCrashed, IsHere, InFlight
  <2> QED
    BY <2>2, <2>3, <2>4, <2>5, <2>6 DEF QuestionsInv, Typed
<1>2. CASE Next
  <2>1. setup' = setup /\ Step
    BY <1>2 DEF Next
  <2>2. /\ EditorTyped /\ Open \subseteq Docs /\ Open' = Open
    BY <2>1, SetupFacts DEF QuestionsInv, Typed, EditorTyped, Open
  <2>3. ASSUME NEW c \in Carets, Edit(c)  PROVE QuestionsInv'
    <3>1. EditorTyped'
      BY <2>1, <2>2, <2>3 DEF Edit, EditorTyped, Handled
    <3> QED
      BY <2>1, <2>3, <3>1, QuietlyKeeps DEF Edit
  <2>4. ASSUME NEW c \in Carets, Move(c)  PROVE QuestionsInv'
    <3>1. EditorTyped'
      BY <2>1, <2>2, <2>4 DEF Move, EditorTyped, Handled
    <3> QED
      BY <2>1, <2>4, <3>1, QuietlyKeeps DEF Move
  <2>5. ASSUME NEW d \in Docs, Switch(d)  PROVE QuestionsInv'
    <3>1. EditorTyped'
      BY <2>1, <2>2, <2>5 DEF Switch, EditorTyped, Handled
    <3> QED
      BY <2>1, <2>5, <3>1, QuietlyKeeps DEF Switch
  <2>6. CASE MoveFocus
    <3>1. EditorTyped'
      BY <2>1, <2>2, <2>6 DEF MoveFocus, EditorTyped, Handled
    <3> QED
      BY <2>1, <2>6, <3>1, QuietlyKeeps DEF MoveFocus
  <2>7. CASE Handle
    <3>1. PICK e : e = Head(events)
      OBVIOUS
    <3>2. /\ events # <<>> /\ events' = Tail(events) /\ batch' = TRUE
          /\ UNCHANGED editor
      BY <2>7 DEF Handle
    <3>3. e \in Answers \cup Notices
      BY <3>1, <3>2, HeadSaid DEF QuestionsInv
    <3>4. CASE e.type = "answer"
      BY <2>1, <2>7, <3>1, <3>2, <3>4, HandleAnswerKeeps DEF Handle
    <3>5. CASE e.type = "ready"
      BY <2>1, <2>7, <3>1, <3>2, <3>5, HandleReadyKeeps DEF Handle
    <3>6. CASE e.type = "closed"
      BY <2>1, <2>7, <3>1, <3>2, <3>6, HandleClosedKeeps DEF Handle
    <3> QED
      BY <3>3, <3>4, <3>5, <3>6 DEF Answers, Notices
  <2> QED
    BY <2>1, <2>3, <2>4, <2>5, <2>6, <2>7, AskHoverKeeps, AskRenameKeeps,
       EndBatchKeeps, AnswerKeeps, FinishStartKeeps, CrashKeeps DEF Step
<1> QED
  BY <1>1, <1>2

\* It holds at the start.
LEMMA QuestionsStart ==
    ASSUME SetupsAssumption, Init
    PROVE  QuestionsInv
<1>1. /\ setup \in Setups /\ shown \in Open /\ focus = TRUE /\ batch = TRUE
      /\ text = [d \in Docs |-> 0]
      /\ client = [s \in Servers |-> "ready"]
      /\ alive = [s \in Servers |-> TRUE]
      /\ life = [s \in Servers |-> 1] /\ nextId = [s \in Servers |-> 1]
      /\ doc = [d \in Docs |-> Unknown]
      /\ pending = <<>> /\ wire = [s \in Servers |-> {}] /\ events = <<>>
      /\ asked = NotAsked /\ offered = NoOffer /\ acted = NotActed
      /\ refused = FALSE
  BY DEF Init
<1>2. EditorTyped
  <2>1. caret \in [Docs -> Carets]
    BY DEF Init, SetupsAssumption
  <2> QED
    BY <1>1, <2>1 DEF EditorTyped
<1>3. ServersTyped
  BY <1>1, SetupFacts DEF ServersTyped
<1>4. DocsTyped
  BY <1>1 DEF DocsTyped, Unknown
<1>5. TalkTyped /\ EventsTyped /\ FixingTyped
  <2>1. TalkTyped /\ EventsTyped
    BY <1>1 DEF TalkTyped, EventsTyped
  <2>2. FixingTyped
    BY ONLY <1>1, Zenon DEF FixingTyped
  <2> QED
    BY <2>1, <2>2
<1>6. OneEnd /\ OneInFlight
  BY <1>1 DEF OneEnd, OneInFlight
<1>7. UntilCrash
  BY <1>1 DEF UntilCrash, AllLiving, SaidByTheFirst, AskedOfAVersion,
              OfferOfAVersion
<1>8. AnswersUntilCrash /\ OfferFitsText
  BY <1>1 DEF AnswersUntilCrash, AnswersItsQuestion, OfferFitsText
<1> QED
  BY <1>2, <1>3, <1>4, <1>5, <1>6, <1>7, <1>8 DEF QuestionsInv, Typed

LEMMA QuestionsInvariant == Spec => []QuestionsInv
<1>1. Init => QuestionsInv
  BY SetupsAssumption, QuestionsStart
<1>2. QuestionsInv /\ [Next]_vars => QuestionsInv'
  BY SetupsAssumption, QuestionsStep
<1> QED
  BY <1>1, <1>2, PTL DEF Spec

(***************************************************************************)
(* What follows.                                                           *)
(***************************************************************************)
\* Of a hover, and of code actions, one question waits at a time, and a file
\* is known to no server but one that runs (cancel, take_pending, Exited).
THEOREM QuestionsStaySound == Spec => []QuestionsSound
<1>1. QuestionsInv => QuestionsSound
  <2> SUFFICES ASSUME QuestionsInv  PROVE QuestionsSound
    OBVIOUS
  <2>1. /\ EditorTyped /\ ServersTyped /\ DocsTyped /\ TalkTyped /\ OneInFlight
        /\ setup.maxLives \in Nat /\ refused \in BOOLEAN
    BY SetupFacts, SetupsAssumption
       DEF QuestionsInv, Typed, EditorTyped, FixingTyped
  <2>2. \A s \in Servers : client[s] # "none" => life[s] \in 1..setup.maxLives
    BY <2>1 DEF ServersTyped
  <2>3. \A i \in DOMAIN pending : pending[i] \in Questions
    BY <2>1 DEF TalkTyped
  <2>4. TypeOK
    BY <2>1, <2>2, <2>3 DEF TypeOK, EditorTyped, ServersTyped, DocsTyped
  <2> QED
    BY <2>1, <2>4 DEF QuestionsSound
<1> QED
  BY <1>1, QuestionsInvariant, PTL

\* An answer that is acted upon answers its question, as long as no server
\* crashed, however alike servers number their requests (take_pending).
THEOREM AnswersStayMatched == Spec => []AnswersUntilCrash
<1>1. QuestionsInv => AnswersUntilCrash
  BY DEF QuestionsInv
<1> QED
  BY <1>1, QuestionsInvariant, PTL

\* Between batches what is on offer is about the text on screen, once no
\* question is in flight, as long as no server crashed and the last question
\* was not refused (settle_code_actions, answer_code_actions).
THEOREM OffersStayFitting == Spec => []OfferFitsText
<1>1. QuestionsInv => OfferFitsText
  BY DEF QuestionsInv
<1> QED
  BY <1>1, QuestionsInvariant, PTL
=============================================================================
