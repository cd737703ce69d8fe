------------------------------ MODULE PanesProof ------------------------------
(***************************************************************************)
(* Proofs about the window of MCPanes, in two parts.                       *)
(*                                                                         *)
(* Tabs: that one file is open in one tab and no write to it is kept from  *)
(* the user, that unsaved work goes only when it was asked about, and that *)
(* a start brings back what is there, for any files and any number of tabs *)
(* and panes.                                                              *)
(*                                                                         *)
(* FocusWay: that the keys are in a region that is open, that `esc` and    *)
(* folding a dock lead back where they were, and that `f6` visits every    *)
(* region, for any number of panes and any depth of the way back.          *)
(***************************************************************************)
EXTENDS MCPanes, SequenceTheorems, FiniteSetTheorems, WellFoundedInduction, TLAPS

(***************************************************************************)
(* What `Those` keeps of a sequence.                                       *)
(***************************************************************************)
\* What holds of no number less than all others for which it fails, holds.
LEMMA EveryNumber ==
    ASSUME NEW N \in Nat, NEW T, 0 \in T, \A n \in 1..N : n - 1 \in T => n \in T
    PROVE  \A n \in 0..N : n \in T
<1> DEFINE Bad == {n \in 0..N : n \notin T}
<1>1. SUFFICES ASSUME Bad # {} PROVE FALSE
  OBVIOUS
<1>2. PICK x \in Bad : \A y \in Bad : ~(y < x)
  <2>1. IsWellFoundedOn(OpToRel(<, Nat), Nat)
    BY NatLessThanWellFounded
  <2>2. Bad \subseteq Nat
    OBVIOUS
  <2> HIDE DEF Bad
  <2>3. PICK x \in Bad : \A y \in Bad : <<y, x>> \notin OpToRel(<, Nat)
    BY <1>1, <2>1, <2>2, WFMin, Zenon
  <2> QED BY <2>2, <2>3 DEF OpToRel
<1>3. x # 0 /\ x \in 1..N /\ x - 1 \in 0..N /\ x - 1 < x
  BY <1>2
<1>4. x - 1 \in T
  BY <1>2, <1>3
<1> QED BY <1>2, <1>3, <1>4

\* `those` solves the recursion of `Those` up to `n`.
Step(those, seq, m, wanted) ==
    IF m = 0 THEN <<>>
    ELSE IF seq[m] \in wanted THEN Append(those[m - 1], seq[m])
    ELSE those[m - 1]
Solves(those, seq, n, wanted) ==
    those = [m \in 0..n |-> Step(those, seq, m, wanted)]

LEMMA SolutionExists ==
    ASSUME NEW seq, NEW wanted, NEW n \in Nat
    PROVE  \E those : Solves(those, seq, n, wanted)
<1> DEFINE T == {k \in Nat : \E f : Solves(f, seq, k, wanted)}
<1>1. 0 \in T
  <2> DEFINE f == [m \in 0..0 |-> <<>>]
  <2>1. \A m \in 0..0 : f[m] = Step(f, seq, m, wanted)
    BY DEF Step
  <2>2. f = [m \in 0..0 |-> f[m]]
    OBVIOUS
  <2> HIDE DEF f
  <2>3. Solves(f, seq, 0, wanted)
    BY <2>1, <2>2 DEF Solves
  <2> QED BY <2>3
<1>2. ASSUME NEW k \in 1..n, k - 1 \in T PROVE k \in T
  <2>1. PICK f : f = [m \in 0..(k - 1) |-> Step(f, seq, m, wanted)]
    BY <1>2 DEF Solves
  <2> DEFINE g == [m \in 0..k |-> IF m = k THEN Step(f, seq, k, wanted) ELSE f[m]]
  <2>2. \A m \in 0..k : g[m] = Step(g, seq, m, wanted)
    <3> SUFFICES ASSUME NEW m \in 0..k PROVE g[m] = Step(g, seq, m, wanted)
      OBVIOUS
    <3>1. m # 0 => m - 1 \in 0..(k - 1) /\ g[m - 1] = f[m - 1]
      OBVIOUS
    <3>2. CASE m = k
      BY <3>1, <3>2 DEF Step
    <3>3. CASE m # k
      <4>1. m \in 0..(k - 1) /\ g[m] = f[m]
        BY <3>3
      <4>2. f[m] = Step(f, seq, m, wanted)
        BY <2>1, <4>1
      <4> QED BY <3>1, <4>1, <4>2 DEF Step
    <3> QED BY <3>2, <3>3
  <2>3. g = [m \in 0..k |-> g[m]]
    OBVIOUS
  <2> HIDE DEF g
  <2>4. Solves(g, seq, k, wanted)
    BY <2>2, <2>3 DEF Solves
  <2> QED BY <2>4
<1> HIDE DEF T
<1>3. n \in T
  BY <1>1, <1>2, EveryNumber
<1> QED BY <1>3 DEF T

LEMMA SolutionsAgree ==
    ASSUME NEW seq, NEW wanted, NEW n \in Nat, NEW k \in 0..n,
           NEW f, Solves(f, seq, n, wanted), NEW g, Solves(g, seq, k, wanted)
    PROVE  f[k] = g[k]
<1> DEFINE T == {m \in 0..k : f[m] = g[m]}
<1>1. /\ \A m \in 0..k : f[m] = Step(f, seq, m, wanted)
      /\ \A m \in 0..k : g[m] = Step(g, seq, m, wanted)
  <2>1. \A m \in 0..k : m \in 0..n
    OBVIOUS
  <2> QED BY <2>1 DEF Solves
<1>2. 0 \in T
  BY <1>1 DEF Step
<1>3. ASSUME NEW m \in 1..k, m - 1 \in T PROVE m \in T
  <2>1. m \in 0..k /\ m # 0
    OBVIOUS
  <2>2. f[m - 1] = g[m - 1]
    BY <1>3
  <2> QED BY <1>1, <2>1, <2>2 DEF Step
<1> HIDE DEF T
<1>4. k \in T
  BY <1>2, <1>3, EveryNumber
<1> QED BY <1>4 DEF T

\* `Those` by its last element.
LEMMA ThoseByTheLast ==
    ASSUME NEW seq, NEW wanted
    PROVE  /\ Those(seq, 0, wanted) = <<>>
           /\ \A n \in Nat \ {0} :
                 Those(seq, n, wanted) =
                    IF seq[n] \in wanted
                    THEN Append(Those(seq, n - 1, wanted), seq[n])
                    ELSE Those(seq, n - 1, wanted)
<1> DEFINE F(n) == CHOOSE f : Solves(f, seq, n, wanted)
<1>1. \A n \in Nat : Solves(F(n), seq, n, wanted)
  BY SolutionExists
<1>2. \A n \in Nat : Those(seq, n, wanted) = F(n)[n]
  BY DEF Those, Solves, Step
<1> HIDE DEF F
<1>3. Those(seq, 0, wanted) = <<>>
  <2>1. F(0)[0] = Step(F(0), seq, 0, wanted)
    BY <1>1 DEF Solves
  <2> QED BY <1>2, <2>1 DEF Step
<1>4. ASSUME NEW n \in Nat \ {0}
      PROVE  Those(seq, n, wanted) =
                 IF seq[n] \in wanted
                 THEN Append(Those(seq, n - 1, wanted), seq[n])
                 ELSE Those(seq, n - 1, wanted)
  <2> PICK f : f = F(n)
    OBVIOUS
  <2>1. Solves(f, seq, n, wanted)
    BY <1>1
  <2>2. f[n] = Step(f, seq, n, wanted)
    BY <2>1 DEF Solves
  <2>3. f[n - 1] = F(n - 1)[n - 1]
    <3>1. n - 1 \in Nat /\ n - 1 \in 0..n
      OBVIOUS
    <3> QED BY <1>1, <2>1, <3>1, SolutionsAgree
  <2>4. n \in Nat /\ n - 1 \in Nat /\ n # 0
    OBVIOUS
  <2>5. Those(seq, n - 1, wanted) = f[n - 1] /\ Those(seq, n, wanted) = f[n]
    BY <1>2, <2>3, <2>4
  <2> QED BY <2>2, <2>4, <2>5 DEF Step
<1> QED BY <1>3, <1>4

\* What is kept are elements that are wanted, of different places.
Picked(r, X, seq, n, wanted) ==
    /\ r \in Seq(X) /\ Len(r) <= n
    /\ \A i, j \in DOMAIN r : \E k, l \in 1..n :
          /\ r[i] = seq[k] /\ r[j] = seq[l]
          /\ r[i] \in wanted
          /\ i # j => k # l

LEMMA ThoseAre ==
    ASSUME NEW X, NEW seq \in Seq(X), NEW wanted, NEW n \in 0..Len(seq)
    PROVE  Picked(Those(seq, n, wanted), X, seq, n, wanted)
<1> DEFINE R(m) == Those(seq, m, wanted)
           T == {m \in 0..Len(seq) : Picked(R(m), X, seq, m, wanted)}
<1>0. R(0) = <<>> /\ \A m \in Nat \ {0} :
          R(m) = IF seq[m] \in wanted THEN Append(R(m - 1), seq[m]) ELSE R(m - 1)
  BY ThoseByTheLast
<1> HIDE DEF R
<1>1. 0 \in T
  <2>1. R(0) \in Seq(X) /\ Len(R(0)) = 0 /\ DOMAIN R(0) = {}
    <3>1. <<>> \in Seq(X) /\ Len(<<>>) = 0 /\ DOMAIN <<>> = {}
      BY EmptySeq
    <3>2. R(0) = <<>>
      BY <1>0
    <3> QED BY ONLY <3>1, <3>2
  <2>2. Picked(R(0), X, seq, 0, wanted) /\ 0 \in 0..Len(seq)
    BY <2>1 DEF Picked
  <2> QED BY <2>2
<1>2. ASSUME NEW m \in 1..Len(seq), m - 1 \in T PROVE m \in T
  <2> PICK q : q = R(m - 1)
    OBVIOUS
  <2> PICK r : r = R(m)
    OBVIOUS
  <2>0. /\ m \in Nat \ {0} /\ m \in 1..m /\ seq[m] \in X
        /\ \A k \in 1..(m - 1) : k \in 1..m /\ k # m
    OBVIOUS
  <2>1. Picked(q, X, seq, m - 1, wanted)
    BY <1>2
  <2>2. CASE seq[m] \notin wanted
    <3>1. r = q
      BY <1>0, <2>0, <2>2
    <3>2. Picked(q, X, seq, m, wanted)
      <4>1. ASSUME NEW i \in DOMAIN q, NEW j \in DOMAIN q
            PROVE  \E k, l \in 1..m : /\ q[i] = seq[k] /\ q[j] = seq[l]
                                      /\ q[i] \in wanted
                                      /\ i # j => k # l
        <5>1. PICK k \in 1..(m - 1), l \in 1..(m - 1) :
                 /\ q[i] = seq[k] /\ q[j] = seq[l]
                 /\ q[i] \in wanted
                 /\ i # j => k # l
          BY <2>1, Zenon DEF Picked
        <5> QED BY <2>0, <5>1
      <4>2. q \in Seq(X) /\ Len(q) <= m
        BY <2>0, <2>1 DEF Picked
      <4> QED BY <4>1, <4>2 DEF Picked
    <3>3. Picked(R(m), X, seq, m, wanted) /\ m \in 0..Len(seq)
      BY <2>0, <3>1, <3>2
    <3> QED BY <3>3
  <2>3. CASE seq[m] \in wanted
    <3>1. q \in Seq(X) /\ Len(q) <= m - 1 /\ r = Append(q, seq[m])
      BY <1>0, <2>0, <2>1, <2>3 DEF Picked
    <3>2. /\ r \in Seq(X) /\ Len(r) <= m
          /\ DOMAIN q = 1..Len(q) /\ Len(q) \in Nat
          /\ DOMAIN r = 1..(Len(q) + 1)
          /\ \A i \in 1..Len(q) : r[i] = q[i]
          /\ r[Len(q) + 1] = seq[m]
      BY <2>0, <3>1
    <3>3. \A i, j \in DOMAIN q : \E k, l \in 1..(m - 1) :
              /\ q[i] = seq[k] /\ q[j] = seq[l]
              /\ q[i] \in wanted
              /\ i # j => k # l
      BY <2>1 DEF Picked
    <3>4. ASSUME NEW i \in DOMAIN r, NEW j \in DOMAIN r
          PROVE  \E k, l \in 1..m : /\ r[i] = seq[k] /\ r[j] = seq[l]
                                    /\ r[i] \in wanted
                                    /\ i # j => k # l
      <4>1. CASE i \in DOMAIN q /\ j \in DOMAIN q
        <5>1. PICK k \in 1..(m - 1), l \in 1..(m - 1) :
                 /\ q[i] = seq[k] /\ q[j] = seq[l]
                 /\ q[i] \in wanted
                 /\ i # j => k # l
          BY <3>3, <4>1, Zenon
        <5> QED BY <2>0, <3>2, <4>1, <5>1
      <4>2. CASE i \in DOMAIN q /\ j = Len(q) + 1
        <5>1. PICK k \in 1..(m - 1) : q[i] = seq[k] /\ q[i] \in wanted
          BY <3>3, <4>2
        <5> QED BY <2>0, <3>2, <4>2, <5>1
      <4>3. CASE i = Len(q) + 1 /\ j \in DOMAIN q
        <5>1. PICK l \in 1..(m - 1) : q[j] = seq[l]
          BY <3>3, <4>3
        <5> QED BY <2>0, <2>3, <3>2, <4>3, <5>1
      <4>4. CASE i = Len(q) + 1 /\ j = Len(q) + 1
        BY <2>0, <2>3, <3>2, <4>4
      <4> QED BY <3>2, <4>1, <4>2, <4>3, <4>4
    <3>5. Picked(r, X, seq, m, wanted)
      BY <3>2, <3>4 DEF Picked
    <3> QED BY <3>5
  <2> QED BY <2>2, <2>3
<1>3. n \in T
  <2>1. Len(seq) \in Nat
    OBVIOUS
  <2> HIDE DEF T
  <2> QED BY <1>1, <1>2, <2>1, EveryNumber
<1> QED BY <1>3 DEF R

-----------------------------------------------------------------------------
(***************************************************************************)
(* The inductive invariant.                                                *)
(***************************************************************************)
Pane == [id : 0..MaxPanes, active : Nat, tabs : Seq(Tab)]

Asked == [tab : Nat, within : {NoPane} \cup Nat, pane : {NoPane} \cup Nat]

\* The types TypeOK leaves out, of what a step computes with.
Typed ==
    /\ TypeOK
    /\ panes \in Seq(Pane)
    /\ recent \in Seq(Keys)
    /\ asked \in Asked

\* A key is of one tab, at one place.
KeysApart(ps) ==
    \A i, k \in DOMAIN ps :
        \A j \in DOMAIN ps[i].tabs, l \in DOMAIN ps[k].tabs :
            ps[i].tabs[j].key = ps[k].tabs[l].key => i = k /\ j = l

\* So is a file.
FilesApart(ps) ==
    \A i, k \in DOMAIN ps :
        \A j \in DOMAIN ps[i].tabs, l \in DOMAIN ps[k].tabs :
            /\ ps[i].tabs[j].file \in Files
            /\ ps[i].tabs[j].file = ps[k].tabs[l].file
            => i = k /\ j = l

PanesApart(ps) == \A i, k \in DOMAIN ps : ps[i].id = ps[k].id => i = k

\* There is a key to spare.
KeyLeft == Cardinality(KeysOf(panes)) <= MaxTabs

\* The index whose close was refused is, in the pane it was refused in, still
\* that of the tab asked about, and the work in it is not saved.
AskedTab ==
    closePending # NoIndex =>
        /\ asked.within # NoPane
        /\ \A i \in DOMAIN panes : panes[i].id = asked.within =>
              /\ closePending \in DOMAIN panes[i].tabs
              /\ panes[i].tabs[closePending].key = asked.tab
              /\ panes[i].tabs[closePending].dirty

\* The pane whose close was refused is the one asked about.
AskedPane == closePanePending = asked.pane

TabsInv ==
    /\ Typed
    /\ KeysApart(panes)
    /\ FilesApart(panes)
    /\ PanesApart(panes)
    /\ ChangeIsSaid
    /\ KeyLeft
    /\ AskedTab
    /\ AskedPane

-----------------------------------------------------------------------------
(***************************************************************************)
(* Panes, tabs and keys.                                                   *)
(***************************************************************************)
IsPane(p) == p \in Pane /\ p.active \in DOMAIN p.tabs

LEMMA TypesOfOne ==
    ASSUME Typed
    PROVE  /\ Len(panes) \in Nat /\ DOMAIN panes = 1..Len(panes)
           /\ \A i \in DOMAIN panes :
                 /\ IsPane(panes[i])
                 /\ panes[i].id \in 0..(nextPane - 1)
  BY DEF Typed, TypeOK, IsPane

LEMMA TabsOfPane ==
    ASSUME NEW p, IsPane(p)
    PROVE  /\ Len(p.tabs) \in Nat \ {0} /\ DOMAIN p.tabs = 1..Len(p.tabs)
           /\ p.active \in 1..Len(p.tabs)
           /\ \A j \in DOMAIN p.tabs :
                 /\ p.tabs[j] \in Tab
                 /\ p.tabs[j].key \in Keys
                 /\ p.tabs[j].file \in Files \cup {Untitled}
                 /\ p.tabs[j].dirty \in BOOLEAN
                 /\ p.tabs[j].changed \in BOOLEAN
<1>1. /\ Len(p.tabs) \in Nat /\ DOMAIN p.tabs = 1..Len(p.tabs)
      /\ p.active \in DOMAIN p.tabs
      /\ \A j \in DOMAIN p.tabs : p.tabs[j] \in Tab
  BY DEF IsPane, Pane
<1> QED BY <1>1 DEF Tab

LEMMA TabsAre ==
    ASSUME NEW ps
    PROVE  /\ \A t : t \in TabsOf(ps) <=>
                 \E i \in DOMAIN ps : \E j \in DOMAIN ps[i].tabs : t = ps[i].tabs[j]
           /\ \A k : k \in KeysOf(ps) <=>
                 \E i \in DOMAIN ps : \E j \in DOMAIN ps[i].tabs :
                     k = ps[i].tabs[j].key
<1>1. \A t : t \in TabsOf(ps) <=>
          \E i \in DOMAIN ps : \E j \in DOMAIN ps[i].tabs : t = ps[i].tabs[j]
  <2> SUFFICES ASSUME NEW t
               PROVE  t \in TabsOf(ps) <=>
                        \E i \in DOMAIN ps : \E j \in DOMAIN ps[i].tabs :
                            t = ps[i].tabs[j]
    OBVIOUS
  <2>1. t \in TabsOf(ps) <=> \E i \in DOMAIN ps : t \in Range(ps[i].tabs)
    BY DEF TabsOf
  <2> QED BY <2>1 DEF Range
<1> QED BY <1>1 DEF KeysOf

\* Every key in use is a key, and there is one that is not in use.
LEMMA KeysInUse ==
    ASSUME TabsInv
    PROVE  /\ IsFiniteSet(Keys) /\ Cardinality(Keys) = MaxTabs + 1
           /\ KeysOf(panes) \subseteq Keys
           /\ IsFiniteSet(KeysOf(panes))
           /\ Cardinality(KeysOf(panes)) \in Nat
           /\ FreshKey \in Keys /\ FreshKey \notin KeysOf(panes)
<1>1. IsFiniteSet(Keys) /\ Cardinality(Keys) = MaxTabs + 1
  BY FS_Interval, BoundsAssumption DEF Keys
<1>2. KeysOf(panes) \subseteq Keys
  <2>1. \A i \in DOMAIN panes : \A j \in DOMAIN panes[i].tabs :
            panes[i].tabs[j].key \in Keys
    BY TypesOfOne, TabsOfPane DEF TabsInv
  <2> QED BY <2>1, TabsAre
<1>3. IsFiniteSet(KeysOf(panes)) /\ Cardinality(KeysOf(panes)) \in Nat
  BY <1>1, <1>2, FS_Subset, FS_CardinalityType
<1>4. Keys # KeysOf(panes)
  BY <1>1, <1>3, BoundsAssumption DEF TabsInv, KeyLeft
<1>5. \E k \in Keys : k \notin KeysOf(panes)
  BY <1>2, <1>4
<1> QED BY <1>1, <1>2, <1>3, <1>5 DEF FreshKey

\* A key names its tab, so there are as many of the one as of the other.
LEMMA KeysCountTabs ==
    ASSUME TabsInv
    PROVE  /\ IsFiniteSet(AllTabs)
           /\ Cardinality(AllTabs) = Cardinality(KeysOf(panes))
<1> DEFINE f == [t \in AllTabs |-> t.key]
<1>1. f \in [AllTabs -> KeysOf(panes)]
  BY DEF KeysOf, AllTabs
<1>2. \A t, u \in AllTabs : f[t] = f[u] => t = u
  <2> SUFFICES ASSUME NEW t \in AllTabs, NEW u \in AllTabs, t.key = u.key
               PROVE  t = u
    OBVIOUS
  <2>1. PICK i \in DOMAIN panes : \E j \in DOMAIN panes[i].tabs : t = panes[i].tabs[j]
    BY TabsAre DEF AllTabs
  <2>2. PICK k \in DOMAIN panes : \E l \in DOMAIN panes[k].tabs : u = panes[k].tabs[l]
    BY TabsAre DEF AllTabs
  <2> QED BY <2>1, <2>2 DEF TabsInv, KeysApart
<1>3. \A k \in KeysOf(panes) : \E t \in AllTabs : f[t] = k
  BY DEF KeysOf, AllTabs
<1> HIDE DEF f
<1>4. f \in Injection(AllTabs, KeysOf(panes)) /\ f \in Surjection(AllTabs, KeysOf(panes))
  BY <1>1, <1>2, <1>3 DEF Injection, IsInjective, Surjection
<1> QED BY <1>4, FS_Injection, KeysInUse

\* A pane has no more tabs than there are keys in use.
LEMMA TabsInBound ==
    ASSUME TabsInv, NEW i \in DOMAIN panes
    PROVE  Len(panes[i].tabs) <= MaxTabs
<1> DEFINE n == Len(panes[i].tabs)
           f == [j \in 1..n |-> panes[i].tabs[j].key]
<1>0. n \in Nat /\ DOMAIN panes[i].tabs = 1..n
  BY TypesOfOne, TabsOfPane DEF TabsInv
<1>1. f \in [1..n -> KeysOf(panes)]
  BY <1>0, TabsAre
<1>2. \A j, l \in 1..n : f[j] = f[l] => j = l
  BY <1>0 DEF TabsInv, KeysApart
<1> HIDE DEF f, n
<1>3. f \in Injection(1..n, KeysOf(panes))
  BY <1>1, <1>2 DEF Injection, IsInjective
<1>4. Cardinality(1..n) = n
  BY <1>0, FS_Interval
<1>5. n <= Cardinality(KeysOf(panes))
  BY <1>3, <1>4, FS_Injection, KeysInUse
<1>6. n <= MaxTabs
  BY <1>0, <1>5, KeysInUse, BoundsAssumption DEF TabsInv, KeyLeft
<1> QED BY <1>6 DEF n

\* Where a file is open.
LEMMA PlacesAre ==
    ASSUME TabsInv, NEW file
    PROVE  /\ \A at \in Places(file) :
                 /\ at[1] \in DOMAIN panes /\ at[2] \in DOMAIN panes[at[1]].tabs
                 /\ panes[at[1]].tabs[at[2]].file = file
           /\ ~IsOpen(file) =>
                 \A i \in DOMAIN panes : \A j \in DOMAIN panes[i].tabs :
                     panes[i].tabs[j].file # file
<1>1. \A at \in Places(file) :
          /\ at[1] \in DOMAIN panes /\ at[2] \in DOMAIN panes[at[1]].tabs
          /\ panes[at[1]].tabs[at[2]].file = file
  BY DEF Places
<1>2. ASSUME NEW i \in DOMAIN panes, NEW j \in DOMAIN panes[i].tabs,
             panes[i].tabs[j].file = file
      PROVE  <<i, j>> \in Places(file)
  <2>1. j \in 1..MaxTabs
    BY TypesOfOne, TabsOfPane, TabsInBound, BoundsAssumption DEF TabsInv
  <2> QED BY <1>2, <2>1 DEF Places
<1> QED BY <1>1, <1>2 DEF IsOpen

-----------------------------------------------------------------------------
(***************************************************************************)
(* How panes may change.                                                   *)
(***************************************************************************)
\* A tab that was there: its key, and its file if it still has one.
From(t, u) == t.key = u.key /\ (t.file = u.file \/ t.file = Untitled)

\* A tab that was not, of a file that was not open.
New(t) == t.key = FreshKey /\ (t.file \in Files => ~IsOpen(t.file))

\* The tabs of one pane have keys and files of their own.
OwnTabs(p) ==
    \A j, l \in DOMAIN p.tabs :
        /\ p.tabs[j].key = p.tabs[l].key => j = l
        /\ p.tabs[j].file \in Files /\ p.tabs[j].file = p.tabs[l].file => j = l

\* Every tab of `p` was in `q`, or is new.
ComesFrom(p, q) ==
    \A j \in DOMAIN p.tabs :
        New(p.tabs[j]) \/ \E k \in DOMAIN q.tabs : From(p.tabs[j], q.tabs[k])

\* Every tab of `p` was in `q`.
Within(p, q) ==
    \A j \in DOMAIN p.tabs : \E k \in DOMAIN q.tabs : From(p.tabs[j], q.tabs[k])

LEMMA OwnTabsNow ==
    ASSUME TabsInv, NEW i \in DOMAIN panes
    PROVE  OwnTabs(panes[i]) /\ Within(panes[i], panes[i])
  BY DEF TabsInv, KeysApart, FilesApart, OwnTabs, Within, From

\* Keys and files stay apart when panes change places and only one, at `i`,
\* has a tab that is new.
LEMMA StillApart ==
    ASSUME TabsInv, NEW ps, NEW i,
           NEW back \in [DOMAIN ps -> Nat],
           \A n, m \in DOMAIN ps : back[n] = back[m] => n = m,
           \A n \in DOMAIN ps : OwnTabs(ps[n]),
           \A n \in DOMAIN ps : \A j \in DOMAIN ps[n].tabs :
               \/ n = i /\ New(ps[n].tabs[j])
               \/ /\ back[n] \in DOMAIN panes
                  /\ \E k \in DOMAIN panes[back[n]].tabs :
                        From(ps[n].tabs[j], panes[back[n]].tabs[k])
    PROVE  /\ KeysApart(ps) /\ FilesApart(ps)
           /\ KeysOf(ps) \subseteq KeysOf(panes) \cup {FreshKey}
<1>1. KeysOf(ps) \subseteq KeysOf(panes) \cup {FreshKey}
  <2> SUFFICES ASSUME NEW x \in KeysOf(ps), x # FreshKey PROVE x \in KeysOf(panes)
    OBVIOUS
  <2>1. PICK n \in DOMAIN ps : \E j \in DOMAIN ps[n].tabs : x = ps[n].tabs[j].key
    BY TabsAre
  <2>2. \E k \in DOMAIN panes[back[n]].tabs : x = panes[back[n]].tabs[k].key
    BY <2>1 DEF New, From
  <2>3. back[n] \in DOMAIN panes
    BY <2>1 DEF New
  <2> QED BY <2>2, <2>3, TabsAre
<1>2. ASSUME NEW n \in DOMAIN ps, NEW m \in DOMAIN ps,
             NEW j \in DOMAIN ps[n].tabs, NEW l \in DOMAIN ps[m].tabs,
             \/ ps[n].tabs[j].key = ps[m].tabs[l].key
             \/ /\ ps[n].tabs[j].file \in Files
                /\ ps[n].tabs[j].file = ps[m].tabs[l].file
      PROVE  n = m /\ j = l
  <2> DEFINE t == ps[n].tabs[j]
             u == ps[m].tabs[l]
             Was(x, r) == /\ back[r] \in DOMAIN panes
                          /\ \E k \in DOMAIN panes[back[r]].tabs :
                                From(x, panes[back[r]].tabs[k])
  <2>0. Untitled \notin Files
    BY BoundsAssumption
  <2>1. ((n = i /\ New(t)) \/ Was(t, n)) /\ ((m = i /\ New(u)) \/ Was(u, m))
    OBVIOUS
  <2>2. n = m => j = l
    BY <1>2 DEF OwnTabs
  <2>3. CASE n = i /\ New(t) /\ m = i /\ New(u)
    BY <2>2, <2>3
  <2>4. CASE New(t) /\ Was(u, m)
    <3>1. PICK k \in DOMAIN panes[back[m]].tabs : From(u, panes[back[m]].tabs[k])
      BY <2>4
    <3>2. panes[back[m]].tabs[k].key \in KeysOf(panes)
      BY <2>4, TabsAre
    <3>3. t.key # u.key
      BY <2>4, <3>1, <3>2, KeysInUse DEF New, From
    <3>4. t.file \in Files => t.file # u.file
      BY <2>0, <2>4, <3>1, PlacesAre DEF New, From
    <3> QED BY <1>2, <3>3, <3>4
  <2>5. CASE Was(t, n) /\ New(u)
    <3>1. PICK k \in DOMAIN panes[back[n]].tabs : From(t, panes[back[n]].tabs[k])
      BY <2>5
    <3>2. panes[back[n]].tabs[k].key \in KeysOf(panes)
      BY <2>5, TabsAre
    <3>3. t.key # u.key
      BY <2>5, <3>1, <3>2, KeysInUse DEF New, From
    <3>4. t.file \in Files => t.file # u.file
      BY <2>0, <2>5, <3>1, PlacesAre DEF New, From
    <3> QED BY <1>2, <3>3, <3>4
  <2>6. CASE Was(t, n) /\ Was(u, m)
    <3>1. PICK k \in DOMAIN panes[back[n]].tabs : From(t, panes[back[n]].tabs[k])
      BY <2>6
    <3>2. PICK h \in DOMAIN panes[back[m]].tabs : From(u, panes[back[m]].tabs[h])
      BY <2>6
    <3>3. back[n] = back[m]
      <4> DEFINE x == panes[back[n]].tabs[k]
                 y == panes[back[m]].tabs[h]
      <4>1. x.key = y.key \/ (x.file \in Files /\ x.file = y.file)
        BY <1>2, <2>0, <3>1, <3>2 DEF From
      <4>2. KeysApart(panes) /\ FilesApart(panes)
        BY DEF TabsInv
      <4> QED BY <2>6, <4>1, <4>2 DEF KeysApart, FilesApart
    <3> QED BY <2>2, <3>3
  <2> HIDE DEF t, u, Was
  <2> QED BY <2>1, <2>3, <2>4, <2>5, <2>6
<1>3. KeysApart(ps) /\ FilesApart(ps)
  BY <1>2 DEF KeysApart, FilesApart
<1> QED BY <1>1, <1>3

\* How many keys a step may come to use: those in use, one more while there is
\* room, or a new one in place of another.
Fits(ps) ==
    \/ FreshKey \notin KeysOf(ps)
    \/ HasRoom
    \/ \E k \in KeysOf(panes) : k \notin KeysOf(ps)

LEMMA OneMore ==
    ASSUME NEW S, IsFiniteSet(S), NEW x
    PROVE  /\ IsFiniteSet(S \cup {x})
           /\ Cardinality(S \cup {x}) \in Nat
           /\ Cardinality(S \cup {x}) <= Cardinality(S) + 1
<1>1. IsFiniteSet(S \cup {x}) /\ Cardinality(S) \in Nat
  BY FS_AddElement, FS_CardinalityType
<1>2. Cardinality(S \cup {x}) \in Nat
  BY <1>1, FS_CardinalityType
<1>3. \/ Cardinality(S \cup {x}) = Cardinality(S)
      \/ Cardinality(S \cup {x}) = Cardinality(S) + 1
  BY FS_AddElement, Zenon
<1> QED BY <1>1, <1>2, <1>3

LEMMA KeyStillLeft ==
    ASSUME TabsInv, NEW ps, Fits(ps),
           KeysOf(ps) \subseteq KeysOf(panes) \cup {FreshKey}
    PROVE  Cardinality(KeysOf(ps)) <= MaxTabs
<1> DEFINE used == KeysOf(panes)
<1>0. /\ IsFiniteSet(used) /\ Cardinality(used) \in Nat
      /\ Cardinality(used) <= MaxTabs /\ MaxTabs \in Nat
  BY KeysInUse, BoundsAssumption DEF TabsInv, KeyLeft
<1>1. CASE FreshKey \notin KeysOf(ps)
  <2>1. KeysOf(ps) \in SUBSET used
    BY <1>1
  <2>2. Cardinality(KeysOf(ps)) <= Cardinality(used) /\ Cardinality(KeysOf(ps)) \in Nat
    BY <1>0, <2>1, FS_Subset, FS_CardinalityType
  <2> QED BY <1>0, <2>2
<1>2. CASE HasRoom
  <2>1. Cardinality(used) < MaxTabs
    BY <1>2, KeysCountTabs DEF HasRoom
  <2>2. /\ IsFiniteSet(used \cup {FreshKey})
        /\ Cardinality(used \cup {FreshKey}) <= Cardinality(used) + 1
        /\ Cardinality(used \cup {FreshKey}) \in Nat
    BY <1>0, OneMore
  <2>3. /\ Cardinality(KeysOf(ps)) <= Cardinality(used \cup {FreshKey})
        /\ Cardinality(KeysOf(ps)) \in Nat
    BY <2>2, FS_Subset, FS_CardinalityType
  <2> QED BY <1>0, <2>1, <2>2, <2>3
<1>3. ASSUME NEW k \in used, k \notin KeysOf(ps)
      PROVE  Cardinality(KeysOf(ps)) <= MaxTabs
  <2> DEFINE rest == used \ {k}
  <2>1. /\ IsFiniteSet(rest) /\ Cardinality(rest) = Cardinality(used) - 1
        /\ Cardinality(rest) \in Nat
    BY <1>0, FS_RemoveElement, FS_CardinalityType
  <2>2. KeysOf(ps) \subseteq rest \cup {FreshKey}
    BY <1>3
  <2> HIDE DEF rest, used
  <2>3. /\ IsFiniteSet(rest \cup {FreshKey})
        /\ Cardinality(rest \cup {FreshKey}) <= Cardinality(rest) + 1
        /\ Cardinality(rest \cup {FreshKey}) \in Nat
    BY <2>1, OneMore
  <2>4. /\ Cardinality(KeysOf(ps)) <= Cardinality(rest \cup {FreshKey})
        /\ Cardinality(KeysOf(ps)) \in Nat
    BY <2>2, <2>3, FS_Subset, FS_CardinalityType
  <2> QED BY <1>0, <2>1, <2>3, <2>4
<1> QED BY <1>1, <1>2, <1>3 DEF Fits

-----------------------------------------------------------------------------
(***************************************************************************)
(* Steps that change one pane.                                             *)
(***************************************************************************)
QuestionsFit ==
    /\ closePending \in 0..MaxTabs
    /\ closePanePending \in {NoPane} \cup 0..(nextPane - 1)
    /\ quitPending \in BOOLEAN
    /\ asked \in Asked
    /\ AskedTab
    /\ AskedPane

LEMMA InputFits ==
    ASSUME TabsInv, ClearTransient
    PROVE  QuestionsFit'
<1>1. /\ closePending' = 0 /\ closePanePending' = NoPane /\ quitPending' = FALSE
      /\ asked' = Nobody
  BY DEF ClearTransient, NoIndex
<1>2. Nobody \in Asked /\ Nobody.pane = NoPane
  BY DEF Nobody, Asked, NoKey
<1>3. AskedTab' /\ AskedPane'
  BY <1>1, <1>2 DEF AskedTab, AskedPane, NoIndex
<1>4. /\ closePending' \in 0..MaxTabs /\ quitPending' \in BOOLEAN
      /\ closePanePending' \in {NoPane} \cup 0..(nextPane' - 1)
      /\ asked' \in Asked
  <2>1. closePending' \in 0..MaxTabs
    BY <1>1, BoundsAssumption
  <2>2. quitPending' \in BOOLEAN /\ asked' \in Asked
    BY <1>1, <1>2, Zenon
  <2>3. closePanePending' \in {NoPane} \cup 0..(nextPane' - 1)
    BY <1>1, Zenon
  <2> QED BY <2>1, <2>2, <2>3
<1> QED BY <1>3, <1>4 DEF QuestionsFit

\* Unsaved work stays where it is.
Keeps(p, q) ==
    \A j \in DOMAIN q.tabs : q.tabs[j].dirty =>
        j \in DOMAIN p.tabs /\ p.tabs[j].key = q.tabs[j].key /\ p.tabs[j].dirty

LEMMA AskedTabKept ==
    ASSUME TabsInv, closePending' = closePending,
           asked'.tab = asked.tab, asked'.within = asked.within,
           \A n \in DOMAIN panes' : \E m \in DOMAIN panes :
               panes'[n].id = panes[m].id /\ Keeps(panes'[n], panes[m])
    PROVE  AskedTab'
<1> SUFFICES ASSUME closePending # NoIndex
             PROVE  /\ asked'.within # NoPane
                    /\ \A n \in DOMAIN panes' : panes'[n].id = asked'.within =>
                          /\ closePending \in DOMAIN panes'[n].tabs
                          /\ panes'[n].tabs[closePending].key = asked'.tab
                          /\ panes'[n].tabs[closePending].dirty
  BY DEF AskedTab
<1>1. asked.within # NoPane
  BY DEF TabsInv, AskedTab
<1>2. ASSUME NEW n \in DOMAIN panes', panes'[n].id = asked.within
      PROVE  /\ closePending \in DOMAIN panes'[n].tabs
             /\ panes'[n].tabs[closePending].key = asked.tab
             /\ panes'[n].tabs[closePending].dirty
  <2>1. PICK m \in DOMAIN panes :
            panes'[n].id = panes[m].id /\ Keeps(panes'[n], panes[m])
    OBVIOUS
  <2>2. /\ closePending \in DOMAIN panes[m].tabs
        /\ panes[m].tabs[closePending].key = asked.tab
        /\ panes[m].tabs[closePending].dirty
    BY <1>2, <2>1 DEF TabsInv, AskedTab
  <2> QED BY <2>1, <2>2 DEF Keeps
<1> QED BY <1>1, <1>2

LEMMA BackgroundFits ==
    ASSUME TabsInv, UNCHANGED questions, nextPane' = nextPane,
           \A n \in DOMAIN panes' : \E m \in DOMAIN panes :
               panes'[n].id = panes[m].id /\ Keeps(panes'[n], panes[m])
    PROVE  QuestionsFit'
<1>1. AskedTab'
  BY AskedTabKept DEF questions
<1> QED BY <1>1 DEF questions, TabsInv, Typed, TypeOK, QuestionsFit, AskedPane

LEMMA OnePaneInv ==
    ASSUME TabsInv, NEW i \in DOMAIN panes, NEW p, IsPane(p),
           p.id = panes[i].id, OwnTabs(p), ComesFrom(p, panes[i]),
           ~Shown(p).changed,
           panes' = [panes EXCEPT ![i] = p], Fits(panes'),
           pane' \in DOMAIN panes, nextPane' = nextPane, quit' \in BOOLEAN,
           recent' \in Seq(Keys), QuestionsFit'
    PROVE  TabsInv'
<1>0. Typed
  BY DEF TabsInv
<1> PICK ps : ps = panes'
  OBVIOUS
<1>1. /\ DOMAIN ps = DOMAIN panes /\ ps[i] = p
      /\ \A n \in DOMAIN ps : n # i => ps[n] = panes[n]
  OBVIOUS
<1>2. /\ \A n \in DOMAIN ps : IsPane(ps[n]) /\ OwnTabs(ps[n])
      /\ \A n \in DOMAIN ps : ps[n].id = panes[n].id
  BY <1>0, <1>1, TypesOfOne, OwnTabsNow
<1>3. ps \in Seq(Pane) /\ ps # <<>>
  BY <1>0, <1>1, <1>2 DEF Typed, TypeOK, IsPane
<1>4. /\ KeysApart(ps) /\ FilesApart(ps)
      /\ KeysOf(ps) \subseteq KeysOf(panes) \cup {FreshKey}
  <2> DEFINE back == [n \in DOMAIN ps |-> n]
  <2>1. /\ back \in [DOMAIN ps -> Nat]
        /\ \A n, m \in DOMAIN ps : back[n] = back[m] => n = m
    BY <1>0, <1>1, TypesOfOne
  <2>2. ASSUME NEW n \in DOMAIN ps, NEW j \in DOMAIN ps[n].tabs
        PROVE  \/ n = i /\ New(ps[n].tabs[j])
               \/ /\ back[n] \in DOMAIN panes
                  /\ \E k \in DOMAIN panes[back[n]].tabs :
                        From(ps[n].tabs[j], panes[back[n]].tabs[k])
    <3>1. CASE n = i
      BY <1>1, <3>1 DEF ComesFrom
    <3>2. CASE n # i
      BY <1>1, <3>2, OwnTabsNow DEF Within
    <3> QED BY <3>1, <3>2
  <2>3. \A n \in DOMAIN ps : OwnTabs(ps[n])
    BY <1>2
  <2> HIDE DEF back
  <2> QED BY ONLY TabsInv, <2>1, <2>2, <2>3, StillApart
<1>5. PanesApart(ps)
  BY <1>1, <1>2 DEF TabsInv, PanesApart
<1>6. Cardinality(KeysOf(ps)) <= MaxTabs
  BY <1>4, KeyStillLeft
<1>7. KeyLeft'
  BY <1>6 DEF KeyLeft
<1>8. ChangeIsSaid'
  <2>1. \A n \in DOMAIN ps : ~Shown(ps[n]).changed
    BY <1>1 DEF TabsInv, ChangeIsSaid
  <2> QED BY <2>1 DEF ChangeIsSaid
<1>9. Range(recent') \subseteq Keys
  BY DEF Range
<1>10. TypeOK'
  <2>1. \A n \in DOMAIN ps : /\ ps[n].tabs \in Seq(Tab)
                             /\ ps[n].active \in DOMAIN ps[n].tabs
                             /\ ps[n].id \in 0..(nextPane - 1)
    BY <1>0, <1>1, <1>2, TypesOfOne DEF IsPane, Pane
  <2>2. nextPane \in 1..MaxPanes /\ pane' \in DOMAIN ps
    BY <1>0, <1>1 DEF Typed, TypeOK
  <2> QED BY <1>3, <1>9, <2>1, <2>2 DEF TypeOK, QuestionsFit
<1>11. Typed'
  BY <1>3, <1>10 DEF Typed, QuestionsFit
<1> QED BY <1>4, <1>5, <1>7, <1>8, <1>11 DEF TabsInv, QuestionsFit

LEMMA SettledIs ==
    ASSUME NEW p, IsPane(p)
    PROVE  /\ IsPane(Settled(p))
           /\ Settled(p).id = p.id /\ Settled(p).active = p.active
           /\ DOMAIN Settled(p).tabs = DOMAIN p.tabs
           /\ \A j \in DOMAIN p.tabs :
                 /\ Settled(p).tabs[j].key = p.tabs[j].key
                 /\ Settled(p).tabs[j].file = p.tabs[j].file
                 /\ Settled(p).tabs[j].dirty = p.tabs[j].dirty
           /\ ~Shown(Settled(p)).changed
<1> DEFINE t == [p.tabs[p.active] EXCEPT !.changed = FALSE]
           ts == [p.tabs EXCEPT ![p.active] = t]
<1>0. /\ p \in Pane /\ p.active \in DOMAIN p.tabs /\ p.tabs \in Seq(Tab)
      /\ p.tabs[p.active] \in Tab
  BY TabsOfPane DEF IsPane, Pane
<1>1. /\ t \in Tab /\ t.changed = FALSE
      /\ t.key = p.tabs[p.active].key /\ t.file = p.tabs[p.active].file
      /\ t.dirty = p.tabs[p.active].dirty
  BY <1>0 DEF Tab
<1>2. Settled(p) = [p EXCEPT !.tabs = ts]
  BY DEF Settled
<1> HIDE DEF t
<1>3. /\ ts \in Seq(Tab) /\ DOMAIN ts = DOMAIN p.tabs /\ ts[p.active] = t
      /\ \A j \in DOMAIN p.tabs : j # p.active => ts[j] = p.tabs[j]
  BY <1>0, <1>1
<1> HIDE DEF ts
<1>4. /\ Settled(p).tabs = ts /\ Settled(p).id = p.id /\ Settled(p).active = p.active
      /\ Settled(p) \in Pane
  BY <1>0, <1>2, <1>3 DEF Pane
<1> QED BY <1>0, <1>1, <1>3, <1>4 DEF IsPane, Shown

\* Whether there are keys for the tabs of `p` in the place of the pane at `i`.
HasKeys(i, p) ==
    \/ HasRoom
    \/ Within(p, panes[i])
    \/ \A j \in DOMAIN p.tabs : New(p.tabs[j])

LEMMA HasKeysFits ==
    ASSUME TabsInv, NEW i \in DOMAIN panes, NEW p, IsPane(p), HasKeys(i, p),
           NEW ps, DOMAIN ps = DOMAIN panes, ps[i] = p,
           \A n \in DOMAIN ps : n # i => ps[n] = panes[n]
    PROVE  Fits(ps)
<1>0. Typed /\ KeysApart(panes)
  BY DEF TabsInv
<1>1. /\ DOMAIN ps = DOMAIN panes /\ ps[i] = p
      /\ \A n \in DOMAIN ps : n # i => ps[n] = panes[n]
  OBVIOUS
<1>2. CASE Within(p, panes[i])
  <2>1. SUFFICES ASSUME FreshKey \in KeysOf(ps) PROVE FALSE
    BY DEF Fits
  <2>2. PICK n \in DOMAIN ps : \E j \in DOMAIN ps[n].tabs : FreshKey = ps[n].tabs[j].key
    BY <2>1, TabsAre
  <2>3. \E j \in DOMAIN panes[n].tabs : FreshKey = panes[n].tabs[j].key
    BY <1>1, <1>2, <2>2 DEF Within, From
  <2> QED BY <1>1, <2>3, TabsAre, KeysInUse
<1>3. CASE \A j \in DOMAIN p.tabs : New(p.tabs[j])
  <2> DEFINE k == panes[i].tabs[1].key
  <2>1. 1 \in DOMAIN panes[i].tabs
    BY <1>0, TypesOfOne, TabsOfPane
  <2>2. k \in KeysOf(panes)
    BY <2>1, TabsAre
  <2>3. ASSUME k \in KeysOf(ps) PROVE FALSE
    <3>1. PICK n \in DOMAIN ps : \E j \in DOMAIN ps[n].tabs : k = ps[n].tabs[j].key
      BY <2>3, TabsAre
    <3>2. CASE n = i
      BY <1>1, <1>3, <2>2, <3>1, <3>2, KeysInUse DEF New
    <3>3. CASE n # i
      BY <1>0, <1>1, <2>1, <3>1, <3>3 DEF KeysApart
    <3> QED BY <3>2, <3>3
  <2> QED BY <2>2, <2>3 DEF Fits
<1> QED BY <1>2, <1>3 DEF HasKeys, Fits

\* A tab that is shown settles.
LEMMA SettleInv ==
    ASSUME TabsInv, NEW i \in DOMAIN panes, NEW p, IsPane(p),
           p.id = panes[i].id, OwnTabs(p), ComesFrom(p, panes[i]), HasKeys(i, p),
           panes' = [panes EXCEPT ![i] = Settled(p)],
           pane' = i, recent' \in Seq(Keys), nextPane' = nextPane,
           quit' \in BOOLEAN, QuestionsFit'
    PROVE  TabsInv'
<1> PICK q : q = Settled(p)
  OBVIOUS
<1>1. /\ IsPane(q) /\ q.id = p.id /\ ~Shown(q).changed
      /\ DOMAIN q.tabs = DOMAIN p.tabs
      /\ \A j \in DOMAIN p.tabs :
            q.tabs[j].key = p.tabs[j].key /\ q.tabs[j].file = p.tabs[j].file
  BY SettledIs
<1>2. OwnTabs(q)
  BY <1>1 DEF OwnTabs
<1>3. ComesFrom(q, panes[i])
  BY <1>1 DEF ComesFrom, New, From
<1>4. HasKeys(i, q)
  BY <1>1 DEF HasKeys, Within, New, From
<1>5. panes' = [panes EXCEPT ![i] = q]
  OBVIOUS
<1>6. Fits(panes')
  <2> PICK ps : ps = panes'
    OBVIOUS
  <2>1. /\ DOMAIN ps = DOMAIN panes /\ ps[i] = q
        /\ \A n \in DOMAIN ps : n # i => ps[n] = panes[n]
    BY <1>5
  <2>2. Fits(ps)
    BY ONLY TabsInv, i \in DOMAIN panes, <1>1, <1>4, <2>1, HasKeysFits
  <2> QED BY <2>2
<1> QED BY <1>1, <1>2, <1>3, <1>5, <1>6, OnePaneInv

\* The stamps, and what is left of them.
LEMMA StampsAreKeys ==
    ASSUME recent \in Seq(Keys), NEW left
    PROVE  Those(recent, Len(recent), left) \in Seq(Keys)
<1>1. Len(recent) \in 0..Len(recent)
  BY LenProperties
<1> QED BY <1>1, ThoseAre DEF Picked

-----------------------------------------------------------------------------
(***************************************************************************)
(* Each action keeps the invariant.                                        *)
(***************************************************************************)
LEMMA InitTabsInv == Init => TabsInv
<1> SUFFICES ASSUME Init PROVE TabsInv
  OBVIOUS
<1> DEFINE t == [key |-> 1, file |-> Untitled, dirty |-> FALSE, changed |-> FALSE]
           p == [id |-> 0, active |-> 1, tabs |-> <<t>>]
<1>0. 1 \in Keys /\ MaxTabs \in Nat \ {0} /\ MaxPanes \in Nat \ {0}
  BY BoundsAssumption DEF Keys
<1>1. t \in Tab /\ t.changed = FALSE /\ t.key = 1
  BY <1>0 DEF Tab
<1>2. /\ panes = <<p>> /\ pane = 1 /\ nextPane = 1 /\ recent = <<1>>
      /\ closePending = 0 /\ closePanePending = NoPane /\ quitPending = FALSE
      /\ quit = FALSE /\ asked = Nobody
  BY DEF Init, NoIndex
<1> HIDE DEF t
<1>3. p.tabs = <<t>> /\ p.active = 1 /\ p.id = 0 /\ p \in Pane
  BY <1>0, <1>1 DEF Pane
<1>4. /\ DOMAIN p.tabs = {1} /\ p.tabs[1] = t /\ p.tabs \in Seq(Tab)
  BY <1>1, <1>3
<1> HIDE DEF p
<1>5. DOMAIN panes = {1} /\ panes[1] = p /\ panes \in Seq(Pane) /\ panes # <<>>
  BY <1>2, <1>3
<1>6. /\ recent \in Seq(Keys) /\ Range(recent) \subseteq Keys
  BY <1>0, <1>2 DEF Range
<1>7. asked \in Asked /\ asked.pane = NoPane
  BY <1>2 DEF Nobody, Asked, NoKey
<1>8. TypeOK
  <2>1. /\ \A i \in DOMAIN panes : /\ panes[i].tabs \in Seq(Tab)
                                   /\ panes[i].active \in DOMAIN panes[i].tabs
                                   /\ panes[i].id \in 0..(nextPane - 1)
        /\ pane \in DOMAIN panes /\ nextPane \in 1..MaxPanes
        /\ closePending \in 0..MaxTabs
    <3>1. nextPane = 1 /\ pane = 1 /\ closePending = 0
      BY <1>2
    <3>2. /\ \A i \in DOMAIN panes : panes[i] = p
          /\ 1 \in DOMAIN panes
      BY <1>5
    <3>3. p.active \in DOMAIN p.tabs /\ p.id \in 0..0
      BY <1>3, <1>4
    <3>4. \A i \in DOMAIN panes : /\ panes[i].tabs \in Seq(Tab)
                                  /\ panes[i].active \in DOMAIN panes[i].tabs
                                  /\ panes[i].id \in 0..0
      BY <1>4, <3>2, <3>3
    <3> QED BY ONLY <1>0, <3>1, <3>2, <3>4
  <2>2. /\ closePanePending \in {NoPane} \cup 0..(nextPane - 1)
        /\ quitPending \in BOOLEAN /\ quit \in BOOLEAN
    BY <1>2, Zenon
  <2> QED BY <1>5, <1>6, <2>1, <2>2 DEF TypeOK
<1>9. KeyLeft
  <2>1. KeysOf(panes) = {1}
    BY <1>1, <1>4, <1>5, TabsAre
  <2> QED BY <1>0, <2>1, FS_Singleton DEF KeyLeft
<1>10. ChangeIsSaid
  BY <1>1, <1>3, <1>4, <1>5 DEF ChangeIsSaid, Shown
<1>11. KeysApart(panes) /\ FilesApart(panes) /\ PanesApart(panes)
  BY <1>4, <1>5 DEF KeysApart, FilesApart, PanesApart
<1>12. AskedTab /\ AskedPane
  BY <1>2, <1>7 DEF AskedTab, AskedPane, NoIndex
<1> QED BY <1>5, <1>6, <1>7, <1>8, <1>9, <1>10, <1>11, <1>12 DEF TabsInv, Typed

\* A new tab.
LEMMA NewTabIs ==
    ASSUME TabsInv, NEW file \in Files \cup {Untitled}, ~IsOpen(file) \/ file = Untitled
    PROVE  /\ NewTab(file) \in Tab /\ New(NewTab(file))
           /\ NewTab(file).file = file /\ NewTab(file).key = FreshKey
           /\ ~NewTab(file).dirty /\ ~NewTab(file).changed
  BY KeysInUse, BoundsAssumption DEF NewTab, Tab, New

\* A pane with one tab, which is new.
LEMMA LoneNewTab ==
    ASSUME TabsInv, NEW i \in DOMAIN panes, NEW file \in Files \cup {Untitled},
           ~IsOpen(file) \/ file = Untitled, panes[i].active = 1,
           NEW p, p = [panes[i] EXCEPT !.tabs = <<NewTab(file)>>]
    PROVE  /\ IsPane(p) /\ p.id = panes[i].id /\ OwnTabs(p) /\ ComesFrom(p, panes[i])
           /\ HasKeys(i, p) /\ Shown(p).key \in Keys /\ DOMAIN p.tabs = {1}
<1> DEFINE t == NewTab(file)
<1>1. /\ t \in Tab /\ New(t) /\ t.key \in Keys
  BY NewTabIs DEF Tab
<1>2. panes[i] \in Pane
  BY TypesOfOne DEF TabsInv, IsPane
<1> HIDE DEF t
<1>3. <<t>> \in Seq(Tab) /\ DOMAIN <<t>> = {1} /\ <<t>>[1] = t
  BY <1>1
<1>4. /\ p \in Pane /\ p.tabs = <<t>> /\ p.active = 1 /\ p.id = panes[i].id
  <2>1. p = [panes[i] EXCEPT !.tabs = <<t>>]
    BY DEF t
  <2> QED BY <1>2, <1>3, <2>1 DEF Pane
<1> QED BY <1>1, <1>3, <1>4 DEF IsPane, OwnTabs, ComesFrom, HasKeys, Shown

\* A pane with one more tab, which is new.
LEMMA OneMoreTab ==
    ASSUME TabsInv, HasRoom, NEW i \in DOMAIN panes,
           NEW t \in Tab, New(t), NEW p \in Pane, p.id = panes[i].id,
           p.tabs = Append(panes[i].tabs, t), p.active \in 1..Len(panes[i].tabs) + 1
    PROVE  /\ IsPane(p) /\ OwnTabs(p) /\ ComesFrom(p, panes[i]) /\ HasKeys(i, p)
           /\ Shown(p).key \in Keys /\ Keeps(p, panes[i])
           /\ p.active \in DOMAIN panes[i].tabs =>
                 Shown(p) = panes[i].tabs[p.active]
<1> DEFINE n == Len(panes[i].tabs)
<1>0. /\ panes[i].tabs \in Seq(Tab) /\ n \in Nat /\ DOMAIN panes[i].tabs = 1..n
  BY TypesOfOne DEF TabsInv, IsPane, Pane
<1>1. /\ DOMAIN p.tabs = 1..(n + 1) /\ p.tabs[n + 1] = t
      /\ \A j \in 1..n : p.tabs[j] = panes[i].tabs[j]
  BY <1>0
<1> HIDE DEF n
<1>2. \A j \in 1..(n + 1) : j \in 1..n \/ j = n + 1
  BY <1>0
<1>3. OwnTabs(p)
  <2>1. \A j \in 1..n : /\ panes[i].tabs[j].key # t.key
                        /\ t.file \in Files => panes[i].tabs[j].file # t.file
    BY <1>0, TabsAre, KeysInUse, PlacesAre DEF New
  <2> QED BY <1>0, <1>1, <1>2, <2>1, OwnTabsNow DEF OwnTabs
<1>4. ComesFrom(p, panes[i]) /\ HasKeys(i, p)
  BY <1>0, <1>1, <1>2 DEF ComesFrom, HasKeys, From
<1>5. IsPane(p)
  BY <1>0, <1>1 DEF IsPane, n
<1>6. Shown(p).key \in Keys
  BY <1>5, TabsOfPane DEF Shown, IsPane
<1> QED BY <1>0, <1>1, <1>2, <1>3, <1>4, <1>5, <1>6 DEF Keeps, Shown

\* A pane that shows another of its tabs.
LEMMA OtherTab ==
    ASSUME TabsInv, NEW i \in DOMAIN panes, NEW j \in DOMAIN panes[i].tabs,
           NEW p, p = [panes[i] EXCEPT !.active = j]
    PROVE  /\ IsPane(p) /\ p.id = panes[i].id /\ OwnTabs(p) /\ ComesFrom(p, panes[i])
           /\ HasKeys(i, p) /\ Shown(p).key \in Keys /\ p.tabs = panes[i].tabs
<1>1. panes[i] \in Pane /\ j \in Nat
  BY TypesOfOne, TabsOfPane DEF TabsInv, IsPane
<1>2. p \in Pane /\ p.tabs = panes[i].tabs /\ p.active = j /\ p.id = panes[i].id
  BY <1>1 DEF Pane
<1>3. IsPane(p)
  BY <1>2 DEF IsPane
<1>4. Shown(p).key \in Keys
  BY <1>2, <1>3, TabsOfPane DEF Shown
<1>5. OwnTabs(p) /\ Within(p, panes[i])
  BY <1>2, OwnTabsNow DEF OwnTabs, Within
<1> QED BY <1>2, <1>3, <1>4, <1>5 DEF ComesFrom, Within, HasKeys

\* What was asked is still right, or dropped, when one pane changes and keeps
\* its unsaved work.
LEMMA AskedOfOnePane ==
    ASSUME TabsInv, NEW i \in DOMAIN panes, NEW p, IsPane(p), p.id = panes[i].id,
           Keeps(p, panes[i]), panes' = [panes EXCEPT ![i] = p],
           nextPane' = nextPane, Input \/ Background
    PROVE  QuestionsFit'
<1>1. /\ DOMAIN panes' = DOMAIN panes /\ panes'[i] = p
      /\ \A n \in DOMAIN panes : n # i => panes'[n] = panes[n]
  BY TypesOfOne DEF TabsInv
<1>2. ASSUME NEW n \in DOMAIN panes'
      PROVE  panes'[n].id = panes[n].id /\ Keeps(panes'[n], panes[n])
  BY <1>1 DEF Keeps
<1>3. CASE Input
  BY <1>3, InputFits DEF Input
<1>4. CASE Background
  BY <1>1, <1>2, <1>4, BackgroundFits DEF Background
<1> QED BY <1>3, <1>4

LEMMA StampedTyped ==
    ASSUME TabsInv, NEW ps, NEW key \in Keys
    PROVE  Stamped(ps, key) \in Seq(Keys) /\ Stamps(ps) \in Seq(Keys)
<1>1. \A left : Those(recent, Len(recent), left) \in Seq(Keys)
  BY StampsAreKeys DEF TabsInv, Typed
<1> QED BY <1>1 DEF Stamped, Stamps

\* A tab is shown, of a pane that keeps its unsaved work.
LEMMA ShowsInv ==
    ASSUME TabsInv, NEW i \in DOMAIN panes, NEW p, IsPane(p), p.id = panes[i].id,
           OwnTabs(p), ComesFrom(p, panes[i]), HasKeys(i, p), Shown(p).key \in Keys,
           Keeps(p, panes[i]), Settle(i, p), Input \/ Background,
           UNCHANGED <<nextPane, quit>>
    PROVE  TabsInv'
<1>1. /\ panes' = [panes EXCEPT ![i] = Settled(p)] /\ pane' = i
      /\ recent' \in Seq(Keys)
  BY StampedTyped DEF Settle
<1>2. /\ IsPane(Settled(p)) /\ Settled(p).id = p.id
      /\ Keeps(Settled(p), panes[i])
  BY SettledIs DEF Keeps
<1>3. QuestionsFit'
  BY <1>1, <1>2, AskedOfOnePane
<1>4. quit' \in BOOLEAN
  BY DEF TabsInv, Typed, TypeOK
<1> QED BY <1>1, <1>3, <1>4, SettleInv

\* Only which pane is current, and whether the editor quit, may change.
LEMMA SamePanesInv ==
    ASSUME TabsInv, UNCHANGED <<panes, nextPane>>, recent' \in Seq(Keys),
           pane' \in DOMAIN panes, quit' \in BOOLEAN, QuestionsFit'
    PROVE  TabsInv'
<1>1. Range(recent') \subseteq Keys
  BY DEF Range
<1>2. TypeOK'
  BY <1>1 DEF TabsInv, Typed, TypeOK, QuestionsFit
<1>3. Typed'
  BY <1>2 DEF TabsInv, Typed, QuestionsFit
<1> QED BY <1>3 DEF TabsInv, QuestionsFit, ChangeIsSaid, KeyLeft

LEMMA PaneWithMore ==
    ASSUME NEW q \in Pane, NEW t \in Tab,
           NEW p, p = [q EXCEPT !.tabs = Append(@, t), !.active = Len(q.tabs) + 1]
    PROVE  /\ p \in Pane /\ p.tabs = Append(q.tabs, t)
           /\ p.active = Len(q.tabs) + 1 /\ p.id = q.id
<1>1. q.tabs \in Seq(Tab) /\ Len(q.tabs) + 1 \in Nat /\ Append(q.tabs, t) \in Seq(Tab)
  BY DEF Pane
<1> QED BY <1>1 DEF Pane

LEMMA OpenInv ==
    ASSUME TabsInv, NEW file \in Files, Open(file), Input \/ Background,
           UNCHANGED <<nextPane, quit>>
    PROVE  TabsInv'
<1>0. /\ Typed /\ pane \in DOMAIN panes /\ recent \in Seq(Keys) /\ quit \in BOOLEAN
      /\ file \in Files \cup {Untitled} /\ file # Untitled
  BY BoundsAssumption DEF TabsInv, Typed, TypeOK
<1>1. CASE IsOpen(file)
  <2>1. PICK at \in Places(file) :
          LET p == panes[at[1]]
          IN  IF p.active = at[2]
              THEN pane' = at[1] /\ UNCHANGED <<panes, recent>>
              ELSE Settle(at[1], [p EXCEPT !.active = at[2]])
    BY <1>1 DEF Open
  <2> PICK i, j : i = at[1] /\ j = at[2]
    OBVIOUS
  <2>2. i \in DOMAIN panes /\ j \in DOMAIN panes[i].tabs
    BY PlacesAre
  <2>3. CASE panes[i].active = j
    <3>1. pane' = i /\ UNCHANGED <<panes, recent>>
      BY <2>1, <2>3
    <3>2. QuestionsFit'
      <4>1. CASE Input
        BY <4>1, InputFits DEF Input
      <4>2. CASE Background
        <5>1. \A n \in DOMAIN panes' : \E m \in DOMAIN panes :
                  panes'[n].id = panes[m].id /\ Keeps(panes'[n], panes[m])
          BY <3>1 DEF Keeps
        <5> QED BY <4>2, <5>1, BackgroundFits DEF Background
      <4> QED BY <4>1, <4>2
    <3> QED BY <1>0, <2>2, <3>1, <3>2, SamePanesInv
  <2>4. CASE panes[i].active # j
    <3> PICK p : p = [panes[i] EXCEPT !.active = j]
      OBVIOUS
    <3>1. Settle(i, p)
      BY <2>1, <2>4
    <3>2. /\ IsPane(p) /\ p.id = panes[i].id /\ OwnTabs(p) /\ ComesFrom(p, panes[i])
          /\ HasKeys(i, p) /\ Shown(p).key \in Keys /\ p.tabs = panes[i].tabs
      BY <2>2, OtherTab
    <3>3. Keeps(p, panes[i])
      BY <3>2 DEF Keeps
    <3> QED BY <2>2, <3>1, <3>2, <3>3, ShowsInv
  <2> QED BY <2>3, <2>4
<1>2. CASE ~IsOpen(file)
  <2> DEFINE scratch == /\ Len(Current.tabs) = 1
                        /\ Current.tabs[1].file = Untitled
                        /\ ~Current.tabs[1].dirty
  <2>0. Current = panes[pane]
    BY DEF Current
  <2>1. IsPane(panes[pane])
    BY <1>0, TypesOfOne
  <2>4. /\ DOMAIN panes[pane].tabs = 1..Len(panes[pane].tabs)
        /\ panes[pane].active \in 1..Len(panes[pane].tabs)
    BY <2>1, TabsOfPane
  <2>5. scratch => panes[pane].active = 1 /\ DOMAIN panes[pane].tabs = {1}
    BY <2>0, <2>4
  <2>2. CASE scratch
    <3> PICK p : p = [panes[pane] EXCEPT !.tabs = <<NewTab(file)>>]
      OBVIOUS
    <3>1. Settle(pane, p)
      BY <1>2, <2>0, <2>2 DEF Open
    <3>2. panes[pane].active = 1 /\ DOMAIN panes[pane].tabs = {1}
      BY <2>2, <2>5
    <3>3. /\ IsPane(p) /\ p.id = panes[pane].id /\ OwnTabs(p)
          /\ ComesFrom(p, panes[pane])
          /\ HasKeys(pane, p) /\ Shown(p).key \in Keys
      BY <1>0, <1>2, <3>2, LoneNewTab
    <3>4. Keeps(p, panes[pane])
      BY <2>0, <2>2, <3>2 DEF Keeps
    <3> QED BY <1>0, <3>1, <3>3, <3>4, ShowsInv
  <2>3. CASE ~scratch
    <3> DEFINE t == NewTab(file)
               q == panes[pane]
    <3> PICK p : p = [q EXCEPT !.tabs = Append(@, t), !.active = Len(q.tabs) + 1]
      OBVIOUS
    <3>1. HasRoom /\ Settle(pane, p)
      BY <1>2, <2>0, <2>3 DEF Open
    <3>2. t \in Tab /\ New(t)
      BY <1>0, <1>2, NewTabIs
    <3>3. /\ q \in Pane /\ q.tabs \in Seq(Tab) /\ Len(q.tabs) \in Nat
      BY <2>1 DEF IsPane, Pane
    <3> HIDE DEF t
    <3>4. /\ p \in Pane /\ p.tabs = Append(q.tabs, t) /\ p.active = Len(q.tabs) + 1
          /\ p.id = q.id
      BY <3>2, <3>3, PaneWithMore
    <3>5. p.active \in 1..Len(panes[pane].tabs) + 1
      BY <3>3, <3>4
    <3>6. /\ IsPane(p) /\ OwnTabs(p) /\ ComesFrom(p, panes[pane]) /\ HasKeys(pane, p)
          /\ Shown(p).key \in Keys /\ Keeps(p, panes[pane])
      BY <1>0, <3>1, <3>2, <3>4, <3>5, OneMoreTab
    <3> QED BY <1>0, <3>1, <3>4, <3>6, ShowsInv
  <2> QED BY <2>2, <2>3
<1> QED BY <1>1, <1>2

LEMMA ActivateTabInv ==
    ASSUME TabsInv, NEW j, ActivateTab(j)
    PROVE  TabsInv'
<1>1. /\ pane \in DOMAIN panes /\ j \in DOMAIN panes[pane].tabs
      /\ Settle(pane, [panes[pane] EXCEPT !.active = j])
      /\ Input /\ UNCHANGED <<nextPane, quit>>
  BY DEF ActivateTab, Current, TabsInv, Typed, TypeOK
<1> PICK p : p = [panes[pane] EXCEPT !.active = j]
  OBVIOUS
<1>2. /\ IsPane(p) /\ p.id = panes[pane].id /\ OwnTabs(p) /\ ComesFrom(p, panes[pane])
      /\ HasKeys(pane, p) /\ Shown(p).key \in Keys /\ p.tabs = panes[pane].tabs
  BY <1>1, OtherTab
<1>3. Keeps(p, panes[pane])
  BY <1>2 DEF Keeps
<1>4. Settle(pane, p)
  BY <1>1
<1> QED BY <1>1, <1>2, <1>3, <1>4, ShowsInv

LEMMA GoToInv ==
    ASSUME TabsInv, NEW i \in DOMAIN panes, GoTo(i), QuestionsFit'
    PROVE  TabsInv'
<1> PICK p : p = panes[i]
  OBVIOUS
<1>1. /\ IsPane(p) /\ OwnTabs(p) /\ Within(p, panes[i])
      /\ recent \in Seq(Keys) /\ quit \in BOOLEAN
  BY TypesOfOne, OwnTabsNow DEF TabsInv, Typed, TypeOK
<1>2. /\ panes' = [panes EXCEPT ![i] = Settled(p)] /\ pane' = i
      /\ UNCHANGED <<nextPane, recent, quit>>
  BY DEF GoTo
<1>3. ComesFrom(p, panes[i]) /\ HasKeys(i, p)
  BY <1>1 DEF ComesFrom, Within, HasKeys
<1>4. recent' \in Seq(Keys) /\ quit' \in BOOLEAN
  BY <1>1, <1>2
<1> QED BY <1>1, <1>2, <1>3, <1>4, SettleInv

LEMMA SwitchPaneInv ==
    ASSUME TabsInv, NEW i, SwitchPane(i) \/ SwitchPaneQuietly(i)
    PROVE  TabsInv'
<1>1. i \in DOMAIN panes /\ GoTo(i) /\ (Input \/ Background)
  BY DEF SwitchPane, SwitchPaneQuietly
<1> PICK p : p = Settled(panes[i])
  OBVIOUS
<1>2. IsPane(panes[i])
  BY <1>1, TypesOfOne DEF TabsInv
<1>3. /\ IsPane(p) /\ p.id = panes[i].id /\ Keeps(p, panes[i])
  BY <1>2, SettledIs DEF Keeps
<1>4. panes' = [panes EXCEPT ![i] = p] /\ nextPane' = nextPane
  BY <1>1 DEF GoTo
<1>5. QuestionsFit'
  BY <1>1, <1>3, <1>4, AskedOfOnePane
<1> QED BY <1>1, <1>5, GoToInv

\* One tab changes and keeps its key and its file.
LEMMA OneTab ==
    ASSUME TabsInv, NEW i \in DOMAIN panes, NEW j \in DOMAIN panes[i].tabs,
           NEW t \in Tab, t.key = panes[i].tabs[j].key, t.file = panes[i].tabs[j].file,
           j = panes[i].active => ~t.changed,
           NEW p, p = [panes[i] EXCEPT !.tabs[j] = t]
    PROVE  /\ IsPane(p) /\ p.id = panes[i].id /\ OwnTabs(p) /\ ComesFrom(p, panes[i])
           /\ HasKeys(i, p) /\ ~Shown(p).changed
           /\ (panes[i].tabs[j].dirty => t.dirty) => Keeps(p, panes[i])
<1> PICK q : q = panes[i]
  OBVIOUS
<1> PICK ts : ts = [q.tabs EXCEPT ![j] = t]
  OBVIOUS
<1>0. /\ q \in Pane /\ q.tabs \in Seq(Tab) /\ q.active \in DOMAIN q.tabs
      /\ j \in DOMAIN q.tabs
  BY TypesOfOne DEF TabsInv, IsPane, Pane
<1>1. /\ ts \in Seq(Tab) /\ DOMAIN ts = DOMAIN q.tabs /\ ts[j] = t
      /\ \A l \in DOMAIN ts : l # j => ts[l] = q.tabs[l]
  BY <1>0
<1>2. p = [q EXCEPT !.tabs = ts]
  OBVIOUS
<1>3. /\ p \in Pane /\ p.tabs = ts /\ p.active = q.active /\ p.id = q.id
  BY ONLY <1>0, <1>1, <1>2 DEF Pane
<1>4. /\ DOMAIN p.tabs = DOMAIN q.tabs /\ p.tabs[j] = t
      /\ \A l \in DOMAIN q.tabs : l # j => p.tabs[l] = q.tabs[l]
  BY ONLY <1>1, <1>3
<1>5. \A l \in DOMAIN q.tabs :
          p.tabs[l].key = q.tabs[l].key /\ p.tabs[l].file = q.tabs[l].file
  BY <1>4
<1>6. OwnTabs(p)
  <2>1. OwnTabs(q)
    BY OwnTabsNow
  <2> QED BY ONLY <2>1, <1>4, <1>5 DEF OwnTabs
<1>7. Within(p, panes[i])
  BY <1>4, <1>5 DEF Within, From
<1>8. IsPane(p)
  BY <1>0, <1>3, <1>4 DEF IsPane
<1>9. ~Shown(p).changed
  BY <1>0, <1>3, <1>4 DEF Shown, TabsInv, ChangeIsSaid
<1>10. (q.tabs[j].dirty => t.dirty) => Keeps(p, q)
  BY <1>4, <1>5 DEF Keeps
<1> QED BY <1>3, <1>6, <1>7, <1>8, <1>9, <1>10 DEF HasKeys, ComesFrom, Within

LEMMA OneTabInv ==
    ASSUME TabsInv, NEW i \in DOMAIN panes, NEW j \in DOMAIN panes[i].tabs,
           NEW t \in Tab, t.key = panes[i].tabs[j].key, t.file = panes[i].tabs[j].file,
           j = panes[i].active => ~t.changed,
           panes' = [panes EXCEPT ![i].tabs[j] = t],
           UNCHANGED <<pane, nextPane, recent, quit>>,
           Input \/ (Background /\ (panes[i].tabs[j].dirty => t.dirty))
    PROVE  TabsInv'
<1> PICK p : p = [panes[i] EXCEPT !.tabs[j] = t]
  OBVIOUS
<1>1. /\ IsPane(p) /\ p.id = panes[i].id /\ OwnTabs(p) /\ ComesFrom(p, panes[i])
      /\ HasKeys(i, p) /\ ~Shown(p).changed
      /\ (panes[i].tabs[j].dirty => t.dirty) => Keeps(p, panes[i])
  BY OneTab
<1>2. panes' = [panes EXCEPT ![i] = p]
  OBVIOUS
<1>3. QuestionsFit'
  <2>1. CASE Input
    BY <2>1, InputFits DEF Input
  <2>2. CASE Background /\ (panes[i].tabs[j].dirty => t.dirty)
    BY <1>1, <1>2, <2>2, AskedOfOnePane
  <2> QED BY <2>1, <2>2
<1>4. Fits(panes')
  <2> PICK ps : ps = panes'
    OBVIOUS
  <2>1. /\ DOMAIN ps = DOMAIN panes /\ ps[i] = p
        /\ \A n \in DOMAIN ps : n # i => ps[n] = panes[n]
    BY <1>2
  <2>2. Fits(ps)
    BY ONLY TabsInv, i \in DOMAIN panes, <1>1, <2>1, HasKeysFits
  <2> QED BY <2>2
<1>5. pane' \in DOMAIN panes /\ recent' \in Seq(Keys) /\ quit' \in BOOLEAN
  BY DEF TabsInv, Typed, TypeOK
<1> QED BY <1>1, <1>2, <1>3, <1>4, <1>5, OnePaneInv

LEMMA ChangeShownInv ==
    ASSUME TabsInv, ChangeShown
    PROVE  TabsInv'
<1>0. pane \in DOMAIN panes /\ IsPane(panes[pane])
  BY TypesOfOne DEF TabsInv, Typed, TypeOK
<1> PICK i, j : i = pane /\ j = panes[pane].active
  OBVIOUS
<1> PICK u : u = panes[i].tabs[j]
  OBVIOUS
<1>1. /\ i \in DOMAIN panes /\ j \in DOMAIN panes[i].tabs
      /\ u \in Tab /\ ~u.changed
  BY <1>0, TabsOfPane DEF IsPane, TabsInv, ChangeIsSaid, Shown
<1> PICK t : t = [u EXCEPT !.dirty = ~u.dirty]
  OBVIOUS
<1>2. t \in Tab /\ t.key = u.key /\ t.file = u.file /\ ~t.changed
  BY <1>1 DEF Tab
<1>3. /\ panes' = [panes EXCEPT ![i].tabs[j] = t]
      /\ Input /\ UNCHANGED <<pane, nextPane, recent, quit>>
  BY DEF ChangeShown, SetDirty, Current, Shown
<1>4. /\ i \in DOMAIN panes /\ j \in DOMAIN panes[i].tabs
      /\ t \in Tab /\ t.key = panes[i].tabs[j].key
      /\ t.file = panes[i].tabs[j].file /\ ~t.changed
  BY <1>1, <1>2
<1>5. j = panes[i].active => ~t.changed
  BY <1>2
<1>6. Input \/ (Background /\ (panes[i].tabs[j].dirty => t.dirty))
  BY <1>3
<1> QED BY ONLY TabsInv, <1>3, <1>4, <1>5, <1>6, OneTabInv

LEMMA ServerEditsInv ==
    ASSUME TabsInv, NEW file \in Files, ServerEdits(file)
    PROVE  TabsInv'
<1>0. /\ Background /\ UNCHANGED <<pane, nextPane, recent, quit>>
      /\ pane \in DOMAIN panes /\ file \in Files \cup {Untitled}
      /\ recent \in Seq(Keys) /\ quit \in BOOLEAN
  BY DEF ServerEdits, TabsInv, Typed, TypeOK
<1>1. CASE IsOpen(file)
  <2>1. PICK at \in Places(file) : SetDirty(at[1], at[2], TRUE)
    BY <1>1 DEF ServerEdits
  <2> PICK i, j : i = at[1] /\ j = at[2]
    OBVIOUS
  <2>2. i \in DOMAIN panes /\ j \in DOMAIN panes[i].tabs
    BY PlacesAre
  <2> PICK u : u = panes[i].tabs[j]
    OBVIOUS
  <2> PICK t : t = [u EXCEPT !.dirty = TRUE]
    OBVIOUS
  <2>3. u \in Tab /\ (j = panes[i].active => ~u.changed)
    BY <2>2, TypesOfOne, TabsOfPane DEF TabsInv, ChangeIsSaid, Shown
  <2>4. /\ t \in Tab /\ t.key = u.key /\ t.file = u.file /\ t.changed = u.changed
        /\ t.dirty = TRUE
    BY <2>3 DEF Tab
  <2>5. panes' = [panes EXCEPT ![i].tabs[j] = t]
    BY <2>1 DEF SetDirty
  <2>6. j = panes[i].active => ~t.changed
    BY <2>3, <2>4
  <2>7. /\ t \in Tab /\ t.key = panes[i].tabs[j].key
        /\ t.file = panes[i].tabs[j].file /\ t.dirty = TRUE
    BY <2>4
  <2> QED BY ONLY TabsInv, <1>0, <2>2, <2>5, <2>6, <2>7, OneTabInv
<1>2. CASE ~IsOpen(file)
  <2> PICK q : q = panes[pane]
    OBVIOUS
  <2> PICK t : t = [NewTab(file) EXCEPT !.dirty = TRUE]
    OBVIOUS
  <2> PICK p : p = [q EXCEPT !.tabs = Append(@, t)]
    OBVIOUS
  <2>1. HasRoom /\ panes' = [panes EXCEPT ![pane] = p]
    BY <1>2 DEF ServerEdits
  <2>2. NewTab(file) \in Tab /\ New(NewTab(file))
    BY <1>0, <1>2, NewTabIs
  <2>3. t \in Tab /\ New(t)
    BY <2>2 DEF Tab, New
  <2>4. /\ q \in Pane /\ q.tabs \in Seq(Tab) /\ q.active \in 1..Len(q.tabs)
        /\ DOMAIN q.tabs = 1..Len(q.tabs) /\ Len(q.tabs) \in Nat
    BY <1>0, TypesOfOne, TabsOfPane DEF TabsInv, IsPane, Pane
  <2>5. p \in Pane /\ p.tabs = Append(q.tabs, t) /\ p.active = q.active /\ p.id = q.id
    <3>1. Append(q.tabs, t) \in Seq(Tab)
      BY <2>3, <2>4
    <3> QED BY <2>4, <3>1 DEF Pane
  <2>6. p.active \in 1..Len(q.tabs) + 1 /\ p.active \in DOMAIN panes[pane].tabs
    BY <2>4, <2>5
  <2>7. /\ IsPane(p) /\ OwnTabs(p) /\ ComesFrom(p, panes[pane]) /\ HasKeys(pane, p)
        /\ Keeps(p, panes[pane])
        /\ Shown(p) = panes[pane].tabs[p.active]
    BY <1>0, <2>1, <2>3, <2>5, <2>6, OneMoreTab
  <2>8. ~Shown(p).changed
    BY <1>0, <2>5, <2>7 DEF TabsInv, ChangeIsSaid, Shown
  <2>9. QuestionsFit'
    BY <1>0, <2>1, <2>5, <2>7, AskedOfOnePane
  <2>10. Fits(panes')
    BY <2>1 DEF Fits
  <2>11. pane' \in DOMAIN panes /\ recent' \in Seq(Keys) /\ quit' \in BOOLEAN
    BY <1>0
  <2> QED BY <1>0, <2>1, <2>5, <2>7, <2>8, <2>9, <2>10, <2>11, OnePaneInv
<1> QED BY <1>1, <1>2

LEMMA OutsideWriteInv ==
    ASSUME TabsInv, NEW file, OutsideWrite(file)
    PROVE  TabsInv'
<1>1. PICK at \in Places(file) :
          panes' = [panes EXCEPT ![at[1]].tabs[at[2]].changed =
                        at[2] # panes[at[1]].active]
  BY DEF OutsideWrite
<1> PICK i, j : i = at[1] /\ j = at[2]
  OBVIOUS
<1>2. i \in DOMAIN panes /\ j \in DOMAIN panes[i].tabs
  BY PlacesAre
<1> PICK u : u = panes[i].tabs[j]
  OBVIOUS
<1> PICK t : t = [u EXCEPT !.changed = (j # panes[i].active)]
  OBVIOUS
<1>3. u \in Tab
  BY <1>2, TypesOfOne, TabsOfPane DEF TabsInv
<1>4. /\ t \in Tab /\ t.key = u.key /\ t.file = u.file /\ t.dirty = u.dirty
      /\ t.changed = (j # panes[i].active)
  BY <1>3 DEF Tab
<1>5. panes' = [panes EXCEPT ![i].tabs[j] = t]
  BY <1>1
<1>6. /\ Background /\ UNCHANGED <<pane, nextPane, recent, quit>>
      /\ j = panes[i].active => ~t.changed
      /\ u.dirty => t.dirty
  BY <1>4 DEF OutsideWrite
<1>7. /\ t \in Tab /\ t.key = panes[i].tabs[j].key
      /\ t.file = panes[i].tabs[j].file /\ t.dirty = panes[i].tabs[j].dirty
  BY <1>4
<1> QED BY ONLY TabsInv, <1>2, <1>5, <1>6, <1>7, OneTabInv

\* What is left of a sequence when one element goes.
LEMMA RemovedLeaves ==
    ASSUME NEW X, NEW seq \in Seq(X), NEW i \in DOMAIN seq
    PROVE  LET left == RemoveAt(seq, i)
           IN  /\ left \in Seq(X) /\ Len(left) = Len(seq) - 1
               /\ DOMAIN left = 1..(Len(seq) - 1)
               /\ \A k \in 1..(Len(seq) - 1) :
                     left[k] = IF k < i THEN seq[k] ELSE seq[k + 1]
<1> DEFINE left == RemoveAt(seq, i)
           N == Len(seq)
<1>1. N \in Nat /\ i \in 1..N /\ DOMAIN seq = 1..N
  OBVIOUS
<1> DEFINE front == SubSeq(seq, 1, i - 1)
           rest == SubSeq(seq, i + 1, N)
<1>2. /\ front \in Seq(X) /\ Len(front) = i - 1
      /\ \A k \in 1..(i - 1) : front[k] = seq[k]
  BY <1>1
<1>3. /\ rest \in Seq(X) /\ Len(rest) = N - i
      /\ \A k \in 1..(N - i) : rest[k] = seq[i + k]
  BY <1>1
<1>4. left = front \o rest
  BY DEF RemoveAt
<1> HIDE DEF front, rest, left, N
<1>5. left \in Seq(X) /\ Len(left) = N - 1
  <2>1. left \in Seq(X)
    BY <1>2, <1>3, <1>4
  <2>2. Len(left) = Len(front) + Len(rest)
    BY <1>2, <1>3, <1>4, ConcatProperties
  <2> QED BY <1>1, <1>2, <1>3, <2>1, <2>2
<1>6. ASSUME NEW k \in 1..(N - 1)
      PROVE  left[k] = IF k < i THEN seq[k] ELSE seq[k + 1]
  <2>1. left[k] = IF k <= i - 1 THEN front[k] ELSE rest[k - (i - 1)]
    BY <1>1, <1>2, <1>3, <1>4
  <2>2. k >= i => k - (i - 1) \in 1..(N - i) /\ i + (k - (i - 1)) = k + 1
    BY <1>1
  <2>3. k >= i => rest[k - (i - 1)] = seq[k + 1]
    BY <1>3, <2>2
  <2> QED BY <1>1, <1>2, <2>1, <2>3
<1>7. DOMAIN left = 1..(N - 1)
  BY <1>5
<1> QED BY <1>5, <1>6, <1>7 DEF left, N

\* Some number of a bounded set is the largest of it.
LEMMA LargestNumber ==
    ASSUME NEW N \in Nat, NEW T, T \subseteq 0..N, T # {}
    PROVE  \E x \in T : \A y \in T : y <= x
<1> DEFINE S == {m \in 0..N : (\E x \in T : x <= m) =>
                                  \E x \in T : \A y \in T : y <= m => y <= x}
<1>1. 0 \in S
  OBVIOUS
<1>2. ASSUME NEW m \in 1..N, m - 1 \in S PROVE m \in S
  <2>1. CASE m \in T
    BY <2>1
  <2>2. CASE m \notin T
    <3>1. \A x \in T : x <= m => x <= m - 1
      BY <2>2
    <3> QED BY <1>2, <3>1
  <2> QED BY <2>1, <2>2
<1> HIDE DEF S
<1>3. N \in S
  BY <1>1, <1>2, EveryNumber
<1>4. \A x \in T : x <= N
  OBVIOUS
<1>5. \E x \in T : x <= N
  BY <1>4
<1>6. PICK x \in T : \A y \in T : y <= N => y <= x
  BY <1>3, <1>5 DEF S
<1> QED BY <1>4, <1>6

LEMMA MostRecentThere ==
    ASSUME TabsInv, NEW tabs \in Seq(Tab), Len(tabs) > 0
    PROVE  MostRecent(tabs) \in DOMAIN tabs
<1> DEFINE shown == {j \in DOMAIN tabs : tabs[j].key \in Range(recent)}
           stamp(j) == CHOOSE n \in DOMAIN recent : recent[n] = tabs[j].key
<1>1. CASE shown = {}
  BY <1>1 DEF MostRecent
<1>2. CASE shown # {}
  <2>1. recent \in Seq(Keys) /\ Len(recent) \in Nat /\ DOMAIN recent = 1..Len(recent)
    BY DEF TabsInv, Typed
  <2>2. \A j \in shown : stamp(j) \in 0..Len(recent)
    <3> SUFFICES ASSUME NEW j \in shown PROVE stamp(j) \in 0..Len(recent)
      OBVIOUS
    <3>1. \E n \in DOMAIN recent : recent[n] = tabs[j].key
      BY DEF Range
    <3> QED BY <2>1, <3>1
  <2> DEFINE T == {stamp(j) : j \in shown}
  <2>3. T \subseteq 0..Len(recent) /\ T # {}
    BY <1>2, <2>2
  <2> HIDE DEF stamp
  <2>4. PICK j \in shown : \A k \in shown : stamp(k) <= stamp(j)
    <3>1. \E x \in T : \A y \in T : y <= x
      <4> HIDE DEF T
      <4> QED BY <2>1, <2>3, LargestNumber
    <3> QED BY <3>1
  <2>5. MostRecent(tabs) = CHOOSE m \in shown : \A k \in shown : stamp(k) <= stamp(m)
    BY <1>2 DEF MostRecent, stamp
  <2> HIDE DEF shown
  <2>6. MostRecent(tabs) \in shown
    BY <2>4, <2>5
  <2> QED BY <2>6 DEF shown
<1> QED BY <1>1, <1>2

\* A pane that one of its tabs leaves, and that shows the `n`th of the others.
Without(q, j, n) == [q EXCEPT !.tabs = RemoveAt(q.tabs, j), !.active = n]

LEMMA TabLeaves ==
    ASSUME TabsInv, NEW i \in DOMAIN panes, NEW j \in DOMAIN panes[i].tabs,
           NEW n \in DOMAIN RemoveAt(panes[i].tabs, j)
    PROVE  LET p == Without(panes[i], j, n)
           IN  /\ IsPane(p) /\ p.id = panes[i].id
               /\ OwnTabs(p) /\ Within(p, panes[i])
               /\ p.tabs = RemoveAt(panes[i].tabs, j) /\ p.active = n
<1> PICK p : p = Without(panes[i], j, n)
  OBVIOUS
<1> PICK ts : ts = panes[i].tabs
  OBVIOUS
<1> PICK left : left = RemoveAt(panes[i].tabs, j)
  OBVIOUS
<1>0. panes[i] \in Pane /\ ts \in Seq(Tab) /\ Len(ts) \in Nat /\ DOMAIN ts = 1..Len(ts)
  BY TypesOfOne DEF TabsInv, IsPane, Pane
<1>1. /\ left \in Seq(Tab) /\ DOMAIN left = 1..(Len(ts) - 1)
      /\ \A k \in 1..(Len(ts) - 1) : left[k] = IF k < j THEN ts[k] ELSE ts[k + 1]
  BY <1>0, RemovedLeaves
<1>2. n \in DOMAIN left /\ n \in Nat
  BY <1>0, <1>1
<1>3. p \in Pane /\ p.tabs = left /\ p.active = n /\ p.id = panes[i].id
  <2>1. p = [panes[i] EXCEPT !.tabs = left, !.active = n]
    BY DEF Without
  <2> QED BY ONLY <1>0, <1>1, <1>2, <2>1 DEF Pane
<1> DEFINE Place(k) == IF k < j THEN k ELSE k + 1
<1>4. /\ \A k \in DOMAIN left : Place(k) \in DOMAIN ts /\ left[k] = ts[Place(k)]
      /\ \A k, l \in DOMAIN left : Place(k) = Place(l) => k = l
  <2> PICK N : N = Len(ts)
    OBVIOUS
  <2>1. N \in Nat /\ j \in 1..N /\ DOMAIN ts = 1..N /\ DOMAIN left = 1..(N - 1)
    BY <1>0, <1>1
  <2>2. \A k \in 1..(N - 1) : left[k] = IF k < j THEN ts[k] ELSE ts[k + 1]
    BY <1>1
  <2> QED BY ONLY <2>1, <2>2 DEF Place
<1> HIDE DEF Place
<1>5. \A k, l \in DOMAIN ts :
          /\ ts[k].key = ts[l].key => k = l
          /\ ts[k].file \in Files /\ ts[k].file = ts[l].file => k = l
  BY OwnTabsNow DEF OwnTabs
<1>6. OwnTabs(p)
  BY ONLY <1>3, <1>4, <1>5 DEF OwnTabs
<1>7. Within(p, panes[i])
  BY <1>3, <1>4 DEF Within, From
<1> QED BY <1>2, <1>3, <1>6, <1>7 DEF IsPane

\* A tab has gone, and with it what was asked about a tab.
LEMMA AnswerFits ==
    ASSUME TabsInv, AnswerTab, nextPane' = nextPane
    PROVE  QuestionsFit'
<1>1. /\ closePending' = 0 /\ asked' = [asked EXCEPT !.tab = NoKey, !.within = NoPane]
      /\ UNCHANGED <<closePanePending, quitPending>>
  BY DEF AnswerTab, NoIndex
<1>2. asked \in Asked /\ asked.pane = closePanePending
  BY DEF TabsInv, Typed, AskedPane
<1>3. asked' \in Asked /\ asked'.pane = asked.pane
  BY <1>1, <1>2 DEF Asked, NoKey
<1>4. AskedTab' /\ AskedPane'
  BY <1>1, <1>2, <1>3 DEF AskedTab, AskedPane, NoIndex
<1>5. closePending' \in 0..MaxTabs
  BY <1>1, BoundsAssumption
<1>6. /\ closePanePending' \in {NoPane} \cup 0..(nextPane' - 1)
      /\ quitPending' \in BOOLEAN
  BY <1>1 DEF TabsInv, Typed, TypeOK
<1> QED BY <1>3, <1>4, <1>5, <1>6 DEF QuestionsFit

LEMMA CloseTabInv ==
    ASSUME TabsInv, NEW i \in DOMAIN panes, NEW j \in DOMAIN panes[i].tabs,
           CloseTab(i, j), AnswerTab, UNCHANGED <<nextPane, quit>>
    PROVE  TabsInv'
<1> PICK q : q = panes[i]
  OBVIOUS
<1>0. /\ IsPane(q) /\ DOMAIN q.tabs = 1..Len(q.tabs) /\ Len(q.tabs) \in Nat \ {0}
      /\ q.active \in 1..Len(q.tabs) /\ j \in 1..Len(q.tabs)
      /\ quit \in BOOLEAN /\ Untitled \in Files \cup {Untitled}
  BY TypesOfOne, TabsOfPane DEF TabsInv, Typed, TypeOK
<1>1. QuestionsFit' /\ quit' \in BOOLEAN
  BY <1>0, AnswerFits
<1>2. CASE Len(q.tabs) = 1
  <2> PICK p : p = [panes[i] EXCEPT !.tabs = <<NewTab(Untitled)>>]
    OBVIOUS
  <2>1. Settle(i, p)
    BY <1>2 DEF CloseTab
  <2>2. panes[i].active = 1
    BY <1>0, <1>2
  <2>3. /\ IsPane(p) /\ p.id = panes[i].id /\ OwnTabs(p) /\ ComesFrom(p, panes[i])
        /\ HasKeys(i, p) /\ Shown(p).key \in Keys
    BY <1>0, <2>2, LoneNewTab
  <2>4. /\ panes' = [panes EXCEPT ![i] = Settled(p)] /\ pane' = i
        /\ recent' \in Seq(Keys)
    BY <2>1, <2>3, StampedTyped DEF Settle
  <2> QED BY <1>1, <2>3, <2>4, SettleInv
<1>3. CASE Len(q.tabs) # 1
  <2> PICK left : left = RemoveAt(q.tabs, j)
    OBVIOUS
  <2>0. q.tabs \in Seq(Tab)
    BY <1>0 DEF IsPane, Pane
  <2>1. /\ left \in Seq(Tab) /\ Len(left) = Len(q.tabs) - 1
        /\ DOMAIN left = 1..(Len(q.tabs) - 1)
        /\ \A k \in 1..(Len(q.tabs) - 1) :
              left[k] = IF k < j THEN q.tabs[k] ELSE q.tabs[k + 1]
    BY <1>0, <2>0, RemovedLeaves
  <2>2. CASE j # q.active
    <3> PICK n : n = ActiveAfter(q, j)
      OBVIOUS
    <3> PICK p : p = Without(panes[i], j, n)
      OBVIOUS
    <3>1. n \in DOMAIN left /\ left[n] = q.tabs[q.active]
      <4> PICK a, N : a = q.active /\ N = Len(q.tabs)
        OBVIOUS
      <4>1. n = IF j < a THEN a - 1 ELSE a
        BY DEF ActiveAfter
      <4>2. n \in 1..(N - 1) /\ (IF n < j THEN n = a ELSE n + 1 = a)
        BY ONLY <1>0, <1>3, <2>2, <4>1, a = q.active /\ N = Len(q.tabs)
      <4> QED BY ONLY <2>1, <4>2, a = q.active /\ N = Len(q.tabs)
    <3>2. /\ IsPane(p) /\ p.id = panes[i].id /\ OwnTabs(p) /\ Within(p, panes[i])
          /\ p.tabs = left /\ p.active = n
      <4>1. n \in DOMAIN RemoveAt(panes[i].tabs, j)
        BY <3>1
      <4> QED BY <4>1, TabLeaves
    <3>3. /\ panes' = [panes EXCEPT ![i] = p] /\ recent' = Stamps(panes') /\ pane' = i
      BY <1>3, <2>2 DEF CloseTab, Without
    <3>4. ~Shown(p).changed
      BY <3>1, <3>2 DEF TabsInv, ChangeIsSaid, Shown
    <3>5. ComesFrom(p, panes[i]) /\ HasKeys(i, p)
      BY <3>2 DEF ComesFrom, Within, HasKeys
    <3>6. recent' \in Seq(Keys)
      BY <3>3, StampsAreKeys DEF Stamps, TabsInv, Typed
    <3>7. Fits(panes')
      <4> PICK ps : ps = panes'
        OBVIOUS
      <4>1. /\ DOMAIN ps = DOMAIN panes /\ ps[i] = p
            /\ \A m \in DOMAIN ps : m # i => ps[m] = panes[m]
        BY <3>3
      <4>2. Fits(ps)
        BY ONLY TabsInv, i \in DOMAIN panes, <3>2, <3>5, <4>1, HasKeysFits
      <4> QED BY <4>2
    <3> QED BY <1>1, <3>2, <3>3, <3>4, <3>5, <3>6, <3>7, OnePaneInv
  <2>3. CASE j = q.active
    <3> PICK n : n = MostRecent(left)
      OBVIOUS
    <3> PICK p : p = Without(panes[i], j, n)
      OBVIOUS
    <3>1. n \in DOMAIN left
      <4> PICK N : N = Len(q.tabs)
        OBVIOUS
      <4>1. N \in Nat \ {0} /\ N # 1 /\ Len(left) = N - 1 /\ left \in Seq(Tab)
        BY <1>0, <1>3, <2>1
      <4>3. Len(left) > 0
        BY ONLY <4>1
      <4>2. MostRecent(left) \in DOMAIN left
        BY ONLY TabsInv, <4>1, <4>3, MostRecentThere
      <4> QED BY <4>2
    <3>2. /\ IsPane(p) /\ p.id = panes[i].id /\ OwnTabs(p) /\ Within(p, panes[i])
          /\ p.tabs = left /\ p.active = n
      <4>1. n \in DOMAIN RemoveAt(panes[i].tabs, j)
        BY <3>1
      <4> QED BY <4>1, TabLeaves
    <3>3. Settle(i, p)
      BY <1>3, <2>3 DEF CloseTab, Without
    <3>4. ComesFrom(p, panes[i]) /\ HasKeys(i, p)
      BY <3>2 DEF ComesFrom, Within, HasKeys
    <3>5. Shown(p).key \in Keys
      BY <3>2, TabsOfPane DEF Shown, IsPane
    <3>6. /\ panes' = [panes EXCEPT ![i] = Settled(p)] /\ pane' = i
          /\ recent' \in Seq(Keys)
      BY <3>3, <3>5, StampedTyped DEF Settle
    <3> QED BY <1>1, <3>2, <3>4, <3>6, SettleInv
  <2> QED BY <2>2, <2>3
<1> QED BY <1>2, <1>3

LEMMA RequestCloseTabInv ==
    ASSUME TabsInv, NEW i \in DOMAIN panes, NEW j \in DOMAIN panes[i].tabs,
           RequestCloseTab(i, j)
    PROVE  TabsInv'
<1> PICK q : q = panes[i]
  OBVIOUS
<1>0. IsPane(q) /\ q.id \in 0..(nextPane - 1) /\ nextPane \in Nat
  BY TypesOfOne DEF TabsInv, Typed, TypeOK
<1>1. CASE q.tabs[j].dirty /\ closePending # j
  <2>1. /\ closePending' = j
        /\ asked' = [asked EXCEPT !.tab = q.tabs[j].key, !.within = q.id]
        /\ GoTo(i)
        /\ UNCHANGED <<closePanePending, quitPending>>
    BY <1>1 DEF RequestCloseTab
  <2>2. asked \in Asked /\ asked.pane = closePanePending
    BY DEF TabsInv, Typed, AskedPane
  <2>3. q.tabs[j].key \in Nat /\ q.id \in Nat /\ q.id # NoPane
    BY <1>0, TabsOfPane DEF Keys, NoPane
  <2>4. /\ asked' \in Asked /\ asked'.pane = asked.pane
        /\ asked'.tab = q.tabs[j].key /\ asked'.within = q.id
    BY <2>1, <2>2, <2>3 DEF Asked
  <2>5. AskedPane'
    BY <2>1, <2>2, <2>4 DEF AskedPane
  <2>6. AskedTab'
    <3>1. /\ DOMAIN panes' = DOMAIN panes /\ panes'[i] = Settled(q)
          /\ \A n \in DOMAIN panes : n # i => panes'[n] = panes[n]
      BY <2>1, TypesOfOne DEF GoTo, TabsInv
    <3>2. /\ Settled(q).id = q.id
          /\ DOMAIN Settled(q).tabs = DOMAIN q.tabs
          /\ Settled(q).tabs[j].key = q.tabs[j].key
          /\ Settled(q).tabs[j].dirty = q.tabs[j].dirty
      BY <1>0, SettledIs
    <3>3. ASSUME NEW n \in DOMAIN panes', panes'[n].id = q.id PROVE n = i
      BY <3>1, <3>3 DEF TabsInv, PanesApart
    <3> QED BY <1>1, <2>1, <2>3, <2>4, <3>1, <3>2, <3>3 DEF AskedTab
  <2>7. closePending' \in 0..MaxTabs
    <3>1. j \in 1..Len(q.tabs) /\ Len(q.tabs) \in Nat /\ Len(q.tabs) <= MaxTabs
      BY <1>0, TabsOfPane, TabsInBound
    <3> QED BY <2>1, <3>1, BoundsAssumption
  <2>8. /\ closePanePending' \in {NoPane} \cup 0..(nextPane' - 1)
        /\ quitPending' \in BOOLEAN
    BY <2>1 DEF TabsInv, Typed, TypeOK, GoTo
  <2>9. QuestionsFit'
    BY <2>4, <2>5, <2>6, <2>7, <2>8 DEF QuestionsFit
  <2> QED BY <2>1, <2>9, GoToInv
<1>2. CASE ~(q.tabs[j].dirty /\ closePending # j)
  <2>1. CloseTab(i, j) /\ AnswerTab /\ UNCHANGED <<nextPane, quit>>
    BY <1>2 DEF RequestCloseTab
  <2> QED BY <2>1, CloseTabInv
<1> QED BY <1>1, <1>2

-----------------------------------------------------------------------------
(***************************************************************************)
(* Steps that change which panes there are.                                *)
(***************************************************************************)
\* The pane at `n` was at `back[n]`, and only the one at `i` has tabs that are
\* new.
Moved(ps, i, back) ==
    /\ back \in [DOMAIN ps -> Nat]
    /\ \A n, m \in DOMAIN ps : back[n] = back[m] => n = m
    /\ \A n \in DOMAIN ps : \A j \in DOMAIN ps[n].tabs :
          \/ n = i /\ New(ps[n].tabs[j])
          \/ /\ back[n] \in DOMAIN panes
             /\ \E k \in DOMAIN panes[back[n]].tabs :
                   From(ps[n].tabs[j], panes[back[n]].tabs[k])

\* What each pane is, whose id is less than `next`.
Sound(ps, next) ==
    \A n \in DOMAIN ps : /\ IsPane(ps[n]) /\ OwnTabs(ps[n])
                         /\ ~Shown(ps[n]).changed
                         /\ ps[n].id \in 0..(next - 1)

LEMMA OtherPanesInv ==
    ASSUME TabsInv, NEW ps, ps = panes', ps \in Seq(Pane), ps # <<>>,
           Sound(ps, nextPane'), PanesApart(ps), Fits(ps),
           NEW i, NEW back, Moved(ps, i, back),
           pane' \in DOMAIN ps, nextPane' \in 1..MaxPanes, quit' \in BOOLEAN,
           recent' \in Seq(Keys), QuestionsFit'
    PROVE  TabsInv'
<1>1. /\ KeysApart(ps) /\ FilesApart(ps)
      /\ KeysOf(ps) \subseteq KeysOf(panes) \cup {FreshKey}
  <2>1. \A n \in DOMAIN ps : OwnTabs(ps[n])
    BY DEF Sound
  <2> QED BY <2>1, StillApart DEF Moved
<1>2. KeyLeft'
  BY <1>1, KeyStillLeft DEF KeyLeft
<1>3. ChangeIsSaid'
  BY DEF ChangeIsSaid, Sound
<1>4. TypeOK'
  <2>1. \A n \in DOMAIN ps : /\ ps[n].tabs \in Seq(Tab)
                             /\ ps[n].active \in DOMAIN ps[n].tabs
                             /\ ps[n].id \in 0..(nextPane' - 1)
    BY DEF IsPane, Pane, Sound
  <2>2. Range(recent') \subseteq Keys
    BY DEF Range
  <2> QED BY <2>1, <2>2 DEF TypeOK, QuestionsFit
<1>5. Typed'
  BY <1>4 DEF Typed, QuestionsFit
<1> QED BY <1>1, <1>2, <1>3, <1>5 DEF TabsInv, QuestionsFit

\* A pane made for a tab that is new.
LEMMA NewPaneIs ==
    ASSUME TabsInv, nextPane < MaxPanes,
           NEW p, p = [id |-> nextPane, tabs |-> <<NewTab(Untitled)>>, active |-> 1]
    PROVE  /\ IsPane(p) /\ p.id = nextPane /\ OwnTabs(p) /\ ~Shown(p).changed
           /\ \A j \in DOMAIN p.tabs : New(p.tabs[j])
<1> DEFINE t == NewTab(Untitled)
<1>1. t \in Tab /\ New(t) /\ ~t.changed
  BY NewTabIs
<1>2. nextPane \in 0..MaxPanes
  BY BoundsAssumption DEF TabsInv, Typed, TypeOK
<1> HIDE DEF t
<1>3. <<t>> \in Seq(Tab) /\ DOMAIN <<t>> = {1} /\ <<t>>[1] = t
  BY <1>1
<1>4. /\ p \in Pane /\ p.tabs = <<t>> /\ p.active = 1 /\ p.id = nextPane
  <2>1. p = [id |-> nextPane, tabs |-> <<t>>, active |-> 1]
    BY DEF t
  <2> QED BY <1>2, <1>3, <2>1 DEF Pane
<1> QED BY <1>1, <1>3, <1>4 DEF IsPane, OwnTabs, Shown

LEMMA SplitInv ==
    ASSUME TabsInv, Split
    PROVE  TabsInv'
<1>0. Typed /\ KeysApart(panes) /\ PanesApart(panes)
  BY DEF TabsInv
<1> PICK p : p = [id |-> nextPane, tabs |-> <<NewTab(Untitled)>>, active |-> 1]
  OBVIOUS
<1> PICK ps : ps = panes'
  OBVIOUS
<1> PICK N : N = Len(panes)
  OBVIOUS
<1>1. /\ nextPane < MaxPanes /\ HasRoom
      /\ ps = Append(panes, p) /\ pane' = N + 1
      /\ recent' = Append(recent, FreshKey)
      /\ nextPane' = nextPane + 1 /\ Input /\ quit' = quit
  BY DEF Split
<1>2. /\ IsPane(p) /\ p.id = nextPane /\ OwnTabs(p) /\ ~Shown(p).changed
      /\ \A j \in DOMAIN p.tabs : New(p.tabs[j])
  BY <1>1, NewPaneIs
<1>3. /\ N \in Nat /\ DOMAIN panes = 1..N /\ panes \in Seq(Pane)
      /\ \A n \in 1..N : IsPane(panes[n]) /\ panes[n].id \in 0..(nextPane - 1)
      /\ nextPane \in 1..MaxPanes /\ quit \in BOOLEAN /\ recent \in Seq(Keys)
  BY <1>0, TypesOfOne DEF Typed, TypeOK
<1>4. /\ DOMAIN ps = 1..(N + 1) /\ ps[N + 1] = p
      /\ \A n \in 1..N : ps[n] = panes[n]
      /\ ps \in Seq(Pane) /\ ps # <<>>
  BY <1>1, <1>2, <1>3 DEF IsPane
<1>5. \A n \in 1..(N + 1) : n \in 1..N \/ n = N + 1
  BY <1>3
<1>6. nextPane \in 0..nextPane /\ \A m \in 0..(nextPane - 1) : m \in 0..nextPane
  BY <1>3
<1>7. \A n \in DOMAIN ps : /\ IsPane(ps[n]) /\ OwnTabs(ps[n])
                           /\ ~Shown(ps[n]).changed
                           /\ ps[n].id \in 0..nextPane
  <2> SUFFICES ASSUME NEW n \in DOMAIN ps
               PROVE  /\ IsPane(ps[n]) /\ OwnTabs(ps[n]) /\ ~Shown(ps[n]).changed
                      /\ ps[n].id \in 0..nextPane
    OBVIOUS
  <2>1. CASE n \in 1..N
    <3>1. OwnTabs(panes[n]) /\ ~Shown(panes[n]).changed
      BY <1>3, <2>1, OwnTabsNow DEF TabsInv, ChangeIsSaid
    <3> QED BY <1>3, <1>4, <1>6, <2>1, <3>1
  <2>2. CASE n = N + 1
    BY <1>2, <1>4, <1>6, <2>2
  <2> QED BY <1>4, <1>5, <2>1, <2>2
<1>8. PanesApart(ps)
  <2>1. \A n \in 1..N : ps[n].id # nextPane
    BY <1>3, <1>4
  <2> QED BY <1>0, <1>2, <1>3, <1>4, <1>5, <2>1 DEF PanesApart
<1>9. Fits(ps)
  BY <1>1 DEF Fits
<1> DEFINE back == [n \in DOMAIN ps |-> n]
<1>10. /\ back \in [DOMAIN ps -> Nat]
       /\ \A n, m \in DOMAIN ps : back[n] = back[m] => n = m
  BY <1>3, <1>4
<1>11. ASSUME NEW n \in DOMAIN ps, NEW j \in DOMAIN ps[n].tabs
       PROVE  \/ n = N + 1 /\ New(ps[n].tabs[j])
              \/ /\ back[n] \in DOMAIN panes
                 /\ \E k \in DOMAIN panes[back[n]].tabs :
                       From(ps[n].tabs[j], panes[back[n]].tabs[k])
  <2>1. CASE n \in 1..N
    <3>1. back[n] = n /\ ps[n] = panes[n] /\ n \in DOMAIN panes
      BY <1>3, <1>4, <2>1
    <3> QED BY <3>1 DEF From
  <2>2. CASE n = N + 1
    BY <1>2, <1>4, <2>2
  <2> QED BY <1>4, <1>5, <2>1, <2>2
<1>12. Moved(ps, N + 1, back)
  BY <1>10, <1>11 DEF Moved
<1> HIDE DEF back
<1>13. QuestionsFit'
  BY <1>1, InputFits DEF Input
<1>14. recent' \in Seq(Keys)
  BY <1>1, <1>3, KeysInUse
<1>15. /\ nextPane' \in 1..MaxPanes /\ nextPane' - 1 = nextPane
       /\ pane' \in DOMAIN ps
  BY <1>1, <1>3, <1>4, BoundsAssumption
<1>16. Sound(ps, nextPane')
  BY <1>7, <1>15 DEF Sound
<1>17. quit' \in BOOLEAN /\ ps = panes'
  BY <1>1, <1>3
<1> QED BY ONLY TabsInv, <1>4, <1>8, <1>9, <1>12, <1>13, <1>14, <1>15, <1>16,
              <1>17, OtherPanesInv

LEMMA QuitInv ==
    ASSUME TabsInv, Quit
    PROVE  TabsInv'
<1>0. /\ UNCHANGED <<panes, pane, nextPane>> /\ pane \in DOMAIN panes
      /\ recent \in Seq(Keys) /\ quit \in BOOLEAN /\ <<>> \in Seq(Keys)
  BY DEF Quit, TabsInv, Typed, TypeOK
<1>1. CASE QuitBlocked /\ ~quitPending
  <2>1. /\ quitPending' = TRUE
        /\ UNCHANGED <<quit, recent, closePending, closePanePending, asked>>
    BY <1>1 DEF Quit
  <2>2. AskedTab'
    <3>1. \A n \in DOMAIN panes' : \E m \in DOMAIN panes :
              panes'[n].id = panes[m].id /\ Keeps(panes'[n], panes[m])
      BY <1>0 DEF Keeps
    <3> QED BY <2>1, <3>1, AskedTabKept
  <2>3. QuestionsFit'
    BY <1>0, <2>1, <2>2 DEF QuestionsFit, TabsInv, Typed, TypeOK, AskedPane
  <2> QED BY <1>0, <2>1, <2>3, SamePanesInv
<1>2. CASE ~(QuitBlocked /\ ~quitPending)
  <2>1. quit' = TRUE /\ recent' = <<>> /\ ClearTransient
    BY <1>2 DEF Quit
  <2>2. quit' \in BOOLEAN
    BY <2>1, Zenon
  <2> QED BY <1>0, <2>1, <2>2, InputFits, SamePanesInv
<1> QED BY <1>1, <1>2

\* The panes but the one at `i`, in their order.
AllBut(i, ps) ==
    /\ DOMAIN ps = 1..(Len(panes) - 1) /\ ps \in Seq(Pane) /\ ps # <<>>
    /\ \A n \in 1..(Len(panes) - 1) :
          LET q == panes[IF n < i THEN n ELSE n + 1]
          IN  /\ IsPane(ps[n]) /\ ps[n].id = q.id
              /\ ~Shown(ps[n]).changed
              /\ DOMAIN ps[n].tabs = DOMAIN q.tabs
              /\ \A j \in DOMAIN q.tabs :
                    /\ ps[n].tabs[j].key = q.tabs[j].key
                    /\ ps[n].tabs[j].file = q.tabs[j].file
                    /\ ps[n].tabs[j].dirty = q.tabs[j].dirty

\* The panes that are left settle at the one shown next.
LEMMA PaneLeaves ==
    ASSUME TabsInv, NEW i \in DOMAIN panes, Len(panes) > 1,
           NEW next \in 1..(Len(panes) - 1),
           NEW ps, ps = [RemoveAt(panes, i) EXCEPT ![next] = Settled(@)]
    PROVE  AllBut(i, ps)
<1> PICK left : left = RemoveAt(panes, i)
  OBVIOUS
<1> PICK N : N = Len(panes)
  OBVIOUS
<1>0. /\ panes \in Seq(Pane) /\ N \in Nat /\ N > 1 /\ DOMAIN panes = 1..N
      /\ i \in 1..N /\ next \in 1..(N - 1)
      /\ \A n \in 1..N : IsPane(panes[n]) /\ ~Shown(panes[n]).changed
  BY TypesOfOne DEF TabsInv, Typed, ChangeIsSaid
<1>1. /\ left \in Seq(Pane) /\ DOMAIN left = 1..(N - 1)
      /\ \A n \in 1..(N - 1) :
            left[n] = IF n < i THEN panes[n] ELSE panes[n + 1]
  BY <1>0, RemovedLeaves
<1>2. ps = [left EXCEPT ![next] = Settled(left[next])]
  OBVIOUS
<1> DEFINE Place(n) == IF n < i THEN n ELSE n + 1
<1>3. \A n \in 1..(N - 1) : Place(n) \in 1..N
  BY ONLY <1>0
<1>4. \A n \in 1..(N - 1) : left[n] = panes[Place(n)]
  BY ONLY <1>1
<1> HIDE DEF Place
<1>5. \A n \in 1..(N - 1) : IsPane(left[n]) /\ ~Shown(left[n]).changed
  BY ONLY <1>0, <1>3, <1>4
<1> PICK p : p = Settled(left[next])
  OBVIOUS
<1>6. IsPane(left[next])
  BY ONLY <1>0, <1>5
<1>7. /\ IsPane(p) /\ p.id = left[next].id
      /\ DOMAIN p.tabs = DOMAIN left[next].tabs
      /\ \A j \in DOMAIN p.tabs :
            /\ p.tabs[j].key = left[next].tabs[j].key
            /\ p.tabs[j].file = left[next].tabs[j].file
            /\ p.tabs[j].dirty = left[next].tabs[j].dirty
      /\ ~Shown(p).changed
  BY <1>6, SettledIs
<1>8. /\ DOMAIN ps = 1..(N - 1) /\ ps[next] = p
      /\ \A n \in 1..(N - 1) : n # next => ps[n] = left[n]
  BY ONLY <1>0, <1>1, <1>2, p = Settled(left[next])
<1>9. \A n \in 1..(N - 1) :
          /\ IsPane(ps[n]) /\ ps[n].id = left[n].id
          /\ ~Shown(ps[n]).changed
          /\ DOMAIN ps[n].tabs = DOMAIN left[n].tabs
          /\ \A j \in DOMAIN left[n].tabs :
                /\ ps[n].tabs[j].key = left[n].tabs[j].key
                /\ ps[n].tabs[j].file = left[n].tabs[j].file
                /\ ps[n].tabs[j].dirty = left[n].tabs[j].dirty
  BY ONLY <1>5, <1>7, <1>8
<1>10. ps \in Seq(Pane) /\ ps # <<>>
  <2>1. ps \in Seq(Pane)
    <3>1. p \in Pane
      BY <1>7 DEF IsPane
    <3> QED BY ONLY <1>0, <1>1, <1>2, <3>1, p = Settled(left[next])
  <2>2. 1 \in DOMAIN ps
    BY ONLY <1>0, <1>8
  <2>3. DOMAIN <<>> = {}
    OBVIOUS
  <2> QED BY <2>1, <2>2, <2>3
<1> QED BY <1>4, <1>8, <1>9, <1>10 DEF Place, AllBut

LEMMA ClosePaneInv ==
    ASSUME TabsInv, ClosePane
    PROVE  TabsInv'
<1>0. /\ Len(panes) > 1 /\ UNCHANGED <<nextPane, quit>> /\ pane \in DOMAIN panes
      /\ recent \in Seq(Keys) /\ quit \in BOOLEAN
      /\ nextPane \in 1..MaxPanes
      /\ asked \in Asked /\ asked.pane = closePanePending
      /\ closePanePending \in {NoPane} \cup 0..(nextPane - 1)
      /\ closePending \in 0..MaxTabs /\ quitPending \in BOOLEAN
  BY DEF ClosePane, TabsInv, Typed, TypeOK, AskedPane
<1>1. CASE Range(Current.tabs) \cap {t \in AllTabs : t.dirty} # {}
           /\ closePanePending # Current.id
  <2> PICK id : id = panes[pane].id
    OBVIOUS
  <2>1. /\ closePanePending' = id
        /\ asked' = [asked EXCEPT !.pane = id]
        /\ UNCHANGED <<panes, pane, recent, closePending, quitPending>>
    BY <1>1 DEF ClosePane, Current
  <2>2. id \in 0..(nextPane - 1) /\ id \in Nat
    BY <1>0, TypesOfOne DEF TabsInv
  <2>3. /\ asked' \in Asked /\ asked'.pane = id
        /\ asked'.tab = asked.tab /\ asked'.within = asked.within
    BY <1>0, <2>1, <2>2 DEF Asked
  <2>4. AskedTab'
    <3>1. \A n \in DOMAIN panes' : \E m \in DOMAIN panes :
              panes'[n].id = panes[m].id /\ Keeps(panes'[n], panes[m])
      BY <2>1 DEF Keeps
    <3> QED BY <2>1, <2>3, <3>1, AskedTabKept
  <2>5. QuestionsFit'
    BY <1>0, <2>1, <2>2, <2>3, <2>4 DEF QuestionsFit, AskedPane
  <2> QED BY <1>0, <2>1, <2>5, SamePanesInv
<1>2. CASE ~(Range(Current.tabs) \cap {t \in AllTabs : t.dirty} # {}
             /\ closePanePending # Current.id)
  <2>1. PICK next \in 1..(Len(panes) - 1) :
            /\ panes' = [RemoveAt(panes, pane) EXCEPT ![next] = Settled(@)]
            /\ pane' = next
    BY <1>2 DEF ClosePane
  <2>2. /\ closePanePending' = NoPane
        /\ asked' = [asked EXCEPT !.pane = NoPane]
        /\ recent' = Stamps(panes')
        /\ UNCHANGED <<closePending, quitPending>>
    BY <1>2 DEF ClosePane
  <2> PICK ps : ps = panes'
    OBVIOUS
  <2> PICK N, i : N = Len(panes) /\ i = pane
    OBVIOUS
  <2> DEFINE Place(n) == IF n < i THEN n ELSE n + 1
  <2>3. /\ DOMAIN ps = 1..(N - 1) /\ ps \in Seq(Pane) /\ ps # <<>>
        /\ \A n \in 1..(N - 1) :
              LET q == panes[Place(n)]
              IN  /\ IsPane(ps[n]) /\ ps[n].id = q.id
                  /\ ~Shown(ps[n]).changed
                  /\ DOMAIN ps[n].tabs = DOMAIN q.tabs
                  /\ \A j \in DOMAIN q.tabs :
                        /\ ps[n].tabs[j].key = q.tabs[j].key
                        /\ ps[n].tabs[j].file = q.tabs[j].file
                        /\ ps[n].tabs[j].dirty = q.tabs[j].dirty
    <3>1. AllBut(pane, ps)
      <4>1. ps = [RemoveAt(panes, pane) EXCEPT ![next] = Settled(@)]
        BY <2>1
      <4> QED BY ONLY TabsInv, <1>0, <4>1, next \in 1..(Len(panes) - 1), PaneLeaves
    <3> QED BY <3>1 DEF AllBut
  <2>4. /\ N \in Nat /\ DOMAIN panes = 1..N /\ i \in 1..N
        /\ \A n \in 1..N : OwnTabs(panes[n]) /\ panes[n].id \in 0..(nextPane - 1)
    BY <1>0, TypesOfOne, OwnTabsNow DEF TabsInv
  <2>5. /\ \A n \in 1..(N - 1) : Place(n) \in 1..N
        /\ \A n, m \in 1..(N - 1) : Place(n) = Place(m) => n = m
    BY ONLY <2>4
  <2> HIDE DEF Place
  <2>6. Sound(ps, nextPane')
    <3> SUFFICES ASSUME NEW n \in 1..(N - 1)
                 PROVE  /\ IsPane(ps[n]) /\ OwnTabs(ps[n])
                        /\ ~Shown(ps[n]).changed
                        /\ ps[n].id \in 0..(nextPane - 1)
      BY <1>0, <2>3 DEF Sound
    <3>1. OwnTabs(panes[Place(n)]) /\ panes[Place(n)].id \in 0..(nextPane - 1)
      BY <2>4, <2>5
    <3>2. OwnTabs(ps[n])
      BY ONLY <2>3, <3>1, n \in 1..(N - 1) DEF OwnTabs
    <3> QED BY ONLY <2>3, <3>1, <3>2, n \in 1..(N - 1)
  <2>7. PanesApart(ps)
    BY <2>3, <2>4, <2>5 DEF TabsInv, PanesApart
  <2> DEFINE back == [n \in DOMAIN ps |-> Place(n)]
  <2>8. \A n \in 1..(N - 1) : \A j \in DOMAIN ps[n].tabs :
            \E k \in DOMAIN panes[Place(n)].tabs :
                From(ps[n].tabs[j], panes[Place(n)].tabs[k])
    BY ONLY <2>3 DEF From
  <2>9. Moved(ps, 0, back)
    <3>1. back \in [DOMAIN ps -> Nat]
      BY <2>3, <2>4, <2>5
    <3>2. \A n \in DOMAIN ps : back[n] = Place(n) /\ back[n] \in DOMAIN panes
      BY <2>3, <2>4, <2>5
    <3> QED BY ONLY <2>3, <2>5, <2>8, <3>1, <3>2 DEF Moved
  <2> HIDE DEF back
  <2>10. Fits(ps)
    <3>1. SUFFICES ASSUME FreshKey \in KeysOf(ps) PROVE FALSE
      BY DEF Fits
    <3>2. PICK n \in DOMAIN ps : \E j \in DOMAIN ps[n].tabs :
              FreshKey = ps[n].tabs[j].key
      BY <3>1, TabsAre
    <3>3. \E k \in DOMAIN panes[Place(n)].tabs :
              FreshKey = panes[Place(n)].tabs[k].key
      BY ONLY <2>8, <2>3, <3>2, n \in DOMAIN ps DEF From
    <3>4. Place(n) \in DOMAIN panes
      BY <2>3, <2>4, <2>5
    <3> QED BY <3>3, <3>4, TabsAre, KeysInUse
  <2>11. QuestionsFit'
    <3>1. /\ asked' \in Asked /\ asked'.pane = NoPane
          /\ asked'.tab = asked.tab /\ asked'.within = asked.within
      BY <1>0, <2>2 DEF Asked
    <3>2. AskedTab'
      <4>1. ASSUME NEW n \in DOMAIN ps
            PROVE  \E m \in DOMAIN panes :
                       ps[n].id = panes[m].id /\ Keeps(ps[n], panes[m])
        <5>1. Place(n) \in DOMAIN panes
          BY <2>3, <2>4, <2>5
        <5>2. ps[n].id = panes[Place(n)].id /\ Keeps(ps[n], panes[Place(n)])
          BY ONLY <2>3, n \in DOMAIN ps DEF Keeps
        <5> QED BY <5>1, <5>2
      <4> QED BY <2>2, <3>1, <4>1, AskedTabKept
    <3>3. AskedPane' /\ closePanePending' \in {NoPane} \cup 0..(nextPane' - 1)
      BY <2>2, <3>1 DEF AskedPane
    <3> QED BY <1>0, <2>2, <3>1, <3>2, <3>3 DEF QuestionsFit
  <2>12. recent' \in Seq(Keys)
    BY <1>0, <2>2, StampsAreKeys DEF Stamps
  <2>13. /\ pane' \in DOMAIN ps /\ nextPane' \in 1..MaxPanes /\ quit' \in BOOLEAN
         /\ ps = panes'
    BY <1>0, <2>1, <2>3
  <2> QED BY ONLY TabsInv, <2>3, <2>6, <2>7, <2>9, <2>10, <2>11, <2>12, <2>13,
                OtherPanesInv
<1> QED BY <1>1, <1>2

-----------------------------------------------------------------------------
(***************************************************************************)
(* Starting again.                                                         *)
(***************************************************************************)
\* More of a sequence keeps no fewer.
LEMMA ThoseGrow ==
    ASSUME NEW X, NEW seq \in Seq(X), NEW wanted,
           NEW n \in 0..Len(seq), NEW m \in 0..n
    PROVE  Len(Those(seq, m, wanted)) <= Len(Those(seq, n, wanted))
<1> DEFINE R(k) == Those(seq, k, wanted)
           T == {k \in 0..Len(seq) : m <= k => Len(R(m)) <= Len(R(k))}
<1>0. /\ Len(seq) \in Nat /\ n \in Nat /\ m \in Nat /\ m <= n
      /\ \A k \in 0..Len(seq) : R(k) \in Seq(X) /\ Len(R(k)) \in Nat
  <2>1. \A k \in 0..Len(seq) : R(k) \in Seq(X)
    BY ThoseAre DEF Picked
  <2> QED BY <2>1
<1>1. \A k \in Nat \ {0} :
          R(k) = IF seq[k] \in wanted THEN Append(R(k - 1), seq[k]) ELSE R(k - 1)
  BY ThoseByTheLast
<1> HIDE DEF R
<1>2. 0 \in T
  <2>1. m <= 0 => m = 0
    BY <1>0
  <2> QED BY <1>0, <2>1
<1>3. ASSUME NEW k \in 1..Len(seq), k - 1 \in T PROVE k \in T
  <2>0. /\ k \in 0..Len(seq) /\ k \in Nat \ {0} /\ k - 1 \in 0..Len(seq)
        /\ m <= k => m = k \/ m <= k - 1
    BY <1>0
  <2>1. Len(R(k - 1)) <= Len(R(k))
    <3>1. R(k - 1) \in Seq(X) /\ Len(R(k - 1)) \in Nat /\ seq[k] \in X
      BY <1>0, <2>0
    <3>2. Len(Append(R(k - 1), seq[k])) = Len(R(k - 1)) + 1
      BY <3>1
    <3>3. R(k) = R(k - 1) \/ R(k) = Append(R(k - 1), seq[k])
      BY <1>1, <2>0
    <3> QED BY <3>1, <3>2, <3>3
  <2>2. m <= k - 1 => Len(R(m)) <= Len(R(k - 1))
    BY <1>3
  <2>3. Len(R(k)) \in Nat /\ Len(R(k - 1)) \in Nat /\ Len(R(m)) \in Nat
    <3>1. m \in 0..Len(seq)
      BY <1>0
    <3> QED BY <1>0, <2>0, <3>1
  <2>4. m <= k => Len(R(m)) <= Len(R(k))
    BY ONLY <2>0, <2>1, <2>2, <2>3
  <2> QED BY <2>0, <2>4
<1>4. n \in T
  <2> HIDE DEF T
  <2>1. \A k \in 0..Len(seq) : k \in T
    BY <1>0, <1>2, <1>3, EveryNumber
  <2> QED BY <2>1
<1> QED BY <1>0, <1>4 DEF R

\* A pane as a start finds it again.
LEMMA RestoredIs ==
    ASSUME NEW p, IsPane(p), OwnTabs(p), NEW gone
    PROVE  LET r == Restored(p, gone)
           IN  /\ IsPane(r) /\ r.id = p.id /\ OwnTabs(r) /\ Within(r, p)
               /\ ~Shown(r).changed
<1> DEFINE titled == {t \in Range(p.tabs) : t.file # Untitled}
           here == {t \in titled : t.file \notin gone}
           saved == Those(p.tabs, Len(p.tabs), titled)
           active == IF Shown(p) \in titled THEN Len(Those(p.tabs, p.active, titled))
                                            ELSE 1
           kept == Those(saved, Len(saved), here)
           upTo == Len(Those(saved, active, here))
           clean(t) == [t EXCEPT !.dirty = FALSE, !.changed = FALSE]
           back == [n \in DOMAIN kept |-> clean(kept[n])]
           bare == [p.tabs[1] EXCEPT !.file = Untitled, !.dirty = FALSE,
                                     !.changed = FALSE]
<1> PICK r : r = Restored(p, gone)
  OBVIOUS
<1>1. r = IF kept = <<>> THEN [p EXCEPT !.active = 1, !.tabs = <<bare>>]
          ELSE [p EXCEPT !.tabs = back, !.active = Max({1, upTo})]
  BY DEF Restored
<1> HIDE DEF bare, back, clean, upTo, kept, active, saved, here, titled
<1>2. /\ p \in Pane /\ p.tabs \in Seq(Tab) /\ Len(p.tabs) \in Nat \ {0}
      /\ DOMAIN p.tabs = 1..Len(p.tabs)
      /\ p.active \in 1..Len(p.tabs)
      /\ \A j \in DOMAIN p.tabs : p.tabs[j] \in Tab
  BY TabsOfPane DEF IsPane, Pane
<1>3. CASE kept = <<>>
  <2>1. r = [p EXCEPT !.active = 1, !.tabs = <<bare>>]
    BY <1>1, <1>3
  <2>2. p.tabs[1] \in Tab /\ 1 \in DOMAIN p.tabs
    BY <1>2
  <2>3. /\ bare \in Tab /\ bare.key = p.tabs[1].key /\ bare.file = Untitled
        /\ bare.changed = FALSE
    BY <2>2 DEF bare, Tab
  <2>4. <<bare>> \in Seq(Tab) /\ DOMAIN <<bare>> = {1} /\ <<bare>>[1] = bare
    BY <2>3
  <2>5. r \in Pane /\ r.id = p.id /\ r.active = 1 /\ r.tabs = <<bare>>
    BY ONLY <1>2, <2>1, <2>4 DEF Pane
  <2>6. Within(r, p)
    BY <2>2, <2>3, <2>4, <2>5 DEF Within, From
  <2>7. OwnTabs(r) /\ IsPane(r) /\ ~Shown(r).changed
    BY <2>3, <2>4, <2>5 DEF OwnTabs, IsPane, Shown
  <2> QED BY <2>5, <2>6, <2>7
<1>4. CASE kept # <<>>
  <2>1. r = [p EXCEPT !.tabs = back, !.active = Max({1, upTo})]
    BY <1>1, <1>4
  <2>2. Picked(saved, Tab, p.tabs, Len(p.tabs), titled)
    BY <1>2, ThoseAre DEF saved
  <2>3. saved \in Seq(Tab) /\ Len(saved) \in Nat /\ DOMAIN saved = 1..Len(saved)
    BY <2>2 DEF Picked
  <2>4. Picked(kept, Tab, saved, Len(saved), here)
    BY <2>3, ThoseAre DEF kept
  <2>5. /\ kept \in Seq(Tab) /\ Len(kept) \in Nat /\ DOMAIN kept = 1..Len(kept)
        /\ Len(kept) <= Len(saved)
    BY <2>4 DEF Picked
  <2>6. Len(kept) >= 1
    <3>1. Len(kept) = 0 => kept = <<>>
      BY <2>5
    <3> QED BY <1>4, <2>5, <3>1
  <2>7. active \in 0..Len(saved)
    <3>1. Len(Those(p.tabs, p.active, titled)) <= Len(saved)
      <4>1. Len(p.tabs) \in 0..Len(p.tabs) /\ p.active \in 0..Len(p.tabs)
        BY <1>2
      <4> QED BY <1>2, <4>1, ThoseGrow DEF saved
    <3>2. Len(Those(p.tabs, p.active, titled)) \in Nat
      <4>1. p.active \in 0..Len(p.tabs)
        BY <1>2
      <4>2. Those(p.tabs, p.active, titled) \in Seq(Tab)
        BY <1>2, <4>1, ThoseAre DEF Picked
      <4> QED BY <4>2
    <3> QED BY <2>3, <2>5, <2>6, <3>1, <3>2 DEF active
  <2>8. upTo \in 0..Len(kept)
    <3>1. Len(saved) \in 0..Len(saved)
      BY <2>3
    <3>2. upTo <= Len(kept)
      BY <2>3, <2>7, <3>1, ThoseGrow DEF upTo, kept
    <3>3. upTo \in Nat
      <4>1. Those(saved, active, here) \in Seq(Tab)
        BY <2>3, <2>7, ThoseAre DEF Picked
      <4> QED BY <4>1 DEF upTo
    <3> QED BY <2>5, <3>2, <3>3
  <2>9. Max({1, upTo}) \in 1..Len(kept)
    <3>1. \E x \in {1, upTo} : \A y \in {1, upTo} : x >= y
      BY <2>5, <2>6, <2>8
    <3>2. /\ Max({1, upTo}) \in {1, upTo}
          /\ \A y \in {1, upTo} : Max({1, upTo}) >= y
      BY <3>1 DEF Max
    <3> QED BY <2>5, <2>6, <2>8, <3>2
  <2>10. \A n \in DOMAIN kept : kept[n] \in Tab
    BY <2>5
  <2>11. \A n \in DOMAIN kept :
             /\ clean(kept[n]) \in Tab /\ clean(kept[n]).changed = FALSE
             /\ clean(kept[n]).key = kept[n].key
             /\ clean(kept[n]).file = kept[n].file
    BY <2>10 DEF clean, Tab
  <2>12. /\ back \in Seq(Tab) /\ DOMAIN back = DOMAIN kept
         /\ \A n \in DOMAIN kept : /\ back[n].key = kept[n].key
                                   /\ back[n].file = kept[n].file
                                   /\ back[n].changed = FALSE
    <3>1. /\ DOMAIN back = DOMAIN kept
          /\ \A n \in DOMAIN kept : back[n] = clean(kept[n])
      BY DEF back
    <3>2. back \in [1..Len(kept) -> Tab]
      BY <2>5, <2>11 DEF back
    <3>3. back \in Seq(Tab)
      BY <2>5, <3>2
    <3> QED BY <2>11, <3>1, <3>3
  <2>13. /\ r \in Pane /\ r.id = p.id /\ r.tabs = back
         /\ r.active = Max({1, upTo})
    <3> PICK a : a = Max({1, upTo})
      OBVIOUS
    <3>1. a \in Nat
      BY <2>9
    <3>2. r = [p EXCEPT !.tabs = back, !.active = a]
      BY <2>1
    <3>3. r \in Pane /\ r.id = p.id /\ r.tabs = back /\ r.active = a
      BY ONLY <1>2, <2>12, <3>1, <3>2 DEF Pane
    <3> QED BY <3>3
  <2>14. ASSUME NEW n \in DOMAIN kept, NEW m \in DOMAIN kept
         PROVE  \E k, l \in DOMAIN p.tabs :
                    /\ kept[n] = p.tabs[k] /\ kept[m] = p.tabs[l]
                    /\ n # m => k # l
    <3>1. PICK k, l \in 1..Len(saved) : /\ kept[n] = saved[k] /\ kept[m] = saved[l]
                                        /\ kept[n] \in here
                                        /\ n # m => k # l
      BY <2>4, Zenon DEF Picked
    <3>2. k \in DOMAIN saved /\ l \in DOMAIN saved
      BY <2>3
    <3>3. PICK g, h \in 1..Len(p.tabs) : /\ saved[k] = p.tabs[g] /\ saved[l] = p.tabs[h]
                                         /\ saved[k] \in titled
                                         /\ k # l => g # h
      BY <2>2, <3>2, Zenon DEF Picked
    <3> QED BY <1>2, <3>1, <3>3
  <2>15. Within(r, p)
    <3> SUFFICES ASSUME NEW n \in DOMAIN kept
                 PROVE  \E k \in DOMAIN p.tabs : From(back[n], p.tabs[k])
      BY <2>12, <2>13 DEF Within
    <3> QED BY <2>12, <2>14 DEF From
  <2>16. OwnTabs(r)
    <3> SUFFICES ASSUME NEW n \in DOMAIN kept, NEW m \in DOMAIN kept, n # m
                 PROVE  /\ back[n].key # back[m].key
                        /\ back[n].file \in Files => back[n].file # back[m].file
      BY <2>12, <2>13 DEF OwnTabs
    <3>1. PICK k, l \in DOMAIN p.tabs :
              kept[n] = p.tabs[k] /\ kept[m] = p.tabs[l] /\ k # l
      BY <2>14
    <3> QED BY <2>12, <3>1 DEF OwnTabs
  <2>17. IsPane(r) /\ ~Shown(r).changed
    BY <2>5, <2>9, <2>12, <2>13 DEF IsPane, Shown
  <2> QED BY <2>13, <2>15, <2>16, <2>17
<1> QED BY <1>3, <1>4

\* The id the next pane gets is the least that is larger than all.
LEMMA NextPaneIs ==
    ASSUME TabsInv
    PROVE  LET next == Max({panes[i].id : i \in DOMAIN panes}) + 1
           IN  /\ next \in 1..nextPane
               /\ \A i \in DOMAIN panes : panes[i].id \in 0..(next - 1)
<1> DEFINE S == {panes[i].id : i \in DOMAIN panes}
<1>1. nextPane \in Nat \ {0} /\ pane \in DOMAIN panes
  BY BoundsAssumption DEF TabsInv, Typed, TypeOK
<1>2. \A i \in DOMAIN panes : panes[i].id \in 0..(nextPane - 1)
  BY TypesOfOne DEF TabsInv
<1>3. S \subseteq 0..(nextPane - 1) /\ S # {}
  BY <1>1, <1>2
<1> HIDE DEF S
<1>4. \E x \in S : \A y \in S : y <= x
  <2>1. nextPane - 1 \in Nat
    BY <1>1
  <2> QED BY <1>3, <2>1, LargestNumber
<1>5. Max(S) \in S /\ \A y \in S : y <= Max(S)
  <2>1. \E x \in S : \A y \in S : x >= y
    BY <1>3, <1>4
  <2>2. Max(S) \in S /\ \A y \in S : Max(S) >= y
    BY <2>1 DEF Max
  <2> QED BY <1>3, <2>2
<1>6. Max(S) \in 0..(nextPane - 1)
  BY <1>3, <1>5
<1>7. \A i \in DOMAIN panes : panes[i].id \in S
  BY DEF S
<1>8. \A i \in DOMAIN panes : panes[i].id \in 0..Max(S)
  BY <1>2, <1>5, <1>6, <1>7
<1>9. /\ Max(S) + 1 \in 1..nextPane
      /\ \A i \in DOMAIN panes : panes[i].id \in 0..((Max(S) + 1) - 1)
  <2> PICK largest : largest = Max(S)
    OBVIOUS
  <2>1. largest + 1 \in 1..nextPane /\ (largest + 1) - 1 = largest
    BY <1>1, <1>6
  <2> QED BY <1>8, <2>1
<1> QED BY <1>9 DEF S

LEMMA ShownKeys ==
    ASSUME NEW X, \A p \in X : Shown(p).key \in Keys, NEW seq \in Seq(X)
    PROVE  [i \in DOMAIN seq |-> Shown(seq[i]).key] \in Seq(Keys)
<1> DEFINE keys == [i \in DOMAIN seq |-> Shown(seq[i]).key]
<1>1. Len(seq) \in Nat /\ DOMAIN seq = 1..Len(seq)
  OBVIOUS
<1>2. \A i \in DOMAIN seq : Shown(seq[i]).key \in Keys
  OBVIOUS
<1>3. keys \in [1..Len(seq) -> Keys]
  BY <1>1, <1>2
<1> HIDE DEF keys
<1>4. keys \in Seq(Keys)
  BY <1>1, <1>3
<1> QED BY <1>4 DEF keys

LEMMA RestartInv ==
    ASSUME TabsInv, Restart
    PROVE  TabsInv'
<1> PICK ps : ps = panes'
  OBVIOUS
<1>1. PICK gone \in SUBSET Files :
          ps = [i \in DOMAIN panes |-> Restored(panes[i], gone)]
  BY DEF Restart
<1> PICK others : others = Those(ps, Len(ps), Range(ps) \ {ps[pane]})
  OBVIOUS
<1>2. /\ quit' = FALSE /\ ClearTransient /\ pane' = pane
      /\ nextPane' = Max({panes[i].id : i \in DOMAIN panes}) + 1
      /\ recent' = [i \in DOMAIN others |-> Shown(others[i]).key]
                        \o <<Shown(ps[pane]).key>>
  BY DEF Restart
<1>3. /\ Len(panes) \in Nat /\ DOMAIN panes = 1..Len(panes) /\ pane \in DOMAIN panes
      /\ nextPane \in 1..MaxPanes
  BY TypesOfOne DEF TabsInv, Typed, TypeOK
<1>4. /\ nextPane' \in 1..nextPane
      /\ \A i \in DOMAIN panes : panes[i].id \in 0..(nextPane' - 1)
  BY <1>2, NextPaneIs
<1>5. ASSUME NEW n \in DOMAIN panes
      PROVE  /\ IsPane(ps[n]) /\ ps[n].id = panes[n].id /\ OwnTabs(ps[n])
             /\ Within(ps[n], panes[n]) /\ ~Shown(ps[n]).changed
  <2>1. IsPane(panes[n]) /\ OwnTabs(panes[n])
    BY TypesOfOne, OwnTabsNow DEF TabsInv
  <2>2. ps[n] = Restored(panes[n], gone)
    BY <1>1
  <2> QED BY ONLY <2>1, <2>2, RestoredIs
<1>6. DOMAIN ps = DOMAIN panes /\ ps \in Seq(Pane) /\ ps # <<>>
      /\ DOMAIN ps = 1..Len(panes)
  <2>1. DOMAIN ps = 1..Len(panes) /\ DOMAIN ps = DOMAIN panes
    BY <1>1, <1>3
  <2>2. ps \in [1..Len(panes) -> Pane]
    BY <1>1, <1>3, <1>5 DEF IsPane
  <2>3. ps \in Seq(Pane)
    BY <1>3, <2>2
  <2>4. ps # <<>>
    BY <1>3, <2>1
  <2> QED BY <2>1, <2>3, <2>4
<1>7. Sound(ps, nextPane') /\ PanesApart(ps)
  BY <1>4, <1>5, <1>6 DEF Sound, PanesApart, TabsInv
<1> DEFINE back == [n \in DOMAIN ps |-> n]
<1>8. Moved(ps, 0, back)
  BY <1>3, <1>5, <1>6 DEF Moved, Within
<1> HIDE DEF back
<1>9. Fits(ps)
  <2>1. SUFFICES ASSUME FreshKey \in KeysOf(ps) PROVE FALSE
    BY DEF Fits
  <2>2. PICK n \in DOMAIN ps : \E j \in DOMAIN ps[n].tabs : FreshKey = ps[n].tabs[j].key
    BY <2>1, TabsAre
  <2>3. \E j \in DOMAIN panes[n].tabs : FreshKey = panes[n].tabs[j].key
    BY <1>5, <1>6, <2>2 DEF Within, From
  <2> QED BY <1>6, <2>2, <2>3, TabsAre, KeysInUse
<1>10. recent' \in Seq(Keys)
  <2> DEFINE X == {ps[n] : n \in DOMAIN ps}
  <2>1. \A p \in X : Shown(p).key \in Keys
    BY <1>5, <1>6, TabsOfPane DEF Shown, IsPane
  <2>2. ps \in Seq(X) /\ Len(ps) \in 0..Len(ps) /\ ps[pane] \in X
    BY <1>3, <1>6
  <2> HIDE DEF X
  <2>3. others \in Seq(X)
    BY <2>2, ThoseAre DEF Picked
  <2> PICK old : old = [i \in DOMAIN others |-> Shown(others[i]).key]
    OBVIOUS
  <2> PICK last : last = Shown(ps[pane]).key
    OBVIOUS
  <2>4. old \in Seq(Keys)
    <3>1. [i \in DOMAIN others |-> Shown(others[i]).key] \in Seq(Keys)
      BY ONLY <2>1, <2>3, ShownKeys
    <3> QED BY <3>1
  <2>5. last \in Keys
    BY <2>1, <2>2
  <2>6. old \o <<last>> \in Seq(Keys)
    BY ONLY <2>4, <2>5
  <2> QED BY <1>2, <2>6
<1>11. /\ pane' \in DOMAIN ps /\ nextPane' \in 1..MaxPanes /\ ps = panes'
       /\ QuestionsFit'
  BY <1>2, <1>3, <1>4, <1>6, BoundsAssumption, InputFits
<1>12. quit' \in BOOLEAN
  BY <1>2, Zenon
<1> QED BY ONLY TabsInv, <1>6, <1>7, <1>8, <1>9, <1>10, <1>11, <1>12, OtherPanesInv

-----------------------------------------------------------------------------
(***************************************************************************)
(* The theorems.                                                           *)
(***************************************************************************)
LEMMA NextTabsInv == TabsInv /\ [Next]_vars => TabsInv'
<1> SUFFICES ASSUME TabsInv, [Next]_vars PROVE TabsInv'
  OBVIOUS
<1>1. ASSUME NEW file \in Files, OpenFile(file) \/ AnswerOpens(file) PROVE TabsInv'
  BY <1>1, OpenInv DEF OpenFile, AnswerOpens
<1>2. ASSUME NEW file \in Files, ServerEdits(file) PROVE TabsInv'
  BY <1>2, ServerEditsInv
<1>3. ASSUME NEW file \in Files, OutsideWrite(file) PROVE TabsInv'
  BY <1>3, OutsideWriteInv
<1>4. ASSUME NEW i \in 1..MaxTabs, ActivateTab(i) PROVE TabsInv'
  BY <1>4, ActivateTabInv
<1>5. ASSUME NEW i \in 1..MaxPanes, SwitchPane(i) \/ SwitchPaneQuietly(i)
      PROVE  TabsInv'
  BY <1>5, SwitchPaneInv
<1>6. CASE Split
  BY <1>6, SplitInv
<1>7. CASE ChangeShown
  BY <1>7, ChangeShownInv
<1>8. CASE CloseShown
  <2>1. pane \in DOMAIN panes /\ Current.active \in DOMAIN panes[pane].tabs
    BY DEF TabsInv, Typed, TypeOK, Current
  <2> QED BY <1>8, <2>1, RequestCloseTabInv DEF CloseShown
<1>9. ASSUME NEW i \in 1..MaxPanes, NEW j \in 1..MaxTabs, PressCloseBox(i, j)
      PROVE  TabsInv'
  BY <1>9, RequestCloseTabInv DEF PressCloseBox
<1>10. CASE ClosePane
  BY <1>10, ClosePaneInv
<1>11. CASE Quit
  BY <1>11, QuitInv
<1>12. CASE Restart
  BY <1>12, RestartInv
<1>13. CASE UNCHANGED vars
  <2>1. /\ UNCHANGED <<panes, nextPane, questions>>
        /\ recent' \in Seq(Keys) /\ pane' \in DOMAIN panes /\ quit' \in BOOLEAN
    BY <1>13 DEF vars, TabsInv, Typed, TypeOK
  <2>2. \A n \in DOMAIN panes' : \E m \in DOMAIN panes :
            panes'[n].id = panes[m].id /\ Keeps(panes'[n], panes[m])
    BY <2>1 DEF Keeps
  <2>3. QuestionsFit'
    BY <2>1, <2>2, BackgroundFits
  <2> QED BY <2>1, <2>3, SamePanesInv
<1> QED BY <1>1, <1>2, <1>3, <1>4, <1>5, <1>6, <1>7, <1>8, <1>9, <1>10, <1>11,
          <1>12, <1>13 DEF Next, Work

LEMMA TabsInvAlways == Spec => []TabsInv
  BY InitTabsInv, NextTabsInv, PTL DEF Spec

\* Every variable has its type; two tabs, of one pane or of two, are never of
\* one file, so no save is overwritten by that of another buffer (tabs.rs,
\* open_path); and no tab on screen keeps a write under unsaved work to itself
\* (background.rs, warn_if_changed_on_disk).
THEOREM TabsStaySound == Spec => []TabsSound
<1>1. TabsInv => TabsSound
  <2> SUFFICES ASSUME TabsInv PROVE TabsSound
    OBVIOUS
  <2>1. OneTabPerFile
    <3> SUFFICES ASSUME NEW t \in AllTabs, NEW u \in AllTabs,
                        t.file = u.file, t.file \in Files
                 PROVE  t = u
      BY DEF OneTabPerFile
    <3>1. PICK i \in DOMAIN panes : \E j \in DOMAIN panes[i].tabs : t = panes[i].tabs[j]
      BY TabsAre DEF AllTabs
    <3>2. PICK k \in DOMAIN panes : \E l \in DOMAIN panes[k].tabs : u = panes[k].tabs[l]
      BY TabsAre DEF AllTabs
    <3> QED BY <3>1, <3>2 DEF TabsInv, FilesApart
  <2> QED BY <2>1 DEF TabsInv, Typed, TabsSound
<1> QED BY <1>1, TabsInvAlways, PTL

(***************************************************************************)
(* What a step throws away.                                                *)
(***************************************************************************)
\* Unsaved work in `q` is, whatever its place and however it changed, in `p`.
Holds(p, q) ==
    \A j \in DOMAIN q.tabs : q.tabs[j].dirty =>
        \E l \in DOMAIN p.tabs : p.tabs[l].key = q.tabs[j].key

\* No pane goes, and none loses unsaved work.
NothingGone ==
    \A m \in DOMAIN panes : m \in DOMAIN panes' /\ Holds(panes'[m], panes[m])

LEMMA NothingDiscarded ==
    ASSUME NothingGone
    PROVE  ClosingAsks
<1> SUFFICES ASSUME NEW t \in Discarded PROVE FALSE
  BY DEF ClosingAsks
<1>1. t \in AllTabs /\ t.dirty /\ \A u \in TabsOf(panes') : u.key # t.key
  BY DEF Discarded
<1>2. PICK m \in DOMAIN panes : \E j \in DOMAIN panes[m].tabs : t = panes[m].tabs[j]
  BY <1>1, TabsAre DEF AllTabs
<1>3. m \in DOMAIN panes' /\ \E l \in DOMAIN panes'[m].tabs : panes'[m].tabs[l].key = t.key
  BY <1>1, <1>2 DEF NothingGone, Holds
<1>4. PICK l \in DOMAIN panes'[m].tabs : panes'[m].tabs[l].key = t.key
  BY <1>3
<1>5. panes'[m].tabs[l] \in TabsOf(panes')
  BY <1>3, <1>4, TabsAre
<1> QED BY <1>1, <1>4, <1>5

LEMMA OnePaneHolds ==
    ASSUME TabsInv, NEW i \in DOMAIN panes, NEW p, Holds(p, panes[i]),
           panes' = [panes EXCEPT ![i] = p]
    PROVE  NothingGone
<1>1. /\ DOMAIN panes' = DOMAIN panes /\ panes'[i] = p
      /\ \A m \in DOMAIN panes : m # i => panes'[m] = panes[m]
  BY TypesOfOne DEF TabsInv
<1> QED BY <1>1 DEF NothingGone, Holds

LEMMA SettledHolds ==
    ASSUME TabsInv, NEW i \in DOMAIN panes, NEW p, IsPane(p), Holds(p, panes[i]),
           panes' = [panes EXCEPT ![i] = Settled(p)]
    PROVE  NothingGone
<1> PICK q : q = Settled(p)
  OBVIOUS
<1>1. /\ DOMAIN q.tabs = DOMAIN p.tabs
      /\ \A j \in DOMAIN p.tabs : q.tabs[j].key = p.tabs[j].key
  BY SettledIs
<1>2. Holds(q, panes[i])
  BY <1>1 DEF Holds
<1> QED BY <1>2, OnePaneHolds

LEMMA GoToHolds ==
    ASSUME TabsInv, NEW i \in DOMAIN panes, GoTo(i)
    PROVE  NothingGone
<1>1. IsPane(panes[i]) /\ Holds(panes[i], panes[i])
  BY TypesOfOne DEF TabsInv, Holds
<1>2. panes' = [panes EXCEPT ![i] = Settled(panes[i])]
  BY DEF GoTo
<1> QED BY <1>1, <1>2, SettledHolds

LEMMA OtherTabHolds ==
    ASSUME TabsInv, NEW i \in DOMAIN panes, NEW j \in DOMAIN panes[i].tabs,
           Settle(i, [panes[i] EXCEPT !.active = j])
    PROVE  NothingGone
<1> PICK p : p = [panes[i] EXCEPT !.active = j]
  OBVIOUS
<1>1. IsPane(p) /\ p.tabs = panes[i].tabs
  BY OtherTab
<1>2. Holds(p, panes[i])
  BY <1>1 DEF Holds
<1>3. panes' = [panes EXCEPT ![i] = Settled(p)]
  BY DEF Settle
<1> QED BY <1>1, <1>2, <1>3, SettledHolds

LEMMA OpenHolds ==
    ASSUME TabsInv, NEW file \in Files, Open(file)
    PROVE  NothingGone
<1>0. /\ Typed /\ pane \in DOMAIN panes
      /\ file \in Files \cup {Untitled} /\ IsPane(panes[pane])
  BY TypesOfOne DEF TabsInv, Typed, TypeOK
<1>1. CASE IsOpen(file)
  <2>1. PICK at \in Places(file) :
          LET p == panes[at[1]]
          IN  IF p.active = at[2]
              THEN pane' = at[1] /\ UNCHANGED <<panes, recent>>
              ELSE Settle(at[1], [p EXCEPT !.active = at[2]])
    BY <1>1 DEF Open
  <2>2. at[1] \in DOMAIN panes /\ at[2] \in DOMAIN panes[at[1]].tabs
    BY PlacesAre
  <2>3. CASE panes' = panes
    BY <2>3 DEF NothingGone, Holds
  <2>4. CASE Settle(at[1], [panes[at[1]] EXCEPT !.active = at[2]])
    BY <2>2, <2>4, OtherTabHolds
  <2> QED BY <2>1, <2>3, <2>4
<1>2. CASE ~IsOpen(file)
  <2> DEFINE q == panes[pane]
  <2>0. Current = q /\ DOMAIN q.tabs = 1..Len(q.tabs) /\ q.active \in 1..Len(q.tabs)
    BY <1>0, TabsOfPane DEF Current
  <2>1. CASE Len(q.tabs) = 1 /\ q.tabs[1].file = Untitled /\ ~q.tabs[1].dirty
    <3> PICK p : p = [q EXCEPT !.tabs = <<NewTab(file)>>]
      OBVIOUS
    <3>1. Settle(pane, p)
      BY <1>2, <2>0, <2>1 DEF Open
    <3>2. q.active = 1 /\ DOMAIN q.tabs = {1}
      BY <2>0, <2>1
    <3>3. IsPane(p)
      BY <1>0, <1>2, <3>2, LoneNewTab
    <3>4. Holds(p, q)
      BY <2>1, <3>2 DEF Holds
    <3>5. panes' = [panes EXCEPT ![pane] = Settled(p)]
      BY <3>1 DEF Settle
    <3> QED BY <1>0, <3>3, <3>4, <3>5, SettledHolds
  <2>2. CASE ~(Len(q.tabs) = 1 /\ q.tabs[1].file = Untitled /\ ~q.tabs[1].dirty)
    <3> DEFINE t == NewTab(file)
    <3> PICK p : p = [q EXCEPT !.tabs = Append(@, t), !.active = Len(q.tabs) + 1]
      OBVIOUS
    <3>1. HasRoom /\ Settle(pane, p)
      BY <1>2, <2>0, <2>2 DEF Open
    <3>2. t \in Tab /\ New(t)
      BY <1>0, <1>2, NewTabIs
    <3>3. q \in Pane /\ Len(q.tabs) \in Nat
      BY <1>0 DEF IsPane, Pane
    <3> HIDE DEF t
    <3>4. /\ p \in Pane /\ p.tabs = Append(q.tabs, t) /\ p.active = Len(q.tabs) + 1
          /\ p.id = q.id
      BY <3>2, <3>3, PaneWithMore
    <3>5. p.active \in 1..Len(panes[pane].tabs) + 1
      BY <3>3, <3>4
    <3>6. IsPane(p) /\ Keeps(p, panes[pane])
      BY <1>0, <3>1, <3>2, <3>4, <3>5, OneMoreTab
    <3>7. Holds(p, q)
      BY <3>6 DEF Holds, Keeps
    <3>8. panes' = [panes EXCEPT ![pane] = Settled(p)]
      BY <3>1 DEF Settle
    <3> QED BY <1>0, <3>6, <3>7, <3>8, SettledHolds
  <2> QED BY <2>1, <2>2
<1> QED BY <1>1, <1>2

\* One tab changes and keeps its key.
LEMMA OneTabHolds ==
    ASSUME TabsInv, NEW i \in DOMAIN panes, NEW j \in DOMAIN panes[i].tabs,
           NEW t, t.key = panes[i].tabs[j].key,
           panes' = [panes EXCEPT ![i].tabs[j] = t]
    PROVE  NothingGone
<1> PICK q : q = panes[i]
  OBVIOUS
<1> PICK p : p = [q EXCEPT !.tabs[j] = t]
  OBVIOUS
<1>1. q \in Pane /\ q.tabs \in Seq(Tab)
  BY TypesOfOne DEF TabsInv, IsPane, Pane
<1>2. /\ DOMAIN p.tabs = DOMAIN q.tabs /\ p.tabs[j] = t
      /\ \A l \in DOMAIN q.tabs : l # j => p.tabs[l] = q.tabs[l]
  BY ONLY <1>1, p = [q EXCEPT !.tabs[j] = t], j \in DOMAIN panes[i].tabs,
          q = panes[i] DEF Pane
<1>3. Holds(p, q)
  BY <1>2 DEF Holds
<1>4. panes' = [panes EXCEPT ![i] = p]
  OBVIOUS
<1> QED BY ONLY TabsInv, i \in DOMAIN panes, q = panes[i], <1>3, <1>4, OnePaneHolds

LEMMA SetDirtyHolds ==
    ASSUME TabsInv, NEW i \in DOMAIN panes, NEW j \in DOMAIN panes[i].tabs,
           NEW dirty, SetDirty(i, j, dirty)
    PROVE  NothingGone
<1> PICK u : u = panes[i].tabs[j]
  OBVIOUS
<1> PICK t : t = [u EXCEPT !.dirty = dirty]
  OBVIOUS
<1>1. u \in Tab
  BY TypesOfOne, TabsOfPane DEF TabsInv
<1>2. t.key = u.key
  BY <1>1 DEF Tab
<1>3. panes' = [panes EXCEPT ![i].tabs[j] = t]
  BY DEF SetDirty
<1>4. t.key = panes[i].tabs[j].key
  BY <1>2
<1> QED BY ONLY TabsInv, i \in DOMAIN panes, j \in DOMAIN panes[i].tabs, <1>3, <1>4,
              OneTabHolds

\* The pane at `i` becomes `p`, which has all its tabs but that at `j`.
Closes(i, j, p) ==
    /\ panes' = [panes EXCEPT ![i] = p]
    /\ \A k \in DOMAIN panes[i].tabs : k # j =>
          \E l \in DOMAIN p.tabs : p.tabs[l].key = panes[i].tabs[k].key

\* A tab that is closed with unsaved work is the one asked about, or is in
\* another pane than that one.
LEMMA RequestCloseTabAsks ==
    ASSUME TabsInv, NEW i \in DOMAIN panes, NEW j \in DOMAIN panes[i].tabs,
           RequestCloseTab(i, j)
    PROVE  ClosingAsks
<1> PICK q : q = panes[i]
  OBVIOUS
<1>0. /\ IsPane(q) /\ q.tabs \in Seq(Tab) /\ Len(q.tabs) \in Nat \ {0}
      /\ DOMAIN q.tabs = 1..Len(q.tabs) /\ q.active \in 1..Len(q.tabs)
      /\ q \in Pane /\ Untitled \in Files \cup {Untitled} /\ j \in DOMAIN q.tabs
  BY TypesOfOne, TabsOfPane DEF TabsInv, IsPane, Pane
<1>1. CASE q.tabs[j].dirty /\ closePending # j
  BY <1>1, GoToHolds, NothingDiscarded DEF RequestCloseTab
<1>2. CASE ~(q.tabs[j].dirty /\ closePending # j)
  <2>1. CloseTab(i, j)
    BY <1>2 DEF RequestCloseTab
  <2>2. \E p : Closes(i, j, p)
    <3>1. CASE Len(q.tabs) = 1
      <4>1. panes' = [panes EXCEPT ![i] = Settled([q EXCEPT !.tabs = <<NewTab(Untitled)>>])]
        BY <2>1, <3>1 DEF CloseTab, Settle
      <4>2. \A k \in DOMAIN q.tabs : k = j
        BY <1>0, <3>1
      <4>3. Closes(i, j, Settled([q EXCEPT !.tabs = <<NewTab(Untitled)>>]))
        BY <4>1, <4>2 DEF Closes
      <4> QED BY <4>3
    <3>2. CASE Len(q.tabs) # 1
      <4> PICK left : left = RemoveAt(q.tabs, j)
        OBVIOUS
      <4>1. /\ DOMAIN left = 1..(Len(q.tabs) - 1) /\ left \in Seq(Tab)
            /\ Len(left) = Len(q.tabs) - 1
            /\ \A k \in 1..(Len(q.tabs) - 1) :
                  left[k] = IF k < j THEN q.tabs[k] ELSE q.tabs[k + 1]
        BY <1>0, RemovedLeaves
      <4>2. \A k \in DOMAIN q.tabs : k # j =>
                \E l \in DOMAIN left : left[l].key = q.tabs[k].key
        <5> SUFFICES ASSUME NEW k \in DOMAIN q.tabs, k # j
                     PROVE  \E l \in DOMAIN left : left[l].key = q.tabs[k].key
          OBVIOUS
        <5> PICK N : N = Len(q.tabs)
          OBVIOUS
        <5>1. N \in Nat /\ k \in 1..N /\ j \in 1..N /\ DOMAIN left = 1..(N - 1)
          BY <1>0, <4>1
        <5>2. CASE k < j
          <6>1. k \in DOMAIN left
            BY ONLY <5>1, <5>2
          <6>2. left[k] = q.tabs[k]
            BY <4>1, <5>2, <6>1
          <6> QED BY <6>1, <6>2
        <5>3. CASE ~(k < j)
          <6>1. k - 1 \in DOMAIN left /\ ~(k - 1 < j) /\ (k - 1) + 1 = k
            BY ONLY <5>1, <5>3, k # j
          <6>2. left[k - 1] = q.tabs[k]
            BY <4>1, <6>1
          <6> QED BY <6>1, <6>2
        <5> QED BY <5>2, <5>3
      <4>3. CASE j # q.active
        <5> PICK p : p = Without(q, j, ActiveAfter(q, j))
          OBVIOUS
        <5>1. panes' = [panes EXCEPT ![i] = p]
          BY <2>1, <3>2, <4>3 DEF CloseTab, Without
        <5>2. p.tabs = left
          BY <1>0 DEF Without, Pane
        <5>3. \A k \in DOMAIN q.tabs : k # j =>
                  \E l \in DOMAIN p.tabs : p.tabs[l].key = q.tabs[k].key
          BY ONLY <4>2, <5>2
        <5>4. Closes(i, j, p)
          BY <5>1, <5>3 DEF Closes
        <5> QED BY <5>4
      <4>4. CASE j = q.active
        <5> PICK n : n = MostRecent(left)
          OBVIOUS
        <5> PICK p : p = Without(q, j, n)
          OBVIOUS
        <5>1. panes' = [panes EXCEPT ![i] = Settled(p)]
          BY <2>1, <3>2, <4>4 DEF CloseTab, Settle, Without
        <5>2. n \in DOMAIN left
          <6> PICK N : N = Len(q.tabs)
            OBVIOUS
          <6>1. N \in Nat \ {0} /\ N # 1 /\ Len(left) = N - 1 /\ left \in Seq(Tab)
            BY <1>0, <3>2, <4>1
          <6>2. Len(left) > 0
            BY ONLY <6>1
          <6>3. MostRecent(left) \in DOMAIN left
            BY ONLY TabsInv, <6>1, <6>2, MostRecentThere
          <6> QED BY <6>3
        <5>3. IsPane(p) /\ p.tabs = left
          <6>1. n \in DOMAIN RemoveAt(panes[i].tabs, j)
            BY <5>2
          <6> QED BY <6>1, TabLeaves
        <5>4. /\ DOMAIN Settled(p).tabs = DOMAIN left
              /\ \A l \in DOMAIN left : Settled(p).tabs[l].key = left[l].key
          BY <5>3, SettledIs
        <5>5. \A k \in DOMAIN q.tabs : k # j =>
                  \E l \in DOMAIN Settled(p).tabs : Settled(p).tabs[l].key = q.tabs[k].key
          BY ONLY <4>2, <5>4
        <5>6. Closes(i, j, Settled(p))
          BY <5>1, <5>5 DEF Closes
        <5> QED BY <5>6
      <4> QED BY <4>3, <4>4
    <3> QED BY <3>1, <3>2
  <2> PICK p : Closes(i, j, p)
    BY <2>2
  <2>3. /\ panes' = [panes EXCEPT ![i] = p]
        /\ \A k \in DOMAIN q.tabs : k # j =>
              \E l \in DOMAIN p.tabs : p.tabs[l].key = q.tabs[k].key
    BY DEF Closes
  <2>4. CASE ~q.tabs[j].dirty
    <3>1. Holds(p, q)
      BY <2>3, <2>4 DEF Holds
    <3>2. NothingGone
      BY <2>3, <3>1, OnePaneHolds
    <3> QED BY <3>2, NothingDiscarded
  <2>5. CASE q.tabs[j].dirty
    <3>1. closePending = j /\ j # NoIndex
      BY <1>0, <1>2, <2>5 DEF NoIndex
    <3>2. /\ asked.within # NoPane
          /\ q.id = asked.within => q.tabs[j].key = asked.tab
      BY <3>1 DEF TabsInv, AskedTab
    <3>3. ASSUME NEW t \in Discarded PROVE t = q.tabs[j]
      <4>1. t \in AllTabs /\ t.dirty /\ \A u \in TabsOf(panes') : u.key # t.key
        BY DEF Discarded
      <4>2. PICK m \in DOMAIN panes : \E l \in DOMAIN panes[m].tabs : t = panes[m].tabs[l]
        BY <4>1, TabsAre DEF AllTabs
      <4>3. /\ DOMAIN panes' = DOMAIN panes /\ panes'[i] = p
            /\ \A n \in DOMAIN panes : n # i => panes'[n] = panes[n]
        BY <2>3, TypesOfOne DEF TabsInv
      <4>4. \A n \in DOMAIN panes' : \A l \in DOMAIN panes'[n].tabs :
                panes'[n].tabs[l].key # t.key
        BY <4>1, TabsAre
      <4>5. m = i
        BY <4>2, <4>3, <4>4
      <4> QED BY <2>3, <4>2, <4>3, <4>4, <4>5
    <3>4. q \in Range(panes) /\ q.tabs[j] \in Range(q.tabs)
      BY <1>0 DEF Range
    <3> QED BY <3>2, <3>3, <3>4 DEF ClosingAsks
  <2> QED BY <2>4, <2>5
<1> QED BY <1>1, <1>2

LEMMA ClosePaneAsks ==
    ASSUME TabsInv, ClosePane
    PROVE  ClosingAsks
<1>0. Len(panes) > 1 /\ pane \in DOMAIN panes /\ closePanePending = asked.pane
  BY DEF ClosePane, TabsInv, Typed, TypeOK, AskedPane
<1>1. CASE panes' = panes
  BY <1>1, NothingDiscarded DEF NothingGone, Holds
<1>2. CASE panes' # panes
  <2>1. PICK next \in 1..(Len(panes) - 1) :
            panes' = [RemoveAt(panes, pane) EXCEPT ![next] = Settled(@)]
    BY <1>2 DEF ClosePane
  <2>2. \/ Range(Current.tabs) \cap {t \in AllTabs : t.dirty} = {}
        \/ closePanePending = Current.id
    BY <1>2 DEF ClosePane
  <2> PICK ps : ps = panes'
    OBVIOUS
  <2> PICK N : N = Len(panes)
    OBVIOUS
  <2>3. AllBut(pane, ps)
    <3>1. ps = [RemoveAt(panes, pane) EXCEPT ![next] = Settled(@)]
      BY <2>1
    <3> QED BY ONLY TabsInv, <1>0, <3>1, next \in 1..(Len(panes) - 1), PaneLeaves
  <2>4. N \in Nat /\ DOMAIN panes = 1..N /\ pane \in 1..N
    BY <1>0, TypesOfOne DEF TabsInv
  <2>5. Len(ps) < N
    <3>1. DOMAIN ps = 1..(N - 1) /\ ps \in Seq(Pane)
      BY <2>3 DEF AllBut
    <3>2. Len(ps) = N - 1
      BY <1>0, <2>4, <3>1
    <3> QED BY ONLY <2>4, <3>2
  <2>6. ASSUME NEW t \in Discarded
        PROVE  t \in Range(Current.tabs) /\ t \in AllTabs /\ t.dirty
    <3>1. t \in AllTabs /\ t.dirty /\ \A u \in TabsOf(ps) : u.key # t.key
      BY DEF Discarded
    <3>2. PICK m \in DOMAIN panes : \E j \in DOMAIN panes[m].tabs : t = panes[m].tabs[j]
      BY <3>1, TabsAre DEF AllTabs
    <3>3. PICK j \in DOMAIN panes[m].tabs : t = panes[m].tabs[j]
      BY <3>2
    <3>4. m = pane
      <4>1. SUFFICES ASSUME m # pane PROVE FALSE
        OBVIOUS
      <4> DEFINE n == IF m < pane THEN m ELSE m - 1
      <4>2. n \in 1..(N - 1) /\ m = IF n < pane THEN n ELSE n + 1
        BY ONLY <2>4, <4>1, m \in DOMAIN panes
      <4> HIDE DEF n
      <4>3. /\ n \in DOMAIN ps /\ DOMAIN ps[n].tabs = DOMAIN panes[m].tabs
            /\ \A l \in DOMAIN panes[m].tabs : ps[n].tabs[l].key = panes[m].tabs[l].key
        BY ONLY <2>3, <4>2, N = Len(panes) DEF AllBut
      <4>4. ps[n].tabs[j] \in TabsOf(ps)
        BY <3>3, <4>3, TabsAre
      <4> QED BY <3>1, <3>3, <4>3, <4>4
    <3> QED BY <3>1, <3>3, <3>4 DEF Current, Range
  <2>7. Current \in Range(panes)
    BY <1>0 DEF Current, Range
  <2> QED BY <1>0, <2>2, <2>5, <2>6, <2>7 DEF ClosingAsks
<1> QED BY <1>1, <1>2

LEMMA NextClosingAsks == TabsInv /\ [Next]_vars => ClosingAsks
<1> SUFFICES ASSUME TabsInv, [Next]_vars PROVE ClosingAsks
  OBVIOUS
<1>0. pane \in DOMAIN panes /\ Current = panes[pane] /\ IsPane(panes[pane])
  BY TypesOfOne DEF TabsInv, Typed, TypeOK, Current
<1>1. ASSUME NEW file \in Files, OpenFile(file) \/ AnswerOpens(file)
      PROVE  NothingGone
  BY <1>1, OpenHolds DEF OpenFile, AnswerOpens
<1>2. ASSUME NEW file \in Files, ServerEdits(file) PROVE NothingGone
  <2>1. CASE IsOpen(file)
    <3>1. PICK at \in Places(file) : SetDirty(at[1], at[2], TRUE)
      BY <1>2, <2>1 DEF ServerEdits
    <3>2. at[1] \in DOMAIN panes /\ at[2] \in DOMAIN panes[at[1]].tabs
      BY PlacesAre
    <3> QED BY <3>1, <3>2, SetDirtyHolds
  <2>2. CASE ~IsOpen(file)
    <3> PICK q : q = panes[pane]
      OBVIOUS
    <3> PICK t : t = [NewTab(file) EXCEPT !.dirty = TRUE]
      OBVIOUS
    <3> PICK p : p = [q EXCEPT !.tabs = Append(@, t)]
      OBVIOUS
    <3>1. panes' = [panes EXCEPT ![pane] = p]
      BY <1>2, <2>2 DEF ServerEdits
    <3>2. q \in Pane /\ q.tabs \in Seq(Tab)
      BY <1>0 DEF IsPane, Pane
    <3>3. p.tabs = Append(q.tabs, t)
      BY <3>2 DEF Pane
    <3>4. Holds(p, q)
      <4>1. \A l \in DOMAIN q.tabs : l \in DOMAIN p.tabs /\ p.tabs[l] = q.tabs[l]
        BY ONLY <3>2, <3>3
      <4> QED BY <4>1 DEF Holds
    <3> QED BY <1>0, <3>1, <3>4, OnePaneHolds
  <2> QED BY <2>1, <2>2
<1>3. ASSUME NEW file \in Files, OutsideWrite(file) PROVE NothingGone
  <2>1. PICK at \in Places(file) :
            panes' = [panes EXCEPT ![at[1]].tabs[at[2]].changed =
                          at[2] # panes[at[1]].active]
    BY <1>3 DEF OutsideWrite
  <2> PICK i, j : i = at[1] /\ j = at[2]
    OBVIOUS
  <2>2. i \in DOMAIN panes /\ j \in DOMAIN panes[i].tabs
    BY PlacesAre
  <2> PICK u : u = panes[i].tabs[j]
    OBVIOUS
  <2> PICK t : t = [u EXCEPT !.changed = (j # panes[i].active)]
    OBVIOUS
  <2>3. u \in Tab
    BY <2>2, TypesOfOne, TabsOfPane DEF TabsInv
  <2>4. t.key = u.key
    BY <2>3 DEF Tab
  <2>5. panes' = [panes EXCEPT ![i].tabs[j] = t]
    BY <2>1
  <2>6. t.key = panes[i].tabs[j].key
    BY <2>4
  <2> QED BY ONLY TabsInv, <2>2, <2>5, <2>6, OneTabHolds
<1>4. ASSUME NEW i, ActivateTab(i) PROVE NothingGone
  BY <1>0, <1>4, OtherTabHolds DEF ActivateTab
<1>5. ASSUME NEW i, SwitchPane(i) \/ SwitchPaneQuietly(i) PROVE NothingGone
  BY <1>5, GoToHolds DEF SwitchPane, SwitchPaneQuietly
<1>6. CASE Split
  <2>1. PICK p : panes' = Append(panes, p)
    BY <1>6 DEF Split
  <2>2. panes \in Seq(Pane)
    BY DEF TabsInv, Typed
  <2>3. \A m \in DOMAIN panes : m \in DOMAIN panes' /\ panes'[m] = panes[m]
    BY <2>1, <2>2
  <2>4. NothingGone
    BY <2>3 DEF NothingGone, Holds
  <2> QED BY <2>4, NothingDiscarded
<1>7. CASE ChangeShown
  <2>1. Current.active \in DOMAIN panes[pane].tabs
    BY <1>0 DEF IsPane
  <2>2. NothingGone
    BY <1>0, <1>7, <2>1, SetDirtyHolds DEF ChangeShown
  <2> QED BY <2>2, NothingDiscarded
<1>8. CASE CloseShown
  <2>1. Current.active \in DOMAIN panes[pane].tabs
    BY <1>0 DEF IsPane
  <2> QED BY <1>0, <1>8, <2>1, RequestCloseTabAsks DEF CloseShown
<1>9. ASSUME NEW i, NEW j, PressCloseBox(i, j) PROVE ClosingAsks
  BY <1>9, RequestCloseTabAsks DEF PressCloseBox
<1>10. CASE ClosePane
  BY <1>10, ClosePaneAsks
<1>11. CASE panes' = panes
  BY <1>11, NothingDiscarded DEF NothingGone, Holds
<1>12. CASE Restart
  BY <1>12 DEF Restart, ClosingAsks
<1>13. Quit \/ UNCHANGED vars => panes' = panes
  BY DEF Quit, vars
<1> QED BY <1>1, <1>2, <1>3, <1>4, <1>5, <1>6, <1>7, <1>8, <1>9, <1>10, <1>11,
          <1>12, <1>13, NothingDiscarded DEF Next, Work

LEMMA NextQuitAsks == TabsInv /\ [Next]_vars => QuitAsks \/ UNCHANGED vars
<1> SUFFICES ASSUME TabsInv, Next, quit', \E t \in AllTabs : t.dirty
             PROVE  quitPending
  BY DEF QuitAsks
<1>1. ~Restart
  BY DEF Restart
<1>2. Work /\ ~quit
  BY <1>1 DEF Next, Work
<1>3. CASE Quit
  BY <1>2, <1>3 DEF Quit, QuitBlocked
<1>4. CASE quit' = quit
  BY <1>2, <1>4
<1>5. ASSUME NEW i, NEW j, RequestCloseTab(i, j) PROVE quit' = quit
  BY <1>5 DEF RequestCloseTab, GoTo
<1>6. Quit \/ quit' = quit
  BY <1>2, <1>5 DEF Work, OpenFile, AnswerOpens, ServerEdits, OutsideWrite,
     ActivateTab, SwitchPane, SwitchPaneQuietly, GoTo, Split, ChangeShown,
     CloseShown, PressCloseBox, ClosePane
<1> QED BY <1>3, <1>4, <1>6

\* Unsaved work is thrown away only by what was asked about: a tab by the
\* second close of the tab that was refused, or of one in another pane (see the
\* README), a pane by the second close of that pane, and all of it by the
\* second quit (tabs.rs, request_close_tab; typ-app, request_quit).
THEOREM WorkGoesWhenAsked == Spec => [][ClosingAsks /\ QuitAsks]_vars
<1>1. TabsInv /\ [Next]_vars => [ClosingAsks /\ QuitAsks]_vars
  BY NextClosingAsks, NextQuitAsks
<1> QED BY <1>1, TabsInvAlways, PTL DEF Spec

-----------------------------------------------------------------------------
(***************************************************************************)
(* Focus: the interface, as a value, and the regions of it.                *)
(***************************************************************************)
PaneIds == 0..(WayPanes - 1)
Interfaces ==
    [focus : Way!Focus, pane : PaneIds, panes : Seq(PaneIds), nextPane : 1..WayPanes,
     cameFrom : Seq(Way!Places), dockOpen : BOOLEAN, dockZoomed : BOOLEAN,
     bottomOpen : BOOLEAN, zoomedPane : {Way!NoPane} \cup PaneIds, preset : Way!Preset,
     adapt : BOOLEAN, chosen : BOOLEAN]

\* Panes are numbered as they come, each is there once, and one is current.
PanesFit(u) ==
    /\ Way!IsInjective(u.panes)
    /\ u.pane \in Way!Panes(u)
    /\ \A id \in Way!Panes(u) : id < u.nextPane

\* The way back leads to what is there.
WayLeads(u) == \A n \in DOMAIN u.cameFrom : Way!IsThere(u, u.cameFrom[n])

\* A region with the keys is open.
KeysHaveRoom(u) ==
    /\ u.focus = "Tree" => u.dockOpen
    /\ u.focus = "BottomDock" => u.bottomOpen

Formed(u) == u \in Interfaces /\ PanesFit(u) /\ Len(u.cameFrom) <= StackDepth
FocusFits(u) == Formed(u) /\ WayLeads(u) /\ KeysHaveRoom(u)

\* The same regions are there.
SameRegions(u, v) ==
    /\ v.panes = u.panes /\ v.nextPane = u.nextPane
    /\ v.dockOpen = u.dockOpen /\ v.bottomOpen = u.bottomOpen

LEMMA PlacesApart ==
    /\ Way!Dock # Way!Bottom /\ Way!Dock # Way!StatusBar /\ Way!Bottom # Way!StatusBar
    /\ \A id : /\ Way!PaneAt(id) # Way!Dock /\ Way!PaneAt(id) # Way!Bottom
               /\ Way!PaneAt(id) # Way!StatusBar
               /\ (Way!PaneAt(id)).at = "Editor" /\ (Way!PaneAt(id)).pane = id
    /\ (Way!Dock).at = "Tree" /\ (Way!Bottom).at = "BottomDock" /\ (Way!StatusBar).at = "Status"
    /\ \A id, other : Way!PaneAt(id) = Way!PaneAt(other) => id = other
<1>1. /\ (Way!Dock).at = "Tree" /\ (Way!Bottom).at = "BottomDock"
      /\ (Way!StatusBar).at = "Status"
  BY DEF Way!Dock, Way!Bottom, Way!StatusBar
<1>2. \A id : (Way!PaneAt(id)).at = "Editor" /\ (Way!PaneAt(id)).pane = id
  BY DEF Way!PaneAt
<1> QED BY <1>1, <1>2

\* A place is a dock, the status bar or a pane.
LEMMA PlaceIsOf ==
    /\ Way!Dock \in Way!Places /\ Way!Bottom \in Way!Places /\ Way!StatusBar \in Way!Places
    /\ \A id \in PaneIds : Way!PaneAt(id) \in Way!Places
    /\ \A place \in Way!Places :
          \/ place \in {Way!Dock, Way!Bottom, Way!StatusBar}
          \/ \E id \in PaneIds : place = Way!PaneAt(id)
  BY DEF Way!Places, PaneIds

LEMMA ThereIs ==
    ASSUME NEW u
    PROVE  /\ Way!IsThere(u, Way!Dock) = u.dockOpen
           /\ Way!IsThere(u, Way!Bottom) = u.bottomOpen
           /\ Way!IsThere(u, Way!StatusBar)
           /\ \A id : Way!IsThere(u, Way!PaneAt(id)) <=> id \in Way!Panes(u)
<1>1. Way!IsThere(u, Way!Dock) = u.dockOpen
  BY PlacesApart DEF Way!IsThere
<1>2. Way!IsThere(u, Way!Bottom) = u.bottomOpen
  BY PlacesApart DEF Way!IsThere
<1>3. Way!IsThere(u, Way!StatusBar)
  BY PlacesApart DEF Way!IsThere
<1>4. ASSUME NEW id PROVE Way!IsThere(u, Way!PaneAt(id)) <=> id \in Way!Panes(u)
  <2>1. /\ Way!PaneAt(id) # Way!Dock /\ Way!PaneAt(id) # Way!Bottom
        /\ Way!PaneAt(id) # Way!StatusBar /\ (Way!PaneAt(id)).pane = id
    BY PlacesApart
  <2> QED BY <2>1 DEF Way!IsThere
<1> QED BY <1>1, <1>2, <1>3, <1>4

\* What is there depends on the regions alone.
LEMMA ThereToo ==
    ASSUME NEW u, NEW v, SameRegions(u, v), NEW place \in Way!Places, Way!IsThere(u, place)
    PROVE  Way!IsThere(v, place)
<1>1. Way!Panes(u) = Way!Panes(v)
  BY DEF SameRegions, Way!Panes
<1>2. CASE place = Way!Dock
  BY <1>2, ThereIs DEF SameRegions
<1>3. CASE place = Way!Bottom
  BY <1>3, ThereIs DEF SameRegions
<1>4. CASE place = Way!StatusBar
  BY <1>4, ThereIs
<1>5. CASE \E id \in PaneIds : place = Way!PaneAt(id)
  BY <1>1, <1>5, ThereIs
<1> QED BY <1>2, <1>3, <1>4, <1>5, PlaceIsOf

LEMMA HereIs ==
    ASSUME NEW u, u.focus \in Way!Focus
    PROVE  /\ u.focus = "Editor" => Way!Here(u) = Way!PaneAt(u.pane)
           /\ u.focus = "Tree" => Way!Here(u) = Way!Dock
           /\ u.focus = "BottomDock" => Way!Here(u) = Way!Bottom
           /\ u.focus = "Status" => Way!Here(u) = Way!StatusBar
           /\ u.focus \in {"Editor", "Tree", "BottomDock", "Status"}
           /\ (Way!Here(u)).at = u.focus
<1>1. u.focus \in {"Editor", "Tree", "BottomDock", "Status"}
  BY DEF Way!Focus
<1>2. /\ u.focus = "Editor" => Way!Here(u) = Way!PaneAt(u.pane)
      /\ u.focus = "Tree" => Way!Here(u) = Way!Dock
      /\ u.focus = "BottomDock" => Way!Here(u) = Way!Bottom
      /\ u.focus = "Status" => Way!Here(u) = Way!StatusBar
  BY DEF Way!Here, Way!Dock, Way!Bottom, Way!StatusBar
<1> QED BY <1>1, <1>2, PlacesApart

\* Where the keys are is a place, and there.
LEMMA HereIsThere ==
    ASSUME NEW u, Formed(u)
    PROVE  /\ Way!Here(u) \in Way!Places
           /\ KeysHaveRoom(u) => Way!IsThere(u, Way!Here(u))
<1>1. u.focus \in Way!Focus /\ u.pane \in PaneIds
  BY DEF Formed, Interfaces
<1>2. u.pane \in Way!Panes(u)
  BY DEF Formed, PanesFit
<1>3. CASE u.focus = "Editor"
  BY <1>1, <1>2, <1>3, HereIs, PlaceIsOf, ThereIs
<1>4. CASE u.focus = "Tree"
  BY <1>1, <1>4, HereIs, PlaceIsOf, ThereIs DEF KeysHaveRoom
<1>5. CASE u.focus = "BottomDock"
  BY <1>1, <1>5, HereIs, PlaceIsOf, ThereIs DEF KeysHaveRoom
<1>6. CASE u.focus = "Status"
  BY <1>1, <1>6, HereIs, PlaceIsOf, ThereIs
<1> QED BY <1>1, <1>3, <1>4, <1>5, <1>6, HereIs

\* What the handlers change of the interface.
LEMMA NewWay ==
    ASSUME NEW u, Formed(u), NEW back \in Seq(Way!Places), Len(back) <= StackDepth,
           NEW v, v = [u EXCEPT !.cameFrom = back]
    PROVE  /\ Formed(v) /\ SameRegions(u, v) /\ v.cameFrom = back
           /\ v.focus = u.focus /\ v.pane = u.pane
<1>1. u \in Interfaces /\ PanesFit(u)
  BY DEF Formed
<1>2. v \in Interfaces /\ v.cameFrom = back
  BY <1>1 DEF Interfaces
<1>3. /\ v.panes = u.panes /\ v.nextPane = u.nextPane
      /\ v.dockOpen = u.dockOpen /\ v.bottomOpen = u.bottomOpen
      /\ v.focus = u.focus /\ v.pane = u.pane
  BY <1>1 DEF Interfaces
<1>4. PanesFit(v)
  BY <1>1, <1>3 DEF PanesFit, Way!Panes
<1> QED BY <1>2, <1>3, <1>4 DEF Formed, SameRegions

WithKeys(u, dock, zoomed, focus) ==
    [u EXCEPT !.dockZoomed = dock, !.zoomedPane = zoomed, !.focus = focus]
WithPane(u, id, zoomed) == [u EXCEPT !.pane = id, !.zoomedPane = zoomed]

LEMMA NewFocus ==
    ASSUME NEW u, Formed(u), NEW focus \in Way!Focus, NEW dock \in BOOLEAN,
           NEW zoomed \in {Way!NoPane} \cup PaneIds,
           NEW v, v = WithKeys(u, dock, zoomed, focus)
    PROVE  /\ Formed(v) /\ SameRegions(u, v) /\ v.cameFrom = u.cameFrom
           /\ v.focus = focus /\ v.pane = u.pane
<1>1. u \in Interfaces /\ PanesFit(u) /\ Len(u.cameFrom) <= StackDepth
  BY DEF Formed
<1>2. v \in Interfaces
  BY <1>1 DEF Interfaces, WithKeys
<1>3. /\ v.panes = u.panes /\ v.nextPane = u.nextPane
      /\ v.dockOpen = u.dockOpen /\ v.bottomOpen = u.bottomOpen
      /\ v.focus = focus /\ v.pane = u.pane /\ v.cameFrom = u.cameFrom
  BY <1>1 DEF Interfaces, WithKeys
<1>4. PanesFit(v)
  BY <1>1, <1>3 DEF PanesFit, Way!Panes
<1> QED BY <1>1, <1>2, <1>3, <1>4 DEF Formed, SameRegions

LEMMA NewPane ==
    ASSUME NEW u, Formed(u), NEW id \in Way!Panes(u), NEW zoomed \in {Way!NoPane} \cup PaneIds,
           NEW v, v = WithPane(u, id, zoomed)
    PROVE  /\ Formed(v) /\ SameRegions(u, v) /\ v.cameFrom = u.cameFrom
           /\ v.focus = u.focus /\ v.pane = id
<1>1. u \in Interfaces /\ PanesFit(u) /\ Len(u.cameFrom) <= StackDepth
  BY DEF Formed
<1>2. id \in PaneIds
  BY <1>1 DEF Interfaces, Way!Panes, Way!Range
<1>3. v \in Interfaces
  BY <1>1, <1>2 DEF Interfaces, WithPane
<1>4. /\ v.panes = u.panes /\ v.nextPane = u.nextPane
      /\ v.dockOpen = u.dockOpen /\ v.bottomOpen = u.bottomOpen
      /\ v.focus = u.focus /\ v.pane = id /\ v.cameFrom = u.cameFrom
  BY <1>1 DEF Interfaces, WithPane
<1>5. PanesFit(v)
  BY <1>1, <1>4 DEF PanesFit, Way!Panes
<1> QED BY <1>1, <1>3, <1>4, <1>5 DEF Formed, SameRegions

\* A way back leads where it did as long as the regions are there.
LEMMA StillLeads ==
    ASSUME NEW u, Formed(u), NEW v, Formed(v), SameRegions(u, v),
           \A n \in DOMAIN v.cameFrom : Way!IsThere(u, v.cameFrom[n])
    PROVE  WayLeads(v)
<1>1. v.cameFrom \in Seq(Way!Places)
  BY DEF Formed, Interfaces
<1>2. ASSUME NEW n \in DOMAIN v.cameFrom PROVE Way!IsThere(v, v.cameFrom[n])
  <2>1. v.cameFrom[n] \in Way!Places
    BY <1>1
  <2> QED BY <2>1, ThereToo
<1> QED BY <1>2 DEF WayLeads

LEMMA RememberIs ==
    ASSUME NEW u, Formed(u), NEW v, v = Way!Remember(u)
    PROVE  /\ Formed(v) /\ SameRegions(u, v)
           /\ v.focus = u.focus /\ v.pane = u.pane
           /\ v.cameFrom # <<>> /\ Way!Last(v.cameFrom) = Way!Here(u)
           /\ \A n \in DOMAIN v.cameFrom :
                 \/ v.cameFrom[n] = Way!Here(u)
                 \/ \E m \in DOMAIN u.cameFrom : v.cameFrom[n] = u.cameFrom[m]
<1>0. StackDepth \in Nat \ {0}
  BY WayAssumption
<1> USE <1>0
<1> PICK here : here = Way!Here(u)
  OBVIOUS
<1> PICK old : old = u.cameFrom
  OBVIOUS
<1>1. here \in Way!Places /\ old \in Seq(Way!Places) /\ Len(old) <= StackDepth
  BY HereIsThere DEF Formed, Interfaces
<1> DEFINE Again == old # <<>> /\ Way!Last(old) = here
           back == IF Again THEN old ELSE Append(old, here)
           kept == IF Len(back) > StackDepth THEN Tail(back) ELSE back
<1>2. v = [u EXCEPT !.cameFrom = kept]
  BY DEF Way!Remember
<1>3. /\ back \in Seq(Way!Places) /\ Len(back) \in 1..(StackDepth + 1) /\ back[Len(back)] = here
      /\ \A n \in 1..Len(back) : back[n] = here \/ \E m \in DOMAIN old : back[n] = old[m]
  <2>1. CASE Again
    <3>1. back = old
      BY <2>1
    <3>2. Len(old) \in Nat /\ Len(old) # 0 /\ old[Len(old)] = here /\ DOMAIN old = 1..Len(old)
      BY <1>1, <2>1, EmptySeq DEF Way!Last
    <3> QED BY <1>1, <3>1, <3>2
  <2>2. CASE ~Again
    <3>1. back = Append(old, here)
      BY <2>2
    <3>2. /\ Append(old, here) \in Seq(Way!Places)
          /\ Len(Append(old, here)) = Len(old) + 1 /\ Len(old) \in Nat
          /\ DOMAIN old = 1..Len(old)
          /\ \A n \in 1..Len(old) : Append(old, here)[n] = old[n]
          /\ Append(old, here)[Len(old) + 1] = here
      BY <1>1
    <3> QED BY <1>1, <3>1, <3>2
  <2> QED BY <2>1, <2>2
<1> HIDE DEF Again, back
<1>4. /\ kept \in Seq(Way!Places) /\ Len(kept) <= StackDepth /\ Len(kept) \in Nat \ {0}
      /\ kept[Len(kept)] = here
      /\ \A n \in 1..Len(kept) : kept[n] = here \/ \E m \in DOMAIN old : kept[n] = old[m]
  <2>1. CASE Len(back) > StackDepth
    <3>1. kept = Tail(back) /\ back # <<>> /\ Len(back) = StackDepth + 1
      BY <1>3, <2>1, EmptySeq
    <3>2. /\ Tail(back) \in Seq(Way!Places) /\ Len(Tail(back)) = Len(back) - 1
          /\ \A n \in 1..Len(Tail(back)) : Tail(back)[n] = back[n + 1]
      BY <1>3, <3>1, HeadTailProperties
    <3>3. Len(kept) = StackDepth
      BY <3>1, <3>2
    <3>4. ASSUME NEW n \in 1..Len(kept)
          PROVE  n + 1 \in 1..Len(back) /\ kept[n] = back[n + 1]
      BY <3>1, <3>2, <3>3
    <3>5. kept[Len(kept)] = here
      BY <1>3, <3>1, <3>3, <3>4
    <3> QED BY <1>3, <3>1, <3>2, <3>3, <3>4, <3>5
  <2>2. CASE ~(Len(back) > StackDepth)
    BY <1>3, <2>2
  <2> QED BY <2>1, <2>2
<1> HIDE DEF kept
<1>5. /\ Formed(v) /\ SameRegions(u, v) /\ v.cameFrom = kept
      /\ v.focus = u.focus /\ v.pane = u.pane
  BY <1>2, <1>4, NewWay
<1>6. kept # <<>> /\ DOMAIN kept = 1..Len(kept)
  BY <1>4, EmptySeq
<1> QED BY <1>4, <1>5, <1>6 DEF Way!Last

\* What a way back keeps without a place: all else, and its last place if it is
\* not that one.
LeftOf(kept, way, place, S) ==
    /\ kept \in Seq(S) /\ Len(kept) <= Len(way)
    /\ \A n \in DOMAIN kept : kept[n] # place /\ \E m \in DOMAIN way : kept[n] = way[m]
    /\ way # <<>> /\ Way!Last(way) # place => kept # <<>> /\ Way!Last(kept) = Way!Last(way)

LEMMA WithoutIs ==
    ASSUME NEW S, NEW way \in Seq(S), NEW place,
           NEW kept, kept = Way!Those(way, Len(way), Way!Range(way) \ {place})
    PROVE  LeftOf(kept, way, place, S)
<1> DEFINE wanted == Way!Range(way) \ {place}
           N == Len(way)
<1>1. kept = Those(way, N, wanted)
  BY DEF Way!Those, Those
<1>2. N \in Nat /\ N \in 0..Len(way) /\ DOMAIN way = 1..N
  OBVIOUS
<1>3. Picked(kept, S, way, N, wanted)
  BY <1>1, <1>2, ThoseAre
<1>4. kept \in Seq(S) /\ Len(kept) <= Len(way)
  BY <1>3 DEF Picked
<1>5. ASSUME NEW n \in DOMAIN kept
      PROVE  kept[n] # place /\ \E m \in DOMAIN way : kept[n] = way[m]
  BY <1>2, <1>3 DEF Picked
<1>6. ASSUME way # <<>>, Way!Last(way) # place  PROVE kept # <<>> /\ Way!Last(kept) = Way!Last(way)
  <2>1. N # 0 /\ N \in Nat \ {0} /\ N \in DOMAIN way
    BY <1>2, <1>6, EmptySeq
  <2>2. way[N] \in wanted
    BY <1>6, <2>1 DEF Way!Last, Way!Range
  <2> PICK before : before = Those(way, N - 1, wanted)
    OBVIOUS
  <2>3. kept = Append(before, way[N])
    BY <1>1, <2>1, <2>2, ThoseByTheLast
  <2>4. before \in Seq(S)
    <3>1. N - 1 \in 0..Len(way)
      BY <2>1
    <3> QED BY <3>1, ThoseAre DEF Picked
  <2>5. way[N] \in S
    BY <2>1
  <2>6. Len(kept) = Len(before) + 1 /\ kept[Len(before) + 1] = way[N] /\ Len(before) \in Nat
    BY <2>3, <2>4, <2>5
  <2> QED BY <1>4, <2>6, EmptySeq DEF Way!Last
<1> QED BY <1>4, <1>5, <1>6 DEF LeftOf

LEMMA ForgetIs ==
    ASSUME NEW u, Formed(u), NEW place, NEW v, v = Way!Forget(u, place)
    PROVE  /\ Formed(v) /\ SameRegions(u, v)
           /\ v.focus = u.focus /\ v.pane = u.pane
           /\ \A n \in DOMAIN v.cameFrom : /\ v.cameFrom[n] # place
                                           /\ \E m \in DOMAIN u.cameFrom : v.cameFrom[n] = u.cameFrom[m]
           /\ u.cameFrom # <<>> /\ Way!Last(u.cameFrom) # place =>
                 v.cameFrom # <<>> /\ Way!Last(v.cameFrom) = Way!Last(u.cameFrom)
<1>0. StackDepth \in Nat \ {0}
  BY WayAssumption
<1> USE <1>0
<1> PICK way : way = u.cameFrom
  OBVIOUS
<1>1. way \in Seq(Way!Places) /\ Len(way) <= StackDepth
  BY DEF Formed, Interfaces
<1> PICK kept : kept = Way!Those(way, Len(way), Way!Range(way) \ {place})
  OBVIOUS
<1>2. LeftOf(kept, way, place, Way!Places)
  BY <1>1, WithoutIs
<1>3. /\ kept \in Seq(Way!Places) /\ Len(kept) <= Len(way)
      /\ \A n \in DOMAIN kept : kept[n] # place /\ \E m \in DOMAIN way : kept[n] = way[m]
      /\ way # <<>> /\ Way!Last(way) # place => kept # <<>> /\ Way!Last(kept) = Way!Last(way)
  BY <1>2 DEF LeftOf
<1>4. Len(kept) <= StackDepth
  <2>1. Len(kept) \in Nat /\ Len(way) \in Nat
    BY <1>1, <1>3
  <2> QED BY <1>1, <1>3, <2>1
<1>5. v = [u EXCEPT !.cameFrom = kept]
  BY DEF Way!Forget
<1>6. /\ Formed(v) /\ SameRegions(u, v) /\ v.cameFrom = kept
      /\ v.focus = u.focus /\ v.pane = u.pane
  BY <1>3, <1>4, <1>5, NewWay
<1>7. /\ \A n \in DOMAIN v.cameFrom : /\ v.cameFrom[n] # place
                                        /\ \E m \in DOMAIN u.cameFrom : v.cameFrom[n] = u.cameFrom[m]
      /\ u.cameFrom # <<>> /\ Way!Last(u.cameFrom) # place =>
            v.cameFrom # <<>> /\ Way!Last(v.cameFrom) = Way!Last(u.cameFrom)
  <2>1. u.cameFrom = way /\ v.cameFrom = kept
    BY <1>6
  <2> QED BY ONLY <1>3, <2>1
<1> QED BY <1>6, <1>7

LEMMA TakeFocusIs ==
    ASSUME NEW u, Formed(u), NEW focus \in Way!Focus, NEW v, v = Way!TakeFocus(u, focus)
    PROVE  /\ Formed(v) /\ SameRegions(u, v) /\ v.cameFrom = u.cameFrom
           /\ v.focus = focus /\ v.pane = u.pane
<1>1. CASE focus = u.focus
  <2>1. v = u
    BY <1>1 DEF Way!TakeFocus
  <2> QED BY <1>1, <2>1 DEF SameRegions
<1>2. CASE focus # u.focus
  <2>2. PICK zoomed \in {Way!NoPane} \cup PaneIds : zoomed = Way!NoPane
    OBVIOUS
  <2>3. PICK dock \in BOOLEAN : dock = FALSE
    OBVIOUS
  <2>1. v = WithKeys(u, dock, zoomed, focus)
    BY <1>2, <2>2, <2>3 DEF Way!TakeFocus, WithKeys
  <2>4. dock \in BOOLEAN /\ zoomed \in {Way!NoPane} \cup PaneIds
    BY <2>2, <2>3
  <2> QED BY <2>1, <2>4, NewFocus
<1> QED BY <1>1, <1>2

\* There is room for the keys in `focus`.
RoomIn(u, focus) ==
    /\ focus = "Tree" => u.dockOpen
    /\ focus = "BottomDock" => u.bottomOpen

\* All but `place`, which closes, fits.
FitsBut(u, place) ==
    /\ Formed(u) /\ KeysHaveRoom(u)
    /\ \A n \in DOMAIN u.cameFrom : u.cameFrom[n] = place \/ Way!IsThere(u, u.cameFrom[n])

\* The status bar never closes.
LEMMA AllFits ==
    ASSUME NEW u
    PROVE  FitsBut(u, Way!StatusBar) <=> FocusFits(u)
  BY ThereIs DEF FitsBut, FocusFits, WayLeads

LEMMA LeadsBut ==
    ASSUME NEW place, NEW u, FitsBut(u, place), NEW v, Formed(v), KeysHaveRoom(v),
           SameRegions(u, v),
           \A n \in DOMAIN v.cameFrom :
              \/ Way!IsThere(u, v.cameFrom[n])
              \/ \E m \in DOMAIN u.cameFrom : v.cameFrom[n] = u.cameFrom[m]
    PROVE  FitsBut(v, place)
<1>1. v.cameFrom \in Seq(Way!Places)
  BY DEF Formed, Interfaces
<1>2. ASSUME NEW n \in DOMAIN v.cameFrom
      PROVE  v.cameFrom[n] = place \/ Way!IsThere(v, v.cameFrom[n])
  <2>1. v.cameFrom[n] \in Way!Places
    BY <1>1
  <2>2. v.cameFrom[n] = place \/ Way!IsThere(u, v.cameFrom[n])
    BY DEF FitsBut
  <2> QED BY <2>1, <2>2, ThereToo
<1> QED BY <1>2 DEF FitsBut

LEMMA RememberFits ==
    ASSUME NEW place, NEW u, FitsBut(u, place), NEW v, v = Way!Remember(u)
    PROVE  /\ FitsBut(v, place) /\ SameRegions(u, v) /\ v.focus = u.focus /\ v.pane = u.pane
           /\ v.cameFrom # <<>> /\ Way!Last(v.cameFrom) = Way!Here(u)
<1>0. Formed(u) /\ KeysHaveRoom(u)
  BY DEF FitsBut
<1>1. /\ Formed(v) /\ SameRegions(u, v) /\ v.focus = u.focus /\ v.pane = u.pane
      /\ v.cameFrom # <<>> /\ Way!Last(v.cameFrom) = Way!Here(u)
      /\ \A n \in DOMAIN v.cameFrom :
            \/ v.cameFrom[n] = Way!Here(u)
            \/ \E m \in DOMAIN u.cameFrom : v.cameFrom[n] = u.cameFrom[m]
  BY <1>0, RememberIs
<1>2. Way!IsThere(u, Way!Here(u))
  BY <1>0, HereIsThere
<1>3. \A n \in DOMAIN v.cameFrom :
          \/ Way!IsThere(u, v.cameFrom[n])
          \/ \E m \in DOMAIN u.cameFrom : v.cameFrom[n] = u.cameFrom[m]
  BY <1>1, <1>2
<1>4. KeysHaveRoom(v)
  BY <1>0, <1>1 DEF KeysHaveRoom, SameRegions
<1> QED BY <1>1, <1>3, <1>4, LeadsBut

LEMMA SetFocusBut ==
    ASSUME NEW place, NEW u, FitsBut(u, place), NEW focus \in Way!Focus, RoomIn(u, focus),
           NEW v, v = Way!SetFocus(u, focus)
    PROVE  /\ FitsBut(v, place) /\ SameRegions(u, v) /\ v.focus = focus /\ v.pane = u.pane
           /\ focus # u.focus => v.cameFrom # <<>> /\ Way!Last(v.cameFrom) = Way!Here(u)
<1>1. CASE focus = u.focus
  <2>1. v = u
    BY <1>1 DEF Way!SetFocus
  <2> QED BY <1>1, <2>1 DEF SameRegions
<1>2. CASE focus # u.focus
  <2>1. PICK w : w = Way!Remember(u)
    OBVIOUS
  <2>2. v = Way!TakeFocus(w, focus)
    BY <1>2, <2>1 DEF Way!SetFocus
  <2>3. /\ FitsBut(w, place) /\ SameRegions(u, w) /\ w.pane = u.pane
        /\ w.cameFrom # <<>> /\ Way!Last(w.cameFrom) = Way!Here(u)
    BY <2>1, RememberFits
  <2>4. /\ Formed(v) /\ SameRegions(w, v) /\ v.cameFrom = w.cameFrom
        /\ v.focus = focus /\ v.pane = w.pane
    BY <2>2, <2>3, TakeFocusIs DEF FitsBut
  <2>5. SameRegions(u, v)
    BY <2>3, <2>4 DEF SameRegions
  <2>6. KeysHaveRoom(v)
    BY <2>4, <2>5 DEF KeysHaveRoom, SameRegions, RoomIn
  <2>7. FitsBut(v, place)
    BY <2>3, <2>4, <2>6, LeadsBut
  <2> QED BY <2>3, <2>4, <2>5, <2>7
<1> QED BY <1>1, <1>2

LEMMA SetFocusFits ==
    ASSUME NEW u, FocusFits(u), NEW focus \in Way!Focus, RoomIn(u, focus),
           NEW v, v = Way!SetFocus(u, focus)
    PROVE  /\ FocusFits(v) /\ SameRegions(u, v) /\ v.focus = focus /\ v.pane = u.pane
           /\ focus # u.focus => v.cameFrom # <<>> /\ Way!Last(v.cameFrom) = Way!Here(u)
  BY AllFits, SetFocusBut

\* `Arrive` at a place that is there: the keys are in it.
LEMMA ArriveIs ==
    ASSUME NEW u, Formed(u), NEW place \in Way!Places, Way!IsThere(u, place),
           NEW v, v = Way!Arrive(u, place)
    PROVE  /\ Formed(v) /\ SameRegions(u, v) /\ v.cameFrom = u.cameFrom
           /\ Way!Here(v) = place /\ KeysHaveRoom(v)
<1>1. CASE place \in {Way!Dock, Way!Bottom, Way!StatusBar}
  <2>1. /\ place.at \in {"Tree", "BottomDock", "Status"}
        /\ place.at = "Tree" => place = Way!Dock
        /\ place.at = "BottomDock" => place = Way!Bottom
        /\ place.at = "Status" => place = Way!StatusBar
    BY <1>1, PlacesApart
  <2>2. v = Way!TakeFocus(u, place.at) /\ place.at \in Way!Focus
    BY <2>1 DEF Way!Arrive, Way!Focus
  <2>3. /\ Formed(v) /\ SameRegions(u, v) /\ v.cameFrom = u.cameFrom /\ v.focus = place.at
    BY <2>2, TakeFocusIs
  <2>4. Way!Here(v) = place
    BY <2>1, <2>2, <2>3, HereIs
  <2>5. KeysHaveRoom(v)
    <3>1. v.focus = "Tree" => u.dockOpen
      BY <2>1, <2>3, ThereIs
    <3>2. v.focus = "BottomDock" => u.bottomOpen
      BY <2>1, <2>3, ThereIs
    <3> QED BY <2>3, <3>1, <3>2 DEF KeysHaveRoom, SameRegions
  <2> QED BY <2>3, <2>4, <2>5
<1>2. CASE \E id \in PaneIds : place = Way!PaneAt(id)
  <2>1. PICK id \in PaneIds : place = Way!PaneAt(id)
    BY <1>2
  <2>2. place.at = "Editor" /\ place.pane = id /\ id \in Way!Panes(u)
    BY <2>1, PlacesApart, ThereIs
  <2>9. PICK zoomed : zoomed = IF u.zoomedPane = id THEN u.zoomedPane ELSE Way!NoPane
    OBVIOUS
  <2>10. PICK w : w = WithPane(u, id, zoomed)
    OBVIOUS
  <2>3. zoomed \in {Way!NoPane} \cup PaneIds
    BY <2>1, <2>9
  <2>4. v = Way!TakeFocus(w, "Editor")
    BY <2>2, <2>9, <2>10 DEF Way!Arrive, WithPane
  <2>5. /\ Formed(w) /\ SameRegions(u, w) /\ w.cameFrom = u.cameFrom /\ w.pane = id
    BY <2>2, <2>3, <2>10, NewPane
  <2>6. "Editor" \in Way!Focus
    BY DEF Way!Focus
  <2>7. /\ Formed(v) /\ SameRegions(w, v) /\ v.cameFrom = w.cameFrom
        /\ v.focus = "Editor" /\ v.pane = w.pane
    BY <2>4, <2>5, <2>6, TakeFocusIs
  <2>8. Way!Here(v) = place
    BY <2>1, <2>5, <2>6, <2>7, HereIs
  <2> QED BY <2>5, <2>7, <2>8 DEF SameRegions, KeysHaveRoom
<1> QED BY <1>1, <1>2, PlaceIsOf

\* A set of places of the way back that is not empty has a last one.
LEMMA LastOfWay ==
    ASSUME NEW N \in Nat, NEW S, S \subseteq 1..N, S # {}
    PROVE  Way!Max(S) \in S /\ \A n \in S : n <= Way!Max(S)
<1> DEFINE T == {k \in 0..N : (\E n \in S : n <= k) =>
                                 \E m \in S : m <= k /\ \A n \in S : n <= k => n <= m}
<1>1. 0 \in T
  OBVIOUS
<1>2. ASSUME NEW k \in 1..N, k - 1 \in T  PROVE k \in T
  <2>1. CASE k \in S
    BY <2>1
  <2>2. CASE k \notin S
    <3>1. \A n \in S : n <= k => n <= k - 1
      BY <2>2
    <3>2. \A m \in S : m <= k - 1 => m <= k
      OBVIOUS
    <3> QED BY <1>2, <3>1, <3>2
  <2> QED BY <2>1, <2>2
<1> HIDE DEF T
<1>3. N \in T
  BY <1>1, <1>2, EveryNumber
<1>4. PICK m \in S : \A n \in S : n <= m
  <2>1. \A n \in S : n <= N
    OBVIOUS
  <2>2. (\E n \in S : n <= N) => \E m \in S : m <= N /\ \A n \in S : n <= N => n <= m
    BY <1>3 DEF T
  <2> QED BY <2>1, <2>2
<1>5. m \in S /\ \A n \in S : m >= n
  BY <1>4
<1>6. Way!Max(S) \in S /\ \A n \in S : Way!Max(S) >= n
  BY <1>5 DEF Way!Max
<1> QED BY <1>6

\* `esc` finds the first place that is there, or empties a way that has none.
LEMMA GoBackIs ==
    ASSUME NEW u, Formed(u), WayLeads(u), NEW v, v = Way!GoBack(u)
    PROVE  /\ Formed(v) /\ SameRegions(u, v)
           /\ Way!CanGoBack(u) => FocusFits(v)
           /\ ~Way!CanGoBack(u) => v.cameFrom = <<>> /\ v.focus = u.focus /\ v.pane = u.pane
           /\ u.cameFrom # <<>> /\ Way!Last(u.cameFrom) # Way!Here(u) =>
                 Way!CanGoBack(u) /\ Way!Here(v) = Way!Last(u.cameFrom)
<1>0. StackDepth \in Nat \ {0}
  BY WayAssumption
<1> PICK way : way = u.cameFrom
  OBVIOUS
<1>1. way \in Seq(Way!Places) /\ Len(way) <= StackDepth /\ Len(way) \in Nat
  BY DEF Formed, Interfaces
<1>2. DOMAIN way = 1..Len(way) /\ \A n \in 1..Len(way) : way[n] \in Way!Places
  BY <1>1
<1>3. ASSUME ~Way!CanGoBack(u)
      PROVE  Formed(v) /\ SameRegions(u, v) /\ v.cameFrom = <<>> /\ v.focus = u.focus /\ v.pane = u.pane
  <2>4. PICK back : back = <<>>
    OBVIOUS
  <2>1. v = [u EXCEPT !.cameFrom = back]
    BY <1>3, <2>4 DEF Way!GoBack
  <2>2. back \in Seq(Way!Places) /\ Len(back) <= StackDepth
    BY <1>0, <2>4, EmptySeq
  <2>3. /\ Formed(v) /\ SameRegions(u, v) /\ v.cameFrom = back
        /\ v.focus = u.focus /\ v.pane = u.pane
    BY <2>1, <2>2, NewWay
  <2> QED BY <2>3, <2>4
<1>4. ASSUME Way!CanGoBack(u)
      PROVE  /\ Formed(v) /\ SameRegions(u, v) /\ FocusFits(v)
             /\ Way!Here(v) = way[Way!Max(Way!Ways(u))]
  <2>0. PICK n : n = Way!Max(Way!Ways(u))
    OBVIOUS
  <2>1. n \in 1..Len(way) /\ Way!IsThere(u, way[n])
    <3>1. Way!Ways(u) \subseteq 1..Len(way) /\ Way!Ways(u) # {}
      BY <1>2, <1>4 DEF Way!Ways, Way!CanGoBack
    <3>2. n \in Way!Ways(u)
      BY <1>1, <2>0, <3>1, LastOfWay
    <3> QED BY <1>2, <3>2 DEF Way!Ways
  <2>11. PICK back : back = SubSeq(way, 1, n - 1)
    OBVIOUS
  <2>12. PICK w : w = [u EXCEPT !.cameFrom = back]
    OBVIOUS
  <2>2. v = Way!Arrive(w, way[n])
    BY <1>4, <2>0, <2>11, <2>12 DEF Way!GoBack
  <2>3. /\ back \in Seq(Way!Places) /\ Len(back) = n - 1
        /\ \A m \in 1..Len(back) : m \in 1..Len(way) /\ back[m] = way[m]
    <3>1. 1 \in 1..(Len(way) + 1) /\ n - 1 \in 0..Len(way)
      BY <1>1, <2>1
    <3>2. back \in Seq(Way!Places) /\ Len(back) = n - 1
      BY <1>1, <2>11, <3>1
    <3>3. \A m \in 1..(n - 1) : m \in 1..Len(way) /\ back[m] = way[m]
      BY <1>1, <2>1, <2>11, <3>1
    <3> QED BY <3>2, <3>3
  <2>4. Len(back) <= StackDepth /\ DOMAIN back = 1..Len(back)
    BY <1>0, <1>1, <2>1, <2>3
  <2>5. /\ Formed(w) /\ SameRegions(u, w) /\ w.cameFrom = back
    BY <2>3, <2>4, <2>12, NewWay
  <2>6. way[n] \in Way!Places /\ Way!IsThere(w, way[n])
    BY <1>2, <2>1, <2>5, ThereToo
  <2>7. /\ Formed(v) /\ SameRegions(w, v) /\ v.cameFrom = w.cameFrom
        /\ Way!Here(v) = way[n] /\ KeysHaveRoom(v)
    BY <2>2, <2>5, <2>6, ArriveIs
  <2>8. SameRegions(u, v)
    BY <2>5, <2>7 DEF SameRegions
  <2>9. \A m \in DOMAIN v.cameFrom : Way!IsThere(u, v.cameFrom[m])
    <3>1. \A m \in DOMAIN back : Way!IsThere(u, back[m])
      BY <1>2, <2>3, <2>4 DEF WayLeads
    <3> QED BY <2>5, <2>7, <3>1
  <2>10. WayLeads(v)
    BY <2>7, <2>8, <2>9, StillLeads
  <2> QED BY <2>0, <2>7, <2>8, <2>10 DEF FocusFits
<1>5. ASSUME way # <<>>, Way!Last(way) # Way!Here(u)
      PROVE  Way!CanGoBack(u) /\ Way!Max(Way!Ways(u)) = Len(way)
  <2>1. Len(way) \in 1..Len(way) /\ way[Len(way)] # Way!Here(u)
    BY <1>1, <1>5, EmptySeq DEF Way!Last
  <2>2. Len(way) \in Way!Ways(u)
    BY <1>2, <2>1 DEF Way!Ways, WayLeads
  <2>3. Way!Ways(u) \subseteq 1..Len(way) /\ Way!Ways(u) # {}
    BY <1>2, <2>2 DEF Way!Ways
  <2>4. Way!Max(Way!Ways(u)) \in 1..Len(way) /\ Len(way) <= Way!Max(Way!Ways(u))
    BY <1>1, <2>2, <2>3, LastOfWay
  <2> QED BY <1>1, <2>3, <2>4 DEF Way!CanGoBack
<1>6. way # <<>> /\ Way!Last(way) # Way!Here(u) => Way!CanGoBack(u) /\ Way!Here(v) = Way!Last(way)
  BY <1>4, <1>5 DEF Way!Last
<1> QED BY <1>3, <1>4, <1>6

\* The same keys in the same pane, with the same way back.
SameKeys(u, v) == v.focus = u.focus /\ v.pane = u.pane /\ v.cameFrom = u.cameFrom

LEMMA FitsToo ==
    ASSUME NEW u, FocusFits(u), NEW v, Formed(v), SameRegions(u, v), SameKeys(u, v)
    PROVE  FocusFits(v) /\ Way!Here(v) = Way!Here(u)
<1>1. \A n \in DOMAIN v.cameFrom : Way!IsThere(u, v.cameFrom[n])
  BY DEF FocusFits, WayLeads, SameKeys
<1>2. WayLeads(v)
  BY <1>1, StillLeads DEF FocusFits
<1>3. KeysHaveRoom(v)
  BY DEF FocusFits, KeysHaveRoom, SameRegions, SameKeys
<1>4. Way!Here(v) = Way!Here(u)
  BY DEF Way!Here, SameKeys
<1> QED BY <1>2, <1>3, <1>4 DEF FocusFits

\* One setting of the interface changes.
Sets(u, v) ==
    \/ \E b \in BOOLEAN : v = [u EXCEPT !.chosen = b]
    \/ \E b \in BOOLEAN : v = [u EXCEPT !.adapt = b]
    \/ \E b \in BOOLEAN : v = [u EXCEPT !.dockZoomed = b]
    \/ \E preset \in Way!Preset : v = [u EXCEPT !.preset = preset]
    \/ \E zoomed \in {Way!NoPane} \cup PaneIds : v = [u EXCEPT !.zoomedPane = zoomed]

LEMMA SettingIs ==
    ASSUME NEW u, u \in Interfaces, NEW v, Sets(u, v)
    PROVE  v \in Interfaces /\ SameRegions(u, v) /\ SameKeys(u, v)
<1>1. ASSUME NEW b \in BOOLEAN, v = [u EXCEPT !.chosen = b]
      PROVE  v \in Interfaces /\ SameRegions(u, v) /\ SameKeys(u, v)
  BY <1>1 DEF Interfaces, SameRegions, SameKeys
<1>2. ASSUME NEW b \in BOOLEAN, v = [u EXCEPT !.adapt = b]
      PROVE  v \in Interfaces /\ SameRegions(u, v) /\ SameKeys(u, v)
  BY <1>2 DEF Interfaces, SameRegions, SameKeys
<1>3. ASSUME NEW b \in BOOLEAN, v = [u EXCEPT !.dockZoomed = b]
      PROVE  v \in Interfaces /\ SameRegions(u, v) /\ SameKeys(u, v)
  BY <1>3 DEF Interfaces, SameRegions, SameKeys
<1>4. ASSUME NEW preset \in Way!Preset, v = [u EXCEPT !.preset = preset]
      PROVE  v \in Interfaces /\ SameRegions(u, v) /\ SameKeys(u, v)
  BY <1>4 DEF Interfaces, SameRegions, SameKeys
<1>5. ASSUME NEW zoomed \in {Way!NoPane} \cup PaneIds, v = [u EXCEPT !.zoomedPane = zoomed]
      PROVE  v \in Interfaces /\ SameRegions(u, v) /\ SameKeys(u, v)
  BY <1>5 DEF Interfaces, SameRegions, SameKeys
<1> QED BY <1>1, <1>2, <1>3, <1>4, <1>5 DEF Sets

LEMMA SettingFits ==
    ASSUME NEW u, FocusFits(u), NEW v, Sets(u, v)
    PROVE  /\ FocusFits(v) /\ SameRegions(u, v) /\ SameKeys(u, v)
           /\ Way!Here(v) = Way!Here(u)
<1>1. v \in Interfaces /\ SameRegions(u, v) /\ SameKeys(u, v)
  BY SettingIs DEF FocusFits, Formed
<1>2. PanesFit(v)
  BY <1>1 DEF FocusFits, Formed, PanesFit, SameRegions, SameKeys, Way!Panes
<1>3. Formed(v)
  BY <1>1, <1>2 DEF FocusFits, Formed, SameKeys
<1> QED BY <1>1, <1>3, FitsToo

\* A dock opens or closes, and nothing else.
Doored(u, v, dock, bottom) ==
    /\ Formed(v) /\ SameKeys(u, v)
    /\ v.panes = u.panes /\ v.nextPane = u.nextPane
    /\ v.dockOpen = dock /\ v.bottomOpen = bottom

LEMMA DockIs ==
    ASSUME NEW u, Formed(u), NEW b \in BOOLEAN, NEW v, v = [u EXCEPT !.dockOpen = b]
    PROVE  Doored(u, v, b, u.bottomOpen)
<1>1. u \in Interfaces /\ PanesFit(u) /\ Len(u.cameFrom) <= StackDepth
  BY DEF Formed
<1>2. v \in Interfaces
  BY <1>1 DEF Interfaces
<1>3. /\ v.panes = u.panes /\ v.nextPane = u.nextPane
      /\ v.dockOpen = b /\ v.bottomOpen = u.bottomOpen
      /\ v.focus = u.focus /\ v.pane = u.pane /\ v.cameFrom = u.cameFrom
  BY <1>1 DEF Interfaces
<1>4. PanesFit(v)
  BY <1>1, <1>3 DEF PanesFit, Way!Panes
<1> QED BY <1>1, <1>2, <1>3, <1>4 DEF Formed, Doored, SameKeys

LEMMA BottomIs ==
    ASSUME NEW u, Formed(u), NEW b \in BOOLEAN, NEW v, v = [u EXCEPT !.bottomOpen = b]
    PROVE  Doored(u, v, u.dockOpen, b)
<1>1. u \in Interfaces /\ PanesFit(u) /\ Len(u.cameFrom) <= StackDepth
  BY DEF Formed
<1>2. v \in Interfaces
  BY <1>1 DEF Interfaces
<1>3. /\ v.panes = u.panes /\ v.nextPane = u.nextPane
      /\ v.dockOpen = u.dockOpen /\ v.bottomOpen = b
      /\ v.focus = u.focus /\ v.pane = u.pane /\ v.cameFrom = u.cameFrom
  BY <1>1 DEF Interfaces
<1>4. PanesFit(v)
  BY <1>1, <1>3 DEF PanesFit, Way!Panes
<1> QED BY <1>1, <1>2, <1>3, <1>4 DEF Formed, Doored, SameKeys

\* What is there stays when a dock opens; all but the dock when one closes.
LEMMA DoorLeads ==
    ASSUME NEW u, FocusFits(u), NEW v, NEW dock, NEW bottom, Doored(u, v, dock, bottom)
    PROVE  /\ dock = u.dockOpen \/ dock = TRUE =>
                 (bottom = u.bottomOpen \/ bottom = TRUE => FocusFits(v))
           /\ dock = FALSE /\ bottom = u.bottomOpen =>
                 /\ ~Way!IsThere(v, Way!Dock)
                 /\ \A n \in DOMAIN v.cameFrom :
                       v.cameFrom[n] = Way!Dock \/ Way!IsThere(v, v.cameFrom[n])
                 /\ v.focus # "Tree" => KeysHaveRoom(v)
           /\ dock = u.dockOpen /\ bottom = FALSE =>
                 /\ ~Way!IsThere(v, Way!Bottom)
                 /\ \A n \in DOMAIN v.cameFrom :
                       v.cameFrom[n] = Way!Bottom \/ Way!IsThere(v, v.cameFrom[n])
                 /\ v.focus # "BottomDock" => KeysHaveRoom(v)
<1>0. /\ Formed(u) /\ WayLeads(u) /\ KeysHaveRoom(u)
      /\ v.cameFrom = u.cameFrom /\ v.focus = u.focus /\ v.pane = u.pane
      /\ v.dockOpen = dock /\ v.bottomOpen = bottom /\ Formed(v)
      /\ Way!Panes(v) = Way!Panes(u)
  BY DEF FocusFits, Doored, SameKeys, Way!Panes
<1>1. ASSUME NEW place \in Way!Places, Way!IsThere(u, place),
             place = Way!Dock => v.dockOpen, place = Way!Bottom => v.bottomOpen
      PROVE  Way!IsThere(v, place)
  <2>1. CASE place = Way!Dock
    BY <1>1, <2>1, ThereIs
  <2>2. CASE place = Way!Bottom
    BY <1>1, <2>2, ThereIs
  <2>3. CASE place = Way!StatusBar
    BY <2>3, ThereIs
  <2>4. CASE \E id \in PaneIds : place = Way!PaneAt(id)
    BY <1>0, <1>1, <2>4, ThereIs
  <2> QED BY <2>1, <2>2, <2>3, <2>4, PlaceIsOf
<1>2. \A n \in DOMAIN v.cameFrom :
          v.cameFrom[n] \in Way!Places /\ Way!IsThere(u, v.cameFrom[n])
  <2>1. u.cameFrom \in Seq(Way!Places)
    BY <1>0 DEF Formed, Interfaces
  <2> QED BY <1>0, <2>1 DEF WayLeads
<1>3. (Way!IsThere(u, Way!Dock) <=> u.dockOpen) /\ (Way!IsThere(u, Way!Bottom) <=> u.bottomOpen)
  BY ThereIs
<1>4. ASSUME dock = u.dockOpen \/ dock = TRUE, bottom = u.bottomOpen \/ bottom = TRUE
      PROVE  FocusFits(v)
  <2>1. WayLeads(v)
    BY <1>0, <1>1, <1>2, <1>3, <1>4 DEF WayLeads
  <2>2. KeysHaveRoom(v)
    BY <1>0, <1>4 DEF KeysHaveRoom
  <2> QED BY <1>0, <2>1, <2>2 DEF FocusFits
<1>5. ASSUME dock = FALSE, bottom = u.bottomOpen
      PROVE  /\ ~Way!IsThere(v, Way!Dock)
             /\ \A n \in DOMAIN v.cameFrom :
                   v.cameFrom[n] = Way!Dock \/ Way!IsThere(v, v.cameFrom[n])
             /\ v.focus # "Tree" => KeysHaveRoom(v)
  <2>1. ~Way!IsThere(v, Way!Dock)
    BY <1>0, <1>5, ThereIs
  <2>2. \A n \in DOMAIN v.cameFrom : v.cameFrom[n] = Way!Dock \/ Way!IsThere(v, v.cameFrom[n])
    BY <1>0, <1>1, <1>2, <1>3, <1>5
  <2>3. v.focus # "Tree" => KeysHaveRoom(v)
    BY <1>0, <1>5 DEF KeysHaveRoom
  <2> QED BY <2>1, <2>2, <2>3
<1>6. ASSUME dock = u.dockOpen, bottom = FALSE
      PROVE  /\ ~Way!IsThere(v, Way!Bottom)
             /\ \A n \in DOMAIN v.cameFrom :
                   v.cameFrom[n] = Way!Bottom \/ Way!IsThere(v, v.cameFrom[n])
             /\ v.focus # "BottomDock" => KeysHaveRoom(v)
  <2>1. ~Way!IsThere(v, Way!Bottom)
    BY <1>0, <1>6, ThereIs
  <2>2. \A n \in DOMAIN v.cameFrom : v.cameFrom[n] = Way!Bottom \/ Way!IsThere(v, v.cameFrom[n])
    BY <1>0, <1>1, <1>2, <1>3, <1>6
  <2>3. v.focus # "BottomDock" => KeysHaveRoom(v)
    BY <1>0, <1>6 DEF KeysHaveRoom
  <2> QED BY <2>1, <2>2, <2>3
<1> QED BY <1>4, <1>5, <1>6

\* `fold_dock` and `fold_bottom` once the dock is closed: the way back loses it,
\* and the keys leave it, to where they last were.
LEMMA LeaveFoldedIs ==
    ASSUME NEW place \in {Way!Dock, Way!Bottom}, NEW u, Formed(u), ~Way!IsThere(u, place),
           \A n \in DOMAIN u.cameFrom : u.cameFrom[n] = place \/ Way!IsThere(u, u.cameFrom[n]),
           u.focus # place.at => KeysHaveRoom(u),
           NEW v, v = Way!LeaveFolded(u, place)
    PROVE  /\ FocusFits(v) /\ SameRegions(u, v)
           /\ u.focus = place.at /\ u.cameFrom # <<>> /\ Way!Last(u.cameFrom) # place =>
                 Way!Here(v) = Way!Last(u.cameFrom)
<1>1. PICK w : w = Way!Forget(u, place)
  OBVIOUS
<1>2. /\ Formed(w) /\ SameRegions(u, w) /\ w.focus = u.focus /\ w.pane = u.pane
      /\ \A n \in DOMAIN w.cameFrom : /\ w.cameFrom[n] # place
                                      /\ \E m \in DOMAIN u.cameFrom : w.cameFrom[n] = u.cameFrom[m]
      /\ u.cameFrom # <<>> /\ Way!Last(u.cameFrom) # place =>
            w.cameFrom # <<>> /\ Way!Last(w.cameFrom) = Way!Last(u.cameFrom)
  BY <1>1, ForgetIs
<1>3. WayLeads(w)
  <2>1. \A n \in DOMAIN w.cameFrom : Way!IsThere(u, w.cameFrom[n])
    BY <1>2
  <2> QED BY <1>2, <2>1, StillLeads
<1>4. u.focus = place.at => Way!Here(w) = place /\ w.focus # "Editor"
  <2>1. u.focus \in Way!Focus /\ w.focus \in Way!Focus
    BY <1>2 DEF Formed, Interfaces
  <2>2. place.at \in {"Tree", "BottomDock"}
    BY PlacesApart
  <2> QED BY <1>2, <2>1, <2>2, HereIs, PlacesApart
<1>5. CASE u.focus # place.at
  <2>1. v = w
    BY <1>1, <1>5 DEF Way!LeaveFolded
  <2>2. KeysHaveRoom(w)
    BY <1>2, <1>5 DEF KeysHaveRoom, SameRegions
  <2> QED BY <1>2, <1>3, <1>5, <2>1, <2>2 DEF FocusFits
<1>6. CASE u.focus = place.at /\ Way!CanGoBack(w)
  <2>1. v = Way!GoBack(w)
    BY <1>1, <1>6 DEF Way!LeaveFolded
  <2>2. /\ SameRegions(w, v) /\ FocusFits(v)
        /\ w.cameFrom # <<>> /\ Way!Last(w.cameFrom) # Way!Here(w) =>
              Way!Here(v) = Way!Last(w.cameFrom)
    BY <1>2, <1>3, <1>6, <2>1, GoBackIs
  <2> QED BY <1>2, <1>4, <1>6, <2>2 DEF SameRegions
<1>7. CASE u.focus = place.at /\ ~Way!CanGoBack(w)
  <2>1. PICK g : g = Way!GoBack(w)
    OBVIOUS
  <2>2. PICK r : r = Way!Remember(g)
    OBVIOUS
  <2>3. PICK t : t = Way!TakeFocus(r, "Editor")
    OBVIOUS
  <2>4. /\ Formed(g) /\ SameRegions(w, g) /\ g.cameFrom = <<>>
        /\ g.focus = w.focus /\ g.pane = w.pane
        /\ ~(w.cameFrom # <<>> /\ Way!Last(w.cameFrom) # Way!Here(w))
    BY <1>2, <1>3, <1>7, <2>1, GoBackIs
  <2>5. v = Way!Forget(t, place)
    <3>1. t = Way!SetFocus(g, "Editor")
      BY <1>4, <1>7, <2>2, <2>3, <2>4 DEF Way!SetFocus
    <3> QED BY <1>1, <1>7, <2>1, <3>1 DEF Way!LeaveFolded
  <2>6. Way!Here(g) = place
    BY <1>4, <1>7, <2>4 DEF Way!Here
  <2>7. /\ Formed(r) /\ SameRegions(g, r)
        /\ \A n \in DOMAIN r.cameFrom :
              \/ r.cameFrom[n] = Way!Here(g)
              \/ \E m \in DOMAIN g.cameFrom : r.cameFrom[n] = g.cameFrom[m]
    BY <2>2, <2>4, RememberIs
  <2>8. \A n \in DOMAIN r.cameFrom : r.cameFrom[n] = place
    <3>1. DOMAIN g.cameFrom = {}
      BY <2>4
    <3> QED BY <2>6, <2>7, <3>1
  <2>9. "Editor" \in Way!Focus
    BY DEF Way!Focus
  <2>10. /\ Formed(t) /\ SameRegions(r, t) /\ t.cameFrom = r.cameFrom /\ t.focus = "Editor"
    BY <2>3, <2>7, <2>9, TakeFocusIs
  <2>11. /\ Formed(v) /\ SameRegions(t, v) /\ v.focus = t.focus
         /\ \A n \in DOMAIN v.cameFrom : /\ v.cameFrom[n] # place
                                         /\ \E m \in DOMAIN t.cameFrom : v.cameFrom[n] = t.cameFrom[m]
    BY <2>5, <2>10, ForgetIs
  <2>12. WayLeads(v)
    BY <2>8, <2>10, <2>11 DEF WayLeads
  <2>13. KeysHaveRoom(v)
    BY <2>10, <2>11 DEF KeysHaveRoom
  <2>14. SameRegions(u, v)
    BY <1>2, <2>4, <2>7, <2>10, <2>11 DEF SameRegions
  <2> QED BY <1>2, <1>4, <1>7, <2>4, <2>11, <2>12, <2>13, <2>14 DEF FocusFits
<1> QED BY <1>5, <1>6, <1>7

\* Folding: the dock is closed, and the keys go where they last were.
LEMMA FoldDockIs ==
    ASSUME NEW u, FocusFits(u), NEW v, v = Way!FoldDock(u)
    PROVE  /\ FocusFits(v)
           /\ u.focus = "Tree" /\ u.cameFrom # <<>> /\ Way!Last(u.cameFrom) # Way!Dock =>
                 Way!Here(v) = Way!Last(u.cameFrom)
<1>1. PICK no \in BOOLEAN : no = FALSE
  OBVIOUS
<1>2. PICK w : w = [u EXCEPT !.dockOpen = no]
  OBVIOUS
<1>3. v = Way!LeaveFolded(w, Way!Dock)
  BY <1>1, <1>2 DEF Way!FoldDock
<1>4. Formed(u)
  BY DEF FocusFits
<1>5. Doored(u, w, no, u.bottomOpen)
  BY <1>2, <1>4, DockIs
<1>6. /\ ~Way!IsThere(w, Way!Dock)
      /\ \A n \in DOMAIN w.cameFrom : w.cameFrom[n] = Way!Dock \/ Way!IsThere(w, w.cameFrom[n])
      /\ w.focus # "Tree" => KeysHaveRoom(w)
  BY <1>1, <1>5, DoorLeads
<1>7. Formed(w) /\ w.focus = u.focus /\ w.cameFrom = u.cameFrom
  BY <1>5 DEF Doored, SameKeys
<1>8. (Way!Dock).at = "Tree"
  BY PlacesApart
<1>9. /\ FocusFits(v)
      /\ w.focus = (Way!Dock).at /\ w.cameFrom # <<>> /\ Way!Last(w.cameFrom) # Way!Dock =>
            Way!Here(v) = Way!Last(w.cameFrom)
  BY <1>3, <1>6, <1>7, <1>8, LeaveFoldedIs
<1> QED BY <1>7, <1>8, <1>9

LEMMA FoldBottomIs ==
    ASSUME NEW u, FocusFits(u), NEW v, v = Way!FoldBottom(u)
    PROVE  /\ FocusFits(v)
           /\ u.focus = "BottomDock" /\ u.cameFrom # <<>> /\ Way!Last(u.cameFrom) # Way!Bottom =>
                 Way!Here(v) = Way!Last(u.cameFrom)
<1>1. PICK no \in BOOLEAN : no = FALSE
  OBVIOUS
<1>2. PICK w : w = [u EXCEPT !.bottomOpen = no]
  OBVIOUS
<1>3. v = Way!LeaveFolded(w, Way!Bottom)
  BY <1>1, <1>2 DEF Way!FoldBottom
<1>4. Formed(u)
  BY DEF FocusFits
<1>5. Doored(u, w, u.dockOpen, no)
  BY <1>2, <1>4, BottomIs
<1>6. /\ ~Way!IsThere(w, Way!Bottom)
      /\ \A n \in DOMAIN w.cameFrom : w.cameFrom[n] = Way!Bottom \/ Way!IsThere(w, w.cameFrom[n])
      /\ w.focus # "BottomDock" => KeysHaveRoom(w)
  BY <1>1, <1>5, DoorLeads
<1>7. Formed(w) /\ w.focus = u.focus /\ w.cameFrom = u.cameFrom
  BY <1>5 DEF Doored, SameKeys
<1>8. (Way!Bottom).at = "BottomDock"
  BY PlacesApart
<1>9. /\ FocusFits(v)
      /\ w.focus = (Way!Bottom).at /\ w.cameFrom # <<>> /\ Way!Last(w.cameFrom) # Way!Bottom =>
            Way!Here(v) = Way!Last(w.cameFrom)
  BY <1>3, <1>6, <1>7, <1>8, LeaveFoldedIs
<1> QED BY <1>7, <1>8, <1>9

\* Opening: the dock has the keys, and the way back leads to where they were.
LEMMA OpenDockIs ==
    ASSUME NEW u, FocusFits(u), ~u.dockOpen, NEW v, v = Way!OpenDock(u)
    PROVE  /\ FocusFits(v) /\ v.focus = "Tree" /\ v.dockOpen
           /\ v.cameFrom # <<>> /\ Way!Last(v.cameFrom) = Way!Here(u)
<1>1. PICK yes \in BOOLEAN : yes = TRUE
  OBVIOUS
<1>2. PICK w : w = [u EXCEPT !.dockOpen = yes]
  OBVIOUS
<1>3. v = Way!SetFocus(w, "Tree")
  BY <1>1, <1>2 DEF Way!OpenDock
<1>4. Formed(u) /\ KeysHaveRoom(u)
  BY DEF FocusFits
<1>5. Doored(u, w, yes, u.bottomOpen)
  BY <1>2, <1>4, DockIs
<1>6. FocusFits(w)
  BY <1>1, <1>5, DoorLeads
<1>7. w.dockOpen /\ w.focus = u.focus /\ w.pane = u.pane /\ u.focus # "Tree"
  BY <1>1, <1>4, <1>5 DEF Doored, SameKeys, KeysHaveRoom
<1>8. "Tree" \in Way!Focus /\ RoomIn(w, "Tree")
  BY <1>7 DEF Way!Focus, RoomIn
<1>9. /\ FocusFits(v) /\ SameRegions(w, v) /\ v.focus = "Tree"
      /\ v.cameFrom # <<>> /\ Way!Last(v.cameFrom) = Way!Here(w)
  BY <1>3, <1>6, <1>7, <1>8, SetFocusFits
<1>10. Way!Here(w) = Way!Here(u)
  BY <1>7 DEF Way!Here
<1> QED BY <1>7, <1>9, <1>10 DEF SameRegions

LEMMA OpenBottomIs ==
    ASSUME NEW u, FocusFits(u), ~u.bottomOpen,
           NEW v, v = Way!SetFocus([u EXCEPT !.bottomOpen = TRUE], "BottomDock")
    PROVE  /\ FocusFits(v) /\ v.focus = "BottomDock" /\ v.bottomOpen
           /\ v.cameFrom # <<>> /\ Way!Last(v.cameFrom) = Way!Here(u)
<1>1. PICK yes \in BOOLEAN : yes = TRUE
  OBVIOUS
<1>2. PICK w : w = [u EXCEPT !.bottomOpen = yes]
  OBVIOUS
<1>3. v = Way!SetFocus(w, "BottomDock")
  BY <1>1, <1>2
<1>4. Formed(u) /\ KeysHaveRoom(u)
  BY DEF FocusFits
<1>5. Doored(u, w, u.dockOpen, yes)
  BY <1>2, <1>4, BottomIs
<1>6. FocusFits(w)
  BY <1>1, <1>5, DoorLeads
<1>7. w.bottomOpen /\ w.focus = u.focus /\ w.pane = u.pane /\ u.focus # "BottomDock"
  BY <1>1, <1>4, <1>5 DEF Doored, SameKeys, KeysHaveRoom
<1>8. "BottomDock" \in Way!Focus /\ RoomIn(w, "BottomDock")
  BY <1>7 DEF Way!Focus, RoomIn
<1>9. /\ FocusFits(v) /\ SameRegions(w, v) /\ v.focus = "BottomDock"
      /\ v.cameFrom # <<>> /\ Way!Last(v.cameFrom) = Way!Here(w)
  BY <1>3, <1>6, <1>7, <1>8, SetFocusFits
<1>10. Way!Here(w) = Way!Here(u)
  BY <1>7 DEF Way!Here
<1> QED BY <1>7, <1>9, <1>10 DEF SameRegions

\* Where the keys go to the pane they are for: there is always room.
LEMMA ToTheEditor ==
    ASSUME NEW u, FocusFits(u), NEW v, v = Way!SetFocus(u, "Editor")
    PROVE  FocusFits(v) /\ SameRegions(u, v) /\ v.focus = "Editor" /\ v.pane = u.pane
<1>1. "Editor" \in Way!Focus /\ RoomIn(u, "Editor")
  BY DEF Way!Focus, RoomIn
<1> QED BY <1>1, SetFocusFits

LEMMA ToggleLeftDockFits ==
    ASSUME NEW u, FocusFits(u), NEW v, v = Way!ToggleLeftDock(u)
    PROVE  FocusFits(v)
<1>1. PICK w : w = [u EXCEPT !.chosen = TRUE]
  OBVIOUS
<1>2. Sets(u, w)
  BY <1>1 DEF Sets
<1>3. FocusFits(w) /\ SameRegions(u, w) /\ SameKeys(u, w)
  BY <1>2, SettingFits
<1>4. CASE ~u.dockOpen
  <2>1. v = Way!OpenDock(w) /\ ~w.dockOpen
    BY <1>1, <1>3, <1>4 DEF Way!ToggleLeftDock, SameRegions
  <2> QED BY <1>3, <2>1, OpenDockIs
<1>5. CASE u.dockOpen /\ u.focus # "Tree"
  <2>1. v = Way!SetFocus(w, "Tree")
    BY <1>1, <1>5 DEF Way!ToggleLeftDock
  <2>2. "Tree" \in Way!Focus /\ RoomIn(w, "Tree")
    BY <1>3, <1>5 DEF Way!Focus, RoomIn, SameRegions
  <2> QED BY <1>3, <2>1, <2>2, SetFocusFits
<1>6. CASE u.dockOpen /\ u.focus = "Tree"
  <2>1. v = Way!FoldDock(w)
    BY <1>1, <1>6 DEF Way!ToggleLeftDock
  <2> QED BY <1>3, <2>1, FoldDockIs
<1> QED BY <1>4, <1>5, <1>6

\* Opening the dock and folding it again returns to where the keys were.
LEMMA LeftDockReturns ==
    ASSUME NEW u, FocusFits(u), ~u.dockOpen
    PROVE  Way!Here(Way!ToggleLeftDock(Way!ToggleLeftDock(u))) = Way!Here(u)
<1>1. PICK w : w = [u EXCEPT !.chosen = TRUE]
  OBVIOUS
<1>2. Sets(u, w)
  BY <1>1 DEF Sets
<1>3. FocusFits(w) /\ SameRegions(u, w) /\ SameKeys(u, w) /\ Way!Here(w) = Way!Here(u)
  BY <1>2, SettingFits
<1>4. PICK v : v = Way!ToggleLeftDock(u)
  OBVIOUS
<1>5. v = Way!OpenDock(w) /\ ~w.dockOpen
  BY <1>1, <1>3, <1>4 DEF Way!ToggleLeftDock, SameRegions
<1>6. /\ FocusFits(v) /\ v.focus = "Tree" /\ v.dockOpen
      /\ v.cameFrom # <<>> /\ Way!Last(v.cameFrom) = Way!Here(u)
  BY <1>3, <1>5, OpenDockIs
<1>7. PICK x : x = [v EXCEPT !.chosen = TRUE]
  OBVIOUS
<1>8. Sets(v, x)
  BY <1>7 DEF Sets
<1>9. FocusFits(x) /\ SameKeys(v, x)
  BY <1>6, <1>8, SettingFits
<1>10. PICK y : y = Way!ToggleLeftDock(v)
  OBVIOUS
<1>11. y = Way!FoldDock(x)
  BY <1>6, <1>7, <1>10 DEF Way!ToggleLeftDock
<1>12. Way!Here(u) # Way!Dock
  <2>1. u.focus # "Tree" /\ u.focus \in Way!Focus
    BY DEF FocusFits, KeysHaveRoom, Formed, Interfaces
  <2> QED BY <2>1, HereIs, PlacesApart
<1>13. x.focus = "Tree" /\ x.cameFrom # <<>> /\ Way!Last(x.cameFrom) = Way!Here(u)
  BY <1>6, <1>9 DEF SameKeys
<1>14. Way!Here(y) = Way!Here(u)
  BY <1>9, <1>11, <1>12, <1>13, FoldDockIs
<1> QED BY <1>4, <1>10, <1>14

LEMMA ToggleBottomDockFits ==
    ASSUME NEW u, FocusFits(u), NEW v, v = Way!ToggleBottomDock(u)
    PROVE  FocusFits(v)
<1>1. CASE ~u.bottomOpen
  <2>1. v = Way!SetFocus([u EXCEPT !.bottomOpen = TRUE], "BottomDock")
    BY <1>1 DEF Way!ToggleBottomDock
  <2> QED BY <1>1, <2>1, OpenBottomIs
<1>2. CASE u.bottomOpen /\ u.focus # "BottomDock"
  <2>1. v = Way!SetFocus(u, "BottomDock")
    BY <1>2 DEF Way!ToggleBottomDock
  <2>2. "BottomDock" \in Way!Focus /\ RoomIn(u, "BottomDock")
    BY <1>2 DEF Way!Focus, RoomIn
  <2> QED BY <2>1, <2>2, SetFocusFits
<1>3. CASE u.bottomOpen /\ u.focus = "BottomDock"
  <2>1. v = Way!FoldBottom(u)
    BY <1>3 DEF Way!ToggleBottomDock
  <2> QED BY <2>1, FoldBottomIs
<1> QED BY <1>1, <1>2, <1>3

LEMMA BottomDockReturns ==
    ASSUME NEW u, FocusFits(u), ~u.bottomOpen
    PROVE  Way!Here(Way!ToggleBottomDock(Way!ToggleBottomDock(u))) = Way!Here(u)
<1>1. PICK v : v = Way!ToggleBottomDock(u)
  OBVIOUS
<1>2. v = Way!SetFocus([u EXCEPT !.bottomOpen = TRUE], "BottomDock")
  BY <1>1 DEF Way!ToggleBottomDock
<1>3. /\ FocusFits(v) /\ v.focus = "BottomDock" /\ v.bottomOpen
      /\ v.cameFrom # <<>> /\ Way!Last(v.cameFrom) = Way!Here(u)
  BY <1>2, OpenBottomIs
<1>4. PICK y : y = Way!ToggleBottomDock(v)
  OBVIOUS
<1>5. y = Way!FoldBottom(v)
  BY <1>3, <1>4 DEF Way!ToggleBottomDock
<1>6. Way!Here(u) # Way!Bottom
  <2>1. u.focus # "BottomDock" /\ u.focus \in Way!Focus
    BY DEF FocusFits, KeysHaveRoom, Formed, Interfaces
  <2> QED BY <2>1, HereIs, PlacesApart
<1>7. Way!Here(y) = Way!Here(u)
  BY <1>3, <1>5, <1>6, FoldBottomIs
<1> QED BY <1>1, <1>4, <1>7

LEMMA SetPresetFits ==
    ASSUME NEW u, FocusFits(u), NEW preset \in Way!Preset, NEW v, v = Way!SetPreset(u, preset)
    PROVE  FocusFits(v)
<1>1. PICK w : w = [u EXCEPT !.preset = preset]
  OBVIOUS
<1>2. Sets(u, w)
  BY <1>1 DEF Sets
<1>3. FocusFits(w) /\ SameRegions(u, w)
  BY <1>2, SettingFits
<1>4. CASE preset = "Standard"
  <2>1. PICK yes \in BOOLEAN : yes = TRUE
    OBVIOUS
  <2>2. v = [w EXCEPT !.dockOpen = yes]
    BY <1>1, <1>4, <2>1 DEF Way!SetPreset
  <2>3. Doored(w, v, yes, w.bottomOpen)
    BY <1>3, <2>2, DockIs DEF FocusFits
  <2> QED BY <1>3, <2>1, <2>3, DoorLeads
<1>5. CASE preset # "Standard" /\ u.dockOpen
  <2>1. v = Way!FoldDock(w)
    BY <1>1, <1>5 DEF Way!SetPreset
  <2> QED BY <1>3, <2>1, FoldDockIs
<1>6. CASE preset # "Standard" /\ ~u.dockOpen
  <2>1. v = w
    BY <1>1, <1>6 DEF Way!SetPreset
  <2> QED BY <1>3, <2>1
<1> QED BY <1>4, <1>5, <1>6

LEMMA CycleLayoutFits ==
    ASSUME NEW u, FocusFits(u), NEW v, v = Way!CycleLayout(u)
    PROVE  FocusFits(v)
<1>1. PICK w : w = [u EXCEPT !.chosen = TRUE]
  OBVIOUS
<1>2. Sets(u, w)
  BY <1>1 DEF Sets
<1>3. FocusFits(w)
  BY <1>2, SettingFits
<1>4. PICK preset \in Way!Preset : preset = Way!NextPreset(u.preset)
  BY DEF Way!NextPreset, Way!Preset
<1>5. v = Way!SetPreset(w, preset)
  BY <1>1, <1>4 DEF Way!CycleLayout
<1> QED BY <1>3, <1>5, SetPresetFits

LEMMA AdaptToFits ==
    ASSUME NEW u, FocusFits(u), NEW isWide \in BOOLEAN, NEW v, v = Way!AdaptTo(u, isWide)
    PROVE  FocusFits(v)
<1>1. CASE ~u.adapt \/ u.chosen \/ u.preset # "Standard" \/ isWide = u.dockOpen
  <2>1. v = u
    BY <1>1 DEF Way!AdaptTo
  <2> QED BY <2>1
<1>2. CASE ~(~u.adapt \/ u.chosen \/ u.preset # "Standard" \/ isWide = u.dockOpen) /\ isWide
  <2>1. PICK yes \in BOOLEAN : yes = TRUE
    OBVIOUS
  <2>2. v = [u EXCEPT !.dockOpen = yes]
    BY <1>2, <2>1 DEF Way!AdaptTo
  <2>3. Doored(u, v, yes, u.bottomOpen)
    BY <2>2, DockIs DEF FocusFits
  <2> QED BY <2>1, <2>3, DoorLeads
<1>3. CASE ~(~u.adapt \/ u.chosen \/ u.preset # "Standard" \/ isWide = u.dockOpen) /\ ~isWide
  <2>1. v = Way!FoldDock(u)
    BY <1>3 DEF Way!AdaptTo
  <2> QED BY <2>1, FoldDockIs
<1> QED BY <1>1, <1>2, <1>3

LEMMA ToggleZoomFits ==
    ASSUME NEW u, FocusFits(u), NEW v, v = Way!ToggleZoom(u)
    PROVE  FocusFits(v)
<1>1. PICK x : x = [u EXCEPT !.dockZoomed = FALSE]
  OBVIOUS
<1>2. PICK y : y = [x EXCEPT !.zoomedPane = Way!NoPane]
  OBVIOUS
<1>3. Sets(u, x) /\ Sets(x, y)
  BY <1>1, <1>2 DEF Sets
<1>4. FocusFits(x)
  BY <1>3, SettingFits
<1>5. FocusFits(y)
  BY <1>3, <1>4, SettingFits
<1>6. u.dockOpen \in BOOLEAN /\ u.pane \in PaneIds
  BY DEF FocusFits, Formed, Interfaces
<1>7. \/ v = y
      \/ v = [y EXCEPT !.dockZoomed = u.dockOpen]
      \/ v = [y EXCEPT !.zoomedPane = u.pane]
  BY <1>1, <1>2 DEF Way!ToggleZoom
<1>8. v = y \/ Sets(y, v)
  BY <1>6, <1>7 DEF Sets
<1> QED BY <1>5, <1>8, SettingFits

\* `esc`, from a region that is not a pane.
LEMMA FocusBackIs ==
    ASSUME NEW u, FocusFits(u), NEW v, v = Way!FocusBack(u)
    PROVE  /\ FocusFits(v)
           /\ u.focus # "Editor" /\ u.cameFrom # <<>> /\ Way!Last(u.cameFrom) # Way!Here(u) =>
                 Way!Here(v) = Way!Last(u.cameFrom)
<1>0. Formed(u) /\ WayLeads(u)
  BY DEF FocusFits
<1>1. PICK g : g = Way!GoBack(u)
  OBVIOUS
<1>2. /\ Formed(g) /\ SameRegions(u, g)
      /\ Way!CanGoBack(u) => FocusFits(g)
      /\ ~Way!CanGoBack(u) => g.cameFrom = <<>> /\ g.focus = u.focus /\ g.pane = u.pane
      /\ u.cameFrom # <<>> /\ Way!Last(u.cameFrom) # Way!Here(u) =>
            Way!CanGoBack(u) /\ Way!Here(g) = Way!Last(u.cameFrom)
  BY <1>0, <1>1, GoBackIs
<1>3. CASE u.focus = "Editor"
  <2>1. v = u
    BY <1>3 DEF Way!FocusBack
  <2> QED BY <1>3, <2>1
<1>4. CASE u.focus # "Editor" /\ Way!CanGoBack(u)
  <2>1. v = g
    BY <1>1, <1>4 DEF Way!FocusBack
  <2> QED BY <1>2, <1>4, <2>1
<1>5. CASE u.focus # "Editor" /\ ~Way!CanGoBack(u)
  <2>1. PICK place : place = Way!PaneAt(u.pane)
    OBVIOUS
  <2>2. v = Way!Arrive(g, place)
    BY <1>1, <1>5, <2>1 DEF Way!FocusBack
  <2>3. place \in Way!Places
    BY <1>0, <2>1, PlaceIsOf DEF Formed, Interfaces
  <2>4. Way!IsThere(u, place)
    BY <1>0, <2>1, ThereIs DEF Formed, PanesFit
  <2>5. Way!IsThere(g, place)
    BY <1>2, <2>3, <2>4, ThereToo
  <2>6. /\ Formed(v) /\ SameRegions(g, v) /\ v.cameFrom = g.cameFrom /\ KeysHaveRoom(v)
    BY <1>2, <2>2, <2>3, <2>5, ArriveIs
  <2>7. WayLeads(v)
    BY <1>2, <1>5, <2>6 DEF WayLeads
  <2> QED BY <1>2, <1>5, <2>6, <2>7 DEF FocusFits
<1> QED BY <1>3, <1>4, <1>5

\* Going somewhere and pressing `esc` returns to where the keys were.
LEMMA EscReturns ==
    ASSUME NEW u, FocusFits(u), NEW place \in {Way!Dock, Way!Bottom, Way!StatusBar},
           Way!IsThere(u, place), place # Way!Here(u)
    PROVE  Way!Here(Way!FocusBack(Way!SetFocus(u, place.at))) = Way!Here(u)
<1>1. PICK v : v = Way!SetFocus(u, place.at)
  OBVIOUS
<1>2. PICK w : w = Way!FocusBack(v)
  OBVIOUS
<1>3. /\ place.at \in {"Tree", "BottomDock", "Status"}
      /\ place.at = "Tree" => place = Way!Dock
      /\ place.at = "BottomDock" => place = Way!Bottom
      /\ place.at = "Status" => place = Way!StatusBar
  BY PlacesApart
<1>4. place.at \in Way!Focus /\ RoomIn(u, place.at)
  <2>1. (Way!IsThere(u, Way!Dock) <=> u.dockOpen) /\ (Way!IsThere(u, Way!Bottom) <=> u.bottomOpen)
    BY ThereIs
  <2> QED BY <1>3, <2>1 DEF Way!Focus, RoomIn
<1>5. place.at # u.focus
  <2>1. u.focus \in Way!Focus
    BY DEF FocusFits, Formed, Interfaces
  <2> QED BY <1>3, <2>1, HereIs
<1>6. /\ FocusFits(v) /\ v.focus = place.at
      /\ v.cameFrom # <<>> /\ Way!Last(v.cameFrom) = Way!Here(u)
  BY <1>1, <1>4, <1>5, SetFocusFits
<1>7. Way!Here(v) = place
  BY <1>3, <1>4, <1>6, HereIs
<1>8. Way!Here(w) = Way!Here(u)
  BY <1>2, <1>3, <1>6, <1>7, FocusBackIs
<1> QED BY <1>1, <1>2, <1>8

\* Another pane becomes the current one.
LEMMA OtherPane ==
    ASSUME NEW place, NEW u, FitsBut(u, place), NEW id \in Way!Panes(u),
           NEW v, v = [u EXCEPT !.pane = id]
    PROVE  FitsBut(v, place) /\ SameRegions(u, v) /\ v.focus = u.focus /\ v.pane = id
<1>1. Formed(u) /\ u \in Interfaces /\ PanesFit(u) /\ KeysHaveRoom(u)
  BY DEF FitsBut, Formed
<1>2. id \in PaneIds
  BY <1>1 DEF Interfaces, Way!Panes, Way!Range
<1>3. v \in Interfaces
  BY <1>1, <1>2 DEF Interfaces
<1>4. /\ v.panes = u.panes /\ v.nextPane = u.nextPane
      /\ v.dockOpen = u.dockOpen /\ v.bottomOpen = u.bottomOpen
      /\ v.focus = u.focus /\ v.pane = id /\ v.cameFrom = u.cameFrom
  BY <1>1 DEF Interfaces
<1>5. PanesFit(v)
  BY <1>1, <1>4 DEF PanesFit, Way!Panes
<1>6. Formed(v) /\ KeysHaveRoom(v) /\ SameRegions(u, v)
  BY <1>1, <1>3, <1>4, <1>5 DEF Formed, KeysHaveRoom, SameRegions
<1>7. \A n \in DOMAIN v.cameFrom : \E m \in DOMAIN u.cameFrom : v.cameFrom[n] = u.cameFrom[m]
  BY <1>4
<1> QED BY <1>4, <1>6, <1>7, LeadsBut

LEMMA ZoomBut ==
    ASSUME NEW place, NEW u, FitsBut(u, place), NEW zoomed \in {Way!NoPane} \cup PaneIds,
           NEW v, v = [u EXCEPT !.zoomedPane = zoomed]
    PROVE  FitsBut(v, place) /\ SameRegions(u, v) /\ SameKeys(u, v)
<1>1. Formed(u) /\ u \in Interfaces /\ PanesFit(u) /\ KeysHaveRoom(u)
  BY DEF FitsBut, Formed
<1>2. Sets(u, v)
  BY DEF Sets
<1>3. v \in Interfaces /\ SameRegions(u, v) /\ SameKeys(u, v)
  BY <1>1, <1>2, SettingIs
<1>4. PanesFit(v) /\ KeysHaveRoom(v)
  BY <1>1, <1>3 DEF PanesFit, SameRegions, SameKeys, Way!Panes, KeysHaveRoom
<1>5. Formed(v)
  BY <1>1, <1>3, <1>4 DEF Formed, SameKeys
<1>6. \A n \in DOMAIN v.cameFrom : \E m \in DOMAIN u.cameFrom : v.cameFrom[n] = u.cameFrom[m]
  BY <1>3 DEF SameKeys
<1> QED BY <1>3, <1>4, <1>5, <1>6, LeadsBut

LEMMA MakeCurrentBut ==
    ASSUME NEW place, NEW u, FitsBut(u, place), NEW id \in Way!Panes(u),
           NEW v, v = Way!MakeCurrent(u, id)
    PROVE  FitsBut(v, place) /\ SameRegions(u, v) /\ v.focus = "Editor" /\ v.pane = id
<1>1. PICK w : w = IF u.focus = "Editor" /\ id # u.pane THEN Way!Remember(u) ELSE u
  OBVIOUS
<1>2. PICK x : x = [w EXCEPT !.pane = id]
  OBVIOUS
<1>3. PICK zoomed : zoomed = IF w.zoomedPane = id THEN w.zoomedPane ELSE Way!NoPane
  OBVIOUS
<1>4. PICK y : y = [x EXCEPT !.zoomedPane = zoomed]
  OBVIOUS
<1>5. v = Way!SetFocus(y, "Editor")
  BY <1>1, <1>2, <1>3, <1>4 DEF Way!MakeCurrent
<1>6. FitsBut(w, place) /\ SameRegions(u, w)
  <2>1. CASE u.focus = "Editor" /\ id # u.pane
    <3>1. w = Way!Remember(u)
      BY <1>1, <2>1
    <3> QED BY <3>1, RememberFits
  <2>2. CASE ~(u.focus = "Editor" /\ id # u.pane)
    <3>1. w = u
      BY <1>1, <2>2
    <3> QED BY <3>1 DEF SameRegions
  <2> QED BY <2>1, <2>2
<1>7. id \in Way!Panes(w) /\ id \in PaneIds
  <2>1. id \in PaneIds
    BY DEF FitsBut, Formed, Interfaces, Way!Panes, Way!Range
  <2> QED BY <1>6, <2>1 DEF SameRegions, Way!Panes
<1>8. FitsBut(x, place) /\ SameRegions(w, x) /\ x.pane = id
  BY <1>2, <1>6, <1>7, OtherPane
<1>9. zoomed \in {Way!NoPane} \cup PaneIds
  BY <1>3, <1>7
<1>10. FitsBut(y, place) /\ SameRegions(x, y) /\ SameKeys(x, y)
  BY <1>4, <1>8, <1>9, ZoomBut
<1>11. "Editor" \in Way!Focus /\ RoomIn(y, "Editor")
  BY DEF Way!Focus, RoomIn
<1>12. FitsBut(v, place) /\ SameRegions(y, v) /\ v.focus = "Editor" /\ v.pane = y.pane
  BY <1>5, <1>10, <1>11, SetFocusBut
<1>13. SameRegions(u, v)
  BY <1>6, <1>8, <1>10, <1>12 DEF SameRegions
<1> QED BY <1>8, <1>10, <1>12, <1>13 DEF SameKeys

LEMMA MakeCurrentFits ==
    ASSUME NEW u, FocusFits(u), NEW id \in Way!Panes(u), NEW v, v = Way!MakeCurrent(u, id)
    PROVE  FocusFits(v) /\ SameRegions(u, v) /\ v.focus = "Editor" /\ v.pane = id
  BY AllFits, MakeCurrentBut

LEMMA ShowFits ==
    ASSUME NEW u, FocusFits(u), NEW id \in Way!Panes(u), NEW v, v = Way!Show(u, id)
    PROVE  FocusFits(v)
<1>1. PICK w : w = [u EXCEPT !.pane = id]
  OBVIOUS
<1>2. FocusFits(w)
  BY <1>1, AllFits, OtherPane
<1>3. v = Way!SetFocus(w, "Editor")
  BY <1>1 DEF Way!Show
<1> QED BY <1>2, <1>3, ToTheEditor

LEMMA PressPaneFits ==
    ASSUME NEW u, FocusFits(u), NEW id \in Way!Panes(u), NEW part \in {"zoom", "text", "tab row"},
           NEW v, v = Way!PressPane(u, id, part)
    PROVE  FocusFits(v)
<1>1. PICK r : r = Way!Remember(u)
  OBVIOUS
<1>2. PICK w : w = IF id = u.pane THEN u
                   ELSE IF u.focus = "Editor" THEN [r EXCEPT !.pane = id]
                   ELSE [u EXCEPT !.pane = id]
  OBVIOUS
<1>3. FitsBut(u, Way!StatusBar) /\ FitsBut(r, Way!StatusBar) /\ id \in Way!Panes(r)
  <2>1. FitsBut(u, Way!StatusBar)
    BY AllFits
  <2>2. FitsBut(r, Way!StatusBar) /\ SameRegions(u, r)
    BY <1>1, <2>1, RememberFits
  <2> QED BY <2>1, <2>2 DEF SameRegions, Way!Panes
<1>4. FocusFits(w)
  <2>1. CASE id = u.pane
    BY <1>2, <2>1
  <2>2. CASE id # u.pane /\ u.focus = "Editor"
    <3>1. w = [r EXCEPT !.pane = id]
      BY <1>2, <2>2
    <3> QED BY <1>3, <3>1, AllFits, OtherPane
  <2>3. CASE id # u.pane /\ u.focus # "Editor"
    <3>1. w = [u EXCEPT !.pane = id]
      BY <1>2, <2>3
    <3> QED BY <1>3, <3>1, AllFits, OtherPane
  <2> QED BY <2>1, <2>2, <2>3
<1>5. PICK x : x = Way!SetFocus(w, "Editor")
  OBVIOUS
<1>6. FocusFits(x)
  BY <1>4, <1>5, ToTheEditor
<1>7. v = Way!ToggleZoom(x) \/ v = x \/ v = w
  BY <1>1, <1>2, <1>5 DEF Way!PressPane
<1> QED BY <1>4, <1>6, <1>7, ToggleZoomFits

-----------------------------------------------------------------------------
(***************************************************************************)
(* The `f6` walk.                                                          *)
(***************************************************************************)
LEMMA JoinedIs ==
    ASSUME NEW S, NEW s \in Seq(S), NEW t \in Seq(S),
           Way!IsInjective(s), Way!IsInjective(t),
           \A x \in Way!Range(s) : x \notin Way!Range(t)
    PROVE  /\ s \o t \in Seq(S) /\ Way!IsInjective(s \o t)
           /\ Way!Range(s \o t) = Way!Range(s) \cup Way!Range(t)
           /\ Len(s \o t) = Len(s) + Len(t)
<1>1. /\ s \o t \in Seq(S) /\ Len(s \o t) = Len(s) + Len(t)
      /\ Len(s) \in Nat /\ Len(t) \in Nat
      /\ \A n \in 1..(Len(s) + Len(t)) :
            (s \o t)[n] = IF n <= Len(s) THEN s[n] ELSE t[n - Len(s)]
  BY ConcatProperties
<1>2. PICK r : r = s \o t
  OBVIOUS
<1>3. /\ DOMAIN s = 1..Len(s) /\ DOMAIN t = 1..Len(t) /\ DOMAIN r = 1..(Len(s) + Len(t))
      /\ \A n \in 1..(Len(s) + Len(t)) : r[n] = IF n <= Len(s) THEN s[n] ELSE t[n - Len(s)]
  <2>1. DOMAIN s = 1..Len(s) /\ DOMAIN t = 1..Len(t) /\ DOMAIN r = 1..Len(r)
    BY <1>1, <1>2
  <2>2. Len(r) = Len(s) + Len(t)
    BY <1>1, <1>2
  <2> QED BY <1>1, <1>2, <2>1, <2>2
<1>4. \A n \in DOMAIN r : \/ n \in DOMAIN s /\ r[n] = s[n]
                          \/ n - Len(s) \in DOMAIN t /\ n > Len(s) /\ r[n] = t[n - Len(s)]
  BY <1>1, <1>3
<1>5. /\ \A n \in DOMAIN s : n \in DOMAIN r /\ r[n] = s[n]
      /\ \A n \in DOMAIN t : n + Len(s) \in DOMAIN r /\ r[n + Len(s)] = t[n]
  BY <1>1, <1>3
<1>6. Way!Range(r) = Way!Range(s) \cup Way!Range(t)
  <2>1. ASSUME NEW x \in Way!Range(r) PROVE x \in Way!Range(s) \cup Way!Range(t)
    BY <1>4 DEF Way!Range
  <2>2. ASSUME NEW x \in Way!Range(s) PROVE x \in Way!Range(r)
    BY <1>5 DEF Way!Range
  <2>3. ASSUME NEW x \in Way!Range(t) PROVE x \in Way!Range(r)
    BY <1>5 DEF Way!Range
  <2> QED BY <2>1, <2>2, <2>3
<1>7. ASSUME NEW m \in DOMAIN r, NEW n \in DOMAIN r, r[m] = r[n]  PROVE m = n
  <2>1. m \in Nat /\ n \in Nat
    BY <1>1, <1>3
  <2>2. CASE m \in DOMAIN s /\ r[m] = s[m] /\ n \in DOMAIN s /\ r[n] = s[n]
    BY <1>7, <2>2 DEF Way!IsInjective
  <2>3. CASE /\ m - Len(s) \in DOMAIN t /\ r[m] = t[m - Len(s)]
             /\ n - Len(s) \in DOMAIN t /\ r[n] = t[n - Len(s)]
    <3>1. m - Len(s) = n - Len(s)
      BY <1>7, <2>3 DEF Way!IsInjective
    <3> QED BY <1>1, <2>1, <3>1
  <2>4. CASE m \in DOMAIN s /\ r[m] = s[m] /\ n - Len(s) \in DOMAIN t /\ r[n] = t[n - Len(s)]
    BY <1>7, <2>4 DEF Way!Range
  <2>5. CASE n \in DOMAIN s /\ r[n] = s[n] /\ m - Len(s) \in DOMAIN t /\ r[m] = t[m - Len(s)]
    BY <1>7, <2>5 DEF Way!Range
  <2> QED BY <1>4, <2>2, <2>3, <2>4, <2>5
<1>8. Way!IsInjective(r)
  BY <1>7 DEF Way!IsInjective
<1> QED BY <1>1, <1>2, <1>6, <1>8

LEMMA OneStop ==
    ASSUME NEW place \in Way!Places
    PROVE  /\ <<place>> \in Seq(Way!Places) /\ Way!IsInjective(<<place>>)
           /\ Way!Range(<<place>>) = {place} /\ Len(<<place>>) = 1
<1>1. <<place>> \in Seq(Way!Places) /\ Len(<<place>>) = 1 /\ DOMAIN <<place>> = {1}
  OBVIOUS
<1>2. <<place>>[1] = place
  OBVIOUS
<1> QED BY <1>1, <1>2 DEF Way!IsInjective, Way!Range

LEMMA NoStop ==
    /\ <<>> \in Seq(Way!Places) /\ Way!IsInjective(<<>>) /\ Way!Range(<<>>) = {} /\ Len(<<>>) = 0
<1>1. <<>> \in Seq(Way!Places) /\ Len(<<>>) = 0 /\ DOMAIN <<>> = {}
  BY EmptySeq
<1> QED BY <1>1 DEF Way!IsInjective, Way!Range

\* The walk stops at every region that is open, once.
LEMMA WalkIs ==
    ASSUME NEW u, Formed(u), NEW walk, walk = Way!Walk(u)
    PROVE  /\ walk \in Seq(Way!Places) /\ Way!IsInjective(walk)
           /\ Len(walk) \in Nat \ {0}
           /\ \A place \in Way!Places : Way!IsThere(u, place) <=> place \in Way!Range(walk)
<1>0. /\ u.panes \in Seq(PaneIds) /\ Way!IsInjective(u.panes)
      /\ u.dockOpen \in BOOLEAN /\ u.bottomOpen \in BOOLEAN
  <2>1. u \in Interfaces /\ PanesFit(u)
    BY DEF Formed
  <2> QED BY <2>1 DEF Interfaces, PanesFit
<1>1. PICK a : a = IF u.dockOpen THEN <<Way!Dock>> ELSE <<>>
  OBVIOUS
<1>2. PICK b : b = [n \in DOMAIN u.panes |-> Way!PaneAt(u.panes[n])]
  OBVIOUS
<1>3. PICK c : c = IF u.bottomOpen THEN <<Way!Bottom>> ELSE <<>>
  OBVIOUS
<1>4. PICK d : d = <<Way!StatusBar>>
  OBVIOUS
<1>5. /\ a \in Seq(Way!Places) /\ Way!IsInjective(a)
      /\ Way!Range(a) = IF u.dockOpen THEN {Way!Dock} ELSE {}
  <2>1. CASE u.dockOpen
    <3>1. a = <<Way!Dock>>
      BY <1>1, <2>1
    <3> QED BY <2>1, <3>1, OneStop, PlaceIsOf
  <2>2. CASE ~u.dockOpen
    <3>1. a = <<>>
      BY <1>1, <2>2
    <3> QED BY <2>2, <3>1, NoStop
  <2> QED BY <2>1, <2>2
<1>6. /\ b \in Seq(Way!Places) /\ Way!IsInjective(b)
      /\ Way!Range(b) = {Way!PaneAt(id) : id \in Way!Panes(u)}
  <2>1. /\ DOMAIN u.panes = 1..Len(u.panes) /\ Len(u.panes) \in Nat
        /\ \A n \in DOMAIN u.panes : u.panes[n] \in PaneIds
    BY <1>0
  <2>2. DOMAIN b = DOMAIN u.panes /\ \A n \in DOMAIN b : b[n] = Way!PaneAt(u.panes[n])
    BY <1>2
  <2>3. b \in Seq(Way!Places)
    <3>1. \A n \in 1..Len(u.panes) : Way!PaneAt(u.panes[n]) \in Way!Places
      BY <2>1, PlaceIsOf
    <3>2. b \in [1..Len(u.panes) -> Way!Places]
      BY <1>2, <2>1, <3>1
    <3> QED BY <2>1, <3>2, SeqDef
  <2>4. Way!IsInjective(b)
    <3>1. \A m, n \in DOMAIN u.panes : u.panes[m] = u.panes[n] => m = n
      BY <1>0 DEF Way!IsInjective
    <3>2. ASSUME NEW m \in DOMAIN b, NEW n \in DOMAIN b, b[m] = b[n] PROVE m = n
      <4>1. u.panes[m] = u.panes[n]
        BY <2>2, <3>2, PlacesApart
      <4> QED BY <2>2, <3>1, <4>1
    <3> QED BY <3>2 DEF Way!IsInjective
  <2>5. Way!Range(b) = {Way!PaneAt(id) : id \in Way!Panes(u)}
    BY <2>2 DEF Way!Range, Way!Panes
  <2> QED BY <2>3, <2>4, <2>5
<1>7. /\ c \in Seq(Way!Places) /\ Way!IsInjective(c)
      /\ Way!Range(c) = IF u.bottomOpen THEN {Way!Bottom} ELSE {}
  <2>1. CASE u.bottomOpen
    <3>1. c = <<Way!Bottom>>
      BY <1>3, <2>1
    <3> QED BY <2>1, <3>1, OneStop, PlaceIsOf
  <2>2. CASE ~u.bottomOpen
    <3>1. c = <<>>
      BY <1>3, <2>2
    <3> QED BY <2>2, <3>1, NoStop
  <2> QED BY <2>1, <2>2
<1>8. /\ d \in Seq(Way!Places) /\ Way!IsInjective(d)
      /\ Way!Range(d) = {Way!StatusBar} /\ Len(d) = 1
  BY <1>4, OneStop, PlaceIsOf
<1>9. PICK e : e = a \o b
  OBVIOUS
<1>10. /\ e \in Seq(Way!Places) /\ Way!IsInjective(e)
       /\ Way!Range(e) = Way!Range(a) \cup Way!Range(b)
  <2>1. \A x \in Way!Range(a) : x \notin Way!Range(b)
    BY <1>5, <1>6, PlacesApart
  <2> QED BY <1>5, <1>6, <1>9, <2>1, JoinedIs
<1>11. PICK f : f = e \o c
  OBVIOUS
<1>12. /\ f \in Seq(Way!Places) /\ Way!IsInjective(f)
       /\ Way!Range(f) = Way!Range(e) \cup Way!Range(c)
  <2>1. \A x \in Way!Range(e) : x \notin Way!Range(c)
    BY <1>5, <1>6, <1>7, <1>10, PlacesApart
  <2> QED BY <1>7, <1>10, <1>11, <2>1, JoinedIs
<1>13. walk = f \o d
  <2>1. Way!Walk(u) = ((a \o b) \o c) \o d
    BY <1>1, <1>2, <1>3, <1>4 DEF Way!Walk
  <2> QED BY <1>9, <1>11, <2>1
<1>14. /\ walk \in Seq(Way!Places) /\ Way!IsInjective(walk)
       /\ Way!Range(walk) = Way!Range(f) \cup Way!Range(d)
       /\ Len(walk) = Len(f) + Len(d)
  <2>1. \A x \in Way!Range(f) : x \notin Way!Range(d)
    BY <1>5, <1>6, <1>7, <1>8, <1>10, <1>12, PlacesApart
  <2>2. PICK g : g = f \o d
    OBVIOUS
  <2>3. /\ g \in Seq(Way!Places) /\ Way!IsInjective(g)
        /\ Way!Range(g) = Way!Range(f) \cup Way!Range(d)
    BY <1>8, <1>12, <2>1, <2>2, JoinedIs
  <2>4. Len(g) = Len(f) + Len(d)
    <3>1. f \in Seq(Way!Places) /\ d \in Seq(Way!Places)
      BY <1>8, <1>12
    <3> QED BY <2>2, <3>1, ConcatProperties
  <2> QED BY <1>13, <2>2, <2>3, <2>4
<1>15. Len(walk) \in Nat \ {0}
  <2>1. Len(f) \in Nat
    BY <1>12
  <2> QED BY <1>8, <1>14, <2>1
<1>16. ASSUME NEW place \in Way!Places
       PROVE  Way!IsThere(u, place) <=> place \in Way!Range(walk)
  <2>1. place \in Way!Range(walk) <=>
            \/ u.dockOpen /\ place = Way!Dock
            \/ \E id \in Way!Panes(u) : place = Way!PaneAt(id)
            \/ u.bottomOpen /\ place = Way!Bottom
            \/ place = Way!StatusBar
    BY <1>5, <1>6, <1>7, <1>8, <1>10, <1>12, <1>14
  <2>2. CASE place = Way!Dock
    BY <2>1, <2>2, ThereIs, PlacesApart
  <2>3. CASE place = Way!Bottom
    BY <2>1, <2>3, ThereIs, PlacesApart
  <2>4. CASE place = Way!StatusBar
    BY <2>1, <2>4, ThereIs, PlacesApart
  <2>5. CASE \E id \in PaneIds : place = Way!PaneAt(id)
    BY <2>1, <2>5, ThereIs, PlacesApart
  <2> QED BY <2>2, <2>3, <2>4, <2>5, PlaceIsOf
<1> QED BY <1>14, <1>15, <1>16

\* One stop on, or back, round a walk of `N` stops.
LEMMA RoundTheWalk ==
    ASSUME NEW N \in Nat \ {0}, NEW a \in 1..N
    PROVE  /\ ((a - 1 + 1) % N) + 1 = IF a = N THEN 1 ELSE a + 1
           /\ ((a - 1 + (-1)) % N) + 1 = IF a = 1 THEN N ELSE a - 1
<1>1. CASE a = N
  BY <1>1
<1>2. CASE a # N
  BY <1>2
<1> QED BY <1>1, <1>2

LEMMA StepFocusIs ==
    ASSUME NEW u, FocusFits(u), NEW delta \in {-1, 1}, NEW v, v = Way!StepFocus(u, delta),
           NEW walk, walk = Way!Walk(u)
    PROVE  /\ FocusFits(v) /\ SameRegions(u, v)
           /\ Way!Here(u) \in Way!Range(walk)
           /\ \A a \in DOMAIN walk : walk[a] = Way!Here(u) =>
                 /\ delta = 1 => Way!Here(v) = walk[IF a = Len(walk) THEN 1 ELSE a + 1]
                 /\ delta = -1 => Way!Here(v) = walk[IF a = 1 THEN Len(walk) ELSE a - 1]
<1>0. Formed(u) /\ KeysHaveRoom(u)
  BY DEF FocusFits
<1>1. /\ walk \in Seq(Way!Places) /\ Way!IsInjective(walk)
      /\ Len(walk) \in Nat \ {0}
      /\ \A place \in Way!Places : Way!IsThere(u, place) <=> place \in Way!Range(walk)
  BY <1>0, WalkIs
<1>2. PICK here : here = Way!Here(u)
  OBVIOUS
<1>3. here \in Way!Range(walk)
  BY <1>0, <1>1, <1>2, HereIsThere
<1>4. DOMAIN walk = 1..Len(walk)
  BY <1>1
<1>5. PICK at \in 1..Len(walk) : walk[at] = here
  BY <1>3, <1>4 DEF Way!Range
<1>6. \A a \in DOMAIN walk : walk[a] = here => a = at
  BY <1>1, <1>4, <1>5 DEF Way!IsInjective
<1>7. PICK k : k = ((at - 1 + delta) % Len(walk)) + 1
  OBVIOUS
<1>8. /\ delta = 1 => k = IF at = Len(walk) THEN 1 ELSE at + 1
      /\ delta = -1 => k = IF at = 1 THEN Len(walk) ELSE at - 1
      /\ k \in 1..Len(walk)
  <2>1. CASE delta = 1
    <3>1. k = IF at = Len(walk) THEN 1 ELSE at + 1
      BY <1>1, <1>5, <1>7, <2>1, RoundTheWalk
    <3> QED BY <1>1, <1>5, <2>1, <3>1
  <2>2. CASE delta = -1
    <3>1. k = IF at = 1 THEN Len(walk) ELSE at - 1
      BY <1>1, <1>5, <1>7, <2>2, RoundTheWalk
    <3> QED BY <1>1, <1>5, <2>2, <3>1
  <2> QED BY <2>1, <2>2
<1>9. PICK next : next = walk[k]
  OBVIOUS
<1>10. v = IF next.at = "Editor" THEN Way!MakeCurrent(u, next.pane) ELSE Way!SetFocus(u, next.at)
  <2>1. Way!Contains(walk, here)
    BY <1>5 DEF Way!Contains
  <2>2. (CHOOSE n \in DOMAIN walk : walk[n] = here) = at
    BY <1>4, <1>5, <1>6
  <2>3. v = LET i == IF Way!Contains(walk, here) THEN CHOOSE n \in DOMAIN walk : walk[n] = here
                     ELSE 1
                stop == walk[((i - 1 + delta) % Len(walk)) + 1]
            IN  IF stop.at = "Editor" THEN Way!MakeCurrent(u, stop.pane)
                ELSE Way!SetFocus(u, stop.at)
    BY <1>2 DEF Way!StepFocus
  <2> QED BY <1>7, <1>9, <2>1, <2>2, <2>3
<1>11. next \in Way!Places /\ Way!IsThere(u, next)
  <2>1. next \in Way!Places /\ next \in Way!Range(walk)
    BY <1>1, <1>4, <1>8, <1>9 DEF Way!Range
  <2> QED BY <1>1, <2>1
<1>12. FocusFits(v) /\ SameRegions(u, v) /\ Way!Here(v) = next
  <2>1. CASE next \in {Way!Dock, Way!Bottom, Way!StatusBar}
    <3>1. /\ next.at \in {"Tree", "BottomDock", "Status"}
          /\ next.at = "Tree" => next = Way!Dock
          /\ next.at = "BottomDock" => next = Way!Bottom
          /\ next.at = "Status" => next = Way!StatusBar
      BY <2>1, PlacesApart
    <3>2. v = Way!SetFocus(u, next.at)
      BY <1>10, <3>1
    <3>3. next.at \in Way!Focus /\ RoomIn(u, next.at)
      <4>1. (Way!IsThere(u, Way!Dock) <=> u.dockOpen) /\ (Way!IsThere(u, Way!Bottom) <=> u.bottomOpen)
        BY <1>0, ThereIs
      <4> QED BY <1>11, <3>1, <4>1 DEF Way!Focus, RoomIn
    <3>4. FocusFits(v) /\ SameRegions(u, v) /\ v.focus = next.at
      BY <3>2, <3>3, SetFocusFits
    <3> QED BY <3>1, <3>3, <3>4, HereIs
  <2>2. CASE \E id \in PaneIds : next = Way!PaneAt(id)
    <3>1. PICK id \in PaneIds : next = Way!PaneAt(id)
      BY <2>2
    <3>2. next.at = "Editor" /\ next.pane = id /\ id \in Way!Panes(u)
      BY <1>11, <3>1, PlacesApart, ThereIs
    <3>3. v = Way!MakeCurrent(u, id)
      BY <1>10, <3>2
    <3>4. FocusFits(v) /\ SameRegions(u, v) /\ v.focus = "Editor" /\ v.pane = id
      BY <3>2, <3>3, MakeCurrentFits
    <3>5. "Editor" \in Way!Focus
      BY DEF Way!Focus
    <3> QED BY <3>1, <3>4, <3>5, HereIs
  <2> QED BY <1>11, <2>1, <2>2, PlaceIsOf
<1>13. ASSUME NEW a \in DOMAIN walk, walk[a] = here
       PROVE  /\ delta = 1 => Way!Here(v) = walk[IF a = Len(walk) THEN 1 ELSE a + 1]
              /\ delta = -1 => Way!Here(v) = walk[IF a = 1 THEN Len(walk) ELSE a - 1]
  <2>1. a = at
    BY <1>6, <1>13
  <2> QED BY <1>8, <1>9, <1>12, <2>1
<1> QED BY <1>2, <1>3, <1>12, <1>13

\* The walk is one function of the number of steps, which solves its recursion.
RoundStep(round, n, u) == IF n = 0 THEN u ELSE Way!StepFocus(round[n - 1], 1)
IsRound(round, N, u) == round = [n \in 0..N |-> RoundStep(round, n, u)]

LEMMA RoundExists ==
    ASSUME NEW u, NEW N \in Nat
    PROVE  \E round : IsRound(round, N, u)
<1> DEFINE T == {k \in 0..N : \E f : IsRound(f, k, u)}
<1>1. 0 \in T
  <2> DEFINE f == [m \in 0..0 |-> u]
  <2>1. \A m \in 0..0 : f[m] = RoundStep(f, m, u)
    BY DEF RoundStep
  <2>2. f = [m \in 0..0 |-> f[m]]
    OBVIOUS
  <2> HIDE DEF f
  <2>3. IsRound(f, 0, u)
    BY <2>1, <2>2 DEF IsRound
  <2> QED BY <2>3
<1>2. ASSUME NEW k \in 1..N, k - 1 \in T PROVE k \in T
  <2>1. PICK f : f = [m \in 0..(k - 1) |-> RoundStep(f, m, u)]
    BY <1>2 DEF IsRound
  <2> DEFINE g == [m \in 0..k |-> IF m = k THEN RoundStep(f, k, u) ELSE f[m]]
  <2>2. \A m \in 0..k : g[m] = RoundStep(g, m, u)
    <3> SUFFICES ASSUME NEW m \in 0..k PROVE g[m] = RoundStep(g, m, u)
      OBVIOUS
    <3>1. m # 0 => m - 1 \in 0..(k - 1) /\ g[m - 1] = f[m - 1]
      OBVIOUS
    <3>2. CASE m = k
      BY <3>1, <3>2 DEF RoundStep
    <3>3. CASE m # k
      <4>1. m \in 0..(k - 1) /\ g[m] = f[m]
        BY <3>3
      <4>2. f[m] = RoundStep(f, m, u)
        BY <2>1, <4>1
      <4> QED BY <3>1, <4>1, <4>2 DEF RoundStep
    <3> QED BY <3>2, <3>3
  <2>3. g = [m \in 0..k |-> g[m]]
    OBVIOUS
  <2> HIDE DEF g
  <2>4. IsRound(g, k, u)
    BY <2>2, <2>3 DEF IsRound
  <2> QED BY <2>4
<1> HIDE DEF T
<1>3. N \in T
  BY <1>1, <1>2, EveryNumber
<1> QED BY <1>3 DEF T

\* `n` stops on from the stop `a`.
Turned(a, n, N) == IF a + n <= N THEN a + n ELSE a + n - N

\* `f6` as often as there are stops visits each of them and comes back.
LEMMA FocusGoesRound ==
    ASSUME FocusFits(ui)
    PROVE  Way!WalkIsARing
<1>1. PICK walk : walk = Way!Walk(ui)
  OBVIOUS
<1>2. PICK N : N = Len(walk)
  OBVIOUS
<1>3. /\ walk \in Seq(Way!Places) /\ Way!IsInjective(walk) /\ N \in Nat \ {0}
      /\ \A place \in Way!Places : Way!IsThere(ui, place) <=> place \in Way!Range(walk)
  BY <1>1, <1>2, WalkIs DEF FocusFits
<1>4. DOMAIN walk = 1..N
  BY <1>2, <1>3
<1>5. PICK round : round = CHOOSE f : IsRound(f, N, ui)
  OBVIOUS
<1>6. IsRound(round, N, ui)
  BY <1>3, <1>5, RoundExists
<1>7. /\ round[0] = ui
      /\ \A n \in 1..N : round[n] = Way!StepFocus(round[n - 1], 1)
  <2>1. \A n \in 0..N : round[n] = RoundStep(round, n, ui)
    BY <1>6 DEF IsRound
  <2>2. 0 \in 0..N /\ \A n \in 1..N : n \in 0..N /\ n # 0
    BY <1>3
  <2> QED BY <2>1, <2>2 DEF RoundStep
<1>8. PICK here : here = Way!Here(ui)
  OBVIOUS
<1>9. PICK a \in 1..N : walk[a] = here
  <2>1. here \in Way!Range(walk)
    BY <1>3, <1>8, HereIsThere DEF FocusFits
  <2> QED BY <1>4, <2>1 DEF Way!Range
<1> DEFINE T == {n \in 0..N : /\ FocusFits(round[n]) /\ Way!Walk(round[n]) = walk
                              /\ Way!Here(round[n]) = walk[Turned(a, n, N)]}
<1>10. 0 \in T
  <2>1. 0 \in 0..N /\ Turned(a, 0, N) = a
    BY <1>3, <1>9 DEF Turned
  <2> QED BY <1>1, <1>7, <1>8, <1>9, <2>1
<1>11. ASSUME NEW n \in 1..N, n - 1 \in T PROVE n \in T
  <2>1. PICK u : u = round[n - 1]
    OBVIOUS
  <2>2. PICK v : v = round[n]
    OBVIOUS
  <2>3. PICK at : at = Turned(a, n - 1, N)
    OBVIOUS
  <2>4. FocusFits(u) /\ walk = Way!Walk(u) /\ Way!Here(u) = walk[at]
    BY <1>11, <2>1, <2>3
  <2>5. PICK one \in {-1, 1} : one = 1
    OBVIOUS
  <2>6. v = Way!StepFocus(u, one)
    BY <1>7, <2>1, <2>2, <2>5
  <2>7. /\ FocusFits(v) /\ SameRegions(u, v)
        /\ \A i \in DOMAIN walk : walk[i] = Way!Here(u) =>
              (one = 1 => Way!Here(v) = walk[IF i = Len(walk) THEN 1 ELSE i + 1])
    BY <2>4, <2>6, StepFocusIs
  <2>8. at \in 1..N /\ (IF at = N THEN 1 ELSE at + 1) = Turned(a, n, N)
    BY <1>3, <1>9, <2>3 DEF Turned
  <2>9. Way!Here(v) = walk[Turned(a, n, N)]
    BY <1>2, <1>4, <2>4, <2>5, <2>7, <2>8
  <2>10. Way!Walk(v) = walk
    <3>1. Way!Walk(v) = Way!Walk(u)
      BY <2>7 DEF Way!Walk, SameRegions
    <3> QED BY <2>4, <3>1
  <2>11. n \in 0..N
    BY <1>3
  <2> QED BY <2>2, <2>7, <2>9, <2>10, <2>11
<1> HIDE DEF T
<1>12. \A n \in 0..N : n \in T
  BY <1>3, <1>10, <1>11, EveryNumber
<1>13. \A n \in 0..N : /\ FocusFits(round[n]) /\ Way!Walk(round[n]) = walk
                       /\ Way!Here(round[n]) = walk[Turned(a, n, N)]
  BY <1>12 DEF T
<1>14. ASSUME NEW place \in Way!Places, Way!IsThere(ui, place)
       PROVE  \E n \in 1..N : Way!Here(round[n]) = place
  <2>1. PICK k \in 1..N : walk[k] = place
    BY <1>3, <1>4, <1>14 DEF Way!Range
  <2>2. PICK n : n = IF k > a THEN k - a ELSE k - a + N
    OBVIOUS
  <2>3. n \in 1..N /\ n \in 0..N /\ Turned(a, n, N) = k
    BY <1>3, <1>9, <2>1, <2>2 DEF Turned
  <2> QED BY <1>13, <2>1, <2>3
<1>15. Way!Here(round[N]) = here
  <2>1. N \in 0..N /\ Turned(a, N, N) = a
    BY <1>3, <1>9 DEF Turned
  <2> QED BY <1>9, <1>13, <2>1
<1>16. Way!Here(Way!StepFocus(round[1], -1)) = here
  <2>1. PICK u : u = round[1]
    OBVIOUS
  <2>2. PICK back \in {-1, 1} : back = -1
    OBVIOUS
  <2>3. PICK v : v = Way!StepFocus(u, back)
    OBVIOUS
  <2>4. PICK at : at = Turned(a, 1, N)
    OBVIOUS
  <2>5. FocusFits(u) /\ walk = Way!Walk(u) /\ Way!Here(u) = walk[at]
    <3>1. 1 \in 0..N
      BY <1>3
    <3> QED BY <1>13, <2>1, <2>4, <3>1
  <2>6. \A i \in DOMAIN walk : walk[i] = Way!Here(u) =>
            (back = -1 => Way!Here(v) = walk[IF i = 1 THEN Len(walk) ELSE i - 1])
    BY <2>3, <2>5, StepFocusIs
  <2>7. at \in 1..N /\ (IF at = 1 THEN N ELSE at - 1) = a
    BY <1>3, <1>9, <2>4 DEF Turned
  <2>8. Way!Here(v) = walk[a]
    BY <1>2, <1>4, <2>2, <2>5, <2>6, <2>7
  <2> QED BY <1>9, <2>1, <2>2, <2>3, <2>8
<1>17. Way!WalkIsARing <=>
          /\ \A place \in Way!Places : Way!IsThere(ui, place) =>
                \E n \in 1..N : Way!Here(round[n]) = place
          /\ Way!Here(round[N]) = Way!Here(ui)
          /\ Way!Here(Way!StepFocus(round[1], -1)) = Way!Here(ui)
  BY <1>1, <1>2, <1>5 DEF Way!WalkIsARing, IsRound, RoundStep
<1> QED BY <1>8, <1>14, <1>15, <1>16, <1>17

-----------------------------------------------------------------------------
(***************************************************************************)
(* Panes that come and go.                                                 *)
(***************************************************************************)
LEMMA SplitFits ==
    ASSUME NEW u, FocusFits(u), u.nextPane < WayPanes,
           NEW m \in 1..Len(u.panes),
           NEW v, v = Way!Split(u, Way!InsertAt(u.panes, m + 1, u.nextPane))
    PROVE  FocusFits(v)
<1>0. /\ u \in Interfaces /\ PanesFit(u) /\ Formed(u) /\ WayLeads(u) /\ KeysHaveRoom(u)
      /\ Len(u.cameFrom) <= StackDepth /\ u.cameFrom \in Seq(Way!Places)
  BY DEF FocusFits, Formed, Interfaces
<1>1. PICK ps : ps = u.panes
  OBVIOUS
<1>2. PICK id : id = u.nextPane
  OBVIOUS
<1>3. /\ ps \in Seq(PaneIds) /\ Way!IsInjective(ps) /\ id \in PaneIds /\ id + 1 \in 1..WayPanes
      /\ \A other \in Way!Range(ps) : other < id
      /\ WayPanes \in Nat /\ Way!Panes(u) = Way!Range(ps)
  <2>1. WayPanes \in Nat
    BY WayAssumption
  <2>2. id \in 1..WayPanes /\ id < WayPanes
    BY <1>0, <1>2 DEF Interfaces
  <2>3. id \in PaneIds /\ id + 1 \in 1..WayPanes
    BY <2>1, <2>2 DEF PaneIds
  <2>4. ps \in Seq(PaneIds) /\ Way!Panes(u) = Way!Range(ps)
    BY <1>0, <1>1 DEF Interfaces, Way!Panes
  <2>5. Way!IsInjective(ps) /\ \A other \in Way!Range(ps) : other < id
    BY <1>0, <1>1, <1>2, <2>4 DEF PanesFit
  <2> QED BY <2>1, <2>3, <2>4, <2>5
<1>4. /\ DOMAIN ps = 1..Len(ps) /\ Len(ps) \in Nat /\ m \in 1..Len(ps)
  BY <1>1, <1>3
<1>5. PICK s : s = SubSeq(ps, 1, m)
  OBVIOUS
<1>6. PICK t : t = SubSeq(ps, m + 1, Len(ps))
  OBVIOUS
<1>7. /\ s \in Seq(PaneIds) /\ Len(s) = m /\ DOMAIN s = 1..m
      /\ \A i \in 1..m : i \in 1..Len(ps) /\ s[i] = ps[i]
  <2>1. /\ 1 \in 1..(Len(ps) + 1) /\ m \in 0..Len(ps)
    BY <1>4
  <2>2. s \in Seq(PaneIds) /\ Len(s) = m
    BY <1>3, <1>4, <1>5, <2>1
  <2>3. \A i \in 1..m : i \in 1..Len(ps) /\ s[i] = ps[i]
    BY <1>3, <1>4, <1>5, <2>1
  <2> QED BY <2>2, <2>3
<1>8. /\ t \in Seq(PaneIds) /\ Len(t) = Len(ps) - m /\ DOMAIN t = 1..(Len(ps) - m)
      /\ \A i \in 1..(Len(ps) - m) : i + m \in 1..Len(ps) /\ t[i] = ps[i + m]
  <2>1. /\ m + 1 \in 1..(Len(ps) + 1) /\ Len(ps) \in 0..Len(ps)
    BY <1>4
  <2>2. PICK l : l = Len(ps)
    OBVIOUS
  <2>3. PICK k : k = m + 1
    OBVIOUS
  <2>4. /\ k \in 1..(l + 1) /\ l \in 0..l /\ t = SubSeq(ps, k, l) /\ l - k + 1 = l - m
        /\ \A i \in 1..(l - m) : i + m \in 1..l /\ k + i - 1 = i + m
    BY <1>4, <1>6, <2>2, <2>3
  <2>5. /\ t \in Seq(PaneIds) /\ Len(t) = (IF k <= l THEN l - k + 1 ELSE 0)
        /\ \A i \in 1..(l - k + 1) : t[i] = ps[k + i - 1]
    <3>1. \A i \in k..l : ps[i] \in PaneIds
      BY <1>3, <1>4, <2>2, <2>3
    <3>2. k \in Int /\ l \in Int
      BY <1>4, <2>2, <2>3
    <3> QED BY <2>4, <3>1, <3>2, SubSeqProperties
  <2>6. Len(t) = l - m /\ DOMAIN t = 1..(l - m)
    <3>1. (IF k <= l THEN l - k + 1 ELSE 0) = l - m
      <4>1. l \in Nat /\ m \in 1..l
        BY <1>4, <2>2
      <4> QED BY ONLY <2>3, <4>1
    <3>2. DOMAIN t = 1..Len(t)
      BY <2>5
    <3> QED BY <2>5, <3>1, <3>2
  <2>7. \A i \in 1..(l - m) : t[i] = ps[i + m]
    BY <2>4, <2>5
  <2> QED BY <2>2, <2>4, <2>5, <2>6, <2>7
<1>9. /\ Way!IsInjective(s) /\ Way!IsInjective(t)
      /\ \A x \in Way!Range(s) : x \notin Way!Range(t)
      /\ Way!Range(s) \cup Way!Range(t) = Way!Range(ps)
  <2>0. \A i, j \in 1..Len(ps) : ps[i] = ps[j] => i = j
    BY <1>3, <1>4 DEF Way!IsInjective
  <2>1. Way!IsInjective(s)
    BY <1>7, <2>0 DEF Way!IsInjective
  <2>2. Way!IsInjective(t)
    <3>1. ASSUME NEW i \in 1..(Len(ps) - m), NEW j \in 1..(Len(ps) - m), t[i] = t[j]
          PROVE  i = j
      <4>1. PICK k : k = i + m
        OBVIOUS
      <4>2. PICK l : l = j + m
        OBVIOUS
      <4>3. k \in 1..Len(ps) /\ l \in 1..Len(ps) /\ ps[k] = ps[l]
        BY <1>8, <3>1, <4>1, <4>2
      <4>4. k = l
        BY <2>0, <4>3
      <4> QED BY <1>4, <4>1, <4>2, <4>4
    <3> QED BY <1>8, <3>1 DEF Way!IsInjective
  <2>3. ASSUME NEW i \in 1..m, NEW j \in 1..(Len(ps) - m) PROVE s[i] # t[j]
    <3>1. i # j + m
      BY <1>4
    <3> QED BY <1>7, <1>8, <2>0, <3>1
  <2>4. \A x \in Way!Range(s) : x \notin Way!Range(t)
    BY <1>7, <1>8, <2>3 DEF Way!Range
  <2>5. Way!Range(s) \cup Way!Range(t) = Way!Range(ps)
    <3>1. \A k \in 1..Len(ps) : k \in 1..m \/ (k - m \in 1..(Len(ps) - m) /\ (k - m) + m = k)
      BY <1>4
    <3>2. ASSUME NEW k \in 1..Len(ps) PROVE ps[k] \in Way!Range(s) \cup Way!Range(t)
      <4>1. CASE k \in 1..m
        BY <1>7, <4>1 DEF Way!Range
      <4>2. CASE k - m \in 1..(Len(ps) - m) /\ (k - m) + m = k
        <5>1. PICK i : i = k - m
          OBVIOUS
        <5>2. i \in 1..(Len(ps) - m) /\ i + m = k
          BY <4>2, <5>1
        <5>3. t[i] = ps[k] /\ i \in DOMAIN t
          BY <1>8, <5>2
        <5> QED BY <5>3 DEF Way!Range
      <4> QED BY <3>1, <4>1, <4>2
    <3>3. \A x \in Way!Range(s) : x \in Way!Range(ps)
      BY <1>4, <1>7 DEF Way!Range
    <3>4. \A x \in Way!Range(t) : x \in Way!Range(ps)
      BY <1>4, <1>8 DEF Way!Range
    <3>5. \A x \in Way!Range(ps) : x \in Way!Range(s) \cup Way!Range(t)
      BY <1>4, <3>2 DEF Way!Range
    <3> QED BY <3>3, <3>4, <3>5
  <2> QED BY <2>1, <2>2, <2>4, <2>5
<1>10. PICK new : new = <<id>>
  OBVIOUS
<1>11. /\ new \in Seq(PaneIds) /\ Way!IsInjective(new) /\ Way!Range(new) = {id}
  <2>1. new \in Seq(PaneIds) /\ DOMAIN new = {1} /\ new[1] = id
    BY <1>3, <1>10
  <2> QED BY <2>1 DEF Way!IsInjective, Way!Range
<1>12. id \notin Way!Range(ps)
  BY <1>3 DEF PaneIds
<1>13. PICK front : front = s \o new
  OBVIOUS
<1>14. /\ front \in Seq(PaneIds) /\ Way!IsInjective(front)
       /\ Way!Range(front) = Way!Range(s) \cup {id}
  <2>1. \A x \in Way!Range(s) : x \notin Way!Range(new)
    BY <1>9, <1>11, <1>12
  <2> QED BY <1>7, <1>9, <1>11, <1>13, <2>1, JoinedIs
<1>15. PICK order : order = front \o t
  OBVIOUS
<1>16. /\ order \in Seq(PaneIds) /\ Way!IsInjective(order)
       /\ Way!Range(order) = Way!Range(ps) \cup {id}
  <2>1. \A x \in Way!Range(front) : x \notin Way!Range(t)
    BY <1>9, <1>12, <1>14
  <2>2. /\ order \in Seq(PaneIds) /\ Way!IsInjective(order)
        /\ Way!Range(order) = Way!Range(front) \cup Way!Range(t)
    BY <1>8, <1>9, <1>14, <1>15, <2>1, JoinedIs
  <2> QED BY <1>9, <1>14, <2>2
<1>17. Way!InsertAt(ps, m + 1, id) = order
  <2>1. (m + 1) - 1 = m
    BY <1>4
  <2> QED BY <1>5, <1>6, <1>10, <1>13, <1>15, <2>1 DEF Way!InsertAt
<1>18. PICK w : w = [u EXCEPT !.panes = order, !.nextPane = id + 1]
  OBVIOUS
<1>19. v = Way!Show(w, id)
  BY <1>1, <1>2, <1>17, <1>18 DEF Way!Split
<1>20. w \in Interfaces
  BY <1>0, <1>3, <1>16, <1>18 DEF Interfaces
<1>21. /\ w.panes = order /\ w.nextPane = id + 1 /\ w.pane = u.pane /\ w.focus = u.focus
       /\ w.cameFrom = u.cameFrom /\ w.dockOpen = u.dockOpen /\ w.bottomOpen = u.bottomOpen
  BY <1>0, <1>18 DEF Interfaces
<1>22. Way!Panes(w) = Way!Panes(u) \cup {id}
  BY <1>3, <1>16, <1>21 DEF Way!Panes
<1>23. PanesFit(w)
  <2>1. \A other \in Way!Panes(w) : other < id + 1
    <3>1. id \in Nat /\ \A other \in Way!Range(ps) : other \in Nat
      BY <1>3, <1>4 DEF PaneIds, Way!Range
    <3> QED BY <1>3, <1>22, <3>1
  <2>2. w.pane \in Way!Panes(w)
    BY <1>0, <1>21, <1>22 DEF PanesFit
  <2> QED BY <1>16, <1>21, <2>1, <2>2 DEF PanesFit
<1>24. WayLeads(w)
  <2>1. ASSUME NEW place \in Way!Places, Way!IsThere(u, place) PROVE Way!IsThere(w, place)
    <3>1. CASE place = Way!Dock
      BY <1>21, <2>1, <3>1, ThereIs
    <3>2. CASE place = Way!Bottom
      BY <1>21, <2>1, <3>2, ThereIs
    <3>3. CASE place = Way!StatusBar
      BY <3>3, ThereIs
    <3>4. CASE \E other \in PaneIds : place = Way!PaneAt(other)
      BY <1>22, <2>1, <3>4, ThereIs
    <3> QED BY <3>1, <3>2, <3>3, <3>4, PlaceIsOf
  <2>2. \A n \in DOMAIN u.cameFrom : u.cameFrom[n] \in Way!Places
    BY <1>0
  <2> QED BY <1>0, <1>21, <2>1, <2>2 DEF WayLeads
<1>25. FocusFits(w)
  BY <1>0, <1>20, <1>21, <1>23, <1>24 DEF FocusFits, Formed, KeysHaveRoom
<1>26. id \in Way!Panes(w)
  BY <1>22
<1> QED BY <1>19, <1>25, <1>26, ShowFits

\* The ids of `ids`, in some order.
LEMMA OrdersAre ==
    ASSUME NEW ids \in SUBSET PaneIds, NEW order \in Way!Orders(ids)
    PROVE  /\ order \in Seq(PaneIds) /\ Way!IsInjective(order) /\ Way!Range(order) = ids
<1>1. IsFiniteSet(ids) /\ Cardinality(ids) \in Nat
  <2>1. WayPanes - 1 \in Int
    BY WayAssumption
  <2>2. IsFiniteSet(PaneIds)
    BY <2>1, FS_Interval DEF PaneIds
  <2> QED BY <2>2, FS_Subset, FS_CardinalityType
<1>2. PICK n : n = Cardinality(ids)
  OBVIOUS
<1>3. Way!Cardinality(ids) = n
  BY <1>2 DEF Way!Cardinality, Cardinality
<1>4. PICK D : D = 1..n
  OBVIOUS
<1>5. order \in [D -> ids] /\ \A i, j \in D : i # j => order[i] # order[j]
  BY <1>3, <1>4 DEF Way!Orders, Way!SetToSeqs
<1>6. IsFiniteSet(D) /\ Cardinality(D) = n
  BY <1>1, <1>2, <1>4, FS_Interval
<1>7. order \in Injection(D, ids)
  <2>1. order \in [D -> ids] /\ \A i, j \in D : order[i] = order[j] => i = j
    BY <1>5
  <2> QED BY ONLY <2>1, Zenon DEF Injection, IsInjective
<1>8. order \in Surjection(D, ids)
  BY <1>1, <1>2, <1>6, <1>7, FS_Injection
<1>9. Way!Range(order) = ids
  <2>1. \A id \in ids : \E i \in D : order[i] = id
    BY <1>8 DEF Surjection
  <2> QED BY <1>5, <2>1 DEF Way!Range
<1>10. order \in Seq(PaneIds)
  BY <1>1, <1>2, <1>4, <1>5
<1> QED BY <1>5, <1>9, <1>10 DEF Way!IsInjective

LEMMA ClosePaneFits ==
    ASSUME NEW u, FocusFits(u), NEW order \in Way!Orders(Way!Panes(u) \ {u.pane}),
           NEW next \in Way!Range(order), NEW v, v = Way!ClosePane(u, order, next)
    PROVE  FocusFits(v)
<1>0. /\ u \in Interfaces /\ PanesFit(u) /\ Formed(u) /\ WayLeads(u) /\ KeysHaveRoom(u)
      /\ Len(u.cameFrom) <= StackDepth /\ u.cameFrom \in Seq(Way!Places)
  BY DEF FocusFits, Formed, Interfaces
<1>1. PICK gone : gone = u.pane
  OBVIOUS
<1>2. PICK place : place = Way!PaneAt(gone)
  OBVIOUS
<1>3. Way!Panes(u) \subseteq PaneIds
  BY <1>0 DEF Interfaces, Way!Panes, Way!Range
<1>4. /\ order \in Seq(PaneIds) /\ Way!IsInjective(order)
      /\ Way!Range(order) = Way!Panes(u) \ {gone}
  BY <1>1, <1>3, OrdersAre
<1>5. PICK x : x = [u EXCEPT !.panes = order, !.pane = next]
  OBVIOUS
<1>6. x \in Interfaces
  <2>1. next \in PaneIds
    BY <1>3, <1>4
  <2> QED BY <1>0, <1>4, <1>5, <2>1 DEF Interfaces
<1>7. /\ x.panes = order /\ x.nextPane = u.nextPane /\ x.pane = next /\ x.focus = u.focus
      /\ x.cameFrom = u.cameFrom /\ x.dockOpen = u.dockOpen /\ x.bottomOpen = u.bottomOpen
  BY <1>0, <1>5 DEF Interfaces
<1>8. Way!Panes(x) = Way!Panes(u) \ {gone}
  BY <1>4, <1>7 DEF Way!Panes
<1>9. PanesFit(x)
  <2>1. \A id \in Way!Panes(x) : id < x.nextPane
    BY <1>0, <1>7, <1>8 DEF PanesFit
  <2>2. x.pane \in Way!Panes(x)
    BY <1>4, <1>7, <1>8
  <2> QED BY <1>4, <1>7, <2>1, <2>2 DEF PanesFit
<1>10. FitsBut(x, place)
  <2>1. ASSUME NEW other \in Way!Places, Way!IsThere(u, other), other # place
        PROVE  Way!IsThere(x, other)
    <3>1. CASE other = Way!Dock
      BY <1>7, <2>1, <3>1, ThereIs
    <3>2. CASE other = Way!Bottom
      BY <1>7, <2>1, <3>2, ThereIs
    <3>3. CASE other = Way!StatusBar
      BY <3>3, ThereIs
    <3>4. CASE \E id \in PaneIds : other = Way!PaneAt(id)
      BY <1>2, <1>8, <2>1, <3>4, ThereIs
    <3> QED BY <3>1, <3>2, <3>3, <3>4, PlaceIsOf
  <2>2. \A n \in DOMAIN u.cameFrom : u.cameFrom[n] \in Way!Places
    BY <1>0
  <2>3. Formed(x) /\ KeysHaveRoom(x)
    BY <1>0, <1>6, <1>7, <1>9 DEF Formed, KeysHaveRoom
  <2> QED BY <1>0, <1>7, <2>1, <2>2, <2>3 DEF FitsBut, WayLeads
<1>11. PICK y : y = Way!MakeCurrent(x, next)
  OBVIOUS
<1>12. FitsBut(y, place) /\ SameRegions(x, y) /\ y.focus = "Editor"
  BY <1>4, <1>8, <1>10, <1>11, MakeCurrentBut
<1>13. v = Way!Forget(y, place)
  BY <1>1, <1>2, <1>5, <1>11 DEF Way!ClosePane
<1>14. Formed(y)
  BY <1>12 DEF FitsBut
<1>15. /\ Formed(v) /\ SameRegions(y, v) /\ v.focus = y.focus
       /\ \A n \in DOMAIN v.cameFrom :
             /\ v.cameFrom[n] # place
             /\ \E m \in DOMAIN y.cameFrom : v.cameFrom[n] = y.cameFrom[m]
  BY <1>13, <1>14, ForgetIs
<1>16. KeysHaveRoom(v)
  BY <1>12, <1>15 DEF KeysHaveRoom
<1>17. WayLeads(v)
  <2>1. \A n \in DOMAIN v.cameFrom : Way!IsThere(y, v.cameFrom[n])
    BY <1>12, <1>15 DEF FitsBut
  <2>2. v.panes = y.panes /\ v.dockOpen = y.dockOpen /\ v.bottomOpen = y.bottomOpen
    BY <1>15 DEF SameRegions
  <2>3. \A other : Way!IsThere(v, other) <=> Way!IsThere(y, other)
    BY <2>2 DEF Way!IsThere, Way!Panes
  <2> QED BY <2>1, <2>3 DEF WayLeads
<1> QED BY <1>15, <1>16, <1>17 DEF FocusFits

-----------------------------------------------------------------------------
(***************************************************************************)
(* Focus, on every behaviour.                                              *)
(***************************************************************************)
FocusInv == FocusFits(ui) /\ wide \in BOOLEAN

LEMMA StartFits ==
    ASSUME NEW adapt \in BOOLEAN, NEW u, u = Way!Start(adapt)
    PROVE  FocusFits(u)
<1>1. WayPanes \in Nat \ {0} /\ StackDepth \in Nat \ {0}
  BY WayAssumption
<1>2. PICK order : order = <<0>>
  OBVIOUS
<1>3. 0 \in PaneIds /\ 1 \in 1..WayPanes
  BY <1>1 DEF PaneIds
<1>4. /\ order \in Seq(PaneIds) /\ Way!IsInjective(order) /\ Way!Range(order) = {0}
  <2>1. order \in Seq(PaneIds) /\ DOMAIN order = {1} /\ order[1] = 0
    BY <1>2, <1>3
  <2> QED BY <2>1 DEF Way!IsInjective, Way!Range
<1>5. PICK way : way = <<>>
  OBVIOUS
<1>6. way \in Seq(Way!Places) /\ Len(way) = 0 /\ DOMAIN way = {}
  BY <1>5
<1>7. /\ u.focus = "Tree" /\ u.pane = 0 /\ u.panes = order /\ u.nextPane = 1
      /\ u.cameFrom = way /\ u.dockOpen = TRUE /\ u.bottomOpen = FALSE
  BY <1>2, <1>5 DEF Way!Start
<1>8. u = [focus |-> "Tree", pane |-> 0, panes |-> order, nextPane |-> 1,
           cameFrom |-> way, dockOpen |-> TRUE, dockZoomed |-> FALSE,
           bottomOpen |-> FALSE, zoomedPane |-> Way!NoPane, preset |-> "Standard",
           adapt |-> adapt, chosen |-> FALSE]
  BY <1>2, <1>5 DEF Way!Start
<1>9. u \in Interfaces
  BY <1>3, <1>4, <1>6, <1>8 DEF Interfaces, Way!Focus, Way!Preset
<1>10. PanesFit(u)
  BY <1>4, <1>7 DEF PanesFit, Way!Panes
<1>11. Len(u.cameFrom) <= StackDepth /\ WayLeads(u)
  BY <1>1, <1>6, <1>7 DEF WayLeads
<1>12. KeysHaveRoom(u)
  BY <1>7 DEF KeysHaveRoom
<1> QED BY <1>9, <1>10, <1>11, <1>12 DEF FocusFits, Formed

LEMMA FocusInit == PanesInit => FocusInv
<1> SUFFICES ASSUME PanesInit PROVE FocusFits(ui) /\ wide \in BOOLEAN
  BY DEF FocusInv
<1>1. wide \in BOOLEAN
  BY DEF PanesInit, Way!Init
<1>2. PICK preset \in Way!Preset, adapt \in BOOLEAN :
          ui = Way!SetPreset(Way!Start(adapt), preset)
  BY DEF PanesInit, Way!Init
<1>3. PICK u : u = Way!Start(adapt)
  OBVIOUS
<1>4. FocusFits(u)
  BY <1>3, StartFits
<1>5. FocusFits(ui)
  BY <1>2, <1>3, <1>4, SetPresetFits
<1> QED BY <1>1, <1>5

\* What is on screen is a pane.
LEMMA VisibleIs ==
    ASSUME NEW u, PanesFit(u)
    PROVE  Way!Visible(u) \subseteq Way!Panes(u)
  BY DEF Way!Visible, PanesFit

LEMMA FocusStep == FocusInv /\ Way!Next => FocusInv'
<1> SUFFICES ASSUME FocusInv, Way!Next PROVE FocusFits(ui') /\ wide' \in BOOLEAN
  BY DEF FocusInv
<1>0. FocusFits(ui) /\ wide \in BOOLEAN
  BY DEF FocusInv
<1>1. PICK u : u = Way!Seen
  OBVIOUS
<1>2. FocusFits(u)
  BY <1>0, <1>1, AdaptToFits DEF Way!Seen
<1>3. PanesFit(u) /\ u.panes \in Seq(PaneIds)
  BY <1>2 DEF FocusFits, Formed, Interfaces
<1>5. ASSUME NEW v, Way!Becomes(v), FocusFits(v) PROVE FocusFits(ui') /\ wide' \in BOOLEAN
  <2>1. ui' = v /\ wide' = wide
    BY <1>5 DEF Way!Becomes
  <2> QED BY <1>0, <1>5, <2>1
<1>6. CASE Way!Resize
  <2>1. wide' \in BOOLEAN
    BY <1>0, <1>6 DEF Way!Resize
  <2>2. ui' = Way!AdaptTo(ui, wide')
    BY <1>6 DEF Way!Resize
  <2> QED BY <1>0, <2>1, <2>2, AdaptToFits
<1>7. CASE Way!Key
  <2>1. PICK h \in {Way!ToggleLeftDock(u), Way!ToggleBottomDock(u), Way!CycleLayout(u),
                    Way!ToggleZoom(u), Way!FocusBack(u)} : Way!Becomes(h)
    BY <1>1, <1>7 DEF Way!Key
  <2>2. FocusFits(h)
    BY <1>2, <2>1, ToggleLeftDockFits, ToggleBottomDockFits, CycleLayoutFits,
       ToggleZoomFits, FocusBackIs
  <2> QED BY <1>5, <2>1, <2>2
<1>8. CASE Way!Walks
  <2>1. PICK delta \in {-1, 1} : Way!Becomes(Way!StepFocus(u, delta))
    BY <1>1, <1>8 DEF Way!Walks
  <2>2. PICK v : v = Way!StepFocus(u, delta)
    OBVIOUS
  <2>3. FocusFits(v)
    BY <1>2, <2>2, StepFocusIs
  <2> QED BY <1>5, <2>1, <2>2, <2>3
<1>9. CASE Way!GoToPane
  <2>1. PICK id \in Way!Visible(u) : Way!Becomes(Way!MakeCurrent(u, id))
    BY <1>1, <1>9 DEF Way!GoToPane
  <2>2. FocusFits(Way!MakeCurrent(u, id))
    BY <1>2, <1>3, VisibleIs, MakeCurrentFits
  <2> QED BY <1>5, <2>1, <2>2
<1>10. CASE Way!OpenFile
  <2>1. PICK id \in Way!Panes(u) : Way!Becomes(Way!Show(u, id))
    BY <1>1, <1>10 DEF Way!OpenFile
  <2>2. FocusFits(Way!Show(u, id))
    BY <1>2, ShowFits
  <2> QED BY <1>5, <2>1, <2>2
<1>11. CASE Way!SplitPane
  <2>1. PICK n \in DOMAIN u.panes : \E m \in n..Len(u.panes) :
            Way!Becomes(Way!Split(u, Way!InsertAt(u.panes, m + 1, u.nextPane)))
    BY <1>1, <1>11 DEF Way!SplitPane
  <2>2. PICK m \in n..Len(u.panes) :
            Way!Becomes(Way!Split(u, Way!InsertAt(u.panes, m + 1, u.nextPane)))
    BY <2>1
  <2>3. m \in 1..Len(u.panes)
    BY <1>3, <2>1
  <2>4. u.nextPane < WayPanes
    BY <1>1, <1>11 DEF Way!SplitPane
  <2>5. FocusFits(Way!Split(u, Way!InsertAt(u.panes, m + 1, u.nextPane)))
    BY <1>2, <2>3, <2>4, SplitFits
  <2> QED BY <1>5, <2>2, <2>5
<1>12. CASE Way!CloseCurrent
  <2>1. PICK order \in Way!Orders(Way!Panes(u) \ {u.pane}) :
            \E to \in Way!Range(order) : Way!Becomes(Way!ClosePane(u, order, to))
    BY <1>1, <1>12 DEF Way!CloseCurrent
  <2>2. PICK to \in Way!Range(order) : Way!Becomes(Way!ClosePane(u, order, to))
    BY <2>1
  <2>3. FocusFits(Way!ClosePane(u, order, to))
    BY <1>2, ClosePaneFits
  <2> QED BY <1>5, <2>2, <2>3
<1>13. CASE Way!Press
  <2>1. CASE \E id \in Way!Visible(u), part \in {"zoom", "text", "tab row"} :
                 Way!Becomes(Way!PressPane(u, id, part))
    <3>1. PICK id \in Way!Visible(u), part \in {"zoom", "text", "tab row"} :
              Way!Becomes(Way!PressPane(u, id, part))
      BY <2>1
    <3>2. FocusFits(Way!PressPane(u, id, part))
      BY <1>2, <1>3, VisibleIs, PressPaneFits
    <3> QED BY <1>5, <3>1, <3>2
  <2>2. CASE /\ u.dockOpen
             /\ \/ Way!Becomes(Way!SetFocus(u, "Tree"))
                \/ Way!Becomes(Way!ToggleZoom(Way!SetFocus(u, "Tree")))
    <3>1. PICK focus \in Way!Focus : focus = "Tree"
      BY DEF Way!Focus
    <3>2. PICK v : v = Way!SetFocus(u, focus)
      OBVIOUS
    <3>3. FocusFits(v)
      BY <1>2, <2>2, <3>1, <3>2, SetFocusFits DEF RoomIn
    <3>4. FocusFits(Way!ToggleZoom(v))
      BY <3>3, ToggleZoomFits
    <3> QED BY <1>5, <2>2, <3>1, <3>2, <3>3, <3>4
  <2>3. CASE ~u.dockOpen /\ Way!Becomes(Way!OpenDock([u EXCEPT !.chosen = TRUE]))
    <3>1. PICK w : w = [u EXCEPT !.chosen = TRUE]
      OBVIOUS
    <3>2. Sets(u, w)
      BY <3>1 DEF Sets
    <3>3. FocusFits(w) /\ ~w.dockOpen
      BY <1>2, <2>3, <3>2, SettingFits DEF SameRegions
    <3>4. FocusFits(Way!OpenDock(w))
      BY <3>3, OpenDockIs
    <3> QED BY <1>5, <2>3, <3>1, <3>4
  <2>4. CASE u.bottomOpen /\ Way!Becomes(Way!SetFocus(u, "BottomDock"))
    <3>1. PICK focus \in Way!Focus : focus = "BottomDock"
      BY DEF Way!Focus
    <3>2. FocusFits(Way!SetFocus(u, focus))
      BY <1>2, <2>4, <3>1, SetFocusFits DEF RoomIn
    <3> QED BY <1>5, <2>4, <3>1, <3>2
  <2> QED BY <1>1, <1>13, <2>1, <2>2, <2>3, <2>4 DEF Way!Press
<1>14. CASE Way!Segment
  <2>1. PICK focus \in Way!Focus : focus = "Editor"
    BY DEF Way!Focus
  <2>2. FocusFits(Way!SetFocus(u, focus))
    BY <1>2, <2>1, SetFocusFits DEF RoomIn
  <2> QED BY <1>1, <1>5, <1>14, <2>1, <2>2 DEF Way!Segment
<1>15. CASE Way!ChangeSetting
  <2>1. CASE \E preset \in Way!Preset : Way!Becomes(Way!SetPreset(u, preset))
    <3>1. PICK preset \in Way!Preset : Way!Becomes(Way!SetPreset(u, preset))
      BY <2>1
    <3>2. FocusFits(Way!SetPreset(u, preset))
      BY <1>2, SetPresetFits
    <3> QED BY <1>5, <3>1, <3>2
  <2>2. CASE Way!Becomes([u EXCEPT !.adapt = ~@])
    <3>1. PICK b \in BOOLEAN : b = ~u.adapt
      OBVIOUS
    <3>2. PICK w : w = [u EXCEPT !.adapt = b]
      OBVIOUS
    <3>3. Sets(u, w)
      BY <3>2 DEF Sets
    <3>4. FocusFits(w)
      BY <1>2, <3>3, SettingFits
    <3>5. w = [u EXCEPT !.adapt = ~@]
      BY <3>1, <3>2
    <3> QED BY <1>5, <2>2, <3>4, <3>5
  <2> QED BY <1>1, <1>15, <2>1, <2>2 DEF Way!ChangeSetting
<1> QED BY <1>6, <1>7, <1>8, <1>9, <1>10, <1>11, <1>12, <1>13, <1>14, <1>15
        DEF Way!Next

\* The invariant says that the type, the way back, the walk and the room of
\* the keys are as they should be.
LEMMA FocusIsSound == FocusInv => FocusSound
<1> SUFFICES ASSUME FocusInv
             PROVE  Way!TypeOK /\ Way!FocusHasRoom /\ Way!WayBack /\ Way!WalkIsARing
  BY DEF FocusSound
<1>1. FocusFits(ui) /\ wide \in BOOLEAN
  BY DEF FocusInv
<1>2. ui \in Interfaces /\ PanesFit(ui) /\ Len(ui.cameFrom) <= StackDepth
  BY <1>1 DEF FocusFits, Formed
<1>3. Way!TypeOK
  <2>1. ui.cameFrom \in Seq(Way!Places)
    BY <1>2 DEF Interfaces
  <2>2. Way!Range(ui.cameFrom) \subseteq Way!Places
    BY <2>1 DEF Way!Range
  <2>3. /\ ui.focus \in Way!Focus /\ ui.nextPane \in 1..WayPanes /\ ui.preset \in Way!Preset
        /\ ui.zoomedPane \in {Way!NoPane} \cup 0..(WayPanes - 1)
        /\ {ui.dockOpen, ui.dockZoomed, ui.bottomOpen, ui.adapt, ui.chosen} \subseteq BOOLEAN
    BY <1>2 DEF Interfaces, PaneIds
  <2>4. Way!IsInjective(ui.panes) /\ ui.pane \in Way!Panes(ui)
    BY <1>2 DEF PanesFit
  <2> QED BY <1>1, <1>2, <2>2, <2>3, <2>4 DEF Way!TypeOK
<1>4. Way!FocusHasRoom
  BY <1>1 DEF FocusFits, KeysHaveRoom, Way!FocusHasRoom
<1>5. Way!WayBackExists
  BY <1>1 DEF FocusFits, WayLeads, Way!WayBackExists, Way!Range
<1>6. Way!WayBackReturns
  BY <1>1, EscReturns, LeftDockReturns, BottomDockReturns DEF Way!WayBackReturns
<1>7. Way!WalkIsARing
  BY <1>1, FocusGoesRound
<1> QED BY <1>3, <1>4, <1>5, <1>6, <1>7 DEF Way!WayBack

\* The keys are never in a dock that is folded (docking.rs, fold_dock), the
\* way back names only what is there and leads where the keys were (focus.rs,
\* forget and focus_back), and `f6` from anywhere visits every open region
\* once and comes back (focus.rs, step_focus): whatever opens, closes, folds
\* or fills the window, for any number of panes and any depth of the way back.
THEOREM FocusStaysSound == PanesSpec => []FocusSound
<1>1. PanesInit => FocusInv
  BY FocusInit
<1>2. FocusInv /\ [PanesNext]_<<view, vars, focusVars, treeVars, problemVars>> => FocusInv'
  <2> SUFFICES ASSUME FocusInv, PanesNext \/ UNCHANGED focusVars PROVE FocusInv'
    OBVIOUS
  <2>1. Way!Next \/ UNCHANGED focusVars
    BY DEF PanesNext
  <2>2. CASE UNCHANGED focusVars
    BY <2>2 DEF focusVars, FocusInv
  <2> QED BY <2>1, <2>2, FocusStep
<1>3. FocusInv => FocusSound
  BY FocusIsSound
<1> QED BY <1>1, <1>2, <1>3, PTL DEF PanesSpec
=============================================================================
