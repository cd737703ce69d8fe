-------------------------- MODULE DocumentSyncProof --------------------------
(***************************************************************************)
(* Proofs about DocumentSync: that a server is told what the tabs hold,    *)
(* that it is told so by the protocol's rules, and that what it pushes     *)
(* back is shown where the text it is about went, for every set of files   *)
(* and any number of texts, loads, sessions and messages under way.        *)
(*                                                                         *)
(* None of the three is inductive.  What is relates the two ends: the      *)
(* entry of a document, the copy the server will have once it has read its *)
(* pipe, and every copy that is still on its way back.                     *)
(***************************************************************************)
EXTENDS DocumentSync, SequenceTheorems, TLAPS

Clients == {"NeverStarted", "Starting", "Ready", "Refused", "Stopped"}

Edits == [from : Int, to : Int]

Tabs == [open : BOOLEAN, text : Nat, revision : Nat, saved : Nat,
         edits : Edits, buffer : Nat, recorded : Nat]

Pushes == [frame : Int, text : Nat, buffer : Nat, session : Nat, stale : BOOLEAN]
              \cup {NoPushed}

Docs == [known : BOOLEAN, version : Nat, synced : Nat \cup {NotSent},
         pushed : Pushes]

AllNotices == [kind : {"didOpen", "didChange"}, copy : Copies \ {NoCopy}]
                  \cup [kind : {"didClose"}, copy : {NoCopy}]

\* The types TypeOK leaves out, of what a step computes with.
Typed ==
    /\ tab \in [Paths -> Tabs]
    /\ disk \in [Paths -> Nat]
    /\ texts \in 0..MaxText
    /\ loads \in 0..MaxLoads
    /\ batch \in BOOLEAN
    /\ client \in Clients
    /\ doc \in [Paths -> Docs]
    /\ toServer \in [Paths -> Seq(AllNotices)]
    /\ toApp \in Seq(Message)
    /\ server \in [running : BOOLEAN, answered : BOOLEAN,
                   docs : [Paths -> Copies]]
    /\ session \in 0..MaxSessions

\* No text and no buffer is on the editor's side before it is made.
Issued ==
    \A p \in Paths :
        /\ disk[p] <= texts
        /\ tab[p].text <= texts
        /\ tab[p].recorded <= texts
        /\ tab[p].buffer <= loads
        /\ tab[p].open => tab[p].buffer # 0
        /\ tab[p].edits # NoEdits => tab[p].edits.to >= 0

\* A client that has not been answered has told nothing and has been told
\* nothing of; and what is under way is of this session or an earlier one.
Unanswered ==
    /\ client # "Ready" => \A p \in Paths :
           /\ ~doc[p].known /\ doc[p].synced = NotSent
           /\ doc[p].pushed = NoPushed
    /\ client \in {"Starting", "Refused"} => \A p \in Paths :
           toServer[p] = <<>> /\ server.docs[p] = NoCopy
    /\ \A i \in 1..Len(toApp) :
           toApp[i].type = "publish" => toApp[i].session <= session

\* One process at a time, whose answer and whose end are each told once: an
\* answer is heard by the client that waits for it, and an end under way is
\* that of the client's own process.
Handshake ==
    /\ client \in {"Ready", "Refused"} => server.answered
    /\ server.running => Running
    /\ \A p \in Paths : toServer[p] # <<>> => server.answered
    /\ \A i \in 1..Len(toApp) :
           /\ toApp[i].type = "answer" =>
                  /\ client = "Starting" /\ server.answered
                  /\ \A j \in 1..i : toApp[j].type # "closed"
                  /\ \A j \in 1..Len(toApp) : toApp[j].type = "answer" => i = j
           /\ toApp[i].type = "closed" =>
                  /\ Running /\ ~server.running
                  /\ \A j \in 1..Len(toApp) : toApp[j].type = "closed" => i = j

\* A copy, or a publication, is of this version, text and buffer.
IsOf(c, v, t, b) == c.version = v /\ c.text = t /\ c.buffer = b

\* What the server has or will have had of a document, or has published about
\* in this session.
Said(p, v, t, b) ==
    \/ IsOf(server.docs[p], v, t, b)
    \/ \E i \in 1..Len(toServer[p]) : IsOf(toServer[p][i].copy, v, t, b)
    \/ \E i \in 1..Len(toApp) :
           /\ toApp[i].type = "publish"
           /\ toApp[i].path = p /\ toApp[i].session = session
           /\ IsOf(toApp[i], v, t, b)

\* What a frame over text t of buffer b is worth in a tab: the spans recorded
\* since the last sync carry it to the tab's text.
Carried(p, frame, t, b) ==
    tab[p].open /\ tab[p].buffer = b /\ t >= tab[p].recorded =>
        IF tab[p].edits = NoEdits THEN frame = tab[p].text
        ELSE frame = tab[p].edits.from /\ tab[p].edits.to = tab[p].text

\* No copy runs ahead of the entry; one at the entry's version is the one the
\* server was told last, and what it is about can still be found.
SaidByTheEntry ==
    client = "Ready" => \A p \in Paths, v, t, b \in Nat : Said(p, v, t, b) =>
        /\ doc[p].known /\ v <= doc[p].version
        /\ t <= texts /\ b <= loads
        /\ v = doc[p].version =>
               /\ doc[p].synced # NotSent =>
                      Told(p).text = t /\ Told(p).buffer = b
               /\ Carried(p, t, t, b)

NothingSaid ==
    client \in {"Starting", "Refused"} =>
        \A p \in Paths, v, t, b \in Nat : ~Said(p, v, t, b)

\* The entry and the copy the server will have: which there is, its version,
\* and, within one buffer's life, that the revision tells the text.
EntryMatchesTold ==
    client = "Ready" => \A p \in Paths :
        /\ (doc[p].synced = NotSent) <=> (Told(p) = NoCopy)
        /\ doc[p].synced # NotSent =>
               doc[p].known /\ Told(p).version = doc[p].version
        /\ ~doc[p].known => server.docs[p] = NoCopy /\ toServer[p] = <<>>
        /\ /\ tab[p].open /\ doc[p].synced # NotSent
           /\ Told(p).buffer = tab[p].buffer
           => /\ doc[p].synced <= tab[p].revision
              /\ doc[p].synced = tab[p].revision =>
                     Told(p).text = tab[p].text /\ tab[p].edits = NoEdits

\* Between batches every difference has been sent and every span drained.
Settled ==
    ~batch => \A p \in Paths :
        /\ tab[p].edits = NoEdits
        /\ client = "Ready" => doc[p].synced = IF tab[p].open THEN tab[p].revision
                                               ELSE NotSent

\* Diagnostics that are shown sit where the drained spans carried them, unless
\* they were older than the text already sent and named no version.
PushedCarried ==
    \A p \in Paths : doc[p].pushed # NoPushed /\ doc[p].pushed.session = session =>
        /\ doc[p].pushed.text <= texts /\ doc[p].pushed.buffer <= loads
        /\ ~doc[p].pushed.stale =>
               Carried(p, doc[p].pushed.frame, doc[p].pushed.text, doc[p].pushed.buffer)

DocInv ==
    /\ Typed
    /\ Issued
    /\ Unanswered
    /\ Handshake
    /\ ProtocolKept
    /\ SaidByTheEntry
    /\ NothingSaid
    /\ EntryMatchesTold
    /\ Settled
    /\ PushedCarried

-----------------------------------------------------------------------------
(***************************************************************************)
(* Copies, messages and what is on the wire.                               *)
(***************************************************************************)

\* A copy is a text the server has, or none.
LEMMA CopyOrNone ==
    ASSUME NEW c \in Copies
    PROVE  /\ c = NoCopy \/ c # NoCopy
           /\ c = NoCopy => c.version = -1 /\ c.text = -1 /\ c.buffer = 0
           /\ c # NoCopy => c.version \in Nat /\ c.text \in Nat /\ c.buffer \in Nat \ {0}
           /\ c.version \in Int /\ c.text \in Int /\ c.buffer \in Nat
  BY DEF Copies, NoCopy

\* A publication says what its fields say.
LEMMA Published ==
    ASSUME NEW m \in Message, m.type = "publish"
    PROVE  /\ m.path \in Paths /\ m.session \in Nat /\ m.version \in Nat
           /\ m.text \in Nat /\ m.buffer \in Nat \ {0} /\ m.versioned \in BOOLEAN
  BY DEF Message

\* Every element is of its type.
LEMMA TypesOfOne ==
    ASSUME Typed
    PROVE  /\ Len(toApp) \in Nat
           /\ \A i \in 1..Len(toApp) : toApp[i] \in Message
           /\ \A p \in Paths : Len(toServer[p]) \in Nat
           /\ \A p \in Paths : \A i \in 1..Len(toServer[p]) :
                  /\ toServer[p][i] \in AllNotices
                  /\ toServer[p][i].copy \in Copies
<1>1. Len(toApp) \in Nat /\ \A i \in 1..Len(toApp) : toApp[i] \in Message
  BY ElementOfSeq, LenProperties DEF Typed
<1>2. \A p \in Paths : toServer[p] \in Seq(AllNotices)
  BY DEF Typed
<1>3. \A p \in Paths : Len(toServer[p]) \in Nat
  BY <1>2, LenProperties
<1>4. \A p \in Paths : \A i \in 1..Len(toServer[p]) : toServer[p][i] \in AllNotices
  BY <1>2, ElementOfSeq
<1>5. \A n \in AllNotices : n.copy \in Copies
  BY DEF AllNotices, Copies
<1> QED BY <1>1, <1>3, <1>4, <1>5

\* What the server will have: the end of the pipe, or what it has.
LEMMA ToldIs ==
    ASSUME Typed, NEW p \in Paths
    PROVE  /\ Told(p) \in Copies
           /\ toServer[p] = <<>> => Told(p) = server.docs[p]
           /\ toServer[p] # <<>> => /\ Len(toServer[p]) \in 1..Len(toServer[p])
                                    /\ Told(p) = toServer[p][Len(toServer[p])].copy
           /\ Told(p) # NoCopy => Said(p, Told(p).version, Told(p).text, Told(p).buffer)
<1>1. toServer[p] \in Seq(AllNotices) /\ Len(toServer[p]) \in Nat
  BY TypesOfOne DEF Typed
<1>2. CASE toServer[p] = <<>>
  <2>1. Told(p) = server.docs[p] /\ server.docs[p] \in Copies
    BY <1>2 DEF Told, Typed
  <2> QED BY <1>2, <2>1 DEF Said, IsOf
<1>3. CASE toServer[p] # <<>>
  <2>1. Len(toServer[p]) \in 1..Len(toServer[p])
    BY <1>1, <1>3, EmptySeq
  <2>2. Told(p) = toServer[p][Len(toServer[p])].copy
    BY <1>3 DEF Told, Last
  <2> QED BY <1>3, <2>1, <2>2, TypesOfOne DEF Said, IsOf
<1> QED BY <1>2, <1>3

\* What the wire does not change.
LEMMA SameWire ==
    ASSUME UNCHANGED wire, NEW p \in Paths
    PROVE  /\ Told(p)' = Told(p)
           /\ \A v, t, b \in Nat : Said(p, v, t, b)' <=> Said(p, v, t, b)
  BY DEF wire, Told, Said

\* There is nothing at the start.
LEMMA InitDocInv == Init => DocInv
<1> SUFFICES ASSUME Init PROVE DocInv
  OBVIOUS
<1>1. Len(toApp) = 0 /\ \A p \in Paths : Len(toServer[p]) = 0
  BY EmptySeq DEF Init
<1>2. Typed
  <2>1. ClosedTab \in Tabs /\ UnknownDoc \in Docs /\ NoCopy \in Copies
    BY DEF ClosedTab, Tabs, Edits, NoEdits, UnknownDoc, Docs, Pushes, NoPushed,
           NotSent, Copies
  <2>2. /\ tab \in [Paths -> Tabs] /\ doc \in [Paths -> Docs]
        /\ server.docs \in [Paths -> Copies]
    BY <2>1 DEF Init
  <2>3. /\ toServer \in [Paths -> Seq(AllNotices)] /\ toApp \in Seq(Message)
    BY EmptySeq DEF Init
  <2>4. server \in [running : BOOLEAN, answered : BOOLEAN, docs : [Paths -> Copies]]
    BY <2>2 DEF Init
  <2>5. texts \in 0..MaxText /\ loads \in 0..MaxLoads /\ session \in 0..MaxSessions
    BY BoundsAssumption DEF Init
  <2>6. disk \in [Paths -> Nat] /\ client \in Clients
    BY DEF Init, Clients
  <2>7. batch \in BOOLEAN
    BY DEF Init
  <2> QED BY <2>2, <2>3, <2>4, <2>5, <2>6, <2>7 DEF Typed
<1>3. Issued
  BY DEF Init, Issued, ClosedTab
<1>4. Unanswered
  BY <1>1 DEF Init, Unanswered, UnknownDoc
<1>5. Handshake /\ ProtocolKept
  BY <1>1 DEF Init, Handshake, ProtocolKept
<1>6. SaidByTheEntry /\ NothingSaid /\ EntryMatchesTold
  BY DEF Init, SaidByTheEntry, NothingSaid, EntryMatchesTold
<1>7. Settled
  BY DEF Init, Settled, ClosedTab
<1>8. PushedCarried
  BY DEF Init, PushedCarried, UnknownDoc
<1> QED BY <1>2, <1>3, <1>4, <1>5, <1>6, <1>7, <1>8 DEF DocInv

-----------------------------------------------------------------------------
(***************************************************************************)
(* Events that change the tabs.                                            *)
(***************************************************************************)

\* A tab changes and nothing on the wire does: what a frame was worth in it
\* is not lost, and the revision still tells the text.
LEMMA TabDocInv ==
    ASSUME DocInv, Event, NEW p \in Paths, NEW g \in Tabs,
           tab' = [tab EXCEPT ![p] = g],
           disk' \in [Paths -> Nat],
           texts' \in texts..MaxText, loads' \in loads..MaxLoads,
           \A q \in Paths : disk'[q] <= texts',
           g.text <= texts', g.recorded <= texts', g.buffer <= loads',
           g.open => g.buffer # 0,
           g.edits # NoEdits => g.edits.to >= 0,
           \A frame \in Int, t, b \in Nat :
               Carried(p, frame, t, b) /\ t <= texts /\ b <= loads =>
                   Carried(p, frame, t, b)',
           \A t, b, n \in Nat :
               /\ g.open /\ g.buffer = b /\ b <= loads
               /\ tab[p].open /\ tab[p].buffer = b => 
                      /\ n <= tab[p].revision
                      /\ n = tab[p].revision => t = tab[p].text /\ tab[p].edits = NoEdits
               => /\ n <= g.revision
                  /\ n = g.revision => t = g.text /\ g.edits = NoEdits
    PROVE  DocInv'
<1> USE DEF Event
<1>1. /\ tab' \in [Paths -> Tabs] /\ tab'[p] = g
      /\ \A q \in Paths : q # p => tab'[q] = tab[q]
  BY DEF DocInv, Typed
<1>2. \A q \in Paths : /\ Told(q)' = Told(q)
                       /\ \A v, t, b \in Nat : Said(q, v, t, b)' <=> Said(q, v, t, b)
  BY SameWire
<1>3. \A q \in Paths, frame \in Int, t, b \in Nat :
          Carried(q, frame, t, b) /\ t <= texts /\ b <= loads =>
              Carried(q, frame, t, b)'
  BY <1>1 DEF Carried
<1>4. Typed'
  BY <1>1 DEF DocInv, Typed, wire
<1>5. Issued'
  <2>1. \A q \in Paths : /\ tab[q].text <= texts /\ tab[q].recorded <= texts
                         /\ tab[q].buffer <= loads
                         /\ tab[q].open => tab[q].buffer # 0
                         /\ tab[q].edits # NoEdits => tab[q].edits.to >= 0
    BY DEF DocInv, Issued
  <2>2. \A q \in Paths : /\ tab[q].text \in Nat /\ tab[q].recorded \in Nat
                         /\ tab[q].buffer \in Nat
    BY DEF DocInv, Typed, Tabs
  <2>3. /\ texts \in Nat /\ loads \in Nat /\ texts' \in Nat /\ loads' \in Nat
        /\ texts <= texts' /\ loads <= loads'
    BY BoundsAssumption DEF DocInv, Typed
  <2>4. \A q \in Paths : /\ tab'[q].text <= texts' /\ tab'[q].recorded <= texts'
                         /\ tab'[q].buffer <= loads'
                         /\ tab'[q].open => tab'[q].buffer # 0
                         /\ tab'[q].edits # NoEdits => tab'[q].edits.to >= 0
    <3> SUFFICES ASSUME NEW q \in Paths
                 PROVE  /\ tab'[q].text <= texts' /\ tab'[q].recorded <= texts'
                        /\ tab'[q].buffer <= loads'
                        /\ tab'[q].open => tab'[q].buffer # 0
                        /\ tab'[q].edits # NoEdits => tab'[q].edits.to >= 0
      OBVIOUS
    <3>1. CASE q = p
      BY <1>1, <3>1
    <3>2. CASE q # p
      <4>1. tab'[q] = tab[q]
        BY <1>1, <3>2
      <4>2. tab[q].text <= texts' /\ tab[q].recorded <= texts' /\ tab[q].buffer <= loads'
        BY <2>1, <2>2, <2>3
      <4>3. /\ tab[q].open => tab[q].buffer # 0
            /\ tab[q].edits # NoEdits => tab[q].edits.to >= 0
        BY <2>1
      <4> QED BY <4>1, <4>2, <4>3
    <3> QED BY <3>1, <3>2
  <2>5. \A q \in Paths : disk'[q] <= texts'
    OBVIOUS
  <2> SUFFICES ASSUME NEW q \in Paths
               PROVE  /\ disk'[q] <= texts'
                      /\ tab'[q].text <= texts'
                      /\ tab'[q].recorded <= texts'
                      /\ tab'[q].buffer <= loads'
                      /\ tab'[q].open => tab'[q].buffer # 0
                      /\ tab'[q].edits # NoEdits => tab'[q].edits.to >= 0
    BY DEF Issued
  <2> QED BY <2>4, <2>5
<1>6. Unanswered' /\ Handshake' /\ ProtocolKept'
  BY DEF DocInv, Unanswered, Handshake, ProtocolKept, wire, Running
<1>7. SaidByTheEntry'
  <2> SUFFICES ASSUME client = "Ready", NEW q \in Paths,
                      NEW v \in Nat, NEW t \in Nat, NEW b \in Nat, Said(q, v, t, b)
               PROVE  /\ doc[q].known /\ v <= doc[q].version
                      /\ t <= texts' /\ b <= loads'
                      /\ v = doc[q].version =>
                             /\ doc[q].synced # NotSent =>
                                    Told(q).text = t /\ Told(q).buffer = b
                             /\ Carried(q, t, t, b)'
    BY <1>2 DEF SaidByTheEntry
  <2>1. /\ doc[q].known /\ v <= doc[q].version
        /\ t <= texts /\ b <= loads
        /\ v = doc[q].version =>
               /\ doc[q].synced # NotSent => Told(q).text = t /\ Told(q).buffer = b
               /\ Carried(q, t, t, b)
    BY DEF DocInv, SaidByTheEntry
  <2> QED BY <1>3, <2>1 DEF DocInv, Typed
<1>8. NothingSaid'
  BY <1>2 DEF DocInv, NothingSaid
<1>9. EntryMatchesTold'
  <2> SUFFICES ASSUME client = "Ready", NEW q \in Paths
               PROVE  /\ (doc[q].synced = NotSent) <=> (Told(q) = NoCopy)
                      /\ doc[q].synced # NotSent =>
                             doc[q].known /\ Told(q).version = doc[q].version
                      /\ ~doc[q].known => server.docs[q] = NoCopy /\ toServer[q] = <<>>
                      /\ /\ tab'[q].open /\ doc[q].synced # NotSent
                         /\ Told(q).buffer = tab'[q].buffer
                         => /\ doc[q].synced <= tab'[q].revision
                            /\ doc[q].synced = tab'[q].revision =>
                                   Told(q).text = tab'[q].text /\ tab'[q].edits = NoEdits
    BY <1>2 DEF EntryMatchesTold, wire
  <2>1. /\ (doc[q].synced = NotSent) <=> (Told(q) = NoCopy)
        /\ doc[q].synced # NotSent =>
               doc[q].known /\ Told(q).version = doc[q].version
        /\ ~doc[q].known => server.docs[q] = NoCopy /\ toServer[q] = <<>>
        /\ /\ tab[q].open /\ doc[q].synced # NotSent
           /\ Told(q).buffer = tab[q].buffer
           => /\ doc[q].synced <= tab[q].revision
              /\ doc[q].synced = tab[q].revision =>
                     Told(q).text = tab[q].text /\ tab[q].edits = NoEdits
    BY DEF DocInv, EntryMatchesTold
  <2>2. CASE q # p
    BY <1>1, <2>1, <2>2
  <2>3. CASE q = p
    <3> SUFFICES ASSUME g.open, doc[q].synced # NotSent, Told(q).buffer = g.buffer
                 PROVE  /\ doc[q].synced <= g.revision
                        /\ doc[q].synced = g.revision =>
                               Told(q).text = g.text /\ g.edits = NoEdits
      BY <1>1, <2>1, <2>3
    <3>1. doc[q].synced \in Nat
      BY DEF DocInv, Typed, Docs
    <3>2. Told(q) \in Copies /\ Said(q, Told(q).version, Told(q).text, Told(q).buffer)
      BY <2>1, ToldIs DEF DocInv
    <3>3. Told(q).version \in Nat /\ Told(q).text \in Nat /\ Told(q).buffer \in Nat
      BY <2>1, <3>2, CopyOrNone
    <3>4. Told(q).buffer <= loads
      BY <3>2, <3>3 DEF DocInv, SaidByTheEntry
    <3> QED BY <2>1, <2>3, <3>1, <3>3, <3>4
  <2> QED BY <2>2, <2>3
<1>10. Settled'
  BY DEF Settled
<1>11. PushedCarried'
  <2> SUFFICES ASSUME NEW q \in Paths, doc[q].pushed # NoPushed,
                      doc[q].pushed.session = session
               PROVE  /\ doc[q].pushed.text <= texts' /\ doc[q].pushed.buffer <= loads'
                      /\ ~doc[q].pushed.stale =>
                             Carried(q, doc[q].pushed.frame, doc[q].pushed.text,
                                     doc[q].pushed.buffer)'
    BY DEF PushedCarried, wire
  <2>1. /\ doc[q].pushed.text <= texts /\ doc[q].pushed.buffer <= loads
        /\ ~doc[q].pushed.stale =>
               Carried(q, doc[q].pushed.frame, doc[q].pushed.text, doc[q].pushed.buffer)
    BY DEF DocInv, PushedCarried
  <2>2. /\ doc[q].pushed.frame \in Int /\ doc[q].pushed.text \in Nat
        /\ doc[q].pushed.buffer \in Nat
    BY DEF DocInv, Typed, Docs, Pushes
  <2>3. texts' >= texts /\ loads' >= loads /\ {texts, texts', loads, loads'} \subseteq Nat
    BY BoundsAssumption DEF DocInv, Typed
  <2>4. ~doc[q].pushed.stale =>
            Carried(q, doc[q].pushed.frame, doc[q].pushed.text, doc[q].pushed.buffer)'
    BY <1>3, <2>1, <2>2
  <2> QED BY <2>1, <2>2, <2>3, <2>4
<1> QED
  BY <1>4, <1>5, <1>6, <1>7, <1>8, <1>9, <1>10, <1>11 DEF DocInv

\* The bounds, and what is of a tab.
LEMMA TypesOfTab ==
    ASSUME DocInv, NEW p \in Paths
    PROVE  /\ tab[p] \in Tabs /\ tab[p].edits \in Edits
           /\ tab[p].open \in BOOLEAN
           /\ {tab[p].text, tab[p].revision, tab[p].saved, tab[p].buffer,
               tab[p].recorded} \subseteq Nat
           /\ disk[p] \in Nat
           /\ disk[p] <= texts /\ tab[p].text <= texts
           /\ tab[p].recorded <= texts /\ tab[p].buffer <= loads
           /\ tab[p].open => tab[p].buffer # 0
           /\ tab[p].edits # NoEdits => tab[p].edits.to >= 0
           /\ {texts, loads, MaxText, MaxLoads} \subseteq Nat
           /\ texts <= MaxText /\ loads <= MaxLoads
<1>1. /\ tab[p] \in Tabs /\ disk[p] \in Nat
      /\ texts \in 0..MaxText /\ loads \in 0..MaxLoads
  BY DEF DocInv, Typed
<1>2. /\ disk[p] <= texts /\ tab[p].text <= texts
      /\ tab[p].recorded <= texts /\ tab[p].buffer <= loads
      /\ tab[p].open => tab[p].buffer # 0
      /\ tab[p].edits # NoEdits => tab[p].edits.to >= 0
  BY DEF DocInv, Issued
<1>3. /\ tab[p].open \in BOOLEAN /\ tab[p].edits \in Edits
      /\ {tab[p].text, tab[p].revision, tab[p].saved, tab[p].buffer,
          tab[p].recorded} \subseteq Nat
  BY <1>1 DEF Tabs
<1>4. /\ {texts, loads, MaxText, MaxLoads} \subseteq Nat
      /\ texts <= MaxText /\ loads <= MaxLoads
  BY <1>1, BoundsAssumption
<1> QED BY <1>1, <1>2, <1>3, <1>4

\* A buffer is made from the file: its number is new, so nothing said before
\* is about it.
LEMMA LoadDocInv ==
    ASSUME DocInv, Event, NEW p \in Paths, loads < MaxLoads,
           tab' = [tab EXCEPT ![p] = Loaded(p)], loads' = loads + 1,
           UNCHANGED <<disk, texts>>
    PROVE  DocInv'
<1> DEFINE g == Loaded(p)
<1>1. /\ g.open /\ g.text = disk[p] /\ g.recorded = disk[p]
      /\ g.buffer = loads + 1 /\ g.edits = NoEdits
  BY DEF Loaded
<1>2. g \in Tabs
  BY TypesOfTab DEF Loaded, Tabs, Edits, NoEdits
<1>3. tab' = [tab EXCEPT ![p] = g]
  OBVIOUS
<1> HIDE DEF g
<1>4. tab'[p] = g
  BY <1>3 DEF DocInv, Typed
<1>5. \A frame \in Int, t, b \in Nat :
          Carried(p, frame, t, b) /\ t <= texts /\ b <= loads => Carried(p, frame, t, b)'
  BY <1>1, <1>4, TypesOfTab DEF Carried
<1>6. \A b \in Nat : ~(g.buffer = b /\ b <= loads)
  BY <1>1, TypesOfTab
<1>7. /\ disk' \in [Paths -> Nat]
      /\ texts' \in texts..MaxText /\ loads' \in loads..MaxLoads
      /\ g.text <= texts' /\ g.recorded <= texts' /\ g.buffer <= loads'
      /\ g.open => g.buffer # 0
  BY <1>1, TypesOfTab DEF DocInv, Typed
<1>8. \A q \in Paths : disk'[q] <= texts'
  BY DEF DocInv, Issued
<1> QED BY <1>1, <1>2, <1>3, <1>5, <1>6, <1>7, <1>8, TabDocInv

LEMMA OpenDocInv ==
    ASSUME DocInv, NEW p \in Paths, OpenTab(p) \/ Reload(p) PROVE DocInv'
  BY LoadDocInv DEF OpenTab, Reload

LEMMA CloseDocInv ==
    ASSUME DocInv, NEW p \in Paths, CloseTab(p) PROVE DocInv'
<1> DEFINE g == ClosedTab
<1>1. ~g.open /\ g.text = 0 /\ g.recorded = 0 /\ g.buffer = 0 /\ g.edits = NoEdits
  BY DEF ClosedTab
<1>2. g \in Tabs
  BY DEF ClosedTab, Tabs, Edits, NoEdits
<1>3. tab' = [tab EXCEPT ![p] = g] /\ Event /\ UNCHANGED <<disk, texts, loads>>
  BY DEF CloseTab
<1> HIDE DEF g
<1>4. tab'[p] = g
  BY <1>3 DEF DocInv, Typed
<1>5. \A frame \in Int, t, b \in Nat :
          Carried(p, frame, t, b) /\ t <= texts /\ b <= loads => Carried(p, frame, t, b)'
  BY <1>1, <1>4 DEF Carried
<1>6. /\ disk' \in [Paths -> Nat]
      /\ texts' \in texts..MaxText /\ loads' \in loads..MaxLoads
      /\ g.text <= texts' /\ g.recorded <= texts' /\ g.buffer <= loads'
  BY <1>1, <1>3, TypesOfTab DEF DocInv, Typed
<1>7. \A q \in Paths : disk'[q] <= texts'
  BY <1>3 DEF DocInv, Issued
<1> QED BY <1>1, <1>2, <1>3, <1>5, <1>6, <1>7, TabDocInv

\* The text changes and the revision with it: a recorded span continues what
\* was recorded, and a text nothing recorded is newer than all that was said.
LEMMA ChangeDocInv ==
    ASSUME DocInv, NEW p \in Paths, NEW g \in Tabs, Event,
           tab' = [tab EXCEPT ![p] = g],
           texts < MaxText, texts' = texts + 1, UNCHANGED <<disk, loads>>,
           g.open = tab[p].open, g.buffer = tab[p].buffer, g.text = texts + 1,
           g.revision = tab[p].revision + 1,
           \/ /\ g.recorded = tab[p].recorded
              /\ g.edits = Recorded(tab[p].edits, tab[p].text, texts + 1)
           \/ g.recorded = texts + 1 /\ g.edits = tab[p].edits
    PROVE  DocInv'
<1>1. tab'[p] = g
  BY DEF DocInv, Typed
<1>2. g.recorded <= texts + 1 /\ g.buffer <= loads
  BY TypesOfTab
<1>3. /\ g.open => g.buffer # 0
      /\ g.edits # NoEdits => g.edits.to >= 0
  BY TypesOfTab DEF Recorded, NoEdits
<1>4. \A frame \in Int, t, b \in Nat :
          Carried(p, frame, t, b) /\ t <= texts /\ b <= loads => Carried(p, frame, t, b)'
  <2> SUFFICES ASSUME NEW frame \in Int, NEW t \in Nat, NEW b \in Nat, t <= texts,
                      g.open, g.buffer = b, t >= g.recorded, Carried(p, frame, t, b)
               PROVE  IF g.edits = NoEdits THEN frame = g.text
                      ELSE frame = g.edits.from /\ g.edits.to = g.text
    BY <1>1 DEF Carried
  <2>1. /\ g.recorded = tab[p].recorded
        /\ g.edits = Recorded(tab[p].edits, tab[p].text, texts + 1)
    BY TypesOfTab
  <2>2. IF tab[p].edits = NoEdits THEN frame = tab[p].text
        ELSE frame = tab[p].edits.from /\ tab[p].edits.to = tab[p].text
    BY <2>1 DEF Carried
  <2>3. g.edits # NoEdits /\ g.edits.to = texts + 1
    BY <2>1, TypesOfTab DEF Recorded, NoEdits
  <2>4. frame = g.edits.from
    BY <2>1, <2>2 DEF Recorded
  <2> QED BY <2>3, <2>4
<1>5. /\ disk' \in [Paths -> Nat]
      /\ texts' \in texts..MaxText /\ loads' \in loads..MaxLoads
      /\ g.text <= texts' /\ g.recorded <= texts' /\ g.buffer <= loads'
  BY <1>2, TypesOfTab DEF DocInv, Typed
<1>6. \A q \in Paths : disk'[q] <= texts'
  BY TypesOfTab
<1>7. \A t, b, n \in Nat :
          /\ g.open /\ g.buffer = b /\ b <= loads
          /\ tab[p].open /\ tab[p].buffer = b =>
                 /\ n <= tab[p].revision
                 /\ n = tab[p].revision => t = tab[p].text /\ tab[p].edits = NoEdits
          => /\ n <= g.revision
             /\ n = g.revision => t = g.text /\ g.edits = NoEdits
  BY TypesOfTab
<1> QED BY <1>3, <1>4, <1>5, <1>6, <1>7, TabDocInv

LEMMA EditDocInv ==
    ASSUME DocInv, NEW p \in Paths, Edit(p) \/ Restore(p) PROVE DocInv'
<1>1. CASE Edit(p)
  <2> DEFINE g == [tab[p] EXCEPT !.text = texts + 1,
                                 !.revision = @ + 1,
                                 !.edits = Recorded(@, tab[p].text, texts + 1)]
  <2>1. Recorded(tab[p].edits, tab[p].text, texts + 1) \in Edits
    BY TypesOfTab DEF Recorded, Edits, Lost
  <2>2. g \in Tabs
    <3>1. tab[p] \in Tabs /\ texts + 1 \in Nat /\ tab[p].revision + 1 \in Nat
      BY TypesOfTab
    <3> QED BY <2>1, <3>1 DEF Tabs
  <2>3. /\ g.open = tab[p].open /\ g.buffer = tab[p].buffer /\ g.text = texts + 1
        /\ g.revision = tab[p].revision + 1 /\ g.recorded = tab[p].recorded
        /\ g.edits = Recorded(tab[p].edits, tab[p].text, texts + 1)
    BY TypesOfTab DEF Tabs
  <2>4. tab' = [tab EXCEPT ![p] = g]
    BY <1>1 DEF Edit
  <2> HIDE DEF g
  <2> QED BY <1>1, <2>2, <2>3, <2>4, ChangeDocInv DEF Edit
<1>2. CASE Restore(p)
  <2> DEFINE g == [tab[p] EXCEPT !.text = texts + 1,
                                 !.revision = @ + 1,
                                 !.recorded = texts + 1]
  <2>1. g \in Tabs
    <3>1. tab[p] \in Tabs /\ texts + 1 \in Nat /\ tab[p].revision + 1 \in Nat
      BY TypesOfTab
    <3> QED BY <3>1 DEF Tabs
  <2>2. /\ g.open = tab[p].open /\ g.buffer = tab[p].buffer /\ g.text = texts + 1
        /\ g.revision = tab[p].revision + 1 /\ g.recorded = texts + 1
        /\ g.edits = tab[p].edits
    BY TypesOfTab DEF Tabs
  <2>3. tab' = [tab EXCEPT ![p] = g]
    BY <1>2 DEF Restore
  <2> HIDE DEF g
  <2> QED BY <1>2, <2>1, <2>2, <2>3, ChangeDocInv DEF Restore
<1> QED BY <1>1, <1>2

LEMMA SaveDocInv ==
    ASSUME DocInv, NEW p \in Paths, Save(p) PROVE DocInv'
<1> DEFINE g == [tab[p] EXCEPT !.saved = tab[p].text]
<1>1. g \in Tabs
  BY TypesOfTab DEF Tabs
<1>2. /\ g.open = tab[p].open /\ g.buffer = tab[p].buffer /\ g.text = tab[p].text
      /\ g.revision = tab[p].revision /\ g.recorded = tab[p].recorded
      /\ g.edits = tab[p].edits
  BY TypesOfTab DEF Tabs
<1>3. tab' = [tab EXCEPT ![p] = g] /\ Event /\ UNCHANGED <<texts, loads>>
  BY DEF Save
<1> HIDE DEF g
<1>4. tab'[p] = g
  BY <1>3 DEF DocInv, Typed
<1>5. \A frame \in Int, t, b \in Nat :
          Carried(p, frame, t, b) /\ t <= texts /\ b <= loads => Carried(p, frame, t, b)'
  BY <1>2, <1>4 DEF Carried
<1>6. disk' \in [Paths -> Nat] /\ \A q \in Paths : disk'[q] <= texts'
  BY <1>3, TypesOfTab DEF Save, DocInv, Typed
<1>7. /\ texts' \in texts..MaxText /\ loads' \in loads..MaxLoads
      /\ g.text <= texts' /\ g.recorded <= texts' /\ g.buffer <= loads'
      /\ g.open => g.buffer # 0
      /\ g.edits # NoEdits => g.edits.to >= 0
  BY <1>2, <1>3, TypesOfTab
<1>8. \A t, b, n \in Nat :
          /\ g.open /\ g.buffer = b /\ b <= loads
          /\ tab[p].open /\ tab[p].buffer = b =>
                 /\ n <= tab[p].revision
                 /\ n = tab[p].revision => t = tab[p].text /\ tab[p].edits = NoEdits
          => /\ n <= g.revision
             /\ n = g.revision => t = g.text /\ g.edits = NoEdits
  BY <1>2
<1> QED BY <1>1, <1>3, <1>5, <1>6, <1>7, <1>8, TabDocInv

\* Another program's write changes no tab.
LEMMA OutsideDocInv ==
    ASSUME DocInv, NEW p \in Paths, OutsideWrite(p) PROVE DocInv'
<1> USE DEF OutsideWrite
<1>1. \A q \in Paths : /\ Told(q)' = Told(q)
                       /\ \A v, t, b \in Nat : Said(q, v, t, b)' <=> Said(q, v, t, b)
  BY SameWire
<1>2. /\ texts \in Nat /\ texts' = texts + 1 /\ texts' \in 0..MaxText
      /\ disk' \in [Paths -> Nat]
      /\ \A q \in Paths : disk'[q] <= texts'
  BY TypesOfTab DEF DocInv, Typed
<1>3. Typed'
  BY <1>2 DEF DocInv, Typed, wire
<1>4. Issued'
  <2>1. \A q \in Paths : /\ tab[q].text <= texts' /\ tab[q].recorded <= texts'
                         /\ tab[q].buffer <= loads
                         /\ tab[q].open => tab[q].buffer # 0
                         /\ tab[q].edits # NoEdits => tab[q].edits.to >= 0
    BY <1>2, TypesOfTab
  <2> QED BY <1>2, <2>1 DEF Issued
<1>5. Unanswered' /\ Handshake' /\ ProtocolKept' /\ NothingSaid'
  BY <1>1 DEF DocInv, Unanswered, Handshake, ProtocolKept, wire, Running, NothingSaid
<1>6. SaidByTheEntry'
  <2>1. \A q \in Paths, t, b \in Nat : Carried(q, t, t, b)' <=> Carried(q, t, t, b)
    BY DEF Carried
  <2>2. texts <= texts' /\ UNCHANGED <<client, doc, loads>>
    BY <1>2
  <2> SUFFICES ASSUME client = "Ready", NEW q \in Paths,
                      NEW v \in Nat, NEW t \in Nat, NEW b \in Nat, Said(q, v, t, b)
               PROVE  /\ doc[q].known /\ v <= doc[q].version
                      /\ t <= texts' /\ b <= loads
                      /\ v = doc[q].version =>
                             /\ doc[q].synced # NotSent =>
                                    Told(q).text = t /\ Told(q).buffer = b
                             /\ Carried(q, t, t, b)
    <3> HIDE DEF OutsideWrite
    <3> QED BY <1>1, <2>1, <2>2 DEF SaidByTheEntry
  <2>3. /\ doc[q].known /\ v <= doc[q].version
        /\ t <= texts /\ b <= loads
        /\ v = doc[q].version =>
               /\ doc[q].synced # NotSent => Told(q).text = t /\ Told(q).buffer = b
               /\ Carried(q, t, t, b)
    BY DEF DocInv, SaidByTheEntry
  <2> QED BY <1>2, <2>3
<1>7. EntryMatchesTold' /\ Settled'
  BY <1>1 DEF DocInv, EntryMatchesTold, Settled, wire
<1>8. PushedCarried'
  <2>1. \A q \in Paths : doc[q].pushed # NoPushed => doc[q].pushed.text \in Nat
    BY DEF DocInv, Typed, Docs, Pushes
  <2> QED BY <1>2, <2>1 DEF DocInv, PushedCarried, Carried, wire
<1> QED
  BY <1>3, <1>4, <1>5, <1>6, <1>7, <1>8 DEF DocInv

-----------------------------------------------------------------------------
(***************************************************************************)
(* The server slot.                                                        *)
(***************************************************************************)

\* A server is started, or would not start, while nothing is known of a
\* document and no message says the old process ended: all that is under way
\* is of an earlier session.
LEMMA StartDocInv ==
    ASSUME DocInv, Start, ~server.running,
           toApp' \in Seq(Message),
           \A i \in 1..Len(toApp') :
               /\ toApp'[i].type = "publish"
               /\ toApp'[i] \in Message /\ toApp'[i].session <= session,
           tab' \in [Paths -> Tabs],
           \A p \in Paths : /\ tab'[p].open = tab[p].open
                            /\ tab'[p].text = tab[p].text
                            /\ tab'[p].buffer = tab[p].buffer
                            /\ tab'[p].recorded = tab[p].recorded
                            /\ tab'[p].edits \in {NoEdits, tab[p].edits},
           batch' \in BOOLEAN,
           ~batch' => \A p \in Paths : tab'[p].edits = NoEdits,
           UNCHANGED <<disk, texts, loads>>,
           doc' \in [Paths -> Docs],
           \A p \in Paths : /\ ~doc'[p].known /\ doc'[p].synced = NotSent
                            /\ doc'[p].pushed = NoPushed
    PROVE  DocInv'
<1>1. client' \in {"Starting", "Stopped"}
  BY DEF Start
<1>2. Typed'
  <2>1. session' \in 0..MaxSessions
    BY BoundsAssumption DEF Start, DocInv, Typed
  <2>2. server' \in [running : BOOLEAN, answered : BOOLEAN, docs : [Paths -> Copies]]
    <3>1. CASE server' = server
      BY <3>1 DEF DocInv, Typed
    <3>2. CASE server' # server
      <4>1. server' = [running |-> TRUE, answered |-> FALSE,
                       docs |-> [p \in Paths |-> NoCopy]]
        BY <3>2 DEF Start
      <4>2. [p \in Paths |-> NoCopy] \in [Paths -> Copies]
        BY DEF Copies
      <4> QED BY <4>1, <4>2
    <3> QED BY <3>1, <3>2
  <2>3. toServer' \in [Paths -> Seq(AllNotices)]
    <3>1. CASE toServer' = toServer
      BY <3>1 DEF DocInv, Typed
    <3>2. CASE toServer' # toServer
      <4>1. toServer' = [p \in Paths |-> <<>>]
        BY <3>2 DEF Start
      <4> QED BY <4>1, EmptySeq
    <3> QED BY <3>1, <3>2
  <2> QED BY <1>1, <2>1, <2>2, <2>3 DEF DocInv, Typed, Clients
<1>3. Issued'
  BY DEF DocInv, Issued
<1>4. session \in Nat /\ session' \in Nat /\ session <= session'
  BY BoundsAssumption DEF Start, DocInv, Typed
<1>5. Unanswered'
  <2>1. client' = "Starting" => \A p \in Paths : toServer'[p] = <<>> /\ server'.docs[p] = NoCopy
    BY DEF Start
  <2>2. \A i \in 1..Len(toApp') : toApp'[i].session <= session'
    BY <1>4, Published
  <2> QED BY <1>1, <2>1, <2>2 DEF Unanswered
<1>6. Handshake'
  <2>1. \A p \in Paths : toServer'[p] # <<>> => server'.answered
    BY DEF Start, DocInv, Handshake
  <2>2. server'.running => client' = "Starting"
    BY DEF Start
  <2> QED BY <1>1, <2>1, <2>2 DEF Handshake, Running
<1>7. ProtocolKept'
  BY DEF Start, DocInv, ProtocolKept, Handshake
<1>8. SaidByTheEntry' /\ EntryMatchesTold'
  BY <1>1 DEF SaidByTheEntry, EntryMatchesTold
<1>9. NothingSaid'
  <2> SUFFICES ASSUME client' = "Starting", NEW p \in Paths,
                      NEW v \in Nat, NEW t \in Nat, NEW b \in Nat, Said(p, v, t, b)'
               PROVE  FALSE
    BY <1>1 DEF NothingSaid
  <2>1. /\ session' = session + 1 /\ server'.docs[p] = NoCopy
        /\ Len(toServer'[p]) = 0
    BY EmptySeq DEF Start
  <2>2. \A i \in 1..Len(toApp') : toApp'[i].session # session'
    BY <1>4, <2>1, Published
  <2> QED BY <2>1, <2>2 DEF Said, IsOf, NoCopy
<1>10. Settled' /\ PushedCarried'
  BY <1>1 DEF Settled, PushedCarried
<1> QED
  BY <1>2, <1>3, <1>5, <1>6, <1>7, <1>8, <1>9, <1>10 DEF DocInv

\* Where no client waits for an answer and no process has ended, what is under
\* way is what earlier servers published.
LEMMA OnlyPublications ==
    ASSUME DocInv, client \in {"NeverStarted", "Stopped"}
    PROVE  /\ ~server.running
           /\ \A i \in 1..Len(toApp) :
                  /\ toApp[i].type = "publish"
                  /\ toApp[i] \in Message /\ toApp[i].session <= session
<1>1. ~Running /\ client # "Starting"
  BY DEF Running
<1>2. ~server.running
  BY <1>1 DEF DocInv, Handshake
<1>3. \A i \in 1..Len(toApp) : toApp[i].type # "answer" /\ toApp[i].type # "closed"
  BY <1>1 DEF DocInv, Handshake
<1>4. \A i \in 1..Len(toApp) : toApp[i] \in Message
  BY TypesOfOne DEF DocInv
<1>5. \A m \in Message : m.type \in {"answer", "publish", "closed"}
  BY DEF Message
<1>6. \A i \in 1..Len(toApp) : toApp[i].type = "publish"
  BY <1>3, <1>4, <1>5
<1> QED BY <1>2, <1>4, <1>6 DEF DocInv, Unanswered

LEMMA RestartDocInv ==
    ASSUME DocInv, RestartAll PROVE DocInv'
<1>1. client = "Stopped" /\ Start /\ batch' = TRUE /\ UNCHANGED <<editor, doc, toApp>>
  BY DEF RestartAll
<1>2. /\ ~server.running
      /\ \A i \in 1..Len(toApp) :
             /\ toApp[i].type = "publish"
             /\ toApp[i] \in Message /\ toApp[i].session <= session
  BY <1>1, OnlyPublications
<1>3. /\ doc \in [Paths -> Docs] /\ tab \in [Paths -> Tabs] /\ toApp \in Seq(Message)
      /\ \A p \in Paths : /\ ~doc[p].known /\ doc[p].synced = NotSent
                          /\ doc[p].pushed = NoPushed
  BY <1>1 DEF DocInv, Typed, Unanswered
<1> QED
  BY <1>1, <1>2, <1>3, StartDocInv DEF editor

-----------------------------------------------------------------------------
(***************************************************************************)
(* Messages from the server.                                               *)
(***************************************************************************)

\* The message received was the first, and the others move up.
LEMMA Received ==
    ASSUME Typed, NEW type, Receive(type)
    PROVE  /\ 1 \in 1..Len(toApp) /\ toApp[1].type = type
           /\ Head(toApp) = toApp[1] /\ toApp[1] \in Message
           /\ toApp' \in Seq(Message)
           /\ \A i \in 1..Len(toApp') : /\ i + 1 \in 1..Len(toApp)
                                        /\ i + 1 # 1
                                        /\ toApp'[i] = toApp[i + 1]
           /\ batch' = TRUE /\ UNCHANGED editor
<1>1. toApp \in Seq(Message) /\ toApp # <<>>
  BY DEF Typed, Receive
<1>2. /\ Head(toApp) = toApp[1] /\ 1 \in 1..Len(toApp)
      /\ Tail(toApp) \in Seq(Message) /\ Len(Tail(toApp)) = Len(toApp) - 1
      /\ \A i \in 1..Len(Tail(toApp)) : Tail(toApp)[i] = toApp[i + 1]
  BY <1>1, HeadTailProperties, EmptySeq, LenProperties
<1>3. Len(toApp) \in Nat
  BY <1>1, LenProperties
<1> DEFINE r == Tail(toApp)
<1>4. /\ toApp' = r /\ r \in Seq(Message) /\ Len(r) = Len(toApp) - 1
      /\ \A i \in 1..Len(r) : r[i] = toApp[i + 1]
  BY <1>2 DEF Receive
<1> HIDE DEF r
<1>5. \A i \in 1..Len(r) : i + 1 \in 1..Len(toApp) /\ i + 1 # 1
  BY <1>3, <1>4
<1> QED BY <1>1, <1>2, <1>4, <1>5, TypesOfOne DEF Receive

\* A message that is taken off says nothing more.
LEMMA SaidLess ==
    ASSUME Typed, UNCHANGED <<toServer, session>>, server'.docs = server.docs,
           \A i \in 1..Len(toApp') :
               toApp'[i].type = "publish" =>
                   \E j \in 1..Len(toApp) : toApp'[i] = toApp[j]
    PROVE  \A p \in Paths : /\ Told(p)' = Told(p)
                            /\ \A v, t, b \in Nat : Said(p, v, t, b)' => Said(p, v, t, b)
<1>1. \A p \in Paths : Told(p)' = Told(p)
  BY DEF Told
<1>2. \A p \in Paths, v, t, b \in Nat : Said(p, v, t, b)' => Said(p, v, t, b)
  BY DEF Said, IsOf
<1> QED BY <1>1, <1>2

LEMMA AnswerDocInv ==
    ASSUME DocInv, HandleAnswer PROVE DocInv'
<1>1. /\ Typed /\ Receive("answer") /\ UNCHANGED <<doc, toServer, server, session>>
      /\ client' = IF client # "Starting" THEN client
                   ELSE IF Head(toApp).refused THEN "Refused" ELSE "Ready"
  BY DEF DocInv, HandleAnswer
<1>2. /\ 1 \in 1..Len(toApp) /\ toApp[1].type = "answer"
      /\ toApp' \in Seq(Message)
      /\ \A i \in 1..Len(toApp') : /\ i + 1 \in 1..Len(toApp)
                                   /\ i + 1 # 1
                                   /\ toApp'[i] = toApp[i + 1]
      /\ batch' = TRUE /\ UNCHANGED editor
  BY <1>1, Received
<1>3. client = "Starting" /\ server.answered
  BY <1>2 DEF DocInv, Handshake
<1>4. client' \in {"Refused", "Ready"}
  BY <1>1, <1>3
<1>5. \A p \in Paths : /\ Told(p)' = Told(p)
                       /\ \A v, t, b \in Nat : Said(p, v, t, b)' => Said(p, v, t, b)
  BY <1>1, <1>2, SaidLess
<1>6. \A p \in Paths : /\ ~doc[p].known /\ doc[p].synced = NotSent
                       /\ doc[p].pushed = NoPushed
                       /\ toServer[p] = <<>> /\ server.docs[p] = NoCopy
                       /\ Told(p) = NoCopy
                       /\ \A v, t, b \in Nat : ~Said(p, v, t, b)
  BY <1>3 DEF DocInv, Unanswered, NothingSaid, Told
<1>7. Typed' /\ Issued'
  BY <1>1, <1>2, <1>4 DEF DocInv, Typed, Issued, editor, Clients
<1>8. Unanswered'
  BY <1>1, <1>2, <1>6 DEF DocInv, Unanswered
<1>9. Handshake'
  <2>1. Running /\ Running'
    BY <1>3, <1>4 DEF Running
  <2>2. \A i \in 1..Len(toApp') :
            /\ toApp'[i].type # "answer"
            /\ toApp'[i].type = "closed" =>
                   /\ ~server.running
                   /\ \A j \in 1..Len(toApp') : toApp'[j].type = "closed" => i = j
    <3> SUFFICES ASSUME NEW i \in 1..Len(toApp')
                 PROVE  /\ toApp'[i].type # "answer"
                        /\ toApp'[i].type = "closed" =>
                               /\ ~server.running
                               /\ \A j \in 1..Len(toApp') :
                                      toApp'[j].type = "closed" => i + 1 = j + 1
      OBVIOUS
    <3> QED BY <1>2 DEF DocInv, Handshake
  <2> QED BY <1>1, <1>3, <2>1, <2>2 DEF DocInv, Handshake
<1>10. ProtocolKept'
  BY <1>1 DEF DocInv, ProtocolKept
<1>11. SaidByTheEntry' /\ NothingSaid'
  BY <1>5, <1>6 DEF SaidByTheEntry, NothingSaid
<1>12. EntryMatchesTold'
  BY <1>1, <1>5, <1>6 DEF EntryMatchesTold
<1>13. Settled' /\ PushedCarried'
  BY <1>1, <1>2, <1>6 DEF Settled, PushedCarried
<1> QED
  BY <1>7, <1>8, <1>9, <1>10, <1>11, <1>12, <1>13 DEF DocInv

LEMMA ClosedDocInv ==
    ASSUME DocInv, HandleClosed PROVE DocInv'
<1>1. Typed /\ Receive("closed")
  BY DEF DocInv, HandleClosed
<1>2. /\ 1 \in 1..Len(toApp) /\ toApp[1].type = "closed"
      /\ toApp' \in Seq(Message)
      /\ \A i \in 1..Len(toApp') : /\ i + 1 \in 1..Len(toApp)
                                   /\ i + 1 # 1
                                   /\ toApp'[i] = toApp[i + 1]
      /\ batch' = TRUE /\ UNCHANGED editor
  BY <1>1, Received
<1>3. Running /\ ~server.running
  BY <1>2 DEF DocInv, Handshake
<1>4. doc' = [p \in Paths |-> UnknownDoc] /\ Start
  BY <1>3 DEF HandleClosed, Start
<1>5. \A i \in 1..Len(toApp') :
          /\ toApp'[i].type = "publish"
          /\ toApp'[i] \in Message /\ toApp'[i].session <= session
  <2> SUFFICES ASSUME NEW i \in 1..Len(toApp')
               PROVE  /\ toApp'[i].type = "publish"
                      /\ toApp'[i] \in Message /\ toApp'[i].session <= session
    OBVIOUS
  <2>1. i + 1 \in 1..Len(toApp) /\ i + 1 # 1 /\ toApp'[i] = toApp[i + 1] /\ 1 \in 1..(i + 1)
    BY <1>2
  <2>2. toApp[i + 1].type # "closed" /\ toApp[i + 1].type # "answer"
    BY <1>2, <2>1 DEF DocInv, Handshake
  <2>3. toApp[i + 1] \in Message
    BY <1>1, <2>1, TypesOfOne
  <2>4. toApp[i + 1].type = "publish"
    BY <2>2, <2>3 DEF Message
  <2> QED BY <2>1, <2>3, <2>4 DEF DocInv, Unanswered
<1>6. /\ doc' \in [Paths -> Docs]
      /\ \A p \in Paths : /\ ~doc'[p].known /\ doc'[p].synced = NotSent
                          /\ doc'[p].pushed = NoPushed
  <2>1. UnknownDoc \in Docs
    BY DEF UnknownDoc, Docs, Pushes, NotSent
  <2> QED BY <1>4, <2>1 DEF UnknownDoc
<1>7. tab' = tab /\ tab \in [Paths -> Tabs] /\ UNCHANGED <<disk, texts, loads>>
  BY <1>1, <1>2 DEF Typed, editor
<1> QED
  BY <1>2, <1>3, <1>4, <1>5, <1>6, <1>7, StartDocInv

\* A publication that is shown and not stale is of the version told last, so
\* the spans that are still to be drained carry its text to the tab's.
LEMMA PublishDocInv ==
    ASSUME DocInv, HandlePublish PROVE DocInv'
<1> DEFINE m == toApp[1]
<1>1. /\ Typed /\ Receive("publish") /\ UNCHANGED <<client, toServer, server, session>>
  BY DEF DocInv, HandlePublish
<1>2. /\ 1 \in 1..Len(toApp) /\ m.type = "publish"
      /\ Head(toApp) = m /\ m \in Message
      /\ toApp' \in Seq(Message)
      /\ \A i \in 1..Len(toApp') : /\ i + 1 \in 1..Len(toApp)
                                   /\ i + 1 # 1
                                   /\ toApp'[i] = toApp[i + 1]
      /\ batch' = TRUE /\ UNCHANGED editor
  BY <1>1, Received
<1>3. /\ m.path \in Paths /\ m.session \in Nat /\ m.version \in Nat
      /\ m.text \in Nat /\ m.buffer \in Nat /\ m.versioned \in BOOLEAN
  BY <1>2, Published
<1> DEFINE shown == /\ Running /\ tab[m.path].open /\ doc[m.path].known
                    /\ m.versioned => m.version >= doc[m.path].version
           new == [frame |-> m.text, text |-> m.text,
                   buffer |-> m.buffer, session |-> m.session,
                   stale |-> Undatable(m)]
<1>4. doc' = IF shown THEN [doc EXCEPT ![m.path].pushed = new] ELSE doc
  BY <1>2 DEF HandlePublish
<1>5. \A p \in Paths : /\ Told(p)' = Told(p)
                       /\ \A v, t, b \in Nat : Said(p, v, t, b)' => Said(p, v, t, b)
  BY <1>1, <1>2, SaidLess
<1>6. m.session <= session
  BY <1>2 DEF DocInv, Unanswered
<1>7. /\ new \in Pushes /\ new.frame = m.text /\ new.text = m.text
      /\ new.buffer = m.buffer /\ new.session = m.session
      /\ new.stale = Undatable(m)
  BY <1>3 DEF Pushes, Undatable
<1>8. m.session = session => Said(m.path, m.version, m.text, m.buffer)
  BY <1>2 DEF Said, IsOf
<1>9. UNCHANGED <<tab, disk, texts, loads>>
  BY <1>2 DEF editor
<1> HIDE DEF m, shown, new
<1>10. /\ doc' \in [Paths -> Docs]
       /\ \A p \in Paths : /\ doc'[p].known = doc[p].known
                           /\ doc'[p].version = doc[p].version
                           /\ doc'[p].synced = doc[p].synced
                           /\ \/ doc'[p].pushed = doc[p].pushed
                              \/ p = m.path /\ shown /\ doc'[p].pushed = new
  <2>1. doc \in [Paths -> Docs]
    BY <1>1 DEF Typed
  <2>2. CASE shown
    <3>1. [doc EXCEPT ![m.path].pushed = new] \in [Paths -> Docs]
      BY <1>7, <2>1 DEF Docs
    <3>2. \A p \in Paths : p # m.path => doc'[p] = doc[p]
      BY <1>4, <2>1, <2>2
    <3>3. /\ doc'[m.path].known = doc[m.path].known
          /\ doc'[m.path].version = doc[m.path].version
          /\ doc'[m.path].synced = doc[m.path].synced
          /\ doc'[m.path].pushed = new
      BY <1>3, <1>4, <2>1, <2>2 DEF Docs
    <3> QED BY <1>4, <2>2, <3>1, <3>2, <3>3
  <2>3. CASE ~shown
    BY <1>4, <2>1, <2>3
  <2> QED BY <2>2, <2>3
<1>11. Typed'
  BY <1>1, <1>2, <1>9, <1>10 DEF Typed
<1>12. Issued' /\ NothingSaid'
  BY <1>1, <1>5, <1>9 DEF DocInv, Issued, NothingSaid
<1>13. shown => client = "Ready"
  BY <1>3 DEF shown, DocInv, Unanswered
<1>14. Unanswered'
  <2>1. \A i \in 1..Len(toApp') : toApp'[i].type = "publish" => toApp'[i].session <= session
    BY <1>2 DEF DocInv, Unanswered
  <2>2. client # "Ready" => \A p \in Paths :
            ~doc'[p].known /\ doc'[p].synced = NotSent /\ doc'[p].pushed = NoPushed
    BY <1>10, <1>13 DEF DocInv, Unanswered
  <2> QED BY <1>1, <2>1, <2>2 DEF DocInv, Unanswered
<1>15. Handshake'
  <2>1. \A i \in 1..Len(toApp') : toApp'[i].type = "answer" =>
            /\ client = "Starting" /\ server.answered
            /\ \A j \in 1..i : toApp'[j].type # "closed"
            /\ \A j \in 1..Len(toApp') : toApp'[j].type = "answer" => i = j
    <3> SUFFICES ASSUME NEW i \in 1..Len(toApp'), toApp'[i].type = "answer"
                 PROVE  /\ client = "Starting" /\ server.answered
                        /\ \A j \in 1..i : toApp'[j].type # "closed"
                        /\ \A j \in 1..Len(toApp') :
                               toApp'[j].type = "answer" => i + 1 = j + 1
      OBVIOUS
    <3>1. i + 1 \in 1..Len(toApp) /\ toApp[i + 1].type = "answer"
      BY <1>2
    <3>2. \A j \in 1..i : j \in 1..Len(toApp') /\ j + 1 \in 1..(i + 1)
      OBVIOUS
    <3> QED BY <1>2, <3>1, <3>2 DEF DocInv, Handshake
  <2>2. \A i \in 1..Len(toApp') : toApp'[i].type = "closed" =>
            /\ Running /\ ~server.running
            /\ \A j \in 1..Len(toApp') : toApp'[j].type = "closed" => i = j
    <3> SUFFICES ASSUME NEW i \in 1..Len(toApp'), toApp'[i].type = "closed"
                 PROVE  /\ Running /\ ~server.running
                        /\ \A j \in 1..Len(toApp') :
                               toApp'[j].type = "closed" => i + 1 = j + 1
      OBVIOUS
    <3> QED BY <1>2 DEF DocInv, Handshake
  <2>3. Running' = Running
    BY <1>1 DEF Running
  <2> QED BY <1>1, <2>1, <2>2, <2>3 DEF DocInv, Handshake
<1>16. ProtocolKept'
  BY <1>1 DEF DocInv, ProtocolKept
<1>17. SaidByTheEntry'
  BY <1>1, <1>5, <1>9, <1>10 DEF DocInv, SaidByTheEntry, Carried
<1>18. EntryMatchesTold'
  BY <1>1, <1>5, <1>9, <1>10 DEF DocInv, EntryMatchesTold
<1>19. Settled'
  BY <1>2 DEF Settled
<1>20. PushedCarried'
  <2> SUFFICES ASSUME NEW p \in Paths, doc'[p].pushed # NoPushed,
                      doc'[p].pushed.session = session
               PROVE  /\ doc'[p].pushed.text <= texts /\ doc'[p].pushed.buffer <= loads
                      /\ ~doc'[p].pushed.stale =>
                             Carried(p, doc'[p].pushed.frame, doc'[p].pushed.text,
                                     doc'[p].pushed.buffer)
    BY <1>1, <1>9 DEF PushedCarried, Carried
  <2>1. CASE doc'[p].pushed = doc[p].pushed
    BY <2>1 DEF DocInv, PushedCarried
  <2>2. CASE p = m.path /\ shown /\ doc'[p].pushed = new
    <3>1. client = "Ready" /\ m.session = session
      BY <1>7, <1>13, <2>2
    <3>2. Said(p, m.version, m.text, m.buffer) /\ doc[p].version \in Nat
      BY <1>1, <1>8, <2>2, <3>1 DEF Typed, Docs
    <3>3. /\ m.version <= doc[p].version /\ m.text <= texts /\ m.buffer <= loads
          /\ m.version = doc[p].version => Carried(p, m.text, m.text, m.buffer)
      BY <1>3, <3>1, <3>2 DEF DocInv, SaidByTheEntry
    <3>4. ~Undatable(m) => m.version >= doc[p].version
      BY <1>3, <2>2, <3>2 DEF shown, Undatable
    <3>5. ~Undatable(m) => Carried(p, m.text, m.text, m.buffer)
      BY <1>3, <3>2, <3>3, <3>4
    <3> QED BY <1>7, <2>2, <3>3, <3>5
  <2> QED BY <1>10, <2>1, <2>2
<1> QED
  BY <1>11, <1>12, <1>14, <1>15, <1>16, <1>17, <1>18, <1>19, <1>20 DEF DocInv

-----------------------------------------------------------------------------
(***************************************************************************)
(* The server process and the threads on its pipes.                        *)
(***************************************************************************)

\* A step on the wire that the editor has no part in: the server will have had
\* what it would have had, and nothing new is said.
LEMMA WireDocInv ==
    ASSUME DocInv, UNCHANGED <<editor, batch, client, doc, session>>,
           Typed', Handshake', ProtocolKept',
           \A p \in Paths : /\ Told(p)' = Told(p)
                            /\ \A v, t, b \in Nat : Said(p, v, t, b)' => Said(p, v, t, b)
                            /\ server.docs[p] = NoCopy /\ toServer[p] = <<>> =>
                                   server'.docs[p] = NoCopy /\ toServer'[p] = <<>>,
           \A i \in 1..Len(toApp') :
               toApp'[i].type = "publish" => toApp'[i].session <= session
    PROVE  DocInv'
<1>1. Issued' /\ Unanswered' /\ NothingSaid'
  BY DEF DocInv, Issued, Unanswered, NothingSaid, editor
<1>2. SaidByTheEntry'
  BY DEF DocInv, SaidByTheEntry, Carried, editor
<1>3. EntryMatchesTold'
  BY DEF DocInv, EntryMatchesTold, editor
<1>4. Settled' /\ PushedCarried'
  BY DEF DocInv, Settled, PushedCarried, Carried, editor
<1> QED BY <1>1, <1>2, <1>3, <1>4 DEF DocInv

\* A message is put at the end of what is under way.
LEMMA SaidMore ==
    ASSUME Typed, NEW m \in Message, Say(m)
    PROVE  /\ toApp' \in Seq(Message) /\ Len(toApp) \in Nat
           /\ Len(toApp') = Len(toApp) + 1 /\ toApp'[Len(toApp) + 1] = m
           /\ \A i \in 1..Len(toApp) : toApp'[i] = toApp[i]
           /\ \A i \in 1..Len(toApp') : i # Len(toApp) + 1 => i \in 1..Len(toApp)
<1>1. /\ toApp' \in Seq(Message) /\ Len(toApp) \in Nat
      /\ Len(toApp') = Len(toApp) + 1 /\ toApp'[Len(toApp) + 1] = m
      /\ \A i \in 1..Len(toApp) : toApp'[i] = toApp[i]
  BY AppendProperties, LenProperties DEF Typed, Say
<1>2. \A i \in 1..Len(toApp') : i # Len(toApp) + 1 => i \in 1..Len(toApp)
  BY <1>1
<1> QED BY <1>1, <1>2

LEMMA AnswersDocInv ==
    ASSUME DocInv, ServerAnswers PROVE DocInv'
<1>1. /\ server.running /\ ~server.answered
      /\ server' = [server EXCEPT !.answered = TRUE]
      /\ UNCHANGED <<editor, batch, client, doc, toServer, session>>
  BY DEF ServerAnswers
<1>2. PICK refused \in BOOLEAN : Say([type |-> "answer", refused |-> refused])
  BY DEF ServerAnswers
<1> DEFINE m == [type |-> "answer", refused |-> refused]
<1>3. m \in Message /\ m.type = "answer" /\ Say(m)
  BY <1>2 DEF Message
<1> HIDE DEF m
<1>4. /\ toApp' \in Seq(Message) /\ Len(toApp) \in Nat
      /\ Len(toApp') = Len(toApp) + 1 /\ toApp'[Len(toApp) + 1] = m
      /\ \A i \in 1..Len(toApp) : toApp'[i] = toApp[i]
      /\ \A i \in 1..Len(toApp') : i # Len(toApp) + 1 => i \in 1..Len(toApp)
  BY <1>3, SaidMore DEF DocInv
<1>5. /\ server'.docs = server.docs /\ server'.answered /\ server'.running
      /\ server' \in [running : BOOLEAN, answered : BOOLEAN, docs : [Paths -> Copies]]
  BY <1>1 DEF DocInv, Typed
<1>6. client = "Starting" /\ Running
  BY <1>1 DEF DocInv, Handshake, Running
<1>7. Typed'
  BY <1>1, <1>4, <1>5 DEF DocInv, Typed, editor
<1>8. \A p \in Paths : /\ Told(p)' = Told(p)
                       /\ \A v, t, b \in Nat : Said(p, v, t, b)' => Said(p, v, t, b)
  <2>1. \A i \in 1..Len(toApp') : toApp'[i].type = "publish" =>
            \E j \in 1..Len(toApp) : toApp'[i] = toApp[j]
    BY <1>3, <1>4
  <2> QED BY <1>1, <1>5, <2>1, SaidLess DEF DocInv
<1>9. Handshake'
  <2>1. \A i \in 1..Len(toApp) : toApp[i].type # "answer" /\ toApp[i].type # "closed"
    BY <1>1 DEF DocInv, Handshake
  <2>2. \A i \in 1..Len(toApp') :
            /\ toApp'[i].type # "closed"
            /\ toApp'[i].type = "answer" => i = Len(toApp) + 1
    BY <1>3, <1>4, <2>1
  <2>3. \A i \in 1..Len(toApp') : \A j \in 1..i : j \in 1..Len(toApp')
    BY <1>4
  <2>4. \A i \in 1..Len(toApp') : toApp'[i].type = "answer" =>
            /\ \A j \in 1..i : toApp'[j].type # "closed"
            /\ \A j \in 1..Len(toApp') : toApp'[j].type = "answer" => i = j
    BY <2>2, <2>3
  <2> QED BY <1>1, <1>5, <1>6, <2>2, <2>4 DEF Handshake, Running
<1>10. ProtocolKept'
  BY <1>1, <1>5 DEF DocInv, ProtocolKept
<1>11. \A i \in 1..Len(toApp') :
           toApp'[i].type = "publish" => toApp'[i].session <= session
  BY <1>3, <1>4 DEF DocInv, Unanswered
<1> QED BY <1>1, <1>5, <1>7, <1>8, <1>9, <1>10, <1>11, WireDocInv

LEMMA PublishesDocInv ==
    ASSUME DocInv, NEW p \in Paths, ServerPublishes(p) PROVE DocInv'
<1>0. PICK versioned \in BOOLEAN :
          Say([type |-> "publish", path |-> p, session |-> session,
               versioned |-> versioned, version |-> server.docs[p].version,
               text |-> server.docs[p].text, buffer |-> server.docs[p].buffer])
  BY DEF ServerPublishes
<1> DEFINE m == [type |-> "publish", path |-> p, session |-> session,
                 versioned |-> versioned, version |-> server.docs[p].version,
                 text |-> server.docs[p].text, buffer |-> server.docs[p].buffer]
<1>1. /\ server.running /\ server.docs[p] # NoCopy /\ Say(m)
      /\ UNCHANGED <<editor, batch, client, doc, toServer, server, session>>
  BY <1>0 DEF ServerPublishes
<1>2. server.docs[p] \in Copies /\ session \in Nat
  BY BoundsAssumption DEF DocInv, Typed
<1>3. /\ m \in Message /\ m.type = "publish" /\ m.path = p /\ m.session = session
      /\ m.version = server.docs[p].version /\ m.text = server.docs[p].text
      /\ m.buffer = server.docs[p].buffer
  BY <1>1, <1>2, CopyOrNone DEF Message
<1> HIDE DEF m
<1>4. /\ toApp' \in Seq(Message) /\ Len(toApp) \in Nat
      /\ Len(toApp') = Len(toApp) + 1 /\ toApp'[Len(toApp) + 1] = m
      /\ \A i \in 1..Len(toApp) : toApp'[i] = toApp[i]
      /\ \A i \in 1..Len(toApp') : i # Len(toApp) + 1 => i \in 1..Len(toApp)
  BY <1>1, <1>3, SaidMore DEF DocInv
<1>5. Typed'
  BY <1>1, <1>4 DEF DocInv, Typed, editor
<1>6. \A q \in Paths : Told(q)' = Told(q)
  BY <1>1 DEF Told
<1>7. \A q \in Paths, v, t, b \in Nat : Said(q, v, t, b)' => Said(q, v, t, b)
  <2> SUFFICES ASSUME NEW q \in Paths, NEW v \in Nat, NEW t \in Nat, NEW b \in Nat,
                      Said(q, v, t, b)', ~Said(q, v, t, b)
               PROVE  FALSE
    OBVIOUS
  <2>1. PICK i \in 1..Len(toApp') : /\ toApp'[i].type = "publish"
                                    /\ toApp'[i].path = q
                                    /\ toApp'[i].session = session
                                    /\ IsOf(toApp'[i], v, t, b)
    BY <1>1 DEF Said, IsOf
  <2>2. CASE i = Len(toApp) + 1
    BY <1>3, <1>4, <2>1, <2>2 DEF Said, IsOf
  <2>3. CASE i # Len(toApp) + 1
    BY <1>4, <2>1, <2>3 DEF Said
  <2> QED BY <2>2, <2>3
<1>8. Handshake'
  <2>1. \A i \in 1..Len(toApp') : toApp'[i].type # "closed"
    BY <1>1, <1>3, <1>4 DEF DocInv, Handshake
  <2>2. \A i \in 1..Len(toApp') : \A j \in 1..i : j \in 1..Len(toApp')
    BY <1>4
  <2>3. \A i \in 1..Len(toApp') : toApp'[i].type = "answer" =>
            /\ i \in 1..Len(toApp) /\ toApp[i].type = "answer"
    BY <1>3, <1>4
  <2>4. \A i \in 1..Len(toApp') : toApp'[i].type = "answer" =>
            /\ client = "Starting" /\ server.answered
            /\ \A j \in 1..i : toApp'[j].type # "closed"
            /\ \A j \in 1..Len(toApp') : toApp'[j].type = "answer" => i = j
    BY <2>1, <2>2, <2>3 DEF DocInv, Handshake
  <2>5. Running' = Running
    BY <1>1 DEF Running
  <2> QED BY <1>1, <2>1, <2>4, <2>5 DEF DocInv, Handshake
<1>9. ProtocolKept'
  BY <1>1 DEF DocInv, ProtocolKept
<1>10. \A i \in 1..Len(toApp') :
           toApp'[i].type = "publish" => toApp'[i].session <= session
  BY <1>2, <1>3, <1>4 DEF DocInv, Unanswered
<1> QED BY <1>1, <1>5, <1>6, <1>7, <1>8, <1>9, <1>10, WireDocInv

LEMMA ReadsDocInv ==
    ASSUME DocInv, NEW p \in Paths, ServerReads(p) PROVE DocInv'
<1> DEFINE s == toServer[p]
           r == Tail(toServer[p])
<1>1. /\ server.running /\ s # <<>>
      /\ server' = [server EXCEPT !.docs[p] = Head(s).copy]
      /\ toServer' = [toServer EXCEPT ![p] = r]
      /\ UNCHANGED <<editor, batch, client, doc, toApp, session>>
  BY DEF ServerReads
<1>2. /\ s \in Seq(AllNotices) /\ Len(s) \in Nat
      /\ \A i \in 1..Len(s) : s[i].copy \in Copies
  BY TypesOfOne DEF DocInv, Typed
<1>3. /\ Head(s) = s[1] /\ 1 \in 1..Len(s)
      /\ r \in Seq(AllNotices) /\ Len(r) = Len(s) - 1
      /\ \A i \in 1..Len(r) : r[i] = s[i + 1]
  BY <1>1, <1>2, HeadTailProperties, EmptySeq
<1>4. /\ toServer' \in [Paths -> Seq(AllNotices)] /\ toServer'[p] = r
      /\ \A q \in Paths : q # p => toServer'[q] = toServer[q]
  BY <1>1, <1>3 DEF DocInv, Typed
<1>5. /\ server' \in [running : BOOLEAN, answered : BOOLEAN, docs : [Paths -> Copies]]
      /\ server'.running = server.running /\ server'.answered = server.answered
      /\ server'.docs[p] = s[1].copy
      /\ \A q \in Paths : q # p => server'.docs[q] = server.docs[q]
  BY <1>1, <1>2, <1>3 DEF DocInv, Typed
<1>6. toServer[p] = s
  OBVIOUS
<1> HIDE DEF s, r
<1>7. Len(r) \in Nat /\ (r = <<>> => Len(s) = 1)
  BY <1>2, <1>3, EmptySeq
<1>8. Typed'
  BY <1>1, <1>4, <1>5 DEF DocInv, Typed, editor
<1>9. \A q \in Paths : Told(q)' = Told(q)
  <2>1. \A q \in Paths : q # p => Told(q)' = Told(q)
    BY <1>4, <1>5 DEF Told
  <2>2. Told(p) = s[Len(s)].copy
    BY <1>1, <1>6, ToldIs DEF DocInv
  <2>3. CASE r = <<>>
    BY <1>4, <1>5, <1>7, <2>2, <2>3 DEF Told
  <2>4. CASE r # <<>>
    <3>1. Told(p)' = r[Len(r)].copy
      BY <1>4, <2>4 DEF Told, Last
    <3>2. Len(r) # 0
      BY <1>3, <2>4, EmptySeq
    <3>3. Len(r) \in 1..Len(r) /\ Len(r) + 1 = Len(s)
      BY <1>2, <1>3, <1>7, <3>2
    <3>4. r[Len(r)] = s[Len(r) + 1]
      BY <1>3, <3>3
    <3>5. Told(p)' = Told(p)
      BY <2>2, <3>1, <3>3, <3>4
    <3> QED BY <2>1, <3>5
  <2> QED BY <2>1, <2>3, <2>4
<1>10. \A q \in Paths, v, t, b \in Nat : Said(q, v, t, b)' => Said(q, v, t, b)
  <2>1. \A q \in Paths, v, t, b \in Nat : q # p /\ Said(q, v, t, b)' => Said(q, v, t, b)
    BY <1>1, <1>4, <1>5 DEF Said
  <2>2. \A i \in 1..Len(r) : i + 1 \in 1..Len(s) /\ r[i] = s[i + 1]
    BY <1>2, <1>3
  <2>3. \A v, t, b \in Nat : Said(p, v, t, b)' => Said(p, v, t, b)
    <3> SUFFICES ASSUME NEW v \in Nat, NEW t \in Nat, NEW b \in Nat,
                        Said(p, v, t, b)', ~Said(p, v, t, b)
                 PROVE  FALSE
      OBVIOUS
    <3>1. \A i \in 1..Len(s) : ~IsOf(s[i].copy, v, t, b)
      BY <1>6 DEF Said
    <3>2. ~IsOf(server'.docs[p], v, t, b)
      BY <1>3, <1>5, <3>1
    <3>3. \A i \in 1..Len(r) : ~IsOf(r[i].copy, v, t, b)
      BY <2>2, <3>1
    <3> QED BY <1>1, <1>4, <3>2, <3>3 DEF Said, IsOf
  <2> QED BY <2>1, <2>3
<1>11. Handshake'
  <2>1. \A q \in Paths : toServer'[q] # <<>> => server.answered
    BY <1>1, <1>4, <1>6 DEF DocInv, Handshake
  <2>2. Running' = Running
    BY <1>1 DEF Running
  <2> QED BY <1>1, <1>5, <2>1, <2>2 DEF DocInv, Handshake
<1>12. ProtocolKept'
  <2>1. \A q \in Paths : q # p => toServer'[q] = toServer[q] /\ server'.docs[q] = server.docs[q]
    BY <1>4, <1>5
  <2>2. /\ \A i \in 2..Len(s) : Legal(s[i - 1].copy, s[i])
        /\ server.answered
    BY <1>1, <1>6 DEF DocInv, ProtocolKept
  <2>3. r # <<>> => Legal(s[1].copy, r[1])
    <3> SUFFICES ASSUME r # <<>> PROVE Legal(s[1].copy, r[1])
      OBVIOUS
    <3>1. Len(r) # 0
      BY <1>3, EmptySeq
    <3>2. 2 \in 2..Len(s) /\ r[1] = s[2]
      BY <1>2, <1>3, <1>7, <3>1
    <3>3. Legal(s[2 - 1].copy, s[2])
      BY <2>2, <3>2
    <3> QED BY <3>2, <3>3
  <2>4. \A i \in 2..Len(r) : Legal(r[i - 1].copy, r[i])
    <3> SUFFICES ASSUME NEW i \in 2..Len(r) PROVE Legal(r[i - 1].copy, r[i])
      OBVIOUS
    <3>1. i + 1 \in 2..Len(s) /\ r[i] = s[i + 1] /\ r[i - 1] = s[i]
      BY <1>2, <1>3, <1>7
    <3>2. Legal(s[(i + 1) - 1].copy, s[i + 1])
      BY <2>2, <3>1
    <3>3. (i + 1) - 1 = i
      OBVIOUS
    <3> QED BY <3>1, <3>2, <3>3
  <2>5. r # <<>> => Legal(s[1].copy, Head(r))
    BY <1>3, <2>3, HeadTailProperties
  <2> SUFFICES ASSUME NEW q \in Paths, toServer'[q] # <<>>
               PROVE  /\ Legal(server'.docs[q], Head(toServer'[q]))
                      /\ \A i \in 2..Len(toServer'[q]) :
                             Legal(toServer'[q][i - 1].copy, toServer'[q][i])
                      /\ server'.answered
    BY DEF ProtocolKept, Legal
  <2>6. CASE q = p
    BY <1>4, <1>5, <2>2, <2>4, <2>5, <2>6
  <2>7. CASE q # p
    BY <1>5, <2>1, <2>7 DEF DocInv, ProtocolKept
  <2> QED BY <2>6, <2>7
<1>13. \A q \in Paths : server.docs[q] = NoCopy /\ toServer[q] = <<>> =>
           server'.docs[q] = NoCopy /\ toServer'[q] = <<>>
  BY <1>1, <1>4, <1>5, <1>6
<1>14. \A i \in 1..Len(toApp') :
           toApp'[i].type = "publish" => toApp'[i].session <= session
  BY <1>1 DEF DocInv, Unanswered
<1> QED BY <1>1, <1>8, <1>9, <1>10, <1>11, <1>12, <1>13, <1>14, WireDocInv

\* The end of a process is put among what it said: at the end, or before what
\* is unread, and then the handshake is over.
LEMMA DiesDocInv ==
    ASSUME DocInv, ServerDies PROVE DocInv'
<1>1. /\ server.running /\ server' = [server EXCEPT !.running = FALSE]
      /\ UNCHANGED <<editor, batch, client, doc, toServer, session>>
  BY DEF ServerDies
<1>2. PICK k \in 0..Len(toApp) :
          /\ k < Len(toApp) => \E p \in Paths : toServer[p] # <<>>
          /\ toApp' = SubSeq(toApp, 1, k) \o <<[type |-> "closed"]>>
                      \o SubSeq(toApp, k + 1, Len(toApp))
  BY DEF ServerDies
<1> DEFINE m == [type |-> "closed"]
           n == Len(toApp)
<1>3. m \in Message /\ m.type = "closed"
  BY DEF Message
<1>4. toApp \in Seq(Message) /\ n \in Nat /\ k \in 0..n
  BY <1>2, TypesOfOne DEF DocInv, Typed
<1>5. toApp' = SubSeq(toApp, 1, k) \o <<m>> \o SubSeq(toApp, k + 1, n)
  BY <1>2
<1> HIDE DEF m
<1>6. /\ toApp' \in Seq(Message) /\ Len(toApp') = n + 1
      /\ \A i \in 1..k : toApp'[i] = toApp[i]
      /\ toApp'[k + 1] = m
      /\ \A i \in k + 2..n + 1 : \A j \in Int : j = i - 1 => toApp'[i] = toApp[j]
  <2> DEFINE a == SubSeq(toApp, 1, k)
             b == SubSeq(toApp, k + 1, n)
  <2>1. /\ a \in Seq(Message) /\ Len(a) = k
        /\ \A i \in 1..k : a[i] = toApp[i]
    BY <1>4, SubSeqProperties
  <2>2. /\ b \in Seq(Message) /\ Len(b) = n - k
        /\ \A i \in 1..n - k : b[i] = toApp[k + i]
    BY <1>4, SubSeqProperties
  <2>3. toApp' = (a \o <<m>>) \o b
    BY <1>5
  <2> HIDE DEF a, b
  <2>4. /\ a \o <<m>> \in Seq(Message) /\ Len(a \o <<m>>) = k + 1
        /\ \A i \in 1..k : (a \o <<m>>)[i] = a[i]
        /\ (a \o <<m>>)[k + 1] = m
    BY <1>3, <1>4, <2>1
  <2> DEFINE c == a \o <<m>>
  <2>5. /\ c \in Seq(Message) /\ Len(c) = k + 1
        /\ \A i \in 1..k : c[i] = a[i]
        /\ c[k + 1] = m /\ toApp' = c \o b
    BY <2>3, <2>4
  <2> HIDE DEF c
  <2>6. /\ c \o b \in Seq(Message) /\ Len(c \o b) = n + 1
        /\ \A i \in 1..n + 1 : (c \o b)[i] = IF i <= k + 1 THEN c[i] ELSE b[i - (k + 1)]
    <3>1. /\ c \o b \in Seq(Message) /\ Len(c \o b) = Len(c) + Len(b)
          /\ \A i \in 1..Len(c) + Len(b) :
                 (c \o b)[i] = IF i <= Len(c) THEN c[i] ELSE b[i - Len(c)]
      BY <2>2, <2>5, ConcatProperties
    <3>2. Len(c) + Len(b) = n + 1
      BY <1>4, <2>2, <2>5
    <3> QED BY <2>5, <3>1, <3>2
  <2>7. \A i \in k + 2..n + 1 : \A j \in Int : j = i - 1 => (c \o b)[i] = toApp[j]
    <3> SUFFICES ASSUME NEW i \in k + 2..n + 1
                 PROVE  (c \o b)[i] = toApp[i - 1]
      OBVIOUS
    <3>1. (c \o b)[i] = b[i - (k + 1)]
      BY <1>4, <2>6
    <3>2. i - (k + 1) \in 1..n - k /\ k + (i - (k + 1)) = i - 1
      BY <1>4
    <3> QED BY <2>2, <3>1, <3>2
  <2> QED BY <1>4, <2>1, <2>5, <2>6, <2>7
<1>7. \A i \in 1..n + 1 :
          \/ i = k + 1 /\ toApp'[i].type = "closed"
          \/ i # k + 1 /\ \E j \in 1..n : /\ toApp'[i] = toApp[j]
                                          /\ j = IF i <= k THEN i ELSE i - 1
  BY <1>3, <1>4, <1>6
<1>8. /\ server' \in [running : BOOLEAN, answered : BOOLEAN, docs : [Paths -> Copies]]
      /\ ~server'.running /\ server'.answered = server.answered
      /\ server'.docs = server.docs
  BY <1>1 DEF DocInv, Typed
<1>9. Typed'
  BY <1>1, <1>6, <1>8 DEF DocInv, Typed, editor
<1>10. \A p \in Paths : /\ Told(p)' = Told(p)
                        /\ \A v, t, b \in Nat : Said(p, v, t, b)' => Said(p, v, t, b)
  <2>1. \A i \in 1..Len(toApp') : toApp'[i].type = "publish" =>
            \E j \in 1..n : toApp'[i] = toApp[j]
    BY <1>6, <1>7
  <2> QED BY <1>1, <1>8, <2>1, SaidLess DEF DocInv
<1>11. Handshake'
  <2>1. Running
    BY <1>1 DEF DocInv, Handshake
  <2>2. \A i \in 1..n : toApp[i].type # "closed"
    BY <1>1 DEF DocInv, Handshake
  <2>3. k < n => client \notin {"Starting", "Refused"}
    BY <1>2 DEF DocInv, Unanswered
  <2>4. \A i \in 1..n : toApp[i].type = "answer" =>
            /\ client = "Starting" /\ server.answered /\ k = n
            /\ \A j \in 1..n : toApp[j].type = "answer" => i = j
    BY <1>4, <2>3 DEF DocInv, Handshake
  <2>5. \A i \in 1..n + 1 : toApp'[i].type = "closed" => i = k + 1
    BY <1>7, <2>2
  <2>6. \A i \in 1..n + 1 : toApp'[i].type = "answer" =>
            /\ i \in 1..n /\ i <= k /\ toApp[i].type = "answer"
    BY <1>4, <1>7, <2>4
  <2>7. \A i \in 1..n + 1 : toApp'[i].type = "answer" =>
            /\ client = "Starting" /\ server.answered
            /\ \A j \in 1..i : toApp'[j].type # "closed"
            /\ \A j \in 1..n + 1 : toApp'[j].type = "answer" => i = j
    BY <1>4, <2>4, <2>5, <2>6
  <2>8. Running' = Running
    BY <1>1 DEF Running
  <2>9. \A p \in Paths : toServer[p] # <<>> => server.answered
    BY DEF DocInv, Handshake
  <2>10. client \in {"Ready", "Refused"} => server.answered
    BY DEF DocInv, Handshake
  <2> QED BY <1>1, <1>6, <1>8, <2>1, <2>5, <2>7, <2>8, <2>9, <2>10 DEF Handshake
<1>12. ProtocolKept'
  BY <1>1, <1>8 DEF DocInv, ProtocolKept
<1>13. \A i \in 1..Len(toApp') :
           toApp'[i].type = "publish" => toApp'[i].session <= session
  BY <1>6, <1>7 DEF DocInv, Unanswered
<1> QED BY <1>1, <1>8, <1>9, <1>10, <1>11, <1>12, <1>13, WireDocInv

-----------------------------------------------------------------------------
(***************************************************************************)
(* The end of a batch.                                                     *)
(***************************************************************************)

\* Every tab's spans are drained and nothing else of it.
LEMMA Drained ==
    ASSUME DocInv, tab' = [p \in Paths |-> [tab[p] EXCEPT !.edits = NoEdits]]
    PROVE  /\ tab' \in [Paths -> Tabs]
           /\ \A p \in Paths : /\ tab'[p].edits = NoEdits
                               /\ tab'[p].open = tab[p].open
                               /\ tab'[p].text = tab[p].text
                               /\ tab'[p].revision = tab[p].revision
                               /\ tab'[p].buffer = tab[p].buffer
                               /\ tab'[p].recorded = tab[p].recorded
<1>1. NoEdits \in Edits
  BY DEF NoEdits, Edits
<1>2. \A p \in Paths : tab[p] \in Tabs
  BY TypesOfTab
<1>3. \A p \in Paths : [tab[p] EXCEPT !.edits = NoEdits] \in Tabs
  BY <1>1, <1>2 DEF Tabs
<1>4. \A p \in Paths : tab'[p] = [tab[p] EXCEPT !.edits = NoEdits]
  OBVIOUS
<1>5. tab' \in [Paths -> Tabs]
  BY <1>3
<1> QED BY <1>2, <1>4, <1>5 DEF Tabs

\* A sync that tells nobody anything: no client is ready.
LEMMA QuietSyncDocInv ==
    ASSUME DocInv, Sync, client # "Ready" PROVE DocInv'
<1>1. /\ tab' = [p \in Paths |-> [tab[p] EXCEPT !.edits = NoEdits]]
      /\ batch' = FALSE /\ UNCHANGED <<disk, texts, loads, toApp, doc>>
  BY DEF Sync
<1>2. /\ tab' \in [Paths -> Tabs]
      /\ \A p \in Paths : /\ tab'[p].edits = NoEdits
                          /\ tab'[p].open = tab[p].open
                          /\ tab'[p].text = tab[p].text
                          /\ tab'[p].revision = tab[p].revision
                          /\ tab'[p].buffer = tab[p].buffer
                          /\ tab'[p].recorded = tab[p].recorded
  BY <1>1, Drained
<1>3. \A p \in Paths : /\ ~doc[p].known /\ doc[p].synced = NotSent
                       /\ doc[p].pushed = NoPushed
  BY DEF DocInv, Unanswered
<1>4. CASE client = "NeverStarted" /\ Start
  <2>1. /\ ~server.running
        /\ \A i \in 1..Len(toApp) :
               /\ toApp[i].type = "publish"
               /\ toApp[i] \in Message /\ toApp[i].session <= session
    BY <1>4, OnlyPublications
  <2>2. doc \in [Paths -> Docs] /\ toApp \in Seq(Message)
    BY DEF DocInv, Typed
  <2> QED BY <1>1, <1>2, <1>3, <1>4, <2>1, <2>2, StartDocInv
<1>5. CASE UNCHANGED <<client, doc, toServer, server, session>>
  <2>1. \A p \in Paths, v, t, b \in Nat : Said(p, v, t, b)' <=> Said(p, v, t, b)
    BY <1>1, <1>5 DEF Said
  <2>2. Typed'
    BY <1>1, <1>2, <1>5 DEF DocInv, Typed
  <2>3. Issued'
    BY <1>1, <1>2 DEF DocInv, Issued
  <2>4. Unanswered' /\ Handshake' /\ ProtocolKept' /\ NothingSaid'
    BY <1>1, <1>5, <2>1 DEF DocInv, Unanswered, Handshake, ProtocolKept, Running, NothingSaid
  <2>5. SaidByTheEntry' /\ EntryMatchesTold'
    BY <1>5 DEF SaidByTheEntry, EntryMatchesTold
  <2>6. Settled' /\ PushedCarried'
    BY <1>1, <1>2, <1>3, <1>5 DEF Settled, PushedCarried
  <2> QED BY <2>2, <2>3, <2>4, <2>5, <2>6 DEF DocInv
<1> QED BY <1>4, <1>5 DEF Sync

\* What a notice is worth that the protocol allows after what was told.
LEMMA NoticeSent ==
    ASSUME Typed, ProtocolKept, NEW p \in Paths, NEW n \in AllNotices,
           toServer'[p] = toServer[p] \o <<n>>, UNCHANGED <<server, toApp, session>>,
           Legal(Told(p), n)
    PROVE  /\ toServer'[p] \in Seq(AllNotices) /\ toServer'[p] # <<>>
           /\ Told(p)' = n.copy
           /\ Legal(server.docs[p], Head(toServer'[p]))
           /\ \A i \in 2..Len(toServer'[p]) :
                  Legal(toServer'[p][i - 1].copy, toServer'[p][i])
           /\ \A v, t, b \in Nat :
                  Said(p, v, t, b)' => Said(p, v, t, b) \/ IsOf(n.copy, v, t, b)
<1> DEFINE s == toServer[p]
           r == toServer'[p]
<1>1. s \in Seq(AllNotices) /\ Len(s) \in Nat
  BY TypesOfOne DEF Typed
<1>2. <<n>> \in Seq(AllNotices) /\ Len(<<n>>) = 1 /\ <<n>>[1] = n
  OBVIOUS
<1>3. r = s \o <<n>> /\ toServer[p] = s /\ toServer'[p] = r
  OBVIOUS
<1> HIDE DEF s, r
<1>4. /\ r \in Seq(AllNotices) /\ Len(r) = Len(s) + 1
      /\ \A i \in 1..Len(s) + 1 : r[i] = IF i <= Len(s) THEN s[i] ELSE n
  <2>1. /\ s \o <<n>> \in Seq(AllNotices) /\ Len(s \o <<n>>) = Len(s) + Len(<<n>>)
        /\ \A i \in 1..Len(s) + Len(<<n>>) :
               (s \o <<n>>)[i] = IF i <= Len(s) THEN s[i] ELSE <<n>>[i - Len(s)]
    BY <1>1, <1>2, ConcatProperties
  <2>2. \A i \in 1..Len(s) + 1 : i <= Len(s) \/ i - Len(s) = 1
    BY <1>1
  <2> QED BY <1>2, <1>3, <2>1, <2>2
<1>5. /\ r # <<>> /\ r[Len(s) + 1] = n /\ Head(r) = r[1]
      /\ \A i \in 1..Len(s) : r[i] = s[i]
  BY <1>1, <1>4, EmptySeq, HeadTailProperties
<1>6. Told(p)' = n.copy
  BY <1>3, <1>4, <1>5 DEF Told, Last
<1>7. /\ s = <<>> => Told(p) = server.docs[p] /\ Len(s) = 0
      /\ s # <<>> => Told(p) = s[Len(s)].copy /\ Len(s) \in 1..Len(s)
  BY <1>3, ToldIs, EmptySeq
<1>8. Legal(server.docs[p], Head(r))
  <2>1. CASE s = <<>>
    BY <1>4, <1>5, <1>7, <2>1
  <2>2. CASE s # <<>>
    <3>1. Head(s) = s[1] /\ 1 \in 1..Len(s)
      BY <1>1, <1>7, <2>2, HeadTailProperties
    <3>2. Legal(server.docs[p], Head(s))
      BY <1>3, <2>2 DEF ProtocolKept
    <3> QED BY <1>5, <3>1, <3>2
  <2> QED BY <2>1, <2>2
<1>9. \A i \in 2..Len(r) : Legal(r[i - 1].copy, r[i])
  <2> SUFFICES ASSUME NEW i \in 2..Len(r) PROVE Legal(r[i - 1].copy, r[i])
    OBVIOUS
  <2>1. i - 1 \in 1..Len(s) /\ r[i - 1] = s[i - 1] /\ s # <<>>
    BY <1>1, <1>4, <1>5, EmptySeq
  <2>2. CASE i = Len(s) + 1
    <3>1. i - 1 = Len(s)
      BY <1>1, <2>2
    <3> QED BY <1>5, <1>7, <2>1, <2>2, <3>1
  <2>3. CASE i # Len(s) + 1
    <3>1. i \in 2..Len(s) /\ r[i] = s[i]
      BY <1>1, <1>4, <1>5, <2>3
    <3>2. Legal(s[i - 1].copy, s[i])
      BY <1>3, <2>1, <3>1 DEF ProtocolKept
    <3> QED BY <2>1, <3>1, <3>2
  <2> QED BY <2>2, <2>3
<1>10. \A v, t, b \in Nat :
           Said(p, v, t, b)' => Said(p, v, t, b) \/ IsOf(n.copy, v, t, b)
  <2> SUFFICES ASSUME NEW v \in Nat, NEW t \in Nat, NEW b \in Nat,
                      Said(p, v, t, b)', ~Said(p, v, t, b)
               PROVE  IsOf(n.copy, v, t, b)
    OBVIOUS
  <2>1. PICK i \in 1..Len(r) : IsOf(r[i].copy, v, t, b)
    BY <1>3 DEF Said, IsOf
  <2>2. i \notin 1..Len(s)
    BY <1>3, <1>5, <2>1 DEF Said
  <2>3. i = Len(s) + 1
    BY <1>1, <1>4, <2>2
  <2> QED BY <1>5, <2>1, <2>3
<1> QED BY <1>3, <1>4, <1>5, <1>6, <1>8, <1>9, <1>10

\* What is true of one document after a sync with a client that is ready: the
\* parts of the invariant that speak of it.
SettledWith(p) ==
    /\ doc[p] \in Docs
    /\ toServer[p] \in Seq(AllNotices)
    /\ toServer[p] # <<>> => /\ Legal(server.docs[p], Head(toServer[p]))
                             /\ \A i \in 2..Len(toServer[p]) :
                                    Legal(toServer[p][i - 1].copy, toServer[p][i])
    /\ \A v, t, b \in Nat : Said(p, v, t, b) =>
           /\ doc[p].known /\ v <= doc[p].version
           /\ t <= texts /\ b <= loads
           /\ v = doc[p].version =>
                  /\ doc[p].synced # NotSent => Told(p).text = t /\ Told(p).buffer = b
                  /\ Carried(p, t, t, b)
    /\ (doc[p].synced = NotSent) <=> (Told(p) = NoCopy)
    /\ doc[p].synced # NotSent => doc[p].known /\ Told(p).version = doc[p].version
    /\ ~doc[p].known => server.docs[p] = NoCopy /\ toServer[p] = <<>>
    /\ tab[p].open /\ doc[p].synced # NotSent /\ Told(p).buffer = tab[p].buffer =>
           Told(p).text = tab[p].text
    /\ doc[p].synced = IF tab[p].open THEN tab[p].revision ELSE NotSent
    /\ doc[p].pushed # NoPushed /\ doc[p].pushed.session = session =>
           /\ doc[p].pushed.text <= texts /\ doc[p].pushed.buffer <= loads
           /\ ~doc[p].pushed.stale =>
                  Carried(p, doc[p].pushed.frame, doc[p].pushed.text, doc[p].pushed.buffer)

\* What the spans of the batch carried, they have carried once drained.
LEMMA ShiftedCarried ==
    ASSUME DocInv, NEW p \in Paths,
           tab' = [q \in Paths |-> [tab[q] EXCEPT !.edits = NoEdits]],
           NEW new, new = Shifted(doc[p].pushed, tab[p].edits),
           UNCHANGED <<texts, loads, session>>
    PROVE  /\ new \in Pushes
           /\ new # NoPushed /\ new.session = session =>
                  /\ new.text <= texts /\ new.buffer <= loads
                  /\ ~new.stale => Carried(p, new.frame, new.text, new.buffer)'
<1> DEFINE old == doc[p].pushed
           e == tab[p].edits
<1>1. /\ tab'[p].edits = NoEdits /\ tab'[p].open = tab[p].open
      /\ tab'[p].text = tab[p].text /\ tab'[p].buffer = tab[p].buffer
      /\ tab'[p].recorded = tab[p].recorded
  BY Drained
<1>2. old \in Pushes /\ e \in Edits
  BY TypesOfTab DEF DocInv, Typed, Docs
<1>3. old # NoPushed /\ old.session = session =>
          /\ old.text <= texts /\ old.buffer <= loads
          /\ ~old.stale => Carried(p, old.frame, old.text, old.buffer)
  BY DEF DocInv, PushedCarried
<1>4. new = IF e = NoEdits \/ old = NoPushed THEN old
            ELSE [old EXCEPT !.frame = IF @ = e.from THEN e.to ELSE Lost]
  BY DEF Shifted
<1>5. e = tab[p].edits
  OBVIOUS
<1> HIDE DEF old, e
<1>6. CASE e = NoEdits \/ old = NoPushed
  <2>1. new = old
    BY <1>4, <1>6
  <2>2. old # NoPushed => e = NoEdits
    BY <1>6
  <2> QED BY <1>1, <1>2, <1>3, <1>5, <2>1, <2>2 DEF Carried
<1>7. CASE e # NoEdits /\ old # NoPushed
  <2>1. old \in [frame : Int, text : Nat, buffer : Nat, session : Nat, stale : BOOLEAN]
    BY <1>2, <1>7 DEF Pushes
  <2>2. new = [old EXCEPT !.frame = IF @ = e.from THEN e.to ELSE Lost]
    BY <1>4, <1>7
  <2>3. /\ new.text = old.text /\ new.buffer = old.buffer /\ new.session = old.session
        /\ new.stale = old.stale
        /\ new.frame = IF old.frame = e.from THEN e.to ELSE Lost
    BY <2>1, <2>2
  <2>4. (IF old.frame = e.from THEN e.to ELSE Lost) \in Int
    BY <1>2 DEF Edits, Lost
  <2>5. new \in Pushes
    BY <2>1, <2>2, <2>4 DEF Pushes
  <2>6. old.session = session /\ ~old.stale => Carried(p, new.frame, new.text, new.buffer)'
    BY <1>1, <1>3, <1>5, <1>7, <2>3 DEF Carried
  <2> QED BY <1>3, <1>7, <2>3, <2>5, <2>6
<1> QED BY <1>6, <1>7

\* Of what was said before a sync that moves the version on, nothing is at the
\* new version; what the notice says is.
LEMMA TellsDoc ==
    ASSUME DocInv, client = "Ready", NEW p \in Paths,
           MustOpen(p) \/ MustChange(p),
           doc'[p] = Reconciled(p), toServer'[p] = toServer[p] \o Notices(p),
           tab' = [q \in Paths |-> [tab[q] EXCEPT !.edits = NoEdits]],
           UNCHANGED <<server, toApp, session, texts, loads>>
    PROVE  SettledWith(p)'
<1> DEFINE n == [kind |-> IF MustOpen(p) THEN "didOpen" ELSE "didChange", copy |-> Copy(p)]
           c == Copy(p)
<1> PICK new : new = Shifted(doc[p].pushed, tab[p].edits)
  OBVIOUS
<1>1. /\ (doc[p].synced = NotSent) <=> (Told(p) = NoCopy)
      /\ doc[p].synced # NotSent => doc[p].known /\ Told(p).version = doc[p].version
      /\ ~doc[p].known => server.docs[p] = NoCopy /\ toServer[p] = <<>>
  BY DEF DocInv, EntryMatchesTold
<1>2. /\ doc[p] \in Docs /\ doc[p].version \in Nat /\ doc[p].known \in BOOLEAN
      /\ NextVersion(p) \in Nat
      /\ doc[p].known => NextVersion(p) = doc[p].version + 1
  BY DEF DocInv, Typed, Docs, NextVersion
<1>3. tab[p].open /\ tab[p].buffer \in Nat \ {0}
  <2>1. tab[p].open
    BY DEF MustOpen, MustChange
  <2> QED BY <2>1, TypesOfTab
<1>4. /\ c.version = NextVersion(p) /\ c.text = tab[p].text /\ c.buffer = tab[p].buffer
      /\ c \in Copies \ {NoCopy}
  BY <1>2, <1>3, TypesOfTab DEF Copy, Copies, NoCopy
<1>5. n \in AllNotices /\ n.copy = c
      /\ n.kind = IF MustOpen(p) THEN "didOpen" ELSE "didChange"
  BY <1>4 DEF AllNotices
<1>6. Notices(p) = <<n>>
  BY DEF Notices, MustOpen, MustChange, MustClose
<1>7. /\ doc'[p].known /\ doc'[p].version = NextVersion(p)
      /\ doc'[p].synced = tab[p].revision /\ doc'[p].pushed = new
  BY DEF Reconciled
<1> HIDE DEF n, c
<1>8. Legal(Told(p), n)
  <2>1. CASE MustOpen(p)
    <3>1. doc[p].synced = NotSent
      BY <2>1 DEF MustOpen
    <3> QED BY <1>1, <1>5, <2>1, <3>1 DEF Legal
  <2>2. CASE ~MustOpen(p)
    <3>1. doc[p].synced # NotSent
      BY <2>2 DEF MustOpen, MustChange
    <3>2. /\ n.kind = "didChange" /\ Told(p) # NoCopy
          /\ n.copy.version > Told(p).version
      BY <1>1, <1>2, <1>4, <1>5, <2>2, <3>1
    <3> QED BY <3>2 DEF Legal
  <2> QED BY <2>1, <2>2
<1>9. /\ toServer'[p] \in Seq(AllNotices) /\ toServer'[p] # <<>>
      /\ Told(p)' = c
      /\ Legal(server.docs[p], Head(toServer'[p]))
      /\ \A i \in 2..Len(toServer'[p]) :
             Legal(toServer'[p][i - 1].copy, toServer'[p][i])
      /\ \A v, t, b \in Nat : Said(p, v, t, b)' => Said(p, v, t, b) \/ IsOf(c, v, t, b)
  <2>1. toServer'[p] = toServer[p] \o <<n>>
    BY <1>6
  <2> QED BY <1>5, <1>8, <2>1, NoticeSent DEF DocInv
<1>10. /\ tab'[p].edits = NoEdits /\ tab'[p].open = tab[p].open
       /\ tab'[p].text = tab[p].text /\ tab'[p].buffer = tab[p].buffer
       /\ tab'[p].recorded = tab[p].recorded /\ tab'[p].revision = tab[p].revision
  BY Drained
<1>11. /\ new \in Pushes
       /\ new # NoPushed /\ new.session = session =>
              /\ new.text <= texts /\ new.buffer <= loads
              /\ ~new.stale => Carried(p, new.frame, new.text, new.buffer)'
  BY ShiftedCarried
<1>12. doc'[p] \in Docs
  <2>1. doc'[p] = [known |-> TRUE, version |-> NextVersion(p),
                   synced |-> tab[p].revision, pushed |-> new]
    BY DEF Reconciled
  <2>2. tab[p].revision \in Nat
    BY TypesOfTab
  <2> QED BY <1>2, <1>11, <2>1, <2>2 DEF Docs
<1>13. \A v, t, b \in Nat : Said(p, v, t, b)' =>
           /\ v <= NextVersion(p) /\ t <= texts /\ b <= loads
           /\ v = NextVersion(p) => c.text = t /\ c.buffer = b /\ Carried(p, t, t, b)'
  <2> SUFFICES ASSUME NEW v \in Nat, NEW t \in Nat, NEW b \in Nat, Said(p, v, t, b)'
               PROVE  /\ v <= NextVersion(p) /\ t <= texts /\ b <= loads
                      /\ v = NextVersion(p) =>
                             c.text = t /\ c.buffer = b /\ Carried(p, t, t, b)'
    OBVIOUS
  <2>1. CASE Said(p, v, t, b)
    <3>1. doc[p].known /\ v <= doc[p].version /\ t <= texts /\ b <= loads
      BY <2>1 DEF DocInv, SaidByTheEntry
    <3>2. NextVersion(p) = doc[p].version + 1
      BY <1>2, <3>1
    <3>3. v < NextVersion(p)
      BY <1>2, <3>1, <3>2
    <3> QED BY <1>2, <3>1, <3>3
  <2>2. CASE IsOf(c, v, t, b)
    <3>1. v = NextVersion(p) /\ t = tab[p].text /\ b = tab[p].buffer
      BY <1>4, <2>2 DEF IsOf
    <3>2. t <= texts /\ b <= loads
      BY <3>1, TypesOfTab
    <3>3. Carried(p, t, t, b)'
      BY <1>10, <3>1 DEF Carried
    <3> QED BY <1>2, <1>4, <3>1, <3>2, <3>3
  <2> QED BY <1>9, <2>1, <2>2
<1>14. tab[p].revision \in Nat /\ NotSent \notin Nat
  BY TypesOfTab DEF NotSent
<1> QED
  BY <1>3, <1>4, <1>7, <1>9, <1>10, <1>11, <1>12, <1>13, <1>14 DEF SettledWith

\* A document that nothing has open any more: the entry keeps its version, and
\* the server will have no copy.
LEMMA ClosesDoc ==
    ASSUME DocInv, client = "Ready", NEW p \in Paths, MustClose(p),
           doc'[p] = Reconciled(p), toServer'[p] = toServer[p] \o Notices(p),
           tab' = [q \in Paths |-> [tab[q] EXCEPT !.edits = NoEdits]],
           UNCHANGED <<server, toApp, session, texts, loads>>
    PROVE  SettledWith(p)'
<1> DEFINE n == [kind |-> "didClose", copy |-> NoCopy]
<1>1. /\ ~tab[p].open /\ doc[p].synced # NotSent
      /\ ~MustOpen(p) /\ ~MustChange(p)
  BY DEF MustOpen, MustChange, MustClose
<1>2. /\ Told(p) # NoCopy /\ doc[p].known
      /\ doc[p] \in Docs
  BY <1>1 DEF DocInv, EntryMatchesTold, Typed
<1>3. n \in AllNotices /\ n.kind = "didClose" /\ n.copy = NoCopy
  BY DEF AllNotices
<1>4. Notices(p) = <<n>>
  BY <1>1 DEF Notices
<1> HIDE DEF n
<1>5. Legal(Told(p), n)
  BY <1>2, <1>3 DEF Legal
<1>6. /\ toServer'[p] \in Seq(AllNotices) /\ toServer'[p] # <<>>
      /\ Told(p)' = NoCopy
      /\ Legal(server.docs[p], Head(toServer'[p]))
      /\ \A i \in 2..Len(toServer'[p]) :
             Legal(toServer'[p][i - 1].copy, toServer'[p][i])
      /\ \A v, t, b \in Nat : Said(p, v, t, b)' => Said(p, v, t, b) \/ IsOf(NoCopy, v, t, b)
  BY <1>3, <1>4, <1>5, NoticeSent DEF DocInv
<1>7. \A v, t, b \in Nat : ~IsOf(NoCopy, v, t, b)
  BY DEF IsOf, NoCopy
<1>8. tab'[p].open = FALSE
  BY <1>1, Drained
<1>9. doc'[p] = [doc[p] EXCEPT !.synced = NotSent, !.pushed = NoPushed]
  BY <1>1 DEF Reconciled
<1>10. /\ doc'[p] \in Docs /\ doc'[p].known /\ doc'[p].version = doc[p].version
       /\ doc'[p].synced = NotSent /\ doc'[p].pushed = NoPushed
  BY <1>2, <1>9 DEF Docs, Pushes, NotSent
<1>11. \A v, t, b \in Nat : Said(p, v, t, b)' =>
           v <= doc[p].version /\ t <= texts /\ b <= loads
  BY <1>6, <1>7 DEF DocInv, SaidByTheEntry
<1>12. \A t, b \in Nat : Carried(p, t, t, b)'
  BY <1>8 DEF Carried
<1> QED
  BY <1>6, <1>8, <1>10, <1>11, <1>12 DEF SettledWith

\* A document nothing is to be told of: no span is drained from an open tab
\* that the server would have had to be told of.
LEMMA LeavesDoc ==
    ASSUME DocInv, client = "Ready", NEW p \in Paths,
           ~MustOpen(p), ~MustChange(p), ~MustClose(p),
           doc'[p] = Reconciled(p), toServer'[p] = toServer[p] \o Notices(p),
           tab' = [q \in Paths |-> [tab[q] EXCEPT !.edits = NoEdits]],
           UNCHANGED <<server, toApp, session, texts, loads>>
    PROVE  SettledWith(p)'
<1>1. /\ toServer[p] \in Seq(AllNotices) /\ doc[p] \in Docs
  BY DEF DocInv, Typed
<1>2. toServer'[p] = toServer[p]
  BY <1>1, ConcatEmptySeq DEF Notices
<1>3. /\ Told(p)' = Told(p)
      /\ \A v, t, b \in Nat : Said(p, v, t, b)' <=> Said(p, v, t, b)
  BY <1>2 DEF Told, Said
<1>4. /\ (doc[p].synced = NotSent) <=> (Told(p) = NoCopy)
      /\ doc[p].synced # NotSent => doc[p].known /\ Told(p).version = doc[p].version
      /\ ~doc[p].known => server.docs[p] = NoCopy /\ toServer[p] = <<>>
      /\ tab[p].open /\ doc[p].synced # NotSent /\ Told(p).buffer = tab[p].buffer =>
             (doc[p].synced = tab[p].revision =>
                 Told(p).text = tab[p].text /\ tab[p].edits = NoEdits)
  BY DEF DocInv, EntryMatchesTold
<1>5. doc[p].synced = IF tab[p].open THEN tab[p].revision ELSE NotSent
  BY <1>1 DEF MustOpen, MustChange, MustClose, Docs
<1>6. /\ tab'[p].edits = NoEdits /\ tab'[p].open = tab[p].open
      /\ tab'[p].text = tab[p].text /\ tab'[p].buffer = tab[p].buffer
      /\ tab'[p].recorded = tab[p].recorded /\ tab'[p].revision = tab[p].revision
      /\ tab[p].revision \in Nat /\ NotSent \notin Nat
  BY Drained, TypesOfTab DEF NotSent
<1> PICK new : new = Shifted(doc[p].pushed, tab[p].edits)
  OBVIOUS
<1>7. /\ new \in Pushes
      /\ new # NoPushed /\ new.session = session =>
             /\ new.text <= texts /\ new.buffer <= loads
             /\ ~new.stale => Carried(p, new.frame, new.text, new.buffer)'
  BY ShiftedCarried
<1>8. doc'[p] = [doc[p] EXCEPT !.pushed = new]
  BY <1>1 DEF Reconciled, Docs
<1>9. /\ doc'[p] \in Docs /\ doc'[p].known = doc[p].known
      /\ doc'[p].version = doc[p].version
      /\ doc'[p].synced = doc[p].synced /\ doc'[p].pushed = new
  BY <1>1, <1>7, <1>8 DEF Docs
<1>10. \A v, t, b \in Nat : Said(p, v, t, b) =>
           /\ doc[p].known /\ v <= doc[p].version
           /\ t <= texts /\ b <= loads
           /\ v = doc[p].version =>
                  /\ doc[p].synced # NotSent => Told(p).text = t /\ Told(p).buffer = b
                  /\ Carried(p, t, t, b)'
  <2> SUFFICES ASSUME NEW v \in Nat, NEW t \in Nat, NEW b \in Nat, Said(p, v, t, b)
               PROVE  /\ doc[p].known /\ v <= doc[p].version
                      /\ t <= texts /\ b <= loads
                      /\ v = doc[p].version =>
                             /\ doc[p].synced # NotSent =>
                                    Told(p).text = t /\ Told(p).buffer = b
                             /\ Carried(p, t, t, b)'
    OBVIOUS
  <2>1. /\ doc[p].known /\ v <= doc[p].version
        /\ t <= texts /\ b <= loads
        /\ v = doc[p].version =>
               /\ doc[p].synced # NotSent => Told(p).text = t /\ Told(p).buffer = b
               /\ Carried(p, t, t, b)
    BY DEF DocInv, SaidByTheEntry
  <2>2. v = doc[p].version => Carried(p, t, t, b)'
    BY <1>4, <1>5, <1>6, <2>1 DEF Carried
  <2> QED BY <2>1, <2>2
<1>11. toServer[p] # <<>> => /\ Legal(server.docs[p], Head(toServer[p]))
                             /\ \A i \in 2..Len(toServer[p]) :
                                    Legal(toServer[p][i - 1].copy, toServer[p][i])
  BY DEF DocInv, ProtocolKept
<1>12. toServer'[p] # <<>> =>
           /\ Legal(server.docs[p], Head(toServer'[p]))
           /\ \A i \in 2..Len(toServer'[p]) :
                  Legal(toServer'[p][i - 1].copy, toServer'[p][i])
  BY <1>2, <1>11
<1> QED
  BY <1>1, <1>2, <1>3, <1>4, <1>5, <1>6, <1>7, <1>9, <1>10, <1>12 DEF SettledWith

\* A sync with a client that is ready.
LEMMA ReadySyncDocInv ==
    ASSUME DocInv, Sync, client = "Ready" PROVE DocInv'
<1>1. /\ tab' = [p \in Paths |-> [tab[p] EXCEPT !.edits = NoEdits]]
      /\ batch' = FALSE /\ UNCHANGED <<disk, texts, loads, toApp>>
      /\ doc' = [p \in Paths |-> Reconciled(p)]
      /\ toServer' = [p \in Paths |-> toServer[p] \o Notices(p)]
      /\ UNCHANGED <<client, server, session>>
  BY DEF Sync
<1>2. /\ tab' \in [Paths -> Tabs]
      /\ \A p \in Paths : /\ tab'[p].edits = NoEdits
                          /\ tab'[p].open = tab[p].open
                          /\ tab'[p].text = tab[p].text
                          /\ tab'[p].revision = tab[p].revision
                          /\ tab'[p].buffer = tab[p].buffer
                          /\ tab'[p].recorded = tab[p].recorded
  BY <1>1, Drained
<1>3. \A p \in Paths : SettledWith(p)'
  <2> SUFFICES ASSUME NEW p \in Paths PROVE SettledWith(p)'
    OBVIOUS
  <2>1. doc'[p] = Reconciled(p) /\ toServer'[p] = toServer[p] \o Notices(p)
    BY <1>1
  <2>2. CASE MustOpen(p) \/ MustChange(p)
    BY <1>1, <2>1, <2>2, TellsDoc
  <2>3. CASE MustClose(p)
    BY <1>1, <2>1, <2>3, ClosesDoc
  <2>4. CASE ~MustOpen(p) /\ ~MustChange(p) /\ ~MustClose(p)
    BY <1>1, <2>1, <2>4, LeavesDoc
  <2> QED BY <2>2, <2>3, <2>4
<1>4. /\ \A p \in Paths : doc'[p] \in Docs
      /\ \A p \in Paths : toServer'[p] \in Seq(AllNotices)
  BY <1>3 DEF SettledWith
<1>5. doc' \in [Paths -> Docs] /\ toServer' \in [Paths -> Seq(AllNotices)]
  BY <1>1, <1>4
<1>6. Typed'
  BY <1>1, <1>2, <1>5 DEF DocInv, Typed
<1>7. Issued'
  BY <1>1, <1>2 DEF DocInv, Issued
<1>8. Unanswered'
  BY <1>1 DEF DocInv, Unanswered
<1>9. Handshake'
  <2>1. server.answered /\ Running /\ Running'
    BY <1>1 DEF DocInv, Handshake, Running
  <2> QED BY <1>1, <2>1 DEF DocInv, Handshake
<1>10. ProtocolKept'
  <2>1. server'.answered
    BY <1>1 DEF DocInv, Handshake
  <2> SUFFICES ASSUME NEW p \in Paths, toServer'[p] # <<>>
               PROVE  /\ Legal(server'.docs[p], Head(toServer'[p]))
                      /\ \A i \in 2..Len(toServer'[p]) :
                             Legal(toServer'[p][i - 1].copy, toServer'[p][i])
    BY <2>1 DEF ProtocolKept, Legal
  <2>2. SettledWith(p)'
    BY <1>3
  <2> QED BY <2>2 DEF SettledWith
<1>11. SaidByTheEntry'
  BY <1>3 DEF SettledWith, SaidByTheEntry
<1>12. NothingSaid'
  BY <1>1 DEF NothingSaid
<1>13. EntryMatchesTold'
  <2> SUFFICES ASSUME NEW p \in Paths
               PROVE  /\ (doc'[p].synced = NotSent) <=> (Told(p)' = NoCopy)
                      /\ doc'[p].synced # NotSent =>
                             doc'[p].known /\ Told(p)'.version = doc'[p].version
                      /\ ~doc'[p].known => server'.docs[p] = NoCopy /\ toServer'[p] = <<>>
                      /\ /\ tab'[p].open /\ doc'[p].synced # NotSent
                         /\ Told(p)'.buffer = tab'[p].buffer
                         => /\ doc'[p].synced <= tab'[p].revision
                            /\ doc'[p].synced = tab'[p].revision =>
                                   Told(p)'.text = tab'[p].text /\ tab'[p].edits = NoEdits
    BY DEF EntryMatchesTold
  <2>1. SettledWith(p)'
    BY <1>3
  <2>2. tab'[p].revision \in Nat /\ tab'[p].edits = NoEdits
    BY <1>2, TypesOfTab
  <2> QED BY <2>1, <2>2 DEF SettledWith
<1>14. Settled'
  BY <1>1, <1>2, <1>3 DEF SettledWith, Settled
<1>15. PushedCarried'
  BY <1>3 DEF SettledWith, PushedCarried
<1> QED
  BY <1>6, <1>7, <1>8, <1>9, <1>10, <1>11, <1>12, <1>13, <1>14, <1>15 DEF DocInv

-----------------------------------------------------------------------------
(***************************************************************************)
(* The three invariants.                                                   *)
(***************************************************************************)

\* Every step keeps the invariant.
LEMMA NextDocInv == DocInv /\ [Next]_vars => DocInv'
<1> SUFFICES ASSUME DocInv, [Next]_vars PROVE DocInv'
  OBVIOUS
<1>1. ASSUME NEW p \in Paths,
             \/ OpenTab(p) \/ CloseTab(p) \/ Edit(p) \/ Restore(p)
             \/ Save(p) \/ Reload(p) \/ OutsideWrite(p)
      PROVE  DocInv'
  BY <1>1, OpenDocInv, CloseDocInv, EditDocInv, SaveDocInv, OutsideDocInv
<1>2. CASE RestartAll
  BY <1>2, RestartDocInv
<1>3. CASE Sync
  BY <1>3, ReadySyncDocInv, QuietSyncDocInv
<1>4. CASE Handle
  BY <1>4, AnswerDocInv, PublishDocInv, ClosedDocInv DEF Handle
<1>5. CASE ServerAnswers
  BY <1>5, AnswersDocInv
<1>6. ASSUME NEW p \in Paths, ServerReads(p) \/ ServerPublishes(p)
      PROVE  DocInv'
  BY <1>6, ReadsDocInv, PublishesDocInv
<1>7. CASE ServerDies
  BY <1>7, DiesDocInv
<1>8. CASE UNCHANGED vars
  <2>1. \A p \in Paths : /\ Told(p)' = Told(p)
                         /\ \A v, t, b \in Nat : Said(p, v, t, b)' <=> Said(p, v, t, b)
    BY <1>8, SameWire DEF vars, wire
  <2>2. Typed' /\ Issued' /\ Unanswered' /\ Handshake' /\ ProtocolKept'
    BY <1>8 DEF vars, DocInv, Typed, Issued, Unanswered, Handshake, ProtocolKept, Running
  <2>3. SaidByTheEntry' /\ NothingSaid' /\ EntryMatchesTold'
    BY <1>8, <2>1 DEF vars, DocInv, SaidByTheEntry, NothingSaid, EntryMatchesTold, Carried
  <2>4. Settled' /\ PushedCarried'
    BY <1>8 DEF vars, DocInv, Settled, PushedCarried, Carried
  <2> QED BY <2>2, <2>3, <2>4 DEF DocInv
<1> QED
  BY <1>1, <1>2, <1>3, <1>4, <1>5, <1>6, <1>7, <1>8 DEF Next

LEMMA AlwaysDocInv == Spec => []DocInv
  BY InitDocInv, NextDocInv, PTL DEF Spec

\* Every variable has its type, and between batches what a server that answers
\* is told is what the tabs hold (sync_language_servers, Lsp::sync_one), for any files and any
\* number of texts, loads, sessions and messages under way.
THEOREM DocumentsStaySound == Spec => []DocsSound
<1>1. DocInv => TypeOK
  <2> SUFFICES ASSUME DocInv PROVE TypeOK
    OBVIOUS
  <2>1. \A p \in Paths :
            /\ tab[p].open \in BOOLEAN
            /\ {tab[p].text, tab[p].revision, tab[p].saved, tab[p].buffer,
                tab[p].recorded, disk[p], doc[p].version} \subseteq Nat
            /\ doc[p].known \in BOOLEAN
            /\ doc[p].synced \in Nat \cup {NotSent}
            /\ server.docs[p] \in Copies
    BY TypesOfTab DEF DocInv, Typed, Docs
  <2>2. \A p \in Paths : doc[p].known => client = "Ready"
    BY DEF DocInv, Unanswered
  <2>3. /\ \A p \in Paths : \A i \in 1..Len(toServer[p]) : toServer[p][i].copy \in Copies
        /\ \A i \in 1..Len(toApp) : toApp[i] \in Message
    BY TypesOfOne DEF DocInv
  <2>4. /\ texts \in 0..MaxText /\ loads \in 0..MaxLoads /\ session \in 0..MaxSessions
        /\ batch \in BOOLEAN /\ client \in Clients
        /\ server.running \in BOOLEAN /\ server.answered \in BOOLEAN
    BY DEF DocInv, Typed
  <2> QED BY <2>1, <2>2, <2>3, <2>4 DEF TypeOK, Clients
<1>2. DocInv => Mirrors
  <2> SUFFICES ASSUME DocInv, ~batch, client = "Ready", NEW p \in Paths
               PROVE  IF tab[p].open
                      THEN /\ Told(p) # NoCopy
                           /\ Told(p).buffer = tab[p].buffer => Told(p).text = tab[p].text
                      ELSE Told(p) = NoCopy
    BY DEF Mirrors
  <2>1. doc[p].synced = IF tab[p].open THEN tab[p].revision ELSE NotSent
    BY DEF DocInv, Settled
  <2>2. tab[p].revision \in Nat /\ NotSent \notin Nat
    BY TypesOfTab DEF NotSent
  <2> QED BY <2>1, <2>2 DEF DocInv, EntryMatchesTold
<1> QED BY <1>1, <1>2, AlwaysDocInv, PTL DEF DocsSound

\* No server ever has a notice to read that the protocol forbids after those
\* before it, and none before it has answered (Lsp::sync_one).
THEOREM ProtocolStaysKept == Spec => []ProtocolKept
<1>1. DocInv => ProtocolKept
  BY DEF DocInv
<1> QED BY <1>1, AlwaysDocInv, PTL

\* Between batches, diagnostics of the server that runs sit where the recorded
\* edits carried the text they are about, in any order of publications,
\* syncs and deaths; excepted are those that were older than the text already
\* sent and named no version (App::publish_diagnostics, Lsp::shift).
THEOREM DiagnosticsStayPlaced == Spec => []DiagnosticsPlaced
<1>1. DocInv => DiagnosticsPlaced
  BY DEF DocInv, Settled, PushedCarried, Carried, DiagnosticsPlaced, Open
<1> QED BY <1>1, AlwaysDocInv, PTL
=============================================================================
