---------------------------- MODULE DocumentSync ----------------------------
(***************************************************************************)
(* What one language server is told about the open tabs, and what it has   *)
(* pushed back about them.                                                 *)
(*                                                                         *)
(* The event loop takes every event that is queued, applies them one after *)
(* another and only then reconciles: `Lsp::sync` compares what the server  *)
(* has been told with what the tabs hold and sends the difference.  So     *)
(* every edit, save, close and message handled since the last sync is seen *)
(* by the server as one change.  `batch` says whether events have been     *)
(* applied that no sync has followed yet.                                  *)
(*                                                                         *)
(* A text is a number, a new one for every change, so a later text of one  *)
(* buffer is a larger number.  One configuration and one root, so one      *)
(* server slot; the server declares open, close and change notifications.  *)
(* Pipes are kept per document: documents are told about independently,    *)
(* and only the order within one document matters here.                    *)
(***************************************************************************)
EXTENDS Integers, Sequences, SequencesExt

CONSTANTS Paths,        \* files that may be opened
          MaxText,      \* bound: texts that are ever made
          MaxLoads,     \* bound: times a buffer is made from a file
          MaxSessions,  \* bound: times the server is started
          MaxQueue      \* bound: messages on the way from the server

ASSUME BoundsAssumption ==
    {MaxText, MaxLoads, MaxSessions, MaxQueue} \subseteq Nat

VARIABLES
    tab,       \* the editor tabs, by path
    disk,      \* the text on disk, by path
    texts,     \* the largest text made so far
    loads,     \* buffers made so far
    batch,     \* events were applied since the last sync
    client,    \* the server slot: its client's state, or why there is none
    doc,       \* what the server has been told, by path
    toServer,  \* notifications not yet read by the server, by path
    toApp,     \* messages from the server not yet handled
    server,    \* the process: whether it runs, answered, and its documents
    session    \* conversations started so far

editor == <<tab, disk, texts, loads>>
wire == <<toServer, toApp, server, session>>
vars == <<tab, disk, texts, loads, batch, client, doc, toServer, toApp,
          server, session>>

NotSent == -1     \* `synced: None`
Lost == -2        \* positions that fit no text any more

\* The composition of the edit spans recorded since they were last drained:
\* the text whose positions they carry forward, and to which.
NoEdits == [from |-> -1, to |-> -1]
NoPushed == [frame |-> -1, text |-> -1, buffer |-> 0, session |-> 0,
             stale |-> FALSE]
NoCopy == [version |-> -1, text |-> -1, buffer |-> 0]

ClosedTab == [open |-> FALSE, text |-> 0, revision |-> 0, saved |-> 0,
              edits |-> NoEdits, buffer |-> 0, recorded |-> 0]
UnknownDoc == [known |-> FALSE, version |-> 0, synced |-> NotSent,
               pushed |-> NoPushed]

Open == {p \in Paths : tab[p].open}

\* What the server will hold for a document once it has read its pipe.
Told(p) == IF toServer[p] = <<>> THEN server.docs[p]
           ELSE Last(toServer[p]).copy
-----------------------------------------------------------------------------
Init ==
    /\ tab = [p \in Paths |-> ClosedTab]
    /\ disk = [p \in Paths |-> 0]
    /\ texts = 0
    /\ loads = 0
    /\ batch = FALSE
    /\ client = "NeverStarted"
    /\ doc = [p \in Paths |-> UnknownDoc]
    /\ toServer = [p \in Paths |-> <<>>]
    /\ toApp = <<>>
    /\ server = [running |-> FALSE, answered |-> FALSE,
                 docs |-> [p \in Paths |-> NoCopy]]
    /\ session = 0

\* A buffer fresh from disk: revision zero, nothing recorded.  `buffer` names
\* it; no code compares it.
Loaded(p) == [open |-> TRUE, text |-> disk[p], revision |-> 0,
              saved |-> disk[p], edits |-> NoEdits, buffer |-> loads + 1,
              recorded |-> disk[p]]

Recorded(edits, from, to) ==
    IF edits = NoEdits THEN [from |-> from, to |-> to]
    ELSE [from |-> IF edits.to = from THEN edits.from ELSE Lost, to |-> to]

(***************************************************************************)
(* Events that change the tabs.  None of them tells the server anything.   *)
(***************************************************************************)
Event == batch' = TRUE /\ UNCHANGED <<client, doc, wire>>

OpenTab(p) ==
    /\ ~tab[p].open
    /\ loads < MaxLoads
    /\ tab' = [tab EXCEPT ![p] = Loaded(p)]
    /\ loads' = loads + 1
    /\ UNCHANGED <<disk, texts>>
    /\ Event

CloseTab(p) ==
    /\ tab[p].open
    /\ tab' = [tab EXCEPT ![p] = ClosedTab]
    /\ UNCHANGED <<disk, texts, loads>>
    /\ Event

Edit(p) ==
    /\ tab[p].open
    /\ texts < MaxText
    /\ texts' = texts + 1
    /\ tab' = [tab EXCEPT ![p].text = texts + 1,
                          ![p].revision = @ + 1,
                          ![p].edits = Recorded(@, tab[p].text, texts + 1)]
    /\ UNCHANGED <<disk, loads>>
    /\ Event

\* Mutant: the rope is replaced and the revision forgotten.
RestoreQuiet(p) ==
    /\ tab[p].open
    /\ tab[p].revision > 0
    /\ texts < MaxText
    /\ texts' = texts + 1
    /\ tab' = [tab EXCEPT ![p].text = texts + 1, ![p].recorded = texts + 1]
    /\ UNCHANGED <<disk, loads>>
    /\ Event

\* Undo or redo: the whole rope is replaced, and no span is recorded.
\* `recorded` is the oldest text the spans reach back to.
Restore(p) ==
    /\ tab[p].open
    /\ tab[p].revision > 0
    /\ texts < MaxText
    /\ texts' = texts + 1
    /\ tab' = [tab EXCEPT ![p].text = texts + 1,
                          ![p].revision = @ + 1,
                          ![p].recorded = texts + 1]
    /\ UNCHANGED <<disk, loads>>
    /\ Event

Save(p) ==
    /\ tab[p].open
    /\ disk' = [disk EXCEPT ![p] = tab[p].text]
    /\ tab' = [tab EXCEPT ![p].saved = tab[p].text]
    /\ UNCHANGED <<texts, loads>>
    /\ Event

\* The watcher reports a file that differs from a clean buffer.
Reload(p) ==
    /\ tab[p].open
    /\ disk[p] # tab[p].text
    /\ tab[p].saved = tab[p].text
    /\ loads < MaxLoads
    /\ tab' = [tab EXCEPT ![p] = Loaded(p)]
    /\ loads' = loads + 1
    /\ UNCHANGED <<disk, texts>>
    /\ Event

\* Another program writes the file.
OutsideWrite(p) ==
    /\ texts < MaxText
    /\ texts' = texts + 1
    /\ disk' = [disk EXCEPT ![p] = texts + 1]
    /\ UNCHANGED <<tab, loads, batch, client, doc, wire>>

(***************************************************************************)
(* The server slot.                                                        *)
(***************************************************************************)
\* A process is started: an empty conversation, and `initialize` on its way.
\* Or it would not start, and the slot is given up on.
Start ==
    \/ /\ session < MaxSessions
       /\ session' = session + 1
       /\ client' = "Starting"
       /\ server' = [running |-> TRUE, answered |-> FALSE,
                     docs |-> [p \in Paths |-> NoCopy]]
       /\ toServer' = [p \in Paths |-> <<>>]
    \/ /\ client' = "Stopped"
       /\ UNCHANGED <<session, server, toServer>>

\* `restart_all`: the user asks for a server that was given up on.
RestartAll ==
    /\ client = "Stopped"
    /\ Start
    /\ batch' = TRUE
    /\ UNCHANGED <<editor, doc, toApp>>

(***************************************************************************)
(* The end of a batch: `sync_language_servers`.                            *)
(***************************************************************************)
MustOpen(p) == tab[p].open /\ doc[p].synced = NotSent
MustChange(p) == tab[p].open /\ doc[p].synced \notin {NotSent, tab[p].revision}
MustClose(p) == ~tab[p].open /\ doc[p].synced # NotSent

\* Mutant: the version is only moved on by an open.
NextVersionStill(p) == doc[p].version

\* Versions are never reset while the document is known.
NextVersion(p) == IF doc[p].known THEN doc[p].version + 1 ELSE 0

Copy(p) == [version |-> NextVersion(p), text |-> tab[p].text,
            buffer |-> tab[p].buffer]

Notices(p) ==
    CASE MustOpen(p)   -> <<[kind |-> "didOpen", copy |-> Copy(p)]>>
      [] MustChange(p) -> <<[kind |-> "didChange", copy |-> Copy(p)]>>
      [] MustClose(p)  -> <<[kind |-> "didClose", copy |-> NoCopy]>>
      [] OTHER         -> <<>>

\* The diagnostics moved through the spans just drained.
Shifted(pushed, edits) ==
    IF edits = NoEdits \/ pushed = NoPushed THEN pushed
    ELSE [pushed EXCEPT !.frame = IF @ = edits.from THEN edits.to ELSE Lost]

Reconciled(p) ==
    IF MustOpen(p) \/ MustChange(p)
    THEN [known |-> TRUE, version |-> NextVersion(p),
          synced |-> tab[p].revision,
          pushed |-> Shifted(doc[p].pushed, tab[p].edits)]
    ELSE IF MustClose(p)
    THEN [doc[p] EXCEPT !.synced = NotSent, !.pushed = NoPushed]
    ELSE [doc[p] EXCEPT !.pushed = Shifted(@, tab[p].edits)]

\* Every tab's spans are drained, and every difference is sent if the
\* handshake is done.  The first open tab starts the server.
Sync ==
    /\ batch
    /\ batch' = FALSE
    /\ tab' = [p \in Paths |-> [tab[p] EXCEPT !.edits = NoEdits]]
    /\ \/ /\ client = "Ready"
          /\ doc' = [p \in Paths |-> Reconciled(p)]
          /\ toServer' = [p \in Paths |-> toServer[p] \o Notices(p)]
          /\ UNCHANGED <<client, server, session>>
       \/ /\ client = "NeverStarted"
          /\ Open # {}
          /\ Start
          /\ UNCHANGED doc
       \/ /\ client # "Ready"
          /\ ~(client = "NeverStarted" /\ Open # {})
          /\ UNCHANGED <<client, doc, toServer, server, session>>
    /\ UNCHANGED <<disk, texts, loads, toApp>>

(***************************************************************************)
(* A message from the server: `handle_lsp`.                                *)
(***************************************************************************)
Receive(type) ==
    /\ toApp # <<>>
    /\ Head(toApp).type = type
    /\ toApp' = Tail(toApp)
    /\ batch' = TRUE
    /\ UNCHANGED editor

\* Mutant: the answer is known by the number the first process was asked under.
HandleAnswerFirst ==
    /\ Receive("answer")
    /\ client' = IF client # "Starting" \/ session > 1 THEN client
                 ELSE IF Head(toApp).refused THEN "Refused" ELSE "Ready"
    /\ UNCHANGED <<doc, toServer, server, session>>

\* The answer to `initialize`.  A refusal leaves a client that is never ready.
HandleAnswer ==
    /\ Receive("answer")
    /\ client' = IF client # "Starting" THEN client
                 ELSE IF Head(toApp).refused THEN "Refused" ELSE "Ready"
    /\ UNCHANGED <<doc, toServer, server, session>>

Running == client \in {"Starting", "Ready", "Refused"}

\* About an older text than the one already sent, with no version to tell it
\* by: recorded with what is shown, as history that no code reads.
Undatable(m) == ~m.versioned /\ m.version < doc[m.path].version

\* Mutant: the version a publication is about is not looked at.
HandlePublishAny ==
    /\ Receive("publish")
    /\ LET m == Head(toApp)
       IN  doc' = IF Running /\ tab[m.path].open /\ doc[m.path].known
                  THEN [doc EXCEPT ![m.path].pushed =
                           [frame |-> m.text, text |-> m.text,
                            buffer |-> m.buffer, session |-> m.session,
                            stale |-> Undatable(m)]]
                  ELSE doc
    /\ UNCHANGED <<client, toServer, server, session>>

\* Diagnostics: dropped when nothing has the file open, and when they say
\* that they describe a version older than the one already sent.  Those that
\* name no version are taken, however old.
HandlePublish ==
    /\ Receive("publish")
    /\ LET m == Head(toApp)
           shown == /\ Running
                    /\ tab[m.path].open
                    /\ doc[m.path].known
                    /\ m.versioned => m.version >= doc[m.path].version
       IN  doc' = IF shown
                  THEN [doc EXCEPT ![m.path].pushed =
                           [frame |-> m.text, text |-> m.text,
                            buffer |-> m.buffer, session |-> m.session,
                            stale |-> Undatable(m)]]
                  ELSE doc
    /\ UNCHANGED <<client, toServer, server, session>>

\* Mutant: the documents of the server that died are kept.
HandleClosedKeeping ==
    /\ Receive("closed")
    /\ IF ~Running
       THEN UNCHANGED <<client, doc, toServer, server, session>>
       ELSE /\ UNCHANGED doc
            /\ \/ client = "Ready" /\ Start
               \/ client # "Ready" /\ client' = "Stopped"
                  /\ UNCHANGED <<toServer, server, session>>

\* The server is gone.  Its documents are forgotten, which is what has them
\* announced again; one that had answered is restarted unless it has crashed
\* too often, one that had not is given up on.
HandleClosed ==
    /\ Receive("closed")
    /\ IF ~Running
       THEN UNCHANGED <<client, doc, toServer, server, session>>
       ELSE /\ doc' = [p \in Paths |-> UnknownDoc]
            /\ \/ client = "Ready" /\ Start
               \/ client # "Ready" /\ client' = "Stopped"
                  /\ UNCHANGED <<toServer, server, session>>

(***************************************************************************)
(* The server process and the threads on its pipes.                        *)
(***************************************************************************)
Say(m) == toApp' = Append(toApp, m)

ServerAnswers ==
    /\ server.running /\ ~server.answered
    /\ \E refused \in BOOLEAN : Say([type |-> "answer", refused |-> refused])
    /\ server' = [server EXCEPT !.answered = TRUE]
    /\ UNCHANGED <<editor, batch, client, doc, toServer, session>>

ServerReads(p) ==
    /\ server.running
    /\ toServer[p] # <<>>
    /\ server' = [server EXCEPT !.docs[p] = Head(toServer[p]).copy]
    /\ toServer' = [toServer EXCEPT ![p] = Tail(@)]
    /\ UNCHANGED <<editor, batch, client, doc, toApp, session>>

\* The version of the document is in the message only if it is `versioned`:
\* the protocol leaves that to the server.
ServerPublishes(p) ==
    /\ server.running
    /\ server.docs[p] # NoCopy
    /\ Len(toApp) < MaxQueue
    /\ \E versioned \in BOOLEAN :
          Say([type |-> "publish", path |-> p, session |-> session,
               versioned |-> versioned, version |-> server.docs[p].version,
               text |-> server.docs[p].text, buffer |-> server.docs[p].buffer])
    /\ UNCHANGED <<editor, batch, client, doc, toServer, server, session>>

\* The process dies.  The reader delivers all it said and then the end; or a
\* write fails first, and the writer's report overtakes what is still unread.
ServerDies ==
    /\ server.running
    /\ server' = [server EXCEPT !.running = FALSE]
    /\ \E i \in 0..Len(toApp) :
          /\ i < Len(toApp) => \E p \in Paths : toServer[p] # <<>>
          /\ toApp' = SubSeq(toApp, 1, i) \o <<[type |-> "closed"]>>
                      \o SubSeq(toApp, i + 1, Len(toApp))
    /\ UNCHANGED <<editor, batch, client, doc, toServer, session>>

Handle == HandleAnswer \/ HandlePublish \/ HandleClosed

Next ==
    \/ \E p \in Paths : OpenTab(p) \/ CloseTab(p) \/ Edit(p) \/ Restore(p)
                       \/ Save(p) \/ Reload(p) \/ OutsideWrite(p)
    \/ RestartAll
    \/ Sync
    \/ Handle
    \/ ServerAnswers
    \/ \E p \in Paths : ServerReads(p) \/ ServerPublishes(p)
    \/ ServerDies

Spec == Init /\ [][Next]_vars

\* The event loop always reaches the end of its batch and takes the next
\* event; a server that runs answers and reads its input.  Nothing makes the
\* user edit, or a server publish, or the process die.
Fairness ==
    /\ WF_vars(Sync)
    /\ WF_vars(Handle)
    /\ WF_vars(ServerAnswers)
    /\ \A p \in Paths : WF_vars(ServerReads(p))

FairSpec == Spec /\ Fairness
-----------------------------------------------------------------------------
Message ==
    [type : {"answer"}, refused : BOOLEAN]
        \cup [type : {"publish"}, path : Paths, session : Nat,
              versioned : BOOLEAN, version : Nat, text : Nat,
              buffer : Nat \ {0}]
        \cup [type : {"closed"}]

Copies == [version : Nat, text : Nat, buffer : Nat \ {0}] \cup {NoCopy}

\* Every variable has its type; documents are known only to a client that
\* finished its handshake, and only an open tab shows diagnostics.
TypeOK ==
    /\ \A p \in Paths :
          /\ tab[p].open \in BOOLEAN
          /\ {tab[p].text, tab[p].revision, tab[p].saved, tab[p].buffer,
              tab[p].recorded, disk[p], doc[p].version} \subseteq Nat
          /\ doc[p].known \in BOOLEAN
          /\ doc[p].synced \in Nat \cup {NotSent}
          /\ doc[p].known => client = "Ready"
          /\ server.docs[p] \in Copies
          /\ \A i \in 1..Len(toServer[p]) : toServer[p][i].copy \in Copies
    /\ texts \in 0..MaxText
    /\ loads \in 0..MaxLoads
    /\ session \in 0..MaxSessions
    /\ batch \in BOOLEAN
    /\ client \in {"NeverStarted", "Starting", "Ready", "Refused", "Stopped"}
    /\ server.running \in BOOLEAN
    /\ server.answered \in BOOLEAN
    /\ \A i \in 1..Len(toApp) : toApp[i] \in Message

\* Between batches, what the server is told is what the tabs hold: the text
\* of every open tab, no text for any other.  Said of one buffer's life: the
\* sync compares revision numbers, and they mean nothing across two buffers.
Mirrors ==
    ~batch /\ client = "Ready" =>
        \A p \in Paths :
            IF tab[p].open
            THEN /\ Told(p) # NoCopy
                 /\ Told(p).buffer = tab[p].buffer => Told(p).text = tab[p].text
            ELSE Told(p) = NoCopy

\* Same, with nothing said about buffers: "Full sync cannot desync"
\* (docs/design/lsp.md:266).
CannotDesync ==
    ~batch /\ client = "Ready" =>
        \A p \in Open : Told(p).text = tab[p].text

\* The server never sees a message the protocol forbids: a document is
\* opened when it is closed, changed and closed when it is open, every
\* version is larger than the one before, and none of it before the server
\* has answered `initialize`.
Legal(before, notice) ==
    CASE notice.kind = "didOpen"   -> before = NoCopy
      [] notice.kind = "didChange" -> /\ before # NoCopy
                                      /\ notice.copy.version > before.version
      [] notice.kind = "didClose"  -> before # NoCopy

ProtocolKept ==
    \A p \in Paths : toServer[p] # <<>> =>
        /\ Legal(server.docs[p], Head(toServer[p]))
        /\ \A i \in 2..Len(toServer[p]) :
              Legal(toServer[p][i - 1].copy, toServer[p][i])
        /\ server.answered

\* Between batches, diagnostics sit where the text they are about went, as
\* long as every change since was recorded and the server that said them is
\* the one running: whatever was sent, undone or reopened while they were on
\* their way (`publish_diagnostics`, `shift`).  Excepted are those that were
\* older than the text already sent and named no version: nothing tells them
\* from current ones.
DiagnosticsPlaced ==
    ~batch => \A p \in Open :
        LET pushed == doc[p].pushed
        IN  /\ pushed # NoPushed
            /\ ~pushed.stale
            /\ pushed.session = session
            /\ pushed.text >= tab[p].recorded
            /\ pushed.buffer = tab[p].buffer
            => pushed.frame = tab[p].text

\* A server that stays up comes to hold the text of every tab that stays
\* open, once the user pauses: whatever happened while it was starting, and
\* whatever an earlier server had been told.
EventuallyHeld ==
    \A p \in Paths :
        <>[](tab[p].open /\ server.running /\ client # "Refused")
        => []<>(/\ server.docs[p] # NoCopy
                /\ server.docs[p].buffer = tab[p].buffer
                       => server.docs[p].text = tab[p].text)

\* Every variable has its type, and servers are told what the tabs hold
\* (sync_one, reconcile).
DocsSound == TypeOK /\ Mirrors
=============================================================================
