# A verification development of `type`

`type` is a terminal text editor in Rust: one process, one event loop that owns
all state, and a few threads and child processes that talk to the loop through
one channel (a parse thread, a finder, file watching, and two threads per
language server). This directory holds TLA+ modules translated from its source,
the TLC configurations that check them, and TLAPS proofs about them. Paths below
are relative to the repository; `PROJECT.json` maps every definition to the lines
it stands for.

    tlc -workers 2 -config Panes.cfg MCPanes.tla   # check a module
    tlapm TextBufferProof.tla                      # check proofs

Contents: [inventory](#1-inventory) · [plan](#2-plan) · [modules](#3-modules) ·
[runs and bounds](#4-runs-bounds-and-what-they-show) · [fairness](#5-fairness) ·
[proofs](#6-what-is-proved) · [disagreements](#7-disagreements-met-while-modelling) ·
[limits](#8-what-is-only-model-checked-and-what-is-not-modelled)

## 1. Inventory

How the parts meet:

    keys, mouse ─┐                          ┌─ typ-buffer: text, undo, save
    file watcher ─┤   one channel           ├─ tabs, panes, focus
    parse thread ─┼──────────────► loop ────┼─ parse requests ──► parse thread
    LSP readers ──┤  (a batch at a time)    ├─ Lsp: sync, questions ─► writers
    finder ───────┘                         └─ settings, sessions on disk

The loop (`crates/typ-app/src/app/run.rs`) takes every event that is queued, one
after another, and only at the end of such a *batch* tells the servers what changed,
asks what should be asked and draws. So a handler is atomic, a batch is not, and
what one event assumed may be gone by the end of its batch.

| component | state | operations | meets | hard | correct when |
|---|---|---|---|---|---|
| text buffer, undo (`typ-buffer`) | rope, `state`, `saved_state`, `revision`, two stacks, the open run | edit groups, undo, redo, boundary, save mark, reload | editor panel, save, parse, sync | "clean" is a comparison of two numbers; runs fold edits | clean means saved; undo and redo are one line of versions; the history is bounded |
| saving (`buffer.rs`, `config/write.rs`, `session.rs`) | files, directory entries, what is flushed | create, mode, write, flush, rename, flush the directory; plain write and rename | two editors, other programs, power | a kill or failure between any two steps | the path always names one whole text; a save that returned survives |
| document synchronisation (`lsp/mod.rs`) | per file: version, synced revision, pushed diagnostics | reconcile, publish, forget | tabs, server process | batches, late publications, crashes | the server is told each tab's text, in a legal order |
| questions (`lsp/requests.rs`, `app/servers.rs`) | pending questions, numbers, what was last asked, what is on offer | ask, cancel, match, retry, act | sync, caret, focus | answers late, out of order, after a restart | an answer is acted on for its own question; what is on offer fits the text |
| life of a server (`lsp/mod.rs`, `typ-lsp/transport.rs`) | client, exits, `ever_ready`, threads, process | start, exit, restart, give up, restart by hand, shut down | the two above | which thread learns first; crash loops | one process per slot; crash loops stop; an end is noticed |
| parse pipeline (`typ-syntax/worker.rs`, `background.rs`) | requested revision, awaited generation, trees | request, coalesce, answer, forget | tabs | requests dropped; tabs replaced meanwhile | a tree goes to its file; what is on screen gets its colours |
| tabs and panes (`app/tabs.rs`, `panes.rs`) | panes, tabs, order of use, three refused closes | open, switch, split, close, quit, outside writes | watcher, servers | a question answered by something that moved | one buffer per file; nothing unsaved lost unasked |
| focus, docks, zoom (`focus.rs`, `docking.rs`) | focus, the way back, folds, zoom | move, fold, open, zoom, resize | panes, terminal | regions that go while they have the keys | the keys are somewhere open; esc comes home |
| editor panel, selections (`typ-panel-editor`, `selection.rs`, `change.rs`) | text, selections and the primary, wanted column, clipboard, drag anchor | motions, edits at every caret, cut and paste, mouse, occurrences, server edits | text buffer, servers, mouse | every edit is described in one text and made one after another | carets stay in the text and apart; the text made is the text described |
| pure queries (`word`, `brackets`, `search`, `indent`, `position`, `line_ending`) | none | — | their callers | wide graphemes, three encodings, chunk seams | each agrees with a plain definition |
| finder, picker (`typ-find`, `typ-picker`, `app/picker.rs`) | queue, corpus, generation, lists, query, mode, choice | walk, rank, search, query, choose, reopen | a worker thread | late results of an old query; a list replaced under the choice | lists shown are the query's, the choice is a row of them |
| completion, signature help (`app/complete.rs`, `complete_list.rs`, `signature.rs`) | list, what is wanted, what is in flight | want, ask, answer, narrow, accept, close | sync, a server, keys | an answer to a text that has changed; asking again without end | what is accepted is what was shown; both come to rest |
| replies (`lsp/reply.rs`) | none | one meaning for each of the shapes | servers | shapes only some servers send | every shape is read, ranges in characters |
| keys, bindings (`typ-core`, `config/keys.rs`, `keybindings`) | keymap, the tab's copy, undo, `keys.toml` | load, record, rebind, unbind, reset, undo | disk, user, dispatch | two writes of one change; a file others edit; prefixes that shadow | the file, the tab and the editor agree; a refused change leaves the file |
| settings (`config`, `settings`) | `config.toml`, the tab's copy, the running editor's | choose, type, reset, undo, apply | disk, user | three copies | the same |
| layout of panes (`pane.rs`, `panes.rs`) | a tree of splits, the rule held | split, close, drag, nudge, even, go beside, resize | tabs, docks, terminal, mouse | shares of shares, on screens too small for the minimums | panes and rules tile the region; a rule moves alone; arrows lead everywhere |
| sessions (`session.rs`, `sessions.rs`) | the saved layout and tabs | save at exit, restore | tabs, layout | files gone since; indices into what they were | what is restored is what could be had |
| tree panel (`typ-panel-tree`) | rows, what is expanded, selection, first row, height | expand, collapse, move, press, wheel, draw | disk, tabs | rows of a disk that has changed since; directories that cannot be read | rows are in order and under what is open; the selection stays on its file |
| problems list, `f8` (`problems.rs`, `app/bottom.rs`) | a copy of the diagnostics, choice, first row | collect, choose, press, wheel, draw, jump, next | diagnostics, tabs, caret | a copy and an index while diagnostics come and files close | the choice can be seen; `f8` goes round all places |
| menus, prompt | their own cursor | open, move, choose | focus | — | — |
| drawing, bars, theme, command line, log | a frame | — | — | — | — |

`PROJECT.json` lists every component with its sources, what is modelled of it and,
where nothing is, why.

## 2. Plan

Order of work, most important behaviour first.

1. Done: `UndoTimeline`, `TextBuffer`; `DocumentSync`; `Tabs`;
   `FocusWay`; `ParsePipeline`; `Questions`; `ServerLife`; `SaveFile`; `Text`,
   `TextQueries`, `EditorPanel`; `ProjectText`, `Finder`; `Replies`, `Completion`,
   `Lists`; `ConfigFile`, `Keymap`, `Keybindings`, `SettingsTab`, `Preferences`;
   `PaneLayout`, and starting again in it and in `Tabs`; `TreePanel`; `Problems`.
2. Next, to model: menus and prompts over the focus.
3. Composition: `DocumentSync` and `Questions` share the server slot that
   `ServerLife` details; the step is to show that `ServerLife` implements the slot
   both of them assume (start, ready, closed, restart or give up), as a refinement
   with the slot as an abstract module; and to put `Completion` over `Questions`,
   whose match of answers it takes for granted.
4. Proofs. Done: `TextBuffer`, and that it implements `UndoTimeline`; `SaveFile`;
   `ServerLife`; `DocumentSync`; `Questions`; `ParsePipeline`; `Tabs`; `FocusWay`;
   `Lists` (section 6). Next, in this order: `Preferences`' `FilesInForce`, whose tabs
   and files are three copies of one setting; `Problems`' `ProblemsFit`; the part of
   `SelectionsSound` that is not about what a fold computes.

Every module is written to be proved about: no `RECURSIVE` operator (recursion is a
function, as `AskForAll`, `Cancelled`, `Those` and `Matching` are), constants with named
assumptions where they need any, one action per operation, invariants as named
conjuncts.

Abstract specifications: `UndoTimeline` (what undo promises) exists; the server slot
of point 3 and "a whole text at the path" for saving are the next two worth stating.
The pure modules have their abstract half inside them: each fast function stands
beside the plain definition it must agree with.

## 3. Modules

**`UndoTimeline`** is what undo and redo promise with no stacks in it: a line of
versions, a cursor, the kind of step that is open at it, whether the keys go to the
text, and the text last written. Only a run that is open takes the next edit in, and
going back or forward, reloading, a boundary, and a save where the keys are, close it.
**`TextBuffer`** is one buffer as the code keeps it.
`Type`, `EditAlone` and `EditFromServer` are edit groups (`begin_edit_group` to
`end_edit_group`: one action, since a handler is atomic), by how they open and close
the run; `Boundary` is everything that ends a run; `FocusElsewhere` is the one way
the keys leave the editor without it; `Undo`, `Redo`, `Save`, `Reload` are the
handlers of these names. `saved` is a history variable: the text last loaded or
written, which the code never keeps. `INSTANCE UndoTimeline` maps the line to
`undo ∘ ⟨text⟩ ∘ reverse(redo)`, the open step to `openRun` where that is a kind whose
next edit joins it, the keys to `focus` and the text written to `saved`.

**`DocumentSync`** is one server slot and the tabs: `batch` says whether events
were handled since the last sync, `doc` is `Lsp::docs`, `Sync` is
`sync_language_servers`, which opens, changes, closes and shifts pushed diagnostics
for every file at once. A text is a number, new for every change; edits since the
last sync are kept as the text they lead from and to, so "the diagnostics sit where
their text went" is a comparison. `ServerDies` puts the end anywhere in the queue a
failed write can: the writer's report overtakes what the reader has not delivered. A
publication may name its version or not (`versioned`); one that does not is taken
whatever its age, and `stale` is history: it was older than what the server had said.

**`Tabs`** is the panes and the tabs in them, with the three refused closes
(`close_pending`, an index; `close_pane_pending`, a pane; `quit_pending`). Input
clears them and background events do not, as `clear_transient` is called. A tab's
`key` and `asked` are history: which tab a question was about. `Restart` is quitting
and starting again (`save_session`, `restore_session`) when some files have gone:
`Restored` goes through the indices the way `session` writes and `restore` reads
them, and `ComesBack` says which tab is to be on screen without them.

**`FocusWay`** treats handlers as operators from one state of the interface to the
next (the code's handlers call one another in an order that matters) and applies
them in actions named for the events. `Seen` is the layout following the terminal's
width, which `step_at` does before every event. **`Retain`** is `Those`, what `retain`
and `filter` leave of a sequence, which `Forget` and `Restored` share.

**`TreePanel`** is the left dock's panel. The disk is a set of paths that other programs
take from and put back, one directory of which may be unreadable; rows are read only by
`Rebuild` (`rebuild`, with `read_children` and `descend`), which every opening and
closing of a directory ends in, so between two of them the rows may be of files that
have gone. `held` is history: the root itself could not be read at the last rebuild,
which then leaves the rows as they were. **`Problems`** is the bottom dock's.
`CollectProblems` is `collect_problems`, made anew by `OpenDock` and `Draw` for the list
and by every `PressF8` for itself; between them the panel's copy is stale, as the code's
is, and `Key`, `Press`, `Wheel` and `Enter` act on the copy. A row is a heading, a message
or a line of an excerpt, because `Reveal` scrolls by rows and the choice is a problem.

**`PaneLayout`** is the same panes as areas. The tree is a function from paths (the
turns from the root, as `SplitPath`) to nodes, so `SplitLeaf` and `RemoveLeaf` change
its domain; `Divide`, `PlaceRule`, `MinExtents` and `RuleAt` are `divide`,
`place_rule`, `min_extent` and `rule_at`, with fractions for the floats. `Nudge` and
`Even` are the keys of resize mode (the mode itself keeps nothing else), `PressRule`,
`DragRule` and `ReleaseRule` the mouse, between which any key may act.
`FocusNeighbour` is an arrow with the cursor on any line of the pane. `Restart` is a
session: `IsSession` is what `from_toml` accepts, so `TreeNamesPanes` says that what
quitting writes is never refused.

**`ParsePipeline`** is the loop and the parse thread: `RequestParseIfStale` ends
every turn of the loop, `WorkerTakes` drops all but the newest request,
`HandleParsed` forgets the requests that will never be answered. Texts are named by
tab, file, buffer and revision, trees by the text they were parsed from.

**`Questions`** is what is asked of servers: `Ask` is `ask_with`, `HandleAnswer` is
`handle_answer` with its three rules of staleness (by position, by version, by
both), `EndBatch` is the sync and `settle_code_actions`. Hover, code action and
rename stand for the seven kinds, one for each rule. A server may answer, say
ContentModified or refuse (`Refused`); `refused` is history: the last code-action
question was refused, after which the offer of before it stays (section 7).

**`ServerLife`** is the list of servers and every process started: `Writer` and
`Reader` are the two threads of a transport, `AfterExit`, `Restart`, `RestartAsked`,
`ServerFor` and `Shutdown` the functions that start and end clients. Events name a
slot and not a process, as in the code.

**`SaveFile`** is `TextBuffer::save` step by step (`Begin`, `CreateTemp`,
`CopyPermissions`, `WriteAll`, `SyncAll`, `Rename`, `SyncParentDir`, `Fails`) and the
plain save of `config/write.rs` and `session.rs` (`OpenPlain`, `WriteAll`, `Rename`,
`FailsPlain`), with kills, power loss and files that others put in the way. `maybe`
and `entry` are what a crash of the machine may leave of a file and of a name.

**`Text`** is texts, positions, selections, words, edits and search as pure
operators: `Normalize` merges and sorts selections, `ShiftThrough` moves a position
through an edit, `RecordShift` is the running shift of `edit_at_each_selection`,
`FindNext` and `FindAll` are the searches. **`TextQueries`** adds what is asked of a
text that is not edited (brackets, columns on screen, the three encodings of a
server's positions, line endings, indent detection, the search of the rope chunk by
chunk), each with the plain definition it must agree with. **`EditorPanel`** is the
panel over them: an action describes one edit per selection (`EachSelection`) and
`ApplyInTurn` makes them, `ApplyLastFirst` makes a server's. `strayed` is history: the
edits of a step overlapped, or a button was held over a change; both are in section 7.

**`Finder`** is the picker and its worker: `Drain` collapses the queue to the newest
of each kind, `Work` does one, `IsAwaited` is the match by generation. A list is the
question it answers, so "the list is the query's" is a comparison. **`ProjectText`**
is what the thread computes (the order of a walk, ranking, the search in parallel under
a cap), a function of a small project, some of whose files cannot be read, are not text
on every line, or hold a NUL. The ignore rules are those of a library and not modelled.

**`Completion`** is one line of one file and a server that offers completion or
signature help: `Type`, `Erase`, `MoveCaret`, `Accept` are keys, `SyncLanguageServers`
the end of a batch, which is where `wanted` becomes `asked`; `CompletionAnswered` and
`SignatureAnswered` are the handlers of answers. **`Replies`** is what an answer of any
allowed shape is read as, and has no state. **`Lists`** puts the picker and the
completion list side by side: they are two lists narrowed by what is typed, share no
state, and a behaviour is of one of them.

**`ConfigFile`** is a file of settings or keys as lines with the comments above and
beside each, and tables of them, absent, unreadable or broken; **`Keymap`** how `keys.toml` and the shipped table make a keymap
and what a sequence of keys resolves to. **`Keybindings`** is the tab over it
(`Replace`, `Unbind`, `Reset`, `UndoBinding`, and the key by key recording),
**`SettingsTab`** the settings tab over `config.toml` and the editor that runs on it.
**`Preferences`** puts the two side by side.

`MCPanes` does the same for `Tabs`, `FocusWay`, `TreePanel` and `Problems`, views of one
window, and `MCPreferences` for `Preferences` and `PaneLayout`, what is kept from one
start to the next; they, `MCParsePipeline`, `MCQuestions` and `MCEditor` give constants
their values and the symmetry of files. What is proved of a module is in another
beside it, named `...Proof`, which no run uses; `PanesProof` has that of `Tabs` and of
`FocusWay`, as `MCPanes` composes them. Definitions commented "Mutant" are the code with a
plausible bug in it; no action uses them. They show that a property is about the
code: put in place of the definition beside them, they break it (`PROJECT.json`,
`mutants`).

## 4. Runs, bounds and what they show

| run | module, cfg | bounds | states | shows |
|---|---|---|---|---|
| `text_buffer` | `TextBuffer` | 3 texts, 2 undo steps, 2 carets, 5 revisions | 0.05 M | a clean buffer holds the saved text; the stacks are bounded and refine the timeline |
| `document_sync` | `DocumentSync` | 1 file, 3 texts, 2 loads, 2 processes, queue of 1 | 1.8 M | what the server is told, in what order, where diagnostics sit; it comes to hold every text |
| `panes` | `MCPanes`, `Panes.cfg` | 2 files and untitled buffers, 3 tabs, 2 panes; 3 panes, a way back of 2; 4 paths; 2 files of diagnostics, 2 reports; docks of 2 rows | 0.53 M | one tab per file; nothing unsaved lost unasked; a restart brings back what is there; the keys are somewhere open, `esc`, `f6` and `f8` keep their promises; what is chosen in a dock is there and stays on its file |
| `parse` | `MCParsePipeline`, `ParsePipeline.cfg` | 3 tabs in 2 panes, 1 edit, 1 reload and 2 files each, 4 requests | 0.25 M | trees go to their files; nothing believed parsed that is not; what stays on screen is coloured |
| `questions` | `MCQuestions`, `Questions.cfg` | 2 servers and files, or 1 that crashes once, or 1 the keys leave; 2 carets, 1 edit, 3 requests | 0.56 M | answers and questions match; one question of a kind; the offer comes to fit |
| `server_life` | `ServerLife` | 1 slot, 3 processes, 1 restart allowed, 1 by hand, 1 tick | 0.4 M | crash loops stop, one process, an end is noticed |
| `save` | `SaveFile` | 2 editors, 2 saves, 2 names, 2 foreign files, power loss | 1.2 M | the target is whole, durable, under its mode; others' files untouched |
| `editing` | `MCEditor` | 2 texts of up to 3 lines, 3 carets, 3 steps, 7 graphemes | 0.05 M | carets stay sound; edits land where described; cut and paste restore; fast queries agree with plain ones |
| `lists` | `Lists` | queries of 2, 3 questions, 2 rows, a thread that dies; a line of 2 | 0.39 M | what is chosen or accepted is what is shown; lists come and questions end |
| `preferences` | `MCPreferences`, `Preferences.cfg` | 2 actions, 3 files of keys, 2 of settings, 2 changes and events; 3 panes, 3 screens, 3 places for the pointer | 0.33 M | what the files say is in force; a change is exact or leaves the file; panes tile, a rule goes where it is put or as far as it may, arrows lead everywhere |
| `full_sync_desync` | `DocumentSync`, `DocumentSync_desync.cfg` | 2 texts, 2 loads | violated | a reload at the revision already synced is never sent |
| `keys_unreadable` | `MCPreferences`, `Preferences_unreadable.cfg` | as `preferences` | violated | a refused change removes a `keys.toml` that cannot be read |

Each module's `TypeOK` is the first conjunct of one of its run's invariants
(`DocsSound`, `TabsSound`, `FocusSound`, `ParseSound`, `QuestionsSound`,
`ServersSound`, `SavedWhole`, `SelectionsSound`); `text_buffer` checks its own by name.

Why the bounds are enough. Every bound is a constant in a guard and is named
"bound" where it is declared. The undo history is short enough to overflow and long
enough to hold a step on either side of the cursor; three texts let one recur after
another. One file suffices for `DocumentSync` because documents are told about
independently: two would meet only in the batch and the crash, which are of the slot.
Three texts and two loads give an edit on either side of a reopening; two processes
a crash with documents announced. Two panes, three tabs and two files give a tab
behind another, a file open elsewhere and an index that names different tabs in
different panes. A way back of two overflows with the four kinds of region there are.
Four paths nest one directory in another beside a file, with a directory after both;
a dock of two rows scrolls over them. Two reports, one with an error and a hint at
one place, give two files that change their order, and up to four problems.
Three tabs in two panes give a hidden tab and two that compete for the thread; four
requests drop two behind one. Two servers number alike; three requests let an answer
overtake another and a question be cancelled between. Three processes with one
restart allowed are one restart more than the code permits within the window, so
the bound is met and passed. Two editors and two names exhaust the attempts.
Three carets are what a running shift needs to go wrong on the third; the two texts
have a tab, a wide grapheme, an empty line and words that touch, and a bound on the
graphemes stops growth and not an action before its third step. A query of two
characters and three questions let an answer come after two newer ones; a line of two
characters holds a word before and after a trigger, and a bracket and what it opens.
Two changes and one event of another program put every order of a change, an edit by
hand and an undo in reach; the files hold a clash, a chord spelled twice, a row that
frees a chord, comments above, beside and after, a table of languages, and a value out
of range. Three panes nest one
split in another, with either axis outside and in either child. One screen has room
for three minimums in a row and a cell to spare, one (beside a dock) for two only,
and one is too small for any: a share placed on the first is divided on the others.

## 5. Fairness

Fairness is only given to what the code's own scheduling runs: the loop handles the
next event and ends its batch (`Sync`, `EndBatch`, `Handle`, `HandleParsed`, which
`run.rs` does for ever), threads that block on a channel or a pipe go on (`Writer`,
`Reader`, `WorkerTakes`, `WorkerDone`), and a server that runs reads its input and
answers `initialize` and what it was asked (`ServerReads`, `ServerAnswers`, `Answer`,
`FinishStart`, `CompletionAnswered`, `SignatureAnswered`), an assumption about an
external program, under which alone the editor promises something. It is weak
fairness, for none of these is disabled by others once enabled, but for the answers
to completion and signature help: a server may cancel its work (ContentModified) or
say that its list is incomplete, and is asked again, so strong fairness there says
that one does not cancel for ever. In `Finder` the thread and the loop are fair and
the thread may die, after which nothing is promised. Nobody is made to type, switch,
publish, crash, write a file or ask for a restart, and no timer is assumed.

## 6. What is proved

What is proved is in eight modules, one for each component but for the two in `PanesProof`.
Every theorem is of the whole specification and for every value of the constants that its
module's assumption allows; each assumption says no more than what kind of thing a
constant is (a bound is a natural, a pane has a first tab, no file is called `untitled`,
the way back has room for a place), and TLC evaluates it on the run of its module. The properties of the runs that are theorems are the properties
themselves, under the same names.

| module | theorems | from | invariant checked by TLC on |
|---|---|---|---|
| `TextBufferProof` | `TypeCorrect`, `StatesNameTexts`, `CleanMeansSaved`, `HistoryStaysBounded`, `BufferImplementsTimeline` | `LimitsAssumption` | the run's 0.05 M states |
| `SaveFileProof` | `SavedStaysWhole`, `SavedStaysDurable`, `SavesSpoilNothing` | `SaveFileAssumption` | 1 152 627 |
| `ServerLifeProof` | `ServersStaySound`, `RestartsStayEarned` | `ServerLifeAssumption` | 417 020 |
| `DocumentSyncProof` | `DocumentsStaySound`, `ProtocolStaysKept`, `DiagnosticsStayPlaced` | `BoundsAssumption` | 1 805 404 |
| `QuestionsProof` | `QuestionsStaySound`, `AnswersStayMatched`, `OffersStayFitting` | `SetupsAssumption` | 556 312 |
| `ParsePipelineProof` | `TreesStayWithTheirFile`, `TabsBelieveRightly` | `PanesAssumption` | 252 247 |
| `PanesProof` | `TabsStaySound`, `WorkGoesWhenAsked`; `FocusStaysSound` | `BoundsAssumption`; `WayAssumption` | 609 828; 526 480 |
| `ListsProof` | `ListsInvariant`, `ListsAlwaysFit`, `AnswersAreOfScreen`, `AcceptedIsShown`, `ListsArePlaced` | `FinderAssumption`, `CompletionAssumption` | 386 307 |

None of the properties is inductive. Each proof module starts with an invariant that
is, a conjunction of named parts; TLC checked it on the instance of the run, with the
number of states above (numbers in its quantifiers up to a bound), before it was proved. Then come lemmas about the operators the
actions are built from, one lemma for each action or for each shape that several
actions share, and the theorems last.

**`TextBufferProof`.** `CleanIsSaved` says nothing of the snapshots undo may bring
back. `SaveInv` does: `TypeOK`, `StatesIssued` (no reachable version has a state
ahead of `revision`, so the state an edit issues is new) and `StateNamesText` (a
state names one text among all versions on screen or in a stack, and the saved state
names the saved text). Steps come in three shapes: a fresh version (`FreshVersion`), no
new version (`NoNewVersion`), and saving or reloading, which move the saved state.
`HistoryBounded` needs only types: recording trims one stack and empties the other,
undo and redo move one version.

The refinement is shown step by step: `undo ∘ ⟨text⟩ ∘ reverse(redo)`, with the open
step, the keys and the text last written, changes by a step of `UndoTimeline` or not at
all. An edit that continues a run replaces the version the run has reached and records
none, which the timeline allows only while that run is open there: an undo, a redo, a
boundary or a reload that left it open would not refine. That the version before it is
there is `RunHasVersion`: while a run is open the undo stack is not empty.

**`SaveFileProof`.** That the target is whole says nothing of the files that may become
the target. `SaveInv`: every name names a file of its own (`NamesApart`); a temporary
file is its editor's until it is renamed, and holds at each step what that step left in
it (`HoldsItsOwn`, `OthersApart`, `StepsDone`, `UnderItsMode`); and every file the target
may name after a power loss is whole already (`EntryWhole`), which is why the flush comes
before the rename. The plain save shares its temporary name, hence `AloneWhole`, about the
time no two of them overlap.

**`ServerLifeProof`.** `CrashLoopStops` bounds the span of a slot's starts, the code that
of the exits it remembers: `ExitsAreStarts` relates the two. `RestartsStayEarned` is about
a step: the process that is replaced had answered. `AnsweredOnce` says that its answer
is in one place at most, its pipe, the channel of the loop or heard, and `HeardItsOwn`
that, until the user asks for a restart, what is under way is of the process its slot
talks to; without that, events that name a slot and not a process could be another's.

**`DocumentSyncProof`.** `DocInv` relates both ends of the wire: what the entry of a
document says, the copy the server will have once it has read its pipe
(`EntryMatchesTold`, `SaidByTheEntry`), that nothing was said before the handshake
(`Unanswered`, `Handshake`), and that every copy pushed and kept, unless it is `stale`, is
of a version the edits since can be counted from (`PushedCarried`). One that named no
version and came late is marked so when it is taken, and stays so as edits shift it.

**`QuestionsProof`.** Until a process crashes, everything on the wire is of what was asked
of that process (`UntilCrash`): each number that waits is in one message at most, and of
its kind, server and life. That is what the match by number needs when two servers number
alike. An offer fits the text because the answer it comes from was asked at a version
that is still the version when it is put on offer (`OfferFitsText`), or the last question
was refused: `RefusedKeeps` is the step that leaves an older offer and marks it.

**`ParsePipelineProof`.** The job a tab waits for, wherever it is (the queue, the
thread, the answers), is of the tab's own file and of the text the tab believes parsed;
a job with another generation is never accepted. `LoopSound` says so of the loop's part
of the state as a value, so that it can be carried through `AskForAll`, in which one
turn asks for every stale tab in order.

**`PanesProof`, tabs.** `OneTabPerFile` compares tabs as values; `TabsInv` says that a key and a
file are of one tab at one place (`KeysApart`, `FilesApart`) and that a pane has an id of
its own, which is what opening, moving and closing really keep. `StillApart` proves it
once for all of them: panes may change places, tabs may go or lose their file, and the
tabs of one pane may be new, of a file open nowhere. The key of a tab is history, so its
supply is bounded: `KeyLeft` counts them. `WorkGoesWhenAsked` is `ClosingAsks` and
`QuitAsks` as a property of every step. The code keeps the index of a refused close and
`asked` the tab; that these agree as long as the pane is the same is `AskedTab`: no step
that leaves the question alone moves, saves or closes what it is about.
`RestoredIs` shows that starting again keeps the panes as apart as they were, and that the
tab on screen is one of those that are back.

**`PanesProof`, focus.** A handler is an operator on the state of the interface as a value,
so `FocusFits` is about such a value: its fields have their types (`Formed`), every place on
the way back is there (`WayLeads`) and a region with the keys is open (`KeysHaveRoom`). Each
handler is shown to take one that fits to one that fits. In the middle of some it does not:
while a pane closes or a dock folds, the way back may name one place that is gone, and
`FitsBut` names it, up to the `Forget` that ends the handler (`ForgetIs`, `LeaveFoldedIs`,
`ClosePaneFits`). That `esc` returns is about two handlers in turn: taking the keys away
leaves where they were on top of the way back, at its limit too (`RememberIs`), and going back
takes the top if it is there and not here (`GoBackIs`, by which `Max` of the places left is
the top). A walk of `f6` is a sequence without repetitions of all that is there (`WalkIs`); a
step goes to the next stop and changes no region (`StepFocusIs`), so after `n` steps
the keys are `n` stops on (`FocusGoesRound`, by the least number of steps at which they
would not be).

**`ListsProof`.** `ListsInv` is that of the thread, of the picker and of the completion
list. The thread's (`WorkerInv`) says that the walks under way are newer and newer
(`WalksInOrder`), that the last one asked for is done or on its way (`WalkComes`), and that
nothing is ranked before the walk it was asked after (`RankedAfter`); a turn keeps only the
last job of each kind, so the proof follows one kind through `Drain`. The picker's
(`ScreenInv`) is about what is under way, wherever it is (the queue, the batch, the answers):
what has the newest generation is of the query on screen (`OfScreen`), so an older answer is
dropped and a newer one fits, and where the list is not yet the query's such an answer is
coming (`StillComing`), the half of `ListsFit` that is no promise about time. The completion
list's (`ListInv`): at the end of a batch a list is that of the word before the caret and
shows something (`Narrowed`), a word hoped for is wanted or being asked about (`Hoped`), and
as long as the user only types, a list and a question no edit overtook are of the word at
the caret (`ListKept`, `AskedKept`), without which what is accepted could put an item of
one word in the place of another. `PlaceIs` puts the list above or below the caret in a pane
of any size, beyond the screens TLC tries.

Recursion is proved about where it is a function: `Those`, `Cancelled`, `AskForAll`, `Matching`. The
definition chooses a function that solves the recursion, so a solution is shown to exist and
any two to agree, each by the least number at which it would fail (`EveryNumber`,
`LeastNumber`, from `WFMin`); after that the recursion is a pair of equations
(`ThoseByTheLast`).

## 7. Disagreements met while modelling

Two are kept as runs that TLC must find violated, and listed under `findings`:
`full_sync_desync` and `keys_unreadable`. The others were seen in runs of the same
modules while they were written, and bound the properties above; each follows from
the code at the place named.

Text and editor panel

- A save made while the tree has the keys does not end the undo run, though
  `History::boundary` says "a motion, a click, a save" (`typ-buffer/src/undo.rs`;
  `Save` with `focus` elsewhere).
- Word deletes that overlap, and Backspace or a completion over a caret at the end
  of another's selection, delete text outside what was described
  (`edit_at_each_selection`, `strayed` in `EditorPanel`): `EditsLand` is about the
  edits that do not.
- `Selections::normalize` makes a caret pushed against the end of a selection the
  primary in that selection's place.
- An edit made while the mouse button is down leaves `drag_anchor` at a place of the
  old text.
- A file of mixed line endings that starts with CRLF never `matches_disk`, changed or
  not.
- Adding a caret and selecting the next occurrence leave `goal_col` as it was, and
  selecting from a part of a word turns whole-word once the primary stands alone.

Files, panes and drawing

- In the tree, a directory that has become unreadable is closed without those under it,
  whose expansion comes back when it is opened again, although a collapse promises to
  drop it "rather than leaving it to resurface" (`typ-panel-tree/src/lib.rs`). While the
  root cannot be read, a directory changes its mark and not its rows. A collapse after a
  turn of the wheel can leave the first row past the last, and the list blank until a key.
- With one row for the problems, every drawing scrolls to the other of heading and message
  (`reveal`), hence two rows or more in `ProblemsFit`; the wheel never moves the list away
  from the choice, which the next drawing reveals; and in the batch of a publication
  `enter` jumps to the place of the old list, reopening its file if need be.
- A zoomed pane that is left by a split, or by opening a file open elsewhere, is
  found zoomed again when the keys come back, though `take_focus` says a zoom
  "ends when the keys leave it".
- A pane is "the smallest a pane may be dragged or nudged to" only along the rule that
  moves: one placed at the minimums of nested splits keeps the inner shares, so an inner
  pane can end under its own (`pane.rs`, `place_rule`). `RuleMovesAlone` speaks of the
  sum of the minimums on either side.
- A pane squeezed to nothing is not crossed by the arrows (`focus_neighbour`): those on
  the two sides of it are then not beside one another, hence "when every pane can be
  seen" in `ArrowsReachAll`.
- A rule may be held while a key splits or closes panes, and the path then names
  another split, or none, though `SplitPath` is "valid until the layout next changes
  shape, which is why nothing holds one past a drag" (`pane.rs`). `DragRule` moves
  what is named.
- `close_pending` is said to be abandoned by "anything else in between" (`app.rs`);
  a quit or a pane close in between does not abandon it, and it holds an index, so
  the close box of another pane can answer it. `ClosingAsks` excepts that case.
- Two editors that write one session or settings file share its temporary name and
  can leave half of it (`session.rs`, `config/write.rs`). Hence `calm` in
  `WholeUnlessShared`.
- A hidden file that is reloaded with its parse under way accepts the tree of the
  text that was replaced and shows it until its own parse lands (`background.rs`).
  `TreeIsOfItsFile` therefore speaks of the file and not of the buffer.
- A request dropped behind one that runs into the parser's time limit is never
  answered and never repeated until the next edit (`worker.rs`). `Unparsable` is
  empty in the run `parse` for that reason.

Servers and lists

- A publication that arrives between a reopening and the end of its batch fills the
  diagnostics `close_absent` had cleared, so a reopened file may start with a stale
  set (`lsp/mod.rs`).
- A publication that names no version (the field is optional) is taken however old it
  is, although "showing it would replace what is on screen with something older"
  (`servers.rs`) and `docs/design/lsp.md` has one "older than one already sent" dropped:
  the rule needs a version to compare. Hence `~stale` in `DiagnosticsPlaced`.
- A code-action question the server refuses counts as asked, keeps what was on offer
  before it, perhaps of an older text, and is not repeated until the caret or the text
  moves on (`servers.rs`, `code_actions.rs`). Hence `~refused` in `OfferFitsText` and
  `EventuallyOffered`.
- The version lags the buffer within a batch, though `requests.rs` says it "says
  exactly whether the server was looking at the text on screen": an edit and an answer
  in one batch put a rename on a text its server never saw (`rename.rs`), and take a
  completion list for the current word.
- A question in flight when its server dies stays in flight, takes the answer the
  restarted server gives under the same id, and until then no other is asked
  (`lsp/requests.rs`); a completion in flight at a crash is not asked again before esc
  or a click. Hence `AnswersUntilCrash`.
- An offer dropped because the caret moved, and leaves the file within the batch, is
  not asked for again when it returns to the same place (`code_actions.rs`). Hence
  `~setup.mayLeave` in `EventuallyOffered`.
- "Always the last thing sent" is said of `Closed` (`transport.rs`); after a failed
  write the reader may still deliver what was in the pipe. An `initialize` answer
  delivered so can be taken for the next process's, after a restart by hand, which
  is why `RestartsWhatWorked` ends with the first one.
- A completion asked for by a trigger character and cancelled with ContentModified is
  not asked again, though `servers.rs` says to "Ask it again rather than answering the
  user with nothing" (`complete_again` wants a typed word): the exception of
  `WordIsAsked`.
- Signature help has no look at the focus: `(` typed and the keys moved to a dock,
  it is asked and answered without end.
- A completion's answer opens its list at the caret of that moment, which may have
  moved without an edit; Backspace over the start of the word and a letter in one
  batch keep a list in mid-word; `tab` and `enter` in the batch of a motion or of more
  of the word are swallowed, or accept what fitted the shorter word.
- A parameter given by its text is marked at its first occurrence in the signature,
  and the blank-line branch of `flatten_markdown` is never taken.
- In the finder, an answer with lines that arrives after a search was closed and opened
  again is shown under an empty query, and results that arrive after the user moved
  keep the index and not the row.
- A file whose search fails part way (unreadable, or a matched line that is not UTF-8)
  loses all its hits, and one with a NUL is searched no further, yet the answer is
  `complete` (`search.rs`). Hence `IsText` in `SearchIsHonest`.

Settings and keys

- After an undo in the keybindings tab `selected` is the row that the undone change
  made, so `del` unbinds another action. Clicking an arrow of another settings row
  while a field is edited leaves the edit on the new row.
- A recorded chord of the prefix and the space bar is written as a key that loads as
  the prefix alone; of two spellings of one chord a change rewrites the first only.
- A failure of `put_back` is ignored, undo drops what another program wrote in between,
  and a file changed by another program is not read again. A keys file that was refused
  whole takes force with the first change that makes it load.
- A comment beside a value goes with it when the value is removed; putting a row of
  `[[language]]` back takes the comments above and inside the table; and with no value
  after it, a removed key's comment moves to the end of the document, although
  `config/write.rs` speaks of "keeping every other byte". Hence `NotesOutlive`, which is
  about all other comments, wherever they are.
- Putting `indent_width` back to automatic does not reach the editors that are open.

## 8. What is only model-checked, and what is not modelled

Only checked, for the bounds above:

- all liveness (`EventuallyHeld`, `EventuallyColoured`, `EventuallyOffered`,
  `EventuallyNoticed`, `ListsSettle`): it needs fairness, and so `ENABLED`, which is out of
  the prover's reach;
- `DocksFit` (`TreePanel`, `Problems`), the properties of `EditorPanel`, `Preferences` and
  `PaneLayout`: not proved;
- `AnswersAreRead`, but for its part `PlacedRoundTheCaret`: what a search finds in a text,
  how paths are ranked and what an answer is read as are computed by recursion on strings;
- `ComesBack`, that a start brings back every file in its order: it is about what
  `SelectSeq` returns for any sequence;
- `Text`, `TextQueries`, `ProjectText`, `Replies` and `Keymap`: operators compared with
  plain definitions over bounded inputs. That they agree on every input is an induction
  over data, and the induction theorems take a predicate as a parameter, which the provers
  cannot instantiate.

Left out of what is modelled: didSave; scrolling; the dock's own rule, and the dock,
preset and places of carets in a session; a process killed before its session is
written, which finds the one before; the debounce of the watcher; the
syntax of TOML files and of JSON messages; timeouts of the parser other than as a
parse that fails. In `Questions` carets are on lines of their own and every file has a
server. In `SaveFile` a symlink is resolved before the model begins, and a text is two
chunks. In `ServerLife` a spawn that fails is one outcome, whatever the reason. The
clipboard of the platform is external: what is copied is what is pasted.

Not modelled: menus and prompts, whose state follows from one call and outlives no
other actor's step; drawing, themes, terminal input and output, the log and the command
line, which are pure input and output; the URIs and progress messages of servers; the
fake server, which is for tests.
