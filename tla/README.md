# A formal model of QingYu

QingYu is a note-taking program: a kernel in Go (`src/kernel`) that owns the
documents of a workspace, windows (`src/app/src`) that edit them over HTTP and
WebSocket, and a desktop program (`src/app/electron`) that opens the windows,
coordinates their changes of Markdown files and edits files outside the
workspace. The kernel keeps every document twice: as a file on disk, which is
the truth, and as rows of an SQLite index, which searching uses. Around these
are queues, an undo log, journals for recovery and background jobs; in front of
them are editors that show a document, hold edits that are not stored yet, and
learn of each other's changes by messages. The specifications here model the
parts that decide whether a document survives, whether the index and the
editors agree with it, and whether undo means what it says. They are checked by
TLC on small instances, and the results that matter most are proved by TLAPS
for every value of the constants.

`PROJECT.json` holds the machine-readable part: the components, the runs, the
lines of source each definition stands for, mutations of the code that each
property detects, the hazards and the theorems.

## 1. The system

Paths are below `src/kernel` unless they begin with `app`.

### Parts that are modelled

| Part | State | Operations | Module |
|---|---|---|---|
| Markdown save and recovery gate (`model/markdown.go`, `model/markdown_transaction.go`) | the file at the document's path, the transaction directory (payload, quarantine, `transaction.json`) | save, open, recover; changes by other programs; stop | `MarkdownSave` |
| SQL index queue (`sql/queue.go`, `sql/index_queue.go`) | `operationQueue` in memory, `index.queue` on disk, the rows | queue an operation, flush, replay the journal, stop, recover | `IndexQueue` |
| Waiting for the index (`WaitFlushTx` in `sql/queue.go`) | `dbQueueCond`, `flushingTx` | wait, flush, clear | `FlushWait` |
| Transaction queue (`model/transaction.go`, `model/blockial.go`) | `txQueue`, `flushLock`, `isFlushing`, the trees and state of a transaction | request, tick, replay, direct change, begin, commit, roll back | `TxQueue` |
| Undo log (`model/undolog.go`, `api/transaction.go`) | an undo and a redo stack per document, `hasUndo` | record, undo, redo, their commits and rollbacks, clear | `UndoLog` |
| Background tasks (`task/queue.go`, `job/cron.go`) | `taskQueue`, `currentTask` | append, run a synchronous task, run the asynchronous ones, time out, exit | `TaskQueue` |
| Markdown editors and the coordinator between windows (`app/src/markdown/MarkdownEditor.ts`, `documentManagement.ts`, `managementCoordinator.ts`, `app/electron/markdownManagementCoordinator.js`) | each editor's text, revision, path, timers and dialog; operations; the coordinator's pending operations and leases; events of the kernel | type, save, refresh, prepare, commit, rename with its rollback, move, remove; lost answers, timeouts, windows that close or crash | `MarkdownManagement` |
| Block editors: transactions, undo and redo (`app/src/protyle/wysiwyg/transaction.ts`, `util/transactionQueue.ts`, `undo/globalUndo.ts`, `index.ts`) | what each editor shows and has to post, `undoStateMirror`, `isUndoing`, pushes on their way | type, post, push, undo, redo, confirm, answer; refused edits, lost requests, closed websockets | `ProtyleTransactions` |
| Markdown files outside the workspace (`app/electron/externalMarkdownService.js`, `markdownAnnotations.js`) | the file and its sidecar, staged sidecars, the registry in memory and on disk, the editor | read, save, save with annotations, overwrite, reload, rename, recover; other programs, stop, a registry that cannot be written | `ExternalMarkdown` |
| Removal of unused assets, its save barrier, and the session registry (`api/asset.go`, `api/asset_save_barrier.go`, `model/markdown_assets.go`, `util/websocket.go`, `app/src/markdown/saveBarrier.ts`, `app/src/layout/Model.ts`) | sessions and their maps, barriers, each window's flushes, what a scan has read | connect, break, register, unregister, announce, flush, acknowledge, time out, list, read, remove | `AssetScan` |

How they interact. A window shows its edit at once and posts it to
`/api/transactions`, one request at a time (`ProtyleTransactions`);
`PerformTransactions` puts it in `txQueue` and the ticker's `flushQueue`
performs it under `flushLock` (`TxQueue`). A commit writes each document
(`writeTreeUpsertQueue`), which puts an operation into the index queue and its
journal (`IndexQueue`), and then records the transaction in the undo log
(`UndoLog`). The kernel pushes the operations to every other editor. An undo or
redo request takes an entry from the log and performs its inverse with
`PerformTxSync`, under the same `flushLock`. Handlers that change or read
documents otherwise call `FlushTxQueue` first and then go their own way. The
cron job appends `FlushQueue` to the task queue twice a second or so
(`TaskQueue`). `WaitFlushTx` is how code that needs the index waits for that
(`FlushWait`).

The Markdown store is separate: plain `.md` files, shared with other programs,
each changed through a journalled transaction of its own (`MarkdownSave`). The
windows that edit such a file agree beforehand: whoever saves, renames, moves or
removes asks the coordinator in the desktop program to prepare every other
window, and tells them afterwards (`MarkdownManagement`). A file outside the
workspace does not pass the kernel: the desktop program reads and writes it
(`ExternalMarkdown`). Removing unused assets crosses all of this: the kernel
asks every registered window to save its Markdown editors before it reads the
files (`AssetScan`).

The behaviours that are hard in each:

* Markdown save: other programs write the same file at any moment; the kernel
  can stop between any two of some fifteen durable steps; the storage can
  refuse a write or report an error for a write that took effect. Correct means
  that the document's path never holds anything but a version somebody wrote
  and nobody superseded, that answers are true, that a recorded commit stays,
  and that the gate, which every Markdown operation passes, opens again.
* Index queue: two copies of a queue, one on disk; coalescing in the one and
  truncation of the other; a stop between the write of a document and its entry.
  Correct means that when nothing is waiting the index finds every document on
  disk, in its present version, and nothing else.
* Waiting: a flag and a broadcast outside the lock that the waiting is done
  with. Correct means that a return tells the truth, and that there is one.
* Transaction queue: answers composed from three states read without a common
  lock; writers that bypass the lock; commits that fail half-way. Correct means
  that an answer comes and is right, that no transaction takes another's update,
  and that nothing of a refused transaction stays.
* Undo log: each replay takes the log's mutex three times, and edits, other
  windows' replays and clearings come in between. Correct means that the stacks
  describe the documents.
* Task queue: a test and an append in two critical sections, handlers that
  outlive their timeout, two jobs that take from one queue. Correct means that
  tasks start, and that synchronous ones do not run side by side.
* Markdown editors: an editor's text, revision, path and save status are changed
  by its own save, by another window's prepare and commit, by a reload that was
  asked earlier and by the kernel's events, in any order. Correct means that an
  edit is stored, or in an editor that knows it is unsaved; that an editor's
  revision is that of its text, since the revision is what keeps it from
  overwriting others; that it follows the document to its new path; and that two
  windows that save at once do not wait for each other for ever.
* Block editors: an edit is shown before it is stored, a push arrives while the
  editor has edits of its own on their way, requests and pushes come by channels
  that do not wait for each other. Correct means that when all is quiet every
  editor shows what the kernel has and every undo button tells what can be
  undone, and that an undo takes the edit its user was asked about.
* External files: a body and a sidecar that have to be replaced together, a
  registry that is written afterwards, other programs and stops in between.
  Correct means that no text disappears unseen, that annotations stay with the
  text they were made for, and that answers are true.
* Removal of assets: windows come and go while the barrier waits for them,
  editors go on while it flushes them, and the files are read without a lock
  while saves put them away. Correct means that nothing that is referred to is
  removed, and that the request ends.

### Parts that are not modelled

These have state or concurrency of their own, and are left out because their
model would mostly be about code outside the repository or repeat one that is
here. The transaction kinds rename, move, install, restore and purge of the
Markdown store (`model/markdown_management.go` and the rest of
`model/markdown_transaction.go`) run through the phases of `MarkdownSave`, on
two paths; their recovery is not covered. Its annotations are a sidecar written
in the transaction of a save; the desktop program's sidecars, which are written
by other code, are in `ExternalMarkdown`. Encrypted notebooks
(`model/crypto.go`): the states locked, unlocking and unlocked are a mutex's, and
what makes them correct is mostly in the ciphers; the change of the master
password has a journal and a recovery of its own (section 7). Synchronisation (`model/sync.go`,
`model/repository.go`): the merge is a library's (`dejavu`), and without it a
model of the schedule says little of the documents. The push queue between the
command line and the server (`model/push_queue.go`, `cli/`) and their share of
`index.queue`: two processes and a file lock, of which `IndexQueue` has one.

These are computations or hosts. The block operations on a tree (`doInsert`,
`doMove`, `doDelete` and the rest of `model/transaction.go`) are functions of a
tree: their difficulty is in the data, and tests reach it. The history and
asset-content queues (`sql/queue_history.go`, `sql/queue_asset_content.go`) are
the index queue without a journal. Attribute views, search, export, import,
templates, rendering, uploads and the SQL text are conversions and queries.
Servers, plugins, the marketplace, MCP, the mobile hosts, window management and
the rest of the front end (rendering, menus, dialogs, the PDF viewer, layout)
are hosts or clients of the functions above. Most of the repository's lines are
of this kind; the models cover a small share of its lines and most of its
shared, changing state. Resources, guides, change logs and scripts are not
program logic. `PROJECT.json` lists all of them with their paths.

## 2. The modules

### MarkdownSave

One document and one operation at a time, as `markdownFileOperationLock` has
it. An action is one durable step of the disk: a rename, a link, an unlink, an
identity check, a replacement of `transaction.json`. `disk` maps the four paths
of a save to files; a file is an inode and a version, so that a hard link and a
copy are told apart, which is what `markdownFileIdentity` is for. `pc` follows
the functions of the code (`begin`, `stage`, `commit`, `commitIsolated`,
`rollback`, `finalize`, `recover`), `journal` is what is on disk and `tx` what
the kernel has in memory: after a write that failed they differ. The gate
(`GateEnter` to `GatePassed`) recovers the transaction left by a stop or an
error before any operation goes on. `EditInPlace`, `EditPut` and `EditDelete`
are other programs, `Crash` is a stop of the kernel, `Fault` the storage.

`AtomicDocument` is what a save promises when no other program interferes: it
happens at one moment or not at all, and the answer says which.
`MarkdownSaveRefinement` maps the save transaction onto it: the document's
content is the payload once `installed` is recorded, the quarantined source
before it, and the file at the path otherwise.

### IndexQueue

`tree` is the version of each document on disk, `blocks` how many rows of each
version the index has (0, 1, or more), `operationQueue` and `indexQueue` the
queue and its journal. `chores` is what the goroutine that changed a document
has yet to queue, so that a stop or a flush can come between. The stages of
`FlushQueue` are `batch` (the operations taken), `rewrite` (the journal has
been emptied and not written back), `load` and `replay` (`processDiskQueue`);
`down` and `recover` are a stop and the next start, which reads the journal entry
by entry (`ReadIndexQueue`, `RecoverNext`, `Recovered`) and may be stopped in turn.
`ExecOp` says what each operation does to a document's rows, from
`sql/upsert.go`: an index inserts and does not delete, an upsert compares with
one of the rows and may leave the others. The documents change in the three
ways the code has: a write, a removal, and a rollback from the history, which
queues two operations with a write between them.

### FlushWait

The condition variable of `sql/queue.go`, at the level of its mutex: a waiter's
two looks, its registration, the flush's store of the flag and its broadcast
are separate steps. Operations are only counted.

### TaskQueue

The queue of `task/queue.go`, with one goroutine per ticker. `WantTask` is the
check of a unique action and `AppendTask` the append, between which another
goroutine can run. `ExecTask` starts a handler and `TaskDone` or `TaskTimeout`
ends the wait for it; the handler returns by itself, or does not.

### UndoLog

Documents have an undo and a redo stack of edits. A replay is four actions:
`Undo` or `Redo`, `PerformDone` or `PerformFailed`, and the commit or rollback.
What an edit does to a document is abstracted to `applied`: in effect there or
not. A failed replay may have written some of its documents, since a commit
writes them one after another.

### TxQueue

A document is the set of the updates it contains, so that a lost update is
visible. Requests queue (`PerformTransactions`), pass `FlushTxQueue` in two
unlocked looks, and wait for the commit; direct changes pass `FlushTxQueue`,
read the document and write it; the ticker and `PerformTxSync` hold `flushLock`
and perform. `DoOperation` loads a tree once per transaction, `CommitWrite`
writes one tree, and either may fail.

### MarkdownManagement

Editors of one document, each in a window, and one file tree. An operation
(`op`) is a call of `runManaged` as its caller sees it: `prepare`, `load` and
`get` for a rename's reads, `request`, `answer`, `commit`, `over`. The
coordinator has `pending` operations and `leases`; what a window does for an
operation (flushing its editors, applying a commit) is in `guest`, and the
kernel's own messages in `events`. A text is the set of the edits in it and is
its own revision, as the kernel computes the one from the other. `Type`,
`TimerFires`, `SaveOnce`, `SaveEnds`, `Refresh`, `ApplyReload` and `Dismiss` are
the editor; `PrepareAt`, `PreparedAt`, `Timeout` and `CommitAt` the coordinator
with the windows; `Request` and `RequestLost` the kernel with an answer and
without; `EventAt` is `applyMarkdownManagementEvent`. A rename first changes the
document's title in its text (`title`), then its name (`rename`), and puts the
text back when the second fails (`restore`).

### ProtyleTransactions

One document and its editors. `Type` shows an edit and queues it, `Commit` and
`Rollback` are the kernel's outcomes of `/api/transactions`, `Push` the message
to the others, `Deliver` its arrival. `job` is a window's undo or redo under its
lock `isUndoing`: it waits for the edits queued when it was asked for (`Waited`),
peeks at the top of the stack (`Peek`), asks the user when the edit changed
another document too (`Confirm`), posts (`Replay`, `ReplayNothing`,
`ReplayFails`), and its answer is applied (`Replayed`) after the push
(`PushReplay`). The kernel's interleavings below a request are those of `TxQueue`
and `UndoLog`, and are one step here.

### ExternalMarkdown

One file, under one of two names. A file is an identity (an inode) and a text, a
sidecar an identity, the text its annotations are of, and a counter. `record` is
what the service has in memory and `registry` what is on disk, with at most one
save (`tx`) and one rename (`ren`) unfinished. `Compare`, `WriteTemporary`,
`Check`, `Stage`, `Place` and `Identify` are a save; `Plan`, `LinkPlain` and
`UnlinkPlain` a rename; `Persist` or `PersistFails` each write of the registry
that the operation waits for. `Look`, `Commit`, `DropOld`, `Install`, `Cleanup`
and `RecoverRename` are `recoverAnnotations`, with which every operation begins,
and by which an operation with annotations is carried out. `EditBody`,
`ReplaceBody` and `WriteSide` are other programs, `Crash` a stop.

### AssetScan

A document is abstracted to whether it refers to the asset in question. `Type`,
`TimerFires`, `Isolate`, `Install`, `Saved` and `FlushEnds` are an editor and its
save, with the moment in which the file is put away; `Break`, `Connect`,
`Register` and `Unregister` the registry of sessions; the look for a map and the
store of `AddPushChan`, and the count and the drop of the map of `RemovePushChan`
(`DropMap`), are separate steps. `Begin` and `Broadcast` are the beginning of the
barrier, `FlushAll` and `Ack` a window's part in it, `Timeout` and `WaitEnds` its
end. `ListFiles`, `ReadFile`, `ScanEnds` and `RemoveUnused` are the scan, which
reads what was listed in the order of the directory (`Order`).

The modules are separate and compose by what one takes from another as a step:
a request in `ProtyleTransactions` is a run of `TxQueue` and `UndoLog`, a save in
`MarkdownManagement` or `AssetScan` one of `MarkdownSave`. `MarkdownSaveRefinement`
justifies that for saves: without other programs they happen at one moment.

## 3. The runs

| Run | What it checks | Instance | States |
|---|---|---|---|
| `markdown_save` | types; answers hold: between transactions the path has an owed version, and a refused save is not there; a recorded commit is final; one rename alone destroys an owed version | 2 saves, 2 foreign changes of all kinds, 1 stop, 2 refused writes | 0.8 M |
| `markdown_save_refinement` | implements `AtomicDocument`; the gate opens again | 3 saves, 2 stops, 2 refused writes | 69 k |
| `index_queue` | a wrong index has one of the known reasons; nothing owed is forgotten, and what waits is journalled; the queue and the journal drain | 2 documents, 2 versions, 1 stop, 1 failure | 2.3 M |
| `flush_wait` | types; early returns only in one window; a waiter that was woken or saw a flush returns | 2 waiters, 2 operations, 1 rebuild | 8 k |
| `task_queue` | overlap only after a timeout; every task starts | 2 callers, 3 tasks, a slow, a unique and an asynchronous action | 0.1 M |
| `undo_log` | stacks match documents; what is in effect can be undone; nothing replayed twice | 2 documents, 2 windows, 3 edits, 3 replays, 1 clearing, stacks of 2 | 1.2 M |
| `tx_queue` | types; an answer is settled; updates survive; only committed changes are on disk | 2 documents, 2 edits, 1 replay, 1 direct change, 2 timestamps | 1.4 M |
| `tx_queue_live` | every request ends | 1 document, 1 edit, 1 replay, 1 direct change | 8 k |
| `markdown_management` | editors follow the document's path; edits stay; an editor's revision is its text's; nothing is left behind that refuses later changes; nothing hangs | 2 editors in 2 windows, 2 edits, 2 stimuli, 3 operations at a time, a job of the file tree | 0.7 M |
| `protyle_transactions` | types; views and mirrors agree at rest; an undo takes what was asked about; nothing hangs | 2 editors in 2 windows, 1 block, 2 edits (one of several documents), 2 replays, 1 fault | 0.9 M |
| `external_markdown` | annotations belong to their text; only saves replace a text; answers are true | 2 edits, 3 saves, 1 rename, 2 mishaps | 0.4 M |
| `asset_scan` | types; unsaved edits are scheduled; connected windows are registered; nothing hangs; only unused assets are removed | 2 windows with an editor each, 2 edits, 1 request, 1 mishap | 1.4 M |

Why the bounds are enough. A save touches one document, and two saves are what
it takes for one to meet what the other left behind; a second stop or failure
falls into the recovery of the first. In the index queue two documents and two
versions give two operations on one document in either order, and an operation
on another in between; a third version adds no new pair. The wait involves one
waiter and one flush; a second waiter is there for the mutex between them. Two
windows and two documents are the smallest case of a shared edit replayed at
both ends, and three edits with stacks of two reach the limit that is 64 in the
code. Two edits, a replay and a direct change are one of each kind and a pair
that can be batched.

Editors of a document meet in pairs: the one that acts and the one it prepares,
or pushes to; a third editor is prepared as the second is. Two edits or an edit
and a job let each of the two windows begin an operation during the other's, and
three operations at a time leave room for the nested save of a prepare. In
`protyle_transactions` one block is enough for views to be overtaken, the two
replays are an undo and a redo or two undos of two windows, and one fault is one
cause at a time. Three external saves and a rename are a save that meets what
both left unfinished; two mishaps are a stop in the recovery of a stop, or
another program beside either. Two windows are the one that answers and the one
that is missing. Two mishaps in `asset_scan` were tried by hand over the first
eleven million states and showed nothing that one does not.

Types are checked where a proof starts from them or where they say more than
types: no entry is twice on the stacks, a window that acknowledged was expected.

Symmetry is used for documents and windows in `undo_log`, for documents and
edits in `tx_queue` and for edits in `markdown_management`, whose definitions and
properties treat them alike; none of these runs has a liveness property.

Deadlock is not checked, for all these systems may come to rest: clients stop
asking and the bounds run out. (The two runs of `MarkdownSave` do check it:
a document can always be opened again.) `NothingHangs` is the sharper question:
short of rest, is one of the system's own steps enabled? The users' steps, the
faults and other programs do not count, and each of the system's own steps
brings something under way nearer to its end, so that a state in which none is
enabled is one in which somebody waits for ever.

The history variables are only written by the actions, never read by a guard:
`owed` and `refused` (`MarkdownSave`), `abandoned`, `cut` and `reasons`
(`IndexQueue`), `started` and `late` (`TaskQueue`), `forgotten`, `disturbed` and
`twice` (`UndoLog`), `torn` and `lost` (`TxQueue`), `rev`, `heldView`,
`heldState`, `offView` and `offMirror` (`ProtyleTransactions`), `shown`, `adopted`, `noted`,
`meddled`, `estranged` and `misled` (`ExternalMarkdown`), `excused`, `stranded`
and `displaced` (`AssetScan`). `MarkdownManagement` needs none but `typed`, which also
bounds the edits: its properties name the steps they except.

### Properties with exceptions, and what the exceptions stand for

Several properties hold with a named exception. Each exception is something the
code does that a reader of its comments would not expect; a property is worth as
much as its list of exceptions is complete.

* `OnlyRestoreDestroys` (Markdown save): `rollbackMarkdownSaveIsolation` tests
  that the path is free and then renames over it, so that a file put there in
  between is destroyed. No other step can do that.
* `WrongIndexIsExplained` (index queue) lists six reasons for which the index can
  disagree with a document while nothing waits. `reordered`: coalescing moved an
  operation before a later one. `failed`: an operation that fails is dropped and
  cleared from the journal. `abandoned`: a batch is given up because no transaction
  could be begun, and not all of its operations are in the journal, for the write of
  one failed or an earlier flush cleared it there; what is in the journal is run
  again, and may undo what the batch had done. `cut`, with a stop: the replay truncates the whole journal, the
  entries of operations queued meanwhile included. `unqueued` and `clearing`,
  with a stop: between the write of a document and its entry, and between the
  emptying of the journal and its writing back. There is no seventh:
  `IndexQueueProofs` proves it. `NothingForgotten` says where each operation is until then; what waits in
  memory is in the journal with the exception of `cut` alone.
* `EarlyReturnOnlyInWindow` (waiting): the flag goes up after the queue was
  taken and the lock released; a call in between returns too early.
  `AwaitedFlushWakes` sets aside waiters without a timer whose queue a rebuild
  clears, since `ClearQueue` tells nobody.
* `StacksMatchDocuments`, `AppliedIsUndoable` and `TwiceOnlyWhenDisturbed` (undo
  log) set aside edits whose replay was disturbed by another step on the same
  documents: a shared edit undone from two documents at once runs twice, and an
  edit recorded during a redo hides its entry from `RedoRollback`, which then
  leaves it on both stacks.
* `UpdatesSurvive` (transactions) sets aside what a direct change and a
  transaction that had both read the document took from each other.
* `EditsStay` (Markdown editors) names five ways in which an edit goes that its
  user did not choose: its window crashes; a rename is committed to an editor
  that was changed after it was prepared, which resets `dirty` and the timer
  (`MarkdownEditor.ts:521`); a rename that fails puts the text it began from
  back, with what others saved since (`documentManagement.ts:790`); a save fails
  for an editor that is closed or declared saved; and an editor whose revision is
  newer than its text stores the text over edits it does not show.
  `ContentMatchesRevision` says how an editor gets there: a commit gives its
  revision to an editor that was changed or reloaded after it was prepared, or a
  save fails in vain. `NothingLeftBehind`: a refresh after a conflict leaves
  `lastSaveStatus`, for which the editor's next flush answers false and every
  other window's change is refused; and `loadRevision` that finds nothing ends
  the operation without giving its lease back.
* `ViewsAgree` and `MirrorAgrees` (block editors) set aside an edit that was not
  stored (a rolled back transaction is answered with code 0, and pushed to the
  others, `api/transaction.go:87`), a change that arrives after a later one, an
  undo's answer rendered over what was typed meanwhile, a push that a closed
  websocket lost, the state that `initMirror` had read before a change, and the
  answer to an undo of an empty stack, which denies a redo that there is.
  `UndoneAsAsked` sets aside an undo whose stack changed between the look at it
  and the request, which does not name the edit. `NothingHangs`: an undo whose
  request is lost keeps `isUndoing`, and the window cannot undo any more.
* `OnlySavesReplace` (external files): another program writes after the last
  comparison and before the temporary file is renamed over it
  (`externalMarkdownService.js:406`); the revision answered by a save is of a
  second read, and a change in between becomes the editor's revision unseen
  (`:418`); and when the registry cannot be written after a rename, the handler
  removes the new name, the only one left (`:470`). `AnswersAreTrue`: a stop
  between the replacing of a file and the record of its identity makes the
  service refuse the file (`:410`), and a registry that cannot be written makes
  a save that took place answer with an error. `NotesMatch` sets aside a sidecar
  that another program wrote, and one stop: the registry could not be written
  since a rename, so that it has the old name; the file is being renamed back to
  that name, and the body is linked there before the sidecar (`:504`); what a
  restart then reads has the name, no rename, and a body without its annotations.
* `RemovesUnused` (assets) lets a request overlook four kinds of document: its
  window was not registered when the sessions were listed; it got the reference
  after its editor was flushed for the barrier; its flush was past its last save
  when the barrier came; its file was away when the directory was listed.
  `UnsavedIsScheduled`: a flush asked for while the last one waits for the table
  appearance alone clears the timer of an edit typed since, and nothing saves it
  until the next (`MarkdownEditor.ts:423-431`). `ConnectedIsRegistered`: the late
  end of an earlier connection removes the session of the later one, and
  `AddPushChan` can store a session in a map that was just dropped; such a window
  is not asked to save until it connects again (`util/websocket.go:147-205`).

### Observations without a property

Things the code does that were met while modelling. They are either one state
away from what a run excludes by its constants, or in code that is not modelled.

* With the constant `Faults` of `MarkdownSave` extended by `"unsynced"`, an error
  reported for a commit record that took effect, followed by a stop during the
  rollback, loses both versions (`model/markdown_transaction.go:463`).
* After a rollback from the history, the index operation can take the place of
  an earlier one for the same document, before the deletion queued in between
  (`sql/queue.go:387`, `model/history.go:453`): the reason `reordered`.
* The first wait of `WaitFlushTx` has no timer (`sql/queue.go:97`), and the
  broadcast is outside the lock (`:142`): a waiter between its look and its wait
  misses it, and waits for the next flush; a rebuild (`ClearQueue`, `:122`)
  does not broadcast at all.
* `UndoRollback` sets `hasUndo` to false although an earlier undo, not rolled
  back, had set it, and the next edit then leaves redo entries.
* `SaveMarkdownWithAnnotations` compares the revision on one read
  (`model/markdown.go:228`) and the transaction takes the identity on another, so
  that a file replaced in between is overwritten. The installed file is a hard
  link of the payload until that is removed (`model/markdown_transaction.go:545`);
  an in-place writer changes both, and the cleanup, with the gate, meets a
  conflict each time.
* The test of a unique task and its append are two critical sections
  (`task/queue.go:74`), and the test stops at the first task of the action,
  whatever its arguments (`task/queue.go:94`).
* `writeTree` puts a changed tree into the block tree at once and a rollback does
  not take it out (`model/transaction.go:2138`); folding a heading queues its index
  operation before the transaction commits (`model/heading.go:71`).
* The size a process keeps of `index.queue` does not know what the command line
  appended to it (`sql/index_queue.go:204`).
* In `MarkdownManagement` with four stimuli, a reload that is overtaken and then
  committed to is enough for `OverwroteUnseen`.

## 4. Fairness

* `MarkdownSave`: an operation under way goes on (`WF(Kernel)`) and the client
  asks again sometime (`WF(Open)`): each view of a document and each refresh of
  the file tree passes the gate.
* `IndexQueue`: the flush is a task of the 100 ms job fed by a ticker; a
  goroutine that wrote a document goes on to queue it; a stopped kernel is
  started again. Documents need not change.
* `FlushWait`: the flush and a running waiter go on (weak fairness). Who waits
  for the mutex gets it although others take it again and again: strong
  fairness, which Go's mutex provides by its starvation mode. Calls, operations
  and rebuilds are not fair.
* `TaskQueue`: both jobs are run by tickers; a handler returns unless its action
  is declared slow. Exiting is not fair.
* `TxQueue`: the performer goes on; the ticker gets `flushLock` although replays
  compete (strong fairness of the mutex). `isFlushing` is up during a moment of
  each tick, and who polls it every 10 ms sees it down sometime: strong fairness
  of the look that finds it down. This is an assumption about timing; the code
  has no mechanism that ensures it, and without it a request could poll for ever.

The modules of the front end and the desktop program state no fairness and have
no temporal liveness property. What they wait for are answers, timers and
messages, each of which a fault may keep away; that nobody waits for something
that cannot come is `NothingHangs`, an invariant.

## 5. The proofs

TLAPS proves, for all values of the constants allowed by the `ASSUME`s:

* `MarkdownSaveProofs!TypeCorrect`, and `CommitNeverUndone`: on a storage that
  never reports an error after a write took effect, a recorded commit is not
  taken back. The commit is decided by `journal` while the code acts on `pc`
  and `tx`, so `CommitIsFinal` is not inductive. The strengthening says that
  while the journal records a commit, the operation is idle, entering the gate,
  in the cleanup or answering, or in a removal that returns there. A stop resets
  `pc`; the gate reloads `tx` from the journal. The assumption is needed: with
  `"unsynced"` among the faults a commit on disk is rolled back.
* `MarkdownSaveProofs!AnswersAlwaysHold`, `OwedCopiesSurvive` and
  `ImplementsDocument`, on a storage that never reports an error after a write took
  effect (`"unsynced"`: the first of the observations above shows why), whatever
  the other programs do, the number of saves, stops and failures: at rest the path
  has an owed version and a refused save is not there; the rename of a rollback is
  the only step that takes the last copy of an owed version off the disk; and, when
  no other program writes (`Writers = {}`, without which no such document exists),
  every step is a step of `AtomicDocument` or a stutter. Each has its invariant.
  `AnswersInv` says for each phase of the journal what the four paths can hold
  (`Layout`), which of it the kernel put there, and what is still promised;
  `CopiesInv` accounts for the copies: the names of one inode show one file (`Links`),
  and whatever a cleanup may remove (the payload, the quarantine once the commit is
  recorded, a leaf that a removal put aside) holds no owed version, or one that the
  document's side of the transaction holds as well (`Spares`); `QuietInv` says which
  file has the version in force. The steps
  showed what TLC's runs could not tell apart: that a removal in the cleanup goes on
  with the transaction in memory equal to the one in the journal, and that no file
  has the inode that stands for none.
* `IndexQueueProofs!NothingIsForgotten` and `WrongIndexHasAReason`: for any
  documents, writes, stops and failures. The invariant `IInv` accounts twice for
  every document that no reason excuses. In memory (`MemInv`): the last operation
  on it that has yet to run, in the queue, in the batch or in what is replayed, fits
  the tree. On disk (`DiskInv`): replaying the journal from its first entry makes its
  rows right whatever they are, so that a stop costs nothing. `Linked` ties the
  two: the last operation queued on a document is the last entry on it too.
  The attempt corrected the list of reasons. With one failure, as the run has
  it, every reason was there; with two, an operation whose entry could not be
  written runs in a batch that is then given up, the journal runs the earlier
  operation of the document again, and the index stays wrong. `abandoned` covers
  that now.
* `WaitingProofs!TypeCorrect` and `EarlyReturns`: for any number of waiters, an
  early return happens only between the taking of the queue and the flag. The
  invariant: a batch is run completely before the flag goes down (`BatchRun`),
  and a waiter that saw the queue empty holds the mutex, so it still is
  (`SeenEmpty`).
* `WaitingProofs!OverlapsAfterTimeout`: for any callers and tasks, two
  synchronous handlers run at once only if one outlasted its timeout. The
  invariant: a synchronous handler is the one waited for or late (`WaitedFor`),
  and while one is waited for none is taken (`OneAtATime`).
* `TxQueueProofs!TypeCorrect` and `AnsweredSettled`: for any set of transactions,
  writers, documents and timestamps, a request that passed `FlushTxQueue` has
  its transaction neither queued nor in the batch, and if it was committed the
  undo log has it. The invariant `WaitInv`: whatever is in a batch is covered by
  the flag (`FlagCoversBatch`), a request between its looks has its transaction
  nowhere or in a batch under the flag (`Placed`), a committed transaction that
  is not recorded is the current one (`Recorded`). `Held` ties the performer's
  stage to the lock.
* `TxQueueProofs!NoHalfStored`: what was refused or rolled back is in no document
  unless its own commit failed after a write. Direct changes copy whole documents
  while a transaction is half written, so the invariant `HalfInv` speaks of every
  copy, tree and document (`StoredRightly`): all they hold may be stored, and what
  may be stored is committed, torn, or of the one transaction that is open
  (`OneOpen`) and writing.
* `TxQueueProofs!UpdatesAreKept`: a committed transaction and a direct change stay
  in each document they changed, unless one that had read the document before
  wrote it after, and one of the two was a direct change. The invariant `KeepInv`:
  a tree that a transaction has loaded holds what the document holds, or the
  document got it from a direct change since (`TreesFollow`); and what an update
  changes is settled when it is made (`MadeOnce`).
* `UndoLogProofs!StacksFollowDocuments`, `AppliedCanBeUndone` and `NothingTwice`:
  for any documents, windows, edits and limit, the stacks agree with the documents for
  every edit whose replay nothing disturbed. The properties speak of edits that
  nobody is replaying, so the invariant `LogInv` has to follow an entry through its
  replay. An undisturbed edit is on a stack once, and on one redo stack (`Single`).
  While nobody replays it, it is in effect everywhere or nowhere, and on the stacks
  accordingly (`AtEase`). While it is undone or redone, it is at the top of the stack
  the rollback takes it from, and in effect everywhere or nowhere according to the step
  (`Undoing`, `Redoing`), by a window that is alone on the document and with the edit
  (`Alone`). What may break this, an edit or another replay on the document, or a write
  that failed half-way, marks the edit in the same step. Clearing takes a set
  of entries from a stack one by one, in an order left open; what that yields
  (`WithoutFacts`) is proved by a least counterexample.
* `ProtyleTransactionsProofs!ReplaysAreAsAsked`: for any number of windows,
  editors, blocks and edits, an undo takes an edit its user was shown and, if
  that changed several documents, asked about, unless the stack changed between
  the look and the request; and never before the edits its user had made in that
  editor. The invariant `AskInv`: an editor's pending edits are ordered and, past
  the wait, younger than those waited for (`WaitedFor`); and as long as the
  kernel's counter of changes is what it was at the peek, the top of the stack is
  what was seen (`PeekedAt`).
* `ProtyleTransactionsProofs!ViewsAgreeAtRest`, `MirrorsAgreeAtRest` and
  `TypesHold`: for any number of editors, windows, blocks, edits and faults, when
  nothing is under way the editors show and the windows offer what the kernel has,
  but for what `offView` and `offMirror` record. The invariant `Agreement`, with
  `AskInv`, says what that comes from while something is under way. For every block,
  one change is the last (`LastChange`): no push, answer or replay that an editor may
  still get (`Arriving`, `Replies`) is newer, the one of that number carries what the
  kernel holds, and every editor has it or is about to get it; a view that nothing
  left wrong shows it, waits for it, or shows the youngest of the editor's own unsent
  edits (`ShowsOwn`). Likewise the state of the undo log, of which every change is
  the last (`InStep`): it is in the mirror, on its way (`Comes`), in an answer
  (`Replied`), or covered by an edit of the window itself. `Truthful` says that a push
  carries nothing of the future and is right if it is of the present, `Order` that an
  edit is on one stack or in one queue, the oldest first. A window is assumed to have
  an editor of the document (`WindowsAssumption`): a window without one is
  told nothing.
* `WaitingProofs!EditsHaveSaves`: for any number of editors, an unsaved edit is
  being saved or will be, unless its save failed or a flush stranded it. The
  property is inductive with the types of the editors (`EdInv`).
* `WaitingProofs!WindowsAreRegistered`: for any number of windows and lost
  connections, a connected window is registered once `AddPushChan` is over,
  unless displaced. The invariant `SessInv`: connections are counted up
  (`SessTypes`), and one that has ended is not the present one
  (`EndedIsNotPresent`), so that what its end takes away is noted.
* `WaitingProofs!TypesHold` and `OnlyUnusedRemoved`: for any windows, documents,
  edits and requests at once, failed saves, lost answers and broken connections,
  what a request removes is referred to by no document it may not overlook. The
  invariant `ScanInv` follows a document through the barrier. A document is
  `Settled` when a scan that reads its file would find any reference that is in
  its editor, its file or a save under way, and no save will take it out again.
  While a window's flushes are waited for, a document is settled or its flush is
  under way (`Flushing`); when the window has answered, it is settled (`Answered`);
  and when the scan has read it and found nothing, there is nothing that could
  bring the reference but a new edit, for which the request is excused (`Reading`).
* `ExternalMarkdownProofs!TypesHold`, `NotesMatchHolds`, `OnlySavesReplaceHolds`,
  `AnswersAreTrueHolds` and `RestartsFindTheFile`: for any numbers of edits, saves,
  renames and mishaps.
  `NotesInv` says where the annotations of a noted text are. What the service
  believes and what a restart would read are treated alike: a record without a
  rename matches if the annotations are beside the body at its path, or its
  transaction is the one that put the body there (`Matches`); the sidecar that a
  transaction or a rename carries is the body's (`Leads`). In between, `Halfway`
  says what a phase has settled: past its first look, a recovery finds the body of
  its transaction or one without annotations. Two facts tie the sides together: a
  transaction that the registry does not have has stored nothing (`Unplaced`), and a
  text that is being saved is noted when it has been stored with annotations, and
  only then (`Unsaved`), so that a save without annotations never takes a noted text
  back. `TextsInv` has what a replaced text needs: two names of one file show one
  text (`Twins`), a body about to be replaced is one that the editor knows, unless
  another program came late (`Aware`), and the name that is kept is there when the
  other is removed (`Linked`).
  `AnswersInv` is about what a record tells of the files while nothing took the file
  from under it (`Aligned`). A record is `Sound` when its path has the file of its
  identity, or what it left unfinished can be finished: the body is the transaction's
  and its sidecar is in place or can still be put there (`Placeable`), or each file of
  a rename is at one of its names and no other file at either (`Movable`). The record
  in memory is sound in every phase but the one between the replacing of a file and
  the noting of its identity. The registry equals it, unless it could not be written,
  outside the phases that end with writing it, and there has what the operation began
  with (`Written`); so what a stop goes back to is sound as well, but for the two
  stops that `Unrecorded` names (`RestartsFindTheFile`). No recovery can therefore
  refuse, and a read finds the file: a load, and a save that has placed its text,
  succeed. `Saving` has the rest: the text that a save has placed, and its sidecar
  once the phase has put it there, stay until the answer is read, unless another
  program interferes.
  The attempt corrected `NotesMatch`: with two failed writes of the registry and a
  stop, one mishap more than the run has, it had a counterexample that no one had
  looked for, the stop that `misled` notes now.
* `MarkdownManagementProofs!PathFollowedHolds`, `EditsStayHolds`,
  `NothingLeftBehindHolds` and `ContentMatchesRevisionHolds`: for any windows,
  editors (finitely many, `FiniteAssumption`), edits and operations under way.
  `PathInv` follows a move to the editors. An editor that is `Behind` its document
  has an event, a commit or a withheld event to come; when the commit has
  begun, each such editor still has its own (`Delivered`), which is why the window that
  asked may drop the event it withheld; and no event, commit or grant speaks of a
  path that the document does not have by now (`EventsTrue`, `GuestsTrue`,
  `Granted`). `TextInv` says of whom the operations are and what they store: one
  operation for each owner (`OneEach`), of which an editor shows what it is saving
  (`BodyShown`), so that a save that fails leaves the edit where it can be saved
  again. `TitleInv` is what `ContentMatchesRevision` takes besides: the revision a
  rename commits has the new title in it (`RenamedTitle`), because the title was
  saved, is in the document until it moves (`TitleStays`), which no editor's save
  changes, since until then a text contains what its revision is of (`Shows`) and
  the coordinator leases a save no revision but its own (`OwnRevision`).
  The attempt corrected the model twice: a change of the title in a document that no
  editor has open reads its revision first (`mutationRevision`), as the others do,
  where the model went on to read the text; and `Kept` counts the saves of editors
  only, since a text that the file tree is about to store keeps no edit that an
  editor gave up.

Each theorem has its counterpart among the runs: the runs check the same
formulas on the small instances (`CommitNeverUndone` without the fault it
excludes). The strengthenings were checked by TLC before they were proved. Apart
from the constants' `ASSUME`s, which TLC evaluates, and the hypotheses named above,
nothing is assumed.

Only model-checked: every liveness property, and `NothingHangs` of three modules,
since the prover does not reason about fairness and `ENABLED`. Every other invariant
and action property of the runs is proved. No module has a recursive operator. (What a recursive definition computes for every
input would be out of the prover's reach.)

## 6. What the models leave out

* Markdown: annotations saved with the document, permissions, directories that
  vanish, a corrupt `transaction.json`. A file's identity is exact: two
  different files never have equal size, time, mode, hash and inode.
* Index: operations on paths, notebooks, references, assets and nodes; a
  partial line in the journal; the rebuild of the database, except in
  `FlushWait`; a second process with the same journal.
* Transactions: what the operations do to a tree, the block tree, caches,
  attribute views and icons saved by a commit (each is one way `CommitFails`
  can happen); several transactions in one request. The stop of the kernel:
  nothing of this queue is persistent.
* Undo: the renaming of duplicate block IDs at a replay, and the operations.
* Tasks: delays, apart from due or not.
* Markdown editors: windows in a browser, which have no coordinator; a rename
  typed into the title of an editor; duplicates and new documents; the choice
  whether to overwrite at a conflict, which is the external half's; annotations
  and table appearance. A reload reads when it asks and applies later; a window
  answers a prepare in time unless it waits for a save or a fault is spent on it;
  the user answers a dialog when the editor is not saving.
* Block editors: insertions, deletions and moves, folded headings, the editors'
  rendering; other documents, except that an edit may change one. Timers that
  gather input before it is posted have fired. The confirmation is always
  answered, one way or the other. The content of a block is the number of the edit
  that wrote it, so that an edit overwrites the block.
* External files: several windows of a file, several files, the granting of files
  and its timers, assets, formats. Operations on the file run one at a time, as
  the service has them; a check and the system call right behind it are one step.
  Typing during an operation is told from typing afterwards at its answer alone.
* Removal of assets: block documents and databases, which the scan reads as well
  (a document that cannot be loaded is passed over, `model/assets.go:1198`); the
  history copy; the removal of one asset by name. A connection breaks once its
  registration is over; a save is refused by a mishap alone, since its editor is
  the document's only one.

## 7. What is left

In the order in which it would add most:

1. The other transaction kinds of the Markdown store (rename, move, install with
   its collision handling, the recycle bin) on the phases of
   `markdown_transaction.go`, with the abstract specification of a move that
   happens at one moment.
2. The server and the command line over one journal, with file locks and a size
   counter each, and the push queue between them.
3. A composition of `TxQueue`, `UndoLog` and the index queue: undo after commit,
   index after write; the exceptions of `UpdatesSurvive` seen from the index.
4. Insertions, moves and deletions of blocks in `ProtyleTransactions`, where a push
   may refer to a block that an editor does not have.
5. The change of the master password of encrypted notebooks (`model/crypto.go`):
   five phases around a manifest, every notebook's wrapped key and its backup, and
   the recovery at the next start; its properties would be that a notebook can
   always be opened with one of the two passwords, and that the manifest stays
   until all of them agree.
