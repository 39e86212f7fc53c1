----------------------------- MODULE IndexQueue -----------------------------
(***************************************************************************)
(* The queue that keeps the SQL index in step with the documents           *)
(* (kernel/sql/queue.go and kernel/sql/index_queue.go).                    *)
(*                                                                         *)
(* A document is written to disk first; then one or two operations about   *)
(* it join operationQueue, in memory, and the journal index.queue, on      *)
(* disk.  An operation whose twin (same action, same document) still waits *)
(* in memory takes the twin's place and is not journalled again.  FlushQueue *)
(* takes the whole queue with the size of the journal, runs the operations *)
(* one transaction each, drops the journal's entries up to that size, and  *)
(* then runs whatever the journal still holds (processDiskQueue) before it *)
(* empties it.  After a stop recoverIndexQueue turns the journal back into *)
(* a queue.                                                                *)
(*                                                                         *)
(* An operation in memory carries the tree as it was when it was queued; a *)
(* journal entry names the document, and is run with the tree then on      *)
(* disk.  Documents are numbered versions; 0 is no document.               *)
(***************************************************************************)
EXTENDS Integers, Sequences, FiniteSets, SequencesExt

CONSTANTS Docs,        \* the documents
          MaxWrites,   \* bound: versions written in a behaviour
          MaxCrashes,  \* bound: stops of the process
          MaxFaults,   \* bound: failures
          Faults       \* the failures met: "exec", "begin", "journal"

ASSUME BoundsAssumption ==
    /\ MaxWrites \in Nat
    /\ MaxCrashes \in Nat
    /\ MaxFaults \in Nat
ASSUME FaultsAssumption == Faults \subseteq {"exec", "begin", "journal"}

Versions == 1..MaxWrites
TreeActions == {"index", "upsert"}
DeleteActions == {"delete_id", "delete_ids"}

VARIABLES
    tree,           \* the version of each document on disk
    writes,         \* versions written so far
    chores,         \* what the code that changes documents still has to do: an operation
                    \* to queue, or a "write", by which the document reaches the disk
    operationQueue, \* the queue in memory: actions on documents, with the version of the
                    \* tree they carry, 0 for a deletion
    indexQueue,     \* the journal on disk: operations without their trees
    stage,          \* where FlushQueue is: "idle", "batch", "rewrite", "load", "replay";
                    \* or "down", and after a stop "recover"
    ops,            \* the operations it took and has not run
    snapshot,       \* the journal's length when it took them, 0 once used
    preserved,      \* the entries clearIndexQueue writes back
    entries,        \* the entries processDiskQueue or recoverIndexQueue read and has
                    \* not handled
    blocks,         \* rows per document and version, 2 for two or more
    crashes, faults,
    abandoned,      \* history: documents with an operation given up
    cut,            \* history: documents queued in memory only
    reasons         \* history: why a document may be absent from the index
                    \* ("reordered", "failed", "abandoned", "cut", "unqueued", "clearing")

queue == <<operationQueue, indexQueue>>
flush == <<stage, ops, snapshot, preserved, entries>>
world == <<tree, writes, chores>>
vars == <<world, queue, flush, blocks, crashes, faults, abandoned, cut, reasons>>

DocsOf(s) == {s[i].doc : i \in DOMAIN s}
Running == stage \notin {"down", "recover"}
\* indexMu: held from the truncation to the rewriting of the kept entries.
JournalFree == stage # "rewrite"
Excuse(docs, why) ==
    reasons' = [d \in Docs |-> IF d \in docs THEN reasons[d] \cup {why}
                                             ELSE reasons[d]]
-----------------------------------------------------------------------------
(* The code that changes documents: the tree is written, then queued.      *)

Index(d, v) == [action |-> "index", doc |-> d, tree |-> v]
Upsert(d, v) == [action |-> "upsert", doc |-> d, tree |-> v]
Delete(a, d) == [action |-> a, doc |-> d, tree |-> 0]

Begin(d, todo) ==
    /\ Running
    /\ chores = <<>>
    /\ chores' = todo
    /\ reasons' = [reasons EXCEPT ![d] = {}]
    /\ UNCHANGED <<queue, flush, blocks, crashes, faults, abandoned, cut>>

\* A document is created or changed: indexWriteTreeIndexQueue for a new one,
\* writeTreeUpsertQueue or the files a sync brought otherwise.
WriteTree(d) ==
    /\ writes < MaxWrites
    /\ writes' = writes + 1
    /\ tree' = [tree EXCEPT ![d] = writes']
    /\ \/ tree[d] = 0 /\ Begin(d, <<Index(d, writes')>>)
       \/ Begin(d, <<Upsert(d, writes')>>)

\* A document is removed: one at a time, or with others.
RemoveTree(d) ==
    /\ tree[d] # 0
    /\ tree' = [tree EXCEPT ![d] = 0]
    /\ \E a \in DeleteActions : Begin(d, <<Delete(a, d)>>)
    /\ UNCHANGED writes

\* An earlier version comes back from the history: the working copy goes, its
\* rows are to go, and the restored document is written and indexed.
RollbackDocHistory(d) ==
    /\ writes < MaxWrites
    /\ writes' = writes + 1
    /\ tree' = [tree EXCEPT ![d] = 0]
    /\ Begin(d, <<Delete("delete_id", d),
                  [action |-> "write", doc |-> d, tree |-> writes'],
                  Index(d, writes')>>)

WriteRestored ==
    /\ Running
    /\ chores # <<>> /\ Head(chores).action = "write"
    /\ tree' = [tree EXCEPT ![Head(chores).doc] = Head(chores).tree]
    /\ chores' = Tail(chores)
    /\ UNCHANGED <<writes, queue, flush, blocks, crashes, faults, abandoned,
                   cut, reasons>>
-----------------------------------------------------------------------------
(* Queueing.  dbQueueLock is held throughout, so the memory and the journal *)
(* change together for everyone but a stop.                                 *)

Entry(op) == [action |-> op.action, doc |-> op.doc]
\* BatchRemoveTreeQueue never looks for a twin.
Twins(op) == {i \in DOMAIN operationQueue :
                /\ op.action # "delete_ids"
                /\ Entry(operationQueue[i]) = Entry(op)}

CoalesceKeepsOld(op) ==
    /\ Twins(op) # {}
    /\ UNCHANGED <<queue, faults, cut, reasons>>

\* The first twin's place is taken; history notes when that overtakes an operation
\* on the same document queued after it.
Coalesce(op) ==
    \E i \in Twins(op) :
        /\ \A j \in Twins(op) : i <= j
        /\ operationQueue' = [operationQueue EXCEPT ![i] = op]
        /\ Excuse({d \in {op.doc} : \E j \in DOMAIN operationQueue :
                                j > i /\ operationQueue[j].doc = d}, "reordered")
        /\ UNCHANGED <<indexQueue, faults, cut>>

AppendOperation(op) ==
    /\ Twins(op) = {}
    /\ operationQueue' = Append(operationQueue, op)
    /\ UNCHANGED reasons
    /\ \/ /\ indexQueue' = Append(indexQueue, Entry(op))
          /\ UNCHANGED <<faults, cut>>
       \/ /\ "journal" \in Faults /\ faults < MaxFaults
          /\ faults' = faults + 1
          /\ cut' = cut \cup {op.doc}
          /\ UNCHANGED indexQueue

Enqueue ==
    /\ Running /\ JournalFree
    /\ chores # <<>> /\ Head(chores).action # "write"
    /\ Coalesce(Head(chores)) \/ AppendOperation(Head(chores))
    /\ chores' = Tail(chores)
    /\ UNCHANGED <<tree, writes, flush, blocks, crashes, abandoned>>
-----------------------------------------------------------------------------
(* Running an operation.                                                   *)

NoRows == [v \in Versions |-> 0]
Only(v) == [NoRows EXCEPT ![v] = 1]

\* indexTree inserts, whatever is there.
IndexTree(rows, v) == {[rows EXCEPT ![v] = IF @ = 0 THEN 1 ELSE 2]}
\* upsertTree compares the tree with one stored hash, whichever row of the block
\* the query returns last: equal, and every row stays; else one row replaces all.
UpsertTree(rows, v) ==
    {new \in {rows, Only(v)} :
        \/ new = rows /\ rows[v] > 0
        \/ new = Only(v) /\ (rows = NoRows \/ \E w \in Versions \ {v} : rows[w] > 0)}

ExecOp(op, v) ==
    \E rows \in CASE op.action = "index" -> IndexTree(blocks[op.doc], v)
                  [] op.action = "upsert" -> UpsertTree(blocks[op.doc], v)
                  [] OTHER -> {NoRows} :
        blocks' = [blocks EXCEPT ![op.doc] = rows]

Fault(f) == f \in Faults /\ faults < MaxFaults /\ faults' = faults + 1

\* The operation is rolled back and dropped, in the batch and in a replay.
ExecFails(op, v) ==
    /\ Fault("exec")
    /\ Excuse({d \in {op.doc} : v = tree[d]}, "failed")
    /\ UNCHANGED blocks
-----------------------------------------------------------------------------
(* FlushQueue, under initDatabaseLock.                                     *)

GetOperationsMemoryOnly ==
    /\ stage = "idle" /\ operationQueue # <<>>
    /\ stage' = "batch"
    /\ ops' = operationQueue
    /\ operationQueue' = <<>>
    /\ snapshot' = Len(indexQueue)
    /\ UNCHANGED <<world, indexQueue, preserved, entries, blocks, crashes,
                   faults, abandoned, cut, reasons>>

GetOperations ==
    /\ stage = "idle"
    /\ \/ /\ operationQueue = <<>>
          /\ stage' = "load"
          /\ UNCHANGED <<ops, snapshot, operationQueue>>
       \/ /\ operationQueue # <<>>
          /\ stage' = "batch"
          /\ ops' = operationQueue
          /\ operationQueue' = <<>>
          /\ snapshot' = Len(indexQueue)
    /\ UNCHANGED <<world, indexQueue, preserved, entries, blocks, crashes,
                   faults, abandoned, cut, reasons>>

ExecNext ==
    /\ stage = "batch" /\ ops # <<>>
    /\ LET op == Head(ops) IN
          \/ ExecOp(op, op.tree) /\ UNCHANGED <<faults, reasons>>
          \/ ExecFails(op, op.tree)
    /\ ops' = Tail(ops)
    /\ abandoned' = abandoned \ (DocsOf(ops) \ DocsOf(Tail(ops)))
    /\ UNCHANGED <<world, queue, stage, snapshot, preserved, entries, crashes, cut>>

\* No transaction can be had (a locked notebook): the rest is left to the journal.
\* History: of documents whose operations are not all there, even what was run is
\* undone by the entries that are.
AbandonBatch ==
    /\ stage = "batch" /\ ops # <<>>
    /\ Fault("begin")
    /\ abandoned' = abandoned \cup DocsOf(ops)
    /\ Excuse(cut \ DocsOf(operationQueue), "abandoned")
    /\ ops' = <<>> /\ snapshot' = 0
    /\ stage' = "idle"
    /\ UNCHANGED <<world, queue, preserved, entries, blocks, crashes, cut>>

Kept == SubSeq(indexQueue, snapshot + 1, Len(indexQueue))

\* clearIndexQueue: the file is emptied, then the later entries are written back.
\* History: entries an earlier flush gave up go unexecuted.
ClearIndexQueue ==
    /\ stage = "batch" /\ ops = <<>>
    /\ preserved' = Kept /\ snapshot' = 0
    /\ indexQueue' = <<>>
    /\ stage' = "rewrite"
    /\ Excuse(abandoned, "abandoned")
    /\ abandoned' = {}
    /\ cut' = cut \cap DocsOf(operationQueue)
    /\ UNCHANGED <<world, operationQueue, ops, entries, blocks, crashes, faults>>

RewriteIndexQueue ==
    /\ stage = "rewrite"
    /\ indexQueue' = preserved
    /\ preserved' = <<>>
    /\ stage' = "load"
    /\ UNCHANGED <<world, operationQueue, ops, snapshot, entries, blocks,
                   crashes, faults, abandoned, cut, reasons>>
-----------------------------------------------------------------------------
(* processDiskQueue, still under initDatabaseLock.                         *)

LoadIndexQueue ==
    /\ stage = "load"
    /\ entries' = indexQueue
    /\ stage' = IF indexQueue = <<>> THEN "idle" ELSE "replay"
    /\ UNCHANGED <<world, queue, ops, snapshot, preserved, blocks, crashes,
                   faults, abandoned, cut, reasons>>

IsNilOrDeletion(e) == e.action \notin TreeActions \/ tree[e.doc] = 0

\* LoadTree fails for a document that is gone: the entry becomes no operation.
IsNil(e) == e.action \in TreeActions /\ tree[e.doc] = 0
TreeOf(e) == IF e.action \in TreeActions THEN tree[e.doc] ELSE 0

ReplayNext ==
    /\ stage = "replay" /\ entries # <<>>
    /\ LET e == Head(entries) IN
          \/ IsNil(e) /\ UNCHANGED <<blocks, faults, reasons>>
          \/ ~IsNil(e) /\ ExecOp(e, TreeOf(e)) /\ UNCHANGED <<faults, reasons>>
          \/ ~IsNil(e) /\ ExecFails(e, TreeOf(e))
    /\ entries' = Tail(entries)
    /\ abandoned' = abandoned \ (DocsOf(entries) \ DocsOf(Tail(entries)))
    /\ UNCHANGED <<world, queue, stage, ops, snapshot, preserved, crashes, cut>>

AbandonReplay ==
    /\ stage = "replay" /\ entries # <<>>
    /\ Fault("begin")
    /\ abandoned' = abandoned \cup DocsOf(entries)
    /\ entries' = <<>>
    /\ stage' = "idle"
    /\ UNCHANGED <<world, queue, ops, snapshot, preserved, blocks, crashes,
                   cut, reasons>>

\* clearIndexQueueEntries empties the journal, with what joined it since it was read.
TruncateIndexQueue ==
    /\ stage = "replay" /\ entries = <<>>
    /\ indexQueue' = <<>>
    /\ cut' = cut \cup DocsOf(operationQueue)
    /\ stage' = "idle"
    /\ UNCHANGED <<world, operationQueue, ops, snapshot, preserved, entries,
                   blocks, crashes, faults, abandoned, reasons>>
-----------------------------------------------------------------------------
(* A stop loses what is in memory; the next start reads the journal.       *)

Crash ==
    /\ stage # "down" /\ crashes < MaxCrashes
    /\ crashes' = crashes + 1
    /\ stage' = "down"
    /\ reasons' = [d \in Docs |-> reasons[d]
                      \cup (IF d \in cut THEN {"cut"} ELSE {})
                      \cup (IF d \in DocsOf(chores) THEN {"unqueued"} ELSE {})
                      \cup (IF d \in DocsOf(preserved) THEN {"clearing"} ELSE {})]
    /\ chores' = <<>>
    /\ operationQueue' = <<>>
    /\ ops' = <<>> /\ snapshot' = 0 /\ preserved' = <<>> /\ entries' = <<>>
    /\ abandoned' = {} /\ cut' = {}
    /\ UNCHANGED <<tree, writes, indexQueue, blocks, faults>>

\* The next start reads the journal, which stays; each entry becomes an operation
\* with the tree on disk, or none.
ReadIndexQueue ==
    /\ stage = "down"
    /\ stage' = "recover"
    /\ entries' = indexQueue
    /\ UNCHANGED <<world, queue, ops, snapshot, preserved, blocks, crashes, faults,
                   abandoned, cut, reasons>>

RecoverOperation(e) == [action |-> e.action, doc |-> e.doc, tree |-> TreeOf(e)]

RecoverNext ==
    /\ stage = "recover" /\ entries # <<>>
    /\ operationQueue' = IF IsNil(Head(entries)) THEN operationQueue
                         ELSE Append(operationQueue, RecoverOperation(Head(entries)))
    /\ entries' = Tail(entries)
    /\ UNCHANGED <<world, indexQueue, stage, ops, snapshot, preserved, blocks,
                   crashes, faults, abandoned, cut, reasons>>

Recovered ==
    /\ stage = "recover" /\ entries = <<>>
    /\ stage' = "idle"
    /\ UNCHANGED <<world, queue, ops, snapshot, preserved, entries, blocks, crashes,
                   faults, abandoned, cut, reasons>>

RecoverIndexQueue == ReadIndexQueue \/ RecoverNext \/ Recovered

Init ==
    /\ tree = [d \in Docs |-> 0] /\ writes = 0 /\ chores = <<>>
    /\ operationQueue = <<>> /\ indexQueue = <<>>
    /\ stage = "idle" /\ ops = <<>> /\ snapshot = 0
    /\ preserved = <<>> /\ entries = <<>>
    /\ blocks = [d \in Docs |-> NoRows]
    /\ crashes = 0 /\ faults = 0
    /\ abandoned = {} /\ cut = {} /\ reasons = [d \in Docs |-> {}]

Flush ==
    \/ GetOperations \/ ExecNext \/ AbandonBatch \/ ClearIndexQueue
    \/ RewriteIndexQueue \/ LoadIndexQueue \/ ReplayNext \/ AbandonReplay
    \/ TruncateIndexQueue

Next ==
    \/ \E d \in Docs : WriteTree(d) \/ RemoveTree(d) \/ RollbackDocHistory(d)
    \/ WriteRestored \/ Enqueue
    \/ Flush
    \/ Crash \/ RecoverIndexQueue

Spec == Init /\ [][Next]_vars

\* FlushQueue runs on a timer, a goroutine that writes a document goes on to
\* queue it, and the next start runs recoverIndexQueue.
FairSpec == Spec /\ WF_vars(Flush) /\ WF_vars(WriteRestored \/ Enqueue)
                 /\ WF_vars(RecoverIndexQueue)
-----------------------------------------------------------------------------
(* Properties.                                                             *)

\* Nothing waits anywhere.
AtRest == /\ Running
          /\ chores = <<>> /\ operationQueue = <<>> /\ indexQueue = <<>>
          /\ ops = <<>> /\ preserved = <<>> /\ entries = <<>>

\* A search finds the version on disk, and nothing of a document that is gone.
Findable(d) == IF tree[d] = 0 THEN blocks[d] = NoRows ELSE blocks[d][tree[d]] > 0

\* The list of ways the index can stay wrong is complete: once nothing waits, a
\* document is findable unless since its last change its operation was overtaken
\* by coalescing, failed, or was given up and cleared by a later flush; and after
\* a stop, also if its journal entry had been cut, it had not been queued yet, or
\* the journal was being rewritten.
WrongIndexIsExplained ==
    AtRest => \A d \in Docs :
        Findable(d) \/ (reasons[d] \cap {"reordered", "failed", "abandoned"} # {})
                    \/ (crashes > 0 /\ reasons[d] # {})

\* Every operation the next flush owes is either in memory, in the flush under way
\* or in the journal: a document on disk that the index lacks is named by one of
\* them, unless a reason is known.  This is what lets the flush forget a batch.
MissingIsOwed ==
    \A d \in Docs :
        \/ Findable(d) \/ reasons[d] # {} \/ d \in abandoned
        \/ d \in DocsOf(chores) \cup DocsOf(operationQueue) \cup DocsOf(ops)
               \cup DocsOf(indexQueue) \cup DocsOf(preserved) \cup DocsOf(entries)

\* A flush that takes the queue never loses the journal entry of an operation
\* queued while it ran: as long as nothing was cut, what waits in memory is also
\* in the journal, or about to be written back to it.
QueuedIsJournalled ==
    \A i \in DOMAIN operationQueue :
        \/ operationQueue[i].doc \in cut
        \/ Entry(operationQueue[i]) \in Range(indexQueue \o preserved)

\* Neither the index nor the journal forgets an operation: both of the above.
NothingForgotten == MissingIsOwed /\ QueuedIsJournalled

\* Whatever fails or stops, once documents stop changing the flush catches up and
\* empties the queue and the journal.
QueueDrains == <>[]AtRest
=============================================================================
