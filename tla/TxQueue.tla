------------------------------- MODULE TxQueue -------------------------------
(***************************************************************************)
(* The kernel's transactions (kernel/model/transaction.go): the queue that *)
(* performTransactions fills, the ticker that empties it, the synchronous  *)
(* replays of undo and redo, FlushTxQueue, with which everybody else waits *)
(* for the queue, and the code that changes a document directly after such *)
(* a wait (SetBlockAttrs and its like).                                    *)
(*                                                                         *)
(* A document is the set of updates it contains.  A transaction loads each *)
(* document it changes once, changes the loaded tree, and writes all the   *)
(* trees when it commits.  flushLock admits one performer at a time; the   *)
(* waiting looks at the queue's length, then at the flag isFlushing.       *)
(***************************************************************************)
EXTENDS Integers, Sequences, FiniteSets, SequencesExt

CONSTANTS Docs,
          DocSets,  \* the sets of documents a transaction changes
          Edits,    \* editors' transactions, each of a request of its own
          Replays,  \* transactions of undo and redo, performed synchronously
          Writers,  \* direct changes of one document
          Stamps    \* request timestamps; a client's clock decides

ASSUME DocSetsAssumption == DocSets \subseteq SUBSET Docs \ {{}}
ASSUME StampsAssumption == Stamps \subseteq Nat
ASSUME UpdatesAssumption ==
    /\ Edits \cap Replays = {} /\ Edits \cap Writers = {} /\ Replays \cap Writers = {}
    /\ {"none", "flusher"} \cap (Edits \cup Replays \cup Writers) = {}

Txs == Edits \cup Replays
Updates == Txs \cup Writers

VARIABLES
    txQueue, stamp, changes, \* changes: the documents of each update, {} before it is made
    lock, isFlushing, stage, \* flushLock's holder, and where it is
    batch, state, trees,     \* what it still performs; the trees its transaction loaded
    written,                 \* of these, the ones already written
    disk,
    undoLog,                 \* transactions recorded in the undo log
    pc, copy,                \* where requests and direct changes are; the trees these hold
    torn,                    \* history: rolled back with a tree already written
    lost                     \* history: <<update, document>> pairs a stale tree took away

requests == <<pc, stamp, changes>>
performer == <<lock, isFlushing, stage, batch>>
transaction == <<state, trees, written>>
vars == <<requests, txQueue, performer, transaction, disk, undoLog, copy, torn, lost>>

NoTrees == [d \in {} |-> {}]
Current == Head(batch)

Init ==
    /\ txQueue = <<>> /\ stamp = [t \in Edits |-> 0]
    /\ changes = [u \in Updates |-> {}]
    /\ lock = "none" /\ isFlushing = FALSE /\ stage = "idle" /\ batch = <<>>
    /\ state = [t \in Txs |-> 0] /\ trees = NoTrees /\ written = {}
    /\ disk = [d \in Docs |-> {}] /\ undoLog = {}
    /\ pc = [u \in Updates |-> "new"] /\ copy = [w \in Writers |-> {}]
    /\ torn = {} /\ lost = {}
-----------------------------------------------------------------------------
(* Requests: performTransactions queues and waits; a direct change waits,  *)
(* loads and writes.                                                       *)

Go(u, from, to) == pc[u] = from /\ pc' = [pc EXCEPT ![u] = to]

NotAfter(s) == {i \in DOMAIN txQueue : stamp[txQueue[i]] <= s}

\* Appended and sorted by timestamp, stably: the queue was sorted already.
AppendSorted(t, s) == InsertAt(txQueue, Cardinality(NotAfter(s)) + 1, t)

PerformTransactions(t) ==
    /\ Go(t, "new", "size")
    /\ \E s \in Stamps, docs \in DocSets :
          /\ txQueue' = AppendSorted(t, s)
          /\ stamp' = [stamp EXCEPT ![t] = s]
          /\ changes' = [changes EXCEPT ![t] = docs]
    /\ UNCHANGED <<performer, transaction, disk, undoLog, copy, torn, lost>>

ChangeDirectly(w) ==
    /\ Go(w, "new", "size")
    /\ \E d \in Docs : changes' = [changes EXCEPT ![w] = {d}]
    /\ UNCHANGED <<stamp, txQueue, performer, transaction, disk, undoLog, copy,
                   torn, lost>>

\* FlushTxQueue: two looks, and around again when either says no.
ReadSize(u) ==
    /\ txQueue = <<>>
    /\ Go(u, "size", "flag")
    /\ UNCHANGED <<stamp, changes, txQueue, performer, transaction, disk, undoLog,
                   copy, torn, lost>>

ReadFlag(u) ==
    /\ Go(u, "flag", IF isFlushing THEN "size" ELSE "through")
    /\ UNCHANGED <<stamp, changes, txQueue, performer, transaction, disk, undoLog,
                   copy, torn, lost>>

WaitForCommit(t) ==
    /\ state[t] # 1
    /\ Go(t, "through", "answered")
    /\ UNCHANGED <<stamp, changes, txQueue, performer, transaction, disk, undoLog,
                   copy, torn, lost>>

LoadTree(w) ==
    /\ Go(w, "through", "loaded")
    /\ \E d \in changes[w] : copy' = [copy EXCEPT ![w] = disk[d]]
    /\ UNCHANGED <<stamp, changes, txQueue, performer, transaction, disk, undoLog,
                   torn, lost>>

WriteTree(w) ==
    /\ Go(w, "loaded", "answered")
    /\ \E d \in changes[w] :
          /\ disk' = [disk EXCEPT ![d] = copy[w] \cup {w}]
          /\ lost' = lost \cup (disk[d] \ copy[w]) \X {d}
    /\ UNCHANGED <<stamp, changes, txQueue, performer, transaction, undoLog, copy, torn>>
-----------------------------------------------------------------------------
(* The performer: the ticker's flushQueue, or PerformTxSync of a replay.   *)

Lock(h) ==
    /\ lock = "none"
    /\ lock' = h /\ stage' = "locked"
    /\ UNCHANGED <<stamp, txQueue, isFlushing, batch, transaction, disk, undoLog,
                   copy, torn, lost>>

Tick == Lock("flusher") /\ UNCHANGED <<pc, changes>>

PerformTxSync(r) ==
    /\ Go(r, "new", "performing")
    /\ \E docs \in DocSets : changes' = [changes EXCEPT ![r] = docs]
    /\ Lock(r)

SetFlushingNever ==
    /\ stage = "locked" /\ stage' = "flagged"
    /\ UNCHANGED <<requests, txQueue, lock, isFlushing, batch, transaction, disk,
                   undoLog, copy, torn, lost>>

SetFlushing ==
    /\ stage = "locked"
    /\ isFlushing' = TRUE /\ stage' = "flagged"
    /\ UNCHANGED <<requests, txQueue, lock, batch, transaction, disk, undoLog, copy,
                   torn, lost>>

TakeQueuedTransactions ==
    /\ stage = "flagged" /\ stage' = "perform"
    /\ IF lock = "flusher" THEN batch' = txQueue /\ txQueue' = <<>>
                           ELSE batch' = <<lock>> /\ UNCHANGED txQueue
    /\ UNCHANGED <<requests, lock, isFlushing, transaction, disk, undoLog, copy,
                   torn, lost>>

Performing == stage = "perform" /\ batch # <<>>

\* A transaction that says nothing, or what the database settings forbid.
Refuse ==
    /\ Performing /\ state[Current] = 0
    /\ batch' = Tail(batch)
    /\ UNCHANGED <<requests, txQueue, lock, isFlushing, stage, transaction, disk,
                   undoLog, copy, torn, lost>>

Begin ==
    /\ Performing /\ state[Current] = 0
    /\ state' = [state EXCEPT ![Current] = 1]
    /\ UNCHANGED <<requests, txQueue, performer, trees, written, disk, undoLog,
                   copy, torn, lost>>

Executing == Performing /\ state[Current] = 1
ToLoad == changes[Current] \ DOMAIN trees

\* The operations on one document.
DoOperation ==
    /\ Executing
    /\ \E d \in ToLoad :
          trees' = [e \in DOMAIN trees \cup {d} |->
                       IF e = d THEN disk[d] \cup {Current} ELSE trees[e]]
    /\ UNCHANGED <<requests, txQueue, performer, state, written, disk, undoLog,
                   copy, torn, lost>>

RollbackKeepingTrees ==
    /\ state' = [state EXCEPT ![Current] = 3]
    /\ batch' = Tail(batch)
    /\ written' = {}
    /\ UNCHANGED trees

RollbackForgotten ==
    /\ batch' = Tail(batch)
    /\ trees' = NoTrees /\ written' = {}
    /\ UNCHANGED state

Rollback ==
    /\ state' = [state EXCEPT ![Current] = 3]
    /\ batch' = Tail(batch)
    /\ trees' = NoTrees /\ written' = {}

OperationFails ==
    /\ Executing /\ ToLoad # {}
    /\ Rollback
    /\ UNCHANGED <<requests, txQueue, lock, isFlushing, stage, disk, undoLog, copy,
                   torn, lost>>

\* commit: the trees in any order.
CommitWrite ==
    /\ Executing /\ ToLoad = {}
    /\ \E d \in DOMAIN trees \ written :
          /\ disk' = [disk EXCEPT ![d] = trees[d]]
          /\ written' = written \cup {d}
          /\ lost' = lost \cup ((disk[d] \ trees[d]) \cap Writers) \X {d}
    /\ UNCHANGED <<requests, txQueue, performer, state, trees, undoLog, copy, torn>>

\* A tree, or what is saved after the trees, cannot be written.
CommitFails ==
    /\ Executing /\ ToLoad = {}
    /\ torn' = torn \cup IF written = {} THEN {} ELSE {Current}
    /\ Rollback
    /\ UNCHANGED <<requests, txQueue, lock, isFlushing, stage, disk, undoLog, copy, lost>>

CommitDoneAfterFirst ==
    /\ Executing /\ ToLoad = {} /\ written # {}
    /\ state' = [state EXCEPT ![Current] = 2]
    /\ stage' = "record"
    /\ UNCHANGED <<requests, txQueue, lock, isFlushing, batch, trees, written, disk,
                   undoLog, copy, torn, lost>>

\* Committed first, recorded next.
CommitDone ==
    /\ Executing /\ ToLoad = {} /\ written = DOMAIN trees
    /\ state' = [state EXCEPT ![Current] = 2]
    /\ stage' = "record"
    /\ UNCHANGED <<requests, txQueue, lock, isFlushing, batch, trees, written, disk,
                   undoLog, copy, torn, lost>>

RecordReplays ==
    /\ stage = "record" /\ stage' = "perform"
    /\ undoLog' = undoLog \cup {Current}
    /\ batch' = Tail(batch)
    /\ trees' = NoTrees /\ written' = {}
    /\ UNCHANGED <<requests, txQueue, lock, isFlushing, state, disk, copy, torn, lost>>

\* A replay is not recorded.
Record ==
    /\ stage = "record" /\ stage' = "perform"
    /\ undoLog' = undoLog \cup ({Current} \cap Edits)
    /\ batch' = Tail(batch)
    /\ trees' = NoTrees /\ written' = {}
    /\ UNCHANGED <<requests, txQueue, lock, isFlushing, state, disk, copy, torn, lost>>

ClearFlushing ==
    /\ stage = "perform" /\ batch = <<>>
    /\ isFlushing' = FALSE /\ stage' = "unlock"
    /\ UNCHANGED <<requests, txQueue, lock, batch, transaction, disk, undoLog, copy,
                   torn, lost>>

Unlock ==
    /\ stage = "unlock" /\ stage' = "idle"
    /\ lock' = "none"
    /\ pc' = [u \in Updates |-> IF u = lock THEN "answered" ELSE pc[u]]
    /\ UNCHANGED <<stamp, changes, txQueue, isFlushing, batch, transaction, disk,
                   undoLog, copy, torn, lost>>

Perform ==
    \/ SetFlushing \/ TakeQueuedTransactions
    \/ Refuse \/ Begin \/ DoOperation \/ OperationFails
    \/ CommitWrite \/ CommitFails \/ CommitDone \/ Record
    \/ ClearFlushing \/ Unlock

Advance(u) == ReadSize(u) \/ ReadFlag(u)
Answer(t) == WaitForCommit(t)
Change(w) == LoadTree(w) \/ WriteTree(w)

Next ==
    \/ \E t \in Edits : PerformTransactions(t) \/ Answer(t)
    \/ \E w \in Writers : ChangeDirectly(w) \/ Change(w)
    \/ \E u \in Edits \cup Writers : Advance(u)
    \/ Tick \/ \E r \in Replays : PerformTxSync(r)
    \/ Perform

Spec == Init /\ [][Next]_vars

\* The ticker ticks and what runs goes on.  The flag is up for a moment of each
\* tick only: who polls it every 10 ms finds it down sometime (strong fairness).
FairSpec ==
    /\ Spec
    /\ WF_vars(Perform) /\ SF_vars(Tick)
    /\ \A u \in Edits \cup Writers : /\ WF_vars(ReadFlag(u))
                                     /\ SF_vars(ReadSize(u) /\ ~isFlushing)
                                     /\ SF_vars(ReadFlag(u) /\ ~isFlushing)
    /\ \A t \in Edits : WF_vars(Answer(t))
    /\ \A w \in Writers : WF_vars(Change(w))
-----------------------------------------------------------------------------
\* Types of the queue, the performer and the documents.
TypeOK ==
    /\ txQueue \in Seq(Edits) /\ batch \in Seq(Txs)
    /\ stamp \in [Edits -> Stamps \cup {0}] /\ changes \in [Updates -> SUBSET Docs]
    /\ lock \in {"none", "flusher"} \cup Replays /\ isFlushing \in BOOLEAN
    /\ stage \in {"idle", "locked", "flagged", "perform", "record", "unlock"}
    /\ state \in [Txs -> 0..3]
    /\ DOMAIN trees \subseteq Docs /\ \A d \in DOMAIN trees : trees[d] \subseteq Updates
    /\ written \subseteq DOMAIN trees
    /\ disk \in [Docs -> SUBSET Updates] /\ undoLog \subseteq Edits
    /\ pc \in [Updates -> {"new", "size", "flag", "through", "loaded", "performing",
                           "answered"}]
    /\ copy \in [Writers -> SUBSET Updates]
    /\ torn \subseteq Txs /\ lost \subseteq Updates \X Docs

\* When a request is answered its transaction has been dealt with for good, and if
\* it was committed the undo log has it already, so that the buttons the answer
\* carries are right.  FlushTxQueue sees to it with two unlocked looks.
AnsweredIsSettled ==
    \A t \in Edits : pc[t] \in {"through", "answered"} =>
        /\ t \notin Range(txQueue) \cup Range(batch)
        /\ state[t] = 2 => t \in undoLog

\* What was committed stays in every document it changed, and so does a direct
\* change: no transaction overwrites another, batched or replayed.  Only a direct
\* change and a transaction that read the same document before can undo each other.
UpdatesSurvive ==
    \A u \in Updates :
        \/ u \in Txs /\ state[u] # 2
        \/ u \in Writers /\ pc[u] # "answered"
        \/ \A d \in changes[u] : u \in disk[d] \/ <<u, d>> \in lost

\* A transaction that was refused or rolled back is in no document, unless one of
\* its own writes had succeeded before another failed; and the undo log never has
\* such a half.
OnlyCommittedOrTorn ==
    /\ \A t \in Txs, d \in Docs : t \in disk[d] =>
          state[t] = 2 \/ t \in torn \/ (Executing /\ t = Current)
    /\ \A t \in undoLog : state[t] = 2 /\ t \notin torn

\* Every request and every direct change comes to its end, whatever fails.
RequestsAnswered ==
    \A u \in Edits \cup Writers : pc[u] = "size" ~> pc[u] = "answered"
=============================================================================
