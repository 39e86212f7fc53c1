---------------------------- MODULE TxQueueProofs ----------------------------
(***************************************************************************)
(* The two unlocked looks of FlushTxQueue, for any number of requests,     *)
(* replays and documents: whoever gets through knows that what it queued   *)
(* has been performed and recorded.                                        *)
(***************************************************************************)
EXTENDS TxQueue, FiniteSetTheorems, TLAPS

\* The performer holds the lock, and has at "record" what it records.
Held ==
    /\ lock = "none" => stage = "idle"
    /\ stage = "record" => batch # <<>>

\* The flag is up from before the queue is taken until the batch is empty.
FlagCoversBatch ==
    /\ isFlushing <=> stage \in {"flagged", "perform", "record"}
    /\ batch # <<>> => stage \in {"perform", "record"}

\* A request waits at the size while its transaction is queued, and at the size or
\* the flag while it is in the batch.
Placed ==
    \A t \in Edits : /\ t \in Range(txQueue) => pc[t] = "size"
                     /\ t \in Range(batch) => pc[t] \in {"size", "flag"}

\* Between the commit and its record the performer is at "record".
Recorded ==
    \A t \in Edits : state[t] = 2 => t \in undoLog \/ (stage = "record" /\ t = Current)

Settled ==
    \A t \in Edits :
        pc[t] \in {"through", "answered"} /\ state[t] = 2 => t \in undoLog

WaitInv == FlagCoversBatch /\ Placed /\ Recorded /\ Settled

\* What joins the queue in PerformTransactions is the transaction alone.
LEMMA Appending ==
    ASSUME NEW t \in Edits, NEW s, txQueue \in Seq(Edits)
    PROVE  /\ AppendSorted(t, s) \in Seq(Edits)
           /\ Range(AppendSorted(t, s)) \subseteq Range(txQueue) \cup {t}
<1> DEFINE n == Cardinality(NotAfter(s)) + 1
<1>1. n \in 1..Len(txQueue) + 1
  <2>1. Len(txQueue) \in Nat /\ DOMAIN txQueue = 1..Len(txQueue)
    OBVIOUS
  <2>2. /\ IsFiniteSet(1..Len(txQueue))
        /\ Cardinality(1..Len(txQueue)) = Len(txQueue)
    BY <2>1, FS_Interval
  <2>3. NotAfter(s) \in SUBSET (1..Len(txQueue))
    BY <2>1 DEF NotAfter
  <2>4. IsFiniteSet(NotAfter(s)) /\ Cardinality(NotAfter(s)) <= Len(txQueue)
    BY <2>2, <2>3, FS_Subset
  <2>5. Cardinality(NotAfter(s)) \in Nat
    BY <2>4, FS_CardinalityType
  <2>6. QED
    BY <2>1, <2>4, <2>5
<1> HIDE DEF n
<1>2. AppendSorted(t, s) = SubSeq(txQueue, 1, n - 1) \o <<t>> \o SubSeq(txQueue, n, Len(txQueue))
  BY DEF AppendSorted, InsertAt, n
<1>3. /\ SubSeq(txQueue, 1, n - 1) \in Seq(Edits)
      /\ SubSeq(txQueue, n, Len(txQueue)) \in Seq(Edits)
      /\ <<t>> \in Seq(Edits)
  BY <1>1
<1>4. /\ Range(SubSeq(txQueue, 1, n - 1)) \subseteq Range(txQueue)
      /\ Range(SubSeq(txQueue, n, Len(txQueue))) \subseteq Range(txQueue)
  BY <1>1 DEF Range
<1>5. ASSUME NEW p \in Seq(Edits), NEW q \in Seq(Edits)
      PROVE  Range(p \o q) \subseteq Range(p) \cup Range(q)
  BY DEF Range
<1>6. Range(<<t>>) = {t}
  BY DEF Range
<1>7. SubSeq(txQueue, 1, n - 1) \o <<t>> \in Seq(Edits)
  BY <1>3
<1> DEFINE front == SubSeq(txQueue, 1, n - 1)
           back == SubSeq(txQueue, n, Len(txQueue))
<1>8. (front \o <<t>>) \o back \in Seq(Edits)
  BY <1>3, <1>7
<1>9. Range(front \o <<t>>) \subseteq Range(front) \cup {t}
  BY <1>3, <1>5, <1>6
<1>10. Range((front \o <<t>>) \o back) \subseteq Range(front \o <<t>>) \cup Range(back)
  BY <1>3, <1>5, <1>7
<1>11. QED
  BY <1>2, <1>4, <1>8, <1>9, <1>10

\* The tail of a sequence holds nothing new.
LEMMA TailRange ==
    ASSUME NEW S, NEW s \in Seq(S), s # <<>>
    PROVE  /\ Tail(s) \in Seq(S) /\ Head(s) \in S /\ Head(s) \in Range(s)
           /\ Range(Tail(s)) \subseteq Range(s)
  BY DEF Range

-----------------------------------------------------------------------------
\* Types are kept because the lock is held whenever the performer is somewhere, and
\* a transaction is there to be recorded.
LEMMA Typing == Spec => [](TypeOK /\ Held)
<1>1. Init => TypeOK /\ Held
  <2> SUFFICES ASSUME Init PROVE TypeOK /\ Held
    OBVIOUS
  <2>1. isFlushing \in BOOLEAN
    BY DEF Init
  <2>2. txQueue \in Seq(Edits) /\ batch \in Seq(Txs)
    BY DEF Init
  <2>3. /\ DOMAIN trees \subseteq Docs /\ \A d \in DOMAIN trees : trees[d] \subseteq Updates
        /\ written \subseteq DOMAIN trees
    BY DEF Init, NoTrees
  <2>4. /\ stamp \in [Edits -> Stamps \cup {0}] /\ changes \in [Updates -> SUBSET Docs]
        /\ lock \in {"none", "flusher"} \cup Replays
        /\ stage \in {"idle", "locked", "flagged", "perform", "record", "unlock"}
        /\ state \in [Txs -> 0..3]
        /\ disk \in [Docs -> SUBSET Updates] /\ undoLog \subseteq Edits
        /\ pc \in [Updates -> {"new", "size", "flag", "through", "loaded", "performing",
                               "answered"}]
        /\ copy \in [Writers -> SUBSET Updates]
        /\ torn \subseteq Txs /\ lost \subseteq Updates \X Docs
    BY DEF Init
  <2>5. QED
    BY <2>1, <2>2, <2>3, <2>4 DEF TypeOK, Held, Init
<1>2. TypeOK /\ Held /\ [Next]_vars => (TypeOK /\ Held)'
  <2> SUFFICES ASSUME TypeOK, Held, [Next]_vars PROVE (TypeOK /\ Held)'
    OBVIOUS
  <2> USE DocSetsAssumption, StampsAssumption, UpdatesAssumption DEF TypeOK, Held, Txs, Updates
  <2>1. CASE Tick
    BY <2>1 DEF Tick, Lock, requests, performer, transaction
  <2>2. CASE SetFlushing
    BY <2>2 DEF SetFlushing, requests, performer, transaction
  <2>3. CASE TakeQueuedTransactions
    <3>1. ASSUME NEW q \in Seq(Edits) PROVE q \in Seq(Edits \cup Replays)
      OBVIOUS
    <3>2. lock # "none" /\ (lock # "flusher" => lock \in Replays)
      BY <2>3 DEF TakeQueuedTransactions
    <3>3. CASE lock = "flusher"
      <4>1. batch' = txQueue /\ txQueue' = <<>>
        BY <2>3, <3>3 DEF TakeQueuedTransactions
      <4>2. batch' \in Seq(Edits \cup Replays) /\ txQueue' \in Seq(Edits)
        BY <3>1, <4>1
      <4>3. QED
        BY <2>3, <4>2 DEF TakeQueuedTransactions, requests, performer, transaction
    <3>4. CASE lock \in Replays
      <4>1. batch' = <<lock>> /\ txQueue' = txQueue
        BY <2>3, <3>4 DEF TakeQueuedTransactions
      <4>2. batch' \in Seq(Edits \cup Replays)
        BY <3>4, <4>1
      <4>3. QED
        BY <2>3, <4>1, <4>2 DEF TakeQueuedTransactions, requests, performer, transaction
    <3>5. QED
      BY <3>2, <3>3, <3>4
  <2>4. CASE Refuse
    BY <2>4, TailRange DEF Refuse, Performing, Current, requests, performer, transaction
  <2>5. CASE Begin
    BY <2>5, TailRange DEF Begin, Performing, Current, requests, performer, transaction
  <2>6. CASE DoOperation
    BY <2>6, TailRange DEF DoOperation, Executing, Performing, ToLoad, Current, requests, performer, transaction
  <2>7. CASE OperationFails
    BY <2>7, TailRange DEF OperationFails, Executing, Performing, Rollback, Current, NoTrees, requests, performer, transaction
  <2>8. CASE CommitWrite
    BY <2>8, TailRange DEF CommitWrite, Executing, Performing, ToLoad, Current, requests, performer, transaction
  <2>9. CASE CommitFails
    BY <2>9, TailRange DEF CommitFails, Executing, Performing, Rollback, Current, NoTrees, requests, performer, transaction
  <2>10. CASE CommitDone
    BY <2>10, TailRange DEF CommitDone, Executing, Performing, Current, requests, performer, transaction
  <2>11. CASE Record
    BY <2>11, TailRange DEF Record, Current, NoTrees, requests, performer, transaction
  <2>12. CASE ClearFlushing
    BY <2>12 DEF ClearFlushing, requests, performer, transaction
  <2>13. CASE Unlock
    BY <2>13 DEF Unlock, requests, performer, transaction
  <2>14. ASSUME NEW t \in Edits, PerformTransactions(t) PROVE (TypeOK /\ Held)'
    BY <2>14, Appending DEF PerformTransactions, Go, requests, performer, transaction
  <2>15. ASSUME NEW t \in Edits, WaitForCommit(t) PROVE (TypeOK /\ Held)'
    BY <2>15 DEF WaitForCommit, Go, requests, performer, transaction
  <2>16. ASSUME NEW w \in Writers, ChangeDirectly(w) PROVE (TypeOK /\ Held)'
    BY <2>16 DEF ChangeDirectly, Go, requests, performer, transaction
  <2>17. ASSUME NEW w \in Writers, LoadTree(w) PROVE (TypeOK /\ Held)'
    BY <2>17 DEF LoadTree, Go, requests, performer, transaction
  <2>18. ASSUME NEW w \in Writers, WriteTree(w) PROVE (TypeOK /\ Held)'
    BY <2>18 DEF WriteTree, Go, requests, performer, transaction
  <2>19. ASSUME NEW u \in Edits \cup Writers, ReadSize(u) PROVE (TypeOK /\ Held)'
    BY <2>19 DEF ReadSize, Go, requests, performer, transaction
  <2>20. ASSUME NEW u \in Edits \cup Writers, ReadFlag(u) PROVE (TypeOK /\ Held)'
    BY <2>20 DEF ReadFlag, Go, requests, performer, transaction
  <2>21. ASSUME NEW r \in Replays, PerformTxSync(r) PROVE (TypeOK /\ Held)'
    BY <2>21 DEF PerformTxSync, Go, Lock, requests, performer, transaction
  <2>22. CASE UNCHANGED vars
    BY <2>22 DEF vars, requests, performer, transaction
  <2>23. QED
    BY <2>1, <2>2, <2>3, <2>4, <2>5, <2>6, <2>7, <2>8, <2>9, <2>10, <2>11, <2>12, <2>13, <2>14, <2>15, <2>16, <2>17, <2>18, <2>19, <2>20, <2>21, <2>22 DEF Next, Perform, Advance, Answer, Change
<1>3. QED
  BY <1>1, <1>2, PTL DEF Spec

\* Types: no step of the queue, the performer or a request leaves them.
THEOREM TypeCorrect == Spec => []TypeOK
  BY Typing, PTL
-----------------------------------------------------------------------------
\* What a request that got through FlushTxQueue may rely on holds initially and is
\* kept by every step of performTransactions, the waiting and the performer.
LEMMA Waiting == Spec => []WaitInv
<1>1. Init => WaitInv
  <2> SUFFICES ASSUME Init PROVE WaitInv
    OBVIOUS
  <2>1. FlagCoversBatch
    BY DEF Init, FlagCoversBatch
  <2>2. Placed /\ Recorded /\ Settled
    BY DEF Init, Placed, Recorded, Settled, Range, Txs, Updates
  <2>3. QED
    BY <2>1, <2>2 DEF WaitInv
<1>2. TypeOK /\ Held /\ WaitInv /\ [Next]_vars => WaitInv'
  <2> SUFFICES ASSUME TypeOK, Held, WaitInv, [Next]_vars PROVE WaitInv'
    OBVIOUS
  <2> USE UpdatesAssumption
      DEF TypeOK, Held, WaitInv, FlagCoversBatch, Placed, Recorded, Settled, Txs, Updates
  <2>a. ASSUME batch # <<>>
        PROVE  /\ Tail(batch) \in Seq(Txs) /\ Head(batch) \in Range(batch)
               /\ Head(batch) \in Txs /\ Range(Tail(batch)) \subseteq Range(batch)
    BY <2>a, TailRange
  <2>b. Range(<<>>) = {} /\ \A x : Range(<<x>>) = {x}
    BY DEF Range
  <2>1. CASE Tick
    BY <2>1 DEF Tick, Lock, requests, performer, transaction
  <2>2. CASE SetFlushing
    BY <2>2 DEF SetFlushing, requests, performer, transaction
  <2>3. CASE TakeQueuedTransactions
    BY <2>3, <2>b DEF TakeQueuedTransactions, Current, requests, performer, transaction
  <2>4. CASE Refuse
    BY <2>4, <2>a DEF Refuse, Performing, Current, requests, performer, transaction
  <2>5. CASE Begin
    BY <2>5, <2>a DEF Begin, Performing, Current, requests, performer, transaction
  <2>6. CASE DoOperation
    BY <2>6 DEF DoOperation, Executing, Performing, requests, performer, transaction
  <2>7. CASE OperationFails
    BY <2>7, <2>a DEF OperationFails, Executing, Performing, Rollback, Current, requests, performer, transaction
  <2>8. CASE CommitWrite
    BY <2>8 DEF CommitWrite, Executing, Performing, requests, performer, transaction
  <2>9. CASE CommitFails
    BY <2>9, <2>a DEF CommitFails, Executing, Performing, Rollback, Current, requests, performer, transaction
  <2>10. CASE CommitDone
    BY <2>10, <2>a DEF CommitDone, Executing, Performing, Current, requests, performer, transaction
  <2>11. CASE Record
    BY <2>11, <2>a DEF Record, Current, requests, performer, transaction
  <2>12. CASE ClearFlushing
    BY <2>12 DEF ClearFlushing, requests, performer, transaction
  <2>13. CASE Unlock
    BY <2>13 DEF Unlock, requests, performer, transaction
  <2>14. ASSUME NEW t \in Edits, PerformTransactions(t) PROVE WaitInv'
    BY <2>14, Appending DEF PerformTransactions, Go, performer, transaction, Current
  <2>15. ASSUME NEW t \in Edits, WaitForCommit(t) PROVE WaitInv'
    BY <2>15 DEF WaitForCommit, Go, performer, transaction, Current
  <2>16. ASSUME NEW w \in Writers, ChangeDirectly(w) PROVE WaitInv'
    BY <2>16 DEF ChangeDirectly, Go, performer, transaction, Current
  <2>17. ASSUME NEW w \in Writers, LoadTree(w) PROVE WaitInv'
    BY <2>17 DEF LoadTree, Go, performer, transaction, Current
  <2>18. ASSUME NEW w \in Writers, WriteTree(w) PROVE WaitInv'
    BY <2>18 DEF WriteTree, Go, performer, transaction, Current
  <2>19. ASSUME NEW u \in Edits \cup Writers, ReadSize(u) PROVE WaitInv'
    BY <2>19, <2>b DEF ReadSize, Go, performer, transaction, Current
  <2>20. ASSUME NEW u \in Edits \cup Writers, ReadFlag(u) PROVE WaitInv'
    <3>1. /\ \A t \in Edits : pc'[t] = IF t # u THEN pc[t]
                                  ELSE IF isFlushing THEN "size" ELSE "through"
          /\ pc[u] = "flag"
      BY <2>20 DEF ReadFlag, Go
    <3>2. UNCHANGED <<txQueue, isFlushing, stage, batch, state, undoLog, Current>>
      BY <2>20 DEF ReadFlag, performer, transaction, Current
    <3>3. ~isFlushing => \A t \in Edits : t \notin Range(batch) /\ (state[t] = 2 => t \in undoLog)
      BY <2>b
    <3>4. FlagCoversBatch' /\ Recorded'
      BY <3>2
    <3>5. Placed' /\ Settled'
      BY <3>1, <3>2, <3>3
    <3>6. QED
      BY <3>4, <3>5
  <2>21. ASSUME NEW r \in Replays, PerformTxSync(r) PROVE WaitInv'
    <3>1. \A t \in Edits : pc'[t] = pc[t]
      BY <2>21 DEF PerformTxSync, Go
    <3>2. /\ lock' = r /\ stage' = "locked" /\ stage = "idle"
          /\ UNCHANGED <<txQueue, isFlushing, batch, state, undoLog>>
      BY <2>21 DEF PerformTxSync, Lock, transaction
    <3>3. QED
      BY <3>1, <3>2 DEF Current
  <2>22. CASE UNCHANGED vars
    BY <2>22 DEF vars, requests, performer, transaction, Current
  <2>23. QED
    BY <2>1, <2>2, <2>3, <2>4, <2>5, <2>6, <2>7, <2>8, <2>9, <2>10, <2>11, <2>12, <2>13, <2>14, <2>15, <2>16, <2>17, <2>18, <2>19, <2>20, <2>21, <2>22 DEF Next, Perform, Advance, Answer, Change
<1>3. QED
  BY <1>1, <1>2, Typing, PTL DEF Spec

\* A request that is answered finds its transaction dealt with and, if committed,
\* in the undo log, however FlushTxQueue's looks fall among the performer's steps.
THEOREM AnsweredSettled == Spec => []AnsweredIsSettled
<1>1. WaitInv => AnsweredIsSettled
  BY DEF WaitInv, Placed, Settled, AnsweredIsSettled
<1>2. QED
  BY <1>1, Waiting, PTL
-----------------------------------------------------------------------------
\* What may be in a document: what was committed, what was torn, and of the current
\* transaction what it has written.
MayBeStored(t) ==
    \/ state[t] = 2
    \/ t \in torn
    \/ Executing /\ t = Current /\ written # {}

\* One transaction is open, the current one; another begins with no trees.
OneOpen ==
    /\ \A t \in Txs : state[t] = 1 => Executing /\ t = Current
    /\ stage = "record" => state[Current] = 2
    /\ Executing \/ stage = "record" \/ DOMAIN trees = {}

\* Trees are written when all are loaded, and what they are to be is settled.
LoadedFirst ==
    /\ written # {} /\ batch # <<>> => ToLoad = {}
    /\ lock \in Replays => pc[lock] # "new"
    /\ \A r \in Replays : r \in Range(batch) => pc[r] # "new"

\* The documents, and the trees and copies they are written from.
StoredRightly ==
    /\ \A t \in Txs, d \in Docs : t \in disk[d] => MayBeStored(t)
    /\ \A t \in Txs, w \in Writers : t \in copy[w] => MayBeStored(t)
    /\ \A t \in Txs, d \in DOMAIN trees : t \in trees[d] => MayBeStored(t) \/ t = Current

\* A torn transaction was rolled back, a recorded one committed.
Ended ==
    /\ \A t \in torn : state[t] = 3
    /\ \A t \in undoLog : state[t] = 2

HalfInv == OneOpen /\ LoadedFirst /\ StoredRightly /\ Ended

\* The current transaction is in the batch, and when it ends the batch is shorter.
LEMMA CurrentEnds ==
    ASSUME TypeOK, batch # <<>>
    PROVE  /\ Current \in Txs /\ Current \in Range(batch)
           /\ Tail(batch) \in Seq(Txs) /\ Range(Tail(batch)) \subseteq Range(batch)
  BY TailRange DEF TypeOK, Current

\* What may be stored stays so while no transaction ends.
LEMMA StaysStored ==
    ASSUME UNCHANGED <<state, torn, batch, stage>>, written \subseteq written', NEW t, MayBeStored(t)
    PROVE  MayBeStored(t)'
  BY DEF MayBeStored, Executing, Performing, Current

\* A step that leaves the transaction and the documents alone keeps the halves out.
LEMMA HalfAside ==
    ASSUME HalfInv, UNCHANGED <<state, trees, written, torn, batch, stage, undoLog>>,
           disk' = disk, copy' = copy, LoadedFirst'
    PROVE  HalfInv'
  BY DEF HalfInv, OneOpen, StoredRightly, Ended, MayBeStored, Executing, Performing, Current

\* A transaction that begins, or is refused, was not open before.
LEMMA HalfBegin == ASSUME TypeOK, HalfInv, Begin \/ Refuse PROVE HalfInv'
<1> batch # <<>> /\ stage = "perform" /\ state[Current] = 0
  BY DEF Begin, Refuse, Performing
<1> USE DEF HalfInv
<1>1. ~Executing /\ DOMAIN trees = {} /\ written = {}
  BY DEF Executing, OneOpen, TypeOK
<1>2. \A t \in Txs : MayBeStored(t) => state[t] = 2 \/ t \in torn
  BY <1>1 DEF MayBeStored
<1>3. ASSUME Begin PROVE HalfInv'
  <2>1. /\ state' = [state EXCEPT ![Current] = 1] /\ Current \in Txs /\ Current' = Current
        /\ UNCHANGED <<requests, performer, trees, written, torn, disk, copy, undoLog>>
    BY <1>3, CurrentEnds DEF Begin, performer, Current
  <2>2. OneOpen'
    BY <1>1, <2>1 DEF OneOpen, Executing, Performing, performer, TypeOK
  <2>3. LoadedFirst'
    BY <1>1, <2>1 DEF LoadedFirst, requests, performer
  <2>4. StoredRightly' /\ Ended'
    BY <1>1, <1>2, <2>1 DEF StoredRightly, Ended, MayBeStored, TypeOK, Txs
  <2>5. QED
    BY <2>2, <2>3, <2>4
<1>4. ASSUME Refuse PROVE HalfInv'
  <2>1. /\ batch' = Tail(batch) /\ Range(batch') \subseteq Range(batch)
        /\ UNCHANGED <<requests, lock, stage, state, trees, written, torn, disk, copy, undoLog>>
    BY <1>4, CurrentEnds DEF Refuse, transaction
  <2>2. OneOpen'
    BY <1>1, <2>1 DEF OneOpen
  <2>3. LoadedFirst'
    BY <1>1, <2>1 DEF LoadedFirst, requests
  <2>4. StoredRightly' /\ Ended'
    BY <1>1, <1>2, <2>1 DEF StoredRightly, Ended, MayBeStored
  <2>5. QED
    BY <2>2, <2>3, <2>4
<1>5. QED
  BY <1>3, <1>4

\* A transaction that ends leaves what it has written only if it is committed or torn.
LEMMA HalfEnds ==
    ASSUME TypeOK, HalfInv, OperationFails \/ CommitFails PROVE HalfInv'
<1> USE DEF HalfInv
<1>1. /\ batch # <<>> /\ stage = "perform" /\ state[Current] = 1 /\ Current \in Txs
      /\ Range(Tail(batch)) \subseteq Range(batch)
  BY CurrentEnds DEF OperationFails, CommitFails, Executing, Performing
<1>2. /\ state' = [state EXCEPT ![Current] = 3] /\ batch' = Tail(batch)
      /\ trees' = NoTrees /\ written' = {}
      /\ UNCHANGED <<requests, lock, stage, disk, copy, undoLog>>
  BY DEF OperationFails, CommitFails, Rollback
<1>3. torn \subseteq torn' /\ torn' \subseteq torn \cup {Current}
      /\ (written # {} => Current \in torn')
  BY <1>1 DEF OperationFails, CommitFails, LoadedFirst
<1>4. DOMAIN trees' = {}
  BY <1>2 DEF NoTrees
<1>5. \A t \in Txs : MayBeStored(t) => MayBeStored(t)'
  BY <1>1, <1>2, <1>3 DEF MayBeStored, TypeOK
<1>6. OneOpen'
  BY <1>1, <1>2, <1>4 DEF OneOpen, TypeOK, Executing, Performing
<1>7. LoadedFirst'
  BY <1>1, <1>2 DEF LoadedFirst, requests
<1>8. StoredRightly'
  BY <1>2, <1>4, <1>5 DEF StoredRightly
<1>9. Ended'
  BY <1>1, <1>2, <1>3 DEF Ended, TypeOK, Txs
<1>10. QED
  BY <1>6, <1>7, <1>8, <1>9

\* The trees of a transaction hold what the documents held, and its own update.
LEMMA HalfExecutes ==
    ASSUME TypeOK, HalfInv, DoOperation \/ CommitWrite \/ CommitDone PROVE HalfInv'
<1> USE DEF HalfInv
<1>1. /\ batch # <<>> /\ stage = "perform" /\ state[Current] = 1 /\ Current \in Txs
      /\ Current' = Current /\ Executing
      /\ UNCHANGED <<requests, lock, batch, copy, undoLog, torn>>
  BY CurrentEnds DEF DoOperation, CommitWrite, CommitDone, Executing, Performing, performer, Current
<1>2. ASSUME DoOperation PROVE HalfInv'
  <2>1. PICK d \in ToLoad : trees' = [e \in DOMAIN trees \cup {d} |->
                                   IF e = d THEN disk[d] \cup {Current} ELSE trees[e]]
    BY <1>2 DEF DoOperation
  <2>2. /\ UNCHANGED <<state, written, disk, stage>> /\ written = {} /\ Executing'
        /\ d \in Docs
    BY <1>1, <1>2, <2>1 DEF DoOperation, LoadedFirst, Executing, Performing, performer,
                            ToLoad, TypeOK, Txs, Updates
  <2>3. \A t \in Txs : MayBeStored(t)' <=> MayBeStored(t)
    BY <1>1, <2>2 DEF MayBeStored
  <2>4. OneOpen' /\ LoadedFirst' /\ Ended'
    BY <1>1, <2>2 DEF OneOpen, LoadedFirst, Ended, requests
  <2>5. StoredRightly'
    BY <1>1, <2>1, <2>2, <2>3 DEF StoredRightly
  <2>6. QED
    BY <2>4, <2>5
<1>3. ASSUME CommitWrite PROVE HalfInv'
  <2>1. PICK d \in DOMAIN trees \ written :
            disk' = [disk EXCEPT ![d] = trees[d]] /\ written' = written \cup {d}
    BY <1>3 DEF CommitWrite
  <2>2. /\ UNCHANGED <<state, trees, stage>> /\ ToLoad = {} /\ Executing' /\ ToLoad' = {}
        /\ d \in Docs
    BY <1>1, <1>3, <2>1 DEF CommitWrite, Executing, Performing, performer, ToLoad, TypeOK, requests
  <2>3. /\ \A t \in Txs : MayBeStored(t) => MayBeStored(t)'
        /\ MayBeStored(Current)'
    BY <1>1, <2>1, <2>2 DEF MayBeStored
  <2>4. OneOpen' /\ LoadedFirst' /\ Ended'
    BY <1>1, <2>2 DEF OneOpen, LoadedFirst, Ended, requests
  <2>5. StoredRightly'
    BY <1>1, <2>1, <2>2, <2>3 DEF StoredRightly, TypeOK
  <2>6. QED
    BY <2>4, <2>5
<1>4. ASSUME CommitDone PROVE HalfInv'
  <2>1. /\ state' = [state EXCEPT ![Current] = 2] /\ stage' = "record"
        /\ UNCHANGED <<trees, written, disk>> /\ ToLoad = {} /\ ToLoad' = ToLoad
    BY <1>1, <1>4 DEF CommitDone, ToLoad, requests
  <2>2. \A t \in Txs : MayBeStored(t) => MayBeStored(t)'
    BY <1>1, <2>1 DEF MayBeStored, TypeOK
  <2>3. OneOpen'
    BY <1>1, <2>1 DEF OneOpen, TypeOK
  <2>4. LoadedFirst'
    BY <1>1, <2>1 DEF LoadedFirst, requests
  <2>5. StoredRightly'
    BY <1>1, <2>1, <2>2 DEF StoredRightly
  <2>6. Ended'
    BY <1>1, <2>1 DEF Ended, TypeOK, Txs
  <2>7. QED
    BY <2>3, <2>4, <2>5, <2>6
<1>5. QED
  BY <1>2, <1>3, <1>4

\* A committed transaction is recorded, and its trees are gone.
LEMMA HalfRecord == ASSUME TypeOK, Held, HalfInv, Record PROVE HalfInv'
<1> USE DEF HalfInv
<1>1. /\ stage = "record" /\ batch # <<>> /\ state[Current] = 2 /\ Current \in Txs
      /\ Range(Tail(batch)) \subseteq Range(batch)
  BY CurrentEnds DEF Record, Held, OneOpen
<1>2. /\ stage' = "perform" /\ batch' = Tail(batch) /\ trees' = NoTrees /\ written' = {}
      /\ undoLog' \subseteq undoLog \cup {Current}
      /\ UNCHANGED <<requests, lock, state, disk, copy, torn>>
  BY DEF Record
<1>3. DOMAIN trees' = {} /\ ~Executing
  BY <1>1, <1>2 DEF NoTrees, Executing, Performing
<1>4. \A t \in Txs : MayBeStored(t) => MayBeStored(t)'
  BY <1>2, <1>3 DEF MayBeStored
<1>5. OneOpen'
  BY <1>2, <1>3 DEF OneOpen
<1>6. LoadedFirst'
  BY <1>1, <1>2 DEF LoadedFirst, requests
<1>7. StoredRightly' /\ Ended'
  BY <1>1, <1>2, <1>3, <1>4 DEF StoredRightly, Ended
<1>8. QED
  BY <1>5, <1>6, <1>7

\* The queue or a replay becomes the batch: none is open.
LEMMA HalfTakes ==
    ASSUME TypeOK, Held, HalfInv, TakeQueuedTransactions PROVE HalfInv'
<1> USE DEF HalfInv
<1>1. /\ stage = "flagged" /\ stage' = "perform" /\ lock # "none"
      /\ UNCHANGED <<requests, lock, state, trees, written, disk, copy, torn, undoLog>>
  BY DEF TakeQueuedTransactions, transaction, Held
<1>2. ~Executing /\ DOMAIN trees = {} /\ written = {} /\ \A t \in Txs : state[t] # 1
  BY <1>1 DEF Executing, Performing, OneOpen, TypeOK
<1>3. \A r \in Replays : r \in Range(batch') => r = lock
  BY <1>1, UpdatesAssumption DEF TakeQueuedTransactions, TypeOK, Range
<1>4. \A t \in Txs : MayBeStored(t) => MayBeStored(t)'
  BY <1>1, <1>2 DEF MayBeStored
<1>5. OneOpen' /\ LoadedFirst'
  BY <1>1, <1>2, <1>3 DEF OneOpen, LoadedFirst, requests
<1>6. StoredRightly' /\ Ended'
  BY <1>1, <1>2, <1>4 DEF StoredRightly, Ended
<1>7. QED
  BY <1>5, <1>6

\* The flag, the lock and its release: the batch is empty or nothing of it is open.
LEMMA HalfLocks ==
    ASSUME TypeOK, Held, HalfInv, FlagCoversBatch,
           Tick \/ SetFlushing \/ ClearFlushing \/ Unlock
           \/ \E r \in Replays : PerformTxSync(r)
    PROVE  HalfInv'
<1> USE DEF HalfInv
<1>1. /\ stage \in {"idle", "locked", "unlock"} \/ (stage = "perform" /\ batch = <<>>)
      /\ stage' \in {"idle", "locked", "flagged", "unlock"}
      /\ UNCHANGED <<batch, state, trees, written, disk, copy, torn, undoLog>>
  BY DEF Tick, SetFlushing, ClearFlushing, Unlock, PerformTxSync, Lock, transaction, Held
<1>2. batch = <<>> /\ ~Executing /\ ~Executing' /\ DOMAIN trees = {}
      /\ \A t \in Txs : state[t] # 1
  BY <1>1 DEF Executing, Performing, OneOpen, FlagCoversBatch
<1>3. lock' \in Replays => pc'[lock'] # "new"
  BY UpdatesAssumption DEF Tick, SetFlushing, ClearFlushing, Unlock, PerformTxSync, Lock, Go,
                           LoadedFirst, TypeOK, Txs, Updates, requests
<1>4. OneOpen' /\ Ended' /\ StoredRightly'
  BY <1>1, <1>2 DEF OneOpen, Ended, StoredRightly, MayBeStored
<1>5. LoadedFirst'
  BY <1>1, <1>2, <1>3 DEF LoadedFirst, Range
<1>6. QED
  BY <1>4, <1>5

\* A request goes on: what it is to change is settled before it is performed.
LEMMA HalfRequests ==
    ASSUME TypeOK, HalfInv, Placed, NEW u \in Edits \cup Writers,
           \/ u \in Edits /\ (PerformTransactions(u) \/ WaitForCommit(u))
           \/ u \in Writers /\ ChangeDirectly(u)
           \/ ReadSize(u) \/ ReadFlag(u)
    PROVE  HalfInv'
<1>1. /\ UNCHANGED <<lock, batch, stage, state, trees, written, disk, copy, torn, undoLog>>
      /\ \A r \in Replays : pc'[r] = pc[r]
      /\ changes' = changes \/ (pc[u] = "new" /\ \E docs : changes' = [changes EXCEPT ![u] = docs])
  BY UpdatesAssumption DEF PerformTransactions, WaitForCommit, ChangeDirectly, ReadSize, ReadFlag,
         Go, performer, transaction, TypeOK, Txs, Updates
<1>2. batch # <<>> => changes'[Current] = changes[Current]
  BY <1>1, CurrentEnds, UpdatesAssumption DEF Placed, TypeOK, Txs, Updates
<1>3. LoadedFirst'
  BY <1>1, <1>2 DEF HalfInv, LoadedFirst, ToLoad, Current
<1>4. QED
  BY <1>1, <1>3, HalfAside

\* A direct change copies and writes what may be stored.
LEMMA HalfWriters ==
    ASSUME TypeOK, HalfInv, NEW w \in Writers, LoadTree(w) \/ WriteTree(w)
    PROVE  HalfInv'
<1> USE DEF HalfInv
<1>1. /\ UNCHANGED <<lock, changes, batch, stage, state, trees, written, torn, undoLog>>
      /\ \A r \in Replays : pc'[r] = pc[r]
  BY UpdatesAssumption DEF LoadTree, WriteTree, Go, performer, transaction, TypeOK, Txs, Updates
<1>2. OneOpen' /\ LoadedFirst' /\ Ended' /\ \A t : MayBeStored(t)' <=> MayBeStored(t)
  BY <1>1 DEF OneOpen, LoadedFirst, Ended, MayBeStored, Executing, Performing, ToLoad, Current
<1>3. StoredRightly'
  <2>1. ASSUME LoadTree(w) PROVE StoredRightly'
    <3>1. PICK d \in Docs : copy' = [copy EXCEPT ![w] = disk[d]] /\ disk' = disk
      BY <2>1 DEF LoadTree, TypeOK, Updates
    <3>2. QED
      BY <1>1, <1>2, <3>1 DEF StoredRightly, TypeOK, Current
  <2>2. ASSUME WriteTree(w) PROVE StoredRightly'
    <3>1. PICK d \in Docs : disk' = [disk EXCEPT ![d] = copy[w] \cup {w}] /\ copy' = copy
      BY <2>2 DEF WriteTree, TypeOK, Updates
    <3>2. w \notin Txs
      BY UpdatesAssumption DEF Txs
    <3>3. QED
      BY <1>1, <1>2, <3>1, <3>2 DEF StoredRightly, TypeOK, Current
  <2>3. QED
    BY <2>1, <2>2
<1>4. QED
  BY <1>2, <1>3

\* No step stores half a transaction but a commit that fails.
LEMMA Halves == Spec => []HalfInv
<1>1. Init => HalfInv
  BY UpdatesAssumption DEF Init, HalfInv, OneOpen, LoadedFirst, StoredRightly, Ended, NoTrees, Range, Txs, Updates
<1>2. TypeOK /\ Held /\ WaitInv /\ HalfInv /\ [Next]_vars => HalfInv'
  <2> SUFFICES ASSUME TypeOK, Held, WaitInv, HalfInv, [Next]_vars PROVE HalfInv'
    OBVIOUS
  <2> USE DEF WaitInv
  <2>1. CASE Perform
    BY <2>1, HalfBegin, HalfEnds, HalfExecutes, HalfRecord, HalfTakes, HalfLocks DEF Perform
  <2>2. CASE Tick \/ \E r \in Replays : PerformTxSync(r)
    BY <2>2, HalfLocks
  <2>3. CASE \/ \E t \in Edits : PerformTransactions(t) \/ Answer(t)
             \/ \E w \in Writers : ChangeDirectly(w)
             \/ \E u \in Edits \cup Writers : Advance(u)
    BY <2>3, HalfRequests DEF Answer, Advance
  <2>4. CASE \E w \in Writers : Change(w)
    BY <2>4, HalfWriters DEF Change
  <2>5. CASE UNCHANGED vars
    BY <2>5, HalfAside DEF vars, requests, performer, transaction, HalfInv, LoadedFirst, ToLoad, Current
  <2>6. QED
    BY <2>1, <2>2, <2>3, <2>4, <2>5 DEF Next
<1>3. QED
  BY <1>1, <1>2, Typing, Waiting, PTL DEF Spec

\* What was refused or rolled back is in no document, unless its own commit failed after a
\* write, and never in the undo log; however direct changes copy what is half written.
THEOREM NoHalfStored == Spec => []OnlyCommittedOrTorn
<1>1. HalfInv => OnlyCommittedOrTorn
  BY DEF HalfInv, StoredRightly, Ended, MayBeStored, OnlyCommittedOrTorn
<1>2. QED
  BY <1>1, Halves, PTL
-----------------------------------------------------------------------------
\* An update is in a document, or a stale tree took it away.
Kept(u, d) == u \in disk[d] \/ <<u, d>> \in lost

\* The current transaction's trees hold what other transactions have committed to these
\* documents, and what it has written has been kept.
TreesFollow ==
    /\ \A d \in DOMAIN trees :
          /\ Current \in trees[d]
          /\ \A u \in Txs : state[u] = 2 /\ u # Current /\ d \in changes[u] =>
                u \in trees[d] \/ <<u, d>> \in lost
    /\ \A d \in written : Kept(Current, d)

\* What an update changes is settled before it begins.
MadeOnce ==
    /\ \A t \in Txs : state[t] # 0 => pc[t] # "new"
    /\ \A w \in Writers : pc[w] # "new" => \E d \in Docs : changes[w] = {d}

KeepInv == UpdatesSurvive /\ TreesFollow /\ MadeOnce

\* Nothing is open, so that there are no trees.
LEMMA NoneOpen ==
    ASSUME TypeOK, HalfInv, stage \notin {"perform", "record"} \/ batch = <<>> \/ state[Current] = 0,
           stage = "record" => batch # <<>>
    PROVE  DOMAIN trees = {} /\ written = {}
  BY DEF HalfInv, OneOpen, Executing, Performing, TypeOK

\* Without trees, a step that takes nothing from a document or a list of losses, and
\* commits nothing, keeps what was committed.
LEMMA KeepWithoutTrees ==
    ASSUME TypeOK, KeepInv, DOMAIN trees' = {}, written' = {}, disk' = disk, lost' = lost,
           \A t \in Txs : state'[t] # state[t] => state[t] # 2 /\ state'[t] # 2,
           \A u \in Updates : state'[u] # 0 /\ u \in Txs => pc'[u] # "new",
           \A u \in Updates : changes'[u] # changes[u] => pc[u] = "new",
           \A w \in Writers : pc'[w] = "answered" => pc[w] = "answered",
           \A w \in Writers : pc'[w] # "new" => \E d \in Docs : changes'[w] = {d}
    PROVE  KeepInv'
<1>1. MadeOnce'
  BY DEF MadeOnce, Txs, Updates
<1>2. TreesFollow'
  BY DEF TreesFollow
<1>3. UpdatesSurvive'
  <2> SUFFICES ASSUME NEW u \in Updates, u \in Txs => state'[u] = 2,
                      u \in Writers => pc'[u] = "answered", NEW d \in changes'[u]
               PROVE  u \in disk'[d] \/ <<u, d>> \in lost'
    BY DEF UpdatesSurvive
  <2>1. u \in Txs => state[u] = 2 /\ pc[u] # "new"
    BY DEF KeepInv, MadeOnce
  <2>2. u \in Writers => pc[u] = "answered"
    OBVIOUS
  <2>3. changes'[u] = changes[u]
    BY <2>1, <2>2 DEF Updates
  <2>4. QED
    BY <2>1, <2>2, <2>3, UpdatesAssumption DEF KeepInv, UpdatesSurvive, Txs
<1>4. QED
  BY <1>1, <1>2, <1>3 DEF KeepInv

\* The flag, the lock, the taking of the queue, a transaction that begins, is refused or
\* rolled back, and one that is recorded.
LEMMA KeepPerformer ==
    ASSUME TypeOK, Held, WaitInv, HalfInv, KeepInv,
           \/ Tick \/ SetFlushing \/ TakeQueuedTransactions \/ ClearFlushing \/ Unlock
           \/ Begin \/ Refuse \/ OperationFails \/ CommitFails \/ Record
           \/ \E r \in Replays : PerformTxSync(r)
    PROVE  KeepInv'
<1> DEFINE Calm == /\ disk' = disk /\ lost' = lost
                   /\ \A t \in Txs : state'[t] # state[t] => state[t] # 2 /\ state'[t] # 2
                   /\ \A u \in Updates : state'[u] # 0 /\ u \in Txs => pc'[u] # "new"
                   /\ \A u \in Updates : changes'[u] # changes[u] => pc[u] = "new"
                   /\ \A w \in Writers : pc'[w] = pc[w] /\ changes'[w] = changes[w]
           Bare == DOMAIN trees' = {} /\ written' = {}
<1>1. ASSUME Tick \/ SetFlushing \/ TakeQueuedTransactions \/ ClearFlushing \/ Refuse PROVE Calm /\ Bare
  <2>1. UNCHANGED <<requests, state, disk, lost, trees, written>>
    BY <1>1 DEF Tick, Lock, SetFlushing, TakeQueuedTransactions, ClearFlushing, Refuse, requests, transaction
  <2>2. DOMAIN trees = {} /\ written = {}
    BY <1>1, NoneOpen DEF Tick, Lock, SetFlushing, TakeQueuedTransactions, ClearFlushing, Refuse, Performing, Held
  <2>3. QED
    BY <2>1, <2>2 DEF KeepInv, MadeOnce, requests
<1>2. ASSUME Unlock PROVE Calm /\ Bare
  <2>1. /\ UNCHANGED <<changes, state, disk, lost, trees, written>> /\ stage = "unlock"
        /\ pc' = [u \in Updates |-> IF u = lock THEN "answered" ELSE pc[u]]
    BY <1>2 DEF Unlock, transaction
  <2>2. \A w \in Writers : pc'[w] = pc[w]
    BY <2>1, UpdatesAssumption DEF TypeOK, Updates
  <2>3. DOMAIN trees = {} /\ written = {}
    BY <2>1, NoneOpen
  <2>4. QED
    BY <2>1, <2>2, <2>3 DEF KeepInv, MadeOnce
<1>3. ASSUME NEW r \in Replays, PerformTxSync(r) PROVE Calm /\ Bare
  <2>1. /\ UNCHANGED <<state, disk, lost, trees, written>> /\ stage = "idle" /\ pc[r] = "new"
        /\ pc' = [pc EXCEPT ![r] = "performing"]
        /\ \E docs : changes' = [changes EXCEPT ![r] = docs]
    BY <1>3 DEF PerformTxSync, Lock, Go, transaction, Held
  <2>2. DOMAIN trees = {} /\ written = {}
    BY <2>1, NoneOpen
  <2>3. r \in Updates /\ \A w \in Writers : w # r
    BY UpdatesAssumption DEF Updates, Txs
  <2>4. QED
    BY <2>1, <2>2, <2>3 DEF KeepInv, MadeOnce, TypeOK
<1>4. ASSUME Begin PROVE Calm /\ Bare
  <2>1. /\ batch # <<>> /\ state[Current] = 0 /\ state' = [state EXCEPT ![Current] = 1]
        /\ UNCHANGED <<requests, disk, lost, trees, written>> /\ stage = "perform"
    BY <1>4 DEF Begin, Performing
  <2>2. Current \in Txs /\ pc[Current] # "new"
    BY <2>1, CurrentEnds DEF WaitInv, Placed, HalfInv, LoadedFirst, Txs
  <2>3. DOMAIN trees = {} /\ written = {}
    BY <2>1, NoneOpen
  <2>4. QED
    BY <2>1, <2>2, <2>3 DEF KeepInv, MadeOnce, TypeOK, requests
<1>5. ASSUME OperationFails \/ CommitFails PROVE Calm /\ Bare
  <2>1. /\ batch # <<>> /\ state[Current] = 1 /\ state' = [state EXCEPT ![Current] = 3]
        /\ UNCHANGED <<requests, disk, lost>> /\ trees' = NoTrees /\ written' = {}
    BY <1>5 DEF OperationFails, CommitFails, Executing, Performing, Rollback
  <2>2. Current \in Txs
    BY <2>1, CurrentEnds
  <2>3. QED
    BY <2>1, <2>2 DEF KeepInv, MadeOnce, TypeOK, NoTrees, requests
<1>6. ASSUME Record PROVE Calm /\ Bare
  <2>1. UNCHANGED <<requests, state, disk, lost>> /\ trees' = NoTrees /\ written' = {}
    BY <1>6 DEF Record
  <2>2. QED
    BY <2>1 DEF KeepInv, MadeOnce, NoTrees, requests
<1>7. Calm /\ Bare
  BY <1>1, <1>2, <1>3, <1>4, <1>5, <1>6
<1>8. QED
  BY <1>7, KeepWithoutTrees DEF KeepInv, MadeOnce

\* A tree is loaded with all that was committed to its document.
LEMMA KeepLoads == ASSUME TypeOK, HalfInv, KeepInv, DoOperation PROVE KeepInv'
<1> USE DEF KeepInv
<1>1. PICK d \in ToLoad : trees' = [e \in DOMAIN trees \cup {d} |->
                                 IF e = d THEN disk[d] \cup {Current} ELSE trees[e]]
  BY DEF DoOperation
<1>2. UNCHANGED <<pc, changes, batch, state, written, disk, lost>> /\ Current' = Current
  BY DEF DoOperation, requests, performer, Current
<1>3. MadeOnce' /\ UpdatesSurvive'
  BY <1>2 DEF MadeOnce, UpdatesSurvive
<1>4. \A u \in Txs : state[u] = 2 /\ d \in changes[u] => u \in disk[d] \/ <<u, d>> \in lost
  BY UpdatesAssumption DEF UpdatesSurvive, Txs, Updates
<1>5. TreesFollow'
  BY <1>1, <1>2, <1>4 DEF TreesFollow, Kept
<1>6. QED
  BY <1>3, <1>5

\* A commit writes trees that follow the documents, and remembers the direct changes it
\* takes away.
LEMMA KeepCommits == ASSUME TypeOK, HalfInv, KeepInv, CommitWrite PROVE KeepInv'
<1> USE DEF KeepInv
<1>1. PICK d \in DOMAIN trees \ written :
          /\ disk' = [disk EXCEPT ![d] = trees[d]] /\ written' = written \cup {d}
          /\ lost' = lost \cup ((disk[d] \ trees[d]) \cap Writers) \X {d}
  BY DEF CommitWrite
<1>2. /\ UNCHANGED <<pc, changes, batch, state, trees>> /\ Current' = Current /\ d \in Docs
      /\ state[Current] = 1 /\ Current \in Txs
  BY <1>1, CurrentEnds DEF CommitWrite, Executing, Performing, requests, performer, Current, TypeOK
<1>3. MadeOnce'
  BY <1>2 DEF MadeOnce
<1>4. TreesFollow'
  BY <1>1, <1>2 DEF TreesFollow, Kept, TypeOK
<1>5. UpdatesSurvive'
  <2> SUFFICES ASSUME NEW u \in Updates, ~(u \in Txs /\ state[u] # 2),
                      ~(u \in Writers /\ pc[u] # "answered"), NEW e \in changes[u]
               PROVE  u \in disk'[e] \/ <<u, e>> \in lost'
    BY <1>2 DEF UpdatesSurvive
  <2>1. u \in disk[e] \/ <<u, e>> \in lost
    BY DEF UpdatesSurvive
  <2>2. CASE e # d
    BY <2>1, <2>2, <1>1, <1>2 DEF TypeOK
  <2>3. CASE e = d /\ u \in Writers
    BY <2>1, <2>3, <1>1, <1>2 DEF TypeOK
  <2>4. CASE e = d /\ u \in Txs
    <3>1. state[u] = 2 /\ u # Current
      BY <2>4, <1>2
    <3>2. u \in trees[d] \/ <<u, d>> \in lost
      BY <2>4, <3>1 DEF TreesFollow
    <3>3. QED
      BY <2>4, <3>2, <1>1, <1>2 DEF TypeOK
  <2>5. QED
    BY <2>2, <2>3, <2>4 DEF Updates
<1>6. QED
  BY <1>3, <1>4, <1>5

\* What is committed has been written to every document it changes.
LEMMA KeepCommitted == ASSUME TypeOK, HalfInv, KeepInv, CommitDone PROVE KeepInv'
<1> USE DEF KeepInv
<1>1. /\ state' = [state EXCEPT ![Current] = 2] /\ written = DOMAIN trees /\ ToLoad = {}
      /\ UNCHANGED <<pc, changes, batch, trees, written, disk, lost>> /\ Current' = Current
      /\ state[Current] = 1 /\ Current \in Txs
  BY CurrentEnds DEF CommitDone, Executing, Performing, requests, Current
<1>2. MadeOnce' /\ TreesFollow'
  BY <1>1 DEF MadeOnce, TreesFollow, Kept, TypeOK
<1>3. \A d \in changes[Current] : Current \in disk[d] \/ <<Current, d>> \in lost
  BY <1>1 DEF TreesFollow, Kept, ToLoad
<1>4. UpdatesSurvive'
  <2> SUFFICES ASSUME NEW u \in Updates, ~(u \in Txs /\ state'[u] # 2),
                      ~(u \in Writers /\ pc[u] # "answered"), NEW e \in changes[u]
               PROVE  u \in disk[e] \/ <<u, e>> \in lost
    BY <1>1 DEF UpdatesSurvive
  <2>1. CASE u = Current
    BY <2>1, <1>3
  <2>2. CASE u # Current
    <3>1. ~(u \in Txs /\ state[u] # 2)
      BY <2>2, <1>1 DEF TypeOK
    <3>2. QED
      BY <3>1 DEF UpdatesSurvive
  <2>3. QED
    BY <2>1, <2>2
<1>5. QED
  BY <1>2, <1>4

\* A direct change remembers all that its stale copy takes away.
LEMMA KeepWrites == ASSUME TypeOK, KeepInv, NEW w \in Writers, WriteTree(w) PROVE KeepInv'
<1> USE DEF KeepInv
<1>1. PICK d \in changes[w] :
          /\ disk' = [disk EXCEPT ![d] = copy[w] \cup {w}]
          /\ lost' = lost \cup (disk[d] \ copy[w]) \X {d}
  BY DEF WriteTree
<1>2. /\ UNCHANGED <<changes, batch, state, trees, written>> /\ Current' = Current
      /\ pc' = [pc EXCEPT ![w] = "answered"] /\ pc[w] = "loaded" /\ w \in Updates
  BY DEF WriteTree, Go, performer, transaction, Current, Updates
<1>3. changes[w] = {d} /\ d \in Docs
  BY <1>1, <1>2 DEF MadeOnce, TypeOK
<1>4. \A u, e : Kept(u, e) /\ e \in Docs => Kept(u, e)'
  BY <1>1, <1>3 DEF Kept, TypeOK
<1>5. MadeOnce'
  BY <1>2 DEF MadeOnce, TypeOK, Txs, Updates
<1>6. TreesFollow'
  BY <1>1, <1>2, <1>4 DEF TreesFollow, TypeOK
<1>7. UpdatesSurvive'
  <2> SUFFICES ASSUME NEW u \in Updates, ~(u \in Txs /\ state[u] # 2),
                      ~(u \in Writers /\ pc'[u] # "answered"), NEW e \in changes[u]
               PROVE  Kept(u, e)'
    BY <1>2 DEF UpdatesSurvive, Kept
  <2>1. CASE u = w
    BY <2>1, <1>1, <1>3 DEF Kept, TypeOK
  <2>2. CASE u # w
    <3>1. e \in Docs /\ pc'[u] = pc[u]
      BY <2>2, <1>2 DEF TypeOK
    <3>2. Kept(u, e)
      BY <3>1 DEF UpdatesSurvive, Kept
    <3>3. QED
      BY <3>1, <3>2, <1>4
  <2>3. QED
    BY <2>1, <2>2
<1>8. QED
  BY <1>5, <1>6, <1>7

\* A request or a direct change that goes on settles what it changes before it begins.
LEMMA KeepRequests ==
    ASSUME TypeOK, WaitInv, HalfInv, KeepInv, NEW u \in Edits \cup Writers,
           \/ u \in Edits /\ (PerformTransactions(u) \/ WaitForCommit(u))
           \/ u \in Writers /\ (ChangeDirectly(u) \/ LoadTree(u))
           \/ ReadSize(u) \/ ReadFlag(u)
    PROVE  KeepInv'
<1> USE DEF KeepInv
<1>1. /\ UNCHANGED <<batch, state, trees, written, disk, lost>> /\ Current' = Current
      /\ \E to \in {"size", "flag", "through", "answered", "loaded"} :
            /\ pc' = [pc EXCEPT ![u] = to]
            /\ u \in Writers => to # "answered"
  BY UpdatesAssumption DEF PerformTransactions, WaitForCommit, ChangeDirectly, LoadTree, ReadSize, ReadFlag,
         Go, performer, transaction, Current
<1>2. /\ \A v \in Updates : changes'[v] # changes[v] => v = u /\ pc[u] = "new"
      /\ u \in Writers /\ pc[u] = "new" => \E d \in Docs : changes'[u] = {d}
      /\ u \in Updates
  BY UpdatesAssumption DEF PerformTransactions, WaitForCommit, ChangeDirectly, LoadTree, ReadSize, ReadFlag,
         Go, TypeOK, Updates, Txs
<1>3. MadeOnce'
  <2>1. \A v \in Updates : pc'[v] = "new" => pc[v] = "new"
    BY <1>1 DEF TypeOK
  <2>2. ASSUME NEW w \in Writers, pc'[w] # "new" PROVE \E d \in Docs : changes'[w] = {d}
    <3>1. CASE pc[w] = "new"
      <4>1. w = u
        BY <1>1, <2>2, <3>1 DEF TypeOK, Updates
      <4>2. QED
        BY <4>1, <3>1, <1>2
    <3>2. CASE pc[w] # "new"
      <4>1. changes'[w] = changes[w]
        BY <3>2, <1>2 DEF Updates
      <4>2. QED
        BY <4>1, <3>2 DEF MadeOnce
    <3>3. QED
      BY <3>1, <3>2
  <2>3. \A t \in Txs : state'[t] # 0 => pc'[t] # "new"
    BY <1>1, <2>1 DEF MadeOnce, Updates
  <2>4. QED
    BY <2>2, <2>3 DEF MadeOnce
<1>4. \A t \in Txs : state[t] = 2 => changes'[t] = changes[t]
  BY <1>2 DEF MadeOnce, Updates
<1>5. TreesFollow'
  BY <1>1, <1>4 DEF TreesFollow, Kept
<1>6. UpdatesSurvive'
  <2> SUFFICES ASSUME NEW v \in Updates, ~(v \in Txs /\ state[v] # 2),
                      ~(v \in Writers /\ pc'[v] # "answered"), NEW e \in changes'[v]
               PROVE  v \in disk[e] \/ <<v, e>> \in lost
    BY <1>1 DEF UpdatesSurvive
  <2>1. v \in Writers => v # u /\ pc[v] = "answered"
    BY <1>1, <1>2 DEF TypeOK
  <2>2. changes'[v] = changes[v]
    BY <2>1, <1>2, <1>4 DEF Updates
  <2>3. QED
    BY <2>1, <2>2 DEF UpdatesSurvive
<1>7. QED
  BY <1>3, <1>5, <1>6

\* Every step keeps what was committed, or remembers who took it away.
LEMMA Keeping == Spec => []KeepInv
<1>1. Init => KeepInv
  BY UpdatesAssumption DEF Init, KeepInv, UpdatesSurvive, TreesFollow, MadeOnce, NoTrees, Txs, Updates
<1>2. TypeOK /\ Held /\ WaitInv /\ HalfInv /\ KeepInv /\ [Next]_vars => KeepInv'
  <2> SUFFICES ASSUME TypeOK, Held, WaitInv, HalfInv, KeepInv, [Next]_vars PROVE KeepInv'
    OBVIOUS
  <2>1. CASE Perform
    BY <2>1, KeepPerformer, KeepLoads, KeepCommits, KeepCommitted DEF Perform
  <2>2. CASE Tick \/ \E r \in Replays : PerformTxSync(r)
    BY <2>2, KeepPerformer
  <2>3. CASE \/ \E t \in Edits : PerformTransactions(t) \/ Answer(t)
             \/ \E w \in Writers : ChangeDirectly(w)
             \/ \E u \in Edits \cup Writers : Advance(u)
    BY <2>3, KeepRequests DEF Answer, Advance
  <2>4. CASE \E w \in Writers : Change(w)
    BY <2>4, KeepWrites, KeepRequests DEF Change
  <2>5. CASE UNCHANGED vars
    BY <2>5 DEF vars, requests, performer, transaction, KeepInv, UpdatesSurvive, TreesFollow,
                MadeOnce, Kept, Current
  <2>6. QED
    BY <2>1, <2>2, <2>3, <2>4, <2>5 DEF Next
<1>3. QED
  BY <1>1, <1>2, Typing, Waiting, Halves, PTL DEF Spec

\* No transaction overwrites another, and only a direct change and a transaction, or two
\* direct changes, that had both read a document take from each other: for any number of
\* them, on any documents, in any order and with any failures.
THEOREM UpdatesAreKept == Spec => []UpdatesSurvive
<1>1. KeepInv => UpdatesSurvive
  BY DEF KeepInv
<1>2. QED
  BY <1>1, Keeping, PTL
=============================================================================
