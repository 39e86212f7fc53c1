------------------------------ MODULE FlushWait ------------------------------
(***************************************************************************)
(* WaitFlushTx and FlushQueue (kernel/sql/queue.go): goroutines that wait, *)
(* on a condition variable, for the queue of index operations to be        *)
(* written, and the flush that wakes them.                                 *)
(*                                                                         *)
(* dbQueueLock guards the queue; flushingTx is an atomic flag that the     *)
(* flush sets and clears without the lock, and it broadcasts without it    *)
(* too.  Operations are told apart by their number only, for the queue is  *)
(* first in, first out and is always taken whole.                          *)
(***************************************************************************)
EXTENDS Integers

CONSTANTS Waiters,   \* goroutines that call WaitFlushTx
          MaxOps,    \* bound: operations queued
          MaxClears  \* bound: rebuilds of the database

ASSUME OpsAssumption == MaxOps \in Nat
ASSUME ClearsAssumption == MaxClears \in Nat

VARIABLES
    appended,   \* operations ever queued
    taken,      \* of these, taken by a flush
    executed,   \* of these, run, given up or cleared
    cleared,    \* rebuilds so far
    stage,      \* where FlushQueue is
    flushingTx,
    pc,         \* where each waiter is
    timed,      \* whether a waiter's next wait has the timer (i > 0)
    since       \* what was queued when a waiter was called

queue == <<appended, taken, executed>>
flush == <<stage, flushingTx>>
waiter == <<pc, timed, since>>
waitVars == <<queue, cleared, flush, waiter>>

Stages == {"idle", "taken", "writing", "written"}
Places == {"out", "check", "read", "decided", "waiting", "woken", "returned"}

\* dbQueueLock, held by a waiter from its check to its wait.
Locked == \E w \in Waiters : pc[w] \in {"check", "read", "decided"}
QueueEmpty == appended = taken

WaitInit ==
    /\ appended = 0 /\ taken = 0 /\ executed = 0 /\ cleared = 0
    /\ stage = "idle" /\ flushingTx = FALSE
    /\ pc = [w \in Waiters |-> "out"]
    /\ timed = [w \in Waiters |-> FALSE]
    /\ since = [w \in Waiters |-> 0]
-----------------------------------------------------------------------------
Enqueue ==
    /\ ~Locked
    /\ appended < MaxOps
    /\ appended' = appended + 1
    /\ UNCHANGED <<taken, executed, cleared, flush, waiter>>

GetOperationsOneMore ==
    /\ stage = "idle" /\ ~Locked
    /\ ~QueueEmpty
    /\ taken' = appended + 1
    /\ stage' = "taken"
    /\ UNCHANGED <<appended, executed, cleared, flushingTx, waiter>>

\* getOperations takes the queue and releases the lock; the flag is set later.
GetOperations ==
    /\ stage = "idle" /\ ~Locked
    /\ ~QueueEmpty
    /\ taken' = appended
    /\ stage' = "taken"
    /\ UNCHANGED <<appended, executed, cleared, flushingTx, waiter>>

StartFlushing ==
    /\ stage = "taken"
    /\ flushingTx' = TRUE
    /\ stage' = "writing"
    /\ UNCHANGED <<queue, cleared, waiter>>

ExecOp ==
    /\ stage = "writing" /\ executed < taken
    /\ executed' = executed + 1
    /\ UNCHANGED <<appended, taken, cleared, flush, waiter>>

\* The flag is cleared first by the deferred function, after the last operation.
StopFlushing ==
    /\ stage = "writing" /\ executed = taken
    /\ flushingTx' = FALSE
    /\ stage' = "written"
    /\ UNCHANGED <<queue, cleared, waiter>>

\* No transaction can be had: the operations left are given up, to the journal.
GiveUp ==
    /\ stage = "writing" /\ executed < taken
    /\ executed' = taken
    /\ UNCHANGED <<appended, taken, cleared, flush, waiter>>

AwakeNobody == pc

\* Everybody registered is woken; a woken waiter takes the lock again to check.
Awake == [w \in Waiters |-> IF pc[w] = "waiting" THEN "woken" ELSE pc[w]]

\* The flag is clear by now, and no lock is held.
BroadcastWritten ==
    /\ stage = "written"
    /\ stage' = "idle"
    /\ pc' = Awake
    /\ UNCHANGED <<queue, cleared, flushingTx, timed, since>>

\* A rebuild of the database, between two flushes (initDatabaseLock).
ClearQueue ==
    /\ stage = "idle" /\ ~Locked
    /\ cleared < MaxClears
    /\ cleared' = cleared + 1
    /\ taken' = appended /\ executed' = appended
    /\ UNCHANGED <<appended, flush, waiter>>
-----------------------------------------------------------------------------
Go(w, from, to) == pc[w] = from /\ pc' = [pc EXCEPT ![w] = to]

Call(w) ==
    /\ ~Locked
    /\ Go(w, "out", "check")
    /\ timed' = [timed EXCEPT ![w] = FALSE]
    /\ since' = [since EXCEPT ![w] = appended]
    /\ UNCHANGED <<queue, cleared, flush>>

ReadQueueOnly(w) ==
    /\ Go(w, "check", IF QueueEmpty THEN "returned" ELSE "decided")
    /\ UNCHANGED <<queue, cleared, flush, timed, since>>

ReadQueue(w) ==
    /\ Go(w, "check", IF QueueEmpty THEN "read" ELSE "decided")
    /\ UNCHANGED <<queue, cleared, flush, timed, since>>

ReadFlag(w) ==
    /\ Go(w, "read", IF flushingTx THEN "decided" ELSE "returned")
    /\ UNCHANGED <<queue, cleared, flush, timed, since>>

\* Wait registers, then releases the lock.
Wait(w) ==
    /\ Go(w, "decided", "waiting")
    /\ UNCHANGED <<queue, cleared, flush, timed, since>>

\* Every wait but the first has a timer, whose broadcast wakes everybody.
Timer(w) ==
    /\ pc[w] = "waiting" /\ timed[w]
    /\ pc' = Awake
    /\ UNCHANGED <<queue, cleared, flush, timed, since>>

Relock(w) ==
    /\ ~Locked
    /\ Go(w, "woken", "check")
    /\ timed' = [timed EXCEPT ![w] = TRUE]
    /\ UNCHANGED <<queue, cleared, flush, since>>

\* The job that waits is run again by its ticker.
Again(w) ==
    /\ Go(w, "returned", "out")
    /\ UNCHANGED <<queue, cleared, flush, timed, since>>

FlushQueue == StartFlushing \/ ExecOp \/ GiveUp \/ StopFlushing \/ BroadcastWritten
Step(w) == ReadQueue(w) \/ ReadFlag(w) \/ Wait(w) \/ Timer(w)

WaitNext ==
    \/ Enqueue \/ GetOperations \/ FlushQueue \/ ClearQueue
    \/ \E w \in Waiters : Call(w) \/ Step(w) \/ Relock(w) \/ Again(w)

WaitSpec == WaitInit /\ [][WaitNext]_waitVars

\* The flush is on a timer and a goroutine that runs goes on; whoever waits for the
\* mutex gets it in the end, for a Go mutex does not starve (strong fairness).
FairWaitSpec == /\ WaitSpec
            /\ WF_waitVars(FlushQueue) /\ SF_waitVars(GetOperations)
            /\ \A w \in Waiters : WF_waitVars(Step(w)) /\ SF_waitVars(Relock(w))
-----------------------------------------------------------------------------
\* Types of the condition variable's state.
WaitTypeOK ==
    /\ appended \in 0..MaxOps /\ taken \in 0..MaxOps /\ executed \in 0..MaxOps
    /\ cleared \in 0..MaxClears /\ stage \in Stages /\ flushingTx \in BOOLEAN
    /\ pc \in [Waiters -> Places]
    /\ timed \in [Waiters -> BOOLEAN] /\ since \in [Waiters -> 0..MaxOps]

Returns(w) == pc[w] # "returned" /\ pc'[w] = "returned"

\* WaitFlushTx returns with an operation of before its call still to be run only
\* between the flush's taking of the queue and its setting of the flag; nowhere
\* else in a flush, and not because of what others queue meanwhile.
EarlyReturnOnlyInWindow ==
    [][\A w \in Waiters : Returns(w) => since[w] <= executed \/ stage = "taken"]_waitVars

\* A waiter that registered when a flush was under way, or that has been woken once,
\* is woken and returns; so is one that registered when a flush was due, unless a
\* rebuild clears the queue, which tells nobody.
AwaitedFlushWakes ==
    \A w \in Waiters :
        /\ (pc[w] = "waiting" /\ (timed[w] \/ stage # "idle")) ~> pc[w] = "returned"
        /\ (pc[w] = "waiting" /\ ~QueueEmpty /\ cleared = MaxClears)
               ~> pc[w] = "returned"
=============================================================================
