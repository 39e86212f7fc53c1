------------------------------ MODULE TaskQueue ------------------------------
(***************************************************************************)
(* The background task queue (kernel/task/queue.go), emptied by two jobs   *)
(* of kernel/job/cron.go: ExecTaskJob runs the synchronous tasks one at a  *)
(* time, and stops waiting for one that outlasts its timeout;              *)
(* ExecAsyncTaskJob starts the asynchronous ones that are due.             *)
(*                                                                         *)
(* Appending a unique task looks at the current task and the queue, under  *)
(* queueLock, and takes the lock anew to append.  A task is its action and *)
(* its arguments; delays are abstracted to "due or not".  Variables and    *)
(* specification have names of their own, so that one module can speak     *)
(* of this queue and of FlushWait.                                         *)
(***************************************************************************)
EXTENDS Integers, Sequences, FiniteSets, SequencesExt

CONSTANTS Callers,   \* goroutines that append tasks
          Actions, Args,
          Unique,    \* uniqueActions
          Async,     \* actions appended with AppendAsyncTaskWithDelay
          Slow,      \* actions whose handler may outlast the timeout
          MaxTasks   \* bound: tasks appended

ASSUME ActionsAssumption ==
    Unique \subseteq Actions /\ Async \subseteq Actions /\ Slow \subseteq Actions \ Async
ASSUME TasksAssumption == MaxTasks \in Nat

VARIABLES
    taskQueue,   \* tasks, each with its number in the order of appending
    numbered,    \* the number of the last task appended
    wanted,      \* the task each caller has found it may append, or NoTask
    popped,      \* the task ExecTaskJob took and has not started, or NoTask
    currentTask, \* the synchronous task being waited for, or NoTask
    handlers,    \* tasks whose handler runs
    exiting,     \* util.IsExiting
    started,     \* history: the tasks whose handler was started
    late         \* history: the tasks whose timeout elapsed

jobs == <<popped, currentTask, handlers, started, late>>
taskVars == <<taskQueue, numbered, wanted, exiting, jobs>>

Kinds == [action : Actions, args : Args]
Tasks == [action : Actions, args : Args, no : 1..MaxTasks]
NoTask == [action |-> "none"]
Sync(t) == t.action \notin Async
Same(t, u) == t.action = u.action /\ t.args = u.args

TaskInit ==
    /\ taskQueue = <<>> /\ numbered = 0
    /\ wanted = [c \in Callers |-> NoTask]
    /\ popped = NoTask /\ currentTask = NoTask
    /\ handlers = {} /\ started = {} /\ late = {}
    /\ exiting = FALSE
-----------------------------------------------------------------------------
GetCurrentTasks ==
    (IF currentTask = NoTask THEN <<>> ELSE <<currentTask>>) \o taskQueue

\* The first task of the action decides: with other arguments the search ends.
ContainTask(t, tasks) ==
    LET alike == SelectSeq(tasks, LAMBDA u : u.action = t.action) IN
    alike # <<>> /\ Same(Head(alike), t)

\* The check of a unique action; the task is built, or dropped.
WantTask(c) ==
    /\ ~exiting /\ wanted[c] = NoTask
    /\ \E t \in Kinds :
          /\ ~(t.action \in Unique /\ ContainTask(t, GetCurrentTasks))
          /\ wanted' = [wanted EXCEPT ![c] = t]
    /\ UNCHANGED <<taskQueue, numbered, exiting, jobs>>

AppendTask(c) ==
    /\ wanted[c] # NoTask /\ numbered < MaxTasks
    /\ numbered' = numbered + 1
    /\ taskQueue' = Append(taskQueue, [action |-> wanted[c].action,
                                       args |-> wanted[c].args, no |-> numbered'])
    /\ wanted' = [wanted EXCEPT ![c] = NoTask]
    /\ UNCHANGED <<exiting, jobs>>
-----------------------------------------------------------------------------
(* ExecTaskJob: one goroutine, which waits for the handler or the timeout. *)

SyncAt == {i \in DOMAIN taskQueue : Sync(taskQueue[i])}
Earliest(positions) == CHOOSE i \in positions : \A j \in positions : i <= j

PopTask ==
    /\ popped = NoTask /\ currentTask = NoTask
    /\ SyncAt # {}
    /\ popped' = taskQueue[Earliest(SyncAt)]
    /\ taskQueue' = RemoveAt(taskQueue, Earliest(SyncAt))
    /\ UNCHANGED <<numbered, wanted, exiting, currentTask, handlers, started, late>>

\* Started without being waited for.
ExecTaskDetached ==
    /\ popped # NoTask
    /\ popped' = NoTask
    /\ handlers' = handlers \cup {popped}
    /\ started' = started \cup {popped}
    /\ UNCHANGED <<currentTask, taskQueue, numbered, wanted, exiting, late>>

\* A task taken while the program exits is dropped.
ExecTask ==
    /\ popped # NoTask
    /\ popped' = NoTask
    /\ IF exiting THEN UNCHANGED <<currentTask, handlers, started>>
       ELSE /\ currentTask' = popped
            /\ handlers' = handlers \cup {popped}
            /\ started' = started \cup {popped}
    /\ UNCHANGED <<taskQueue, numbered, wanted, exiting, late>>

HandlerReturns(t) ==
    /\ t \in handlers
    /\ handlers' = handlers \ {t}
    /\ UNCHANGED <<taskQueue, numbered, wanted, exiting, popped, currentTask,
                   started, late>>

TaskDone ==
    /\ currentTask # NoTask /\ currentTask \notin handlers
    /\ currentTask' = NoTask
    /\ UNCHANGED <<taskQueue, numbered, wanted, exiting, popped, handlers,
                   started, late>>

TaskTimeoutStillCurrent ==
    /\ currentTask \in handlers /\ currentTask.action \in Slow
    /\ late' = late \cup {currentTask}
    /\ UNCHANGED <<taskQueue, numbered, wanted, exiting, popped, currentTask,
                   handlers, started>>

\* The handler goes on; only the waiting ends.
TaskTimeout ==
    /\ currentTask \in handlers /\ currentTask.action \in Slow
    /\ late' = late \cup {currentTask}
    /\ currentTask' = NoTask
    /\ UNCHANGED <<taskQueue, numbered, wanted, exiting, popped, handlers, started>>

-----------------------------------------------------------------------------
(* ExecAsyncTaskJob: everything that is due leaves the queue and is started. *)

Waiting(t, due) == t \notin due

PopAsyncTasks ==
    \E due \in SUBSET {t \in Range(taskQueue) : ~Sync(t)} \ {{}} :
        /\ taskQueue' = SelectSeq(taskQueue, LAMBDA t : Waiting(t, due))
        /\ IF exiting THEN UNCHANGED <<handlers, started>>
           ELSE handlers' = handlers \cup due /\ started' = started \cup due
        /\ UNCHANGED <<numbered, wanted, exiting, popped, currentTask, late>>

Exit ==
    /\ ~exiting
    /\ exiting' = TRUE
    /\ UNCHANGED <<taskQueue, numbered, wanted, jobs>>

ExecTaskJob == PopTask \/ ExecTask \/ TaskDone \/ TaskTimeout

TaskNext ==
    \/ \E c \in Callers : WantTask(c) \/ AppendTask(c)
    \/ ExecTaskJob \/ PopAsyncTasks \/ Exit
    \/ \E t \in handlers : HandlerReturns(t)

TaskSpec == TaskInit /\ [][TaskNext]_taskVars

\* Both jobs are run by tickers, and a handler returns unless it is one of the slow.
FairTaskSpec ==
    /\ TaskSpec
    /\ WF_taskVars(ExecTaskJob) /\ WF_taskVars(PopAsyncTasks)
    /\ \A t \in {u \in Tasks : u.action \notin Slow} : WF_taskVars(HandlerReturns(t))
-----------------------------------------------------------------------------
\* Two synchronous handlers run at once only if one of them outlasted its timeout.
OverlapOnlyAfterTimeout ==
    \A t, u \in handlers :
        t # u /\ Sync(t) /\ Sync(u) => t \in late \/ u \in late

\* Every task appended is started in the end, unless the program exits: a handler
\* that never returns holds the queue for its timeout and no longer.
TaskStarts ==
    \A n \in 1..MaxTasks :
        numbered >= n ~> exiting \/ \E t \in started : t.no = n
=============================================================================
