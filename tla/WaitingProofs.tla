---------------------------- MODULE WaitingProofs ----------------------------
(***************************************************************************)
(* What is proved of the three places where the kernel waits for another:  *)
(* WaitFlushTx for the index (FlushWait), ExecTaskJob for the task it      *)
(* started (TaskQueue), and the removal of unused assets for the windows   *)
(* that edit Markdown (AssetScan), for every value of the constants.       *)
(***************************************************************************)
EXTENDS AssetScan, FlushWait, TaskQueue, TLAPS
-----------------------------------------------------------------------------
(* WaitFlushTx for any number of waiters and operations: the one interval  *)
(* in which it can return too early is the one between getOperations and   *)
(* the setting of flushingTx.                                              *)

\* A batch taken is wholly run before the flag is cleared.
BatchRun ==
    /\ executed <= taken /\ taken <= appended
    /\ stage \in {"idle", "written"} => executed = taken
    /\ flushingTx <=> stage = "writing"

\* A waiter that saw the queue empty holds the lock, so the queue still is.
SeenEmpty ==
    \A w \in Waiters : /\ since[w] <= appended
                       /\ pc[w] = "read" => appended = taken

WaitInv == WaitTypeOK /\ BatchRun /\ SeenEmpty

\* Type correctness with its strengthening: what the flush and the waiters know of
\* each other's progress holds initially and at every step of WaitFlushTx or FlushQueue.
LEMMA WaitInvariant == WaitSpec => []WaitInv
<1>1. WaitInit => WaitInv
  <2> SUFFICES ASSUME WaitInit PROVE WaitInv
    OBVIOUS
  <2>1. /\ flushingTx \in BOOLEAN /\ timed \in [Waiters -> BOOLEAN]
        /\ flushingTx <=> stage = "writing"
    BY DEF WaitInit
  <2>2. /\ appended \in 0..MaxOps /\ taken \in 0..MaxOps /\ executed \in 0..MaxOps
        /\ stage \in Stages /\ pc \in [Waiters -> Places]
        /\ since \in [Waiters -> 0..MaxOps]
        /\ cleared \in 0..MaxClears
    BY OpsAssumption, ClearsAssumption DEF WaitInit, Stages, Places
  <2>3. executed <= taken /\ taken <= appended /\ executed = taken /\ SeenEmpty
    BY DEF WaitInit, SeenEmpty
  <2>4. QED
    BY <2>1, <2>2, <2>3 DEF WaitInv, WaitTypeOK, BatchRun
<1>2. WaitInv /\ [WaitNext]_waitVars => WaitInv'
  <2> SUFFICES ASSUME WaitInv, [WaitNext]_waitVars PROVE WaitInv'
    OBVIOUS
  <2> USE OpsAssumption, ClearsAssumption DEF WaitInv, WaitTypeOK, BatchRun, SeenEmpty, Stages, Places
  <2>1. CASE Enqueue
    BY <2>1 DEF Enqueue, Locked, flush, waiter
  <2>2. CASE GetOperations
    BY <2>2 DEF GetOperations, Locked, QueueEmpty, waiter
  <2>3. CASE StartFlushing
    BY <2>3 DEF StartFlushing, queue, waiter
  <2>4. CASE ExecOp
    BY <2>4 DEF ExecOp, flush, waiter
  <2>5. CASE GiveUp
    BY <2>5 DEF GiveUp, flush, waiter
  <2>6. CASE StopFlushing
    BY <2>6 DEF StopFlushing, queue, waiter
  <2>7. CASE BroadcastWritten
    BY <2>7 DEF BroadcastWritten, Awake, queue
  <2>8. ASSUME NEW w \in Waiters, Call(w) PROVE WaitInv'
    BY <2>8 DEF Call, Go, queue, flush
  <2>9. ASSUME NEW w \in Waiters, ReadQueue(w) PROVE WaitInv'
    BY <2>9 DEF ReadQueue, Go, QueueEmpty, queue, flush
  <2>10. ASSUME NEW w \in Waiters, ReadFlag(w) PROVE WaitInv'
    BY <2>10 DEF ReadFlag, Go, queue, flush
  <2>11. ASSUME NEW w \in Waiters, Wait(w) PROVE WaitInv'
    BY <2>11 DEF Wait, Go, queue, flush
  <2>12. ASSUME NEW w \in Waiters, Timer(w) PROVE WaitInv'
    BY <2>12 DEF Timer, Awake, queue, flush
  <2>13. ASSUME NEW w \in Waiters, Relock(w) PROVE WaitInv'
    BY <2>13 DEF Relock, Go, queue, flush
  <2>14. ASSUME NEW w \in Waiters, Again(w) PROVE WaitInv'
    BY <2>14 DEF Again, Go, queue, flush
  <2>15. CASE ClearQueue
    BY <2>15 DEF ClearQueue, Locked, flush, waiter
  <2>16. CASE UNCHANGED waitVars
    BY <2>16 DEF waitVars, queue, flush, waiter
  <2>17. QED
    BY <2>1, <2>2, <2>3, <2>4, <2>5, <2>6, <2>7, <2>8, <2>9, <2>10, <2>11,
       <2>12, <2>13, <2>14, <2>15, <2>16 DEF WaitNext, FlushQueue, Step
<1>3. QED
  BY <1>1, <1>2, PTL DEF WaitSpec

\* Every state of the condition variable's model is well typed, for any waiters.
THEOREM TypeCorrect == WaitSpec => []WaitTypeOK
<1>1. WaitInv => WaitTypeOK
  BY DEF WaitInv
<1>2. QED
  BY <1>1, WaitInvariant, PTL

\* WaitFlushTx returns before what was queued has been run only if it looked between
\* the flush's taking of the queue and its setting of flushingTx.
THEOREM EarlyReturns == WaitSpec => EarlyReturnOnlyInWindow
<1> DEFINE OnTime == \A w \in Waiters :
                        Returns(w) => since[w] <= executed \/ stage = "taken"
<1>1. WaitInv /\ [WaitNext]_waitVars => [OnTime]_waitVars
  <2> SUFFICES ASSUME WaitInv, WaitNext, NEW w \in Waiters, Returns(w)
               PROVE  since[w] <= executed \/ stage = "taken"
    BY DEF Returns
  <2>1. ReadFlag(w) /\ ~flushingTx
    <3> USE DEF WaitInv, WaitTypeOK, Returns, Places
    <3>1. CASE \E v \in Waiters : Step(v)
      BY <3>1 DEF Step, ReadQueue, ReadFlag, Wait, Timer, Awake, Go
    <3>2. CASE \E v \in Waiters : Call(v) \/ Relock(v) \/ Again(v)
      BY <3>2 DEF Call, Relock, Again, Go
    <3>3. CASE FlushQueue
      BY <3>3 DEF FlushQueue, StartFlushing, ExecOp, GiveUp, StopFlushing,
                  BroadcastWritten, Awake, waiter
    <3>4. CASE Enqueue \/ GetOperations \/ ClearQueue
      BY <3>4 DEF Enqueue, GetOperations, ClearQueue, waiter
    <3>5. QED
      BY <3>1, <3>2, <3>3, <3>4 DEF WaitNext
  <2>2. pc[w] = "read"
    BY <2>1 DEF ReadFlag, Go
  <2>3. since[w] <= taken /\ executed \in Int /\ since[w] \in Int
    BY <2>2, OpsAssumption DEF WaitInv, SeenEmpty, WaitTypeOK
  <2>4. stage = "taken" \/ executed = taken
    BY <2>1 DEF WaitInv, BatchRun, WaitTypeOK, Stages
  <2>5. QED
    BY <2>3, <2>4
<1>2. QED
  BY <1>1, WaitInvariant, PTL DEF WaitSpec, EarlyReturnOnlyInWindow
-----------------------------------------------------------------------------
(* One synchronous task at a time, for any number of callers and tasks:    *)
(* ExecTaskJob has one goroutine, and it waits for what it started.  What  *)
(* the queue holds plays no part, so that its type is not needed.          *)

\* A synchronous handler is the one waited for, or was waited for too long.
WaitedFor ==
    \A t \in handlers : Sync(t) => t \in late \/ (t = currentTask /\ t # NoTask)

\* While a task is waited for none is taken, and none starts but what was taken.
OneAtATime == popped # NoTask => currentTask = NoTask

OneInv == WaitedFor /\ OneAtATime

\* ExecTaskJob starts a task when it waits for none, and gives up one by the timeout alone.
LEMMA JobKeeps == ASSUME OneInv, ExecTaskJob PROVE OneInv'
<1> USE DEF OneInv
<1>1. CASE PopTask
  BY <1>1 DEF PopTask, WaitedFor, OneAtATime
<1>2. CASE ExecTask
  <2>1. popped # NoTask /\ popped' = NoTask /\ currentTask = NoTask /\ late' = late
    BY <1>2 DEF ExecTask, OneAtATime
  <2>2. \A t \in handlers : Sync(t) => t \in late
    BY <2>1 DEF WaitedFor
  <2>3. handlers' = handlers \/ (handlers' = handlers \cup {popped} /\ currentTask' = popped)
    BY <1>2 DEF ExecTask
  <2>4. QED
    BY <2>1, <2>2, <2>3 DEF WaitedFor, OneAtATime
<1>3. CASE TaskDone
  BY <1>3 DEF TaskDone, WaitedFor, OneAtATime
<1>4. CASE TaskTimeout
  BY <1>4 DEF TaskTimeout, WaitedFor, OneAtATime
<1>5. QED
  BY <1>1, <1>2, <1>3, <1>4 DEF ExecTaskJob

\* What ExecAsyncTaskJob starts is not synchronous.
LEMMA AsyncKeeps == ASSUME OneInv, PopAsyncTasks PROVE OneInv'
<1>1. PICK due \in SUBSET {t \in Range(taskQueue) : ~Sync(t)} :
          handlers' = handlers \/ handlers' = handlers \cup due
  BY DEF PopAsyncTasks
<1>2. UNCHANGED <<popped, currentTask, late>>
  BY DEF PopAsyncTasks
<1>3. QED
  BY <1>1, <1>2 DEF OneInv, WaitedFor, OneAtATime

\* Two synchronous handlers run at once only if one of them outlasted its timeout, whoever
\* appends what.
THEOREM OverlapsAfterTimeout == TaskSpec => []OverlapOnlyAfterTimeout
<1>1. TaskInit => OneInv
  BY DEF TaskInit, OneInv, WaitedFor, OneAtATime
<1>2. OneInv /\ [TaskNext]_taskVars => OneInv'
  <2> SUFFICES ASSUME OneInv, [TaskNext]_taskVars PROVE OneInv'
    OBVIOUS
  <2>1. CASE \/ \E c \in Callers : WantTask(c) \/ AppendTask(c)
             \/ Exit
             \/ UNCHANGED taskVars
    BY <2>1 DEF WantTask, AppendTask, Exit, taskVars, jobs, OneInv, WaitedFor, OneAtATime
  <2>2. ASSUME NEW t \in handlers, HandlerReturns(t) PROVE OneInv'
    BY <2>2 DEF HandlerReturns, OneInv, WaitedFor, OneAtATime
  <2>3. QED
    BY <2>1, <2>2, JobKeeps, AsyncKeeps DEF TaskNext
<1>3. OneInv => OverlapOnlyAfterTimeout
  BY DEF OneInv, WaitedFor, OverlapOnlyAfterTimeout
<1>4. QED
  BY <1>1, <1>2, <1>3, PTL DEF TaskSpec
-----------------------------------------------------------------------------
(* The removal of unused assets, for any number of windows, documents,     *)
(* requests, edits and mishaps:                                            *)
(*   - an unsaved edit has a save to come, but for the named exceptions;   *)
(*   - a connected window is registered, but for the named exceptions;     *)
(*   - a request removes only what no document refers to, but those that   *)
(*     it may overlook.                                                    *)
(* The first rests on the editors alone, the second on the connections.    *)
(* The third follows a document through the barrier: while the request     *)
(* waits for its window, its flush is under way or it is settled; from the *)
(* answer on it is settled; and once read without the reference, nothing   *)
(* but an edit could bring it there.                                       *)

Editor == [open : BOOLEAN, text : BOOLEAN, dirty : BOOLEAN, timer : BOOLEAN,
           flush : Saving \cup {"none", "table"}, sent : BOOLEAN,
           typed : BOOLEAN, ok : BOOLEAN, status : {"saved", "error"}]
EdTypes == ed \in [Docs -> Editor] /\ disk \in [Docs -> BOOLEAN]

\* What UnsavedIsScheduled says of one editor, with what is known to be stranded.
HasSave(e, isStranded) ==
    e.dirty /\ e.flush \notin Saving =>
        (e.open /\ e.timer) \/ e.status = "error" \/ isStranded

EdInv == EdTypes /\ UnsavedIsScheduled

\* Connections are counted up, and one that has ended is not the present one.
SessTypes ==
    /\ live \in [Windows -> Nat] /\ made \in [Windows -> Nat] /\ entry \in [Windows -> Nat]
    /\ inMap \in [Windows -> BOOLEAN] /\ dropping \in [Windows -> BOOLEAN]
    /\ adding \in [Windows -> {Idle} \cup [step : {"store"}, found : BOOLEAN]]
    /\ stale \in [Windows -> SUBSET Nat]
EndedIsNotPresent ==
    \A w \in Windows : /\ live[w] <= made[w]
                       /\ \A n \in stale[w] : n <= made[w] /\ n # live[w] /\ n # 0
SessInv == SessTypes /\ EndedIsNotPresent /\ ConnectedIsRegistered
-----------------------------------------------------------------------------
\* A flush leaves an unsaved edit without a save only where Strands says so.
LEMMA FlushedSaves ==
    ASSUME NEW e \in Editor
    PROVE  /\ Flushed(e) \in Editor /\ Flushed(e).open = e.open
           /\ Flushed(e).dirty /\ Flushed(e).flush \notin Saving => e.flush = "table" /\ e.dirty
  BY DEF Flushed, Editor, Saving

\* The steps of the editors keep EdInv.
LEMMA EditorInit == Init => EdInv
  BY DEF Init, EdInv, EdTypes, Editor, UnsavedIsScheduled, Saving

\* Typing sets the timer.
LEMMA TypeKeeps == ASSUME EdInv, NEW d \in Docs, NEW ref \in BOOLEAN, Type(d, ref) PROVE EdInv'
  <1>1. ed[d] \in Editor BY DEF EdInv, EdTypes
  <1>2. ed' \in [Docs -> Editor] /\ disk' = disk
    BY <1>1 DEF Type, EdInv, EdTypes, Editor
  <1>3. ASSUME NEW x \in Docs PROVE HasSave(ed'[x], x \in stranded')
    <2>1. CASE x = d
      BY <2>1, <1>1 DEF Type, EdInv, EdTypes, Editor, HasSave
    <2>2. CASE x # d
      BY <2>2 DEF Type, EdInv, EdTypes, UnsavedIsScheduled, HasSave
    <2> QED BY <2>1, <2>2
  <1> QED BY <1>2, <1>3 DEF EdInv, EdTypes, UnsavedIsScheduled, HasSave

\* Flushing some editors keeps it, if what it strands is remembered.
LEMMA FlushKeeps ==
    ASSUME EdInv, NEW ds \in SUBSET Docs, disk' = disk, StrandedBy(ds),
           ed' = [d \in Docs |-> IF d \in ds THEN Flushed(ed[d]) ELSE ed[d]]
    PROVE  EdInv'
  <1>1. \A d \in Docs : ed[d] \in Editor BY DEF EdInv, EdTypes
  <1>2. ed' \in [Docs -> Editor] BY <1>1, FlushedSaves
  <1>3. ASSUME NEW x \in Docs PROVE HasSave(ed'[x], x \in stranded')
    <2>1. CASE x \in ds
      <3>1. ed'[x] = Flushed(ed[x]) BY <2>1
      <3>2. Strands(x) => x \in stranded' BY <2>1 DEF StrandedBy
      <3> QED BY <3>1, <3>2, <1>1, FlushedSaves DEF Strands, HasSave
    <2>2. CASE x \notin ds
      BY <2>2 DEF EdInv, UnsavedIsScheduled, HasSave, StrandedBy
    <2> QED BY <2>1, <2>2
  <1> QED BY <1>2, <1>3 DEF EdInv, EdTypes, UnsavedIsScheduled, HasSave

\* An editor's timer flushes that editor.
LEMMA TimerKeeps == ASSUME EdInv, NEW d \in Docs, TimerFires(d) PROVE EdInv'
  <1>1. ed' = [x \in Docs |-> IF x \in {d} THEN Flushed(ed[x]) ELSE ed[x]]
    BY DEF TimerFires, EdInv, EdTypes
  <1> QED BY <1>1, FlushKeeps DEF TimerFires

\* A tab that closes has saved its edit, is saving it, or has stranded it.
LEMMA CloseKeeps == ASSUME EdInv, NEW d \in Docs, CloseTab(d) PROVE EdInv'
  <1>1. ed[d] \in Editor BY DEF EdInv, EdTypes
  <1> DEFINE left == IF ed[d].dirty THEN Flushed(ed[d]) ELSE [ed[d] EXCEPT !.timer = FALSE]
             gone == [left EXCEPT !.open = FALSE]
  <1>2. left \in Editor
    <2>1. [ed[d] EXCEPT !.timer = FALSE] \in Editor BY <1>1 DEF Editor
    <2> QED BY <2>1, <1>1, FlushedSaves
  <1>3. left.dirty /\ left.flush \notin Saving => Strands(d)
    <2>1. CASE ed[d].dirty BY <2>1, <1>1, FlushedSaves DEF Strands
    <2>2. CASE ~ed[d].dirty BY <2>2, <1>1 DEF Editor
    <2> QED BY <2>1, <2>2
  <1>4. gone \in Editor /\ gone.dirty = left.dirty /\ gone.flush = left.flush
    <2> HIDE DEF left
    <2> QED BY <1>2 DEF Editor
  <1>5. /\ ed' = [ed EXCEPT ![d] = gone] /\ disk' = disk
        /\ Strands(d) => d \in stranded'
        /\ stranded \subseteq stranded'
    BY DEF CloseTab, StrandedBy
  <1> HIDE DEF gone, left
  <1>6. ed' \in [Docs -> Editor] BY <1>4, <1>5 DEF EdInv, EdTypes
  <1>7. ASSUME NEW x \in Docs PROVE HasSave(ed'[x], x \in stranded')
    <2>1. CASE x = d
      <3>1. ed'[d] = gone BY <1>5 DEF EdInv, EdTypes
      <3> QED BY <2>1, <3>1, <1>3, <1>4, <1>5 DEF HasSave
    <2>2. CASE x # d
      BY <2>2, <1>5 DEF EdInv, EdTypes, UnsavedIsScheduled, HasSave
    <2> QED BY <2>1, <2>2
  <1> QED BY <1>5, <1>6, <1>7 DEF EdInv, EdTypes, UnsavedIsScheduled, HasSave

\* A step of one editor's save keeps it, if it does so for that editor.
LEMMA SaveStepKeeps ==
    ASSUME EdInv, NEW d \in Docs, NEW e \in Editor, ed' = [ed EXCEPT ![d] = e],
           disk' \in [Docs -> BOOLEAN], stranded' = stranded, HasSave(e, d \in stranded)
    PROVE  EdInv'
  <1>1. ed' \in [Docs -> Editor] BY DEF EdInv, EdTypes
  <1>2. ASSUME NEW x \in Docs PROVE HasSave(ed'[x], x \in stranded')
    <2>1. CASE x = d BY <2>1 DEF EdInv, EdTypes
    <2>2. CASE x # d BY <2>2 DEF EdInv, EdTypes, UnsavedIsScheduled, HasSave
    <2> QED BY <2>1, <2>2
  <1> QED BY <1>1, <1>2 DEF EdInv, EdTypes, UnsavedIsScheduled, HasSave

\* The steps between the request and the answer of a save, and the end of a flush.
LEMMA SaveKeeps ==
    ASSUME EdInv, NEW d \in Docs,
           Isolate(d) \/ Install(d) \/ Saved(d) \/ SaveRefused(d) \/ FlushEnds(d)
    PROVE  EdInv'
  <1>1. ed[d] \in Editor /\ disk[d] \in BOOLEAN BY DEF EdInv, EdTypes
  <1>2. HasSave(ed[d], d \in stranded) BY DEF EdInv, UnsavedIsScheduled, HasSave
  <1>3. CASE Isolate(d)
    <2> DEFINE e == [ed[d] EXCEPT !.flush = "isolated"]
    <2>1. e \in Editor /\ HasSave(e, d \in stranded) BY <1>1 DEF Editor, HasSave, Saving
    <2>2. ed' = [ed EXCEPT ![d] = e] /\ disk' = disk /\ stranded' = stranded
      BY <1>3 DEF Isolate, history
    <2> QED BY <2>1, <2>2, SaveStepKeeps DEF EdInv, EdTypes
  <1>4. CASE Install(d)
    <2> DEFINE e == [ed[d] EXCEPT !.flush = "installed"]
    <2>1. e \in Editor /\ HasSave(e, d \in stranded) BY <1>1 DEF Editor, HasSave, Saving
    <2>2. ed' = [ed EXCEPT ![d] = e] /\ stranded' = stranded
      BY <1>4 DEF Install, history
    <2>3. disk' \in [Docs -> BOOLEAN]
      BY <1>1, <1>4 DEF Install, EdInv, EdTypes, Editor
    <2> QED BY <2>1, <2>2, <2>3, SaveStepKeeps
  <1>5. CASE Saved(d)
    <2> DEFINE again == [ed[d] EXCEPT !.flush = "sent", !.sent = ed[d].text, !.typed = FALSE,
                                      !.status = "saved"]
               done == [ed[d] EXCEPT !.flush = "table", !.dirty = FALSE, !.ok = TRUE,
                                     !.status = "saved"]
               e == IF ed[d].typed THEN again ELSE done
    <2>1. again \in Editor /\ HasSave(again, d \in stranded)
      BY <1>1 DEF Editor, HasSave, Saving
    <2>2. done \in Editor /\ HasSave(done, d \in stranded)
      BY <1>1 DEF Editor, HasSave, Saving
    <2>3. ed' = [ed EXCEPT ![d] = e] /\ disk' = disk /\ stranded' = stranded
      BY <1>5 DEF Saved, history
    <2> HIDE DEF again, done
    <2> QED BY <2>1, <2>2, <2>3, SaveStepKeeps DEF EdInv, EdTypes
  <1>6. CASE SaveRefused(d)
    <2> DEFINE e == [ed[d] EXCEPT !.flush = "table", !.ok = FALSE, !.status = "error"]
    <2>1. e \in Editor /\ HasSave(e, d \in stranded) BY <1>1 DEF Editor, HasSave, Saving
    <2>2. ed' = [ed EXCEPT ![d] = e] /\ disk' = disk /\ stranded' = stranded
      BY <1>6 DEF SaveRefused, history, EdInv, EdTypes, Editor
    <2> QED BY <2>1, <2>2, SaveStepKeeps DEF EdInv, EdTypes
  <1>7. CASE FlushEnds(d)
    <2> DEFINE shown == IF ed[d].open THEN ed[d].text ELSE disk[d]
               e == [ed[d] EXCEPT !.flush = "none", !.text = shown]
    <2>1. e \in Editor /\ HasSave(e, d \in stranded)
      BY <1>1, <1>2, <1>7 DEF FlushEnds, Editor, HasSave, Saving
    <2>2. ed' = [ed EXCEPT ![d] = e] /\ disk' = disk /\ stranded' = stranded
      BY <1>7 DEF FlushEnds, history, EdInv, EdTypes, Editor
    <2> QED BY <2>1, <2>2, SaveStepKeeps DEF EdInv, EdTypes
  <1> QED BY <1>3, <1>4, <1>5, <1>6, <1>7

\* What touches no editor and strands nothing keeps it.
LEMMA EditorsAlone ==
    ASSUME EdInv, ed' = ed, disk' = disk, stranded' = stranded PROVE EdInv'
  BY DEF EdInv, EdTypes, UnsavedIsScheduled
-----------------------------------------------------------------------------
\* Every window starts with one connection, which is registered.
LEMMA SessionInit == Init => SessInv
  BY DEF Init, SessInv, SessTypes, EndedIsNotPresent, ConnectedIsRegistered, Idle

\* A broken connection is one that has ended.
LEMMA BreakKeeps == ASSUME SessInv, NEW w \in Windows, Break(w) PROVE SessInv'
  <1> USE DEF Break, SessInv
  <1>1. SessTypes' BY DEF SessTypes, barrier
  <1>2. EndedIsNotPresent' BY DEF SessTypes, EndedIsNotPresent
  <1>3. ConnectedIsRegistered' BY DEF SessTypes, ConnectedIsRegistered, history
  <1> QED BY <1>1, <1>2, <1>3

\* A new connection has a number no earlier one had, and AddPushChan is under way.
LEMMA ConnectKeeps == ASSUME SessInv, NEW w \in Windows, Connect(w) PROVE SessInv'
  <1> USE DEF Connect, SessInv
  <1>1. SessTypes' BY DEF SessTypes
  <1>2. EndedIsNotPresent' BY DEF SessTypes, EndedIsNotPresent
  <1>3. ConnectedIsRegistered' BY DEF SessTypes, ConnectedIsRegistered, history, Idle
  <1> QED BY <1>1, <1>2, <1>3

\* The session is stored, or lost with the map.
LEMMA RegisterKeeps == ASSUME SessInv, NEW w \in Windows, Register(w) PROVE SessInv'
  <1> USE DEF Register, SessInv
  <1>1. SessTypes' BY DEF SessTypes
  <1>2. EndedIsNotPresent' BY DEF EndedIsNotPresent
  <1>3. ConnectedIsRegistered' BY DEF SessTypes, ConnectedIsRegistered
  <1> QED BY <1>1, <1>2, <1>3

\* What is removed is not the present connection's, or is remembered as displaced.
LEMMA UnregisterKeeps ==
    ASSUME SessInv, NEW w \in Windows, NEW n \in stale[w], Unregister(w, n) PROVE SessInv'
  <1> USE DEF Unregister, SessInv
  <1>1. SessTypes' BY DEF SessTypes
  <1>2. EndedIsNotPresent' BY DEF SessTypes, EndedIsNotPresent
  <1>3. ConnectedIsRegistered'
    BY DEF SessTypes, EndedIsNotPresent, ConnectedIsRegistered
  <1> QED BY <1>1, <1>2, <1>3

\* The same of the map.
LEMMA DropKeeps == ASSUME SessInv, NEW w \in Windows, DropMap(w) PROVE SessInv'
  <1> USE DEF DropMap, SessInv
  <1>1. SessTypes' BY DEF SessTypes
  <1>2. EndedIsNotPresent' BY DEF EndedIsNotPresent
  <1>3. ConnectedIsRegistered' BY DEF SessTypes, ConnectedIsRegistered
  <1> QED BY <1>1, <1>2, <1>3

\* What touches no connection and displaces nothing keeps it.
LEMMA SessionsAlone == ASSUME SessInv, UNCHANGED <<sessions, displaced>> PROVE SessInv'
  BY DEF SessInv, SessTypes, EndedIsNotPresent, ConnectedIsRegistered, sessions
-----------------------------------------------------------------------------
\* Every step keeps both.
LEMMA ScanNext == ASSUME EdInv, SessInv, [Next]_vars PROVE EdInv' /\ SessInv'
  <1>1. ASSUME NEW d \in Docs, NEW ref \in BOOLEAN, Type(d, ref) PROVE EdInv' /\ SessInv'
    BY <1>1, TypeKeeps, SessionsAlone DEF Type
  <1>2. ASSUME NEW d \in Docs, CloseTab(d) PROVE EdInv' /\ SessInv'
    BY <1>2, CloseKeeps, SessionsAlone DEF CloseTab
  <1>3. ASSUME NEW d \in Docs, TimerFires(d) PROVE EdInv' /\ SessInv'
    BY <1>3, TimerKeeps, SessionsAlone DEF TimerFires
  <1>4. ASSUME NEW d \in Docs,
               Isolate(d) \/ Install(d) \/ Saved(d) \/ SaveRefused(d) \/ FlushEnds(d)
        PROVE EdInv' /\ SessInv'
    <2>1. UNCHANGED <<sessions, displaced>>
      BY <1>4 DEF Isolate, Install, Saved, SaveRefused, FlushEnds, history
    <2> QED BY <1>4, <2>1, SaveKeeps, SessionsAlone
  <1>5. ASSUME NEW w \in Windows, NEW r \in Requests, FlushAll(w, r) PROVE EdInv' /\ SessInv'
    <2> DEFINE open == {d \in DocsOf(w) : ed[d].open}
    <2>1. open \in SUBSET Docs BY DEF DocsOf
    <2>2. /\ ed' = [d \in Docs |-> IF d \in open THEN Flushed(ed[d]) ELSE ed[d]]
          /\ StrandedBy(open) /\ disk' = disk /\ UNCHANGED <<sessions, displaced>>
      BY <1>5 DEF FlushAll
    <2> HIDE DEF open
    <2> QED BY <2>1, <2>2, FlushKeeps, SessionsAlone
  <1>6. ASSUME NEW w \in Windows, Break(w) \/ Connect(w) \/ Register(w) \/ DropMap(w)
        PROVE EdInv' /\ SessInv'
    <2>1. ed' = ed /\ disk' = disk /\ stranded' = stranded
      BY <1>6 DEF Break, Connect, Register, DropMap, editors, history
    <2> QED BY <1>6, <2>1, EditorsAlone, BreakKeeps, ConnectKeeps, RegisterKeeps, DropKeeps
  <1>7. ASSUME NEW w \in Windows, NEW n \in stale[w], Unregister(w, n) PROVE EdInv' /\ SessInv'
    <2>1. ed' = ed /\ disk' = disk /\ stranded' = stranded BY <1>7 DEF Unregister, editors
    <2> QED BY <1>7, <2>1, EditorsAlone, UnregisterKeeps
  <1>8. ASSUME NEW w \in Windows, NEW r \in Requests, Ack(w, r) \/ Unheard(w, r)
        PROVE EdInv' /\ SessInv'
    <2>1. UNCHANGED <<ed, disk, stranded, sessions, displaced>>
      BY <1>8 DEF Ack, Unheard, editors, history
    <2> QED BY <2>1, EditorsAlone, SessionsAlone
  <1>9. ASSUME NEW r \in Requests,
               \/ Begin(r) \/ Broadcast(r) \/ Timeout(r) \/ WaitEnds(r)
               \/ ListFiles(r) \/ ReadFile(r) \/ ScanEnds(r) \/ RemoveUnused(r)
        PROVE EdInv' /\ SessInv'
    <2>1. UNCHANGED <<ed, disk, stranded, sessions, displaced>>
      BY <1>9 DEF Begin, Broadcast, Timeout, WaitEnds, ListFiles, ReadFile, ScanEnds,
                  RemoveUnused, editors, history
    <2> QED BY <2>1, EditorsAlone, SessionsAlone
  <1>10. CASE UNCHANGED vars
    BY <1>10, EditorsAlone, SessionsAlone DEF vars, editors, history
  <1>11. CASE SystemStep
    BY <1>11, <1>3, <1>4, <1>5, <1>6, <1>7, <1>8, <1>9 DEF SystemStep
  <1>12. CASE Mishap
    BY <1>12, <1>4, <1>6, <1>8 DEF Mishap
  <1> QED BY <1>1, <1>2, <1>9, <1>10, <1>11, <1>12 DEF Next

\* An unsaved edit is being saved or will be, or its save has failed, or it was typed
\* between the last save of a flush and that flush's end and another flush was asked for
\* before the end: for any number of editors, edits, requests and mishaps.
THEOREM EditsHaveSaves == Spec => []UnsavedIsScheduled
  <1>1. Init => EdInv /\ SessInv BY EditorInit, SessionInit
  <1>2. EdInv /\ SessInv /\ [Next]_vars => (EdInv /\ SessInv)' BY ScanNext
  <1>3. EdInv /\ SessInv => UnsavedIsScheduled BY DEF EdInv
  <1> QED BY <1>1, <1>2, <1>3, PTL DEF Spec

\* A connected window is registered unless it was displaced: for any number of windows and
\* of lost connections.
THEOREM WindowsAreRegistered == Spec => []ConnectedIsRegistered
  <1>1. Init => EdInv /\ SessInv BY EditorInit, SessionInit
  <1>2. EdInv /\ SessInv /\ [Next]_vars => (EdInv /\ SessInv)' BY ScanNext
  <1>3. EdInv /\ SessInv => ConnectedIsRegistered BY DEF SessInv
  <1> QED BY <1>1, <1>2, <1>3, PTL DEF Spec
-----------------------------------------------------------------------------
(* What a scan may rely on. *)

InFlush == [step : {"flushing"}, waits : SUBSET Docs, ok : BOOLEAN]
Handler == {Idle} \cup InFlush \cup [step : {"over"}]
Scan == [left : SUBSET Docs, found : BOOLEAN]
Barrier == [expected : SUBSET Windows, acked : SUBSET Windows, closed : BOOLEAN, err : BOOLEAN]
Phases == {"none", "listed", "waiting", "list", "walk", "remove", "over"}
ScanTypes ==
    /\ asset \in BOOLEAN
    /\ lock \in Docs \cup {"free"} /\ away = {lock} \ {"free"}
    /\ inbox \in [Windows -> SUBSET Requests]
    /\ handler \in [Windows -> [Requests -> Handler]]
    /\ request \in [Requests -> Phases]
    /\ pending \in [Requests -> Barrier]
    /\ scan \in [Requests -> Scan]
    /\ excused \in [Requests -> SUBSET Docs]

\* The reference may still be, or come, into d's file without an edit: it
\* is in the editor, in the file, or in a save that is not installed yet.
Landing(d) == ed[d].flush \in {"sent", "isolated"} /\ ed[d].sent
Could(d) == ed[d].text \/ disk[d] \/ Landing(d)

\* A scan that reads d's file from now on finds the reference, or there is
\* none; no save that is under way will take it out again.
Settled(d) ==
    /\ Could(d) => disk[d]
    /\ ed[d].text /\ ed[d].flush \in {"sent", "isolated"} => ed[d].sent

\* An editor and its file, and the lock.
Editing ==
    \A d \in Docs :
        /\ ed[d].flush \in Saving \/ ed[d].typed => ed[d].dirty
        /\ ed[d].flush \in Saving /\ ~ed[d].typed => ed[d].sent = ed[d].text
        /\ ed[d].flush = "installed" => ed[d].sent = disk[d]
        /\ ed[d].flush \in {"none", "table"} /\ ~ed[d].dirty => ed[d].text = disk[d]
        /\ ed[d].flush = "none" /\ ~ed[d].open => ed[d].text = disk[d]
        /\ ed[d].flush = "isolated" <=> lock = d

\* A barrier, from its list of windows to its end.
Asked(r) ==
    /\ request[r] \in {"none", "listed"} =>
          \A w \in Windows : handler[w][r] = Idle /\ r \notin inbox[w]
    /\ \A w \in Windows : r \in inbox[w] => handler[w][r] = Idle
    /\ request[r] \in {"listed", "waiting"} =>
          \A d \in Docs \ excused[r] : WindowOf[d] \in pending[r].expected
    /\ pending[r].acked \subseteq pending[r].expected
    /\ pending[r].closed /\ ~pending[r].err => pending[r].acked = pending[r].expected
    /\ request[r] = "listed" => pending[r].acked = {} /\ ~pending[r].err
    /\ request[r] \in {"list", "walk", "remove"} => ~pending[r].err
Asking == \A r \in Requests : Asked(r)

\* What a window's flushes are worth that a barrier waits for.
WorthWaiting(r, d) ==
    LET h == handler[WindowOf[d]][r]
    IN request[r] = "waiting" /\ h.step = "flushing" =>
         /\ d \in h.waits => ed[d].flush # "none"
         /\ d \notin excused[r] /\ h.ok /\ d \notin h.waits => Settled(d)
         /\ d \notin excused[r] /\ d \in h.waits /\ ed[d].flush = "table" /\ ed[d].ok => Settled(d)
Flushing == \A r \in Requests, d \in Docs : WorthWaiting(r, d)

\* What the answer of a window is worth.
Answered ==
    \A r \in Requests, d \in Docs :
        request[r] = "waiting" /\ WindowOf[d] \in pending[r].acked =>
            /\ handler[WindowOf[d]][r].step = "over"
            /\ d \notin excused[r] => Settled(d)

\* What a scan has read, and will find in what it has not.
Reading ==
    \A r \in Requests : \A d \in Docs \ excused[r] :
        /\ request[r] = "list" => Settled(d)
        /\ request[r] = "walk" /\ d \in scan[r].left => Settled(d)
        /\ request[r] = "walk" /\ d \notin scan[r].left /\ ~scan[r].found => ~Could(d)
        /\ request[r] = "remove" => ~Could(d)

ScanInv == Editing /\ Asking /\ Flushing /\ Answered /\ Reading
-----------------------------------------------------------------------------
\* The records of the barrier, the scan and the handlers.
LEMMA FailedFacts ==
    ASSUME NEW b \in Barrier
    PROVE  LET x == [b EXCEPT !.closed = TRUE, !.err = TRUE]
           IN x \in Barrier /\ x.acked = b.acked /\ x.err /\ x.expected = b.expected
  <1>1. [b EXCEPT !.closed = TRUE, !.err = TRUE] \in Barrier
    BY DEF Barrier
  <1>2. LET x == [b EXCEPT !.closed = TRUE, !.err = TRUE]
        IN x.acked = b.acked /\ x.err /\ x.expected = b.expected
    BY DEF Barrier
  <1> QED BY <1>1, <1>2

LEMMA ScanFacts ==
    ASSUME NEW s \in Scan, NEW ds \in SUBSET Docs
    PROVE  [s EXCEPT !.left = ds] \in Scan
  BY DEF Scan

LEMMA EmptyFacts ==
    /\ Unset \in Barrier /\ Unset.acked = {} /\ ~Unset.err
    /\ Unread \in Scan /\ Unread.left = {} /\ ~Unread.found
  BY DEF Barrier, Scan, Unset, Unread

\* The types of the barrier that timed out, and of the scan that starts.
LEMMA TimeoutTypes ==
    ASSUME ScanTypes, NEW r \in Requests, Timeout(r)
    PROVE  ScanTypes'
  <1> DEFINE after == [pending[r] EXCEPT !.closed = TRUE, !.err = TRUE]
  <1>1. pending[r] \in Barrier
    BY DEF ScanTypes
  <1>2. after \in Barrier
    BY <1>1, FailedFacts
  <1>3. pending' = [pending EXCEPT ![r] = after]
    BY DEF Timeout
  <1> HIDE DEF after
  <1> QED BY <1>2, <1>3 DEF Timeout, editors, history, ScanTypes

LEMMA ListFilesTypes ==
    ASSUME ScanTypes, NEW r \in Requests, ListFiles(r)
    PROVE  ScanTypes'
  <1> DEFINE after == [scan[r] EXCEPT !.left = Docs \ away]
  <1>1. scan[r] \in Scan
    BY DEF ScanTypes
  <1>2. after \in Scan
    BY <1>1, ScanFacts
  <1>3. scan' = [scan EXCEPT ![r] = after]
    BY DEF ListFiles
  <1> HIDE DEF after
  <1>4. away \in SUBSET Docs
    BY DEF ScanTypes
  <1> QED BY <1>2, <1>3, <1>4 DEF ListFiles, editors, ScanTypes, Phases

\* The windows asked are those registered; the documents of the others are excused.
LEMMA BeginScans ==
    ASSUME EdTypes, ScanTypes, ScanInv, EdTypes', NEW r \in Requests, Begin(r)
    PROVE  ScanTypes' /\ ScanInv'
  <1> DEFINE asked == [Unset EXCEPT !.expected = Registered, !.closed = Registered = {}]
  <1>1. /\ pending' = [pending EXCEPT ![r] = asked]
        /\ request' = [request EXCEPT ![r] = "listed"] /\ request[r] = "none"
        /\ excused' = [excused EXCEPT ![r] = {d \in Docs : WindowOf[d] \notin Registered}]
        /\ UNCHANGED <<asset, disk, lock, away, ed, inbox, handler, scan>>
    BY DEF Begin, editors
  <1>2. Registered \in SUBSET Windows
    BY DEF Registered
  <1>3. /\ asked \in Barrier /\ asked.acked = {} /\ asked.expected = Registered /\ ~asked.err
        /\ asked.closed => Registered = {}
    <2> DEFINE nobody == Registered = {}
    <2>1. nobody \in BOOLEAN
      OBVIOUS
    <2> HIDE DEF nobody
    <2>2. [Unset EXCEPT !.expected = Registered, !.closed = nobody] \in Barrier
      BY <1>2, <2>1, EmptyFacts DEF Barrier
    <2>3. LET x == [Unset EXCEPT !.expected = Registered, !.closed = nobody]
          IN /\ x.acked = Unset.acked /\ x.closed = nobody /\ x.err = Unset.err
             /\ x.expected = Registered
      BY EmptyFacts DEF Barrier
    <2> QED BY <2>2, <2>3, EmptyFacts DEF nobody
  <1> HIDE DEF asked
  <1>4. ScanTypes'
    <2>1. pending' \in [Requests -> Barrier]
      BY <1>1, <1>3 DEF ScanTypes
    <2> QED BY <2>1, <1>1, <1>2 DEF ScanTypes, Phases
  <1>5. Editing'
    BY <1>1 DEF ScanInv, Editing
  <1>6. pending'[r] = asked /\ \A q \in Requests \ {r} : pending'[q] = pending[q]
    BY <1>1 DEF ScanTypes
  <1>7. Asking'
    <2> HIDE DEF Registered
    <2>1. ASSUME NEW q \in Requests PROVE Asked(q)'
      <3>1. CASE q = r
        <4>1. /\ request'[r] = "listed"
              /\ excused'[r] = {d \in Docs : WindowOf[d] \notin Registered}
          BY <1>1 DEF ScanTypes
        <4>2. \A w \in Windows : handler'[w][r] = Idle /\ r \notin inbox'[w]
          BY <1>1 DEF ScanInv, Asking, Asked
        <4>3. /\ pending'[r].acked = {} /\ ~pending'[r].err /\ pending'[r].expected = Registered
              /\ pending'[r].closed => Registered = {}
          BY <1>3, <1>6
        <4> QED BY <3>1, <4>1, <4>2, <4>3 DEF Asked
      <3>2. CASE q # r
        BY <3>2, <1>1, <1>6 DEF ScanInv, Asking, Asked, ScanTypes
      <3> QED BY <3>1, <3>2
    <2> QED BY <2>1 DEF Asking
  <1>8. Flushing' /\ Answered' /\ Reading'
    BY <1>1, <1>6 DEF ScanInv, Flushing, WorthWaiting, Answered, Reading, Settled, Could, Landing, ScanTypes
  <1> QED BY <1>4, <1>5, <1>7, <1>8 DEF ScanInv

\* The answer of a window whose flushes are over settles its documents.
LEMMA AckScans ==
    ASSUME EdTypes, ScanTypes, ScanInv, EdTypes', NEW w \in Windows, NEW r \in Requests,
           Ack(w, r)
    PROVE  ScanTypes' /\ ScanInv'
  <1> DEFINE before == pending[r]
             acked == before.acked \cup {w}
             answered == [before EXCEPT !.acked = acked, !.closed = acked = before.expected]
             refused == [before EXCEPT !.closed = TRUE, !.err = TRUE]
             after == IF request[r] = "waiting" THEN Acked(before, w, handler[w][r].ok) ELSE before
  <1>1. /\ handler' = [handler EXCEPT ![w] = [handler[w] EXCEPT ![r] = [step |-> "over"]]]
        /\ handler[w][r].step = "flushing" /\ handler[w][r].waits = {}
        /\ pending' = [pending EXCEPT ![r] = after]
        /\ UNCHANGED <<asset, disk, lock, away, ed, inbox, request, scan, excused>>
    BY DEF Ack, editors, history, ScanTypes
  <1>2. before \in Barrier /\ acked \in SUBSET Windows
    BY DEF ScanTypes, Barrier
  <1>3. /\ answered \in Barrier /\ answered.acked = acked /\ answered.err = before.err
        /\ answered.expected = before.expected /\ answered.closed = (acked = before.expected)
    <2> DEFINE full == acked = before.expected
    <2>1. full \in BOOLEAN
      OBVIOUS
    <2> HIDE DEF full, before, acked
    <2>2. [before EXCEPT !.acked = acked, !.closed = full] \in Barrier
      BY <1>2, <2>1 DEF Barrier
    <2>3. LET x == [before EXCEPT !.acked = acked, !.closed = full]
          IN /\ x.acked = acked /\ x.closed = full /\ x.err = before.err
             /\ x.expected = before.expected
      BY <1>2 DEF Barrier
    <2> QED BY <2>2, <2>3 DEF full
  <1>4. /\ refused \in Barrier /\ refused.acked = before.acked /\ refused.err
        /\ refused.expected = before.expected
    BY <1>2, FailedFacts
  <1>5. \/ after = before
        \/ request[r] = "waiting" /\ w \in before.expected /\ ~before.closed
           /\ handler[w][r].ok /\ after = answered
        \/ request[r] = "waiting" /\ after = refused
    BY DEF Acked
  <1>6. before.closed /\ ~before.err => before.acked = before.expected
    BY DEF ScanInv, Asking, Asked
  <1> HIDE DEF before, acked, answered, refused, after
  <1>7. /\ after \in Barrier /\ after.expected = before.expected
        /\ after.closed /\ ~after.err => after.acked = after.expected
        /\ request[r] # "waiting" => after = before
        /\ \A v \in after.acked : v \notin before.acked =>
               v = w /\ w \in before.expected /\ handler[w][r].ok
    <2>1. CASE after = before
      BY <2>1, <1>2, <1>6
    <2>2. CASE after = refused /\ request[r] = "waiting"
      BY <2>2, <1>4
    <2>3. CASE after = answered /\ request[r] = "waiting" /\ w \in before.expected /\ handler[w][r].ok
      BY <2>3, <1>3 DEF acked
    <2> QED BY <1>5, <2>1, <2>2, <2>3
  <1>8. pending' \in [Requests -> Barrier]
    BY <1>1, <1>7 DEF ScanTypes
  <1>9. pending'[r] = after /\ \A q \in Requests \ {r} : pending'[q] = pending[q]
    BY <1>1 DEF ScanTypes
  <1>10. /\ handler' \in [Windows -> [Requests -> Handler]]
         /\ handler'[w][r] = [step |-> "over"]
         /\ \A v \in Windows, q \in Requests : v # w \/ q # r => handler'[v][q] = handler[v][q]
    BY <1>1 DEF ScanTypes, Handler
  <1>11. ScanTypes'
    BY <1>1, <1>8, <1>10 DEF ScanTypes
  <1>12. Editing' /\ Reading'
    BY <1>1 DEF ScanInv, Editing, Reading, Settled, Could, Landing
  <1>13. Asking'
    <2>1. ASSUME NEW q \in Requests PROVE Asked(q)'
      <3>1. CASE q = r
        <4>1. handler[w][r] # Idle
          BY <1>1 DEF Idle
        <4> QED
          BY <3>1, <4>1, <1>1, <1>7, <1>9, <1>10 DEF ScanInv, Asking, Asked, before
      <3>2. CASE q # r
        BY <3>2, <1>1, <1>9, <1>10 DEF ScanInv, Asking, Asked
      <3> QED BY <3>1, <3>2
    <2> QED BY <2>1 DEF Asking
  <1>14. Flushing'
    BY <1>1, <1>10, WindowsAssumption DEF ScanInv, Flushing, WorthWaiting, Settled, Could, Landing
  <1>15. Answered'
    BY <1>1, <1>7, <1>9, <1>10, WindowsAssumption
       DEF ScanInv, Answered, Flushing, WorthWaiting, Settled, Could, Landing, before
  <1> QED BY <1>11, <1>12, <1>13, <1>14, <1>15 DEF ScanInv

(* What a flush leaves of an editor.                                       *)
SameSave(e, f) ==
    /\ f.open = e.open /\ f.text = e.text /\ f.dirty = e.dirty /\ f.flush = e.flush
    /\ f.sent = e.sent /\ f.typed = e.typed /\ f.ok = e.ok
Asleep(e, f) ==
    /\ e.flush = "none" /\ f.open = e.open /\ f.text = e.text /\ f.dirty = e.dirty
    /\ \/ e.dirty /\ f.flush = "sent" /\ f.sent = e.text /\ ~f.typed
       \/ ~e.dirty /\ f.flush = "table" /\ f.typed = e.typed

\* What a flush does to an editor, in either case.
LEMMA FlushedFacts ==
    ASSUME NEW e \in Editor
    PROVE  /\ e.flush # "none" => SameSave(e, Flushed(e))
           /\ e.flush = "none" => Asleep(e, Flushed(e))
  <1>1. CASE e.flush # "none"
    BY <1>1 DEF Flushed, Editor, SameSave
  <1>2. CASE e.flush = "none" /\ e.dirty
    BY <1>2 DEF Flushed, Editor, Asleep
  <1>3. CASE e.flush = "none" /\ ~e.dirty
    BY <1>3 DEF Flushed, Editor, Asleep
  <1> QED BY <1>1, <1>2, <1>3

\* The window flushes its editors: what its handler waits for is under way, the rest settled.
LEMMA FlushAllScans ==
    ASSUME EdTypes, ScanTypes, ScanInv, EdTypes', NEW w \in Windows, NEW r \in Requests,
           FlushAll(w, r)
    PROVE  ScanTypes' /\ ScanInv'
  <1> DEFINE begun == [step |-> "flushing", waits |-> Tracked(w), ok |-> TRUE]
             open == {d \in DocsOf(w) : ed[d].open}
  <1>1. /\ r \in inbox[w] /\ inbox' = [inbox EXCEPT ![w] = @ \ {r}]
        /\ handler' = [handler EXCEPT ![w] = [handler[w] EXCEPT ![r] = begun]]
        /\ ed' = [d \in Docs |-> IF d \in open THEN Flushed(ed[d]) ELSE ed[d]]
        /\ excused' = [excused EXCEPT ![r] = @ \cup {d \in DocsOf(w) : Strands(d)}]
        /\ UNCHANGED <<asset, disk, lock, away, request, pending, scan>>
    BY DEF FlushAll, ScanTypes
  <1>2. \A d \in Docs : \/ SameSave(ed[d], ed'[d])
                        \/ Asleep(ed[d], ed'[d]) /\ ed[d].open
    BY <1>1, FlushedFacts DEF EdTypes, SameSave
  <1>3. /\ Tracked(w) \in SUBSET Docs
        /\ \A d \in Docs : d \in Tracked(w) <=> WindowOf[d] = w /\ (ed[d].open \/ ed[d].flush # "none")
    BY DEF Tracked, DocsOf
  <1>4. begun \in Handler /\ begun.step = "flushing" /\ begun.waits = Tracked(w) /\ begun.ok
    BY <1>3 DEF Handler, InFlush
  <1>5. \A d \in Docs : WindowOf[d] = w /\ ed[d].flush = "table" /\ ed[d].dirty => d \in excused'[r]
    BY <1>1 DEF ScanTypes, DocsOf, Strands
  <1>6. \A q \in Requests : excused[q] \subseteq excused'[q] /\ excused'[q] \in SUBSET Docs
    BY <1>1 DEF ScanTypes, DocsOf
  <1> HIDE DEF begun, open
  <1>7. /\ handler' \in [Windows -> [Requests -> Handler]] /\ handler'[w][r] = begun
        /\ \A v \in Windows, q \in Requests : v # w \/ q # r => handler'[v][q] = handler[v][q]
    BY <1>1, <1>4 DEF ScanTypes
  <1>8. ScanTypes'
    BY <1>1, <1>6, <1>7 DEF ScanTypes
  <1>9. Editing'
    BY <1>1, <1>2 DEF ScanInv, Editing, SameSave, Asleep, Saving, EdTypes, Editor
  <1>10. \A d \in Docs : /\ Settled(d) => Settled(d)'
                         /\ ~Could(d) => ~Could(d)'
    BY <1>1, <1>2 DEF Settled, Could, Landing, SameSave, Asleep
  <1>11. Asking'
    <2>1. handler[w][r] = Idle /\ request[r] \notin {"none", "listed"}
      BY <1>1 DEF ScanInv, Asking, Asked
    <2> QED BY <2>1, <1>1, <1>6, <1>7 DEF ScanInv, Asking, Asked, ScanTypes
  <1>12. Reading'
    BY <1>1, <1>6, <1>10 DEF ScanInv, Reading
  <1>13. handler[w][r] = Idle
    BY <1>1 DEF ScanInv, Asking, Asked
  <1>14. Answered'
    BY <1>1, <1>6, <1>7, <1>10, <1>13, WindowsAssumption DEF ScanInv, Answered, Idle
  <1>15. Flushing'
    <2>1. ASSUME NEW q \in Requests, NEW d \in Docs PROVE WorthWaiting(q, d)'
      <3>1. CASE q = r /\ WindowOf[d] = w
        <4>1. d \notin Tracked(w) => Settled(d)
          BY <3>1, <1>3 DEF ScanInv, Editing, Settled, Could, Landing
        <4>2. d \in Tracked(w) => ed'[d].flush # "none"
          BY <1>2, <1>3, <1>1, FlushedFacts DEF SameSave, Asleep, EdTypes, DocsOf, open
        <4>3. ed'[d].flush = "table" /\ d \notin excused'[r] => Settled(d)'
          BY <3>1, <1>1, <1>2, <1>5 DEF ScanInv, Editing, Settled, Could, Landing, SameSave, Asleep, EdTypes, Editor
        <4> QED BY <3>1, <4>1, <4>2, <4>3, <1>4, <1>7, <1>10 DEF WorthWaiting
      <3>2. CASE q # r \/ WindowOf[d] # w
        <4>1. handler'[WindowOf[d]][q] = handler[WindowOf[d]][q]
          BY <3>2, <1>7, WindowsAssumption
        <4>2. ed[d].flush # "none" => ed'[d].flush = ed[d].flush /\ ed'[d].ok = ed[d].ok
          BY <1>2 DEF SameSave, Asleep
        <4> QED
          BY <4>1, <4>2, <1>1, <1>6, <1>10 DEF ScanInv, Flushing, WorthWaiting
      <3> QED BY <3>1, <3>2
    <2> QED BY <2>1 DEF Flushing
  <1> QED BY <1>8, <1>9, <1>11, <1>12, <1>14, <1>15 DEF ScanInv

\* A flush that ends well has settled its document.
LEMMA FlushEndsScans ==
    ASSUME EdTypes, ScanTypes, ScanInv, EdTypes', NEW d \in Docs, FlushEnds(d)
    PROVE  ScanTypes' /\ ScanInv'
  <1> DEFINE w == WindowOf[d]
             shown == IF ed[d].open THEN ed[d].text ELSE disk[d]
             left == [ed[d] EXCEPT !.flush = "none", !.text = shown]
  <1>1. /\ ed[d].flush = "table"
        /\ UNCHANGED <<asset, disk, lock, away, inbox, request, pending, scan, excused>>
    BY DEF FlushEnds, history
  <1>A. handler' = [handler EXCEPT ![w] = [q \in Requests |-> Told(d, handler[w][q])]]
    BY DEF FlushEnds
  <1>B. ed' = [ed EXCEPT ![d] = left]
    BY DEF FlushEnds, EdTypes, Editor
  <1>C. /\ left.flush = "none" /\ left.open = ed[d].open /\ left.dirty = ed[d].dirty
         /\ left.typed = ed[d].typed /\ left.ok = ed[d].ok /\ left.text = shown
    BY DEF EdTypes, Editor
  <1>2. ASSUME NEW h \in Handler
        PROVE  /\ Told(d, h) \in Handler /\ Told(d, h).step = h.step
               /\ h.step # "flushing" => Told(d, h) = h
               /\ h.step = "flushing" =>
                    /\ Told(d, h).waits = h.waits \ {d}
                    /\ Told(d, h).ok => h.ok /\ (d \in h.waits => ed[d].ok)
    <2>1. CASE ~(h.step = "flushing" /\ d \in h.waits)
      <3>1. Told(d, h) = h
        BY <2>1 DEF Told
      <3> QED BY <3>1, <2>1 DEF Handler, InFlush
    <2>2. CASE h.step = "flushing" /\ d \in h.waits
      <3>1. h \in InFlush
        BY <2>2 DEF Handler, Idle
      <3> DEFINE ok == h.ok /\ ed[d].ok
                 ds == h.waits \ {d}
      <3>2. ok \in BOOLEAN /\ ds \in SUBSET Docs
        BY <3>1 DEF InFlush, EdTypes, Editor
      <3>3. Told(d, h) = [h EXCEPT !.waits = ds, !.ok = ok]
        BY <2>2 DEF Told
      <3> HIDE DEF ok, ds
      <3>4. [h EXCEPT !.waits = ds, !.ok = ok] \in InFlush
        BY <3>1, <3>2 DEF InFlush
      <3>5. LET x == [h EXCEPT !.waits = ds, !.ok = ok]
            IN x.step = "flushing" /\ x.waits = ds /\ x.ok = ok
        BY <3>1 DEF InFlush
      <3>6. Told(d, h) \in Handler /\ Told(d, h).step = "flushing" /\ Told(d, h).waits = ds /\ Told(d, h).ok = ok
        BY <3>3, <3>4, <3>5 DEF Handler
      <3> QED BY <2>2, <3>6 DEF ds, ok
    <2> QED BY <2>1, <2>2
  <1> HIDE DEF w, left
  <1>3. w \in Windows
    BY WindowsAssumption DEF w
  <1>4. /\ handler' \in [Windows -> [Requests -> Handler]]
        /\ \A q \in Requests : handler'[w][q] = Told(d, handler[w][q])
        /\ \A v \in Windows, q \in Requests : v # w => handler'[v][q] = handler[v][q]
    BY <1>A, <1>2, <1>3 DEF ScanTypes
  <1>5. \A v \in Windows, q \in Requests : handler[v][q] \in Handler
    BY DEF ScanTypes
  <1>6. ScanTypes'
    BY <1>1, <1>4 DEF ScanTypes
  <1>7. /\ \A x \in Docs \ {d} : ed'[x] = ed[x]
        /\ ed'[d].flush = "none" /\ ed'[d].open = ed[d].open /\ ed'[d].dirty = ed[d].dirty
        /\ ed'[d].typed = ed[d].typed /\ ed'[d].ok = ed[d].ok
        /\ ed[d].open => ed'[d].text = ed[d].text
        /\ ~ed[d].open => ed'[d].text = disk[d]
    BY <1>B, <1>C DEF EdTypes
  <1>8. Editing'
    BY <1>1, <1>7 DEF ScanInv, Editing, EdTypes, Editor, Saving
  <1>9. \A x \in Docs : /\ Settled(x) => Settled(x)'
                        /\ ~Could(x) => ~Could(x)'
    BY <1>1, <1>7 DEF Settled, Could, Landing
  <1>10. Reading'
    BY <1>1, <1>9 DEF ScanInv, Reading
  <1>11. \A v \in Windows, q \in Requests : /\ handler'[v][q].step = handler[v][q].step
                                            /\ handler[v][q] = Idle => handler'[v][q] = Idle
    BY <1>2, <1>4, <1>5 DEF Idle
  <1>12. Asking'
    BY <1>1, <1>11 DEF ScanInv, Asking, Asked
  <1>13. Answered'
    BY <1>1, <1>9, <1>11, WindowsAssumption DEF ScanInv, Answered
  <1>14. Flushing'
    <2>1. ASSUME NEW q \in Requests, NEW x \in Docs PROVE WorthWaiting(q, x)'
      <3> DEFINE h == handler[WindowOf[x]][q]
      <3>1. h \in Handler /\ WindowOf[x] \in Windows
        BY <1>5, WindowsAssumption
      <3>2. WorthWaiting(q, x)
        BY DEF ScanInv, Flushing
      <3>3. CASE x = d
        <4>1. handler'[WindowOf[x]][q] = Told(d, h)
          BY <3>1, <3>3, <1>4 DEF w
        <4> QED BY <3>1, <3>2, <3>3, <4>1, <1>1, <1>2, <1>7, <1>9 DEF WorthWaiting
      <3>4. CASE x # d /\ WindowOf[x] = w
        <4>1. handler'[WindowOf[x]][q] = Told(d, h)
          BY <3>1, <3>4, <1>4
        <4> QED BY <3>1, <3>2, <3>4, <4>1, <1>1, <1>2, <1>7, <1>9 DEF WorthWaiting
      <3>5. CASE WindowOf[x] # w
        <4>1. handler'[WindowOf[x]][q] = h /\ x # d
          BY <3>1, <3>5, <1>4 DEF w
        <4> QED BY <3>1, <3>2, <4>1, <1>1, <1>7, <1>9 DEF WorthWaiting
      <3> QED BY <3>3, <3>4, <3>5
    <2> QED BY <2>1 DEF Flushing
  <1> QED BY <1>6, <1>8, <1>10, <1>12, <1>13, <1>14 DEF ScanInv

\* What is read, found without the reference, cannot get it but from an edit.
LEMMA ReadFileScans ==
    ASSUME EdTypes, ScanTypes, ScanInv, EdTypes', NEW r \in Requests, ReadFile(r)
    PROVE  ScanTypes' /\ ScanInv'
  <1>1. /\ request[r] = "walk"
        /\ UNCHANGED <<asset, disk, lock, away, ed, inbox, handler, pending, excused>>
    BY DEF ReadFile, editors, history
  <1>2. PICK d \in Docs :
          \/ /\ request' = [request EXCEPT ![r] = "over"]
             /\ scan' = [scan EXCEPT ![r] = Unread]
          \/ /\ request' = request
             /\ d \in scan[r].left
             /\ scan' = [scan EXCEPT ![r].left = @ \ {d}, ![r].found = @ \/ disk[d]]
    BY DEF ReadFile, ScanTypes, Scan
  <1>3. /\ scan' \in [Requests -> Scan] /\ request' \in [Requests -> Phases]
        /\ \A q \in Requests \ {r} : scan'[q] = scan[q] /\ request'[q] = request[q]
        /\ \/ request'[r] = "over"
           \/ /\ request'[r] = "walk" /\ d \in scan[r].left
              /\ scan'[r].left = scan[r].left \ {d}
              /\ scan'[r].found <=> scan[r].found \/ disk[d]
    <2>1. CASE request' = [request EXCEPT ![r] = "over"] /\ scan' = [scan EXCEPT ![r] = Unread]
      BY <2>1, EmptyFacts DEF ScanTypes, Phases
    <2>2. CASE /\ request' = request /\ d \in scan[r].left
               /\ scan' = [scan EXCEPT ![r].left = @ \ {d}, ![r].found = @ \/ disk[d]]
      <3> DEFINE ds == scan[r].left \ {d}
                 yes == scan[r].found \/ disk[d]
                 after == [scan[r] EXCEPT !.left = ds, !.found = yes]
      <3>1. scan[r] \in Scan /\ ds \in SUBSET Docs /\ yes \in BOOLEAN
        BY DEF ScanTypes, Scan
      <3>2. scan' = [scan EXCEPT ![r] = after]
        BY <2>2 DEF ScanTypes, Scan
      <3> HIDE DEF ds, yes
      <3>3. after \in Scan
        BY <3>1 DEF Scan
      <3>4. after.left = ds /\ after.found = yes
        BY <3>1 DEF Scan
      <3> HIDE DEF after
      <3> QED BY <2>2, <3>2, <3>3, <3>4, <1>1 DEF ScanTypes, ds, yes
    <2> QED BY <1>2, <2>1, <2>2
  <1>4. ScanTypes'
    BY <1>1, <1>3 DEF ScanTypes
  <1>5. Editing' /\ Asking'
    BY <1>1, <1>3 DEF ScanInv, Editing, Asking, Asked
  <1>6. Flushing' /\ Answered'
    BY <1>1, <1>3 DEF ScanInv, Flushing, WorthWaiting, Answered, Settled, Could, Landing
  <1>7. Reading'
    BY <1>1, <1>3 DEF ScanInv, Reading, Settled, Could, Landing
  <1> QED BY <1>4, <1>5, <1>6, <1>7 DEF ScanInv

\* Nothing was found, and everything was read.
LEMMA ScanEndsScans ==
    ASSUME EdTypes, ScanTypes, ScanInv, EdTypes', NEW r \in Requests, ScanEnds(r)
    PROVE  ScanTypes' /\ ScanInv'
  <1>1. /\ request[r] = "walk" /\ scan[r].left = {}
        /\ request' = [request EXCEPT ![r] = IF scan[r].found THEN "over" ELSE "remove"]
        /\ scan' = [scan EXCEPT ![r] = Unread]
        /\ UNCHANGED <<asset, disk, lock, away, ed, inbox, handler, pending, excused>>
    BY DEF ScanEnds, editors, history
  <1>2. ScanTypes'
    BY <1>1, EmptyFacts DEF ScanTypes, Phases
  <1>3. Editing' /\ Asking'
    BY <1>1 DEF ScanInv, Editing, Asking, Asked, ScanTypes
  <1>4. Flushing' /\ Answered'
    BY <1>1 DEF ScanInv, Flushing, WorthWaiting, Answered, Settled, Could, Landing, ScanTypes
  <1>5. Reading'
    BY <1>1 DEF ScanInv, Reading, Settled, Could, Landing, ScanTypes
  <1> QED BY <1>2, <1>3, <1>4, <1>5 DEF ScanInv

-----------------------------------------------------------------------------
USE DEF EdTypes, ScanTypes, Editor, InFlush, Handler, Barrier, Scan, Phases, Saving, Idle

\* A new reference is excused for the requests that will not learn of it.
LEMMA TypeScans ==
    ASSUME EdTypes, ScanTypes, ScanInv, EdTypes', NEW d \in Docs,
           NEW ref \in BOOLEAN, Type(d, ref)
    PROVE  ScanTypes' /\ ScanInv'
  <1> USE WindowsAssumption DEF ScanInv, Type, Misses, Excuse, sessions,
       barrier, Covers
  <1>1. ScanTypes' OBVIOUS
  <1>2. Asking' /\ Answered'
    BY <1>1 DEF Asking, Asked, Answered, Settled, Could, Landing
  <1>3. Editing'
    BY <1>1 DEF Editing
  <1>4. Flushing'
    BY <1>1 DEF Flushing, WorthWaiting, Settled, Could, Landing
  <1>5. Reading'
    BY <1>1 DEF Reading, Settled, Could, Landing
  <1> QED BY <1>1, <1>2, <1>3, <1>4, <1>5

\* A flush only sends what the editor holds.
LEMMA TimerFiresScans ==
    ASSUME EdTypes, ScanTypes, ScanInv, EdTypes', NEW d \in Docs,
           TimerFires(d)
    PROVE  ScanTypes' /\ ScanInv'
  <1> USE WindowsAssumption DEF ScanInv, TimerFires, Flushed, StrandedBy,
       sessions, barrier, bounds, Strands
  <1>1. ScanTypes' OBVIOUS
  <1>2. Asking' /\ Answered'
    BY <1>1 DEF Asking, Asked, Answered, Settled, Could, Landing
  <1>3. Editing'
    BY <1>1 DEF Editing
  <1>4. Flushing'
    BY <1>1 DEF Flushing, WorthWaiting, Settled, Could, Landing
  <1>5. Reading'
    BY <1>1 DEF Reading, Settled, Could, Landing
  <1> QED BY <1>1, <1>2, <1>3, <1>4, <1>5

\* A tab that closes sends what it holds.
LEMMA CloseTabScans ==
    ASSUME EdTypes, ScanTypes, ScanInv, EdTypes', NEW d \in Docs, CloseTab(d)
    PROVE  ScanTypes' /\ ScanInv'
  <1> USE WindowsAssumption DEF ScanInv, CloseTab, Flushed, StrandedBy,
       sessions, barrier, Strands
  <1>1. ScanTypes' OBVIOUS
  <1>2. Asking' /\ Answered'
    BY <1>1 DEF Asking, Asked, Answered, Settled, Could, Landing
  <1>3. Editing'
    BY <1>1 DEF Editing
  <1>4. Flushing'
    BY <1>1 DEF Flushing, WorthWaiting, Settled, Could, Landing
  <1>5. Reading'
    BY <1>1 DEF Reading, Settled, Could, Landing
  <1> QED BY <1>1, <1>2, <1>3, <1>4, <1>5

\* The file is put away, the save is under way as before.
LEMMA IsolateScans ==
    ASSUME EdTypes, ScanTypes, ScanInv, EdTypes', NEW d \in Docs, Isolate(d)
    PROVE  ScanTypes' /\ ScanInv'
  <1> USE WindowsAssumption, FreeAssumption DEF ScanInv, Isolate, sessions,
       barrier, bounds, history
  <1>1. ScanTypes' OBVIOUS
  <1>2. Editing' /\ Asking' /\ Flushing' /\ Answered' /\ Reading'
    BY <1>1 DEF Editing, Asking, Asked, Flushing, WorthWaiting, Settled,
       Could, Landing, Answered, Reading
  <1> QED BY <1>1, <1>2

\* The file now is what the save sent.
LEMMA InstallScans ==
    ASSUME EdTypes, ScanTypes, ScanInv, EdTypes', NEW d \in Docs, Install(d)
    PROVE  ScanTypes' /\ ScanInv'
  <1> USE WindowsAssumption, FreeAssumption DEF ScanInv, Install, sessions,
       barrier, bounds, history
  <1>1. ScanTypes' OBVIOUS
  <1>2. Asking' /\ Answered'
    BY <1>1 DEF Asking, Asked, Answered, Settled, Could, Landing
  <1>3. Editing'
    BY <1>1 DEF Editing
  <1>4. Flushing'
    BY <1>1 DEF Flushing, WorthWaiting, Settled, Could, Landing
  <1>5. Reading'
    BY <1>1 DEF Reading, Settled, Could, Landing
  <1> QED BY <1>1, <1>2, <1>3, <1>4, <1>5

\* A save that is over has left the file as the editor is, or starts again.
LEMMA SavedScans ==
    ASSUME EdTypes, ScanTypes, ScanInv, EdTypes', NEW d \in Docs, Saved(d)
    PROVE  ScanTypes' /\ ScanInv'
  <1> USE WindowsAssumption DEF ScanInv, Saved, sessions, barrier, bounds,
       history
  <1>1. ScanTypes' OBVIOUS
  <1>2. Asking' /\ Answered'
    BY <1>1 DEF Asking, Asked, Answered, Settled, Could, Landing
  <1>3. Editing'
    BY <1>1 DEF Editing
  <1>4. Flushing'
    BY <1>1 DEF Flushing, WorthWaiting, Settled, Could, Landing, Editing
  <1>5. Reading'
    BY <1>1 DEF Reading, Settled, Could, Landing
  <1> QED BY <1>1, <1>2, <1>3, <1>4, <1>5

\* A flush that failed is worth nothing to a barrier.
LEMMA SaveRefusedScans ==
    ASSUME EdTypes, ScanTypes, ScanInv, EdTypes', NEW d \in Docs,
           SaveRefused(d)
    PROVE  ScanTypes' /\ ScanInv'
  <1> USE WindowsAssumption DEF ScanInv, SaveRefused, Fault, sessions,
       barrier, history
  <1>1. ScanTypes' OBVIOUS
  <1>2. Asking' /\ Answered'
    BY <1>1 DEF Asking, Asked, Answered, Settled, Could, Landing
  <1>3. Editing'
    BY <1>1 DEF Editing
  <1>4. Flushing'
    BY <1>1 DEF Flushing, WorthWaiting, Settled, Could, Landing
  <1>5. Reading'
    BY <1>1 DEF Reading, Settled, Could, Landing
  <1> QED BY <1>1, <1>2, <1>3, <1>4, <1>5

\* A lost connection takes the announcements with it.
LEMMA BreakScans ==
    ASSUME EdTypes, ScanTypes, ScanInv, EdTypes', NEW w \in Windows, Break(w)
    PROVE  ScanTypes' /\ ScanInv'
  <1> USE WindowsAssumption DEF ScanInv, Break, Fault, editors, history
  <1>1. ScanTypes' OBVIOUS
  <1>2. Editing' /\ Asking' /\ Flushing' /\ Answered' /\ Reading'
    BY <1>1 DEF Editing, Asking, Asked, Flushing, WorthWaiting, Settled,
       Could, Landing, Answered, Reading
  <1> QED BY <1>1, <1>2

\* The announcement starts no flush yet.
LEMMA BroadcastScans ==
    ASSUME EdTypes, ScanTypes, ScanInv, EdTypes', NEW r \in Requests,
           Broadcast(r)
    PROVE  ScanTypes' /\ ScanInv'
  <1> USE WindowsAssumption DEF ScanInv, Broadcast, Registered, editors,
       sessions, bounds, history
  <1>1. ScanTypes' OBVIOUS
  <1>2. Editing' /\ Asking' /\ Reading'
    BY <1>1 DEF Editing, Asking, Asked, Reading, Settled, Could, Landing
  <1>3. Flushing'
    BY <1>1 DEF Flushing, WorthWaiting, Settled, Could, Landing, Asking, Asked
  <1>4. Answered'
    BY <1>1 DEF Answered, Settled, Could, Landing, Asking, Asked
  <1> QED BY <1>1, <1>2, <1>3, <1>4

\* An answer that is lost counts for nothing.
LEMMA UnheardScans ==
    ASSUME EdTypes, ScanTypes, ScanInv, EdTypes', NEW w \in Windows,
           NEW r \in Requests, Unheard(w, r)
    PROVE  ScanTypes' /\ ScanInv'
  <1> USE WindowsAssumption DEF ScanInv, Unheard, Fault, editors, sessions,
       history
  <1>1. ScanTypes' OBVIOUS
  <1>2. Editing' /\ Asking' /\ Flushing' /\ Answered' /\ Reading'
    BY <1>1 DEF Editing, Asking, Asked, Flushing, WorthWaiting, Settled,
       Could, Landing, Answered, Reading
  <1> QED BY <1>1, <1>2

\* A barrier that timed out has failed.
LEMMA TimeoutScans ==
    ASSUME EdTypes, ScanTypes, ScanInv, EdTypes', NEW r \in Requests,
           Timeout(r)
    PROVE  ScanTypes' /\ ScanInv'
  <1> USE WindowsAssumption DEF ScanInv, Timeout, editors, sessions, bounds,
       history
  <1>1. ScanTypes' BY TimeoutTypes
  <1>2. Editing' /\ Asking' /\ Flushing' /\ Answered' /\ Reading'
    BY <1>1 DEF Editing, Asking, Asked, Flushing, WorthWaiting, Settled,
       Could, Landing, Answered, Reading
  <1> QED BY <1>1, <1>2

\* All who were asked have answered: every document is settled or excused.
LEMMA WaitEndsScans ==
    ASSUME EdTypes, ScanTypes, ScanInv, EdTypes', NEW r \in Requests,
           WaitEnds(r)
    PROVE  ScanTypes' /\ ScanInv'
  <1> USE WindowsAssumption DEF ScanInv, WaitEnds, editors, sessions, bounds,
       history
  <1>1. ScanTypes' OBVIOUS
  <1>2. Editing' /\ Asking' /\ Flushing' /\ Answered'
    BY <1>1 DEF Editing, Asking, Asked, Flushing, WorthWaiting, Settled,
       Could, Landing, Answered
  <1>3. Reading'
    BY <1>1 DEF Reading, Settled, Could, Landing, Asking, Asked, Answered
  <1> QED BY <1>1, <1>2, <1>3

\* What is put away is excused; what is listed is settled.
LEMMA ListFilesScans ==
    ASSUME EdTypes, ScanTypes, ScanInv, EdTypes', NEW r \in Requests,
           ListFiles(r)
    PROVE  ScanTypes' /\ ScanInv'
  <1> USE WindowsAssumption DEF ScanInv, ListFiles, editors, sessions, bounds
  <1>1. ScanTypes' BY ListFilesTypes
  <1>2. Editing' /\ Asking' /\ Flushing' /\ Answered' /\ Reading'
    BY <1>1 DEF Editing, Asking, Asked, Flushing, WorthWaiting, Settled,
       Could, Landing, Answered, Reading
  <1> QED BY <1>1, <1>2

\* The request is over.
LEMMA RemoveUnusedScans ==
    ASSUME EdTypes, ScanTypes, ScanInv, EdTypes', NEW r \in Requests,
           RemoveUnused(r)
    PROVE  ScanTypes' /\ ScanInv'
  <1> USE WindowsAssumption DEF ScanInv, RemoveUnused, editors, sessions,
       bounds, history
  <1>1. ScanTypes' OBVIOUS
  <1>2. Editing' /\ Asking' /\ Flushing' /\ Answered' /\ Reading'
    BY <1>1 DEF Editing, Asking, Asked, Flushing, WorthWaiting, Settled,
       Could, Landing, Answered, Reading
  <1> QED BY <1>1, <1>2

HIDE DEF EdTypes, ScanTypes, Editor, InFlush, Handler, Barrier, Scan, Phases, Saving, Idle
-----------------------------------------------------------------------------
\* The registry and the connections of the windows.
Registry ==
    \A w \in Windows : /\ live[w] <= made[w] /\ entry[w] <= made[w]
                       /\ entry[w] # 0 => inMap[w]

LEMMA RegistryKeeps == ASSUME SessInv, Registry, [Next]_vars PROVE Registry'
  <1>1. ASSUME NEW w \in Windows,
               Break(w) \/ Connect(w) \/ Register(w) \/ DropMap(w) \/ \E n \in stale[w] : Unregister(w, n)
        PROVE Registry'
    <2>1. CASE Break(w) BY <2>1 DEF Break, Registry, SessInv, SessTypes
    <2>2. CASE Connect(w) BY <2>2 DEF Connect, Registry, SessInv, SessTypes
    <2>3. CASE Register(w) BY <2>3 DEF Register, Registry, SessInv, SessTypes
    <2>4. CASE DropMap(w) BY <2>4 DEF DropMap, Registry, SessInv, SessTypes
    <2>5. CASE \E n \in stale[w] : Unregister(w, n)
      BY <2>5 DEF Unregister, Registry, SessInv, SessTypes
    <2> QED BY <1>1, <2>1, <2>2, <2>3, <2>4, <2>5
  <1>2. ASSUME UNCHANGED sessions PROVE Registry'
    BY <1>2 DEF sessions, Registry
  <1>3. ASSUME NEW d \in Docs,
               \/ \E ref \in BOOLEAN : Type(d, ref)
               \/ CloseTab(d) \/ TimerFires(d) \/ Isolate(d) \/ Install(d) \/ Saved(d)
               \/ SaveRefused(d) \/ FlushEnds(d)
        PROVE UNCHANGED sessions
    BY <1>3 DEF Type, CloseTab, TimerFires, Isolate, Install, Saved, SaveRefused, FlushEnds
  <1>4. ASSUME NEW r \in Requests,
               \/ Begin(r) \/ Broadcast(r) \/ Timeout(r) \/ WaitEnds(r) \/ ListFiles(r)
               \/ ReadFile(r) \/ ScanEnds(r) \/ RemoveUnused(r)
               \/ \E w \in Windows : FlushAll(w, r) \/ Ack(w, r) \/ Unheard(w, r)
        PROVE UNCHANGED sessions
    BY <1>4 DEF Begin, Broadcast, Timeout, WaitEnds, ListFiles, ReadFile, ScanEnds,
                RemoveUnused, FlushAll, Ack, Unheard
  <1>5. CASE UNCHANGED vars BY <1>2, <1>5 DEF vars
  <1> QED BY <1>1, <1>2, <1>3, <1>4, <1>5 DEF Next, SystemStep, Mishap

\* The connections touch nothing a scan relies on but what they hear.
LEMMA SessionsScan ==
    ASSUME ScanTypes, ScanInv, UNCHANGED <<asset, editors, barrier, scan, excused>>
    PROVE  ScanTypes' /\ ScanInv'
  BY DEF editors, barrier, ScanTypes, ScanInv, Editing, Asking, Asked, Flushing, WorthWaiting,
         Answered, Reading, Settled, Could, Landing

LEMMA ScanStep ==
    ASSUME EdTypes, EdTypes', ScanTypes, ScanInv, [Next]_vars
    PROVE  ScanTypes' /\ ScanInv'
  <1>1. ASSUME NEW w \in Windows,
               Connect(w) \/ Register(w) \/ DropMap(w) \/ \E n \in stale[w] : Unregister(w, n)
        PROVE ScanTypes' /\ ScanInv'
    BY <1>1, SessionsScan DEF Connect, Register, DropMap, Unregister, history
  <1>2. CASE UNCHANGED vars BY <1>2, SessionsScan DEF vars, history
  <1>3. CASE \E d \in Docs : SaveRefused(d) \/ TimerFires(d) \/ Isolate(d) \/ Install(d)
                             \/ Saved(d) \/ FlushEnds(d) \/ CloseTab(d)
    BY <1>3, SaveRefusedScans, TimerFiresScans, IsolateScans, InstallScans, SavedScans,
       FlushEndsScans, CloseTabScans
  <1>4. CASE \E d \in Docs, ref \in BOOLEAN : Type(d, ref) BY <1>4, TypeScans
  <1>5. CASE \E w \in Windows, r \in Requests : FlushAll(w, r) \/ Ack(w, r) \/ Unheard(w, r)
    BY <1>5, FlushAllScans, AckScans, UnheardScans
  <1>6. CASE \E r \in Requests : Begin(r) \/ Broadcast(r) \/ Timeout(r) \/ WaitEnds(r)
    BY <1>6, BeginScans, BroadcastScans, TimeoutScans, WaitEndsScans
  <1>7. CASE \E r \in Requests : ListFiles(r) \/ ReadFile(r) \/ ScanEnds(r) \/ RemoveUnused(r)
    BY <1>7, ListFilesScans, ReadFileScans, ScanEndsScans, RemoveUnusedScans
  <1>8. CASE \E w \in Windows : Break(w) BY <1>8, BreakScans
  <1> QED BY <1>1, <1>2, <1>3, <1>4, <1>5, <1>6, <1>7, <1>8 DEF Next, SystemStep, Mishap

\* All of it holds from the start and after every step.
Inv == EdInv /\ SessInv /\ Registry /\ ScanTypes /\ ScanInv

LEMMA Invariant == Spec => []Inv
  <1>1. Init => Inv
    <2> SUFFICES ASSUME Init PROVE Inv OBVIOUS
    <2>1. EdInv /\ SessInv BY EditorInit, SessionInit
    <2>2. Registry BY DEF Init, Registry
    <2>3. ScanTypes BY EmptyFacts DEF Init, ScanTypes, Handler, Phases
    <2>4. Editing BY FreeAssumption DEF Init, Editing, Saving
    <2>5. Asking BY DEF Init, Asking, Asked, Unset
    <2>6. Flushing /\ Answered /\ Reading
      BY DEF Init, Flushing, WorthWaiting, Answered, Reading
    <2> QED BY <2>1, <2>2, <2>3, <2>4, <2>5, <2>6 DEF Inv, ScanInv
  <1>2. Inv /\ [Next]_vars => Inv'
    <2> SUFFICES ASSUME Inv, [Next]_vars PROVE Inv' OBVIOUS
    <2>1. EdInv' /\ SessInv' BY ScanNext DEF Inv
    <2>2. Registry' BY RegistryKeeps DEF Inv
    <2>3. ScanTypes' /\ ScanInv' BY <2>1, ScanStep DEF Inv, EdInv
    <2> QED BY <2>1, <2>2, <2>3 DEF Inv
  <1> QED BY <1>1, <1>2, PTL DEF Spec

\* The types, and what goes with them: the lock is that of the one document that is put
\* away, an editor without changes shows its file, a registered window's map is there, only
\* windows that were asked have answered, and a barrier that failed lets nothing be scanned.
THEOREM TypesHold == Spec => []TypeOK
  <1>1. Inv => TypeOK
    <2> SUFFICES ASSUME Inv PROVE TypeOK OBVIOUS
    <2> USE DEF Inv
    <2>1. asset \in BOOLEAN /\ disk \in [Docs -> BOOLEAN] /\ lock \in Docs \cup {"free"}
          /\ away = {lock} \ {"free"}
      BY DEF ScanTypes, EdInv, EdTypes
    <2>2. ed \in [Docs -> Editor] BY DEF EdInv, EdTypes
    <2>3. \A d \in Docs : /\ ed[d].flush = "isolated" <=> lock = d
                          /\ ed[d].typed => ed[d].dirty
                          /\ ~ed[d].dirty /\ ed[d].flush = "none" => ed[d].text = disk[d]
      BY DEF ScanInv, Editing
    <2>4. \A w \in Windows : entry[w] \in 0..made[w] /\ (entry[w] # 0 => inMap[w])
      BY DEF Registry, SessInv, SessTypes
    <2>5. \A r \in Requests : request[r] \in Phases BY DEF ScanTypes
    <2>6. \A r \in Requests :
              /\ pending[r].acked \subseteq pending[r].expected
              /\ request[r] \notin {"none", "listed", "waiting", "over"} => ~pending[r].err
      BY <2>5 DEF ScanInv, Asking, Asked, Phases
    <2> QED BY <2>1, <2>2, <2>3, <2>4, <2>6 DEF TypeOK, Editor
  <1> QED BY <1>1, Invariant, PTL

\* What a request removes is referred to by no document, in its file or in its editor, but
\* those the request may overlook: for any number of windows, documents and requests that
\* scan at once, and any edits, failed saves and lost connections and answers.
THEOREM OnlyUnusedRemoved == Spec => RemovesUnused
  <1>1. Inv /\ [Next]_vars =>
          [asset /\ ~asset' =>
             \E r \in Requests : request[r] = "remove" /\ request'[r] = "over" /\
                 \A d \in Docs : ed[d].text \/ disk[d] => d \in excused[r]]_vars
    <2> SUFFICES ASSUME Inv, Next, asset, ~asset'
                 PROVE \E r \in Requests : request[r] = "remove" /\ request'[r] = "over" /\
                          \A d \in Docs : ed[d].text \/ disk[d] => d \in excused[r]
      OBVIOUS
    <2>1. PICK r \in Requests : RemoveUnused(r)
      <3>1. ASSUME NEW r \in Requests,
                   Begin(r) \/ Broadcast(r) \/ Timeout(r) \/ WaitEnds(r) \/ ListFiles(r)
                   \/ ReadFile(r) \/ ScanEnds(r)
            PROVE asset' = asset
        BY <3>1 DEF Begin, Broadcast, Timeout, WaitEnds, ListFiles, ReadFile, ScanEnds
      <3>2. ASSUME NEW w \in Windows, NEW r \in Requests,
                   FlushAll(w, r) \/ Ack(w, r) \/ Unheard(w, r)
            PROVE asset' = asset
        BY <3>2 DEF FlushAll, Ack, Unheard
      <3>3. ASSUME NEW w \in Windows,
                   \/ Break(w) \/ Connect(w) \/ Register(w) \/ DropMap(w)
                   \/ \E n \in stale[w] : Unregister(w, n)
            PROVE asset' = asset
        BY <3>3 DEF Break, Connect, Register, DropMap, Unregister
      <3>4. ASSUME NEW d \in Docs,
                   \/ \E ref \in BOOLEAN : Type(d, ref)
                   \/ CloseTab(d) \/ TimerFires(d) \/ Isolate(d) \/ Install(d) \/ Saved(d)
                   \/ SaveRefused(d) \/ FlushEnds(d)
            PROVE asset' = asset
        BY <3>4 DEF Type, CloseTab, TimerFires, Isolate, Install, Saved, SaveRefused, FlushEnds
      <3> QED BY <3>1, <3>2, <3>3, <3>4 DEF Next, SystemStep, Mishap
    <2>2. request[r] = "remove" /\ request'[r] = "over"
      BY <2>1 DEF RemoveUnused, Inv, ScanTypes
    <2>3. \A d \in Docs : ed[d].text \/ disk[d] => d \in excused[r]
      BY <2>2 DEF Inv, ScanInv, Reading, Could
    <2> QED BY <2>2, <2>3
  <1> QED BY <1>1, Invariant, PTL DEF Spec, RemovesUnused
=============================================================================
