------------------------- MODULE ProtyleTransactions -------------------------
(***************************************************************************)
(* The block editors of one document (app/src/protyle): how an edit goes   *)
(* from the editor that made it through the kernel to the other editors    *)
(* (wysiwyg/transaction.ts, util/transactionQueue.ts, index.ts), and how a *)
(* window asks the kernel to undo and redo (undo/globalUndo.ts,            *)
(* undo/index.ts, kernel/api/transaction.go).                              *)
(*                                                                         *)
(* An editor shows its edit at once and posts it behind its earlier ones,  *)
(* one request at a time.  The kernel stores it, records it in the undo    *)
(* log and pushes its operations to every other editor over a websocket of *)
(* its own, which answers to requests do not wait for.  A window keeps a   *)
(* copy of whether there is something to undo and redo (the mirror), and   *)
(* one lock for undo and redo.  An undo first waits for the editor's       *)
(* pending edits, then peeks at the stack to ask about an edit of several  *)
(* documents, then posts.  The answer is applied locally, unless several   *)
(* documents changed: then the push comes to the asking editor too.        *)
(*                                                                         *)
(* The content of a block is the number of the edit that wrote it, 0 at    *)
(* first.  The kernel's own interleavings are those of TxQueue and UndoLog *)
(* and are one step here.                                                  *)
(***************************************************************************)
EXTENDS Integers, Sequences, FiniteSets, SequencesExt

CONSTANTS Editors,    \* the editors of the document, a websocket session each
          Windows, WindowOf, \* the window of each editor
          Opening,    \* the windows that have just loaded the document
          Blocks,     \* blocks of the document
          MaxEdits, MaxReplays, MaxFaults, \* bounds
          CrossEdits, \* the edits that change another document too
          Faults      \* of "refused", "lost" and "dropped"

\* A window has the document open in an editor: it keeps no mirror of another document.
ASSUME WindowsAssumption == /\ WindowOf \in [Editors -> Windows]
                            /\ \A w \in Windows : \E e \in Editors : WindowOf[e] = w
ASSUME BoundsAssumption == {MaxEdits, MaxReplays, MaxFaults} \subseteq Nat
ASSUME CrossAssumption == CrossEdits \subseteq 1..MaxEdits

VARIABLES
    doc,          \* the kernel's blocks
    undoStack, redoStack, hasUndo, \* the undo log of the document
    view,         \* what each editor shows
    queue,        \* per editor, the edits still to be posted
    post,         \* per editor, the edit being posted
    events,       \* per editor, the pushes on their way to it
    mirror,       \* per window, undoStateMirror
    opening,      \* the windows that wait for the answer of initMirror
    job,          \* per window, isUndoing and the request it guards
    edits, replays, faults, \* bounds
    rev,          \* history: changes of the document the kernel has made
    heldView,     \* history: the latest change of a block each editor made or was sent
    heldState,    \* history: the latest change each window made or was told of
    offView,      \* history: blocks an editor shows that something left wrong
    offMirror     \* history: windows whose mirror something left wrong

kernel == <<doc, undoStack, redoStack, hasUndo, rev>>
bounds == <<edits, replays, faults>>
history == <<heldView, heldState, offView, offMirror>>
vars == <<kernel, view, queue, post, events, mirror, opening, job, bounds, history>>

EditIds == 1..MaxEdits
Kinds == {"undo", "redo"}
Ops == [id : EditIds, block : Blocks, old : 0..MaxEdits]
States == [undo : BOOLEAN, redo : BOOLEAN]
Free == [step |-> "free"]

\* GlobalUndoLog.State: what can be undone and redone now.
State == [undo |-> undoStack # <<>>, redo |-> redoStack # <<>>]
Known(state) == [state |-> state, rev |-> rev]
Cross(op) == op.id \in CrossEdits

Unsent(e) == Range(queue[e]) \cup (IF post[e].step = "sent" THEN {post[e].op} ELSE {})
Pending(e) == Range(queue[e]) \cup (IF post[e] = Free THEN {} ELSE {post[e].op})
EditorsOf(w) == {e \in Editors : WindowOf[e] = w}

AtRest == /\ \A e \in Editors : Pending(e) = {} /\ events[e] = <<>>
          /\ \A w \in Windows : job[w].step \in {"free", "stuck"}
          /\ opening = {}

Init ==
    /\ doc = [b \in Blocks |-> 0]
    /\ undoStack = <<>> /\ redoStack = <<>> /\ hasUndo = FALSE
    /\ view = [e \in Editors |-> doc]
    /\ queue = [e \in Editors |-> <<>>]
    /\ post = [e \in Editors |-> Free]
    /\ events = [e \in Editors |-> <<>>]
    /\ mirror = [w \in Windows |-> [undo |-> FALSE, redo |-> FALSE]]
    /\ opening = Opening
    /\ job = [w \in Windows |-> Free]
    /\ edits = 0 /\ replays = 0 /\ faults = 0 /\ rev = 0
    /\ heldView = [e \in Editors |-> [b \in Blocks |-> 0]]
    /\ heldState = [w \in Windows |-> 0]
    /\ offView = {} /\ offMirror = {}
-----------------------------------------------------------------------------
(* What a window and an editor take over. *)

\* Something older than what is there, or than an edit on its way, replaces it.
StaleState(w, known) == known.rev < heldState[w] \/ \E e \in EditorsOf(w) : Unsent(e) # {}
StaleView(e, b, n) == n < heldView[e][b] \/ \E op \in Unsent(e) : op.block = b

SetMirror(w, known) ==
    /\ mirror' = [mirror EXCEPT ![w] = known.state]
    /\ offMirror' = IF StaleState(w, known) THEN offMirror \cup {w} ELSE offMirror \ {w}
    /\ heldState' = [heldState EXCEPT ![w] = Max({@, known.rev})]

\* onTransaction, and the same by Undo.renderLocal: the block is replaced, whatever it shows.
Show(e, b, value, n, stored) ==
    /\ view' = [view EXCEPT ![e][b] = value]
    /\ offView' = IF stored /\ ~StaleView(e, b, n) THEN offView \ {<<e, b>>}
                  ELSE offView \cup {<<e, b>>}
    /\ heldView' = [heldView EXCEPT ![e][b] = Max({@, n})]

\* initMirror, asked as the document was loaded: its answer, read before any change.
InitMirror(w) ==
    /\ w \in opening
    /\ SetMirror(w, [state |-> [undo |-> FALSE, redo |-> FALSE], rev |-> 0])
    /\ opening' = opening \ {w}
    /\ UNCHANGED <<kernel, view, queue, post, events, job, bounds, heldView, offView>>
-----------------------------------------------------------------------------
(* Edits. *)

\* While the user is asked about several documents, the asking editor takes no keys.
Blocked(e) == job[WindowOf[e]].step = "confirm" /\ job[WindowOf[e]].ed = e

AddedStateRedoKept == [undo |-> TRUE, redo |-> TRUE]

\* Undo.add: a new edit can be undone and leaves nothing to redo.
AddedState == [undo |-> TRUE, redo |-> FALSE]

\* queueTransaction: an edit is posted when those before it are over.
Sent(op) == [step |-> "sent", op |-> op]
Queued(e, op) ==
    IF post[e] = Free
    THEN post' = [post EXCEPT ![e] = Sent(op)] /\ queue' = queue
    ELSE queue' = [queue EXCEPT ![e] = Append(@, op)] /\ post' = post

PostOver(e) ==
    IF queue[e] = <<>>
    THEN post' = [post EXCEPT ![e] = Free] /\ queue' = queue
    ELSE /\ post' = [post EXCEPT ![e] = Sent(Head(queue[e]))]
         /\ queue' = [queue EXCEPT ![e] = Tail(@)]

\* transaction: the edit is shown, Undo.add marks the mirror, the post is queued.
Type(e, b) ==
    /\ edits < MaxEdits /\ ~Blocked(e)
    /\ edits' = edits + 1
    /\ view' = [view EXCEPT ![e][b] = edits + 1]
    /\ Queued(e, [id |-> edits + 1, block |-> b, old |-> view[e][b]])
    /\ mirror' = [mirror EXCEPT ![WindowOf[e]] = AddedState]
    /\ offView' = offView \ {<<e, b>>} /\ offMirror' = offMirror \ {WindowOf[e]}
    /\ UNCHANGED <<kernel, events, opening, job, replays, faults, heldView, heldState>>

\* The block of the edit being posted, when the editor still shows that edit.
Shown(e) == {<<e, b>> : b \in {c \in Blocks : view[e][c] = post[e].op.id}}

Committed(e, stored) ==
    post' = [post EXCEPT ![e] = [step |-> "done", op |-> @.op, stored |-> stored, rev |-> rev']]

\* flushTx and Record.  The first edit after an undo empties the redo stack.
Commit(e) ==
    /\ post[e].step = "sent"
    /\ LET op == post[e].op
           kept == IF hasUndo THEN <<>> ELSE redoStack
       IN /\ doc' = [doc EXCEPT ![op.block] = op.id]
          /\ undoStack' = Append(undoStack, op)
          /\ redoStack' = kept /\ hasUndo' = FALSE
          /\ rev' = rev + 1
          /\ heldView' = [heldView EXCEPT ![e][op.block] = rev + 1]
          /\ heldState' = [heldState EXCEPT ![WindowOf[e]] = rev + 1]
          /\ offMirror' = offMirror \cup {w \in {WindowOf[e]} : kept # <<>>}
    /\ Committed(e, TRUE)
    /\ UNCHANGED <<view, queue, events, mirror, opening, job, bounds, offView>>

\* The transaction is rolled back.  The request is answered as if it had been stored.
Rollback(e) ==
    /\ post[e].step = "sent" /\ "refused" \in Faults /\ faults < MaxFaults
    /\ faults' = faults + 1
    /\ offView' = offView \cup Shown(e)
    /\ offMirror' = offMirror \cup {WindowOf[e]}
    /\ rev' = rev
    /\ Committed(e, FALSE)
    /\ UNCHANGED <<doc, undoStack, redoStack, hasUndo, view, queue, events, mirror, opening, job,
                   edits, replays, heldView, heldState>>

Others(e) == Editors \ {e}

Tell(to, event) == events' = [e \in Editors |-> IF e \in to THEN Append(events[e], event) ELSE events[e]]

\* pushTransactions: what was committed and the state now go to the other editors; the answer.
Push(e) ==
    /\ post[e].step = "done"
    /\ Tell(Others(e), [block |-> post[e].op.block, value |-> post[e].op.id, rev |-> post[e].rev,
                        stored |-> post[e].stored, known |-> Known(State)])
    /\ PostOver(e)
    /\ UNCHANGED <<kernel, view, mirror, opening, job, bounds, history>>

\* The request does not reach the kernel: fetchPost swallows the error and the queue goes on.
PostLost(e) ==
    /\ post[e].step = "sent" /\ "lost" \in Faults /\ faults < MaxFaults
    /\ faults' = faults + 1
    /\ PostOver(e)
    /\ offView' = offView \cup Shown(e)
    /\ offMirror' = offMirror \cup {WindowOf[e]}
    /\ UNCHANGED <<kernel, view, events, mirror, opening, job, edits, replays,
                   heldView, heldState>>

\* The websocket's transactions: the mirror first, then the block.  After a rollback the
\* transaction names no documents, and so no state.
Deliver(e) ==
    /\ events[e] # <<>>
    /\ LET event == Head(events[e])
       IN /\ IF event.stored THEN SetMirror(WindowOf[e], event.known)
             ELSE UNCHANGED <<mirror, offMirror, heldState>>
          /\ Show(e, event.block, event.value, event.rev, event.stored)
    /\ events' = [events EXCEPT ![e] = Tail(@)]
    /\ UNCHANGED <<kernel, queue, post, opening, job, bounds>>

\* The websocket closes.  Model connects anew and asks for nothing that was pushed meanwhile.
Drop(e) ==
    /\ events[e] # <<>> /\ "dropped" \in Faults /\ faults < MaxFaults
    /\ faults' = faults + 1
    /\ events' = [events EXCEPT ![e] = <<>>]
    /\ LET lost == Range(events[e])
           told == {event \in lost : event.stored}
       IN /\ offView' = offView \cup {<<e, event.block>> : event \in lost}
          /\ offMirror' = IF told = {} THEN offMirror ELSE offMirror \cup {WindowOf[e]}
          /\ heldView' = [heldView EXCEPT ![e] = [b \in Blocks |->
                Max({@[b]} \cup {event.rev : event \in {x \in lost : x.block = b}})]]
          /\ heldState' = [heldState EXCEPT ![WindowOf[e]] =
                Max({@} \cup {event.known.rev : event \in told})]
    /\ UNCHANGED <<kernel, view, queue, post, mirror, opening, job, edits, replays>>
-----------------------------------------------------------------------------
(* Undo and redo. *)

Step(w, step) == job' = [job EXCEPT ![w].step = step]
Unlock(w) == job' = [job EXCEPT ![w] = Free]

\* requestUndo, requestRedo: refused by the lock or by the mirror.
Request(e, kind) ==
    LET w == WindowOf[e]
    IN /\ replays < MaxReplays
       /\ job[w] = Free /\ mirror[w][kind]
       /\ replays' = replays + 1
       /\ job' = [job EXCEPT ![w] = [step |-> "wait", kind |-> kind, ed |-> e, upto |-> edits,
                                     top |-> <<>>, at |-> 0, agreed |-> FALSE, answer |-> Free]]
       /\ UNCHANGED <<kernel, view, queue, post, events, mirror, opening, edits, faults, history>>

SettledSent(w) == \A op \in Range(queue[job[w].ed]) : op.id > job[w].upto

\* waitForPendingTransactions: those that were queued when it was asked.
Settled(w) == \A op \in Pending(job[w].ed) : op.id > job[w].upto

Waited(w) ==
    /\ job[w].step = "wait" /\ Settled(w)
    /\ Step(w, IF job[w].kind = "undo" THEN "peek" ELSE "post")
    /\ UNCHANGED <<kernel, view, queue, post, events, mirror, opening, bounds, history>>

\* undoState: the user is asked when the top edit changed several documents.
Peek(w) ==
    /\ job[w].step = "peek"
    /\ LET top == IF undoStack = <<>> THEN <<>> ELSE <<Last(undoStack)>>
       IN job' = [job EXCEPT ![w].step = IF top # <<>> /\ Cross(top[1]) THEN "confirm" ELSE "post",
                             ![w].top = top, ![w].at = rev]
    /\ UNCHANGED <<kernel, view, queue, post, events, mirror, opening, bounds, history>>

Confirm(w) ==
    /\ job[w].step = "confirm"
    /\ \/ job' = [job EXCEPT ![w].step = "post", ![w].agreed = TRUE]
       \/ Unlock(w)
    /\ UNCHANGED <<kernel, view, queue, post, events, mirror, opening, bounds, history>>

Stack(kind) == IF kind = "undo" THEN undoStack ELSE redoStack
Value(kind, op) == IF kind = "undo" THEN op.old ELSE op.id
Answer(w, answer) == job' = [job EXCEPT ![w].step = "answer", ![w].answer = answer]

\* performUndo, performRedo on an empty stack: "there is nothing", of both.
ReplayNothing(w) ==
    /\ job[w].step = "post" /\ Stack(job[w].kind) = <<>>
    /\ Answer(w, [told |-> "nothing"])
    /\ UNCHANGED <<kernel, view, queue, post, events, mirror, opening, bounds, history>>

\* performUndo, performRedo up to the commit.  A redo leaves hasUndo alone.
Replay(w) ==
    /\ job[w].step = "post" /\ Stack(job[w].kind) # <<>>
    /\ LET kind == job[w].kind
           op == Last(Stack(kind))
       IN /\ undoStack' = IF kind = "undo" THEN Front(undoStack) ELSE Append(undoStack, op)
          /\ redoStack' = IF kind = "undo" THEN Append(redoStack, op) ELSE Front(redoStack)
          /\ hasUndo' = (hasUndo \/ kind = "undo")
          /\ doc' = [doc EXCEPT ![op.block] = Value(kind, op)]
          /\ rev' = rev + 1
          /\ job' = [job EXCEPT ![w].step = "push", ![w].answer = [op |-> op, rev |-> rev + 1]]
          /\ heldView' = [heldView EXCEPT ![job[w].ed][op.block] = rev + 1]
          /\ heldState' = [heldState EXCEPT ![w] = rev + 1]
    /\ UNCHANGED <<view, queue, post, events, mirror, opening, bounds, offView, offMirror>>

ReplayFailsUnpopped(w) ==
    /\ job[w].step = "post" /\ Stack(job[w].kind) # <<>>
    /\ "refused" \in Faults /\ faults < MaxFaults
    /\ faults' = faults + 1
    /\ redoStack' = IF job[w].kind = "undo" THEN Append(redoStack, Last(undoStack)) ELSE redoStack
    /\ hasUndo' = (hasUndo /\ job[w].kind = "redo")
    /\ Answer(w, [told |-> "failed"])
    /\ UNCHANGED <<doc, undoStack, rev, view, queue, post, events, mirror, opening,
                   edits, replays, history>>

ReplayFailsUnanswered(w) ==
    /\ job[w].step = "post" /\ Stack(job[w].kind) # <<>>
    /\ "refused" \in Faults /\ faults < MaxFaults
    /\ faults' = faults + 1
    /\ hasUndo' = (hasUndo /\ job[w].kind = "redo")
    /\ Step(w, "unheard")
    /\ UNCHANGED <<doc, undoStack, redoStack, rev, view, queue, post, events, mirror, opening,
                   edits, replays, history>>

\* The operations fail: UndoRollback, RedoRollback.
ReplayFails(w) ==
    /\ job[w].step = "post" /\ Stack(job[w].kind) # <<>>
    /\ "refused" \in Faults /\ faults < MaxFaults
    /\ faults' = faults + 1
    /\ hasUndo' = (hasUndo /\ job[w].kind = "redo")
    /\ Answer(w, [told |-> "failed"])
    /\ UNCHANGED <<doc, undoStack, redoStack, rev, view, queue, post, events, mirror, opening,
                   edits, replays, history>>

\* pushUndoTransactions and the answer.
PushReplay(w) ==
    /\ job[w].step = "push"
    /\ LET op == job[w].answer.op
           change == [block |-> op.block, value |-> Value(job[w].kind, op), rev |-> job[w].answer.rev,
                      stored |-> TRUE, known |-> Known(State)]
       IN /\ Tell(IF Cross(op) THEN Editors ELSE Others(job[w].ed), change)
          /\ Answer(w, [told |-> IF Cross(op) THEN "elsewhere" ELSE "done", change |-> change])
    /\ UNCHANGED <<kernel, view, queue, post, mirror, opening, bounds, history>>

ReplayedUnshown(w) ==
    /\ job[w].step = "answer" /\ Unlock(w)
    /\ IF job[w].answer.told \in {"done", "elsewhere"}
       THEN SetMirror(w, job[w].answer.change.known) ELSE UNCHANGED <<mirror, offMirror, heldState>>
    /\ UNCHANGED <<kernel, queue, post, events, opening, bounds, view, heldView, offView>>

\* The answer's callback.  "nothing" is not read from the log: it may be wrong.
Replayed(w) ==
    LET answer == job[w].answer
        e == job[w].ed
    IN /\ job[w].step = "answer"
       /\ Unlock(w)
       /\ \/ /\ answer.told = "failed"
             /\ UNCHANGED <<view, mirror, history>>
          \/ /\ answer.told = "nothing"
             /\ mirror' = [mirror EXCEPT ![w] = [undo |-> FALSE, redo |-> FALSE]]
             /\ offMirror' = offMirror \cup {w}
             /\ UNCHANGED <<view, heldView, heldState, offView>>
          \/ /\ answer.told = "elsewhere"
             /\ SetMirror(w, answer.change.known)
             /\ UNCHANGED <<view, heldView, offView>>
          \/ /\ answer.told = "done"
             /\ SetMirror(w, answer.change.known)
             /\ Show(e, answer.change.block, answer.change.value, answer.change.rev, TRUE)
       /\ UNCHANGED <<kernel, queue, post, events, opening, bounds>>

\* A request of the undo gets no answer that reaches its callback: the lock stays.
ReplayLost(w) ==
    /\ job[w].step \in {"peek", "post", "answer"} /\ "lost" \in Faults /\ faults < MaxFaults
    /\ faults' = faults + 1
    /\ job' = [job EXCEPT ![w] = [step |-> "stuck"]]
    /\ IF job[w].step = "answer" /\ job[w].answer.told \in {"done", "elsewhere"}
       THEN /\ offMirror' = offMirror \cup {w}
            /\ offView' = offView \cup {<<job[w].ed, job[w].answer.change.block>> :
                                         told \in {job[w].answer.told} \cap {"done"}}
       ELSE UNCHANGED <<offView, offMirror>>
    /\ UNCHANGED <<kernel, view, queue, post, events, mirror, opening, edits, replays,
                   heldView, heldState>>
-----------------------------------------------------------------------------
SystemStep ==
    \/ \E e \in Editors : Commit(e) \/ Push(e) \/ Deliver(e)
    \/ \E w \in Windows : InitMirror(w) \/ Waited(w) \/ Peek(w) \/ Confirm(w)
                          \/ ReplayNothing(w) \/ Replay(w) \/ PushReplay(w) \/ Replayed(w)

Fault == \/ \E e \in Editors : Rollback(e) \/ PostLost(e) \/ Drop(e)
         \/ \E w \in Windows : ReplayFails(w) \/ ReplayLost(w)

Next == \/ \E e \in Editors, b \in Blocks : Type(e, b)
        \/ \E e \in Editors, kind \in Kinds : Request(e, kind)
        \/ SystemStep \/ Fault

Spec == Init /\ [][Next]_vars

-----------------------------------------------------------------------------
Edit == [step : {"sent"}, op : Ops] \cup [step : {"done"}, op : Ops, stored : BOOLEAN, rev : Nat]

TypeOK ==
    /\ doc \in [Blocks -> 0..MaxEdits]
    /\ undoStack \in Seq(Ops) /\ redoStack \in Seq(Ops) /\ hasUndo \in BOOLEAN
    /\ view \in [Editors -> [Blocks -> 0..MaxEdits]]
    /\ queue \in [Editors -> Seq(Ops)]
    /\ post \in [Editors -> Edit \cup {Free}]
    /\ mirror \in [Windows -> States]
    /\ \A w \in Windows : job[w].step \notin {"free", "stuck"} =>
           job[w].kind \in Kinds /\ WindowOf[job[w].ed] = w /\ job[w].upto \in 0..edits
    /\ \A e \in Editors : \A op \in Pending(e) : op.id <= edits
    /\ \A s \in {undoStack, redoStack} : \A i, j \in DOMAIN s : s[i].id = s[j].id => i = j
    /\ \A i \in DOMAIN undoStack, j \in DOMAIN redoStack : undoStack[i].id # redoStack[j].id
    /\ opening \subseteq Opening
    /\ edits <= MaxEdits /\ replays <= MaxReplays /\ faults <= MaxFaults

\* When nothing is under way every editor shows what the kernel holds, unless an edit of
\* its was not stored, or the last it took was older than what it had, or was lost, or was
\* rolled back before it was pushed.
ViewsAgree ==
    AtRest => \A e \in Editors, b \in Blocks : <<e, b>> \notin offView => view[e][b] = doc[b]

\* When nothing is under way a window's buttons offer what the kernel can undo and redo,
\* unless its last state was read before a change it knows of, or an edit was not stored,
\* a push lost, a redo stack kept after a failed undo, or "nothing" answered for both.
MirrorAgrees ==
    AtRest => \A w \in Windows : w \notin offMirror => mirror[w] = State

\* An undo reaches the log after every edit its user had made in that editor, and if
\* nothing has been stored since the peek, it takes the edit that was peeked at, and one
\* of several documents only with the user's consent.
UndoneAsAsked ==
    [][\A w \in Windows : job[w].step = "post" /\ job'[w].step = "push" =>
         LET op == job'[w].answer.op
         IN /\ \A mine \in Pending(job[w].ed) : mine.id > job[w].upto
            /\ job[w].kind = "undo" /\ rev = job[w].at =>
                 job[w].top = <<op>> /\ (Cross(op) => job[w].agreed)]_vars

\* Short of rest, a request, an answer or a push is always on its way: no undo or redo
\* keeps the window's lock because an edit was refused or lost, because it failed itself, or
\* because two windows ask at once.  Only the loss of one of its own requests leaves it stuck.
NothingHangs == AtRest \/ ENABLED SystemStep
=============================================================================
