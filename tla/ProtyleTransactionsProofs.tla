---------------------- MODULE ProtyleTransactionsProofs ----------------------
(***************************************************************************)
(* What an undo is asked for and what it takes, and that editors and       *)
(* mirrors come to agree with the kernel, for any number of editors,       *)
(* windows, blocks and faults.                                             *)
(*                                                                         *)
(* First the requests (AskInv), then the agreement (Agreement): for every  *)
(* block the change that was stored last is known to an editor or on its   *)
(* way to it, and the same of the state of the undo log and a window.      *)
(***************************************************************************)
EXTENDS ProtyleTransactions, SequenceTheorems, WellFoundedInduction, TLAPS

Values == 0..MaxEdits
Knowns == [state : States, rev : Nat]
Changes == [block : Blocks, value : Values, rev : Nat, stored : BOOLEAN, known : Knowns]
Told == [told : {"nothing", "failed"}] \cup [told : {"done", "elsewhere"}, change : Changes]
Answers == {Free} \cup [op : Ops, rev : Nat] \cup Told
Asked == [step : {"wait", "peek", "confirm", "post", "push", "answer"}, kind : Kinds,
          ed : Editors, upto : Nat, top : Seq(Ops), at : Nat, agreed : BOOLEAN,
          answer : Answers]
Stuck == [step |-> "stuck"]

\* Types of what an undo depends on: the log, the editors' queues and the jobs.
Types ==
    /\ undoStack \in Seq(Ops) /\ redoStack \in Seq(Ops)
    /\ rev \in Nat /\ edits \in Values
    /\ view \in [Editors -> [Blocks -> Values]]
    /\ queue \in [Editors -> Seq(Ops)]
    /\ post \in [Editors -> Edit \cup {Free}]
    /\ events \in [Editors -> Seq(Changes)]
    /\ job \in [Windows -> Asked \cup {Free, Stuck}]
    /\ \A w \in Windows :
           /\ job[w].step = "push" => job[w].answer \in [op : Ops, rev : Nat]
           /\ job[w].step = "answer" => job[w].answer \in Told

\* What was queued when a replay was asked for is posted before the replay goes on.
Past(w) == job[w] \in Asked /\ job[w].step # "wait"
WaitedFor(w) ==
    /\ job[w] \in Asked => job[w].upto <= edits
    /\ Past(w) => \A op \in Pending(job[w].ed) : op.id > job[w].upto

TopNow == IF undoStack = <<>> THEN <<>> ELSE <<Last(undoStack)>>
Shared(top) == top # <<>> /\ Cross(top[1])

\* As long as nothing has been stored since the peek, the top is the one it saw, and
\* the user has been asked when it is of several documents.
PeekedAt(w) ==
    /\ job[w] \in Asked => job[w].at <= rev
    /\ /\ job[w] \in Asked /\ job[w].step \in {"confirm", "post"}
       /\ job[w].kind = "undo" /\ job[w].at = rev
       => /\ job[w].top = TopNow
          /\ Shared(job[w].top) => job[w].step = "confirm" \/ job[w].agreed

AskInv == Types /\ \A w \in Windows : WaitedFor(w) /\ PeekedAt(w)
-----------------------------------------------------------------------------
\* A sequence's end and rest.
LEMMA Ends ==
    ASSUME NEW S, NEW s \in Seq(S), NEW x \in S
    PROVE  /\ Append(s, x) \in Seq(S) /\ Range(Append(s, x)) = Range(s) \cup {x}
           /\ s # <<>> => /\ Head(s) \in S /\ Head(s) \in Range(s)
                          /\ Tail(s) \in Seq(S) /\ Range(Tail(s)) \subseteq Range(s)
                          /\ Last(s) \in S /\ Front(s) \in Seq(S)
<1>1. Append(s, x) \in Seq(S) /\ Range(Append(s, x)) = Range(s) \cup {x}
  <2>1. /\ Append(s, x) \in Seq(S) /\ Len(Append(s, x)) = Len(s) + 1
        /\ \A i \in 1..Len(s) : Append(s, x)[i] = s[i]
        /\ Append(s, x)[Len(s) + 1] = x
    OBVIOUS
  <2>2. DOMAIN s = 1..Len(s) /\ DOMAIN Append(s, x) = 1..(Len(s) + 1) /\ Len(s) \in Nat
    BY <2>1
  <2>3. QED
    BY <2>1, <2>2 DEF Range
<1>2. ASSUME s # <<>>
      PROVE  /\ Head(s) \in S /\ Head(s) \in Range(s)
             /\ Tail(s) \in Seq(S) /\ Range(Tail(s)) \subseteq Range(s)
             /\ Last(s) \in S /\ Front(s) \in Seq(S)
  <2>1. Len(s) \in Nat /\ Len(s) > 0 /\ DOMAIN s = 1..Len(s)
    BY <1>2
  <2>2. Head(s) = s[1] /\ Head(s) \in S /\ Head(s) \in Range(s)
    BY <1>2, <2>1 DEF Range
  <2>3. /\ Tail(s) \in Seq(S) /\ Len(Tail(s)) = Len(s) - 1
        /\ \A i \in 1..(Len(s) - 1) : Tail(s)[i] = s[i + 1]
    BY <1>2, <2>1
  <2>4. Range(Tail(s)) \subseteq Range(s)
    BY <2>1, <2>3 DEF Range
  <2>5. Last(s) \in S /\ Front(s) \in Seq(S)
    BY <2>1 DEF Last, Front
  <2>6. QED
    BY <2>2, <2>3, <2>4, <2>5
<1>3. QED
  BY <1>1, <1>2
-----------------------------------------------------------------------------
\* An edit joins its editor's queue, or is posted at once.
LEMMA Queueing ==
    ASSUME Types, NEW e \in Editors, NEW op \in Ops, Queued(e, op)
    PROVE  /\ queue' \in [Editors -> Seq(Ops)] /\ post' \in [Editors -> Edit \cup {Free}]
           /\ \A f \in Editors : Pending(f)' \subseteq Pending(f) \cup {op}
<1>1. Sent(op) \in Edit /\ Sent(op).op = op
  BY DEF Sent, Edit
<1>2. queue[e] \in Seq(Ops)
  BY DEF Types
<1>3. Append(queue[e], op) \in Seq(Ops) /\ Range(Append(queue[e], op)) = Range(queue[e]) \cup {op}
  BY <1>2, Ends
<1>4. CASE post[e] = Free
  <2>1. post' = [post EXCEPT ![e] = Sent(op)] /\ queue' = queue
    BY <1>4 DEF Queued
  <2>2. ASSUME NEW f \in Editors PROVE Pending(f)' \subseteq Pending(f) \cup {op}
    <3>1. CASE f = e
      BY <1>1, <2>1, <3>1 DEF Pending, Types
    <3>2. CASE f # e
      BY <2>1, <3>2 DEF Pending, Types
    <3>3. QED
      BY <3>1, <3>2
  <2>3. QED
    BY <1>1, <2>1, <2>2 DEF Types
<1>5. CASE post[e] # Free
  <2>1. queue' = [queue EXCEPT ![e] = Append(queue[e], op)] /\ post' = post
    BY <1>5 DEF Queued
  <2>2. ASSUME NEW f \in Editors PROVE Pending(f)' \subseteq Pending(f) \cup {op}
    <3>1. CASE f = e
      BY <1>3, <2>1, <3>1 DEF Pending, Types
    <3>2. CASE f # e
      BY <2>1, <3>2 DEF Pending, Types
    <3>3. QED
      BY <3>1, <3>2
  <2>3. QED
    BY <1>3, <2>1, <2>2 DEF Types
<1>6. QED
  BY <1>4, <1>5

\* A post that is over makes room for the next of the same queue.
LEMMA Posting ==
    ASSUME Types, NEW e \in Editors, PostOver(e)
    PROVE  /\ queue' \in [Editors -> Seq(Ops)] /\ post' \in [Editors -> Edit \cup {Free}]
           /\ \A f \in Editors : Pending(f)' \subseteq Pending(f)
<1>1. queue[e] \in Seq(Ops)
  BY DEF Types
<1>2. CASE queue[e] = <<>>
  <2>1. post' = [post EXCEPT ![e] = Free] /\ queue' = queue
    BY <1>2 DEF PostOver
  <2>2. ASSUME NEW f \in Editors PROVE Pending(f)' \subseteq Pending(f)
    <3>1. CASE f = e
      BY <2>1, <3>1 DEF Pending, Types
    <3>2. CASE f # e
      BY <2>1, <3>2 DEF Pending, Types
    <3>3. QED
      BY <3>1, <3>2
  <2>3. QED
    BY <2>1, <2>2 DEF Types
<1>3. CASE queue[e] # <<>>
  <2> DEFINE next == Head(queue[e])
  <2>1. /\ next \in Ops /\ next \in Range(queue[e])
        /\ Tail(queue[e]) \in Seq(Ops) /\ Range(Tail(queue[e])) \subseteq Range(queue[e])
    <3>1. \E x : x \in Ops
      BY <1>1, <1>3
    <3>2. QED
      BY <1>1, <1>3, <3>1, Ends
  <2>2. Sent(next) \in Edit /\ Sent(next).op = next
    BY <2>1 DEF Sent, Edit
  <2>3. post' = [post EXCEPT ![e] = Sent(next)] /\ queue' = [queue EXCEPT ![e] = Tail(queue[e])]
    BY <1>3 DEF PostOver
  <2> HIDE DEF next
  <2>4. ASSUME NEW f \in Editors PROVE Pending(f)' \subseteq Pending(f)
    <3>1. CASE f = e
      <4>1. queue'[f] = Tail(queue[f]) /\ post'[f] = Sent(next)
        BY <2>3, <3>1 DEF Types
      <4>2. Pending(f)' \subseteq Range(Tail(queue[f])) \cup {next}
        BY <2>2, <4>1 DEF Pending
      <4>3. QED
        BY <2>1, <3>1, <4>2 DEF Pending
    <3>2. CASE f # e
      BY <2>3, <3>2 DEF Pending, Types
    <3>3. QED
      BY <3>1, <3>2
  <2>5. QED
    BY <2>1, <2>2, <2>3, <2>4 DEF Types
<1>4. QED
  BY <1>2, <1>3

\* A step that leaves the jobs alone leaves what they rest on, when it takes from the
\* queues or adds the newest edit to them, and counts each change of the log.
LEMMA Quiet ==
    ASSUME Types, Types', job' = job, edits <= edits',
           \A f \in Editors : \A op \in Pending(f)' : op \in Pending(f) \/ op.id = edits + 1,
           (undoStack' = undoStack /\ rev' = rev) \/ rev' = rev + 1,
           NEW w \in Windows, WaitedFor(w), PeekedAt(w)
    PROVE  WaitedFor(w)' /\ PeekedAt(w)'
<1>1. edits \in Int /\ edits' \in Int /\ rev \in Nat
  BY DEF Types, Values
<1>2. job[w] \in Asked => job[w].upto \in Nat /\ job[w].at \in Nat /\ job[w].ed \in Editors
  BY DEF Asked
<1>3. WaitedFor(w)'
  <2>1. job[w] \in Asked => job[w].upto <= edits'
    BY <1>1, <1>2 DEF WaitedFor
  <2>2. ASSUME Past(w), NEW op \in Pending(job[w].ed)' PROVE op.id > job[w].upto
    <3>1. job[w].ed \in Editors /\ job[w].upto \in Nat /\ job[w].upto <= edits
      BY <1>2, <2>2 DEF Past, WaitedFor
    <3>2. CASE op \in Pending(job[w].ed)
      BY <2>2, <3>2 DEF WaitedFor
    <3>3. CASE op \notin Pending(job[w].ed)
      <4>1. op.id = edits + 1
        BY <2>2, <3>1, <3>3
      <4>2. QED
        BY <1>1, <3>1, <4>1
    <3>4. QED
      BY <3>2, <3>3
  <2>3. QED
    BY <2>1, <2>2 DEF WaitedFor, Past
<1>4. PeekedAt(w)'
  <2>1. CASE undoStack' = undoStack /\ rev' = rev
    BY <2>1 DEF PeekedAt, TopNow, Shared
  <2>2. CASE rev' = rev + 1
    BY <1>1, <1>2, <2>2 DEF PeekedAt
  <2>3. QED
    BY <2>1, <2>2
<1>5. QED
  BY <1>3, <1>4
\* What Quiet asks of the queues holds of a step that leaves them alone.
LEMMA SameQueues ==
    ASSUME queue' = queue, post' = post, NEW f \in Editors
    PROVE  Pending(f)' = Pending(f)
BY DEF Pending

\* The steps that take no part in a replay: what they do to the log and to the queues.
Aside == /\ job' = job /\ edits <= edits'
         /\ \A f \in Editors : \A op \in Pending(f)' : op \in Pending(f) \/ op.id = edits + 1
         /\ (undoStack' = undoStack /\ rev' = rev) \/ rev' = rev + 1

\* What an answer is told has the type of answers.
LEMMA TellTypes ==
    ASSUME Types, NEW to, NEW change \in Changes, Tell(to, change)
    PROVE  events' \in [Editors -> Seq(Changes)]
<1>1. ASSUME NEW e \in Editors
      PROVE  (IF e \in to THEN Append(events[e], change) ELSE events[e]) \in Seq(Changes)
  BY DEF Types
<1>2. QED
  BY <1>1 DEF Tell

\* What is known of the log has its type.
LEMMA KnownTypes ==
    ASSUME Types
    PROVE  Known(State) \in Knowns
BY DEF Known, State, Knowns, States, Types

\* Typing keeps the types, and queues the newest edit.
LEMMA TypeTypes ==
    ASSUME Types, NEW e \in Editors, NEW b \in Blocks, Type(e, b)
    PROVE  Types' /\ Aside
<1> DEFINE op == [id |-> edits + 1, block |-> b, old |-> view[e][b]]
<1>1. MaxEdits \in Nat /\ edits \in Nat /\ edits < MaxEdits /\ edits' = edits + 1 /\ edits' \in Values
  BY BoundsAssumption DEF Type, Types, Values
<1>2. view[e][b] \in Values
  BY DEF Types
<1>3. op \in Ops
  BY <1>1, <1>2 DEF Ops, EditIds, Values
<1>4. Queued(e, op) /\ op.id = edits + 1
  BY DEF Type
<1> HIDE DEF op
<1>5. /\ queue' \in [Editors -> Seq(Ops)] /\ post' \in [Editors -> Edit \cup {Free}]
      /\ \A f \in Editors : Pending(f)' \subseteq Pending(f) \cup {op}
  BY <1>3, <1>4, Queueing
<1>6. view' \in [Editors -> [Blocks -> Values]]
  BY <1>1 DEF Type, Types
<1>7. undoStack' = undoStack /\ redoStack' = redoStack /\ rev' = rev /\ events' = events /\ job' = job
  BY DEF Type, kernel
<1>8. Types'
  BY <1>1, <1>5, <1>6, <1>7 DEF Types
<1>9. QED
  BY <1>1, <1>4, <1>5, <1>7, <1>8 DEF Aside

\* A committed post keeps the types, and records its edit in the log.
LEMMA CommitTypes ==
    ASSUME Types, NEW e \in Editors, Commit(e)
    PROVE  Types' /\ Aside
<1> DEFINE op == post[e].op
<1>1. op \in Ops
  BY DEF Commit, Types, Edit, Free
<1>2. rev' = rev + 1 /\ rev' \in Nat
  BY DEF Commit, Types
<1>3. undoStack' = Append(undoStack, op) /\ redoStack' \in {redoStack, <<>>}
  BY DEF Commit
<1>4. undoStack' \in Seq(Ops) /\ redoStack' \in Seq(Ops)
  <2>1. undoStack \in Seq(Ops) /\ redoStack \in Seq(Ops) /\ <<>> \in Seq(Ops)
    BY DEF Types
  <2> HIDE DEF op
  <2>2. QED
    BY <1>1, <1>3, <2>1, Ends
<1>5. post' = [post EXCEPT ![e] = [step |-> "done", op |-> op, stored |-> TRUE, rev |-> rev']]
  BY DEF Commit, Committed
<1>6. [step |-> "done", op |-> op, stored |-> TRUE, rev |-> rev'] \in Edit
  BY <1>1, <1>2 DEF Edit
<1>7. post' \in [Editors -> Edit \cup {Free}]
  BY <1>5, <1>6 DEF Types
<1>8. ASSUME NEW f \in Editors PROVE Pending(f)' = Pending(f)
  <2>1. queue' = queue /\ post[e] # Free
    BY DEF Commit, Free
  <2>2. CASE f = e
    BY <1>5, <2>1, <2>2 DEF Pending, Types, Free
  <2>3. CASE f # e
    BY <1>5, <2>1, <2>3 DEF Pending, Types
  <2>4. QED
    BY <2>2, <2>3
<1>9. queue' = queue /\ events' = events /\ job' = job /\ view' = view /\ edits' = edits
  BY DEF Commit, bounds
<1>10. Types'
  BY <1>2, <1>4, <1>7, <1>9 DEF Types
<1>11. QED
  BY <1>2, <1>8, <1>9, <1>10 DEF Aside, Types, Values

\* A rolled back post keeps the types, and leaves the log alone.
LEMMA RollbackTypes ==
    ASSUME Types, NEW e \in Editors, Rollback(e)
    PROVE  Types' /\ Aside
<1> DEFINE op == post[e].op
<1>1. op \in Ops
  BY DEF Rollback, Types, Edit, Free
<1>2. rev' = rev /\ rev \in Nat
  BY DEF Rollback, Types
<1>5. post' = [post EXCEPT ![e] = [step |-> "done", op |-> op, stored |-> FALSE, rev |-> rev']]
  BY DEF Rollback, Committed
<1>6. [step |-> "done", op |-> op, stored |-> FALSE, rev |-> rev'] \in Edit
  BY <1>1, <1>2 DEF Edit
<1>7. post' \in [Editors -> Edit \cup {Free}]
  BY <1>5, <1>6 DEF Types
<1>8. ASSUME NEW f \in Editors PROVE Pending(f)' = Pending(f)
  <2>1. queue' = queue /\ post[e] # Free
    BY DEF Rollback, Free
  <2>2. CASE f = e
    BY <1>5, <2>1, <2>2 DEF Pending, Types, Free
  <2>3. CASE f # e
    BY <1>5, <2>1, <2>3 DEF Pending, Types
  <2>4. QED
    BY <2>2, <2>3
<1>9. /\ queue' = queue /\ events' = events /\ job' = job /\ view' = view /\ edits' = edits
      /\ undoStack' = undoStack /\ redoStack' = redoStack
  BY DEF Rollback
<1>10. Types'
  BY <1>2, <1>7, <1>9 DEF Types
<1>11. QED
  BY <1>2, <1>8, <1>9, <1>10 DEF Aside, Types, Values

\* A push to the other editors keeps the types.
LEMMA PushTypes ==
    ASSUME Types, NEW e \in Editors, Push(e)
    PROVE  Types' /\ Aside
<1> DEFINE change == [block |-> post[e].op.block, value |-> post[e].op.id, rev |-> post[e].rev,
                      stored |-> post[e].stored, known |-> Known(State)]
<1>1. post[e] \in [step : {"done"}, op : Ops, stored : BOOLEAN, rev : Nat]
  BY DEF Push, Types, Edit, Free
<1>2. change \in Changes
  BY <1>1, KnownTypes, BoundsAssumption DEF Changes, Ops, EditIds, Values
<1>3. Tell(Others(e), change) /\ PostOver(e)
  BY DEF Push
<1> HIDE DEF change
<1>4. events' \in [Editors -> Seq(Changes)]
  BY <1>2, <1>3, TellTypes
<1>5. /\ queue' \in [Editors -> Seq(Ops)] /\ post' \in [Editors -> Edit \cup {Free}]
      /\ \A f \in Editors : Pending(f)' \subseteq Pending(f)
  BY <1>3, Posting
<1>6. /\ job' = job /\ view' = view /\ edits' = edits /\ rev' = rev
      /\ undoStack' = undoStack /\ redoStack' = redoStack
  BY DEF Push, kernel, bounds
<1>7. Types'
  BY <1>4, <1>5, <1>6 DEF Types
<1>8. QED
  BY <1>5, <1>6, <1>7 DEF Aside, Types, Values

\* A lost post keeps the types.
LEMMA PostLostTypes ==
    ASSUME Types, NEW e \in Editors, PostLost(e)
    PROVE  Types' /\ Aside
<1>1. /\ queue' \in [Editors -> Seq(Ops)] /\ post' \in [Editors -> Edit \cup {Free}]
      /\ \A f \in Editors : Pending(f)' \subseteq Pending(f)
  BY Posting DEF PostLost
<1>2. /\ job' = job /\ view' = view /\ edits' = edits /\ rev' = rev /\ events' = events
      /\ undoStack' = undoStack /\ redoStack' = redoStack
  BY DEF PostLost, kernel
<1>3. Types'
  BY <1>1, <1>2 DEF Types
<1>4. QED
  BY <1>1, <1>2, <1>3 DEF Aside, Types, Values

\* A delivery keeps the types.
LEMMA DeliverTypes ==
    ASSUME Types, NEW e \in Editors, Deliver(e)
    PROVE  Types' /\ Aside
<1> DEFINE event == Head(events[e])
<1>1. event \in Changes /\ Tail(events[e]) \in Seq(Changes)
  BY DEF Deliver, Types
<1>2. events' \in [Editors -> Seq(Changes)]
  BY <1>1 DEF Deliver, Types
<1>3. event.value \in Values
  BY <1>1 DEF Changes
<1>4. view' = [view EXCEPT ![e][event.block] = event.value]
  BY DEF Deliver, Show
<1> HIDE DEF event
<1>5. view' \in [Editors -> [Blocks -> Values]]
  BY <1>3, <1>4 DEF Types
<1>6. /\ job' = job /\ edits' = edits /\ rev' = rev /\ queue' = queue /\ post' = post
      /\ undoStack' = undoStack /\ redoStack' = redoStack
  BY DEF Deliver, kernel, bounds
<1>7. Types'
  BY <1>2, <1>5, <1>6 DEF Types
<1>8. QED
  BY <1>6, <1>7, SameQueues DEF Aside, Types, Values

\* A closed websocket keeps the types.
LEMMA DropTypes ==
    ASSUME Types, NEW e \in Editors, Drop(e)
    PROVE  Types' /\ Aside
<1>1. events' \in [Editors -> Seq(Changes)]
  BY DEF Drop, Types
<1>2. /\ job' = job /\ edits' = edits /\ rev' = rev /\ queue' = queue /\ post' = post
      /\ undoStack' = undoStack /\ redoStack' = redoStack /\ view' = view
  BY DEF Drop, kernel
<1>3. Types'
  BY <1>1, <1>2 DEF Types
<1>4. QED
  BY <1>2, <1>3, SameQueues DEF Aside, Types, Values

\* A read of the undo state keeps the types.
LEMMA InitMirrorTypes ==
    ASSUME Types, NEW w \in Windows, InitMirror(w)
    PROVE  Types' /\ Aside
<1>1. /\ job' = job /\ edits' = edits /\ rev' = rev /\ queue' = queue /\ post' = post
      /\ undoStack' = undoStack /\ redoStack' = redoStack /\ view' = view /\ events' = events
  BY DEF InitMirror, kernel, bounds
<1>2. Types'
  BY <1>1 DEF Types
<1>3. QED
  BY <1>1, <1>2, SameQueues DEF Aside, Types, Values
-----------------------------------------------------------------------------
\* A step of one window's replay: what it leaves alone.
Alone(w) == /\ edits' = edits /\ queue' = queue /\ post' = post
            /\ (undoStack' = undoStack /\ rev' = rev) \/ rev' = rev + 1
            /\ \A v \in Windows \ {w} : job'[v] = job[v]

\* It keeps what the other windows' replays rest on.
LEMMA Moving ==
    ASSUME Types, Types', NEW w \in Windows, Alone(w), WaitedFor(w)', PeekedAt(w)',
           NEW v \in Windows, WaitedFor(v), PeekedAt(v)
    PROVE  WaitedFor(v)' /\ PeekedAt(v)'
<1>1. CASE v = w
  BY <1>1
<1>2. CASE v # w
  <2>1. job'[v] = job[v] /\ edits' = edits /\ rev \in Nat
    BY <1>2 DEF Alone, Types
  <2>2. job[v] \in Asked => job[v].at \in Nat /\ job[v].ed \in Editors
    BY DEF Asked
  <2>3. WaitedFor(v)'
    <3>1. Pending(job[v].ed)' = Pending(job[v].ed)
      BY <2>1 DEF Pending, Alone
    <3>2. QED
      BY <2>1, <3>1 DEF WaitedFor, Past
  <2>4. PeekedAt(v)'
    <3>1. CASE undoStack' = undoStack /\ rev' = rev
      BY <2>1, <3>1 DEF PeekedAt, TopNow, Shared
    <3>2. CASE rev' = rev + 1
      BY <2>1, <2>2, <3>2 DEF PeekedAt
    <3>3. QED
      BY <3>1, <3>2 DEF Alone
  <2>5. QED
    BY <2>3, <2>4
<1>3. QED
  BY <1>1, <1>2

\* A job that goes on with the same request.
Same(w, j) == j.kind = job[w].kind /\ j.ed = job[w].ed /\ j.upto = job[w].upto

\* A step of the replay of w that leaves the log alone keeps what its own goes by, when
\* it has waited already.
LEMMA GoesOn ==
    ASSUME Types, Types', NEW w \in Windows, Alone(w), WaitedFor(w), Past(w),
           NEW j \in Asked, job'[w] = j, Same(w, j)
    PROVE  WaitedFor(w)'
<1>1. j.ed \in Editors /\ Pending(j.ed)' = Pending(j.ed)
  BY SameQueues DEF Asked, Alone
<1>2. edits' = edits /\ job[w] \in Asked /\ job[w].upto <= edits
  BY DEF Alone, Past, WaitedFor
<1>3. \A op \in Pending(j.ed)' : op.id > j.upto
  BY <1>1 DEF Same, WaitedFor
<1>4. Pending(job[w].ed)' = Pending(j.ed)'
  BY DEF Pending
<1>5. QED
  BY <1>2, <1>3, <1>4 DEF Same, WaitedFor, Past

\* A window that is free again, or stuck, asks nothing.
LEMMA NothingAsked ==
    ASSUME NEW w \in Windows, job'[w] \in {Free, Stuck}
    PROVE  WaitedFor(w)' /\ PeekedAt(w)' /\ job'[w].step # "push"
BY DEF WaitedFor, PeekedAt, Past, Asked, Free, Stuck

\* The types of a window's job.
LEMMA JobTypes ==
    ASSUME Types, NEW w \in Windows, NEW j \in Asked \cup {Free, Stuck},
           job' = [job EXCEPT ![w] = j],
           j.step = "push" => j.answer \in [op : Ops, rev : Nat],
           j.step = "answer" => j.answer \in Told,
           view' \in [Editors -> [Blocks -> Values]], events' \in [Editors -> Seq(Changes)],
           undoStack' \in Seq(Ops), redoStack' \in Seq(Ops),
           Alone(w)
    PROVE  Types' /\ job'[w] = j
<1>1. job' \in [Windows -> Asked \cup {Free, Stuck}] /\ job'[w] = j
  BY DEF Types
<1>2. rev' \in Nat /\ edits' \in Values /\ queue' = queue /\ post' = post
  BY DEF Types, Alone
<1>3. ASSUME NEW v \in Windows
      PROVE  /\ job'[v].step = "push" => job'[v].answer \in [op : Ops, rev : Nat]
             /\ job'[v].step = "answer" => job'[v].answer \in Told
  BY <1>1 DEF Types
<1>4. QED
  BY <1>1, <1>2, <1>3 DEF Types
-----------------------------------------------------------------------------
\* What each step of a replay of w keeps.
Kept(w) == Types' /\ Alone(w) /\ WaitedFor(w)' /\ PeekedAt(w)'

\* A window that is neither free nor stuck has a request.
LEMMA HasAsked ==
    ASSUME Types, NEW w \in Windows, job[w].step \notin {"free", "stuck"}
    PROVE  job[w] \in Asked /\ (job[w].step # "wait" => Past(w))
BY DEF Types, Free, Stuck, Past

\* A request waits for what is queued at that moment.
LEMMA RequestKeeps ==
    ASSUME Types, NEW e \in Editors, NEW kind \in Kinds, Request(e, kind)
    PROVE  /\ WindowOf[e] \in Windows /\ Kept(WindowOf[e])
           /\ job'[WindowOf[e]].step # "push"
<1> DEFINE w == WindowOf[e]
           j == [step |-> "wait", kind |-> kind, ed |-> e, upto |-> edits,
                 top |-> <<>>, at |-> 0, agreed |-> FALSE, answer |-> Free]
<1>1. w \in Windows /\ edits \in Nat /\ rev \in Nat
  BY WindowsAssumption, BoundsAssumption DEF Types, Values
<1>2. j \in Asked
  BY <1>1 DEF Asked, Kinds, Answers
<1>3. job' = [job EXCEPT ![w] = j]
  BY DEF Request
<1>4. j.step = "wait" /\ j.upto = edits /\ j.at = 0
  OBVIOUS
<1> HIDE DEF w, j
<1>5. Alone(w) /\ view' = view /\ events' = events /\ undoStack' = undoStack /\ redoStack' = redoStack
  BY <1>1, <1>3 DEF Request, Alone, kernel, Types
<1>6. Types' /\ job'[w] = j
  BY <1>1, <1>2, <1>3, <1>4, <1>5, JobTypes DEF Types
<1>7. WaitedFor(w)' /\ PeekedAt(w)' /\ job'[w].step # "push"
  BY <1>1, <1>4, <1>5, <1>6 DEF WaitedFor, PeekedAt, Past, Alone, Types
<1>8. QED
  BY <1>1, <1>5, <1>6, <1>7 DEF Kept, w

\* Who has waited has nothing left of what it waits for.
LEMMA WaitedKeeps ==
    ASSUME Types, NEW w \in Windows, WaitedFor(w), PeekedAt(w), Waited(w)
    PROVE  Kept(w) /\ job'[w].step # "push"
<1> DEFINE j == [job[w] EXCEPT !.step = IF job[w].kind = "undo" THEN "peek" ELSE "post"]
<1>1. job[w] \in Asked
  BY DEF Waited, Types, Free, Stuck
<1>2. j \in Asked /\ Same(w, j) /\ j.step \in {"peek", "post"} /\ j.at = job[w].at
  BY <1>1 DEF Asked, Same
<1>3. j.step = "post" => j.kind # "undo"
  BY <1>1 DEF Asked
<1>4. job' = [job EXCEPT ![w] = j]
  BY <1>1 DEF Waited, Step, Types
<1> HIDE DEF j
<1>5. Alone(w) /\ view' = view /\ events' = events /\ undoStack' = undoStack /\ redoStack' = redoStack
  BY <1>4 DEF Waited, Alone, kernel, bounds, Types
<1>6. Types' /\ job'[w] = j
  BY <1>2, <1>4, <1>5, JobTypes DEF Types
<1>7. WaitedFor(w)'
  <2>1. \A op \in Pending(job[w].ed) : op.id > job[w].upto
    BY DEF Waited, Settled
  <2>2. Pending(job[w].ed)' = Pending(job[w].ed)
    BY <1>2, <1>5, <1>6 DEF Pending, Alone, Same
  <2>3. QED
    BY <1>1, <1>2, <1>5, <1>6, <2>1, <2>2 DEF WaitedFor, Past, Alone, Same
<1>8. PeekedAt(w)' /\ job'[w].step # "push"
  BY <1>1, <1>2, <1>3, <1>6 DEF PeekedAt, Waited, kernel
<1>9. QED
  BY <1>5, <1>6, <1>7, <1>8 DEF Kept

\* Who peeks knows the top of the stack as it is.
LEMMA PeekKeeps ==
    ASSUME Types, NEW w \in Windows, WaitedFor(w), PeekedAt(w), Peek(w)
    PROVE  Kept(w) /\ job'[w].step # "push"
<1> DEFINE next == IF Shared(TopNow) THEN "confirm" ELSE "post"
           j == [job[w] EXCEPT !.step = next, !.top = TopNow, !.at = rev]
<1> job[w].step = "peek"
  BY DEF Peek
<1>1. job[w] \in Asked /\ Past(w) /\ rev \in Nat
  BY HasAsked DEF Types
<1>2. TopNow \in Seq(Ops)
  <2>1. CASE undoStack = <<>>
    BY <2>1 DEF TopNow
  <2>2. CASE undoStack # <<>>
    <3>1. \E x : x \in Ops
      BY <2>2 DEF Types
    <3>2. Last(undoStack) \in Ops
      BY <2>2, <3>1, Ends DEF Types
    <3>3. QED
      BY <2>2, <3>2 DEF TopNow
  <2>3. QED
    BY <2>1, <2>2
<1>3. /\ j \in Asked /\ Same(w, j) /\ j.step = next /\ j.step \in {"confirm", "post"}
      /\ j.at = rev /\ j.top = TopNow
  BY <1>1, <1>2 DEF Asked, Same
<1>4. job' = [job EXCEPT ![w] = j]
  BY <1>1 DEF Peek, Types, TopNow, Shared
<1>5. Shared(j.top) => j.step = "confirm"
  BY <1>3
<1> HIDE DEF j, next
<1>6. /\ Alone(w) /\ view' = view /\ events' = events
      /\ undoStack' = undoStack /\ redoStack' = redoStack /\ rev' = rev
  BY <1>4 DEF Peek, Alone, kernel, bounds, Types
<1>7. Types' /\ job'[w] = j
  BY <1>3, <1>4, <1>6, JobTypes DEF Types
<1>8. WaitedFor(w)'
  BY <1>1, <1>3, <1>6, <1>7, GoesOn
<1>9. PeekedAt(w)' /\ job'[w].step # "push"
  <2>1. TopNow' = TopNow
    BY <1>6 DEF TopNow
  <2>2. Shared(job[w].top)' = Shared(j.top)
    BY <1>7 DEF Shared, Cross
  <2>3. QED
    BY <1>1, <1>3, <1>5, <1>6, <1>7, <2>1, <2>2 DEF PeekedAt
<1>10. QED
  BY <1>6, <1>7, <1>8, <1>9 DEF Kept

\* A user who is asked says yes or no to what was peeked at.
LEMMA ConfirmKeeps ==
    ASSUME Types, NEW w \in Windows, WaitedFor(w), PeekedAt(w), Confirm(w)
    PROVE  Kept(w) /\ job'[w].step # "push"
<1> job[w].step = "confirm"
  BY DEF Confirm
<1>1. job[w] \in Asked /\ Past(w) /\ job[w].step = "confirm"
  BY HasAsked
<1>2. /\ edits' = edits /\ queue' = queue /\ post' = post /\ view' = view /\ events' = events
      /\ undoStack' = undoStack /\ redoStack' = redoStack /\ rev' = rev
  BY DEF Confirm, kernel, bounds
<1>3. CASE Unlock(w)
  <2>1. job' = [job EXCEPT ![w] = Free]
    BY <1>3 DEF Unlock
  <2>2. Alone(w)
    BY <1>2, <2>1 DEF Alone, Types
  <2>3. Types' /\ job'[w] = Free
    BY <1>2, <2>1, <2>2, JobTypes DEF Types, Free
  <2>4. QED
    BY <2>2, <2>3, NothingAsked DEF Kept
<1>4. CASE job' = [job EXCEPT ![w].step = "post", ![w].agreed = TRUE]
  <2> DEFINE j == [job[w] EXCEPT !.step = "post", !.agreed = TRUE]
  <2>1. /\ j \in Asked /\ Same(w, j) /\ j.step = "post" /\ j.agreed = TRUE
        /\ j.at = job[w].at /\ j.top = job[w].top
    BY <1>1 DEF Asked, Same
  <2>2. job' = [job EXCEPT ![w] = j]
    BY <1>1, <1>4 DEF Types
  <2> HIDE DEF j
  <2>3. Alone(w)
    BY <1>2, <2>2 DEF Alone, Types
  <2>4. Types' /\ job'[w] = j
    BY <1>2, <2>1, <2>2, <2>3, JobTypes DEF Types
  <2>5. WaitedFor(w)'
    BY <1>1, <2>1, <2>3, <2>4, GoesOn
  <2>6. PeekedAt(w)' /\ job'[w].step # "push"
    BY <1>1, <1>2, <2>1, <2>4 DEF PeekedAt, Same, TopNow
  <2>7. QED
    BY <2>3, <2>4, <2>5, <2>6 DEF Kept
<1>5. QED
  BY <1>3, <1>4 DEF Confirm

\* A replay of an empty stack answers that there is nothing.
LEMMA ReplayNothingKeeps ==
    ASSUME Types, NEW w \in Windows, WaitedFor(w), PeekedAt(w), ReplayNothing(w)
    PROVE  Kept(w) /\ job'[w].step # "push"
<1> DEFINE j == [job[w] EXCEPT !.step = "answer", !.answer = [told |-> "nothing"]]
<1> job[w].step = "post"
  BY DEF ReplayNothing
<1>1. job[w] \in Asked /\ Past(w)
  BY HasAsked
<1>2. [told |-> "nothing"] \in Told /\ Told \subseteq Answers
  BY DEF Told, Answers
<1>3. /\ j \in Asked /\ Same(w, j) /\ j.step = "answer" /\ j.at = job[w].at
      /\ j.answer \in Told
  BY <1>1, <1>2 DEF Asked, Same
<1>4. job' = [job EXCEPT ![w] = j]
  BY <1>1 DEF ReplayNothing, Answer, Types
<1> HIDE DEF j
<1>5. Alone(w) /\ view' = view /\ events' = events /\ undoStack' = undoStack /\ redoStack' = redoStack
  BY <1>4 DEF ReplayNothing, Alone, kernel, bounds, Types
<1>6. Types' /\ job'[w] = j
  BY <1>3, <1>4, <1>5, JobTypes DEF Types
<1>7. WaitedFor(w)'
  BY <1>1, <1>3, <1>5, <1>6, GoesOn
<1>8. PeekedAt(w)' /\ job'[w].step # "push"
  BY <1>1, <1>3, <1>6 DEF PeekedAt, ReplayNothing, kernel
<1>9. QED
  BY <1>5, <1>6, <1>7, <1>8 DEF Kept

\* A replay that fails answers so.
LEMMA ReplayFailsKeeps ==
    ASSUME Types, NEW w \in Windows, WaitedFor(w), PeekedAt(w), ReplayFails(w)
    PROVE  Kept(w) /\ job'[w].step # "push"
<1> DEFINE j == [job[w] EXCEPT !.step = "answer", !.answer = [told |-> "failed"]]
<1> job[w].step = "post"
  BY DEF ReplayFails
<1>1. job[w] \in Asked /\ Past(w)
  BY HasAsked
<1>2. [told |-> "failed"] \in Told /\ Told \subseteq Answers
  BY DEF Told, Answers
<1>3. /\ j \in Asked /\ Same(w, j) /\ j.step = "answer" /\ j.at = job[w].at
      /\ j.answer \in Told
  BY <1>1, <1>2 DEF Asked, Same
<1>4. job' = [job EXCEPT ![w] = j]
  BY <1>1 DEF ReplayFails, Answer, Types
<1> HIDE DEF j
<1>5. /\ Alone(w) /\ view' = view /\ events' = events /\ undoStack' = undoStack
      /\ redoStack' = redoStack /\ rev' = rev
  BY <1>4 DEF ReplayFails, Alone, Types
<1>6. Types' /\ job'[w] = j
  BY <1>3, <1>4, <1>5, JobTypes DEF Types
<1>7. WaitedFor(w)'
  BY <1>1, <1>3, <1>5, <1>6, GoesOn
<1>8. PeekedAt(w)' /\ job'[w].step # "push"
  BY <1>1, <1>3, <1>5, <1>6 DEF PeekedAt
<1>9. QED
  BY <1>5, <1>6, <1>7, <1>8 DEF Kept

\* The push of a replay comes after its edit left the log.
LEMMA PushReplayKeeps ==
    ASSUME Types, NEW w \in Windows, WaitedFor(w), PeekedAt(w), PushReplay(w)
    PROVE  Kept(w) /\ job'[w].step # "push"
<1> DEFINE op == job[w].answer.op
           change == [block |-> op.block, value |-> Value(job[w].kind, op),
                      rev |-> job[w].answer.rev, stored |-> TRUE, known |-> Known(State)]
           answer == [told |-> IF Cross(op) THEN "elsewhere" ELSE "done", change |-> change]
           j == [job[w] EXCEPT !.step = "answer", !.answer = answer]
<1> job[w].step = "push"
  BY DEF PushReplay
<1>1. job[w] \in Asked /\ Past(w)
  BY HasAsked
<1>2. job[w].answer \in [op : Ops, rev : Nat]
  BY DEF Types
<1>3. Value(job[w].kind, op) \in Values /\ op.block \in Blocks
  BY <1>2, BoundsAssumption DEF Value, Values, Ops, EditIds
<1>4. change \in Changes
  BY <1>2, <1>3, KnownTypes DEF Changes
<1>5. answer \in Told /\ Told \subseteq Answers
  BY <1>4 DEF Told, Answers
<1>6. /\ Tell(IF Cross(op) THEN Editors ELSE Others(job[w].ed), change)
      /\ job' = [job EXCEPT ![w].step = "answer", ![w].answer = answer]
  BY DEF PushReplay, Answer
<1> HIDE DEF change, answer
<1>7. /\ j \in Asked /\ Same(w, j) /\ j.step = "answer" /\ j.at = job[w].at
      /\ j.answer \in Told
  BY <1>1, <1>5 DEF Asked, Same
<1>8. job' = [job EXCEPT ![w] = j]
  BY <1>1, <1>6 DEF Types
<1> HIDE DEF j
<1>9. events' \in [Editors -> Seq(Changes)]
  BY <1>4, <1>6, TellTypes
<1>10. Alone(w) /\ view' = view /\ undoStack' = undoStack /\ redoStack' = redoStack /\ rev' = rev
  BY <1>8 DEF PushReplay, Alone, kernel, bounds, Types
<1>11. Types' /\ job'[w] = j
  BY <1>7, <1>8, <1>9, <1>10, JobTypes DEF Types
<1>12. WaitedFor(w)'
  BY <1>1, <1>7, <1>10, <1>11, GoesOn
<1>13. PeekedAt(w)' /\ job'[w].step # "push"
  BY <1>1, <1>7, <1>10, <1>11 DEF PeekedAt
<1>14. QED
  BY <1>10, <1>11, <1>12, <1>13 DEF Kept

\* The answer ends the replay.
LEMMA ReplayedKeeps ==
    ASSUME Types, NEW w \in Windows, Replayed(w)
    PROVE  Kept(w) /\ job'[w].step # "push"
<1> job[w].step = "answer"
  BY DEF Replayed
<1>1. job[w] \in Asked /\ job[w].answer \in Told /\ job[w].ed \in Editors
  BY HasAsked DEF Types, Asked
<1>2. job' = [job EXCEPT ![w] = Free]
  BY DEF Replayed, Unlock
<1>3. /\ Alone(w) /\ events' = events /\ undoStack' = undoStack /\ redoStack' = redoStack
  BY <1>2 DEF Replayed, Alone, kernel, bounds, Types
<1>4. view' \in [Editors -> [Blocks -> Values]]
  <2>1. CASE view' = view
    BY <2>1 DEF Types
  <2>2. CASE job[w].answer.told = "done"
    <3>1. job[w].answer.change \in Changes
      BY <1>1, <2>2 DEF Told
    <3>2. job[w].answer.change.value \in Values
      BY <3>1 DEF Changes
    <3>3. view' = [view EXCEPT ![job[w].ed][job[w].answer.change.block] = job[w].answer.change.value]
      BY <2>2 DEF Replayed, Show
    <3>4. QED
      BY <1>1, <3>2, <3>3 DEF Types
  <2>3. QED
    BY <2>1, <2>2 DEF Replayed
<1>5. Types' /\ job'[w] = Free
  BY <1>2, <1>3, <1>4, JobTypes DEF Types, Free
<1>6. QED
  BY <1>3, <1>5, NothingAsked DEF Kept

\* A lost request leaves the window stuck.
LEMMA ReplayLostKeeps ==
    ASSUME Types, NEW w \in Windows, ReplayLost(w)
    PROVE  Kept(w) /\ job'[w].step # "push"
<1>1. job' = [job EXCEPT ![w] = Stuck]
  BY DEF ReplayLost, Stuck
<1>2. /\ Alone(w) /\ events' = events /\ undoStack' = undoStack /\ redoStack' = redoStack
      /\ view' = view
  BY <1>1 DEF ReplayLost, Alone, kernel, Types
<1>3. Types' /\ job'[w] = Stuck
  BY <1>1, <1>2, JobTypes DEF Types, Stuck
<1>4. QED
  BY <1>2, <1>3, NothingAsked DEF Kept

\* The step that takes an edit from the log.
LEMMA ReplayKeeps ==
    ASSUME Types, NEW w \in Windows, WaitedFor(w), PeekedAt(w), Replay(w)
    PROVE  /\ Kept(w) /\ job'[w].answer.op = Last(Stack(job[w].kind))
           /\ job[w] \in Asked /\ Past(w) /\ job[w].step = "post"
           /\ Stack(job[w].kind) # <<>>
<1> DEFINE op == Last(Stack(job[w].kind))
           taken == [op |-> op, rev |-> rev + 1]
           j == [job[w] EXCEPT !.step = "push", !.answer = taken]
<1> job[w].step = "post" /\ Stack(job[w].kind) # <<>> /\ rev \in Nat
  BY DEF Replay, Types
<1>1. job[w] \in Asked /\ Past(w)
  BY HasAsked
<1>2. /\ op \in Ops /\ undoStack \in Seq(Ops) /\ redoStack \in Seq(Ops)
      /\ undoStack # <<>> => Front(undoStack) \in Seq(Ops)
      /\ redoStack # <<>> => Front(redoStack) \in Seq(Ops)
  <2>1. undoStack \in Seq(Ops) /\ redoStack \in Seq(Ops)
    BY DEF Types
  <2>2. ASSUME NEW s \in Seq(Ops), s # <<>> PROVE Last(s) \in Ops /\ Front(s) \in Seq(Ops)
    <3>1. \E x : x \in Ops
      BY <2>2
    <3>2. QED
      BY <2>2, <3>1, Ends
  <2>3. QED
    BY <2>1, <2>2 DEF Stack
<1>3. taken \in [op : Ops, rev : Nat] /\ taken.op = op
  BY <1>2
<1>4. job' = [job EXCEPT ![w].step = "push", ![w].answer = taken]
  BY DEF Replay
<1>5. undoStack' \in Seq(Ops) /\ redoStack' \in Seq(Ops)
  <2>1. CASE job[w].kind = "undo"
    <3>1. /\ undoStack' = Front(undoStack) /\ redoStack' = Append(redoStack, op)
          /\ undoStack # <<>>
      BY <2>1 DEF Replay, Stack
    <3> HIDE DEF op
    <3>2. QED
      BY <1>2, <3>1
  <2>2. CASE job[w].kind # "undo"
    <3>1. /\ redoStack' = Front(redoStack) /\ undoStack' = Append(undoStack, op)
          /\ redoStack # <<>>
      BY <2>2 DEF Replay, Stack
    <3> HIDE DEF op
    <3>2. QED
      BY <1>2, <3>1
  <2>3. QED
    BY <2>1, <2>2
<1> HIDE DEF taken
<1>6. /\ j \in Asked /\ Same(w, j) /\ j.step = "push" /\ j.at = job[w].at /\ j.answer = taken
  BY <1>1, <1>3 DEF Asked, Same, Answers
<1>7. job' = [job EXCEPT ![w] = j]
  BY <1>1, <1>4 DEF Types
<1> HIDE DEF j
<1>8. Alone(w) /\ view' = view /\ events' = events /\ rev' = rev + 1
  BY <1>7 DEF Replay, Alone, bounds, Types
<1>9. Types' /\ job'[w] = j
  BY <1>3, <1>5, <1>6, <1>7, <1>8, JobTypes DEF Types
<1>10. WaitedFor(w)'
  BY <1>1, <1>6, <1>8, <1>9, GoesOn
<1>11. PeekedAt(w)'
  <2>1. j.at \in Nat /\ j.at <= rev
    BY <1>1, <1>6 DEF PeekedAt, Asked
  <2>2. QED
    BY <1>6, <1>8, <1>9, <2>1 DEF PeekedAt
<1>12. QED
  BY <1>1, <1>3, <1>6, <1>8, <1>9, <1>10, <1>11 DEF Kept
-----------------------------------------------------------------------------
\* UndoneAsAsked says this of every step.
AsAsked(w) ==
    job[w].step = "post" /\ job'[w].step = "push" =>
        LET op == job'[w].answer.op
        IN /\ \A mine \in Pending(job[w].ed) : mine.id > job[w].upto
           /\ job[w].kind = "undo" /\ rev = job[w].at =>
                job[w].top = <<op>> /\ (Cross(op) => job[w].agreed)

\* Nothing is asked at first.
LEMMA AskInit == Init => AskInv
<1> SUFFICES ASSUME Init PROVE AskInv
  OBVIOUS
<1>1. /\ undoStack = <<>> /\ redoStack = <<>> /\ rev = 0 /\ edits = 0
      /\ view \in [Editors -> [Blocks -> {0}]]
      /\ queue = [e \in Editors |-> <<>>] /\ post = [e \in Editors |-> Free]
      /\ events = [e \in Editors |-> <<>>] /\ job = [w \in Windows |-> Free]
  BY DEF Init
<1>2. 0 \in Values
  BY BoundsAssumption DEF Values
<1>3. Types
  BY <1>1, <1>2 DEF Types, Free
<1>4. ASSUME NEW w \in Windows PROVE WaitedFor(w) /\ PeekedAt(w)
  BY <1>1 DEF WaitedFor, PeekedAt, Past, Asked, Free
<1>5. QED
  BY <1>3, <1>4 DEF AskInv

\* A step aside keeps everything, and takes nothing.
LEMMA AsideKeeps ==
    ASSUME AskInv, Types', Aside
    PROVE  AskInv' /\ \A w \in Windows : AsAsked(w)
<1>1. ASSUME NEW w \in Windows PROVE WaitedFor(w)' /\ PeekedAt(w)'
  BY <1>1, Quiet DEF AskInv, Aside
<1>2. QED
  BY <1>1 DEF AskInv, Aside, AsAsked

\* So does a step of a replay that takes nothing.
LEMMA MovingKeeps ==
    ASSUME AskInv, NEW w \in Windows, Kept(w), AsAsked(w)
    PROVE  AskInv' /\ \A v \in Windows : AsAsked(v)
<1>1. ASSUME NEW v \in Windows PROVE WaitedFor(v)' /\ PeekedAt(v)'
  BY <1>1, Moving DEF AskInv, Kept
<1>2. ASSUME NEW v \in Windows PROVE AsAsked(v)
  <2>1. CASE v = w
    BY <2>1
  <2>2. CASE v # w
    BY <2>2 DEF Kept, Alone, AsAsked
  <2>3. QED
    BY <2>1, <2>2
<1>3. QED
  BY <1>1, <1>2 DEF AskInv, Kept

\* A replay takes what it was asked for.
LEMMA ReplayAsAsked ==
    ASSUME AskInv, NEW w \in Windows, Replay(w)
    PROVE  Kept(w) /\ AsAsked(w)
<1> DEFINE op == job'[w].answer.op
<1>1. /\ Kept(w) /\ op = Last(Stack(job[w].kind)) /\ job[w] \in Asked /\ Past(w)
      /\ job[w].step = "post" /\ Stack(job[w].kind) # <<>>
  BY ReplayKeeps DEF AskInv
<1>2. \A mine \in Pending(job[w].ed) : mine.id > job[w].upto
  BY <1>1 DEF AskInv, WaitedFor
<1>3. ASSUME job[w].kind = "undo", rev = job[w].at
      PROVE  job[w].top = <<op>> /\ (Cross(op) => job[w].agreed)
  <2>1. job[w].top = TopNow /\ (Shared(job[w].top) => job[w].agreed)
    BY <1>1, <1>3 DEF AskInv, PeekedAt
  <2>2. undoStack # <<>> /\ op = Last(undoStack)
    BY <1>1, <1>3 DEF Stack
  <2>3. TopNow = <<op>>
    BY <2>2 DEF TopNow
  <2>4. Cross(op) => Shared(job[w].top)
    BY <2>1, <2>3 DEF Shared
  <2>5. QED
    BY <2>1, <2>3, <2>4
<1>4. QED
  BY <1>1, <1>2, <1>3 DEF AsAsked

\* Every step keeps the invariant, and takes what was asked for.
LEMMA AskNext ==
    ASSUME AskInv, [Next]_vars
    PROVE  AskInv' /\ \A w \in Windows : AsAsked(w)
<1> Types
  BY DEF AskInv
<1>1. CASE UNCHANGED vars
  <2>1. Types' /\ Aside
    <3>1. /\ job' = job /\ edits' = edits /\ rev' = rev /\ queue' = queue /\ post' = post
          /\ undoStack' = undoStack /\ redoStack' = redoStack /\ view' = view /\ events' = events
      BY <1>1 DEF vars, kernel, bounds
    <3>2. Types'
      BY <3>1 DEF Types
    <3>3. QED
      BY <3>1, <3>2, SameQueues DEF Aside, Types, Values
  <2>2. QED
    BY <2>1, AsideKeeps
<1>2. ASSUME NEW e \in Editors, NEW b \in Blocks, Type(e, b)
      PROVE  AskInv' /\ \A w \in Windows : AsAsked(w)
  BY <1>2, TypeTypes, AsideKeeps
<1>3. ASSUME NEW e \in Editors, NEW kind \in Kinds, Request(e, kind)
      PROVE  AskInv' /\ \A w \in Windows : AsAsked(w)
  <2>1. /\ WindowOf[e] \in Windows /\ Kept(WindowOf[e])
        /\ job'[WindowOf[e]].step # "push"
    BY <1>3, RequestKeeps
  <2>2. AsAsked(WindowOf[e])
    BY <2>1 DEF AsAsked
  <2>3. QED
    BY <2>1, <2>2, MovingKeeps
<1>4. ASSUME NEW e \in Editors,
             Commit(e) \/ Push(e) \/ Deliver(e) \/ Rollback(e) \/ PostLost(e) \/ Drop(e)
      PROVE  AskInv' /\ \A w \in Windows : AsAsked(w)
  <2>1. Types' /\ Aside
    BY <1>4, CommitTypes, PushTypes, DeliverTypes, RollbackTypes, PostLostTypes, DropTypes
  <2>2. QED
    BY <2>1, AsideKeeps
<1>5. ASSUME NEW w \in Windows, InitMirror(w)
      PROVE  AskInv' /\ \A v \in Windows : AsAsked(v)
  BY <1>5, InitMirrorTypes, AsideKeeps
<1>6. ASSUME NEW w \in Windows,
             \/ Waited(w) \/ Peek(w) \/ Confirm(w) \/ ReplayNothing(w) \/ PushReplay(w)
             \/ Replayed(w) \/ ReplayFails(w) \/ ReplayLost(w)
      PROVE  AskInv' /\ \A v \in Windows : AsAsked(v)
  <2>1. WaitedFor(w) /\ PeekedAt(w)
    BY DEF AskInv
  <2>2. Kept(w) /\ job'[w].step # "push"
    BY <1>6, <2>1, WaitedKeeps, PeekKeeps, ConfirmKeeps, ReplayNothingKeeps, PushReplayKeeps,
       ReplayedKeeps, ReplayFailsKeeps, ReplayLostKeeps
  <2>3. AsAsked(w)
    BY <2>2 DEF AsAsked
  <2>4. QED
    BY <2>2, <2>3, MovingKeeps
<1>7. ASSUME NEW w \in Windows, Replay(w)
      PROVE  AskInv' /\ \A v \in Windows : AsAsked(v)
  BY <1>7, ReplayAsAsked, MovingKeeps
<1>8. QED
  BY <1>1, <1>2, <1>3, <1>4, <1>5, <1>6, <1>7 DEF Next, SystemStep, Fault

\* An undo reaches the log after every edit its user had made in that editor, takes the
\* edit that was peeked at unless something was stored meanwhile, and an edit of several
\* documents only with the user's consent: whatever the number of editors, windows,
\* blocks and faults, and whichever edits change several documents.
THEOREM ReplaysAreAsAsked == Spec => UndoneAsAsked
<1>1. Init => AskInv
  BY AskInit
<1>2. AskInv /\ [Next]_vars => AskInv'
  BY AskNext
<1>3. AskInv /\ [Next]_vars =>
        [\A w \in Windows : job[w].step = "post" /\ job'[w].step = "push" =>
           LET op == job'[w].answer.op
           IN /\ \A mine \in Pending(job[w].ed) : mine.id > job[w].upto
              /\ job[w].kind = "undo" /\ rev = job[w].at =>
                   job[w].top = <<op>> /\ (Cross(op) => job[w].agreed)]_vars
  BY AskNext DEF AsAsked
<1>4. QED
  BY <1>1, <1>2, <1>3, PTL DEF Spec, UndoneAsAsked
-----------------------------------------------------------------------------
(* Editors and windows in step with the kernel.                            *)

\* The other types.
Plain ==
    /\ doc \in [Blocks -> Values] /\ hasUndo \in BOOLEAN
    /\ mirror \in [Windows -> States] /\ opening \subseteq Opening
    /\ replays \in 0..MaxReplays /\ faults \in 0..MaxFaults
    /\ \A w \in Windows : job[w] \in Asked => WindowOf[job[w].ed] = w
Held == heldView \in [Editors -> [Blocks -> 0..rev]] /\ heldState \in [Windows -> 0..rev]

Ids(s) == {op.id : op \in Range(s)}
Once(s) == \A i, j \in DOMAIN s : s[i].id = s[j].id => i = j
Rising(s) == \A i, j \in DOMAIN s : i < j => s[i].id < s[j].id
Logged == Ids(undoStack) \cup Ids(redoStack)

\* An editor posts its edits one by one and the oldest first.
InLine(e) ==
    /\ Rising(queue[e])
    /\ post[e] # Free => \A op \in Range(queue[e]) : post[e].op.id < op.id
    /\ post[e] = Free => queue[e] = <<>>
    /\ \A op \in Pending(e) : op.id <= edits

\* An edit is on one stack, or unsent by one editor.
Apart ==
    /\ Once(undoStack) /\ Once(redoStack) /\ Ids(undoStack) \cap Ids(redoStack) = {}
    /\ \A id \in Logged : id <= edits
    /\ \A e \in Editors : \A op \in Unsent(e) :
          /\ op.id \notin Logged
          /\ \A f \in Editors \ {e} : \A other \in Unsent(f) : op.id # other.id

Order == Apart /\ \A e \in Editors : InLine(e)

\* What a push says is not of the future, and true if it is of the present.
Fine(c, now, state) ==
    c.rev <= now /\ c.known.rev <= now /\ (c.known.rev = now => c.known.state = state)
Stored == {"done", "elsewhere"}
Truthful ==
    /\ \A e \in Editors : \A c \in Range(events[e]) : Fine(c, rev, State)
    /\ \A e \in Editors : post[e].step = "done" => post[e].rev <= rev
    /\ \A w \in Windows :
          /\ job[w].step = "push" => job[w].answer.rev <= rev
          /\ job[w].step = "answer" /\ job[w].answer.told \in Stored =>
                Fine(job[w].answer.change, rev, State)
    /\ rev = 0 => undoStack = <<>> /\ redoStack = <<>>

\* The stored changes on their way to an editor: pushed, still to be pushed by a post or
\* by a replay; and those its own replays are answered with.
Move(block, value, r) == [block |-> block, value |-> value, rev |-> r]
EventMove(c) == Move(c.block, c.value, c.rev)
PostMove(f) == Move(post[f].op.block, post[f].op.id, post[f].rev)
ReplayMove(w) == Move(job[w].answer.op.block, Value(job[w].kind, job[w].answer.op),
                      job[w].answer.rev)
Reaches(w, e) == Cross(job[w].answer.op) \/ job[w].ed # e

Pushed(e) == {EventMove(c) : c \in {x \in Range(events[e]) : x.stored}}
ToPush(e) == {PostMove(f) : f \in {x \in Others(e) : post[x].step = "done" /\ post[x].stored}}
ToTell(e) == {ReplayMove(w) : w \in {x \in Windows : job[x].step = "push" /\ Reaches(x, e)}}
ToAnswer(e) == {ReplayMove(w) : w \in {x \in Windows : job[x].step = "push" /\ ~Reaches(x, e)}}
Answered(e) == {EventMove(job[w].answer.change) : w \in {x \in Windows :
                   job[x].step = "answer" /\ job[x].ed = e /\ job[x].answer.told = "done"}}
Arriving(e) == Pushed(e) \cup ToPush(e) \cup ToTell(e)
Replies(e) == ToAnswer(e) \cup Answered(e)
Brings(moves, b, n) == \E m \in moves : m.block = b /\ m.rev = n
Writes(e, b) == \E op \in Unsent(e) : op.block = b

\* The last change of b is the nth of the document.  An editor has made or got it, or it
\* arrives; and a view that nothing left wrong shows it, or will when it arrives.
LastChange(b, n) ==
    /\ \A e \in Editors : \A m \in Arriving(e) \cup Replies(e) :
          m.block = b => m.rev <= n /\ (m.rev = n => m.value = doc[b])
    /\ \A e \in Editors : heldView[e][b] >= n \/ Brings(Arriving(e), b, n)
    /\ \A e \in Editors : <<e, b>> \notin offView /\ ~Writes(e, b) =>
          \/ heldView[e][b] >= n /\ view[e][b] = doc[b]
          \/ Brings(Arriving(e) \cup Replies(e), b, n)

\* An editor with unsent edits of a block shows the last of them.
ShowsOwn ==
    \A e \in Editors, b \in Blocks : <<e, b>> \notin offView /\ Writes(e, b) =>
        \E op \in Unsent(e) :
            /\ op.block = b /\ op.id = view[e][b]
            /\ \A other \in Unsent(e) : other.block = b => other.id <= op.id

ViewInv == ShowsOwn /\ \A b \in Blocks : \E n \in 0..rev : LastChange(b, n)

\* The present state of the log is on its way to a window, in a push, or in an answer.
Comes(w) ==
    \E e \in EditorsOf(w) :
        \/ \E c \in Range(events[e]) : c.stored /\ c.known.rev = rev
        \/ \E f \in Others(e) : post[f].step = "done" /\ post[f].stored
        \/ \E v \in Windows : job[v].step = "push" /\ Reaches(v, e)
Replied(w) ==
    \/ job[w].step = "push"
    \/ /\ job[w].step = "answer" /\ job[w].answer.told \in Stored
       /\ job[w].answer.change.known.rev = rev
Busy(w) == \E e \in EditorsOf(w) : Unsent(e) # {}

\* A window has been told of the last change, or will be; and a mirror that nothing left
\* wrong shows the present state, or will, or what an edit of its own makes of it.
InStep(w) ==
    /\ heldState[w] = rev \/ Comes(w)
    /\ w \notin offMirror /\ Busy(w) => mirror[w] = AddedState
    /\ w \notin offMirror /\ ~Busy(w) =>
          (heldState[w] = rev /\ mirror[w] = State) \/ Comes(w) \/ Replied(w)

Agreement == Plain /\ Held /\ Order /\ Truthful /\ ViewInv /\ \A w \in Windows : InStep(w)
-----------------------------------------------------------------------------
\* Natural numbers up to a bound have a largest.
LEMMA MaxFacts ==
    ASSUME NEW n \in Nat, NEW S \in SUBSET (0..n), S # {}
    PROVE  Max(S) \in S /\ \A x \in S : x <= Max(S)
<1> DEFINE T == {n - x : x \in S}
           R == OpToRel(<, Nat)
<1>1. T \subseteq Nat /\ T # {}
  <2>1. T \subseteq Nat
    OBVIOUS
  <2>2. PICK x : x \in S
    OBVIOUS
  <2>3. n - x \in T
    BY <2>2
  <2>4. QED
    BY <2>1, <2>3
<1>2. IsWellFoundedOn(R, Nat)
  BY NatLessThanWellFounded
<1> HIDE DEF R
<1>3. \E t \in T : \A u \in T : <<u, t>> \notin R
  <2> HIDE DEF T
  <2>1. QED
    BY <1>1, <1>2, WFMin
<1>4. PICK t \in T : \A u \in T : <<u, t>> \notin R
  BY <1>3
<1>5. PICK x \in S : t = n - x
  OBVIOUS
<1>6. ASSUME NEW y \in S PROVE x >= y
  <2>1. n - y \in T /\ n - y \in Nat /\ t \in Nat
    BY <1>1
  <2>2. ~(n - y < t)
    BY <1>4, <2>1 DEF R, OpToRel
  <2>3. QED
    BY <1>5, <2>2
<1>7. \E z \in S : \A y \in S : z >= y
  BY <1>6
<1>8. Max(S) \in S /\ \A y \in S : Max(S) >= y
  BY <1>7 DEF Max
<1>9. QED
  BY <1>8

\* The larger of two.
LEMMA MaxTwo ==
    ASSUME NEW n \in Nat, NEW a \in 0..n, NEW b \in 0..n
    PROVE  Max({a, b}) \in {a, b} /\ a <= Max({a, b}) /\ b <= Max({a, b})
<1>1. {a, b} \in SUBSET (0..n) /\ {a, b} # {}
  OBVIOUS
<1>2. QED
  BY <1>1, MaxFacts

\* An edit put on a stack, and taken off it.
LEMMA StackPush ==
    ASSUME NEW s \in Seq(Ops), NEW x \in Ops, Once(s), x.id \notin Ids(s)
    PROVE  Once(Append(s, x)) /\ Ids(Append(s, x)) = Ids(s) \cup {x.id}
<1>1. /\ Append(s, x) \in Seq(Ops) /\ Len(Append(s, x)) = Len(s) + 1
      /\ \A i \in 1..Len(s) : Append(s, x)[i] = s[i]
      /\ Append(s, x)[Len(s) + 1] = x
  OBVIOUS
<1>2. DOMAIN s = 1..Len(s) /\ DOMAIN Append(s, x) = 1..(Len(s) + 1) /\ Len(s) \in Nat
  BY <1>1
<1>3. \A i \in 1..Len(s) : s[i].id # x.id
  BY <1>2 DEF Ids, Range
<1>4. Once(Append(s, x))
  BY <1>1, <1>2, <1>3 DEF Once
<1>5. Range(Append(s, x)) = Range(s) \cup {x}
  BY Ends
<1>6. QED
  BY <1>4, <1>5 DEF Ids

LEMMA StackPop ==
    ASSUME NEW s \in Seq(Ops), s # <<>>, Once(s)
    PROVE  /\ Last(s) \in Ops /\ Front(s) \in Seq(Ops) /\ Last(s).id \in Ids(s)
           /\ Once(Front(s)) /\ Ids(Front(s)) = Ids(s) \ {Last(s).id}
<1>1. Len(s) \in Nat /\ Len(s) > 0 /\ DOMAIN s = 1..Len(s)
  OBVIOUS
<1>2. Last(s) = s[Len(s)] /\ Last(s) \in Ops
  BY <1>1 DEF Last
<1>3. Last(s).id \in Ids(s)
  BY <1>1, <1>2 DEF Ids, Range
<1>4. /\ Front(s) \in Seq(Ops) /\ DOMAIN Front(s) = 1..(Len(s) - 1)
      /\ \A i \in 1..(Len(s) - 1) : Front(s)[i] = s[i]
  BY <1>1 DEF Front
<1>5. Once(Front(s))
  BY <1>1, <1>4 DEF Once
<1>6. \A i \in 1..(Len(s) - 1) : s[i].id # s[Len(s)].id
  <2>1. \A i \in 1..(Len(s) - 1) : i \in DOMAIN s /\ Len(s) \in DOMAIN s /\ i # Len(s)
    <3>1. \A n \in Nat \ {0} : \A i \in 1..(n - 1) : i \in 1..n /\ n \in 1..n /\ i # n
      OBVIOUS
    <3>2. Len(s) \in Nat \ {0}
      BY <1>1
    <3>3. QED
      BY <1>1, <3>1, <3>2, Zenon
  <2>2. QED
    BY <2>1 DEF Once
<1>7. Ids(Front(s)) = {s[i].id : i \in 1..(Len(s) - 1)} /\ Ids(s) = {s[i].id : i \in 1..Len(s)}
  BY <1>1, <1>4 DEF Ids, Range
<1>8. \A i \in 1..Len(s) : i = Len(s) \/ i \in 1..(Len(s) - 1)
  <2>1. \A n \in Nat \ {0} : \A i \in 1..n : i = n \/ i \in 1..(n - 1)
    OBVIOUS
  <2>2. Len(s) \in Nat \ {0}
    BY <1>1
  <2>3. QED
    BY <2>1, <2>2, Zenon
<1>9. Ids(Front(s)) = Ids(s) \ {Last(s).id}
  <2>1. Ids(Front(s)) \subseteq Ids(s) \ {Last(s).id}
    BY <1>1, <1>2, <1>6, <1>7
  <2>2. Ids(s) \ {Last(s).id} \subseteq Ids(Front(s))
    BY <1>2, <1>7, <1>8
  <2>3. QED
    BY <2>1, <2>2
<1>10. QED
  BY <1>2, <1>3, <1>4, <1>5, <1>9

\* An edit that joins a line, and one that leaves it.
LEMMA LinePush ==
    ASSUME NEW s \in Seq(Ops), NEW x \in Ops, Rising(s), \A op \in Range(s) : op.id < x.id
    PROVE  Rising(Append(s, x))
<1>1. /\ Append(s, x) \in Seq(Ops) /\ Len(Append(s, x)) = Len(s) + 1
      /\ \A i \in 1..Len(s) : Append(s, x)[i] = s[i]
      /\ Append(s, x)[Len(s) + 1] = x
  OBVIOUS
<1>2. DOMAIN s = 1..Len(s) /\ DOMAIN Append(s, x) = 1..(Len(s) + 1) /\ Len(s) \in Nat
  BY <1>1
<1>3. \A i \in 1..Len(s) : s[i].id < x.id
  BY <1>2 DEF Range
<1>4. QED
  BY <1>1, <1>2, <1>3 DEF Rising

LEMMA LinePop ==
    ASSUME NEW s \in Seq(Ops), s # <<>>, Rising(s)
    PROVE  /\ Head(s) \in Ops /\ Tail(s) \in Seq(Ops) /\ Rising(Tail(s))
           /\ \A op \in Range(Tail(s)) : Head(s).id < op.id
           /\ Range(s) = {Head(s)} \cup Range(Tail(s))
<1>1. Len(s) \in Nat /\ Len(s) > 0 /\ DOMAIN s = 1..Len(s) /\ Head(s) = s[1] /\ Head(s) \in Ops
  OBVIOUS
<1>2. Tail(s) \in Seq(Ops) /\ DOMAIN Tail(s) = 1..(Len(s) - 1)
  OBVIOUS
<1>3. \A i \in 1..(Len(s) - 1) : Tail(s)[i] = s[i + 1] /\ i + 1 \in 1..Len(s)
  BY <1>1
<1>4. Rising(Tail(s))
  BY <1>1, <1>2, <1>3 DEF Rising
<1>5. \A op \in Range(Tail(s)) : Head(s).id < op.id
  <2>1. \A i \in 1..(Len(s) - 1) : s[1].id < s[i + 1].id
    BY <1>1, <1>3 DEF Rising
  <2>2. QED
    BY <1>1, <1>2, <1>3, <2>1 DEF Range
<1>6. Range(s) = {Head(s)} \cup Range(Tail(s))
  <2>1. \A i \in 1..Len(s) : i = 1 \/ (i - 1 \in 1..(Len(s) - 1) /\ s[i] = Tail(s)[i - 1])
    BY <1>1, <1>3
  <2>2. Range(s) \subseteq {Head(s)} \cup Range(Tail(s))
    BY <1>1, <1>2, <2>1 DEF Range
  <2>3. {Head(s)} \cup Range(Tail(s)) \subseteq Range(s)
    BY <1>1, <1>2, <1>3 DEF Range
  <2>4. QED
    BY <2>2, <2>3
<1>7. QED
  BY <1>1, <1>2, <1>4, <1>5, <1>6
-----------------------------------------------------------------------------
\* A post that waits for its push is the same in both states, or in neither.
SamePosts == \A f \in Editors :
    post[f].step = "done" \/ post'[f].step = "done" => post'[f] = post[f]
\* The queue and the post of e alone change.
OnlyLine(e) == \A f \in Editors \ {e} : post'[f] = post[f] /\ queue'[f] = queue[f]

\* A new edit is the last in its line.
LEMMA QueueingInLine ==
    ASSUME Types, Types', NEW e \in Editors, NEW op \in Ops, Queued(e, op), InLine(e),
           op.id = edits + 1, edits' = edits + 1
    PROVE  /\ Unsent(e)' = Unsent(e) \cup {op} /\ InLine(e)'
           /\ SamePosts /\ OnlyLine(e)
<1>1. /\ Sent(op) \in Edit /\ Sent(op).op = op /\ Sent(op).step = "sent"
      /\ Free.step = "free" /\ Sent(op) # Free
  BY DEF Sent, Edit, Free
<1>2. /\ queue[e] \in Seq(Ops) /\ edits \in Nat
      /\ \A other \in Range(queue[e]) : other \in Ops /\ other.id \in Nat
      /\ post[e] # Free => post[e].op.id \in Nat
  <2>1. queue[e] \in Seq(Ops) /\ edits \in Nat
    BY BoundsAssumption DEF Types, Values
  <2>2. \A other \in Range(queue[e]) : other \in Ops
    BY <2>1 DEF Range
  <2>3. \A other \in Ops : other.id \in Nat
    BY BoundsAssumption DEF Ops, EditIds
  <2>4. post[e] # Free => post[e].op \in Ops
    BY DEF Types, Edit
  <2>5. QED
    BY <2>1, <2>2, <2>3, <2>4
<1>3. CASE post[e] = Free
  <2>1. /\ post' = [post EXCEPT ![e] = Sent(op)] /\ queue' = queue /\ queue[e] = <<>>
    BY <1>3 DEF Queued, InLine
  <2>2. post'[e] = Sent(op) /\ queue'[e] = <<>> /\ Range(queue'[e]) = {} /\ OnlyLine(e)
    BY <2>1 DEF Types, Range, OnlyLine
  <2>3. Unsent(e)' = Unsent(e) \cup {op}
    BY <1>1, <1>3, <2>1, <2>2 DEF Unsent
  <2>4. Pending(e)' = {op}
    BY <1>1, <2>2 DEF Pending
  <2>5. Rising(queue'[e])
    BY <2>2 DEF Rising
  <2>6. InLine(e)'
    BY <1>1, <1>2, <2>2, <2>4, <2>5 DEF InLine
  <2>7. SamePosts
    BY <1>1, <1>3, <2>2 DEF SamePosts, OnlyLine
  <2>8. QED
    BY <2>2, <2>3, <2>6, <2>7
<1>4. CASE post[e] # Free
  <2>1. queue' = [queue EXCEPT ![e] = Append(queue[e], op)] /\ post' = post
    BY <1>4 DEF Queued
  <2>2. queue'[e] = Append(queue[e], op) /\ OnlyLine(e) /\ SamePosts
    BY <2>1 DEF Types, OnlyLine, SamePosts
  <2>3. Range(queue'[e]) = Range(queue[e]) \cup {op}
    BY <1>2, <2>2, Ends
  <2>4. Unsent(e)' = Unsent(e) \cup {op}
    BY <2>1, <2>3 DEF Unsent
  <2>5. Pending(e)' = Pending(e) \cup {op}
    BY <1>4, <2>1, <2>3 DEF Pending
  <2>6. Rising(queue'[e])
    <3>1. \A other \in Range(queue[e]) : other.id < op.id
      BY <1>2 DEF InLine, Pending
    <3>2. QED
      BY <1>2, <2>2, <3>1, LinePush DEF InLine
  <2>7. InLine(e)'
    <3>1. \A other \in Range(queue'[e]) : post[e].op.id < other.id
      <4>1. post[e].op.id < op.id
        BY <1>2, <1>4 DEF InLine, Pending
      <4>2. QED
        BY <1>4, <2>3, <4>1 DEF InLine
    <3>2. \A other \in Pending(e)' : other.id <= edits'
      <4>1. \A other \in Pending(e) : other.id \in Nat /\ other.id <= edits
        BY <1>2 DEF InLine, Pending
      <4>2. QED
        BY <1>2, <2>5, <4>1
    <3>3. QED
      BY <1>4, <2>1, <2>6, <3>1, <3>2 DEF InLine
  <2>8. QED
    BY <2>2, <2>4, <2>7
<1>5. QED
  BY <1>3, <1>4

\* A post that is over leaves its line, and the next in line is the oldest.
LEMMA PostingInLine ==
    ASSUME Types, Types', NEW e \in Editors, PostOver(e), InLine(e), post[e] # Free,
           edits' = edits
    PROVE  /\ Unsent(e)' = Unsent(e) \ {post[e].op} /\ InLine(e)'
           /\ post'[e].step # "done" /\ OnlyLine(e)
           /\ \A op \in Unsent(e)' : post[e].op.id < op.id
<1>1. /\ queue[e] \in Seq(Ops) /\ edits \in Nat /\ Free.step = "free"
      /\ \A op \in Range(queue[e]) : op \in Ops /\ op.id \in Nat
      /\ post[e].op.id \in Nat
  <2>1. queue[e] \in Seq(Ops) /\ edits \in Nat
    BY BoundsAssumption DEF Types, Values
  <2>2. \A other \in Range(queue[e]) : other \in Ops
    BY <2>1 DEF Range
  <2>3. \A other \in Ops : other.id \in Nat
    BY BoundsAssumption DEF Ops, EditIds
  <2>4. post[e].op \in Ops
    BY DEF Types, Edit
  <2>5. QED
    BY <2>1, <2>2, <2>3, <2>4 DEF Free
<1>2. post[e].op \notin Range(queue[e])
  BY <1>1 DEF InLine
<1>3. Range(queue[e]) = Unsent(e) \ {post[e].op}
  BY <1>2 DEF Unsent
<1>4. CASE queue[e] = <<>>
  <2>1. post' = [post EXCEPT ![e] = Free] /\ queue' = queue
    BY <1>4 DEF PostOver
  <2>2. post'[e] = Free /\ queue'[e] = queue[e] /\ OnlyLine(e)
    BY <2>1 DEF Types, OnlyLine
  <2>3. Range(queue[e]) = {}
    BY <1>4 DEF Range
  <2>4. Unsent(e)' = {} /\ Pending(e)' = {}
    BY <1>1, <2>2, <2>3 DEF Unsent, Pending
  <2>5. InLine(e)'
    BY <1>4, <2>2, <2>4 DEF InLine
  <2>6. QED
    BY <1>1, <1>3, <2>2, <2>3, <2>4, <2>5
<1>5. CASE queue[e] # <<>>
  <2> DEFINE next == Head(queue[e])
  <2>1. post' = [post EXCEPT ![e] = Sent(next)] /\ queue' = [queue EXCEPT ![e] = Tail(queue[e])]
    BY <1>5 DEF PostOver
  <2>2. /\ next \in Ops /\ Tail(queue[e]) \in Seq(Ops) /\ Rising(Tail(queue[e]))
        /\ \A op \in Range(Tail(queue[e])) : next.id < op.id
        /\ Range(queue[e]) = {next} \cup Range(Tail(queue[e]))
    BY <1>1, <1>5, LinePop DEF InLine
  <2> HIDE DEF next
  <2>3. /\ Sent(next).op = next /\ Sent(next).step = "sent" /\ Sent(next) # Free
    BY DEF Sent, Free
  <2>4. post'[e] = Sent(next) /\ queue'[e] = Tail(queue[e]) /\ OnlyLine(e)
    BY <2>1 DEF Types, OnlyLine
  <2>5. Unsent(e)' = Range(queue[e]) /\ Pending(e)' = Range(queue[e])
    BY <2>2, <2>3, <2>4 DEF Unsent, Pending
  <2>6. InLine(e)'
    <3>1. \A op \in Range(queue[e]) : op.id <= edits
      BY DEF InLine, Pending
    <3>2. QED
      BY <2>2, <2>3, <2>4, <2>5, <3>1 DEF InLine
  <2>7. \A op \in Range(queue[e]) : post[e].op.id < op.id
    BY DEF InLine
  <2>8. QED
    BY <1>3, <2>3, <2>4, <2>5, <2>6, <2>7
<1>6. QED
  BY <1>4, <1>5
-----------------------------------------------------------------------------
Moves == [block : Blocks, value : Values, rev : Nat]

LEMMA DoneTypes ==
    ASSUME Types, NEW e \in Editors, post[e].step = "done"
    PROVE  post[e].op \in Ops /\ post[e].rev \in Nat /\ post[e].stored \in BOOLEAN
BY DEF Types, Edit, Free

\* What is on its way are changes.
LEMMA MoveTypes ==
    ASSUME Types, NEW e \in Editors
    PROVE  Arriving(e) \subseteq Moves /\ Replies(e) \subseteq Moves
<1>1. \A op \in Ops : /\ op.block \in Blocks /\ op.id \in Values
                     /\ \A kind \in Kinds : Value(kind, op) \in Values
  BY BoundsAssumption DEF Ops, EditIds, Values, Value, Kinds
<1>2. \A b \in Blocks, v \in Values, r \in Nat : Move(b, v, r) \in Moves
  BY DEF Move, Moves
<1>3. Pushed(e) \subseteq Moves
  <2>1. \A c \in Range(events[e]) : c \in Changes
    BY DEF Types, Range
  <2>2. \A c \in Changes : c.block \in Blocks /\ c.value \in Values /\ c.rev \in Nat
    BY DEF Changes
  <2>3. QED
    BY <1>2, <2>1, <2>2 DEF Pushed, EventMove
<1>4. ToPush(e) \subseteq Moves
  <2>1. ASSUME NEW f \in Editors, post[f].step = "done"
        PROVE  PostMove(f) \in Moves
    <3>1. post[f].op \in Ops /\ post[f].rev \in Nat
      BY <2>1, DoneTypes
    <3>2. QED
      BY <1>1, <1>2, <3>1 DEF PostMove
  <2>2. QED
    BY <2>1 DEF ToPush, Others
<1>5. ASSUME NEW w \in Windows, job[w].step = "push"
      PROVE  ReplayMove(w) \in Moves
  <2>1. job[w].kind \in Kinds
    BY <1>5, HasAsked DEF Asked
  <2>2. job[w].answer.op \in Ops /\ job[w].answer.rev \in Nat
    BY <1>5 DEF Types
  <2>3. QED
    BY <1>1, <1>2, <2>1, <2>2 DEF ReplayMove
<1>6. ToTell(e) \subseteq Moves /\ ToAnswer(e) \subseteq Moves
  BY <1>5 DEF ToTell, ToAnswer
<1>7. Answered(e) \subseteq Moves
  <2>1. ASSUME NEW w \in Windows, job[w].step = "answer", job[w].answer.told = "done"
        PROVE  EventMove(job[w].answer.change) \in Moves
    <3>1. job[w].answer.change \in Changes
      BY <2>1 DEF Types, Told
    <3>2. QED
      BY <1>2, <3>1 DEF EventMove, Changes
  <2>2. QED
    BY <2>1 DEF Answered
<1>8. QED
  BY <1>3, <1>4, <1>6, <1>7 DEF Arriving, Replies

LEMMA UnsentTypes ==
    ASSUME Types, NEW e \in Editors
    PROVE  Unsent(e) \subseteq Ops
<1>1. Range(queue[e]) \subseteq Ops
  BY DEF Types, Range
<1>2. post[e].step = "sent" => post[e].op \in Ops
  BY DEF Types, Edit, Free
<1>3. QED
  BY <1>1, <1>2 DEF Unsent

\* A view that a step leaves as it is, with all that is on its way to it.
Untouched(e, b) ==
    /\ <<e, b>> \notin offView /\ ~Writes(e, b) /\ view'[e][b] = view[e][b]
    /\ \A m \in Arriving(e) \cup Replies(e) : m.block = b => m \in (Arriving(e) \cup Replies(e))'

\* A view that takes over a change which is not older than what it has.
Takes(e, b) ==
    \E m \in Arriving(e) \cup Replies(e) :
        /\ m.block = b /\ view'[e][b] = m.value
        /\ heldView[e][b] <= m.rev /\ m.rev <= heldView'[e][b]
        /\ \A x \in Arriving(e) : x.block = b /\ x.rev # m.rev => x \in Arriving(e)'

\* A step without a change of the document keeps what is known of the last change, when
\* an editor has got what no longer arrives.
LEMMA ViewsKeep ==
    ASSUME Types, Held, Held', doc' = doc, rev' = rev,
           \A e \in Editors : Arriving(e)' \subseteq Arriving(e) /\ Replies(e)' \subseteq Replies(e),
           \A e \in Editors, b \in Blocks : heldView[e][b] <= heldView'[e][b],
           \A e \in Editors : \A m \in Arriving(e) \ Arriving(e)' : m.rev <= heldView'[e][m.block],
           \A e \in Editors, b \in Blocks :
               <<e, b>> \notin offView' => Writes(e, b)' \/ Untouched(e, b) \/ Takes(e, b),
           NEW b \in Blocks, NEW n \in 0..rev, LastChange(b, n)
    PROVE  LastChange(b, n)'
<1>1. n \in Nat /\ rev \in Nat
  BY DEF Types
<1>2. ASSUME NEW e \in Editors
      PROVE  /\ heldView[e][b] \in Nat /\ heldView'[e][b] \in Nat
             /\ \A m \in Arriving(e) \cup Replies(e) : m.rev \in Nat
  <2>1. heldView[e][b] \in Nat /\ heldView'[e][b] \in Nat
    BY <1>1 DEF Held
  <2>2. QED
    BY <2>1, MoveTypes DEF Moves
<1>3. ASSUME NEW e \in Editors, NEW m \in (Arriving(e) \cup Replies(e))', m.block = b
      PROVE  m.rev <= n /\ (m.rev = n => m.value = doc'[b])
  BY <1>3 DEF LastChange
<1>4. ASSUME NEW e \in Editors
      PROVE  heldView'[e][b] >= n \/ Brings(Arriving(e)', b, n)
  <2>1. CASE heldView[e][b] >= n
    BY <1>1, <1>2, <2>1
  <2>2. CASE Brings(Arriving(e), b, n)
    <3>1. PICK m \in Arriving(e) : m.block = b /\ m.rev = n
      BY <2>2 DEF Brings
    <3>2. CASE m \in Arriving(e)'
      BY <3>1, <3>2 DEF Brings
    <3>3. CASE m \notin Arriving(e)'
      BY <1>1, <1>2, <3>1, <3>3
    <3>4. QED
      BY <3>2, <3>3
  <2>3. QED
    BY <2>1, <2>2 DEF LastChange
<1>5. ASSUME NEW e \in Editors, <<e, b>> \notin offView', ~Writes(e, b)'
      PROVE  \/ heldView'[e][b] >= n /\ view'[e][b] = doc'[b]
             \/ Brings((Arriving(e) \cup Replies(e))', b, n)
  <2>1. CASE Untouched(e, b)
    <3>1. CASE heldView[e][b] >= n /\ view[e][b] = doc[b]
      BY <1>1, <1>2, <2>1, <3>1 DEF Untouched
    <3>2. CASE Brings(Arriving(e) \cup Replies(e), b, n)
      BY <2>1, <3>2 DEF Untouched, Brings
    <3>3. QED
      BY <2>1, <3>1, <3>2 DEF LastChange, Untouched
  <2>2. CASE Takes(e, b)
    <3>1. PICK m \in Arriving(e) \cup Replies(e) :
            /\ m.block = b /\ view'[e][b] = m.value
            /\ heldView[e][b] <= m.rev /\ m.rev <= heldView'[e][b]
            /\ \A x \in Arriving(e) : x.block = b /\ x.rev # m.rev => x \in Arriving(e)'
      BY <2>2 DEF Takes
    <3>2. m.rev <= n /\ (m.rev = n => m.value = doc[b])
      BY <3>1 DEF LastChange
    <3>3. CASE m.rev = n
      BY <1>1, <1>2, <3>1, <3>2, <3>3
    <3>4. CASE m.rev # n
      <4>1. ~(heldView[e][b] >= n)
        BY <1>1, <1>2, <3>1, <3>2, <3>4
      <4>2. PICK x \in Arriving(e) : x.block = b /\ x.rev = n
        BY <4>1 DEF LastChange, Brings
      <4>3. x \in Arriving(e)'
        BY <3>1, <3>4, <4>2
      <4>4. QED
        BY <4>2, <4>3 DEF Brings
    <3>5. QED
      BY <3>3, <3>4
  <2>3. QED
    BY <1>5, <2>1, <2>2
<1>6. QED
  BY <1>3, <1>4, <1>5 DEF LastChange

\* A change is on its way to the editors, and to all but the one that made it for certain.
Spreads(change, from, block) == \A e \in Editors :
    /\ Arriving(e) \subseteq Arriving(e)' /\ Arriving(e)' \subseteq Arriving(e) \cup {change}
    /\ Replies(e) \subseteq Replies(e)' /\ Replies(e)' \subseteq Replies(e) \cup {change}
    /\ e # from => change \in Arriving(e)'
    /\ \A b \in Blocks \ {block} : Writes(e, b)' <=> Writes(e, b)

\* The editor that makes a change has it, and the others will be told.
LEMMA ViewsGain ==
    ASSUME Types, Held, Held', NEW from \in Editors, NEW block \in Blocks, NEW value \in Values,
           NEW change, change = Move(block, value, rev + 1),
           rev' = rev + 1, doc' = [doc EXCEPT ![block] = value], doc \in [Blocks -> Values],
           view' = view, offView' = offView,
           heldView' = [heldView EXCEPT ![from][block] = rev + 1],
           Spreads(change, from, block),
           \/ change \in (Arriving(from) \cup Replies(from))'
           \/ <<from, block>> \notin offView /\ ~Writes(from, block)' => view[from][block] = value,
           NEW b \in Blocks, NEW n \in 0..rev, LastChange(b, n)
    PROVE  \E m \in 0..rev' : LastChange(b, m)'
<1>1. n \in Nat /\ rev \in Nat /\ rev' \in Nat /\ n \in 0..rev' /\ rev' \in 0..rev'
  BY DEF Types
<1>2. change.block = block /\ change.value = value /\ change.rev = rev + 1
  BY DEF Move
<1>3. ASSUME NEW e \in Editors
      PROVE  /\ heldView[e][b] \in Nat /\ heldView'[e][b] \in Nat
             /\ \A m \in Arriving(e) \cup Replies(e) : m.rev \in Nat
  <2>1. heldView[e][b] \in Nat /\ heldView'[e][b] \in Nat
    BY <1>1 DEF Held
  <2>2. QED
    BY <2>1, MoveTypes DEF Moves
<1>4. CASE b # block
  <2>1. doc'[b] = doc[b] /\ \A e \in Editors : heldView'[e][b] = heldView[e][b]
    BY <1>4 DEF Held
  <2>2. ASSUME NEW e \in Editors, NEW m \in (Arriving(e) \cup Replies(e))', m.block = b
        PROVE  m.rev <= n /\ (m.rev = n => m.value = doc'[b])
    <3>1. m \in Arriving(e) \cup Replies(e)
      BY <1>2, <1>4, <2>2 DEF Spreads
    <3>2. QED
      BY <2>1, <2>2, <3>1 DEF LastChange
  <2>3. ASSUME NEW e \in Editors
        PROVE  heldView'[e][b] >= n \/ Brings(Arriving(e)', b, n)
    <3>1. Brings(Arriving(e), b, n) => Brings(Arriving(e)', b, n)
      BY DEF Brings, Spreads
    <3>2. QED
      BY <2>1, <3>1 DEF LastChange
  <2>4. ASSUME NEW e \in Editors, <<e, b>> \notin offView', ~Writes(e, b)'
        PROVE  \/ heldView'[e][b] >= n /\ view'[e][b] = doc'[b]
               \/ Brings((Arriving(e) \cup Replies(e))', b, n)
    <3>1. Brings(Arriving(e) \cup Replies(e), b, n) => Brings((Arriving(e) \cup Replies(e))', b, n)
      BY DEF Brings, Spreads
    <3>2. <<e, b>> \notin offView /\ ~Writes(e, b)
      BY <1>4, <2>4 DEF Spreads
    <3>3. QED
      BY <2>1, <3>1, <3>2 DEF LastChange
  <2>5. LastChange(b, n)'
    BY <2>2, <2>3, <2>4 DEF LastChange
  <2>6. QED
    BY <1>1, <2>5
<1>5. CASE b = block
  <2> PICK r \in Nat : r = rev + 1
    BY <1>1
  <2>1. doc'[b] = value /\ heldView'[from][b] = r /\ r \in 0..rev'
    BY <1>1, <1>5 DEF Held
  <2>2. ASSUME NEW e \in Editors, NEW m \in (Arriving(e) \cup Replies(e))', m.block = b
        PROVE  m.rev <= r /\ (m.rev = r => m.value = doc'[b])
    <3>1. CASE m = change
      BY <1>1, <1>2, <2>1, <3>1
    <3>2. CASE m \in Arriving(e) \cup Replies(e)
      <4>1. m.rev <= n /\ m.rev \in Nat
        BY <1>3, <2>2, <3>2 DEF LastChange
      <4>2. QED
        BY <1>1, <4>1
    <3>3. QED
      BY <2>2, <3>1, <3>2 DEF Spreads
  <2>3. ASSUME NEW e \in Editors
        PROVE  heldView'[e][b] >= r \/ Brings(Arriving(e)', b, r)
    BY <1>1, <1>2, <1>5, <2>1 DEF Brings, Spreads
  <2>4. ASSUME NEW e \in Editors, <<e, b>> \notin offView', ~Writes(e, b)'
        PROVE  \/ heldView'[e][b] >= r /\ view'[e][b] = doc'[b]
               \/ Brings((Arriving(e) \cup Replies(e))', b, r)
    <3>1. CASE change \in (Arriving(e) \cup Replies(e))'
      BY <1>2, <1>5, <3>1 DEF Brings
    <3>2. CASE change \notin (Arriving(e) \cup Replies(e))'
      BY <1>1, <1>5, <2>1, <2>4, <3>2 DEF Spreads
    <3>3. QED
      BY <3>1, <3>2
  <2>5. LastChange(b, r)'
    BY <2>2, <2>3, <2>4 DEF LastChange
  <2>6. QED
    BY <2>1, <2>5
<1>6. QED
  BY <1>4, <1>5

\* The edits of an editor that go are its oldest.
LEMMA OwnKeeps ==
    ASSUME Types, ShowsOwn,
           \A e \in Editors :
               /\ Unsent(e)' \subseteq Unsent(e)
               /\ \A op \in Unsent(e) \ Unsent(e)' : \A other \in Unsent(e)' : op.id < other.id,
           \A e \in Editors, b \in Blocks : <<e, b>> \notin offView' /\ Writes(e, b) =>
               <<e, b>> \notin offView /\ view'[e][b] = view[e][b]
    PROVE  ShowsOwn'
<1> SUFFICES ASSUME NEW e \in Editors, NEW b \in Blocks, <<e, b>> \notin offView', Writes(e, b)'
             PROVE  \E op \in Unsent(e)' :
                        /\ op.block = b /\ op.id = view'[e][b]
                        /\ \A other \in Unsent(e)' : other.block = b => other.id <= op.id
  BY DEF ShowsOwn
<1>1. PICK any \in Unsent(e)' : any.block = b
  BY DEF Writes
<1>2. Writes(e, b)
  BY <1>1 DEF Writes
<1>3. PICK op \in Unsent(e) :
        /\ op.block = b /\ op.id = view[e][b]
        /\ \A other \in Unsent(e) : other.block = b => other.id <= op.id
  BY <1>2 DEF ShowsOwn
<1>4. any.id \in Int /\ op.id \in Int
  <2>1. Unsent(e) \subseteq Ops
    BY UnsentTypes
  <2>2. QED
    BY <2>1, BoundsAssumption DEF Ops, EditIds
<1>5. op \in Unsent(e)'
  BY <1>1, <1>3, <1>4
<1>6. view'[e][b] = view[e][b]
  BY <1>2
<1>7. QED
  BY <1>3, <1>5, <1>6

\* A view that shows a new edit shows the last.
LEMMA OwnTyped ==
    ASSUME Types, ShowsOwn, NEW e \in Editors, NEW b \in Blocks, NEW new \in Ops,
           new.block = b, \A op \in Unsent(e) : op.id < new.id,
           Unsent(e)' = Unsent(e) \cup {new}, view' = [view EXCEPT ![e][b] = new.id],
           offView' = offView \ {<<e, b>>},
           \A f \in Editors \ {e} : Unsent(f)' = Unsent(f)
    PROVE  ShowsOwn'
<1> SUFFICES ASSUME NEW f \in Editors, NEW c \in Blocks, <<f, c>> \notin offView', Writes(f, c)'
             PROVE  \E op \in Unsent(f)' :
                        /\ op.block = c /\ op.id = view'[f][c]
                        /\ \A other \in Unsent(f)' : other.block = c => other.id <= op.id
  BY DEF ShowsOwn
<1>1. view \in [Editors -> [Blocks -> Values]] /\ new.id \in Int
  BY BoundsAssumption DEF Types, Ops, EditIds
<1>2. CASE f = e /\ c = b
  <2>1. view'[f][c] = new.id
    BY <1>1, <1>2
  <2>2. \A op \in Unsent(e) : op.id <= new.id
    <3>1. Unsent(e) \subseteq Ops
      BY UnsentTypes
    <3>2. \A op \in Unsent(e) : op.id \in Int
      BY <3>1, BoundsAssumption DEF Ops, EditIds
    <3>3. QED
      BY <1>1, <3>2
  <2>3. QED
    BY <1>1, <1>2, <2>1, <2>2
<1>3. CASE ~(f = e /\ c = b)
  <2>1. view'[f][c] = view[f][c] /\ <<f, c>> \notin offView
    BY <1>1, <1>3
  <2>2. \A op : op \in Unsent(f)' /\ op.block = c <=> op \in Unsent(f) /\ op.block = c
    BY <1>3
  <2>3. Writes(f, c)
    BY <2>2 DEF Writes
  <2>4. QED
    BY <2>1, <2>2, <2>3 DEF ShowsOwn
<1>4. QED
  BY <1>2, <1>3
-----------------------------------------------------------------------------
\* A mirror that a step leaves as it is, with all that is on its way to it.
LeftAs(w) ==
    /\ w \notin offMirror /\ mirror'[w] = mirror[w] /\ heldState'[w] = heldState[w]
    /\ Busy(w)' <=> Busy(w)
    /\ Comes(w) => Comes(w)'
    /\ Replied(w) => Replied(w)'

\* A mirror that takes over a state which is not older than what it has.
Learns(w, known) ==
    /\ known.rev = rev => known.state = State /\ heldState'[w] = rev
    /\ heldState[w] <= known.rev /\ known.rev <= rev /\ mirror'[w] = known.state
    /\ known.rev # rev /\ Comes(w) => Comes(w)'

\* A step without a change of the document keeps a window in step.
LEMMA MirrorsKeep ==
    ASSUME Types, Held, rev' = rev, State' = State, NEW w \in Windows, InStep(w),
           heldState[w] = rev => heldState'[w] = rev,
           Comes(w) => Comes(w)' \/ heldState'[w] = rev,
           w \notin offMirror' =>
               \/ Busy(w)' /\ mirror'[w] = AddedState
               \/ LeftAs(w)
               \/ ~Busy(w)' /\ \E known \in Knowns : Learns(w, known)
    PROVE  InStep(w)'
<1>1. heldState'[w] = rev' \/ Comes(w)'
  BY DEF InStep
<1>2. w \notin offMirror' /\ Busy(w)' => mirror'[w] = AddedState
  BY DEF InStep, LeftAs
<1>3. ASSUME w \notin offMirror', ~Busy(w)'
      PROVE  (heldState'[w] = rev' /\ mirror'[w] = State') \/ Comes(w)' \/ Replied(w)'
  <2>1. CASE LeftAs(w)
    BY <1>3, <2>1 DEF LeftAs, InStep
  <2>2. ASSUME NEW known \in Knowns, Learns(w, known)
        PROVE  (heldState'[w] = rev' /\ mirror'[w] = State') \/ Comes(w)'
    <3>1. CASE known.rev = rev
      BY <2>2, <3>1 DEF Learns
    <3>2. CASE known.rev # rev
      <4>1. heldState[w] # rev
        <5>1. known.rev \in Nat /\ rev \in Nat /\ heldState[w] \in Nat
          BY DEF Knowns, Types, Held
        <5>2. QED
          BY <2>2, <3>2, <5>1 DEF Learns
      <4>2. QED
        BY <2>2, <3>2, <4>1 DEF Learns, InStep
    <3>3. QED
      BY <3>1, <3>2
  <2>3. QED
    BY <1>3, <2>1, <2>2
<1>4. QED
  BY <1>1, <1>2, <1>3 DEF InStep, AddedState

\* The window that makes a change knows of it, and the others will be told.
LEMMA MirrorsGain ==
    ASSUME Types, Held, NEW from \in Windows, rev' = rev + 1, mirror' = mirror,
           heldState' = [heldState EXCEPT ![from] = rev + 1],
           NEW w \in Windows, InStep(w),
           w # from => Comes(w)' /\ (w \in offMirror' <=> w \in offMirror) /\ (Busy(w)' <=> Busy(w)),
           w \notin offMirror' => w \notin offMirror, Busy(w)' => Busy(w),
           w = from /\ w \notin offMirror' /\ ~Busy(w)' => Replied(w)' \/ mirror[w] = State'
    PROVE  InStep(w)'
<1>1. heldState'[from] = rev'
  BY DEF Held
<1>2. heldState'[w] = rev' \/ Comes(w)'
  BY <1>1
<1>3. w \notin offMirror' /\ Busy(w)' => mirror'[w] = AddedState
  BY DEF InStep
<1>4. ASSUME w \notin offMirror', ~Busy(w)'
      PROVE  (heldState'[w] = rev' /\ mirror'[w] = State') \/ Comes(w)' \/ Replied(w)'
  BY <1>1, <1>4
<1>5. QED
  BY <1>2, <1>3, <1>4 DEF InStep, AddedState

\* What a push says stays true.
LEMMA FineKeeps ==
    ASSUME NEW c \in Changes, NEW r \in Nat, NEW s, NEW t, Fine(c, r, s)
    PROVE  Fine(c, r + 1, t)
BY DEF Fine, Changes, Knowns

\* A step that changes the log counts the change.
LogStep == (rev' = rev /\ undoStack' = undoStack /\ redoStack' = redoStack) \/ rev' = rev + 1

LEMMA FineStays ==
    ASSUME Types, LogStep, NEW c \in Changes, Fine(c, rev, State)
    PROVE  Fine(c, rev', State')
<1>1. CASE rev' = rev /\ undoStack' = undoStack /\ redoStack' = redoStack
  BY <1>1 DEF State
<1>2. CASE rev' = rev + 1
  BY <1>2, FineKeeps DEF Types
<1>3. QED
  BY <1>1, <1>2 DEF LogStep
-----------------------------------------------------------------------------
\* Where the queues, the posts, the pushes and the jobs stay, so does what is on its way.
LEMMA SamePushed ==
    ASSUME events' = events, NEW e \in Editors
    PROVE  Pushed(e)' = Pushed(e)
BY DEF Pushed, EventMove, Move

LEMMA SameToPush ==
    ASSUME SamePosts, NEW e \in Editors
    PROVE  ToPush(e)' = ToPush(e)
<1>1. \A f \in Others(e) : post'[f].step = "done" \/ post[f].step = "done" => post'[f] = post[f]
  BY DEF SamePosts, Others
<1>2. {f \in Others(e) : post'[f].step = "done" /\ post'[f].stored} =
      {f \in Others(e) : post[f].step = "done" /\ post[f].stored}
  BY <1>1
<1>3. \A f \in {x \in Others(e) : post[x].step = "done" /\ post[x].stored} : PostMove(f)' = PostMove(f)
  BY <1>1 DEF PostMove, Move
<1>4. QED
  BY <1>2, <1>3 DEF ToPush

\* A job that neither pushes nor answers with a change tells nobody anything.
Mute(j) == j.step \notin {"push", "answer"} \/ (j.step = "answer" /\ j.answer.told \notin Stored)
SameJobs == \A w \in Windows : job'[w] = job[w] \/ (Mute(job[w]) /\ Mute(job'[w]))

LEMMA SameJobMoves ==
    ASSUME SameJobs, NEW e \in Editors
    PROVE  ToTell(e)' = ToTell(e) /\ Replies(e)' = Replies(e)
<1>1. \A w \in Windows : job'[w].step = "push" \/ job[w].step = "push" => job'[w] = job[w]
  BY DEF SameJobs, Mute
<1>2. \A w \in Windows : job'[w] = job[w] => ReplayMove(w)' = ReplayMove(w) /\ (Reaches(w, e)' <=> Reaches(w, e))
  BY DEF ReplayMove, Reaches, Move, Value, Cross
<1>3. {w \in Windows : job'[w].step = "push" /\ Reaches(w, e)'} =
      {w \in Windows : job[w].step = "push" /\ Reaches(w, e)}
  BY <1>1, <1>2
<1>4. {w \in Windows : job'[w].step = "push" /\ ~Reaches(w, e)'} =
      {w \in Windows : job[w].step = "push" /\ ~Reaches(w, e)}
  BY <1>1, <1>2
<1>5. ToTell(e)' = ToTell(e) /\ ToAnswer(e)' = ToAnswer(e)
  BY <1>1, <1>2, <1>3, <1>4 DEF ToTell, ToAnswer
<1>6. Answered(e)' = Answered(e)
  <2>1. \A w \in Windows :
           job'[w] = job[w]
           \/ /\ ~(job[w].step = "answer" /\ job[w].ed = e /\ job[w].answer.told = "done")
              /\ ~(job'[w].step = "answer" /\ job'[w].ed = e /\ job'[w].answer.told = "done")
    BY DEF SameJobs, Mute, Stored
  <2>2. \A w \in Windows : job'[w] = job[w] =>
            EventMove(job[w].answer.change)' = EventMove(job[w].answer.change)
    BY DEF EventMove, Move
  <2>3. QED
    BY <2>1, <2>2 DEF Answered
<1>7. QED
  BY <1>5, <1>6 DEF Replies

LEMMA SameArriving ==
    ASSUME events' = events, SamePosts, SameJobs, NEW e \in Editors
    PROVE  Arriving(e)' = Arriving(e) /\ Replies(e)' = Replies(e)
BY SamePushed, SameToPush, SameJobMoves DEF Arriving

LEMMA SameComes ==
    ASSUME events' = events, SamePosts, SameJobs, rev' = rev, NEW w \in Windows
    PROVE  (Comes(w)' <=> Comes(w)) /\ (Replied(w)' <=> Replied(w))
<1>1. \A f \in Editors : (post'[f].step = "done" /\ post'[f].stored) <=> (post[f].step = "done" /\ post[f].stored)
  BY DEF SamePosts
<1>2. \A v \in Windows, e \in Editors :
         (job'[v].step = "push" /\ Reaches(v, e)') <=> (job[v].step = "push" /\ Reaches(v, e))
  BY DEF SameJobs, Mute, Reaches, Cross
<1>3. Comes(w)' <=> Comes(w)
  BY <1>1, <1>2 DEF Comes, EditorsOf, Others
<1>4. Replied(w)' <=> Replied(w)
  BY DEF SameJobs, Mute, Replied
<1>5. QED
  BY <1>3, <1>4
-----------------------------------------------------------------------------
LEMMA SameOrder ==
    ASSUME Order, queue' = queue, post' = post, edits' = edits,
           undoStack' = undoStack, redoStack' = redoStack
    PROVE  Order' /\ SamePosts /\ (rev' = rev => LogStep)
BY DEF Order, Apart, InLine, Unsent, Pending, Logged, Ids, Once, Rising, SamePosts, LogStep

LEMMA TruthfulKeeps ==
    ASSUME Types, Types', Truthful, LogStep,
           \A e \in Editors : \A c \in Range(events'[e]) :
               c \in Range(events[e]) \/ Fine(c, rev', State'),
           \A e \in Editors : post'[e].step = "done" => post'[e] = post[e] \/ post'[e].rev <= rev',
           \A w \in Windows :
               \/ job'[w] = job[w]
               \/ /\ job'[w].step = "push" => job'[w].answer.rev <= rev'
                  /\ job'[w].step = "answer" /\ job'[w].answer.told \in Stored =>
                        Fine(job'[w].answer.change, rev', State')
    PROVE  Truthful'
<1>1. rev \in Nat /\ rev <= rev' /\ rev' \in Nat
  BY DEF Types, LogStep
<1>2. ASSUME NEW e \in Editors, NEW c \in Range(events'[e]) PROVE Fine(c, rev', State')
  <2>1. CASE c \in Range(events[e])
    <3>1. c \in Changes
      BY <2>1 DEF Types, Range
    <3>2. QED
      BY <2>1, <3>1, FineStays DEF Truthful
  <2>2. QED
    BY <2>1
<1>3. ASSUME NEW e \in Editors, post'[e].step = "done" PROVE post'[e].rev <= rev'
  <2>1. CASE post'[e] = post[e]
    <3>1. post[e].rev \in Nat
      BY <1>3, <2>1, DoneTypes
    <3>2. post[e].rev <= rev
      BY <1>3, <2>1 DEF Truthful
    <3>3. QED
      BY <1>1, <2>1, <3>1, <3>2
  <2>2. QED
    BY <1>3, <2>1
<1>4. ASSUME NEW w \in Windows
      PROVE  /\ job'[w].step = "push" => job'[w].answer.rev <= rev'
             /\ job'[w].step = "answer" /\ job'[w].answer.told \in Stored =>
                   Fine(job'[w].answer.change, rev', State')
  <2>1. CASE job'[w] = job[w]
    <3>1. job[w].step = "push" => job[w].answer.rev <= rev /\ job[w].answer.rev \in Nat
      BY DEF Types, Truthful
    <3>2. ASSUME job[w].step = "answer", job[w].answer.told \in Stored
          PROVE  Fine(job[w].answer.change, rev', State')
      <4>1. job[w].answer.change \in Changes
        BY <3>2 DEF Types, Told, Stored
      <4>2. QED
        BY <3>2, <4>1, FineStays DEF Truthful
    <3>3. QED
      BY <1>1, <2>1, <3>1, <3>2
  <2>2. QED
    BY <2>1
<1>5. rev' = 0 => undoStack' = <<>> /\ redoStack' = <<>>
  BY <1>1 DEF LogStep, Truthful
<1>6. QED
  BY <1>2, <1>3, <1>4, <1>5 DEF Truthful

\* Where nothing is lost, nothing changes.
LEMMA SameViews ==
    ASSUME ViewInv, doc' = doc, view' = view, heldView' = heldView, offView' = offView, rev' = rev,
           \A e \in Editors : /\ Unsent(e)' = Unsent(e) /\ Arriving(e)' = Arriving(e)
                              /\ Replies(e)' = Replies(e)
    PROVE  ViewInv'
<1>1. \A e \in Editors, b \in Blocks : Writes(e, b)' <=> Writes(e, b)
  BY DEF Writes
<1>2. ShowsOwn'
  BY <1>1 DEF ViewInv, ShowsOwn
<1>3. ASSUME NEW b \in Blocks PROVE \E n \in 0..rev' : LastChange(b, n)'
  <2>1. PICK n \in 0..rev : LastChange(b, n)
    BY DEF ViewInv
  <2>2. LastChange(b, n)'
    BY <1>1, <2>1 DEF LastChange, Brings
  <2>3. QED
    BY <2>2
<1>4. QED
  BY <1>2, <1>3 DEF ViewInv

LEMMA SameMirrors ==
    ASSUME NEW w \in Windows, InStep(w), rev' = rev, State' = State,
           mirror'[w] = mirror[w], heldState'[w] = heldState[w], w \in offMirror' <=> w \in offMirror,
           Busy(w)' <=> Busy(w), Comes(w) => Comes(w)', Replied(w) => Replied(w)'
    PROVE  InStep(w)'
BY DEF InStep, AddedState

LEMMA SameBusy ==
    ASSUME \A e \in Editors : Unsent(e)' = Unsent(e), NEW w \in Windows
    PROVE  Busy(w)' <=> Busy(w)
BY DEF Busy, EditorsOf

\* A step in which only jobs change that tell nobody anything.
LEMMA MuteStep ==
    ASSUME Types, Types', Agreement, Plain', SameJobs, view' = view, doc' = doc, rev' = rev,
           queue' = queue, post' = post, events' = events, mirror' = mirror, edits' = edits,
           undoStack' = undoStack, redoStack' = redoStack, heldView' = heldView,
           heldState' = heldState, offView' = offView, offMirror' = offMirror
    PROVE  Agreement'
<1>1. Order' /\ SamePosts /\ LogStep
  BY SameOrder DEF Agreement
<1>2. Held'
  BY DEF Agreement, Held
<1>3. Truthful'
  BY <1>1, TruthfulKeeps DEF Agreement, SameJobs, Mute
<1>4. \A e \in Editors : Unsent(e)' = Unsent(e)
  BY DEF Unsent
<1>5. ViewInv'
  BY <1>1, <1>4, SameArriving, SameViews DEF Agreement
<1>6. State' = State
  BY DEF State
<1>7. \A w \in Windows : InStep(w)'
  BY <1>1, <1>4, <1>6, SameComes, SameBusy, SameMirrors DEF Agreement
<1>8. QED
  BY <1>1, <1>2, <1>3, <1>5, <1>7 DEF Agreement

\* A request stays that of the editor it was made in.
SamePlace(w) == job'[w] \in {Free, Stuck} \/ (job[w] \in Asked /\ job'[w].ed = job[w].ed)

LEMMA PlacesKeep ==
    ASSUME Plain, NEW w \in Windows, SamePlace(w), \A v \in Windows \ {w} : job'[v] = job[v]
    PROVE  \A v \in Windows : job'[v] \in Asked => WindowOf[job'[v].ed] = v
<1>1. ASSUME NEW v \in Windows, job'[v] \in Asked PROVE WindowOf[job'[v].ed] = v
  <2>1. CASE v = w
    <3>1. job'[v] \notin {Free, Stuck}
      BY <1>1 DEF Asked, Free, Stuck
    <3>2. QED
      BY <2>1, <3>1 DEF SamePlace, Plain
  <2>2. CASE v # w
    BY <1>1, <2>2 DEF Plain
  <2>3. QED
    BY <2>1, <2>2
<1>2. QED
  BY <1>1

\* A job that goes on, silently.
LEMMA MuteMoves ==
    ASSUME Types, NEW w \in Windows,
           Waited(w) \/ Peek(w) \/ Confirm(w) \/ ReplayNothing(w) \/ ReplayFails(w)
    PROVE  /\ \A v \in Windows \ {w} : job'[v] = job[v]
           /\ SamePlace(w) /\ Mute(job[w]) /\ Mute(job'[w])
<1>1. job[w].step \in {"wait", "peek", "confirm", "post"}
  BY DEF Waited, Peek, Confirm, ReplayNothing, ReplayFails
<1>2. job[w] \in Asked /\ Mute(job[w])
  BY <1>1, HasAsked DEF Mute
<1>3. ASSUME NEW step \in {"peek", "post"}, job' = [job EXCEPT ![w].step = step]
      PROVE  SamePlace(w) /\ Mute(job'[w])
  <2>1. job'[w] = [job[w] EXCEPT !.step = step]
    BY <1>3 DEF Types
  <2>2. job'[w].step = step /\ job'[w].ed = job[w].ed
    BY <1>2, <2>1 DEF Asked
  <2>3. QED
    BY <1>2, <2>2 DEF SamePlace, Mute
<1>4. ASSUME NEW told \in {"nothing", "failed"},
             job' = [job EXCEPT ![w].step = "answer", ![w].answer = [told |-> told]]
      PROVE  SamePlace(w) /\ Mute(job'[w])
  <2>1. job'[w] = [job[w] EXCEPT !.step = "answer", !.answer = [told |-> told]]
    BY <1>4 DEF Types
  <2>2. /\ job'[w].step = "answer" /\ job'[w].ed = job[w].ed /\ job'[w].answer.told = told
    BY <1>2, <2>1 DEF Asked
  <2>3. QED
    BY <1>2, <2>2 DEF SamePlace, Mute, Stored
<1>5. CASE Waited(w)
  <2>1. PICK step \in {"peek", "post"} : job' = [job EXCEPT ![w].step = step]
    BY <1>5 DEF Waited, Step
  <2>2. \A v \in Windows \ {w} : job'[v] = job[v]
    BY <2>1 DEF Types
  <2>3. QED
    BY <1>2, <1>3, <2>1, <2>2
<1>6. CASE Peek(w)
  <2>1. PICK step \in {"confirm", "post"}, top \in {TopNow}, at \in {rev} :
          job' = [job EXCEPT ![w].step = step, ![w].top = top, ![w].at = at]
    BY <1>6 DEF Peek, TopNow
  <2>2. job'[w] = [job[w] EXCEPT !.step = step, !.top = top, !.at = at]
    BY <2>1 DEF Types
  <2>3. job'[w].step = step /\ job'[w].ed = job[w].ed
    BY <1>2, <2>2 DEF Asked
  <2>4. \A v \in Windows \ {w} : job'[v] = job[v]
    BY <2>1 DEF Types
  <2>5. QED
    BY <1>2, <2>3, <2>4 DEF SamePlace, Mute
<1>7. CASE Confirm(w)
  <2>1. CASE job' = [job EXCEPT ![w].step = "post", ![w].agreed = TRUE]
    <3>1. job'[w] = [job[w] EXCEPT !.step = "post", !.agreed = TRUE]
      BY <2>1 DEF Types
    <3>2. job'[w].step = "post" /\ job'[w].ed = job[w].ed
      BY <1>2, <3>1 DEF Asked
    <3>3. \A v \in Windows \ {w} : job'[v] = job[v]
      BY <2>1 DEF Types
    <3>4. QED
      BY <1>2, <3>2, <3>3 DEF SamePlace, Mute
  <2>2. CASE job' = [job EXCEPT ![w] = Free]
    BY <1>2, <2>2 DEF SamePlace, Mute, Free, Types
  <2>3. QED
    BY <1>7, <2>1, <2>2 DEF Confirm, Unlock
<1>8. CASE ReplayNothing(w)
  BY <1>2, <1>4, <1>8 DEF ReplayNothing, Answer, Types
<1>9. CASE ReplayFails(w)
  BY <1>2, <1>4, <1>9 DEF ReplayFails, Answer, Types
<1>10. QED
  BY <1>2, <1>5, <1>6, <1>7, <1>8, <1>9
-----------------------------------------------------------------------------
\* Nothing but the requests and their steps.
LEMMA StutterAgrees ==
    ASSUME Types, Types', Agreement, UNCHANGED vars
    PROVE  Agreement'
<1>1. /\ view' = view /\ doc' = doc /\ rev' = rev /\ queue' = queue /\ post' = post
      /\ events' = events /\ mirror' = mirror /\ edits' = edits /\ undoStack' = undoStack
      /\ redoStack' = redoStack /\ heldView' = heldView /\ heldState' = heldState
      /\ offView' = offView /\ offMirror' = offMirror /\ job' = job /\ hasUndo' = hasUndo
      /\ opening' = opening /\ replays' = replays /\ faults' = faults
  BY DEF vars, kernel, bounds, history
<1>2. Plain'
  BY <1>1 DEF Agreement, Plain
<1>3. SameJobs
  BY <1>1 DEF SameJobs
<1>4. QED
  BY <1>1, <1>2, <1>3, MuteStep

LEMMA RequestAgrees ==
    ASSUME Types, Types', Agreement, NEW e \in Editors, NEW kind \in Kinds, Request(e, kind)
    PROVE  Agreement'
<1> DEFINE w == WindowOf[e]
           j == [step |-> "wait", kind |-> kind, ed |-> e, upto |-> edits,
                 top |-> <<>>, at |-> 0, agreed |-> FALSE, answer |-> Free]
<1>1. w \in Windows /\ job[w] = Free /\ job' = [job EXCEPT ![w] = j]
  BY WindowsAssumption DEF Request
<1>2. j.step = "wait" /\ j.ed = e /\ WindowOf[e] = w
  OBVIOUS
<1> HIDE DEF w, j
<1>3. job'[w] = j /\ \A v \in Windows \ {w} : job'[v] = job[v]
  BY <1>1 DEF Types
<1>4. SameJobs
  BY <1>1, <1>2, <1>3 DEF SameJobs, Mute, Free
<1>5. \A v \in Windows : job'[v] \in Asked => WindowOf[job'[v].ed] = v
  BY <1>2, <1>3 DEF Agreement, Plain
<1>6. /\ view' = view /\ doc' = doc /\ rev' = rev /\ queue' = queue /\ post' = post
      /\ events' = events /\ mirror' = mirror /\ edits' = edits /\ undoStack' = undoStack
      /\ redoStack' = redoStack /\ heldView' = heldView /\ heldState' = heldState
      /\ offView' = offView /\ offMirror' = offMirror /\ hasUndo' = hasUndo
      /\ opening' = opening /\ faults' = faults
  BY DEF Request, kernel, history
<1>7. replays' \in 0..MaxReplays
  <2>1. replays \in 0..MaxReplays /\ replays < MaxReplays /\ replays' = replays + 1 /\ MaxReplays \in Nat
    BY BoundsAssumption DEF Request, Agreement, Plain
  <2>2. QED
    BY <2>1
<1>8. Plain'
  BY <1>5, <1>6, <1>7 DEF Agreement, Plain
<1>9. QED
  BY <1>4, <1>6, <1>8, MuteStep

\* A fault more.
LEMMA FaultCounted ==
    ASSUME Plain, faults < MaxFaults, faults' = faults + 1
    PROVE  faults' \in 0..MaxFaults
<1>1. faults \in 0..MaxFaults /\ MaxFaults \in Nat
  BY BoundsAssumption DEF Plain
<1>2. QED
  BY <1>1

LEMMA MuteMovesAgree ==
    ASSUME Types, Types', Agreement, NEW w \in Windows,
           Waited(w) \/ Peek(w) \/ Confirm(w) \/ ReplayNothing(w) \/ ReplayFails(w)
    PROVE  Agreement'
<1>1. /\ \A v \in Windows \ {w} : job'[v] = job[v]
      /\ SamePlace(w) /\ Mute(job[w]) /\ Mute(job'[w])
  BY MuteMoves
<1>2. SameJobs
  BY <1>1 DEF SameJobs
<1>3. /\ view' = view /\ doc' = doc /\ rev' = rev /\ queue' = queue /\ post' = post
      /\ events' = events /\ mirror' = mirror /\ edits' = edits /\ undoStack' = undoStack
      /\ redoStack' = redoStack /\ heldView' = heldView /\ heldState' = heldState
      /\ offView' = offView /\ offMirror' = offMirror
      /\ opening' = opening /\ replays' = replays
  BY DEF Waited, Peek, Confirm, ReplayNothing, ReplayFails, kernel, bounds, history
<1>4. hasUndo' \in BOOLEAN
  <2>1. CASE ReplayFails(w)
    <3>1. hasUndo' = (hasUndo /\ job[w].kind = "redo")
      BY <2>1 DEF ReplayFails
    <3>2. QED
      BY <3>1, Zenon
  <2>2. CASE hasUndo' = hasUndo
    BY <2>2 DEF Agreement, Plain
  <2>3. QED
    BY <2>1, <2>2 DEF Waited, Peek, Confirm, ReplayNothing, kernel
<1>5. faults' \in 0..MaxFaults
  <2>1. CASE faults' = faults
    BY <2>1 DEF Agreement, Plain
  <2>2. CASE ReplayFails(w)
    BY <2>2, FaultCounted DEF ReplayFails, Agreement
  <2>3. QED
    BY <2>1, <2>2 DEF Waited, Peek, Confirm, ReplayNothing, bounds
<1>6. Plain'
  <2>1. \A v \in Windows : job'[v] \in Asked => WindowOf[job'[v].ed] = v
    BY <1>1, PlacesKeep DEF Agreement
  <2>2. QED
    BY <1>3, <1>4, <1>5, <2>1 DEF Agreement, Plain
<1>7. QED
  BY <1>2, <1>3, <1>6, MuteStep
-----------------------------------------------------------------------------
\* What a window takes over, and what it leaves alone.
LEMMA SetMirrorFacts ==
    ASSUME Types, Plain, Held, NEW w \in Windows, NEW known \in Knowns, known.rev <= rev,
           SetMirror(w, known), rev' = rev
    PROVE  /\ mirror' \in [Windows -> States] /\ heldState' \in [Windows -> 0..rev]
           /\ mirror'[w] = known.state
           /\ heldState[w] <= heldState'[w] /\ known.rev <= heldState'[w]
           /\ w \notin offMirror' => ~Busy(w) /\ heldState[w] <= known.rev
           /\ \A v \in Windows \ {w} : /\ mirror'[v] = mirror[v] /\ heldState'[v] = heldState[v]
                                       /\ v \in offMirror' <=> v \in offMirror
<1>1. /\ mirror' = [mirror EXCEPT ![w] = known.state]
      /\ offMirror' = IF StaleState(w, known) THEN offMirror \cup {w} ELSE offMirror \ {w}
      /\ heldState' = [heldState EXCEPT ![w] = Max({heldState[w], known.rev})]
  BY DEF SetMirror
<1>2. known.state \in States /\ known.rev \in 0..rev /\ rev \in Nat /\ heldState[w] \in 0..rev
  BY DEF Knowns, Types, Held
<1>3. /\ Max({heldState[w], known.rev}) \in 0..rev
      /\ heldState[w] <= Max({heldState[w], known.rev}) /\ known.rev <= Max({heldState[w], known.rev})
  BY <1>2, MaxTwo
<1>4. /\ mirror' \in [Windows -> States] /\ mirror'[w] = known.state
      /\ \A v \in Windows \ {w} : mirror'[v] = mirror[v]
  BY <1>1, <1>2 DEF Plain
<1>5. /\ heldState' \in [Windows -> 0..rev] /\ heldState'[w] = Max({heldState[w], known.rev})
      /\ \A v \in Windows \ {w} : heldState'[v] = heldState[v]
  BY <1>1, <1>3 DEF Held
<1>6. w \notin offMirror' => ~StaleState(w, known)
  BY <1>1
<1>7. ~StaleState(w, known) => ~Busy(w) /\ heldState[w] <= known.rev
  <2>1. ~(known.rev < heldState[w]) => heldState[w] <= known.rev
    BY <1>2
  <2>2. QED
    BY <2>1 DEF StaleState, Busy
<1>8. \A v \in Windows \ {w} : v \in offMirror' <=> v \in offMirror
  BY <1>1
<1>9. QED
  BY <1>3, <1>4, <1>5, <1>6, <1>7, <1>8

\* What a window takes over is true, so that it stays in step.
LEMMA SetMirrorInStep ==
    ASSUME Types, Plain, Held, NEW w \in Windows, NEW known \in Knowns, known.rev <= rev,
           SetMirror(w, known), rev' = rev, State' = State,
           known.rev = rev => known.state = State,
           \A v \in Windows : InStep(v) /\ (Busy(v)' <=> Busy(v)),
           known.rev # rev /\ Comes(w) => Comes(w)',
           \A v \in Windows \ {w} : (Comes(v) => Comes(v)') /\ (Replied(v) => Replied(v)')
    PROVE  \A v \in Windows : InStep(v)'
<1>1. /\ mirror'[w] = known.state
      /\ heldState[w] <= heldState'[w] /\ known.rev <= heldState'[w]
      /\ w \notin offMirror' => ~Busy(w) /\ heldState[w] <= known.rev
      /\ \A v \in Windows \ {w} : /\ mirror'[v] = mirror[v] /\ heldState'[v] = heldState[v]
                                  /\ v \in offMirror' <=> v \in offMirror
      /\ heldState'[w] \in 0..rev
  BY SetMirrorFacts
<1>2. heldState[w] \in 0..rev /\ rev \in Nat /\ known.rev \in Nat
  BY DEF Held, Types, Knowns
<1>3. InStep(w)'
  <2>1. /\ heldState[w] = rev => heldState'[w] = rev
        /\ known.rev = rev => heldState'[w] = rev
    BY <1>1, <1>2
  <2>2. Comes(w) => Comes(w)' \/ heldState'[w] = rev
    BY <2>1
  <2>3. w \notin offMirror' => ~Busy(w)' /\ Learns(w, known)
    BY <1>1, <1>2, <2>1 DEF Learns
  <2>4. QED
    BY <2>1, <2>2, <2>3, MirrorsKeep
<1>4. ASSUME NEW v \in Windows \ {w} PROVE InStep(v)'
  BY <1>1, <1>4, SameMirrors
<1>5. QED
  BY <1>3, <1>4

\* A view that takes over a change, and what it leaves alone.
LEMMA ShowFacts ==
    ASSUME Types, Held, NEW e \in Editors, NEW b \in Blocks, NEW value \in Values,
           NEW n \in 0..rev, NEW stored \in BOOLEAN, Show(e, b, value, n, stored), rev' = rev
    PROVE  /\ heldView' \in [Editors -> [Blocks -> 0..rev]]
           /\ view'[e][b] = value
           /\ heldView[e][b] <= heldView'[e][b] /\ n <= heldView'[e][b]
           /\ <<e, b>> \notin offView' => stored /\ ~Writes(e, b) /\ heldView[e][b] <= n
           /\ \A f \in Editors, c \in Blocks : f # e \/ c # b =>
                 /\ view'[f][c] = view[f][c] /\ heldView'[f][c] = heldView[f][c]
                 /\ <<f, c>> \in offView' <=> <<f, c>> \in offView
<1>1. /\ view' = [view EXCEPT ![e][b] = value]
      /\ offView' = IF stored /\ ~StaleView(e, b, n) THEN offView \ {<<e, b>>}
                    ELSE offView \cup {<<e, b>>}
      /\ heldView' = [heldView EXCEPT ![e][b] = Max({heldView[e][b], n})]
  BY DEF Show
<1>2. rev \in Nat /\ heldView[e][b] \in 0..rev
  BY DEF Types, Held
<1> DEFINE most == Max({heldView[e][b], n})
<1>3. most \in 0..rev /\ heldView[e][b] <= most /\ n <= most
  BY <1>2, MaxTwo
<1> HIDE DEF most
<1>4. heldView' = [heldView EXCEPT ![e][b] = most]
  BY <1>1 DEF most
<1>5. /\ heldView' \in [Editors -> [Blocks -> 0..rev]] /\ heldView'[e][b] = most
      /\ \A f \in Editors, c \in Blocks : f # e \/ c # b => heldView'[f][c] = heldView[f][c]
  BY <1>3, <1>4 DEF Held
<1>6. /\ view'[e][b] = value
      /\ \A f \in Editors, c \in Blocks : f # e \/ c # b => view'[f][c] = view[f][c]
  BY <1>1 DEF Types
<1>7. <<e, b>> \notin offView' => stored /\ ~StaleView(e, b, n)
  BY <1>1
<1>8. ~StaleView(e, b, n) => ~Writes(e, b) /\ heldView[e][b] <= n
  BY <1>2 DEF StaleView, Writes
<1>9. \A f \in Editors, c \in Blocks : f # e \/ c # b =>
        (<<f, c>> \in offView' <=> <<f, c>> \in offView)
  BY <1>1
<1>10. QED
  BY <1>3, <1>5, <1>6, <1>7, <1>8, <1>9
-----------------------------------------------------------------------------
\* The read of the undo state as a document is loaded: there was nothing yet.
LEMMA InitMirrorAgrees ==
    ASSUME Types, Types', Agreement, NEW w \in Windows, InitMirror(w)
    PROVE  Agreement'
<1> DEFINE known == [state |-> [undo |-> FALSE, redo |-> FALSE], rev |-> 0]
<1>1. /\ view' = view /\ doc' = doc /\ rev' = rev /\ queue' = queue /\ post' = post
      /\ events' = events /\ edits' = edits /\ undoStack' = undoStack
      /\ redoStack' = redoStack /\ heldView' = heldView
      /\ offView' = offView /\ job' = job /\ hasUndo' = hasUndo
      /\ opening' \subseteq opening /\ replays' = replays /\ faults' = faults
  BY DEF InitMirror, kernel, bounds
<1>2. /\ SetMirror(w, known) /\ known \in Knowns /\ known.rev = 0
      /\ known.state = [undo |-> FALSE, redo |-> FALSE]
  BY DEF InitMirror, Knowns, States
<1> HIDE DEF known
<1>3. rev \in Nat /\ known.rev <= rev
  BY <1>2 DEF Types
<1>4. known.rev = rev => known.state = State
  BY <1>2 DEF Agreement, Truthful, State
<1>5. mirror' \in [Windows -> States] /\ heldState' \in [Windows -> 0..rev]
  BY <1>1, <1>2, <1>3, SetMirrorFacts DEF Agreement
<1>6. Plain' /\ Held'
  BY <1>1, <1>5 DEF Agreement, Plain, Held
<1>7. SameJobs
  BY <1>1 DEF SameJobs
<1>8. Order' /\ SamePosts /\ LogStep
  BY <1>1, SameOrder DEF Agreement
<1>9. Truthful'
  BY <1>1, <1>8, TruthfulKeeps DEF Agreement
<1>10. \A e \in Editors : Unsent(e)' = Unsent(e)
  BY <1>1 DEF Unsent
<1>11. ViewInv'
  BY <1>1, <1>7, <1>8, <1>10, SameArriving, SameViews DEF Agreement
<1>12. State' = State
  BY <1>1 DEF State
<1>13. \A v \in Windows : (Comes(v)' <=> Comes(v)) /\ (Replied(v)' <=> Replied(v)) /\ (Busy(v)' <=> Busy(v))
  BY <1>1, <1>7, <1>8, <1>10, SameComes, SameBusy
<1>14. \A v \in Windows : InStep(v)'
  BY <1>1, <1>2, <1>3, <1>4, <1>12, <1>13, SetMirrorInStep DEF Agreement
<1>15. QED
  BY <1>6, <1>8, <1>9, <1>11, <1>14 DEF Agreement
-----------------------------------------------------------------------------
\* The lines and the log stay apart when edits leave the lines, or one joins that is new.
LEMMA ApartKeeps ==
    ASSUME Types, Apart, undoStack' = undoStack, redoStack' = redoStack, edits \in Nat,
           NEW new \in Ops, NEW to \in Editors,
           \/ edits' = edits /\ \A e \in Editors : Unsent(e)' \subseteq Unsent(e)
           \/ /\ edits' = edits + 1 /\ new.id = edits'
              /\ \A e \in Editors : \A op \in Unsent(e) : op.id <= edits
              /\ Unsent(to)' \subseteq Unsent(to) \cup {new}
              /\ \A e \in Editors \ {to} : Unsent(e)' \subseteq Unsent(e)
    PROVE  Apart'
<1>1. Logged' = Logged
  BY DEF Logged
<1>2. \A id \in Logged : id \in Int
  <2>1. ASSUME NEW s \in Seq(Ops), NEW id \in Ids(s) PROVE id \in Int
    <3>1. Range(s) \subseteq Ops
      BY DEF Range
    <3>2. \A op \in Ops : op.id \in Int
      BY BoundsAssumption DEF Ops, EditIds
    <3>3. QED
      BY <3>1, <3>2 DEF Ids
  <2>2. QED
    BY <2>1 DEF Logged, Types
<1>3. /\ Once(undoStack)' /\ Once(redoStack)' /\ (Ids(undoStack) \cap Ids(redoStack) = {})'
      /\ \A id \in Logged' : id <= edits'
  BY <1>1, <1>2 DEF Apart
<1>4. ASSUME NEW e \in Editors, NEW op \in Unsent(e)'
      PROVE  /\ op.id \notin Logged'
             /\ \A f \in Editors \ {e} : \A other \in Unsent(f)' : op.id # other.id
  <2>1. CASE edits' = edits /\ \A f \in Editors : Unsent(f)' \subseteq Unsent(f)
    BY <1>1, <2>1 DEF Apart
  <2>2. CASE /\ edits' = edits + 1 /\ new.id = edits'
             /\ \A f \in Editors : \A old \in Unsent(f) : old.id <= edits
             /\ Unsent(to)' \subseteq Unsent(to) \cup {new}
             /\ \A f \in Editors \ {to} : Unsent(f)' \subseteq Unsent(f)
    <3>1. \A f \in Editors : \A old \in Unsent(f) : old.id # new.id
      BY <2>2
    <3>2. new.id \notin Logged
      BY <1>2, <2>2 DEF Apart
    <3>3. CASE op = new
      <4>1. CASE e = to
        BY <1>1, <2>2, <3>1, <3>2, <3>3, <4>1
      <4>2. CASE e # to
        BY <2>2, <3>1, <3>3, <4>2
      <4>3. QED
        BY <4>1, <4>2
    <3>4. CASE op # new
      <4>1. op \in Unsent(e)
        BY <2>2, <3>4
      <4>2. \A f \in Editors \ {e} : \A other \in Unsent(f)' : other \in Unsent(f) \/ other = new
        BY <2>2
      <4>3. QED
        BY <1>1, <3>1, <4>1, <4>2 DEF Apart
    <3>5. QED
      BY <3>3, <3>4
  <2>3. QED
    BY <2>1, <2>2
<1>5. QED
  BY <1>3, <1>4 DEF Apart

LEMMA LinesKeep ==
    ASSUME NEW e \in Editors, OnlyLine(e), InLine(e)', edits' \in Nat, edits \in Nat, edits <= edits',
           Types, \A f \in Editors : InLine(f)
    PROVE  \A f \in Editors : InLine(f)'
<1>1. ASSUME NEW f \in Editors, f # e PROVE InLine(f)'
  <2>1. post'[f] = post[f] /\ queue'[f] = queue[f] /\ Pending(f)' = Pending(f)
    BY <1>1 DEF OnlyLine, Pending
  <2>2. \A op \in Pending(f) : op.id \in Int
    <3>1. Pending(f) \subseteq Ops
      <4>1. Range(queue[f]) \subseteq Ops
        BY DEF Types, Range
      <4>2. post[f] # Free => post[f].op \in Ops
        BY DEF Types, Edit
      <4>3. QED
        BY <4>1, <4>2 DEF Pending
    <3>2. QED
      BY <3>1, BoundsAssumption DEF Ops, EditIds
  <2>3. QED
    BY <2>1, <2>2 DEF InLine
<1>2. QED
  BY <1>1

\* An edit: shown, marked and queued.
LEMMA TypeAgrees ==
    ASSUME Types, Types', Agreement, NEW e \in Editors, NEW b \in Blocks, Type(e, b)
    PROVE  Agreement'
<1> DEFINE op == [id |-> edits + 1, block |-> b, old |-> view[e][b]]
<1>1. MaxEdits \in Nat /\ edits \in Nat /\ edits < MaxEdits /\ edits' = edits + 1 /\ view[e][b] \in Values
  BY BoundsAssumption DEF Type, Types, Values
<1>2. op \in Ops /\ op.id = edits + 1 /\ op.block = b /\ Queued(e, op)
  BY <1>1 DEF Ops, EditIds, Values, Type
<1> HIDE DEF op
<1>3. /\ doc' = doc /\ rev' = rev /\ undoStack' = undoStack /\ redoStack' = redoStack
      /\ hasUndo' = hasUndo /\ events' = events /\ opening' = opening /\ job' = job
      /\ replays' = replays /\ faults' = faults /\ heldView' = heldView /\ heldState' = heldState
      /\ view' = [view EXCEPT ![e][b] = op.id]
      /\ mirror' = [mirror EXCEPT ![WindowOf[e]] = AddedState]
      /\ offView' = offView \ {<<e, b>>} /\ offMirror' = offMirror \ {WindowOf[e]}
  BY <1>2 DEF Type, kernel
<1>4. InLine(e) /\ \A f \in Editors : \A other \in Unsent(f) : other.id <= edits
  BY DEF Agreement, Order, InLine, Pending, Unsent, Free
<1>5. /\ Unsent(e)' = Unsent(e) \cup {op} /\ InLine(e)' /\ SamePosts /\ OnlyLine(e)
  BY <1>1, <1>2, <1>4, QueueingInLine
<1>6. \A f \in Editors \ {e} : Unsent(f)' = Unsent(f)
  BY <1>5 DEF OnlyLine, Unsent
<1>7. Order'
  <2>1. Apart'
    BY <1>1, <1>2, <1>3, <1>4, <1>5, <1>6, ApartKeeps DEF Agreement, Order
  <2>2. QED
    BY <1>1, <1>5, <2>1, LinesKeep DEF Agreement, Order
<1>8. Plain' /\ Held'
  <2>1. AddedState \in States
    BY DEF AddedState, States
  <2>2. mirror' \in [Windows -> States]
    BY <1>3, <2>1 DEF Agreement, Plain
  <2>3. QED
    BY <1>3, <2>2 DEF Agreement, Plain, Held
<1>9. SameJobs /\ LogStep /\ State' = State
  BY <1>3 DEF SameJobs, LogStep, State
<1>10. Truthful'
  <2>1. \A f \in Editors : post'[f].step = "done" => post'[f] = post[f]
    BY <1>5 DEF SamePosts
  <2>2. QED
    BY <1>3, <1>9, <2>1, TruthfulKeeps DEF Agreement
<1>11. ViewInv'
  <2>1. ShowsOwn'
    <3>1. \A other \in Unsent(e) : other.id < op.id
      <4>1. \A other \in Unsent(e) : other.id \in Int
        BY UnsentTypes, BoundsAssumption DEF Ops, EditIds
      <4>2. QED
        BY <1>1, <1>2, <1>4, <4>1
    <3>2. QED
      BY <1>2, <1>3, <1>5, <1>6, <3>1, OwnTyped DEF Agreement, ViewInv
  <2>2. \A f \in Editors : Arriving(f)' = Arriving(f) /\ Replies(f)' = Replies(f)
    BY <1>3, <1>5, <1>9, SameArriving
  <2>3. ASSUME NEW f \in Editors, NEW c \in Blocks, <<f, c>> \notin offView'
        PROVE  Writes(f, c)' \/ (<<f, c>> \notin offView /\ view'[f][c] = view[f][c])
    <3>1. CASE f = e /\ c = b
      BY <1>2, <1>5, <3>1 DEF Writes
    <3>2. CASE ~(f = e /\ c = b)
      BY <1>3, <2>3, <3>2 DEF Types
    <3>3. QED
      BY <3>1, <3>2
  <2>4. \A f \in Editors, c \in Blocks : Writes(f, c) => Writes(f, c)'
    BY <1>5, <1>6 DEF Writes
  <2>5. \A f \in Editors, c \in Blocks : <<f, c>> \notin offView' => Writes(f, c)' \/ Untouched(f, c)
    BY <2>2, <2>3, <2>4 DEF Untouched
  <2>6. \A f \in Editors, c \in Blocks : heldView[f][c] <= heldView'[f][c]
    <3>1. \A f \in Editors, c \in Blocks : heldView[f][c] \in Int
      BY DEF Agreement, Held, Types
    <3>2. QED
      BY <1>3, <3>1
  <2>7. ASSUME NEW c \in Blocks PROVE \E n \in 0..rev' : LastChange(c, n)'
    <3>1. PICK n \in 0..rev : LastChange(c, n)
      BY DEF Agreement, ViewInv
    <3>2. LastChange(c, n)'
      BY <1>3, <1>8, <2>2, <2>5, <2>6, <3>1, ViewsKeep DEF Agreement
    <3>3. QED
      BY <1>3, <3>2
  <2>8. QED
    BY <2>1, <2>7 DEF ViewInv
<1>12. ASSUME NEW w \in Windows PROVE InStep(w)'
  <2>1. (Comes(w)' <=> Comes(w)) /\ (Replied(w)' <=> Replied(w))
    BY <1>3, <1>5, <1>9, SameComes
  <2>2. CASE w = WindowOf[e]
    <3>1. Busy(w)' /\ mirror'[w] = AddedState
      BY <1>3, <1>5, <2>2 DEF Busy, EditorsOf, Agreement, Plain
    <3>2. QED
      BY <1>3, <1>9, <2>1, <3>1, MirrorsKeep DEF Agreement
  <2>3. CASE w # WindowOf[e]
    <3>1. Busy(w)' <=> Busy(w)
      BY <1>6, <2>3 DEF Busy, EditorsOf
    <3>2. QED
      BY <1>3, <1>9, <2>1, <2>3, <3>1, SameMirrors DEF Agreement, Plain
  <2>4. QED
    BY <2>2, <2>3
<1>13. QED
  BY <1>7, <1>8, <1>10, <1>11, <1>12 DEF Agreement
-----------------------------------------------------------------------------
\* A post that is answered leaves its line, and waits for its push.
LEMMA AnsweredPost ==
    ASSUME Types, NEW e \in Editors, NEW stored \in BOOLEAN, post[e].step = "sent", InLine(e),
           Committed(e, stored), queue' = queue, edits' = edits
    PROVE  /\ post[e].op \in Ops /\ post[e].op \in Unsent(e)
           /\ Unsent(e)' = Unsent(e) \ {post[e].op} /\ InLine(e)' /\ OnlyLine(e)
           /\ \A other \in Unsent(e)' : post[e].op.id < other.id
           /\ post'[e] = [step |-> "done", op |-> post[e].op, stored |-> stored, rev |-> rev']
           /\ \A f \in Editors \ {e} : Unsent(f)' = Unsent(f)
<1> DEFINE op == post[e].op
<1>1. post[e] # Free /\ op \in Ops /\ op \in Unsent(e)
  BY DEF Types, Edit, Free, Unsent
<1> HIDE DEF op
<1>2. post' = [post EXCEPT ![e] = [step |-> "done", op |-> op, stored |-> stored, rev |-> rev']]
  BY DEF Committed, op
<1>3. /\ post'[e] = [step |-> "done", op |-> op, stored |-> stored, rev |-> rev']
      /\ OnlyLine(e)
  BY <1>2 DEF Types, OnlyLine
<1>4. post'[e].step = "done" /\ post'[e].op = op /\ post'[e] # Free
  BY <1>3 DEF Free
<1>5. \A other \in Range(queue[e]) : op.id < other.id
  BY <1>1 DEF InLine, op
<1>6. op \notin Range(queue[e])
  <2>1. op.id \in Int
    BY <1>1, BoundsAssumption DEF Ops, EditIds
  <2>2. QED
    BY <1>5, <2>1
<1>7. Unsent(e)' = Range(queue[e]) /\ Unsent(e) = Range(queue[e]) \cup {op}
  BY <1>4 DEF Unsent, op
<1>8. Pending(e)' = Pending(e)
  BY <1>1, <1>4 DEF Pending, op
<1>9. InLine(e)'
  BY <1>1, <1>4, <1>5, <1>8 DEF InLine
<1>10. \A f \in Editors \ {e} : Unsent(f)' = Unsent(f)
  BY <1>3 DEF OnlyLine, Unsent
<1>11. QED
  BY <1>1, <1>3, <1>5, <1>6, <1>7, <1>9, <1>10 DEF op

\* A change more: what is held is not of the future.
LEMMA HeldGrows ==
    ASSUME Types, Held, NEW e \in Editors, NEW block \in Blocks, NEW w \in Windows, rev' = rev + 1,
           heldView' = [heldView EXCEPT ![e][block] = rev + 1],
           heldState' = [heldState EXCEPT ![w] = rev + 1]
    PROVE  Held'
<1> PICK r \in Nat : r = rev + 1
  BY DEF Types
<1>1. rev' = r /\ r \in 0..r /\ \A n \in 0..rev : n \in 0..r
  BY DEF Types
<1>2. \A f \in Editors : heldView[f] \in [Blocks -> 0..r]
  BY <1>1 DEF Held
<1>3. [heldView[e] EXCEPT ![block] = r] \in [Blocks -> 0..r]
  BY <1>1, <1>2
<1>4. heldView' = [heldView EXCEPT ![e] = [heldView[e] EXCEPT ![block] = r]]
  OBVIOUS
<1>5. heldView' \in [Editors -> [Blocks -> 0..r]]
  BY <1>2, <1>3, <1>4 DEF Held
<1>6. heldState' \in [Windows -> 0..r]
  BY <1>1 DEF Held
<1>7. QED
  BY <1>1, <1>5, <1>6 DEF Held

\* A committed edit moves from its line to the undo stack.
LEMMA CommitOrder ==
    ASSUME Types, Order, NEW e \in Editors, Commit(e)
    PROVE  Order'
<1> DEFINE op == post[e].op
<1>1. /\ undoStack' = Append(undoStack, op) /\ redoStack' \in {redoStack, <<>>}
      /\ queue' = queue /\ edits' = edits /\ post[e].step = "sent" /\ Committed(e, TRUE)
  BY DEF Commit, bounds
<1>2. /\ op \in Ops /\ op \in Unsent(e)
      /\ Unsent(e)' = Unsent(e) \ {op} /\ InLine(e)' /\ OnlyLine(e)
      /\ \A other \in Unsent(e)' : op.id < other.id
      /\ \A f \in Editors \ {e} : Unsent(f)' = Unsent(f)
  BY <1>1, AnsweredPost DEF Order
<1> HIDE DEF op
<1>3. op.id \notin Logged /\ op.id <= edits
  BY <1>2 DEF Order, Apart, InLine, Pending, Unsent, Free
<1>4. Once(undoStack') /\ Ids(undoStack') = Ids(undoStack) \cup {op.id}
  BY <1>1, <1>2, <1>3, StackPush DEF Types, Order, Apart, Logged
<1>5. Once(redoStack') /\ Ids(redoStack') \subseteq Ids(redoStack)
  BY <1>1 DEF Order, Apart, Once, Ids, Range
<1>6. Logged' \subseteq Logged \cup {op.id}
  BY <1>4, <1>5 DEF Logged
<1>7. Ids(undoStack') \cap Ids(redoStack') = {}
  BY <1>3, <1>4, <1>5 DEF Order, Apart, Logged
<1>8. \A id \in Logged' : id <= edits'
  BY <1>1, <1>3, <1>6 DEF Order, Apart
<1>9. ASSUME NEW f \in Editors, NEW other \in Unsent(f)' PROVE other.id # op.id
  <2>1. CASE f = e
    <3>1. op.id \in Int
      BY <1>2, BoundsAssumption DEF Ops, EditIds
    <3>2. QED
      BY <1>2, <2>1, <3>1
  <2>2. CASE f # e
    BY <1>2, <2>2 DEF Order, Apart
  <2>3. QED
    BY <2>1, <2>2
<1>10. ASSUME NEW f \in Editors, NEW other \in Unsent(f)'
       PROVE  /\ other.id \notin Logged'
              /\ \A g \in Editors \ {f} : \A third \in Unsent(g)' : other.id # third.id
  <2>1. \A g \in Editors : Unsent(g)' \subseteq Unsent(g)
    BY <1>2
  <2>2. QED
    BY <1>6, <1>9, <2>1 DEF Order, Apart
<1>11. Apart'
  BY <1>4, <1>5, <1>7, <1>8, <1>10 DEF Apart
<1>12. \A f \in Editors : InLine(f)'
  <2>1. edits \in Nat
    BY BoundsAssumption DEF Types, Values
  <2>2. edits <= edits' /\ edits' \in Nat
    BY <1>1, <2>1
  <2>3. QED
    BY <1>2, <2>1, <2>2, LinesKeep DEF Order
<1>13. QED
  BY <1>11, <1>12 DEF Order

\* What a post with a stored edit will tell the others.
LEMMA CommitArrives ==
    ASSUME Types, NEW e \in Editors, NEW op, post[e].step = "sent", OnlyLine(e),
           post'[e] = [step |-> "done", op |-> op, stored |-> TRUE, rev |-> rev'],
           events' = events, job' = job, NEW f \in Editors
    PROVE  /\ Replies(f)' = Replies(f) /\ (f = e => Arriving(f)' = Arriving(f))
           /\ f # e => Arriving(f)' = Arriving(f) \cup {Move(op.block, op.id, rev')}
<1>1. SameJobs
  BY DEF SameJobs
<1>2. Replies(f)' = Replies(f) /\ ToTell(f)' = ToTell(f) /\ Pushed(f)' = Pushed(f)
  BY <1>1, SameJobMoves, SamePushed
<1>3. PostMove(e)' = Move(op.block, op.id, rev')
  BY DEF PostMove, Move
<1>4. \A g \in Editors \ {e} : post'[g] = post[g] /\ PostMove(g)' = PostMove(g)
  BY DEF OnlyLine, PostMove, Move
<1>5. CASE f = e
  <2>1. {g \in Others(f) : post'[g].step = "done" /\ post'[g].stored} =
        {g \in Others(f) : post[g].step = "done" /\ post[g].stored}
    BY <1>4, <1>5 DEF Others
  <2>2. ToPush(f)' = ToPush(f)
    BY <1>4, <1>5, <2>1 DEF ToPush, Others
  <2>3. QED
    BY <1>2, <1>5, <2>2 DEF Arriving
<1>6. CASE f # e
  <2>1. {g \in Others(f) : post'[g].step = "done" /\ post'[g].stored} =
        {g \in Others(f) : post[g].step = "done" /\ post[g].stored} \cup {e}
    BY <1>4, <1>6 DEF Others
  <2>2. {g \in Others(f) : post[g].step = "done" /\ post[g].stored} \subseteq Editors \ {e}
    BY DEF Others
  <2>3. ToPush(f)' = ToPush(f) \cup {PostMove(e)'}
    BY <1>4, <2>1, <2>2 DEF ToPush
  <2>4. QED
    BY <1>2, <1>3, <1>6, <2>3 DEF Arriving
<1>7. QED
  BY <1>5, <1>6

\* A committed edit: its editor has made it, and the other editors will be told.
LEMMA CommitViews ==
    ASSUME Types, Types', Held, Held', Order, ViewInv, doc \in [Blocks -> Values],
           NEW e \in Editors, Commit(e)
    PROVE  ViewInv'
<1>0. post[e].op \in Ops
  BY AnsweredPost DEF Commit, Order, bounds
<1> PICK op \in Ops : op = post[e].op
  BY <1>0
<1> PICK change : change = Move(op.block, op.id, rev + 1)
  OBVIOUS
<1>1. /\ queue' = queue /\ edits' = edits /\ post[e].step = "sent" /\ Committed(e, TRUE)
      /\ view' = view /\ offView' = offView /\ events' = events /\ job' = job /\ rev' = rev + 1
      /\ doc' = [doc EXCEPT ![op.block] = op.id]
      /\ heldView' = [heldView EXCEPT ![e][op.block] = rev + 1]
  BY DEF Commit, bounds
<1>2. /\ op \in Ops /\ op \in Unsent(e)
      /\ Unsent(e)' = Unsent(e) \ {op} /\ OnlyLine(e)
      /\ \A other \in Unsent(e)' : op.id < other.id
      /\ post'[e] = [step |-> "done", op |-> op, stored |-> TRUE, rev |-> rev']
      /\ \A f \in Editors \ {e} : Unsent(f)' = Unsent(f)
  BY <1>1, AnsweredPost DEF Order
<1>3. op.block \in Blocks /\ op.id \in Values /\ op.id \in Int
  BY <1>2, BoundsAssumption DEF Ops, EditIds, Values
<1>4. ASSUME NEW f \in Editors
      PROVE  /\ Replies(f)' = Replies(f) /\ (f = e => Arriving(f)' = Arriving(f))
             /\ f # e => Arriving(f)' = Arriving(f) \cup {change}
  BY <1>1, <1>2, CommitArrives
<1>5. ASSUME NEW f \in Editors, NEW b \in Blocks, b # op.block PROVE Writes(f, b)' <=> Writes(f, b)
  BY <1>2, <1>5 DEF Writes
<1>6. ShowsOwn'
  <2>1. \A f \in Editors :
          /\ Unsent(f)' \subseteq Unsent(f)
          /\ \A old \in Unsent(f) \ Unsent(f)' : \A other \in Unsent(f)' : old.id < other.id
    BY <1>2
  <2>2. \A f \in Editors, b \in Blocks : <<f, b>> \notin offView' /\ Writes(f, b) =>
          <<f, b>> \notin offView /\ view'[f][b] = view[f][b]
    BY <1>1
  <2>3. QED
    BY <2>1, <2>2, OwnKeeps DEF ViewInv
<1>7. <<e, op.block>> \notin offView /\ ~Writes(e, op.block)' => view[e][op.block] = op.id
  <2>1. SUFFICES ASSUME <<e, op.block>> \notin offView, ~Writes(e, op.block)'
                 PROVE  view[e][op.block] = op.id
    OBVIOUS
  <2>2. Writes(e, op.block)
    BY <1>2 DEF Writes
  <2>3. PICK last \in Unsent(e) : last.block = op.block /\ last.id = view[e][op.block]
    BY <1>3, <2>1, <2>2 DEF ViewInv, ShowsOwn
  <2>4. last = op
    BY <1>2, <2>1, <2>3 DEF Writes
  <2>5. QED
    BY <2>3, <2>4
<1>8. ASSUME NEW b \in Blocks PROVE \E m \in 0..rev' : LastChange(b, m)'
  <2>1. PICK n \in 0..rev : LastChange(b, n)
    BY DEF ViewInv
  <2>2. Spreads(change, e, op.block)
    BY <1>4, <1>5 DEF Spreads
  <2>3. \/ change \in (Arriving(e) \cup Replies(e))'
        \/ <<e, op.block>> \notin offView /\ ~Writes(e, op.block)' => view[e][op.block] = op.id
    BY <1>7
  <2>4. QED
    BY <1>1, <1>3, <2>1, <2>2, <2>3, ViewsGain
<1>9. QED
  BY <1>6, <1>8 DEF ViewInv

LEMMA CommitAgrees ==
    ASSUME Types, Types', Agreement, NEW e \in Editors, Commit(e)
    PROVE  Agreement'
<1>0. post[e].op \in Ops /\ WindowOf[e] \in Windows
  BY WindowsAssumption, AnsweredPost DEF Commit, Agreement, Order, bounds
<1> PICK op \in Ops : op = post[e].op
  BY <1>0
<1> PICK from \in Windows : from = WindowOf[e]
  BY <1>0
<1>1. /\ queue' = queue /\ edits' = edits /\ post[e].step = "sent" /\ Committed(e, TRUE)
      /\ rev' = rev + 1 /\ events' = events /\ job' = job /\ mirror' = mirror /\ opening' = opening
      /\ replays' = replays /\ faults' = faults /\ hasUndo' = FALSE
      /\ undoStack' = Append(undoStack, op)
      /\ doc' = [doc EXCEPT ![op.block] = op.id]
      /\ heldView' = [heldView EXCEPT ![e][op.block] = rev + 1]
      /\ heldState' = [heldState EXCEPT ![from] = rev + 1]
      /\ offMirror' = offMirror \cup {w \in {from} : redoStack' # <<>>}
  BY DEF Commit, bounds
<1>2. /\ op \in Ops /\ op \in Unsent(e)
      /\ Unsent(e)' = Unsent(e) \ {op} /\ OnlyLine(e)
      /\ post'[e] = [step |-> "done", op |-> op, stored |-> TRUE, rev |-> rev']
      /\ \A f \in Editors \ {e} : Unsent(f)' = Unsent(f)
  BY <1>1, AnsweredPost DEF Agreement, Order
<1>3. op.block \in Blocks /\ op.id \in Values
  BY <1>2, BoundsAssumption DEF Ops, EditIds, Values
<1>4. Held'
  BY <1>1, <1>3, HeldGrows DEF Agreement
<1>5. Plain'
  BY <1>1, <1>3 DEF Agreement, Plain
<1>6. Order'
  BY CommitOrder DEF Agreement
<1>7. ViewInv'
  BY <1>4, CommitViews DEF Agreement, Plain
<1>8. Truthful'
  <2>1. LogStep /\ rev' \in Nat
    BY <1>1 DEF LogStep, Types
  <2>2. \A f \in Editors : post'[f].step = "done" => post'[f] = post[f] \/ post'[f].rev <= rev'
    BY <1>2, <2>1 DEF OnlyLine
  <2>3. QED
    BY <1>1, <2>1, <2>2, TruthfulKeeps DEF Agreement
<1>9. ASSUME NEW w \in Windows PROVE InStep(w)'
  <2>1. ASSUME w # from
        PROVE  Comes(w)' /\ (w \in offMirror' <=> w \in offMirror) /\ (Busy(w)' <=> Busy(w))
    <3>1. PICK f \in Editors : WindowOf[f] = w
      BY WindowsAssumption
    <3>2. f # e
      BY <2>1, <3>1
    <3>3. f \in EditorsOf(w) /\ e \in Others(f) /\ post'[e].step = "done" /\ post'[e].stored
      BY <1>2, <3>1, <3>2 DEF EditorsOf, Others
    <3>4. Comes(w)'
      <4>1. (f \in EditorsOf(w) /\ e \in Others(f))'
        BY <3>3 DEF EditorsOf, Others
      <4>2. QED
        BY <3>3, <4>1 DEF Comes
    <3>5. Busy(w)' <=> Busy(w)
      BY <1>2, <2>1 DEF Busy, EditorsOf
    <3>6. QED
      BY <1>1, <2>1, <3>4, <3>5
  <2>2. Busy(w)' => Busy(w)
    BY <1>2 DEF Busy, EditorsOf
  <2>3. ASSUME w = from, w \notin offMirror' PROVE mirror[w] = State'
    <3>1. redoStack' = <<>> /\ undoStack' # <<>>
      <4>1. \A s \in Seq(Ops) : Append(s, op) # <<>>
        OBVIOUS
      <4>2. QED
        BY <1>1, <2>3, <4>1 DEF Types
    <3>2. State' = AddedState
      BY <3>1 DEF State, AddedState
    <3>3. Busy(w)
      BY <1>2, <2>3 DEF Busy, EditorsOf
    <3>4. QED
      BY <1>1, <2>3, <3>2, <3>3 DEF Agreement, InStep
  <2>4. w \notin offMirror' => w \notin offMirror
    BY <1>1
  <2>5. QED
    BY <1>1, <2>1, <2>2, <2>3, <2>4, MirrorsGain DEF Agreement
<1>10. QED
  BY <1>4, <1>5, <1>6, <1>7, <1>8, <1>9 DEF Agreement
-----------------------------------------------------------------------------
\* An edit that is not stored leaves its line, and its view and its window's mirror wrong.
Unstored(e, op) ==
    /\ post[e].step = "sent" /\ op = post[e].op
    /\ Unsent(e)' = Unsent(e) \ {op} /\ InLine(e)' /\ OnlyLine(e)
    /\ \A other \in Unsent(e)' : op.id < other.id
    /\ post'[e].step = "done" => ~post'[e].stored /\ post'[e].rev = rev
    /\ UNCHANGED <<kernel, view, events, mirror, opening, job, edits, replays, heldView, heldState>>
    /\ offView' = offView \cup Shown(e) /\ offMirror' = offMirror \cup {WindowOf[e]}
    /\ faults' \in 0..MaxFaults

LEMMA UnstoredAgrees ==
    ASSUME Types, Types', Agreement, NEW e \in Editors, NEW op \in Ops, Unstored(e, op)
    PROVE  Agreement'
<1>1. /\ doc' = doc /\ undoStack' = undoStack /\ redoStack' = redoStack /\ hasUndo' = hasUndo
      /\ rev' = rev /\ view' = view /\ events' = events /\ mirror' = mirror /\ opening' = opening
      /\ job' = job /\ edits' = edits /\ replays' = replays /\ heldView' = heldView
      /\ heldState' = heldState /\ faults' \in 0..MaxFaults
      /\ offView' = offView \cup Shown(e) /\ offMirror' = offMirror \cup {WindowOf[e]}
  BY DEF Unstored, kernel
<1>2. /\ Unsent(e)' = Unsent(e) \ {op} /\ InLine(e)' /\ OnlyLine(e)
      /\ \A other \in Unsent(e)' : op.id < other.id
      /\ \A f \in Editors \ {e} : Unsent(f)' = Unsent(f)
  BY DEF Unstored, OnlyLine, Unsent
<1>3. Plain' /\ Held'
  BY <1>1 DEF Agreement, Plain, Held
<1>4. Order'
  <2>1. edits \in Nat /\ edits <= edits'
    BY <1>1, BoundsAssumption DEF Types, Values
  <2>2. Apart'
    BY <1>1, <1>2, <2>1, ApartKeeps DEF Agreement, Order
  <2>3. \A f \in Editors : InLine(f)'
    BY <1>1, <1>2, <2>1, LinesKeep DEF Agreement, Order
  <2>4. QED
    BY <2>2, <2>3 DEF Order
<1>5. LogStep /\ SameJobs /\ State' = State
  BY <1>1 DEF LogStep, SameJobs, State
<1>6. Truthful'
  <2>1. \A f \in Editors : post'[f].step = "done" => post'[f] = post[f] \/ post'[f].rev = rev
    BY <1>2 DEF OnlyLine, Unstored
  <2>2. rev \in Nat
    BY DEF Types
  <2>3. \A f \in Editors : post'[f].step = "done" => post'[f] = post[f] \/ post'[f].rev <= rev'
    BY <1>1, <2>1, <2>2
  <2>4. QED
    BY <1>1, <1>5, <2>3, TruthfulKeeps DEF Agreement
<1>7. \A f \in Editors :
        /\ (post'[f].step = "done" /\ post'[f].stored) <=> (post[f].step = "done" /\ post[f].stored)
        /\ post'[f].step = "done" /\ post'[f].stored => post'[f] = post[f]
  BY <1>2 DEF OnlyLine, Unstored
<1>8. ASSUME NEW f \in Editors PROVE Arriving(f)' = Arriving(f) /\ Replies(f)' = Replies(f)
  <2>1. {g \in Others(f) : post'[g].step = "done" /\ post'[g].stored} =
        {g \in Others(f) : post[g].step = "done" /\ post[g].stored}
    BY <1>7 DEF Others
  <2>2. \A g \in {x \in Others(f) : post[x].step = "done" /\ post[x].stored} : PostMove(g)' = PostMove(g)
    BY <1>7 DEF PostMove, Move, Others
  <2>3. ToPush(f)' = ToPush(f)
    BY <2>1, <2>2 DEF ToPush, Others
  <2>4. QED
    BY <1>1, <1>5, <2>3, SamePushed, SameJobMoves DEF Arriving
<1>9. ViewInv'
  <2>1. ShowsOwn'
    <3>1. \A f \in Editors :
            /\ Unsent(f)' \subseteq Unsent(f)
            /\ \A old \in Unsent(f) \ Unsent(f)' : \A other \in Unsent(f)' : old.id < other.id
      BY <1>2
    <3>2. \A f \in Editors, b \in Blocks : <<f, b>> \notin offView' /\ Writes(f, b) =>
            <<f, b>> \notin offView /\ view'[f][b] = view[f][b]
      BY <1>1
    <3>3. QED
      BY <3>1, <3>2, OwnKeeps DEF Agreement, ViewInv
  <2>2. ASSUME NEW b \in Blocks, <<e, b>> \notin offView', Writes(e, b) PROVE Writes(e, b)'
    <3>1. PICK last \in Unsent(e) : last.block = b /\ last.id = view[e][b]
      BY <1>1, <2>2 DEF Agreement, ViewInv, ShowsOwn
    <3>2. last.id # op.id
      BY <1>1, <2>2, <3>1 DEF Shown, Unstored
    <3>3. last \in Unsent(e)'
      BY <1>2, <3>1, <3>2
    <3>4. QED
      BY <3>1, <3>3 DEF Writes
  <2>3. \A f \in Editors \ {e}, b \in Blocks : Writes(f, b) => Writes(f, b)'
    BY <1>2 DEF Writes
  <2>4. \A f \in Editors, b \in Blocks : <<f, b>> \notin offView' => Writes(f, b)' \/ Untouched(f, b)
    BY <1>1, <1>8, <2>2, <2>3 DEF Untouched
  <2>5. \A f \in Editors, b \in Blocks : heldView[f][b] <= heldView'[f][b]
    BY <1>1 DEF Agreement, Held, Types
  <2>6. ASSUME NEW b \in Blocks PROVE \E n \in 0..rev' : LastChange(b, n)'
    <3>1. PICK n \in 0..rev : LastChange(b, n)
      BY DEF Agreement, ViewInv
    <3>2. LastChange(b, n)'
      BY <1>1, <1>3, <1>8, <2>4, <2>5, <3>1, ViewsKeep DEF Agreement
    <3>3. QED
      BY <1>1, <3>2
  <2>7. QED
    BY <2>1, <2>6 DEF ViewInv
<1>10. ASSUME NEW w \in Windows PROVE InStep(w)'
  <2>1. (Comes(w)' <=> Comes(w)) /\ (Replied(w)' <=> Replied(w))
    BY <1>1, <1>7 DEF Comes, Replied, EditorsOf, Others, Reaches, Cross
  <2>2. CASE w = WindowOf[e]
    <3>1. w \in offMirror'
      BY <1>1, <2>2
    <3>2. QED
      BY <1>1, <1>5, <2>1, <3>1, MirrorsKeep DEF Agreement
  <2>3. CASE w # WindowOf[e]
    <3>1. Busy(w)' <=> Busy(w)
      BY <1>2, <2>3 DEF Busy, EditorsOf
    <3>2. QED
      BY <1>1, <1>5, <2>1, <2>3, <3>1, SameMirrors DEF Agreement
  <2>4. QED
    BY <2>2, <2>3
<1>11. QED
  BY <1>3, <1>4, <1>6, <1>9, <1>10 DEF Agreement

LEMMA RollbackAgrees ==
    ASSUME Types, Types', Agreement, NEW e \in Editors, Rollback(e)
    PROVE  Agreement'
<1>1. /\ queue' = queue /\ edits' = edits /\ post[e].step = "sent" /\ Committed(e, FALSE)
      /\ rev' = rev
  BY DEF Rollback
<1>2. post[e].op \in Ops
  BY <1>1, AnsweredPost DEF Agreement, Order
<1> PICK op \in Ops : op = post[e].op
  BY <1>2
<1>3. /\ Unsent(e)' = Unsent(e) \ {op} /\ InLine(e)' /\ OnlyLine(e)
      /\ \A other \in Unsent(e)' : op.id < other.id
      /\ post'[e] = [step |-> "done", op |-> op, stored |-> FALSE, rev |-> rev']
  BY <1>1, AnsweredPost DEF Agreement, Order
<1>4. faults' \in 0..MaxFaults
  BY FaultCounted DEF Rollback, Agreement
<1>5. Unstored(e, op)
  BY <1>1, <1>3, <1>4 DEF Rollback, Unstored, kernel
<1>6. QED
  BY <1>5, UnstoredAgrees

LEMMA PostLostAgrees ==
    ASSUME Types, Types', Agreement, NEW e \in Editors, PostLost(e)
    PROVE  Agreement'
<1>1. edits' = edits /\ post[e].step = "sent" /\ PostOver(e)
  BY DEF PostLost
<1>2. post[e] # Free /\ post[e].op \in Ops /\ InLine(e)
  BY <1>1 DEF Types, Edit, Free, Agreement, Order
<1> PICK op \in Ops : op = post[e].op
  BY <1>2
<1>3. /\ Unsent(e)' = Unsent(e) \ {op} /\ InLine(e)' /\ OnlyLine(e) /\ post'[e].step # "done"
      /\ \A other \in Unsent(e)' : op.id < other.id
  BY <1>1, <1>2, PostingInLine
<1>4. faults' \in 0..MaxFaults
  BY FaultCounted DEF PostLost, Agreement
<1>5. Unstored(e, op)
  BY <1>1, <1>3, <1>4 DEF PostLost, Unstored
<1>6. QED
  BY <1>5, UnstoredAgrees
-----------------------------------------------------------------------------
\* What a push that is told to some editors adds.
LEMMA TellPushes ==
    ASSUME Types, NEW to, NEW event \in Changes, Tell(to, event), NEW f \in Editors
    PROVE  /\ f \in to => Range(events'[f]) = Range(events[f]) \cup {event}
           /\ f \notin to => events'[f] = events[f] /\ Pushed(f)' = Pushed(f)
           /\ f \in to /\ event.stored => Pushed(f)' = Pushed(f) \cup {EventMove(event)}
           /\ f \in to /\ ~event.stored => Pushed(f)' = Pushed(f)
<1>1. events'[f] = IF f \in to THEN Append(events[f], event) ELSE events[f]
  BY DEF Tell
<1>2. f \in to => Range(events'[f]) = Range(events[f]) \cup {event}
  <2>1. events[f] \in Seq(Changes)
    BY DEF Types
  <2>2. Range(Append(events[f], event)) = Range(events[f]) \cup {event}
    BY <2>1, Ends
  <2>3. QED
    BY <1>1, <2>2
<1>3. \A c : EventMove(c)' = EventMove(c)
  BY DEF EventMove, Move
<1>4. Pushed(f)' = {EventMove(c) : c \in {x \in Range(events'[f]) : x.stored}}
  BY <1>3 DEF Pushed
<1>5. f \notin to => events'[f] = events[f] /\ Pushed(f)' = Pushed(f)
  BY <1>1, <1>4 DEF Pushed
<1>6. ASSUME f \in to, event.stored PROVE Pushed(f)' = Pushed(f) \cup {EventMove(event)}
  <2>1. {x \in Range(events'[f]) : x.stored} = {x \in Range(events[f]) : x.stored} \cup {event}
    BY <1>2, <1>6
  <2>2. QED
    BY <1>4, <2>1 DEF Pushed
<1>7. ASSUME f \in to, ~event.stored PROVE Pushed(f)' = Pushed(f)
  <2>1. {x \in Range(events'[f]) : x.stored} = {x \in Range(events[f]) : x.stored}
    BY <1>2, <1>7
  <2>2. QED
    BY <1>4, <2>1 DEF Pushed
<1>8. QED
  BY <1>2, <1>5, <1>6, <1>7

\* A post that is answered and pushed: what it was to tell is told.
LEMMA PushAgrees ==
    ASSUME Types, Types', Agreement, NEW e \in Editors, Push(e)
    PROVE  Agreement'
<1>1. /\ doc' = doc /\ undoStack' = undoStack /\ redoStack' = redoStack /\ hasUndo' = hasUndo
      /\ rev' = rev /\ view' = view /\ mirror' = mirror /\ opening' = opening /\ job' = job
      /\ edits' = edits /\ replays' = replays /\ faults' = faults /\ heldView' = heldView
      /\ heldState' = heldState /\ offView' = offView /\ offMirror' = offMirror
      /\ post[e].step = "done" /\ PostOver(e)
  BY DEF Push, kernel, bounds, history
<1>2. post[e] # Free /\ post[e].op \in Ops /\ post[e].rev \in Nat /\ post[e].stored \in BOOLEAN
  BY <1>1, DoneTypes DEF Free
<1>3. post[e].op.block \in Blocks /\ post[e].op.id \in Values /\ post[e].op.id \in Int
  BY <1>2, BoundsAssumption DEF Ops, EditIds, Values
<1>4. /\ Unsent(e)' = Unsent(e) \ {post[e].op} /\ InLine(e)' /\ OnlyLine(e) /\ post'[e].step # "done"
  BY <1>1, <1>2, PostingInLine DEF Agreement, Order
<1> DEFINE told == [block |-> post[e].op.block, value |-> post[e].op.id, rev |-> post[e].rev,
                    stored |-> post[e].stored, known |-> Known(State)]
<1>5. told \in Changes
  BY <1>2, <1>3, KnownTypes DEF Changes
<1>6. /\ Tell(Others(e), told) /\ EventMove(told) = PostMove(e) /\ told.stored = post[e].stored
      /\ told.rev = post[e].rev /\ told.known.rev = rev /\ told.known.state = State
  BY DEF Push, EventMove, PostMove, Known
<1> HIDE DEF told
<1> PICK event \in Changes : event = told
  BY <1>5
<1>7. \A f \in Editors : Unsent(f)' = Unsent(f)
  <2>1. Unsent(e) = Range(queue[e])
    BY <1>1 DEF Unsent
  <2>2. \A op \in Unsent(e) : post[e].op.id < op.id
    BY <1>2, <2>1 DEF Agreement, Order, InLine
  <2>3. post[e].op \notin Unsent(e)
    BY <1>3, <2>2
  <2>4. \A f \in Editors \ {e} : Unsent(f)' = Unsent(f)
    BY <1>4 DEF OnlyLine, Unsent
  <2>5. QED
    BY <1>4, <2>3, <2>4
<1>8. Plain' /\ Held'
  BY <1>1 DEF Agreement, Plain, Held
<1>9. Order'
  <2>1. edits \in Nat /\ edits <= edits'
    BY <1>1, BoundsAssumption DEF Types, Values
  <2>2. Apart'
    BY <1>1, <1>2, <1>7, <2>1, ApartKeeps DEF Agreement, Order
  <2>3. \A f \in Editors : InLine(f)'
    BY <1>1, <1>4, <2>1, LinesKeep DEF Agreement, Order
  <2>4. QED
    BY <2>2, <2>3 DEF Order
<1>10. LogStep /\ SameJobs /\ State' = State
  BY <1>1 DEF LogStep, SameJobs, State
<1>11. /\ \A f \in Editors \ {e} : Range(events'[f]) = Range(events[f]) \cup {event}
       /\ events'[e] = events[e]
  <2>1. Tell(Others(e), event)
    BY <1>6
  <2>2. QED
    BY <2>1, TellPushes DEF Others
<1>12. Truthful'
  <2>1. Fine(event, rev', State')
    <3>1. event.rev <= rev /\ rev \in Nat
      BY <1>1, <1>6 DEF Agreement, Truthful, Types
    <3>2. QED
      BY <1>1, <1>6, <1>10, <3>1 DEF Fine
  <2>2. \A f \in Editors : \A c \in Range(events'[f]) : c \in Range(events[f]) \/ Fine(c, rev', State')
    BY <1>11, <2>1
  <2>3. \A f \in Editors : post'[f].step = "done" => post'[f] = post[f]
    BY <1>4 DEF OnlyLine
  <2>4. QED
    BY <1>1, <1>10, <2>2, <2>3, TruthfulKeeps DEF Agreement
<1>13. ASSUME NEW f \in Editors PROVE Arriving(f)' = Arriving(f) /\ Replies(f)' = Replies(f)
  <2>1. Replies(f)' = Replies(f) /\ ToTell(f)' = ToTell(f)
    BY <1>10, SameJobMoves
  <2>2. \A g \in Editors \ {e} : post'[g] = post[g] /\ PostMove(g)' = PostMove(g)
    BY <1>4 DEF OnlyLine, PostMove, Move
  <2>3. ToPush(f)' = {PostMove(g) : g \in {x \in Others(f) \ {e} : post[x].step = "done" /\ post[x].stored}}
    <3>1. {g \in Others(f) : post'[g].step = "done" /\ post'[g].stored} =
          {g \in Others(f) \ {e} : post[g].step = "done" /\ post[g].stored}
      BY <1>4, <2>2 DEF Others
    <3>2. \A g \in {x \in Others(f) \ {e} : post[x].step = "done" /\ post[x].stored} :
             PostMove(g)' = PostMove(g)
      BY <2>2 DEF Others
    <3>3. ToPush(f)' = {PostMove(g)' : g \in {x \in Others(f) : post'[x].step = "done" /\ post'[x].stored}}
      BY DEF ToPush, Others
    <3>4. QED
      BY <3>1, <3>2, <3>3
  <2>4. Tell(Others(e), event) /\ EventMove(event) = PostMove(e) /\ event.stored = post[e].stored
    BY <1>6
  <2>5. CASE f # e /\ post[e].stored
    <3>1. f \in Others(e) /\ e \in Others(f)
      BY <2>5 DEF Others
    <3>2. Pushed(f)' = Pushed(f) \cup {PostMove(e)}
      <4>1. event.stored
        BY <2>4, <2>5, Zenon
      <4>2. Pushed(f)' = Pushed(f) \cup {EventMove(event)}
        BY <2>4, <3>1, <4>1, TellPushes
      <4>3. QED
        BY <2>4, <4>2
    <3>3. {g \in Others(f) : post[g].step = "done" /\ post[g].stored} =
          {g \in Others(f) \ {e} : post[g].step = "done" /\ post[g].stored} \cup {e}
      BY <1>1, <2>5, <3>1
    <3>4. ToPush(f) = ToPush(f)' \cup {PostMove(e)}
      BY <2>3, <3>3 DEF ToPush
    <3>5. QED
      BY <2>1, <3>2, <3>4 DEF Arriving
  <2>6. CASE ~(f # e /\ post[e].stored)
    <3>1. Pushed(f)' = Pushed(f)
      BY <2>4, <2>6, TellPushes DEF Others
    <3>2. {g \in Others(f) : post[g].step = "done" /\ post[g].stored} =
          {g \in Others(f) \ {e} : post[g].step = "done" /\ post[g].stored}
      BY <2>6 DEF Others
    <3>3. ToPush(f) = ToPush(f)'
      BY <2>3, <3>2 DEF ToPush
    <3>4. QED
      BY <2>1, <3>1, <3>3 DEF Arriving
  <2>7. QED
    BY <2>5, <2>6
<1>14. ViewInv'
  BY <1>1, <1>7, <1>13, SameViews DEF Agreement
<1>15. ASSUME NEW w \in Windows PROVE InStep(w)'
  <2>1. Busy(w)' <=> Busy(w)
    BY <1>7, SameBusy
  <2>2. Replied(w)' <=> Replied(w)
    BY <1>1 DEF Replied
  <2>3. ASSUME Comes(w) PROVE Comes(w)'
    <3>1. PICK f \in EditorsOf(w) :
            \/ \E c \in Range(events[f]) : c.stored /\ c.known.rev = rev
            \/ \E g \in Others(f) : post[g].step = "done" /\ post[g].stored
            \/ \E v \in Windows : job[v].step = "push" /\ Reaches(v, f)
      BY <2>3 DEF Comes
    <3>2. f \in Editors /\ f \in EditorsOf(w)' /\ Others(f)' = Others(f)
      BY DEF EditorsOf, Others
    <3>3. CASE \E c \in Range(events[f]) : c.stored /\ c.known.rev = rev
      <4>1. \E c \in Range(events'[f]) : c.stored /\ c.known.rev = rev'
        BY <1>1, <1>11, <3>2, <3>3
      <4>2. QED
        BY <3>2, <4>1 DEF Comes
    <3>4. ASSUME NEW g \in Others(f), post[g].step = "done", post[g].stored PROVE Comes(w)'
      <4>1. CASE g = e
        <5>1. event \in Range(events'[f]) /\ event.stored /\ event.known.rev = rev'
          BY <1>1, <1>6, <1>11, <3>2, <3>4, <4>1 DEF Others
        <5>2. QED
          BY <3>2, <5>1 DEF Comes
      <4>2. CASE g # e
        <5>1. post'[g].step = "done" /\ post'[g].stored
          BY <1>4, <3>4, <4>2 DEF OnlyLine, Others
        <5>2. QED
          BY <3>2, <5>1 DEF Comes
      <4>3. QED
        BY <4>1, <4>2
    <3>5. ASSUME NEW v \in Windows, job[v].step = "push", Reaches(v, f) PROVE Comes(w)'
      <4>1. job'[v].step = "push" /\ Reaches(v, f)'
        BY <1>1, <3>5 DEF Reaches, Cross
      <4>2. QED
        BY <3>2, <4>1 DEF Comes
    <3>6. QED
      BY <3>1, <3>3, <3>4, <3>5
  <2>4. QED
    BY <1>1, <1>10, <2>1, <2>2, <2>3, SameMirrors DEF Agreement
<1>16. QED
  BY <1>8, <1>9, <1>12, <1>14, <1>15 DEF Agreement
-----------------------------------------------------------------------------
\* A push that stays on its way keeps a window waiting for it.
LEMMA ComesKeeps ==
    ASSUME post' = post, job' = job, rev' = rev, NEW w \in Windows,
           \A f \in EditorsOf(w) : \A c \in Range(events[f]) :
               c.stored /\ c.known.rev = rev => c \in Range(events'[f])
    PROVE  Comes(w) => Comes(w)'
<1>1. EditorsOf(w)' = EditorsOf(w) /\ \A f \in EditorsOf(w) : Others(f)' = Others(f)
  BY DEF EditorsOf, Others
<1>2. \A v \in Windows, f \in EditorsOf(w) : Reaches(v, f)' <=> Reaches(v, f)
  BY DEF Reaches, Cross
<1>3. QED
  BY <1>1, <1>2 DEF Comes

\* A push that is taken over is gone.
LEMMA HeadGoes ==
    ASSUME Types, NEW e \in Editors, events[e] # <<>>, events' = [events EXCEPT ![e] = Tail(@)]
    PROVE  /\ Head(events[e]) \in Changes /\ Head(events[e]) \in Range(events[e])
           /\ Range(events[e]) = Range(events'[e]) \cup {Head(events[e])}
           /\ \A f \in Editors \ {e} : events'[f] = events[f] /\ Pushed(f)' = Pushed(f)
           /\ Pushed(e)' \subseteq Pushed(e)
           /\ \A m \in Pushed(e) : \/ m \in Pushed(e)'
                                   \/ Head(events[e]).stored /\ m = EventMove(Head(events[e]))
           /\ Head(events[e]).stored => EventMove(Head(events[e])) \in Pushed(e)
<1>0. events[e] \in Seq(Changes)
  BY DEF Types
<1> PICK s \in Seq(Changes) : s = events[e]
  BY <1>0
<1>1. s \in Seq(Changes) /\ Len(s) \in Nat /\ Len(s) > 0 /\ DOMAIN s = 1..Len(s)
  BY DEF Types
<1>2. events'[e] = Tail(s) /\ \A f \in Editors \ {e} : events'[f] = events[f]
  BY DEF Types
<1>3. Head(s) = s[1] /\ Head(s) \in Changes /\ Head(s) \in Range(s)
  BY <1>1 DEF Range
<1>4. /\ DOMAIN Tail(s) = 1..(Len(s) - 1)
      /\ \A i \in 1..(Len(s) - 1) : Tail(s)[i] = s[i + 1] /\ i + 1 \in 1..Len(s)
  BY <1>1
<1>5. Range(s) = Range(Tail(s)) \cup {Head(s)}
  <2>1. \A i \in 1..Len(s) : i = 1 \/ (i - 1 \in 1..(Len(s) - 1) /\ s[i] = Tail(s)[i - 1])
    BY <1>1, <1>4
  <2>2. Range(s) \subseteq {Head(s)} \cup Range(Tail(s))
    <3>1. ASSUME NEW i \in 1..Len(s) PROVE s[i] \in {Head(s)} \cup Range(Tail(s))
      <4>1. CASE i = 1
        BY <1>3, <4>1
      <4>2. CASE i # 1
        BY <1>4, <2>1, <4>2 DEF Range
      <4>3. QED
        BY <4>1, <4>2
    <3>2. QED
      BY <1>1, <3>1 DEF Range
  <2>3. {Head(s)} \cup Range(Tail(s)) \subseteq Range(s)
    BY <1>1, <1>3, <1>4 DEF Range
  <2>4. QED
    BY <2>2, <2>3
<1>6. \A f \in Editors : Pushed(f)' = {EventMove(c) : c \in {x \in Range(events'[f]) : x.stored}}
  BY DEF Pushed, EventMove, Move
<1>7. \A f \in Editors \ {e} : Pushed(f)' = Pushed(f)
  BY <1>2, <1>6 DEF Pushed
<1>8. Range(events[e]) = Range(events'[e]) \cup {Head(events[e])}
  BY <1>2, <1>5
<1>9. /\ Pushed(e)' \subseteq Pushed(e)
      /\ \A m \in Pushed(e) : \/ m \in Pushed(e)'
                              \/ Head(events[e]).stored /\ m = EventMove(Head(events[e]))
      /\ Head(events[e]).stored => EventMove(Head(events[e])) \in Pushed(e)
  BY <1>6, <1>8 DEF Pushed
<1>10. QED
  BY <1>2, <1>3, <1>7, <1>8, <1>9

\* A change is taken over by e, and is on its way to it no more.
Gives(e, move) ==
    /\ \A f \in Editors : Arriving(f)' \subseteq Arriving(f) /\ Replies(f)' \subseteq Replies(f)
    /\ \A f \in Editors \ {e} : Arriving(f)' = Arriving(f) /\ Replies(f)' = Replies(f)
    /\ \A m \in Arriving(e) : m \in Arriving(e)' \/ m = move
    /\ \A m \in Replies(e) : m \in Replies(e)' \/ m = move

LEMMA ShownViews ==
    ASSUME Types, Types', Held, Held', ViewInv, NEW e \in Editors, NEW b \in Blocks,
           NEW value \in Values, NEW n \in 0..rev, NEW stored \in BOOLEAN,
           Show(e, b, value, n, stored), NEW move, move = Move(b, value, n), Gives(e, move),
           stored => move \in Arriving(e) \cup Replies(e),
           rev' = rev, doc' = doc, queue' = queue, post' = post
    PROVE  ViewInv'
<1>1. /\ view'[e][b] = value
      /\ heldView[e][b] <= heldView'[e][b] /\ n <= heldView'[e][b]
      /\ <<e, b>> \notin offView' => stored /\ ~Writes(e, b) /\ heldView[e][b] <= n
      /\ \A f \in Editors, c \in Blocks : f # e \/ c # b =>
            /\ view'[f][c] = view[f][c] /\ heldView'[f][c] = heldView[f][c]
            /\ <<f, c>> \in offView' <=> <<f, c>> \in offView
  BY ShowFacts
<1>2. move.block = b /\ move.value = value /\ move.rev = n
  BY DEF Move
<1>3. /\ \A f \in Editors : Arriving(f)' \subseteq Arriving(f) /\ Replies(f)' \subseteq Replies(f)
      /\ \A f \in Editors \ {e} : Arriving(f)' = Arriving(f) /\ Replies(f)' = Replies(f)
      /\ \A m \in Arriving(e) : m \in Arriving(e)' \/ m = move
      /\ \A m \in Replies(e) : m \in Replies(e)' \/ m = move
  BY DEF Gives
<1>4. \A f \in Editors : /\ Unsent(f)' = Unsent(f)
                         /\ \A c \in Blocks : Writes(f, c)' <=> Writes(f, c)
  BY DEF Unsent, Writes
<1>5. ShowsOwn'
  <2>1. \A f \in Editors, c \in Blocks : <<f, c>> \notin offView' /\ Writes(f, c) =>
          <<f, c>> \notin offView /\ view'[f][c] = view[f][c]
    BY <1>1
  <2>2. \A f \in Editors :
          /\ Unsent(f)' \subseteq Unsent(f)
          /\ \A old \in Unsent(f) \ Unsent(f)' : \A other \in Unsent(f)' : old.id < other.id
    BY <1>4
  <2>3. QED
    BY <2>1, <2>2, OwnKeeps DEF ViewInv
<1>6. ASSUME NEW f \in Editors, NEW c \in Blocks, <<f, c>> \notin offView'
      PROVE  Writes(f, c)' \/ Untouched(f, c) \/ Takes(f, c)
  <2>1. CASE f = e /\ c = b
    <3>1. stored /\ heldView[e][b] <= n /\ view'[e][b] = value /\ n <= heldView'[e][b]
      BY <1>1, <1>6, <2>1
    <3>2. move \in Arriving(e) \cup Replies(e)
      BY <3>1
    <3>3. \A x \in Arriving(e) : x.block = b /\ x.rev # move.rev => x \in Arriving(e)'
      BY <1>3
    <3>4. Takes(e, b)
      BY <1>2, <3>1, <3>2, <3>3 DEF Takes
    <3>5. QED
      BY <2>1, <3>4
  <2>2. CASE ~(f = e /\ c = b)
    <3>1. <<f, c>> \notin offView /\ view'[f][c] = view[f][c]
      BY <1>1, <1>6, <2>2
    <3>2. \A m \in Arriving(f) \cup Replies(f) : m.block = c => m \in (Arriving(f) \cup Replies(f))'
      BY <1>2, <1>3, <2>2
    <3>3. QED
      BY <1>4, <3>1, <3>2 DEF Untouched
  <2>3. QED
    BY <2>1, <2>2
<1>7. \A f \in Editors, c \in Blocks : heldView[f][c] <= heldView'[f][c]
  <2>1. \A f \in Editors, c \in Blocks : heldView[f][c] \in Int
    BY DEF Held, Types
  <2>2. ASSUME NEW f \in Editors, NEW c \in Blocks PROVE heldView[f][c] <= heldView'[f][c]
    <3>1. CASE f = e /\ c = b
      BY <1>1, <3>1
    <3>2. CASE ~(f = e /\ c = b)
      <4>1. heldView'[f][c] = heldView[f][c]
        BY <1>1, <3>2
      <4>2. QED
        BY <2>1, <4>1
    <3>3. QED
      BY <3>1, <3>2
  <2>3. QED
    BY <2>2
<1>8. \A f \in Editors : \A m \in Arriving(f) \ Arriving(f)' : m.rev <= heldView'[f][m.block]
  BY <1>1, <1>2, <1>3
<1>9. ASSUME NEW c \in Blocks PROVE \E m \in 0..rev' : LastChange(c, m)'
  <2>1. PICK m \in 0..rev : LastChange(c, m)
    BY DEF ViewInv
  <2>2. LastChange(c, m)'
    BY <1>3, <1>6, <1>7, <1>8, <2>1, ViewsKeep
  <2>3. QED
    BY <2>2
<1>10. QED
  BY <1>5, <1>9 DEF ViewInv

\* A view takes over a pushed change, whatever it shows.
LEMMA DeliverViews ==
    ASSUME Types, Types', Held, Held', ViewInv, NEW e \in Editors, NEW event \in Changes,
           events[e] # <<>>, events' = [events EXCEPT ![e] = Tail(@)], event = Head(events[e]),
           event.rev <= rev, Show(e, event.block, event.value, event.rev, event.stored),
           rev' = rev, doc' = doc, queue' = queue, post' = post, job' = job
    PROVE  ViewInv'
<1> PICK b \in Blocks, value \in Values, n \in 0..rev, stored \in BOOLEAN :
       b = event.block /\ value = event.value /\ n = event.rev /\ stored = event.stored
  BY DEF Changes, Types
<1> PICK move : move = EventMove(event)
  OBVIOUS
<1>1. Show(e, b, value, n, stored) /\ move = Move(b, value, n)
  BY DEF EventMove
<1>2. /\ \A f \in Editors \ {e} : Pushed(f)' = Pushed(f)
      /\ Pushed(e)' \subseteq Pushed(e)
      /\ \A m \in Pushed(e) : m \in Pushed(e)' \/ m = move
      /\ stored => move \in Pushed(e)
  BY HeadGoes
<1>3. \A f \in Editors : ToPush(f)' = ToPush(f) /\ ToTell(f)' = ToTell(f) /\ Replies(f)' = Replies(f)
  BY SameToPush, SameJobMoves DEF SamePosts, SameJobs
<1>4. Gives(e, move) /\ (stored => move \in Arriving(e) \cup Replies(e))
  BY <1>2, <1>3 DEF Gives, Arriving
<1>5. QED
  BY <1>1, <1>4, ShownViews

LEMMA DeliverAgrees ==
    ASSUME Types, Types', Agreement, NEW e \in Editors, Deliver(e)
    PROVE  Agreement'
<1>1. /\ doc' = doc /\ undoStack' = undoStack /\ redoStack' = redoStack /\ hasUndo' = hasUndo
      /\ rev' = rev /\ queue' = queue /\ post' = post /\ opening' = opening /\ job' = job
      /\ edits' = edits /\ replays' = replays /\ faults' = faults
      /\ events[e] # <<>> /\ events' = [events EXCEPT ![e] = Tail(@)]
  BY DEF Deliver, kernel, bounds
<1>2. /\ Head(events[e]) \in Changes /\ Head(events[e]) \in Range(events[e])
      /\ Range(events[e]) = Range(events'[e]) \cup {Head(events[e])}
      /\ \A f \in Editors \ {e} : events'[f] = events[f]
  BY <1>1, HeadGoes
<1> PICK event \in Changes : event = Head(events[e])
  BY <1>2
<1> PICK w \in Windows : w = WindowOf[e]
  BY WindowsAssumption
<1>3. /\ event.rev <= rev /\ event.known \in Knowns /\ event.known.rev <= rev
      /\ event.known.rev = rev => event.known.state = State
  BY <1>2 DEF Agreement, Truthful, Fine, Changes
<1>4. /\ Show(e, event.block, event.value, event.rev, event.stored)
      /\ event.stored => SetMirror(w, event.known)
      /\ ~event.stored => mirror' = mirror /\ offMirror' = offMirror /\ heldState' = heldState
  BY DEF Deliver
<1>5. heldView' \in [Editors -> [Blocks -> 0..rev]]
  <2>1. /\ event.block \in Blocks /\ event.value \in Values /\ event.stored \in BOOLEAN
        /\ event.rev \in 0..rev
    BY <1>3 DEF Changes, Types
  <2>2. QED
    BY <1>1, <1>4, <2>1, ShowFacts DEF Agreement
<1>6. mirror' \in [Windows -> States] /\ heldState' \in [Windows -> 0..rev]
  <2>1. CASE event.stored
    BY <1>1, <1>3, <1>4, <2>1, SetMirrorFacts DEF Agreement
  <2>2. CASE ~event.stored
    BY <1>4, <2>2 DEF Agreement, Plain, Held
  <2>3. QED
    BY <2>1, <2>2
<1>7. Plain' /\ Held'
  BY <1>1, <1>5, <1>6 DEF Agreement, Plain, Held
<1>8. Order' /\ LogStep /\ State' = State
  BY <1>1, SameOrder DEF Agreement, State
<1>9. Truthful'
  <2>1. \A f \in Editors : Range(events'[f]) \subseteq Range(events[f])
    BY <1>2
  <2>2. QED
    BY <1>1, <1>8, <2>1, TruthfulKeeps DEF Agreement
<1>10. ViewInv'
  BY <1>1, <1>3, <1>4, <1>7, DeliverViews DEF Agreement
<1>11. \A v \in Windows : (Busy(v)' <=> Busy(v)) /\ (Replied(v)' <=> Replied(v))
  BY <1>1, SameBusy DEF Replied, Unsent
<1>12. \A v \in Windows \ {w} : Comes(v) => Comes(v)'
  <2>1. ASSUME NEW v \in Windows \ {w}, NEW f \in EditorsOf(v) PROVE events'[f] = events[f]
    BY <1>2 DEF EditorsOf
  <2>2. QED
    BY <1>1, <2>1, ComesKeeps
<1>13. (event.stored => event.known.rev # rev) => (Comes(w) => Comes(w)')
  <2>1. ASSUME event.stored => event.known.rev # rev,
               NEW f \in EditorsOf(w), NEW c \in Range(events[f]), c.stored, c.known.rev = rev
        PROVE  c \in Range(events'[f])
    BY <1>2, <2>1 DEF EditorsOf
  <2>2. QED
    BY <1>1, <2>1, ComesKeeps
<1>14. \A v \in Windows : InStep(v)'
  <2>1. CASE event.stored
    BY <1>1, <1>3, <1>4, <1>8, <1>11, <1>12, <1>13, <2>1, SetMirrorInStep DEF Agreement
  <2>2. CASE ~event.stored
    BY <1>1, <1>4, <1>8, <1>11, <1>12, <1>13, <2>2, SameMirrors DEF Agreement
  <2>3. QED
    BY <2>1, <2>2
<1>15. QED
  BY <1>7, <1>8, <1>9, <1>10, <1>14 DEF Agreement
-----------------------------------------------------------------------------
\* What is lost with a connection is counted as held.
LEMMA DropFacts ==
    ASSUME Types, Held, Truthful, NEW e \in Editors, NEW w \in Windows, w = WindowOf[e], Drop(e)
    PROVE  /\ heldView' \in [Editors -> [Blocks -> 0..rev]] /\ heldState' \in [Windows -> 0..rev]
           /\ \A f \in Editors, b \in Blocks : heldView[f][b] <= heldView'[f][b]
           /\ \A c \in Range(events[e]) : c.rev <= heldView'[e][c.block]
           /\ heldState[w] <= heldState'[w]
           /\ \A c \in Range(events[e]) : c.stored => c.known.rev <= heldState'[w]
           /\ \/ heldState'[w] = heldState[w]
              \/ \E c \in Range(events[e]) : c.stored
           /\ \A v \in Windows \ {w} : heldState'[v] = heldState[v]
<1> DEFINE lost == Range(events[e])
           told == {event \in lost : event.stored}
           revs(b) == {heldView[e][b]} \cup {event.rev : event \in {x \in lost : x.block = b}}
           states == {heldState[w]} \cup {event.known.rev : event \in told}
<1>1. /\ heldView' = [heldView EXCEPT ![e] = [b \in Blocks |-> Max(revs(b))]]
      /\ heldState' = [heldState EXCEPT ![w] = Max(states)]
  BY DEF Drop
<1>2. \A c \in lost : c.rev \in 0..rev /\ c.known.rev \in 0..rev /\ c.block \in Blocks
  <2>1. \A c \in lost : c \in Changes
    BY DEF Types, Range
  <2>2. \A c \in lost : c.rev <= rev /\ c.known.rev <= rev
    BY DEF Truthful, Fine
  <2>3. rev \in Nat
    BY DEF Types
  <2>4. QED
    BY <2>1, <2>2, <2>3 DEF Changes, Knowns
<1> HIDE DEF lost
<1>3. ASSUME NEW b \in Blocks
      PROVE  /\ Max(revs(b)) \in 0..rev /\ heldView[e][b] <= Max(revs(b))
             /\ \A c \in lost : c.block = b => c.rev <= Max(revs(b))
  <2>1. revs(b) \in SUBSET (0..rev) /\ revs(b) # {}
    <3>1. heldView[e][b] \in 0..rev
      BY DEF Held
    <3>2. {event.rev : event \in {x \in lost : x.block = b}} \subseteq 0..rev
      BY <1>2
    <3>3. QED
      BY <3>1, <3>2
  <2>2. heldView[e][b] \in revs(b) /\ \A c \in lost : c.block = b => c.rev \in revs(b)
    OBVIOUS
  <2> HIDE DEF revs
  <2>3. Max(revs(b)) \in revs(b) /\ \A x \in revs(b) : x <= Max(revs(b))
    BY <2>1, MaxFacts DEF Types
  <2>4. QED
    BY <2>1, <2>2, <2>3
<1>4. /\ Max(states) \in 0..rev /\ heldState[w] <= Max(states)
      /\ \A c \in lost : c.stored => c.known.rev <= Max(states)
      /\ Max(states) \in states
  <2>1. states \in SUBSET (0..rev) /\ states # {}
    BY <1>2 DEF Held
  <2>2. heldState[w] \in states /\ \A c \in lost : c.stored => c.known.rev \in states
    OBVIOUS
  <2> HIDE DEF states
  <2>3. Max(states) \in states /\ \A x \in states : x <= Max(states)
    BY <2>1, MaxFacts DEF Types
  <2>4. QED
    BY <2>1, <2>2, <2>3
<1>5. Max(states) = heldState[w] \/ \E c \in lost : c.stored
  BY <1>4
<1> HIDE DEF revs, states
<1>6. /\ heldView' \in [Editors -> [Blocks -> 0..rev]]
      /\ \A b \in Blocks : heldView'[e][b] = Max(revs(b))
      /\ \A f \in Editors \ {e} : heldView'[f] = heldView[f]
  <2>1. [b \in Blocks |-> Max(revs(b))] \in [Blocks -> 0..rev]
    BY <1>3
  <2>2. QED
    BY <1>1, <2>1 DEF Held
<1>7. /\ heldState' \in [Windows -> 0..rev] /\ heldState'[w] = Max(states)
      /\ \A v \in Windows \ {w} : heldState'[v] = heldState[v]
  BY <1>1, <1>4 DEF Held
<1>8. \A f \in Editors, b \in Blocks : heldView[f][b] <= heldView'[f][b]
  <2>1. \A f \in Editors, b \in Blocks : heldView[f][b] \in Int
    BY DEF Held, Types
  <2>2. QED
    BY <1>3, <1>6, <2>1
<1>9. \A c \in lost : c.rev <= heldView'[e][c.block]
  BY <1>2, <1>3, <1>6
<1>10. QED
  BY <1>4, <1>5, <1>6, <1>7, <1>8, <1>9 DEF lost

\* A connection that closes: what was on its way through it leaves views wrong.
LEMMA DropViews ==
    ASSUME Types, Types', Held, Held', Truthful, ViewInv, NEW e \in Editors, Drop(e)
    PROVE  ViewInv'
<1>1. /\ doc' = doc /\ rev' = rev /\ queue' = queue /\ post' = post /\ job' = job /\ view' = view
      /\ events' = [events EXCEPT ![e] = <<>>]
      /\ offView' = offView \cup {<<e, event.block>> : event \in Range(events[e])}
  BY DEF Drop, kernel
<1>2. /\ \A f \in Editors, b \in Blocks : heldView[f][b] <= heldView'[f][b]
      /\ \A c \in Range(events[e]) : c.rev <= heldView'[e][c.block]
  BY WindowsAssumption, DropFacts
<1>3. events'[e] = <<>> /\ \A f \in Editors \ {e} : events'[f] = events[f]
  BY <1>1 DEF Types
<1>4. /\ \A f \in Editors \ {e} : Pushed(f)' = Pushed(f)
      /\ Pushed(e)' = {}
      /\ \A m \in Pushed(e) : \E c \in Range(events[e]) : m.block = c.block /\ m.rev = c.rev
  <2>1. \A f \in Editors : Pushed(f)' = {EventMove(c) : c \in {x \in Range(events'[f]) : x.stored}}
    BY DEF Pushed, EventMove, Move
  <2>2. \A f \in Editors \ {e} : Pushed(f)' = Pushed(f)
    BY <1>3, <2>1 DEF Pushed
  <2>3. Range(events'[e]) = {}
    BY <1>3 DEF Range
  <2>4. Pushed(e)' = {}
    BY <2>1, <2>3
  <2>5. \A m \in Pushed(e) : \E c \in Range(events[e]) : m.block = c.block /\ m.rev = c.rev
    BY DEF Pushed, EventMove, Move
  <2>6. QED
    BY <2>2, <2>4, <2>5
<1>5. \A f \in Editors : /\ Unsent(f)' = Unsent(f)
                         /\ \A b \in Blocks : Writes(f, b)' <=> Writes(f, b)
  BY <1>1 DEF Unsent, Writes
<1>6. \A f \in Editors : ToPush(f)' = ToPush(f) /\ ToTell(f)' = ToTell(f) /\ Replies(f)' = Replies(f)
  BY <1>1, SameToPush, SameJobMoves DEF SamePosts, SameJobs
<1>7. /\ \A f \in Editors : Arriving(f)' \subseteq Arriving(f) /\ Replies(f)' \subseteq Replies(f)
      /\ \A f \in Editors \ {e} : Arriving(f)' = Arriving(f)
      /\ \A m \in Arriving(e) \ Arriving(e)' :
            \E c \in Range(events[e]) : m.block = c.block /\ m.rev = c.rev
  BY <1>4, <1>6 DEF Arriving
<1>8. ShowsOwn'
  <2>1. \A f \in Editors, b \in Blocks : <<f, b>> \notin offView' /\ Writes(f, b) =>
          <<f, b>> \notin offView /\ view'[f][b] = view[f][b]
    BY <1>1
  <2>2. \A f \in Editors :
          /\ Unsent(f)' \subseteq Unsent(f)
          /\ \A old \in Unsent(f) \ Unsent(f)' : \A other \in Unsent(f)' : old.id < other.id
    BY <1>5
  <2>3. QED
    BY <2>1, <2>2, OwnKeeps DEF ViewInv
<1>9. ASSUME NEW f \in Editors, NEW b \in Blocks, <<f, b>> \notin offView'
      PROVE  Writes(f, b)' \/ Untouched(f, b)
  <2>1. \A m \in Arriving(f) \cup Replies(f) : m.block = b => m \in (Arriving(f) \cup Replies(f))'
    <3>1. CASE f = e
      <4>1. \A c \in Range(events[e]) : c.block # b
        BY <1>1, <1>9, <3>1
      <4>2. QED
        BY <1>6, <1>7, <3>1, <4>1
    <3>2. CASE f # e
      BY <1>6, <1>7, <3>2
    <3>3. QED
      BY <3>1, <3>2
  <2>2. <<f, b>> \notin offView /\ view'[f][b] = view[f][b]
    BY <1>1, <1>9
  <2>3. QED
    BY <1>5, <2>1, <2>2 DEF Untouched
<1>10. \A f \in Editors : \A m \in Arriving(f) \ Arriving(f)' : m.rev <= heldView'[f][m.block]
  <2>1. ASSUME NEW m \in Arriving(e) \ Arriving(e)' PROVE m.rev <= heldView'[e][m.block]
    <3>1. PICK c \in Range(events[e]) : m.block = c.block /\ m.rev = c.rev
      BY <1>7
    <3>2. QED
      BY <1>2, <3>1
  <2>2. QED
    BY <1>7, <2>1
<1>11. ASSUME NEW b \in Blocks PROVE \E m \in 0..rev' : LastChange(b, m)'
  <2>1. PICK m \in 0..rev : LastChange(b, m)
    BY DEF ViewInv
  <2>2. LastChange(b, m)'
    BY <1>1, <1>2, <1>7, <1>9, <1>10, <2>1, ViewsKeep
  <2>3. QED
    BY <1>1, <2>2
<1>12. QED
  BY <1>8, <1>11 DEF ViewInv

LEMMA DropAgrees ==
    ASSUME Types, Types', Agreement, NEW e \in Editors, Drop(e)
    PROVE  Agreement'
<1> PICK w \in Windows : w = WindowOf[e]
  BY WindowsAssumption
<1>1. /\ doc' = doc /\ undoStack' = undoStack /\ redoStack' = redoStack /\ hasUndo' = hasUndo
      /\ rev' = rev /\ queue' = queue /\ post' = post /\ opening' = opening /\ job' = job
      /\ edits' = edits /\ replays' = replays /\ mirror' = mirror /\ view' = view
      /\ events' = [events EXCEPT ![e] = <<>>]
      /\ offMirror' = IF {event \in Range(events[e]) : event.stored} = {} THEN offMirror
                      ELSE offMirror \cup {w}
  BY DEF Drop, kernel
<1>2. /\ heldView' \in [Editors -> [Blocks -> 0..rev]] /\ heldState' \in [Windows -> 0..rev]
      /\ heldState[w] <= heldState'[w]
      /\ \A c \in Range(events[e]) : c.stored => c.known.rev <= heldState'[w]
      /\ \/ heldState'[w] = heldState[w]
         \/ \E c \in Range(events[e]) : c.stored
      /\ \A v \in Windows \ {w} : heldState'[v] = heldState[v]
  BY DropFacts DEF Agreement
<1>3. events'[e] = <<>> /\ \A f \in Editors \ {e} : events'[f] = events[f]
  BY <1>1 DEF Types
<1>4. faults' \in 0..MaxFaults
  BY FaultCounted DEF Drop, Agreement
<1>5. Plain' /\ Held'
  BY <1>1, <1>2, <1>4 DEF Agreement, Plain, Held
<1>6. Order' /\ LogStep /\ State' = State
  BY <1>1, SameOrder DEF Agreement, State
<1>7. Truthful'
  <2>1. Range(events'[e]) = {}
    BY <1>3 DEF Range
  <2>2. \A f \in Editors : Range(events'[f]) \subseteq Range(events[f])
    BY <1>3, <2>1
  <2>3. QED
    BY <1>1, <1>6, <2>2, TruthfulKeeps DEF Agreement
<1>8. ViewInv'
  BY <1>5, DropViews DEF Agreement
<1>9. \A v \in Windows : (Busy(v)' <=> Busy(v)) /\ (Replied(v)' <=> Replied(v))
  BY <1>1, SameBusy DEF Replied, Unsent
<1>10. ASSUME NEW v \in Windows \ {w} PROVE InStep(v)'
  <2>1. \A f \in EditorsOf(v) : events'[f] = events[f]
    BY <1>3 DEF EditorsOf
  <2>2. Comes(v) => Comes(v)'
    BY <1>1, <2>1, ComesKeeps
  <2>3. QED
    BY <1>1, <1>2, <1>6, <1>9, <2>2, SameMirrors DEF Agreement
<1>11. InStep(w)'
  <2>1. (\A c \in Range(events[e]) : c.stored => c.known.rev # rev) => (Comes(w) => Comes(w)')
    <3>1. ASSUME \A c \in Range(events[e]) : c.stored => c.known.rev # rev,
                 NEW f \in EditorsOf(w), NEW c \in Range(events[f]), c.stored, c.known.rev = rev
          PROVE  c \in Range(events'[f])
      BY <1>3, <3>1 DEF EditorsOf
    <3>2. QED
      BY <1>1, <3>1, ComesKeeps
  <2>2. rev <= heldState'[w] => heldState'[w] = rev
    <3>1. heldState'[w] \in 0..rev /\ rev \in Nat
      BY <1>2 DEF Types
    <3>2. QED
      BY <3>1
  <2>3. heldState[w] = rev => heldState'[w] = rev
    BY <1>2, <2>2, Zenon
  <2>4. Comes(w) => Comes(w)' \/ heldState'[w] = rev
    <3>1. CASE \A c \in Range(events[e]) : c.stored => c.known.rev # rev
      BY <2>1, <3>1
    <3>2. ASSUME NEW c \in Range(events[e]), c.stored, c.known.rev = rev PROVE heldState'[w] = rev
      BY <1>2, <2>2, <3>2, Zenon
    <3>3. QED
      BY <3>1, <3>2
  <2>5. w \notin offMirror' => LeftAs(w)
    <3>1. SUFFICES ASSUME w \notin offMirror' PROVE LeftAs(w)
      OBVIOUS
    <3>2. \A c \in Range(events[e]) : ~c.stored
      BY <1>1, <3>1
    <3>3. QED
      BY <1>1, <1>2, <1>9, <2>1, <3>1, <3>2 DEF LeftAs
  <2>6. QED
    BY <1>1, <1>6, <2>3, <2>4, <2>5, MirrorsKeep DEF Agreement
<1>12. QED
  BY <1>5, <1>6, <1>7, <1>8, <1>10, <1>11 DEF Agreement
-----------------------------------------------------------------------------
\* What a replay does: an edit moves from one stack to the other, and is to be pushed.
Moved(w, ed, kind, op) ==
    /\ WindowOf[ed] = w /\ Stack(kind) # <<>> /\ op = Last(Stack(kind))
    /\ job[w] \in Asked /\ job[w].step = "post"
    /\ job'[w].step = "push" /\ job'[w].kind = kind /\ job'[w].ed = ed /\ job[w].ed = ed
    /\ job'[w].answer.op = op /\ job'[w].answer.rev = rev + 1
    /\ \A v \in Windows \ {w} : job'[v] = job[v]
    /\ undoStack' = IF kind = "undo" THEN Front(undoStack) ELSE Append(undoStack, op)
    /\ redoStack' = IF kind = "undo" THEN Append(redoStack, op) ELSE Front(redoStack)
    /\ hasUndo' = (hasUndo \/ kind = "undo")
    /\ doc' = [doc EXCEPT ![op.block] = Value(kind, op)] /\ rev' = rev + 1
    /\ heldView' = [heldView EXCEPT ![ed][op.block] = rev + 1]
    /\ heldState' = [heldState EXCEPT ![w] = rev + 1]
    /\ UNCHANGED <<view, queue, post, events, mirror, opening, bounds, offView, offMirror>>

LEMMA ReplayMoves ==
    ASSUME Types, Plain, NEW w \in Windows, Replay(w)
    PROVE  \E ed \in Editors, kind \in Kinds, op \in Ops : Moved(w, ed, kind, op)
<1>1. job[w] \in Asked /\ job[w].step = "post" /\ Stack(job[w].kind) # <<>>
  BY HasAsked DEF Replay
<1>2. job[w].kind \in Kinds /\ job[w].ed \in Editors /\ WindowOf[job[w].ed] = w
  BY <1>1 DEF Asked, Plain
<1> PICK ed \in Editors, kind \in Kinds : ed = job[w].ed /\ kind = job[w].kind
  BY <1>2
<1>3. Last(Stack(kind)) \in Ops
  <2>1. Stack(kind) \in Seq(Ops) /\ Stack(kind) # <<>>
    BY <1>1 DEF Stack, Types
  <2>2. \E x : x \in Ops
    BY <2>1
  <2>3. QED
    BY <2>1, <2>2, Ends
<1> PICK op \in Ops : op = Last(Stack(kind))
  BY <1>3
<1>4. job' = [job EXCEPT ![w].step = "push", ![w].answer = [op |-> op, rev |-> rev + 1]]
  BY DEF Replay
<1>5. job'[w] = [job[w] EXCEPT !.step = "push", !.answer = [op |-> op, rev |-> rev + 1]]
  BY <1>4 DEF Types
<1>6. \A v \in Windows \ {w} : job'[v] = job[v]
  BY <1>4 DEF Types
<1>7. /\ job'[w].step = "push" /\ job'[w].kind = kind /\ job'[w].ed = ed
      /\ job'[w].answer = [op |-> op, rev |-> rev + 1]
  BY <1>1, <1>5 DEF Asked
<1>8. job'[w].answer.op = op /\ job'[w].answer.rev = rev + 1
  BY <1>7
<1>9. Moved(w, ed, kind, op)
  BY <1>1, <1>2, <1>6, <1>7, <1>8 DEF Replay, Moved
<1>10. QED
  BY <1>9

\* It stays apart from the other edits.
LEMMA MovedOrder ==
    ASSUME Types, Order, NEW w \in Windows, NEW ed \in Editors, NEW kind \in Kinds, NEW op \in Ops,
           Moved(w, ed, kind, op)
    PROVE  Order'
<1>1. /\ Stack(kind) # <<>> /\ op = Last(Stack(kind))
      /\ undoStack' = IF kind = "undo" THEN Front(undoStack) ELSE Append(undoStack, op)
      /\ redoStack' = IF kind = "undo" THEN Append(redoStack, op) ELSE Front(redoStack)
      /\ queue' = queue /\ post' = post /\ edits' = edits
  BY DEF Moved, bounds
<1>2. /\ undoStack \in Seq(Ops) /\ redoStack \in Seq(Ops) /\ Once(undoStack) /\ Once(redoStack)
      /\ Ids(undoStack) \cap Ids(redoStack) = {}
  BY DEF Types, Order, Apart
<1>3. /\ Once(undoStack') /\ Once(redoStack') /\ Ids(undoStack') \cap Ids(redoStack') = {}
      /\ Logged' = Logged
  <2>1. CASE kind = "undo"
    <3>1. undoStack # <<>> /\ op = Last(undoStack)
      BY <1>1, <2>1 DEF Stack
    <3>2. /\ op.id \in Ids(undoStack) /\ Once(undoStack') /\ Ids(undoStack') = Ids(undoStack) \ {op.id}
      BY <1>1, <1>2, <2>1, <3>1, StackPop
    <3>3. op.id \notin Ids(redoStack)
      BY <1>2, <3>2
    <3>4. Once(redoStack') /\ Ids(redoStack') = Ids(redoStack) \cup {op.id}
      BY <1>1, <1>2, <2>1, <3>3, StackPush
    <3>5. QED
      BY <1>2, <3>2, <3>4 DEF Logged
  <2>2. CASE kind # "undo"
    <3>1. redoStack # <<>> /\ op = Last(redoStack)
      BY <1>1, <2>2 DEF Stack
    <3>2. /\ op.id \in Ids(redoStack) /\ Once(redoStack') /\ Ids(redoStack') = Ids(redoStack) \ {op.id}
      BY <1>1, <1>2, <2>2, <3>1, StackPop
    <3>3. op.id \notin Ids(undoStack)
      BY <1>2, <3>2
    <3>4. Once(undoStack') /\ Ids(undoStack') = Ids(undoStack) \cup {op.id}
      BY <1>1, <1>2, <2>2, <3>3, StackPush
    <3>5. QED
      BY <1>2, <3>2, <3>4 DEF Logged
  <2>3. QED
    BY <2>1, <2>2
<1>4. \A e \in Editors : Unsent(e)' = Unsent(e) /\ Pending(e)' = Pending(e)
  BY <1>1 DEF Unsent, Pending
<1>5. Apart'
  BY <1>1, <1>3, <1>4 DEF Order, Apart
<1>6. \A e \in Editors : InLine(e)'
  BY <1>1, <1>4 DEF Order, InLine
<1>7. QED
  BY <1>5, <1>6 DEF Order

\* The change is on its way: to the other editors, and to its own if it is of several documents.
LEMMA MovedArrives ==
    ASSUME Types, NEW w \in Windows, NEW ed \in Editors, NEW kind \in Kinds, NEW op \in Ops,
           Moved(w, ed, kind, op), NEW change, change = Move(op.block, Value(kind, op), rev + 1),
           NEW e \in Editors
    PROVE  /\ Arriving(e) \subseteq Arriving(e)' /\ Arriving(e)' \subseteq Arriving(e) \cup {change}
           /\ Replies(e) \subseteq Replies(e)' /\ Replies(e)' \subseteq Replies(e) \cup {change}
           /\ e # ed => change \in Arriving(e)'
           /\ change \in (Arriving(e) \cup Replies(e))'
<1>1. /\ job'[w].step = "push" /\ job'[w].kind = kind /\ job'[w].ed = ed /\ job[w].step = "post"
      /\ job'[w].answer.op = op /\ job'[w].answer.rev = rev + 1
      /\ \A v \in Windows \ {w} : job'[v] = job[v]
      /\ events' = events /\ post' = post
  BY DEF Moved
<1>2. ReplayMove(w)' = change
  BY <1>1 DEF ReplayMove, Move, Value
<1>3. \A v \in Windows \ {w} : ReplayMove(v)' = ReplayMove(v) /\ (Reaches(v, e)' <=> Reaches(v, e))
  BY <1>1 DEF ReplayMove, Reaches, Move, Value, Cross
<1>4. Pushed(e)' = Pushed(e) /\ ToPush(e)' = ToPush(e)
  BY <1>1, SamePushed, SameToPush DEF SamePosts
<1>5. Answered(e)' = Answered(e)
  <2>1. \A v \in Windows : job'[v].step = "answer" \/ job[v].step = "answer" => job'[v] = job[v]
    BY <1>1
  <2>2. {v \in Windows : job'[v].step = "answer" /\ job'[v].ed = e /\ job'[v].answer.told = "done"} =
        {v \in Windows : job[v].step = "answer" /\ job[v].ed = e /\ job[v].answer.told = "done"}
    BY <2>1
  <2>3. \A v \in Windows : job'[v] = job[v] =>
            EventMove(job[v].answer.change)' = EventMove(job[v].answer.change)
    BY DEF EventMove, Move
  <2>4. QED
    BY <2>1, <2>2, <2>3 DEF Answered
<1>6. CASE Reaches(w, e)'
  <2>1. {v \in Windows : job'[v].step = "push" /\ Reaches(v, e)'} =
        {v \in Windows : job[v].step = "push" /\ Reaches(v, e)} \cup {w}
    BY <1>1, <1>3, <1>6
  <2>2. {v \in Windows : job'[v].step = "push" /\ ~Reaches(v, e)'} =
        {v \in Windows : job[v].step = "push" /\ ~Reaches(v, e)}
    BY <1>1, <1>3, <1>6
  <2>3. ToTell(e)' = ToTell(e) \cup {change} /\ ToAnswer(e)' = ToAnswer(e)
    BY <1>1, <1>2, <1>3, <2>1, <2>2 DEF ToTell, ToAnswer
  <2>4. QED
    BY <1>4, <1>5, <2>3 DEF Arriving, Replies
<1>7. CASE ~Reaches(w, e)'
  <2>1. {v \in Windows : job'[v].step = "push" /\ Reaches(v, e)'} =
        {v \in Windows : job[v].step = "push" /\ Reaches(v, e)}
    BY <1>1, <1>3, <1>7
  <2>2. {v \in Windows : job'[v].step = "push" /\ ~Reaches(v, e)'} =
        {v \in Windows : job[v].step = "push" /\ ~Reaches(v, e)} \cup {w}
    BY <1>1, <1>3, <1>7
  <2>3. ToTell(e)' = ToTell(e) /\ ToAnswer(e)' = ToAnswer(e) \cup {change} /\ e = ed
    BY <1>1, <1>2, <1>3, <1>7, <2>1, <2>2 DEF ToTell, ToAnswer, Reaches
  <2>4. QED
    BY <1>4, <1>5, <2>3 DEF Arriving, Replies
<1>8. QED
  BY <1>6, <1>7

LEMMA ReplayAgrees ==
    ASSUME Types, Types', Agreement, NEW w \in Windows, Replay(w)
    PROVE  Agreement'
<1>1. \E ed \in Editors, kind \in Kinds, op \in Ops : Moved(w, ed, kind, op)
  BY ReplayMoves DEF Agreement
<1> PICK ed \in Editors, kind \in Kinds, op \in Ops : Moved(w, ed, kind, op)
  BY <1>1
<1>2. /\ WindowOf[ed] = w /\ job[w] \in Asked /\ job[w].ed = ed /\ job[w].step = "post"
      /\ job'[w].step = "push" /\ job'[w].ed = ed
      /\ job'[w].answer.op = op /\ job'[w].answer.rev = rev + 1
      /\ \A v \in Windows \ {w} : job'[v] = job[v]
  BY DEF Moved
<1>3. /\ view' = view /\ rev' = rev + 1 /\ queue' = queue /\ post' = post /\ events' = events
      /\ mirror' = mirror /\ opening' = opening /\ edits' = edits /\ replays' = replays
      /\ faults' = faults /\ offView' = offView /\ offMirror' = offMirror
      /\ doc' = [doc EXCEPT ![op.block] = Value(kind, op)]
      /\ heldView' = [heldView EXCEPT ![ed][op.block] = rev + 1]
      /\ heldState' = [heldState EXCEPT ![w] = rev + 1]
      /\ hasUndo' = (hasUndo \/ kind = "undo")
  BY DEF Moved, bounds
<1>4. op.block \in Blocks /\ Value(kind, op) \in Values
  BY BoundsAssumption DEF Ops, EditIds, Values, Value
<1>5. Held'
  BY <1>3, <1>4, HeldGrows DEF Agreement
<1>6. Plain'
  <2>1. hasUndo' \in BOOLEAN
    BY <1>3, Zenon
  <2>2. SamePlace(w)
    BY <1>2 DEF SamePlace
  <2>3. \A v \in Windows : job'[v] \in Asked => WindowOf[job'[v].ed] = v
    BY <1>2, <2>2, PlacesKeep DEF Agreement
  <2>4. QED
    BY <1>3, <1>4, <2>1, <2>3 DEF Agreement, Plain
<1>7. Order'
  BY MovedOrder DEF Agreement
<1>8. Truthful'
  <2>1. LogStep /\ rev' \in Nat
    BY <1>3 DEF LogStep, Types
  <2>2. \A v \in Windows :
          \/ job'[v] = job[v]
          \/ /\ job'[v].step = "push" => job'[v].answer.rev <= rev'
             /\ job'[v].step = "answer" /\ job'[v].answer.told \in Stored =>
                   Fine(job'[v].answer.change, rev', State')
    BY <1>2, <1>3, <2>1
  <2>3. QED
    BY <1>3, <2>1, <2>2, TruthfulKeeps DEF Agreement
<1>9. \A e \in Editors : /\ Unsent(e)' = Unsent(e)
                         /\ \A b \in Blocks : Writes(e, b)' <=> Writes(e, b)
  BY <1>3 DEF Unsent, Writes
<1>10. ViewInv'
  <2>1. ShowsOwn'
    BY <1>3, <1>9 DEF Agreement, ViewInv, ShowsOwn
  <2>2. PICK change : change = Move(op.block, Value(kind, op), rev + 1)
    OBVIOUS
  <2>3. Spreads(change, ed, op.block) /\ change \in (Arriving(ed) \cup Replies(ed))'
    BY <1>9, <2>2, MovedArrives DEF Spreads
  <2> PICK value \in Values : value = Value(kind, op)
    BY <1>4
  <2>4. change = Move(op.block, value, rev + 1) /\ doc' = [doc EXCEPT ![op.block] = value]
    BY <1>3, <2>2
  <2>5. ASSUME NEW b \in Blocks PROVE \E m \in 0..rev' : LastChange(b, m)'
    <3>1. PICK n \in 0..rev : LastChange(b, n)
      BY DEF Agreement, ViewInv
    <3>2. QED
      BY <1>3, <1>4, <1>5, <2>3, <2>4, <3>1, ViewsGain DEF Agreement, Plain
  <2>6. QED
    BY <2>1, <2>5 DEF ViewInv
<1>11. ASSUME NEW v \in Windows PROVE InStep(v)'
  <2>1. Busy(v)' <=> Busy(v)
    BY <1>9, SameBusy
  <2>2. ASSUME v # w PROVE Comes(v)'
    <3>1. PICK f \in Editors : WindowOf[f] = v
      BY WindowsAssumption
    <3>2. f \in EditorsOf(v)' /\ Reaches(w, f)'
      BY <1>2, <2>2, <3>1 DEF EditorsOf, Reaches
    <3>3. QED
      BY <1>2, <3>2 DEF Comes
  <2>3. Replied(w)'
    BY <1>2 DEF Replied
  <2>4. QED
    BY <1>3, <2>1, <2>2, <2>3, MirrorsGain DEF Agreement
<1>12. QED
  BY <1>5, <1>6, <1>7, <1>8, <1>10, <1>11 DEF Agreement
-----------------------------------------------------------------------------
\* What the push of a replay does: the change is on its way to those it is to reach.
Spoken(w, change) ==
    /\ job[w].step = "push" /\ job[w] \in Asked
    /\ job'[w].step = "answer" /\ job'[w].ed = job[w].ed
    /\ job'[w].answer.change = change
    /\ job'[w].answer.told = IF Cross(job[w].answer.op) THEN "elsewhere" ELSE "done"
    /\ \A v \in Windows \ {w} : job'[v] = job[v]
    /\ Tell({f \in Editors : Reaches(w, f)}, change)
    /\ EventMove(change) = ReplayMove(w) /\ change.rev = job[w].answer.rev
    /\ change.stored /\ change.known.rev = rev /\ change.known.state = State
    /\ UNCHANGED <<kernel, view, queue, post, mirror, opening, bounds, history>>

LEMMA PushReplaySpeaks ==
    ASSUME Types, NEW w \in Windows, PushReplay(w)
    PROVE  \E change \in Changes : Spoken(w, change)
<1> DEFINE op == job[w].answer.op
           told == [block |-> op.block, value |-> Value(job[w].kind, op),
                    rev |-> job[w].answer.rev, stored |-> TRUE, known |-> Known(State)]
           word == IF Cross(op) THEN "elsewhere" ELSE "done"
           answer == [told |-> word, change |-> told]
<1>1. job[w].step = "push" /\ job[w] \in Asked
  BY HasAsked DEF PushReplay
<1>2. op \in Ops /\ job[w].answer.rev \in Nat /\ job[w].kind \in Kinds
  BY <1>1 DEF Types, Asked
<1>3. Value(job[w].kind, op) \in Values /\ op.block \in Blocks
  BY <1>2, BoundsAssumption DEF Value, Values, Ops, EditIds
<1>4. told \in Changes
  BY <1>2, <1>3, KnownTypes DEF Changes
<1>5. /\ EventMove(told) = ReplayMove(w) /\ told.rev = job[w].answer.rev
      /\ told.stored /\ told.known.rev = rev /\ told.known.state = State
  BY DEF EventMove, ReplayMove, Known
<1>6. /\ Tell(IF Cross(op) THEN Editors ELSE Others(job[w].ed), told)
      /\ job' = [job EXCEPT ![w].step = "answer", ![w].answer = answer]
  BY DEF PushReplay, Answer
<1>7. (IF Cross(op) THEN Editors ELSE Others(job[w].ed)) = {f \in Editors : Reaches(w, f)}
  BY DEF Reaches, Others
<1>8. answer.told = word /\ answer.change = told
  OBVIOUS
<1> HIDE DEF told, answer
<1>9. /\ job'[w].step = "answer" /\ job'[w].ed = job[w].ed /\ job'[w].answer = answer
      /\ \A v \in Windows \ {w} : job'[v] = job[v]
  <2>1. job'[w] = [job[w] EXCEPT !.step = "answer", !.answer = answer]
    BY <1>6 DEF Types
  <2>2. job'[w].step = "answer" /\ job'[w].ed = job[w].ed /\ job'[w].answer = answer
    BY <1>1, <2>1 DEF Asked
  <2>3. QED
    BY <1>6, <2>2 DEF Types
<1>10. Spoken(w, told)
  BY <1>1, <1>5, <1>6, <1>7, <1>8, <1>9 DEF PushReplay, Spoken
<1>11. QED
  BY <1>4, <1>10

\* What is on its way stays on its way.
LEMMA SpokenArrives ==
    ASSUME Types, NEW w \in Windows, NEW change \in Changes, Spoken(w, change), NEW e \in Editors
    PROVE  Arriving(e)' = Arriving(e) /\ Replies(e)' = Replies(e)
<1>1. /\ job[w].step = "push" /\ job'[w].step = "answer" /\ job'[w].ed = job[w].ed
      /\ job'[w].answer.change = change
      /\ job'[w].answer.told = IF Cross(job[w].answer.op) THEN "elsewhere" ELSE "done"
      /\ \A v \in Windows \ {w} : job'[v] = job[v]
      /\ Tell({f \in Editors : Reaches(w, f)}, change)
      /\ EventMove(change) = ReplayMove(w) /\ change.stored /\ post' = post
  BY DEF Spoken
<1>2. ToPush(e)' = ToPush(e)
  BY <1>1, SameToPush DEF SamePosts
<1>3. \A v \in Windows \ {w} : ReplayMove(v)' = ReplayMove(v) /\ (Reaches(v, e)' <=> Reaches(v, e))
  BY <1>1 DEF ReplayMove, Reaches, Move, Value, Cross
<1>4. /\ ToTell(e)' = {ReplayMove(v) : v \in {x \in Windows \ {w} : job[x].step = "push" /\ Reaches(x, e)}}
      /\ ToAnswer(e)' = {ReplayMove(v) : v \in {x \in Windows \ {w} : job[x].step = "push" /\ ~Reaches(x, e)}}
  <2>1. /\ {v \in Windows : job'[v].step = "push" /\ Reaches(v, e)'} =
           {v \in Windows \ {w} : job[v].step = "push" /\ Reaches(v, e)}
        /\ {v \in Windows : job'[v].step = "push" /\ ~Reaches(v, e)'} =
           {v \in Windows \ {w} : job[v].step = "push" /\ ~Reaches(v, e)}
    BY <1>1, <1>3
  <2>2. /\ ToTell(e)' = {ReplayMove(v)' : v \in {x \in Windows \ {w} : job[x].step = "push" /\ Reaches(x, e)}}
        /\ ToAnswer(e)' = {ReplayMove(v)' : v \in {x \in Windows \ {w} : job[x].step = "push" /\ ~Reaches(x, e)}}
    BY <2>1 DEF ToTell, ToAnswer
  <2>3. QED
    BY <1>3, <2>2
<1>5. \A v \in Windows \ {w} :
         EventMove(job[v].answer.change)' = EventMove(job[v].answer.change)
  BY <1>1 DEF EventMove, Move
<1>6. EventMove(job[w].answer.change)' = EventMove(change)
  BY <1>1 DEF EventMove, Move
<1>7. CASE Reaches(w, e)
  <2>1. {v \in Windows : job[v].step = "push" /\ Reaches(v, e)} =
        {v \in Windows \ {w} : job[v].step = "push" /\ Reaches(v, e)} \cup {w}
    BY <1>1, <1>7
  <2>2. {v \in Windows : job[v].step = "push" /\ ~Reaches(v, e)} =
        {v \in Windows \ {w} : job[v].step = "push" /\ ~Reaches(v, e)}
    BY <1>7
  <2>3. ToTell(e) = ToTell(e)' \cup {ReplayMove(w)} /\ ToAnswer(e)' = ToAnswer(e)
    BY <1>4, <2>1, <2>2 DEF ToTell, ToAnswer
  <2>4. Pushed(e)' = Pushed(e) \cup {ReplayMove(w)}
    BY <1>1, <1>7, TellPushes
  <2>5. ~(job'[w].ed = e /\ job'[w].answer.told = "done")
    BY <1>1, <1>7 DEF Reaches
  <2>6. Answered(e)' = Answered(e)
    <3>1. {v \in Windows : job'[v].step = "answer" /\ job'[v].ed = e /\ job'[v].answer.told = "done"} =
          {v \in Windows : job[v].step = "answer" /\ job[v].ed = e /\ job[v].answer.told = "done"}
      BY <1>1, <2>5
    <3>2. {v \in Windows : job[v].step = "answer" /\ job[v].ed = e /\ job[v].answer.told = "done"}
          \subseteq Windows \ {w}
      BY <1>1
    <3>3. QED
      BY <1>5, <3>1, <3>2 DEF Answered
  <2>7. QED
    BY <1>2, <2>3, <2>4, <2>6 DEF Arriving, Replies
<1>8. CASE ~Reaches(w, e)
  <2>1. {v \in Windows : job[v].step = "push" /\ ~Reaches(v, e)} =
        {v \in Windows \ {w} : job[v].step = "push" /\ ~Reaches(v, e)} \cup {w}
    BY <1>1, <1>8
  <2>2. {v \in Windows : job[v].step = "push" /\ Reaches(v, e)} =
        {v \in Windows \ {w} : job[v].step = "push" /\ Reaches(v, e)}
    BY <1>8
  <2>3. ToAnswer(e) = ToAnswer(e)' \cup {ReplayMove(w)} /\ ToTell(e)' = ToTell(e)
    BY <1>4, <2>1, <2>2 DEF ToTell, ToAnswer
  <2>4. Pushed(e)' = Pushed(e)
    BY <1>1, <1>8, TellPushes
  <2>5. job'[w].ed = e /\ job'[w].answer.told = "done"
    BY <1>1, <1>8 DEF Reaches
  <2>6. Answered(e)' = Answered(e) \cup {ReplayMove(w)}
    <3>1. {v \in Windows : job'[v].step = "answer" /\ job'[v].ed = e /\ job'[v].answer.told = "done"} =
          {v \in Windows : job[v].step = "answer" /\ job[v].ed = e /\ job[v].answer.told = "done"} \cup {w}
      BY <1>1, <2>5
    <3>2. {v \in Windows : job[v].step = "answer" /\ job[v].ed = e /\ job[v].answer.told = "done"}
          \subseteq Windows \ {w}
      BY <1>1
    <3>3. QED
      BY <1>1, <1>5, <1>6, <3>1, <3>2 DEF Answered
  <2>7. QED
    BY <1>2, <2>3, <2>4, <2>6 DEF Arriving, Replies
<1>9. QED
  BY <1>7, <1>8

LEMMA PushReplayAgrees ==
    ASSUME Types, Types', Agreement, NEW w \in Windows, PushReplay(w)
    PROVE  Agreement'
<1>1. \E change \in Changes : Spoken(w, change)
  BY PushReplaySpeaks
<1> PICK change \in Changes : Spoken(w, change)
  BY <1>1
<1>2. /\ job[w].step = "push" /\ job[w] \in Asked
      /\ job'[w].step = "answer" /\ job'[w].ed = job[w].ed /\ job'[w].answer.change = change
      /\ job'[w].answer.told \in Stored
      /\ \A v \in Windows \ {w} : job'[v] = job[v]
      /\ Tell({f \in Editors : Reaches(w, f)}, change)
      /\ change.rev = job[w].answer.rev
      /\ change.stored /\ change.known.rev = rev /\ change.known.state = State
  BY DEF Spoken, Stored
<1>3. /\ doc' = doc /\ undoStack' = undoStack /\ redoStack' = redoStack /\ hasUndo' = hasUndo
      /\ rev' = rev /\ view' = view /\ queue' = queue /\ post' = post /\ mirror' = mirror
      /\ opening' = opening /\ edits' = edits /\ replays' = replays /\ faults' = faults
      /\ heldView' = heldView /\ heldState' = heldState /\ offView' = offView
      /\ offMirror' = offMirror
  BY DEF Spoken, kernel, bounds, history
<1>4. Plain' /\ Held'
  <2>1. SamePlace(w)
    BY <1>2 DEF SamePlace
  <2>2. \A v \in Windows : job'[v] \in Asked => WindowOf[job'[v].ed] = v
    BY <1>2, <2>1, PlacesKeep DEF Agreement
  <2>3. QED
    BY <1>3, <2>2 DEF Agreement, Plain, Held
<1>5. Order' /\ LogStep /\ State' = State
  BY <1>3, SameOrder DEF Agreement, State
<1>6. \A f \in Editors : /\ Reaches(w, f) => Range(events'[f]) = Range(events[f]) \cup {change}
                         /\ ~Reaches(w, f) => events'[f] = events[f]
  BY <1>2, TellPushes
<1>7. Truthful'
  <2>1. Fine(change, rev', State')
    <3>1. change.rev <= rev /\ rev \in Nat
      BY <1>2 DEF Agreement, Truthful, Types
    <3>2. QED
      BY <1>2, <1>3, <1>5, <3>1 DEF Fine
  <2>2. \A f \in Editors : \A c \in Range(events'[f]) : c \in Range(events[f]) \/ Fine(c, rev', State')
    BY <1>6, <2>1
  <2>3. \A v \in Windows :
          \/ job'[v] = job[v]
          \/ /\ job'[v].step = "push" => job'[v].answer.rev <= rev'
             /\ job'[v].step = "answer" /\ job'[v].answer.told \in Stored =>
                   Fine(job'[v].answer.change, rev', State')
    BY <1>2, <2>1
  <2>4. QED
    BY <1>3, <1>5, <2>2, <2>3, TruthfulKeeps DEF Agreement
<1>8. \A f \in Editors : Unsent(f)' = Unsent(f)
  BY <1>3 DEF Unsent
<1>9. ViewInv'
  BY <1>3, <1>8, SpokenArrives, SameViews DEF Agreement
<1>10. ASSUME NEW v \in Windows PROVE InStep(v)'
  <2>1. Busy(v)' <=> Busy(v)
    BY <1>8, SameBusy
  <2>2. Replied(v) => Replied(v)'
    <3>1. CASE v = w
      BY <1>2, <1>3, <3>1 DEF Replied
    <3>2. CASE v # w
      BY <1>2, <1>3, <3>2 DEF Replied
    <3>3. QED
      BY <3>1, <3>2
  <2>3. ASSUME Comes(v) PROVE Comes(v)'
    <3>1. PICK f \in EditorsOf(v) :
            \/ \E c \in Range(events[f]) : c.stored /\ c.known.rev = rev
            \/ \E g \in Others(f) : post[g].step = "done" /\ post[g].stored
            \/ \E u \in Windows : job[u].step = "push" /\ Reaches(u, f)
      BY <2>3 DEF Comes
    <3>2. f \in Editors /\ f \in EditorsOf(v)' /\ Others(f)' = Others(f)
      BY DEF EditorsOf, Others
    <3>3. CASE \E c \in Range(events[f]) : c.stored /\ c.known.rev = rev
      <4>1. Range(events[f]) \subseteq Range(events'[f])
        BY <1>6, <3>2
      <4>2. QED
        BY <1>3, <3>2, <3>3, <4>1 DEF Comes
    <3>4. CASE \E g \in Others(f) : post[g].step = "done" /\ post[g].stored
      BY <1>3, <3>2, <3>4 DEF Comes
    <3>5. ASSUME NEW u \in Windows, job[u].step = "push", Reaches(u, f) PROVE Comes(v)'
      <4>1. CASE u = w
        <5>1. change \in Range(events'[f])
          BY <1>6, <3>2, <3>5, <4>1
        <5>2. QED
          BY <1>2, <1>3, <3>2, <5>1 DEF Comes
      <4>2. CASE u # w
        <5>1. job'[u].step = "push" /\ Reaches(u, f)'
          BY <1>2, <3>5, <4>2 DEF Reaches, Cross
        <5>2. QED
          BY <3>2, <5>1 DEF Comes
      <4>3. QED
        BY <4>1, <4>2
    <3>6. QED
      BY <3>1, <3>3, <3>4, <3>5
  <2>4. QED
    BY <1>3, <1>5, <2>1, <2>2, <2>3, SameMirrors DEF Agreement
<1>11. QED
  BY <1>4, <1>5, <1>7, <1>9, <1>10 DEF Agreement
-----------------------------------------------------------------------------
\* An answer that is over: its job tells nobody anything any more.
AnswerOver(w) ==
    /\ job[w].step = "answer" /\ job'[w] \in {Free, Stuck}
    /\ \A v \in Windows \ {w} : job'[v] = job[v]
    /\ events' = events /\ post' = post /\ rev' = rev

LEMMA EndArrives ==
    ASSUME Types, NEW w \in Windows, AnswerOver(w), NEW e \in Editors
    PROVE  /\ Arriving(e)' = Arriving(e) /\ Replies(e)' \subseteq Replies(e)
           /\ \A m \in Replies(e) :
                 \/ m \in Replies(e)'
                 \/ /\ job[w].ed = e /\ job[w].answer.told = "done"
                    /\ m = EventMove(job[w].answer.change)
           /\ job[w].ed = e /\ job[w].answer.told = "done" =>
                 EventMove(job[w].answer.change) \in Replies(e)
<1>1. /\ job[w].step = "answer" /\ job'[w].step \notin {"push", "answer"}
      /\ \A v \in Windows \ {w} : job'[v] = job[v]
      /\ events' = events /\ post' = post
  BY DEF AnswerOver, Free, Stuck
<1>2. Pushed(e)' = Pushed(e) /\ ToPush(e)' = ToPush(e)
  BY <1>1, SamePushed, SameToPush DEF SamePosts
<1>3. \A v \in Windows \ {w} :
         /\ ReplayMove(v)' = ReplayMove(v) /\ (Reaches(v, e)' <=> Reaches(v, e))
         /\ EventMove(job[v].answer.change)' = EventMove(job[v].answer.change)
  BY <1>1 DEF ReplayMove, EventMove, Reaches, Move, Value, Cross
<1>4. /\ {v \in Windows : job'[v].step = "push" /\ Reaches(v, e)'} =
         {v \in Windows : job[v].step = "push" /\ Reaches(v, e)}
      /\ {v \in Windows : job'[v].step = "push" /\ ~Reaches(v, e)'} =
         {v \in Windows : job[v].step = "push" /\ ~Reaches(v, e)}
  BY <1>1, <1>3
<1>5. /\ {v \in Windows : job[v].step = "push" /\ Reaches(v, e)} \subseteq Windows \ {w}
      /\ {v \in Windows : job[v].step = "push" /\ ~Reaches(v, e)} \subseteq Windows \ {w}
  BY <1>1
<1>6. ToTell(e)' = ToTell(e) /\ ToAnswer(e)' = ToAnswer(e)
  BY <1>3, <1>4, <1>5 DEF ToTell, ToAnswer
<1>7. Answered(e)' = {EventMove(job[v].answer.change) : v \in {x \in Windows \ {w} :
                         job[x].step = "answer" /\ job[x].ed = e /\ job[x].answer.told = "done"}}
  <2>1. {v \in Windows : job'[v].step = "answer" /\ job'[v].ed = e /\ job'[v].answer.told = "done"} =
        {v \in Windows \ {w} : job[v].step = "answer" /\ job[v].ed = e /\ job[v].answer.told = "done"}
    BY <1>1
  <2>2. QED
    BY <1>3, <2>1 DEF Answered
<1>8. /\ Answered(e)' \subseteq Answered(e)
      /\ \A m \in Answered(e) :
            \/ m \in Answered(e)'
            \/ /\ job[w].ed = e /\ job[w].answer.told = "done"
               /\ m = EventMove(job[w].answer.change)
      /\ job[w].ed = e /\ job[w].answer.told = "done" =>
            EventMove(job[w].answer.change) \in Answered(e)
  BY <1>1, <1>7 DEF Answered
<1>9. QED
  BY <1>2, <1>6, <1>8 DEF Arriving, Replies

LEMMA EndComes ==
    ASSUME Types, NEW w \in Windows, AnswerOver(w), NEW v \in Windows
    PROVE  /\ Comes(v)' <=> Comes(v)
           /\ v # w \/ job[w].answer.told \notin Stored => (Replied(v) => Replied(v)')
<1>1. /\ job[w].step = "answer" /\ job'[w].step \notin {"push", "answer"}
      /\ \A u \in Windows \ {w} : job'[u] = job[u]
      /\ events' = events /\ post' = post /\ rev' = rev
  BY DEF AnswerOver, Free, Stuck
<1>2. \A u \in Windows, f \in Editors :
         (job'[u].step = "push" /\ Reaches(u, f)') <=> (job[u].step = "push" /\ Reaches(u, f))
  BY <1>1 DEF Reaches, Cross
<1>3. Comes(v)' <=> Comes(v)
  BY <1>1, <1>2 DEF Comes, EditorsOf, Others
<1>4. v # w \/ job[w].answer.told \notin Stored => (Replied(v) => Replied(v)')
  BY <1>1 DEF Replied
<1>5. QED
  BY <1>3, <1>4

\* What the answer of a replay says is a change, and true.
LEMMA AnswerFacts ==
    ASSUME Types, Truthful, NEW w \in Windows, job[w].step = "answer"
    PROVE  /\ job[w] \in Asked /\ job[w].ed \in Editors
           /\ job[w].answer.told \in {"nothing", "failed"} \cup Stored
           /\ job[w].answer.told \in Stored =>
                 /\ job[w].answer.change \in Changes /\ job[w].answer.change.known \in Knowns
                 /\ job[w].answer.change.rev \in 0..rev /\ job[w].answer.change.known.rev <= rev
                 /\ job[w].answer.change.known.rev = rev => job[w].answer.change.known.state = State
<1>1. job[w] \in Asked /\ job[w].ed \in Editors
  BY HasAsked DEF Asked
<1>2. job[w].answer \in Told
  BY DEF Types
<1>3. job[w].answer.told \in {"nothing", "failed"} \cup Stored
  BY <1>2 DEF Told, Stored
<1>4. ASSUME job[w].answer.told \in Stored
      PROVE  /\ job[w].answer.change \in Changes /\ job[w].answer.change.known \in Knowns
             /\ job[w].answer.change.rev \in 0..rev /\ job[w].answer.change.known.rev <= rev
             /\ job[w].answer.change.known.rev = rev => job[w].answer.change.known.state = State
  <2>1. job[w].answer.change \in Changes
    BY <1>2, <1>4 DEF Told, Stored
  <2>2. Fine(job[w].answer.change, rev, State)
    BY <1>4 DEF Truthful
  <2>3. job[w].answer.change.rev \in Nat /\ job[w].answer.change.known \in Knowns /\ rev \in Nat
    BY <2>1 DEF Changes, Types
  <2>4. job[w].answer.change.rev <= rev
    BY <2>2 DEF Fine
  <2>5. job[w].answer.change.rev \in 0..rev
    BY <2>3, <2>4
  <2>6. QED
    BY <2>1, <2>2, <2>3, <2>5 DEF Fine
<1>5. QED
  BY <1>1, <1>3, <1>4

\* An answer that is over leaves the kernel, the lines and what is pushed alone.
LEMMA AnswerOverKeeps ==
    ASSUME Types, Types', Agreement, NEW w \in Windows, AnswerOver(w), queue' = queue,
           edits' = edits, undoStack' = undoStack, redoStack' = redoStack
    PROVE  /\ Order' /\ Truthful' /\ State' = State
           /\ \A v \in Windows : job'[v] \in Asked => WindowOf[job'[v].ed] = v
           /\ \A v \in Windows : Busy(v)' <=> Busy(v)
           /\ \A e \in Editors : Unsent(e)' = Unsent(e)
<1>1. /\ post' = post /\ rev' = rev /\ events' = events /\ job'[w] \in {Free, Stuck}
      /\ job'[w].step \notin {"push", "answer"}
      /\ \A v \in Windows \ {w} : job'[v] = job[v]
  BY DEF AnswerOver, Free, Stuck
<1>2. Order' /\ LogStep /\ State' = State
  BY <1>1, SameOrder DEF Agreement, State
<1>3. Truthful'
  <2>1. \A v \in Windows :
          \/ job'[v] = job[v]
          \/ /\ job'[v].step = "push" => job'[v].answer.rev <= rev'
             /\ job'[v].step = "answer" /\ job'[v].answer.told \in Stored =>
                   Fine(job'[v].answer.change, rev', State')
    BY <1>1
  <2>2. QED
    BY <1>1, <1>2, <2>1, TruthfulKeeps DEF Agreement
<1>4. \A v \in Windows : job'[v] \in Asked => WindowOf[job'[v].ed] = v
  BY <1>1, PlacesKeep DEF Agreement, SamePlace
<1>5. \A e \in Editors : Unsent(e)' = Unsent(e)
  BY <1>1 DEF Unsent
<1>6. QED
  BY <1>2, <1>3, <1>4, <1>5, SameBusy

LEMMA ReplayedAgrees ==
    ASSUME Types, Types', Agreement, NEW w \in Windows, Replayed(w)
    PROVE  Agreement'
<1>1. /\ doc' = doc /\ undoStack' = undoStack /\ redoStack' = redoStack /\ hasUndo' = hasUndo
      /\ rev' = rev /\ queue' = queue /\ post' = post /\ events' = events /\ opening' = opening
      /\ edits' = edits /\ replays' = replays /\ faults' = faults
      /\ job[w].step = "answer" /\ job' = [job EXCEPT ![w] = Free]
  BY DEF Replayed, Unlock, kernel, bounds
<1>2. AnswerOver(w)
  BY <1>1 DEF AnswerOver, Types
<1>3. /\ job[w].ed \in Editors /\ job[w].answer.told \in {"nothing", "failed"} \cup Stored
      /\ job[w].answer.told \in Stored =>
            /\ job[w].answer.change \in Changes /\ job[w].answer.change.known \in Knowns
            /\ job[w].answer.change.rev \in 0..rev /\ job[w].answer.change.known.rev <= rev
            /\ job[w].answer.change.known.rev = rev => job[w].answer.change.known.state = State
  BY <1>1, AnswerFacts DEF Agreement
<1>4. /\ Order' /\ Truthful' /\ State' = State
      /\ \A v \in Windows : job'[v] \in Asked => WindowOf[job'[v].ed] = v
      /\ \A v \in Windows : Busy(v)' <=> Busy(v)
      /\ \A e \in Editors : Unsent(e)' = Unsent(e)
  BY <1>1, <1>2, AnswerOverKeeps
<1>5. /\ \A v \in Windows : Comes(v) => Comes(v)'
      /\ \A v \in Windows \ {w} : Replied(v) => Replied(v)'
      /\ job[w].answer.told \notin Stored => (Replied(w) => Replied(w)')
  BY <1>2, EndComes
<1> PICK e \in Editors : e = job[w].ed
  BY <1>3
\* The answers that change no view.
<1>6. ASSUME view' = view, heldView' = heldView, offView' = offView, job[w].answer.told # "done"
      PROVE  ViewInv'
  <2>1. \A f \in Editors : Arriving(f)' = Arriving(f) /\ Replies(f)' = Replies(f)
    BY <1>2, <1>6, EndArrives
  <2>2. QED
    BY <1>1, <1>4, <1>6, <2>1, SameViews DEF Agreement
<1>7. ASSUME mirror' \in [Windows -> States], heldState' \in [Windows -> 0..rev],
             heldView' \in [Editors -> [Blocks -> 0..rev]]
      PROVE  Plain' /\ Held'
  BY <1>1, <1>4, <1>7 DEF Agreement, Plain, Held
<1>8. CASE job[w].answer.told = "failed"
  <2>1. view' = view /\ mirror' = mirror /\ heldView' = heldView /\ heldState' = heldState
        /\ offView' = offView /\ offMirror' = offMirror
    BY <1>8 DEF Replayed, history
  <2>2. ViewInv'
    BY <1>6, <1>8, <2>1
  <2>3. Plain' /\ Held'
    BY <1>7, <2>1 DEF Agreement, Plain, Held
  <2>4. job[w].answer.told \notin Stored
    BY <1>8 DEF Stored
  <2>5. \A v \in Windows : InStep(v)'
    BY <1>1, <1>4, <1>5, <2>1, <2>4, SameMirrors DEF Agreement
  <2>6. QED
    BY <1>4, <2>2, <2>3, <2>5 DEF Agreement
<1>9. CASE job[w].answer.told = "nothing"
  <2>1. /\ view' = view /\ heldView' = heldView /\ heldState' = heldState /\ offView' = offView
        /\ mirror' = [mirror EXCEPT ![w] = [undo |-> FALSE, redo |-> FALSE]]
        /\ offMirror' = offMirror \cup {w}
    BY <1>9 DEF Replayed
  <2>2. ViewInv'
    BY <1>6, <1>9, <2>1
  <2>3. mirror' \in [Windows -> States]
    <3>1. [undo |-> FALSE, redo |-> FALSE] \in States
      BY DEF States
    <3>2. QED
      BY <2>1, <3>1 DEF Agreement, Plain
  <2>4. Plain' /\ Held'
    BY <1>7, <2>1, <2>3 DEF Agreement, Held
  <2>5. InStep(w)'
    BY <1>1, <1>4, <1>5, <2>1, MirrorsKeep DEF Agreement
  <2>6. \A v \in Windows \ {w} : InStep(v)'
    <3>1. \A v \in Windows \ {w} : mirror'[v] = mirror[v] /\ (v \in offMirror' <=> v \in offMirror)
      BY <2>1 DEF Agreement, Plain
    <3>2. QED
      BY <1>1, <1>4, <1>5, <2>1, <3>1, SameMirrors DEF Agreement
  <2>7. QED
    BY <1>4, <2>2, <2>4, <2>5, <2>6 DEF Agreement
\* Those that bring a state.
<1>10. ASSUME job[w].answer.told \in Stored
       PROVE  /\ mirror' \in [Windows -> States] /\ heldState' \in [Windows -> 0..rev]
              /\ \A v \in Windows : InStep(v)'
  <2>1. SetMirror(w, job[w].answer.change.known)
    BY <1>10 DEF Replayed, Stored
  <2>2. mirror' \in [Windows -> States] /\ heldState' \in [Windows -> 0..rev]
    BY <1>1, <1>3, <1>10, <2>1, SetMirrorFacts DEF Agreement
  <2>3. \A v \in Windows : InStep(v)'
    BY <1>1, <1>3, <1>4, <1>5, <1>10, <2>1, SetMirrorInStep DEF Agreement
  <2>4. QED
    BY <2>2, <2>3
<1>11. CASE job[w].answer.told = "elsewhere"
  <2>1. view' = view /\ heldView' = heldView /\ offView' = offView
    BY <1>11 DEF Replayed
  <2>2. job[w].answer.told \in Stored
    BY <1>11 DEF Stored
  <2>3. Plain' /\ Held'
    BY <1>7, <1>10, <2>1, <2>2 DEF Agreement, Held
  <2>4. ViewInv'
    BY <1>6, <1>11, <2>1
  <2>5. QED
    BY <1>4, <1>10, <2>2, <2>3, <2>4 DEF Agreement
<1>12. CASE job[w].answer.told = "done"
  <2>1. job[w].answer.told \in Stored
    BY <1>12 DEF Stored
  <2>2. /\ job[w].answer.change.block \in Blocks /\ job[w].answer.change.value \in Values
        /\ job[w].answer.change.rev \in 0..rev
    BY <1>3, <2>1 DEF Changes
  <2> PICK b \in Blocks, value \in Values, n \in 0..rev :
        b = job[w].answer.change.block /\ value = job[w].answer.change.value
        /\ n = job[w].answer.change.rev
    BY <2>2
  <2> PICK move : move = EventMove(job[w].answer.change)
    OBVIOUS
  <2>3. Show(e, b, value, n, TRUE) /\ move = Move(b, value, n)
    BY <1>12 DEF Replayed, EventMove
  <2>4. Gives(e, move) /\ move \in Arriving(e) \cup Replies(e)
    BY <1>2, <1>12, EndArrives DEF Gives
  <2>5. heldView' \in [Editors -> [Blocks -> 0..rev]]
    BY <1>1, <2>3, ShowFacts DEF Agreement
  <2>6. Plain' /\ Held'
    BY <1>7, <1>10, <2>1, <2>5
  <2>7. ViewInv'
    BY <1>1, <2>3, <2>4, <2>6, ShownViews DEF Agreement
  <2>8. QED
    BY <1>4, <1>10, <2>1, <2>6, <2>7 DEF Agreement
<1>13. QED
  BY <1>3, <1>8, <1>9, <1>11, <1>12 DEF Stored

\* A window whose request is lost stays stuck, and what its answer said is lost.
LEMMA ReplayLostAgrees ==
    ASSUME Types, Types', Agreement, NEW w \in Windows, ReplayLost(w)
    PROVE  Agreement'
<1>1. /\ doc' = doc /\ undoStack' = undoStack /\ redoStack' = redoStack /\ hasUndo' = hasUndo
      /\ rev' = rev /\ view' = view /\ queue' = queue /\ post' = post /\ events' = events
      /\ mirror' = mirror /\ opening' = opening /\ edits' = edits /\ replays' = replays
      /\ heldView' = heldView /\ heldState' = heldState
      /\ job[w].step \in {"peek", "post", "answer"} /\ job' = [job EXCEPT ![w] = Stuck]
  BY DEF ReplayLost, kernel, Stuck
<1>2. job'[w] = Stuck /\ \A v \in Windows \ {w} : job'[v] = job[v]
  BY <1>1 DEF Types
<1>3. faults' \in 0..MaxFaults
  BY FaultCounted DEF ReplayLost, Agreement
<1>4. Plain' /\ Held'
  <2>1. \A v \in Windows : job'[v] \in Asked => WindowOf[job'[v].ed] = v
    BY <1>2, PlacesKeep DEF Agreement, SamePlace
  <2>2. QED
    BY <1>1, <1>3, <2>1 DEF Agreement, Plain, Held
<1>5. CASE job[w].step # "answer" \/ job[w].answer.told \notin Stored
  <2>1. Mute(job[w]) /\ Mute(job'[w])
    BY <1>1, <1>2, <1>5 DEF Mute, Stuck
  <2>2. SameJobs
    BY <1>2, <2>1 DEF SameJobs
  <2>3. offView' = offView /\ offMirror' = offMirror
    BY <1>5 DEF ReplayLost, Stored
  <2>4. QED
    BY <1>1, <1>4, <2>2, <2>3, MuteStep
<1>6. CASE job[w].step = "answer" /\ job[w].answer.told \in Stored
  <2>1. /\ offMirror' = offMirror \cup {w}
        /\ offView \subseteq offView'
        /\ job[w].answer.told = "done" => <<job[w].ed, job[w].answer.change.block>> \in offView'
    BY <1>6 DEF ReplayLost, Stored
  <2>2. AnswerOver(w)
    BY <1>1, <1>2, <1>6 DEF AnswerOver
  <2>3. /\ Order' /\ Truthful' /\ State' = State
        /\ \A v \in Windows : Busy(v)' <=> Busy(v)
        /\ \A e \in Editors : Unsent(e)' = Unsent(e)
    BY <1>1, <2>2, AnswerOverKeeps
  <2>4. \A e \in Editors, b \in Blocks : Writes(e, b)' <=> Writes(e, b)
    BY <2>3 DEF Writes
  <2>5. ShowsOwn'
    <3>1. \A e \in Editors, b \in Blocks : <<e, b>> \notin offView' /\ Writes(e, b) =>
            <<e, b>> \notin offView /\ view'[e][b] = view[e][b]
      BY <1>1, <2>1
    <3>2. \A e \in Editors :
            /\ Unsent(e)' \subseteq Unsent(e)
            /\ \A old \in Unsent(e) \ Unsent(e)' : \A other \in Unsent(e)' : old.id < other.id
      BY <2>3
    <3>3. QED
      BY <3>1, <3>2, OwnKeeps DEF Agreement, ViewInv
  <2>6. \A e \in Editors : Arriving(e)' = Arriving(e) /\ Replies(e)' \subseteq Replies(e)
    BY <2>2, EndArrives
  <2>7. ASSUME NEW e \in Editors, NEW b \in Blocks, <<e, b>> \notin offView'
        PROVE  Writes(e, b)' \/ Untouched(e, b)
    <3>1. ASSUME NEW m \in Replies(e), m.block = b PROVE m \in Replies(e)'
      <4>1. EventMove(job[w].answer.change).block = job[w].answer.change.block
        BY DEF EventMove, Move
      <4>2. QED
        BY <2>1, <2>2, <2>7, <3>1, <4>1, EndArrives
    <3>2. <<e, b>> \notin offView /\ view'[e][b] = view[e][b]
      BY <1>1, <2>1, <2>7
    <3>3. QED
      BY <2>4, <2>6, <3>1, <3>2 DEF Untouched
  <2>8. \A e \in Editors, b \in Blocks : heldView[e][b] <= heldView'[e][b]
    BY <1>1 DEF Agreement, Held, Types
  <2>9. ASSUME NEW b \in Blocks PROVE \E n \in 0..rev' : LastChange(b, n)'
    <3>1. PICK n \in 0..rev : LastChange(b, n)
      BY DEF Agreement, ViewInv
    <3>2. LastChange(b, n)'
      BY <1>1, <1>4, <2>6, <2>7, <2>8, <3>1, ViewsKeep DEF Agreement
    <3>3. QED
      BY <1>1, <3>2
  <2>10. ViewInv'
    BY <2>5, <2>9 DEF ViewInv
  <2>11. \A v \in Windows : Comes(v) => Comes(v)'
    BY <2>2, EndComes
  <2>12. \A v \in Windows \ {w} : Replied(v) => Replied(v)'
    BY <2>2, EndComes
  <2>13. InStep(w)'
    BY <1>1, <2>1, <2>3, <2>11, MirrorsKeep DEF Agreement
  <2>14. \A v \in Windows \ {w} : InStep(v)'
    BY <1>1, <2>1, <2>3, <2>11, <2>12, SameMirrors DEF Agreement
  <2>15. QED
    BY <1>4, <2>3, <2>10, <2>13, <2>14 DEF Agreement
<1>7. QED
  BY <1>5, <1>6
-----------------------------------------------------------------------------
\* At first everything is shown everywhere.
LEMMA AgreementInit == Init => Agreement
<1> SUFFICES ASSUME Init PROVE Agreement
  OBVIOUS
<1>1. Types
  BY AskInit DEF AskInv
<1>2. /\ doc = [b \in Blocks |-> 0] /\ undoStack = <<>> /\ redoStack = <<>> /\ hasUndo = FALSE
      /\ view = [e \in Editors |-> doc] /\ queue = [e \in Editors |-> <<>>]
      /\ post = [e \in Editors |-> Free] /\ events = [e \in Editors |-> <<>>]
      /\ mirror = [w \in Windows |-> [undo |-> FALSE, redo |-> FALSE]] /\ opening = Opening
      /\ job = [w \in Windows |-> Free] /\ edits = 0 /\ replays = 0 /\ faults = 0 /\ rev = 0
      /\ heldView = [e \in Editors |-> [b \in Blocks |-> 0]]
      /\ heldState = [w \in Windows |-> 0]
  BY DEF Init
<1>3. Plain
  <2>1. /\ 0 \in Values /\ 0 \in 0..MaxReplays /\ 0 \in 0..MaxFaults
    BY BoundsAssumption DEF Values
  <2>2. Free \notin Asked
    BY DEF Free, Asked
  <2>3. [undo |-> FALSE, redo |-> FALSE] \in States
    BY DEF States
  <2>4. QED
    BY <1>2, <2>1, <2>2, <2>3 DEF Plain
<1>4. Held
  BY <1>2 DEF Held
<1>5. Free.step = "free"
  BY DEF Free
<1>6. \A e \in Editors : Unsent(e) = {} /\ Pending(e) = {} /\ Range(events[e]) = {}
  BY <1>2, <1>5 DEF Unsent, Pending, Range
<1>7. Order
  <2>1. Ids(<<>>) = {} /\ Once(<<>>) /\ Rising(<<>>)
    BY DEF Ids, Once, Rising, Range
  <2>2. Apart
    BY <1>2, <1>6, <2>1 DEF Apart, Logged
  <2>3. \A e \in Editors : InLine(e)
    BY <1>2, <1>6, <2>1 DEF InLine
  <2>4. QED
    BY <2>2, <2>3 DEF Order
<1>8. Truthful
  BY <1>2, <1>5, <1>6 DEF Truthful
<1>9. \A e \in Editors : Arriving(e) = {} /\ Replies(e) = {}
  <2>1. \A e \in Editors : Pushed(e) = {} /\ ToPush(e) = {}
    BY <1>2, <1>5, <1>6 DEF Pushed, ToPush, Others
  <2>2. \A e \in Editors : ToTell(e) = {} /\ ToAnswer(e) = {} /\ Answered(e) = {}
    BY <1>2, <1>5 DEF ToTell, ToAnswer, Answered
  <2>3. QED
    BY <2>1, <2>2 DEF Arriving, Replies
<1>10. ViewInv
  <2>1. ShowsOwn
    BY <1>6 DEF ShowsOwn, Writes
  <2>2. ASSUME NEW b \in Blocks PROVE LastChange(b, 0)
    BY <1>2, <1>9 DEF LastChange
  <2>3. QED
    BY <1>2, <2>1, <2>2 DEF ViewInv
<1>11. \A w \in Windows : InStep(w)
  <2>1. State = [undo |-> FALSE, redo |-> FALSE]
    BY <1>2 DEF State
  <2>2. \A w \in Windows : ~Busy(w)
    BY <1>6 DEF Busy, EditorsOf
  <2>3. QED
    BY <1>2, <2>1, <2>2 DEF InStep
<1>12. QED
  BY <1>3, <1>4, <1>7, <1>8, <1>10, <1>11 DEF Agreement

LEMMA AgreementNext ==
    ASSUME AskInv, Agreement, [Next]_vars
    PROVE  Agreement'
<1>1. Types /\ Types'
  BY AskNext DEF AskInv
<1>2. CASE UNCHANGED vars
  BY <1>1, <1>2, StutterAgrees
<1>3. ASSUME NEW e \in Editors, NEW b \in Blocks, Type(e, b)
      PROVE  Agreement'
  BY <1>1, <1>3, TypeAgrees
<1>4. ASSUME NEW e \in Editors, NEW kind \in Kinds, Request(e, kind)
      PROVE  Agreement'
  BY <1>1, <1>4, RequestAgrees
<1>5. ASSUME NEW e \in Editors,
             Commit(e) \/ Push(e) \/ Deliver(e) \/ Rollback(e) \/ PostLost(e) \/ Drop(e)
      PROVE  Agreement'
  BY <1>1, <1>5, CommitAgrees, PushAgrees, DeliverAgrees, RollbackAgrees, PostLostAgrees, DropAgrees
<1>6. ASSUME NEW w \in Windows,
             \/ InitMirror(w) \/ Replay(w) \/ PushReplay(w) \/ Replayed(w) \/ ReplayLost(w)
      PROVE  Agreement'
  BY <1>1, <1>6, InitMirrorAgrees, ReplayAgrees, PushReplayAgrees, ReplayedAgrees, ReplayLostAgrees
<1>7. ASSUME NEW w \in Windows,
             Waited(w) \/ Peek(w) \/ Confirm(w) \/ ReplayNothing(w) \/ ReplayFails(w)
      PROVE  Agreement'
  BY <1>1, <1>7, MuteMovesAgree
<1>8. QED
  BY <1>2, <1>3, <1>4, <1>5, <1>6, <1>7 DEF Next, SystemStep, Fault

LEMMA AgreementHolds == Spec => [](AskInv /\ Agreement)
<1>1. Init => AskInv /\ Agreement
  BY AskInit, AgreementInit
<1>2. AskInv /\ Agreement /\ [Next]_vars => (AskInv /\ Agreement)'
  BY AskNext, AgreementNext
<1>3. QED
  BY <1>1, <1>2, PTL DEF Spec
-----------------------------------------------------------------------------
\* What is on its way when nothing is under way: nothing.
LEMMA NothingArrives ==
    ASSUME AtRest
    PROVE  /\ \A e \in Editors : post[e] = Free /\ Unsent(e) = {} /\ Range(events[e]) = {}
           /\ \A w \in Windows : job[w].step \notin {"push", "answer"}
           /\ \A e \in Editors : Arriving(e) \cup Replies(e) = {}
           /\ \A w \in Windows : ~Comes(w) /\ ~Replied(w) /\ ~Busy(w)
<1>1. \A e \in Editors : Pending(e) = {} /\ events[e] = <<>>
  BY DEF AtRest
<1>2. \A e \in Editors : post[e] = Free /\ Range(queue[e]) = {}
  BY <1>1 DEF Pending
<1>3. Free.step = "free"
  BY DEF Free
<1>4. \A e \in Editors : Unsent(e) = {} /\ Range(events[e]) = {}
  BY <1>1, <1>2, <1>3 DEF Unsent, Range
<1>5. \A w \in Windows : job[w].step \notin {"push", "answer"}
  BY DEF AtRest
<1>6. \A e \in Editors : Others(e) \subseteq Editors
  BY DEF Others
<1>7. \A e \in Editors : Arriving(e) = {}
  BY <1>2, <1>3, <1>4, <1>5, <1>6 DEF Arriving, Pushed, ToPush, ToTell
<1>8. \A e \in Editors : Replies(e) = {}
  BY <1>5 DEF Replies, ToAnswer, Answered
<1>9. \A w \in Windows : EditorsOf(w) \subseteq Editors
  BY DEF EditorsOf
<1>10. \A w \in Windows : ~Comes(w)
  BY <1>2, <1>3, <1>4, <1>5, <1>6, <1>9 DEF Comes
<1>11. \A w \in Windows : ~Replied(w) /\ ~Busy(w)
  BY <1>4, <1>5, <1>9 DEF Replied, Busy
<1>12. QED
  BY <1>2, <1>4, <1>5, <1>7, <1>8, <1>10, <1>11

LEMMA TypesFollow ==
    ASSUME AskInv, Agreement
    PROVE  TypeOK
<1>1. MaxEdits \in Nat /\ MaxReplays \in Nat /\ MaxFaults \in Nat
  BY BoundsAssumption
<1>2. Types /\ Plain /\ Order
  BY DEF AskInv, Agreement
<1>3. /\ doc \in [Blocks -> 0..MaxEdits] /\ hasUndo \in BOOLEAN
      /\ mirror \in [Windows -> States] /\ opening \subseteq Opening
      /\ replays <= MaxReplays /\ faults <= MaxFaults
  BY <1>1, <1>2 DEF Plain, Values
<1>4. /\ undoStack \in Seq(Ops) /\ redoStack \in Seq(Ops)
      /\ view \in [Editors -> [Blocks -> 0..MaxEdits]]
      /\ queue \in [Editors -> Seq(Ops)] /\ post \in [Editors -> Edit \cup {Free}]
      /\ edits \in 0..MaxEdits
  BY <1>2 DEF Types, Values
<1>5. ASSUME NEW w \in Windows, job[w].step \notin {"free", "stuck"}
      PROVE  job[w].kind \in Kinds /\ WindowOf[job[w].ed] = w /\ job[w].upto \in 0..edits
  <2>1. job[w] \in Asked
    BY <1>2, <1>5 DEF Types, Free, Stuck
  <2>2. job[w].kind \in Kinds /\ job[w].upto \in Nat
    BY <2>1 DEF Asked
  <2>3. job[w].upto <= edits
    BY <2>1 DEF AskInv, WaitedFor
  <2>4. WindowOf[job[w].ed] = w
    BY <1>2, <2>1 DEF Plain
  <2>5. QED
    BY <1>4, <2>2, <2>3, <2>4
<1>6. \A e \in Editors : \A op \in Pending(e) : op.id <= edits
  BY <1>2 DEF Order, InLine
<1>7. Once(undoStack) /\ Once(redoStack) /\ Ids(undoStack) \cap Ids(redoStack) = {}
  BY <1>2 DEF Order, Apart
<1>8. \A s \in {undoStack, redoStack} : \A i, j \in DOMAIN s : s[i].id = s[j].id => i = j
  BY <1>7 DEF Once
<1>9. \A i \in DOMAIN undoStack, j \in DOMAIN redoStack : undoStack[i].id # redoStack[j].id
  BY <1>7 DEF Ids, Range
<1>10. QED
  BY <1>1, <1>3, <1>4, <1>5, <1>6, <1>8, <1>9 DEF TypeOK

LEMMA ViewsFollow ==
    ASSUME Agreement, AtRest, NEW e \in Editors, NEW b \in Blocks, <<e, b>> \notin offView
    PROVE  view[e][b] = doc[b]
<1>1. PICK n \in 0..rev : LastChange(b, n)
  BY DEF Agreement, ViewInv
<1>2. Unsent(e) = {} /\ Arriving(e) \cup Replies(e) = {}
  BY NothingArrives
<1>3. ~Writes(e, b) /\ ~Brings(Arriving(e) \cup Replies(e), b, n)
  BY <1>2 DEF Writes, Brings
<1>4. QED
  BY <1>1, <1>3 DEF LastChange

LEMMA MirrorsFollow ==
    ASSUME Agreement, AtRest, NEW w \in Windows, w \notin offMirror
    PROVE  mirror[w] = State
<1>1. InStep(w)
  BY DEF Agreement
<1>2. ~Comes(w) /\ ~Replied(w) /\ ~Busy(w)
  BY NothingArrives
<1>3. QED
  BY <1>1, <1>2 DEF InStep

\* Every editor's queue and request are in order, an edit is on one stack at most and
\* once, and a window's undo is of one of its own editors: with any number of editors,
\* windows and blocks.
THEOREM TypesHold == Spec => []TypeOK
<1>1. AskInv /\ Agreement => TypeOK
  BY TypesFollow
<1>2. QED
  BY <1>1, AgreementHolds, PTL

\* When nothing is under way every editor shows what the kernel holds, but for the blocks
\* that a refused or lost edit, a stale or lost push, or a rollback left wrong: with any
\* number of editors, windows and blocks, and however often these faults happen.
THEOREM ViewsAgreeAtRest == Spec => []ViewsAgree
<1>1. Agreement => ViewsAgree
  BY ViewsFollow DEF ViewsAgree
<1>2. QED
  BY <1>1, AgreementHolds, PTL

\* When nothing is under way a window's buttons offer what the kernel can undo and redo,
\* but for a window that one of the listed faults or races left wrong: with any number of
\* editors and windows.
THEOREM MirrorsAgreeAtRest == Spec => []MirrorAgrees
<1>1. Agreement => MirrorAgrees
  BY MirrorsFollow DEF MirrorAgrees
<1>2. QED
  BY <1>1, AgreementHolds, PTL
=============================================================================
