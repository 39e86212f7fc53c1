------------------------------- MODULE UndoLog -------------------------------
(***************************************************************************)
(* The kernel's undo log (kernel/model/undolog.go) and the handlers that   *)
(* replay it (performUndo, performRedo, clearHistory of                    *)
(* kernel/api/transaction.go).                                             *)
(*                                                                         *)
(* Every document (rootID) has an undo and a redo stack.  An edit of       *)
(* several documents is one entry on several undo stacks.  A replay takes  *)
(* the entry off the executing document's stack and puts it on that        *)
(* document's other stack, runs the operations under flushLock, and then   *)
(* links the other documents' stacks, or puts the entry back when the      *)
(* operations failed.  Each of these steps takes the log's mutex anew.     *)
(*                                                                         *)
(* What an edit does to a document is abstracted to whether it is in       *)
(* effect there.  A transaction writes its documents one after another, so *)
(* that a write error leaves any part of them written.                     *)
(***************************************************************************)
EXTENDS Integers, Sequences, FiniteSets, SequencesExt

CONSTANTS Docs,      \* root IDs
          Windows,   \* goroutines serving undo and redo requests
          MaxEntries, \* UndoLog.max, 64 in the code
          MaxEdits,  \* bound: edits recorded
          MaxReplays, MaxClears \* bounds: undo and redo requests, clear requests

ASSUME MaxEntriesAssumption == MaxEntries \in Nat \ {0}
ASSUME BoundsAssumption == MaxEdits \in Nat /\ MaxReplays \in Nat /\ MaxClears \in Nat

Edits == 1..MaxEdits

VARIABLES
    undoStack, redoStack, \* per document, sequences of edits
    hasUndo,              \* per document
    known,                \* documents the log has stacks for
    roots,                \* the documents each edit mutated, {} before it is made
    job,                  \* what each window does, "undo" or "redo", for which edit and
                          \* document, and what is next: "perform", "commit", "rollback"
    applied,              \* <<edit, document>> for each edit in effect on a document
    replays, clears,
    forgotten,            \* history: edits cut from a stack, or cleared
    disturbed,            \* history: edits whose replay met an edit or another replay,
                          \* or a write error that left it half done
    twice                 \* history: <<kind, edit>> of replays of what was done before

stacks == <<undoStack, redoStack, hasUndo, known>>
bounds == <<replays, clears>>
history == <<forgotten, disturbed, twice>>
vars == <<stacks, roots, job, applied, bounds, history>>

Free == [kind |-> "free"]
InFlight == {job[w].edit : w \in {v \in Windows : job[v] # Free}}

\* The newest entries are kept.
Trim(s) == SubSeq(s, IF Len(s) > MaxEntries THEN Len(s) - MaxEntries + 1 ELSE 1, Len(s))
Cut(s) == Range(SubSeq(s, 1, Len(s) - MaxEntries))
Without(s, edits) == FoldSet(LAMBDA e, rest : RemoveFirst(rest, e), s, edits)
Effects(e) == {e} \X roots[e]

\* The edits being replayed on one of these documents.
Busy(docs) == {job[w].edit : w \in {v \in Windows : job[v] # Free /\ job[v].doc \in docs}}

Init ==
    /\ undoStack = [d \in Docs |-> <<>>]
    /\ redoStack = [d \in Docs |-> <<>>]
    /\ hasUndo = [d \in Docs |-> FALSE] /\ known = {}
    /\ roots = [e \in Edits |-> {}]
    /\ job = [w \in Windows |-> Free]
    /\ applied = {} /\ replays = 0 /\ clears = 0
    /\ forgotten = {} /\ disturbed = {} /\ twice = {}
-----------------------------------------------------------------------------
\* An editor's transaction is committed and recorded on every document it wrote.
\* The first edit after an undo empties the redo stack.
KeptRedo(d) == IF hasUndo[d] THEN <<>> ELSE redoStack[d]

Record ==
    \E e \in Edits, docs \in SUBSET Docs \ {{}} :
        /\ roots[e] = {} /\ \A f \in Edits : f < e => roots[f] # {}
        /\ roots' = [roots EXCEPT ![e] = docs]
        /\ applied' = applied \cup {e} \X docs
        /\ undoStack' = [d \in Docs |-> IF d \in docs THEN Trim(Append(undoStack[d], e))
                                                      ELSE undoStack[d]]
        /\ redoStack' = [d \in Docs |-> IF d \in docs THEN KeptRedo(d) ELSE redoStack[d]]
        /\ hasUndo' = [d \in Docs |-> hasUndo[d] /\ d \notin docs]
        /\ known' = known \cup docs
        /\ disturbed' = disturbed \cup Busy(docs)
        /\ forgotten' = forgotten \cup
              UNION {Cut(Append(undoStack[d], e)) : d \in docs}
        /\ UNCHANGED <<job, bounds, twice>>
-----------------------------------------------------------------------------
(* performUndo and performRedo take the top entry ...                      *)

Start(w, kind, e, d) ==
    /\ job' = [job EXCEPT ![w] = [kind |-> kind, step |-> "perform", edit |-> e, doc |-> d]]
    /\ replays < MaxReplays /\ replays' = replays + 1
    /\ disturbed' = disturbed \cup Busy({d}) \cup
          (IF e \in InFlight \/ Busy({d}) # {} THEN {e} ELSE {})
    /\ UNCHANGED <<known, roots, applied, clears, twice>>

Undo(w, d) ==
    /\ job[w] = Free
    /\ undoStack[d] # <<>>
    /\ LET e == Last(undoStack[d]) IN
          /\ undoStack' = [undoStack EXCEPT ![d] = Front(@)]
          /\ redoStack' = [redoStack EXCEPT ![d] = Trim(Append(@, e))]
          /\ hasUndo' = [hasUndo EXCEPT ![d] = TRUE]
          /\ forgotten' = forgotten \cup Cut(Append(redoStack[d], e))
          /\ Start(w, "undo", e, d)

RedoKeepingEntry(w, d) ==
    /\ job[w] = Free
    /\ redoStack[d] # <<>>
    /\ LET e == Last(redoStack[d]) IN
          /\ undoStack' = [undoStack EXCEPT ![d] = Append(@, e)]
          /\ UNCHANGED <<redoStack, hasUndo, forgotten>>
          /\ Start(w, "redo", e, d)

\* hasUndo stays, and the undo stack is not cut.
Redo(w, d) ==
    /\ job[w] = Free
    /\ redoStack[d] # <<>>
    /\ LET e == Last(redoStack[d]) IN
          /\ redoStack' = [redoStack EXCEPT ![d] = Front(@)]
          /\ undoStack' = [undoStack EXCEPT ![d] = Append(@, e)]
          /\ UNCHANGED <<hasUndo, forgotten>>
          /\ Start(w, "redo", e, d)

(* ... run its operations with PerformTxSync, one transaction at a time ... *)

Replayed(kind, e, docs) == IF kind = "undo" THEN applied \ ({e} \X docs)
                                            ELSE applied \cup ({e} \X docs)
AlreadyDone(kind, e) == IF kind = "undo" THEN Effects(e) \cap applied = {}
                                         ELSE Effects(e) \subseteq applied

PerformDone(w) ==
    /\ job[w] # Free /\ job[w].step = "perform"
    /\ LET e == job[w].edit  kind == job[w].kind IN
          /\ applied' = Replayed(kind, e, roots[e])
          /\ twice' = twice \cup IF AlreadyDone(kind, e) THEN {<<kind, e>>} ELSE {}
    /\ job' = [job EXCEPT ![w].step = "commit"]
    /\ UNCHANGED <<stacks, roots, bounds, forgotten, disturbed>>

\* An operation is refused before anything is written, or a write fails.
PerformFailed(w) ==
    /\ job[w] # Free /\ job[w].step = "perform"
    /\ LET e == job[w].edit IN
          \E written \in SUBSET roots[e] \ {roots[e]} :
              /\ applied' = Replayed(job[w].kind, e, written)
              /\ disturbed' = disturbed \cup IF written = {} THEN {} ELSE {e}
    /\ job' = [job EXCEPT ![w].step = "rollback"]
    /\ UNCHANGED <<stacks, roots, bounds, forgotten, twice>>

(* ... and settle the stacks.                                              *)

Others(w) == roots[job[w].edit] \ {job[w].doc}
At(w, kind, step) == job[w] # Free /\ job[w].kind = kind /\ job[w].step = step

UndoCommitAlone(w) ==
    /\ At(w, "undo", "commit")
    /\ job' = [job EXCEPT ![w] = Free]
    /\ UNCHANGED <<stacks, roots, applied, bounds, history>>

UndoCommit(w) ==
    /\ At(w, "undo", "commit")
    /\ undoStack' = [d \in Docs |-> IF d \in Others(w)
                        THEN Without(undoStack[d], {job[w].edit}) ELSE undoStack[d]]
    /\ job' = [job EXCEPT ![w] = Free]
    /\ UNCHANGED <<redoStack, hasUndo, known, roots, applied, bounds, history>>

WithoutTop(s, e) == IF s # <<>> /\ Last(s) = e THEN Front(s) ELSE s

UndoRollbackForgets(w) ==
    /\ At(w, "undo", "rollback")
    /\ redoStack' = [redoStack EXCEPT ![job[w].doc] = WithoutTop(@, job[w].edit)]
    /\ job' = [job EXCEPT ![w] = Free]
    /\ UNCHANGED <<undoStack, hasUndo, known, roots, applied, bounds, forgotten, disturbed, twice>>

\* Nothing is put back when the document's stacks were cleared meanwhile.
UndoRollback(w) ==
    /\ At(w, "undo", "rollback")
    /\ LET e == job[w].edit  d == job[w].doc IN
          \/ d \notin known /\ UNCHANGED stacks
          \/ /\ d \in known
             /\ redoStack' = [redoStack EXCEPT ![d] = WithoutTop(@, e)]
             /\ undoStack' = [undoStack EXCEPT ![d] = Append(@, e)]
             /\ hasUndo' = [hasUndo EXCEPT ![d] = FALSE]
             /\ UNCHANGED known
    /\ job' = [job EXCEPT ![w] = Free]
    /\ UNCHANGED <<roots, applied, bounds, forgotten, disturbed, twice>>

RedoCommit(w) ==
    /\ At(w, "redo", "commit")
    /\ LET e == job[w].edit IN
          /\ undoStack' = [d \in Docs |-> IF d \in Others(w)
                              THEN Trim(Append(undoStack[d], e)) ELSE undoStack[d]]
          /\ forgotten' = forgotten \cup
                UNION {Cut(Append(undoStack[d], e)) : d \in Others(w)}
    /\ job' = [job EXCEPT ![w] = Free]
    /\ known' = known \cup Others(w)
    /\ disturbed' = disturbed \cup Busy(Others(w))
    /\ UNCHANGED <<redoStack, hasUndo, roots, applied, bounds, twice>>

RedoRollback(w) ==
    /\ At(w, "redo", "rollback")
    /\ LET e == job[w].edit  d == job[w].doc IN
          \/ d \notin known /\ UNCHANGED <<stacks, forgotten>>
          \/ /\ d \in known
             /\ undoStack' = [undoStack EXCEPT ![d] = WithoutTop(@, e)]
             /\ redoStack' = [redoStack EXCEPT ![d] = Trim(Append(@, e))]
             /\ forgotten' = forgotten \cup Cut(Append(redoStack[d], e))
             /\ UNCHANGED <<hasUndo, known>>
    /\ job' = [job EXCEPT ![w] = Free]
    /\ UNCHANGED <<roots, applied, bounds, disturbed, twice>>
-----------------------------------------------------------------------------
\* Clear: a document's stacks go, and the entries they share with others go there
\* too; with no document, everything goes.
Clear(docs, linked) ==
    /\ clears < MaxClears /\ clears' = clears + 1
    /\ undoStack' = [d \in Docs |-> IF d \in docs THEN <<>> ELSE Without(undoStack[d], linked)]
    /\ redoStack' = [d \in Docs |-> IF d \in docs THEN <<>> ELSE Without(redoStack[d], linked)]
    /\ hasUndo' = [d \in Docs |-> hasUndo[d] /\ d \notin docs]
    /\ known' = known \ docs
    /\ forgotten' = forgotten \cup
          UNION {Range(undoStack[d]) \cup Range(redoStack[d]) : d \in docs}
    /\ UNCHANGED <<roots, job, applied, replays, disturbed, twice>>

ClearDoc(d) == Clear({d}, {e \in Range(undoStack[d]) \cup Range(redoStack[d]) : roots[e] # {d}})
ClearAll == Clear(Docs, {})

Next ==
    \/ Record
    \/ \E w \in Windows, d \in Docs : Undo(w, d) \/ Redo(w, d)
    \/ \E w \in Windows : \/ PerformDone(w) \/ PerformFailed(w)
                          \/ UndoCommit(w) \/ UndoRollback(w)
                          \/ RedoCommit(w) \/ RedoRollback(w)
    \/ \E d \in Docs : ClearDoc(d)
    \/ ClearAll

Spec == Init /\ [][Next]_vars
-----------------------------------------------------------------------------
Settled == Edits \ (disturbed \cup InFlight)

\* What can be undone is in effect, and what can be redone is not, on every stack
\* of every document: the linking of a shared entry's stacks never leaves one
\* behind.  Edits whose replay was disturbed are not counted.
StacksMatchDocuments ==
    \A d \in Docs, e \in Settled :
        /\ e \in Range(undoStack[d]) => <<e, d>> \in applied
        /\ e \in Range(redoStack[d]) => <<e, d>> \notin applied

\* An edit in effect can be undone from every document it changed, whatever was
\* undone, redone or refused since, unless a limit cut it or a clear dropped it.
AppliedIsUndoable ==
    \A e \in Settled \ forgotten : \A d \in roots[e] :
        <<e, d>> \in applied => e \in Range(undoStack[d])

\* An edit is undone only when it is in effect somewhere, and redone only when it is
\* not in effect everywhere, unless its replay was disturbed.
TwiceOnlyWhenDisturbed == \A t \in twice : t[2] \in disturbed
=============================================================================
