------------------------- MODULE MarkdownSaveProofs -------------------------
(***************************************************************************)
(* Proofs about MarkdownSave, for every bound, every set of writers, and   *)
(* any storage that reports no error after a write took effect:            *)
(*   - every step keeps the types, and no step takes a commit back;        *)
(*   - the answers given to saves hold of the document's path;             *)
(*   - no owed version disappears, but in the one window of the restore;   *)
(*   - without other programs, the transaction is an atomic document.      *)
(***************************************************************************)
EXTENDS MarkdownSaveRefinement, TLAPS

(* Where an operation can be while the journal records a commit: about to  *)
(* enter the gate, in the cleanup, or answering.                           *)
Removing == {"rm-isolate", "rm-check", "rm-abandon"}
Forward == {"idle", "gate", "finalize", "remove-source", "remove-staging",
            "discard", "failed", "succeeded"}

CommitInv ==
    journal.phase \in Committed =>
        \/ pc \in Forward
        \/ /\ pc \in Removing
           /\ rm.ok \in {"remove-source", "remove-staging"}
           /\ rm.bad \in {"failed", "succeeded"}

(* Every step keeps the variables in their types.                          *)
THEOREM TypeCorrect == Spec => []TypeOK
<1> USE SaveAssumption DEF TypeOK, File, Path, Transaction, Phases, Removal, Steps, Inodes
<1>1. Init => TypeOK
  <2> SUFFICES ASSUME Init PROVE TypeOK
    OBVIOUS
  <2>1. NoFile \in File /\ NoTx \in Transaction /\ NoRm \in Removal
    BY DEF NoFile, NoTx, NoRm
  <2>2. disk \in [Path -> File]
    BY DEF Init, NoFile
  <2>3. used \in [saves : Nat, edits : Nat, crashes : Nat, faults : Nat]
    BY DEF Init
  <2>4. pc \in Steps /\ orphans \subseteq [of : Path, file : File]
    BY DEF Init
  <2>5. journal \in Transaction /\ tx \in Transaction /\ rm \in Removal
    <3> HIDE DEF File, Path, Transaction, Phases, Removal, Steps
    <3>. QED BY <2>1 DEF Init
  <2>6. gate \in BOOLEAN /\ tidy \in BOOLEAN
    BY Zenon DEF Init
  <2>7. /\ op \in {"open", "save"} /\ want \in Nat /\ rev \in Nat
        /\ answer \in {"ok", "error", "blocked", "none"}
        /\ owed \subseteq Nat /\ refused \subseteq Nat /\ clock \in Nat
    BY DEF Init
  <2> HIDE DEF File, Path, Transaction, Phases, Removal, Steps
  <2>. QED BY <2>2, <2>3, <2>4, <2>5, <2>6, <2>7
<1>2. TypeOK /\ [Next]_vars => TypeOK'
  <2> SUFFICES ASSUME TypeOK, [Next]_vars PROVE TypeOK'
    OBVIOUS
  <2>1. CASE GateEnter
    BY <2>1 DEF GateEnter, Goto, Recovered, storage, client, ghosts, NoFile,
       NoTx, NoRm
  <2>2. CASE RecoverPrecommit
    BY <2>2 DEF RecoverPrecommit, Goto, storage, client, locals, ghosts,
       NoFile, NoTx, NoRm
  <2>3. CASE GatePassed
    BY <2>3 DEF GatePassed, Goto, storage, ghosts, NoFile, NoTx, NoRm
  <2>4. CASE AnswerFailed
    BY <2>4 DEF AnswerFailed, Goto, storage, NoFile, NoTx, NoRm
  <2>5. CASE AnswerSaved
    BY <2>5 DEF AnswerSaved, Goto, storage, ghosts, NoFile, NoTx, NoRm
  <2>6. CASE Begin
    BY <2>6 DEF Begin, Goto, WriteJournal, storage, client, locals, ghosts,
       Fault, NoFile, NoTx, NoRm
  <2>7. CASE StageCreate
    BY <2>7 DEF StageCreate, Goto, client, locals, ghosts, NoFile, NoTx, NoRm
  <2>8. CASE StageFill
    BY <2>8 DEF StageFill, Goto, Fault, client, locals, ghosts, NoFile, NoTx,
       NoRm
  <2>9. CASE StageRecord
    <3>1. [tx EXCEPT !.phase = "staged", !.targetID = disk["staging"]] \in Transaction
      OBVIOUS
    <3>2. tx' \in Transaction /\ journal' \in Transaction /\ pc' \in Steps
      BY <2>9, <3>1 DEF StageRecord, WriteJournal, Goto, Fault
    <3>3. used' \in [saves : Nat, edits : Nat, crashes : Nat, faults : Nat]
      BY <2>9 DEF StageRecord, WriteJournal, Fault
    <3>. QED
      BY <2>9, <3>2, <3>3 DEF StageRecord, storage, client, locals, ghosts
  <2>10. CASE CheckSource
    BY <2>10 DEF CheckSource, Goto, storage, client, locals, ghosts, NoFile,
       NoTx, NoRm
  <2>11. CASE RecordIsolating
    BY <2>11 DEF RecordIsolating, WriteJournal, InPhase, storage, client,
       locals, ghosts, Goto, Fault, NoFile, NoTx, NoRm
  <2>12. CASE Isolate
    BY <2>12 DEF Isolate, Goto, DurableRename, client, locals, ghosts, Fault,
       NoFile, NoTx, NoRm
  <2>13. CASE CheckQuarantine
    BY <2>13 DEF CheckQuarantine, Goto, storage, client, locals, ghosts,
       NoFile, NoTx, NoRm
  <2>14. CASE MoveBack
    BY <2>14 DEF MoveBack, Goto, StartRemoval, client, ghosts, NoFile, NoTx,
       NoRm
  <2>15. CASE RecordIsolated
    BY <2>15 DEF RecordIsolated, WriteJournal, InPhase, storage, client,
       ghosts, Goto, Fault, NoFile, NoTx, NoRm
  <2>16. CASE CheckIsolated
    BY <2>16 DEF CheckIsolated, Goto, storage, client, locals, ghosts, NoFile,
       NoTx, NoRm
  <2>17. CASE Link
    BY <2>17 DEF Link, Goto, Fault, client, locals, ghosts, NoFile, NoTx, NoRm
  <2>18. CASE CheckLinked
    BY <2>18 DEF CheckLinked, Goto, storage, client, locals, ghosts, NoFile,
       NoTx, NoRm
  <2>19. CASE RecordInstalled
    BY <2>19 DEF RecordInstalled, WriteJournal, InPhase, storage, client,
       locals, Goto, Fault, NoFile, NoTx, NoRm
  <2>20. CASE Finalize
    BY <2>20 DEF Finalize, Goto, StartRemoval, FinalizeError, storage, client,
       ghosts, NoFile, NoTx, NoRm
  <2>21. CASE RecordSourceRemoved
    BY <2>21 DEF RecordSourceRemoved, WriteJournal, InPhase, FinalizeError,
       storage, client, locals, ghosts, Goto, Fault, NoFile, NoTx, NoRm
  <2>22. CASE RecordFinalized
    BY <2>22 DEF RecordFinalized, WriteJournal, InPhase, FinalizeError,
       storage, client, locals, ghosts, Goto, Fault, NoFile, NoTx, NoRm
  <2>23. CASE Unlink
    BY <2>23 DEF Unlink, Goto, StartRemoval, storage, client, ghosts, NoFile,
       NoTx, NoRm
  <2>24. CASE RestoreCheck
    BY <2>24 DEF RestoreCheck, Goto, storage, client, locals, ghosts, NoFile,
       NoTx, NoRm
  <2>25. CASE RestoreRename
    BY <2>25 DEF RestoreRename, DurableRename, client, locals, ghosts, Goto,
       Fault, NoFile, NoTx, NoRm
  <2>26. CASE RecordRolledBack
    BY <2>26 DEF RecordRolledBack, WriteJournal, InPhase, storage, client,
       locals, ghosts, Goto, Fault, NoFile, NoTx, NoRm
  <2>27. CASE DropPayload
    BY <2>27 DEF DropPayload, StartRemoval, storage, client, ghosts, Goto,
       NoFile, NoTx, NoRm
  <2>28. CASE RemoveIsolate
    BY <2>28 DEF RemoveIsolate, Goto, DurableRename, MissingIsError, client,
       locals, ghosts, Fault, NoFile, NoTx, NoRm
  <2>29. CASE RemoveCheck
    BY <2>29 DEF RemoveCheck, Goto, Fault, client, locals, ghosts, NoFile,
       NoTx, NoRm
  <2>30. CASE RemoveAbandon
    BY <2>30 DEF RemoveAbandon, Goto, Abandoned, client, locals, ghosts,
       NoFile, NoTx, NoRm
  <2>31. CASE Discard
    BY <2>31 DEF Discard, Goto, Fault, storage, client, locals, ghosts,
       NoFile, NoTx, NoRm
  <2>32. CASE Open
    BY <2>32 DEF Open, Goto, storage, ghosts, NoFile, NoTx, NoRm
  <2>33. CASE Save
    BY <2>33 DEF Save, Goto, storage, ghosts, NoFile, NoTx, NoRm
  <2>34. CASE EditInPlace
    BY <2>34 DEF EditInPlace, Edited, client, locals, NoFile, NoTx, NoRm
  <2>35. CASE EditPut
    BY <2>35 DEF EditPut, Edited, client, locals, NoFile, NoTx, NoRm
  <2>36. CASE EditDelete
    BY <2>36 DEF EditDelete, Edited, client, locals, NoFile, NoTx, NoRm
  <2>37. CASE Crash
    <3>1. NoFile \in File /\ NoTx \in Transaction /\ NoRm \in Removal
      BY DEF NoFile, NoTx, NoRm
    <3>2. disk' \in [Path -> File] /\ orphans' \subseteq [of : Path, file : File]
      BY <2>37, <3>1 DEF Crash, Abandoned
    <3>3. used' \in [saves : Nat, edits : Nat, crashes : Nat, faults : Nat]
      BY <2>37 DEF Crash
    <3>4. pc' \in Steps
      BY <2>37 DEF Crash, Goto
    <3> HIDE DEF File, Path, Transaction, Phases, Removal, Steps
    <3>. QED
      BY <2>37, <3>1, <3>2, <3>3, <3>4 DEF Crash, ghosts
  <2>38. CASE UNCHANGED vars
    BY <2>38 DEF vars
  <2>. QED
    BY <2>1, <2>2, <2>3, <2>4, <2>5, <2>6, <2>7, <2>8, <2>9, <2>10, <2>11,
       <2>12, <2>13, <2>14, <2>15, <2>16, <2>17, <2>18, <2>19, <2>20,
       <2>21, <2>22, <2>23, <2>24, <2>25, <2>26, <2>27, <2>28, <2>29,
       <2>30, <2>31, <2>32, <2>33, <2>34, <2>35, <2>36, <2>37, <2>38
       DEF Next, Kernel, Environment
<1>. QED BY <1>1, <1>2, PTL DEF Spec

(* While the journal records a commit no step outside Forward and its       *)
(* removals is under way.                                                  *)
LEMMA CommitInvariant ==
    ASSUME "unsynced" \notin Faults
    PROVE  Spec => []CommitInv
<1> USE DEF CommitInv, Committed, Precommit, Forward, Removing
<1>1. Init => CommitInv
  BY DEF Init, NoTx
<1>2. TypeOK /\ CommitInv /\ [Next]_vars => CommitInv'
  <2> SUFFICES ASSUME TypeOK, CommitInv, [Next]_vars PROVE CommitInv'
    OBVIOUS
  <2> USE DEF TypeOK, Transaction
  <2>1. CASE GateEnter
    BY <2>1, "unsynced" \notin Faults DEF GateEnter, Goto, Recovered, storage,
       client, ghosts, NoTx, NoRm
  <2>2. CASE RecoverPrecommit
    BY <2>2, "unsynced" \notin Faults DEF RecoverPrecommit, Goto, storage,
       client, locals, ghosts, NoTx, NoRm
  <2>3. CASE GatePassed
    BY <2>3, "unsynced" \notin Faults DEF GatePassed, Goto, storage, ghosts,
       NoTx, NoRm
  <2>4. CASE AnswerFailed
    BY <2>4, "unsynced" \notin Faults DEF AnswerFailed, Goto, storage, NoTx,
       NoRm
  <2>5. CASE AnswerSaved
    BY <2>5, "unsynced" \notin Faults DEF AnswerSaved, Goto, storage, ghosts,
       NoTx, NoRm
  <2>6. CASE Begin
    BY <2>6, "unsynced" \notin Faults DEF Begin, Goto, WriteJournal, storage,
       client, locals, ghosts, Fault, NoTx, NoRm
  <2>7. CASE StageCreate
    BY <2>7, "unsynced" \notin Faults DEF StageCreate, Goto, client, locals,
       ghosts, NoTx, NoRm
  <2>8. CASE StageFill
    BY <2>8, "unsynced" \notin Faults DEF StageFill, Goto, Fault, client,
       locals, ghosts, NoTx, NoRm
  <2>9. CASE StageRecord
    BY <2>9, "unsynced" \notin Faults DEF StageRecord, WriteJournal, storage,
       client, locals, ghosts, Goto, Fault, NoTx, NoRm
  <2>10. CASE CheckSource
    BY <2>10, "unsynced" \notin Faults DEF CheckSource, Goto, storage, client,
       locals, ghosts, NoTx, NoRm
  <2>11. CASE RecordIsolating
    BY <2>11, "unsynced" \notin Faults DEF RecordIsolating, WriteJournal,
       InPhase, storage, client, locals, ghosts, Goto, Fault, NoTx, NoRm
  <2>12. CASE Isolate
    BY <2>12, "unsynced" \notin Faults DEF Isolate, Goto, DurableRename,
       client, locals, ghosts, Fault, NoTx, NoRm
  <2>13. CASE CheckQuarantine
    BY <2>13, "unsynced" \notin Faults DEF CheckQuarantine, Goto, storage,
       client, locals, ghosts, NoTx, NoRm
  <2>14. CASE MoveBack
    BY <2>14, "unsynced" \notin Faults DEF MoveBack, Goto, StartRemoval,
       client, ghosts, NoTx, NoRm
  <2>15. CASE RecordIsolated
    BY <2>15, "unsynced" \notin Faults DEF RecordIsolated, WriteJournal,
       InPhase, storage, client, ghosts, Goto, Fault, NoTx, NoRm
  <2>16. CASE CheckIsolated
    BY <2>16, "unsynced" \notin Faults DEF CheckIsolated, Goto, storage,
       client, locals, ghosts, NoTx, NoRm
  <2>17. CASE Link
    BY <2>17, "unsynced" \notin Faults DEF Link, Goto, Fault, client, locals,
       ghosts, NoTx, NoRm
  <2>18. CASE CheckLinked
    BY <2>18, "unsynced" \notin Faults DEF CheckLinked, Goto, storage, client,
       locals, ghosts, NoTx, NoRm
  <2>19. CASE RecordInstalled
    BY <2>19, "unsynced" \notin Faults DEF RecordInstalled, WriteJournal,
       InPhase, storage, client, locals, Goto, Fault, NoTx, NoRm
  <2>20. CASE Finalize
    BY <2>20, "unsynced" \notin Faults DEF Finalize, Goto, StartRemoval,
       FinalizeError, storage, client, ghosts, NoTx, NoRm
  <2>21. CASE RecordSourceRemoved
    BY <2>21, "unsynced" \notin Faults DEF RecordSourceRemoved, WriteJournal,
       InPhase, FinalizeError, storage, client, locals, ghosts, Goto, Fault,
       NoTx, NoRm
  <2>22. CASE RecordFinalized
    BY <2>22, "unsynced" \notin Faults DEF RecordFinalized, WriteJournal,
       InPhase, FinalizeError, storage, client, locals, ghosts, Goto, Fault,
       NoTx, NoRm
  <2>23. CASE Unlink
    BY <2>23, "unsynced" \notin Faults DEF Unlink, Goto, StartRemoval,
       storage, client, ghosts, NoTx, NoRm
  <2>24. CASE RestoreCheck
    BY <2>24, "unsynced" \notin Faults DEF RestoreCheck, Goto, storage,
       client, locals, ghosts, NoTx, NoRm
  <2>25. CASE RestoreRename
    BY <2>25, "unsynced" \notin Faults DEF RestoreRename, DurableRename,
       client, locals, ghosts, Goto, Fault, NoTx, NoRm
  <2>26. CASE RecordRolledBack
    BY <2>26, "unsynced" \notin Faults DEF RecordRolledBack, WriteJournal,
       InPhase, storage, client, locals, ghosts, Goto, Fault, NoTx, NoRm
  <2>27. CASE DropPayload
    BY <2>27, "unsynced" \notin Faults DEF DropPayload, StartRemoval, storage,
       client, ghosts, Goto, NoTx, NoRm
  <2>28. CASE RemoveIsolate
    BY <2>28, "unsynced" \notin Faults DEF RemoveIsolate, Goto, DurableRename,
       MissingIsError, client, locals, ghosts, Fault, NoTx, NoRm
  <2>29. CASE RemoveCheck
    BY <2>29, "unsynced" \notin Faults DEF RemoveCheck, Goto, Fault, client,
       locals, ghosts, NoTx, NoRm
  <2>30. CASE RemoveAbandon
    BY <2>30, "unsynced" \notin Faults DEF RemoveAbandon, Goto, Abandoned,
       client, locals, ghosts, NoTx, NoRm
  <2>31. CASE Discard
    BY <2>31, "unsynced" \notin Faults DEF Discard, Goto, Fault, storage,
       client, locals, ghosts, NoTx, NoRm
  <2>32. CASE Open
    BY <2>32, "unsynced" \notin Faults DEF Open, Goto, storage, ghosts, NoTx,
       NoRm
  <2>33. CASE Save
    BY <2>33, "unsynced" \notin Faults DEF Save, Goto, storage, ghosts, NoTx,
       NoRm
  <2>34. CASE EditInPlace
    BY <2>34, "unsynced" \notin Faults DEF EditInPlace, Edited, client,
       locals, NoTx, NoRm
  <2>35. CASE EditPut
    BY <2>35, "unsynced" \notin Faults DEF EditPut, Edited, client, locals,
       NoTx, NoRm
  <2>36. CASE EditDelete
    BY <2>36, "unsynced" \notin Faults DEF EditDelete, Edited, client, locals,
       NoTx, NoRm
  <2>37. CASE Crash
    BY <2>37, "unsynced" \notin Faults DEF Crash, Goto, Abandoned, ghosts,
       NoTx, NoRm
  <2>38. CASE UNCHANGED vars
    BY <2>38 DEF vars
  <2>. QED
    BY <2>1, <2>2, <2>3, <2>4, <2>5, <2>6, <2>7, <2>8, <2>9, <2>10, <2>11,
       <2>12, <2>13, <2>14, <2>15, <2>16, <2>17, <2>18, <2>19, <2>20,
       <2>21, <2>22, <2>23, <2>24, <2>25, <2>26, <2>27, <2>28, <2>29,
       <2>30, <2>31, <2>32, <2>33, <2>34, <2>35, <2>36, <2>37, <2>38
       DEF Next, Kernel, Environment
<1>. QED BY <1>1, <1>2, TypeCorrect, PTL DEF Spec

(* A recorded commit is never taken back: the record only moves towards    *)
(* the end of the cleanup, or goes with it.                                *)
THEOREM CommitNeverUndone ==
    ASSUME "unsynced" \notin Faults
    PROVE  Spec => CommitIsFinal
<1> USE DEF CommitInv, Committed, Precommit, Forward, Removing
<1>1. TypeOK /\ CommitInv /\ [Next]_vars
      => [journal.phase \in Committed => journal'.phase \in Committed \cup {"none"}]_vars
  <2> SUFFICES ASSUME TypeOK, CommitInv, [Next]_vars, journal.phase \in Committed
               PROVE  journal'.phase \in Committed \cup {"none"}
    OBVIOUS
  <2> USE DEF TypeOK, Transaction
  <2>1. CASE GateEnter
    BY <2>1, "unsynced" \notin Faults DEF GateEnter, Goto, Recovered, storage,
       client, ghosts, NoTx
  <2>2. CASE RecoverPrecommit
    BY <2>2, "unsynced" \notin Faults DEF RecoverPrecommit, Goto, storage,
       client, locals, ghosts, NoTx
  <2>3. CASE GatePassed
    BY <2>3, "unsynced" \notin Faults DEF GatePassed, Goto, storage, ghosts,
       NoTx
  <2>4. CASE AnswerFailed
    BY <2>4, "unsynced" \notin Faults DEF AnswerFailed, Goto, storage, NoTx
  <2>5. CASE AnswerSaved
    BY <2>5, "unsynced" \notin Faults DEF AnswerSaved, Goto, storage, ghosts,
       NoTx
  <2>6. CASE Begin
    BY <2>6, "unsynced" \notin Faults DEF Begin, Goto, WriteJournal, storage,
       client, locals, ghosts, Fault, NoTx
  <2>7. CASE StageCreate
    BY <2>7, "unsynced" \notin Faults DEF StageCreate, Goto, client, locals,
       ghosts, NoTx
  <2>8. CASE StageFill
    BY <2>8, "unsynced" \notin Faults DEF StageFill, Goto, Fault, client,
       locals, ghosts, NoTx
  <2>9. CASE StageRecord
    BY <2>9, "unsynced" \notin Faults DEF StageRecord, WriteJournal, storage,
       client, locals, ghosts, Goto, Fault, NoTx
  <2>10. CASE CheckSource
    BY <2>10, "unsynced" \notin Faults DEF CheckSource, Goto, storage, client,
       locals, ghosts, NoTx
  <2>11. CASE RecordIsolating
    BY <2>11, "unsynced" \notin Faults DEF RecordIsolating, WriteJournal,
       InPhase, storage, client, locals, ghosts, Goto, Fault, NoTx
  <2>12. CASE Isolate
    BY <2>12, "unsynced" \notin Faults DEF Isolate, Goto, DurableRename,
       client, locals, ghosts, Fault, NoTx
  <2>13. CASE CheckQuarantine
    BY <2>13, "unsynced" \notin Faults DEF CheckQuarantine, Goto, storage,
       client, locals, ghosts, NoTx
  <2>14. CASE MoveBack
    BY <2>14, "unsynced" \notin Faults DEF MoveBack, Goto, StartRemoval,
       client, ghosts, NoTx
  <2>15. CASE RecordIsolated
    BY <2>15, "unsynced" \notin Faults DEF RecordIsolated, WriteJournal,
       InPhase, storage, client, ghosts, Goto, Fault, NoTx
  <2>16. CASE CheckIsolated
    BY <2>16, "unsynced" \notin Faults DEF CheckIsolated, Goto, storage,
       client, locals, ghosts, NoTx
  <2>17. CASE Link
    BY <2>17, "unsynced" \notin Faults DEF Link, Goto, Fault, client, locals,
       ghosts, NoTx
  <2>18. CASE CheckLinked
    BY <2>18, "unsynced" \notin Faults DEF CheckLinked, Goto, storage, client,
       locals, ghosts, NoTx
  <2>19. CASE RecordInstalled
    BY <2>19, "unsynced" \notin Faults DEF RecordInstalled, WriteJournal,
       InPhase, storage, client, locals, Goto, Fault, NoTx
  <2>20. CASE Finalize
    BY <2>20, "unsynced" \notin Faults DEF Finalize, Goto, StartRemoval,
       FinalizeError, storage, client, ghosts, NoTx
  <2>21. CASE RecordSourceRemoved
    BY <2>21, "unsynced" \notin Faults DEF RecordSourceRemoved, WriteJournal,
       InPhase, FinalizeError, storage, client, locals, ghosts, Goto, Fault,
       NoTx
  <2>22. CASE RecordFinalized
    BY <2>22, "unsynced" \notin Faults DEF RecordFinalized, WriteJournal,
       InPhase, FinalizeError, storage, client, locals, ghosts, Goto, Fault,
       NoTx
  <2>23. CASE Unlink
    BY <2>23, "unsynced" \notin Faults DEF Unlink, Goto, StartRemoval,
       storage, client, ghosts, NoTx
  <2>24. CASE RestoreCheck
    BY <2>24, "unsynced" \notin Faults DEF RestoreCheck, Goto, storage,
       client, locals, ghosts, NoTx
  <2>25. CASE RestoreRename
    BY <2>25, "unsynced" \notin Faults DEF RestoreRename, DurableRename,
       client, locals, ghosts, Goto, Fault, NoTx
  <2>26. CASE RecordRolledBack
    BY <2>26, "unsynced" \notin Faults DEF RecordRolledBack, WriteJournal,
       InPhase, storage, client, locals, ghosts, Goto, Fault, NoTx
  <2>27. CASE DropPayload
    BY <2>27, "unsynced" \notin Faults DEF DropPayload, StartRemoval, storage,
       client, ghosts, Goto, NoTx
  <2>28. CASE RemoveIsolate
    BY <2>28, "unsynced" \notin Faults DEF RemoveIsolate, Goto, DurableRename,
       MissingIsError, client, locals, ghosts, Fault, NoTx
  <2>29. CASE RemoveCheck
    BY <2>29, "unsynced" \notin Faults DEF RemoveCheck, Goto, Fault, client,
       locals, ghosts, NoTx
  <2>30. CASE RemoveAbandon
    BY <2>30, "unsynced" \notin Faults DEF RemoveAbandon, Goto, Abandoned,
       client, locals, ghosts, NoTx
  <2>31. CASE Discard
    BY <2>31, "unsynced" \notin Faults DEF Discard, Goto, Fault, storage,
       client, locals, ghosts, NoTx
  <2>32. CASE Open
    BY <2>32, "unsynced" \notin Faults DEF Open, Goto, storage, ghosts, NoTx
  <2>33. CASE Save
    BY <2>33, "unsynced" \notin Faults DEF Save, Goto, storage, ghosts, NoTx
  <2>34. CASE EditInPlace
    BY <2>34, "unsynced" \notin Faults DEF EditInPlace, Edited, client,
       locals, NoTx
  <2>35. CASE EditPut
    BY <2>35, "unsynced" \notin Faults DEF EditPut, Edited, client, locals,
       NoTx
  <2>36. CASE EditDelete
    BY <2>36, "unsynced" \notin Faults DEF EditDelete, Edited, client, locals,
       NoTx
  <2>37. CASE Crash
    BY <2>37, "unsynced" \notin Faults DEF Crash, Goto, Abandoned, ghosts, NoTx
  <2>38. CASE UNCHANGED vars
    BY <2>38 DEF vars
  <2>. QED
    BY <2>1, <2>2, <2>3, <2>4, <2>5, <2>6, <2>7, <2>8, <2>9, <2>10, <2>11,
       <2>12, <2>13, <2>14, <2>15, <2>16, <2>17, <2>18, <2>19, <2>20,
       <2>21, <2>22, <2>23, <2>24, <2>25, <2>26, <2>27, <2>28, <2>29,
       <2>30, <2>31, <2>32, <2>33, <2>34, <2>35, <2>36, <2>37, <2>38
       DEF Next, Kernel, Environment
<1>. QED BY <1>1, TypeCorrect, CommitInvariant, PTL DEF Spec, CommitIsFinal

-----------------------------------------------------------------------------
(* What the answers promise.  The invariant below describes the files of a *)
(* transaction in every phase its record can be in, whichever operation is *)
(* running, and whatever other programs have done to the document's path.  *)

source     == disk["source"]
staging    == disk["staging"]
quarantine == disk["quarantine"]
leaf       == disk["removing"]

Undecided == {"source-isolating", "source-isolated"}
Committing == {"create", "fill", "stage", "check-source", "isolating", "isolate",
               "check-quarantine", "move-back", "isolated", "check-isolated", "link",
               "linked", "install"}

(* Versions come from the clock; nobody is owed one that was refused.  The *)
(* inode 0 is that of no file.                                             *)
Versions ==
    /\ owed \subseteq 1 .. (clock - 1) /\ refused \subseteq 1 .. (clock - 1)
    /\ want \in 0 .. (clock - 1) /\ (op = "save" => want > 0)
    /\ \A p \in Path : disk[p].ver < clock /\ (disk[p].ino = 0 => disk[p] = NoFile)
    /\ journal.sourceID.ver < clock /\ tx.sourceID.ver < clock
    /\ owed \cap refused = {}

SourceFine == IF Present("source") THEN source.ver \in owed ELSE "delete" \in Writers

(* The layouts of an undecided transaction: nothing is isolated; the       *)
(* source is, and the path holds the payload, a newer file or nothing; or  *)
(* the isolation took a file that another program had just put there.      *)
OwnLink == journal.phase = "source-isolated" /\ source = journal.targetID
Whole == ~Present("quarantine") /\ SourceFine
Apart == /\ Same("quarantine", journal.sourceID)
         /\ quarantine.ver \in owed /\ source.ver # quarantine.ver
         /\ Present("source") => /\ source.ino # quarantine.ino
                                 /\ source.ver \in owed \/ OwnLink
Foreign == /\ journal.phase = "source-isolating"
           /\ Present("quarantine") /\ quarantine # journal.sourceID
           /\ Present("source") => source.ver \in owed

Layout ==
    /\ journal.phase \notin Undecided => SourceFine
    /\ journal.phase \in {"none", "prepared", "staged", "rolled-back"} => ~Present("quarantine")
    /\ journal.phase \in Undecided => Whole \/ Apart \/ Foreign
    /\ journal.phase \in {"staged"} \cup Undecided => journal.targetID.ino # journal.sourceID.ino
    /\ Present("removing") => pc \in {"rm-check", "rm-abandon"}

(* What a running save may rely on at each of its steps.                   *)
Saving ==
    /\ pc \in {"begin"} \cup Committing => ~gate /\ op = "save"
    /\ pc \in {"gate", "recover", "passed"} => gate
    /\ pc \in {"passed", "begin"} => journal.phase = "none"
    /\ pc \in {"create", "fill", "stage"} =>
          /\ journal.phase = "prepared" /\ tx.sourceID = journal.sourceID
          /\ pc # "create" => /\ Present("staging") /\ staging.ino # journal.sourceID.ino
                              /\ Present("source") => source.ino # staging.ino
          /\ pc = "stage" => staging.ver = want
    /\ pc \in {"check-source", "isolating"} => journal.phase = "staged"
    /\ pc \in {"isolate", "check-quarantine", "move-back", "isolated"} =>
          journal.phase = "source-isolating"
    /\ pc \in {"check-isolated", "link", "linked", "install"} =>
          journal.phase = "source-isolated"
    /\ pc \in Committing \ {"create", "fill", "stage"} =>
          tx = journal /\ tx.targetID.ver = want
    /\ pc = "isolate" => ~Present("quarantine")
    /\ pc \in {"check-quarantine", "move-back"} =>
          /\ Present("quarantine") /\ quarantine.ver \in owed /\ source.ver # quarantine.ver
          /\ Present("source") => source.ino # quarantine.ino
    /\ pc = "move-back" => quarantine # journal.sourceID
    /\ pc \in {"check-quarantine", "isolated", "check-isolated", "link"} =>
          (Present("source") => source.ino # staging.ino /\ source.ver \in owed)
    /\ pc \in {"isolated", "check-isolated", "link", "linked", "install",
               "unlink", "restore", "restore-rename"} =>
          Same("quarantine", journal.sourceID)
    /\ pc = "link" => Same("staging", journal.targetID)
    /\ pc = "install" => Same("source", journal.targetID) \/ SourceFine

(* What a recovery, a rollback or a cleanup may rely on.                   *)
RollingBack ==
    /\ pc = "recover" =>
          /\ journal.phase \in Precommit /\ tx.sourceID = journal.sourceID
          /\ journal.phase # "prepared" => tx.targetID = journal.targetID
    /\ pc \in {"unlink", "restore", "restore-rename"} =>
          /\ journal.phase \in Undecided
          /\ tx.sourceID = journal.sourceID /\ tx.targetID = journal.targetID
    /\ pc = "roll-back" => journal.phase \in Precommit /\ ~Present("quarantine")
    /\ pc = "drop" => journal.phase = "rolled-back" /\ tx.phase # "finalized"
    /\ pc = "discard" =>
          /\ journal.phase \in {"none", "staged", "rolled-back", "finalized"}
          /\ tx.phase = "finalized" => journal.phase = "finalized"
    /\ pc \in {"finalize", "remove-source", "remove-staging"} =>
          journal.phase \in Committed /\ tx = journal

(* The removals: of the transaction's own link, of a file moved back, of   *)
(* the payload of a rollback, and of what a commit leaves.                 *)
Unlinking ==
    pc \in Removing =>
       \/ /\ rm.path = "source" /\ rm.ok = "restore" /\ rm.bad = "failed"
          /\ journal.phase \in Undecided /\ Same("quarantine", journal.sourceID)
          /\ tx.sourceID = journal.sourceID /\ tx.targetID = journal.targetID
          /\ rm.id = journal.targetID
          /\ pc = "rm-check" =>
                /\ Present("removing") /\ (Present("source") => source.ino # leaf.ino)
                /\ \/ leaf = rm.id
                   \/ leaf.ver \in owed /\ source.ver # leaf.ver /\ leaf.ver # quarantine.ver
       \/ /\ rm.path = "quarantine" /\ journal.phase = "source-isolating"
          /\ rm.ok = "failed" /\ rm.bad = "failed" /\ SourceFine
          /\ ~Same("quarantine", journal.sourceID)
       \/ /\ rm.path = "staging" /\ journal.phase = "rolled-back" /\ tx.phase # "finalized"
          /\ rm.ok = "discard" /\ rm.bad = "failed"
       \/ /\ journal.phase \in Committed /\ tx = journal /\ rm.bad = FinalizeError
          /\ \/ rm.path = "quarantine" /\ rm.ok = "remove-source"
             \/ rm.path = "staging" /\ rm.ok = "remove-staging"

(* A save under way has been neither refused nor, before its commit, paid. *)
Promised ==
    /\ op = "save" /\ pc # "idle" => want \notin refused
    /\ op = "save" /\ pc \notin {"idle", "succeeded"} /\ (gate \/ journal.phase \notin Committed)
          => want \notin owed
    /\ ~gate /\ journal.phase \in Committed /\ pc # "idle" =>
          pc \in {"finalize", "remove-source", "remove-staging", "discard", "succeeded"} \cup Removing
    /\ ~gate /\ journal.phase \in Committed /\ pc = "discard" => tx.phase = "finalized"

AnswersInv ==
    Versions /\ Layout /\ Saving /\ RollingBack /\ Unlinking /\ Promised

USE SaveAssumption
    DEF TypeOK, File, Path, Transaction, Removal, NoFile, NoTx, NoRm, Present, Same,
        source, staging, quarantine, leaf, Precommit, Committed, Undecided, Removing,
        Committing

(* The gate takes the record into memory; no file moves.                   *)
LEMMA GateEnterAnswers ==
    ASSUME TypeOK, AnswersInv, GateEnter, "unsynced" \notin Faults
    PROVE  AnswersInv'
<1> USE DEF AnswersInv, GateEnter, Goto, Recovered, storage, client, ghosts,
            locals
<1>1. Versions' /\ Layout' /\ Saving' /\ RollingBack' /\ Unlinking' /\ Promised'
  BY DEF Versions, Layout, SourceFine, OwnLink, Whole, Apart, Foreign, Saving,
     RollingBack, Unlinking, FinalizeError, Promised
<1>. QED BY <1>1

(* Each layout leads to the step that undoes it; any other shuts the gate. *)
LEMMA RecoverPrecommitAnswers ==
    ASSUME TypeOK, AnswersInv, RecoverPrecommit, "unsynced" \notin Faults
    PROVE  AnswersInv'
<1> USE DEF AnswersInv, RecoverPrecommit, Goto, Untouched, Isolated, Linked,
            storage, client, locals, ghosts
<1>1. Versions' /\ Layout' /\ Unlinking' /\ Promised'
  BY DEF Versions, Layout, SourceFine, OwnLink, Whole, Apart, Foreign,
     Unlinking, FinalizeError, Promised
<1>2. Saving'
  BY DEF Saving, SourceFine, RollingBack
<1>3. RollingBack'
  BY DEF RollingBack, Layout, SourceFine, OwnLink, Whole, Apart, Foreign
<1>. QED BY <1>1, <1>2, <1>3

(* The record is gone, so the path holds the version in force.             *)
LEMMA GatePassedAnswers ==
    ASSUME TypeOK, AnswersInv, GatePassed, "unsynced" \notin Faults
    PROVE  AnswersInv'
<1> USE DEF AnswersInv, GatePassed, Goto, storage, ghosts, client, locals
<1>1. Versions' /\ Layout' /\ Saving' /\ RollingBack' /\ Unlinking'
  BY DEF Versions, Layout, SourceFine, OwnLink, Whole, Apart, Foreign, Saving,
     RollingBack, Unlinking, FinalizeError
<1>2. Promised'
  BY DEF Promised, FinalizeError, Saving, SourceFine
<1>. QED BY <1>1, <1>2

(* What is refused here was never owed: its commit is not recorded.        *)
LEMMA AnswerFailedAnswers ==
    ASSUME TypeOK, AnswersInv, AnswerFailed, "unsynced" \notin Faults
    PROVE  AnswersInv'
<1> USE DEF AnswersInv, AnswerFailed, Goto, storage, client, locals, ghosts
<1>1. Layout' /\ Saving' /\ RollingBack' /\ Unlinking' /\ Promised'
  BY DEF Layout, SourceFine, OwnLink, Whole, Apart, Foreign, Saving,
     RollingBack, Unlinking, FinalizeError, Promised
<1>2. op = "save" => want \notin owed
  BY DEF Promised
<1>3. refused' \subseteq refused \cup {want} /\ (op # "save" => refused' = refused)
  OBVIOUS
<1>4. UNCHANGED <<disk, journal, owed, op, want, clock>> /\ tx' = NoTx
  OBVIOUS
<1>5. Versions'
  <2> HIDE DEF AnswerFailed
  <2>1. refused' \subseteq 1 .. (clock - 1)
    BY <1>3 DEF Versions
  <2>2. owed \cap refused' = {}
    BY <1>2, <1>3 DEF Versions
  <2>3. 0 < clock
    BY DEF Versions
  <2>. QED BY <1>4, <2>1, <2>2, <2>3 DEF Versions
<1>. QED BY <1>1, <1>5

(* A save that succeeded is no longer promised anything.                   *)
LEMMA AnswerSavedAnswers ==
    ASSUME TypeOK, AnswersInv, AnswerSaved, "unsynced" \notin Faults
    PROVE  AnswersInv'
<1> USE DEF AnswersInv, AnswerSaved, Goto, storage, ghosts, client, locals
<1>1. Versions' /\ Layout' /\ Saving' /\ RollingBack' /\ Unlinking' /\ Promised'
  BY DEF Versions, Layout, SourceFine, OwnLink, Whole, Apart, Foreign, Saving,
     RollingBack, Unlinking, FinalizeError, Promised
<1>. QED BY <1>1

(* The first record; nothing is isolated yet.                              *)
LEMMA BeginAnswers ==
    ASSUME TypeOK, AnswersInv, Begin, "unsynced" \notin Faults
    PROVE  AnswersInv'
<1> USE DEF AnswersInv, Begin, Goto, WriteJournal, storage, client, locals,
            ghosts, Fault
<1>1. Versions' /\ Saving' /\ Unlinking' /\ Promised'
  BY DEF Versions, Saving, SourceFine, Unlinking, FinalizeError, Promised
<1>2. Layout'
  BY DEF Layout, SourceFine, OwnLink, Whole, Apart, Foreign, Saving
<1>3. RollingBack'
  BY DEF RollingBack, Saving, SourceFine
<1>. QED BY <1>1, <1>2, <1>3

(* The payload is a new inode, hence not the source.                       *)
LEMMA StageCreateAnswers ==
    ASSUME TypeOK, AnswersInv, StageCreate, "unsynced" \notin Faults
    PROVE  AnswersInv'
<1> USE DEF AnswersInv, StageCreate, Goto, Fresh, Inodes, client, locals,
            ghosts, InUse
<1>1. Versions' /\ Layout' /\ Saving' /\ RollingBack' /\ Unlinking' /\ Promised'
  BY DEF Versions, Layout, SourceFine, OwnLink, Whole, Apart, Foreign, Saving,
     RollingBack, Unlinking, FinalizeError, Promised
<1>. QED BY <1>1

(* Only the payload changes, and it is not the file at the path.           *)
LEMMA StageFillAnswers ==
    ASSUME TypeOK, AnswersInv, StageFill, "unsynced" \notin Faults
    PROVE  AnswersInv'
<1> USE DEF AnswersInv, StageFill, Goto, Fault, client, locals, ghosts
<1>1. Layout' /\ RollingBack' /\ Unlinking' /\ Promised'
  BY DEF Layout, SourceFine, OwnLink, Whole, Apart, Foreign, RollingBack,
     Unlinking, FinalizeError, Promised
<1>2. Versions'
  BY DEF Versions, Saving, SourceFine
<1>3. Saving'
  BY DEF Saving, SourceFine, Versions
<1>. QED BY <1>1, <1>2, <1>3

(* The recorded target is the payload, another inode than the source.      *)
LEMMA StageRecordAnswers ==
    ASSUME TypeOK, AnswersInv, StageRecord, "unsynced" \notin Faults
    PROVE  AnswersInv'
<1> USE DEF AnswersInv, StageRecord, WriteJournal, Goto, Fault, storage, client,
        locals, ghosts
<1>0. tx' = [phase |-> "staged", sourceID |-> tx.sourceID, targetID |-> staging]
  OBVIOUS
<1>1. Versions' /\ RollingBack'
  BY DEF Versions, Saving, RollingBack
<1>7. Unlinking' /\ Promised'
  BY DEF Saving, Unlinking, Promised, Layout
<1>2. UNCHANGED <<disk, owed>> /\ journal.phase = "prepared" /\ SourceFine /\ ~Present("quarantine")
  BY DEF Saving, Layout
<1>3. \/ journal' = journal /\ pc' = "failed"
      \/ journal' = tx' /\ pc' = "check-source"
  BY DEF Saving
<1>4. /\ ~Present("removing") /\ staging.ino # journal.sourceID.ino
      /\ tx.sourceID = journal.sourceID /\ staging.ver = want /\ ~gate /\ op = "save"
  BY DEF Layout, Saving
<1>5. Layout'
  <2>1. SourceFine'
    BY <1>2 DEF SourceFine
  <2>. QED BY ONLY <1>0, <1>2, <1>3, <1>4, <2>1 DEF Layout, NoFile, Present, Undecided
<1>6. Saving'
  BY <1>0, <1>2, <1>3, <1>4 DEF Saving, SourceFine
<1>. QED BY <1>1, <1>5, <1>6, <1>7

(* A test; the files stay.                                                 *)
LEMMA CheckSourceAnswers ==
    ASSUME TypeOK, AnswersInv, CheckSource, "unsynced" \notin Faults
    PROVE  AnswersInv'
<1> USE DEF AnswersInv, CheckSource, Goto, storage, client, locals, ghosts
<1>1. Versions' /\ Layout' /\ Saving' /\ RollingBack' /\ Unlinking' /\ Promised'
  BY DEF Versions, Layout, SourceFine, OwnLink, Whole, Apart, Foreign, Saving,
     RollingBack, Unlinking, FinalizeError, Promised
<1>. QED BY <1>1

(* From here on the layout is open, and nothing is isolated yet.           *)
LEMMA RecordIsolatingAnswers ==
    ASSUME TypeOK, AnswersInv, RecordIsolating, "unsynced" \notin Faults
    PROVE  AnswersInv'
<1> USE DEF AnswersInv, RecordIsolating, WriteJournal, InPhase, storage,
            client, locals, ghosts, Goto, Fault
<1>1. Versions' /\ Unlinking' /\ Promised'
  BY DEF Versions, Unlinking, SourceFine, FinalizeError, Promised
<1>2. Layout'
  BY DEF Layout, SourceFine, OwnLink, Whole, Apart, Foreign, Saving
<1>3. Saving'
  BY DEF Saving, SourceFine, Layout, OwnLink, Whole, Apart, Foreign
<1>4. RollingBack'
  BY DEF RollingBack, Saving, SourceFine
<1>. QED BY <1>1, <1>2, <1>3, <1>4

(* What the rename took is the source, or a file put there since the test. *)
LEMMA IsolateAnswers ==
    ASSUME TypeOK, AnswersInv, Isolate, "unsynced" \notin Faults
    PROVE  AnswersInv'
<1> USE DEF AnswersInv, Isolate, Goto, DurableRename, client, locals, ghosts,
            Fault
<1>1. Versions' /\ RollingBack' /\ Unlinking' /\ Promised'
  BY DEF Versions, RollingBack, Unlinking, SourceFine, FinalizeError, Promised
<1>2. Layout'
  BY DEF Layout, SourceFine, OwnLink, Whole, Apart, Foreign, Versions, Saving
<1>3. Saving'
  BY DEF Saving, SourceFine, Versions, Layout, OwnLink, Whole, Apart, Foreign
<1>. QED BY <1>1, <1>2, <1>3

(* Tells the source from a foreign file.                                   *)
LEMMA CheckQuarantineAnswers ==
    ASSUME TypeOK, AnswersInv, CheckQuarantine, "unsynced" \notin Faults
    PROVE  AnswersInv'
<1> USE DEF AnswersInv, CheckQuarantine, Goto, storage, client, locals, ghosts
<1>1. Versions' /\ Layout' /\ Saving' /\ RollingBack' /\ Unlinking' /\ Promised'
  BY DEF Versions, Layout, SourceFine, OwnLink, Whole, Apart, Foreign, Saving,
     RollingBack, Unlinking, FinalizeError, Promised
<1>. QED BY <1>1

(* The copy has a new inode and the owed version of the original.          *)
LEMMA MoveBackAnswers ==
    ASSUME TypeOK, AnswersInv, MoveBack, "unsynced" \notin Faults
    PROVE  AnswersInv'
<1> USE DEF AnswersInv, MoveBack, Goto, StartRemoval, Fresh, Inodes, client,
            ghosts, InUse
<1>1. Versions' /\ Saving' /\ RollingBack' /\ Promised'
  BY DEF Versions, Saving, SourceFine, RollingBack, Promised, FinalizeError
<1>2. Layout'
  BY DEF Layout, SourceFine, OwnLink, Whole, Apart, Foreign, Saving
<1>3. Unlinking'
  BY DEF Unlinking, SourceFine, FinalizeError, Saving
<1>. QED BY <1>1, <1>2, <1>3

(* The quarantine is the source, in the record as on the disk.             *)
LEMMA RecordIsolatedAnswers ==
    ASSUME TypeOK, AnswersInv, RecordIsolated, "unsynced" \notin Faults
    PROVE  AnswersInv'
<1> USE DEF AnswersInv, RecordIsolated, WriteJournal, InPhase, storage,
            client, ghosts, Goto, Fault, locals
<1>1. Versions' /\ Saving' /\ Unlinking' /\ Promised'
  BY DEF Versions, Saving, SourceFine, Unlinking, FinalizeError, Promised
<1>2. Layout'
  BY DEF Layout, SourceFine, OwnLink, Whole, Apart, Foreign, Saving
<1>3. RollingBack'
  BY DEF RollingBack, Saving, SourceFine
<1>. QED BY <1>1, <1>2, <1>3

(* Source and payload are both where the record says.                      *)
LEMMA CheckIsolatedAnswers ==
    ASSUME TypeOK, AnswersInv, CheckIsolated, "unsynced" \notin Faults
    PROVE  AnswersInv'
<1> USE DEF AnswersInv, CheckIsolated, Goto, storage, client, locals, ghosts
<1>1. Versions' /\ Layout' /\ Saving' /\ RollingBack' /\ Unlinking' /\ Promised'
  BY DEF Versions, Layout, SourceFine, OwnLink, Whole, Apart, Foreign, Saving,
     RollingBack, Unlinking, FinalizeError, Promised
<1>. QED BY <1>1

(* Only a free path is linked, so the link never hides a version.          *)
LEMMA LinkAnswers ==
    ASSUME TypeOK, AnswersInv, Link, "unsynced" \notin Faults
    PROVE  AnswersInv'
<1> USE DEF AnswersInv, Link, Goto, Fault, client, locals, ghosts
<1>1. Versions' /\ Saving' /\ RollingBack' /\ Unlinking' /\ Promised'
  BY DEF Versions, Saving, SourceFine, RollingBack, Unlinking, FinalizeError,
     Promised
<1>2. Layout'
  BY DEF Layout, SourceFine, OwnLink, Whole, Apart, Foreign, Saving, Promised,
     FinalizeError
<1>. QED BY <1>1, <1>2

(* The link is the payload, or another program has taken the path.         *)
LEMMA CheckLinkedAnswers ==
    ASSUME TypeOK, AnswersInv, CheckLinked, "unsynced" \notin Faults
    PROVE  AnswersInv'
<1> USE DEF AnswersInv, CheckLinked, Goto, storage, client, locals, ghosts
<1>1. Versions' /\ Layout' /\ Saving' /\ Unlinking' /\ Promised'
  BY DEF Versions, Layout, SourceFine, OwnLink, Whole, Apart, Foreign, Saving,
     Unlinking, FinalizeError, Promised
<1>2. RollingBack'
  BY DEF RollingBack, Saving, SourceFine
<1>. QED BY <1>1, <1>2

(* The commit: the payload becomes the owed version.                       *)
LEMMA RecordInstalledAnswers ==
    ASSUME TypeOK, AnswersInv, RecordInstalled, "unsynced" \notin Faults
    PROVE  AnswersInv'
<1> USE DEF AnswersInv, RecordInstalled, WriteJournal, InPhase, storage,
            client, locals, Goto, Fault, ghosts
<1>1. Saving' /\ Unlinking'
  BY DEF Saving, SourceFine, Unlinking, FinalizeError
<1>2. Versions'
  BY DEF Versions, Saving, SourceFine, Promised, FinalizeError
<1>3. Layout'
  BY DEF Layout, SourceFine, OwnLink, Whole, Apart, Foreign, Saving
<1>4. RollingBack'
  BY DEF RollingBack, Saving, SourceFine
<1>5. Promised'
  BY DEF Promised, FinalizeError, Saving, SourceFine
<1>. QED BY <1>1, <1>2, <1>3, <1>4, <1>5

(* The cleanup resumes at the recorded phase.                              *)
LEMMA FinalizeAnswers ==
    ASSUME TypeOK, AnswersInv, Finalize, "unsynced" \notin Faults
    PROVE  AnswersInv'
<1> USE DEF AnswersInv, Finalize, Goto, StartRemoval, FinalizeError, storage,
            client, ghosts, locals
<1>1. Versions' /\ Layout' /\ Saving' /\ RollingBack' /\ Promised'
  BY DEF Versions, Layout, SourceFine, OwnLink, Whole, Apart, Foreign, Saving,
     RollingBack, Promised, FinalizeError
<1>2. Unlinking'
  BY DEF Unlinking, SourceFine, FinalizeError, RollingBack
<1>. QED BY <1>1, <1>2

(* The cleanup advances; the commit stays recorded.                        *)
LEMMA RecordSourceRemovedAnswers ==
    ASSUME TypeOK, AnswersInv, RecordSourceRemoved, "unsynced" \notin Faults
    PROVE  AnswersInv'
<1> USE DEF AnswersInv, RecordSourceRemoved, WriteJournal, InPhase,
            FinalizeError, storage, client, locals, ghosts, Goto, Fault
<1>1. Versions' /\ Saving' /\ RollingBack' /\ Unlinking' /\ Promised'
  BY DEF Versions, Saving, SourceFine, RollingBack, Unlinking, FinalizeError,
     Promised
<1>2. Layout'
  BY DEF Layout, SourceFine, OwnLink, Whole, Apart, Foreign, RollingBack
<1>. QED BY <1>1, <1>2

(* The cleanup advances; the commit stays recorded.                        *)
LEMMA RecordFinalizedAnswers ==
    ASSUME TypeOK, AnswersInv, RecordFinalized, "unsynced" \notin Faults
    PROVE  AnswersInv'
<1> USE DEF AnswersInv, RecordFinalized, WriteJournal, InPhase, FinalizeError,
            storage, client, locals, ghosts, Goto, Fault
<1>1. Versions' /\ Saving' /\ RollingBack' /\ Unlinking' /\ Promised'
  BY DEF Versions, Saving, SourceFine, RollingBack, Unlinking, FinalizeError,
     Promised
<1>2. Layout'
  BY DEF Layout, SourceFine, OwnLink, Whole, Apart, Foreign, RollingBack
<1>. QED BY <1>1, <1>2

(* Only the own link is removed.                                           *)
LEMMA UnlinkAnswers ==
    ASSUME TypeOK, AnswersInv, Unlink, "unsynced" \notin Faults
    PROVE  AnswersInv'
<1> USE DEF AnswersInv, Unlink, Goto, StartRemoval, storage, client, ghosts,
            locals
<1>1. Versions' /\ Layout' /\ Saving' /\ RollingBack' /\ Promised'
  BY DEF Versions, Layout, SourceFine, OwnLink, Whole, Apart, Foreign, Saving,
     RollingBack, Promised, FinalizeError
<1>2. Unlinking'
  BY DEF Unlinking, SourceFine, FinalizeError, Saving, RollingBack
<1>. QED BY <1>1, <1>2

(* A test; the files stay.                                                 *)
LEMMA RestoreCheckAnswers ==
    ASSUME TypeOK, AnswersInv, RestoreCheck, "unsynced" \notin Faults
    PROVE  AnswersInv'
<1> USE DEF AnswersInv, RestoreCheck, Goto, storage, client, locals, ghosts
<1>1. Versions' /\ Layout' /\ Saving' /\ RollingBack' /\ Unlinking' /\ Promised'
  BY DEF Versions, Layout, SourceFine, OwnLink, Whole, Apart, Foreign, Saving,
     RollingBack, Unlinking, FinalizeError, Promised
<1>. QED BY <1>1

(* The isolated source, still owed, is back at the path.                   *)
LEMMA RestoreRenameAnswers ==
    ASSUME TypeOK, AnswersInv, RestoreRename, "unsynced" \notin Faults
    PROVE  AnswersInv'
<1> USE DEF AnswersInv, RestoreRename, DurableRename, client, locals, ghosts,
            Goto, Fault
<1>1. Versions' /\ Saving' /\ RollingBack' /\ Unlinking' /\ Promised'
  BY DEF Versions, Saving, SourceFine, RollingBack, Unlinking, FinalizeError,
     Promised
<1>2. Layout'
  BY DEF Layout, SourceFine, OwnLink, Whole, Apart, Foreign, Saving,
     RollingBack
<1>. QED BY <1>1, <1>2

(* The quarantine is empty, so the path holds what it held before.         *)
LEMMA RecordRolledBackAnswers ==
    ASSUME TypeOK, AnswersInv, RecordRolledBack, "unsynced" \notin Faults
    PROVE  AnswersInv'
<1> USE DEF AnswersInv, RecordRolledBack, WriteJournal, InPhase, storage,
            client, locals, ghosts, Goto, Fault
<1>1. Versions' /\ Saving' /\ RollingBack' /\ Unlinking' /\ Promised'
  BY DEF Versions, Saving, SourceFine, RollingBack, Unlinking, FinalizeError,
     Promised
<1>2. Layout'
  BY DEF Layout, SourceFine, OwnLink, Whole, Apart, Foreign, RollingBack
<1>. QED BY <1>1, <1>2

(* A removal of the payload starts; the record is rolled back.             *)
LEMMA DropPayloadAnswers ==
    ASSUME TypeOK, AnswersInv, DropPayload, "unsynced" \notin Faults
    PROVE  AnswersInv'
<1> USE DEF AnswersInv, DropPayload, StartRemoval, storage, client, ghosts,
            Goto, locals
<1>1. Versions' /\ Layout' /\ Saving' /\ RollingBack' /\ Promised'
  BY DEF Versions, Layout, SourceFine, OwnLink, Whole, Apart, Foreign, Saving,
     RollingBack, Promised, FinalizeError
<1>2. Unlinking'
  BY DEF Unlinking, SourceFine, FinalizeError, RollingBack
<1>. QED BY <1>1, <1>2

(* The leaf is the file to remove, or one put there since it was tested.   *)
LEMMA RemoveIsolateAnswers ==
    ASSUME TypeOK, AnswersInv, RemoveIsolate, "unsynced" \notin Faults
    PROVE  AnswersInv'
<1> USE DEF AnswersInv, RemoveIsolate, Goto, DurableRename, MissingIsError,
            client, locals, ghosts, Fault
<1>1. Versions'
  BY DEF Versions
<1>2. Layout'
  BY DEF Layout, SourceFine, OwnLink, Whole, Apart, Foreign, Versions,
     Unlinking, FinalizeError
<1>3. Saving'
  BY DEF Saving, SourceFine, Unlinking, FinalizeError
<1>4. RollingBack'
  BY DEF RollingBack, Unlinking, SourceFine, FinalizeError
<1>5. Unlinking'
  BY DEF Unlinking, SourceFine, FinalizeError, Versions, Layout, OwnLink,
     Whole, Apart, Foreign
<1>6. Promised'
  BY DEF Promised, FinalizeError, Unlinking, SourceFine
<1>. QED BY <1>1, <1>2, <1>3, <1>4, <1>5, <1>6

(* What is not the file to remove goes back, as a copy with a new inode.   *)
LEMMA RemoveCheckAnswers ==
    ASSUME TypeOK, AnswersInv, RemoveCheck, "unsynced" \notin Faults
    PROVE  AnswersInv'
<1> USE DEF AnswersInv, RemoveCheck, Goto, Fault, Fresh, Inodes, client,
            locals, ghosts, InUse
<1>1. Versions' /\ Unlinking'
  BY DEF Versions, Unlinking, SourceFine, FinalizeError
<1>2. Layout'
  BY DEF Layout, SourceFine, OwnLink, Whole, Apart, Foreign, Unlinking,
     FinalizeError
<1>3. Saving'
  BY DEF Saving, SourceFine, Unlinking, FinalizeError
<1>4. RollingBack'
  BY DEF RollingBack, Unlinking, SourceFine, FinalizeError
<1>5. Promised'
  BY DEF Promised, FinalizeError, Unlinking, SourceFine
<1>. QED BY <1>1, <1>2, <1>3, <1>4, <1>5

(* A leaf left behind is no longer at the path.                            *)
LEMMA RemoveAbandonAnswers ==
    ASSUME TypeOK, AnswersInv, RemoveAbandon, "unsynced" \notin Faults
    PROVE  AnswersInv'
<1> USE DEF AnswersInv, RemoveAbandon, Goto, Abandoned, client, locals, ghosts
<1>1. Versions' /\ Layout' /\ Unlinking'
  BY DEF Versions, Layout, SourceFine, OwnLink, Whole, Apart, Foreign,
     Unlinking, FinalizeError
<1>2. Saving'
  BY DEF Saving, SourceFine, Unlinking, FinalizeError
<1>3. RollingBack'
  BY DEF RollingBack, Unlinking, SourceFine, FinalizeError
<1>4. Promised'
  BY DEF Promised, FinalizeError, Unlinking, SourceFine
<1>. QED BY <1>1, <1>2, <1>3, <1>4

(* A record is only discarded when nothing is isolated.                    *)
LEMMA DiscardAnswers ==
    ASSUME TypeOK, AnswersInv, Discard, "unsynced" \notin Faults
    PROVE  AnswersInv'
<1> USE DEF AnswersInv, Discard, Goto, Fault, storage, client, locals, ghosts
<1>1. Versions' /\ Saving' /\ RollingBack' /\ Unlinking' /\ Promised'
  BY DEF Versions, Saving, SourceFine, RollingBack, Unlinking, FinalizeError,
     Promised
<1>2. Layout'
  BY DEF Layout, SourceFine, OwnLink, Whole, Apart, Foreign, RollingBack
<1>. QED BY <1>1, <1>2

(* Nothing but the operation changes.                                      *)
LEMMA OpenAnswers ==
    ASSUME TypeOK, AnswersInv, Open, "unsynced" \notin Faults
    PROVE  AnswersInv'
<1> USE DEF AnswersInv, Open, Goto, storage, ghosts, client, locals
<1>1. Versions' /\ Layout' /\ Saving' /\ RollingBack' /\ Unlinking' /\ Promised'
  BY DEF Versions, Layout, SourceFine, OwnLink, Whole, Apart, Foreign, Saving,
     RollingBack, Unlinking, FinalizeError, Promised
<1>. QED BY <1>1

(* The version asked for is new, so it is neither owed nor refused.        *)
LEMMA SaveAnswers ==
    ASSUME TypeOK, AnswersInv, Save, "unsynced" \notin Faults
    PROVE  AnswersInv'
<1> USE DEF AnswersInv, Save, Goto, storage, ghosts, client, locals
<1>1. Versions' /\ Layout' /\ Saving' /\ RollingBack' /\ Unlinking'
  BY DEF Versions, Layout, SourceFine, OwnLink, Whole, Apart, Foreign, Saving,
     RollingBack, Unlinking, FinalizeError
<1>2. Promised'
  BY DEF Promised, FinalizeError, Versions
<1>. QED BY <1>1, <1>2

(* The new version is owed, in every file that shares the inode.           *)
LEMMA EditInPlaceAnswers ==
    ASSUME TypeOK, AnswersInv, EditInPlace, "unsynced" \notin Faults
    PROVE  AnswersInv'
<1> USE DEF AnswersInv
<1> DEFINE touch(f) == IF f.ino = source.ino THEN [ino |-> f.ino, ver |-> clock] ELSE f
<1>1. /\ Present("source") /\ source' = [ino |-> source.ino, ver |-> clock]
      /\ staging' = touch(staging) /\ quarantine' = touch(quarantine) /\ leaf' = touch(leaf)
  BY DEF EditInPlace
<1>2. /\ owed' = (owed \ {source.ver}) \cup {clock} /\ clock' = clock + 1
      /\ UNCHANGED <<journal, pc, tx, rm, gate, tidy, op, want, rev, answer, refused>>
  BY DEF EditInPlace, Edited, locals, client
<1> HIDE DEF TypeOK
<1>t. TypeOK
  OBVIOUS
<1>3. /\ journal \in Transaction /\ tx \in Transaction /\ disk \in [Path -> File]
      /\ owed \subseteq Nat /\ refused \subseteq Nat /\ clock \in Nat /\ rm \in Removal
  BY <1>t DEF TypeOK
<1>f. /\ \A f \in {source, staging, quarantine, leaf} :
            f \in File /\ f.ver < clock /\ (f.ino = 0 => f = NoFile)
      /\ source.ino > 0
  BY <1>1, <1>3 DEF Versions
<1>4. Versions'
  <2>1. \A p \in Path : disk'[p].ver < clock' /\ (disk'[p].ino = 0 => disk'[p] = NoFile)
    BY <1>1, <1>2, <1>3, <1>f
  <2>2. owed' \subseteq 1 .. clock /\ refused' \subseteq 1 .. clock /\ owed' \cap refused' = {}
    <3>1. clock > 0 /\ clock \notin refused
      BY <1>3, <1>f DEF Versions
    <3>2. owed' \subseteq 1 .. clock
      <4>1. owed \subseteq 1 .. (clock - 1)
        BY DEF Versions
      <4>2. clock \in 1 .. clock /\ 1 .. (clock - 1) \subseteq 1 .. clock
        BY ONLY <1>3, <3>1
      <4>3. \A v \in owed' : v \in owed \/ v = clock
        BY <1>2
      <4>. QED BY ONLY <4>1, <4>2, <4>3
    <3>3. refused' \subseteq 1 .. clock
      BY <1>2, <1>3, <3>1 DEF Versions
    <3>4. owed' \cap refused' = {}
      BY <1>2, <3>1 DEF Versions
    <3> QED BY <3>2, <3>3, <3>4
  <2> QED BY <1>2, <1>3, <2>1, <2>2 DEF Versions
<1>5. Layout'
  <2>1. SourceFine'
    BY <1>1, <1>2, <1>3, <1>f DEF SourceFine
  <2>2. Whole => Whole'
    BY <1>1, <1>2, <1>3, <1>f, <2>1 DEF Whole
  <2>3. Apart => Apart'
    BY <1>1, <1>2, <1>3, <1>f, <2>1 DEF Apart, Versions
  <2>4. Foreign => Foreign'
    BY <1>1, <1>2, <1>3, <1>f, <2>1 DEF Foreign, Layout, Versions
  <2> QED BY <1>1, <1>2, <1>3, <1>f, <2>1, <2>2, <2>3, <2>4 DEF Layout
<1>6. Saving'
  BY <1>1, <1>2, <1>3, <1>f DEF Saving, SourceFine, RollingBack, Layout, Whole, Apart, Foreign
<1>7. RollingBack'
  BY <1>1, <1>2, <1>3, <1>f DEF RollingBack
<1>8. Unlinking'
  BY <1>1, <1>2, <1>3, <1>f DEF Unlinking, SourceFine, FinalizeError, Versions, Layout, Whole, Apart, Foreign
<1>9. Promised'
  BY <1>1, <1>2, <1>3, <1>f DEF Promised, Versions
<1> QED BY <1>4, <1>5, <1>6, <1>7, <1>8, <1>9

(* The new version is owed; the quarantine keeps what it has.              *)
LEMMA EditPutAnswers ==
    ASSUME TypeOK, AnswersInv, EditPut, "unsynced" \notin Faults
    PROVE  AnswersInv'
<1> USE DEF AnswersInv, EditPut, Edited, Fresh, Inodes, client, locals, InUse
<1>1. Versions' /\ RollingBack'
  BY DEF Versions, RollingBack
<1>2. Layout'
  BY DEF Layout, SourceFine, OwnLink, Whole, Apart, Foreign, Versions
<1>3. Saving'
  BY DEF Saving, SourceFine, Versions
<1>4. Unlinking'
  BY DEF Unlinking, SourceFine, FinalizeError, Versions
<1>5. Promised'
  BY DEF Promised, FinalizeError, Versions
<1>. QED BY <1>1, <1>2, <1>3, <1>4, <1>5

(* What was deleted is no longer owed.                                     *)
LEMMA EditDeleteAnswers ==
    ASSUME TypeOK, AnswersInv, EditDelete, "unsynced" \notin Faults
    PROVE  AnswersInv'
<1> USE DEF AnswersInv, EditDelete, Edited, client, locals
<1>1. Versions' /\ RollingBack' /\ Promised'
  BY DEF Versions, RollingBack, Promised, FinalizeError
<1>2. Layout'
  BY DEF Layout, SourceFine, OwnLink, Whole, Apart, Foreign, Versions
<1>3. Saving'
  BY DEF Saving, SourceFine, Versions
<1>4. Unlinking'
  BY DEF Unlinking, SourceFine, FinalizeError, Versions
<1>. QED BY <1>1, <1>2, <1>3, <1>4

(* What is in memory is gone; the record and the files stay.               *)
LEMMA CrashAnswers ==
    ASSUME TypeOK, AnswersInv, Crash, "unsynced" \notin Faults
    PROVE  AnswersInv'
<1> USE DEF AnswersInv, Crash, Goto, Abandoned, ghosts
<1>1. Versions' /\ Layout' /\ Saving' /\ RollingBack' /\ Unlinking' /\ Promised'
  BY DEF Versions, Layout, SourceFine, OwnLink, Whole, Apart, Foreign, Saving,
     RollingBack, Unlinking, FinalizeError, Promised
<1>. QED BY <1>1

(* Every step keeps the invariant.                                         *)
LEMMA AnswersStep ==
    ASSUME TypeOK, AnswersInv, [Next]_vars, "unsynced" \notin Faults
    PROVE  AnswersInv'
<1>1. CASE UNCHANGED vars
  BY <1>1 DEF vars, AnswersInv, Versions, Layout, SourceFine, OwnLink, Whole, Apart, Foreign, Saving, RollingBack,
       Unlinking, FinalizeError, Promised
<1>. QED
  BY <1>1, GateEnterAnswers, RecoverPrecommitAnswers, GatePassedAnswers,
     AnswerFailedAnswers, AnswerSavedAnswers, BeginAnswers,
     StageCreateAnswers, StageFillAnswers, StageRecordAnswers,
     CheckSourceAnswers, RecordIsolatingAnswers, IsolateAnswers,
     CheckQuarantineAnswers, MoveBackAnswers, RecordIsolatedAnswers,
     CheckIsolatedAnswers, LinkAnswers, CheckLinkedAnswers,
     RecordInstalledAnswers, FinalizeAnswers, RecordSourceRemovedAnswers,
     RecordFinalizedAnswers, UnlinkAnswers, RestoreCheckAnswers,
     RestoreRenameAnswers, RecordRolledBackAnswers, DropPayloadAnswers,
     RemoveIsolateAnswers, RemoveCheckAnswers, RemoveAbandonAnswers,
     DiscardAnswers, OpenAnswers, SaveAnswers, EditInPlaceAnswers,
     EditPutAnswers, EditDeleteAnswers, CrashAnswers
     DEF Next, Kernel, Environment

(* The invariant of the files holds for every bound and all writers.       *)
LEMMA AnswersInvariant ==
    ASSUME "unsynced" \notin Faults
    PROVE  Spec => []AnswersInv
<1>1. Init => AnswersInv
  BY DEF Init, AnswersInv, Versions, Layout, SourceFine, OwnLink, Whole, Apart, Foreign, Saving, RollingBack,
       Unlinking, FinalizeError, Promised
<1>2. TypeOK /\ AnswersInv /\ [Next]_vars => AnswersInv'
  BY AnswersStep
<1>. QED BY <1>1, <1>2, TypeCorrect, PTL DEF Spec

(* What the answers to saves promised holds of the document's path: at     *)
(* rest it holds an owed version, never a half-written or a superseded     *)
(* one, and a save answered with an error never takes effect.              *)
THEOREM AnswersAlwaysHold ==
    ASSUME "unsynced" \notin Faults
    PROVE  Spec => []AnswersHold
<1>1. TypeOK /\ AnswersInv => AnswersHold
  <2> SUFFICES ASSUME TypeOK, AnswersInv PROVE AnswersHold
    OBVIOUS
  <2>1. OwedAtRest
    BY DEF AnswersInv, Layout, SourceFine, OwedAtRest, AtRest
  <2>2. FailedSaveNeverLands
    <3> SUFFICES ASSUME journal.phase \notin Precommit
                 PROVE  source.ver \notin refused
      BY DEF FailedSaveNeverLands
    <3>1. 0 \notin refused /\ owed \cap refused = {}
      BY DEF AnswersInv, Versions
    <3>2. Present("source") => source.ver \in owed
      BY DEF AnswersInv, Layout, SourceFine
    <3>. QED BY <3>1, <3>2
  <2>. QED BY <2>1, <2>2 DEF AnswersHold
<1>. QED BY <1>1, TypeCorrect, AnswersInvariant, PTL

-----------------------------------------------------------------------------
(* No owed copy is destroyed.                                              *)
Others(p) == {disk[q] : q \in Path \ {p}} \cup {o.file : o \in orphans}
Held == {disk[q] : q \in Path} \cup {o.file : o \in orphans}

(* Two names of one inode are one file; the payload being filled has one.  *)
Links ==
    /\ \A f, g \in Held : f.ino = g.ino => f = g
    /\ \A f \in Held : f.ver < clock /\ (f.ino = 0 => f = NoFile)
    /\ journal.targetID.ver < clock /\ tx.targetID.ver < clock
    /\ pc = "fill" => \A f \in Others("staging") : f.ino # staging.ino

(* A version that the cleanup of the transaction cannot lose: nobody is    *)
(* owed it, or a file on the document's side holds it as well.             *)
Guarded(v) ==
    \/ v \notin owed
    \/ source.ver = v
    \/ rm.path = "source" /\ leaf.ver = v
    \/ \E o \in orphans : o.of = "source" /\ o.file.ver = v

SpareQuarantine == \/ journal.phase \in Committed
                   \/ pc \in Removing /\ rm.path = "quarantine"

Spares ==
    /\ Guarded(staging.ver)
    /\ SpareQuarantine => Guarded(quarantine.ver)
    /\ rm.path # "source" => Guarded(leaf.ver)
    /\ \A o \in orphans : o.of # "source" => Guarded(o.file.ver)

(* What a new transaction starts from.                                     *)
Clean ==
    /\ journal.phase = "none" => ~Present("staging")
    /\ journal.phase \in {"none", "prepared", "staged"} \/ pc \in Committing
          => \A o \in orphans : o.of = "source"
    /\ journal.phase \in {"prepared", "staged"} \/ pc = "isolate"
          => staging.ver \notin owed /\ (Present("source") => source.ino # staging.ino)
    /\ journal.phase \in Precommit => journal.targetID.ver \notin owed

(* A file that the restoring rename would replace has no second copy.      *)
Alone ==
    pc = "restore-rename" /\ Present("source") =>
        /\ staging.ino # source.ino /\ staging.ver # source.ver
        /\ \A o \in orphans : o.file.ino # source.ino /\ o.file.ver # source.ver

CopiesInv == Links /\ Spares /\ Clean /\ Alone

(* What OnlyRestoreDestroys says of one step.                             *)
Kept == \A v \in owed \cap owed' : OnDisk(v) =>
          \/ OnDisk(v)'
          \/ pc = "restore-rename" /\ disk["source"].ver = v

(* A leaf that a removal leaves behind, or a stop cuts off, is an orphan: *)
(* it loses its name and nothing else.                                     *)
LEMMA AbandonKeeps ==
    ASSUME TypeOK, AnswersInv, CopiesInv, pc # "restore-rename",
           orphans' = Abandoned, disk' = [disk EXCEPT !["removing"] = NoFile],
           UNCHANGED <<journal, owed, clock>>, tx' = tx \/ tx' = NoTx,
           pc' \notin Committing \cup Removing \cup {"restore-rename"},
           rm' = rm \/ rm' = NoRm
    PROVE  CopiesInv' /\ Kept
<1> USE DEF AnswersInv, CopiesInv
<1>1. CASE ~Present("removing")
  <2>1. UNCHANGED <<disk, orphans>>
    BY <1>1 DEF Abandoned
  <2>2. Links'
    BY <2>1 DEF Links, Held
  <2>3. Spares'
    BY <1>1, <2>1 DEF Spares, SpareQuarantine, Guarded, Versions
  <2>4. Clean' /\ Alone' /\ Kept
    BY <2>1 DEF Clean, Alone, Kept, OnDisk
  <2>. QED BY <2>2, <2>3, <2>4
<1>2. CASE Present("removing")
  <2> DEFINE gone == [of |-> rm.path, file |-> leaf]
  <2>1. /\ orphans' = orphans \cup {gone} /\ leaf' = NoFile
        /\ source' = source /\ staging' = staging /\ quarantine' = quarantine
        /\ \A o \in orphans' : o \in orphans \/ (o.of = rm.path /\ o.file = leaf)
    BY <1>2 DEF Abandoned
  <2>2. Held' \subseteq Held \cup {NoFile}
    BY <2>1 DEF Held
  <2>3. pc \in {"rm-check", "rm-abandon"}
    BY <1>2 DEF Layout
  <2>4. Links'
    <3>1. NoFile \in Held'
      BY <2>1 DEF Held
    <3> QED BY <2>2 DEF Links
  <2>5. \A v \in Nat : Guarded(v) => Guarded(v)'
    <3> SUFFICES ASSUME NEW v \in Nat, Guarded(v), v \in owed PROVE Guarded(v)'
      BY DEF Guarded
    <3>1. gone \in orphans' /\ orphans \subseteq orphans'
      BY <2>1
    <3>2. CASE rm.path = "source" /\ leaf.ver = v
      BY <3>1, <3>2 DEF Guarded
    <3>3. CASE \E o \in orphans : o.of = "source" /\ o.file.ver = v
      BY <3>1, <3>3 DEF Guarded
    <3>4. CASE source.ver = v
      BY <2>1, <3>4 DEF Guarded
    <3> QED BY <3>2, <3>3, <3>4 DEF Guarded
  <2>6. Spares'
    <3>1. Guarded(staging.ver)'
      BY <2>1, <2>5 DEF Spares
    <3>2. SpareQuarantine' => Guarded(quarantine.ver)'
      BY <2>1, <2>5 DEF Spares, SpareQuarantine
    <3>3. Guarded(leaf.ver)'
      BY <2>1 DEF Guarded, Versions
    <3>4. ASSUME NEW o \in orphans', o.of # "source" PROVE Guarded(o.file.ver)'
      BY <2>1, <2>5, <3>4 DEF Spares
    <3> QED BY <3>1, <3>2, <3>3, <3>4 DEF Spares
  <2>7. Clean'
    BY <2>1, <2>3 DEF Clean, Unlinking
  <2>8. Alone'
    BY DEF Alone
  <2>9. Kept
    <3>3. 0 \notin owed
      BY DEF Versions
    <3> SUFFICES ASSUME NEW v \in owed, OnDisk(v) PROVE OnDisk(v)'
      BY DEF Kept
    <3>1. gone \in orphans' /\ orphans \subseteq orphans'
      BY <2>1
    <3>2. CASE leaf.ver = v
      BY <3>1, <3>2 DEF OnDisk
    <3> QED BY <2>1, <3>1, <3>2, <3>3 DEF OnDisk
  <2>. QED BY <2>4, <2>6, <2>7, <2>8, <2>9
<1>. QED BY <1>1, <1>2

(* No file moves and nobody is owed anything new.                          *)
LEMMA GateEnterCopies ==
    ASSUME TypeOK, AnswersInv, CopiesInv, GateEnter, "unsynced" \notin Faults
    PROVE  CopiesInv' /\ Kept
<1> USE DEF AnswersInv, CopiesInv, GateEnter, Goto, Recovered, storage,
            client, ghosts, locals
<1>1. Links' /\ Spares' /\ Clean' /\ Alone' /\ Kept
  BY DEF Links, Others, Held, Spares, Guarded, SpareQuarantine, Clean, Alone,
     Kept, OnDisk
<1>. QED BY <1>1

(* No file moves and nobody is owed anything new.                          *)
LEMMA RecoverPrecommitCopies ==
    ASSUME TypeOK, AnswersInv, CopiesInv, RecoverPrecommit,
           "unsynced" \notin Faults
    PROVE  CopiesInv' /\ Kept
<1> USE DEF AnswersInv, CopiesInv, RecoverPrecommit, Goto, Untouched,
            Isolated, Linked, storage, client, locals, ghosts
<1>1. Links' /\ Spares' /\ Clean' /\ Alone' /\ Kept
  BY DEF Links, Others, Held, Spares, Guarded, SpareQuarantine, Clean, Alone,
     Kept, OnDisk
<1>. QED BY <1>1

(* No file moves and nobody is owed anything new.                          *)
LEMMA GatePassedCopies ==
    ASSUME TypeOK, AnswersInv, CopiesInv, GatePassed, "unsynced" \notin Faults
    PROVE  CopiesInv' /\ Kept
<1> USE DEF AnswersInv, CopiesInv, GatePassed, Goto, storage, ghosts, client,
            locals
<1>1. Links' /\ Clean' /\ Alone' /\ Kept
  BY DEF Links, Others, Held, Clean, Alone, Kept, OnDisk
<1>2. Spares'
  BY DEF Spares, Guarded, SpareQuarantine, Versions, Layout, SourceFine,
     OwnLink, Whole, Apart, Foreign
<1>. QED BY <1>1, <1>2

(* No file moves and nobody is owed anything new.                          *)
LEMMA AnswerFailedCopies ==
    ASSUME TypeOK, AnswersInv, CopiesInv, AnswerFailed,
           "unsynced" \notin Faults
    PROVE  CopiesInv' /\ Kept
<1> USE DEF AnswersInv, CopiesInv, AnswerFailed, Goto, storage, client,
            locals, ghosts
<1>1. Links' /\ Clean' /\ Alone' /\ Kept
  BY DEF Links, Others, Held, Clean, Alone, Kept, OnDisk
<1>2. Spares'
  BY DEF Spares, Guarded, SpareQuarantine, Versions, Layout, SourceFine,
     OwnLink, Whole, Apart, Foreign
<1>. QED BY <1>1, <1>2

(* No file moves and nobody is owed anything new.                          *)
LEMMA AnswerSavedCopies ==
    ASSUME TypeOK, AnswersInv, CopiesInv, AnswerSaved,
           "unsynced" \notin Faults
    PROVE  CopiesInv' /\ Kept
<1> USE DEF AnswersInv, CopiesInv, AnswerSaved, Goto, storage, ghosts, client,
            locals
<1>1. Links' /\ Clean' /\ Alone' /\ Kept
  BY DEF Links, Others, Held, Clean, Alone, Kept, OnDisk
<1>2. Spares'
  BY DEF Spares, Guarded, SpareQuarantine, Versions, Layout, SourceFine,
     OwnLink, Whole, Apart, Foreign
<1>. QED BY <1>1, <1>2

(* No file moves and nobody is owed anything new.                          *)
LEMMA BeginCopies ==
    ASSUME TypeOK, AnswersInv, CopiesInv, Begin, "unsynced" \notin Faults
    PROVE  CopiesInv' /\ Kept
<1> USE DEF AnswersInv, CopiesInv, Begin, Goto, WriteJournal, storage, client,
            locals, ghosts, Fault
<1>1. Links' /\ Spares' /\ Alone' /\ Kept
  BY DEF Links, Others, Held, Spares, Guarded, SpareQuarantine, Alone, Kept,
     OnDisk
<1>2. Clean'
  BY DEF Clean, Versions, Saving, SourceFine
<1>. QED BY <1>1, <1>2

(* There is no payload to overwrite.                                       *)
LEMMA StageCreateCopies ==
    ASSUME TypeOK, AnswersInv, CopiesInv, StageCreate,
           "unsynced" \notin Faults
    PROVE  CopiesInv' /\ Kept
<1> USE DEF AnswersInv, CopiesInv, StageCreate, Goto, Fresh, Inodes, client,
            locals, ghosts, InUse
<1>1. Links' /\ Alone'
  BY DEF Links, Others, Held, Alone
<1>2. Spares'
  BY DEF Spares, Guarded, SpareQuarantine, Layout, SourceFine, OwnLink, Whole,
     Apart, Foreign
<1>3. Clean'
  BY DEF Clean, Versions, Saving, SourceFine
<1>4. Kept
  BY DEF Kept, OnDisk, Spares, Guarded, SpareQuarantine
<1>. QED BY <1>1, <1>2, <1>3, <1>4

(* The payload had no complete version to lose.                            *)
LEMMA StageFillCopies ==
    ASSUME TypeOK, AnswersInv, CopiesInv, StageFill, "unsynced" \notin Faults
    PROVE  CopiesInv' /\ Kept
<1> USE DEF AnswersInv, CopiesInv, StageFill, Goto, Fault, client, locals,
            ghosts
<1>1. Alone'
  BY DEF Alone
<1>2. Links'
  BY DEF Links, Others, Held, Versions, Layout, SourceFine, OwnLink, Whole,
     Apart, Foreign
<1>3. Spares'
  BY DEF Spares, Guarded, SpareQuarantine, Saving, SourceFine, Promised,
     FinalizeError
<1>4. Clean'
  BY DEF Clean, Saving, SourceFine, Promised, FinalizeError
<1>5. Kept
  BY DEF Kept, OnDisk, Spares, Guarded, SpareQuarantine
<1>. QED BY <1>1, <1>2, <1>3, <1>4, <1>5

(* The recorded target is not owed.                                        *)
LEMMA StageRecordCopies ==
    ASSUME TypeOK, AnswersInv, CopiesInv, StageRecord, "unsynced" \notin Faults
    PROVE  CopiesInv' /\ Kept
<1> USE DEF AnswersInv, CopiesInv, StageRecord, WriteJournal, Goto, Fault, storage,
        client, locals, ghosts
<1>1. tx' = [phase |-> "staged", sourceID |-> tx.sourceID, targetID |-> staging]
  OBVIOUS
<1>2. UNCHANGED <<disk, orphans, owed, clock, rm>> /\ journal.phase = "prepared"
  BY DEF Saving
<1>3. \/ journal' = journal /\ pc' = "failed"
      \/ journal' = tx' /\ pc' = "check-source"
  OBVIOUS
<1>4. staging.ver < clock /\ staging.ver \notin owed
  BY <1>2 DEF Versions, Clean
<1> HIDE DEF StageRecord, WriteJournal
<1>5. Links' /\ Alone' /\ Kept
  BY <1>1, <1>2, <1>3, <1>4 DEF Links, Held, Alone, Kept, OnDisk
<1>6. Spares'
  BY <1>1, <1>2, <1>3 DEF Spares, SpareQuarantine, Guarded
<1>7. Clean'
  BY <1>1, <1>2, <1>3, <1>4 DEF Clean
<1>. QED BY <1>5, <1>6, <1>7

(* No file moves and nobody is owed anything new.                          *)
LEMMA CheckSourceCopies ==
    ASSUME TypeOK, AnswersInv, CopiesInv, CheckSource,
           "unsynced" \notin Faults
    PROVE  CopiesInv' /\ Kept
<1> USE DEF AnswersInv, CopiesInv, CheckSource, Goto, storage, client, locals,
            ghosts
<1>1. Links' /\ Spares' /\ Clean' /\ Alone' /\ Kept
  BY DEF Links, Others, Held, Spares, Guarded, SpareQuarantine, Clean, Alone,
     Kept, OnDisk
<1>. QED BY <1>1

(* No file moves and nobody is owed anything new.                          *)
LEMMA RecordIsolatingCopies ==
    ASSUME TypeOK, AnswersInv, CopiesInv, RecordIsolating,
           "unsynced" \notin Faults
    PROVE  CopiesInv' /\ Kept
<1> USE DEF AnswersInv, CopiesInv, RecordIsolating, WriteJournal, InPhase,
            storage, client, locals, ghosts, Goto, Fault
<1>1. Links' /\ Spares' /\ Alone' /\ Kept
  BY DEF Links, Others, Held, Spares, Guarded, SpareQuarantine, Alone, Kept,
     OnDisk
<1>2. Clean'
  BY DEF Clean, Saving, SourceFine
<1>. QED BY <1>1, <1>2

(* The source moves whole, onto a path that is free.                       *)
LEMMA IsolateCopies ==
    ASSUME TypeOK, AnswersInv, CopiesInv, Isolate, "unsynced" \notin Faults
    PROVE  CopiesInv' /\ Kept
<1> USE DEF AnswersInv, CopiesInv, Isolate, Goto, DurableRename, client,
            locals, ghosts, Fault
<1>1. Links' /\ Clean' /\ Alone'
  BY DEF Links, Others, Held, Clean, Alone
<1>2. Spares'
  BY DEF Spares, Guarded, SpareQuarantine, Layout, SourceFine, OwnLink, Whole,
     Apart, Foreign, Saving, Clean
<1>3. Kept
  BY DEF Kept, OnDisk, Saving, SourceFine
<1>. QED BY <1>1, <1>2, <1>3

(* No file moves and nobody is owed anything new.                          *)
LEMMA CheckQuarantineCopies ==
    ASSUME TypeOK, AnswersInv, CopiesInv, CheckQuarantine,
           "unsynced" \notin Faults
    PROVE  CopiesInv' /\ Kept
<1> USE DEF AnswersInv, CopiesInv, CheckQuarantine, Goto, storage, client,
            locals, ghosts
<1>1. Links' /\ Spares' /\ Clean' /\ Alone' /\ Kept
  BY DEF Links, Others, Held, Spares, Guarded, SpareQuarantine, Clean, Alone,
     Kept, OnDisk
<1>. QED BY <1>1

(* The version is at the path and, until it is removed, in the quarantine. *)
LEMMA MoveBackCopies ==
    ASSUME TypeOK, AnswersInv, CopiesInv, MoveBack, "unsynced" \notin Faults
    PROVE  CopiesInv' /\ Kept
<1> USE DEF AnswersInv, CopiesInv, MoveBack, Goto, StartRemoval, Fresh,
            Inodes, client, ghosts, InUse
<1>1. Links' /\ Clean' /\ Alone'
  BY DEF Links, Others, Held, Clean, Alone
<1>2. Spares'
  BY DEF Spares, Guarded, SpareQuarantine, Versions, Layout, SourceFine,
     OwnLink, Whole, Apart, Foreign
<1>3. Kept
  BY DEF Kept, OnDisk, Layout, SourceFine, OwnLink, Whole, Apart, Foreign
<1>. QED BY <1>1, <1>2, <1>3

(* No file moves and nobody is owed anything new.                          *)
LEMMA RecordIsolatedCopies ==
    ASSUME TypeOK, AnswersInv, CopiesInv, RecordIsolated,
           "unsynced" \notin Faults
    PROVE  CopiesInv' /\ Kept
<1> USE DEF AnswersInv, CopiesInv, RecordIsolated, WriteJournal, InPhase,
            storage, client, ghosts, Goto, Fault, locals
<1>1. Links' /\ Spares' /\ Alone' /\ Kept
  BY DEF Links, Others, Held, Spares, Guarded, SpareQuarantine, Alone, Kept,
     OnDisk
<1>2. Clean'
  BY DEF Clean, Saving, SourceFine
<1>. QED BY <1>1, <1>2

(* No file moves and nobody is owed anything new.                          *)
LEMMA CheckIsolatedCopies ==
    ASSUME TypeOK, AnswersInv, CopiesInv, CheckIsolated,
           "unsynced" \notin Faults
    PROVE  CopiesInv' /\ Kept
<1> USE DEF AnswersInv, CopiesInv, CheckIsolated, Goto, storage, client,
            locals, ghosts
<1>1. Links' /\ Spares' /\ Clean' /\ Alone' /\ Kept
  BY DEF Links, Others, Held, Spares, Guarded, SpareQuarantine, Clean, Alone,
     Kept, OnDisk
<1>. QED BY <1>1

(* The payload has two names now.                                          *)
LEMMA LinkCopies ==
    ASSUME TypeOK, AnswersInv, CopiesInv, Link, "unsynced" \notin Faults
    PROVE  CopiesInv' /\ Kept
<1> USE DEF AnswersInv, CopiesInv, Link, Goto, Fault, client, locals, ghosts
<1>1. Links' /\ Alone'
  BY DEF Links, Others, Held, Alone
<1>2. Spares'
  BY DEF Spares, Guarded, SpareQuarantine, Versions
<1>3. Clean'
  BY DEF Clean, Saving, SourceFine
<1>4. Kept
  BY DEF Kept, OnDisk, Layout, SourceFine, OwnLink, Whole, Apart, Foreign
<1>. QED BY <1>1, <1>2, <1>3, <1>4

(* No file moves and nobody is owed anything new.                          *)
LEMMA CheckLinkedCopies ==
    ASSUME TypeOK, AnswersInv, CopiesInv, CheckLinked,
           "unsynced" \notin Faults
    PROVE  CopiesInv' /\ Kept
<1> USE DEF AnswersInv, CopiesInv, CheckLinked, Goto, storage, client, locals,
            ghosts
<1>1. Links' /\ Spares' /\ Clean' /\ Alone' /\ Kept
  BY DEF Links, Others, Held, Spares, Guarded, SpareQuarantine, Clean, Alone,
     Kept, OnDisk
<1>. QED BY <1>1

(* What was isolated is superseded; the payload is guarded by its link.    *)
LEMMA RecordInstalledCopies ==
    ASSUME TypeOK, AnswersInv, CopiesInv, RecordInstalled,
           "unsynced" \notin Faults
    PROVE  CopiesInv' /\ Kept
<1> USE DEF AnswersInv, CopiesInv, RecordInstalled, WriteJournal, InPhase,
            storage, client, locals, Goto, Fault, ghosts
<1>1. Links' /\ Clean' /\ Alone' /\ Kept
  BY DEF Links, Others, Held, Clean, Alone, Kept, OnDisk
<1>2. Spares'
  BY DEF Spares, Guarded, SpareQuarantine, Saving, SourceFine
<1>. QED BY <1>1, <1>2

(* No file moves and nobody is owed anything new.                          *)
LEMMA FinalizeCopies ==
    ASSUME TypeOK, AnswersInv, CopiesInv, Finalize, "unsynced" \notin Faults
    PROVE  CopiesInv' /\ Kept
<1> USE DEF AnswersInv, CopiesInv, Finalize, Goto, StartRemoval,
            FinalizeError, storage, client, ghosts, locals
<1>1. Links' /\ Clean' /\ Alone' /\ Kept
  BY DEF Links, Others, Held, Clean, Alone, Kept, OnDisk
<1>2. Spares'
  BY DEF Spares, Guarded, SpareQuarantine, Versions, Layout, SourceFine,
     OwnLink, Whole, Apart, Foreign, RollingBack
<1>. QED BY <1>1, <1>2

(* No file moves and nobody is owed anything new.                          *)
LEMMA RecordSourceRemovedCopies ==
    ASSUME TypeOK, AnswersInv, CopiesInv, RecordSourceRemoved,
           "unsynced" \notin Faults
    PROVE  CopiesInv' /\ Kept
<1> USE DEF AnswersInv, CopiesInv, RecordSourceRemoved, WriteJournal, InPhase,
            FinalizeError, storage, client, locals, ghosts, Goto, Fault
<1>1. Links' /\ Clean' /\ Alone' /\ Kept
  BY DEF Links, Others, Held, Clean, Alone, Kept, OnDisk
<1>2. Spares'
  BY DEF Spares, Guarded, SpareQuarantine, RollingBack
<1>. QED BY <1>1, <1>2

(* No file moves and nobody is owed anything new.                          *)
LEMMA RecordFinalizedCopies ==
    ASSUME TypeOK, AnswersInv, CopiesInv, RecordFinalized,
           "unsynced" \notin Faults
    PROVE  CopiesInv' /\ Kept
<1> USE DEF AnswersInv, CopiesInv, RecordFinalized, WriteJournal, InPhase,
            FinalizeError, storage, client, locals, ghosts, Goto, Fault
<1>1. Links' /\ Clean' /\ Alone' /\ Kept
  BY DEF Links, Others, Held, Clean, Alone, Kept, OnDisk
<1>2. Spares'
  BY DEF Spares, Guarded, SpareQuarantine, RollingBack
<1>. QED BY <1>1, <1>2

(* No file moves and nobody is owed anything new.                          *)
LEMMA UnlinkCopies ==
    ASSUME TypeOK, AnswersInv, CopiesInv, Unlink, "unsynced" \notin Faults
    PROVE  CopiesInv' /\ Kept
<1> USE DEF AnswersInv, CopiesInv, Unlink, Goto, StartRemoval, storage,
            client, ghosts, locals
<1>1. Links' /\ Spares' /\ Clean' /\ Alone' /\ Kept
  BY DEF Links, Others, Held, Spares, Guarded, SpareQuarantine, Clean, Alone,
     Kept, OnDisk
<1>. QED BY <1>1

(* No file moves and nobody is owed anything new.                          *)
LEMMA RestoreCheckCopies ==
    ASSUME TypeOK, AnswersInv, CopiesInv, RestoreCheck,
           "unsynced" \notin Faults
    PROVE  CopiesInv' /\ Kept
<1> USE DEF AnswersInv, CopiesInv, RestoreCheck, Goto, storage, client,
            locals, ghosts
<1>1. Links' /\ Spares' /\ Clean' /\ Alone' /\ Kept
  BY DEF Links, Others, Held, Spares, Guarded, SpareQuarantine, Clean, Alone,
     Kept, OnDisk
<1>. QED BY <1>1

(* The one step that may destroy: the file it replaces had no second copy. *)
LEMMA RestoreRenameCopies ==
    ASSUME TypeOK, AnswersInv, CopiesInv, RestoreRename,
           "unsynced" \notin Faults
    PROVE  CopiesInv' /\ Kept
<1> USE DEF AnswersInv, CopiesInv, RestoreRename, DurableRename, client,
            locals, ghosts, Goto, Fault
<1>1. Links' /\ Alone' /\ Kept
  BY DEF Links, Others, Held, Alone, Kept, OnDisk
<1>2. Spares'
  BY DEF Spares, Guarded, SpareQuarantine, Versions, Layout, SourceFine,
     OwnLink, Whole, Apart, Foreign, Alone
<1>3. Clean'
  BY DEF Clean, Layout, SourceFine, OwnLink, Whole, Apart, Foreign
<1>. QED BY <1>1, <1>2, <1>3

(* No file moves and nobody is owed anything new.                          *)
LEMMA RecordRolledBackCopies ==
    ASSUME TypeOK, AnswersInv, CopiesInv, RecordRolledBack,
           "unsynced" \notin Faults
    PROVE  CopiesInv' /\ Kept
<1> USE DEF AnswersInv, CopiesInv, RecordRolledBack, WriteJournal, InPhase,
            storage, client, locals, ghosts, Goto, Fault
<1>1. Links' /\ Spares' /\ Clean' /\ Alone' /\ Kept
  BY DEF Links, Others, Held, Spares, Guarded, SpareQuarantine, Clean, Alone,
     Kept, OnDisk
<1>. QED BY <1>1

(* No file moves and nobody is owed anything new.                          *)
LEMMA DropPayloadCopies ==
    ASSUME TypeOK, AnswersInv, CopiesInv, DropPayload,
           "unsynced" \notin Faults
    PROVE  CopiesInv' /\ Kept
<1> USE DEF AnswersInv, CopiesInv, DropPayload, StartRemoval, storage, client,
            ghosts, Goto, locals
<1>1. Links' /\ Clean' /\ Alone' /\ Kept
  BY DEF Links, Others, Held, Clean, Alone, Kept, OnDisk
<1>2. Spares'
  BY DEF Spares, Guarded, SpareQuarantine, Versions, Layout, SourceFine,
     OwnLink, Whole, Apart, Foreign
<1>. QED BY <1>1, <1>2

(* A rename keeps the file.                                                *)
LEMMA RemoveIsolateCopies ==
    ASSUME TypeOK, AnswersInv, CopiesInv, RemoveIsolate,
           "unsynced" \notin Faults
    PROVE  CopiesInv' /\ Kept
<1> USE DEF AnswersInv, CopiesInv, RemoveIsolate, Goto, DurableRename,
            MissingIsError, client, locals, ghosts, Fault
<1>1. Links'
  BY DEF Links, Others, Held, Unlinking, SourceFine, FinalizeError
<1>2. Spares'
  BY DEF Spares, Guarded, SpareQuarantine, Layout, SourceFine, OwnLink, Whole,
     Apart, Foreign
<1>3. Clean'
  BY DEF Clean, Unlinking, SourceFine, FinalizeError
<1>4. Alone'
  BY DEF Alone, Unlinking, SourceFine, FinalizeError
<1>5. Kept
  BY DEF Kept, OnDisk, Layout, SourceFine, OwnLink, Whole, Apart, Foreign
<1>. QED BY <1>1, <1>2, <1>3, <1>4, <1>5

(* What is unlinked is guarded, or is a link that nobody is owed.          *)
LEMMA RemoveCheckCopies ==
    ASSUME TypeOK, AnswersInv, CopiesInv, RemoveCheck,
           "unsynced" \notin Faults
    PROVE  CopiesInv' /\ Kept
<1> USE DEF AnswersInv, CopiesInv, RemoveCheck, Goto, Fault, Fresh, Inodes,
            client, locals, ghosts, InUse
<1>1. Links'
  BY DEF Links, Others, Held, Unlinking, SourceFine, FinalizeError
<1>2. Spares'
  BY DEF Spares, Guarded, SpareQuarantine, Versions, Unlinking, SourceFine,
     FinalizeError, Clean
<1>3. Clean'
  BY DEF Clean, Unlinking, SourceFine, FinalizeError
<1>4. Alone'
  BY DEF Alone, Unlinking, SourceFine, FinalizeError
<1>5. Kept
  BY DEF Kept, OnDisk, Unlinking, SourceFine, FinalizeError, Spares, Guarded,
     SpareQuarantine, Clean
<1>. QED BY <1>1, <1>2, <1>3, <1>4, <1>5

(* A leaf left behind is an orphan, on the side it came from.              *)
LEMMA RemoveAbandonCopies ==
    ASSUME TypeOK, AnswersInv, CopiesInv, RemoveAbandon
    PROVE  CopiesInv' /\ Kept
<1> USE DEF RemoveAbandon, Goto, locals, client, ghosts
<1>1. pc' \in {"restore", "failed", "succeeded", "idle"}
  BY DEF AnswersInv, Unlinking, FinalizeError
<1>2. /\ pc # "restore-rename" /\ orphans' = Abandoned
      /\ disk' = [disk EXCEPT !["removing"] = NoFile]
      /\ UNCHANGED <<journal, owed, clock>>
      /\ tx' = tx /\ rm' = rm
  OBVIOUS
<1>3. pc' \notin Committing \cup Removing \cup {"restore-rename"}
  BY <1>1 DEF Removing
<1> HIDE DEF RemoveAbandon, Goto, Committing, Removing
<1>. QED BY <1>2, <1>3, AbandonKeeps

(* Whatever is dropped is guarded.                                         *)
LEMMA DiscardCopies ==
    ASSUME TypeOK, AnswersInv, CopiesInv, Discard, "unsynced" \notin Faults
    PROVE  CopiesInv' /\ Kept
<1> USE DEF AnswersInv, CopiesInv, Discard, Goto, Fault, storage, client,
            locals, ghosts
<1>1. Links' /\ Clean' /\ Alone'
  BY DEF Links, Others, Held, Clean, Alone
<1>2. Spares'
  BY DEF Spares, Guarded, SpareQuarantine, Layout, SourceFine, OwnLink, Whole,
     Apart, Foreign
<1>3. Kept
  BY DEF Kept, OnDisk, Layout, SourceFine, OwnLink, Whole, Apart, Foreign,
     RollingBack, Spares, Guarded, SpareQuarantine
<1>. QED BY <1>1, <1>2, <1>3

(* No file moves and nobody is owed anything new.                          *)
LEMMA OpenCopies ==
    ASSUME TypeOK, AnswersInv, CopiesInv, Open, "unsynced" \notin Faults
    PROVE  CopiesInv' /\ Kept
<1> USE DEF AnswersInv, CopiesInv, Open, Goto, storage, ghosts, client, locals
<1>1. Links' /\ Spares' /\ Clean' /\ Alone' /\ Kept
  BY DEF Links, Others, Held, Spares, Guarded, SpareQuarantine, Clean, Alone,
     Kept, OnDisk
<1>. QED BY <1>1

(* No file moves and nobody is owed anything new.                          *)
LEMMA SaveCopies ==
    ASSUME TypeOK, AnswersInv, CopiesInv, Save, "unsynced" \notin Faults
    PROVE  CopiesInv' /\ Kept
<1> USE DEF AnswersInv, CopiesInv, Save, Goto, storage, ghosts, client, locals
<1>1. Links' /\ Spares' /\ Clean' /\ Alone' /\ Kept
  BY DEF Links, Others, Held, Spares, Guarded, SpareQuarantine, Clean, Alone,
     Kept, OnDisk
<1>. QED BY <1>1

(* The files that share the inode change together; the others stay.        *)
LEMMA EditInPlaceCopies ==
    ASSUME TypeOK, AnswersInv, CopiesInv, EditInPlace
    PROVE  CopiesInv' /\ Kept
<1> USE DEF AnswersInv, CopiesInv
<1> DEFINE touch(f) == IF f.ino = source.ino THEN [ino |-> f.ino, ver |-> clock] ELSE f
           moved(o) == [of |-> o.of, file |-> touch(o.file)]
<1>1. /\ Present("source") /\ source' = [ino |-> source.ino, ver |-> clock]
      /\ staging' = touch(staging) /\ quarantine' = touch(quarantine) /\ leaf' = touch(leaf)
  BY DEF EditInPlace
<1>2. /\ owed' = (owed \ {source.ver}) \cup {clock} /\ clock' = clock + 1
      /\ UNCHANGED <<journal, pc, tx, rm, gate, tidy, op, want, rev, answer, refused>>
  BY DEF EditInPlace, Edited, locals, client
<1>3. orphans' = {moved(o) : o \in orphans}
  BY DEF EditInPlace
<1>4. /\ \A f \in Held : f \in File /\ f.ver < clock /\ (f.ino = 0 => f = NoFile)
      /\ source \in Held /\ staging \in Held /\ quarantine \in Held /\ leaf \in Held
      /\ \A o \in orphans : o.file \in Held
      /\ source.ino > 0 /\ clock \in Nat /\ clock > 0 /\ 0 \notin owed
  BY <1>1 DEF Held, Links, Versions
<1>5. \A f \in Held : f.ino = source.ino => f = source
  BY <1>4 DEF Links
<1>6. Held' = {touch(f) : f \in Held}
  BY <1>1, <1>3 DEF Held
<1> HIDE DEF TypeOK, touch, moved
<1>7. \A o \in orphans : moved(o) \in orphans'
  BY <1>3
<1>8. ASSUME NEW f \in Held, Guarded(f.ver), NEW w, w = touch(f).ver PROVE Guarded(w)'
  <2>1. CASE f.ino = source.ino
    BY <1>1, <1>8, <2>1 DEF touch, Guarded
  <2>2. CASE f.ino # source.ino
    <3>0. w = f.ver
      BY <1>8, <2>2 DEF touch
    <3> SUFFICES ASSUME w \in owed, w # source.ver PROVE Guarded(w)'
      BY <1>2, <1>4, <3>0 DEF Guarded
    <3>2. CASE rm.path = "source" /\ leaf.ver = w
      <4>1. leaf' = leaf
        BY <1>1, <1>4, <1>5, <3>2 DEF touch
      <4>. QED BY <1>2, <3>2, <4>1 DEF Guarded
    <3>3. ASSUME NEW o \in orphans, o.of = "source", o.file.ver = w
          PROVE  Guarded(w)'
      <4>1. moved(o).of = "source" /\ moved(o).file = o.file
        BY <1>4, <1>5, <3>3 DEF touch, moved
      <4>. QED BY <1>7, <4>1, <3>3 DEF Guarded
    <3>. QED BY <1>8, <3>0, <3>2, <3>3 DEF Guarded
  <2>. QED BY <2>1, <2>2
<1>9. Links'
  <2>1. \A f, g \in Held' : f.ino = g.ino => f = g
    BY <1>4, <1>6 DEF Links, touch
  <2>2. \A f \in Held' : f.ver < clock' /\ (f.ino = 0 => f = NoFile)
    BY <1>2, <1>4, <1>6 DEF touch
  <2>3. ASSUME pc = "fill", NEW f \in Others("staging")' PROVE f.ino # staging'.ino
    <3>1. staging.ino # source.ino /\ \A g \in Others("staging") : g.ino # staging.ino
      BY <2>3 DEF Links, Others
    <3>2. staging' = staging
      BY <1>1, <3>1 DEF touch
    <3>3. PICK g \in Others("staging") : f = touch(g)
      <4>1. CASE f \in {source', quarantine', leaf'}
        <5>1. source' = touch(source) /\ {source, quarantine, leaf} \subseteq Others("staging")
          BY <1>1 DEF touch, Others
        <5>. QED BY <1>1, <4>1, <5>1
      <4>2. CASE f \in {o.file : o \in orphans'}
        BY <1>3, <4>2 DEF Others, moved
      <4>. QED BY <2>3, <4>1, <4>2 DEF Others
    <3>. QED BY <3>1, <3>2, <3>3 DEF touch
  <2>4. journal.targetID.ver < clock' /\ tx.targetID.ver < clock'
    <3>1. journal.targetID.ver < clock /\ tx.targetID.ver < clock
      BY DEF Links
    <3>2. journal.targetID.ver \in Nat /\ tx.targetID.ver \in Nat
      BY DEF TypeOK
    <3>. QED BY <1>2, <1>4, <3>1, <3>2
  <2>. QED BY <1>2, <2>1, <2>2, <2>3, <2>4 DEF Links
<1>10. Spares'
  <2>1. ASSUME NEW o \in orphans', o.of # "source" PROVE Guarded(o.file.ver)'
    <3>1. PICK q \in orphans : o = moved(q)
      BY <1>3
    <3>2. q.of # "source" /\ o.file = touch(q.file)
      BY <2>1, <3>1 DEF moved
    <3>3. q.file \in Held /\ Guarded(q.file.ver)
      BY <1>4, <3>2 DEF Spares
    <3>. QED BY <1>8, <3>2, <3>3
  <2>2. Guarded(staging.ver)'
    BY <1>1, <1>4, <1>8 DEF Spares
  <2>3. SpareQuarantine' => Guarded(quarantine.ver)'
    BY <1>1, <1>2, <1>4, <1>8 DEF Spares, SpareQuarantine
  <2>4. rm'.path # "source" => Guarded(leaf.ver)'
    BY <1>1, <1>2, <1>4, <1>8 DEF Spares
  <2>. QED BY <2>1, <2>2, <2>3, <2>4 DEF Spares
<1>11. Clean'
  <2>1. \A o \in orphans' : \E q \in orphans : o.of = q.of
    BY <1>3 DEF moved
  <2>. QED BY <1>1, <1>2, <1>4, <2>1 DEF Clean, Links, touch
<1>12. Alone'
  <2> SUFFICES ASSUME pc = "restore-rename" PROVE Alone'
    BY <1>2 DEF Alone
  <2>1. ASSUME NEW o \in orphans' PROVE o.file.ino # source'.ino /\ o.file.ver # source'.ver
    BY <1>1, <1>3, <1>4 DEF Alone, moved, touch
  <2>. QED BY <1>1, <1>4, <2>1 DEF Alone, touch
<1>13. Kept
  <2> SUFFICES ASSUME NEW v \in owed, v # source.ver, OnDisk(v) PROVE OnDisk(v)'
    BY <1>2, <1>4 DEF Kept
  <2>1. \E f \in Held : f.ver = v
    BY DEF OnDisk, Held
  <2>2. \E f \in Held' : f.ver = v
    BY <1>5, <1>6, <2>1 DEF touch
  <2>. QED BY <2>2 DEF OnDisk, Held
<1>. QED BY <1>9, <1>10, <1>11, <1>12, <1>13

(* The version replaced is no longer owed.                                 *)
LEMMA EditPutCopies ==
    ASSUME TypeOK, AnswersInv, CopiesInv, EditPut, "unsynced" \notin Faults
    PROVE  CopiesInv' /\ Kept
<1> USE DEF AnswersInv, CopiesInv, EditPut, Edited, Fresh, Inodes, client,
            locals, InUse
<1>1. Links' /\ Spares' /\ Kept
  BY DEF Links, Others, Held, Spares, Guarded, SpareQuarantine, Kept, OnDisk
<1>2. Clean'
  BY DEF Clean, Links, Others, Held
<1>3. Alone'
  BY DEF Alone, Links, Others, Held
<1>. QED BY <1>1, <1>2, <1>3

(* The version deleted is no longer owed.                                  *)
LEMMA EditDeleteCopies ==
    ASSUME TypeOK, AnswersInv, CopiesInv, EditDelete, "unsynced" \notin Faults
    PROVE  CopiesInv' /\ Kept
<1> USE DEF AnswersInv, CopiesInv, EditDelete, Edited, client, locals
<1>1. Spares' /\ Clean' /\ Alone' /\ Kept
  BY DEF Spares, Guarded, SpareQuarantine, Clean, Alone, Kept, OnDisk
<1>2. Links'
  BY DEF Links, Others, Held, Layout, SourceFine, OwnLink, Whole, Apart,
     Foreign
<1>. QED BY <1>1, <1>2

(* A leaf being removed becomes an orphan.                                 *)
LEMMA CrashCopies ==
    ASSUME TypeOK, AnswersInv, CopiesInv, Crash
    PROVE  CopiesInv' /\ Kept
<1>1. CASE pc # "restore-rename"
  BY <1>1, AbandonKeeps DEF Crash, Goto, ghosts
<1>2. CASE pc = "restore-rename"
  <2>1. ~Present("removing") /\ UNCHANGED <<disk, orphans>>
    BY <1>2 DEF Crash, Abandoned, AnswersInv, Layout
  <2> USE DEF AnswersInv, CopiesInv, Crash, Goto, ghosts
  <2>2. Links'
    BY <2>1 DEF Links, Held
  <2>3. Spares'
    BY <2>1 DEF Spares, SpareQuarantine, Guarded, Versions
  <2>4. Clean' /\ Alone' /\ Kept
    BY <2>1 DEF Clean, Alone, Kept, OnDisk
  <2>. QED BY <2>2, <2>3, <2>4
<1>. QED BY <1>1, <1>2

(* Every step keeps the invariant, and keeps every owed version.           *)
LEMMA CopiesStep ==
    ASSUME TypeOK, AnswersInv, CopiesInv, [Next]_vars, "unsynced" \notin Faults
    PROVE  CopiesInv' /\ [Kept]_vars
<1>1. CASE UNCHANGED vars
  BY <1>1 DEF vars, CopiesInv, Links, Others, Held, Spares, SpareQuarantine, Guarded,
       Clean, Alone
<1>. QED
  BY <1>1, GateEnterCopies, RecoverPrecommitCopies, GatePassedCopies,
     AnswerFailedCopies, AnswerSavedCopies, BeginCopies, StageCreateCopies,
     StageFillCopies, StageRecordCopies, CheckSourceCopies,
     RecordIsolatingCopies, IsolateCopies, CheckQuarantineCopies,
     MoveBackCopies, RecordIsolatedCopies, CheckIsolatedCopies, LinkCopies,
     CheckLinkedCopies, RecordInstalledCopies, FinalizeCopies,
     RecordSourceRemovedCopies, RecordFinalizedCopies, UnlinkCopies,
     RestoreCheckCopies, RestoreRenameCopies, RecordRolledBackCopies,
     DropPayloadCopies, RemoveIsolateCopies, RemoveCheckCopies,
     RemoveAbandonCopies, DiscardCopies, OpenCopies, SaveCopies,
     EditInPlaceCopies, EditPutCopies, EditDeleteCopies, CrashCopies
     DEF Next, Kernel, Environment

(* The invariant of the copies holds for every bound and all writers.      *)
LEMMA CopiesInvariant ==
    ASSUME "unsynced" \notin Faults
    PROVE  Spec => []CopiesInv
<1>1. Init => CopiesInv
  BY DEF Init, CopiesInv, Links, Others, Held, Spares, SpareQuarantine, Guarded, Clean,
         Alone, NoTx
<1>2. TypeOK /\ AnswersInv /\ CopiesInv /\ [Next]_vars => CopiesInv'
  BY CopiesStep
<1>. QED BY <1>1, <1>2, TypeCorrect, AnswersInvariant, PTL DEF Spec

(* No step of the kernel takes the last copy of an owed version off the    *)
(* disk, but for the rename that restores an isolated source over a file   *)
(* another program has put at the path since it was tested to be free.     *)
THEOREM OwedCopiesSurvive ==
    ASSUME "unsynced" \notin Faults
    PROVE  Spec => OnlyRestoreDestroys
<1>1. TypeOK /\ AnswersInv /\ CopiesInv /\ [Next]_vars
      => [\A v \in owed \cap owed' : OnDisk(v) =>
             \/ OnDisk(v)'
             \/ pc = "restore-rename" /\ disk["source"].ver = v]_vars
  BY CopiesStep DEF Kept
<1>. QED
  BY <1>1, TypeCorrect, AnswersInvariant, CopiesInvariant, PTL DEF Spec, OnlyRestoreDestroys

-----------------------------------------------------------------------------
(* No other program: the document is atomic.                               *)
Quiet ==
    /\ journal.phase \in Undecided =>
          Whole \/ (Same("quarantine", journal.sourceID) /\ quarantine.ver \in owed)
    /\ pc \in {"isolating", "isolate"} => source = journal.sourceID
    /\ pc = "check-quarantine" => quarantine = journal.sourceID
    /\ pc # "move-back"
    /\ pc \in Removing /\ rm.path = "quarantine" => journal.phase \in Committed

Installed ==
    /\ journal.phase \in Committed => source = journal.targetID
    /\ pc \in {"linked", "install"} => source = journal.targetID
    /\ ~gate /\ journal.phase \in Committed /\ pc # "idle" => journal.targetID.ver = want
    /\ pc = "succeeded" =>
          op = "save" /\ Present("source") /\ InForce = want /\ ~gate

Waiting ==
    /\ op = "open" /\ pc # "idle" => gate
    /\ InForce \in owed

QuietInv == Quiet /\ Installed /\ Waiting

(* A step of the atomic document, or none.                                 *)
DocumentStep == [Document!Next]_Document!vars

(* A stutter: the version in force, the request and the answer stay.       *)
LEMMA GateEnterQuiet ==
    ASSUME TypeOK, AnswersInv, QuietInv, GateEnter, "unsynced" \notin Faults,
           Writers = {}
    PROVE  QuietInv' /\ DocumentStep
<1> USE DEF AnswersInv, QuietInv, GateEnter, Goto, Recovered, storage, client,
            ghosts, locals
<1>1. Quiet' /\ Installed' /\ Waiting' /\ DocumentStep
  BY DEF Quiet, Whole, SourceFine, Installed, InForce, Waiting, DocumentStep,
     Document!Next, Document!vars, Document!Ask, Document!Apply,
     Document!Answer, Document!Look, Document!Stop
<1>. QED BY <1>1

(* A stutter: the version in force, the request and the answer stay.       *)
LEMMA RecoverPrecommitQuiet ==
    ASSUME TypeOK, AnswersInv, QuietInv, RecoverPrecommit,
           "unsynced" \notin Faults, Writers = {}
    PROVE  QuietInv' /\ DocumentStep
<1> USE DEF AnswersInv, QuietInv, RecoverPrecommit, Goto, Untouched, Isolated,
            Linked, storage, client, locals, ghosts
<1>1. Quiet' /\ Installed' /\ Waiting' /\ DocumentStep
  BY DEF Quiet, Whole, SourceFine, Installed, InForce, Waiting, DocumentStep,
     Document!Next, Document!vars, Document!Ask, Document!Apply,
     Document!Answer, Document!Look, Document!Stop
<1>. QED BY <1>1

(* An open operation looks; a save goes on.                                *)
LEMMA GatePassedQuiet ==
    ASSUME TypeOK, AnswersInv, QuietInv, GatePassed, "unsynced" \notin Faults,
           Writers = {}
    PROVE  QuietInv' /\ DocumentStep
<1> USE DEF AnswersInv, QuietInv, GatePassed, Goto, storage, ghosts, client,
            locals
<1>1. Quiet' /\ Waiting'
  BY DEF Quiet, Whole, SourceFine, Waiting, InForce
<1>2. Installed'
  BY DEF Installed, InForce, Saving, SourceFine
<1>3. DocumentStep
  BY DEF DocumentStep, Document!Next, Document!vars, Document!Ask,
     Document!Apply, Document!Answer, Document!Look, Document!Stop, InForce,
     Layout, SourceFine, OwnLink, Whole, Apart, Foreign, Saving
<1>. QED BY <1>1, <1>2, <1>3

(* An answer: the version in force is not the one refused.                 *)
LEMMA AnswerFailedQuiet ==
    ASSUME TypeOK, AnswersInv, QuietInv, AnswerFailed,
           "unsynced" \notin Faults, Writers = {}
    PROVE  QuietInv' /\ DocumentStep
<1> USE DEF AnswersInv, QuietInv, AnswerFailed, Goto, storage, client, locals,
            ghosts
<1>1. Quiet' /\ Installed' /\ Waiting'
  BY DEF Quiet, Whole, SourceFine, Installed, InForce, Waiting
<1>2. DocumentStep
  BY DEF DocumentStep, Document!Next, Document!vars, Document!Ask,
     Document!Apply, Document!Answer, Document!Look, Document!Stop, InForce,
     Versions, Promised, FinalizeError, Waiting
<1>. QED BY <1>1, <1>2

(* An answer: the version in force is the one asked for.                   *)
LEMMA AnswerSavedQuiet ==
    ASSUME TypeOK, AnswersInv, QuietInv, AnswerSaved,
           "unsynced" \notin Faults, Writers = {}
    PROVE  QuietInv' /\ DocumentStep
<1> USE DEF AnswersInv, QuietInv, AnswerSaved, Goto, storage, ghosts, client,
            locals
<1>1. Quiet' /\ Installed' /\ Waiting'
  BY DEF Quiet, Whole, SourceFine, Installed, InForce, Waiting
<1>2. DocumentStep
  BY DEF DocumentStep, Document!Next, Document!vars, Document!Ask,
     Document!Apply, Document!Answer, Document!Look, Document!Stop, InForce,
     Installed
<1>. QED BY <1>1, <1>2

(* A stutter: the version in force, the request and the answer stay.       *)
LEMMA BeginQuiet ==
    ASSUME TypeOK, AnswersInv, QuietInv, Begin, "unsynced" \notin Faults,
           Writers = {}
    PROVE  QuietInv' /\ DocumentStep
<1> USE DEF AnswersInv, QuietInv, Begin, Goto, WriteJournal, storage, client,
            locals, ghosts, Fault
<1>1. Quiet' /\ Installed'
  BY DEF Quiet, Whole, SourceFine, Installed, InForce
<1>2. Waiting'
  BY DEF Waiting, InForce, Saving, SourceFine
<1>3. DocumentStep
  BY DEF DocumentStep, Document!Next, Document!vars, Document!Ask,
     Document!Apply, Document!Answer, Document!Look, Document!Stop, InForce,
     Saving, SourceFine
<1>. QED BY <1>1, <1>2, <1>3

(* A stutter: the version in force, the request and the answer stay.       *)
LEMMA StageCreateQuiet ==
    ASSUME TypeOK, AnswersInv, QuietInv, StageCreate,
           "unsynced" \notin Faults, Writers = {}
    PROVE  QuietInv' /\ DocumentStep
<1> USE DEF AnswersInv, QuietInv, StageCreate, Goto, Fresh, Inodes, client,
            locals, ghosts, InUse
<1>1. Quiet' /\ Installed' /\ Waiting' /\ DocumentStep
  BY DEF Quiet, Whole, SourceFine, Installed, InForce, Waiting, DocumentStep,
     Document!Next, Document!vars, Document!Ask, Document!Apply,
     Document!Answer, Document!Look, Document!Stop
<1>. QED BY <1>1

(* A stutter: the version in force, the request and the answer stay.       *)
LEMMA StageFillQuiet ==
    ASSUME TypeOK, AnswersInv, QuietInv, StageFill, "unsynced" \notin Faults,
           Writers = {}
    PROVE  QuietInv' /\ DocumentStep
<1> USE DEF AnswersInv, QuietInv, StageFill, Goto, Fault, client, locals,
            ghosts
<1>1. Quiet' /\ Installed' /\ Waiting' /\ DocumentStep
  BY DEF Quiet, Whole, SourceFine, Installed, InForce, Waiting, DocumentStep,
     Document!Next, Document!vars, Document!Ask, Document!Apply,
     Document!Answer, Document!Look, Document!Stop
<1>. QED BY <1>1

(* The version in force stays at the path.                                 *)
LEMMA StageRecordQuiet ==
    ASSUME TypeOK, AnswersInv, QuietInv, StageRecord, "unsynced" \notin Faults
    PROVE  QuietInv' /\ DocumentStep
<1> USE DEF AnswersInv, QuietInv, StageRecord, WriteJournal, Goto, Fault, storage,
        client, locals, ghosts
<1>1. tx' = [phase |-> "staged", sourceID |-> tx.sourceID, targetID |-> staging]
  OBVIOUS
<1>2. /\ UNCHANGED <<disk, owed, gate, op, want, answer>> /\ journal.phase = "prepared"
      /\ ~gate /\ op = "save" /\ pc = "stage"
  BY DEF Saving
<1>3. \/ journal' = journal /\ pc' = "failed"
      \/ journal' = tx' /\ pc' = "check-source"
  OBVIOUS
<1> HIDE DEF StageRecord, WriteJournal
<1>4. InForce' = InForce
  BY <1>1, <1>2, <1>3 DEF InForce
<1>5. Quiet' /\ Installed'
  BY <1>1, <1>2, <1>3 DEF Quiet, Installed, Whole, SourceFine
<1>6. Waiting'
  BY <1>2, <1>3, <1>4 DEF Waiting, Saving
<1>7. DocumentStep
  BY <1>2, <1>3, <1>4 DEF DocumentStep, Document!vars, Saving
<1>. QED BY <1>5, <1>6, <1>7

(* A stutter: the version in force, the request and the answer stay.       *)
LEMMA CheckSourceQuiet ==
    ASSUME TypeOK, AnswersInv, QuietInv, CheckSource,
           "unsynced" \notin Faults, Writers = {}
    PROVE  QuietInv' /\ DocumentStep
<1> USE DEF AnswersInv, QuietInv, CheckSource, Goto, storage, client, locals,
            ghosts
<1>1. Installed' /\ Waiting' /\ DocumentStep
  BY DEF Installed, InForce, Waiting, DocumentStep, Document!Next,
     Document!vars, Document!Ask, Document!Apply, Document!Answer,
     Document!Look, Document!Stop
<1>2. Quiet'
  BY DEF Quiet, Whole, SourceFine, Saving
<1>. QED BY <1>1, <1>2

(* A stutter: the version in force, the request and the answer stay.       *)
LEMMA RecordIsolatingQuiet ==
    ASSUME TypeOK, AnswersInv, QuietInv, RecordIsolating,
           "unsynced" \notin Faults, Writers = {}
    PROVE  QuietInv' /\ DocumentStep
<1> USE DEF AnswersInv, QuietInv, RecordIsolating, WriteJournal, InPhase,
            storage, client, locals, ghosts, Goto, Fault
<1>1. Installed'
  BY DEF Installed, InForce
<1>2. Quiet'
  BY DEF Quiet, Whole, SourceFine, Layout, OwnLink, Apart, Foreign, Saving
<1>3. Waiting'
  BY DEF Waiting, InForce, Saving, SourceFine
<1>4. DocumentStep
  BY DEF DocumentStep, Document!Next, Document!vars, Document!Ask,
     Document!Apply, Document!Answer, Document!Look, Document!Stop, InForce,
     Saving, SourceFine
<1>. QED BY <1>1, <1>2, <1>3, <1>4

(* The version in force moves into the quarantine.                         *)
LEMMA IsolateQuiet ==
    ASSUME TypeOK, AnswersInv, QuietInv, Isolate, "unsynced" \notin Faults,
           Writers = {}
    PROVE  QuietInv' /\ DocumentStep
<1> USE DEF AnswersInv, QuietInv, Isolate, Goto, DurableRename, client,
            locals, ghosts, Fault
<1>1. Quiet'
  BY DEF Quiet, Whole, SourceFine
<1>2. Installed'
  BY DEF Installed, InForce, Saving, SourceFine
<1>3. Waiting'
  BY DEF Waiting, InForce, Quiet, Whole, SourceFine, Layout, OwnLink, Apart,
     Foreign
<1>4. DocumentStep
  BY DEF DocumentStep, Document!Next, Document!vars, Document!Ask,
     Document!Apply, Document!Answer, Document!Look, Document!Stop, InForce,
     Saving, SourceFine
<1>. QED BY <1>1, <1>2, <1>3, <1>4

(* A stutter: the version in force, the request and the answer stay.       *)
LEMMA CheckQuarantineQuiet ==
    ASSUME TypeOK, AnswersInv, QuietInv, CheckQuarantine,
           "unsynced" \notin Faults, Writers = {}
    PROVE  QuietInv' /\ DocumentStep
<1> USE DEF AnswersInv, QuietInv, CheckQuarantine, Goto, storage, client,
            locals, ghosts
<1>1. Installed' /\ Waiting' /\ DocumentStep
  BY DEF Installed, InForce, Waiting, DocumentStep, Document!Next,
     Document!vars, Document!Ask, Document!Apply, Document!Answer,
     Document!Look, Document!Stop
<1>2. Quiet'
  BY DEF Quiet, Whole, SourceFine, Saving
<1>. QED BY <1>1, <1>2

(* A stutter: the version in force, the request and the answer stay.       *)
LEMMA MoveBackQuiet ==
    ASSUME TypeOK, AnswersInv, QuietInv, MoveBack, "unsynced" \notin Faults,
           Writers = {}
    PROVE  QuietInv' /\ DocumentStep
<1> USE DEF AnswersInv, QuietInv, MoveBack, Goto, StartRemoval, Fresh, Inodes,
            client, ghosts, InUse
<1>1. Quiet' /\ Waiting' /\ DocumentStep
  BY DEF Quiet, Whole, SourceFine, Waiting, InForce, DocumentStep,
     Document!Next, Document!vars, Document!Ask, Document!Apply,
     Document!Answer, Document!Look, Document!Stop
<1>2. Installed'
  BY DEF Installed, InForce, Layout, SourceFine, OwnLink, Whole, Apart,
     Foreign
<1>. QED BY <1>1, <1>2

(* A stutter: the version in force, the request and the answer stay.       *)
LEMMA RecordIsolatedQuiet ==
    ASSUME TypeOK, AnswersInv, QuietInv, RecordIsolated,
           "unsynced" \notin Faults, Writers = {}
    PROVE  QuietInv' /\ DocumentStep
<1> USE DEF AnswersInv, QuietInv, RecordIsolated, WriteJournal, InPhase,
            storage, client, ghosts, Goto, Fault, locals
<1>1. Installed'
  BY DEF Installed, InForce
<1>2. Quiet'
  BY DEF Quiet, Whole, SourceFine, Saving
<1>3. Waiting'
  BY DEF Waiting, InForce, Saving, SourceFine
<1>4. DocumentStep
  BY DEF DocumentStep, Document!Next, Document!vars, Document!Ask,
     Document!Apply, Document!Answer, Document!Look, Document!Stop, InForce,
     Saving, SourceFine
<1>. QED BY <1>1, <1>2, <1>3, <1>4

(* A stutter: the version in force, the request and the answer stay.       *)
LEMMA CheckIsolatedQuiet ==
    ASSUME TypeOK, AnswersInv, QuietInv, CheckIsolated,
           "unsynced" \notin Faults, Writers = {}
    PROVE  QuietInv' /\ DocumentStep
<1> USE DEF AnswersInv, QuietInv, CheckIsolated, Goto, storage, client,
            locals, ghosts
<1>1. Quiet' /\ Installed' /\ Waiting' /\ DocumentStep
  BY DEF Quiet, Whole, SourceFine, Installed, InForce, Waiting, DocumentStep,
     Document!Next, Document!vars, Document!Ask, Document!Apply,
     Document!Answer, Document!Look, Document!Stop
<1>. QED BY <1>1

(* The quarantine, not the path, holds the version in force.               *)
LEMMA LinkQuiet ==
    ASSUME TypeOK, AnswersInv, QuietInv, Link, "unsynced" \notin Faults,
           Writers = {}
    PROVE  QuietInv' /\ DocumentStep
<1> USE DEF AnswersInv, QuietInv, Link, Goto, Fault, client, locals, ghosts
<1>1. Quiet'
  BY DEF Quiet, Whole, SourceFine
<1>2. Installed'
  BY DEF Installed, InForce, Saving, SourceFine
<1>3. Waiting'
  BY DEF Waiting, InForce, Layout, SourceFine, OwnLink, Whole, Apart, Foreign
<1>4. DocumentStep
  BY DEF DocumentStep, Document!Next, Document!vars, Document!Ask,
     Document!Apply, Document!Answer, Document!Look, Document!Stop, InForce,
     Layout, SourceFine, OwnLink, Whole, Apart, Foreign
<1>. QED BY <1>1, <1>2, <1>3, <1>4

(* A stutter: the version in force, the request and the answer stay.       *)
LEMMA CheckLinkedQuiet ==
    ASSUME TypeOK, AnswersInv, QuietInv, CheckLinked,
           "unsynced" \notin Faults, Writers = {}
    PROVE  QuietInv' /\ DocumentStep
<1> USE DEF AnswersInv, QuietInv, CheckLinked, Goto, storage, client, locals,
            ghosts
<1>1. Quiet' /\ Installed' /\ Waiting' /\ DocumentStep
  BY DEF Quiet, Whole, SourceFine, Installed, InForce, Waiting, DocumentStep,
     Document!Next, Document!vars, Document!Ask, Document!Apply,
     Document!Answer, Document!Look, Document!Stop
<1>. QED BY <1>1

(* The save is applied when this record replaces the previous one.         *)
LEMMA RecordInstalledQuiet ==
    ASSUME TypeOK, AnswersInv, QuietInv, RecordInstalled,
           "unsynced" \notin Faults, Writers = {}
    PROVE  QuietInv' /\ DocumentStep
<1> USE DEF AnswersInv, QuietInv, RecordInstalled, WriteJournal, InPhase,
            storage, client, locals, Goto, Fault, ghosts
<1>1. Quiet'
  BY DEF Quiet, Whole, SourceFine
<1>2. Installed'
  BY DEF Installed, InForce, Saving, SourceFine
<1>3. Waiting'
  BY DEF Waiting, InForce, Saving, SourceFine, Installed
<1>4. DocumentStep
  BY DEF DocumentStep, Document!Next, Document!vars, Document!Ask,
     Document!Apply, Document!Answer, Document!Look, Document!Stop, InForce,
     Versions, Saving, SourceFine
<1>. QED BY <1>1, <1>2, <1>3, <1>4

(* A stutter: the version in force, the request and the answer stay.       *)
LEMMA FinalizeQuiet ==
    ASSUME TypeOK, AnswersInv, QuietInv, Finalize, "unsynced" \notin Faults,
           Writers = {}
    PROVE  QuietInv' /\ DocumentStep
<1> USE DEF AnswersInv, QuietInv, Finalize, Goto, StartRemoval, FinalizeError,
            storage, client, ghosts, locals
<1>1. Installed' /\ Waiting' /\ DocumentStep
  BY DEF Installed, InForce, Waiting, DocumentStep, Document!Next,
     Document!vars, Document!Ask, Document!Apply, Document!Answer,
     Document!Look, Document!Stop
<1>2. Quiet'
  BY DEF Quiet, Whole, SourceFine, RollingBack
<1>. QED BY <1>1, <1>2

(* A stutter: the version in force, the request and the answer stay.       *)
LEMMA RecordSourceRemovedQuiet ==
    ASSUME TypeOK, AnswersInv, QuietInv, RecordSourceRemoved,
           "unsynced" \notin Faults, Writers = {}
    PROVE  QuietInv' /\ DocumentStep
<1> USE DEF AnswersInv, QuietInv, RecordSourceRemoved, WriteJournal, InPhase,
            FinalizeError, storage, client, locals, ghosts, Goto, Fault
<1>1. Quiet'
  BY DEF Quiet, Whole, SourceFine
<1>2. Installed'
  BY DEF Installed, InForce, Layout, SourceFine, OwnLink, Whole, Apart,
     Foreign, RollingBack, Waiting
<1>3. Waiting'
  BY DEF Waiting, InForce, RollingBack
<1>4. DocumentStep
  BY DEF DocumentStep, Document!Next, Document!vars, Document!Ask,
     Document!Apply, Document!Answer, Document!Look, Document!Stop, InForce,
     RollingBack
<1>. QED BY <1>1, <1>2, <1>3, <1>4

(* A stutter: the version in force, the request and the answer stay.       *)
LEMMA RecordFinalizedQuiet ==
    ASSUME TypeOK, AnswersInv, QuietInv, RecordFinalized,
           "unsynced" \notin Faults, Writers = {}
    PROVE  QuietInv' /\ DocumentStep
<1> USE DEF AnswersInv, QuietInv, RecordFinalized, WriteJournal, InPhase,
            FinalizeError, storage, client, locals, ghosts, Goto, Fault
<1>1. Quiet'
  BY DEF Quiet, Whole, SourceFine
<1>2. Installed'
  BY DEF Installed, InForce, Layout, SourceFine, OwnLink, Whole, Apart,
     Foreign, RollingBack, Waiting
<1>3. Waiting'
  BY DEF Waiting, InForce, RollingBack
<1>4. DocumentStep
  BY DEF DocumentStep, Document!Next, Document!vars, Document!Ask,
     Document!Apply, Document!Answer, Document!Look, Document!Stop, InForce,
     RollingBack
<1>. QED BY <1>1, <1>2, <1>3, <1>4

(* A stutter: the version in force, the request and the answer stay.       *)
LEMMA UnlinkQuiet ==
    ASSUME TypeOK, AnswersInv, QuietInv, Unlink, "unsynced" \notin Faults,
           Writers = {}
    PROVE  QuietInv' /\ DocumentStep
<1> USE DEF AnswersInv, QuietInv, Unlink, Goto, StartRemoval, storage, client,
            ghosts, locals
<1>1. Quiet' /\ Installed' /\ Waiting' /\ DocumentStep
  BY DEF Quiet, Whole, SourceFine, Installed, InForce, Waiting, DocumentStep,
     Document!Next, Document!vars, Document!Ask, Document!Apply,
     Document!Answer, Document!Look, Document!Stop
<1>. QED BY <1>1

(* A stutter: the version in force, the request and the answer stay.       *)
LEMMA RestoreCheckQuiet ==
    ASSUME TypeOK, AnswersInv, QuietInv, RestoreCheck,
           "unsynced" \notin Faults, Writers = {}
    PROVE  QuietInv' /\ DocumentStep
<1> USE DEF AnswersInv, QuietInv, RestoreCheck, Goto, storage, client, locals,
            ghosts
<1>1. Quiet' /\ Installed' /\ Waiting' /\ DocumentStep
  BY DEF Quiet, Whole, SourceFine, Installed, InForce, Waiting, DocumentStep,
     Document!Next, Document!vars, Document!Ask, Document!Apply,
     Document!Answer, Document!Look, Document!Stop
<1>. QED BY <1>1

(* The version in force moves back to the path.                            *)
LEMMA RestoreRenameQuiet ==
    ASSUME TypeOK, AnswersInv, QuietInv, RestoreRename,
           "unsynced" \notin Faults, Writers = {}
    PROVE  QuietInv' /\ DocumentStep
<1> USE DEF AnswersInv, QuietInv, RestoreRename, DurableRename, client,
            locals, ghosts, Goto, Fault
<1>1. Quiet'
  BY DEF Quiet, Whole, SourceFine, Saving
<1>2. Installed'
  BY DEF Installed, InForce, RollingBack
<1>3. Waiting'
  BY DEF Waiting, InForce, Saving, SourceFine
<1>4. DocumentStep
  BY DEF DocumentStep, Document!Next, Document!vars, Document!Ask,
     Document!Apply, Document!Answer, Document!Look, Document!Stop, InForce,
     Saving, SourceFine
<1>. QED BY <1>1, <1>2, <1>3, <1>4

(* A stutter: the version in force, the request and the answer stay.       *)
LEMMA RecordRolledBackQuiet ==
    ASSUME TypeOK, AnswersInv, QuietInv, RecordRolledBack,
           "unsynced" \notin Faults, Writers = {}
    PROVE  QuietInv' /\ DocumentStep
<1> USE DEF AnswersInv, QuietInv, RecordRolledBack, WriteJournal, InPhase,
            storage, client, locals, ghosts, Goto, Fault
<1>1. Quiet' /\ Installed'
  BY DEF Quiet, Whole, SourceFine, Installed, InForce
<1>2. Waiting'
  BY DEF Waiting, InForce, RollingBack
<1>3. DocumentStep
  BY DEF DocumentStep, Document!Next, Document!vars, Document!Ask,
     Document!Apply, Document!Answer, Document!Look, Document!Stop, InForce,
     RollingBack
<1>. QED BY <1>1, <1>2, <1>3

(* A stutter: the version in force, the request and the answer stay.       *)
LEMMA DropPayloadQuiet ==
    ASSUME TypeOK, AnswersInv, QuietInv, DropPayload,
           "unsynced" \notin Faults, Writers = {}
    PROVE  QuietInv' /\ DocumentStep
<1> USE DEF AnswersInv, QuietInv, DropPayload, StartRemoval, storage, client,
            ghosts, Goto, locals
<1>1. Quiet' /\ Installed' /\ Waiting' /\ DocumentStep
  BY DEF Quiet, Whole, SourceFine, Installed, InForce, Waiting, DocumentStep,
     Document!Next, Document!vars, Document!Ask, Document!Apply,
     Document!Answer, Document!Look, Document!Stop
<1>. QED BY <1>1

(* A stutter: the version in force, the request and the answer stay.       *)
LEMMA RemoveIsolateQuiet ==
    ASSUME TypeOK, AnswersInv, QuietInv, RemoveIsolate,
           "unsynced" \notin Faults, Writers = {}
    PROVE  QuietInv' /\ DocumentStep
<1> USE DEF AnswersInv, QuietInv, RemoveIsolate, Goto, DurableRename,
            MissingIsError, client, locals, ghosts, Fault
<1>1. Quiet'
  BY DEF Quiet, Whole, SourceFine, Unlinking, FinalizeError
<1>2. Installed'
  BY DEF Installed, InForce, Unlinking, SourceFine, FinalizeError
<1>3. Waiting'
  BY DEF Waiting, InForce, Unlinking, SourceFine, FinalizeError
<1>4. DocumentStep
  BY DEF DocumentStep, Document!Next, Document!vars, Document!Ask,
     Document!Apply, Document!Answer, Document!Look, Document!Stop, InForce,
     Unlinking, SourceFine, FinalizeError, Quiet, Whole
<1>. QED BY <1>1, <1>2, <1>3, <1>4

(* A stutter: the version in force, the request and the answer stay.       *)
LEMMA RemoveCheckQuiet ==
    ASSUME TypeOK, AnswersInv, QuietInv, RemoveCheck,
           "unsynced" \notin Faults, Writers = {}
    PROVE  QuietInv' /\ DocumentStep
<1> USE DEF AnswersInv, QuietInv, RemoveCheck, Goto, Fault, Fresh, Inodes,
            client, locals, ghosts, InUse
<1>1. Quiet'
  BY DEF Quiet, Whole, SourceFine, Unlinking, FinalizeError
<1>2. Installed'
  BY DEF Installed, InForce, Layout, SourceFine, OwnLink, Whole, Apart,
     Foreign, Unlinking, FinalizeError, Waiting
<1>3. Waiting'
  BY DEF Waiting, InForce, Layout, SourceFine, OwnLink, Whole, Apart, Foreign,
     Quiet
<1>4. DocumentStep
  BY DEF DocumentStep, Document!Next, Document!vars, Document!Ask,
     Document!Apply, Document!Answer, Document!Look, Document!Stop, InForce,
     Unlinking, SourceFine, FinalizeError, Quiet, Whole
<1>. QED BY <1>1, <1>2, <1>3, <1>4

(* A stutter: the version in force, the request and the answer stay.       *)
LEMMA RemoveAbandonQuiet ==
    ASSUME TypeOK, AnswersInv, QuietInv, RemoveAbandon,
           "unsynced" \notin Faults, Writers = {}
    PROVE  QuietInv' /\ DocumentStep
<1> USE DEF AnswersInv, QuietInv, RemoveAbandon, Goto, Abandoned, client,
            locals, ghosts
<1>1. Waiting'
  BY DEF Waiting, InForce
<1>2. Quiet'
  BY DEF Quiet, Whole, SourceFine, Unlinking, FinalizeError
<1>3. Installed'
  BY DEF Installed, InForce, Layout, SourceFine, OwnLink, Whole, Apart,
     Foreign, Unlinking, FinalizeError, Waiting
<1>4. DocumentStep
  BY DEF DocumentStep, Document!Next, Document!vars, Document!Ask,
     Document!Apply, Document!Answer, Document!Look, Document!Stop, InForce,
     Unlinking, SourceFine, FinalizeError
<1>. QED BY <1>1, <1>2, <1>3, <1>4

(* The record goes, and the path holds the version in force.               *)
LEMMA DiscardQuiet ==
    ASSUME TypeOK, AnswersInv, QuietInv, Discard, "unsynced" \notin Faults,
           Writers = {}
    PROVE  QuietInv' /\ DocumentStep
<1> USE DEF AnswersInv, QuietInv, Discard, Goto, Fault, storage, client,
            locals, ghosts
<1>1. Quiet'
  BY DEF Quiet, Whole, SourceFine
<1>2. Installed'
  BY DEF Installed, InForce, Layout, SourceFine, OwnLink, Whole, Apart,
     Foreign, RollingBack, Waiting
<1>3. Waiting'
  BY DEF Waiting, InForce, Layout, SourceFine, OwnLink, Whole, Apart, Foreign,
     RollingBack
<1>4. DocumentStep
  BY DEF DocumentStep, Document!Next, Document!vars, Document!Ask,
     Document!Apply, Document!Answer, Document!Look, Document!Stop, InForce,
     Layout, SourceFine, OwnLink, Whole, Apart, Foreign, RollingBack,
     Installed
<1>. QED BY <1>1, <1>2, <1>3, <1>4

(* Nothing the document shows changes.                                     *)
LEMMA OpenQuiet ==
    ASSUME TypeOK, AnswersInv, QuietInv, Open, "unsynced" \notin Faults,
           Writers = {}
    PROVE  QuietInv' /\ DocumentStep
<1> USE DEF AnswersInv, QuietInv, Open, Goto, storage, ghosts, client, locals
<1>1. Quiet' /\ Installed' /\ Waiting' /\ DocumentStep
  BY DEF Quiet, Whole, SourceFine, Installed, InForce, Waiting, DocumentStep,
     Document!Next, Document!vars, Document!Ask, Document!Apply,
     Document!Answer, Document!Look, Document!Stop
<1>. QED BY <1>1

(* A version is asked for.                                                 *)
LEMMA SaveQuiet ==
    ASSUME TypeOK, AnswersInv, QuietInv, Save, "unsynced" \notin Faults,
           Writers = {}
    PROVE  QuietInv' /\ DocumentStep
<1> USE DEF AnswersInv, QuietInv, Save, Goto, storage, ghosts, client, locals
<1>1. Quiet' /\ Installed' /\ Waiting' /\ DocumentStep
  BY DEF Quiet, Whole, SourceFine, Installed, InForce, Waiting, DocumentStep,
     Document!Next, Document!vars, Document!Ask, Document!Apply,
     Document!Answer, Document!Look, Document!Stop
<1>. QED BY <1>1

(* There is no other program.                                              *)
LEMMA EditInPlaceQuiet ==
    ASSUME EditInPlace, Writers = {}
    PROVE  QuietInv' /\ DocumentStep
BY DEF EditInPlace, Edited

(* There is no other program.                                              *)
LEMMA EditPutQuiet ==
    ASSUME TypeOK, AnswersInv, QuietInv, EditPut, "unsynced" \notin Faults,
           Writers = {}
    PROVE  QuietInv' /\ DocumentStep
<1> USE DEF AnswersInv, QuietInv, EditPut, Edited, Fresh, Inodes, client,
            locals, InUse
<1>1. Quiet' /\ Installed' /\ Waiting' /\ DocumentStep
  BY DEF Quiet, Whole, SourceFine, Installed, InForce, Waiting, DocumentStep,
     Document!Next, Document!vars, Document!Ask, Document!Apply,
     Document!Answer, Document!Look, Document!Stop
<1>. QED BY <1>1

(* There is no other program.                                              *)
LEMMA EditDeleteQuiet ==
    ASSUME TypeOK, AnswersInv, QuietInv, EditDelete, "unsynced" \notin Faults,
           Writers = {}
    PROVE  QuietInv' /\ DocumentStep
<1> USE DEF AnswersInv, QuietInv, EditDelete, Edited, client, locals
<1>1. Quiet' /\ Installed' /\ Waiting' /\ DocumentStep
  BY DEF Quiet, Whole, SourceFine, Installed, InForce, Waiting, DocumentStep,
     Document!Next, Document!vars, Document!Ask, Document!Apply,
     Document!Answer, Document!Look, Document!Stop
<1>. QED BY <1>1

(* The operation stops without an answer.                                  *)
LEMMA CrashQuiet ==
    ASSUME TypeOK, AnswersInv, QuietInv, Crash, "unsynced" \notin Faults,
           Writers = {}
    PROVE  QuietInv' /\ DocumentStep
<1> USE DEF AnswersInv, QuietInv, Crash, Goto, Abandoned, ghosts
<1>1. Quiet' /\ Installed' /\ Waiting' /\ DocumentStep
  BY DEF Quiet, Whole, SourceFine, Installed, InForce, Waiting, DocumentStep,
     Document!Next, Document!vars, Document!Ask, Document!Apply,
     Document!Answer, Document!Look, Document!Stop
<1>. QED BY <1>1

(* Every step keeps the invariant, and is one of the atomic document.      *)
LEMMA QuietStep ==
    ASSUME TypeOK, AnswersInv, QuietInv, [Next]_vars, "unsynced" \notin Faults, Writers = {}
    PROVE  QuietInv' /\ DocumentStep
<1>1. CASE UNCHANGED vars
  BY <1>1 DEF vars, QuietInv, Quiet, Installed, Waiting, Whole, SourceFine, InForce,
       DocumentStep, Document!vars
<1>. QED
  BY <1>1, GateEnterQuiet, RecoverPrecommitQuiet, GatePassedQuiet,
     AnswerFailedQuiet, AnswerSavedQuiet, BeginQuiet, StageCreateQuiet,
     StageFillQuiet, StageRecordQuiet, CheckSourceQuiet, RecordIsolatingQuiet,
     IsolateQuiet, CheckQuarantineQuiet, MoveBackQuiet, RecordIsolatedQuiet,
     CheckIsolatedQuiet, LinkQuiet, CheckLinkedQuiet, RecordInstalledQuiet,
     FinalizeQuiet, RecordSourceRemovedQuiet, RecordFinalizedQuiet,
     UnlinkQuiet, RestoreCheckQuiet, RestoreRenameQuiet,
     RecordRolledBackQuiet, DropPayloadQuiet, RemoveIsolateQuiet,
     RemoveCheckQuiet, RemoveAbandonQuiet, DiscardQuiet, OpenQuiet, SaveQuiet,
     EditInPlaceQuiet, EditPutQuiet, EditDeleteQuiet, CrashQuiet
     DEF Next, Kernel, Environment

(* The invariant holds where no other program touches the file.            *)
LEMMA QuietInvariant ==
    ASSUME "unsynced" \notin Faults, Writers = {}
    PROVE  Spec => []QuietInv
<1>1. Init => QuietInv
  BY DEF Init, QuietInv, Quiet, Installed, Waiting, Whole, SourceFine, InForce, NoTx
<1>2. TypeOK /\ AnswersInv /\ QuietInv /\ [Next]_vars => QuietInv'
  BY QuietStep
<1>. QED BY <1>1, <1>2, TypeCorrect, AnswersInvariant, PTL DEF Spec

(* The save transaction, with its journal, its links, its rollback, its    *)
(* recovery and a stop at any step, implements a document whose saves are  *)
(* atomic and whose answers are true.                                      *)
THEOREM ImplementsDocument ==
    ASSUME "unsynced" \notin Faults, Writers = {}
    PROVE  Spec => ImplementsAtomicDocument
<1>1. Init => Document!Init
  BY DEF Init, Document!Init, InForce, NoTx
<1>2. TypeOK /\ AnswersInv /\ QuietInv /\ [Next]_vars => [Document!Next]_Document!vars
  BY QuietStep DEF DocumentStep
<1>. QED
  BY <1>1, <1>2, TypeCorrect, AnswersInvariant, QuietInvariant, PTL
     DEF Spec, Document!Spec, ImplementsAtomicDocument
=============================================================================
