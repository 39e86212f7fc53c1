----------------------- MODULE MarkdownSaveRefinement -----------------------
(***************************************************************************)
(* MarkdownSave implements AtomicDocument while no other program touches   *)
(* the file and the storage reports no error after a write took effect.    *)
(***************************************************************************)
EXTENDS MarkdownSave

(* The version in force: the payload once "installed" is recorded, before  *)
(* it the isolated source, and the file at the path otherwise.             *)
InForce ==
    IF journal.phase \in Committed THEN journal.targetID.ver
    ELSE IF Present("quarantine") THEN disk["quarantine"].ver
    ELSE disk["source"].ver

Document == INSTANCE AtomicDocument WITH
    First   <- 1,
    content <- InForce,
    pending <- IF op = "save" /\ pc # "idle" THEN want ELSE 0

(* Every behaviour of the save transaction, with its journal, its links,   *)
(* its rollback, its recovery and a stop at any step, is one of a document *)
(* whose saves are atomic and whose answers are true.                      *)
ImplementsAtomicDocument == Document!Spec
=============================================================================
