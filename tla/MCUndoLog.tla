------------------------------ MODULE MCUndoLog ------------------------------
(***************************************************************************)
(* UndoLog for TLC: documents and windows are interchangeable, in the      *)
(* specification and in every property of the run.                         *)
(***************************************************************************)
EXTENDS UndoLog, TLC

Interchangeable == Permutations(Docs) \cup Permutations(Windows)
=============================================================================
