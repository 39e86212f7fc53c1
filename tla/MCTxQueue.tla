------------------------------ MODULE MCTxQueue ------------------------------
(***************************************************************************)
(* TxQueue for TLC: every transaction changes every document, so that      *)
(* documents are interchangeable, and so are the editors' transactions.    *)
(***************************************************************************)
EXTENDS TxQueue, TLC

Interchangeable == Permutations(Docs) \cup Permutations(Edits)
=============================================================================
