----------------------- MODULE MCProtyleTransactions -----------------------
\* Two editors, each in a window of its own, for model checking ProtyleTransactions.
EXTENDS ProtyleTransactions

CONSTANTS e1, e2, w1, w2

TwoWindows == [e \in Editors |-> IF e = e1 THEN w1 ELSE w2]
============================================================================
