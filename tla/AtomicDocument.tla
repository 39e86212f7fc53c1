--------------------------- MODULE AtomicDocument ---------------------------
(***************************************************************************)
(* What SaveMarkdown promises when no other program touches the file: a    *)
(* document holds one version, a save replaces it at one moment or not at  *)
(* all, the answer tells which, and a stop of the kernel changes nothing.  *)
(***************************************************************************)
EXTENDS Naturals

CONSTANT First  \* the version the document starts with

VARIABLES
    content,  \* the version the document holds
    pending,  \* the version of the save under way, 0 when there is none
    answer    \* the last answer

vars == <<content, pending, answer>>

Init == content = First /\ pending = 0 /\ answer = "ok"

Ask ==
    /\ pending = 0 /\ pending' \in Nat \ {0}
    /\ UNCHANGED <<content, answer>>

Apply ==
    /\ pending # 0 /\ content' = pending
    /\ UNCHANGED <<pending, answer>>

(* An answer is "ok" exactly when the save has been applied.               *)
Answer ==
    /\ pending # 0 /\ pending' = 0
    /\ \/ content = pending /\ answer' = "ok"
       \/ content # pending /\ answer' \in {"error", "blocked"}
    /\ UNCHANGED content

Look ==
    /\ pending = 0 /\ answer' \in {"ok", "blocked"}
    /\ UNCHANGED <<content, pending>>

(* No answer: what was applied stays and what was not never is.            *)
Stop ==
    /\ pending' = 0 /\ answer' = "none"
    /\ UNCHANGED content

Next == Ask \/ Apply \/ Answer \/ Look \/ Stop

Spec == Init /\ [][Next]_vars
=============================================================================
