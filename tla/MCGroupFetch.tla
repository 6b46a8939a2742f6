----------------------------- MODULE MCGroupFetch -----------------------------
(* Instances of GroupFetch for TLC. *)
EXTENDS GroupFetch, TLC

Symmetry == Permutations(Items) \cup Permutations(Objects)

\* What a free object holds is never read: Publish empties it.
View == <<fanVars, cur, req, [o \in Objects |-> IF o \in Free THEN NewToken ELSE heap[o]]>>
=============================================================================
