--------------------------- MODULE MCDispatchTxn ---------------------------
(* Instances of DispatchTxn for TLC: connections are interchangeable. *)
EXTENDS DispatchTxn, TLC

CONSTANTS c1, c2

AnySession == Permutations(Sessions)

\* No v2 agent sends 'resumed'.
AllButResumed == RequestKinds \ {"resumed"}

=============================================================================
