---------------------------- MODULE MCDispatchV2 ----------------------------
(* Instances of DispatchV2 for TLC, with the policy table of the service. *)
EXTENDS DispatchV2, FailurePolicy

CONSTANTS a, b, held

OneJob == {a}
ThreeJobs == {a, b, held}

\* b waits for a; or nobody waits.
BAfterA == [j \in Jobs |-> IF j = b THEN {a} ELSE {}]
NoDeps  == [j \in Jobs |-> {}]

TableLane     == [c \in Classes |-> LookupPolicy(c).next_lane]
TableAttempts == [c \in Classes |-> LookupPolicy(c).max_attempts]

=============================================================================
