----------------------------- MODULE MCPollerV2 -----------------------------
(* Instances of PollerV2 for TLC, with the policy table of the service. *)
EXTENDS PollerV2, FailurePolicy

CONSTANTS a, b

NoDeps == [j \in Jobs |-> {}]
TableLane     == [c \in Classes |-> LookupPolicy(c).next_lane]
TableAttempts == [c \in Classes |-> LookupPolicy(c).max_attempts]

=============================================================================
