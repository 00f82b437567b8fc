--------------------------- MODULE PollerV2Claims ---------------------------
(* What a docstring of the v2 poller says, and the composition does not do. *)
EXTENDS MCPollerV2

\* Without mishaps a job runs again only after a failure or a review: a successful
\* run without a pull request "degrades gracefully" to needs_info (resolution 3 of
\* _success_transition_payload), where the job waits for a human.
RerunHasReason == Mishaps = {} =>
  \A j \in Jobs : newest[j] > 1 => j \in linked \/ \E c \in Classes : failures[j][c] > 0

=============================================================================
