--------------------------- MODULE DispatchStates ---------------------------
(***************************************************************************)
(* Vocabulary of the v2 dispatch queue: the states a job can be in, the    *)
(* events that move it, and the two tables the service and the database    *)
(* trigger share.  An event says where the job goes whatever state it was  *)
(* in; only /transition and /review-outcome look at TransitionAllowed      *)
(* first.                                                                  *)
(***************************************************************************)

\* A job row that does not exist yet is "absent".
JobStates == {"absent", "pending", "leased", "in_review", "needs_info",
              "completed", "failed", "cancelled", "dead_letter", "quarantined"}

Lanes == {"none", "work_queue", "in_progress", "in_review", "human_queue",
          "attention_queue", "terminal", "quarantined"}

\* Events that append to the log without touching the projection.
Informational == {"heartbeat", "phase_started", "phase_completed", "phase_failed"}

ProjectingEvents == {"enqueued", "leased", "released", "submitted", "accepted",
                     "rejected", "needs_info", "resumed", "failed", "cancelled",
                     "dead_lettered", "quarantined", "requeued"}

EventTypes == ProjectingEvents \cup Informational

\* The state a job is in after each projecting event.
StateAfter(e) ==
  CASE e \in {"enqueued", "released", "rejected", "requeued"} -> "pending"
    [] e \in {"leased", "resumed"}  -> "leased"
    [] e = "submitted"              -> "in_review"
    [] e = "accepted"               -> "completed"
    [] e = "needs_info"             -> "needs_info"
    [] e = "failed"                 -> "failed"
    [] e = "cancelled"              -> "cancelled"
    [] e = "dead_lettered"          -> "dead_letter"
    [] e = "quarantined"            -> "quarantined"

\* Mutant of LaneAfter: the lane column is given the state.
LaneAsState(e, kind) == StateAfter(e)

\* A question waits in human_queue unless it is of kind "attention"; every
\* failure waits in attention_queue.
LaneAfter(e, kind) ==
  CASE e \in {"enqueued", "released", "rejected", "requeued"} -> "work_queue"
    [] e \in {"leased", "resumed"}  -> "in_progress"
    [] e = "submitted"              -> "in_review"
    [] e \in {"accepted", "cancelled", "dead_lettered"} -> "terminal"
    [] e = "needs_info"             -> IF kind = "attention" THEN "attention_queue"
                                                             ELSE "human_queue"
    [] e = "failed"                 -> "attention_queue"
    [] e = "quarantined"            -> "quarantined"

\* Events /transition accepts in each state.
TransitionAllowed(s) ==
  CASE s = "pending"     -> {"leased", "cancelled", "quarantined"}
    [] s = "leased"      -> {"heartbeat", "submitted", "released", "needs_info",
                             "failed", "cancelled", "dead_lettered", "quarantined"}
    [] s = "in_review"   -> {"accepted", "rejected", "failed"}
    [] s = "needs_info"  -> {"resumed", "cancelled"}
    [] s = "failed"      -> {"requeued"}
    [] s = "quarantined" -> {"requeued", "cancelled"}
    [] OTHER             -> {}

\* Transitions after which the service deletes the lease row.
LeaseEnding == {"submitted", "accepted", "rejected", "failed", "cancelled",
                "dead_lettered", "quarantined"}

\* Mutant of Terminal: dead letters are forgotten.
TerminalButDead == {"completed", "cancelled", "failed"}

\* States the operator endpoints refuse to resume or cancel.
Terminal == {"completed", "cancelled", "failed", "dead_letter"}

\* Claims, watchers and the failure policy record these in any state.
Unchecked == {"leased", "released", "accepted", "failed", "requeued",
              "quarantined", "dead_lettered"}

\* What some writer may record of a job in state s.
MayBeRecorded(s) ==
  Unchecked \cup (TransitionAllowed(s) \cap ProjectingEvents)
            \cup (IF s \in Terminal THEN {} ELSE {"cancelled"})

=============================================================================
