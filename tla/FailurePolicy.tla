---------------------------- MODULE FailurePolicy ----------------------------
(***************************************************************************)
(* The failure policy's data: POLICY_TABLE, in which apply() looks up the  *)
(* failure class that a 'failed' event carries.                            *)
(***************************************************************************)
EXTENDS Naturals

PolicyRow(attempts, lane) ==
  [retryable |-> attempts > 0, max_attempts |-> attempts, next_lane |-> lane]

TwoAttempts ==
  {"lease_lost", "git_push_failed", "phase_1_seed_error", "phase_2_research_error",
   "phase_3_expansion_error", "phase_4_analysis_error", "phase_5_selection_error",
   "phase_6_design_error", "phase_8_impl_fail", "phase_9_refinement_error",
   "phase_10_ops_error"}

ThreeAttempts ==
  {"branch_setup_failed", "sdk_died_silent", "phase_runner_crash",
   "sigterm_shutdown", "git_branch_setup_failed"}

HumanClasses ==
  {"argparse_reject", "git_rebase_failed", "needs_info_unanswered",
   "workspace_missing", "auth_expired", "code_test_red", "adversarial_block",
   "unknown", "agent_stuck_question_budget_exceeded", "agent_repetition",
   "phase_overrun", "agent_flapping", "phase_7_test_red", "git_workspace_dirty",
   "watchdog_progress_stall", "watchdog_lease_lost", "watchdog_oom_guard",
   "watchdog_turn_max"}

FailureClasses ==
  TwoAttempts \cup ThreeAttempts \cup HumanClasses \cup
    {"rate_limited", "quota_exceeded", "dependency_missing", "dependency_unresolved_7d"}

\* The classes of POLICY_TABLE; cooldown_sec is left out, nothing reads it.
PolicyTable ==
  [c \in FailureClasses |->
     CASE c = "rate_limited"             -> PolicyRow(5, "work_queue")
       [] c \in ThreeAttempts            -> PolicyRow(3, "work_queue")
       [] c \in TwoAttempts              -> PolicyRow(2, "work_queue")
       [] c = "quota_exceeded"           -> PolicyRow(1, "work_queue")
       [] c = "dependency_missing"       -> PolicyRow(0, "quarantined")
       [] c = "dependency_unresolved_7d" -> PolicyRow(0, "dead_letter")
       [] OTHER                          -> PolicyRow(0, "attention_queue")]

\* A class the table does not know has the policy of "unknown".
LookupPolicy(c) == PolicyTable[IF c \in FailureClasses THEN c ELSE "unknown"]

=============================================================================
