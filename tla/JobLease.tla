------------------------------ MODULE JobLease ------------------------------
(***************************************************************************)
(* What the v2 queue promises of the lease of one job, whatever is sent to *)
(* it at once: a claim and its lease come in one step, and take nobody's   *)
(* lease but a manager's does; an event that ends a lease and the end of   *)
(* the lease are one step; only the sweeper takes a lease and leaves the   *)
(* job as it is, and then it owes the job a 'released' event.  No token    *)
(* comes into force twice.                                                 *)
(***************************************************************************)
EXTENDS Naturals

CONSTANTS
  ManagersClaim, \* whether managers claim by id
  LateResume     \* whether 'resumed' may come for a lease that is gone

VARIABLES
  state, \* of the job
  token, \* of the lease in force; 0 if there is none
  top,   \* the largest token that can have been in force
  owed   \* a lease was swept and its 'released' event is not recorded yet

vars == <<state, token, top, owed>>

Init == /\ state \in {"absent", "pending"}
        /\ token = 0 /\ top = 0 /\ owed = FALSE

NoNewDebt == owed' => owed

Claim ==
  /\ token = 0 \/ ManagersClaim
  /\ state' = "leased"
  /\ token' \in Nat /\ token' > top
  /\ top' = token'
  /\ NoNewDebt

\* Agents, managers, operators, webhooks and watchers: an event, and with it the
\* end of the lease or not.  A job under review has none.
Move ==
  /\ state' # "leased"
  /\ token' \in {0, token}
  /\ state' = "in_review" => token' = 0
  /\ NoNewDebt
  /\ UNCHANGED top

Resume ==
  /\ token # 0 \/ LateResume
  /\ state' = "leased"
  /\ NoNewDebt
  /\ UNCHANGED <<token, top>>

Sweep ==
  /\ token # 0
  /\ token' = 0
  /\ owed'
  /\ UNCHANGED <<state, top>>

\* A claim that drew a token is rolled back.
Waste ==
  /\ top' \in Nat /\ top' > top
  /\ UNCHANGED <<state, token, owed>>

Next == Claim \/ Move \/ Resume \/ Sweep \/ Waste

Spec == Init /\ [][Next]_vars
=============================================================================
