--------------------------- MODULE JobLease_proofs ---------------------------
(***************************************************************************)
(* What follows from the promise made of a lease, hence holds of every     *)
(* specification that implements JobLease.                                 *)
(***************************************************************************)
EXTENDS JobLease, TLAPS

\* What each step keeps: the tokens are numbers and none is above the top; a
\* job in review has no lease; one that is 'leased' has one or is owed an event.
LeaseInv ==
  /\ token \in Nat /\ top \in Nat /\ token <= top
  /\ state = "in_review" => token = 0
  /\ ~LateResume /\ state = "leased" => token # 0 \/ owed

LEMMA LeaseInvHolds == Spec => []LeaseInv
<1>1. Init => LeaseInv
  BY DEF Init, LeaseInv
<1>2. LeaseInv /\ [Next]_vars => LeaseInv'
  <2> SUFFICES ASSUME LeaseInv, [Next]_vars PROVE LeaseInv'
    OBVIOUS
  <2>1. CASE Claim
    BY <2>1 DEF Claim, LeaseInv
  <2>2. CASE Move
    BY <2>2 DEF Move, LeaseInv
  <2>3. CASE Resume
    BY <2>3 DEF Resume, LeaseInv
  <2>4. CASE Sweep
    BY <2>4 DEF Sweep, LeaseInv
  <2>5. CASE Waste
    BY <2>5 DEF Waste, LeaseInv
  <2>6. CASE UNCHANGED vars
    BY <2>6 DEF vars, LeaseInv
  <2>7. QED BY <2>1, <2>2, <2>3, <2>4, <2>5, <2>6 DEF Next
<1>3. QED BY <1>1, <1>2, PTL DEF Spec

\* The holder of a lease that was replaced, swept or given back is fenced off for
\* ever: its token never comes into force again, so no late request of its passes
\* a token check (heartbeat, release_lease and transition compare tokens only).
THEOREM TokensNeverReturn ==
  ASSUME NEW t \in Nat \ {0}
  PROVE  Spec => [](token # t /\ t <= top => [](token # t))
<1> DEFINE Over == token # t /\ t <= top
<1>1. Over /\ LeaseInv /\ [Next]_vars => Over'
  <2> SUFFICES ASSUME Over, LeaseInv, [Next]_vars PROVE Over'
    OBVIOUS
  <2>1. CASE Claim
    BY <2>1 DEF Claim, LeaseInv
  <2>2. CASE Move \/ Resume \/ Sweep
    BY <2>2 DEF Move, Resume, Sweep, LeaseInv
  <2>3. CASE Waste
    BY <2>3 DEF Waste, LeaseInv
  <2>4. CASE UNCHANGED vars
    BY <2>4 DEF vars
  <2>5. QED BY <2>1, <2>2, <2>3, <2>4 DEF Next
<1>2. Over => token # t
  OBVIOUS
<1> HIDE DEF Over
<1>3. Spec => [](Over => [](token # t))
  BY <1>1, <1>2, LeaseInvHolds, PTL DEF Spec
<1>4. QED BY <1>3 DEF Over

=============================================================================
