-------------------------- MODULE DispatchV2_proofs --------------------------
(***************************************************************************)
(* Safety of DispatchV2 for any number of jobs, any dependencies, policy   *)
(* table and faults.                                                       *)
(***************************************************************************)
EXTENDS DispatchV2, FailurePolicy, TLAPS

-----------------------------------------------------------------------------
\* What the building blocks of the actions preserve.

LEMMA StateAfterTyped ==
  ASSUME NEW e \in ProjectingEvents, NEW kind
  PROVE  StateAfter(e) \in JobStates /\ LaneAfter(e, kind) \in Lanes
BY DEF ProjectingEvents, StateAfter, LaneAfter, JobStates, Lanes

LEMMA ProjectTyped ==
  ASSUME TypeOK, NEW j \in Jobs, NEW e \in ProjectingEvents, NEW kind, Project(j, e, kind)
  PROVE  /\ state' \in [Jobs -> JobStates]
         /\ lane' \in [Jobs -> Lanes]
         /\ orphaned' \subseteq Jobs
BY StateAfterTyped DEF TypeOK, Project

LEMMA NoLeaseTyped == NoLease \in Leases
BY DEF NoLease, Leases

LEMMA GrantTyped ==
  ASSUME TypeOK, NEW j \in Jobs, Grant(j)
  PROVE  lease' \in [Jobs -> Leases] /\ newest' \in [Jobs -> 0..MaxLeases]
<1>1. newest[j] + 1 \in 0..MaxLeases
  BY ConstantsOK DEF TypeOK, Grant
<1>2. [token |-> newest[j] + 1, alive |-> TRUE, expired |-> FALSE] \in Leases
  BY <1>1 DEF Leases
<1> QED BY <1>1, <1>2 DEF TypeOK, Grant

LEMMA DropLeaseTyped ==
  ASSUME TypeOK, NEW j \in Jobs, DropLease(j)
  PROVE  lease' \in [Jobs -> Leases] /\ newest' \in [Jobs -> 0..MaxLeases]
BY NoLeaseTyped DEF TypeOK, DropLease

LEMMA TallyTyped ==
  ASSUME NEW count \in [Jobs -> [Classes -> Nat]], NEW j \in Jobs, NEW c \in Classes
  PROVE  Tally(count, j, c) \in [Jobs -> [Classes -> Nat]]
BY DEF Tally

LEMMA DecideTyped ==
  ASSUME TypeOK, NEW S, NEW d \in Decisions, Decide(S, d)
  PROVE  decided' \in [Jobs -> [Decisions -> Nat]]
BY DEF TypeOK, Decide

LEMMA UndecideTyped ==
  ASSUME TypeOK, NEW j \in Jobs, NEW d \in Decisions, decided[j][d] > 0, Undecide(j, d)
  PROVE  decided' \in [Jobs -> [Decisions -> Nat]]
BY DEF TypeOK, Undecide

LEMMA AbortTickTyped ==
  ASSUME TypeOK, NEW d \in Decisions, AbortTick(d)
  PROVE  decided' \in [Jobs -> [Decisions -> Nat]]
BY DEF TypeOK, AbortTick

LEMMA WatcherDecisionsAreDecisions ==
  /\ Released \in Decisions /\ Accepted \in Decisions /\ Unanswered \in Decisions
  /\ Unlinked \in Decisions /\ DepsMet \in Decisions
BY DEF Decisions, WatcherDecisions

LEMMA DecisionEvents == ASSUME NEW d \in Decisions PROVE d.event \in ProjectingEvents
BY DEF Decisions, WatcherDecisions, PolicyDecisions, Released, Accepted, Unanswered,
       Unlinked, DepsMet, Decision, ProjectingEvents

-----------------------------------------------------------------------------
\* Typing.

LEMMA TypeInit == Init => TypeOK
BY ConstantsOK, NoLeaseTyped DEF Init, TypeOK, JobStates, Lanes

LEMMA TypeAgent ==
  ASSUME TypeOK, NEW j \in Jobs, AgentStep(j)
  PROVE  TypeOK'
<1> USE DEF MayTransition
<1>1. CASE ClaimNext(j)
  <2>1. "leased" \in ProjectingEvents BY DEF ProjectingEvents
  <2> QED BY <1>1, <2>1, ProjectTyped, GrantTyped DEF ClaimNext, Append, TypeOK, policy
<1>2. CASE HolderDies(j)
  BY <1>2 DEF HolderDies, TypeOK, projection, policy, Leases
<1>3. ASSUME NEW t \in 1..MaxLeases, Heartbeat(j, t)
      PROVE  TypeOK'
  BY <1>3 DEF Heartbeat, TypeOK, projection, policy, Leases
<1>4. ASSUME NEW t \in 1..MaxLeases, Release(j, t)
      PROVE  TypeOK'
  <2>1. "released" \in ProjectingEvents BY DEF ProjectingEvents
  <2> QED BY <1>4, <2>1, ProjectTyped, DropLeaseTyped DEF Release, Append, TypeOK, policy
<1>5. ASSUME NEW t \in 1..MaxLeases, Submit(j, t)
      PROVE  TypeOK'
  <2>1. "submitted" \in ProjectingEvents BY DEF ProjectingEvents
  <2> QED BY <1>5, <2>1, ProjectTyped, DropLeaseTyped DEF Submit, Append, TypeOK, policy
<1>6. ASSUME NEW t \in 1..MaxLeases, NEW c \in Classes, ReportFailure(j, t, c)
      PROVE  TypeOK'
  <2>1. "failed" \in ProjectingEvents BY DEF ProjectingEvents
  <2>2. failures' \in [Jobs -> [Classes -> Nat]] /\ calls' \in [Jobs -> [Classes -> Nat]]
    BY <1>6, TallyTyped DEF ReportFailure, TypeOK
  <2> QED BY <1>6, <2>1, <2>2, ProjectTyped, DropLeaseTyped DEF ReportFailure, Append, TypeOK
<1>7. ASSUME NEW t \in 1..MaxLeases, NEW kind \in {"question", "attention"}, AskHuman(j, t, kind)
      PROVE  TypeOK'
  <2>1. "needs_info" \in ProjectingEvents BY DEF ProjectingEvents
  <2> QED BY <1>7, <2>1, ProjectTyped DEF AskHuman, TypeOK, leases, policy
<1>8. ASSUME NEW t \in 1..MaxLeases, NEW e \in OtherEvents, Transition(j, t, e)
      PROVE  TypeOK'
  <2>1. e \in ProjectingEvents BY DEF OtherEvents
  <2>2. lease' \in [Jobs -> Leases] /\ newest' \in [Jobs -> 0..MaxLeases]
    BY <1>8, DropLeaseTyped DEF Transition, TypeOK, leases
  <2> QED BY <1>8, <2>1, <2>2, ProjectTyped DEF Transition, Append, TypeOK, policy
<1> QED BY <1>1, <1>2, <1>3, <1>4, <1>5, <1>6, <1>7, <1>8 DEF AgentStep

LEMMA TypeManager ==
  ASSUME TypeOK, NEW j \in Jobs, ManagerStep(j)
  PROVE  TypeOK'
<1>1. {"enqueued", "leased", "accepted", "rejected", "requeued", "cancelled",
       "dead_lettered"} \subseteq ProjectingEvents
  BY DEF ProjectingEvents
<1>2. CASE Enqueue(j)
  BY <1>1, <1>2, ProjectTyped DEF Enqueue, Append, TypeOK, leases, policy
<1>3. CASE ClaimById(j)
  BY <1>1, <1>3, ProjectTyped, GrantTyped DEF ClaimById, Append, TypeOK, policy
<1>4. ASSUME NEW outcome \in {"accepted", "rejected"}, ReviewOutcome(j, outcome)
      PROVE  TypeOK'
  BY <1>1, <1>4, ProjectTyped, DropLeaseTyped DEF ReviewOutcome, Append, TypeOK, policy
<1>5. CASE OperatorResume(j)
  <2>1. lease' \in [Jobs -> Leases] /\ newest' \in [Jobs -> 0..MaxLeases]
    BY <1>5, DropLeaseTyped DEF OperatorResume, TypeOK, leases
  <2> QED BY <1>1, <1>5, <2>1, ProjectTyped DEF OperatorResume, Append, TypeOK, policy
<1>6. CASE OperatorCancel(j)
  BY <1>1, <1>6, ProjectTyped DEF OperatorCancel, Append, TypeOK, leases, policy
<1>7. CASE OperatorDeadLetter(j)
  BY <1>1, <1>7, ProjectTyped DEF OperatorDeadLetter, Append, TypeOK, leases, policy
<1>8. CASE PrFeedback(j)
  BY <1>1, <1>8, ProjectTyped DEF PrFeedback, Append, TypeOK, leases, policy
<1>9. CASE LinkPr(j)
  BY <1>9 DEF LinkPr, TypeOK, projection, leases, policy
<1> QED BY <1>2, <1>3, <1>4, <1>5, <1>6, <1>7, <1>8, <1>9 DEF ManagerStep

LEMMA FetchTyped ==
  ASSUME TypeOK, NEW S, NEW d \in Decisions, Fetch(S, d)
  PROVE  TypeOK'
BY DecideTyped DEF Fetch, TypeOK, projection, leases, policy

LEMMA TypeHandle ==
  ASSUME TypeOK, NEW j \in Jobs, NEW d \in Decisions, Handle(j, d)
  PROVE  TypeOK'
<1>1. CASE RecordDecision(j, d)
  <2>1. failures' \in [Jobs -> [Classes -> Nat]]
    <3>1. CASE d.cls \in Classes /\ failures' = Tally(failures, j, d.cls)
      BY <3>1, TallyTyped DEF TypeOK
    <3>2. CASE UNCHANGED failures
      BY <3>2 DEF TypeOK
    <3> QED BY <1>1, <3>1, <3>2, Zenon DEF RecordDecision
  <2>2. decided' \in [Jobs -> [Decisions -> Nat]]
    BY <1>1, UndecideTyped DEF RecordDecision
  <2> QED BY <1>1, <2>1, <2>2, DecisionEvents, ProjectTyped DEF RecordDecision, Append, TypeOK, leases
<1>2. CASE PassOver(j, d)
  BY <1>2, UndecideTyped DEF PassOver, TypeOK, projection, leases, policy
<1>3. CASE WriteFails(j, d)
  <2>1. decided' \in [Jobs -> [Decisions -> Nat]]
    BY <1>3, UndecideTyped, AbortTickTyped DEF WriteFails
  <2> QED BY <1>3, <2>1 DEF WriteFails, TypeOK, leases, policy
<1> QED BY <1>1, <1>2, <1>3 DEF Handle

LEMMA PolicyEventDecision ==
  ASSUME NEW c \in Classes, NEW attempts, PolicyEvent(c, attempts) # "none"
  PROVE  Decision("failure_policy", PolicyEvent(c, attempts), c) \in PolicyDecisions
<1>1. PolicyEvent(c, attempts) \in {"requeued", "failed", "quarantined", "dead_lettered", "none"}
  BY DEF PolicyEvent
<1> QED BY <1>1 DEF PolicyDecisions

LEMMA TypePolicy ==
  ASSUME TypeOK, NEW j \in Jobs, NEW c \in Classes, PolicyDecide(j, c)
  PROVE  TypeOK'
<1>1. PICK attempts \in Attempts(j, c) :
        LET e == PolicyEvent(c, attempts) IN
          /\ Decide(IF e = "none" THEN {} ELSE {j}, Decision("failure_policy", e, c))
          /\ requeues' = IF e = "requeued" THEN Tally(requeues, j, c) ELSE requeues
  BY DEF PolicyDecide
<1>2. requeues' \in [Jobs -> [Classes -> Nat]]
  BY <1>1, TallyTyped DEF TypeOK
<1>3. calls' \in [Jobs -> [Classes -> Nat]]
  BY DEF PolicyDecide, TypeOK
<1>4. decided' \in [Jobs -> [Decisions -> Nat]]
  <2>1. CASE PolicyEvent(c, attempts) = "none"
    BY <1>1, <2>1 DEF Decide, TypeOK
  <2>2. CASE PolicyEvent(c, attempts) # "none"
    BY <1>1, <2>2, PolicyEventDecision, DecideTyped DEF Decisions
  <2> QED BY <2>1, <2>2
<1> QED BY <1>2, <1>3, <1>4 DEF PolicyDecide, TypeOK, projection, leases

LEMMA TypeConsole ==
  ASSUME TypeOK, ConsoleStep
  PROVE  TypeOK'
<1>1. CASE SweepExpired
  <2>1. lease' \in [Jobs -> Leases]
    BY <1>1, NoLeaseTyped DEF SweepExpired, TypeOK
  <2>2. decided' \in [Jobs -> [Decisions -> Nat]]
    BY <1>1, DecideTyped, WatcherDecisionsAreDecisions DEF SweepExpired
  <2> QED BY <1>1, <2>1, <2>2 DEF SweepExpired, TypeOK, projection, policy
<1>2. CASE MergeTick
  BY <1>2, FetchTyped, WatcherDecisionsAreDecisions DEF MergeTick
<1>3. ASSUME NEW S \in SUBSET Jobs, UnlinkedTick(S) PROVE TypeOK'
  BY <1>3, FetchTyped, WatcherDecisionsAreDecisions DEF UnlinkedTick
<1>4. ASSUME NEW S \in SUBSET Jobs, TtlTick(S) PROVE TypeOK'
  BY <1>4, FetchTyped, WatcherDecisionsAreDecisions DEF TtlTick
<1>5. CASE DependencyTick
  BY <1>5, FetchTyped, WatcherDecisionsAreDecisions DEF DependencyTick
<1>6. CASE ConsoleRestart
  BY <1>6 DEF ConsoleRestart, TypeOK, leases
<1> QED BY <1>1, <1>2, <1>3, <1>4, <1>5, <1>6, TypeHandle, TypePolicy DEF ConsoleStep

LEMMA TypeStep == TypeOK /\ [Next]_vars => TypeOK'
<1> SUFFICES ASSUME TypeOK, [Next]_vars PROVE TypeOK'
  OBVIOUS
<1>1. ASSUME NEW j \in Jobs, Expire(j) PROVE TypeOK'
  BY <1>1 DEF Expire, TypeOK, projection, policy, Leases
<1>2. CASE UNCHANGED vars
  BY <1>2 DEF TypeOK, vars
<1> QED BY <1>1, <1>2, TypeAgent, TypeManager, TypeConsole DEF Next

\* Every variable keeps its type: in particular no count falls below zero and no
\* job is granted more leases than the bound.
THEOREM TypeCorrect == Spec => []TypeOK
BY TypeInit, TypeStep, PTL DEF Spec

-----------------------------------------------------------------------------
\* The inductive invariant, job by job.  The three last parts strengthen what
\* the runs check: they say why a review or a completion implies a lease once
\* granted, why retries cannot outnumber failures, and why nothing ever touches
\* a barred job.

Held(j) == state[j] = "leased" => HasLease(j) \/ decided[j][Released] > 0 \/ j \in orphaned

RanOnce(j) ==
  /\ state[j] \in {"in_review", "completed"} => newest[j] > 0
  /\ decided[j][Accepted] > 0 => newest[j] > 0

Budget(j) == \A c \in Classes :
  /\ requeues[j][c] + calls[j][c] <= failures[j][c]
  /\ "count_fails" \notin Faults => requeues[j][c] = 0 \/ requeues[j][c] < MaxAttempts[c]

Untried(j) ==
  /\ newest[j] = 0 /\ lease[j] = NoLease
  /\ state[j] \in {"absent", "pending", "cancelled"}
  /\ lane[j] \in {"none", "work_queue", "terminal"}
  /\ \A d \in Decisions : decided[j][d] = 0
  /\ \A c \in Classes : calls[j][c] = 0

JobInv(j) ==
  /\ state[j] = "in_review" => ~HasLease(j)
  /\ Held(j)
  /\ RanOnce(j)
  /\ Budget(j)
  /\ "claim_by_id" \notin Faults /\ j \in Barred => Untried(j)

IInv == TypeOK /\ \A j \in Jobs : JobInv(j)

\* The step leaves every variable of job k alone.
Untouched(k) ==
  /\ state'[k] = state[k] /\ lane'[k] = lane[k]
  /\ lease'[k] = lease[k] /\ newest'[k] = newest[k]
  /\ failures'[k] = failures[k] /\ calls'[k] = calls[k] /\ requeues'[k] = requeues[k]
  /\ decided'[k] = decided[k]
  /\ k \in orphaned' <=> k \in orphaned

LEMMA UntouchedKeeps ==
  ASSUME NEW k \in Jobs, JobInv(k), Untouched(k)
  PROVE  JobInv(k)'
BY DEF JobInv, Held, RanOnce, Budget, Untried, Untouched, HasLease

LEMMA InitInv == Init => IInv
<1> SUFFICES ASSUME Init, NEW j \in Jobs PROVE JobInv(j)
  BY TypeInit DEF IInv
<1>1. Budget(j)
  BY DEF Init, Budget
<1> QED BY <1>1, WatcherDecisionsAreDecisions DEF Init, JobInv, Held, RanOnce, Untried, HasLease

\* Where the events that matter to the invariant lead.
LEMMA EventTargets ==
  ASSUME NEW e \in ProjectingEvents
  PROVE  /\ StateAfter(e) = "leased" => e \in {"leased", "resumed"}
         /\ StateAfter(e) = "in_review" => e = "submitted"
         /\ StateAfter(e) = "completed" => e = "accepted"
BY DEF ProjectingEvents, StateAfter

\* An event on j changes the projection of j alone.
LEMMA AppendAt ==
  ASSUME TypeOK, NEW j \in Jobs, NEW e, NEW kind, Project(j, e, kind)
  PROVE  /\ state'[j] = StateAfter(e) /\ lane'[j] = LaneAfter(e, kind)
         /\ \A k \in Jobs \ {j} :
              state'[k] = state[k] /\ lane'[k] = lane[k] /\ (k \in orphaned' <=> k \in orphaned)
BY DEF TypeOK, Project

LEMMA OneJobStep ==
  ASSUME IInv, NEW j \in Jobs, \A k \in Jobs \ {j} : Untouched(k), JobInv(j)'
  PROVE  \A k \in Jobs : JobInv(k)'
BY UntouchedKeeps DEF IInv

LEMMA BudgetKept ==
  ASSUME NEW j \in Jobs, Budget(j), failures'[j] = failures[j], calls'[j] = calls[j],
         requeues'[j] = requeues[j]
  PROVE  Budget(j)'
BY DEF Budget

\* A request that passes the token check finds a lease, so the job is no longer
\* untried.
LEMMA FencedHolds ==
  ASSUME IInv, NEW j \in Jobs, NEW t \in 1..MaxLeases, MayRequest(j, t), Fenced(j, t)
  PROVE  /\ HasLease(j) /\ newest[j] > 0
         /\ ~("claim_by_id" \notin Faults /\ j \in Barred)
<1>1. HasLease(j) /\ t \in 1..newest[j] /\ newest[j] \in Nat /\ t \in Nat
  BY ConstantsOK DEF IInv, TypeOK, MayRequest, Fenced, HasLease
<1>2. newest[j] > 0
  BY <1>1
<1>3. JobInv(j)
  BY DEF IInv
<1> QED BY <1>1, <1>2, <1>3 DEF JobInv, Untried

\* An event of a fenced request: it keeps the invariant if it ends in 'leased'
\* only with the lease kept, and in review only with the lease dropped.
LEMMA RequestInv ==
  ASSUME IInv, NEW j \in Jobs, NEW t \in 1..MaxLeases, MayRequest(j, t), Fenced(j, t),
         NEW e \in ProjectingEvents, NEW kind, Project(j, e, kind),
         DropLease(j) \/ UNCHANGED leases,
         e \in {"leased", "resumed"} => UNCHANGED leases,
         e = "submitted" => DropLease(j),
         UNCHANGED <<decided, requeues>>, Budget(j)',
         \A k \in Jobs \ {j} : failures'[k] = failures[k] /\ calls'[k] = calls[k]
  PROVE  \A k \in Jobs : JobInv(k)'
<1>1. HasLease(j) /\ newest[j] > 0 /\ ~("claim_by_id" \notin Faults /\ j \in Barred)
  BY FencedHolds
<1>2. /\ state'[j] = StateAfter(e)
      /\ \A k \in Jobs \ {j} :
           state'[k] = state[k] /\ lane'[k] = lane[k] /\ (k \in orphaned' <=> k \in orphaned)
  BY AppendAt DEF IInv
<1>3. /\ newest' = newest /\ \A k \in Jobs \ {j} : lease'[k] = lease[k]
      /\ DropLease(j) => lease'[j] = NoLease
  BY DEF IInv, TypeOK, DropLease, leases
<1>4. \A k \in Jobs \ {j} : Untouched(k)
  BY <1>2, <1>3 DEF Untouched
<1>5. state'[j] = "in_review" => ~HasLease(j)'
  <2>1. NoLease.token = 0
    BY DEF NoLease
  <2>2. StateAfter(e) = "in_review" => e = "submitted"
    BY EventTargets
  <2> QED BY <1>2, <1>3, <2>1, <2>2 DEF HasLease
<1>6. Held(j)'
  BY <1>1, <1>2, EventTargets DEF Held, HasLease, leases
<1>7. RanOnce(j)'
  BY <1>1, <1>3 DEF RanOnce
<1>8. JobInv(j)'
  BY <1>1, <1>5, <1>6, <1>7 DEF JobInv
<1> QED BY <1>4, <1>8, OneJobStep

LEMMA AgentInv ==
  ASSUME IInv, NEW j \in Jobs, AgentStep(j)
  PROVE  \A k \in Jobs : JobInv(k)'
<1> USE DEF MayTransition
<1>0. JobInv(j) /\ Budget(j) /\ TypeOK
  BY DEF IInv, JobInv
<1>1. CASE ClaimNext(j)
  <2>1. /\ state'[j] = "leased"
        /\ \A k \in Jobs \ {j} :
             state'[k] = state[k] /\ lane'[k] = lane[k] /\ (k \in orphaned' <=> k \in orphaned)
    BY <1>0, <1>1, AppendAt DEF ClaimNext, Append, StateAfter
  <2>2. /\ newest'[j] > 0 /\ HasLease(j)'
        /\ \A k \in Jobs \ {j} : lease'[k] = lease[k] /\ newest'[k] = newest[k]
    BY <1>0, <1>1 DEF ClaimNext, Grant, TypeOK, HasLease
  <2>3. \A k \in Jobs \ {j} : Untouched(k)
    BY <1>1, <2>1, <2>2 DEF ClaimNext, Untouched, policy
  <2>4. Budget(j)'
    BY <1>0, <1>1, BudgetKept DEF ClaimNext, policy
  <2>5. JobInv(j)'
    BY <1>1, <2>1, <2>2, <2>4 DEF ClaimNext, Eligible, JobInv, Held, RanOnce
  <2> QED BY <2>3, <2>5, OneJobStep
<1>2. CASE HolderDies(j)
  <2>1. /\ HasLease(j)' <=> HasLease(j)
        /\ HasLease(j)
        /\ \A k \in Jobs \ {j} : lease'[k] = lease[k]
    BY <1>0, <1>2 DEF HolderDies, TypeOK, HasLease, Leases
  <2>2. \A k \in Jobs \ {j} : Untouched(k)
    BY <1>2, <2>1 DEF HolderDies, Untouched, projection, policy
  <2>3. Budget(j)'
    BY <1>0, <1>2, BudgetKept DEF HolderDies, policy
  <2>4. JobInv(j)'
    BY <1>0, <1>2, <2>1, <2>3 DEF HolderDies, JobInv, Held, RanOnce, Untried, HasLease, NoLease, projection
  <2> QED BY <2>2, <2>4, OneJobStep
<1>3. ASSUME NEW t \in 1..MaxLeases, Heartbeat(j, t)
      PROVE  \A k \in Jobs : JobInv(k)'
  <2>1. /\ HasLease(j)' <=> HasLease(j)
        /\ \A k \in Jobs \ {j} : lease'[k] = lease[k]
    BY <1>0, <1>3 DEF Heartbeat, TypeOK, HasLease, Leases
  <2>2. \A k \in Jobs \ {j} : Untouched(k)
    BY <1>3, <2>1 DEF Heartbeat, Untouched, projection, policy
  <2>3. ~("claim_by_id" \notin Faults /\ j \in Barred)
    BY <1>3, FencedHolds DEF Heartbeat
  <2>4. Budget(j)'
    BY <1>0, <1>3, BudgetKept DEF Heartbeat, policy
  <2>5. JobInv(j)'
    BY <1>0, <1>3, <2>1, <2>3, <2>4 DEF Heartbeat, JobInv, Held, RanOnce, projection
  <2> QED BY <2>2, <2>5, OneJobStep
<1>4. ASSUME NEW t \in 1..MaxLeases, Release(j, t)
      PROVE  \A k \in Jobs : JobInv(k)'
  <2>1. "released" \in ProjectingEvents BY DEF ProjectingEvents
  <2>2. Budget(j)'
    BY <1>0, <1>4, BudgetKept DEF Release, policy
  <2> QED BY <1>4, <2>1, <2>2, RequestInv DEF Release, Append, policy
<1>5. ASSUME NEW t \in 1..MaxLeases, Submit(j, t)
      PROVE  \A k \in Jobs : JobInv(k)'
  <2>1. "submitted" \in ProjectingEvents BY DEF ProjectingEvents
  <2>2. Budget(j)'
    BY <1>0, <1>5, BudgetKept DEF Submit, policy
  <2> QED BY <1>5, <2>1, <2>2, RequestInv DEF Submit, Append, policy
<1>6. ASSUME NEW t \in 1..MaxLeases, NEW c \in Classes, ReportFailure(j, t, c)
      PROVE  \A k \in Jobs : JobInv(k)'
  <2>1. "failed" \in ProjectingEvents BY DEF ProjectingEvents
  <2>2. /\ \A k \in Jobs \ {j} : failures'[k] = failures[k] /\ calls'[k] = calls[k]
        /\ \A x \in Classes :
             \/ failures'[j][x] = failures[j][x] /\ calls'[j][x] = calls[j][x]
             \/ failures'[j][x] = failures[j][x] + 1 /\ calls'[j][x] = calls[j][x] + 1
    BY <1>0, <1>6 DEF ReportFailure, Tally, TypeOK
  <2>3. Budget(j)'
    <3>1. \A x \in Classes : /\ failures[j][x] \in Nat /\ calls[j][x] \in Nat
                             /\ requeues[j][x] \in Nat
      BY <1>0 DEF TypeOK
    <3> QED BY <1>0, <1>6, <2>2, <3>1 DEF ReportFailure, Budget
  <2> QED BY <1>6, <2>1, <2>2, <2>3, RequestInv DEF ReportFailure, Append
<1>7. ASSUME NEW t \in 1..MaxLeases, NEW kind \in {"question", "attention"}, AskHuman(j, t, kind)
      PROVE  \A k \in Jobs : JobInv(k)'
  <2>1. "needs_info" \in ProjectingEvents BY DEF ProjectingEvents
  <2>2. Budget(j)'
    BY <1>0, <1>7, BudgetKept DEF AskHuman, policy
  <2> QED BY <1>7, <2>1, <2>2, RequestInv DEF AskHuman, policy
<1>8. ASSUME NEW t \in 1..MaxLeases, NEW e \in OtherEvents, Transition(j, t, e)
      PROVE  \A k \in Jobs : JobInv(k)'
  <2>1. e \in ProjectingEvents /\ e # "submitted" BY DEF OtherEvents
  <2>2. Budget(j)'
    BY <1>0, <1>8, BudgetKept DEF Transition, policy
  <2>3. e \in {"leased", "resumed"} => e \notin LeaseEnding
    BY DEF LeaseEnding
  <2>4. /\ DropLease(j) \/ UNCHANGED leases
        /\ e \in {"leased", "resumed"} => UNCHANGED leases
    BY <1>8, <2>3 DEF Transition
  <2> QED BY <1>8, <2>1, <2>2, <2>4, RequestInv DEF Transition, Append, policy
<1> QED BY <1>1, <1>2, <1>3, <1>4, <1>5, <1>6, <1>7, <1>8 DEF AgentStep

-----------------------------------------------------------------------------
\* Requests without a token.

\* An event that leads neither to 'leased' nor into review.
LEMMA PlainEvent ==
  ASSUME IInv, NEW j \in Jobs, NEW e \in ProjectingEvents \ {"leased", "resumed", "submitted"},
         Append(j, e), DropLease(j) \/ UNCHANGED leases, UNCHANGED <<policy, decided>>,
         e = "accepted" => newest[j] > 0,
         Untried(j) => e \in {"enqueued", "requeued", "cancelled"}
  PROVE  \A k \in Jobs : JobInv(k)'
<1>0. JobInv(j) /\ Budget(j) /\ TypeOK
  BY DEF IInv, JobInv
<1>1. /\ state'[j] = StateAfter(e) /\ lane'[j] = LaneAfter(e, "question")
      /\ \A k \in Jobs \ {j} :
           state'[k] = state[k] /\ lane'[k] = lane[k] /\ (k \in orphaned' <=> k \in orphaned)
  BY <1>0, AppendAt DEF Append
<1>2. /\ newest' = newest /\ \A k \in Jobs \ {j} : lease'[k] = lease[k]
      /\ lease'[j] \in {lease[j], NoLease}
  BY <1>0 DEF TypeOK, DropLease, leases
<1>3. \A k \in Jobs \ {j} : Untouched(k)
  BY <1>1, <1>2 DEF Untouched, policy
<1>4. /\ state'[j] \notin {"leased", "in_review"}
      /\ state'[j] = "completed" => e = "accepted"
  BY <1>1, EventTargets
<1>5. Held(j)'
  BY <1>4 DEF Held
<1>6. RanOnce(j)'
  BY <1>0, <1>2, <1>4 DEF RanOnce, JobInv
<1>7. Budget(j)'
  BY <1>0, BudgetKept DEF policy
<1>8. ASSUME Untried(j) PROVE Untried(j)'
  <2>1. state'[j] \in {"pending", "cancelled"} /\ lane'[j] \in {"work_queue", "terminal"}
    BY <1>1, <1>8 DEF StateAfter, LaneAfter
  <2> QED BY <1>2, <1>8, <2>1 DEF Untried, policy
<1>9. JobInv(j)'
  BY <1>0, <1>4, <1>5, <1>6, <1>7, <1>8 DEF JobInv
<1> QED BY <1>3, <1>9, OneJobStep

LEMMA OutcomeMeansReview ==
  ASSUME NEW s \in JobStates, NEW outcome \in {"accepted", "rejected"},
         outcome \in TransitionAllowed(s)
  PROVE  s = "in_review"
BY DEF TransitionAllowed, JobStates

LEMMA ManagerInv ==
  ASSUME IInv, NEW j \in Jobs, ManagerStep(j)
  PROVE  \A k \in Jobs : JobInv(k)'
<1>0. JobInv(j) /\ Budget(j) /\ TypeOK
  BY DEF IInv, JobInv
<1>1. {"enqueued", "accepted", "rejected", "requeued", "cancelled", "dead_lettered"}
        \subseteq ProjectingEvents \ {"leased", "resumed", "submitted"}
  BY DEF ProjectingEvents
<1>2. CASE Enqueue(j)
  BY <1>1, <1>2, PlainEvent DEF Enqueue
<1>3. CASE ClaimById(j)
  <2>1. /\ state'[j] = "leased"
        /\ \A k \in Jobs \ {j} :
             state'[k] = state[k] /\ lane'[k] = lane[k] /\ (k \in orphaned' <=> k \in orphaned)
    BY <1>0, <1>3, AppendAt DEF ClaimById, Append, StateAfter
  <2>2. /\ newest'[j] > 0 /\ HasLease(j)'
        /\ \A k \in Jobs \ {j} : lease'[k] = lease[k] /\ newest'[k] = newest[k]
    BY <1>0, <1>3 DEF ClaimById, Grant, TypeOK, HasLease
  <2>3. \A k \in Jobs \ {j} : Untouched(k)
    BY <1>3, <2>1, <2>2 DEF ClaimById, Untouched, policy
  <2>4. Budget(j)'
    BY <1>0, <1>3, BudgetKept DEF ClaimById, policy
  <2>5. JobInv(j)'
    BY <1>3, <2>1, <2>2, <2>4 DEF ClaimById, JobInv, Held, RanOnce
  <2> QED BY <2>3, <2>5, OneJobStep
<1>4. ASSUME NEW outcome \in {"accepted", "rejected"}, ReviewOutcome(j, outcome)
      PROVE  \A k \in Jobs : JobInv(k)'
  <2>1. state[j] = "in_review"
    BY <1>0, <1>4, OutcomeMeansReview DEF ReviewOutcome, TypeOK
  <2>2. newest[j] > 0 /\ ~Untried(j)
    BY <1>0, <2>1 DEF JobInv, RanOnce, Untried
  <2> QED BY <1>1, <1>4, <2>2, PlainEvent DEF ReviewOutcome, policy
<1>5. CASE OperatorResume(j)
  <2>1. DropLease(j) \/ UNCHANGED leases
    BY <1>5 DEF OperatorResume
  <2> QED BY <1>1, <1>5, <2>1, PlainEvent DEF OperatorResume, policy
<1>6. CASE OperatorCancel(j)
  BY <1>1, <1>6, PlainEvent DEF OperatorCancel, policy
<1>7. CASE OperatorDeadLetter(j)
  <2>1. ~Untried(j)
    BY <1>7 DEF OperatorDeadLetter, Untried
  <2> QED BY <1>1, <1>7, <2>1, PlainEvent DEF OperatorDeadLetter, policy
<1>8. CASE PrFeedback(j)
  <2>1. ~Untried(j)
    BY <1>8 DEF PrFeedback, Untried
  <2> QED BY <1>1, <1>8, <2>1, PlainEvent DEF PrFeedback, policy
<1>9. CASE LinkPr(j)
  <2>1. \A k \in Jobs : Untouched(k)
    BY <1>9 DEF LinkPr, Untouched, projection, leases, policy
  <2> QED BY <2>1, UntouchedKeeps DEF IInv
<1> QED BY <1>2, <1>3, <1>4, <1>5, <1>6, <1>7, <1>8, <1>9 DEF ManagerStep

-----------------------------------------------------------------------------
\* Time and the console.

LEMMA ExpireInv ==
  ASSUME IInv, NEW j \in Jobs, Expire(j)
  PROVE  \A k \in Jobs : JobInv(k)'
<1>0. JobInv(j) /\ Budget(j) /\ TypeOK
  BY DEF IInv, JobInv
<1>1. /\ HasLease(j) /\ HasLease(j)'
      /\ \A k \in Jobs \ {j} : lease'[k] = lease[k]
  BY <1>0 DEF Expire, TypeOK, HasLease, Leases
<1>2. \A k \in Jobs \ {j} : Untouched(k)
  BY <1>1 DEF Expire, Untouched, projection, policy
<1>3. ~Untried(j)
  <2>1. NoLease.token = 0
    BY DEF NoLease
  <2> QED BY <1>1, <2>1 DEF Untried, HasLease
<1>4. Budget(j)'
  BY <1>0, BudgetKept DEF Expire, policy
<1>5. JobInv(j)'
  BY <1>0, <1>1, <1>3, <1>4 DEF Expire, JobInv, Held, RanOnce, projection
<1> QED BY <1>2, <1>5, OneJobStep

\* A tick that only fetches may fetch no job that was never leased.
LEMMA FetchInv ==
  ASSUME IInv, NEW S, NEW d \in Decisions, Fetch(S, d),
         \A k \in S \cap Jobs : ~Untried(k) /\ (d = Accepted => newest[k] > 0)
  PROVE  \A k \in Jobs : JobInv(k)'
<1> SUFFICES ASSUME NEW k \in Jobs PROVE JobInv(k)'
  OBVIOUS
<1>0. JobInv(k) /\ Budget(k) /\ TypeOK
  BY DEF IInv, JobInv
<1>1. /\ Released \in Decisions /\ Accepted \in Decisions
      /\ decided[k] \in [Decisions -> Nat]
  BY <1>0, WatcherDecisionsAreDecisions DEF TypeOK
<1>2. CASE k \in S
  <2>1. decided'[k] = [decided[k] EXCEPT ![d] = @ + 1]
    BY <1>2 DEF Fetch, Decide
  <2>2. Held(k)'
    BY <1>0, <1>1, <2>1 DEF Fetch, Held, JobInv, HasLease, projection, leases
  <2>3. RanOnce(k)'
    BY <1>0, <1>1, <1>2, <2>1 DEF Fetch, RanOnce, JobInv, projection, leases
  <2>4. Budget(k)'
    BY <1>0, BudgetKept DEF Fetch, policy
  <2> QED BY <1>0, <1>2, <2>2, <2>3, <2>4 DEF Fetch, JobInv, HasLease, projection, leases
<1>3. CASE k \notin S
  BY <1>0, <1>3, UntouchedKeeps DEF Fetch, Decide, Untouched, projection, leases, policy
<1> QED BY <1>2, <1>3

LEMMA SweepInv ==
  ASSUME IInv, SweepExpired
  PROVE  \A k \in Jobs : JobInv(k)'
<1> SUFFICES ASSUME NEW k \in Jobs PROVE JobInv(k)'
  OBVIOUS
<1>0. JobInv(k) /\ Budget(k) /\ TypeOK
  BY DEF IInv, JobInv
<1>1. /\ Released \in Decisions /\ Accepted \in Decisions /\ Released # Accepted
      /\ decided[k] \in [Decisions -> Nat]
  BY <1>0, WatcherDecisionsAreDecisions DEF TypeOK, Released, Accepted, Decision
<1>2. CASE lease[k].expired
  <2>1. lease'[k] = NoLease /\ decided'[k] = [decided[k] EXCEPT ![Released] = @ + 1]
    BY <1>2 DEF SweepExpired, Expired, Decide
  <2>2. NoLease.token = 0 /\ NoLease.expired = FALSE
    BY DEF NoLease
  <2>3. ~Untried(k)
    BY <1>2, <2>2 DEF Untried
  <2>4. Held(k)'
    BY <1>1, <2>1 DEF Held
  <2>5. RanOnce(k)'
    BY <1>0, <1>1, <2>1 DEF SweepExpired, RanOnce, JobInv, projection
  <2>6. Budget(k)'
    BY <1>0, BudgetKept DEF SweepExpired, policy
  <2>7. ~HasLease(k)'
    BY <2>1, <2>2 DEF HasLease
  <2> QED BY <1>0, <2>3, <2>4, <2>5, <2>6, <2>7 DEF SweepExpired, JobInv
<1>3. CASE ~lease[k].expired
  <2>1. lease'[k] = lease[k] /\ decided'[k] = decided[k]
    BY <1>3 DEF SweepExpired, Expired, Decide
  <2> QED BY <1>0, <2>1, UntouchedKeeps DEF SweepExpired, Untouched, projection, policy
<1> QED BY <1>2, <1>3

LEMMA DecisionKinds ==
  ASSUME NEW d \in Decisions
  PROVE  /\ d.event \in ProjectingEvents \ {"leased", "resumed", "submitted"}
         /\ d.event = "accepted" => d = Accepted
BY DEF Decisions, WatcherDecisions, PolicyDecisions, Released, Accepted, Unanswered,
       Unlinked, DepsMet, Decision, ProjectingEvents

LEMMA RecordInv ==
  ASSUME IInv, NEW j \in Jobs, NEW d \in Decisions, RecordDecision(j, d)
  PROVE  \A k \in Jobs : JobInv(k)'
<1>0. JobInv(j) /\ Budget(j) /\ TypeOK
  BY DEF IInv, JobInv
<1>1. /\ state'[j] = StateAfter(d.event)
      /\ \A k \in Jobs \ {j} :
           state'[k] = state[k] /\ lane'[k] = lane[k] /\ (k \in orphaned' <=> k \in orphaned)
  BY <1>0, AppendAt DEF RecordDecision, Append
<1>2. /\ decided'[j] = [decided[j] EXCEPT ![d] = @ - 1]
      /\ \A k \in Jobs \ {j} : decided'[k] = decided[k]
      /\ decided[j] \in [Decisions -> Nat] /\ Accepted \in Decisions
  BY <1>0, WatcherDecisionsAreDecisions DEF RecordDecision, Undecide, TypeOK
<1>3. \/ d.cls \in Classes /\ failures' = Tally(failures, j, d.cls)
      \/ UNCHANGED failures
  BY Zenon DEF RecordDecision
<1>4. \A k \in Jobs \ {j} : failures'[k] = failures[k]
  BY <1>0, <1>3 DEF Tally, TypeOK
<1>5. \A k \in Jobs \ {j} : Untouched(k)
  BY <1>1, <1>2, <1>4 DEF RecordDecision, Untouched, leases
<1>6. /\ state'[j] \notin {"leased", "in_review"}
      /\ state'[j] = "completed" => d = Accepted
  <2>1. /\ d.event \in ProjectingEvents \ {"leased", "resumed", "submitted"}
        /\ d.event = "accepted" => d = Accepted
    BY DecisionKinds
  <2>2. /\ StateAfter(d.event) \notin {"leased", "in_review"}
        /\ StateAfter(d.event) = "completed" => d.event = "accepted"
    BY <2>1, EventTargets
  <2> QED BY <1>1, <2>1, <2>2
<1>7. Held(j)'
  BY <1>6 DEF Held
<1>8. RanOnce(j)'
  <2>1. d = Accepted => newest[j] > 0
    BY <1>0 DEF RecordDecision, JobInv, RanOnce
  <2>2. decided'[j][Accepted] > 0 => newest[j] > 0
    BY <1>0, <1>2 DEF JobInv, RanOnce
  <2> QED BY <1>6, <2>1, <2>2 DEF RecordDecision, RanOnce, leases
<1>9. Budget(j)'
  <2>1. \A c \in Classes : failures'[j][c] \in {failures[j][c], failures[j][c] + 1}
    BY <1>0, <1>3 DEF Tally, TypeOK
  <2>2. \A c \in Classes :
          failures[j][c] \in Nat /\ calls[j][c] \in Nat /\ requeues[j][c] \in Nat
    BY <1>0 DEF TypeOK
  <2> QED BY <1>0, <2>1, <2>2 DEF RecordDecision, Budget
<1>10. ~Untried(j)
  BY DEF RecordDecision, Untried
<1>11. JobInv(j)'
  BY <1>0, <1>6, <1>7, <1>8, <1>9, <1>10 DEF RecordDecision, JobInv
<1> QED BY <1>5, <1>11, OneJobStep

\* A decision is dropped without its event: the sweeper's only with the job
\* marked as orphaned.
LEMMA DropInv ==
  ASSUME IInv, NEW j \in Jobs, NEW d \in Decisions, decided[j][d] > 0, Undecide(j, d),
         UNCHANGED <<state, lane, leases, policy>>,
         orphaned' = IF d = Released THEN orphaned \cup {j} ELSE orphaned
  PROVE  \A k \in Jobs : JobInv(k)'
<1>0. JobInv(j) /\ Budget(j) /\ TypeOK
  BY DEF IInv, JobInv
<1>1. /\ decided'[j] = [decided[j] EXCEPT ![d] = @ - 1]
      /\ \A k \in Jobs \ {j} : decided'[k] = decided[k]
      /\ decided[j] \in [Decisions -> Nat] /\ Accepted \in Decisions /\ Released \in Decisions
  BY <1>0, WatcherDecisionsAreDecisions DEF Undecide, TypeOK
<1>2. \A k \in Jobs \ {j} : Untouched(k)
  BY <1>1 DEF Untouched, leases, policy
<1>3. Held(j)'
  BY <1>0, <1>1 DEF Held, JobInv, HasLease, leases
<1>4. RanOnce(j)'
  BY <1>0, <1>1 DEF RanOnce, JobInv, leases
<1>5. Budget(j)'
  BY <1>0, BudgetKept DEF policy
<1>6. ~Untried(j)
  BY DEF Untried
<1>7. JobInv(j)'
  BY <1>0, <1>3, <1>4, <1>5, <1>6 DEF JobInv, HasLease, leases
<1> QED BY <1>2, <1>7, OneJobStep

\* The rest of a tick is left undone.
LEMMA AbortInv ==
  ASSUME IInv, NEW d \in Decisions, d # Released, AbortTick(d),
         UNCHANGED <<state, lane, leases, policy, orphaned>>
  PROVE  \A k \in Jobs : JobInv(k)'
<1> SUFFICES ASSUME NEW k \in Jobs PROVE JobInv(k)'
  OBVIOUS
<1>0. JobInv(k) /\ Budget(k) /\ TypeOK
  BY DEF IInv, JobInv
<1>1. /\ decided'[k] = [decided[k] EXCEPT ![d] = 0]
      /\ decided[k] \in [Decisions -> Nat] /\ Accepted \in Decisions /\ Released \in Decisions
  BY <1>0, WatcherDecisionsAreDecisions DEF AbortTick, TypeOK
<1>2. Held(k)'
  BY <1>0, <1>1 DEF Held, JobInv, HasLease, leases
<1>3. RanOnce(k)'
  BY <1>0, <1>1 DEF RanOnce, JobInv, leases
<1>4. Budget(k)'
  BY <1>0, BudgetKept DEF policy
<1>5. Untried(k) => Untried(k)'
  BY <1>1 DEF Untried, leases, policy
<1> QED BY <1>0, <1>2, <1>3, <1>4, <1>5 DEF JobInv, HasLease, leases

LEMMA HandleInv ==
  ASSUME IInv, NEW j \in Jobs, NEW d \in Decisions, Handle(j, d)
  PROVE  \A k \in Jobs : JobInv(k)'
<1>1. CASE RecordDecision(j, d)
  BY <1>1, RecordInv
<1>2. CASE PassOver(j, d)
  <2>1. d # Released
    BY <1>2 DEF PassOver, Refused, Released, Accepted, DepsMet, Decision
  <2> QED BY <1>2, <2>1, DropInv DEF PassOver, projection
<1>3. CASE WriteFails(j, d)
  <2>1. CASE d \in {Unanswered, DepsMet}
    <3>1. d # Released
      BY <2>1 DEF Unanswered, Released, DepsMet, Decision
    <3> QED BY <1>3, <2>1, <3>1, AbortInv DEF WriteFails
  <2>2. CASE d \notin {Unanswered, DepsMet}
    BY <1>3, <2>2, DropInv DEF WriteFails
  <2> QED BY <2>1, <2>2
<1> QED BY <1>1, <1>2, <1>3 DEF Handle

\* The retry that apply() grants: the failures it has counted include one for
\* every earlier retry and one for the call at hand.
LEMMA PolicyInv ==
  ASSUME IInv, NEW j \in Jobs, NEW c \in Classes, PolicyDecide(j, c)
  PROVE  \A k \in Jobs : JobInv(k)'
<1>0. JobInv(j) /\ Budget(j) /\ TypeOK
  BY DEF IInv, JobInv
<1>1. PICK attempts \in Attempts(j, c) :
        LET e == PolicyEvent(c, attempts) IN
          /\ Decide(IF e = "none" THEN {} ELSE {j}, Decision("failure_policy", e, c))
          /\ requeues' = IF e = "requeued" THEN Tally(requeues, j, c) ELSE requeues
  BY DEF PolicyDecide
<1> DEFINE e == PolicyEvent(c, attempts)
<1> DEFINE d == Decision("failure_policy", e, c)
<1>2. /\ calls'[j] = [calls[j] EXCEPT ![c] = @ - 1]
      /\ \A k \in Jobs \ {j} : calls'[k] = calls[k] /\ requeues'[k] = requeues[k]
  BY <1>0, <1>1 DEF PolicyDecide, Tally, TypeOK
<1>3. \A k \in Jobs \ {j} : decided'[k] = decided[k]
  <2>1. CASE e = "none"
    BY <1>1, <2>1 DEF Decide
  <2>2. CASE e # "none"
    BY <1>1, <2>2 DEF Decide
  <2> QED BY <2>1, <2>2
<1>4. \A k \in Jobs \ {j} : Untouched(k)
  BY <1>2, <1>3 DEF PolicyDecide, Untouched, projection, leases
<1>5. /\ decided[j][Released] > 0 => decided'[j][Released] > 0
      /\ decided'[j][Accepted] = decided[j][Accepted]
  <2>1. /\ Released \in Decisions /\ Accepted \in Decisions /\ decided[j] \in [Decisions -> Nat]
    BY <1>0, WatcherDecisionsAreDecisions DEF TypeOK
  <2>2. d # Accepted /\ d # Released
    BY DEF Accepted, Released, Decision
  <2>3. CASE e = "none"
    BY <1>1, <2>1, <2>3 DEF Decide
  <2>4. CASE e # "none"
    <3>1. decided'[j] = [decided[j] EXCEPT ![d] = @ + 1]
      BY <1>1, <2>4 DEF Decide
    <3> QED BY <2>1, <2>2, <3>1
  <2> QED BY <2>3, <2>4
<1>6. Budget(j)'
  <2>1. \A x \in Classes : /\ failures[j][x] \in Nat /\ calls[j][x] \in Nat
                           /\ requeues[j][x] \in Nat /\ MaxAttempts[x] \in Nat
    BY <1>0, ConstantsOK DEF TypeOK
  <2>2. /\ \A x \in Classes \ {c} : requeues'[j][x] = requeues[j][x] /\ calls'[j][x] = calls[j][x]
        /\ calls'[j][c] = calls[j][c] - 1
    BY <1>0, <1>1, <1>2 DEF Tally, TypeOK
  <2>3. CASE e = "requeued"
    <3>1. requeues'[j][c] = requeues[j][c] + 1
      BY <1>0, <1>1, <2>3 DEF Tally, TypeOK
    <3>2. attempts < MaxAttempts[c]
      <4>1. attempts \in Nat
        BY <2>1 DEF Attempts
      <4>2. ~(attempts >= MaxAttempts[c])
        BY <2>3 DEF PolicyEvent, Exhausted
      <4> QED BY <2>1, <4>1, <4>2
    <3>3. "count_fails" \notin Faults => attempts = failures[j][c]
      BY DEF Attempts
    <3> QED BY <1>0, <2>1, <2>2, <3>1, <3>2, <3>3 DEF PolicyDecide, Budget
  <2>4. CASE e # "requeued"
    BY <1>0, <1>1, <2>1, <2>2, <2>4 DEF PolicyDecide, Budget
  <2> QED BY <2>3, <2>4
<1>7. ~Untried(j)
  BY DEF PolicyDecide, Untried
<1>8. Held(j)'
  BY <1>0, <1>5 DEF PolicyDecide, Held, JobInv, HasLease, projection, leases
<1>9. JobInv(j)'
  BY <1>0, <1>5, <1>6, <1>7, <1>8 DEF PolicyDecide, JobInv, RanOnce, HasLease, projection, leases
<1> QED BY <1>4, <1>9, OneJobStep

LEMMA RestartInv ==
  ASSUME IInv, ConsoleRestart
  PROVE  \A k \in Jobs : JobInv(k)'
<1> SUFFICES ASSUME NEW k \in Jobs PROVE JobInv(k)'
  OBVIOUS
<1>0. JobInv(k) /\ Budget(k) /\ TypeOK
  BY DEF IInv, JobInv
<1>1. /\ \A d \in Decisions : decided'[k][d] = 0
      /\ \A c \in Classes : calls'[k][c] = 0
      /\ Released \in Decisions /\ Accepted \in Decisions
  BY WatcherDecisionsAreDecisions DEF ConsoleRestart
<1>2. Held(k)'
  BY <1>0 DEF ConsoleRestart, JobInv, Held, HasLease, leases
<1>3. RanOnce(k)'
  BY <1>0, <1>1 DEF ConsoleRestart, JobInv, RanOnce, leases
<1>4. Budget(k)'
  <2>1. \A c \in Classes :
          calls[k][c] \in Nat /\ requeues[k][c] \in Nat /\ failures[k][c] \in Nat
    BY <1>0 DEF TypeOK
  <2> QED BY <1>0, <1>1, <2>1 DEF ConsoleRestart, Budget
<1>5. Untried(k) => Untried(k)'
  BY <1>1 DEF ConsoleRestart, Untried, leases
<1> QED BY <1>0, <1>2, <1>3, <1>4, <1>5 DEF ConsoleRestart, JobInv, HasLease, leases

LEMMA ConsoleInv ==
  ASSUME IInv, ConsoleStep
  PROVE  \A k \in Jobs : JobInv(k)'
<1>0. /\ TypeOK /\ \A k \in Jobs : JobInv(k)
      /\ Accepted \in Decisions /\ Unlinked \in Decisions
      /\ Unanswered \in Decisions /\ DepsMet \in Decisions
      /\ Unlinked # Accepted /\ Unanswered # Accepted /\ DepsMet # Accepted
  BY WatcherDecisionsAreDecisions
     DEF IInv, Accepted, Unlinked, Unanswered, DepsMet, Decision
<1>1. CASE SweepExpired
  BY <1>1, SweepInv
<1>2. CASE MergeTick
  <2>1. \A k \in InReview : ~Untried(k) /\ newest[k] > 0
    BY <1>0 DEF InReview, Untried, JobInv, RanOnce
  <2> QED BY <1>0, <1>2, <2>1, FetchInv DEF MergeTick
<1>3. ASSUME NEW S \in SUBSET Jobs, UnlinkedTick(S)
      PROVE  \A k \in Jobs : JobInv(k)'
  <2>1. \A k \in S : ~Untried(k)
    BY <1>3 DEF UnlinkedTick, InReview, Untried
  <2> QED BY <1>0, <1>3, <2>1, FetchInv DEF UnlinkedTick
<1>4. ASSUME NEW S \in SUBSET Jobs, TtlTick(S)
      PROVE  \A k \in Jobs : JobInv(k)'
  <2>1. \A k \in S : ~Untried(k)
    BY <1>4 DEF TtlTick, Untried
  <2> QED BY <1>0, <1>4, <2>1, FetchInv DEF TtlTick
<1>5. CASE DependencyTick
  <2>1. \A k \in {j \in Jobs : lane[j] = "quarantined"} : ~Untried(k)
    BY DEF Untried
  <2> QED BY <1>0, <1>5, <2>1, FetchInv DEF DependencyTick
<1>6. CASE ConsoleRestart
  BY <1>6, RestartInv
<1> QED BY <1>1, <1>2, <1>3, <1>4, <1>5, <1>6, HandleInv, PolicyInv DEF ConsoleStep

LEMMA StepInv == IInv /\ [Next]_vars => IInv'
<1> SUFFICES ASSUME IInv, [Next]_vars PROVE IInv'
  OBVIOUS
<1>1. TypeOK'
  BY TypeStep DEF IInv
<1>2. \A k \in Jobs : JobInv(k)'
  <2>1. CASE UNCHANGED vars
    <3>1. \A k \in Jobs : Untouched(k)
      BY <2>1 DEF vars, Untouched
    <3> QED BY <3>1, UntouchedKeeps DEF IInv
  <2>2. CASE Next
    BY <2>2, AgentInv, ManagerInv, ExpireInv, ConsoleInv DEF Next
  <2> QED BY <2>1, <2>2
<1> QED BY <1>1, <1>2 DEF IInv

LEMMA Invariant == Spec => []IInv
BY InitInv, StepInv, PTL DEF Spec

-----------------------------------------------------------------------------
\* What the invariant says of the queue.

\* No job in review has a lease: nothing an agent sends can reach a job whose
\* pull request is being judged, whatever managers and watchers do meanwhile.
THEOREM ReviewUnheldHolds == Spec => []ReviewUnheld
<1>1. IInv => ReviewUnheld
  BY DEF IInv, JobInv, ReviewUnheld
<1> QED BY Invariant, <1>1, PTL

\* A job 'leased' with nobody holding it is between the sweeper's two writes, or
\* the second of them was lost.
THEOREM HeldOrBeingFreedHolds == Spec => []HeldOrBeingFreed
<1>1. IInv => HeldOrBeingFreed
  BY DEF IInv, JobInv, Held, HeldOrBeingFreed
<1> QED BY Invariant, <1>1, PTL

\* For every policy table, apply() grants less than max_attempts retries of a
\* class per job, as long as its count query never raises.
THEOREM RetryBudgetHolds == Spec => []RetryBudget
<1>1. IInv => RetryBudget
  BY DEF IInv, JobInv, Budget, RetryBudget
<1> QED BY Invariant, <1>1, PTL

\* The classes of POLICY_TABLE that are ever retried: with one attempt, or none, or
\* the row of "unknown", the first failure ends the retries.
RetriedClasses == TwoAttempts \cup ThreeAttempts \cup {"rate_limited"}

LEMMA TableRows ==
  ASSUME NEW c
  PROVE  /\ LookupPolicy(c).next_lane \in PolicyLanes
         /\ LookupPolicy(c).max_attempts \in 0..5
         /\ c \notin RetriedClasses => LookupPolicy(c).max_attempts \in 0..1
<1> DEFINE d == IF c \in FailureClasses THEN c ELSE "unknown"
<1>1. d \in FailureClasses /\ "unknown" \notin RetriedClasses
  BY DEF FailureClasses, HumanClasses, RetriedClasses, TwoAttempts, ThreeAttempts
<1>2. c \notin RetriedClasses => d \notin RetriedClasses
  BY <1>1
<1>3. LookupPolicy(c) = PolicyTable[d]
  BY DEF LookupPolicy
<1> HIDE DEF d
<1>4. /\ PolicyTable[d].next_lane \in PolicyLanes
      /\ PolicyTable[d].max_attempts \in 0..5
      /\ d \notin RetriedClasses => PolicyTable[d].max_attempts \in 0..1
  BY <1>1 DEF PolicyTable, PolicyRow, PolicyLanes, RetriedClasses
<1> QED BY <1>2, <1>3, <1>4

\* The service's own table, for any classes a 'failed' event may carry: no class is
\* retried more than four times on a job, and one that POLICY_TABLE sends to
\* people, to quarantine or to the dead letters is never retried, nor is
\* 'quota_exceeded', whose only attempt is the failure that apply() counts.
THEOREM TableRetries ==
  ASSUME MaxAttempts = [c \in Classes |-> LookupPolicy(c).max_attempts],
         "count_fails" \notin Faults
  PROVE  Spec => [](\A j \in Jobs : \A c \in Classes :
                      requeues[j][c] <= (IF c \in RetriedClasses THEN 4 ELSE 0))
<1>1. TypeOK /\ RetryBudget => \A j \in Jobs : \A c \in Classes :
                      requeues[j][c] <= (IF c \in RetriedClasses THEN 4 ELSE 0)
  <2> SUFFICES ASSUME TypeOK, RetryBudget, NEW j \in Jobs, NEW c \in Classes
               PROVE  requeues[j][c] <= (IF c \in RetriedClasses THEN 4 ELSE 0)
    OBVIOUS
  <2>1. requeues[j][c] \in Nat
    BY DEF TypeOK
  <2>2. requeues[j][c] = 0 \/ requeues[j][c] < LookupPolicy(c).max_attempts
    BY DEF RetryBudget
  <2> QED BY <2>1, <2>2, TableRows
<1> QED BY TypeCorrect, RetryBudgetHolds, <1>1, PTL

\* A barred job stays untried: no event but those of managers and operators that
\* keep it in the queue or cancel it ever reaches it.
THEOREM BarredNeverRunsHolds == Spec => []BarredNeverRuns
<1>1. IInv => BarredNeverRuns
  BY ConstantsOK DEF IInv, JobInv, Untried, BarredNeverRuns
<1> QED BY Invariant, <1>1, PTL

\* A lease is granted by a claim of a job whose dependencies in the queue are
\* completed, or by a manager's claim by id.
LEMMA GrantsAreClaims ==
  ASSUME IInv, Next, NEW j \in Jobs, newest'[j] > newest[j]
  PROVE  DepsAllow(j) \/ "claim_by_id" \in Faults
<1>0. TypeOK /\ newest[j] \in Nat
  BY ConstantsOK DEF IInv, TypeOK
<1>1. newest' # newest
  BY <1>0
<1>2. ASSUME NEW k \in Jobs, AgentStep(k)
      PROVE  ClaimNext(k)
  BY <1>1, <1>2 DEF AgentStep, HolderDies, Heartbeat, Release, Submit, ReportFailure,
                    AskHuman, Transition, DropLease, leases
<1>3. ASSUME NEW k \in Jobs, ManagerStep(k)
      PROVE  "claim_by_id" \in Faults
  BY <1>1, <1>3 DEF ManagerStep, Enqueue, ClaimById, ReviewOutcome, OperatorResume,
                    OperatorCancel, OperatorDeadLetter, PrFeedback, LinkPr, DropLease, leases
<1>4. ASSUME NEW k \in Jobs, Expire(k)
      PROVE  FALSE
  BY <1>1, <1>4 DEF Expire
<1>5. CASE ConsoleStep
  BY <1>1, <1>5 DEF ConsoleStep, SweepExpired, MergeTick, UnlinkedTick, TtlTick, DependencyTick,
                    ConsoleRestart, Fetch, Handle, RecordDecision, PassOver, WriteFails,
                    PolicyDecide, leases
<1>6. ASSUME NEW k \in Jobs, ClaimNext(k)
      PROVE  DepsAllow(j)
  <2>1. k = j
    BY <1>0, <1>6 DEF ClaimNext, Grant, TypeOK
  <2> QED BY <1>6, <2>1 DEF ClaimNext, Eligible
<1> QED BY <1>2, <1>3, <1>4, <1>5, <1>6 DEF Next

\* No job is leased before each of its dependencies in the queue has been leased
\* once, whatever the dependency graph (even with cycles).
THEOREM DependencyRanFirstHolds == Spec => DependencyRanFirst
<1>1. IInv /\ [Next]_vars =>
        [\A j \in Jobs : "claim_by_id" \notin Faults /\ newest'[j] > newest[j] =>
           \A d \in DependsOn[j] : state[d] = "absent" \/ newest[d] > 0]_vars
  <2> SUFFICES ASSUME IInv, Next, NEW j \in Jobs, "claim_by_id" \notin Faults,
                      newest'[j] > newest[j], NEW d \in DependsOn[j]
               PROVE  state[d] = "absent" \/ newest[d] > 0
    OBVIOUS
  <2>1. state[d] \in {"absent", "completed"} /\ d \in Jobs
    BY GrantsAreClaims, ConstantsOK DEF DepsAllow
  <2> QED BY <2>1 DEF IInv, JobInv, RanOnce
<1> QED BY Invariant, <1>1, PTL DEF Spec, DependencyRanFirst

\* Nothing is on its way to a job at rest, so a step that moves it is neither a
\* request with a token nor the record of a decision, and the managers' other
\* requests refuse its state: what is left grants a lease.
LEMMA OnlyAGrantMoves ==
  ASSUME IInv, Next, NEW j \in Jobs, AtRest(j), state'[j] # state[j]
  PROVE  Grant(j)
<1>0. TypeOK /\ state' # state /\ state[j] \in {"completed", "cancelled", "dead_letter"}
  BY DEF IInv, AtRest
<1>1. ASSUME NEW k \in Jobs, NEW e, NEW kind, Project(k, e, kind)
      PROVE  k = j
  BY <1>0, <1>1 DEF Project, TypeOK
<1>2. ASSUME NEW t \in 1..MaxLeases, MayRequest(j, t), Fenced(j, t)
      PROVE  FALSE
  BY <1>2, FencedHolds DEF AtRest
<1>3. ASSUME NEW k \in Jobs, AgentStep(k)
      PROVE  Grant(j)
  <2>1. CASE ClaimNext(k)
    BY <1>1, <2>1 DEF ClaimNext, Append
  <2>2. CASE HolderDies(k)
    BY <1>0, <2>2 DEF HolderDies, projection
  <2>3. ASSUME NEW t \in 1..MaxLeases, Heartbeat(k, t)
        PROVE  FALSE
    BY <1>0, <2>3 DEF Heartbeat, projection
  <2>4. ASSUME NEW t \in 1..MaxLeases, Release(k, t)
        PROVE  FALSE
    BY <1>1, <1>2, <2>4 DEF Release, Append
  <2>5. ASSUME NEW t \in 1..MaxLeases, Submit(k, t)
        PROVE  FALSE
    BY <1>1, <1>2, <2>5 DEF Submit, MayTransition, Append
  <2>6. ASSUME NEW t \in 1..MaxLeases, NEW c \in Classes, ReportFailure(k, t, c)
        PROVE  FALSE
    BY <1>1, <1>2, <2>6 DEF ReportFailure, MayTransition, Append
  <2>7. ASSUME NEW t \in 1..MaxLeases, NEW kind, AskHuman(k, t, kind)
        PROVE  FALSE
    BY <1>1, <1>2, <2>7 DEF AskHuman, MayTransition
  <2>8. ASSUME NEW t \in 1..MaxLeases, NEW e, Transition(k, t, e)
        PROVE  FALSE
    BY <1>1, <1>2, <2>8 DEF Transition, MayTransition, Append
  <2> QED BY <1>3, <2>1, <2>2, <2>3, <2>4, <2>5, <2>6, <2>7, <2>8 DEF AgentStep
<1>4. ASSUME NEW k \in Jobs, ManagerStep(k)
      PROVE  Grant(j)
  <2>1. CASE Enqueue(k)
    BY <1>0, <1>1, <2>1 DEF Enqueue, Append
  <2>2. CASE ClaimById(k)
    BY <1>1, <2>2 DEF ClaimById, Append
  <2>3. ASSUME NEW outcome \in {"accepted", "rejected"}, ReviewOutcome(k, outcome)
        PROVE  FALSE
    <3>1. k = j
      BY <1>1, <2>3 DEF ReviewOutcome, Append
    <3>2. state[j] = "in_review"
      BY <1>0, <2>3, <3>1, OutcomeMeansReview DEF ReviewOutcome, TypeOK
    <3> QED BY <1>0, <3>2
  <2>4. CASE OperatorResume(k) \/ OperatorCancel(k)
    BY <1>0, <1>1, <2>4 DEF OperatorResume, OperatorCancel, Append, Terminal
  <2>5. CASE OperatorDeadLetter(k) \/ PrFeedback(k)
    BY <1>0, <1>1, <2>5 DEF OperatorDeadLetter, PrFeedback, Append
  <2>6. CASE LinkPr(k)
    BY <1>0, <2>6 DEF LinkPr, projection
  <2> QED BY <1>4, <2>1, <2>2, <2>3, <2>4, <2>5, <2>6 DEF ManagerStep
<1>5. ASSUME NEW k \in Jobs, Expire(k)
      PROVE  FALSE
  BY <1>0, <1>5 DEF Expire, projection
<1>6. ASSUME NEW k \in Jobs, NEW d \in Decisions, Handle(k, d)
      PROVE  FALSE
  <2>1. CASE RecordDecision(k, d)
    BY <1>1, <2>1 DEF RecordDecision, Append, AtRest
  <2>2. CASE PassOver(k, d) \/ WriteFails(k, d)
    BY <1>0, <2>2 DEF PassOver, WriteFails, projection
  <2> QED BY <1>6, <2>1, <2>2 DEF Handle
<1>7. ASSUME ConsoleStep, ~\E k \in Jobs : \E d \in Decisions : Handle(k, d)
      PROVE  FALSE
  BY <1>0, <1>7 DEF ConsoleStep, SweepExpired, MergeTick, UnlinkedTick, TtlTick, DependencyTick,
                    ConsoleRestart, Fetch, PolicyDecide, projection
<1> QED BY <1>3, <1>4, <1>5, <1>6, <1>7 DEF Next

\* A job at rest stays as it is until a lease is granted on it.
THEOREM RestHolds == Spec => RestIsBroken
<1>1. IInv /\ [Next]_vars =>
        [\A j \in Jobs : AtRest(j) /\ state'[j] # state[j] => newest'[j] > newest[j]]_vars
  <2> SUFFICES ASSUME IInv, Next, NEW j \in Jobs, AtRest(j), state'[j] # state[j]
               PROVE  newest'[j] > newest[j]
    OBVIOUS
  <2>1. newest'[j] = newest[j] + 1 /\ newest[j] \in Nat
    BY OnlyAGrantMoves, ConstantsOK DEF Grant, IInv, TypeOK
  <2> QED BY <2>1
<1> QED BY Invariant, <1>1, PTL DEF Spec, RestIsBroken

-----------------------------------------------------------------------------
\* Each job's lease is the one JobLease promises.

\* Only the lease of a row that is there can have expired, so that what the
\* sweeper deletes is a lease.
Rows == \A j \in Jobs : lease[j].expired => HasLease(j)

LEMMA LeaseWrites ==
  ASSUME Next, lease' # lease
  PROVE  \/ SweepExpired
         \/ \E j \in Jobs : \/ Grant(j) \/ DropLease(j) \/ Expire(j) \/ HolderDies(j)
                            \/ \E t \in 1..MaxLeases : Heartbeat(j, t)
<1>1. ASSUME NEW j \in Jobs, AgentStep(j)
      PROVE  Grant(j) \/ DropLease(j) \/ HolderDies(j) \/ \E t \in 1..MaxLeases : Heartbeat(j, t)
  BY <1>1 DEF AgentStep, ClaimNext, Release, Submit, ReportFailure, AskHuman, Transition, leases
<1>2. ASSUME NEW j \in Jobs, ManagerStep(j)
      PROVE  Grant(j) \/ DropLease(j)
  BY <1>2 DEF ManagerStep, Enqueue, ClaimById, ReviewOutcome, OperatorResume,
              OperatorCancel, OperatorDeadLetter, PrFeedback, LinkPr, leases
<1>3. ConsoleStep => SweepExpired
  BY DEF ConsoleStep, MergeTick, UnlinkedTick, TtlTick, DependencyTick, ConsoleRestart, Fetch,
         Handle, RecordDecision, PassOver, WriteFails, PolicyDecide, leases
<1> QED BY <1>1, <1>2, <1>3 DEF Next

LEMMA RowsHold == Spec => []Rows
<1>1. Init => Rows
  BY DEF Init, Rows, NoLease
<1>2. TypeOK /\ Rows /\ [Next]_vars => Rows'
  <2> SUFFICES ASSUME TypeOK, Rows, Next, lease' # lease PROVE Rows'
    BY DEF Rows, HasLease, vars
  <2>1. CASE SweepExpired
    BY <2>1 DEF SweepExpired, Rows, HasLease, NoLease, Expired
  <2>2. ASSUME NEW j \in Jobs, Grant(j) PROVE Rows'
    BY <2>2 DEF Grant, TypeOK, Rows, HasLease
  <2>3. ASSUME NEW j \in Jobs, DropLease(j) PROVE Rows'
    BY <2>3 DEF DropLease, NoLease, TypeOK, Rows, HasLease
  <2>4. ASSUME NEW j \in Jobs, Expire(j) \/ HolderDies(j) PROVE Rows'
    BY <2>4 DEF Expire, HolderDies, TypeOK, Leases, Rows, HasLease
  <2>5. ASSUME NEW j \in Jobs, NEW t \in 1..MaxLeases, Heartbeat(j, t) PROVE Rows'
    BY <2>5 DEF Heartbeat, TypeOK, Leases, Rows, HasLease
  <2> QED BY <2>1, <2>2, <2>3, <2>4, <2>5, LeaseWrites
<1> QED BY <1>1, <1>2, TypeCorrect, PTL DEF Spec

\* The step leaves alone what JobLease knows of k.
Owed(k) == decided[k][Released] > 0 \/ k \in orphaned

Aside(k) ==
  /\ state'[k] = state[k] /\ newest'[k] = newest[k]
  /\ lease'[k].token = lease[k].token
  /\ Owed(k)' = Owed(k)

LEMMA AsideKept ==
  ASSUME NEW k \in Jobs, Aside(k)
  PROVE  Promised(k)
BY DEF Aside, Owed, Promised, Lease!vars

\* An event on j that leads to 'leased' only with the lease kept, and to review
\* only with the lease dropped.
LEMMA EventKept ==
  ASSUME IInv, NEW j \in Jobs, NEW e \in ProjectingEvents, NEW kind, Project(j, e, kind),
         DropLease(j) \/ UNCHANGED leases,
         e \in {"leased", "resumed"} => HasLease(j) /\ UNCHANGED leases,
         e = "submitted" => DropLease(j),
         decided'[j][Released] > 0 => decided[j][Released] > 0,
         \A k \in Jobs \ {j} : decided'[k] = decided[k]
  PROVE  \A k \in Jobs : Promised(k)
<1>0. TypeOK
  BY DEF IInv
<1>1. /\ state'[j] = StateAfter(e) /\ j \notin orphaned'
      /\ \A k \in Jobs \ {j} : state'[k] = state[k] /\ (k \in orphaned' <=> k \in orphaned)
  BY <1>0, AppendAt DEF Project
<1>2. /\ newest' = newest
      /\ lease'[j].token \in {0, lease[j].token}
      /\ DropLease(j) => lease'[j].token = 0
      /\ \A k \in Jobs \ {j} : lease'[k].token = lease[k].token
  BY <1>0 DEF DropLease, NoLease, leases, TypeOK
<1>3. Owed(j)' => Owed(j)
  BY <1>1 DEF Owed
<1>4. ASSUME e \in {"leased", "resumed"} PROVE Promised(j)
  <2>1. state'[j] = "leased" /\ lease'[j].token = lease[j].token /\ lease[j].token # 0
    BY <1>1, <1>4 DEF StateAfter, HasLease, leases
  <2>2. Lease(j)!Resume
    BY <1>2, <1>3, <2>1 DEF Lease!Resume, Lease!NoNewDebt, Owed
  <2> QED BY <2>2 DEF Promised, Lease!Next
<1>5. ASSUME e \notin {"leased", "resumed"} PROVE Promised(j)
  <2>1. state'[j] # "leased" /\ (state'[j] = "in_review" => lease'[j].token = 0)
    BY <1>1, <1>2, <1>5, EventTargets
  <2>2. Lease(j)!Move
    BY <1>2, <1>3, <2>1 DEF Lease!Move, Lease!NoNewDebt, Owed
  <2> QED BY <2>2 DEF Promised, Lease!Next
<1>6. \A k \in Jobs \ {j} : Promised(k)
  <2> SUFFICES ASSUME NEW k \in Jobs \ {j} PROVE Aside(k)
    BY AsideKept
  <2> QED BY <1>1, <1>2 DEF Aside, Owed
<1> QED BY <1>4, <1>5, <1>6 DEF Promised

LEMMA GrantKept ==
  ASSUME IInv, NEW j \in Jobs, Grant(j), Append(j, "leased"), UNCHANGED decided,
         ~HasLease(j) \/ "claim_by_id" \in Faults
  PROVE  \A k \in Jobs : Promised(k)
<1>0. TypeOK /\ newest[j] \in Nat
  BY ConstantsOK DEF IInv, TypeOK
<1>1. /\ state'[j] = "leased" /\ j \notin orphaned'
      /\ \A k \in Jobs \ {j} : state'[k] = state[k] /\ (k \in orphaned' <=> k \in orphaned)
  <2>1. StateAfter("leased") = "leased"
    BY DEF StateAfter
  <2>2. j \notin orphaned'
    BY DEF Append, Project
  <2> QED BY <1>0, <2>1, <2>2, AppendAt DEF Append
<1>2. /\ newest'[j] = newest[j] + 1 /\ lease'[j].token = newest[j] + 1
      /\ \A k \in Jobs \ {j} : newest'[k] = newest[k] /\ lease'[k] = lease[k]
  BY <1>0 DEF Grant, TypeOK
<1>3. Lease(j)!Claim
  BY <1>0, <1>1, <1>2 DEF Lease!Claim, Lease!NoNewDebt, HasLease
<1>4. \A k \in Jobs \ {j} : Promised(k)
  <2> SUFFICES ASSUME NEW k \in Jobs \ {j} PROVE Aside(k)
    BY AsideKept
  <2> QED BY <1>1, <1>2 DEF Aside, Owed
<1> QED BY <1>3, <1>4 DEF Promised, Lease!Next

LEMMA AgentKept ==
  ASSUME IInv, NEW j \in Jobs, AgentStep(j)
  PROVE  \A k \in Jobs : Promised(k)
<1>0. TypeOK
  BY DEF IInv
<1>1. CASE ClaimNext(j)
  BY <1>1, GrantKept DEF ClaimNext, Eligible
<1>2. CASE HolderDies(j) \/ \E t \in 1..MaxLeases : Heartbeat(j, t)
  <2>1. \A k \in Jobs : lease'[k].token = lease[k].token
    <3>1. CASE HolderDies(j)
      BY <1>0, <3>1 DEF HolderDies, TypeOK, Leases
    <3>2. ASSUME NEW t \in 1..MaxLeases, Heartbeat(j, t)
          PROVE  \A k \in Jobs : lease'[k].token = lease[k].token
      BY <1>0, <3>2 DEF Heartbeat, TypeOK, Leases
    <3> QED BY <1>2, <3>1, <3>2
  <2>2. \A k \in Jobs : Aside(k)
    BY <1>2, <2>1 DEF HolderDies, Heartbeat, projection, Aside, Owed
  <2> QED BY <2>2, AsideKept
<1>3. ASSUME NEW t \in 1..MaxLeases, Release(j, t)
      PROVE  \A k \in Jobs : Promised(k)
  BY <1>3, EventKept DEF Release, Append, ProjectingEvents
<1>4. ASSUME NEW t \in 1..MaxLeases, Submit(j, t)
      PROVE  \A k \in Jobs : Promised(k)
  BY <1>4, EventKept DEF Submit, Append, ProjectingEvents
<1>5. ASSUME NEW t \in 1..MaxLeases, NEW c \in Classes, ReportFailure(j, t, c)
      PROVE  \A k \in Jobs : Promised(k)
  BY <1>5, EventKept DEF ReportFailure, Append, ProjectingEvents
<1>6. ASSUME NEW t \in 1..MaxLeases, NEW kind \in {"question", "attention"}, AskHuman(j, t, kind)
      PROVE  \A k \in Jobs : Promised(k)
  BY <1>6, EventKept DEF AskHuman, ProjectingEvents
<1>7. ASSUME NEW t \in 1..MaxLeases, NEW e \in OtherEvents, Transition(j, t, e)
      PROVE  \A k \in Jobs : Promised(k)
  <2>1. HasLease(j)
    BY <1>7, FencedHolds DEF Transition, MayTransition
  <2>2. e \in ProjectingEvents /\ e # "submitted"
    BY DEF OtherEvents
  <2>3. e \in {"leased", "resumed"} => UNCHANGED leases
    BY <1>7 DEF Transition, LeaseEnding
  <2> QED BY <1>7, <2>1, <2>2, <2>3, EventKept DEF Transition, Append
<1> QED BY <1>1, <1>2, <1>3, <1>4, <1>5, <1>6, <1>7 DEF AgentStep

LEMMA ManagerKept ==
  ASSUME IInv, NEW j \in Jobs, ManagerStep(j)
  PROVE  \A k \in Jobs : Promised(k)
<1>1. {"enqueued", "accepted", "rejected", "requeued", "cancelled", "dead_lettered"}
        \subseteq ProjectingEvents \ {"leased", "resumed", "submitted"}
  BY DEF ProjectingEvents
<1>2. CASE Enqueue(j)
  BY <1>1, <1>2, EventKept DEF Enqueue, Append
<1>3. CASE ClaimById(j)
  BY <1>3, GrantKept DEF ClaimById
<1>4. ASSUME NEW outcome \in {"accepted", "rejected"}, ReviewOutcome(j, outcome)
      PROVE  \A k \in Jobs : Promised(k)
  BY <1>1, <1>4, EventKept DEF ReviewOutcome, Append
<1>5. CASE OperatorResume(j)
  BY <1>1, <1>5, EventKept DEF OperatorResume, Append
<1>6. CASE OperatorCancel(j)
  BY <1>1, <1>6, EventKept DEF OperatorCancel, Append
<1>7. CASE OperatorDeadLetter(j)
  BY <1>1, <1>7, EventKept DEF OperatorDeadLetter, Append
<1>8. CASE PrFeedback(j)
  BY <1>1, <1>8, EventKept DEF PrFeedback, Append
<1>9. CASE LinkPr(j)
  <2>1. \A k \in Jobs : Aside(k)
    BY <1>9 DEF LinkPr, projection, leases, Aside, Owed
  <2> QED BY <2>1, AsideKept
<1> QED BY <1>2, <1>3, <1>4, <1>5, <1>6, <1>7, <1>8, <1>9 DEF ManagerStep

\* The sweeper's DELETE is the one step that takes a lease and says nothing.
LEMMA SweepKept ==
  ASSUME IInv, Rows, SweepExpired
  PROVE  \A k \in Jobs : Promised(k)
<1> SUFFICES ASSUME NEW k \in Jobs PROVE Promised(k)
  OBVIOUS
<1>0. UNCHANGED <<state, orphaned, newest>> /\ decided[k] \in [Decisions -> Nat]
  BY DEF SweepExpired, projection, IInv, TypeOK
<1>1. CASE k \in Expired
  <2>1. lease[k].token # 0 /\ lease'[k].token = 0
    BY <1>1 DEF SweepExpired, Rows, Expired, HasLease, NoLease
  <2>2. decided'[k][Released] > 0
    BY <1>0, <1>1, WatcherDecisionsAreDecisions DEF SweepExpired, Decide
  <2>3. Lease(k)!Sweep
    BY <1>0, <2>1, <2>2 DEF Lease!Sweep
  <2> QED BY <2>3 DEF Promised, Lease!Next
<1>2. CASE k \notin Expired
  <2>1. lease'[k] = lease[k] /\ decided'[k] = decided[k]
    BY <1>2 DEF SweepExpired, Decide
  <2> QED BY <1>0, <2>1, AsideKept DEF Aside, Owed
<1> QED BY <1>1, <1>2

\* What the sweeper owes is not forgotten by any watcher, nor by a restart.
LEMMA FetchKept ==
  ASSUME IInv, NEW S, NEW d \in Decisions \ {Released}, Fetch(S, d)
  PROVE  \A k \in Jobs : Promised(k)
<1> SUFFICES ASSUME NEW k \in Jobs PROVE Aside(k)
  BY AsideKept
<1>1. decided'[k][Released] = decided[k][Released]
  BY WatcherDecisionsAreDecisions DEF Fetch, Decide, IInv, TypeOK
<1> QED BY <1>1 DEF Fetch, projection, leases, Aside, Owed

LEMMA HandleKept ==
  ASSUME IInv, NEW j \in Jobs, NEW d \in Decisions, Handle(j, d)
  PROVE  \A k \in Jobs : Promised(k)
<1>0. TypeOK /\ \A k \in Jobs : decided[k] \in [Decisions -> Nat]
  BY DEF IInv, TypeOK
<1>1. CASE RecordDecision(j, d)
  <2>1. /\ decided'[j][Released] > 0 => decided[j][Released] > 0
        /\ \A k \in Jobs \ {j} : decided'[k] = decided[k]
    BY <1>0, <1>1, WatcherDecisionsAreDecisions DEF RecordDecision, Undecide, TypeOK
  <2> QED BY <1>1, <2>1, DecisionKinds, EventKept DEF RecordDecision, Append
<1>2. CASE PassOver(j, d)
  <2>1. d # Released
    BY <1>2 DEF PassOver, Refused, Released, Accepted, DepsMet, Decision
  <2>2. \A k \in Jobs : decided'[k][Released] = decided[k][Released]
    BY <1>0, <1>2, <2>1, WatcherDecisionsAreDecisions DEF PassOver, Undecide, TypeOK
  <2>3. \A k \in Jobs : Aside(k)
    BY <1>2, <2>2 DEF PassOver, projection, leases, Aside, Owed
  <2> QED BY <2>3, AsideKept
<1>3. CASE WriteFails(j, d)
  <2>1. ASSUME NEW k \in Jobs, d # Released
        PROVE  decided'[k][Released] = decided[k][Released]
    <3>1. CASE Undecide(j, d)
      BY <1>0, <2>1, <3>1, WatcherDecisionsAreDecisions DEF Undecide, TypeOK
    <3>2. CASE AbortTick(d)
      BY <1>0, <2>1, <3>2, WatcherDecisionsAreDecisions DEF AbortTick
    <3> QED BY <1>3, <3>1, <3>2 DEF WriteFails
  <2>2. d = Released => /\ decided[j][Released] > 0 /\ j \in orphaned'
                        /\ \A k \in Jobs \ {j} : decided'[k] = decided[k]
    BY <1>0, <1>3 DEF WriteFails, Undecide, TypeOK, Released, Unanswered, DepsMet, Decision
  <2>3. \A k \in Jobs : Owed(k)' = Owed(k)
    BY <1>3, <2>1, <2>2 DEF WriteFails, Owed
  <2>4. \A k \in Jobs : Aside(k)
    BY <1>3, <2>3 DEF WriteFails, leases, Aside
  <2> QED BY <2>4, AsideKept
<1> QED BY <1>1, <1>2, <1>3 DEF Handle

LEMMA PolicyKept ==
  ASSUME IInv, NEW j \in Jobs, NEW c \in Classes, PolicyDecide(j, c)
  PROVE  \A k \in Jobs : Promised(k)
<1> SUFFICES ASSUME NEW k \in Jobs PROVE Aside(k)
  BY AsideKept
<1>1. PICK attempts \in Attempts(j, c) :
        LET e == PolicyEvent(c, attempts) IN
          Decide(IF e = "none" THEN {} ELSE {j}, Decision("failure_policy", e, c))
  BY DEF PolicyDecide
<1>2. Decision("failure_policy", PolicyEvent(c, attempts), c) # Released
  BY DEF Decision, Released
<1>3. decided'[k][Released] = decided[k][Released]
  BY <1>1, <1>2, WatcherDecisionsAreDecisions DEF Decide, IInv, TypeOK
<1> QED BY <1>3 DEF PolicyDecide, projection, leases, Aside, Owed

LEMMA RestartKept ==
  ASSUME IInv, ConsoleRestart
  PROVE  \A k \in Jobs : Promised(k)
<1> SUFFICES ASSUME NEW k \in Jobs PROVE Aside(k)
  BY AsideKept
<1>1. Owed(k)' = Owed(k)
  BY WatcherDecisionsAreDecisions DEF ConsoleRestart, Owed
<1> QED BY <1>1 DEF ConsoleRestart, leases, Aside

LEMMA ConsoleKept ==
  ASSUME IInv, Rows, ConsoleStep
  PROVE  \A k \in Jobs : Promised(k)
<1>1. {Accepted, Unanswered, Unlinked, DepsMet} \subseteq Decisions \ {Released}
  BY WatcherDecisionsAreDecisions
     DEF Released, Accepted, Unanswered, Unlinked, DepsMet, Decision
<1>2. CASE SweepExpired
  BY <1>2, SweepKept
<1>3. CASE MergeTick
  BY <1>1, <1>3, FetchKept DEF MergeTick
<1>4. ASSUME NEW S \in SUBSET Jobs, UnlinkedTick(S) PROVE \A k \in Jobs : Promised(k)
  BY <1>1, <1>4, FetchKept DEF UnlinkedTick
<1>5. ASSUME NEW S \in SUBSET Jobs, TtlTick(S) PROVE \A k \in Jobs : Promised(k)
  BY <1>1, <1>5, FetchKept DEF TtlTick
<1>6. CASE DependencyTick
  BY <1>1, <1>6, FetchKept DEF DependencyTick
<1>7. CASE ConsoleRestart
  BY <1>7, RestartKept
<1> QED BY <1>2, <1>3, <1>4, <1>5, <1>6, <1>7, HandleKept, PolicyKept DEF ConsoleStep

LEMMA PromisesKept == Spec => [][AllPromised]_vars
<1>1. IInv /\ Rows /\ [Next]_vars => [AllPromised]_vars
  <2> SUFFICES ASSUME IInv, Rows, Next PROVE \A k \in Jobs : Promised(k)
    BY DEF AllPromised
  <2>1. ASSUME NEW j \in Jobs, Expire(j) PROVE \A k \in Jobs : Promised(k)
    <3>1. \A k \in Jobs : lease'[k].token = lease[k].token
      BY <2>1 DEF Expire, IInv, TypeOK, Leases
    <3>2. \A k \in Jobs : Aside(k)
      BY <2>1, <3>1 DEF Expire, projection, Aside, Owed
    <3> QED BY <3>2, AsideKept
  <2> QED BY <2>1, AgentKept, ManagerKept, ConsoleKept DEF Next
<1> QED BY Invariant, RowsHold, <1>1, PTL DEF Spec

\* Every step of the queue is, for each job, one that JobLease allows or none of
\* its business: what is promised of a lease (LeasesAsPromised) is kept.
THEOREM LeasesAsPromisedHold == Spec => LeasesAsPromised
<1>1. Init => \A j \in Jobs : Lease(j)!Init
  BY WatcherDecisionsAreDecisions DEF Init, Lease!Init, NoLease
<1> QED BY <1>1, PromisesKept DEF Spec, LeasesAsPromised

\* Once token t was granted on job j and is not in force, it stays out of force.
FencedOff(j, t) == [](~Fenced(j, t) /\ t <= newest[j] => []~Fenced(j, t))

\* A token that has been in force and is no longer, was replaced, swept or given
\* back: it never comes into force again, so every later request that bears it
\* fails the token check (heartbeat, release_lease and transition compare nothing else).
THEOREM TokensAreFenced ==
  ASSUME NEW j \in Jobs, NEW t \in Nat \ {0}
  PROVE  Spec => FencedOff(j, t)
<1> DEFINE Over == ~Fenced(j, t) /\ t <= newest[j]
<1>1. Over /\ TypeOK /\ [AllPromised]_vars => Over'
  <2> SUFFICES ASSUME Over, TypeOK, Promised(j) \/ UNCHANGED vars PROVE Over'
    BY DEF AllPromised
  <2> USE DEF Fenced
  <2>0. newest[j] \in Nat
    BY ConstantsOK DEF TypeOK
  <2>1. CASE Lease(j)!Claim
    BY <2>0, <2>1 DEF Lease!Claim
  <2>2. CASE Lease(j)!Move \/ Lease(j)!Resume \/ Lease(j)!Sweep
    BY <2>2 DEF Lease!Move, Lease!Resume, Lease!Sweep
  <2>3. CASE Lease(j)!Waste
    BY <2>0, <2>3 DEF Lease!Waste
  <2>4. CASE UNCHANGED vars \/ UNCHANGED Lease(j)!vars
    BY <2>4 DEF vars, Lease!vars
  <2> QED BY <2>1, <2>2, <2>3, <2>4 DEF Promised, Lease!Next
<1>2. Over => ~Fenced(j, t)
  OBVIOUS
<1> HIDE DEF Over
<1>3. Spec => [](Over => []~Fenced(j, t))
  BY <1>1, <1>2, PromisesKept, TypeCorrect, PTL
<1> QED BY <1>3 DEF Over, FencedOff


-----------------------------------------------------------------------------
\* What Correlation supposes of the rest of the queue.

\* Nothing is known yet of a job that was never enqueued.
Unborn(j) ==
  state[j] = "absent" =>
    /\ lane[j] = "none" /\ lease[j] = NoLease
    /\ \A d \in Decisions : decided[j][d] = 0
    /\ \A c \in Classes : calls[j][c] = 0

\* The step leaves alone what Unborn speaks of.
Quiet(j) ==
  state'[j] = state[j] /\ lane'[j] = lane[j] /\ lease'[j] = lease[j]
  /\ decided'[j] = decided[j] /\ calls'[j] = calls[j]

\* The step creates the job, appends an event that some writer may record of it,
\* or appends none.
Recorded(j) ==
  \/ Quiet(j)
  \/ state[j] # "absent" /\ state'[j] = state[j]
  \/ state[j] = "absent" /\ state'[j] = StateAfter("enqueued")
  \/ state[j] # "absent" /\ \E e \in MayBeRecorded(state[j]) : state'[j] = StateAfter(e)

LEMMA AlwaysRecorded ==
  ASSUME NEW s, NEW e \in Unchecked
  PROVE  e \in MayBeRecorded(s)
BY DEF MayBeRecorded

LEMMA NeverAbsent ==
  ASSUME NEW e \in ProjectingEvents
  PROVE  StateAfter(e) # "absent"
BY DEF ProjectingEvents, StateAfter

\* A request that passes the token check is about a job that exists.
LEMMA FencedExists ==
  ASSUME IInv, NEW j \in Jobs, Unborn(j), NEW t \in 1..MaxLeases, MayRequest(j, t), Fenced(j, t)
  PROVE  state[j] # "absent"
BY FencedHolds DEF Unborn, HasLease, NoLease

LEMMA AgentRecorded ==
  ASSUME IInv, NEW j \in Jobs, Unborn(j), AgentStep(j)
  PROVE  Recorded(j) /\ \A k \in Jobs \ {j} : Quiet(k)
<1>0. TypeOK
  BY DEF IInv
<1>1. ASSUME NEW e \in MayBeRecorded(state[j]), NEW kind, Project(j, e, kind), state[j] # "absent"
      PROVE  Recorded(j)
  BY <1>0, <1>1, AppendAt DEF Recorded
<1>2. ASSUME NEW e, NEW kind, Project(j, e, kind),
             Grant(j) \/ DropLease(j) \/ UNCHANGED leases, UNCHANGED decided,
             \A k \in Jobs \ {j} : calls'[k] = calls[k]
      PROVE  \A k \in Jobs \ {j} : Quiet(k)
  BY <1>0, <1>2, AppendAt DEF Quiet, Grant, DropLease, leases, TypeOK
<1>3. CASE ClaimNext(j)
  <2>1. state[j] # "absent"
    BY <1>3 DEF ClaimNext, Eligible, Unborn
  <2>2. "leased" \in MayBeRecorded(state[j])
    BY AlwaysRecorded DEF Unchecked
  <2> QED BY <1>1, <1>2, <1>3, <2>1, <2>2 DEF ClaimNext, Append, policy
<1>4. CASE HolderDies(j)
  <2>1. state[j] # "absent"
    BY <1>4 DEF HolderDies, Unborn, HasLease, NoLease
  <2> QED BY <1>0, <1>4, <2>1 DEF HolderDies, Recorded, Quiet, projection, policy, TypeOK
<1>5. ASSUME NEW t \in 1..MaxLeases, MayRequest(j, t), Fenced(j, t)
      PROVE  state[j] # "absent"
  BY <1>5, FencedExists
<1>6. ASSUME NEW t \in 1..MaxLeases, Heartbeat(j, t)
      PROVE  Recorded(j) /\ \A k \in Jobs \ {j} : Quiet(k)
  BY <1>0, <1>5, <1>6 DEF Heartbeat, Recorded, Quiet, projection, policy, TypeOK
<1>7. ASSUME NEW t \in 1..MaxLeases, Release(j, t)
      PROVE  Recorded(j) /\ \A k \in Jobs \ {j} : Quiet(k)
  <2>1. "released" \in MayBeRecorded(state[j])
    BY AlwaysRecorded DEF Unchecked
  <2> QED BY <1>1, <1>2, <1>5, <1>7, <2>1 DEF Release, Append, policy
<1>8. ASSUME NEW t \in 1..MaxLeases, Submit(j, t)
      PROVE  Recorded(j) /\ \A k \in Jobs \ {j} : Quiet(k)
  <2>1. "submitted" \in MayBeRecorded(state[j])
    BY <1>8 DEF Submit, MayTransition, MayBeRecorded, ProjectingEvents
  <2> QED BY <1>1, <1>2, <1>5, <1>8, <2>1 DEF Submit, MayTransition, Append, policy
<1>9. ASSUME NEW t \in 1..MaxLeases, NEW c \in Classes, ReportFailure(j, t, c)
      PROVE  Recorded(j) /\ \A k \in Jobs \ {j} : Quiet(k)
  <2>1. "failed" \in MayBeRecorded(state[j])
    BY AlwaysRecorded DEF Unchecked
  <2>2. \A k \in Jobs \ {j} : calls'[k] = calls[k]
    BY <1>0, <1>9 DEF ReportFailure, Tally, TypeOK
  <2> QED BY <1>1, <1>2, <1>5, <1>9, <2>1, <2>2 DEF ReportFailure, MayTransition, Append
<1>10. ASSUME NEW t \in 1..MaxLeases, NEW kind \in {"question", "attention"}, AskHuman(j, t, kind)
       PROVE  Recorded(j) /\ \A k \in Jobs \ {j} : Quiet(k)
  <2>1. "needs_info" \in MayBeRecorded(state[j])
    BY <1>10 DEF AskHuman, MayTransition, MayBeRecorded, ProjectingEvents
  <2> QED BY <1>1, <1>2, <1>5, <1>10, <2>1 DEF AskHuman, MayTransition, policy
<1>11. ASSUME NEW t \in 1..MaxLeases, NEW e \in OtherEvents, Transition(j, t, e)
       PROVE  Recorded(j) /\ \A k \in Jobs \ {j} : Quiet(k)
  <2>1. e \in MayBeRecorded(state[j])
    BY <1>11 DEF Transition, MayTransition, MayBeRecorded, OtherEvents
  <2>2. DropLease(j) \/ UNCHANGED leases
    BY <1>11 DEF Transition
  <2> QED BY <1>1, <1>2, <1>5, <1>11, <2>1, <2>2 DEF Transition, MayTransition, Append, policy
<1> QED BY <1>3, <1>4, <1>6, <1>7, <1>8, <1>9, <1>10, <1>11 DEF AgentStep

LEMMA ManagerRecorded ==
  ASSUME IInv, NEW j \in Jobs, Unborn(j), ManagerStep(j)
  PROVE  Recorded(j) /\ \A k \in Jobs \ {j} : Quiet(k)
<1>0. TypeOK
  BY DEF IInv
<1>1. ASSUME NEW e \in MayBeRecorded(state[j]), Append(j, e), state[j] # "absent"
      PROVE  Recorded(j)
  BY <1>0, <1>1, AppendAt DEF Recorded, Append
<1>2. ASSUME NEW e, Append(j, e), Grant(j) \/ DropLease(j) \/ UNCHANGED leases,
             UNCHANGED <<decided, policy>>
      PROVE  \A k \in Jobs \ {j} : Quiet(k)
  BY <1>0, <1>2, AppendAt DEF Quiet, Grant, DropLease, leases, policy, Append, TypeOK
<1>3. {"leased", "requeued", "dead_lettered"} \subseteq MayBeRecorded(state[j])
  BY AlwaysRecorded DEF Unchecked
<1>4. CASE Enqueue(j)
  <2>1. Recorded(j)
    BY <1>0, <1>4, AppendAt DEF Enqueue, Append, Recorded
  <2> QED BY <1>2, <1>4, <2>1 DEF Enqueue
<1>5. CASE ClaimById(j)
  BY <1>1, <1>2, <1>3, <1>5 DEF ClaimById
<1>6. ASSUME NEW outcome \in {"accepted", "rejected"}, ReviewOutcome(j, outcome)
      PROVE  Recorded(j) /\ \A k \in Jobs \ {j} : Quiet(k)
  <2>1. outcome \in MayBeRecorded(state[j])
    BY <1>6 DEF ReviewOutcome, MayBeRecorded, ProjectingEvents
  <2>2. state[j] = "in_review"
    BY <1>0, <1>6, OutcomeMeansReview DEF ReviewOutcome, TypeOK
  <2> QED BY <1>1, <1>2, <1>6, <2>1, <2>2 DEF ReviewOutcome
<1>7. CASE OperatorResume(j)
  <2>1. DropLease(j) \/ UNCHANGED leases
    BY <1>7 DEF OperatorResume
  <2> QED BY <1>1, <1>2, <1>3, <1>7, <2>1 DEF OperatorResume
<1>8. CASE OperatorCancel(j)
  <2>1. "cancelled" \in MayBeRecorded(state[j])
    BY <1>8 DEF OperatorCancel, MayBeRecorded
  <2> QED BY <1>1, <1>2, <1>8, <2>1 DEF OperatorCancel
<1>9. CASE OperatorDeadLetter(j)
  BY <1>1, <1>2, <1>3, <1>9 DEF OperatorDeadLetter
<1>10. CASE PrFeedback(j)
  <2>1. "rejected" \in MayBeRecorded(state[j])
    BY <1>10 DEF PrFeedback, MayBeRecorded, TransitionAllowed, ProjectingEvents
  <2> QED BY <1>1, <1>2, <1>10, <2>1 DEF PrFeedback
<1>11. CASE LinkPr(j)
  BY <1>11 DEF LinkPr, Recorded, Quiet, projection, leases, policy
<1> QED BY <1>4, <1>5, <1>6, <1>7, <1>8, <1>9, <1>10, <1>11 DEF ManagerStep

\* A watcher's tick fetches rows that exist.
LEMMA FetchQuiet ==
  ASSUME IInv, NEW S, NEW d, Fetch(S, d), NEW j \in Jobs, Unborn(j),
         j \in S => state[j] # "absent"
  PROVE  Recorded(j)
BY DEF Fetch, Decide, Recorded, Quiet, projection, leases, policy

LEMMA ConsoleRecorded ==
  ASSUME IInv, \A i \in Jobs : Unborn(i), ConsoleStep, NEW j \in Jobs
  PROVE  Recorded(j)
<1>0. TypeOK /\ Unborn(j) /\ decided[j] \in [Decisions -> Nat] /\ calls[j] \in [Classes -> Nat]
  BY DEF IInv, TypeOK
<1>1. ASSUME NEW S, NEW d, Fetch(S, d), j \in S => state[j] # "absent"
      PROVE  Recorded(j)
  BY <1>0, <1>1, FetchQuiet
<1>2. state[j] = "absent" => lane[j] = "none" /\ ~lease[j].expired
  BY <1>0 DEF Unborn, NoLease
<1>3. CASE SweepExpired
  BY <1>2, <1>3 DEF SweepExpired, Expired, Decide, Recorded, Quiet, projection, policy
<1>4. CASE MergeTick
  BY <1>1, <1>4 DEF MergeTick, InReview
<1>5. ASSUME NEW S \in SUBSET Jobs, UnlinkedTick(S) PROVE Recorded(j)
  BY <1>1, <1>5 DEF UnlinkedTick, InReview
<1>6. ASSUME NEW S \in SUBSET Jobs, TtlTick(S) PROVE Recorded(j)
  BY <1>1, <1>2, <1>6 DEF TtlTick
<1>7. CASE DependencyTick
  BY <1>1, <1>2, <1>7 DEF DependencyTick
<1>8. CASE ConsoleRestart
  <2>1. ASSUME state[j] = "absent" PROVE decided'[j] = decided[j] /\ calls'[j] = calls[j]
    BY <1>0, <1>8, <2>1 DEF ConsoleRestart, Unborn
  <2> QED BY <1>8, <2>1 DEF ConsoleRestart, Recorded, Quiet, leases
<1>9. ASSUME NEW i \in Jobs, NEW d \in Decisions, Handle(i, d) PROVE Recorded(j)
  <2>1. CASE RecordDecision(i, d)
    <3>1. state[i] # "absent"
      BY <2>1 DEF RecordDecision, Unborn
    <3>2. d.event \in Unchecked
      BY DEF Decisions, WatcherDecisions, PolicyDecisions, Released, Accepted, Unanswered,
             Unlinked, DepsMet, Decision, Unchecked
    <3>3. ASSUME i = j PROVE Recorded(j)
      BY <1>0, <2>1, <3>1, <3>2, <3>3, AlwaysRecorded, AppendAt DEF RecordDecision, Append, Recorded
    <3>4. ASSUME i # j PROVE Recorded(j)
      BY <1>0, <2>1, <3>4, AppendAt
         DEF RecordDecision, Append, Undecide, leases, Recorded, Quiet, TypeOK
    <3> QED BY <3>3, <3>4
  <2>2. CASE PassOver(i, d)
    <3>1. state[i] # "absent"
      BY <2>2 DEF PassOver, Unborn
    <3> QED BY <1>0, <2>2, <3>1
            DEF PassOver, Undecide, projection, leases, policy, Recorded, Quiet, TypeOK
  <2>3. CASE WriteFails(i, d)
    <3>1. UNCHANGED <<state, lane, lease, calls>> /\ (Undecide(i, d) \/ AbortTick(d))
      BY <2>3 DEF WriteFails, leases, policy
    <3>2. ASSUME state[j] = "absent" PROVE decided'[j] = decided[j]
      <4>1. j # i /\ decided[j][d] = 0
        BY <1>0, <2>3, <3>2 DEF WriteFails, Unborn
      <4>2. CASE Undecide(i, d)
        BY <4>1, <4>2 DEF Undecide, IInv, TypeOK
      <4>3. CASE AbortTick(d)
        BY <1>0, <4>1, <4>3 DEF AbortTick
      <4> QED BY <3>1, <4>2, <4>3
    <3> QED BY <3>1, <3>2 DEF Recorded, Quiet
  <2> QED BY <1>9, <2>1, <2>2, <2>3 DEF Handle
<1>10. ASSUME NEW i \in Jobs, NEW c \in Classes, PolicyDecide(i, c) PROVE Recorded(j)
  <2>1. state[i] # "absent"
    BY <1>10 DEF PolicyDecide, Unborn
  <2>2. PICK attempts \in Attempts(i, c) :
          LET e == PolicyEvent(c, attempts) IN
            Decide(IF e = "none" THEN {} ELSE {i}, Decision("failure_policy", e, c))
    BY <1>10 DEF PolicyDecide
  <2>3. i # j => decided'[j] = decided[j] /\ calls'[j] = calls[j]
    BY <1>10, <2>2 DEF PolicyDecide, Decide, IInv, TypeOK
  <2> QED BY <1>10, <2>1, <2>3 DEF PolicyDecide, projection, leases, Recorded, Quiet
<1> QED BY <1>3, <1>4, <1>5, <1>6, <1>7, <1>8, <1>9, <1>10 DEF ConsoleStep

LEMMA NextRecorded ==
  ASSUME IInv, \A i \in Jobs : Unborn(i), [Next]_vars, NEW j \in Jobs
  PROVE  Recorded(j)
<1>1. ASSUME NEW k \in Jobs, Expire(k) PROVE Recorded(j)
  <2>1. state[k] # "absent"
    BY <1>1 DEF Expire, Unborn, HasLease, NoLease
  <2> QED BY <1>1, <2>1 DEF Expire, projection, policy, Recorded, Quiet, IInv, TypeOK
<1>2. ASSUME NEW k \in Jobs, AgentStep(k) \/ ManagerStep(k) PROVE Recorded(j)
  <2>1. Recorded(k) /\ \A i \in Jobs \ {k} : Quiet(i)
    BY <1>2, AgentRecorded, ManagerRecorded
  <2> QED BY <2>1 DEF Recorded
<1>3. CASE UNCHANGED vars
  BY <1>3 DEF vars, Recorded, Quiet
<1> QED BY <1>1, <1>2, <1>3, ConsoleRecorded DEF Next

\* An event appended to the log of each job: the ones Correlation lets the rest of
\* the queue append, and none to a job before it is enqueued.
EventsAsRecorded ==
  [][\A j \in Jobs : state'[j] # state[j] =>
       \/ state[j] = "absent" /\ state'[j] = StateAfter("enqueued")
       \/ state[j] # "absent" /\ \E e \in MayBeRecorded(state[j]) : state'[j] = StateAfter(e)]_vars

\* Whatever agents, managers, watchers and the failure policy do to a job, with
\* crashes and lost writes, is an event that Correlation lets any writer record:
\* what is proved there of new jobs holds with this queue running beside it.
THEOREM EventsAsRecordedHold == Spec => EventsAsRecorded
<1>1. Init => \A j \in Jobs : Unborn(j)
  BY DEF Init, Unborn
<1>2. IInv /\ (\A j \in Jobs : Unborn(j)) /\ [Next]_vars => \A j \in Jobs : Unborn(j)'
  <2> SUFFICES ASSUME IInv, \A j \in Jobs : Unborn(j), [Next]_vars, NEW j \in Jobs
               PROVE  Unborn(j)'
    OBVIOUS
  <2>1. Recorded(j) /\ Unborn(j)
    BY NextRecorded
  <2>2. CASE Quiet(j)
    BY <2>1, <2>2 DEF Quiet, Unborn
  <2>3. CASE ~Quiet(j)
    <3>1. MayBeRecorded(state[j]) \subseteq ProjectingEvents /\ "enqueued" \in ProjectingEvents
      BY DEF MayBeRecorded, Unchecked, ProjectingEvents
    <3>2. state'[j] # "absent"
      BY <2>1, <2>3, <3>1, NeverAbsent DEF Recorded
    <3> QED BY <3>2 DEF Unborn
  <2> QED BY <2>2, <2>3
<1>3. IInv /\ (\A j \in Jobs : Unborn(j)) /\ [Next]_vars =>
        [\A j \in Jobs : state'[j] # state[j] =>
           \/ state[j] = "absent" /\ state'[j] = StateAfter("enqueued")
           \/ state[j] # "absent" /\ \E e \in MayBeRecorded(state[j]) : state'[j] = StateAfter(e)]_vars
  BY NextRecorded DEF Recorded, Quiet
<1> DEFINE Born == \A j \in Jobs : Unborn(j)
<1>4. IInv /\ Born /\ [Next]_vars => Born'
  BY <1>2
<1> QED BY Invariant, <1>1, <1>3, <1>4, PTL DEF Spec, EventsAsRecorded

=============================================================================
