----------------------------- MODULE DispatchV2 -----------------------------
(***************************************************************************)
(* The v2 dispatch queue: jobs, the event-sourced projection, leases, the  *)
(* failure policy and the background watchers, one action per database     *)
(* transaction.  A handler that commits, awaits and writes again is split  *)
(* where it awaits: what it has decided but not yet written waits in       *)
(* calls (failure policy not yet run) or decided (event not yet recorded), *)
(* and is lost if the console restarts.                                    *)
(***************************************************************************)
EXTENDS DispatchStates, Naturals, FiniteSets

CONSTANTS
  Jobs,          \* rows of dispatch_jobs
  DependsOn,     \* resolved rows of dispatch_dependencies, by job
  Barred,        \* jobs with an uncleared row in dispatch_v2_quarantine
  Classes,       \* failure classes an agent may report
  NextLane,      \* POLICY_TABLE[c]["next_lane"]
  MaxAttempts,   \* POLICY_TABLE[c]["max_attempts"]; 0 means not retryable
  MaxLeases,     \* bound: leases granted per job
  Faults,        \* which FaultKinds occur
  DepsQueryRuns  \* whether dispatch_dependencies has the column the watcher reads

\* The console restarts, a write or the policy's count query fails; and the two
\* manual overrides, a manager's claim_by_id and an operator's resume or cancel.
FaultKinds == {"restart", "write_fails", "count_fails", "claim_by_id", "operator"}
PolicyLanes == {"work_queue", "attention_queue", "quarantined", "dead_letter"}

ASSUME ConstantsOK ==
  /\ DependsOn \in [Jobs -> SUBSET Jobs]
  /\ Barred \subseteq Jobs
  /\ NextLane \in [Classes -> PolicyLanes]
  /\ MaxAttempts \in [Classes -> Nat]
  /\ MaxLeases \in Nat
  /\ Faults \subseteq FaultKinds
  /\ DepsQueryRuns \in BOOLEAN

VARIABLES
  state,     \* dispatch_state_current.state
  lane,      \* dispatch_state_current.lane
  lease,     \* the dispatch_leases row; its token numbers the job's leases
  newest,    \* number of leases ever granted on the job
  linked,    \* jobs whose pr_number is set
  failures,  \* per job and class, its 'failed' events
  calls,     \* per job and class, failure-policy calls that have not run yet
  decided,   \* per job, events a coroutine has decided on and not yet recorded
  requeues,  \* history: retries the policy granted, per job and class
  orphaned   \* history: jobs whose lease was swept and whose release was lost

projection == <<state, lane, orphaned>>
leases     == <<lease, newest>>
policy     == <<failures, calls, requeues>>
vars == <<state, lane, lease, newest, linked, failures, calls, decided,
          requeues, orphaned>>

-----------------------------------------------------------------------------
\* Decisions: events that one await separates from the read that led to them.

NoClass == "no_class"
Decision(src, event, cls) == [src |-> src, event |-> event, cls |-> cls]

Released == Decision("expired_lease_sweeper", "released", NoClass)
Accepted == Decision("pr_merge_sweeper", "accepted", NoClass)
Unanswered == Decision("needs_info_ttl", "failed", NoClass)
Unlinked == Decision("stale_unlinked_in_review_sweeper", "requeued", NoClass)
DepsMet  == Decision("dependency_watcher", "requeued", NoClass)

WatcherDecisions == {Released, Accepted, Unanswered, Unlinked, DepsMet}
PolicyDecisions ==
  {Decision("failure_policy", e, c) :
     e \in {"requeued", "failed", "quarantined", "dead_lettered"}, c \in Classes}
Decisions == WatcherDecisions \cup PolicyDecisions

\* One watcher task awaits its whole tick before it sleeps and starts the next.
TickOver(d) == \A j \in Jobs : decided[j][d] = 0

\* The rows a tick has fetched and will act upon, one after the other.
Decide(S, d) ==
  decided' = [j \in Jobs |-> IF j \in S THEN [decided[j] EXCEPT ![d] = @ + 1]
                                        ELSE decided[j]]

-----------------------------------------------------------------------------
\* Leases and events.

Leases == [token : Nat, alive : BOOLEAN, expired : BOOLEAN]
NoLease == [token |-> 0, alive |-> FALSE, expired |-> FALSE]
HasLease(j) == lease[j].token # 0

\* The token check at the head of heartbeat, release_lease and transition.
Fenced(j, t) == lease[j].token = t

\* A request bears any token ever granted on the job; the holder of the
\* current one sends none once its process is gone.
MayRequest(j, t) == t \in 1..newest[j] /\ (t = lease[j].token => lease[j].alive)

\* Mutant of Grant: a lease that is there is taken over with its token.
GrantSameToken(j) ==
  /\ newest[j] < MaxLeases
  /\ newest' = [newest EXCEPT ![j] = @ + 1]
  /\ lease'  = [lease EXCEPT ![j] =
                  [token |-> IF HasLease(j) THEN lease[j].token ELSE newest[j] + 1,
                   alive |-> TRUE, expired |-> FALSE]]

Grant(j) ==
  /\ newest[j] < MaxLeases
  /\ newest' = [newest EXCEPT ![j] = @ + 1]
  /\ lease'  = [lease EXCEPT ![j] = [token |-> newest[j] + 1,
                                     alive |-> TRUE, expired |-> FALSE]]

DropLease(j) == lease' = [lease EXCEPT ![j] = NoLease] /\ UNCHANGED newest

Tally(count, j, c) == [count EXCEPT ![j][c] = @ + 1]

\* The trigger overwrites the projection whatever the previous state was.
Project(j, e, kind) ==
  /\ state' = [state EXCEPT ![j] = StateAfter(e)]
  /\ lane'  = [lane EXCEPT ![j] = LaneAfter(e, kind)]
  /\ orphaned' = orphaned \ {j}

Append(j, e) == Project(j, e, "question")

-----------------------------------------------------------------------------
Init ==
  /\ state    = [j \in Jobs |-> "absent"]
  /\ lane     = [j \in Jobs |-> "none"]
  /\ lease    = [j \in Jobs |-> NoLease]
  /\ newest   = [j \in Jobs |-> 0]
  /\ linked   = {}
  /\ failures = [j \in Jobs |-> [c \in Classes |-> 0]]
  /\ calls    = [j \in Jobs |-> [c \in Classes |-> 0]]
  /\ decided  = [j \in Jobs |-> [d \in Decisions |-> 0]]
  /\ requeues = [j \in Jobs |-> [c \in Classes |-> 0]]
  /\ orphaned = {}

\* POST /enqueue, /rework: the job row and its 'enqueued' event.
Enqueue(j) ==
  /\ state[j] = "absent"
  /\ Append(j, "enqueued")
  /\ UNCHANGED <<leases, linked, policy, decided>>

\* Mutant of DepsAllow: it only looks for dependencies that are running.
DepsNotRunning(j) == \A d \in DependsOn[j] : state[d] # "leased"

\* A dependency without a job row is unresolved (depends_on_job_id is NULL) and
\* does not block.
DepsAllow(j) == \A d \in DependsOn[j] : state[d] \in {"absent", "completed"}

\* Mutant of Eligible: the quarantine table is not consulted.
EligibleIfBarred(j) == lane[j] = "work_queue" /\ ~HasLease(j) /\ DepsAllow(j)

Eligible(j) ==
  lane[j] = "work_queue" /\ ~HasLease(j) /\ j \notin Barred /\ DepsAllow(j)

\* POST /claim-next.  Which eligible job is taken depends on the caller's role,
\* on scope and age, and on the rows other claims have locked.
ClaimNext(j) ==
  /\ Eligible(j)
  /\ Grant(j)
  /\ Append(j, "leased")
  /\ UNCHANGED <<linked, policy, decided>>

\* POST /heartbeat: renews the lease; the event leaves the projection alone.
Heartbeat(j, t) ==
  /\ MayRequest(j, t)
  /\ Fenced(j, t)
  /\ lease' = [lease EXCEPT ![j].expired = FALSE]
  /\ UNCHANGED <<projection, newest, linked, policy, decided>>

\* POST /release: whatever state the job is in.
Release(j, t) ==
  /\ MayRequest(j, t)
  /\ Fenced(j, t)
  /\ DropLease(j)
  /\ Append(j, "released")
  /\ UNCHANGED <<linked, policy, decided>>

\* POST /transition, the checks every event passes.  Its 'heartbeat' appends
\* without renewing the lease and its phase events are always refused: neither
\* changes anything modelled here.
MayTransition(j, t, e) ==
  /\ MayRequest(j, t)
  /\ Fenced(j, t)
  /\ e \in TransitionAllowed(state[j])

\* Mutant of Submit: 'submitted' is missing among the events that end a lease.
SubmitKeepingLease(j, t) ==
  /\ MayTransition(j, t, "submitted")
  /\ Append(j, "submitted")
  /\ linked' \in {linked, linked \cup {j}}
  /\ UNCHANGED <<leases, policy, decided>>

\* 'submitted': an agent that names no PR is let through (the rollout date of
\* the hard check lies in the future by default).
Submit(j, t) ==
  /\ MayTransition(j, t, "submitted")
  /\ Append(j, "submitted")
  /\ DropLease(j)
  /\ linked' \in {linked, linked \cup {j}}
  /\ UNCHANGED <<policy, decided>>

\* 'failed': the handler commits, then runs the failure policy.
ReportFailure(j, t, c) ==
  /\ MayTransition(j, t, "failed")
  /\ Append(j, "failed")
  /\ DropLease(j)
  /\ failures' = Tally(failures, j, c)
  /\ calls' = Tally(calls, j, c)
  /\ UNCHANGED <<linked, requeues, decided>>

\* 'needs_info' is not among the events that delete the lease.
AskHuman(j, t, kind) ==
  /\ MayTransition(j, t, "needs_info")
  /\ Project(j, "needs_info", kind)
  /\ UNCHANGED <<leases, linked, policy, decided>>

OtherEvents == ProjectingEvents \ {"submitted", "failed", "needs_info"}

Transition(j, t, e) ==
  /\ MayTransition(j, t, e)
  /\ Append(j, e)
  /\ IF e \in LeaseEnding THEN DropLease(j) ELSE UNCHANGED leases
  /\ UNCHANGED <<linked, policy, decided>>

-----------------------------------------------------------------------------
\* Managers, operators and webhooks: no token, hence no fencing.

\* POST /claim-by-id: deletes whatever lease there is and looks at no state.
ClaimById(j) ==
  /\ "claim_by_id" \in Faults
  /\ state[j] # "absent"
  /\ Grant(j)
  /\ Append(j, "leased")
  /\ UNCHANGED <<linked, policy, decided>>

\* POST /review-outcome.
ReviewOutcome(j, outcome) ==
  /\ outcome \in TransitionAllowed(state[j])
  /\ Append(j, outcome)
  /\ DropLease(j)
  /\ UNCHANGED <<linked, policy, decided>>

\* POST /operator/resume: a lease is deleted only if the job is 'leased'.
OperatorResume(j) ==
  /\ "operator" \in Faults
  /\ state[j] \notin Terminal \cup {"absent"}
  /\ IF state[j] = "leased" THEN DropLease(j) ELSE UNCHANGED leases
  /\ Append(j, "requeued")
  /\ UNCHANGED <<linked, policy, decided>>

\* POST /operator/cancel: any lease stays.
OperatorCancel(j) ==
  /\ "operator" \in Faults
  /\ state[j] \notin Terminal \cup {"absent"}
  /\ Append(j, "cancelled")
  /\ UNCHANGED <<leases, linked, policy, decided>>

\* POST /operator/dead-letter.
OperatorDeadLetter(j) ==
  /\ "operator" \in Faults
  /\ state[j] = "failed"
  /\ Append(j, "dead_lettered")
  /\ UNCHANGED <<leases, linked, policy, decided>>

\* POST /pr-feedback with changes requested in a review not seen before.
PrFeedback(j) ==
  /\ state[j] = "in_review"
  /\ j \in linked
  /\ Append(j, "rejected")
  /\ UNCHANGED <<leases, linked, policy, decided>>

\* POST /set-pr-number, POST /review-link-pr and the backfill sweeper.
LinkPr(j) ==
  /\ state[j] # "absent"
  /\ linked' = linked \cup {j}
  /\ UNCHANGED <<projection, leases, policy, decided>>

-----------------------------------------------------------------------------
\* Time and agent processes.

\* expires_at passes.
Expire(j) ==
  /\ HasLease(j)
  /\ lease' = [lease EXCEPT ![j].expired = TRUE]
  /\ UNCHANGED <<projection, newest, linked, policy, decided>>

\* The process that holds the lease crashes or loses its network for good.
HolderDies(j) ==
  /\ HasLease(j)
  /\ lease' = [lease EXCEPT ![j].alive = FALSE]
  /\ UNCHANGED <<projection, newest, linked, policy, decided>>

-----------------------------------------------------------------------------
\* Watchers.  A tick fetches rows and then handles them one by one.

\* Mutant of Expired: only leases of jobs that are 'leased'.
ExpiredLeased == {j \in Jobs : lease[j].expired /\ state[j] = "leased"}

Expired == {j \in Jobs : lease[j].expired}

\* Mutant of SweepExpired: one row of the DELETE's result is read.
SweepReleasingOne ==
  /\ TickOver(Released)
  /\ Expired # {}
  /\ lease' = [j \in Jobs |-> IF j \in Expired THEN NoLease ELSE lease[j]]
  /\ Decide({CHOOSE j \in Expired : TRUE}, Released)
  /\ UNCHANGED <<projection, newest, linked, policy>>

\* Mutant of SweepExpired: the leases go, nothing is released.
SweepReleasingNone ==
  /\ Expired # {}
  /\ lease' = [j \in Jobs |-> IF j \in Expired THEN NoLease ELSE lease[j]]
  /\ UNCHANGED <<projection, newest, linked, policy, decided>>

\* The DELETE ... RETURNING commits before the first 'released' is written.
SweepExpired ==
  /\ TickOver(Released)
  /\ Expired # {}
  /\ lease' = [j \in Jobs |-> IF j \in Expired THEN NoLease ELSE lease[j]]
  /\ Decide(Expired, Released)
  /\ UNCHANGED <<projection, newest, linked, policy>>

\* A tick of any other watcher: it only reads.
Fetch(S, d) ==
  /\ TickOver(d)
  /\ S # {}
  /\ Decide(S, d)
  /\ UNCHANGED <<projection, leases, linked, policy>>

InReview == {j \in Jobs : state[j] = "in_review"}

MergeTick == Fetch(InReview \cap linked, Accepted)

\* S is what is old enough: time is not modelled, so any of those in review.
UnlinkedTick(S) == S \subseteq InReview \ linked /\ Fetch(S, Unlinked)

\* Mutant of TtlTick: it watches the other lane.
TtlTickAttention(S) == (\A j \in S : lane[j] = "attention_queue") /\ Fetch(S, Unanswered)

\* Only human_queue has a time to live; attention_queue waits for ever.
TtlTick(S) == (\A j \in S : lane[j] = "human_queue") /\ Fetch(S, Unanswered)

\* quarantined_age() always returns zero, so no job is ever failed after 7 days.
DependencyTick == Fetch({j \in Jobs : lane[j] = "quarantined"}, DepsMet)

\* What is asked about a fetched row just before its event is written; where
\* the answer comes from GitHub, either one may come.
DepsSatisfied(j) == DepsQueryRuns /\ DepsAllow(j)
Confirmed(j, d)  == d = DepsMet => DepsSatisfied(j)
Refused(j, d)    == d = Accepted \/ (d = DepsMet /\ ~DepsSatisfied(j))

Undecide(j, d) == decided' = [decided EXCEPT ![j][d] = @ - 1]
AbortTick(d) == decided' = [j \in Jobs |-> [decided[j] EXCEPT ![d] = 0]]

\* record_event looks at neither the state nor the lease.
RecordDecision(j, d) ==
  /\ decided[j][d] > 0
  /\ Confirmed(j, d)
  /\ Append(j, d.event)
  /\ Undecide(j, d)
  /\ IF d.event = "failed" /\ d.cls \in Classes
       THEN failures' = Tally(failures, j, d.cls)
       ELSE UNCHANGED failures
  /\ UNCHANGED <<leases, linked, calls, requeues>>

\* The PR is not merged, or a dependency is not completed.
PassOver(j, d) ==
  /\ decided[j][d] > 0
  /\ Refused(j, d)
  /\ Undecide(j, d)
  /\ UNCHANGED <<projection, leases, linked, policy>>

\* record_event raises.  The needs_info and the dependency watcher leave the rest
\* of their tick undone; the other watchers log it and go on with the next row,
\* and the caller that awaits the policy gets a 500.
WriteFails(j, d) ==
  /\ "write_fails" \in Faults
  /\ decided[j][d] > 0
  /\ IF d \in {Unanswered, DepsMet} THEN AbortTick(d) ELSE Undecide(j, d)
  /\ orphaned' = IF d = Released THEN orphaned \cup {j} ELSE orphaned
  /\ UNCHANGED <<state, lane, leases, linked, policy>>

-----------------------------------------------------------------------------
\* apply() counts the job's 'failed' events of this class, which include the
\* one that led here; if the count query raises it goes on with zero.
Attempts(j, c) == {failures[j][c]} \cup (IF "count_fails" \in Faults THEN {0} ELSE {})

\* Mutants of Exhausted: one retry more, one retry less.
ExhaustedLate(c, attempts)  == attempts > MaxAttempts[c]
ExhaustedEarly(c, attempts) == attempts + 1 >= MaxAttempts[c]

Exhausted(c, attempts) == attempts >= MaxAttempts[c]

PolicyEvent(c, attempts) ==
  CASE NextLane[c] = "work_queue"  -> IF Exhausted(c, attempts) THEN "failed" ELSE "requeued"
    [] NextLane[c] = "quarantined" -> "quarantined"
    [] NextLane[c] = "dead_letter" -> "dead_lettered"
    [] OTHER                       -> "none"

PolicyDecide(j, c) ==
  /\ calls[j][c] > 0
  /\ calls' = [calls EXCEPT ![j][c] = @ - 1]
  /\ \E attempts \in Attempts(j, c) :
       LET e == PolicyEvent(c, attempts) IN
         /\ Decide(IF e = "none" THEN {} ELSE {j}, Decision("failure_policy", e, c))
         /\ requeues' = IF e = "requeued" THEN Tally(requeues, j, c) ELSE requeues
  /\ UNCHANGED <<projection, leases, linked, failures>>

\* The console process restarts: every coroutine is gone.
ConsoleRestart ==
  /\ "restart" \in Faults
  /\ decided' = [j \in Jobs |-> [d \in Decisions |-> 0]]
  /\ calls' = [j \in Jobs |-> [c \in Classes |-> 0]]
  /\ orphaned' = orphaned \cup {j \in Jobs : decided[j][Released] > 0}
  /\ UNCHANGED <<state, lane, leases, linked, failures, requeues>>

-----------------------------------------------------------------------------
AgentStep(j) ==
  \/ ClaimNext(j)
  \/ HolderDies(j)
  \/ \E t \in 1..MaxLeases :
       \/ Heartbeat(j, t)
       \/ Release(j, t)
       \/ Submit(j, t)
       \/ \E c \in Classes : ReportFailure(j, t, c)
       \/ \E kind \in {"question", "attention"} : AskHuman(j, t, kind)
       \/ \E e \in OtherEvents : Transition(j, t, e)

ManagerStep(j) ==
  \/ Enqueue(j)
  \/ ClaimById(j)
  \/ \E outcome \in {"accepted", "rejected"} : ReviewOutcome(j, outcome)
  \/ OperatorResume(j)
  \/ OperatorCancel(j)
  \/ OperatorDeadLetter(j)
  \/ PrFeedback(j)
  \/ LinkPr(j)

Handle(j, d) == RecordDecision(j, d) \/ PassOver(j, d) \/ WriteFails(j, d)

ConsoleStep ==
  \/ SweepExpired
  \/ MergeTick
  \/ \E S \in SUBSET Jobs : UnlinkedTick(S)
  \/ \E S \in SUBSET Jobs : TtlTick(S)
  \/ DependencyTick
  \/ ConsoleRestart
  \/ \E j \in Jobs : \E d \in Decisions : Handle(j, d)
  \/ \E j \in Jobs : \E c \in Classes : PolicyDecide(j, c)

Next == (\E j \in Jobs : AgentStep(j) \/ ManagerStep(j) \/ Expire(j)) \/ ConsoleStep

Spec == Init /\ [][Next]_vars

\* Time passes, the console's loops keep ticking and its coroutines are resumed.
\* A row that stays old enough is in one of the ticks to come, hence strong
\* fairness where a tick may leave rows out.  Nothing is promised of agents,
\* managers, operators or GitHub.
Fairness ==
  /\ \A j \in Jobs : WF_vars(Expire(j))
  /\ WF_vars(SweepExpired)
  /\ WF_vars(MergeTick)
  /\ WF_vars(DependencyTick)
  /\ \A j \in Jobs : SF_vars(\E S \in SUBSET Jobs : j \in S /\ UnlinkedTick(S))
  /\ \A j \in Jobs : SF_vars(\E S \in SUBSET Jobs : j \in S /\ TtlTick(S))
  /\ \A j \in Jobs : \A d \in Decisions : WF_vars(Handle(j, d))
  /\ \A j \in Jobs : \A c \in Classes : WF_vars(PolicyDecide(j, c))

FairSpec == Spec /\ Fairness

-----------------------------------------------------------------------------
\* Typing.  The projection is typed with the leases it goes with.
TypeOK ==
  /\ state \in [Jobs -> JobStates]
  /\ lane \in [Jobs -> Lanes]
  /\ lease \in [Jobs -> Leases]
  /\ newest \in [Jobs -> 0..MaxLeases]
  /\ linked \subseteq Jobs
  /\ failures \in [Jobs -> [Classes -> Nat]]
  /\ calls \in [Jobs -> [Classes -> Nat]]
  /\ decided \in [Jobs -> [Decisions -> Nat]]
  /\ requeues \in [Jobs -> [Classes -> Nat]]
  /\ orphaned \subseteq Jobs

\* A job in review has no lease: no agent can go on changing it while its pull
\* request is judged, and no sweep of a forgotten lease can pull it back into
\* the queue.  'submitted' is the only way into review and deletes the lease;
\* every grant leads away from review.
ReviewUnheld == \A j \in Jobs : state[j] = "in_review" => ~HasLease(j)

\* The only way for a job to be 'leased' with nobody holding a lease on it is
\* the sweeper's window between its DELETE and its 'released' event; it stays
\* so only if that event was lost.
HeldOrBeingFreed == \A j \in Jobs :
  state[j] = "leased" => HasLease(j) \/ decided[j][Released] > 0 \/ j \in orphaned

\* A failure class is retried at most max_attempts - 1 times over the life of a
\* job, however its failures, policy runs and re-leases interleave, as long as
\* the query that counts the failures does not raise.
RetryBudget ==
  "count_fails" \notin Faults =>
    \A j \in Jobs : \A c \in Classes :
      requeues[j][c] = 0 \/ requeues[j][c] < MaxAttempts[c]

\* A job under an uncleared quarantine row never runs unless a manager forces it
\* by id: it stays where /enqueue or the operators put it.
BarredNeverRuns ==
  "claim_by_id" \notin Faults =>
    \A j \in Barred : newest[j] = 0 /\ state[j] \in {"absent", "pending", "cancelled"}

\* The queue respects dependencies: unless managers force jobs by id, no job is
\* leased before each dependency in the queue has been leased itself, since a
\* dependency is completed only by way of a lease, a submission and a review.
DependencyRanFirst ==
  [][\A j \in Jobs : "claim_by_id" \notin Faults /\ newest'[j] > newest[j] =>
       \A d \in DependsOn[j] : state[d] = "absent" \/ newest[d] > 0]_vars

\* Nothing can reach the job any more but a manager's claim by id.
AtRest(j) ==
  /\ state[j] \in {"completed", "cancelled", "dead_letter"}
  /\ ~HasLease(j)
  /\ \A d \in Decisions : decided[j][d] = 0
  /\ \A c \in Classes : calls[j][c] = 0

\* A finished job with no lease and no decision on its way is left only through
\* claim_by_id, which grants a new lease.  No state is absorbing by itself.
RestIsBroken == [][\A j \in Jobs : AtRest(j) /\ state'[j] # state[j] => newest'[j] > newest[j]]_vars

\* Each job's lease is the one JobLease promises.  A swept lease is owed until a
\* 'released' is recorded, which never happens if the sweeper lost it.
Lease(j) == INSTANCE JobLease WITH
  state <- state[j], token <- lease[j].token, top <- newest[j],
  owed <- decided[j][Released] > 0 \/ j \in orphaned,
  ManagersClaim <- "claim_by_id" \in Faults, LateResume <- FALSE

Promised(j) == [Lease(j)!Next]_(Lease(j)!vars)
AllPromised == \A j \in Jobs : Promised(j)

\* Whatever requests, watchers and restarts do to a job at once, a claim and its
\* lease are one step and so are an event and the end of the lease it ends; only
\* the sweeper parts them, and it owes the job a 'released' then; only a manager
\* takes a lease from its holder; no token comes into force twice.
LeasesAsPromised == (\A j \in Jobs : Lease(j)!Init) /\ [][AllPromised]_vars

\* The job of a dead agent comes back: its lease is swept and a job 'leased' with
\* nobody holding it is released, unless someone takes a new lease meanwhile.
DeadHolderRecovered == \A j \in Jobs :
  /\ (HasLease(j) /\ ~lease[j].alive) ~> (~HasLease(j) \/ lease[j].alive)
  /\ (state[j] = "leased" /\ ~HasLease(j)) ~> (state[j] # "leased" \/ HasLease(j))

\* A job does not wait for ever on a human or on a link nobody makes: a question
\* leaves human_queue and a job in review without a pull request leaves review
\* (or is linked), if only by their watchers' time limits.
WaitsEnd == \A j \in Jobs :
  /\ lane[j] = "human_queue" ~> lane[j] # "human_queue"
  /\ (state[j] = "in_review" /\ j \notin linked) ~> (state[j] # "in_review" \/ j \in linked)

\* The first failure of a class with attempts left is answered by a retry,
\* unless the job fails that way again before the policy has counted: a late
\* event or a manager can put it back to work in between.
RetryGranted == \A j \in Jobs : \A c \in Classes :
  (failures[j][c] = 1 /\ MaxAttempts[c] > 1) ~> (requeues[j][c] > 0 \/ calls[j][c] > 1)

=============================================================================
