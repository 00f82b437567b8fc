----------------------------- MODULE DispatchV1 -----------------------------
(***************************************************************************)
(* The v1 queue (dispatch_items) and the fleet that polls it: the          *)
(* operations of DispatchDBService behind the console's routes, the        *)
(* recovery loop, and, per agent, the poll cycle, the worker thread of the *)
(* story it claimed, and the heartbeat threads.  A run that does not       *)
(* succeed leaves its heartbeat thread behind: a ghost, that goes on       *)
(* beating for the row, whoever holds it, until its watchdog sees a stall. *)
(* A row is a story in a repo; several routes name the story only.  Each   *)
(* route is a transaction, but for an enqueue and a claim, which are two.  *)
(***************************************************************************)
EXTENDS Naturals, FiniteSets

CONSTANTS
  Items,       \* rows of dispatch_items, one per (story_id, repo)
  Stories,
  StoryOf,     \* the story_id of a row
  Agents,
  DependsOn,   \* stories a row's prompt names as dependencies
  MaxRetries,  \* MAX_RETRY_ATTEMPTS of the poller
  MaxStale,    \* heartbeat-stale releases before agent_died
  Calls,       \* which of the console's ManualCalls occur
  Faults,      \* which of FaultKinds occur
  None

ManualCalls == {"reclaim", "release", "cancel", "question", "pause", "review",
                "complete"}
\* An agent's process dies; the answer to a call is lost or comes too late; a claim
\* request is served after its agent has stopped waiting; heartbeats of a live
\* thread do not arrive; has_active_claim raises.
FaultKinds == {"restart", "lost_answer", "late", "unreachable", "check"}

ASSUME V1ConstantsOK ==
  /\ StoryOf \in [Items -> Stories]
  /\ DependsOn \in [Items -> SUBSET Stories]
  /\ MaxRetries \in Nat /\ MaxStale \in Nat
  /\ Calls \subseteq ManualCalls /\ Faults \subseteq FaultKinds
  /\ None \notin Agents \cup Items

VARIABLES
  row,       \* dispatch_items
  inserting, \* enqueue requests past their SELECT, as <<item, retry number>>
  late,      \* claim requests past their check that no agent waits for any more,
             \* as <<agent, story>>
  pc,        \* per agent: where its poll cycle or its worker is
  job,       \* per agent: the item it was offered or works on
  carried,   \* per agent: the retry number in the prompt it was given
  ghosts,    \* heartbeat threads that outlived their run, as <<agent, item>>
  shipped,   \* history: stories ever completed with a PR
  unguarded  \* history: rows whose current claim was made by a reclaim, without the
             \* check's answer, or by a request that is late

fleet == <<pc, job, carried, ghosts>>
vars == <<row, inserting, late, pc, job, carried, ghosts, shipped, unguarded>>

Statuses == {"absent", "pending", "claimed", "in_review", "paused",
             "needs_info", "completed", "cancelled", "failed"}
\* cleared: the claim's check found no claim of the agent's; waved: it raised.
Places == {"idle", "offered", "cleared", "waved", "starting", "working", "retrying"}

\* beat: claim_heartbeat_at is NULL, recent or older than its timeout; touched:
\* updated_at is later than claimed_at; stale: stale_release_count; retry: the
\* [RETRY n/m] tag of the prompt; pr: pr_number is set.
Rows == [status : Statuses, agent : Agents \cup {None}, touched : BOOLEAN,
         beat : {"null", "recent", "old"}, stale : 0..MaxStale,
         retry : 0..MaxRetries, pr : BOOLEAN]

NewRow(s, n) == [status |-> s, agent |-> None, touched |-> FALSE,
                 beat |-> "null", stale |-> 0, retry |-> n, pr |-> FALSE]

-----------------------------------------------------------------------------
Is(i, S) == row[i].status \in S
RowsOf(s) == {i \in Items : StoryOf[i] = s /\ ~Is(i, {"absent"})}

SetStatus(i, s) == row' = [row EXCEPT ![i].status = s]

\* UPDATE ... SET status, claimed_by = NULL, claimed_at = NULL.
Unclaim(S) ==
  /\ row' = [i \in Items |-> IF i \in S
       THEN [row[i] EXCEPT !.status = "pending", !.agent = None, !.touched = FALSE]
       ELSE row[i]]
  /\ unguarded' = unguarded \ S

\* Mutant of Busy: the agent is asked what it works on.
BusyLocally(a) == pc[a] \in {"starting", "working"}

\* has_active_claim.
Busy(a) == \E i \in Items : Is(i, {"claimed"}) /\ row[i].agent = a

\* Mutant of DepsShipped: completed is good enough.
DepsCompleted(i) == \A s \in DependsOn[i] : \E k \in RowsOf(s) : Is(k, {"completed"})

\* is_dependency_satisfied, for every dependency of the row.
DepsShipped(i) ==
  \A s \in DependsOn[i] : \E k \in RowsOf(s) : Is(k, {"completed"}) /\ row[k].pr

\* claim, force_claim: claimed_at = updated_at = now(); claim_heartbeat_at stays.
Take(i, a) ==
  row' = [row EXCEPT ![i] = [@ EXCEPT !.status = "claimed", !.agent = a,
                                      !.touched = FALSE]]

\* Mutant of Beaten: only updated_at is written.
BeatenUpdatedOnly(i) == row' = [row EXCEPT ![i].touched = TRUE]

\* touch_heartbeat: claim_heartbeat_at = updated_at = now().
Beaten(i) == row' = [row EXCEPT ![i] = [@ EXCEPT !.touched = TRUE, !.beat = "recent"]]

\* Mutant of Failed: a completed row is not spared.
FailedAnyway(i) == SetStatus(i, "failed")

\* fail: a completed row is returned as it is, any other is refused.
Failed(i) == IF Is(i, {"claimed", "pending"}) THEN SetStatus(i, "failed")
                                              ELSE UNCHANGED row

\* Mutant of OutOfRetries: the attempt that failed is compared.
OutOfRetriesLate(a) == carried[a] > MaxRetries

\* The next attempt would be over the cap.
OutOfRetries(a) == carried[a] + 1 > MaxRetries

\* Mutant of WornOut: over the cap.
WornOutLate(i) == row[i].stale > MaxStale

\* stale_release_count is at the cap.
WornOut(i) == row[i].stale >= MaxStale

\* The rows POST /dispatch/claim/{story} may mean.
Claimable(s) == {i \in RowsOf(s) : Is(i, {"pending", "claimed", "paused"})}

Goto(a, p) == pc' = [pc EXCEPT ![a] = p]

\* The worker thread returns.
Idle(a) == /\ Goto(a, "idle")
           /\ job' = [job EXCEPT ![a] = None]
           /\ carried' = [carried EXCEPT ![a] = 0]

\* What the run leaves behind: its heartbeat thread, if it had one.
Haunt(a) == ghosts' = IF pc[a] = "working" THEN ghosts \cup {<<a, job[a]>>} ELSE ghosts

Init ==
  /\ row = [i \in Items |-> NewRow("absent", 0)]
  /\ inserting = {} /\ late = {}
  /\ pc = [a \in Agents |-> "idle"]
  /\ job = [a \in Agents |-> None]
  /\ carried = [a \in Agents |-> 0]
  /\ ghosts = {} /\ shipped = {} /\ unguarded = {}

-----------------------------------------------------------------------------
(* The console: enqueue, recovery, and the calls people and Morris make.   *)

\* enqueue: the row is read without a lock.  Its list of active states lacks
\* needs_info.
EnqueueCheck(i, n) ==
  \/ /\ Is(i, {"absent"})
     /\ row' = [row EXCEPT ![i] = NewRow("pending", n)]
     /\ UNCHANGED inserting
  \/ /\ Is(i, {"needs_info", "completed", "cancelled", "failed"})
     /\ inserting' = inserting \cup {<<i, n>>}
     /\ UNCHANGED row

Enqueue(i) == EnqueueCheck(i, 0) /\ UNCHANGED <<late, fleet, shipped, unguarded>>

\* The DELETE names the story and the repo, not the state that was read.
EnqueueReplace(e) ==
  /\ e \in inserting
  /\ inserting' = inserting \ {e}
  /\ row' = [row EXCEPT ![e[1]] = NewRow("pending", e[2])]
  /\ unguarded' = unguarded \ {e[1]}
  /\ UNCHANGED <<late, fleet, shipped>>

\* recover_stale_claims, tier 1: updated_at = claimed_at for five minutes.
RecoverNeverStarted(i) ==
  /\ Is(i, {"claimed"}) /\ ~row[i].touched
  /\ Unclaim({i})
  /\ UNCHANGED <<inserting, late, fleet, shipped>>

\* Tier 2, below the cap and at it.
RecoverSilent(i) ==
  /\ Is(i, {"claimed"}) /\ row[i].beat = "old" /\ row[i].stale < MaxStale
  /\ row' = [row EXCEPT ![i] = [@ EXCEPT !.status = "pending", !.agent = None,
                       !.touched = FALSE, !.beat = "null", !.stale = row[i].stale + 1]]
  /\ unguarded' = unguarded \ {i}
  /\ UNCHANGED <<inserting, late, fleet, shipped>>

RecoverDied(i) ==
  /\ Is(i, {"claimed"}) /\ row[i].beat = "old" /\ WornOut(i)
  /\ row' = [row EXCEPT ![i] = [@ EXCEPT !.status = "failed", !.beat = "null"]]
  /\ UNCHANGED <<inserting, late, fleet, shipped, unguarded>>

\* Tier 3: heartbeats have touched the row, and claim_heartbeat_at is NULL.
SlowTierMatches(i) == Is(i, {"claimed"}) /\ row[i].touched /\ row[i].beat = "null"

\* No heartbeat for fifteen minutes: nobody beats, or the row was not claimed
\* meanwhile, or the beats did not arrive.
BeatAges(i) ==
  /\ row[i].beat = "recent"
  /\ \/ ~Is(i, {"claimed"})
     \/ /\ ~\E a \in Agents : <<a, i>> \in ghosts
        /\ ~\E a \in Agents : pc[a] = "working" /\ job[a] = i
     \/ "unreachable" \in Faults
  /\ row' = [row EXCEPT ![i].beat = "old"]
  /\ UNCHANGED <<inserting, late, fleet, shipped, unguarded>>

Reclaim(i, a) ==
  /\ "reclaim" \in Calls
  /\ ~Is(i, {"absent", "completed", "cancelled"})
  /\ Take(i, a)
  /\ unguarded' = unguarded \cup {i}
  /\ UNCHANGED <<inserting, late, fleet, shipped>>

ForceRelease(s) ==
  /\ "release" \in Calls
  /\ \E i \in RowsOf(s) : Is(i, {"claimed", "in_review"})
  /\ Unclaim({i \in RowsOf(s) : Is(i, {"claimed", "in_review"})})
  /\ UNCHANGED <<inserting, late, fleet, shipped>>

\* The columns of the claim are cleared.
Cancel(i) ==
  /\ "cancel" \in Calls
  /\ Is(i, {"pending", "claimed", "in_review", "needs_info", "paused"})
  /\ row' = [row EXCEPT ![i] = [@ EXCEPT !.status = "cancelled", !.agent = None]]
  /\ UNCHANGED <<inserting, late, fleet, shipped, unguarded>>

\* needs_info: every row of the story.
NeedsInfo(s) ==
  /\ "question" \in Calls
  /\ LET asked == {i \in RowsOf(s) : Is(i, {"pending", "claimed", "paused"})} IN
     /\ asked /= {}
     /\ row' = [i \in Items |->
          IF i \in asked THEN [row[i] EXCEPT !.status = "needs_info"] ELSE row[i]]
  /\ UNCHANGED <<inserting, late, fleet, shipped, unguarded>>

\* resume_from_needs_info names the story, answer_needs_info may name the repo.
Answer(s) ==
  /\ \E S \in {{i \in RowsOf(s) : Is(i, {"needs_info"})}}
            \cup {{i} : i \in {k \in RowsOf(s) : Is(k, {"needs_info"})}} :
       S /= {} /\ Unclaim(S)
  /\ UNCHANGED <<inserting, late, fleet, shipped>>

Pause(i) ==
  /\ "pause" \in Calls /\ Is(i, {"claimed"})
  /\ SetStatus(i, "paused")
  /\ UNCHANGED <<inserting, late, fleet, shipped, unguarded>>

Review(i) ==
  /\ "review" \in Calls /\ Is(i, {"claimed"})
  /\ SetStatus(i, "in_review")
  /\ UNCHANGED <<inserting, late, fleet, shipped, unguarded>>

\* A completion that names a pull request: no agent's does.
CompleteByHand(i) ==
  /\ "complete" \in Calls /\ Is(i, {"claimed", "pending", "in_review"})
  /\ row' = [row EXCEPT ![i] = [@ EXCEPT !.status = "completed", !.pr = TRUE]]
  /\ shipped' = shipped \cup {StoryOf[i]}
  /\ UNCHANGED <<inserting, late, fleet, unguarded>>

-----------------------------------------------------------------------------
(* The agents.                                                             *)

\* has_active_claim says no, or raises, which lets the agent pass.
NotBusy(a) == ~Busy(a) \/ "check" \in Faults

\* GET /dispatch/next, for some row the ordering may put first.
GetNext(a, i) ==
  /\ pc[a] = "idle" /\ NotBusy(a)
  /\ Is(i, {"pending", "paused"}) /\ DepsShipped(i)
  /\ Goto(a, "offered")
  /\ job' = [job EXCEPT ![a] = i]
  /\ carried' = [carried EXCEPT ![a] = row[i].retry]
  /\ UNCHANGED <<row, inserting, late, ghosts, shipped, unguarded>>

\* POST /dispatch/claim: the check, on a connection of its own.
CheckClaims(a) ==
  /\ pc[a] = "offered"
  /\ \/ ~Busy(a) /\ Goto(a, "cleared")
     \/ "check" \in Faults /\ Goto(a, "waved")
  /\ UNCHANGED <<row, inserting, late, job, carried, ghosts, shipped, unguarded>>

\* claim: the story's one row that is pending or paused, none being claimed.
Claims(k, s, a) == Claimable(s) = {k} /\ ~Is(k, {"claimed"}) /\ Take(k, a)

\* Nothing to claim: not found, already claimed, or rows in several repos.
NoClaim(s) == \/ Cardinality(Claimable(s)) /= 1
              \/ \E k \in Claimable(s) : Is(k, {"claimed"})

\* The claim names the story; the agent works on the item it was offered.
Claim(a) ==
  /\ pc[a] \in {"cleared", "waved"}
  /\ \E k \in Items :
       /\ Claims(k, StoryOf[job[a]], a)
       /\ unguarded' = IF pc[a] = "waved" THEN unguarded \cup {k} ELSE unguarded \ {k}
  /\ \/ Goto(a, "starting") /\ UNCHANGED <<job, carried>>
     \/ "lost_answer" \in Faults /\ Idle(a)
  /\ UNCHANGED <<inserting, late, ghosts, shipped>>

\* Refused (409), after which the poller asks for the next row again.
ClaimRefused(a) ==
  /\ \/ pc[a] = "offered" /\ Busy(a)
     \/ pc[a] \in {"cleared", "waved"} /\ NoClaim(StoryOf[job[a]])
  /\ Idle(a)
  /\ UNCHANGED <<row, inserting, late, ghosts, shipped, unguarded>>

\* A request of an agent that no longer waits goes on, or does not; one that was not
\* checked yet is lost.
Orphaned(a) ==
  \/ UNCHANGED late
  \/ /\ "late" \in Faults /\ pc[a] \in {"cleared", "waved"}
     /\ late' = late \cup {<<a, StoryOf[job[a]]>>}

\* The agent waits no longer for the answer to its claim.
GiveUp(a) ==
  /\ "lost_answer" \in Faults /\ pc[a] \in {"offered", "cleared", "waved"}
  /\ Idle(a) /\ Orphaned(a)
  /\ UNCHANGED <<row, inserting, ghosts, shipped, unguarded>>

\* The rest of a claim request whose agent may have asked for another meanwhile.
LateClaim(q) ==
  /\ q \in late
  /\ late' = late \ {q}
  /\ \/ \E k \in Items : Claims(k, q[2], q[1]) /\ unguarded' = unguarded \cup {k}
     \/ NoClaim(q[2]) /\ UNCHANGED <<row, unguarded>>
  /\ UNCHANGED <<inserting, fleet, shipped>>

\* run_sdlc_phases gets as far as its heartbeat thread.
StartPhases(a) ==
  /\ pc[a] = "starting" /\ Goto(a, "working")
  /\ UNCHANGED <<row, inserting, late, job, carried, ghosts, shipped, unguarded>>

\* A heartbeat thread of a run or a ghost; the row may be claimed by anyone.
Beat(a, i) ==
  /\ <<a, i>> \in ghosts \/ (pc[a] = "working" /\ job[a] = i)
  /\ Is(i, {"claimed"})
  /\ Beaten(i)
  /\ UNCHANGED <<inserting, late, fleet, shipped, unguarded>>

\* The watchdog of a thread sees no output for twice the phase's time: it fails
\* the row, if the call arrives, and ends the thread.
GhostStalls(a, i) ==
  /\ <<a, i>> \in ghosts
  /\ Failed(i)
  /\ ghosts' = ghosts \ {<<a, i>>}
  /\ UNCHANGED <<inserting, late, pc, job, carried, shipped, unguarded>>

\* The run succeeds and the completion is accepted or refused; pr_number stays.
Complete(a) ==
  /\ pc[a] = "working"
  /\ \/ Is(job[a], {"claimed", "pending", "in_review"}) /\ SetStatus(job[a], "completed")
     \/ UNCHANGED row   \* 409, lost, or blocked by the adversarial review
  /\ Idle(a)
  /\ UNCHANGED <<inserting, late, ghosts, shipped, unguarded>>

\* The rows POST /dispatch/fail/{story} or /release/{story} of an agent may mean.
Meant(a) == RowsOf(StoryOf[job[a]])

\* _report_fail: the row is failed, unless the story is in several repos; the
\* worker goes on to the retry, or the call raises, or the failure is not to be
\* retried (422, 429, less than 30 s, a class of NEVER_RETRY_CLASSES).
ReportFail(a) ==
  /\ pc[a] \in {"starting", "working"}
  /\ IF Cardinality(Meant(a)) = 1 THEN \E i \in Meant(a) : Failed(i) ELSE UNCHANGED row
  /\ \/ Goto(a, "retrying") /\ UNCHANGED <<job, carried>>
     \/ Idle(a)
  /\ Haunt(a)
  /\ UNCHANGED <<inserting, late, shipped, unguarded>>

\* The auto-retry enqueues the item with the next number, whatever the answer to
\* the fail was; 409 and errors are only printed.
Retry(a) ==
  /\ pc[a] = "retrying"
  /\ \/ ~OutOfRetries(a) /\ EnqueueCheck(job[a], carried[a] + 1)
     \/ UNCHANGED <<row, inserting>>
  /\ Idle(a)
  /\ UNCHANGED <<late, ghosts, shipped, unguarded>>

\* Rate limited: /release names the story; only claimed rows change.
Release(a) ==
  /\ pc[a] \in {"starting", "working"}
  /\ Unclaim({i \in Meant(a) : Is(i, {"claimed"})})
  /\ Idle(a) /\ Haunt(a)
  /\ UNCHANGED <<inserting, late, shipped>>

\* A question: _post_needs_info raises before it posts, and the poller leaves
\* the claim for the operator.
AskInVain(a) ==
  /\ pc[a] = "working"
  /\ Idle(a) /\ Haunt(a)
  /\ UNCHANGED <<row, inserting, late, shipped, unguarded>>

\* The agent's process dies and comes back with an empty local queue.  A claim
\* request it made may still be served.
Restart(a) ==
  /\ "restart" \in Faults
  /\ pc[a] /= "idle" \/ \E i \in Items : <<a, i>> \in ghosts
  /\ Idle(a) /\ Orphaned(a)
  /\ ghosts' = {g \in ghosts : g[1] /= a}
  /\ UNCHANGED <<row, inserting, shipped, unguarded>>

-----------------------------------------------------------------------------
ByConsole ==
  \/ \E i \in Items : Enqueue(i) \/ BeatAges(i) \/ Cancel(i) \/ Pause(i)
                      \/ Review(i) \/ CompleteByHand(i)
  \/ \E i \in Items : RecoverNeverStarted(i) \/ RecoverSilent(i) \/ RecoverDied(i)
  \/ \E i \in Items, a \in Agents : Reclaim(i, a)
  \/ \E s \in Stories : ForceRelease(s) \/ NeedsInfo(s) \/ Answer(s)
  \/ \E e \in inserting : EnqueueReplace(e)
  \/ \E q \in late : LateClaim(q)

ByAgent(a) ==
  \/ \E i \in Items : GetNext(a, i) \/ Beat(a, i) \/ GhostStalls(a, i)
  \/ CheckClaims(a) \/ Claim(a) \/ ClaimRefused(a) \/ GiveUp(a) \/ StartPhases(a)
  \/ Complete(a) \/ ReportFail(a) \/ Retry(a) \/ Release(a) \/ AskInVain(a) \/ Restart(a)

Next == ByConsole \/ \E a \in Agents : ByAgent(a)
Spec == Init /\ [][Next]_vars

\* A run ends: every phase has a time limit, and the retry's call too.
RunEnds(a) == Complete(a) \/ ReportFail(a) \/ Release(a) \/ AskInVain(a)

\* The recovery loop runs every 60 s whatever happens; threads and runs go on; time
\* passes.  The agents need not poll, and may crash again and again.
FairSpec ==
  /\ Spec
  /\ \A i \in Items : /\ WF_vars(RecoverNeverStarted(i)) /\ WF_vars(RecoverSilent(i))
                      /\ WF_vars(RecoverDied(i)) /\ WF_vars(BeatAges(i))
  /\ \A a \in Agents : WF_vars(StartPhases(a)) /\ WF_vars(RunEnds(a))
  /\ \A a \in Agents, i \in Items : WF_vars(GhostStalls(a, i))

-----------------------------------------------------------------------------
\* Every variable has its type; the number in a retry's tag stays within the cap.
TypeOK ==
  /\ row \in [Items -> Rows]
  /\ inserting \subseteq Items \X (0..MaxRetries)
  /\ late \subseteq Agents \X Stories
  /\ pc \in [Agents -> Places]
  /\ job \in [Agents -> Items \cup {None}]
  /\ \A a \in Agents : pc[a] = "idle" <=> job[a] = None
  /\ carried \in [Agents -> 0..MaxRetries]
  /\ ghosts \subseteq Agents \X Items
  /\ shipped \subseteq Stories /\ unguarded \subseteq Items

\* An agent has one claim at a time of those that the check let it make and whose
\* answer it waited for, through crashes, lost answers, releases and its other
\* requests: the check and the claim are two transactions, and has_active_claim asks
\* the table, not the agent.  A second claim comes about when the check raises, or
\* when a request is served after its agent gave it up.
OneClaimEach ==
  \A i, k \in Items :
    /\ Is(i, {"claimed"}) /\ Is(k, {"claimed"}) /\ row[i].agent = row[k].agent
    /\ i \notin unguarded /\ k \notin unguarded
    => i = k

\* No agent works on an item whose dependencies were not completed with a pull
\* request, whatever was cancelled, released or completed since it was offered.
WorkAfterDeps ==
  \A a \in Agents : pc[a] /= "idle" => DependsOn[job[a]] \subseteq shipped

\* The third tier of recover_stale_claims never finds a row: whatever touches a
\* claimed row is a heartbeat.
NoSlowTier == \A i \in Items : ~SlowTierMatches(i)

\* A completed or cancelled row stays as it is until an enqueue replaces it: the
\* late answers of agents, ghosts, reclaims and the recovery loop do not move it.
TerminalLeftByEnqueue ==
  [][\A i \in Items : Is(i, {"completed", "cancelled"}) /\ row'[i].status /= row[i].status
       => \E n \in 0..MaxRetries : <<i, n>> \in inserting \ inserting']_vars

\* A claim whose agent died, or gave up in silence, is released or ends: some
\* tier of the recovery finds it, or the ghost's watchdog.
WorkedOn(i) == \E a \in Agents :
  pc[a] \in {"starting", "working"} /\ job[a] = i /\ row[i].agent = a
DeadClaimReturns ==
  \A i \in Items : (Is(i, {"claimed"}) /\ ~WorkedOn(i)) ~> ~Is(i, {"claimed"})
=============================================================================
