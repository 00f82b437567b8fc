------------------------------ MODULE PollerV2 ------------------------------
(***************************************************************************)
(* The v2 agents, composed with the queue of DispatchV2.  On each VM a     *)
(* poller claims a job, runs the SDK and reports; a heartbeat thread       *)
(* renews the lease, a watchdog thread kills a run that hangs or whose     *)
(* lease is gone, and SIGTERM, ExecStop and crashes end the process        *)
(* anywhere in between.  Every request to the console is the action of     *)
(* DispatchV2 that serves it.  A VM of Orchestrated runs with              *)
(* DISPATCH_V2_ORCHESTRATION=1: phase by phase, without a watchdog.        *)
(***************************************************************************)
EXTENDS DispatchV2

CONSTANTS
  Agents,         \* VMs, each with one poller process
  Orchestrated,   \* those that go through run_orchestrated
  Phases,         \* phases run_orchestrated goes through
  WatchdogClass,  \* failure class of a run the watchdog killed
  Mishaps         \* which MishapKinds occur

\* systemctl stop or restart; the process is killed; a request that is answered
\* 5xx or raises; no heartbeat gets through for 15 minutes; MIN_WORKER_VERSION is
\* raised; an SDK run exceeds a limit of the watchdog.
MishapKinds == {"stop", "crash", "http", "outage", "upgrade", "hang"}

ASSUME AgentsOK ==
  /\ Orchestrated \subseteq Agents
  /\ Phases \in Nat \ {0}
  /\ WatchdogClass \in Classes
  /\ Mishaps \subseteq MishapKinds

VARIABLE agent   \* per VM: the poller's locals and globals, and its files

pollerVars == <<vars, agent>>

-----------------------------------------------------------------------------
\* A claim is what the poller remembers of its lease: _ActiveClaim.
Claims == [job : Jobs, token : 1..MaxLeases]
NoClaim == [job |-> "none", token |-> 0]

AgentStates == [
  pc       : {"idle", "claimed", "ready", "between", "running", "report", "posted", "down"},
  claim    : Claims \cup {NoClaim},
  file     : Claims \cup {NoClaim},             \* active_lease.json
  sdk      : {"none", "run", "ok", "failed"},   \* the SDK process
  beat     : {"off", "on", "dead"},             \* heartbeat thread
  told     : BOOLEAN,                           \* lease_lost_event, claim._lease_lost
  watch    : {"off", "on", "tripped"},          \* this run's watchdog
  fired    : BOOLEAN,                           \* watchdog.fired
  reaping  : SUBSET Claims,                     \* watchdogs that have yet to release
  phase    : 0..Phases,
  result   : {"none", "ok", "failed", "watchdog"},
  stopping : BOOLEAN,                           \* ExecStop has run, SIGTERM is next
  outdated : BOOLEAN ]                          \* every request is answered 426

\* A process that has been started, with the lease file an earlier one left.
Started(pc, file) ==
  [pc |-> pc, claim |-> NoClaim, file |-> file, sdk |-> "none", beat |-> "off",
   told |-> FALSE, watch |-> "off", fired |-> FALSE, reaping |-> {}, phase |-> 0,
   result |-> "none", stopping |-> FALSE, outdated |-> FALSE]

PollerInit == Init /\ agent = [v \in Agents |-> Started("idle", NoClaim)]

\* What a request with claim c meets at the console.
Current(c) == c # NoClaim /\ Fenced(c.job, c.token)
Job(v) == agent[v].claim.job
Token(v) == agent[v].claim.token
Holds(v) == Current(agent[v].claim)
Up(v) == agent[v].pc # "down"
At(v, pc) == agent[v].pc = pc

\* Mutant of Exit: the heartbeat thread is no daemon thread and outlives main.
ExitBeating(v, file) ==
  agent' = [agent EXCEPT ![v] = [Started("down", file) EXCEPT
              !.claim = agent[v].claim, !.beat = agent[v].beat]]

\* The process ends, its threads and its SDK with it (KillMode=mixed).
Exit(v, file) == agent' = [agent EXCEPT ![v] = Started("down", file)]

-----------------------------------------------------------------------------
\* The main thread: poll_loop and _run_sdk.

\* claim_next is answered with a job.
PollClaim(v) ==
  /\ At(v, "idle") /\ ~agent[v].outdated
  /\ \E j \in Jobs :
       /\ ClaimNext(j)
       /\ agent' = [agent EXCEPT ![v].pc = "claimed",
                                 ![v].claim = [job |-> j, token |-> newest[j] + 1]]

\* The answer never arrives; poll_loop logs the exception and polls again.
ClaimAnswerLost(v) ==
  /\ "http" \in Mishaps
  /\ At(v, "idle") /\ ~agent[v].outdated
  /\ \E j \in Jobs : ClaimNext(j)
  /\ UNCHANGED agent

\* _write_active_lease and the references the signal handler reads.
Register(v) ==
  /\ At(v, "claimed")
  /\ agent' = [agent EXCEPT ![v].pc = "ready", ![v].file = agent[v].claim]
  /\ UNCHANGED vars

\* The workspace of a rebase prompt, or the branch of an orchestrated run,
\* cannot be prepared: 'failed' is reported without running the SDK.
PrepareFails(v) ==
  /\ At(v, "ready")
  /\ agent' = [agent EXCEPT ![v].pc = "report", ![v].result = "failed"]
  /\ UNCHANGED vars

\* _run_sdk starts the SDK, then the heartbeat and the watchdog thread.
Launch(v) ==
  /\ At(v, "ready") /\ v \notin Orchestrated
  /\ agent' = [agent EXCEPT ![v].pc = "running", ![v].sdk = "run",
                            ![v].beat = "on", ![v].watch = "on"]
  /\ UNCHANGED vars

\* run_orchestrated starts its heartbeat thread and goes to its first phase.
OpenPhases(v) ==
  /\ At(v, "ready") /\ v \in Orchestrated
  /\ agent' = [agent EXCEPT ![v].pc = "between", ![v].beat = "on", ![v].phase = 1]
  /\ UNCHANGED vars

\* 'phase_started' is refused in every state, and that is ignored.
RunPhase(v) ==
  /\ At(v, "between") /\ ~agent[v].told /\ ~agent[v].outdated
  /\ agent' = [agent EXCEPT ![v].pc = "running", ![v].sdk = "run"]
  /\ UNCHANGED vars

\* The loop is left without an event if the heartbeat thread has seen a refusal.
LeavePhases(v) ==
  /\ At(v, "between") /\ agent[v].told
  /\ agent' = [agent EXCEPT ![v].pc = "posted", ![v].beat = "off"]
  /\ UNCHANGED vars

\* The SDK exits by itself, or is killed after two hours.
SdkEnds(v) ==
  /\ agent[v].sdk = "run"
  /\ \E code \in {"ok", "failed"} : agent' = [agent EXCEPT ![v].sdk = code]
  /\ UNCHANGED vars

\* communicate() returns.  A watchdog that has fired overrules the exit code; one
\* that has only decided to goes on with its claim, since stop() does not wait.
Collect(v) ==
  /\ At(v, "running") /\ agent[v].sdk # "run" /\ v \notin Orchestrated
  /\ agent' = [agent EXCEPT
       ![v].pc = "report", ![v].sdk = "none", ![v].beat = "off", ![v].watch = "off",
       ![v].result = IF agent[v].fired THEN "watchdog" ELSE agent[v].sdk,
       ![v].reaping = IF agent[v].watch = "tripped" THEN @ \cup {agent[v].claim} ELSE @]
  /\ UNCHANGED vars

\* Mutant of PhaseEnds: one phase too many.
PhaseEndsLate(v) ==
  /\ At(v, "running") /\ agent[v].sdk # "run" /\ v \in Orchestrated
  /\ LET more == agent[v].sdk = "ok" /\ agent[v].phase <= Phases IN
       agent' = [agent EXCEPT
         ![v].pc = IF more THEN "between" ELSE "report",
         ![v].sdk = "none",
         ![v].phase = IF more THEN @ + 1 ELSE @,
         ![v].result = IF more THEN "none" ELSE agent[v].sdk]
  /\ UNCHANGED vars

PhaseEnds(v) ==
  /\ At(v, "running") /\ agent[v].sdk # "run" /\ v \in Orchestrated
  /\ LET more == agent[v].sdk = "ok" /\ agent[v].phase < Phases IN
       agent' = [agent EXCEPT
         ![v].pc = IF more THEN "between" ELSE "report",
         ![v].sdk = "none",
         ![v].phase = IF more THEN @ + 1 ELSE @,
         ![v].result = IF more THEN "none" ELSE agent[v].sdk]
  /\ UNCHANGED vars

-----------------------------------------------------------------------------
\* The report.  A refusal (409, 422) or an answer 5xx is logged and that is all.

Posted(v) == agent' = [agent EXCEPT ![v].pc = "posted", ![v].beat = "off"]

Unserved(v, e) ==
  /\ ~Holds(v) \/ e \notin TransitionAllowed(state[Job(v)]) \/ "http" \in Mishaps
  /\ UNCHANGED vars

\* Mutant of SubmitServed: neither the token nor the state is checked.
SubmitUnchecked(v) ==
  /\ Append(Job(v), "submitted")
  /\ DropLease(Job(v))
  /\ linked' = IF v \in Orchestrated THEN linked ELSE linked \cup {Job(v)}
  /\ UNCHANGED <<policy, decided>>

\* A bare run submits the pull request it has found, an orchestrated one none.
SubmitServed(v) ==
  /\ Submit(Job(v), Token(v))
  /\ linked' = IF v \in Orchestrated THEN linked ELSE linked \cup {Job(v)}

FailureServed(v) ==
  \E c \in Classes :
    /\ (agent[v].result = "watchdog") <=> (c = WatchdogClass)
    /\ ReportFailure(Job(v), Token(v), c)

Reporting(v) == At(v, "report") /\ ~agent[v].outdated

PostSubmitted(v) ==
  /\ Reporting(v) /\ agent[v].result = "ok"
  /\ SubmitServed(v) \/ Unserved(v, "submitted")
  /\ Posted(v)

\* No pull request is found in the output or at GitHub: 'needs_info' with a
\* "question", where the service wants a "question_text", hence 422.
PostMissingPr(v) ==
  /\ Reporting(v) /\ agent[v].result = "ok" /\ v \notin Orchestrated
  /\ Posted(v)
  /\ UNCHANGED vars

PostFailed(v) ==
  /\ Reporting(v) /\ agent[v].result \in {"failed", "watchdog"}
  /\ FailureServed(v) \/ Unserved(v, "failed")
  /\ Posted(v)

\* The POST raises, having reached the console or not.  poll_loop does not catch
\* it, so the process dies; run_orchestrated's caller does, and reports 'failed';
\* _emit_terminal_failed swallows it.
PostRaises(v) ==
  /\ "http" \in Mishaps
  /\ At(v, "report")
  /\ IF agent[v].result = "ok" THEN SubmitServed(v) \/ UNCHANGED vars
                               ELSE FailureServed(v) \/ UNCHANGED vars
  /\ IF v \notin Orchestrated THEN Exit(v, agent[v].file)
     ELSE IF agent[v].result = "ok" THEN agent' = [agent EXCEPT ![v].result = "failed"]
     ELSE Posted(v)

\* 426 on a request of the main thread: sys.exit(2).
TurnedAway(v) ==
  /\ agent[v].pc \in {"idle", "between", "report"} /\ agent[v].outdated
  /\ Exit(v, agent[v].file)
  /\ UNCHANGED vars

\* _clear_active_lease and the signal handler's references, then the next claim.
ClearClaim(v) ==
  /\ At(v, "posted")
  /\ agent' = [agent EXCEPT ![v] =
       [Started("idle", NoClaim) EXCEPT
          !.reaping = agent[v].reaping, !.stopping = agent[v].stopping,
          !.outdated = agent[v].outdated]]
  /\ UNCHANGED vars

-----------------------------------------------------------------------------
\* The heartbeat threads.

\* Mutant of Beats: proc.poll() is tested the wrong way round.
BeatsWhenDone(v) == agent[v].beat = "on" /\ (v \in Orchestrated \/ agent[v].sdk # "run")

\* A thread of _run_sdk ends with the SDK process.
Beats(v) == agent[v].beat = "on" /\ (v \in Orchestrated \/ agent[v].sdk = "run")

BeatRenews(v) ==
  /\ Beats(v) /\ ~agent[v].outdated
  /\ Heartbeat(Job(v), Token(v))
  /\ UNCHANGED agent

\* 409, and any other status but 200 as well.  An exception only skips a beat.
BeatRefused(v) ==
  /\ Beats(v) /\ ~agent[v].outdated
  /\ ~Holds(v) \/ "http" \in Mishaps
  /\ agent' = [agent EXCEPT ![v].told = TRUE, ![v].beat = "off"]
  /\ UNCHANGED vars

\* 426: SystemExit ends this thread only, and tells nobody.
BeatTurnedAway(v) ==
  /\ Beats(v) /\ agent[v].outdated
  /\ agent' = [agent EXCEPT ![v].beat = "dead"]
  /\ UNCHANGED vars

-----------------------------------------------------------------------------
\* The watchdog threads.

\* Mutant of Trips: lease_lost_event is not consulted.
TripsOnLimits(v) ==
  /\ agent[v].watch = "on" /\ agent[v].sdk = "run"
  /\ "hang" \in Mishaps

\* poll() says the SDK runs; the lease is lost, or a limit is exceeded.
Trips(v) ==
  /\ agent[v].watch = "on" /\ agent[v].sdk = "run"
  /\ agent[v].told \/ "hang" \in Mishaps

Trip(v) ==
  /\ Trips(v)
  /\ agent' = [agent EXCEPT ![v].watch = "tripped"]
  /\ UNCHANGED vars

\* _fire: the flag first, then the SDK's process group if it still runs.
Fire(v) ==
  /\ agent[v].watch = "tripped"
  /\ agent' = [agent EXCEPT
       ![v].watch = "off", ![v].fired = TRUE,
       ![v].sdk = IF @ = "run" THEN "failed" ELSE @,
       ![v].reaping = @ \cup {agent[v].claim}]
  /\ UNCHANGED vars

\* Mutant of Reap: it releases what the poller's globals name by now.
ReapCurrent(v) ==
  \E c \in agent[v].reaping :
    /\ \/ Holds(v) /\ ~agent[v].outdated /\ Release(Job(v), Token(v))
       \/ (agent[v].outdated \/ ~Holds(v) \/ "http" \in Mishaps) /\ UNCHANGED vars
    /\ agent' = [agent EXCEPT ![v].reaping = @ \ {c},
                              ![v].file = IF agent[v].outdated THEN @ ELSE NoClaim]

\* After the grace period: release, then clear the lease file, whichever claim
\* the file is about by now.  426 ends the thread before it clears.
Reap(v) ==
  \E c \in agent[v].reaping :
    /\ \/ ~agent[v].outdated /\ Release(c.job, c.token)
       \/ (agent[v].outdated \/ ~Current(c) \/ "http" \in Mishaps) /\ UNCHANGED vars
    /\ agent' = [agent EXCEPT ![v].reaping = @ \ {c},
                              ![v].file = IF agent[v].outdated THEN @ ELSE NoClaim]

-----------------------------------------------------------------------------
\* The end of a process, and its start.

\* A claim whose references the signal handler finds.
Registered(v) == agent[v].pc \in {"ready", "between", "running", "report", "posted"}

\* ExecStop: drain_leases.py releases what the lease file names, while the poller
\* still runs, and deletes the file.
Drain(v) ==
  /\ "stop" \in Mishaps
  /\ Up(v) /\ ~agent[v].stopping
  /\ LET c == agent[v].file IN
       \/ Current(c) /\ ~agent[v].outdated /\ Release(c.job, c.token)
       \/ (~Current(c) \/ agent[v].outdated \/ "http" \in Mishaps) /\ UNCHANGED vars
  /\ agent' = [agent EXCEPT ![v].stopping = TRUE, ![v].file = NoClaim]

\* _handle_sigterm, between any two steps of the main thread.
Sigterm(v) ==
  /\ Up(v) /\ agent[v].stopping
  /\ \/ Registered(v) /\ Holds(v) /\ ~agent[v].outdated /\ Release(Job(v), Token(v))
     \/ (~Registered(v) \/ ~Holds(v) \/ agent[v].outdated \/ "http" \in Mishaps)
          /\ UNCHANGED vars
  /\ Exit(v, IF agent[v].outdated THEN agent[v].file ELSE NoClaim)

Crash(v) ==
  /\ "crash" \in Mishaps
  /\ Up(v)
  /\ Exit(v, agent[v].file)
  /\ UNCHANGED vars

\* The new process does not read the file.
Restart(v) ==
  /\ At(v, "down")
  /\ agent' = [agent EXCEPT ![v] = Started("idle", agent[v].file)]
  /\ UNCHANGED vars

\* MIN_WORKER_VERSION is raised above the version of the running pollers.
RaiseVersion ==
  /\ "upgrade" \in Mishaps
  /\ \E v \in Agents : Up(v) /\ ~agent[v].outdated
  /\ agent' = [v \in Agents |-> [agent[v] EXCEPT !.outdated = Up(v)]]
  /\ UNCHANGED vars

-----------------------------------------------------------------------------
\* The 15 minutes of a lease are longer than the interval of the heartbeats, the
\* preparation of a workspace and the report: it expires when nobody is at these,
\* or none of their requests gets through.
Renewed(j) == \E v \in Agents :
  /\ agent[v].claim = [job |-> j, token |-> lease[j].token]
  /\ \/ agent[v].pc \in {"claimed", "ready", "between", "report"}
     \/ Beats(v)
     \/ At(v, "running") /\ agent[v].sdk # "run"

LeaseExpires(j) ==
  /\ ~Renewed(j) \/ "outage" \in Mishaps
  /\ Expire(j)
  /\ UNCHANGED agent

\* The console's watchers and the policy, and what a story needs from managers.
QueueStep ==
  /\ \/ ConsoleStep
     \/ \E j \in Jobs :
          Enqueue(j) \/ \E outcome \in {"accepted", "rejected"} : ReviewOutcome(j, outcome)
  /\ UNCHANGED agent

MainStep(v) ==
  \/ PollClaim(v) \/ ClaimAnswerLost(v) \/ Register(v) \/ PrepareFails(v) \/ Launch(v)
  \/ OpenPhases(v) \/ RunPhase(v) \/ LeavePhases(v) \/ Collect(v) \/ PhaseEnds(v)
  \/ PostSubmitted(v) \/ PostMissingPr(v) \/ PostFailed(v) \/ PostRaises(v)
  \/ TurnedAway(v) \/ ClearClaim(v)

ThreadStep(v) ==
  BeatRenews(v) \/ BeatRefused(v) \/ BeatTurnedAway(v) \/ Trip(v) \/ Fire(v) \/ Reap(v)

SystemStep(v) == SdkEnds(v) \/ Drain(v) \/ Sigterm(v) \/ Crash(v) \/ Restart(v)

PollerNext ==
  \/ \E v \in Agents : MainStep(v) \/ ThreadStep(v) \/ SystemStep(v)
  \/ \E j \in Jobs : LeaseExpires(j)
  \/ QueueStep
  \/ RaiseVersion

PollerSpec == PollerInit /\ [][PollerNext]_pollerVars

\* What is promised besides the steps of the queue: threads are scheduled, beats and
\* watchdog ticks come, systemd follows ExecStop with SIGTERM, the main thread goes on
\* with what it has claimed.  Not that an SDK ever ends, nor that a stopped
\* poller is started again.
PollerFairness ==
  /\ \A j \in Jobs : WF_pollerVars(LeaseExpires(j))
  /\ WF_pollerVars(SweepExpired /\ UNCHANGED agent)
  /\ \A j \in Jobs : \A d \in Decisions : WF_pollerVars(Handle(j, d) /\ UNCHANGED agent)
  /\ \A v \in Agents :
       /\ WF_pollerVars(BeatRenews(v) \/ BeatRefused(v) \/ BeatTurnedAway(v))
       /\ WF_pollerVars(agent[v].told /\ Trip(v))
       /\ WF_pollerVars(Fire(v))
       /\ WF_pollerVars(Reap(v))
       /\ WF_pollerVars(Sigterm(v))
       /\ WF_pollerVars(~At(v, "idle") /\ MainStep(v))

FairPollerSpec == PollerSpec /\ PollerFairness

-----------------------------------------------------------------------------
PollerTypeOK == agent \in [Agents -> AgentStates]

\* An SDK works under the lease it was started for, unless its heartbeat thread is gone
\* (refused, or ended by a 426), its VM is being stopped or its watchdog is about to
\* kill it: only an outage as long as a lease lets the console take it away unseen.
Unaware(v) ==
  agent[v].beat = "on" /\ ~agent[v].stopping /\ agent[v].watch # "tripped"
RunsHeld == "outage" \notin Mishaps =>
  \A v \in Agents : agent[v].sdk = "run" /\ Unaware(v) => Holds(v)

\* Hence two VMs work on one job at a time only if one of them is in that case.
OneRunPerJob == "outage" \notin Mishaps =>
  \A v, w \in Agents :
    v # w /\ agent[v].sdk = "run" /\ agent[w].sdk = "run" /\ Job(v) = Job(w) =>
      ~Unaware(v) \/ ~Unaware(w)

\* A bare SDK run whose lease is gone is killed, though nothing but its heartbeat
\* can find out; by itself it may go on for hours.
LostRunStops == \A v \in Agents \ Orchestrated :
  (agent[v].sdk = "run" /\ ~Holds(v)) ~> (agent[v].sdk # "run" \/ agent[v].beat = "dead")

\* A job comes back from whatever becomes of its agent: if no SDK runs under its
\* lease, it leaves 'leased' or is being run again.
RunUnderLease(j) == \E v \in Agents :
  agent[v].sdk = "run" /\ Holds(v) /\ Job(v) = j
JobComesBack == \A j \in Jobs :
  (state[j] = "leased" /\ ~RunUnderLease(j)) ~> (state[j] # "leased" \/ RunUnderLease(j))

=============================================================================
