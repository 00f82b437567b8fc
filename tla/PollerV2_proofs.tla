--------------------------- MODULE PollerV2_proofs ---------------------------
(***************************************************************************)
(* The v2 agents implement the queue, and their SDKs work under the lease  *)
(* they were started for, whatever the number of VMs, jobs and leases.     *)
(***************************************************************************)
EXTENDS PollerV2, DispatchV2_proofs

-----------------------------------------------------------------------------
\* The parts of one agent fit together.
Coherent(v) ==
  /\ agent[v].pc \notin {"idle", "down"} => agent[v].claim \in Claims
  /\ agent[v].pc = "between" => v \in Orchestrated
  /\ agent[v].beat = "on" => agent[v].pc \in {"between", "running", "report"}
  /\ agent[v].sdk = "run" => agent[v].pc = "running"
  /\ agent[v].watch # "off" => agent[v].pc = "running" /\ v \notin Orchestrated

Fitting == PollerTypeOK /\ \A v \in Agents : Coherent(v)

\* A step of one agent has to be looked at for that agent only.
LEMMA OneAgent ==
  ASSUME Fitting, NEW v \in Agents, NEW r \in AgentStates,
         agent' = [agent EXCEPT ![v] = r], Coherent(v)'
  PROVE  Fitting'
<1>1. PollerTypeOK'  BY DEF Fitting, PollerTypeOK
<1>2. \A w \in Agents \ {v} : agent'[w] = agent[w]  BY DEF Fitting, PollerTypeOK
<1>3. \A w \in Agents \ {v} : Coherent(w)'  BY <1>2 DEF Fitting, Coherent
<1> QED BY <1>1, <1>3 DEF Fitting

LEMMA NoClaimIsNone == NoClaim \notin Claims
BY ConstantsOK DEF NoClaim, Claims

LEMMA StartedFits ==
  ASSUME NEW pc \in {"idle", "down"}, NEW file \in Claims \cup {NoClaim}
  PROVE  Started(pc, file) \in AgentStates
BY AgentsOK DEF Started, AgentStates

\* An agent that begins anew, with whatever threads of old claims.
LEMMA BeginsAnew ==
  ASSUME Fitting, NEW v \in Agents, NEW pc \in {"idle", "down"},
         NEW file \in Claims \cup {NoClaim}, NEW reaping \in SUBSET Claims,
         NEW stopping \in BOOLEAN, NEW outdated \in BOOLEAN,
         agent' = [agent EXCEPT ![v] = [Started(pc, file) EXCEPT
                     !.reaping = reaping, !.stopping = stopping, !.outdated = outdated]]
  PROVE  Fitting'
<1> DEFINE r == [Started(pc, file) EXCEPT
                   !.reaping = reaping, !.stopping = stopping, !.outdated = outdated]
<1>1. r \in AgentStates
  <2> DEFINE s == Started(pc, file)
  <2>1. s \in AgentStates  BY StartedFits
  <2> HIDE DEF s
  <2>2. [s EXCEPT !.reaping = reaping, !.stopping = stopping, !.outdated = outdated]
          \in AgentStates
    BY <2>1 DEF AgentStates
  <2> QED BY <2>2 DEF s
<1>2. agent'[v] = r  BY DEF Fitting, PollerTypeOK
<1>3. r.pc = pc /\ r.claim = NoClaim /\ r.beat = "off" /\ r.sdk = "none" /\ r.watch = "off"
      /\ r.reaping = reaping
  BY DEF Started
<1> HIDE DEF r
<1>4. Coherent(v)'  BY <1>2, <1>3, NoClaimIsNone DEF Coherent
<1> QED BY <1>1, <1>4, OneAgent DEF r

LEMMA ExitFits ==
  ASSUME Fitting, NEW v \in Agents, NEW file \in Claims \cup {NoClaim}, Exit(v, file)
  PROVE  Fitting'
<1>1. Started("down", file) \in AgentStates  BY StartedFits
<1>2. agent'[v] = Started("down", file)  BY DEF Fitting, PollerTypeOK, Exit
<1>3. Coherent(v)'  BY <1>2, NoClaimIsNone DEF Coherent, Started
<1> QED BY <1>1, <1>3, OneAgent DEF Exit

-----------------------------------------------------------------------------
\* The steps of an agent keep its parts fitting.

LEMMA MainFits ==
  ASSUME Fitting, NEW v \in Agents, MainStep(v), TypeOK, TypeOK'
  PROVE  Fitting'
<1> USE DEF Fitting, PollerTypeOK, Coherent
<1>0. agent[v] \in AgentStates /\ Coherent(v)  OBVIOUS
<1>1. CASE PollClaim(v)
  <2>1. PICK j \in Jobs :
          /\ newest'[j] = newest[j] + 1
          /\ agent' = [agent EXCEPT ![v].pc = "claimed",
                         ![v].claim = [job |-> j, token |-> newest[j] + 1]]
    BY <1>1 DEF PollClaim, ClaimNext, Grant, TypeOK
  <2>2. [job |-> j, token |-> newest[j] + 1] \in Claims
    BY <2>1, ConstantsOK DEF TypeOK, Claims
  <2> DEFINE c == [job |-> j, token |-> newest[j] + 1]
  <2>3. agent' = [agent EXCEPT ![v].pc = "claimed", ![v].claim = c] /\ c \in Claims
    BY <2>1, <2>2
  <2> HIDE DEF c
  <2>4. At(v, "idle")  BY <1>1 DEF PollClaim
  <2>5. [agent[v] EXCEPT !.pc = "claimed", !.claim = c] \in AgentStates
    BY <1>0, <2>3 DEF AgentStates
  <2>6. agent'[v] = [agent[v] EXCEPT !.pc = "claimed", !.claim = c]  BY <2>3
  <2>8. Coherent(v)'  BY <1>0, <2>3, <2>4, <2>6 DEF At
  <2> QED BY <2>3, <2>5, <2>8, OneAgent
<1>2. CASE ClaimAnswerLost(v)
  BY <1>2 DEF ClaimAnswerLost
<1>3. CASE Register(v)
  BY <1>0, <1>3 DEF Register, At, AgentStates
<1>4. CASE PrepareFails(v)
  BY <1>0, <1>4 DEF PrepareFails, At, AgentStates
<1>5. CASE Launch(v)
  BY <1>0, <1>5 DEF Launch, At, AgentStates
<1>6. CASE OpenPhases(v)
  BY <1>0, <1>6, AgentsOK DEF OpenPhases, At, AgentStates
<1>7. CASE RunPhase(v)
  BY <1>0, <1>7 DEF RunPhase, At, AgentStates
<1>8. CASE LeavePhases(v)
  <2>1. agent' = [agent EXCEPT ![v] = [agent[v] EXCEPT !.pc = "posted", !.beat = "off"]]
    BY <1>8 DEF LeavePhases
  <2>2. [agent[v] EXCEPT !.pc = "posted", !.beat = "off"] \in AgentStates
    BY <1>0 DEF AgentStates
  <2>3. Coherent(v)'  BY <1>0, <1>8, <2>1 DEF LeavePhases, At, AgentStates
  <2> QED BY <2>1, <2>2, <2>3, OneAgent
<1>9. CASE Collect(v)
  <2> DEFINE res == IF agent[v].fired THEN "watchdog" ELSE agent[v].sdk
             reap == IF agent[v].watch = "tripped" THEN agent[v].reaping \cup {agent[v].claim}
                                                  ELSE agent[v].reaping
             r == [agent[v] EXCEPT !.pc = "report", !.sdk = "none", !.beat = "off",
                     !.watch = "off", !.result = res, !.reaping = reap]
  <2>1. agent' = [agent EXCEPT ![v] = r]  BY <1>9 DEF Collect
  <2>2. res \in {"none", "ok", "failed", "watchdog"}  BY <1>0, <1>9 DEF Collect, AgentStates
  <2>3. reap \in SUBSET Claims
    BY <1>0, <1>9 DEF Collect, At, AgentStates
  <2>4. r \in AgentStates
    <3> HIDE DEF res, reap
    <3> QED BY <1>0, <2>2, <2>3 DEF AgentStates
  <2>5. Coherent(v)'
    <3>1. agent'[v].pc = "report" /\ agent'[v].claim = agent[v].claim
          /\ agent'[v].beat = "off" /\ agent'[v].sdk = "none" /\ agent'[v].watch = "off"
      <4> HIDE DEF res, reap
      <4> QED BY <1>0, <2>1 DEF AgentStates
    <3> QED BY <1>0, <1>9, <3>1 DEF Collect, At
  <2> HIDE DEF r
  <2> QED BY <2>1, <2>4, <2>5, OneAgent
<1>10. CASE PhaseEnds(v)
  <2> DEFINE more == agent[v].sdk = "ok" /\ agent[v].phase < Phases
             p == IF more THEN "between" ELSE "report"
             n == IF more THEN agent[v].phase + 1 ELSE agent[v].phase
             res == IF more THEN "none" ELSE agent[v].sdk
             r == [agent[v] EXCEPT !.pc = p, !.sdk = "none", !.phase = n, !.result = res]
  <2>1. agent' = [agent EXCEPT ![v] = r]  BY <1>10 DEF PhaseEnds
  <2>2. p \in {"between", "report"} /\ n \in 0..Phases
        /\ res \in {"none", "ok", "failed", "watchdog"}
    BY <1>0, <1>10, AgentsOK DEF PhaseEnds, AgentStates
  <2> HIDE DEF more, p, n, res
  <2>3. r \in AgentStates
    <3>1. n \in 0..Phases  BY <2>2
    <3> DEFINE q == [agent[v] EXCEPT !.phase = n]
    <3>2. q \in AgentStates  BY <1>0, <3>1 DEF AgentStates
    <3>3. r = [q EXCEPT !.pc = p, !.sdk = "none", !.result = res]  BY <1>0 DEF AgentStates
    <3> HIDE DEF q, r
    <3> QED BY <2>2, <3>2, <3>3 DEF AgentStates
  <2>4. Coherent(v)'
    BY <1>0, <1>10, <2>1, <2>2 DEF PhaseEnds, At, AgentStates
  <2> HIDE DEF r
  <2> QED BY <2>1, <2>3, <2>4, OneAgent
<1>11. CASE Posted(v) /\ At(v, "report")
  BY <1>0, <1>11 DEF Posted, At, AgentStates
<1>12. CASE PostSubmitted(v) \/ PostMissingPr(v) \/ PostFailed(v)
  BY <1>11, <1>12 DEF PostSubmitted, PostMissingPr, PostFailed, Reporting
<1>13. CASE PostRaises(v)
  <2>1. agent[v].file \in Claims \cup {NoClaim}  BY <1>0 DEF AgentStates
  <2>2. CASE Exit(v, agent[v].file)  BY <2>1, <2>2, ExitFits
  <2>3. CASE agent' = [agent EXCEPT ![v].result = "failed"]
    BY <1>0, <2>3 DEF AgentStates
  <2> QED BY <1>13, <1>11, <2>2, <2>3 DEF PostRaises
<1>14. CASE TurnedAway(v)
  <2>1. agent[v].file \in Claims \cup {NoClaim}  BY <1>0 DEF AgentStates
  <2> QED BY <1>14, <2>1, ExitFits DEF TurnedAway
<1>15. CASE ClearClaim(v)
  <2>1. /\ agent[v].reaping \in SUBSET Claims
        /\ agent[v].stopping \in BOOLEAN /\ agent[v].outdated \in BOOLEAN
    BY <1>0 DEF AgentStates
  <2> QED BY <1>15, <2>1, BeginsAnew DEF ClearClaim
<1> QED BY <1>1, <1>2, <1>3, <1>4, <1>5, <1>6, <1>7, <1>8, <1>9, <1>10, <1>12, <1>13,
           <1>14, <1>15 DEF MainStep


LEMMA ThreadFits ==
  ASSUME Fitting, NEW v \in Agents, ThreadStep(v)
  PROVE  Fitting'
<1> USE DEF Fitting, PollerTypeOK, Coherent
<1>0. agent[v] \in AgentStates /\ Coherent(v)  OBVIOUS
<1>1. CASE BeatRenews(v)
  BY <1>1 DEF BeatRenews
<1>2. CASE BeatRefused(v)
  <2>1. agent' = [agent EXCEPT ![v] = [agent[v] EXCEPT !.told = TRUE, !.beat = "off"]]
    BY <1>2 DEF BeatRefused
  <2>2. [agent[v] EXCEPT !.told = TRUE, !.beat = "off"] \in AgentStates
    BY <1>0 DEF AgentStates
  <2>3. Coherent(v)'  BY <1>0, <2>1 DEF AgentStates
  <2> QED BY <2>1, <2>2, <2>3, OneAgent
<1>3. CASE BeatTurnedAway(v)
  BY <1>0, <1>3 DEF BeatTurnedAway, AgentStates
<1>4. CASE Trip(v)
  BY <1>0, <1>4 DEF Trip, Trips, AgentStates
<1>5. CASE Fire(v)
  <2> DEFINE left == IF agent[v].sdk = "run" THEN "failed" ELSE agent[v].sdk
             reap == agent[v].reaping \cup {agent[v].claim}
             r == [agent[v] EXCEPT !.watch = "off", !.fired = TRUE, !.sdk = left,
                                   !.reaping = reap]
  <2>1. agent' = [agent EXCEPT ![v] = r]  BY <1>5 DEF Fire
  <2>2. left \in {"none", "ok", "failed"}  BY <1>0 DEF AgentStates
  <2>3. reap \in SUBSET Claims  BY <1>0, <1>5 DEF Fire, AgentStates
  <2> HIDE DEF left, reap
  <2>4. r \in AgentStates  BY <1>0, <2>2, <2>3 DEF AgentStates
  <2>5. Coherent(v)'  BY <1>0, <1>5, <2>1, <2>2 DEF Fire, AgentStates
  <2> HIDE DEF r
  <2> QED BY <2>1, <2>4, <2>5, OneAgent
<1>6. CASE Reap(v)
  <2>1. PICK c \in agent[v].reaping :
          agent' = [agent EXCEPT ![v].reaping = @ \ {c},
                                 ![v].file = IF agent[v].outdated THEN @ ELSE NoClaim]
    BY <1>6 DEF Reap
  <2> DEFINE reap == agent[v].reaping \ {c}
             file == IF agent[v].outdated THEN agent[v].file ELSE NoClaim
             r == [agent[v] EXCEPT !.reaping = reap, !.file = file]
  <2>2. agent' = [agent EXCEPT ![v] = r]  BY <2>1
  <2>3. reap \in SUBSET Claims /\ file \in Claims \cup {NoClaim}  BY <1>0 DEF AgentStates
  <2> HIDE DEF reap, file
  <2>4. r \in AgentStates  BY <1>0, <2>3 DEF AgentStates
  <2>5. Coherent(v)'  BY <1>0, <2>2 DEF AgentStates
  <2> HIDE DEF r
  <2> QED BY <2>2, <2>4, <2>5, OneAgent
<1> QED BY <1>1, <1>2, <1>3, <1>4, <1>5, <1>6 DEF ThreadStep

LEMMA SystemFits ==
  ASSUME Fitting, NEW v \in Agents, SystemStep(v)
  PROVE  Fitting'
<1> USE DEF Fitting, PollerTypeOK, Coherent
<1>0. /\ agent[v] \in AgentStates /\ Coherent(v)
      /\ agent[v].file \in Claims \cup {NoClaim}
  BY DEF AgentStates
<1>1. CASE SdkEnds(v)
  BY <1>0, <1>1 DEF SdkEnds, AgentStates
<1>2. CASE Drain(v)
  <2>1. agent' = [agent EXCEPT ![v] = [agent[v] EXCEPT !.stopping = TRUE, !.file = NoClaim]]
    BY <1>2 DEF Drain
  <2>2. [agent[v] EXCEPT !.stopping = TRUE, !.file = NoClaim] \in AgentStates
    BY <1>0 DEF AgentStates
  <2>3. Coherent(v)'  BY <1>0, <2>1 DEF AgentStates
  <2> QED BY <2>1, <2>2, <2>3, OneAgent
<1>3. CASE Sigterm(v)
  BY <1>0, <1>3, ExitFits DEF Sigterm
<1>4. CASE Crash(v)
  BY <1>0, <1>4, ExitFits DEF Crash
<1>5. CASE Restart(v)
  <2>1. Started("idle", agent[v].file) \in AgentStates  BY <1>0, StartedFits
  <2>2. agent' = [agent EXCEPT ![v] = Started("idle", agent[v].file)]  BY <1>5 DEF Restart
  <2>3. Coherent(v)'  BY <2>2, NoClaimIsNone DEF Started
  <2> QED BY <2>1, <2>2, <2>3, OneAgent
<1> QED BY <1>1, <1>2, <1>3, <1>4, <1>5 DEF SystemStep

LEMMA VersionFits ==
  ASSUME Fitting, RaiseVersion
  PROVE  Fitting'
<1>1. \A v \in Agents : agent'[v] = [agent[v] EXCEPT !.outdated = Up(v)]
  BY DEF RaiseVersion
<1>2. \A v \in Agents : agent[v] \in AgentStates /\ Coherent(v) /\ Up(v) \in BOOLEAN
  BY DEF Fitting, PollerTypeOK, Up
<1>3. ASSUME NEW v \in Agents
      PROVE  agent'[v] \in AgentStates /\ Coherent(v)'
  <2> DEFINE up == Up(v)
  <2>1. up \in BOOLEAN /\ agent'[v] = [agent[v] EXCEPT !.outdated = up] /\ agent[v] \in AgentStates
    BY <1>1, <1>2
  <2> HIDE DEF up
  <2>2. agent'[v] \in AgentStates  BY <2>1 DEF AgentStates
  <2>3. Coherent(v)'  BY <1>2, <2>1 DEF AgentStates, Coherent
  <2> QED BY <2>2, <2>3
<1> QED BY <1>3 DEF Fitting, PollerTypeOK, RaiseVersion

\* No step of an agent takes its parts out of their types or of their order.
LEMMA FittingStep == Fitting /\ TypeOK /\ TypeOK' /\ [PollerNext]_pollerVars => Fitting'
<1> SUFFICES ASSUME Fitting, TypeOK, TypeOK', [PollerNext]_pollerVars
             PROVE  Fitting'
  OBVIOUS
<1>1. CASE UNCHANGED agent
  BY <1>1 DEF Fitting, PollerTypeOK, Coherent
<1>2. ASSUME NEW v \in Agents, MainStep(v) \/ ThreadStep(v) \/ SystemStep(v)
      PROVE  Fitting'
  BY <1>2, MainFits, ThreadFits, SystemFits
<1>3. CASE RaiseVersion
  BY <1>3, VersionFits
<1> QED BY <1>1, <1>2, <1>3 DEF PollerNext, LeaseExpires, QueueStep, pollerVars

-----------------------------------------------------------------------------
\* Every step of the agents is a step of the queue, or none at all.

LEMMA Requests ==
  ASSUME TypeOK, NEW j \in Jobs, NEW t,
         Heartbeat(j, t) \/ Release(j, t) \/ Submit(j, t)
           \/ \E c \in Classes : ReportFailure(j, t, c)
  PROVE  Next
<1>1. t \in 1..MaxLeases
  BY ConstantsOK DEF Heartbeat, Release, Submit, ReportFailure, MayTransition, MayRequest, TypeOK
<1>2. AgentStep(j)  BY <1>1 DEF AgentStep
<1> QED BY <1>2 DEF Next

LEMMA MainServed ==
  ASSUME TypeOK, Fitting, NEW v \in Agents, MainStep(v)
  PROVE  Next \/ UNCHANGED vars
<1>1. CASE PollClaim(v) \/ ClaimAnswerLost(v)
  BY <1>1 DEF PollClaim, ClaimAnswerLost, Next, AgentStep
<1>2. agent[v].pc = "report" => Job(v) \in Jobs
  BY DEF Fitting, Coherent, Claims, Job
<1>3. SubmitServed(v) /\ agent[v].pc = "report" => Next
  BY <1>2, Requests DEF SubmitServed
<1>4. FailureServed(v) /\ agent[v].pc = "report" => Next
  BY <1>2, Requests DEF FailureServed
<1>5. CASE PostSubmitted(v) \/ PostMissingPr(v) \/ PostFailed(v) \/ PostRaises(v)
  BY <1>3, <1>4, <1>5
     DEF PostSubmitted, PostMissingPr, PostFailed, PostRaises, Reporting, Unserved, At
<1>6. CASE \/ Register(v) \/ PrepareFails(v) \/ Launch(v) \/ OpenPhases(v) \/ RunPhase(v)
           \/ LeavePhases(v) \/ Collect(v) \/ PhaseEnds(v) \/ TurnedAway(v) \/ ClearClaim(v)
  BY <1>6 DEF Register, PrepareFails, Launch, OpenPhases, RunPhase, LeavePhases, Collect,
              PhaseEnds, TurnedAway, ClearClaim
<1> QED BY <1>1, <1>5, <1>6 DEF MainStep

LEMMA ThreadServed ==
  ASSUME TypeOK, Fitting, NEW v \in Agents, ThreadStep(v)
  PROVE  Next \/ UNCHANGED vars
<1>1. CASE BeatRenews(v)
  <2>1. Job(v) \in Jobs  BY <1>1 DEF BeatRenews, Beats, Fitting, Coherent, Claims, Job
  <2> QED BY <1>1, <2>1, Requests DEF BeatRenews
<1>2. CASE Reap(v)
  <2>1. \A c \in agent[v].reaping : c.job \in Jobs
    BY DEF Fitting, PollerTypeOK, AgentStates, Claims
  <2> QED BY <1>2, <2>1, Requests DEF Reap
<1>3. CASE BeatRefused(v) \/ BeatTurnedAway(v) \/ Trip(v) \/ Fire(v)
  BY <1>3 DEF BeatRefused, BeatTurnedAway, Trip, Fire
<1> QED BY <1>1, <1>2, <1>3 DEF ThreadStep

LEMMA SystemServed ==
  ASSUME TypeOK, Fitting, NEW v \in Agents, SystemStep(v)
  PROVE  Next \/ UNCHANGED vars
<1>1. CASE Drain(v)
  <2>1. Current(agent[v].file) => agent[v].file.job \in Jobs
    BY DEF Current, Fitting, PollerTypeOK, AgentStates, Claims
  <2> QED BY <1>1, <2>1, Requests DEF Drain
<1>2. CASE Sigterm(v)
  <2>1. Registered(v) => Job(v) \in Jobs  BY DEF Registered, Fitting, Coherent, Claims, Job
  <2> QED BY <1>2, <2>1, Requests DEF Sigterm
<1>3. CASE SdkEnds(v) \/ Crash(v) \/ Restart(v)
  BY <1>3 DEF SdkEnds, Crash, Restart
<1> QED BY <1>1, <1>2, <1>3 DEF SystemStep

LEMMA Served == TypeOK /\ Fitting /\ [PollerNext]_pollerVars => [Next]_vars
<1> SUFFICES ASSUME TypeOK, Fitting, PollerNext
             PROVE  Next \/ UNCHANGED vars
  BY DEF pollerVars
<1>1. ASSUME NEW v \in Agents, MainStep(v) \/ ThreadStep(v) \/ SystemStep(v)
      PROVE  Next \/ UNCHANGED vars
  BY <1>1, MainServed, ThreadServed, SystemServed
<1>2. ASSUME NEW j \in Jobs, LeaseExpires(j)
      PROVE  Next
  BY <1>2 DEF LeaseExpires, Next
<1>3. CASE QueueStep
  BY <1>3 DEF QueueStep, Next, ManagerStep
<1>4. CASE RaiseVersion
  BY <1>4 DEF RaiseVersion
<1> QED BY <1>1, <1>2, <1>3, <1>4 DEF PollerNext

PInv == TypeOK /\ Fitting

LEMMA PollerInitFits == PollerInit => PInv
<1> SUFFICES ASSUME PollerInit PROVE PInv
  OBVIOUS
<1>1. Started("idle", NoClaim) \in AgentStates  BY StartedFits
<1>2. \A v \in Agents : agent[v] = Started("idle", NoClaim)  BY DEF PollerInit
<1>3. \A v \in Agents : Coherent(v)  BY <1>2 DEF Coherent, Started
<1> QED BY <1>1, <1>3, TypeInit DEF PollerInit, PInv, Fitting, PollerTypeOK

LEMMA PInvStep == PInv /\ [PollerNext]_pollerVars => PInv'
BY Served, TypeStep, FittingStep DEF PInv

LEMMA PInvHolds == PollerSpec => []PInv
BY PollerInitFits, PInvStep, PTL DEF PollerSpec

\* The agents' locals, threads and files stay in their types, however their threads,
\* systemd, crashes and the console's answers interleave.
THEOREM PollerTypeCorrect == PollerSpec => []PollerTypeOK
<1>1. PInv => PollerTypeOK  BY DEF PInv, Fitting
<1> QED BY PInvHolds, <1>1, PTL

\* The v2 agents implement the queue: every step they take is a request the queue
\* serves, or leaves it alone; so all that is proved of DispatchV2 holds of them.
THEOREM Implements == PollerSpec => Spec
<1>1. PollerInit => Init  BY DEF PollerInit
<1>2. PInv /\ [PollerNext]_pollerVars => [Next]_vars  BY Served DEF PInv
<1> QED BY PInvHolds, <1>1, <1>2, PTL DEF PollerSpec, Spec

-----------------------------------------------------------------------------
\* An SDK under its lease.

\* The claims a VM may still send: its poller's, its lease file's, its watchdogs'.
Owned(v) == {c \in Claims :
  c = agent[v].claim \/ c = agent[v].file \/ c \in agent[v].reaping}

\* The lease of the claim stands and has not run out.
Safe(c) == lease[c.job].token = c.token /\ ~lease[c.job].expired

\* The VM looks after the lease of its claim: the poller prepares the run, or the
\* heartbeat thread beats, and neither ExecStop nor the watchdog has begun to end it.
Minded(v) ==
  /\ ~agent[v].stopping
  /\ \/ agent[v].pc \in {"claimed", "ready"}
     \/ /\ agent[v].pc \in {"between", "running"}
        /\ agent[v].beat = "on"
        /\ agent[v].watch # "tripped"
        /\ v \in Orchestrated \/ agent[v].sdk = "run"

Granted(v) == \A c \in Owned(v) : c.token <= newest[c.job]
Spent(v) == agent[v].claim \in agent[v].reaping => ~Minded(v)
Kept(v) == "outage" \notin Mishaps /\ Minded(v) => Safe(agent[v].claim)
Apart == \A v, w \in Agents : v # w => Owned(v) \cap Owned(w) = {}

HInv ==
  /\ PInv
  /\ Apart
  /\ \A v \in Agents : Granted(v) /\ Spent(v) /\ Kept(v)

\* What every step of an agent but a claim does to what the agents know ...
Retains(v) ==
  /\ \A w \in Agents \ {v} : agent'[w] = agent[w]
  /\ Owned(v)' \subseteq Owned(v)
  /\ Minded(v)' => /\ Minded(v)
                   /\ agent'[v].claim = agent[v].claim
                   /\ agent'[v].reaping \subseteq agent[v].reaping

\* ... and to the leases: it drops none but its own, and this one only as it stops
\* minding it.
Spares(v) ==
  /\ newest' = newest
  /\ \A c \in Claims :
       Safe(c) /\ (c \in Owned(v) => Minded(v)' /\ c = agent'[v].claim) => Safe(c)'

LEMMA MindedClaims ==
  ASSUME Fitting, NEW v \in Agents, Minded(v)
  PROVE  agent[v].claim \in Claims /\ agent[v].claim \in Owned(v)
BY DEF Minded, Fitting, Coherent, Owned

LEMMA MoveKeeps ==
  ASSUME HInv, PInv', NEW v \in Agents, Retains(v), Spares(v)
  PROVE  HInv'
<1>1. \A w \in Agents \ {v} :
        /\ agent'[w] = agent[w]
        /\ Owned(w)' = Owned(w)
        /\ Minded(w)' <=> Minded(w)
  BY DEF Retains, Owned, Minded
<1>2. \A w \in Agents : Owned(w)' \subseteq Owned(w)
  BY <1>1 DEF Retains
<1>3. Apart'
  BY <1>2 DEF HInv, Apart
<1>4. ASSUME NEW w \in Agents
      PROVE  Granted(w)'
  BY <1>2 DEF HInv, Granted, Spares
<1>5. ASSUME NEW w \in Agents
      PROVE  Spent(w)'
  BY <1>1 DEF HInv, Spent, Retains
<1>6. ASSUME NEW w \in Agents, "outage" \notin Mishaps, Minded(w)'
      PROVE  Safe(agent[w].claim)'
  <2>1. Minded(w) /\ agent'[w].claim = agent[w].claim
    BY <1>1, <1>6 DEF Retains
  <2>2. /\ Safe(agent[w].claim)
        /\ agent[w].claim \in Claims /\ agent[w].claim \in Owned(w)
    BY <1>6, <2>1, MindedClaims DEF HInv, Kept, PInv
  <2>3. CASE w = v
    BY <1>6, <2>1, <2>2, <2>3 DEF Spares, Safe
  <2>4. CASE w # v
    <3>1. agent[w].claim \notin Owned(v)  BY <2>2, <2>4 DEF HInv, Apart
    <3> QED BY <2>1, <2>2, <3>1 DEF Spares, Safe
  <2> QED BY <2>3, <2>4
<1> QED BY <1>3, <1>4, <1>5, <1>6 DEF HInv, Kept

-----------------------------------------------------------------------------
\* What requests do to the leases.

LEMMA QuietSpares ==
  ASSUME NEW v \in Agents, UNCHANGED vars
  PROVE  Spares(v)
BY DEF Spares, vars, leases, Safe

LEMMA DropSpares ==
  ASSUME PInv, NEW v \in Agents, NEW c \in Owned(v), DropLease(c.job),
         Fenced(c.job, c.token), ~(Minded(v)' /\ c = agent'[v].claim)
  PROVE  Spares(v)
<1>1. c \in Claims  BY DEF Owned
<1>2. newest' = newest  BY DEF DropLease
<1>3. ASSUME NEW d \in Claims, Safe(d), d \in Owned(v) => Minded(v)' /\ d = agent'[v].claim
      PROVE  Safe(d)'
  <2>1. d # c  BY <1>3
  <2>2. d.job # c.job  BY <1>1, <1>3, <2>1 DEF Claims, Safe, Fenced
  <2>3. lease'[d.job] = lease[d.job]
    BY <1>3, <2>2 DEF DropLease, Claims, PInv, TypeOK
  <2> QED BY <1>3, <2>3 DEF Safe
<1> QED BY <1>2, <1>3 DEF Spares

LEMMA BeatSpares ==
  ASSUME PInv, NEW v \in Agents, Job(v) \in Jobs, Heartbeat(Job(v), Token(v))
  PROVE  Spares(v)
<1>1. newest' = newest  BY DEF Heartbeat
<1>2. ASSUME NEW d \in Claims, Safe(d) PROVE Safe(d)'
  BY <1>2 DEF Heartbeat, Safe, Claims, PInv, TypeOK, Leases
<1> QED BY <1>1, <1>2 DEF Spares

-----------------------------------------------------------------------------
\* What the steps of an agent do to its claims.

\* Enough for a step of v to be one that retains.
LEMMA RetainsBy ==
  ASSUME Fitting, NEW v \in Agents, NEW r,
         agent' = [agent EXCEPT ![v] = r],
         r.claim \in {agent[v].claim, NoClaim},
         r.file \in {agent[v].claim, agent[v].file, NoClaim},
         r.reaping \subseteq agent[v].reaping \cup {agent[v].claim},
         Minded(v)' => /\ Minded(v)
                       /\ r.claim = agent[v].claim
                       /\ r.reaping \subseteq agent[v].reaping
  PROVE  Retains(v)
<1>1. agent'[v] = r /\ \A w \in Agents \ {v} : agent'[w] = agent[w]
  BY DEF Fitting, PollerTypeOK
<1>2. Owned(v)' \subseteq Owned(v)
  BY <1>1, NoClaimIsNone DEF Owned
<1> QED BY <1>1, <1>2 DEF Retains

LEMMA ExitRetains ==
  ASSUME Fitting, NEW v \in Agents, NEW file \in {agent[v].file, NoClaim}, Exit(v, file)
  PROVE  Retains(v) /\ ~Minded(v)'
<1>1. agent' = [agent EXCEPT ![v] = Started("down", file)] /\ agent'[v] = Started("down", file)
  BY DEF Exit, Fitting, PollerTypeOK
<1>2. ~Minded(v)'  BY <1>1 DEF Minded, Started
<1>3. /\ Started("down", file).claim = NoClaim
      /\ Started("down", file).file = file
      /\ Started("down", file).reaping = {}
  BY DEF Started
<1> QED BY <1>1, <1>2, <1>3, RetainsBy

LEMMA MainRetains ==
  ASSUME Fitting, NEW v \in Agents, MainStep(v), ~PollClaim(v), ~ClaimAnswerLost(v)
  PROVE  Retains(v)
<1>0. agent[v] \in AgentStates /\ Coherent(v) /\ agent \in [Agents -> AgentStates]
  BY DEF Fitting, PollerTypeOK
<1>1. CASE Register(v)
  <2>1. agent' = [agent EXCEPT ![v] = [agent[v] EXCEPT !.pc = "ready", !.file = agent[v].claim]]
    BY <1>1 DEF Register
  <2>2. Minded(v)' => Minded(v)  BY <1>0, <1>1, <2>1 DEF Register, At, Minded, AgentStates
  <2> QED BY <1>0, <1>1, <2>1, <2>2, RetainsBy DEF AgentStates, Register
<1>2. CASE PrepareFails(v)
  <2>1. agent' = [agent EXCEPT ![v] = [agent[v] EXCEPT !.pc = "report", !.result = "failed"]]
    BY <1>2 DEF PrepareFails
  <2>2. ~Minded(v)'  BY <1>0, <2>1 DEF Minded, AgentStates
  <2> QED BY <1>0, <2>1, <2>2, RetainsBy DEF AgentStates
<1>3. CASE Launch(v)
  <2>1. agent' = [agent EXCEPT ![v] = [agent[v] EXCEPT !.pc = "running", !.sdk = "run",
                                                   !.beat = "on", !.watch = "on"]]
    BY <1>3 DEF Launch
  <2>2. Minded(v)' => Minded(v)  BY <1>0, <1>3, <2>1 DEF Launch, At, Minded, AgentStates
  <2> QED BY <1>0, <1>3, <2>1, <2>2, RetainsBy DEF AgentStates, Launch
<1>4. CASE OpenPhases(v)
  <2>1. agent' = [agent EXCEPT ![v] = [agent[v] EXCEPT !.pc = "between", !.beat = "on",
                                                       !.phase = 1]]
    BY <1>4 DEF OpenPhases
  <2>2. Minded(v)' => Minded(v)  BY <1>0, <1>4, <2>1 DEF OpenPhases, At, Minded, AgentStates
  <2> QED BY <1>0, <1>4, <2>1, <2>2, RetainsBy DEF AgentStates, OpenPhases
<1>5. CASE RunPhase(v)
  <2>1. agent' = [agent EXCEPT ![v] = [agent[v] EXCEPT !.pc = "running", !.sdk = "run"]]
    BY <1>5 DEF RunPhase
  <2>2. Minded(v)' => Minded(v)
    BY <1>0, <1>5, <2>1 DEF RunPhase, At, Minded, AgentStates, Coherent
  <2> QED BY <1>0, <1>5, <2>1, <2>2, RetainsBy DEF AgentStates, RunPhase
<1>6. CASE LeavePhases(v)
  <2>1. agent' = [agent EXCEPT ![v] = [agent[v] EXCEPT !.pc = "posted", !.beat = "off"]]
    BY <1>6 DEF LeavePhases
  <2>2. ~Minded(v)'  BY <1>0, <2>1 DEF Minded, AgentStates
  <2> QED BY <1>0, <2>1, <2>2, RetainsBy DEF AgentStates
<1>7. CASE Collect(v)
  <2> DEFINE res == IF agent[v].fired THEN "watchdog" ELSE agent[v].sdk
             reap == IF agent[v].watch = "tripped" THEN agent[v].reaping \cup {agent[v].claim}
                                                  ELSE agent[v].reaping
             r == [agent[v] EXCEPT !.pc = "report", !.sdk = "none", !.beat = "off",
                     !.watch = "off", !.result = res, !.reaping = reap]
  <2>1. agent' = [agent EXCEPT ![v] = r]  BY <1>7 DEF Collect
  <2>2. reap \subseteq agent[v].reaping \cup {agent[v].claim}  OBVIOUS
  <2> HIDE DEF res, reap
  <2>3. r.claim = agent[v].claim /\ r.file = agent[v].file /\ r.reaping = reap /\ r.pc = "report"
    BY <1>0 DEF AgentStates
  <2> HIDE DEF r
  <2>4. ~Minded(v)'  BY <1>0, <2>1, <2>3 DEF Minded
  <2> QED BY <2>1, <2>2, <2>3, <2>4, RetainsBy
<1>8. CASE PhaseEnds(v)
  <2> DEFINE more == agent[v].sdk = "ok" /\ agent[v].phase < Phases
             p == IF more THEN "between" ELSE "report"
             n == IF more THEN agent[v].phase + 1 ELSE agent[v].phase
             res == IF more THEN "none" ELSE agent[v].sdk
             r == [agent[v] EXCEPT !.pc = p, !.sdk = "none", !.phase = n, !.result = res]
  <2>1. agent' = [agent EXCEPT ![v] = r]  BY <1>8 DEF PhaseEnds
  <2>2. p \in {"between", "report"}  OBVIOUS
  <2> HIDE DEF more, p, n, res
  <2>3. /\ r.claim = agent[v].claim /\ r.file = agent[v].file /\ r.reaping = agent[v].reaping
        /\ r.pc = p /\ r.beat = agent[v].beat /\ r.watch = agent[v].watch
        /\ r.stopping = agent[v].stopping
    BY <1>0 DEF AgentStates
  <2> HIDE DEF r
  <2>4. Minded(v)' => Minded(v)
    BY <1>0, <1>8, <2>1, <2>2, <2>3 DEF Minded, PhaseEnds, At
  <2> QED BY <1>8, <2>1, <2>3, <2>4, RetainsBy DEF PhaseEnds
<1>9. CASE Posted(v)
  <2>1. agent' = [agent EXCEPT ![v] = [agent[v] EXCEPT !.pc = "posted", !.beat = "off"]]
    BY <1>9 DEF Posted
  <2>2. ~Minded(v)'  BY <1>0, <2>1 DEF Minded, AgentStates
  <2> QED BY <1>0, <2>1, <2>2, RetainsBy DEF AgentStates
<1>10. CASE PostSubmitted(v) \/ PostMissingPr(v) \/ PostFailed(v)
  BY <1>9, <1>10 DEF PostSubmitted, PostMissingPr, PostFailed
<1>11. CASE PostRaises(v)
  <2>1. CASE Exit(v, agent[v].file)  BY <2>1, ExitRetains
  <2>2. CASE agent' = [agent EXCEPT ![v].result = "failed"]
    <3>1. agent' = [agent EXCEPT ![v] = [agent[v] EXCEPT !.result = "failed"]]  BY <2>2
    <3>2. ~Minded(v)'  BY <1>0, <1>11, <3>1 DEF PostRaises, At, Minded, AgentStates
    <3> QED BY <1>0, <3>1, <3>2, RetainsBy DEF AgentStates
  <2> QED BY <1>9, <1>11, <2>1, <2>2 DEF PostRaises
<1>12. CASE TurnedAway(v)
  BY <1>12, ExitRetains DEF TurnedAway
<1>13. CASE ClearClaim(v)
  <2> DEFINE r == [Started("idle", NoClaim) EXCEPT
                     !.reaping = agent[v].reaping, !.stopping = agent[v].stopping,
                     !.outdated = agent[v].outdated]
  <2>1. agent' = [agent EXCEPT ![v] = r]  BY <1>13 DEF ClearClaim
  <2>2. r.claim = NoClaim /\ r.file = NoClaim /\ r.reaping = agent[v].reaping /\ r.pc = "idle"
    BY DEF Started
  <2> HIDE DEF r
  <2>3. ~Minded(v)'  BY <1>0, <2>1, <2>2 DEF Minded
  <2> QED BY <2>1, <2>2, <2>3, RetainsBy
<1> QED BY <1>1, <1>2, <1>3, <1>4, <1>5, <1>6, <1>7, <1>8, <1>10, <1>11, <1>12, <1>13
        DEF MainStep

\* A request with the VM's own claim, which it no longer minds.
LEMMA OwnDropSpares ==
  ASSUME PInv, NEW v \in Agents, agent[v].claim \in Claims, Retains(v), ~Minded(v),
         \/ Release(Job(v), Token(v))
         \/ Submit(Job(v), Token(v))
         \/ \E c \in Classes : ReportFailure(Job(v), Token(v), c)
  PROVE  Spares(v)
<1>1. agent[v].claim \in Owned(v) /\ ~Minded(v)'  BY DEF Owned, Retains
<1>2. DropLease(Job(v)) /\ Fenced(Job(v), Token(v))
  BY DEF Release, Submit, ReportFailure, MayTransition
<1> QED BY <1>1, <1>2, DropSpares DEF Job, Token

LEMMA MainKeeps ==
  ASSUME HInv, PInv', NEW v \in Agents, MainStep(v), ~PollClaim(v), ~ClaimAnswerLost(v)
  PROVE  HInv'
<1>1. Fitting  BY DEF HInv, PInv
<1>2. Retains(v)  BY <1>1, MainRetains
<1>3. CASE UNCHANGED vars
  BY <1>2, <1>3, QuietSpares, MoveKeeps
<1>4. CASE ~UNCHANGED vars
  <2>1. At(v, "report") /\ (SubmitServed(v) \/ FailureServed(v))
    BY <1>4 DEF MainStep, Register, PrepareFails, Launch, OpenPhases, RunPhase, LeavePhases,
         Collect, PhaseEnds, TurnedAway, ClearClaim, PostSubmitted, PostMissingPr,
         PostFailed, PostRaises, Reporting, Unserved
  <2>2. agent[v].claim \in Claims /\ ~Minded(v)
    BY <1>1, <2>1 DEF At, Fitting, Coherent, Minded
  <2>3. Spares(v)
    BY <1>2, <2>1, <2>2, OwnDropSpares DEF SubmitServed, FailureServed, HInv
  <2> QED BY <1>2, <2>3, MoveKeeps
<1> QED BY <1>3, <1>4

LEMMA ThreadKeeps ==
  ASSUME HInv, PInv', NEW v \in Agents, ThreadStep(v)
  PROVE  HInv'
<1>0. /\ Fitting /\ PInv
      /\ agent[v] \in AgentStates /\ Coherent(v) /\ agent \in [Agents -> AgentStates]
  BY DEF HInv, PInv, Fitting, PollerTypeOK
<1>1. CASE BeatRenews(v)
  <2>1. Job(v) \in Jobs  BY <1>0, <1>1 DEF BeatRenews, Beats, Coherent, Claims, Job
  <2>2. Spares(v)  BY <1>0, <1>1, <2>1, BeatSpares DEF BeatRenews
  <2>3. Retains(v)  BY <1>1 DEF BeatRenews, Retains, Owned, Minded
  <2> QED BY <2>2, <2>3, MoveKeeps
<1>2. CASE BeatRefused(v)
  <2>1. agent' = [agent EXCEPT ![v] = [agent[v] EXCEPT !.told = TRUE, !.beat = "off"]]
    BY <1>2 DEF BeatRefused
  <2>2. ~Minded(v)'  BY <1>0, <1>2, <2>1 DEF BeatRefused, Beats, Coherent, Minded, AgentStates
  <2>3. Retains(v)  BY <1>0, <2>1, <2>2, RetainsBy DEF AgentStates
  <2> QED BY <1>2, <2>3, QuietSpares, MoveKeeps DEF BeatRefused
<1>3. CASE BeatTurnedAway(v)
  <2>1. agent' = [agent EXCEPT ![v] = [agent[v] EXCEPT !.beat = "dead"]]
    BY <1>3 DEF BeatTurnedAway
  <2>2. ~Minded(v)'  BY <1>0, <1>3, <2>1 DEF BeatTurnedAway, Beats, Coherent, Minded, AgentStates
  <2>3. Retains(v)  BY <1>0, <2>1, <2>2, RetainsBy DEF AgentStates
  <2> QED BY <1>3, <2>3, QuietSpares, MoveKeeps DEF BeatTurnedAway
<1>4. CASE Trip(v)
  <2>1. agent' = [agent EXCEPT ![v] = [agent[v] EXCEPT !.watch = "tripped"]]
    BY <1>4 DEF Trip
  <2>2. ~Minded(v)'  BY <1>0, <1>4, <2>1 DEF Trip, Trips, Coherent, Minded, AgentStates
  <2>3. Retains(v)  BY <1>0, <2>1, <2>2, RetainsBy DEF AgentStates
  <2> QED BY <1>4, <2>3, QuietSpares, MoveKeeps DEF Trip
<1>5. CASE Fire(v)
  <2> DEFINE left == IF agent[v].sdk = "run" THEN "failed" ELSE agent[v].sdk
             reap == agent[v].reaping \cup {agent[v].claim}
             r == [agent[v] EXCEPT !.watch = "off", !.fired = TRUE, !.sdk = left,
                                   !.reaping = reap]
  <2>1. agent' = [agent EXCEPT ![v] = r]  BY <1>5 DEF Fire
  <2>2. left # "run" /\ reap \subseteq agent[v].reaping \cup {agent[v].claim}  OBVIOUS
  <2> HIDE DEF left, reap
  <2>3. /\ r.claim = agent[v].claim /\ r.file = agent[v].file /\ r.reaping = reap
        /\ r.pc = agent[v].pc /\ r.sdk = left
    BY <1>0 DEF AgentStates
  <2> HIDE DEF r
  <2>4. ~Minded(v)'
    BY <1>0, <1>5, <2>1, <2>2, <2>3 DEF Fire, Coherent, Minded
  <2>5. Retains(v)  BY <1>0, <2>1, <2>2, <2>3, <2>4, RetainsBy
  <2> QED BY <1>5, <2>5, QuietSpares, MoveKeeps DEF Fire
<1>6. CASE Reap(v)
  <2>1. PICK c \in agent[v].reaping :
          /\ UNCHANGED vars \/ Release(c.job, c.token)
          /\ agent' = [agent EXCEPT ![v].reaping = @ \ {c},
                                    ![v].file = IF agent[v].outdated THEN @ ELSE NoClaim]
    BY <1>6 DEF Reap
  <2> DEFINE reap == agent[v].reaping \ {c}
             file == IF agent[v].outdated THEN agent[v].file ELSE NoClaim
             r == [agent[v] EXCEPT !.reaping = reap, !.file = file]
  <2>2. agent' = [agent EXCEPT ![v] = r]  BY <2>1
  <2>3. reap \subseteq agent[v].reaping /\ file \in {agent[v].file, NoClaim}  OBVIOUS
  <2> HIDE DEF reap, file
  <2>4. /\ r.claim = agent[v].claim /\ r.file = file /\ r.reaping = reap /\ r.pc = agent[v].pc
        /\ r.stopping = agent[v].stopping /\ r.beat = agent[v].beat
        /\ r.watch = agent[v].watch /\ r.sdk = agent[v].sdk
    BY <1>0 DEF AgentStates
  <2> HIDE DEF r
  <2>5. agent'[v] = r  BY <1>0, <2>2
  <2>6. Minded(v)' <=> Minded(v)  BY <2>4, <2>5 DEF Minded
  <2>7. Retains(v)  BY <1>0, <2>2, <2>3, <2>4, <2>6, RetainsBy
  <2>8. c \in Owned(v)  BY <1>0 DEF Owned, AgentStates
  <2>9. ~(Minded(v)' /\ c = agent'[v].claim)
    BY <2>4, <2>5, <2>6 DEF HInv, Spent
  <2>10. Spares(v)
    BY <1>0, <2>1, <2>8, <2>9, DropSpares, QuietSpares DEF Release
  <2> QED BY <2>7, <2>10, MoveKeeps
<1> QED BY <1>1, <1>2, <1>3, <1>4, <1>5, <1>6 DEF ThreadStep

LEMMA SystemKeeps ==
  ASSUME HInv, PInv', NEW v \in Agents, SystemStep(v)
  PROVE  HInv'
<1>0. /\ Fitting /\ PInv
      /\ agent[v] \in AgentStates /\ Coherent(v) /\ agent \in [Agents -> AgentStates]
  BY DEF HInv, PInv, Fitting, PollerTypeOK
<1>1. CASE SdkEnds(v)
  <2>1. PICK code \in {"ok", "failed"} :
          agent' = [agent EXCEPT ![v] = [agent[v] EXCEPT !.sdk = code]]
    BY <1>1 DEF SdkEnds
  <2>2. Minded(v)' => Minded(v)  BY <1>0, <1>1, <2>1 DEF SdkEnds, Minded, AgentStates
  <2>3. Retains(v)  BY <1>0, <2>1, <2>2, RetainsBy DEF AgentStates
  <2> QED BY <1>1, <2>3, QuietSpares, MoveKeeps DEF SdkEnds
<1>2. CASE Drain(v)
  <2> DEFINE c == agent[v].file
  <2>1. agent' = [agent EXCEPT ![v] = [agent[v] EXCEPT !.stopping = TRUE, !.file = NoClaim]]
    BY <1>2 DEF Drain
  <2>2. ~Minded(v)'  BY <1>0, <2>1 DEF Minded, AgentStates
  <2>3. Retains(v)  BY <1>0, <2>1, <2>2, RetainsBy DEF AgentStates
  <2>4. CASE UNCHANGED vars
    BY <2>3, <2>4, QuietSpares, MoveKeeps
  <2>5. CASE Current(c) /\ Release(c.job, c.token)
    <3>1. c \in Owned(v)  BY <1>0, <2>5 DEF Current, Owned, AgentStates
    <3>2. Spares(v)  BY <1>0, <2>2, <2>5, <3>1, DropSpares DEF Release
    <3> QED BY <2>3, <3>2, MoveKeeps
  <2> QED BY <1>2, <2>4, <2>5 DEF Drain
<1>3. CASE Sigterm(v)
  <2>1. Retains(v) /\ ~Minded(v)'  BY <1>0, <1>3, ExitRetains DEF Sigterm
  <2>2. CASE UNCHANGED vars
    BY <2>1, <2>2, QuietSpares, MoveKeeps
  <2>3. CASE Registered(v) /\ Release(Job(v), Token(v))
    <3>1. agent[v].claim \in Owned(v)  BY <1>0, <2>3 DEF Registered, Coherent, Owned
    <3>2. Spares(v)  BY <1>0, <2>1, <2>3, <3>1, DropSpares DEF Release, Job, Token
    <3> QED BY <2>1, <3>2, MoveKeeps
  <2> QED BY <1>3, <2>2, <2>3 DEF Sigterm
<1>4. CASE Crash(v)
  BY <1>0, <1>4, ExitRetains, QuietSpares, MoveKeeps DEF Crash
<1>5. CASE Restart(v)
  <2>1. agent' = [agent EXCEPT ![v] = Started("idle", agent[v].file)]  BY <1>5 DEF Restart
  <2>2. ~Minded(v)'  BY <1>0, <2>1 DEF Minded, Started
  <2>3. /\ Started("idle", agent[v].file).claim = NoClaim
        /\ Started("idle", agent[v].file).file = agent[v].file
        /\ Started("idle", agent[v].file).reaping = {}
    BY DEF Started
  <2>4. Retains(v)  BY <1>0, <2>1, <2>2, <2>3, RetainsBy
  <2> QED BY <1>5, <2>4, QuietSpares, MoveKeeps DEF Restart
<1> QED BY <1>1, <1>2, <1>3, <1>4, <1>5 DEF SystemStep

-----------------------------------------------------------------------------
\* Claims, and what the console and time do by themselves.

\* The agents know what they knew, and no lease that is minded goes.
LEMMA StillKeeps ==
  ASSUME HInv, PInv',
         \A v \in Agents : Owned(v)' = Owned(v) /\ agent'[v].claim = agent[v].claim
                           /\ agent'[v].reaping = agent[v].reaping,
         \A v \in Agents : Minded(v)' => Minded(v),
         \A c \in Claims : newest'[c.job] >= newest[c.job],
         "outage" \notin Mishaps =>
           \A v \in Agents : Minded(v) /\ Safe(agent[v].claim) => Safe(agent[v].claim)'
  PROVE  HInv'
<1>1. Apart'  BY DEF HInv, Apart
<1>2. ASSUME NEW v \in Agents PROVE Granted(v)'
  <2>1. \A c \in Claims : newest[c.job] \in Nat /\ newest'[c.job] \in Nat /\ c.token \in Nat
    BY ConstantsOK DEF HInv, PInv, TypeOK, Claims
  <2> QED BY <2>1 DEF HInv, Granted, Owned
<1>3. ASSUME NEW v \in Agents PROVE Spent(v)' /\ Kept(v)'
  BY DEF HInv, Spent, Kept
<1> QED BY <1>1, <1>2, <1>3 DEF HInv

\* A claim of an eligible job takes no lease away, and its token is new.
LEMMA ClaimGrants ==
  ASSUME HInv, NEW j \in Jobs, ClaimNext(j)
  PROVE  LET n == [job |-> j, token |-> newest[j] + 1] IN
         /\ n \in Claims
         /\ n.token <= newest'[j]
         /\ lease'[j].token = n.token /\ ~lease'[j].expired
         /\ \A v \in Agents : n \notin Owned(v)
         /\ \A c \in Claims : newest'[c.job] >= newest[c.job]
         /\ \A c \in Claims : Safe(c) => Safe(c)'
<1>0. TypeOK /\ newest[j] \in 0..MaxLeases /\ MaxLeases \in Nat /\ ~HasLease(j) /\ Grant(j)
  BY ConstantsOK DEF HInv, PInv, TypeOK, ClaimNext, Eligible
<1> DEFINE n == [job |-> j, token |-> newest[j] + 1]
<1>1. n \in Claims  BY <1>0 DEF Grant, Claims
<1>2. newest'[j] = newest[j] + 1 /\ \A k \in Jobs \ {j} : newest'[k] = newest[k]
  BY <1>0 DEF Grant, TypeOK
<1>3. /\ lease'[j] = [token |-> newest[j] + 1, alive |-> TRUE, expired |-> FALSE]
      /\ \A k \in Jobs \ {j} : lease'[k] = lease[k]
  BY <1>0 DEF Grant, TypeOK
<1>4. n.token <= newest'[j]  BY <1>0, <1>2
<1>5. lease'[j].token = n.token /\ ~lease'[j].expired  BY <1>3
<1>6. ASSUME NEW v \in Agents, n \in Owned(v) PROVE FALSE
  BY <1>0, <1>6 DEF HInv, Granted
<1>7. \A c \in Claims : newest[c.job] \in Nat  BY <1>0 DEF TypeOK, Claims
<1>8. ASSUME NEW c \in Claims PROVE newest'[c.job] >= newest[c.job]
  BY <1>0, <1>2, <1>7 DEF Claims
<1>9. ASSUME NEW c \in Claims, Safe(c) PROVE Safe(c)'
  <2>1. c.job # j  BY <1>0, <1>9 DEF HasLease, Safe, Claims
  <2> QED BY <1>3, <1>9, <2>1 DEF Safe, Claims
<1> QED BY <1>1, <1>4, <1>5, <1>6, <1>8, <1>9

LEMMA PollClaimKeeps ==
  ASSUME HInv, PInv', NEW v \in Agents, PollClaim(v)
  PROVE  HInv'
<1>1. PICK j \in Jobs :
        /\ ClaimNext(j)
        /\ agent' = [agent EXCEPT ![v].pc = "claimed",
                       ![v].claim = [job |-> j, token |-> newest[j] + 1]]
  BY DEF PollClaim
<1> DEFINE n == [job |-> j, token |-> newest[j] + 1]
<1>2. /\ n \in Claims
      /\ n.job = j
      /\ n.token <= newest'[j]
      /\ lease'[j].token = n.token /\ ~lease'[j].expired
      /\ \A w \in Agents : n \notin Owned(w)
      /\ \A c \in Claims : newest'[c.job] >= newest[c.job]
      /\ \A c \in Claims : Safe(c) => Safe(c)'
  BY <1>1, ClaimGrants
<1>3. agent' = [agent EXCEPT ![v] = [agent[v] EXCEPT !.pc = "claimed", !.claim = n]]
  BY <1>1
<1> HIDE DEF n
<1>4. /\ agent[v] \in AgentStates /\ agent \in [Agents -> AgentStates] /\ Fitting
  BY DEF HInv, PInv, Fitting, PollerTypeOK
<1>5. /\ agent'[v].claim = n /\ agent'[v].file = agent[v].file
      /\ agent'[v].reaping = agent[v].reaping
      /\ \A w \in Agents \ {v} : agent'[w] = agent[w]
  BY <1>3, <1>4 DEF AgentStates
<1>6. Owned(v)' \subseteq Owned(v) \cup {n} /\ \A w \in Agents \ {v} : Owned(w)' = Owned(w)
  BY <1>5 DEF Owned
<1>7. Apart'  BY <1>2, <1>6 DEF HInv, Apart
<1>8. ASSUME NEW w \in Agents PROVE Granted(w)'
  <2>1. \A c \in Claims : newest[c.job] \in Nat /\ newest'[c.job] \in Nat /\ c.token \in Nat
    BY ConstantsOK DEF HInv, PInv, TypeOK, Claims
  <2>2. \A c \in Owned(w)' : c \in Claims /\ (c \in Owned(w) \/ c = n)
    BY <1>6 DEF Owned
  <2> QED BY <1>2, <2>1, <2>2 DEF HInv, Granted
<1>9. Spent(v)' /\ Kept(v)'
  <2>1. n \notin agent[v].reaping  BY <1>2, <1>4 DEF Owned
  <2>2. Spent(v)'  BY <1>5, <2>1 DEF Spent
  <2>3. Kept(v)'  BY <1>2, <1>5 DEF Kept, Safe
  <2> QED BY <2>2, <2>3
<1>10. ASSUME NEW w \in Agents \ {v} PROVE Spent(w)' /\ Kept(w)'
  <2>1. Minded(w)' <=> Minded(w)  BY <1>5 DEF Minded
  <2>2. Minded(w) => agent[w].claim \in Claims  BY <1>4, MindedClaims
  <2>3. Spent(w)'  BY <1>5, <2>1 DEF HInv, Spent
  <2>4. Kept(w)'  BY <1>2, <1>5, <2>1, <2>2 DEF HInv, Kept, Safe
  <2> QED BY <2>3, <2>4
<1> QED BY <1>7, <1>8, <1>9, <1>10 DEF HInv

LEMMA AnswerLostKeeps ==
  ASSUME HInv, PInv', NEW v \in Agents, ClaimAnswerLost(v)
  PROVE  HInv'
<1>1. PICK j \in Jobs : ClaimNext(j) /\ UNCHANGED agent  BY DEF ClaimAnswerLost
<1>2. /\ \A c \in Claims : newest'[c.job] >= newest[c.job]
      /\ \A c \in Claims : Safe(c) => Safe(c)'
  BY <1>1, ClaimGrants
<1>3. \A w \in Agents : Minded(w) => agent[w].claim \in Claims
  BY MindedClaims DEF HInv, PInv
<1>4. \A w \in Agents : Owned(w)' = Owned(w) /\ (Minded(w)' <=> Minded(w))
  BY <1>1 DEF Owned, Minded
<1>5. \A w \in Agents : Minded(w) /\ Safe(agent[w].claim) => Safe(agent[w].claim)'
  BY <1>1, <1>2, <1>3 DEF Safe
<1> QED BY <1>1, <1>2, <1>4, <1>5, StillKeeps

LEMMA ExpiryKeeps ==
  ASSUME HInv, PInv', NEW j \in Jobs, LeaseExpires(j)
  PROVE  HInv'
<1>1. UNCHANGED agent /\ newest' = newest /\ Expire(j)  BY DEF LeaseExpires, Expire
<1>2. \A w \in Agents : Owned(w)' = Owned(w) /\ (Minded(w)' <=> Minded(w))
  BY <1>1 DEF Owned, Minded
<1>3. \A c \in Claims : newest'[c.job] >= newest[c.job]
  BY <1>1, ConstantsOK DEF HInv, PInv, TypeOK, Claims
<1>4. ASSUME "outage" \notin Mishaps, NEW w \in Agents, Minded(w), Safe(agent[w].claim)
      PROVE  Safe(agent[w].claim)'
  <2> DEFINE c == agent[w].claim
  <2>1. c \in Claims  BY <1>4, MindedClaims DEF HInv, PInv
  <2>2. c = [job |-> c.job, token |-> lease[c.job].token]  BY <1>4, <2>1 DEF Safe, Claims
  <2>3. Renewed(c.job)  BY <1>4, <2>2 DEF Renewed, Minded, Beats, At
  <2>4. c.job # j  BY <1>4, <2>3 DEF LeaseExpires
  <2>5. lease'[c.job] = lease[c.job]
    BY <1>1, <2>1, <2>4 DEF Expire, Claims, HInv, PInv, TypeOK
  <2> QED BY <1>1, <1>4, <2>5 DEF Safe
<1> QED BY <1>1, <1>2, <1>3, <1>4, StillKeeps

LEMMA QueueKeeps ==
  ASSUME HInv, PInv', ReviewUnheld, QueueStep
  PROVE  HInv'
<1>0. UNCHANGED agent /\ TypeOK  BY DEF QueueStep, HInv, PInv
<1>1. newest' = newest /\ \A c \in Claims : Safe(c) => Safe(c)'
  <2>1. CASE SweepExpired
    BY <1>0, <2>1 DEF SweepExpired, Expired, Safe, Claims
  <2>2. CASE ConsoleStep /\ ~SweepExpired
    <3>1. UNCHANGED leases
      BY <2>2 DEF ConsoleStep, MergeTick, UnlinkedTick, TtlTick, DependencyTick, Fetch, Handle,
                  ConsoleRestart, RecordDecision, PassOver, WriteFails, PolicyDecide
    <3> QED BY <3>1 DEF leases, Safe
  <2>3. ASSUME NEW j \in Jobs, Enqueue(j)
        PROVE  newest' = newest /\ \A c \in Claims : Safe(c) => Safe(c)'
    BY <2>3 DEF Enqueue, leases, Safe
  <2>4. ASSUME NEW j \in Jobs, NEW outcome \in {"accepted", "rejected"}, ReviewOutcome(j, outcome)
        PROVE  newest' = newest /\ \A c \in Claims : Safe(c) => Safe(c)'
    <3>1. state[j] = "in_review"
      BY <1>0, <2>4, OutcomeMeansReview DEF ReviewOutcome, TypeOK
    <3>2. lease[j].token = 0  BY <3>1 DEF ReviewUnheld, HasLease
    <3>3. newest' = newest /\ \A k \in Jobs \ {j} : lease'[k] = lease[k]
      BY <1>0, <2>4 DEF ReviewOutcome, DropLease, TypeOK
    <3> QED BY <3>2, <3>3 DEF Safe, Claims
  <2> QED BY <2>1, <2>2, <2>3, <2>4 DEF QueueStep
<1>2. \A w \in Agents : Owned(w)' = Owned(w) /\ (Minded(w)' <=> Minded(w))
  BY <1>0 DEF Owned, Minded
<1>3. \A c \in Claims : newest'[c.job] >= newest[c.job]
  BY <1>0, <1>1, ConstantsOK DEF TypeOK, Claims
<1>4. \A w \in Agents : Minded(w) /\ Safe(agent[w].claim) => Safe(agent[w].claim)'
  BY <1>0, <1>1, MindedClaims DEF HInv, PInv, Safe
<1> QED BY <1>0, <1>2, <1>3, <1>4, StillKeeps

LEMMA VersionKeeps ==
  ASSUME HInv, PInv', RaiseVersion
  PROVE  HInv'
<1>1. UNCHANGED vars /\ \A v \in Agents : agent'[v] = [agent[v] EXCEPT !.outdated = Up(v)]
  BY DEF RaiseVersion
<1>2. \A v \in Agents :
        /\ agent'[v].claim = agent[v].claim /\ agent'[v].file = agent[v].file
        /\ agent'[v].reaping = agent[v].reaping /\ agent'[v].stopping = agent[v].stopping
        /\ agent'[v].pc = agent[v].pc /\ agent'[v].beat = agent[v].beat
        /\ agent'[v].watch = agent[v].watch /\ agent'[v].sdk = agent[v].sdk
  BY <1>1 DEF HInv, PInv, Fitting, PollerTypeOK, AgentStates
<1>3. \A w \in Agents : Owned(w)' = Owned(w) /\ (Minded(w)' <=> Minded(w))
  BY <1>2 DEF Owned, Minded
<1>4. \A c \in Claims : newest'[c.job] >= newest[c.job]
  BY <1>1, ConstantsOK DEF vars, leases, HInv, PInv, TypeOK, Claims
<1>5. \A w \in Agents : Minded(w) /\ Safe(agent[w].claim) => Safe(agent[w].claim)'
  BY <1>1, <1>2 DEF vars, leases, Safe
<1> QED BY <1>2, <1>3, <1>4, <1>5, StillKeeps

LEMMA HInit == PollerInit => HInv
<1> SUFFICES ASSUME PollerInit PROVE HInv
  OBVIOUS
<1>1. \A v \in Agents : agent[v] = Started("idle", NoClaim)  BY DEF PollerInit
<1>2. \A v \in Agents : Owned(v) = {} /\ ~Minded(v)
  BY <1>1, NoClaimIsNone DEF Owned, Minded, Started
<1> QED BY <1>2, PollerInitFits DEF HInv, Apart, Granted, Spent, Kept

LEMMA HStep == HInv /\ ReviewUnheld /\ [PollerNext]_pollerVars => HInv'
<1> SUFFICES ASSUME HInv, ReviewUnheld, [PollerNext]_pollerVars PROVE HInv'
  OBVIOUS
<1>1. PInv'  BY PInvStep DEF HInv
<1>2. CASE UNCHANGED pollerVars
  <2>1. \A w \in Agents : Owned(w)' = Owned(w) /\ (Minded(w)' <=> Minded(w))
    BY <1>2 DEF pollerVars, Owned, Minded
  <2>2. \A c \in Claims : newest'[c.job] >= newest[c.job]
    BY <1>2, ConstantsOK DEF pollerVars, vars, leases, HInv, PInv, TypeOK, Claims
  <2> QED BY <1>1, <1>2, <2>1, <2>2, StillKeeps DEF pollerVars, vars, leases, Safe
<1>3. ASSUME NEW v \in Agents, MainStep(v) \/ ThreadStep(v) \/ SystemStep(v) PROVE HInv'
  BY <1>1, <1>3, MainKeeps, PollClaimKeeps, AnswerLostKeeps, ThreadKeeps, SystemKeeps
<1>4. ASSUME NEW j \in Jobs, LeaseExpires(j) PROVE HInv'
  BY <1>1, <1>4, ExpiryKeeps
<1>5. CASE QueueStep  BY <1>1, <1>5, QueueKeeps
<1>6. CASE RaiseVersion  BY <1>1, <1>6, VersionKeeps
<1> QED BY <1>2, <1>3, <1>4, <1>5, <1>6 DEF PollerNext

LEMMA HInvHolds == PollerSpec => []HInv
<1>1. PollerSpec => []ReviewUnheld  BY Implements, ReviewUnheldHolds
<1> QED BY <1>1, HInit, HStep, PTL DEF PollerSpec

\* An SDK that is beaten for and not being stopped has the lease it was started
\* under, whatever requests, crashes, restarts, late watchdogs and drains happen on
\* any VM, as long as no beat is kept away for the length of a lease.
THEOREM RunsHeldHolds == PollerSpec => []RunsHeld
<1>1. HInv => RunsHeld
  <2> SUFFICES ASSUME HInv, "outage" \notin Mishaps, NEW v \in Agents,
                      agent[v].sdk = "run", Unaware(v)
               PROVE  Holds(v)
    BY DEF RunsHeld
  <2>1. Fitting  BY DEF HInv, PInv
  <2>2. Minded(v)  BY <2>1 DEF Unaware, Minded, Fitting, Coherent
  <2>3. agent[v].claim \in Claims /\ Safe(agent[v].claim)
    BY <2>1, <2>2, MindedClaims DEF HInv, Kept
  <2> QED BY <2>3, NoClaimIsNone DEF Holds, Current, Fenced, Safe
<1> QED BY HInvHolds, <1>1, PTL

\* Two VMs never run SDKs for one job at a time, both unaware of any reason to stop:
\* they would hold one lease, and a token is granted to one VM only.
THEOREM OneRunPerJobHolds == PollerSpec => []OneRunPerJob
<1>1. HInv => OneRunPerJob
  <2> SUFFICES ASSUME HInv, "outage" \notin Mishaps, NEW v \in Agents, NEW w \in Agents,
                      v # w, agent[v].sdk = "run", agent[w].sdk = "run", Job(v) = Job(w),
                      Unaware(v), Unaware(w)
               PROVE  FALSE
    BY DEF OneRunPerJob
  <2>1. Fitting  BY DEF HInv, PInv
  <2>2. Minded(v) /\ Minded(w)  BY <2>1 DEF Unaware, Minded, Fitting, Coherent
  <2>3. /\ agent[v].claim \in Claims /\ agent[v].claim \in Owned(v) /\ Safe(agent[v].claim)
        /\ agent[w].claim \in Claims /\ agent[w].claim \in Owned(w) /\ Safe(agent[w].claim)
    BY <2>1, <2>2, MindedClaims DEF HInv, Kept
  <2>4. agent[v].claim = agent[w].claim  BY <2>3 DEF Safe, Claims, Job
  <2> QED BY <2>3, <2>4 DEF HInv, Apart
<1> QED BY HInvHolds, <1>1, PTL

-----------------------------------------------------------------------------
\* A claim a VM lost.

\* A claim whose lease a VM can no longer speak for - it was swept, given back,
\* ended or granted anew - is lost for good: whatever watchdog, heartbeat or
\* restarted poller still holds it, on whatever VM, and however late its request
\* arrives, the claim never matches a lease again (the token check of
\* heartbeat, release_lease and transition refuses it).
THEOREM LostClaimsStayLost ==
  ASSUME NEW v \in Agents, NEW c \in Claims
  PROVE  PollerSpec => [](c \in Owned(v) /\ ~Current(c) => []~Current(c))
<1> DEFINE Given == c.token <= newest[c.job]
<1>1. c.job \in Jobs /\ c.token \in Nat \ {0} /\ c # NoClaim
  BY NoClaimIsNone DEF Claims
<1>2. Spec => FencedOff(c.job, c.token)
  BY <1>1, TokensAreFenced
<1>3. Spec => [](~Fenced(c.job, c.token) /\ Given => []~Fenced(c.job, c.token))
  BY <1>2 DEF FencedOff
<1>4. Current(c) <=> Fenced(c.job, c.token)
  BY <1>1 DEF Current
<1>5. HInv /\ c \in Owned(v) => Given
  BY DEF HInv, Granted
<1> HIDE DEF Given
<1>6. PollerSpec => []HInv
  BY HInvHolds
<1> QED BY <1>3, <1>4, <1>5, <1>6, Implements, PTL


=============================================================================
