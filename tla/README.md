# Dispatch queues, pollers and phase runner: TLA+ models and proofs

The repository runs a fleet of coding agents. Its core is the *dispatch queue v2* of the
ops console: producers enqueue stories, agents claim them under a lease, report what became
of them, managers and webhooks judge the pull requests, and background watchers repair what
others leave behind. Everything goes through an append-only event table whose trigger keeps
the current state of each job. On each VM a *poller* holds the agent's end of a lease while an
SDK process works; an older *v1 queue* with its own poller, and the *phase runner* that takes a
story through its phases on a git branch, are in use beside it. This directory models these parts,
checks them with TLC and proves their main safety properties with TLAPS.

| file | contents |
|---|---|
| `DispatchStates.tla` | states, lanes, events and the tables shared by service and trigger |
| `JobLease.tla` | abstract: what is promised of the lease of one v2 job, implemented by `DispatchV2` and by `DispatchTxn` |
| `JobLease_proofs.tla` | what follows from that promise |
| `DispatchV2.tla` | the v2 queue: jobs, leases, decisions under way, one action per transaction; properties |
| `FailurePolicy.tla` | `POLICY_TABLE` and its lookup |
| `MCDispatchV2.tla`, `dispatch_*.cfg` | instances for TLC |
| `DispatchV2_proofs.tla` | inductive invariant and theorems about `DispatchV2`, its refinement of `JobLease`, and what `Correlation` supposes of it |
| `DispatchTxn.tla` | one v2 job, statement by statement, under READ COMMITTED; properties |
| `MCDispatchTxn.tla`, `txn.cfg` | instance for TLC |
| `DispatchTxn_proofs.tla` | inductive invariant and theorems about `DispatchTxn`, its refinement of `JobLease` |
| `DispatchTxnClaims.tla`, `claim_replay.cfg` | a promise of `replay_state` that overlapping transactions break |
| `PollerV2.tla` | the v2 agents (poller, orchestrator, heartbeat and watchdog threads, systemd), composed with `DispatchV2`, which they are shown to implement |
| `MCPollerV2.tla`, `poller_*.cfg` | instances for TLC |
| `PollerV2_proofs.tla` | the agents implement the queue; inductive invariant and theorems about `PollerV2` |
| `PollerV2Claims.tla`, `claim_missing_pr.cfg` | a docstring of the poller that the composition does not keep |
| `Correlation.tla` | how jobs come to exist: `/enqueue`, `/redispatch` and the linking of pull requests, as transactions of two steps; properties |
| `MCCorrelation.tla`, `correlation.cfg` | instance for TLC |
| `Correlation_proofs.tla` | inductive invariant and theorems about `Correlation` |
| `DispatchV1.tla` | the v1 queue and its pollers, heartbeat threads included; properties |
| `MCDispatchV1.tla`, `v1_*.cfg` | instances for TLC |
| `DispatchV1_proofs.tla` | inductive invariant and theorems about `DispatchV1` |
| `StoryBranch.tla` | abstract: what is promised of the branch of a story |
| `PhaseRunner.tla` | the phase runner over its clones and the origin; implements `StoryBranch` |
| `MCPhaseRunner.tla`, `phase_runner.cfg` | instance for TLC |
| `PhaseRunner_proofs.tla` | inductive invariant, theorems about `PhaseRunner` and its refinement |
| `PROJECT.json` | components, runs, mutants, source map, findings, hazards, theorems |

Run `tlc -config dispatch_one.cfg MCDispatchV2.tla`, `tlc -config claim_missing_pr.cfg
PollerV2Claims.tla`, `tlapm DispatchV2_proofs.tla`; the other files likewise.

## 1. Inventory

### The system's parts

Paths are under `src/`; `ops_console/` stands for `tech_dev_agents/ops_console/`.

| part | state it keeps | operations | modelled in |
|---|---|---|---|
| Projection: `scripts/migrations/050`, `051`, `059`, `060` | `dispatch_jobs`, `dispatch_v2_events`, `dispatch_state_current`, `dispatch_leases`, `dispatch_dependencies`, `dispatch_v2_quarantine` | trigger `dispatch_state_apply()` on each event | `DispatchStates`, `Project` |
| Service: `ops_console/services/dispatch_v2_service.py` | none of its own | claim, heartbeat, release, transition, claim_by_id, review outcome, link PR, PR feedback, redispatch | `DispatchV2`; redispatch, set PR number and link PR in `Correlation`; the statements of each in `DispatchTxn` |
| Routes: `ops_console/routes/dispatch_v2.py` | none | operator resume, cancel, dead-letter; the policy call after `failed`; enqueue, rework | `DispatchV2`; enqueue in `Correlation` |
| Failure policy: `ops_console/services/dispatch_failure_policy.py` | the policy table | `classify()`, `apply()` | `FailurePolicy`, `PolicyDecide`; the class is a free choice |
| Watchers: `ops_console/services/self_healing.py`, started by `ops_console/main.py` | rows fetched by a tick in progress | lease sweeper, PR-merge sweeper, link backfill, stale unlinked review sweeper, needs_info TTL, dependency watcher, stuck-agent watcher | `DispatchV2` |
| v2 poller: `deployment/hermes/dispatch_poller_v2.py` | the claim it works on, globals read by its signal handler, `active_lease.json` | poll, run the SDK, heartbeat thread, report, SIGTERM | `PollerV2` |
| Orchestrator: `tech_dev_agents/orchestration/v2_orchestrator.py` | none that outlives a run | the same job phase by phase, with its own heartbeat thread | `PollerV2` (agents of `Orchestrated`) |
| Watchdog: `deployment/hermes/sdk_progress_watchdog.py` | `fired` | kill a run that hangs or lost its lease, release, clear the lease file | `PollerV2` |
| Draining: `deployment/hermes/drain_leases.py`, `deployment/vm/systemd/dispatch-poller.service` | the lease file | ExecStop, SIGTERM, restart | `PollerV2` (`Drain`, `Sigterm`, `Restart`) |
| v1 queue: `ops_console/routes/dispatch.py`, `ops_console/services/dispatch_db_service.py` | `dispatch_items` | enqueue, next, claim, heartbeat, complete, fail, release, pause, needs-info, answer, cancel, reclaim, stale-claim recovery | `DispatchV1` |
| v1 poller: `deployment/hermes/dispatch_poller.py` | the local queue file, the worker thread | poll, run, report, auto-retry | `DispatchV1` |
| Phase runner: `deployment/hermes/sdlc_phase_runner.py` | a clone per VM, the story's branch, `QUESTION.md` | branch setup, phases, saves and pushes, questions, gates, report | `PhaseRunner`; its heartbeat thread in `DispatchV1` |
| Morris: `deployment/morris/scripts/` | mode and cooldown files | detect and intervene through the operator endpoints | no (its requests are) |
| Knowledge, apprenticeship, approvals, chat, cost, presence, dashboards, deployment | tables and caches of their own | reading, reporting, provisioning | no |

`PROJECT.json` gives the reason for each part that is not modelled.

### How they interact

* Agents, managers, operators and GitHub webhooks send HTTP requests to the one console
  process. A handler runs one database transaction, except `/transition` with `failed`, which
  commits and then awaits the failure policy.
* Every state change of a v2 job is an insert into `dispatch_v2_events`; the trigger derives state
  and lane from the event type alone. It never looks at the previous state. Only `/transition`
  and `/review-outcome` check the transition table first; the operator endpoints check a list of
  terminal states; watchers and the failure policy check nothing at the time they write.
* A lease row fences the agents' requests: its token is drawn anew with each lease. Managers,
  operators, webhooks and watchers hold no token.
* The watchers are asyncio tasks of the console. Each fetches rows, awaits something per row
  (GitHub, a query), writes an event per row, sleeps, and starts over. What a tick has fetched
  and not yet written exists only in memory.
* A v2 poller is three threads that share a few objects and no lock: the main thread, a heartbeat
  thread that learns of a lost lease, a watchdog thread that kills the SDK and releases. systemd
  runs `drain_leases.py` beside them before it sends SIGTERM.
* A v1 row carries its holder's name and two timestamps instead of a lease. Several routes name the
  story and not the repo. A worker thread runs the phase runner in the poller's process; its heartbeat
  thread is stopped only on success.
* The runners of a story meet only on GitHub: each VM pushes its clone's branch, and the console
  asks GitHub for the commit that a completion names.

### What is hard about it

Late requests of agents that lost their lease; rows fetched before an await and written after;
two transactions where one is needed (sweeper, failure policy); a restart in between; two requests for the
same work at once, and requests repeated after a lost answer; limits of retry counts; dependencies and quarantine
that only one of many writers consults; watchers that alone guarantee that waiting ends; threads that outlive
what they were started for; a process that ends between its claim and its notes; a stop that
releases a lease while the work goes on; a clone that keeps what the last story left in it, or is
behind the origin; pushes whose failure is tolerated. `PROJECT.json` lists the hazards at their lines. Left out of that list, as
nothing in the code ends or prevents them: an agent that is stuck but heartbeats (the stuck-agent watcher only logs), a quarantined
job (it never leaves by itself), and one row that cannot be written and starves the dependency and needs_info watchers.

### What makes each part correct

* Leases: a job in review is out of reach of agents; a job is not `leased` without a lease except
  in the sweeper's window; a dead agent's job comes back.
* Projection: finished jobs stay as they are unless someone claims them again.
* Transactions: what holds of handlers taken as one step holds of their statements, by the order these come in and the few rows they lock.
* Failure policy: a class is retried as often as its row says, never more.
* Claims: dependencies and quarantine are respected by every path that leads to a lease.
* Enqueue and redispatch: a story or a pull request is worked on by one job at a time, a replaced job stays
  finished, and a repeated request creates nothing.
* Watchers: no question, unlinked review, lease or quarantine lasts for ever.
* Agents: everything they do to the queue is a step the queue allows; no SDK works without the lease
  it was started for longer than it takes its threads to find out; whatever becomes of an agent, its
  job comes back.
* v1 queue: an agent has one claim at a time; a claim ends whatever becomes of its agent; a finished row stays so; nothing is
  worked on before its dependencies are done; retries are capped.
* Phase runner: what was pushed is never lost, no file of another story arrives on a branch, what a completed run
  reports has been committed, and only work that is on the branch is accepted.

## 2. The models

### The v2 queue

`DispatchV2` has the tables as functions from jobs:

| variable | code |
|---|---|
| `state`, `lane` | `dispatch_state_current` |
| `lease` | the row of `dispatch_leases` or `NoLease`; the token (a UUID) is the number of the lease, so tokens never repeat; `expired` is `expires_at < now()`, `alive` says whether the process that holds it still runs |
| `newest` | how many tokens have been handed out: what a late request may carry |
| `linked` | `pr_number IS NOT NULL` |
| `failures` | the `failed` events of a class, which `apply()` counts |
| `calls` | `/transition` handlers that have committed `failed` and not yet run `apply()` |
| `decided` | events a coroutine has decided to record, by watcher (or by policy decision and class) |
| `requeues`, `orphaned` | history: retries granted, and jobs whose `released` event was lost |

Each handler is one action, named after the route or function, and includes everything the
transaction does. Where code awaits between a read and a write, there are two: `Fetch`-like ticks
and the policy's `PolicyDecide` put decisions into `decided`; `RecordDecision` writes one,
`PassOver` drops one whose answer is no, `WriteFails` one whose write raised (for the two watchers
that do not catch it, with the rest of the tick), and `ConsoleRestart` loses all of them. The
expired-lease sweeper's DELETE is itself a write, so `SweepExpired` removes leases and decides
on the releases.

Time is abstracted: `Expire` may happen at any moment, and a tick that asks for old rows may fetch
any subset of those in the right state. What is lost is how long things take, for instance that an
unanswered question loses its lease after 15 minutes and its turn after 24 hours. Names, prompts,
repos, scopes and roles are left out, hence `/claim-next` may take any eligible job. GitHub may
answer either way. `dispatch_dependencies` and `dispatch_v2_quarantine` are constants, since
nothing in the repository writes them. The v1 cancel route writes the same event as
`OperatorCancel`.

`Faults` switches off what a run does not ask about; `DepsQueryRuns` says whether the dependency
watcher's query finds the column it names (it does not in the repository's schema). The safety
runs set it to TRUE, which allows every behaviour of FALSE and more.

`JobLease` is the abstract specification of one job's lease, as a client of the queue may count on it: a claim and its lease come in one
step and take nobody's lease but a manager's claim does, an event that ends a lease and the end of the lease are one step, only the sweeper takes a lease and
leaves the job as it is, and no token comes into force twice. `DispatchV2` implements it for each of its jobs (`LeasesAsPromised`), with `owed` true while a
`released` event is decided on or was lost. `DispatchTxn` implements it as well (`LeaseAsPromised`), with the lease and state that are committed. It does not implement
`DispatchV2` itself: a claim may lease a job whose dependency or state has changed since its snapshot, a late handler may delete a newer
lease, and two events may be projected in the order opposite to their ids (section 3). `JobLease` is what handlers taken whole
and handlers taken apart have in common.

### Correlation

`Correlation` shares `DispatchStates` with `DispatchV2` and looks at the same tables from the producers'
side:

| variable | code |
|---|---|
| `state` | `dispatch_state_current.state`, `"absent"` for an id not yet drawn |
| `untriaged` | jobs that failed with `failure_class = 'unknown'`, from which `/redispatch` refuses to start |
| `story`, `key` | `dispatch_jobs.repo` with `story_id`, and `correlation_key` |
| `origin` | per job, the request that created it: `rework_of`, its correlation and idempotency keys, and history |
| `request` | per handler, a transaction between its reads and its commit |

`/enqueue` and `/redispatch` are each one READ COMMITTED transaction that reads, decides and inserts, and
locks nothing of what it read. Each is therefore two actions, `EnqueueReads` or `RedispatchReads` and
`Insert`, with any step of any other writer in between; `RollBack` is a restart or a statement that raises.
The several SELECTs of a transaction are one step. The rest of the queue (claims, agents,
watchers, policy, operators) is `Record`: any event of `Events` that one of its writers may record in
the job's state (`MayBeRecorded` of `DispatchStates`). That is coarser than `DispatchV2`, and what is proved of it holds with any scheduling of those
writers. That `DispatchV2` records no other event is `EventsAsRecorded`, which section 4 proves of it. `StampPr` and `LinkPr` are the two ways in which a row's key changes; the second also changes its repo.

The field `still` of a request is history. It holds the jobs that its reads saw and that nothing has since
revived (moved from a state that does not block the check to one that does) or given another key or
story. The properties speak about those jobs only: they separate what the check guarantees from what it
cannot, since nobody repeats the check.

A forced cancellation of the parent inserts an event with `jsonb_build_object('...', $2)`, a parameter of no
declared type, which PostgreSQL refuses to prepare ("could not determine data type of parameter"). The
constant `ForcedCancelRuns` says whether it goes through: the run sets it to TRUE, which allows
every behaviour of FALSE and more. `claim_by_id` has the same parameters;
in `DispatchV2` it is switched by `Faults`.

### The statements of a transaction

`DispatchTxn` takes one job of the v2 queue and lets the statements of its transactions interleave, as `DispatchV2` does not. Committed are `state` (the
row of `dispatch_state_current`), `lease` (the row of `dispatch_leases`), `newest` (tokens drawn), `drawn` (event ids drawn) and `last` (the event with
the highest id, which is where `replay_state` ends). `txn` has per connection the transaction under way: the token its request bears, what it has read, what it has
written and not committed, what it has locked. `Program(k)` lists the statements of a request of kind `k` in the order of the handler. Two statements are split further, since
PostgreSQL can wait in the middle of them: a DELETE or UPDATE of the lease is `find` (its snapshot) and `drop` or `renew` (the write, which does nothing if the row
found is gone), and the insertion of an event is `number` (the id from the sequence), `share` (the foreign key's lock on the job) and `project` (the trigger's
upsert, which waits for the row's other writer). What the code relies on is what PostgreSQL does: a statement reads what is committed when it starts, a row has one
writer at a time, a second lease for the job waits for the first and fails, `SKIP LOCKED` skips. `Abort` stands for every way not to commit: a stale token, an illegal
transition, a duplicate key, a lost connection, a deadlock. The sweeper's DELETE commits by itself (`Sweep`), and its `released` may fail (`lost`).

Left out: requests whose statements are those of another kind (`dead_lettered` and `quarantined` are like `failed` from an agent, like `cancel` from an operator), the dependencies, quarantine and lanes a claim's snapshot joins, and the job-row
locks of `set_pr_number` and of a submission's pull request, which only make a claim skip the job.

### The v2 agents

`PollerV2` EXTENDS `DispatchV2` and adds one variable, `agent`: per VM the main thread's place (`pc`), the claim in its
locals and globals, the lease file, the SDK process, the heartbeat thread and what it has told, this run's watchdog,
the watchdogs of earlier runs that have yet to release (`reaping`), and two facts about its world (`stopping`: ExecStop has run;
`outdated`: its requests are answered 426). Every request is the action of `DispatchV2` that serves it, conjoined with what the
agent does with the answer; a refused or lost request leaves the queue alone. The `needs_info` of a run without a pull request is
such a refused one (see the findings).

The steps of the main thread follow `poll_loop` and `_run_sdk`: claim, write the lease file and register with the signal handler, start the
SDK and its threads, collect, post, clear. The watchdog is three steps, because three things can come in between: `Trip` (the
decision), `Fire` (flag and kill), `Reap` (release and clear the file, after the grace period). ExecStop's `Drain` runs while
the poller works; `Sigterm` may hit the main thread anywhere and knows the claim only between registration and clearing. A VM of
`Orchestrated` goes through `run_orchestrated`: no watchdog, a heartbeat that does not look at the SDK, no
pull request in its `submitted`, and a lost lease noticed between phases only.

Left out: `RestartSec`, the workspace, prompts and outputs (a run ends `ok` or `failed`, with any class but the watchdog's), and phase
events, which the service refuses in every state.

### The v1 queue

`DispatchV1` has `row`, the table `dispatch_items` (per row: status, holder, whether `updated_at` is later than `claimed_at`, the age of
`claim_heartbeat_at`, `stale_release_count`, the retry number in the prompt, whether `pr_number` is set), `inserting`, the enqueue
requests between their SELECT and their DELETE and INSERT, and per agent the place of its poll cycle or worker (`pc`), the row it was
offered (`job`), and the retry number it carries. `ghosts` are the heartbeat threads of runs that returned without stopping them:
`run_sdlc_phases` sets the stop event only where it succeeds. `late` are claim requests the console still serves though nobody waits for them.
`shipped` and `unguarded` are history.

A claim is two transactions, as in the route: `CheckClaims` asks `has_active_claim` on a connection of its own, and `Claim`, `ClaimRefused` or, once
the poller's ten seconds are over or its process has died, `LateClaim` is the rest of the request. Either check, that of `/next` and that of `/claim`, lets the agent pass when it
raises (`"check"` in `Faults`: `NotBusy`, and the place "waved"). `unguarded` records the rows whose claim came about by a reclaim, by a check that raised or by a late request.

A row is one `(story_id, repo)`; `RowsOf` is what a route that names the story alone may mean, and `Meant` what an agent's report may.
`GetNext` may offer any row the gates let through (priorities order them, roles filter them). Recovery's tiers are three actions with the
tests on timestamps that the SQL makes; `BeatAges` is the fifteen minutes in which nobody who could beat did.
Reports that are lost, refused (409) or blocked by the review are one outcome: the row stays.

### The phase runner

`PhaseRunner` is about git. A branch is the sequence of its commits since main; a commit carries the tree it leaves, a tree is a set of files, and a
file is a story with the phase it delivers (or `QUESTION.md`). Each VM has a clone: local branches, the one checked out, a working
tree. `CheckedOut` carries uncommitted files over, as `git checkout` does; `Stashed` drops them (nothing pops the stash); `Push` is refused
unless it is a fast-forward. GitHub's main is protected (`docs/hermes-prompt.md:624`) and does not move. A call of `run_sdlc_phases` is:

* `Start`: the claim. The pre-loop guard sees the status "claimed", so a story enqueued again after its completion runs again. A resumed question is deleted and committed on whatever
  branch is checked out (`Consumed`).
* Branch setup: `Resume` from the origin or the clone's own branch, `StayOn` where the story's branch is checked out already, `Greenfield` from main and `Sync`, the fetch and `reset --hard`
  that follow it. Both stashes may fail unnoticed (`kept`), and from main no stash is made at all. `SetUp` is what comes before the loop: a seed copied in, untracked, the seed's declared Phase
  Path read, stale questions removed (`git rm` refuses an untracked file, and a commit may fail).
* Per phase: `Session`, which writes the phase's file or not and a question or not; meanwhile any number of `SessionCommits` (all of its changes or a part),
  `SessionPushes` and `SessionStrays` (another branch checked out); `SessionEnds` with `_save_partial_work`, whose commit and push may fail; then the checks, each an action guarded as in the code and
  in its order (`Ask`, `PhaseFails`, `NoDeliverable`, `RetryImpl`, `SilentAgain`, `PhaseDone`). A phase the declared path leaves out, or whose file lies in the working tree, is passed over (`IsNext`).
  Phase 8's commit count may raise, which lets the run proceed (`Counted`), or come back empty, which counts as none (`NoneCounted`).
* `Finish`, the last push, of the branch checked out; the gates; and `Report`. The console accepts if GitHub knows the commit and its tree has the required files; it is not asked without a token,
  and no answer about the tree is taken for yes (`Sees`).

Some of this goes wrong in the code and nothing there prevents it, so properties speak of the rest, and say which: `crossed` records the branches that got, or lent, another story's work (a session or the question
path committed on a branch not its own; branch setup carried another story's changes along), `strayed` that a session of this run switched branches, `uncounted` that phase 8's count was let pass, `loose` that the working tree may hold a
deliverable that no save has seen, `seen` what the console asked GitHub.

A session adds files of its own story and the phase its prompt names; one that wrote other files, or deleted some, would break any property of the branches by itself. A session outlives its poller, and the next claim on the VM
waits for its end (`is_agent_idle`), so `Crash` may be taken to come after what it still does.

`StoryBranch` is the abstract specification: per story a log of trees that only grows, by trees that hold files of main and of the story
alone unless the story is `mixed`, and a set of accepted completions, each, if GitHub was asked, for a state the branch went through. `KeepsBranches` is
`PhaseRunner`'s refinement of it, with the commits' trees as the log and the stories of `crossed` as `mixed`.

### Bounds

`MaxLeases` bounds the leases of a job: in `DispatchV2` it is the only bound, and it makes the state space finite because
every failure, and hence every policy decision, needs a lease. Three leases let one job be retried
(`lease_lost` has two attempts), fail again, be escalated, and be claimed by id once more while
messages of both earlier leases are under way. Two jobs are the least for dependencies and for a sweep
of several leases, and a third is barred. No property relates three jobs. The classes are one for each kind of policy row: two attempts,
one attempt, quarantine, attention, dead letter.

`PollerV2`: one job and two leases are the least for two VMs on one job, which is what the properties are about; one VM is bare and one
orchestrated. A poller with a late thread of its first claim and a second claim needs two leases as well. One phase in `poller_safe` (the
loop is the same for each), two in `poller_live`, so that a lease can be lost between phases. Two failure classes, of which one is the watchdog's. Each of
the two runs leaves some mishaps to the other: `outage` is excluded from the safety properties and the stops
are not needed for liveness, since a stopped poller is one that crashed.

`DispatchTxn`: two connections are the least that interleave; two leases and four events after `enqueued` allow a claim, a request of its holder
and two requests of others, one of them late. Both bounds and the number of connections are arbitrary in the proofs. The run has every kind of request
but `resumed`, which no v2 agent sends and which breaks `LeasedIsHeld` (see the further observations).

`Correlation` is bounded by `Jobs`: three ids allow a parent and two children, or three enqueued jobs of one
story. Two requests are the least that overlap. One story, one key and one idempotency key make every
request compete with every other; the sets are symmetric. With one idempotency key a child has no sibling under another key,
so the run checks that a repeat creates nothing at all; the exception for siblings is covered by
the theorem. `Events` of the run are one way to fail, one way back and the one state (`quarantined`) that is
in neither of the two lists of states the checks consult.

`DispatchV1`: `v1_queue` has two rows of two stories, one depending on the other, and one agent, whose ghosts, restarts, late requests and
reclaims by hand compete with it, with the caps on retries and stale releases at zero; `v1_live` has two agents and one row, with caps of one, so that
both sides of each cap are reached. Each leaves some calls to the other: between them they make all of them. Late requests and checks that raise are left to `v1_queue`; a claim they lead to
looks, in `v1_live`, like one whose answer was lost. `MaxRetries` and `MaxStale` are the code's own bounds and make the state finite. A story
in two repos (`StoryOf` not injective) is allowed by the model and the proofs and not by the runs.

`PhaseRunner`: two VMs, two stories, of which one is run twice and one once, and a path of phases 1, 7 and 8. Phase 1's file of one story is on main, and the other story's may be copied in; the first story's seed
leaves out phase 7. Two runs of one story on two VMs and one of another in between are the least for stale clones, leftovers and competing pushes. `MaxRuns`
bounds the claims and `MaxOdd` what is out of the ordinary: faults, sessions that commit or push by themselves, ask or write nothing, answers. Three such events, of eleven kinds of fault, are what it takes to
have a clone left dirty, a stash fail and a push or commit go where it should not. The VMs are symmetric (no liveness is checked there). The proofs have no bound on any of these.

### Fairness

`FairSpec` of `DispatchV2` assumes that time passes (`Expire`), that the watchers' loops tick (`while True` with a sleep,
exceptions caught) and that coroutines are resumed. A tick may leave rows out only because they are not
old enough, so a row that is in the right state again and again is fetched in some tick: strong
fairness per job for the two watchers with an age limit. Nothing is assumed of agents, managers,
operators or GitHub. No restart or failing write is part of this liveness run: both lose decisions for good.

`FairPollerSpec` assumes in addition that threads are scheduled: heartbeats and watchdog ticks come, a process that was told to stop
is, a main thread that has claimed goes on. Not that an SDK ever ends, nor that a stopped poller is started again. One assumption is about time:
a lease (15 minutes) outlasts the interval of the heartbeats (a few minutes), the preparation of a workspace and the report, so `LeaseExpires` is
disabled while someone renews the lease (`Renewed`), unless an outage keeps the beats away (`outage`).

`FairSpec` of `DispatchV1` assumes that the recovery loop runs, that time passes, that threads go on and that a run ends (each phase has a time limit, and a ghost's
watchdog another). Not that agents poll, nor that they stop crashing, giving up or being restarted.

## 3. What is checked

| run | instance | shows |
|---|---|---|
| `dispatch_one` | 1 job, 3 leases, 5 classes, all faults but a failing count | `TypeOK`, `ReviewUnheld`, `HeldOrBeingFreed`, `RetryBudget`, `RestIsBroken`, `LeasesAsPromised` |
| `dispatch_pair` | 3 jobs, b after a, the third barred, operators, restarts, failing writes | `HeldOrBeingFreed` with several leases in one sweep, `BarredNeverRuns`, `DependencyRanFirst` |
| `dispatch_live` | 1 job, 3 leases, managers and operators, fair | `DeadHolderRecovered`, `WaitsEnd`, `RetryGranted` |
| `txn` | 1 job, 2 connections, 2 leases, 5 events, 14 kinds of request, aborts | `TxnTypeOK`, `NoLeaseInReview`, `LeasedIsHeld`, `OneHolder`, `LeaseAsPromised` |
| `correlation` | 3 jobs, 2 requests, 1 story, key and idempotency key; `failed`, `requeued`, `quarantined` | `TypeOK`, `DuplicatesOverlap`, `LineageExclusive`, `IdempotentButForSiblings` |
| `poller_safe` | 2 VMs, 1 job, 2 leases; stops, crashes, failing requests, a version bump, hangs | `PollerTypeOK`, `RunsHeld`, `OneRunPerJob`, and `Spec` of `DispatchV2` |
| `poller_live` | the same with 2 phases, an outage and no stops, fair | `LostRunStops`, `JobComesBack` |
| `phase_runner` | 2 VMs, 2 stories, 3 runs; up to three faults or doings of sessions, of every kind | `TypeOK`, `OwnFilesOnly`, `ReportedIsCommitted`, `AcceptedHasCommits`, `AcceptedKept`, `KeepsBranches` |
| `v1_queue` | 2 stories, 1 agent, completions, cancellations and reclaims by hand; restarts, lost answers, late requests, failing checks | `TypeOK`, `OneClaimEach`, `WorkAfterDeps`, `NoSlowTier`, `TerminalLeftByEnqueue` |
| `v1_live` | 1 story, 2 agents, pause, question, review and release, lost answers, restarts, fair | `DeadClaimReturns` |

* `ReviewUnheld`: in review means no lease, so agents cannot touch the job.
* `HeldOrBeingFreed`: leased without a lease only while (or because) the sweeper's second write is missing.
* `RetryBudget`: fewer than `max_attempts` retries per class, for any interleaving of failures and policy runs.
* `RestIsBroken`: a finished job with no lease and nothing under way is moved only by `claim_by_id`.
  Weaker statements are false: see the further observations. The run and the theorem are about `DispatchV2`, which leaves out the forced cancellation of a
  parent by `/redispatch`; that event is in `Correlation`.
* `LeasesAsPromised`: each job's lease behaves as `JobLease` says, with every fault of the run: in particular a token never comes back into force, though tokens
  are handed out by two kinds of claim and many events end a lease.
* `DependencyRanFirst`: a lease is granted only after each dependency in the queue was leased once.
  That it was *completed* at that moment is the claim's guard; that it stays so is false, since
  a late decision can requeue a completed job.
* `BarredNeverRuns`: no sequence of requests other than a claim by id gets a barred job leased.
* `DeadHolderRecovered`, `WaitsEnd`, `RetryGranted`: the watchers and the policy do end the waits they are there for.
* `NoLeaseInReview`, `LeasedIsHeld`: what `ReviewUnheld` and `HeldOrBeingFreed` say, of statements. Neither token nor state is locked between check and use, so
  both rest on order: a submission writes its event, hence holds the state row, before it looks for leases, and a claim inserts its lease before it
  projects `leased`.
* `OneHolder`: of two claims whose snapshots both saw the job free, one fails on the primary key of `dispatch_leases`; only a claim by id takes a lease away.
* `LeaseAsPromised`: the committed lease and state of the job move as `JobLease` says, whatever statements come between those of a handler. It fails as soon as a handler
  drops the lease outside the transaction that records its event.
* `DuplicatesOverlap`: when a job is inserted, each job of its story (enqueue) or key (redispatch) that its request could
  see is finished or inactive, and stays so until revived or relabelled. Two live jobs for one pull request
  hence come only from overlapping requests, a revival or a relabelling.
* `LineageExclusive`: a redispatched job's parent was finished or is cancelled with the insertion, and stays
  finished unless an event (the failure policy's late requeue, say) revives it.
* `IdempotentButForSiblings`: a repeat of a redispatch that could see the first child under the same key creates
  another only if the parent has a child of another idempotency key, which the lookup (`LIMIT 1`, no order)
  may fetch instead.
* `RunsHeld`: an SDK that works has the lease it was started for, unless its heartbeat thread is gone, its VM is being stopped or its watchdog is
  about to kill it. It rests on the order in which threads are started, on the token each of them captured, and on nothing
  else in the process releasing this claim. `OneRunPerJob` is what it is for: of two VMs that work on one job, at least one is in one of these three cases.
* `LostRunStops`: a bare run whose lease is gone is killed. The exception (`beat = "dead"`) is the heartbeat thread that a 426 ended without a word.
* `JobComesBack`: whatever a crash, a lost request, a refused report or a version bump leaves behind, a job under whose lease nothing runs
  leaves `leased`.
* `Spec` (as a property of `poller_safe`): the pollers implement the queue's specification, which lets requests come in any order with any token: so all
  its invariants hold of the composition.
* `OneClaimEach`: of the claims that the check let an agent make and whose answer it waited for, it has one at a time. Check and claim are two transactions, and what makes
  this true is that an agent makes one request at a time, that the check asks the table and not the agent, and that the table forgets a claim only when it is released. It says what the guard does
  guarantee: reclaims, checks that raised and requests served late are excepted, and each of them does give an agent a second claim.
* `WorkAfterDeps`: dependencies are checked when a row is offered. It holds through claims, releases and re-enqueues because a dependency once completed with a
  pull request stays shipped in the history; that it still is `completed` is false.
* `NoSlowTier`: the third tier of `recover_stale_claims` (an hour) never finds a row, so the first two (five and fifteen minutes) decide alone: the
  docstring's protection of long phases is the heartbeat thread, not that hour.
* `TerminalLeftByEnqueue`: late failures, ghosts' watchdogs, reclaims and recovery do not move a completed or cancelled row.
* `DeadClaimReturns`: a claim nobody works on ends: by a tier, a ghost's watchdog or a person.
* `OwnFilesOnly`: whatever a crash, a failed phase or a failed save left in a clone, no commit on a story's branch brings a file of another story, but for the ways `crossed` records. It rests on the stash, on the save's look
  at the branch, and on every branch being made from a clean main.
* `ReportedIsCommitted`: the phase loop trusts the working tree (`_verify_deliverable`), the report sends a commit; what is in one is in the other if the last save went through and no session switched branches,
  though phases are passed over, tried again and left by earlier runs.
* `AcceptedHasCommits`: no completion is accepted for a branch without commits, though main may hold every file the console asks for, if the run had to go through phase 8 and its commits were counted.
* `AcceptedKept`: the commits a completion was accepted for are on its story's branch and stay there. The console asks GitHub once, at the report, for the commit on *any* branch; that this is
  enough rests on pushes that are fast-forwards only and on no two stories' branches having a commit in common, which `crossed` excepts.
* `KeepsBranches`: the branches keep to `StoryBranch`.

Each property is broken by a mutant of the code it is about (operators marked "Mutant of" in the
modules, listed in `PROJECT.json`).

### Where the code and its documents disagree

Each `claim_*` run checks one sentence of the repository that TLC refutes on the model.

| run | the documents say | the code |
|---|---|---|
| `claim_missing_pr` | a successful run without a pull request "degrades gracefully" to `needs_info` | the event carries `question`, the service wants `question_text`: 422; the poller forgets the claim, and the job runs again without end |
| `claim_replay` | `replay_state` "must produce the same result as `dispatch_state_current.state`" | an event's id is drawn before its trigger waits for the state row: two overlapping transactions write the state in the order opposite to their ids, and the fold by id ends with the other event |

### Further observations, not checked by a run

Of the v2 queue. TLC finds each of the first seven on `DispatchV2` or `Correlation`; no run is kept for them.

* `needs_info` keeps the lease, though `features/epic-queue-v2/decisions.md:27` says it was deleted; an unanswered question is swept back into the queue
  when its lease expires, long before its 24 hours.
* A watcher that fetched a job in review requeues it after a manager has accepted it (`self_healing.py:1489`; `:1099` says completed is terminal).
* An operator cancels a leased job and its lease stays, so the agent's release puts it back into the queue (`routes/dispatch_v2.py:554`;
  `features/epic-queue-v2-q1-schema/test-design.md:71` says terminal states get no further events).
* `quota_exceeded` gets no retry, though migration 057 promises one: the count includes the failure at hand (`TableRetries` proves that it never gets one).
* A restart between the sweeper's DELETE and its `released` event strands the job (`self_healing.py:855`;
  `features/epic-queue-v2/decisions.md:33` calls an interruption mostly harmless).
* Two redispatches of one parent and pull request both insert a job (`dispatch_v2_service.py:965`; its docstring at `:915` says at most one).
* A redispatch repeated with its idempotency key creates a second job after the child's pull request was linked (`dispatch_v2_service.py:938`, docstring `:914`).
* `run_cycle()` of the stuck-agent watcher only logs, though its docstring says it releases leases and emits `failed`.
* While the count query of the failure policy raises, `apply()` goes on with zero attempts and requeues without limit.
* The dependency watcher's query reads `dispatch_dependencies.resolved_at`, which no migration creates, and `quarantined_age()` always
  returns zero, so no quarantined job is ever released; nothing writes `dispatch_dependencies`.
* `/rework` inserts a story id into the uuid column `rework_of`, hence inserts nothing; `redispatch()` stores `expected_pr_head_sha` and compares it with
  nothing; `set_pr_number` writes keys of the form `pr:N`, which no redispatch (`repo:R|pr:N`) can meet.
* `/transition` with `released` keeps the lease, so the job is pending and nobody can claim it until the lease expires; `accepted` and `rejected` through
  `/transition` are unreachable, since a job in review has no lease (which `ReviewUnheld` proves).
* `cooldown_sec` is read by nothing; the database's policy rows and `POLICY_TABLE`, which "mirrors" them, differ for `branch_setup_failed`.

Of the statements of a v2 transaction. TLC finds the first three on `DispatchTxn` with the property in question stated.

* A request whose token was checked before a claim by id committed goes on to delete the *new* lease: the DELETE names the job, not the token
  (`dispatch_v2_service.py:528`, `:692`).
* `resumed` keeps its lease and is checked before it is written: if the sweeper commits in between, the job is `leased` with no lease, and no watcher looks for
  such a job. No v2 agent sends it.
* A claim whose snapshot was taken before a cancellation committed leases the cancelled job: only the job row is locked, and `FOR UPDATE` looks again at that row alone.
* `transition` writes the state row and then the lease, `release`, `claim_by_id` and `/operator/resume` the lease and then the state row: two of them on one job can
  deadlock, and PostgreSQL aborts one, which answers 500.

Of the v2 agents.

* The watchdog's release may precede the main thread's `failed`, which is then stale: a job that hangs for good goes back to the queue instead of being set aside by
  its failure class, which the watchdog's docstring promises (`sdk_progress_watchdog.py:32-34`).
* A late watchdog's `_clear_active_lease()` deletes the file of the poller's next claim.
* `send_heartbeat` is false for any status but 200, so one 5xx kills a healthy SDK; a 426 in a heartbeat thread ends that thread alone.
* The POST of the report is not guarded in `poll_loop`: an exception there ends the poller with its lease in place. SIGTERM between
  `claim_next` and the registration leaves the lease as well; a restarted poller does not read the old lease file.
* ExecStop releases the lease while the SDK still works.
* An orchestrated run submits no pull request, and reports `failed` if posting `submitted` raises; its phase events are refused (422) in every state, and
  `_query_parent_phase_events` always answers None, so it never resumes at a later phase.

Of the v1 queue.

* `run_sdlc_phases` returns three values on every path, so `start_story` never has a pull request to report (`dispatch_poller.py:974`), though `:967` and `:1033` say
  it was captured; `is_dependency_satisfied` (`dispatch_db_service.py:440`) demands one, so a story that depends on one an agent completed is never offered.
* `claim` does not reset `claim_heartbeat_at`: a row released by hand and claimed again can be found stale before its first beat, five minutes after the claim.
* A story that is pending in two repos is refused (409) to every agent for as long as both are; its rows stay on offer, so nothing like "what is on offer is taken" holds of the queue.
* `has_active_claim` and the claim are two transactions, and either check lets the agent pass when it raises (`routes/dispatch.py:430`, `:606`). A request the poller gave up after ten
  seconds, when its check was done, can claim a row while the agent works on the next one. TLC finds both on `DispatchV1` without the exception in `OneClaimEach`; the comment at `routes/dispatch.py:590` says the guard
  "Prevents an agent from picking up a second story while it still holds one".
* The list of active states in `enqueue` lacks `needs_info`, so a story that waits for an answer is replaced by an enqueue; a late retry enqueues
  a completed or cancelled story again.
* `_post_needs_info` raises before it posts, so "the phase runner already POSTed" (`dispatch_poller.py:1117`) is not so, and the claim waits for the recovery.
* The heartbeat thread of a failed run goes on beating for whoever holds the row, and its watchdog fails that holder's claim.

Of the phase runner.

* The last push is not checked (`sdlc_phase_runner.py:3659`; `:3657` says "Ensure all work is pushed to remote before reporting completion"). After another VM has
  pushed, `_ensure_branch` (`:2732`) resumes on the VM's own old branch, from which no push succeeds, and the run reports a HEAD that is not on GitHub; the console's
  gate refuses it as long as GitHub answers.
* Phase 8's commit count counts the commits of earlier phases. `_verify_deliverable` accepts a folder that starts with `story-N` for any longer number.
* `_save_partial_work` returns early on a clean tree, so commits a session made itself are pushed by a later save only.
* The question path and the last push do not look at the branch: after a session that switched branches, `_commit_and_push_question` commits to that branch and pushes it to the story's. `_consume_resumed_question`
  runs before branch setup, on the branch of whatever the VM did last.
* Both stashes ignore their return code (`:2720`, `:2799`; the docstring at `:2623` says every call is checked), and from main, or on the story's own branch, none is made: what lies in the working tree is carried to the story's branch, where
  the next save commits it.
* `_sync_branch_to_origin` runs only where there was no remote branch a moment before (`:2852`), not where there is one to be behind of, which is what its comment (`:2844`) is about.
* Phase 8's commit count lets the run proceed when it raises (`:3491`), the console's tree check when GitHub does not answer (`routes/dispatch.py:1233`), and without a token neither commit nor tree is asked for (`:1138`). With a pre-written seed on main,
  the first of them is enough for a run that did nothing to be accepted.
* A seed's Phase Path may leave out phase 8 in any scope: then nothing is counted, and what the console requires may be on main.
* The pre-loop guard asks for the status of the row that was just claimed, so it does not stop "a phantom re-dispatch of completed work" (`:3006`) that went through an enqueue.
* `_graceful_shutdown`'s save is dead code: the globals it looks at are never assigned (`:59`).
* `git rm` of an untracked `QUESTION.md` fails silently; answers appended on the branch are deleted by `_clear_stale_questions`; on a remote branch with a slug, every save is a mismatch.

## 4. What is proved

`DispatchV2_proofs` proves for every set of jobs, dependency relation, policy table, bound and choice of
faults: `TypeOK`, `ReviewUnheld`, `HeldOrBeingFreed`, `RetryBudget`, `BarredNeverRuns` as invariants and
`DependencyRanFirst`, `RestIsBroken` as action properties. The only assumption is `ConstantsOK`, the
types of the constants; TLC evaluates it in every run.

The invariants are not inductive as they stand. `IInv` is a conjunction, job by job, of

* `Held` and the review clause, which are inductive by themselves given the tables: only `submitted` leads
  to review, only grants and `resumed` lead to `leased`, and a request that passes the token check
  has a lease (`FencedHolds`);
* `RanOnce`: in review, completed, or about to be accepted implies leased once. `DependencyRanFirst`
  needs it for completed dependencies, and `accepted` decisions must carry it over the await;
* `Budget`: retries granted plus policy calls under way never exceed the failures counted. From it follows that a
  retry granted on a count below `max_attempts` leaves the number of retries below it as well;
* `Untried`: a barred job has never been leased, has no lease, no decision and no policy call on its way, and is in a lane
  no watcher fetches from. `BarredNeverRuns` alone does not exclude a decision under way.

`TableRetries` puts the service's own table into `RetryBudget`: if `MaxAttempts` is that of `POLICY_TABLE` (`TableRows`, over every class, known to it or not), no class is retried more than four
times on a job, and those outside `RetriedClasses` never, `quota_exceeded` among them.

One lemma per group of steps (`AgentInv`, `ManagerInv`, `ExpireInv`, `ConsoleInv`) shows that the step keeps
`JobInv` of its own job; `UntouchedKeeps` and `OneJobStep` cover all others. `RestHolds` uses the
invariant only through `FencedHolds` and typing: nothing addressed to a job at rest passes its guard
except a grant.

Three further theorems are about what `DispatchV2` owes to others. `LeasesAsPromisedHold` shows that it implements `JobLease`, one lemma per group of actions,
with the map `owed` = a release decided on or lost; it needs `TypeOK` and `IInv` for the guard of a claim (no lease), for tokens bounded by `newest`, and for the review clause.
From it `TokensAreFenced` follows: `FencedOff(j, t)` says that a token once granted and not in force never is again, so that the token check of every later request fails. `JobLease_proofs` proves the same
of `JobLease` (`TokensNeverReturn`, from the inductive `LeaseInv`), hence it holds of every implementation; it is proved once more in `DispatchV2_proofs`, since a theorem of an
instance with a parameter (the job) cannot be cited.
`EventsAsRecordedHold` discharges what `Correlation` supposes of the rest of the queue: each change of a job's state is the effect of one event that
`MayBeRecorded` allows there, and the first is its `enqueued`. The inductive part is `Unborn`: an absent job has no lease, no token, no decision and no policy call on its way, so nothing but
an enqueue can reach it; per action, `Recorded` is said of the job it is about and `Quiet` of the others.

`Correlation_proofs` proves `TypeOK`, `DuplicatesOverlap`, `LineageExclusive` and `IdempotentButForSiblings` for any sets
of jobs, stories, keys and requests, any events of the rest of the queue, and either value of the two switches, from
`CorrelationConstants` (types, and that `Null` is no id). The properties speak about inserted jobs, but what they say is
established by reads that come before: the inductive `IInv` says of every request in force,
under way or carried by a job, that it is `Sound`. `Clear` is the check's result for the jobs it still relies
on, `ParentGone` the parent's, unless the insertion has yet to cancel it, and `LookedUp` that of the idempotency
lookup. The proof has two halves. The reads establish `Sound` of a new request (`EnqueueInv`, `RedispatchInv`). Any other
step either leaves the jobs a request relies on as they were, in the sense of `Harmless`, and `HarmlessKeeps`
applies (`InsertInv`, `RecordInv`, `RollBackInv`), or makes every request forget the job it
touches, and `WeakerSound` says that relying on less is sound (`ForgetInv`, which `RecordInv` and `SetKeyInv` use).

`DispatchTxn_proofs` proves `TxnTypeOK`, `NoLeaseInReview` and `LeasedIsHeld` as invariants and `OneHolder` as an action property, for any connections, set of requests and bounds,
from `TxnConstantsOK`. `Placed` ties what a transaction has done to where it is in its program (`Positioned`); it is inductive by itself, since no other transaction
touches it. `TxnInv` adds what the locks buy: at most one transaction has written the state row, at most one has inserted a lease and none has then another's row
to write, and a submission that has passed its event knows that a lease committed since is none (`Submitting`). Statements change no committed row (but `Sweep`), so `StatementKeeps`
is about locks, and the two properties change only in `CommitKeeps` and `ExpireKeeps`.
`LeaseAsPromisedHolds` is the refinement of `JobLease`, step by step: a statement that commits nothing is a stutter, a commit is a claim, a move or a resume according to
the request's kind, the sweeper's DELETE is a sweep, and a claim rolled back wastes the token it drew. A token drawn counts for `JobLease` when its transaction has ended, hence the inductive addition `LastDrawn`: a token drawn by a transaction under way is the last one drawn, since any other claim's INSERT waits for that transaction. The other
connections' swept leases and drawn tokens have to stay as they are in each step (`AsideKept`, `Owed`, `Drawn`).

`DispatchV1_proofs` proves `TypeOK`, `OneClaimEach`, `NoSlowTier` and `WorkAfterDeps` as invariants and `TerminalLeftByEnqueue` as an action property, for any rows, stories,
repos, agents, dependency relation, caps and faults, from `V1ConstantsOK`. The
inductive `IInv` is the first three with `PrShipped`, that a row with a pull request belongs to a story in `shipped`, and `ClearedFree`, that an agent between its check and its claim still has no claim but of the excepted
kinds: without it `OneClaimEach` is not inductive, now that the check and the claim are two steps. Most steps claim nothing, and
what they may do to a row is said once, by `Calm`, from which `CalmKeeps` follows; an agent's claim (`ClaimKeeps`) and the claims it does not wait for (`UnguardedKeeps`) are shown by themselves. `WorkAfterDeps` then
needs `PrShipped` at the moment of the offer only, since `shipped` grows and a worker keeps its row (`JobsKept`).

`PhaseRunner_proofs` proves `TypeOK`, `OwnFilesOnly`, `ReportedIsCommitted`, `AcceptedHasCommits` and `AcceptedKept` as invariants and `Spec => KeepsBranches`, for any VMs, stories, path, declared paths, seeds on main and
bounds, and all faults, from `RunnerConstantsOK` alone.

What is promised of the origin is not inductive, since a push sends whatever is in the clone. `IInv` therefore says of every clone (`Calm`) that a commit lies on the branch it was made on, or both branches are in `crossed`, and
that outside `crossed` its tree holds files of main and of the branch's story alone (`Fair`, so main gets no commits); and that, unless `loose`, nothing but questions is uncommitted (`Saved`). It says of each run with its clone (`Placed`) that
from branch setup on what is not committed may be committed on the story's branch (`Fits`) and that branch is checked out, unless a session strayed, and that the phases before its index were left out, delivered or counted (`Passed`). The origin's branches
are `Fair` as well (`GoodOrigin`), and the completions are what the properties say (`GoodAccepted`). The git commands are dealt
with once each (a stash, a checkout, a commit of all or of a part), and the actions of the runner are put together from them. For `AcceptedKept`, a reported HEAD that GitHub knows is a prefix of
some story's branch; by `Fair` its first commit was made on that branch and on the reporting story's, so they are one, or both are in `crossed`. It stays there since every step extends each branch and prefixes are transitive, which is also
most of the refinement.

`PollerV2_proofs` proves `PollerTypeOK`, `RunsHeld` and `OneRunPerJob`, and `PollerSpec => Spec`: every step of the agents is a request the queue serves or none
at all, for any VMs, jobs, leases and phases, from `ConstantsOK` and `AgentsOK`. With the last, the theorems of `DispatchV2_proofs` hold of the composition; `ReviewUnheld`
is used that way. `PInv` is typing plus what fits together in one agent (`Coherent`: a claim in its locals whenever its place needs one, beats and watchdogs
only where they were started). `HInv` adds the argument for `RunsHeld`: the claims a VM may still send (`Owned`: its poller's, its lease file's, its late watchdogs') have
tokens that were granted and belong to no other VM (`Granted`, `Apart`); while the VM minds its lease (`Minded`), the lease stands and has not run out (`Kept`), and no late
watchdog names it (`Spent`). Every step of an agent but a claim gives up claims and never begins to mind one (`Retains`), and takes away no lease but its own, and this
one only when it stops minding it (`Spares`); `MoveKeeps` says that this is enough, and claims, expiry and the console's steps are shown by themselves. `Kept` supposes
that no outage outlasts a lease; the rest does not. `LostClaimsStayLost` combines `Granted`, `Spec` and `TokensAreFenced`: a claim that any VM still holds anywhere and whose lease has gone never matches a lease
again, so a poller that crashed and came back, or a watchdog of three runs ago, can disturb nobody. Of `DispatchV2`'s theorems all but liveness carry over to the composition by `Implements`, without a proof of their own.

Only model-checked: the liveness properties (`DeadHolderRecovered`, `WaitsEnd`, `RetryGranted`, `LostRunStops`, `JobComesBack`, `DeadClaimReturns`: fairness and ENABLED are out of the
prover's reach) and the runs that refute claims. Every invariant, action property and refinement that a run checks is also a theorem.

## 5. Plan

Done: `DispatchStates`, `DispatchV2`, `FailurePolicy`, their instances and proofs; `DispatchTxn` and its proofs; `Correlation` and its proofs; `PollerV2` and its proofs; `DispatchV1` and its proofs;
`StoryBranch`, `PhaseRunner` and its proofs; `JobLease`, implemented by `DispatchV2` and `DispatchTxn`; the environment of `Correlation` shown to be `DispatchV2`'s behaviour.

Left, in order of importance:

1. `FailureClassifier`: the order of `classify()`'s patterns and the unwrapping of `policy_routed`, as functions
   checked against a reference definition.
2. Morris' mode controller and the approval flow.

## 6. Not modelled

Races of statements of two jobs' transactions other than enqueue and redispatch (dependencies, quarantine), the console running as more than one process
(it is deployed as one), `classify()`'s texts, all reading views, the payloads of events and prompts, what a session does to the
code itself, the v1 poller's single-shot fallback and rate-limit pause, and every part the table in section 1 marks "no". Those
parts (chat bots, dashboards, cost and presence views, knowledge ingest, provisioning, the web page) read what others write or talk to
services outside, and make up most of the repository's lines, as do one-off scripts and copies of `dispatch.py` in its root, so the
source map covers a small share of all lines though it covers the queues and their agents.
