---------------------------- MODULE DispatchTxn -----------------------------
(***************************************************************************)
(* One job of the v2 queue, statement by statement.  DispatchV2 takes each  *)
(* handler's transaction as one step; the handlers run under PostgreSQL's   *)
(* READ COMMITTED, where every statement reads the rows committed when it   *)
(* starts, a write waits for the row's other writer, and a DELETE or UPDATE *)
(* whose row has gone meanwhile does nothing.  Nothing but the claim's      *)
(* FOR UPDATE locks what a handler has read.                                *)
(***************************************************************************)
EXTENDS DispatchStates, Naturals, Sequences

CONSTANTS
  Sessions,   \* connections of the pool
  Requests,   \* kinds of transaction that occur
  MaxTokens,  \* bound: leases inserted
  MaxEvents   \* bound: event ids drawn

RequestKinds == {"claim_next", "claim_by_id", "heartbeat", "released",
                 "submitted", "failed", "needs_info", "resumed", "accepted",
                 "rejected", "force_release", "resume", "cancel", "requeue",
                 "sweep"}

ASSUME TxnConstantsOK ==
  /\ Requests \subseteq RequestKinds
  /\ MaxTokens \in Nat
  /\ MaxEvents \in Nat \ {0}

VARIABLES
  state,     \* dispatch_state_current.state, as committed
  lease,     \* the dispatch_leases row, as committed
  newest,    \* lease tokens generated
  drawn,     \* event ids drawn from the sequence
  last,      \* the committed event replay_state ends with
  txn,       \* per session, its transaction and the writes it has not committed
  lost       \* history: a swept lease's 'released' was never written

vars == <<state, lease, newest, drawn, last, txn, lost>>

NoLease == [token |-> 0, expired |-> FALSE]

-----------------------------------------------------------------------------
\* What each request sends, in order.  "find" and "drop" are the two halves of
\* DELETE FROM dispatch_leases, its snapshot and its write; "number", "share" and
\* "project" are those of INSERT INTO dispatch_v2_events: the id, the foreign key's
\* lock on the job row, the trigger's upsert.  "force_release" is /operator/resume
\* on a leased job, "requeue" the event of a watcher or of the failure policy.

\* Mutant of Program: 'submitted' deletes the lease before it writes its event.
ProgramDropFirst(k) ==
  CASE k = "claim_next"  -> <<"pick", "lock", "grant", "number", "project">>
    [] k = "claim_by_id" -> <<"find", "drop", "grant", "share", "number", "project">>
    [] k = "released"    -> <<"token", "find", "drop", "number", "share", "project">>
    [] k = "submitted"   -> <<"token", "check", "find", "drop", "number", "share", "project">>
    [] OTHER             -> <<>>

\* Mutant of Program: /release inserts its event in a transaction of its own.
ProgramTwoTransactions(k) ==
  CASE k = "claim_next" -> <<"pick", "lock", "grant", "number", "project">>
    [] k = "released"   -> <<"token", "find", "drop">>
    [] k = "requeue"    -> <<"number", "share", "project">>
    [] OTHER            -> <<>>

Program(k) ==
  CASE k = "claim_next"    -> <<"pick", "lock", "grant", "number", "project">>
    [] k = "claim_by_id"   -> <<"find", "drop", "grant", "share", "number", "project">>
    [] k = "heartbeat"     -> <<"token", "find", "renew", "number", "share">>
    [] k = "released"      -> <<"token", "find", "drop", "number", "share", "project">>
    [] k \in {"submitted", "failed"} ->
         <<"token", "check", "number", "share", "project", "find", "drop">>
    [] k \in {"needs_info", "resumed"} ->
         <<"token", "check", "number", "share", "project">>
    [] k \in {"accepted", "rejected"} ->
         <<"check", "number", "share", "project", "find", "drop">>
    [] k = "force_release" -> <<"check", "find", "drop", "number", "share", "project">>
    [] k \in {"resume", "cancel"} -> <<"check", "number", "share", "project">>
    [] k = "requeue"       -> <<"number", "share", "project">>
    [] k = "sweep"         -> <<"find", "sweep", "number", "share", "project">>
    [] OTHER               -> <<>>

EventOf(k) ==
  CASE k \in {"claim_next", "claim_by_id"}             -> "leased"
    [] k \in {"force_release", "resume", "requeue"}    -> "requeued"
    [] k = "cancel"                                    -> "cancelled"
    [] k = "sweep"                                     -> "released"
    [] OTHER                                           -> k

\* The state a handler wants to read before it goes on.
Accepts(k, s) ==
  CASE k = "force_release" -> s = "leased"
    [] k = "resume"        -> s \notin Terminal \cup {"leased"}
    [] k = "cancel"        -> s \notin Terminal
    [] OTHER               -> k \in TransitionAllowed(s)

-----------------------------------------------------------------------------
\* A transaction: the token its request bears, the token of the lease row a
\* DELETE or UPDATE has found, what it has done to that row, the lease it has
\* inserted, its event's id, the state it has projected and its lock on the job.

Idle == [kind |-> "idle", at |-> 1, bears |-> 0, seen |-> 0, wrote |-> "nothing",
         granted |-> 0, id |-> 0, state |-> "none", job |-> "none"]

Busy(s) == txn[s].kind # "idle"
Done(s) == txn[s].at > Len(Program(txn[s].kind))
At(s, step) == ~Done(s) /\ Program(txn[s].kind)[txn[s].at] = step

Step(s, t) == txn' = [txn EXCEPT ![s] = [t EXCEPT !.at = @ + 1]]
Pass(s) == Step(s, txn[s])

Others(s) == Sessions \ {s}

Init ==
  /\ state = "pending"
  /\ lease = NoLease
  /\ newest = 0
  /\ drawn = 1
  /\ last = [id |-> 1, event |-> "enqueued"]
  /\ txn = [s \in Sessions |-> Idle]
  /\ lost = FALSE

\* An agent's request may bear any token ever generated.  There is one sweeper,
\* and it writes a row's 'released' before it looks for others.
Bearers == {"heartbeat", "released", "submitted", "failed", "needs_info", "resumed"}
Begin(s, k, t) ==
  /\ ~Busy(s)
  /\ k \in Bearers <=> t # 0
  /\ k = "sweep" => \A o \in Others(s) : txn[o].kind # "sweep"
  /\ txn' = [txn EXCEPT ![s] = [Idle EXCEPT !.kind = k, !.bears = t]]
  /\ UNCHANGED <<state, lease, newest, drawn, last, lost>>

\* SELECT lease_token; then, where the handler looks at it, SELECT state.
CheckToken(s) ==
  /\ At(s, "token")
  /\ lease.token = txn[s].bears
  /\ Pass(s)
  /\ UNCHANGED <<state, lease, newest, drawn, last, lost>>

CheckState(s) ==
  /\ At(s, "check")
  /\ Accepts(txn[s].kind, state)
  /\ Pass(s)
  /\ UNCHANGED <<state, lease, newest, drawn, last, lost>>

\* The claim's eligible rows are those of its snapshot; of these only the job row
\* is locked, unless someone has a lock on it (SKIP LOCKED).
PickJob(s) ==
  /\ At(s, "pick")
  /\ state = "pending" /\ lease = NoLease
  /\ Pass(s)
  /\ UNCHANGED <<state, lease, newest, drawn, last, lost>>

LockJob(s) ==
  /\ At(s, "lock")
  /\ \A o \in Others(s) : txn[o].job = "none"
  /\ Step(s, [txn[s] EXCEPT !.job = "update"])
  /\ UNCHANGED <<state, lease, newest, drawn, last, lost>>

\* INSERT INTO dispatch_leases, whose primary key is the job: it waits for another
\* transaction's lease row and fails if there is one then.
WritesLease(o) == txn[o].wrote # "nothing" \/ txn[o].granted # 0

\* Mutant of NoRowThere: leases are keyed by their token.
KeyedByToken(s) == TRUE

NoRowThere(s) ==
  /\ \A o \in Others(s) : ~WritesLease(o)
  /\ lease.token = 0 \/ txn[s].wrote = "gone"

GrantLease(s) ==
  /\ At(s, "grant")
  /\ newest < MaxTokens
  /\ NoRowThere(s)
  /\ newest' = newest + 1
  /\ Step(s, [txn[s] EXCEPT !.granted = newest + 1])
  /\ UNCHANGED <<state, lease, drawn, last, lost>>

\* The sweeper's WHERE adds that the row has expired.
FindLease(s) ==
  /\ At(s, "find")
  /\ txn[s].kind = "sweep" => lease.expired
  /\ Step(s, [txn[s] EXCEPT !.seen = lease.token])
  /\ UNCHANGED <<state, lease, newest, drawn, last, lost>>

\* The row found is free to write; it may be gone.
RowFree(s) == \A o \in Others(s) : txn[o].wrote = "nothing" \/ txn[o].seen # txn[s].seen
RowThere(s) == lease.token # 0 /\ lease.token = txn[s].seen

WriteLease(s, step, what) ==
  /\ At(s, step)
  /\ RowFree(s)
  /\ Step(s, [txn[s] EXCEPT !.wrote = IF RowThere(s) THEN what ELSE @])
  /\ UNCHANGED <<state, lease, newest, drawn, last, lost>>

\* Mutant of DropLease: the DELETE is not part of the handler's transaction.
DropOutside(s) ==
  /\ At(s, "drop")
  /\ RowFree(s)
  /\ Step(s, [txn[s] EXCEPT !.wrote = IF RowThere(s) THEN "gone" ELSE @])
  /\ lease' = IF RowThere(s) THEN NoLease ELSE lease
  /\ UNCHANGED <<state, newest, drawn, last, lost>>

DropLease(s)  == WriteLease(s, "drop", "gone")
RenewLease(s) == WriteLease(s, "renew", "renewed")

\* The sweeper's DELETE is a transaction of its own, and looks at expires_at again
\* if it had to wait for a heartbeat.
Sweep(s) ==
  /\ At(s, "sweep")
  /\ RowFree(s)
  /\ RowThere(s) /\ lease.expired
  /\ lease' = NoLease
  /\ Pass(s)
  /\ UNCHANGED <<state, newest, drawn, last, lost>>

DrawId(s) ==
  /\ At(s, "number")
  /\ drawn < MaxEvents
  /\ drawn' = drawn + 1
  /\ Step(s, [txn[s] EXCEPT !.id = drawn + 1])
  /\ UNCHANGED <<state, lease, newest, last, lost>>

\* The foreign key's FOR KEY SHARE.
ShareJob(s) ==
  /\ At(s, "share")
  /\ \A o \in Others(s) : txn[o].job # "update"
  /\ Step(s, [txn[s] EXCEPT !.job = "share"])
  /\ UNCHANGED <<state, lease, newest, drawn, last, lost>>

\* Mutant of Projected: the trigger stores the event.
EventStored(s) == EventOf(txn[s].kind)

Projected(s) == StateAfter(EventOf(txn[s].kind))

Project(s) ==
  /\ At(s, "project")
  /\ \A o \in Others(s) : txn[o].state = "none"
  /\ Step(s, [txn[s] EXCEPT !.state = Projected(s)])
  /\ UNCHANGED <<state, lease, newest, drawn, last, lost>>

LeaseAfter(t) ==
  CASE t.granted # 0       -> [token |-> t.granted, expired |-> FALSE]
    [] t.granted = 0 /\ t.wrote = "gone"    -> NoLease
    [] t.granted = 0 /\ t.wrote = "renewed" -> [lease EXCEPT !.expired = FALSE]
    [] OTHER               -> lease

\* Heartbeats are events too, but replay_state passes over them.
Commit(s) ==
  LET t == txn[s] IN
  /\ Busy(s) /\ Done(s)
  /\ lease' = LeaseAfter(t)
  /\ state' = IF t.state = "none" THEN state ELSE t.state
  /\ last' = IF t.state # "none" /\ t.id > last.id
               THEN [id |-> t.id, event |-> EventOf(t.kind)] ELSE last
  /\ txn' = [txn EXCEPT ![s] = Idle]
  /\ lost' = (lost /\ t.state = "none")
  /\ UNCHANGED <<newest, drawn>>

\* The handler raises (stale token, illegal transition, duplicate key), finds
\* nothing to do, loses its connection or is the victim of a deadlock.
Swept(s) == txn[s].kind = "sweep" /\ txn[s].at > 2
Abort(s) ==
  /\ Busy(s)
  /\ txn' = [txn EXCEPT ![s] = Idle]
  /\ lost' = (lost \/ Swept(s))
  /\ UNCHANGED <<state, lease, newest, drawn, last>>

\* expires_at passes.
Expire ==
  /\ lease.token # 0
  /\ lease' = [lease EXCEPT !.expired = TRUE]
  /\ UNCHANGED <<state, newest, drawn, last, txn, lost>>

Statement(s) ==
  \/ CheckToken(s)
  \/ CheckState(s)
  \/ PickJob(s)
  \/ LockJob(s)
  \/ GrantLease(s)
  \/ FindLease(s)
  \/ DropLease(s)
  \/ RenewLease(s)
  \/ Sweep(s)
  \/ DrawId(s)
  \/ ShareJob(s)
  \/ Project(s)

Next ==
  \/ \E s \in Sessions :
       \/ \E k \in Requests, t \in 0..newest : Begin(s, k, t)
       \/ Statement(s)
       \/ Commit(s)
       \/ Abort(s)
  \/ Expire

Spec == Init /\ [][Next]_vars

-----------------------------------------------------------------------------
Transactions ==
  [kind : RequestKinds \cup {"idle"}, at : Nat \ {0}, bears : Nat, seen : Nat,
   wrote : {"nothing", "gone", "renewed"}, granted : Nat, id : Nat,
   state : JobStates \cup {"none"}, job : {"none", "share", "update"}]

TxnTypeOK ==
  /\ state \in JobStates
  /\ lease \in [token : Nat, expired : BOOLEAN]
  /\ newest \in 0..MaxTokens
  /\ drawn \in 1..MaxEvents
  /\ last \in [id : Nat, event : ProjectingEvents]
  /\ txn \in [Sessions -> Transactions]
  /\ lost \in BOOLEAN

\* A job in review has no lease, whatever statements of other requests come in
\* between: 'submitted' writes its event first, so that it holds the job's state
\* row when it looks for leases, and a claim cannot commit one behind its back.
NoLeaseInReview == state = "in_review" => lease.token = 0

\* A job that is 'leased' has a lease, but for the sweeper's two transactions and
\* a 'released' it could not write; only a transition 'resumed' that checked its
\* token before a sweep could leave it otherwise.
LeasedIsHeld ==
  "resumed" \notin Requests =>
    (state = "leased" => lease.token # 0 \/ lost \/ \E s \in Sessions : Swept(s))

\* No claim takes a lease away but a manager's by id: of two claims that saw the
\* job free one is refused, however late the other's snapshot was taken.
OneHolder ==
  [][lease.token # 0 /\ lease'.token \notin {0, lease.token} =>
       \E s \in Sessions : txn[s].kind = "claim_by_id" /\ Done(s)]_vars

\* The lease that JobLease promises.  A token that was drawn counts when its
\* transaction has ended.
Lease == INSTANCE JobLease WITH
  token <- lease.token,
  top <- IF \E s \in Sessions : txn[s].granted # 0 THEN newest - 1 ELSE newest,
  owed <- lost \/ \E s \in Sessions : Swept(s),
  ManagersClaim <- "claim_by_id" \in Requests,
  LateResume <- "resumed" \in Requests

\* The statements implement what DispatchV2 assumes of whole handlers: however
\* they interleave, what others see of an event and of the lease it begins or
\* ends changes at once, a job comes to review without a lease, and only the
\* sweeper, whose DELETE commits by itself, leaves a job without its event.
LeaseAsPromised == Lease!Spec

=============================================================================
