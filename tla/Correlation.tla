---------------------------- MODULE Correlation ----------------------------
(***************************************************************************)
(* How jobs come to exist: /enqueue and /redispatch.  Each reads the       *)
(* tables to see whether the work is already in the queue and then         *)
(* inserts a job, in one READ COMMITTED transaction that locks none of     *)
(* what it read: two steps, between which others commit.  What the queue   *)
(* does with the jobs meanwhile is any event that its writers may record.  *)
(* /rework inserts nothing: it gives the uuid column rework_of a story id. *)
(***************************************************************************)
EXTENDS DispatchStates

CONSTANTS
  Jobs,      \* bound: the ids of jobs that can be created
  Stories,   \* (repo, story_id)
  Keys,      \* correlation keys: a pull request or a branch of a repo
  IdemKeys,  \* idempotency keys
  Handlers,  \* requests the console can serve at a time
  ReuseGate, \* DISPATCH_V2_ID_REUSE_GATE
  Events,    \* bound: the events that the rest of the queue records
  ForcedCancelRuns, \* whether the INSERT of the parent's 'cancelled' event is accepted
  Null

ASSUME CorrelationConstants ==
  /\ Null \notin Jobs \cup Stories \cup Keys \cup IdemKeys
  /\ ReuseGate \in BOOLEAN
  /\ ForcedCancelRuns \in BOOLEAN
  /\ Events \subseteq ProjectingEvents

VARIABLES
  state,     \* dispatch_state_current.state, as events leave it
  untriaged, \* jobs that failed with failure_class 'unknown'
  story,     \* dispatch_jobs.repo and story_id
  key,       \* dispatch_jobs.correlation_key
  origin,    \* per job, the request that created it: rework_of, its key, and history
  request    \* per handler, the request between its reads and its commit

vars == <<state, untriaged, story, key, origin, request>>

\* What a request is about to insert and, as history, the jobs its reads saw
\* which nothing has since brought back to life or given another story or key.
Requests ==
  {r \in [via : {"none", "enqueue", "redispatch"}, story : Stories \cup {Null},
          key : Keys \cup {Null}, parent : Jobs \cup {Null}, idem : IdemKeys \cup {Null},
          cancels : BOOLEAN, still : SUBSET Jobs] :
     r.via = "redispatch" => r.parent \in Jobs}

NoRequest ==
  [via |-> "none", story |-> Null, key |-> Null, parent |-> Null, idem |-> Null,
   cancels |-> FALSE, still |-> {}]

Idle(h) == request[h] = NoRequest
Created == {j \in Jobs : state[j] # "absent"}

-----------------------------------------------------------------------------
\* /enqueue takes a story whose every job is in one of these states.
Finished == {"completed", "cancelled", "failed", "dead_letter"}

\* /redispatch takes a key no job of which is in one of these; 'quarantined' is
\* in neither list.
Active == {"pending", "leased", "in_review", "needs_info"}

StoryTaken(s) == \E j \in Created : story[j] = s /\ state[j] \notin Finished

StoryUsed(s) == \E j \in Created : story[j] = s

\* Mutant of KeyTaken: a job that nobody has claimed yet does not count.
KeyClaimed(k) == \E j \in Created : key[j] = k /\ state[j] \in Active \ {"pending"}

KeyTaken(k) == \E j \in Created : key[j] = k /\ state[j] \in Active

Children(p, k) == {c \in Created : key[c] = k /\ origin[c].parent = p}

\* Mutant of MissesIdemKey: the idempotency key is not looked at.
NeverIdempotent(p, k, i) == TRUE

\* The lookup fetches one child of this parent and key, in no particular order,
\* and compares its idempotency key.
MissesIdemKey(p, k, i) ==
  Children(p, k) = {} \/ \E c \in Children(p, k) : origin[c].idem # i

ParentAllows(p, force) ==
  /\ ~(state[p] = "failed" /\ p \in untriaged)
  /\ state[p] \in Finished \/ force

-----------------------------------------------------------------------------
Init ==
  /\ state = [j \in Jobs |-> "absent"]
  /\ untriaged = {}
  /\ story = [j \in Jobs |-> Null]
  /\ key = [j \in Jobs |-> Null]
  /\ origin = [j \in Jobs |-> NoRequest]
  /\ request = [h \in Handlers |-> NoRequest]

\* The reads of a transaction are one step.  A request that is refused, or
\* answered with an existing job, changes nothing and is left out.
Begin(h, via, s, k, p, i, cancels) ==
  /\ Idle(h)
  /\ request' = [request EXCEPT ![h] =
       [via |-> via, story |-> s, key |-> k, parent |-> p, idem |-> i,
        cancels |-> cancels, still |-> Created]]
  /\ UNCHANGED <<state, untriaged, story, key, origin>>

\* The id-reuse gate lets a finished story through if the request names a
\* rework_of, whatever it says.
EnqueueReads(h, s, acknowledged) ==
  /\ ~StoryTaken(s)
  /\ ReuseGate => acknowledged \/ ~StoryUsed(s)
  /\ Begin(h, "enqueue", s, Null, Null, Null, FALSE)

RedispatchReads(h, p, k, i, force) ==
  /\ p \in Created
  /\ MissesIdemKey(p, k, i)
  /\ ~KeyTaken(k)
  /\ ParentAllows(p, force)
  /\ Begin(h, "redispatch", Null, k, p, i, state[p] \notin Finished)

Cancelled(h) == IF request[h].cancels THEN {request[h].parent} ELSE {}

\* The job's row: a redispatched one copies the story from its parent's row.
AddRow(h, j) ==
  /\ ~Idle(h)
  /\ j \notin Created
  /\ story' = [story EXCEPT ![j] = IF request[h].via = "redispatch"
                                     THEN story[request[h].parent]
                                     ELSE request[h].story]
  /\ key' = [key EXCEPT ![j] = request[h].key]
  /\ origin' = [origin EXCEPT ![j] = [request[h] EXCEPT !.cancels = FALSE]]
  /\ request' = [request EXCEPT ![h] = NoRequest]

\* Mutant of Insert: the state is named after the event.
InsertEnqueued(h, j) ==
  /\ AddRow(h, j)
  /\ state' = [state EXCEPT ![j] = "enqueued"]
  /\ UNCHANGED untriaged

\* Mutant of Insert: force_cancel_parent only skips the guard.
InsertSparingParent(h, j) ==
  /\ AddRow(h, j)
  /\ state' = [state EXCEPT ![j] = StateAfter("enqueued")]
  /\ UNCHANGED untriaged

\* The row, its 'enqueued' event and, for a parent that was not finished when it
\* was read, a 'cancelled' event whatever it is by now.  That event's INSERT has
\* a parameter of no declared type, which the database may refuse.
Insert(h, j) ==
  /\ AddRow(h, j)
  /\ request[h].cancels => ForcedCancelRuns
  /\ state' = [i \in Jobs |-> IF i = j THEN StateAfter("enqueued")
                              ELSE IF i \in Cancelled(h) THEN StateAfter("cancelled")
                              ELSE state[i]]
  /\ untriaged' = untriaged \ Cancelled(h)

\* The console restarts or a statement raises: the transaction is rolled back.
RollBack(h) ==
  /\ ~Idle(h)
  /\ request' = [request EXCEPT ![h] = NoRequest]
  /\ UNCHANGED <<state, untriaged, story, key, origin>>

-----------------------------------------------------------------------------
\* The rest of the queue.

\* A job that was out of the way of a check is in its way again.
Revives(s, t) == (s \in Finished /\ t \notin Finished) \/ (s \notin Active /\ t \in Active)

Forget(j) ==
  /\ origin' = [i \in Jobs |-> [origin[i] EXCEPT !.still = @ \ {j}]]
  /\ request' = [h \in Handlers |-> [request[h] EXCEPT !.still = @ \ {j}]]

\* record_event for any writer; a failure has a class that is known or not.
Record(j, e) ==
  /\ j \in Created
  /\ e \in MayBeRecorded(state[j])
  /\ state' = [state EXCEPT ![j] = StateAfter(e)]
  /\ untriaged' \in {untriaged \ {j}} \cup (IF e = "failed" THEN {untriaged \cup {j}} ELSE {})
  /\ IF Revives(state[j], StateAfter(e)) THEN Forget(j) ELSE UNCHANGED <<origin, request>>
  /\ UNCHANGED <<story, key>>

SetKey(j, k) ==
  /\ key' = [key EXCEPT ![j] = k]
  /\ Forget(j)
  /\ UNCHANGED <<state, untriaged>>

\* set_pr_number, and 'submitted' with a PR, which stamps the same before its
\* event: COALESCE keeps a key that is there.
StampPr(j, k) == j \in Created /\ key[j] = Null /\ SetKey(j, k) /\ UNCHANGED story

\* manager_link_pr overwrites key and repo and looks for no other job that has them;
\* the unique index that would have raised is gone since migration 056.
LinkPr(j, k, s) ==
  /\ j \in Created
  /\ SetKey(j, k)
  /\ story' = [story EXCEPT ![j] = s]

-----------------------------------------------------------------------------
RequestStep(h) ==
  \/ \E s \in Stories : \E acknowledged \in BOOLEAN : EnqueueReads(h, s, acknowledged)
  \/ \E p \in Jobs : \E k \in Keys : \E i \in IdemKeys : \E force \in BOOLEAN :
       RedispatchReads(h, p, k, i, force)
  \/ \E j \in Jobs : Insert(h, j)
  \/ RollBack(h)

QueueStep(j) ==
  \/ \E e \in Events : Record(j, e)
  \/ \E k \in Keys : StampPr(j, k)
  \/ \E k \in Keys : \E s \in Stories : LinkPr(j, k, s)

Next == (\E h \in Handlers : RequestStep(h)) \/ (\E j \in Jobs : QueueStep(j))

Spec == Init /\ [][Next]_vars

-----------------------------------------------------------------------------
\* Typing.
TypeOK ==
  /\ state \in [Jobs -> JobStates]
  /\ untriaged \subseteq Jobs
  /\ story \in [Jobs -> Stories \cup {Null}]
  /\ key \in [Jobs -> Keys \cup {Null}]
  /\ origin \in [Jobs -> Requests]
  /\ request \in [Handlers -> Requests]

\* No duplicate work but by overlap: when a job is created for a story or a key,
\* every job of that story or key that its request could see is out of the way,
\* and stays so until an event revives it or its row is relabelled.  Two live jobs
\* for the same work thus mean two requests in flight at once, or a revival.
DuplicatesOverlap ==
  \A j \in Created : \A i \in origin[j].still :
    /\ (origin[j].via = "enqueue" /\ story[i] = origin[j].story)
         => state[i] \in Finished
    /\ (origin[j].via = "redispatch" /\ key[i] = origin[j].key) => state[i] \notin Active

\* A redispatched job and its parent are not both at work: the parent was
\* finished, or is cancelled together with the child's insertion, and stays
\* finished until an event revives it.
LineageExclusive ==
  \A j \in Created :
    (origin[j].via = "redispatch" /\ origin[j].parent \in origin[j].still)
      => state[origin[j].parent] \in Finished

Twins(i, j) ==
  /\ origin[i].via = "redispatch" /\ origin[j].via = "redispatch"
  /\ origin[i].parent = origin[j].parent
  /\ origin[i].idem = origin[j].idem

\* A repeated /redispatch creates a second job for a child that it could see, and
\* that nobody has touched since, only if the parent has another child of that
\* key which the lookup may fetch instead.
IdempotentButForSiblings ==
  \A j \in Created : \A i \in origin[j].still :
    (Twins(i, j) /\ key[i] = origin[j].key) =>
      \E c \in Created : /\ origin[c].parent = origin[j].parent
                         /\ origin[c].idem # origin[j].idem

=============================================================================
