------------------------- MODULE Correlation_proofs -------------------------
(***************************************************************************)
(* Safety of Correlation for any number of jobs, keys and requests, and    *)
(* for any events of the rest of the queue.                                *)
(***************************************************************************)
EXTENDS Correlation, TLAPS

-----------------------------------------------------------------------------
\* The inductive invariant says of a request under way what it says of the job
\* that the request creates.

\* What r's reads found out of the way is out of the way.
Clear(r) == \A i \in r.still :
  /\ i \in Created
  /\ (r.via = "enqueue" /\ story[i] = r.story) => state[i] \in Finished
  /\ (r.via = "redispatch" /\ key[i] = r.key) => state[i] \notin Active

\* The parent is finished, unless the insertion is still to cancel it.
ParentGone(r) ==
  (r.via = "redispatch" /\ ~r.cancels /\ r.parent \in r.still) => state[r.parent] \in Finished

Sibling(r) == \E c \in Created : origin[c].parent = r.parent /\ origin[c].idem # r.idem

\* A child that the idempotency lookup should have found has a sibling.
LookedUp(r) == \A i \in r.still :
  (/\ r.via = "redispatch" /\ origin[i].parent = r.parent
   /\ origin[i].idem = r.idem /\ key[i] = r.key) => Sibling(r)

Sound(r) == Clear(r) /\ ParentGone(r) /\ LookedUp(r)

InForce(r) == (\E j \in Jobs : r = origin[j]) \/ (\E h \in Handlers : r = request[h])

IInv ==
  /\ TypeOK
  /\ \A r \in Requests : InForce(r) => Sound(r)
  /\ \A j \in Jobs : ~origin[j].cancels

-----------------------------------------------------------------------------
LEMMA EventStates ==
  ASSUME NEW e \in ProjectingEvents
  PROVE  StateAfter(e) \in JobStates \ {"absent"}
BY DEF ProjectingEvents, StateAfter, JobStates

LEMMA NoRequestTyped == NoRequest \in Requests
BY DEF NoRequest, Requests

LEMMA NoRequestSound == Sound(NoRequest) /\ ~NoRequest.cancels
BY DEF NoRequest, Sound, Clear, ParentGone, LookedUp

-----------------------------------------------------------------------------
LEMMA BeginTyped ==
  ASSUME TypeOK, NEW h \in Handlers, NEW via \in {"enqueue", "redispatch"},
         NEW s \in Stories \cup {Null}, NEW k \in Keys \cup {Null}, NEW p \in Jobs \cup {Null},
         NEW i \in IdemKeys \cup {Null}, NEW cancels \in BOOLEAN,
         via = "redispatch" => p \in Jobs,
         Begin(h, via, s, k, p, i, cancels)
  PROVE  TypeOK'
<1>1. Created \subseteq Jobs BY DEF Created
<1>2. [via |-> via, story |-> s, key |-> k, parent |-> p, idem |-> i,
       cancels |-> cancels, still |-> Created] \in Requests
  BY <1>1 DEF Requests
<1> QED BY <1>2 DEF Begin, TypeOK

LEMMA ForgetTyped ==
  ASSUME TypeOK, NEW j \in Jobs, Forget(j)
  PROVE  origin' \in [Jobs -> Requests] /\ request' \in [Handlers -> Requests]
<1>1. \A r \in Requests : [r EXCEPT !.still = @ \ {j}] \in Requests
  BY DEF Requests
<1> QED BY <1>1 DEF TypeOK, Forget

\* The typing of each step.
LEMMA TypeStep == ASSUME TypeOK, [Next]_vars PROVE TypeOK'
<1>1. ASSUME NEW h \in Handlers, NEW s \in Stories, NEW acknowledged \in BOOLEAN,
             EnqueueReads(h, s, acknowledged)
      PROVE  TypeOK'
  BY <1>1, BeginTyped DEF EnqueueReads
<1>2. ASSUME NEW h \in Handlers, NEW p \in Jobs, NEW k \in Keys, NEW i \in IdemKeys,
             NEW force \in BOOLEAN, RedispatchReads(h, p, k, i, force)
      PROVE  TypeOK'
  <2>1. (state[p] \notin Finished) \in BOOLEAN OBVIOUS
  <2> QED BY <1>2, <2>1, BeginTyped DEF RedispatchReads
<1>3. ASSUME NEW h \in Handlers, NEW j \in Jobs, Insert(h, j)
      PROVE  TypeOK'
  <2>1. {"enqueued", "cancelled"} \subseteq ProjectingEvents BY DEF ProjectingEvents
  <2>2. state' \in [Jobs -> JobStates]
    BY <1>3, <2>1, EventStates DEF Insert, AddRow, TypeOK
  <2>3. [request[h] EXCEPT !.cancels = FALSE] \in Requests /\ request[h].key \in Keys \cup {Null}
    BY DEF TypeOK, Requests
  <2>4. story' \in [Jobs -> Stories \cup {Null}]
    <3>1. request[h].story \in Stories \cup {Null} BY DEF TypeOK, Requests
    <3>2. request[h].via = "redispatch" => request[h].parent \in Jobs BY DEF TypeOK, Requests
    <3> QED BY <1>3, <3>1, <3>2 DEF Insert, AddRow, TypeOK
  <2> QED BY <1>3, <2>2, <2>3, <2>4, NoRequestTyped DEF Insert, AddRow, TypeOK
<1>4. ASSUME NEW h \in Handlers, RollBack(h)
      PROVE  TypeOK'
  BY <1>4, NoRequestTyped DEF RollBack, TypeOK
<1>5. ASSUME NEW j \in Jobs, NEW e \in Events, Record(j, e)
      PROVE  TypeOK'
  <2>1. StateAfter(e) \in JobStates BY EventStates, CorrelationConstants
  <2>2. origin' \in [Jobs -> Requests] /\ request' \in [Handlers -> Requests]
    BY <1>5, ForgetTyped DEF Record, TypeOK
  <2>3. untriaged' \subseteq Jobs BY <1>5 DEF Record, TypeOK
  <2> QED BY <1>5, <2>1, <2>2, <2>3 DEF Record, TypeOK
<1>6. ASSUME NEW j \in Jobs, NEW k \in Keys,
             StampPr(j, k) \/ \E s \in Stories : LinkPr(j, k, s)
      PROVE  TypeOK'
  <2>1. story' \in [Jobs -> Stories \cup {Null}] BY <1>6 DEF StampPr, LinkPr, TypeOK
  <2>2. SetKey(j, k) BY <1>6 DEF StampPr, LinkPr
  <2> QED BY <2>1, <2>2, ForgetTyped DEF SetKey, TypeOK
<1>7. CASE UNCHANGED vars BY <1>7 DEF vars, TypeOK
<1> QED BY <1>1, <1>2, <1>3, <1>4, <1>5, <1>6, <1>7
        DEF Next, RequestStep, QueueStep

-----------------------------------------------------------------------------
\* What a step may do without harm to what a request has read: jobs stay, keep
\* their parent and idempotency key, and those that r still relies on keep their
\* story and key and do not come back.
Harmless(r) ==
  /\ \A c \in Created : /\ c \in Created'
                        /\ origin'[c].parent = origin[c].parent
                        /\ origin'[c].idem = origin[c].idem
  /\ \A i \in r.still : /\ story'[i] = story[i] /\ key'[i] = key[i]
                        /\ state[i] \in Finished => state'[i] \in Finished
                        /\ state[i] \notin Active => state'[i] \notin Active

LEMMA HarmlessKeeps ==
  ASSUME NEW r, Sound(r), Harmless(r)
  PROVE  Sound(r)'
<1>1. Clear(r)' BY DEF Sound, Clear, Harmless
<1>2. ParentGone(r)' BY DEF Sound, ParentGone, Harmless
<1>3. LookedUp(r)'
  <2>1. Sibling(r) => Sibling(r)' BY DEF Sibling, Harmless
  <2>2. \A i \in r.still : i \in Created BY DEF Sound, Clear
  <2> QED BY <2>1, <2>2 DEF Sound, LookedUp, Harmless
<1> QED BY <1>1, <1>2, <1>3 DEF Sound

\* A request that relies on less is sound as well.
LEMMA WeakerSound ==
  ASSUME NEW r \in Requests, NEW j, Sound(r)
  PROVE  Sound([r EXCEPT !.still = @ \ {j}])
<1> DEFINE q == [r EXCEPT !.still = @ \ {j}]
<1>1. /\ q.still = r.still \ {j} /\ q.via = r.via /\ q.story = r.story /\ q.key = r.key
      /\ q.parent = r.parent /\ q.idem = r.idem /\ q.cancels = r.cancels
  BY DEF Requests
<1> HIDE DEF q
<1>2. Clear(q) BY <1>1 DEF Sound, Clear
<1>3. ParentGone(q) BY <1>1 DEF Sound, ParentGone
<1>4. LookedUp(q) BY <1>1 DEF Sound, LookedUp, Sibling
<1>5. Sound(q) BY <1>2, <1>3, <1>4 DEF Sound
<1> QED BY <1>5 DEF q

-----------------------------------------------------------------------------
\* The invariant holds initially and is kept by every step.

LEMMA InitInv == Init => IInv
<1> SUFFICES ASSUME Init PROVE IInv
  OBVIOUS
<1>1. TypeOK BY NoRequestTyped DEF Init, TypeOK, JobStates
<1> QED BY <1>1, NoRequestSound DEF Init, IInv, InForce

\* The reads leave everything as it is and establish what they begin.
LEMMA BeginInv ==
  ASSUME IInv, NEW h \in Handlers, NEW q, Sound(q), TypeOK',
         request' = [request EXCEPT ![h] = q], UNCHANGED <<state, untriaged, story, key, origin>>
  PROVE  IInv'
<1>1. ASSUME NEW r \in Requests, InForce(r)'
      PROVE  Sound(r)'
  <2>1. r = q \/ InForce(r) BY <1>1 DEF InForce, IInv, TypeOK
  <2>2. Sound(r) BY <2>1 DEF IInv
  <2>3. Harmless(r) BY DEF Harmless, Created
  <2> QED BY <2>2, <2>3, HarmlessKeeps
<1> QED BY <1>1 DEF IInv

LEMMA EnqueueInv ==
  ASSUME IInv, TypeOK', NEW h \in Handlers, NEW s \in Stories, NEW acknowledged \in BOOLEAN,
         EnqueueReads(h, s, acknowledged)
  PROVE  IInv'
<1> DEFINE q == [via |-> "enqueue", story |-> s, key |-> Null, parent |-> Null, idem |-> Null,
                 cancels |-> FALSE, still |-> Created]
<1>1. Sound(q)
  BY DEF EnqueueReads, StoryTaken, Sound, Clear, ParentGone, LookedUp
<1>2. request' = [request EXCEPT ![h] = q] /\ UNCHANGED <<state, untriaged, story, key, origin>>
  BY DEF EnqueueReads, Begin
<1> HIDE DEF q
<1>3. PICK r : r = q OBVIOUS
<1> QED BY <1>1, <1>2, <1>3, BeginInv

LEMMA RedispatchInv ==
  ASSUME IInv, TypeOK', NEW h \in Handlers, NEW p \in Jobs, NEW k \in Keys, NEW i \in IdemKeys,
         NEW force \in BOOLEAN, RedispatchReads(h, p, k, i, force)
  PROVE  IInv'
<1> DEFINE q == [via |-> "redispatch", story |-> Null, key |-> k, parent |-> p,
                 idem |-> i, cancels |-> state[p] \notin Finished, still |-> Created]
<1>1. Clear(q)
  BY DEF RedispatchReads, KeyTaken, Clear
<1>2. ParentGone(q)
  BY DEF ParentGone
<1>3. LookedUp(q)
  <2>1. Children(p, k) = {} \/ \E c \in Children(p, k) : origin[c].idem # i
    BY DEF RedispatchReads, MissesIdemKey
  <2> QED BY <2>1 DEF LookedUp, Sibling, Children
<1>4. Sound(q) BY <1>1, <1>2, <1>3 DEF Sound
<1>5. request' = [request EXCEPT ![h] = q] /\ UNCHANGED <<state, untriaged, story, key, origin>>
  BY DEF RedispatchReads, Begin
<1> HIDE DEF q
<1>6. PICK r : r = q OBVIOUS
<1> QED BY <1>4, <1>5, <1>6, BeginInv

LEMMA RollBackInv ==
  ASSUME IInv, TypeOK', NEW h \in Handlers, RollBack(h)
  PROVE  IInv'
<1>1. Sound(NoRequest) BY NoRequestSound
<1> QED BY <1>1, BeginInv DEF RollBack

\* An insertion takes an id that no request has read, and its cancellation only
\* takes a job out of the way.
LEMMA InsertInv ==
  ASSUME IInv, TypeOK', NEW h \in Handlers, NEW j \in Jobs, Insert(h, j)
  PROVE  IInv'
<1> USE DEF StateAfter
<1>1. PICK q \in Requests : q = request[h] BY DEF IInv, TypeOK
<1>2. Sound(q) BY <1>1 DEF IInv, InForce
<1>3. PICK n \in Requests : n = [q EXCEPT !.cancels = FALSE] BY DEF Requests
<1>4. /\ n.via = q.via /\ n.story = q.story /\ n.key = q.key /\ n.parent = q.parent
      /\ n.idem = q.idem /\ n.still = q.still /\ ~n.cancels
  BY <1>3 DEF Requests
<1>5. origin' = [origin EXCEPT ![j] = n] /\ origin \in [Jobs -> Requests]
  BY <1>1, <1>3 DEF Insert, AddRow, IInv, TypeOK
<1>6. /\ j \notin Created
      /\ \A c \in Created : c \in Created' /\ origin'[c] = origin[c]
                         /\ story'[c] = story[c] /\ key'[c] = key[c]
  BY <1>5 DEF Insert, AddRow, Created, IInv, TypeOK
<1>7. \A c \in Created : state'[c] = state[c] \/ state'[c] = "cancelled"
  BY DEF Insert, AddRow, Created
<1>8. ASSUME NEW r, Sound(r) PROVE Harmless(r)
  BY <1>6, <1>7, <1>8 DEF Harmless, Sound, Clear, Finished, Active
<1>9. Sound(q)' BY <1>2, <1>8, HarmlessKeeps
<1>10. Sound(n)'
  <2>1. q.cancels /\ q.parent \in q.still => state'[q.parent] = "cancelled"
    BY <1>1, <1>2, <1>6 DEF Insert, AddRow, Cancelled, Sound, Clear, Created
  <2>2. ParentGone(n)' BY <1>4, <1>9, <2>1 DEF Sound, ParentGone, Finished
  <2>3. Clear(n)' BY <1>4, <1>9 DEF Sound, Clear
  <2>4. LookedUp(n)' BY <1>4, <1>9 DEF Sound, LookedUp, Sibling
  <2> QED BY <2>2, <2>3, <2>4 DEF Sound
<1>11. ASSUME NEW r \in Requests, InForce(r)'
       PROVE  Sound(r)'
  <2>1. request' = [request EXCEPT ![h] = NoRequest] /\ request \in [Handlers -> Requests]
    BY DEF Insert, AddRow, IInv, TypeOK
  <2>2. r = n \/ r = NoRequest \/ InForce(r) BY <1>5, <1>11, <2>1 DEF InForce
  <2>3. CASE r = n BY <2>3, <1>10
  <2>4. CASE r = NoRequest \/ InForce(r)
    <3>1. Sound(r) BY <2>4, NoRequestSound DEF IInv
    <3> QED BY <3>1, <1>8, HarmlessKeeps
  <2> QED BY <2>2, <2>3, <2>4
<1>12. \A i \in Jobs : ~origin'[i].cancels BY <1>4, <1>5 DEF IInv
<1> QED BY <1>11, <1>12 DEF IInv

\* Whatever happens to a job that every request then forgets is harmless.
LEMMA ForgetInv ==
  ASSUME IInv, TypeOK', NEW j \in Jobs, Forget(j), Created' = Created,
         \A i \in Jobs \ {j} : state'[i] = state[i] /\ story'[i] = story[i] /\ key'[i] = key[i]
  PROVE  IInv'
<1>1. ASSUME NEW r \in Requests, InForce(r)'
      PROVE  Sound(r)'
  <2>1. PICK q \in Requests : InForce(q) /\ r = [q EXCEPT !.still = @ \ {j}]
    BY <1>1 DEF InForce, Forget, IInv, TypeOK
  <2>2. Sound(r) BY <2>1, WeakerSound DEF IInv
  <2>3. r.still \subseteq Jobs \ {j} BY <2>1 DEF Requests
  <2>4. \A i \in Jobs : /\ origin'[i].parent = origin[i].parent
                       /\ origin'[i].idem = origin[i].idem
    BY DEF Forget, IInv, TypeOK, Requests
  <2>5. Harmless(r) BY <2>3, <2>4 DEF Harmless, Created
  <2> QED BY <2>2, <2>5, HarmlessKeeps
<1>2. ASSUME NEW i \in Jobs
      PROVE  ~origin'[i].cancels
  <2>1. origin[i] \in Requests /\ ~origin[i].cancels BY DEF IInv, TypeOK
  <2>2. origin'[i] = [origin[i] EXCEPT !.still = @ \ {j}] BY DEF Forget
  <2>3. origin'[i].cancels = origin[i].cancels BY <2>1, <2>2 DEF Requests
  <2> QED BY <2>1, <2>3
<1> QED BY <1>1, <1>2 DEF IInv

LEMMA RecordInv ==
  ASSUME IInv, TypeOK', NEW j \in Jobs, NEW e \in Events, Record(j, e)
  PROVE  IInv'
<1>1. StateAfter(e) # "absent" BY EventStates, CorrelationConstants
<1>2. /\ state' = [state EXCEPT ![j] = StateAfter(e)] /\ state \in [Jobs -> JobStates]
      /\ story' = story /\ key' = key /\ Created' = Created
  BY <1>1 DEF Record, Created, IInv, TypeOK
<1>3. CASE Revives(state[j], StateAfter(e))
  <2>1. Forget(j) BY <1>3 DEF Record
  <2> QED BY <1>2, <2>1, ForgetInv
<1>4. CASE ~Revives(state[j], StateAfter(e))
  <2>1. origin' = origin /\ request' = request BY <1>4 DEF Record
  <2>2. ASSUME NEW r \in Requests, InForce(r)
        PROVE  Sound(r)'
    <3>1. Sound(r) BY <2>2 DEF IInv
    <3>2. Harmless(r) BY <1>2, <1>4, <2>1, <3>1 DEF Harmless, Revives, Sound, Clear, Created
    <3> QED BY <3>1, <3>2, HarmlessKeeps
  <2> QED BY <2>1, <2>2 DEF IInv, InForce
<1> QED BY <1>3, <1>4

LEMMA SetKeyInv ==
  ASSUME IInv, TypeOK', NEW j \in Jobs, NEW k \in Keys, SetKey(j, k),
         \A i \in Jobs \ {j} : story'[i] = story[i]
  PROVE  IInv'
<1>1. Forget(j) /\ state' = state /\ key' = [key EXCEPT ![j] = k] /\ Created' = Created
  BY DEF SetKey, Created
<1> QED BY <1>1, ForgetInv DEF IInv, TypeOK

THEOREM Invariant == Spec => []IInv
<1>1. IInv /\ [Next]_vars => IInv'
  <2> SUFFICES ASSUME IInv, [Next]_vars PROVE IInv'
    OBVIOUS
  <2>1. TypeOK' BY TypeStep DEF IInv
  <2>2. CASE UNCHANGED vars
    BY <2>2 DEF vars, IInv, TypeOK, InForce, Sound, Clear, ParentGone, LookedUp, Sibling, Created
  <2>3. CASE \E h \in Handlers : RequestStep(h)
    BY <2>1, <2>3, EnqueueInv, RedispatchInv, InsertInv, RollBackInv DEF RequestStep
  <2>4. CASE \E j \in Jobs : QueueStep(j)
    <3>1. ASSUME NEW j \in Jobs, NEW k \in Keys,
                 StampPr(j, k) \/ \E s \in Stories : LinkPr(j, k, s)
          PROVE  IInv'
      <4>1. SetKey(j, k) BY <3>1 DEF StampPr, LinkPr
      <4>2. \A i \in Jobs \ {j} : story'[i] = story[i] BY <3>1 DEF StampPr, LinkPr, IInv, TypeOK
      <4> QED BY <2>1, <4>1, <4>2, SetKeyInv
    <3> QED BY <2>1, <2>4, <3>1, RecordInv DEF QueueStep
  <2> QED BY <2>2, <2>3, <2>4 DEF Next
<1> QED BY <1>1, InitInv, PTL DEF Spec

-----------------------------------------------------------------------------
\* What follows.

\* Every reachable state is well typed: /enqueue, /redispatch, the events of the
\* queue and the linking of pull requests leave the tables in their types.
THEOREM TypeCorrect == Spec => []TypeOK
BY Invariant, PTL DEF IInv

LEMMA CreatedInForce == \A j \in Created : InForce(origin[j])
BY DEF InForce, Created

\* Two live jobs for the same work, of which the later one's request could see the
\* earlier, mean that the earlier one was finished and came back.
THEOREM DuplicatesOverlapHolds == Spec => []DuplicatesOverlap
<1>1. IInv => DuplicatesOverlap
  BY CreatedInForce DEF IInv, TypeOK, Sound, Clear, DuplicatesOverlap, Created
<1> QED BY <1>1, Invariant, PTL

\* A redispatched job's parent is finished until an event revives it.
THEOREM LineageExclusiveHolds == Spec => []LineageExclusive
<1>1. IInv => LineageExclusive
  BY CreatedInForce DEF IInv, TypeOK, Sound, ParentGone, LineageExclusive, Created
<1> QED BY <1>1, Invariant, PTL

\* A repeated /redispatch creates no second job but beside a sibling.
THEOREM IdempotentButForSiblingsHolds == Spec => []IdempotentButForSiblings
<1>1. IInv => IdempotentButForSiblings
  BY CreatedInForce DEF IInv, TypeOK, Sound, LookedUp, Sibling, Twins,
                        IdempotentButForSiblings, Created
<1> QED BY <1>1, Invariant, PTL

=============================================================================
