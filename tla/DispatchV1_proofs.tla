-------------------------- MODULE DispatchV1_proofs --------------------------
(***************************************************************************)
(* Safety of DispatchV1 for any rows, stories, agents and caps.  Most      *)
(* steps claim nothing: what they do to the rows is said once, by Calm,    *)
(* and the invariants are then shown for calm steps, for an agent's claim, *)
(* and for the claims an agent does not wait for (reclaims, late requests).*)
(***************************************************************************)
EXTENDS DispatchV1, TLAPS

\* A row with a pull request belongs to a story that shipped.
PrShipped == \A i \in Items : row[i].pr => StoryOf[i] \in shipped

\* The step claims no row: a row claimed after it was claimed before, by the same
\* agent, and a heartbeat that it touched is set.
Calm ==
  /\ \A i \in Items :
       row'[i].status = "claimed" =>
         /\ row[i].status = "claimed" /\ row'[i].agent = row[i].agent
         /\ row'[i].touched /\ row'[i].beat = "null" => row[i].touched /\ row[i].beat = "null"
         /\ i \notin unguarded' => i \notin unguarded
  /\ \A i \in Items : row'[i].pr => row[i].pr \/ StoryOf[i] \in shipped'
  /\ shipped \subseteq shipped'

\* No completed or cancelled row changes its status.
Spared == \A i \in Items : Is(i, {"completed", "cancelled"}) => row'[i].status = row[i].status

-----------------------------------------------------------------------------
\* What the operators that write rows do.

LEMMA NewRowTyped ==
  ASSUME NEW s \in Statuses, NEW n \in 0..MaxRetries
  PROVE  NewRow(s, n) \in Rows
BY V1ConstantsOK DEF NewRow, Rows

LEMMA SetStatusCalm ==
  ASSUME TypeOK, NEW i \in Items, NEW s \in Statuses \ {"claimed"}, SetStatus(i, s),
         ~Is(i, {"completed", "cancelled"}), UNCHANGED <<shipped, unguarded>>
  PROVE  row' \in [Items -> Rows] /\ Calm /\ Spared
BY DEF TypeOK, SetStatus, Rows, Calm, Spared, Is

LEMMA UnchangedCalm ==
  ASSUME TypeOK, UNCHANGED <<row, shipped, unguarded>>
  PROVE  row' \in [Items -> Rows] /\ Calm /\ Spared
BY DEF TypeOK, Calm, Spared, Is

LEMMA FailedCalm ==
  ASSUME TypeOK, NEW i \in Items, Failed(i), UNCHANGED <<shipped, unguarded>>
  PROVE  row' \in [Items -> Rows] /\ Calm /\ Spared
<1>1. CASE Is(i, {"claimed", "pending"})
  <2>1. SetStatus(i, "failed") /\ "failed" \in Statuses \ {"claimed"}
    BY <1>1 DEF Failed, Statuses
  <2>2. ~Is(i, {"completed", "cancelled"})  BY <1>1 DEF Is
  <2> QED BY <2>1, <2>2, SetStatusCalm
<1>2. CASE ~Is(i, {"claimed", "pending"})
  BY <1>2, UnchangedCalm DEF Failed
<1> QED BY <1>1, <1>2

LEMMA UnclaimCalm ==
  ASSUME TypeOK, NEW S \in SUBSET Items, Unclaim(S), UNCHANGED shipped,
         \A i \in S : ~Is(i, {"completed", "cancelled"})
  PROVE  row' \in [Items -> Rows] /\ Calm /\ Spared /\ unguarded' \subseteq Items
<1>1. ASSUME NEW i \in Items
      PROVE  /\ row'[i] \in Rows
             /\ i \in S => row'[i].status = "pending" /\ row'[i].pr = row[i].pr
             /\ i \notin S => row'[i] = row[i]
  <2>1. CASE i \in S
    <3>1. row'[i] = [row[i] EXCEPT !.status = "pending", !.agent = None, !.touched = FALSE]
      BY <2>1 DEF Unclaim
    <3>2. row[i] \in Rows  BY DEF TypeOK
    <3> QED BY <2>1, <3>1, <3>2 DEF Rows, Statuses
  <2>2. CASE i \notin S
    BY <2>2 DEF Unclaim, TypeOK
  <2> QED BY <2>1, <2>2
<1>2. row' \in [Items -> Rows]
  BY <1>1 DEF Unclaim
<1>3. Calm
  BY <1>1 DEF Calm, Unclaim
<1>4. Spared
  BY <1>1 DEF Spared
<1> QED BY <1>2, <1>3, <1>4 DEF TypeOK, Unclaim

LEMMA TakeTyped ==
  ASSUME TypeOK, NEW i \in Items, NEW a \in Agents, Take(i, a)
  PROVE  row' \in [Items -> Rows]
<1>1. row[i] \in Rows  BY DEF TypeOK
<1>2. [row[i] EXCEPT !.status = "claimed", !.agent = a, !.touched = FALSE] \in Rows
  BY <1>1 DEF Rows, Statuses
<1> QED BY <1>2 DEF TypeOK, Take

LEMMA EnqueueCheckCalm ==
  ASSUME TypeOK, NEW i \in Items, NEW n \in 0..MaxRetries, EnqueueCheck(i, n),
         UNCHANGED <<shipped, unguarded>>
  PROVE  /\ row' \in [Items -> Rows] /\ Calm /\ Spared
         /\ inserting' \subseteq Items \X (0..MaxRetries)
<1>1. NewRow("pending", n) \in Rows /\ NewRow("pending", n).status = "pending"
      /\ NewRow("pending", n).pr = FALSE
  BY NewRowTyped DEF Statuses, NewRow
<1>2. CASE Is(i, {"absent"}) /\ row' = [row EXCEPT ![i] = NewRow("pending", n)]
           /\ UNCHANGED inserting
  BY <1>1, <1>2 DEF TypeOK, Calm, Spared, Is
<1>3. CASE inserting' = inserting \cup {<<i, n>>} /\ UNCHANGED row
  BY <1>3, UnchangedCalm DEF TypeOK
<1> QED BY <1>2, <1>3 DEF EnqueueCheck

LEMMA GotoTyped ==
  ASSUME TypeOK, NEW a \in Agents, NEW p \in Places, Goto(a, p)
  PROVE  pc' \in [Agents -> Places]
BY DEF TypeOK, Goto

LEMMA IdleTyped ==
  ASSUME TypeOK, NEW a \in Agents, Idle(a)
  PROVE  /\ pc' \in [Agents -> Places]
         /\ job' \in [Agents -> Items \cup {None}]
         /\ \A b \in Agents : pc'[b] = "idle" <=> job'[b] = None
         /\ carried' \in [Agents -> 0..MaxRetries]
BY V1ConstantsOK DEF TypeOK, Idle, Goto, Places

LEMMA HauntTyped ==
  ASSUME TypeOK, NEW a \in Agents, pc[a] /= "idle", Haunt(a)
  PROVE  ghosts' \subseteq Agents \X Items
BY V1ConstantsOK DEF TypeOK, Haunt

LEMMA OrphanedTyped ==
  ASSUME TypeOK, NEW a \in Agents, Orphaned(a),
         pc[a] \in {"cleared", "waved"} => job[a] \in Items
  PROVE  late' \subseteq Agents \X Stories
BY V1ConstantsOK DEF TypeOK, Orphaned

-----------------------------------------------------------------------------
\* The steps of the console.

LEMMA ConsoleCalm ==
  ASSUME TypeOK, NEW i \in Items,
         \/ Enqueue(i) \/ BeatAges(i) \/ Cancel(i) \/ Pause(i) \/ Review(i)
         \/ RecoverNeverStarted(i) \/ RecoverSilent(i) \/ RecoverDied(i)
  PROVE  TypeOK' /\ Calm /\ Spared
<1>1. CASE Enqueue(i)
  <2>1. 0 \in 0..MaxRetries  BY V1ConstantsOK
  <2> QED BY <1>1, <2>1, EnqueueCheckCalm DEF Enqueue, TypeOK, fleet
<1>2. CASE BeatAges(i)
  BY <1>2 DEF BeatAges, TypeOK, Rows, Calm, Spared, Is, fleet
<1>3. CASE Cancel(i)
  BY <1>3 DEF Cancel, TypeOK, Rows, Statuses, Calm, Spared, Is, fleet
<1>4. CASE Pause(i)
  <2>1. "paused" \in Statuses \ {"claimed"} /\ ~Is(i, {"completed", "cancelled"})
    BY <1>4 DEF Statuses, Pause, Is
  <2> QED BY <1>4, <2>1, SetStatusCalm DEF Pause, TypeOK, fleet
<1>5. CASE Review(i)
  <2>1. "in_review" \in Statuses \ {"claimed"} /\ ~Is(i, {"completed", "cancelled"})
    BY <1>5 DEF Statuses, Review, Is
  <2> QED BY <1>5, <2>1, SetStatusCalm DEF Review, TypeOK, fleet
<1>6. CASE RecoverNeverStarted(i)
  BY <1>6, UnclaimCalm DEF RecoverNeverStarted, TypeOK, fleet, Is
<1>7. CASE RecoverSilent(i)
  <2>1. row[i].stale + 1 \in 0..MaxStale
    BY <1>7, V1ConstantsOK DEF RecoverSilent, TypeOK, Rows
  <2> DEFINE r == [row[i] EXCEPT !.status = "pending", !.agent = None, !.touched = FALSE,
                                 !.beat = "null", !.stale = row[i].stale + 1]
  <2>2. row[i] \in Rows  BY DEF TypeOK
  <2>3. r \in Rows /\ r.status = "pending" /\ r.pr = row[i].pr
    BY <2>1, <2>2 DEF Rows, Statuses
  <2>4. row' = [row EXCEPT ![i] = r]  BY <1>7 DEF RecoverSilent
  <2> HIDE DEF r
  <2>5. row' \in [Items -> Rows]  BY <2>3, <2>4 DEF TypeOK
  <2>6. Calm /\ Spared  BY <1>7, <2>3, <2>4 DEF RecoverSilent, TypeOK, Calm, Spared, Is
  <2> QED BY <1>7, <2>5, <2>6 DEF RecoverSilent, TypeOK, fleet
<1>8. CASE RecoverDied(i)
  BY <1>8 DEF RecoverDied, TypeOK, Rows, Statuses, Calm, Spared, Is, fleet
<1> QED BY <1>1, <1>2, <1>3, <1>4, <1>5, <1>6, <1>7, <1>8

LEMMA CompleteByHandCalm ==
  ASSUME TypeOK, NEW i \in Items, CompleteByHand(i)
  PROVE  TypeOK' /\ Calm /\ Spared
<1>1. row' \in [Items -> Rows] /\ Spared
  BY DEF CompleteByHand, TypeOK, Rows, Statuses, Spared, Is
<1>2. shipped' \subseteq Stories
  BY V1ConstantsOK DEF CompleteByHand, TypeOK
<1>3. Calm  BY DEF CompleteByHand, TypeOK, Calm
<1> QED BY <1>1, <1>2, <1>3 DEF CompleteByHand, TypeOK, fleet

LEMMA StoryCalm ==
  ASSUME TypeOK, NEW s \in Stories, ForceRelease(s) \/ NeedsInfo(s) \/ Answer(s)
  PROVE  TypeOK' /\ Calm /\ Spared
<1>1. CASE ForceRelease(s)
  <2> DEFINE S == {i \in RowsOf(s) : Is(i, {"claimed", "in_review"})}
  <2>1. S \in SUBSET Items /\ \A i \in S : ~Is(i, {"completed", "cancelled"})
    BY DEF RowsOf, Is
  <2>2. Unclaim(S)  BY <1>1 DEF ForceRelease
  <2> QED BY <1>1, <2>1, <2>2, UnclaimCalm DEF ForceRelease, TypeOK, fleet
<1>2. CASE NeedsInfo(s)
  BY <1>2 DEF NeedsInfo, RowsOf, TypeOK, Rows, Statuses, Calm, Spared, Is, fleet
<1>3. CASE Answer(s)
  <2>1. PICK S \in SUBSET {i \in RowsOf(s) : Is(i, {"needs_info"})} : Unclaim(S)
    BY <1>3 DEF Answer
  <2>2. S \in SUBSET Items /\ \A i \in S : ~Is(i, {"completed", "cancelled"})
    BY <2>1 DEF RowsOf, Is
  <2> QED BY <1>3, <2>1, <2>2, UnclaimCalm DEF Answer, TypeOK, fleet
<1> QED BY <1>1, <1>2, <1>3

LEMMA ReplaceCalm ==
  ASSUME TypeOK, NEW e \in inserting, EnqueueReplace(e)
  PROVE  /\ TypeOK' /\ Calm
         /\ \A i \in Items : row'[i].status /= row[i].status =>
              \E n \in 0..MaxRetries : <<i, n>> \in inserting \ inserting'
<1>1. e[1] \in Items /\ e[2] \in 0..MaxRetries /\ e = <<e[1], e[2]>>  BY DEF TypeOK
<1>2. NewRow("pending", e[2]) \in Rows /\ NewRow("pending", e[2]).status = "pending"
      /\ NewRow("pending", e[2]).pr = FALSE
  BY <1>1, NewRowTyped DEF Statuses, NewRow
<1>3. Calm
  BY <1>1, <1>2 DEF EnqueueReplace, TypeOK, Calm
<1>4. TypeOK'
  BY <1>1, <1>2 DEF EnqueueReplace, TypeOK, fleet
<1>5. \A i \in Items : row'[i].status /= row[i].status => i = e[1]
  BY DEF EnqueueReplace, TypeOK
<1> QED BY <1>1, <1>3, <1>4, <1>5 DEF EnqueueReplace

LEMMA ReclaimTyped ==
  ASSUME TypeOK, NEW i \in Items, NEW a \in Agents, Reclaim(i, a)
  PROVE  TypeOK' /\ Spared
<1>1. row' \in [Items -> Rows]  BY TakeTyped DEF Reclaim
<1>2. Spared  BY DEF Reclaim, Take, Spared, Is, TypeOK
<1> QED BY <1>1, <1>2 DEF Reclaim, TypeOK, fleet

-----------------------------------------------------------------------------
\* The steps of an agent other than its claim.

LEMMA AgentCalm ==
  ASSUME TypeOK, NEW a \in Agents,
         \/ \E i \in Items : GetNext(a, i) \/ Beat(a, i) \/ GhostStalls(a, i)
         \/ CheckClaims(a) \/ ClaimRefused(a) \/ GiveUp(a) \/ StartPhases(a)
         \/ Complete(a) \/ ReportFail(a) \/ Retry(a) \/ Release(a) \/ AskInVain(a)
         \/ Restart(a)
  PROVE  TypeOK' /\ Calm /\ Spared
<1>0. pc[a] /= "idle" => job[a] \in Items
  BY DEF TypeOK
<1>1. ASSUME NEW i \in Items, GetNext(a, i) PROVE TypeOK' /\ Calm /\ Spared
  <2>1. row[i].retry \in 0..MaxRetries  BY DEF TypeOK, Rows
  <2>2. \A b \in Agents : pc'[b] = "idle" <=> job'[b] = None
    BY <1>1, V1ConstantsOK DEF GetNext, Goto, TypeOK
  <2>3. pc' \in [Agents -> Places]  BY <1>1, GotoTyped DEF GetNext, Places
  <2>4. job' \in [Agents -> Items \cup {None}] /\ carried' \in [Agents -> 0..MaxRetries]
    BY <1>1, <2>1 DEF GetNext, TypeOK
  <2> QED BY <1>1, <2>2, <2>3, <2>4, UnchangedCalm DEF GetNext, TypeOK
<1>2. ASSUME NEW i \in Items, Beat(a, i) PROVE TypeOK' /\ Calm /\ Spared
  <2> DEFINE r == [row[i] EXCEPT !.touched = TRUE, !.beat = "recent"]
  <2>1. row[i] \in Rows  BY DEF TypeOK
  <2>2. /\ r \in Rows /\ r.status = row[i].status /\ r.agent = row[i].agent
        /\ r.pr = row[i].pr /\ r.beat /= "null"
    BY <2>1 DEF Rows
  <2>3. row' = [row EXCEPT ![i] = r]  BY <1>2 DEF Beat, Beaten
  <2> HIDE DEF r
  <2>4. row' \in [Items -> Rows]  BY <2>2, <2>3 DEF TypeOK
  <2>5. Calm /\ Spared  BY <1>2, <2>2, <2>3 DEF Beat, TypeOK, Calm, Spared, Is
  <2> QED BY <1>2, <2>4, <2>5 DEF Beat, TypeOK, fleet
<1>3. ASSUME NEW i \in Items, GhostStalls(a, i) PROVE TypeOK' /\ Calm /\ Spared
  BY <1>3, FailedCalm DEF GhostStalls, TypeOK
<1>4. CASE ClaimRefused(a)
  BY <1>4, IdleTyped, UnchangedCalm DEF ClaimRefused, TypeOK
<1>5. CASE StartPhases(a)
  <2>1. \A b \in Agents : pc'[b] = "idle" <=> job'[b] = None
    BY <1>5 DEF StartPhases, Goto, TypeOK
  <2>2. pc' \in [Agents -> Places]  BY <1>5, GotoTyped DEF StartPhases, Places
  <2> QED BY <1>5, <2>1, <2>2, UnchangedCalm DEF StartPhases, TypeOK
<1>6. CASE Complete(a)
  <2>1. CASE Is(job[a], {"claimed", "pending", "in_review"}) /\ SetStatus(job[a], "completed")
    <3>1. "completed" \in Statuses \ {"claimed"} /\ ~Is(job[a], {"completed", "cancelled"})
      BY <2>1 DEF Statuses, Is
    <3>2. job[a] \in Items  BY <1>0, <1>6 DEF Complete
    <3>3. row' \in [Items -> Rows] /\ Calm /\ Spared
      BY <1>6, <2>1, <3>1, <3>2, SetStatusCalm DEF Complete
    <3> QED BY <1>6, <3>3, IdleTyped DEF Complete, TypeOK
  <2>2. CASE UNCHANGED row
    BY <1>6, <2>2, UnchangedCalm, IdleTyped DEF Complete, TypeOK
  <2> QED BY <1>6, <2>1, <2>2 DEF Complete
<1>7. CASE ReportFail(a)
  <2>1. row' \in [Items -> Rows] /\ Calm /\ Spared
    <3>1. CASE Cardinality(Meant(a)) = 1
      <4>1. PICK i \in Meant(a) : Failed(i)  BY <1>7, <3>1 DEF ReportFail
      <4>2. i \in Items  BY DEF Meant, RowsOf
      <4> QED BY <1>7, <4>1, <4>2, FailedCalm DEF ReportFail
    <3>2. CASE Cardinality(Meant(a)) /= 1
      BY <1>7, <3>2, UnchangedCalm DEF ReportFail
    <3> QED BY <3>1, <3>2
  <2>2. ghosts' \subseteq Agents \X Items
    <3>1. pc[a] /= "idle"  BY <1>7 DEF ReportFail
    <3> QED BY <1>7, <3>1, HauntTyped DEF ReportFail
  <2>3. CASE Goto(a, "retrying") /\ UNCHANGED <<job, carried>>
    <3>1. pc' \in [Agents -> Places]  BY <2>3, GotoTyped DEF Places
    <3>2. \A b \in Agents : pc'[b] = "idle" <=> job'[b] = None
      BY <1>7, <2>3 DEF ReportFail, Goto, TypeOK
    <3> QED BY <1>7, <2>1, <2>2, <2>3, <3>1, <3>2 DEF ReportFail, TypeOK
  <2>4. CASE Idle(a)
    BY <1>7, <2>1, <2>2, <2>4, IdleTyped DEF ReportFail, TypeOK
  <2> QED BY <1>7, <2>3, <2>4 DEF ReportFail
<1>8. CASE Retry(a)
  <2>1. CASE ~OutOfRetries(a) /\ EnqueueCheck(job[a], carried[a] + 1)
    <3>1. carried[a] + 1 \in 0..MaxRetries
      BY <2>1, V1ConstantsOK DEF OutOfRetries, TypeOK
    <3>2. job[a] \in Items  BY <1>0, <1>8 DEF Retry
    <3>3. /\ row' \in [Items -> Rows] /\ Calm /\ Spared
          /\ inserting' \subseteq Items \X (0..MaxRetries)
      BY <1>8, <2>1, <3>1, <3>2, EnqueueCheckCalm DEF Retry
    <3> QED BY <1>8, <3>3, IdleTyped DEF Retry, TypeOK
  <2>2. CASE UNCHANGED <<row, inserting>>
    BY <1>8, <2>2, UnchangedCalm, IdleTyped DEF Retry, TypeOK
  <2> QED BY <1>8, <2>1, <2>2 DEF Retry
<1>9. CASE Release(a)
  <2> DEFINE S == {i \in Meant(a) : Is(i, {"claimed"})}
  <2>1. S \in SUBSET Items /\ \A i \in S : ~Is(i, {"completed", "cancelled"})
    BY DEF Meant, RowsOf, Is
  <2>2. Unclaim(S) /\ pc[a] /= "idle"  BY <1>9 DEF Release
  <2>3. row' \in [Items -> Rows] /\ Calm /\ Spared /\ unguarded' \subseteq Items
    BY <1>9, <2>1, <2>2, UnclaimCalm DEF Release
  <2>4. ghosts' \subseteq Agents \X Items  BY <1>9, <2>2, HauntTyped DEF Release
  <2> QED BY <1>9, <2>3, <2>4, IdleTyped DEF Release, TypeOK
<1>10. CASE AskInVain(a)
  <2>1. ghosts' \subseteq Agents \X Items
    <3>1. pc[a] /= "idle"  BY <1>10 DEF AskInVain
    <3> QED BY <1>10, <3>1, HauntTyped DEF AskInVain
  <2> QED BY <1>10, <2>1, IdleTyped, UnchangedCalm DEF AskInVain, TypeOK
<1>11. CASE Restart(a)
  <2>1. late' \subseteq Agents \X Stories
    <3>1. pc[a] \in {"cleared", "waved"} => job[a] \in Items  BY <1>0
    <3> QED BY <1>11, <3>1, OrphanedTyped DEF Restart
  <2> QED BY <1>11, <2>1, IdleTyped, UnchangedCalm DEF Restart, TypeOK
<1>12. CASE GiveUp(a)
  <2>1. late' \subseteq Agents \X Stories
    <3>1. pc[a] \in {"cleared", "waved"} => job[a] \in Items  BY <1>0
    <3> QED BY <1>12, <3>1, OrphanedTyped DEF GiveUp
  <2> QED BY <1>12, <2>1, IdleTyped, UnchangedCalm DEF GiveUp, TypeOK
<1>13. CASE CheckClaims(a)
  <2>1. PICK p \in {"cleared", "waved"} : Goto(a, p)
    BY <1>13 DEF CheckClaims
  <2>2. \A b \in Agents : pc'[b] = "idle" <=> job'[b] = None
    BY <1>13, <2>1 DEF CheckClaims, Goto, TypeOK
  <2>3. pc' \in [Agents -> Places]  BY <2>1, GotoTyped DEF Places
  <2> QED BY <1>13, <2>2, <2>3, UnchangedCalm DEF CheckClaims, TypeOK
<1> QED BY <1>1, <1>2, <1>3, <1>4, <1>5, <1>6, <1>7, <1>8, <1>9, <1>10, <1>11, <1>12, <1>13

LEMMA ClaimsTyped ==
  ASSUME TypeOK, NEW k \in Items, NEW s, NEW a \in Agents, Claims(k, s, a)
  PROVE  row' \in [Items -> Rows] /\ Spared
<1>1. Is(k, {"pending", "claimed", "paused"})
  BY DEF Claims, Claimable
<1>2. row' \in [Items -> Rows]  BY TakeTyped DEF Claims
<1>3. Spared  BY <1>1 DEF Claims, Take, Spared, Is, TypeOK
<1> QED BY <1>2, <1>3

LEMMA ClaimTyped ==
  ASSUME TypeOK, NEW a \in Agents, Claim(a)
  PROVE  TypeOK' /\ Spared
<1>1. PICK k \in Items : Claims(k, StoryOf[job[a]], a)
        /\ unguarded' = IF pc[a] = "waved" THEN unguarded \cup {k} ELSE unguarded \ {k}
  BY DEF Claim
<1>2. row' \in [Items -> Rows] /\ Spared  BY <1>1, ClaimsTyped
<1>3. unguarded' \subseteq Items  BY <1>1 DEF TypeOK
<1>4. CASE Goto(a, "starting") /\ UNCHANGED <<job, carried>>
  <2>1. pc' \in [Agents -> Places]  BY <1>4, GotoTyped DEF Places
  <2>2. \A b \in Agents : pc'[b] = "idle" <=> job'[b] = None
    BY <1>4 DEF Claim, Goto, TypeOK
  <2> QED BY <1>2, <1>3, <1>4, <2>1, <2>2 DEF Claim, TypeOK
<1>5. CASE Idle(a)
  BY <1>2, <1>3, <1>5, IdleTyped DEF Claim, TypeOK
<1> QED BY <1>4, <1>5 DEF Claim

LEMMA LateClaimTyped ==
  ASSUME TypeOK, NEW q \in late, LateClaim(q)
  PROVE  TypeOK' /\ Spared
<1>1. q[1] \in Agents  BY DEF TypeOK
<1>2. ASSUME NEW k \in Items, Claims(k, q[2], q[1]), unguarded' = unguarded \cup {k}
      PROVE  TypeOK' /\ Spared
  <2>1. row' \in [Items -> Rows] /\ Spared  BY <1>1, <1>2, ClaimsTyped
  <2> QED BY <1>2, <2>1 DEF LateClaim, TypeOK, fleet
<1>3. CASE UNCHANGED <<row, unguarded>>
  BY <1>3 DEF LateClaim, TypeOK, fleet, Spared, Is
<1> QED BY <1>2, <1>3 DEF LateClaim

-----------------------------------------------------------------------------
\* The invariant, and what preserves it.

\* An agent whose check found no claim has none that counts: only a reclaim or a
\* late request can have given it one since.
ClearedFree ==
  \A a \in Agents, i \in Items :
    pc[a] = "cleared" /\ Is(i, {"claimed"}) /\ row[i].agent = a => i \in unguarded

IInv == TypeOK /\ OneClaimEach /\ ClearedFree /\ NoSlowTier /\ PrShipped
Kept == OneClaimEach' /\ ClearedFree' /\ NoSlowTier' /\ PrShipped'

\* A step lets no claim pass its check but with the answer no.
Checked == \A b \in Agents : pc'[b] = "cleared" => pc[b] = "cleared" \/ ~Busy(b)

LEMMA StepChecked == ASSUME TypeOK, Next PROVE Checked
<1>1. CASE ByConsole
  <2>1. UNCHANGED pc
    BY <1>1 DEF ByConsole, Enqueue, BeatAges, Cancel, Pause, Review, CompleteByHand,
         RecoverNeverStarted, RecoverSilent, RecoverDied, Reclaim, ForceRelease, NeedsInfo,
         Answer, EnqueueReplace, LateClaim, fleet
  <2> QED BY <2>1 DEF Checked
<1>2. ASSUME NEW a \in Agents, ByAgent(a), ~CheckClaims(a) PROVE Checked
  <2>1. \A b \in Agents : pc'[b] = pc[b] \/ pc'[b] /= "cleared"
    BY <1>2 DEF ByAgent, GetNext, Beat, GhostStalls, Claim, ClaimRefused, GiveUp,
         StartPhases, Complete, ReportFail, Retry, Release, AskInVain, Restart, Idle,
         Goto, TypeOK, fleet
  <2> QED BY <2>1 DEF Checked
<1>3. ASSUME NEW a \in Agents, CheckClaims(a) PROVE Checked
  BY <1>3 DEF CheckClaims, Goto, TypeOK, Checked
<1> QED BY <1>1, <1>2, <1>3 DEF Next

LEMMA CalmKeeps ==
  ASSUME IInv, Calm, Checked, TypeOK'
  PROVE  Kept
<1>1. OneClaimEach'  BY DEF IInv, OneClaimEach, Calm, Is
<1>2. ClearedFree'  BY DEF IInv, ClearedFree, Calm, Checked, Busy, Is
<1>3. NoSlowTier'  BY DEF IInv, NoSlowTier, SlowTierMatches, Calm, Is
<1>4. PrShipped'  BY DEF IInv, PrShipped, Calm
<1> QED BY <1>1, <1>2, <1>3, <1>4 DEF Kept

LEMMA TakeKeeps ==
  ASSUME IInv, NEW k \in Items, NEW a \in Agents, Take(k, a), shipped' = shipped
  PROVE  /\ NoSlowTier' /\ PrShipped'
         /\ row'[k].status = "claimed" /\ row'[k].agent = a
         /\ \A i \in Items \ {k} : row'[i] = row[i]
<1>1. /\ row'[k].status = "claimed" /\ row'[k].agent = a /\ ~row'[k].touched
      /\ row'[k].pr = row[k].pr
  BY DEF Take, IInv, TypeOK, Rows
<1>2. \A i \in Items \ {k} : row'[i] = row[i]
  BY DEF Take, IInv, TypeOK
<1>3. NoSlowTier'
  BY <1>1, <1>2 DEF IInv, NoSlowTier, SlowTierMatches, Is
<1>4. PrShipped'
  BY <1>1, <1>2 DEF IInv, PrShipped
<1> QED BY <1>1, <1>2, <1>3, <1>4

\* A claim its agent does not wait for, or whose check raised.
LEMMA UnguardedKeeps ==
  ASSUME IInv, Checked, NEW k \in Items, NEW a \in Agents, Take(k, a),
         unguarded' = unguarded \cup {k}, shipped' = shipped,
         \A b \in Agents : pc'[b] = "cleared" => pc[b] = "cleared"
  PROVE  Kept
<1>1. NoSlowTier' /\ PrShipped' /\ \A i \in Items \ {k} : row'[i] = row[i]
  BY TakeKeeps
<1>2. OneClaimEach'  BY <1>1 DEF IInv, OneClaimEach, Is
<1>3. ClearedFree'  BY <1>1 DEF IInv, ClearedFree, Is
<1> QED BY <1>1, <1>2, <1>3 DEF Kept

LEMMA ClaimKeeps ==
  ASSUME IInv, Checked, NEW a \in Agents, Claim(a)
  PROVE  Kept
<1>1. PICK k \in Items : Claims(k, StoryOf[job[a]], a)
        /\ unguarded' = IF pc[a] = "waved" THEN unguarded \cup {k} ELSE unguarded \ {k}
  BY DEF Claim
<1>2. Take(k, a) /\ shipped' = shipped  BY <1>1 DEF Claims, Claim
<1>3. pc'[a] /= "cleared" /\ \A b \in Agents \ {a} : pc'[b] = pc[b]
  BY DEF Claim, Goto, Idle, IInv, TypeOK
<1>4. CASE pc[a] = "waved"
  BY <1>1, <1>2, <1>3, <1>4, UnguardedKeeps
<1>5. CASE pc[a] = "cleared"
  <2>1. /\ NoSlowTier' /\ PrShipped'
        /\ row'[k].status = "claimed" /\ row'[k].agent = a
        /\ \A i \in Items \ {k} : row'[i] = row[i]
    BY <1>2, TakeKeeps
  <2>2. unguarded' = unguarded \ {k}  BY <1>1, <1>5
  <2>3. OneClaimEach'
    BY <1>5, <2>1, <2>2 DEF IInv, OneClaimEach, ClearedFree, Is
  <2>4. ClearedFree'
    BY <1>3, <2>1, <2>2 DEF IInv, ClearedFree, Is
  <2> QED BY <2>1, <2>3, <2>4 DEF Kept
<1> QED BY <1>4, <1>5 DEF Claim

LEMMA ReclaimKeeps ==
  ASSUME IInv, Checked, NEW k \in Items, NEW a \in Agents, Reclaim(k, a)
  PROVE  Kept
<1>1. UNCHANGED pc /\ Take(k, a) /\ unguarded' = unguarded \cup {k} /\ shipped' = shipped
  BY DEF Reclaim, fleet
<1> QED BY <1>1, UnguardedKeeps

LEMMA LateClaimKeeps ==
  ASSUME IInv, Checked, TypeOK', NEW q \in late, LateClaim(q)
  PROVE  Kept
<1>1. UNCHANGED <<pc, shipped>> /\ q[1] \in Agents  BY DEF LateClaim, fleet, IInv, TypeOK
<1>2. ASSUME NEW k \in Items, Claims(k, q[2], q[1]), unguarded' = unguarded \cup {k}
      PROVE  Kept
  <2>1. Take(k, q[1])  BY <1>2 DEF Claims
  <2> QED BY <1>1, <1>2, <2>1, UnguardedKeeps
<1>3. CASE UNCHANGED <<row, unguarded>>
  <2>1. TypeOK /\ UNCHANGED <<row, shipped, unguarded>>  BY <1>1, <1>3 DEF IInv
  <2>2. Calm  BY <2>1, UnchangedCalm
  <2> QED BY <2>2, CalmKeeps
<1> QED BY <1>2, <1>3 DEF LateClaim

LEMMA StepKeeps ==
  ASSUME IInv, Next
  PROVE  /\ IInv'
         /\ \A i \in Items : Is(i, {"completed", "cancelled"}) /\ row'[i].status /= row[i].status
              => \E n \in 0..MaxRetries : <<i, n>> \in inserting \ inserting'
<1>0. TypeOK /\ Checked  BY StepChecked DEF IInv
<1>1. CASE \E i \in Items : Enqueue(i) \/ BeatAges(i) \/ Cancel(i) \/ Pause(i) \/ Review(i)
              \/ RecoverNeverStarted(i) \/ RecoverSilent(i) \/ RecoverDied(i)
  BY <1>0, <1>1, ConsoleCalm, CalmKeeps DEF IInv, Kept, Spared
<1>2. CASE \E i \in Items : CompleteByHand(i)
  BY <1>0, <1>2, CompleteByHandCalm, CalmKeeps DEF IInv, Kept, Spared
<1>3. CASE \E i \in Items, a \in Agents : Reclaim(i, a)
  BY <1>0, <1>3, ReclaimTyped, ReclaimKeeps DEF IInv, Kept, Spared
<1>4. CASE \E s \in Stories : ForceRelease(s) \/ NeedsInfo(s) \/ Answer(s)
  BY <1>0, <1>4, StoryCalm, CalmKeeps DEF IInv, Kept, Spared
<1>5. CASE \E e \in inserting : EnqueueReplace(e)
  BY <1>0, <1>5, ReplaceCalm, CalmKeeps DEF IInv, Kept
<1>6. CASE \E a \in Agents : Claim(a)
  BY <1>0, <1>6, ClaimTyped, ClaimKeeps DEF IInv, Kept, Spared
<1>7. CASE \E a \in Agents : \/ \E i \in Items : GetNext(a, i) \/ Beat(a, i) \/ GhostStalls(a, i)
                            \/ CheckClaims(a) \/ ClaimRefused(a) \/ GiveUp(a)
                            \/ StartPhases(a) \/ Complete(a) \/ ReportFail(a)
                            \/ Retry(a) \/ Release(a) \/ AskInVain(a) \/ Restart(a)
  BY <1>0, <1>7, AgentCalm, CalmKeeps DEF IInv, Kept, Spared
<1>8. CASE \E q \in late : LateClaim(q)
  BY <1>0, <1>8, LateClaimTyped, LateClaimKeeps DEF IInv, Kept, Spared
<1> QED
  <2>1. CASE ByConsole
    BY <1>1, <1>2, <1>3, <1>4, <1>5, <1>8, <2>1 DEF ByConsole
  <2>2. CASE \E a \in Agents : ByAgent(a)
    BY <1>6, <1>7, <2>2 DEF ByAgent
  <2> QED BY <2>1, <2>2 DEF Next

LEMMA StutterKeeps == ASSUME IInv, UNCHANGED vars PROVE IInv'
BY DEF IInv, vars, TypeOK, OneClaimEach, ClearedFree, NoSlowTier, SlowTierMatches, PrShipped, Is

LEMMA InitIInv == Init => IInv
<1>1. "absent" \in Statuses /\ 0 \in 0..MaxRetries  BY V1ConstantsOK DEF Statuses
<1>2. NewRow("absent", 0) \in Rows  BY <1>1, NewRowTyped
<1>3. NewRow("absent", 0).status = "absent" /\ NewRow("absent", 0).pr = FALSE  BY DEF NewRow
<1> QED BY <1>1, <1>2, <1>3
     DEF Init, IInv, TypeOK, Places, OneClaimEach, ClearedFree, NoSlowTier, SlowTierMatches, PrShipped, Is

THEOREM Invariant == Spec => []IInv
<1>1. IInv /\ [Next]_vars => IInv'  BY StepKeeps, StutterKeeps
<1> QED BY <1>1, InitIInv, PTL DEF Spec

\* Every reachable state is well typed: no retry is enqueued beyond the cap and no
\* row is released for staleness more often than allowed.
THEOREM TypeCorrect == Spec => []TypeOK
<1>1. IInv => TypeOK  BY DEF IInv
<1> QED BY <1>1, Invariant, PTL

\* Of the claims a check let an agent make and whose answer it waited for, no agent
\* has two, for any number of rows and agents: between the check and the claim only
\* claims of another kind can have come to it.
THEOREM OneClaimEachHolds == Spec => []OneClaimEach
<1>1. IInv => OneClaimEach  BY DEF IInv
<1> QED BY <1>1, Invariant, PTL

\* The third tier of the stale-claim recovery is dead code.
THEOREM NoSlowTierHolds == Spec => []NoSlowTier
<1>1. IInv => NoSlowTier  BY DEF IInv
<1> QED BY <1>1, Invariant, PTL

\* Only an enqueue moves a completed or cancelled row.
THEOREM TerminalHolds == Spec => TerminalLeftByEnqueue
<1> DEFINE A == \A i \in Items : Is(i, {"completed", "cancelled"}) /\ row'[i].status /= row[i].status
                 => \E n \in 0..MaxRetries : <<i, n>> \in inserting \ inserting'
<1>1. IInv /\ [Next]_vars => [A]_vars  BY StepKeeps
<1>2. Spec => [][A]_vars  BY <1>1, Invariant, PTL DEF Spec
<1> QED BY <1>2 DEF TerminalLeftByEnqueue

-----------------------------------------------------------------------------
\* An agent starts only on an item whose dependencies were met, and what shipped
\* stays shipped.

LEMMA JobsKept ==
  ASSUME IInv, WorkAfterDeps, Next
  PROVE  WorkAfterDeps'
<1>1. shipped \subseteq shipped'
  BY DEF Next, ByConsole, ByAgent, Enqueue, BeatAges, Cancel, Pause, Review, CompleteByHand,
         RecoverNeverStarted, RecoverSilent, RecoverDied, Reclaim, ForceRelease, NeedsInfo,
         Answer, EnqueueReplace, LateClaim, GetNext, Beat, GhostStalls, CheckClaims, Claim,
         ClaimRefused, GiveUp, StartPhases, Complete, ReportFail, Retry, Release, AskInVain, Restart
<1>2. CASE ByConsole
  <2>1. UNCHANGED <<pc, job>>
    BY <1>2 DEF ByConsole, Enqueue, BeatAges, Cancel, Pause, Review, CompleteByHand,
         RecoverNeverStarted, RecoverSilent, RecoverDied, Reclaim, ForceRelease, NeedsInfo,
         Answer, EnqueueReplace, LateClaim, fleet
  <2> QED BY <1>1, <2>1 DEF WorkAfterDeps
<1>3. ASSUME NEW a \in Agents, NEW i \in Items, GetNext(a, i) PROVE WorkAfterDeps'
  <2>1. DependsOn[i] \subseteq shipped
    <3>1. \A s \in DependsOn[i] : \E k \in Items : StoryOf[k] = s /\ row[k].pr
      BY <1>3 DEF GetNext, DepsShipped, RowsOf
    <3> QED BY <3>1 DEF IInv, PrShipped
  <2>2. \A b \in Agents \ {a} : pc'[b] = pc[b] /\ job'[b] = job[b]
    BY <1>3 DEF GetNext, Goto, IInv, TypeOK
  <2>3. job'[a] = i  BY <1>3 DEF GetNext, IInv, TypeOK
  <2> QED BY <1>1, <2>1, <2>2, <2>3 DEF WorkAfterDeps
<1>4. ASSUME NEW a \in Agents, ByAgent(a), ~\E i \in Items : GetNext(a, i) PROVE WorkAfterDeps'
  <2>1. \A b \in Agents : pc'[b] = "idle" \/ (job'[b] = job[b] /\ pc[b] /= "idle")
                         \/ (job'[b] = job[b] /\ pc'[b] = pc[b])
    BY <1>4 DEF ByAgent, Beat, GhostStalls, CheckClaims, Claim, ClaimRefused, GiveUp, StartPhases, Complete,
         ReportFail, Retry, Release, AskInVain, Restart, Idle, Goto, IInv, TypeOK, fleet
  <2> QED BY <1>1, <2>1 DEF WorkAfterDeps
<1> QED BY <1>2, <1>3, <1>4 DEF Next

\* No agent works on an item before every dependency was completed with a pull
\* request, for any dependency relation.
THEOREM WorkAfterDepsHolds == Spec => []WorkAfterDeps
<1>1. Init => WorkAfterDeps  BY DEF Init, WorkAfterDeps
<1>2. IInv /\ WorkAfterDeps /\ [Next]_vars => WorkAfterDeps'
  BY JobsKept DEF WorkAfterDeps, vars
<1> QED BY <1>1, <1>2, Invariant, PTL DEF Spec
=============================================================================
