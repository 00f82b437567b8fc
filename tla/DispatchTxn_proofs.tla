------------------------- MODULE DispatchTxn_proofs -------------------------
(***************************************************************************)
(* For any number of connections and any mix of requests: what the order of *)
(* the statements and the rows they lock keep of the lease protocol.  TxnInv *)
(* says how far each transaction has come from its position in its program, *)
(* that at most one of them has written the state row and at most one has    *)
(* inserted a lease, and what a submission holding the state row may still   *)
(* see of the lease.                                                        *)
(***************************************************************************)
EXTENDS DispatchTxn, TLAPS

\* Where a program projects, inserts and deletes; past its end if it never does.
End(k) == Len(Program(k)) + 1

ProjectAt(k) ==
  CASE k \in {"accepted", "rejected", "resume", "cancel"} -> 4
    [] k = "requeue" -> 3
    [] k \in {"claim_by_id", "released", "force_release", "heartbeat"} -> 6
    [] k = "idle" -> 1
    [] OTHER -> 5

GrantAt(k) == IF k \in {"claim_next", "claim_by_id"} THEN 3 ELSE End(k)

DropAt(k) ==
  CASE k = "claim_by_id" -> 2
    [] k \in {"released", "force_release"} -> 3
    [] k \in {"submitted", "failed"} -> 7
    [] k \in {"accepted", "rejected"} -> 6
    [] OTHER -> End(k)

\* How far a transaction has come.
Positioned(t) ==
  /\ t.at \in 1..End(t.kind)
  /\ t.state = IF t.at > ProjectAt(t.kind) THEN StateAfter(EventOf(t.kind)) ELSE "none"
  /\ t.granted # 0 <=> t.at > GrantAt(t.kind)
  /\ t.wrote = "gone" => t.at > DropAt(t.kind)
  /\ t.kind \in Requests \cup {"idle"}

\* A submission that holds the state row: the lease is the one it has found, or
\* none; once it has done its DELETE its commit leaves none.
Submitting(t) ==
  t.kind = "submitted" =>
    /\ t.at = 7 => lease.token \in {0, t.seen}
    /\ t.at = 8 => lease.token = 0 \/ t.wrote = "gone"

TxnInv ==
  /\ \A s, o \in Sessions : s # o => txn[s].state = "none" \/ txn[o].state = "none"
  /\ \A s, o \in Sessions : s # o => txn[s].granted = 0 \/ txn[o].granted = 0
  /\ \A s \in Sessions : txn[s].kind = "claim_next" /\ txn[s].granted # 0 => lease.token = 0
  /\ \A s \in Sessions : Submitting(txn[s])
  /\ NoLeaseInReview
  /\ LeasedIsHeld

-----------------------------------------------------------------------------
\* Each kind's program, step by step.
LEMMA ProgramSteps ==
  ASSUME NEW k \in RequestKinds \cup {"idle"}
  PROVE  /\ Len(Program(k)) \in 0..7
         /\ \A n \in 1..Len(Program(k)) :
              /\ Program(k)[n] = "project" <=> n = ProjectAt(k)
              /\ Program(k)[n] = "grant" <=> n = GrantAt(k)
              /\ Program(k)[n] = "drop" <=> n = DropAt(k)
         /\ ProjectAt(k) \in 1..End(k) /\ GrantAt(k) \in 1..End(k) /\ DropAt(k) \in 1..End(k)
<1>1. CASE k \in {"claim_next", "claim_by_id", "heartbeat", "released"}
  BY <1>1 DEF Program, ProjectAt, GrantAt, DropAt, End
<1>2. CASE k \in {"submitted", "failed", "needs_info", "resumed"}
  BY <1>2 DEF Program, ProjectAt, GrantAt, DropAt, End
<1>3. CASE k \in {"accepted", "rejected", "force_release"}
  BY <1>3 DEF Program, ProjectAt, GrantAt, DropAt, End
<1>4. CASE k \in {"resume", "cancel", "requeue", "sweep", "idle"}
  BY <1>4 DEF Program, ProjectAt, GrantAt, DropAt, End
<1>5. QED BY <1>1, <1>2, <1>3, <1>4 DEF RequestKinds

\* Which events lead where, and what a program with a DELETE ends with.
LEMMA Outcomes ==
  ASSUME NEW k \in RequestKinds \ {"heartbeat"}
  PROVE  /\ EventOf(k) \in ProjectingEvents
         /\ StateAfter(EventOf(k)) \in JobStates
         /\ StateAfter(EventOf(k)) = "leased" <=> k \in {"claim_next", "claim_by_id", "resumed"}
         /\ StateAfter(EventOf(k)) = "in_review" <=> k = "submitted"
         /\ ProjectAt(k) < End(k)
<1>1. CASE k \in {"claim_next", "claim_by_id", "released", "submitted"}
  BY <1>1 DEF EventOf, StateAfter, ProjectingEvents, JobStates, ProjectAt, End, Program
<1>2. CASE k \in {"failed", "needs_info", "resumed", "accepted"}
  BY <1>2 DEF EventOf, StateAfter, ProjectingEvents, JobStates, ProjectAt, End, Program
<1>3. CASE k \in {"rejected", "force_release", "resume", "cancel", "requeue", "sweep"}
  BY <1>3 DEF EventOf, StateAfter, ProjectingEvents, JobStates, ProjectAt, End, Program
<1>4. QED BY <1>1, <1>2, <1>3 DEF RequestKinds

\* Where a transaction is when it projects, inserts or deletes.
LEMMA Places ==
  ASSUME TxnTypeOK, NEW s \in Sessions
  PROVE  LET t == txn[s] IN
         /\ t.kind \in RequestKinds \cup {"idle"} /\ t.at \in Nat \ {0}
         /\ Len(Program(t.kind)) \in 0..7
         /\ \A step : At(s, step) => t.at \in 1..Len(Program(t.kind))
         /\ At(s, "project") => t.at = ProjectAt(t.kind) /\ t.kind \notin {"heartbeat", "idle"}
         /\ ~Done(s) => /\ At(s, "project") <=> t.at = ProjectAt(t.kind)
                        /\ At(s, "grant") <=> t.at = GrantAt(t.kind)
                        /\ At(s, "drop") <=> t.at = DropAt(t.kind)
<1> DEFINE k == txn[s].kind
<1>1. k \in RequestKinds \cup {"idle"} /\ txn[s].at \in Nat \ {0}
  BY DEF TxnTypeOK, Transactions
<1>2. /\ Len(Program(k)) \in 0..7
      /\ \A n \in 1..Len(Program(k)) :
           /\ Program(k)[n] = "project" <=> n = ProjectAt(k)
           /\ Program(k)[n] = "grant" <=> n = GrantAt(k)
           /\ Program(k)[n] = "drop" <=> n = DropAt(k)
  BY <1>1, ProgramSteps
<1>3. ~Done(s) => txn[s].at \in 1..Len(Program(k))
  BY <1>1, <1>2 DEF Done
<1>4. k \in {"heartbeat", "idle"} => ProjectAt(k) \notin 1..Len(Program(k))
  BY DEF ProjectAt, Program
<1>5. QED BY <1>1, <1>2, <1>3, <1>4 DEF At

LEMMA Droppers ==
  ASSUME NEW k \in RequestKinds \cup {"idle"}, DropAt(k) < End(k)
  PROVE  k \in {"claim_by_id", "released", "force_release", "submitted", "failed",
                "accepted", "rejected"}
BY ProgramSteps DEF DropAt, End


LEMMA StatesTyped == "none" \notin JobStates
BY DEF JobStates

\* What a statement does to its own transaction, seen from its position.
Moved(t, u, s) ==
  /\ u.kind = t.kind /\ u.at = t.at + 1
  /\ u.granted = IF At(s, "grant") THEN newest + 1 ELSE t.granted
  /\ u.state = IF At(s, "project") THEN Projected(s) ELSE t.state
  /\ u.wrote = "gone" => t.wrote = "gone" \/ (At(s, "drop") /\ RowThere(s))
  /\ At(s, "drop") /\ RowThere(s) => u.wrote = "gone"
  /\ u.seen = IF At(s, "find") THEN lease.token ELSE t.seen

LEMMA Stepping ==
  ASSUME TxnTypeOK, NEW s \in Sessions, NEW t \in Transactions, Step(s, t)
  PROVE  /\ txn' \in [Sessions -> Transactions]
         /\ \A o \in Sessions \ {s} : txn'[o] = txn[o]
         /\ LET u == txn'[s] IN
            /\ u.kind = t.kind /\ u.at = t.at + 1 /\ u.granted = t.granted
            /\ u.state = t.state /\ u.wrote = t.wrote /\ u.seen = t.seen
<1> DEFINE u == [t EXCEPT !.at = @ + 1]
<1>1. u \in Transactions
  BY DEF Transactions
<1>2. /\ u.kind = t.kind /\ u.at = t.at + 1 /\ u.granted = t.granted
      /\ u.state = t.state /\ u.wrote = t.wrote /\ u.seen = t.seen
  BY DEF Transactions
<1>3. txn' = [txn EXCEPT ![s] = u]
  BY DEF Step
<1> HIDE DEF u
<1>4. txn'[s] = u /\ \A o \in Sessions \ {s} : txn'[o] = txn[o]
  BY <1>3 DEF TxnTypeOK
<1>5. QED BY <1>1, <1>2, <1>3, <1>4 DEF TxnTypeOK

LEMMA StatementMoves ==
  ASSUME TxnTypeOK, NEW s \in Sessions, Statement(s)
  PROVE  /\ TxnTypeOK'
         /\ Moved(txn[s], txn'[s], s)
         /\ \A o \in Sessions \ {s} : txn'[o] = txn[o]
         /\ ~Done(s)
         /\ state' = state /\ lost' = lost
         /\ lease' = lease \/ (At(s, "sweep") /\ lease' = NoLease)
         /\ At(s, "grant") => NoRowThere(s)
         /\ At(s, "project") => \A o \in Others(s) : txn[o].state = "none"
<1> DEFINE t == txn[s]
<1>1. t \in Transactions
  BY DEF TxnTypeOK
<1>0. /\ At(s, "grant") => ~At(s, "project") /\ ~At(s, "drop") /\ ~At(s, "find")
      /\ At(s, "project") => ~At(s, "drop") /\ ~At(s, "find")
      /\ At(s, "drop") => ~At(s, "find")
      /\ \A x \in {"token", "check", "pick", "lock", "renew", "sweep", "number", "share"} :
           At(s, x) => ~At(s, "grant") /\ ~At(s, "project") /\ ~At(s, "drop") /\ ~At(s, "find")
  BY DEF At
<1>2. CASE CheckToken(s) \/ CheckState(s) \/ PickJob(s)
  <2>1. Step(s, t)
    BY <1>2 DEF CheckToken, CheckState, PickJob, Pass
  <2>2. UNCHANGED <<state, lease, newest, drawn, last, lost>>
    BY <1>2 DEF CheckToken, CheckState, PickJob
  <2>3. At(s, "token") \/ At(s, "check") \/ At(s, "pick")
    BY <1>2 DEF CheckToken, CheckState, PickJob
  <2>4. TxnTypeOK'
    BY <1>1, <2>1, <2>2, <2>3, Stepping DEF TxnTypeOK, NoLease
  <2>5. Moved(t, txn'[s], s)
    BY <1>1, <2>1, <2>2, <2>3, <1>0, Stepping DEF Moved, Transactions
  <2>6. QED BY <1>1, <2>1, <2>2, <2>3, <2>4, <2>5, <1>0, Stepping DEF At
<1>3. CASE Sweep(s)
  <2>1. Step(s, t) /\ At(s, "sweep") /\ lease' = NoLease
    BY <1>3 DEF Sweep, Pass
  <2>2. UNCHANGED <<state, newest, drawn, last, lost>>
    BY <1>3 DEF Sweep
  <2>3. TxnTypeOK'
    BY <1>1, <2>1, <2>2, Stepping DEF TxnTypeOK, NoLease
  <2>4. Moved(t, txn'[s], s)
    BY <1>1, <2>1, <2>2, <1>0, Stepping DEF Moved, Transactions
  <2>5. QED BY <1>1, <2>1, <2>2, <2>3, <2>4, <1>0, Stepping DEF At
<1>4. CASE LockJob(s) \/ ShareJob(s)
  <2>1. PICK l \in {"update", "share"} : Step(s, [t EXCEPT !.job = l])
    BY <1>4 DEF LockJob, ShareJob
  <2>2. UNCHANGED <<state, lease, newest, drawn, last, lost>>
    BY <1>4 DEF LockJob, ShareJob
  <2>3. At(s, "lock") \/ At(s, "share")
    BY <1>4 DEF LockJob, ShareJob
  <2>4. [t EXCEPT !.job = l] \in Transactions
    BY <1>1 DEF Transactions
  <2>5. TxnTypeOK'
    BY <1>1, <2>1, <2>2, <2>3, <2>4, Stepping DEF TxnTypeOK, NoLease
  <2>6. Moved(t, txn'[s], s)
    BY <1>1, <2>1, <2>2, <2>3, <2>4, <1>0, Stepping DEF Moved, Transactions
  <2>7. QED BY <1>1, <2>1, <2>2, <2>3, <2>4, <2>5, <2>6, <1>0, Stepping DEF At
<1>5. CASE GrantLease(s)
  <2>1. [t EXCEPT !.granted = newest + 1] \in Transactions
    BY <1>1 DEF Transactions, TxnTypeOK
  <2>2. TxnTypeOK'
    <3>1. newest + 1 \in 0..MaxTokens
      BY <1>5, TxnConstantsOK DEF GrantLease, TxnTypeOK
    <3>2. QED BY <1>1, <1>5, <2>1, <3>1, Stepping DEF GrantLease, TxnTypeOK
  <2>3. Moved(t, txn'[s], s)
    BY <1>1, <1>5, <2>1, <1>0, Stepping DEF GrantLease, Moved, Transactions
  <2>4. QED BY <1>1, <1>5, <2>1, <2>2, <2>3, <1>0, Stepping DEF GrantLease, At
<1>6. CASE FindLease(s)
  <2>1. [t EXCEPT !.seen = lease.token] \in Transactions
    BY <1>1 DEF Transactions, TxnTypeOK
  <2>2. TxnTypeOK'
    BY <1>1, <1>6, <2>1, Stepping DEF FindLease, TxnTypeOK, NoLease
  <2>3. Moved(t, txn'[s], s)
    BY <1>1, <1>6, <2>1, <1>0, Stepping DEF FindLease, Moved, Transactions
  <2>4. QED BY <1>1, <1>6, <2>1, <2>2, <2>3, <1>0, Stepping DEF FindLease, At
<1>7. CASE DropLease(s)
  <2> DEFINE u == [t EXCEPT !.wrote = IF RowThere(s) THEN "gone" ELSE @]
  <2>1. u \in Transactions
    BY <1>1 DEF Transactions
  <2>2. Step(s, u) /\ At(s, "drop") /\ UNCHANGED <<state, lease, newest, drawn, last, lost>>
    BY <1>7 DEF DropLease, WriteLease
  <2>3. TxnTypeOK'
    BY <1>1, <2>2, <2>1, Stepping DEF TxnTypeOK, NoLease
  <2>4. Moved(t, txn'[s], s)
    BY <1>1, <2>2, <2>1, <1>0, Stepping DEF Moved, Transactions
  <2>5. QED BY <1>1, <2>2, <2>1, <2>3, <2>4, <1>0, Stepping DEF At
<1>8. CASE RenewLease(s)
  <2> DEFINE u == [t EXCEPT !.wrote = IF RowThere(s) THEN "renewed" ELSE @]
  <2>1. u \in Transactions
    BY <1>1 DEF Transactions
  <2>2. Step(s, u) /\ At(s, "renew") /\ UNCHANGED <<state, lease, newest, drawn, last, lost>>
    BY <1>8 DEF RenewLease, WriteLease
  <2>3. TxnTypeOK'
    BY <1>1, <2>2, <2>1, Stepping DEF TxnTypeOK, NoLease
  <2>4. Moved(t, txn'[s], s)
    BY <1>1, <2>2, <2>1, <1>0, Stepping DEF Moved, Transactions
  <2>5. QED BY <1>1, <2>2, <2>1, <2>3, <2>4, <1>0, Stepping DEF At
<1>9. CASE DrawId(s)
  <2>1. [t EXCEPT !.id = drawn + 1] \in Transactions
    BY <1>1 DEF Transactions, TxnTypeOK
  <2>2. TxnTypeOK'
    <3>1. drawn + 1 \in 1..MaxEvents
      BY <1>9, TxnConstantsOK DEF DrawId, TxnTypeOK
    <3>2. QED BY <1>1, <1>9, <2>1, <3>1, Stepping DEF DrawId, TxnTypeOK
  <2>3. Moved(t, txn'[s], s)
    BY <1>1, <1>9, <2>1, <1>0, Stepping DEF DrawId, Moved, Transactions
  <2>4. QED BY <1>1, <1>9, <2>1, <2>2, <2>3, <1>0, Stepping DEF DrawId, At
<1>10. CASE Project(s)
  <2>1. t.kind \in RequestKinds \ {"heartbeat"}
    BY <1>10, Places DEF Project
  <2>2. Projected(s) \in JobStates
    BY <2>1, Outcomes DEF Projected
  <2>3. [t EXCEPT !.state = Projected(s)] \in Transactions
    BY <1>1, <2>2 DEF Transactions
  <2>4. TxnTypeOK'
    BY <1>1, <1>10, <2>3, Stepping DEF Project, TxnTypeOK, NoLease
  <2>5. Moved(t, txn'[s], s)
    BY <1>1, <1>10, <2>3, <1>0, Stepping DEF Project, Moved, Transactions
  <2>6. QED BY <1>1, <1>10, <2>3, <2>4, <2>5, <1>0, Stepping DEF Project, At
<1>11. QED BY <1>2, <1>3, <1>4, <1>5, <1>6, <1>7, <1>8, <1>9, <1>10 DEF Statement

LEMMA PositionKept ==
  ASSUME TxnTypeOK, NEW s \in Sessions, Positioned(txn[s]), Statement(s)
  PROVE  Positioned(txn'[s])
<1> DEFINE t == txn[s]  u == txn'[s]
<1>1. Moved(t, u, s) /\ ~Done(s)
  BY StatementMoves
<1>2. /\ t.at \in 1..Len(Program(t.kind)) /\ Len(Program(t.kind)) \in 0..7
      /\ At(s, "project") <=> t.at = ProjectAt(t.kind)
      /\ At(s, "grant") <=> t.at = GrantAt(t.kind)
      /\ At(s, "drop") <=> t.at = DropAt(t.kind)
  BY <1>1, Places DEF Done
<1>3. /\ ProjectAt(t.kind) \in Nat /\ GrantAt(t.kind) \in Nat /\ DropAt(t.kind) \in Nat
  BY ProgramSteps DEF TxnTypeOK, Transactions, End
<1>4. newest + 1 # 0
  BY TxnConstantsOK DEF TxnTypeOK
<1>5. u.at \in 1..End(u.kind) /\ u.kind \in Requests \cup {"idle"}
  BY <1>1, <1>2 DEF Positioned, Moved, End
<1>6. u.state = IF u.at > ProjectAt(u.kind) THEN StateAfter(EventOf(u.kind)) ELSE "none"
  BY <1>1, <1>2, <1>3 DEF Positioned, Moved, Projected
<1>7. u.granted # 0 <=> u.at > GrantAt(u.kind)
  BY <1>1, <1>2, <1>3, <1>4 DEF Positioned, Moved
<1>8. u.wrote = "gone" => u.at > DropAt(u.kind)
  BY <1>1, <1>2, <1>3 DEF Positioned, Moved
<1>9. QED BY <1>5, <1>6, <1>7, <1>8 DEF Positioned

\* An idle connection, and one that has just begun.
LEMMA Starting ==
  ASSUME NEW t, t \in Transactions, t.at = 1, t.kind \in Requests \cup {"idle"},
         t.granted = 0, t.state = "none", t.wrote = "nothing"
  PROVE  Positioned(t)
<1>1. t.kind \in RequestKinds \cup {"idle"}
  BY TxnConstantsOK
<1>2. QED BY <1>1, ProgramSteps DEF Positioned, End

\* A transaction that commits has reached the end of its program.
LEMMA Finished ==
  ASSUME TxnTypeOK, NEW s \in Sessions, Positioned(txn[s]), Busy(s), Done(s)
  PROVE  LET t == txn[s] IN
         /\ t.kind \in Requests /\ t.at = End(t.kind)
         /\ t.kind # "heartbeat" => t.state = StateAfter(EventOf(t.kind))
         /\ t.kind = "heartbeat" => t.state = "none"
         /\ t.granted # 0 <=> t.kind \in {"claim_next", "claim_by_id"}
         /\ t.wrote = "gone" => t.kind \in {"claim_by_id", "released", "force_release",
                                  "submitted", "failed", "accepted", "rejected"}
<1> DEFINE t == txn[s]
<1>1. t.kind \in Requests /\ t.kind \in RequestKinds
  BY TxnConstantsOK DEF Positioned, Busy
<1>2. t.at = End(t.kind) /\ Len(Program(t.kind)) \in 0..7
  BY <1>1, ProgramSteps DEF Done, Positioned, End
<1>3. t.kind # "heartbeat" => t.state = StateAfter(EventOf(t.kind))
  BY <1>1, <1>2, Outcomes, ProgramSteps DEF Positioned
<1>4. t.kind = "heartbeat" => End(t.kind) = 6 /\ ProjectAt(t.kind) = 6
  BY DEF End, ProjectAt, Program
<1>5. t.granted # 0 <=> t.kind \in {"claim_next", "claim_by_id"}
  <2>1. t.kind \in {"claim_next", "claim_by_id"} => End(t.kind) > 3 /\ GrantAt(t.kind) = 3
    BY DEF End, Program, GrantAt
  <2>2. t.kind \notin {"claim_next", "claim_by_id"} => ~(End(t.kind) > GrantAt(t.kind))
    BY <1>2 DEF GrantAt, End
  <2>3. QED BY <1>2, <2>1, <2>2 DEF Positioned
<1>6. t.wrote = "gone" => DropAt(t.kind) < End(t.kind)
  BY <1>1, <1>2, ProgramSteps DEF Positioned
<1>7. QED BY <1>1, <1>2, <1>3, <1>4, <1>5, <1>6, Droppers DEF Positioned

\* The types, for which the positions are needed: only an event that projects
\* can become the last one.
Placed == TxnTypeOK /\ \A s \in Sessions : Positioned(txn[s])

LEMMA PlacedHolds == Spec => []Placed
<1>1. Init => Placed
  <2> SUFFICES ASSUME Init PROVE Placed
    OBVIOUS
  <2>1. Idle \in Transactions
    BY DEF Idle, Transactions
  <2>2. TxnTypeOK
    <3>1. txn \in [Sessions -> Transactions]
      BY <2>1 DEF Init
    <3>2. newest \in 0..MaxTokens /\ drawn \in 1..MaxEvents
      BY TxnConstantsOK DEF Init
    <3>3. "pending" \in JobStates /\ last \in [id : Nat, event : ProjectingEvents]
      BY DEF Init, JobStates, ProjectingEvents
    <3>4. QED BY <3>1, <3>2, <3>3 DEF Init, TxnTypeOK, NoLease
  <2>3. Positioned(Idle)
    BY <2>1, Starting DEF Idle
  <2>4. QED BY <2>2, <2>3 DEF Placed, Init
<1>2. Placed /\ [Next]_vars => Placed'
  <2> SUFFICES ASSUME Placed, [Next]_vars PROVE Placed'
    OBVIOUS
  <2>0. TxnTypeOK /\ \A s \in Sessions : Positioned(txn[s]) /\ txn[s] \in Transactions
    BY DEF Placed, TxnTypeOK
  <2>1. ASSUME NEW s \in Sessions, NEW k \in Requests, NEW t \in 0..newest, Begin(s, k, t)
        PROVE  Placed'
    <3> DEFINE u == [Idle EXCEPT !.kind = k, !.bears = t]
    <3>1. k \in RequestKinds /\ t \in Nat
      BY <2>0, TxnConstantsOK DEF TxnTypeOK
    <3>2. Idle \in Transactions
      BY DEF Idle, Transactions
    <3>3. u \in Transactions
      BY <3>1, <3>2 DEF Transactions
    <3>3a. /\ u.kind = k /\ u.at = Idle.at /\ u.granted = Idle.granted
          /\ u.state = Idle.state /\ u.wrote = Idle.wrote
      BY <3>2 DEF Transactions
    <3>4. Positioned(u)
      BY <3>3a, <3>3, Starting DEF Idle
    <3>5. txn' = [txn EXCEPT ![s] = u] /\ UNCHANGED <<state, lease, newest, drawn, last, lost>>
      BY <2>1 DEF Begin
    <3> HIDE DEF u
    <3>6. QED BY <2>0, <3>3, <3>4, <3>5 DEF Placed, TxnTypeOK
  <2>2. ASSUME NEW s \in Sessions, Statement(s) PROVE Placed'
    <3>1. TxnTypeOK' /\ \A o \in Sessions \ {s} : txn'[o] = txn[o]
      BY <2>0, <2>2, StatementMoves
    <3>2. Positioned(txn'[s])
      BY <2>0, <2>2, PositionKept
    <3>3. QED BY <2>0, <3>1, <3>2 DEF Placed
  <2>3. ASSUME NEW s \in Sessions, Commit(s) \/ Abort(s) PROVE Placed'
    <3>1. txn' = [txn EXCEPT ![s] = Idle] /\ Idle \in Transactions /\ Positioned(Idle)
      <4>1. Idle \in Transactions
        BY DEF Idle, Transactions
      <4>2. QED BY <2>3, <4>1, Starting DEF Commit, Abort, Idle
    <3>2. \A o \in Sessions : Positioned(txn'[o]) /\ txn'[o] \in Transactions
      BY <2>0, <3>1 DEF TxnTypeOK
    <3>3. txn' \in [Sessions -> Transactions]
      BY <2>0, <3>1 DEF TxnTypeOK
    <3>4. CASE Abort(s)
      BY <2>0, <3>2, <3>3, <3>4 DEF Abort, Placed, TxnTypeOK, Swept
    <3>5. CASE Commit(s)
      <4>1. LeaseAfter(txn[s]) \in [token : Nat, expired : BOOLEAN]
        BY <2>0 DEF LeaseAfter, NoLease, TxnTypeOK, Transactions
      <4>2. txn[s].state # "none" => /\ EventOf(txn[s].kind) \in ProjectingEvents
                                     /\ txn[s].state \in JobStates
        <5>1. txn[s].state # "none" => txn[s].kind \in RequestKinds \ {"heartbeat"}
          BY <2>0, <3>5, Finished, TxnConstantsOK DEF Commit
        <5>2. QED BY <2>0, <5>1, Outcomes DEF Transactions
      <4>3. last' \in [id : Nat, event : ProjectingEvents]
        BY <2>0, <3>5, <4>2 DEF Commit, TxnTypeOK, Transactions
      <4>4. state' \in JobStates
        BY <2>0, <3>5, <4>2 DEF Commit, TxnTypeOK
      <4>5. QED BY <2>0, <3>2, <3>3, <3>5, <4>1, <4>3, <4>4 DEF Commit, Placed, TxnTypeOK
    <3>6. QED BY <2>3, <3>4, <3>5
  <2>4. CASE Expire
    BY <2>4, <2>0 DEF Expire, Placed, TxnTypeOK
  <2>5. CASE UNCHANGED vars
    BY <2>5, <2>0 DEF vars, Placed, TxnTypeOK
  <2>6. QED BY <2>1, <2>2, <2>3, <2>4, <2>5 DEF Next
<1>3. QED BY <1>1, <1>2, PTL DEF Spec

\* Every variable keeps its type, so that no transaction ends as anything but a
\* state the schema knows.
THEOREM TxnTypeCorrect == Spec => []TxnTypeOK
<1>1. Placed => TxnTypeOK
  BY DEF Placed
<1>2. QED BY <1>1, PlacedHolds, PTL

-----------------------------------------------------------------------------
\* The positions the invariant speaks of.
LEMMA SubmitAndSweep ==
  ASSUME TxnTypeOK, NEW s \in Sessions
  PROVE  LET t == txn[s] IN
         /\ t.kind = "submitted" /\ t.at = 6 /\ ~Done(s) => At(s, "find")
         /\ t.kind = "submitted" /\ t.at = 7 /\ ~Done(s) => At(s, "drop")
         /\ t.kind = "submitted" => End(t.kind) = 8 /\ ProjectAt(t.kind) = 5
         /\ At(s, "sweep") => t.kind = "sweep" /\ t.at = 2
<1> DEFINE k == txn[s].kind
<1>1. \A n \in 1..Len(Program(k)) : Program(k)[n] = "sweep" => k = "sweep" /\ n = 2
  <2>1. k \in RequestKinds \cup {"idle"}
    BY DEF TxnTypeOK, Transactions
  <2>2. CASE k \in {"claim_next", "claim_by_id", "heartbeat", "released", "force_release"}
    BY <2>2 DEF Program
  <2>3. CASE k \in {"submitted", "failed", "needs_info", "resumed", "accepted", "rejected"}
    BY <2>3 DEF Program
  <2>4. CASE k \in {"resume", "cancel", "requeue", "sweep", "idle"}
    BY <2>4 DEF Program
  <2>5. QED BY <2>1, <2>2, <2>3, <2>4 DEF RequestKinds
<1>2. At(s, "sweep") => k = "sweep" /\ txn[s].at = 2
  BY <1>1, Places DEF At
<1>3. k = "submitted" => /\ Program(k)[6] = "find" /\ Program(k)[7] = "drop"
                         /\ End(k) = 8 /\ ProjectAt(k) = 5
  BY DEF Program, End, ProjectAt
<1>4. QED BY <1>2, <1>3 DEF At

LEMMA TxnInit == Init => TxnInv
BY DEF Init, TxnInv, Idle, NoLease, Submitting, NoLeaseInReview, LeasedIsHeld

LEMMA StatementKeeps ==
  ASSUME Placed, TxnInv, NEW s \in Sessions, Statement(s)
  PROVE  TxnInv'
<1> DEFINE t == txn[s]  u == txn'[s]
<1>1. TxnTypeOK /\ Positioned(t)
  BY DEF Placed
<1>2. /\ Moved(t, u, s) /\ ~Done(s) /\ state' = state /\ lost' = lost
      /\ \A o \in Sessions \ {s} : txn'[o] = txn[o]
      /\ lease' = lease \/ (At(s, "sweep") /\ lease' = NoLease)
      /\ At(s, "grant") => NoRowThere(s)
      /\ At(s, "project") => \A o \in Others(s) : txn[o].state = "none"
  BY <1>1, StatementMoves
<1>3. lease'.token \in {0, lease.token}
  BY <1>2 DEF NoLease
<1>4. \A a, b \in Sessions : a # b => txn'[a].state = "none" \/ txn'[b].state = "none"
  BY <1>2 DEF TxnInv, Moved, Others
<1>5. \A a, b \in Sessions : a # b => txn'[a].granted = 0 \/ txn'[b].granted = 0
  <2>1. At(s, "grant") => \A o \in Sessions \ {s} : txn[o].granted = 0
    BY <1>2 DEF NoRowThere, WritesLease, Others
  <2>2. QED BY <1>2, <2>1 DEF TxnInv, Moved
<1>6. \A o \in Sessions : txn'[o].kind = "claim_next" /\ txn'[o].granted # 0 => lease'.token = 0
  <2>1. t.kind = "claim_next" => t.wrote # "gone"
    BY <1>1 DEF Positioned, DropAt, End, Program
  <2>2. At(s, "grant") /\ t.kind = "claim_next" => lease.token = 0
    BY <1>2, <2>1 DEF NoRowThere
  <2>3. QED BY <1>2, <1>3, <2>2 DEF TxnInv, Moved
<1>7. \A o \in Sessions : Submitting(txn[o])'
  <2>1. ASSUME NEW o \in Sessions \ {s} PROVE Submitting(txn[o])'
    BY <1>2, <1>3 DEF TxnInv, Submitting
  <2>2. Submitting(txn[s])'
    <3> SUFFICES ASSUME u.kind = "submitted" PROVE /\ u.at = 7 => lease'.token \in {0, u.seen}
                                                   /\ u.at = 8 => lease'.token = 0 \/ u.wrote = "gone"
      BY DEF Submitting
    <3>1. t.kind = "submitted" /\ u.at = t.at + 1 /\ t.at \in Nat
      BY <1>1, <1>2 DEF Moved, TxnTypeOK, Transactions
    <3>2. u.at = 7 => At(s, "find")
      BY <1>1, <1>2, <3>1, SubmitAndSweep
    <3>3. u.at = 7 => u.seen = lease.token
      BY <1>2, <3>2 DEF Moved
    <3>4. u.at = 8 => At(s, "drop") /\ lease.token \in {0, t.seen}
      BY <1>1, <1>2, <3>1, SubmitAndSweep DEF TxnInv, Submitting
    <3>5. u.at = 8 => lease.token = 0 \/ u.wrote = "gone"
      BY <1>2, <3>4 DEF Moved, RowThere
    <3>6. QED BY <1>3, <3>3, <3>5
  <2>3. QED BY <2>1, <2>2
<1>8. NoLeaseInReview'
  BY <1>2, <1>3 DEF TxnInv, NoLeaseInReview
<1>9. LeasedIsHeld'
  <2>1. \A o \in Sessions : Swept(o) => Swept(o)'
    BY <1>1, <1>2 DEF Swept, Moved, TxnTypeOK, Transactions
  <2>2. lease' # lease => Swept(s)'
    BY <1>1, <1>2, SubmitAndSweep DEF Swept, Moved
  <2>3. QED BY <1>2, <2>1, <2>2 DEF TxnInv, LeasedIsHeld
<1>10. QED BY <1>4, <1>5, <1>6, <1>7, <1>8, <1>9 DEF TxnInv

LEMMA CommitKeeps ==
  ASSUME Placed, TxnInv, NEW s \in Sessions, Commit(s)
  PROVE  TxnInv'
<1> DEFINE t == txn[s]
<1>1. /\ txn'[s] = Idle /\ \A o \in Sessions \ {s} : txn'[o] = txn[o]
      /\ lease' = LeaseAfter(t) /\ lost' = (lost /\ t.state = "none")
      /\ state' = IF t.state = "none" THEN state ELSE t.state
  BY DEF Commit, Placed, TxnTypeOK
<1>2. /\ t.kind \in Requests /\ t.at = End(t.kind)
      /\ t.kind # "heartbeat" => t.state = StateAfter(EventOf(t.kind))
      /\ t.kind = "heartbeat" => t.state = "none"
      /\ t.granted # 0 <=> t.kind \in {"claim_next", "claim_by_id"}
      /\ t.wrote = "gone" => t.kind # "heartbeat"
  BY Finished DEF Commit, Placed
<1>3. t.kind # "heartbeat" =>
        /\ t.state \in JobStates
        /\ t.state = "leased" <=> t.kind \in {"claim_next", "claim_by_id", "resumed"}
        /\ t.state = "in_review" <=> t.kind = "submitted"
  BY <1>2, Outcomes, TxnConstantsOK
<1>4. /\ t.granted # 0 => lease'.token = t.granted
      /\ t.granted = 0 => lease'.token \in {0, lease.token}
      /\ t.granted = 0 /\ t.wrote = "gone" => lease'.token = 0
      /\ t.granted = 0 /\ t.wrote # "gone" => lease'.token = lease.token
  BY <1>1 DEF LeaseAfter, NoLease, Placed, TxnTypeOK
<1>5. t.state = "none" => t.kind = "heartbeat" /\ lease'.token = lease.token
  BY <1>2, <1>3, <1>4, StatesTyped
<1>6. Idle.state = "none" /\ Idle.granted = 0 /\ Idle.kind = "idle" /\ Idle.at = 1
  BY DEF Idle
<1>7. /\ \A a, b \in Sessions : a # b => txn'[a].state = "none" \/ txn'[b].state = "none"
      /\ \A a, b \in Sessions : a # b => txn'[a].granted = 0 \/ txn'[b].granted = 0
  BY <1>1, <1>6 DEF TxnInv
<1>8. \A o \in Sessions : txn'[o].kind = "claim_next" /\ txn'[o].granted # 0 => lease'.token = 0
  <2> SUFFICES ASSUME NEW o \in Sessions, txn'[o].kind = "claim_next", txn'[o].granted # 0
               PROVE  lease'.token = 0
    OBVIOUS
  <2>1. o # s /\ txn'[o] = txn[o] /\ lease.token = 0 /\ t.granted = 0
    BY <1>1, <1>6 DEF TxnInv
  <2>2. QED BY <1>4, <2>1
<1>9. \A o \in Sessions : Submitting(txn[o])'
  <2>1. Submitting(txn[s])'
    BY <1>1, <1>6 DEF Submitting
  <2>2. ASSUME NEW o \in Sessions \ {s} PROVE Submitting(txn[o])'
    <3>1. CASE t.state = "none"
      BY <1>1, <1>5, <2>2, <3>1 DEF TxnInv, Submitting
    <3>2. CASE t.state # "none"
      <4>1. txn[o].state = "none" /\ Positioned(txn[o])
        BY <3>2 DEF TxnInv, Placed
      <4>2. txn[o].kind = "submitted" => ~(txn[o].at > 5)
        BY <4>1, SubmitAndSweep, Outcomes, StatesTyped DEF Positioned, Placed, RequestKinds
      <4>3. QED BY <1>1, <4>2 DEF Submitting
    <3>3. QED BY <3>1, <3>2
  <2>3. QED BY <2>1, <2>2
<1>10. NoLeaseInReview'
  <2>1. CASE t.state = "none"
    BY <1>1, <1>5, <2>1 DEF TxnInv, NoLeaseInReview
  <2>2. CASE t.kind = "submitted"
    <3>1. t.at = 8 /\ t.granted = 0
      BY <1>2, <2>2, SubmitAndSweep DEF Placed
    <3>2. lease.token = 0 \/ t.wrote = "gone"
      BY <2>2, <3>1 DEF TxnInv, Submitting
    <3>3. QED BY <1>4, <3>1, <3>2 DEF NoLeaseInReview
  <2>3. CASE t.state # "none" /\ t.kind # "submitted"
    BY <1>1, <1>2, <1>3, <2>3 DEF NoLeaseInReview
  <2>4. QED BY <2>1, <2>2, <2>3
<1>11. LeasedIsHeld'
  <2> SUFFICES ASSUME "resumed" \notin Requests, state' = "leased"
               PROVE  lease'.token # 0 \/ lost' \/ \E o \in Sessions : Swept(o)'
    BY DEF LeasedIsHeld
  <2>1. CASE t.state = "none"
    <3>1. ~Swept(s)
      BY <1>5, <2>1 DEF Swept
    <3>2. QED BY <1>1, <1>5, <2>1, <3>1 DEF TxnInv, LeasedIsHeld, Swept
  <2>2. CASE t.state # "none"
    <3>1. t.kind \in {"claim_next", "claim_by_id"}
      BY <1>1, <1>2, <1>3, <2>2
    <3>2. QED BY <1>2, <1>4, <3>1
  <2>3. QED BY <2>1, <2>2
<1>12. QED BY <1>7, <1>8, <1>9, <1>10, <1>11 DEF TxnInv

LEMMA OthersKeep ==
  ASSUME Placed, TxnInv, NEW s \in Sessions,
         Abort(s) \/ (\E k \in Requests, t \in 0..newest : Begin(s, k, t))
  PROVE  TxnInv'
<1> DEFINE u == txn'[s]
<1>1. /\ UNCHANGED <<state, lease>> /\ \A o \in Sessions \ {s} : txn'[o] = txn[o]
      /\ lost \/ Swept(s) => lost'
      /\ u.at = 1 /\ u.granted = 0 /\ u.state = "none"
  <2>1. CASE Abort(s)
    BY <2>1 DEF Abort, Placed, TxnTypeOK, Idle
  <2>2. ASSUME NEW k \in Requests, NEW t \in 0..newest, Begin(s, k, t)
        PROVE  /\ UNCHANGED <<state, lease>> /\ \A o \in Sessions \ {s} : txn'[o] = txn[o]
               /\ lost \/ Swept(s) => lost'
               /\ u.at = 1 /\ u.granted = 0 /\ u.state = "none"
    <3> DEFINE v == [Idle EXCEPT !.kind = k, !.bears = t]
    <3>1. Idle.at = 1 /\ Idle.granted = 0 /\ Idle.state = "none" /\ Idle \in Transactions
      BY DEF Idle, Transactions
    <3>2. v.at = 1 /\ v.granted = 0 /\ v.state = "none"
      BY <3>1 DEF Transactions
    <3>3. txn' = [txn EXCEPT ![s] = v] /\ UNCHANGED <<state, lease, lost>> /\ ~Swept(s)
      BY <2>2 DEF Begin, Swept, Busy
    <3> HIDE DEF v
    <3>4. QED BY <3>2, <3>3 DEF Placed, TxnTypeOK
  <2>3. QED BY <2>1, <2>2
<1>2. \A o \in Sessions : Submitting(txn[o])'
  BY <1>1 DEF TxnInv, Submitting
<1>3. LeasedIsHeld'
  BY <1>1 DEF TxnInv, LeasedIsHeld, Swept
<1>4. QED BY <1>1, <1>2, <1>3 DEF TxnInv, NoLeaseInReview

LEMMA ExpireKeeps == Placed /\ TxnInv /\ (Expire \/ UNCHANGED vars) => TxnInv'
<1> SUFFICES ASSUME Placed, TxnInv, Expire \/ UNCHANGED vars PROVE TxnInv'
  OBVIOUS
<1>1. lease'.token = lease.token /\ UNCHANGED <<state, txn, lost>>
  BY DEF Expire, vars, Placed, TxnTypeOK
<1>2. QED BY <1>1 DEF TxnInv, Submitting, NoLeaseInReview, LeasedIsHeld, Swept

LEMMA TxnInvHolds == Spec => [](Placed /\ TxnInv)
<1>1. Placed /\ Placed' /\ TxnInv /\ [Next]_vars => TxnInv'
  BY StatementKeeps, CommitKeeps, OthersKeep, ExpireKeeps DEF Next
<1>2. QED BY <1>1, TxnInit, PlacedHolds, PTL DEF Spec

\* A job in review has no lease, however the statements of the requests that
\* submit it, claim it, sweep it and judge it interleave.
THEOREM ReviewIsUnheld == Spec => []NoLeaseInReview
<1>1. TxnInv => NoLeaseInReview
  BY DEF TxnInv
<1>2. QED BY <1>1, TxnInvHolds, PTL

\* A job that is 'leased' has a lease unless its sweep is under way or was cut
\* short; the requests must not include a 'resumed'.
THEOREM LeasedJobIsHeld == Spec => []LeasedIsHeld
<1>1. TxnInv => LeasedIsHeld
  BY DEF TxnInv
<1>2. QED BY <1>1, TxnInvHolds, PTL

\* Two claims never both succeed: only a manager's claim by id replaces a lease.
THEOREM OneHolderHolds == Spec => OneHolder
<1>1. Placed /\ TxnInv /\ [Next]_vars =>
        [lease.token # 0 /\ lease'.token \notin {0, lease.token} =>
           \E s \in Sessions : txn[s].kind = "claim_by_id" /\ Done(s)]_vars
  <2> DEFINE Claimed == lease.token # 0 /\ lease'.token \notin {0, lease.token} =>
                          \E s \in Sessions : txn[s].kind = "claim_by_id" /\ Done(s)
  <2> SUFFICES ASSUME Placed, TxnInv, [Next]_vars PROVE Claimed
    OBVIOUS
  <2>1. ASSUME NEW s \in Sessions, Commit(s) PROVE Claimed
    <3>1. txn[s].granted = 0 => lease'.token \in {0, lease.token}
      BY <2>1 DEF Commit, LeaseAfter, NoLease, Placed, TxnTypeOK
    <3>2. txn[s].granted # 0 => txn[s].kind \in {"claim_next", "claim_by_id"}
      BY <2>1, Finished DEF Commit, Placed
    <3>3. QED BY <2>1, <3>1, <3>2 DEF Commit, TxnInv
  <2>2. ASSUME NEW s \in Sessions, Statement(s) PROVE Claimed
    BY <2>2, StatementMoves DEF Placed, NoLease
  <2>3. CASE lease' = lease \/ Expire
    BY <2>3 DEF Expire, Placed, TxnTypeOK
  <2>4. QED BY <2>1, <2>2, <2>3 DEF Next, Begin, Abort, vars
<1>2. QED BY <1>1, TxnInvHolds, PTL DEF OneHolder, Spec


-----------------------------------------------------------------------------
\* The statements implement JobLease.

\* The token a transaction has drawn is the last one drawn: another claim's INSERT
\* waits for its end.
LastDrawn == \A s \in Sessions : txn[s].granted # 0 => txn[s].granted = newest

LEMMA NewestMoves ==
  ASSUME NEW s \in Sessions, Statement(s)
  PROVE  newest' = IF At(s, "grant") THEN newest + 1 ELSE newest
<1>1. CASE GrantLease(s)
  BY <1>1 DEF GrantLease
<1>2. ASSUME ~GrantLease(s)
      PROVE  newest' = newest /\ ~At(s, "grant")
  BY <1>2 DEF Statement, CheckToken, CheckState, PickJob, LockJob, FindLease, DropLease,
              RenewLease, WriteLease, Sweep, DrawId, ShareJob, Project, At
<1>3. QED BY <1>1, <1>2 DEF GrantLease

LEMMA LastDrawnHolds == Spec => []LastDrawn
<1>1. Init => LastDrawn
  BY DEF Init, LastDrawn, Idle
<1>2. Placed /\ LastDrawn /\ [Next]_vars => LastDrawn'
  <2> SUFFICES ASSUME Placed, LastDrawn, [Next]_vars PROVE LastDrawn'
    OBVIOUS
  <2>0. TxnTypeOK /\ Idle.granted = 0 /\ Idle \in Transactions
    BY DEF Placed, Idle, Transactions
  <2>1. ASSUME NEW s \in Sessions, Statement(s) PROVE LastDrawn'
    <3>1. /\ txn'[s].granted = IF At(s, "grant") THEN newest + 1 ELSE txn[s].granted
          /\ \A o \in Sessions \ {s} : txn'[o] = txn[o]
          /\ At(s, "grant") => NoRowThere(s)
      BY <2>0, <2>1, StatementMoves DEF Moved
    <3>2. At(s, "grant") => \A o \in Sessions \ {s} : txn[o].granted = 0
      BY <3>1 DEF NoRowThere, WritesLease, Others
    <3>3. QED BY <2>1, <3>1, <3>2, NewestMoves DEF LastDrawn
  <2>2. ASSUME NEW s \in Sessions, Commit(s) \/ Abort(s) PROVE LastDrawn'
    BY <2>0, <2>2 DEF Commit, Abort, LastDrawn, TxnTypeOK
  <2>3. ASSUME NEW s \in Sessions, NEW k \in Requests, NEW t \in 0..newest, Begin(s, k, t)
        PROVE  LastDrawn'
    <3> DEFINE u == [Idle EXCEPT !.kind = k, !.bears = t]
    <3>1. u.granted = 0
      BY <2>0 DEF Transactions
    <3>2. txn' = [txn EXCEPT ![s] = u] /\ newest' = newest
      BY <2>3 DEF Begin
    <3> HIDE DEF u
    <3>3. QED BY <2>0, <3>1, <3>2 DEF LastDrawn, TxnTypeOK
  <2>4. CASE Expire \/ UNCHANGED vars
    BY <2>4 DEF Expire, vars, LastDrawn
  <2>5. QED BY <2>1, <2>2, <2>3, <2>4 DEF Next
<1>3. QED BY <1>1, <1>2, PlacedHolds, PTL DEF Spec

\* What JobLease sees of the transactions under way.
Drawn == IF \E s \in Sessions : txn[s].granted # 0 THEN newest - 1 ELSE newest
Owed == lost \/ \E s \in Sessions : Swept(s)

Promised == [Lease!Next]_(Lease!vars)

LEMMA AsideKept ==
  ASSUME state' = state, lease'.token = lease.token, Drawn' = Drawn, Owed' = Owed
  PROVE  Promised
BY DEF Promised, Lease!vars, Drawn, Owed

LEMMA StatementPromised ==
  ASSUME Placed, TxnInv, NEW s \in Sessions, Statement(s)
  PROVE  Promised
<1> DEFINE t == txn[s]  u == txn'[s]
<1>1. TxnTypeOK /\ Positioned(t) /\ newest \in Nat /\ t.at \in Nat
  BY TxnConstantsOK DEF Placed, TxnTypeOK, Transactions
<1>2. /\ Moved(t, u, s) /\ ~Done(s) /\ state' = state /\ lost' = lost
      /\ \A o \in Sessions \ {s} : txn'[o] = txn[o]
      /\ lease' = lease \/ (At(s, "sweep") /\ lease' = NoLease)
      /\ At(s, "grant") => NoRowThere(s)
  BY <1>1, StatementMoves
<1>3. Drawn' = Drawn
  <2>1. CASE At(s, "grant")
    <3>1. \A o \in Sessions : txn[o].granted = 0
      <4>1. t.at = GrantAt(t.kind) /\ t.at \in Nat
        BY <1>1, <1>2, <2>1, Places
      <4>2. t.granted = 0
        BY <1>1, <4>1 DEF Positioned
      <4>3. QED BY <1>2, <2>1, <4>2 DEF NoRowThere, WritesLease, Others
    <3>2. u.granted # 0 /\ newest' = newest + 1
      BY <1>1, <1>2, <2>1, NewestMoves DEF Moved
    <3>3. QED BY <1>1, <3>1, <3>2 DEF Drawn
  <2>2. CASE ~At(s, "grant")
    BY <1>2, <2>2, NewestMoves DEF Drawn, Moved
  <2>3. QED BY <2>1, <2>2
<1>4. CASE At(s, "sweep")
  <2>1. Sweep(s)
    BY <1>4 DEF Statement, CheckToken, CheckState, PickJob, LockJob, GrantLease, FindLease,
                DropLease, RenewLease, WriteLease, DrawId, ShareJob, Project, At
  <2>2. lease.token # 0 /\ lease'.token = 0
    BY <2>1 DEF Sweep, RowThere, NoLease
  <2>3. Owed'
    BY <1>1, <1>2, <1>4, SubmitAndSweep DEF Owed, Swept, Moved
  <2>4. Lease!Sweep
    BY <1>2, <1>3, <2>2, <2>3 DEF Lease!Sweep, Drawn, Owed
  <2>5. QED BY <2>4 DEF Promised, Lease!Next
<1>5. CASE ~At(s, "sweep")
  <2>1. t.kind = "sweep" => (t.at = 2 /\ ~Done(s) => At(s, "sweep"))
    BY DEF At, Program
  <2>2. Swept(s)' = Swept(s)
    BY <1>1, <1>2, <1>5, <2>1 DEF Swept, Moved
  <2>3. Owed' = Owed
    BY <1>2, <2>2 DEF Owed, Swept
  <2>4. QED BY <1>2, <1>3, <1>5, <2>3, AsideKept
<1>6. QED BY <1>4, <1>5

LEMMA CommitPromised ==
  ASSUME Placed, TxnInv, LastDrawn, NEW s \in Sessions, Commit(s)
  PROVE  Promised
<1> DEFINE t == txn[s]
<1>0. TxnTypeOK /\ newest \in Nat /\ TxnInv'
  BY CommitKeeps, TxnConstantsOK DEF Placed, TxnTypeOK
<1>1. /\ txn'[s] = Idle /\ \A o \in Sessions \ {s} : txn'[o] = txn[o]
      /\ lease' = LeaseAfter(t) /\ lost' = (lost /\ t.state = "none") /\ newest' = newest
      /\ state' = IF t.state = "none" THEN state ELSE t.state
  BY <1>0 DEF Commit, TxnTypeOK
<1>2. /\ t.kind \in Requests
      /\ t.kind # "heartbeat" => t.state = StateAfter(EventOf(t.kind))
      /\ t.kind = "heartbeat" => t.state = "none"
      /\ t.granted # 0 <=> t.kind \in {"claim_next", "claim_by_id"}
      /\ t.wrote = "gone" => t.kind \in {"claim_by_id", "released", "force_release",
                               "submitted", "failed", "accepted", "rejected"}
  BY <1>0, Finished DEF Commit, Placed
<1>3. t.kind # "heartbeat" =>
        /\ t.state # "none"
        /\ t.state = "leased" <=> t.kind \in {"claim_next", "claim_by_id", "resumed"}
  BY <1>2, Outcomes, StatesTyped, TxnConstantsOK
<1>4. /\ t.granted # 0 => lease'.token = t.granted
      /\ t.granted = 0 => lease'.token \in {0, lease.token}
      /\ t.granted = 0 /\ t.wrote # "gone" => lease'.token = lease.token
  BY <1>0, <1>1 DEF LeaseAfter, NoLease, TxnTypeOK
<1>5. Idle.granted = 0 /\ Idle.kind = "idle"
  BY DEF Idle
<1>6. Owed' => Owed
  BY <1>1, <1>5 DEF Owed, Swept
<1>7. t.granted = 0 => Drawn' = Drawn
  BY <1>1, <1>5 DEF Drawn
<1>8. CASE t.kind \in {"claim_next", "claim_by_id"}
  <2>1. t.granted = newest /\ t.granted # 0 /\ Drawn = newest - 1
    BY <1>2, <1>8 DEF LastDrawn, Drawn
  <2>2. Drawn' = newest
    BY <1>1, <1>5, <2>1 DEF TxnInv, Drawn
  <2>3. lease.token = 0 \/ "claim_by_id" \in Requests
    BY <1>2, <1>8 DEF TxnInv
  <2>4. state' = "leased" /\ lease'.token = newest
    BY <1>1, <1>3, <1>4, <1>8, <2>1
  <2>5. Lease!Claim
    BY <1>0, <1>6, <2>1, <2>2, <2>3, <2>4 DEF Lease!Claim, Lease!NoNewDebt, Drawn, Owed
  <2>6. QED BY <2>5 DEF Promised, Lease!Next
<1>9. CASE t.kind = "heartbeat"
  <2>1. ~Swept(s) /\ t.state = "none" /\ t.granted = 0 /\ t.wrote # "gone"
    BY <1>2, <1>9 DEF Swept
  <2>2. Owed' = Owed
    BY <1>1, <1>5, <2>1 DEF Owed, Swept
  <2>3. QED BY <1>1, <1>4, <1>7, <2>1, <2>2, AsideKept
<1>10. CASE t.kind = "resumed"
  <2>1. /\ state' = "leased" /\ lease'.token = lease.token /\ Drawn' = Drawn
        /\ "resumed" \in Requests
    BY <1>1, <1>2, <1>3, <1>4, <1>7, <1>10
  <2>2. Lease!Resume
    BY <1>6, <2>1 DEF Lease!Resume, Lease!NoNewDebt, Drawn, Owed
  <2>3. QED BY <2>2 DEF Promised, Lease!Next
<1>11. CASE t.kind \notin {"claim_next", "claim_by_id", "heartbeat", "resumed"}
  <2>1. state' # "leased" /\ lease'.token \in {0, lease.token} /\ Drawn' = Drawn
    BY <1>1, <1>2, <1>3, <1>4, <1>7, <1>11
  <2>2. state' = "in_review" => lease'.token = 0
    BY <1>0 DEF TxnInv, NoLeaseInReview
  <2>3. Lease!Move
    BY <1>6, <2>1, <2>2 DEF Lease!Move, Lease!NoNewDebt, Drawn, Owed
  <2>4. QED BY <2>3 DEF Promised, Lease!Next
<1>12. QED BY <1>8, <1>9, <1>10, <1>11

LEMMA AbortPromised ==
  ASSUME Placed, TxnInv, LastDrawn, NEW s \in Sessions, Abort(s)
  PROVE  Promised
<1>0. TxnTypeOK /\ newest \in Nat /\ Idle.granted = 0 /\ Idle.kind = "idle"
  BY TxnConstantsOK DEF Placed, TxnTypeOK, Idle
<1>1. /\ txn'[s] = Idle /\ \A o \in Sessions \ {s} : txn'[o] = txn[o]
      /\ UNCHANGED <<state, lease, newest>> /\ lost' = (lost \/ Swept(s))
  BY <1>0 DEF Abort, TxnTypeOK
<1>2. Owed' = Owed
  BY <1>0, <1>1 DEF Owed, Swept
<1>3. CASE txn[s].granted = 0
  BY <1>0, <1>1, <1>2, <1>3, AsideKept DEF Drawn
<1>4. CASE txn[s].granted # 0
  <2>1. Drawn = newest - 1 /\ Drawn' = newest
    BY <1>0, <1>1, <1>4 DEF TxnInv, Drawn
  <2>2. Lease!Waste
    BY <1>0, <1>1, <1>2, <2>1 DEF Lease!Waste, Drawn, Owed
  <2>3. QED BY <2>2 DEF Promised, Lease!Next
<1>5. QED BY <1>3, <1>4

LEMMA BeginPromised ==
  ASSUME Placed, NEW s \in Sessions, NEW k \in Requests, NEW n \in 0..newest, Begin(s, k, n)
  PROVE  Promised
<1> DEFINE u == [Idle EXCEPT !.kind = k, !.bears = n]
<1>1. Idle \in Transactions /\ Idle.granted = 0 /\ Idle.at = 1
  BY DEF Idle, Transactions
<1>2. u.granted = 0 /\ u.at = 1
  BY <1>1 DEF Transactions
<1>3. /\ txn' = [txn EXCEPT ![s] = u] /\ UNCHANGED <<state, lease, newest, lost>>
      /\ txn[s].kind = "idle"
  BY DEF Begin, Busy
<1>4. txn[s].granted = 0
  <2>1. Positioned(txn[s]) /\ GrantAt("idle") = 1 /\ End("idle") = 1
    BY DEF Placed, GrantAt, End, Program
  <2>2. QED BY <1>3, <2>1 DEF Positioned
<1> HIDE DEF u
<1>5. txn'[s] = u /\ \A o \in Sessions \ {s} : txn'[o] = txn[o]
  BY <1>3 DEF Placed, TxnTypeOK
<1>6. Owed' = Owed
  BY <1>2, <1>3, <1>5 DEF Owed, Swept
<1>7. Drawn' = Drawn
  BY <1>2, <1>3, <1>4, <1>5 DEF Drawn
<1>8. QED BY <1>3, <1>6, <1>7, AsideKept

\* The statements of the handlers, however they interleave, do to the lease what
\* is promised of it (LeaseAsPromised).
THEOREM LeaseAsPromisedHolds == Spec => LeaseAsPromised
<1>1. Init => Lease!Init
  BY DEF Init, Lease!Init, NoLease, Idle, Swept
<1>2. Placed /\ TxnInv /\ LastDrawn /\ [Next]_vars => Promised
  <2> SUFFICES ASSUME Placed, TxnInv, LastDrawn, [Next]_vars PROVE Promised
    OBVIOUS
  <2>1. CASE Expire \/ UNCHANGED vars
    <3>1. lease'.token = lease.token /\ UNCHANGED <<state, newest, txn, lost>>
      BY <2>1 DEF Expire, vars, Placed, TxnTypeOK
    <3>2. QED BY <3>1, AsideKept DEF Drawn, Owed, Swept
  <2>2. QED BY <2>1, StatementPromised, CommitPromised, AbortPromised, BeginPromised DEF Next
<1>3. QED BY <1>1, <1>2, TxnInvHolds, LastDrawnHolds,
            PTL DEF Spec, LeaseAsPromised, Lease!Spec, Promised
=============================================================================
