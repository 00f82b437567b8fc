------------------------- MODULE PhaseRunner_proofs -------------------------
(***************************************************************************)
(* For any number of VMs and stories, any path of phases, any declared     *)
(* paths and every fault: what the clones, whatever was cut off in them,   *)
(* may bring to the branches of the origin.  The inductive invariant is    *)
(* about the clones: what each of their branches is made of, and what the  *)
(* working tree holds that is not committed.                               *)
(***************************************************************************)
EXTENDS PhaseRunner, TLAPS, SequenceTheorems

-----------------------------------------------------------------------------
(* The constants, sequences of commits, and git.                           *)

LEMMA PathFacts ==
  /\ Len(Path) \in Nat
  /\ \A k \in 1..Len(Path) : Path[k] \in Nat \ {Question} /\ Path[k] \in Phases
  /\ OnMain \subseteq File
  /\ Question \notin Phases
  /\ Main \in Branches /\ Stories \subseteq Branches
<1>1. Path \in Seq(Nat \ {Question})
  BY RunnerConstantsOK
<1>2. Len(Path) \in Nat /\ \A k \in 1..Len(Path) : Path[k] \in Nat \ {Question}
  BY <1>1, LenProperties, ElementOfSeq
<1>3. \A k \in 1..Len(Path) : Path[k] \in Phases
  BY DEF Phases
<1>4. Question \notin Phases
  BY <1>2 DEF Phases
<1> QED BY <1>2, <1>3, <1>4, RunnerConstantsOK DEF File, Branches

\* The files of a branch's last commit are files.
LEMMA TreeType ==
  ASSUME NEW h \in Seq(Commits)
  PROVE  Tree(h) \in SUBSET File
<1>1. CASE h = <<>>
  BY <1>1, PathFacts DEF Tree
<1>2. CASE h # <<>>
  <2>1. Len(h) \in 1..Len(h)
    BY <1>2, EmptySeq, LenProperties
  <2>2. h[Len(h)] \in Commits
    BY <2>1, ElementOfSeq
  <2> QED BY <1>2, <2>2 DEF Tree, Commits
<1> QED BY <1>1, <1>2

LEMMA HeadType ==
  ASSUME NEW c \in Clones
  PROVE  /\ HeadOf(c) \in Seq(Commits) /\ Tree(HeadOf(c)) \in SUBSET File
         /\ c.on \in Branches /\ c.work \in SUBSET File
         /\ \A b \in Branches : c.branch[b] \in Seq(Commits) /\ Tree(c.branch[b]) \in SUBSET File
<1>1. HeadOf(c) \in Seq(Commits)
  BY DEF HeadOf, Clones
<1> QED BY <1>1, TreeType DEF Clones

\* A branch with one more commit.
LEMMA AppendIs ==
  ASSUME NEW h \in Seq(Commits), NEW e \in Commits
  PROVE  LET g == Append(h, e)
         IN  /\ g \in Seq(Commits) /\ g # <<>> /\ Len(g) = Len(h) + 1 /\ Len(h) \in Nat
             /\ Tree(g) = e.tree
             /\ \A k \in 1..Len(h) : g[k] = h[k]
             /\ g[Len(h) + 1] = e
<1> DEFINE g == Append(h, e)
<1>1. /\ g \in Seq(Commits) /\ Len(g) = Len(h) + 1 /\ Len(h) \in Nat
      /\ \A k \in 1..Len(h) : g[k] = h[k]
      /\ g[Len(h) + 1] = e
  BY AppendProperties, LenProperties
<1> HIDE DEF g
<1>2. g # <<>>
  BY <1>1, EmptySeq
<1> QED BY <1>1, <1>2 DEF Tree, g

\* d is c with a commit of files t.
IsCommit(d, c, v, t) == \E n \in BOOLEAN : d = CommittedAs(c, v, t, n)

\* What a commit makes of a clone.
LEMMA CommittedBranch ==
  ASSUME NEW c \in Clones, NEW v \in VMs, NEW t \in SUBSET File,
         NEW d, IsCommit(d, c, v, t)
  PROVE  /\ Commit(c, v, t) \in Commits
         /\ HeadOf(c) \in Seq(Commits)
         /\ d.branch = [c.branch EXCEPT ![c.on] = Append(HeadOf(c), Commit(c, v, t))]
         /\ HeadOf(d) = Append(HeadOf(c), Commit(c, v, t))
<1>0. PICK n \in BOOLEAN : d = CommittedAs(c, v, t, n)
  BY DEF IsCommit
<1>1. Commit(c, v, t) \in Commits /\ c.on \in Branches /\ HeadOf(c) \in Seq(Commits)
  BY HeadType DEF Commit, Commits
<1> DEFINE h == Append(HeadOf(c), Commit(c, v, t))
           f == [c.branch EXCEPT ![c.on] = h]
<1>2. d = [c EXCEPT !.branch = f, !.noted = n]
  BY <1>0 DEF CommittedAs, Clones, HeadOf
<1>3. f[c.on] = h
  BY <1>1 DEF Clones
<1> HIDE DEF f
<1>4. d.branch = f /\ d.on = c.on
  BY <1>2 DEF Clones
<1>5. HeadOf(d) = h
  BY <1>3, <1>4 DEF HeadOf
<1> QED BY <1>1, <1>4, <1>5 DEF f

LEMMA CommittedAsIs ==
  ASSUME NEW c \in Clones, NEW v \in VMs, NEW t \in SUBSET File,
         NEW d, IsCommit(d, c, v, t)
  PROVE  /\ d \in Clones
         /\ d.on = c.on /\ d.have = c.have /\ d.work = c.work /\ d.loose = c.loose
         /\ HeadOf(d) # <<>>
         /\ Tree(HeadOf(d)) = t
<1>1. /\ Commit(c, v, t) \in Commits /\ Commit(c, v, t).tree = t
      /\ HeadOf(c) \in Seq(Commits)
      /\ HeadOf(d) = Append(HeadOf(c), Commit(c, v, t))
  <2>1. Commit(c, v, t).tree = t
    BY DEF Commit
  <2> QED BY <2>1, CommittedBranch
<1>2. HeadOf(d) # <<>> /\ Tree(HeadOf(d)) = t
  BY <1>1, AppendIs
<1>3. PICK n \in BOOLEAN : d = CommittedAs(c, v, t, n)
  BY DEF IsCommit
<1> DEFINE f == [c.branch EXCEPT ![c.on] = Append(c.branch[c.on], Commit(c, v, t))]
<1>4. f \in [Branches -> Seq(Commits)]
  BY <1>1, AppendIs DEF Clones, HeadOf
<1>5. d = [c EXCEPT !.branch = f, !.noted = n]
  BY <1>3 DEF CommittedAs, Clones
<1> HIDE DEF f
<1> QED BY <1>2, <1>4, <1>5 DEF Clones

LEMMA StashedIs ==
  ASSUME NEW c \in Clones
  PROVE  LET d == Stashed(c)
         IN  /\ d \in Clones
             /\ d.on = c.on /\ d.have = c.have /\ d.branch = c.branch
             /\ Uncommitted(d) = {}
BY HeadType DEF Stashed, Clones, Uncommitted, HeadOf

LEMMA CheckedOutIs ==
  ASSUME NEW c \in Clones, NEW b \in Branches
  PROVE  LET d == CheckedOut(c, b)
         IN  /\ d \in Clones
             /\ d.on = b /\ d.have = c.have \cup {b} /\ d.branch = c.branch
             /\ d.loose = c.loose
             /\ Uncommitted(d) \subseteq Uncommitted(c)
<1> DEFINE d == CheckedOut(c, b)
           from == Tree(HeadOf(c))
           to == Tree(c.branch[b])
<1>1. c.branch[b] \in Seq(Commits)
  BY DEF Clones
<1>2. to \in SUBSET File
  BY <1>1, TreeType
<1>3. /\ d \in Clones
      /\ d.on = b /\ d.have = c.have \cup {b} /\ d.branch = c.branch
      /\ d.loose = c.loose
      /\ d.work = (to \cup (c.work \ from)) \ (from \ c.work)
  BY <1>2 DEF CheckedOut, Clones
<1>4. Uncommitted(d) \subseteq Uncommitted(c)
  BY <1>3 DEF Uncommitted, HeadOf
<1> QED BY <1>3, <1>4

-----------------------------------------------------------------------------
(* What holds of the branches and of the working trees.                    *)

\* A commit belongs to a branch of set X or was made on it; outside X its files
\* are the story's.
Fair(b, e, X) ==
  /\ e.on = b \/ (e.on \in X /\ b \in X)
  /\ b \in X \/ (b # Main /\ e.tree \subseteq OnMain \cup Files(b))

FairBranch(b, h, X) == \A k \in 1..Len(h) : Fair(b, h[k], X)

FairClone(c, X) == \A b \in Branches : FairBranch(b, c.branch[b], X)

\* A clone that was always saved holds questions at most.
Saved(c) == c.loose \/ Uncommitted(c) \subseteq Stories \X {Question}

\* What is not committed may be committed on the branch of s.
Fits(c, s, X) == s \in X \/ (s # Main /\ Uncommitted(c) \subseteq Files(s))

Calm(c, X) == c \in Clones /\ c.on \in c.have /\ FairClone(c, X) /\ Saved(c)

LEMMA FairGrows ==
  ASSUME NEW X, NEW Y, X \subseteq Y, NEW b, NEW h, FairBranch(b, h, X)
  PROVE  FairBranch(b, h, Y)
BY DEF FairBranch, Fair

LEMMA CalmGrows ==
  ASSUME NEW X, NEW Y, X \subseteq Y, NEW c, Calm(c, X)
  PROVE  Calm(c, Y)
BY FairGrows DEF Calm, FairClone

LEMMA EmptyFair ==
  ASSUME NEW b, NEW X
  PROVE  <<>> \in Seq(Commits) /\ FairBranch(b, <<>>, X)
<1>1. <<>> \in Seq(Commits) /\ Len(<<>>) = 0
  BY EmptySeq
<1> QED BY <1>1 DEF FairBranch

\* The last commit's files are the story's.
LEMMA FairTree ==
  ASSUME NEW X, NEW b, NEW h \in Seq(Commits), FairBranch(b, h, X), b \notin X
  PROVE  Tree(h) \subseteq OnMain \cup Files(b)
<1>1. CASE h = <<>>
  BY <1>1 DEF Tree
<1>2. CASE h # <<>>
  <2>1. Len(h) \in 1..Len(h)
    BY <1>2, EmptySeq, LenProperties
  <2> QED BY <1>2, <2>1 DEF Tree, FairBranch, Fair
<1> QED BY <1>1, <1>2

LEMMA AppendFair ==
  ASSUME NEW X, NEW b, NEW h \in Seq(Commits), FairBranch(b, h, X),
         NEW e \in Commits, Fair(b, e, X)
  PROVE  FairBranch(b, Append(h, e), X)
<1> DEFINE g == Append(h, e)
<1>1. /\ Len(g) = Len(h) + 1 /\ Len(h) \in Nat
      /\ \A k \in 1..Len(h) : g[k] = h[k]
      /\ g[Len(h) + 1] = e
  BY AppendIs
<1> HIDE DEF g
<1>2. \A k \in 1..Len(g) : k \in 1..Len(h) \/ k = Len(h) + 1
  BY <1>1
<1>3. \A k \in 1..Len(g) : Fair(b, g[k], X)
  BY <1>1, <1>2 DEF FairBranch
<1> QED BY <1>3 DEF FairBranch, g

\* A commit of what is in the working tree, on a branch it fits.
LEMMA CommitFair ==
  ASSUME NEW X, NEW c \in Clones, FairClone(c, X), Fits(c, c.on, X),
         NEW v \in VMs, NEW t \in SUBSET (Tree(HeadOf(c)) \cup c.work),
         NEW d, IsCommit(d, c, v, t)
  PROVE  FairClone(d, X) /\ FairBranch(c.on, HeadOf(d), X)
<1> DEFINE e == Commit(c, v, t)
<1>1. t \in SUBSET File /\ c.on \in Branches /\ c.branch \in [Branches -> Seq(Commits)]
      /\ HeadOf(c) = c.branch[c.on] /\ e.on = c.on /\ e.tree = t
  BY HeadType DEF Clones, HeadOf, Commit
<1>a. t \in SUBSET File
  BY <1>1
<1>2. /\ e \in Commits /\ HeadOf(c) \in Seq(Commits)
      /\ d.branch = [c.branch EXCEPT ![c.on] = Append(HeadOf(c), e)]
      /\ HeadOf(d) = Append(HeadOf(c), e)
  BY <1>a, CommittedBranch
<1> HIDE DEF e
<1>3. FairBranch(c.on, HeadOf(c), X)
  BY <1>1 DEF FairClone
<1>4. Fair(c.on, e, X)
  <2>1. CASE c.on \in X
    BY <1>1, <2>1 DEF Fair
  <2>2. CASE c.on \notin X
    <3>1. Tree(HeadOf(c)) \subseteq OnMain \cup Files(c.on)
      BY <1>1, <1>3, <2>2, FairTree
    <3>2. c.on # Main /\ c.work \subseteq Tree(HeadOf(c)) \cup Files(c.on)
      BY <2>2 DEF Fits, Uncommitted
    <3> QED BY <1>1, <3>1, <3>2 DEF Fair
  <2> QED BY <2>1, <2>2
<1>5. FairBranch(c.on, Append(HeadOf(c), e), X)
  BY <1>1, <1>2, <1>3, <1>4, AppendFair
<1>6. FairClone(d, X)
  BY <1>1, <1>2, <1>5 DEF FairClone
<1> QED BY <1>2, <1>5, <1>6

\* A commit of some of it, or none: what is not committed becomes less.
LEMMA StagedIs ==
  ASSUME NEW c \in Clones, NEW v \in VMs, NEW d \in StagedCommitted(c, v)
  PROVE  /\ d \in Clones
         /\ d.on = c.on /\ d.have = c.have /\ d.work = c.work /\ d.loose = c.loose
         /\ Uncommitted(d) \subseteq Uncommitted(c)
         /\ HeadOf(c) # <<>> => HeadOf(d) # <<>>
         /\ \/ d = c
            \/ \E t \in SUBSET (Tree(HeadOf(c)) \cup c.work) : IsCommit(d, c, v, t)
<1>1. CASE d = c
  BY <1>1
<1>2. CASE d # c
  <2>0. PICK p \in Parts(c) \X {c.noted, FALSE} : d = CommittedAs(c, v, p[1], p[2])
    BY <1>2 DEF StagedCommitted
  <2> DEFINE t == p[1]
  <2>1. t \in Parts(c)
    BY <2>0
  <2>a. IsCommit(d, c, v, t)
    <3>1. p[2] \in BOOLEAN
      BY <2>0 DEF Clones
    <3> QED BY <2>0, <3>1 DEF IsCommit
  <2> HIDE DEF t
  <2>2. /\ t \in SUBSET (Tree(HeadOf(c)) \cup c.work) /\ Tree(HeadOf(c)) \cap c.work \subseteq t
        /\ t \in SUBSET File
    BY <2>1, HeadType DEF Parts, Clones
  <2>3. /\ d \in Clones
        /\ d.on = c.on /\ d.have = c.have /\ d.work = c.work /\ d.loose = c.loose
        /\ HeadOf(d) # <<>>
        /\ Tree(HeadOf(d)) = t
    BY <2>1, <2>2, <2>a, CommittedAsIs
  <2>4. Uncommitted(d) \subseteq Uncommitted(c)
    BY <2>2, <2>3 DEF Uncommitted
  <2> QED BY <2>1, <2>2, <2>a, <2>3, <2>4
<1> QED BY <1>1, <1>2

\* If it fits the branch, the clone stays as it should be.
LEMMA StagedCalm ==
  ASSUME NEW X, NEW c, Calm(c, X), NEW v \in VMs, NEW d \in StagedCommitted(c, v),
         d.branch = c.branch \/ Fits(c, c.on, X)
  PROVE  Calm(d, X)
<1>1. /\ d \in Clones /\ d.on \in d.have /\ Saved(d)
  BY StagedIs DEF Calm, Saved
<1>2. FairClone(d, X)
  <2>1. CASE d.branch = c.branch
    BY <2>1 DEF Calm, FairClone
  <2>2. CASE d.branch # c.branch
    <3>1. PICK t \in SUBSET (Tree(HeadOf(c)) \cup c.work) : IsCommit(d, c, v, t)
      BY <2>2, StagedIs DEF Calm
    <3> QED BY <2>2, <3>1, CommitFair DEF Calm
  <2> QED BY <2>1, <2>2
<1> QED BY <1>1, <1>2 DEF Calm

\* A clone with files added or removed.
LEMMA WorkIs ==
  ASSUME NEW c \in Clones, NEW w \in SUBSET File
  PROVE  LET d == [c EXCEPT !.work = w]
         IN  /\ d \in Clones /\ d.on = c.on /\ d.have = c.have /\ d.branch = c.branch
             /\ d.work = w /\ d.loose = c.loose /\ d.noted = c.noted
             /\ HeadOf(d) = HeadOf(c)
             /\ Uncommitted(d) = w \ Tree(HeadOf(c))
BY DEF Clones, HeadOf, Uncommitted

LEMMA WorkCalm ==
  ASSUME NEW X, NEW c, Calm(c, X), NEW w \in SUBSET c.work
  PROVE  /\ Calm([c EXCEPT !.work = w], X)
         /\ Uncommitted([c EXCEPT !.work = w]) \subseteq Uncommitted(c)
<1> DEFINE d == [c EXCEPT !.work = w]
<1>1. c \in Clones /\ w \in SUBSET File
  BY HeadType DEF Calm
<1>2. /\ d \in Clones /\ d.on = c.on /\ d.have = c.have /\ d.branch = c.branch
      /\ d.loose = c.loose /\ Uncommitted(d) = w \ Tree(HeadOf(c))
  BY <1>1, WorkIs
<1> HIDE DEF d
<1>3. Uncommitted(d) \subseteq Uncommitted(c)
  BY <1>2 DEF Uncommitted
<1> QED BY <1>2, <1>3 DEF Calm, FairClone, Saved, d

\* Stashes and checkouts.
LEMMA StashedCalm ==
  ASSUME NEW X, NEW c, Calm(c, X)
  PROVE  Calm(Stashed(c), X)
BY StashedIs DEF Calm, FairClone, Saved

LEMMA CheckedOutCalm ==
  ASSUME NEW X, NEW c, Calm(c, X), NEW b \in Branches
  PROVE  Calm(CheckedOut(c, b), X)
<1>1. c \in Clones
  BY DEF Calm
<1> QED BY <1>1, CheckedOutIs DEF Calm, FairClone, Saved

\* A clone's branch set to another history, to be checked out or checked out already.
LEMMA SetBranchIs ==
  ASSUME NEW X, NEW c \in Clones, FairClone(c, X), NEW b \in Branches,
         NEW h \in Seq(Commits), FairBranch(b, h, X),
         NEW d, d = [c EXCEPT !.branch[b] = h]
  PROVE  /\ d \in Clones /\ d.on = c.on /\ d.have = c.have /\ d.work = c.work
         /\ d.loose = c.loose
         /\ d.branch[b] = h
         /\ d.on # b => HeadOf(d) = HeadOf(c)
         /\ FairClone(d, X)
<1>0. c.branch \in [Branches -> Seq(Commits)] /\ c.on \in Branches
  BY DEF Clones
<1>1. d = [c EXCEPT !.branch = [c.branch EXCEPT ![b] = h]]
  BY DEF Clones
<1>2. [c.branch EXCEPT ![b] = h] \in [Branches -> Seq(Commits)]
  BY <1>0
<1>3. /\ d \in Clones /\ d.on = c.on /\ d.have = c.have /\ d.work = c.work
      /\ d.loose = c.loose /\ d.branch = [c.branch EXCEPT ![b] = h]
  BY <1>1, <1>2 DEF Clones
<1>4. d.branch[b] = h /\ (d.on # b => HeadOf(d) = HeadOf(c))
  BY <1>0, <1>3 DEF HeadOf
<1>5. FairClone(d, X)
  BY <1>0, <1>3 DEF FairClone
<1> QED BY <1>3, <1>4, <1>5

\* git checkout -b, or git checkout.
LEMMA MadeFromIs ==
  ASSUME NEW X, NEW c, Calm(c, X), NEW b \in Branches, NEW h \in Seq(Commits),
         b \in c.have \/ FairBranch(b, h, X)
  PROVE  LET d == MadeFrom(c, b, h)
         IN  Calm(d, X) /\ d.on = b /\ Uncommitted(d) \subseteq Uncommitted(c)
<1> DEFINE d == MadeFrom(c, b, h)
           m == [c EXCEPT !.branch[b] = h]
<1>0. c \in Clones
  BY DEF Calm
<1>1. CASE b \in c.have
  <2>1. d = CheckedOut(c, b)
    BY <1>1 DEF MadeFrom
  <2> QED BY <1>0, <2>1, CheckedOutIs, CheckedOutCalm
<1>2. CASE b \notin c.have
  <2>1. d = CheckedOut(m, b) /\ c.on # b
    BY <1>2 DEF MadeFrom, Calm
  <2>a. FairClone(c, X) /\ FairBranch(b, h, X) /\ c.on # b /\ m = [c EXCEPT !.branch[b] = h]
    BY <1>2, <2>1 DEF Calm
  <2> HIDE DEF m
  <2>2. /\ m \in Clones /\ m.on = c.on /\ m.have = c.have /\ m.work = c.work
        /\ m.loose = c.loose /\ FairClone(m, X) /\ HeadOf(m) = HeadOf(c)
    BY <1>0, <2>a, SetBranchIs
  <2>3. Calm(m, X) /\ Uncommitted(m) = Uncommitted(c)
    BY <2>2 DEF Calm, Saved, Uncommitted
  <2> QED BY <2>1, <2>2, <2>3, CheckedOutIs, CheckedOutCalm
<1> QED BY <1>1, <1>2

-----------------------------------------------------------------------------
(* The inductive invariant.                                                *)

SkippedIn(r, p) == r.declared /\ p \notin Declared[r.story] \cup {Seed}

InLoop == {"loop", "session", "check", "report"}

\* The phases before r.at were left out, or delivered, or, phase 8, counted.
Passed(r, c) == \A j \in 1..(r.at - 1) :
  IF Path[j] = Impl THEN SkippedIn(r, Impl) \/ r.uncounted \/ HeadOf(c) # <<>>
                    ELSE SkippedIn(r, Path[j]) \/ <<r.story, Path[j]>> \in c.work

\* What is known of run r, with clone c, from its place in the loop.
Placed(r, c, X) ==
  /\ r \in Runs
  /\ r.pc # "idle" => r.story \in Stories
  /\ r.pc \in {"branch", "sync"} => r.at = 1 /\ ~r.again /\ ~r.strayed
  /\ r.pc \in InLoop \cup {"sync"} => Fits(c, r.story, X) /\ (r.strayed \/ c.on = r.story)
  /\ r.pc \in {"session", "check"} => r.at <= Len(Path) /\ ~SkippedIn(r, Path[r.at])
  /\ r.pc \in InLoop /\ r.again => r.at <= Len(Path) /\ Path[r.at] = Impl /\ ~SkippedIn(r, Impl)
  /\ r.pc \in InLoop => r.strayed \/ Passed(r, c)
  /\ r.pc = "report" => r.at = Len(Path) + 1

GoodVM(r, c, X) == Calm(c, X) /\ Placed(r, c, X)

GoodOrigin ==
  /\ origin \in [Stories -> Seq(Commits)] /\ pushed \subseteq Stories
  /\ \A s \in Stories : FairBranch(s, origin[s], crossed) /\ (s \notin pushed => origin[s] = <<>>)

GoodAccepted == accepted \subseteq Completions /\ AcceptedHasCommits /\ AcceptedKept

RunsBound == runs \in [Stories -> Nat] /\ \A s \in Stories : runs[s] <= MaxRuns[s]

IInv ==
  /\ clone \in [VMs -> Clones] /\ run \in [VMs -> Runs]
  /\ \A v \in VMs : GoodVM(run[v], clone[v], crossed)
  /\ GoodOrigin /\ GoodAccepted /\ RunsBound
  /\ crossed \subseteq Branches /\ odd \in 0..MaxOdd

LEMMA FitsGrows ==
  ASSUME NEW X, NEW Y, X \subseteq Y, NEW c, NEW r, GoodVM(r, c, X)
  PROVE  GoodVM(r, c, Y)
<1>1. FairClone(c, Y)
  BY FairGrows DEF GoodVM, Calm, FairClone
<1>2. \A s : Fits(c, s, X) => Fits(c, s, Y)
  BY DEF Fits
<1> QED BY <1>1, <1>2 DEF GoodVM, Calm, Placed

LEMMA AtVM ==
  ASSUME IInv, NEW v \in VMs
  PROVE  /\ clone[v] \in Clones /\ run[v] \in Runs
         /\ Calm(clone[v], crossed) /\ Placed(run[v], clone[v], crossed)
         /\ run[v].at \in Nat /\ run[v].at >= 1 /\ run[v].at <= Len(Path) + 1
         /\ run[v].pc # "idle" => run[v].story \in Stories /\ run[v].story \in Branches
<1>1. run[v] \in Runs /\ clone[v] \in Clones /\ GoodVM(run[v], clone[v], crossed)
  BY DEF IInv
<1>2. run[v].at \in 1..(Len(Path) + 1)
  BY <1>1 DEF Runs
<1> QED BY <1>1, <1>2, PathFacts DEF GoodVM, Placed

\* A step of a VM leaves its run and clone as they should be, and all others alone.
LEMMA VMKeeps ==
  ASSUME IInv, NEW v \in VMs, NEW d, NEW r, GoodVM(r, d, crossed'),
         clone' = [clone EXCEPT ![v] = d], run' = [run EXCEPT ![v] = r],
         crossed \subseteq crossed', crossed' \subseteq Branches,
         GoodOrigin', GoodAccepted', RunsBound', Usual \/ Odd
  PROVE  IInv'
<1>1. d \in Clones /\ r \in Runs
  BY DEF GoodVM, Calm, Placed
<1>2. clone' = [w \in VMs |-> IF w = v THEN d ELSE clone[w]]
      /\ run' = [w \in VMs |-> IF w = v THEN r ELSE run[w]]
  BY DEF IInv
<1>3. \A w \in VMs : GoodVM(run'[w], clone'[w], crossed')
  <2> TAKE w \in VMs
  <2>1. CASE w = v
    BY <1>2, <2>1
  <2>2. CASE w # v
    <3>1. GoodVM(run[w], clone[w], crossed)
      BY DEF IInv
    <3> QED BY <1>2, <2>2, <3>1, FitsGrows
  <2> QED BY <2>1, <2>2
<1>4. (\A w \in VMs : GoodVM(run[w], clone[w], crossed))'
  BY <1>3 DEF GoodVM, Calm, FairClone, FairBranch, Fair, Saved, Uncommitted, HeadOf, Placed,
              Fits, Passed, SkippedIn
<1>5. clone' \in [VMs -> Clones] /\ run' \in [VMs -> Runs]
  BY <1>1 DEF IInv
<1>6. odd' \in 0..MaxOdd
  BY RunnerConstantsOK DEF IInv, Usual, Odd
<1> QED BY <1>4, <1>5, <1>6 DEF IInv

LEMMA StillOrigin ==
  ASSUME IInv, UNCHANGED <<origin, pushed>>, crossed \subseteq crossed'
  PROVE  GoodOrigin'
BY FairGrows DEF IInv, GoodOrigin

LEMMA StillAccepted ==
  ASSUME IInv, UNCHANGED <<origin, accepted>>, crossed \subseteq crossed'
  PROVE  GoodAccepted'
BY DEF IInv, GoodAccepted, AcceptedHasCommits, AcceptedKept

LEMMA StillRuns ==
  ASSUME IInv, UNCHANGED runs
  PROVE  RunsBound'
BY DEF IInv, RunsBound

LEMMA IdleIsRun ==
  /\ IdleRun \in Runs /\ IdleRun.pc = "idle" /\ IdleRun.at = 1
  /\ IdleRun.again = FALSE /\ IdleRun.strayed = FALSE
BY PathFacts DEF IdleRun, Runs

LEMMA IdlePlaced ==
  ASSUME NEW d, NEW X
  PROVE  Placed(IdleRun, d, X)
BY PathFacts DEF IdleRun, Placed, Runs, InLoop

\* The end of a run.
LEMMA EndKeeps ==
  ASSUME IInv, NEW v \in VMs, NEW d, Calm(d, crossed'),
         clone' = [clone EXCEPT ![v] = d], EndRun(v),
         crossed \subseteq crossed', crossed' \subseteq Branches,
         GoodOrigin', GoodAccepted', UNCHANGED runs, Usual \/ Odd
  PROVE  IInv'
BY StillRuns, IdlePlaced, VMKeeps DEF EndRun, GoodVM

-----------------------------------------------------------------------------
(* Prefixes, and pushes.                                                   *)

\* A prefix, by its elements.
LEMMA PrefixIs ==
  ASSUME NEW S, NEW h \in Seq(S), NEW g \in Seq(S)
  PROVE  IsPrefix(h, g) <=> Len(h) <= Len(g) /\ \A k \in 1..Len(h) : h[k] = g[k]
<1>1. Len(h) \in Nat /\ Len(g) \in Nat
  BY LenProperties
<1>2. SubSeq(h, 1, Len(h)) = h
  BY SubSeqFull
<1>3. ASSUME Len(h) <= Len(g)
      PROVE  /\ SubSeq(g, 1, Len(h)) \in Seq(S) /\ Len(SubSeq(g, 1, Len(h))) = Len(h)
             /\ \A k \in 1..Len(h) : SubSeq(g, 1, Len(h))[k] = g[k]
  <2>1. \A k \in 1..Len(h) : g[k] \in S
    BY <1>1, <1>3, ElementOfSeq
  <2>2. Len(h) \in Int /\ 1 \in Int
    BY <1>1
  <2> DEFINE n == Len(h)
  <2>3. n \in Int /\ \A k \in 1..n : g[k] \in S
    BY <2>1, <2>2
  <2> HIDE DEF n
  <2>4. /\ SubSeq(g, 1, n) \in Seq(S)
        /\ Len(SubSeq(g, 1, n)) = IF 1 <= n THEN n - 1 + 1 ELSE 0
        /\ \A k \in 1..(n - 1 + 1) : SubSeq(g, 1, n)[k] = g[1 + k - 1]
    BY <2>3, SubSeqProperties
  <2>5. n \in Nat
    BY <1>1 DEF n
  <2>6. Len(SubSeq(g, 1, n)) = n /\ n - 1 + 1 = n
    BY <2>4, <2>5
  <2>7. \A k \in 1..n : 1 + k - 1 = k
    BY <2>5
  <2>8. \A k \in 1..n : SubSeq(g, 1, n)[k] = g[k]
    BY <2>4, <2>6, <2>7
  <2> QED BY <2>4, <2>6, <2>8 DEF n
<1>4. ASSUME Len(h) <= Len(g)
      PROVE  h = SubSeq(g, 1, Len(h)) <=> \A k \in 1..Len(h) : h[k] = g[k]
  <2>1. ASSUME \A k \in 1..Len(h) : h[k] = g[k] PROVE h = SubSeq(g, 1, Len(h))
    <3>1. \A k \in 1..Len(h) : h[k] = SubSeq(g, 1, Len(h))[k]
      BY <1>3, <1>4, <2>1
    <3> QED BY <1>3, <1>4, <3>1, SeqEqual
  <2>2. ASSUME h = SubSeq(g, 1, Len(h)) PROVE \A k \in 1..Len(h) : h[k] = g[k]
    BY <1>3, <1>4, <2>2
  <2> QED BY <2>1, <2>2
<1> QED BY <1>2, <1>4 DEF IsPrefix

LEMMA PrefixTrans ==
  ASSUME NEW f \in Seq(Commits), NEW g \in Seq(Commits), NEW h \in Seq(Commits),
         IsPrefix(f, g), IsPrefix(g, h)
  PROVE  IsPrefix(f, h)
<1>1. /\ Len(f) \in Nat /\ Len(g) \in Nat /\ Len(h) \in Nat
      /\ Len(f) <= Len(g) /\ \A k \in 1..Len(f) : f[k] = g[k]
      /\ Len(g) <= Len(h) /\ \A k \in 1..Len(g) : g[k] = h[k]
  BY PrefixIs, LenProperties
<1>2. Len(f) <= Len(h) /\ \A k \in 1..Len(f) : f[k] = h[k]
  BY <1>1
<1> QED BY <1>2, PrefixIs

LEMMA EmptyPrefix ==
  ASSUME NEW h \in Seq(Commits)
  PROVE  IsPrefix(<<>>, h) /\ IsPrefix(h, h)
<1>1. <<>> \in Seq(Commits) /\ Len(<<>>) = 0 /\ Len(h) \in Nat
  BY EmptySeq, LenProperties
<1>2. Len(<<>>) <= Len(h) /\ \A k \in 1..Len(<<>>) : <<>>[k] = h[k]
  BY <1>1
<1>3. IsPrefix(<<>>, h)
  BY <1>1, <1>2, PrefixIs
<1>4. Len(h) <= Len(h) /\ \A k \in 1..Len(h) : h[k] = h[k]
  BY <1>1
<1>5. IsPrefix(h, h)
  BY <1>4, PrefixIs
<1> QED BY <1>3, <1>5

\* One branch of the origin grows, and what was accepted stays on it.
LEMMA GrowKeeps ==
  ASSUME IInv, NEW s \in Stories, NEW h \in Seq(Commits), IsPrefix(origin[s], h),
         crossed \subseteq crossed', FairBranch(s, h, crossed'),
         origin' = [origin EXCEPT ![s] = h],
         pushed' \subseteq Stories, pushed \cup {s} \subseteq pushed',
         UNCHANGED accepted
  PROVE  GoodOrigin' /\ GoodAccepted'
<1>1. origin' = [t \in Stories |-> IF t = s THEN h ELSE origin[t]]
      /\ origin \in [Stories -> Seq(Commits)]
  BY DEF IInv, GoodOrigin
<1>2. \A t \in Stories : /\ FairBranch(t, origin'[t], crossed')
                         /\ t \notin pushed' => origin'[t] = <<>>
  BY <1>1, FairGrows DEF IInv, GoodOrigin
<1>3. \A t \in Stories : IsPrefix(origin[t], origin'[t]) /\ origin'[t] \in Seq(Commits)
  BY <1>1, EmptyPrefix
<1>4. ASSUME NEW a \in accepted, "commit" \in a.seen, a.story \notin crossed'
      PROVE  IsPrefix(a.head, origin'[a.story])
  <2>1. a.story \in Stories /\ a.head \in Seq(Commits) /\ IsPrefix(a.head, origin[a.story])
    BY <1>4 DEF IInv, GoodAccepted, AcceptedKept, Completions
  <2> QED BY <1>1, <1>3, <2>1, PrefixTrans
<1>5. GoodOrigin'
  BY <1>1, <1>2, <1>3 DEF GoodOrigin
<1>6. GoodAccepted'
  BY <1>4 DEF IInv, GoodAccepted, AcceptedHasCommits, AcceptedKept
<1> QED BY <1>5, <1>6

LEMMA PushGrows ==
  ASSUME IInv, NEW s \in Stories, NEW h \in Seq(Commits), Push(h, s)
  PROVE  IsPrefix(origin[s], h)
BY EmptyPrefix DEF Push, FastForward, IInv, GoodOrigin

\* A push, whether it is refused or not.
LEMMA PushKeeps ==
  ASSUME IInv, NEW s \in Stories, NEW h \in Seq(Commits),
         crossed \subseteq crossed', FairBranch(s, h, crossed'),
         Push(h, s) \/ TryPush(h, s), UNCHANGED accepted
  PROVE  GoodOrigin' /\ GoodAccepted' /\ (TryPush(h, s) => Usual \/ Odd)
<1>1. CASE Push(h, s)
  <2>1. IsPrefix(origin[s], h) /\ pushed \subseteq Stories
    BY <1>1, PushGrows DEF IInv, GoodOrigin
  <2>2. GoodOrigin' /\ GoodAccepted'
    BY <1>1, <2>1, GrowKeeps DEF Push
  <2> QED BY <2>2 DEF TryPush, PushRefused, Fault
<1>2. CASE PushRefused(h, s)
  <2>1. UNCHANGED <<origin, pushed>> /\ (Usual \/ Odd)
    BY <1>2 DEF PushRefused, Fault
  <2> QED BY <2>1, StillOrigin, StillAccepted
<1> QED BY <1>1, <1>2 DEF TryPush

-----------------------------------------------------------------------------
(* Start and branch setup.                                                 *)

LEMMA InitInv == Init => IInv
<1> SUFFICES ASSUME Init PROVE IInv
  OBVIOUS
<1>1. GoodOrigin
  BY EmptyFair DEF Init, GoodOrigin
<1>2. ASSUME NEW v \in VMs PROVE Calm(clone[v], crossed)
  <2> DEFINE c == clone[v]
  <2>1. /\ c = [branch |-> [b \in Branches |-> <<>>], have |-> {Main}, on |-> Main,
                work |-> OnMain, noted |-> FALSE, loose |-> FALSE]
        /\ <<>> \in Seq(Commits)
    BY EmptySeq DEF Init
  <2> HIDE DEF c
  <2>2. c \in Clones /\ c.on \in c.have /\ HeadOf(c) = <<>> /\ c.work = OnMain
        /\ \A b \in Branches : c.branch[b] = <<>>
    BY <2>1, PathFacts DEF Clones, HeadOf
  <2>3. FairClone(c, crossed)
    BY <2>2, EmptyFair DEF FairClone
  <2>4. Uncommitted(c) = {}
    BY <2>2 DEF Uncommitted, Tree
  <2> QED BY <2>2, <2>3, <2>4 DEF Calm, Saved, c
<1>3. clone \in [VMs -> Clones] /\ run \in [VMs -> Runs]
      /\ \A v \in VMs : GoodVM(run[v], clone[v], crossed)
  <2>1. \A v \in VMs : GoodVM(run[v], clone[v], crossed)
    BY <1>2, IdlePlaced DEF Init, GoodVM
  <2>2. \A v \in VMs : clone[v] \in Clones /\ run[v] \in Runs
    BY <2>1 DEF GoodVM, Calm, Placed
  <2> QED BY <2>1, <2>2 DEF Init
<1>4. GoodAccepted /\ RunsBound /\ crossed \subseteq Branches /\ odd \in 0..MaxOdd
  BY RunnerConstantsOK DEF Init, GoodAccepted, AcceptedHasCommits, AcceptedKept, RunsBound
<1> QED BY <1>1, <1>3, <1>4 DEF IInv

LEMMA StartKeeps ==
  ASSUME IInv, NEW v \in VMs, NEW s \in Stories, Start(v, s)
  PROVE  IInv'
<1> DEFINE r == [IdleRun EXCEPT !.pc = "branch", !.story = s]
           q == <<s, Question>>
           c == clone[v]
           w == [c EXCEPT !.work = @ \ {q}]
<1>1. PICK d \in Consumed(c, v, s) :
        /\ clone' = [clone EXCEPT ![v] = d]
        /\ crossed' = IF d.branch # c.branch /\ (d.on # s \/ Foreign(c, s))
                      THEN crossed \cup {d.on} ELSE crossed
  BY DEF Start
<1>2. Calm(c, crossed) /\ c \in Clones /\ c.on \in Branches /\ s \in Branches
  BY AtVM, HeadType, PathFacts
<1>3. /\ Calm(w, crossed) /\ w \in Clones /\ Uncommitted(w) \subseteq Uncommitted(c)
      /\ w.on = c.on /\ w.branch = c.branch
  <2>1. w = [c EXCEPT !.work = c.work \ {q}] /\ c.work \ {q} \in SUBSET File
    BY <1>2, HeadType DEF Clones
  <2>2. w.on = c.on /\ w.branch = c.branch
    BY <1>2 DEF Clones
  <2> HIDE DEF w
  <2>3. Calm(w, crossed) /\ Uncommitted(w) \subseteq Uncommitted(c)
    BY <1>2, <2>1, WorkCalm
  <2> QED BY <2>2, <2>3 DEF Calm
<1> HIDE DEF w
<1>4. d = c \/ d \in StagedCommitted(w, v)
  BY DEF Consumed, w
<1>5. d.on = c.on /\ crossed \subseteq crossed' /\ crossed' \subseteq Branches
  BY <1>1, <1>2, <1>3, <1>4, StagedIs DEF IInv
<1>6. Calm(d, crossed')
  <2>1. CASE d = c
    BY <1>2, <1>5, <2>1, CalmGrows
  <2>2. CASE d \in StagedCommitted(w, v)
    <3>1. Calm(w, crossed')
      BY <1>3, <1>5, CalmGrows
    <3>2. d.branch = w.branch \/ Fits(w, w.on, crossed')
      BY <1>1, <1>3, <1>5, PathFacts, RunnerConstantsOK DEF Fits, Foreign
    <3> QED BY <2>2, <3>1, <3>2, StagedCalm
  <2> QED BY <1>4, <2>1, <2>2
<1>7. /\ r \in Runs /\ r.pc = "branch" /\ r.story = s /\ r.at = 1
      /\ r.again = FALSE /\ r.strayed = FALSE
  BY IdleIsRun DEF Runs
<1>8. run' = [run EXCEPT ![v] = r]
  BY DEF Start
<1> HIDE DEF r
<1>9. GoodVM(r, d, crossed')
  BY <1>6, <1>7 DEF GoodVM, Placed, InLoop
<1>10. RunsBound'
  <2>1. runs \in [Stories -> Nat] /\ runs' = [runs EXCEPT ![s] = @ + 1] /\ runs[s] < MaxRuns[s]
    BY DEF Start, IInv, RunsBound
  <2>2. \A t \in Stories : runs[t] <= MaxRuns[t] /\ MaxRuns[t] \in Nat
    BY RunnerConstantsOK DEF IInv, RunsBound
  <2> QED BY <2>1, <2>2 DEF RunsBound
<1>11. UNCHANGED <<origin, pushed, accepted>> /\ (Usual \/ Odd)
  BY DEF Start, Fault
<1>12. GoodOrigin' /\ GoodAccepted'
  BY <1>5, <1>11, StillOrigin, StillAccepted
<1> QED BY <1>1, <1>5, <1>8, <1>9, <1>10, <1>11, <1>12, VMKeeps

\* The copied seed and the cleared question.
LEMMA SeededCalm ==
  ASSUME NEW X, NEW c, Calm(c, X), NEW s \in Stories, Fits(c, s, X), NEW d, d = Seeded(c, s)
  PROVE  Calm(d, X) /\ d.on = c.on /\ Fits(d, s, X)
<1>1. CASE d = c
  BY <1>1
<1>2. CASE d # c
  <2> DEFINE w == c.work \cup {<<s, Seed>>}
  <2>0. c \in Clones /\ w \in SUBSET File /\ <<s, Seed>> \in Files(s)
    BY HeadType DEF Calm, File, Files
  <2>1. d = [c EXCEPT !.work = w, !.loose = TRUE]
    BY <1>2, <2>0 DEF Seeded, Clones
  <2>2. /\ d \in Clones /\ d.on = c.on /\ d.have = c.have /\ d.branch = c.branch
        /\ d.work = w /\ d.loose
    BY <2>0, <2>1 DEF Clones
  <2>3. Calm(d, X)
    BY <2>2 DEF Calm, FairClone, Saved
  <2>4. Uncommitted(d) \subseteq Uncommitted(c) \cup {<<s, Seed>>}
    BY <2>2 DEF Uncommitted, HeadOf
  <2> QED BY <2>0, <2>2, <2>3, <2>4 DEF Fits
<1> QED BY <1>1, <1>2

LEMMA ClearedCalm ==
  ASSUME NEW X, NEW c, Calm(c, X), NEW s \in Stories, c.on = s, Fits(c, s, X),
         NEW v \in VMs, NEW d \in Cleared(c, v, s)
  PROVE  Calm(d, X) /\ d.on = s /\ Fits(d, s, X)
<1> DEFINE q == <<s, Question>>
           rest == IF q \in Tree(HeadOf(c)) THEN [c EXCEPT !.work = @ \ {q}] ELSE c
<1>0. c \in Clones
  BY DEF Calm
<1>1. Calm(rest, X) /\ rest.on = s /\ Uncommitted(rest) \subseteq Uncommitted(c)
  <2> DEFINE w == [c EXCEPT !.work = @ \ {q}]
  <2>1. w = [c EXCEPT !.work = c.work \ {q}] /\ w.on = c.on
    BY <1>0 DEF Clones
  <2> HIDE DEF w
  <2>2. Calm(w, X) /\ Uncommitted(w) \subseteq Uncommitted(c)
    BY <2>1, WorkCalm
  <2>3. rest = w \/ rest = c
    BY DEF w
  <2> QED BY <2>1, <2>2, <2>3
<1>2. d = c \/ d \in StagedCommitted(rest, v)
  BY DEF Cleared
<1> HIDE DEF rest
<1>3. CASE d = c
  BY <1>3
<1>4. ASSUME d \in StagedCommitted(rest, v)
      PROVE  Calm(d, X) /\ d.on = s /\ Fits(d, s, X)
  <2>1. rest \in Clones /\ Fits(rest, s, X) /\ Fits(rest, rest.on, X)
    BY <1>1 DEF Calm, Fits
  <2>2. Calm(d, X)
    BY <1>1, <1>4, <2>1, StagedCalm
  <2>3. d.on = s /\ Uncommitted(d) \subseteq Uncommitted(rest)
    BY <1>1, <1>4, <2>1, StagedIs
  <2> QED BY <2>1, <2>2, <2>3 DEF Fits
<1> QED BY <1>2, <1>3, <1>4

\* Branch setup done, a run enters the phase loop on its story's branch.
LEMMA SetUpKeeps ==
  ASSUME IInv, NEW v \in VMs, run[v].pc \in {"branch", "sync"},
         NEW c, Calm(c, crossed'), c.on = run[v].story, Fits(c, c.on, crossed'), SetUp(v, c),
         crossed \subseteq crossed', crossed' \subseteq Branches,
         UNCHANGED <<origin, pushed, runs, accepted>>, Usual \/ Odd
  PROVE  IInv'
<1> DEFINE s == run[v].story
           e == Seeded(c, s)
           y == <<s, Seed>> \in e.work
           r == [run[v] EXCEPT !.pc = "loop", !.declared = y]
<1>0. /\ s \in Stories /\ run[v] \in Runs /\ run[v].at = 1
      /\ ~run[v].again /\ ~run[v].strayed
  BY AtVM DEF Placed
<1>1. Calm(e, crossed') /\ e.on = s /\ Fits(e, s, crossed')
  BY <1>0, SeededCalm
<1>2. PICK d \in Cleared(e, v, s) : clone' = [clone EXCEPT ![v] = d]
  BY DEF SetUp
<1>3. run' = [run EXCEPT ![v] = r]
  BY DEF SetUp
<1>a. y \in BOOLEAN
  OBVIOUS
<1> HIDE DEF y
<1>4. /\ r \in Runs /\ r.pc = "loop" /\ r.story = s /\ r.at = 1
      /\ ~r.again /\ ~r.strayed
  BY <1>0, <1>a DEF Runs
<1> HIDE DEF e, r
<1>5. Calm(d, crossed') /\ d.on = s /\ Fits(d, s, crossed')
  BY <1>0, <1>1, ClearedCalm
<1>6. Passed(r, d)
  BY <1>4 DEF Passed
<1>7. GoodVM(r, d, crossed')
  BY <1>0, <1>4, <1>5, <1>6 DEF GoodVM, Placed, InLoop
<1> QED BY <1>2, <1>3, <1>7, StillOrigin, StillAccepted, StillRuns, VMKeeps

LEMMA ResumeKeeps ==
  ASSUME IInv, NEW v \in VMs, NEW kept \in BOOLEAN, Resume(v, kept)
  PROVE  IInv'
<1> DEFINE s == run[v].story
           b == IF kept THEN clone[v] ELSE Stashed(clone[v])
           c == MadeFrom(b, s, origin[s])
<1>1. /\ run[v].pc = "branch" /\ SetUp(v, c)
      /\ crossed' = IF kept /\ Foreign(c, s) THEN crossed \cup {s} ELSE crossed
      /\ UNCHANGED <<origin, pushed, runs, accepted>> /\ (Usual \/ Odd)
  BY DEF Resume, Fault
<1>2. s \in Stories /\ s \in Branches /\ s # Main
  BY <1>1, AtVM, RunnerConstantsOK
<1>3. crossed \subseteq crossed' /\ crossed' \subseteq Branches
  BY <1>1, <1>2 DEF IInv
<1>4. Calm(b, crossed') /\ (~kept => Uncommitted(b) = {})
  BY <1>3, AtVM, CalmGrows, StashedCalm, StashedIs
<1> HIDE DEF b
<1>5. origin[s] \in Seq(Commits) /\ FairBranch(s, origin[s], crossed')
  BY <1>2, <1>3, FairGrows DEF IInv, GoodOrigin
<1>6. Calm(c, crossed') /\ c.on = s /\ Uncommitted(c) \subseteq Uncommitted(b)
  BY <1>2, <1>4, <1>5, MadeFromIs
<1> HIDE DEF c
<1>7. Fits(c, c.on, crossed')
  BY <1>1, <1>2, <1>4, <1>6 DEF Fits, Foreign
<1> QED BY <1>1, <1>3, <1>6, <1>7, SetUpKeeps

LEMMA StayOnKeeps ==
  ASSUME IInv, NEW v \in VMs, StayOn(v)
  PROVE  IInv'
<1> DEFINE s == run[v].story
           c == clone[v]
<1>1. /\ run[v].pc = "branch" /\ SetUp(v, c) /\ c.on = s
      /\ crossed' = IF Foreign(c, s) THEN crossed \cup {s} ELSE crossed
      /\ UNCHANGED <<origin, pushed, runs, accepted>> /\ Usual
  BY DEF StayOn, Usual
<1>2. s \in Stories /\ s \in Branches /\ s # Main
  BY <1>1, AtVM, RunnerConstantsOK
<1>3. crossed \subseteq crossed' /\ crossed' \subseteq Branches
  BY <1>1, <1>2 DEF IInv
<1>4. Calm(c, crossed')
  BY <1>3, AtVM, CalmGrows
<1>5. Fits(c, c.on, crossed')
  BY <1>1, <1>2 DEF Fits, Foreign
<1> QED BY <1>1, <1>3, <1>4, <1>5, SetUpKeeps

\* Commits found on main are another story's, or nobody's.
LEMMA MainLends ==
  ASSUME NEW X, NEW h \in Seq(Commits), FairBranch(Main, h, X), NEW s \in X
  PROVE  FairBranch(s, h, X)
BY DEF FairBranch, Fair

LEMMA GreenfieldKeeps ==
  ASSUME IInv, NEW v \in VMs, NEW kept \in BOOLEAN, Greenfield(v, kept)
  PROVE  IInv'
<1> DEFINE s == run[v].story
           b == IF kept THEN clone[v] ELSE Stashed(clone[v])
           m == CheckedOut(b, Main)
           c == MadeFrom(m, s, HeadOf(m))
           r == [run[v] EXCEPT !.pc = "sync"]
<1>1. /\ run[v].pc = "branch"
      /\ clone' = [clone EXCEPT ![v] = c] /\ run' = [run EXCEPT ![v] = r]
      /\ crossed' = IF (kept /\ Foreign(c, s)) \/ (s \notin m.have /\ HeadOf(m) # <<>>)
                    THEN crossed \cup {s} ELSE crossed
      /\ UNCHANGED <<origin, pushed, runs, accepted>>
  BY DEF Greenfield, Goto, OnDefault
<1>a. Usual \/ Odd
  BY DEF Greenfield, MayKeep, Fault
<1>2. /\ s \in Stories /\ s \in Branches /\ s # Main /\ Main \in Branches
      /\ run[v] \in Runs /\ run[v].at = 1 /\ ~run[v].again /\ ~run[v].strayed
  BY <1>1, AtVM, PathFacts, RunnerConstantsOK DEF Placed
<1>3. crossed \subseteq crossed' /\ crossed' \subseteq Branches
  BY <1>1, <1>2 DEF IInv
<1>4. Calm(b, crossed') /\ b \in Clones /\ (~kept => Uncommitted(b) = {})
  <2>1. Calm(b, crossed') /\ (~kept => Uncommitted(b) = {})
    BY <1>3, AtVM, CalmGrows, StashedCalm, StashedIs
  <2> QED BY <2>1 DEF Calm
<1> HIDE DEF b
<1>5. /\ Calm(m, crossed') /\ m \in Clones /\ m.on = Main
      /\ Uncommitted(m) \subseteq Uncommitted(b)
  BY <1>2, <1>4, CheckedOutCalm, CheckedOutIs
<1> HIDE DEF m
<1>6. HeadOf(m) \in Seq(Commits) /\ (s \in m.have \/ FairBranch(s, HeadOf(m), crossed'))
  <2>1. HeadOf(m) \in Seq(Commits) /\ FairBranch(Main, HeadOf(m), crossed')
    BY <1>2, <1>5, HeadType DEF Calm, FairClone, HeadOf
  <2>2. CASE s \notin m.have /\ HeadOf(m) # <<>>
    <3>1. s \in crossed'
      BY <1>1, <2>2
    <3> QED BY <2>1, <3>1, MainLends
  <2> QED BY <2>1, <2>2, EmptyFair
<1>7. Calm(c, crossed') /\ c.on = s /\ Uncommitted(c) \subseteq Uncommitted(m)
  BY <1>2, <1>5, <1>6, MadeFromIs
<1> HIDE DEF c
<1>8. Fits(c, s, crossed')
  BY <1>1, <1>2, <1>4, <1>5, <1>7 DEF Fits, Foreign
<1>9. /\ r \in Runs /\ r.pc = "sync" /\ r.story = s /\ r.at = 1
      /\ ~r.again /\ ~r.strayed
  BY <1>2 DEF Runs
<1> HIDE DEF r
<1>10. GoodVM(r, c, crossed')
  BY <1>2, <1>7, <1>8, <1>9 DEF GoodVM, Placed, InLoop
<1> QED BY <1>1, <1>a, <1>3, <1>10, StillOrigin, StillAccepted, StillRuns, VMKeeps

LEMMA SyncKeeps ==
  ASSUME IInv, NEW v \in VMs, Sync(v)
  PROVE  IInv'
<1> DEFINE s == run[v].story
           c == clone[v]
           d(left) == [c EXCEPT !.branch[s] = origin[s], !.work = Tree(origin[s]) \cup left,
                                !.noted = FALSE]
<1>1. /\ run[v].pc = "sync" /\ (Usual \/ Odd)
      /\ SetUp(v, c) \/ \E left \in SUBSET Uncommitted(c) : SetUp(v, d(left))
      /\ UNCHANGED <<origin, pushed, runs, accepted, crossed>>
  BY DEF Sync, Fault
<1>2. /\ s \in Stories /\ s \in Branches /\ s # Main
      /\ Calm(c, crossed) /\ c \in Clones /\ c.on = s /\ Fits(c, s, crossed)
  BY <1>1, AtVM, RunnerConstantsOK DEF Placed
<1>3. crossed \subseteq crossed' /\ crossed' \subseteq Branches
  BY <1>1 DEF IInv
<1>4. Calm(c, crossed') /\ Fits(c, c.on, crossed')
  BY <1>1, <1>2
<1>5. CASE SetUp(v, c)
  BY <1>1, <1>2, <1>3, <1>4, <1>5, SetUpKeeps
<1>6. ASSUME NEW left \in SUBSET Uncommitted(c), SetUp(v, d(left))
      PROVE  IInv'
  <2> DEFINE f == [c.branch EXCEPT ![s] = origin[s]]
             w == Tree(origin[s]) \cup left
  <2>1. origin[s] \in Seq(Commits) /\ FairBranch(s, origin[s], crossed')
    BY <1>1, <1>2 DEF IInv, GoodOrigin
  <2>2. w \in SUBSET File /\ f \in [Branches -> Seq(Commits)] /\ f[s] = origin[s]
    BY <1>2, <2>1, TreeType, HeadType DEF Uncommitted, Clones
  <2>3. d(left) = [c EXCEPT !.branch = f, !.work = w, !.noted = FALSE]
    BY <1>2 DEF Clones
  <2>4. \A b \in Branches : FairBranch(b, f[b], crossed')
    BY <1>2, <1>4, <2>1 DEF Calm, FairClone, Clones
  <2> HIDE DEF f, d
  <2>5. /\ d(left) \in Clones /\ d(left).on = s /\ d(left).have = c.have /\ d(left).branch = f
        /\ d(left).work = w /\ d(left).loose = c.loose
    BY <1>2, <2>2, <2>3 DEF Clones
  <2>6. Uncommitted(d(left)) \subseteq Uncommitted(c)
    BY <2>2, <2>5 DEF Uncommitted, HeadOf
  <2>7. Calm(d(left), crossed')
    BY <1>2, <1>4, <2>4, <2>5, <2>6 DEF Calm, FairClone, Saved
  <2>8. Fits(d(left), d(left).on, crossed')
    BY <1>2, <1>4, <2>5, <2>6 DEF Fits
  <2> QED BY <1>1, <1>3, <1>6, <2>5, <2>7, <2>8, SetUpKeeps
<1> QED BY <1>1, <1>5, <1>6

LEMMA BranchFailsKeeps ==
  ASSUME IInv, NEW v \in VMs, BranchFails(v)
  PROVE  IInv'
<1>1. Calm(clone[v], crossed) /\ Main \in Branches
  BY AtVM, PathFacts
<1>2. PICK d : /\ clone' = [clone EXCEPT ![v] = d]
               /\ \/ d = clone[v] \/ d = Stashed(clone[v])
                  \/ \E kept \in BOOLEAN : d = OnDefault(v, kept)
  <2>1. PICK d \in {clone[v], Stashed(clone[v])} \cup
                   (IF run[v].story \in pushed \cup {clone[v].on} THEN {}
                    ELSE {OnDefault(v, clone[v].on = Main)}) :
          clone' = [clone EXCEPT ![v] = d]
    BY DEF BranchFails
  <2> QED BY <2>1
<1>3. Calm(d, crossed)
  BY <1>1, <1>2, StashedCalm, CheckedOutCalm DEF OnDefault
<1>4. EndRun(v) /\ UNCHANGED <<origin, pushed, runs, accepted, crossed>> /\ Odd
  BY DEF BranchFails, Fault
<1>5. crossed' \subseteq Branches /\ crossed \subseteq crossed' /\ Calm(d, crossed')
  BY <1>3, <1>4 DEF IInv
<1> QED BY <1>2, <1>4, <1>5, StillOrigin, StillAccepted, EndKeeps

-----------------------------------------------------------------------------
(* The session and the save.                                               *)

\* A run keeps its place when its clone loses at most questions and commits.
LEMMA PlacedKeeps ==
  ASSUME NEW X, NEW r, NEW c, Placed(r, c, X), NEW d, d.on = c.on,
         c.work \ (Stories \X {Question}) \subseteq d.work,
         HeadOf(c) # <<>> => HeadOf(d) # <<>>,
         Fits(c, r.story, X) => Fits(d, r.story, X)
  PROVE  Placed(r, d, X)
<1>1. ASSUME r.pc \in InLoop, Passed(r, c) PROVE Passed(r, d)
  <2> SUFFICES ASSUME NEW j \in 1..(r.at - 1)
               PROVE  IF Path[j] = Impl THEN SkippedIn(r, Impl) \/ r.uncounted \/ HeadOf(d) # <<>>
                      ELSE SkippedIn(r, Path[j]) \/ <<r.story, Path[j]>> \in d.work
    BY DEF Passed
  <2>1. r.at \in 1..(Len(Path) + 1)
    BY DEF Placed, Runs
  <2>2. j \in 1..Len(Path) /\ Path[j] # Question
    BY <2>1, PathFacts
  <2> QED BY <1>1, <2>2 DEF Passed
<1> QED BY <1>1 DEF Placed

\* What a session writes.
LEMMA WroteCalm ==
  ASSUME NEW X, NEW c, Calm(c, X), NEW s \in Stories, NEW wrote \in SUBSET (Phases \cup {Question}),
         NEW d, d = Wrote(c, s, wrote)
  PROVE  /\ Calm(d, X) /\ d.on = c.on /\ HeadOf(d) = HeadOf(c) /\ c.work \subseteq d.work
         /\ Fits(c, s, X) => Fits(d, s, X)
<1> DEFINE w == c.work \cup ({s} \X wrote)
           y == c.loose \/ wrote # {}
<1>1. c \in Clones /\ w \in SUBSET File /\ y \in BOOLEAN
  BY HeadType DEF Calm, File
<1>2. {s} \X wrote \subseteq Files(s)
  BY DEF Files, File
<1>3. d = [c EXCEPT !.work = w, !.loose = y]
  BY <1>1 DEF Clones, Wrote
<1>4. y = FALSE => c.loose = FALSE /\ wrote = {}
  BY <1>1 DEF Clones
<1> HIDE DEF y
<1>5. /\ d \in Clones /\ d.on = c.on /\ d.have = c.have /\ d.branch = c.branch
      /\ d.work = w /\ d.loose = y
  BY <1>1, <1>3 DEF Clones
<1>6. HeadOf(d) = HeadOf(c) /\ Uncommitted(d) \subseteq Uncommitted(c) \cup ({s} \X wrote)
  BY <1>5 DEF Uncommitted, HeadOf
<1>7. Saved(d)
  <2>1. CASE d.loose
    BY <2>1 DEF Saved
  <2>2. CASE ~d.loose
    <3>1. y = FALSE
      BY <1>1, <1>5, <2>2
    <3>2. wrote = {} /\ ~c.loose
      BY <1>4, <3>1
    <3> QED BY <1>6, <3>2 DEF Saved, Calm
  <2> QED BY <2>1, <2>2
<1> QED BY <1>2, <1>5, <1>6, <1>7 DEF Calm, FairClone, Fits

\* The phases passed over on the way to the next one, or to the path's end.
LEMMA NextPassed ==
  ASSUME IInv, NEW v \in VMs, run[v].pc = "loop", NEW k \in Nat, IsNext(v, k),
         NEW r, r.at = k, r.story = run[v].story, r.uncounted = run[v].uncounted,
         \A p : SkippedIn(r, p) <=> Skipped(v, p),
         NEW d, clone[v].work \subseteq d.work, HeadOf(d) = HeadOf(clone[v])
  PROVE  /\ run[v].strayed \/ Passed(r, d)
         /\ run[v].again => k = run[v].at /\ k <= Len(Path)
         /\ k >= run[v].at
<1>1. /\ run[v].at \in Nat /\ run[v].at >= 1 /\ k >= run[v].at /\ k <= Len(Path) + 1
      /\ run[v].strayed \/ Passed(run[v], clone[v])
      /\ run[v].again => run[v].at <= Len(Path) /\ Path[run[v].at] = Impl
                         /\ ~Skipped(v, Impl)
      /\ \A j \in run[v].at..(k - 1) : Delivered(v, Path[j]) \/ Skipped(v, Path[j])
  BY AtVM, PathFacts DEF IsNext, Placed, InLoop, SkippedIn, Skipped
<1>2. ASSUME Passed(run[v], clone[v]) PROVE Passed(r, d)
  <2> SUFFICES ASSUME NEW j \in 1..(r.at - 1)
               PROVE  IF Path[j] = Impl THEN SkippedIn(r, Impl) \/ r.uncounted \/ HeadOf(d) # <<>>
                      ELSE SkippedIn(r, Path[j]) \/ <<r.story, Path[j]>> \in d.work
    BY DEF Passed
  <2>1. CASE j < run[v].at
    <3>1. j \in 1..(run[v].at - 1)
      BY <1>1, <2>1
    <3>2. IF Path[j] = Impl
          THEN Skipped(v, Impl) \/ run[v].uncounted \/ HeadOf(clone[v]) # <<>>
          ELSE Skipped(v, Path[j]) \/ <<run[v].story, Path[j]>> \in clone[v].work
      BY <1>2, <3>1 DEF Passed, Skipped, SkippedIn
    <3> QED BY <3>2
  <2>2. CASE j >= run[v].at
    <3>1. j \in run[v].at..(k - 1)
      BY <1>1, <2>2
    <3> QED BY <1>1, <3>1 DEF Delivered
  <2> QED BY <1>1, <2>1, <2>2
<1>3. ASSUME run[v].again PROVE k = run[v].at
  <2>1. CASE k > run[v].at
    <3>1. run[v].at \in run[v].at..(k - 1)
      BY <1>1, <2>1
    <3> QED BY <1>1, <1>3, <3>1 DEF Delivered
  <2> QED BY <1>1, <2>1
<1> QED BY <1>1, <1>2, <1>3

LEMMA SessionKeeps ==
  ASSUME IInv, NEW v \in VMs, NEW k \in 1..Len(Path), NEW wrote \in SUBSET (Phases \cup {Question}),
         Session(v, k, wrote)
  PROVE  IInv'
<1> DEFINE s == run[v].story
           c == clone[v]
           d == Wrote(c, s, wrote)
           y == Question \in wrote
           r == [run[v] EXCEPT !.pc = "session", !.at = k, !.asked = y]
<1>1. /\ run[v].pc = "loop" /\ IsNext(v, k) /\ k <= Len(Path)
      /\ clone' = [clone EXCEPT ![v] = d] /\ run' = [run EXCEPT ![v] = r]
      /\ UNCHANGED <<origin, pushed, runs, accepted, crossed>> /\ (Usual \/ Odd)
  BY DEF Session
<1>2. /\ s \in Stories /\ Calm(c, crossed) /\ run[v] \in Runs /\ Placed(run[v], c, crossed)
      /\ k \in Nat /\ k \in 1..(Len(Path) + 1)
  BY <1>1, AtVM, PathFacts
<1>3. /\ Calm(d, crossed) /\ d.on = c.on /\ HeadOf(d) = HeadOf(c) /\ c.work \subseteq d.work
      /\ Fits(c, s, crossed) => Fits(d, s, crossed)
  BY <1>2, WroteCalm
<1> HIDE DEF d
<1>a. y \in BOOLEAN
  OBVIOUS
<1> HIDE DEF y
<1>4. /\ r \in Runs /\ r.pc = "session" /\ r.at = k /\ r.story = s
      /\ r.declared = run[v].declared /\ r.again = run[v].again
      /\ r.uncounted = run[v].uncounted /\ r.strayed = run[v].strayed
  BY <1>2, <1>a DEF Runs
<1> HIDE DEF r
<1>5. \A p : SkippedIn(r, p) <=> Skipped(v, p)
  BY <1>4 DEF SkippedIn, Skipped
<1>6. /\ r.strayed \/ Passed(r, d)
      /\ r.again => k = run[v].at /\ k <= Len(Path)
  BY <1>1, <1>2, <1>3, <1>4, <1>5, NextPassed
<1>7. ~SkippedIn(r, Path[k]) /\ (r.again => Path[k] = Impl)
  BY <1>1, <1>2, <1>4, <1>5, <1>6 DEF IsNext, Placed, InLoop
<1>8. Placed(r, d, crossed)
  BY <1>1, <1>2, <1>3, <1>4, <1>6, <1>7 DEF Placed, InLoop
<1>9. GoodVM(r, d, crossed') /\ crossed \subseteq crossed' /\ crossed' \subseteq Branches
  BY <1>1, <1>3, <1>8 DEF GoodVM, IInv
<1> QED BY <1>1, <1>9, StillOrigin, StillAccepted, StillRuns, VMKeeps

\* A run that is in its place keeps it when more branches are crossed.
LEMMA PlacedGrows ==
  ASSUME NEW X, NEW Y, X \subseteq Y, NEW r, NEW c, Placed(r, c, X)
  PROVE  Placed(r, c, Y)
BY DEF Placed, Fits

LEMMA StillVM ==
  ASSUME IInv, NEW v \in VMs
  PROVE  /\ UNCHANGED clone => clone' = [clone EXCEPT ![v] = clone[v]]
         /\ UNCHANGED run => run' = [run EXCEPT ![v] = run[v]]
BY DEF IInv

LEMMA SessionCommitsKeeps ==
  ASSUME IInv, NEW v \in VMs, SessionCommits(v)
  PROVE  IInv'
<1> DEFINE s == run[v].story
           c == clone[v]
<1>1. PICK d \in StagedCommitted(c, v) : clone' = [clone EXCEPT ![v] = d]
  BY DEF SessionCommits
<1>2. /\ run[v].pc = "session" /\ Odd
      /\ crossed' = IF c.on # s THEN crossed \cup {c.on} ELSE crossed
      /\ UNCHANGED <<origin, pushed, run, runs, accepted>>
  BY DEF SessionCommits
<1>3. /\ s \in Stories /\ s # Main /\ Calm(c, crossed) /\ c \in Clones /\ c.on \in Branches
      /\ Placed(run[v], c, crossed) /\ Fits(c, s, crossed)
  BY <1>2, AtVM, HeadType, RunnerConstantsOK DEF Placed, InLoop
<1>4. crossed \subseteq crossed' /\ crossed' \subseteq Branches
  BY <1>2, <1>3 DEF IInv
<1>5. Calm(c, crossed') /\ Placed(run[v], c, crossed')
  BY <1>3, <1>4, CalmGrows, PlacedGrows
<1>6. Fits(c, c.on, crossed')
  BY <1>2, <1>3, <1>4 DEF Fits
<1>7. Calm(d, crossed')
  BY <1>1, <1>5, <1>6, StagedCalm
<1>8. /\ d.on = c.on /\ d.work = c.work /\ Uncommitted(d) \subseteq Uncommitted(c)
      /\ HeadOf(c) # <<>> => HeadOf(d) # <<>>
  BY <1>1, <1>3, StagedIs
<1>9. Placed(run[v], d, crossed')
  <2>1. Fits(c, s, crossed') => Fits(d, s, crossed')
    BY <1>8 DEF Fits
  <2> QED BY <1>5, <1>8, <2>1, PlacedKeeps
<1> QED BY <1>1, <1>2, <1>4, <1>7, <1>9, StillVM, StillOrigin, StillAccepted, StillRuns, VMKeeps
        DEF GoodVM

LEMMA SessionPushesKeeps ==
  ASSUME IInv, NEW v \in VMs, SessionPushes(v)
  PROVE  IInv'
<1> DEFINE c == clone[v]
<1>1. /\ c.on \in Stories /\ Push(HeadOf(c), c.on) /\ Odd
      /\ UNCHANGED <<clone, run, runs, accepted, crossed>>
  BY DEF SessionPushes
<1>2. /\ Calm(c, crossed) /\ Placed(run[v], c, crossed) /\ c \in Clones
      /\ crossed \subseteq crossed' /\ crossed' \subseteq Branches
  BY <1>1, AtVM DEF IInv
<1>3. HeadOf(c) \in Seq(Commits) /\ FairBranch(c.on, HeadOf(c), crossed')
  BY <1>1, <1>2, HeadType DEF Calm, FairClone, HeadOf
<1>4. GoodOrigin' /\ GoodAccepted'
  BY <1>1, <1>2, <1>3, PushKeeps
<1>5. GoodVM(run[v], c, crossed')
  BY <1>1, <1>2 DEF GoodVM
<1> QED BY <1>1, <1>2, <1>4, <1>5, StillVM, StillRuns, VMKeeps

LEMMA SessionStraysKeeps ==
  ASSUME IInv, NEW v \in VMs, NEW b \in Branches, SessionStrays(v, b)
  PROVE  IInv'
<1> DEFINE s == run[v].story
           c == clone[v]
           d == CheckedOut(c, b)
           r == [run[v] EXCEPT !.strayed = TRUE]
<1>1. /\ run[v].pc = "session" /\ Odd
      /\ clone' = [clone EXCEPT ![v] = d] /\ run' = [run EXCEPT ![v] = r]
      /\ UNCHANGED <<origin, pushed, runs, accepted, crossed>>
  BY DEF SessionStrays, Fault
<1>2. /\ s \in Stories /\ Calm(c, crossed) /\ c \in Clones /\ run[v] \in Runs
      /\ Placed(run[v], c, crossed) /\ Fits(c, s, crossed)
      /\ crossed \subseteq crossed' /\ crossed' \subseteq Branches
  BY <1>1, AtVM DEF Placed, InLoop, IInv
<1>3. Calm(d, crossed) /\ Uncommitted(d) \subseteq Uncommitted(c)
  BY <1>2, CheckedOutCalm, CheckedOutIs
<1> HIDE DEF d
<1>4. /\ r \in Runs /\ r.pc = "session" /\ r.at = run[v].at /\ r.story = s
      /\ r.declared = run[v].declared /\ r.again = run[v].again /\ r.strayed
  BY <1>1, <1>2 DEF Runs
<1> HIDE DEF r
<1>5. Placed(r, d, crossed)
  BY <1>1, <1>2, <1>3, <1>4 DEF Placed, InLoop, Fits, SkippedIn
<1>6. GoodVM(r, d, crossed')
  BY <1>1, <1>3, <1>5 DEF GoodVM
<1> QED BY <1>1, <1>2, <1>6, StillOrigin, StillAccepted, StillRuns, VMKeeps


\* A clone with nothing but questions left to commit.
LEMMA TightCalm ==
  ASSUME NEW X, NEW c, Calm(c, X), Uncommitted(c) \subseteq Stories \X {Question},
         NEW d, d = [c EXCEPT !.loose = FALSE]
  PROVE  /\ Calm(d, X) /\ d.on = c.on /\ d.work = c.work /\ HeadOf(d) = HeadOf(c)
         /\ Uncommitted(d) = Uncommitted(c)
<1>1. /\ d \in Clones /\ d.on = c.on /\ d.have = c.have /\ d.branch = c.branch
      /\ d.work = c.work
  BY DEF Calm, Clones
<1>2. HeadOf(d) = HeadOf(c) /\ Uncommitted(d) = Uncommitted(c)
  BY <1>1 DEF Uncommitted, HeadOf
<1> QED BY <1>1, <1>2 DEF Calm, FairClone, Saved

\* The save leaves nothing to commit.
LEMMA CommittedCalm ==
  ASSUME NEW X, NEW c, Calm(c, X), Fits(c, c.on, X), NEW v \in VMs, NEW d, d = Committed(c, v)
  PROVE  /\ Calm(d, X) /\ d.on = c.on /\ d.work = c.work /\ Uncommitted(d) = {}
         /\ HeadOf(d) \in Seq(Commits) /\ HeadOf(d) # <<>>
         /\ FairBranch(c.on, HeadOf(d), X)
<1>1. c \in Clones /\ c.work \in SUBSET File /\ c.work \in SUBSET (Tree(HeadOf(c)) \cup c.work)
  BY HeadType DEF Calm
<1>2. IsCommit(d, c, v, c.work)
  BY DEF IsCommit, Committed
<1>3. /\ d \in Clones /\ d.on = c.on /\ d.have = c.have /\ d.work = c.work
      /\ HeadOf(d) # <<>> /\ Tree(HeadOf(d)) = c.work
  BY <1>1, <1>2, CommittedAsIs
<1>4. FairClone(d, X) /\ FairBranch(c.on, HeadOf(d), X)
  BY <1>1, <1>2, CommitFair DEF Calm
<1>5. Uncommitted(d) = {}
  BY <1>3 DEF Uncommitted
<1> QED BY <1>3, <1>4, <1>5, HeadType DEF Calm, Saved

LEMMA SessionEndsKeeps ==
  ASSUME IInv, NEW v \in VMs, SessionEnds(v)
  PROVE  IInv'
<1> DEFINE s == run[v].story
           c == clone[v]
           e == Committed(c, v)
           r == [run[v] EXCEPT !.pc = "check"]
           tight(d) == [d EXCEPT !.loose = FALSE]
<1>1. /\ run[v].pc = "session" /\ run' = [run EXCEPT ![v] = r]
      /\ UNCHANGED <<runs, accepted, crossed>>
      /\ \/ /\ ~Dirty(c) /\ Usual /\ clone' = [clone EXCEPT ![v] = tight(c)]
            /\ UNCHANGED <<origin, pushed>>
         \/ /\ OnStory(v) /\ clone' = [clone EXCEPT ![v] = tight(e)]
            /\ TryPush(HeadOf(e), s)
         \/ (Usual \/ Odd) /\ UNCHANGED <<origin, pushed, clone>>
  BY DEF SessionEnds, Goto, Fault
<1>2. /\ s \in Stories /\ Calm(c, crossed) /\ c \in Clones /\ run[v] \in Runs
      /\ Placed(run[v], c, crossed) /\ Fits(c, s, crossed)
      /\ crossed \subseteq crossed' /\ crossed' \subseteq Branches /\ crossed' = crossed
  BY <1>1, AtVM DEF Placed, InLoop, IInv
<1>3. /\ r \in Runs /\ r.pc = "check" /\ r.at = run[v].at /\ r.story = s
      /\ r.declared = run[v].declared /\ r.again = run[v].again /\ r.strayed = run[v].strayed
      /\ r.uncounted = run[v].uncounted
  BY <1>2 DEF Runs
<1> HIDE DEF r
<1>4. ASSUME NEW d, Placed(run[v], d, crossed) PROVE Placed(r, d, crossed)
  BY <1>1, <1>3, <1>4 DEF Placed, InLoop, SkippedIn, Passed
<1>5. CASE /\ ~Dirty(c) /\ Usual /\ clone' = [clone EXCEPT ![v] = tight(c)]
           /\ UNCHANGED <<origin, pushed>>
  <2>1. Uncommitted(c) = {}
    BY <1>5 DEF Dirty, Uncommitted
  <2>2. PICK d : d = tight(c)
    OBVIOUS
  <2>a. clone' = [clone EXCEPT ![v] = d] /\ d = [c EXCEPT !.loose = FALSE]
    BY <1>5, <2>2
  <2> HIDE DEF tight
  <2>3. /\ Calm(d, crossed) /\ d.on = c.on /\ d.work = c.work /\ HeadOf(d) = HeadOf(c)
        /\ Uncommitted(d) = Uncommitted(c)
    BY <1>2, <2>1, <2>a, TightCalm
  <2>4. Placed(run[v], d, crossed)
    <3>1. Fits(c, s, crossed) => Fits(d, s, crossed)
      BY <2>3 DEF Fits
    <3> QED BY <1>2, <2>3, <3>1, PlacedKeeps
  <2>5. GoodVM(r, d, crossed')
    BY <1>2, <1>4, <2>3, <2>4 DEF GoodVM
  <2> QED BY <1>1, <1>2, <1>5, <2>a, <2>5, StillOrigin, StillAccepted, StillRuns, VMKeeps
<1>6. CASE /\ OnStory(v) /\ clone' = [clone EXCEPT ![v] = tight(e)]
           /\ TryPush(HeadOf(e), s)
  <2>0. c.on = s
    BY <1>6 DEF OnStory
  <2>1. /\ Calm(e, crossed) /\ e.on = c.on /\ e.work = c.work /\ Uncommitted(e) = {}
        /\ HeadOf(e) \in Seq(Commits) /\ HeadOf(e) # <<>>
        /\ FairBranch(s, HeadOf(e), crossed)
    BY <1>2, <2>0, CommittedCalm
  <2>2. PICK d : d = tight(e)
    OBVIOUS
  <2>a. clone' = [clone EXCEPT ![v] = d] /\ d = [e EXCEPT !.loose = FALSE]
    BY <1>6, <2>2
  <2> HIDE DEF tight, e
  <2>3. /\ Calm(d, crossed) /\ d.on = e.on /\ d.work = e.work /\ HeadOf(d) = HeadOf(e)
        /\ Uncommitted(d) = Uncommitted(e)
    BY <2>1, <2>a, TightCalm
  <2>4. Placed(run[v], d, crossed)
    <3>1. Fits(c, s, crossed) => Fits(d, s, crossed)
      BY <2>1, <2>3 DEF Fits
    <3> QED BY <1>2, <2>1, <2>3, <3>1, PlacedKeeps
  <2>5. GoodVM(r, d, crossed')
    BY <1>2, <1>4, <2>3, <2>4 DEF GoodVM
  <2>6. TryPush(HeadOf(e), s) /\ UNCHANGED accepted /\ FairBranch(s, HeadOf(e), crossed')
    BY <1>1, <1>2, <1>6, <2>1
  <2>7. GoodOrigin' /\ GoodAccepted' /\ (Usual \/ Odd)
    BY <1>2, <2>1, <2>6, PushKeeps
  <2> QED BY <1>1, <1>2, <2>a, <2>5, <2>7, StillRuns, VMKeeps
<1>7. CASE (Usual \/ Odd) /\ UNCHANGED <<origin, pushed, clone>>
  <2>1. GoodVM(r, c, crossed')
    BY <1>2, <1>4 DEF GoodVM
  <2>2. clone' = [clone EXCEPT ![v] = c]
    BY <1>7, StillVM
  <2> QED BY <1>1, <1>2, <1>7, <2>1, <2>2, StillOrigin, StillAccepted, StillRuns, VMKeeps
<1> QED BY <1>1, <1>5, <1>6, <1>7

-----------------------------------------------------------------------------
(* The checks after a session.                                             *)

\* Branches that are crossed lend each other commits.
LEMMA CrossedLends ==
  ASSUME NEW X, NEW b \in X, NEW h, FairBranch(b, h, X), NEW s \in X
  PROVE  FairBranch(s, h, X)
BY DEF FairBranch, Fair

LEMMA AskKeeps ==
  ASSUME IInv, NEW v \in VMs, Ask(v)
  PROVE  IInv'
<1> DEFINE s == run[v].story
           c == clone[v]
           q == <<s, Question>>
<1>1. PICK d \in StagedCommitted(c, v), gone \in SUBSET {q} :
        /\ clone' = [clone EXCEPT ![v] = [d EXCEPT !.work = d.work \ gone]]
        /\ IF d = c THEN (Usual \/ Odd) /\ UNCHANGED <<origin, pushed, crossed>>
           ELSE /\ TryPush(HeadOf(d), s)
                /\ crossed' = IF c.on # s THEN crossed \cup {s, c.on} ELSE crossed
  BY DEF Ask, Fault
<1>2. run[v].pc = "check" /\ EndRun(v) /\ UNCHANGED <<runs, accepted>>
  BY DEF Ask, Judged
<1>3. /\ s \in Stories /\ s \in Branches /\ Calm(c, crossed) /\ c \in Clones /\ c.on \in Branches
      /\ Fits(c, s, crossed)
  BY <1>2, AtVM, HeadType DEF Placed, InLoop
<1>4. crossed \subseteq crossed' /\ crossed' \subseteq Branches
  BY <1>1, <1>3 DEF IInv
<1>5. Calm(c, crossed')
  BY <1>3, <1>4, CalmGrows
<1>6. d.on = c.on /\ d \in Clones
  BY <1>3, StagedIs
<1>7. Calm(d, crossed')
  <2>1. d.branch = c.branch \/ Fits(c, c.on, crossed')
    BY <1>1, <1>3, <1>4 DEF Fits
  <2> QED BY <1>5, <2>1, StagedCalm
<1>8. GoodOrigin' /\ GoodAccepted' /\ (Usual \/ Odd)
  <2>1. CASE d = c
    BY <1>1, <1>2, <1>4, <2>1, StillOrigin, StillAccepted
  <2>2. CASE d # c
    <3>1. FairBranch(c.on, HeadOf(d), crossed') /\ HeadOf(d) \in Seq(Commits)
      BY <1>3, <1>6, <1>7, HeadType DEF Calm, FairClone, HeadOf
    <3>2. FairBranch(s, HeadOf(d), crossed')
      BY <1>1, <2>2, <3>1, CrossedLends
    <3>3. TryPush(HeadOf(d), s) /\ UNCHANGED accepted
      BY <1>1, <1>2, <2>2
    <3> QED BY <1>3, <1>4, <3>1, <3>2, <3>3, PushKeeps
  <2> QED BY <2>1, <2>2
<1>9. Calm([d EXCEPT !.work = d.work \ gone], crossed')
  BY <1>7, WorkCalm
<1> QED BY <1>1, <1>2, <1>4, <1>8, <1>9, EndKeeps

\* The clone after the check for questions.
LEMMA CheckedKeeps ==
  ASSUME IInv, NEW v \in VMs, run[v].pc = "check", NEW d, d = Checked(v)
  PROVE  /\ Calm(d, crossed) /\ d.on = clone[v].on /\ HeadOf(d) = HeadOf(clone[v])
         /\ Placed(run[v], d, crossed)
         /\ clone[v].work \ (Stories \X {Question}) \subseteq d.work
<1> DEFINE c == clone[v]
           w == c.work \ {<<run[v].story, Question>>}
<1>1. /\ Calm(c, crossed) /\ c \in Clones /\ run[v].story \in Stories
      /\ Placed(run[v], c, crossed) /\ c.work \in SUBSET File
  BY AtVM, HeadType
<1>2. d = [c EXCEPT !.work = w] /\ w \in SUBSET c.work /\ w \in SUBSET File
  BY <1>1 DEF Checked
<1>3. d.on = c.on /\ d.work = w /\ HeadOf(d) = HeadOf(c)
  BY <1>1, <1>2, WorkIs
<1>4. Calm(d, crossed) /\ Uncommitted(d) \subseteq Uncommitted(c)
  <2>1. w \in SUBSET c.work /\ Calm(c, crossed) /\ d = [c EXCEPT !.work = w]
    BY <1>1, <1>2
  <2> HIDE DEF w, c
  <2> QED BY <2>1, WorkCalm
<1>5. c.work \ (Stories \X {Question}) \subseteq d.work
  BY <1>1, <1>3
<1>6. Fits(c, run[v].story, crossed) => Fits(d, run[v].story, crossed)
  BY <1>4 DEF Fits
<1> QED BY <1>1, <1>3, <1>4, <1>5, <1>6, PlacedKeeps

\* A step of v that ends its run, or not, and touches neither GitHub nor the console.
LEMMA QuietKeeps ==
  ASSUME IInv, NEW v \in VMs, NEW d, NEW r, Calm(d, crossed), Placed(r, d, crossed),
         clone' = [clone EXCEPT ![v] = d], run' = [run EXCEPT ![v] = r],
         UNCHANGED <<origin, pushed, runs, accepted, crossed>>, Usual \/ Odd
  PROVE  IInv'
<1>1. GoodVM(r, d, crossed') /\ crossed \subseteq crossed' /\ crossed' \subseteq Branches
  BY DEF GoodVM, IInv
<1> QED BY <1>1, StillOrigin, StillAccepted, StillRuns, VMKeeps

LEMMA PhaseFailsKeeps ==
  ASSUME IInv, NEW v \in VMs, PhaseFails(v)
  PROVE  IInv'
<1>1. /\ run[v].pc = "check" /\ clone' = [clone EXCEPT ![v] = Checked(v)]
      /\ run' = [run EXCEPT ![v] = IdleRun] /\ Odd
      /\ UNCHANGED <<origin, pushed, runs, accepted, crossed>>
  BY DEF PhaseFails, Judged, Fault, EndRun
<1> QED BY <1>1, CheckedKeeps, IdlePlaced, QuietKeeps

LEMMA NoDeliverableKeeps ==
  ASSUME IInv, NEW v \in VMs, NoDeliverable(v)
  PROVE  IInv'
<1> DEFINE c == clone[v]
           q == <<run[v].story, Question>>
           w == c.work \cup {q}
           d == [c EXCEPT !.work = w]
<1>1. /\ run[v].pc = "check" /\ run' = [run EXCEPT ![v] = IdleRun] /\ Usual
      /\ clone' = [clone EXCEPT ![v] = d]
      /\ UNCHANGED <<origin, pushed, runs, accepted, crossed>>
  BY DEF NoDeliverable, Judged, Usual, EndRun
<1>2. Calm(c, crossed) /\ c \in Clones /\ q \in Stories \X {Question} /\ w \in SUBSET File
  <2>1. run[v].story \in Stories /\ c \in Clones /\ Calm(c, crossed)
    BY <1>1, AtVM
  <2> QED BY <2>1, HeadType DEF File
<1>3. /\ d \in Clones /\ d.on = c.on /\ d.have = c.have /\ d.branch = c.branch
      /\ d.loose = c.loose /\ Uncommitted(d) = w \ Tree(HeadOf(c))
  BY <1>2, WorkIs
<1> HIDE DEF d
<1>4. Uncommitted(d) \subseteq Uncommitted(c) \cup {q}
  BY <1>3 DEF Uncommitted
<1>5. Calm(d, crossed)
  BY <1>2, <1>3, <1>4 DEF Calm, FairClone, Saved
<1> QED BY <1>1, <1>5, IdlePlaced, QuietKeeps

LEMMA SilentAgainKeeps ==
  ASSUME IInv, NEW v \in VMs, SilentAgain(v)
  PROVE  IInv'
<1>1. /\ run' = [run EXCEPT ![v] = IdleRun] /\ (Usual \/ Odd)
      /\ UNCHANGED <<origin, pushed, clone, runs, accepted, crossed>>
  BY DEF SilentAgain, NoneCounted, Fault, EndRun
<1>2. clone' = [clone EXCEPT ![v] = clone[v]]
  BY <1>1, StillVM
<1> QED BY <1>1, <1>2, AtVM, IdlePlaced, QuietKeeps

LEMMA RetryImplKeeps ==
  ASSUME IInv, NEW v \in VMs, RetryImpl(v)
  PROVE  IInv'
<1> DEFINE r == [run[v] EXCEPT !.pc = "loop", !.again = TRUE]
<1>1. /\ run[v].pc = "check" /\ clone' = [clone EXCEPT ![v] = Checked(v)]
      /\ run' = [run EXCEPT ![v] = r] \/ run' = [run EXCEPT ![v] = IdleRun]
      /\ Phase(v) = Impl /\ (Usual \/ Odd)
      /\ UNCHANGED <<origin, pushed, runs, accepted, crossed>>
  BY DEF RetryImpl, Judged, NoneCounted, Fault, EndRun
<1>2. PICK d : d = Checked(v)
  OBVIOUS
<1>3. Calm(d, crossed) /\ Placed(run[v], d, crossed) /\ run[v] \in Runs
  BY <1>1, <1>2, CheckedKeeps, AtVM
<1>4. /\ r \in Runs /\ r.pc = "loop" /\ r.at = run[v].at /\ r.story = run[v].story
      /\ r.declared = run[v].declared /\ r.strayed = run[v].strayed
      /\ r.uncounted = run[v].uncounted
  BY <1>3 DEF Runs
<1> HIDE DEF r
<1>5. Placed(r, d, crossed)
  BY <1>1, <1>3, <1>4 DEF Placed, InLoop, SkippedIn, Passed, Phase
<1> QED BY <1>1, <1>2, <1>3, <1>5, IdlePlaced, QuietKeeps

LEMMA PhaseDoneKeeps ==
  ASSUME IInv, NEW v \in VMs, NEW lost \in BOOLEAN, PhaseDone(v, lost)
  PROVE  IInv'
<1> DEFINE s == run[v].story
           b == IF run[v].again THEN clone[v] ELSE Checked(v)
           d == [b EXCEPT !.noted = TRUE]
           y == run[v].uncounted \/ lost
           n == run[v].at + 1
           r == [run[v] EXCEPT !.pc = "loop", !.at = n, !.again = FALSE, !.uncounted = y]
<1>1. /\ run[v].pc = "check" /\ Counted(v, lost)
      /\ run[v].again \/ ~Missing(v)
      /\ clone' = [clone EXCEPT ![v] = d]
      /\ run' = [run EXCEPT ![v] = r]
      /\ UNCHANGED <<origin, pushed, runs, accepted, crossed>>
  BY DEF PhaseDone
<1>2. /\ run[v] \in Runs /\ run[v].at \in Nat /\ run[v].at >= 1 /\ run[v].at <= Len(Path)
      /\ run[v].again => Path[run[v].at] = Impl
      /\ Path[run[v].at] # Question
      /\ s \in Stories
  <2>1. run[v] \in Runs /\ run[v].at \in Nat /\ run[v].at >= 1 /\ run[v].at <= Len(Path)
        /\ (run[v].again => Path[run[v].at] = Impl) /\ s \in Stories
    BY <1>1, AtVM DEF Placed, InLoop
  <2> QED BY <2>1, PathFacts
<1>3. /\ Calm(b, crossed) /\ Placed(run[v], b, crossed) /\ HeadOf(b) = HeadOf(clone[v])
      /\ clone[v].work \ (Stories \X {Question}) \subseteq b.work
  BY <1>1, AtVM, CheckedKeeps
<1> HIDE DEF b
<1>4. d \in Clones /\ d.on = b.on /\ d.have = b.have /\ d.branch = b.branch /\ d.work = b.work
      /\ d.loose = b.loose
  BY <1>3 DEF Calm, Clones
<1> HIDE DEF d
<1>5. HeadOf(d) = HeadOf(b) /\ Uncommitted(d) = Uncommitted(b)
  BY <1>4 DEF HeadOf, Uncommitted
<1>6. Calm(d, crossed)
  BY <1>3, <1>4, <1>5 DEF Calm, FairClone, Saved
<1>7. y \in BOOLEAN /\ (run[v].uncounted => y) /\ (lost => y)
  BY <1>2 DEF Runs
<1> HIDE DEF y
<1>8. n \in 1..(Len(Path) + 1) /\ n - 1 = run[v].at
  BY <1>2, PathFacts
<1> HIDE DEF n
<1>9. /\ r \in Runs /\ r.pc = "loop" /\ r.at = n /\ r.again = FALSE /\ r.uncounted = y
      /\ r.story = s /\ r.declared = run[v].declared /\ r.strayed = run[v].strayed
  BY <1>2, <1>7, <1>8 DEF Runs
<1> HIDE DEF r
<1>10. Phase(v) = Impl => y \/ HeadOf(clone[v]) # <<>>
  BY <1>1, <1>7 DEF Counted, Silent
<1>11. Phase(v) # Impl => <<s, Phase(v)>> \in d.work
  <2>1. Phase(v) # Impl => <<s, Phase(v)>> \in clone[v].work
    BY <1>1, <1>2 DEF Missing, Phase
  <2>2. <<s, Phase(v)>> \notin Stories \X {Question}
    BY <1>2 DEF Phase
  <2> QED BY <1>3, <1>4, <2>1, <2>2
<1>12. ASSUME ~r.strayed PROVE Passed(r, d)
  <2>1. Passed(run[v], b)
    BY <1>1, <1>3, <1>9, <1>12 DEF Placed, InLoop
  <2> SUFFICES ASSUME NEW j \in 1..(r.at - 1)
               PROVE  IF Path[j] = Impl THEN SkippedIn(r, Impl) \/ r.uncounted \/ HeadOf(d) # <<>>
                      ELSE SkippedIn(r, Path[j]) \/ <<r.story, Path[j]>> \in d.work
    BY DEF Passed
  <2>2. CASE j = run[v].at
    <3>1. Path[j] = Phase(v)
      BY <2>2 DEF Phase
    <3> QED BY <1>3, <1>5, <1>9, <1>10, <1>11, <3>1
  <2>3. CASE j # run[v].at
    <3>1. j \in 1..(run[v].at - 1)
      BY <1>2, <1>8, <1>9, <2>3
    <3>2. IF Path[j] = Impl
          THEN SkippedIn(run[v], Impl) \/ run[v].uncounted \/ HeadOf(b) # <<>>
          ELSE SkippedIn(run[v], Path[j]) \/ <<s, Path[j]>> \in b.work
      BY <2>1, <3>1 DEF Passed
    <3> QED BY <1>4, <1>5, <1>7, <1>9, <3>2 DEF SkippedIn
  <2> QED BY <2>2, <2>3
<1>13. Placed(r, d, crossed)
  <2>1. Fits(b, s, crossed) /\ (run[v].strayed \/ b.on = s)
    BY <1>1, <1>3 DEF Placed, InLoop
  <2>2. Fits(d, s, crossed)
    BY <1>5, <2>1 DEF Fits
  <2>3. r.strayed \/ (Passed(r, d) /\ d.on = s)
    BY <1>2, <1>4, <1>9, <1>12, <2>1 DEF Runs
  <2> QED BY <1>2, <1>9, <2>2, <2>3 DEF Placed, InLoop
<1>14. Usual \/ Odd
  BY <1>1 DEF Counted, Fault
<1> QED BY <1>1, <1>6, <1>13, <1>14, QuietKeeps


-----------------------------------------------------------------------------
(* Completion, crashes and answers.                                        *)

LEMMA FinishKeeps ==
  ASSUME IInv, NEW v \in VMs, Finish(v)
  PROVE  IInv'
<1> DEFINE s == run[v].story
           c == clone[v]
           n == Len(Path) + 1
           r == [run[v] EXCEPT !.pc = "report", !.at = n]
<1>1. /\ run[v].pc = "loop" /\ IsNext(v, n)
      /\ run' = [run EXCEPT ![v] = r]
      /\ IF c.on \in Stories THEN TryPush(HeadOf(c), c.on)
                             ELSE Usual /\ UNCHANGED <<origin, pushed>>
      /\ UNCHANGED <<clone, runs, accepted, crossed>>
  BY DEF Finish
<1>2. /\ s \in Stories /\ Calm(c, crossed) /\ c \in Clones /\ run[v] \in Runs
      /\ Placed(run[v], c, crossed) /\ n \in Nat /\ n \in 1..n
      /\ crossed' = crossed /\ crossed \subseteq Branches
  BY <1>1, AtVM, PathFacts DEF IInv
<1>3. ~(n <= Len(Path))
  BY PathFacts
<1> HIDE DEF n
<1>4. /\ r \in Runs /\ r.pc = "report" /\ r.at = n /\ r.story = s
      /\ r.declared = run[v].declared /\ r.again = run[v].again
      /\ r.uncounted = run[v].uncounted /\ r.strayed = run[v].strayed
  BY <1>2 DEF Runs, n
<1> HIDE DEF r
<1>5. \A p : SkippedIn(r, p) <=> Skipped(v, p)
  BY <1>4 DEF SkippedIn, Skipped
<1>6. /\ r.strayed \/ Passed(r, c)
      /\ r.again => n <= Len(Path)
  BY <1>1, <1>2, <1>4, <1>5, NextPassed
<1>7. Placed(r, c, crossed)
  BY <1>1, <1>2, <1>3, <1>4, <1>6 DEF Placed, InLoop, n
<1>8. GoodOrigin' /\ GoodAccepted' /\ (Usual \/ Odd)
  <2>1. CASE c.on \in Stories
    <3>1. HeadOf(c) \in Seq(Commits) /\ FairBranch(c.on, HeadOf(c), crossed')
      BY <1>2, HeadType DEF Calm, FairClone, HeadOf
    <3>2. TryPush(HeadOf(c), c.on) /\ UNCHANGED accepted /\ crossed \subseteq crossed'
      BY <1>1, <1>2, <2>1
    <3> QED BY <2>1, <3>1, <3>2, PushKeeps
  <2>2. CASE c.on \notin Stories
    BY <1>1, <1>2, <2>2, StillOrigin, StillAccepted
  <2> QED BY <2>1, <2>2
<1>9. GoodVM(r, c, crossed') /\ crossed \subseteq crossed' /\ crossed' \subseteq Branches
  BY <1>2, <1>7 DEF GoodVM
<1> QED BY <1>1, <1>8, <1>9, StillVM, StillRuns, VMKeeps

LEMMA GateFailsKeeps ==
  ASSUME IInv, NEW v \in VMs, GateFails(v)
  PROVE  IInv'
<1>1. /\ run' = [run EXCEPT ![v] = IdleRun] /\ Odd
      /\ UNCHANGED <<origin, pushed, clone, runs, accepted, crossed>>
  BY DEF GateFails, Fault, EndRun
<1>2. clone' = [clone EXCEPT ![v] = clone[v]]
  BY <1>1, StillVM
<1> QED BY <1>1, <1>2, AtVM, IdlePlaced, QuietKeeps

LEMMA CrashKeeps ==
  ASSUME IInv, NEW v \in VMs, Crash(v)
  PROVE  IInv'
<1>1. /\ run' = [run EXCEPT ![v] = IdleRun] /\ Odd
      /\ UNCHANGED <<origin, pushed, clone, runs, accepted, crossed>>
  BY DEF Crash, Fault, EndRun
<1>2. clone' = [clone EXCEPT ![v] = clone[v]]
  BY <1>1, StillVM
<1> QED BY <1>1, <1>2, AtVM, IdlePlaced, QuietKeeps

\* Commits of a story's branch that GitHub knows are on that branch: the first of
\* them was made there.
LEMMA OnOwnBranch ==
  ASSUME IInv, NEW X, crossed \subseteq X, NEW s \in Stories, s \notin X,
         NEW h \in Seq(Commits), FairBranch(s, h, X), CommitExists(h)
  PROVE  IsPrefix(h, origin[s])
<1>0. origin \in [Stories -> Seq(Commits)] /\ pushed \subseteq Stories
  BY DEF IInv, GoodOrigin
<1>1. CASE h = <<>>
  BY <1>0, <1>1, EmptyPrefix
<1>2. CASE h # <<>>
  <2>1. PICK t \in Stories : IsPrefix(h, origin[t])
    BY <1>0, <1>2 DEF CommitExists
  <2>2. origin[t] \in Seq(Commits) /\ FairBranch(t, origin[t], X)
    BY <1>0, FairGrows DEF IInv, GoodOrigin
  <2>3. 1 \in 1..Len(h) /\ 1 \in 1..Len(origin[t]) /\ h[1] = origin[t][1]
    <3>1. Len(h) \in Nat /\ Len(h) >= 1 /\ Len(origin[t]) \in Nat
      BY <1>2, <2>2, EmptySeq, LenProperties
    <3>2. Len(h) <= Len(origin[t]) /\ \A k \in 1..Len(h) : h[k] = origin[t][k]
      BY <2>1, <2>2, PrefixIs
    <3> QED BY <3>1, <3>2
  <2>4. Fair(s, h[1], X) /\ Fair(t, h[1], X)
    BY <2>2, <2>3 DEF FairBranch
  <2>5. t = s
    BY <2>4 DEF Fair
  <2> QED BY <2>1, <2>5
<1> QED BY <1>1, <1>2

\* Every phase of the path was passed before the report, phase 8 among them.
LEMMA CountedHead ==
  ASSUME IInv, NEW v \in VMs, run[v].pc = "report", HadToCount(v)
  PROVE  HeadOf(clone[v]) # <<>>
<1>1. Passed(run[v], clone[v]) /\ run[v].at = Len(Path) + 1
  BY AtVM DEF Placed, InLoop, HadToCount
<1>2. PICK j \in 1..Len(Path) : Path[j] = Impl
  BY DEF HadToCount, Phases
<1>3. j \in 1..(run[v].at - 1)
  BY <1>1, <1>2, PathFacts
<1> QED BY <1>1, <1>2, <1>3 DEF Passed, HadToCount, Skipped, SkippedIn

LEMMA ReportKeeps ==
  ASSUME IInv, NEW v \in VMs, Report(v)
  PROVE  IInv'
<1> DEFINE s == run[v].story
           c == clone[v]
           h == HeadOf(c)
           n == HadToCount(v)
<1>1. PICK seen \in SUBSET {"commit", "tree"} :
        /\ Sees(seen)
        /\ IF Acceptable(s, h, seen)
           THEN /\ accepted' = accepted \cup
                     {[story |-> s, head |-> h, counted |-> n, seen |-> seen]}
                /\ crossed' = IF c.on # s THEN crossed \cup {s} ELSE crossed
           ELSE UNCHANGED <<accepted, crossed>>
  BY DEF Report
<1>2. /\ run[v].pc = "report" /\ run' = [run EXCEPT ![v] = IdleRun]
      /\ UNCHANGED <<origin, pushed, clone, runs>>
  BY DEF Report, EndRun
<1>3. /\ s \in Stories /\ s \in Branches /\ Calm(c, crossed) /\ c \in Clones
      /\ h \in Seq(Commits)
  BY <1>2, AtVM, HeadType
<1>4. crossed \subseteq crossed' /\ crossed' \subseteq Branches
  BY <1>1, <1>3 DEF IInv
<1>5. Calm(c, crossed') /\ clone' = [clone EXCEPT ![v] = c]
  BY <1>2, <1>3, <1>4, CalmGrows, StillVM
<1>6. n => h # <<>>
  BY <1>2, CountedHead
<1>7. n \in BOOLEAN
  BY DEF HadToCount
<1>8. ASSUME Acceptable(s, h, seen), "commit" \in seen, s \notin crossed'
      PROVE  IsPrefix(h, origin[s])
  <2>1. c.on = s
    BY <1>1, <1>8
  <2>2. FairBranch(s, h, crossed')
    BY <1>3, <1>5, <2>1 DEF Calm, FairClone, HeadOf
  <2>3. CommitExists(h)
    BY <1>8 DEF Acceptable
  <2> QED BY <1>3, <1>4, <1>8, <2>2, <2>3, OnOwnBranch
<1> HIDE DEF n
<1>9. GoodAccepted'
  <2>1. CASE Acceptable(s, h, seen)
    <3> DEFINE a == [story |-> s, head |-> h, counted |-> n, seen |-> seen]
    <3>1. a \in Completions
      BY <1>3, <1>7 DEF Completions
    <3>2. a.story = s /\ a.head = h /\ a.seen = seen /\ (a.counted => n)
      OBVIOUS
    <3> HIDE DEF a, h
    <3>3. accepted' = accepted \cup {a} /\ accepted \subseteq Completions
      BY <1>1, <2>1 DEF a, IInv, GoodAccepted
    <3>4. \A b \in accepted' : b.counted => b.head # <<>>
      BY <1>6, <3>2, <3>3 DEF IInv, GoodAccepted, AcceptedHasCommits
    <3>5. \A b \in accepted' : "commit" \in b.seen /\ b.story \notin crossed'
            => IsPrefix(b.head, origin[b.story])
      BY <1>4, <1>8, <2>1, <3>2, <3>3 DEF IInv, GoodAccepted, AcceptedKept
    <3>6. accepted' \subseteq Completions
      BY <3>1, <3>3
    <3>7. UNCHANGED origin
      BY <1>2
    <3> QED BY <3>4, <3>5, <3>6, <3>7 DEF GoodAccepted, AcceptedHasCommits, AcceptedKept
  <2>2. CASE ~Acceptable(s, h, seen)
    BY <1>1, <1>2, <1>4, <2>2, StillAccepted
  <2> QED BY <2>1, <2>2
<1>10. Usual \/ Odd
  BY <1>1 DEF Sees, Fault
<1> QED BY <1>2, <1>4, <1>5, <1>9, <1>10, StillOrigin, EndKeeps DEF EndRun

\* An answer is a commit with the files the branch has.
LEMMA AnswerGrows ==
  ASSUME IInv, NEW s \in Stories, Answer(s)
  PROVE  /\ origin' = [origin EXCEPT ![s] = origin'[s]]
         /\ origin'[s] \in Seq(Commits)
         /\ IsPrefix(origin[s], origin'[s])
         /\ FairBranch(s, origin'[s], crossed)
<1> DEFINE e == [by |-> Operator, on |-> s, tree |-> Tree(origin[s])]
           h == Append(origin[s], e)
<1>1. origin \in [Stories -> Seq(Commits)] /\ origin[s] \in Seq(Commits)
      /\ FairBranch(s, origin[s], crossed)
  BY DEF IInv, GoodOrigin
<1>2. e \in Commits
  <2>1. Tree(origin[s]) \in SUBSET File /\ s \in Branches
    BY <1>1, TreeType, PathFacts
  <2> QED BY <2>1 DEF Commits
<1>3. Fair(s, e, crossed)
  <2>1. s \notin crossed => Tree(origin[s]) \subseteq OnMain \cup Files(s)
    BY <1>1, FairTree
  <2> QED BY <2>1, RunnerConstantsOK DEF Fair
<1>4. origin' = [origin EXCEPT ![s] = h] /\ origin'[s] = h
  BY <1>1 DEF Answer
<1> HIDE DEF e
<1>5. h \in Seq(Commits) /\ Len(h) = Len(origin[s]) + 1 /\ Len(origin[s]) \in Nat
      /\ \A k \in 1..Len(origin[s]) : origin[s][k] = h[k]
  BY <1>1, <1>2, AppendIs
<1>6. FairBranch(s, h, crossed)
  BY <1>1, <1>2, <1>3, AppendFair
<1> HIDE DEF h
<1>7. IsPrefix(origin[s], h)
  <2>1. Len(origin[s]) <= Len(h)
    BY <1>5
  <2> QED BY <1>1, <1>5, <2>1, PrefixIs
<1> QED BY <1>4, <1>5, <1>6, <1>7

LEMMA AllVMs ==
  ASSUME IInv, UNCHANGED <<clone, run, crossed>>
  PROVE  (\A v \in VMs : GoodVM(run[v], clone[v], crossed))'
<1>1. \A v \in VMs : GoodVM(run[v], clone[v], crossed)
  BY DEF IInv
<1> QED BY <1>1 DEF GoodVM, Calm, FairClone, FairBranch, Fair, Saved, Uncommitted, HeadOf, Placed,
                    Fits, Passed, SkippedIn

LEMMA AnswerKeeps ==
  ASSUME IInv, NEW s \in Stories, Answer(s)
  PROVE  IInv'
<1>1. UNCHANGED <<pushed, clone, run, runs, accepted, crossed>> /\ Odd
      /\ <<s, Question>> \in Tree(origin[s]) /\ Len(origin[s]) \in Nat
  BY LenProperties DEF Answer, IInv, GoodOrigin
<1>2. s \in pushed
  <2>1. origin[s][Len(origin[s])].by # Operator /\ <<s, Question>> \notin OnMain
    BY PathFacts, RunnerConstantsOK DEF Answer, Seed, Question
  <2>2. s \notin pushed => origin[s] = <<>>
    BY DEF IInv, GoodOrigin
  <2> QED BY <1>1, <2>1, <2>2 DEF Tree
<1>3. GoodOrigin' /\ GoodAccepted'
  <2>1. pushed' \subseteq Stories /\ pushed \cup {s} \subseteq pushed'
    BY <1>1, <1>2 DEF IInv, GoodOrigin
  <2>2. crossed \subseteq crossed' /\ UNCHANGED accepted /\ crossed' = crossed
    BY <1>1
  <2>3. PICK h \in Seq(Commits) : /\ origin' = [origin EXCEPT ![s] = h]
                                  /\ IsPrefix(origin[s], h) /\ FairBranch(s, h, crossed)
    BY AnswerGrows
  <2> QED BY <2>1, <2>2, <2>3, GrowKeeps
<1>4. (\A v \in VMs : GoodVM(run[v], clone[v], crossed))'
  BY <1>1, AllVMs
<1>5. odd' \in 0..MaxOdd
  BY <1>1, RunnerConstantsOK DEF IInv, Odd
<1> QED BY <1>1, <1>3, <1>4, <1>5, StillRuns DEF IInv


-----------------------------------------------------------------------------
(* The invariant holds.                                                    *)

LEMMA StutterKeeps ==
  ASSUME IInv, UNCHANGED vars
  PROVE  IInv'
<1>1. UNCHANGED <<origin, pushed, clone, run, runs, odd, accepted, crossed>>
  BY DEF vars
<1>2. (\A v \in VMs : GoodVM(run[v], clone[v], crossed))'
  BY <1>1, AllVMs
<1>3. GoodOrigin' /\ GoodAccepted' /\ RunsBound'
  BY <1>1, StillOrigin, StillAccepted, StillRuns
<1> QED BY <1>1, <1>2, <1>3 DEF IInv

LEMMA InvKept ==
  ASSUME IInv, [Next]_vars
  PROVE  IInv'
<1>1. ASSUME NEW v \in VMs, SetUpStep(v) PROVE IInv'
  BY <1>1, ResumeKeeps, GreenfieldKeeps, StayOnKeeps, SyncKeeps, BranchFailsKeeps DEF SetUpStep
<1>2. ASSUME NEW v \in VMs, SessionStep(v) PROVE IInv'
  BY <1>2, SessionKeeps, SessionCommitsKeeps, SessionPushesKeeps, SessionStraysKeeps,
     SessionEndsKeeps DEF SessionStep
<1>3. ASSUME NEW v \in VMs, CheckStep(v) PROVE IInv'
  BY <1>3, AskKeeps, PhaseFailsKeeps, NoDeliverableKeeps, RetryImplKeeps, SilentAgainKeeps,
     PhaseDoneKeeps DEF CheckStep
<1>4. ASSUME NEW v \in VMs,
             (\E s \in Stories : Start(v, s)) \/ Finish(v) \/ GateFails(v) \/ Report(v) \/ Crash(v)
      PROVE  IInv'
  BY <1>4, StartKeeps, FinishKeeps, GateFailsKeeps, ReportKeeps, CrashKeeps
<1>5. CASE Next
  BY <1>1, <1>2, <1>3, <1>4, <1>5, AnswerKeeps DEF Next
<1> QED BY <1>5, StutterKeeps

LEMMA InvHolds == Spec => []IInv
<1>1. Init => IInv
  BY InitInv
<1>2. IInv /\ [Next]_vars => IInv'
  BY InvKept
<1> QED BY <1>1, <1>2, PTL DEF Spec

\* The runs, the clones and the branches keep their types, the number of a story's
\* runs its bound, and the branch checked out in a clone is one the clone has.
THEOREM TypeCorrect == Spec => []TypeOK
<1>1. IInv => TypeOK
  BY DEF IInv, GoodOrigin, GoodAccepted, RunsBound, GoodVM, Calm, TypeOK
<1> QED BY <1>1, InvHolds, PTL

\* No commit on a story's branch brings a file of another story, with any faults and
\* any sessions, unless the branch is one that got or lent another story's work by
\* the ways nothing guards.
THEOREM BranchesAreTheStorys == Spec => []OwnFilesOnly
<1>1. IInv => OwnFilesOnly
  BY DEF IInv, GoodOrigin, FairBranch, Fair, OwnFilesOnly
<1> QED BY <1>1, InvHolds, PTL

\* The commit a completed run reports has every deliverable of its path, if no
\* session switched branches and the last save went through.
THEOREM ReportedAllCommitted == Spec => []ReportedIsCommitted
<1>1. ASSUME IInv, NEW v \in VMs, run[v].pc = "report", ~run[v].strayed, ~clone[v].loose,
             NEW p \in Phases \ {Impl}
      PROVE  Skipped(v, p) \/ <<run[v].story, p>> \in Tree(HeadOf(clone[v]))
  <2>1. Passed(run[v], clone[v]) /\ run[v].at = Len(Path) + 1 /\ Saved(clone[v])
    BY <1>1, AtVM DEF Placed, InLoop, Calm
  <2>2. PICK j \in 1..Len(Path) : Path[j] = p
    BY DEF Phases
  <2>3. j \in 1..(run[v].at - 1)
    BY <2>1, <2>2, PathFacts
  <2>4. Skipped(v, p) \/ <<run[v].story, p>> \in clone[v].work
    BY <2>1, <2>2, <2>3 DEF Passed, Skipped, SkippedIn
  <2>5. p # Question
    BY PathFacts
  <2> QED BY <1>1, <2>1, <2>4, <2>5 DEF Saved, Uncommitted
<1>2. IInv => ReportedIsCommitted
  BY <1>1 DEF ReportedIsCommitted
<1> QED BY <1>2, InvHolds, PTL

\* Nothing is accepted that adds no commit, if the run had to go through phase 8 and
\* git counted there, whatever is on main.
THEOREM AcceptedAddSomething == Spec => []AcceptedHasCommits
<1>1. IInv => AcceptedHasCommits
  BY DEF IInv, GoodAccepted
<1> QED BY <1>1, InvHolds, PTL

\* What was accepted, and asked about, stays on its story's branch, whoever pushes.
THEOREM AcceptedStays == Spec => []AcceptedKept
<1>1. IInv => AcceptedKept
  BY DEF IInv, GoodAccepted
<1> QED BY <1>1, InvHolds, PTL

-----------------------------------------------------------------------------
(* The branches refine StoryBranch.                                        *)

Log == [s \in Stories |-> Trees(origin[s])]
Entry(a) == [story |-> a.story, log |-> Trees(a.head), seen |-> a.seen]
Acc == {Entry(a) : a \in accepted}

\* The log's entry for a branch is the sequence of its commits' trees.
LEMMA TreesIs ==
  ASSUME NEW h \in Seq(Commits)
  PROVE  /\ Trees(h) \in Seq(SUBSET File) /\ Len(Trees(h)) = Len(h) /\ Len(h) \in Nat
         /\ \A k \in 1..Len(h) : Trees(h)[k] = h[k].tree
<1>1. Len(h) \in Nat /\ \A k \in 1..Len(h) : h[k].tree \in SUBSET File
  <2>1. \A k \in 1..Len(h) : h[k] \in Commits
    BY ElementOfSeq
  <2>2. Len(h) \in Nat
    BY LenProperties
  <2> QED BY <2>1, <2>2 DEF Commits
<1>2. Trees(h) \in [1..Len(h) -> SUBSET File]
  BY <1>1 DEF Trees
<1>3. Trees(h) \in Seq(SUBSET File)
  BY <1>1, <1>2, SeqDef
<1>4. Len(Trees(h)) = Len(h)
  <2>1. DOMAIN Trees(h) = 1..Len(h) /\ DOMAIN Trees(h) = 1..Len(Trees(h)) /\ Len(Trees(h)) \in Nat
    BY <1>2, <1>3, LenProperties
  <2> QED BY <1>1, <2>1
<1> QED BY <1>1, <1>3, <1>4 DEF Trees

LEMMA TreesPrefix ==
  ASSUME NEW h \in Seq(Commits), NEW g \in Seq(Commits), IsPrefix(h, g)
  PROVE  IsPrefix(Trees(h), Trees(g))
<1>1. Len(h) <= Len(g) /\ \A k \in 1..Len(h) : h[k] = g[k]
  BY PrefixIs
<1>2. /\ Trees(h) \in Seq(SUBSET File) /\ Len(Trees(h)) = Len(h) /\ Len(h) \in Nat
      /\ Trees(g) \in Seq(SUBSET File) /\ Len(Trees(g)) = Len(g) /\ Len(g) \in Nat
      /\ \A k \in 1..Len(h) : Trees(h)[k] = h[k].tree
      /\ \A k \in 1..Len(g) : Trees(g)[k] = g[k].tree
  BY TreesIs
<1>3. \A k \in 1..Len(Trees(h)) : Trees(h)[k] = Trees(g)[k]
  BY <1>1, <1>2
<1> QED BY <1>1, <1>2, <1>3, PrefixIs

LEMMA FilesOfTrees ==
  ASSUME NEW h \in Seq(Commits)
  PROVE  Branch!Files(Trees(h)) = Tree(h)
<1>1. Trees(h) \in Seq(SUBSET File) /\ Len(Trees(h)) = Len(h) /\ Len(h) \in Nat
      /\ \A k \in 1..Len(h) : Trees(h)[k] = h[k].tree
  BY TreesIs
<1>2. CASE h = <<>>
  <2>1. Trees(h) = <<>>
    BY <1>1, <1>2, EmptySeq
  <2> QED BY <1>2, <2>1 DEF Tree, Branch!Files
<1>3. CASE h # <<>>
  <2>1. Len(h) # 0 /\ Trees(h) # <<>>
    BY <1>1, <1>3, EmptySeq
  <2>2. Trees(h)[Len(h)] = h[Len(h)].tree
    BY <1>1, <2>1
  <2> QED BY <1>1, <1>3, <2>1, <2>2 DEF Tree, Branch!Files
<1> QED BY <1>2, <1>3

LEMMA InitRefines == Init => Branch!Init
<1> SUFFICES ASSUME Init PROVE Branch!Init
  OBVIOUS
<1>1. Trees(<<>>) = <<>>
  <2>1. <<>> \in Seq(Commits) /\ Len(<<>>) = 0
    BY EmptySeq
  <2>2. Trees(<<>>) \in Seq(SUBSET File) /\ Len(Trees(<<>>)) = 0
    BY <2>1, TreesIs
  <2> QED BY <2>2, EmptySeq
<1>2. [s \in Stories |-> Trees(origin[s])] = [s \in Stories |-> <<>>]
  BY <1>1 DEF Init
<1> QED BY <1>2 DEF Init, Branch!Init

\* A push, and an answer, extend one branch.
LEMMA ExtendRefines ==
  ASSUME IInv, IInv', NEW s \in Stories, NEW h,
         origin' = [origin EXCEPT ![s] = h], IsPrefix(origin[s], h), UNCHANGED accepted,
         crossed \subseteq crossed'
  PROVE  Branch!Next
<1>1. /\ origin \in [Stories -> Seq(Commits)] /\ origin' \in [Stories -> Seq(Commits)]
      /\ origin'[s] = h /\ h \in Seq(Commits) /\ origin[s] \in Seq(Commits)
      /\ FairBranch(s, h, crossed')
  BY DEF IInv, GoodOrigin
<1>2. IsPrefix(Trees(origin[s]), Trees(h))
  BY <1>1, TreesPrefix
<1>3. ASSUME s \notin crossed', NEW k \in 1..Len(Trees(h))
      PROVE  Branch!Own(s, Trees(h)[k])
  <2>1. k \in 1..Len(h) /\ Trees(h)[k] = h[k].tree
    BY <1>1, TreesIs
  <2>2. h[k].tree \subseteq OnMain \cup Files(s)
    BY <1>1, <1>3, <2>1 DEF FairBranch, Fair
  <2> QED BY <2>1, <2>2 DEF Files, Branch!Own
<1>4. Log' = [Log EXCEPT ![s] = Trees(h)] /\ Log[s] = Trees(origin[s]) /\ Log'[s] = Trees(h)
  BY <1>1 DEF Log
<1>5. Branch!Extend(s)
  <2>1. /\ IsPrefix(Log[s], Log'[s])
        /\ s \in (crossed \cap Stories)' \/ \A k \in 1..Len(Log'[s]) : Branch!Own(s, Log'[s][k])
        /\ Log' = [Log EXCEPT ![s] = Log'[s]]
        /\ UNCHANGED Acc
    BY <1>2, <1>3, <1>4 DEF Acc, Entry, Trees
  <2>2. Branch!IsPrefix(Log[s], Log'[s])
    BY <2>1 DEF IsPrefix, Branch!IsPrefix
  <2> QED BY <2>1, <2>2 DEF Branch!Extend, Log, Acc, Entry
<1>6. (crossed \cap Stories) \subseteq (crossed \cap Stories)'
  OBVIOUS
<1> QED BY <1>5, <1>6 DEF Branch!Next

LEMMA PushRefines ==
  ASSUME IInv, IInv', NEW s \in Stories, NEW h \in Seq(Commits), Push(h, s), UNCHANGED accepted,
         crossed \subseteq crossed'
  PROVE  Branch!Next
BY PushGrows, ExtendRefines DEF Push

LEMMA AnswerRefines ==
  ASSUME IInv, IInv', NEW s \in Stories, Answer(s)
  PROVE  Branch!Next
<1>1. UNCHANGED <<accepted, crossed>>
  BY DEF Answer
<1> QED BY <1>1, AnswerGrows, ExtendRefines

LEMMA MixRefines ==
  ASSUME UNCHANGED <<origin, accepted>>, crossed \subseteq crossed'
  PROVE  Branch!Next
<1>1. UNCHANGED <<Log, Acc>> /\ (crossed \cap Stories) \subseteq (crossed \cap Stories)'
  BY DEF Log, Acc, Entry, Trees
<1> QED BY <1>1 DEF Branch!Next, Branch!Mix, Log, Acc, Entry

\* What an accepted report names is a state the story's branch went through, as
\* far as the console asked.
LEMMA ReportRefines ==
  ASSUME IInv, IInv', NEW v \in VMs, Report(v)
  PROVE  Branch!Next
<1>0. PICK s, h, n : s = run[v].story /\ h = HeadOf(clone[v]) /\ n = HadToCount(v)
  OBVIOUS
<1>1. PICK seen \in SUBSET {"commit", "tree"} :
        IF Acceptable(s, h, seen)
        THEN /\ accepted' = accepted \cup
                  {[story |-> s, head |-> h, counted |-> n, seen |-> seen]}
             /\ crossed' = IF clone[v].on # s THEN crossed \cup {s} ELSE crossed
        ELSE UNCHANGED <<accepted, crossed>>
  BY <1>0, Zenon DEF Report
<1>2. UNCHANGED origin /\ crossed \subseteq crossed'
  BY <1>1 DEF Report
<1>3. CASE ~Acceptable(s, h, seen)
  BY <1>1, <1>2, <1>3, MixRefines
<1>4. CASE Acceptable(s, h, seen)
  <2> DEFINE a == [story |-> s, head |-> h, counted |-> n, seen |-> seen]
             e == Entry(a)
  <2>1. s \in Stories /\ h \in Seq(Commits)
    BY <1>0, AtVM, HeadType DEF Report
  <2>2. e.story = s /\ e.log = Trees(h) /\ e.seen = seen
        /\ a.story = s /\ a.head = h /\ a.seen = seen /\ e = Entry(a)
    BY DEF Entry
  <2> HIDE DEF a, e
  <2>3. accepted' = accepted \cup {a}
    BY <1>1, <1>4 DEF a
  <2>4. "commit" \in seen /\ s \notin crossed' => IsPrefix(h, origin[s])
    BY <1>2, <2>2, <2>3 DEF IInv, GoodAccepted, AcceptedKept
  <2>5. origin[s] \in Seq(Commits) /\ Log[s] = Trees(origin[s])
    BY <2>1 DEF IInv, GoodOrigin, Log
  <2>6. "commit" \in e.seen /\ e.story \notin (crossed \cap Stories)'
          => Branch!IsPrefix(e.log, Log[e.story])
    <3>1. "commit" \in e.seen /\ e.story \notin (crossed \cap Stories)'
            => IsPrefix(Trees(h), Trees(origin[s]))
      BY <2>1, <2>2, <2>4, <2>5, TreesPrefix
    <3> QED BY <2>2, <2>5, <3>1 DEF IsPrefix, Branch!IsPrefix
  <2>7. "tree" \in e.seen => \A p \in Required : <<e.story, p>> \in Branch!Files(e.log)
    BY <1>4, <2>1, <2>2, FilesOfTrees DEF Acceptable
  <2>8. Acc' = Acc \cup {e} /\ UNCHANGED Log
    <3>1. Acc' = {Entry(b) : b \in accepted'}
      BY DEF Acc, Entry, Trees
    <3>2. UNCHANGED Log
      BY <1>2 DEF Log, Trees
    <3> QED BY <2>2, <2>3, <3>1, <3>2 DEF Acc
  <2>9. Branch!Accept(e) /\ e \in Acc'
    BY <2>6, <2>7, <2>8 DEF Branch!Accept, Log, Acc, Entry
  <2>10. (crossed \cap Stories) \subseteq (crossed \cap Stories)'
    BY <1>2
  <2> QED BY <2>9, <2>10 DEF Branch!Next, Acc, Entry
<1> QED BY <1>3, <1>4

\* The steps that touch a branch on GitHub or the completions.
Moves == \/ UNCHANGED <<origin, accepted>>
         \/ \E s \in Stories, h \in Seq(Commits) : Push(h, s) /\ UNCHANGED accepted
         \/ \E s \in Stories : Answer(s)
         \/ \E v \in VMs : Report(v)

LEMMA TryPushMoves ==
  ASSUME NEW s \in Stories, NEW h \in Seq(Commits), TryPush(h, s), UNCHANGED accepted
  PROVE  Moves
BY DEF TryPush, PushRefused, Moves

LEMMA WhatMoves ==
  ASSUME IInv, Next
  PROVE  Moves /\ crossed \subseteq crossed'
<1>1. ASSUME NEW v \in VMs, SetUpStep(v) PROVE Moves /\ crossed \subseteq crossed'
  BY <1>1 DEF SetUpStep, Resume, Greenfield, StayOn, Sync, BranchFails, Moves
<1>2. ASSUME NEW v \in VMs, SessionEnds(v) PROVE Moves /\ crossed \subseteq crossed'
  <2>1. run[v].story \in Stories /\ HeadOf(Committed(clone[v], v)) \in Seq(Commits)
    <3>1. run[v].pc = "session"
      BY <1>2 DEF SessionEnds
    <3>2. clone[v] \in Clones /\ clone[v].work \in SUBSET File
          /\ run[v].story \in Stories
      BY <3>1, AtVM, HeadType
    <3>3. IsCommit(Committed(clone[v], v), clone[v], v, clone[v].work)
      BY DEF IsCommit, Committed
    <3>4. PICK d : d = Committed(clone[v], v)
      OBVIOUS
    <3>5. d \in Clones
      BY <3>2, <3>3, <3>4, CommittedAsIs
    <3> QED BY <3>2, <3>4, <3>5, HeadType
  <2>2. UNCHANGED accepted /\ UNCHANGED crossed
    BY <1>2 DEF SessionEnds
  <2>3. TryPush(HeadOf(Committed(clone[v], v)), run[v].story) \/ UNCHANGED <<origin, pushed>>
    BY <1>2 DEF SessionEnds
  <2>4. Moves
    BY <2>1, <2>2, <2>3, TryPushMoves DEF Moves
  <2> QED BY <2>2, <2>4
<1>3. ASSUME NEW v \in VMs, SessionStep(v) PROVE Moves /\ crossed \subseteq crossed'
  <2>1. CASE SessionPushes(v)
    <3>1. clone[v].on \in Stories /\ HeadOf(clone[v]) \in Seq(Commits)
          /\ Push(HeadOf(clone[v]), clone[v].on) /\ UNCHANGED <<accepted, crossed>>
      BY <2>1, AtVM, HeadType DEF SessionPushes
    <3> QED BY <3>1 DEF Moves
  <2>2. CASE \/ \E k \in 1..Len(Path), wrote \in SUBSET (Phases \cup {Question}) : Session(v, k, wrote)
             \/ SessionCommits(v) \/ \E b \in Branches : SessionStrays(v, b)
    BY <2>2 DEF Session, SessionCommits, SessionStrays, Moves
  <2> QED BY <1>2, <1>3, <2>1, <2>2 DEF SessionStep
<1>4. ASSUME NEW v \in VMs, Ask(v) PROVE Moves /\ crossed \subseteq crossed'
  <2>1. PICK d \in StagedCommitted(clone[v], v) :
          /\ UNCHANGED <<origin, pushed>> \/ TryPush(HeadOf(d), run[v].story)
          /\ crossed \subseteq crossed'
    BY <1>4 DEF Ask
  <2>2. run[v].story \in Stories /\ HeadOf(d) \in Seq(Commits) /\ UNCHANGED accepted
    <3>1. run[v].pc = "check" /\ UNCHANGED accepted
      BY <1>4 DEF Ask, Judged
    <3>2. clone[v] \in Clones /\ run[v].story \in Stories
      BY <3>1, AtVM
    <3>3. d \in Clones
      BY <3>2, StagedIs
    <3> QED BY <3>1, <3>2, <3>3, HeadType
  <2>3. Moves
    BY <2>1, <2>2, TryPushMoves DEF Moves
  <2> QED BY <2>1, <2>3
<1>5. ASSUME NEW v \in VMs, CheckStep(v) PROVE Moves /\ crossed \subseteq crossed'
  <2>1. CASE ~Ask(v)
    <3>1. UNCHANGED <<origin, accepted, crossed>>
      BY <1>5, <2>1 DEF CheckStep, PhaseFails, NoDeliverable, RetryImpl, SilentAgain, PhaseDone
    <3> QED BY <3>1 DEF Moves
  <2> QED BY <1>4, <2>1
<1>6. ASSUME NEW v \in VMs, Finish(v) PROVE Moves /\ crossed \subseteq crossed'
  <2>1. HeadOf(clone[v]) \in Seq(Commits)
    BY AtVM, HeadType
  <2>2. /\ UNCHANGED <<accepted, crossed>>
        /\ \/ clone[v].on \in Stories /\ TryPush(HeadOf(clone[v]), clone[v].on)
           \/ UNCHANGED origin
    BY <1>6 DEF Finish
  <2> QED BY <2>1, <2>2, TryPushMoves DEF Moves
<1>7. ASSUME NEW v \in VMs, Report(v) PROVE Moves /\ crossed \subseteq crossed'
  BY <1>7 DEF Report, Moves
<1>8. ASSUME NEW v \in VMs, (\E s \in Stories : Start(v, s)) \/ GateFails(v) \/ Crash(v)
      PROVE  Moves /\ crossed \subseteq crossed'
  BY <1>8 DEF Start, GateFails, Crash, Moves
<1>9. ASSUME NEW s \in Stories, Answer(s) PROVE Moves /\ crossed \subseteq crossed'
  BY <1>9 DEF Answer, Moves
<1> QED BY <1>1, <1>3, <1>5, <1>6, <1>7, <1>8, <1>9 DEF Next

LEMMA StillRefines ==
  ASSUME UNCHANGED vars
  PROVE  UNCHANGED Branch!vars
BY DEF vars, Branch!vars, Trees

LEMMA NextRefines ==
  ASSUME IInv, IInv', [Next]_vars
  PROVE  [Branch!Next]_(Branch!vars)
<1>1. CASE Next
  <2>1. Moves /\ crossed \subseteq crossed'
    BY <1>1, WhatMoves
  <2> QED BY <2>1, PushRefines, AnswerRefines, ReportRefines, MixRefines DEF Moves
<1> QED BY <1>1, StillRefines

\* The runners, the console's gate and the people who answer implement the
\* branch each story was promised: nothing pushed is lost, no other story's file
\* arrives on it, and what is accepted was on it, until it is mixed with another.
THEOREM RunnersKeepBranches == Spec => KeepsBranches
<1>1. Init => Branch!Init
  BY InitRefines
<1>2. IInv /\ IInv' /\ [Next]_vars => [Branch!Next]_(Branch!vars)
  BY NextRefines
<1>3. Spec => []IInv
  BY InvHolds
<1> QED BY <1>1, <1>2, <1>3, PTL DEF Spec, KeepsBranches, Branch!Spec


=============================================================================
