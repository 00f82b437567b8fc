---------------------------- MODULE PhaseRunner ----------------------------
(***************************************************************************)
(* sdlc_phase_runner.run_sdlc_phases and the git repositories it works on: *)
(* the origin, and one clone per VM, in which the VM runs the phases of    *)
(* one story after another.  Each phase is one session of the coding       *)
(* agent, followed by a save (commit and push) and by checks; a later run, *)
(* on the same VM or on another, skips the phases whose deliverable it     *)
(* finds.  A completed run reports its HEAD to the console, which accepts  *)
(* it if GitHub knows the commit and its tree holds the deliverables.      *)
(*                                                                         *)
(* A branch is the sequence of its commits since main; a commit carries    *)
(* the tree it leaves, so a branch's files are those of its last commit.   *)
(* GitHub's main is protected and does not move.                           *)
(***************************************************************************)
EXTENDS Naturals, Sequences, SequencesExt

CONSTANTS
  VMs, Stories,
  Path,       \* phase numbers of the story's scope, in order (PHASE_MAP)
  Declared,   \* per story: the phases its seed's Phase Path names
  Required,   \* phases whose deliverable the console demands (_SDLC_REQUIRED)
  OnMain,     \* files main already holds
  Prewritten, \* stories whose prompt names another folder with a seed
  MaxRuns,    \* bound: claims of each story
  MaxOdd,     \* bound: events out of the ordinary, faults and sessions' own doings
  Faults,     \* which of FaultKinds occur
  Main, Operator, None

Seed == 1      \* phase 1's deliverable, seed.md
Impl == 8      \* Implementation: its deliverable is None, its file is the code
Question == 0  \* QUESTION.md

\* The runner's process dies; a git push fails; branch setup fails; a stash
\* fails; a commit fails; a session exits with an error, by its timeout or at the
\* rate limit, or a gate refuses; a session checks out another branch; phase 8's
\* commits cannot be counted; the queue gives away the claim of a run that is
\* still going; GitHub does not answer the console's question for the tree; the
\* console has no GitHub token.
FaultKinds == {"crash", "push", "branch", "stash", "commit", "fail", "stray",
               "count", "released", "tree", "token"}

Phases == {Path[k] : k \in 1..Len(Path)}
File == Stories \X (Phases \cup {Seed, Question})
Branches == Stories \cup {Main}
Commits == [by : VMs \cup {Operator}, on : Branches, tree : SUBSET File]

ASSUME RunnerConstantsOK ==
  /\ Path \in Seq(Nat \ {Question})
  /\ Declared \in [Stories -> SUBSET Nat]
  /\ Required \subseteq Phases \ {Impl}
  /\ OnMain \subseteq Stories \X (Phases \cup {Seed})
  /\ Prewritten \subseteq Stories
  /\ MaxRuns \in [Stories -> Nat] /\ MaxOdd \in Nat
  /\ Faults \subseteq FaultKinds
  /\ Main \notin Stories /\ None \notin Branches

VARIABLES
  origin,   \* per story: its branch on GitHub
  pushed,   \* stories whose branch exists on GitHub
  clone,    \* per VM: its clone of the repository
  run,      \* per VM: its current call of run_sdlc_phases
  runs,     \* per story: runs started
  odd,      \* events out of the ordinary so far
  accepted, \* completions the console accepted
  crossed   \* history: branches that got, or lent, another story's work

vars == <<origin, pushed, clone, run, runs, odd, accepted, crossed>>

\* branch: local branches; have: which exist; on: the one checked out; work: the
\* files of the working tree; noted: .project was changed since the last commit;
\* loose (history): it may hold a deliverable no save has committed.
Clones == [branch : [Branches -> Seq(Commits)], have : SUBSET Branches, on : Branches,
           work : SUBSET File, noted : BOOLEAN, loose : BOOLEAN]

\* at: index into Path of the next phase; declared: the seed's Phase Path was
\* read; asked: the last session wrote a question; again: this is phase 8's second
\* attempt.  History: uncounted, phase 8's commits could not be counted; strayed, a
\* session has switched branches.
Runs == [pc : {"idle", "branch", "sync", "loop", "session", "check", "report"},
         story : Stories \cup {None}, at : 1..(Len(Path) + 1), declared : BOOLEAN,
         asked : BOOLEAN, again : BOOLEAN,
         uncounted : BOOLEAN, strayed : BOOLEAN]

\* head: the branch at the reported commit; counted (history): phase 8 had to find
\* commits on it; seen: what GitHub answered the console about.
Completions == [story : Stories, head : Seq(Commits), counted : BOOLEAN,
                seen : SUBSET {"commit", "tree"}]

IdleRun == [pc |-> "idle", story |-> None, at |-> 1, declared |-> FALSE,
            asked |-> FALSE, again |-> FALSE, uncounted |-> FALSE, strayed |-> FALSE]

\* How an action counts against the bound.
Usual == UNCHANGED odd
Odd == odd < MaxOdd /\ odd' = odd + 1
Fault(kind) == kind \in Faults /\ Odd

-----------------------------------------------------------------------------
(* git.                                                                    *)

Files(s) == {f \in File : f[1] = s}

Tree(h) == IF h = <<>> THEN OnMain ELSE h[Len(h)].tree

HeadOf(c) == c.branch[c.on]

Uncommitted(c) == c.work \ Tree(HeadOf(c))

\* git status --porcelain is not empty.
Dirty(c) == c.work # Tree(HeadOf(c)) \/ c.noted

Commit(c, v, t) == [by |-> v, on |-> c.on, tree |-> t]

CommittedAs(c, v, t, n) ==
  [c EXCEPT !.branch[c.on] = Append(@, Commit(c, v, t)), !.noted = n]

\* Mutant of Committed: git commit -a, which leaves new files.
CommittedTracked(c, v) == CommittedAs(c, v, c.work \cap Tree(HeadOf(c)), FALSE)

\* git add -A; git commit.
Committed(c, v) == CommittedAs(c, v, c.work, FALSE)

\* The trees a commit of some of the changes may have.
Parts(c) == {t \in SUBSET (Tree(HeadOf(c)) \cup c.work) : Tree(HeadOf(c)) \cap c.work \subseteq t}

\* git commit of whatever happens to be staged, which may be nothing.
StagedCommitted(c, v) ==
  {c} \cup {d \in {CommittedAs(c, v, p[1], p[2]) : p \in Parts(c) \X {c.noted, FALSE}} :
              Tree(HeadOf(d)) # Tree(HeadOf(c)) \/ d.noted # c.noted}

\* Mutant of Stashed: no stash, as before STORY-636.
StashedNot(c) == c

\* git stash push --include-untracked; nothing ever pops it.
Stashed(c) == [c EXCEPT !.work = Tree(HeadOf(c)), !.noted = FALSE, !.loose = FALSE]

\* Mutant of CheckedOut: a branch is named that was not made (no -b).
CheckedOutUnmade(c, b) ==
  LET from == Tree(HeadOf(c))  to == Tree(c.branch[b])
  IN  [c EXCEPT !.on = b, !.work = (to \cup (c.work \ from)) \ (from \ c.work)]

\* git checkout b: what is not committed is carried over.
CheckedOut(c, b) ==
  LET from == Tree(HeadOf(c))  to == Tree(c.branch[b])
  IN  [c EXCEPT !.on = b, !.have = @ \cup {b},
                !.work = (to \cup (c.work \ from)) \ (from \ c.work)]

\* git checkout -b b start, or git checkout b if there is one.
MadeFrom(c, b, start) ==
  CheckedOut(IF b \in c.have THEN c ELSE [c EXCEPT !.branch[b] = start], b)

\* Mutant of FastForward: git push --force.
ForcePush(h, s) == TRUE

\* git push of history h to the branch of s: refused unless a fast-forward.
FastForward(h, s) == s \notin pushed \/ IsPrefix(origin[s], h)

Push(h, s) == /\ FastForward(h, s)
              /\ origin' = [origin EXCEPT ![s] = h]
              /\ pushed' = pushed \cup {s}

PushRefused(h, s) == /\ (~FastForward(h, s) /\ Usual) \/ Fault("push")
                     /\ UNCHANGED <<origin, pushed>>

\* A push the runner makes, whose failure it tolerates.
TryPush(h, s) == (Push(h, s) /\ Usual) \/ PushRefused(h, s)

\* What a working tree brings into the branch of s that is not the story's.
Foreign(c, s) == ~(Uncommitted(c) \subseteq Files(s))

-----------------------------------------------------------------------------
Goto(v, p) == run' = [run EXCEPT ![v].pc = p]
EndRun(v) == run' = [run EXCEPT ![v] = IdleRun]

\* _verify_deliverable: the file is in the working tree, committed or not.
Delivered(v, p) == p # Impl /\ <<run[v].story, p>> \in clone[v].work

\* The phase is not on the path the seed declares; phase 1 always is.
Skipped(v, p) == run[v].declared /\ p \notin Declared[run[v].story] \cup {Seed}

\* k is the index of the next phase to run, or the path's end.
IsNext(v, k) ==
  /\ k \in run[v].at..(Len(Path) + 1)
  /\ k <= Len(Path) => ~Delivered(v, Path[k]) /\ ~Skipped(v, Path[k])
  /\ \A j \in run[v].at..(k - 1) : Delivered(v, Path[j]) \/ Skipped(v, Path[j])

Phase(v) == Path[run[v].at]

Init ==
  /\ origin = [s \in Stories |-> <<>>]
  /\ pushed = {}
  /\ clone = [v \in VMs |-> [branch |-> [b \in Branches |-> <<>>], have |-> {Main},
                             on |-> Main, work |-> OnMain, noted |-> FALSE, loose |-> FALSE]]
  /\ run = [v \in VMs |-> IdleRun]
  /\ runs = [s \in Stories |-> 0]
  /\ odd = 0
  /\ accepted = {}
  /\ crossed = {}

-----------------------------------------------------------------------------
(* Start and _ensure_branch.                                               *)

\* _consume_resumed_question, if the claim carries the path of a question: it is
\* deleted, and a commit is made, on the branch that happens to be checked out.
Consumed(c, v, s) ==
  {c} \cup IF <<s, Question>> \in c.work
           THEN StagedCommitted([c EXCEPT !.work = @ \ {<<s, Question>>}], v) ELSE {}

\* The poller claimed the story and calls run_sdlc_phases.  The pre-loop guard
\* asks for the row's status, which by now is 'claimed', whatever it was before.
Start(v, s) ==
  /\ run[v].pc = "idle" /\ runs[s] < MaxRuns[s]
  /\ IF \E w \in VMs : run[w].story = s THEN Fault("released") ELSE Usual
  /\ run' = [run EXCEPT ![v] = [IdleRun EXCEPT !.pc = "branch", !.story = s]]
  /\ runs' = [runs EXCEPT ![s] = @ + 1]
  /\ \E c \in Consumed(clone[v], v, s) :
       /\ clone' = [clone EXCEPT ![v] = c]
       /\ crossed' = IF c.branch # clone[v].branch /\ (c.on # s \/ Foreign(clone[v], s))
                     THEN crossed \cup {c.on} ELSE crossed
  /\ UNCHANGED <<origin, pushed, accepted>>

\* The seed of another folder is copied in if the story has none.
Seeded(c, s) == IF s \in Prewritten /\ <<s, Seed>> \notin c.work
                THEN [c EXCEPT !.work = @ \cup {<<s, Seed>>}, !.loose = TRUE] ELSE c

\* _clear_stale_questions: git rm, which refuses an untracked file, and a commit;
\* neither's return code is looked at.
Cleared(c, v, s) ==
  LET q == <<s, Question>>
      rest == IF q \in Tree(HeadOf(c)) THEN [c EXCEPT !.work = @ \ {q}] ELSE c
  IN  IF q \notin c.work THEN {c}
      ELSE {d \in StagedCommitted(rest, v) :
              q \in Tree(HeadOf(d)) => d = rest /\ "commit" \in Faults}

\* Branch setup is done with clone c: from here to the phase loop.
SetUp(v, c) ==
  LET s == run[v].story  d == Seeded(c, s)
  IN /\ \E e \in Cleared(d, v, s) : clone' = [clone EXCEPT ![v] = e]
     /\ run' = [run EXCEPT ![v] = [@ EXCEPT !.pc = "loop",
                                            !.declared = <<s, Seed>> \in d.work]]

\* The branch exists on GitHub: fetch, stash (kept: it failed), then checkout -b
\* from it, or, if there is a local branch of that name, a checkout of that one.
Resume(v, kept) ==
  LET s == run[v].story
      c == MadeFrom(IF kept THEN clone[v] ELSE Stashed(clone[v]), s, origin[s])
  IN /\ run[v].pc = "branch" /\ s \in pushed
     /\ IF kept THEN Fault("stash") ELSE Usual
     /\ SetUp(v, c)
     /\ crossed' = IF kept /\ Foreign(c, s) THEN crossed \cup {s} ELSE crossed
     /\ UNCHANGED <<origin, pushed, runs, accepted>>

\* It does not, and the branch is checked out already: nothing is done.
StayOn(v) ==
  LET s == run[v].story
  IN /\ run[v].pc = "branch" /\ s \notin pushed /\ clone[v].on = s
     /\ SetUp(v, clone[v])
     /\ crossed' = IF Foreign(clone[v], s) THEN crossed \cup {s} ELSE crossed
     /\ UNCHANGED <<origin, pushed, runs, odd, accepted>>

\* main checked out from another branch after a stash (kept: there was none, on
\* main itself, or it failed).
OnDefault(v, kept) == CheckedOut(IF kept THEN clone[v] ELSE Stashed(clone[v]), Main)

MayKeep(v, kept) == IF kept /\ clone[v].on # Main THEN Fault("stash")
                    ELSE (clone[v].on = Main => kept) /\ Usual

\* It does not: the branch is made from main, or the local one checked out.
Greenfield(v, kept) ==
  LET s == run[v].story
      m == OnDefault(v, kept)
      c == MadeFrom(m, s, HeadOf(m))
  IN /\ run[v].pc = "branch" /\ s \notin pushed /\ clone[v].on # s
     /\ MayKeep(v, kept)
     /\ clone' = [clone EXCEPT ![v] = c]
     /\ crossed' = IF (kept /\ Foreign(c, s)) \/ (s \notin m.have /\ HeadOf(m) # <<>>)
                   THEN crossed \cup {s} ELSE crossed
     /\ Goto(v, "sync")
     /\ UNCHANGED <<origin, pushed, runs, accepted>>

\* _sync_branch_to_origin: the branch may be on GitHub by now; reset --hard drops
\* local commits and leaves untracked files.  A failure is not looked at.
Sync(v) ==
  LET s == run[v].story  c == clone[v]
  IN /\ run[v].pc = "sync"
     /\ \/ ((s \notin pushed /\ Usual) \/ Fault("branch")) /\ SetUp(v, c)
        \/ s \in pushed /\ Usual /\ \E left \in SUBSET Uncommitted(c) :
             SetUp(v, [c EXCEPT !.branch[s] = origin[s],
                                !.work = Tree(origin[s]) \cup left, !.noted = FALSE])
     /\ UNCHANGED <<origin, pushed, runs, accepted, crossed>>

\* A git command of _ensure_branch fails: before the stash, after it, or with
\* main checked out.
BranchFails(v) ==
  /\ Fault("branch") /\ run[v].pc = "branch"
  /\ \E c \in {clone[v], Stashed(clone[v])} \cup
              (IF run[v].story \in pushed \cup {clone[v].on} THEN {}
               ELSE {OnDefault(v, clone[v].on = Main)}) :
       clone' = [clone EXCEPT ![v] = c]
  /\ EndRun(v)
  /\ UNCHANGED <<origin, pushed, runs, accepted, crossed>>

-----------------------------------------------------------------------------
(* A phase's session, and the save that follows it.                        *)

\* What a session of story s has written by its end.
Wrote(c, s, wrote) == [c EXCEPT !.work = @ \cup ({s} \X wrote), !.loose = @ \/ wrote # {}]

\* _run_phase_sdk starts a session; what it will have written at its end: the
\* phase's deliverable, or not, and a question, or not.
Session(v, k, wrote) ==
  /\ run[v].pc = "loop" /\ k <= Len(Path) /\ IsNext(v, k)
  /\ wrote \subseteq {Path[k], Question}
  /\ IF wrote = {Path[k]} THEN Usual ELSE Odd
  /\ clone' = [clone EXCEPT ![v] = Wrote(clone[v], run[v].story, wrote)]
  /\ run' = [run EXCEPT ![v] = [@ EXCEPT !.pc = "session", !.at = k,
                                         !.asked = Question \in wrote]]
  /\ UNCHANGED <<origin, pushed, runs, accepted, crossed>>

\* The session commits what it has, or a part of it, on the branch it is on.
SessionCommits(v) ==
  LET s == run[v].story
  IN /\ run[v].pc = "session" /\ Odd
     /\ \E c \in StagedCommitted(clone[v], v) \ {clone[v]} :
          clone' = [clone EXCEPT ![v] = c]
     /\ crossed' = IF clone[v].on # s THEN crossed \cup {clone[v].on} ELSE crossed
     /\ UNCHANGED <<origin, pushed, run, runs, accepted>>

\* It pushes the branch it is on.
SessionPushes(v) ==
  /\ run[v].pc = "session" /\ clone[v].on \in Stories /\ Odd
  /\ Push(HeadOf(clone[v]), clone[v].on)
  /\ UNCHANGED <<clone, run, runs, accepted, crossed>>

\* It checks out another branch of the clone.
SessionStrays(v, b) ==
  /\ Fault("stray") /\ run[v].pc = "session" /\ b \in clone[v].have \ {clone[v].on}
  /\ clone' = [clone EXCEPT ![v] = CheckedOut(@, b)]
  /\ run' = [run EXCEPT ![v].strayed = TRUE]
  /\ UNCHANGED <<origin, pushed, runs, accepted, crossed>>

\* Mutant of OnStory: no look at the branch, as before STORY-511.
AnyBranch(v) == TRUE

OnStory(v) == clone[v].on = run[v].story

\* The session exits; _save_partial_work: nothing on a clean tree, or on the wrong
\* branch; else a commit and a push, whose failure is tolerated.
SessionEnds(v) ==
  LET s == run[v].story
      c == Committed(clone[v], v)
  IN /\ run[v].pc = "session"
     /\ \/ /\ ~Dirty(clone[v]) /\ Usual
           /\ clone' = [clone EXCEPT ![v].loose = FALSE]
           /\ UNCHANGED <<origin, pushed>>
        \/ /\ Dirty(clone[v]) /\ OnStory(v)
           /\ clone' = [clone EXCEPT ![v] = [c EXCEPT !.loose = FALSE]]
           /\ TryPush(HeadOf(c), s)
        \/ /\ Dirty(clone[v]) /\ ((~OnStory(v) /\ Usual) \/ Fault("commit"))
           /\ UNCHANGED <<origin, pushed, clone>>
     /\ Goto(v, "check")
     /\ UNCHANGED <<runs, accepted, crossed>>

-----------------------------------------------------------------------------
(* The checks after a session.                                             *)

\* Phase 8's second attempt is checked for commits only.
Judged(v) == run[v].pc = "check" /\ ~run[v].again

\* _check_for_questions: a QUESTION.md this session wrote.
Asked(v) == run[v].asked /\ <<run[v].story, Question>> \in clone[v].work

\* _commit_and_push_question: whatever branch is checked out is committed to and
\* pushed to the story's, which the save has left nothing to do unless it refused
\* or failed; then the run ends, and a directive in the folder makes it delete the
\* file.
Ask(v) ==
  LET s == run[v].story
      c == clone[v]
      q == <<s, Question>>
  IN /\ Judged(v) /\ Asked(v)
     /\ \E d \in StagedCommitted(c, v), gone \in SUBSET {q} :
          /\ clone' = [clone EXCEPT ![v] = [d EXCEPT !.work = d.work \ gone]]
          /\ IF d = c
             THEN /\ (q \in Tree(HeadOf(c)) /\ Usual) \/ Fault("commit")
                  /\ UNCHANGED <<origin, pushed, crossed>>
             ELSE /\ q \in Tree(HeadOf(d))
                  /\ TryPush(HeadOf(d), s)
                  /\ crossed' = IF c.on # s THEN crossed \cup {s, c.on} ELSE crossed
     /\ EndRun(v)
     /\ UNCHANGED <<runs, accepted>>

\* What _check_for_questions leaves when no question is fresh: a stale one is
\* deleted from the working tree.
Checked(v) == [clone[v] EXCEPT !.work = @ \ {<<run[v].story, Question>>}]

\* The session failed or was rate limited, or one of the gates refused.
PhaseFails(v) ==
  /\ Judged(v) /\ ~Asked(v) /\ Fault("fail")
  /\ clone' = [clone EXCEPT ![v] = Checked(v)]
  /\ EndRun(v)
  /\ UNCHANGED <<origin, pushed, runs, accepted, crossed>>

\* Mutant of Missing: rc = 0 is taken at its word.
MissingNever(v) == FALSE

Missing(v) == Phase(v) # Impl /\ <<run[v].story, Phase(v)>> \notin clone[v].work

\* rc = 0 without the deliverable: a synthetic question is written, and the
\* call that would report it raises, which ends the run.
NoDeliverable(v) ==
  /\ Judged(v) /\ ~Asked(v) /\ Missing(v)
  /\ clone' = [clone EXCEPT ![v].work = @ \cup {<<run[v].story, Question>>}]
  /\ EndRun(v)
  /\ UNCHANGED <<origin, pushed, runs, odd, accepted, crossed>>

\* Mutant of Silent: the count is not looked at.
SilentNever(v) == FALSE

\* rev-list --count origin/main..HEAD is 0 after phase 8.
Silent(v) == HeadOf(clone[v]) = <<>>

\* No commit is counted: there is none, or git fails, whose empty answer is 0.
NoneCounted(v) == (Silent(v) /\ Usual) \/ Fault("count")

\* The second attempt; the first may also be judged too fast for one.
RetryImpl(v) ==
  /\ Judged(v) /\ ~Asked(v) /\ Phase(v) = Impl /\ NoneCounted(v)
  /\ clone' = [clone EXCEPT ![v] = Checked(v)]
  /\ \/ run' = [run EXCEPT ![v] = [@ EXCEPT !.pc = "loop", !.again = TRUE]]
     \/ EndRun(v)
  /\ UNCHANGED <<origin, pushed, runs, accepted, crossed>>

\* The second attempt needs a count above 0.
SilentAgain(v) ==
  /\ run[v].pc = "check" /\ run[v].again /\ NoneCounted(v)
  /\ EndRun(v)
  /\ UNCHANGED <<origin, pushed, clone, runs, accepted, crossed>>

\* Phase 8's commits are counted, or, on the first attempt, could not be, which
\* is let pass.
Counted(v, lost) ==
  \/ ~lost /\ (Phase(v) = Impl => ~Silent(v)) /\ Usual
  \/ lost /\ Phase(v) = Impl /\ ~run[v].again /\ Fault("count")

\* The phase is done: .project is updated, and saved with the next phase.
PhaseDone(v, lost) ==
  /\ run[v].pc = "check" /\ Counted(v, lost)
  /\ run[v].again \/ (~Asked(v) /\ ~Missing(v))
  /\ clone' = [clone EXCEPT ![v] = [(IF run[v].again THEN clone[v] ELSE Checked(v))
                                      EXCEPT !.noted = TRUE]]
  /\ run' = [run EXCEPT ![v] = [@ EXCEPT !.pc = "loop", !.at = run[v].at + 1,
                                         !.again = FALSE,
                                         !.uncounted = run[v].uncounted \/ lost]]
  /\ UNCHANGED <<origin, pushed, runs, accepted, crossed>>

-----------------------------------------------------------------------------
(* Completion.                                                             *)

\* All phases done: git push origin HEAD, whose failure is swallowed.
Finish(v) ==
  LET c == clone[v]
  IN /\ run[v].pc = "loop" /\ IsNext(v, Len(Path) + 1)
     /\ IF c.on \in Stories THEN TryPush(HeadOf(c), c.on)
                            ELSE Usual /\ UNCHANGED <<origin, pushed>>
     /\ run' = [run EXCEPT ![v] = [@ EXCEPT !.pc = "report", !.at = Len(Path) + 1]]
     /\ UNCHANGED <<clone, runs, accepted, crossed>>

\* The acceptance-diff gate or the frontend gate refuses.
GateFails(v) ==
  /\ run[v].pc = "report" /\ Fault("fail")
  /\ EndRun(v)
  /\ UNCHANGED <<origin, pushed, clone, runs, accepted, crossed>>

\* Mutant of CommitExists: the runner's word is taken.
CommitClaimed(h) == TRUE

\* _github_commit_exists: the commit is on some branch, or is main's own.
CommitExists(h) == h = <<>> \/ \E s \in pushed : IsPrefix(h, origin[s])

\* What the console gets to see: without a token nothing is asked, and no answer
\* about the commit refuses, while no answer about the tree does not.
Sees(seen) == \/ seen = {"commit", "tree"} /\ Usual
              \/ seen = {"commit"} /\ Fault("tree")
              \/ seen = {} /\ Fault("token")

\* complete_story's gate.
Acceptable(s, h, seen) ==
  /\ "commit" \in seen => CommitExists(h)
  /\ "tree" \in seen => \A p \in Required : <<s, p>> \in Tree(h)

\* The run went through phase 8 and counted commits there, on the story's branch.
HadToCount(v) == Impl \in Phases /\ ~Skipped(v, Impl) /\ ~run[v].uncounted /\ ~run[v].strayed

\* POST /dispatch/complete: accepted, or 422 and a failed story.
Report(v) ==
  LET s == run[v].story
      c == clone[v]
      h == HeadOf(c)
  IN /\ run[v].pc = "report"
     /\ \E seen \in SUBSET {"commit", "tree"} :
          /\ Sees(seen)
          /\ IF Acceptable(s, h, seen)
             THEN /\ accepted' = accepted \cup
                       {[story |-> s, head |-> h, counted |-> HadToCount(v), seen |-> seen]}
                  /\ crossed' = IF c.on # s THEN crossed \cup {s} ELSE crossed
             ELSE UNCHANGED <<accepted, crossed>>
     /\ EndRun(v)
     /\ UNCHANGED <<origin, pushed, clone, runs>>

-----------------------------------------------------------------------------
(* The environment.                                                        *)

\* The VM's poller stops, or a run ends before its session starts: the clone stays
\* as it is.  A session outlives its poller, and the next claim waits for its end
\* (is_agent_idle), so what it still does may be taken to come before the crash.
Crash(v) ==
  /\ Fault("crash") /\ run[v].pc # "idle"
  /\ EndRun(v)
  /\ UNCHANGED <<origin, pushed, clone, runs, accepted, crossed>>

\* A person appends the answer to QUESTION.md on the branch.
Answer(s) ==
  /\ <<s, Question>> \in Tree(origin[s]) /\ Odd
  /\ origin[s][Len(origin[s])].by # Operator
  /\ origin' = [origin EXCEPT ![s] =
                  Append(@, [by |-> Operator, on |-> s, tree |-> Tree(@)])]
  /\ UNCHANGED <<pushed, clone, run, runs, accepted, crossed>>

SetUpStep(v) == \/ \E kept \in BOOLEAN : Resume(v, kept) \/ Greenfield(v, kept)
                \/ StayOn(v) \/ Sync(v) \/ BranchFails(v)

SessionStep(v) ==
  \/ \E k \in 1..Len(Path), wrote \in SUBSET (Phases \cup {Question}) : Session(v, k, wrote)
  \/ SessionCommits(v) \/ SessionPushes(v) \/ \E b \in Branches : SessionStrays(v, b)
  \/ SessionEnds(v)

CheckStep(v) == \/ Ask(v) \/ PhaseFails(v) \/ NoDeliverable(v)
                \/ RetryImpl(v) \/ SilentAgain(v)
                \/ \E lost \in BOOLEAN : PhaseDone(v, lost)

Next == \/ \E v \in VMs : \/ \E s \in Stories : Start(v, s)
                          \/ SetUpStep(v) \/ SessionStep(v) \/ CheckStep(v)
                          \/ Finish(v) \/ GateFails(v) \/ Report(v) \/ Crash(v)
        \/ \E s \in Stories : Answer(s)

Spec == Init /\ [][Next]_vars

-----------------------------------------------------------------------------
TypeOK ==
  /\ origin \in [Stories -> Seq(Commits)]
  /\ pushed \subseteq Stories
  /\ clone \in [VMs -> Clones]
  /\ \A v \in VMs : clone[v].on \in clone[v].have
  /\ run \in [VMs -> Runs]
  /\ runs \in [Stories -> Nat] /\ \A s \in Stories : runs[s] <= MaxRuns[s]
  /\ accepted \subseteq Completions
  /\ crossed \subseteq Branches
  /\ odd \in 0..MaxOdd

\* No commit on a story's branch brings a file of another story, whatever the
\* runs of other stories, cut off anywhere, left in the clone it was made in
\* (_ensure_branch's stash, _save_partial_work's look at the branch), save by the
\* ways nothing guards, which crossed records: a session or the question path
\* commits on a branch not its own, or branch setup keeps another story's changes
\* because its stash failed or it makes none.
OwnFilesOnly ==
  \A s \in Stories \ crossed : \A k \in 1..Len(origin[s]) :
    origin[s][k].tree \subseteq OnMain \cup Files(s)

\* The commit a completed run reports has the deliverable of every phase of its
\* path, whichever were found and skipped, retried or saved by an earlier run, if
\* no session switched branches and the last save went through (_save_partial_work,
\* _verify_deliverable, which looks at the working tree only).
ReportedIsCommitted ==
  \A v \in VMs : run[v].pc = "report" /\ ~run[v].strayed /\ ~clone[v].loose =>
    \A p \in Phases \ {Impl} :
      Skipped(v, p) \/ <<run[v].story, p>> \in Tree(HeadOf(clone[v]))

\* Nothing is accepted that adds no commit, though every file the console looks
\* for may be on main already, unless the seed's path leaves out phase 8, git did
\* not count its commits, or a session switched branches (phase 8's commit count).
AcceptedHasCommits == \A a \in accepted : a.counted => a.head # <<>>

\* The commits a completion was accepted for are on its story's branch and stay
\* there, whatever is pushed later and by whom (_github_commit_exists asks for
\* the commit on any branch, and only at that moment, and not without a token).
AcceptedKept == \A a \in accepted :
  "commit" \in a.seen /\ a.story \notin crossed => IsPrefix(a.head, origin[a.story])

Trees(h) == [k \in 1..Len(h) |-> h[k].tree]

Branch == INSTANCE StoryBranch WITH
  log <- [s \in Stories |-> Trees(origin[s])],
  mixed <- crossed \cap Stories,
  accepted <- {[story |-> a.story, log |-> Trees(a.head), seen |-> a.seen] : a \in accepted}

\* The runners, the console's gate and the people who answer questions implement
\* the branch each story was promised: nothing pushed is ever lost, whichever VM
\* pushes next, no file of another story arrives on it, and a completion is
\* accepted only for work on the branch, unless the story was mixed with another.
KeepsBranches == Branch!Spec

=============================================================================
