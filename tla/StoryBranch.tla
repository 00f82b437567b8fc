---------------------------- MODULE StoryBranch ----------------------------
(***************************************************************************)
(* What the phase runner promises of the branches it leaves behind: each   *)
(* is a log that only grows, each of its commits holds files of its story  *)
(* only, and what was accepted is a state the branch went through.  Both   *)
(* end for a story when its work is mixed with another's.                  *)
(***************************************************************************)
EXTENDS Naturals, Sequences, SequencesExt

CONSTANTS Stories, Required, OnMain

VARIABLES
  log,      \* per story: the trees of its branch's commits, in order
  mixed,    \* stories whose work was mixed with another's
  accepted  \* accepted completions, with the log at the commit and what was checked

vars == <<log, mixed, accepted>>

Files(h) == IF h = <<>> THEN OnMain ELSE h[Len(h)]

Own(s, tree) == \A f \in tree : f \in OnMain \/ f[1] = s

Init == log = [s \in Stories |-> <<>>] /\ mixed = {} /\ accepted = {}

\* The branch of s gets commits on top of those it has.
Extend(s) ==
  /\ IsPrefix(log[s], log'[s])
  /\ s \in mixed' \/ \A k \in 1..Len(log'[s]) : Own(s, log'[s][k])
  /\ log' = [log EXCEPT ![s] = log'[s]]
  /\ UNCHANGED accepted

\* A completion is accepted: for a state its branch went through and with the
\* required files, as far as that was checked.
Accept(a) ==
  /\ "commit" \in a.seen /\ a.story \notin mixed' => IsPrefix(a.log, log[a.story])
  /\ "tree" \in a.seen => \A p \in Required : <<a.story, p>> \in Files(a.log)
  /\ accepted' = accepted \cup {a}
  /\ UNCHANGED log

Mix == UNCHANGED <<log, accepted>>

Next == /\ mixed \subseteq mixed'
        /\ (\E s \in Stories : Extend(s)) \/ (\E a \in accepted' : Accept(a)) \/ Mix

Spec == Init /\ [][Next]_vars
=============================================================================
