---- MODULE MCPhaseRunner ----
EXTENDS PhaseRunner, TLC
CONSTANTS s1, s2, v1, v2

SmallScope == <<1, 7, 8>>
SeedOnMain == {<<s1, 1>>}
Seeds == (s1 :> {1, 8}) @@ (s2 :> {1, 7, 8})
TwoAndOne == (s1 :> 2) @@ (s2 :> 1)
EitherVM == Permutations(VMs)
====
