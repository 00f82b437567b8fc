---- MODULE MCDispatchV1 ----
EXTENDS DispatchV1, TLC
CONSTANTS i1, i2, s1, s2

OneStory == [i \in Items |-> s1]
TwoStories == (i1 :> s1) @@ (i2 :> s2)
NoDeps == [i \in Items |-> {}]
SecondAfterFirst == (i1 :> {}) @@ (i2 :> {s1})
====
