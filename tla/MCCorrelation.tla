--------------------------- MODULE MCCorrelation ---------------------------
(* Instances of Correlation for TLC: the sets of ids are interchangeable. *)
EXTENDS Correlation, TLC

Symmetry == Permutations(Jobs) \cup Permutations(Keys) \cup Permutations(IdemKeys)
              \cup Permutations(Handlers)

=============================================================================
