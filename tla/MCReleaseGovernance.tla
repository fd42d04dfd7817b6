------------------------ MODULE MCReleaseGovernance ------------------------
(* TLC instances of ReleaseGovernance. *)
EXTENDS ReleaseGovernance, TLC

CONSTANTS a1, a2, x1, d1, d2, e1, e2, t1, t2, r1, r2, u1, u2, q1, s1, s2

Symmetry ==
  Permutations(Annotations) \cup Permutations(Adapters) \cup Permutations(Releases)
    \cup Permutations(Users) \cup Permutations(Sessions)

JudgingSymmetry ==
  Permutations(Annotations) \cup Permutations(Evaluations) \cup Permutations(Trials)
    \cup Permutations(Users)
=============================================================================
