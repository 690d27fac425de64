---- MODULE MCConfigd ----
(* Configd on small instances.  Sessions are interchangeable.  The invariants  *)
(* the proofs rest on come with it, so that a run can check them first.        *)
EXTENDS ConfigdInvariants, TLC

SessionSymmetry == Permutations(Sessions)
====
