---- MODULE MCCommitPipeline ----
(* CommitPipeline on a small box: the names of the configurations are         *)
(* interchangeable.                                                           *)
EXTENDS CommitPipeline, TLC

Symmetry == Permutations(Configs)
====
