------------------------------ MODULE MCEngine ------------------------------
(* Instances of Engine for TLC; see the configurations MCEngine*.cfg.       *)
EXTENDS Engine, TLC

\* Handlers are interchangeable and so are turns. Used in the runs of safety
\* properties only.
Symmetry == Permutations(Handler) \union Permutations(Turn)
=============================================================================
