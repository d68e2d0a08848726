-------------------------- MODULE MCSkillDirectory --------------------------
(* Names for TLC: one field of work in two spellings, and another one.      *)
EXTENDS SkillDirectory, TLC

MCNames == {"Backend", "backend", "Design"}
MCKey == [n \in MCNames |-> IF n = "Design" THEN "design" ELSE "backend"]

Symmetry == Permutations(Reqs)
=============================================================================
