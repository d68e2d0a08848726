------------------------ MODULE MCChallengeLifecycle ------------------------
(* One case at a time for the company, which makes the quota bind at once,  *)
(* and two for the talent, who can pay for one.                             *)
EXTENDS ChallengeLifecycle, TLC

MCLimit == [o \in Owners |-> IF o \in Companies THEN 2 ELSE 1]

Symmetry == Permutations(Challenges) \cup Permutations(Reqs)
=============================================================================
