---------------------------- MODULE StageLifecycle ----------------------------
(***************************************************************************)
(* What the staged examination promises about one attempt, whatever the    *)
(* gates say: a candidate waits, works once, hands in or misses the stage, *)
(* and what was handed in is graded once for good.  Several attempts may   *)
(* move in one step (the crons handle batches), each by one move.          *)
(***************************************************************************)
CONSTANT Attempts
VARIABLE phase

Phases == {"waiting", "working", "handedIn", "graded", "missed", "rejected"}

Init == phase = [p \in Attempts |-> "waiting"]

\* The last pair: a stage started at the very instant it closes.
Moves ==
    {<<"waiting", "working">>, <<"working", "handedIn">>, <<"working", "missed">>,
     <<"handedIn", "graded">>, <<"waiting", "rejected">>, <<"waiting", "missed">>}

Next ==
    /\ phase' \in [Attempts -> Phases]
    /\ \A p \in Attempts :
          phase'[p] = phase[p] \/ <<phase[p], phase'[p]>> \in Moves

Spec == Init /\ [][Next]_phase
=============================================================================
