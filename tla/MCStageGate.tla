---------------------------- MODULE MCStageGate ----------------------------
(***************************************************************************)
(* Instances of StageGate for TLC: the gate configurations each run is     *)
(* about.                                                                  *)
(***************************************************************************)
EXTENDS StageGate

OpenGate ==
    [gateMode |-> "OPEN", minScore |-> None, maxAdvancing |-> None,
     scoreBasis |-> "PREVIOUS_STAGE", gateSourceIds |-> {},
     pendingPolicy |-> "WAIT_FOR_SCORE", graceDays |-> None,
     opensAt |-> None, closesAt |-> None, timeLimit |-> None]

Timed == [OpenGate EXCEPT !.timeLimit = 1]
MinScore(n) == [OpenGate EXCEPT !.gateMode = "MIN_SCORE", !.minScore = n]
AutoAdvance(g, days) ==
    [g EXCEPT !.pendingPolicy = "AUTO_ADVANCE_AFTER", !.graceDays = days]
ManualOnly(g) == [g EXCEPT !.pendingPolicy = "MANUAL_ONLY"]
Window(g, from, until) == [g EXCEPT !.opensAt = from, !.closesAt = until]
Quota(n, until) ==
    [OpenGate EXCEPT !.gateMode = "TOP_N", !.maxAdvancing = n, !.closesAt = until]
Manual == [OpenGate EXCEPT !.gateMode = "MANUAL_APPROVAL"]

Two(g1, g2) == <<g1, g2>>

\* A stage with a deadline in front of every kind of score gate.
ScoreGates ==
    {Two(Timed, g) : g \in {MinScore(60), AutoAdvance(MinScore(60), 1),
                            ManualOnly(MinScore(60)), Manual}}
\* Edits an owner makes while candidates are at work.
Edits == {MinScore(90), Window(MinScore(60), 1, 2), OpenGate}

\* Two candidates compete for one place, or for one place in the cron's batch.
ContestGates == {Two(OpenGate, Quota(1, 0)), Two(OpenGate, AutoAdvance(MinScore(60), 1))}

\* Three stages: the last one looks at both earlier ones, or at the first only.
\* In the third configuration the second stage can be started at its closing
\* time and expires in the same handling.
BasisGates ==
    {<<Timed, MinScore(60), [MinScore(50) EXCEPT !.scoreBasis = "CUMULATIVE"]>>,
     <<Timed, AutoAdvance(MinScore(60), 1),
       [AutoAdvance(MinScore(60), 2) EXCEPT !.scoreBasis = "SPECIFIC_STAGES",
                                            !.gateSourceIds = {1}]>>,
     <<OpenGate, [Timed EXCEPT !.closesAt = 2],
       [AutoAdvance(MinScore(60), 1) EXCEPT !.scoreBasis = "CUMULATIVE"]>>}

Weights2 == <<1, 2>>
Weights3 == <<1, 2, 1>>
KindsMixed2 == <<"subjective", "objective">>
KindsMixed3 == <<"subjective", "objective", "objective">>
NoEdits == {}
=============================================================================
