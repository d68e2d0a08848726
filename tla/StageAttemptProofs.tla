-------------------------- MODULE StageAttemptProofs --------------------------
(***************************************************************************)
(* Theorems about StageAttempt: what holds however many requests and cron  *)
(* rounds interleave on one attempt row.                                   *)
(***************************************************************************)
EXTENDS StageAttempt, TLAPS

\* What a job may hold between two awaits, and what the row and its submission
\* owe to each other: the inductive invariant behind the three properties.
HeldOK(j) ==
    /\ job[j].read.unlockedAt => promised
    /\ job[j].open => promised
    /\ job[j].step = "settle" => submission # "NONE"

RaceInv ==
    /\ ReasonMeansShut
    /\ EntryWasPromised
    /\ condition = "pass" => promised
    /\ row.score # None => submission # "NONE"
    /\ \A j \in Jobs : HeldOK(j)

-----------------------------------------------------------------------------
\* The updates of the row the handlers make give rows again.
LEMMA RowTypes ==
    ASSUME TypeOK
    PROVE  /\ [row EXCEPT !.status = "EXPIRED", !.lockReason = TRUE] \in Row
           /\ \A reason \in BOOLEAN, open \in BOOLEAN :
                [row EXCEPT !.lockReason = reason, !.unlockedAt = open] \in Row
           /\ [row EXCEPT !.status = "IN_PROGRESS", !.startedAt = now,
                          !.expiresAt = EffectiveExpiry,
                          !.unlockedAt = TRUE, !.lockReason = FALSE] \in Row
           /\ [row EXCEPT !.status = "SUBMITTED", !.score = None,
                          !.expiresAt = None] \in Row
           /\ \A score \in Scores :
                [row EXCEPT !.status = "SUBMITTED", !.score = score] \in Row
           /\ [row EXCEPT !.approvedAt = TRUE, !.lockReason = FALSE,
                          !.unlockedAt = TRUE] \in Row
<1> USE DEF TypeOK, Row, Instant
<1>1. [row EXCEPT !.status = "EXPIRED", !.lockReason = TRUE] \in Row
  OBVIOUS
<1>2. \A reason \in BOOLEAN, open \in BOOLEAN :
         [row EXCEPT !.lockReason = reason, !.unlockedAt = open] \in Row
  OBVIOUS
<1>3. EffectiveExpiry \in Instant
  BY TimesAssumption DEF EffectiveExpiry
<1>4. [row EXCEPT !.status = "IN_PROGRESS", !.startedAt = now,
                  !.expiresAt = EffectiveExpiry,
                  !.unlockedAt = TRUE, !.lockReason = FALSE] \in Row
  BY <1>3
<1>5. [row EXCEPT !.status = "SUBMITTED", !.score = None, !.expiresAt = None] \in Row
  OBVIOUS
<1>6. \A score \in Scores : [row EXCEPT !.status = "SUBMITTED", !.score = score] \in Row
  BY ScoresAssumption
<1>7. [row EXCEPT !.approvedAt = TRUE, !.lockReason = FALSE, !.unlockedAt = TRUE] \in Row
  OBVIOUS
<1>8. QED BY <1>1, <1>2, <1>4, <1>5, <1>6, <1>7

\* So are the states a job is put into.
LEMMA JobTypes ==
    ASSUME TypeOK, NEW j \in Jobs
    PROVE  /\ Idle \in JobState
           /\ \A step \in Steps, op \in Ops :
                [Idle EXCEPT !.step = step, !.op = op] \in JobState
           /\ \A op \in Ops :
                [step |-> "evaluate", op |-> op, read |-> row, at |-> now,
                 open |-> FALSE] \in JobState
<1> USE DEF TypeOK, JobState, Idle, Steps, Ops
<1>1. NewRow \in Row
  BY TimesAssumption DEF NewRow, Row, Instant
<1>2. QED BY <1>1

\* What evaluate writes, and what its job goes on with.
LEMMA EvaluateWrites ==
    ASSUME NEW j \in Jobs, evaluateStage(j)
    PROVE  /\ \/ row' = row
              \/ row' = [row EXCEPT !.status = "EXPIRED", !.lockReason = TRUE]
              \/ row' = Persisted(decide(job[j].read))
           /\ job[j].op # "start" => Finish(j)
           /\ job[j].op = "start" =>
                \E y \in {row', job[j].read} :
                  job' = [job EXCEPT ![j].step = "enter", ![j].open = decide(job[j].read),
                                     ![j].at = 0, ![j].read = y]
           /\ UNCHANGED <<now, condition, submission, promised>>
BY DEF evaluateStage

\* Each step keeps every variable in its type.
LEMMA TypeStep ==
    ASSUME TypeOK, [Next]_vars
    PROVE  TypeOK'
<1>0. /\ row \in Row /\ job \in [Jobs -> JobState] /\ now \in Nat
      /\ submission \in {"NONE", "UNDER_REVIEW", "EVALUATED"}
      /\ condition \in {"pass", "wait", "outside"} /\ promised \in BOOLEAN
  BY DEF TypeOK
<1>a. ASSUME NEW j \in Jobs, NEW step \in Steps, NEW op \in Ops, Goto(j, step, op)
      PROVE  job' \in [Jobs -> JobState]
  BY <1>0, <1>a, JobTypes DEF Goto
<1>b. ASSUME NEW j \in Jobs, Finish(j)
      PROVE  job' \in [Jobs -> JobState]
  BY <1>0, <1>b, JobTypes DEF Finish
<1>1. CASE UNCHANGED vars
  BY <1>0, <1>1 DEF vars, TypeOK
<1>2. CASE Tick
  BY <1>0, <1>2 DEF Tick, TypeOK
<1>3. CASE conditionChanges
  BY <1>0, <1>3 DEF conditionChanges, TypeOK
<1>4. ASSUME NEW j \in Jobs, readStage(j) PROVE TypeOK'
  <2>1. job' \in [Jobs -> JobState]
    <3>1. PICK op \in {"look", "start"} :
             job' = [job EXCEPT ![j] = [step |-> "evaluate", op |-> op, read |-> row,
                                        at |-> now, open |-> FALSE]]
      BY <1>4 DEF readStage
    <3>2. QED BY <1>0, <3>1, JobTypes DEF Ops
  <2>2. QED BY <1>0, <1>4, <2>1 DEF readStage, TypeOK
<1>5. ASSUME NEW j \in Jobs, evaluateStage(j) PROVE TypeOK'
  <2> DEFINE x == job[j].read
             open == decide(x)
  <2>1. x \in Row /\ open \in BOOLEAN
    BY <1>0 DEF JobState, decide, Row
  <2>2. row' \in Row
    <3>1. Persisted(open) \in Row
      BY <1>0, <2>1, RowTypes DEF Persisted
    <3>2. QED BY <1>0, <1>5, <3>1, RowTypes, EvaluateWrites
  <2>3. job' \in [Jobs -> JobState]
    <3>1. CASE job[j].op = "start"
      <4>1. PICK y \in {row', x} :
              job' = [job EXCEPT ![j].step = "enter", ![j].open = open,
                                 ![j].at = 0, ![j].read = y]
        BY <1>5, <3>1, EvaluateWrites
      <4>2. ASSUME NEW h \in JobState, NEW r \in Row, NEW b \in BOOLEAN
            PROVE  [h EXCEPT !.step = "enter", !.open = b, !.at = 0, !.read = r] \in JobState
        BY DEF JobState, Steps
      <4>3. y \in Row
        BY <2>1, <2>2
      <4>4. QED
        <5> HIDE DEF open
        <5>1. QED BY <1>0, <2>1, <4>1, <4>2, <4>3
    <3>2. CASE job[j].op # "start"
      BY <1>5, <1>b, <3>2, EvaluateWrites
    <3>3. QED BY <3>1, <3>2
  <2>4. UNCHANGED <<now, condition, submission, promised>>
    BY <1>5, EvaluateWrites
  <2>5. QED BY <1>0, <2>2, <2>3, <2>4 DEF TypeOK
<1>6. ASSUME NEW j \in Jobs, startRefused(j) PROVE TypeOK'
  BY <1>0, <1>6, <1>b DEF startRefused, TypeOK
<1>7. ASSUME NEW j \in Jobs, startStage(j) PROVE TypeOK'
  BY <1>0, <1>7, <1>a, RowTypes DEF startStage, TypeOK, Steps, Ops
<1>8. ASSUME NEW j \in Jobs, assertStageSubmittable(j) PROVE TypeOK'
  BY <1>0, <1>8, <1>a DEF assertStageSubmittable, TypeOK, Steps, Ops
<1>9. ASSUME NEW j \in Jobs, closeTooLate(j) PROVE TypeOK'
  BY <1>0, <1>9, <1>b, RowTypes DEF closeTooLate, TypeOK
<1>10. ASSUME NEW j \in Jobs, handIn(j) PROVE TypeOK'
  BY <1>0, <1>10, <1>b, RowTypes DEF handIn, TypeOK
<1>11. ASSUME NEW j \in Jobs, gradeSubmission(j) PROVE TypeOK'
  BY <1>0, <1>11, <1>a DEF gradeSubmission, TypeOK, Steps, Ops
<1>12. ASSUME NEW j \in Jobs, NEW score \in Scores, settleStageScore(j, score) PROVE TypeOK'
  BY <1>0, <1>12, <1>a, RowTypes DEF settleStageScore, TypeOK, Steps, Ops
<1>13. ASSUME NEW j \in Jobs, readForApproval(j) PROVE TypeOK'
  BY <1>0, <1>13, <1>a DEF readForApproval, TypeOK, Steps, Ops
<1>14. ASSUME NEW j \in Jobs, approveStage(j) PROVE TypeOK'
  <2>1. row' \in Row
    BY <1>14, RowTypes DEF approveStage
  <2>2. job' \in [Jobs -> JobState]
    BY <1>14, <1>b DEF approveStage
  <2>3. promised' \in BOOLEAN
    BY <1>0, <1>14 DEF approveStage
  <2>4. UNCHANGED <<now, condition, submission>>
    BY <1>14 DEF approveStage
  <2>5. QED BY <1>0, <2>1, <2>2, <2>3, <2>4 DEF TypeOK
<1>15. ASSUME NEW j \in Jobs, findOverdue(j) PROVE TypeOK'
  BY <1>0, <1>15, <1>a DEF findOverdue, TypeOK, Steps, Ops
<1>16. ASSUME NEW j \in Jobs, expireOverdueStages(j) PROVE TypeOK'
  BY <1>0, <1>16, <1>b, RowTypes DEF expireOverdueStages, TypeOK
<1>17. QED
  BY <1>1, <1>2, <1>3, <1>4, <1>5, <1>6, <1>7, <1>8, <1>9, <1>10, <1>11, <1>12,
     <1>13, <1>14, <1>15, <1>16 DEF Next, Handler

\* Every variable of StageAttempt always has its type.
THEOREM TypeCorrect == Spec => []TypeOK
<1>1. Init => TypeOK
  <2> SUFFICES ASSUME Init PROVE TypeOK
    OBVIOUS
  <2>1. NewRow \in Row
    BY TimesAssumption DEF NewRow, Row, Instant
  <2>2. Idle \in JobState
    BY <2>1 DEF Idle, JobState, Steps, Ops
  <2>3. QED BY <2>1, <2>2 DEF Init, TypeOK
<1>2. QED
  BY <1>1, TypeStep, PTL DEF Spec

-----------------------------------------------------------------------------
\* What holds of the row and its submission at every step.
RowOK ==
    /\ ReasonMeansShut
    /\ EntryWasPromised
    /\ condition = "pass" => promised
    /\ row.score # None => submission # "NONE"

\* Beginning a step that needs only the row's id, or finishing, holds nothing.
LEMMA JobChange ==
    ASSUME TypeOK, \A k \in Jobs : HeldOK(k), NEW j \in Jobs,
           \/ Finish(j)
           \/ \E step, op : Goto(j, step, op) /\ (step = "settle" => submission' # "NONE"),
           promised => promised', submission # "NONE" => submission' # "NONE"
    PROVE  \A k \in Jobs : HeldOK(k)'
<1> SUFFICES ASSUME NEW k \in Jobs PROVE HeldOK(k)'
  OBVIOUS
<1>0. job \in [Jobs -> JobState]
  BY DEF TypeOK
<1>1. CASE k # j
  <2>1. job'[k] = job[k]
    BY <1>0, <1>1 DEF Finish, Goto
  <2>2. QED BY <2>1 DEF HeldOK
<1>2. CASE k = j
  <2>1. CASE Finish(j)
    <3>1. job'[k] = Idle
      BY <1>0, <1>2, <2>1 DEF Finish
    <3>2. QED BY <3>1 DEF HeldOK, Idle, NewRow
  <2>2. ASSUME NEW step, NEW op, Goto(j, step, op), step = "settle" => submission' # "NONE"
        PROVE  HeldOK(k)'
    <3>1. job'[k] = [Idle EXCEPT !.step = step, !.op = op]
      BY <1>0, <1>2, <2>2 DEF Goto
    <3>2. QED BY <2>2, <3>1 DEF HeldOK, Idle, NewRow
  <2>3. QED BY <2>1, <2>2
<1>3. QED BY <1>1, <1>2

\* A step of the world, or one that only reads, keeps what jobs hold.
LEMMA JobsSame ==
    ASSUME \A k \in Jobs : HeldOK(k), job' = job, promised => promised',
           submission # "NONE" => submission' # "NONE"
    PROVE  \A k \in Jobs : HeldOK(k)'
BY DEF HeldOK

\* Each step keeps the invariant.
LEMMA RaceStep ==
    ASSUME TypeOK, RaceInv, [Next]_vars
    PROVE  RaceInv'
<1>0. /\ row \in Row /\ job \in [Jobs -> JobState] /\ RowOK
      /\ \A k \in Jobs : HeldOK(k)
  BY DEF TypeOK, RaceInv, RowOK
<1>q. ASSUME RowOK', \A k \in Jobs : HeldOK(k)'
      PROVE  RaceInv'
  BY <1>q DEF RaceInv, RowOK
<1> USE DEF ReasonMeansShut, EntryWasPromised
<1>1. CASE UNCHANGED vars
  <2>1. RowOK'
    BY <1>0, <1>1 DEF vars, RowOK
  <2>2. QED BY <1>0, <1>1, <1>q, <2>1, JobsSame DEF vars
<1>2. CASE Tick
  <2>1. RowOK'
    BY <1>0, <1>2 DEF Tick, RowOK
  <2>2. QED BY <1>0, <1>2, <1>q, <2>1, JobsSame DEF Tick
<1>3. CASE conditionChanges
  <2>1. RowOK'
    BY <1>0, <1>3 DEF conditionChanges, RowOK
  <2>2. QED BY <1>0, <1>3, <1>q, <2>1, JobsSame DEF conditionChanges
\* The row read may be unlocked, and then it was promised.
<1>4. ASSUME NEW j \in Jobs, readStage(j) PROVE RaceInv'
  <2>1. RowOK' /\ UNCHANGED <<promised, submission>>
    BY <1>0, <1>4 DEF readStage, RowOK
  <2>2. ASSUME NEW k \in Jobs PROVE HeldOK(k)'
    <3>1. CASE k = j
      <4>1. job'[k].read = row /\ job'[k].open = FALSE /\ job'[k].step = "evaluate"
        BY <1>0, <1>4, <3>1 DEF readStage
      <4>2. QED BY <1>0, <2>1, <4>1 DEF HeldOK, RowOK
    <3>2. CASE k # j
      <4>1. job'[k] = job[k]
        BY <1>0, <1>4, <3>2 DEF readStage
      <4>2. QED BY <1>0, <2>1, <4>1 DEF HeldOK
    <3>3. QED BY <3>1, <3>2
  <2>3. QED BY <1>q, <2>1, <2>2
\* An unlock is written only on a pass or an unlock read: promised either way.
<1>5. ASSUME NEW j \in Jobs, evaluateStage(j) PROVE RaceInv'
  <2> DEFINE x == job[j].read
             open == decide(x)
  <2>0. UNCHANGED <<condition, submission, promised>>
    BY <1>5, EvaluateWrites
  <2>1. open => promised
    BY <1>0 DEF decide, RowOK, HeldOK
  <2>2. RowOK'
    <3> HIDE DEF open
    <3>1. CASE row' = [row EXCEPT !.status = "EXPIRED", !.lockReason = TRUE]
      BY <1>0, <2>0, <3>1 DEF RowOK, Row
    <3>2. CASE row' = [row EXCEPT !.lockReason = ~open, !.unlockedAt = open]
      BY <1>0, <2>0, <2>1, <3>2 DEF RowOK, Row
    <3>3. CASE row' = row
      BY <1>0, <2>0, <3>3 DEF RowOK
    <3>4. QED BY <1>5, <3>1, <3>2, <3>3, EvaluateWrites DEF Persisted, open
  <2>3. \A k \in Jobs : HeldOK(k)'
    <3>1. CASE job[j].op = "start"
      <4> SUFFICES ASSUME NEW k \in Jobs PROVE HeldOK(k)'
        OBVIOUS
      <4>0. PICK y \in {row', x} :
              job' = [job EXCEPT ![j].step = "enter", ![j].open = open,
                                 ![j].at = 0, ![j].read = y]
        BY <1>5, <3>1, EvaluateWrites
      <4>1. CASE k # j
        <5>1. job'[k] = job[k]
          BY <1>0, <4>0, <4>1
        <5>2. QED BY <1>0, <2>0, <5>1 DEF HeldOK
      <4>2. CASE k = j
        <5>1. /\ job'[k].step = "enter" /\ job'[k].open = open
              /\ job'[k].read = row' \/ job'[k].read = x
          BY <1>0, <4>0, <4>2 DEF JobState
        <5>2. x.unlockedAt => promised
          BY <1>0 DEF HeldOK
        <5>3. row'.unlockedAt => promised'
          BY <2>2 DEF RowOK
        <5>4. QED BY <2>0, <2>1, <5>1, <5>2, <5>3 DEF HeldOK
      <4>3. QED BY <4>1, <4>2
    <3>2. CASE job[j].op # "start"
      <4>1. Finish(j)
        BY <1>5, <3>2, EvaluateWrites
      <4>2. QED BY <1>0, <2>0, <4>1, JobChange
    <3>3. QED BY <3>1, <3>2
  <2>4. QED BY <1>q, <2>2, <2>3
<1>6. ASSUME NEW j \in Jobs, startRefused(j) PROVE RaceInv'
  <2>1. RowOK'
    BY <1>0, <1>6 DEF startRefused, RowOK
  <2>2. QED BY <1>0, <1>6, <1>q, <2>1, JobChange DEF startRefused
\* A start writes on the verdict its job holds.
<1>7. ASSUME NEW j \in Jobs, startStage(j) PROVE RaceInv'
  <2>1. promised
    BY <1>0, <1>7 DEF startStage, MayEnter, HeldOK
  <2>2. RowOK'
    BY <1>0, <1>7, <2>1 DEF startStage, RowOK, Row
  <2>3. \A k \in Jobs : HeldOK(k)'
    BY <1>0, <1>7, JobChange DEF startStage
  <2>4. QED BY <1>q, <2>2, <2>3
<1>8. ASSUME NEW j \in Jobs, assertStageSubmittable(j) PROVE RaceInv'
  <2>1. RowOK'
    BY <1>0, <1>8 DEF assertStageSubmittable, RowOK
  <2>2. \A k \in Jobs : HeldOK(k)'
    BY <1>0, <1>8, JobChange DEF assertStageSubmittable
  <2>3. QED BY <1>q, <2>1, <2>2
<1>9. ASSUME NEW j \in Jobs, closeTooLate(j) PROVE RaceInv'
  <2>1. RowOK'
    BY <1>0, <1>9 DEF closeTooLate, RowOK, Row
  <2>2. QED BY <1>0, <1>9, <1>q, <2>1, JobChange DEF closeTooLate
<1>10. ASSUME NEW j \in Jobs, handIn(j) PROVE RaceInv'
  <2>1. RowOK'
    BY <1>0, <1>10 DEF handIn, RowOK, Row
  <2>2. QED BY <1>0, <1>10, <1>q, <2>1, JobChange DEF handIn
<1>11. ASSUME NEW j \in Jobs, gradeSubmission(j) PROVE RaceInv'
  <2>1. RowOK'
    BY <1>0, <1>11 DEF gradeSubmission, RowOK
  <2>2. \A k \in Jobs : HeldOK(k)'
    BY <1>0, <1>11, JobChange DEF gradeSubmission
  <2>3. QED BY <1>q, <2>1, <2>2
\* A score is settled only for a submission that exists.
<1>12. ASSUME NEW j \in Jobs, NEW score \in Scores, settleStageScore(j, score)
       PROVE  RaceInv'
  <2>1. submission # "NONE"
    BY <1>0, <1>12 DEF settleStageScore, HeldOK
  <2>2. RowOK'
    BY <1>0, <1>12, <2>1 DEF settleStageScore, RowOK, Row
  <2>3. \A k \in Jobs : HeldOK(k)'
    BY <1>0, <1>12, JobChange DEF settleStageScore
  <2>4. QED BY <1>q, <2>2, <2>3
<1>13. ASSUME NEW j \in Jobs, readForApproval(j) PROVE RaceInv'
  <2>1. RowOK'
    BY <1>0, <1>13 DEF readForApproval, RowOK
  <2>2. \A k \in Jobs : HeldOK(k)'
    BY <1>0, <1>13, JobChange DEF readForApproval
  <2>3. QED BY <1>q, <2>1, <2>2
<1>14. ASSUME NEW j \in Jobs, approveStage(j) PROVE RaceInv'
  <2>1. RowOK'
    BY <1>0, <1>14 DEF approveStage, RowOK, Row
  <2>2. QED BY <1>0, <1>14, <1>q, <2>1, JobChange DEF approveStage
<1>15. ASSUME NEW j \in Jobs, findOverdue(j) PROVE RaceInv'
  <2>1. RowOK'
    BY <1>0, <1>15 DEF findOverdue, RowOK
  <2>2. \A k \in Jobs : HeldOK(k)'
    BY <1>0, <1>15, JobChange DEF findOverdue
  <2>3. QED BY <1>q, <2>1, <2>2
<1>16. ASSUME NEW j \in Jobs, expireOverdueStages(j) PROVE RaceInv'
  <2>1. RowOK'
    BY <1>0, <1>16 DEF expireOverdueStages, RowOK, Row
  <2>2. QED BY <1>0, <1>16, <1>q, <2>1, JobChange DEF expireOverdueStages
<1>17. QED
  BY <1>1, <1>2, <1>3, <1>4, <1>5, <1>6, <1>7, <1>8, <1>9, <1>10, <1>11, <1>12,
     <1>13, <1>14, <1>15, <1>16 DEF Next, Handler

\* The invariant of the races.
THEOREM RacesCorrect == Spec => [](TypeOK /\ RaceInv)
<1>1. Init => RaceInv
  <2> SUFFICES ASSUME Init PROVE RaceInv
    OBVIOUS
  <2>1. ReasonMeansShut /\ EntryWasPromised
    BY DEF Init, ReasonMeansShut, EntryWasPromised, NewRow
  <2>2. (condition = "pass" => promised) /\ row.score = None
    BY DEF Init, NewRow
  <2>3. ASSUME NEW j \in Jobs PROVE HeldOK(j)
    <3>1. job[j] = Idle
      BY DEF Init
    <3>2. QED BY <3>1 DEF HeldOK, Idle, NewRow
  <2>4. QED BY <2>1, <2>2, <2>3 DEF RaceInv
<1>2. QED
  BY <1>1, TypeCorrect, RaceStep, PTL DEF Spec

\* A locked row with a stored reason is never unlocked, however the reads and
\* writes of evaluate, startStage, approveStage and the cron interleave.
THEOREM ReasonCorrect == Spec => []ReasonMeansShut
<1>1. RaceInv => ReasonMeansShut
  BY DEF RaceInv
<1>2. QED
  BY <1>1, RacesCorrect, PTL

\* Nobody has entered a stage whose gate never passed and that was never
\* approved, however many stale starts were under way.
THEOREM EntryCorrect == Spec => []EntryWasPromised
<1>1. RaceInv => EntryWasPromised
  BY DEF RaceInv
<1>2. QED
  BY <1>1, RacesCorrect, PTL

\* No interleaving wipes a stored score: the unique index on stageAttemptId
\* rolls a second hand-in back.
THEOREM ScoreKept == Spec => ScoreNeverLost
<1>1. ASSUME TypeOK, RaceInv, [Next]_vars, row.score # None
      PROVE  row'.score # None
  <2>0. row \in Row /\ submission # "NONE" /\ job \in [Jobs -> JobState]
    BY <1>1 DEF TypeOK, RaceInv
  <2>1. CASE row' = row
    BY <1>1, <2>1
  <2>2. ASSUME NEW j \in Jobs, evaluateStage(j) PROVE row'.score # None
    BY <1>1, <2>0, <2>2, EvaluateWrites DEF Persisted, Row
  <2>3. ASSUME NEW j \in Jobs, startStage(j) PROVE row'.score # None
    BY <1>1, <2>0, <2>3 DEF startStage, Row
  <2>4. ASSUME NEW j \in Jobs,
               closeTooLate(j) \/ approveStage(j) \/ expireOverdueStages(j)
        PROVE  row'.score # None
    BY <1>1, <2>0, <2>4 DEF closeTooLate, approveStage, expireOverdueStages, Row
  <2>5. ASSUME NEW j \in Jobs, handIn(j) PROVE row'.score # None
    BY <1>1, <2>0, <2>5 DEF handIn
  <2>6. ASSUME NEW j \in Jobs, NEW score \in Scores, settleStageScore(j, score)
        PROVE  row'.score # None
    BY <2>0, <2>6, ScoresAssumption, TimesAssumption DEF settleStageScore, Row
  <2>7. ASSUME NEW j \in Jobs,
               \/ readStage(j) \/ startRefused(j) \/ assertStageSubmittable(j)
               \/ gradeSubmission(j) \/ readForApproval(j) \/ findOverdue(j)
        PROVE  row' = row
    BY <2>7 DEF readStage, startRefused, assertStageSubmittable, gradeSubmission,
       readForApproval, findOverdue
  <2>8. CASE UNCHANGED vars \/ Tick \/ conditionChanges
    BY <2>1, <2>8 DEF vars, Tick, conditionChanges
  <2>9. QED
    BY <1>1, <2>1, <2>2, <2>3, <2>4, <2>5, <2>6, <2>7, <2>8 DEF Next, Handler
<1>2. TypeOK /\ RaceInv /\ [Next]_vars => [row.score # None => row'.score # None]_vars
  BY <1>1
<1>3. QED
  BY <1>2, RacesCorrect, PTL DEF Spec, ScoreNeverLost
=============================================================================
