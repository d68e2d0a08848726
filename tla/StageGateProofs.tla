--------------------------- MODULE StageGateProofs ---------------------------
(***************************************************************************)
(* Theorems about StageGate, for every number of stages and candidates,    *)
(* every gate configuration and every bound.                               *)
(*                                                                         *)
(* Rows: handlers change an attempt in one of a few ways, each proved      *)
(* once to keep RowOK; from it the lifecycle, stickiness and the news.     *)
(* Quota: the winners, counted, out-rank whoever is turned away.           *)
(* Scores: what aggregateScore adds up has a closed form over any finite   *)
(* set of stages, and the comparison with the threshold follows from it.   *)
(* Walk: after stage i the loop of evaluate has the new rows up to i and   *)
(* the old ones behind; a gate reads only earlier stages, so both agree.   *)
(***************************************************************************)
EXTENDS StageGate, FiniteSetTheorems, TLAPS

\* Evaluating one candidate's attempts yields attempts again, whatever decide
\* answers: PersistDecision and the expiry only set columns to legal values.
LEMMA EvaluateType ==
    ASSUME NEW gs, NEW a \in [Stages -> Attempt], NEW t
    PROVE  evaluate(gs, a, t) \in [Stages -> Attempt]
<1> DEFINE e == ExpireOverdue(a, t)
<1>1. e \in [Stages -> Attempt]
  <2>1. ASSUME NEW x \in Attempt
        PROVE  [x EXCEPT !.status = "EXPIRED", !.lockReason = TRUE] \in Attempt
    BY DEF Attempt, TERMINAL_STATUSES
  <2>2. QED BY <2>1 DEF ExpireOverdue
<1>2. ASSUME NEW x \in Attempt, NEW open
      PROVE  PersistDecision(x, open) \in Attempt
  <2>1. [x EXCEPT !.lockReason = FALSE, !.unlockedAt = TRUE] \in Attempt
    BY DEF Attempt
  <2>2. [x EXCEPT !.lockReason = TRUE, !.unlockedAt = FALSE] \in Attempt
    BY DEF Attempt
  <2>3. QED BY <2>1, <2>2 DEF PersistDecision
<1>3. ASSUME NEW s \in Stages
      PROVE  PersistDecision(e[s], decide(gs, e, s, t)) \in Attempt
  BY <1>1, <1>2
<1>4. QED BY <1>3 DEF evaluate

\* The deadline startStage computes is a legal column value.
LEMMA ExpiryType ==
    ASSUME TypeOK, NEW s \in Stages
    PROVE  EffectiveExpiry(gate[s]) \in Instant
<1>1. gate[s] \in Gate
  BY DEF TypeOK
<1>2. /\ gate[s].closesAt \in Instant
      /\ gate[s].timeLimit \in (Nat \ {0}) \cup {None}
  BY <1>1 DEF Gate
<1>3. now \in Nat
  BY DEF TypeOK
<1>4. CASE gate[s].timeLimit = None
  BY <1>4 DEF EffectiveExpiry, Instant
<1>5. CASE gate[s].timeLimit # None
  BY <1>2, <1>3, <1>5 DEF EffectiveExpiry, Instant
<1>6. QED BY <1>4, <1>5

\* Writing a score and the settled status keeps the candidate's rows typed,
\* whether or not the evaluation that follows has anything to unlock.
LEMMA SettleType ==
    ASSUME TypeOK, NEW c \in Candidates, NEW s \in Stages, NEW score \in Scores,
           settleStageScore(c, s, score)
    PROVE  /\ att' \in [Candidates -> [Stages -> Attempt]]
           /\ told' \in [Candidates -> [Stages -> SUBSET News]]
<1> DEFINE settled == [att[c] EXCEPT ![s].score = score, ![s].status = "SUBMITTED"]
<1>1. settled \in [Stages -> Attempt]
  <2>1. ASSUME NEW x \in Attempt
        PROVE  [x EXCEPT !.score = score, !.status = "SUBMITTED"] \in Attempt
    BY ScoresAssumption DEF Attempt, TERMINAL_STATUSES
  <2>2. att[c] \in [Stages -> Attempt]
    BY DEF TypeOK
  <2>3. settled = [att[c] EXCEPT ![s] = [att[c][s] EXCEPT !.score = score,
                                                          !.status = "SUBMITTED"]]
    BY <2>2 DEF Attempt
  <2>4. QED BY <2>1, <2>2, <2>3
<1>2. evaluate(gate, settled, now) \in [Stages -> Attempt]
  BY <1>1, EvaluateType
<1>3. att' \in [Candidates -> [Stages -> Attempt]]
  <2>1. \/ att' = [att EXCEPT ![c] = settled]
        \/ att' = [att EXCEPT ![c] = evaluate(gate, settled, now)]
    BY DEF settleStageScore
  <2>2. QED BY <1>1, <1>2, <2>1 DEF TypeOK
<1>4. told' \in [Candidates -> [Stages -> SUBSET News]]
  BY DEF settleStageScore, Tell, TypeOK, News
<1>5. QED BY <1>3, <1>4

-----------------------------------------------------------------------------
\* Every step keeps every variable in its type.
LEMMA TypeStep ==
    ASSUME TypeOK, [Next]_vars
    PROVE  TypeOK'
<1> USE DEF TypeOK
<1>0. /\ NewAttempt \in Attempt
      /\ \A c \in Candidates : att[c] \in [Stages -> Attempt]
      /\ \A c \in Candidates, s \in Stages : att[c][s] \in Attempt
  BY NoneAssumption DEF NewAttempt, Attempt, Instant
<1>1. CASE Tick
  BY <1>1 DEF Tick
<1>2. ASSUME NEW c \in Candidates, getStages(c)
      PROVE  TypeOK'
  <2>1. evaluate(gate, att[c], now) \in [Stages -> Attempt]
    BY <1>0, EvaluateType
  <2>2. QED BY <1>2, <2>1 DEF getStages
<1>3. CASE releaseStagesWaitingOnGrading
  <2>1. CASE findWaitingOnGrading
    <3>1. PICK B \in Batches(WaitingOnGrading) : round' = {p[1] : p \in B}
      BY <2>1 DEF findWaitingOnGrading
    <3>2. round' \subseteq rows
      BY <3>1 DEF Batches, WaitingOnGrading
    <3>3. QED BY <2>1, <3>2 DEF findWaitingOnGrading
  <2>2. ASSUME NEW c \in Candidates, evaluateFound(c)
        PROVE  TypeOK'
    <3>1. evaluate(gate, att[c], now) \in [Stages -> Attempt]
      BY <1>0, EvaluateType
    <3>2. QED BY <2>2, <3>1 DEF evaluateFound
  <2>3. QED BY <1>3, <2>1, <2>2 DEF releaseStagesWaitingOnGrading
<1>4. ASSUME NEW c \in Candidates, NEW s \in Stages, startStage(c, s)
      PROVE  TypeOK'
  <2> DEFINE e == evaluate(gate, att[c], now)
             expiry == EffectiveExpiry(gate[s])
             started == [e EXCEPT ![s].status = "IN_PROGRESS",
                                  ![s].expiresAt = expiry,
                                  ![s].unlockedAt = TRUE,
                                  ![s].lockReason = FALSE]
  <2>1. e \in [Stages -> Attempt]
    BY <1>0, EvaluateType
  <2>2. expiry \in Instant
    BY ExpiryType
  <2>3. started \in [Stages -> Attempt]
    <3> HIDE DEF e, expiry
    <3>1. [e[s] EXCEPT !.status = "IN_PROGRESS", !.expiresAt = expiry,
                       !.unlockedAt = TRUE, !.lockReason = FALSE] \in Attempt
      <4>1. e[s] \in Attempt
        BY <2>1
      <4>2. ASSUME NEW x \in Attempt
            PROVE  [x EXCEPT !.status = "IN_PROGRESS", !.expiresAt = expiry,
                             !.unlockedAt = TRUE, !.lockReason = FALSE] \in Attempt
        BY <2>2 DEF Attempt
      <4>3. QED BY <4>1, <4>2
    <3>2. started = [e EXCEPT ![s] =
              [e[s] EXCEPT !.status = "IN_PROGRESS", !.expiresAt = expiry,
                           !.unlockedAt = TRUE, !.lockReason = FALSE]]
      BY <2>1 DEF Attempt
    <3>3. QED BY <2>1, <3>1, <3>2
  <2>4. evaluate(gate, started, now) \in [Stages -> Attempt]
    BY <2>3, EvaluateType
  <2>5. att' = [att EXCEPT ![c] = evaluate(gate, started, now)]
    BY <1>4 DEF startStage
  <2>6. /\ rows' = rows \cup {c}
        /\ UNCHANGED <<now, gate, review, told, round>>
    BY <1>4 DEF startStage
  <2>7. QED BY <2>4, <2>5, <2>6
<1>5. ASSUME NEW c \in Candidates, NEW s \in Stages,
             NEW score \in ObjectiveScores(s), submitStage(c, s, score)
      PROVE  TypeOK'
  <2> DEFINE st == IF Kind[s] = "subjective" THEN "AWAITING_GRADE" ELSE "SUBMITTED"
             handedIn(x) == [x EXCEPT !.status = st, !.submittedAt = now,
                                      !.score = score, !.expiresAt = None]
  <2>1. ASSUME NEW x \in Attempt
        PROVE  handedIn(x) \in Attempt
    <3>1. score \in (0 .. 100) \cup {None}
      BY ScoresAssumption DEF ObjectiveScores
    <3>2. st \in {"LOCKED", "IN_PROGRESS"} \cup TERMINAL_STATUSES
      BY DEF TERMINAL_STATUSES
    <3>3. now \in Instant /\ None \in Instant
      BY DEF Instant
    <3> HIDE DEF st
    <3>4. QED BY <3>1, <3>2, <3>3 DEF Attempt
  <2>2. att' = [att EXCEPT ![c] = [att[c] EXCEPT ![s] = handedIn(att[c][s])]]
    <3>1. att' = [att EXCEPT ![c][s].status = st, ![c][s].submittedAt = now,
                             ![c][s].score = score, ![c][s].expiresAt = None]
      BY <1>5 DEF submitStage
    <3> HIDE DEF st
    <3>2. QED BY <1>0, <3>1, ZenonT(30) DEF Attempt
  <2>3. att' \in [Candidates -> [Stages -> Attempt]]
    <3> HIDE DEF handedIn
    <3>1. QED BY <1>0, <2>1, <2>2
  <2>4. review' \in [Candidates -> [Stages -> ReviewState]]
    BY <1>5 DEF submitStage, ReviewState
  <2>5. QED BY <1>5, <2>3, <2>4 DEF submitStage
<1>6. ASSUME NEW c \in Candidates, NEW s \in Stages, submitTooLate(c, s)
      PROVE  TypeOK'
  <2>1. ASSUME NEW x \in Attempt
        PROVE  [x EXCEPT !.status = "EXPIRED", !.lockReason = TRUE] \in Attempt
    BY DEF Attempt, TERMINAL_STATUSES
  <2>2. att' = [att EXCEPT ![c] = [att[c] EXCEPT ![s] =
                    [att[c][s] EXCEPT !.status = "EXPIRED", !.lockReason = TRUE]]]
    BY <1>0, <1>6 DEF submitTooLate, Attempt
  <2>3. att' \in [Candidates -> [Stages -> Attempt]]
    BY <1>0, <2>1, <2>2
  <2>4. QED BY <1>6, <2>3 DEF submitTooLate
<1>7. ASSUME NEW c \in Candidates, NEW s \in Stages, NEW score \in Scores,
             aiEvaluates(c, s, score) \/ gradeSubmission(c, s, score)
      PROVE  TypeOK'
  <2>1. settleStageScore(c, s, score)
    BY <1>7 DEF aiEvaluates, gradeSubmission
  <2>2. /\ att' \in [Candidates -> [Stages -> Attempt]]
        /\ told' \in [Candidates -> [Stages -> SUBSET News]]
    BY <2>1, SettleType
  <2>3. review' \in [Candidates -> [Stages -> ReviewState]]
    <3>1. \E r \in ReviewState : review' = [review EXCEPT ![c][s] = r]
      BY <1>7 DEF aiEvaluates, gradeSubmission, ReviewState
    <3>2. QED BY <3>1
  <2>4. UNCHANGED <<now, gate, rows, round>>
    BY <1>7 DEF aiEvaluates, gradeSubmission
  <2>5. QED BY <2>2, <2>3, <2>4
<1>8. ASSUME NEW c \in Candidates, NEW s \in Stages, markAsManualReview(c, s)
      PROVE  TypeOK'
  BY <1>8 DEF markAsManualReview, ReviewState
<1>9. ASSUME NEW c \in Candidates, NEW s \in Stages, approveStage(c, s)
      PROVE  TypeOK'
  <2>1. ASSUME NEW x \in Attempt
        PROVE  [x EXCEPT !.approvedAt = TRUE, !.lockReason = FALSE,
                         !.unlockedAt = TRUE] \in Attempt
    BY DEF Attempt
  <2>2. att' = [att EXCEPT ![c] = [att[c] EXCEPT ![s] =
                    [att[c][s] EXCEPT !.approvedAt = TRUE, !.lockReason = FALSE,
                                      !.unlockedAt = TRUE]]]
    BY <1>0, <1>9 DEF approveStage, Attempt
  <2>3. att' \in [Candidates -> [Stages -> Attempt]]
    BY <1>0, <2>1, <2>2
  <2>4. told' \in [Candidates -> [Stages -> SUBSET News]]
    BY <1>9 DEF approveStage, Tell, News
  <2>5. QED BY <1>9, <2>3, <2>4 DEF approveStage
<1>10. ASSUME NEW s \in Stages, NEW g \in GateChoices, updateStageGate(s, g)
       PROVE  TypeOK'
  BY <1>10, GateChoicesAssumption DEF updateStageGate
<1>11. CASE expireOverdueStages
  <2>0. PICK B \in Batches(ExpiredAttempts) : closeExpired(B)
    BY <1>11 DEF expireOverdueStages
  <2>1. ASSUME NEW x \in Attempt
        PROVE  [x EXCEPT !.status = "EXPIRED", !.lockReason = TRUE] \in Attempt
    BY DEF Attempt, TERMINAL_STATUSES
  <2>2. att' \in [Candidates -> [Stages -> Attempt]]
    BY <1>0, <2>0, <2>1 DEF closeExpired
  <2>3. told' \in [Candidates -> [Stages -> SUBSET News]]
    BY <2>0 DEF closeExpired, News
  <2>4. QED BY <1>11, <2>2, <2>3 DEF expireOverdueStages
<1>12. ASSUME NEW s \in Stages, applyQuota(s)
       PROVE  TypeOK'
  <2>0. PICK W \in SUBSET Ranked(s) : giveVerdicts(s, W)
    BY <1>12 DEF applyQuota
  <2>1. ASSUME NEW x \in Attempt
        PROVE  /\ [x EXCEPT !.unlockedAt = TRUE, !.lockReason = FALSE] \in Attempt
               /\ [x EXCEPT !.status = "FAILED", !.lockReason = TRUE] \in Attempt
    BY DEF Attempt, TERMINAL_STATUSES
  <2>2. \A a \in [Stages -> Attempt] :
          /\ [a EXCEPT ![s].unlockedAt = TRUE, ![s].lockReason = FALSE] \in [Stages -> Attempt]
          /\ [a EXCEPT ![s].status = "FAILED", ![s].lockReason = TRUE] \in [Stages -> Attempt]
    <3> TAKE a \in [Stages -> Attempt]
    <3>1. /\ [a EXCEPT ![s].unlockedAt = TRUE, ![s].lockReason = FALSE]
               = [a EXCEPT ![s] = [a[s] EXCEPT !.unlockedAt = TRUE, !.lockReason = FALSE]]
          /\ [a EXCEPT ![s].status = "FAILED", ![s].lockReason = TRUE]
               = [a EXCEPT ![s] = [a[s] EXCEPT !.status = "FAILED", !.lockReason = TRUE]]
      BY DEF Attempt
    <3>2. QED BY <2>1, <3>1
  <2>3. att' \in [Candidates -> [Stages -> Attempt]]
    <3> DEFINE admit(a) == [a EXCEPT ![s].unlockedAt = TRUE, ![s].lockReason = FALSE]
               reject(a) == [a EXCEPT ![s].status = "FAILED", ![s].lockReason = TRUE]
    <3>1. att' = [c \in Candidates |->
                     IF c \in Undecided(s) \cap W THEN admit(att[c])
                     ELSE IF c \in Undecided(s) THEN reject(att[c]) ELSE att[c]]
      BY <2>0 DEF giveVerdicts
    <3>2. \A a \in [Stages -> Attempt] : /\ admit(a) \in [Stages -> Attempt]
                                         /\ reject(a) \in [Stages -> Attempt]
      BY <2>2
    <3> HIDE DEF admit, reject
    <3>3. QED BY <1>0, <3>1, <3>2
  <2>4. told' \in [Candidates -> [Stages -> SUBSET News]]
    BY <2>0 DEF giveVerdicts, News
  <2>5. QED BY <1>12, <2>3, <2>4 DEF applyQuota
<1>13. CASE UNCHANGED vars
  BY <1>13 DEF vars
<1>14. QED
  BY <1>1, <1>2, <1>3, <1>4, <1>5, <1>6, <1>7, <1>8, <1>9, <1>10, <1>11, <1>12, <1>13
  DEF Next

\* Every variable keeps its type for ever, for all gates the owner may save.
THEOREM TypeCorrect == Spec => []TypeOK
<1>1. Init => TypeOK
  <2> SUFFICES ASSUME Init PROVE TypeOK
    OBVIOUS
  <2>1. NewAttempt \in Attempt
    BY DEF NewAttempt, Attempt, Instant
  <2>2. gate \in [Stages -> Gate]
    BY InitialGatesAssumption DEF Init
  <2>3. att \in [Candidates -> [Stages -> Attempt]]
    BY <2>1 DEF Init
  <2>4. QED BY <2>2, <2>3 DEF Init, TypeOK, ReviewState
<1>2. TypeOK /\ [Next]_vars => TypeOK'
  BY TypeStep
<1>3. QED BY <1>1, <1>2, PTL DEF Spec

-----------------------------------------------------------------------------
(***************************************************************************)
(* What one step does to one attempt.  Every handler changes a row x and   *)
(* the review state r of its submission in one of a few ways; the          *)
(* invariants and the refinement follow row by row.                        *)
(***************************************************************************)
\* The columns evaluate never writes.
SameWork(x, y) ==
    /\ y.score = x.score
    /\ y.submittedAt = x.submittedAt
    /\ y.expiresAt = x.expiresAt

\* evaluate, the crons and submitTooLate: a running attempt may expire, a
\* locked one may be unlocked or shut again.
Looked(x, y) ==
    /\ SameWork(x, y)
    /\ x.status = "IN_PROGRESS" => y.status \in {"IN_PROGRESS", "EXPIRED"}
    /\ x.status # "IN_PROGRESS" => y.status = x.status
    /\ x.status # "LOCKED" => y.unlockedAt = x.unlockedAt
    /\ x.status = "LOCKED" /\ (x.lockReason => ~x.unlockedAt) /\ y.lockReason
         => ~y.unlockedAt

Started(x, y) ==
    /\ x.status = "LOCKED" /\ y.status \in {"IN_PROGRESS", "EXPIRED"}
    /\ y.unlockedAt /\ y.score = x.score /\ y.submittedAt = x.submittedAt

HandedIn(x, y) ==
    /\ x.status = "IN_PROGRESS" /\ y.status \in {"SUBMITTED", "AWAITING_GRADE"}
    /\ y.submittedAt # None /\ y.expiresAt = None /\ y.unlockedAt = x.unlockedAt

Settled(x, y) ==
    /\ y.status = "SUBMITTED" /\ y.score # None
    /\ y.unlockedAt = x.unlockedAt
    /\ y.submittedAt = x.submittedAt /\ y.expiresAt = x.expiresAt

Admitted(x, y) ==
    SameWork(x, y) /\ y.status = x.status /\ y.unlockedAt /\ ~y.lockReason

Rejected(x, y) ==
    SameWork(x, y) /\ x.status = "LOCKED" /\ y.status = "FAILED"

RowStep(x, r, y, q) ==
    \/ r = q /\ (Looked(x, y) \/ Started(x, y) \/ Admitted(x, y))
    \/ HandedIn(x, y) /\ q \in {"PENDING_AI", "UNDER_REVIEW"}
    \/ r \in {"PENDING_AI", "UNDER_REVIEW"} /\ q \in {"UNDER_REVIEW", "EVALUATED"}
         /\ (Settled(x, y) \/ (x = y /\ q = "UNDER_REVIEW"))

\* The one step that turns a candidate away is the quota of that stage.
Verdict(d, q) ==
    /\ applyQuota(q)
    /\ Rejected(att[d][q], att'[d][q])
    /\ review'[d][q] = review[d][q]

\* evaluate only ever looks.
LEMMA EvaluateLooks ==
    ASSUME NEW gs, NEW a \in [Stages -> Attempt], NEW t, NEW s \in Stages
    PROVE  Looked(a[s], evaluate(gs, a, t)[s])
<1> DEFINE e == ExpireOverdue(a, t)
           y == PersistDecision(e[s], decide(gs, e, s, t))
<1>1. evaluate(gs, a, t)[s] = y
  BY DEF evaluate
<1>2. a[s] \in Attempt
  OBVIOUS
<1>3. CASE a[s].status # "LOCKED"
  <2>1. /\ e[s] = IF Overdue(a[s], t)
                  THEN [a[s] EXCEPT !.status = "EXPIRED", !.lockReason = TRUE]
                  ELSE a[s]
        /\ e[s].status # "LOCKED"
    BY <1>2, <1>3 DEF ExpireOverdue, Attempt
  <2>2. y = e[s]
    BY <2>1 DEF PersistDecision
  <2>3. ASSUME NEW x \in Attempt, NEW z, x.status # "LOCKED",
               z = x \/ /\ x.status = "IN_PROGRESS"
                        /\ z = [x EXCEPT !.status = "EXPIRED", !.lockReason = TRUE]
        PROVE  Looked(x, z)
    BY <2>3 DEF Looked, SameWork, Attempt
  <2>4. y = a[s] \/ /\ a[s].status = "IN_PROGRESS"
                    /\ y = [a[s] EXCEPT !.status = "EXPIRED", !.lockReason = TRUE]
    BY <2>1, <2>2 DEF Overdue
  <2> HIDE DEF y
  <2>5. QED BY <1>1, <1>2, <1>3, <2>3, <2>4
<1>4. CASE a[s].status = "LOCKED"
  <2>1. e[s] = a[s]
    BY <1>4 DEF ExpireOverdue, Overdue
  <2>2. \/ y = a[s]
        \/ y = [a[s] EXCEPT !.lockReason = FALSE, !.unlockedAt = TRUE]
        \/ y = [a[s] EXCEPT !.lockReason = TRUE, !.unlockedAt = FALSE]
    BY <2>1 DEF PersistDecision
  <2>3. ASSUME NEW x \in Attempt, NEW z, x.status = "LOCKED",
               \/ z = x
               \/ z = [x EXCEPT !.lockReason = FALSE, !.unlockedAt = TRUE]
               \/ z = [x EXCEPT !.lockReason = TRUE, !.unlockedAt = FALSE]
        PROVE  Looked(x, z)
    BY <2>3 DEF Looked, SameWork, Attempt
  <2> HIDE DEF y
  <2>4. QED BY <1>1, <1>2, <1>4, <2>2, <2>3
<1>5. QED BY <1>3, <1>4

LEMMA LookedReflexive ==
    ASSUME NEW x \in Attempt
    PROVE  Looked(x, x)
BY DEF Looked, SameWork

LEMMA LookedTransitive ==
    ASSUME NEW x \in Attempt, NEW y \in Attempt, NEW z \in Attempt,
           Looked(x, y), Looked(y, z)
    PROVE  Looked(x, z)
BY DEF Looked, SameWork

\* A start between two evaluations.
LEMMA StartedBetween ==
    ASSUME NEW x, NEW y, NEW z, NEW w,
           Looked(x, y), y.status = "LOCKED",
           z.status = "IN_PROGRESS", z.unlockedAt = TRUE,
           z.score = y.score, z.submittedAt = y.submittedAt,
           Looked(z, w)
    PROVE  Started(x, w)
<1>1. x.status = "LOCKED"
  BY DEF Looked
<1>2. w.status \in {"IN_PROGRESS", "EXPIRED"}
  BY DEF Looked
<1>3. w.unlockedAt = z.unlockedAt
  BY DEF Looked
<1>4. w.score = x.score /\ w.submittedAt = x.submittedAt
  BY DEF Looked, SameWork
<1>5. QED BY <1>1, <1>2, <1>3, <1>4 DEF Started

\* Every step of the system moves every attempt in one of these ways.
LEMMA StepRows ==
    ASSUME TypeOK, [Next]_vars, NEW d \in Candidates, NEW q \in Stages
    PROVE  RowStep(att[d][q], review[d][q], att'[d][q], review'[d][q]) \/ Verdict(d, q)
<1> DEFINE P == RowStep(att[d][q], review[d][q], att'[d][q], review'[d][q]) \/ Verdict(d, q)
<1> SUFFICES P
  OBVIOUS
<1>0. /\ att \in [Candidates -> [Stages -> Attempt]]
      /\ att[d] \in [Stages -> Attempt]
      /\ att[d][q] \in Attempt
      /\ review \in [Candidates -> [Stages -> ReviewState]]
      /\ now \in Nat
  BY DEF TypeOK
<1>1. ASSUME UNCHANGED <<att, review>>
      PROVE  P
  BY <1>0, <1>1, LookedReflexive DEF RowStep
<1>2. CASE Tick
  BY <1>1, <1>2 DEF Tick
<1>3. ASSUME NEW c \in Candidates, getStages(c) \/ evaluateFound(c)
      PROVE  P
  <2>1. /\ att' = [att EXCEPT ![c] = evaluate(gate, att[c], now)]
        /\ review' = review
    BY <1>3 DEF getStages, evaluateFound
  <2>2. CASE c = d
    BY <1>0, <2>1, <2>2, EvaluateLooks DEF RowStep
  <2>3. CASE c # d
    BY <1>0, <2>1, <2>3, LookedReflexive DEF RowStep
  <2>4. QED BY <2>2, <2>3
<1>4. CASE releaseStagesWaitingOnGrading
  <2>1. CASE findWaitingOnGrading
    BY <1>1, <2>1 DEF findWaitingOnGrading
  <2>2. QED BY <1>3, <1>4, <2>1 DEF releaseStagesWaitingOnGrading
<1>5. ASSUME NEW c \in Candidates, NEW s \in Stages, startStage(c, s)
      PROVE  P
  <2> DEFINE e == evaluate(gate, att[c], now)
             expiry == EffectiveExpiry(gate[s])
             started == [e EXCEPT ![s].status = "IN_PROGRESS",
                                  ![s].expiresAt = expiry,
                                  ![s].unlockedAt = TRUE,
                                  ![s].lockReason = FALSE]
             done == evaluate(gate, started, now)
  <2>1. /\ att' = [att EXCEPT ![c] = done]
        /\ review' = review
        /\ e[s].status = "LOCKED"
    BY <1>5 DEF startStage, Startable
  <2>2. e \in [Stages -> Attempt]
    BY <1>0, EvaluateType
  <2>3. started \in [Stages -> Attempt]
    <3> HIDE DEF e, expiry
    <3>1. expiry \in Instant
      BY ExpiryType DEF expiry
    <3>2. ASSUME NEW x \in Attempt
          PROVE  [x EXCEPT !.status = "IN_PROGRESS", !.expiresAt = expiry,
                           !.unlockedAt = TRUE, !.lockReason = FALSE] \in Attempt
      BY <3>1 DEF Attempt
    <3>3. started = [e EXCEPT ![s] =
              [e[s] EXCEPT !.status = "IN_PROGRESS", !.expiresAt = expiry,
                           !.unlockedAt = TRUE, !.lockReason = FALSE]]
      BY <2>2 DEF Attempt
    <3>4. QED BY <2>2, <3>2, <3>3
  <2>4. done \in [Stages -> Attempt]
    BY <2>3, EvaluateType
  <2>5. CASE c # d
    BY <1>0, <2>1, <2>5, LookedReflexive DEF RowStep
  <2>6. CASE c = d /\ q # s
    <3>1. Looked(att[d][q], e[q])
      BY <1>0, <2>6, EvaluateLooks
    <3>2. Looked(started[q], done[q])
      BY <2>3, EvaluateLooks
    <3>3. started[q] = e[q]
      BY <2>2, <2>6
    <3>4. Looked(att[d][q], done[q])
      <4> HIDE DEF e, started, done
      <4>1. QED BY <1>0, <2>2, <2>4, <3>1, <3>2, <3>3, LookedTransitive
    <3>5. att'[d][q] = done[q] /\ review'[d][q] = review[d][q]
      BY <1>0, <2>1, <2>6
    <3> HIDE DEF done
    <3>6. QED BY <3>4, <3>5 DEF RowStep
  <2>7. CASE c = d /\ q = s
    <3>1. Looked(att[d][s], e[s])
      BY <1>0, <2>7, EvaluateLooks
    <3>2. Looked(started[s], done[s])
      BY <2>3, EvaluateLooks
    <3>3. /\ started[s].status = "IN_PROGRESS" /\ started[s].unlockedAt = TRUE
          /\ started[s].score = e[s].score
          /\ started[s].submittedAt = e[s].submittedAt
      <4> HIDE DEF e, expiry
      <4>1. QED BY <2>2 DEF Attempt
    <3>4. att'[d][q] = done[s] /\ review'[d][q] = review[d][q]
      BY <1>0, <2>1, <2>7
    <3> HIDE DEF e, started, done
    <3>5. Started(att[d][s], done[s])
      BY <2>1, <3>1, <3>2, <3>3, StartedBetween
    <3>6. QED BY <2>7, <3>4, <3>5 DEF RowStep
  <2>8. QED BY <2>5, <2>6, <2>7
<1>6. ASSUME NEW c \in Candidates, NEW s \in Stages,
             NEW score \in ObjectiveScores(s), submitStage(c, s, score)
      PROVE  P
  <2> DEFINE st == IF Kind[s] = "subjective" THEN "AWAITING_GRADE" ELSE "SUBMITTED"
  <2>1. /\ att[c][s].status = "IN_PROGRESS"
        /\ att' = [att EXCEPT ![c][s].status = st, ![c][s].submittedAt = now,
                              ![c][s].score = score, ![c][s].expiresAt = None]
        /\ \E r \in {"PENDING_AI", "UNDER_REVIEW"} : review' = [review EXCEPT ![c][s] = r]
    BY <1>6 DEF submitStage
  <2>2. CASE c = d /\ s = q
    <3>1. st \in {"SUBMITTED", "AWAITING_GRADE"}
      OBVIOUS
    <3> HIDE DEF st
    <3>2. /\ att'[d][q].status = st /\ att'[d][q].submittedAt = now
          /\ att'[d][q].expiresAt = None
          /\ att'[d][q].unlockedAt = att[d][q].unlockedAt
      BY <1>0, <2>1, <2>2 DEF Attempt
    <3>3. review'[d][q] \in {"PENDING_AI", "UNDER_REVIEW"}
      BY <1>0, <2>1, <2>2
    <3>4. now # None
      BY <1>0, NoneAssumption
    <3>5. QED BY <2>1, <2>2, <3>1, <3>2, <3>3, <3>4 DEF RowStep, HandedIn
  <2>3. CASE ~(c = d /\ s = q)
    <3> HIDE DEF st
    <3>1. att'[d][q] = att[d][q] /\ review'[d][q] = review[d][q]
      BY <1>0, <2>1, <2>3
    <3>2. QED BY <1>0, <3>1, LookedReflexive DEF RowStep
  <2>4. QED BY <2>2, <2>3
<1>7. ASSUME NEW c \in Candidates, NEW s \in Stages, submitTooLate(c, s)
      PROVE  P
  <2>1. /\ att[c][s].status = "IN_PROGRESS"
        /\ att' = [att EXCEPT ![c][s].status = "EXPIRED", ![c][s].lockReason = TRUE]
        /\ review' = review
    BY <1>7 DEF submitTooLate
  <2>2. CASE c = d /\ s = q
    <3>1. /\ att'[d][q].status = "EXPIRED"
          /\ att'[d][q].unlockedAt = att[d][q].unlockedAt
          /\ SameWork(att[d][q], att'[d][q])
      BY <1>0, <2>1, <2>2 DEF Attempt, SameWork
    <3>2. QED BY <2>1, <2>2, <3>1 DEF RowStep, Looked
  <2>3. CASE ~(c = d /\ s = q)
    <3>1. att'[d][q] = att[d][q]
      BY <1>0, <2>1, <2>3
    <3>2. QED BY <1>0, <2>1, <3>1, LookedReflexive DEF RowStep
  <2>4. QED BY <2>2, <2>3
<1>8. ASSUME NEW c \in Candidates, NEW s \in Stages, NEW score \in Scores,
             settleStageScore(c, s, score),
             review[c][s] \in {"PENDING_AI", "UNDER_REVIEW"},
             \E r \in {"UNDER_REVIEW", "EVALUATED"} : review' = [review EXCEPT ![c][s] = r]
      PROVE  P
  <2> DEFINE settled == [att[c] EXCEPT ![s].score = score, ![s].status = "SUBMITTED"]
             e == evaluate(gate, settled, now)
  <2>1. /\ att[c] \in [Stages -> Attempt]
        /\ settled = [att[c] EXCEPT ![s] =
                        [att[c][s] EXCEPT !.score = score, !.status = "SUBMITTED"]]
    BY <1>0 DEF Attempt
  <2>2. settled \in [Stages -> Attempt]
    <3>1. [att[c][s] EXCEPT !.score = score, !.status = "SUBMITTED"] \in Attempt
      <4>1. ASSUME NEW x \in Attempt
            PROVE  [x EXCEPT !.score = score, !.status = "SUBMITTED"] \in Attempt
        BY ScoresAssumption DEF Attempt, TERMINAL_STATUSES
      <4>2. QED BY <2>1, <4>1
    <3>2. QED BY <2>1, <3>1
  <2>3. /\ settled[s].status = "SUBMITTED"
        /\ settled[s].score = score /\ score # None
        /\ settled[s].unlockedAt = att[c][s].unlockedAt
        /\ settled[s].submittedAt = att[c][s].submittedAt
        /\ settled[s].expiresAt = att[c][s].expiresAt
    BY <2>1, ScoresAssumption, NoneAssumption DEF Attempt
  <2>4. \A p \in Stages : p # s => settled[p] = att[c][p]
    BY <2>1
  <2>5. \A p \in Stages : Looked(settled[p], e[p]) /\ Looked(settled[p], settled[p])
    BY <2>2, EvaluateLooks, LookedReflexive
  <2>6. att' = [att EXCEPT ![c] = settled] \/ att' = [att EXCEPT ![c] = e]
    BY <1>8 DEF settleStageScore
  <2> HIDE DEF settled, e
  <2>7. CASE c # d
    <3>1. att'[d][q] = att[d][q] /\ review'[d][q] = review[d][q]
      BY <1>0, <1>8, <2>6, <2>7
    <3>2. QED BY <1>0, <3>1, LookedReflexive DEF RowStep
  <2>8. CASE c = d
    <3>1. Looked(settled[q], att'[d][q])
      BY <1>0, <2>5, <2>6, <2>8
    <3>2. CASE q # s
      <4>1. review'[d][q] = review[d][q]
        BY <1>0, <1>8, <2>8, <3>2
      <4>2. QED BY <2>4, <2>8, <3>1, <3>2, <4>1 DEF RowStep
    <3>3. CASE q = s
      <4>1. review'[d][q] \in {"UNDER_REVIEW", "EVALUATED"}
        BY <1>0, <1>8, <2>8, <3>3
      <4>2. Settled(att[d][q], att'[d][q])
        BY <2>3, <2>8, <3>1, <3>3 DEF Looked, SameWork, Settled
      <4>3. review[d][q] \in {"PENDING_AI", "UNDER_REVIEW"}
        BY <1>8, <2>8, <3>3
      <4>4. QED BY <4>1, <4>2, <4>3 DEF RowStep
    <3>4. QED BY <3>2, <3>3
  <2>9. QED BY <2>7, <2>8
<1>9. ASSUME NEW c \in Candidates, NEW s \in Stages, NEW score \in Scores,
             aiEvaluates(c, s, score) \/ gradeSubmission(c, s, score)
      PROVE  P
  <2>1. CASE aiEvaluates(c, s, score)
    BY <1>8, <2>1 DEF aiEvaluates
  <2>2. CASE gradeSubmission(c, s, score)
    BY <1>8, <2>2 DEF gradeSubmission
  <2>3. QED BY <1>9, <2>1, <2>2
<1>10. ASSUME NEW c \in Candidates, NEW s \in Stages, markAsManualReview(c, s)
       PROVE  P
  <2>1. /\ att' = att /\ review[c][s] = "PENDING_AI"
        /\ review' = [review EXCEPT ![c][s] = "UNDER_REVIEW"]
    BY <1>10 DEF markAsManualReview
  <2>2. CASE c = d /\ s = q
    BY <1>0, <2>1, <2>2 DEF RowStep
  <2>3. CASE ~(c = d /\ s = q)
    <3>1. review'[d][q] = review[d][q]
      BY <1>0, <2>1, <2>3
    <3>2. QED BY <1>0, <2>1, <3>1, LookedReflexive DEF RowStep
  <2>4. QED BY <2>2, <2>3
<1>11. ASSUME NEW c \in Candidates, NEW s \in Stages, approveStage(c, s)
       PROVE  P
  <2>1. /\ att' = [att EXCEPT ![c][s].approvedAt = TRUE, ![c][s].lockReason = FALSE,
                              ![c][s].unlockedAt = TRUE]
        /\ review' = review
    BY <1>11 DEF approveStage
  <2>2. CASE c = d /\ s = q
    <3>1. Admitted(att[d][q], att'[d][q])
      BY <1>0, <2>1, <2>2 DEF Attempt, Admitted, SameWork
    <3>2. QED BY <2>1, <3>1 DEF RowStep
  <2>3. CASE ~(c = d /\ s = q)
    <3>1. att'[d][q] = att[d][q]
      BY <1>0, <2>1, <2>3
    <3>2. QED BY <1>0, <2>1, <3>1, LookedReflexive DEF RowStep
  <2>4. QED BY <2>2, <2>3
<1>12. ASSUME NEW s \in Stages, NEW g \in GateChoices, updateStageGate(s, g)
       PROVE  P
  BY <1>1, <1>12 DEF updateStageGate
<1>13. CASE expireOverdueStages
  <2>0. PICK B \in Batches(ExpiredAttempts) : closeExpired(B)
    BY <1>13 DEF expireOverdueStages
  <2>1. /\ att'[d][q] = IF <<d, q>> \in B
                        THEN [att[d][q] EXCEPT !.status = "EXPIRED", !.lockReason = TRUE]
                        ELSE att[d][q]
        /\ review' = review
    BY <1>13, <2>0 DEF expireOverdueStages, closeExpired
  <2>2. CASE <<d, q>> \in B
    <3>1. att[d][q].status = "IN_PROGRESS"
      BY <2>2 DEF Batches, ExpiredAttempts
    <3>2. /\ att'[d][q].status = "EXPIRED"
          /\ att'[d][q].unlockedAt = att[d][q].unlockedAt
          /\ SameWork(att[d][q], att'[d][q])
      BY <1>0, <2>1, <2>2 DEF Attempt, SameWork
    <3>3. QED BY <2>1, <3>1, <3>2 DEF RowStep, Looked
  <2>3. CASE <<d, q>> \notin B
    BY <1>0, <2>1, <2>3, LookedReflexive DEF RowStep
  <2>4. QED BY <2>2, <2>3
<1>14. ASSUME NEW s \in Stages, applyQuota(s)
       PROVE  P
  <2>1. PICK W \in SUBSET Ranked(s) : giveVerdicts(s, W)
    BY <1>14 DEF applyQuota
  <2>2. review' = review
    BY <1>14 DEF applyQuota
  <2> DEFINE admit(a) == [a EXCEPT ![s].unlockedAt = TRUE, ![s].lockReason = FALSE]
             reject(a) == [a EXCEPT ![s].status = "FAILED", ![s].lockReason = TRUE]
  <2>3. att'[d] = IF d \in Undecided(s) \cap W THEN admit(att[d])
                  ELSE IF d \in Undecided(s) THEN reject(att[d]) ELSE att[d]
    BY <2>1 DEF giveVerdicts
  <2>4. CASE q # s
    <3>1. att'[d][q] = att[d][q]
      BY <1>0, <2>3, <2>4
    <3>2. QED BY <1>0, <2>2, <3>1, LookedReflexive DEF RowStep
  <2>5. CASE q = s
    <3>1. Admitted(att[d][q], admit(att[d])[q])
      BY <1>0, <2>5 DEF Admitted, SameWork, Attempt
    <3>2. ASSUME d \in Undecided(s)
          PROVE  Rejected(att[d][q], reject(att[d])[q])
      BY <1>0, <2>5, <3>2 DEF Rejected, SameWork, Attempt, Undecided
    <3> HIDE DEF admit, reject
    <3>3. QED BY <1>0, <1>14, <2>2, <2>3, <2>5, <3>1, <3>2, LookedReflexive
              DEF RowStep, Verdict
  <2>6. QED BY <2>4, <2>5
<1>15. CASE UNCHANGED vars
  BY <1>1, <1>15 DEF vars
<1>16. QED
  BY <1>2, <1>3, <1>4, <1>5, <1>6, <1>7, <1>9, <1>10, <1>11, <1>12, <1>13, <1>14, <1>15
  DEF Next

-----------------------------------------------------------------------------
\* One row's share of HandedInConsistent and ReasonMeansShut.
RowOK(x, r) ==
    /\ r # "NONE" <=> x.status \in {"SUBMITTED", "AWAITING_GRADE"}
    /\ x.status \notin {"LOCKED", "FAILED"} => x.unlockedAt
    /\ x.expiresAt # None => x.status \in {"IN_PROGRESS", "EXPIRED"}
    /\ x.submittedAt # None <=> r # "NONE"
    /\ x.status = "AWAITING_GRADE" => r # "EVALUATED"
    /\ r = "EVALUATED" => x.score # None
    /\ x.status = "LOCKED" /\ x.lockReason => ~x.unlockedAt

RowInv == \A c \in Candidates, s \in Stages : RowOK(att[c][s], review[c][s])

LEMMA RowStepOK ==
    ASSUME NEW x \in Attempt, NEW y \in Attempt,
           NEW r \in ReviewState, NEW q \in ReviewState,
           RowOK(x, r), RowStep(x, r, y, q) \/ (r = q /\ Rejected(x, y))
    PROVE  RowOK(y, q)
<1>1. CASE r = q /\ Looked(x, y)
  BY <1>1 DEF RowOK, Looked, SameWork, Attempt, TERMINAL_STATUSES
<1>2. CASE r = q /\ Started(x, y)
  BY <1>2 DEF RowOK, Started, Attempt, TERMINAL_STATUSES
<1>3. CASE r = q /\ Admitted(x, y)
  BY <1>3 DEF RowOK, Admitted, SameWork
<1>4. CASE r = q /\ Rejected(x, y)
  BY <1>4 DEF RowOK, Rejected, SameWork
<1>5. CASE HandedIn(x, y) /\ q \in {"PENDING_AI", "UNDER_REVIEW"}
  BY <1>5 DEF RowOK, HandedIn
<1>6. CASE /\ r \in {"PENDING_AI", "UNDER_REVIEW"} /\ q \in {"UNDER_REVIEW", "EVALUATED"}
           /\ Settled(x, y)
  BY <1>6 DEF RowOK, Settled
<1>7. CASE r \in {"PENDING_AI", "UNDER_REVIEW"} /\ x = y /\ q = "UNDER_REVIEW"
  BY <1>7 DEF RowOK
<1>8. QED BY <1>1, <1>2, <1>3, <1>4, <1>5, <1>6, <1>7 DEF RowStep

\* The inductive invariant: rows, types and submissions agree for ever.
THEOREM RowsCorrect == Spec => [](TypeOK /\ RowInv)
<1>1. Init => RowInv
  BY DEF Init, RowInv, RowOK, NewAttempt
<1>2. TypeOK /\ TypeOK' /\ RowInv /\ [Next]_vars => RowInv'
  <2> SUFFICES ASSUME TypeOK, TypeOK', RowInv, [Next]_vars,
                      NEW c \in Candidates, NEW s \in Stages
               PROVE  RowOK(att'[c][s], review'[c][s])
    BY DEF RowInv
  <2>1. \/ RowStep(att[c][s], review[c][s], att'[c][s], review'[c][s])
        \/ review[c][s] = review'[c][s] /\ Rejected(att[c][s], att'[c][s])
    BY StepRows DEF Verdict
  <2>2. /\ att[c][s] \in Attempt /\ att'[c][s] \in Attempt
        /\ review[c][s] \in ReviewState /\ review'[c][s] \in ReviewState
    BY DEF TypeOK
  <2>3. RowOK(att[c][s], review[c][s])
    BY DEF RowInv
  <2>4. QED BY <2>1, <2>2, <2>3, RowStepOK
<1>3. QED BY <1>1, <1>2, TypeCorrect, PTL DEF Spec

\* A stored reason always means the stage is shut: evaluate's shortcut of not
\* writing a reason that is already stored never leaves a stage ajar.
THEOREM ReasonCorrect == Spec => []ReasonMeansShut
<1>1. RowInv => ReasonMeansShut
  BY DEF RowInv, RowOK, ReasonMeansShut
<1>2. QED BY <1>1, RowsCorrect, PTL

\* Attempts and submissions tell the same story in every reachable state.
THEOREM HandedInCorrect == Spec => []HandedInConsistent
<1>1. RowInv => HandedInConsistent
  BY DEF RowInv, RowOK, HandedInConsistent
<1>2. QED BY <1>1, RowsCorrect, PTL

-----------------------------------------------------------------------------
\* One row step is one move of StageLifecycle, or none.
LEMMA RowStepMoves ==
    ASSUME NEW x \in Attempt, NEW y \in Attempt,
           NEW r \in ReviewState, NEW q \in ReviewState,
           RowOK(x, r), RowOK(y, q),
           RowStep(x, r, y, q) \/ (r = q /\ Rejected(x, y))
    PROVE  \/ Phase(y, q) = Phase(x, r)
           \/ <<Phase(x, r), Phase(y, q)>> \in Lifecycle!Moves
<1>1. CASE r = q /\ (Looked(x, y) \/ Admitted(x, y))
  BY <1>1 DEF Phase, Looked, Admitted, SameWork, Lifecycle!Moves
<1>2. CASE r = q /\ (Started(x, y) \/ Rejected(x, y))
  BY <1>2 DEF Phase, Started, Rejected, Lifecycle!Moves
<1>3. CASE HandedIn(x, y) /\ q \in {"PENDING_AI", "UNDER_REVIEW"}
  BY <1>3 DEF Phase, HandedIn, Lifecycle!Moves
<1>4. CASE r \in {"PENDING_AI", "UNDER_REVIEW"} /\ q \in {"UNDER_REVIEW", "EVALUATED"}
             /\ (Settled(x, y) \/ x = y)
  BY <1>4 DEF RowOK, Phase, Settled, Lifecycle!Moves
<1>5. QED BY <1>1, <1>2, <1>3, <1>4 DEF RowStep

\* StageGate implements StageLifecycle: whatever the gates, edits, crons and
\* graders do, an attempt only moves forward through its life.
THEOREM ImplementsLifecycle == Spec => FollowsLifecycle
<1> DEFINE ph == [p \in Candidates \X Stages |->
                    Phase(att[p[1]][p[2]], review[p[1]][p[2]])]
<1>1. Init => Lifecycle!Init
  BY DEF Init, Lifecycle!Init, NewAttempt, Phase
<1>2. /\ TypeOK /\ RowInv /\ TypeOK' /\ RowInv' /\ [Next]_vars
      => Lifecycle!Next
  <2> SUFFICES ASSUME TypeOK, RowInv, TypeOK', RowInv', [Next]_vars
               PROVE  Lifecycle!Next
    OBVIOUS
  <2>1. ASSUME NEW c \in Candidates, NEW s \in Stages
        PROVE  \/ Phase(att'[c][s], review'[c][s]) = Phase(att[c][s], review[c][s])
               \/ <<Phase(att[c][s], review[c][s]), Phase(att'[c][s], review'[c][s])>>
                    \in Lifecycle!Moves
    <3>1. \/ RowStep(att[c][s], review[c][s], att'[c][s], review'[c][s])
          \/ review[c][s] = review'[c][s] /\ Rejected(att[c][s], att'[c][s])
      BY StepRows DEF Verdict
    <3>2. /\ att[c][s] \in Attempt /\ att'[c][s] \in Attempt
          /\ review[c][s] \in ReviewState /\ review'[c][s] \in ReviewState
      BY DEF TypeOK
    <3>3. RowOK(att[c][s], review[c][s]) /\ RowOK(att'[c][s], review'[c][s])
      BY DEF RowInv
    <3>4. QED BY <3>1, <3>2, <3>3, RowStepMoves
  <2>2. ASSUME NEW x, NEW r
        PROVE  Phase(x, r) \in Lifecycle!Phases
    BY DEF Phase, Lifecycle!Phases
  <2>3. ph' \in [Candidates \X Stages -> Lifecycle!Phases]
    BY <2>2
  <2>4. ASSUME NEW p \in Candidates \X Stages
        PROVE  ph'[p] = ph[p] \/ <<ph[p], ph'[p]>> \in Lifecycle!Moves
    BY <2>1
  <2>5. QED BY <2>3, <2>4 DEF Lifecycle!Next
<1>3. QED
  BY <1>1, <1>2, RowsCorrect, PTL DEF Spec, FollowsLifecycle, Lifecycle!Spec

-----------------------------------------------------------------------------
\* evaluate withdraws an unlock only from a stage outside its window, for the
\* first disjunct of decide keeps open what is open.
LEMMA EvaluateKeepsUnlock ==
    ASSUME NEW gs, NEW a \in [Stages -> Attempt], NEW t, NEW s \in Stages,
           a[s].unlockedAt, InWindow(gs[s], t)
    PROVE  evaluate(gs, a, t)[s].unlockedAt
<1> DEFINE e == ExpireOverdue(a, t)
<1>1. CASE a[s].status # "LOCKED"
  BY <1>1, EvaluateLooks DEF Looked
<1>2. CASE a[s].status = "LOCKED"
  <2>1. e[s] = a[s]
    BY <1>2 DEF ExpireOverdue, Overdue
  <2>2. decide(gs, e, s, t)
    BY <2>1 DEF decide
  <2>3. evaluate(gs, a, t)[s] = [a[s] EXCEPT !.lockReason = FALSE, !.unlockedAt = TRUE]
    BY <1>2, <2>1, <2>2 DEF evaluate, PersistDecision
  <2>4. QED BY <2>3 DEF Attempt
<1>3. QED BY <1>1, <1>2

\* No grade, edit, approval, quota or reading takes an unlock back while the
\* stage is inside its window.
THEOREM UnlockKept == Spec => UnlockWithdrawnOnlyOutsideWindow
<1>1. ASSUME TypeOK, TypeOK', [Next]_vars, NEW d \in Candidates, NEW q \in Stages,
             att[d][q].unlockedAt, InWindow(gate[q], now)
      PROVE  att'[d][q].unlockedAt
  <2>0. /\ att \in [Candidates -> [Stages -> Attempt]]
        /\ att[d] \in [Stages -> Attempt]
        /\ att[d][q] \in Attempt
    BY <1>1 DEF TypeOK
  <2>1. ASSUME att'[d][q] = att[d][q]
        PROVE  att'[d][q].unlockedAt
    BY <1>1, <2>1
  <2>2. CASE Tick \/ findWaitingOnGrading \/ UNCHANGED vars
    BY <2>1, <2>2 DEF Tick, findWaitingOnGrading, vars
  <2>3. ASSUME NEW c \in Candidates, getStages(c) \/ evaluateFound(c)
        PROVE  att'[d][q].unlockedAt
    <3>1. att' = [att EXCEPT ![c] = evaluate(gate, att[c], now)]
      BY <2>3 DEF getStages, evaluateFound
    <3>2. evaluate(gate, att[d], now)[q].unlockedAt
      BY <1>1, <2>0, EvaluateKeepsUnlock
    <3>3. QED BY <1>1, <2>0, <3>1, <3>2
  <2>4. ASSUME NEW c \in Candidates, NEW s \in Stages, startStage(c, s)
        PROVE  att'[d][q].unlockedAt
    <3> DEFINE e == evaluate(gate, att[c], now)
               started == [e EXCEPT ![s].status = "IN_PROGRESS",
                                    ![s].expiresAt = EffectiveExpiry(gate[s]),
                                    ![s].unlockedAt = TRUE,
                                    ![s].lockReason = FALSE]
    <3>1. att' = [att EXCEPT ![c] = evaluate(gate, started, now)]
      BY <2>4 DEF startStage
    <3>2. CASE c # d
      BY <2>0, <2>1, <3>1, <3>2
    <3>3. CASE c = d
      <4>1. e \in [Stages -> Attempt] /\ e[q].unlockedAt
        BY <1>1, <2>0, <3>3, EvaluateType, EvaluateKeepsUnlock
      <4>2. started[q].unlockedAt
        <5> HIDE DEF e
        <5>1. QED BY <4>1 DEF Attempt
      <4>3. started \in [Stages -> Attempt]
        <5>1. EffectiveExpiry(gate[s]) \in Instant
          BY <1>1, ExpiryType
        <5> DEFINE x == EffectiveExpiry(gate[s])
        <5> HIDE DEF e, x
        <5>2. ASSUME NEW y \in Attempt
              PROVE  [y EXCEPT !.status = "IN_PROGRESS", !.expiresAt = x,
                               !.unlockedAt = TRUE, !.lockReason = FALSE] \in Attempt
          BY <5>1 DEF Attempt, x
        <5>3. started = [e EXCEPT ![s] =
                [e[s] EXCEPT !.status = "IN_PROGRESS", !.expiresAt = x,
                             !.unlockedAt = TRUE, !.lockReason = FALSE]]
          BY <4>1 DEF Attempt, x
        <5>4. QED BY <4>1, <5>2, <5>3
      <4> HIDE DEF started
      <4>4. evaluate(gate, started, now)[q].unlockedAt
        BY <1>1, <4>2, <4>3, EvaluateKeepsUnlock
      <4>5. QED BY <2>0, <3>1, <3>3, <4>4
    <3>4. QED BY <3>2, <3>3
  <2>5. ASSUME NEW c \in Candidates, NEW s \in Stages, NEW score,
               submitStage(c, s, score)
        PROVE  att'[d][q].unlockedAt
    <3>1. att'[d][q].unlockedAt = att[d][q].unlockedAt
      BY <2>0, <2>5 DEF submitStage, Attempt
    <3>2. QED BY <1>1, <3>1
  <2>6. ASSUME NEW c \in Candidates, NEW s \in Stages, submitTooLate(c, s)
        PROVE  att'[d][q].unlockedAt
    <3>1. att'[d][q].unlockedAt = att[d][q].unlockedAt
      BY <2>0, <2>6 DEF submitTooLate, Attempt
    <3>2. QED BY <1>1, <3>1
  <2>7. ASSUME NEW c \in Candidates, NEW s \in Stages, NEW score \in Scores,
               settleStageScore(c, s, score)
        PROVE  att'[d][q].unlockedAt
    <3> DEFINE settled == [att[c] EXCEPT ![s].score = score, ![s].status = "SUBMITTED"]
    <3>1. att' = [att EXCEPT ![c] = settled]
          \/ att' = [att EXCEPT ![c] = evaluate(gate, settled, now)]
      BY <2>7 DEF settleStageScore
    <3>2. CASE c # d
      BY <2>0, <2>1, <3>1, <3>2
    <3>3. CASE c = d
      <4>1. settled \in [Stages -> Attempt] /\ settled[q].unlockedAt
        <5>1. ASSUME NEW x \in Attempt
              PROVE  /\ [x EXCEPT !.score = score, !.status = "SUBMITTED"] \in Attempt
                     /\ [x EXCEPT !.score = score, !.status = "SUBMITTED"].unlockedAt
                          = x.unlockedAt
          BY ScoresAssumption DEF Attempt, TERMINAL_STATUSES
        <5>2. settled = [att[d] EXCEPT ![s] =
                           [att[d][s] EXCEPT !.score = score, !.status = "SUBMITTED"]]
          BY <2>0, <3>3 DEF Attempt
        <5> HIDE DEF settled
        <5>3. \A p \in Stages : /\ settled[p] \in Attempt
                                /\ settled[p].unlockedAt = att[d][p].unlockedAt
          BY <2>0, <5>1, <5>2
        <5>4. settled \in [Stages -> Attempt]
          BY <2>0, <5>2, <5>3
        <5>5. QED BY <1>1, <5>3, <5>4
      <4> HIDE DEF settled
      <4>2. evaluate(gate, settled, now)[q].unlockedAt
        BY <1>1, <4>1, EvaluateKeepsUnlock
      <4>3. QED BY <2>0, <3>1, <3>3, <4>1, <4>2
    <3>4. QED BY <3>2, <3>3
  <2>8. ASSUME NEW c \in Candidates, NEW s \in Stages, approveStage(c, s)
        PROVE  att'[d][q].unlockedAt
    <3>1. \/ att'[d][q].unlockedAt = att[d][q].unlockedAt
          \/ att'[d][q].unlockedAt = TRUE
      BY <2>0, <2>8 DEF approveStage, Attempt
    <3>2. QED BY <1>1, <3>1
  <2>9. CASE expireOverdueStages
    <3>1. PICK B \in Batches(ExpiredAttempts) : closeExpired(B)
      BY <2>9 DEF expireOverdueStages
    <3>2. att'[d][q] = IF <<d, q>> \in B
                       THEN [att[d][q] EXCEPT !.status = "EXPIRED", !.lockReason = TRUE]
                       ELSE att[d][q]
      BY <3>1 DEF closeExpired
    <3>3. QED BY <1>1, <2>0, <3>2 DEF Attempt
  <2>10. ASSUME NEW s \in Stages, applyQuota(s)
         PROVE  att'[d][q].unlockedAt
    <3>1. PICK W \in SUBSET Ranked(s) : giveVerdicts(s, W)
      BY <2>10 DEF applyQuota
    <3>2. CASE s # q
      <4>1. att'[d][q] = att[d][q]
        BY <2>0, <3>1, <3>2 DEF giveVerdicts
      <4>2. QED BY <2>1, <4>1
    <3>3. CASE s = q
      <4>1. d \notin Undecided(s)
        BY <1>1, <3>3 DEF Undecided
      <4>2. att'[d][q] = att[d][q]
        BY <3>1, <4>1 DEF giveVerdicts
      <4>3. QED BY <2>1, <4>2
    <3>4. QED BY <3>2, <3>3
  <2>11. QED
    BY <1>1, <2>1, <2>2, <2>3, <2>4, <2>5, <2>6, <2>7, <2>8, <2>9, <2>10
    DEF Next, releaseStagesWaitingOnGrading, aiEvaluates, gradeSubmission,
        markAsManualReview, updateStageGate
<1>2. TypeOK /\ TypeOK' /\ [Next]_vars =>
        [\A c \in Candidates, s \in Stages :
           att[c][s].unlockedAt /\ ~att'[c][s].unlockedAt => ~InWindow(gate[s], now)]_vars
  BY <1>1
<1>3. QED
  BY <1>2, TypeCorrect, PTL DEF Spec, UnlockWithdrawnOnlyOutsideWindow

-----------------------------------------------------------------------------
\* A stage evaluate has just unlocked is also shown as unlocked on the rows it
\* wrote: what the candidate is told is what is stored.
LEMMA UnlockedIsShown ==
    ASSUME NEW gs, NEW a \in [Stages -> Attempt], NEW t, NEW s \in Stages,
           ~a[s].unlockedAt, evaluate(gs, a, t)[s].unlockedAt
    PROVE  ViewUnlocked(gs, evaluate(gs, a, t), s, t)
<1> DEFINE e == ExpireOverdue(a, t)
           y == evaluate(gs, a, t)[s]
<1>1. y = PersistDecision(e[s], decide(gs, e, s, t))
  BY DEF evaluate
<1>2. a[s].status = "LOCKED"
  BY EvaluateLooks DEF Looked
<1>3. e[s] = a[s]
  BY <1>2 DEF ExpireOverdue, Overdue
<1>4. decide(gs, e, s, t)
  <2>1. ASSUME ~decide(gs, e, s, t)
        PROVE  ~y.unlockedAt
    <3>1. y = a[s] \/ y = [a[s] EXCEPT !.lockReason = TRUE, !.unlockedAt = FALSE]
      BY <1>1, <1>3, <2>1 DEF PersistDecision
    <3> HIDE DEF y
    <3>2. QED BY <3>1 DEF Attempt
  <2>2. QED BY <2>1
<1>5. InWindow(gs[s], t)
  BY <1>4 DEF decide
<1>6. QED BY <1>5 DEF ViewUnlocked, decide

\* When a grade opens a stage the candidate hears of it in the same handling.
THEOREM OpeningIsTold == Spec => GradeThatOpensTells
<1>1. ASSUME TypeOK, TypeOK', [Next]_vars, NEW d \in Candidates, NEW q \in Stages,
             review'[d] # review[d], Unlocks(d, q)
      PROVE  "opened" \in told'[d][q]
  <2>0. /\ att \in [Candidates -> [Stages -> Attempt]]
        /\ att[d] \in [Stages -> Attempt]
        /\ review \in [Candidates -> [Stages -> ReviewState]]
        /\ told \in [Candidates -> [Stages -> SUBSET News]]
    BY <1>1 DEF TypeOK
  <2>1. ASSUME NEW c \in Candidates, NEW s \in Stages, NEW score \in Scores,
               settleStageScore(c, s, score),
               \E r : review' = [review EXCEPT ![c][s] = r]
        PROVE  "opened" \in told'[d][q]
    <3> DEFINE settled == [att[c] EXCEPT ![s].score = score, ![s].status = "SUBMITTED"]
               before  == {p \in Stages : ~settled[p].unlockedAt}
               e       == evaluate(gate, settled, now)
    <3>1. c = d
      BY <1>1, <2>0, <2>1
    <3>2. settled \in [Stages -> Attempt] /\ settled[q].unlockedAt = att[d][q].unlockedAt
      <4>1. ASSUME NEW x \in Attempt
            PROVE  /\ [x EXCEPT !.score = score, !.status = "SUBMITTED"] \in Attempt
                   /\ [x EXCEPT !.score = score, !.status = "SUBMITTED"].unlockedAt
                        = x.unlockedAt
        BY ScoresAssumption DEF Attempt, TERMINAL_STATUSES
      <4>2. settled = [att[d] EXCEPT ![s] =
                         [att[d][s] EXCEPT !.score = score, !.status = "SUBMITTED"]]
        BY <2>0, <3>1 DEF Attempt
      <4> HIDE DEF settled
      <4>3. \A p \in Stages : /\ settled[p] \in Attempt
                              /\ settled[p].unlockedAt = att[d][p].unlockedAt
        BY <2>0, <4>1, <4>2
      <4>4. settled \in [Stages -> Attempt]
        BY <2>0, <4>2, <4>3
      <4>5. QED BY <4>3, <4>4
    <3>3. ~settled[q].unlockedAt
      BY <1>1, <3>2 DEF Unlocks
    <3>4. /\ att' = [att EXCEPT ![c] = IF before = {} THEN settled ELSE e]
          /\ Tell(c, {p \in before : ViewUnlocked(gate, e, p, now)}, "opened")
      BY <2>1 DEF settleStageScore
    <3>5. q \in before
      BY <3>3
    <3>6. att'[d][q] = e[q]
      <4> HIDE DEF settled, e, before
      <4>1. QED BY <2>0, <3>1, <3>4, <3>5
    <3>7. e[q].unlockedAt
      BY <1>1, <3>6 DEF Unlocks
    <3>8. ViewUnlocked(gate, e, q, now)
      <4> HIDE DEF settled
      <4>1. QED BY <3>2, <3>3, <3>7, UnlockedIsShown
    <3> HIDE DEF settled, e, before
    <3>9. QED BY <2>0, <3>1, <3>4, <3>5, <3>8 DEF Tell
  <2>2. ASSUME NEW c \in Candidates, NEW s \in Stages, NEW score \in Scores,
               aiEvaluates(c, s, score) \/ gradeSubmission(c, s, score)
        PROVE  "opened" \in told'[d][q]
    BY <2>1, <2>2 DEF aiEvaluates, gradeSubmission
  <2>3. ASSUME NEW c \in Candidates, NEW s \in Stages,
               \/ markAsManualReview(c, s)
               \/ \E score \in ObjectiveScores(s) : submitStage(c, s, score)
        PROVE  FALSE
    <3>1. CASE markAsManualReview(c, s)
      BY <1>1, <3>1 DEF Unlocks, markAsManualReview
    <3>2. ASSUME NEW score \in ObjectiveScores(s), submitStage(c, s, score)
          PROVE  FALSE
      <4>1. att'[d][q].unlockedAt = att[d][q].unlockedAt
        BY <2>0, <3>2 DEF submitStage, Attempt
      <4>2. QED BY <1>1, <4>1 DEF Unlocks
    <3>3. QED BY <2>3, <3>1, <3>2
  <2>4. review' # review
    BY <1>1
  <2>5. ASSUME NEW c \in Candidates
        PROVE  ~getStages(c) /\ ~evaluateFound(c) /\ ~findWaitingOnGrading
    BY <2>4 DEF getStages, evaluateFound, findWaitingOnGrading
  <2>6. ASSUME NEW c \in Candidates, NEW s \in Stages
        PROVE  ~startStage(c, s) /\ ~submitTooLate(c, s) /\ ~approveStage(c, s)
    BY <2>4 DEF startStage, submitTooLate, approveStage
  <2>7. ASSUME NEW s \in Stages
        PROVE  ~applyQuota(s) /\ \A g \in GateChoices : ~updateStageGate(s, g)
    BY <2>4 DEF applyQuota, updateStageGate
  <2>8. ~Tick /\ ~expireOverdueStages /\ ~UNCHANGED vars
    BY <2>4 DEF Tick, expireOverdueStages, vars
  <2>9. QED BY <1>1, <2>2, <2>3, <2>5, <2>6, <2>7, <2>8 DEF Next, releaseStagesWaitingOnGrading
<1>2. TypeOK /\ TypeOK' /\ [Next]_vars =>
        [\A c \in Candidates, s \in Stages :
           review'[c] # review[c] /\ Unlocks(c, s) => "opened" \in told'[c][s]]_vars
  BY <1>1
<1>3. QED BY <1>2, TypeCorrect, PTL DEF Spec, GradeThatOpensTells

-----------------------------------------------------------------------------
\* decide reads of a row only what evaluate preserves, so it answers the same
\* before and after evaluate has written - except that an unlock it has just
\* granted now keeps the stage open by itself.
LEMMA DecideSame ==
    ASSUME NEW gs, NEW a \in [Stages -> Attempt], NEW b \in [Stages -> Attempt],
           NEW t, NEW s \in Stages,
           \A q \in Stages : /\ b[q].score = a[q].score
                             /\ b[q].status = a[q].status
                             /\ b[q].submittedAt = a[q].submittedAt,
           b[s].approvedAt = a[s].approvedAt,
           b[s].unlockedAt = a[s].unlockedAt,
           resolveSourceSections(gs, s) \subseteq Stages
    PROVE  decide(gs, b, s, t) <=> decide(gs, a, s, t)
<1>1. StageScores(a) = StageScores(b)
  BY DEF StageScores
<1>2. {a[q].submittedAt : q \in resolveSourceSections(gs, s)}
        = {b[q].submittedAt : q \in resolveSourceSections(gs, s)}
  OBVIOUS
<1>3. decidePending(gs, b, s, t) <=> decidePending(gs, a, s, t)
  BY <1>2 DEF decidePending
<1>4. decideByScore(gs, b, s, t) <=> decideByScore(gs, a, s, t)
  BY <1>1, <1>3 DEF decideByScore
<1>5. decideByQuota(gs, b, s, t) <=> decideByQuota(gs, a, s, t)
  BY <1>1, <1>3 DEF decideByQuota
<1>6. QED BY <1>4, <1>5 DEF decide

\* Reading the page changes nothing that reading it again would change back.
THEOREM ReadingStable == Spec => []ReadingIsStable
<1>1. ASSUME TypeOK, NEW c \in Candidates
      PROVE  evaluate(gate, evaluate(gate, att[c], now), now) = evaluate(gate, att[c], now)
  <2> DEFINE a == att[c]
             e == ExpireOverdue(a, now)
             b == evaluate(gate, a, now)
  <2>1. a \in [Stages -> Attempt] /\ b \in [Stages -> Attempt]
    BY <1>1, EvaluateType DEF TypeOK
  <2>2. e \in [Stages -> Attempt]
    <3>1. ASSUME NEW x \in Attempt
          PROVE  [x EXCEPT !.status = "EXPIRED", !.lockReason = TRUE] \in Attempt
      BY DEF Attempt, TERMINAL_STATUSES
    <3>2. QED BY <2>1, <3>1 DEF ExpireOverdue
  <2>3. \A s \in Stages : b[s] = PersistDecision(e[s], decide(gate, e, s, now))
    BY DEF evaluate
  <2>4. ASSUME NEW s \in Stages
        PROVE  ~Overdue(e[s], now)
    <3>1. CASE Overdue(a[s], now)
      <4>1. e[s] = [a[s] EXCEPT !.status = "EXPIRED", !.lockReason = TRUE]
        BY <3>1 DEF ExpireOverdue
      <4>2. e[s].status = "EXPIRED"
        <5> HIDE DEF e
        <5>1. QED BY <2>1, <4>1 DEF Attempt
      <4> HIDE DEF e
      <4>3. QED BY <4>2 DEF Overdue
    <3>2. CASE ~Overdue(a[s], now)
      <4>1. e[s] = a[s]
        BY <3>2 DEF ExpireOverdue
      <4> HIDE DEF e
      <4>2. QED BY <3>2, <4>1
    <3>3. QED BY <3>1, <3>2
  <2> HIDE DEF e, a, b
  <2>5. ASSUME NEW x \in Attempt, NEW open
        PROVE  LET y == PersistDecision(x, open) IN
               /\ y.status = x.status /\ y.score = x.score
               /\ y.submittedAt = x.submittedAt /\ y.expiresAt = x.expiresAt
               /\ y.approvedAt = x.approvedAt
               /\ x.status = "LOCKED" /\ open => y.unlockedAt /\ ~y.lockReason
               /\ x.status = "LOCKED" /\ ~open /\ x.lockReason => y = x
               /\ x.status = "LOCKED" /\ ~open /\ ~x.lockReason => y.lockReason /\ ~y.unlockedAt
    BY DEF PersistDecision, Attempt
  <2>6. \A s \in Stages : ~Overdue(b[s], now)
    BY <2>2, <2>3, <2>4, <2>5 DEF Overdue
  <2>7. ExpireOverdue(b, now) = b
    BY <2>1, <2>6 DEF ExpireOverdue
  <2>8. ASSUME NEW s \in Stages
        PROVE  PersistDecision(b[s], decide(gate, b, s, now)) = b[s]
    <3>1. b[s] \in Attempt /\ e[s] \in Attempt /\ b[s].status = e[s].status
      BY <2>1, <2>2, <2>3, <2>5
    <3>2. CASE e[s].status # "LOCKED"
      BY <3>1, <3>2 DEF PersistDecision
    <3>3. CASE e[s].status = "LOCKED" /\ decide(gate, e, s, now)
      <4>1. b[s].unlockedAt /\ ~b[s].lockReason
        BY <2>2, <2>3, <2>5, <3>3
      <4>2. decide(gate, b, s, now)
        BY <3>3, <4>1 DEF decide
      <4>3. [b[s] EXCEPT !.lockReason = FALSE, !.unlockedAt = TRUE] = b[s]
        BY <3>1, <4>1 DEF Attempt
      <4>4. QED BY <4>2, <4>3 DEF PersistDecision
    <3>4. CASE e[s].status = "LOCKED" /\ ~decide(gate, e, s, now)
      <4>1. b[s].lockReason
        BY <2>2, <2>3, <2>5, <3>4
      <4>2. ~decide(gate, b, s, now)
        <5>1. CASE b[s].unlockedAt = e[s].unlockedAt
          <6>1. resolveSourceSections(gate, s) \subseteq Stages
            <7>1. gate[s].gateSourceIds \subseteq Stages
              BY <1>1 DEF TypeOK, Gate
            <7>2. QED BY <7>1 DEF resolveSourceSections
          <6>2. \A q \in Stages : /\ b[q].score = e[q].score
                                  /\ b[q].status = e[q].status
                                  /\ b[q].submittedAt = e[q].submittedAt
            BY <2>2, <2>3, <2>5
          <6>3. b[s].approvedAt = e[s].approvedAt
            BY <2>2, <2>3, <2>5
          <6>4. QED BY <2>1, <2>2, <3>4, <5>1, <6>1, <6>2, <6>3, DecideSame
        <5>2. CASE b[s].unlockedAt # e[s].unlockedAt
          <6>1. ~b[s].unlockedAt /\ e[s].unlockedAt
            BY <2>2, <2>3, <2>5, <3>1, <3>4, <5>2 DEF Attempt
          <6>2. ~InWindow(gate[s], now)
            BY <3>4, <6>1 DEF decide
          <6>3. QED BY <6>2 DEF decide
        <5>3. QED BY <5>1, <5>2
      <4>3. QED BY <4>1, <4>2 DEF PersistDecision
    <3>5. QED BY <3>2, <3>3, <3>4
  <2>9. evaluate(gate, b, now) = [s \in Stages |-> b[s]]
    BY <2>7, <2>8 DEF evaluate
  <2>10. QED BY <2>1, <2>9 DEF a, b
<1>2. TypeOK => ReadingIsStable
  BY <1>1 DEF ReadingIsStable
<1>3. QED BY <1>2, TypeCorrect, PTL

-----------------------------------------------------------------------------
\* Nobody is turned away by a quota unless maxAdvancing others rank no lower,
\* and nobody let in by it ranks lower, however ties are broken.
THEOREM QuotaFair == Spec => QuotaRankRespected
<1>1. ASSUME TypeOK, TypeOK', [Next]_vars, NEW l \in Candidates, NEW s \in Stages,
             att[l][s].status # "FAILED", att'[l][s].status = "FAILED"
      PROVE  /\ Cardinality({w \in Ranked(s) \ {l} : RankScore(s, w) >= RankScore(s, l)})
                  >= gate[s].maxAdvancing
             /\ \A w \in Candidates : Unlocks(w, s) => RankScore(s, w) >= RankScore(s, l)
  <2> DEFINE Better == {w \in Ranked(s) \ {l} : RankScore(s, w) >= RankScore(s, l)}
  <2>1. Verdict(l, s)
    <3>1. ~RowStep(att[l][s], review[l][s], att'[l][s], review'[l][s])
      BY <1>1 DEF RowStep, Looked, Started, Admitted, SameWork, HandedIn, Settled
    <3>2. QED BY <1>1, <3>1, StepRows
  <2>2. PICK W \in SUBSET Ranked(s) : TopRanked(s, W) /\ giveVerdicts(s, W)
    BY <2>1 DEF Verdict, applyQuota
  <2>3. l \in Undecided(s) /\ l \notin W
    <3>1. /\ att[l] \in [Stages -> Attempt]
          /\ att[l][s] \in Attempt
      BY <1>1 DEF TypeOK
    <3>2. CASE l \notin Undecided(s)
      <4>1. att'[l] = att[l]
        BY <2>2, <3>2 DEF giveVerdicts
      <4>2. QED BY <1>1, <4>1
    <3>3. CASE l \in Undecided(s) \cap W
      <4>1. att'[l] = [att[l] EXCEPT ![s].unlockedAt = TRUE, ![s].lockReason = FALSE]
        BY <2>2, <3>3 DEF giveVerdicts
      <4>2. att'[l][s].status = att[l][s].status
        BY <3>1, <4>1 DEF Attempt
      <4>3. QED BY <1>1, <4>2
    <3>4. QED BY <3>2, <3>3
  <2>4. l \in Ranked(s) \ W
    BY <2>3 DEF Undecided
  <2>5. IsFiniteSet(Ranked(s))
    <3>1. Ranked(s) \subseteq Candidates
      BY <1>1 DEF Ranked, TypeOK
    <3>2. QED BY <3>1, CandidatesAssumption, FS_Subset
  <2>6. Cardinality(W) = gate[s].maxAdvancing
    <3>1. /\ Cardinality(W) <= Cardinality(Ranked(s))
          /\ Cardinality(W) = Cardinality(Ranked(s)) => W = Ranked(s)
          /\ Cardinality(W) \in Nat /\ Cardinality(Ranked(s)) \in Nat
      BY <2>5, FS_Subset, FS_CardinalityType
    <3>2. W # Ranked(s)
      BY <2>4
    <3>3. QED BY <2>2, <3>1, <3>2 DEF TopRanked
  <2>7. W \subseteq Better
    BY <2>2, <2>4 DEF TopRanked
  <2>8. /\ IsFiniteSet(Better) /\ Cardinality(W) <= Cardinality(Better)
    <3>1. Better \subseteq Ranked(s)
      OBVIOUS
    <3> HIDE DEF Better
    <3>2. IsFiniteSet(Better)
      BY <2>5, <3>1, FS_Subset
    <3>3. QED BY <2>7, <3>2, FS_Subset
  <2>9. Cardinality(Better) >= gate[s].maxAdvancing
    <3> HIDE DEF Better
    <3>1. Cardinality(Better) \in Nat /\ Cardinality(W) \in Nat
      BY <2>2, <2>5, <2>8, FS_CardinalityType, FS_Subset
    <3>2. QED BY <2>6, <2>8, <3>1
  <2>10. ASSUME NEW w \in Candidates, Unlocks(w, s)
         PROVE  RankScore(s, w) >= RankScore(s, l)
    <3>1. w \in W
      <4>1. /\ att[w] \in [Stages -> Attempt]
            /\ att[w][s] \in Attempt
        BY <1>1 DEF TypeOK
      <4>2. ASSUME w \notin W
            PROVE  att'[w][s].unlockedAt = att[w][s].unlockedAt
        <5>1. \/ att'[w] = [att[w] EXCEPT ![s].status = "FAILED", ![s].lockReason = TRUE]
              \/ att'[w] = att[w]
          BY <2>2, <4>2 DEF giveVerdicts
        <5>2. QED BY <4>1, <5>1 DEF Attempt
      <4>3. QED BY <2>10, <4>2 DEF Unlocks
    <3>2. QED BY <2>2, <2>4, <3>1 DEF TopRanked
  <2>11. QED BY <2>9, <2>10
<1>2. TypeOK /\ TypeOK' /\ [Next]_vars =>
        [\A l \in Candidates, s \in Stages :
          att[l][s].status # "FAILED" /\ att'[l][s].status = "FAILED" =>
           /\ Cardinality({w \in Ranked(s) \ {l} : RankScore(s, w) >= RankScore(s, l)})
                >= gate[s].maxAdvancing
           /\ \A w \in Candidates : Unlocks(w, s) => RankScore(s, w) >= RankScore(s, l)]_vars
  BY <1>1
<1>3. QED BY <1>2, TypeCorrect, PTL DEF Spec, QuotaRankRespected

-----------------------------------------------------------------------------
(* What decide adds up.  The library's SumFunction is a recursive fold;    *)
(* that it has the value it is meant to have follows from a closed form.   *)

\* v[q] marks for every q of X, none where v[q] is not positive.
Marks(v, X) == UNION {{q} \X (1 .. v[q]) : q \in X}

LEMMA MarksStep ==
    ASSUME NEW S, IsFiniteSet(S), NEW v \in [S -> Int], NEW X \in SUBSET S, NEW x \in X
    PROVE  /\ IsFiniteSet(Marks(v, X)) /\ IsFiniteSet(Marks(v, X \ {x}))
           /\ Cardinality(Marks(v, X)) \in Nat /\ Cardinality(Marks(v, X \ {x})) \in Nat
           /\ Cardinality(Marks(v, X)) = Cardinality(Marks(v, X \ {x}))
                                           + (IF v[x] > 0 THEN v[x] ELSE 0)
<1>1. ASSUME NEW q \in S
      PROVE  /\ IsFiniteSet({q} \X (1 .. v[q]))
             /\ Cardinality({q} \X (1 .. v[q])) = IF v[q] > 0 THEN v[q] ELSE 0
  <2>1. v[q] \in Int
    OBVIOUS
  <2>2. /\ IsFiniteSet(1 .. v[q])
        /\ Cardinality(1 .. v[q]) = IF v[q] > 0 THEN v[q] ELSE 0
    BY <2>1, FS_Interval
  <2>3. IsFiniteSet({q}) /\ Cardinality({q}) = 1
    BY FS_Singleton
  <2>4. /\ IsFiniteSet({q} \X (1 .. v[q]))
        /\ Cardinality({q} \X (1 .. v[q])) = 1 * Cardinality(1 .. v[q])
    BY <2>2, <2>3, FS_Product
  <2> QED BY <2>1, <2>2, <2>4
<1>2. ASSUME NEW Y \in SUBSET S PROVE IsFiniteSet(Marks(v, Y))
  <2> DEFINE All == {{q} \X (1 .. v[q]) : q \in Y}
             f == [q \in Y |-> {q} \X (1 .. v[q])]
  <2>1. f \in Surjection(Y, All)
    BY DEF Surjection
  <2>2. IsFiniteSet(Y)
    BY FS_Subset
  <2>3. IsFiniteSet(All)
    <3> HIDE DEF All, f
    <3> QED BY <2>1, <2>2, FS_Surjection
  <2>4. \A T \in All : IsFiniteSet(T)
    BY <1>1
  <2> HIDE DEF All
  <2>5. IsFiniteSet(UNION All)
    BY <2>3, <2>4, FS_UNION
  <2> QED BY <2>5 DEF Marks, All
<1> DEFINE A == Marks(v, X \ {x})
           B == {x} \X (1 .. v[x])
<1>3. Marks(v, X) = A \cup B /\ A \cap B = {}
  BY DEF Marks
<1>4. IsFiniteSet(A) /\ IsFiniteSet(B) /\ IsFiniteSet(Marks(v, X))
      /\ Cardinality(B) = IF v[x] > 0 THEN v[x] ELSE 0
  BY <1>1, <1>2
<1> HIDE DEF A, B
<1>5. Cardinality(A \cup B) = Cardinality(A) + Cardinality(B) - Cardinality({})
  BY <1>3, <1>4, FS_Union
<1>6. Cardinality({}) = 0 /\ Cardinality(A) \in Nat /\ Cardinality(Marks(v, X)) \in Nat
  BY <1>4, FS_EmptySet, FS_CardinalityType
<1>7. v[x] \in Int
  OBVIOUS
<1> QED BY <1>3, <1>4, <1>5, <1>6, <1>7 DEF A

Pick(X) == CHOOSE x \in X : TRUE

\* Induction over the subsets of a finite set, element by element as a fold goes:
\* T is the set of the subsets of which the claim holds.
LEMMA FoldInduction ==
    ASSUME NEW S, IsFiniteSet(S), NEW T, {} \in T,
           \A X \in (SUBSET S) \ {{}} : X \ {Pick(X)} \in T => X \in T
    PROVE  S \in T
<1> DEFINE Bad == (SUBSET S) \ T
<1>1. SUFFICES ASSUME Bad # {} PROVE FALSE
  OBVIOUS
<1>2. IsWellFoundedOn(StrictSubsetOrdering(S), FiniteSubsetsOf(S))
  BY FS_StrictSubsetOrderingWellFounded
<1>3. Bad \subseteq FiniteSubsetsOf(S)
  BY FS_Subset DEF FiniteSubsetsOf
<1>4. PICK X \in Bad : \A Y \in Bad : ~ (<<Y, X>> \in StrictSubsetOrdering(S))
  <2> HIDE DEF Bad
  <2> QED BY <1>1, <1>2, <1>3, WFMin
<1>5. Pick(X) \in X
  <2>1. X # {}
    OBVIOUS
  <2> QED BY <2>1 DEF Pick
<1>6. <<X \ {Pick(X)}, X>> \in StrictSubsetOrdering(S)
  BY <1>5 DEF StrictSubsetOrdering
<1> QED BY <1>4, <1>5, <1>6

\* it gives the sum of v over every subset of S.
Sums(it, v, S) ==
    /\ it \in [SUBSET S -> Int] /\ it[{}] = 0
    /\ \A X \in (SUBSET S) \ {{}} : it[X] = v[Pick(X)] + it[X \ {Pick(X)}]

\* What the recursion of the fold computes.
LEMMA SumUnfolds ==
    ASSUME NEW S, IsFiniteSet(S), NEW v \in [S -> Int]
    PROVE  \E it : Sums(it, v, S) /\ SumFunction(v) = it[S]
<1> DEFINE w == [q \in S |-> 0 - v[q]]
           Def(it) == [s \in SUBSET S |-> IF s = {} THEN 0 ELSE v[Pick(s)] + it[s \ {Pick(s)}]]
           sum == [X \in SUBSET S |-> Cardinality(Marks(v, X)) - Cardinality(Marks(w, X))]
           fold == CHOOSE it : it = Def(it)
<1>1. w \in [S -> Int]
  OBVIOUS
<1>2. ASSUME NEW X \in SUBSET S, X # {}
      PROVE  sum[X] = v[Pick(X)] + sum[X \ {Pick(X)}] /\ sum[X] \in Int
  <2> DEFINE x == Pick(X)
  <2>1. x \in X
    BY <1>2 DEF Pick
  <2> HIDE DEF x
  <2>2. v[x] \in Int /\ w[x] = 0 - v[x] /\ X \ {x} \in SUBSET S
    BY <2>1
  <2> HIDE DEF w
  <2>3. /\ Cardinality(Marks(v, X)) \in Nat /\ Cardinality(Marks(v, X \ {x})) \in Nat
        /\ Cardinality(Marks(v, X)) = Cardinality(Marks(v, X \ {x}))
                                           + (IF v[x] > 0 THEN v[x] ELSE 0)
    BY <2>1, MarksStep
  <2>4. /\ Cardinality(Marks(w, X)) \in Nat /\ Cardinality(Marks(w, X \ {x})) \in Nat
        /\ Cardinality(Marks(w, X)) = Cardinality(Marks(w, X \ {x}))
                                           + (IF w[x] > 0 THEN w[x] ELSE 0)
    BY <1>1, <2>1, MarksStep
  <2>5. sum[X] = v[x] + sum[X \ {x}] /\ sum[X] \in Int
    BY <2>2, <2>3, <2>4
  <2> QED BY <2>5 DEF x
<1>3. sum[{}] = 0
  <2>1. Marks(v, {}) = {} /\ Marks(w, {}) = {}
    BY DEF Marks
  <2>2. sum[{}] = Cardinality({}) - Cardinality({})
    BY <2>1
  <2> QED BY <2>2, FS_EmptySet
<1> HIDE DEF w
<1>4. sum = Def(sum)
  <2> DEFINE d == Def(sum)
  <2>1. \A X \in SUBSET S : sum[X] = d[X]
    BY <1>2, <1>3
  <2> QED BY <2>1
<1>8. sum \in [SUBSET S -> Int]
  <2>1. sum = [X \in SUBSET S |-> sum[X]]
    OBVIOUS
  <2> HIDE DEF sum
  <2>2. ASSUME NEW X \in SUBSET S PROVE sum[X] \in Int
    <3>1. CASE X = {}
      BY <1>3, <3>1
    <3>2. CASE X # {}
      BY <1>2, <3>2
    <3> QED BY <3>1, <3>2
  <2> QED BY <2>1, <2>2
<1> HIDE DEF sum
<1>5. fold = Def(fold)
  BY <1>4
<1>6. SumFunction(v) = fold[S]
  BY DEF SumFunction, SumFunctionOnSet, FoldFunctionOnSet, MapThenFoldSet, Pick
<1> HIDE DEF fold
<1>7. fold[S] = sum[S]
  <2> DEFINE T == {X \in SUBSET S : fold[X] = sum[X]}
  <2>1. {} \in T
    BY <1>3, <1>5
  <2>2. ASSUME NEW X \in (SUBSET S) \ {{}}, X \ {Pick(X)} \in T PROVE X \in T
    BY <1>2, <1>5, <2>2
  <2>3. S \in T
    <3> HIDE DEF T
    <3> QED BY <2>1, <2>2, FoldInduction
  <2> QED BY <2>3
<1>9. Sums(sum, v, S)
  BY <1>2, <1>3, <1>8 DEF Sums
<1> QED BY <1>6, <1>7, <1>9

\* A weighted mean reaches a threshold exactly when the weighted distances from
\* the threshold do not sum up to less than nothing.
LEMMA SumOfDistances ==
    ASSUME NEW S, IsFiniteSet(S), NEW k \in Int,
           NEW w \in [S -> Int], NEW u \in [S -> Int]
    PROVE  LET d == [q \in S |-> u[q] - k * w[q]]
           IN  /\ SumFunction(d) = SumFunction(u) - k * SumFunction(w)
               /\ SumFunction(d) \in Int /\ SumFunction(u) \in Int /\ SumFunction(w) \in Int
<1> DEFINE d == [q \in S |-> u[q] - k * w[q]]
<1>1. d \in [S -> Int] /\ \A q \in S : d[q] = u[q] - k * w[q]
  OBVIOUS
<1> HIDE DEF d
<1>2. PICK a, b, c : /\ Sums(a, d, S) /\ SumFunction(d) = a[S]
                     /\ Sums(b, u, S) /\ SumFunction(u) = b[S]
                     /\ Sums(c, w, S) /\ SumFunction(w) = c[S]
  BY <1>1, SumUnfolds
<1> DEFINE T == {X \in SUBSET S : a[X] = b[X] - k * c[X]}
<1>3. {} \in T
  BY <1>2 DEF Sums
<1>4. ASSUME NEW X \in (SUBSET S) \ {{}}, X \ {Pick(X)} \in T PROVE X \in T
  <2> DEFINE x == Pick(X)
             Y == X \ {x}
  <2>1. x \in S
    <3>1. X # {} /\ X \subseteq S
      OBVIOUS
    <3>2. \E y : y \in X
      BY <3>1
    <3> QED BY <3>1, <3>2 DEF Pick
  <2>2. Y \in SUBSET S /\ a[Y] = b[Y] - k * c[Y]
    BY <1>4
  <2>3. a[X] = d[x] + a[Y] /\ b[X] = u[x] + b[Y] /\ c[X] = w[x] + c[Y]
    BY <1>2 DEF Sums
  <2> HIDE DEF x, Y
  <2>4. /\ b[Y] \in Int /\ c[Y] \in Int /\ u[x] \in Int /\ w[x] \in Int
        /\ d[x] = u[x] - k * w[x]
    BY <1>1, <1>2, <2>1, <2>2 DEF Sums
  <2>5. k * (w[x] + c[Y]) = k * w[x] + k * c[Y]
    BY <2>4
  <2>6. k * w[x] \in Int /\ k * c[Y] \in Int
    BY <2>4
  <2>7. a[X] = b[X] - k * c[X]
    BY <2>2, <2>3, <2>4, <2>5, <2>6
  <2> QED BY <2>7
<1>5. S \in T
  <2> HIDE DEF T
  <2> QED BY <1>3, <1>4, FoldInduction
<1>6. a[S] \in Int /\ b[S] \in Int /\ c[S] \in Int
  BY <1>2 DEF Sums
<1> QED BY <1>2, <1>5, <1>6 DEF d

-----------------------------------------------------------------------------
\* The gates stored are always ones the publisher accepts: updateStageGate
\* checks the whole configuration again.
GateInv == assertStageGatesConsistent(gate)

THEOREM GatesCorrect == Spec => []GateInv
<1>1. Init => GateInv
  BY InitialGatesAssumption DEF Init, GateInv
<1>2. GateInv /\ [Next]_vars => GateInv'
  <2> SUFFICES ASSUME GateInv, [Next]_vars PROVE GateInv'
    OBVIOUS
  <2>1. CASE UNCHANGED gate
    BY <2>1 DEF GateInv, assertStageGatesConsistent
  <2>2. ASSUME NEW s \in Stages, NEW g \in GateChoices, updateStageGate(s, g)
        PROVE  GateInv'
    BY <2>2 DEF updateStageGate, GateInv, assertStageGatesConsistent
  <2>3. ASSUME NEW c \in Candidates,
               \/ getStages(c) \/ evaluateFound(c)
               \/ \E s \in Stages :
                    \/ startStage(c, s) \/ submitTooLate(c, s) \/ markAsManualReview(c, s)
                    \/ approveStage(c, s) \/ \E score : submitStage(c, s, score)
                    \/ \E score : aiEvaluates(c, s, score) \/ gradeSubmission(c, s, score)
        PROVE  UNCHANGED gate
    BY <2>3 DEF getStages, evaluateFound, startStage, submitTooLate,
                markAsManualReview, approveStage, submitStage, aiEvaluates, gradeSubmission
  <2>4. ASSUME \/ Tick \/ expireOverdueStages \/ findWaitingOnGrading
               \/ (\E s \in Stages : applyQuota(s)) \/ UNCHANGED vars
        PROVE  UNCHANGED gate
    BY <2>4 DEF Tick, expireOverdueStages, findWaitingOnGrading, applyQuota, vars
  <2> QED
    BY <2>1, <2>2, <2>3, <2>4 DEF Next, releaseStagesWaitingOnGrading
<1> QED BY <1>1, <1>2, PTL DEF Spec

\* A gate that reads scores reads those of some earlier stages.
LEMMA SourcesBefore ==
    ASSUME TypeOK, GateInv, NEW s \in Stages, ReadsScore(gate[s])
    PROVE  LET src == resolveSourceSections(gate, s)
           IN  /\ src \subseteq Stages /\ src # {} /\ IsFiniteSet(src)
               /\ \A q \in src : q < s
<1> DEFINE src == resolveSourceSections(gate, s)
<1>1. gate[s] \in Gate /\ NumStages \in Nat /\ Stages \subseteq Nat
  BY StagesAssumption DEF TypeOK, Stages
<1>2. s # 1
  BY <1>1 DEF GateInv, assertStageGatesConsistent, ReadsScore
<1>3. s - 1 \in Stages /\ s - 1 < s
  BY <1>1, <1>2 DEF Stages
<1>4. src \subseteq Stages /\ src # {} /\ \A q \in src : q < s
  <2>1. CASE gate[s].scoreBasis = "SPECIFIC_STAGES"
    <3>1. src = gate[s].gateSourceIds
      BY <2>1 DEF resolveSourceSections
    <3>2. gate[s].gateSourceIds # {} /\ \A q \in gate[s].gateSourceIds : q < s
      BY <2>1 DEF GateInv, assertStageGatesConsistent
    <3> QED BY <1>1, <3>1, <3>2 DEF Gate
  <2>2. CASE gate[s].scoreBasis = "CUMULATIVE"
    <3>1. src = {q \in Stages : q < s}
      BY <2>2 DEF resolveSourceSections
    <3> QED BY <1>3, <3>1
  <2>3. CASE gate[s].scoreBasis \notin {"SPECIFIC_STAGES", "CUMULATIVE"}
    <3>1. src = {q \in Stages : q = s - 1}
      BY <2>3 DEF resolveSourceSections
    <3> QED BY <1>3, <3>1
  <2> QED BY <2>1, <2>2, <2>3
<1>5. IsFiniteSet(Stages)
  BY <1>1, FS_Interval DEF Stages
<1>6. IsFiniteSet(src)
  <2> HIDE DEF src
  <2> QED BY <1>4, <1>5, FS_Subset
<1> QED BY <1>4, <1>6

\* Scores are numbers where there are any.
LEMMA ScoreTypes ==
    ASSUME NEW a \in [Stages -> Attempt], NEW q \in Stages, StageScores(a)[q] # None
    PROVE  StageScores(a)[q] \in Int
BY DEF StageScores, Attempt

\* A gate lets in, of those not in yet, only who is entitled to it.
LEMMA DecideEntitles ==
    ASSUME TypeOK, GateInv, NEW a \in [Stages -> Attempt], NEW s \in Stages,
           decide(gate, a, s, now), ~a[s].unlockedAt
    PROVE  Entitled(a, s)
<1> DEFINE g == gate[s]
           src == resolveSourceSections(gate, s)
           scores == StageScores(a)
<1>0. g \in Gate /\ now \in Nat /\ a[s] \in Attempt
  BY DEF TypeOK
<1>1. CASE g.gateMode = "OPEN"
  BY <1>1 DEF Entitled
<1>2. CASE g.gateMode = "MANUAL_APPROVAL" /\ a[s].approvedAt
  BY <1>2 DEF Entitled
<1>3. ASSUME ReadsScore(g), decidePending(gate, a, s, now), ~HasAggregate(scores, src)
      PROVE  Entitled(a, s)
  <2>1. CASE g.pendingPolicy = "MANUAL_ONLY" /\ a[s].approvedAt
    BY <1>3, <2>1 DEF Entitled
  <2>2. CASE ~(g.pendingPolicy = "MANUAL_ONLY" /\ a[s].approvedAt)
    <3>1. /\ g.pendingPolicy = "AUTO_ADVANCE_AFTER"
          /\ g.graceDays # None
          /\ {a[q].submittedAt : q \in src} \ {None} # {}
          /\ \A d \in {a[q].submittedAt : q \in src} \ {None} : now >= d + g.graceDays
      BY <1>3, <2>2 DEF decidePending, GateInv, assertStageGatesConsistent
    <3>2. /\ \E q \in src : a[q].submittedAt # None
          /\ \A q \in src : a[q].submittedAt # None => now >= a[q].submittedAt + g.graceDays
      BY <3>1
    <3>3. \E q \in src : scores[q] = None
      BY <1>3 DEF HasAggregate
    <3>4. \A q \in src : a[q].submittedAt # None => now - a[q].submittedAt >= g.graceDays
      <4>1. src \subseteq Stages
        BY <1>3, SourcesBefore
      <4>2. \A q \in src : a[q].submittedAt # None => a[q].submittedAt \in Nat
        BY <4>1 DEF Attempt, Instant
      <4>3. g.graceDays \in Nat
        BY <1>0, <3>1 DEF Gate
      <4> HIDE DEF g, src
      <4> QED BY <1>0, <3>2, <4>2, <4>3
    <3> QED BY <1>3, <3>1, <3>2, <3>3, <3>4 DEF Entitled
  <2> QED BY <2>1, <2>2
<1>4. CASE g.gateMode = "MIN_SCORE" /\ decideByScore(gate, a, s, now)
  <2>1. ReadsScore(g)
    BY <1>4 DEF ReadsScore
  <2>2. src \subseteq Stages /\ src # {} /\ IsFiniteSet(src)
    BY <2>1, SourcesBefore
  <2>3. g.minScore # None /\ g.minScore \in Int
    BY <1>0, <1>4 DEF GateInv, assertStageGatesConsistent, Gate
  <2>4. CASE HasAggregate(scores, src)
    <3> DEFINE k == g.minScore
               w == [q \in src |-> Weight[q]]
               u == [q \in src |-> Weight[q] * scores[q]]
               d == [q \in src |-> Weight[q] * (scores[q] - k)]
    <3>1. \A q \in src : Weight[q] \in Int /\ scores[q] \in Int
      <4>1. \A q \in Stages : Weight[q] \in Int
        BY WeightAssumption
      <4> QED BY <2>2, <2>4, <4>1, ScoreTypes DEF HasAggregate
    <3>2. SumFunction(u) >= k * SumFunction(w)
      BY <1>4, <2>2, <2>3, <2>4 DEF decideByScore, WeightedSum, WeightTotal
    <3> HIDE DEF src, scores, k
    <3>3. w \in [src -> Int] /\ u \in [src -> Int]
      <4>1. \A q \in src : Weight[q] * scores[q] \in Int
        BY <3>1
      <4> QED BY <3>1, <4>1
    <3>4. \A q \in src : Weight[q] * (scores[q] - k) = u[q] - k * w[q]
      <4> SUFFICES ASSUME NEW q \in src
                   PROVE  Weight[q] * (scores[q] - k) = Weight[q] * scores[q] - k * Weight[q]
        OBVIOUS
      <4>1. Weight[q] \in Int /\ scores[q] \in Int /\ k \in Int
        BY <2>3, <3>1 DEF k
      <4>2. \A m, n, l \in Int : m * (n - l) = m * n - l * m
        OBVIOUS
      <4> QED BY <4>1, <4>2
    <3>5. d = [q \in src |-> u[q] - k * w[q]]
      BY <3>4
    <3>6. k \in Int
      BY <2>3 DEF k
    <3> HIDE DEF u, w, d
    <3>7. /\ SumFunction(d) = SumFunction(u) - k * SumFunction(w)
          /\ SumFunction(u) \in Int /\ SumFunction(w) \in Int
      BY <2>2, <3>3, <3>5, <3>6, SumOfDistances
    <3>8. k * SumFunction(w) \in Int
      BY <3>6, <3>7
    <3>9. SumFunction(d) >= 0
      BY <3>2, <3>7, <3>8
    <3> QED BY <1>4, <2>4, <3>9 DEF d, k, src, scores, Entitled, HasAggregate
  <2>5. CASE ~HasAggregate(scores, src)
    BY <1>3, <1>4, <2>1, <2>2, <2>5 DEF decideByScore
  <2> QED BY <2>4, <2>5
<1>5. CASE g.gateMode = "TOP_N" /\ decideByQuota(gate, a, s, now)
  <2>1. g.closesAt # None
    BY <1>0, <1>5 DEF GateInv, assertStageGatesConsistent
  <2> QED BY <1>5, <2>1 DEF decideByQuota, Entitled
<1> QED BY <1>1, <1>2, <1>4, <1>5 DEF decide

\* evaluate writes nothing of what a gate reads, except by expiring stages.
LEMMA EvaluateKeeps ==
    ASSUME NEW gs, NEW a \in [Stages -> Attempt], NEW t
    PROVE  LET e == ExpireOverdue(a, t)
               b == evaluate(gs, a, t)
           IN  /\ e \in [Stages -> Attempt] /\ b \in [Stages -> Attempt]
               /\ \A q \in Stages :
                    /\ b[q] = PersistDecision(e[q], decide(gs, e, q, t))
                    /\ b[q].status = e[q].status /\ b[q].score = e[q].score
                    /\ b[q].submittedAt = e[q].submittedAt
                    /\ b[q].approvedAt = e[q].approvedAt
<1> DEFINE e == ExpireOverdue(a, t)
           b == evaluate(gs, a, t)
<1>1. e \in [Stages -> Attempt]
  <2>1. ASSUME NEW x \in Attempt
        PROVE  [x EXCEPT !.status = "EXPIRED", !.lockReason = TRUE] \in Attempt
    BY DEF Attempt, TERMINAL_STATUSES
  <2> QED BY <2>1 DEF ExpireOverdue
<1>2. ASSUME NEW x \in Attempt, NEW open
      PROVE  LET y == PersistDecision(x, open) IN
             /\ y.status = x.status /\ y.score = x.score
             /\ y.submittedAt = x.submittedAt /\ y.approvedAt = x.approvedAt
  BY DEF PersistDecision, Attempt
<1>3. \A q \in Stages : b[q] = PersistDecision(e[q], decide(gs, e, q, t))
  BY DEF evaluate
<1>4. b \in [Stages -> Attempt]
  BY EvaluateType
<1> HIDE DEF e, b
<1>5. ASSUME NEW q \in Stages
      PROVE  /\ b[q].status = e[q].status /\ b[q].score = e[q].score
             /\ b[q].submittedAt = e[q].submittedAt /\ b[q].approvedAt = e[q].approvedAt
  BY <1>1, <1>2, <1>3
<1> QED BY <1>1, <1>3, <1>4, <1>5 DEF e, b

LEMMA EntitledSame ==
    ASSUME TypeOK, GateInv,
           NEW a \in [Stages -> Attempt], NEW b \in [Stages -> Attempt], NEW s \in Stages,
           \A q \in Stages : /\ b[q].score = a[q].score
                             /\ b[q].status = a[q].status
                             /\ b[q].submittedAt = a[q].submittedAt,
           b[s].approvedAt = a[s].approvedAt,
           Entitled(a, s)
    PROVE  Entitled(b, s)
<1>1. StageScores(a) = StageScores(b)
  BY DEF StageScores
<1>2. CASE ReadsScore(gate[s])
  <2>1. \A q \in resolveSourceSections(gate, s) : b[q].submittedAt = a[q].submittedAt
    BY <1>2, SourcesBefore
  <2> QED BY <1>1, <2>1 DEF Entitled
<1>3. CASE ~ReadsScore(gate[s])
  BY <1>1, <1>3 DEF Entitled, ReadsScore
<1> QED BY <1>2, <1>3

\* Whom evaluate lets in is entitled by the rows it read and by those it wrote.
LEMMA EvaluateEntitles ==
    ASSUME TypeOK, GateInv, NEW a \in [Stages -> Attempt], NEW s \in Stages,
           ~a[s].unlockedAt, evaluate(gate, a, now)[s].unlockedAt
    PROVE  Entitled(ExpireOverdue(a, now), s) /\ Entitled(evaluate(gate, a, now), s)
<1> DEFINE e == ExpireOverdue(a, now)
           b == evaluate(gate, a, now)
<1>1. /\ e \in [Stages -> Attempt] /\ b \in [Stages -> Attempt]
      /\ \A q \in Stages : /\ b[q] = PersistDecision(e[q], decide(gate, e, q, now))
                           /\ b[q].status = e[q].status /\ b[q].score = e[q].score
                           /\ b[q].submittedAt = e[q].submittedAt
                           /\ b[q].approvedAt = e[q].approvedAt
  BY EvaluateKeeps
<1>2. a[s].status = "LOCKED"
  BY EvaluateLooks DEF Looked
<1>3. e[s] = a[s]
  BY <1>2 DEF ExpireOverdue, Overdue
<1> HIDE DEF e
<1>4. decide(gate, e, s, now)
  <2> SUFFICES ASSUME ~decide(gate, e, s, now) PROVE FALSE
    OBVIOUS
  <2>1. b[s] = a[s] \/ b[s] = [a[s] EXCEPT !.lockReason = TRUE, !.unlockedAt = FALSE]
    BY <1>1, <1>3 DEF PersistDecision
  <2>2. b[s].unlockedAt /\ a[s] \in Attempt
    OBVIOUS
  <2> HIDE DEF b
  <2> QED BY <2>1, <2>2 DEF Attempt
<1>5. Entitled(e, s)
  BY <1>1, <1>3, <1>4, DecideEntitles
<1> HIDE DEF b
<1>6. Entitled(b, s)
  BY <1>1, <1>5, EntitledSame
<1> QED BY <1>5, <1>6 DEF e, b

\* Nobody is let into a stage they are not entitled to, whichever handler
\* unlocks it and whatever the gates are.
THEOREM AdmissionSafe == Spec => AdmissionJustified
<1>1. ASSUME TypeOK, GateInv, [Next]_vars, NEW d \in Candidates, NEW q \in Stages,
             Unlocks(d, q)
      PROVE  \/ IsApproved(d, q)
             \/ Entitled(att'[d], q)
             \/ Starts(d) /\ Entitled(ExpireOverdue(att[d], now), q)
  <2> DEFINE P == \/ IsApproved(d, q)
                  \/ Entitled(att'[d], q)
                  \/ Starts(d) /\ Entitled(ExpireOverdue(att[d], now), q)
  <2>0. /\ att \in [Candidates -> [Stages -> Attempt]]
        /\ att[d] \in [Stages -> Attempt]
        /\ att[d][q] \in Attempt
        /\ ~att[d][q].unlockedAt /\ att'[d][q].unlockedAt
    BY <1>1 DEF TypeOK, Unlocks
  <2>1. ASSUME NEW a \in [Stages -> Attempt], ~a[q].unlockedAt,
               att'[d] = evaluate(gate, a, now)
        PROVE  P
    BY <1>1, <2>0, <2>1, EvaluateEntitles
  <2>2. CASE Tick \/ findWaitingOnGrading \/ UNCHANGED vars
    BY <2>0, <2>2 DEF Tick, findWaitingOnGrading, vars
  <2>3. ASSUME NEW c \in Candidates, getStages(c) \/ evaluateFound(c) PROVE P
    <3>1. att' = [att EXCEPT ![c] = evaluate(gate, att[c], now)]
      BY <2>3 DEF getStages, evaluateFound
    <3>2. c = d
      BY <2>0, <3>1
    <3> QED BY <2>0, <2>1, <3>1, <3>2
  <2>4. ASSUME NEW c \in Candidates, NEW s \in Stages, startStage(c, s) PROVE P
    <3> DEFINE a == att[d]
               e == evaluate(gate, a, now)
               x == EffectiveExpiry(gate[s])
               started == [e EXCEPT ![s].status = "IN_PROGRESS",
                                    ![s].expiresAt = x,
                                    ![s].unlockedAt = TRUE,
                                    ![s].lockReason = FALSE]
               done == evaluate(gate, started, now)
    <3>1. c = d
      BY <2>0, <2>4 DEF startStage
    <3>2. /\ att'[d] = done
          /\ e[s].status = "LOCKED" /\ decide(gate, e, s, now)
      BY <2>0, <2>4, <3>1 DEF startStage, Startable, ViewUnlocked
    <3>3. a \in [Stages -> Attempt] /\ e \in [Stages -> Attempt]
      BY <2>0, EvaluateType
    <3>4. x \in Instant
      BY <1>1, ExpiryType
    <3> HIDE DEF e, x
    <3>5. /\ started \in [Stages -> Attempt]
          /\ started[s].status = "IN_PROGRESS" /\ started[s].unlockedAt = TRUE
          /\ started[s].score = e[s].score /\ started[s].submittedAt = e[s].submittedAt
          /\ q # s => started[q] = e[q]
      <4>1. ASSUME NEW y \in Attempt
            PROVE  LET z == [y EXCEPT !.status = "IN_PROGRESS", !.expiresAt = x,
                                      !.unlockedAt = TRUE, !.lockReason = FALSE]
                   IN  /\ z \in Attempt /\ z.status = "IN_PROGRESS" /\ z.unlockedAt = TRUE
                       /\ z.score = y.score /\ z.submittedAt = y.submittedAt
        BY <3>4 DEF Attempt
      <4>2. started = [e EXCEPT ![s] =
              [e[s] EXCEPT !.status = "IN_PROGRESS", !.expiresAt = x,
                           !.unlockedAt = TRUE, !.lockReason = FALSE]]
        BY <3>3 DEF Attempt
      <4> HIDE DEF started
      <4> QED BY <3>3, <4>1, <4>2
    <3>6. Starts(d)
      <4>1. Looked(a[s], e[s])
        BY <3>3, EvaluateLooks DEF e
      <4>2. Looked(started[s], done[s])
        BY <3>5, EvaluateLooks
      <4> HIDE DEF started, done
      <4>3. Started(a[s], done[s])
        BY <3>2, <3>5, <4>1, <4>2, StartedBetween
      <4> QED BY <3>2, <4>3 DEF Starts, Started
    <3>7. CASE e[q].unlockedAt
      <4>1. Entitled(ExpireOverdue(a, now), q)
        BY <1>1, <2>0, <3>7, EvaluateEntitles DEF e
      <4> QED BY <3>6, <4>1
    <3>8. CASE ~e[q].unlockedAt /\ q = s
      <4>1. Entitled(e, q)
        BY <1>1, <3>2, <3>3, <3>8, DecideEntitles
      <4>2. LET b == ExpireOverdue(a, now)
            IN  /\ b \in [Stages -> Attempt]
                /\ \A p \in Stages : /\ e[p].status = b[p].status /\ e[p].score = b[p].score
                                     /\ e[p].submittedAt = b[p].submittedAt
                                     /\ e[p].approvedAt = b[p].approvedAt
        BY <3>3, EvaluateKeeps DEF e
      <4>3. Entitled(ExpireOverdue(a, now), q)
        BY <1>1, <3>3, <4>1, <4>2, EntitledSame
      <4> QED BY <3>6, <4>3
    <3>9. CASE ~e[q].unlockedAt /\ q # s
      <4> HIDE DEF started
      <4> QED BY <2>1, <3>2, <3>5, <3>9
    <3> QED BY <3>7, <3>8, <3>9
  <2>5. ASSUME NEW c \in Candidates, NEW s \in Stages, NEW score,
               submitStage(c, s, score) \/ submitTooLate(c, s)
        PROVE  P
    <3>1. CASE submitStage(c, s, score)
      <4>1. att'[d][q].unlockedAt = att[d][q].unlockedAt
        BY <2>0, <3>1 DEF submitStage, Attempt
      <4> QED BY <2>0, <4>1
    <3>2. CASE submitTooLate(c, s)
      <4>1. att'[d][q].unlockedAt = att[d][q].unlockedAt
        BY <2>0, <3>2 DEF submitTooLate, Attempt
      <4> QED BY <2>0, <4>1
    <3> QED BY <2>5, <3>1, <3>2
  <2>6. ASSUME NEW c \in Candidates, NEW s \in Stages, NEW score \in Scores,
               settleStageScore(c, s, score)
        PROVE  P
    <3> DEFINE settled == [att[d] EXCEPT ![s].score = score, ![s].status = "SUBMITTED"]
    <3>1. settled \in [Stages -> Attempt] /\ settled[q].unlockedAt = att[d][q].unlockedAt
      <4>1. ASSUME NEW x \in Attempt
            PROVE  /\ [x EXCEPT !.score = score, !.status = "SUBMITTED"] \in Attempt
                   /\ [x EXCEPT !.score = score, !.status = "SUBMITTED"].unlockedAt
                        = x.unlockedAt
        BY ScoresAssumption DEF Attempt, TERMINAL_STATUSES
      <4>2. settled = [att[d] EXCEPT ![s] =
                         [att[d][s] EXCEPT !.score = score, !.status = "SUBMITTED"]]
        BY <2>0 DEF Attempt
      <4> HIDE DEF settled
      <4> QED BY <2>0, <4>1, <4>2
    <3>2. c = d /\ (att'[d] = settled \/ att'[d] = evaluate(gate, settled, now))
      BY <2>0, <2>6 DEF settleStageScore
    <3> HIDE DEF settled
    <3>3. att'[d] = evaluate(gate, settled, now)
      BY <2>0, <3>1, <3>2
    <3> QED BY <2>0, <2>1, <3>1, <3>3
  <2>7. ASSUME NEW c \in Candidates, NEW s \in Stages, approveStage(c, s) PROVE P
    <3>1. c = d /\ s = q
      BY <2>0, <2>7 DEF approveStage, Attempt
    <3>2. ~att[d][q].approvedAt /\ att'[d][q].approvedAt
      BY <2>0, <2>7, <3>1 DEF approveStage, Attempt
    <3> QED BY <3>2 DEF IsApproved
  <2>8. CASE expireOverdueStages
    <3>1. PICK B \in Batches(ExpiredAttempts) : closeExpired(B)
      BY <2>8 DEF expireOverdueStages
    <3>2. att'[d][q] = IF <<d, q>> \in B
                       THEN [att[d][q] EXCEPT !.status = "EXPIRED", !.lockReason = TRUE]
                       ELSE att[d][q]
      BY <1>1, <3>1 DEF closeExpired
    <3> QED BY <2>0, <3>2 DEF Attempt
  <2>9. ASSUME NEW s \in Stages, applyQuota(s) PROVE P
    <3>1. PICK W \in SUBSET Ranked(s) : giveVerdicts(s, W)
      BY <2>9 DEF applyQuota
    <3>2. s = q
      BY <2>0, <3>1 DEF giveVerdicts
    <3>3. gate[q].gateMode = "TOP_N" /\ gate[q].closesAt # None /\ now > gate[q].closesAt
      <4>1. gate[q] \in Gate /\ now \in Nat
        BY <1>1 DEF TypeOK
      <4> QED BY <2>9, <3>2, <4>1 DEF applyQuota, Gate, Instant
    <3> QED BY <3>3 DEF Entitled
  <2> QED
    BY <1>1, <2>0, <2>2, <2>3, <2>4, <2>5, <2>6, <2>7, <2>8, <2>9
    DEF Next, releaseStagesWaitingOnGrading, aiEvaluates, gradeSubmission,
        markAsManualReview, updateStageGate
<1>2. TypeOK /\ GateInv /\ [Next]_vars =>
        [\A c \in Candidates, s \in Stages : Unlocks(c, s) =>
           \/ IsApproved(c, s)
           \/ Entitled(att'[c], s)
           \/ Starts(c) /\ Entitled(ExpireOverdue(att[c], now), s)]_vars
  BY <1>1
<1> QED BY <1>2, TypeCorrect, GatesCorrect, PTL DEF Spec, AdmissionJustified

-----------------------------------------------------------------------------
\* Induction over the stages in their order: T is the set of the numbers of
\* which the claim holds.
LEMMA StageInduction ==
    ASSUME NEW n \in Nat, NEW T, 0 \in T, \A i \in 1 .. n : i - 1 \in T => i \in T
    PROVE  \A i \in 0 .. n : i \in T
<1> DEFINE Bad == (0 .. n) \ T
<1>1. SUFFICES ASSUME Bad # {} PROVE FALSE
  OBVIOUS
<1>2. Bad \subseteq Nat
  OBVIOUS
<1>3. PICK i \in Bad : \A j \in Bad : ~(<<j, i>> \in OpToRel(<, Nat))
  <2> HIDE DEF Bad
  <2> QED BY <1>1, <1>2, NatLessThanWellFounded, WFMin
<1>4. i \in 1 .. n /\ i - 1 \in 0 .. n
  <2>1. i \in 0 .. n /\ i # 0
    OBVIOUS
  <2> QED BY <2>1
<1>5. i - 1 \in Bad
  BY <1>3, <1>4
<1>6. <<i - 1, i>> \in OpToRel(<, Nat)
  BY <1>4 DEF OpToRel
<1> QED BY <1>3, <1>5, <1>6

\* decide looks only at the stage itself and, when its gate reads scores, at
\* earlier ones.
LEMMA DecideLooksBack ==
    ASSUME TypeOK, GateInv,
           NEW a \in [Stages -> Attempt], NEW b \in [Stages -> Attempt], NEW s \in Stages,
           \A q \in Stages : q < s => /\ b[q].score = a[q].score
                                      /\ b[q].status = a[q].status
                                      /\ b[q].submittedAt = a[q].submittedAt,
           b[s] = a[s]
    PROVE  decide(gate, b, s, now) <=> decide(gate, a, s, now)
<1>1. CASE ~ReadsScore(gate[s])
  BY <1>1 DEF decide, ReadsScore
<1>2. CASE ReadsScore(gate[s])
  <2> DEFINE src == resolveSourceSections(gate, s)
  <2>1. src \subseteq Stages /\ \A q \in src : q < s
    BY <1>2, SourcesBefore
  <2> HIDE DEF src
  <2>2. \A q \in src : StageScores(b)[q] = StageScores(a)[q]
    BY <2>1 DEF StageScores
  <2>3. {a[q].submittedAt : q \in src} = {b[q].submittedAt : q \in src}
    BY <2>1
  <2>4. decidePending(gate, b, s, now) <=> decidePending(gate, a, s, now)
    BY <2>3 DEF decidePending, src
  <2>5. HasAggregate(StageScores(b), src) <=> HasAggregate(StageScores(a), src)
    BY <2>2 DEF HasAggregate
  <2>6. WeightedSum(StageScores(b), src) = WeightedSum(StageScores(a), src)
    <3>1. [q \in src |-> Weight[q] * StageScores(b)[q]]
            = [q \in src |-> Weight[q] * StageScores(a)[q]]
      BY <2>2
    <3> QED BY <3>1 DEF WeightedSum
  <2>7. decideByScore(gate, b, s, now) <=> decideByScore(gate, a, s, now)
    BY <2>4, <2>5, <2>6 DEF decideByScore, src
  <2>8. decideByQuota(gate, b, s, now) <=> decideByQuota(gate, a, s, now)
    BY <2>4, <2>5 DEF decideByQuota, src
  <2> QED BY <2>7, <2>8 DEF decide
<1> QED BY <1>1, <1>2

\* The code's walk over the stages writes the rows evaluate is modelled by: when
\* it has passed stage i, the stages up to i have their new row and the others
\* still their old one.
THEOREM WalkCorrect == Spec => []WalkAgrees
<1>1. ASSUME TypeOK, GateInv, NEW c \in Candidates
      PROVE  evaluate(gate, att[c], now) = Walk(gate, att[c], now)
  <2> DEFINE a == att[c]
             e == ExpireOverdue(a, now)
             b == evaluate(gate, a, now)
             Row(w, i) == IF Overdue(w[i - 1][i], now)
                          THEN [w[i - 1][i] EXCEPT !.status = "EXPIRED", !.lockReason = TRUE]
                          ELSE w[i - 1][i]
             Rows(w, i) == [w[i - 1] EXCEPT ![i] = Row(w, i)]
             Def(w) == [i \in 0 .. NumStages |->
                          IF i = 0 THEN a
                          ELSE [Rows(w, i) EXCEPT ![i] =
                                  PersistDecision(Row(w, i), decide(gate, Rows(w, i), i, now))]]
             mid == [i \in 0 .. NumStages |-> [s \in Stages |-> IF s <= i THEN b[s] ELSE a[s]]]
             step == CHOOSE w : w = Def(w)
  <2>1. /\ a \in [Stages -> Attempt] /\ e \in [Stages -> Attempt] /\ b \in [Stages -> Attempt]
        /\ \A q \in Stages : /\ b[q] = PersistDecision(e[q], decide(gate, e, q, now))
                             /\ b[q].status = e[q].status /\ b[q].score = e[q].score
                             /\ b[q].submittedAt = e[q].submittedAt
    <3>1. a \in [Stages -> Attempt]
      BY <1>1 DEF TypeOK
    <3> HIDE DEF a
    <3> QED BY <3>1, EvaluateKeeps
  <2>2. NumStages \in Nat /\ \A s : s \in Stages <=> s \in 1 .. NumStages
    BY StagesAssumption DEF Stages
  <2>3. \A s \in Stages : e[s] = IF Overdue(a[s], now)
                                 THEN [a[s] EXCEPT !.status = "EXPIRED", !.lockReason = TRUE]
                                 ELSE a[s]
    BY DEF ExpireOverdue
  <2> HIDE DEF a, b, e
  <2>4. ASSUME NEW i \in 1 .. NumStages
        PROVE  [Rows(mid, i) EXCEPT ![i] =
                  PersistDecision(Row(mid, i), decide(gate, Rows(mid, i), i, now))] = mid[i]
    <3>1. i \in Stages /\ i - 1 \in 0 .. NumStages /\ i \in 0 .. NumStages
      BY <2>2
    <3>2. mid[i - 1] = [s \in Stages |-> IF s <= i - 1 THEN b[s] ELSE a[s]]
      BY <3>1
    <3>3. mid[i - 1][i] = a[i]
      BY <2>2, <3>1, <3>2
    <3>4. Row(mid, i) = e[i]
      BY <2>3, <3>1, <3>3
    <3> DEFINE r == Rows(mid, i)
    <3>5. r = [s \in Stages |-> IF s < i THEN b[s] ELSE IF s = i THEN e[i] ELSE a[s]]
      <4> HIDE DEF mid
      <4> QED BY <2>2, <3>2, <3>4
    <3> HIDE DEF r
    <3>6. /\ r \in [Stages -> Attempt] /\ r[i] = e[i]
          /\ \A q \in Stages : q < i => /\ r[q].score = e[q].score
                                        /\ r[q].status = e[q].status
                                        /\ r[q].submittedAt = e[q].submittedAt
      BY <2>1, <2>2, <3>1, <3>5
    <3>7. decide(gate, r, i, now) <=> decide(gate, e, i, now)
      BY <1>1, <2>1, <3>1, <3>6, DecideLooksBack
    <3>8. PersistDecision(e[i], decide(gate, r, i, now)) = b[i]
      BY <2>1, <3>1, <3>7 DEF PersistDecision
    <3>9. [r EXCEPT ![i] = b[i]] = [s \in Stages |-> IF s <= i THEN b[s] ELSE a[s]]
      BY <2>2, <3>1, <3>5
    <3> QED BY <3>1, <3>4, <3>8, <3>9 DEF r
  <2>5. mid[0] = a
    <3>1. mid[0] = [s \in Stages |-> IF s <= 0 THEN b[s] ELSE a[s]]
      BY <2>2
    <3> QED BY <2>1, <2>2, <3>1
  <2>6. mid[NumStages] = b
    <3>1. mid[NumStages] = [s \in Stages |-> IF s <= NumStages THEN b[s] ELSE a[s]]
      BY <2>2
    <3> QED BY <2>1, <2>2, <3>1
  <2>a. mid = [i \in 0 .. NumStages |-> mid[i]]
    OBVIOUS
  <2> HIDE DEF mid, Row, Rows
  <2>7. mid = Def(mid)
    <3> DEFINE New(i) == [Rows(mid, i) EXCEPT ![i] =
                            PersistDecision(Row(mid, i), decide(gate, Rows(mid, i), i, now))]
    <3>1. \A i \in 1 .. NumStages : mid[i] = New(i)
      BY <2>4
    <3> HIDE DEF New
    <3>2. \A i \in 0 .. NumStages : mid[i] = IF i = 0 THEN a ELSE New(i)
      BY <2>2, <2>5, <3>1
    <3>3. mid = [i \in 0 .. NumStages |-> IF i = 0 THEN a ELSE New(i)]
      BY <2>a, <3>2
    <3> QED BY <3>3 DEF New
  <2>8. step = Def(step)
    BY <2>7
  <2>9. Walk(gate, a, now) = step[NumStages]
    BY DEF Walk, Row, Rows
  <2> HIDE DEF step
  <2>10. \A i \in 0 .. NumStages : step[i] = mid[i]
    <3> DEFINE T == {i \in 0 .. NumStages : step[i] = mid[i]}
    <3>1. 0 \in T
      <4>1. step[0] = a
        BY <2>2, <2>8
      <4> QED BY <2>2, <2>5, <4>1
    <3>2. ASSUME NEW i \in 1 .. NumStages, i - 1 \in T PROVE i \in T
      <4>1. step[i - 1] = mid[i - 1]
        BY <3>2
      <4>2. i \in 0 .. NumStages /\ i # 0
        BY <2>2
      <4>3. step[i] = [Rows(step, i) EXCEPT ![i] =
                         PersistDecision(Row(step, i), decide(gate, Rows(step, i), i, now))]
        BY <2>8, <4>2
      <4>4. Row(step, i) = Row(mid, i)
        BY <4>1 DEF Row
      <4>5. Rows(step, i) = Rows(mid, i)
        BY <4>1, <4>4 DEF Rows
      <4> QED BY <2>4, <4>2, <4>3, <4>4, <4>5
    <3> HIDE DEF T
    <3>3. \A i \in 0 .. NumStages : i \in T
      BY <2>2, <3>1, <3>2, StageInduction
    <3> QED BY <3>3 DEF T
  <2> QED BY <2>2, <2>6, <2>9, <2>10 DEF a, b
<1>2. TypeOK /\ GateInv => WalkAgrees
  BY <1>1 DEF WalkAgrees
<1> QED BY <1>2, TypeCorrect, GatesCorrect, PTL
=============================================================================
