---------------------------- MODULE GradingProofs ----------------------------
(***************************************************************************)
(* Theorems about Grading, for every number of stages, submissions and     *)
(* graders: type correctness, that the crons act on a submission once, and  *)
(* that a payment stands for a reward or for an auto-pass rolled back.     *)
(***************************************************************************)
EXTENDS Grading, TLAPS

\* The inductive invariant behind PenalisedOnce and RemindedOnce.  A cron that
\* works off a list read earlier acts once only because nothing but the cron
\* itself changes, while the list is under way, the column it selected by.
CronInv ==
    \A s \in Subs :
        /\ penalty[s] = IF sub[s].autoPassed THEN 1 ELSE 0
        /\ s \in sla.todo \/ sla.passing = s => ~sub[s].autoPassed
        /\ s \in sla.todo => sla.passing # s
        /\ sub[s].reminders <= 1
        /\ s \in remind => sub[s].reminders = 0

-----------------------------------------------------------------------------
\* The updates of a Submission row the handlers make give Submission rows.
LEMMA RowTypes ==
    ASSUME NEW x \in Submission
    PROVE  /\ \A st \in {"PASSED", "FAILED"} \cup Waiting :
                [x EXCEPT !.status = st] \in Submission
           /\ [x EXCEPT !.weekOld = TRUE] \in Submission
           /\ [x EXCEPT !.reminders = @ + 1] \in Submission
           /\ [x EXCEPT !.status = "PASSED", !.autoPassed = TRUE,
                        !.evaluatedAt = TRUE] \in Submission
           /\ \A st \in {"PASSED", "FAILED"} :
                [x EXCEPT !.status = st, !.evaluatedAt = TRUE] \in Submission
<1> USE DEF Submission, Waiting
<1>1. \A st \in {"PASSED", "FAILED"} \cup Waiting : [x EXCEPT !.status = st] \in Submission
  OBVIOUS
<1>2. [x EXCEPT !.weekOld = TRUE] \in Submission
  OBVIOUS
<1>3. [x EXCEPT !.reminders = @ + 1] \in Submission
  OBVIOUS
<1>4. [x EXCEPT !.status = "PASSED", !.autoPassed = TRUE, !.evaluatedAt = TRUE] \in Submission
  OBVIOUS
<1>5. \A st \in {"PASSED", "FAILED"} :
         [x EXCEPT !.status = st, !.evaluatedAt = TRUE] \in Submission
  OBVIOUS
<1>6. QED BY <1>1, <1>2, <1>3, <1>4, <1>5

\* Each step keeps every variable in its type.
LEMMA TypeStep ==
    ASSUME TypeOK, [Next]_vars
    PROVE  TypeOK'
<1> USE DEF TypeOK, Batch, Round, Grader, IdleBatch, IdleRound, IdleGrader, jobs, tokens
<1>1. CASE UNCHANGED vars
  BY <1>1 DEF vars
<1>2. ASSUME NEW s \in Stages, stageMoves(s) PROVE TypeOK'
  BY <1>2 DEF stageMoves
<1>3. ASSUME NEW s \in Subs, submitSolution(s) PROVE TypeOK'
  BY <1>3 DEF submitSolution
<1>4. ASSUME NEW s \in Subs, commitSubmission(s) PROVE TypeOK'
  <2>1. sub' \in [Subs -> Submission]
    <3> DEFINE st == IF AiEnabled THEN "PENDING_AI" ELSE "UNDER_REVIEW"
               y == [sub[s] EXCEPT !.status = st]
    <3>1. sub' = [sub EXCEPT ![s] = y]
      BY <1>4 DEF commitSubmission
    <3>2. y \in Submission
      BY RowTypes DEF Waiting
    <3>3. QED BY <3>1, <3>2
  <2>2. /\ enrollment' \in {"IN_PROGRESS", "SUBMITTED", "EVALUATED"}
        /\ handIn' \in [Subs -> {"idle", "last", "more"}]
    BY <1>4 DEF commitSubmission
  <2>3. attempt' \in [Stages -> {"LOCKED", "OPEN", "IN_PROGRESS", "CLOSED", "EXPIRED"}]
    BY <1>4 DEF commitSubmission
  <2>4. QED
    BY <1>4, <2>1, <2>2, <2>3 DEF commitSubmission
<1>5. ASSUME NEW s \in Subs, weekPasses(s) PROVE TypeOK'
  <2>1. sub' \in [Subs -> Submission]
    <3>1. sub' = [sub EXCEPT ![s] = [sub[s] EXCEPT !.weekOld = TRUE]]
      BY <1>5 DEF weekPasses
    <3>2. [sub[s] EXCEPT !.weekOld = TRUE] \in Submission
      BY RowTypes
    <3>3. QED BY <3>1, <3>2
  <2>2. QED
    BY <1>5, <2>1 DEF weekPasses
<1>6. ASSUME NEW s \in Subs, aiEvaluates(s) PROVE TypeOK'
  <2>1. sub' \in [Subs -> Submission]
    <3> DEFINE y == [sub[s] EXCEPT !.status = "UNDER_REVIEW"]
    <3>1. sub' = [sub EXCEPT ![s] = y]
      BY <1>6 DEF aiEvaluates
    <3>2. y \in Submission
      BY RowTypes DEF Waiting
    <3>3. QED BY <3>1, <3>2
  <2>2. QED
    BY <1>6, <2>1 DEF aiEvaluates
<1>7. ASSUME NEW s \in Subs, markAsManualReview(s) PROVE TypeOK'
  <2>1. sub' \in [Subs -> Submission]
    <3> DEFINE y == [sub[s] EXCEPT !.status = "UNDER_REVIEW"]
    <3>1. sub' = [sub EXCEPT ![s] = y]
      BY <1>7 DEF markAsManualReview
    <3>2. y \in Submission
      BY RowTypes DEF Waiting
    <3>3. QED BY <3>1, <3>2
  <2>2. QED
    BY <1>7, <2>1 DEF markAsManualReview
<1>8. ASSUME NEW s \in Subs, autoPass(s) PROVE TypeOK'
  <2>1. sub' \in [Subs -> Submission]
    <3> DEFINE y == [sub[s] EXCEPT !.status = "PASSED", !.autoPassed = TRUE,
                                   !.evaluatedAt = TRUE]
    <3>1. sub' = [sub EXCEPT ![s] = y]
      BY <1>8 DEF autoPass
    <3>2. y \in Submission
      BY RowTypes
    <3>3. QED BY <3>1, <3>2
  <2>2. sla' \in Round
    BY <1>8 DEF autoPass
  <2>3. penalty' \in [Subs -> Nat] /\ rewards' \in [Subs -> Nat]
    BY <1>8 DEF autoPass
  <2>4. QED
    BY <1>8, <2>1, <2>2, <2>3 DEF autoPass
<1>9. ASSUME NEW s \in Subs, sendReminder(s) PROVE TypeOK'
  <2>1. sub' \in [Subs -> Submission]
    <3>1. sub' = [sub EXCEPT ![s] = [sub[s] EXCEPT !.reminders = @ + 1]]
      BY <1>9 DEF sendReminder
    <3>2. [sub[s] EXCEPT !.reminders = @ + 1] \in Submission
      BY RowTypes
    <3>3. QED BY <3>1, <3>2
  <2>2. QED
    BY <1>9, <2>1 DEF sendReminder
<1>10. ASSUME aiFindsPending PROVE TypeOK'
  BY <1>10 DEF aiFindsPending
<1>11. ASSUME aiSettles PROVE TypeOK'
  BY <1>11 DEF aiSettles
<1>12. ASSUME slaFindsNeglected PROVE TypeOK'
  BY <1>12 DEF slaFindsNeglected, Neglected
<1>13. ASSUME slaSettles PROVE TypeOK'
  BY <1>13 DEF slaSettles
<1>14. ASSUME findUnreminded PROVE TypeOK'
  BY <1>14 DEF findUnreminded, Unreminded
<1>15. ASSUME NEW s \in Subs, earnTokens(s) PROVE TypeOK'
  BY <1>15 DEF earnTokens
<1>16. ASSUME restart PROVE TypeOK'
  BY <1>16, SMTT(30) DEF restart
<1>17. ASSUME NEW g \in Graders, NEW s \in Subs, readForGrading(g, s) PROVE TypeOK'
  BY <1>17 DEF readForGrading
<1>18. ASSUME NEW g \in Graders, NEW verdict \in {"PASSED", "FAILED"},
              gradeSubmission(g, verdict)
       PROVE  TypeOK'
  <2> DEFINE s == grader[g].of
             y == [sub[s] EXCEPT !.status = verdict, !.evaluatedAt = TRUE]
             h == [grader[g] EXCEPT !.step = "settle"]
  <2>1. sub' = [sub EXCEPT ![s] = y]
    BY <1>18 DEF gradeSubmission
  <2>2. sub' \in [Subs -> Submission]
    <3>1. CASE s \in Subs
      <4>1. y \in Submission
        BY <3>1, RowTypes
      <4>2. QED BY <2>1, <4>1
    <3>2. CASE s \notin Subs
      BY <2>1, <3>2
    <3>3. QED BY <3>1, <3>2
  <2>3. grader' \in [Graders -> Grader]
    <3>1. h \in Grader /\ IdleGrader \in Grader
      <4>1. ASSUME NEW x \in Grader PROVE [x EXCEPT !.step = "settle"] \in Grader
        OBVIOUS
      <4>2. QED BY <4>1
    <3>2. grader' = [grader EXCEPT ![g] = IF s \in Stages THEN h ELSE IdleGrader]
      BY <1>18 DEF gradeSubmission
    <3>3. QED BY <3>1, <3>2
  <2>4. rewards' \in [Subs -> Nat] /\ paid' \in [Subs -> Nat]
    <3>1. CASE grader[g].whole /\ verdict = "PASSED"
      BY <1>18, <3>1 DEF gradeSubmission
    <3>2. CASE ~(grader[g].whole /\ verdict = "PASSED")
      BY <1>18, <3>2 DEF gradeSubmission
    <3>3. QED BY <3>1, <3>2
  <2>5. enrollment' \in {"IN_PROGRESS", "SUBMITTED", "EVALUATED"}
    BY <1>18 DEF gradeSubmission
  <2>6. QED
    BY <1>18, <2>2, <2>3, <2>4, <2>5 DEF gradeSubmission
<1>19. ASSUME NEW g \in Graders, settleGrade(g) PROVE TypeOK'
  BY <1>19 DEF settleGrade
<1>20. ASSUME NEW s \in Subs, beginAutoPass(s) PROVE TypeOK'
  <2>1. sla' \in Round
    BY <1>20 DEF beginAutoPass
  <2>2. owed' \in [Subs -> Nat]
    BY <1>20 DEF beginAutoPass
  <2>3. QED BY <1>20, <2>1, <2>2 DEF beginAutoPass
<1>21. ASSUME NEW s \in Subs, cancelAutoPass(s) PROVE TypeOK'
  BY <1>21 DEF cancelAutoPass
<1>22. QED
  BY <1>1, <1>2, <1>3, <1>4, <1>5, <1>6, <1>7, <1>8, <1>9, <1>10, <1>11, <1>12,
     <1>13, <1>14, <1>15, <1>16, <1>17, <1>18, <1>19, <1>20, <1>21, SMTT(30)
     DEF Next, handleAiEvaluations, runPunishmentCron

\* Every variable of Grading always has its type.
THEOREM TypeCorrect == Spec => []TypeOK
<1>1. Init => TypeOK
  BY StagesAssumption DEF Init, TypeOK, Batch, Round, Grader, IdleBatch, IdleRound,
     IdleGrader, Submission, NewSubmission, Waiting
<1>2. QED
  BY <1>1, TypeStep, PTL DEF Spec

-----------------------------------------------------------------------------
\* One submission's part of CronInv.
OnceOK(q) ==
    /\ penalty[q] = IF sub[q].autoPassed THEN 1 ELSE 0
    /\ q \in sla.todo \/ sla.passing = q => ~sub[q].autoPassed
    /\ q \in sla.todo => sla.passing # q
    /\ sub[q].reminders <= 1
    /\ q \in remind => sub[q].reminders = 0

\* A step that leaves the columns of the two crons and takes nothing new onto
\* their lists keeps CronInv.
LEMMA CronIdle ==
    ASSUME CronInv, NEW q \in Subs,
           sub'[q].autoPassed = sub[q].autoPassed, sub'[q].reminders = sub[q].reminders,
           penalty'[q] = penalty[q], remind' \subseteq remind,
           q \in sla'.todo => q \in sla.todo, sla'.passing = q => sla.passing = q
    PROVE  OnceOK(q)'
BY DEF CronInv, OnceOK

\* Each step keeps the crons' bookkeeping in order.
LEMMA CronStep ==
    ASSUME TypeOK, CronInv, [Next]_vars
    PROVE  CronInv'
<1> SUFFICES ASSUME NEW q \in Subs PROVE OnceOK(q)'
  BY DEF CronInv, OnceOK
<1> DEFINE Idle == /\ sub'[q].autoPassed = sub[q].autoPassed
                   /\ sub'[q].reminders = sub[q].reminders
                   /\ penalty'[q] = penalty[q]
                   /\ remind' \subseteq remind
                   /\ q \in sla'.todo => q \in sla.todo
                   /\ sla'.passing = q => sla.passing = q
<1>0. /\ OnceOK(q) /\ q # None
      /\ sub \in [Subs -> Submission] /\ penalty \in [Subs -> Nat]
      /\ sla \in Round /\ remind \in SUBSET Subs
      /\ \A s \in Subs : sub[s] \in Submission
  BY NoneAssumption DEF CronInv, OnceOK, TypeOK, Subs, Stages
<1> USE DEF Submission, jobs, tokens
<1>1. CASE UNCHANGED vars
  <2>1. Idle
    BY <1>1 DEF vars
  <2>2. QED BY <2>1, CronIdle
<1>2. ASSUME NEW s \in Stages, stageMoves(s) PROVE OnceOK(q)'
  <2>1. Idle
    BY <1>2 DEF stageMoves
  <2>2. QED BY <2>1, CronIdle
<1>3. ASSUME NEW s \in Subs, submitSolution(s) PROVE OnceOK(q)'
  <2>1. Idle
    BY <1>3 DEF submitSolution
  <2>2. QED BY <2>1, CronIdle
<1>4. ASSUME NEW s \in Subs, commitSubmission(s) PROVE OnceOK(q)'
  <2>1. Idle
    BY <1>0, <1>4 DEF commitSubmission
  <2>2. QED BY <2>1, CronIdle
<1>5. ASSUME NEW s \in Subs, weekPasses(s) PROVE OnceOK(q)'
  <2>1. Idle
    BY <1>0, <1>5 DEF weekPasses
  <2>2. QED BY <2>1, CronIdle
<1>6. ASSUME NEW s \in Subs, aiEvaluates(s) PROVE OnceOK(q)'
  <2>1. Idle
    BY <1>0, <1>6 DEF aiEvaluates
  <2>2. QED BY <2>1, CronIdle
<1>7. ASSUME NEW s \in Subs, markAsManualReview(s) PROVE OnceOK(q)'
  <2>1. Idle
    BY <1>0, <1>7 DEF markAsManualReview
  <2>2. QED BY <2>1, CronIdle
\* The submission passed is on the list no longer and has autoPassed set.
<1>8. ASSUME NEW s \in Subs, autoPass(s) PROVE OnceOK(q)'
  <2>1. /\ sla'.todo = sla.todo /\ sla.passing = s /\ sla'.passing = None
        /\ remind' = remind
        /\ sub'[q].reminders = sub[q].reminders
    BY <1>0, <1>8 DEF autoPass, Round
  <2>2. CASE q = s
    <3>1. penalty'[q] = penalty[q] + 1 /\ sub'[q].autoPassed
      BY <1>0, <1>8, <2>2 DEF autoPass
    <3>2. penalty[q] = 0
      BY <1>0, <2>1, <2>2 DEF OnceOK
    <3>3. QED BY <1>0, <2>1, <2>2, <3>1, <3>2 DEF OnceOK
  <2>3. CASE q # s
    <3>1. penalty'[q] = penalty[q] /\ sub'[q] = sub[q]
      BY <1>0, <1>8, <2>3 DEF autoPass
    <3>2. QED BY <1>0, <2>1, <3>1, CronIdle
  <2>4. QED BY <2>2, <2>3
\* The submission reminded of leaves the list with its reminder counted.
<1>9. ASSUME NEW s \in Subs, sendReminder(s) PROVE OnceOK(q)'
  <2>1. /\ remind' = remind \ {s} /\ s \in remind
        /\ penalty' = penalty /\ sla' = sla
        /\ sub'[q].autoPassed = sub[q].autoPassed
    BY <1>0, <1>9 DEF sendReminder
  <2>2. CASE q = s
    <3>1. sub'[q].reminders = sub[q].reminders + 1
      BY <1>0, <1>9, <2>2 DEF sendReminder
    <3>2. sub[q].reminders = 0
      BY <1>0, <2>1, <2>2 DEF OnceOK
    <3>3. QED BY <1>0, <2>1, <2>2, <3>1, <3>2 DEF OnceOK
  <2>3. CASE q # s
    <3>1. sub'[q] = sub[q]
      BY <1>0, <1>9, <2>3 DEF sendReminder
    <3>2. QED BY <2>1, <3>1, CronIdle
  <2>4. QED BY <2>2, <2>3
<1>10. ASSUME aiFindsPending PROVE OnceOK(q)'
  <2>1. Idle
    BY <1>10 DEF aiFindsPending
  <2>2. QED BY <2>1, CronIdle
<1>11. ASSUME aiSettles PROVE OnceOK(q)'
  <2>1. Idle
    BY <1>11 DEF aiSettles
  <2>2. QED BY <2>1, CronIdle
\* Only submissions not yet passed come onto the list.
<1>12. ASSUME slaFindsNeglected PROVE OnceOK(q)'
  <2>1. (q \in sla'.todo => ~sub[q].autoPassed) /\ sla'.passing # q
    BY <1>0, <1>12 DEF slaFindsNeglected, Neglected, IdleRound, Round
  <2>2. UNCHANGED <<sub, penalty, remind>>
    BY <1>12 DEF slaFindsNeglected
  <2>3. QED BY <1>0, <2>1, <2>2 DEF OnceOK
<1>13. ASSUME slaSettles PROVE OnceOK(q)'
  <2>1. Idle
    BY <1>0, <1>13 DEF slaSettles, Round
  <2>2. QED BY <2>1, CronIdle
<1>14. ASSUME findUnreminded PROVE OnceOK(q)'
  <2>1. q \in remind' => sub[q].reminders = 0
    BY <1>14 DEF findUnreminded, Unreminded
  <2>2. UNCHANGED <<sub, penalty, sla>>
    BY <1>14 DEF findUnreminded
  <2>3. QED BY <1>0, <2>1, <2>2 DEF OnceOK
<1>15. ASSUME NEW s \in Subs, earnTokens(s) PROVE OnceOK(q)'
  <2>1. Idle
    BY <1>15 DEF earnTokens
  <2>2. QED BY <2>1, CronIdle
<1>16. ASSUME restart PROVE OnceOK(q)'
  <2>1. Idle
    BY <1>0, <1>16 DEF restart, IdleRound
  <2>2. QED BY <2>1, CronIdle
<1>17. ASSUME NEW g \in Graders, NEW s \in Subs, readForGrading(g, s) PROVE OnceOK(q)'
  <2>1. Idle
    BY <1>17 DEF readForGrading
  <2>2. QED BY <2>1, CronIdle
<1>18. ASSUME NEW g \in Graders, NEW verdict \in {"PASSED", "FAILED"},
              gradeSubmission(g, verdict)
       PROVE  OnceOK(q)'
  <2>1. Idle
    BY <1>0, <1>18 DEF gradeSubmission
  <2>2. QED BY <2>1, CronIdle
<1>19. ASSUME NEW g \in Graders, settleGrade(g) PROVE OnceOK(q)'
  <2>1. Idle
    BY <1>19 DEF settleGrade
  <2>2. QED BY <2>1, CronIdle
\* The submission moves from the list to the transaction.
<1>20. ASSUME NEW s \in Subs, beginAutoPass(s) PROVE OnceOK(q)'
  <2>1. /\ sla'.todo = sla.todo \ {s} /\ s \in sla.todo /\ sla'.passing = s
        /\ UNCHANGED <<sub, penalty, remind>>
    BY <1>0, <1>20 DEF beginAutoPass, Round
  <2>2. QED BY <1>0, <2>1 DEF OnceOK
<1>21. ASSUME NEW s \in Subs, cancelAutoPass(s) PROVE OnceOK(q)'
  <2>1. Idle
    BY <1>0, <1>21 DEF cancelAutoPass, IdleRound
  <2>2. QED BY <2>1, CronIdle
<1>22. QED
  BY <1>1, <1>2, <1>3, <1>4, <1>5, <1>6, <1>7, <1>8, <1>9, <1>10, <1>11, <1>12,
     <1>13, <1>14, <1>15, <1>16, <1>17, <1>18, <1>19, <1>20, <1>21
     DEF Next, handleAiEvaluations, runPunishmentCron

\* The types and the crons' bookkeeping together are an inductive invariant.
THEOREM CronsCorrect == Spec => [](TypeOK /\ CronInv)
<1>1. Init => CronInv
  BY NoneAssumption DEF Init, CronInv, NewSubmission, IdleRound, Subs, Stages
<1>2. TypeOK /\ CronInv /\ [Next]_vars => CronInv'
  BY CronStep
<1>3. QED
  BY <1>1, <1>2, TypeCorrect, PTL DEF Spec

\* A company loses trust at most once for a submission (runPunishmentCron).
THEOREM PenaltyOnce == Spec => []PenalisedOnce
<1>1. TypeOK /\ CronInv => PenalisedOnce
  BY DEF TypeOK, CronInv, PenalisedOnce
<1>2. QED
  BY <1>1, CronsCorrect, PTL

\* A submission's company is reminded of it at most once
\* (handleReviewSlaReminders).
THEOREM ReminderOnce == Spec => []RemindedOnce
<1>1. CronInv => RemindedOnce
  BY DEF CronInv, RemindedOnce
<1>2. QED
  BY <1>1, CronsCorrect, PTL

-----------------------------------------------------------------------------
\* One submission's part of PayInv.  While its auto-pass is open, the payment it
\* has launched has nothing to stand for yet.
PayOK(q) ==
    /\ paid[q] <= rewards[q] + cancelled[q]
    /\ paid[q] + owed[q] <=
         rewards[q] + cancelled[q] + (IF sla.passing = q /\ q \in Wholes THEN 1 ELSE 0)

\* The inductive invariant behind TokensBacked: what is owed counts as paid, but
\* for the payment of an auto-pass still open, which cannot be made while that
\* holds the talent's profile.
PayInv == \A q \in Subs : PayOK(q)

\* A step that pays, owes and rewards nothing for q, and ends no auto-pass of it,
\* keeps its books.
LEMMA BooksIdle ==
    ASSUME TypeOK, NEW q \in Subs, PayOK(q),
           paid'[q] = paid[q], owed'[q] = owed[q], rewards'[q] = rewards[q],
           cancelled'[q] = cancelled[q],
           sla.passing = q /\ q \in Wholes => sla'.passing = q
    PROVE  PayOK(q)'
<1>1. paid[q] \in Nat /\ owed[q] \in Nat /\ rewards[q] \in Nat /\ cancelled[q] \in Nat
  BY DEF TypeOK
<1>2. QED BY <1>1 DEF PayOK

\* Each step keeps the books of every submission.
LEMMA PayStep ==
    ASSUME TypeOK, PayInv, [Next]_vars, NEW q \in Subs
    PROVE  PayOK(q)'
<1> DEFINE Idle == /\ paid'[q] = paid[q] /\ owed'[q] = owed[q]
                   /\ rewards'[q] = rewards[q] /\ cancelled'[q] = cancelled[q]
                   /\ sla.passing = q /\ q \in Wholes => sla'.passing = q
<1>0. /\ PayOK(q) /\ q # None /\ sla \in Round
      /\ paid \in [Subs -> Nat] /\ owed \in [Subs -> Nat]
      /\ rewards \in [Subs -> Nat] /\ cancelled \in [Subs -> Nat]
  BY NoneAssumption DEF PayInv, TypeOK, Subs, Stages
<1>n. paid[q] \in Nat /\ owed[q] \in Nat /\ rewards[q] \in Nat /\ cancelled[q] \in Nat
  BY <1>0
<1>d. Idle => PayOK(q)'
  BY <1>0, BooksIdle
<1>1. CASE UNCHANGED vars
  <2>1. Idle BY <1>1 DEF vars, tokens, jobs
  <2>2. QED BY <2>1, <1>d
<1>2. ASSUME NEW s \in Stages, stageMoves(s) PROVE PayOK(q)'
  <2>1. Idle BY <1>2 DEF stageMoves, tokens, jobs
  <2>2. QED BY <2>1, <1>d
<1>3. ASSUME NEW s \in Subs,
             submitSolution(s) \/ commitSubmission(s) \/ weekPasses(s) \/ sendReminder(s)
      PROVE  PayOK(q)'
  <2>1. Idle
    BY <1>3 DEF submitSolution, commitSubmission, weekPasses, sendReminder, tokens, jobs
  <2>2. QED BY <2>1, <1>d
<1>4. CASE handleAiEvaluations
  <2>1. Idle
    BY <1>4 DEF handleAiEvaluations, aiFindsPending, aiSettles, aiEvaluates,
       markAsManualReview, tokens
  <2>2. QED BY <2>1, <1>d
<1>5. CASE slaFindsNeglected \/ slaSettles \/ findUnreminded
  <2>1. Idle
    BY <1>0, <1>5 DEF slaFindsNeglected, slaSettles, findUnreminded, tokens, Round, IdleRound
  <2>2. QED BY <2>1, <1>d
\* What is launched is owed, and stands for nothing until the transaction ends.
<1>6. ASSUME NEW s \in Subs, beginAutoPass(s) PROVE PayOK(q)'
  <2>1. /\ sla.passing = None /\ sla'.passing = s
        /\ UNCHANGED <<paid, rewards, cancelled>>
        /\ owed' = IF s \in Wholes THEN [owed EXCEPT ![s] = @ + 1] ELSE owed
    BY <1>0, <1>6 DEF beginAutoPass, Round
  <2>2. CASE q = s /\ s \in Wholes
    <3>1. owed'[q] = owed[q] + 1
      BY <1>0, <2>1, <2>2
    <3>2. QED BY <1>0, <1>n, <2>1, <2>2, <3>1 DEF PayOK
  <2>3. CASE ~(q = s /\ s \in Wholes)
    <3>1. Idle
      BY <1>0, <2>1, <2>3
    <3>2. QED BY <3>1, <1>d
  <2>4. QED BY <2>2, <2>3
\* It stands for the reward committed ...
<1>7. ASSUME NEW s \in Subs, autoPass(s) PROVE PayOK(q)'
  <2>1. /\ sla.passing = s /\ sla'.passing = None
        /\ UNCHANGED <<paid, owed, cancelled>>
        /\ rewards' = IF s \in Wholes THEN [rewards EXCEPT ![s] = @ + 1] ELSE rewards
    BY <1>0, <1>7 DEF autoPass, Round, tokens
  <2>2. CASE q = s /\ s \in Wholes
    <3>1. rewards'[q] = rewards[q] + 1
      BY <1>0, <2>1, <2>2
    <3>2. QED BY <1>0, <1>n, <2>1, <2>2, <3>1 DEF PayOK
  <2>3. CASE ~(q = s /\ s \in Wholes)
    <3>1. Idle
      BY <1>0, <2>1, <2>3
    <3>2. QED BY <3>1, <1>d
  <2>4. QED BY <2>2, <2>3
\* ... or for the auto-pass that was rolled back.
<1>8. ASSUME NEW s \in Subs, cancelAutoPass(s) PROVE PayOK(q)'
  <2>1. /\ sla.passing = s /\ sla'.passing = None
        /\ UNCHANGED <<paid, owed, rewards>>
        /\ cancelled' = IF s \in Wholes THEN [cancelled EXCEPT ![s] = @ + 1] ELSE cancelled
    BY <1>0, <1>8 DEF cancelAutoPass, IdleRound
  <2>2. CASE q = s /\ s \in Wholes
    <3>1. cancelled'[q] = cancelled[q] + 1
      BY <1>0, <2>1, <2>2
    <3>2. QED BY <1>0, <1>n, <2>1, <2>2, <3>1 DEF PayOK
  <2>3. CASE ~(q = s /\ s \in Wholes)
    <3>1. Idle
      BY <1>0, <2>1, <2>3
    <3>2. QED BY <3>1, <1>d
  <2>4. QED BY <2>2, <2>3
\* A payment is made only when no auto-pass holds the talent's profile.
<1>9. ASSUME NEW s \in Subs, earnTokens(s) PROVE PayOK(q)'
  <2>1. /\ owed[s] > 0 /\ sla.passing \notin Wholes
        /\ UNCHANGED <<rewards, cancelled, sla>>
        /\ owed' = [owed EXCEPT ![s] = @ - 1] /\ paid' = [paid EXCEPT ![s] = @ + 1]
    BY <1>9 DEF earnTokens, TalentFree, jobs
  <2>2. CASE q = s
    <3>1. owed'[q] = owed[q] - 1 /\ paid'[q] = paid[q] + 1
      BY <1>0, <2>1, <2>2
    <3>2. QED BY <1>0, <1>n, <2>1, <2>2, <3>1 DEF PayOK
  <2>3. CASE q # s
    <3>1. Idle
      BY <1>0, <2>1, <2>3
    <3>2. QED BY <3>1, <1>d
  <2>4. QED BY <2>2, <2>3
<1>10. CASE restart
  <2>1. owed'[q] = 0 /\ UNCHANGED <<paid, rewards, cancelled>> /\ sla'.passing = None
    BY <1>10 DEF restart, IdleRound
  <2>2. QED BY <1>0, <1>n, <2>1 DEF PayOK
<1>11. ASSUME NEW g \in Graders, NEW s \in Subs, readForGrading(g, s) PROVE PayOK(q)'
  <2>1. Idle BY <1>11 DEF readForGrading, tokens
  <2>2. QED BY <2>1, <1>d
\* A person's reward and its payment are one transaction.
<1>12. ASSUME NEW g \in Graders, NEW verdict \in {"PASSED", "FAILED"},
              gradeSubmission(g, verdict)
       PROVE  PayOK(q)'
  <2> DEFINE rewarded == grader[g].whole /\ verdict = "PASSED"
  <2>1. UNCHANGED <<owed, cancelled, sla>>
    BY <1>12 DEF gradeSubmission
  <2>2. CASE rewarded /\ grader[g].of = q
    <3>1. rewards'[q] = rewards[q] + 1 /\ paid'[q] = paid[q] + 1
      BY <1>0, <1>12, <2>2 DEF gradeSubmission
    <3>2. QED BY <1>0, <1>n, <2>1, <3>1 DEF PayOK
  <2>3. CASE ~(rewarded /\ grader[g].of = q)
    <3>1. rewards'[q] = rewards[q] /\ paid'[q] = paid[q]
      BY <1>0, <1>12, <2>3 DEF gradeSubmission
    <3>2. Idle
      BY <2>1, <3>1
    <3>3. QED BY <3>2, <1>d
  <2>4. QED BY <2>2, <2>3
<1>13. ASSUME NEW g \in Graders, settleGrade(g) PROVE PayOK(q)'
  <2>1. Idle BY <1>13 DEF settleGrade, tokens
  <2>2. QED BY <2>1, <1>d
<1>14. QED
  BY <1>1, <1>2, <1>3, <1>4, <1>5, <1>6, <1>7, <1>8, <1>9, <1>10, <1>11, <1>12, <1>13
     DEF Next, runPunishmentCron

\* The books of every submission are kept in every reachable state.
THEOREM RewardsCorrect == Spec => []PayInv
<1>1. Init => PayInv
  BY DEF Init, PayInv, PayOK
<1>2. TypeOK /\ PayInv /\ [Next]_vars => PayInv'
  BY PayStep DEF PayInv
<1>3. QED BY <1>1, <1>2, TypeCorrect, PTL DEF Spec

\* A payment stands for a reward of its submission or for an auto-pass of it that
\* was rolled back after launching it (gradeSubmission, runPunishmentCron).
THEOREM TokensSafe == Spec => []TokensBacked
<1>1. PayInv => TokensBacked
  BY DEF PayInv, PayOK, TokensBacked
<1>2. QED BY <1>1, RewardsCorrect, PTL
=============================================================================
