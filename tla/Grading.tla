------------------------------- MODULE Grading -------------------------------
(***************************************************************************)
(* How the submissions of one enrollment in a company's challenge are      *)
(* graded: by the AI queue, by people, and by the seven-day cron that      *)
(* passes what nobody graded.  Each reads first and writes later by id;    *)
(* transactions are one step, what follows them is another, and the server *)
(* may restart between any two.  The transaction of an auto-pass is two    *)
(* steps, for it launches a payment that does not belong to it and may be  *)
(* cancelled afterwards.                                                   *)
(*                                                                         *)
(* XP, portfolio entry and badges are given in the same branches of the    *)
(* same transactions: they are the one counter rewards.  When a stage      *)
(* opens, its score and what the score opens are the business of StageGate *)
(* and StageAttempt: settling a score is here only a step to be waited for.*)
(***************************************************************************)
EXTENDS Integers, FiniteSets

CONSTANTS
    NumStages,      \* stages of the challenge, 0 when it has none
    Wholes,         \* submissions of the whole challenge that may be made
    Graders,        \* requests to gradeSubmission that may be under way
    AiEnabled,      \* shouldRunAi
    MaxFaults,      \* bound on restarts of the server and on auto-passes that
                    \* are rolled back, taken together
    None

Stages == 1 .. NumStages
Subs == Stages \cup Wholes

ASSUME StagesAssumption == NumStages \in Nat
ASSUME WholesAssumption == IsFiniteSet(Wholes) /\ Wholes \cap Nat = {}
ASSUME NoneAssumption == None \notin Nat \cup Wholes
ASSUME BoundAssumption == AiEnabled \in BOOLEAN /\ MaxFaults \in Nat

VARIABLES
    enrollment, \* the enrollment's status
    attempt,    \* attempt[s]: stage s; "OPEN" is LOCKED with unlockedAt set
    sub,        \* sub[s]: the Submission row
    rewards,    \* rewards[s]: how often submission s was rewarded
    penalty,    \* penalty[s]: how often trustScore was cut for submission s
    paid,       \* paid[s]: how often the talent was paid tokens for s
    owed,       \* owed[s]: payments for s launched and not yet made
    cancelled,  \* cancelled[s]: auto-passes of s that launched a payment and were
                \* rolled back afterwards
    handIn,     \* handIn[s]: what submitSolution counted, before it commits
    ai,         \* handleAiEvaluations: its batch, and a stage to be settled
    sla,        \* runPunishmentCron: its list, the submission its transaction
                \* is open on, and a stage to be settled
    remind,     \* handleReviewSlaReminders: its list
    grader,     \* grader[g]: a gradeSubmission under way
    faults      \* restarts and rolled-back auto-passes so far

jobs == <<handIn, ai, sla, remind, grader>>
tokens == <<paid, owed, cancelled>>
vars == <<enrollment, attempt, sub, rewards, penalty, tokens, jobs, faults>>

Waiting == {"PENDING_AI", "UNDER_REVIEW"}

Submission ==
    [status      : {"NONE", "PASSED", "FAILED"} \cup Waiting,
     evaluatedAt : BOOLEAN,
     autoPassed  : BOOLEAN,
     reminders   : Nat,         \* slaReminderSentAt, counted
     weekOld     : BOOLEAN]     \* created more than seven days ago

NewSubmission ==
    [status |-> "NONE", evaluatedAt |-> FALSE, autoPassed |-> FALSE,
     reminders |-> 0, weekOld |-> FALSE]

IdleBatch == [todo |-> {}, settling |-> None]
IdleRound == [todo |-> {}, passing |-> None, settling |-> None]
IdleGrader == [step |-> "idle", of |-> None, whole |-> FALSE]

Init ==
    /\ enrollment = "IN_PROGRESS"
    /\ attempt = [s \in Stages |-> "LOCKED"]
    /\ sub = [s \in Subs |-> NewSubmission]
    /\ rewards = [s \in Subs |-> 0]
    /\ penalty = [s \in Subs |-> 0]
    /\ paid = [s \in Subs |-> 0]
    /\ owed = [s \in Subs |-> 0]
    /\ cancelled = [s \in Subs |-> 0]
    /\ handIn = [s \in Subs |-> "idle"]
    /\ ai = IdleBatch
    /\ sla = IdleRound
    /\ remind = {}
    /\ grader = [g \in Graders |-> IdleGrader]
    /\ faults = 0

-----------------------------------------------------------------------------
(* The candidate's stages.                                                 *)

\* Stages open in any order: an OPEN gate waits for nobody.
stageMoves(s) ==
    /\ \/ /\ attempt[s] = "LOCKED"                  \* evaluate
          /\ attempt' = [attempt EXCEPT ![s] = "OPEN"]
       \/ /\ attempt[s] = "OPEN"                    \* startStage
          /\ attempt' = [attempt EXCEPT ![s] = "IN_PROGRESS"]
       \/ /\ attempt[s] = "IN_PROGRESS"             \* its time is over
          /\ attempt' = [attempt EXCEPT ![s] = "EXPIRED"]
    /\ UNCHANGED <<enrollment, sub, rewards, penalty, tokens, jobs, faults>>

isLastOpenStage(s) ==
    \A q \in Stages \ {s} : attempt[q] \notin {"OPEN", "IN_PROGRESS"}

\* submitSolution up to its transaction's first statement ...
submitSolution(s) ==
    /\ handIn[s] = "idle" /\ sub[s].status = "NONE"
    /\ IF s \in Stages THEN attempt[s] = "IN_PROGRESS" ELSE enrollment # "SUBMITTED"
    /\ handIn' = [handIn EXCEPT ![s] =
                    IF s \in Wholes \/ isLastOpenStage(s) THEN "last" ELSE "more"]
    /\ UNCHANGED <<enrollment, attempt, sub, rewards, penalty, tokens,
                   ai, sla, remind, grader, faults>>

\* ... and its commit: enrollment, closeStage and the new row together.
commitSubmission(s) ==
    /\ handIn[s] # "idle"
    /\ handIn' = [handIn EXCEPT ![s] = "idle"]
    /\ enrollment' = IF handIn[s] = "last" THEN "SUBMITTED" ELSE enrollment
    /\ sub' = [sub EXCEPT ![s].status = IF AiEnabled THEN "PENDING_AI" ELSE "UNDER_REVIEW"]
    /\ attempt' = IF s \in Stages THEN [attempt EXCEPT ![s] = "CLOSED"] ELSE attempt
    /\ UNCHANGED <<rewards, penalty, tokens, ai, sla, remind, grader, faults>>

weekPasses(s) ==
    /\ sub[s].status # "NONE" /\ ~sub[s].weekOld
    /\ sub' = [sub EXCEPT ![s].weekOld = TRUE]
    /\ UNCHANGED <<enrollment, attempt, rewards, penalty, tokens, jobs, faults>>

\* Rows an open auto-pass has written are locked until it ends: the submission
\* and, when it is a whole one, the talent's profile.
Free(s) == sla.passing # s
TalentFree == sla.passing \notin Wholes

-----------------------------------------------------------------------------
(* The AI queue, one round at a time (isProcessing).                       *)

aiFindsPending ==
    /\ ai = IdleBatch
    /\ ai' = [ai EXCEPT !.todo = {s \in Subs : sub[s].status = "PENDING_AI"}]
    /\ ai'.todo # {}
    /\ UNCHANGED <<enrollment, attempt, sub, rewards, penalty, tokens,
                   handIn, sla, remind, grader, faults>>

\* The evaluation of s has come back and is stored.
aiEvaluates(s) ==
    /\ s \in ai.todo /\ ai.settling = None /\ Free(s)
    /\ ai' = [todo |-> ai.todo \ {s}, settling |-> IF s \in Stages THEN s ELSE None]
    /\ sub' = [sub EXCEPT ![s].status = "UNDER_REVIEW"]
    /\ UNCHANGED <<enrollment, attempt, rewards, penalty, tokens,
                   handIn, sla, remind, grader, faults>>

\* Mutated form of markAsManualReview: the failure is only logged.
markAsManualReview_LogOnly(s) ==
    /\ s \in ai.todo /\ ai.settling = None /\ Free(s)
    /\ ai' = [ai EXCEPT !.todo = @ \ {s}]
    /\ UNCHANGED <<enrollment, attempt, sub, rewards, penalty, tokens,
                   handIn, sla, remind, grader, faults>>

\* Nothing to evaluate, or the AI failed.
markAsManualReview(s) ==
    /\ s \in ai.todo /\ ai.settling = None /\ Free(s)
    /\ ai' = [ai EXCEPT !.todo = @ \ {s}]
    /\ sub' = [sub EXCEPT ![s].status = "UNDER_REVIEW"]
    /\ UNCHANGED <<enrollment, attempt, rewards, penalty, tokens,
                   handIn, sla, remind, grader, faults>>

aiSettles ==
    /\ ai.settling # None
    /\ ai' = [ai EXCEPT !.settling = None]
    /\ UNCHANGED <<enrollment, attempt, sub, rewards, penalty, tokens,
                   handIn, sla, remind, grader, faults>>

-----------------------------------------------------------------------------
(* runPunishmentCron.  Its hourly rounds are taken not to overlap.         *)

\* Mutated forms of Neglected: autoPassed is forgotten; only the AI queue is
\* looked at.
Neglected_Again == {s \in Subs : sub[s].status \in Waiting /\ sub[s].weekOld}
Neglected_AiOnly ==
    {s \in Subs : sub[s].status = "PENDING_AI" /\ sub[s].weekOld /\ ~sub[s].autoPassed}

Neglected ==
    {s \in Subs : sub[s].status \in Waiting /\ sub[s].weekOld /\ ~sub[s].autoPassed}

slaFindsNeglected ==
    /\ sla = IdleRound
    /\ Neglected # {}
    /\ sla' = [sla EXCEPT !.todo = Neglected]
    /\ UNCHANGED <<enrollment, attempt, sub, rewards, penalty, tokens,
                   handIn, ai, remind, grader, faults>>

\* Mutated form of beginAutoPass: stages are paid for like whole challenges.
beginAutoPass_PaysStages(s) ==
    /\ s \in sla.todo /\ sla.passing = None /\ sla.settling = None
    /\ sla' = [sla EXCEPT !.todo = @ \ {s}, !.passing = s]
    /\ owed' = [owed EXCEPT ![s] = @ + 1]
    /\ UNCHANGED <<enrollment, attempt, sub, rewards, penalty, paid, cancelled,
                   handIn, ai, remind, grader, faults>>

\* The transaction has written the submission, the company and the talent, which
\* nobody sees yet, and has launched the payment of a whole submission: a
\* transaction of its own, not awaited.
beginAutoPass(s) ==
    /\ s \in sla.todo /\ sla.passing = None /\ sla.settling = None
    /\ sla' = [sla EXCEPT !.todo = @ \ {s}, !.passing = s]
    /\ owed' = IF s \in Wholes THEN [owed EXCEPT ![s] = @ + 1] ELSE owed
    /\ UNCHANGED <<enrollment, attempt, sub, rewards, penalty, paid, cancelled,
                   handIn, ai, remind, grader, faults>>

\* Portfolio, badges and notifications are written too, and all is committed.
autoPass(s) ==
    /\ sla.passing = s
    /\ sla' = [sla EXCEPT !.passing = None, !.settling = IF s \in Stages THEN s ELSE None]
    /\ sub' = [sub EXCEPT ![s].status = "PASSED", ![s].autoPassed = TRUE,
                          ![s].evaluatedAt = TRUE]
    /\ penalty' = [penalty EXCEPT ![s] = @ + 1]
    /\ rewards' = IF s \in Wholes THEN [rewards EXCEPT ![s] = @ + 1] ELSE rewards
    /\ UNCHANGED <<enrollment, attempt, tokens, handIn, ai, remind, grader, faults>>

\* One of those writes fails, or the transaction takes too long: it is rolled
\* back, the payment is not, and the exception ends the whole round.  (When the
\* first writes fail already, there is merely no payment.)
cancelAutoPass(s) ==
    /\ sla.passing = s
    /\ faults < MaxFaults
    /\ faults' = faults + 1
    /\ sla' = IdleRound
    /\ cancelled' = IF s \in Wholes THEN [cancelled EXCEPT ![s] = @ + 1] ELSE cancelled
    /\ UNCHANGED <<enrollment, attempt, sub, rewards, penalty, paid, owed,
                   handIn, ai, remind, grader>>

slaSettles ==
    /\ sla.settling # None
    /\ sla' = [sla EXCEPT !.settling = None]
    /\ UNCHANGED <<enrollment, attempt, sub, rewards, penalty, tokens,
                   handIn, ai, remind, grader, faults>>

\* The payment updates the talent's profile: it waits for an auto-pass that has
\* written there.  A payment that fails is only logged: it is one never made.
earnTokens(s) ==
    /\ owed[s] > 0 /\ TalentFree
    /\ owed' = [owed EXCEPT ![s] = @ - 1]
    /\ paid' = [paid EXCEPT ![s] = @ + 1]
    /\ UNCHANGED <<enrollment, attempt, sub, rewards, penalty, cancelled,
                   jobs, faults>>

-----------------------------------------------------------------------------
(* handleReviewSlaReminders, once a day.                                   *)

\* Mutated form of Unreminded: slaReminderSentAt is not looked at.
Unreminded_Always ==
    {s \in Subs : sub[s].status \in Waiting /\ ~sub[s].evaluatedAt /\ sub[s].weekOld}

Unreminded ==
    {s \in Subs : /\ sub[s].status \in Waiting /\ ~sub[s].evaluatedAt
                  /\ sub[s].weekOld /\ sub[s].reminders = 0}

findUnreminded ==
    /\ remind = {} /\ Unreminded # {}
    /\ remind' = Unreminded
    /\ UNCHANGED <<enrollment, attempt, sub, rewards, penalty, tokens,
                   handIn, ai, sla, grader, faults>>

sendReminder(s) ==
    /\ s \in remind /\ Free(s)
    /\ remind' = remind \ {s}
    /\ sub' = [sub EXCEPT ![s].reminders = @ + 1]
    /\ UNCHANGED <<enrollment, attempt, rewards, penalty, tokens,
                   handIn, ai, sla, grader, faults>>

-----------------------------------------------------------------------------
(* People.                                                                 *)

readForGrading(g, s) ==
    /\ grader[g].step = "idle"
    /\ sub[s].status # "NONE" /\ ~sub[s].evaluatedAt
    /\ grader' = [grader EXCEPT ![g] =
         [step |-> "grade", of |-> s,
          whole |-> s \in Wholes \/ enrollment = "SUBMITTED"]]
    /\ UNCHANGED <<enrollment, attempt, sub, rewards, penalty, tokens,
                   handIn, ai, sla, remind, faults>>

\* The transaction, decided on what was read before it.
gradeSubmission(g, verdict) ==
    LET s == grader[g].of
        whole == grader[g].whole
        rewarded == whole /\ verdict = "PASSED"
    IN  /\ grader[g].step = "grade"
        /\ Free(s) /\ (rewarded => TalentFree)
        /\ grader' = [grader EXCEPT ![g] =
             IF s \in Stages THEN [@ EXCEPT !.step = "settle"] ELSE IdleGrader]
        /\ sub' = [sub EXCEPT ![s].status = verdict, ![s].evaluatedAt = TRUE]
        /\ enrollment' = IF whole THEN "EVALUATED" ELSE enrollment
        /\ IF rewarded
           THEN /\ rewards' = [rewards EXCEPT ![s] = @ + 1]
                /\ paid' = [paid EXCEPT ![s] = @ + 1]
           ELSE UNCHANGED <<rewards, paid>>
        /\ UNCHANGED <<attempt, penalty, owed, cancelled, handIn, ai, sla, remind, faults>>

settleGrade(g) ==
    /\ grader[g].step = "settle"
    /\ grader' = [grader EXCEPT ![g] = IdleGrader]
    /\ UNCHANGED <<enrollment, attempt, sub, rewards, penalty, tokens,
                   handIn, ai, sla, remind, faults>>

-----------------------------------------------------------------------------
\* Everything the process held in memory is gone; the rows stay.
restart ==
    /\ faults < MaxFaults
    /\ faults' = faults + 1
    /\ handIn' = [s \in Subs |-> "idle"]
    /\ ai' = IdleBatch /\ sla' = IdleRound /\ remind' = {}
    /\ grader' = [g \in Graders |-> IdleGrader]
    /\ owed' = [s \in Subs |-> 0]
    /\ UNCHANGED <<enrollment, attempt, sub, rewards, penalty, paid, cancelled>>

handleAiEvaluations ==
    \/ aiFindsPending \/ aiSettles
    \/ \E s \in Subs : aiEvaluates(s) \/ markAsManualReview(s)

runPunishmentCron ==
    \/ slaFindsNeglected \/ slaSettles
    \/ \E s \in Subs : beginAutoPass(s) \/ autoPass(s) \/ cancelAutoPass(s)

Next ==
    \/ \E s \in Stages : stageMoves(s)
    \/ \E s \in Subs :
         \/ submitSolution(s) \/ commitSubmission(s) \/ weekPasses(s)
         \/ sendReminder(s) \/ earnTokens(s)
    \/ handleAiEvaluations \/ runPunishmentCron
    \/ findUnreminded \/ restart
    \/ \E g \in Graders :
         \/ \E s \in Subs : readForGrading(g, s)
         \/ \E verdict \in {"PASSED", "FAILED"} : gradeSubmission(g, verdict)
         \/ settleGrade(g)

Spec == Init /\ [][Next]_vars

\* The crons come round and go on with their rounds; nobody is obliged to grade,
\* the AI may fail every time, and a week need not pass.  MaxFaults says that an
\* auto-pass does not fail for ever: one that did would end every round.
Fairness ==
    /\ WF_vars(handleAiEvaluations)
    /\ WF_vars(runPunishmentCron)

FairSpec == Spec /\ Fairness

-----------------------------------------------------------------------------
Batch == [todo : SUBSET Subs, settling : Stages \cup {None}]
Round == [todo : SUBSET Subs, passing : Subs \cup {None}, settling : Stages \cup {None}]
Grader == [step : {"idle", "grade", "settle"}, of : Subs \cup {None}, whole : BOOLEAN]

TypeOK ==
    /\ enrollment \in {"IN_PROGRESS", "SUBMITTED", "EVALUATED"}
    /\ attempt \in [Stages -> {"LOCKED", "OPEN", "IN_PROGRESS", "CLOSED", "EXPIRED"}]
    /\ sub \in [Subs -> Submission]
    /\ rewards \in [Subs -> Nat] /\ penalty \in [Subs -> Nat]
    /\ paid \in [Subs -> Nat] /\ owed \in [Subs -> Nat] /\ cancelled \in [Subs -> Nat]
    /\ handIn \in [Subs -> {"idle", "last", "more"}]
    /\ ai \in Batch /\ sla \in Round /\ remind \in SUBSET Subs
    /\ grader \in [Graders -> Grader]
    /\ faults \in Nat

\* A company loses trust at most once for a submission, even when the AI's late
\* answer or a restart puts a passed submission back among the waiting ones
\* (the autoPassed filter of runPunishmentCron).
PenalisedOnce == \A s \in Subs : penalty[s] <= 1

\* The company is reminded of a submission once, not daily
\* (handleReviewSlaReminders' slaReminderSentAt).
RemindedOnce == \A s \in Subs : sub[s].reminders <= 1

\* Each payment of tokens for a submission stands for a reward of it, or for an
\* auto-pass of it that was rolled back after it had launched the payment: that
\* is the one way to unearned tokens, and a restart, a failed payment or a
\* grader in between adds no other (runPunishmentCron, earnTokens).
TokensBacked == \A s \in Subs : paid[s] <= rewards[s] + cancelled[s]

\* The AI queue empties again and again, long before the seven days are over,
\* even if every evaluation fails or the server restarts in the middle of a round
\* (isProcessing is released, the batch found again).
AiQueueDrains == []<>(\A s \in Subs : sub[s].status # "PENDING_AI")

\* No candidate waits for ever: again and again every submission of more than
\* seven days has had its verdict, from people or from the cron, although an
\* auto-pass that fails ends the round for those behind it.
EverySubmissionAnswered ==
    []<>(\A s \in Subs : sub[s].status \in Waiting /\ sub[s].weekOld => sub[s].evaluatedAt)

-----------------------------------------------------------------------------
(* What comments and messages of the code claim and its behaviour denies.  *)

\* "Tanpa pembedaan ini, kandidat yang melewati lima tahap menerima XP dan token
\* lima kali untuk satu studi kasus" (gradeSubmission): one case, one reward.
RewardedOnce == Cardinality(UNION {{s} \X (1 .. rewards[s]) : s \in Subs}) <= 1
=============================================================================
