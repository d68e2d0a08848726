----------------------------- MODULE StageAttempt -----------------------------
(***************************************************************************)
(* One StageAttempt row under concurrent requests.  StageGate takes every  *)
(* handler as one step; here each await is a step of its own: a handler    *)
(* reads the row, other handlers run, and it writes by id what it decided  *)
(* on the row it read.  No write of this service is conditional on the     *)
(* status it was decided on; only the unique index on                      *)
(* Submission.stageAttemptId refuses one.                                  *)
(***************************************************************************)
EXTENDS Integers, FiniteSets

CONSTANTS
    Jobs,           \* request handlers and cron rounds that may be under way
    CanDo,          \* CanDo[j]: the operations job j may carry out
    None,           \* SQL null
    timeLimit,      \* the stage's own limit, None when it has none
    closesAt,       \* the stage's closing time, None when it has none
    CLOCK_SKEW,     \* CLOCK_SKEW_MS
    Scores,         \* scores a grader may give
    MaxNow          \* bound on the clock

Ops == {"look", "start", "submit", "grade", "approve", "expire"}
Instant == Nat \cup {None}

ASSUME CanDoAssumption == CanDo \in [Jobs -> SUBSET Ops]
ASSUME TimesAssumption ==
    /\ None \notin Nat
    /\ timeLimit \in (Nat \ {0}) \cup {None} /\ closesAt \in Instant
    /\ CLOCK_SKEW \in Nat /\ MaxNow \in Nat
ASSUME ScoresAssumption == Scores \subseteq 0 .. 100

VARIABLES
    now,        \* the server's clock
    condition,  \* what the gate says: "pass", "wait", or "outside" its window
    row,        \* the StageAttempt row
    submission, \* the Submission row of the attempt
    job,        \* job[j]: the operation under way, its step and what it has read
    promised    \* history: the gate has passed or the owner has approved

vars == <<now, condition, row, submission, job, promised>>

Row ==
    [status      : {"LOCKED", "IN_PROGRESS", "SUBMITTED", "EXPIRED"},
     unlockedAt  : BOOLEAN,
     lockReason  : BOOLEAN,
     approvedAt  : BOOLEAN,
     score       : (0 .. 100) \cup {None},
     startedAt   : Instant,
     expiresAt   : Instant]

NewRow ==
    [status |-> "LOCKED", unlockedAt |-> FALSE, lockReason |-> FALSE,
     approvedAt |-> FALSE, score |-> None, startedAt |-> None, expiresAt |-> None]

Steps == {"idle", "begin", "evaluate", "enter", "tooLate", "handIn", "settle",
          "approve", "sweep"}

\* Between two awaits a job holds the row it read, and evaluate's verdict.
JobState == [step : Steps, op : Ops, read : Row, at : Nat, open : BOOLEAN]

Idle == [step |-> "idle", op |-> "look", read |-> NewRow, at |-> 0, open |-> FALSE]

Init ==
    /\ now = 0
    /\ condition \in {"pass", "wait"}
    /\ row = NewRow
    /\ submission = "NONE"
    /\ job = [j \in Jobs |-> Idle]
    /\ promised = (condition = "pass")

\* A job goes on to a step that needs nothing but the row's id.
Goto(j, step, op) == job' = [job EXCEPT ![j] = [Idle EXCEPT !.step = step, !.op = op]]
Finish(j) == job' = [job EXCEPT ![j] = Idle]

CanBegin(j, op) ==
    \/ job[j].step = "idle" /\ op \in CanDo[j]
    \/ job[j].step = "begin" /\ job[j].op = op

-----------------------------------------------------------------------------
(* The world around the row.                                               *)

Tick ==
    /\ now < MaxNow
    /\ now' = now + 1
    /\ UNCHANGED <<condition, row, submission, job, promised>>

\* Scores of earlier stages come and go, the window opens and closes.
conditionChanges ==
    /\ condition' \in {"pass", "wait", "outside"} \ {condition}
    /\ promised' = (promised \/ condition' = "pass")
    /\ UNCHANGED <<now, row, submission, job>>

-----------------------------------------------------------------------------
(* getStages: ensureAttempts reads, evaluate writes.                       *)

readStage(j) ==
    /\ \E op \in {"look", "start"} :
         /\ CanBegin(j, op)
         /\ job' = [job EXCEPT ![j] = [step |-> "evaluate", op |-> op, read |-> row,
                                       at |-> now, open |-> FALSE]]
    /\ UNCHANGED <<now, condition, row, submission, promised>>

Overdue(x, t) ==
    x.status = "IN_PROGRESS" /\ x.expiresAt # None /\ x.expiresAt <= t

decide(x) == condition = "pass" \/ (condition = "wait" /\ x.unlockedAt)

\* shouldPersist: evaluate writes unless it has read its own verdict.  A reason is
\* a text, so another reason may have been read than the one now given.
ShouldPersist(x, open) ==
    IF open THEN {x.lockReason \/ ~x.unlockedAt}
    ELSE IF x.lockReason THEN BOOLEAN ELSE {TRUE}

\* The columns evaluate writes, whatever the row holds by now.
Persisted(open) == [row EXCEPT !.lockReason = ~open, !.unlockedAt = open]

\* The step ends with the row the last write returned, or the one read.
evaluateStage(j) ==
    LET x == job[j].read
        open == decide(x)
        overdue == Overdue(x, job[j].at)
    IN  /\ job[j].step = "evaluate"
        /\ \E persist \in ShouldPersist(x, open) :
             LET writes == x.status = "LOCKED" /\ persist
             IN  /\ row' = IF overdue THEN [row EXCEPT !.status = "EXPIRED", !.lockReason = TRUE]
                           ELSE IF writes THEN Persisted(open) ELSE row
                 /\ IF job[j].op = "start"
                    THEN job' = [job EXCEPT ![j].step = "enter", ![j].open = open, ![j].at = 0,
                                   ![j].read = IF overdue \/ writes THEN row' ELSE x]
                    ELSE Finish(j)
        /\ UNCHANGED <<now, condition, submission, promised>>

-----------------------------------------------------------------------------
(* startStage, after its first getStages.                                  *)

\* Mutated form of MayEnter: only the status is looked at.
MayEnter_AnyGate(j) == job[j].read.status = "LOCKED"

MayEnter(j) == job[j].read.status = "LOCKED" /\ job[j].open

startRefused(j) ==
    /\ job[j].step = "enter"
    /\ ~MayEnter(j)
    /\ Finish(j)
    /\ UNCHANGED <<now, condition, row, submission, promised>>

EffectiveExpiry ==
    IF timeLimit = None THEN None
    ELSE IF closesAt # None /\ closesAt < now + timeLimit THEN closesAt
    ELSE now + timeLimit

startStage(j) ==
    /\ job[j].step = "enter"
    /\ MayEnter(j)
    /\ row' = [row EXCEPT !.status = "IN_PROGRESS", !.startedAt = now,
                          !.expiresAt = EffectiveExpiry,
                          !.unlockedAt = TRUE, !.lockReason = FALSE]
    /\ Goto(j, "begin", "look")           \* the refreshing getStages
    /\ UNCHANGED <<now, condition, submission, promised>>

-----------------------------------------------------------------------------
(* submitSolution for the stage.                                           *)

assertStageSubmittable(j) ==
    /\ CanBegin(j, "submit")
    /\ row.status = "IN_PROGRESS"
    /\ Goto(j, IF row.expiresAt # None /\ now - row.expiresAt > CLOCK_SKEW
               THEN "tooLate" ELSE "handIn", "submit")
    /\ UNCHANGED <<now, condition, row, submission, promised>>

closeTooLate(j) ==
    /\ job[j].step = "tooLate"
    /\ row' = [row EXCEPT !.status = "EXPIRED", !.lockReason = TRUE]
    /\ Finish(j)
    /\ UNCHANGED <<now, condition, submission, promised>>

\* Mutated form of handIn: no unique index stops a second submission row.
handIn_NoUnique(j) ==
    /\ job[j].step = "handIn"
    /\ submission' = "UNDER_REVIEW"
    /\ row' = [row EXCEPT !.status = "SUBMITTED", !.score = None, !.expiresAt = None]
    /\ Finish(j)
    /\ UNCHANGED <<now, condition, promised>>

\* The transaction: closeStage, then submission.create.  A second submission
\* of the attempt violates the unique index and rolls closeStage back.
handIn(j) ==
    /\ job[j].step = "handIn"
    /\ IF submission = "NONE"
       THEN /\ submission' = "UNDER_REVIEW"
            /\ row' = [row EXCEPT !.status = "SUBMITTED", !.score = None,
                                  !.expiresAt = None]
       ELSE UNCHANGED <<submission, row>>
    /\ Finish(j)
    /\ UNCHANGED <<now, condition, promised>>

-----------------------------------------------------------------------------
(* Grading: the submission first, the attempt after the transaction.       *)

gradeSubmission(j) ==
    /\ CanBegin(j, "grade")
    /\ submission = "UNDER_REVIEW"
    /\ submission' = "EVALUATED"
    /\ Goto(j, "settle", "grade")
    /\ UNCHANGED <<now, condition, row, promised>>

settleStageScore(j, score) ==
    /\ job[j].step = "settle"
    /\ row' = [row EXCEPT !.status = "SUBMITTED", !.score = score]
    /\ Goto(j, "begin", "look")           \* notifyUnlocked
    /\ UNCHANGED <<now, condition, submission, promised>>

-----------------------------------------------------------------------------
(* The owner's approval, and the minute cron.                              *)

readForApproval(j) ==
    /\ CanBegin(j, "approve")
    /\ ~row.approvedAt
    /\ Goto(j, "approve", "approve")
    /\ UNCHANGED <<now, condition, row, submission, promised>>

approveStage(j) ==
    /\ job[j].step = "approve"
    /\ row' = [row EXCEPT !.approvedAt = TRUE, !.lockReason = FALSE, !.unlockedAt = TRUE]
    /\ promised' = TRUE
    /\ Finish(j)
    /\ UNCHANGED <<now, condition, submission>>

findOverdue(j) ==
    /\ CanBegin(j, "expire")
    /\ row.status = "IN_PROGRESS" /\ row.expiresAt # None /\ row.expiresAt < now
    /\ Goto(j, "sweep", "expire")
    /\ UNCHANGED <<now, condition, row, submission, promised>>

\* Mutated form of expireOverdueStages: the cron dies before its updateMany.
expireOverdueStages_Dies(j) ==
    /\ job[j].step = "sweep"
    /\ Finish(j)
    /\ UNCHANGED <<now, condition, row, submission, promised>>

\* updateMany by the ids found, whatever has become of those rows.
expireOverdueStages(j) ==
    /\ job[j].step = "sweep"
    /\ row' = [row EXCEPT !.status = "EXPIRED", !.lockReason = TRUE]
    /\ Finish(j)
    /\ UNCHANGED <<now, condition, submission, promised>>

-----------------------------------------------------------------------------
Handler(j) ==
    \/ readStage(j) \/ evaluateStage(j) \/ startRefused(j) \/ startStage(j)
    \/ assertStageSubmittable(j) \/ closeTooLate(j) \/ handIn(j)
    \/ gradeSubmission(j) \/ \E score \in Scores : settleStageScore(j, score)
    \/ readForApproval(j) \/ approveStage(j)
    \/ findOverdue(j) \/ expireOverdueStages(j)

Next == Tick \/ conditionChanges \/ \E j \in Jobs : Handler(j)

Spec == Init /\ [][Next]_vars

\* Time passes, handlers under way get their answers, and the cron comes round;
\* no candidate or owner is obliged to begin anything.
Fairness ==
    /\ WF_vars(Tick)
    /\ \A j \in Jobs :
        /\ WF_vars(job[j].step # "idle" /\ Handler(j))
        /\ WF_vars(findOverdue(j))

FairSpec == Spec /\ Fairness

-----------------------------------------------------------------------------
TypeOK ==
    /\ now \in Nat
    /\ condition \in {"pass", "wait", "outside"}
    /\ row \in Row
    /\ submission \in {"NONE", "UNDER_REVIEW", "EVALUATED"}
    /\ job \in [Jobs -> JobState]
    /\ promised \in BOOLEAN

\* However reads and writes interleave, a locked row that stores a reason is
\* never unlocked at the same time: every writer sets both columns together.
ReasonMeansShut ==
    row.status = "LOCKED" /\ row.lockReason => ~row.unlockedAt

\* Nobody has ever started the stage unless its gate had passed or its owner
\* had approved by then, however stale the row the start was decided on.
EntryWasPromised ==
    row.startedAt # None \/ row.unlockedAt => promised

\* A grade once stored is never wiped: a second hand-in whose check passed
\* before the first one committed is rolled back as a whole.
ScoreNeverLost == [][row.score # None => row'.score # None]_vars

\* A stage whose time is over is closed sooner or later by the minute cron,
\* whatever stale writes come between - unless one of them, a
\* second start, has moved the deadline beyond the bounded clock.
OverdueIsClosed ==
    (/\ row.status = "IN_PROGRESS"
     /\ row.expiresAt # None /\ row.expiresAt < MaxNow)
    ~> (row.status # "IN_PROGRESS" \/ row.expiresAt >= MaxNow)
=============================================================================
