------------------------------ MODULE StageGate ------------------------------
(***************************************************************************)
(* The staged examination of one published challenge: every handler of     *)
(* StageGateService and StagesCronService, and the calls of the submission *)
(* service that end in them, as one atomic action each.  What happens when *)
(* the awaits inside a handler interleave is the subject of StageAttempt.  *)
(***************************************************************************)
EXTENDS StageGateRules

CONSTANTS
    Candidates,     \* the enrollments of the challenge
    MaxNow,         \* bound on the clock
    CLOCK_SKEW,     \* CLOCK_SKEW_MS
    BATCH_SIZE,     \* rows a cron takes in one round
    Scores,         \* scores that graders and objective questions give
    GateChoices,    \* gates the owner may save for a stage while published
    InitialGates,   \* gate configurations the challenge is published with
    AiEnabled       \* shouldRunAi: are new submissions queued for the AI?

ASSUME CandidatesAssumption == IsFiniteSet(Candidates)
ASSUME BoundsAssumption == MaxNow \in Nat /\ CLOCK_SKEW \in Nat
ASSUME BatchAssumption == BATCH_SIZE \in Nat \ {0}
ASSUME ScoresAssumption == Scores \subseteq 0 .. 100
ASSUME GateChoicesAssumption == GateChoices \subseteq Gate
ASSUME InitialGatesAssumption ==
    \A gs \in InitialGates : gs \in [Stages -> Gate] /\ assertStageGatesConsistent(gs)
ASSUME AiAssumption == AiEnabled \in BOOLEAN

VARIABLES
    now,        \* the server's clock
    gate,       \* gate[s]: the gate columns of section s
    rows,       \* the enrollments whose StageAttempt rows exist
    att,        \* att[c][s]: the StageAttempt of enrollment c in section s
    review,     \* review[c][s]: where the stage's submission is in grading
    told,       \* told[c][s]: the news the candidate was sent about the stage
    round       \* enrollments that the hourly cron has found and not yet evaluated

vars == <<now, gate, rows, att, review, told, round>>

ReviewState == {"NONE", "PENDING_AI", "UNDER_REVIEW", "EVALUATED"}
News == {"opened", "approved", "quotaIn", "quotaOut", "expired"}

Init ==
    /\ now = 0
    /\ gate \in InitialGates
    /\ rows = {}
    /\ att = [c \in Candidates |-> [s \in Stages |-> NewAttempt]]
    /\ review = [c \in Candidates |-> [s \in Stages |-> "NONE"]]
    /\ told = [c \in Candidates |-> [s \in Stages |-> {}]]
    /\ round = {}

Tell(c, S, news) ==
    told' = [told EXCEPT ![c] = [s \in Stages |->
                IF s \in S THEN told[c][s] \cup {news} ELSE told[c][s]]]

Tick ==
    /\ now < MaxNow
    /\ now' = now + 1
    /\ UNCHANGED <<gate, rows, att, review, told, round>>

-----------------------------------------------------------------------------
(* The candidate.                                                          *)

\* ensureAttempts, then evaluate.
getStages(c) ==
    /\ rows' = rows \cup {c}
    /\ att' = [att EXCEPT ![c] = evaluate(gate, att[c], now)]
    /\ UNCHANGED <<now, gate, review, told, round>>

\* The stage's own deadline: timeLimit from now, but never past closesAt.
EffectiveExpiry(g) ==
    IF g.timeLimit = None THEN None
    ELSE IF g.closesAt # None /\ g.closesAt < now + g.timeLimit
         THEN g.closesAt
         ELSE now + g.timeLimit

\* Mutated form of Startable: whatever is open can be started (again).
Startable_Again(e, s) == ViewUnlocked(gate, e, s, now)

Startable(e, s) == e[s].status = "LOCKED" /\ ViewUnlocked(gate, e, s, now)

startStage(c, s) ==
    LET e == evaluate(gate, att[c], now)
        started == [e EXCEPT ![s].status = "IN_PROGRESS",
                             ![s].expiresAt = EffectiveExpiry(gate[s]),
                             ![s].unlockedAt = TRUE,
                             ![s].lockReason = FALSE]
    IN  /\ Startable(e, s)
        /\ rows' = rows \cup {c}
        /\ att' = [att EXCEPT ![c] = evaluate(gate, started, now)]
        /\ UNCHANGED <<now, gate, review, told, round>>

TooLate(x) == x.expiresAt # None /\ now - x.expiresAt > CLOCK_SKEW

\* What scoreObjectiveResponses can say of a stage's answers.
ObjectiveScores(s) == IF Kind[s] = "objective" THEN Scores ELSE {None}

\* submitSolution for one stage: assertStageSubmittable, closeStage and the
\* submission row.
submitStage(c, s, score) ==
    /\ c \in rows
    /\ att[c][s].status = "IN_PROGRESS"
    /\ ~TooLate(att[c][s])
    /\ att' = [att EXCEPT
                 ![c][s].status = IF Kind[s] = "subjective"
                                  THEN "AWAITING_GRADE" ELSE "SUBMITTED",
                 ![c][s].submittedAt = now,
                 ![c][s].score = score,
                 ![c][s].expiresAt = None]
    /\ review' = [review EXCEPT ![c][s] =
                    IF AiEnabled THEN "PENDING_AI" ELSE "UNDER_REVIEW"]
    /\ UNCHANGED <<now, gate, rows, told, round>>

\* assertStageSubmittable refuses, and closes the stage while doing so.
submitTooLate(c, s) ==
    /\ c \in rows
    /\ att[c][s].status = "IN_PROGRESS"
    /\ TooLate(att[c][s])
    /\ att' = [att EXCEPT ![c][s].status = "EXPIRED", ![c][s].lockReason = TRUE]
    /\ UNCHANGED <<now, gate, rows, review, told, round>>

-----------------------------------------------------------------------------
(* Grading.                                                                *)

\* Mutated form of settleStageScore: what was shut is noted after evaluating.
settleStageScore_LateNote(c, s, score) ==
    LET e == evaluate(gate, [att[c] EXCEPT ![s].score = score,
                                           ![s].status = "SUBMITTED"], now)
        before == {q \in Stages : ~e[q].unlockedAt}
    IN  /\ att' = [att EXCEPT ![c] = e]
        /\ Tell(c, {q \in before : ViewUnlocked(gate, e, q, now)}, "opened")

\* settleStageScore, with the notifyUnlocked it ends in.
settleStageScore(c, s, score) ==
    LET settled == [att[c] EXCEPT ![s].score = score, ![s].status = "SUBMITTED"]
        before  == {q \in Stages : ~settled[q].unlockedAt}
        e       == evaluate(gate, settled, now)
    IN  /\ att' = [att EXCEPT ![c] = IF before = {} THEN settled ELSE e]
        /\ Tell(c, {q \in before : ViewUnlocked(gate, e, q, now)}, "opened")

\* handleAiEvaluations: a score, still subject to review ...
aiEvaluates(c, s, score) ==
    /\ review[c][s] = "PENDING_AI"
    /\ review' = [review EXCEPT ![c][s] = "UNDER_REVIEW"]
    /\ settleStageScore(c, s, score)
    /\ UNCHANGED <<now, gate, rows, round>>

\* ... or markAsManualReview when nothing can be evaluated or the AI fails.
markAsManualReview(c, s) ==
    /\ review[c][s] = "PENDING_AI"
    /\ review' = [review EXCEPT ![c][s] = "UNDER_REVIEW"]
    /\ UNCHANGED <<now, gate, rows, att, told, round>>

\* gradeSubmission and the auto-pass of runPunishmentCron: the last word.
gradeSubmission(c, s, score) ==
    /\ review[c][s] \in {"PENDING_AI", "UNDER_REVIEW"}
    /\ review' = [review EXCEPT ![c][s] = "EVALUATED"]
    /\ settleStageScore(c, s, score)
    /\ UNCHANGED <<now, gate, rows, round>>

-----------------------------------------------------------------------------
(* The owner of the challenge.                                             *)

approveStage(c, s) ==
    /\ c \in rows
    /\ ~att[c][s].approvedAt
    /\ att' = [att EXCEPT ![c][s].approvedAt = TRUE,
                          ![c][s].lockReason = FALSE,
                          ![c][s].unlockedAt = TRUE]
    /\ Tell(c, {s}, "approved")
    /\ UNCHANGED <<now, gate, rows, review, round>>

updateStageGate(s, g) ==
    /\ g # gate[s]
    /\ assertStageGatesConsistent([gate EXCEPT ![s] = g])
    /\ gate' = [gate EXCEPT ![s] = g]
    /\ UNCHANGED <<now, rows, att, review, told, round>>

-----------------------------------------------------------------------------
(* The crons.                                                              *)

\* findMany with take and without orderBy: any BATCH_SIZE of the rows in S.
Batches(S) ==
    {B \in SUBSET S : Cardinality(B) = IF Cardinality(S) <= BATCH_SIZE
                                       THEN Cardinality(S) ELSE BATCH_SIZE}

ExpiredAttempts ==
    {p \in rows \X Stages :
        LET x == att[p[1]][p[2]]
        IN  x.status = "IN_PROGRESS" /\ x.expiresAt # None /\ x.expiresAt < now}

\* Those in B are closed and their candidates told.
closeExpired(B) ==
    /\ att' = [c \in Candidates |-> [s \in Stages |->
                 IF <<c, s>> \in B
                 THEN [att[c][s] EXCEPT !.status = "EXPIRED", !.lockReason = TRUE]
                 ELSE att[c][s]]]
    /\ told' = [c \in Candidates |-> [s \in Stages |->
                 IF <<c, s>> \in B
                 THEN told[c][s] \cup {"expired"} ELSE told[c][s]]]

expireOverdueStages ==
    /\ ExpiredAttempts # {}
    /\ \E B \in Batches(ExpiredAttempts) : closeExpired(B)
    /\ UNCHANGED <<now, gate, rows, review, round>>

\* Mutated form of WaitingOnGrading: only quota stages are looked for.
WaitingOnGrading_QuotaOnly ==
    {p \in rows \X Stages :
        /\ att[p[1]][p[2]].status = "LOCKED" /\ ~att[p[1]][p[2]].unlockedAt
        /\ gate[p[2]].pendingPolicy = "AUTO_ADVANCE_AFTER"
        /\ gate[p[2]].gateMode = "TOP_N"}

\* Locked attempts behind a gate that opens by itself: also those whose
\* candidate has handed in nothing, which stay in here.
WaitingOnGrading ==
    {p \in rows \X Stages :
        /\ att[p[1]][p[2]].status = "LOCKED" /\ ~att[p[1]][p[2]].unlockedAt
        /\ gate[p[2]].pendingPolicy = "AUTO_ADVANCE_AFTER"
        /\ ReadsScore(gate[p[2]])}

findWaitingOnGrading ==
    /\ round = {}
    /\ WaitingOnGrading # {}
    /\ \E B \in Batches(WaitingOnGrading) : round' = {p[1] : p \in B}
    /\ UNCHANGED <<now, gate, rows, att, review, told>>

\* The loop over what was found only forces an evaluation (getStages).
evaluateFound(c) ==
    /\ c \in round
    /\ round' = round \ {c}
    /\ att' = [att EXCEPT ![c] = evaluate(gate, att[c], now)]
    /\ UNCHANGED <<now, gate, rows, review, told>>

releaseStagesWaitingOnGrading ==
    findWaitingOnGrading \/ \E c \in Candidates : evaluateFound(c)

RankScore(s, c) == WeightedSum(StageScores(att[c]), resolveSourceSections(gate, s))

Ranked(s) ==
    {c \in rows : HasAggregate(StageScores(att[c]), resolveSourceSections(gate, s))}

\* Mutated form of TopRanked: the ranking sorts from the bottom.
TopRanked_Ascending(s, W) ==
    /\ W \subseteq Ranked(s)
    /\ Cardinality(W) = IF Cardinality(Ranked(s)) <= gate[s].maxAdvancing
                        THEN Cardinality(Ranked(s)) ELSE gate[s].maxAdvancing
    /\ \A w \in W, l \in Ranked(s) \ W : RankScore(s, w) <= RankScore(s, l)

\* ranked.slice(0, maxAdvancing) of a sort by score: ties fall either way.
TopRanked(s, W) ==
    /\ W \subseteq Ranked(s)
    /\ Cardinality(W) = IF Cardinality(Ranked(s)) <= gate[s].maxAdvancing
                        THEN Cardinality(Ranked(s)) ELSE gate[s].maxAdvancing
    /\ \A w \in W, l \in Ranked(s) \ W : RankScore(s, w) >= RankScore(s, l)

\* Only attempts never decided are decided; the others keep their verdict.
Undecided(s) ==
    {c \in Ranked(s) : att[c][s].status = "LOCKED" /\ ~att[c][s].unlockedAt}

\* The loop over the ranking: W are the winners.
giveVerdicts(s, W) ==
    /\ att' = [c \in Candidates |->
         IF c \in Undecided(s) \cap W
         THEN [att[c] EXCEPT ![s].unlockedAt = TRUE, ![s].lockReason = FALSE]
         ELSE IF c \in Undecided(s)
         THEN [att[c] EXCEPT ![s].status = "FAILED", ![s].lockReason = TRUE]
         ELSE att[c]]
    /\ told' = [c \in Candidates |->
         IF c \in Undecided(s)
         THEN [told[c] EXCEPT ![s] = @ \cup {IF c \in W THEN "quotaIn" ELSE "quotaOut"}]
         ELSE told[c]]

\* applyStageQuotas calling applyQuota for one stage past its closing time.
applyQuota(s) ==
    /\ gate[s].gateMode = "TOP_N"
    /\ gate[s].closesAt # None /\ gate[s].closesAt < now
    /\ gate[s].maxAdvancing # None
    /\ resolveSourceSections(gate, s) # {}
    /\ Undecided(s) # {}
    /\ \E W \in SUBSET Ranked(s) : TopRanked(s, W) /\ giveVerdicts(s, W)
    /\ UNCHANGED <<now, gate, rows, review, round>>

-----------------------------------------------------------------------------
Next ==
    \/ Tick
    \/ \E c \in Candidates : getStages(c)
    \/ \E c \in Candidates, s \in Stages :
         \/ startStage(c, s)
         \/ \E score \in ObjectiveScores(s) : submitStage(c, s, score)
         \/ submitTooLate(c, s)
         \/ \E score \in Scores : aiEvaluates(c, s, score)
         \/ markAsManualReview(c, s)
         \/ \E score \in Scores : gradeSubmission(c, s, score)
         \/ approveStage(c, s)
    \/ \E s \in Stages, g \in GateChoices : updateStageGate(s, g)
    \/ expireOverdueStages \/ releaseStagesWaitingOnGrading
    \/ \E s \in Stages : applyQuota(s)

Spec == Init /\ [][Next]_vars

\* The clock advances and the schedulers run; candidates and owners need not.
\* The hourly cron comes round; who is in its batch is nobody's promise.
Fairness ==
    /\ WF_vars(Tick)
    /\ WF_vars(expireOverdueStages)
    /\ WF_vars(releaseStagesWaitingOnGrading)

FairSpec == Spec /\ Fairness

-----------------------------------------------------------------------------
(* Invariants.                                                             *)

\* Every variable has its type, and the stored gates are publishable.
TypeOK ==
    /\ now \in Nat
    /\ gate \in [Stages -> Gate]
    /\ rows \subseteq Candidates
    /\ att \in [Candidates -> [Stages -> Attempt]]
    /\ review \in [Candidates -> [Stages -> ReviewState]]
    /\ told \in [Candidates -> [Stages -> SUBSET News]]
    /\ round \subseteq rows

\* A locked attempt that stores a reason for being locked is not unlocked at
\* the same time: evaluate may skip the write when the reason is the stored
\* one only because of this.
ReasonMeansShut ==
    \A c \in Candidates, s \in Stages :
        att[c][s].status = "LOCKED" /\ att[c][s].lockReason => ~att[c][s].unlockedAt

\* The attempt row and the submission tell the same story: a submission exists
\* exactly for the attempts handed in, nobody is at work on or past a stage
\* that was never unlocked for them, the clock of closeStage stays stopped, and
\* only an attempt still waiting for its reviewer is without a score.
HandedInConsistent ==
    \A c \in Candidates, s \in Stages :
        LET x == att[c][s] IN
        /\ review[c][s] # "NONE" <=> x.status \in {"SUBMITTED", "AWAITING_GRADE"}
        /\ x.status \notin {"LOCKED", "FAILED"} => x.unlockedAt
        /\ x.expiresAt # None => x.status \in {"IN_PROGRESS", "EXPIRED"}
        /\ x.submittedAt # None <=> review[c][s] # "NONE"
        /\ x.status = "AWAITING_GRADE" => review[c][s] # "EVALUATED"
        /\ review[c][s] = "EVALUATED" => x.score # None

\* Reading the page twice in a row shows and stores the same thing: a decision
\* never feeds back into the next one (the comment on getStages).
ReadingIsStable ==
    \A c \in Candidates :
        LET e == evaluate(gate, att[c], now) IN evaluate(gate, e, now) = e

\* Expiring first and deciding each stage on its own, as evaluate is modelled,
\* gives the rows the code's walk gives, in every reachable state.
WalkAgrees ==
    \A c \in Candidates : evaluate(gate, att[c], now) = Walk(gate, att[c], now)

-----------------------------------------------------------------------------
(* Action properties.                                                      *)

Unlocks(c, s) == ~att[c][s].unlockedAt /\ att'[c][s].unlockedAt

\* What the gate promises, said without decide: who may be let into stage s,
\* by the rows a of one candidate.
Entitled(a, s) ==
    LET g == gate[s]
        src == resolveSourceSections(gate, s)
        scores == StageScores(a)
        Scored(q) == scores[q] # None
    IN  \/ g.gateMode = "OPEN"
        \/ /\ a[s].approvedAt
           /\ \/ g.gateMode = "MANUAL_APPROVAL"
              \/ ReadsScore(g) /\ g.pendingPolicy = "MANUAL_ONLY"
        \/ /\ g.gateMode = "MIN_SCORE"
           /\ \A q \in src : Scored(q)
           /\ SumFunction([q \in src |-> Weight[q] * (scores[q] - g.minScore)]) >= 0
        \/ /\ ReadsScore(g) /\ g.pendingPolicy = "AUTO_ADVANCE_AFTER"
           /\ \E q \in src : ~Scored(q)
           /\ \E q \in src : a[q].submittedAt # None
           /\ \A q \in src : a[q].submittedAt # None =>
                  now - a[q].submittedAt >= g.graceDays
        \/ g.gateMode = "TOP_N" /\ now > g.closesAt

IsApproved(c, s) == ~att[c][s].approvedAt /\ att'[c][s].approvedAt
Starts(c) ==
    \E q \in Stages : att[c][q].status = "LOCKED"
                      /\ att'[c][q].status \in {"IN_PROGRESS", "EXPIRED"}

\* Nobody is let into a stage whose condition they do not meet at that moment,
\* whichever handler unlocks it (decide, applyQuota, approveStage, startStage).
\* startStage decides twice, before the start and after it; a stage started at
\* its closing time has expired by the second.
AdmissionJustified ==
    [][\A c \in Candidates, s \in Stages : Unlocks(c, s) =>
         \/ IsApproved(c, s)
         \/ Entitled(att'[c], s)
         \/ Starts(c) /\ Entitled(ExpireOverdue(att[c], now), s)]_vars

\* An unlock once given is withdrawn only while the stage is outside its own
\* window: a lower score, a stricter gate or a later reading never take it back.
UnlockWithdrawnOnlyOutsideWindow ==
    [][\A c \in Candidates, s \in Stages :
         att[c][s].unlockedAt /\ ~att'[c][s].unlockedAt => ~InWindow(gate[s], now)]_vars

\* A stage that opens because a score came in is announced to the candidate in
\* the same handling (notifyUnlocked: no waiting room without a door).
GradeThatOpensTells ==
    [][\A c \in Candidates, s \in Stages :
         review'[c] # review[c] /\ Unlocks(c, s) => "opened" \in told'[c][s]]_vars

\* When applyQuota turns a candidate away, at least maxAdvancing others rank
\* no lower, and whoever it lets in ranks no lower than whoever it turns away.
QuotaRankRespected ==
    [][\A l \in Candidates, s \in Stages :
         att[l][s].status # "FAILED" /\ att'[l][s].status = "FAILED" =>
           /\ Cardinality({w \in Ranked(s) \ {l} : RankScore(s, w) >= RankScore(s, l)})
                >= gate[s].maxAdvancing
           /\ \A w \in Candidates : Unlocks(w, s) => RankScore(s, w) >= RankScore(s, l)]_vars

-----------------------------------------------------------------------------
(* Refinement: each attempt follows the life StageLifecycle promises.      *)

Phase(x, r) ==
    CASE x.status = "LOCKED"      -> "waiting"
      [] x.status = "IN_PROGRESS" -> "working"
      [] x.status = "EXPIRED"     -> "missed"
      [] x.status = "FAILED"      -> "rejected"
      [] OTHER -> IF r = "EVALUATED" THEN "graded" ELSE "handedIn"

Lifecycle == INSTANCE StageLifecycle WITH
    Attempts <- Candidates \X Stages,
    phase <- [p \in Candidates \X Stages |-> Phase(att[p[1]][p[2]], review[p[1]][p[2]])]

\* Every attempt only ever moves forward through its life: what was handed in
\* is never reopened, expired or rejected, what expired is never revived.
FollowsLifecycle == Lifecycle!Spec

-----------------------------------------------------------------------------
(* Liveness under Fairness.                                                *)

\* c has handed in, is due to be let into s without a score, and is not in.
WaitsForGraders(c, s) ==
    LET src  == resolveSourceSections(gate, s)
        sent == {att[c][q].submittedAt : q \in src} \ {None}
    IN  /\ c \in rows
        /\ gate[s].gateMode = "MIN_SCORE"
        /\ gate[s].pendingPolicy = "AUTO_ADVANCE_AFTER"
        /\ sent # {} /\ \A d \in sent : d + gate[s].graceDays <= MaxNow
        /\ ~att[c][s].unlockedAt
        /\ ~HasAggregate(StageScores(att[c]), src)
        /\ InWindow(gate[s], now)

\* A round cannot take all: rows of candidates who never hand in fill it.
Crowded == Cardinality(WaitingOnGrading) > BATCH_SIZE

\* Under AUTO_ADVANCE_AFTER nobody waits for a grader for ever, unless more rows
\* wait than a round takes, again and again: the score comes, or the stage opens
\* by itself, or its window is over (releaseStagesWaitingOnGrading).
NobodyWaitsForever ==
    <>[]~Crowded =>
        []<>(\A c \in Candidates, s \in Stages : ~WaitsForGraders(c, s))
=============================================================================
