--------------------------- MODULE StageGateRules ---------------------------
(***************************************************************************)
(* The pure part of StageGateService: what a stage's gate is, which gate   *)
(* configurations the publisher accepts, and how one candidate's attempts  *)
(* are (re)evaluated at one instant.  Nothing here changes state.          *)
(*                                                                         *)
(* Data that no property tells apart is abstracted: a nullable timestamp   *)
(* that is only ever tested for null (unlockedAt, approvedAt) is a Boolean,*)
(* lockReason is the Boolean "a reason is stored", minutes and days are    *)
(* ticks of one clock, and a stage's questions are its Kind and Weight.    *)
(***************************************************************************)
EXTENDS Integers, FiniteSets, Functions

CONSTANTS
    NumStages,      \* sections of the challenge, identified by their order
    Weight,         \* stageWeight of each stage: its points, at least 1
    Kind,           \* "objective", "subjective" or "psychometric" questions
    None,           \* SQL null
    startsAt,       \* the challenge's own window, None when absent
    deadlineAt

Stages == 1 .. NumStages
Instant == Nat \cup {None}

ASSUME StagesAssumption == NumStages \in Nat \ {0}
ASSUME NoneAssumption == None \notin Nat
ASSUME WeightAssumption == Weight \in [Stages -> Nat \ {0}]
ASSUME KindAssumption ==
    Kind \in [Stages -> {"objective", "subjective", "psychometric"}]
ASSUME WindowAssumption == startsAt \in Instant /\ deadlineAt \in Instant

Gate ==
    [gateMode      : {"OPEN", "MIN_SCORE", "TOP_N", "MANUAL_APPROVAL"},
     minScore      : (0 .. 100) \cup {None},
     maxAdvancing  : (Nat \ {0}) \cup {None},
     scoreBasis    : {"PREVIOUS_STAGE", "CUMULATIVE", "SPECIFIC_STAGES"},
     gateSourceIds : SUBSET Stages,
     pendingPolicy : {"WAIT_FOR_SCORE", "AUTO_ADVANCE_AFTER", "MANUAL_ONLY"},
     graceDays     : (Nat \ {0}) \cup {None},
     opensAt       : Instant,
     closesAt      : Instant,
     timeLimit     : (Nat \ {0}) \cup {None}]

TERMINAL_STATUSES == {"SUBMITTED", "AWAITING_GRADE", "PASSED", "FAILED", "EXPIRED"}

Attempt ==
    [status      : {"LOCKED", "IN_PROGRESS"} \cup TERMINAL_STATUSES,
     unlockedAt  : BOOLEAN,
     lockReason  : BOOLEAN,
     approvedAt  : BOOLEAN,
     score       : (0 .. 100) \cup {None},
     expiresAt   : Instant,
     submittedAt : Instant]

\* The row createMany inserts: every column at its default.
NewAttempt ==
    [status |-> "LOCKED", unlockedAt |-> FALSE, lockReason |-> FALSE,
     approvedAt |-> FALSE, score |-> None, expiresAt |-> None,
     submittedAt |-> None]

-----------------------------------------------------------------------------
(* Publication rules.                                                      *)

ReadsScore(g) == g.gateMode \in {"MIN_SCORE", "TOP_N"}

assertStageGatesConsistent(gs) ==
    \A s \in Stages :
        LET g == gs[s] IN
        /\ g.opensAt # None /\ g.closesAt # None => g.closesAt > g.opensAt
        /\ startsAt # None /\ g.opensAt # None => g.opensAt >= startsAt
        /\ deadlineAt # None /\ g.closesAt # None => g.closesAt <= deadlineAt
        /\ s = 1 => g.gateMode = "OPEN"
        /\ g.gateMode = "MIN_SCORE" => g.minScore # None
        /\ g.gateMode = "TOP_N" => g.maxAdvancing # None /\ g.closesAt # None
        /\ g.pendingPolicy = "AUTO_ADVANCE_AFTER" => g.graceDays # None
        /\ ReadsScore(g) =>
            IF g.scoreBasis = "SPECIFIC_STAGES"
            THEN g.gateSourceIds # {} /\ \A q \in g.gateSourceIds : q < s
            ELSE Kind[s - 1] # "psychometric"

-----------------------------------------------------------------------------
(* One candidate's attempts a under the gates gs.                          *)

resolveSourceSections(gs, s) ==
    CASE gs[s].scoreBasis = "SPECIFIC_STAGES" -> gs[s].gateSourceIds
      [] gs[s].scoreBasis = "CUMULATIVE"      -> {q \in Stages : q < s}
      [] OTHER                                -> {q \in Stages : q = s - 1}

\* A stage that expired without an answer counts as zero.
StageScores(a) ==
    [q \in Stages |-> IF a[q].score = None /\ a[q].status = "EXPIRED"
                      THEN 0 ELSE a[q].score]

\* aggregateScore: the mean is a number only when every source has one; it is
\* kept as weighted sum and total weight, so that no fraction is rounded.
HasAggregate(scores, src) == \A q \in src : scores[q] # None
WeightedSum(scores, src) == SumFunction([q \in src |-> Weight[q] * scores[q]])
WeightTotal(src) == SumFunction([q \in src |-> Weight[q]])

\* Mutated form of decidePending: nothing handed in counts as long overdue.
decidePending_NothingSent(gs, a, s, t) ==
    LET sent == {a[q].submittedAt : q \in resolveSourceSections(gs, s)} \ {None}
    IN  \/ gs[s].pendingPolicy = "MANUAL_ONLY" /\ a[s].approvedAt
        \/ /\ gs[s].pendingPolicy = "AUTO_ADVANCE_AFTER"
           /\ \A d \in sent : t >= d + gs[s].graceDays

decidePending(gs, a, s, t) ==
    LET sent == {a[q].submittedAt : q \in resolveSourceSections(gs, s)} \ {None}
        grace == IF gs[s].graceDays = None THEN 0 ELSE gs[s].graceDays
    IN  \/ gs[s].pendingPolicy = "MANUAL_ONLY" /\ a[s].approvedAt
        \/ /\ gs[s].pendingPolicy = "AUTO_ADVANCE_AFTER"
           /\ sent # {}
           /\ \A d \in sent : t >= d + grace

decideByScore(gs, a, s, t) ==
    LET src == resolveSourceSections(gs, s)
        scores == StageScores(a)
        threshold == IF gs[s].minScore = None THEN 0 ELSE gs[s].minScore
    IN  \/ src = {}
        \/ IF HasAggregate(scores, src)
           THEN WeightedSum(scores, src) >= threshold * WeightTotal(src)
           ELSE decidePending(gs, a, s, t)

decideByQuota(gs, a, s, t) ==
    LET src == resolveSourceSections(gs, s)
    IN  \/ gs[s].closesAt = None
        \/ /\ t > gs[s].closesAt
           /\ \/ src = {}
              \/ IF HasAggregate(StageScores(a), src) THEN a[s].unlockedAt
                 ELSE decidePending(gs, a, s, t)

InWindow(g, t) ==
    /\ g.opensAt # None => t >= g.opensAt
    /\ g.closesAt # None => t <= g.closesAt

\* Mutated form of decide: an open stage is weighed again at every reading.
decide_NotSticky(gs, a, s, t) ==
    /\ InWindow(gs[s], t)
    /\ \/ gs[s].gateMode = "OPEN"
       \/ gs[s].gateMode = "MANUAL_APPROVAL" /\ a[s].approvedAt
       \/ gs[s].gateMode = "MIN_SCORE" /\ decideByScore(gs, a, s, t)
       \/ gs[s].gateMode = "TOP_N" /\ decideByQuota(gs, a, s, t)

decide(gs, a, s, t) ==
    /\ InWindow(gs[s], t)
    /\ \/ a[s].unlockedAt                   \* "sekali terbuka, tetap terbuka"
       \/ gs[s].gateMode = "OPEN"
       \/ gs[s].gateMode = "MANUAL_APPROVAL" /\ a[s].approvedAt
       \/ gs[s].gateMode = "MIN_SCORE" /\ decideByScore(gs, a, s, t)
       \/ gs[s].gateMode = "TOP_N" /\ decideByQuota(gs, a, s, t)

Overdue(x, t) ==
    x.status = "IN_PROGRESS" /\ x.expiresAt # None /\ x.expiresAt <= t

ExpireOverdue(a, t) ==
    [s \in Stages |-> IF Overdue(a[s], t)
                      THEN [a[s] EXCEPT !.status = "EXPIRED", !.lockReason = TRUE]
                      ELSE a[s]]

PersistDecision(x, open) ==
    IF x.status # "LOCKED" THEN x
    ELSE IF open
         THEN [x EXCEPT !.lockReason = FALSE, !.unlockedAt = TRUE]
         ELSE IF x.lockReason THEN x    \* same reason stored already
              ELSE [x EXCEPT !.lockReason = TRUE, !.unlockedAt = FALSE]

\* The code walks the stages in order.  A gate reads only earlier stages
\* (assertStageGatesConsistent), and of those only columns the walk changes by
\* expiring them, so expiring all stages first and then deciding each on its
\* own gives the same rows as Walk below (WalkAgrees in StageGate).

\* Mutated form of evaluate: decisions are taken before overdue stages expire.
evaluate_ExpiresLast(gs, a, t) ==
    ExpireOverdue([s \in Stages |-> PersistDecision(a[s], decide(gs, a, s, t))], t)

evaluate(gs, a, t) ==
    LET e == ExpireOverdue(a, t)
    IN  [s \in Stages |-> PersistDecision(e[s], decide(gs, e, s, t))]

\* StageGateService.evaluate as written: one stage after the other, the gate of
\* each reading the rows the earlier iterations have just written.
Walk(gs, a, t) ==
    LET step[i \in 0 .. NumStages] ==
          IF i = 0 THEN a
          ELSE LET b == step[i - 1]
                   x == IF Overdue(b[i], t)
                        THEN [b[i] EXCEPT !.status = "EXPIRED", !.lockReason = TRUE]
                        ELSE b[i]
                   e == [b EXCEPT ![i] = x]
               IN  [e EXCEPT ![i] = PersistDecision(x, decide(gs, e, i, t))]
    IN  step[NumStages]

\* toView: what the candidate is shown as "unlocked" after evaluate.
ViewUnlocked(gs, a, s, t) == a[s].status = "IN_PROGRESS" \/ decide(gs, a, s, t)
=============================================================================
