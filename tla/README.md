# Tolongin backend: a TLA+ verification project

The repository (`src/`) is the NestJS/Prisma backend of Tolongin, a platform on which
companies publish case studies ("challenges") that candidates ("talents") work through,
stage by stage, and are graded, rewarded and hired on. This directory holds TLA+ modules
that model its core, TLC configurations that check them on small instances, and theorems
about them that TLAPS checks for every instance.

`PROJECT.json` lists components, runs, mutants, hazards, theorems, and for every definition
the lines of code it stands for.

## 1. Inventory

The server is one Node process (`ecosystem.config.js`: `instances: 1`, `autorestart: true`)
over one PostgreSQL database. Handlers run to their next `await` without interruption, so
interleavings happen at awaits; rows are shared by all handlers and by the crons, which run
in the same process. `$transaction` makes a group of writes atomic, at read-committed
isolation: it does not protect what was read before it.

| Component | State | Operations | Interacts with | What is hard | What makes it correct |
|---|---|---|---|---|---|
| Staged examination (`stages/`) | `ChallengeSection` gate columns, `StageAttempt` rows | `getStages`, `startStage`, `assertStageSubmittable`, `closeStage`, `settleStageScore`, `approveStage`, `applyQuota`, three crons | submissions (calls it to close and score), challenges (gate edits), notifications | re-evaluation at every read, edits under way, stale writes, quota rounds | nobody is let in unjustified, nothing given is taken back, attempts only move forward, nobody waits for ever |
| Gate publication rules (`challenges.service`) | the same gate columns | `assertStageGatesConsistent`, `updateStageGate` | stages | the rules must make evaluation in stage order meaningful | a gate reads only earlier stages and has what its mode needs |
| Submissions and grading (`submissions/`) | `Submission`, `ChallengeEnrollment`, XP, trust | `enroll`, `saveDraft`, `submitSolution`, `gradeSubmission`, `runPunishmentCron`, AI queue, reminders, `updateHiringStatus` | stages, tokens, badges, AI, portfolio | AI, graders and crons overlap; work after a transaction; restarts | one verdict, one reward, one penalty, an answer for everybody |
| Payments, subscriptions (`payments/`, `subscriptions/`) | `PaymentTransaction`, subscription columns | create, webhook, expire, credit | tokens, Midtrans | webhooks repeated, reordered, concurrent; crash between status and credit | paid once, credited once, no period lost |
| Token ledger (`tokens/`) | `tokenBalance`, `TokenTransaction` | earn, spend, refund | payments, submissions, challenges | check then decrement | balance equals ledger, never negative |
| Python worker pool (`ai/python-worker`) | workers, queue, the pending call of each | call, dispatch, answer, timeout, exit, restart | verification, AI | late answers, dying workers, give-up after `MAX_RESTARTS` | every call is settled once, by its own answer |
| AI service (`ai/ai.service`) | none | calls of external models | challenges, submissions | failure, delay | its callers cope with both |
| Identity verification (`verification/`) | identity columns, face embeddings | submit, background check, admin review | worker pool, admin | check-then-store, review racing the check | one identity, one account |
| Challenge lifecycle (`challenges/`) | `Challenge` rows and drafts | create, publish, edit, archive, takedown, AI generation in the background | tokens, question bank, admin | the background job finishing after an edit; plan quota; refund | quota kept, refunded exactly when failed |
| Admin moderation (`admin/`) | status columns of other components | takedown, identity review, tickets, bans | challenges, verification, support | decisions on rows read earlier | a decision is on the state it was taken on |
| Accounts, invitations, reset (`users/`, `auth/`) | users, invite codes, reset tokens, the account cache of `JwtAuthGuard` | register, join team, reset, ban | companies, mail, admin | one-time tokens used twice; a cache behind which a ban hides | each token is used once, a ban bites soon |
| Support tickets (`support/`) | tickets, replies | open, reply, close | admin | open-ticket limit, reply after close | limit kept, closed stays closed |
| Skills (`skills/`) | skill rows, a cache | search, create | challenges | check-then-create on a stale cache | one row per name, a copy no older than its TTL |
| Badges, psychometric scoring | badge rows; none | award; score | submissions | awarding inside another transaction; reverse-keyed items | awarded once; scores in range |
| Question bank, companies, portfolios, discussions, announcements | rows | CRUD | each other | nothing concurrent | ownership checks |
| Notifications, storage, mail, health, encryption, guards, seed | rows, files, sockets | I/O | all | delivery | outside these models |

The lines at which this hurts are the `hazards` of `PROJECT.json`.

## 2. Modules

| Module | Role |
|---|---|
| `StageGateRules` | the pure part of `StageGateService`: gates, publication rules, `decide`, `evaluate` for one candidate at one instant, and `Walk`, the loop of `evaluate` as the code writes it |
| `StageGate` | EXTENDS it: every handler and cron of the staged examination as one atomic action; properties |
| `StageLifecycle` | abstract specification: the life of a stage attempt, which only moves forward |
| `MCStageGate` | gate configurations for TLC |
| `StageGateProofs` | theorems about `StageGate` |
| `StageAttempt` | one attempt row, with each `await` a step of its own |
| `MCStageAttempt` | who is at work on the row |
| `StageAttemptProofs` | theorems about `StageAttempt` |
| `Grading` | submissions of one enrollment: hand-in, AI queue, graders, seven-day cron, reminders, restarts |
| `GradingProofs` | theorems about `Grading` |
| `Payments`, `PaymentsProofs` | webhooks of Midtrans, token balance and ledger, subscription of one account; theorems |
| `CallService` | abstract specification: what a pool of workers promises its callers |
| `WorkerPool`, `WorkerPoolProofs` | the pool of Python processes; theorems |
| `Identity`, `MCIdentity`, `IdentityProofs` | background verification of identities, comparison of faces, review by an admin; uploads for TLC; theorems |
| `ChallengeLifecycle`, `MCChallengeLifecycle` | cases from creation to archive, plan quota, AI drafts and refund, takedown; the limits for TLC |
| `Accounts`, `AccountsProofs` | reset links, bans behind the cache of the guard, invite codes, decisions on a company; theorems |
| `SkillRows`, `SkillDirectory`, `MCSkillDirectory` | the rows of the directory of skills, their copy in memory and what is promised of both; the requests that search and insert; names for TLC |
| `CatalogueProofs` | theorems about `ChallengeLifecycle`, which it EXTENDS, and about `SkillDirectory`, of which it takes an instance over the variables of `SkillRows` |

### StageGate

`gate[s]` are the gate columns of section `s`; `att[c][s]` the attempt of candidate `c`;
`rows` says whose attempts exist (`ensureAttempts`); `review[c][s]` is the status of the
stage's submission; `told[c][s]` the kinds of news sent. An action is a whole handler:
`getStages` is `ensureAttempts` and `evaluate`; `startStage` is the read, the checks, the
update and the evaluation that refreshes the answer; `settleStageScore` ends in
`notifyUnlocked`, which evaluates again and tells about what opened.

Abstractions: a timestamp only tested for null (`unlockedAt`, `approvedAt`) is a Boolean, so
is `lockReason` (`evaluate` also writes when only the text of the reason differs, but in a row
with a reason `unlockedAt` is null already, `ReasonMeansShut`, so that write changes nothing
else; not so between awaits, see `StageAttempt`); minutes and days are ticks of one
clock; a stage's questions are its `Kind` and `Weight`. The mean of `aggregateScore` is kept
as weighted sum and total weight, so the comparison with the threshold is exact; the code
rounds nothing either before it compares. `evaluate` here expires overdue stages first and
then decides each stage on its own, while the code walks the stages in order (`Walk`);
`WalkAgrees` says that both give the same rows in every reachable state, and is proved.

`AdmissionJustified` says what a gate promises without using `decide` (`Entitled`). It takes
two sets of rows into account, because `startStage` decides twice: a stage started at its very
closing time is open when the first evaluation reads it and has expired when the second does,
so with three stages the third can be unlocked by rows that hold no longer when the handler
ends. A first version of the property, which looked at the rows after the step alone, passed
every run with two stages; the attempt to prove it found this, and `gate_basis` now has a gate
with which it happens.

The crons read at most `BATCH_SIZE` rows (500), in no order and without a cursor: `Batches` is
any such choice. The minute cron takes what it selects out of its own selection. The hourly
`releaseStagesWaitingOnGrading` does not: it selects locked rows by their gate, those of
candidates who hand in nothing included, and these stay. It is two actions over `round`, the
enrollments found and not yet evaluated, because a round that finds only such rows changes
nothing: as one step it would be a stutter, and weak fairness would then promise another batch
than the code may take.

`FollowsLifecycle` is a refinement: each pair of candidate and stage is an attempt of
`StageLifecycle`, with status and review status mapped to a phase.

### StageAttempt

The same service, seen by one row. `job[j]` is a request or a cron round: the step it is at,
and what it holds across an await (the row it read, when it read it, what it decided). What
the gate reads of other stages and of the window is one environment variable, `condition`.
No write of the service repeats the condition it was decided under, so `evaluateStage`,
`startStage`, `approveStage`, `closeTooLate` and the cron's `updateMany` write over whatever
the row has become; whether `evaluate` writes at all depends on the text it has read (`ShouldPersist`). The
unique index on `Submission.stageAttemptId` (`prisma/schema.prisma`)
is the only guard of the database, and `handIn` has it. `promised` is a history variable.

### Grading

`sub[s]` is a submission of a stage or (in `Wholes`) of the whole case, of a challenge that
belongs to a company (the seven-day cron skips the others). A transaction is one
step, but for the auto-pass; what precedes it (the read it is decided on) and what follows it (`settleStageScore`)
are steps of their own, with the list under way in `ai`, `sla`, `remind` or `grader`. XP,
portfolio entry and badges are given in the same branches of the same transactions and are
one counter `rewards`; tokens are counted apart, in `paid`. `restart` empties everything the process holds in
memory. `weekPasses` is the seven days after which reminders and auto-pass begin. Scores are
left to `StageGate` and `StageAttempt`.

The auto-pass launches `earnTokens`, a transaction of its own that is not awaited, in the middle
of its callback (`submissions.service.ts:134`); portfolio, badges, notifications and commit come
after it. So it is `beginAutoPass`, which launches the payment (`owed`), then `autoPass`, the
commit, or `cancelAutoPass`, the rollback: the payment stays, the exception leaves the loop and
ends the round for those behind it, and an hour later the submission is found and paid for again.
`cancelled` is a history variable that counts this. What an open auto-pass has written is locked:
other writers of the submission wait (`Free`), and so does whoever updates the talent's profile
(`TalentFree`), `earnTokens` itself included. A payment that fails is only logged: it is one
never made.

Assumed: the hourly rounds of the seven-day cron do not overlap, and neither do the daily
reminders (the AI queue is guarded by `isProcessing`, the others by the length of the
interval alone); statements of the database do not fail except where the code says so
(unique index), in an auto-pass, or when the process restarts. `MaxFaults` bounds restarts and
failed auto-passes together: one that failed every hour would keep those behind it in the list
waiting for ever, and no property could promise them an answer.

### Payments

`hook[h]` is a webhook request, at one of the awaits of `handleMidtransWebhook`: row found,
status written, expiry read, credited. `sent[o]` is what Midtrans reports of an order; every
report may be delivered at any time and again. `spender[s]` is a transaction that spends:
`lockTalentAndAssertQuota` takes the profile row (`FOR UPDATE`), `spendTokensWithin` checks,
decrements and writes the ledger, and all commits with the caller's work. `earnTokens`,
`topUp`, the admin's `upgrade` and the hourly `downgradeExpiredSubscriptions` are one step
each. The clock counts months. A credited top-up writes no `TokenTransaction`, so the balance
is the ledger plus the credits. `disturbed` remembers what the code has no guard against:
notifications of one order handled at once, a request cut off after SUCCESS, two changes of
the expiry based on one reading. The properties say that nothing goes wrong but there.

### WorkerPool

One worker is `proc`, `ready`, `pending`, `restarts` and its two pipes. The event handlers of
Node are synchronous, so each is one step: `call`, a line, the timer, `exit`, `error`, the
restart timer, `stop`. `drainQueue` gives the k-th idle worker the k-th queued call, as the
loop over `pickIdleWorker` does. The processes (`face_worker.py`, `ocr_worker.py`) are
external: one answer per line, in order, or a crash, or silence. Ids of messages are not
compared by the code and not modelled.

`FollowsService` is a refinement of `CallService`: the queue is its line, the calls pending at
workers are those it serves, answered and rejected calls are settled. Dispatch takes the first
of the line, as many as there are idle workers; an answer, a timeout or an exit makes a call
leave its worker settled; a worker given up dismisses the whole line. The abstract service says
nothing of processes, pipes and restarts. It does let a newcomer pass the line: a worker that
timed out is free only when its next process is ready, but a call made before its exit is
delivered is dispatched to it, since `pickIdleWorker` tests only `ready`, `busy` and `process`.

### Identity

`profile[t]` is what `TalentProfile` says of the identity, `vector[t]` the saved embedding.
An upload is a NIK, a photo and a face; `Alike` are the pairs of faces in the grey zone.
`job[j]` is one `verifyTalentFaceBackground`: engines, checks, update, vector, outcome.
`engineAccepts` covers both engines of `verifyKtpAndSelfie`, which reports a failure of both
as an invalid card. `excused` collects the pairs whose faces the code did not get to compare,
with the step at which that happened: comparisons in flight together, a vector not saved
before a restart, an admin who lets a match pass or clears a vector.

### ChallengeLifecycle

A request reads in one step and writes in a later one, `updateChallenge` with the row lock
between; creations of one owner wait for each other on the owner's row. The content of a case
is reduced to whether it would pass the checks of publication (`sound`), whether its question
is linked to the bank, and a version. `ai[c]` is the background generation, which writes what
it got into whatever the row has become, tells, or fails and refunds. `stale` and `overlapped`
mark what was written on an earlier reading.

### Accounts

One user, who may be banned; one company. Each read and each write is a step: `guardRead` and
`guardStore` of the cache entry, `deleteMany` and `create` of reset links, the look-up and the
conditional update of an invite code, `isVerified` and `kybStatus` of a decision. Access
tokens, passwords and mails are left out: whether a mail arrives changes no row.

### SkillDirectory

Rows with the time of their insert; the copy with its timestamp; requests at each await of
`allSkills`, `resolveCategory` and `createSkill`. Spelling is `Key`, the lower case. The
verdict on a new name (AI or typing distance) is any of those the code may reach.

## 3. Runs

| Run | Shows | Instance |
|---|---|---|
| `gate_scores` | `HandedInConsistent`, `UnlockWithdrawnOnlyOutsideWindow`, `GradeThatOpensTells`, `FollowsLifecycle` | one candidate, two stages, clock to 4, scores below and above the threshold, four initial gates of the second stage, three edits by the owner, AI on |
| `gate_basis` | `WalkAgrees`, `ReadingIsStable`, `AdmissionJustified` | three stages, the last reading both or only the first, or the second closing at 2; weights 1, 2, 1 |
| `gate_contest` | `QuotaRankRespected`; live: `NobodyWaitsForever` | two candidates for one place, of a quota (ties and late scores included) or in the batch of the cron |
| `attempt_races` | `EntryWasPromised`, `ScoreNeverLost`; live: `OverdueIsClosed` | three jobs: a tab, a second tab or the owner, the cron |
| `grading` | `PenalisedOnce`, `RemindedOnce`, `TokensBacked`; live: `AiQueueDrains`, `EverySubmissionAnswered` | one stage and one whole submission, one grader, one fault anywhere: a restart or an auto-pass rolled back |
| `payments` | `CreditedOnce`, `BalanceExplained`, `NeverOverdrawn`, `NoMonthLost`; live: `PaidIsCredited` | one top-up or two subscriptions, two notifications at a time, two spenders who can pay for one, three months, one restart |
| `worker_pool` | `WaitingInOnePlace`, `QueuedOnlyWhenBusy`, `MixUpOnlyWhenDying`, `FollowsService`; live: `EveryCallSettles` | two workers, three calls, `MAX_RESTARTS` 1 |
| `identity` | `OneFaceOneAccount`, `DoubtDecidedByAdmin`, `PendingIsLookedAt` | two talents, two verifications at once, three in all, one restart; one person with two cards and one who looks alike |
| `challenges` | `QuotaKept`, `OpenIsSound`, `TokensAccounted`, `BankHasNoTwins` | two cases, a company that may have both and a talent who may have one, two requests at once, three in all, a restart anywhere |
| `accounts` | `BanBites`, `LinksAreSingle`, `InviteUsedOnce`, `RefusedHasNoAccess` | two requests at once, four in all, clock to 4, TTLs of one and two units |
| `directory` | `MissingIsYoung`, `TwinsOnlyByOverlap` | two spellings of one name and another name, two requests at once, four in all |
| `rewarded_per_stage` | `RewardedOnce` is violated | two stages |

Types are not among the properties of the runs: `TypeOK` of every module with a proof module
is a theorem.

Bounds. A gate decides each candidate alone, so one candidate is enough except for quotas and
the cron's batch; two candidates and one place are the smallest contest in which one loses
(`BATCH_SIZE` 1 stands for the code's 500). Two stages are the
smallest gate, three the smallest one that reads past its predecessor. The clock (`MaxNow`)
reaches past every deadline, window and grace period of the instance. Three jobs are one more
than a race on one row needs. A restart forgets everything, so a second one differs
from the first only in the rows it finds. Two requests at a time and two of each thing they
contend for are enough for every overlap the properties speak of, which are between two;
`MaxReqs` and `MaxAttempts` leave room for a third that finds what two have left behind. Two
workers are the smallest pool in which one can be given up while another serves; three calls
are two pending and one queued. The theorems below remove these bounds for most properties.
`MaxCredits` and `MaxEarned` only cap counters: a third credit of an order is as wrong as the
second. Symmetry is used in runs without live properties, over cases, talents, jobs and
requests, which the code treats alike.

`CHECK_DEADLOCK FALSE`: `Grading` ends when all is graded, as the work does; a pool without
calls, an order book without orders, and the modules whose requests are bounded (`MaxHooks`,
`MaxAttempts`, `MaxReqs`, `MaxNow`) stop where nobody asks for more.

Fairness. `StageGate`: the clock and the crons (`@Cron` of `stages.cron.ts`, in process); no
candidate, owner or grader need do anything. A round of a cron is promised, a place in its batch
is not: `NobodyWaitsForever` holds if from some time on a round can take all that wait (not
`Crowded`). Without this premise TLC shows a candidate who is passed over in every round.
`StageAttempt`: the clock, the cron, and a
handler under way goes on to its next step. `Grading`: the AI queue and the seven-day
cron come round and go on with what they found; the AI may fail every time, nobody is obliged to grade, and no
week need pass, so that the AI queue must empty without the help of the seven-day cron. The
clock of the models stops at `MaxNow`, so live properties speak of deadlines before it.
`WorkerPool`: timers of Node fire, a killed process exits, and a process that starts gets
ready or dies; nothing makes a process answer, and it may crash at any time. `Payments`: a
handler under way goes on, and Midtrans repeats a notification until it is answered; strong
fairness, because other notifications may occupy the `MaxHooks` requests in between, which is
a bound of the model.

### A disagreement a run exhibits

- `rewarded_per_stage`: a stage whose successors are still locked is taken for the last; the case is rewarded after it and again at its end. The quoted line is in `PROJECT.json` `findings`.

### Further disagreements, met while modelling, without a run

Stages:

- Quotas are decided once `closesAt` has passed, when `decide` keeps the stage shut (`stage-gate.service.ts:281`): winners are told they can work, and cannot. The winner's next reading stores `unlockedAt: null`, so the following round decides and tells the same candidate again, against "putaran berikutnya tidak menemukan apa pun" (`:990`); a score that arrives after a round lets one more in than `maxAdvancing`.
- A stage without `timeLimit` gets no deadline (`:577`), and `closesAt` is not looked at when answers come in.
- An approval given before `opensAt` is withdrawn by the next reading (`:275` is tested before 296); one given to a candidate with status FAILED is announced and has no effect (`:899`).
- `releaseStagesWaitingOnGrading` takes 500 rows in no order (`stages.cron.ts:106`), and rows of candidates who hand in nothing never leave its selection: 500 of them can keep everyone else out, against "tidak terjebak menunggu tinjauan yang tidak datang" (`:88`). `applyStageQuotas` selects sections whose quota is decided for ever, with the same limit (`:152`).
- `releaseStagesWaitingOnGrading` tells nobody of a stage it opens, though its comment says the company is told.
- Two concurrent starts: the second resets the clock of the candidate. The minute cron expires, by id, an attempt handed in since it was found (`stages.cron.ts:58`). A start decided on a stale row puts a handed-in attempt back to IN_PROGRESS; a double click on approve sends the news twice; a reading begun before an approval writes its own verdict over it.

Grading and drafts:

- The AI's late answer puts a graded submission back under review (`submissions.cron.ts:202`). `evaluatedAt` stays set, so nobody can grade it again, and a company's seven-day penalty may follow for a submission it had graded.
- An auto-pass rolled back after it has launched its payment (`submissions.service.ts:134`) leaves the tokens with the talent, and the next hour pays again. The comment at `:162` ("kalau auto-pass ini batal") takes care of badges only. The exception also drops the rest of the round.
- Two graders at once, or a double click, both pass the test of `evaluatedAt` and reward twice (`:996`).
- A restart between verdict and stage score is never repaired (`submissions.service.ts:1108`): the next stage stays shut.
- Two `saveDraft` at once lose proctoring counters, or a lock-out, of one (`:451`).

Money, identity, cases, accounts:

- Two overlapping notifications of one order credit it twice, and an `expire` that overtakes a settlement under way does too; a process that ends between SUCCESS and the credit loses the purchase (`payments.service.ts:222-270`). A credited top-up leaves no ledger row.
- `verifyKtpAndSelfie` swallows `FaceEngineUnavailableError` (`ai.service.ts:696`), so trouble with the engines makes the talent FAILED, against the comment at `verification.service.ts:235-238`.
- A talent who was VERIFIED and verifies again is PENDING from the first request on; rejecting a review does not free the NIK.
- A save reads and checks its case "di dalam transaksi" (`challenges.service.ts:1519-1525`) at read committed, which does not keep two saves from both seeing DRAFT: a save may reopen a case archived or taken down meanwhile. A generation adds its sections to a case already published. A restart during a generation leaves an empty draft that was paid for; a generation whose notice fails is refunded though its draft was written.
- Members of a company who were removed keep their access token until it ends; `VerifiedCompanyGuard` reads `isVerified` of the member, which nothing sets.
- A skill just created is not always found by the next search: a load under way replaces the copy it was appended to (`skills.service.ts:98` and `:203`, whose comment says "harus segera terlihat").
- A reply to a ticket read before its close sets it IN_PROGRESS again (`admin.service.ts:772`); five requests at once pass the limit of open tickets.

## 4. Proofs

Eight modules hold theorems: one for each of `StageGate`, `StageAttempt`, `Grading`,
`Payments`, `WorkerPool`, `Identity` and `Accounts`, and `CatalogueProofs` for
`ChallengeLifecycle` and `SkillDirectory`. The theorems hold for every number of candidates,
stages, jobs, submissions, orders, workers, talents, cases and requests, every weight, gate,
limit and clock bound, under the named ASSUMEs of the modules: types of the constants; finitely
many workers, candidates, cases; the initial gates satisfy the publication rules, as `publish`
makes sure; a photo shows one face. Each begins with type correctness. Every safety invariant
and every action property a passing run checks is the property of a theorem.

- **`StageGate`.** `RowsCorrect`, the invariant `RowInv`: each attempt and its submission satisfy `RowOK`. Its parts hold each other up: that a row at work has no submission, for instance, is what keeps "a submission exists exactly for attempts handed in" true when the row expires, and that a stored reason means a null unlock is what allows `evaluate` to skip its write. All actions change a row in a handful of ways (`Looked`, `Started`, `Admitted`, `Rejected`, `HandedIn`, `Settled`); the lemmas prove each way once and the actions cite them. From it: `ReasonCorrect`, `HandedInCorrect`, `ImplementsLifecycle` (the refinement), `UnlockKept`, `OpeningIsTold`, `ReadingStable` (`evaluate` is idempotent: a stored decision is sticky and expired rows stay expired) and `QuotaFair` (counting: the winners rank above the loser and are `maxAdvancing` many).
  `AdmissionSafe` needs that the gates in force satisfy the publication rules (`GateInv`) and an account of `aggregateScore`: a mean of at least `minScore` is the same as a non-negative sum of weighted distances from it (`SumOfDistances`). Sums are folds over sets; their recursion is not available to the provers as an induction rule, so `SumUnfolds` shows that there is a function satisfying the recursion, given outright as a difference of two cardinalities (`Marks`: a set with one element per unit), and `FoldInduction` is induction over subsets stated about a set of subsets instead of a predicate, from the library's well-founded order on finite sets. `WalkCorrect` names the rows the loop has after each stage (old rows behind, new rows before), shows that they satisfy its recursion (`DecideLooksBack`: a decision depends only on rows of earlier stages, by `GateInv`) and that nothing else does.
- **`StageAttempt`.** `RacesCorrect`: `RaceInv` adds to the properties what jobs hold across awaits. `EntryWasPromised` alone says nothing of a row read before; that what was read unlocked had been promised then, and promises are never taken back, makes it inductive. `ScoreKept` needs that a job about to settle a score has a submission, which by the unique index excludes a second hand-in.
- **`Grading`.** `CronsCorrect`: `CronInv` says that what is on a cron's list is still selectable by the column it was selected by; since only the cron writes that column, a list read earlier acts once. From it `PenaltyOnce` and `ReminderOnce`. `TokensSafe`, for each submission: what is owed counts as paid already (`PayInv`), so that making a payment changes nothing, except the payment of an auto-pass still open, which has neither reward nor rollback to stand for it; that one cannot be made as long as the auto-pass holds the talent's profile, and commit or rollback then give it one.
- **`Payments`.** `CreditsCorrect`: as long as no two notifications of an order overlapped, one request handles it at most, SUCCESS is stored before anything is credited, and nothing handles it once it is credited (`AloneInv`): the "already processed" test then stops every later one. `SpendsCorrect`: what a spender has checked is still there when it books, since only one holds the row and credits only add. `BalanceSafe`: every step changes balance, ledger and credits by the same amount (`MoneyInv`). `MonthsSafe`: unless two changes of the expiry overlapped, one notification at most is between reading and writing it, and what it has read still holds, clock and cron included (`PlanInv`); so what is ahead and what was lived on the paid tier never fall behind what was paid.
- **`WorkerPool`.** `PlacesCorrect`: `PlaceInv` says that queue and workers hold each unsettled call exactly once. The work is in `drainQueue`: `RankFacts` (ranks number a finite set of workers from 1 to its cardinality), `ChosenFacts` and `DrainFacts` show that a drain moves calls from queue to workers and loses none. `StepsCorrect`: for every process not dying, what is in its two pipes is just the pending call (`StepInv`), hence `MixUpSafe`. `BusyCorrect`: a drain leaves either no queue or no idle worker. `ImplementsService`: each action is a step of `CallService` or none; `DrainServes` says that a drain serves the first of the queue beside those served before, and that a call is at one worker at most (`PlaceInv`) makes it leave the served ones when that worker lets it go. That there is a place for each served call is shown by naming one, the worker it is pending at.
- **`Identity`.** `FacesCorrect`: two accounts that passed without an admin are apart because one was compared after the other's vector was saved (`VectorInv`, `ComparedInv`), unless they were in flight together (`OverlapInv`), and each way in which this fails puts the pair into `excused`. `DoubtCorrect` and `PendingCorrect` follow the mark `needsReview` from the write that sets it to the admin who clears it.
- **`Accounts`.** `BansCorrect`: a cache entry that outlives a ban was read before it, in the same unit of time as the ban, so it ends within the TTL. `CodesCorrect`: a code stored is unused. `LinksCorrect`: serials of links are given once (`SerialInv`), and undisturbed requests find one link at most (`SingleInv`) and use it unused (`ResetInv`). `DecisionsCorrect`: both columns agree but between the two writes of one decision.
- **`ChallengeLifecycle`.** `RequestsCorrect`: two creations of one owner, or of one case, are never under way together (`lockCompany`, `lockTalentAndAssertQuota`), and a save has read a draft. `QuotaSafe`: a creation under way has counted less than the limit, and what it counted can only fall before it commits, since saves on an earlier reading are in `stale` (`QuotaInv`). `OpenSafe`: a case that becomes public passed the checks, and no draft is taken down, so restoring opens nothing (`OpenInv`). `TokensSafe`: one deduction per case, one refund per failed generation, counted as cardinalities of sets of cases. `BankSafe`: a question is absorbed when the bank has none, unless another publication of the same company was between its reading and its commit.
- **`SkillDirectory`.** `CopyCorrect`: the copy, and each load under way, holds all rows as old as its timestamp; since the timestamp is taken before the rows are read, a load that overwrites a newer copy loses only young names. `TwinsCorrect`: two requests about to insert one key have been noted.

Only model-checked: liveness (`OverdueIsClosed`, `NobodyWaitsForever`, `AiQueueDrains`,
`EverySubmissionAnswered`, `EveryCallSettles`, `PaidIsCredited`), because fairness and ENABLED
are out of the provers' reach; and `RewardedOnce`, which is false.

## 5. Plan

Done: the modules and theorems above. Next, in this order:

1. More about the detailed behaviour the invariants leave open: which steps may take a row back in `StageAttempt`, and that a grade once given ends in the stage's score.
2. That `Grading`'s enrollment and reward counters only move forward.
3. `updateStageGate` with its read and its write apart, and `saveDraft`, as steps of `StageAttempt`; enrolment and `updateHiringStatus` in `Grading`; registration and `updateMemberStatus` in `Accounts`; support tickets.

## 6. Not modelled

Out of scope: rendering and wording, storage, mail, encryption, HTTP guards other than
`JwtAuthGuard`, seeds and single-statement CRUD, which have no behaviour over time a model
could tell more about than the code does; the external model behind the AI service, whose
results are nondeterministic inputs; psychometric scoring, a sum without state. In
`submissions/`: enrolment, drafts and proctoring counters (a read-modify-write on one JSON
column), `updateHiringStatus` and the read endpoints. In `challenges/`: blueprints, slugs,
statistics; in `users/` and `auth/`: registration, login and its tokens, `updateMemberStatus`;
in `admin/`: tickets, announcements, audit log. In `verification/`: talents without a NIK, and
of `verifyExecution` all but the failure to decrypt. In `Identity`: two admins who decide one row at a time. In
`ChallengeLifecycle`: quotas that change (the CUSTOM tier, a change of tier, the mode without
limits); the limit of an owner is a constant. In the gate rules: stages without components, for
which the code skips the check on psychometric predecessors (`Kind` is always set). In
`Accounts`: time that passes during a handler, by which the code's bounds grow. In the pool: a
start that never ends (the code has no timer for it), and a write to a pipe whose
process is gone, which its `exit` event follows. In `payments/`: orders created in the same
millisecond, which share an id. Database errors other than the unique indexes and those of an auto-pass, and clocks that
go backwards, are assumed away.
