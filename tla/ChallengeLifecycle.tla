------------------------- MODULE ChallengeLifecycle -------------------------
(***************************************************************************)
(* A case from its creation to the archive: challenges.service.ts and the  *)
(* takedown by an admin (admin.service.ts).                                *)
(*                                                                         *)
(* A request reads in one step and writes in a later one.  Transactions    *)
(* run at read committed: only row locks order them, and a transaction     *)
(* that updates a case holds its row until it commits.  A generation by    *)
(* the AI goes on in the background after its request was answered.        *)
(***************************************************************************)
EXTENDS Integers, FiniteSets

CONSTANTS
    Challenges,     \* rows that can be created
    Companies, Talents,
    Limit,          \* cases in DRAFT or PUBLISHED at once, per owner
    Start,          \* token balance of a talent at first
    Cost,           \* PUBLIC_CHALLENGE_COST
    Reqs,           \* requests under way at once
    MaxReqs         \* bound: requests

Owners == Companies \cup Talents

ASSUME OwnersAssumption == Companies \cap Talents = {} /\ Limit \in [Owners -> Nat]
ASSUME NumbersAssumption == {Start, Cost, MaxReqs} \subseteq Nat
\* Tables are finite, which is what makes counting their rows mean something.
ASSUME ChallengesAssumption == IsFiniteSet(Challenges)

VARIABLES
    ch,             \* Challenge rows, with their sections
    bank,           \* rows of one question text in each company's question bank
    tokens,         \* tokenBalance of each talent
    ai,             \* the background generation of each case
    req,
    started,
    stale,          \* history: cases written on what was read of an earlier row
    overlapped      \* history: companies two of whose publications overlapped

vars == <<ch, bank, tokens, ai, req, started, stale, overlapped>>

\* sound: the sections would pass assertChallengeConsistency; linked: their
\* question has a sourceItemId; version counts the writes of the sections.
NoChallenge == [status |-> "none"]
Free == [at |-> "free"]

Exists(c) == ch[c].status # "none"
Owned(o) == {c \in Challenges : Exists(c) /\ ch[c].owner = o}
Active(o) == {c \in Owned(o) : ch[c].status \in {"DRAFT", "PUBLISHED"}}

\* What createCommit stores of a draft with sections that nobody has checked.
Draft(o) == [status |-> "DRAFT", owner |-> o, takenDown |-> FALSE, sound |-> FALSE,
             linked |-> FALSE, version |-> 1, refunded |-> FALSE]

\* Owners may have drafts at first, within their limit and paid for.
Init ==
    /\ ch \in [Challenges -> {NoChallenge} \cup {Draft(o) : o \in Owners}]
    /\ \A o \in Owners : Cardinality(Active(o)) <= Limit[o]
    /\ bank = [o \in Companies |-> 0]
    /\ tokens = [t \in Talents |-> Start - Cost * Cardinality(Owned(t))]
    /\ ai = [c \in Challenges |-> "none"]
    /\ req = [r \in Reqs |-> Free]
    /\ started = 0
    /\ stale = {} /\ overlapped = {}

Begin(r, record) ==
    /\ req[r].at = "free" /\ started < MaxReqs
    /\ started' = started + 1
    /\ req' = [req EXCEPT ![r] = record]

End(r) == req' = [req EXCEPT ![r] = Free]

-----------------------------------------------------------------------------
(* Creation.                                                               *)

Creating == {r \in Reqs : req[r].at = "creating"}

\* Mutated form of Admitted: the row of the owner is not locked.
Admitted_NoLock(o) == Cardinality(Active(o)) < Limit[o]

\* lockCompany with assertCompanyQuota, or lockTalentAndAssertQuota.
Admitted(o) ==
    /\ \A r \in Creating : req[r].owner # o
    /\ Cardinality(Active(o)) < Limit[o]

\* "none": no section at all; "bad" and "good": one that would, or would not, be
\* refused at publication.
Contents == {"none", "bad", "good"}

\* The transaction of create and createPublic as far as its reads.
createRead(r, c, o, status, sections) ==
    /\ ~Exists(c) /\ \A q \in Creating : req[q].c # c
    /\ status = "PUBLISHED" => sections = "good"
    /\ Admitted(o)
    /\ o \in Talents => tokens[o] >= Cost
    /\ Begin(r, [at |-> "creating", c |-> c, owner |-> o, status |-> status,
                 sections |-> sections, generated |-> FALSE,
                 banked |-> IF o \in Companies THEN bank[o] ELSE 0])
    /\ UNCHANGED <<ch, bank, tokens, ai, stale, overlapped>>

\* generateAiChallenge and generateAiPublicChallenge: a draft without sections.
generateAi(r, c, o) ==
    /\ ~Exists(c) /\ \A q \in Creating : req[q].c # c
    /\ Admitted(o)
    /\ o \in Talents => tokens[o] >= Cost
    /\ Begin(r, [at |-> "creating", c |-> c, owner |-> o, status |-> "DRAFT",
                 sections |-> "none", generated |-> TRUE, banked |-> 0])
    /\ UNCHANGED <<ch, bank, tokens, ai, stale, overlapped>>

\* Mutated form of absorb: what the bank holds already is not looked for.
absorb_Blind(o, seen) ==
    /\ bank' = [bank EXCEPT ![o] = @ + 1]
    /\ overlapped' = IF bank[o] = seen THEN overlapped ELSE overlapped \cup {o}

\* absorbSelfWrittenQuestions, of a question without a sourceItemId: a row when
\* none with its text was seen.
absorb(o, seen) ==
    /\ bank' = [bank EXCEPT ![o] = IF seen = 0 THEN @ + 1 ELSE @]
    /\ overlapped' = IF bank[o] = seen THEN overlapped ELSE overlapped \cup {o}

Absorbed(o, publishes) == publishes /\ o \in Companies

\* Spend, case, notice and questions commit together; a generation begins after.
createCommit(r) ==
    LET q == req[r]
        absorbs == Absorbed(q.owner, q.status = "PUBLISHED")
    IN  /\ q.at = "creating"
        /\ ch' = [ch EXCEPT ![q.c] =
                    [status |-> q.status, owner |-> q.owner, takenDown |-> FALSE,
                     sound |-> q.sections = "good", linked |-> absorbs,
                     version |-> IF q.sections = "none" THEN 0 ELSE 1,
                     refunded |-> FALSE]]
        /\ tokens' = [t \in Talents |-> IF t = q.owner THEN tokens[t] - Cost ELSE tokens[t]]
        /\ IF absorbs THEN absorb(q.owner, q.banked) ELSE UNCHANGED <<bank, overlapped>>
        /\ ai' = [ai EXCEPT ![q.c] = IF q.generated THEN "asking" ELSE "none"]
        /\ End(r)
        /\ UNCHANGED <<started, stale>>

-----------------------------------------------------------------------------
(* updateChallenge: read, row lock, commit.                                *)

RowLocked(c) == \E r \in Reqs : req[r].at = "writing" /\ req[r].c = c

\* Mutated form of Consistent: a request without sections is not checked.
Consistent_OwnOnly(c, status, sections) ==
    LET effective == IF status = "keep" THEN ch[c].status ELSE status
    IN  effective = "PUBLISHED" => sections \in {"keep", "good"}

\* assertChallengeConsistency, on the sections that are sent or else those stored.
Consistent(c, status, sections) ==
    LET effective == IF status = "keep" THEN ch[c].status ELSE status
    IN  effective = "PUBLISHED" =>
            IF sections = "keep" THEN ch[c].sound ELSE sections = "good"

\* Neither what is published nor what is archived can be edited.
Editable(c) == Exists(c) /\ ch[c].status \notin {"PUBLISHED", "CLOSED"}

\* "keep" stands for a field the request leaves out.
updateRead(r, c, status, sections) ==
    /\ Editable(c)
    /\ Consistent(c, status, sections)
    /\ Begin(r, [at |-> "editing", c |-> c, seen |-> ch[c], status |-> status,
                 sections |-> sections])
    /\ UNCHANGED <<ch, bank, tokens, ai, stale, overlapped>>

\* challenge.update locks the row, and the bank is read behind the lock.
updateLock(r) ==
    LET o == req[r].seen.owner
    IN  /\ req[r].at = "editing"
        /\ ~RowLocked(req[r].c)
        /\ req' = [req EXCEPT ![r] =
                     [at |-> "writing", c |-> @.c, seen |-> @.seen, status |-> @.status,
                      sections |-> @.sections,
                      banked |-> IF o \in Companies THEN bank[o] ELSE 0]]
        /\ UNCHANGED <<ch, bank, tokens, ai, started, stale, overlapped>>

\* The status is that of the request, whatever became of the row since it was read;
\* rewritten sections lose the link of their question.
updateCommit(r) ==
    LET q == req[r]
        row == ch[q.c]
        kept == q.sections = "keep"
        status == IF q.status = "keep" THEN row.status ELSE q.status
        version == IF kept THEN row.version ELSE row.version + 1
        absorbs == /\ Absorbed(row.owner, q.seen.status = "DRAFT" /\ status = "PUBLISHED")
                   /\ IF kept THEN row.version > 0 /\ ~row.linked ELSE q.sections # "none"
    IN  /\ q.at = "writing"
        /\ ch' = [ch EXCEPT ![q.c] =
                    [row EXCEPT !.status = status, !.version = version,
                                !.sound = IF kept THEN @ ELSE q.sections = "good",
                                !.linked = (kept /\ @) \/ absorbs]]
        /\ IF absorbs THEN absorb(row.owner, q.banked) ELSE UNCHANGED <<bank, overlapped>>
        /\ stale' = IF row = q.seen THEN stale ELSE stale \cup {q.c}
        /\ End(r)
        /\ UNCHANGED <<tokens, ai, started>>

\* A section that was read is gone: writeSections updates no row, all is rolled back.
updateRollsBack(r) ==
    /\ req[r].at = "writing"
    /\ req[r].sections # "keep" /\ ch[req[r].c].version # req[r].seen.version
    /\ End(r)
    /\ UNCHANGED <<ch, bank, tokens, ai, started, stale, overlapped>>

-----------------------------------------------------------------------------
(* Archive, takedown, restore: a read and one write.                       *)

archiveRead(r, c) ==
    /\ Exists(c) /\ ch[c].status # "CLOSED"
    /\ Begin(r, [at |-> "archiving", c |-> c])
    /\ UNCHANGED <<ch, bank, tokens, ai, stale, overlapped>>

archiveChallenge(r) ==
    /\ req[r].at = "archiving" /\ ~RowLocked(req[r].c)
    /\ ch' = [ch EXCEPT ![req[r].c].status = "CLOSED"]
    /\ End(r)
    /\ UNCHANGED <<bank, tokens, ai, started, stale, overlapped>>

takedownRead(r, c) ==
    /\ Exists(c) /\ ~ch[c].takenDown
    /\ Begin(r, [at |-> "takingDown", c |-> c])
    /\ UNCHANGED <<ch, bank, tokens, ai, stale, overlapped>>

takedownChallenge(r) ==
    /\ req[r].at = "takingDown" /\ ~RowLocked(req[r].c)
    /\ ch' = [ch EXCEPT ![req[r].c].status = "CLOSED", ![req[r].c].takenDown = TRUE]
    /\ End(r)
    /\ UNCHANGED <<bank, tokens, ai, started, stale, overlapped>>

restoreRead(r, c) ==
    /\ Exists(c) /\ ch[c].takenDown
    /\ Begin(r, [at |-> "restoring", c |-> c])
    /\ UNCHANGED <<ch, bank, tokens, ai, stale, overlapped>>

\* The status stays CLOSED.
restoreChallenge(r) ==
    /\ req[r].at = "restoring" /\ ~RowLocked(req[r].c)
    /\ ch' = [ch EXCEPT ![req[r].c].takenDown = FALSE]
    /\ End(r)
    /\ UNCHANGED <<bank, tokens, ai, started, stale, overlapped>>

-----------------------------------------------------------------------------
(* processAiChallengeBackground.                                           *)

\* The sections of the answer are added to what is stored by then, whatever its status.
aiWrites(c, sections) ==
    /\ ai[c] = "asking" /\ ~RowLocked(c)
    /\ sections \in Contents
    /\ ch' = IF sections = "none" THEN ch
             ELSE [ch EXCEPT ![c].version = @ + 1, ![c].linked = FALSE,
                       ![c].sound = sections = "good" /\ (@ \/ ch[c].version = 0)]
    /\ stale' = IF sections = "none" \/ ch[c].status = "DRAFT" THEN stale ELSE stale \cup {c}
    /\ ai' = [ai EXCEPT ![c] = "telling"]
    /\ UNCHANGED <<bank, tokens, req, started, overlapped>>

aiTells(c) ==
    /\ ai[c] = "telling"
    /\ ai' = [ai EXCEPT ![c] = "done"]
    /\ UNCHANGED <<ch, bank, tokens, req, started, stale, overlapped>>

\* Whatever throws, the notice of a draft already written included.
aiFails(c) ==
    /\ ai[c] \in {"asking", "telling"}
    /\ ai' = [ai EXCEPT ![c] = "failed"]
    /\ UNCHANGED <<ch, bank, tokens, req, started, stale, overlapped>>

\* Mutated form of aiRefunds: the balance is credited before its ledger, and again.
aiRefunds_Retried(c) ==
    /\ ai[c] = "failed"
    /\ ch[c].owner \in Talents
    /\ tokens' = [tokens EXCEPT ![ch[c].owner] = @ + Cost]
    /\ ch' = [ch EXCEPT ![c].refunded = TRUE]
    /\ UNCHANGED <<bank, ai, req, started, stale, overlapped>>

\* A talent gets the tokens back, the owner a notice.
aiRefunds(c) ==
    /\ ai[c] = "failed"
    /\ ch[c].owner \in Talents
    /\ tokens' = [tokens EXCEPT ![ch[c].owner] = @ + Cost]
    /\ ch' = [ch EXCEPT ![c].refunded = TRUE]
    /\ ai' = [ai EXCEPT ![c] = "ended"]
    /\ UNCHANGED <<bank, req, started, stale, overlapped>>

\* A company paid nothing; or the refund fails too, and is only logged.
aiGivesUp(c) ==
    /\ ai[c] = "failed"
    /\ ai' = [ai EXCEPT ![c] = "ended"]
    /\ UNCHANGED <<ch, bank, tokens, req, started, stale, overlapped>>

\* Transactions are rolled back; a generation is not taken up again.
restart ==
    /\ \/ \E r \in Reqs : req[r].at # "free"
       \/ \E c \in Challenges : ai[c] \in {"asking", "telling", "failed"}
    /\ req' = [r \in Reqs |-> Free]
    /\ ai' = [c \in Challenges |-> IF ai[c] = "none" THEN "none" ELSE "ended"]
    /\ UNCHANGED <<ch, bank, tokens, started, stale, overlapped>>

-----------------------------------------------------------------------------
Request(r, c) ==
    \/ \E o \in Owners : \/ \E status \in {"DRAFT", "PUBLISHED"}, sections \in Contents :
                              createRead(r, c, o, status, sections)
                         \/ generateAi(r, c, o)
    \/ \E status \in {"keep", "DRAFT", "PUBLISHED"}, sections \in Contents \cup {"keep"} :
         updateRead(r, c, status, sections)
    \/ archiveRead(r, c) \/ takedownRead(r, c) \/ restoreRead(r, c)

Answer(r) ==
    \/ createCommit(r) \/ updateLock(r) \/ updateCommit(r) \/ updateRollsBack(r)
    \/ archiveChallenge(r) \/ takedownChallenge(r) \/ restoreChallenge(r)

processAiChallengeBackground(c) ==
    \/ \E sections \in Contents : aiWrites(c, sections)
    \/ aiTells(c) \/ aiFails(c) \/ aiRefunds(c) \/ aiGivesUp(c)

Next ==
    \/ \E r \in Reqs : Answer(r) \/ \E c \in Challenges : Request(r, c)
    \/ \E c \in Challenges : processAiChallengeBackground(c)
    \/ restart

Spec == Init /\ [][Next]_vars

-----------------------------------------------------------------------------
\* "Lock membuat keduanya mengantre": an owner has no more drafts and published
\* cases than allowed, but for cases that a save based on an earlier row reopened.
QuotaKept == \A o \in Owners : Cardinality(Active(o) \ stale) <= Limit[o]

\* A case is open to candidates only with sections that would pass the checks of
\* publication, even when the request that published it sent none and an earlier
\* save or the AI wrote them, and not while an admin has taken it down; but for a
\* case that was written on what had been read of an earlier row.
OpenIsSound ==
    \A c \in Challenges \ stale :
        ch[c].status = "PUBLISHED" => ch[c].sound /\ ~ch[c].takenDown

\* No token is lost: a talent paid for each of the cases there are, once, and got
\* back what a failed generation cost, once.
TokensAccounted ==
    \A t \in Talents :
        tokens[t] = Start - Cost * Cardinality({c \in Owned(t) : ~ch[c].refunded})

\* "perusahaan ... tidak sedang meminta dua entri bank": a question has one row in
\* the bank unless two publications of its company overlapped.
BankHasNoTwins == \A o \in Companies : bank[o] > 1 => o \in overlapped
=============================================================================
