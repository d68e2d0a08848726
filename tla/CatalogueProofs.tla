---------------------------- MODULE CatalogueProofs ----------------------------
(***************************************************************************)
(* Proofs about the catalogue: its cases (ChallengeLifecycle), and the     *)
(* directory of fields of work they are filed under (SkillDirectory), for  *)
(* any cases, owners, limits, names, spellings and requests.               *)
(*                                                                         *)
(* Cases.  A request under way holds what it has read.  Creations of one   *)
(* owner queue for the row of the owner, and what such a request counted   *)
(* still holds when it commits; a save read a draft, and either finds that *)
(* very row when it commits or notes the case as stale.                    *)
(*                                                                         *)
(* Directory.  A load under way misses only rows younger than the time it  *)
(* took first, and a request about to insert a name either knows there is  *)
(* no row of its key or has been noted as raced.                           *)
(***************************************************************************)
EXTENDS ChallengeLifecycle, SkillRows, FiniteSetTheorems, TLAPS

Row == [status : {"DRAFT", "PUBLISHED", "CLOSED"}, owner : Owners, takenDown : BOOLEAN,
        sound : BOOLEAN, linked : BOOLEAN, version : Nat, refunded : BOOLEAN]

Creation == [at : {"creating"}, c : Challenges, owner : Owners,
             status : {"DRAFT", "PUBLISHED"}, sections : Contents, generated : BOOLEAN,
             banked : Nat]

Sent == {"keep", "DRAFT", "PUBLISHED"}

Edit == [at : {"editing"}, c : Challenges, seen : Row, status : Sent,
         sections : Contents \cup {"keep"}]

Writing == [at : {"writing"}, c : Challenges, seen : Row, status : Sent,
            sections : Contents \cup {"keep"}, banked : Nat]

Closing == [at : {"archiving", "takingDown", "restoring"}, c : Challenges]

Background == {"none", "asking", "telling", "done", "failed", "ended"}

TypeOK ==
    /\ ch \in [Challenges -> {NoChallenge} \cup Row]
    /\ bank \in [Companies -> Nat]
    /\ tokens \in [Talents -> Int]
    /\ ai \in [Challenges -> Background]
    /\ req \in [Reqs -> {Free} \cup Creation \cup Edit \cup Writing \cup Closing]
    /\ started \in Nat
    /\ stale \subseteq Challenges /\ overlapped \subseteq Companies

\* Requests and generations work on cases that are there; nothing deletes one.
PresentInv ==
    /\ \A r \in Reqs : req[r].at \notin {"free", "creating"} => Exists(req[r].c)
    /\ \A c \in Challenges : ai[c] # "none" => Exists(c)

Saves == {"editing", "writing"}

\* A creation has its case and its owner to itself; a save read a draft; and what a
\* generation may still refund has not been refunded.
RequestInv ==
    /\ \A r \in Reqs :
         /\ req[r].at = "creating" =>
              /\ ~Exists(req[r].c)
              /\ req[r].status = "PUBLISHED" => req[r].sections = "good"
              /\ \A q \in Creating : req[q].c = req[r].c \/ req[q].owner = req[r].owner => q = r
         /\ req[r].at \in Saves =>
              /\ req[r].seen.status = "DRAFT"
              /\ req[r].status = "PUBLISHED" =>
                   IF req[r].sections = "keep" THEN req[r].seen.sound
                   ELSE req[r].sections = "good"
    /\ \A c \in Challenges : ai[c] \in {"asking", "telling", "failed"} => ~ch[c].refunded

Counted(o) == Active(o) \ stale

\* A creation under way has room for its case until it commits.
QuotaInv ==
    /\ QuotaKept
    /\ \A o \in Owners :
         (\E r \in Creating : req[r].owner = o) => Cardinality(Counted(o)) < Limit[o]

\* A case taken down is closed, which is why restoring it opens nothing.
OpenInv ==
    /\ OpenIsSound
    /\ \A c \in Challenges \ stale : ch[c].status = "DRAFT" => ~ch[c].takenDown

\* The next-state relation, one actor at a time.
LEMMA Steps ==
    [Next]_vars <=>
        \/ \E r \in Reqs : Answer(r)
        \/ \E r \in Reqs, c \in Challenges : Request(r, c)
        \/ \E c \in Challenges : processAiChallengeBackground(c)
        \/ restart
        \/ UNCHANGED vars
BY DEF Next

LEMMA OwnersOf == Companies \subseteq Owners /\ Talents \subseteq Owners
BY DEF Owners

-----------------------------------------------------------------------------
\* Type correctness, under any requests, generations and restarts: no handler writes to
\* a case that is not there.
THEOREM TypeCorrect == Spec => [](TypeOK /\ PresentInv)
<1> USE OwnersAssumption, NumbersAssumption, OwnersOf DEF Background
<1>1. Init => TypeOK /\ PresentInv
  <2> SUFFICES ASSUME Init PROVE TypeOK /\ PresentInv
    OBVIOUS
  <2>1. \A o \in Owners : Draft(o) \in Row
    BY DEF Draft, Row
  <2>2. ASSUME NEW t \in Talents PROVE Start - Cost * Cardinality(Owned(t)) \in Int
    <3>1. Owned(t) \in SUBSET Challenges
      BY DEF Owned
    <3>2. Cardinality(Owned(t)) \in Nat
      BY <3>1, ChallengesAssumption, FS_Subset, FS_CardinalityType
    <3> QED BY <3>2
  <2>3. PresentInv
    BY DEF Init, PresentInv, Free
  <2> QED BY <2>1, <2>2, <2>3 DEF Init, TypeOK
<1>2. TypeOK /\ PresentInv /\ [Next]_vars => TypeOK' /\ PresentInv'
  <2> SUFFICES ASSUME TypeOK, PresentInv, [Next]_vars PROVE TypeOK' /\ PresentInv'
    OBVIOUS
  <2> USE DEF TypeOK
  <2>0. ASSUME NEW c \in Challenges PROVE Exists(c) <=> ch[c] \in Row
    BY DEF Exists, NoChallenge, Row
  <2>a. ASSUME \A c \in Challenges : ch[c] \in Row => ch'[c] \in Row,
               TypeOK',
               \A c \in Challenges : ai'[c] # "none" => ch'[c] \in Row,
               \A r \in Reqs : req'[r].at \notin {"free", "creating"} =>
                   req'[r].c \in Challenges /\ ch'[req'[r].c] \in Row
        PROVE  TypeOK' /\ PresentInv'
    BY <2>a DEF PresentInv, Exists, Row
  <2>b. \A r \in Reqs : req[r].at \notin {"free", "creating"} => req[r].c \in Challenges
    BY DEF Free, Creation, Edit, Writing, Closing
  <2>c. ASSUME NEW r \in Reqs, req'[r].at = "free",
               \A p \in Reqs \ {r} : req'[p] = req[p],
               NEW c \in Challenges, ch'[c] \in Row, \A d \in Challenges \ {c} : ch'[d] = ch[d],
               TypeOK', ai' = ai
        PROVE  TypeOK' /\ PresentInv'
    <3>1. \A d \in Challenges : ch[d] \in Row => ch'[d] \in Row
      BY <2>c
    <3>2. \A d \in Challenges : ai'[d] # "none" => ch'[d] \in Row
      BY <2>c, <2>0, <3>1 DEF PresentInv
    <3>3. \A p \in Reqs : req'[p].at \notin {"free", "creating"} =>
            req'[p].c \in Challenges /\ ch'[req'[p].c] \in Row
      BY <2>c, <2>b, <2>0, <3>1 DEF PresentInv
    <3> QED BY <2>a, <2>c, <3>1, <3>2, <3>3
  <2>1. ASSUME NEW r \in Reqs, NEW c \in Challenges, Request(r, c) PROVE TypeOK' /\ PresentInv'
    <3>1. ASSUME NEW o \in Owners, NEW status \in {"DRAFT", "PUBLISHED"},
                 NEW sections \in Contents, createRead(r, c, o, status, sections)
          PROVE TypeOK' /\ PresentInv'
      <4>1. TypeOK'
        BY <3>1 DEF createRead, Begin, Creation
      <4> QED BY <3>1, <4>1 DEF createRead, Begin, PresentInv, Exists
    <3>2. ASSUME NEW o \in Owners, generateAi(r, c, o) PROVE TypeOK' /\ PresentInv'
      <4>1. TypeOK'
        BY <3>2 DEF generateAi, Begin, Creation, Contents
      <4> QED BY <3>2, <4>1 DEF generateAi, Begin, PresentInv, Exists
    <3>3. ASSUME NEW status \in Sent, NEW sections \in Contents \cup {"keep"},
                 updateRead(r, c, status, sections)
          PROVE TypeOK' /\ PresentInv'
      <4>1. ch[c] \in Row
        BY <2>0, <3>3 DEF updateRead, Editable
      <4>2. TypeOK'
        BY <3>3, <4>1 DEF updateRead, Begin, Edit
      <4> QED BY <2>0, <3>3, <4>1, <4>2 DEF updateRead, Begin, PresentInv, Exists
    <3>4. CASE archiveRead(r, c) \/ takedownRead(r, c) \/ restoreRead(r, c)
      <4>1. TypeOK'
        BY <3>4 DEF archiveRead, takedownRead, restoreRead, Begin, Closing
      <4>2. Exists(c)
        BY <3>4 DEF archiveRead, takedownRead, restoreRead, Exists, NoChallenge
      <4> QED BY <3>4, <4>1, <4>2 DEF archiveRead, takedownRead, restoreRead, Begin,
                 PresentInv, Exists
    <3> QED BY <2>1, <3>1, <3>2, <3>3, <3>4 DEF Request, Sent
  <2>2. ASSUME NEW r \in Reqs, createCommit(r) PROVE TypeOK' /\ PresentInv'
    <3> DEFINE q == req[r]
    <3>1. q \in Creation
      BY <2>2 DEF createCommit, Free, Edit, Writing, Closing
    <3>2. /\ ch' \in [Challenges -> {NoChallenge} \cup Row]
          /\ ch'[q.c] \in Row /\ \A c \in Challenges \ {q.c} : ch'[c] = ch[c]
      BY <2>2, <3>1 DEF createCommit, Creation, Row, Absorbed
    <3>3. /\ tokens' \in [Talents -> Int]
          /\ ai' \in [Challenges -> Background] /\ \A c \in Challenges \ {q.c} : ai'[c] = ai[c]
      BY <2>2, <3>1 DEF createCommit, Creation
    <3>4. bank' \in [Companies -> Nat] /\ overlapped' \subseteq Companies
      BY <2>2, <3>1 DEF createCommit, absorb, Absorbed, Creation
    <3>5. TypeOK'
      BY <2>2, <3>2, <3>3, <3>4 DEF createCommit, End
    <3>6. \A p \in Reqs : req'[p] = IF p = r THEN Free ELSE req[p]
      BY <2>2 DEF createCommit, End
    <3>7. \A c \in Challenges : ch[c] \in Row => ch'[c] \in Row
      BY <3>2
    <3>8. \A c \in Challenges : ai'[c] # "none" => ch'[c] \in Row
      BY <2>0, <3>2, <3>3 DEF PresentInv
    <3>9. \A p \in Reqs : req'[p].at \notin {"free", "creating"} =>
            req'[p].c \in Challenges /\ ch'[req'[p].c] \in Row
      BY <2>0, <2>b, <3>6, <3>7 DEF PresentInv, Free
    <3> QED BY <2>a, <3>5, <3>7, <3>8, <3>9
  <2>3. ASSUME NEW r \in Reqs, updateLock(r) PROVE TypeOK' /\ PresentInv'
    <3>1. req[r] \in Edit
      BY <2>3 DEF updateLock, Free, Creation, Writing, Closing
    <3>2. req'[r] \in Writing /\ req'[r].c = req[r].c
      BY <2>3, <3>1 DEF updateLock, Edit, Writing, Row
    <3>3. TypeOK'
      BY <2>3, <3>2 DEF updateLock
    <3> QED BY <2>3, <3>1, <3>2, <3>3 DEF updateLock, PresentInv, Exists, Edit
  <2>4. ASSUME NEW r \in Reqs, updateCommit(r) PROVE TypeOK' /\ PresentInv'
    <3> DEFINE q == req[r]
               row == ch[q.c]
    <3>1. q \in Writing
      BY <2>4 DEF updateCommit, Free, Creation, Edit, Closing
    <3>2. row \in Row
      BY <2>0, <2>4, <3>1 DEF updateCommit, PresentInv, Writing
    <3>3. /\ ch' \in [Challenges -> {NoChallenge} \cup Row]
          /\ ch'[q.c] \in Row /\ \A c \in Challenges \ {q.c} : ch'[c] = ch[c]
      <4> DEFINE kept == q.sections = "keep"
                 status == IF q.status = "keep" THEN row.status ELSE q.status
                 version == IF kept THEN row.version ELSE row.version + 1
                 sound == IF kept THEN row.sound ELSE q.sections = "good"
                 absorbs == /\ Absorbed(row.owner, q.seen.status = "DRAFT" /\ status = "PUBLISHED")
                            /\ IF kept THEN row.version > 0 /\ ~row.linked ELSE q.sections # "none"
                 linked == (kept /\ row.linked) \/ absorbs
                 new == [row EXCEPT !.status = status, !.version = version, !.sound = sound,
                                    !.linked = linked]
      <4>1. ch' = [ch EXCEPT ![q.c] = new]
        BY <2>4 DEF updateCommit
      <4>2. status \in {"DRAFT", "PUBLISHED", "CLOSED"} /\ version \in Nat
        BY <3>1, <3>2 DEF Writing, Sent, Row
      <4>3. sound \in BOOLEAN
        BY <3>2 DEF Row
      <4>4. linked \in BOOLEAN
        OBVIOUS
      <4>5. new \in Row
        <5> HIDE DEF status, version, sound, linked
        <5> QED BY <3>2, <4>2, <4>3, <4>4 DEF Row
      <4> HIDE DEF new
      <4> QED BY <3>1, <4>1, <4>5 DEF Writing
    <3>4. bank' \in [Companies -> Nat] /\ overlapped' \subseteq Companies
      BY <2>4, <3>1, <3>2 DEF updateCommit, absorb, Absorbed, Writing, Row
    <3>5. TypeOK'
      BY <2>4, <3>1, <3>3, <3>4 DEF updateCommit, End, Writing
    <3>6. \A p \in Reqs : req'[p] = IF p = r THEN Free ELSE req[p]
      BY <2>4 DEF updateCommit, End
    <3>7. ai' = ai /\ q.c \in Challenges
      BY <2>4, <3>1 DEF updateCommit, Writing
    <3>8. req'[r].at = "free" /\ \A p \in Reqs \ {r} : req'[p] = req[p]
      BY <3>6 DEF Free
    <3> QED BY <2>c, <3>3, <3>5, <3>7, <3>8
  <2>5. ASSUME NEW r \in Reqs, updateRollsBack(r) PROVE TypeOK' /\ PresentInv'
    BY <2>5 DEF updateRollsBack, End, PresentInv, Exists, Free
  <2>6. ASSUME NEW r \in Reqs, archiveChallenge(r) \/ takedownChallenge(r) \/ restoreChallenge(r)
        PROVE TypeOK' /\ PresentInv'
    <3> DEFINE c == req[r].c
    <3>1. c \in Challenges /\ ch[c] \in Row
      BY <2>0, <2>b, <2>6 DEF archiveChallenge, takedownChallenge, restoreChallenge, PresentInv
    <3>2. /\ ch' \in [Challenges -> {NoChallenge} \cup Row]
          /\ ch'[c] \in Row /\ \A d \in Challenges \ {c} : ch'[d] = ch[d]
      <4>1. \E s \in {ch[c].status, "CLOSED"}, d \in {ch[c].takenDown, TRUE, FALSE} :
              ch' = [ch EXCEPT ![c] = [@ EXCEPT !.status = s, !.takenDown = d]]
        <5>1. CASE archiveChallenge(r)
          <6>1. [ch[c] EXCEPT !.status = "CLOSED"] =
                [ch[c] EXCEPT !.status = "CLOSED", !.takenDown = ch[c].takenDown]
            BY <3>1 DEF Row
          <6> QED BY <5>1, <6>1 DEF archiveChallenge
        <5>2. CASE takedownChallenge(r)
          BY <3>1, <5>2 DEF takedownChallenge
        <5>3. CASE restoreChallenge(r)
          <6>1. [ch[c] EXCEPT !.takenDown = FALSE] =
                [ch[c] EXCEPT !.status = ch[c].status, !.takenDown = FALSE]
            BY <3>1 DEF Row
          <6> QED BY <5>3, <6>1 DEF restoreChallenge
        <5> QED BY <2>6, <5>1, <5>2, <5>3
      <4>2. PICK s \in {ch[c].status, "CLOSED"}, d \in {ch[c].takenDown, TRUE, FALSE} :
              ch' = [ch EXCEPT ![c] = [@ EXCEPT !.status = s, !.takenDown = d]]
        BY <4>1
      <4>3. s \in {"DRAFT", "PUBLISHED", "CLOSED"} /\ d \in BOOLEAN
        BY <3>1 DEF Row
      <4>4. [ch[c] EXCEPT !.status = s, !.takenDown = d] \in Row
        BY <3>1, <4>3 DEF Row
      <4> QED BY <3>1, <4>2, <4>4
    <3>3. ai' = ai /\ req'[r].at = "free" /\ \A p \in Reqs \ {r} : req'[p] = req[p]
      BY <2>6 DEF archiveChallenge, takedownChallenge, restoreChallenge, End, Free
    <3>4. TypeOK'
      BY <2>6, <3>2 DEF archiveChallenge, takedownChallenge, restoreChallenge, End
    <3> QED BY <2>c, <3>1, <3>2, <3>3, <3>4
  <2>7. ASSUME NEW c \in Challenges, processAiChallengeBackground(c) PROVE TypeOK' /\ PresentInv'
    <3>1. ch[c] \in Row
      BY <2>0, <2>7 DEF processAiChallengeBackground, aiWrites, aiTells, aiFails, aiRefunds,
                        aiGivesUp, PresentInv
    <3> DEFINE OneRow == /\ ch' \in [Challenges -> {NoChallenge} \cup Row]
                         /\ ch'[c] \in Row /\ \A d \in Challenges \ {c} : ch'[d] = ch[d]
    <3>2. OneRow
      <4>1. ASSUME NEW sections \in Contents, aiWrites(c, sections) PROVE OneRow
        <5> DEFINE x == sections = "good" /\ (ch[c].sound \/ ch[c].version = 0)
                   v == ch[c].version + 1
                   row == [ch[c] EXCEPT !.version = v, !.linked = FALSE, !.sound = x]
        <5>1. ch' = ch \/ ch' = [ch EXCEPT ![c] = row]
          BY <4>1 DEF aiWrites
        <5>2. v \in Nat /\ x \in BOOLEAN
          BY <3>1 DEF Row
        <5>3. row \in Row
          <6> HIDE DEF v, x
          <6> QED BY <3>1, <5>2 DEF Row
        <5> HIDE DEF row
        <5> QED BY <3>1, <5>1, <5>3
      <4>2. CASE aiRefunds(c)
        <5>1. [ch[c] EXCEPT !.refunded = TRUE] \in Row
          BY <3>1 DEF Row
        <5> QED BY <3>1, <4>2, <5>1 DEF aiRefunds
      <4>3. CASE aiTells(c) \/ aiFails(c) \/ aiGivesUp(c)
        BY <3>1, <4>3 DEF aiTells, aiFails, aiGivesUp
      <4> QED BY <2>7, <4>1, <4>2, <4>3 DEF processAiChallengeBackground
    <3>3. /\ ai' \in [Challenges -> Background] /\ \A d \in Challenges \ {c} : ai'[d] = ai[d]
          /\ req' = req /\ tokens' \in [Talents -> Int]
      <4>1. ASSUME NEW t \in Talents PROVE tokens[t] + Cost \in Int
        OBVIOUS
      <4> QED BY <2>7, <4>1 DEF processAiChallengeBackground, aiWrites, aiTells, aiFails,
                                aiRefunds, aiGivesUp
    <3>4. TypeOK'
      BY <2>7, <3>2, <3>3 DEF processAiChallengeBackground, aiWrites, aiTells, aiFails,
                              aiRefunds, aiGivesUp
    <3>5. \A d \in Challenges : ch[d] \in Row => ch'[d] \in Row
      BY <3>2
    <3>6. \A d \in Challenges : ai'[d] # "none" => ch'[d] \in Row
      BY <2>0, <3>2, <3>3 DEF PresentInv
    <3>7. \A p \in Reqs : req'[p].at \notin {"free", "creating"} =>
            req'[p].c \in Challenges /\ ch'[req'[p].c] \in Row
      BY <2>0, <2>b, <3>3, <3>5 DEF PresentInv
    <3> QED BY <2>a, <3>4, <3>5, <3>6, <3>7
  <2>8. CASE restart
    BY <2>8 DEF restart, PresentInv, Exists, Free
  <2>9. CASE UNCHANGED vars
    BY <2>9 DEF vars, PresentInv, Exists
  <2> QED BY <2>1, <2>2, <2>3, <2>4, <2>5, <2>6, <2>7, <2>8, <2>9, Steps DEF Answer
<1> QED BY <1>1, <1>2, PTL DEF Spec

\* What a background generation does to the row of its case.
LEMMA GenerationStep ==
    ASSUME TypeOK, PresentInv, NEW c \in Challenges, processAiChallengeBackground(c)
    PROVE  /\ \A d \in Challenges : Exists(d)' <=> Exists(d)
           /\ \A d \in Challenges : /\ ch'[d].status = ch[d].status
                                    /\ ch'[d].owner = ch[d].owner
                                    /\ ch'[d].takenDown = ch[d].takenDown
           /\ req' = req /\ bank' = bank /\ overlapped' = overlapped
           /\ stale \subseteq stale'
           /\ \A d \in Challenges \ {c} : ch'[d] = ch[d] /\ ai'[d] = ai[d]
           /\ c \in stale' \/ ch'[c].sound = ch[c].sound \/ ch[c].status = "DRAFT"
           /\ \/ ch'[c].refunded = ch[c].refunded /\ tokens' = tokens
              \/ aiRefunds(c)
<1> USE DEF TypeOK
<1>0. ch[c] \in Row
  BY DEF processAiChallengeBackground, aiWrites, aiTells, aiFails, aiRefunds, aiGivesUp,
         PresentInv, Exists, NoChallenge
<1>1. ASSUME NEW sections \in Contents, aiWrites(c, sections)
      PROVE /\ ch'[c].status = ch[c].status /\ ch'[c].owner = ch[c].owner
            /\ ch'[c].takenDown = ch[c].takenDown /\ ch'[c].refunded = ch[c].refunded
            /\ \A d \in Challenges \ {c} : ch'[d] = ch[d]
            /\ c \in stale' \/ ch'[c].sound = ch[c].sound \/ ch[c].status = "DRAFT"
  BY <1>0, <1>1 DEF aiWrites, Row
<1>2. CASE \E sections \in Contents : aiWrites(c, sections)
  BY <1>0, <1>1, <1>2 DEF aiWrites, Exists
<1>3. CASE aiTells(c) \/ aiFails(c) \/ aiGivesUp(c)
  BY <1>3 DEF aiTells, aiFails, aiGivesUp, Exists
<1>4. CASE aiRefunds(c)
  BY <1>0, <1>4 DEF aiRefunds, Exists, Row
<1> QED BY <1>2, <1>3, <1>4 DEF processAiChallengeBackground

\* What the three requests that write one column do to the row.
LEMMA ClosingStep ==
    ASSUME TypeOK, PresentInv, NEW r \in Reqs,
           archiveChallenge(r) \/ takedownChallenge(r) \/ restoreChallenge(r)
    PROVE  /\ \A c \in Challenges : /\ Exists(c)' <=> Exists(c)
                                    /\ ch'[c].owner = ch[c].owner
                                    /\ ch'[c].sound = ch[c].sound
                                    /\ ch'[c].refunded = ch[c].refunded
                                    /\ ch'[c].status \in {ch[c].status, "CLOSED"}
                                    /\ \/ ch'[c].takenDown = ch[c].takenDown
                                       \/ ch'[c].status = "CLOSED" \/ ~ch'[c].takenDown
           /\ req' = [req EXCEPT ![r] = Free]
           /\ UNCHANGED <<bank, tokens, ai, stale, overlapped>>
<1> USE DEF TypeOK
<1> DEFINE c == req[r].c
<1>1. c \in Challenges /\ ch[c] \in Row
  <2>1. req[r] \in Closing
    BY DEF archiveChallenge, takedownChallenge, restoreChallenge, Free, Creation, Edit, Writing
  <2> QED BY <2>1 DEF Closing, PresentInv, Exists, NoChallenge
<1>2. CASE archiveChallenge(r)
  BY <1>1, <1>2 DEF archiveChallenge, End, Exists, Row
<1>3. CASE takedownChallenge(r)
  BY <1>1, <1>3 DEF takedownChallenge, End, Exists, Row
<1>4. CASE restoreChallenge(r)
  BY <1>1, <1>4 DEF restoreChallenge, End, Exists, Row
<1> QED BY <1>2, <1>3, <1>4

\* What a save does to the row; "row = seen" is what a later save, or a takedown, breaks.
LEMMA SaveStep ==
    ASSUME TypeOK, PresentInv, NEW r \in Reqs, updateCommit(r)
    PROVE  LET c == req[r].c
               row == ch[c]
           IN  /\ c \in Challenges /\ row \in Row /\ req[r] \in Writing
               /\ \A d \in Challenges \ {c} : ch'[d] = ch[d]
               /\ ch'[c].owner = row.owner /\ ch'[c].refunded = row.refunded
               /\ ch'[c].takenDown = row.takenDown /\ ch'[c].status # "none"
               /\ ch'[c].status = IF req[r].status = "keep" THEN row.status ELSE req[r].status
               /\ ch'[c].sound = IF req[r].sections = "keep" THEN row.sound
                                 ELSE req[r].sections = "good"
               /\ stale \subseteq stale'
               /\ c \in stale' \/ row = req[r].seen
               /\ req' = [req EXCEPT ![r] = Free] /\ UNCHANGED <<tokens, ai>>
<1> USE DEF TypeOK
<1> DEFINE c == req[r].c
           row == ch[c]
<1>1. req[r] \in Writing
  BY DEF updateCommit, Free, Creation, Edit, Closing
<1>2. c \in Challenges /\ row \in Row
  BY <1>1 DEF updateCommit, Writing, PresentInv, Exists, NoChallenge
<1>3. \A d \in Challenges \ {c} : ch'[d] = ch[d]
  BY <1>2 DEF updateCommit
<1>4. /\ ch'[c].owner = row.owner /\ ch'[c].refunded = row.refunded
      /\ ch'[c].takenDown = row.takenDown
      /\ ch'[c].status = IF req[r].status = "keep" THEN row.status ELSE req[r].status
      /\ ch'[c].sound = IF req[r].sections = "keep" THEN row.sound ELSE req[r].sections = "good"
  BY <1>2 DEF updateCommit, Row
<1>5. ch'[c].status # "none"
  <2>1. req[r].status \in Sent /\ row.status \in {"DRAFT", "PUBLISHED", "CLOSED"}
    BY <1>1, <1>2 DEF Writing, Row
  <2> QED BY <1>4, <2>1 DEF Sent
<1>6. c \in stale' \/ row = req[r].seen
  BY DEF updateCommit
<1>7. stale \subseteq stale' /\ req' = [req EXCEPT ![r] = Free] /\ UNCHANGED <<tokens, ai>>
  BY DEF updateCommit, End
<1> QED BY <1>1, <1>2, <1>3, <1>4, <1>5, <1>6, <1>7

\* What a creation adds when it commits.
LEMMA CreationStep ==
    ASSUME TypeOK, PresentInv, NEW r \in Reqs, createCommit(r)
    PROVE  LET q == req[r]
           IN  /\ q \in Creation /\ r \in Creating
               /\ \A d \in Challenges \ {q.c} : ch'[d] = ch[d] /\ ai'[d] = ai[d]
               /\ ch'[q.c].status = q.status /\ ch'[q.c].owner = q.owner
               /\ ~ch'[q.c].takenDown /\ ~ch'[q.c].refunded
               /\ ch'[q.c].sound = (q.sections = "good")
               /\ \A t \in Talents :
                    tokens'[t] = IF t = q.owner THEN tokens[t] - Cost ELSE tokens[t]
               /\ req' = [req EXCEPT ![r] = Free] /\ stale' = stale
<1> USE DEF TypeOK
<1>1. req[r] \in Creation /\ r \in Creating
  BY DEF createCommit, Creating, Free, Edit, Writing, Closing
<1>2. /\ \A d \in Challenges \ {req[r].c} : ch'[d] = ch[d] /\ ai'[d] = ai[d]
      /\ ch'[req[r].c].status = req[r].status /\ ch'[req[r].c].owner = req[r].owner
      /\ ~ch'[req[r].c].takenDown /\ ~ch'[req[r].c].refunded
      /\ ch'[req[r].c].sound = (req[r].sections = "good")
  BY <1>1 DEF createCommit, Creation
<1>3. \A t \in Talents : tokens'[t] = IF t = req[r].owner THEN tokens[t] - Cost ELSE tokens[t]
  BY DEF createCommit
<1>4. req' = [req EXCEPT ![r] = Free] /\ stale' = stale
  BY DEF createCommit, End
<1> QED BY <1>1, <1>2, <1>3, <1>4

\* What a request that begins has read.
LEMMA BeginStep ==
    ASSUME TypeOK, NEW r \in Reqs, NEW c \in Challenges, Request(r, c)
    PROVE  /\ UNCHANGED <<ch, bank, tokens, ai, stale, overlapped>>
           /\ req[r].at = "free" /\ \A p \in Reqs \ {r} : req'[p] = req[p]
           /\ \/ /\ req'[r] \in Creation /\ req'[r].c = c /\ ~Exists(c)
                 /\ \A q \in Creating : req[q].c # c
                 /\ Admitted(req'[r].owner)
                 /\ req'[r].status = "PUBLISHED" => req'[r].sections = "good"
              \/ /\ req'[r] \in Edit /\ req'[r].c = c /\ req'[r].seen = ch[c]
                 /\ ch[c].status = "DRAFT"
                 /\ req'[r].status = "PUBLISHED" =>
                      IF req'[r].sections = "keep" THEN ch[c].sound ELSE req'[r].sections = "good"
              \/ req'[r] \in Closing
<1> USE DEF TypeOK
<1>1. ASSUME NEW o \in Owners, NEW status \in {"DRAFT", "PUBLISHED"}, NEW sections \in Contents,
             createRead(r, c, o, status, sections)
      PROVE  /\ req'[r] \in Creation /\ req'[r].c = c /\ ~Exists(c)
             /\ \A q \in Creating : req[q].c # c
             /\ Admitted(req'[r].owner)
             /\ req'[r].status = "PUBLISHED" => req'[r].sections = "good"
  BY <1>1 DEF createRead, Begin, Creation
<1>2. ASSUME NEW o \in Owners, generateAi(r, c, o)
      PROVE  /\ req'[r] \in Creation /\ req'[r].c = c /\ ~Exists(c)
             /\ \A q \in Creating : req[q].c # c
             /\ Admitted(req'[r].owner)
             /\ req'[r].status = "PUBLISHED" => req'[r].sections = "good"
  BY <1>2 DEF generateAi, Begin, Creation, Contents
<1>3. ASSUME NEW status \in Sent, NEW sections \in Contents \cup {"keep"},
             updateRead(r, c, status, sections)
      PROVE  /\ req'[r] \in Edit /\ req'[r].c = c /\ req'[r].seen = ch[c]
             /\ ch[c].status = "DRAFT"
             /\ req'[r].status = "PUBLISHED" =>
                  IF req'[r].sections = "keep" THEN ch[c].sound ELSE req'[r].sections = "good"
  <2>1. ch[c] \in Row /\ ch[c].status = "DRAFT"
    BY <1>3 DEF updateRead, Editable, Exists, NoChallenge, Row
  <2>2. req'[r] = [at |-> "editing", c |-> c, seen |-> ch[c], status |-> status,
                   sections |-> sections]
    BY <1>3 DEF updateRead, Begin
  <2>3. status = "PUBLISHED" => IF sections = "keep" THEN ch[c].sound ELSE sections = "good"
    BY <1>3 DEF updateRead, Consistent
  <2> QED BY <2>1, <2>2, <2>3 DEF Edit
<1>4. CASE archiveRead(r, c) \/ takedownRead(r, c) \/ restoreRead(r, c)
  BY <1>4 DEF archiveRead, takedownRead, restoreRead, Begin, Closing
<1>5. /\ UNCHANGED <<ch, bank, tokens, ai, stale, overlapped>>
      /\ req[r].at = "free" /\ \A p \in Reqs \ {r} : req'[p] = req[p]
  BY DEF Request, createRead, generateAi, updateRead, archiveRead, takedownRead, restoreRead,
         Begin
<1> QED BY <1>1, <1>2, <1>3, <1>4, <1>5 DEF Request, Sent

-----------------------------------------------------------------------------
\* A creation has its case and its owner to itself, and a save has read a draft.
THEOREM RequestsCorrect == Spec => []RequestInv
<1>1. Init => RequestInv
  BY DEF Init, RequestInv, Free, Saves
<1>2. TypeOK /\ PresentInv /\ RequestInv /\ [Next]_vars => RequestInv'
  <2> SUFFICES ASSUME TypeOK, PresentInv, RequestInv, [Next]_vars PROVE RequestInv'
    OBVIOUS
  <2>a. ASSUME \A p \in Reqs : req'[p] = req[p] \/ req'[p].at = "free",
               \A c \in Challenges : Exists(c)' => Exists(c),
               \A c \in Challenges : ai'[c] \in {"asking", "telling", "failed"} => ~ch'[c].refunded
        PROVE  RequestInv'
    <3>1. \A p \in Reqs : req'[p].at = "creating" => req[p].c \in Challenges
      BY <2>a DEF TypeOK, Free, Creation, Edit, Writing, Closing
    <3>2. \A p \in Reqs : req'[p].at # "free" => req'[p] = req[p]
      BY <2>a
    <3> QED BY <2>a, <3>1, <3>2 DEF RequestInv, Creating, Exists, Saves
  <2>1. ASSUME NEW r \in Reqs, NEW c \in Challenges, Request(r, c) PROVE RequestInv'
    <3>1. /\ UNCHANGED <<ch, ai>> /\ \A p \in Reqs \ {r} : req'[p] = req[p]
          /\ req[r].at = "free"
      BY <2>1, BeginStep
    <3>2. CASE req'[r] \in Closing
      BY <3>1, <3>2 DEF RequestInv, Creating, Exists, Saves, Closing
    <3>3. CASE req'[r] \in Edit
      BY <2>1, <3>1, <3>3, BeginStep
         DEF RequestInv, Creating, Exists, Saves, Closing, Edit, Creation
    <3>4. CASE req'[r] \in Creation
      BY <2>1, <3>1, <3>4, BeginStep
         DEF RequestInv, Creating, Exists, Saves, Closing, Edit, Creation, Admitted
    <3> QED BY <2>1, <3>2, <3>3, <3>4, BeginStep
  <2>2. ASSUME NEW r \in Reqs, createCommit(r) PROVE RequestInv'
    <3> DEFINE c == req[r].c
    <3>1. /\ req[r] \in Creation /\ r \in Creating /\ req' = [req EXCEPT ![r] = Free]
          /\ ~ch'[c].refunded
          /\ \A d \in Challenges \ {c} : ch'[d] = ch[d] /\ ai'[d] = ai[d]
      BY <2>2, CreationStep
    <3>2. \A p \in Reqs : req'[p] = IF p = r THEN Free ELSE req[p]
      BY <3>1 DEF TypeOK
    <3>3. ASSUME NEW p \in Reqs \ {r}, req[p].at = "creating"
          PROVE  req[p].c \in Challenges \ {c}
      <4>1. req[p].c # c
        BY <3>1, <3>3 DEF RequestInv, Creating
      <4>2. req[p].c \in Challenges
        BY <3>3 DEF TypeOK, Free, Creation, Edit, Writing, Closing
      <4> QED BY <4>1, <4>2
    <3>4. \A d \in Challenges : ai'[d] \in {"asking", "telling", "failed"} => ~ch'[d].refunded
      BY <3>1 DEF RequestInv
    <3> HIDE DEF c
    <3>5. ASSUME NEW p \in Reqs, req'[p].at = "creating" PROVE ~(ch'[req'[p].c].status # "none")
      <4>1. p # r /\ req'[p] = req[p]
        BY <3>2, <3>5 DEF Free
      <4>2. ~Exists(req[p].c)
        BY <4>1, <3>5 DEF RequestInv
      <4> QED BY <3>1, <3>3, <3>5, <4>1, <4>2 DEF Exists
    <3> QED BY <3>2, <3>4, <3>5 DEF RequestInv, Creating, Exists, Saves, Free
  <2>3. ASSUME NEW r \in Reqs, updateLock(r) PROVE RequestInv'
    BY <2>3 DEF updateLock, RequestInv, Creating, Exists, Saves, TypeOK
  <2>4. ASSUME NEW r \in Reqs, updateCommit(r) PROVE RequestInv'
    <3>1. /\ req[r].c \in Challenges /\ ch[req[r].c] \in Row /\ req' = [req EXCEPT ![r] = Free]
          /\ \A d \in Challenges \ {req[r].c} : ch'[d] = ch[d]
          /\ ch'[req[r].c].refunded = ch[req[r].c].refunded /\ ai' = ai
      BY <2>4, SaveStep
    <3>2. \A p \in Reqs : req'[p] = req[p] \/ req'[p].at = "free"
      BY <3>1 DEF Free, TypeOK
    <3>3. \A c \in Challenges : Exists(c)' => Exists(c)
      BY <3>1 DEF Exists, Row
    <3>4. \A c \in Challenges : ai'[c] \in {"asking", "telling", "failed"} => ~ch'[c].refunded
      BY <3>1 DEF RequestInv
    <3> QED BY <2>a, <3>2, <3>3, <3>4
  <2>5. ASSUME NEW r \in Reqs, updateRollsBack(r) PROVE RequestInv'
    BY <2>5, <2>a DEF updateRollsBack, End, Exists, Free, RequestInv, TypeOK
  <2>6. ASSUME NEW r \in Reqs, archiveChallenge(r) \/ takedownChallenge(r) \/ restoreChallenge(r)
        PROVE RequestInv'
    BY <2>6, <2>a, ClosingStep DEF Free, RequestInv, TypeOK
  <2>7. ASSUME NEW c \in Challenges, processAiChallengeBackground(c) PROVE RequestInv'
    <3>1. ai'[c] \in {"asking", "telling", "failed"} =>
            ai[c] \in {"asking", "telling", "failed"} /\ ~aiRefunds(c)
      BY <2>7 DEF processAiChallengeBackground, aiWrites, aiTells, aiFails, aiRefunds,
                  aiGivesUp, TypeOK
    <3>2. \A d \in Challenges : ai'[d] \in {"asking", "telling", "failed"} => ~ch'[d].refunded
      BY <2>7, <3>1, GenerationStep DEF RequestInv
    <3> QED BY <2>7, <2>a, <3>2, GenerationStep
  <2>8. CASE restart
    BY <2>8, <2>a DEF restart, Free, Exists
  <2>9. CASE UNCHANGED vars
    BY <2>9 DEF vars, RequestInv, Creating, Exists, Saves
  <2> QED BY <2>1, <2>2, <2>3, <2>4, <2>5, <2>6, <2>7, <2>8, <2>9, Steps DEF Answer
<1> QED BY <1>1, <1>2, TypeCorrect, PTL DEF Spec

-----------------------------------------------------------------------------
(* The quota.                                                              *)

LEMMA CountedFinite ==
    ASSUME NEW o PROVE IsFiniteSet(Counted(o)) /\ Cardinality(Counted(o)) \in Nat
<1>1. Counted(o) \in SUBSET Challenges
  BY DEF Counted, Active, Owned
<1> QED BY <1>1, ChallengesAssumption, FS_Subset, FS_CardinalityType

\* What counts against nobody's quota before does not count after.
LEMMA QuotaStep ==
    ASSUME TypeOK, QuotaInv,
           \A o \in Owners : Counted(o)' \subseteq Counted(o),
           \A r \in Reqs : req'[r].at = "creating" => req'[r] = req[r]
    PROVE  QuotaInv'
<1>1. ASSUME NEW o \in Owners PROVE /\ Cardinality(Counted(o)') <= Cardinality(Counted(o))
                                    /\ Cardinality(Counted(o)') \in Nat
  BY CountedFinite, FS_Subset, FS_CardinalityType
<1>2. ASSUME NEW o \in Owners PROVE /\ Cardinality(Counted(o)) \in Nat /\ Limit[o] \in Nat
  BY CountedFinite, OwnersAssumption
<1>3. QuotaKept'
  <2>1. \A o \in Owners : Cardinality(Counted(o)) <= Limit[o]
    BY DEF QuotaInv, QuotaKept, Counted
  <2>2. \A o \in Owners : Cardinality(Counted(o)') <= Limit[o]
    BY <1>1, <1>2, <2>1
  <2> QED BY <2>2 DEF QuotaKept, Counted
<1>4. ASSUME NEW o \in Owners, NEW r \in Creating', req'[r].owner = o
      PROVE Cardinality(Counted(o)') < Limit[o]
  <2>1. r \in Creating /\ req[r].owner = o
    BY <1>4 DEF Creating
  <2>2. Cardinality(Counted(o)) < Limit[o]
    BY <2>1 DEF QuotaInv
  <2> QED BY <1>1, <1>2, <2>2
<1> QED BY <1>3, <1>4 DEF QuotaInv

\* The room a creation has counted is still there when it commits.
THEOREM QuotaCorrect == Spec => []QuotaInv
<1>1. Init => QuotaInv
  BY DEF Init, QuotaInv, QuotaKept, Creating, Free
<1>2. TypeOK /\ PresentInv /\ RequestInv /\ QuotaInv /\ [Next]_vars => QuotaInv'
  <2> SUFFICES ASSUME TypeOK, PresentInv, RequestInv, QuotaInv, [Next]_vars PROVE QuotaInv'
    OBVIOUS
  <2>1. ASSUME NEW r \in Reqs, NEW c \in Challenges, Request(r, c) PROVE QuotaInv'
    <3>1. /\ UNCHANGED <<ch, stale>> /\ \A p \in Reqs \ {r} : req'[p] = req[p]
      BY <2>1, BeginStep
    <3>2. \A o \in Owners : Counted(o)' = Counted(o)
      BY <3>1 DEF Counted, Active, Owned, Exists
    <3>3. CASE req'[r].at # "creating"
      BY <3>1, <3>2, <3>3, QuotaStep
    <3>4. CASE req'[r].at = "creating"
      <4> DEFINE p == req'[r].owner
      <4>1. Cardinality(Active(p)) < Limit[p] /\ p \in Owners
        BY <2>1, <3>4, BeginStep DEF Edit, Closing, Admitted, Creation
      <4>2. Cardinality(Counted(p)) < Limit[p]
        <5> HIDE DEF p
        <5>1. Counted(p) \in SUBSET Active(p) /\ Active(p) \in SUBSET Challenges
          BY DEF Counted, Active, Owned
        <5>2. IsFiniteSet(Active(p)) /\ Cardinality(Active(p)) \in Nat
          BY <5>1, ChallengesAssumption, FS_Subset, FS_CardinalityType
        <5>3. Cardinality(Counted(p)) <= Cardinality(Active(p))
          BY <5>1, <5>2, FS_Subset
        <5>4. Limit[p] \in Nat
          BY <4>1, OwnersAssumption
        <5> QED BY <4>1, <5>2, <5>3, <5>4, CountedFinite
      <4>3. ASSUME NEW o \in Owners, NEW q \in Creating', req'[q].owner = o
            PROVE  Cardinality(Counted(o)) < Limit[o]
        BY <3>1, <4>2, <4>3 DEF Creating, QuotaInv
      <4>4. \A o \in Owners : Cardinality(Counted(o)') = Cardinality(Counted(o))
        BY <3>2
      <4>5. QuotaKept'
        BY <3>1 DEF QuotaInv, QuotaKept, Active, Owned, Exists
      <4> QED BY <4>3, <4>4, <4>5 DEF QuotaInv
    <3> QED BY <3>3, <3>4
  <2>2. ASSUME NEW r \in Reqs, createCommit(r) PROVE QuotaInv'
    <3>0. req[r].c \in Challenges /\ req[r].owner \in Owners
      BY <2>2, CreationStep DEF Creation
    <3> PICK c \in Challenges, p \in Owners : c = req[r].c /\ p = req[r].owner
      BY <3>0
    <3>1. /\ r \in Creating /\ req' = [req EXCEPT ![r] = Free]
          /\ ch'[c].owner = p /\ stale' = stale
          /\ \A d \in Challenges \ {c} : ch'[d] = ch[d]
      BY <2>2, CreationStep
    <3>2. ~Exists(c)
      BY <3>1 DEF RequestInv, Creating
    <3>3. \A q \in Reqs : req'[q].at = "creating" => q # r /\ req'[q] = req[q] /\ req[q].owner # p
      BY <3>1 DEF Free, TypeOK, RequestInv, Creating
    <3>4. Cardinality(Counted(p)) < Limit[p]
      BY <3>1 DEF QuotaInv
    <3>5. ASSUME NEW o \in Owners \ {p} PROVE Counted(o)' \subseteq Counted(o)
      BY <3>1, <3>2 DEF Counted, Active, Owned, Exists
    <3>6. Counted(p)' \subseteq Counted(p) \cup {c}
      BY <3>1, <3>2 DEF Counted, Active, Owned, Exists
    <3>7. ASSUME NEW o \in Owners
          PROVE  /\ Cardinality(Counted(o)') <= Limit[o]
                 /\ o # p => Cardinality(Counted(o)') <= Cardinality(Counted(o))
      <4>1. Limit[o] \in Nat /\ IsFiniteSet(Counted(o)) /\ Cardinality(Counted(o)) \in Nat
        BY CountedFinite, OwnersAssumption
      <4>2. CASE o = p
        <5>1. /\ IsFiniteSet(Counted(p) \cup {c})
              /\ Cardinality(Counted(p) \cup {c}) <= Cardinality(Counted(p)) + 1
          <6>1. IsFiniteSet(Counted(p)) /\ Cardinality(Counted(p)) \in Nat
            BY <4>1, <4>2
          <6>2. /\ IsFiniteSet(Counted(p) \cup {c})
                /\ Cardinality(Counted(p) \cup {c}) =
                     IF c \in Counted(p) THEN Cardinality(Counted(p)) ELSE Cardinality(Counted(p)) + 1
            BY <6>1, FS_AddElement
          <6> QED BY <6>1, <6>2
        <5>2. /\ Cardinality(Counted(p)') <= Cardinality(Counted(p) \cup {c})
              /\ IsFiniteSet(Counted(p)')
          BY <5>1, <3>6, FS_Subset
        <5>3. Cardinality(Counted(p)') \in Nat /\ Cardinality(Counted(p) \cup {c}) \in Nat
          BY <5>1, <5>2, FS_CardinalityType
        <5> QED BY <3>4, <4>1, <4>2, <5>1, <5>2, <5>3
      <4>3. CASE o # p
        <5>1. Counted(o)' \subseteq Counted(o)
          BY <3>5, <4>3
        <5>2. Cardinality(Counted(o)') <= Cardinality(Counted(o)) /\ IsFiniteSet(Counted(o)')
          BY <4>1, <5>1, FS_Subset
        <5>3. Cardinality(Counted(o)') \in Nat
          BY <5>2, FS_CardinalityType
        <5>4. Cardinality(Counted(o)) <= Limit[o]
          BY DEF QuotaInv, QuotaKept, Counted
        <5> QED BY <4>1, <4>3, <5>2, <5>3, <5>4
      <4> QED BY <4>2, <4>3
    <3>8. ASSUME NEW o \in Owners, NEW q \in Creating', req'[q].owner = o
          PROVE  Cardinality(Counted(o)') < Limit[o]
      <4>1. o # p /\ q \in Creating /\ req[q].owner = o
        BY <3>3, <3>8 DEF Creating
      <4>2. Cardinality(Counted(o)) < Limit[o]
        BY <4>1 DEF QuotaInv
      <4>3. /\ IsFiniteSet(Counted(o)) /\ Cardinality(Counted(o)) \in Nat /\ Limit[o] \in Nat
            /\ Counted(o)' \in SUBSET Counted(o)
        BY <3>5, <4>1, CountedFinite, OwnersAssumption
      <4>4. Cardinality(Counted(o)') \in Nat
        BY <4>3, FS_Subset, FS_CardinalityType
      <4> QED BY <3>7, <4>1, <4>2, <4>3, <4>4
    <3>9. QuotaKept'
      BY <3>7 DEF QuotaKept, Counted
    <3> QED BY <3>8, <3>9 DEF QuotaInv
  <2>3. ASSUME NEW r \in Reqs, updateCommit(r) PROVE QuotaInv'
    <3>1. \A o \in Owners : Counted(o)' \subseteq Counted(o)
      <4> DEFINE c == req[r].c
      <4>1. /\ c \in Challenges /\ ch[c] \in Row
            /\ \A d \in Challenges \ {c} : ch'[d] = ch[d]
            /\ ch'[c].owner = ch[c].owner
            /\ stale \subseteq stale'
            /\ c \in stale' \/ ch[c] = req[r].seen
        BY <2>3, SaveStep
      <4>2. req[r].seen.status = "DRAFT"
        BY <2>3 DEF updateCommit, RequestInv, Saves
      <4> HIDE DEF c
      <4>3. c \in stale' \/ ch[c].status = "DRAFT"
        BY <4>1, <4>2
      <4> QED BY <4>1, <4>3 DEF Counted, Active, Owned, Exists
    <3> QED BY <2>3, <3>1, SaveStep, QuotaStep DEF Free, TypeOK
  <2>4. ASSUME NEW r \in Reqs, updateLock(r) \/ updateRollsBack(r) PROVE QuotaInv'
    <3>1. \A o \in Owners : Counted(o)' = Counted(o)
      BY <2>4 DEF updateLock, updateRollsBack, Counted, Active, Owned, Exists
    <3>2. \A p \in Reqs : req'[p].at = "creating" => req'[p] = req[p]
      BY <2>4 DEF updateLock, updateRollsBack, End, Free, TypeOK
    <3> QED BY <3>1, <3>2, QuotaStep
  <2>5. ASSUME NEW r \in Reqs, archiveChallenge(r) \/ takedownChallenge(r) \/ restoreChallenge(r)
        PROVE QuotaInv'
    <3>1. \A o \in Owners : Counted(o)' \subseteq Counted(o)
      BY <2>5, ClosingStep DEF Counted, Active, Owned, Exists
    <3> QED BY <2>5, <3>1, ClosingStep, QuotaStep DEF Free, TypeOK
  <2>6. ASSUME NEW c \in Challenges, processAiChallengeBackground(c) PROVE QuotaInv'
    <3>1. \A o \in Owners : Counted(o)' \subseteq Counted(o)
      BY <2>6, GenerationStep DEF Counted, Active, Owned, Exists
    <3> QED BY <2>6, <3>1, GenerationStep, QuotaStep
  <2>7. CASE restart \/ UNCHANGED vars
    <3>1. \A o \in Owners : Counted(o)' = Counted(o)
      BY <2>7 DEF restart, vars, Counted, Active, Owned, Exists
    <3> QED BY <2>7, <3>1, QuotaStep DEF restart, vars, Free
  <2> QED BY <2>1, <2>2, <2>3, <2>4, <2>5, <2>6, <2>7, Steps DEF Answer
<1> QED BY <1>1, <1>2, TypeCorrect, RequestsCorrect, PTL DEF Spec

\* No owner has more drafts and published cases than allowed, but for stale saves.
THEOREM QuotaSafe == Spec => []QuotaKept
<1>1. QuotaInv => QuotaKept
  BY DEF QuotaInv
<1> QED BY <1>1, QuotaCorrect, PTL

-----------------------------------------------------------------------------
(* What is open.                                                           *)

\* Only a draft that passes the checks becomes public, and a draft is not taken down.
THEOREM OpenCorrect == Spec => []OpenInv
<1>1. Init => OpenInv
  BY DEF Init, OpenInv, OpenIsSound, Draft, NoChallenge
<1>2. TypeOK /\ PresentInv /\ RequestInv /\ OpenInv /\ [Next]_vars => OpenInv'
  <2> SUFFICES ASSUME TypeOK, PresentInv, RequestInv, OpenInv, [Next]_vars PROVE OpenInv'
    OBVIOUS
  <2>a. ASSUME UNCHANGED <<ch, stale>> PROVE OpenInv'
    BY <2>a DEF OpenInv, OpenIsSound
  <2>1. ASSUME NEW r \in Reqs, NEW c \in Challenges, Request(r, c) PROVE OpenInv'
    BY <2>1, <2>a, BeginStep
  <2>2. ASSUME NEW r \in Reqs, createCommit(r) PROVE OpenInv'
    <3>1. req[r].c \in Challenges /\ (req[r].status = "PUBLISHED" => req[r].sections = "good")
      BY <2>2, CreationStep DEF RequestInv, Creating, Creation
    <3> QED BY <2>2, <3>1, CreationStep DEF OpenInv, OpenIsSound
  <2>3. ASSUME NEW r \in Reqs, updateCommit(r) PROVE OpenInv'
    <3> DEFINE c == req[r].c
    <3>1. ASSUME c \notin stale'
          PROVE  /\ ~ch'[c].takenDown
                 /\ ch'[c].status = "PUBLISHED" => ch'[c].sound
      <4>1. req[r].seen.status = "DRAFT"
        BY <2>3 DEF updateCommit, RequestInv, Saves
      <4>2. /\ ch[c] = req[r].seen /\ c \in Challenges \ stale
            /\ ch'[c].takenDown = ch[c].takenDown
            /\ ch'[c].status = IF req[r].status = "keep" THEN ch[c].status ELSE req[r].status
            /\ ch'[c].sound = IF req[r].sections = "keep" THEN ch[c].sound
                              ELSE req[r].sections = "good"
        BY <2>3, <3>1, SaveStep
      <4>3. ~ch[c].takenDown
        BY <4>1, <4>2 DEF OpenInv
      <4>4. req[r].status = "PUBLISHED" =>
              IF req[r].sections = "keep" THEN req[r].seen.sound ELSE req[r].sections = "good"
        BY <2>3 DEF updateCommit, RequestInv, Saves
      <4> QED BY <4>1, <4>2, <4>3, <4>4
    <3>2. /\ \A d \in Challenges \ {c} : ch'[d] = ch[d]
          /\ stale \subseteq stale'
      BY <2>3, SaveStep
    <3> HIDE DEF c
    <3> QED BY <3>1, <3>2 DEF OpenInv, OpenIsSound
  <2>4. ASSUME NEW r \in Reqs, updateLock(r) \/ updateRollsBack(r) PROVE OpenInv'
    BY <2>4, <2>a DEF updateLock, updateRollsBack
  <2>5. ASSUME NEW r \in Reqs, archiveChallenge(r) \/ takedownChallenge(r) \/ restoreChallenge(r)
        PROVE OpenInv'
    BY <2>5, ClosingStep DEF OpenInv, OpenIsSound
  <2>6. ASSUME NEW c \in Challenges, processAiChallengeBackground(c) PROVE OpenInv'
    BY <2>6, GenerationStep DEF OpenInv, OpenIsSound
  <2>7. CASE restart \/ UNCHANGED vars
    BY <2>7, <2>a DEF restart, vars
  <2> QED BY <2>1, <2>2, <2>3, <2>4, <2>5, <2>6, <2>7, Steps DEF Answer
<1> QED BY <1>1, <1>2, TypeCorrect, RequestsCorrect, PTL DEF Spec

\* Candidates see only cases that pass the checks of publication and are not taken down.
THEOREM OpenSafe == Spec => []OpenIsSound
<1>1. OpenInv => OpenIsSound
  BY DEF OpenInv
<1> QED BY <1>1, OpenCorrect, PTL

-----------------------------------------------------------------------------
(* Tokens and the bank.                                                    *)

Paid(o) == {c \in Owned(o) : ~ch[c].refunded}

LEMMA PaidFinite ==
    ASSUME NEW o PROVE IsFiniteSet(Paid(o)) /\ Cardinality(Paid(o)) \in Nat
<1>1. Paid(o) \in SUBSET Challenges
  BY DEF Paid, Owned
<1> QED BY <1>1, ChallengesAssumption, FS_Subset, FS_CardinalityType

\* A talent paid once for each of the cases, and got back a failed generation once: what
\* is refunded was owned and not refunded.
THEOREM TokensSafe == Spec => []TokensAccounted
<1>1. Init => TokensAccounted
  <2> SUFFICES ASSUME Init, NEW t \in Talents
               PROVE  tokens[t] = Start - Cost * Cardinality(Paid(t))
    BY DEF TokensAccounted, Paid
  <2>1. Paid(t) = Owned(t)
    BY DEF Init, Paid, Owned, Exists, Draft, NoChallenge
  <2> QED BY <2>1 DEF Init
<1>2. TypeOK /\ PresentInv /\ RequestInv /\ TokensAccounted /\ [Next]_vars => TokensAccounted'
  <2> SUFFICES ASSUME TypeOK, PresentInv, RequestInv, TokensAccounted, [Next]_vars,
                      NEW t \in Talents
               PROVE  tokens'[t] = Start - Cost * Cardinality(Paid(t)')
    BY DEF TokensAccounted, Paid
  <2>0. /\ tokens[t] = Start - Cost * Cardinality(Paid(t)) /\ t \in Owners
        /\ Cardinality(Paid(t)) \in Nat /\ IsFiniteSet(Paid(t)) /\ Start \in Nat /\ Cost \in Nat
    BY PaidFinite, OwnersOf, NumbersAssumption DEF TokensAccounted, Paid
  <2>a. ASSUME tokens'[t] = tokens[t], Paid(t)' = Paid(t)
        PROVE  tokens'[t] = Start - Cost * Cardinality(Paid(t)')
    BY <2>0, <2>a
  <2>b. ASSUME UNCHANGED <<ch, tokens>>
        PROVE  tokens'[t] = Start - Cost * Cardinality(Paid(t)')
    BY <2>a, <2>b DEF Paid, Owned, Exists
  <2> DEFINE Goal == tokens'[t] = Start - Cost * Cardinality(Paid(t)')
  <2>1. ASSUME NEW r \in Reqs, NEW c \in Challenges, Request(r, c) PROVE Goal
    BY <2>1, <2>b, BeginStep
  <2>2. ASSUME NEW r \in Reqs, createCommit(r) PROVE Goal
    <3>0. req[r].c \in Challenges /\ req[r].owner \in Owners
      BY <2>2, CreationStep DEF Creation
    <3> PICK c \in Challenges, p \in Owners : c = req[r].c /\ p = req[r].owner
      BY <3>0
    <3>1. /\ r \in Creating /\ ch'[c].owner = p /\ ~ch'[c].refunded
          /\ \A d \in Challenges \ {c} : ch'[d] = ch[d]
          /\ tokens'[t] = IF t = p THEN tokens[t] - Cost ELSE tokens[t]
          /\ ch'[c].status = req[r].status /\ req[r].status # "none"
      BY <2>2, CreationStep DEF Creation
    <3>2. ~Exists(c)
      BY <3>1 DEF RequestInv, Creating
    <3>3. CASE t = p
      <4>1. Paid(t)' = Paid(t) \cup {c} /\ c \notin Paid(t)
        BY <3>1, <3>2, <3>3 DEF Paid, Owned, Exists
      <4>2. Cardinality(Paid(t)') = Cardinality(Paid(t)) + 1
        BY <2>0, <4>1, FS_AddElement
      <4> QED BY <2>0, <3>1, <3>3, <4>2
    <3>4. CASE t # p
      <4>1. Paid(t)' = Paid(t)
        BY <3>1, <3>2, <3>4 DEF Paid, Owned, Exists
      <4> QED BY <2>a, <3>1, <3>4, <4>1
    <3> QED BY <3>3, <3>4
  <2>3. ASSUME NEW r \in Reqs, updateCommit(r) PROVE Goal
    <3>1. Paid(t)' = Paid(t)
      <4>1. PICK c \in Challenges : c = req[r].c
        BY <2>3, SaveStep
      <4>2. /\ ch[c] \in Row /\ ch'[c].owner = ch[c].owner /\ ch'[c].refunded = ch[c].refunded
            /\ ch'[c].status # "none" /\ \A d \in Challenges \ {c} : ch'[d] = ch[d]
        BY <2>3, <4>1, SaveStep
      <4>3. ch[c].status # "none"
        BY <4>2 DEF Row
      <4> QED BY <4>2, <4>3 DEF Paid, Owned, Exists
    <3> QED BY <2>3, <2>a, <3>1, SaveStep
  <2>4. ASSUME NEW r \in Reqs, updateLock(r) \/ updateRollsBack(r) PROVE Goal
    BY <2>4, <2>b DEF updateLock, updateRollsBack
  <2>5. ASSUME NEW r \in Reqs, archiveChallenge(r) \/ takedownChallenge(r) \/ restoreChallenge(r)
        PROVE Goal
    <3>1. Paid(t)' = Paid(t)
      BY <2>5, ClosingStep DEF Paid, Owned, Exists
    <3> QED BY <2>5, <2>a, <3>1, ClosingStep
  <2>6. ASSUME NEW c \in Challenges, processAiChallengeBackground(c) PROVE Goal
    <3>1. \A d \in Challenges : /\ Exists(d)' <=> Exists(d)
                                /\ ch'[d].owner = ch[d].owner
                                /\ d # c => ch'[d] = ch[d]
      BY <2>6, GenerationStep
    <3>2. CASE ch'[c].refunded = ch[c].refunded /\ tokens' = tokens
      <4>1. Paid(t)' = Paid(t)
        BY <3>1, <3>2 DEF Paid, Owned, Exists
      <4> QED BY <2>a, <3>2, <4>1
    <3>3. CASE aiRefunds(c)
      <4>1. /\ ~ch[c].refunded /\ Exists(c) /\ ch'[c].refunded
            /\ tokens' = [tokens EXCEPT ![ch[c].owner] = @ + Cost]
        <5>1. ~ch[c].refunded /\ Exists(c)
          BY <3>3 DEF aiRefunds, RequestInv, PresentInv
        <5>2. ch[c] \in Row
          BY <5>1 DEF Exists, TypeOK, NoChallenge
        <5> QED BY <3>3, <5>1, <5>2 DEF aiRefunds, Row, TypeOK
      <4>2. CASE ch[c].owner = t
        <5>1. Paid(t)' = Paid(t) \ {c} /\ c \in Paid(t)
          BY <3>1, <4>1, <4>2 DEF Paid, Owned, Exists
        <5>2. Cardinality(Paid(t)') = Cardinality(Paid(t)) - 1
          BY <2>0, <5>1, FS_RemoveElement
        <5>3. tokens'[t] = tokens[t] + Cost
          BY <4>1, <4>2 DEF TypeOK
        <5> QED BY <2>0, <5>2, <5>3
      <4>3. CASE ch[c].owner # t
        <5>1. Paid(t)' = Paid(t)
          BY <3>1, <4>1, <4>3 DEF Paid, Owned, Exists
        <5> QED BY <2>a, <4>1, <4>3, <5>1 DEF TypeOK
      <4> QED BY <4>2, <4>3
    <3> QED BY <2>6, <3>2, <3>3, GenerationStep
  <2>7. CASE restart \/ UNCHANGED vars
    BY <2>7, <2>b DEF restart, vars
  <2> QED BY <2>1, <2>2, <2>3, <2>4, <2>5, <2>6, <2>7, Steps DEF Answer
<1> QED BY <1>1, <1>2, TypeCorrect, RequestsCorrect, PTL DEF Spec

\* A question has one row in the bank of its company, unless two publications overlapped.
THEOREM BankSafe == Spec => []BankHasNoTwins
<1>1. Init => BankHasNoTwins
  BY DEF Init, BankHasNoTwins
<1>2. TypeOK /\ PresentInv /\ BankHasNoTwins /\ [Next]_vars => BankHasNoTwins'
  <2> SUFFICES ASSUME TypeOK, PresentInv, BankHasNoTwins, [Next]_vars PROVE BankHasNoTwins'
    OBVIOUS
  <2>a. ASSUME UNCHANGED <<bank, overlapped>> PROVE BankHasNoTwins'
    BY <2>a DEF BankHasNoTwins
  <2>b. ASSUME NEW o \in Companies, NEW seen \in Nat, absorb(o, seen) PROVE BankHasNoTwins'
    BY <2>b DEF absorb, BankHasNoTwins, TypeOK
  <2>1. ASSUME NEW r \in Reqs, createCommit(r) PROVE BankHasNoTwins'
    BY <2>1, <2>a, <2>b, CreationStep DEF createCommit, Absorbed, Creation
  <2>2. ASSUME NEW r \in Reqs, updateCommit(r) PROVE BankHasNoTwins'
    BY <2>2, <2>a, <2>b, SaveStep DEF updateCommit, Absorbed, Writing
  <2>3. ASSUME NEW r \in Reqs, NEW c \in Challenges, Request(r, c) PROVE BankHasNoTwins'
    BY <2>3, <2>a, BeginStep
  <2>4. ASSUME NEW r \in Reqs, updateLock(r) \/ updateRollsBack(r) PROVE BankHasNoTwins'
    BY <2>4, <2>a DEF updateLock, updateRollsBack
  <2>5. ASSUME NEW r \in Reqs, archiveChallenge(r) \/ takedownChallenge(r) \/ restoreChallenge(r)
        PROVE BankHasNoTwins'
    BY <2>5, <2>a, ClosingStep
  <2>6. ASSUME NEW c \in Challenges, processAiChallengeBackground(c) PROVE BankHasNoTwins'
    BY <2>6, <2>a, GenerationStep
  <2>7. CASE restart \/ UNCHANGED vars
    BY <2>7, <2>a DEF restart, vars
  <2> QED BY <2>1, <2>2, <2>3, <2>4, <2>5, <2>6, <2>7, Steps DEF Answer
<1> QED BY <1>1, <1>2, TypeCorrect, PTL DEF Spec

-----------------------------------------------------------------------------
(* The directory of fields, with requests of its own.                      *)

CONSTANTS MaxNow
VARIABLES lookup, lookups

Skills == INSTANCE SkillDirectory WITH req <- lookup, started <- lookups

Entry == [name : Names, born : Nat]

Reply == {Skills!Free} \cup [at : {"judging"}, name : Names]

Lookup ==
    Reply
    \cup [at : {"asking"}, next : Reply]
    \cup [at : {"reading"}, next : Reply, since : Nat]
    \cup [at : {"storing"}, next : Reply, since : Nat, found : SUBSET Names]
    \cup [at : {"creating", "inserting", "appending"}, name : Names]

DirectoryTypeOK ==
    /\ now \in Nat
    /\ rows \in SUBSET Entry
    /\ cachedSkills \in SUBSET Names /\ cacheTimestamp \in Nat
    /\ lookup \in [Reqs -> Lookup]

\* Rows a copy does not have are at least as young as the copy.
Misses(names, since) == \A row \in rows : row.name \in names \/ row.born >= since

CopyInv ==
    /\ Misses(cachedSkills, cacheTimestamp)
    /\ cacheTimestamp = 0 \/ cacheTimestamp <= now
    /\ \A r \in Reqs :
         /\ lookup[r].at \in {"reading", "storing"} => lookup[r].since <= now
         /\ lookup[r].at = "storing" => Misses(lookup[r].found, lookup[r].since)

\* A name about to be inserted has no row of its key yet, nor another inserter.
TwinInv ==
    /\ TwinsOnlyByOverlap
    /\ \A r \in Reqs : lookup[r].at = "inserting" =>
         /\ Listed(lookup[r].name) => Key[lookup[r].name] \in raced
         /\ \A o \in Reqs : o # r /\ lookup[o].at = "inserting"
                            /\ Key[lookup[o].name] = Key[lookup[r].name]
                            => Key[lookup[r].name] \in raced

-----------------------------------------------------------------------------
\* Type correctness, whatever the requests do to each other.
THEOREM DirectoryTypeCorrect == Skills!Spec => []DirectoryTypeOK
<1>1. Skills!Init => DirectoryTypeOK
  BY CacheAssumption DEF Skills!Init, DirectoryTypeOK, Skills!Free, Lookup, Reply
<1>2. DirectoryTypeOK /\ [Skills!Next]_(Skills!vars) => DirectoryTypeOK'
  <2> SUFFICES ASSUME DirectoryTypeOK, [Skills!Next]_(Skills!vars) PROVE DirectoryTypeOK'
    OBVIOUS
  <2> USE DEF DirectoryTypeOK
  <2>1. ASSUME NEW r \in Reqs, Skills!Request(r) PROVE DirectoryTypeOK'
    BY <2>1 DEF Skills!Request, Skills!searchSkills, Skills!resolveCategory,
                Skills!resolveCategoryId, Skills!Begin, Skills!Move, Skills!Free, Lookup,
                Reply, Skills!cache
  <2>2. ASSUME NEW r \in Reqs, Skills!cacheHit(r) PROVE DirectoryTypeOK'
    BY <2>2 DEF Skills!cacheHit, Skills!Move, Lookup, Reply, Skills!Free, Skills!cache
  <2>3. ASSUME NEW r \in Reqs, Skills!allSkills(r) PROVE DirectoryTypeOK'
    BY <2>3 DEF Skills!allSkills, Skills!Move, Lookup, Reply, Skills!Free, Skills!cache
  <2>4. ASSUME NEW r \in Reqs, Skills!readRows(r) PROVE DirectoryTypeOK'
    <3>1. {row.name : row \in rows} \in SUBSET Names
      BY DEF Entry
    <3>2. lookup[r].next \in Reply /\ lookup[r].since \in Nat
      BY <2>4 DEF Skills!readRows, Lookup, Reply, Skills!Free
    <3> QED BY <2>4, <3>1, <3>2 DEF Skills!readRows, Skills!Move, Lookup, Skills!cache
  <2>5. ASSUME NEW r \in Reqs, Skills!storeRows(r) PROVE DirectoryTypeOK'
    <3>1. /\ lookup[r].next \in Reply /\ lookup[r].since \in Nat /\ lookup[r].found \in SUBSET Names
      BY <2>5 DEF Skills!storeRows, Lookup, Reply, Skills!Free
    <3> QED BY <2>5, <3>1 DEF Skills!storeRows, Skills!Move, Lookup
  <2>6. ASSUME NEW r \in Reqs, Skills!refuseOrSuggest(r) \/ Skills!acceptAsTyped(r)
               \/ \E name \in Names : Skills!accept(r, name)
        PROVE DirectoryTypeOK'
    BY <2>6 DEF Skills!refuseOrSuggest, Skills!acceptAsTyped, Skills!accept, Skills!End,
                Skills!Move, Lookup, Reply, Skills!Free, Skills!cache
  <2>7. ASSUME NEW r \in Reqs, Skills!findFirst(r) PROVE DirectoryTypeOK'
    BY <2>7 DEF Skills!findFirst, Skills!End, Skills!Move, Lookup, Reply, Skills!Free,
                Skills!cache
  <2>8. ASSUME NEW r \in Reqs, Skills!createSkill(r) PROVE DirectoryTypeOK'
    BY <2>8 DEF Skills!createSkill, Skills!End, Skills!Move, Lookup, Reply, Skills!Free,
                Skills!cache, Entry
  <2>9. ASSUME NEW r \in Reqs, Skills!appendCached(r) PROVE DirectoryTypeOK'
    BY <2>9 DEF Skills!appendCached, Skills!End, Skills!Move, Lookup, Reply, Skills!Free
  <2>10. CASE Skills!Tick
    BY <2>10 DEF Skills!Tick, Skills!cache
  <2>11. CASE Skills!restart
    BY <2>11 DEF Skills!restart, Lookup, Reply, Skills!Free
  <2>12. CASE UNCHANGED Skills!vars
    BY <2>12 DEF Skills!vars, Skills!cache
  <2> QED
    BY <2>1, <2>2, <2>3, <2>4, <2>5, <2>6, <2>7, <2>8, <2>9, <2>10, <2>11, <2>12
       DEF Skills!Next, Skills!Work
<1> QED BY <1>1, <1>2, PTL DEF Skills!Spec

-----------------------------------------------------------------------------
\* A copy, or a load of it, never misses a row older than its time.
THEOREM CopyCorrect == Skills!Spec => []CopyInv
<1>1. Skills!Init => CopyInv
  BY DEF Skills!Init, CopyInv, Misses, Skills!Free
<1>2. DirectoryTypeOK /\ CopyInv /\ [Skills!Next]_(Skills!vars) => CopyInv'
  <2> SUFFICES ASSUME DirectoryTypeOK, CopyInv, [Skills!Next]_(Skills!vars) PROVE CopyInv'
    OBVIOUS
  <2>1. ASSUME NEW r \in Reqs, Skills!Request(r) PROVE CopyInv'
    BY <2>1 DEF Skills!Request, Skills!searchSkills, Skills!resolveCategory,
                Skills!resolveCategoryId, Skills!Begin, Skills!Move, Skills!Free,
                Skills!cache, DirectoryTypeOK, CopyInv, Misses
  <2>2. ASSUME NEW r \in Reqs, Skills!cacheHit(r) PROVE CopyInv'
    <3>1. lookup[r].next.at \notin {"reading", "storing"}
      BY <2>2 DEF Skills!cacheHit, DirectoryTypeOK, Lookup, Reply, Skills!Free
    <3> QED BY <2>2, <3>1 DEF Skills!cacheHit, Skills!Move, Skills!cache, DirectoryTypeOK,
                              CopyInv, Misses
  <2>3. ASSUME NEW r \in Reqs, Skills!allSkills(r) PROVE CopyInv'
    BY <2>3 DEF Skills!allSkills, Skills!Move, Skills!cache, DirectoryTypeOK, CopyInv,
                Misses
  <2>4. ASSUME NEW r \in Reqs, Skills!readRows(r) PROVE CopyInv'
    BY <2>4 DEF Skills!readRows, Skills!Move, Skills!cache, DirectoryTypeOK, CopyInv, Misses
  <2>5. ASSUME NEW r \in Reqs, Skills!storeRows(r) PROVE CopyInv'
    <3>1. lookup[r].next.at \notin {"reading", "storing"}
      BY <2>5 DEF Skills!storeRows, DirectoryTypeOK, Lookup, Reply, Skills!Free
    <3> QED BY <2>5, <3>1 DEF Skills!storeRows, Skills!Move, DirectoryTypeOK, CopyInv,
                              Misses
  <2>6. ASSUME NEW r \in Reqs, Skills!refuseOrSuggest(r) \/ Skills!acceptAsTyped(r)
               \/ \E name \in Names : Skills!accept(r, name)
        PROVE CopyInv'
    BY <2>6 DEF Skills!refuseOrSuggest, Skills!acceptAsTyped, Skills!accept, Skills!End,
                Skills!Move, Skills!Free, Skills!cache, DirectoryTypeOK, CopyInv, Misses
  <2>7. ASSUME NEW r \in Reqs, Skills!findFirst(r) PROVE CopyInv'
    BY <2>7 DEF Skills!findFirst, Skills!End, Skills!Move, Skills!Free, Skills!cache,
                DirectoryTypeOK, CopyInv, Misses
  <2>8. ASSUME NEW r \in Reqs, Skills!createSkill(r) PROVE CopyInv'
    <3>1. \A o \in Reqs : lookup'[o].at \in {"reading", "storing"} => lookup'[o] = lookup[o]
      BY <2>8 DEF Skills!createSkill, Skills!End, Skills!Move, Skills!Free, DirectoryTypeOK
    <3>2. \A row \in rows' : row \in rows \/ row.born = now
      BY <2>8 DEF Skills!createSkill
    <3>3. now' = now /\ cachedSkills' = cachedSkills /\ cacheTimestamp' = cacheTimestamp
      BY <2>8 DEF Skills!createSkill, Skills!cache
    <3>4. now >= 0
      BY DEF DirectoryTypeOK
    <3> QED BY <3>1, <3>2, <3>3, <3>4 DEF CopyInv, Misses, DirectoryTypeOK, Entry
  <2>9. ASSUME NEW r \in Reqs, Skills!appendCached(r) PROVE CopyInv'
    BY <2>9 DEF Skills!appendCached, Skills!End, Skills!Move, Skills!Free, DirectoryTypeOK,
                CopyInv, Misses
  <2>10. CASE Skills!Tick
    <3>1. \A r \in Reqs : lookup[r].at \in {"reading", "storing"} => lookup[r].since \in Nat
      BY DEF DirectoryTypeOK, Lookup, Reply, Skills!Free
    <3> QED BY <2>10, <3>1 DEF Skills!Tick, Skills!cache, DirectoryTypeOK, CopyInv, Misses
  <2>11. CASE Skills!restart
    BY <2>11 DEF Skills!restart, Skills!Free, DirectoryTypeOK, CopyInv, Misses, Entry
  <2>12. CASE UNCHANGED Skills!vars
    BY <2>12 DEF Skills!vars, Skills!cache, CopyInv, Misses
  <2> QED
    BY <2>1, <2>2, <2>3, <2>4, <2>5, <2>6, <2>7, <2>8, <2>9, <2>10, <2>11, <2>12
       DEF Skills!Next, Skills!Work
<1> QED BY <1>1, <1>2, DirectoryTypeCorrect, PTL DEF Skills!Spec

\* A copy in use misses only names inserted within its TTL.
THEOREM CopyIsRecent == Skills!Spec => []MissingIsYoung
<1>1. DirectoryTypeOK /\ CopyInv => MissingIsYoung
  BY CacheAssumption DEF DirectoryTypeOK, CopyInv, Misses, MissingIsYoung, Entry
<1> QED BY <1>1, DirectoryTypeCorrect, CopyCorrect, PTL

-----------------------------------------------------------------------------
\* Whoever is about to insert a key that has a row, or another inserter, was noted.
THEOREM TwinsCorrect == Skills!Spec => []TwinInv
<1>1. Skills!Init => TwinInv
  BY DEF Skills!Init, TwinInv, TwinsOnlyByOverlap, Skills!Free
<1>2. DirectoryTypeOK /\ TwinInv /\ [Skills!Next]_(Skills!vars) => TwinInv'
  <2> SUFFICES ASSUME DirectoryTypeOK, TwinInv, [Skills!Next]_(Skills!vars) PROVE TwinInv'
    OBVIOUS
  <2>1. ASSUME UNCHANGED <<rows, raced>>,
               \A r \in Reqs : lookup'[r].at = "inserting" => lookup'[r] = lookup[r]
        PROVE TwinInv'
    BY <2>1 DEF TwinInv, TwinsOnlyByOverlap, Listed, Skills!Listed
  <2>2. ASSUME NEW r \in Reqs, Skills!Request(r) PROVE TwinInv'
    BY <2>1, <2>2 DEF Skills!Request, Skills!searchSkills, Skills!resolveCategory,
                      Skills!resolveCategoryId, Skills!Begin, Skills!Move, Skills!Free,
                      DirectoryTypeOK
  <2>3. ASSUME NEW r \in Reqs, Skills!cacheHit(r) \/ Skills!storeRows(r) PROVE TwinInv'
    <3>1. lookup[r].next.at # "inserting"
      BY <2>3 DEF Skills!cacheHit, Skills!storeRows, DirectoryTypeOK, Lookup, Reply,
                  Skills!Free
    <3> QED BY <2>1, <2>3, <3>1 DEF Skills!cacheHit, Skills!storeRows, Skills!Move,
                                    DirectoryTypeOK
  <2>4. ASSUME NEW r \in Reqs, Skills!allSkills(r) \/ Skills!readRows(r) \/ Skills!appendCached(r)
               \/ Skills!refuseOrSuggest(r) \/ Skills!acceptAsTyped(r)
               \/ \E name \in Names : Skills!accept(r, name)
        PROVE TwinInv'
    BY <2>1, <2>4 DEF Skills!allSkills, Skills!readRows, Skills!appendCached,
                      Skills!refuseOrSuggest, Skills!acceptAsTyped, Skills!accept,
                      Skills!End, Skills!Move, Skills!Free, DirectoryTypeOK
  <2>5. ASSUME NEW r \in Reqs, Skills!findFirst(r) PROVE TwinInv'
    <3>1. CASE Listed(lookup[r].name)
      BY <2>1, <2>5, <3>1 DEF Skills!findFirst, Skills!End, Skills!Move, Skills!Free,
                              Skills!Listed, Listed, DirectoryTypeOK
    <3>2. CASE ~Listed(lookup[r].name)
      <4>1. /\ rows' = rows /\ raced \subseteq raced'
            /\ lookup' = [lookup EXCEPT ![r] = [at |-> "inserting", name |-> lookup[r].name]]
            /\ Skills!Inserting(lookup[r].name) # {} => Key[lookup[r].name] \in raced'
        BY <2>5, <3>2 DEF Skills!findFirst, Skills!Move, Skills!Listed, Listed
      <4>2. /\ lookup'[r] = [at |-> "inserting", name |-> lookup[r].name]
            /\ \A o \in Reqs : o # r => lookup'[o] = lookup[o]
        BY <4>1 DEF DirectoryTypeOK
      <4>3. ASSUME NEW o \in Reqs, o # r, lookup[o].at = "inserting",
                   Key[lookup[o].name] = Key[lookup[r].name]
            PROVE Key[lookup[r].name] \in raced'
        BY <4>1, <4>3 DEF Skills!Inserting
      <4> QED BY <3>2, <4>1, <4>2, <4>3
              DEF TwinInv, TwinsOnlyByOverlap, Listed, Skills!Listed
    <3> QED BY <3>1, <3>2
  <2>6. ASSUME NEW r \in Reqs, Skills!createSkill(r) PROVE TwinInv'
    <3>1. CASE \E row \in rows : row.name = lookup[r].name
      BY <2>1, <2>6, <3>1 DEF Skills!createSkill, Skills!End, Skills!Move, Skills!Free,
                              DirectoryTypeOK
    <3>2. CASE ~\E row \in rows : row.name = lookup[r].name
      <4> DEFINE new == [name |-> lookup[r].name, born |-> now]
      <4>1. /\ rows' = rows \cup {new} /\ raced' = raced
            /\ lookup'[r].at = "appending" /\ \A o \in Reqs : o # r => lookup'[o] = lookup[o]
        BY <2>6, <3>2 DEF Skills!createSkill, Skills!Move, DirectoryTypeOK
      <4>2. Listed(lookup[r].name) => Key[lookup[r].name] \in raced
        BY <2>6 DEF Skills!createSkill, TwinInv
      <4>3. TwinsOnlyByOverlap'
        BY <4>1, <4>2 DEF TwinInv, TwinsOnlyByOverlap, Listed, Skills!Listed
      <4>4. \A o \in Reqs : o # r /\ lookup[o].at = "inserting"
                            /\ Key[lookup[o].name] = Key[lookup[r].name]
                            => Key[lookup[o].name] \in raced
        BY <2>6 DEF Skills!createSkill, TwinInv
      <4> QED BY <4>1, <4>3, <4>4 DEF TwinInv, Listed, Skills!Listed
    <3> QED BY <3>1, <3>2
  <2>7. CASE Skills!Tick
    BY <2>1, <2>7 DEF Skills!Tick
  <2>8. CASE Skills!restart
    BY <2>1, <2>8 DEF Skills!restart, Skills!Free
  <2>9. CASE UNCHANGED Skills!vars
    BY <2>1, <2>9 DEF Skills!vars
  <2> QED BY <2>2, <2>3, <2>4, <2>5, <2>6, <2>7, <2>8, <2>9 DEF Skills!Next, Skills!Work
<1> QED BY <1>1, <1>2, DirectoryTypeCorrect, PTL DEF Skills!Spec

\* Two spellings become two rows only when two requests raced.
THEOREM NoTwins == Skills!Spec => []TwinsOnlyByOverlap
BY TwinsCorrect, PTL DEF TwinInv
=============================================================================
