---------------------------- MODULE IdentityProofs ----------------------------
(***************************************************************************)
(* Proofs about Identity, for any talents, uploads and verifications.      *)
(*                                                                         *)
(* That one face is on one account rests on three facts about what is on   *)
(* its way: who is verified with an embedding has the vector of its own    *)
(* upload, or is about to save it; two accounts on their way to a stored   *)
(* upload have overlapped; and one on its way meets no verified account    *)
(* of its face.  Each of them is lost only with the pair excused.          *)
(***************************************************************************)
EXTENDS Identity, TLAPS

Excused(t) == \A o \in Others(t) : {t, o} \in excused

Clean(t) == profile[t].status = "VERIFIED" /\ profile[t].degraded = FALSE

\* The vector compared with is of the upload that was verified.
VectorInv ==
    \A t \in Talents : Clean(t) =>
        \/ vector[t] = profile[t].upload.face
        \/ \E j \in Jobs : job[j].at = "saving" /\ job[j].talent = t
                           /\ job[j].upload = profile[t].upload
        \/ Excused(t)

\* Jobs past their comparison that have stored nothing yet.
Stored(j) == job[j].at = "storing"

OverlapInv ==
    \A j, k \in Jobs :
        Stored(j) /\ Stored(k) /\ job[j].talent # job[k].talent
        => {job[j].talent, job[k].talent} \in excused

ComparedInv ==
    \A j \in Jobs, o \in Talents :
        /\ Stored(j) /\ job[j].embedding = TRUE /\ o # job[j].talent
        /\ Clean(o) /\ profile[o].upload.face = job[j].upload.face
        => {job[j].talent, o} \in excused

FacesApart ==
    \A t, o \in Talents :
        t # o /\ Clean(t) /\ Clean(o) /\ profile[t].upload.face = profile[o].upload.face
        => {t, o} \in excused

FaceInv == Enforcing => VectorInv /\ OverlapInv /\ ComparedInv /\ FacesApart

\* Verifications that will still write a status, or have the talent FAILED.
Early(j) == job[j].at \in {"judging", "noAnswer", "checking", "storing"}

PendingInv ==
    \A t \in Talents :
        profile[t].status = "PENDING" =>
            profile[t].needsReview \/ restarts > 0
                \/ \E j \in Jobs : Early(j) /\ job[j].talent = t

-----------------------------------------------------------------------------
\* Type correctness, with any number of verifications at once.
THEOREM TypeCorrect == Spec => []TypeOK
<1>1. Init => TypeOK
  BY DEF Init, TypeOK, NewProfile, Statuses, JobRecords, Free, NoRequest
<1>2. TypeOK /\ [Next]_vars => TypeOK'
  <2> SUFFICES ASSUME TypeOK, [Next]_vars PROVE TypeOK'
    OBVIOUS
  <2> USE DEF TypeOK, Statuses
  <2>0. ASSUME NEW j \in Jobs, job[j].at # "free"
        PROVE job[j].talent \in Talents /\ job[j].upload \in Uploads
    BY <2>0 DEF JobRecords, Free
  <2>1. ASSUME NEW t \in Talents, NEW j \in Jobs, NEW u \in Uploads, verifyTalentFace(t, j, u)
        PROVE TypeOK'
    BY <2>1, SMTT(30) DEF verifyTalentFace, JobRecords
  <2>2. ASSUME NEW j \in Jobs, Fail(j), job[j].at # "free"
        PROVE profile' \in [Talents -> [status : Statuses, upload : Uploads \cup {None},
                 doubtful : BOOLEAN, degraded : BOOLEAN, needsReview : BOOLEAN,
                 approved : BOOLEAN]] /\ job' \in [Jobs -> JobRecords]
    BY <2>0, <2>2, SMTT(30) DEF Fail, JobRecords
  <2>3. ASSUME NEW j \in Jobs,
               engineRefuses(j) \/ engineTroubleRefuses(j) \/ laterFails(j)
        PROVE TypeOK'
    BY <2>2, <2>3 DEF engineRefuses, engineTroubleRefuses, laterFails
  <2>4. ASSUME NEW j \in Jobs, enginesDown(j) PROVE TypeOK'
    BY <2>4 DEF enginesDown, JobRecords, Free
  <2>5. ASSUME NEW j \in Jobs, NEW doubtful \in BOOLEAN, NEW embedding \in BOOLEAN,
               engineAccepts(j, doubtful, embedding)
        PROVE TypeOK'
    BY <2>0, <2>5 DEF engineAccepts, JobRecords
  <2>6. ASSUME NEW j \in Jobs, checkIdentity(j) PROVE TypeOK'
    <3> DEFINE d == IF job[j].embedding THEN Decision(job[j].talent, job[j].upload.face)
                    ELSE "PASS"
    <3>1. d \in {"PASS", "REVIEW", "REJECT"}
      BY DEF Decision
    <3>2. job[j] \in [at : {"checking"}, talent : Talents, upload : Uploads,
                      doubtful : BOOLEAN, embedding : BOOLEAN]
      BY <2>6 DEF checkIdentity, JobRecords, Free
    <3>3. CASE Taken(job[j].talent, job[j].upload) \/ d = "REJECT"
      BY <2>2, <2>6, <3>2, <3>3 DEF checkIdentity
    <3>4. CASE ~(Taken(job[j].talent, job[j].upload) \/ d = "REJECT")
      <4>1. job' = [job EXCEPT ![j] =
                     [at |-> "storing", talent |-> job[j].talent, upload |-> job[j].upload,
                      doubtful |-> job[j].doubtful, embedding |-> job[j].embedding,
                      decision |-> d]]
            /\ profile' = profile /\ UNCHANGED <<vector, admin, attempts, restarts>>
        BY <2>6, <3>4 DEF checkIdentity
      <4> QED BY <3>1, <3>2, <3>4, <4>1 DEF JobRecords
    <3> QED BY <3>3, <3>4
  <2>7. ASSUME NEW j \in Jobs, storeResult(j) PROVE TypeOK'
    <3>1. job[j] \in [at : {"storing"}, talent : Talents, upload : Uploads,
                      doubtful : BOOLEAN, embedding : BOOLEAN, decision : {"PASS", "REVIEW"}]
      BY <2>7 DEF storeResult, JobRecords, Free
    <3>2. CASE Taken(job[j].talent, job[j].upload)
      BY <2>2, <2>7, <3>1, <3>2 DEF storeResult
    <3>3. CASE ~Taken(job[j].talent, job[j].upload)
      <4>1. PICK b \in BOOLEAN : b = (profile[job[j].talent].needsReview \/ job[j].doubtful)
        BY Zenon
      <4>2. profile' = [profile EXCEPT ![job[j].talent] =
                         [status |-> IF job[j].doubtful THEN "PENDING" ELSE "VERIFIED",
                          upload |-> job[j].upload, doubtful |-> job[j].doubtful,
                          degraded |-> ~job[j].embedding, needsReview |-> b,
                          approved |-> FALSE]]
        BY <2>7, <3>1, <3>3, <4>1 DEF storeResult
      <4>3. (~job[j].embedding) \in BOOLEAN
        OBVIOUS
      <4>4. profile' \in [Talents -> [status : Statuses, upload : Uploads \cup {None},
                 doubtful : BOOLEAN, degraded : BOOLEAN, needsReview : BOOLEAN,
                 approved : BOOLEAN]]
        BY <3>1, <4>2, <4>3
      <4>5. job' = [job EXCEPT ![j] = IF job[j].embedding THEN [@ EXCEPT !.at = "saving"]
                                                          ELSE Free]
        BY <2>7, <3>3 DEF storeResult
      <4>6. job' \in [Jobs -> JobRecords]
        BY <3>1, <4>5 DEF JobRecords
      <4> QED BY <2>7, <4>4, <4>6 DEF storeResult
    <3> QED BY <3>2, <3>3
  <2>8. ASSUME NEW j \in Jobs, saveVector(j) PROVE TypeOK'
    <3>1. job[j] \in [at : {"saving"}, talent : Talents, upload : Uploads,
                      doubtful : BOOLEAN, embedding : BOOLEAN, decision : {"PASS", "REVIEW"}]
      BY <2>8 DEF saveVector, JobRecords, Free
    <3>2. vector' \in [Talents -> {u.face : u \in Uploads} \cup {None}]
      BY <2>8, <3>1 DEF saveVector
    <3> QED BY <2>8, <3>1, <3>2 DEF saveVector, JobRecords
  <2>9. ASSUME NEW j \in Jobs, recordOutcome(j) PROVE TypeOK'
    <3>1. PICK b \in BOOLEAN :
               b = (profile[job[j].talent].needsReview \/ job[j].decision = "REVIEW")
      OBVIOUS
    <3>2. profile' = [profile EXCEPT ![job[j].talent].needsReview = b]
      BY <2>0, <2>9, <3>1 DEF recordOutcome
    <3> QED BY <2>0, <2>9, <3>2, SMTT(30) DEF recordOutcome, JobRecords
  <2>10. ASSUME NEW t \in Talents, verifyExecutionUnreadable(t) \/ getIdentityReviewQueue(t)
         PROVE TypeOK'
    <3>1. CASE verifyExecutionUnreadable(t)
      BY <3>1, ZenonT(30) DEF verifyExecutionUnreadable
    <3>2. CASE getIdentityReviewQueue(t)
      BY <3>2 DEF getIdentityReviewQueue
    <3> QED BY <2>10, <3>1, <3>2
  <2>11. ASSUME NEW approve \in BOOLEAN, resolveIdentityReview(approve) PROVE TypeOK'
    <3>1. admin \in [at : {"listed", "clearing"}, talent : Talents]
      BY <2>11 DEF resolveIdentityReview, NoRequest
    <3>2. admin' \in {NoRequest} \cup [at : {"listed", "clearing"}, talent : Talents]
      BY <2>11, <3>1 DEF resolveIdentityReview
    <3>3. profile' = [profile EXCEPT ![admin.talent] =
                       [@ EXCEPT !.needsReview = FALSE, !.approved = approve,
                                 !.status = IF approve THEN "VERIFIED" ELSE "FAILED"]]
      BY <2>11, <3>1 DEF resolveIdentityReview
    <3>4. profile' \in [Talents -> [status : Statuses, upload : Uploads \cup {None},
               doubtful : BOOLEAN, degraded : BOOLEAN, needsReview : BOOLEAN,
               approved : BOOLEAN]]
      <4>1. (IF approve THEN "VERIFIED" ELSE "FAILED") \in Statuses
        BY Zenon
      <4>2. PICK st \in Statuses : st = IF approve THEN "VERIFIED" ELSE "FAILED"
        BY <4>1
      <4>3. profile' = [profile EXCEPT ![admin.talent] =
                         [@ EXCEPT !.needsReview = FALSE, !.approved = approve, !.status = st]]
        BY <3>3, <4>2
      <4> DEFINE R == [status : Statuses, upload : Uploads \cup {None}, doubtful : BOOLEAN,
                       degraded : BOOLEAN, needsReview : BOOLEAN, approved : BOOLEAN]
                 p == profile[admin.talent]
                 p1 == [p EXCEPT !.needsReview = FALSE]
                 p2 == [p1 EXCEPT !.status = st]
                 q == [p2 EXCEPT !.approved = approve]
      <4>4. p \in R
        BY <3>1
      <4>5. p1 \in R
        BY <4>4
      <4>6. p2 \in R
        <5> HIDE DEF p1
        <5> QED BY <4>5, <4>2
      <4>7. q \in R
        <5> HIDE DEF p2
        <5> QED BY <4>6
      <4>8. profile' = [profile EXCEPT ![admin.talent] = q]
        BY <4>3
      <4> HIDE DEF q, p
      <4> QED BY <4>7, <4>8
    <3> QED BY <2>11, <3>2, <3>4 DEF resolveIdentityReview
  <2>12. CASE clearVector
    <3>1. admin \in [at : {"listed", "clearing"}, talent : Talents]
      BY <2>12 DEF clearVector, NoRequest
    <3> QED BY <2>12, <3>1 DEF clearVector
  <2>13. CASE restart
    BY <2>13 DEF restart, JobRecords
  <2>14. CASE UNCHANGED vars
    BY <2>14 DEF vars
  <2> QED
    BY <2>1, <2>3, <2>4, <2>5, <2>6, <2>7, <2>8, <2>9, <2>10, <2>11, <2>12, <2>13, <2>14
       DEF Next, Work
<1> QED BY <1>1, <1>2, PTL DEF Spec

-----------------------------------------------------------------------------
\* A case in doubt is verified by an admin and by nothing else, whatever
\* verifications of it are running and whatever the admin listed.
THEOREM DoubtCorrect == Spec => []DoubtDecidedByAdmin
<1>1. Init => DoubtDecidedByAdmin
  BY DEF Init, DoubtDecidedByAdmin, NewProfile
<1>2. TypeOK /\ DoubtDecidedByAdmin /\ [Next]_vars => DoubtDecidedByAdmin'
  <2> SUFFICES ASSUME TypeOK, DoubtDecidedByAdmin, [Next]_vars PROVE DoubtDecidedByAdmin'
    OBVIOUS
  <2> USE DEF DoubtDecidedByAdmin
  <2>1. ASSUME NEW t \in Talents, NEW j \in Jobs, NEW u \in Uploads, verifyTalentFace(t, j, u)
        PROVE DoubtDecidedByAdmin'
    BY <2>1 DEF verifyTalentFace, TypeOK
  <2>2. ASSUME NEW j \in Jobs, Fail(j) PROVE DoubtDecidedByAdmin'
    BY <2>2 DEF Fail, TypeOK
  <2>3. ASSUME NEW j \in Jobs,
               \/ engineRefuses(j) \/ engineTroubleRefuses(j) \/ laterFails(j)
               \/ checkIdentity(j) \/ enginesDown(j) \/ saveVector(j)
               \/ \E doubtful, embedding \in BOOLEAN : engineAccepts(j, doubtful, embedding)
        PROVE DoubtDecidedByAdmin'
    BY <2>2, <2>3 DEF engineRefuses, engineTroubleRefuses, laterFails, checkIdentity,
         enginesDown, saveVector, engineAccepts
  <2>4. ASSUME NEW j \in Jobs, storeResult(j) PROVE DoubtDecidedByAdmin'
    BY <2>2, <2>4, SMTT(30) DEF storeResult, TypeOK
  <2>5. ASSUME NEW j \in Jobs, recordOutcome(j) PROVE DoubtDecidedByAdmin'
    BY <2>5 DEF recordOutcome, TypeOK
  <2>6. ASSUME NEW t \in Talents, verifyExecutionUnreadable(t) \/ getIdentityReviewQueue(t)
        PROVE DoubtDecidedByAdmin'
    BY <2>6, SMTT(30) DEF verifyExecutionUnreadable, getIdentityReviewQueue, TypeOK
  <2>7. ASSUME NEW approve \in BOOLEAN, resolveIdentityReview(approve)
        PROVE DoubtDecidedByAdmin'
    BY <2>7 DEF resolveIdentityReview, TypeOK
  <2>8. CASE clearVector \/ restart \/ UNCHANGED vars
    BY <2>8 DEF clearVector, restart, vars
  <2> QED
    BY <2>1, <2>3, <2>4, <2>5, <2>6, <2>7, <2>8 DEF Next, Work
<1> QED BY <1>1, <1>2, TypeCorrect, PTL DEF Spec

-----------------------------------------------------------------------------
\* Who is PENDING and not in the queue has a verification that will still write
\* the status, unless a restart ended it.
THEOREM PendingCorrect == Spec => []PendingInv
<1>1. Init => PendingInv
  BY DEF Init, PendingInv, NewProfile
<1>2. TypeOK /\ PendingInv /\ [Next]_vars => PendingInv'
  <2> SUFFICES ASSUME TypeOK, PendingInv, [Next]_vars PROVE PendingInv'
    OBVIOUS
  <2> USE DEF PendingInv, Early
  <2>1. ASSUME NEW t \in Talents, NEW j \in Jobs, NEW u \in Uploads, verifyTalentFace(t, j, u)
        PROVE PendingInv'
    BY <2>1 DEF verifyTalentFace, TypeOK
  <2>2. ASSUME NEW j \in Jobs, Fail(j), job[j].talent \in Talents, restarts' = restarts
        PROVE PendingInv'
    BY <2>2 DEF Fail, TypeOK
  <2>3. ASSUME NEW j \in Jobs, job[j].at # "free" PROVE job[j].talent \in Talents
    BY <2>3 DEF TypeOK, JobRecords, Free
  <2>4. ASSUME NEW j \in Jobs, engineRefuses(j) \/ engineTroubleRefuses(j) \/ laterFails(j)
        PROVE PendingInv'
    BY <2>2, <2>3, <2>4 DEF engineRefuses, engineTroubleRefuses, laterFails
  <2>5. ASSUME NEW j \in Jobs, enginesDown(j) PROVE PendingInv'
    BY <2>5 DEF enginesDown, TypeOK
  <2>6. ASSUME NEW j \in Jobs, NEW doubtful \in BOOLEAN, NEW embedding \in BOOLEAN,
               engineAccepts(j, doubtful, embedding)
        PROVE PendingInv'
    BY <2>6 DEF engineAccepts, TypeOK
  <2>7. ASSUME NEW j \in Jobs, checkIdentity(j) PROVE PendingInv'
    <3>1. CASE Fail(j)
      BY <2>2, <2>3, <2>7, <3>1 DEF checkIdentity
    <3>2. CASE ~Fail(j)
      <4>1. /\ \A k \in Jobs \ {j} : job'[k] = job[k]
            /\ job'[j].at = "storing" /\ job'[j].talent = job[j].talent
            /\ profile' = profile /\ restarts' = restarts
        BY <2>7, <3>2 DEF checkIdentity, TypeOK
      <4> QED BY <2>7, <4>1 DEF checkIdentity
    <3> QED BY <3>1, <3>2
  <2>8. ASSUME NEW j \in Jobs, storeResult(j) PROVE PendingInv'
    <3>1. CASE Fail(j)
      BY <2>2, <2>3, <2>8, <3>1 DEF storeResult
    <3>2. CASE ~Fail(j)
      <4> DEFINE t == job[j].talent
      <4>1. /\ \A k \in Jobs \ {j} : job'[k] = job[k]
            /\ restarts' = restarts
            /\ \A o \in Talents \ {t} : profile'[o] = profile[o]
            /\ t \in Talents
        BY <2>3, <2>8, <3>2 DEF storeResult, TypeOK
      <4>2. profile'[t].status = "PENDING" => profile'[t].needsReview
        <5>1. ASSUME ~job[j].doubtful PROVE profile'[t].status = "VERIFIED"
          BY <2>8, <3>2, <4>1, <5>1 DEF storeResult, TypeOK
        <5>2. profile' = [profile EXCEPT ![t] =
                 [status |-> IF job[j].doubtful THEN "PENDING" ELSE "VERIFIED",
                  upload |-> job[j].upload, doubtful |-> job[j].doubtful,
                  degraded |-> ~job[j].embedding,
                  needsReview |-> @.needsReview \/ job[j].doubtful, approved |-> FALSE]]
          BY <2>8, <3>2 DEF storeResult
        <5>3. t \in DOMAIN profile
          BY <4>1 DEF TypeOK
        <5>4. profile'[t].needsReview = (profile[t].needsReview \/ job[j].doubtful)
          BY ONLY <5>2, <5>3, Zenon
        <5> QED BY <5>1, <5>4
      <4> QED BY <2>8, <4>1, <4>2 DEF storeResult
    <3> QED BY <3>1, <3>2
  <2>9. ASSUME NEW j \in Jobs, saveVector(j) PROVE PendingInv'
    BY <2>9 DEF saveVector, TypeOK
  <2>10. ASSUME NEW j \in Jobs, recordOutcome(j) PROVE PendingInv'
    BY <2>10 DEF recordOutcome, TypeOK
  <2>11. ASSUME NEW t \in Talents, verifyExecutionUnreadable(t) \/ getIdentityReviewQueue(t)
        PROVE PendingInv'
    BY <2>11 DEF verifyExecutionUnreadable, getIdentityReviewQueue, TypeOK
  <2>12. ASSUME NEW approve \in BOOLEAN, resolveIdentityReview(approve) PROVE PendingInv'
    BY <2>12 DEF resolveIdentityReview, TypeOK
  <2>13. CASE clearVector \/ UNCHANGED vars
    BY <2>13 DEF clearVector, vars
  <2>14. CASE restart
    BY <2>14 DEF restart, TypeOK
  <2> QED
    BY <2>1, <2>4, <2>5, <2>6, <2>7, <2>8, <2>9, <2>10, <2>11, <2>12, <2>13, <2>14
       DEF Next, Work
<1> QED BY <1>1, <1>2, TypeCorrect, PTL DEF Spec

\* Nobody is left PENDING unseen.
THEOREM PendingLookedAt == Spec => []PendingIsLookedAt
<1>1. PendingInv => PendingIsLookedAt
  BY DEF PendingInv, Early, PendingIsLookedAt, Running
<1> QED BY <1>1, PendingCorrect, PTL

-----------------------------------------------------------------------------
\* What verifies nobody, compares nobody and leaves the vectors keeps FaceInv.
LEMMA QuietStep ==
    ASSUME FaceInv, vector' = vector, excused \subseteq excused',
           \A o \in Talents : Clean(o)' => Clean(o) /\ profile'[o].upload = profile[o].upload,
           \A j \in Jobs : Stored(j)' => job'[j] = job[j],
           \A j \in Jobs, t \in Talents :
               job[j].at = "saving" /\ job[j].talent = t /\ Clean(t)' => job'[j] = job[j]
    PROVE  FaceInv'
<1> SUFFICES ASSUME Enforcing PROVE FaceInv'
  BY DEF FaceInv
<1>1. VectorInv'
  <2>1. \A t \in Talents : Excused(t) => Excused(t)'
    BY DEF Excused, Others
  <2>2. ASSUME NEW t \in Talents, Clean(t)'
        PROVE \/ vector'[t] = profile'[t].upload.face
              \/ \E j \in Jobs : job'[j].at = "saving" /\ job'[j].talent = t
                               /\ job'[j].upload = profile'[t].upload
              \/ Excused(t)'
    <3>1. Clean(t) /\ profile'[t].upload = profile[t].upload
      BY <2>2
    <3>2. ASSUME NEW j \in Jobs, job[j].at = "saving", job[j].talent = t PROVE job'[j] = job[j]
      BY <2>2, <3>2
    <3> HIDE DEF Clean
    <3> QED BY <2>1, <3>1, <3>2 DEF FaceInv, VectorInv
  <2> QED BY <2>2 DEF VectorInv
<1>2. OverlapInv'
  BY DEF FaceInv, OverlapInv, Stored
<1>3. ComparedInv'
  BY DEF FaceInv, ComparedInv, Stored
<1>4. FacesApart'
  BY DEF FaceInv, FacesApart, Clean
<1> QED BY <1>1, <1>2, <1>3, <1>4 DEF FaceInv

\* A comparison that passes has seen every verified vector, and has overlapped
\* with every other talent's that is not saved yet.
LEMMA CheckStep ==
    ASSUME TypeOK, FaceInv, NEW j \in Jobs, checkIdentity(j), ~Fail(j)
    PROVE  FaceInv'
<1> DEFINE t == job[j].talent
           u == job[j].upload
<1> SUFFICES ASSUME Enforcing PROVE FaceInv'
  BY DEF FaceInv
<1>1. /\ \A k \in Jobs \ {j} : job'[k] = job[k]
      /\ job'[j].at = "storing" /\ job'[j].talent = t /\ job'[j].upload = u
      /\ job'[j].embedding = job[j].embedding
      /\ profile' = profile /\ vector' = vector
      /\ excused' = excused \cup {{t, o} : o \in InFlight(t)}
      /\ job[j].at = "checking"
  BY DEF checkIdentity, TypeOK
<1>2. t \in Talents
  BY <1>1 DEF TypeOK, JobRecords, Free
<1>3. job[j].embedding = TRUE => Decision(t, u.face) # "REJECT"
  BY DEF checkIdentity
<1>4. VectorInv'
  BY <1>1 DEF FaceInv, VectorInv, Excused, Others, Clean
<1>5. OverlapInv'
  <2>1. ASSUME NEW k \in Jobs, Stored(k), job[k].talent # t PROVE {t, job[k].talent} \in excused'
    BY <1>1, <2>1 DEF InFlight, Stored
  <2>2. \A o : {o, t} = {t, o}
    OBVIOUS
  <2>3. ASSUME NEW k \in Jobs, NEW l \in Jobs, Stored(k)', Stored(l)',
               job'[k].talent # job'[l].talent
        PROVE {job'[k].talent, job'[l].talent} \in excused'
    <3>1. CASE k = j
      BY <1>1, <2>1, <2>3, <3>1 DEF Stored
    <3>2. CASE l = j /\ k # j
      <4>1. {t, job[k].talent} \in excused' /\ job'[k].talent = job[k].talent
        BY <1>1, <2>1, <2>3, <3>2 DEF Stored
      <4> QED BY <1>1, <2>2, <3>2, <4>1
    <3>3. CASE l # j /\ k # j
      BY <1>1, <2>3, <3>3 DEF FaceInv, OverlapInv, Stored
    <3> QED BY <3>1, <3>2, <3>3
  <2> QED BY <2>3 DEF OverlapInv
<1>6. ComparedInv'
  <2>1. ASSUME job[j].embedding = TRUE, NEW o \in Talents, o # t, Clean(o), profile[o].upload.face = u.face
        PROVE {t, o} \in excused'
    <3>1. CASE vector[o] = profile[o].upload.face
      <4>1. vector[o] = u.face
        BY <2>1, <3>1
      <4>2. vector[o] # None => o \in Comparable(t)
        BY <2>1 DEF Comparable, Others, Clean
      <4>3. vector[o] # None
        BY <1>1, <4>1, FacesAssumption DEF TypeOK, JobRecords, Free
      <4> QED BY <1>3, <2>1, <4>1, <4>2, <4>3 DEF Decision
    <3>2. CASE \E k \in Jobs : job[k].at = "saving" /\ job[k].talent = o
      BY <1>1, <2>1, <3>2 DEF InFlight
    <3>3. CASE Excused(o)
      <4>1. {o, t} \in excused
        BY <1>2, <2>1, <3>3 DEF Excused, Others
      <4>2. {o, t} = {t, o}
        OBVIOUS
      <4> QED BY <1>1, <4>1, <4>2
    <3> QED BY <2>1, <3>1, <3>2, <3>3 DEF FaceInv, VectorInv
  <2>2. ASSUME NEW k \in Jobs, NEW o \in Talents, Stored(k)', job'[k].embedding = TRUE,
               o # job'[k].talent, Clean(o), profile[o].upload.face = job'[k].upload.face
        PROVE {job'[k].talent, o} \in excused'
    <3>1. CASE k = j
      BY <1>1, <2>1, <2>2, <3>1
    <3>2. CASE k # j
      BY <1>1, <2>2, <3>2 DEF FaceInv, ComparedInv, Stored
    <3> QED BY <3>1, <3>2
  <2> QED BY <1>1, <2>2 DEF ComparedInv, Clean
<1>7. FacesApart'
  BY <1>1 DEF FaceInv, FacesApart, Clean
<1> QED BY <1>4, <1>5, <1>6, <1>7 DEF FaceInv

\* A result that is stored was compared with whoever has its face.
LEMMA StoreStep ==
    ASSUME TypeOK, FaceInv, NEW j \in Jobs, storeResult(j), ~Fail(j)
    PROVE  FaceInv'
<1>t. PICK t \in Talents : t = job[j].talent
  BY DEF storeResult, TypeOK, JobRecords, Free
<1>u. PICK u \in Uploads : u = job[j].upload
  BY DEF storeResult, TypeOK, JobRecords, Free
<1> SUFFICES ASSUME Enforcing PROVE FaceInv'
  BY DEF FaceInv
<1>1. /\ \A k \in Jobs \ {j} : job'[k] = job[k]
      /\ job[j].at = "storing" /\ job'[j].at # "storing"
      /\ job[j].embedding = TRUE => /\ job'[j].at = "saving" /\ job'[j].talent = t
                             /\ job'[j].upload = u
      /\ \A o \in Talents \ {t} : profile'[o] = profile[o]
      /\ vector' = vector /\ excused' = excused
  BY <1>u, <1>t DEF storeResult, TypeOK, Free, JobRecords
<1>3. profile'[t].upload = u /\ (Clean(t)' => job[j].embedding = TRUE)
  <2>1. /\ profile'[t].upload = u
        /\ job[j].embedding = FALSE => profile'[t].degraded = TRUE
    <3>1. profile' = [profile EXCEPT ![t] =
                 [status |-> IF job[j].doubtful THEN "PENDING" ELSE "VERIFIED",
                  upload |-> u, doubtful |-> job[j].doubtful, degraded |-> ~job[j].embedding,
                  needsReview |-> @.needsReview \/ job[j].doubtful, approved |-> FALSE]]
      BY <1>u, <1>t DEF storeResult
    <3>2. t \in DOMAIN profile
      BY DEF TypeOK
    <3>3. profile'[t].upload = u /\ profile'[t].degraded = ~job[j].embedding
      BY ONLY <3>1, <3>2, Zenon
    <3> QED BY <3>3
  <2>2. job[j].embedding \in BOOLEAN
    BY <1>1 DEF TypeOK, JobRecords, Free
  <2> QED BY <2>1, <2>2 DEF Clean
<1>4. VectorInv'
  <2>1. Clean(t)' => /\ job'[j].at = "saving" /\ job'[j].talent = t
                     /\ job'[j].upload = profile'[t].upload
    BY <1>1, <1>3
  <2>2. ASSUME NEW o \in Talents \ {t}, Clean(o)'
        PROVE \/ vector'[o] = profile'[o].upload.face
              \/ \E k \in Jobs : job'[k].at = "saving" /\ job'[k].talent = o
                               /\ job'[k].upload = profile'[o].upload
              \/ Excused(o)'
    <3>1. Clean(o)
      BY <1>1, <2>2 DEF Clean
    <3>2. Excused(o) => Excused(o)'
      BY <1>1 DEF Excused
    <3> QED BY <1>1, <3>1, <3>2 DEF FaceInv, VectorInv
  <2> QED BY <2>1, <2>2 DEF VectorInv
<1>5. OverlapInv'
  BY <1>1 DEF FaceInv, OverlapInv, Stored
<1>6. ComparedInv'
  <2>1. ASSUME NEW k \in Jobs, NEW o \in Talents, Stored(k)', job'[k].embedding = TRUE,
               o # job'[k].talent, Clean(o)', profile'[o].upload.face = job'[k].upload.face
        PROVE {job'[k].talent, o} \in excused'
    <3>1. k # j /\ job'[k] = job[k] /\ Stored(k)
      BY <1>1, <2>1 DEF Stored
    <3>2. CASE o = t
      BY <1>1, <1>t, <2>1, <3>1, <3>2 DEF FaceInv, OverlapInv, Stored
    <3>3. CASE o # t
      BY <1>1, <2>1, <3>1, <3>3 DEF FaceInv, ComparedInv, Stored, Clean
    <3> QED BY <3>2, <3>3
  <2> QED BY <2>1 DEF ComparedInv
<1>7. FacesApart'
  <2>1. ASSUME NEW o \in Talents, o # t, Clean(t)', Clean(o), profile[o].upload.face = u.face
        PROVE {t, o} \in excused
    BY <1>u, <1>1, <1>t, <1>3, <2>1 DEF FaceInv, ComparedInv, Stored
  <2>2. ASSUME NEW p \in Talents, NEW o \in Talents, p # o, Clean(p)', Clean(o)',
               profile'[p].upload.face = profile'[o].upload.face
        PROVE {p, o} \in excused'
    <3>1. CASE p = t
      <4>1. Clean(o) /\ profile[o].upload.face = u.face
        BY <1>1, <1>3, <2>2, <3>1 DEF Clean
      <4> QED BY <1>1, <2>1, <2>2, <3>1, <4>1
    <3>2. CASE o = t
      <4>1. {t, p} \in excused
        <5>1. Clean(p) /\ profile[p].upload.face = u.face
          BY <1>1, <1>3, <2>2, <3>2 DEF Clean
        <5> QED BY <2>1, <2>2, <3>2, <5>1
      <4>2. {t, p} = {p, t}
        OBVIOUS
      <4> QED BY <1>1, <3>2, <4>1, <4>2
    <3>3. CASE p # t /\ o # t
      BY <1>1, <2>2, <3>3 DEF FaceInv, FacesApart, Clean
    <3> QED BY <3>1, <3>2, <3>3
  <2> QED BY <2>2 DEF FacesApart, Clean
<1> QED BY <1>4, <1>5, <1>6, <1>7 DEF FaceInv

\* One face on one verified account, but where the pair is excused.
THEOREM FacesCorrect == Spec => []FaceInv
<1>1. Init => FaceInv
  BY DEF Init, FaceInv, VectorInv, OverlapInv, ComparedInv, FacesApart, NewProfile,
         Clean, Stored, Free
<1>2. TypeOK /\ FaceInv /\ [Next]_vars => FaceInv'
  <2> SUFFICES ASSUME TypeOK, FaceInv, [Next]_vars PROVE FaceInv'
    OBVIOUS
  <2> USE DEF Clean, Stored
  <2>1. ASSUME NEW t \in Talents, NEW j \in Jobs, NEW u \in Uploads, verifyTalentFace(t, j, u)
        PROVE FaceInv'
    BY <2>1, QuietStep DEF verifyTalentFace, TypeOK
  <2>2. ASSUME NEW j \in Jobs, Fail(j), vector' = vector, excused' = excused PROVE FaceInv'
    <3>1. \A o \in Talents : Clean(o)' => profile'[o] = profile[o]
      BY <2>2 DEF Fail, TypeOK
    <3>2. \A k \in Jobs \ {j} : job'[k] = job[k]
      BY <2>2 DEF Fail, TypeOK
    <3>3. job'[j].at = "free"
      BY <2>2 DEF Fail, TypeOK, Free
    <3>4. \A t \in Talents : job[j].talent = t => ~Clean(t)'
      BY <2>2 DEF Fail, TypeOK
    <3> QED BY <2>2, <3>1, <3>2, <3>3, <3>4, QuietStep
  <2>3. ASSUME NEW j \in Jobs, engineRefuses(j) \/ engineTroubleRefuses(j) \/ laterFails(j)
        PROVE FaceInv'
    BY <2>2, <2>3 DEF engineRefuses, engineTroubleRefuses, laterFails
  <2>4. ASSUME NEW j \in Jobs, enginesDown(j) PROVE FaceInv'
    <3>1. /\ \A k \in Jobs \ {j} : job'[k] = job[k]
          /\ job[j].at = "judging" /\ job'[j].at = "noAnswer"
          /\ UNCHANGED <<profile, vector, excused>>
      BY <2>4 DEF enginesDown, TypeOK
    <3> QED BY <3>1, QuietStep
  <2>5. ASSUME NEW j \in Jobs, NEW doubtful \in BOOLEAN, NEW embedding \in BOOLEAN,
               engineAccepts(j, doubtful, embedding)
        PROVE FaceInv'
    BY <2>5, QuietStep DEF engineAccepts, TypeOK
  <2>6. ASSUME NEW j \in Jobs, checkIdentity(j) PROVE FaceInv'
    <3>1. Fail(j) => vector' = vector /\ excused' = excused
      <4>1. job[j].at = "checking" /\ vector' = vector
        BY <2>6 DEF checkIdentity
      <4>2. Fail(j) => job'[j].at = "free"
        BY DEF Fail, TypeOK, Free
      <4>3. excused' = excused \/ job'[j].at = "storing"
        BY <2>6 DEF checkIdentity, TypeOK
      <4> QED BY <4>1, <4>2, <4>3
    <3> QED BY <2>2, <2>6, <3>1, CheckStep
  <2>7. ASSUME NEW j \in Jobs, storeResult(j) PROVE FaceInv'
    BY <2>2, <2>7, StoreStep DEF storeResult
  <2>8. ASSUME NEW j \in Jobs, saveVector(j) PROVE FaceInv'
    <3> SUFFICES ASSUME Enforcing PROVE FaceInv'
      BY DEF FaceInv
    <3>t. PICK t \in Talents : t = job[j].talent
      BY <2>8 DEF saveVector, TypeOK, JobRecords, Free
    <3>1. /\ \A k \in Jobs \ {j} : job'[k] = job[k]
          /\ job'[j].at = "recording" /\ profile' = profile
          /\ \A o \in Talents \ {t} : vector'[o] = vector[o]
          /\ excused \subseteq excused'
          /\ vector'[t] = job[j].upload.face
          /\ profile[t].upload = job[j].upload \/ Excused(t)'
      BY <2>8, <3>t DEF saveVector, TypeOK, Excused, Others
    <3>2. ASSUME NEW o \in Talents, Excused(o) PROVE Excused(o)'
      BY <3>1, <3>2 DEF Excused
    <3>3. VectorInv'
      BY <3>t, <3>1, <3>2 DEF FaceInv, VectorInv
    <3> QED BY <3>1, <3>3 DEF FaceInv, OverlapInv, ComparedInv, FacesApart
  <2>9. ASSUME NEW j \in Jobs, recordOutcome(j) PROVE FaceInv'
    <3>1. \A o \in Talents : /\ profile'[o].status = profile[o].status
                             /\ profile'[o].degraded = profile[o].degraded
                             /\ profile'[o].upload = profile[o].upload
      BY <2>9 DEF recordOutcome, TypeOK
    <3> QED BY <2>9, <3>1, QuietStep DEF recordOutcome, TypeOK, Free
  <2>10. ASSUME NEW t \in Talents, verifyExecutionUnreadable(t) \/ getIdentityReviewQueue(t)
         PROVE FaceInv'
    <3>1. \A o \in Talents : /\ profile'[o].status = profile[o].status
                             /\ profile'[o].degraded = profile[o].degraded
                             /\ profile'[o].upload = profile[o].upload
      BY <2>10 DEF verifyExecutionUnreadable, getIdentityReviewQueue, TypeOK
    <3>2. UNCHANGED <<vector, job, excused>>
      BY <2>10 DEF verifyExecutionUnreadable, getIdentityReviewQueue
    <3> QED BY <3>1, <3>2, QuietStep
  <2>11. ASSUME NEW approve \in BOOLEAN, resolveIdentityReview(approve) PROVE FaceInv'
    <3>1. PICK t \in Talents : t = admin.talent
      BY <2>11 DEF resolveIdentityReview, TypeOK, NoRequest
    <3>2. CASE ~approve
      <4>1. /\ \A o \in Talents \ {t} : profile'[o] = profile[o]
            /\ profile'[t].status = "FAILED"
            /\ UNCHANGED <<vector, job, excused>>
        BY <2>11, <3>1, <3>2 DEF resolveIdentityReview, TypeOK
      <4> QED BY <4>1, QuietStep
    <3>3. CASE approve
      <4> SUFFICES ASSUME Enforcing PROVE FaceInv'
        BY DEF FaceInv
      <4>1. /\ job' = job /\ vector' = vector /\ excused \subseteq excused'
            /\ \A o \in Talents \ {t} : profile'[o] = profile[o]
            /\ \A o \in Talents \ {t} : {t, o} \in excused'
        BY <2>11, <3>1, <3>3 DEF resolveIdentityReview, TypeOK, Others
      <4>2. \A o \in Talents \ {t} : {o, t} \in excused'
        <5>1. \A o : {o, t} = {t, o}
          OBVIOUS
        <5> QED BY <4>1, <5>1
      <4>3. VectorInv'
        BY <4>1 DEF FaceInv, VectorInv, Excused, Others
      <4>4. OverlapInv'
        BY <4>1 DEF FaceInv, OverlapInv
      <4>5. ComparedInv'
        <5>1. \A j \in Jobs : Stored(j) => job[j].talent \in Talents
          BY DEF TypeOK, JobRecords, Free
        <5> QED BY <4>1, <4>2, <5>1 DEF FaceInv, ComparedInv
      <4>6. FacesApart'
        BY <4>1, <4>2 DEF FaceInv, FacesApart
      <4> QED BY <4>3, <4>4, <4>5, <4>6 DEF FaceInv
    <3> QED BY <3>2, <3>3
  <2>12. CASE clearVector
    <3> SUFFICES ASSUME Enforcing PROVE FaceInv'
      BY DEF FaceInv
    <3>t. PICK t \in Talents : t = admin.talent
      BY <2>12 DEF clearVector, TypeOK, NoRequest
    <3>1. /\ job' = job /\ profile' = profile /\ excused \subseteq excused'
          /\ \A o \in Talents \ {t} : vector'[o] = vector[o]
          /\ profile[t].status = "FAILED" \/ Excused(t)'
      BY <2>12, <3>t DEF clearVector, TypeOK, Excused
    <3>2. ASSUME NEW o \in Talents, Excused(o) PROVE Excused(o)'
      BY <3>1, <3>2 DEF Excused
    <3>3. VectorInv'
      BY <3>t, <3>1, <3>2 DEF FaceInv, VectorInv
    <3> QED BY <3>1, <3>3 DEF FaceInv, OverlapInv, ComparedInv, FacesApart
  <2>13. CASE restart
    <3> SUFFICES ASSUME Enforcing PROVE FaceInv'
      BY DEF FaceInv
    <3>1. /\ \A j \in Jobs : job'[j].at = "free"
          /\ profile' = profile /\ vector' = vector /\ excused \subseteq excused'
          /\ \A j \in Jobs, o \in Talents :
                job[j].at = "saving" => {job[j].talent, o} \in excused'
      BY <2>13 DEF restart, Free
    <3>2. ASSUME NEW o \in Talents, Excused(o) PROVE Excused(o)'
      BY <3>1, <3>2 DEF Excused
    <3>3. ASSUME NEW j \in Jobs, NEW o \in Talents, job[j].at = "saving", job[j].talent = o
          PROVE Excused(o)'
      BY <3>1, <3>3 DEF Excused, Others
    <3>4. VectorInv'
      BY <3>1, <3>2, <3>3 DEF FaceInv, VectorInv
    <3> QED BY <3>1, <3>4 DEF FaceInv, OverlapInv, ComparedInv, FacesApart
  <2>14. CASE UNCHANGED vars
    BY <2>14, QuietStep DEF vars
  <2> QED
    BY <2>1, <2>3, <2>4, <2>5, <2>6, <2>7, <2>8, <2>9, <2>10, <2>11, <2>12, <2>13, <2>14
       DEF Next, Work
<1> QED BY <1>1, <1>2, TypeCorrect, PTL DEF Spec

\* "1 wajah 1 akun", with the exceptions OneFaceOneAccount names.
THEOREM OneFace == Spec => []OneFaceOneAccount
<1>1. TypeOK /\ FaceInv => OneFaceOneAccount
  <2>1. TypeOK => \A t \in Talents : profile[t].degraded \/ profile[t].degraded = FALSE
    BY DEF TypeOK
  <2> QED BY <2>1 DEF FaceInv, FacesApart, Clean, OneFaceOneAccount
<1> QED BY <1>1, TypeCorrect, FacesCorrect, PTL
=============================================================================
