------------------------------ MODULE Identity ------------------------------
(***************************************************************************)
(* Verification of talents' identities: verification.service.ts with       *)
(* identity-dedupe.service.ts, the engines behind ai.service.ts, and the   *)
(* review of doubtful cases by admins (admin.service.ts).                  *)
(*                                                                         *)
(* A verification runs in the background; each read and each write of it   *)
(* is a step.  Only ktpNik and biometricDataHash are unique in the         *)
(* database; faces are compared first and their vectors saved later.       *)
(***************************************************************************)
EXTENDS Integers, FiniteSets

CONSTANTS
    Talents,
    Uploads,        \* selfie and card: records of a NIK, a photo and a face
    Alike,          \* pairs of different faces in the review zone of the distance
    Jobs,           \* verifications that run at once
    Enforcing,      \* IDENTITY_DEDUPE_MODE is not "shadow"
    None,
    MaxAttempts,    \* bound: verifications started
    MaxRestarts

ASSUME UploadsAssumption ==
    \A u, v \in Uploads : u.photo = v.photo => u.face = v.face
ASSUME FacesAssumption == \A u \in Uploads : u.face # None
ASSUME SwitchAssumption == Enforcing \in BOOLEAN /\ {MaxAttempts, MaxRestarts} \subseteq Nat

VARIABLES
    profile,        \* identity columns of TalentProfile
    vector,         \* biometricFeatureVector: a face or None
    job,            \* background verifications
    admin,          \* the admin's request: the talent of it, and how far it is
    attempts, restarts,
    excused         \* history: pairs of talents whose faces were not compared

vars == <<profile, vector, job, admin, attempts, restarts, excused>>

Free == [at |-> "free"]
NoRequest == [at |-> "none"]

\* upload is what ktpNik, biometricDataHash and the encrypted pictures are of;
\* doubtful is the verdict of the engine on it (faceDistance in the grey zone).
NewProfile == [status |-> "UNVERIFIED", upload |-> None, doubtful |-> FALSE,
               degraded |-> FALSE, needsReview |-> FALSE, approved |-> FALSE]

Init ==
    /\ profile = [t \in Talents |-> NewProfile]
    /\ vector = [t \in Talents |-> None]
    /\ job = [j \in Jobs |-> Free]
    /\ admin = NoRequest
    /\ attempts = 0 /\ restarts = 0
    /\ excused = {}

Running(t) == {j \in Jobs : job[j].at # "free" /\ job[j].talent = t}
Others(t) == Talents \ {t}

-----------------------------------------------------------------------------
(* verifyTalentFace and verifyTalentFaceBackground.                        *)

\* PENDING at once, whatever the status was; then the work goes on behind.
verifyTalentFace(t, j, u) ==
    /\ attempts < MaxAttempts
    /\ job[j].at = "free"
    /\ attempts' = attempts + 1
    /\ profile' = [profile EXCEPT ![t].status = "PENDING"]
    /\ job' = [job EXCEPT ![j] = [at |-> "judging", talent |-> t, upload |-> u]]
    /\ UNCHANGED <<vector, admin, restarts, excused>>

\* The catch: FAILED.  UNVERIFIED is for a FaceEngineUnavailableError, and
\* verifyKtpAndSelfie lets none through.
Fail(j) ==
    /\ profile' = [profile EXCEPT ![job[j].talent].status = "FAILED"]
    /\ job' = [job EXCEPT ![j] = Free]

\* The card is invalid or the face another, says Python or, when Python is in
\* trouble, the vision model.
engineRefuses(j) ==
    /\ job[j].at = "judging"
    /\ Fail(j)
    /\ UNCHANGED <<vector, admin, attempts, restarts, excused>>

\* Neither Python nor the vision model answers: verifyKtpAndSelfie answers like
\* for an invalid card.
enginesDown(j) ==
    /\ job[j].at = "judging"
    /\ job' = [job EXCEPT ![j].at = "noAnswer"]
    /\ UNCHANGED <<profile, vector, admin, attempts, restarts, excused>>

engineTroubleRefuses(j) ==
    /\ job[j].at = "noAnswer"
    /\ Fail(j)
    /\ UNCHANGED <<vector, admin, attempts, restarts, excused>>

\* Accepted: by Python, in doubt or not, with an embedding when the picture
\* could be aligned; or by the vision model, without one and never in doubt.
engineAccepts(j, doubtful, embedding) ==
    /\ job[j].at = "judging"
    /\ job' = [job EXCEPT ![j] = [at |-> "checking", talent |-> job[j].talent,
                 upload |-> job[j].upload, doubtful |-> doubtful, embedding |-> embedding]]
    /\ UNCHANGED <<profile, vector, admin, attempts, restarts, excused>>

\* The NIK or the photo is on another account.
Taken(t, u) ==
    \E o \in Others(t) : /\ profile[o].upload # None
                         /\ \/ profile[o].upload.nik = u.nik
                            \/ profile[o].upload.photo = u.photo

\* findNearest: PENDING counts, FAILED and UNVERIFIED do not.
Comparable(t) ==
    {o \in Others(t) : vector[o] # None /\ profile[o].status \in {"VERIFIED", "PENDING"}}

\* Mutated form of Decision: nobody is refused, as in shadow mode.
Decision_Shadow(t, face) ==
    IF \E o \in Comparable(t) : vector[o] = face \/ {vector[o], face} \in Alike
    THEN "REVIEW" ELSE "PASS"

\* evaluate, of the nearest.
Decision(t, face) ==
    IF \E o \in Comparable(t) : vector[o] = face
    THEN IF Enforcing THEN "REJECT" ELSE "REVIEW"
    ELSE IF \E o \in Comparable(t) : {vector[o], face} \in Alike THEN "REVIEW" ELSE "PASS"

\* A comparison while another account's is on its way to a saved vector sees
\* nothing of it.
InFlight(t) ==
    {job[j].talent : j \in {k \in Jobs : job[k].at \in {"storing", "saving"}}} \ {t}

\* NIK and hash are looked for, and without an embedding no face is compared.
\* The reads follow each other; the first two are made good by unique indexes.
checkIdentity(j) ==
    LET t == job[j].talent
        d == IF job[j].embedding THEN Decision(t, job[j].upload.face) ELSE "PASS"
    IN  /\ job[j].at = "checking"
        /\ IF Taken(t, job[j].upload) \/ d = "REJECT"
           THEN Fail(j) /\ UNCHANGED excused
           ELSE /\ job' = [job EXCEPT ![j] =
                             [at |-> "storing", talent |-> t, upload |-> job[j].upload,
                              doubtful |-> job[j].doubtful, embedding |-> job[j].embedding,
                              decision |-> d]]
                /\ excused' = excused \cup {{t, o} : o \in InFlight(t)}
                /\ UNCHANGED profile
        /\ UNCHANGED <<vector, admin, attempts, restarts>>

\* Mutated form of storeResult: a case in doubt is let through, and marked.
storeResult_Lets(j) ==
    /\ job[j].at = "storing"
    /\ ~Taken(job[j].talent, job[j].upload)
    /\ profile' = [profile EXCEPT ![job[j].talent] =
                     [status |-> "VERIFIED", upload |-> job[j].upload,
                      doubtful |-> job[j].doubtful, degraded |-> ~job[j].embedding,
                      needsReview |-> @.needsReview \/ job[j].doubtful, approved |-> FALSE]]
    /\ job' = [job EXCEPT ![j] = IF job[j].embedding THEN [@ EXCEPT !.at = "saving"] ELSE Free]
    /\ UNCHANGED <<vector, admin, attempts, restarts, excused>>

\* The update; the unique indexes refuse what another account stored meanwhile.
storeResult(j) ==
    /\ job[j].at = "storing"
    /\ IF Taken(job[j].talent, job[j].upload)
       THEN Fail(j)
       ELSE /\ profile' = [profile EXCEPT ![job[j].talent] =
                 [status |-> IF job[j].doubtful THEN "PENDING" ELSE "VERIFIED",
                  upload |-> job[j].upload, doubtful |-> job[j].doubtful,
                  degraded |-> ~job[j].embedding,
                  needsReview |-> @.needsReview \/ job[j].doubtful, approved |-> FALSE]]
            /\ job' = [job EXCEPT ![j] =
                         IF job[j].embedding THEN [@ EXCEPT !.at = "saving"] ELSE Free]
    /\ UNCHANGED <<vector, admin, attempts, restarts, excused>>

\* Another verification of the same talent may have stored its upload meanwhile.
saveVector(j) ==
    LET t == job[j].talent
    IN  /\ job[j].at = "saving"
        /\ vector' = [vector EXCEPT ![t] = job[j].upload.face]
        /\ excused' = IF profile[t].upload = job[j].upload THEN excused
                      ELSE excused \cup {{t, o} : o \in Others(t)}
        /\ job' = [job EXCEPT ![j].at = "recording"]
        /\ UNCHANGED <<profile, admin, attempts, restarts>>

\* Mutated form of recordOutcome: a clean comparison takes the mark away.
recordOutcome_Clears(j) ==
    /\ job[j].at = "recording"
    /\ profile' = [profile EXCEPT ![job[j].talent].needsReview = job[j].decision = "REVIEW"]
    /\ job' = [job EXCEPT ![j] = Free]
    /\ UNCHANGED <<vector, admin, attempts, restarts, excused>>

\* recordOutcome, then notice and badges.
recordOutcome(j) ==
    /\ job[j].at = "recording"
    /\ profile' = [profile EXCEPT ![job[j].talent].needsReview =
                     @ \/ job[j].decision = "REVIEW"]
    /\ job' = [job EXCEPT ![j] = Free]
    /\ UNCHANGED <<vector, admin, attempts, restarts, excused>>

\* The write of the vector, of the outcome or of the notice fails: the catch makes
\* the talent FAILED, stored as it is.
laterFails(j) ==
    /\ job[j].at \in {"saving", "recording"}
    /\ Fail(j)
    /\ UNCHANGED <<vector, admin, attempts, restarts, excused>>

\* verifyExecution of a verified talent whose pictures no longer decrypt: the
\* server was started again with another APP_SECRET.
verifyExecutionUnreadable(t) ==
    /\ restarts > 0
    /\ profile[t].status = "VERIFIED"
    /\ ~profile[t].needsReview
    /\ profile' = [profile EXCEPT ![t].needsReview = TRUE]
    /\ UNCHANGED <<vector, job, admin, attempts, restarts, excused>>

-----------------------------------------------------------------------------
(* Review by an admin.                                                     *)

getIdentityReviewQueue(t) ==
    /\ admin.at = "none"
    /\ profile[t].needsReview
    /\ admin' = [at |-> "listed", talent |-> t]
    /\ UNCHANGED <<profile, vector, job, attempts, restarts, excused>>

\* Nothing is asked again of what was listed.
resolveIdentityReview(approve) ==
    /\ admin.at = "listed"
    /\ profile' = [profile EXCEPT ![admin.talent].needsReview = FALSE,
                                  ![admin.talent].status = IF approve THEN "VERIFIED" ELSE "FAILED",
                                  ![admin.talent].approved = approve]
    /\ excused' = IF approve THEN excused \cup {{admin.talent, o} : o \in Others(admin.talent)}
                  ELSE excused
    /\ admin' = IF approve THEN NoRequest ELSE [at |-> "clearing", talent |-> admin.talent]
    /\ UNCHANGED <<vector, job, attempts, restarts>>

\* Nor is it asked whether the vector is still the one that was rejected: a
\* verification that passed meanwhile loses its own.
clearVector ==
    /\ admin.at = "clearing"
    /\ vector' = [vector EXCEPT ![admin.talent] = None]
    /\ excused' = IF profile[admin.talent].status = "FAILED" THEN excused
                  ELSE excused \cup {{admin.talent, o} : o \in Others(admin.talent)}
    /\ admin' = NoRequest
    /\ UNCHANGED <<profile, job, attempts, restarts>>

\* The process ends: what ran in the background is not taken up again.
restart ==
    /\ restarts < MaxRestarts
    /\ admin.at = "clearing" \/ \E j \in Jobs : job[j].at # "free"
    /\ restarts' = restarts + 1
    /\ excused' = excused \cup {{job[j].talent, o} : j \in {k \in Jobs : job[k].at = "saving"},
                                                     o \in Talents}
    /\ job' = [j \in Jobs |-> Free]
    /\ admin' = NoRequest
    /\ UNCHANGED <<profile, vector, attempts>>

-----------------------------------------------------------------------------
Work(j) ==
    \/ engineRefuses(j) \/ enginesDown(j) \/ engineTroubleRefuses(j)
    \/ \E doubtful, embedding \in BOOLEAN : engineAccepts(j, doubtful, embedding)
    \/ checkIdentity(j) \/ storeResult(j)
    \/ saveVector(j) \/ recordOutcome(j) \/ laterFails(j)

Next ==
    \/ \E t \in Talents, j \in Jobs, u \in Uploads : verifyTalentFace(t, j, u)
    \/ \E j \in Jobs : Work(j)
    \/ \E t \in Talents : verifyExecutionUnreadable(t) \/ getIdentityReviewQueue(t)
    \/ \E approve \in BOOLEAN : resolveIdentityReview(approve)
    \/ clearVector
    \/ restart

Spec == Init /\ [][Next]_vars

-----------------------------------------------------------------------------
Statuses == {"UNVERIFIED", "PENDING", "VERIFIED", "FAILED"}

JobRecords ==
    {Free}
    \cup [at : {"judging", "noAnswer"}, talent : Talents, upload : Uploads]
    \cup [at : {"checking"}, talent : Talents, upload : Uploads,
          doubtful : BOOLEAN, embedding : BOOLEAN]
    \cup [at : {"storing", "saving", "recording"}, talent : Talents, upload : Uploads,
          doubtful : BOOLEAN, embedding : BOOLEAN, decision : {"PASS", "REVIEW"}]

TypeOK ==
    /\ profile \in [Talents -> [status : Statuses, upload : Uploads \cup {None},
                      doubtful : BOOLEAN, degraded : BOOLEAN, needsReview : BOOLEAN,
                      approved : BOOLEAN]]
    /\ vector \in [Talents -> {u.face : u \in Uploads} \cup {None}]
    /\ job \in [Jobs -> JobRecords]
    /\ admin \in {NoRequest} \cup [at : {"listed", "clearing"}, talent : Talents]
    /\ attempts \in Nat /\ restarts \in Nat

\* "1 wajah 1 akun": two verified accounts have the same face only where their
\* comparisons overlapped or were cut off by a restart, an admin let one of them
\* pass or rejected it while it was verified anew, or one was verified without an embedding, and is marked so.
OneFaceOneAccount ==
    Enforcing =>
        \A t, o \in Talents :
            /\ t # o
            /\ profile[t].status = "VERIFIED" /\ profile[o].status = "VERIFIED"
            /\ profile[t].upload.face = profile[o].upload.face
            => profile[t].degraded \/ profile[o].degraded \/ {t, o} \in excused

\* "Statusnya kini PENDING sampai petugas memutuskan": who is verified on
\* documents in doubt was let pass by an admin since they were stored.
DoubtDecidedByAdmin ==
    \A t \in Talents :
        profile[t].status = "VERIFIED" /\ profile[t].doubtful => profile[t].approved

\* Nobody is left PENDING unseen: a verification is running, or an admin has the
\* case in the queue, or a restart ended the verification.
PendingIsLookedAt ==
    \A t \in Talents :
        profile[t].status = "PENDING" =>
            profile[t].needsReview \/ Running(t) # {} \/ restarts > 0
=============================================================================
