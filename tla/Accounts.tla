------------------------------ MODULE Accounts ------------------------------
(***************************************************************************)
(* An account and a company under concurrent requests: reset links         *)
(* (auth.service.ts), the cache of JwtAuthGuard and bans, invite codes     *)
(* (users.service.ts, companies.service.ts) and the decisions on a         *)
(* company's legal documents (admin.service.ts, verification.service.ts).  *)
(*                                                                         *)
(* Each read and each write of a handler is a step; a handler takes less   *)
(* than a unit of the clock.                                               *)
(***************************************************************************)
EXTENDS Integers, FiniteSets

CONSTANTS
    Reqs,           \* requests under way at once
    CacheTTL,       \* ACCOUNT_CACHE_TTL_MS
    LinkTTL,        \* RESET_TOKEN_TTL_MS
    CodeTTL,        \* INVITE_CODE_TTL_HOURS
    MaxReqs,        \* bound: requests that write
    MaxNow          \* bound: the clock

ASSUME NumbersAssumption ==
    {CacheTTL, LinkTTL, CodeTTL, MaxReqs, MaxNow} \subseteq Nat \ {0}

VARIABLES
    now,
    banned, since,  \* User.isBanned, and since when
    cache,          \* the account in the cache of the guard: until when it is let in
    links,          \* PasswordResetToken rows
    code,           \* inviteCode with its end; numbered, 0 is null
    verified, kyb,  \* isVerified of the owner, kybStatus of the company
    req, started,
    resets, joined, \* history: how often each link, each code was used
    disturbed       \* history: what overlapped or was interrupted

account == <<banned, since>>
company == <<verified, kyb>>
vars == <<now, account, cache, links, code, company, req, started, resets, joined, disturbed>>

Serials == 1 .. MaxReqs
Free == [at |-> "free"]
NoCode == [serial |-> 0, ends |-> 0]
Decisions == {"VERIFIED", "FAILED"}

\* A company that has registered is PENDING.
Init ==
    /\ now = 1
    /\ banned = FALSE /\ since = 0
    /\ cache = 0
    /\ links = {}
    /\ code = NoCode
    /\ verified = FALSE /\ kyb = "PENDING"
    /\ req = [r \in Reqs |-> Free] /\ started = 0
    /\ resets = [s \in Serials |-> 0] /\ joined = [s \in Serials |-> 0]
    /\ disturbed = {}

Begin(r, record) ==
    /\ req[r].at = "free" /\ started < MaxReqs
    /\ started' = started + 1
    /\ req' = [req EXCEPT ![r] = record]

\* A request that is done with one write.
Count == started < MaxReqs /\ started' = started + 1

End(r) == req' = [req EXCEPT ![r] = Free]

At(places) == {r \in Reqs : req[r].at \in places}

\* Another request is at one of the places too.
Overlap(r, places, what) ==
    disturbed' = IF At(places) \ {r} = {} THEN disturbed ELSE disturbed \cup {what}

-----------------------------------------------------------------------------
(* JwtAuthGuard: an account is read from the cache, or read and cached.    *)

toggleBanUser ==
    /\ Count
    /\ banned' = ~banned
    /\ since' = IF banned THEN 0 ELSE now
    /\ UNCHANGED <<now, cache, links, code, company, req, resets, joined, disturbed>>

\* Mutated form of guardHit: the time is taken anew with every request.
guardHit_Sliding ==
    /\ cache > now
    /\ cache' = now + CacheTTL
    /\ UNCHANGED <<now, account, links, code, company, req, started, resets, joined, disturbed>>

\* A fresh entry lets the request in, and stays what it is.
guardHit ==
    /\ cache > now
    /\ UNCHANGED vars

guardRead(r) ==
    /\ cache <= now
    /\ req[r].at = "free"
    /\ req' = [req EXCEPT ![r] = [at |-> "guarding", banned |-> banned]]
    /\ UNCHANGED <<now, account, cache, links, code, company, started, resets, joined, disturbed>>

\* An entry of a banned account is deleted as soon as it is stored.
guardStore(r) ==
    /\ req[r].at = "guarding"
    /\ cache' = IF req[r].banned THEN 0 ELSE now + CacheTTL
    /\ End(r)
    /\ UNCHANGED <<now, account, links, code, company, started, resets, joined, disturbed>>

\* Other accounts have filled the cache.
pruneExpired ==
    /\ cache # 0
    /\ cache' = 0
    /\ UNCHANGED <<now, account, links, code, company, req, started, resets, joined, disturbed>>

-----------------------------------------------------------------------------
(* Reset links.                                                            *)

\* Mutated form of forgotDelete: links that can still be used are left alone.
forgotDelete_Expired(r) ==
    /\ ~banned
    /\ Begin(r, [at |-> "linking", serial |-> started + 1])
    /\ links' = {l \in links : l.ends >= now}
    /\ Overlap(r, {"linking"}, "links")
    /\ UNCHANGED <<now, account, cache, code, company, resets, joined>>

\* forgotPassword as far as deleteMany.
forgotDelete(r) ==
    /\ ~banned
    /\ Begin(r, [at |-> "linking", serial |-> started + 1])
    /\ links' = {}
    /\ Overlap(r, {"linking"}, "links")
    /\ UNCHANGED <<now, account, cache, code, company, resets, joined>>

\* The row, and then the mail, which may not be sent.
forgotPassword(r) ==
    /\ req[r].at = "linking"
    /\ links' = links \cup {[serial |-> req[r].serial, ends |-> now + LinkTTL]}
    /\ End(r)
    /\ UNCHANGED <<now, account, cache, code, company, started, resets, joined, disturbed>>

resetRead(r, l) ==
    /\ l.ends >= now
    /\ Begin(r, [at |-> "resetting", link |-> l])
    /\ Overlap(r, {"resetting"}, "resets")
    /\ UNCHANGED <<now, account, cache, links, code, company, resets, joined>>

\* Password and links in one transaction, in which the link is not looked at again.
resetPassword(r) ==
    /\ req[r].at = "resetting"
    /\ resets' = [resets EXCEPT ![req[r].link.serial] = @ + 1]
    /\ links' = {}
    /\ End(r)
    /\ UNCHANGED <<now, account, cache, code, company, started, joined, disturbed>>

-----------------------------------------------------------------------------
(* Invite codes.                                                           *)

generateInviteCode ==
    /\ Count
    /\ code' = [serial |-> started + 1, ends |-> now + CodeTTL]
    /\ UNCHANGED <<now, account, cache, links, company, req, resets, joined, disturbed>>

joinRead(r) ==
    /\ code.serial # 0 /\ code.ends >= now
    /\ Begin(r, [at |-> "joining", serial |-> code.serial])
    /\ UNCHANGED <<now, account, cache, links, code, company, resets, joined, disturbed>>

\* Mutated form of createTeamMember: the code is cleared, whatever it is by now.
createTeamMember_Unconditional(r) ==
    /\ req[r].at = "joining"
    /\ code' = NoCode
    /\ joined' = [joined EXCEPT ![req[r].serial] = @ + 1]
    /\ End(r)
    /\ UNCHANGED <<now, account, cache, links, company, started, resets, disturbed>>

\* The updateMany takes the code away if it is still there, and tells by its count.
createTeamMember(r) ==
    /\ req[r].at = "joining"
    /\ IF code.serial = req[r].serial
       THEN code' = NoCode /\ joined' = [joined EXCEPT ![req[r].serial] = @ + 1]
       ELSE UNCHANGED <<code, joined>>
    /\ End(r)
    /\ UNCHANGED <<now, account, cache, links, company, started, resets, disturbed>>

-----------------------------------------------------------------------------
(* Legal documents of the company.                                         *)

submitCompanyKyb ==
    /\ Count
    /\ kyb' = "PENDING"
    /\ UNCHANGED <<now, account, cache, links, code, verified, req, resets, joined, disturbed>>

Deciding == {"deciding", "recording"}

\* Any company can be decided on, listed by getPendingCompanies or not.
verifyRead(r, decision) ==
    /\ Begin(r, [at |-> "deciding", decision |-> decision])
    /\ Overlap(r, Deciding, "decisions")
    /\ UNCHANGED <<now, account, cache, links, code, company, resets, joined>>

\* Mutated form of verifyUser: who is refused keeps the access there was.
verifyUser_Keeps(r) ==
    /\ req[r].at = "deciding"
    /\ verified' = (verified \/ req[r].decision = "VERIFIED")
    /\ req' = [req EXCEPT ![r].at = "recording"]
    /\ UNCHANGED <<now, account, cache, links, code, kyb, started, resets, joined, disturbed>>

verifyUser(r) ==
    /\ req[r].at = "deciding"
    /\ verified' = (req[r].decision = "VERIFIED")
    /\ req' = [req EXCEPT ![r].at = "recording"]
    /\ UNCHANGED <<now, account, cache, links, code, kyb, started, resets, joined, disturbed>>

verifyCompany(r) ==
    /\ req[r].at = "recording"
    /\ kyb' = req[r].decision
    /\ End(r)
    /\ UNCHANGED <<now, account, cache, links, code, verified, started, resets, joined, disturbed>>

-----------------------------------------------------------------------------
Tick ==
    /\ now < MaxNow
    /\ \A r \in Reqs : req[r].at = "free"
    /\ now' = now + 1
    /\ UNCHANGED <<account, cache, links, code, company, req, started, resets, joined, disturbed>>

\* The process ends: requests are gone, and so is the cache.
restart ==
    /\ \E r \in Reqs : req[r].at # "free"
    /\ req' = [r \in Reqs |-> Free]
    /\ cache' = 0
    /\ disturbed' = disturbed \cup {"decisions" : r \in At({"recording"})}
    /\ UNCHANGED <<now, account, links, code, company, started, resets, joined>>

Next ==
    \/ toggleBanUser \/ guardHit \/ pruneExpired
    \/ generateInviteCode \/ submitCompanyKyb
    \/ \E r \in Reqs :
         \/ guardRead(r) \/ guardStore(r)
         \/ forgotDelete(r) \/ forgotPassword(r)
         \/ \E l \in links : resetRead(r, l)
         \/ resetPassword(r)
         \/ joinRead(r) \/ createTeamMember(r)
         \/ \E decision \in Decisions : verifyRead(r, decision)
         \/ verifyUser(r) \/ verifyCompany(r)
    \/ Tick \/ restart

Spec == Init /\ [][Next]_vars

-----------------------------------------------------------------------------
\* "membuat pemblokiran berlaku dalam hitungan detik, bukan hari": the cache lets a
\* banned account in for less than its TTL, however often it is asked, and also
\* when the ban came between a read and the storing of what was read.
BanBites == banned /\ cache > now => now - since < CacheTTL

\* "hanya satu tautan yang hidup pada satu waktu", "hanya bisa dipakai sekali":
\* unless two requests for a link, or two uses of one, overlapped.
LinksAreSingle ==
    /\ Cardinality(links) > 1 => "links" \in disturbed
    /\ \A s \in Serials : resets[s] > 1 => "resets" \in disturbed

\* "dua pendaftaran serentak tidak bisa memakai kode yang sama".
InviteUsedOnce == \A s \in Serials : joined[s] <= 1

\* VerifiedCompanyGuard reads isVerified, the admins' list kybStatus: a company that
\* was refused has no access, unless two decisions overlapped or one was cut off.
RefusedHasNoAccess ==
    kyb = "FAILED" /\ verified =>
        At({"recording"}) # {} \/ "decisions" \in disturbed
=============================================================================
