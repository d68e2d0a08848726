--------------------------- MODULE AccountsProofs ---------------------------
(***************************************************************************)
(* Proofs about Accounts, for any number of requests, TTLs and bounds.     *)
(*                                                                         *)
(* Each of the four parts of the module has an invariant of its own, which *)
(* says what a request under way may still do with what it has read.       *)
(***************************************************************************)
EXTENDS Accounts, FiniteSetTheorems, TLAPS

Link == [serial : Serials, ends : Nat]

Busy ==
    {Free}
    \cup [at : {"guarding"}, banned : BOOLEAN]
    \cup [at : {"linking"}, serial : Serials]
    \cup [at : {"resetting"}, link : Link]
    \cup [at : {"joining"}, serial : Serials]
    \cup [at : {"deciding", "recording"}, decision : Decisions]

TypeOK ==
    /\ now \in Nat /\ since \in Nat /\ cache \in Nat
    /\ banned \in BOOLEAN /\ verified \in BOOLEAN
    /\ kyb \in {"PENDING"} \cup Decisions
    /\ links \in SUBSET Link
    /\ code \in [serial : {0} \cup Serials, ends : Nat]
    /\ req \in [Reqs -> Busy]
    /\ started \in 0 .. MaxReqs
    /\ resets \in [Serials -> Nat] /\ joined \in [Serials -> Nat]
    /\ disturbed \in SUBSET {"links", "resets", "decisions"}

Requests(r) ==
    \/ guardRead(r) \/ guardStore(r)
    \/ forgotDelete(r) \/ forgotPassword(r)
    \/ \E l \in links : resetRead(r, l)
    \/ resetPassword(r)
    \/ joinRead(r) \/ createTeamMember(r)
    \/ \E decision \in Decisions : verifyRead(r, decision)
    \/ verifyUser(r) \/ verifyCompany(r)

LEMMA Steps ==
    [Next]_vars <=> \/ toggleBanUser \/ guardHit \/ pruneExpired
                    \/ generateInviteCode \/ submitCompanyKyb
                    \/ \E r \in Reqs : Requests(r)
                    \/ Tick \/ restart
                    \/ UNCHANGED vars
BY DEF Next, Requests

LEMMA Bounds == /\ CacheTTL \in Nat \ {0} /\ LinkTTL \in Nat \ {0} /\ CodeTTL \in Nat \ {0}
                /\ MaxReqs \in Nat \ {0} /\ MaxNow \in Nat \ {0}
BY NumbersAssumption

-----------------------------------------------------------------------------
\* Type correctness of accounts, under any requests at once.
THEOREM TypeCorrect == Spec => []TypeOK
<1> USE Bounds
<1>1. Init => TypeOK
  <2> SUFFICES ASSUME Init PROVE TypeOK
    OBVIOUS
  <2>1. req \in [Reqs -> Busy]
    BY DEF Init, Busy
  <2>2. now \in Nat /\ since \in Nat /\ cache \in Nat /\ started \in 0 .. MaxReqs
    BY DEF Init
  <2>3. code \in [serial : {0} \cup Serials, ends : Nat]
    BY DEF Init, NoCode
  <2>4. resets \in [Serials -> Nat] /\ joined \in [Serials -> Nat]
    BY DEF Init
  <2>5. /\ banned \in BOOLEAN /\ verified \in BOOLEAN /\ kyb \in {"PENDING"} \cup Decisions
        /\ links \in SUBSET Link /\ disturbed \in SUBSET {"links", "resets", "decisions"}
    BY DEF Init
  <2> QED BY <2>1, <2>2, <2>3, <2>4, <2>5 DEF TypeOK
<1>2. TypeOK /\ [Next]_vars => TypeOK'
  <2> SUFFICES ASSUME TypeOK, [Next]_vars PROVE TypeOK'
    OBVIOUS
  <2> USE DEF TypeOK, account, company
  <2>1. CASE toggleBanUser \/ guardHit \/ pruneExpired \/ generateInviteCode \/ submitCompanyKyb
    <3>1. CASE toggleBanUser
      BY <3>1 DEF toggleBanUser, Count
    <3>2. CASE guardHit
      BY <3>2 DEF guardHit, vars
    <3>5. CASE pruneExpired
      BY <3>5 DEF pruneExpired
    <3>3. CASE generateInviteCode
      BY <3>3 DEF generateInviteCode, Count, Serials
    <3>4. CASE submitCompanyKyb
      BY <3>4 DEF submitCompanyKyb, Count
    <3> QED BY <2>1, <3>1, <3>2, <3>3, <3>4, <3>5
  <2>2. ASSUME NEW r \in Reqs, guardRead(r) \/ guardStore(r) PROVE TypeOK'
    <3>1. CASE guardRead(r)
      BY <3>1 DEF guardRead, Busy
    <3>2. CASE guardStore(r)
      BY <3>2 DEF guardStore, End, Busy
    <3> QED BY <2>2, <3>1, <3>2
  <2>3. ASSUME NEW r \in Reqs, forgotDelete(r) PROVE TypeOK'
    BY <2>3, SMTT(30) DEF forgotDelete, Begin, Overlap, Busy, Serials
  <2>4. ASSUME NEW r \in Reqs, forgotPassword(r) PROVE TypeOK'
    <3>1. req[r].serial \in Serials
      BY <2>4 DEF forgotPassword, Busy, Free
    <3> QED BY <2>4, <3>1 DEF forgotPassword, End, Busy, Link
  <2>5. ASSUME NEW r \in Reqs, NEW l \in links, resetRead(r, l) PROVE TypeOK'
    <3>1. [at |-> "resetting", link |-> l] \in Busy
      BY DEF Busy
    <3> QED BY <2>5, <3>1 DEF resetRead, Begin, Overlap
  <2>6. ASSUME NEW r \in Reqs, resetPassword(r) PROVE TypeOK'
    <3>1. req[r].link.serial \in Serials
      BY <2>6 DEF resetPassword, Busy, Free, Link
    <3> QED BY <2>6, <3>1 DEF resetPassword, End, Busy
  <2>7. ASSUME NEW r \in Reqs, joinRead(r) PROVE TypeOK'
    BY <2>7 DEF joinRead, Begin, Busy
  <2>8. ASSUME NEW r \in Reqs, createTeamMember(r) PROVE TypeOK'
    BY <2>8 DEF createTeamMember, End, NoCode, Busy
  <2>9. ASSUME NEW r \in Reqs, NEW d \in Decisions, verifyRead(r, d) PROVE TypeOK'
    BY <2>9 DEF verifyRead, Begin, Overlap, Busy
  <2>10. ASSUME NEW r \in Reqs, verifyUser(r) PROVE TypeOK'
    <3>1. req[r] \in [at : {"deciding", "recording"}, decision : Decisions]
      BY <2>10 DEF verifyUser, Busy, Free
    <3> QED BY <2>10, <3>1 DEF verifyUser, Busy
  <2>11. ASSUME NEW r \in Reqs, verifyCompany(r) PROVE TypeOK'
    <3>1. req[r] \in [at : {"deciding", "recording"}, decision : Decisions]
      BY <2>11 DEF verifyCompany, Busy, Free
    <3> QED BY <2>11, <3>1 DEF verifyCompany, End, Busy
  <2>12. CASE Tick
    BY <2>12 DEF Tick
  <2>13. CASE restart
    BY <2>13 DEF restart, Busy
  <2>14. CASE UNCHANGED vars
    BY <2>14 DEF vars
  <2> QED
    BY <2>1, <2>2, <2>3, <2>4, <2>5, <2>6, <2>7, <2>8, <2>9, <2>10, <2>11, <2>12, <2>13,
       <2>14, Steps DEF Requests
<1> QED BY <1>1, <1>2, PTL DEF Spec

-----------------------------------------------------------------------------
(* Bans.                                                                   *)

\* What the guard has stored, or may still store of a read, was read before the
\* clock went on after the ban.
BanInv ==
    /\ since <= now
    /\ cache <= now + CacheTTL
    /\ banned => /\ cache <= since + CacheTTL
                 /\ \A r \in Reqs : req[r].at = "guarding" /\ ~req[r].banned => since = now

\* A read under way and the entry it stores never outlive the ban by the TTL.
THEOREM BansCorrect == Spec => []BanInv
<1> USE Bounds
<1>1. Init => BanInv
  BY DEF Init, BanInv, Free
<1>2. TypeOK /\ BanInv /\ [Next]_vars => BanInv'
  <2> SUFFICES ASSUME TypeOK, BanInv, [Next]_vars PROVE BanInv'
    OBVIOUS
  <2> USE DEF account, company
  <2>1. ASSUME now' = now, banned' = banned, since' = since, cache' = cache \/ cache' = 0,
               \A r \in Reqs : req'[r].at = "guarding" => req'[r] = req[r]
        PROVE BanInv'
    BY <2>1 DEF BanInv, TypeOK
  <2>2. CASE toggleBanUser
    <3>1. now' = now /\ cache' = cache /\ req' = req /\ since' \in {0, now}
      BY <2>2 DEF toggleBanUser
    <3>2. banned' => since' = now
      BY <2>2 DEF toggleBanUser
    <3>3. since' <= now' /\ cache' <= now' + CacheTTL
      BY <3>1 DEF BanInv, TypeOK
    <3>4. ASSUME banned' PROVE cache' <= since' + CacheTTL
      BY <3>1, <3>2, <3>4 DEF BanInv
    <3>5. ASSUME banned' PROVE \A r \in Reqs : req'[r].at = "guarding" /\ ~req'[r].banned
                                             => since' = now'
      BY <3>1, <3>2, <3>5
    <3> QED BY <3>3, <3>4, <3>5 DEF BanInv
  <2>3. CASE guardHit \/ UNCHANGED vars
    BY <2>1, <2>3 DEF guardHit, vars
  <2>4. CASE pruneExpired \/ generateInviteCode \/ submitCompanyKyb
    BY <2>1, <2>4 DEF pruneExpired, generateInviteCode, submitCompanyKyb
  <2>5. ASSUME NEW r \in Reqs, guardRead(r) PROVE BanInv'
    BY <2>5 DEF guardRead, BanInv, TypeOK
  <2>6. ASSUME NEW r \in Reqs, guardStore(r) PROVE BanInv'
    BY <2>6 DEF guardStore, End, Free, BanInv, TypeOK
  <2>7. ASSUME NEW r \in Reqs, Requests(r), ~guardRead(r), ~guardStore(r) PROVE BanInv'
    <3>1. UNCHANGED <<now, banned, since, cache>>
      BY <2>7 DEF Requests, forgotDelete, forgotPassword, resetRead, resetPassword,
         joinRead, createTeamMember, verifyRead, verifyUser, verifyCompany
    <3>2. \A o \in Reqs : req'[o] = req[o] \/ req'[o].at # "guarding"
      <4>1. CASE verifyUser(r)
        BY <4>1 DEF verifyUser, TypeOK, Busy, Free
      <4> QED BY <2>7, <4>1 DEF Requests, forgotDelete, forgotPassword, resetRead,
         resetPassword, joinRead, createTeamMember, verifyRead, verifyCompany, Begin, End,
         Free, TypeOK
    <3> QED BY <2>1, <3>1, <3>2
  <2>8. CASE Tick
    BY <2>8 DEF Tick, BanInv, TypeOK
  <2>9. CASE restart
    BY <2>1, <2>9 DEF restart, Free
  <2> QED BY <2>2, <2>3, <2>4, <2>5, <2>6, <2>7, <2>8, <2>9, Steps
<1> QED BY <1>1, <1>2, TypeCorrect, PTL DEF Spec

\* A ban bites within the TTL of the cache.
THEOREM BanHolds == Spec => []BanBites
<1>1. TypeOK /\ BanInv => BanBites
  BY Bounds DEF TypeOK, BanInv, BanBites
<1> QED BY <1>1, TypeCorrect, BansCorrect, PTL

-----------------------------------------------------------------------------
(* Invite codes.                                                           *)

\* A code that was used is not the one of the company any more, and serials only
\* go up.
CodeInv ==
    /\ code.serial <= started
    /\ \A s \in Serials : joined[s] # 0 => s <= started /\ s # code.serial
    /\ InviteUsedOnce

\* The conditional update takes a code away in the step that uses it.
THEOREM CodesCorrect == Spec => []CodeInv
<1> USE Bounds
<1>1. Init => CodeInv
  BY DEF Init, CodeInv, InviteUsedOnce, NoCode
<1>2. TypeOK /\ CodeInv /\ [Next]_vars => CodeInv'
  <2> SUFFICES ASSUME TypeOK, CodeInv, [Next]_vars PROVE CodeInv'
    OBVIOUS
  <2> USE DEF account, company
  <2>1. ASSUME code' = code, joined' = joined, started' = started \/ started' = started + 1
        PROVE CodeInv'
    BY <2>1 DEF CodeInv, InviteUsedOnce, TypeOK, Serials
  <2>2. CASE generateInviteCode
    BY <2>2 DEF generateInviteCode, Count, CodeInv, InviteUsedOnce, TypeOK, Serials
  <2>3. CASE toggleBanUser \/ pruneExpired \/ submitCompanyKyb
    BY <2>1, <2>3 DEF toggleBanUser, pruneExpired, submitCompanyKyb, Count
  <2>4. CASE guardHit \/ UNCHANGED vars
    BY <2>1, <2>4 DEF guardHit, vars
  <2>5. ASSUME NEW r \in Reqs, createTeamMember(r) PROVE CodeInv'
    <3>1. CASE code.serial = req[r].serial
      <4>1. req[r].serial \in Serials
        BY <2>5 DEF createTeamMember, TypeOK, Busy, Free
      <4>2. /\ code'.serial = 0 /\ started' = started
            /\ joined' = [joined EXCEPT ![code.serial] = @ + 1]
        BY <2>5, <3>1 DEF createTeamMember, NoCode
      <4>3. joined[code.serial] = 0
        BY <3>1, <4>1 DEF CodeInv, TypeOK
      <4> QED BY <3>1, <4>1, <4>2, <4>3, SMTT(30) DEF CodeInv, InviteUsedOnce, TypeOK, Serials
    <3>2. CASE code.serial # req[r].serial
      BY <2>1, <2>5, <3>2 DEF createTeamMember
    <3> QED BY <3>1, <3>2
  <2>6. ASSUME NEW r \in Reqs, Requests(r), ~createTeamMember(r) PROVE CodeInv'
    BY <2>1, <2>6 DEF Requests, guardRead, guardStore, forgotDelete, forgotPassword,
         resetRead, resetPassword, joinRead, verifyRead, verifyUser, verifyCompany, Begin
  <2>7. CASE Tick \/ restart
    BY <2>1, <2>7 DEF Tick, restart
  <2> QED BY <2>2, <2>3, <2>4, <2>5, <2>6, <2>7, Steps
<1> QED BY <1>1, <1>2, TypeCorrect, PTL DEF Spec

\* One code lets one member in, however many join at once.
THEOREM CodeUsedOnce == Spec => []InviteUsedOnce
BY CodesCorrect, PTL DEF CodeInv

-----------------------------------------------------------------------------
(* Decisions on companies.                                                 *)

\* Between its two writes a decision alone knows what it has written.
DecisionInv ==
    \/ "decisions" \in disturbed
    \/ /\ \A r, o \in Reqs : req[r].at \in Deciding /\ req[o].at \in Deciding => r = o
       /\ \A r \in Reqs : req[r].at = "recording" => verified = (req[r].decision = "VERIFIED")
       /\ kyb = "FAILED" /\ verified => \E r \in Reqs : req[r].at = "recording"

\* A decision that nothing overlapped or cut off leaves both columns agreed.
THEOREM DecisionsCorrect == Spec => []DecisionInv
<1>1. Init => DecisionInv
  BY DEF Init, DecisionInv, Deciding, Free
<1>2. TypeOK /\ DecisionInv /\ [Next]_vars => DecisionInv'
  <2> SUFFICES ASSUME TypeOK, DecisionInv, [Next]_vars PROVE DecisionInv'
    OBVIOUS
  <2> USE DEF account, company
  <2>1. disturbed \subseteq disturbed'
    BY Steps DEF Requests, toggleBanUser, guardHit, pruneExpired, generateInviteCode,
         submitCompanyKyb, guardRead, guardStore, forgotDelete, forgotPassword, resetRead,
         resetPassword, joinRead, createTeamMember, verifyRead, verifyUser, verifyCompany,
         Overlap, Tick, restart, vars
  <2> SUFFICES ASSUME "decisions" \notin disturbed' PROVE DecisionInv'
    BY DEF DecisionInv
  <2>2. "decisions" \notin disturbed
    BY <2>1
  <2>3. ASSUME verified' = verified, kyb' = kyb,
               \A r \in Reqs : \/ req'[r] = req[r]
                               \/ req[r].at \notin Deciding /\ req'[r].at \notin Deciding
        PROVE DecisionInv'
    BY <2>2, <2>3 DEF DecisionInv, Deciding
  <2>4. CASE toggleBanUser \/ pruneExpired \/ generateInviteCode \/ Tick
    BY <2>3, <2>4 DEF toggleBanUser, pruneExpired, generateInviteCode, Tick
  <2>5. CASE guardHit \/ UNCHANGED vars
    BY <2>3, <2>5 DEF guardHit, vars
  <2>6. CASE submitCompanyKyb
    BY <2>2, <2>6 DEF submitCompanyKyb, DecisionInv
  <2>7. ASSUME NEW r \in Reqs, NEW d \in Decisions, verifyRead(r, d) PROVE DecisionInv'
    <3>1. \A o \in Reqs \ {r} : req[o].at \notin Deciding
      BY <2>7 DEF verifyRead, Overlap, At
    <3>2. /\ req'[r].at = "deciding" /\ \A o \in Reqs \ {r} : req'[o] = req[o]
          /\ req[r].at = "free" /\ verified' = verified /\ kyb' = kyb
      BY <2>7 DEF verifyRead, Begin, TypeOK
    <3> QED BY <2>2, <3>1, <3>2 DEF DecisionInv, Deciding
  <2>8. ASSUME NEW r \in Reqs, verifyUser(r) PROVE DecisionInv'
    <3>1. /\ req[r].at = "deciding" /\ req'[r].at = "recording"
          /\ req'[r].decision = req[r].decision /\ \A o \in Reqs \ {r} : req'[o] = req[o]
          /\ verified' = (req[r].decision = "VERIFIED") /\ kyb' = kyb
      BY <2>8 DEF verifyUser, TypeOK, Busy, Free
    <3> QED BY <2>2, <3>1 DEF DecisionInv, Deciding
  <2>9. ASSUME NEW r \in Reqs, verifyCompany(r) PROVE DecisionInv'
    <3>1. /\ req[r].at = "recording" /\ req'[r].at = "free"
          /\ \A o \in Reqs \ {r} : req'[o] = req[o]
          /\ verified' = verified /\ kyb' = req[r].decision
      BY <2>9 DEF verifyCompany, End, Free, TypeOK
    <3> QED BY <2>2, <3>1, ZenonT(30) DEF DecisionInv, Deciding
  <2>10. ASSUME NEW r \in Reqs,
                guardRead(r) \/ guardStore(r) \/ forgotDelete(r) \/ forgotPassword(r)
                \/ (\E l \in links : resetRead(r, l)) \/ resetPassword(r)
                \/ joinRead(r) \/ createTeamMember(r)
         PROVE DecisionInv'
    BY <2>3, <2>10 DEF guardRead, guardStore, forgotDelete, forgotPassword, resetRead,
         resetPassword, joinRead, createTeamMember, Begin, End, Free, Deciding, TypeOK
  <2>11. CASE restart
    <3>1. At({"recording"}) = {}
      BY <2>11 DEF restart
    <3> QED BY <2>2, <2>11, <3>1 DEF restart, At, Free, DecisionInv, Deciding
  <2> QED
    BY <2>4, <2>5, <2>6, <2>7, <2>8, <2>9, <2>10, <2>11, Steps DEF Requests
<1> QED BY <1>1, <1>2, TypeCorrect, PTL DEF Spec

\* Who was refused has no access, unless decisions overlapped or were cut off.
THEOREM RefusalHolds == Spec => []RefusedHasNoAccess
<1>1. DecisionInv => RefusedHasNoAccess
  BY DEF DecisionInv, RefusedHasNoAccess, At
<1> QED BY <1>1, DecisionsCorrect, PTL

-----------------------------------------------------------------------------
(* Reset links.                                                            *)

\* A request between the delete and the insert of its link knows there is none.
SingleInv ==
    \/ "links" \in disturbed
    \/ /\ \A k, l \in links : k = l
       /\ \A r \in Reqs : req[r].at = "linking" => links = {}
       /\ \A r, o \in Reqs : req[r].at = "linking" /\ req[o].at = "linking" => r = o

\* Serials are given once: a link that exists, or is about to, was not used yet.
SerialInv ==
    /\ \A s \in Serials : resets[s] # 0 => s <= started
    /\ \A l \in links : l.serial <= started /\ resets[l.serial] = 0
    /\ \A r \in Reqs : req[r].at = "resetting" => req[r].link.serial <= started
    /\ \A r \in Reqs : req[r].at = "linking" =>
         /\ req[r].serial <= started /\ resets[req[r].serial] = 0
         /\ \A l \in links : l.serial # req[r].serial
         /\ \A o \in Reqs : /\ req[o].at = "linking" /\ o # r => req[o].serial # req[r].serial
                            /\ req[o].at = "resetting" => req[o].link.serial # req[r].serial

\* A use of a link that no other overlaps finds it unused at its write too.
ResetInv ==
    \/ "resets" \in disturbed
    \/ /\ \A r, o \in Reqs : req[r].at = "resetting" /\ req[o].at = "resetting" => r = o
       /\ \A r \in Reqs : req[r].at = "resetting" => resets[req[r].link.serial] = 0
       /\ \A s \in Serials : resets[s] <= 1

LinkInv == SingleInv /\ SerialInv /\ ResetInv

\* What was disturbed stays so.
LEMMA DisturbedStays == [Next]_vars => disturbed \subseteq disturbed'
BY Steps DEF Requests, toggleBanUser, guardHit, pruneExpired, generateInviteCode,
     submitCompanyKyb, guardRead, guardStore, forgotDelete, forgotPassword, resetRead,
     resetPassword, joinRead, createTeamMember, verifyRead, verifyUser, verifyCompany,
     Overlap, Tick, restart, vars

\* Steps that have to do with no link.
LEMMA OtherSteps ==
    ASSUME TypeOK, LinkInv, links' = links, resets' = resets, disturbed \subseteq disturbed',
           started' \in {started, started + 1},
           \A r \in Reqs : req'[r].at \in {"linking", "resetting"} => req'[r] = req[r]
    PROVE  LinkInv'
<1>1. SingleInv'
  BY DEF LinkInv, SingleInv
<1>2. SerialInv'
  <2>1. \A r \in Reqs : /\ req[r].at = "linking" => req[r].serial \in Serials
                        /\ req[r].at = "resetting" => req[r].link.serial \in Serials
    BY DEF TypeOK, Busy, Link, Free
  <2>2. \A l \in links : l.serial \in Serials
    BY DEF TypeOK, Link
  <2>3. \A n \in Serials : n <= started => n <= started'
    BY Bounds DEF TypeOK, Serials
  <2>4. \A s \in Serials : resets'[s] # 0 => s <= started'
    BY <2>3 DEF LinkInv, SerialInv
  <2>5. \A l \in links' : l.serial <= started' /\ resets'[l.serial] = 0
    BY <2>2, <2>3 DEF LinkInv, SerialInv
  <2>6. \A r \in Reqs : req'[r].at = "resetting" => req'[r].link.serial <= started'
    BY <2>1, <2>3 DEF LinkInv, SerialInv
  <2>7. ASSUME NEW r \in Reqs, req'[r].at = "linking"
        PROVE /\ req'[r].serial <= started' /\ resets'[req'[r].serial] = 0
              /\ \A l \in links' : l.serial # req'[r].serial
              /\ \A o \in Reqs :
                   /\ req'[o].at = "linking" /\ o # r => req'[o].serial # req'[r].serial
                   /\ req'[o].at = "resetting" => req'[o].link.serial # req'[r].serial
    BY <2>1, <2>3, <2>7 DEF LinkInv, SerialInv
  <2> QED BY <2>4, <2>5, <2>6, <2>7 DEF SerialInv
<1>3. ResetInv'
  BY DEF LinkInv, ResetInv
<1> QED BY <1>1, <1>2, <1>3 DEF LinkInv

\* Requests for links, and uses of them, which nothing of their kind overlaps.
THEOREM LinksCorrect == Spec => []LinkInv
<1> USE Bounds DEF account, company
<1>1. Init => LinkInv
  BY DEF Init, LinkInv, SingleInv, SerialInv, ResetInv, Free
<1>2. TypeOK /\ LinkInv /\ [Next]_vars => LinkInv'
  <2> SUFFICES ASSUME TypeOK, LinkInv, [Next]_vars PROVE LinkInv'
    OBVIOUS
  <2>1. disturbed \subseteq disturbed'
    BY DisturbedStays
  <2>2. \A r \in Reqs : /\ req[r].at = "linking" => req[r].serial \in Serials
                        /\ req[r].at = "resetting" => req[r].link.serial \in Serials
    BY DEF TypeOK, Busy, Link, Free
  <2>3. \A l \in links : l.serial \in Serials
    BY DEF TypeOK, Link
  <2>4. ASSUME NEW r \in Reqs, forgotDelete(r) PROVE LinkInv'
    <3>1. /\ links' = {} /\ resets' = resets /\ started' = started + 1
          /\ req'[r] = [at |-> "linking", serial |-> started + 1]
          /\ \A o \in Reqs \ {r} : req'[o] = req[o]
          /\ started + 1 \in Serials
      BY <2>4 DEF forgotDelete, Begin, TypeOK, Serials
    <3>2. "links" \in disturbed' \/ \A o \in Reqs \ {r} : req[o].at # "linking"
      BY <2>4 DEF forgotDelete, Overlap, At
    <3>3. SingleInv'
      BY <3>1, <3>2 DEF SingleInv
    <3>4. resets[started + 1] = 0
      BY <3>1 DEF LinkInv, SerialInv, TypeOK
    <3>5. SerialInv'
      <4>1. \A s \in Serials : resets[s] # 0 => s <= started + 1
        BY DEF LinkInv, SerialInv, TypeOK, Serials
      <4>2. \A o \in Reqs \ {r} : req[o].at = "linking" => req[o].serial # started + 1
        BY <2>2 DEF LinkInv, SerialInv, TypeOK, Serials
      <4>3. \A o \in Reqs \ {r} : req[o].at = "resetting" => req[o].link.serial # started + 1
        BY <2>2 DEF LinkInv, SerialInv, TypeOK, Serials
      <4>4. ASSUME NEW o \in Reqs, req'[o].at = "linking"
            PROVE /\ req'[o].serial <= started' /\ resets'[req'[o].serial] = 0
                  /\ \A l \in links' : l.serial # req'[o].serial
                  /\ \A p \in Reqs :
                       /\ req'[p].at = "linking" /\ p # o => req'[p].serial # req'[o].serial
                       /\ req'[p].at = "resetting" => req'[p].link.serial # req'[o].serial
        <5>1. CASE o = r
          BY <3>1, <3>4, <4>2, <4>3, <4>4, <5>1 DEF TypeOK
        <5>2. CASE o # r
          <6>1. req'[o] = req[o] /\ req[o].serial <= started /\ resets[req[o].serial] = 0
            BY <3>1, <4>4, <5>2 DEF LinkInv, SerialInv
          <6>2. req[o].serial <= started'
            BY <2>2, <3>1, <4>4, <6>1 DEF TypeOK, Serials
          <6>3. ASSUME NEW p \in Reqs
                PROVE /\ req'[p].at = "linking" /\ p # o => req'[p].serial # req'[o].serial
                      /\ req'[p].at = "resetting" => req'[p].link.serial # req'[o].serial
            <7>1. CASE p = r
              BY <3>1, <4>2, <4>4, <5>2, <6>1, <7>1
            <7>2. CASE p # r
              BY <3>1, <4>4, <5>2, <6>1, <7>2 DEF LinkInv, SerialInv
            <7> QED BY <7>1, <7>2
          <6> QED BY <3>1, <6>1, <6>2, <6>3
        <5> QED BY <5>1, <5>2
      <4>5. ASSUME NEW o \in Reqs, req'[o].at = "resetting"
            PROVE req'[o].link.serial <= started'
        <5>1. req'[o] = req[o] /\ req[o].link.serial <= started
          BY <3>1, <4>5 DEF LinkInv, SerialInv
        <5> QED BY <2>2, <3>1, <4>5, <5>1 DEF TypeOK, Serials
      <4> QED BY <3>1, <4>1, <4>4, <4>5 DEF SerialInv
    <3>6. ResetInv'
      BY <2>1, <3>1 DEF LinkInv, ResetInv
    <3> QED BY <3>3, <3>5, <3>6 DEF LinkInv
  <2>5. ASSUME NEW r \in Reqs, forgotPassword(r) PROVE LinkInv'
    <3> DEFINE new == [serial |-> req[r].serial, ends |-> now + LinkTTL]
    <3>1. /\ links' = links \cup {new} /\ resets' = resets /\ started' = started
          /\ req[r].at = "linking" /\ req'[r].at = "free" /\ disturbed' = disturbed
          /\ \A o \in Reqs \ {r} : req'[o] = req[o]
      BY <2>5 DEF forgotPassword, End, Free, TypeOK
    <3>2. SingleInv'
      BY <3>1 DEF LinkInv, SingleInv
    <3>3. SerialInv'
      <4>1. new.serial <= started /\ resets[new.serial] = 0
        BY <3>1 DEF LinkInv, SerialInv
      <4> QED BY <3>1, <4>1 DEF LinkInv, SerialInv
    <3>4. ResetInv'
      BY <3>1 DEF LinkInv, ResetInv
    <3> QED BY <3>2, <3>3, <3>4 DEF LinkInv
  <2>6. ASSUME NEW r \in Reqs, NEW l \in links, resetRead(r, l) PROVE LinkInv'
    <3>1. /\ links' = links /\ resets' = resets /\ started' = started + 1
          /\ req'[r] = [at |-> "resetting", link |-> l]
          /\ \A o \in Reqs \ {r} : req'[o] = req[o]
      BY <2>6 DEF resetRead, Begin, TypeOK
    <3>2. "resets" \in disturbed' \/ \A o \in Reqs \ {r} : req[o].at # "resetting"
      BY <2>6 DEF resetRead, Overlap, At
    <3>3. SingleInv'
      BY <2>1, <3>1 DEF LinkInv, SingleInv
    <3>4. SerialInv'
      <4>1. \A n \in Serials : n <= started => n <= started'
        BY <3>1 DEF TypeOK, Serials
      <4>2. l.serial \in Serials /\ l.serial <= started /\ resets[l.serial] = 0
        BY <2>3 DEF LinkInv, SerialInv
      <4>3. ASSUME NEW o \in Reqs, req[o].at = "linking" PROVE req[o].serial # l.serial
        BY <4>3 DEF LinkInv, SerialInv
      <4> QED BY <2>2, <2>3, <3>1, <4>1, <4>2, <4>3 DEF LinkInv, SerialInv
    <3>5. ResetInv'
      BY <2>1, <3>1, <3>2 DEF LinkInv, SerialInv, ResetInv
    <3> QED BY <3>3, <3>4, <3>5 DEF LinkInv
  <2>7. ASSUME NEW r \in Reqs, resetPassword(r) PROVE LinkInv'
    <3> DEFINE s == req[r].link.serial
    <3>1. /\ links' = {} /\ started' = started /\ disturbed' = disturbed
          /\ resets' = [resets EXCEPT ![s] = @ + 1]
          /\ req[r].at = "resetting" /\ req'[r].at = "free"
          /\ \A o \in Reqs \ {r} : req'[o] = req[o]
          /\ s \in Serials
      BY <2>2, <2>7 DEF resetPassword, End, Free, TypeOK
    <3>2. SingleInv'
      BY <3>1 DEF LinkInv, SingleInv
    <3>3. SerialInv'
      BY <2>2, <3>1 DEF LinkInv, SerialInv, TypeOK
    <3>4. ResetInv'
      BY <2>2, <3>1 DEF LinkInv, ResetInv, TypeOK
    <3> QED BY <3>2, <3>3, <3>4 DEF LinkInv
  <2>8. CASE toggleBanUser \/ pruneExpired \/ generateInviteCode \/ submitCompanyKyb \/ Tick
    BY <2>1, <2>8, OtherSteps DEF toggleBanUser, pruneExpired, generateInviteCode,
       submitCompanyKyb, Tick, Count
  <2>9. CASE guardHit \/ UNCHANGED vars
    BY <2>1, <2>9, OtherSteps DEF guardHit, vars
  <2>10. CASE restart
    BY <2>1, <2>10, OtherSteps DEF restart, Free
  <2>11. ASSUME NEW r \in Reqs,
                guardRead(r) \/ guardStore(r) \/ joinRead(r) \/ createTeamMember(r)
                \/ (\E d \in Decisions : verifyRead(r, d)) \/ verifyUser(r) \/ verifyCompany(r)
         PROVE LinkInv'
    <3>1. links' = links /\ resets' = resets /\ started' \in {started, started + 1}
      BY <2>11 DEF guardRead, guardStore, joinRead, createTeamMember, verifyRead, verifyUser,
           verifyCompany, Begin
    <3>2. \A o \in Reqs : req'[o] = req[o] \/ req'[o].at \notin {"linking", "resetting"}
      <4>1. CASE verifyUser(r)
        BY <4>1 DEF verifyUser, TypeOK, Busy, Free
      <4> QED BY <2>11, <4>1 DEF guardRead, guardStore, joinRead, createTeamMember, verifyRead,
                verifyCompany, Begin, End, Free, TypeOK
    <3> QED BY <2>1, <3>1, <3>2, OtherSteps
  <2> QED
    BY <2>4, <2>5, <2>6, <2>7, <2>8, <2>9, <2>10, <2>11, Steps DEF Requests
<1> QED BY <1>1, <1>2, TypeCorrect, PTL DEF Spec

\* One link at a time, used once, unless requests of the kind overlapped.
THEOREM LinksSingle == Spec => []LinksAreSingle
<1>1. TypeOK /\ LinkInv => LinksAreSingle
  <2> SUFFICES ASSUME TypeOK, LinkInv PROVE LinksAreSingle
    OBVIOUS
  <2>1. ASSUME "links" \notin disturbed PROVE ~(Cardinality(links) > 1)
    <3>1. CASE links = {}
      BY <3>1, FS_EmptySet
    <3>2. CASE links # {}
      <4>1. PICK l \in links : links = {l}
        BY <2>1, <3>2 DEF LinkInv, SingleInv
      <4> QED BY <4>1, FS_Singleton
    <3> QED BY <3>1, <3>2
  <2>2. ASSUME NEW s \in Serials, resets[s] > 1 PROVE "resets" \in disturbed
    BY <2>2 DEF LinkInv, ResetInv, TypeOK
  <2> QED BY <2>1, <2>2 DEF LinksAreSingle
<1> QED BY <1>1, TypeCorrect, LinksCorrect, PTL
=============================================================================
