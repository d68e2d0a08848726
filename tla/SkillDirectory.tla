--------------------------- MODULE SkillDirectory ---------------------------
(***************************************************************************)
(* The directory of skills and fields of work (skills.service.ts): rows    *)
(* anybody may add by typing a name, and the copy of all names a process   *)
(* keeps for its search by typing distance.                                *)
(*                                                                         *)
(* SkillRows holds what they leave behind; each await is a step here, and  *)
(* the clock goes on between them.                                         *)
(***************************************************************************)
EXTENDS SkillRows

CONSTANTS
    Reqs,           \* requests under way at once
    MaxReqs,        \* bound: requests
    MaxNow          \* bound: the clock

ASSUME BoundsAssumption == {MaxReqs, MaxNow} \subseteq Nat

VARIABLES
    req, started

vars == <<now, rows, cache, req, started, raced>>

Free == [at |-> "free"]

\* A process that has just started: Date.now() is far from the timestamp 0.
Init ==
    /\ now = CacheTTL + 1
    /\ rows = {}
    /\ cachedSkills = {} /\ cacheTimestamp = 0
    /\ req = [r \in Reqs |-> Free] /\ started = 0
    /\ raced = {}

Move(r, record) == req' = [req EXCEPT ![r] = record]
End(r) == Move(r, Free)

Begin(r, record) ==
    /\ req[r].at = "free" /\ started < MaxReqs
    /\ started' = started + 1
    /\ Move(r, record)
    /\ UNCHANGED <<now, rows, cache, raced>>

-----------------------------------------------------------------------------
(* Requests.                                                               *)

\* No name contains what was typed: the search by distance is left.
searchSkills(r) == Begin(r, [at |-> "asking", next |-> Free])

\* An entry that is there is the answer; force leaves out the AI.
resolveCategory(r, name, force) ==
    /\ ~Listed(name)
    /\ Begin(r, IF force THEN [at |-> "creating", name |-> name]
                ELSE [at |-> "asking", next |-> [at |-> "judging", name |-> name]])

\* A case or a question of the bank is saved with the name of its field.
resolveCategoryId(r, name) == Begin(r, [at |-> "creating", name |-> name])

-----------------------------------------------------------------------------
(* allSkills.                                                              *)

cacheHit(r) ==
    /\ req[r].at = "asking"
    /\ now - cacheTimestamp <= CacheTTL
    /\ Move(r, req[r].next)
    /\ UNCHANGED <<now, rows, cache, started, raced>>

\* The time is taken before the rows are read.
allSkills(r) ==
    /\ req[r].at = "asking"
    /\ now - cacheTimestamp > CacheTTL
    /\ Move(r, [at |-> "reading", next |-> req[r].next, since |-> now])
    /\ UNCHANGED <<now, rows, cache, started, raced>>

readRows(r) ==
    /\ req[r].at = "reading"
    /\ Move(r, [at |-> "storing", next |-> req[r].next, since |-> req[r].since,
                found |-> {row.name : row \in rows}])
    /\ UNCHANGED <<now, rows, cache, started, raced>>

\* Mutated form of storeRows: the time is taken when the rows have come.
storeRows_Late(r) ==
    /\ req[r].at = "storing"
    /\ cachedSkills' = req[r].found
    /\ cacheTimestamp' = now
    /\ Move(r, req[r].next)
    /\ UNCHANGED <<now, rows, started, raced>>

\* Over what another request has stored, or appended, meanwhile.
storeRows(r) ==
    /\ req[r].at = "storing"
    /\ cachedSkills' = req[r].found
    /\ cacheTimestamp' = req[r].since
    /\ Move(r, req[r].next)
    /\ UNCHANGED <<now, rows, started, raced>>

-----------------------------------------------------------------------------
(* The verdict on a name that is new.                                      *)

\* "invalid"; or a typo of a candidate, to the AI or, when it does not answer, by
\* distance: the user is asked.
refuseOrSuggest(r) ==
    /\ req[r].at = "judging"
    /\ End(r)
    /\ UNCHANGED <<now, rows, cache, started, raced>>

\* "new", with the name as the AI writes it, which may be listed.
accept(r, canonical) ==
    /\ req[r].at = "judging"
    /\ Move(r, IF Listed(canonical) THEN Free ELSE [at |-> "creating", name |-> canonical])
    /\ UNCHANGED <<now, rows, cache, started, raced>>

\* The AI does not answer, and nothing is near.
acceptAsTyped(r) ==
    /\ req[r].at = "judging"
    /\ Move(r, [at |-> "creating", name |-> req[r].name])
    /\ UNCHANGED <<now, rows, cache, started, raced>>

-----------------------------------------------------------------------------
(* createSkill: the look, the insert, and the copy.                        *)

Inserting(name) == {p \in Reqs : req[p].at = "inserting" /\ Key[req[p].name] = Key[name]}

\* Mutated form of findFirst: by the name as it is written.
findFirst_Exact(r) ==
    /\ req[r].at = "creating"
    /\ IF \E row \in rows : row.name = req[r].name
       THEN End(r) /\ UNCHANGED raced
       ELSE /\ Move(r, [at |-> "inserting", name |-> req[r].name])
            /\ raced' = IF Inserting(req[r].name) = {} THEN raced
                        ELSE raced \cup {Key[req[r].name]}
    /\ UNCHANGED <<now, rows, cache, started>>

findFirst(r) ==
    /\ req[r].at = "creating"
    /\ IF Listed(req[r].name)
       THEN End(r) /\ UNCHANGED raced
       ELSE /\ Move(r, [at |-> "inserting", name |-> req[r].name])
            /\ raced' = IF Inserting(req[r].name) = {} THEN raced
                        ELSE raced \cup {Key[req[r].name]}
    /\ UNCHANGED <<now, rows, cache, started>>

\* The unique index knows the name as it is written only.
createSkill(r) ==
    /\ req[r].at = "inserting"
    /\ IF \E row \in rows : row.name = req[r].name
       THEN End(r) /\ UNCHANGED rows
       ELSE /\ rows' = rows \cup {[name |-> req[r].name, born |-> now]}
            /\ Move(r, [at |-> "appending", name |-> req[r].name])
    /\ UNCHANGED <<now, cache, started, raced>>

\* Onto the copy there is by then, fresh or not; the timestamp stays.
appendCached(r) ==
    /\ req[r].at = "appending"
    /\ cachedSkills' = cachedSkills \cup {req[r].name}
    /\ End(r)
    /\ UNCHANGED <<now, rows, cacheTimestamp, started, raced>>

-----------------------------------------------------------------------------
Tick ==
    /\ now < MaxNow
    /\ now' = now + 1
    /\ UNCHANGED <<rows, cache, req, started, raced>>

restart ==
    /\ req' = [r \in Reqs |-> Free]
    /\ cachedSkills' = {} /\ cacheTimestamp' = 0
    /\ UNCHANGED <<now, rows, started, raced>>

Request(r) ==
    \/ searchSkills(r)
    \/ \E name \in Names : \/ \E force \in BOOLEAN : resolveCategory(r, name, force)
                           \/ resolveCategoryId(r, name)

Work(r) ==
    \/ cacheHit(r) \/ allSkills(r) \/ readRows(r) \/ storeRows(r)
    \/ refuseOrSuggest(r) \/ acceptAsTyped(r) \/ \E name \in Names : accept(r, name)
    \/ findFirst(r) \/ createSkill(r) \/ appendCached(r)

Next == (\E r \in Reqs : Request(r) \/ Work(r)) \/ Tick \/ restart

Spec == Init /\ [][Next]_vars

=============================================================================
