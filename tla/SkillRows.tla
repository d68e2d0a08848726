------------------------------ MODULE SkillRows ------------------------------
(***************************************************************************)
(* What the directory of skills and fields of work keeps (skills.service): *)
(* the rows, and the copy of their names in the memory of a process; and   *)
(* what it promises of them, whatever requests are under way.              *)
(*                                                                         *)
(* Spelling is abstracted to Key, the name in lower case: names of one key *)
(* are one entry to findByNameInsensitive and two rows to the unique index.*)
(***************************************************************************)
EXTENDS Integers

CONSTANTS
    Names,          \* normalised names of a usable length
    Key,            \* the lower case of each
    CacheTTL        \* CACHE_TTL_MS

ASSUME CacheAssumption == CacheTTL \in Nat

VARIABLES
    now,
    rows,           \* Skill: names with the time of their insert
    cachedSkills, cacheTimestamp,
    raced           \* history: keys two requests were about to insert at once

cache == <<cachedSkills, cacheTimestamp>>

Listed(name) == \E row \in rows : Key[row.name] = Key[name]

-----------------------------------------------------------------------------
\* "Satu menit membuat mereka menyusul sendiri": a copy in use misses only names
\* that were inserted within its TTL, whatever loads and inserts raced.
MissingIsYoung ==
    now - cacheTimestamp <= CacheTTL =>
        \A row \in rows : row.name \in cachedSkills \/ now - row.born <= CacheTTL

\* "backend development" does not become a second row beside "Backend Development",
\* unless two requests had both looked before either inserted.
TwinsOnlyByOverlap ==
    \A r1, r2 \in rows :
        r1 # r2 /\ Key[r1.name] = Key[r2.name] => Key[r1.name] \in raced
=============================================================================
