------------------------------ MODULE CallService ------------------------------
(***************************************************************************)
(* What a pool of workers promises its callers (PythonWorkerService.call): *)
(* a call is taken at once or waits in line; who waits is taken in the     *)
(* order of arrival; so many are served at a time and no more; and a call  *)
(* that was settled, by an answer or an error, stays settled.              *)
(*                                                                         *)
(* A newcomer may be taken although others wait: a place that fell vacant  *)
(* without anybody noticing is given to whoever asks next.                 *)
(***************************************************************************)
EXTENDS Integers, Sequences

CONSTANTS Calls, Places

VARIABLES
    line,       \* calls that wait, in the order of arrival
    served,     \* calls that occupy a place
    settled

vars == <<line, served, settled>>

First(n) == {line[i] : i \in 1 .. n}

Init == line = <<>> /\ served = {} /\ settled = {}

Ask(c) ==
    /\ c \notin First(Len(line)) \cup served \cup settled
    /\ \/ line' = Append(line, c) /\ UNCHANGED <<served, settled>>
       \/ served' = served \cup {c} /\ UNCHANGED <<line, settled>>
       \/ settled' = settled \cup {c} /\ UNCHANGED <<line, served>>

\* Those in S leave settled, and the first n of the line take places.
Proceed(S, n) ==
    /\ served' = (served \ S) \cup First(n)
    /\ settled' = settled \cup S
    /\ line' = SubSeq(line, n + 1, Len(line))

\* Those in S leave settled, and everybody in line with them.
Dismiss(S) ==
    /\ served' = served \ S
    /\ settled' = settled \cup S \cup First(Len(line))
    /\ line' = <<>>

\* Every call that is served has a place of its own.
Seated(S) ==
    \E place \in [S -> 1 .. Places] : \A c, d \in S : place[c] = place[d] => c = d

Next ==
    /\ \/ \E c \in Calls : Ask(c)
       \/ \E S \in {{}} \cup {{c} : c \in served} :
            Dismiss(S) \/ \E n \in 0 .. Len(line) : Proceed(S, n)
    /\ Seated(served')

Spec == Init /\ [][Next]_vars
=============================================================================
