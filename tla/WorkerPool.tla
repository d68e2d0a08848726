----------------------------- MODULE WorkerPool -----------------------------
(***************************************************************************)
(* A pool of Python processes (WorkerPool of python-worker.service.ts):    *)
(* calls are dispatched to idle workers or queued, answers are lines read  *)
(* from a pipe, a request that takes too long has its process killed, and  *)
(* a process that ends is started again.  What the process does is taken   *)
(* from face_worker.py and ocr_worker.py: one answer per line, in order.   *)
(*                                                                         *)
(* handleLine does not compare ids, so a line answers whatever is pending. *)
(* Event handlers are synchronous: each is one step.                       *)
(***************************************************************************)
EXTENDS Integers, Sequences, FiniteSets, SequencesExt

CONSTANTS
    Size,           \* number of workers; pickIdleWorker takes the first idle one
    Jobs,           \* calls that may be made
    MAX_RESTARTS,
    None

Workers == 1 .. Size

ASSUME SizeAssumption == Size \in Nat \ {0} /\ MAX_RESTARTS \in Nat
ASSUME JobsAssumption == None \notin Jobs

VARIABLES
    proc,       \* proc[w]: what the process of worker w is doing
    ready,      \* worker.ready
    pending,    \* worker.pending; worker.busy is set and cleared with it
    restarts,   \* worker.restarts
    stdin,      \* requests written to the process and not yet answered
    stdout,     \* answers written by the process and not yet read
    queue,
    call,       \* call[j]: "new", "waiting" or how its promise was settled
    answer,     \* answer[j]: the job whose answer settled j
    shuttingDown

vars == <<proc, ready, pending, restarts, stdin, stdout, queue, call, answer, shuttingDown>>

\* "dying": killed or crashed, its exit event not yet delivered.  "down": to be
\* started again.  "gaveUp": past MAX_RESTARTS.  "failed": could not be spawned,
\* which emits "error" and never "exit".
Processes == {"starting", "serving", "dying", "down", "gaveUp", "failed"}

Init ==
    /\ proc = [w \in Workers |-> "starting"]
    /\ ready = [w \in Workers |-> FALSE]
    /\ pending = [w \in Workers |-> None]
    /\ restarts = [w \in Workers |-> 0]
    /\ stdin = [w \in Workers |-> <<>>]
    /\ stdout = [w \in Workers |-> <<>>]
    /\ queue = <<>>
    /\ call = [j \in Jobs |-> "new"]
    /\ answer = [j \in Jobs |-> None]
    /\ shuttingDown = FALSE

-----------------------------------------------------------------------------
(* Dispatching.                                                            *)

\* ready && !busy && process; a killed process still counts until it exits.
Idle(r, p) == {w \in Workers : r[w] /\ p[w] = None}

\* pickIdleWorker, over and over: the k-th idle worker gets the k-th job.
Rank(I, w) == Cardinality({v \in I : v <= w})
Chosen(I, q) == {w \in I : Rank(I, w) <= Len(q)}

\* Mutated form of drainQueue: pop instead of shift, so the latest comes first.
drainQueue_Pops(r, p, q) ==
    LET I == Idle(r, p)
        C == Chosen(I, q)
    IN  /\ pending' = [w \in Workers |-> IF w \in C THEN q[Len(q) + 1 - Rank(I, w)] ELSE p[w]]
        /\ stdin' = [w \in Workers |-> IF w \in C THEN Append(stdin[w], q[Len(q) + 1 - Rank(I, w)])
                                       ELSE stdin[w]]
        /\ queue' = SubSeq(q, 1, Len(q) - Cardinality(C))

\* drainQueue when worker states are r and p: dispatch writes to the process.
drainQueue(r, p, q) ==
    LET I == Idle(r, p)
        C == Chosen(I, q)
    IN  /\ pending' = [w \in Workers |-> IF w \in C THEN q[Rank(I, w)] ELSE p[w]]
        /\ stdin' = [w \in Workers |-> IF w \in C THEN Append(stdin[w], q[Rank(I, w)])
                                       ELSE stdin[w]]
        /\ queue' = SubSeq(q, Cardinality(C) + 1, Len(q))

\* call: dispatched when a worker is idle, whatever is queued; queued otherwise.
callWorker(j) ==
    /\ call[j] = "new"
    /\ ~shuttingDown
    /\ call' = [call EXCEPT ![j] = "waiting"]
    /\ IF Idle(ready, pending) = {}
       THEN queue' = Append(queue, j) /\ UNCHANGED <<pending, stdin>>
       ELSE LET w == CHOOSE v \in Idle(ready, pending) :
                        \A u \in Idle(ready, pending) : v <= u
            IN  /\ pending' = [pending EXCEPT ![w] = j]
                /\ stdin' = [stdin EXCEPT ![w] = Append(@, j)]
                /\ UNCHANGED queue
    /\ UNCHANGED <<proc, ready, restarts, stdout, answer, shuttingDown>>

callRefused(j) ==
    /\ call[j] = "new"
    /\ shuttingDown
    /\ call' = [call EXCEPT ![j] = "rejected"]
    /\ UNCHANGED <<proc, ready, pending, restarts, stdin, stdout, queue, answer, shuttingDown>>

-----------------------------------------------------------------------------
(* The process (external: face_worker.py, ocr_worker.py).                  *)

answerLine(w) ==
    /\ proc[w] \in {"serving", "dying"}
    /\ stdin[w] # <<>>
    /\ stdin' = [stdin EXCEPT ![w] = Tail(@)]
    /\ stdout' = [stdout EXCEPT ![w] = Append(@, Head(stdin[w]))]
    /\ UNCHANGED <<proc, ready, pending, restarts, queue, call, answer, shuttingDown>>

\* It may die at any time, out of memory or of a segmentation fault.
crash(w) ==
    /\ proc[w] \in {"starting", "serving"}
    /\ proc' = [proc EXCEPT ![w] = "dying"]
    /\ UNCHANGED <<ready, pending, restarts, stdin, stdout, queue, call, answer, shuttingDown>>

-----------------------------------------------------------------------------
(* Events of the child process.                                            *)

\* The __ready__ line.
becomeReady(w) ==
    /\ proc[w] = "starting"
    /\ proc' = [proc EXCEPT ![w] = "serving"]
    /\ ready' = [ready EXCEPT ![w] = TRUE]
    /\ restarts' = [restarts EXCEPT ![w] = 0]
    /\ drainQueue(ready', pending, queue)
    /\ UNCHANGED <<stdout, call, answer, shuttingDown>>

\* Mutated form of handleLine: the queue is not drained afterwards.
handleLine_NoDrain(w) ==
    /\ stdout[w] # <<>>
    /\ stdout' = [stdout EXCEPT ![w] = Tail(@)]
    /\ IF pending[w] = None
       THEN UNCHANGED <<pending, call, answer>>
       ELSE /\ call' = [call EXCEPT ![pending[w]] = "answered"]
            /\ answer' = [answer EXCEPT ![pending[w]] = Head(stdout[w])]
            /\ pending' = [pending EXCEPT ![w] = None]
    /\ UNCHANGED <<proc, ready, restarts, stdin, queue, shuttingDown>>

\* Any other line settles what is pending.
handleLine(w) ==
    /\ stdout[w] # <<>>
    /\ stdout' = [stdout EXCEPT ![w] = Tail(@)]
    /\ IF pending[w] = None
       THEN UNCHANGED <<pending, stdin, queue, call, answer>>
       ELSE /\ call' = [call EXCEPT ![pending[w]] = "answered"]
            /\ answer' = [answer EXCEPT ![pending[w]] = Head(stdout[w])]
            /\ drainQueue(ready, [pending EXCEPT ![w] = None], queue)
    /\ UNCHANGED <<proc, ready, restarts, shuttingDown>>

\* Mutated form of timeout: the stuck process is left alone.
timeout_NoKill(w) ==
    /\ pending[w] # None
    /\ call' = [call EXCEPT ![pending[w]] = "rejected"]
    /\ pending' = [pending EXCEPT ![w] = None]
    /\ UNCHANGED <<proc, ready, restarts, stdin, stdout, queue, answer, shuttingDown>>

\* The timer set by dispatch.
timeout(w) ==
    /\ pending[w] # None
    /\ call' = [call EXCEPT ![pending[w]] = "rejected"]
    /\ pending' = [pending EXCEPT ![w] = None]
    /\ proc' = [proc EXCEPT ![w] = "dying"]
    /\ UNCHANGED <<ready, restarts, stdin, stdout, queue, answer, shuttingDown>>

\* Mutated form of exited: what was pending is forgotten.
exited_Forgets(w) ==
    /\ proc[w] = "dying"
    /\ ready' = [ready EXCEPT ![w] = FALSE]
    /\ pending' = [pending EXCEPT ![w] = None]
    /\ stdin' = [stdin EXCEPT ![w] = <<>>]
    /\ stdout' = [stdout EXCEPT ![w] = <<>>]
    /\ restarts' = [restarts EXCEPT ![w] = @ + 1]
    /\ proc' = [proc EXCEPT ![w] = "down"]
    /\ UNCHANGED <<queue, call, answer, shuttingDown>>

\* Rejected by an exit: what was pending, and the queue when the worker is given up.
Abandoned(w, givenUp) == {j \in Jobs : j = pending[w] \/ (givenUp /\ j \in Range(queue))}

exited(w) ==
    LET givenUp == ~shuttingDown /\ restarts[w] >= MAX_RESTARTS
    IN  /\ proc[w] = "dying"
        /\ ready' = [ready EXCEPT ![w] = FALSE]
        /\ pending' = [pending EXCEPT ![w] = None]
        /\ stdin' = [stdin EXCEPT ![w] = <<>>]
        /\ stdout' = [stdout EXCEPT ![w] = <<>>]
        /\ call' = [j \in Jobs |-> IF j \in Abandoned(w, givenUp) THEN "rejected" ELSE call[j]]
        /\ queue' = IF givenUp THEN <<>> ELSE queue
        /\ restarts' = [restarts EXCEPT ![w] = IF shuttingDown THEN @ ELSE @ + 1]
        /\ proc' = [proc EXCEPT ![w] = IF givenUp THEN "gaveUp" ELSE "down"]
        /\ UNCHANGED <<answer, shuttingDown>>

\* Mutated form of spawnWorker: only the first start ever happens.
spawnWorker_Once(w) ==
    /\ proc[w] = "down" /\ ~shuttingDown /\ restarts[w] = 0
    /\ proc' = [proc EXCEPT ![w] = "starting"]
    /\ UNCHANGED <<ready, pending, restarts, stdin, stdout, queue, call, answer, shuttingDown>>

\* The restart timer fires.
spawnWorker(w) ==
    /\ proc[w] = "down" /\ ~shuttingDown
    /\ proc' = [proc EXCEPT ![w] = "starting"]
    /\ UNCHANGED <<ready, pending, restarts, stdin, stdout, queue, call, answer, shuttingDown>>

\* "error" instead of a start: it is logged and nothing else.
spawnFails(w) ==
    /\ proc[w] = "starting"
    /\ proc' = [proc EXCEPT ![w] = "failed"]
    /\ UNCHANGED <<ready, pending, restarts, stdin, stdout, queue, call, answer, shuttingDown>>

stop ==
    /\ ~shuttingDown
    /\ shuttingDown' = TRUE
    /\ proc' = [w \in Workers |-> IF proc[w] \in {"starting", "serving"} THEN "dying"
                                  ELSE proc[w]]
    /\ UNCHANGED <<ready, pending, restarts, stdin, stdout, queue, call, answer>>

-----------------------------------------------------------------------------
Next ==
    \/ \E j \in Jobs : callWorker(j) \/ callRefused(j)
    \/ \E w \in Workers :
         \/ answerLine(w) \/ crash(w) \/ becomeReady(w) \/ handleLine(w)
         \/ timeout(w) \/ exited(w) \/ spawnWorker(w) \/ spawnFails(w)
    \/ stop

Spec == Init /\ [][Next]_vars

\* Timers fire, a killed process exits, and a process that starts gets ready or
\* ends; nothing makes a process answer.
Fairness ==
    \A w \in Workers :
        /\ WF_vars(timeout(w)) /\ WF_vars(exited(w)) /\ WF_vars(spawnWorker(w))
        /\ WF_vars(becomeReady(w) \/ (proc[w] = "starting" /\ crash(w)))

FairSpec == Spec /\ Fairness

-----------------------------------------------------------------------------
TypeOK ==
    /\ proc \in [Workers -> Processes]
    /\ ready \in [Workers -> BOOLEAN]
    /\ pending \in [Workers -> Jobs \cup {None}]
    /\ restarts \in [Workers -> 0 .. MAX_RESTARTS + 1]
    /\ stdin \in [Workers -> Seq(Jobs)]
    /\ stdout \in [Workers -> Seq(Jobs)]
    /\ queue \in Seq(Jobs)
    /\ call \in [Jobs -> {"new", "waiting", "answered", "rejected"}]
    /\ answer \in [Jobs -> Jobs \cup {None}]
    /\ shuttingDown \in BOOLEAN

\* A call whose promise is unsettled is queued once or pending at one worker,
\* and only such a call is: none is lost, none is settled twice, none is given
\* to two workers, through timeouts, exits and restarts.
WaitingInOnePlace ==
    \A j \in Jobs :
        LET at == {w \in Workers : pending[w] = j}
            in == {i \in 1 .. Len(queue) : queue[i] = j}
        IN  IF call[j] = "waiting"
            THEN Cardinality(at) + Cardinality(in) = 1
            ELSE at = {} /\ in = {}

\* A call gets another call's answer only from a process already killed or
\* dead: a serving process is never out of step with its worker.
MixUpOnlyWhenDying ==
    [][\A j \in Jobs : answer'[j] # answer[j] /\ answer'[j] # j =>
         \E w \in Workers : pending[w] = j /\ proc[w] = "dying"]_vars

\* "Bila semua proses sibuk, permintaan mengantre sampai ada yang luang": while
\* a call is queued, no living worker is free.
QueuedOnlyWhenBusy ==
    queue # <<>> => \A w \in Idle(ready, pending) : proc[w] = "dying"

Serving == {j \in Jobs : \E w \in Workers : pending[w] = j}
Settled == {j \in Jobs : call[j] \in {"answered", "rejected"}}

Service == INSTANCE CallService WITH
    Calls <- Jobs, Places <- Size, line <- queue, served <- Serving, settled <- Settled

\* The pool serves its callers as CallService says, whatever happens to its
\* processes: whoever is queued is dispatched in turn, a call leaves its worker
\* only settled, and what was settled is never settled again.
FollowsService == Service!Spec

NobodyLeft == \A w \in Workers : proc[w] \in {"gaveUp", "failed"}

\* Every call is settled in the end, however often processes hang or crash,
\* unless every worker was given up or could not be started (it is then queued
\* for ever) or the server stops.
EveryCallSettles ==
    \A j \in Jobs :
        call[j] = "waiting" ~> call[j] # "waiting" \/ NobodyLeft \/ shuttingDown
=============================================================================
