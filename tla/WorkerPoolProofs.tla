--------------------------- MODULE WorkerPoolProofs ---------------------------
(***************************************************************************)
(* Proofs about WorkerPool, for any number of workers and any jobs.        *)
(*                                                                         *)
(* Everything rests on what one drainQueue does: the idle workers take the *)
(* head of the queue, each job to one worker, until workers or jobs run    *)
(* out.  That is a fact about ranks, counted in DrainFacts.                *)
(***************************************************************************)
EXTENDS WorkerPool, FiniteSetTheorems, TLAPS

\* At most one place for a job: p are the pending jobs, q is the queue.
Apart(p, q) ==
    /\ \A i, k \in 1 .. Len(q) : q[i] = q[k] => i = k
    /\ \A v, w \in Workers : p[v] = p[w] /\ p[v] # None => v = w
    /\ \A w \in Workers, i \in 1 .. Len(q) : q[i] # p[w]

Placed(p, q, j) == (\E w \in Workers : p[w] = j) \/ (\E i \in 1 .. Len(q) : q[i] = j)

PlaceInv ==
    /\ Apart(pending, queue)
    /\ \A j \in Jobs : call[j] = "waiting" <=> Placed(pending, queue, j)

\* A worker is ready only while its process serves or dies, and only then busy.
ReadyInv ==
    \A w \in Workers :
        /\ ready[w] => proc[w] \in {"serving", "dying"}
        /\ pending[w] # None => proc[w] \in {"serving", "dying"}
        /\ restarts[w] = MAX_RESTARTS + 1 => proc[w] = "gaveUp"

\* A living process owes exactly the answer its worker waits for.
InStep(w) ==
    IF pending[w] = None
    THEN stdin[w] = <<>> /\ stdout[w] = <<>>
    ELSE \/ stdin[w] = <<pending[w]>> /\ stdout[w] = <<>>
         \/ stdin[w] = <<>> /\ stdout[w] = <<pending[w]>>

StepInv == \A w \in Workers : proc[w] # "dying" => InStep(w)

-----------------------------------------------------------------------------
(* Ranks.                                                                  *)

LEMMA WorkersFinite == IsFiniteSet(Workers) /\ Workers \subseteq Nat
BY SizeAssumption, FS_Interval DEF Workers

\* Ranks of a set of workers are 1 .. Cardinality, each one once.
LEMMA RankFacts ==
    ASSUME NEW I \in SUBSET Workers
    PROVE  /\ IsFiniteSet(I) /\ Cardinality(I) \in Nat
           /\ \A w \in I : Rank(I, w) \in 1 .. Cardinality(I)
           /\ \A v, w \in I : Rank(I, v) = Rank(I, w) => v = w
           /\ \A k \in 1 .. Cardinality(I) : \E w \in I : Rank(I, w) = k
<1> DEFINE Upto(w) == {v \in I : v <= w}
<1>1. IsFiniteSet(I) /\ Cardinality(I) \in Nat
  BY WorkersFinite, FS_Subset, FS_CardinalityType
<1>2. ASSUME NEW w \in I
      PROVE IsFiniteSet(Upto(w)) /\ Rank(I, w) = Cardinality(Upto(w))
            /\ Rank(I, w) \in 1 .. Cardinality(I)
  <2>1. Upto(w) \in SUBSET I /\ w \in Upto(w)
    BY WorkersFinite
  <2>2. IsFiniteSet(Upto(w)) /\ Cardinality(Upto(w)) <= Cardinality(I)
    BY <1>1, <2>1, FS_Subset
  <2>3. Cardinality(Upto(w)) \in Nat /\ Cardinality(Upto(w)) # 0
    BY <2>1, <2>2, FS_CardinalityType, FS_EmptySet
  <2> QED BY <1>1, <2>2, <2>3 DEF Rank
<1>3. ASSUME NEW v \in I, NEW w \in I, v < w PROVE Rank(I, v) # Rank(I, w)
  <2>1. Upto(v) \in SUBSET Upto(w) /\ w \in Upto(w) /\ w \notin Upto(v)
    <3>1. I \subseteq Nat
      BY WorkersFinite
    <3>2. v \in Nat /\ w \in Nat /\ ~(w <= v) /\ w <= w
      BY <1>3, <3>1
    <3>3. \A x \in I : x <= v => x <= w
      BY <1>3, <3>1, <3>2
    <3> QED BY <3>2, <3>3
  <2>2. Upto(v) # Upto(w)
    BY <2>1
  <2> QED BY <1>2, <2>1, <2>2, FS_Subset
<1>4. \A v, w \in I : Rank(I, v) = Rank(I, w) => v = w
  BY <1>3, WorkersFinite
<1>5. \A k \in 1 .. Cardinality(I) : \E w \in I : Rank(I, w) = k
  <2> DEFINE f == [w \in I |-> Rank(I, w)]
             n == Cardinality(I)
  <2>1. f \in Injection(I, 1 .. n)
    BY <1>2, <1>4 DEF Injection, IsInjective
  <2>2. IsFiniteSet(1 .. n) /\ Cardinality(1 .. n) = n
    BY <1>1, FS_Interval
  <2>3. f \in Surjection(I, 1 .. n)
    BY <2>1, <2>2, FS_Injection
  <2> QED BY <2>3 DEF Surjection
<1> QED BY <1>1, <1>2, <1>4, <1>5

\* The chosen workers take the first jobs of the queue, one each, until the workers
\* or the jobs run out.
LEMMA ChosenFacts ==
    ASSUME NEW I \in SUBSET Workers, NEW q \in Seq(Jobs)
    PROVE  LET C == Chosen(I, q)
               n == Cardinality(C)
           IN  /\ C \subseteq I /\ n \in Nat /\ n <= Len(q)
               /\ \A w \in C : Rank(I, w) \in 1 .. n
               /\ \A v, w \in C : Rank(I, v) = Rank(I, w) => v = w
               /\ \A k \in 1 .. n : \E w \in C : Rank(I, w) = k
               /\ C = I \/ n = Len(q)
<1> DEFINE C == Chosen(I, q)
           n == Cardinality(C)
<1>r. /\ IsFiniteSet(I) /\ Cardinality(I) \in Nat
      /\ \A w \in I : Rank(I, w) \in 1 .. Cardinality(I)
      /\ \A v, w \in I : Rank(I, v) = Rank(I, w) => v = w
      /\ \A k \in 1 .. Cardinality(I) : \E w \in I : Rank(I, w) = k
  BY RankFacts
<1>1. C \in SUBSET I /\ Len(q) \in Nat
  BY DEF Chosen
<1>2. IsFiniteSet(C) /\ n \in Nat
  BY <1>1, <1>r, FS_Subset, FS_CardinalityType
<1>3. CASE C = I
  <2>1. \A k \in 1 .. n : \E w \in C : Rank(I, w) = k
    BY <1>r, <1>3
  <2>2. n <= Len(q)
    <3>1. CASE n = 0
      BY <1>1, <3>1
    <3>2. CASE n # 0
      BY <1>1, <1>2, <2>1, <3>2 DEF Chosen
    <3> QED BY <3>1, <3>2
  <2> QED BY <1>1, <1>2, <1>3, <2>1, <2>2, <1>r
<1>4. CASE C # I
  <2> DEFINE m == Len(q)
             f == [w \in C |-> Rank(I, w)]
  <2>0. m \in Nat
    BY <1>1
  <2>1. PICK x \in I : ~(Rank(I, x) <= m)
    BY <1>1, <1>4 DEF Chosen
  <2>2. m < Cardinality(I)
    <3>1. Rank(I, x) \in Nat /\ Rank(I, x) <= Cardinality(I)
      BY <1>r
    <3> QED BY <1>r, <2>0, <2>1, <3>1
  <2>3. \A k \in 1 .. m : \E w \in C : Rank(I, w) = k
    <3>1. ASSUME NEW k \in 1 .. m PROVE \E w \in C : Rank(I, w) = k
      <4>1. k \in 1 .. Cardinality(I)
        BY <1>r, <2>0, <2>2
      <4>2. PICK w \in I : Rank(I, w) = k
        BY <1>r, <4>1
      <4>3. w \in C
        BY <2>0, <4>2 DEF Chosen
      <4> QED BY <4>2, <4>3
    <3> QED BY <3>1
  <2>4. \A w \in C : Rank(I, w) \in 1 .. m
    BY <1>1, <1>r DEF Chosen
  <2>5. f \in Injection(C, 1 .. m)
    BY <1>1, <2>4, <1>r DEF Injection, IsInjective
  <2>6. f \in Surjection(C, 1 .. m)
    BY <2>3, <2>4 DEF Surjection
  <2>7. IsFiniteSet(1 .. m) /\ Cardinality(1 .. m) = m
    <3> HIDE DEF m
    <3> QED BY <2>0, FS_Interval
  <2>8. n = m
    BY <2>5, <2>6, <2>7, FS_Injection
  <2> QED BY <1>1, <1>2, <2>3, <2>4, <2>8, <1>r
<1> QED BY <1>3, <1>4

-----------------------------------------------------------------------------
\* What a drainQueue does: idle workers alone are given jobs, each one job that is
\* written to its process; no job is lost or doubled; and nothing stays queued
\* while a worker stays idle.
LEMMA DrainFacts ==
    ASSUME NEW r, NEW p \in [Workers -> Jobs \cup {None}], NEW q \in Seq(Jobs),
           stdin \in [Workers -> Seq(Jobs)], drainQueue(r, p, q)
    PROVE  /\ pending' \in [Workers -> Jobs \cup {None}] /\ queue' \in Seq(Jobs)
           /\ stdin' \in [Workers -> Seq(Jobs)]
           /\ \A w \in Workers :
                \/ pending'[w] = p[w] /\ stdin'[w] = stdin[w]
                \/ /\ r[w] /\ p[w] = None /\ pending'[w] \in Jobs
                   /\ stdin'[w] = Append(stdin[w], pending'[w])
           /\ queue' # <<>> => \A w \in Workers : r[w] => pending'[w] # None
           /\ Apart(p, q) => Apart(pending', queue')
           /\ \A j \in Jobs : Placed(pending', queue', j) <=> Placed(p, q, j)
<1> DEFINE I == Idle(r, p)
           C == Chosen(I, q)
           n == Cardinality(C)
<1>1. /\ C \subseteq I /\ n \in Nat /\ n <= Len(q)
      /\ \A w \in C : Rank(I, w) \in 1 .. n
      /\ \A v, w \in C : Rank(I, v) = Rank(I, w) => v = w
      /\ \A k \in 1 .. n : \E w \in C : Rank(I, w) = k
      /\ C = I \/ n = Len(q)
  <2>1. I \in SUBSET Workers
    BY DEF Idle
  <2> HIDE DEF I
  <2> QED BY <2>1, ChosenFacts
<1>2. \A w \in I : w \in Workers /\ r[w] /\ p[w] = None
  BY DEF Idle
<1>3. /\ pending' = [w \in Workers |-> IF w \in C THEN q[Rank(I, w)] ELSE p[w]]
      /\ stdin' = [w \in Workers |-> IF w \in C THEN Append(stdin[w], q[Rank(I, w)])
                                     ELSE stdin[w]]
      /\ queue' = SubSeq(q, n + 1, Len(q))
  BY DEF drainQueue
<1>i. \A w \in Workers : r[w] /\ p[w] = None => w \in I
  BY DEF Idle
<1> HIDE DEF I, C, n
<1>4. /\ queue' \in Seq(Jobs) /\ Len(queue') = Len(q) - n /\ Len(q) \in Nat
      /\ \A i \in 1 .. Len(q) - n : queue'[i] = q[i + n]
  BY <1>1, <1>3
<1>5. \A w \in C : w \in Workers /\ pending'[w] = q[Rank(I, w)] /\ q[Rank(I, w)] \in Jobs
                    /\ stdin'[w] = Append(stdin[w], pending'[w])
                    /\ Rank(I, w) \in 1 .. Len(q) /\ Rank(I, w) <= n
  <2>1. ASSUME NEW w \in C
        PROVE w \in Workers /\ Rank(I, w) \in 1 .. Len(q) /\ Rank(I, w) <= n
    BY <1>1, <1>2, <1>4
  <2>2. \A i \in 1 .. Len(q) : q[i] \in Jobs
    OBVIOUS
  <2>3. \A w \in C : pending'[w] = q[Rank(I, w)] /\ stdin'[w] = Append(stdin[w], pending'[w])
    BY <1>3, <2>1
  <2> QED BY <2>1, <2>2, <2>3
<1>6. \A w \in Workers \ C : pending'[w] = p[w] /\ stdin'[w] = stdin[w]
  BY <1>3
<1>7. /\ pending' \in [Workers -> Jobs \cup {None}]
      /\ stdin' \in [Workers -> Seq(Jobs)]
  <2>1. \A w \in Workers : pending'[w] \in Jobs \cup {None} /\ stdin'[w] \in Seq(Jobs)
    <3>1. ASSUME NEW w \in C
          PROVE pending'[w] \in Jobs \cup {None} /\ stdin'[w] \in Seq(Jobs)
      <4>1. w \in Workers /\ pending'[w] \in Jobs /\ stdin'[w] = Append(stdin[w], pending'[w])
        BY <1>5, <3>1
      <4>2. stdin[w] \in Seq(Jobs)
        BY <4>1
      <4> QED BY <4>1, <4>2
    <3>2. ASSUME NEW w \in Workers \ C
          PROVE pending'[w] \in Jobs \cup {None} /\ stdin'[w] \in Seq(Jobs)
      BY <1>6, <3>2
    <3> QED BY <3>1, <3>2
  <2> QED BY <1>3, <2>1
<1>8. \A w \in Workers :
        \/ pending'[w] = p[w] /\ stdin'[w] = stdin[w]
        \/ /\ r[w] /\ p[w] = None /\ pending'[w] \in Jobs
           /\ stdin'[w] = Append(stdin[w], pending'[w])
  BY <1>1, <1>2, <1>5, <1>6
<1>9. ASSUME queue' # <<>>, NEW w \in Workers, r[w] PROVE pending'[w] # None
  <2>1. n # Len(q)
    BY <1>3, <1>4, <1>9
  <2>2. C = I
    BY <1>1, <2>1
  <2> QED BY <1>i, <1>5, <1>6, <1>9, <2>2, JobsAssumption
<1>10. ASSUME Apart(p, q) PROVE Apart(pending', queue')
  <2>1. ASSUME NEW i \in 1 .. Len(queue'), NEW k \in 1 .. Len(queue'), queue'[i] = queue'[k]
        PROVE i = k
    <3>1. i \in Nat /\ k \in Nat /\ i + n \in 1 .. Len(q) /\ k + n \in 1 .. Len(q)
      BY <1>1, <1>4
    <3>2. i + n = k + n
      BY <1>4, <1>10, <2>1, <3>1 DEF Apart
    <3> QED BY <1>1, <3>1, <3>2
  <2>2. ASSUME NEW v \in Workers, NEW w \in Workers, pending'[v] = pending'[w],
               pending'[v] # None
        PROVE v = w
    <3>1. CASE v \in C /\ w \in C
      <4>1. q[Rank(I, v)] = q[Rank(I, w)]
        BY <1>5, <2>2, <3>1
      <4>2. Rank(I, v) = Rank(I, w)
        BY <1>5, <1>10, <3>1, <4>1 DEF Apart
      <4> QED BY <1>1, <3>1, <4>2
    <3>2. CASE v \in C /\ w \notin C
      BY <1>5, <1>6, <1>10, <2>2, <3>2 DEF Apart
    <3>3. CASE v \notin C /\ w \in C
      <4>1. q[Rank(I, w)] = p[v] /\ Rank(I, w) \in 1 .. Len(q)
        BY <1>5, <1>6, <2>2, <3>3
      <4> QED BY <1>10, <4>1 DEF Apart
    <3>4. CASE v \notin C /\ w \notin C
      BY <1>6, <1>10, <2>2, <3>4 DEF Apart
    <3> QED BY <3>1, <3>2, <3>3, <3>4
  <2>3. ASSUME NEW w \in Workers, NEW i \in 1 .. Len(queue') PROVE queue'[i] # pending'[w]
    <3>1. i \in Nat /\ i # 0 /\ i + n \in 1 .. Len(q) /\ queue'[i] = q[i + n]
      BY <1>1, <1>4
    <3>2. CASE w \in C
      <4>1. Rank(I, w) # i + n
        BY <1>1, <3>1, <3>2
      <4> QED BY <1>5, <1>10, <3>1, <3>2, <4>1 DEF Apart
    <3>3. CASE w \notin C
      BY <1>6, <1>10, <3>1, <3>3 DEF Apart
    <3> QED BY <3>2, <3>3
  <2> QED BY <2>1, <2>2, <2>3 DEF Apart
<1>11. ASSUME NEW j \in Jobs PROVE Placed(pending', queue', j) <=> Placed(p, q, j)
  <2>1. ASSUME NEW w \in Workers, pending'[w] = j PROVE Placed(p, q, j)
    BY <1>5, <1>6, <2>1 DEF Placed
  <2>2. ASSUME NEW i \in 1 .. Len(queue'), queue'[i] = j PROVE Placed(p, q, j)
    <3>1. i + n \in 1 .. Len(q) /\ queue'[i] = q[i + n]
      BY <1>1, <1>4
    <3> QED BY <2>2, <3>1 DEF Placed
  <2>3. ASSUME NEW w \in Workers, p[w] = j PROVE Placed(pending', queue', j)
    <3>1. w \notin C
      BY <1>1, <1>2, <2>3, JobsAssumption
    <3> QED BY <1>6, <2>3, <3>1 DEF Placed
  <2>4. ASSUME NEW i \in 1 .. Len(q), q[i] = j PROVE Placed(pending', queue', j)
    <3>1. CASE i <= n
      <4>1. PICK w \in C : Rank(I, w) = i
        BY <1>1, <1>4, <3>1
      <4> QED BY <1>5, <2>4, <4>1 DEF Placed
    <3>2. CASE ~(i <= n)
      <4>1. i - n \in 1 .. Len(queue') /\ (i - n) + n = i
        BY <1>1, <1>4, <3>2
      <4>2. queue'[i - n] = j
        BY <1>4, <2>4, <4>1
      <4> QED BY <4>1, <4>2 DEF Placed
    <3> QED BY <3>1, <3>2
  <2> QED BY <2>1, <2>2, <2>3, <2>4 DEF Placed
<1> QED BY <1>4, <1>7, <1>8, <1>9, <1>10, <1>11

-----------------------------------------------------------------------------
\* Next, with the steps that drain the queue apart.
Drains(w) == becomeReady(w) \/ handleLine(w)

LEMMA Steps ==
    [Next]_vars =>
        \/ \E j \in Jobs : callWorker(j) \/ callRefused(j)
        \/ \E w \in Workers : Drains(w)
        \/ \E w \in Workers : \/ answerLine(w) \/ crash(w) \/ timeout(w) \/ exited(w)
                               \/ spawnWorker(w) \/ spawnFails(w)
        \/ stop
        \/ UNCHANGED vars
BY DEF Next, Drains

\* The worker a call is dispatched to is the first idle one.
LEMMA IdleWorker ==
    ASSUME NEW I \in SUBSET Workers, I # {}
    PROVE  (CHOOSE v \in I : \A u \in I : v <= u) \in I
<1>1. \A w \in I : Rank(I, w) \in 1 .. Cardinality(I)
  BY RankFacts
<1>2. PICK w \in I : Rank(I, w) = 1
  <2>1. 1 \in 1 .. Cardinality(I)
    BY <1>1, RankFacts
  <2> QED BY <2>1, RankFacts
<1>3. ASSUME NEW u \in I PROVE w <= u
  <2> DEFINE U == {v \in I : v <= w}
  <2>1. IsFiniteSet(U) /\ Cardinality(U) = 1
    <3>1. U \in SUBSET I
      OBVIOUS
    <3> QED BY <1>2, <3>1, RankFacts, FS_Subset DEF Rank
  <2>2. PICK x : U = {x}
    BY <2>1, FS_Singleton
  <2>3. w \in Nat /\ u \in Nat
    BY WorkersFinite
  <2>4. w \in U
    BY <2>3
  <2>5. u <= w => u = w
    BY <2>2, <2>4
  <2> QED BY <2>3, <2>5
<1> QED BY <1>3

TypeInv == TypeOK /\ ReadyInv

\* Type correctness: restarts are counted to MAX_RESTARTS + 1 at most, because a
\* worker given up is never spawned again.
THEOREM TypeCorrect == Spec => []TypeInv
<1> USE SizeAssumption, JobsAssumption
<1>1. Init => TypeInv
  <2>1. 0 \in 0 .. MAX_RESTARTS + 1 /\ 0 # MAX_RESTARTS + 1
    OBVIOUS
  <2>2. <<>> \in Seq(Jobs)
    OBVIOUS
  <2>3. Init => TypeOK
    <3>1. Init => stdin \in [Workers -> Seq(Jobs)] /\ stdout \in [Workers -> Seq(Jobs)]
                  /\ queue \in Seq(Jobs)
      BY <2>2 DEF Init
    <3>2. Init => restarts \in [Workers -> 0 .. MAX_RESTARTS + 1]
      BY <2>1 DEF Init
    <3> SUFFICES ASSUME Init PROVE TypeOK
      OBVIOUS
    <3>3. /\ proc \in [Workers -> Processes] /\ ready \in [Workers -> BOOLEAN]
          /\ pending \in [Workers -> Jobs \cup {None}] /\ shuttingDown \in BOOLEAN
      BY DEF Init, Processes
    <3>4. /\ call \in [Jobs -> {"new", "waiting", "answered", "rejected"}]
          /\ answer \in [Jobs -> Jobs \cup {None}]
      BY DEF Init
    <3> QED BY <3>1, <3>2, <3>3, <3>4 DEF TypeOK
  <2>4. Init => ReadyInv
    BY <2>1 DEF Init, ReadyInv
  <2> QED BY <2>3, <2>4 DEF TypeInv
<1>2. TypeInv /\ [Next]_vars => TypeInv'
  <2> SUFFICES ASSUME TypeInv, [Next]_vars PROVE TypeInv'
    OBVIOUS
  <2> USE DEF TypeInv, TypeOK, ReadyInv, Processes
  <2>1. ASSUME NEW j \in Jobs, callWorker(j) PROVE TypeInv'
    <3>1. CASE Idle(ready, pending) = {}
      <4>1. /\ queue' = Append(queue, j) /\ call' = [call EXCEPT ![j] = "waiting"]
            /\ UNCHANGED <<pending, stdin, proc, ready, restarts, stdout, answer, shuttingDown>>
        BY <2>1, <3>1 DEF callWorker
      <4>2. queue' \in Seq(Jobs)
        BY <4>1
      <4> QED BY <4>1, <4>2
    <3>2. CASE Idle(ready, pending) # {}
      <4>1. PICK w \in Idle(ready, pending) :
                 /\ pending' = [pending EXCEPT ![w] = j]
                 /\ stdin' = [stdin EXCEPT ![w] = Append(@, j)]
        <5>1. Idle(ready, pending) \in SUBSET Workers
          BY DEF Idle
        <5> QED BY <2>1, <3>2, <5>1, IdleWorker DEF callWorker
      <4>2. w \in Workers /\ proc[w] \in {"serving", "dying"} /\ queue' = queue
        BY <2>1, <3>2, <4>1 DEF callWorker, Idle
      <4>3. UNCHANGED <<proc, ready, restarts, stdout, answer, shuttingDown>>
            /\ call' = [call EXCEPT ![j] = "waiting"]
        BY <2>1 DEF callWorker
      <4> QED BY <4>1, <4>2, <4>3
    <3> QED BY <3>1, <3>2
  <2>2. ASSUME NEW j \in Jobs, callRefused(j) PROVE TypeInv'
    BY <2>2 DEF callRefused
  <2>3. ASSUME NEW w \in Workers, becomeReady(w) PROVE TypeInv'
    <3>1. drainQueue(ready', pending, queue)
      BY <2>3 DEF becomeReady
    <3>2. /\ pending' \in [Workers -> Jobs \cup {None}] /\ queue' \in Seq(Jobs)
          /\ stdin' \in [Workers -> Seq(Jobs)]
          /\ \A v \in Workers : pending'[v] = pending[v] \/ ready'[v]
      BY <3>1, DrainFacts
    <3>3. /\ proc' = [proc EXCEPT ![w] = "serving"] /\ proc[w] = "starting"
          /\ ready' = [ready EXCEPT ![w] = TRUE] /\ restarts' = [restarts EXCEPT ![w] = 0]
          /\ UNCHANGED <<stdout, call, answer, shuttingDown>>
      BY <2>3 DEF becomeReady
    <3> QED BY <3>2, <3>3
  <2>4. ASSUME NEW w \in Workers, handleLine(w) PROVE TypeInv'
    <3>1. CASE pending[w] = None
      BY <2>4, <3>1 DEF handleLine
    <3>2. CASE pending[w] # None
      <4> DEFINE p == [pending EXCEPT ![w] = None]
      <4>1. drainQueue(ready, p, queue) /\ p \in [Workers -> Jobs \cup {None}]
        BY <2>4, <3>2 DEF handleLine
      <4>2. \A v \in Workers : p[v] # None => pending[v] # None
        OBVIOUS
      <4> HIDE DEF p
      <4>3. /\ pending' \in [Workers -> Jobs \cup {None}] /\ queue' \in Seq(Jobs)
            /\ stdin' \in [Workers -> Seq(Jobs)]
            /\ \A v \in Workers : pending'[v] = p[v] \/ ready[v]
        BY <4>1, DrainFacts
      <4>4. /\ UNCHANGED <<proc, ready, restarts, shuttingDown>>
            /\ stdout' = [stdout EXCEPT ![w] = Tail(@)] /\ stdout[w] # <<>>
            /\ call' = [call EXCEPT ![pending[w]] = "answered"]
            /\ answer' = [answer EXCEPT ![pending[w]] = Head(stdout[w])]
            /\ pending[w] \in Jobs
        BY <2>4, <3>2 DEF handleLine
      <4>5. answer' \in [Jobs -> Jobs \cup {None}] /\ stdout' \in [Workers -> Seq(Jobs)]
        BY <4>4
      <4> QED BY <4>2, <4>3, <4>4, <4>5
    <3> QED BY <3>1, <3>2
  <2>5. ASSUME NEW w \in Workers, answerLine(w) PROVE TypeInv'
    BY <2>5 DEF answerLine
  <2>6. ASSUME NEW w \in Workers, crash(w) \/ spawnWorker(w) \/ spawnFails(w) PROVE TypeInv'
    BY <2>6 DEF crash, spawnWorker, spawnFails
  <2>7. ASSUME NEW w \in Workers, timeout(w) PROVE TypeInv'
    BY <2>7 DEF timeout
  <2>8. ASSUME NEW w \in Workers, exited(w) PROVE TypeInv'
    <3>1. restarts[w] \in 0 .. MAX_RESTARTS
      BY <2>8 DEF exited
    <3> QED BY <2>8, <3>1 DEF exited
  <2>9. CASE stop
    BY <2>9 DEF stop
  <2>10. CASE UNCHANGED vars
    BY <2>10 DEF vars
  <2> QED
    BY <2>1, <2>2, <2>3, <2>4, <2>5, <2>6, <2>7, <2>8, <2>9, <2>10, Steps DEF Drains
<1> QED BY <1>1, <1>2, PTL DEF Spec

-----------------------------------------------------------------------------
\* A call waits in one place from its making to its settling.
THEOREM PlacesCorrect == Spec => []PlaceInv
<1> USE SizeAssumption, JobsAssumption
<1>1. Init => PlaceInv
  <2>1. Init => Len(queue) = 0 /\ \A w \in Workers : pending[w] = None
    BY DEF Init
  <2> QED BY <2>1 DEF Init, PlaceInv, Apart, Placed
<1>2. TypeInv /\ PlaceInv /\ [Next]_vars => PlaceInv'
  <2> SUFFICES ASSUME TypeInv, PlaceInv, [Next]_vars PROVE PlaceInv'
    OBVIOUS
  <2> USE DEF TypeInv, TypeOK
  <2>a. \A i \in 1 .. Len(queue) : queue[i] \in Jobs
    OBVIOUS
  <2>1. ASSUME NEW j \in Jobs, callWorker(j) PROVE PlaceInv'
    <3>1. call[j] = "new" /\ call' = [call EXCEPT ![j] = "waiting"]
      BY <2>1 DEF callWorker
    <3>2. ~Placed(pending, queue, j)
      BY <3>1 DEF PlaceInv
    <3>3. CASE Idle(ready, pending) = {}
      <4>1. queue' = Append(queue, j) /\ pending' = pending
        BY <2>1, <3>3 DEF callWorker
      <4>2. /\ Len(queue') = Len(queue) + 1 /\ queue'[Len(queue) + 1] = j /\ Len(queue) \in Nat
            /\ \A i \in 1 .. Len(queue) : queue'[i] = queue[i]
        BY <4>1
      <4>3. Apart(pending', queue')
        BY <3>2, <4>1, <4>2 DEF PlaceInv, Apart, Placed
      <4>4. \A k \in Jobs : Placed(pending', queue', k) <=> k = j \/ Placed(pending, queue, k)
        <5>1. 1 .. Len(queue') = (1 .. Len(queue)) \cup {Len(queue) + 1}
          BY <4>2
        <5>2. \A k \in Jobs : (\E i \in 1 .. Len(queue') : queue'[i] = k)
                             <=> k = j \/ \E i \in 1 .. Len(queue) : queue[i] = k
          BY <4>2, <5>1
        <5> QED BY <4>1, <5>2 DEF Placed
      <4> QED BY <3>1, <4>3, <4>4 DEF PlaceInv
    <3>4. CASE Idle(ready, pending) # {}
      <4>1. PICK w \in Idle(ready, pending) :
                 pending' = [pending EXCEPT ![w] = j] /\ queue' = queue
        <5>1. Idle(ready, pending) \in SUBSET Workers
          BY DEF Idle
        <5> QED BY <2>1, <3>4, <5>1, IdleWorker DEF callWorker
      <4>2. w \in Workers /\ pending[w] = None
        BY <4>1 DEF Idle
      <4>3. Apart(pending', queue')
        BY <3>2, <4>1, <4>2 DEF PlaceInv, Apart, Placed
      <4>4. \A k \in Jobs : Placed(pending', queue', k) <=> k = j \/ Placed(pending, queue, k)
        BY <4>1, <4>2 DEF Placed
      <4> QED BY <3>1, <4>3, <4>4 DEF PlaceInv
    <3> QED BY <3>3, <3>4
  <2>2. ASSUME NEW j \in Jobs, callRefused(j) PROVE PlaceInv'
    BY <2>2 DEF callRefused, PlaceInv
  <2>3. ASSUME NEW w \in Workers, becomeReady(w) PROVE PlaceInv'
    <3>1. drainQueue(ready', pending, queue) /\ call' = call
      BY <2>3 DEF becomeReady
    <3>2. /\ Apart(pending, queue) => Apart(pending', queue')
          /\ \A j \in Jobs : Placed(pending', queue', j) <=> Placed(pending, queue, j)
      BY <3>1, DrainFacts
    <3> QED BY <3>1, <3>2 DEF PlaceInv
  <2>b. ASSUME NEW w \in Workers, NEW p, p = [pending EXCEPT ![w] = None]
        PROVE /\ p \in [Workers -> Jobs \cup {None}]
              /\ Apart(p, queue)
              /\ \A j \in Jobs : Placed(p, queue, j) <=> call[j] = "waiting" /\ j # pending[w]
    <3>1. \A v \in Workers \ {w} : p[v] = pending[v]
      BY <2>b
    <3>2. p[w] = None /\ p \in [Workers -> Jobs \cup {None}]
      BY <2>b
    <3>3. Apart(p, queue)
      BY <2>a, <3>1, <3>2 DEF PlaceInv, Apart
    <3>4. ASSUME NEW j \in Jobs, Placed(p, queue, j) PROVE Placed(pending, queue, j) /\ j # pending[w]
      <4>1. ASSUME NEW v \in Workers, p[v] = j PROVE Placed(pending, queue, j) /\ j # pending[w]
        <5>1. v # w /\ pending[v] = j
          BY <3>1, <3>2, <4>1
        <5> QED BY <5>1 DEF PlaceInv, Apart, Placed
      <4>2. ASSUME NEW i \in 1 .. Len(queue), queue[i] = j
            PROVE Placed(pending, queue, j) /\ j # pending[w]
        BY <4>2 DEF PlaceInv, Apart, Placed
      <4> QED BY <3>4, <4>1, <4>2 DEF Placed
    <3>5. ASSUME NEW j \in Jobs, Placed(pending, queue, j), j # pending[w] PROVE Placed(p, queue, j)
      BY <3>1, <3>5 DEF Placed
    <3> QED BY <3>2, <3>3, <3>4, <3>5 DEF PlaceInv
  <2>4. ASSUME NEW w \in Workers, handleLine(w) PROVE PlaceInv'
    <3>1. CASE pending[w] = None
      BY <2>4, <3>1 DEF handleLine, PlaceInv
    <3>2. CASE pending[w] # None
      <4>1. PICK p : p = [pending EXCEPT ![w] = None]
        OBVIOUS
      <4>2. drainQueue(ready, p, queue) /\ call' = [call EXCEPT ![pending[w]] = "answered"]
        BY <2>4, <3>2, <4>1 DEF handleLine
      <4>3. p \in [Workers -> Jobs \cup {None}]
        BY <2>b, <4>1
      <4>4. /\ Apart(p, queue) => Apart(pending', queue')
            /\ \A j \in Jobs : Placed(pending', queue', j) <=> Placed(p, queue, j)
        BY <4>2, <4>3, DrainFacts
      <4> QED BY <2>b, <4>1, <4>2, <4>4 DEF PlaceInv
    <3> QED BY <3>1, <3>2
  <2>5. ASSUME NEW w \in Workers, timeout(w) PROVE PlaceInv'
    <3>1. /\ pending' = [pending EXCEPT ![w] = None] /\ queue' = queue
          /\ call' = [call EXCEPT ![pending[w]] = "rejected"] /\ pending[w] \in Jobs
      BY <2>5 DEF timeout
    <3> QED BY <2>b, <3>1 DEF PlaceInv
  <2>6. ASSUME NEW w \in Workers, exited(w) PROVE PlaceInv'
    <3> DEFINE givenUp == ~shuttingDown /\ restarts[w] >= MAX_RESTARTS
    <3>1. /\ pending' = [pending EXCEPT ![w] = None]
          /\ call' = [j \in Jobs |-> IF j \in Abandoned(w, givenUp) THEN "rejected" ELSE call[j]]
          /\ queue' = IF givenUp THEN <<>> ELSE queue
      BY <2>6 DEF exited
    <3>2. CASE ~givenUp
      <4>1. \A j \in Jobs : j \in Abandoned(w, givenUp) <=> j = pending[w]
        BY <3>2 DEF Abandoned
      <4> HIDE DEF givenUp
      <4> QED BY <2>b, <3>1, <3>2, <4>1 DEF PlaceInv
    <3>3. CASE givenUp
      <4>1. \A j \in Jobs : j \in Abandoned(w, givenUp)
                            <=> j = pending[w] \/ \E i \in 1 .. Len(queue) : queue[i] = j
        BY <3>3 DEF Abandoned, Range
      <4> HIDE DEF givenUp
      <4>2. Len(queue') = 0 /\ \A v \in Workers \ {w} : pending'[v] = pending[v]
        BY <3>1, <3>3
      <4>3. Apart(pending', queue')
        BY <2>b, <3>1, <4>2 DEF PlaceInv, Apart
      <4>4. \A j \in Jobs : call'[j] = "waiting" <=>
               /\ Placed(pending, queue, j) /\ j # pending[w]
               /\ ~\E i \in 1 .. Len(queue) : queue[i] = j
        BY <3>1, <4>1 DEF PlaceInv
      <4>5. \A j \in Jobs : Placed(pending', queue', j) <=>
               \E v \in Workers \ {w} : pending[v] = j
        BY <3>1, <4>2 DEF Placed
      <4>6. ASSUME NEW j \in Jobs, NEW v \in Workers \ {w}, pending[v] = j
            PROVE call'[j] = "waiting"
        <5>1. j # pending[w] /\ \A i \in 1 .. Len(queue) : queue[i] # j
          BY <4>6 DEF PlaceInv, Apart
        <5>2. Placed(pending, queue, j)
          BY <4>6 DEF Placed
        <5> QED BY <4>4, <5>1, <5>2
      <4>7. ASSUME NEW j \in Jobs, call'[j] = "waiting" PROVE \E v \in Workers \ {w} : pending[v] = j
        BY <4>4, <4>7 DEF Placed
      <4> QED BY <4>3, <4>5, <4>6, <4>7 DEF PlaceInv
    <3> QED BY <3>2, <3>3
  <2>7. ASSUME NEW w \in Workers, answerLine(w) \/ crash(w) \/ spawnWorker(w) \/ spawnFails(w)
        PROVE PlaceInv'
    BY <2>7 DEF answerLine, crash, spawnWorker, spawnFails, PlaceInv
  <2>8. CASE stop \/ UNCHANGED vars
    BY <2>8 DEF stop, vars, PlaceInv
  <2> QED
    BY <2>1, <2>2, <2>3, <2>4, <2>5, <2>6, <2>7, <2>8, Steps DEF Drains
<1> QED BY <1>1, <1>2, TypeCorrect, PTL DEF Spec

\* No call is lost, settled twice or given to two workers.
THEOREM WaitingSafe == Spec => []WaitingInOnePlace
<1>1. TypeInv /\ PlaceInv => WaitingInOnePlace
  <2> SUFFICES ASSUME TypeInv, PlaceInv, NEW j \in Jobs
               PROVE  LET at == {w \in Workers : pending[w] = j}
                          in == {i \in 1 .. Len(queue) : queue[i] = j}
                      IN  IF call[j] = "waiting"
                          THEN Cardinality(at) + Cardinality(in) = 1
                          ELSE at = {} /\ in = {}
    BY DEF WaitingInOnePlace
  <2> DEFINE at == {w \in Workers : pending[w] = j}
             in == {i \in 1 .. Len(queue) : queue[i] = j}
  <2>1. CASE call[j] # "waiting"
    BY <2>1 DEF PlaceInv, Placed
  <2>2. ASSUME NEW w \in Workers, pending[w] = j PROVE Cardinality(at) + Cardinality(in) = 1
    <3>1. at = {w} /\ in = {}
      BY <2>2, JobsAssumption DEF PlaceInv, Apart
    <3>2. Cardinality(at) = 1 /\ Cardinality(in) = 0
      BY <3>1, FS_EmptySet, FS_Singleton
    <3> HIDE DEF at, in
    <3> QED BY <3>2
  <2>3. ASSUME NEW i \in 1 .. Len(queue), queue[i] = j
        PROVE Cardinality(at) + Cardinality(in) = 1
    <3>1. at = {} /\ in = {i}
      BY <2>3 DEF PlaceInv, Apart
    <3>2. Cardinality(at) = 0 /\ Cardinality(in) = 1
      BY <3>1, FS_EmptySet, FS_Singleton
    <3> HIDE DEF at, in
    <3> QED BY <3>2
  <2> QED BY <2>1, <2>2, <2>3 DEF PlaceInv, Placed
<1> QED BY <1>1, TypeCorrect, PlacesCorrect, PTL

-----------------------------------------------------------------------------
\* Nobody waits in the queue while a living worker is free.
THEOREM BusyCorrect == Spec => []QueuedOnlyWhenBusy
<1> USE SizeAssumption, JobsAssumption
<1>1. Init => QueuedOnlyWhenBusy
  BY DEF Init, QueuedOnlyWhenBusy
<1>2. TypeInv /\ QueuedOnlyWhenBusy /\ [Next]_vars => QueuedOnlyWhenBusy'
  <2> SUFFICES ASSUME TypeInv, QueuedOnlyWhenBusy, [Next]_vars PROVE QueuedOnlyWhenBusy'
    OBVIOUS
  <2> USE DEF TypeInv, TypeOK, QueuedOnlyWhenBusy
  <2>a. ASSUME queue' # <<>> => queue # <<>>,
               \A w \in Workers :
                 ready'[w] /\ pending'[w] = None /\ proc'[w] # "dying"
                   => ready[w] /\ pending[w] = None /\ proc[w] # "dying"
        PROVE QueuedOnlyWhenBusy'
    BY <2>a DEF Idle
  <2>1. ASSUME NEW j \in Jobs, callWorker(j) PROVE QueuedOnlyWhenBusy'
    <3>1. CASE Idle(ready, pending) = {}
      <4>1. UNCHANGED <<pending, ready>>
        BY <2>1, <3>1 DEF callWorker
      <4> QED BY <3>1, <4>1 DEF Idle
    <3>2. CASE Idle(ready, pending) # {}
      <4>1. PICK w \in Idle(ready, pending) :
                 pending' = [pending EXCEPT ![w] = j] /\ queue' = queue
        <5>1. Idle(ready, pending) \in SUBSET Workers
          BY DEF Idle
        <5> QED BY <2>1, <3>2, <5>1, IdleWorker DEF callWorker
      <4>2. ready' = ready /\ proc' = proc /\ w \in Workers
        BY <2>1, <4>1 DEF callWorker, Idle
      <4> QED BY <2>a, <4>1, <4>2
    <3> QED BY <3>1, <3>2
  <2>2. ASSUME NEW w \in Workers, becomeReady(w) PROVE QueuedOnlyWhenBusy'
    <3>1. drainQueue(ready', pending, queue)
      BY <2>2 DEF becomeReady
    <3>2. queue' # <<>> => \A v \in Workers : ready'[v] => pending'[v] # None
      BY <3>1, DrainFacts
    <3> QED BY <3>2 DEF Idle
  <2>3. ASSUME NEW w \in Workers, handleLine(w) PROVE QueuedOnlyWhenBusy'
    <3>1. CASE pending[w] = None
      BY <2>3, <2>a, <3>1 DEF handleLine
    <3>2. CASE pending[w] # None
      <4>1. PICK p : p = [pending EXCEPT ![w] = None]
        OBVIOUS
      <4>2. drainQueue(ready, p, queue) /\ ready' = ready
        BY <2>3, <3>2, <4>1 DEF handleLine
      <4>3. p \in [Workers -> Jobs \cup {None}]
        BY <4>1
      <4>4. queue' # <<>> => \A v \in Workers : ready[v] => pending'[v] # None
        BY <4>2, <4>3, DrainFacts
      <4> QED BY <4>2, <4>4 DEF Idle
    <3> QED BY <3>1, <3>2
  <2>4. ASSUME NEW j \in Jobs, callRefused(j) PROVE QueuedOnlyWhenBusy'
    BY <2>4, <2>a DEF callRefused
  <2>5. ASSUME NEW w \in Workers, answerLine(w) PROVE QueuedOnlyWhenBusy'
    BY <2>5, <2>a DEF answerLine
  <2>6. ASSUME NEW w \in Workers, crash(w) \/ timeout(w) PROVE QueuedOnlyWhenBusy'
    BY <2>6, <2>a DEF crash, timeout
  <2>7. ASSUME NEW w \in Workers, spawnWorker(w) \/ spawnFails(w) PROVE QueuedOnlyWhenBusy'
    BY <2>7, <2>a DEF spawnWorker, spawnFails, ReadyInv
  <2>8. ASSUME NEW w \in Workers, exited(w) PROVE QueuedOnlyWhenBusy'
    <3>1. /\ ready' = [ready EXCEPT ![w] = FALSE] /\ pending' = [pending EXCEPT ![w] = None]
          /\ queue' = <<>> \/ queue' = queue
          /\ \A v \in Workers \ {w} : proc'[v] = proc[v]
      BY <2>8 DEF exited
    <3> QED BY <2>a, <3>1
  <2>9. CASE stop
    BY <2>9, <2>a DEF stop
  <2>10. CASE UNCHANGED vars
    BY <2>10, <2>a DEF vars
  <2> QED
    BY <2>1, <2>2, <2>3, <2>4, <2>5, <2>6, <2>7, <2>8, <2>9, <2>10, Steps DEF Drains
<1> QED BY <1>1, <1>2, TypeCorrect, PTL DEF Spec

-----------------------------------------------------------------------------
\* A living process owes the answer its worker waits for, and no other.
THEOREM StepsCorrect == Spec => []StepInv
<1> USE SizeAssumption, JobsAssumption
<1>1. Init => StepInv
  BY DEF Init, StepInv, InStep
<1>2. TypeInv /\ StepInv /\ [Next]_vars => StepInv'
  <2> SUFFICES ASSUME TypeInv, StepInv, [Next]_vars PROVE StepInv'
    OBVIOUS
  <2> USE DEF TypeInv, TypeOK
  <2>a. ASSUME NEW w \in Workers, pending'[w] = pending[w], stdin'[w] = stdin[w],
               stdout'[w] = stdout[w], InStep(w)
        PROVE InStep(w)'
    BY <2>a DEF InStep
  <2>b. ASSUME NEW w \in Workers, stdin[w] = <<>>, stdout'[w] = <<>>, pending'[w] \in Jobs,
               stdin'[w] = Append(stdin[w], pending'[w])
        PROVE InStep(w)'
    <3>1. stdin'[w] = <<pending'[w]>>
      BY <2>b
    <3> QED BY <2>b, <3>1 DEF InStep
  <2>1. ASSUME NEW j \in Jobs, callWorker(j) PROVE StepInv'
    <3>1. CASE Idle(ready, pending) = {}
      <4>1. UNCHANGED <<pending, stdin, stdout, proc>>
        BY <2>1, <3>1 DEF callWorker
      <4> QED BY <4>1 DEF StepInv, InStep
    <3>2. CASE Idle(ready, pending) # {}
      <4>1. PICK w \in Idle(ready, pending) :
                 /\ pending' = [pending EXCEPT ![w] = j]
                 /\ stdin' = [stdin EXCEPT ![w] = Append(@, j)]
        <5>1. Idle(ready, pending) \in SUBSET Workers
          BY DEF Idle
        <5> QED BY <2>1, <3>2, <5>1, IdleWorker DEF callWorker
      <4>2. w \in Workers /\ pending[w] = None /\ UNCHANGED <<stdout, proc>>
        BY <2>1, <4>1 DEF callWorker, Idle
      <4>3. proc[w] # "dying" => InStep(w)'
        BY <2>b, <4>1, <4>2 DEF StepInv, InStep
      <4>4. \A v \in Workers \ {w} : proc[v] # "dying" => InStep(v)'
        BY <2>a, <4>1, <4>2 DEF StepInv
      <4> QED BY <4>2, <4>3, <4>4 DEF StepInv
    <3> QED BY <3>1, <3>2
  <2>2. ASSUME NEW w \in Workers, becomeReady(w) PROVE StepInv'
    <3>1. drainQueue(ready', pending, queue) /\ stdout' = stdout
          /\ \A v \in Workers : proc'[v] # "dying" => proc[v] # "dying"
      BY <2>2 DEF becomeReady
    <3>2. \A v \in Workers :
            \/ pending'[v] = pending[v] /\ stdin'[v] = stdin[v]
            \/ /\ pending[v] = None /\ pending'[v] \in Jobs
               /\ stdin'[v] = Append(stdin[v], pending'[v])
      BY <3>1, DrainFacts
    <3>3. ASSUME NEW v \in Workers, proc[v] # "dying" PROVE InStep(v)'
      <4>1. InStep(v)
        BY <3>3 DEF StepInv
      <4>2. CASE pending'[v] = pending[v] /\ stdin'[v] = stdin[v]
        BY <2>a, <3>1, <4>1, <4>2
      <4>3. CASE /\ pending[v] = None /\ pending'[v] \in Jobs
                 /\ stdin'[v] = Append(stdin[v], pending'[v])
        <5>1. stdin[v] = <<>> /\ stdout'[v] = <<>>
          BY <3>1, <4>1, <4>3 DEF InStep
        <5> QED BY <2>b, <4>3, <5>1
      <4> QED BY <3>2, <4>2, <4>3
    <3> QED BY <3>1, <3>3 DEF StepInv
  <2>3. ASSUME NEW w \in Workers, handleLine(w) PROVE StepInv'
    <3>0. stdout[w] # <<>> /\ stdout' = [stdout EXCEPT ![w] = Tail(@)] /\ proc' = proc
      BY <2>3 DEF handleLine
    <3>1. CASE pending[w] = None
      <4>1. UNCHANGED <<pending, stdin>>
        BY <2>3, <3>1 DEF handleLine
      <4>2. proc[w] = "dying"
        BY <3>0, <3>1 DEF StepInv, InStep
      <4>3. \A v \in Workers \ {w} : proc[v] # "dying" => InStep(v)'
        BY <2>a, <3>0, <4>1 DEF StepInv
      <4> QED BY <3>0, <4>2, <4>3 DEF StepInv
    <3>2. CASE pending[w] # None
      <4>1. PICK p : p = [pending EXCEPT ![w] = None]
        OBVIOUS
      <4>2. drainQueue(ready, p, queue)
        BY <2>3, <3>2, <4>1 DEF handleLine
      <4>3. p \in [Workers -> Jobs \cup {None}]
        BY <4>1
      <4>4. \A v \in Workers :
              \/ pending'[v] = p[v] /\ stdin'[v] = stdin[v]
              \/ /\ p[v] = None /\ pending'[v] \in Jobs
                 /\ stdin'[v] = Append(stdin[v], pending'[v])
        BY <4>2, <4>3, DrainFacts
      <4>5. ASSUME NEW v \in Workers, proc[v] # "dying" PROVE InStep(v)'
        <5>1. InStep(v)
          BY <4>5 DEF StepInv
        <5>2. CASE v = w
          <6>1. stdin[w] = <<>> /\ stdout[w] = <<pending[w]>> /\ p[w] = None
            BY <3>0, <3>2, <4>1, <5>1, <5>2 DEF InStep
          <6>2. stdout'[w] = <<>>
            BY <3>0, <6>1
          <6> QED BY <2>b, <4>4, <5>2, <6>1, <6>2 DEF InStep
        <5>3. CASE v # w
          <6>1. p[v] = pending[v] /\ stdout'[v] = stdout[v]
            BY <3>0, <4>1, <5>3
          <6>2. CASE pending'[v] = p[v] /\ stdin'[v] = stdin[v]
            BY <2>a, <5>1, <6>1, <6>2
          <6>3. CASE /\ p[v] = None /\ pending'[v] \in Jobs
                     /\ stdin'[v] = Append(stdin[v], pending'[v])
            <7>1. stdin[v] = <<>> /\ stdout'[v] = <<>>
              BY <5>1, <6>1, <6>3 DEF InStep
            <7> QED BY <2>b, <6>3, <7>1
          <6> QED BY <4>4, <6>2, <6>3
        <5> QED BY <5>2, <5>3
      <4> QED BY <3>0, <4>5 DEF StepInv
    <3> QED BY <3>1, <3>2
  <2>4. ASSUME NEW w \in Workers, answerLine(w) PROVE StepInv'
    <3>1. /\ stdin[w] # <<>> /\ UNCHANGED <<pending, proc>>
          /\ stdin' = [stdin EXCEPT ![w] = Tail(@)]
          /\ stdout' = [stdout EXCEPT ![w] = Append(@, Head(stdin[w]))]
      BY <2>4 DEF answerLine
    <3>2. ASSUME proc[w] # "dying" PROVE InStep(w)'
      <4>1. pending[w] \in Jobs /\ stdin[w] = <<pending[w]>> /\ stdout[w] = <<>>
        BY <3>1, <3>2 DEF StepInv, InStep
      <4>2. stdin'[w] = <<>> /\ stdout'[w] = <<pending[w]>>
        BY <3>1, <4>1
      <4> QED BY <3>1, <4>1, <4>2 DEF InStep
    <3>3. \A v \in Workers \ {w} : proc[v] # "dying" => InStep(v)'
      BY <2>a, <3>1 DEF StepInv
    <3> QED BY <3>1, <3>2, <3>3 DEF StepInv
  <2>5. ASSUME NEW w \in Workers, exited(w) PROVE StepInv'
    BY <2>5 DEF exited, StepInv, InStep
  <2>6. ASSUME NEW w \in Workers, timeout(w) PROVE StepInv'
    BY <2>6 DEF timeout, StepInv, InStep
  <2>7. ASSUME NEW w \in Workers, crash(w) \/ spawnWorker(w) \/ spawnFails(w) PROVE StepInv'
    BY <2>7 DEF crash, spawnWorker, spawnFails, StepInv, InStep
  <2>8. ASSUME NEW j \in Jobs, callRefused(j) PROVE StepInv'
    BY <2>8 DEF callRefused, StepInv, InStep
  <2>9. CASE stop \/ UNCHANGED vars
    BY <2>9 DEF stop, vars, StepInv, InStep
  <2> QED
    BY <2>1, <2>2, <2>3, <2>4, <2>5, <2>6, <2>7, <2>8, <2>9, Steps DEF Drains
<1> QED BY <1>1, <1>2, TypeCorrect, PTL DEF Spec

\* An answer that is given to the wrong call comes from a process that was killed or
\* has crashed.
THEOREM MixUpSafe == Spec => MixUpOnlyWhenDying
<1>1. TypeInv /\ StepInv /\ [Next]_vars =>
        [\A j \in Jobs : answer'[j] # answer[j] /\ answer'[j] # j =>
           \E w \in Workers : pending[w] = j /\ proc[w] = "dying"]_vars
  <2> SUFFICES ASSUME TypeInv, StepInv, Next, NEW j \in Jobs, answer'[j] # answer[j],
                      answer'[j] # j
               PROVE  \E w \in Workers : pending[w] = j /\ proc[w] = "dying"
    OBVIOUS
  <2>1. PICK w \in Workers : handleLine(w)
    BY DEF Next, callWorker, callRefused, answerLine, crash, becomeReady, timeout, exited,
         spawnWorker, spawnFails, stop
  <2>2. /\ pending[w] # None /\ stdout[w] # <<>>
        /\ answer' = [answer EXCEPT ![pending[w]] = Head(stdout[w])]
    BY <2>1 DEF handleLine
  <2>3. pending[w] = j /\ answer'[j] = Head(stdout[w])
    BY <2>2 DEF TypeInv, TypeOK
  <2>4. proc[w] # "dying" => stdout[w] = <<j>>
    BY <2>2, <2>3 DEF StepInv, InStep
  <2> QED BY <2>3, <2>4
<1> QED BY <1>1, TypeCorrect, StepsCorrect, PTL DEF Spec, MixUpOnlyWhenDying
-----------------------------------------------------------------------------
(* CallService.                                                            *)

\* A first part of the queue q joins the calls that p has at its workers.
ServesFirst(p, q) ==
    \E n \in 0 .. Len(q) :
        /\ queue' = SubSeq(q, n + 1, Len(q))
        /\ \A j \in Jobs : (\E w \in Workers : pending'[w] = j)
                            <=> \/ \E w \in Workers : p[w] = j
                                \/ \E i \in 1 .. n : q[i] = j

\* A drain takes a first part of the queue into service, whole and in order.
LEMMA DrainServes ==
    ASSUME NEW r, NEW p \in [Workers -> Jobs \cup {None}], NEW q \in Seq(Jobs),
           drainQueue(r, p, q)
    PROVE  ServesFirst(p, q)
<1> DEFINE I == Idle(r, p)
           C == Chosen(I, q)
           n == Cardinality(C)
<1>1. /\ C \subseteq I /\ n \in Nat /\ n <= Len(q)
      /\ \A w \in C : Rank(I, w) \in 1 .. n
      /\ \A k \in 1 .. n : \E w \in C : Rank(I, w) = k
  <2>1. I \in SUBSET Workers
    BY DEF Idle
  <2> HIDE DEF I
  <2> QED BY <2>1, ChosenFacts
<1>2. \A w \in I : w \in Workers /\ p[w] = None
  BY DEF Idle
<1>3. /\ pending' = [w \in Workers |-> IF w \in C THEN q[Rank(I, w)] ELSE p[w]]
      /\ queue' = SubSeq(q, n + 1, Len(q))
  BY DEF drainQueue
<1> HIDE DEF I, C, n
<1>4. ASSUME NEW j \in Jobs, NEW w \in Workers, pending'[w] = j
      PROVE  (\E v \in Workers : p[v] = j) \/ \E i \in 1 .. n : q[i] = j
  BY <1>1, <1>3, <1>4
<1>5. ASSUME NEW j \in Jobs, NEW w \in Workers, p[w] = j
      PROVE  \E v \in Workers : pending'[v] = j
  <2>1. w \notin C
    BY <1>1, <1>2, <1>5, JobsAssumption
  <2> QED BY <1>3, <1>5, <2>1
<1>6. ASSUME NEW j \in Jobs, NEW i \in 1 .. n, q[i] = j
      PROVE  \E v \in Workers : pending'[v] = j
  <2>1. PICK w \in C : Rank(I, w) = i
    BY <1>1
  <2>2. w \in Workers
    BY <1>1, <1>2
  <2> QED BY <1>3, <1>6, <2>1, <2>2
<1>7. n \in 0 .. Len(q)
  BY <1>1
<1>8. \A j \in Jobs : (\E w \in Workers : pending'[w] = j)
                       <=> (\E w \in Workers : p[w] = j) \/ \E i \in 1 .. n : q[i] = j
  BY <1>4, <1>5, <1>6
<1> QED BY <1>3, <1>7, <1>8 DEF ServesFirst

\* WorkerPool implements CallService: every event of a process, a timer or a caller
\* is one of its steps, or none.
THEOREM ImplementsService == Spec => FollowsService
<1> USE SizeAssumption, JobsAssumption
<1>1. Init => Service!Init
  <2> SUFFICES ASSUME Init PROVE Service!Init
    OBVIOUS
  <2>1. queue = <<>> /\ Serving = {} /\ Settled = {}
    BY DEF Init, Serving, Settled
  <2> QED BY <2>1 DEF Service!Init
<1>2. TypeInv /\ TypeInv' /\ PlaceInv /\ [Next]_vars => [Service!Next]_(Service!vars)
  <2> SUFFICES ASSUME TypeInv, TypeInv', PlaceInv, [Next]_vars
               PROVE  Service!Next \/ UNCHANGED <<queue, Serving, Settled>>
    BY DEF Service!vars
  <2> USE DEF TypeInv, TypeOK
  <2>a. Service!Seated(Serving')
    <3> DEFINE place == [j \in Serving' |-> CHOOSE w \in Workers : pending'[w] = j]
    <3>1. ASSUME NEW j \in Serving' PROVE place[j] \in Workers /\ pending'[place[j]] = j
      BY DEF Serving
    <3>2. place \in [Serving' -> 1 .. Size]
      BY <3>1 DEF Workers
    <3> QED BY <3>1, <3>2 DEF Service!Seated
  <2>e. SubSeq(queue, 1, Len(queue)) = queue /\ 0 \in 0 .. Len(queue)
        /\ Len(queue) \in 0 .. Len(queue)
    OBVIOUS
  <2>b. \A n \in 0 .. Len(queue) : Service!First(n) = {queue[i] : i \in 1 .. n}
    BY DEF Service!First
  <2>c. ASSUME NEW w \in Workers, pending[w] # None,
               NEW p \in [Workers -> Jobs \cup {None}], p = [pending EXCEPT ![w] = None]
        PROVE /\ pending[w] \in Serving
              /\ \A j \in Jobs : (\E v \in Workers : p[v] = j)
                                 <=> j \in Serving \ {pending[w]}
    <3>1. p[w] = None /\ \A v \in Workers \ {w} : p[v] = pending[v]
      BY <2>c
    <3>2. pending[w] \in Serving
      BY <2>c DEF Serving
    <3>3. ASSUME NEW j \in Jobs, NEW v \in Workers, p[v] = j
          PROVE  j \in Serving \ {pending[w]}
      <4>1. v # w /\ pending[v] = j
        BY <3>1, <3>3
      <4> QED BY <4>1 DEF PlaceInv, Apart, Serving
    <3>4. ASSUME NEW j \in Jobs, j \in Serving \ {pending[w]}
          PROVE  \E v \in Workers : p[v] = j
      BY <3>1, <3>4 DEF Serving
    <3> QED BY <3>2, <3>3, <3>4
  <2>f. ASSUME NEW j \in Jobs, j \notin {queue[i] : i \in 1 .. Len(queue)},
               j \notin Serving, j \notin Settled,
               \/ queue' = Append(queue, j) /\ Serving' = Serving /\ Settled' = Settled
               \/ Serving' = Serving \cup {j} /\ queue' = queue /\ Settled' = Settled
               \/ Settled' = Settled \cup {j} /\ queue' = queue /\ Serving' = Serving
        PROVE Service!Next
    <3>1. j \notin Service!First(Len(queue)) \cup Serving \cup Settled
      BY <2>b, <2>e, <2>f
    <3>2. Service!Ask(j)
      BY <2>f, <3>1 DEF Service!Ask
    <3> QED BY <2>a, <3>2 DEF Service!Next
  <2>1. ASSUME NEW j \in Jobs, callWorker(j) PROVE Service!Next
    <3>1. call[j] = "new" /\ call' = [call EXCEPT ![j] = "waiting"]
      BY <2>1 DEF callWorker
    <3>2. ~Placed(pending, queue, j) /\ Settled' = Settled /\ j \notin Settled
      BY <3>1 DEF PlaceInv, Settled
    <3>3. j \notin {queue[i] : i \in 1 .. Len(queue)} /\ j \notin Serving
      BY <3>2 DEF Placed, Serving
    <3>4. CASE Idle(ready, pending) = {}
      <4>1. queue' = Append(queue, j) /\ Serving' = Serving
        BY <2>1, <3>4 DEF callWorker, Serving
      <4> QED BY <2>f, <3>2, <3>3, <4>1
    <3>5. CASE Idle(ready, pending) # {}
      <4>1. PICK w \in Idle(ready, pending) :
                 pending' = [pending EXCEPT ![w] = j] /\ queue' = queue
        <5>1. Idle(ready, pending) \in SUBSET Workers
          BY DEF Idle
        <5> QED BY <2>1, <3>5, <5>1, IdleWorker DEF callWorker
      <4>2. w \in Workers /\ pending[w] = None
        BY <4>1 DEF Idle
      <4>3. \A k \in Jobs : (\E v \in Workers : pending'[v] = k)
                            <=> k = j \/ \E v \in Workers : pending[v] = k
        BY <4>1, <4>2
      <4>4. Serving' = Serving \cup {j}
        BY <4>3 DEF Serving
      <4> QED BY <2>f, <3>2, <3>3, <4>1, <4>4
    <3> QED BY <3>4, <3>5
  <2>2. ASSUME NEW j \in Jobs, callRefused(j) PROVE Service!Next
    <3>1. /\ call[j] = "new" /\ call' = [call EXCEPT ![j] = "rejected"]
          /\ UNCHANGED <<pending, queue>>
      BY <2>2 DEF callRefused
    <3>2. ~Placed(pending, queue, j) /\ Settled' = Settled \cup {j} /\ j \notin Settled
      BY <3>1 DEF PlaceInv, Settled
    <3>3. /\ j \notin {queue[i] : i \in 1 .. Len(queue)} /\ j \notin Serving
          /\ Serving' = Serving
      BY <3>1, <3>2 DEF Placed, Serving
    <3> QED BY <2>f, <3>1, <3>2, <3>3
  <2>3. ASSUME NEW S \in {{}} \cup {{c} : c \in Serving}, NEW n \in 0 .. Len(queue),
               queue' = SubSeq(queue, n + 1, Len(queue)), Settled' = Settled \cup S,
               Serving' = (Serving \ S) \cup {queue[i] : i \in 1 .. n}
        PROVE Service!Next
    <3>1. Service!Proceed(S, n)
      BY <2>3, <2>b DEF Service!Proceed
    <3> QED BY <2>a, <3>1 DEF Service!Next
  <2>d. ASSUME NEW p \in [Workers -> Jobs \cup {None}], NEW r, NEW S \in SUBSET Jobs,
               drainQueue(r, p, queue),
               \A j \in Jobs : (\E v \in Workers : p[v] = j) <=> j \in Serving \ S
        PROVE \E n \in 0 .. Len(queue) :
                 /\ queue' = SubSeq(queue, n + 1, Len(queue))
                 /\ Serving' = (Serving \ S) \cup {queue[i] : i \in 1 .. n}
    <3>1. PICK n \in 0 .. Len(queue) :
             /\ queue' = SubSeq(queue, n + 1, Len(queue))
             /\ \A j \in Jobs : (\E w \in Workers : pending'[w] = j)
                                 <=> \/ \E w \in Workers : p[w] = j
                                     \/ \E i \in 1 .. n : queue[i] = j
      <4>1. queue \in Seq(Jobs)
        OBVIOUS
      <4>2. drainQueue(r, p, queue)
        BY <2>d
      <4>3. ServesFirst(p, queue)
        BY ONLY <4>1, <4>2, DrainServes
      <4> QED BY ONLY <4>3 DEF ServesFirst
    <3>2. \A i \in 1 .. n : queue[i] \in Jobs
      BY <3>1
    <3>3. Serving \subseteq Jobs /\ Serving' \subseteq Jobs
      BY DEF Serving
    <3>4. \A j \in Jobs : j \in Serving' <=> \E w \in Workers : pending'[w] = j
      BY DEF Serving
    <3> DEFINE T == (Serving \ S) \cup {queue[i] : i \in 1 .. n}
    <3>5. T \subseteq Jobs
      BY <3>2, <3>3
    <3>6. \A j \in Jobs : j \in T <=> \E w \in Workers : pending'[w] = j
      <4> TAKE j \in Jobs
      <4>1. j \in T <=> j \in Serving \ S \/ \E i \in 1 .. n : queue[i] = j
        BY ONLY TRUE
      <4>2. j \in Serving \ S <=> \E v \in Workers : p[v] = j
        BY <2>d
      <4> QED BY ONLY <3>1, <4>1, <4>2
    <3>7. Serving' = T
      <4> HIDE DEF T
      <4> QED BY ONLY <3>3, <3>4, <3>5, <3>6
    <3> QED BY <3>1, <3>7
  <2>4. ASSUME NEW w \in Workers, becomeReady(w) PROVE Service!Next
    <3>1. drainQueue(ready', pending, queue) /\ call' = call
      BY <2>4 DEF becomeReady
    <3>2. \A j \in Jobs : (\E v \in Workers : pending[v] = j) <=> j \in Serving \ {}
      BY DEF Serving
    <3>3. PICK n \in 0 .. Len(queue) :
                 /\ queue' = SubSeq(queue, n + 1, Len(queue))
                 /\ Serving' = (Serving \ {}) \cup {queue[i] : i \in 1 .. n}
      BY <2>d, <3>1, <3>2
    <3>4. Settled' = Settled \cup {}
      BY <3>1 DEF Settled
    <3> QED BY <2>3, <3>3, <3>4
  <2>5. ASSUME NEW w \in Workers, handleLine(w)
        PROVE Service!Next \/ UNCHANGED <<queue, Serving, Settled>>
    <3>1. CASE pending[w] = None
      BY <2>5, <3>1 DEF handleLine, Serving, Settled
    <3>2. CASE pending[w] # None
      <4>1. PICK p \in [Workers -> Jobs \cup {None}] : p = [pending EXCEPT ![w] = None]
        <5>1. [pending EXCEPT ![w] = None] \in [Workers -> Jobs \cup {None}]
          OBVIOUS
        <5> QED BY <5>1
      <4>2. drainQueue(ready, p, queue) /\ call' = [call EXCEPT ![pending[w]] = "answered"]
        BY <2>5, <3>2, <4>1 DEF handleLine
      <4>3. p \in [Workers -> Jobs \cup {None}] /\ pending[w] \in Jobs
        BY <3>2, <4>1
      <4>4. PICK n \in 0 .. Len(queue) :
                 /\ queue' = SubSeq(queue, n + 1, Len(queue))
                 /\ Serving' = (Serving \ {pending[w]}) \cup {queue[i] : i \in 1 .. n}
        <5>1. \A j \in Jobs : (\E v \in Workers : p[v] = j)
                              <=> j \in Serving \ {pending[w]}
          BY ONLY <2>c, <3>2, <4>1
        <5>2. {pending[w]} \in SUBSET Jobs
          BY <4>3
        <5> QED BY ONLY <2>d, <4>2, <5>1, <5>2
      <4>5. Settled' = Settled \cup {pending[w]}
        BY <4>2, <4>3 DEF Settled
      <4>6. pending[w] \in Serving
        BY <3>2, <4>3 DEF Serving
      <4> QED BY <2>3, <4>4, <4>5, <4>6
    <3> QED BY <3>1, <3>2
  <2>6. ASSUME NEW w \in Workers, pending[w] # None,
               pending' = [pending EXCEPT ![w] = None]
        PROVE /\ {pending[w]} \in {{}} \cup {{c} : c \in Serving}
              /\ Serving' = Serving \ {pending[w]}
    <3>p. pending' \in [Workers -> Jobs \cup {None}]
      OBVIOUS
    <3>1. pending[w] \in Serving
          /\ \A j \in Jobs : (\E v \in Workers : pending'[v] = j)
                             <=> j \in Serving \ {pending[w]}
      <4>1. PICK p \in [Workers -> Jobs \cup {None}] : p = pending'
        BY ONLY <3>p
      <4>2. p = [pending EXCEPT ![w] = None]
        BY ONLY <2>6, <4>1
      <4>3. pending[w] \in Serving
            /\ \A j \in Jobs : (\E v \in Workers : p[v] = j)
                               <=> j \in Serving \ {pending[w]}
        BY ONLY <2>c, <2>6, <4>2
      <4> QED BY ONLY <4>1, <4>3
    <3> QED BY <3>1 DEF Serving
  <2>7. ASSUME NEW w \in Workers, timeout(w) PROVE Service!Next
    <3>1. /\ pending[w] # None /\ pending' = [pending EXCEPT ![w] = None] /\ queue' = queue
          /\ call' = [call EXCEPT ![pending[w]] = "rejected"] /\ pending[w] \in Jobs
      BY <2>7 DEF timeout
    <3>2. Settled' = Settled \cup {pending[w]}
      BY <3>1 DEF Settled
    <3>3. /\ {pending[w]} \in {{}} \cup {{c} : c \in Serving}
          /\ Serving' = Serving \ {pending[w]}
      BY <2>6, <3>1
    <3>4. queue' = SubSeq(queue, 0 + 1, Len(queue))
          /\ Serving' = (Serving \ {pending[w]}) \cup {queue[i] : i \in 1 .. 0}
      BY <2>e, <3>1, <3>3
    <3> QED BY <2>3, <2>e, <3>2, <3>3, <3>4
  <2>8. ASSUME NEW w \in Workers, exited(w) PROVE Service!Next
    <3> DEFINE givenUp == ~shuttingDown /\ restarts[w] >= MAX_RESTARTS
               S == {pending[w]} \ {None}
    <3>1. /\ pending' = [pending EXCEPT ![w] = None]
          /\ call' = [j \in Jobs |-> IF j \in Abandoned(w, givenUp) THEN "rejected" ELSE call[j]]
          /\ queue' = IF givenUp THEN <<>> ELSE queue
      BY <2>8 DEF exited
    <3>2. S \in {{}} \cup {{c} : c \in Serving} /\ Serving' = Serving \ S
      <4>1. CASE pending[w] = None
        <5>1. pending' = pending /\ S = {}
          BY <3>1, <4>1
        <5> QED BY <5>1 DEF Serving
      <4>2. CASE pending[w] # None
        <5>1. S = {pending[w]}
          BY <4>2
        <5> QED BY <2>6, <3>1, <4>2, <5>1
      <4> QED BY <4>1, <4>2
    <3>3. \A j \in Jobs : j \in S <=> j = pending[w]
      OBVIOUS
    <3>4. S \subseteq Jobs
      OBVIOUS
    <3>5. \A i \in 1 .. Len(queue) : queue[i] \in Jobs
      OBVIOUS
    <3>6. CASE ~givenUp
      <4>1. \A j \in Jobs : j \in Abandoned(w, givenUp) <=> j \in S
        BY <3>3, <3>6 DEF Abandoned
      <4> HIDE DEF givenUp, S
      <4>2. Settled' = Settled \cup S
        BY <3>1, <3>4, <4>1 DEF Settled
      <4>3. queue' = SubSeq(queue, 0 + 1, Len(queue))
            /\ Serving' = (Serving \ S) \cup {queue[i] : i \in 1 .. 0}
        BY <2>e, <3>1, <3>2, <3>6
      <4> QED BY <2>3, <2>e, <3>2, <4>2, <4>3
    <3>7. CASE givenUp
      <4>1. \A j \in Jobs : j \in Abandoned(w, givenUp)
                            <=> j \in S \/ \E i \in 1 .. Len(queue) : queue[i] = j
        BY <3>3, <3>7 DEF Abandoned, Range
      <4> HIDE DEF givenUp, S
      <4>2. Settled' = Settled \cup S \cup {queue[i] : i \in 1 .. Len(queue)}
        <5>1. \A j \in Jobs : call'[j] \in {"answered", "rejected"}
                 <=> \/ call[j] \in {"answered", "rejected"}
                     \/ j \in S \/ \E i \in 1 .. Len(queue) : queue[i] = j
          BY <3>1, <4>1
        <5>2. {queue[i] : i \in 1 .. Len(queue)} \subseteq Jobs
          BY <3>5
        <5>3. \A j : j \in {queue[i] : i \in 1 .. Len(queue)}
                     <=> \E i \in 1 .. Len(queue) : queue[i] = j
          BY ONLY TRUE
        <5> HIDE DEF TypeInv
        <5> QED BY <3>4, <5>1, <5>2, <5>3 DEF Settled
      <4>3. Len(queue) \in 0 .. Len(queue) /\ queue' = <<>>
        BY <3>1, <3>7
      <4>4. Settled' = Settled \cup S \cup Service!First(Len(queue))
        BY <2>b, <4>2, <4>3
      <4> QED BY <2>a, <3>2, <4>3, <4>4 DEF Service!Next, Service!Dismiss
    <3> QED BY <3>6, <3>7
  <2>9. ASSUME NEW w \in Workers, answerLine(w) \/ crash(w) \/ spawnWorker(w) \/ spawnFails(w)
        PROVE UNCHANGED <<queue, Serving, Settled>>
    BY <2>9 DEF answerLine, crash, spawnWorker, spawnFails, Serving, Settled
  <2>10. CASE stop \/ UNCHANGED vars
    BY <2>10 DEF stop, vars, Serving, Settled
  <2> QED
    BY <2>1, <2>2, <2>4, <2>5, <2>7, <2>8, <2>9, <2>10, Steps DEF Drains
<1> QED BY <1>1, <1>2, TypeCorrect, PlacesCorrect, PTL DEF Spec, FollowsService, Service!Spec
=============================================================================
