--------------------------- MODULE MultitaskProofs ---------------------------
(***************************************************************************)
(* Proofs about Multitask for every size of the process table: the queues  *)
(* partition the PROCs by status, the scheduler always finds a PROC, and   *)
(* P1 never dies.                                                          *)
(***************************************************************************)
EXTENDS MultitaskProperties, TLAPS, WellFoundedInduction

-----------------------------------------------------------------------------
(***************************************************************************)
(* Facts about the queues.                                                 *)
(***************************************************************************)

\* A nonempty set of naturals has a least element.
LEMMA LeastNat ==
  ASSUME NEW S \in SUBSET Nat, S # {}
  PROVE  \E k \in S : \A j \in S : k <= j
<1>1. PICK k \in S : \A j \in S : ~(<<j, k>> \in OpToRel(<, Nat))
  BY NatLessThanWellFounded, WFMin
<1>2. ASSUME NEW j \in S PROVE k <= j
  <2>1. j \in Nat /\ k \in Nat
    OBVIOUS
  <2>2. j < k => <<j, k>> \in OpToRel(<, Nat)
    BY <2>1 DEF OpToRel
  <2>3. ~(j < k)
    BY <1>1, <2>2
  <2> QED BY <2>1, <2>3
<1> QED BY <1>2

\* enqueue()'s walk stops somewhere: there is a place for p in every queue.
LEMMA InsertionPoint ==
  ASSUME NEW pri \in [Procs -> {0, 1}], NEW q \in Seq(Procs), NEW p \in Procs
  PROVE  \E k \in 0 .. Len(q) : InsertsAfter(pri, q, p, k)
<1> DEFINE Lower == {j \in 0 .. Len(q) : j < Len(q) /\ pri[p] > pri[q[j+1]]}
<1>1. CASE Lower = {}
  <2>1. \A i \in 1 .. Len(q) : pri[p] <= pri[q[i]]
    <3> SUFFICES ASSUME NEW i \in 1 .. Len(q) PROVE pri[p] <= pri[q[i]]
      OBVIOUS
    <3>1. i-1 \in 0 .. Len(q) /\ i-1 < Len(q) /\ (i-1)+1 = i
      OBVIOUS
    <3>2. ~(pri[p] > pri[q[i]])
      BY <1>1, <3>1
    <3>3. pri[p] \in {0, 1} /\ pri[q[i]] \in {0, 1}
      OBVIOUS
    <3> QED BY <3>2, <3>3
  <2>2. Len(q) \in 0 .. Len(q)
    OBVIOUS
  <2> QED BY <2>1, <2>2 DEF InsertsAfter
<1>2. CASE Lower # {}
  <2>1. PICK k \in Lower : \A j \in Lower : k <= j
    <3>1. Lower \in SUBSET Nat
      OBVIOUS
    <3> QED BY <1>2, <3>1, LeastNat
  <2>2. k \in 0 .. Len(q) /\ k < Len(q) /\ pri[p] > pri[q[k+1]]
    OBVIOUS
  <2>3. \A i \in 1 .. k : pri[p] <= pri[q[i]]
    <3> SUFFICES ASSUME NEW i \in 1 .. k PROVE pri[p] <= pri[q[i]]
      OBVIOUS
    <3>1. i-1 \in 0 .. Len(q) /\ i-1 < Len(q) /\ (i-1)+1 = i /\ ~(k <= i-1)
      BY <2>2
    <3>2. ~(pri[p] > pri[q[i]])
      BY <2>1, <3>1
    <3>3. pri[p] \in {0, 1} /\ pri[q[i]] \in {0, 1}
      BY <2>2
    <3> QED BY <3>2, <3>3
  <2> QED BY <2>2, <2>3 DEF InsertsAfter
<1> QED BY <1>1, <1>2

\* The queue enqueue() leaves, element by element.
LEMMA EnqueueElements ==
  ASSUME NEW pri \in [Procs -> {0, 1}], NEW q \in Seq(Procs), NEW p \in Procs
  PROVE  /\ Enqueue(pri, q, p) \in Seq(Procs)
         /\ Len(Enqueue(pri, q, p)) = Len(q) + 1
         /\ \E k \in 0 .. Len(q) :
              /\ InsertsAfter(pri, q, p, k)
              /\ \A i \in 1 .. Len(q)+1 :
                   Enqueue(pri, q, p)[i] =
                     IF i <= k THEN q[i] ELSE IF i = k+1 THEN p ELSE q[i-1]
<1> DEFINE k == CHOOSE k \in 0 .. Len(q) : InsertsAfter(pri, q, p, k)
           a == SubSeq(q, 1, k)
           b == SubSeq(q, k+1, Len(q))
<1>1. k \in 0 .. Len(q) /\ InsertsAfter(pri, q, p, k)
  BY InsertionPoint
<1>2. a \in Seq(Procs) /\ Len(a) = k /\ \A i \in 1 .. k : a[i] = q[i]
  BY <1>1
<1>3. /\ b \in Seq(Procs) /\ Len(b) = Len(q) - k
      /\ \A i \in 1 .. Len(q) - k : b[i] = q[k+i]
  BY <1>1
<1> HIDE DEF k, a, b
<1>4. /\ a \o <<p>> \o b \in Seq(Procs)
      /\ Len(a \o <<p>> \o b) = Len(q) + 1
  BY <1>1, <1>2, <1>3
<1>5. ASSUME NEW i \in 1 .. Len(q)+1
      PROVE  (a \o <<p>> \o b)[i] =
                IF i <= k THEN q[i] ELSE IF i = k+1 THEN p ELSE q[i-1]
  <2>1. CASE i <= k
    BY <1>1, <1>2, <1>3, <2>1
  <2>2. CASE i = k+1
    BY <1>1, <1>2, <1>3, <2>2
  <2>3. CASE i > k+1
    <3>1. (a \o <<p>> \o b)[i] = b[i-(k+1)]
      BY <1>1, <1>2, <1>3, <2>3
    <3>2. i-(k+1) \in 1 .. Len(q)-k /\ k + (i-(k+1)) = i-1
      BY <1>1, <2>3
    <3>3. b[i-(k+1)] = q[i-1]
      BY <1>3, <3>2
    <3>4. ~(i <= k) /\ ~(i = k+1)
      BY <1>1, <2>3
    <3> QED BY <3>1, <3>3, <3>4
  <2>4. i <= k \/ i = k+1 \/ i > k+1
    BY <1>1
  <2> QED BY <2>1, <2>2, <2>3, <2>4
<1>6. Enqueue(pri, q, p) = a \o <<p>> \o b
  BY DEF Enqueue, k, a, b
<1> QED BY <1>1, <1>4, <1>5, <1>6

\* enqueue() adds p to the queue and nothing else, and keeps a queue without
\* repetitions so when p was not in it.
LEMMA EnqueueRange ==
  ASSUME NEW pri \in [Procs -> {0, 1}], NEW q \in Seq(Procs), NEW p \in Procs
  PROVE  /\ Enqueue(pri, q, p) \in Seq(Procs)
         /\ Members(Enqueue(pri, q, p)) = Members(q) \union {p}
         /\ NoRepeats(q) /\ p \notin Members(q) => NoRepeats(Enqueue(pri, q, p))
<1> DEFINE e == Enqueue(pri, q, p)
<1>1. /\ e \in Seq(Procs) /\ Len(e) = Len(q) + 1
      /\ \E k \in 0 .. Len(q) :
           \A i \in 1 .. Len(q)+1 :
             e[i] = IF i <= k THEN q[i] ELSE IF i = k+1 THEN p ELSE q[i-1]
  BY EnqueueElements
<1> HIDE DEF e
<1>2. PICK k \in 0 .. Len(q) :
        \A i \in 1 .. Len(q)+1 :
          e[i] = IF i <= k THEN q[i] ELSE IF i = k+1 THEN p ELSE q[i-1]
  BY <1>1
<1>3. Members(e) \subseteq Members(q) \union {p}
  <2> SUFFICES ASSUME NEW i \in 1 .. Len(q)+1 PROVE e[i] \in Members(q) \union {p}
    BY <1>1 DEF Members
  <2>1. CASE i <= k
    BY <1>2, <2>1 DEF Members
  <2>2. CASE i = k+1
    BY <1>2, <2>2
  <2>3. CASE i > k+1
    <3>1. i-1 \in 1 .. Len(q) /\ e[i] = q[i-1]
      BY <1>2, <2>3
    <3> QED BY <3>1 DEF Members
  <2> QED BY <2>1, <2>2, <2>3
<1>4. Members(q) \subseteq Members(e)
  <2> SUFFICES ASSUME NEW i \in 1 .. Len(q) PROVE q[i] \in Members(e)
    BY DEF Members
  <2>1. CASE i <= k
    <3>1. i \in 1 .. Len(e) /\ e[i] = q[i]
      BY <1>1, <1>2, <2>1
    <3> QED BY <3>1 DEF Members
  <2>2. CASE i > k
    <3>1. i+1 \in 1 .. Len(e) /\ e[i+1] = q[i]
      BY <1>1, <1>2, <2>2
    <3> QED BY <3>1 DEF Members
  <2> QED BY <2>1, <2>2
<1>5. p \in Members(e)
  <2>1. k+1 \in 1 .. Len(e) /\ e[k+1] = p
    BY <1>1, <1>2
  <2> QED BY <2>1 DEF Members
<1>6. ASSUME NoRepeats(q), p \notin Members(q) PROVE NoRepeats(e)
  <2> SUFFICES ASSUME NEW i \in 1 .. Len(q)+1, NEW j \in 1 .. Len(q)+1, e[i] = e[j]
               PROVE  i = j
    BY <1>1 DEF NoRepeats
  <2>1. \A m \in 1 .. Len(q) : q[m] # p
    BY <1>6 DEF Members
  <2>2. \A m, n \in 1 .. Len(q) : q[m] = q[n] => m = n
    BY <1>6 DEF NoRepeats
  <2> QED BY <1>2, <2>1, <2>2
<1> QED BY <1>1, <1>3, <1>4, <1>5, <1>6 DEF e

\* dequeue() takes the head away and nothing else.
LEMMA DequeueRange ==
  ASSUME NEW q \in Seq(Procs), q # <<>>
  PROVE  /\ Head(q) \in Procs /\ Tail(q) \in Seq(Procs)
         /\ First(q) = Head(q) /\ Rest(q) = Tail(q)
         /\ Members(q) = {Head(q)} \union Members(Tail(q))
         /\ NoRepeats(q) => NoRepeats(Tail(q)) /\ Head(q) \notin Members(Tail(q))
<1>1. /\ Len(q) \in Nat /\ Len(q) >= 1 /\ Head(q) = q[1]
      /\ Tail(q) \in Seq(Procs) /\ Len(Tail(q)) = Len(q) - 1
      /\ \A i \in 1 .. Len(q)-1 : Tail(q)[i] = q[i+1]
  OBVIOUS
<1>2. Head(q) \in Procs
  OBVIOUS
<1>3. First(q) = Head(q) /\ Rest(q) = Tail(q)
  BY DEF First, Rest
<1>4. Members(q) \subseteq {Head(q)} \union Members(Tail(q))
  <2> SUFFICES ASSUME NEW i \in 1 .. Len(q)
               PROVE  q[i] \in {Head(q)} \union Members(Tail(q))
    BY DEF Members
  <2>1. CASE i = 1
    BY <1>1, <2>1
  <2>2. CASE i > 1
    <3>1. i-1 \in 1 .. Len(Tail(q)) /\ Tail(q)[i-1] = q[i]
      BY <1>1, <2>2
    <3> QED BY <3>1 DEF Members
  <2> QED BY <1>1, <2>1, <2>2
<1>5. {Head(q)} \union Members(Tail(q)) \subseteq Members(q)
  <2>1. Head(q) \in Members(q)
    BY <1>1 DEF Members
  <2>2. ASSUME NEW i \in 1 .. Len(Tail(q)) PROVE Tail(q)[i] \in Members(q)
    <3>1. i+1 \in 1 .. Len(q) /\ Tail(q)[i] = q[i+1]
      BY <1>1
    <3> QED BY <3>1 DEF Members
  <2> QED BY <2>1, <2>2 DEF Members
<1>6. ASSUME NoRepeats(q) PROVE NoRepeats(Tail(q)) /\ Head(q) \notin Members(Tail(q))
  BY <1>1, <1>6 DEF NoRepeats, Members
<1> QED BY <1>1, <1>2, <1>3, <1>4, <1>5, <1>6

-----------------------------------------------------------------------------
(***************************************************************************)
(* The inductive invariant.                                                *)
(***************************************************************************)

ReadyProcs(st) == {p \in Procs : st[p] = "READY"}
Statuses == {"FREE", "READY", "SLEEP", "ZOMBIE"}

\* tswitch(), called with rq the ready PROCs other than the caller: the next
\* one runs and the others, with the caller if it is ready, are the queue.
LEMMA TswitchRuns ==
  ASSUME TypeOK, running \in Procs,
         NEW st \in [Procs -> Statuses], NEW rq \in Seq(Procs),
         NoRepeats(rq), Members(rq) = ReadyProcs(st) \ {running},
         st[0] = "READY", Tswitch(st, rq)
  PROVE  /\ running' \in Procs /\ st[running'] = "READY"
         /\ readyQueue' \in Seq(Procs) /\ NoRepeats(readyQueue')
         /\ Members(readyQueue') = ReadyProcs(st) \ {running'}
<1> DEFINE q == Requeued(st, rq)
<1>1. q \in Seq(Procs) /\ NoRepeats(q) /\ Members(q) = ReadyProcs(st)
  <2>1. CASE st[running] = "READY"
    <3>1. q = Enqueue(priority, rq, running)
      BY <2>1 DEF Requeued
    <3>2. priority \in [Procs -> {0, 1}] /\ running \notin Members(rq)
      BY DEF TypeOK
    <3>3. running \in ReadyProcs(st)
      BY <2>1 DEF ReadyProcs
    <3>4. /\ q \in Seq(Procs) /\ NoRepeats(q)
          /\ Members(q) = Members(rq) \union {running}
      BY <3>1, <3>2, EnqueueRange
    <3> QED BY <3>3, <3>4
  <2>2. CASE st[running] # "READY"
    <3>1. q = rq /\ running \notin ReadyProcs(st)
      BY <2>2 DEF Requeued, ReadyProcs
    <3> QED BY <3>1
  <2> QED BY <2>1, <2>2
<1>2. q # <<>>
  <2>1. 0 \in Members(q)
    BY <1>1, NprocAssumption DEF ReadyProcs, Procs
  <2> QED BY <2>1 DEF Members
<1>3. running' = Head(q) /\ readyQueue' = Tail(q)
  BY <1>2 DEF Tswitch, First, Rest
<1> HIDE DEF q
<1>4. /\ Head(q) \in Procs /\ Tail(q) \in Seq(Procs)
      /\ Members(q) = {Head(q)} \union Members(Tail(q))
      /\ NoRepeats(Tail(q)) /\ Head(q) \notin Members(Tail(q))
  BY <1>1, <1>2, DequeueRange
<1>5. Head(q) \in ReadyProcs(st)
  BY <1>1, <1>4
<1> QED BY <1>1, <1>3, <1>4, <1>5 DEF ReadyProcs

\* init() establishes the invariant.
LEMMA InitInv == Init => IInv
<1> SUFFICES ASSUME Init PROVE IInv
  OBVIOUS
<1>1. /\ freeList \in Seq(Procs) /\ Len(freeList) = NPROC-1
      /\ \A i \in 1 .. NPROC-1 : freeList[i] = i
  BY NprocAssumption DEF Init, Procs
<1>2. Members(freeList) = 1 .. NPROC-1 /\ NoRepeats(freeList)
  BY <1>1, NprocAssumption DEF Members, NoRepeats
<1>3. freeList # <<>> /\ Head(freeList) = 1
  <2>1. Len(freeList) >= 1 /\ freeList[1] = 1
    BY <1>1, NprocAssumption
  <2> QED BY <1>1, <2>1
<1>4. /\ readyQueue \in Seq(Procs) /\ sleepList \in Seq(Procs) /\ temp \in Seq(Procs)
      /\ Members(readyQueue) = {} /\ Members(sleepList) = {} /\ Members(temp) = {}
      /\ NoRepeats(readyQueue) /\ NoRepeats(sleepList) /\ NoRepeats(temp)
  BY DEF Init, Members, NoRepeats
<1>5. TypeOK
  BY <1>1, <1>4, NprocAssumption DEF Init, Procs, NULL, TypeOK, Events
<1>6. QueueInv
  <2>1. {p \in Procs : status[p] = "FREE"} = 1 .. NPROC-1
    BY NprocAssumption DEF Init, Procs
  <2>2. {p \in Procs : status[p] = "READY"} \ {running} = {}
    BY DEF Init
  <2>3. {p \in Procs : status[p] = "SLEEP"} = {}
    BY DEF Init
  <2> QED BY <1>2, <1>4, <2>1, <2>2, <2>3 DEF QueueInv
<1>7. SchedulerFindsProc /\ P1NeverDies
  BY NprocAssumption DEF Init, Procs, SchedulerFindsProc, P1NeverDies
<1>8. ControlInv
  BY <1>3, NprocAssumption DEF Init, Procs, ControlInv
<1> QED BY <1>5, <1>6, <1>7, <1>8 DEF IInv

\* A PROC in body() is ready, is not P0, and P0 has left init().
LEMMA BodyFacts ==
  ASSUME IInv, mode = "body", running \in Procs, resume[running] \in {"body", "kwait"}
  PROVE  running # 0 /\ status[running] = "READY" /\ resume[0] # "init"
BY DEF IInv, ControlInv, SchedulerFindsProc

\* A step that only enters or leaves a loop, or hangs, keeps the invariant.
LEMMA ModeStep ==
  ASSUME IInv, TypeOK', running # 0, status[running] = "READY",
         UNCHANGED <<status, resume, queueVars, temp, running>>,
         mode' = "jesus" => jidx' >= 1
  PROVE  IInv'
<1>1. QueueInv'
  BY DEF IInv, QueueInv, queueVars
<1>2. SchedulerFindsProc' /\ P1NeverDies'
  BY DEF IInv, SchedulerFindsProc, P1NeverDies
<1>3. ControlInv'
  BY DEF IInv, ControlInv
<1> QED BY <1>1, <1>2, <1>3 DEF IInv

\* kfork() takes a FREE PROC, which is neither P0 nor the running one, from
\* the free list to the ready queue.
LEMMA KforkMoves ==
  ASSUME IInv, mode = "body", NEW p \in Procs, Kfork(p)
  PROVE  /\ status[p] = "FREE" /\ p # 0 /\ p # running
         /\ status' = [status EXCEPT ![p] = "READY"]
         /\ priority' \in [Procs -> {0, 1}]
         /\ parent' \in [Procs -> Procs \union {NULL}]
         /\ child' \in [Procs -> Procs \union {NULL}]
         /\ sibling' \in [Procs -> Procs \union {NULL}]
         /\ freeList' \in Seq(Procs) /\ readyQueue' \in Seq(Procs)
         /\ QueueInv' /\ SchedulerFindsProc'
<1>1. /\ TypeOK /\ QueueInv /\ SchedulerFindsProc
      /\ running \in Procs
  BY DEF IInv, SchedulerFindsProc
<1>2. /\ freeList \in Seq(Procs) /\ freeList # <<>> /\ p = Head(freeList)
      /\ freeList' = Tail(freeList)
  BY <1>1 DEF Kfork, TypeOK
<1>3. /\ Tail(freeList) \in Seq(Procs)
      /\ Members(freeList) = {p} \union Members(Tail(freeList))
      /\ NoRepeats(Tail(freeList)) /\ p \notin Members(Tail(freeList))
  BY <1>1, <1>2, DequeueRange DEF QueueInv
<1>4. status[p] = "FREE" /\ p # 0 /\ p # running
  <2>1. p \in Members(freeList)
    BY <1>3
  <2> QED BY <1>1, <2>1 DEF QueueInv, SchedulerFindsProc
<1>5. /\ priority' \in [Procs -> {0, 1}]
      /\ parent' \in [Procs -> Procs \union {NULL}]
      /\ status' = [status EXCEPT ![p] = "READY"]
      /\ UNCHANGED <<sleepList, running, mode, temp>>
  BY <1>1 DEF Kfork, NewPriority, TypeOK, loopVars
<1>6. child' \in [Procs -> Procs \union {NULL}] /\ sibling' \in [Procs -> Procs \union {NULL}]
  BY <1>1 DEF Kfork, LinkChild, TypeOK
<1>7. /\ readyQueue' \in Seq(Procs)
      /\ Members(readyQueue') = Members(readyQueue) \union {p}
      /\ NoRepeats(readyQueue')
  <2>1. /\ readyQueue' = Enqueue(priority', readyQueue, p)
        /\ readyQueue \in Seq(Procs)
    BY <1>1 DEF Kfork, TypeOK
  <2>2. NoRepeats(readyQueue) /\ p \notin Members(readyQueue)
    BY <1>1, <1>4 DEF QueueInv
  <2>3. priority' \in [Procs -> {0, 1}]
    BY <1>5
  <2> QED BY <2>1, <2>2, <2>3, EnqueueRange
<1>8. QueueInv'
  <2>1. status \in [Procs -> Statuses]
    BY <1>1 DEF TypeOK, Statuses
  <2>2. Members(freeList') = {x \in Procs : status'[x] = "FREE"}
    BY <1>1, <1>2, <1>3, <1>4, <1>5, <2>1 DEF QueueInv
  <2>3. Members(readyQueue') = {x \in Procs : status'[x] = "READY"} \ {running'}
    BY <1>1, <1>4, <1>5, <1>7, <2>1 DEF QueueInv
  <2>4. {x \in Procs : status'[x] = "SLEEP"} = {x \in Procs : status[x] = "SLEEP"}
    BY <1>4, <1>5, <2>1
  <2> QED BY <1>1, <1>2, <1>3, <1>5, <1>7, <2>2, <2>3, <2>4 DEF QueueInv
<1>9. SchedulerFindsProc'
  BY <1>1, <1>4, <1>5 DEF SchedulerFindsProc, TypeOK
<1> QED BY <1>2, <1>3, <1>4, <1>5, <1>6, <1>7, <1>8, <1>9

\* do_kfork() run by a task keeps the invariant.
LEMMA DoKforkInv == ASSUME IInv, DoKfork PROVE IInv'
<1>1. mode = "body" /\ running # 0 /\ resume[0] # "init"
  BY BodyFacts DEF DoKfork, Typed, AtPrompt, InBody
<1>2. PICK p \in Procs : Kfork(p) /\ resume' = [resume EXCEPT ![p] = "body"]
  BY DEF DoKfork
<1>3. /\ status[p] = "FREE" /\ p # 0 /\ p # running
      /\ status' = [status EXCEPT ![p] = "READY"]
      /\ priority' \in [Procs -> {0, 1}]
      /\ parent' \in [Procs -> Procs \union {NULL}]
      /\ child' \in [Procs -> Procs \union {NULL}]
      /\ sibling' \in [Procs -> Procs \union {NULL}]
      /\ freeList' \in Seq(Procs) /\ readyQueue' \in Seq(Procs)
      /\ QueueInv' /\ SchedulerFindsProc'
  BY <1>1, <1>2, KforkMoves
<1>4. UNCHANGED <<event, sleepList, running, mode, temp, wevent, jidx>>
  BY <1>2 DEF Kfork, loopVars
<1>5. TypeOK'
  BY <1>2, <1>3, <1>4 DEF IInv, TypeOK
<1>6. P1NeverDies'
  BY <1>1, <1>3, NprocAssumption DEF IInv, TypeOK, P1NeverDies, Procs
<1>7. ControlInv'
  BY <1>1, <1>2, <1>3, <1>4 DEF IInv, TypeOK, ControlInv
<1> QED BY <1>3, <1>5, <1>6, <1>7 DEF IInv

\* main()'s kfork() of P1, run by P0, keeps the invariant.
LEMMA MainKforkInv == ASSUME IInv, MainKfork PROVE IInv'
<1>1. mode = "body" /\ running = 0 /\ resume[0] = "init" /\ Head(freeList) = 1
  BY DEF MainKfork, IInv, ControlInv
<1>2. PICK p \in Procs : Kfork(p)
  BY DEF MainKfork
<1>3. /\ status[p] = "FREE" /\ p # 0 /\ p # running
      /\ status' = [status EXCEPT ![p] = "READY"]
      /\ priority' \in [Procs -> {0, 1}]
      /\ parent' \in [Procs -> Procs \union {NULL}]
      /\ child' \in [Procs -> Procs \union {NULL}]
      /\ sibling' \in [Procs -> Procs \union {NULL}]
      /\ freeList' \in Seq(Procs) /\ readyQueue' \in Seq(Procs)
      /\ QueueInv' /\ SchedulerFindsProc'
  BY <1>1, <1>2, KforkMoves
<1>4. /\ UNCHANGED <<event, sleepList, running, mode, temp, wevent, jidx>>
      /\ p = 1 /\ resume' = [resume EXCEPT ![0] = "main"]
  BY <1>1, <1>2 DEF Kfork, MainKfork, loopVars
<1>5. TypeOK'
  BY <1>3, <1>4 DEF IInv, TypeOK
<1>6. P1NeverDies'
  BY <1>3, <1>4 DEF IInv, TypeOK, P1NeverDies
<1>7. ControlInv'
  BY <1>1, <1>3, <1>4, NprocAssumption DEF IInv, TypeOK, ControlInv, Procs
<1> QED BY <1>3, <1>5, <1>6, <1>7 DEF IInv

\* Switching away from a PROC that stays ready.
LEMMA SwitchInv ==
  ASSUME IInv, mode = "body", resume[0] # "init", Tswitch(status, readyQueue),
         UNCHANGED <<procVars, treeVars, resume, freeList, sleepList, mode, loopVars>>
  PROVE  IInv'
<1>1. /\ TypeOK /\ running \in Procs /\ status \in [Procs -> Statuses]
      /\ readyQueue \in Seq(Procs) /\ NoRepeats(readyQueue)
      /\ Members(readyQueue) = ReadyProcs(status) \ {running}
      /\ status[0] = "READY"
  BY DEF IInv, TypeOK, QueueInv, SchedulerFindsProc, Statuses, ReadyProcs
<1>2. /\ running' \in Procs /\ status[running'] = "READY"
      /\ readyQueue' \in Seq(Procs) /\ NoRepeats(readyQueue')
      /\ Members(readyQueue') = ReadyProcs(status) \ {running'}
  BY <1>1, TswitchRuns
<1> USE DEF procVars, treeVars, loopVars
<1>3. TypeOK'
  BY <1>2 DEF IInv, TypeOK
<1>4. QueueInv'
  BY <1>2 DEF IInv, QueueInv, ReadyProcs
<1>5. SchedulerFindsProc' /\ P1NeverDies' /\ ControlInv'
  BY <1>2 DEF IInv, SchedulerFindsProc, P1NeverDies, ControlInv
<1> QED BY <1>3, <1>4, <1>5 DEF IInv

\* sleep() moves the running PROC, which is not P0, to the sleep list.
LEMMA SleepInv ==
  ASSUME IInv, InBody, NEW e \in Events, NEW back \in {"body", "kwait"}, Sleep(e, back)
  PROVE  IInv'
<1>1. /\ TypeOK /\ QueueInv /\ SchedulerFindsProc /\ P1NeverDies /\ ControlInv
      /\ mode = "body" /\ running \in Procs /\ running # 0
      /\ status[running] = "READY" /\ resume[0] # "init"
  BY BodyFacts DEF IInv, InBody
<1>2. /\ status' = [status EXCEPT ![running] = "SLEEP"]
      /\ event' \in [Procs -> Events]
      /\ resume' = [resume EXCEPT ![running] = back]
      /\ UNCHANGED <<priority, parent, child, sibling, freeList, mode, temp, wevent, jidx>>
      /\ Tswitch(status', readyQueue)
  BY <1>1 DEF Sleep, TypeOK, treeVars, loopVars
<1>3. /\ status \in [Procs -> Statuses] /\ status' \in [Procs -> Statuses]
      /\ status'[0] = "READY"
  BY <1>1, <1>2 DEF TypeOK, Statuses, SchedulerFindsProc
<1>4. /\ sleepList' \in Seq(Procs) /\ NoRepeats(sleepList')
      /\ Members(sleepList') = Members(sleepList) \union {running}
  <2>1. /\ sleepList' = Enqueue(priority, sleepList, running)
        /\ sleepList \in Seq(Procs) /\ priority \in [Procs -> {0, 1}]
    BY <1>1 DEF Sleep, TypeOK
  <2>2. NoRepeats(sleepList) /\ running \notin Members(sleepList)
    BY <1>1 DEF QueueInv
  <2> QED BY <1>1, <2>1, <2>2, EnqueueRange
<1>5. /\ running' \in Procs /\ status'[running'] = "READY"
      /\ readyQueue' \in Seq(Procs) /\ NoRepeats(readyQueue')
      /\ Members(readyQueue') = ReadyProcs(status') \ {running'}
  <2>1. /\ readyQueue \in Seq(Procs) /\ NoRepeats(readyQueue)
        /\ Members(readyQueue) = ReadyProcs(status) \ {running}
    BY <1>1 DEF TypeOK, QueueInv, ReadyProcs
  <2>2. ReadyProcs(status') = ReadyProcs(status) \ {running}
    BY <1>2, <1>3 DEF ReadyProcs
  <2>3. Members(readyQueue) = ReadyProcs(status') \ {running}
    BY <2>1, <2>2
  <2> QED BY <1>1, <1>2, <1>3, <2>1, <2>3, TswitchRuns
<1>6. TypeOK'
  BY <1>1, <1>2, <1>3, <1>4, <1>5 DEF TypeOK, Statuses
<1>7. QueueInv'
  <2>1. {x \in Procs : status'[x] = "SLEEP"} = {x \in Procs : status[x] = "SLEEP"} \union {running}
    BY <1>1, <1>2, <1>3
  <2>2. {x \in Procs : status'[x] = "FREE"} = {x \in Procs : status[x] = "FREE"}
    BY <1>1, <1>2, <1>3
  <2>3. running \notin Members(temp)
    BY <1>1 DEF QueueInv
  <2>4. Members(readyQueue') = {x \in Procs : status'[x] = "READY"} \ {running'}
    BY <1>5 DEF ReadyProcs
  <2> QED BY <1>1, <1>2, <1>4, <1>5, <2>1, <2>2, <2>3, <2>4 DEF QueueInv
<1>8. SchedulerFindsProc'
  BY <1>3, <1>5 DEF SchedulerFindsProc
<1>9. P1NeverDies'
  BY <1>1, <1>2, <1>3, NprocAssumption DEF P1NeverDies, TypeOK, Procs
<1>10. ControlInv'
  BY <1>1, <1>2, NprocAssumption DEF ControlInv, TypeOK, Procs
<1> QED BY <1>6, <1>7, <1>8, <1>9, <1>10 DEF IInv

\* One turn of wakeup() moves a sleeping PROC to the ready queue or puts it
\* aside; the running PROC is not asleep.
LEMMA WakeupStepInv == ASSUME IInv, WakeupStep PROVE IInv'
<1> DEFINE p == Head(sleepList)
<1>1. /\ TypeOK /\ QueueInv /\ SchedulerFindsProc /\ P1NeverDies /\ ControlInv
      /\ running \in Procs /\ running # 0 /\ resume[0] # "init"
      /\ mode \in {"do_wakeup", "kexit"}
      /\ priority \in [Procs -> {0, 1}] /\ status \in [Procs -> Statuses]
  BY DEF IInv, WakeupStep, InWakeup, ControlInv, SchedulerFindsProc, TypeOK, Statuses
<1>2. /\ sleepList' = Tail(sleepList)
      /\ UNCHANGED <<priority, event, parent, child, sibling, resume, freeList,
                     running, mode, wevent, jidx>>
  BY DEF WakeupStep, PutAside, treeVars
<1>3. /\ p \in Procs /\ Tail(sleepList) \in Seq(Procs)
      /\ Members(sleepList) = {p} \union Members(Tail(sleepList))
      /\ NoRepeats(Tail(sleepList)) /\ p \notin Members(Tail(sleepList))
  BY <1>1, DequeueRange DEF WakeupStep, TypeOK, QueueInv
<1>4. status[p] = "SLEEP" /\ p # running /\ p # 0 /\ p \notin Members(temp)
  <2>1. p \in Members(sleepList)
    BY <1>3
  <2> QED BY <1>1, <2>1 DEF QueueInv, SchedulerFindsProc
<1>5. CASE event[p] = wevent
  <2>1. /\ status' = [status EXCEPT ![p] = "READY"] /\ UNCHANGED temp
        /\ readyQueue' = Enqueue(priority, readyQueue, p)
    BY <1>5 DEF WakeupStep, Wakes
  <2> HIDE DEF p
  <2>2. /\ readyQueue' \in Seq(Procs) /\ NoRepeats(readyQueue')
        /\ Members(readyQueue') = Members(readyQueue) \union {p}
    <3>1. readyQueue \in Seq(Procs) /\ NoRepeats(readyQueue) /\ p \notin Members(readyQueue)
      BY <1>1, <1>4 DEF TypeOK, QueueInv
    <3>2. priority \in [Procs -> {0, 1}] /\ p \in Procs
      BY <1>1, <1>3
    <3> QED BY <2>1, <3>1, <3>2, EnqueueRange
  <2>3. TypeOK'
    BY <1>1, <1>2, <1>3, <2>1, <2>2 DEF TypeOK
  <2>4. QueueInv'
    <3>1. {x \in Procs : status'[x] = "SLEEP"} = {x \in Procs : status[x] = "SLEEP"} \ {p}
      BY <1>1, <1>3, <2>1
    <3>2. {x \in Procs : status'[x] = "FREE"} = {x \in Procs : status[x] = "FREE"}
      BY <1>1, <1>4, <2>1
    <3>3. {x \in Procs : status'[x] = "READY"} = {x \in Procs : status[x] = "READY"} \union {p}
      BY <1>1, <1>3, <2>1
    <3> QED BY <1>1, <1>2, <1>3, <1>4, <2>1, <2>2, <3>1, <3>2, <3>3 DEF QueueInv
  <2>5. SchedulerFindsProc' /\ P1NeverDies'
    BY <1>1, <1>2, <1>3, <1>4, <2>1, NprocAssumption
       DEF SchedulerFindsProc, P1NeverDies, TypeOK, Procs
  <2>6. ControlInv'
    BY <1>1, <1>2 DEF ControlInv
  <2> QED BY <2>3, <2>4, <2>5, <2>6 DEF IInv
<1>6. CASE event[p] # wevent
  <2>1. UNCHANGED <<status, readyQueue>> /\ temp' = Enqueue(priority, temp, p)
    BY <1>6 DEF WakeupStep, Wakes, PutAside
  <2> HIDE DEF p
  <2>2. /\ temp' \in Seq(Procs) /\ NoRepeats(temp')
        /\ Members(temp') = Members(temp) \union {p}
    <3>1. temp \in Seq(Procs) /\ NoRepeats(temp) /\ p \notin Members(temp)
      BY <1>1, <1>4 DEF TypeOK, QueueInv
    <3>2. priority \in [Procs -> {0, 1}] /\ p \in Procs
      BY <1>1, <1>3
    <3> QED BY <2>1, <3>1, <3>2, EnqueueRange
  <2>3. TypeOK'
    BY <1>1, <1>2, <1>3, <2>1, <2>2 DEF TypeOK
  <2>4. QueueInv'
    BY <1>1, <1>2, <1>3, <1>4, <2>1, <2>2 DEF QueueInv
  <2>5. SchedulerFindsProc' /\ P1NeverDies' /\ ControlInv'
    BY <1>1, <1>2, <2>1 DEF SchedulerFindsProc, P1NeverDies, ControlInv
  <2> QED BY <2>3, <2>4, <2>5 DEF IInv
<1> QED BY <1>5, <1>6

\* wakeup() returns: the PROCs put aside are the sleep list, and kexit()
\* switches to a ready PROC.
LEMMA WakeupReturnsInv == ASSUME IInv, WakeupReturns PROVE IInv'
<1>1. /\ TypeOK /\ QueueInv /\ SchedulerFindsProc /\ P1NeverDies /\ ControlInv
      /\ running \in Procs /\ running # 0 /\ resume[0] # "init"
      /\ mode \in {"do_wakeup", "kexit"}
      /\ sleepList = <<>> /\ Members(sleepList) = {}
  BY DEF IInv, WakeupReturns, InWakeup, ControlInv, SchedulerFindsProc, Members
<1>2. /\ sleepList' = temp /\ temp' = <<>> /\ wevent' = 0 /\ mode' = "body"
      /\ UNCHANGED <<status, priority, event, parent, child, sibling, resume, freeList, jidx>>
  BY DEF WakeupReturns, procVars, treeVars
<1>3. /\ running' \in Procs /\ status[running'] = "READY"
      /\ readyQueue' \in Seq(Procs) /\ NoRepeats(readyQueue')
      /\ Members(readyQueue') = ReadyProcs(status) \ {running'}
  <2>1. /\ status \in [Procs -> Statuses] /\ readyQueue \in Seq(Procs)
        /\ NoRepeats(readyQueue)
        /\ Members(readyQueue) = ReadyProcs(status) \ {running}
        /\ status[0] = "READY"
    BY <1>1 DEF TypeOK, QueueInv, SchedulerFindsProc, Statuses, ReadyProcs
  <2>2. CASE mode = "kexit"
    <3>1. Tswitch(status, readyQueue)
      BY <2>2 DEF WakeupReturns
    <3> QED BY <1>1, <2>1, <3>1, TswitchRuns
  <2>3. CASE mode # "kexit"
    <3>1. UNCHANGED <<running, readyQueue>>
      BY <2>3 DEF WakeupReturns
    <3> QED BY <1>1, <2>1, <2>3, <3>1 DEF SchedulerFindsProc
  <2> QED BY <2>2, <2>3
<1>4. Members(temp') = {} /\ NoRepeats(temp') /\ temp' \in Seq(Procs)
  BY <1>2 DEF Members, NoRepeats
<1>5. TypeOK'
  BY <1>1, <1>2, <1>3, <1>4 DEF TypeOK, Events
<1>6. QueueInv'
  BY <1>1, <1>2, <1>3, <1>4 DEF QueueInv, ReadyProcs
<1>7. SchedulerFindsProc' /\ P1NeverDies' /\ ControlInv'
  BY <1>1, <1>2, <1>3 DEF SchedulerFindsProc, P1NeverDies, ControlInv
<1> QED BY <1>5, <1>6, <1>7 DEF IInv

\* One turn of do_jesus(): a ZOMBIE is in no queue, and the PROC that runs
\* do_jesus() is none.
LEMMA JesusStepInv == ASSUME IInv, JesusStep PROVE IInv'
<1>1. /\ TypeOK /\ QueueInv /\ SchedulerFindsProc /\ P1NeverDies /\ ControlInv
      /\ running \in Procs /\ running # 0 /\ resume[0] # "init"
      /\ mode = "jesus" /\ jidx \in Procs /\ status[running] = "READY"
      /\ priority \in [Procs -> {0, 1}] /\ status \in [Procs -> Statuses]
  <2>1. /\ TypeOK /\ QueueInv /\ SchedulerFindsProc /\ P1NeverDies /\ ControlInv
        /\ mode = "jesus" /\ ~(jidx >= NPROC)
    BY DEF IInv, JesusStep, JesusDone
  <2>2. running # 0 /\ resume[0] # "init" /\ running \in Procs /\ status[running] = "READY"
    BY <2>1 DEF ControlInv, SchedulerFindsProc
  <2>3. jidx \in Procs
    BY <2>1, NprocAssumption DEF TypeOK, Procs
  <2>4. priority \in [Procs -> {0, 1}] /\ status \in [Procs -> Statuses]
    BY <2>1 DEF TypeOK, Statuses
  <2> QED BY <2>1, <2>2, <2>3, <2>4
<1>2. /\ jidx' = jidx + 1 /\ jidx' \in 0 .. NPROC /\ jidx' >= 1
      /\ UNCHANGED <<priority, event, parent, child, sibling, resume, freeList,
                     sleepList, running, mode, temp, wevent>>
  BY <1>1, NprocAssumption DEF JesusStep, treeVars, Procs
<1>3. CASE status[jidx] = "ZOMBIE"
  <2>1. /\ status' = [status EXCEPT ![jidx] = "READY"]
        /\ readyQueue' = Enqueue(priority, readyQueue, jidx)
        /\ jidx # running /\ jidx # 0
    BY <1>1, <1>3 DEF JesusStep, SchedulerFindsProc
  <2>2. /\ readyQueue' \in Seq(Procs) /\ NoRepeats(readyQueue')
        /\ Members(readyQueue') = Members(readyQueue) \union {jidx}
    <3>1. readyQueue \in Seq(Procs) /\ NoRepeats(readyQueue) /\ jidx \notin Members(readyQueue)
      BY <1>1, <1>3 DEF TypeOK, QueueInv
    <3>2. priority \in [Procs -> {0, 1}] /\ jidx \in Procs
      BY <1>1
    <3> QED BY <2>1, <3>1, <3>2, EnqueueRange
  <2>3. TypeOK'
    BY <1>1, <1>2, <2>1, <2>2 DEF TypeOK
  <2>4. QueueInv'
    <3>1. {x \in Procs : status'[x] = "SLEEP"} = {x \in Procs : status[x] = "SLEEP"}
      BY <1>1, <1>3, <2>1
    <3>2. {x \in Procs : status'[x] = "FREE"} = {x \in Procs : status[x] = "FREE"}
      BY <1>1, <1>3, <2>1
    <3>3. {x \in Procs : status'[x] = "READY"} = {x \in Procs : status[x] = "READY"} \union {jidx}
      BY <1>1, <2>1
    <3> QED BY <1>1, <1>2, <2>1, <2>2, <3>1, <3>2, <3>3 DEF QueueInv
  <2>5. SchedulerFindsProc' /\ P1NeverDies'
    BY <1>1, <1>2, <2>1, NprocAssumption DEF SchedulerFindsProc, P1NeverDies, TypeOK, Procs
  <2>6. ControlInv'
    BY <1>1, <1>2 DEF ControlInv
  <2> QED BY <2>3, <2>4, <2>5, <2>6 DEF IInv
<1>4. CASE status[jidx] # "ZOMBIE"
  <2>1. UNCHANGED <<status, readyQueue>>
    BY <1>4 DEF JesusStep
  <2>2. TypeOK'
    BY <1>1, <1>2, <2>1 DEF TypeOK
  <2> QED BY <1>1, <1>2, <2>1, <2>2, ModeStep DEF queueVars
<1> QED BY <1>3, <1>4

\* kexit() of a PROC other than P0 and P1 makes a ZOMBIE that is in no queue.
LEMMA KexitInv == ASSUME IInv, Kexit PROVE IInv'
<1>1. /\ TypeOK /\ QueueInv /\ SchedulerFindsProc /\ P1NeverDies /\ ControlInv
      /\ running \in Procs /\ running # 0 /\ running # 1 /\ mode = "body"
      /\ status[running] = "READY" /\ resume[0] # "init"
      /\ status \in [Procs -> Statuses]
  BY BodyFacts DEF IInv, Kexit, MayExit, Typed, AtPrompt, InBody, TypeOK, Statuses
<1>2. /\ UNCHANGED <<priority, event, resume, freeList, readyQueue, sleepList,
                     running, temp, jidx>>
      /\ 1 \in Procs
  BY NprocAssumption DEF Kexit, queueVars, Procs
<1>3. parent' \in [Procs -> Procs \union {NULL}]
  <2>1. parent' = [p \in Procs |-> IF p \in Chain(child[running], sibling') THEN 1 ELSE parent[p]]
    BY DEF Kexit
  <2> QED BY <1>1, <1>2, <2>1 DEF TypeOK
<1>4. child' \in [Procs -> Procs \union {NULL}] /\ sibling' \in [Procs -> Procs \union {NULL}]
  BY <1>1, <1>2 DEF Kexit, GiveAway, TypeOK
<1>5. CASE Ends(child[running], sibling')
  <2>1. /\ status' = [status EXCEPT ![running] = "ZOMBIE"] /\ mode' = "kexit"
        /\ wevent' = Addr(Waiter(parent', running))
    BY <1>5 DEF Kexit, AdoptionEnds
  <2>2. wevent' \in Events
    <3>1. Waiter(parent', running) \in Procs
      BY <1>1, <1>2, <1>3 DEF Waiter
    <3> QED BY <2>1, <3>1 DEF Events
  <2>3. TypeOK'
    BY <1>1, <1>2, <1>3, <1>4, <2>1, <2>2 DEF TypeOK
  <2>4. QueueInv'
    <3>1. {x \in Procs : status'[x] = "SLEEP"} = {x \in Procs : status[x] = "SLEEP"}
      BY <1>1, <2>1
    <3>2. {x \in Procs : status'[x] = "FREE"} = {x \in Procs : status[x] = "FREE"}
      BY <1>1, <2>1
    <3>3. {x \in Procs : status'[x] = "READY"} = {x \in Procs : status[x] = "READY"} \ {running}
      BY <1>1, <2>1
    <3> QED BY <1>1, <1>2, <3>1, <3>2, <3>3 DEF QueueInv
  <2>5. SchedulerFindsProc' /\ P1NeverDies' /\ ControlInv'
    BY <1>1, <1>2, <2>1 DEF SchedulerFindsProc, P1NeverDies, ControlInv, TypeOK
  <2> QED BY <2>3, <2>4, <2>5 DEF IInv
<1>6. CASE ~Ends(child[running], sibling')
  <2>1. mode' = "hang" /\ UNCHANGED <<status, wevent>>
    BY <1>6 DEF Kexit, AdoptionEnds
  <2>2. TypeOK'
    BY <1>1, <1>2, <1>3, <1>4, <2>1 DEF TypeOK
  <2> QED BY <1>1, <1>2, <2>1, <2>2, ModeStep DEF queueVars
<1> QED BY <1>5, <1>6

\* kwait() moves a ZOMBIE, which is in no queue, to the free list.
LEMMA KwaitBuriesInv == ASSUME IInv, KwaitBuries PROVE IInv'
<1>1. /\ TypeOK /\ QueueInv /\ SchedulerFindsProc /\ P1NeverDies /\ ControlInv
      /\ running \in Procs /\ running # 0 /\ mode = "body"
      /\ status[running] = "READY" /\ resume[0] # "init"
      /\ status \in [Procs -> Statuses]
  BY BodyFacts DEF IInv, KwaitBuries, Typed, AtPrompt, InBody, TypeOK, Statuses
<1>2. PICK z \in Procs :
        /\ FirstZombie(z)
        /\ status' = [status EXCEPT ![z] = "FREE"]
        /\ Unlink(z)
        /\ freeList' = Enqueue(priority, freeList, z)
  BY DEF KwaitBuries
<1>3. UNCHANGED <<priority, event, parent, resume, readyQueue, sleepList,
                  running, mode, temp, wevent, jidx>>
  BY DEF KwaitBuries, loopVars
<1>4. status[z] = "ZOMBIE" /\ z # 0 /\ z # running
  BY <1>1, <1>2 DEF FirstZombie, Zombies, SchedulerFindsProc
<1>5. child' \in [Procs -> Procs \union {NULL}] /\ sibling' \in [Procs -> Procs \union {NULL}]
  <2>1. child \in [Procs -> Procs \union {NULL}] /\ sibling \in [Procs -> Procs \union {NULL}]
    BY <1>1 DEF TypeOK
  <2>2. CASE child[running] = z
    BY <1>2, <2>1, <2>2 DEF Unlink
  <2>3. CASE child[running] # z
    <3>1. /\ child' = child
          /\ sibling' = [q \in Procs |-> IF q \in Children(running) /\ sibling[q] = z
                                        THEN sibling[z] ELSE sibling[q]]
      BY <1>2, <2>3 DEF Unlink
    <3> QED BY <2>1, <3>1
  <2> QED BY <2>2, <2>3
<1>6. /\ freeList' \in Seq(Procs) /\ NoRepeats(freeList')
      /\ Members(freeList') = Members(freeList) \union {z}
  <2>1. /\ freeList \in Seq(Procs) /\ priority \in [Procs -> {0, 1}]
        /\ NoRepeats(freeList) /\ z \notin Members(freeList)
    BY <1>1, <1>4 DEF TypeOK, QueueInv
  <2> QED BY <1>2, <2>1, EnqueueRange
<1>7. TypeOK'
  BY <1>1, <1>2, <1>3, <1>5, <1>6 DEF TypeOK
<1>8. QueueInv'
  <2>1. {x \in Procs : status'[x] = "SLEEP"} = {x \in Procs : status[x] = "SLEEP"}
    BY <1>1, <1>2, <1>4
  <2>2. {x \in Procs : status'[x] = "FREE"} = {x \in Procs : status[x] = "FREE"} \union {z}
    BY <1>1, <1>2
  <2>3. {x \in Procs : status'[x] = "READY"} = {x \in Procs : status[x] = "READY"}
    BY <1>1, <1>2, <1>4
  <2> QED BY <1>1, <1>3, <1>6, <2>1, <2>2, <2>3 DEF QueueInv
<1>9. SchedulerFindsProc' /\ P1NeverDies'
  BY <1>1, <1>2, <1>3, <1>4, NprocAssumption
     DEF SchedulerFindsProc, P1NeverDies, TypeOK, Procs
<1>10. ControlInv'
  BY <1>1, <1>3 DEF ControlInv
<1> QED BY <1>7, <1>8, <1>9, <1>10 DEF IInv

\* After a sleep kwait() goes back to body().
LEMMA KwaitReturnsInv == ASSUME IInv, KwaitReturns PROVE IInv'
<1>1. /\ TypeOK /\ QueueInv /\ SchedulerFindsProc /\ P1NeverDies /\ ControlInv
      /\ running \in Procs /\ running # 0 /\ resume[0] # "init" /\ mode = "body"
  BY BodyFacts DEF IInv, KwaitReturns
<1>2. /\ resume' = [resume EXCEPT ![running] = "body"]
      /\ UNCHANGED <<status, priority, event, parent, child, sibling, freeList,
                     readyQueue, sleepList, running, mode, temp, wevent, jidx>>
  BY DEF KwaitReturns, procVars, treeVars, queueVars, loopVars
<1>3. TypeOK'
  BY <1>1, <1>2 DEF TypeOK
<1>4. QueueInv' /\ SchedulerFindsProc'
  BY <1>1, <1>2 DEF QueueInv, SchedulerFindsProc
<1>5. P1NeverDies' /\ ControlInv'
  BY <1>1, <1>2, NprocAssumption DEF P1NeverDies, ControlInv, TypeOK, Procs
<1> QED BY <1>3, <1>4, <1>5 DEF IInv

\* Every step keeps the invariant.
LEMMA NextInv == ASSUME IInv, [Next]_vars PROVE IInv'
<1> USE DEF procVars, treeVars, queueVars, loopVars
<1>1. CASE MainKfork
  BY <1>1, MainKforkInv
<1>2. CASE MainSwitch
  <2>1. mode = "body" /\ resume[0] # "init"
    BY <1>2 DEF MainSwitch
  <2> QED BY <1>2, <2>1, SwitchInv DEF MainSwitch
<1>3. ASSUME AtPrompt \/ InBody
      PROVE  mode = "body" /\ running # 0 /\ status[running] = "READY" /\ resume[0] # "init"
  BY <1>3, BodyFacts DEF AtPrompt, InBody
<1>4. CASE PromptHangs
  <2>1. TypeOK'
    BY <1>4 DEF PromptHangs, IInv, TypeOK
  <2> QED BY <1>3, <1>4, <2>1, ModeStep DEF PromptHangs
<1>5. CASE WakeupStep
  BY <1>5, WakeupStepInv
<1>6. CASE WakeupReturns
  BY <1>6, WakeupReturnsInv
<1>7. CASE JesusStep
  BY <1>7, JesusStepInv
<1>8. CASE JesusReturns
  <2>1. running # 0 /\ status[running] = "READY"
    BY <1>8 DEF JesusReturns, IInv, ControlInv, SchedulerFindsProc
  <2>2. TypeOK'
    BY <1>8, NprocAssumption DEF JesusReturns, IInv, TypeOK
  <2> QED BY <1>8, <2>1, <2>2, ModeStep DEF JesusReturns
<1>9. CASE KwaitReturns
  BY <1>9, KwaitReturnsInv
<1>10. CASE DoKfork
  BY <1>10, DoKforkInv
<1>11. CASE DoSwitch
  BY <1>3, <1>11, SwitchInv DEF DoSwitch, Typed
<1>12. CASE DoSleep
  <2>1. PICK e \in UserEvents : Sleep(e, "body")
    BY <1>12 DEF DoSleep
  <2>2. e \in Events /\ InBody
    BY <1>12 DEF Events, DoSleep, Typed, AtPrompt
  <2> QED BY <2>1, <2>2, SleepInv
<1>13. CASE DoWakeup
  <2>1. TypeOK'
    BY <1>13 DEF DoWakeup, IInv, TypeOK, Events
  <2> QED BY <1>3, <1>13, <2>1, ModeStep DEF DoWakeup, Typed
<1>14. CASE DoJesus
  <2>1. TypeOK'
    BY <1>14, NprocAssumption DEF DoJesus, IInv, TypeOK
  <2> QED BY <1>3, <1>14, <2>1, ModeStep DEF DoJesus, Typed
<1>15. CASE Kexit
  BY <1>15, KexitInv
<1>16. CASE KwaitBuries
  BY <1>16, KwaitBuriesInv
<1>17. CASE KwaitSleeps
  <2>1. Sleep(Addr(running), "kwait") /\ InBody /\ Addr(running) \in Events
    BY <1>17 DEF KwaitSleeps, Typed, AtPrompt, InBody, Events
  <2> QED BY <2>1, SleepInv
<1>18. CASE UNCHANGED vars
  <2>1. TypeOK' /\ QueueInv'
    BY <1>18 DEF vars, IInv, TypeOK, QueueInv
  <2>2. SchedulerFindsProc' /\ P1NeverDies' /\ ControlInv'
    BY <1>18 DEF vars, IInv, SchedulerFindsProc, P1NeverDies, ControlInv
  <2> QED BY <2>1, <2>2 DEF IInv
<1> QED BY <1>1, <1>2, <1>4, <1>5, <1>6, <1>7, <1>8, <1>9, <1>10, <1>11, <1>12,
           <1>13, <1>14, <1>15, <1>16, <1>17, <1>18 DEF Next, KernelStep, Command

-----------------------------------------------------------------------------
(***************************************************************************)
(* The life of a PROC: what a step may do to a status.                     *)
(***************************************************************************)

\* One PROC's change of status, and what it takes.
Moves(p) ==
  \/ status'[p] = status[p]
  \/ status[p] = "FREE" /\ status'[p] = "READY" /\ priority'[p] = 1 /\ p # 0
  \/ status[p] = "READY" /\ status'[p] \in {"SLEEP", "ZOMBIE"} /\ mode = "body"
  \/ status[p] = "SLEEP" /\ status'[p] = "READY" /\ InWakeup /\ event[p] = wevent
  \/ status[p] = "ZOMBIE" /\ status'[p] = "READY" /\ mode = "jesus"
  \/ status[p] = "ZOMBIE" /\ status'[p] = "FREE" /\ mode = "body"

\* Every step makes only such changes, and gives a priority only to a PROC
\* that kfork() takes from the free list.
LEMMA StatusMoves ==
  ASSUME IInv, [Next]_vars
  PROVE  \A p \in Procs : /\ Moves(p)
                          /\ priority'[p] # priority[p] => status[p] = "FREE"
<1> USE DEF procVars, treeVars, queueVars, loopVars
<1>1. /\ status \in [Procs -> Statuses] /\ priority \in [Procs -> {0, 1}]
      /\ SchedulerFindsProc /\ QueueInv /\ running \in Procs
  BY DEF IInv, TypeOK, Statuses, SchedulerFindsProc
<1>2. ASSUME NEW q \in Procs, mode = "body", Kfork(q)
      PROVE  \A p \in Procs : Moves(p) /\ (priority'[p] # priority[p] => status[p] = "FREE")
  <2>1. status[q] = "FREE" /\ q # 0 /\ status' = [status EXCEPT ![q] = "READY"]
    BY <1>2, KforkMoves
  <2>2. priority' = [priority EXCEPT ![q] = 1]
    BY <1>2 DEF Kfork, NewPriority
  <2> QED BY <1>1, <2>1, <2>2 DEF Moves
<1>3. ASSUME NEW e, NEW back, InBody, Sleep(e, back)
      PROVE  \A p \in Procs : Moves(p) /\ priority'[p] = priority[p]
  <2>1. status[running] = "READY" /\ mode = "body"
    BY <1>3, BodyFacts DEF InBody
  <2> QED BY <1>1, <1>3, <2>1 DEF Sleep, Moves
<1>4. CASE MainKfork \/ DoKfork
  BY <1>2, <1>4 DEF MainKfork, DoKfork, Typed, AtPrompt, InBody
<1>5. CASE DoSleep \/ KwaitSleeps
  BY <1>3, <1>5 DEF DoSleep, KwaitSleeps, Typed, AtPrompt
<1>6. CASE WakeupStep
  <2>1. Head(sleepList) \in Procs /\ status[Head(sleepList)] = "SLEEP"
    <3>1. sleepList \in Seq(Procs) /\ sleepList # <<>>
      BY <1>6 DEF IInv, TypeOK, WakeupStep
    <3>2. Head(sleepList) \in Procs /\ Head(sleepList) \in Members(sleepList)
      BY <3>1, DequeueRange
    <3> QED BY <1>1, <3>2 DEF QueueInv
  <2> QED BY <1>1, <1>6, <2>1 DEF WakeupStep, Wakes, PutAside, Moves
<1>7. CASE JesusStep
  BY <1>1, <1>7 DEF JesusStep, Moves
<1>8. CASE Kexit
  <2>1. status[running] = "READY" /\ mode = "body"
    BY <1>8, BodyFacts DEF Kexit, Typed, AtPrompt, InBody
  <2>2. UNCHANGED priority /\ (status' = status \/ status' = [status EXCEPT ![running] = "ZOMBIE"])
    BY <1>8 DEF Kexit
  <2> QED BY <1>1, <2>1, <2>2 DEF Moves
<1>9. CASE KwaitBuries
  <2>1. mode = "body" /\ UNCHANGED priority
    BY <1>9 DEF KwaitBuries, Typed, AtPrompt, InBody
  <2>2. PICK z \in Procs : FirstZombie(z) /\ status' = [status EXCEPT ![z] = "FREE"]
    BY <1>9 DEF KwaitBuries
  <2>3. status[z] = "ZOMBIE"
    BY <2>2 DEF FirstZombie, Zombies
  <2> QED BY <1>1, <2>1, <2>2, <2>3 DEF Moves
<1>10. CASE UNCHANGED <<status, priority>>
  BY <1>10 DEF Moves
<1>11. CASE MainSwitch \/ PromptHangs \/ WakeupReturns \/ JesusReturns \/ KwaitReturns
            \/ DoSwitch \/ DoWakeup \/ DoJesus \/ UNCHANGED vars
  BY <1>10, <1>11 DEF MainSwitch, PromptHangs, WakeupReturns, JesusReturns, KwaitReturns,
                      DoSwitch, DoWakeup, DoJesus, vars
<1> QED BY <1>4, <1>5, <1>6, <1>7, <1>8, <1>9, <1>11 DEF Next, KernelStep, Command

-----------------------------------------------------------------------------
(***************************************************************************)
(* wakeup() and do_jesus(): what their loops have done so far.             *)
(***************************************************************************)

\* The PROCs put aside wait for other events than the one being posted.
LEMMA AsideStep ==
  ASSUME IInv, AsideInv, [Next]_vars
  PROVE  AsideInv'
<1> USE DEF procVars, treeVars, queueVars, loopVars
<1>1. CASE WakeupStep
  <2> DEFINE p == Head(sleepList)
  <2>1. /\ InWakeup /\ InWakeup' /\ UNCHANGED <<event, wevent>> /\ temp \in Seq(Procs)
        /\ priority \in [Procs -> {0, 1}] /\ sleepList \in Seq(Procs) /\ sleepList # <<>>
    BY <1>1 DEF WakeupStep, InWakeup, IInv, TypeOK
  <2>2. CASE Wakes(p)
    BY <1>1, <2>1, <2>2 DEF WakeupStep, AsideInv
  <2>3. CASE ~Wakes(p)
    <3>1. temp' = Enqueue(priority, temp, p) /\ event[p] # wevent
      BY <1>1, <2>3 DEF WakeupStep, PutAside, Wakes
    <3>2. p \in Procs
      BY <2>1, DequeueRange
    <3>3. Members(temp') = Members(temp) \union {p}
      BY <2>1, <3>1, <3>2, EnqueueRange
    <3> QED BY <2>1, <3>1, <3>3 DEF AsideInv
  <2> QED BY <2>2, <2>3
<1>2. CASE WakeupReturns
  BY <1>2 DEF WakeupReturns, AsideInv, InWakeup
<1>3. ASSUME ~InWakeup, UNCHANGED temp
      PROVE  AsideInv'
  <2>1. temp' = <<>> /\ Members(temp') = {}
    BY <1>3 DEF AsideInv, Members
  <2> QED BY <2>1 DEF AsideInv
<1>4. CASE MainKfork \/ MainSwitch \/ PromptHangs \/ JesusStep \/ JesusReturns \/ KwaitReturns
  BY <1>3, <1>4 DEF MainKfork, Kfork, MainSwitch, PromptHangs, JesusStep, JesusReturns,
                    KwaitReturns, InBody, InWakeup
<1>5. CASE Command
  <2>1. mode = "body"
    BY <1>5 DEF Command, DoKfork, DoSwitch, DoSleep, DoWakeup, DoJesus, Kexit, KwaitBuries,
                KwaitSleeps, Typed, AtPrompt, InBody
  <2>2. UNCHANGED temp
    BY <1>5 DEF Command, DoKfork, Kfork, DoSwitch, DoSleep, Sleep, DoWakeup, DoJesus, Kexit,
                KwaitBuries, KwaitSleeps
  <2> QED BY <1>3, <2>1, <2>2 DEF InWakeup
<1>6. CASE UNCHANGED vars
  BY <1>6 DEF vars, AsideInv, InWakeup, Members
<1> QED BY <1>1, <1>2, <1>4, <1>5, <1>6 DEF Next, KernelStep

\* do_jesus() has raised every ZOMBIE it has passed.
LEMMA RaisedStep ==
  ASSUME IInv, RaisedInv, [Next]_vars
  PROVE  RaisedInv'
<1> USE DEF procVars, treeVars, queueVars, loopVars
<1>1. CASE JesusStep
  <2>1. /\ mode = "jesus" /\ jidx \in Int /\ status \in [Procs -> Statuses]
        /\ jidx' = jidx + 1 /\ jidx \in Procs
        /\ status' = IF status[jidx] = "ZOMBIE" THEN [status EXCEPT ![jidx] = "READY"] ELSE status
    BY <1>1, NprocAssumption DEF JesusStep, IInv, TypeOK, Statuses, JesusDone, Procs, ControlInv
  <2>2. ASSUME NEW p \in Procs, p < jidx + 1 PROVE status'[p] # "ZOMBIE"
    <3>1. p = jidx \/ p < jidx
      BY <2>1, <2>2 DEF Procs
    <3> QED BY <2>1, <3>1 DEF RaisedInv
  <2> QED BY <2>1, <2>2 DEF RaisedInv
<1>2. CASE DoJesus
  <2>1. jidx' = 1 /\ UNCHANGED status /\ status[0] = "READY"
    BY <1>2 DEF DoJesus, IInv, SchedulerFindsProc
  <2>2. \A p \in Procs : p < 1 => p = 0
    BY DEF Procs
  <2> QED BY <2>1, <2>2 DEF RaisedInv
<1>3. CASE UNCHANGED vars
  BY <1>3 DEF vars, RaisedInv
<1>4. CASE MainKfork \/ MainSwitch \/ PromptHangs \/ WakeupStep \/ WakeupReturns
           \/ JesusReturns \/ KwaitReturns
  BY <1>4 DEF MainKfork, Kfork, MainSwitch, PromptHangs, WakeupStep, WakeupReturns, InWakeup,
              JesusReturns, KwaitReturns, InBody, RaisedInv
<1>5. CASE DoKfork \/ DoSwitch \/ DoSleep \/ DoWakeup \/ Kexit \/ KwaitBuries \/ KwaitSleeps
  BY <1>5 DEF DoKfork, Kfork, DoSwitch, DoSleep, Sleep, DoWakeup, Kexit, KwaitBuries,
              KwaitSleeps, Typed, AtPrompt, InBody, RaisedInv
<1> QED BY <1>1, <1>2, <1>3, <1>4, <1>5 DEF Next, KernelStep, Command

-----------------------------------------------------------------------------
(***************************************************************************)
(* The order of the ready queue.                                           *)
(***************************************************************************)

\* enqueue() keeps a queue ordered.
LEMMA EnqueueOrdered ==
  ASSUME NEW pri \in [Procs -> {0, 1}], NEW q \in Seq(Procs), NEW p \in Procs, Ordered(pri, q)
  PROVE  Ordered(pri, Enqueue(pri, q, p))
<1> DEFINE e == Enqueue(pri, q, p)
<1>1. e \in Seq(Procs) /\ Len(e) = Len(q) + 1
  BY EnqueueElements
<1>2. PICK k \in 0 .. Len(q) :
        /\ InsertsAfter(pri, q, p, k)
        /\ \A i \in 1 .. Len(q)+1 :
             e[i] = IF i <= k THEN q[i] ELSE IF i = k+1 THEN p ELSE q[i-1]
  BY EnqueueElements
<1> HIDE DEF e
<1>3. /\ \A i \in 1 .. k : pri[p] <= pri[q[i]]
      /\ k < Len(q) => pri[p] > pri[q[k+1]]
  BY <1>2 DEF InsertsAfter
<1>4. /\ Len(q) \in Nat /\ pri[p] \in {0, 1} /\ \A i \in 1 .. Len(q) : pri[q[i]] \in {0, 1}
      /\ \A i, j \in 1 .. Len(q) : i <= j => pri[q[i]] >= pri[q[j]]
  BY DEF Ordered
<1>5. ASSUME NEW i \in 1 .. Len(q)+1, NEW j \in 1 .. Len(q)+1, i <= j
      PROVE  pri[e[i]] >= pri[e[j]]
  <2>1. CASE j <= k
    BY <1>2, <1>4, <1>5, <2>1
  <2>2. CASE i <= k /\ j = k+1
    BY <1>2, <1>3, <1>4, <2>2
  <2>3. CASE i <= k /\ j > k+1
    <3>1. e[i] = q[i] /\ e[j] = q[j-1] /\ i \in 1 .. Len(q) /\ j-1 \in 1 .. Len(q) /\ i <= j-1
      BY <1>2, <1>4, <2>3
    <3> QED BY <1>4, <3>1
  <2>4. CASE i = k+1 /\ j = k+1
    BY <1>2, <1>4, <2>4
  <2>5. CASE i = k+1 /\ j > k+1
    <3>1. e[i] = p /\ e[j] = q[j-1] /\ k+1 \in 1 .. Len(q) /\ j-1 \in 1 .. Len(q) /\ k+1 <= j-1
      BY <1>2, <1>4, <2>5
    <3>2. pri[p] > pri[q[k+1]] /\ pri[q[k+1]] >= pri[q[j-1]]
      BY <1>3, <1>4, <3>1
    <3> QED BY <1>4, <3>1, <3>2
  <2>6. CASE i > k+1
    <3>1. e[i] = q[i-1] /\ e[j] = q[j-1] /\ i-1 \in 1 .. Len(q) /\ j-1 \in 1 .. Len(q) /\ i-1 <= j-1
      BY <1>2, <1>4, <1>5, <2>6
    <3> QED BY <1>4, <3>1
  <2> QED BY <1>2, <1>4, <1>5, <2>1, <2>2, <2>3, <2>4, <2>5, <2>6
<1>6. Ordered(pri, e)
  BY <1>1, <1>5 DEF Ordered
<1> QED BY <1>6 DEF e

\* enqueue() puts nothing ahead of a PROC of the higher priority.
LEMMA EnqueueAhead ==
  ASSUME NEW pri \in [Procs -> {0, 1}], NEW q \in Seq(Procs), NEW p \in Procs, Ordered(pri, q),
         p \notin Members(q), NEW x \in Procs, x # p, pri[x] = 1
  PROVE  Ahead(Enqueue(pri, q, p), x) \subseteq Ahead(q, x)
<1> DEFINE e == Enqueue(pri, q, p)
<1>1. e \in Seq(Procs) /\ Len(e) = Len(q) + 1 /\ Len(q) \in Nat
  BY EnqueueElements
<1>2. PICK k \in 0 .. Len(q) :
        /\ InsertsAfter(pri, q, p, k)
        /\ \A i \in 1 .. Len(q)+1 :
             e[i] = IF i <= k THEN q[i] ELSE IF i = k+1 THEN p ELSE q[i-1]
  BY EnqueueElements
<1> HIDE DEF e
<1>3. ASSUME NEW i \in 1 .. Len(e), NEW j \in i+1 .. Len(e), e[j] = x
      PROVE  e[i] \in Ahead(q, x)
  <2>1. j \in 1 .. Len(q)+1 /\ i < j
    BY <1>1
  <2>2. j <= k
    <3>1. j # k+1
      BY <1>2, <1>3, <2>1
    <3>2. ASSUME j > k+1 PROVE FALSE
      <4>1. e[j] = q[j-1] /\ j-1 \in 1 .. Len(q) /\ k+1 \in 1 .. Len(q) /\ k+1 <= j-1
        BY <1>1, <1>2, <2>1, <3>2
      <4>2. pri[p] > pri[q[k+1]]
        BY <1>1, <1>2, <4>1 DEF InsertsAfter
      <4>3. pri[q[k+1]] >= pri[x]
        BY <1>3, <4>1 DEF Ordered
      <4>4. pri[p] \in {0, 1} /\ pri[q[k+1]] \in {0, 1}
        BY <4>1
      <4> QED BY <4>2, <4>3, <4>4
    <3> QED BY <1>1, <1>2, <2>1, <3>1, <3>2
  <2>3. e[i] = q[i] /\ e[j] = q[j] /\ i \in 1 .. Len(q) /\ j \in i+1 .. Len(q)
    BY <1>1, <1>2, <2>1, <2>2
  <2> QED BY <1>3, <2>3 DEF Ahead
<1>4. Ahead(e, x) \subseteq Ahead(q, x)
  BY <1>3 DEF Ahead
<1> QED BY <1>4 DEF e

\* dequeue() leaves an ordered queue ordered, and nothing new ahead of anyone;
\* the PROC it returns has the highest priority.
LEMMA DequeueOrder ==
  ASSUME NEW pri \in [Procs -> {0, 1}], NEW q \in Seq(Procs), q # <<>>, Ordered(pri, q)
  PROVE  /\ Ordered(pri, Tail(q))
         /\ \A x \in Procs : Ahead(Tail(q), x) \subseteq Ahead(q, x)
         /\ \A x \in Members(q) : pri[Head(q)] >= pri[x]
<1>1. /\ Len(q) \in Nat /\ Len(q) >= 1 /\ Head(q) = q[1]
      /\ Tail(q) \in Seq(Procs) /\ Len(Tail(q)) = Len(q) - 1
      /\ \A i \in 1 .. Len(q)-1 : Tail(q)[i] = q[i+1]
  OBVIOUS
<1>2. Ordered(pri, Tail(q))
  <2> SUFFICES ASSUME NEW i \in 1 .. Len(Tail(q)), NEW j \in 1 .. Len(Tail(q)), i <= j
               PROVE  pri[Tail(q)[i]] >= pri[Tail(q)[j]]
    BY DEF Ordered
  <2>1. /\ Tail(q)[i] = q[i+1] /\ Tail(q)[j] = q[j+1] /\ i+1 \in 1 .. Len(q) /\ j+1 \in 1 .. Len(q)
        /\ i+1 <= j+1
    BY <1>1
  <2> QED BY <2>1 DEF Ordered
<1>3. ASSUME NEW x \in Procs, NEW i \in 1 .. Len(Tail(q)), NEW j \in i+1 .. Len(Tail(q)), Tail(q)[j] = x
      PROVE  Tail(q)[i] \in Ahead(q, x)
  <2>1. /\ Tail(q)[i] = q[i+1] /\ q[j+1] = x /\ i+1 \in 1 .. Len(q) /\ j+1 \in (i+1)+1 .. Len(q)
    BY <1>1, <1>3
  <2> QED BY <2>1 DEF Ahead
<1>4. \A x \in Members(q) : pri[Head(q)] >= pri[x]
  BY <1>1 DEF Members, Ordered
<1> QED BY <1>2, <1>3, <1>4 DEF Ahead

\* What a step may do to the ready queue: nothing, an enqueue() of a PROC not
\* in it, or a tswitch().
QueueSame == UNCHANGED <<readyQueue, running>>
QueueGains(p) ==
  /\ p \notin Members(readyQueue) /\ priority' \in [Procs -> {0, 1}]
  /\ \A x \in Members(readyQueue) : priority'[x] = priority[x]
  /\ readyQueue' = Enqueue(priority', readyQueue, p) /\ UNCHANGED running
QueueSwitches ==
  /\ UNCHANGED priority
  /\ Tswitch(status', readyQueue)
  /\ status' \in [Procs -> Statuses] /\ status'[0] = "READY"
  /\ Members(readyQueue) = ReadyProcs(status') \ {running}

\* Every step does one of these to the ready queue.
LEMMA QueueMoves ==
  ASSUME IInv, [Next]_vars
  PROVE  /\ QueueSame \/ (\E p \in Procs : QueueGains(p)) \/ QueueSwitches
         /\ QueueSame => \A x \in Members(readyQueue) : priority'[x] = priority[x]
<1> USE DEF procVars, treeVars, queueVars, loopVars
<1>1. /\ status \in [Procs -> Statuses] /\ priority \in [Procs -> {0, 1}]
      /\ SchedulerFindsProc /\ QueueInv /\ running \in Procs /\ 0 \in Procs
      /\ Members(readyQueue) = ReadyProcs(status) \ {running}
      /\ Members(readyQueue) \subseteq Procs
  BY NprocAssumption DEF IInv, TypeOK, Statuses, SchedulerFindsProc, QueueInv, ReadyProcs, Procs
<1>2. \A x \in Members(readyQueue) : priority'[x] = priority[x]
  BY <1>1, StatusMoves DEF ReadyProcs
<1>3. ASSUME NEW p \in Procs, mode = "body", Kfork(p)
      PROVE  QueueGains(p)
  <2>1. status[p] = "FREE" /\ priority' \in [Procs -> {0, 1}]
    BY <1>3, KforkMoves
  <2>2. readyQueue' = Enqueue(priority', readyQueue, p) /\ UNCHANGED running
    BY <1>3 DEF Kfork
  <2> QED BY <1>1, <1>2, <2>1, <2>2 DEF QueueGains, ReadyProcs
<1>4. ASSUME NEW e, NEW back, InBody, Sleep(e, back)
      PROVE  QueueSwitches
  <2>1. status[running] = "READY" /\ running # 0
    BY <1>4, BodyFacts DEF InBody
  <2>2. /\ status' = [status EXCEPT ![running] = "SLEEP"] /\ UNCHANGED priority
        /\ Tswitch(status', readyQueue)
    BY <1>4 DEF Sleep
  <2>3. status' \in [Procs -> Statuses] /\ status'[0] = "READY"
    BY <1>1, <2>1, <2>2 DEF Statuses, SchedulerFindsProc
  <2>4. ReadyProcs(status') \ {running} = ReadyProcs(status) \ {running}
    BY <1>1, <2>2 DEF ReadyProcs
  <2> QED BY <1>1, <2>2, <2>3, <2>4 DEF QueueSwitches
<1>5. ASSUME Tswitch(status, readyQueue), UNCHANGED <<status, priority>>
      PROVE  QueueSwitches
  <2>1. Tswitch(status', readyQueue)
    BY <1>5
  <2> QED BY <1>1, <1>5, <2>1 DEF QueueSwitches, SchedulerFindsProc
<1>6. CASE MainKfork \/ DoKfork
  BY <1>2, <1>3, <1>6 DEF MainKfork, DoKfork, Typed, AtPrompt, InBody
<1>7. CASE DoSleep \/ KwaitSleeps
  BY <1>2, <1>4, <1>7 DEF DoSleep, KwaitSleeps, Typed, AtPrompt
<1>8. CASE MainSwitch \/ DoSwitch
  BY <1>2, <1>5, <1>8 DEF MainSwitch, DoSwitch
<1>9. CASE WakeupReturns
  BY <1>2, <1>5, <1>9 DEF WakeupReturns, QueueSame
<1>10. CASE WakeupStep
  <2> DEFINE p == Head(sleepList)
  <2>1. UNCHANGED <<priority, running>>
        /\ (UNCHANGED readyQueue \/ readyQueue' = Enqueue(priority, readyQueue, p))
    BY <1>10 DEF WakeupStep
  <2>2. p \in Procs /\ status[p] = "SLEEP"
    <3>1. sleepList \in Seq(Procs) /\ sleepList # <<>>
      BY <1>10 DEF IInv, TypeOK, WakeupStep
    <3>2. p \in Procs /\ p \in Members(sleepList)
      BY <3>1, DequeueRange
    <3> QED BY <1>1, <3>2 DEF QueueInv
  <2>3. p \notin Members(readyQueue)
    BY <1>1, <2>2 DEF ReadyProcs
  <2> HIDE DEF p
  <2>4. QueueSame \/ QueueGains(p)
    BY <1>1, <2>1, <2>3 DEF QueueSame, QueueGains
  <2> QED BY <1>2, <2>2, <2>4
<1>11. CASE JesusStep
  <2>1. /\ UNCHANGED <<priority, running>>
        /\ \/ UNCHANGED readyQueue
           \/ status[jidx] = "ZOMBIE" /\ readyQueue' = Enqueue(priority, readyQueue, jidx)
    BY <1>11 DEF JesusStep
  <2>2. jidx \in Procs
    BY <1>11, NprocAssumption DEF JesusStep, JesusDone, IInv, TypeOK, Procs
  <2>3. QueueSame \/ QueueGains(jidx)
    BY <1>1, <2>1 DEF QueueSame, QueueGains, ReadyProcs
  <2> QED BY <1>2, <2>2, <2>3
<1>12. CASE QueueSame
  BY <1>2, <1>12
<1>13. CASE PromptHangs \/ JesusReturns \/ KwaitReturns \/ DoWakeup \/ DoJesus \/ Kexit
            \/ KwaitBuries \/ UNCHANGED vars
  BY <1>12, <1>13 DEF PromptHangs, JesusReturns, KwaitReturns, DoWakeup, DoJesus, Kexit,
                      KwaitBuries, vars, QueueSame
<1> QED BY <1>6, <1>7, <1>8, <1>9, <1>10, <1>11, <1>13 DEF Next, KernelStep, Command

\* tswitch(): the queue the next PROC is taken from.
LEMMA SwitchFacts ==
  ASSUME IInv, OrderInv, QueueSwitches
  PROVE  LET q == Requeued(status', readyQueue) IN
         /\ q \in Seq(Procs) /\ q # <<>> /\ Ordered(priority, q)
         /\ Members(q) = ReadyProcs(status')
         /\ running' = Head(q) /\ readyQueue' = Tail(q)
         /\ \A x \in Procs : priority[x] = 1 /\ x \in Members(readyQueue)
                               => Ahead(q, x) \subseteq Ahead(readyQueue, x)
<1> DEFINE q == Requeued(status', readyQueue)
<1>1. /\ readyQueue \in Seq(Procs) /\ priority \in [Procs -> {0, 1}] /\ running \in Procs
      /\ Ordered(priority, readyQueue) /\ running \notin Members(readyQueue)
      /\ Members(readyQueue) = ReadyProcs(status') \ {running} /\ status'[0] = "READY"
  BY DEF IInv, TypeOK, SchedulerFindsProc, OrderInv, QueueSwitches
<1>2. CASE status'[running] = "READY"
  <2>1. q = Enqueue(priority, readyQueue, running)
    BY <1>2 DEF Requeued
  <2>2. q \in Seq(Procs) /\ Members(q) = Members(readyQueue) \union {running}
    BY <1>1, <2>1, EnqueueRange
  <2>3. Ordered(priority, q)
    BY <1>1, <2>1, EnqueueOrdered
  <2>4. ASSUME NEW x \in Procs, priority[x] = 1, x \in Members(readyQueue)
        PROVE  Ahead(q, x) \subseteq Ahead(readyQueue, x)
    BY <1>1, <2>1, <2>4, EnqueueAhead
  <2>5. running \in ReadyProcs(status')
    BY <1>1, <1>2 DEF ReadyProcs
  <2>6. Members(q) = ReadyProcs(status')
    BY <1>1, <2>2, <2>5
  <2>7. q # <<>>
    BY <2>2, <2>5, <2>6 DEF Members
  <2> QED BY <2>2, <2>3, <2>4, <2>6, <2>7 DEF QueueSwitches, Tswitch, First, Rest
<1>3. CASE status'[running] # "READY"
  <2>1. q = readyQueue /\ Members(q) = ReadyProcs(status')
    BY <1>1, <1>3 DEF Requeued, ReadyProcs
  <2>2. q # <<>>
    <3>1. 0 \in Members(q)
      BY <1>1, <2>1, NprocAssumption DEF ReadyProcs, Procs
    <3> QED BY <3>1 DEF Members
  <2> QED BY <1>1, <2>1, <2>2 DEF QueueSwitches, Tswitch, First, Rest
<1> QED BY <1>2, <1>3

\* Every step keeps the ready queue ordered and P0 at the lowest priority.
LEMMA OrderStep ==
  ASSUME IInv, OrderInv, [Next]_vars
  PROVE  OrderInv'
<1>1. /\ readyQueue \in Seq(Procs) /\ priority \in [Procs -> {0, 1}]
      /\ status \in [Procs -> Statuses] /\ Members(readyQueue) \subseteq Procs
  BY DEF IInv, TypeOK, Statuses, QueueInv
<1>2. ASSUME NEW p \in Procs, status'[p] # "FREE"
      PROVE  priority'[p] = IF p = 0 THEN 0 ELSE 1
  <2>1. CASE status[p] = "FREE"
    BY <1>2, <2>1, StatusMoves DEF Moves
  <2>2. CASE status[p] # "FREE"
    BY <2>2, StatusMoves DEF OrderInv
  <2> QED BY <2>1, <2>2
<1>3. ASSUME \A x \in Members(readyQueue) : priority'[x] = priority[x]
      PROVE  Ordered(priority', readyQueue)
  BY <1>3 DEF OrderInv, Ordered, Members
<1>4. Ordered(priority', readyQueue')
  <2>1. CASE QueueSame
    BY <1>3, <2>1, QueueMoves DEF QueueSame
  <2>2. ASSUME NEW p \in Procs, QueueGains(p)
        PROVE  Ordered(priority', readyQueue')
    BY <1>1, <1>3, <2>2, EnqueueOrdered DEF QueueGains
  <2>3. CASE QueueSwitches
    <3> DEFINE q == Requeued(status', readyQueue)
    <3>1. /\ q \in Seq(Procs) /\ q # <<>> /\ Ordered(priority, q) /\ readyQueue' = Tail(q)
          /\ UNCHANGED priority
      BY <2>3, SwitchFacts DEF QueueSwitches
    <3> HIDE DEF q
    <3> QED BY <1>1, <3>1, DequeueOrder
  <2> QED BY <2>1, <2>2, <2>3, QueueMoves
<1> QED BY <1>2, <1>4 DEF OrderInv

-----------------------------------------------------------------------------
(***************************************************************************)
(* Child lists: no step closes a cycle that its own walk does not meet.    *)
(***************************************************************************)

Links == [Procs -> Procs \union {NULL}]

\* A set that a walk along sib does not leave.
Closed(S, sib) == \A q \in S : sib[q] # NULL => sib[q] \in S

\* The walk from c ends iff every set it cannot leave has an end in it: the
\* PROCs it meets are the smallest of these sets.
LEMMA EndsMeans ==
  ASSUME NEW sib \in Links, NEW c \in Procs
  PROVE  Ends(c, sib) <=> \A S \in SUBSET Procs :
                            c \in S /\ Closed(S, sib) => \E q \in S : sib[q] = NULL
<1>1. c # NULL
  BY NprocAssumption DEF Procs, NULL
<1>2. /\ Chain(c, sib) \in SUBSET Procs /\ c \in Chain(c, sib)
      /\ \A S \in SUBSET Procs : c \in S /\ Closed(S, sib) => Chain(c, sib) \subseteq S
  BY <1>1 DEF Chain, Closed
<1>3. Closed(Chain(c, sib), sib)
  <2> SUFFICES ASSUME NEW q \in Chain(c, sib), sib[q] # NULL
               PROVE  sib[q] \in Chain(c, sib)
    BY DEF Closed
  <2>1. sib[q] \in Procs
    BY <1>2 DEF Links
  <2>2. ASSUME NEW S \in SUBSET Procs, c \in S, Closed(S, sib)
        PROVE  sib[q] \in S
    BY <1>2, <2>2 DEF Closed
  <2> QED BY <1>1, <2>1, <2>2 DEF Chain, Closed
<1>4. Ends(c, sib) <=> \E q \in Chain(c, sib) : sib[q] = NULL
  BY <1>1 DEF Ends
<1> HIDE DEF Ends
<1> QED BY <1>2, <1>3, <1>4

\* kfork() and kexit() redirect one sibling field, that of c, to d.  When the
\* walk from d ends afterwards, every walk still does.
LEMMA RelinkEnds ==
  ASSUME NEW sib \in Links, \A p \in Procs : Ends(p, sib),
         NEW c \in Procs, NEW d \in Procs \union {NULL},
         Ends(d, [sib EXCEPT ![c] = d]), NEW x \in Procs
  PROVE  Ends(x, [sib EXCEPT ![c] = d])
<1> DEFINE new == [sib EXCEPT ![c] = d]
<1>1. new \in Links /\ new[c] = d /\ \A q \in Procs \ {c} : new[q] = sib[q]
  BY DEF Links
<1> HIDE DEF new
<1>2. ASSUME NEW S \in SUBSET Procs, x \in S, Closed(S, new)
      PROVE  \E q \in S : new[q] = NULL
  <2>1. CASE c \notin S
    <3>1. Closed(S, sib) /\ \A q \in S : new[q] = sib[q]
      BY <1>1, <1>2, <2>1 DEF Closed
    <3> QED BY <1>2, <3>1, EndsMeans
  <2>2. CASE c \in S /\ d = NULL
    BY <1>1, <2>2
  <2>3. CASE c \in S /\ d # NULL
    <3>1. d \in S /\ d \in Procs
      BY <1>1, <1>2, <2>3 DEF Closed
    <3>2. Ends(d, new)
      BY DEF new
    <3> QED BY <1>1, <1>2, <3>1, <3>2, EndsMeans
  <2> QED BY <2>1, <2>2, <2>3
<1>3. Ends(x, new)
  BY <1>1, <1>2, EndsMeans
<1> QED BY <1>3 DEF new

\* kwait() takes z out of a list: the links to z skip it.
LEMMA SkipEnds ==
  ASSUME NEW sib \in Links, \A p \in Procs : Ends(p, sib),
         NEW z \in Procs, NEW Q, NEW x \in Procs
  PROVE  Ends(x, [q \in Procs |-> IF q \in Q /\ sib[q] = z THEN sib[z] ELSE sib[q]])
<1> DEFINE new == [q \in Procs |-> IF q \in Q /\ sib[q] = z THEN sib[z] ELSE sib[q]]
<1>1. /\ new \in Links /\ z # NULL
      /\ \A q \in Procs : new[q] = IF q \in Q /\ sib[q] = z THEN sib[z] ELSE sib[q]
  BY NprocAssumption DEF Links, Procs, NULL
<1> HIDE DEF new
<1>2. ASSUME NEW S \in SUBSET Procs, x \in S, Closed(S, new)
      PROVE  \E q \in S : new[q] = NULL
  <2>1. CASE \A q \in S : new[q] = sib[q]
    <3>1. Closed(S, sib)
      BY <1>2, <2>1 DEF Closed
    <3> QED BY <1>2, <2>1, <3>1, EndsMeans
  <2>2. ASSUME NEW q \in S, q \in Q, sib[q] = z, sib[z] # NULL
        PROVE  \E r \in S : new[r] = NULL
    <3>1. new[q] = sib[z] /\ sib[z] \in S
      BY <1>1, <1>2, <2>2 DEF Closed
    <3>2. Closed(S \union {z}, sib)
      BY <1>1, <1>2, <3>1 DEF Closed
    <3>3. PICK r \in S \union {z} : sib[r] = NULL
      BY <1>2, <3>2, EndsMeans
    <3>4. r \in S /\ new[r] = NULL
      BY <1>1, <2>2, <3>3
    <3> QED BY <3>4
  <2>3. ASSUME NEW q \in S, q \in Q, sib[q] = z, sib[z] = NULL
        PROVE  \E r \in S : new[r] = NULL
    BY <1>1, <2>3
  <2> QED BY <1>1, <1>2, <2>1, <2>2, <2>3
<1>3. Ends(x, new)
  BY <1>1, <1>2, EndsMeans
<1> QED BY <1>3 DEF new

\* A cycle that kfork() closes goes through the first child of the running
\* PROC, whose prompt then hangs.
LEMMA ForkLists ==
  ASSUME IInv, NoCycles, InBody, NEW p \in Procs, Kfork(p),
         InBody' => AtPrompt'
  PROVE  InBody' => NoCycles'
<1> SUFFICES ASSUME InBody' PROVE NoCycles'
  OBVIOUS
<1>1. sibling \in Links /\ child \in Links /\ running \in Procs /\ running' = running
  BY DEF IInv, TypeOK, Links, InBody, Kfork
<1>2. CASE child[running] = NULL
  BY <1>2 DEF Kfork, LinkChild, NoCycles
<1>3. CASE child[running] # NULL
  <2> DEFINE c == child[running]
  <2>1. /\ c \in Procs /\ child' = child /\ sibling' = [sibling EXCEPT ![c] = p]
    BY <1>1, <1>3 DEF Kfork, LinkChild, Links
  <2>2. Ends(c, sibling')
    BY <1>1, <2>1 DEF AtPrompt
  <2>3. Ends(p, sibling')
    <3>1. sibling' \in Links /\ sibling'[c] = p /\ p # NULL
      BY <1>1, <2>1, NprocAssumption DEF Links, Procs, NULL
    <3>2. ASSUME NEW S \in SUBSET Procs, p \in S, Closed(S, sibling')
          PROVE  \E q \in S : sibling'[q] = NULL
      <4>1. Closed(S \union {c}, sibling')
        BY <3>1, <3>2 DEF Closed
      <4>2. PICK q \in S \union {c} : sibling'[q] = NULL
        BY <2>1, <2>2, <3>1, <4>1, EndsMeans
      <4> QED BY <3>1, <4>2
    <3> QED BY <3>1, <3>2, EndsMeans
  <2> HIDE DEF c
  <2>4. ASSUME NEW x \in Procs PROVE Ends(x, sibling')
    BY <1>1, <2>1, <2>3, RelinkEnds DEF NoCycles
  <2> QED BY <2>4 DEF NoCycles
<1> QED BY <1>2, <1>3

\* kexit()'s own walk meets a cycle that its linking closes.
LEMMA ExitLists ==
  ASSUME IInv, NoCycles, InBody, GiveAway, AdoptionEnds
  PROVE  NoCycles'
<1>1. /\ sibling \in Links /\ child \in Links /\ running \in Procs /\ 1 \in Procs
  BY NprocAssumption DEF IInv, TypeOK, Links, InBody, Procs
<1>2. CASE child[1] = NULL
  BY <1>2 DEF GiveAway, NoCycles
<1>3. CASE child[1] # NULL
  <2> DEFINE l == Last(child[1], sibling)
             d == child[running]
  <2>1. child[1] \in Procs /\ Ends(child[1], sibling)
    BY <1>1, <1>3 DEF Links, NoCycles
  <2>2. l \in Procs
    <3>1. \E q \in Chain(child[1], sibling) : sibling[q] = NULL
      BY <1>3, <2>1 DEF Ends
    <3>2. l \in Chain(child[1], sibling)
      BY <3>1 DEF Last
    <3> QED BY <1>3, <3>2 DEF Chain
  <2>3. sibling' = [sibling EXCEPT ![l] = d] /\ d \in Procs \union {NULL}
    BY <1>1, <1>3 DEF GiveAway, Links
  <2>4. Ends(d, sibling')
    BY DEF AdoptionEnds
  <2> HIDE DEF l, d
  <2>5. ASSUME NEW x \in Procs PROVE Ends(x, sibling')
    BY <1>1, <2>2, <2>3, <2>4, RelinkEnds DEF NoCycles
  <2> QED BY <2>5 DEF NoCycles
<1> QED BY <1>2, <1>3

\* Until main() has created P1 nothing but that can happen.
LEMMA StartStep ==
  ASSUME IInv, resume[0] = "init", Next
  PROVE  MainKfork
<1>1. running = 0 /\ mode = "body"
  BY DEF IInv, ControlInv
<1> QED BY <1>1 DEF Next, KernelStep, Command, MainSwitch, PromptHangs, WakeupStep,
              WakeupReturns, JesusStep, JesusReturns, KwaitReturns, DoKfork, DoSwitch, DoSleep,
              DoWakeup, DoJesus, Kexit, KwaitBuries, KwaitSleeps, Typed, AtPrompt, InBody, InWakeup

\* Every step keeps ListsInv.
LEMMA ListsStep ==
  ASSUME IInv, ListsInv, [Next]_vars
  PROVE  ListsInv'
<1> USE DEF procVars, treeVars, queueVars, loopVars
<1>1. /\ sibling \in Links /\ child \in Links /\ running \in Procs /\ 0 \in Procs
      /\ resume \in [Procs -> {"init", "main", "body", "kwait"}]
  BY NprocAssumption DEF IInv, TypeOK, Links, SchedulerFindsProc, Procs
<1>2. CASE UNCHANGED vars
  BY <1>2 DEF vars, ListsInv, NoCycles, AtPrompt, InBody
<1>3. CASE MainKfork
  <2>1. PICK p \in Procs : Kfork(p)
    BY <1>3 DEF MainKfork
  <2>2. running = 0 /\ resume[0] = "init" /\ mode = "body" /\ child[0] = NULL
        /\ resume' = [resume EXCEPT ![0] = "main"]
    BY <1>3 DEF MainKfork, ListsInv
  <2>3. NoCycles /\ UNCHANGED sibling /\ resume'[0] = "main"
    BY <1>1, <2>1, <2>2 DEF ListsInv, InBody, Kfork, LinkChild
  <2> QED BY <2>3 DEF ListsInv, NoCycles
<1>4. ASSUME Next, ~MainKfork
      PROVE  resume'[0] # "init"
  <2>1. resume[0] # "init"
    BY <1>4, StartStep
  <2>2. \/ UNCHANGED resume
        \/ \E p \in Procs, back \in {"body", "kwait"} : resume' = [resume EXCEPT ![p] = back]
    BY <1>1, <1>4 DEF Next, KernelStep, Command, MainSwitch, PromptHangs, WakeupStep,
              WakeupReturns, JesusStep, JesusReturns, KwaitReturns, DoKfork, DoSwitch, DoSleep,
              DoWakeup, DoJesus, Kexit, KwaitBuries, KwaitSleeps, Sleep
  <2> QED BY <1>1, <2>1, <2>2
<1>5. CASE PromptHangs
  <2>1. ~MainKfork
    BY <1>5 DEF PromptHangs, MainKfork, InBody
  <2> QED BY <1>4, <1>5, <2>1 DEF PromptHangs, ListsInv, Next, KernelStep
<1>6. ASSUME Next, ~MainKfork, ~PromptHangs
      PROVE  NoCycles /\ mode # "hang"
  <2>1. mode # "hang"
    BY <1>6 DEF Next, KernelStep, Command, MainSwitch, WakeupStep, WakeupReturns,
                JesusStep, JesusReturns, KwaitReturns, DoKfork, DoSwitch, DoSleep, DoWakeup,
                DoJesus, Kexit, KwaitBuries, KwaitSleeps, Typed, AtPrompt, InBody, InWakeup
  <2>2. InBody => AtPrompt
    BY <1>6 DEF Next, KernelStep, Command, MainSwitch, WakeupStep, WakeupReturns,
                JesusStep, JesusReturns, KwaitReturns, DoKfork, DoSwitch, DoSleep, DoWakeup,
                DoJesus, Kexit, KwaitBuries, KwaitSleeps, Typed, InBody, InWakeup
  <2> QED BY <2>1, <2>2 DEF ListsInv
<1>7. ASSUME Next, ~MainKfork, ~PromptHangs, UNCHANGED sibling
      PROVE  ListsInv'
  BY <1>4, <1>6, <1>7 DEF NoCycles, ListsInv
<1>8. CASE DoKfork
  <2>1. PICK p \in Procs : Kfork(p) /\ resume' = [resume EXCEPT ![p] = "body"]
    BY <1>8 DEF DoKfork
  <2>2. InBody /\ AtPrompt
    BY <1>8 DEF DoKfork, Typed, AtPrompt
  <2>3. Next /\ ~MainKfork /\ ~PromptHangs
    BY <1>8, <2>2 DEF Next, Command, MainKfork, PromptHangs, AtPrompt, InBody
  <2>4. InBody'
    BY <1>1, <2>1, <2>2 DEF Kfork, InBody
  <2>5. (InBody' => AtPrompt') => NoCycles'
    BY <1>6, <2>1, <2>2, <2>3, <2>4, ForkLists
  <2> QED BY <1>4, <2>3, <2>5 DEF ListsInv
<1>9. CASE Kexit
  <2>1. InBody /\ AtPrompt
    BY <1>9 DEF Kexit, Typed, AtPrompt
  <2>2. Next /\ ~MainKfork /\ ~PromptHangs
    BY <1>9, <2>1 DEF Next, Command, MainKfork, PromptHangs, AtPrompt, InBody
  <2>3. GiveAway /\ (~AdoptionEnds => mode' = "hang")
    BY <1>9 DEF Kexit
  <2>4. mode' # "hang" => NoCycles'
    BY <1>6, <2>1, <2>2, <2>3, ExitLists
  <2> QED BY <1>4, <2>2, <2>4 DEF ListsInv
<1>10. CASE KwaitBuries
  <2>1. InBody /\ AtPrompt
    BY <1>10 DEF KwaitBuries, Typed, AtPrompt
  <2>2. Next /\ ~MainKfork /\ ~PromptHangs
    BY <1>10, <2>1 DEF Next, Command, MainKfork, PromptHangs, AtPrompt, InBody
  <2>3. PICK z \in Procs : Unlink(z)
    BY <1>10 DEF KwaitBuries
  <2>4. CASE UNCHANGED sibling
    BY <1>7, <2>2, <2>4
  <2>5. CASE ~UNCHANGED sibling
    <3>1. sibling' = [q \in Procs |-> IF q \in Children(running) /\ sibling[q] = z
                                      THEN sibling[z] ELSE sibling[q]]
      BY <2>3, <2>5 DEF Unlink
    <3>2. NoCycles
      BY <1>6, <2>2
    <3>3. ASSUME NEW x \in Procs PROVE Ends(x, sibling')
      BY <1>1, <3>1, <3>2, SkipEnds DEF NoCycles
    <3> QED BY <1>4, <2>2, <3>3 DEF NoCycles, ListsInv
  <2> QED BY <2>4, <2>5
<1>11. CASE MainSwitch \/ WakeupStep \/ WakeupReturns \/ JesusStep \/ JesusReturns
            \/ KwaitReturns \/ DoSwitch \/ DoSleep \/ DoWakeup \/ DoJesus \/ KwaitSleeps
  <2>1. UNCHANGED sibling
    BY <1>11 DEF MainSwitch, WakeupStep, WakeupReturns, JesusStep, JesusReturns,
                 KwaitReturns, DoSwitch, DoSleep, DoWakeup, DoJesus, KwaitSleeps, Sleep
  <2>2. Next
    BY <1>11 DEF Next, KernelStep, Command
  <2> QED BY <1>3, <1>5, <1>7, <2>1, <2>2
<1> QED BY <1>2, <1>3, <1>5, <1>8, <1>9, <1>10, <1>11 DEF Next, KernelStep, Command

\* The invariant of the kernel calls holds throughout.
LEMMA CallsInvariant == Spec => []CallsInv
<1>1. Init => CallsInv
  <2> SUFFICES ASSUME Init PROVE CallsInv
    OBVIOUS
  <2>1. 0 \in Procs
    BY NprocAssumption DEF Procs
  <2>2. AsideInv /\ RaisedInv
    BY DEF Init, AsideInv, RaisedInv, InWakeup
  <2>3. OrderInv
    BY DEF Init, OrderInv, Ordered
  <2>4. ListsInv
    <3>1. sibling \in Links /\ \A p \in Procs : sibling[p] = NULL
      BY DEF Init, Links
    <3>2. ASSUME NEW p \in Procs PROVE Ends(p, sibling)
      BY <3>1, EndsMeans
    <3> QED BY <2>1, <3>2 DEF Init, ListsInv, NoCycles
  <2> QED BY <2>2, <2>3, <2>4, InitInv DEF CallsInv
<1>2. CallsInv /\ [Next]_vars => CallsInv'
  BY NextInv, AsideStep, RaisedStep, OrderStep, ListsStep DEF CallsInv
<1> QED BY <1>1, <1>2, PTL DEF Spec

-----------------------------------------------------------------------------
(***************************************************************************)
(* The theorems.                                                           *)
(***************************************************************************)

\* The fields and queues keep their types in every behaviour of the kernel.
THEOREM TypeCorrect == Spec => []TypeOK
<1>1. IInv => TypeOK
  BY DEF IInv
<1> QED BY InitInv, NextInv, <1>1, PTL DEF Spec

\* For every size of the process table: each PROC is linked into exactly the
\* queue its status calls for, through all of kfork, kexit, kwait, sleep,
\* wakeup, do_jesus and scheduler.
THEOREM QueuesPartition == Spec => []QueueInv
<1>1. IInv => QueueInv
  BY DEF IInv
<1> QED BY InitInv, NextInv, <1>1, PTL DEF Spec

\* scheduler() never dereferences the null pointer dequeue() gives for an
\* empty queue: P0 is there for it.
THEOREM SchedulerSafe == Spec => []SchedulerFindsProc
<1>1. IInv => SchedulerFindsProc
  BY DEF IInv
<1> QED BY InitInv, NextInv, <1>1, PTL DEF Spec

\* P1 is always there to adopt the children of a PROC that exits.
THEOREM P1Survives == Spec => []P1NeverDies
<1>1. IInv => P1NeverDies
  BY DEF IInv
<1> QED BY InitInv, NextInv, <1>1, PTL DEF Spec

\* Whatever kfork(), kexit() and kwait() do to the lists, a prompt is reached
\* only with no cycle among the sibling fields.
THEOREM PromptListsEnd == Spec => []ListsEndAtPrompt
<1>1. CallsInv => ListsEndAtPrompt
  <2> SUFFICES ASSUME CallsInv, AtPrompt, NEW p \in Procs PROVE Ends(child[p], sibling)
    BY DEF ListsEndAtPrompt
  <2>1. mode # "hang" /\ child[p] \in Procs \union {NULL}
    BY DEF CallsInv, IInv, TypeOK, AtPrompt, InBody
  <2>2. NoCycles
    BY <2>1 DEF CallsInv, ListsInv
  <2>3. CASE child[p] = NULL
    BY <2>3 DEF Ends
  <2>4. CASE child[p] \in Procs
    BY <2>2, <2>4 DEF NoCycles
  <2> QED BY <2>1, <2>3, <2>4
<1> QED BY <1>1, CallsInvariant, PTL

\* wakeup(e) wakes the PROCs that sleep on e, all of them and no others.
THEOREM WakeupIsExact == Spec => WakeupExact
<1>1. ASSUME CallsInv, [Next]_vars
      PROVE  /\ InWakeup /\ mode' = "body" =>
                  \A p \in Procs : status'[p] = "SLEEP" => event[p] # wevent
             /\ \A p \in Procs : status[p] = "SLEEP" /\ status'[p] # "SLEEP"
                                   => InWakeup /\ event[p] = wevent
  <2>1. IInv /\ AsideInv
    BY <1>1 DEF CallsInv
  <2>2. ASSUME NEW p \in Procs, status[p] = "SLEEP", status'[p] # "SLEEP"
        PROVE  InWakeup /\ event[p] = wevent
    BY <1>1, <2>1, <2>2, StatusMoves DEF Moves
  <2>3. ASSUME InWakeup, mode' = "body", NEW p \in Procs, status'[p] = "SLEEP"
        PROVE  event[p] # wevent
    <3>1. WakeupReturns
      BY <1>1, <2>3 DEF Next, KernelStep, Command, MainKfork, MainSwitch, PromptHangs,
           WakeupStep, JesusStep, JesusReturns, KwaitReturns, DoKfork, DoSwitch, DoSleep,
           DoWakeup, DoJesus, Kexit, KwaitBuries, KwaitSleeps, Typed, AtPrompt, InBody,
           InWakeup, vars
    <3>2. status' = status /\ Members(sleepList) = {}
      BY <3>1 DEF WakeupReturns, procVars, Members
    <3>3. p \in Members(temp)
      BY <2>1, <2>3, <3>2 DEF IInv, QueueInv
    <3> QED BY <2>1, <2>3, <3>3 DEF AsideInv
  <2> QED BY <2>2, <2>3
<1> QED BY <1>1, CallsInvariant, PTL DEF Spec, WakeupExact

\* do_jesus() raises every ZOMBIE, and nothing else makes one run again.
THEOREM JesusIsComplete == Spec => JesusRaisesAll
<1>1. ASSUME CallsInv, [Next]_vars
      PROVE  /\ mode = "jesus" /\ mode' = "body" => \A p \in Procs : status'[p] # "ZOMBIE"
             /\ \A p \in Procs : status[p] = "ZOMBIE" /\ status'[p] = "READY" => mode = "jesus"
  <2>1. IInv /\ RaisedInv
    BY <1>1 DEF CallsInv
  <2>2. ASSUME NEW p \in Procs, status[p] = "ZOMBIE", status'[p] = "READY"
        PROVE  mode = "jesus"
    BY <1>1, <2>1, <2>2, StatusMoves DEF Moves
  <2>3. ASSUME mode = "jesus", mode' = "body", NEW p \in Procs
        PROVE  status'[p] # "ZOMBIE"
    <3>1. JesusReturns
      BY <1>1, <2>3 DEF Next, KernelStep, Command, MainKfork, MainSwitch, PromptHangs,
           WakeupStep, WakeupReturns, JesusStep, KwaitReturns, DoKfork, DoSwitch, DoSleep,
           DoWakeup, DoJesus, Kexit, KwaitBuries, KwaitSleeps, Typed, AtPrompt, InBody,
           InWakeup, vars
    <3>2. status' = status /\ p < jidx
      BY <2>1, <3>1, NprocAssumption DEF JesusReturns, JesusDone, procVars, Procs, IInv, TypeOK
    <3> QED BY <2>1, <2>3, <3>2 DEF RaisedInv
  <2> QED BY <2>2, <2>3
<1> QED BY <1>1, CallsInvariant, PTL DEF Spec, JesusRaisesAll

\* P0 gets the CPU back only when no other PROC is ready.
THEOREM IdleRunsLast == Spec => P0RunsLast
<1>1. ASSUME CallsInv, [Next]_vars, running # 0, running' = 0
      PROVE  \A p \in Procs \ {0} : status'[p] # "READY"
  <2>1. IInv /\ OrderInv
    BY <1>1 DEF CallsInv
  <2>2. QueueSwitches
    BY <1>1, <2>1, QueueMoves DEF QueueSame, QueueGains
  <2> DEFINE q == Requeued(status', readyQueue)
  <2>3. /\ q \in Seq(Procs) /\ q # <<>> /\ Ordered(priority, q)
        /\ Members(q) = ReadyProcs(status') /\ Head(q) = 0
    BY <1>1, <2>1, <2>2, SwitchFacts
  <2> HIDE DEF q
  <2>4. /\ OrderInv' /\ UNCHANGED priority /\ priority \in [Procs -> {0, 1}] /\ 0 \in Procs
        /\ status'[0] = "READY"
    BY <1>1, <2>1, <2>2, OrderStep, NprocAssumption DEF QueueSwitches, IInv, TypeOK, Procs
  <2>5. priority[0] = 0
    BY <2>4 DEF OrderInv
  <2>6. ASSUME NEW p \in Procs \ {0}, status'[p] = "READY" PROVE FALSE
    <3>1. p \in Members(q)
      BY <2>3, <2>6 DEF ReadyProcs
    <3>2. priority[Head(q)] >= priority[p]
      BY <2>3, <2>4, <3>1, DequeueOrder
    <3>3. priority[p] = 1
      BY <2>4, <2>6 DEF OrderInv
    <3> QED BY <2>3, <2>5, <3>2, <3>3
  <2> QED BY <2>6
<1> QED BY <1>1, CallsInvariant, PTL DEF Spec, P0RunsLast

\* No step puts a PROC ahead of one of priority 1 that waits for the CPU.
THEOREM FirstComeFirstServed == Spec => NoOvertaking
<1>1. ASSUME CallsInv, [Next]_vars,
             NEW p \in Members(readyQueue) \intersect Members(readyQueue'), priority[p] = 1
      PROVE  Ahead(readyQueue', p) \subseteq Ahead(readyQueue, p)
  <2>1. /\ IInv /\ OrderInv /\ readyQueue \in Seq(Procs) /\ priority \in [Procs -> {0, 1}]
        /\ p \in Procs
    BY <1>1 DEF CallsInv, IInv, TypeOK, QueueInv
  <2>2. CASE QueueSame
    BY <2>2 DEF QueueSame
  <2>3. ASSUME NEW x \in Procs, QueueGains(x)
        PROVE  Ahead(readyQueue', p) \subseteq Ahead(readyQueue, p)
    <3>1. /\ x \notin Members(readyQueue) /\ priority' \in [Procs -> {0, 1}]
          /\ \A y \in Members(readyQueue) : priority'[y] = priority[y]
          /\ readyQueue' = Enqueue(priority', readyQueue, x)
      BY <2>3 DEF QueueGains
    <3>2. Ordered(priority', readyQueue) /\ priority'[p] = 1 /\ x # p
      BY <1>1, <2>1, <3>1 DEF OrderInv, Ordered, Members
    <3> QED BY <2>1, <3>1, <3>2, EnqueueAhead
  <2>4. CASE QueueSwitches
    <3> DEFINE q == Requeued(status', readyQueue)
    <3>1. /\ q \in Seq(Procs) /\ q # <<>> /\ Ordered(priority, q) /\ readyQueue' = Tail(q)
          /\ Ahead(q, p) \subseteq Ahead(readyQueue, p)
      BY <1>1, <2>1, <2>4, SwitchFacts
    <3> HIDE DEF q
    <3>2. Ahead(Tail(q), p) \subseteq Ahead(q, p)
      BY <2>1, <3>1, DequeueOrder
    <3> QED BY <3>1, <3>2
  <2> QED BY <1>1, <2>1, <2>2, <2>3, <2>4, QueueMoves
<1>2. ASSUME CallsInv, [Next]_vars
      PROVE  \A p \in Members(readyQueue) \intersect Members(readyQueue') :
               priority[p] = 1 => Ahead(readyQueue', p) \subseteq Ahead(readyQueue, p)
  BY <1>1, <1>2
<1> QED BY <1>2, CallsInvariant, PTL DEF Spec, NoOvertaking
=============================================================================
