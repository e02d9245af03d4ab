------------------------------ MODULE Multitask ------------------------------
(***************************************************************************)
(* The MT multitasking system of PreLab3: a process table proc[NPROC], a   *)
(* priority ready queue, a sleep list, a free list, and the kernel calls   *)
(* kfork, kexit, kwait, sleep, wakeup, tswitch that the running process    *)
(* makes when its user types a command.                                    *)
(*                                                                         *)
(* One kernel call runs to completion before the next one starts (there is *)
(* no preemption); the two loops that walk a whole table, wakeup() and     *)
(* do_jesus(), are modelled one iteration per step.  A queue linked by     *)
(* PROC.next is the sequence of its PROCs: a PROC has one next field, so   *)
(* this is faithful as long as no PROC is linked twice, which is QueueInv. *)
(*                                                                         *)
(* Left out: pid (the index itself), ppid (always parent's pid), exitCode  *)
(* (do_exit passes the pid), and all printing except printChild, whose     *)
(* walk of a child list can fail to end.                                   *)
(***************************************************************************)
EXTENDS Integers, Sequences, FiniteSets

CONSTANTS NPROC,        \* size of the process table, 9 in type.h
          UserEvents,   \* the integers a user may type for sleep and wakeup
          Commands      \* the commands a user may type, out of AllCommands

ASSUME NprocAssumption == NPROC \in Nat /\ NPROC >= 2
ASSUME EventsAssumption == UserEvents \subseteq Int

\* The commands of body() that change anything; ps is the other one.
AllCommands == {"fork", "switch", "exit", "jesus", "sleep", "wakeup", "wait"}

ASSUME CommandsAssumption == Commands \subseteq AllCommands

Procs == 0 .. NPROC-1
NULL == -1

\* The int that &proc[p] converts to: distinct and nonzero, and nothing keeps
\* a user from typing it as an event.
Addr(p) == p + 1

Events == UserEvents \union {0} \union {Addr(p) : p \in Procs}

VARIABLES
  status,      \* PROC.status
  priority,    \* PROC.priority
  event,       \* PROC.event
  parent,      \* PROC.parent
  child,       \* PROC.child: first child
  sibling,     \* PROC.sibling: next child of the same parent
  resume,      \* what the saved kernel stack returns into
  freeList, readyQueue, sleepList,
  running,     \* NULL stands for the crash of a scheduler with no PROC
  mode,        \* the loop the running PROC is in; "body" outside any loop
  temp,        \* wakeup()'s local list
  wevent,      \* wakeup()'s argument
  jidx         \* do_jesus()'s loop index

procVars == <<status, priority, event>>
treeVars == <<parent, child, sibling>>
queueVars == <<freeList, readyQueue, sleepList>>
loopVars == <<temp, wevent, jidx>>
vars == <<procVars, treeVars, resume, queueVars, running, mode, loopVars>>

Members(q) == {q[i] : i \in 1 .. Len(q)}

-----------------------------------------------------------------------------
(***************************************************************************)
(* queue.c                                                                 *)
(***************************************************************************)

\* Faulty variants: enqueue() that stops ahead of equals, and enqueue() that
\* always goes to the end.
InsertsBeforeEquals(pri, q, p, k) ==
  /\ \A i \in 1 .. k : pri[p] < pri[q[i]]
  /\ k < Len(q) => pri[p] >= pri[q[k+1]]
InsertsLast(pri, q, p, k) == k = Len(q)

\* k PROCs of q stay ahead of p: all of p's priority or higher, and the one
\* after them has a lower priority.
InsertsAfter(pri, q, p, k) ==
  /\ \A i \in 1 .. k : pri[p] <= pri[q[i]]
  /\ k < Len(q) => pri[p] > pri[q[k+1]]

Enqueue(pri, q, p) ==
  LET k == CHOOSE k \in 0 .. Len(q) : InsertsAfter(pri, q, p, k)
  IN  SubSeq(q, 1, k) \o <<p>> \o SubSeq(q, k+1, Len(q))

\* What dequeue() returns and what it leaves in the queue.
First(q) == IF q = <<>> THEN NULL ELSE Head(q)
Rest(q) == IF q = <<>> THEN <<>> ELSE Tail(q)

-----------------------------------------------------------------------------
(***************************************************************************)
(* Child lists: the PROCs that a walk from c along sib meets.              *)
(***************************************************************************)

Chain(c, sib) ==
  IF c = NULL THEN {}
  ELSE {p \in Procs :
          \A S \in SUBSET Procs :
            (c \in S /\ \A q \in S : sib[q] # NULL => sib[q] \in S) => p \in S}

\* while(child) child = child->sibling; comes to an end.
Ends(c, sib) == c # NULL => \E p \in Chain(c, sib) : sib[p] = NULL

Last(c, sib) == CHOOSE p \in Chain(c, sib) : sib[p] = NULL

Children(p) == Chain(child[p], sibling)

-----------------------------------------------------------------------------
(***************************************************************************)
(* main() up to the end of init(): P0 runs, every other PROC is free.      *)
(***************************************************************************)

Init ==
  /\ status = [p \in Procs |-> IF p = 0 THEN "READY" ELSE "FREE"]
  /\ priority = [p \in Procs |-> 0]
  /\ event = [p \in Procs |-> 0]
  /\ parent = [p \in Procs |-> NULL]
  /\ child = [p \in Procs |-> NULL]
  /\ sibling = [p \in Procs |-> NULL]
  /\ resume = [p \in Procs |-> IF p = 0 THEN "init" ELSE "body"]
  /\ freeList = [i \in 1 .. NPROC-1 |-> i]
  /\ readyQueue = <<>>
  /\ sleepList = <<>>
  /\ running = 0
  /\ mode = "body"
  /\ temp = <<>> /\ wevent = 0 /\ jidx = 0

-----------------------------------------------------------------------------
(***************************************************************************)
(* tswitch() and scheduler(): the PROC that runs next, given the ready     *)
(* queue rq and the statuses st the caller leaves behind.                  *)
(***************************************************************************)

\* Faulty variants: a PROC that is not ready is put back too; the idle PROC
\* is not put back.
RequeuedAlways(st, rq) == Enqueue(priority, rq, running)
RequeuedUnlessIdle(st, rq) ==
  IF st[running] = "READY" /\ running # 0 THEN Enqueue(priority, rq, running) ELSE rq

Requeued(st, rq) ==
  IF st[running] = "READY" THEN Enqueue(priority, rq, running) ELSE rq

Tswitch(st, rq) ==
  /\ running' = First(Requeued(st, rq))
  /\ readyQueue' = Rest(Requeued(st, rq))

\* The running PROC is about to go round the loop of body(): it prints its
\* child list and reads a command.
InBody == mode = "body" /\ running \in Procs /\ resume[running] = "body"
AtPrompt == InBody /\ Ends(child[running], sibling)
Typed(cmd) == AtPrompt /\ cmd \in Commands

\* printChild() follows a cyclic sibling list forever.
PromptHangs ==
  /\ InBody
  /\ ~Ends(child[running], sibling)
  /\ mode' = "hang"
  /\ UNCHANGED <<procVars, treeVars, resume, queueVars, running, loopVars>>

-----------------------------------------------------------------------------
(***************************************************************************)
(* kfork()                                                                 *)
(***************************************************************************)

\* The new PROC becomes the only child, or the sibling of the first child,
\* whatever that child's sibling was.  Its own child and sibling fields are
\* those its slot had in its previous life.
LinkChild(p) ==
  IF child[running] = NULL
  THEN child' = [child EXCEPT ![running] = p] /\ UNCHANGED sibling
  ELSE sibling' = [sibling EXCEPT ![child[running]] = p] /\ UNCHANGED child

\* ALL PROCs priority=1, except P0.  Faulty variant: one above the creator's.
PriorityAboveCreator == priority[running] + 1
NewPriority == 1

Kfork(p) ==
  /\ freeList # <<>> /\ p = Head(freeList)
  /\ freeList' = Tail(freeList)
  /\ status' = [status EXCEPT ![p] = "READY"]
  /\ priority' = [priority EXCEPT ![p] = NewPriority]
  /\ parent' = [parent EXCEPT ![p] = running]
  /\ LinkChild(p)
  /\ readyQueue' = Enqueue(priority', readyQueue, p)
  /\ UNCHANGED <<event, sleepList, running, mode, loopVars>>

\* body(): the command fork.  With no free PROC kfork() returns -1 and
\* changes nothing.
DoKfork ==
  /\ Typed("fork")
  /\ \E p \in Procs : Kfork(p) /\ resume' = [resume EXCEPT ![p] = "body"]

\* main(): P0 creates P1 before it enters its loop.
MainKfork ==
  /\ mode = "body" /\ running = 0 /\ resume[0] = "init"
  /\ \E p \in Procs : Kfork(p)
  /\ resume' = [resume EXCEPT ![0] = "main"]

\* main(): P0 gives up the CPU when a PROC is ready.  With an empty ready
\* queue it loops forever, as nothing else can run.
MainSwitch ==
  /\ mode = "body" /\ running = 0 /\ resume[0] = "main"
  /\ readyQueue # <<>>
  /\ Tswitch(status, readyQueue)
  /\ UNCHANGED <<procVars, treeVars, resume, freeList, sleepList, mode, loopVars>>

DoSwitch ==
  /\ Typed("switch")
  /\ Tswitch(status, readyQueue)
  /\ UNCHANGED <<procVars, treeVars, resume, freeList, sleepList, mode, loopVars>>

-----------------------------------------------------------------------------
(***************************************************************************)
(* sleep(), wakeup(), do_jesus()                                           *)
(***************************************************************************)

\* sleep(e), then the kernel stack returns into back.
Sleep(e, back) ==
  /\ event' = [event EXCEPT ![running] = e]
  /\ status' = [status EXCEPT ![running] = "SLEEP"]
  /\ sleepList' = Enqueue(priority, sleepList, running)
  /\ Tswitch(status', readyQueue)
  /\ resume' = [resume EXCEPT ![running] = back]
  /\ UNCHANGED <<priority, treeVars, freeList, mode, loopVars>>

DoSleep == Typed("sleep") /\ \E e \in UserEvents : Sleep(e, "body")

\* do_wakeup() enters the loop of wakeup().
DoWakeup ==
  /\ Typed("wakeup")
  /\ \E e \in UserEvents : wevent' = e
  /\ mode' = "do_wakeup"
  /\ UNCHANGED <<procVars, treeVars, resume, queueVars, running, temp, jidx>>

InWakeup == mode \in {"do_wakeup", "kexit"}

\* The PROC waits for this event.  Faulty variant: or for any later one.
WakesAtLeast(p) == event[p] >= wevent
Wakes(p) == event[p] = wevent

\* A PROC that waits for another event.  Faulty variant: it is put back on
\* the list that the loop empties.
PutBack(p) ==
  sleepList' = Enqueue(priority, Tail(sleepList), p) /\ UNCHANGED temp
PutAside(p) ==
  sleepList' = Tail(sleepList) /\ temp' = Enqueue(priority, temp, p)

\* One turn of wakeup()'s loop, for the PROC at the head of the sleep list.
WakeupStep ==
  /\ InWakeup /\ sleepList # <<>>
  /\ LET p == Head(sleepList) IN
       IF Wakes(p)
       THEN /\ status' = [status EXCEPT ![p] = "READY"]
            /\ readyQueue' = Enqueue(priority, readyQueue, p)
            /\ sleepList' = Tail(sleepList)
            /\ UNCHANGED temp
       ELSE PutAside(p) /\ UNCHANGED <<status, readyQueue>>
  /\ UNCHANGED <<priority, event, treeVars, resume, freeList, running, mode,
                 wevent, jidx>>

\* The loop is over: the PROCs put aside are the sleep list again.  kexit()
\* goes on to switch away from the ZOMBIE it has made, do_wakeup() returns.
WakeupReturns ==
  /\ InWakeup /\ sleepList = <<>>
  /\ sleepList' = temp
  /\ temp' = <<>> /\ wevent' = 0
  /\ mode' = "body"
  /\ IF mode = "kexit" THEN Tswitch(status, readyQueue)
                       ELSE UNCHANGED <<running, readyQueue>>
  /\ UNCHANGED <<procVars, treeVars, resume, freeList, jidx>>

DoJesus ==
  /\ Typed("jesus")
  /\ mode' = "jesus" /\ jidx' = 1
  /\ UNCHANGED <<procVars, treeVars, resume, queueVars, running, temp, wevent>>

\* The loop index has left the table.  Faulty variant: one PROC too early.
JesusStopsShort == jidx >= NPROC - 1
JesusDone == jidx >= NPROC

JesusStep ==
  /\ mode = "jesus" /\ ~JesusDone
  /\ IF status[jidx] = "ZOMBIE"
     THEN /\ status' = [status EXCEPT ![jidx] = "READY"]
          /\ readyQueue' = Enqueue(priority, readyQueue, jidx)
     ELSE UNCHANGED <<status, readyQueue>>
  /\ jidx' = jidx + 1
  /\ UNCHANGED <<priority, event, treeVars, resume, freeList, sleepList,
                 running, mode, temp, wevent>>

JesusReturns ==
  /\ mode = "jesus" /\ JesusDone
  /\ mode' = "body" /\ jidx' = 0
  /\ UNCHANGED <<procVars, treeVars, resume, queueVars, running, temp, wevent>>

-----------------------------------------------------------------------------
(***************************************************************************)
(* kexit()                                                                 *)
(***************************************************************************)

\* The dying PROC's child list is hung on the end of P1's; its own child
\* field keeps pointing at it.
GiveAway ==
  IF child[1] = NULL
  THEN child' = [child EXCEPT ![1] = child[running]] /\ UNCHANGED sibling
  ELSE /\ sibling' = [sibling EXCEPT ![Last(child[1], sibling)] = child[running]]
       /\ UNCHANGED child

\* The PROC to wake: the parent, or P1 for want of one.  Faulty variant: P1.
WaiterP1(par, p) == 1
Waiter(par, p) == IF par[p] # NULL THEN par[p] ELSE 1

\* P1 never dies: its exit changes nothing.  Faulty variant: it does.
AnyoneMayExit == TRUE
MayExit == running # 1

\* The reparenting walk, made after the linking, may run into a cycle and
\* then never gets to the rest.  Faulty variant: it is made before.
AdoptionEndsEarly == Ends(child[running], sibling)
AdoptionEnds == Ends(child[running], sibling')

\* The walk to the end of P1's list always ends (ListsEndAtPrompt).
Kexit ==
  /\ Typed("exit") /\ MayExit
  /\ GiveAway
  /\ parent' = [p \in Procs |-> IF p \in Chain(child[running], sibling')
                                THEN 1 ELSE parent[p]]
  /\ IF AdoptionEnds
     THEN /\ status' = [status EXCEPT ![running] = "ZOMBIE"]
          /\ wevent' = Addr(Waiter(parent', running))
          /\ mode' = "kexit"
     ELSE mode' = "hang" /\ UNCHANGED <<status, wevent>>
  /\ UNCHANGED <<priority, event, resume, queueVars, running, temp, jidx>>

-----------------------------------------------------------------------------
(***************************************************************************)
(* kwait()                                                                 *)
(***************************************************************************)

Zombies(p) == {z \in Children(p) : status[z] = "ZOMBIE"}

\* findZombieChild(): the zombie of the list that all others come after.
FirstZombie(z) == z \in Zombies(running) /\ Zombies(running) \subseteq Chain(z, sibling)

\* The zombie z leaves the list: a first child takes the whole list with it.
Unlink(z) ==
  IF child[running] = z
  THEN child' = [child EXCEPT ![running] = NULL] /\ UNCHANGED sibling
  ELSE /\ sibling' = [q \in Procs |->
                        IF q \in Children(running) /\ sibling[q] = z
                        THEN sibling[z] ELSE sibling[q]]
       /\ UNCHANGED child

\* A zombie child is buried and its pid returned.
KwaitBuries ==
  /\ Typed("wait")
  /\ \E z \in Procs :
       /\ FirstZombie(z)
       /\ status' = [status EXCEPT ![z] = "FREE"]
       /\ Unlink(z)
       /\ freeList' = Enqueue(priority, freeList, z)
  /\ UNCHANGED <<priority, event, parent, resume, readyQueue, sleepList,
                 running, mode, loopVars>>

\* Children but no zombie: sleep on the own PROC address.  With no child at
\* all kwait() returns -1 and changes nothing.
KwaitSleeps ==
  /\ Typed("wait") /\ child[running] # NULL /\ Zombies(running) = {}
  /\ Sleep(Addr(running), "kwait")

\* sleep() returns with childProc NULL, what findZombieChild() gave: the loop
\* ends and kwait() returns -1 to body().
KwaitReturns ==
  /\ mode = "body" /\ running \in Procs /\ resume[running] = "kwait"
  /\ resume' = [resume EXCEPT ![running] = "body"]
  /\ UNCHANGED <<procVars, treeVars, queueVars, running, mode, loopVars>>

-----------------------------------------------------------------------------
\* The steps the kernel makes by itself, and those a typed command starts.
\* Commands that change nothing (ps, an empty line, fork with no free PROC,
\* exit of P1, wait with no child) are stuttering steps.
KernelStep ==
  \/ MainKfork \/ MainSwitch \/ PromptHangs
  \/ WakeupStep \/ WakeupReturns
  \/ JesusStep \/ JesusReturns
  \/ KwaitReturns

Command ==
  \/ DoKfork \/ DoSwitch \/ DoSleep \/ DoWakeup \/ DoJesus
  \/ Kexit \/ KwaitBuries \/ KwaitSleeps

Next == KernelStep \/ Command

\* A kernel call runs on by itself; nobody has to type a command.
Spec == Init /\ [][Next]_vars /\ WF_vars(KernelStep)
=============================================================================
