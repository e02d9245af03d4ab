------------------------- MODULE MultitaskProperties -------------------------
(***************************************************************************)
(* What the MT multitasking system keeps to, and, in the last section,     *)
(* what its README and comments say of it that it does not keep to.        *)
(***************************************************************************)
EXTENDS Multitask

\* The types of the PROC fields, the three queues and the locals of the
\* kernel loops.
TypeOK ==
  /\ status \in [Procs -> {"FREE", "READY", "SLEEP", "ZOMBIE"}]
  /\ priority \in [Procs -> {0, 1}]
  /\ event \in [Procs -> Events]
  /\ parent \in [Procs -> Procs \union {NULL}]
  /\ child \in [Procs -> Procs \union {NULL}]
  /\ sibling \in [Procs -> Procs \union {NULL}]
  /\ resume \in [Procs -> {"init", "main", "body", "kwait"}]
  /\ freeList \in Seq(Procs)
  /\ readyQueue \in Seq(Procs)
  /\ sleepList \in Seq(Procs)
  /\ running \in Procs \union {NULL}
  /\ mode \in {"body", "do_wakeup", "kexit", "jesus", "hang"}
  /\ temp \in Seq(Procs)
  /\ wevent \in Events
  /\ jidx \in 0 .. NPROC

NoRepeats(q) == \A i, j \in 1 .. Len(q) : q[i] = q[j] => i = j

\* A PROC is linked into the one queue its status calls for, once, and
\* a READY PROC is in the ready queue unless it is running: the single next
\* field of a PROC is never claimed by two queues (enqueue() in kfork, kexit,
\* kwait, sleep, wakeup, do_jesus and scheduler).
QueueInv ==
  /\ NoRepeats(freeList) /\ NoRepeats(readyQueue)
  /\ NoRepeats(sleepList) /\ NoRepeats(temp)
  /\ Members(sleepList) \intersect Members(temp) = {}
  /\ Members(freeList) = {p \in Procs : status[p] = "FREE"}
  /\ Members(readyQueue) = {p \in Procs : status[p] = "READY"} \ {running}
  /\ Members(sleepList) \union Members(temp) = {p \in Procs : status[p] = "SLEEP"}

\* scheduler() always finds a PROC: P0 is ready whenever it is not running,
\* and the running PROC is never asleep or free, and a ZOMBIE only while its
\* own kexit() wakes the parent.
SchedulerFindsProc ==
  /\ running \in Procs
  /\ status[0] = "READY"
  /\ status[running] = "READY" \/ (status[running] = "ZOMBIE" /\ mode = "kexit")

\* P1, created first, is never a ZOMBIE and never freed, so that kexit() has
\* somebody to give the children to and nobody's pid 1 is reused.
P1NeverDies == resume[0] # "init" => status[1] \in {"READY", "SLEEP"}

\* Where the kernel can be: P0 is the only PROC in main(), the loops are run
\* for other PROCs, and until P0 has created P1 nothing else happens.
ControlInv ==
  /\ \A p \in Procs : resume[p] \in {"init", "main"} <=> p = 0
  /\ mode # "body" => running # 0
  /\ mode = "jesus" => jidx >= 1
  /\ resume[0] = "init" =>
       running = 0 /\ mode = "body" /\ freeList # <<>> /\ Head(freeList) = 1

\* The inductive invariant behind the three invariants above.
IInv == TypeOK /\ QueueInv /\ SchedulerFindsProc /\ P1NeverDies /\ ControlInv

\* P0, which only loops until somebody is ready, gets the CPU back only when
\* no other PROC is: the order of the ready queue keeps it last.
P0RunsLast ==
  [][running # 0 /\ running' = 0
       => \A p \in Procs \ {0} : status'[p] # "READY"]_vars

Ahead(q, p) == {q[i] : i \in {i \in 1 .. Len(q) : \E j \in i+1 .. Len(q) : q[j] = p}}

\* First come, first served: no step puts a PROC ahead of a PROC of priority
\* 1 that is in the ready queue already (enqueue() stops behind equals).
NoOvertaking ==
  [][\A p \in Members(readyQueue) \intersect Members(readyQueue') :
       priority[p] = 1 => Ahead(readyQueue', p) \subseteq Ahead(readyQueue, p)]_vars

\* When wakeup(e) returns nobody sleeps on e any more, and it has made READY
\* only PROCs that did.
WakeupExact ==
  [][/\ InWakeup /\ mode' = "body" => \A p \in Procs : status'[p] = "SLEEP" => event[p] # wevent
     /\ \A p \in Procs : status[p] = "SLEEP" /\ status'[p] # "SLEEP" => InWakeup /\ event[p] = wevent]_vars

\* Whenever a command can be typed, every child list in the table ends: a
\* cycle that kfork() or kexit() links is in the running PROC's own list, so
\* that kexit()'s walk of P1's list and findZombieChild()'s recursion, made
\* later on other lists, terminate.
ListsEndAtPrompt == AtPrompt => \A p \in Procs : Ends(child[p], sibling)

\* The PROCs that wakeup() has put aside wait for other events.
AsideInv ==
  /\ ~InWakeup => temp = <<>>
  /\ InWakeup => \A p \in Members(temp) : event[p] # wevent

\* do_jesus() leaves no ZOMBIE behind it.
RaisedInv == mode = "jesus" => \A p \in Procs : p < jidx => status[p] # "ZOMBIE"

\* The ready queue is ordered by priority, and P0 has the lowest.
Ordered(pri, q) == \A i, j \in 1 .. Len(q) : i <= j => pri[q[i]] >= pri[q[j]]
OrderInv ==
  /\ Ordered(priority, readyQueue)
  /\ \A p \in Procs : status[p] # "FREE" => priority[p] = IF p = 0 THEN 0 ELSE 1

\* No sibling fields form a cycle, unless the walk that will follow it
\* forever is the next thing to happen or has begun.
NoCycles == \A p \in Procs : Ends(p, sibling)
ListsInv ==
  /\ resume[0] = "init" => child[0] = NULL
  /\ mode # "hang" /\ (InBody => AtPrompt) => NoCycles

\* The inductive invariant behind the action properties and ListsEndAtPrompt.
CallsInv == IInv /\ AsideInv /\ RaisedInv /\ OrderInv /\ ListsInv

\* wakeup() and do_jesus() come to an end: every kernel call gets back to the
\* prompt of some PROC.
CallsReturn == mode \in {"do_wakeup", "kexit", "jesus"} ~> mode = "body"

\* A parent asleep in kwait() is READY again once the child that exits has
\* got through kexit()'s wakeup().
ExitWakesParent ==
  \A p \in Procs :
    (/\ mode = "kexit" /\ parent[running] = p
     /\ status[p] = "SLEEP" /\ resume[p] = "kwait") ~> status[p] = "READY"

\* When do_jesus() returns, no PROC is a ZOMBIE, and no other call ever makes
\* a ZOMBIE run again.
JesusRaisesAll ==
  [][/\ mode = "jesus" /\ mode' = "body" => \A p \in Procs : status'[p] # "ZOMBIE"
     /\ \A p \in Procs : status[p] = "ZOMBIE" /\ status'[p] = "READY" => mode = "jesus"]_vars

-----------------------------------------------------------------------------
(***************************************************************************)
(* What the README and the comments say, and the code does not do.         *)
(***************************************************************************)

\* README (3), "give away children, if any, to P1" and "tswitch()": no walk of
\* a child list, in kexit() or at the prompt, goes on forever.
NoHang == mode # "hang"
=============================================================================
