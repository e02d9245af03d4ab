------------------------------ MODULE MutexSums ------------------------------
(***************************************************************************)
(* PreLab4, Part2.c: the threads add their rows into one total, which they *)
(* read, sleep on and write back inside a mutex.  main() does this several *)
(* times and counts the totals that differ from the first.                 *)
(***************************************************************************)
EXTENDS RowSums

CONSTANT Tests   \* how many times; 10 in the program

ASSUME TestsAssumption == Tests \in Nat \ {0}

VARIABLES total, m,      \* as in the program; m is who has the mutex, or Nobody
          temp,          \* temp[i]: the local variable of thread i
          at,            \* at[i]: where thread i is
          main2, turn,   \* main(): what it is at, and its loop variable
          count, answer, incorrectCount

mutexVars == <<total, m, temp, at, main2, turn, count, answer, incorrectCount>>

Nobody == M

MutexInit ==
  /\ total = 0 /\ m = Nobody
  /\ temp = [i \in Rows |-> 0] /\ at = [i \in Rows |-> "none"]
  /\ main2 = "create" /\ turn = 0
  /\ count = 1 /\ answer = 0 /\ incorrectCount = 0

-----------------------------------------------------------------------------
\* func(): the row sum is private to the thread.

\* Faulty variant: the thread does not wait for the mutex.
LockTaken(i) == TRUE
LockFree(i) == m = Nobody

Lock(i) ==
  /\ at[i] = "ready" /\ LockFree(i)
  /\ m' = i
  /\ at' = [at EXCEPT ![i] = "locked"]
  /\ UNCHANGED <<total, temp, main2, turn, count, answer, incorrectCount>>

ReadTotal(i) ==
  /\ at[i] = "locked"
  /\ temp' = [temp EXCEPT ![i] = Word(total + RowSum(i))]
  /\ at' = [at EXCEPT ![i] = "sleeps"]
  /\ UNCHANGED <<total, m, main2, turn, count, answer, incorrectCount>>

WriteTotal(i) ==
  /\ at[i] = "sleeps"
  /\ total' = temp[i]
  /\ at' = [at EXCEPT ![i] = "wrote"]
  /\ UNCHANGED <<m, temp, main2, turn, count, answer, incorrectCount>>

Unlock(i) ==
  /\ at[i] = "wrote"
  /\ m' = Nobody
  /\ at' = [at EXCEPT ![i] = "exited"]
  /\ UNCHANGED <<total, temp, main2, turn, count, answer, incorrectCount>>

Func2(i) == Lock(i) \/ ReadTotal(i) \/ WriteTotal(i) \/ Unlock(i)

-----------------------------------------------------------------------------
\* main()
Create2 ==
  /\ main2 = "create"
  /\ at' = [at EXCEPT ![turn] = "ready"]
  /\ IF turn + 1 < M THEN turn' = turn + 1 /\ UNCHANGED main2
                     ELSE turn' = 0 /\ main2' = "join"
  /\ UNCHANGED <<total, m, temp, count, answer, incorrectCount>>

Join2 ==
  /\ main2 = "join" /\ at[turn] = "exited"
  /\ IF turn + 1 < M THEN turn' = turn + 1 /\ UNCHANGED main2
                     ELSE turn' = 0 /\ main2' = "compare"
  /\ UNCHANGED <<total, m, temp, at, count, answer, incorrectCount>>

\* Faulty variant: the loop does not count.
CountKept == count
CountNext == count + 1

\* The end of a turn, and the total = 0 that begins the next.
Compare ==
  /\ main2 = "compare"
  /\ answer' = IF count = 1 THEN total ELSE answer
  /\ incorrectCount' = incorrectCount + IF count > 1 /\ total # answer THEN 1 ELSE 0
  /\ IF count < Tests
     THEN /\ count' = CountNext /\ total' = 0 /\ main2' = "create"
          /\ at' = [i \in Rows |-> "none"] /\ temp' = [i \in Rows |-> 0]
     ELSE main2' = "done" /\ UNCHANGED <<count, total, at, temp>>
  /\ UNCHANGED <<m, turn>>

MutexNext == Create2 \/ Join2 \/ Compare \/ \E i \in Rows : Func2(i)

MutexSpec == MutexInit /\ [][MutexNext]_mutexVars
=============================================================================
