------------------------------- MODULE Prelab4 -------------------------------
(***************************************************************************)
(* PreLab4: the script mk runs the three programs one after the other.     *)
(***************************************************************************)
EXTENDS MutexSums, WallClock

VARIABLE part   \* the program that runs, 4 after the last

vars == <<part, rowVars, mutexVars, clockVars>>

Init == part = 1 /\ RowInit /\ MutexInit /\ ClockInit

Part1 == part = 1 /\ RowNext /\ UNCHANGED <<part, mutexVars, clockVars>>
Part2 == part = 2 /\ MutexNext /\ UNCHANGED <<part, rowVars, clockVars>>
Part3 == part = 3 /\ ClockNext /\ UNCHANGED <<part, rowVars, mutexVars>>

ThisPartDone ==
  \/ part = 1 /\ main1 = "done"
  \/ part = 2 /\ main2 = "done"
  \/ part = 3 /\ ~running

NextPart ==
  /\ ThisPartDone /\ part' = part + 1
  /\ UNCHANGED <<rowVars, mutexVars, clockVars>>

Finished == part = 4 /\ UNCHANGED vars

Next == Part1 \/ Part2 \/ Part3 \/ NextPart \/ Finished

\* Threads and main() run on, the timer expires again and again, and a pending
\* signal is delivered.
Spec ==
  /\ Init /\ [][Next]_vars
  /\ WF_vars(Part1) /\ WF_vars(Part2) /\ WF_vars(NextPart)
  /\ WF_vars(part = 3 /\ Expire /\ UNCHANGED <<part, rowVars, mutexVars>>)
  /\ WF_vars(part = 3 /\ TimerHandler /\ UNCHANGED <<part, rowVars, mutexVars>>)

-----------------------------------------------------------------------------
(***************************************************************************)
(* Properties                                                              *)
(***************************************************************************)

\* The sum of the rows, from the formula for the sum of 1 .. N.
MatrixSum == M * ((N * (N + 1)) \div 2) + N * ((M * (M - 1)) \div 2)

\* While a thread sleeps on the total it has read, nobody writes it: what it
\* will write back is the total with its row added.
NoLostUpdate == \A i \in Rows : at[i] = "sleeps" => temp[i] = Word(total + RowSum(i))

\* What Part1 prints is the sum of the matrix, up to the width of a long: main
\* reads no sum[i] before thread i has written it.  Every test of Part2 ends with
\* that sum too, so that no total is counted as incorrect ("Verify total is
\* CORRECT no matter how long a thread executes inside the CR").
TotalsCorrect ==
  /\ main1 = "done" => rowTotal = Word(MatrixSum)
  /\ main2 = "compare" => total = Word(MatrixSum)
  /\ incorrectCount = 0

\* The clock of Part3 is behind real time by exactly the signals that were
\* merged or still wait for delivery, across all carries, and each of its
\* seconds has been displayed once.
ClockTime ==
  ((clock.hh * SIXTY + clock.mm) * SIXTY + clock.ss) * USEC_IN_SEC + clock.uss
ClockLags ==
  /\ timerStarted =>
       ClockTime = elapsed - INTERVAL * (merged + IF pending THEN 1 ELSE 0)
  /\ tick = ClockTime \div USEC_IN_SEC

\* The three programs come to their end.
PartsEnd == <>(part = 4)
=============================================================================
