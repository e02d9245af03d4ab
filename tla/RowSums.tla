------------------------------- MODULE RowSums -------------------------------
(***************************************************************************)
(* PreLab4, Part1.c: M threads sum the rows of a matrix into sum[], main   *)
(* joins them and adds.  int and long are words of WORD values (gcc -m32). *)
(***************************************************************************)
EXTENDS Integers

CONSTANTS M,     \* rows, and threads
          N,     \* columns
          WORD   \* 2^32: how many values a word has

ASSUME MatrixAssumption == M \in Nat \ {0} /\ N \in Nat /\ WORD \in Nat \ {0, 1}

Rows == 0 .. M - 1

\* A word that has overflowed wraps around.
Word(x) == ((x + WORD \div 2) % WORD) - WORD \div 2

\* The matrix as main() initialises it, and the loop of a thread.
A(i, j) == Word(i + j + 1)
PartialSum[j \in 0 .. N] ==   \* mysum of each thread after j columns
  [i \in Rows |-> IF j = 0 THEN 0 ELSE Word(PartialSum[j - 1][i] + A(i, j - 1))]
RowSum(i) == PartialSum[N][i]

VARIABLES sum,      \* as in the program
          rowTotal, \* total
          thread,   \* thread[i]: "none", "runs" or "exited"
          main1,    \* what main() is at: "create", "join", "add" or "done"
          row       \* the loop variable of main()

rowVars == <<sum, rowTotal, thread, main1, row>>

RowInit ==
  /\ sum = [i \in Rows |-> 0] /\ rowTotal = 0
  /\ thread = [i \in Rows |-> "none"]
  /\ main1 = "create" /\ row = 0

\* func()
Func1(i) ==
  /\ thread[i] = "runs"
  /\ sum' = [sum EXCEPT ![i] = RowSum(i)]
  /\ thread' = [thread EXCEPT ![i] = "exited"]
  /\ UNCHANGED <<rowTotal, main1, row>>

Create1 ==
  /\ main1 = "create"
  /\ thread' = [thread EXCEPT ![row] = "runs"]
  /\ IF row + 1 < M THEN row' = row + 1 /\ UNCHANGED main1
                    ELSE row' = 0 /\ main1' = "join"
  /\ UNCHANGED <<sum, rowTotal>>

\* Faulty variant: the loop stops one thread short.
JoinedButOne == row + 2 >= M
\* The thread just joined is the last one.
JoinedAll == row + 1 = M

Join1 ==
  /\ main1 = "join" /\ thread[row] = "exited"
  /\ IF JoinedAll THEN row' = 0 /\ main1' = "add"
                  ELSE row' = row + 1 /\ UNCHANGED main1
  /\ UNCHANGED <<sum, rowTotal, thread>>

Add1 ==
  /\ main1 = "add"
  /\ rowTotal' = Word(rowTotal + sum[row])
  /\ IF row + 1 < M THEN row' = row + 1 /\ UNCHANGED main1
                    ELSE row' = 0 /\ main1' = "done"
  /\ UNCHANGED <<sum, thread>>

RowNext == Create1 \/ Join1 \/ Add1 \/ \E i \in Rows : Func1(i)
=============================================================================
