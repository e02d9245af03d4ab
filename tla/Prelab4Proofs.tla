---------------------------- MODULE Prelab4Proofs ----------------------------
(***************************************************************************)
(* PreLab4 for every matrix, word, number of tests and clock: Part2 loses  *)
(* no update, both programs compute the sum of the matrix, and the clock   *)
(* of Part3 is exact.                                                      *)
(***************************************************************************)
EXTENDS Prelab4, NumberLemmas

-----------------------------------------------------------------------------
(***************************************************************************)
(* Words, and what the loop over a row computes.                           *)
(***************************************************************************)

\* A word is its argument up to a multiple of WORD.
LEMMA WordWraps ==
  ASSUME NEW x \in Int
  PROVE  \E k \in Int : Word(x) = x + WORD * k /\ Word(x) + WORD \div 2 \in 0 .. WORD - 1
<1>1. WORD \in Nat \ {0}
  BY MatrixAssumption
<1>2. PICK h \in Int : h = WORD \div 2
  BY <1>1
<1>3. PICK q \in Int, r \in 0 .. WORD - 1 : r = (x + h) % WORD /\ x + h = WORD * q + r
  BY <1>1, DivMod
<1>4. Word(x) = r - h
  BY <1>2, <1>3 DEF Word
<1>5. WORD * (-q) = -(WORD * q) /\ WORD * q \in Int
  BY <1>1
<1>6. Word(x) = x + WORD * (-q)
  BY <1>1, <1>3, <1>4, <1>5
<1>7. Word(x) + h = r
  BY <1>1, <1>4
<1> QED BY <1>2, <1>6, <1>7

\* Two numbers that differ by a multiple of WORD are the same word.
LEMMA SameWord ==
  ASSUME NEW x \in Int, NEW y \in Int, NEW k \in Int, y = x + WORD * k
  PROVE  Word(y) = Word(x)
<1>1. WORD \in Nat \ {0} /\ WORD \in Int
  BY MatrixAssumption
<1>2. PICK h \in Int : h = WORD \div 2
  BY <1>1
<1>3. PICK a \in Int : Word(x) = x + WORD * a /\ Word(x) + h \in 0 .. WORD - 1
  BY <1>2, WordWraps
<1>4. PICK b \in Int : Word(y) = y + WORD * b /\ Word(y) + h \in 0 .. WORD - 1
  BY <1>2, WordWraps
<1>5. PICK u \in Int, v \in Int : u = Word(x) /\ v = Word(y)
  <2>1. WORD * a \in Int /\ WORD * b \in Int
    BY <1>1
  <2> QED BY <1>3, <1>4, <2>1
<1>6. WORD * a + v = WORD * (k + b) + u
  <2>1. /\ WORD * a \in Int /\ WORD * b \in Int /\ WORD * k \in Int
        /\ WORD * (k + b) = WORD * k + WORD * b
    BY <1>1, Distribute
  <2> QED BY <1>3, <1>4, <1>5, <2>1
<1>7. WORD * a + (v + h) = WORD * (k + b) + (u + h)
  <2>1. WORD * a \in Int /\ WORD * (k + b) \in Int
    BY <1>1
  <2> QED BY <1>6, <2>1
<1>8. u + h \in 0 .. WORD - 1 /\ v + h \in 0 .. WORD - 1
  BY <1>3, <1>4, <1>5
<1>9. v + h = u + h
  BY <1>1, <1>7, <1>8, SameMultiple
<1>10. u = v
  BY <1>9
<1> QED BY <1>5, <1>10

\* Wrapping the terms of a sum changes nothing of the word.
LEMMA WordSum ==
  ASSUME NEW x \in Int, NEW y \in Int
  PROVE  Word(x) \in Int /\ Word(Word(x) + y) = Word(x + y) /\ Word(x + Word(y)) = Word(x + y)
<1>1. WORD \in Int
  BY MatrixAssumption
<1>2. PICK a \in Int : Word(x) = x + WORD * a
  BY WordWraps
<1>3. PICK b \in Int : Word(y) = y + WORD * b
  BY WordWraps
<1>4. WORD * a \in Int /\ WORD * b \in Int
  BY <1>1
<1>5. Word(x) \in Int /\ Word(y) \in Int
  BY <1>2, <1>3, <1>4
<1>6. Word(x) + y = (x + y) + WORD * a /\ x + Word(y) = (x + y) + WORD * b
  BY <1>2, <1>3, <1>4
<1>7. Word(Word(x) + y) = Word(x + y)
  BY <1>5, <1>6, SameWord
<1>8. Word(x + Word(y)) = Word(x + y)
  BY <1>5, <1>6, SameWord
<1> QED BY <1>5, <1>7, <1>8

\* The total starts as the word 0.
LEMMA WordZero == Word(0) = 0
<1>1. PICK h \in Int : h = WORD \div 2 /\ 0 <= h /\ h < WORD
  BY MatrixAssumption
<1>2. h % WORD = h
  BY <1>1, MatrixAssumption
<1> QED BY <1>1, <1>2 DEF Word

\* The sum of 0 .. n - 1.
Triangle(n) == (n * (n - 1)) \div 2

\* One more number in the sum of 0 .. n - 1.
LEMMA TriangleNext ==
  ASSUME NEW n \in Int
  PROVE  Triangle(n) \in Int /\ Triangle(n + 1) = Triangle(n) + n
<1>1. PICK p \in Int : p = n * (n - 1)
  OBVIOUS
<1>2. (n + 1) * ((n + 1) - 1) = p + (n + n)
  <2>1. (n + 1) * n = n * n + n /\ n * (n - 1) = n * n - n /\ n * n \in Int /\ (n + 1) - 1 = n
    OBVIOUS
  <2> QED BY <1>1, <2>1
<1>3. p \div 2 \in Int /\ (p + (n + n)) \div 2 = p \div 2 + n
  OBVIOUS
<1> QED BY <1>1, <1>2, <1>3 DEF Triangle

\* The first j columns of row i, and the first k rows.
RowTo(i, j) == i * j + Triangle(j + 1)
RowsTo(k) == k * Triangle(N + 1) + N * Triangle(k)

\* One more column.
LEMMA RowToNext ==
  ASSUME NEW i \in Int, NEW j \in Int
  PROVE  RowTo(i, j) \in Int /\ RowTo(i, j + 1) = RowTo(i, j) + (i + j + 1)
<1>1. /\ Triangle(j + 1) \in Int /\ Triangle((j + 1) + 1) = Triangle(j + 1) + (j + 1)
  BY TriangleNext
<1>2. i * (j + 1) = i * j + i /\ i * j \in Int
  BY Distribute
<1> QED BY <1>1, <1>2 DEF RowTo

\* One more row.
LEMMA RowsToNext ==
  ASSUME NEW k \in Int
  PROVE  RowsTo(k) \in Int /\ RowTo(k, N) \in Int /\ RowsTo(k + 1) = RowsTo(k) + RowTo(k, N)
<1>1. N \in Int
  BY MatrixAssumption
<1>2. PICK t \in Int, u \in Int : t = Triangle(N + 1) /\ u = Triangle(k)
  BY <1>1, TriangleNext
<1>3. Triangle(k + 1) = u + k
  BY <1>2, TriangleNext
<1>4. /\ (k + 1) * t = k * t + t /\ N * (u + k) = N * u + N * k
      /\ k * t \in Int /\ N * u \in Int /\ N * k \in Int /\ k * N = N * k
  BY <1>1, Distribute
<1>5. RowsTo(k + 1) = (k + 1) * t + N * (u + k)
  BY <1>2, <1>3 DEF RowsTo
<1>6. RowsTo(k) = k * t + N * u
  BY <1>2 DEF RowsTo
<1>7. RowTo(k, N) = k * N + t
  BY <1>2 DEF RowTo
<1> QED BY <1>2, <1>4, <1>5, <1>6, <1>7

\* No row and all rows.
LEMMA RowsToEnds == RowsTo(0) = 0 /\ RowsTo(M) = MatrixSum
<1>1. N \in Nat /\ M \in Nat
  BY MatrixAssumption
<1>2. Triangle(0) = 0
  BY DEF Triangle
<1>3. Triangle(N + 1) \in Int
  BY <1>1, TriangleNext
<1>4. RowsTo(0) = 0
  BY <1>1, <1>2, <1>3 DEF RowsTo
<1>5. (N + 1) * ((N + 1) - 1) = N * (N + 1)
  BY <1>1
<1>6. Triangle(N + 1) = (N * (N + 1)) \div 2
  BY <1>5 DEF Triangle
<1>7. RowsTo(M) = MatrixSum
  BY <1>6 DEF RowsTo, MatrixSum, Triangle
<1> QED BY <1>4, <1>7

\* The loop of a thread: what the recursion defines exists, since the closed
\* form satisfies it, and is the closed form.
Sums(f) == f = [j \in 0 .. N |-> [i \in Rows |->
                  IF j = 0 THEN 0 ELSE Word(f[j - 1][i] + A(i, j - 1))]]

\* One turn of the loop in func().
LEMMA ColumnSum ==
  ASSUME NEW i \in Int, NEW j \in Int
  PROVE  Word(Word(RowTo(i, j)) + A(i, j)) = Word(RowTo(i, j + 1))
<1>1. RowTo(i, j) \in Int /\ RowTo(i, j + 1) = RowTo(i, j) + (i + j + 1)
  BY RowToNext
<1>2. PICK x \in Int, y \in Int : x = RowTo(i, j) /\ y = i + j + 1
  BY <1>1
<1>3. Word(Word(x) + Word(y)) = Word(x + y)
  <2>1. Word(x) \in Int
    BY WordSum
  <2>2. Word(Word(x) + Word(y)) = Word(Word(x) + y)
    BY <2>1, WordSum
  <2> QED BY <2>2, WordSum
<1> QED BY <1>1, <1>2, <1>3 DEF A

\* mysum before the loop.
LEMMA RowToZero == ASSUME NEW i \in Int PROVE Word(RowTo(i, 0)) = 0
<1>1. Triangle(0 + 1) = 0
  BY DEF Triangle
<1>2. RowTo(i, 0) = 0
  BY <1>1 DEF RowTo
<1> QED BY <1>2, WordZero

\* The recursion that defines PartialSum has a solution.
LEMMA PartialSumIs == Sums(PartialSum)
<1> DEFINE g == [j \in 0 .. N |-> [i \in Rows |-> Word(RowTo(i, j))]]
<1>1. ASSUME NEW i \in Rows, NEW j \in 0 .. N
      PROVE  g[j][i] = IF j = 0 THEN 0 ELSE Word(g[j - 1][i] + A(i, j - 1))
  <2>0. i \in Int /\ j \in Int /\ N \in Nat
    BY MatrixAssumption DEF Rows
  <2>1. CASE j = 0
    BY <2>0, <2>1, RowToZero
  <2>2. CASE j # 0
    <3>1. j - 1 \in 0 .. N /\ j - 1 \in Int /\ (j - 1) + 1 = j
      BY <2>0, <2>2
    <3>2. g[j - 1][i] = Word(RowTo(i, j - 1)) /\ g[j][i] = Word(RowTo(i, j))
      BY <3>1
    <3>3. Word(Word(RowTo(i, j - 1)) + A(i, j - 1)) = Word(RowTo(i, j))
      <4>1. PICK k \in Int : k = j - 1 /\ k + 1 = j
        BY <3>1
      <4>2. Word(Word(RowTo(i, k)) + A(i, k)) = Word(RowTo(i, k + 1))
        BY <2>0, ColumnSum
      <4> QED BY <4>1, <4>2
    <3> QED BY <2>2, <3>2, <3>3
  <2> QED BY <2>1, <2>2
<1>2. Sums(g)
  BY <1>1 DEF Sums
<1>3. \E f : Sums(f)
  BY <1>2
<1> QED BY <1>3, Zenon DEF Sums, PartialSum

\* What a thread computes: the sum of its row, as a word.
LEMMA RowSumIs ==
  ASSUME NEW i \in Rows
  PROVE  RowSum(i) = Word(RowTo(i, N)) /\ RowTo(i, N) \in Int
<1>1. N \in Nat /\ i \in Int
  BY MatrixAssumption DEF Rows
<1> DEFINE S == {j \in Nat : j <= N => PartialSum[j][i] = Word(RowTo(i, j))}
<1>2. 0 \in S
  <2>1. 0 \in 0 .. N
    BY <1>1
  <2>2. PartialSum[0][i] = 0
    BY <2>1, PartialSumIs DEF Sums
  <2> QED BY <1>1, <2>2, RowToZero
<1>3. ASSUME NEW j \in Nat, j \in S PROVE j + 1 \in S
  <2>1. SUFFICES ASSUME j + 1 <= N PROVE PartialSum[j + 1][i] = Word(RowTo(i, j + 1))
    OBVIOUS
  <2>2. j + 1 \in 0 .. N /\ j + 1 # 0 /\ (j + 1) - 1 = j /\ j <= N
    BY <1>1, <2>1
  <2>3. PartialSum[j + 1][i] = Word(PartialSum[(j + 1) - 1][i] + A(i, (j + 1) - 1))
    BY <2>2, PartialSumIs DEF Sums
  <2>4. PartialSum[j + 1][i] = Word(PartialSum[j][i] + A(i, j))
    BY <2>2, <2>3
  <2>5. PartialSum[j][i] = Word(RowTo(i, j))
    BY <1>3, <2>2
  <2> QED BY <1>1, <2>4, <2>5, ColumnSum
<1> HIDE DEF S
<1>4. N \in S
  BY <1>1, <1>2, <1>3, NaturalsIn
<1> QED BY <1>1, <1>4, RowToNext DEF S, RowSum

\* Adding a row to a word.
LEMMA AddRow ==
  ASSUME NEW i \in Rows, NEW x \in Int
  PROVE  Word(Word(x) + RowSum(i)) = Word(x + RowTo(i, N))
<1>1. RowSum(i) = Word(RowTo(i, N)) /\ RowTo(i, N) \in Int
  BY RowSumIs
<1>2. PICK r \in Int : r = RowTo(i, N)
  BY <1>1
<1>3. Word(x) \in Int
  BY WordSum
<1>4. Word(Word(x) + Word(r)) = Word(Word(x) + r)
  BY <1>3, WordSum
<1>5. Word(Word(x) + r) = Word(x + r)
  BY WordSum
<1> QED BY <1>1, <1>2, <1>4, <1>5

-----------------------------------------------------------------------------
(***************************************************************************)
(* Part1: main has joined the threads below row, and added the rows below. *)
(***************************************************************************)
RowInv ==
  /\ row \in Rows /\ main1 \in {"create", "join", "add", "done"}
  /\ thread \in [Rows -> {"none", "runs", "exited"}]
  /\ sum = [i \in Rows |-> sum[i]]
  /\ \A i \in Rows : thread[i] = "exited" => sum[i] = RowSum(i)
  /\ main1 = "create" => \A i \in Rows : i >= row => thread[i] = "none"
  /\ main1 = "join" => \A i \in Rows : i < row => thread[i] = "exited"
  /\ main1 \in {"add", "done"} => \A i \in Rows : thread[i] = "exited"
  /\ main1 \in {"create", "join"} => rowTotal = 0
  /\ main1 = "add" => rowTotal = Word(RowsTo(row))
  /\ main1 = "done" => rowTotal = Word(RowsTo(M))

\* main() of Part1 starts with no thread and no total.
LEMMA RowInitInv == RowInit => RowInv
  BY MatrixAssumption DEF RowInit, RowInv, Rows

\* Every step of Part1 keeps the invariant.
LEMMA RowStepInv == ASSUME RowInv, RowNext PROVE RowInv'
<1>0. M \in Nat \ {0} /\ Rows = 0 .. M - 1 /\ row \in Int /\ row \in Rows /\ 0 \in Rows
  BY MatrixAssumption DEF Rows, RowInv
<1>1. ASSUME NEW k \in Rows, Func1(k) PROVE RowInv'
  BY <1>1 DEF RowInv, Func1
<1>2. CASE Create1
  <2>1. CASE row + 1 < M
    BY <1>0, <1>2, <2>1 DEF RowInv, Create1
  <2>2. CASE ~(row + 1 < M)
    BY <1>0, <1>2, <2>2 DEF RowInv, Create1
  <2> QED BY <2>1, <2>2
<1>3. CASE Join1
  <2>1. CASE row + 1 = M
    <3>1. row' = 0 /\ main1' = "add" /\ UNCHANGED <<sum, rowTotal, thread>>
      BY <1>3, <2>1 DEF Join1, JoinedAll
    <3>2. \A i \in Rows : thread[i] = "exited"
      <4>1. \A i \in Rows : i < row \/ i = row
        BY <1>0, <2>1
      <4> QED BY <1>3, <4>1 DEF Join1, RowInv
    <3>3. rowTotal' = Word(RowsTo(row'))
      BY <1>3, <3>1, RowsToEnds, WordZero DEF Join1, RowInv
    <3> QED BY <1>0, <3>1, <3>2, <3>3 DEF RowInv
  <2>2. CASE row + 1 # M
    <3>1. row' = row + 1 /\ UNCHANGED <<sum, rowTotal, thread, main1>> /\ main1 = "join"
      BY <1>3, <2>2 DEF Join1, JoinedAll
    <3>2. row' \in Rows /\ \A i \in Rows : i < row' => i < row \/ i = row
      BY <1>0, <2>2, <3>1 DEF RowInv
    <3> QED BY <1>3, <3>1, <3>2 DEF RowInv, Join1
  <2> QED BY <2>1, <2>2
<1>4. CASE Add1
  <2>1. /\ main1 = "add" /\ UNCHANGED <<sum, thread>> /\ rowTotal' = Word(rowTotal + sum[row])
        /\ \A i \in Rows : thread[i] = "exited"
    BY <1>4 DEF Add1, RowInv
  <2>2. rowTotal' = Word(RowsTo(row + 1))
    <3>1. rowTotal = Word(RowsTo(row)) /\ sum[row] = RowSum(row) /\ row \in Rows
      BY <2>1 DEF RowInv
    <3>2. RowsTo(row) \in Int /\ RowsTo(row + 1) = RowsTo(row) + RowTo(row, N)
      BY <1>0, RowsToNext
    <3> QED BY <2>1, <3>1, <3>2, AddRow
  <2>3. CASE row + 1 < M
    <3>1. row' = row + 1 /\ UNCHANGED main1 /\ row' \in Rows
      BY <1>0, <1>4, <2>3 DEF Add1
    <3> QED BY <2>1, <2>2, <3>1 DEF RowInv
  <2>4. CASE ~(row + 1 < M)
    <3>1. row' = 0 /\ main1' = "done" /\ row + 1 = M
      BY <1>0, <1>4, <2>4 DEF Add1
    <3> QED BY <1>0, <2>1, <2>2, <3>1 DEF RowInv
  <2> QED BY <2>3, <2>4
<1> QED BY <1>1, <1>2, <1>3, <1>4 DEF RowNext

-----------------------------------------------------------------------------
(***************************************************************************)
(* NoLostUpdate is not inductive by itself: a thread that sleeps must also *)
(* be known to hold the mutex, and a thread that writes the total to be    *)
(* the one that holds it.                                                  *)
(***************************************************************************)
InRegion == {"locked", "sleeps", "wrote"}

\* The fields the argument needs to be functions over the threads.
Threads ==
  /\ at \in [Rows -> {"none", "ready", "exited"} \union InRegion]
  /\ temp = [i \in Rows |-> temp[i]]

\* Whoever is inside the critical region of func() holds the mutex.
HoldsMutex == \A i \in Rows : at[i] \in InRegion => m = i

MutexInv == Threads /\ HoldsMutex /\ NoLostUpdate

\* Before Part2 begins no thread of it exists.
LEMMA MutexInitInv == MutexInit => MutexInv
  BY DEF MutexInit, MutexInv, Threads, HoldsMutex, NoLostUpdate, InRegion

\* A step of func() keeps the invariant: only the holder of the mutex reads
\* and writes the total.
LEMMA Func2Inv ==
  ASSUME MutexInv, NEW k \in Rows, Func2(k)
  PROVE  MutexInv'
<1> USE DEF MutexInv, Threads, HoldsMutex, InRegion
<1>1. CASE Lock(k)
  <2>1. m = Nobody /\ m' = k /\ at' = [at EXCEPT ![k] = "locked"]
    BY <1>1 DEF Lock, LockFree
  <2>2. \A i \in Rows : at[i] \notin InRegion
    BY <2>1, MatrixAssumption DEF Nobody, Rows
  <2>3. Threads' /\ HoldsMutex'
    BY <1>1, <2>1, <2>2 DEF Lock
  <2>4. NoLostUpdate'
    BY <1>1, <2>1, <2>2 DEF Lock, NoLostUpdate
  <2> QED BY <2>3, <2>4
<1>2. CASE ReadTotal(k)
  <2>1. Threads' /\ HoldsMutex'
    BY <1>2 DEF ReadTotal
  <2>2. NoLostUpdate'
    BY <1>2 DEF ReadTotal, NoLostUpdate
  <2> QED BY <2>1, <2>2
<1>3. CASE WriteTotal(k)
  <2>1. Threads' /\ HoldsMutex'
    BY <1>3 DEF WriteTotal
  <2>2. \A i \in Rows : at'[i] # "sleeps"
    BY <1>3 DEF WriteTotal
  <2>3. NoLostUpdate'
    BY <2>2 DEF NoLostUpdate
  <2> QED BY <2>1, <2>3
<1>4. CASE Unlock(k)
  <2>1. \A i \in Rows : at'[i] \notin InRegion
    BY <1>4 DEF Unlock
  <2>2. Threads' /\ HoldsMutex'
    BY <1>4, <2>1 DEF Unlock
  <2>3. NoLostUpdate'
    BY <2>1 DEF NoLostUpdate
  <2> QED BY <2>2, <2>3
<1> QED BY <1>1, <1>2, <1>3, <1>4 DEF Func2

\* A step of main() keeps it: a thread that is created or joined is outside
\* the critical region, and the total is reset when there is no thread left.
LEMMA Main2Inv ==
  ASSUME MutexInv, Create2 \/ Join2 \/ Compare
  PROVE  MutexInv'
<1> USE DEF MutexInv, Threads, HoldsMutex, InRegion, NoLostUpdate
<1>1. CASE Create2
  BY <1>1 DEF Create2
<1>2. CASE Join2
  BY <1>2 DEF Join2
<1>3. CASE Compare /\ count < Tests
  BY <1>3 DEF Compare
<1>4. CASE Compare /\ ~(count < Tests)
  BY <1>4 DEF Compare
<1> QED BY <1>1, <1>2, <1>3, <1>4

\* A step that leaves Part2 alone.
LEMMA OtherPartsInv ==
  ASSUME MutexInv, UNCHANGED mutexVars
  PROVE  MutexInv'
  BY DEF MutexInv, Threads, HoldsMutex, NoLostUpdate, mutexVars

\* Part2.c loses no update of total: while a thread sleeps inside the critical
\* region nobody else writes what it has read.
THEOREM UpdatesKept == Spec => []NoLostUpdate
<1>1. Init => MutexInv
  BY MutexInitInv DEF Init
<1>2. MutexInv /\ [Next]_vars => MutexInv'
  <2> SUFFICES ASSUME MutexInv, [Next]_vars PROVE MutexInv'
    OBVIOUS
  <2>1. CASE Part2
    BY <2>1, Func2Inv, Main2Inv DEF Part2, MutexNext
  <2>2. CASE ~Part2
    <3>1. UNCHANGED mutexVars
      BY <2>2 DEF Next, Part1, Part3, NextPart, Finished, vars
    <3> QED BY <3>1, OtherPartsInv
  <2> QED BY <2>1, <2>2
<1>3. MutexInv => NoLostUpdate
  BY DEF MutexInv
<1> QED BY <1>1, <1>2, <1>3, PTL DEF Spec

-----------------------------------------------------------------------------
(***************************************************************************)
(* Part2: the total is the sum of the rows that have been written, in      *)
(* whatever order that happened; f adds them up row by row.                *)
(***************************************************************************)
Written(i) == at[i] \in {"wrote", "exited"}
Adds(f) ==
  /\ f \in [0 .. M -> Int] /\ f[0] = 0
  /\ \A i \in Rows : f[i + 1] = f[i] + IF Written(i) THEN RowTo(i, N) ELSE 0

TotalInv ==
  /\ \E f : Adds(f) /\ total = Word(f[M])
  /\ turn \in Rows /\ main2 \in {"create", "join", "compare", "done"}
  /\ main2 = "create" => \A i \in Rows : i >= turn => at[i] = "none"
  /\ main2 = "join" => \A i \in Rows : i < turn => at[i] = "exited"
  /\ main2 \in {"compare", "done"} => \A i \in Rows : at[i] = "exited"
  /\ count \in Nat \ {0}
  /\ count > 1 => answer = Word(MatrixSum)
  /\ incorrectCount = 0

\* The positions of f.
LEMMA RowPositions ==
  /\ M \in Nat \ {0} /\ Rows = 0 .. M - 1 /\ 0 \in Rows /\ 0 \in 0 .. M /\ M \in 0 .. M
  /\ \A i \in Rows : i \in 0 .. M /\ i + 1 \in 0 .. M /\ i \in Int
  BY MatrixAssumption DEF Rows

\* No row is written when no thread has got that far.
LEMMA AddsNothing ==
  ASSUME \A i \in Rows : ~Written(i)
  PROVE  \E f : Adds(f) /\ Word(f[M]) = 0
<1> DEFINE f == [j \in 0 .. M |-> 0]
<1>1. Adds(f)
  BY RowPositions DEF Adds
<1>2. Word(f[M]) = 0
  BY RowPositions, WordZero
<1> QED BY <1>1, <1>2

\* When every row is written they add up to the matrix.
LEMMA AddsAll ==
  ASSUME NEW f, Adds(f), \A i \in Rows : Written(i)
  PROVE  f[M] = MatrixSum
<1> DEFINE S == {j \in Nat : j <= M => f[j] = RowsTo(j)}
<1>1. 0 \in S
  BY RowsToEnds DEF Adds
<1>2. ASSUME NEW j \in Nat, j \in S PROVE j + 1 \in S
  <2>1. SUFFICES ASSUME j + 1 <= M PROVE f[j + 1] = RowsTo(j + 1)
    OBVIOUS
  <2>2. j \in Rows /\ j <= M
    BY <2>1, RowPositions
  <2>3. f[j] = RowsTo(j)
    BY <1>2, <2>2
  <2>4. f[j + 1] = f[j] + RowTo(j, N)
    BY <2>2 DEF Adds
  <2> QED BY <2>3, <2>4, RowsToNext
<1> HIDE DEF S
<1>3. M \in S
  BY <1>1, <1>2, NaturalsIn, RowPositions
<1> QED BY <1>3, RowPositions, RowsToEnds DEF S

\* Writing row k adds it to every sum beyond it.
LEMMA AddsOne ==
  ASSUME NEW f, Adds(f), NEW k \in Rows, ~Written(k), Written(k)',
         \A i \in Rows \ {k} : Written(i)' <=> Written(i)
  PROVE  \E g : Adds(g)' /\ g[M] = f[M] + RowTo(k, N)
<1>1. PICK r \in Int : r = RowTo(k, N)
  BY RowSumIs
<1> DEFINE g == [j \in 0 .. M |-> f[j] + IF j > k THEN r ELSE 0]
<1>2. g \in [0 .. M -> Int] /\ g[0] = 0 /\ g[M] = f[M] + r
  BY RowPositions DEF Adds
<1>3. ASSUME NEW i \in Rows
      PROVE  g[i + 1] = g[i] + IF Written(i)' THEN RowTo(i, N) ELSE 0
  <2>0. /\ i \in 0 .. M /\ i + 1 \in 0 .. M /\ i \in Int /\ k \in Int
        /\ f[i] \in Int /\ f[i + 1] \in Int
    BY RowPositions DEF Adds
  <2>1. CASE i = k
    <3>1. g[i + 1] = f[i + 1] + r /\ g[i] = f[i] + 0
      BY <2>0, <2>1
    <3>2. f[i + 1] = f[i] + 0
      BY <2>1 DEF Adds
    <3> QED BY <1>1, <2>0, <2>1, <3>1, <3>2
  <2>2. CASE i # k
    <3>1. PICK w \in Int : w = IF Written(i) THEN RowTo(i, N) ELSE 0
      BY RowSumIs
    <3>2. f[i + 1] = f[i] + w /\ w = IF Written(i)' THEN RowTo(i, N) ELSE 0
      BY <2>2, <3>1 DEF Adds
    <3>3. CASE i > k
      <4>1. g[i + 1] = f[i + 1] + r /\ g[i] = f[i] + r
        BY <2>0, <3>3
      <4>2. g[i + 1] = g[i] + w
        BY <2>0, <3>2, <4>1
      <4> QED BY <3>2, <4>2
    <3>4. CASE ~(i > k)
      <4>1. g[i + 1] = f[i + 1] + 0 /\ g[i] = f[i] + 0
        BY <2>0, <2>2, <3>4
      <4>2. g[i + 1] = g[i] + w
        BY <2>0, <3>2, <4>1
      <4> QED BY <3>2, <4>2
    <3> QED BY <3>3, <3>4
  <2> QED BY <2>1, <2>2
<1> HIDE DEF g
<1>4. Adds(g)'
  BY <1>2, <1>3 DEF Adds
<1> QED BY <1>1, <1>2, <1>4

\* A step that writes no row.
LEMMA AddsKept ==
  ASSUME TotalInv, UNCHANGED total, \A i \in Rows : Written(i)' <=> Written(i)
  PROVE  (\E f : Adds(f) /\ total = Word(f[M]))'
<1>1. PICK f : Adds(f) /\ total = Word(f[M])
  BY DEF TotalInv
<1>2. Adds(f)'
  BY <1>1 DEF Adds
<1> QED BY <1>1, <1>2

\* A step of func() of Part2: only the write adds a row, and it adds the row to
\* the total the thread read, since nobody wrote in between.
LEMMA Func2Total ==
  ASSUME TotalInv, MutexInv, NEW k \in Rows, Func2(k)
  PROVE  TotalInv'
<1>1. UNCHANGED <<main2, turn, count, answer, incorrectCount>>
  BY DEF Func2, Lock, ReadTotal, WriteTotal, Unlock
<1>2. /\ at' = [at EXCEPT ![k] = at'[k]] /\ at[k] \notin {"none", "exited"}
      /\ at'[k] # "none" /\ at \in [Rows -> {"none", "ready", "exited"} \union InRegion]
  BY DEF Func2, Lock, ReadTotal, WriteTotal, Unlock, MutexInv, Threads
<1>3. (\E f : Adds(f) /\ total = Word(f[M]))'
  <2>1. CASE WriteTotal(k)
    <3>1. PICK f : Adds(f) /\ total = Word(f[M])
      BY DEF TotalInv
    <3>2. ~Written(k) /\ Written(k)' /\ \A i \in Rows \ {k} : Written(i)' <=> Written(i)
      BY <1>2, <2>1 DEF WriteTotal, Written
    <3>3. PICK g : Adds(g)' /\ g[M] = f[M] + RowTo(k, N)
      BY <3>1, <3>2, AddsOne
    <3>4. total' = Word(total + RowSum(k))
      BY <2>1 DEF WriteTotal, MutexInv, NoLostUpdate
    <3>5. f[M] \in Int
      BY <3>1, RowPositions DEF Adds
    <3>6. total' = Word(g[M])
      BY <3>1, <3>3, <3>4, <3>5, AddRow
    <3> QED BY <3>3, <3>6
  <2>2. CASE ~WriteTotal(k)
    <3>1. UNCHANGED total /\ \A i \in Rows : Written(i)' <=> Written(i)
      BY <1>2, <2>2 DEF Func2, Lock, ReadTotal, Unlock, Written
    <3> QED BY <3>1, AddsKept
  <2> QED BY <2>1, <2>2
<1> QED BY <1>1, <1>2, <1>3 DEF TotalInv

\* A step of main() of Part2: it compares when all rows are written.
LEMMA Main2Total ==
  ASSUME TotalInv, MutexInv, Create2 \/ Join2 \/ Compare
  PROVE  TotalInv'
<1>0. /\ turn \in Rows /\ turn \in Int
      /\ at \in [Rows -> {"none", "ready", "exited"} \union InRegion]
  BY RowPositions DEF TotalInv, MutexInv, Threads
<1>1. CASE Create2
  <2>1. /\ UNCHANGED <<total, count, answer, incorrectCount>> /\ at' = [at EXCEPT ![turn] = "ready"]
        /\ at[turn] = "none" /\ \A i \in Rows : i >= turn => at[i] = "none"
    BY <1>0, <1>1 DEF Create2, TotalInv
  <2>2. (\E f : Adds(f) /\ total = Word(f[M]))'
    <3>1. \A i \in Rows : Written(i)' <=> Written(i)
      BY <1>0, <2>1 DEF Written
    <3> QED BY <2>1, <3>1, AddsKept
  <2>3. CASE turn + 1 < M
    <3>1. turn' = turn + 1 /\ turn' \in Rows /\ main2' = "create"
      BY <1>0, <1>1, <2>3, RowPositions DEF Create2
    <3>2. \A i \in Rows : i >= turn' => at'[i] = "none"
      BY <1>0, <2>1, <3>1, RowPositions
    <3> QED BY <2>1, <2>2, <3>1, <3>2 DEF TotalInv
  <2>4. CASE ~(turn + 1 < M)
    <3>1. turn' = 0 /\ main2' = "join"
      BY <1>1, <2>4 DEF Create2
    <3> QED BY <2>1, <2>2, <3>1, RowPositions DEF TotalInv
  <2> QED BY <2>3, <2>4
<1>2. CASE Join2
  <2>1. /\ UNCHANGED <<at, total, count, answer, incorrectCount>>
        /\ at[turn] = "exited" /\ \A i \in Rows : i < turn => at[i] = "exited"
    BY <1>2 DEF Join2, TotalInv
  <2>2. (\E f : Adds(f) /\ total = Word(f[M]))'
    BY <2>1, AddsKept DEF Written
  <2>3. CASE turn + 1 < M
    <3>1. turn' = turn + 1 /\ turn' \in Rows /\ main2' = "join"
      BY <1>0, <1>2, <2>3, RowPositions DEF Join2
    <3>2. \A i \in Rows : i < turn' => i < turn \/ i = turn
      BY <1>0, <3>1, RowPositions
    <3> QED BY <2>1, <2>2, <3>1, <3>2 DEF TotalInv
  <2>4. CASE ~(turn + 1 < M)
    <3>1. turn' = 0 /\ main2' = "compare"
      BY <1>2, <2>4 DEF Join2
    <3>2. \A i \in Rows : i < turn \/ i = turn
      BY <1>0, <2>4, RowPositions
    <3> QED BY <2>1, <2>2, <3>1, <3>2, RowPositions DEF TotalInv
  <2> QED BY <2>3, <2>4
<1>3. CASE Compare
  <2>1. total = Word(MatrixSum)
    <3>1. PICK f : Adds(f) /\ total = Word(f[M])
      BY DEF TotalInv
    <3>2. \A i \in Rows : Written(i)
      BY <1>3 DEF Compare, TotalInv, Written
    <3> QED BY <3>1, <3>2, AddsAll
  <2>2. answer' = Word(MatrixSum) /\ incorrectCount' = 0
    <3>1. count \in Nat \ {0} /\ (count > 1 => answer = Word(MatrixSum)) /\ incorrectCount = 0
      BY DEF TotalInv
    <3>2. CASE count = 1
      BY <1>3, <2>1, <3>1, <3>2 DEF Compare
    <3>3. CASE count # 1
      <4>1. count > 1 /\ answer = total
        BY <2>1, <3>1, <3>3
      <4> QED BY <1>3, <2>1, <3>1, <3>3, <4>1 DEF Compare
    <3> QED BY <3>2, <3>3
  <2>3. CASE count < Tests
    <3>1. /\ count' = count + 1 /\ total' = 0 /\ main2' = "create" /\ turn' = turn
          /\ at' = [i \in Rows |-> "none"]
      BY <1>3, <2>3 DEF Compare, CountNext
    <3>2. \E f : Adds(f)' /\ Word(f[M]) = 0
      <4>1. \A i \in Rows : ~Written(i)'
        BY <3>1 DEF Written
      <4> DEFINE f == [j \in 0 .. M |-> 0]
      <4>2. Adds(f)'
        BY <4>1, RowPositions DEF Adds
      <4>3. Word(f[M]) = 0
        BY RowPositions, WordZero
      <4> QED BY <4>2, <4>3
    <3>3. count' \in Nat \ {0}
      BY <3>1 DEF TotalInv
    <3> QED BY <1>0, <2>2, <3>1, <3>2, <3>3 DEF TotalInv
  <2>4. CASE ~(count < Tests)
    <3>1. UNCHANGED <<count, total, at, turn>> /\ main2' = "done" /\ main2 = "compare"
      BY <1>3, <2>4 DEF Compare
    <3>2. (\E f : Adds(f) /\ total = Word(f[M]))'
      BY <3>1, AddsKept DEF Written
    <3> QED BY <2>2, <3>1, <3>2 DEF TotalInv
  <2> QED BY <2>3, <2>4
<1> QED BY <1>1, <1>2, <1>3

\* The steps of another program.
LEMMA RowKept == ASSUME RowInv, UNCHANGED rowVars PROVE RowInv'
  BY DEF RowInv, rowVars

\* The same for Part2.
LEMMA TotalKept == ASSUME TotalInv, UNCHANGED mutexVars PROVE TotalInv'
<1>1. UNCHANGED <<total, at, main2, turn, count, answer, incorrectCount>>
  BY DEF mutexVars
<1>2. (\E f : Adds(f) /\ total = Word(f[M]))'
  BY <1>1, AddsKept DEF Written
<1> QED BY <1>1, <1>2 DEF TotalInv

\* Part1 prints the sum of the matrix, and every test of Part2 ends with it, in
\* whatever order the threads got the mutex and for every width of a word.
THEOREM SumsAreRight == Spec => []TotalsCorrect
<1> DEFINE Inv == RowInv /\ MutexInv /\ TotalInv
<1>1. Init => Inv
  <2> SUFFICES ASSUME Init PROVE Inv
    OBVIOUS
  <2>1. RowInv /\ MutexInv
    BY RowInitInv, MutexInitInv DEF Init
  <2>2. \E f : Adds(f) /\ total = Word(f[M])
    BY AddsNothing DEF Init, MutexInit, Written
  <2>3. TotalInv
    BY <2>2, RowPositions DEF TotalInv, Init, MutexInit
  <2> QED BY <2>1, <2>3
<1>2. Inv /\ [Next]_vars => Inv'
  <2> SUFFICES ASSUME Inv, [Next]_vars PROVE Inv'
    OBVIOUS
  <2>1. CASE Part1
    <3>1. RowInv'
      BY <2>1, RowStepInv DEF Part1
    <3>2. UNCHANGED mutexVars
      BY <2>1 DEF Part1
    <3>3. TotalInv'
      BY <3>2, TotalKept
    <3> QED BY <3>1, <3>2, <3>3, OtherPartsInv
  <2>2. CASE Part2
    <3>1. UNCHANGED rowVars
      BY <2>2 DEF Part2
    <3>2. MutexInv' /\ TotalInv'
      BY <2>2, Func2Inv, Main2Inv, Func2Total, Main2Total DEF Part2, MutexNext
    <3> QED BY <3>1, <3>2, RowKept
  <2>3. CASE ~Part1 /\ ~Part2
    <3>1. UNCHANGED <<rowVars, mutexVars>>
      BY <2>3 DEF Next, Part3, NextPart, Finished, vars
    <3> QED BY <3>1, RowKept, TotalKept, OtherPartsInv
  <2> QED BY <2>1, <2>2, <2>3
<1>3. Inv => TotalsCorrect
  <2> SUFFICES ASSUME Inv PROVE TotalsCorrect
    OBVIOUS
  <2>1. main2 = "compare" => total = Word(MatrixSum)
    BY AddsAll DEF TotalInv, Written
  <2> QED BY <2>1, RowsToEnds DEF TotalsCorrect, RowInv, TotalInv
<1> QED BY <1>1, <1>2, <1>3, PTL DEF Spec

-----------------------------------------------------------------------------
(***************************************************************************)
(* Part3.                                                                  *)
(***************************************************************************)
\* Everything ClockLags rests on: the fields are digits of their base, the
\* display has shown every second, and the timer has started iff it has
\* expired and been served once.
Clocks == [hh : Nat, mm : 0 .. SIXTY - 1, ss : 0 .. SIXTY - 1, uss : 0 .. USEC_IN_SEC - 1]
ClockType ==
  /\ clock \in Clocks
  /\ tick \in Nat /\ elapsed \in Nat /\ merged \in Nat
  /\ timerStarted \in BOOLEAN /\ pending \in BOOLEAN
Seconds(c) == (c.hh * SIXTY + c.mm) * SIXTY + c.ss
Unserved == INTERVAL * (merged + IF pending THEN 1 ELSE 0)
ClockInv ==
  /\ ClockType
  /\ ~timerStarted => clock = [hh |-> 0, mm |-> 0, ss |-> 0, uss |-> 0]
  /\ ~timerStarted /\ pending => elapsed = START + INTERVAL * merged
  /\ ~timerStarted /\ ~pending => elapsed = 0 /\ merged = 0
  /\ timerStarted => elapsed > 0
  /\ timerStarted => ClockTime = elapsed - Unserved
  /\ tick = Seconds(clock)

\* The clock's digits, put together.
LEMMA ClockFacts ==
  ASSUME ClockType
  PROVE  /\ Seconds(clock) \in Nat /\ ClockTime \in Nat
         /\ ClockTime = Seconds(clock) * USEC_IN_SEC + clock.uss
         /\ clock.uss \in 0 .. USEC_IN_SEC - 1
         /\ ClockTime \div USEC_IN_SEC = Seconds(clock)
<1>1. /\ clock.hh \in Nat /\ clock.mm \in Nat /\ clock.ss \in Nat
      /\ clock.uss \in 0 .. USEC_IN_SEC - 1 /\ SIXTY \in Nat /\ USEC_IN_SEC \in Nat \ {0}
  BY ClockAssumption DEF ClockType, Clocks
<1>2. Seconds(clock) \in Nat
  <2>1. clock.hh * SIXTY + clock.mm \in Nat
    BY <1>1
  <2>2. (clock.hh * SIXTY + clock.mm) * SIXTY \in Nat
    BY <1>1, <2>1
  <2> QED BY <1>1, <2>2 DEF Seconds
<1>3. ClockTime = Seconds(clock) * USEC_IN_SEC + clock.uss
  BY DEF ClockTime, Seconds
<1>4. ClockTime \in Nat
  <2>1. Seconds(clock) * USEC_IN_SEC \in Nat
    BY <1>1, <1>2
  <2> QED BY <1>1, <1>3, <2>1
<1>5. ClockTime \div USEC_IN_SEC = Seconds(clock)
  BY <1>1, <1>2, <1>3, DivExact
<1> QED BY <1>1, <1>2, <1>3, <1>4, <1>5

\* Before the first signal.
LEMMA ClockInitInv == ClockInit => ClockInv
<1> SUFFICES ASSUME ClockInit PROVE ClockInv
  OBVIOUS
<1>1. SIXTY \in Nat \ {0} /\ USEC_IN_SEC \in Nat \ {0}
  BY ClockAssumption
<1>2. clock = [hh |-> 0, mm |-> 0, ss |-> 0, uss |-> 0]
  BY DEF ClockInit
<1>3. clock \in Clocks
  <2>1. 0 \in Nat /\ 0 \in 0 .. SIXTY - 1 /\ 0 \in 0 .. USEC_IN_SEC - 1
    BY <1>1
  <2> QED BY <1>2, <2>1 DEF Clocks
<1>4. Seconds(clock) = 0
  BY <1>1, <1>2 DEF Seconds
<1> QED BY <1>2, <1>3, <1>4 DEF ClockInit, ClockInv, ClockType

\* An expiry adds INTERVAL to the real time and one signal to serve.
LEMMA ExpireInv == ASSUME ClockInv, Expire PROVE ClockInv'
<1>1. /\ INTERVAL \in Nat \ {0} /\ START \in Nat \ {0}
      /\ tick \in Nat /\ elapsed \in Nat /\ merged \in Nat
      /\ timerStarted \in BOOLEAN /\ pending \in BOOLEAN
  BY ClockAssumption DEF ClockInv, ClockType
<1>2. /\ elapsed' = (IF elapsed = 0 THEN START ELSE elapsed + INTERVAL)
      /\ merged' = (IF pending THEN merged + 1 ELSE merged) /\ pending' = TRUE
      /\ UNCHANGED <<clock, tick, timerStarted>>
  BY DEF Expire
<1>3. /\ INTERVAL * (merged + 1) = INTERVAL * merged + INTERVAL
      /\ INTERVAL * (merged + 1 + 1) = INTERVAL * merged + INTERVAL + INTERVAL
      /\ INTERVAL * merged \in Nat /\ INTERVAL * 0 = 0 /\ merged + 0 = merged
  BY <1>1, Distribute
<1>4. ClockType' /\ elapsed' > 0 /\ tick' = Seconds(clock')
  BY <1>1, <1>2 DEF ClockInv, ClockType, Seconds
<1>5. ~timerStarted' => clock' = [hh |-> 0, mm |-> 0, ss |-> 0, uss |-> 0]
  BY <1>2 DEF ClockInv
<1>6. ASSUME ~timerStarted PROVE elapsed' = START + INTERVAL * merged'
  <2>1. CASE pending
    <3>1. elapsed = START + INTERVAL * merged
      BY <1>6, <2>1 DEF ClockInv
    <3>2. elapsed' = elapsed + INTERVAL /\ merged' = merged + 1
      BY <1>1, <1>2, <1>3, <2>1, <3>1
    <3> QED BY <1>1, <1>3, <3>1, <3>2
  <2>2. CASE ~pending
    <3>1. elapsed = 0 /\ merged = 0
      BY <1>6, <2>2 DEF ClockInv
    <3> QED BY <1>1, <1>2, <1>3, <2>2, <3>1
  <2> QED BY <2>1, <2>2
<1>7. ASSUME timerStarted PROVE ClockTime' = elapsed' - Unserved'
  <2>1. elapsed' = elapsed + INTERVAL /\ ClockTime = elapsed - Unserved
    BY <1>2, <1>7 DEF ClockInv
  <2>2. Unserved' = Unserved + INTERVAL /\ Unserved \in Int
    BY <1>1, <1>2, <1>3 DEF Unserved
  <2>3. ClockTime' = ClockTime /\ ClockTime \in Int
    BY <1>2, ClockFacts DEF ClockTime, ClockInv
  <2> QED BY <1>1, <2>1, <2>2, <2>3
<1> QED BY <1>2, <1>4, <1>5, <1>6, <1>7 DEF ClockInv

\* The handler's carries: the clock moves on by INTERVAL, and the seconds by
\* one exactly when its digit of them changes.
LEMMA AdvancedFacts ==
  ASSUME ClockType
  PROVE  LET c == Advanced(clock) IN
         /\ c \in Clocks
         /\ Seconds(c) = Seconds(clock) + IF c.ss # clock.ss THEN 1 ELSE 0
         /\ Seconds(c) * USEC_IN_SEC + c.uss = Seconds(clock) * USEC_IN_SEC + clock.uss + INTERVAL
<1> DEFINE c == Advanced(clock)
           uss == clock.uss + INTERVAL
           ss == clock.ss + uss \div USEC_IN_SEC
           mm == clock.mm + ss \div SIXTY
<1>1. /\ clock.hh \in Nat /\ clock.mm \in 0 .. SIXTY - 1 /\ clock.ss \in 0 .. SIXTY - 1
      /\ clock.uss \in 0 .. USEC_IN_SEC - 1 /\ SIXTY \in Nat \ {0, 1} /\ USEC_IN_SEC \in Nat \ {0}
      /\ INTERVAL \in Nat /\ INTERVAL <= USEC_IN_SEC
  BY ClockAssumption DEF ClockType, Clocks
<1>2. c = [hh |-> clock.hh + mm \div SIXTY, mm |-> mm % SIXTY, ss |-> ss % SIXTY,
           uss |-> uss % USEC_IN_SEC]
  BY DEF Advanced
<1>3. /\ uss < USEC_IN_SEC => uss \div USEC_IN_SEC = 0 /\ uss % USEC_IN_SEC = uss
      /\ uss >= USEC_IN_SEC => uss \div USEC_IN_SEC = 1 /\ uss % USEC_IN_SEC = uss - USEC_IN_SEC
      /\ uss \in Nat /\ uss < USEC_IN_SEC + USEC_IN_SEC
  <2>1. uss \in Nat /\ uss < USEC_IN_SEC + USEC_IN_SEC
    BY <1>1
  <2> HIDE DEF uss
  <2> QED BY <1>1, <2>1, Carry
<1>4. /\ ss < SIXTY => ss \div SIXTY = 0 /\ ss % SIXTY = ss
      /\ ss >= SIXTY => ss \div SIXTY = 1 /\ ss % SIXTY = ss - SIXTY
      /\ ss \in Nat /\ ss < SIXTY + SIXTY
  <2>1. ss \in Nat /\ ss < SIXTY + SIXTY
    BY <1>1, <1>3
  <2> HIDE DEF ss
  <2> QED BY <1>1, <2>1, Carry
<1>5. /\ mm < SIXTY => mm \div SIXTY = 0 /\ mm % SIXTY = mm
      /\ mm >= SIXTY => mm \div SIXTY = 1 /\ mm % SIXTY = mm - SIXTY
      /\ mm \in Nat /\ mm < SIXTY + SIXTY
  <2>1. mm \in Nat /\ mm < SIXTY + SIXTY
    BY <1>1, <1>4
  <2> HIDE DEF mm
  <2> QED BY <1>1, <2>1, Carry
<1>6. /\ c.hh = clock.hh + mm \div SIXTY /\ c.mm = mm % SIXTY /\ c.ss = ss % SIXTY
      /\ c.uss = uss % USEC_IN_SEC
  BY <1>2
<1>7. c \in Clocks
  <2>1. /\ clock.hh + mm \div SIXTY \in Nat /\ mm % SIXTY \in 0 .. SIXTY - 1
        /\ ss % SIXTY \in 0 .. SIXTY - 1 /\ uss % USEC_IN_SEC \in 0 .. USEC_IN_SEC - 1
    <3> HIDE DEF uss, ss, mm
    <3> QED BY <1>1, <1>3, <1>4, <1>5
  <2> HIDE DEF uss, ss, mm
  <2> QED BY <1>2, <2>1 DEF Clocks
<1>8. Seconds(c) = Seconds(clock) + uss \div USEC_IN_SEC
  <2> DEFINE k == uss \div USEC_IN_SEC
  <2>0. k \in {0, 1} /\ ss = clock.ss + k
    BY <1>3, <1>1
  <2> HIDE DEF c, mm, ss, uss, k
  <2>1. c.hh * SIXTY + c.mm = clock.hh * SIXTY + mm
    <3>1. /\ SIXTY \in Int /\ mm \in Int /\ clock.hh \in Int /\ c.hh \in Int /\ c.mm \in Int
          /\ \/ c.hh = clock.hh /\ c.mm = mm
             \/ c.hh = clock.hh + 1 /\ c.mm = mm - SIXTY
      BY <1>1, <1>5, <1>6
    <3> QED BY <3>1, CarryInto
  <2>2. mm * SIXTY + c.ss = clock.mm * SIXTY + ss
    <3>1. mm = clock.mm + ss \div SIXTY
      BY DEF mm
    <3>2. /\ SIXTY \in Int /\ ss \in Int /\ clock.mm \in Int /\ mm \in Int /\ c.ss \in Int
          /\ \/ mm = clock.mm /\ c.ss = ss
             \/ mm = clock.mm + 1 /\ c.ss = ss - SIXTY
      BY <1>1, <1>4, <1>6, <3>1
    <3>3. PICK x \in Int, y \in Int, r \in Int, a \in Int :
            x = clock.mm /\ y = mm /\ r = c.ss /\ a = ss
      BY <3>2
    <3>4. (y = x /\ r = a) \/ (y = x + 1 /\ r = a - SIXTY)
      BY <3>2, <3>3
    <3>5. SIXTY \in Int
      BY <3>2
    <3>6. y * SIXTY + r = x * SIXTY + a
      BY <3>4, <3>5, CarryInto
    <3> QED BY <3>3, <3>6
  <2>3. /\ (clock.hh * SIXTY + mm) * SIXTY = clock.hh * SIXTY * SIXTY + mm * SIXTY
        /\ (clock.hh * SIXTY + clock.mm) * SIXTY = clock.hh * SIXTY * SIXTY + clock.mm * SIXTY
        /\ clock.hh * SIXTY * SIXTY \in Int /\ mm * SIXTY \in Int /\ clock.mm * SIXTY \in Int
    <3>1. clock.hh * SIXTY \in Int /\ mm \in Int /\ clock.mm \in Int /\ SIXTY \in Int
      BY <1>1, <1>5
    <3> DEFINE h == clock.hh * SIXTY
    <3>2. h \in Int /\ h * SIXTY \in Int /\ mm * SIXTY \in Int /\ clock.mm * SIXTY \in Int
      BY <3>1
    <3> HIDE DEF h
    <3>3. /\ (h + mm) * SIXTY = h * SIXTY + mm * SIXTY
          /\ (h + clock.mm) * SIXTY = h * SIXTY + clock.mm * SIXTY
      BY <3>1, <3>2, Distribute
    <3> QED BY <3>2, <3>3 DEF h
  <2>4. c.ss \in Int
    BY <1>1, <1>7 DEF Clocks
  <2>5. Seconds(c) = clock.hh * SIXTY * SIXTY + mm * SIXTY + c.ss
    BY <2>1, <2>3 DEF Seconds
  <2>6. Seconds(clock) = clock.hh * SIXTY * SIXTY + clock.mm * SIXTY + clock.ss
    BY <2>3 DEF Seconds
  <2>7. Seconds(c) = Seconds(clock) + k
    BY <1>1, <2>0, <2>2, <2>3, <2>4, <2>5, <2>6
  <2> QED BY <2>7 DEF k
<1>9. uss \div USEC_IN_SEC = IF c.ss # clock.ss THEN 1 ELSE 0
  <2> HIDE DEF c, mm
  <2> QED BY <1>1, <1>3, <1>4, <1>6
<1>10. Seconds(clock) \in Nat
  BY ClockFacts
<1>11. Seconds(c) * USEC_IN_SEC + c.uss = Seconds(clock) * USEC_IN_SEC + clock.uss + INTERVAL
  <2> DEFINE n == Seconds(clock)
  <2>1. uss = clock.uss + INTERVAL
    OBVIOUS
  <2> HIDE DEF c, mm, ss, uss, n
  <2>2. Seconds(c) * USEC_IN_SEC + c.uss = n * USEC_IN_SEC + uss
    <3> DEFINE z == Seconds(c)
    <3>1. z = n + uss \div USEC_IN_SEC /\ n \in Int
      BY <1>8, <1>10 DEF n
    <3> HIDE DEF z
    <3>2. /\ USEC_IN_SEC \in Int /\ uss \in Int /\ n \in Int /\ z \in Int /\ c.uss \in Int
          /\ \/ z = n /\ c.uss = uss
             \/ z = n + 1 /\ c.uss = uss - USEC_IN_SEC
      BY <1>1, <1>3, <1>6, <3>1
    <3>3. z * USEC_IN_SEC + c.uss = n * USEC_IN_SEC + uss
      BY <3>2, CarryInto
    <3> QED BY <3>3 DEF z
  <2>3. n * USEC_IN_SEC \in Int
    BY <1>1, <1>10 DEF n
  <2>4. n * USEC_IN_SEC + uss = n * USEC_IN_SEC + clock.uss + INTERVAL
    BY <1>1, <2>1, <2>3
  <2> QED BY <2>2, <2>4, Zenon DEF n
<1> QED BY <1>7, <1>8, <1>9, <1>11

\* The handler moves the clock on by the signal it serves.
LEMMA HandlerInv == ASSUME ClockInv, TimerHandler PROVE ClockInv'
<1>1. /\ INTERVAL \in Nat \ {0} /\ START \in Nat \ {0} /\ START < USEC_IN_SEC /\ USEC_IN_SEC \in Nat
      /\ SIXTY \in Nat \ {0} /\ ClockType /\ pending
      /\ tick \in Nat /\ elapsed \in Nat /\ merged \in Nat /\ timerStarted \in BOOLEAN
  BY ClockAssumption DEF ClockInv, ClockType, TimerHandler
<1>2. /\ pending' = FALSE /\ timerStarted' = TRUE /\ UNCHANGED <<elapsed, merged>>
      /\ tick' = (IF clock'.ss # clock.ss THEN tick + 1 ELSE tick)
  BY DEF TimerHandler
<1>3. /\ Seconds(clock) \in Nat /\ ClockTime \in Nat
      /\ ClockTime = Seconds(clock) * USEC_IN_SEC + clock.uss
  BY <1>1, ClockFacts
<1>4. /\ INTERVAL * (merged + 1) = INTERVAL * merged + INTERVAL
      /\ INTERVAL * (merged + 0) = INTERVAL * merged /\ INTERVAL * merged \in Nat
  BY <1>1, Distribute
<1>5. Unserved = INTERVAL * merged + INTERVAL /\ Unserved' = INTERVAL * merged
  BY <1>1, <1>2, <1>4 DEF Unserved
<1>6. CASE timerStarted
  <2>1. clock' = Advanced(clock)
    BY <1>6 DEF TimerHandler
  <2>2. /\ clock' \in Clocks
        /\ Seconds(clock') = Seconds(clock) + IF clock'.ss # clock.ss THEN 1 ELSE 0
        /\ Seconds(clock') * USEC_IN_SEC + clock'.uss
             = Seconds(clock) * USEC_IN_SEC + clock.uss + INTERVAL
    <3> DEFINE c == Advanced(clock)
    <3>1. /\ c \in Clocks
          /\ Seconds(c) = Seconds(clock) + IF c.ss # clock.ss THEN 1 ELSE 0
          /\ Seconds(c) * USEC_IN_SEC + c.uss = Seconds(clock) * USEC_IN_SEC + clock.uss + INTERVAL
      BY <1>1, AdvancedFacts
    <3>2. clock' = c
      BY <2>1
    <3> HIDE DEF c
    <3> QED BY <3>1, <3>2
  <2>3. ClockType' /\ tick' = Seconds(clock')
    <3>1. tick = Seconds(clock)
      BY DEF ClockInv
    <3>2. tick' \in Nat /\ tick' = Seconds(clock')
      <4>1. CASE clock'.ss # clock.ss
        BY <1>1, <1>2, <2>2, <3>1, <4>1
      <4>2. CASE clock'.ss = clock.ss
        BY <1>1, <1>2, <2>2, <3>1, <4>2
      <4> QED BY <4>1, <4>2
    <3> QED BY <1>1, <1>2, <2>2, <3>2 DEF ClockType
  <2>4. ClockTime' = ClockTime + INTERVAL
    <3>1. ClockTime' = Seconds(clock') * USEC_IN_SEC + clock'.uss
      BY DEF ClockTime, Seconds
    <3> QED BY <1>3, <2>2, <3>1
  <2>5. ClockTime = elapsed - Unserved /\ elapsed > 0
    BY <1>6 DEF ClockInv
  <2>6. ClockTime' = elapsed' - Unserved'
    <3> DEFINE i == INTERVAL * merged
    <3>1. i \in Nat /\ Unserved = i + INTERVAL /\ Unserved' = i
      BY <1>4, <1>5
    <3> HIDE DEF i
    <3> QED BY <1>1, <1>2, <1>3, <2>4, <2>5, <3>1
  <2> QED BY <1>2, <2>3, <2>5, <2>6 DEF ClockInv
<1>7. CASE ~timerStarted
  <2>1. /\ clock = [hh |-> 0, mm |-> 0, ss |-> 0, uss |-> 0] /\ elapsed = START + INTERVAL * merged
        /\ clock' = [clock EXCEPT !.uss = START] /\ tick = Seconds(clock)
    BY <1>1, <1>7 DEF ClockInv, TimerHandler
  <2>2. clock' = [hh |-> 0, mm |-> 0, ss |-> 0, uss |-> START] /\ clock'.ss = clock.ss
    BY <2>1
  <2>3. Seconds(clock') = 0 /\ Seconds(clock) = 0 /\ ClockTime' = START
    BY <1>1, <2>1, <2>2 DEF Seconds, ClockTime
  <2>4. ClockType'
    <3>1. 0 \in Nat /\ 0 \in 0 .. SIXTY - 1 /\ START \in 0 .. USEC_IN_SEC - 1
      BY <1>1
    <3>2. clock' \in Clocks
      BY <2>2, <3>1 DEF Clocks
    <3>3. tick' \in Nat
      BY <1>1, <1>2
    <3> QED BY <1>1, <1>2, <3>2, <3>3 DEF ClockType
  <2>5. elapsed' > 0 /\ ClockTime' = elapsed' - Unserved'
    BY <1>1, <1>2, <1>4, <1>5, <2>1, <2>3
  <2>6. tick' = Seconds(clock')
    BY <1>2, <2>1, <2>2, <2>3
  <2> QED BY <1>2, <2>4, <2>5, <2>6 DEF ClockInv
<1> QED BY <1>1, <1>6, <1>7

\* Part3's clock is exact up to the signals the system has merged or not yet
\* delivered, whatever the base of its digits and the interval.
THEOREM ClockIsExact == Spec => []ClockLags
<1>1. Init => ClockInv
  BY ClockInitInv DEF Init
<1>2. ASSUME ClockInv, [Next]_vars PROVE ClockInv'
  <2>1. CASE Part3
    BY <1>2, <2>1, ExpireInv, HandlerInv DEF Part3, ClockNext
  <2>2. CASE ~Part3
    <3>1. UNCHANGED clockVars
      BY <1>2, <2>2 DEF Next, Part1, Part2, NextPart, Finished, vars
    <3> QED BY <1>2, <3>1 DEF clockVars, ClockInv, ClockType, Unserved, ClockTime
  <2> QED BY <2>1, <2>2
<1>3. ClockInv => ClockLags
  BY ClockFacts DEF ClockInv, ClockLags, Unserved
<1> QED BY <1>1, <1>2, <1>3, PTL DEF Spec
=============================================================================
