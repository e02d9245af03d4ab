---------------------------- MODULE OneShotProofs ----------------------------
(***************************************************************************)
(* Theorems about the programs that end, for every input: Partitions lists *)
(* the partitions of a disk without gaps, myprintf() prints the numerals   *)
(* of its arguments, and showblock the blocks of the right file.           *)
(***************************************************************************)
EXTENDS OneShot, NumberLemmas, FiniteSetTheorems

-----------------------------------------------------------------------------
(***************************************************************************)
(* Sequences.                                                              *)
(***************************************************************************)

\* A function on 1 .. n is a sequence.
LEMMA IsSequence ==
  ASSUME NEW U, NEW n \in Nat, NEW s \in [1 .. n -> U]
  PROVE  s \in Seq(U) /\ Len(s) = n
  OBVIOUS

\* One element more.
LEMMA AppendIs ==
  ASSUME NEW U, NEW s \in Seq(U), NEW e \in U
  PROVE  Append(s, e) = [i \in 1 .. Len(s) + 1 |-> IF i = Len(s) + 1 THEN e ELSE s[i]]
<1>1. PICK t \in Seq(U) : /\ t = Append(s, e) /\ Len(t) = Len(s) + 1
                          /\ \A i \in 1 .. Len(s) : t[i] = s[i]
                          /\ t[Len(s) + 1] = e
  <2>1. /\ Append(s, e) \in Seq(U) /\ Len(Append(s, e)) = Len(s) + 1
        /\ \A i \in 1 .. Len(s) : Append(s, e)[i] = s[i]
        /\ Append(s, e)[Len(s) + 1] = e
    OBVIOUS
  <2> QED BY <2>1
<1>2. t \in [1 .. Len(t) -> U] /\ Len(s) \in Nat
  OBVIOUS
<1>3. t = [i \in 1 .. Len(s) + 1 |-> t[i]]
  BY <1>1, <1>2
<1>4. \A i \in 1 .. Len(s) + 1 : t[i] = IF i = Len(s) + 1 THEN e ELSE s[i]
  BY <1>1, <1>2
<1> QED BY <1>1, <1>3, <1>4

-----------------------------------------------------------------------------
(***************************************************************************)
(* The partitions of a disk.                                               *)
(***************************************************************************)

\* What a stack of one or two calls is.
LEMMA Stack ==
  ASSUME NEW a, NEW b, NEW c
  PROVE  /\ Head(<<a>>) = a /\ Tail(<<a>>) = <<>> /\ <<a>> # <<>>
         /\ Head(<<a, b>>) = a /\ Tail(<<a, b>>) = <<b>> /\ <<a, b>> # <<>>
         /\ <<a>> \o <<>> = <<a>> /\ <<a, b>> \o <<>> = <<a, b>> /\ <<c>> \o <<b>> = <<c, b>>
<1>1. Head(<<a>>) = a /\ <<a>> # <<>> /\ Head(<<a, b>>) = a /\ <<a, b>> # <<>>
  OBVIOUS
<1>2. Tail(<<a>>) = <<>>
  OBVIOUS
<1>3. Tail(<<a, b>>) = <<b>>
  OBVIOUS
<1>4. <<a>> \o <<>> = <<a>>
  OBVIOUS
<1>5. <<a, b>> \o <<>> = <<a, b>>
  OBVIOUS
<1>6. <<c>> \o <<b>> = <<c, b>>
  <2>1. PICK U, s, t : U = {b, c} /\ s = <<c>> /\ t = <<b>>
    OBVIOUS
  <2>2. s \in Seq(U) /\ t \in Seq(U) /\ Len(s) = 1 /\ Len(t) = 1 /\ s[1] = c /\ t[1] = b
    BY <2>1
  <2>3. PICK w \in Seq(U) : w = s \o t /\ Len(w) = 2 /\ w[1] = c /\ w[2] = b
    <3>0. s \in Seq(U) /\ t \in Seq(U)
      BY <2>2
    <3>3. s \o t \in Seq(U) /\ Len(s \o t) = Len(s) + Len(t)
      BY <3>0
    <3>1. s \o t \in Seq(U) /\ Len(s \o t) = 2
      BY <2>2, <3>3
    <3>2. (s \o t)[1] = c /\ (s \o t)[2] = b
      BY <2>2
    <3> QED BY <3>1, <3>2
  <2>4. w = <<c, b>>
    <3>0. w \in [1 .. Len(w) -> U]
      OBVIOUS
    <3>1. w = [i \in 1 .. 2 |-> w[i]]
      BY <2>3, <3>0
    <3>2. PICK v : v = <<c, b>>
      OBVIOUS
    <3>3. v = [i \in 1 .. 2 |-> v[i]] /\ v[1] = c /\ v[2] = b
      BY <3>2
    <3>4. \A i \in 1 .. 2 : i = 1 \/ i = 2
      OBVIOUS
    <3>5. \A i \in 1 .. 2 : w[i] = v[i]
      BY <2>3, <3>3, <3>4
    <3> QED BY <3>1, <3>2, <3>3, <3>5
  <2> QED BY <2>1, <2>3, <2>4
<1> QED BY <1>1, <1>2, <1>3, <1>4, <1>5, <1>6

\* A table in BUF, with the zeros that follow it.
Buffer == [1 .. 5 -> Partition]

\* What a read of the table at t leaves there.
LEMMA LoadedIs ==
  ASSUME NEW d \in Disks, NEW t \in DOMAIN d.table
  PROVE  \E b \in Buffer : /\ b = Append(Loaded(d, t), NoEntry)
                           /\ \A i \in 1 .. 4 : b[i] = d.table[t][i]
                           /\ b[5] = NoEntry
<1>1. PICK s \in [1 .. 4 -> Partition] : s = d.table[t]
  BY PartitionAssumption
<1>2. s \in Seq(Partition) /\ Len(s) = 4
  <2>1. PICK n \in Nat : n = 4
    OBVIOUS
  <2>2. s \in [1 .. n -> Partition]
    BY <2>1
  <2>3. s \in Seq(Partition) /\ Len(s) = n
    BY <2>2, IsSequence
  <2> QED BY <2>1, <2>3
<1>3. NoEntry \in Partition
  BY DEF NoEntry, Partition
<1>4. Append(s, NoEntry) = [i \in 1 .. 5 |-> IF i = 5 THEN NoEntry ELSE s[i]]
  <2>1. Append(s, NoEntry) = [i \in 1 .. Len(s) + 1 |-> IF i = Len(s) + 1 THEN NoEntry ELSE s[i]]
    <3>1. s \in Seq(Partition)
      BY <1>2
    <3> QED BY <1>3, <3>1, AppendIs
  <2>2. Len(s) + 1 = 5
    BY <1>2
  <2> QED BY <2>1, <2>2
<1>5. PICK b : b = [i \in 1 .. 5 |-> IF i = 5 THEN NoEntry ELSE s[i]]
  OBVIOUS
<1>6. (\A i \in 1 .. 4 : b[i] = s[i]) /\ b[5] = NoEntry
  BY <1>5
<1>7. \A i \in 1 .. 5 : b[i] \in Partition
  BY <1>3, <1>5
<1>8. b \in Buffer
  BY <1>5, <1>7 DEF Buffer
<1> QED BY <1>1, <1>4, <1>5, <1>6, <1>8 DEF Loaded

\* The sector is added to the first entry.
LEMMA Moved ==
  ASSUME NEW b \in Buffer, NEW n \in Nat
  PROVE  \E c \in Buffer : /\ c = [b EXCEPT ![1].start_sector = @ + n]
                           /\ c[1] = [b[1] EXCEPT !.start_sector = @ + n]
                           /\ \A i \in 2 .. 5 : c[i] = b[i]
<1>1. PICK p \in Partition : p = b[1]
  BY DEF Buffer
<1>2. PICK q : q = [p EXCEPT !.start_sector = @ + n]
  OBVIOUS
<1>3. q \in Partition
  BY <1>2 DEF Partition
<1>4. PICK c : c = [b EXCEPT ![1] = q]
  OBVIOUS
<1>5. [b EXCEPT ![1].start_sector = @ + n] = c
  BY <1>1, <1>2, <1>4 DEF Buffer
<1>6. c \in Buffer /\ c[1] = q /\ \A i \in 2 .. 5 : c[i] = b[i]
  BY <1>3, <1>4 DEF Buffer
<1> QED BY <1>1, <1>2, <1>5, <1>6

\* The last sector of a partition.
LEMMA EndIs ==
  ASSUME NEW p \in Partition, NEW n \in Nat
  PROVE  /\ EndOf(p) \in Int /\ EndOf(p) = p.nr_sectors + p.start_sector - 1
         /\ p.nr_sectors \in Nat /\ p.start_sector \in Nat
         /\ [p EXCEPT !.start_sector = @ + n] \in Partition
         /\ [p EXCEPT !.start_sector = @ + n].start_sector = p.start_sector + n
         /\ [p EXCEPT !.start_sector = @ + n].nr_sectors = p.nr_sectors
  BY DEF EndOf, Partition

-----------------------------------------------------------------------------
\* What a disk without gaps looks like.
Shaped(d, m, n) ==
  /\ m = Primaries(d) /\ n = Logicals(d) /\ m \in Nat /\ n \in Nat /\ m <= 4
  /\ d.sectors \in Nat /\ d.sectors <= REACH /\ m + n < STACK
  /\ \A i \in 1 .. 4 : i <= m <=> d.table[0][i].start_sector # 0
  /\ \A i \in 1 .. m : d.table[0][i] \in Partition
  /\ \A i \in 1 .. m : d.table[0][i].sys_type = Extended <=> i = m /\ n # 0

\* And its local tables.
Chained(d, m, n) ==
  /\ m \in 1 .. 4 /\ n # 0
  /\ LocalTable(d, 1) = d.table[0][m].start_sector
  /\ EndOf(d.table[0][m]) = d.sectors - 1
  /\ \A k \in 1 .. n :
       /\ LocalTable(d, k) \in DOMAIN d.table
       /\ LocalTable(d, k) \in 1 .. d.sectors - 1
       /\ Logical(d, k) =
            [d.table[LocalTable(d, k)][1] EXCEPT !.start_sector = @ + LocalTable(d, k)]
       /\ Logical(d, k) \in Partition /\ Logical(d, k).start_sector # 0
       /\ Logical(d, k).sys_type # Extended
       /\ EndOf(Logical(d, k)) + 1 \in Nat
       /\ EndOf(Logical(d, k)) <= d.sectors - 1
       /\ k # n => LocalTable(d, k + 1) = EndOf(Logical(d, k)) + 1
       /\ k = n => EndOf(Logical(d, k)) = d.sectors - 1
  /\ \A i \in 2 .. 4 : d.table[LocalTable(d, n)][i].start_sector = 0

\* The shape follows from the property's own description of such a disk.
LEMMA ShapeOf ==
  ASSUME NEW d \in Disks, WithoutGaps(d)
  PROVE  \E m, n : Shaped(d, m, n)
<1>1. PICK m, n : m = Primaries(d) /\ n = Logicals(d)
  OBVIOUS
<1>2. /\ d.sectors <= REACH /\ m + n < STACK /\ Used(d) = 1 .. m
      /\ \A i \in 1 .. m : d.table[0][i].sys_type = Extended <=> i = m /\ n # 0
  BY <1>1 DEF WithoutGaps
<1>3. d.sectors \in Nat /\ d.table[0] \in [1 .. 4 -> Partition]
  BY PartitionAssumption
<1>4. m \in Nat /\ m <= 4
  <2>1. PICK T : T = 1 .. 4 /\ IsFiniteSet(T) /\ Cardinality(T) = 4
    <3>1. IsFiniteSet(1 .. 4) /\ Cardinality(1 .. 4) = 4
      <4>1. PICK a \in Int, b \in Int : a = 1 /\ b = 4
        OBVIOUS
      <4>2. IsFiniteSet(a .. b) /\ Cardinality(a .. b) = IF a > b THEN 0 ELSE b - a + 1
        BY FS_Interval
      <4> QED BY <4>1, <4>2
    <3> QED BY <3>1
  <2>2. Used(d) \in SUBSET T
    BY <2>1 DEF Used
  <2>3. IsFiniteSet(Used(d)) /\ Cardinality(Used(d)) <= Cardinality(T)
    BY <2>1, <2>2, FS_Subset
  <2>4. Cardinality(Used(d)) \in Nat
    BY <2>3, FS_CardinalityType
  <2> QED BY <1>1, <2>1, <2>3, <2>4 DEF Primaries
<1>5. n \in Nat
  <2>1. PICK T : T = 0 .. d.sectors - 1 /\ IsFiniteSet(T)
    <3>1. 0 \in Int /\ d.sectors - 1 \in Int
      BY <1>3
    <3>2. IsFiniteSet(0 .. d.sectors - 1)
      BY <3>1, FS_Interval
    <3> QED BY <3>2
  <2>2. LocalTables(d) \in SUBSET T
    BY <2>1, PartitionAssumption DEF LocalTables
  <2>3. IsFiniteSet(LocalTables(d))
    BY <2>1, <2>2, FS_Subset
  <2> QED BY <1>1, <2>3, FS_CardinalityType DEF Logicals
<1>6. \A i \in 1 .. 4 : i \in 1 .. m <=> d.table[0][i].start_sector # 0
  BY <1>2 DEF Used
<1>7. \A i \in 1 .. 4 : i \in 1 .. m <=> i <= m
  BY <1>4
<1>8. \A i \in 1 .. m : d.table[0][i] \in Partition
  <2>1. \A i \in 1 .. m : i \in 1 .. 4
    BY <1>4
  <2> QED BY <1>3, <2>1
<1> QED BY <1>1, <1>2, <1>3, <1>4, <1>5, <1>6, <1>7, <1>8 DEF Shaped

\* The first local table is where the extended partition is.
LEMMA FirstTable ==
  ASSUME NEW d PROVE LocalTable(d, 1) = LastPrimary(d).start_sector
<1> DEFINE ext == LastPrimary(d).start_sector
           Is(at) == at = [j \in 1 .. 1 |-> IF j = 1 THEN ext
                                             ELSE ext + d.table[at[j - 1]][2].start_sector]
<1>1. Is([j \in 1 .. 1 |-> ext])
  OBVIOUS
<1>2. Is(CHOOSE at : Is(at))
  BY <1>1
<1>3. (CHOOSE at : Is(at))[1] = ext
  BY <1>2
<1>4. LocalTable(d, 1) = (CHOOSE at : Is(at))[1]
  BY DEF LocalTable
<1> QED BY <1>3, <1>4

\* So do the local tables: they are on the disk, each logical partition ends on it,
\* and the walk, which never follows a link, comes to each of them.
LEMMA ChainOf ==
  ASSUME NEW d \in Disks, WithoutGaps(d), NEW m, NEW n, Shaped(d, m, n), n # 0
  PROVE  Chained(d, m, n)
<1>0. /\ m = Primaries(d) /\ n = Logicals(d) /\ m \in Nat /\ n \in Nat /\ m <= 4 /\ d.sectors \in Nat
      /\ \A i \in 1 .. m : d.table[0][i] \in Partition
  BY DEF Shaped
<1>1. /\ m # 0
      /\ \A k \in 1 .. n : /\ LocalTable(d, k) \in LocalTables(d)
                           /\ Logical(d, k).sys_type # Extended
                           /\ Logical(d, k).nr_sectors # 0
      /\ \A k \in 1 .. n - 1 : LocalTable(d, k + 1) = EndOf(Logical(d, k)) + 1
      /\ EndOf(Logical(d, n)) = EndOf(LastPrimary(d))
      /\ EndOf(LastPrimary(d)) = d.sectors - 1
      /\ \A i \in 2 .. 4 : d.table[LocalTable(d, n)][i].start_sector = 0
  BY <1>0 DEF WithoutGaps
<1>2. LastPrimary(d) = d.table[0][m] /\ m \in 1 .. 4
  BY <1>0, <1>1 DEF LastPrimary
<1>3. LocalTable(d, 1) = d.table[0][m].start_sector
  BY <1>2, FirstTable
<1>4. ASSUME NEW k \in 1 .. n
      PROVE  /\ LocalTable(d, k) \in DOMAIN d.table
             /\ LocalTable(d, k) \in 1 .. d.sectors - 1
             /\ Logical(d, k) =
                  [d.table[LocalTable(d, k)][1] EXCEPT !.start_sector = @ + LocalTable(d, k)]
             /\ Logical(d, k) \in Partition /\ Logical(d, k).start_sector # 0
             /\ EndOf(Logical(d, k)) + 1 \in Nat /\ LocalTable(d, k) <= EndOf(Logical(d, k))
  <2>1. PICK t : t = LocalTable(d, k) /\ t \in DOMAIN d.table /\ t # 0
    BY <1>1 DEF LocalTables
  <2>2. t \in 0 .. d.sectors - 1 /\ d.table[t] \in [1 .. 4 -> Partition]
    BY <2>1, PartitionAssumption
  <2>3. t \in 1 .. d.sectors - 1 /\ t \in Nat /\ t >= 1
    BY <1>0, <2>1, <2>2
  <2>4. PICK p \in Partition : p = d.table[t][1]
    BY <2>2
  <2>5. PICK q : q = [p EXCEPT !.start_sector = @ + t]
    OBVIOUS
  <2>6. q = Logical(d, k)
    BY <2>1, <2>4, <2>5 DEF Logical
  <2>7. /\ q \in Partition /\ q.start_sector = p.start_sector + t
        /\ p.start_sector \in Nat
    BY <2>3, <2>5, EndIs
  <2>8. EndOf(q) = q.nr_sectors + q.start_sector - 1 /\ q.nr_sectors \in Nat
    BY <2>7, EndIs
  <2>9. q.nr_sectors # 0
    BY <1>1, <2>6
  <2>10. q.start_sector # 0 /\ EndOf(q) + 1 \in Nat /\ t <= EndOf(q)
    BY <2>3, <2>7, <2>8, <2>9
  <2> QED BY <2>1, <2>3, <2>4, <2>5, <2>6, <2>7, <2>10
<1>5. ASSUME NEW k \in 1 .. n
      PROVE  /\ k # n => LocalTable(d, k + 1) = EndOf(Logical(d, k)) + 1
             /\ k = n => EndOf(Logical(d, k)) = d.sectors - 1
  <2>1. k # n => k \in 1 .. n - 1
    BY <1>0
  <2> QED BY <1>1, <2>1
<1> DEFINE S == {j \in Nat : j < n => EndOf(Logical(d, n - j)) <= d.sectors - 1}
<1>6. 0 \in S
  <2>1. n - 0 = n
    BY <1>0
  <2>2. EndOf(Logical(d, n - 0)) = d.sectors - 1
    BY <1>1, <2>1
  <2> QED BY <1>0, <2>2
<1>7. ASSUME NEW j \in Nat, j \in S PROVE j + 1 \in S
  <2>1. CASE j + 1 < n
    <3>1. PICK k \in 1 .. n : k = n - (j + 1) /\ k # n /\ k + 1 = n - j /\ k + 1 \in 1 .. n /\ j < n
      BY <1>0, <2>1
    <3>2. EndOf(Logical(d, k + 1)) <= d.sectors - 1
      BY <1>7, <3>1
    <3>3. LocalTable(d, k + 1) = EndOf(Logical(d, k)) + 1
      BY <1>5, <3>1
    <3>4. LocalTable(d, k + 1) <= EndOf(Logical(d, k + 1)) /\ EndOf(Logical(d, k + 1)) + 1 \in Nat
      BY <1>4, <3>1
    <3>5. EndOf(Logical(d, k)) + 1 \in Nat /\ EndOf(Logical(d, k)) \in Int /\ EndOf(Logical(d, k + 1)) \in Int
      BY <1>4, <3>1, EndIs
    <3>6. EndOf(Logical(d, k)) <= d.sectors - 1
      BY <1>0, <3>2, <3>3, <3>4, <3>5
    <3> QED BY <3>1, <3>6
  <2>2. CASE ~(j + 1 < n)
    BY <2>2
  <2> QED BY <2>1, <2>2
<1> HIDE DEF S
<1>8. \A j \in Nat : j \in S
  BY <1>6, <1>7, NaturalsIn
<1>9. ASSUME NEW k \in 1 .. n PROVE EndOf(Logical(d, k)) <= d.sectors - 1
  <2>1. PICK j \in Nat : j = n - k /\ j < n /\ n - j = k
    <3>1. n - k \in Nat /\ n - k < n /\ n - (n - k) = k
      BY <1>0
    <3> QED BY <3>1
  <2>2. EndOf(Logical(d, n - j)) <= d.sectors - 1
    BY <1>8, <2>1 DEF S
  <2> QED BY <2>1, <2>2
<1>10. EndOf(d.table[0][m]) = d.sectors - 1
  BY <1>1, <1>2
<1> QED BY <1>1, <1>2, <1>3, <1>4, <1>5, <1>9, <1>10 DEF Chained

-----------------------------------------------------------------------------
(***************************************************************************)
(* The walk, by stages: in the master table, at the k-th local table,      *)
(* past the k-th logical partition, past the last one, back in the master  *)
(* table's call with a local table in the buffer, and at the end.          *)
(***************************************************************************)

\* The first l lines.
Listed(d, l) == [k \in 1 .. l |-> Line(Linked(d, k), EndOf(Linked(d, k)), k)]

\* The calls: at entry i of the master table, at a local table, behind a partition
\* that ends at e.
Primary(i) == [f |-> "LoadPartitions", p |-> i, pCount |-> i]
Local(d, l) == [f |-> "LoadExtendedPartitions", end |-> d.sectors - 1, pCount |-> l]
Following(d, e, l) == [f |-> "Follow", currEnd |-> e, end |-> d.sectors - 1, pCount |-> l]

\* The k-th local table is in the buffer.
Buffered(d, k) ==
  /\ BUF[1] = Logical(d, k)
  /\ \A i \in 2 .. 4 : BUF[i] = d.table[LocalTable(d, k)][i]
  /\ BUF[5] = NoEntry

\* The stages, with l lines printed.
InMaster(d, m, n, l) ==
  /\ calls = <<Primary(l + 1)>> /\ BUF = Append(Loaded(d, 0), NoEntry)
  /\ l <= m /\ (n # 0 => l < m)
InLocal(d, m, n, l) ==
  \E k \in 1 .. n : l = m + k - 1 /\ calls = <<Local(d, m + k), Primary(m + 1)>> /\ Buffered(d, k)
Found(d, m, n, l) ==
  \E k \in 1 .. n : /\ l = m + k /\ Buffered(d, k)
                    /\ calls = <<Following(d, EndOf(Logical(d, k)), m + k), Primary(m + 1)>>
Past(d, m, n, l) ==
  /\ n # 0 /\ l = m + n /\ calls = <<Local(d, m + n + 1), Primary(m + 1)>>
  /\ EndOf(BUF[1]) > d.sectors - 1 /\ BUF[m + 1].start_sector = 0
Back(d, m, n, l) ==
  n # 0 /\ l = m + n /\ calls = <<Primary(m + 1)>> /\ BUF[m + 1].start_sector = 0
Over(d, m, n, l) == l = m + n /\ calls = <<>>

\* The walk is in one of them.
Stage(d, m, n, l) ==
  \/ InMaster(d, m, n, l) \/ InLocal(d, m, n, l) \/ Found(d, m, n, l)
  \/ Past(d, m, n, l) \/ Back(d, m, n, l) \/ Over(d, m, n, l)

\* l lines are printed, and they are the first of the link list.
Walked(d, m, n, l) == listing = Listed(d, l) /\ BUF \in Buffer /\ ~overflow /\ Stage(d, m, n, l)

\* The inductive invariant of Partitions.
WalkInv ==
  /\ disk \in Disks
  /\ WithoutGaps(disk) =>
       \E m, n : Shaped(disk, m, n) /\ \E l \in 0 .. m + n : Walked(disk, m, n, l)

\* One line more.
LEMMA OneMore ==
  ASSUME NEW d, NEW l \in Nat
  PROVE  /\ Len(Listed(d, l)) = l
         /\ Append(Listed(d, l), Line(Linked(d, l + 1), EndOf(Linked(d, l + 1)), l + 1)) =
              Listed(d, l + 1)
<1> DEFINE e(k) == Line(Linked(d, k), EndOf(Linked(d, k)), k)
           U == {e(k) : k \in 1 .. l + 1}
<1>1. PICK s : s = Listed(d, l)
  OBVIOUS
<1>2. s = [k \in 1 .. l |-> e(k)] /\ Listed(d, l + 1) = [k \in 1 .. l + 1 |-> e(k)]
  BY <1>1 DEF Listed
<1>3. e(l + 1) \in U /\ \A k \in 1 .. l : e(k) \in U
  OBVIOUS
<1> HIDE DEF e, U
<1>4. s \in [1 .. l -> U]
  BY <1>2, <1>3
<1>5. s \in Seq(U) /\ Len(s) = l
  BY <1>4, IsSequence
<1>6. Append(s, e(l + 1)) = [i \in 1 .. Len(s) + 1 |-> IF i = Len(s) + 1 THEN e(l + 1) ELSE s[i]]
  BY <1>3, <1>5, AppendIs
<1>7. \A i \in 1 .. l + 1 : (IF i = l + 1 THEN e(l + 1) ELSE s[i]) = e(i)
  BY <1>2
<1>8. Append(s, e(l + 1)) = [i \in 1 .. l + 1 |-> e(i)]
  BY <1>5, <1>6, <1>7
<1> QED BY <1>1, <1>2, <1>5, <1>8 DEF e

\* main() starts at the first entry of the master table.
LEMMA WalkStart ==
  ASSUME Init, program = "Partitions" PROVE WalkInv
<1>1. PICK d \in Disks : PartitionInit(d)
  BY DEF Init
<1>2. /\ disk = d /\ BUF = Append(Loaded(d, 0), NoEntry) /\ calls = <<Primary(1)>>
      /\ listing = <<>> /\ overflow = FALSE
  BY <1>1 DEF PartitionInit, Primary
<1>3. SUFFICES ASSUME WithoutGaps(d)
               PROVE  \E m, n : Shaped(d, m, n) /\ \E l \in 0 .. m + n : Walked(d, m, n, l)
  BY <1>2 DEF WalkInv
<1>4. PICK m, n : Shaped(d, m, n)
  BY <1>3, ShapeOf
<1>5. m \in Nat /\ n \in Nat /\ (n # 0 => 0 < m)
  <2>1. m \in Nat /\ n \in Nat
    BY <1>4 DEF Shaped
  <2>2. n # 0 => m \in 1 .. 4
    BY <1>3, <1>4, ChainOf DEF Chained
  <2> QED BY <2>1, <2>2
<1>6. 0 \in DOMAIN d.table
  BY PartitionAssumption
<1>7. BUF \in Buffer
  BY <1>2, <1>6, LoadedIs
<1>8. Listed(d, 0) = <<>>
  BY DEF Listed
<1>9. 0 + 1 = 1 /\ 0 <= m /\ 0 \in 0 .. m + n
  BY <1>5
<1>10. InMaster(d, m, n, 0)
  BY <1>2, <1>5, <1>9 DEF InMaster
<1>11. Walked(d, m, n, 0)
  BY <1>2, <1>7, <1>8, <1>10 DEF Walked, Stage
<1> QED BY <1>4, <1>9, <1>11

\* A table that is on the disk is read.
LEMMA FetchTable ==
  ASSUME NEW d \in Disks, disk = d, d.sectors <= REACH, NEW t \in DOMAIN d.table
  PROVE  \E c \in Buffer : /\ c = Fetched(t)
                           /\ c[1] = [d.table[t][1] EXCEPT !.start_sector = @ + t]
                           /\ (\A i \in 2 .. 4 : c[i] = d.table[t][i]) /\ c[5] = NoEntry
<1>1. t \in 0 .. d.sectors - 1 /\ d.sectors \in Nat /\ REACH \in Nat \ {0}
  BY PartitionAssumption
<1>2. t \in Nat /\ t < d.sectors /\ t < REACH
  BY <1>1
<1>3. t % REACH = t
  BY <1>1, <1>2, Carry
<1>4. PICK b \in Buffer : /\ b = Append(Loaded(d, t), NoEntry)
                          /\ \A i \in 1 .. 4 : b[i] = d.table[t][i]
                          /\ b[5] = NoEntry
  BY LoadedIs
<1>5. Fetched(t) = [b EXCEPT ![1].start_sector = @ + t]
  BY <1>2, <1>3, <1>4 DEF Fetched
<1>6. PICK c \in Buffer : /\ c = [b EXCEPT ![1].start_sector = @ + t]
                          /\ c[1] = [b[1] EXCEPT !.start_sector = @ + t]
                          /\ \A i \in 2 .. 5 : c[i] = b[i]
  BY <1>2, Moved
<1>7. b[1] = d.table[t][1] /\ (\A i \in 2 .. 4 : c[i] = d.table[t][i]) /\ c[5] = NoEntry
  <2>1. 1 \in 1 .. 4 /\ 5 \in 2 .. 5 /\ \A i \in 2 .. 4 : i \in 1 .. 4 /\ i \in 2 .. 5
    OBVIOUS
  <2>2. b[1] = d.table[t][1]
    BY <1>4, <2>1
  <2>3. c[5] = NoEntry
    BY <1>4, <1>6, <2>1
  <2>4. \A i \in 2 .. 4 : c[i] = d.table[t][i]
    BY <1>4, <1>6, <2>1
  <2> QED BY <2>2, <2>3, <2>4
<1> QED BY <1>5, <1>6, <1>7

\* The read behind the last logical partition fails, or begins again at the first
\* sector; either way its end is past the end of the disk.
LEMMA FetchPast ==
  ASSUME NEW d \in Disks, disk = d, NEW m, NEW n, Shaped(d, m, n), Chained(d, m, n),
         BUF \in Buffer, Buffered(d, n)
  PROVE  \E c \in Buffer : /\ c = Fetched(d.sectors)
                           /\ EndOf(c[1]) > d.sectors - 1 /\ c[m + 1].start_sector = 0
<1>1. PICK z \in Nat : z = d.sectors /\ z <= REACH /\ REACH \in Nat \ {0} /\ m \in 1 .. 4 /\ m \in Nat
  BY PartitionAssumption DEF Shaped, Chained
<1>2. PICK b \in Buffer : /\ Fetched(z) = [b EXCEPT ![1].start_sector = @ + z]
                          /\ b[1].start_sector # 0 /\ b[m + 1].start_sector = 0
  <2>1. CASE z < REACH
    <3>1. z % REACH = z
      BY <1>1, <2>1, Carry
    <3>2. Fetched(z) = [BUF EXCEPT ![1].start_sector = @ + z]
      BY <1>1, <3>1 DEF Fetched
    <3>3. n \in 1 .. n /\ BUF[1] = Logical(d, n) /\ BUF[1].start_sector # 0
      <4>1. n \in 1 .. n
        BY DEF Shaped, Chained
      <4> QED BY <4>1 DEF Buffered, Chained
    <3>4. BUF[m + 1].start_sector = 0
      <4>1. CASE m = 4
        BY <4>1 DEF Buffered, NoEntry
      <4>2. CASE m # 4
        <5>1. m + 1 \in 2 .. 4
          BY <1>1, <4>2
        <5> QED BY <5>1 DEF Buffered, Chained
      <4> QED BY <4>1, <4>2
    <3> QED BY <3>2, <3>3, <3>4
  <2>2. CASE z = REACH
    <3>1. z % REACH = 0 /\ 0 < z
      <4>1. PICK w \in Nat \ {0} : w = REACH
        BY <1>1
      <4>2. w < w + w /\ w >= w /\ w - w = 0
        OBVIOUS
      <4>3. w % w = 0
        BY <4>2, Carry
      <4> QED BY <2>2, <4>1, <4>3
    <3>2. 0 \in DOMAIN d.table
      BY PartitionAssumption
    <3>3. PICK b \in Buffer : /\ b = Append(Loaded(d, 0), NoEntry)
                              /\ \A i \in 1 .. 4 : b[i] = d.table[0][i]
                              /\ b[5] = NoEntry
      BY <3>2, LoadedIs
    <3>4. Fetched(z) = [b EXCEPT ![1].start_sector = @ + z]
      BY <1>1, <3>1, <3>3 DEF Fetched
    <3>5. \A i \in 1 .. 4 : i <= m <=> d.table[0][i].start_sector # 0
      BY DEF Shaped
    <3>6. b[1].start_sector # 0
      BY <1>1, <3>3, <3>5
    <3>7. b[m + 1].start_sector = 0
      <4>1. CASE m = 4
        <5>0. m + 1 = 5
          BY <4>1
        <5>1. b[m + 1] = NoEntry
          BY <3>3, <5>0
        <5> QED BY <5>1 DEF NoEntry
      <4>2. CASE m # 4
        <5>1. m + 1 \in 1 .. 4 /\ ~(m + 1 <= m)
          BY <1>1, <4>2
        <5> QED BY <3>3, <3>5, <5>1
      <4> QED BY <4>1, <4>2
    <3> QED BY <3>4, <3>6, <3>7
  <2>3. z < REACH \/ z = REACH
    BY <1>1
  <2> QED BY <2>1, <2>2, <2>3
<1>3. PICK c \in Buffer : /\ c = [b EXCEPT ![1].start_sector = @ + z]
                          /\ c[1] = [b[1] EXCEPT !.start_sector = @ + z]
                          /\ \A i \in 2 .. 5 : c[i] = b[i]
  BY Moved
<1>4. PICK p \in Partition : p = b[1]
  BY DEF Buffer
<1>5. PICK q \in Partition : q = c[1]
  BY DEF Buffer
<1>6. q.start_sector = p.start_sector + z /\ p.start_sector \in Nat
  BY <1>3, <1>4, <1>5, EndIs
<1>7. EndOf(q) = q.nr_sectors + q.start_sector - 1 /\ q.nr_sectors \in Nat /\ EndOf(q) \in Int
  BY <1>1, EndIs
<1>8. EndOf(q) > z - 1
  BY <1>2, <1>4, <1>6, <1>7
<1>9. m + 1 \in 2 .. 5
  BY <1>1
<1> QED BY <1>1, <1>2, <1>3, <1>5, <1>8, <1>9

\* One step in the master table.
LEMMA MasterStep ==
  ASSUME NEW d \in Disks, disk = d, WithoutGaps(d), NEW m, NEW n, Shaped(d, m, n),
         NEW l \in Nat, listing = Listed(d, l), InMaster(d, m, n, l), ~overflow, LoadPartitions
  PROVE  \E k \in 0 .. m + n : Walked(d, m, n, k)'
<1>0. m \in Nat /\ n \in Nat /\ m <= 4 /\ l <= m /\ (n # 0 => l < m)
  BY DEF Shaped, InMaster
<1>t. 0 \in DOMAIN d.table
  BY PartitionAssumption
<1>1. PICK b \in Buffer : /\ b = BUF
                          /\ \A i \in 1 .. 4 : b[i] = d.table[0][i]
                          /\ b[5] = NoEntry
  BY <1>t, LoadedIs DEF InMaster
<1>2. calls = <<Primary(l + 1)>>
  BY DEF InMaster
<1>3. Head(calls) = Primary(l + 1) /\ Tail(calls) = <<>>
  BY <1>2, Stack
<1>4. PICK p : p = BUF[l + 1]
  OBVIOUS
<1>5. (l + 1) + 1 = l + 2 /\ l + 2 \in Nat
  OBVIOUS
<1>c. Head(calls).p = l + 1 /\ Head(calls).pCount = l + 1
  BY <1>3 DEF Primary
<1>6. IF p.start_sector = 0
      THEN calls' = <<>> /\ BUF' = BUF /\ listing' = listing
      ELSE /\ listing' = Append(listing, Line(p, EndOf(p), l + 1))
           /\ IF p.sys_type = Extended
              THEN /\ BUF' = Fetched(p.start_sector)
                   /\ calls' = <<[f |-> "LoadExtendedPartitions", end |-> EndOf(p), pCount |-> l + 2],
                                 Primary(l + 2)>> \o <<>>
              ELSE calls' = <<Primary(l + 2)>> \o <<>> /\ BUF' = BUF
  BY <1>3, <1>4, <1>5, <1>c DEF LoadPartitions, Primary
<1>7. overflow' = overflow
  BY DEF LoadPartitions
<1>8. CASE l < m
  <2>1. l + 1 \in 1 .. m /\ l + 1 \in 1 .. 4 /\ l + 1 <= m /\ l + 1 \in 0 .. m + n
    BY <1>0, <1>8
  <2>2. p = d.table[0][l + 1] /\ p.start_sector # 0 /\ p \in Partition
    BY <1>1, <1>4, <2>1 DEF Shaped
  <2>3. Linked(d, l + 1) = p
    BY <2>1, <2>2 DEF Linked, Shaped
  <2>4. listing' = Listed(d, l + 1)
    BY <1>6, <2>2, <2>3, OneMore
  <2>5. p.sys_type = Extended <=> l + 1 = m /\ n # 0
    BY <2>1, <2>2 DEF Shaped
  <2>6. CASE p.sys_type # Extended
    <3>1. calls' = <<Primary(l + 2)>> /\ BUF' = BUF
      BY <1>6, <2>2, <2>6, Stack
    <3>2. n # 0 => l + 1 < m
      BY <1>0, <2>1, <2>5, <2>6
    <3>3. InMaster(d, m, n, l + 1)'
      BY <1>5, <2>1, <3>1, <3>2 DEF InMaster
    <3>4. Walked(d, m, n, l + 1)'
      BY <1>1, <1>7, <2>4, <3>1, <3>3 DEF Walked, Stage
    <3> QED BY <2>1, <3>4
  <2>7. CASE p.sys_type = Extended
    <3>0. Chained(d, m, n) /\ l + 1 = m
      BY <2>5, <2>7, ChainOf
    <3>1. /\ EndOf(p) = d.sectors - 1 /\ p.start_sector = LocalTable(d, 1)
          /\ 1 \in 1 .. n /\ LocalTable(d, 1) \in DOMAIN d.table
          /\ Logical(d, 1) =
               [d.table[LocalTable(d, 1)][1] EXCEPT !.start_sector = @ + LocalTable(d, 1)]
      <4>1. 1 \in 1 .. n
        BY <1>0, <3>0 DEF Chained
      <4> QED BY <2>2, <3>0, <4>1 DEF Chained
    <3>2. calls' = <<Local(d, m + 1), Primary(m + 1)>>
      <4>1. l + 2 = m + 1
        BY <1>0, <3>0
      <4> QED BY <1>6, <2>2, <2>7, <3>1, <4>1, Stack DEF Local
    <3>3. PICK t : t = LocalTable(d, 1) /\ t \in DOMAIN d.table
      BY <3>1
    <3>4. PICK c \in Buffer : /\ c = Fetched(t)
                              /\ c[1] = [d.table[t][1] EXCEPT !.start_sector = @ + t]
                              /\ (\A i \in 2 .. 4 : c[i] = d.table[t][i]) /\ c[5] = NoEntry
      <4>1. d.sectors <= REACH
        BY DEF Shaped
      <4> QED BY <3>3, <4>1, FetchTable
    <3>5. BUF' = c
      BY <1>6, <2>2, <2>7, <3>1, <3>3, <3>4
    <3>6. Buffered(d, 1)'
      BY <3>1, <3>3, <3>4, <3>5 DEF Buffered
    <3>7. l + 1 = m + 1 - 1
      BY <1>0, <3>0
    <3>8. InLocal(d, m, n, l + 1)'
      BY <3>1, <3>2, <3>6, <3>7 DEF InLocal
    <3>9. Walked(d, m, n, l + 1)'
      BY <1>7, <2>4, <3>5, <3>8 DEF Walked, Stage
    <3> QED BY <2>1, <3>9
  <2> QED BY <2>6, <2>7
<1>9. CASE l = m
  <2>1. n = 0 /\ l = m + n /\ l \in 0 .. m + n
    BY <1>0, <1>9
  <2>2. p.start_sector = 0
    <3>1. CASE m = 4
      BY <1>1, <1>4, <1>9, <3>1 DEF NoEntry
    <3>2. CASE m # 4
      <4>1. l + 1 \in 1 .. 4 /\ ~(l + 1 <= m)
        BY <1>0, <1>9, <3>2
      <4> QED BY <1>1, <1>4, <4>1 DEF Shaped
    <3> QED BY <3>1, <3>2
  <2>3. calls' = <<>> /\ BUF' = BUF /\ listing' = listing
    BY <1>6, <2>2
  <2>4. Over(d, m, n, l)'
    BY <2>1, <2>3 DEF Over
  <2>5. Walked(d, m, n, l)'
    BY <1>1, <1>7, <2>3, <2>4 DEF Walked, Stage
  <2> QED BY <2>1, <2>5
<1> QED BY <1>0, <1>8, <1>9

\* The next logical partition is listed.
LEMMA LocalStep ==
  ASSUME NEW d \in Disks, NEW m, NEW n, Shaped(d, m, n), Chained(d, m, n), BUF \in Buffer,
         NEW l \in Nat, listing = Listed(d, l), InLocal(d, m, n, l), ~overflow, LoadExtendedPartitions
  PROVE  \E k \in 0 .. m + n : Walked(d, m, n, k)'
<1>0. m \in Nat /\ n \in Nat /\ m = Primaries(d)
  BY DEF Shaped
<1>1. PICK k \in 1 .. n : /\ l = m + k - 1 /\ calls = <<Local(d, m + k), Primary(m + 1)>>
                          /\ Buffered(d, k)
  BY DEF InLocal
<1>2. l + 1 = m + k /\ l + 1 \in 0 .. m + n /\ ~(m + k <= m) /\ (m + k) - m = k
  BY <1>0, <1>1
<1>3. Head(calls) = Local(d, m + k) /\ Tail(calls) = <<Primary(m + 1)>>
  BY <1>1, Stack
<1>4. PICK p : p = BUF[1] /\ p = Logical(d, k)
  BY <1>1 DEF Buffered
<1>5. EndOf(p) <= d.sectors - 1 /\ p.sys_type # Extended /\ EndOf(p) + 1 \in Nat /\ p \in Partition
  BY <1>4 DEF Chained
<1>6. ~(EndOf(p) > d.sectors - 1)
  <2>1. EndOf(p) \in Int /\ d.sectors \in Nat
    BY <1>0, <1>5, EndIs DEF Shaped
  <2> QED BY <1>5, <2>1
<1>7. /\ calls' = <<Following(d, EndOf(p), m + k)>> \o <<Primary(m + 1)>>
      /\ listing' = Append(listing, Line(p, EndOf(p), m + k))
  <2>1. Head(calls).end = d.sectors - 1 /\ Head(calls).pCount = m + k
    BY <1>3 DEF Local
  <2> QED BY <1>3, <1>4, <1>5, <1>6, <2>1 DEF LoadExtendedPartitions, Following
<1>8. overflow' = overflow /\ BUF' = BUF
  BY DEF LoadExtendedPartitions
<1>9. Linked(d, l + 1) = p
  BY <1>0, <1>2, <1>4 DEF Linked
<1>10. listing' = Listed(d, l + 1)
  BY <1>2, <1>7, <1>9, OneMore
<1>11. calls' = <<Following(d, EndOf(Logical(d, k)), m + k), Primary(m + 1)>>
  BY <1>4, <1>7, Stack
<1>12. Found(d, m, n, l + 1)'
  BY <1>1, <1>2, <1>8, <1>11 DEF Found, Buffered
<1>13. Walked(d, m, n, l + 1)'
  BY <1>8, <1>10, <1>12 DEF Walked, Stage
<1> QED BY <1>2, <1>13

\* The table behind it is read, or there is none.
LEMMA FoundStep ==
  ASSUME NEW d \in Disks, disk = d, NEW m, NEW n, Shaped(d, m, n), Chained(d, m, n), BUF \in Buffer,
         NEW l \in Nat, listing = Listed(d, l), Found(d, m, n, l), ~overflow, Follow
  PROVE  \E k \in 0 .. m + n : Walked(d, m, n, k)'
<1>0. m \in Nat /\ n \in Nat /\ d.sectors <= REACH /\ d.sectors \in Nat
  BY DEF Shaped
<1>1. PICK k \in 1 .. n : /\ l = m + k /\ Buffered(d, k)
                          /\ calls = <<Following(d, EndOf(Logical(d, k)), m + k), Primary(m + 1)>>
  BY DEF Found
<1>2. l \in 0 .. m + n /\ k \in Nat /\ (m + k) + 1 = m + (k + 1)
  BY <1>0, <1>1
<1>3. Head(calls) = Following(d, EndOf(Logical(d, k)), m + k) /\ Tail(calls) = <<Primary(m + 1)>>
  BY <1>1, Stack
<1>4. /\ calls' = <<Local(d, m + (k + 1))>> \o <<Primary(m + 1)>>
      /\ BUF' = Fetched(EndOf(Logical(d, k)) + 1)
  <2>1. /\ Head(calls).end = d.sectors - 1 /\ Head(calls).pCount = m + k
        /\ Head(calls).currEnd = EndOf(Logical(d, k))
    BY <1>3 DEF Following
  <2> QED BY <1>2, <1>3, <2>1 DEF Follow, Local
<1>5. calls' = <<Local(d, m + (k + 1)), Primary(m + 1)>>
  BY <1>4, Stack
<1>6. overflow' = overflow /\ listing' = listing
  BY DEF Follow
<1>7. CASE k # n
  <2>1. k + 1 \in 1 .. n /\ l = m + (k + 1) - 1
    BY <1>0, <1>1, <1>2, <1>7
  <2>2. PICK t : t = LocalTable(d, k + 1) /\ t = EndOf(Logical(d, k)) + 1 /\ t \in DOMAIN d.table
    BY <1>7, <2>1 DEF Chained
  <2>3. PICK c \in Buffer : /\ c = Fetched(t)
                            /\ c[1] = [d.table[t][1] EXCEPT !.start_sector = @ + t]
                            /\ (\A i \in 2 .. 4 : c[i] = d.table[t][i]) /\ c[5] = NoEntry
    BY <1>0, <2>2, FetchTable
  <2>4. BUF' = c
    BY <1>4, <2>2, <2>3
  <2>5. Logical(d, k + 1) = [d.table[t][1] EXCEPT !.start_sector = @ + t]
    BY <2>1, <2>2 DEF Chained
  <2>6. Buffered(d, k + 1)'
    BY <2>2, <2>3, <2>4, <2>5 DEF Buffered
  <2>7. InLocal(d, m, n, l)'
    BY <1>5, <2>1, <2>6 DEF InLocal
  <2>8. Walked(d, m, n, l)'
    BY <1>6, <2>4, <2>7 DEF Walked, Stage
  <2> QED BY <1>2, <2>8
<1>8. CASE k = n
  <2>1. EndOf(Logical(d, k)) + 1 = d.sectors
    <3>1. EndOf(Logical(d, k)) = d.sectors - 1
      BY <1>8 DEF Chained
    <3> QED BY <1>0, <3>1
  <2>2. PICK c \in Buffer : /\ c = Fetched(d.sectors)
                            /\ EndOf(c[1]) > d.sectors - 1 /\ c[m + 1].start_sector = 0
    BY <1>1, <1>8, FetchPast
  <2>3. BUF' = c
    BY <1>4, <2>1, <2>2
  <2>4. m + (n + 1) = m + n + 1 /\ n # 0
    BY <1>0 DEF Chained
  <2>5. Past(d, m, n, l)'
    BY <1>1, <1>5, <1>8, <2>2, <2>3, <2>4 DEF Past
  <2>6. Walked(d, m, n, l)'
    BY <1>6, <2>3, <2>5 DEF Walked, Stage
  <2> QED BY <1>2, <2>6
<1> QED BY <1>7, <1>8

\* The calls return.
LEMMA PastStep ==
  ASSUME NEW d, NEW m, NEW n, Shaped(d, m, n), BUF \in Buffer,
         NEW l \in 0 .. m + n, listing = Listed(d, l), Past(d, m, n, l), ~overflow,
         LoadExtendedPartitions
  PROVE  Walked(d, m, n, l)'
<1>1. calls = <<Local(d, m + n + 1), Primary(m + 1)>>
  BY DEF Past
<1>2. Head(calls) = Local(d, m + n + 1) /\ Tail(calls) = <<Primary(m + 1)>>
  BY <1>1, Stack
<1>3. EndOf(BUF[1]) > Head(calls).end
  BY <1>2 DEF Past, Local
<1>4. calls' = <<Primary(m + 1)>> /\ listing' = listing /\ BUF' = BUF /\ overflow' = overflow
  BY <1>2, <1>3 DEF LoadExtendedPartitions
<1>5. Back(d, m, n, l)'
  BY <1>4 DEF Past, Back
<1> QED BY <1>4, <1>5 DEF Walked, Stage

\* In the master table's call the buffer has no entry left.
LEMMA BackStep ==
  ASSUME NEW d, NEW m, NEW n, Shaped(d, m, n), BUF \in Buffer,
         NEW l \in 0 .. m + n, listing = Listed(d, l), Back(d, m, n, l), ~overflow, LoadPartitions
  PROVE  Walked(d, m, n, l)'
<1>1. calls = <<Primary(m + 1)>>
  BY DEF Back
<1>2. Head(calls) = Primary(m + 1) /\ Tail(calls) = <<>>
  BY <1>1, Stack
<1>3. BUF[Head(calls).p].start_sector = 0
  BY <1>2 DEF Back, Primary
<1>4. calls' = <<>> /\ listing' = listing /\ BUF' = BUF /\ overflow' = overflow
  BY <1>2, <1>3 DEF LoadPartitions
<1>5. Over(d, m, n, l)'
  BY <1>4 DEF Back, Over
<1> QED BY <1>4, <1>5 DEF Walked, Stage

\* What is called in each stage.
LEMMA Calling ==
  ASSUME NEW d, NEW m, NEW n, NEW l, Stage(d, m, n, l)
  PROVE  /\ calls # <<>> => ~Over(d, m, n, l)
         /\ calls # <<>> /\ Head(calls).f = "LoadPartitions" => InMaster(d, m, n, l) \/ Back(d, m, n, l)
         /\ calls # <<>> /\ Head(calls).f = "LoadExtendedPartitions" =>
              InLocal(d, m, n, l) \/ Past(d, m, n, l)
         /\ calls # <<>> /\ Head(calls).f = "Follow" => Found(d, m, n, l)
<1>1. CASE InMaster(d, m, n, l)
  <2>1. Head(calls) = Primary(l + 1)
    BY <1>1, Stack DEF InMaster
  <2>2. Head(calls).f = "LoadPartitions"
    BY <2>1 DEF Primary
  <2> QED BY <1>1, <2>2 DEF Over
<1>2. CASE InLocal(d, m, n, l)
  <2>1. PICK k : calls = <<Local(d, m + k), Primary(m + 1)>>
    BY <1>2 DEF InLocal
  <2>2. Head(calls) = Local(d, m + k)
    BY <2>1, Stack
  <2>3. Head(calls).f = "LoadExtendedPartitions"
    BY <2>2 DEF Local
  <2> QED BY <1>2, <2>3 DEF Over
<1>3. CASE Found(d, m, n, l)
  <2>1. PICK k : calls = <<Following(d, EndOf(Logical(d, k)), m + k), Primary(m + 1)>>
    BY <1>3 DEF Found
  <2>2. Head(calls) = Following(d, EndOf(Logical(d, k)), m + k)
    BY <2>1, Stack
  <2>3. Head(calls).f = "Follow"
    BY <2>2 DEF Following
  <2> QED BY <1>3, <2>3 DEF Over
<1>4. CASE Past(d, m, n, l)
  <2>1. Head(calls) = Local(d, m + n + 1)
    BY <1>4, Stack DEF Past
  <2>2. Head(calls).f = "LoadExtendedPartitions"
    BY <2>1 DEF Local
  <2> QED BY <1>4, <2>2 DEF Over
<1>5. CASE Back(d, m, n, l)
  <2>1. Head(calls) = Primary(m + 1)
    BY <1>5, Stack DEF Back
  <2>2. Head(calls).f = "LoadPartitions"
    BY <2>1 DEF Primary
  <2> QED BY <1>5, <2>2 DEF Over
<1>6. CASE Over(d, m, n, l)
  BY <1>6 DEF Over
<1> QED BY <1>1, <1>2, <1>3, <1>4, <1>5, <1>6 DEF Stage

\* Every step of Partitions leads from stage to stage.
LEMMA WalkStep ==
  ASSUME WalkInv, PartitionNext PROVE WalkInv'
<1>0. PICK d \in Disks : disk = d /\ disk' = d
  BY DEF WalkInv, PartitionNext, LoadPartitions, LoadExtendedPartitions, Follow, Overflow
<1>1. SUFFICES ASSUME WithoutGaps(d)
               PROVE  \E m, n : Shaped(d, m, n) /\ \E l \in 0 .. m + n : Walked(d, m, n, l)'
  BY <1>0 DEF WalkInv
<1>2. PICK m, n : Shaped(d, m, n) /\ \E l \in 0 .. m + n : Walked(d, m, n, l)
  BY <1>0, <1>1 DEF WalkInv
<1>3. PICK l \in 0 .. m + n : Walked(d, m, n, l)
  BY <1>2
<1>4. m \in Nat /\ n \in Nat /\ m + n < STACK /\ l \in Nat /\ STACK \in Nat
  BY <1>2, PartitionAssumption DEF Shaped
<1>5. listing = Listed(d, l) /\ BUF \in Buffer /\ ~overflow /\ Stage(d, m, n, l)
  BY <1>3 DEF Walked
<1>6. Len(listing) # STACK
  <2>1. Len(listing) = l
    BY <1>4, <1>5, OneMore
  <2> QED BY <1>4, <2>1
<1>7. n # 0 => Chained(d, m, n)
  BY <1>1, <1>2, ChainOf
<1>8. CASE LoadPartitions
  <2>1. InMaster(d, m, n, l) \/ Back(d, m, n, l)
    BY <1>5, <1>8, Calling DEF LoadPartitions, Calls
  <2>2. CASE InMaster(d, m, n, l)
    BY <1>0, <1>1, <1>2, <1>4, <1>5, <1>8, <2>2, MasterStep
  <2>3. CASE Back(d, m, n, l)
    BY <1>2, <1>3, <1>5, <1>8, <2>3, BackStep
  <2> QED BY <1>2, <2>1, <2>2, <2>3
<1>9. CASE LoadExtendedPartitions
  <2>1. InLocal(d, m, n, l) \/ Past(d, m, n, l)
    BY <1>5, <1>9, Calling DEF LoadExtendedPartitions, Calls
  <2>2. CASE InLocal(d, m, n, l)
    <3>1. n # 0
      BY <1>4, <2>2 DEF InLocal
    <3> QED BY <1>2, <1>4, <1>5, <1>7, <1>9, <2>2, <3>1, LocalStep
  <2>3. CASE Past(d, m, n, l)
    BY <1>2, <1>3, <1>5, <1>9, <2>3, PastStep
  <2> QED BY <1>2, <2>1, <2>2, <2>3
<1>10. CASE Follow
  <2>1. Found(d, m, n, l)
    BY <1>5, <1>10, Calling DEF Follow, Calls
  <2>2. n # 0
    BY <1>4, <2>1 DEF Found
  <2> QED BY <1>0, <1>2, <1>4, <1>5, <1>7, <1>10, <2>1, <2>2, FoundStep
<1>11. CASE Overflow
  BY <1>6, <1>11 DEF Overflow
<1> QED BY <1>8, <1>9, <1>10, <1>11 DEF PartitionNext

\* What is listed so far, and in the end.
LEMMA WalkLists ==
  ASSUME WalkInv, WithoutGaps(disk)
  PROVE  /\ IsPrefix(listing, LinkList(disk))
         /\ PartitionsDone => listing = LinkList(disk) /\ ~overflow
<1>1. PICK d \in Disks : d = disk
  BY DEF WalkInv
<1>2. PICK m, n : Shaped(d, m, n) /\ \E l \in 0 .. m + n : Walked(d, m, n, l)
  BY <1>1 DEF WalkInv
<1>3. PICK l \in 0 .. m + n : Walked(d, m, n, l)
  BY <1>2
<1>4. m \in Nat /\ n \in Nat /\ l \in Nat /\ m = Primaries(d) /\ n = Logicals(d)
  BY <1>2 DEF Shaped
<1>5. listing = Listed(d, l) /\ ~overflow /\ Stage(d, m, n, l)
  BY <1>3 DEF Walked
<1>6. LinkList(d) = Listed(d, m + n)
  BY <1>4 DEF LinkList, Listed
<1>7. calls = <<>> => l = m + n
  BY <1>5, Stack DEF Stage, InMaster, InLocal, Found, Past, Back, Over
<1>8. IsPrefix(Listed(d, l), Listed(d, m + n))
  <2> DEFINE e(k) == Line(Linked(d, k), EndOf(Linked(d, k)), k)
             U == {e(k) : k \in 1 .. m + n}
  <2>1. PICK s, t : s = Listed(d, l) /\ t = Listed(d, m + n)
    OBVIOUS
  <2>2. s = [k \in 1 .. l |-> e(k)] /\ t = [k \in 1 .. m + n |-> e(k)]
    BY <2>1 DEF Listed
  <2>3. PICK w \in Nat : w = m + n /\ l <= w
    BY <1>4
  <2>4. (\A k \in 1 .. w : e(k) \in U) /\ \A k \in 1 .. l : k \in 1 .. w
    BY <2>3
  <2> HIDE DEF e, U
  <2>5. s \in [1 .. l -> U] /\ t \in [1 .. w -> U]
    BY <2>2, <2>3, <2>4
  <2>6. s \in Seq(U) /\ Len(s) = l
    BY <1>4, <2>5, IsSequence
  <2>7. t \in Seq(U) /\ Len(t) = w
    BY <2>5, IsSequence
  <2>8. \A k \in 1 .. l : s[k] = t[k]
    BY <2>2, <2>3, <2>4
  <2>9. IsPrefix(s, t)
    BY <1>4, <2>3, <2>6, <2>7, <2>8 DEF IsPrefix
  <2> QED BY <2>1, <2>9
<1> QED BY <1>1, <1>5, <1>6, <1>7, <1>8 DEF PartitionsDone

\* On a disk without gaps Partitions lists every partition, once, in order and with
\* the right number, and stops: for every number and size of partitions, the disk
\* whose last sector is the last one that a u32 reaches included.
THEOREM AllPartitionsListed == Spec => []PartitionsListed
<1> DEFINE Inv == program = "Partitions" => WalkInv
<1>1. Init => Inv
  BY WalkStart
<1>2. Inv /\ [Next]_vars => Inv'
  <2> SUFFICES ASSUME Inv, [Next]_vars, program' = "Partitions" PROVE WalkInv'
    OBVIOUS
  <2>1. program = "Partitions" /\ WalkInv
    BY DEF Next, Partitions, Myprintf, Showblock, Finished, vars
  <2>2. CASE Partitions
    BY <2>1, <2>2, WalkStep DEF Partitions
  <2>3. CASE UNCHANGED partitionVars
    <3>1. disk' = disk /\ BUF' = BUF /\ calls' = calls /\ listing' = listing /\ overflow' = overflow
      BY <2>3 DEF partitionVars
    <3> QED BY <2>1, <3>1 DEF WalkInv, Walked, Stage, InMaster, InLocal, Found, Past, Back, Over, Buffered
  <2>4. Partitions \/ UNCHANGED partitionVars
    BY <2>1 DEF Next, Myprintf, Showblock, Finished, vars
  <2> QED BY <2>2, <2>3, <2>4
<1>3. Inv => PartitionsListed
  BY WalkLists DEF PartitionsListed
<1> QED BY <1>1, <1>2, <1>3, PTL DEF Spec

-----------------------------------------------------------------------------
(***************************************************************************)
(* Division.                                                               *)
(***************************************************************************)

\* A product of naturals grows with its factors.
LEMMA Grows ==
  ASSUME NEW b \in Nat, NEW p \in Nat, NEW q \in Nat, p <= q
  PROVE  b * p <= b * q /\ b * p \in Nat /\ b * q \in Nat
<1>1. PICK d \in Nat : q = p + d
  <2>1. q - p \in Nat /\ q = p + (q - p)
    OBVIOUS
  <2> QED BY <2>1
<1>2. b * q = b * p + b * d
  BY <1>1, Distribute
<1>3. b * p \in Nat /\ b * q \in Nat /\ b * d \in Nat
  OBVIOUS
<1> QED BY <1>2, <1>3

\* A natural and its quotient and remainder.
LEMMA Divided ==
  ASSUME NEW x \in Nat, NEW b \in Nat, b >= 2
  PROVE  \E y \in Nat, r \in 0 .. b - 1 :
           /\ y = x \div b /\ r = x % b /\ x = b * y + r
           /\ b * y \in Nat /\ (x # 0 => y < x)
<1>1. b \in Nat \ {0} /\ x \in Int
  OBVIOUS
<1>2. PICK y \in Int, r \in 0 .. b - 1 : y = x \div b /\ r = x % b /\ x = b * y + r
  BY <1>1, DivMod
<1>3. y \in Nat
  <2>1. SUFFICES ASSUME y < 0 PROVE FALSE
    OBVIOUS
  <2>2. PICK z \in Nat : z = -y - 1 /\ y = -(z + 1)
    BY <2>1
  <2>3. b * y = -(b * (z + 1)) /\ b * (z + 1) = b * z + b /\ b * z \in Nat
    BY <2>2
  <2> QED BY <1>2, <2>3
<1>4. b * y \in Nat
  BY <1>3
<1>5. ASSUME x # 0 PROVE y < x
  <2>1. CASE y = 0
    BY <1>5, <2>1
  <2>2. CASE y # 0
    <3>1. 2 * y <= b * y
      <4>1. y * 2 <= y * b /\ y * 2 = 2 * y /\ y * b = b * y
        BY <1>3, Grows
      <4> QED BY <4>1
    <3> QED BY <1>2, <1>3, <1>4, <2>2, <3>1
  <2> QED BY <2>1, <2>2
<1> QED BY <1>2, <1>3, <1>4, <1>5

\* Dividing twice is dividing by the product.
LEMMA DivTwice ==
  ASSUME NEW x \in Nat, NEW b \in Nat \ {0}, NEW c \in Nat \ {0}
  PROVE  (x \div b) \div c = x \div (b * c)
<1>1. PICK y \in Int, r \in 0 .. b - 1 : y = x \div b /\ r = x % b /\ x = b * y + r
  BY DivMod
<1>2. PICK s \in Int, t \in 0 .. c - 1 : s = y \div c /\ t = y % c /\ y = c * s + t
  BY DivMod
<1>3. PICK m \in Nat \ {0} : m = b * c
  OBVIOUS
<1>4. PICK q \in Int, u \in 0 .. m - 1 : q = x \div m /\ u = x % m /\ x = m * q + u
  BY DivMod
<1>5. b * y = b * (c * s) + b * t /\ b * (c * s) = m * s /\ m * s \in Int /\ b * t \in Nat
  <2>1. c * s \in Int /\ t \in Int
    OBVIOUS
  <2>2. b * y = b * (c * s) + b * t
    BY <1>2, <2>1, Distribute
  <2>3. b * (c * s) = (b * c) * s
    OBVIOUS
  <2> QED BY <1>3, <2>2, <2>3
<1>6. PICK w \in 0 .. m - 1 : w = b * t + r
  <2>1. b * t <= b * (c - 1)
    BY Grows
  <2>2. b * (c - 1) = m - b
    <3>1. b * c = b * (c - 1) + b * 1
      <4>1. c = (c - 1) + 1 /\ c - 1 \in Int /\ 1 \in Int
        OBVIOUS
      <4> QED BY <4>1, Distribute
    <3>2. b * (c - 1) \in Int /\ b * 1 = b
      OBVIOUS
    <3> QED BY <1>3, <3>1, <3>2
  <2> QED BY <1>5, <2>1, <2>2
<1>7. m * s + w = m * q + u
  <2>1. PICK by \in Int, ms \in Int, bt \in Int : by = b * y /\ ms = m * s /\ bt = b * t
    BY <1>5
  <2>2. by = ms + bt /\ w = bt + r /\ x = by + r
    BY <1>1, <1>5, <1>6, <2>1
  <2>3. ms + w = x
    BY <2>2
  <2> QED BY <1>4, <2>1, <2>3
<1>8. s = q
  BY <1>7, SameMultiple
<1> QED BY <1>1, <1>2, <1>3, <1>4, <1>8

-----------------------------------------------------------------------------
(***************************************************************************)
(* Powers.                                                                 *)
(***************************************************************************)

\* p holds the powers of b up to the n-th.
IsPower(p, b, n) == p = [k \in 0 .. n |-> IF k = 0 THEN 1 ELSE b * p[k - 1]]

\* There are such powers.
LEMMA PowersExist ==
  ASSUME NEW b
  PROVE  \A n \in Nat : \E p : IsPower(p, b, n)
<1> DEFINE S == {n \in Nat : \E p : IsPower(p, b, n)}
<1>1. 0 \in S
  <2>1. IsPower([k \in 0 .. 0 |-> 1], b, 0)
    BY DEF IsPower
  <2> QED BY <2>1
<1>2. ASSUME NEW n \in Nat, n \in S PROVE n + 1 \in S
  <2>1. PICK w : IsPower(w, b, n)
    BY <1>2
  <2> DEFINE v == [k \in 0 .. n + 1 |-> IF k = n + 1 THEN b * w[n] ELSE w[k]]
  <2>2. ASSUME NEW k \in 0 .. n + 1 PROVE v[k] = IF k = 0 THEN 1 ELSE b * v[k - 1]
    <3>1. CASE k = n + 1
      <4>1. n \in 0 .. n + 1 /\ n # n + 1 /\ k - 1 = n /\ k # 0
        BY <3>1
      <4>2. v[k] = b * w[n] /\ v[n] = w[n]
        BY <3>1, <4>1
      <4> QED BY <4>1, <4>2
    <3>2. CASE k # n + 1
      <4>1. k \in 0 .. n /\ v[k] = w[k] /\ (k # 0 => v[k - 1] = w[k - 1])
        BY <3>2
      <4> QED BY <2>1, <4>1 DEF IsPower
    <3> QED BY <3>1, <3>2
  <2>3. IsPower(v, b, n + 1)
    BY <2>2 DEF IsPower
  <2> QED BY <2>3
<1> HIDE DEF S
<1>3. \A n \in Nat : n \in S
  BY <1>1, <1>2, NaturalsIn
<1> QED BY <1>3 DEF S

\* The powers that the numerals are made with.
LEMMA PowerIs ==
  ASSUME NEW b \in Nat, b >= 2
  PROVE  /\ Power(b)[0] = 1
         /\ \A k \in 1 .. WORD : Power(b)[k] = b * Power(b)[k - 1]
         /\ \A k \in 0 .. WORD : Power(b)[k] \in Nat \ {0}
<1>0. WORD \in Nat
  BY PrintAssumption
<1>1. \E p : IsPower(p, b, WORD)
  BY <1>0, PowersExist
<1>2. PICK p : p = Power(b) /\ IsPower(p, b, WORD)
  <2>1. Power(b) = CHOOSE p : IsPower(p, b, WORD)
    BY DEF Power, IsPower
  <2> QED BY <1>1, <2>1
<1>3. \A k \in 0 .. WORD : p[k] = IF k = 0 THEN 1 ELSE b * p[k - 1]
  BY <1>2 DEF IsPower
<1> DEFINE S == {k \in Nat : k <= WORD => p[k] \in Nat \ {0}}
<1>4. 0 \in S
  BY <1>0, <1>3
<1>5. ASSUME NEW k \in Nat, k \in S PROVE k + 1 \in S
  <2>1. CASE k + 1 <= WORD
    <3>1. k + 1 \in 0 .. WORD /\ k + 1 # 0 /\ (k + 1) - 1 = k /\ p[k] \in Nat \ {0}
      BY <1>0, <1>5, <2>1
    <3>2. p[k + 1] = b * p[(k + 1) - 1]
      BY <1>3, <3>1
    <3>3. PICK c \in Nat \ {0} : c = p[k]
      BY <3>1
    <3>4. b * c \in Nat \ {0}
      OBVIOUS
    <3> QED BY <3>1, <3>2, <3>3, <3>4
  <2>2. CASE ~(k + 1 <= WORD)
    BY <2>2
  <2> QED BY <2>1, <2>2
<1> HIDE DEF S
<1>6. \A k \in Nat : k \in S
  BY <1>4, <1>5, NaturalsIn
<1>7. \A k \in 0 .. WORD : p[k] \in Nat \ {0}
  BY <1>0, <1>6 DEF S
<1>8. p[0] = 1 /\ \A k \in 1 .. WORD : p[k] = b * p[k - 1]
  BY <1>0, <1>3
<1> QED BY <1>2, <1>7, <1>8

-----------------------------------------------------------------------------
(***************************************************************************)
(* Numerals.                                                               *)
(***************************************************************************)

\* f holds what rpu() prints for the numbers up to n.
IsDigits(f, b, n) ==
  f = [y \in 0 .. n |-> IF y = 0 THEN <<>> ELSE DigitAfter(f[y \div b], ctable[(y % b) + 1])]

\* rpu() calls itself with a smaller number, and so is defined.
LEMMA DigitsExist ==
  ASSUME NEW b \in Nat, b >= 2
  PROVE  \A n \in Nat : \E f : IsDigits(f, b, n)
<1> DEFINE S == {n \in Nat : \E f : IsDigits(f, b, n)}
<1>1. 0 \in S
  <2>1. IsDigits([k \in 0 .. 0 |-> <<>>], b, 0)
    BY DEF IsDigits
  <2> QED BY <2>1
<1>2. ASSUME NEW n \in Nat, n \in S PROVE n + 1 \in S
  <2>1. PICK w : IsDigits(w, b, n)
    BY <1>2
  <2>w. \A k \in 0 .. n : w[k] = IF k = 0 THEN <<>> ELSE DigitAfter(w[k \div b], ctable[(k % b) + 1])
    BY <2>1 DEF IsDigits
  <2>e. PICK e : e = DigitAfter(w[(n + 1) \div b], ctable[((n + 1) % b) + 1])
    OBVIOUS
  <2> DEFINE v == [k \in 0 .. n + 1 |-> IF k = n + 1 THEN e ELSE w[k]]
  <2>v. /\ v[n + 1] = e /\ \A k \in 0 .. n : v[k] = w[k]
        /\ v = [k \in 0 .. n + 1 |-> v[k]]
    OBVIOUS
  <2> HIDE DEF v
  <2>2. ASSUME NEW k \in 0 .. n + 1
        PROVE  v[k] = IF k = 0 THEN <<>> ELSE DigitAfter(v[k \div b], ctable[(k % b) + 1])
    <3>0. CASE k = 0
      <4>1. k \in 0 .. n
        BY <3>0
      <4> QED BY <3>0, <4>1, <2>v, <2>w
    <3>d. ASSUME k # 0 PROVE k \div b \in 0 .. n
      <4>1. k \in Nat
        OBVIOUS
      <4>2. PICK y \in Nat, r \in 0 .. b - 1 : y = k \div b /\ (k # 0 => y < k)
        BY <4>1, Divided
      <4> QED BY <3>d, <4>2
    <3>1. CASE k = n + 1
      <4>1. k # 0
        BY <3>1
      <4>2. v[k \div b] = w[k \div b]
        BY <2>v, <3>d, <4>1
      <4>3. v[k] = DigitAfter(w[k \div b], ctable[(k % b) + 1])
        BY <2>e, <2>v, <3>1
      <4> QED BY <4>1, <4>2, <4>3
    <3>2. CASE k # n + 1 /\ k # 0
      <4>1. k \in 0 .. n
        BY <3>2
      <4>2. v[k \div b] = w[k \div b] /\ v[k] = w[k]
        BY <2>v, <3>d, <3>2, <4>1
      <4>3. w[k] = DigitAfter(w[k \div b], ctable[(k % b) + 1])
        BY <2>w, <3>2, <4>1
      <4> QED BY <3>2, <4>2, <4>3
    <3> QED BY <3>0, <3>1, <3>2
  <2>3. IsDigits(v, b, n + 1)
    BY <2>2, <2>v DEF IsDigits
  <2> QED BY <2>3
<1> HIDE DEF S
<1>3. \A n \in Nat : n \in S
  BY <1>1, <1>2, NaturalsIn
<1> QED BY <1>3 DEF S

\* n is how many digits x takes.
IsLength(x, b, n) ==
  n \in 1 .. WORD /\ Power(b)[n] > x /\ \A j \in 1 .. n - 1 : Power(b)[j] <= x

\* The i-th of n digits of x.
Digit(x, b, n, i) == ctable[((x \div Power(b)[n - i]) % b) + 1]

\* The numeral has as many digits as it takes.
LEMMA NumeralIs ==
  ASSUME NEW b, NEW x \in Nat, NEW n, IsLength(x, b, n),
         \A k \in 1 .. WORD : Power(b)[k] \in Nat
  PROVE  Numeral(x, b) = [i \in 1 .. n |-> Digit(x, b, n, i)]
<1>1. n \in 1 .. WORD /\ Power(b)[n] > x /\ \A j \in 1 .. n - 1 : Power(b)[j] <= x
  BY DEF IsLength
<1>2. PICK m : m = Places(x, b)
  OBVIOUS
<1>3. m \in 1 .. WORD /\ Power(b)[m] > x /\ \A j \in 1 .. m - 1 : Power(b)[j] <= x
  BY <1>1, <1>2 DEF Places
<1>4. m = n
  <2>0. WORD \in Nat
    BY PrintAssumption
  <2>1. ~(m < n)
    <3>1. SUFFICES ASSUME m < n PROVE FALSE
      OBVIOUS
    <3>2. m \in 1 .. n - 1
      BY <1>1, <1>3, <2>0, <3>1
    <3>3. Power(b)[m] <= x /\ Power(b)[m] > x /\ Power(b)[m] \in Nat
      BY <1>1, <1>3, <3>2
    <3> QED BY <3>3
  <2>2. ~(n < m)
    <3>1. SUFFICES ASSUME n < m PROVE FALSE
      OBVIOUS
    <3>2. n \in 1 .. m - 1
      BY <1>1, <1>3, <2>0, <3>1
    <3>3. Power(b)[n] <= x /\ Power(b)[n] > x /\ Power(b)[n] \in Nat
      BY <1>1, <1>3, <3>2
    <3> QED BY <3>3
  <2> QED BY <1>1, <1>3, <2>0, <2>1, <2>2
<1> QED BY <1>2, <1>4 DEF Numeral, Digit

\* The digits that rpu() prints are those of the numeral.
LEMMA RpuIsNumeral ==
  ASSUME NEW b \in Nat, b >= 2, NEW x \in 1 .. WORD - 1
  PROVE  /\ rpu(x, b) = Numeral(x, b)
         /\ \E n \in 1 .. WORD : Numeral(x, b) = [i \in 1 .. n |-> Digit(x, b, n, i)]
<1>0. WORD \in Nat /\ WORD - 1 \in Nat
  BY PrintAssumption
<1>1. PICK f : /\ IsDigits(f, b, WORD - 1) /\ rpu(x, b) = f[x]
  <2>1. \E f : IsDigits(f, b, WORD - 1)
    BY <1>0, DigitsExist
  <2>2. rpu(x, b) = (CHOOSE f : IsDigits(f, b, WORD - 1))[x]
    BY DEF rpu, IsDigits
  <2> QED BY <2>1, <2>2
<1>2. /\ f[0] = <<>>
      /\ \A y \in 1 .. WORD - 1 : f[y] = Append(f[y \div b], ctable[(y % b) + 1])
  <2>1. \A y \in 0 .. WORD - 1 :
          f[y] = IF y = 0 THEN <<>> ELSE Append(f[y \div b], ctable[(y % b) + 1])
    BY <1>1 DEF IsDigits, DigitAfter
  <2>2. 0 \in 0 .. WORD - 1
    BY <1>0
  <2>3. ASSUME NEW y \in 1 .. WORD - 1 PROVE y \in 0 .. WORD - 1 /\ y # 0
    BY <1>0
  <2> QED BY <2>1, <2>2, <2>3
<1>p. /\ Power(b)[0] = 1
      /\ \A k \in 1 .. WORD : Power(b)[k] = b * Power(b)[k - 1]
      /\ \A k \in 0 .. WORD : Power(b)[k] \in Nat \ {0}
  BY PowerIs
<1> DEFINE Good(y) == \E n \in 1 .. y : IsLength(y, b, n) /\ f[y] = [i \in 1 .. n |-> Digit(y, b, n, i)]
           Bad == {y \in 1 .. WORD - 1 : ~Good(y)}
<1>3. ASSUME NEW y \in 1 .. WORD - 1, \A z \in 1 .. y - 1 : Good(z) PROVE Good(y)
  <2>0. y \in Nat /\ y < WORD /\ y # 0
    BY <1>0
  <2>1. PICK z \in Nat, r \in 0 .. b - 1 :
          z = y \div b /\ r = y % b /\ y = b * z + r /\ b * z \in Nat /\ z < y
    BY <2>0, Divided
  <2>2. f[y] = Append(f[z], ctable[r + 1])
    BY <1>2, <2>1
  <2>3. CASE z = 0
    <3>1. y = r /\ y < b /\ y % b = y
      BY <2>1, <2>3
    <3>2. Power(b)[1] = b
      <4>1. 1 \in 1 .. WORD /\ 1 - 1 = 0
        BY <1>0, <2>0
      <4>2. Power(b)[1] = b * Power(b)[1 - 1]
        BY <1>p, <4>1
      <4> QED BY <1>p, <4>1, <4>2
    <3>3. IsLength(y, b, 1)
      BY <1>0, <2>0, <3>1, <3>2 DEF IsLength
    <3>4. f[y] = <<ctable[y + 1]>>
      <4>1. PICK e : e = ctable[r + 1] /\ e = ctable[y + 1]
        BY <3>1
      <4>2. f[y] = Append(<<>>, e)
        BY <1>2, <2>2, <2>3, <4>1
      <4>3. Append(<<>>, e) = <<e>>
        OBVIOUS
      <4> QED BY <4>1, <4>2, <4>3
    <3>5. Digit(y, b, 1, 1) = ctable[y + 1]
      <4>1. 1 - 1 = 0 /\ y \div 1 = y
        BY <2>0
      <4> QED BY <1>p, <3>1, <4>1 DEF Digit
    <3>6. f[y] = [i \in 1 .. 1 |-> Digit(y, b, 1, i)]
      BY <3>4, <3>5
    <3>7. 1 \in 1 .. y
      BY <2>0
    <3> QED BY <3>3, <3>6, <3>7
  <2>4. CASE z # 0
    <3>1. z \in 1 .. y - 1
      BY <2>0, <2>1, <2>4
    <3>2. PICK n \in 1 .. z : IsLength(z, b, n) /\ f[z] = [i \in 1 .. n |-> Digit(z, b, n, i)]
      BY <1>3, <3>1
    <3>3. /\ n \in Nat /\ n + 1 \in 1 .. y /\ n + 1 \in 1 .. WORD /\ (n + 1) - 1 = n
          /\ n \in 1 .. WORD /\ n >= 1
      <4>1. n \in Nat /\ n >= 1 /\ n <= z /\ z < y /\ y < WORD
        BY <2>0, <2>1, <3>2
      <4> QED BY <1>0, <2>0, <4>1
    <3>4. /\ Power(b)[n] \in Nat \ {0} /\ Power(b)[n] > z
          /\ \A j \in 1 .. n - 1 : Power(b)[j] <= z /\ Power(b)[j] \in Nat
      <4>1. \A j \in 1 .. n - 1 : j \in 0 .. WORD
        BY <1>0, <3>3
      <4> QED BY <1>p, <3>2, <3>3, <4>1 DEF IsLength
    <3>5. Power(b)[n + 1] > y
      <4>1. PICK q \in Nat : q = Power(b)[n] /\ z + 1 <= q
        BY <2>1, <3>4
      <4>2. Power(b)[n + 1] = b * q
        BY <1>p, <3>3, <4>1
      <4>3. b * (z + 1) <= b * q /\ b * q \in Nat
        BY <4>1, Grows
      <4>4. b * (z + 1) = b * z + b
        OBVIOUS
      <4>5. PICK bz \in Nat, bq \in Nat : bz = b * z /\ bq = b * q
        BY <2>1, <4>3
      <4>6. bz + b <= bq /\ y = bz + r
        BY <2>1, <4>3, <4>4, <4>5
      <4> QED BY <4>2, <4>5, <4>6
    <3>6. ASSUME NEW j \in 1 .. (n + 1) - 1 PROVE Power(b)[j] <= y
      <4>1. j \in 1 .. WORD /\ j \in Nat
        BY <1>0, <3>3
      <4>2. PICK q \in Nat : q = Power(b)[j - 1] /\ q <= z
        <5>1. CASE j = 1
          <6>1. j - 1 = 0 /\ 1 <= z
            BY <2>4, <5>1
          <6> QED BY <1>p, <6>1
        <5>2. CASE j # 1
          <6>1. j - 1 \in 1 .. n - 1
            BY <3>3, <5>2
          <6> QED BY <3>4, <6>1
        <5> QED BY <5>1, <5>2
      <4>3. Power(b)[j] = b * q
        BY <1>p, <4>1, <4>2
      <4>4. b * q <= b * z /\ b * q \in Nat
        BY <4>2, Grows
      <4>5. PICK bz \in Nat, bq \in Nat : bz = b * z /\ bq = b * q
        BY <2>1, <4>4
      <4>6. bq <= bz /\ y = bz + r
        BY <2>1, <4>4, <4>5
      <4> QED BY <4>3, <4>5, <4>6
    <3>7. IsLength(y, b, n + 1)
      BY <3>3, <3>5, <3>6 DEF IsLength
    <3>8. ASSUME NEW i \in 1 .. n PROVE Digit(y, b, n + 1, i) = Digit(z, b, n, i)
      <4>1. n - i \in 0 .. WORD /\ (n + 1) - i \in 1 .. WORD /\ ((n + 1) - i) - 1 = n - i
        BY <1>0, <3>3
      <4>2. PICK c \in Nat \ {0} : c = Power(b)[n - i] /\ Power(b)[(n + 1) - i] = b * c
        BY <1>p, <4>1
      <4>3. y \div (b * c) = z \div c
        BY <2>0, <2>1, DivTwice
      <4> QED BY <4>2, <4>3 DEF Digit
    <3>9. Digit(y, b, n + 1, n + 1) = ctable[r + 1]
      <4>1. (n + 1) - (n + 1) = 0 /\ y \div 1 = y
        BY <2>0, <3>3
      <4> QED BY <1>p, <2>1, <4>1 DEF Digit
    <3>10. f[y] = [i \in 1 .. n + 1 |-> Digit(y, b, n + 1, i)]
      <4>1. PICK s, e : s = [i \in 1 .. n |-> Digit(z, b, n, i)] /\ e = ctable[r + 1]
        OBVIOUS
      <4>2. PICK U : (\A i \in 1 .. n : s[i] \in U) /\ e \in U
        <5>1. \A i \in 1 .. n : s[i] \in {s[j] : j \in 1 .. n} \cup {e}
          OBVIOUS
        <5> QED BY <5>1
      <4>3. s \in Seq(U) /\ Len(s) = n
        BY <3>3, <4>1, <4>2
      <4>4. Append(s, e) = [i \in 1 .. n + 1 |-> IF i = n + 1 THEN e ELSE s[i]]
        BY <4>2, <4>3, AppendIs
      <4>5. \A i \in 1 .. n + 1 : (IF i = n + 1 THEN e ELSE s[i]) = Digit(y, b, n + 1, i)
        <5>1. ASSUME NEW i \in 1 .. n + 1, i # n + 1 PROVE s[i] = Digit(y, b, n + 1, i)
          <6>1. i \in 1 .. n
            BY <3>3, <5>1
          <6> QED BY <3>8, <4>1, <6>1
        <5> QED BY <3>9, <4>1, <5>1
      <4>6. f[y] = Append(s, e)
        BY <2>2, <3>2, <4>1
      <4>7. Append(s, e) = [i \in 1 .. n + 1 |-> Digit(y, b, n + 1, i)]
        BY <4>4, <4>5
      <4> QED BY <4>6, <4>7
    <3> QED BY <3>3, <3>7, <3>10
  <2> QED BY <2>3, <2>4
<1>4. Bad = {}
  <2>1. SUFFICES ASSUME Bad # {} PROVE FALSE
    OBVIOUS
  <2>2. Bad \subseteq Nat
    BY <1>0
  <2> HIDE DEF Good
  <2>3. PICK y \in Bad : \A z \in Bad : y <= z
    BY <2>1, <2>2, LeastNumber
  <2>4. \A z \in 1 .. y - 1 : Good(z)
    BY <1>0, <2>3
  <2>5. Good(y)
    BY <1>3, <2>3, <2>4
  <2> QED BY <2>3, <2>5
<1>5. PICK n \in 1 .. x : IsLength(x, b, n) /\ f[x] = [i \in 1 .. n |-> Digit(x, b, n, i)]
  BY <1>4
<1>6. x \in Nat /\ \A k \in 1 .. WORD : Power(b)[k] \in Nat
  BY <1>0, <1>p
<1>7. Numeral(x, b) = [i \in 1 .. n |-> Digit(x, b, n, i)]
  BY <1>5, <1>6, NumeralIs
<1>8. n \in 1 .. WORD
  BY <1>5 DEF IsLength
<1> QED BY <1>1, <1>5, <1>7, <1>8

\* rpu() prints nothing for 0.
LEMMA RpuOfZero ==
  ASSUME NEW b \in Nat, b >= 2 PROVE rpu(0, b) = <<>>
<1>1. WORD - 1 \in Nat /\ 0 \in 0 .. WORD - 1
  BY PrintAssumption
<1>2. PICK f : IsDigits(f, b, WORD - 1) /\ rpu(0, b) = f[0]
  <2>1. \E f : IsDigits(f, b, WORD - 1)
    BY <1>1, DigitsExist
  <2>2. rpu(0, b) = (CHOOSE f : IsDigits(f, b, WORD - 1))[0]
    BY DEF rpu, IsDigits
  <2> QED BY <2>1, <2>2
<1> QED BY <1>1, <1>2 DEF IsDigits

\* The numeral of 0.
LEMMA NumeralOfZero ==
  ASSUME NEW b \in Nat, b >= 2 PROVE Numeral(0, b) = <<"0">>
<1>0. WORD \in Nat \ {0, 1}
  BY PrintAssumption
<1>p. /\ Power(b)[0] = 1
      /\ \A k \in 1 .. WORD : Power(b)[k] = b * Power(b)[k - 1]
      /\ \A k \in 0 .. WORD : Power(b)[k] \in Nat \ {0}
  BY PowerIs
<1>1. 1 \in 1 .. WORD /\ 1 - 1 = 0 /\ \A k \in 1 .. WORD : k \in 0 .. WORD
  BY <1>0
<1>2. Power(b)[1] \in Nat \ {0} /\ \A k \in 1 .. WORD : Power(b)[k] \in Nat
  BY <1>1, <1>p
<1>3. IsLength(0, b, 1)
  BY <1>1, <1>2 DEF IsLength
<1>4. Numeral(0, b) = [i \in 1 .. 1 |-> Digit(0, b, 1, i)]
  <2>1. PICK x \in Nat : x = 0
    OBVIOUS
  <2>n. PICK n : n = 1
    OBVIOUS
  <2>3. IsLength(x, b, n)
    BY <1>3, <2>1, <2>n
  <2>4. \A k \in 1 .. WORD : Power(b)[k] \in Nat
    BY <1>2
  <2>2. Numeral(x, b) = [i \in 1 .. n |-> Digit(x, b, n, i)]
    BY <2>3, <2>4, NumeralIs
  <2> QED BY <2>1, <2>n, <2>2
<1>5. Digit(0, b, 1, 1) = "0"
  <2>1. 0 \div 1 = 0 /\ 0 % b = 0 /\ 0 + 1 = 1
    OBVIOUS
  <2> QED BY <1>1, <1>p, <2>1 DEF Digit, ctable
<1> QED BY <1>4, <1>5

\* The characters.
Char == STRING \cup {Glyph[a] : a \in Int} \cup {ctable[k] : k \in Int} \cup {"0", "-", "x", "\n"}

\* A numeral is made of characters.
LEMMA NumeralType ==
  ASSUME NEW b \in Nat, b >= 2, NEW x \in 0 .. WORD - 1
  PROVE  Numeral(x, b) \in Seq(Char)
<1>0. WORD \in Nat /\ b \in Nat /\ b >= 2
  BY PrintAssumption
<1>1. CASE x = 0
  <2>1. "0" \in Char
    BY DEF Char
  <2>2. <<"0">> \in Seq(Char)
    BY <2>1
  <2>3. Numeral(0, b) = <<"0">>
    BY <1>0, NumeralOfZero
  <2> QED BY <1>1, <2>2, <2>3
<1>2. CASE x # 0
  <2>p. \A k \in 0 .. WORD : Power(b)[k] \in Nat \ {0}
    BY <1>0, PowerIs
  <2>1. x \in 1 .. WORD - 1
    BY <1>0, <1>2
  <2>2. PICK n \in 1 .. WORD : Numeral(x, b) = [i \in 1 .. n |-> Digit(x, b, n, i)]
    BY <1>0, <2>1, RpuIsNumeral
  <2>3. ASSUME NEW i \in 1 .. n PROVE Digit(x, b, n, i) \in Char
    <3>1. n - i \in 0 .. WORD
      BY <1>0
    <3>2. PICK c \in Nat \ {0} : c = Power(b)[n - i]
      BY <2>p, <3>1
    <3>3. PICK q \in Int : q = x \div c
      BY <1>0
    <3>4. PICK r \in 0 .. b - 1 : r = q % b
      BY <1>0
    <3>5. r + 1 \in Int
      OBVIOUS
    <3> QED BY <3>2, <3>3, <3>4, <3>5 DEF Digit, Char
  <2>4. n \in Nat
    BY <1>0
  <2>5. [i \in 1 .. n |-> Digit(x, b, n, i)] \in Seq(Char)
    BY <2>3, <2>4
  <2> QED BY <2>2, <2>5
<1> QED BY <1>1, <1>2

\* A small number is its own remainder, a small negative one is not 0.
LEMMA WordIs ==
  ASSUME NEW a \in -(WORD \div 2) .. WORD - 1
  PROVE  /\ a % WORD \in 0 .. WORD - 1
         /\ a # 0 => a % WORD # 0
         /\ a >= 0 => a % WORD = a
         /\ a < 0 => (-a) % WORD = -a /\ -a \in 1 .. WORD - 1
<1>1. PICK w \in Nat \ {0, 1} : w = WORD
  BY PrintAssumption
<1>2. PICK h \in Nat : h = w \div 2 /\ h < w
  BY <1>1
<1>3. a \in -h .. w - 1 /\ a \in Int
  BY <1>1, <1>2
<1>4. ASSUME NEW c \in 0 .. w - 1 PROVE c % w = c
  BY Carry
<1>5. a >= 0 => a % w = a
  BY <1>3, <1>4
<1>6. a < 0 => -a \in 1 .. w - 1 /\ (-a) % w = -a
  <2>1. a < 0 => -a \in 1 .. w - 1 /\ -a \in 0 .. w - 1
    BY <1>2, <1>3
  <2> QED BY <1>4, <2>1
<1>7. a % w \in 0 .. w - 1
  BY <1>3
<1>8. a # 0 => a % w # 0
  <2>1. SUFFICES ASSUME a # 0, a % w = 0 PROVE FALSE
    OBVIOUS
  <2>2. a < 0
    BY <1>3, <1>5, <2>1
  <2>3. PICK q \in Int, r \in 0 .. w - 1 : q = a \div w /\ r = a % w /\ a = w * q + r
    BY <1>3, DivMod
  <2>4. a = w * q
    BY <2>1, <2>3
  <2>5. ~(q >= 0)
    BY <2>2, <2>4
  <2>6. PICK z \in Nat : q = -(z + 1)
    <3>1. -q - 1 \in Nat /\ q = -((-q - 1) + 1)
      BY <2>5
    <3> QED BY <3>1
  <2>7. w * q = -(w * z + w) /\ w * z \in Nat
    BY <2>6
  <2> QED BY <1>2, <1>3, <2>4, <2>7
<1> QED BY <1>1, <1>5, <1>6, <1>7, <1>8

\* The letters of conversions.
Letter == {"c", "s", "u", "d", "o", "x"}

\* What a conversion prints is the text of its argument.
LEMMA ConversionIsText ==
  ASSUME NEW type \in Letter, NEW a \in -(WORD \div 2) .. WORD - 1,
         type = "s" => a \in DOMAIN Memory
  PROVE  Conversion(type, a) = Text(type, a) /\ Text(type, a) \in Seq(Char)
<1>0. a \in Int /\ WORD \in Nat \ {0, 1}
  BY PrintAssumption
<1>1. /\ a % WORD \in 0 .. WORD - 1
      /\ a # 0 => a % WORD # 0
      /\ a >= 0 => a % WORD = a
      /\ a < 0 => (-a) % WORD = -a /\ -a \in 1 .. WORD - 1
  BY WordIs
<1>u. PICK u \in 0 .. WORD - 1 : u = a % WORD
  BY <1>1
<1>2. ASSUME NEW b \in {8, 10, 16}
      PROVE  /\ (IF u = 0 THEN <<"0">> ELSE rpu(u, b)) = Numeral(u, b)
             /\ u # 0 => rpu(u, b) = Numeral(u, b)
             /\ Numeral(u, b) \in Seq(Char)
  <2>1. b \in Nat /\ b >= 2
    OBVIOUS
  <2>2. Numeral(u, b) \in Seq(Char)
    BY <2>1, NumeralType
  <2>3. CASE u = 0
    BY <2>1, <2>2, <2>3, NumeralOfZero
  <2>4. CASE u # 0
    <3>1. u \in 1 .. WORD - 1
      BY <1>0, <2>4
    <3>2. rpu(u, b) = Numeral(u, b)
      BY <2>1, <3>1, RpuIsNumeral
    <3> QED BY <2>2, <2>4, <3>2
  <2> QED BY <2>3, <2>4
<1>3. CASE type = "s"
  <2>1. Memory[a] \in Seq(STRING)
    BY <1>3, PrintAssumption
  <2>2. Memory[a] \in Seq(Char)
    BY <2>1 DEF Char
  <2> QED BY <1>3, <2>2 DEF Conversion, Text
<1>4. CASE type = "c"
  <2>1. Glyph[a] \in Char
    BY <1>0 DEF Char
  <2>2. <<Glyph[a]>> \in Seq(Char)
    BY <2>1
  <2> QED BY <1>4, <2>2 DEF Conversion, Text
<1>5. CASE type = "u"
  BY <1>u, <1>2, <1>5 DEF Conversion, Text, printu, U32
<1>6. CASE type = "o"
  BY <1>u, <1>2, <1>6 DEF Conversion, Text, printo, U32
<1>7. CASE type = "x"
  <2>1. CASE a # 0
    <3>1. u # 0
      BY <1>u, <1>1, <2>1
    <3> QED BY <1>u, <1>2, <1>7, <2>1, <3>1 DEF Conversion, Text, printx, U32
  <2>2. CASE a = 0
    <3>1. u = 0
      BY <1>u, <1>1, <2>2
    <3>2. <<"0", "x", "\n">> \in Seq(Char)
      BY DEF Char
    <3> QED BY <1>u, <1>7, <2>2, <3>1, <3>2 DEF Conversion, Text, printx, U32
  <2> QED BY <2>1, <2>2
<1>8. CASE type = "d"
  <2>3. CASE a = 0
    <3>1. rpu(0, 10) = <<>> /\ <<>> \in Seq(Char)
      BY RpuOfZero
    <3> QED BY <1>8, <2>3, <3>1 DEF Conversion, Text, printd
  <2>1. CASE a >= 0 /\ a # 0
    <3>1. u = a /\ u # 0 /\ ~(a < 0) /\ a # 0
      BY <1>u, <1>0, <1>1, <1>8, <2>1
    <3>2. rpu(u, 10) = Numeral(u, 10) /\ Numeral(u, 10) \in Seq(Char)
      BY <1>2, <3>1
    <3> QED BY <1>u, <1>8, <3>1, <3>2 DEF Conversion, Text, printd
  <2>2. CASE a < 0
    <3>1. PICK m \in 1 .. WORD - 1 : m = -a /\ (-a) % WORD = m
      BY <1>1, <2>2
    <3>2. 10 \in Nat /\ 10 >= 2 /\ m \in 0 .. WORD - 1
      BY <1>0
    <3>3. rpu(m, 10) = Numeral(m, 10)
      BY <3>2, RpuIsNumeral
    <3>4. Numeral(m, 10) \in Seq(Char)
      BY <3>2, NumeralType
    <3>5. <<"-">> \in Seq(Char)
      BY DEF Char
    <3>6. <<"-">> \o Numeral(m, 10) \in Seq(Char)
      BY <3>4, <3>5
    <3>7. Conversion(type, a) = <<"-">> \o rpu(m, 10)
      BY <1>8, <2>2, <3>1 DEF Conversion, printd, U32
    <3>8. Text(type, a) = <<"-">> \o Numeral(m, 10)
      BY <1>8, <2>2, <3>1 DEF Text
    <3> QED BY <3>3, <3>6, <3>7, <3>8
  <2> QED BY <1>0, <2>1, <2>2, <2>3
<1> QED BY <1>3, <1>4, <1>5, <1>6, <1>7, <1>8 DEF Letter

-----------------------------------------------------------------------------
(***************************************************************************)
(* The scan of the format.                                                 *)
(***************************************************************************)

\* g[i] is the first i pieces of s, put together.
IsFlat(g, s, n) == g = [i \in 1 .. n |-> IF i = 1 THEN s[i] ELSE g[i - 1] \o s[i]]

\* The pieces of a format can be put together from the left.
LEMMA FlatExists ==
  ASSUME NEW s
  PROVE  \A n \in Nat : \E g : IsFlat(g, s, n)
<1> DEFINE S == {n \in Nat : \E g : IsFlat(g, s, n)}
<1>1. 0 \in S
  <2>1. IsFlat([k \in 1 .. 0 |-> <<>>], s, 0)
    BY DEF IsFlat
  <2> QED BY <2>1
<1>2. ASSUME NEW n \in Nat, n \in S PROVE n + 1 \in S
  <2>1. PICK w : IsFlat(w, s, n)
    BY <1>2
  <2>w. \A k \in 1 .. n : w[k] = IF k = 1 THEN s[k] ELSE w[k - 1] \o s[k]
    BY <2>1 DEF IsFlat
  <2>e. PICK e : e = IF n = 0 THEN s[n + 1] ELSE w[n] \o s[n + 1]
    OBVIOUS
  <2> DEFINE v == [k \in 1 .. n + 1 |-> IF k = n + 1 THEN e ELSE w[k]]
  <2>v. /\ v[n + 1] = e /\ \A k \in 1 .. n : v[k] = w[k]
        /\ v = [k \in 1 .. n + 1 |-> v[k]]
    OBVIOUS
  <2> HIDE DEF v
  <2>2. ASSUME NEW k \in 1 .. n + 1 PROVE v[k] = IF k = 1 THEN s[k] ELSE v[k - 1] \o s[k]
    <3>1. CASE k = n + 1 /\ n = 0
      BY <2>e, <2>v, <3>1
    <3>2. CASE k = n + 1 /\ n # 0
      <4>1. k - 1 = n /\ n \in 1 .. n /\ k # 1
        BY <3>2
      <4>2. v[k] = w[n] \o s[k] /\ v[n] = w[n]
        BY <2>e, <2>v, <3>2, <4>1
      <4> QED BY <4>1, <4>2
    <3>3. CASE k # n + 1
      <4>1. k \in 1 .. n /\ (k # 1 => k - 1 \in 1 .. n)
        BY <3>3
      <4>2. v[k] = w[k] /\ (k # 1 => v[k - 1] = w[k - 1])
        BY <2>v, <4>1
      <4>3. w[k] = IF k = 1 THEN s[k] ELSE w[k - 1] \o s[k]
        BY <2>w, <4>1
      <4> QED BY <4>2, <4>3
    <3> QED BY <3>1, <3>2, <3>3
  <2>3. IsFlat(v, s, n + 1)
    BY <2>2, <2>v DEF IsFlat
  <2> QED BY <2>3
<1> HIDE DEF S
<1>3. \A n \in Nat : n \in S
  BY <1>1, <1>2, NaturalsIn
<1> QED BY <1>3 DEF S

\* h[k] is the text of the first k characters of the format.
IsText(h, c) ==
  /\ h[0] = <<>>
  /\ \A k \in 1 .. Len(c.fmt) : h[k] = h[k - 1] \o Piece(c, k)
  /\ \A k \in 0 .. Len(c.fmt) : h[k] \in Seq(Char)
  /\ h[Len(c.fmt)] = Expected(c)

\* The text expected is put together from the left.
LEMMA TextExists ==
  ASSUME NEW c, c.fmt \in Seq(STRING), \A k \in 1 .. Len(c.fmt) : Piece(c, k) \in Seq(Char)
  PROVE  \E h : IsText(h, c)
<1>0. PICK n \in Nat : n = Len(c.fmt) /\ DOMAIN c.fmt = 1 .. n
  OBVIOUS
<1>1. PICK s : s = [i \in DOMAIN c.fmt |-> Piece(c, i)]
  OBVIOUS
<1>2. /\ s \in Seq(Seq(Char)) /\ Len(s) = n /\ \A i \in 1 .. n : s[i] = Piece(c, i)
      /\ \A i \in 1 .. n : s[i] \in Seq(Char)
  <2>1. \A i \in 1 .. n : s[i] = Piece(c, i)
    BY <1>0, <1>1
  <2>2. \A i \in 1 .. n : s[i] \in Seq(Char)
    BY <1>0, <2>1
  <2>3. s \in [1 .. n -> Seq(Char)]
    BY <1>0, <1>1, <2>2
  <2>4. s \in Seq(Seq(Char)) /\ Len(s) = n
    BY <2>3
  <2> QED BY <2>1, <2>2, <2>4
<1>3. PICK g : /\ IsFlat(g, s, n)
               /\ FlattenSeq(s) = IF n = 0 THEN s ELSE g[n]
  <2>1. \E g : IsFlat(g, s, n)
    BY FlatExists
  <2>2. PICK g : g = CHOOSE f : IsFlat(f, s, n)
    OBVIOUS
  <2>3. IsFlat(g, s, n)
    BY <2>1, <2>2
  <2>4. FlattenSeq(s) = IF n = 0 THEN s ELSE (CHOOSE f : IsFlat(f, s, n))[n]
    BY <1>2 DEF FlattenSeq, IsFlat
  <2> QED BY <2>2, <2>3, <2>4
<1>4. \A k \in 1 .. n : g[k] = IF k = 1 THEN s[k] ELSE g[k - 1] \o s[k]
  BY <1>3 DEF IsFlat
<1>5. PICK h : h = [k \in 0 .. n |-> IF k = 0 THEN <<>> ELSE g[k]]
  OBVIOUS
<1>6. h[0] = <<>> /\ \A k \in 1 .. n : h[k] = g[k]
  BY <1>5
<1>7. h[0] \in Seq(Char)
  BY <1>6
<1>8. ASSUME NEW k \in 1 .. n PROVE h[k] = h[k - 1] \o s[k]
  <2>1. CASE k = 1
    <3>1. PICK t \in Seq(Char) : t = s[k]
      BY <1>2
    <3>2. <<>> \o t = t
      OBVIOUS
    <3>3. h[k - 1] = <<>> /\ h[k] = t
      BY <1>4, <1>6, <2>1, <3>1
    <3> QED BY <3>1, <3>2, <3>3
  <2>2. CASE k # 1
    <3>1. k - 1 \in 1 .. n
      BY <2>2
    <3> QED BY <1>4, <1>6, <2>2, <3>1
  <2> QED BY <2>1, <2>2
<1> DEFINE S == {k \in Nat : k <= n => h[k] \in Seq(Char)}
<1>9. 0 \in S
  BY <1>7
<1>10. ASSUME NEW k \in Nat, k \in S PROVE k + 1 \in S
  <2>1. CASE k + 1 <= n
    <3>1. k + 1 \in 1 .. n /\ (k + 1) - 1 = k /\ h[k] \in Seq(Char)
      BY <1>10, <2>1
    <3>2. h[k + 1] = h[k] \o s[k + 1] /\ s[k + 1] \in Seq(Char)
      BY <1>2, <1>8, <3>1
    <3>3. h[k + 1] \in Seq(Char)
      BY <3>1, <3>2
    <3> QED BY <3>3
  <2>2. CASE ~(k + 1 <= n)
    BY <2>2
  <2> QED BY <2>1, <2>2
<1> HIDE DEF S
<1>11. \A k \in Nat : k \in S
  BY <1>9, <1>10, NaturalsIn
<1>12. \A k \in 0 .. n : h[k] \in Seq(Char)
  BY <1>11 DEF S
<1>13. h[n] = Expected(c)
  <2>1. Expected(c) = FlattenSeq(s)
    BY <1>1 DEF Expected
  <2>2. CASE n = 0
    <3>1. s = <<>>
      BY <1>2, <2>2
    <3> QED BY <1>3, <1>6, <2>1, <2>2, <3>1
  <2>3. CASE n # 0
    BY <1>3, <1>6, <2>1, <2>3
  <2> QED BY <2>2, <2>3
<1>14. \A k \in 1 .. n : h[k] = h[k - 1] \o Piece(c, k)
  BY <1>2, <1>8
<1> QED BY <1>0, <1>6, <1>12, <1>13, <1>14 DEF IsText

\* Counting the conversions up to a character.
LEMMA NumberIs ==
  ASSUME NEW c, c.fmt \in Seq(STRING), NEW i \in DOMAIN c.fmt
  PROVE  /\ NumberOf(c, 0) = 0 /\ NumberOf(c, i) \in Nat
         /\ NumberOf(c, i) = IF c.fmt[i] = "%" THEN NumberOf(c, i - 1) + 1 ELSE NumberOf(c, i - 1)
<1>1. PICK n \in Nat : n = Len(c.fmt) /\ DOMAIN c.fmt = 1 .. n
  OBVIOUS
<1>2. PICK C : C = Conversions(c) /\ C \subseteq 1 .. n /\ (i \in C <=> c.fmt[i] = "%")
  <2>1. PICK C : C = Conversions(c)
    OBVIOUS
  <2>2. \A j : j \in C <=> j \in DOMAIN c.fmt /\ c.fmt[j] = "%"
    BY <2>1 DEF Conversions
  <2>3. i \in C <=> c.fmt[i] = "%"
    BY <2>2
  <2>4. C \subseteq 1 .. n
    BY <1>1, <2>2
  <2> QED BY <2>1, <2>3, <2>4
<1>3. IsFiniteSet(1 .. n)
  BY <1>1, FS_Interval
<1>4. ASSUME NEW k PROVE IsFiniteSet({j \in C : j <= k}) /\ Cardinality({j \in C : j <= k}) \in Nat
  <2>1. {j \in C : j <= k} \in SUBSET (1 .. n)
    BY <1>2
  <2>2. IsFiniteSet({j \in C : j <= k})
    BY <1>3, <2>1, FS_Subset
  <2> QED BY <2>2, FS_CardinalityType
<1>5. {j \in C : j <= 0} = {}
  BY <1>2
<1>6. Cardinality({j \in C : j <= 0}) = 0
  BY <1>5, FS_EmptySet
<1>7. PICK A, B : A = {j \in C : j <= i} /\ B = {j \in C : j <= i - 1}
  OBVIOUS
<1>8. IsFiniteSet(B) /\ i \notin B /\ Cardinality(B) \in Nat
  BY <1>1, <1>4, <1>7
<1>9. CASE i \in C
  <2>1. A = B \cup {i}
    BY <1>1, <1>2, <1>7, <1>9
  <2>2. Cardinality(A) = Cardinality(B) + 1
    BY <1>8, <2>1, FS_AddElement
  <2> QED BY <1>2, <1>4, <1>6, <1>7, <1>9, <2>2 DEF NumberOf
<1>10. CASE i \notin C
  <2>1. A = B
    BY <1>1, <1>2, <1>7, <1>10
  <2> QED BY <1>2, <1>4, <1>6, <1>7, <1>10, <2>1 DEF NumberOf
<1> QED BY <1>9, <1>10

\* The pieces of a well-formed call.
LEMMA PiecesOK ==
  ASSUME NEW c \in Prints, WellFormed(c), NEW i \in 1 .. Len(c.fmt)
  PROVE  /\ Piece(c, i) \in Seq(Char)
         /\ c.fmt[i] = "%" =>
              /\ i < Len(c.fmt) /\ c.fmt[i + 1] # "%"
              /\ Conversion(c.fmt[i + 1], ArgOf(c, i)) = Piece(c, i)
<1>0. c.fmt \in Seq(STRING) /\ c.args \in Seq(-(WORD \div 2) .. WORD - 1) /\ i \in DOMAIN c.fmt
  BY PrintAssumption
<1>1. CASE c.fmt[i] = "%"
  <2>1. i \in Conversions(c)
    BY <1>0, <1>1 DEF Conversions
  <2>2. /\ i < Len(c.fmt) /\ c.fmt[i + 1] \in Letter /\ NumberOf(c, i) \in DOMAIN c.args
        /\ c.fmt[i + 1] = "s" => ArgOf(c, i) \in DOMAIN Memory
    BY <2>1 DEF WellFormed, Letter
  <2>3. PICK t \in Letter, a \in -(WORD \div 2) .. WORD - 1 : t = c.fmt[i + 1] /\ a = ArgOf(c, i)
    <3>1. ArgOf(c, i) \in -(WORD \div 2) .. WORD - 1
      <4>1. PICK A : A = -(WORD \div 2) .. WORD - 1
        OBVIOUS
      <4>2. PICK s \in Seq(A) : s = c.args
        BY <1>0, <4>1
      <4>3. PICK k \in DOMAIN s : k = NumberOf(c, i)
        BY <2>2, <4>2
      <4>4. s[k] \in A
        OBVIOUS
      <4> QED BY <4>1, <4>2, <4>3, <4>4 DEF ArgOf
    <3> QED BY <2>2, <3>1
  <2>4. t = "s" => a \in DOMAIN Memory
    BY <2>2, <2>3
  <2>5. Conversion(t, a) = Text(t, a) /\ Text(t, a) \in Seq(Char)
    BY <2>4, ConversionIsText
  <2>6. Piece(c, i) = Text(t, a)
    BY <2>1, <2>3 DEF Piece
  <2>7. t # "%"
    BY DEF Letter
  <2> QED BY <2>2, <2>3, <2>5, <2>6, <2>7
<1>2. CASE c.fmt[i] # "%"
  <2>1. i \notin Conversions(c)
    BY <1>2 DEF Conversions
  <2>2. c.fmt[i] \in Char
    BY <1>0 DEF Char
  <2>3. <<c.fmt[i]>> \in Seq(Char) /\ <<>> \in Seq(Char)
    BY <2>2
  <2> QED BY <1>2, <2>1, <2>3 DEF Piece
<1> QED BY <1>1, <1>2

\* What is printed is the text of the characters passed, ap counts their
\* conversions, and the scan never stops between a % and its letter.
PrintInv ==
  /\ call \in Prints
  /\ WellFormed(call) =>
       /\ pos \in 1 .. Len(call.fmt) + 1
       /\ pos - 1 \notin Conversions(call)
       /\ ap = NumberOf(call, pos - 1) + 1
       /\ \E h : IsText(h, call) /\ out = h[pos - 1]

\* Nothing has been scanned or printed.
LEMMA PrintStart ==
  ASSUME Init, program = "myprintf" PROVE PrintInv
<1>1. PICK c \in Prints : PrintInit(c)
  BY DEF Init
<1>2. call = c /\ pos = 1 /\ ap = 1 /\ out = <<>>
  BY <1>1 DEF PrintInit
<1>3. c.fmt \in Seq(STRING) /\ Len(c.fmt) \in Nat
  BY PrintAssumption
<1>4. ASSUME WellFormed(c) PROVE \E h : IsText(h, c)
  BY <1>3, <1>4, PiecesOK, TextExists
<1>5. 0 \notin Conversions(c)
  BY <1>3 DEF Conversions
<1>6. NumberOf(c, 0) = 0
  <2>1. {j \in Conversions(c) : j <= 0} = {}
    BY <1>3 DEF Conversions
  <2> QED BY <2>1, FS_EmptySet DEF NumberOf
<1>7. pos - 1 = 0 /\ pos \in 1 .. Len(c.fmt) + 1
  BY <1>2, <1>3
<1>8. ASSUME WellFormed(c) PROVE \E h : IsText(h, c) /\ out = h[0]
  BY <1>2, <1>4, <1>8 DEF IsText
<1> QED BY <1>2, <1>5, <1>6, <1>7, <1>8 DEF PrintInv

\* A turn of the loop adds the pieces of the characters it passes.
LEMMA PrintStep ==
  ASSUME PrintInv, PrintNext PROVE PrintInv'
<1>0. PICK c \in Prints : c = call /\ call' = c
  BY DEF PrintInv, PrintNext, Convert, Putchar
<1>1. SUFFICES ASSUME WellFormed(c)
               PROVE  /\ pos' \in 1 .. Len(c.fmt) + 1
                      /\ pos' - 1 \notin Conversions(c)
                      /\ ap' = NumberOf(c, pos' - 1) + 1
                      /\ \E h : IsText(h, c) /\ out' = h[pos' - 1]
  BY <1>0 DEF PrintInv
<1>2. PICK n \in Nat : n = Len(c.fmt) /\ DOMAIN c.fmt = 1 .. n /\ c.fmt \in Seq(STRING)
  BY PrintAssumption
<1>p. PICK p \in 1 .. n + 1 : p = pos
  BY <1>0, <1>1, <1>2 DEF PrintInv
<1>3. PICK h : /\ p = pos /\ p - 1 \notin Conversions(c) /\ ap = NumberOf(c, p - 1) + 1
               /\ IsText(h, c) /\ out = h[p - 1]
  BY <1>0, <1>1, <1>p DEF PrintInv
<1>4. p \in 1 .. n /\ p \in Nat /\ p >= 1
  <2>1. ~(p > n)
    BY <1>0, <1>2, <1>3 DEF PrintNext, Convert, Putchar, ScanEnds
  <2> QED BY <2>1
<1>5. CASE Convert
  <2>1. /\ c.fmt[p] = "%" /\ p < n /\ out' = out \o Conversion(c.fmt[p + 1], c.args[ap])
        /\ pos' = p + 2 /\ ap' = ap + 1
    BY <1>0, <1>2, <1>3, <1>5 DEF Convert
  <2>2. p + 1 \in 1 .. n /\ p \in DOMAIN c.fmt /\ p + 1 \in DOMAIN c.fmt /\ (p + 1) - 1 = p
        /\ pos' - 1 = p + 1
    BY <1>2, <1>4, <2>1
  <2>3. c.fmt[p + 1] # "%" /\ Conversion(c.fmt[p + 1], ArgOf(c, p)) = Piece(c, p)
    BY <1>1, <1>2, <1>4, <2>1, PiecesOK
  <2>4. NumberOf(c, p) = NumberOf(c, p - 1) + 1
    BY <1>2, <2>1, <2>2, NumberIs
  <2>5. NumberOf(c, p + 1) = NumberOf(c, p)
    BY <1>2, <2>2, <2>3, NumberIs
  <2>6. ap = NumberOf(c, p)
    BY <1>3, <2>4
  <2>7. out' = h[p - 1] \o Piece(c, p)
    BY <1>3, <2>1, <2>3, <2>6 DEF ArgOf
  <2>8. out' = h[p]
    BY <1>2, <1>3, <1>4, <2>7 DEF IsText
  <2>9. Piece(c, p + 1) = <<>>
    BY <2>1, <2>2, <2>3 DEF Piece, Conversions
  <2>10. h[p + 1] = h[p] \o <<>> /\ h[p] \in Seq(Char)
    <3>1. p \in 0 .. n
      BY <1>4
    <3> QED BY <1>2, <1>3, <2>2, <2>9, <3>1 DEF IsText
  <2>11. h[p + 1] = h[p]
    BY <2>10
  <2>12. p + 1 \notin Conversions(c)
    BY <2>3 DEF Conversions
  <2>13. pos' \in 1 .. n + 1
    BY <1>4, <2>1
  <2> QED BY <1>2, <1>3, <2>1, <2>2, <2>5, <2>6, <2>8, <2>11, <2>12, <2>13
<1>6. CASE Putchar
  <2>1. ~(c.fmt[p] = "%" /\ p < n) /\ out' = Append(out, c.fmt[p]) /\ pos' = p + 1 /\ ap' = ap
    BY <1>0, <1>2, <1>3, <1>6 DEF Putchar
  <2>2. p \in DOMAIN c.fmt /\ pos' - 1 = p /\ pos' \in 1 .. n + 1 /\ p - 1 \in 0 .. n
    BY <1>2, <1>4, <2>1
  <2>3. c.fmt[p] # "%"
    BY <1>1, <1>2, <1>4, <2>1, PiecesOK
  <2>4. NumberOf(c, p) = NumberOf(c, p - 1)
    BY <1>2, <2>2, <2>3, NumberIs
  <2>5. Piece(c, p) = <<c.fmt[p]>> /\ p \notin Conversions(c)
    BY <1>3, <2>3 DEF Piece, Conversions
  <2>6. h[p] = h[p - 1] \o <<c.fmt[p]>> /\ h[p - 1] \in Seq(Char)
    BY <1>2, <1>3, <1>4, <2>2, <2>5 DEF IsText
  <2>7. c.fmt[p] \in Char
    BY <1>2, <2>2 DEF Char
  <2>8. PICK s \in Seq(Char), e \in Char : s = h[p - 1] /\ e = c.fmt[p]
    BY <2>6, <2>7
  <2>9. Append(s, e) = s \o <<e>>
    OBVIOUS
  <2>10. out' = h[p]
    BY <1>3, <2>1, <2>6, <2>8, <2>9
  <2> QED BY <1>2, <1>3, <2>1, <2>2, <2>4, <2>5, <2>10
<1> QED BY <1>5, <1>6 DEF PrintNext

\* The whole text has been printed at the end of the format.
LEMMA PrintEnds ==
  ASSUME PrintInv, ScanEnds, WellFormed(call) PROVE out = Expected(call)
<1>1. call.fmt \in Seq(STRING) /\ Len(call.fmt) \in Nat
  BY PrintAssumption DEF PrintInv
<1>2. pos \in 1 .. Len(call.fmt) + 1 /\ pos > Len(call.fmt)
  BY DEF PrintInv, ScanEnds
<1>3. pos - 1 = Len(call.fmt)
  BY <1>1, <1>2
<1> QED BY <1>3 DEF PrintInv, IsText

\* myprintf() prints the text of its format with the numeral of every argument in its
\* place, without a prefix, and for 0 nothing in %d and 0x in %x: for every word size,
\* format and argument, the smallest int included.
THEOREM NumeralsPrinted == Spec => []PrintsNumerals
<1> DEFINE Inv == program = "myprintf" => PrintInv
<1>1. Init => Inv
  BY PrintStart
<1>2. Inv /\ [Next]_vars => Inv'
  <2> SUFFICES ASSUME Inv, [Next]_vars, program' = "myprintf" PROVE PrintInv'
    OBVIOUS
  <2>1. program = "myprintf" /\ PrintInv
    BY DEF Next, Partitions, Myprintf, Showblock, Finished, vars
  <2>2. CASE Myprintf
    BY <2>1, <2>2, PrintStep DEF Myprintf
  <2>3. CASE UNCHANGED printVars
    BY <2>1, <2>3 DEF printVars, PrintInv
  <2>4. Myprintf \/ UNCHANGED printVars
    BY <2>1 DEF Next, Partitions, Showblock, Finished, vars
  <2> QED BY <2>2, <2>3, <2>4
<1>3. Inv => PrintsNumerals
  BY PrintEnds DEF PrintsNumerals
<1> QED BY <1>1, <1>2, <1>3, PTL DEF Spec

-----------------------------------------------------------------------------
(***************************************************************************)
(* Where a path leads.                                                     *)
(***************************************************************************)

\* w is the walk of n names from start.
IsWay(w, start, path, n) ==
  w = [k \in 0 .. n |-> IF k = 0 THEN start ELSE Lookup(w[k - 1], path[k])]

\* One name more.
LEMMA LongerWay ==
  ASSUME NEW start, NEW path, NEW n \in Nat, NEW w, IsWay(w, start, path, n)
  PROVE  \E v : IsWay(v, start, path, n + 1)
<1> DEFINE v == [k \in 0 .. n + 1 |-> IF k = n + 1 THEN Lookup(w[n], path[n + 1]) ELSE w[k]]
<1>1. ASSUME NEW k \in 0 .. n + 1
      PROVE  v[k] = IF k = 0 THEN start ELSE Lookup(v[k - 1], path[k])
  <2>1. CASE k = n + 1
    <3>1. n \in 0 .. n + 1 /\ n # n + 1 /\ k - 1 = n /\ k # 0
      BY <2>1
    <3>2. v[k] = Lookup(w[n], path[k]) /\ v[n] = w[n]
      BY <2>1, <3>1
    <3> QED BY <3>1, <3>2
  <2>2. CASE k # n + 1
    <3>1. k \in 0 .. n /\ v[k] = w[k] /\ (k # 0 => v[k - 1] = w[k - 1])
      BY <2>2
    <3> QED BY <3>1 DEF IsWay
  <2> QED BY <2>1, <2>2
<1>2. IsWay(v, start, path, n + 1)
  BY <1>1 DEF IsWay
<1> QED BY <1>2

\* There is a walk of every length.
LEMMA WayExists ==
  ASSUME NEW start, NEW path
  PROVE  \A n \in Nat : \E w : IsWay(w, start, path, n)
<1> DEFINE S == {n \in Nat : \E w : IsWay(w, start, path, n)}
<1>1. 0 \in S
  <2>1. IsWay([k \in 0 .. 0 |-> start], start, path, 0)
    BY DEF IsWay
  <2> QED BY <2>1
<1>2. \A n \in Nat : n \in S => n + 1 \in S
  BY LongerWay
<1> HIDE DEF S
<1>3. \A n \in Nat : n \in S
  BY <1>1, <1>2, NaturalsIn
<1> QED BY <1>3 DEF S

\* Two paths with the same first l names.
Agree(p, q, l) == \A k \in 1 .. l : p[k] = q[k]

\* Two walks agree as far as their names do.
LEMMA OneWalk ==
  ASSUME NEW start, NEW p, NEW q, NEW m \in Nat, NEW n \in Nat, NEW v, NEW w,
         IsWay(v, start, p, m), IsWay(w, start, q, n), NEW l \in Nat, l <= m, l <= n, Agree(p, q, l)
  PROVE  \A k \in 0 .. l : v[k] = w[k]
<1> DEFINE S == {k \in Nat : k <= l => v[k] = w[k]}
<1>0. /\ \A k \in 0 .. m : v[k] = IF k = 0 THEN start ELSE Lookup(v[k - 1], p[k])
      /\ \A k \in 0 .. n : w[k] = IF k = 0 THEN start ELSE Lookup(w[k - 1], q[k])
  BY DEF IsWay
<1>1. 0 \in S
  BY <1>0
<1>2. ASSUME NEW k \in Nat, k \in S PROVE k + 1 \in S
  <2>1. CASE k + 1 <= l
    <3>1. /\ k + 1 \in 0 .. m /\ k + 1 \in 0 .. n /\ k + 1 # 0 /\ (k + 1) - 1 = k
          /\ p[k + 1] = q[k + 1] /\ v[k] = w[k]
      BY <1>2, <2>1 DEF Agree
    <3>2. v[k + 1] = Lookup(v[(k + 1) - 1], p[k + 1]) /\ w[k + 1] = Lookup(w[(k + 1) - 1], q[k + 1])
      BY <1>0, <3>1
    <3>3. v[k + 1] = w[k + 1]
      BY <3>1, <3>2
    <3> QED BY <3>3
  <2>2. CASE ~(k + 1 <= l)
    BY <2>2
  <2> QED BY <2>1, <2>2
<1> HIDE DEF S
<1>3. \A k \in Nat : k \in S
  BY <1>1, <1>2, NaturalsIn
<1> QED BY <1>3 DEF S

\* Resolve is the end of a walk.
LEMMA ResolveEnds ==
  ASSUME NEW start, NEW path, Len(path) \in Nat
  PROVE  \E w : IsWay(w, start, path, Len(path)) /\ Resolve(start, path) = w[Len(path)]
<1>1. \E w : IsWay(w, start, path, Len(path))
  BY WayExists
<1>2. IsWay(CHOOSE w : IsWay(w, start, path, Len(path)), start, path, Len(path))
  BY <1>1
<1>3. Resolve(start, path) = (CHOOSE w : IsWay(w, start, path, Len(path)))[Len(path)]
  BY DEF Resolve, IsWay
<1> QED BY <1>2, <1>3

\* The first n names of a path.
LEMMA FirstNames ==
  ASSUME NEW U, NEW path \in Seq(U), NEW n \in 0 .. Len(path)
  PROVE  /\ Len(SubSeq(path, 1, n)) = n /\ Len(SubSeq(path, 1, n)) \in Nat
         /\ \A k \in 1 .. n : SubSeq(path, 1, n)[k] = path[k]
  OBVIOUS

\* The first names of a path lead along its walk.
LEMMA ResolveFirst ==
  ASSUME NEW start, NEW U, NEW path \in Seq(U), NEW w, IsWay(w, start, path, Len(path)),
         NEW n \in 0 .. Len(path)
  PROVE  Resolve(start, SubSeq(path, 1, n)) = w[n]
<1>1. PICK p : p = SubSeq(path, 1, n)
  OBVIOUS
<1>2. Len(p) = n /\ n \in Nat /\ Len(path) \in Nat /\ n <= Len(path) /\ \A k \in 1 .. n : p[k] = path[k]
  BY <1>1, FirstNames
<1>3. PICK v : IsWay(v, start, p, n) /\ Resolve(start, p) = v[n]
  <2>1. Len(p) \in Nat
    BY <1>2
  <2>2. PICK v : IsWay(v, start, p, Len(p)) /\ Resolve(start, p) = v[Len(p)]
    BY <2>1, ResolveEnds
  <2> QED BY <1>2, <2>2
<1>4. \A k \in 0 .. n : v[k] = w[k]
  <2>1. PICK m \in Nat : m = Len(path) /\ n <= m /\ IsWay(w, start, path, m)
    BY <1>2
  <2>2. n \in Nat /\ n <= n /\ n <= m /\ Agree(p, path, n)
    BY <1>2, <2>1 DEF Agree
  <2>3. IsWay(v, start, p, n) /\ IsWay(w, start, path, m)
    BY <1>3, <2>1
  <2> QED BY <2>2, <2>3, OneWalk
<1>5. n \in 0 .. n
  BY <1>2
<1> QED BY <1>1, <1>3, <1>4, <1>5

\* No name leads nowhere else.
LEMMA ResolveRoot ==
  ASSUME NEW start, NEW U, NEW path \in Seq(U)
  PROVE  Resolve(start, SubSeq(path, 1, 0)) = start
<1>1. Len(path) \in Nat /\ 0 \in 0 .. Len(path)
  OBVIOUS
<1>2. PICK w : IsWay(w, start, path, Len(path))
  BY <1>1, WayExists
<1>3. w[0] = start
  BY <1>1, <1>2 DEF IsWay
<1> QED BY <1>1, <1>2, <1>3, ResolveFirst

\* One name further.
LEMMA ResolveNext ==
  ASSUME NEW start, NEW U, NEW path \in Seq(U), NEW n \in Nat, n < Len(path)
  PROVE  Resolve(start, SubSeq(path, 1, n + 1)) =
           Lookup(Resolve(start, SubSeq(path, 1, n)), path[n + 1])
<1>0. Len(path) \in Nat /\ n \in 0 .. Len(path) /\ n + 1 \in 0 .. Len(path)
  OBVIOUS
<1>1. PICK w : IsWay(w, start, path, Len(path))
  BY <1>0, WayExists
<1>2. /\ Resolve(start, SubSeq(path, 1, n)) = w[n]
      /\ Resolve(start, SubSeq(path, 1, n + 1)) = w[n + 1]
  BY <1>0, <1>1, ResolveFirst
<1>4. w[n + 1] = Lookup(w[n], path[n + 1])
  <2>1. n + 1 # 0 /\ (n + 1) - 1 = n
    OBVIOUS
  <2>2. w[n + 1] = Lookup(w[(n + 1) - 1], path[n + 1])
    BY <1>0, <1>1, <2>1 DEF IsWay
  <2> QED BY <2>1, <2>2
<1> QED BY <1>2, <1>4

-----------------------------------------------------------------------------
(***************************************************************************)
(* What one search finds.                                                  *)
(***************************************************************************)

\* A name is found in a directory only, and leads to an inode.
LEMMA LookupFinds ==
  ASSUME NEW d, NEW n, Lookup(d, n) # 0
  PROVE  d \in Dirs /\ Lookup(d, n) \in Inodes
<1>1. d \in Dirs /\ Hits(d, n) # {} /\ Lookup(d, n) = CHOOSE i \in Hits(d, n) : TRUE
  BY DEF Lookup
<1>2. PICK H : H = Hits(d, n) /\ H \subseteq Inodes
  BY DEF Hits
<1>3. (CHOOSE i \in H : TRUE) \in H
  BY <1>1, <1>2
<1> QED BY <1>1, <1>2, <1>3

\* The inode that Mailman's algorithm reads is the one whose number the entry has.
LEMMA MailmanFinds ==
  ASSUME NEW ino \in Inodes
  PROVE  InodeAt(Mailman(ino)) = ino
<1>1. ino \in Nat \ {0} /\ INODES_PER_BLOCK \in Nat \ {0}
  BY TreeAssumption, ShowAssumption
<1>2. PICK b \in Nat \ {0} : b = INODES_PER_BLOCK
  BY <1>1
<1>3. PICK a \in Int : a = ino - 1 /\ a + 1 = ino
  BY <1>1
<1>4. PICK q \in Int, r \in 0 .. b - 1 : q = a \div b /\ r = a % b /\ a = b * q + r
  BY DivMod
<1>5. InodeAt(Mailman(ino)) = (a \div b) * b + (a % b) + 1
  BY <1>2, <1>3 DEF InodeAt, Mailman
<1>6. q * b = b * q /\ b * q \in Int /\ r \in Int
  OBVIOUS
<1>7. q * b + r + 1 = a + 1
  BY <1>4, <1>6
<1> QED BY <1>3, <1>4, <1>5, <1>7

-----------------------------------------------------------------------------
(***************************************************************************)
(* The invariant: where the descriptor has been read as it is on the disk, *)
(* the inode in memory is, as long as showblock searches, where the names  *)
(* it has passed lead, all of them directories.                            *)
(***************************************************************************)

\* The inode that the first k names of the request lead to.
At(k) == Resolve(Root, SubSeq(names, 1, k))

\* The first k names lead through directories.
Through(k) == \A j \in 1 .. k : At(j) \in Dirs

\* What may be printed.
MayShow(i) == \E k \in 1 .. Len(names) : i = At(k) /\ i \in Inodes \ Dirs /\ Through(k - 1)

\* The inductive invariant of showblock.
ShowInv ==
  /\ request \in Requests /\ token \in Nat /\ token <= Len(names)
  /\ status \in {"open", "show", "tokenize"} => token = 0
  /\ status \in {"show", "tokenize", "search"} => ip = At(token) /\ ip \in Dirs /\ Through(token)
  /\ shown # {} => status \in Ended
  /\ \A i \in shown : MayShow(i)
  /\ status = "done" => shown # {}
  /\ status = "failed" => request.device # "ext2" \/ Len(names) > PATHS

\* No inode has been read, and no name passed.
LEMMA ShowStart ==
  ASSUME Init, program = "showblock" PROVE ShowInv
<1>1. PICK r \in Requests : ShowInit(r)
  BY DEF Init
<1>2. r.path \in PathType
  BY ShowAssumption
<1>3. Len(names) \in Nat
  BY <1>1, <1>2 DEF ShowInit, PathType, names
<1> QED BY <1>1, <1>3 DEF ShowInv, ShowInit

\* Until the search begins, ip is the root.
LEMMA ShowOpens ==
  ASSUME DescriptorKept, ShowInv, OpenImage \/ ShowDir \/ TokenizePath PROVE ShowInv'
<1>1. PICK ns \in Seq(Names) : ns = names /\ names' = ns
  <2>1. request.path \in PathType /\ request' = request
    BY ShowAssumption DEF ShowInv, OpenImage, ShowDir, TokenizePath
  <2> QED BY <2>1 DEF PathType, names
<1>2. Resolve(Root, SubSeq(ns, 1, 0)) = Root
  BY ResolveRoot
<1>3. At(0) = Root /\ At(0)' = Root /\ Root \in Dirs /\ Through(0)'
  BY <1>1, <1>2, TreeAssumption DEF At, Through
<1>4. CASE OpenImage
  <2>1. /\ token = 0 /\ token' = 0 /\ request' = request /\ shown' = shown
        /\ request \in Requests /\ 0 <= Len(names)
    BY <1>4 DEF OpenImage, ShowInv
  <2>2. status' = "failed" => request'.device # "ext2"
    BY <1>4 DEF OpenImage
  <2>3. shown = {} /\ status' \in {"show", "failed"} /\ (status' = "show" => ip' = Root)
    BY <1>4 DEF OpenImage, ShowInv, Ended, RootRead
  <2> QED BY <1>1, <1>3, <2>1, <2>2, <2>3 DEF ShowInv, Ended
<1>5. CASE ShowDir \/ TokenizePath
  <2>1. /\ token = 0 /\ token' = 0 /\ request' = request /\ shown = {} /\ shown' = {} /\ ip' = ip
        /\ request \in Requests /\ 0 <= Len(names) /\ ip = At(0)
        /\ status' \in {"tokenize", "hangs", "crashed", "search"}
    BY <1>5 DEF ShowDir, TokenizePath, ShowInv, Ended
  <2> QED BY <1>1, <1>3, <2>1 DEF ShowInv, Ended
<1> QED BY <1>4, <1>5

\* A step that ends the search prints nothing.
LEMMA ShowStops ==
  ASSUME ShowInv, NoName \/ PastTokens \/ Miss PROVE ShowInv'
<1>1. /\ token' = token /\ request' = request /\ shown' = shown /\ ip' = ip
      /\ status = "search" /\ status' \in {"failed", "crashed", "hangs"}
  BY DEF NoName, PastTokens, Miss, HasName, Searching
<1>2. names' = names
  BY <1>1 DEF names
<1>3. shown = {} /\ ip \in Dirs /\ ip # NoInode
  BY <1>1, TreeAssumption DEF ShowInv, Ended, NoInode
<1>4. status' = "failed" => Len(names) > PATHS
  <2>1. CASE NoName
    BY <1>3, <2>1 DEF NoName
  <2>2. CASE Miss
    BY <1>3, <2>2 DEF Miss
  <2>3. CASE PastTokens
    <3>1. token \in Nat /\ token < Len(names) /\ token >= PATHS /\ PATHS \in Nat
      BY <2>3, ShowAssumption DEF PastTokens, ShowInv
    <3>2. Len(names) \in Nat
      <4>1. request.path \in PathType
        BY ShowAssumption DEF ShowInv
      <4> QED BY <4>1 DEF PathType, names
    <3> QED BY <3>1, <3>2
  <2> QED BY <2>1, <2>2, <2>3
<1>5. request' \in Requests /\ token' \in Nat /\ token' <= Len(names') /\ shown' = {}
  BY <1>1, <1>2, <1>3 DEF ShowInv
<1>6. status' = "failed" => Len(names') > PATHS
  BY <1>2, <1>4
<1> QED BY <1>1, <1>5, <1>6 DEF ShowInv, Ended

\* The search goes one name further, or prints the file it has found.
LEMMA ShowFinds ==
  ASSUME ShowInv, Hit PROVE ShowInv'
<1>1. PICK ns \in Seq(Names) : ns = names /\ names' = ns
  <2>1. request.path \in PathType /\ request' = request
    BY ShowAssumption DEF ShowInv, Hit
  <2> QED BY <2>1 DEF PathType, names
<1>2. PICK t \in Nat : t = token /\ t < Len(ns)
  BY <1>1 DEF ShowInv, Hit, HasName
<1>3. PICK i : i = ip
  OBVIOUS
<1>4. PICK ino : ino = Lookup(i, ns[t + 1]) /\ ino # 0
  BY <1>1, <1>2, <1>3 DEF Hit
<1>5. i \in Dirs /\ ino \in Inodes
  BY <1>4, LookupFinds
<1>6. InodeAt(Mailman(ino)) = ino
  BY <1>5, MailmanFinds
<1>7. ip' = ino
  BY <1>1, <1>2, <1>3, <1>4, <1>6 DEF Hit
<1>8. status = "search" /\ shown = {} /\ request \in Requests /\ request' = request
  BY DEF Hit, HasName, Searching, ShowInv, Ended
<1>9. i = Resolve(Root, SubSeq(ns, 1, t)) /\ \A j \in 1 .. t : Resolve(Root, SubSeq(ns, 1, j)) \in Dirs
  <2>2. ip = At(token) /\ Through(token)
    BY <1>8 DEF ShowInv
  <2> QED BY <1>1, <1>2, <1>3, <2>2 DEF At, Through
<1>10. ino = Resolve(Root, SubSeq(ns, 1, t + 1))
  BY <1>2, <1>4, <1>9, ResolveNext
<1>11. t + 1 \in Nat /\ t + 1 <= Len(ns) /\ t + 1 \in 1 .. Len(ns) /\ (t + 1) - 1 = t /\ Len(ns) \in Nat
  BY <1>2
<1>12. CASE ino \in Inodes \ Dirs
  <2>1. shown' = {ino} /\ token' = t /\ status' \in {"done", "crashed"}
    BY <1>2, <1>7, <1>8, <1>12 DEF Hit
  <2>2. MayShow(ino)'
    <3>1. At(t + 1)' = ino
      BY <1>1, <1>10 DEF At
    <3>2. Through(t)'
      BY <1>1, <1>9 DEF At, Through
    <3>3. t + 1 \in 1 .. Len(names')
      BY <1>1, <1>11
    <3> QED BY <1>11, <1>12, <3>1, <3>2, <3>3 DEF MayShow
  <2>3. request' \in Requests /\ token' \in Nat /\ token' <= Len(names')
    BY <1>1, <1>2, <1>8, <1>11, <2>1
  <2> QED BY <2>1, <2>2, <2>3 DEF ShowInv, Ended
<1>13. CASE ino \notin Inodes \ Dirs
  <2>1. shown' = {} /\ token' = t + 1 /\ status' = "search"
    BY <1>2, <1>7, <1>8, <1>13 DEF Hit
  <2>2. At(t + 1)' = ino /\ ino \in Dirs
    BY <1>1, <1>5, <1>10, <1>13 DEF At
  <2>3. Through(t + 1)'
    <3>1. ASSUME NEW j \in 1 .. t + 1 PROVE Resolve(Root, SubSeq(ns, 1, j)) \in Dirs
      <4>1. CASE j = t + 1
        BY <1>10, <2>2, <4>1
      <4>2. CASE j # t + 1
        <5>1. j \in 1 .. t
          BY <4>2
        <5> QED BY <1>9, <5>1
      <4> QED BY <4>1, <4>2
    <3> QED BY <1>1, <3>1 DEF Through, At
  <2>4. request' \in Requests /\ token' \in Nat /\ token' <= Len(names')
    BY <1>1, <1>8, <1>11, <2>1
  <2> QED BY <1>7, <2>1, <2>2, <2>3, <2>4 DEF ShowInv, Ended
<1> QED BY <1>12, <1>13

\* Nothing leads on from what is no directory.
LEMMA Astray ==
  ASSUME NEW path \in Seq(Names), NEW k \in 1 .. Len(path),
         Resolve(Root, SubSeq(path, 1, k)) \notin Dirs, k # Len(path)
  PROVE  Resolve(Root, SubSeq(path, 1, Len(path))) = 0
<1> DEFINE R(j) == Resolve(Root, SubSeq(path, 1, j))
           S == {d \in Nat : k + 1 + d <= Len(path) => R(k + 1 + d) = 0}
<1>0. Len(path) \in Nat /\ k \in Nat /\ 0 \notin Dirs
  BY TreeAssumption
<1>1. ASSUME NEW j \in Nat, j < Len(path), R(j) \notin Dirs PROVE R(j + 1) = 0
  <2>1. R(j + 1) = Lookup(R(j), path[j + 1])
    BY <1>1, ResolveNext
  <2> QED BY <1>1, <2>1 DEF Lookup
<1>2. 0 \in S
  <2>1. k < Len(path) /\ k + 1 + 0 = k + 1
    BY <1>0
  <2>2. R(k + 1) = 0
    BY <1>0, <1>1, <2>1
  <2> QED BY <2>1, <2>2
<1>3. ASSUME NEW d \in Nat, d \in S PROVE d + 1 \in S
  <2>1. CASE k + 1 + (d + 1) <= Len(path)
    <3>1. PICK j \in Nat : j = k + 1 + d /\ j < Len(path) /\ j + 1 = k + 1 + (d + 1)
      BY <1>0, <2>1
    <3>2. R(j) = 0
      BY <1>3, <3>1
    <3>3. R(j + 1) = 0
      BY <1>0, <1>1, <3>1, <3>2
    <3> QED BY <3>1, <3>3
  <2>2. CASE ~(k + 1 + (d + 1) <= Len(path))
    BY <2>2
  <2> QED BY <2>1, <2>2
<1>4. PICK e \in Nat : k + 1 + e = Len(path)
  <2>1. Len(path) - (k + 1) \in Nat /\ k + 1 + (Len(path) - (k + 1)) = Len(path)
    BY <1>0
  <2> QED BY <2>1
<1>5. \A d \in Nat : d \in S
  <2> HIDE DEF S
  <2> QED BY <1>2, <1>3, NaturalsIn
<1>6. R(k + 1 + e) = 0
  BY <1>0, <1>4, <1>5
<1> QED BY <1>4, <1>6

\* What may be printed is what the path leads to, if it leads anywhere.
LEMMA ShowsNamed ==
  ASSUME ShowInv, Named \in Inodes
  PROVE  \A i \in shown : i = Named /\ i \notin Dirs
<1>1. PICK ns \in Seq(Names) : ns = names
  <2>1. request.path \in PathType
    BY ShowAssumption DEF ShowInv
  <2> QED BY <2>1 DEF PathType, names
<1>2. SubSeq(ns, 1, Len(ns)) = ns
  OBVIOUS
<1>3. Named = Resolve(Root, SubSeq(ns, 1, Len(ns))) /\ Named # 0
  BY <1>1, <1>2, TreeAssumption DEF Named
<1> SUFFICES ASSUME NEW i \in shown PROVE i = Named /\ i \notin Dirs
  OBVIOUS
<1>4. PICK k \in 1 .. Len(ns) : i = Resolve(Root, SubSeq(ns, 1, k)) /\ i \notin Dirs
  BY <1>1 DEF ShowInv, MayShow, At
<1>5. k = Len(ns)
  BY <1>3, <1>4, Astray
<1> QED BY <1>3, <1>4, <1>5

\* Where the descriptor is read as it is on the disk, showblock prints, of a path
\* that leads somewhere, the blocks of the file it leads to and no others, and has
\* printed them if it ends by itself: for every image, every path, every size of
\* tokens[] and every number of inodes in a block.
THEOREM ShowsFile ==
  ASSUME DescriptorKept
  PROVE  Spec => []ShowsTheFile
<1> DEFINE Inv == program = "showblock" => ShowInv
<1>1. Init => Inv
  BY ShowStart
<1>2. Inv /\ [Next]_vars => Inv'
  <2> SUFFICES ASSUME Inv, [Next]_vars, program' = "showblock" PROVE ShowInv'
    OBVIOUS
  <2>1. program = "showblock" /\ ShowInv
    BY DEF Next, Partitions, Myprintf, Showblock, Finished, vars
  <2>2. CASE Showblock
    BY <2>1, <2>2, ShowOpens, ShowStops, ShowFinds DEF Showblock, ShowNext
  <2>3. CASE UNCHANGED showVars
    BY <2>1, <2>3 DEF showVars, ShowInv, MayShow, Through, At, names
  <2>4. Showblock \/ UNCHANGED showVars
    BY <2>1 DEF Next, Partitions, Myprintf, Finished, vars
  <2> QED BY <2>2, <2>3, <2>4
<1>3. Inv => ShowsTheFile
  <2> SUFFICES ASSUME program = "showblock", ShowInv, Named \in Inodes
               PROVE  /\ shown \subseteq {Named} \ Dirs
                      /\ /\ request.device = "ext2" /\ status \in {"done", "failed"}
                         /\ Len(names) <= PATHS
                         => shown = {Named} \ Dirs
    BY DEF ShowsTheFile
  <2>1. \A i \in shown : i = Named /\ i \notin Dirs
    BY ShowsNamed
  <2>2. ASSUME request.device = "ext2", status \in {"done", "failed"}, Len(names) <= PATHS
        PROVE  shown # {}
    <3>1. Len(names) \in Nat /\ PATHS \in Nat
      <4>1. request.path \in PathType
        BY ShowAssumption DEF ShowInv
      <4> QED BY <4>1, ShowAssumption DEF PathType, names
    <3> QED BY <2>2, <3>1 DEF ShowInv
  <2> QED BY <2>1, <2>2
<1> QED BY <1>1, <1>2, <1>3, PTL DEF Spec
=============================================================================
