------------------------------- MODULE OneShot -------------------------------
(***************************************************************************)
(* The programs that take one input, print and end: Partitions and         *)
(* myprintf of Lab1, showblock of Lab6.  The user starts one of them.      *)
(***************************************************************************)
EXTENDS PartitionTable, NumberPrinting, ShowBlock, FiniteSets

VARIABLE program

vars == <<program, partitionVars, printVars, showVars>>

\* The inputs of the programs that are not started do not matter.
AnyOf(S) == {CHOOSE x \in S : TRUE}

Init ==
  /\ program \in {"Partitions", "myprintf", "showblock"}
  /\ \E d \in IF program = "Partitions" THEN Disks ELSE AnyOf(Disks) : PartitionInit(d)
  /\ \E c \in IF program = "myprintf" THEN Prints ELSE AnyOf(Prints) : PrintInit(c)
  /\ \E r \in IF program = "showblock" THEN Requests ELSE AnyOf(Requests) : ShowInit(r)

Partitions ==
  /\ program = "Partitions" /\ PartitionNext
  /\ UNCHANGED <<program, printVars, showVars>>
Myprintf ==
  /\ program = "myprintf" /\ PrintNext
  /\ UNCHANGED <<program, partitionVars, showVars>>
Showblock ==
  /\ program = "showblock" /\ ShowNext
  /\ UNCHANGED <<program, partitionVars, printVars>>

Ends ==
  \/ program = "Partitions" /\ PartitionsDone
  \/ program = "myprintf" /\ ScanEnds
  \/ program = "showblock" /\ ShowDone
Finished == Ends /\ UNCHANGED vars

Next == Partitions \/ Myprintf \/ Showblock \/ Finished

Spec == Init /\ [][Next]_vars

-----------------------------------------------------------------------------
(***************************************************************************)
(* Properties                                                              *)
(***************************************************************************)

\* The partitions by the link list on the disk: the entries of the master table
\* that are in use, then the chain of local tables, whose second
\* entries are relative to the extended partition, the last of the primaries.
Used(d) == {i \in 1 .. 4 : d.table[0][i].start_sector # 0}
Primaries(d) == Cardinality(Used(d))
LastPrimary(d) == d.table[0][Primaries(d)]

LocalTables(d) == DOMAIN d.table \ {0}
Logicals(d) == Cardinality(LocalTables(d))
LocalTable(d, k) ==
  LET ext == LastPrimary(d).start_sector
      at[j \in 1 .. k] ==
        IF j = 1 THEN ext ELSE ext + d.table[at[j - 1]][2].start_sector
  IN  at[k]
Logical(d, k) ==
  LET t == LocalTable(d, k)
  IN  [d.table[t][1] EXCEPT !.start_sector = @ + t]

Linked(d, k) == IF k <= Primaries(d) THEN d.table[0][k] ELSE Logical(d, k - Primaries(d))
LinkList(d) ==
  [k \in 1 .. Primaries(d) + Logicals(d) |-> Line(Linked(d, k), EndOf(Linked(d, k)), k)]

\* A disk without gaps, like vdisk: no entry is skipped, the last primary is extended
\* if there are logical partitions, and no other; these are plain, have sectors and
\* follow each other, the last of them ends where the disk ends, and its table has
\* no other entry.  They are few enough for the stack.
WithoutGaps(d) ==
  LET m == Primaries(d)  n == Logicals(d)
  IN  /\ d.sectors <= REACH /\ m + n < STACK
      /\ Used(d) = 1 .. m
      /\ \A i \in 1 .. m : d.table[0][i].sys_type = Extended <=> i = m /\ n # 0
      /\ n # 0 =>
           /\ m # 0
           /\ \A k \in 1 .. n : /\ LocalTable(d, k) \in LocalTables(d)
                               /\ Logical(d, k).sys_type # Extended
                               /\ Logical(d, k).nr_sectors # 0
           /\ \A k \in 1 .. n - 1 : LocalTable(d, k + 1) = EndOf(Logical(d, k)) + 1
           /\ EndOf(Logical(d, n)) = EndOf(LastPrimary(d))
           /\ EndOf(LastPrimary(d)) = d.sectors - 1
           /\ \A i \in 2 .. 4 : d.table[LocalTable(d, n)][i].start_sector = 0

\* On a disk without gaps the program lists every partition, once, in order, with
\* the right number, and stops: although the walk never follows a link, although
\* its last read fails and leaves the buffer as it was, and although the walk of
\* the master table goes on in what a local table has left in the buffer.
PartitionsListed ==
  program = "Partitions" /\ WithoutGaps(disk) =>
    /\ IsPrefix(listing, LinkList(disk))
    /\ PartitionsDone => listing = LinkList(disk) /\ ~overflow

-----------------------------------------------------------------------------
\* The powers of the base.
Power(base) == LET p[k \in 0 .. WORD] == IF k = 0 THEN 1 ELSE base * p[k - 1] IN p

\* As few digits as x takes, and the numeral of x: each digit at its place.
Places(x, base) ==
  CHOOSE k \in 1 .. WORD :
    Power(base)[k] > x /\ \A j \in 1 .. k - 1 : Power(base)[j] <= x
Numeral(x, base) ==
  [i \in 1 .. Places(x, base) |->
     ctable[((x \div Power(base)[Places(x, base) - i]) % base) + 1]]

\* What a conversion prints: a number comes out as its numeral.  This is the digits
\* only: the comments at printx() and printo() (myprintf.c 18, 19) announce a prefix
\* that no number but 0 gets, the ReadMe (170) wants a carriage return with each new
\* line, of 0 %d prints no digit and %x a prefix and a new line.
Text(type, arg) ==
  CASE type = "s" -> Memory[arg]
    [] type = "c" -> <<Glyph[arg]>>
    [] type = "d" /\ arg = 0 -> <<>>
    [] type = "d" /\ arg < 0 -> <<"-">> \o Numeral(-arg, 10)
    [] type = "o" -> Numeral(arg % WORD, 8)
    [] type = "x" /\ arg = 0 -> <<"0", "x", "\n">>
    [] type = "x" /\ arg # 0 -> Numeral(arg % WORD, 16)
    [] OTHER -> Numeral(arg % WORD, 10)

Conversions(c) == {i \in DOMAIN c.fmt : c.fmt[i] = "%"}
NumberOf(c, i) == Cardinality({j \in Conversions(c) : j <= i})
ArgOf(c, i) == c.args[NumberOf(c, i)]

\* Every % comes with one of the six letters and an argument, that of %s a string.
WellFormed(c) ==
  \A i \in Conversions(c) :
    /\ i < Len(c.fmt) /\ c.fmt[i + 1] \in {"c", "s", "u", "d", "o", "x"}
    /\ NumberOf(c, i) \in DOMAIN c.args
    /\ c.fmt[i + 1] = "s" => ArgOf(c, i) \in DOMAIN Memory

\* What the character at i of the format stands for.
Piece(c, i) ==
  IF i \in Conversions(c) THEN Text(c.fmt[i + 1], ArgOf(c, i))
  ELSE IF i - 1 \in Conversions(c) THEN <<>> ELSE <<c.fmt[i]>>
Expected(c) == FlattenSeq([i \in DOMAIN c.fmt |-> Piece(c, i)])

\* A well-formed call of myprintf() prints the text of its format with the numeral
\* of each argument in its place, for every value of a word, the smallest int
\* included, whose negation is itself; only 0 has none in %d and %x.
PrintsNumerals ==
  program = "myprintf" /\ ScanEnds /\ WellFormed(call) => out = Expected(call)

-----------------------------------------------------------------------------
\* On a path that leads somewhere, the direct blocks that showblock prints are those
\* of the file it leads to and of no other, a directory has none, and if showblock
\* comes to an end at all on a path that fits tokens[] it has printed them.  The
\* path is followed from the inode in block inodes_start, as read from a dead frame.
\* A path that leads on from a file, and so nowhere, is not covered: SearchTokens()
\* shows the file (Functions.c 175), although "ip MUST point at the INODE of pathname".
Named == Resolve(Root, names)
ShowsTheFile ==
  program = "showblock" /\ Named \in Inodes =>
    /\ shown \subseteq {Named} \ Dirs
    /\ request.device = "ext2" /\ status \in {"done", "failed"} /\ Len(names) <= PATHS =>
         shown = {Named} \ Dirs

=============================================================================
