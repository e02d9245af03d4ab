--------------------------- MODULE PartitionTable ---------------------------
(***************************************************************************)
(* Lab1, Partitions.c: lists the partitions of a disk.  The two recursive  *)
(* functions share one buffer, so that what a caller goes on with is what  *)
(* its callee has read last.                                               *)
(***************************************************************************)
EXTENDS Integers, Sequences, SequencesExt

CONSTANTS Disks,   \* the disks: how many sectors, and the tables on them
          REACH,   \* the first sector whose byte offset does not fit a u32
          STACK    \* the partitions it lists before the recursion is too deep

Partition == [sys_type : Nat, start_sector : Nat, nr_sectors : Nat]
Extended == 5
NoEntry == [sys_type |-> 0, start_sector |-> 0, nr_sectors |-> 0]
NoTable == [i \in 1 .. 4 |-> NoEntry]

\* A table has four entries, and lies on the disk.
ASSUME PartitionAssumption ==
  /\ REACH \in Nat \ {0} /\ STACK \in Nat
  /\ \A d \in Disks :
       /\ d.sectors \in Nat /\ 0 \in DOMAIN d.table
       /\ \A t \in DOMAIN d.table : t \in 0 .. d.sectors - 1 /\ d.table[t] \in [1 .. 4 -> Partition]

VARIABLES disk,
          BUF,       \* the table in BUF, and the zeros that follow BUF in memory
          calls,     \* the calls that have something left to do, innermost first
          listing,   \* the lines printed
          overflow   \* the stack was too small

partitionVars == <<disk, BUF, calls, listing, overflow>>

Loaded(d, n) == IF n \in DOMAIN d.table THEN d.table[n] ELSE NoTable

\* readDisk() and main().  If the open fails, main goes on with BUF as it is,
\* all zero, which is what a disk with an empty table leaves in it.
PartitionInit(d) ==
  /\ disk = d
  /\ BUF = Append(Loaded(d, 0), NoEntry)
  /\ calls = <<[f |-> "LoadPartitions", p |-> 1, pCount |-> 1]>>
  /\ listing = <<>> /\ overflow = FALSE

\* Faulty variant: the sector is taken as it is on the disk.
FetchedAsIs(n) == Append(Loaded(disk, n), NoEntry)
\* What getExtendedPartition(n) leaves in BUF.  n * BUFSIZE is a u32; past the
\* end of the disk read() changes nothing, and n is added once more.
Fetched(n) ==
  LET s == n % REACH
      t == IF s < disk.sectors THEN Append(Loaded(disk, s), NoEntry) ELSE BUF
  IN  [t EXCEPT ![1].start_sector = @ + n]

Line(p, end, device) ==
  [device |-> device, start |-> p.start_sector, end |-> end,
   sectors |-> p.nr_sectors, id |-> p.sys_type]

\* A u32, which has room for 512 * REACH: the disks whose listing is promised have
\* at most REACH sectors, and what is added up here stays below three times that.
EndOf(p) == p.nr_sectors + p.start_sector - 1

Calls(f) == calls # <<>> /\ Head(calls).f = f /\ Len(listing) < STACK

LoadPartitions ==
  /\ Calls("LoadPartitions")
  /\ LET c == Head(calls)
         p == BUF[c.p]
         goOn == [f |-> "LoadPartitions", p |-> c.p + 1, pCount |-> c.pCount + 1]
         logical == [f |-> "LoadExtendedPartitions",
                     end |-> EndOf(p), pCount |-> c.pCount + 1]
     IN  IF p.start_sector = 0
         THEN calls' = Tail(calls) /\ UNCHANGED <<BUF, listing>>
         ELSE /\ listing' = Append(listing, Line(p, EndOf(p), c.pCount))
              /\ IF p.sys_type = Extended
                 THEN /\ BUF' = Fetched(p.start_sector)
                      /\ calls' = <<logical, goOn>> \o Tail(calls)
                 ELSE calls' = <<goOn>> \o Tail(calls) /\ UNCHANGED BUF
  /\ UNCHANGED <<disk, overflow>>

\* Up to getExtendedPartition().
LoadExtendedPartitions ==
  /\ Calls("LoadExtendedPartitions")
  /\ LET c == Head(calls)
         p == BUF[1]
         nested == [f |-> "LoadPartitions", p |-> 1, pCount |-> c.pCount]
         goOn == [f |-> "Follow", currEnd |-> EndOf(p), end |-> c.end,
                  pCount |-> c.pCount]
     IN  IF EndOf(p) > c.end
         THEN calls' = Tail(calls) /\ UNCHANGED listing
         ELSE IF p.sys_type = Extended
              THEN calls' = <<nested, goOn>> \o Tail(calls) /\ UNCHANGED listing
              ELSE /\ calls' = <<goOn>> \o Tail(calls)
                   /\ listing' = Append(listing, Line(p, EndOf(p), c.pCount))
  /\ UNCHANGED <<disk, BUF, overflow>>

\* The rest of it: the next table is taken to follow the partition.
Follow ==
  /\ Calls("Follow")
  /\ LET c == Head(calls)
     IN  /\ BUF' = Fetched(c.currEnd + 1)
         /\ calls' = <<[f |-> "LoadExtendedPartitions", end |-> c.end,
                        pCount |-> c.pCount + 1]>> \o Tail(calls)
  /\ UNCHANGED <<disk, listing, overflow>>

Overflow ==
  /\ calls # <<>> /\ Len(listing) = STACK
  /\ overflow' = TRUE /\ calls' = <<>>
  /\ UNCHANGED <<disk, BUF, listing>>

PartitionNext == LoadPartitions \/ LoadExtendedPartitions \/ Follow \/ Overflow
PartitionsDone == calls = <<>>
=============================================================================
