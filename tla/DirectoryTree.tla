--------------------------- MODULE DirectoryTree ---------------------------
(***************************************************************************)
(* The mounted ext2 image, read only: for every directory inode the        *)
(* entries of its one data block, in order, "." and ".." first.  The other *)
(* inodes are empty regular files (i_blocks = 0), as on the image mydisk   *)
(* that comes with the program.  Names are atoms.                          *)
(***************************************************************************)
EXTENDS Naturals, Sequences

CONSTANTS Inodes,   \* the inode numbers in use
          Dirs,     \* those that are directories
          Names,    \* the names of entries, and names that occur in paths
          Disk      \* Disk[d]: the sequence of entries of directory d

Root == 2
Entries == [name : Names, ino : Inodes]

ASSUME TreeAssumption ==
  /\ Inodes \subseteq Nat \ {0} /\ Dirs \subseteq Inodes /\ Root \in Dirs
  /\ Disk \in [Dirs -> Seq(Entries)]
  /\ \A d \in Dirs : \A i, j \in DOMAIN Disk[d] :
       Disk[d][i].name = Disk[d][j].name => i = j
  /\ \A d \in Dirs : \A i \in DOMAIN Disk[d] :
       Disk[d][i].name = ".." => Disk[d][i].ino \in Dirs

EntriesOf(d) == {Disk[d][i] : i \in DOMAIN Disk[d]}

\* The inodes that d has an entry n for: one, or none.
Hits(d, n) == {i \in Inodes : [name |-> n, ino |-> i] \in EntriesOf(d)}

\* Where a path leads from inode start; 0 stands for nowhere.
Lookup(d, n) ==
  IF d \in Dirs /\ Hits(d, n) # {} THEN CHOOSE i \in Hits(d, n) : TRUE ELSE 0

Resolve(start, names) ==
  LET at[k \in 0 .. Len(names)] ==
        IF k = 0 THEN start ELSE Lookup(at[k-1], names[k])
  IN  at[Len(names)]

\* A pathname as the user types it: "none" is no pathname, "root" is "/",
\* "abs" starts with a slash ("//" has no names), "rel" does not.
PathKinds == {"none", "root", "abs", "rel"}
PathType == [kind : PathKinds, names : Seq(Names)]
NoPath == [kind |-> "none", names |-> <<>>]
=============================================================================
