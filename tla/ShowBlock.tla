----------------------------- MODULE ShowBlock -----------------------------
(***************************************************************************)
(* Lab6: showblock DEVICE PATHNAME prints the disk blocks of a file of an  *)
(* ext2 image.  The functions that read the super block, the descriptor    *)
(* and the root inode return the address of a buffer in their own, dead    *)
(* frame; what main() finds there is a choice.                             *)
(***************************************************************************)
EXTENDS DirectoryTree

CONSTANTS Requests,        \* the command lines: a path, and what the device is
          PATHS,           \* how many names tokens[] holds
          INODES_PER_BLOCK,\* 8 on the image
          DescriptorKept   \* whether the printf() before it is read leaves the
                           \* descriptor in the dead frame alone

ASSUME ShowAssumption ==
  /\ PATHS \in Nat \ {0} /\ INODES_PER_BLOCK \in Nat \ {0} /\ DescriptorKept \in BOOLEAN
  /\ \A r \in Requests : r.path \in PathType /\ r.device \in {"none", "other", "ext2"}

VARIABLES request,
          status,    \* where main() is, or how it ended
          token,     \* i of SearchTokens()
          ip,        \* the inode in memory, NoInode where none was read
          shown      \* the inodes whose direct blocks ShowReg() has printed

showVars == <<request, status, token, ip, shown>>

NoInode == 0
names == request.path.names
Ended == {"failed", "crashed", "hangs", "done"}

ShowInit(r) ==
  /\ request = r /\ status = "open" /\ token = 0 /\ ip = NoInode /\ shown = {}

\* The inode that main() takes for the root's.  iblock comes from the descriptor
\* after a printf() has run over it: any block of the disk may be read for it, so
\* that the bytes may be those of any inode, or be good for none.
RootRead == IF DescriptorKept THEN {Root} ELSE Inodes \cup {NoInode}

\* OpenFile(), GetSuperBlock(), GetGroupDesc(), GetRootINode().
OpenImage ==
  /\ status = "open"
  /\ IF request.device = "ext2"
     THEN status' = "show" /\ ip' \in RootRead
     ELSE status' = "failed" /\ UNCHANGED ip
  /\ UNCHANGED <<request, token, shown>>

\* ShowDir(root) walks as many blocks as the dead frame says; the block after the
\* first is block 0, where rec_len is 0 and the walk stays, or any block.
ShowDir ==
  /\ status = "show" /\ status' \in {"tokenize", "hangs", "crashed"}
  /\ UNCHANGED <<request, token, ip, shown>>

\* TokenizePath(); without a pathname it is strtok(NULL) on nothing.
TokenizePath ==
  /\ status = "tokenize"
  /\ status' = IF request.path.kind = "none" THEN "crashed" ELSE "search"
  /\ UNCHANGED <<request, token, ip, shown>>

\* It counts one name too many.
size == Len(names) + 1

-----------------------------------------------------------------------------
\* Mailman's algorithm, relative to the block inodes_start.
\* Faulty variant: it counts inodes from 0.
MailmanFromZero(ino) == [blk |-> ino \div INODES_PER_BLOCK, offset |-> ino % INODES_PER_BLOCK]
Mailman(ino) ==
  [blk |-> (ino - 1) \div INODES_PER_BLOCK, offset |-> (ino - 1) % INODES_PER_BLOCK]

\* The inode that the image has there.
InodeAt(a) == a.blk * INODES_PER_BLOCK + a.offset + 1

\* One turn of the loop of SearchTokens(), with SearchDir() and ShowReg().
Searching == status = "search" /\ token < size

\* tokens[i] is NULL after the last name, which strcmp() does not survive; but an
\* inode without blocks is not searched.
NoName ==
  /\ Searching /\ token >= Len(names)
  /\ status' = IF ip = NoInode THEN "failed" ELSE "crashed"
  /\ UNCHANGED <<request, token, ip, shown>>

\* Past the array there may be any word: another name, or no string at all.
PastTokens ==
  /\ Searching /\ token < Len(names) /\ token >= PATHS
  /\ status' \in {"crashed", "hangs", "failed"}
  /\ UNCHANGED <<request, token, ip, shown>>

HasName == Searching /\ token < Len(names) /\ token < PATHS

\* A search that finds nothing goes on in block 0; what is not a directory, where
\* main() took it for the root, is searched as if it were one.
Miss ==
  /\ HasName /\ Lookup(ip, names[token + 1]) = 0
  /\ status' \in IF ip = NoInode THEN {"failed"}
                 ELSE IF ip \in Dirs THEN {"hangs"} ELSE {"failed", "hangs", "crashed"}
  /\ UNCHANGED <<request, token, ip, shown>>

\* The direct blocks are those of the inode; what follows them is read through a
\* pointer to nowhere.
Hit ==
  /\ HasName
  /\ LET ino == Lookup(ip, names[token + 1])
     IN  /\ ino # 0
         /\ ip' = InodeAt(Mailman(ino))
         /\ IF ip' \in Inodes \ Dirs
            THEN /\ shown' = shown \cup {ip'} /\ UNCHANGED token
                 /\ status' \in {"done", "crashed"}
            ELSE token' = token + 1 /\ UNCHANGED <<shown, status>>
  /\ UNCHANGED request

ShowNext == OpenImage \/ ShowDir \/ TokenizePath \/ NoName \/ PastTokens \/ Miss \/ Hit
ShowDone == status \in Ended
=============================================================================
