-------------------------- MODULE MinodeProperties --------------------------
(***************************************************************************)
(* What mountroot's inode cache keeps to, and, in the last section, what   *)
(* its ReadMe and messages say of it that it does not keep to.             *)
(***************************************************************************)
EXTENDS MinodeCache

PCs == {"idle", "load", "search", "open", "chdir", "list", "pwd",
        "done", "hang", "crash", "exit"}

\* The types of the cache, of the two lasting pointers and of the locals of
\* the command in progress.
TypeOK ==
  /\ ino \in [Slots -> Inodes \union {0}]
  /\ ref \in [Slots -> Nat]
  /\ root \in Slots /\ cwd \in Slots
  /\ pc \in PCs
  /\ cmd \in {"none", "ls", "cd", "pwd", "quit"}
  /\ path \in PathType
  /\ mip \in Slots \union {NULL}
  /\ target \in Inodes \union {0}
  /\ todo \in Seq(Names)
  /\ listing \in Seq(Entries)
  /\ out \in Seq(Names)

\* No inode is in the cache twice: the two loops of iget() together load an
\* inode only when no slot holds it.  R_Pwd() stops by comparing pointers and
\* would never meet a root that is in two slots.
NoAliases ==
  \A s, t \in Slots : ino[s] = ino[t] /\ ino[s] # 0 => s = t

Held(b) == IF b THEN 1 ELSE 0

\* getino(), ListFile() and ChangeDir() hold mip by a reference of its own,
\* ls_dir() of the current directory by that of cwd.
HoldsMip == \/ pc \in {"search", "chdir"}
            \/ pc = "list" /\ path.kind # "none"

\* The references a slot must have for root and cwd.  The root's second one
\* is that of the first cwd, which ChangeDir() never releases, and which
\* "cd /" counts on.
Pins(s) == IF s = root THEN 2 ELSE Held(s = cwd)

\* A slot has a reference for each of root, cwd and the walk that point to
\* it, so that iget() never recycles it under them.
HoldersPinned ==
  pc # "exit" =>
    /\ \A s \in Slots : ref[s] >= Pins(s) + Held(HoldsMip /\ s = mip)
    /\ pc \in {"search", "chdir", "list", "pwd"} => mip \in Slots /\ ref[mip] >= 1

\* The slots that the program points to hold what it thinks they hold: root
\* the root inode, cwd a directory, mip the inode that getino() resolved.
SlotsKeepInodes ==
  /\ ino[root] = Root
  /\ ino[cwd] \in Dirs
  /\ pc \in {"search", "chdir"} => ino[mip] = target

\* getino() leaves a reference to the inode it returns behind.  ChangeDir()
\* gives its own back, so this is the one the new cwd lives on.
LeftBehind ==
  pc \in {"open", "chdir"} /\ path.kind # "root" =>
    \E s \in Slots : ino[s] = target /\ ref[s] >= Pins(s) + 1 + Held(pc = "chdir")

\* What the locals of the command in progress are good for.
LocalsInv ==
  /\ pc \in {"load", "search", "open", "chdir"} => target \in Inodes
  /\ pc = "search" => todo # <<>>
  /\ pc \in {"load", "search"} => path.kind # "root"
  /\ pc \in {"open", "chdir"} /\ path.kind = "root" => target = Root
  /\ pc = "pwd" => ino[mip] \in Dirs

\* The inductive invariant behind NoAliases and HoldersPinned.
IInv == TypeOK /\ NoAliases /\ HoldersPinned /\ SlotsKeepInodes /\ LeftBehind /\ LocalsInv

\* Anywhere but in the root, what pwd prints is a pathname that leads from the
\* root to the current directory.  It rests on what GetName() leaves behind in
\* its dead frame.  (In the root the program prints an empty string, and not the
\* "/" of ReadMe.md 170.)
PwdNamesCwd ==
  pc = "done" /\ cmd = "pwd" /\ ino[cwd] # Root => Resolve(Root, out) = ino[cwd]

\* getino() is on its way: what is left of the path leads from the inode in
\* hand to where the whole path leads.
StartOf(p) == IF p.kind = "rel" THEN ino[cwd] ELSE Root
WalkInv ==
  /\ pc \in {"load", "search", "open", "chdir"} =>
       path \in Paths /\ path.kind # "none" /\ cmd \in {"ls", "cd"}
  /\ pc = "chdir" => cmd = "cd"
  /\ pc \in {"load", "search"} => Resolve(target, todo) = Resolve(StartOf(path), path.names)
  /\ pc \in {"open", "chdir"} => target = Resolve(StartOf(path), path.names)
  /\ pc \in {"open", "chdir"} => path.kind = "root" \/ path.names # <<>>

\* R_Pwd() is on its way: the names put together so far lead from the
\* ancestor it has reached back to the current directory.
ClimbingInv ==
  /\ pc = "list" => cmd = "ls"
  /\ pc = "pwd" => cmd = "pwd" /\ (FrameKept => Resolve(ino[mip], out) = ino[cwd])

\* The inductive invariant behind PwdNamesCwd and ImplementsWorkingDirectory.
NamesInv == IInv /\ WalkInv /\ ClimbingInv /\ (FrameKept => PwdNamesCwd)

\* A typed command comes to an end, if it does not hang in search() or crash
\* for want of a slot: the walk down a path and the climb of pwd are finite.
CommandsEnd ==
  pc \notin {"idle", "exit"} ~> pc \in {"idle", "hang", "crash"}

\* The pathname of a cd that has been typed and has not returned.
TypedCd ==
  IF cmd = "cd" /\ pc \in {"load", "search", "open", "chdir", "hang", "crash"}
  THEN path ELSE NoPath

\* The cache implements the shell of WorkingDirectory: the inode in cwd's slot
\* changes only by ChangeDir(), to the directory that the pathname typed leads
\* to, and a cd that returns without a move had a pathname that leads to no
\* directory.
Abstract == INSTANCE WorkingDirectory WITH cur <- ino[cwd], typed <- TypedCd
ImplementsWorkingDirectory == Abstract!Spec

=============================================================================
