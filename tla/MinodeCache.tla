----------------------------- MODULE MinodeCache -----------------------------
(***************************************************************************)
(* Lab5, mountroot: the cache of in-memory inodes minode[NMINODE] with its *)
(* reference counts, iget, iput, getino, and the commands ls, cd, pwd and  *)
(* quit that use it.                                                       *)
(*                                                                         *)
(* A slot of the cache is the inode number and the reference count it      *)
(* holds; the INODE copied into it is the disk's, a function of the        *)
(* number.  A MINODE pointer is the slot's index, NULL for a null pointer. *)
(* Every iget or iput is a step of its own, except that the pair around    *)
(* one entry of a listing, with nothing in between, is one.  dev is the    *)
(* one open disk; dirty is never set, so that iput()'s write-back is never *)
(* reached.                                                                *)
(***************************************************************************)
EXTENDS DirectoryTree

CONSTANTS NMINODE,  \* slots in the cache, 64 in Type.h
          Paths,    \* the pathnames a user may type
          MaxRef,   \* bound: no command is typed once a count has reached it
          FrameKept \* whether what GetName() leaves below the stack survives

ASSUME CacheAssumption ==
  NMINODE \in Nat \ {0} /\ MaxRef \in Nat /\ FrameKept \in BOOLEAN
ASSUME PathsAssumption ==
  /\ Paths \subseteq PathType
  /\ \A p \in Paths : p.kind = "root" => p.names = <<>>

Slots == 1 .. NMINODE
NULL == 0

VARIABLES
  ino,      \* minode[s].ino, 0 for a slot never used
  ref,      \* minode[s].refCount
  root,     \* the slot of the mounted root
  cwd,      \* running->cwd
  pc,       \* where the program is
  cmd,      \* main()'s command and pathname
  path,
  mip,      \* the local mip of getino, ListFile, ChangeDir; wd of R_Pwd
  target,   \* the inode to load next
  todo,     \* names still to walk
  listing,  \* entries still to list
  out       \* the names pwd has put together

cacheVars == <<ino, ref>>
callVars == <<mip, target, todo, listing, out>>
vars == <<cacheVars, root, cwd, pc, cmd, path, callVars>>

Cached(i) == {s \in Slots : ino[s] = i}

\* The slots iget() may take.  Faulty variant: the last holder is ignored.
UnusedOrLast == {s \in Slots : ref[s] <= 1}
Unused == {s \in Slots : ref[s] = 0}

First(S) == {s \in S : \A t \in S : s <= t}

-----------------------------------------------------------------------------
(***************************************************************************)
(* util.c: iget() and iput()                                               *)
(***************************************************************************)

\* Faulty variant: the search for a free slot comes first.
IgetFreeFirst(i, s) ==
  \/ /\ s \in First(Unused)
     /\ ino' = [ino EXCEPT ![s] = i]
     /\ ref' = [ref EXCEPT ![s] = 1]
  \/ /\ Unused = {} /\ s \in First(Cached(i))
     /\ ref' = [ref EXCEPT ![s] = @ + 1]
     /\ UNCHANGED ino
  \/ /\ Cached(i) = {} /\ Unused = {} /\ s = NULL
     /\ UNCHANGED cacheVars

\* iget() returns s: the slot that holds inode i already, the first slot not
\* in use, or NULL ("no more free minodes").
Iget(i, s) ==
  \/ /\ s \in First(Cached(i))
     /\ ref' = [ref EXCEPT ![s] = @ + 1]
     /\ UNCHANGED ino
  \/ /\ Cached(i) = {} /\ s \in First(Unused)
     /\ ino' = [ino EXCEPT ![s] = i]
     /\ ref' = [ref EXCEPT ![s] = 1]
  \/ /\ Cached(i) = {} /\ Unused = {} /\ s = NULL
     /\ UNCHANGED cacheVars

Iput(s) == ref' = [ref EXCEPT ![s] = @ - 1] /\ UNCHANGED ino

-----------------------------------------------------------------------------
\* main() up to its loop: init(), mount_root() and init_proc(), which load the
\* root inode into the first slot and take it twice.
Init ==
  /\ ino = [s \in Slots |-> IF s = 1 THEN Root ELSE 0]
  /\ ref = [s \in Slots |-> IF s = 1 THEN 2 ELSE 0]
  /\ root = 1 /\ cwd = 1
  /\ pc = "idle" /\ cmd = "none" /\ path = NoPath
  /\ mip = NULL /\ target = 0 /\ todo = <<>> /\ listing = <<>> /\ out = <<>>

\* The bound on the counts, which grow with every reference that is not
\* given back.
BelowBound == \A s \in Slots : ref[s] < MaxRef

Typed(c, p) == pc = "idle" /\ BelowBound /\ cmd' = c /\ path' = p

\* Where getino() starts.  Faulty variant: a relative path starts from the
\* root as well.
RootAlways(p) == Root
Origin(p) == IF p.kind = "rel" THEN ino[cwd] ELSE Root

\* ChangeDir() or ListFile() calls getino(), which for "/" only returns 2.
Command(c, p) ==
  /\ Typed(c, p) /\ p.kind # "none"
  /\ target' = Origin(p)
  /\ todo' = p.names
  /\ pc' = IF p.kind = "root" THEN "open" ELSE "load"
  /\ UNCHANGED <<cacheVars, root, cwd, mip, listing, out>>

Ls(p) == Command("ls", p)
Cd(p) == Command("cd", p)

\* ls with no pathname lists the current directory without taking it; cd with
\* no pathname does nothing.
LsHere ==
  /\ Typed("ls", NoPath)
  /\ mip' = cwd /\ listing' = Disk[ino[cwd]]
  /\ pc' = "list"
  /\ UNCHANGED <<cacheVars, root, cwd, target, todo, out>>

CdNowhere ==
  /\ Typed("cd", NoPath)
  /\ pc' = "done"
  /\ UNCHANGED <<cacheVars, root, cwd, callVars>>

\* The command returns to main(), whose next turn starts with fresh locals.
NextLine ==
  /\ pc = "done"
  /\ pc' = "idle" /\ cmd' = "none" /\ path' = NoPath
  /\ mip' = NULL /\ target' = 0 /\ todo' = <<>> /\ listing' = <<>> /\ out' = <<>>
  /\ UNCHANGED <<cacheVars, root, cwd>>

-----------------------------------------------------------------------------
(***************************************************************************)
(* getino()                                                                *)
(***************************************************************************)

\* mip = iget(ino).  Out of names, getino() returns without giving mip back;
\* for "//" it returns 0, and the command is over.  A NULL mip is
\* dereferenced by the next search() or by the caller.
Load ==
  /\ pc = "load"
  /\ \E s \in Slots \union {NULL} :
       /\ Iget(target, s)
       /\ mip' = s
       /\ pc' = IF s = NULL THEN "crash"
                ELSE IF todo # <<>> THEN "search"
                ELSE IF path.names = <<>> THEN "done" ELSE "open"
  /\ UNCHANGED <<root, cwd, cmd, path, target, todo, listing, out>>

\* Faulty variant: the loop over the names does not advance.
SameNames == todo
NextNames == Tail(todo)

\* search() finds the next name; getino() gives mip back and loads the inode.
SearchFinds ==
  /\ pc = "search" /\ ino[mip] \in Dirs
  /\ \E i \in Hits(ino[mip], Head(todo)) : target' = i
  /\ Iput(mip)
  /\ todo' = NextNames
  /\ pc' = "load"
  /\ UNCHANGED <<root, cwd, cmd, path, mip, listing, out>>

\* A name that the directory lacks: i_blocks counts 512-byte sectors, 2 for
\* the one block of a directory, so search() goes on to block 0, all zeros
\* on the disk, where rec_len = 0 keeps it forever.
SearchHangs ==
  /\ pc = "search" /\ ino[mip] \in Dirs
  /\ Hits(ino[mip], Head(todo)) = {}
  /\ pc' = "hang"
  /\ UNCHANGED <<cacheVars, root, cwd, cmd, path, callVars>>

\* In an empty file search() makes no turn of its loop and falls off its end;
\* what it returns is the loop counter, 0, still in eax.
SearchFails ==
  /\ pc = "search" /\ ino[mip] \notin Dirs
  /\ Iput(mip)
  /\ pc' = "done"
  /\ UNCHANGED <<root, cwd, cmd, path, callVars>>

-----------------------------------------------------------------------------
(***************************************************************************)
(* ListFile(), ChangeDir(), ls_dir(): after getino() has returned target.  *)
(***************************************************************************)

Open ==
  /\ pc = "open"
  /\ \E s \in Slots \union {NULL} :
       /\ Iget(target, s)
       /\ mip' = s
       /\ pc' = IF s = NULL THEN "crash" ELSE IF cmd = "cd" THEN "chdir" ELSE "list"
  /\ listing' = IF cmd = "ls" /\ target \in Dirs THEN Disk[target] ELSE <<>>
  /\ UNCHANGED <<root, cwd, cmd, path, target, todo, out>>

\* Faulty variants: the directory that is left is released as well, and a
\* file is entered like a directory.
ChangeDirReleases ==
  /\ pc = "chdir"
  /\ cwd' = IF ino[mip] \in Dirs THEN mip ELSE cwd
  /\ ref' = [ref EXCEPT ![mip] = @ - 1, ![cwd] = @ - 1] /\ UNCHANGED ino
  /\ pc' = "done"
  /\ UNCHANGED <<root, cmd, path, callVars>>
ChangeDirUnchecked ==
  /\ pc = "chdir"
  /\ cwd' = mip
  /\ Iput(mip)
  /\ pc' = "done"
  /\ UNCHANGED <<root, cmd, path, callVars>>

\* ChangeDir(): the reference it took itself is given back, so that the new
\* cwd lives on the one that getino() has left behind.
ChangeDir ==
  /\ pc = "chdir"
  /\ cwd' = IF ino[mip] \in Dirs THEN mip ELSE cwd
  /\ Iput(mip)
  /\ pc' = "done"
  /\ UNCHANGED <<root, cmd, path, callVars>>

\* ls_dir(): iget, ls_reg and iput of one entry.  An inode that was not in
\* the cache stays there, its count 0 again; with no slot the entry is
\* skipped.
ListEntry ==
  /\ pc = "list" /\ listing # <<>>
  /\ LET i == Head(listing).ino IN
       \/ /\ Cached(i) = {}
          /\ \E s \in First(Unused) : ino' = [ino EXCEPT ![s] = i]
       \/ (Cached(i) # {} \/ Unused = {}) /\ UNCHANGED ino
  /\ listing' = Tail(listing)
  /\ UNCHANGED <<ref, root, cwd, pc, cmd, path, mip, target, todo, out>>

\* ListFile() gives back what it took.  Faulty variant: and cwd, which it
\* did not take.
ReleaseAlways == Iput(mip)
Release == IF path.kind = "none" THEN UNCHANGED cacheVars ELSE Iput(mip)

ListDone ==
  /\ pc = "list" /\ listing = <<>>
  /\ Release
  /\ pc' = "done"
  /\ UNCHANGED <<root, cwd, cmd, path, callVars>>

-----------------------------------------------------------------------------
(***************************************************************************)
(* Pwd() and R_Pwd(): climb to the slot of the root, taking every ancestor *)
(* and giving none back.                                                   *)
(***************************************************************************)

Pwd ==
  /\ Typed("pwd", NoPath)
  /\ mip' = cwd /\ out' = <<>>
  /\ pc' = "pwd"
  /\ UNCHANGED <<cacheVars, root, cwd, target, todo, listing>>

\* Faulty variant: the names come out from the bottom to the top.
AppendName(n) == Append(out, n)
PrefixName(n) == <<n>> \o out

\* GetName() returns a pointer into buf[] of its own frame, which is dead when
\* R_Pwd() copies from it: the name is still there if none of the calls in
\* between reached down to it, and anything may be if one did.
NameLeft(n) == IF FrameKept THEN {n} ELSE Names

Climb ==
  /\ pc = "pwd" /\ mip # root
  /\ \E parent \in Hits(ino[mip], "..") :
       \E s \in Slots \union {NULL} :
         /\ Iget(parent, s)
         /\ mip' = s
         /\ IF s = NULL
            THEN pc' = "crash" /\ UNCHANGED out
            ELSE /\ \E e \in EntriesOf(parent) : \E n \in NameLeft(e.name) :
                      e.ino = ino'[mip] /\ out' = PrefixName(n)
                 /\ UNCHANGED pc
  /\ UNCHANGED <<root, cwd, cmd, path, target, todo, listing>>

PwdDone ==
  /\ pc = "pwd" /\ mip = root
  /\ pc' = "done"
  /\ UNCHANGED <<cacheVars, root, cwd, cmd, path, callVars>>

\* Quit(): one iput() of every slot in use, and exit.
Quit ==
  /\ pc = "idle"
  /\ ref' = [s \in Slots |-> IF ref[s] > 0 THEN ref[s] - 1 ELSE ref[s]]
  /\ pc' = "exit" /\ cmd' = "quit" /\ path' = NoPath
  /\ UNCHANGED <<ino, root, cwd, callVars>>

-----------------------------------------------------------------------------
Step ==
  \/ Load \/ SearchFinds \/ SearchHangs \/ SearchFails
  \/ Open \/ ChangeDir \/ ListEntry \/ ListDone
  \/ Climb \/ PwdDone \/ NextLine

UserCommand ==
  \/ \E p \in Paths : Ls(p) \/ Cd(p)
  \/ LsHere \/ CdNowhere \/ Pwd \/ Quit

Next == Step \/ UserCommand

\* A command that has been typed runs on; nobody has to type one.
Spec == Init /\ [][Next]_vars /\ WF_vars(Step)
=============================================================================
