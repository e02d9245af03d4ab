------------------------------ MODULE NameTree ------------------------------
(***************************************************************************)
(* Lab2: the directory tree simulator.  Nodes are blocks of the heap, with *)
(* the fields of struct node; the list that Child and Sibling form is the  *)
(* sequence kids[n], and NULL is 0.  Blocks that are not in use are alike, *)
(* so malloc() takes the first, but for one: the directory start may have  *)
(* been freed.  It keeps its fields except the name, over which free()     *)
(* writes, and malloc() may return it while start still points to it.      *)
(*                                                                         *)
(* Every turn of main()'s loop starts with cwd = start, so cwd is a local  *)
(* of the command, as is cwPath, and a command that fails is a stuttering  *)
(* step, as menu is.  reload takes a step per line.                        *)
(***************************************************************************)
EXTENDS Pathname, FiniteSetsExt

CONSTANTS NBLOCKS,         \* bound: blocks of memory for nodes
          MaxPrompt,       \* bound: reload is typed below a shorter prompt, and
                           \* not in a directory that is gone
          RemovesCurrent,  \* whether somebody removes the directory he is in
          LongText         \* whether two saved lines reach as far into a
                           \* buffer as the field Child does into a node

ASSUME BlocksAssumption ==
  /\ NBLOCKS \in Nat \ {0} /\ MaxPrompt \in Nat
  /\ RemovesCurrent \in BOOLEAN /\ LongText \in BOOLEAN

Nodes == 1 .. NBLOCKS
NULL == 0
root == 1               \* the first block initialize() gets
Crash == NBLOCKS + 1    \* in place of a node: the program dereferences NULL
Blank == "~"
NoFile == <<[kind |-> "none", names |-> <<>>]>>

VARIABLES
  name, kind, kids, parent,  \* the fields of the nodes
  used,      \* the blocks in use: not yet allocated, freed or leaked are not
  start,     \* the current directory between commands
  pathname,  \* the prompt: the names after "~"
  file,      \* what is saved: file[f] is the sequence of lines of f
  dirty,     \* memory that malloc() may return has held a long text
  pc,        \* "prompt", "reload", "crash" or "exit"
  source,    \* reload(): the file it reads
  todo       \* and the lines not yet read

heap == <<name, kind, kids, parent, used>>
reloading == <<source, todo>>
vars == <<heap, start, pathname, file, dirty, pc, reloading>>

-----------------------------------------------------------------------------
(***************************************************************************)
(* traverseDir(), locateDir(), getPath()                                   *)
(***************************************************************************)

\* The place of the first node of kind k called n among the kids of c, or 0.
Position(c, k, n) == SelectInSeq(kids[c], LAMBDA m : kind[m] = k /\ name[m] = n)

\* One token of locateDir(): cwd and cwPath before and after.  Cutting ".."
\* off a cwPath without a slash is strlen(NULL).
Token(w, n) ==
  IF w.node \notin Nodes THEN w
  ELSE IF n = ".." /\ w.node # root
  THEN IF w.path = <<>> THEN [w EXCEPT !.node = Crash]
       ELSE [node |-> parent[w.node], path |-> Front(w.path)]
  ELSE LET i == Position(w.node, "D", n) IN
       [node |-> IF i = 0 THEN NULL ELSE kids[w.node][i], path |-> Append(w.path, n)]

LocateDir(w, names) ==
  LET at[i \in 0 .. Len(names)] == IF i = 0 THEN w ELSE Token(at[i-1], names[i])
  IN  at[Len(names)]

\* runCommand(): the directory in which the command works.
Origin(p) == IF p.abs THEN [node |-> root, path |-> <<>>]
             ELSE [node |-> start, path |-> pathname]
Located(p) == LocateDir(Origin(p), Dname(p.names))

\* getPath() recurs until a node has no parent, here at most NBLOCKS times.
GetPath(c) ==
  LET path[k \in 0 .. NBLOCKS] ==
        [n \in Nodes |-> IF k = 0 \/ parent[n] = NULL THEN <<>>
                         ELSE Append(path[k-1][parent[n]], name[n])]
  IN  path[NBLOCKS][c]
GetPathEnds(c) == Len(GetPath(c)) < NBLOCKS

-----------------------------------------------------------------------------
(***************************************************************************)
(* createNode(), mkdir(), creat(), rmdir(), rm()                           *)
(***************************************************************************)

\* The blocks malloc() may return.
Malloc ==
  LET others == Nodes \ (used \union {start}) IN
  (IF others = {} THEN {} ELSE {Min(others)}) \union ({start} \ used)

\* createNode() and the link at the end of cwd's list.  When cwd itself is a
\* freed block, the new node may be cwd: its list was found empty before
\* createNode() cleared it, and it becomes its own child.
AddNode(c, k, n) ==
  \E m \in Malloc :
  /\ name' = [name EXCEPT ![m] = n]
  /\ kind' = [kind EXCEPT ![m] = k]
  /\ parent' = [parent EXCEPT ![m] = c]
  /\ kids' = [kids EXCEPT ![c] = Append(@, m),
                          ![m] = IF m = c /\ kids[c] = <<>> THEN <<m>> ELSE <<>>]
  /\ used' = used \union {m}

\* Faulty variant: the test for an existing node compares names only with
\* the first node of the directory.
ExistsFirst(c, k, n) ==
  kids[c] # <<>> /\ kind[kids[c][1]] = k /\ name[kids[c][1]] = n
Exists(c, k, n) == Position(c, k, n) # 0

\* mkdir for "D", creat for "F".
Make(k, p) ==
  /\ pc = "prompt"
  /\ LET c == Located(p).node IN
       /\ c \in Nodes /\ ~Exists(c, k, Bname(p.names))
       /\ AddNode(c, k, Bname(p.names))
  /\ UNCHANGED <<start, pathname, file, dirty, pc, reloading>>

\* rmdir() looks at the node it found.  Faulty variant: it does not.
MayRemoveAny(k, m) == TRUE
MayRemove(k, m) == k = "D" => kids[m] = <<>>

\* rmdir for "D", rm for "F".
Unlink(k, p) ==
  /\ pc = "prompt"
  /\ LET c == Located(p).node
         i == Position(c, k, Bname(p.names))
         m == kids[c][i]
     IN  /\ c \in Nodes /\ i # 0 /\ MayRemove(k, m)
         /\ m = start => RemovesCurrent
         /\ kids' = [kids EXCEPT ![c] = RemoveAt(@, i)]
         /\ name' = [name EXCEPT ![m] = Blank]
         /\ kind' = [kind EXCEPT ![m] = IF m = start THEN @ ELSE "D"]
         /\ parent' = [parent EXCEPT ![m] = IF m = start THEN @ ELSE NULL]
         /\ used' = used \ {m}
  /\ UNCHANGED <<start, pathname, file, dirty, pc, reloading>>

-----------------------------------------------------------------------------
(***************************************************************************)
(* cd(), pwd()                                                             *)
(***************************************************************************)

\* Faulty variant: the prompt follows the typed name, also for "..".
AppendTyped(w, n) == [node |-> Token(w, n).node, path |-> Append(w.path, n)]
\* Faulty variant: the prompt does not follow.
EnterSilently(w, n) == [node |-> Token(w, n).node, path |-> w.path]
\* The second locateDir(), for the last name.
Enter(w, n) == Token(w, n)

\* cd without a last name calls resetToRoot(false).
Cd(p) ==
  /\ pc = "prompt"
  /\ LET w == Located(p)
         v == Enter(w, Bname(p.names))
     IN  /\ w.node \in Nodes
         /\ IF Bname(p.names) = NoName
            THEN start' = root /\ pathname' = <<>>
            ELSE v.node \in Nodes /\ start' = v.node /\ pathname' = v.path
  /\ UNCHANGED <<heap, file, dirty, pc, reloading>>

\* ls only prints, but its lookups, which every command begins with, may run
\* into the NULL of strrchr().  That they end the program is told here once.
Ls(p) ==
  /\ pc = "prompt"
  /\ LET last == IF Bname(p.names) = NoName THEN <<>> ELSE <<Bname(p.names)>> IN
     pc' = IF LocateDir(Located(p), last).node = Crash THEN "crash" ELSE "prompt"
  /\ UNCHANGED <<heap, start, pathname, file, dirty, reloading>>

\* pwd only prints, where the parents come to an end.
Pwd ==
  /\ pc = "prompt"
  /\ pc' = IF GetPathEnds(start) THEN "prompt" ELSE "crash"
  /\ UNCHANGED <<heap, start, pathname, file, dirty, reloading>>

-----------------------------------------------------------------------------
(***************************************************************************)
(* save(), quit(), reload()                                                *)
(***************************************************************************)

\* saveTree(): a node, what is below it, then its siblings.
Under(n, lines) == [i \in DOMAIN lines |-> [lines[i] EXCEPT !.names = <<n>> \o @]]
Subtree(m, below) ==
  <<[kind |-> kind[m], names |-> <<name[m]>>]>> \o Under(name[m], below[m])
SaveTree ==
  LET dump[k \in 0 .. NBLOCKS] ==
        [c \in Nodes |->
           IF k = 0 THEN <<>>
           ELSE FlattenSeq([i \in DOMAIN kids[c] |-> Subtree(kids[c][i], dump[k-1])])]
  IN  dump[NBLOCKS][root]

\* fclose() frees a buffer that still holds the text.
IsLong(lines) == LongText /\ Len(lines) > 1
Written(f) == /\ file' = [file EXCEPT ![f] = SaveTree]
              /\ dirty' = (dirty \/ IsLong(SaveTree))

Save(f) ==
  /\ pc = "prompt" /\ Written(f)
  /\ UNCHANGED <<heap, start, pathname, pc, reloading>>

Quit ==
  /\ pc = "prompt" /\ Written("quit.txt")
  /\ pc' = "exit"
  /\ UNCHANGED <<heap, start, pathname, reloading>>

\* initialize(): nothing leads to the blocks of the old tree any more.
Initialize ==
  /\ name' = [n \in Nodes |-> Blank] /\ kind' = [n \in Nodes |-> "D"]
  /\ kids' = [n \in Nodes |-> <<>>] /\ parent' = [n \in Nodes |-> NULL]
  /\ used' = {root} /\ start' = root

\* initialize() leaves Child as it finds it: NULL in a freed node and in fresh
\* memory, but not where a long text has been.
Reload(f) ==
  /\ pc = "prompt" /\ file[f] # NoFile
  /\ Len(pathname) < MaxPrompt /\ start \in used
  /\ Initialize
  /\ source' = f /\ todo' = file[f]
  /\ pc' \in {"reload"} \union (IF dirty THEN {"crash"} ELSE {})
  /\ UNCHANGED <<pathname, file, dirty>>

\* Faulty variant: the line is looked up from where the last one ended.
LineOriginKept == [node |-> Max(used), path |-> <<>>]
LineOrigin == [node |-> root, path |-> <<>>]

\* The names that the text of a line holds: an empty one leaves only its slash.
LineNames(l) == IF Last(l.names) = NoName THEN Front(l.names) ELSE l.names

\* What is in dname, which strtok() has cut at its first slash, and in bname when
\* n lines of f have been run; before the first it is what the reload was typed with.
Left(f, n) ==
  LET left[i \in 0 .. n] ==
        IF i = 0 THEN [dname |-> <<>>, bname |-> f]
        ELSE LET names == LineNames(file[f][i]) IN
             IF names = <<>> THEN left[i - 1]
             ELSE [dname |-> SubSeq(Front(names), 1, 1), bname |-> Last(names)]
  IN  left[n]

\* runCommand() calls dbname() unless the line is just the slash of the root.
Split(l) ==
  IF LineNames(l) = <<>> THEN Left(source, Len(file[source]) - Len(todo))
  ELSE [dname |-> Front(LineNames(l)), bname |-> Last(LineNames(l))]

\* runCommand() of mkdir or creat with the path of the line.
ReloadLine ==
  /\ pc = "reload" /\ todo # <<>>
  /\ LET l == Head(todo)
         at == Split(l)
         c == LocateDir(LineOrigin, at.dname).node
     IN  IF c \in Nodes /\ ~Exists(c, l.kind, at.bname)
         THEN AddNode(c, l.kind, at.bname)
         ELSE UNCHANGED heap
  /\ todo' = Tail(todo)
  /\ UNCHANGED <<start, pathname, file, dirty, pc, source>>

\* The buffer that fclose() frees holds the text that was read.
ReloadDone ==
  /\ pc = "reload" /\ todo = <<>>
  /\ pc' = "prompt" /\ dirty' = (dirty \/ IsLong(file[source]))
  /\ UNCHANGED <<heap, start, pathname, file, reloading>>

-----------------------------------------------------------------------------
Init ==
  /\ name = [n \in Nodes |-> Blank] /\ kind = [n \in Nodes |-> "D"]
  /\ kids = [n \in Nodes |-> <<>>] /\ parent = [n \in Nodes |-> NULL]
  /\ used = {root} /\ start = root
  /\ pathname = <<>> /\ dirty = FALSE /\ pc = "prompt"
  /\ source = "quit.txt" /\ todo = <<>>
  /\ file = [f \in Files |-> NoFile]

\* The program is started again after a quit, on fresh memory.
Restart ==
  /\ pc = "exit" /\ Initialize
  /\ pathname' = <<>> /\ dirty' = FALSE /\ pc' = "prompt"
  /\ UNCHANGED <<file, reloading>>

Next ==
  \/ \E k \in {"D", "F"} : \/ \E p \in NewPaths[k] : Make(k, p)
                           \/ \E p \in OldPaths[k] : Unlink(k, p)
  \/ \E p \in Paths : Cd(p) \/ Ls(p)
  \/ \E f \in Files : Save(f) \/ Reload(f)
  \/ ReloadLine \/ ReloadDone
  \/ Pwd \/ Quit \/ Restart

Spec == Init /\ [][Next]_vars
=============================================================================
