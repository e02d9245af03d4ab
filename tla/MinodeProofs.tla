---------------------------- MODULE MinodeProofs ----------------------------
(***************************************************************************)
(* Proofs about MinodeCache for every disk, cache size and set of paths:   *)
(* what path resolution returns, that no inode is cached twice, and that   *)
(* no slot is recycled under a pointer.  Resolve is a recursive function   *)
(* on the positions of the path; that it is one at all, and that it can be *)
(* unfolded from the front, rests on the least number principle.           *)
(***************************************************************************)
EXTENDS MinodeProperties, NumberLemmas

-----------------------------------------------------------------------------
(***************************************************************************)
(* One name: the entries of a directory have different names.              *)
(***************************************************************************)

\* An entry of a directory is found under its name, and nothing else is.
LEMMA LookupFinds ==
  ASSUME NEW d \in Dirs, NEW n, NEW i \in Hits(d, n)
  PROVE  i \in Inodes /\ Lookup(d, n) = i
<1>1. ASSUME NEW j \in Hits(d, n) PROVE j = i
  <2>1. PICK a \in DOMAIN Disk[d] : Disk[d][a] = [name |-> n, ino |-> i]
    BY DEF Hits, EntriesOf
  <2>2. PICK b \in DOMAIN Disk[d] : Disk[d][b] = [name |-> n, ino |-> j]
    BY DEF Hits, EntriesOf
  <2>3. a = b
    BY <2>1, <2>2, TreeAssumption
  <2> QED BY <2>1, <2>2, <2>3
<1>2. i \in Inodes
  BY DEF Hits
<1> QED BY <1>1, <1>2 DEF Lookup

\* A name that a directory has no entry for, or any name in a file, leads
\* nowhere.
LEMMA LookupFails ==
  ASSUME NEW d, NEW n, d \in Dirs => Hits(d, n) = {}
  PROVE  Lookup(d, n) = 0
BY DEF Lookup

-----------------------------------------------------------------------------
(***************************************************************************)
(* A path: Resolve is the end of a walk.                                   *)
(***************************************************************************)

\* w is the walk of n names from start.
IsWalk(w, start, names, n) ==
  w = [k \in 0 .. n |-> IF k = 0 THEN start ELSE Lookup(w[k-1], names[k])]

\* There is a walk of every length: one that is a step longer than a walk is
\* a walk with one more inode at its end.
LEMMA WalkExists ==
  ASSUME NEW start, NEW names
  PROVE  \A n \in Nat : \E w : IsWalk(w, start, names, n)
<1> DEFINE Bad == {n \in Nat : ~ \E w : IsWalk(w, start, names, n)}
<1> SUFFICES ASSUME Bad # {} PROVE FALSE
  OBVIOUS
<1>1. PICK m \in Bad : \A y \in Bad : m <= y
  <2>1. Bad \subseteq Nat
    OBVIOUS
  <2> HIDE DEF Bad
  <2> QED BY <2>1, LeastNumber
<1>2. m \in Nat /\ ~ \E w : IsWalk(w, start, names, m)
  BY <1>1
<1>3. m # 0
  <2>1. IsWalk([k \in 0 .. 0 |-> start], start, names, 0)
    BY DEF IsWalk
  <2> QED BY <1>2, <2>1
<1>4. m-1 \in Nat /\ m-1 \notin Bad
  BY <1>1, <1>2, <1>3
<1>5. PICK w : IsWalk(w, start, names, m-1)
  BY <1>4
<1> DEFINE v == [k \in 0 .. m |-> IF k = m THEN Lookup(w[m-1], names[m]) ELSE w[k]]
<1>6. ASSUME NEW k \in 0 .. m
      PROVE  v[k] = IF k = 0 THEN start ELSE Lookup(v[k-1], names[k])
  <2>1. CASE k = m
    BY <1>2, <1>3, <2>1
  <2>2. CASE k # m
    <3>1. k \in 0 .. m-1 /\ v[k] = w[k] /\ (k # 0 => v[k-1] = w[k-1])
      BY <1>2, <1>3, <2>2
    <3> QED BY <1>5, <3>1 DEF IsWalk
  <2> QED BY <2>1, <2>2
<1>7. IsWalk(v, start, names, m)
  BY <1>6 DEF IsWalk
<1> QED BY <1>2, <1>7

\* Resolve is the last inode of the walk.
LEMMA ResolveWalks ==
  ASSUME NEW start, NEW names, Len(names) \in Nat
  PROVE  \E w : /\ IsWalk(w, start, names, Len(names))
                /\ Resolve(start, names) = w[Len(names)]
<1>1. \E w : IsWalk(w, start, names, Len(names))
  BY WalkExists
<1>2. IsWalk(CHOOSE w : IsWalk(w, start, names, Len(names)), start, names, Len(names))
  BY <1>1
<1>3. Resolve(start, names) = (CHOOSE w : IsWalk(w, start, names, Len(names)))[Len(names)]
  BY DEF Resolve, IsWalk
<1> QED BY <1>2, <1>3

\* The empty path leads to where it starts.
LEMMA ResolveEmpty ==
  ASSUME NEW start
  PROVE  Resolve(start, <<>>) = start
<1>1. Len(<<>>) = 0
  OBVIOUS
<1>2. PICK w : /\ IsWalk(w, start, <<>>, Len(<<>>))
               /\ Resolve(start, <<>>) = w[Len(<<>>)]
  BY <1>1, ResolveWalks
<1> QED BY <1>1, <1>2 DEF IsWalk

\* A path leads where its tail leads from the inode of its first name.
LEMMA ResolveStep ==
  ASSUME NEW start, NEW names \in Seq(Names), names # <<>>
  PROVE  Resolve(start, names) = Resolve(Lookup(start, Head(names)), Tail(names))
<1> DEFINE next == Lookup(start, Head(names))
           len  == Len(names)
<1>1. /\ len \in Nat /\ len # 0 /\ Len(Tail(names)) = len - 1 /\ Head(names) = names[1]
      /\ \A k \in 1 .. len - 1 : Tail(names)[k] = names[k+1]
  OBVIOUS
<1> HIDE DEF len
<1>2. PICK w : IsWalk(w, start, names, len) /\ Resolve(start, names) = w[len]
  BY <1>1, ResolveWalks DEF len
<1>3. PICK v : IsWalk(v, next, Tail(names), len - 1) /\ Resolve(next, Tail(names)) = v[len - 1]
  <2>1. Len(Tail(names)) \in Nat
    BY <1>1
  <2>2. PICK v : /\ IsWalk(v, next, Tail(names), Len(Tail(names)))
                 /\ Resolve(next, Tail(names)) = v[Len(Tail(names))]
    BY <2>1, ResolveWalks
  <2> QED BY <1>1, <2>2
<1>4. /\ w[0] = start
      /\ \A k \in 1 .. len : w[k] = Lookup(w[k-1], names[k])
  BY <1>1, <1>2 DEF IsWalk
<1>5. /\ v[0] = next
      /\ \A k \in 1 .. len - 1 : v[k] = Lookup(v[k-1], names[k+1])
  BY <1>1, <1>3 DEF IsWalk
<1> DEFINE Bad == {k \in 0 .. len - 1 : v[k] # w[k+1]}
<1>6. Bad = {}
  <2> SUFFICES ASSUME Bad # {} PROVE FALSE
    OBVIOUS
  <2>1. PICK m \in Bad : \A y \in Bad : m <= y
    <3>1. Bad \subseteq Nat
      BY <1>1
    <3> HIDE DEF Bad
    <3> QED BY <3>1, LeastNumber
  <2>2. m \in 0 .. len - 1 /\ v[m] # w[m+1]
    BY <2>1
  <2>3. m # 0
    BY <1>1, <1>4, <1>5, <2>2
  <2>4. m - 1 \in 0 .. len - 1 /\ m - 1 \notin Bad
    BY <1>1, <2>1, <2>2, <2>3
  <2>5. v[m-1] = w[m]
    BY <1>1, <2>2, <2>3, <2>4
  <2>6. v[m] = Lookup(v[m-1], names[m+1]) /\ w[m+1] = Lookup(w[m], names[m+1])
    BY <1>1, <1>4, <1>5, <2>2, <2>3
  <2> QED BY <2>2, <2>5, <2>6
<1>7. v[len - 1] = w[len]
  BY <1>1, <1>6
<1> QED BY <1>2, <1>3, <1>7

-----------------------------------------------------------------------------
(***************************************************************************)
(* iget()                                                                  *)
(***************************************************************************)

\* iget() of an inode of the disk: every count that was positive is still so
\* and its slot keeps its inode; the slot returned holds the inode and has
\* one reference more.
LEMMA IgetFacts ==
  ASSUME TypeOK, NoAliases, NEW i \in Inodes, NEW s \in Slots \union {NULL}, Iget(i, s)
  PROVE  /\ ino' \in [Slots -> Inodes \union {0}] /\ ref' \in [Slots -> Nat]
         /\ NoAliases'
         /\ \A t \in Slots : ref[t] > 0 => ino'[t] = ino[t]
         /\ \A t \in Slots : ref'[t] >= ref[t]
         /\ s # NULL => s \in Slots /\ ino'[s] = i /\ ref'[s] >= ref[s] + 1
<1>1. /\ ino \in [Slots -> Inodes \union {0}] /\ ref \in [Slots -> Nat]
      /\ i \in Nat /\ i # 0
  BY TreeAssumption DEF TypeOK
<1>2. CASE s \in First(Cached(i)) /\ ref' = [ref EXCEPT ![s] = @ + 1] /\ UNCHANGED ino
  <2>1. s \in Slots /\ ino[s] = i
    BY <1>2 DEF First, Cached
  <2> QED BY <1>1, <1>2, <2>1 DEF NoAliases
<1>3. CASE /\ Cached(i) = {} /\ s \in First(Unused)
           /\ ino' = [ino EXCEPT ![s] = i] /\ ref' = [ref EXCEPT ![s] = 1]
  <2>1. s \in Slots /\ ref[s] = 0 /\ \A t \in Slots : ino[t] # i
    BY <1>3 DEF First, Cached, Unused
  <2>2. NoAliases'
    BY <1>1, <1>3, <2>1 DEF NoAliases
  <2> QED BY <1>1, <1>3, <2>1, <2>2
<1>4. CASE s = NULL /\ UNCHANGED cacheVars
  BY <1>1, <1>4 DEF cacheVars, NoAliases
<1> QED BY <1>2, <1>3, <1>4 DEF Iget

\* The cache as init() and mount_root() leave it satisfies the invariant.
LEMMA InitInv == Init => IInv
<1> SUFFICES ASSUME Init PROVE IInv
  OBVIOUS
<1>1. 1 \in Slots /\ Root \in Inodes /\ Root \in Dirs
  BY CacheAssumption, TreeAssumption DEF Slots
<1>2. TypeOK
  BY <1>1 DEF Init, TypeOK, PCs, NoPath, PathType, PathKinds, NULL
<1>3. NoAliases /\ SlotsKeepInodes /\ LeftBehind /\ LocalsInv
  BY <1>1 DEF Init, NoAliases, SlotsKeepInodes, LeftBehind, LocalsInv, Root
<1>4. HoldersPinned
  BY <1>1 DEF Init, HoldersPinned, Pins, Held, HoldsMip
<1> QED BY <1>2, <1>3, <1>4 DEF IInv

-----------------------------------------------------------------------------
(***************************************************************************)
(* Every step keeps the invariant.                                         *)
(***************************************************************************)

\* A step that changes no slot, neither root nor cwd, and claims nothing.
LEMMA QuietStep ==
  ASSUME IInv, TypeOK', LocalsInv', pc # "exit", UNCHANGED <<ino, ref, root, cwd>>,
         pc' \notin {"search", "open", "chdir"},
         pc' \in {"list", "pwd"} => mip' \in Slots /\ ref[mip'] >= 1,
         pc' = "list" => path'.kind = "none"
  PROVE  IInv'
<1>1. NoAliases' /\ SlotsKeepInodes' /\ LeftBehind'
  BY DEF IInv, NoAliases, SlotsKeepInodes, LeftBehind
<1>2. HoldersPinned'
  <2>1. \A s \in Slots : /\ Pins(s)' = Pins(s) /\ Pins(s) \in Nat /\ ref[s] \in Nat
                         /\ Held(HoldsMip /\ s = mip) \in Nat
    BY DEF Pins, Held, IInv, TypeOK
  <2>2. \A s \in Slots : ref[s] >= Pins(s)
    BY <2>1 DEF IInv, HoldersPinned
  <2>3. ~HoldsMip'
    BY DEF HoldsMip
  <2> QED BY <2>1, <2>2, <2>3 DEF HoldersPinned, Held
<1> QED BY <1>1, <1>2 DEF IInv

\* Typing a command with a pathname.
LEMMA CommandInv ==
  ASSUME IInv, NEW c \in {"ls", "cd"}, NEW p \in Paths, Command(c, p)
  PROVE  IInv'
<1>1. /\ TypeOK /\ NoAliases /\ HoldersPinned /\ SlotsKeepInodes /\ pc = "idle"
      /\ UNCHANGED <<ino, ref, root, cwd, mip, listing, out>>
      /\ cmd' = c /\ path' = p /\ todo' = p.names /\ p.kind # "none"
      /\ target' = (IF p.kind = "rel" THEN ino[cwd] ELSE Root)
      /\ pc' = (IF p.kind = "root" THEN "open" ELSE "load")
  BY DEF IInv, Command, Typed, Origin, cacheVars
<1>2. target' \in Inodes /\ p \in PathType /\ p.names \in Seq(Names)
  BY <1>1, TreeAssumption, PathsAssumption DEF SlotsKeepInodes, PathType
<1>3. TypeOK'
  BY <1>1, <1>2 DEF TypeOK, PCs
<1>4. LocalsInv' /\ LeftBehind' /\ SlotsKeepInodes' /\ NoAliases'
  BY <1>1, <1>2 DEF LocalsInv, LeftBehind, SlotsKeepInodes, NoAliases
<1>5. HoldersPinned'
  BY <1>1 DEF HoldersPinned, Pins, Held, HoldsMip
<1> QED BY <1>3, <1>4, <1>5 DEF IInv

\* iget() on behalf of root and cwd keeps their counts and their inodes.
LEMMA IgetKeeps ==
  ASSUME IInv, pc # "exit", NEW i \in Inodes, NEW s \in Slots \union {NULL}, Iget(i, s),
         UNCHANGED <<root, cwd>>
  PROVE  /\ ino' \in [Slots -> Inodes \union {0}] /\ ref' \in [Slots -> Nat]
         /\ NoAliases' /\ ino'[root] = Root /\ ino'[cwd] \in Dirs
         /\ \A t \in Slots : Pins(t)' = Pins(t) /\ Pins(t) \in Nat /\ ref'[t] >= Pins(t)
         /\ \A t \in Slots : ref[t] > 0 => ino'[t] = ino[t] /\ ref'[t] > 0
         /\ \A t \in Slots : ref'[t] >= ref[t]
         /\ s # NULL => s \in Slots /\ ino'[s] = i /\ ref'[s] >= ref[s] + 1
                        /\ ref'[s] >= Pins(s) + 1
<1>1. TypeOK /\ NoAliases /\ HoldersPinned /\ SlotsKeepInodes
  BY DEF IInv
<1>2. /\ ino' \in [Slots -> Inodes \union {0}] /\ ref' \in [Slots -> Nat] /\ NoAliases'
      /\ \A t \in Slots : ref[t] > 0 => ino'[t] = ino[t]
      /\ \A t \in Slots : ref'[t] >= ref[t]
      /\ s # NULL => s \in Slots /\ ino'[s] = i /\ ref'[s] >= ref[s] + 1
  BY <1>1, IgetFacts
<1>3. \A t \in Slots : /\ Pins(t)' = Pins(t) /\ Pins(t) \in Nat /\ ref[t] \in Nat
                       /\ ref[t] >= Pins(t)
  BY <1>1 DEF Pins, Held, HoldersPinned, TypeOK
<1>4. root \in Slots /\ cwd \in Slots /\ ref[root] > 0 /\ ref[cwd] > 0
  <2>1. root \in Slots /\ cwd \in Slots
    BY <1>1 DEF TypeOK
  <2>2. Pins(root) >= 1 /\ Pins(cwd) >= 1
    BY DEF Pins, Held
  <2>3. ref[root] \in Nat /\ ref[cwd] \in Nat /\ Pins(root) \in Nat /\ Pins(cwd) \in Nat
        /\ ref[root] >= Pins(root) /\ ref[cwd] >= Pins(cwd)
    BY <1>3, <2>1
  <2> QED BY <2>1, <2>2, <2>3
<1>5. ino'[root] = Root /\ ino'[cwd] \in Dirs
  BY <1>1, <1>2, <1>4 DEF SlotsKeepInodes
<1> QED BY <1>2, <1>3, <1>5

\* iget(): a hit adds a reference, a miss fills a free slot; both keep it.
LEMMA LoadInv == ASSUME IInv, Load PROVE IInv'
<1>1. /\ TypeOK /\ LocalsInv /\ pc = "load" /\ target \in Inodes
      /\ UNCHANGED <<root, cwd, cmd, path, target, todo, listing, out>>
  BY DEF IInv, Load, LocalsInv
<1>2. PICK s \in Slots \union {NULL} :
        /\ Iget(target, s) /\ mip' = s
        /\ pc' = IF s = NULL THEN "crash"
                 ELSE IF todo # <<>> THEN "search"
                 ELSE IF path.names = <<>> THEN "done" ELSE "open"
  BY DEF Load
<1>3. /\ ino' \in [Slots -> Inodes \union {0}] /\ ref' \in [Slots -> Nat]
      /\ NoAliases' /\ ino'[root] = Root /\ ino'[cwd] \in Dirs
      /\ \A t \in Slots : Pins(t)' = Pins(t) /\ Pins(t) \in Nat /\ ref'[t] >= Pins(t)
      /\ s # NULL => s \in Slots /\ ino'[s] = target /\ ref'[s] >= Pins(s) + 1
  BY <1>1, <1>2, IgetKeeps
<1>4. TypeOK'
  BY <1>1, <1>2, <1>3 DEF TypeOK, PCs
<1>5. SlotsKeepInodes'
  BY <1>1, <1>2, <1>3 DEF SlotsKeepInodes
<1>6. LeftBehind'
  BY <1>1, <1>2, <1>3 DEF LeftBehind, Held
<1>7. LocalsInv'
  <2>1. pc' \in {"crash", "search", "done", "open"} /\ (pc' = "search" => todo # <<>>)
    BY <1>2
  <2>2. pc' = "open" => path.names # <<>>
    BY <1>2
  <2> QED BY <1>1, <2>1, <2>2 DEF LocalsInv
<1>8. HoldersPinned'
  BY <1>1, <1>2, <1>3 DEF HoldersPinned, HoldsMip, Held, NULL
<1> QED BY <1>3, <1>4, <1>5, <1>6, <1>7, <1>8 DEF IInv

\* The state that getino() and its callers give mip back from.
LEMMA MipFacts ==
  ASSUME IInv, pc \in {"search", "chdir"}
  PROVE  /\ mip \in Slots /\ ino[mip] = target /\ target \in Inodes /\ target # 0
         /\ ref[mip] >= Pins(mip) + 1
         /\ \A s \in Slots : Pins(s) \in Nat /\ ref[s] \in Nat /\ ref[s] >= Pins(s)
         /\ ref \in [Slots -> Nat]
<1>1. \A s \in Slots : /\ Pins(s) \in Nat /\ ref[s] \in Nat
                       /\ Held(HoldsMip /\ s = mip) \in Nat
  BY DEF Pins, Held, IInv, TypeOK
<1>2. mip \in Slots /\ \A s \in Slots : ref[s] >= Pins(s) + Held(HoldsMip /\ s = mip)
  BY DEF IInv, HoldersPinned
<1>3. Held(HoldsMip /\ mip = mip) = 1
  BY DEF Held, HoldsMip
<1>4. ino[mip] = target /\ target \in Inodes /\ target # 0
  BY TreeAssumption DEF IInv, SlotsKeepInodes, LocalsInv
<1>5. ref[mip] >= Pins(mip) + 1
  BY <1>2, <1>3
<1>6. ASSUME NEW s \in Slots PROVE ref[s] >= Pins(s)
  BY <1>1, <1>2
<1>7. ref \in [Slots -> Nat]
  BY DEF IInv, TypeOK
<1> QED BY <1>1, <1>2, <1>4, <1>5, <1>6, <1>7

\* search() finds the name: getino() releases the directory and goes on to
\* the inode found.
LEMMA SearchFindsInv == ASSUME IInv, SearchFinds PROVE IInv'
<1>1. /\ TypeOK /\ NoAliases /\ SlotsKeepInodes /\ LocalsInv /\ pc = "search"
      /\ UNCHANGED <<ino, root, cwd, cmd, path, mip, listing, out>>
      /\ ref' = [ref EXCEPT ![mip] = @ - 1]
      /\ todo # <<>> /\ todo' = Tail(todo) /\ pc' = "load" /\ target' \in Inodes
  BY DEF IInv, SearchFinds, Iput, NextNames, Hits, LocalsInv
<1>2. /\ mip \in Slots /\ ref[mip] >= Pins(mip) + 1 /\ ref \in [Slots -> Nat]
      /\ \A s \in Slots : Pins(s) \in Nat /\ ref[s] \in Nat /\ ref[s] >= Pins(s)
  BY <1>1, MipFacts
<1>3. ref' \in [Slots -> Nat] /\ \A s \in Slots : ref'[s] >= Pins(s)
  BY <1>1, <1>2
<1>4. TypeOK'
  BY <1>1, <1>3 DEF TypeOK, PCs
<1>5. NoAliases' /\ SlotsKeepInodes' /\ LeftBehind' /\ LocalsInv'
  BY <1>1 DEF NoAliases, SlotsKeepInodes, LeftBehind, LocalsInv
<1>6. HoldersPinned'
  BY <1>1, <1>2, <1>3 DEF HoldersPinned, HoldsMip, Held, Pins
<1> QED BY <1>4, <1>5, <1>6 DEF IInv

\* The inode in hand is no directory: getino() releases it and gives up.
LEMMA SearchFailsInv == ASSUME IInv, SearchFails PROVE IInv'
<1>1. /\ TypeOK /\ NoAliases /\ SlotsKeepInodes /\ LocalsInv /\ pc = "search"
      /\ UNCHANGED <<ino, root, cwd, cmd, path, mip, target, todo, listing, out>>
      /\ ref' = [ref EXCEPT ![mip] = @ - 1] /\ pc' = "done"
  BY DEF IInv, SearchFails, Iput, callVars
<1>2. /\ mip \in Slots /\ ref[mip] >= Pins(mip) + 1 /\ ref \in [Slots -> Nat]
      /\ \A s \in Slots : Pins(s) \in Nat /\ ref[s] \in Nat /\ ref[s] >= Pins(s)
  BY <1>1, MipFacts
<1>3. ref' \in [Slots -> Nat] /\ \A s \in Slots : ref'[s] >= Pins(s)
  BY <1>1, <1>2
<1>4. TypeOK'
  BY <1>1, <1>3 DEF TypeOK, PCs
<1>5. NoAliases' /\ SlotsKeepInodes' /\ LeftBehind' /\ LocalsInv'
  BY <1>1 DEF NoAliases, SlotsKeepInodes, LeftBehind, LocalsInv
<1>6. HoldersPinned'
  BY <1>1, <1>2, <1>3 DEF HoldersPinned, HoldsMip, Held, Pins
<1> QED BY <1>4, <1>5, <1>6 DEF IInv

\* The caller's iget() finds the inode that getino() has left in the cache.
LEMMA OpenInv == ASSUME IInv, Open PROVE IInv'
<1>1. /\ TypeOK /\ LocalsInv /\ LeftBehind /\ pc = "open" /\ target \in Inodes /\ target # 0
      /\ UNCHANGED <<root, cwd, cmd, path, target, todo, out>>
      /\ listing' = IF cmd = "ls" /\ target \in Dirs THEN Disk[target] ELSE <<>>
  BY TreeAssumption DEF IInv, Open, LocalsInv
<1>2. PICK s \in Slots \union {NULL} :
        /\ Iget(target, s) /\ mip' = s
        /\ pc' = IF s = NULL THEN "crash" ELSE IF cmd = "cd" THEN "chdir" ELSE "list"
  BY DEF Open
<1>3. /\ ino' \in [Slots -> Inodes \union {0}] /\ ref' \in [Slots -> Nat]
      /\ NoAliases' /\ ino'[root] = Root /\ ino'[cwd] \in Dirs
      /\ \A t \in Slots : Pins(t)' = Pins(t) /\ Pins(t) \in Nat /\ ref'[t] >= Pins(t)
      /\ \A t \in Slots : ref[t] > 0 => ino'[t] = ino[t]
      /\ s # NULL => s \in Slots /\ ino'[s] = target /\ ref'[s] >= ref[s] + 1
                     /\ ref'[s] >= Pins(s) + 1
  BY <1>1, <1>2, IgetKeeps
<1>4. TypeOK'
  <2>1. listing' \in Seq(Entries)
    BY <1>1, TreeAssumption
  <2> QED BY <1>1, <1>2, <1>3, <2>1 DEF TypeOK, PCs
<1>5. SlotsKeepInodes' /\ LocalsInv'
  BY <1>1, <1>2, <1>3 DEF SlotsKeepInodes, LocalsInv
<1>6. LeftBehind'
  <2> SUFFICES ASSUME pc' = "chdir", path.kind # "root"
               PROVE  \E t \in Slots : ino'[t] = target /\ ref'[t] >= Pins(t)' + 1 + 1
    BY <1>1, <1>2 DEF LeftBehind, Held
  <2>1. PICK t \in Slots : ino[t] = target /\ ref[t] >= Pins(t) + 1
    BY <1>1 DEF LeftBehind, Held, TypeOK, Pins
  <2>2. ref[t] \in Nat /\ ref[t] > 0 /\ Pins(t) \in Nat
    BY <1>1, <1>3, <2>1 DEF TypeOK
  <2>3. s \in Slots /\ s # NULL
    BY <1>2, <1>3
  <2>4. ino'[t] = target /\ ino'[s] = target
    BY <1>3, <2>1, <2>2, <2>3
  <2>5. t = s
    BY <1>1, <1>3, <2>3, <2>4 DEF NoAliases
  <2>6. ref'[s] \in Nat /\ ref'[s] >= Pins(s) + 1 + 1
    BY <1>3, <2>1, <2>2, <2>3, <2>5
  <2> QED BY <1>3, <2>3, <2>4, <2>6
<1>7. HoldersPinned'
  BY <1>1, <1>2, <1>3 DEF HoldersPinned, HoldsMip, Held, NULL
<1> QED BY <1>3, <1>4, <1>5, <1>6, <1>7 DEF IInv

\* The new cwd keeps a reference after ChangeDir()'s iput(): the one getino()
\* left, or for "cd /" the second one of the root.
LEMMA ChangeDirInv == ASSUME IInv, ChangeDir PROVE IInv'
<1>1. /\ TypeOK /\ NoAliases /\ SlotsKeepInodes /\ LocalsInv /\ LeftBehind /\ pc = "chdir"
      /\ UNCHANGED <<ino, root, cmd, path, mip, target, todo, listing, out>>
      /\ cwd' = (IF ino[mip] \in Dirs THEN mip ELSE cwd)
      /\ ref' = [ref EXCEPT ![mip] = @ - 1] /\ pc' = "done"
  BY DEF IInv, ChangeDir, Iput, callVars
<1>2. /\ mip \in Slots /\ ref[mip] >= Pins(mip) + 1 /\ ref \in [Slots -> Nat]
      /\ ino[mip] = target /\ target # 0
      /\ \A s \in Slots : Pins(s) \in Nat /\ ref[s] \in Nat /\ ref[s] >= Pins(s)
  BY <1>1, MipFacts
<1>3. ref[mip] >= Pins(mip) + 2 \/ mip = root
  <2>1. CASE path.kind = "root"
    BY <1>1, <1>2, <2>1 DEF LocalsInv, SlotsKeepInodes, NoAliases, TypeOK
  <2>2. CASE path.kind # "root"
    <3>1. PICK t \in Slots : ino[t] = target /\ ref[t] >= Pins(t) + 1 + 1
      BY <1>1, <2>2 DEF LeftBehind, Held
    <3>2. t = mip
      BY <1>1, <1>2, <3>1 DEF NoAliases
    <3> QED BY <1>2, <3>1, <3>2
  <2> QED BY <2>1, <2>2
<1>4. ref' \in [Slots -> Nat] /\ \A s \in Slots : ref'[s] >= Pins(s)'
  <2>1. ref' \in [Slots -> Nat]
    BY <1>1, <1>2
  <2>2. ref'[mip] >= Pins(mip)'
    BY <1>1, <1>2, <1>3 DEF Pins, Held
  <2>3. \A s \in Slots \ {mip} : ref'[s] >= Pins(s)'
    BY <1>1, <1>2 DEF Pins, Held
  <2>4. ASSUME NEW s \in Slots PROVE ref'[s] >= Pins(s)'
    <3>1. CASE s = mip
      BY <1>1, <2>2, <3>1 DEF Pins
    <3> QED BY <2>3, <3>1
  <2> QED BY <2>1, <2>4
<1>5. TypeOK'
  BY <1>1, <1>2, <1>4 DEF TypeOK, PCs
<1>6. NoAliases' /\ SlotsKeepInodes' /\ LeftBehind' /\ LocalsInv'
  BY <1>1 DEF NoAliases, SlotsKeepInodes, LeftBehind, LocalsInv
<1>7. HoldersPinned'
  <2>1. ~HoldsMip'
    BY <1>1 DEF HoldsMip
  <2>2. \A s \in Slots : Pins(s)' \in Nat
    BY DEF Pins, Held
  <2> QED BY <1>1, <1>4, <2>1, <2>2 DEF HoldersPinned, Held
<1> QED BY <1>5, <1>6, <1>7 DEF IInv

\* ls_dir() loads entries into slots that nobody holds.
LEMMA ListEntryInv == ASSUME IInv, ListEntry PROVE IInv'
<1>1. /\ TypeOK /\ NoAliases /\ HoldersPinned /\ SlotsKeepInodes /\ LocalsInv
      /\ pc = "list" /\ listing # <<>> /\ listing' = Tail(listing)
      /\ UNCHANGED <<ref, root, cwd, pc, cmd, path, mip, target, todo, out>>
  BY DEF IInv, ListEntry
<1>2. Head(listing).ino \in Inodes /\ Tail(listing) \in Seq(Entries)
  <2>1. Head(listing) \in Entries /\ Tail(listing) \in Seq(Entries)
    BY <1>1 DEF TypeOK
  <2> QED BY <2>1 DEF Entries
<1>3. /\ ino' \in [Slots -> Inodes \union {0}] /\ NoAliases'
      /\ \A t \in Slots : ref[t] # 0 => ino'[t] = ino[t]
  <2> DEFINE i == Head(listing).ino
  <2>1. CASE UNCHANGED ino
    BY <1>1, <2>1 DEF TypeOK, NoAliases
  <2>2. ASSUME Cached(i) = {}, NEW s \in First(Unused), ino' = [ino EXCEPT ![s] = i]
        PROVE  /\ ino' \in [Slots -> Inodes \union {0}] /\ NoAliases'
               /\ \A t \in Slots : ref[t] # 0 => ino'[t] = ino[t]
    <3>1. s \in Slots /\ ref[s] = 0 /\ \A t \in Slots : ino[t] # i
      BY <2>2 DEF Cached, First, Unused
    <3>2. i \in Inodes /\ ino \in [Slots -> Inodes \union {0}]
      BY <1>1, <1>2 DEF TypeOK
    <3>3. NoAliases'
      BY <1>1, <2>2, <3>1, <3>2 DEF NoAliases
    <3> QED BY <2>2, <3>1, <3>2, <3>3
  <2> QED BY <2>1, <2>2 DEF ListEntry
<1>4. TypeOK'
  BY <1>1, <1>2, <1>3 DEF TypeOK
<1>5. HoldersPinned'
  BY <1>1 DEF HoldersPinned, HoldsMip, Held, Pins
<1>6. SlotsKeepInodes'
  <2>1. \A s \in Slots : /\ Held(HoldsMip /\ s = mip) \in Nat /\ Pins(s) \in Nat
                         /\ ref[s] \in Nat
    BY <1>1 DEF Pins, Held, TypeOK
  <2>2. \A s \in Slots : ref[s] >= Pins(s)
    BY <1>1, <2>1 DEF HoldersPinned
  <2>3. root \in Slots /\ cwd \in Slots
    BY <1>1 DEF TypeOK
  <2>4. Pins(root) >= 1 /\ Pins(cwd) >= 1
    BY DEF Pins, Held
  <2>5. ref[root] # 0 /\ ref[cwd] # 0
    BY <2>1, <2>2, <2>3, <2>4
  <2> QED BY <1>1, <1>3, <2>3, <2>5 DEF SlotsKeepInodes
<1>7. LeftBehind' /\ LocalsInv'
  BY <1>1 DEF LeftBehind, LocalsInv
<1> QED BY <1>3, <1>4, <1>5, <1>6, <1>7 DEF IInv

\* The end of a listing releases the inode listed.
LEMMA ListDoneInv == ASSUME IInv, ListDone PROVE IInv'
<1>1. /\ TypeOK /\ NoAliases /\ HoldersPinned /\ SlotsKeepInodes /\ LocalsInv /\ pc = "list"
      /\ UNCHANGED <<ino, root, cwd, cmd, path, mip, target, todo, listing, out>>
      /\ pc' = "done" /\ mip \in Slots
      /\ IF path.kind = "none" THEN UNCHANGED ref ELSE ref' = [ref EXCEPT ![mip] = @ - 1]
  BY DEF IInv, ListDone, Release, Iput, callVars, cacheVars, HoldersPinned
<1>2. ref' \in [Slots -> Nat] /\ \A s \in Slots : ref'[s] >= Pins(s)
  <2>1. \A s \in Slots : Pins(s) \in Nat /\ ref[s] \in Nat
    BY <1>1 DEF TypeOK, Pins, Held
  <2>2. CASE path.kind = "none"
    BY <1>1, <2>1, <2>2 DEF HoldersPinned, HoldsMip, Held, TypeOK
  <2>3. CASE path.kind # "none"
    <3>1. ref[mip] >= Pins(mip) + 1 /\ \A s \in Slots : ref[s] >= Pins(s)
      BY <1>1, <2>1, <2>3 DEF HoldersPinned, HoldsMip, Held
    <3>2. ref' = [ref EXCEPT ![mip] = @ - 1] /\ ref \in [Slots -> Nat] /\ mip \in Slots
      BY <1>1, <2>3 DEF TypeOK
    <3> QED BY <2>1, <3>1, <3>2
  <2> QED BY <2>2, <2>3
<1>3. TypeOK'
  BY <1>1, <1>2 DEF TypeOK, PCs
<1>4. NoAliases' /\ SlotsKeepInodes' /\ LeftBehind' /\ LocalsInv'
  BY <1>1 DEF NoAliases, SlotsKeepInodes, LeftBehind, LocalsInv
<1>5. HoldersPinned'
  BY <1>1, <1>2 DEF HoldersPinned, HoldsMip, Held, Pins
<1> QED BY <1>3, <1>4, <1>5 DEF IInv

\* pwd climbs to a slot that its own iget() holds.
LEMMA ClimbInv == ASSUME IInv, Climb PROVE IInv'
<1>1. /\ TypeOK /\ SlotsKeepInodes /\ LocalsInv /\ pc = "pwd"
      /\ mip \in Slots /\ ref[mip] >= 1 /\ ref \in [Slots -> Nat] /\ ino[mip] \in Dirs
      /\ UNCHANGED <<root, cwd, cmd, path, target, todo, listing>>
  BY DEF IInv, Climb, HoldersPinned, LocalsInv, TypeOK
<1>2. PICK parent \in Hits(ino[mip], ".."), s \in Slots \union {NULL} :
        /\ Iget(parent, s) /\ mip' = s
        /\ IF s = NULL
           THEN pc' = "crash" /\ UNCHANGED out
           ELSE /\ \E e \in EntriesOf(parent) : \E n \in NameLeft(e.name) :
                     e.ino = ino'[mip] /\ out' = PrefixName(n)
                /\ UNCHANGED pc
  BY DEF Climb
<1>3. parent \in Inodes /\ parent \in Dirs
  <2>1. PICK k \in DOMAIN Disk[ino[mip]] : Disk[ino[mip]][k] = [name |-> "..", ino |-> parent]
    BY <1>2 DEF Hits, EntriesOf
  <2>2. Disk[ino[mip]][k].name = ".." /\ Disk[ino[mip]][k].ino = parent
    BY <2>1
  <2>3. parent \in Dirs
    BY <1>1, <2>2, TreeAssumption
  <2> QED BY <2>3, TreeAssumption
<1>4. /\ ino' \in [Slots -> Inodes \union {0}] /\ ref' \in [Slots -> Nat]
      /\ NoAliases' /\ ino'[root] = Root /\ ino'[cwd] \in Dirs
      /\ \A t \in Slots : Pins(t)' = Pins(t) /\ Pins(t) \in Nat /\ ref'[t] >= Pins(t)
      /\ s # NULL => s \in Slots /\ ino'[s] = parent /\ ref'[s] >= Pins(s) + 1
  BY <1>1, <1>2, <1>3, IgetKeeps
<1>5. out' \in Seq(Names)
  <2>1. out \in Seq(Names)
    BY <1>1 DEF TypeOK
  <2>2. CASE s = NULL
    BY <1>2, <2>1, <2>2
  <2>3. CASE s # NULL
    <3>1. PICK e \in EntriesOf(parent) : \E n \in NameLeft(e.name) : out' = PrefixName(n)
      BY <1>2, <2>3
    <3>2. e \in Entries
      BY <1>3, <3>1, TreeAssumption DEF EntriesOf
    <3>3. PICK n \in Names : out' = PrefixName(n)
      BY <3>1, <3>2 DEF Entries, NameLeft
    <3> QED BY <2>1, <3>1, <3>3 DEF PrefixName
  <2> QED BY <2>2, <2>3
<1>6. TypeOK'
  BY <1>1, <1>2, <1>4, <1>5 DEF TypeOK, PCs
<1>7. SlotsKeepInodes' /\ LeftBehind'
  BY <1>1, <1>2, <1>4 DEF SlotsKeepInodes, LeftBehind
<1>8. LocalsInv'
  BY <1>1, <1>2, <1>3, <1>4 DEF LocalsInv
<1>9. HoldersPinned'
  BY <1>1, <1>2, <1>4 DEF HoldersPinned, HoldsMip, Held, NULL
<1> QED BY <1>4, <1>6, <1>7, <1>8, <1>9 DEF IInv

\* Every step of the shell, and every stutter, keeps the invariant.
LEMMA NextInv == ASSUME IInv, [Next]_vars PROVE IInv'
<1> USE DEF cacheVars, callVars
<1>1. CASE Load
  BY <1>1, LoadInv
<1>2. CASE SearchFinds
  BY <1>2, SearchFindsInv
<1>3. CASE SearchFails
  BY <1>3, SearchFailsInv
<1>4. CASE Open
  BY <1>4, OpenInv
<1>5. CASE ChangeDir
  BY <1>5, ChangeDirInv
<1>6. CASE ListEntry
  BY <1>6, ListEntryInv
<1>7. CASE ListDone
  BY <1>7, ListDoneInv
<1>8. CASE Climb
  BY <1>8, ClimbInv
<1>9. CASE SearchHangs
  <2>1. TypeOK' /\ LocalsInv'
    BY <1>9 DEF SearchHangs, IInv, TypeOK, PCs, LocalsInv
  <2> QED BY <1>9, <2>1, QuietStep DEF SearchHangs
<1>10. CASE PwdDone
  <2>1. TypeOK' /\ LocalsInv'
    BY <1>10 DEF PwdDone, IInv, TypeOK, PCs, LocalsInv
  <2> QED BY <1>10, <2>1, QuietStep DEF PwdDone
<1>11. CASE NextLine
  <2>1. TypeOK' /\ LocalsInv'
    BY <1>11 DEF NextLine, IInv, TypeOK, PCs, LocalsInv, NULL, NoPath, PathType, PathKinds
  <2> QED BY <1>11, <2>1, QuietStep DEF NextLine
<1>12. CASE CdNowhere
  <2>1. TypeOK' /\ LocalsInv'
    BY <1>12 DEF CdNowhere, Typed, IInv, TypeOK, PCs, LocalsInv, NoPath, PathType, PathKinds
  <2> QED BY <1>12, <2>1, QuietStep DEF CdNowhere, Typed
<1>13. ASSUME pc = "idle"
       PROVE  cwd \in Slots /\ ref[cwd] >= 1 /\ ino[cwd] \in Dirs
  <2>1. cwd \in Slots /\ ino[cwd] \in Dirs /\ ref[cwd] \in Nat
    BY DEF IInv, TypeOK, SlotsKeepInodes
  <2>2. ref[cwd] >= Pins(cwd) + Held(HoldsMip /\ cwd = mip)
    BY <1>13, <2>1 DEF IInv, HoldersPinned
  <2> QED BY <1>13, <2>1, <2>2 DEF Pins, Held
<1>14. CASE LsHere
  <2>1. TypeOK' /\ LocalsInv'
    <3>1. NoPath \in PathType /\ pc = "idle"
      BY <1>14 DEF NoPath, PathType, PathKinds, LsHere, Typed
    <3>2. Disk[ino[cwd]] \in Seq(Entries)
      BY <1>13, <3>1, TreeAssumption
    <3> QED BY <1>13, <1>14, <3>1, <3>2 DEF LsHere, Typed, IInv, TypeOK, PCs, LocalsInv
  <2> QED BY <1>13, <1>14, <2>1, QuietStep DEF LsHere, Typed, NoPath
<1>15. CASE Pwd
  <2>1. TypeOK' /\ LocalsInv'
    <3>1. NoPath \in PathType /\ <<>> \in Seq(Names)
      BY DEF NoPath, PathType, PathKinds
    <3> QED BY <1>13, <1>15, <3>1 DEF Pwd, Typed, IInv, TypeOK, PCs, LocalsInv
  <2> QED BY <1>13, <1>15, <2>1, QuietStep DEF Pwd, Typed
<1>16. CASE \E p \in Paths : Ls(p) \/ Cd(p)
  BY <1>16, CommandInv DEF Ls, Cd
<1>17. CASE Quit
  <2>1. ref' \in [Slots -> Nat]
    BY <1>17 DEF Quit, IInv, TypeOK
  <2>2. TypeOK'
    BY <1>17, <2>1 DEF Quit, IInv, TypeOK, PCs, NoPath, PathType, PathKinds
  <2>3. NoAliases' /\ SlotsKeepInodes' /\ LeftBehind' /\ LocalsInv' /\ HoldersPinned'
    BY <1>17 DEF Quit, IInv, NoAliases, SlotsKeepInodes, LeftBehind, LocalsInv, HoldersPinned
  <2> QED BY <2>2, <2>3 DEF IInv
<1>18. CASE UNCHANGED vars
  <2>1. TypeOK' /\ NoAliases' /\ SlotsKeepInodes' /\ LocalsInv'
    BY <1>18 DEF vars, IInv, TypeOK, NoAliases, SlotsKeepInodes, LocalsInv
  <2>2. HoldersPinned' /\ LeftBehind'
    BY <1>18 DEF vars, IInv, HoldersPinned, LeftBehind, HoldsMip, Held, Pins
  <2> QED BY <2>1, <2>2 DEF IInv
<1> QED BY <1>1, <1>2, <1>3, <1>4, <1>5, <1>6, <1>7, <1>8, <1>9, <1>10, <1>11, <1>12,
           <1>14, <1>15, <1>16, <1>17, <1>18 DEF Next, Step, UserCommand

-----------------------------------------------------------------------------
(***************************************************************************)
(* The names: where a pathname leads, and what pwd puts together.          *)
(***************************************************************************)

\* root and cwd have a reference, so that no iget() takes their slots.
LEMMA CwdHeld ==
  ASSUME IInv, pc # "exit"
  PROVE  cwd \in Slots /\ ref[cwd] \in Nat /\ ref[cwd] > 0
<1>1. cwd \in Slots /\ ref[cwd] \in Nat
  BY DEF IInv, TypeOK
<1>2. ref[cwd] >= Pins(cwd) + Held(HoldsMip /\ cwd = mip)
  BY <1>1 DEF IInv, HoldersPinned
<1> QED BY <1>1, <1>2 DEF Pins, Held

\* Only ChangeDir() moves the shell: no other step changes cwd or, by
\* recycling its slot, the inode in it.
LEMMA CwdStays ==
  ASSUME IInv, [Next]_vars, ~ChangeDir
  PROVE  cwd' = cwd /\ ino'[cwd] = ino[cwd]
<1> USE DEF cacheVars, callVars
<1>1. ASSUME pc # "exit", NEW i \in Inodes, NEW s \in Slots \union {NULL}, Iget(i, s),
             UNCHANGED <<root, cwd>>
      PROVE  ino'[cwd] = ino[cwd]
  <2>1. \A t \in Slots : ref[t] > 0 => ino'[t] = ino[t]
    BY <1>1, IgetKeeps
  <2> QED BY <1>1, <2>1, CwdHeld
<1>2. CASE Load
  <2>1. target \in Inodes
    BY <1>2 DEF Load, IInv, LocalsInv
  <2> QED BY <1>1, <1>2, <2>1 DEF Load
<1>3. CASE Open
  <2>1. target \in Inodes
    BY <1>3 DEF Open, IInv, LocalsInv
  <2> QED BY <1>1, <1>3, <2>1 DEF Open
<1>4. CASE Climb
  <2>1. \A parent \in Hits(ino[mip], "..") : parent \in Inodes
    BY DEF Hits
  <2> QED BY <1>1, <1>4, <2>1 DEF Climb
<1>5. CASE ListEntry
  <2>1. cwd' = cwd /\ ref[cwd] # 0 /\ cwd \in Slots /\ ino \in [Slots -> Inodes \union {0}]
    BY <1>5, CwdHeld DEF ListEntry, IInv, TypeOK
  <2>2. ASSUME NEW s \in First(Unused), NEW i, ino' = [ino EXCEPT ![s] = i]
        PROVE  ino'[cwd] = ino[cwd]
    BY <2>1, <2>2 DEF First, Unused
  <2> QED BY <1>5, <2>1, <2>2 DEF ListEntry
<1>6. CASE SearchFinds \/ SearchHangs \/ SearchFails \/ ListDone \/ PwdDone \/ NextLine
  BY <1>6 DEF SearchFinds, SearchHangs, SearchFails, ListDone, PwdDone, NextLine, Iput, Release
<1>7. CASE UserCommand
  BY <1>7 DEF UserCommand, Ls, Cd, Command, LsHere, CdNowhere, Pwd, Quit
<1>8. CASE UNCHANGED vars
  BY <1>8 DEF vars
<1> QED BY <1>2, <1>3, <1>4, <1>5, <1>6, <1>7, <1>8 DEF Next, Step

\* A typed pathname starts its walk; the walk of "/" is over at once.
LEMMA CommandNames ==
  ASSUME NamesInv, NEW c \in {"ls", "cd"}, NEW p \in Paths, Command(c, p)
  PROVE  WalkInv' /\ ClimbingInv' /\ (FrameKept => PwdNamesCwd')
<1>1. /\ UNCHANGED <<ino, cwd>> /\ cmd' = c /\ path' = p /\ todo' = p.names
      /\ p.kind # "none"
      /\ target' = (IF p.kind = "rel" THEN ino[cwd] ELSE Root)
      /\ pc' = (IF p.kind = "root" THEN "open" ELSE "load")
  BY DEF Command, Typed, Origin, cacheVars
<1>2. target' = StartOf(path)' /\ path'.names = p.names
  BY <1>1 DEF StartOf
<1>3. pc' = "open" => target' = Resolve(StartOf(path)', path'.names)
  BY <1>1, <1>2, PathsAssumption, ResolveEmpty
<1> QED BY <1>1, <1>2, <1>3 DEF WalkInv, ClimbingInv, PwdNamesCwd

\* iget() of the inode in hand: out of names, it is where the path leads.
LEMMA LoadNames ==
  ASSUME NamesInv, Load
  PROVE  WalkInv' /\ ClimbingInv' /\ (FrameKept => PwdNamesCwd')
<1>1. /\ pc = "load" /\ UNCHANGED <<cwd, cmd, path, target, todo>>
      /\ pc' \in {"crash", "search", "done", "open"}
      /\ pc' = "open" => todo = <<>> /\ path.names # <<>>
      /\ path \in Paths /\ path.kind # "none" /\ cmd \in {"ls", "cd"}
      /\ Resolve(target, todo) = Resolve(StartOf(path), path.names)
  BY DEF Load, NamesInv, WalkInv
<1>2. StartOf(path)' = StartOf(path)
  <2>1. ~ChangeDir /\ [Next]_vars
    BY <1>1 DEF ChangeDir, Next, Step
  <2> QED BY <1>1, <2>1, CwdStays DEF StartOf, NamesInv
<1>3. pc' = "open" => target' = Resolve(StartOf(path), path.names)
  BY <1>1, ResolveEmpty
<1> QED BY <1>1, <1>2, <1>3 DEF WalkInv, ClimbingInv, PwdNamesCwd

\* search() takes one name off the path: Lookup finds the inode it finds.
LEMMA SearchFindsNames ==
  ASSUME NamesInv, SearchFinds
  PROVE  WalkInv' /\ ClimbingInv' /\ (FrameKept => PwdNamesCwd')
<1>1. /\ pc = "search" /\ UNCHANGED <<ino, cwd, cmd, path>>
      /\ pc' = "load" /\ todo' = Tail(todo) /\ todo # <<>> /\ todo \in Seq(Names)
      /\ ino[mip] = target /\ target \in Dirs /\ target' \in Hits(target, Head(todo))
      /\ path \in Paths /\ path.kind # "none" /\ cmd \in {"ls", "cd"}
      /\ Resolve(target, todo) = Resolve(StartOf(path), path.names)
  BY DEF SearchFinds, NamesInv, WalkInv, IInv, LocalsInv, SlotsKeepInodes, TypeOK, Iput, NextNames
<1>2. target' = Lookup(target, Head(todo))
  BY <1>1, LookupFinds
<1>3. Resolve(target', todo') = Resolve(target, todo)
  BY <1>1, <1>2, ResolveStep
<1>4. StartOf(path)' = StartOf(path)
  BY <1>1 DEF StartOf
<1> QED BY <1>1, <1>3, <1>4 DEF WalkInv, ClimbingInv, PwdNamesCwd

\* The caller's iget() changes neither the target nor where the walk began.
LEMMA OpenNames ==
  ASSUME NamesInv, Open
  PROVE  WalkInv' /\ ClimbingInv' /\ (FrameKept => PwdNamesCwd')
<1>1. /\ pc = "open" /\ UNCHANGED <<cwd, cmd, path, target, todo>>
      /\ pc' \in {"crash", "chdir", "list"} /\ (pc' = "list" => cmd # "cd")
      /\ (pc' = "chdir" => cmd = "cd")
      /\ path \in Paths /\ path.kind # "none" /\ cmd \in {"ls", "cd"}
      /\ target = Resolve(StartOf(path), path.names)
      /\ path.kind = "root" \/ path.names # <<>>
  BY DEF Open, NamesInv, WalkInv
<1>2. StartOf(path)' = StartOf(path)
  <2>1. ~ChangeDir /\ [Next]_vars
    BY <1>1 DEF ChangeDir, Next, Step
  <2> QED BY <1>1, <2>1, CwdStays DEF StartOf, NamesInv
<1> QED BY <1>1, <1>2 DEF WalkInv, ClimbingInv, PwdNamesCwd

\* R_Pwd() puts a name in front: from the parent it leads to the directory
\* the climb was in, from where the other names lead on to cwd.
LEMMA ClimbNames ==
  ASSUME NamesInv, Climb
  PROVE  WalkInv' /\ ClimbingInv' /\ (FrameKept => PwdNamesCwd')
<1>1. /\ pc = "pwd" /\ UNCHANGED <<root, cwd, cmd, path>> /\ cmd = "pwd"
      /\ (FrameKept => Resolve(ino[mip], out) = ino[cwd]) /\ out \in Seq(Names)
      /\ mip \in Slots /\ ref[mip] \in Nat /\ ref[mip] >= 1 /\ ino[mip] \in Dirs
  BY DEF Climb, NamesInv, ClimbingInv, IInv, TypeOK, HoldersPinned, LocalsInv
<1>2. PICK parent \in Hits(ino[mip], ".."), s \in Slots \union {NULL} :
        /\ Iget(parent, s) /\ mip' = s
        /\ IF s = NULL
           THEN pc' = "crash" /\ UNCHANGED out
           ELSE /\ \E e \in EntriesOf(parent) : \E n \in NameLeft(e.name) :
                     e.ino = ino'[mip] /\ out' = PrefixName(n)
                /\ UNCHANGED pc
  BY DEF Climb
<1>3. ino'[cwd'] = ino[cwd]
  <2>1. ~ChangeDir /\ [Next]_vars
    BY <1>1 DEF ChangeDir, Next, Step
  <2> QED BY <2>1, CwdStays DEF NamesInv
<1>4. CASE s = NULL
  BY <1>1, <1>2, <1>4 DEF WalkInv, ClimbingInv, PwdNamesCwd
<1>5. CASE s # NULL
  <2>1. parent \in Inodes /\ parent \in Dirs
    <3>1. PICK k \in DOMAIN Disk[ino[mip]] :
            Disk[ino[mip]][k] = [name |-> "..", ino |-> parent]
      BY <1>2 DEF Hits, EntriesOf
    <3>2. Disk[ino[mip]][k].name = ".." /\ Disk[ino[mip]][k].ino = parent
      BY <3>1
    <3>3. parent \in Dirs
      BY <1>1, <3>2, TreeAssumption
    <3> QED BY <3>3, TreeAssumption
  <2>2. ino'[s] = parent /\ ino'[mip] = ino[mip]
    BY <1>1, <1>2, <1>5, <2>1, IgetKeeps DEF NamesInv
  <2> SUFFICES ASSUME FrameKept
               PROVE  WalkInv' /\ ClimbingInv' /\ PwdNamesCwd'
    BY <1>1, <1>2, <1>3, <1>5 DEF WalkInv, ClimbingInv, PwdNamesCwd
  <2>3. PICK e \in EntriesOf(parent) : e.ino = ino[mip] /\ out' = <<e.name>> \o out
    BY <1>2, <1>5, <2>2 DEF PrefixName, NameLeft
  <2>4. e \in Entries
    BY <2>1, <2>3, TreeAssumption DEF EntriesOf
  <2>5. e.name \in Names /\ e.ino \in Inodes /\ e = [name |-> e.name, ino |-> e.ino]
    BY <2>4 DEF Entries
  <2>6. Lookup(parent, e.name) = ino[mip]
    <3>1. e.ino \in Hits(parent, e.name)
      BY <2>3, <2>5 DEF Hits
    <3> QED BY <2>1, <2>3, <3>1, LookupFinds
  <2>7. /\ out' \in Seq(Names) /\ out' # <<>>
        /\ Head(out') = e.name /\ Tail(out') = out
    BY <1>1, <2>3, <2>5
  <2>8. Resolve(parent, out') = ino[cwd]
    BY <1>1, <2>6, <2>7, ResolveStep
  <2> QED BY <1>1, <1>2, <1>3, <1>5, <2>2, <2>8 DEF WalkInv, ClimbingInv, PwdNamesCwd
<1> QED BY <1>4, <1>5

\* The other steps leave the walks alone, or end or begin them.
LEMMA StepNames ==
  ASSUME NamesInv, [Next]_vars
  PROVE  WalkInv' /\ ClimbingInv' /\ (FrameKept => PwdNamesCwd')
<1> USE DEF cacheVars, callVars
<1>1. CASE Load
  BY <1>1, LoadNames
<1>2. CASE SearchFinds
  BY <1>2, SearchFindsNames
<1>3. CASE Open
  BY <1>3, OpenNames
<1>4. CASE Climb
  BY <1>4, ClimbNames
<1>5. CASE \E p \in Paths : Ls(p) \/ Cd(p)
  BY <1>5, CommandNames DEF Ls, Cd
<1>6. CASE SearchHangs \/ SearchFails \/ ChangeDir \/ ListDone \/ NextLine \/ CdNowhere \/ Quit \/ LsHere
  BY <1>6 DEF SearchHangs, SearchFails, ChangeDir, ListDone, NextLine, CdNowhere, Quit, LsHere,
              Typed, NamesInv, WalkInv, ClimbingInv, PwdNamesCwd
<1>7. CASE ListEntry
  BY <1>7 DEF ListEntry, NamesInv, WalkInv, ClimbingInv, PwdNamesCwd
<1>8. CASE Pwd
  BY <1>8, ResolveEmpty DEF Pwd, Typed, WalkInv, ClimbingInv, PwdNamesCwd
<1>9. CASE PwdDone
  BY <1>9 DEF PwdDone, NamesInv, IInv, SlotsKeepInodes, WalkInv, ClimbingInv, PwdNamesCwd
<1>10. CASE UNCHANGED vars
  BY <1>10 DEF vars, NamesInv, WalkInv, ClimbingInv, PwdNamesCwd, StartOf
<1> QED BY <1>1, <1>2, <1>3, <1>4, <1>5, <1>6, <1>7, <1>8, <1>9, <1>10
        DEF Next, Step, UserCommand

\* The invariant of the names holds throughout.
LEMMA NamesInvariant == Spec => []NamesInv
<1>1. Init => NamesInv
  <2>1. Init => WalkInv /\ ClimbingInv /\ PwdNamesCwd
    BY DEF Init, WalkInv, ClimbingInv, PwdNamesCwd
  <2> QED BY <2>1, InitInv DEF NamesInv
<1>2. NamesInv /\ [Next]_vars => NamesInv'
  BY NextInv, StepNames DEF NamesInv
<1> QED BY <1>1, <1>2, PTL DEF Spec

-----------------------------------------------------------------------------
(***************************************************************************)
(* The theorems.                                                           *)
(***************************************************************************)

\* For every disk and cache size, iget() never caches an inode twice.
THEOREM CacheHasNoAliases == Spec => []NoAliases
<1>1. IInv => NoAliases
  BY DEF IInv
<1> QED BY InitInv, NextInv, <1>1, PTL DEF Spec

\* No slot is recycled under root, cwd or the walk of a command: the pairs of
\* iget() and iput(), unbalanced as they are, never give back too much.
THEOREM PointersStayPinned == Spec => []HoldersPinned
<1>1. IInv => HoldersPinned
  BY DEF IInv
<1> QED BY InitInv, NextInv, <1>1, PTL DEF Spec

\* And so the slots of root and cwd hold the inodes the program takes them
\* for: what iget() loads for one command never replaces them.
THEOREM SlotsAreRight == Spec => []SlotsKeepInodes
<1>1. IInv => SlotsKeepInodes
  BY DEF IInv
<1> QED BY InitInv, NextInv, <1>1, PTL DEF Spec

\* The cache, the two lasting pointers and the locals keep their types.
THEOREM TypeCorrect == Spec => []TypeOK
<1>1. IInv => TypeOK
  BY DEF IInv
<1> QED BY InitInv, NextInv, <1>1, PTL DEF Spec

\* Where no call reaches into the dead frame of GetName(), what pwd prints away
\* from the root leads from the root to the current directory, on every disk
\* whose directories have entries of different names.
THEOREM PwdIsRight ==
  ASSUME FrameKept
  PROVE  Spec => []PwdNamesCwd
<1>1. NamesInv => PwdNamesCwd
  BY DEF NamesInv
<1> QED BY NamesInvariant, <1>1, PTL

-----------------------------------------------------------------------------
(***************************************************************************)
(* The cache implements WorkingDirectory.                                  *)
(***************************************************************************)

\* Both modules read the same disk.
LEMMA SameResolve ==
  ASSUME NEW start, NEW names
  PROVE  Abstract!Resolve(start, names) = Resolve(start, names)
BY DEF Resolve, Abstract!Resolve, Lookup, Abstract!Lookup, Hits, Abstract!Hits,
       EntriesOf, Abstract!EntriesOf

\* The abstract destination, in the terms of the cache.
LEMMA SameDestination ==
  ASSUME TypedCd = path
  PROVE  Abstract!Destination = IF path.kind = "root" \/ path.names # <<>>
                                THEN Resolve(StartOf(path), path.names) ELSE 0
BY SameResolve DEF Abstract!Destination, Abstract!Start, StartOf, Abstract!Root, Root

\* A path that has led nowhere leads nowhere from there on.
LEMMA ResolveNowhere ==
  ASSUME NEW names, Len(names) \in Nat
  PROVE  Resolve(0, names) = 0
<1>1. PICK w : /\ IsWalk(w, 0, names, Len(names))
               /\ Resolve(0, names) = w[Len(names)]
  BY ResolveWalks
<1> DEFINE Astray == {k \in 0 .. Len(names) : w[k] # 0}
<1> SUFFICES ASSUME Astray # {} PROVE FALSE
  BY <1>1
<1>2. PICK m \in Astray : \A y \in Astray : m <= y
  <2>1. Astray \subseteq Nat
    OBVIOUS
  <2> HIDE DEF Astray
  <2> QED BY <2>1, LeastNumber
<1>3. m \in 0 .. Len(names) /\ w[m] # 0
  BY <1>2
<1>4. w[m] = IF m = 0 THEN 0 ELSE Lookup(w[m-1], names[m])
  BY <1>1, <1>3 DEF IsWalk
<1>5. m # 0 /\ m-1 \in 0 .. Len(names) /\ m-1 \notin Astray
  BY <1>2, <1>3, <1>4
<1>6. w[m-1] = 0 /\ 0 \notin Dirs
  BY <1>5, TreeAssumption
<1> QED BY <1>3, <1>4, <1>5, <1>6 DEF Lookup

\* What a step that leaves the typed pathname and the inode of cwd alone is to
\* WorkingDirectory.
LEMMA Unseen ==
  ASSUME TypedCd' = TypedCd, ino'[cwd'] = ino[cwd]
  PROVE  [Abstract!Next]_<<ino[cwd], TypedCd>>
OBVIOUS

\* A cd whose pathname leads to no directory returns and changes nothing.
LEMMA Refused ==
  ASSUME NamesInv, cmd = "cd", pc \in {"load", "search", "chdir"}, pc' = "done",
         ino'[cwd'] = ino[cwd],
         (path.kind = "root" \/ path.names # <<>>) =>
            Resolve(StartOf(path), path.names) \notin Dirs
  PROVE  Abstract!Refuse
<1>1. TypedCd = path /\ TypedCd' = NoPath
  BY DEF TypedCd
<1>2. path # NoPath
  <2>1. path.kind # "none"
    BY DEF NamesInv, WalkInv
  <2> QED BY <2>1 DEF NoPath
<1>3. Abstract!Destination \notin Dirs
  BY <1>1, SameDestination, TreeAssumption
<1> QED BY <1>1, <1>2, <1>3 DEF Abstract!Refuse, Abstract!NoPath, NoPath

\* ChangeDir() is the abstract cd of the pathname typed, which moves or is
\* refused; getino() refuses it, too, or never returns; no other step is seen.
LEMMA StepRefines ==
  ASSUME NamesInv, [Next]_vars
  PROVE  [Abstract!Next]_<<ino[cwd], TypedCd>>
<1> USE DEF cacheVars, callVars
<1>1. CASE ChangeDir
  <2>1. /\ pc = "chdir" /\ pc' = "done" /\ UNCHANGED <<ino, cmd>> /\ ino[mip] = target
        /\ cwd' = (IF ino[mip] \in Dirs THEN mip ELSE cwd)
        /\ path \in Paths /\ target = Resolve(StartOf(path), path.names)
        /\ path.kind = "root" \/ path.names # <<>>
        /\ path.kind # "none" /\ cmd = "cd"
    BY <1>1 DEF ChangeDir, Iput, NamesInv, WalkInv, IInv, SlotsKeepInodes
  <2>2. CASE target \notin Dirs
    <3>1. Abstract!Refuse
      BY <2>1, <2>2, Refused
    <3> QED BY <3>1 DEF Abstract!Next
  <2>3. CASE target \in Dirs
    <3>1. TypedCd = path /\ TypedCd' = NoPath /\ path # NoPath
      BY <2>1 DEF TypedCd, NoPath
    <3>2. Abstract!Destination = target
      BY <2>1, <3>1, SameDestination
    <3>3. Abstract!Move
      BY <2>1, <2>3, <3>1, <3>2 DEF Abstract!Move, Abstract!NoPath, NoPath
    <3> QED BY <3>3 DEF Abstract!Next
  <2> QED BY <2>2, <2>3
<1>2. ASSUME ~ChangeDir
      PROVE  ino'[cwd'] = ino[cwd]
  BY <1>2, CwdStays DEF NamesInv
<1>3. CASE \E p \in Paths : Cd(p)
  <2>1. PICK p \in Paths : Command("cd", p)
    BY <1>3 DEF Cd
  <2>2. /\ pc = "idle" /\ cmd' = "cd" /\ path' = p /\ p.kind # "none"
        /\ pc' \in {"open", "load"} /\ ~ChangeDir
    BY <2>1 DEF Command, Typed, ChangeDir
  <2>3. TypedCd = NoPath /\ TypedCd' = p
    BY <2>2 DEF TypedCd
  <2>4. Abstract!TypeCd(p)
    BY <1>2, <2>2, <2>3 DEF Abstract!TypeCd, Abstract!NoPath, NoPath
  <2> QED BY <2>4 DEF Abstract!Next
<1>4. CASE Load
  <2>1. /\ pc = "load" /\ UNCHANGED <<cmd, path>> /\ ~ChangeDir /\ path.kind # "root"
        /\ pc' \in {"crash", "search", "done", "open"}
        /\ pc' = "done" => path.names = <<>>
    BY <1>4 DEF Load, ChangeDir, NamesInv, IInv, LocalsInv
  <2>2. CASE pc' = "done" /\ cmd = "cd"
    <3>1. Abstract!Refuse
      BY <1>2, <2>1, <2>2, Refused
    <3> QED BY <3>1 DEF Abstract!Next
  <2>3. CASE ~(pc' = "done" /\ cmd = "cd")
    <3>1. TypedCd' = TypedCd
      BY <2>1, <2>3 DEF TypedCd
    <3> QED BY <1>2, <2>1, <3>1, Unseen
  <2> QED BY <2>2, <2>3
<1>5. CASE SearchFails
  <2>1. /\ pc = "search" /\ pc' = "done" /\ UNCHANGED <<cmd, path>> /\ ~ChangeDir
        /\ ino[mip] = target /\ target \notin Dirs /\ todo # <<>> /\ todo \in Seq(Names)
        /\ Resolve(target, todo) = Resolve(StartOf(path), path.names)
    BY <1>5 DEF SearchFails, ChangeDir, NamesInv, IInv, LocalsInv, WalkInv, SlotsKeepInodes, TypeOK
  <2>2. Lookup(target, Head(todo)) = 0
    BY <2>1, LookupFails
  <2>3. Len(Tail(todo)) \in Nat
    BY <2>1
  <2>4. Resolve(target, todo) = 0
    BY <2>1, <2>2, <2>3, ResolveStep, ResolveNowhere
  <2>5. Resolve(StartOf(path), path.names) \notin Dirs
    BY <2>1, <2>4, TreeAssumption
  <2>6. CASE cmd = "cd"
    <3>1. Abstract!Refuse
      BY <1>2, <2>1, <2>5, <2>6, Refused
    <3> QED BY <3>1 DEF Abstract!Next
  <2>7. CASE cmd # "cd"
    <3>1. TypedCd' = TypedCd
      BY <2>1, <2>7 DEF TypedCd
    <3> QED BY <1>2, <2>1, <3>1, Unseen
  <2> QED BY <2>6, <2>7
<1>6. CASE SearchFinds \/ SearchHangs \/ Open
  <2>1. TypedCd' = TypedCd /\ ~ChangeDir
    BY <1>6 DEF SearchFinds, SearchHangs, Open, TypedCd, ChangeDir
  <2> QED BY <1>2, <2>1, Unseen
<1>7. CASE ListEntry \/ ListDone \/ Climb \/ PwdDone
  <2>1. cmd \in {"ls", "pwd"} /\ cmd' = cmd /\ ~ChangeDir
    BY <1>7 DEF ListEntry, ListDone, Climb, PwdDone, ChangeDir, NamesInv, ClimbingInv
  <2>2. TypedCd' = TypedCd
    BY <2>1 DEF TypedCd
  <2> QED BY <1>2, <2>1, <2>2, Unseen
<1>8. CASE NextLine \/ (\E p \in Paths : Ls(p)) \/ LsHere \/ CdNowhere \/ Pwd \/ Quit
  <2>1. /\ pc \in {"done", "idle"} /\ ~ChangeDir
        /\ cmd' # "cd" \/ pc' = "done"
    BY <1>8 DEF NextLine, Ls, Command, LsHere, CdNowhere, Pwd, Quit, Typed, ChangeDir
  <2>2. TypedCd' = TypedCd
    BY <2>1 DEF TypedCd
  <2> QED BY <1>2, <2>1, <2>2, Unseen
<1>9. CASE UNCHANGED vars
  BY <1>9 DEF vars, TypedCd
<1> QED BY <1>1, <1>3, <1>4, <1>5, <1>6, <1>7, <1>8, <1>9 DEF Next, Step, UserCommand

\* The shell on the cache behaves like one with no cache at all: it starts in
\* the root, and only cd moves it, to the directory that the pathname typed
\* leads to; a cd that returns without a move has a pathname that leads to
\* none.
THEOREM CacheImplementsWorkingDirectory == Spec => ImplementsWorkingDirectory
<1>1. Init => Abstract!Init
  <2>1. 1 \in Slots
    BY CacheAssumption DEF Slots
  <2> QED BY <2>1 DEF Init, Abstract!Init, Abstract!Root, Root, TypedCd, Abstract!NoPath, NoPath
<1>2. NamesInv /\ [Next]_vars => [Abstract!Next]_<<ino[cwd], TypedCd>>
  BY StepRefines
<1> QED BY <1>1, <1>2, NamesInvariant, PTL DEF Spec, ImplementsWorkingDirectory, Abstract!Spec
=============================================================================
