----------------------------- MODULE ShellProofs -----------------------------
(***************************************************************************)
(* One process at a time reads the terminal, and pipelines deliver what    *)
(* their first program writes, for every set of command lines and every    *)
(* number of processes.                                                    *)
(*                                                                         *)
(* OneTerminalReader is not inductive: that no other process reads when a  *)
(* shell leaves the loop of run() needs that every process in front of the *)
(* terminal is the child of a shell in that loop.  The processes in front  *)
(* of the terminal are a chain: all but the last are shells in the loop,   *)
(* and each is the parent of the next.                                     *)
(***************************************************************************)
EXTENDS ShellProperties, NumberLemmas, FiniteSetTheorems

Fields == {"pc", "line", "io", "in", "out", "pd", "parent", "job", "left"}

\* Every process is a record of these fields.
Shape ==
  /\ proc = [p \in Procs |-> proc[p]]
  /\ \A p \in Procs : DOMAIN proc[p] = Fields /\ proc[p] = [f \in Fields |-> proc[p][f]]

\* In front of the terminal.  A reader that has just been forked still has its
\* parent's input, but all it does with it is to close it.
AtTty(p) == Alive(p) /\ proc[p].in = Tty /\ proc[p].pc # "reader"

IsChain(n, s) ==
  /\ n \in Nat /\ s \in [1 .. n -> Procs]
  /\ \A p \in Procs : AtTty(p) <=> \E k \in 1 .. n : s[k] = p
  /\ \A k \in 1 .. n - 1 : proc[s[k]].pc = "wait" /\ proc[s[k + 1]].parent = s[k]

ChainInv == Shape /\ \E n, s : IsChain(n, s)

\* A process on its way to execve() has the rest of a command line, and more
\* than one stage of it where it makes a pipe.
HasLine(p) ==
  /\ proc[p].pc \in {"tell", "pipe", "writer", "reader", "exe", "io"} =>
       proc[p].line \in Seq(Stage) /\ proc[p].line # <<>>
  /\ proc[p].pc \in {"tell", "pipe"} => Len(proc[p].line) > 1
LineInv == \A p \in Procs : HasLine(p)

-----------------------------------------------------------------------------
(***************************************************************************)
(* What a step can do to the chain.                                        *)
(***************************************************************************)

\* Process q and its place are left alone.
Keeps(q) ==
  /\ AtTty(q)' <=> AtTty(q)
  /\ AtTty(q) => proc'[q].parent = proc[q].parent /\ proc'[q].pc = proc[q].pc

\* Process p does something and stays where it is, or gets there no more.
Stays(p) ==
  /\ \A q \in Procs \ {p} : Keeps(q)
  /\ AtTty(p)' <=> AtTty(p)
  /\ AtTty(p) => proc'[p].parent = proc[p].parent
  /\ proc[p].pc = "wait" => proc'[p].pc = "wait" \/ Children(p) = {}

\* Process p, which does not wait, is in front of the terminal no more.  Its
\* children may lose their parent.
Leaves(p) ==
  /\ proc[p].pc # "wait" /\ ~AtTty(p)'
  /\ \A q \in Procs \ {p} :
       /\ AtTty(q)' <=> AtTty(q)
       /\ AtTty(q) => /\ proc'[q].pc = proc[q].pc
                      /\ proc[q].parent # p => proc'[q].parent = proc[q].parent

\* Shell p starts c and waits.
Starts(p, c) ==
  /\ proc[p].pc # "wait" /\ proc'[p].pc = "wait" /\ proc'[p].parent = proc[p].parent
  /\ c # p /\ ~AtTty(c) /\ proc'[c].parent = p
  /\ AtTty(p)' <=> AtTty(p)
  /\ AtTty(c)' <=> AtTty(p)
  /\ \A q \in Procs \ {p, c} : Keeps(q)

\* Whoever is in front of the terminal and does not wait is the last of the
\* chain, and so is who waits without a child.
LEMMA LastOfChain ==
  ASSUME NEW n, NEW s, IsChain(n, s), NEW p \in Procs, AtTty(p),
         proc[p].pc # "wait" \/ Children(p) = {}
  PROVE  n >= 1 /\ s[n] = p /\ \A k \in 1 .. n - 1 : s[k] # p
<1>1. n \in Nat
  BY DEF IsChain
<1>2. ASSUME NEW k \in 1 .. n - 1, s[k] = p PROVE FALSE
  <2>1. k + 1 \in 1 .. n /\ s[k + 1] \in Procs
    BY <1>1 DEF IsChain
  <2>2. proc[p].pc = "wait" /\ proc[s[k + 1]].parent = p
    BY <1>2 DEF IsChain
  <2>3. AtTty(s[k + 1])
    BY <2>1 DEF IsChain
  <2>4. s[k + 1] \in Children(p)
    BY <2>1, <2>2, <2>3 DEF Children, AtTty, Alive
  <2> QED BY <2>2, <2>4
<1>3. PICK k \in 1 .. n : s[k] = p
  BY DEF IsChain
<1>4. k = n
  BY <1>1, <1>2, <1>3
<1> QED BY <1>1, <1>2, <1>3, <1>4

\* A step that keeps everyone in place keeps the chain.
LEMMA StaysChain ==
  ASSUME ChainInv, NEW p \in Procs, Stays(p)
  PROVE  (\E n, s : IsChain(n, s))'
<1>1. PICK n, s : IsChain(n, s)
  BY DEF ChainInv
<1>2. n \in Nat /\ s \in [1 .. n -> Procs]
  BY <1>1 DEF IsChain
<1>3. \A q \in Procs : /\ AtTty(q)' <=> AtTty(q)
                       /\ AtTty(q) => proc'[q].parent = proc[q].parent
  BY DEF Stays, Keeps
<1>4. ASSUME NEW k \in 1 .. n - 1
      PROVE  proc'[s[k]].pc = "wait" /\ proc'[s[k + 1]].parent = s[k]
  <2>1. k \in 1 .. n /\ k + 1 \in 1 .. n
    BY <1>2
  <2>2. /\ s[k] \in Procs /\ s[k + 1] \in Procs /\ AtTty(s[k]) /\ AtTty(s[k + 1])
        /\ proc[s[k]].pc = "wait" /\ proc[s[k + 1]].parent = s[k]
    BY <1>1, <1>2, <2>1 DEF IsChain
  <2>3. proc'[s[k]].pc = "wait"
    <3>1. CASE s[k] # p
      BY <2>2, <3>1 DEF Stays, Keeps
    <3>2. CASE s[k] = p
      <4>1. Children(p) # {}
        BY <1>1, <2>2, <3>2, LastOfChain
      <4> QED BY <2>2, <3>2, <4>1 DEF Stays
    <3> QED BY <3>1, <3>2
  <2> QED BY <1>3, <2>2, <2>3
<1>5. IsChain(n, s)'
  BY <1>1, <1>2, <1>3, <1>4 DEF IsChain
<1> QED BY <1>5

\* Whoever leaves was the last of the chain, or not in it.
LEMMA LeavesChain ==
  ASSUME ChainInv, NEW p \in Procs, Leaves(p)
  PROVE  (\E n, s : IsChain(n, s))'
<1>1. PICK n, s : IsChain(n, s)
  BY DEF ChainInv
<1>2. n \in Nat /\ s \in [1 .. n -> Procs]
  BY <1>1 DEF IsChain
<1>3. CASE ~AtTty(p)
  <2>1. \A k \in 1 .. n : s[k] # p /\ s[k] \in Procs /\ AtTty(s[k])
    BY <1>1, <1>2, <1>3 DEF IsChain
  <2>2. \A q \in Procs : AtTty(q)' <=> AtTty(q)
    BY <1>3 DEF Leaves
  <2>3. ASSUME NEW k \in 1 .. n - 1
        PROVE  proc'[s[k]].pc = "wait" /\ proc'[s[k + 1]].parent = s[k]
    <3>1. k \in 1 .. n /\ k + 1 \in 1 .. n
      BY <1>2
    <3>2. proc[s[k]].pc = "wait" /\ proc[s[k + 1]].parent = s[k]
      BY <1>1 DEF IsChain
    <3> QED BY <2>1, <3>1, <3>2 DEF Leaves
  <2>4. IsChain(n, s)'
    BY <1>1, <1>2, <2>2, <2>3 DEF IsChain
  <2> QED BY <2>4
<1>4. CASE AtTty(p)
  <2> DEFINE t == [k \in 1 .. n - 1 |-> s[k]]
  <2>1. n >= 1 /\ s[n] = p /\ \A k \in 1 .. n - 1 : s[k] # p
    BY <1>1, <1>4, LastOfChain DEF Leaves
  <2>2. /\ n - 1 \in Nat /\ t \in [1 .. n - 1 -> Procs]
        /\ \A k \in 1 .. n - 1 : t[k] = s[k] /\ k \in 1 .. n
    BY <1>2, <2>1
  <2>3. ASSUME NEW q \in Procs PROVE AtTty(q)' <=> \E k \in 1 .. n - 1 : s[k] = q
    <3>1. CASE q = p
      BY <2>1, <3>1 DEF Leaves
    <3>2. CASE q # p
      <4>1. AtTty(q)' <=> \E k \in 1 .. n : s[k] = q
        BY <1>1, <3>2 DEF Leaves, IsChain
      <4>2. \A k \in 1 .. n : s[k] = q => k \in 1 .. n - 1
        BY <1>2, <2>1, <3>2
      <4> QED BY <2>2, <4>1, <4>2
    <3> QED BY <3>1, <3>2
  <2>4. ASSUME NEW k \in 1 .. (n - 1) - 1
        PROVE  proc'[s[k]].pc = "wait" /\ proc'[s[k + 1]].parent = s[k]
    <3>1. k \in 1 .. n - 1 /\ k + 1 \in 1 .. n - 1 /\ k \in 1 .. n /\ k + 1 \in 1 .. n
      BY <1>2
    <3>2. /\ proc[s[k]].pc = "wait" /\ proc[s[k + 1]].parent = s[k]
          /\ s[k] \in Procs /\ s[k + 1] \in Procs /\ AtTty(s[k]) /\ AtTty(s[k + 1])
      BY <1>1, <1>2, <3>1 DEF IsChain
    <3> QED BY <2>1, <3>1, <3>2 DEF Leaves
  <2>5. ASSUME NEW k \in 1 .. (n - 1) - 1 PROVE t[k] = s[k] /\ t[k + 1] = s[k + 1]
    BY <1>2
  <2> HIDE DEF t
  <2>6. IsChain(n - 1, t)'
    BY <2>2, <2>3, <2>4, <2>5 DEF IsChain
  <2> QED BY <2>6
<1> QED BY <1>3, <1>4

\* Whoever is started is the new last one, or not in the chain.
LEMMA StartsChain ==
  ASSUME ChainInv, NEW p \in Procs, NEW c \in Procs, Starts(p, c)
  PROVE  (\E n, s : IsChain(n, s))'
<1>1. PICK n, s : IsChain(n, s)
  BY DEF ChainInv
<1>2. n \in Nat /\ s \in [1 .. n -> Procs]
  BY <1>1 DEF IsChain
<1>3. \A k \in 1 .. n : s[k] # c /\ s[k] \in Procs /\ AtTty(s[k])
  BY <1>1, <1>2 DEF IsChain, Starts
<1>4. \A q \in Procs \ {c} :
        /\ AtTty(q)' <=> AtTty(q)
        /\ AtTty(q) => /\ proc'[q].parent = proc[q].parent
                       /\ proc[q].pc = "wait" => proc'[q].pc = "wait"
  BY DEF Starts, Keeps
<1>5. ASSUME NEW k \in 1 .. n - 1
      PROVE  proc'[s[k]].pc = "wait" /\ proc'[s[k + 1]].parent = s[k]
  <2>1. k \in 1 .. n /\ k + 1 \in 1 .. n
    BY <1>2
  <2>2. proc[s[k]].pc = "wait" /\ proc[s[k + 1]].parent = s[k]
    BY <1>1 DEF IsChain
  <2> QED BY <1>3, <1>4, <2>1, <2>2
<1>6. CASE ~AtTty(p)
  <2>1. \A q \in Procs : AtTty(q)' <=> AtTty(q)
    BY <1>4, <1>6 DEF Starts
  <2>2. IsChain(n, s)'
    BY <1>1, <1>2, <1>5, <2>1 DEF IsChain
  <2> QED BY <2>2
<1>7. CASE AtTty(p)
  <2> DEFINE t == [k \in 1 .. n + 1 |-> IF k = n + 1 THEN c ELSE s[k]]
  <2>1. n >= 1 /\ s[n] = p
    BY <1>1, <1>7, LastOfChain DEF Starts
  <2>2. /\ n + 1 \in Nat /\ t \in [1 .. n + 1 -> Procs] /\ t[n + 1] = c
        /\ \A k \in 1 .. n : t[k] = s[k] /\ k \in 1 .. n + 1
        /\ n + 1 \in 1 .. n + 1 /\ \A k \in 1 .. n + 1 : k \in 1 .. n \/ k = n + 1
    BY <1>2
  <2> HIDE DEF t
  <2>3. ASSUME NEW q \in Procs PROVE AtTty(q)' <=> \E k \in 1 .. n + 1 : t[k] = q
    <3>1. CASE q = c
      BY <1>7, <2>2, <3>1 DEF Starts
    <3>2. CASE q # c
      <4>1. AtTty(q)' <=> \E k \in 1 .. n : s[k] = q
        BY <1>1, <1>4, <3>2 DEF IsChain
      <4> QED BY <2>2, <3>2, <4>1
    <3> QED BY <3>1, <3>2
  <2>4. ASSUME NEW k \in 1 .. (n + 1) - 1
        PROVE  proc'[t[k]].pc = "wait" /\ proc'[t[k + 1]].parent = t[k]
    <3>1. CASE k = n
      <4>1. t[k] = p /\ t[k + 1] = c
        BY <1>2, <2>1, <2>2, <3>1
      <4> QED BY <4>1 DEF Starts
    <3>2. CASE k # n
      <4>1. k \in 1 .. n - 1 /\ k \in 1 .. n /\ k + 1 \in 1 .. n
        BY <1>2, <3>2
      <4> QED BY <1>5, <2>2, <4>1
    <3> QED BY <3>1, <3>2
  <2>5. IsChain(n + 1, t)'
    BY <2>2, <2>3, <2>4 DEF IsChain
  <2> QED BY <2>5
<1> QED BY <1>6, <1>7

-----------------------------------------------------------------------------
(***************************************************************************)
(* Every step does one of these.                                           *)
(***************************************************************************)

\* The end of a process.
LEMMA EndsLeaves ==
  ASSUME Shape, NEW p \in Procs, proc' = Dead(p), proc[p].pc # "wait"
  PROVE  Shape' /\ Leaves(p)
<1>1. Shape'
  BY DEF Shape, Dead, Free, Fields
<1>2. ~AtTty(p)'
  BY DEF Shape, Dead, Free, AtTty, Alive
<1>3. ASSUME NEW q \in Procs \ {p}
      PROVE  /\ AtTty(q)' <=> AtTty(q)
             /\ AtTty(q) => /\ proc'[q].pc = proc[q].pc
                            /\ proc[q].parent # p => proc'[q].parent = proc[q].parent
  BY DEF Shape, Dead, Free, AtTty, Alive, Fields
<1> QED BY <1>1, <1>2, <1>3 DEF Leaves

\* Process p changes its record only, and not its input or its parent.
LEMMA ChangeStays ==
  ASSUME Shape, NEW p \in Procs, NEW r, proc' = [proc EXCEPT ![p] = r],
         DOMAIN r = Fields, r = [f \in Fields |-> r[f]],
         r.in = proc[p].in, r.parent = proc[p].parent,
         {proc[p].pc, r.pc} \intersect {"free", "zombie", "reader", "wait"} = {}
  PROVE  Shape' /\ Stays(p)
  BY DEF Shape, Stays, Keeps, AtTty, Alive

\* A write, which may be the end of a process.
LEMMA WriteChain ==
  ASSUME Shape, NEW p \in Procs, NEW b, NEW u, NEW r, WriteFrom(b, p, u, r),
         DOMAIN r = Fields, r = [f \in Fields |-> r[f]],
         r.in = proc[p].in, r.parent = proc[p].parent,
         {proc[p].pc, r.pc} \intersect {"free", "zombie", "reader", "wait"} = {}
  PROVE  Shape' /\ (Stays(p) \/ Leaves(p))
<1>1. proc' = Dead(p) \/ proc' = [proc EXCEPT ![p] = r]
  BY DEF WriteFrom
<1>2. proc[p].pc # "wait"
  OBVIOUS
<1> QED BY <1>1, <1>2, EndsLeaves, ChangeStays

\* A set of naturals has its minimum.
LEMMA MinIsIn ==
  ASSUME NEW T, T \subseteq Nat, T # {}
  PROVE  Min(T) \in T
<1>1. \E x \in T : \A y \in T : x <= y
  BY LeastNumber
<1>2. (CHOOSE x \in T : \A y \in T : x <= y) \in T
  BY <1>1
<1> QED BY <1>2 DEF Min

\* A slot that fork() takes is free.
LEMMA SlotIsFree ==
  ASSUME Slots # {}
  PROVE  Min(Slots) \in Procs /\ proc[Min(Slots)].pc = "free"
<1>1. Slots \subseteq Nat
  BY DEF Slots, Procs
<1>2. Min(Slots) \in Slots
  BY <1>1, MinIsIn
<1> QED BY <1>2 DEF Slots

\* run() starts a process and waits, or cannot fork.
LEMMA RunChain ==
  ASSUME Shape, NEW p \in Procs, NEW l, Run(p, l)
  PROVE  Shape' /\ (Stays(p) \/ \E c \in Procs : Starts(p, c))
<1>1. proc[p].pc = "read"
  BY DEF Run
<1>2. CASE Slots = {}
  <2> DEFINE r == [proc[p] EXCEPT !.pc = "greet"]
  <2>1. proc' = [proc EXCEPT ![p] = r]
    BY <1>2 DEF Run, Shape
  <2>2. /\ DOMAIN r = Fields /\ r = [f \in Fields |-> r[f]] /\ r.pc = "greet"
        /\ r.in = proc[p].in /\ r.parent = proc[p].parent
    BY DEF Shape, Fields
  <2> HIDE DEF r
  <2> QED BY <1>1, <2>1, <2>2, ChangeStays
<1>3. CASE Slots # {}
  <2>1. PICK c \in Procs : c = Min(Slots) /\ proc[c].pc = "free"
    BY <1>3, SlotIsFree
  <2>2. PICK e : /\ e.in = proc[p].in /\ e.parent = p /\ e.pc \in {"tell", "exe"}
                 /\ DOMAIN e = Fields /\ e = [f \in Fields |-> e[f]]
                 /\ proc' = [proc EXCEPT ![p].pc = "wait", ![c] = e]
    <3> DEFINE e == [Free EXCEPT !.pc = IF Len(l) > 1 THEN "tell" ELSE "exe",
                               !.line = l, !.io = l[1].io, !.in = proc[p].in,
                               !.out = proc[p].out, !.parent = p, !.job = Len(typed) + 1]
    <3>1. /\ e.in = proc[p].in /\ e.parent = p /\ e.pc \in {"tell", "exe"}
          /\ DOMAIN e = Fields /\ e = [f \in Fields |-> e[f]]
      BY DEF Free, Fields
    <3>2. proc' = [proc EXCEPT ![p].pc = "wait", ![c] = e]
      BY <1>3, <2>1 DEF Run
    <3> HIDE DEF e
    <3> QED BY <3>1, <3>2
  <2>3. p # c
    BY <1>1, <2>1
  <2>4. Shape'
    BY <2>2, <2>3 DEF Shape, Fields
  <2>5. Starts(p, c)
    BY <1>1, <2>1, <2>2, <2>3 DEF Shape, Fields, Starts, Keeps, AtTty, Alive
  <2> QED BY <2>4, <2>5
<1> QED BY <1>2, <1>3

\* The loop of run() ends only without children.
LEMMA WaitChain ==
  ASSUME Shape, NEW p \in Procs, Wait(p)
  PROVE  Shape' /\ Stays(p)
<1>1. CASE \E q \in Children(p) : proc[q].pc = "zombie" /\ proc' = Waited(p, q)
  <2>1. PICK q \in Procs : proc[q].pc = "zombie" /\ proc' = [proc EXCEPT ![q] = Free]
    BY <1>1 DEF Children, Waited
  <2>2. p # q /\ proc[p].pc = "wait"
    BY <2>1 DEF Wait
  <2>3. Shape'
    BY <2>1 DEF Shape, Free, Fields
  <2> QED BY <2>1, <2>2, <2>3 DEF Shape, Free, Stays, Keeps, AtTty, Alive
<1>2. CASE Children(p) = {} /\ proc' = [proc EXCEPT ![p].pc = "greet"]
  BY <1>2 DEF Wait, Shape, Fields, Stays, Keeps, AtTty, Alive
<1> QED BY <1>1, <1>2 DEF Wait

\* The child that handlePipes() forks is a reader.
LEMMA PipesChain ==
  ASSUME Shape, NEW p \in Procs, HandlePipes(p)
  PROVE  Shape' /\ Stays(p)
<1>1. proc[p].pc = "pipe"
  BY DEF HandlePipes
<1>2. PICK w, r : /\ w.in = proc[p].in /\ w.parent = proc[p].parent /\ w.pc = "writer"
                  /\ DOMAIN w = Fields /\ w = [f \in Fields |-> w[f]]
                  /\ r.pc = "reader" /\ DOMAIN r = Fields /\ r = [f \in Fields |-> r[f]]
                  /\ proc' = IF Slots = {} THEN [proc EXCEPT ![p] = w]
                             ELSE [proc EXCEPT ![p] = w, ![Min(Slots)] = r]
  <2> DEFINE l == proc[p].line
             i == Min({k \in Pipes : Readers(k) \union Writers(k) = {}})
             rest == {l[k].io : k \in 2 .. Len(l)}
             both == {R(i), W(i)}
             w == [proc[p] EXCEPT !.pc = "writer", !.pd = both,
                     !.io = Redirection(l[1].io, IF layout = "head" THEN rest ELSE {})]
             r == [proc[p] EXCEPT !.pc = "reader", !.pd = both, !.parent = p,
                     !.line = Tail(l),
                     !.io = Redirection(l[2].io, IF layout = "tail" THEN {l[1].io} ELSE {})]
  <2>1. proc' = IF Slots = {} THEN [proc EXCEPT ![p] = w]
                ELSE [proc EXCEPT ![p] = w, ![Min(Slots)] = r]
    BY DEF HandlePipes
  <2> HIDE DEF l, both, rest, i
  <2>2. /\ w.in = proc[p].in /\ w.parent = proc[p].parent /\ w.pc = "writer"
        /\ DOMAIN w = Fields /\ w = [f \in Fields |-> w[f]]
    BY DEF Shape, Fields
  <2>3. r.pc = "reader" /\ DOMAIN r = Fields /\ r = [f \in Fields |-> r[f]]
    BY DEF Shape, Fields
  <2> HIDE DEF w, r
  <2> QED BY <2>1, <2>2, <2>3
<1>3. CASE Slots = {}
  BY <1>1, <1>2, <1>3, ChangeStays
<1>4. CASE Slots # {}
  <2>1. PICK c \in Procs : c = Min(Slots) /\ proc[c].pc = "free"
    BY <1>4, SlotIsFree
  <2>2. proc' = [proc EXCEPT ![p] = w, ![c] = r] /\ c # p
    BY <1>1, <1>2, <1>4, <2>1
  <2>4. /\ proc' = [q \in Procs |-> proc'[q]]
        /\ \A q \in Procs : proc'[q] = IF q = c THEN r ELSE IF q = p THEN w ELSE proc[q]
    BY <2>2 DEF Shape
  <2>3. Shape'
    <3>1. ASSUME NEW q \in Procs
          PROVE  DOMAIN proc'[q] = Fields /\ proc'[q] = [f \in Fields |-> proc'[q][f]]
      <4>1. PICK v : v = proc'[q]
        OBVIOUS
      <4>2. DOMAIN v = Fields /\ v = [f \in Fields |-> v[f]]
        <5>1. CASE q = c
          BY <1>2, <2>4, <4>1, <5>1
        <5>2. CASE q # c /\ q = p
          BY <1>2, <2>4, <4>1, <5>2
        <5>3. CASE q # c /\ q # p
          BY <2>4, <4>1, <5>3 DEF Shape
        <5> QED BY <5>1, <5>2, <5>3
      <4> QED BY <4>1, <4>2
    <3> QED BY <2>4, <3>1 DEF Shape
  <2>5. ASSUME NEW q \in Procs \ {p} PROVE Keeps(q)
    <3>1. CASE q = c
      BY <1>2, <2>1, <2>4, <3>1 DEF Keeps, AtTty, Alive
    <3>2. CASE q # c
      BY <2>4, <3>2 DEF Keeps, AtTty, Alive
    <3> QED BY <3>1, <3>2
  <2>6. proc'[p] = w
    BY <2>2, <2>4
  <2> QED BY <1>1, <1>2, <2>3, <2>5, <2>6 DEF Stays, AtTty, Alive
<1> QED BY <1>3, <1>4

\* The reader gives up its parent's input, the writer keeps it.
LEMMA RewireChain ==
  ASSUME Shape, NEW p \in Procs, Rewire(p)
  PROVE  Shape' /\ Stays(p)
<1>1. Shape'
  BY DEF Shape, Rewire, WriterSide, ReaderSide, Fields
<1>2. CASE proc[p].pc = "writer"
  BY <1>2 DEF Shape, Rewire, WriterSide, Fields, Stays, Keeps, AtTty, Alive
<1>3. CASE proc[p].pc = "reader"
  BY <1>3 DEF Shape, Rewire, ReaderSide, Fields, Stays, Keeps, AtTty, Alive, R, Tty
<1> QED BY <1>1, <1>2, <1>3 DEF Rewire

\* handleIO() may take the terminal away from a program, before execve().
LEMMA ExecveChain ==
  ASSUME Shape, LineInv, NEW p \in Procs, Execve(p)
  PROVE  Shape' /\ (Stays(p) \/ Leaves(p))
<1>0. proc[p].pc = "io"
  BY DEF Execve
<1> DEFINE prog == proc[p].line[1].prog
<1>1. PICK h \in HandleIO(proc[p]) :
           proc' = [proc EXCEPT ![p] =
                  [h EXCEPT !.pc = IF prog = "missing" THEN "greet" ELSE prog,
                            !.line = <<>>, !.io = "", !.left = UNITS]]
  BY DEF Execve
<1>2. /\ DOMAIN h = Fields /\ h = [f \in Fields |-> h[f]] /\ h.parent = proc[p].parent
      /\ h.in = proc[p].in \/ h.in # Tty
  BY DEF HandleIO, Shape, Fields, Tty, File, Closed
<1>3. prog \in Programs
  <2>1. proc[p].line \in Seq(Stage) /\ proc[p].line # <<>>
    BY <1>0 DEF LineInv, HasLine
  <2>2. proc[p].line[1] \in Stage
    BY <2>1
  <2> QED BY <2>2 DEF Stage
<1> HIDE DEF prog
<1>4. PICK r : /\ proc' = [proc EXCEPT ![p] = r] /\ DOMAIN r = Fields /\ r = [f \in Fields |-> r[f]]
               /\ r.in = h.in /\ r.parent = h.parent /\ r.pc \in {"greet", "make", "copy", "quit"}
  <2> DEFINE r == [h EXCEPT !.pc = IF prog = "missing" THEN "greet" ELSE prog,
                            !.line = <<>>, !.io = "", !.left = UNITS]
  <2>1. DOMAIN r = Fields /\ r = [f \in Fields |-> r[f]] /\ r.in = h.in /\ r.parent = h.parent
    BY <1>2 DEF Fields
  <2>2. r.pc \in {"greet", "make", "copy", "quit"}
    BY <1>2, <1>3 DEF Fields, Programs
  <2> QED BY <1>1, <2>1, <2>2
<1>5. CASE h.in = proc[p].in
  BY <1>0, <1>2, <1>4, <1>5, ChangeStays
<1>6. CASE h.in # Tty
  <2>1. Shape'
    BY <1>4 DEF Shape
  <2>2. Leaves(p)
    BY <1>0, <1>4, <1>6 DEF Leaves, Shape, AtTty, Alive
  <2> QED BY <2>1, <2>2
<1> QED BY <1>2, <1>5, <1>6

\* The steps that only write, or end.
LEMMA WritersChain ==
  ASSUME Shape, NEW p \in Procs,
         \/ GetInput(p) \/ HasPipe(p) \/ LinuxExe(p) \/ Produce(p) \/ Copy(p) \/ Leave(p)
         \/ Cd(p) \/ Exit(p) \/ EndOfInput(p)
  PROVE  Shape' /\ (Stays(p) \/ Leaves(p))
<1> DEFINE Still(r) == /\ DOMAIN r = Fields /\ r = [f \in Fields |-> r[f]]
                       /\ r.in = proc[p].in /\ r.parent = proc[p].parent
<1>1. CASE GetInput(p)
  <2> DEFINE r == [proc[p] EXCEPT !.pc = "read"]
  <2>1. Still(r) /\ r.pc = "read" /\ proc[p].pc = "greet" /\ WriteFrom(pipe, p, Note, r)
    BY <1>1 DEF GetInput, Write, Shape, Fields
  <2> HIDE DEF r
  <2> QED BY <2>1, WriteChain
<1>0. CASE HasPipe(p)
  <2> DEFINE r == [proc[p] EXCEPT !.pc = "pipe"]
  <2>1. Still(r) /\ r.pc = "pipe" /\ proc[p].pc = "tell" /\ WriteFrom(pipe, p, Note, r)
    BY <1>0 DEF HasPipe, Write, Shape, Fields
  <2> HIDE DEF r
  <2> QED BY <2>1, WriteChain
<1>2. CASE LinuxExe(p)
  <2> DEFINE r == [proc[p] EXCEPT !.pc = "io"]
  <2>1. Still(r) /\ r.pc = "io" /\ proc[p].pc = "exe" /\ WriteFrom(pipe, p, Note, r)
    BY <1>2 DEF LinuxExe, Write, Shape, Fields
  <2> HIDE DEF r
  <2> QED BY <2>1, WriteChain
<1>3. CASE Produce(p) /\ proc[p].left # 0
  <2> DEFINE r == [proc[p] EXCEPT !.left = @ - 1]
             u == [job |-> proc[p].job, n |-> UNITS + 1 - proc[p].left]
  <2>1. WriteFrom(pipe, p, u, r) /\ proc[p].pc \in {"make", "copy"}
    BY <1>3 DEF Produce, Write
  <2>2. Still(r) /\ r.pc = proc[p].pc
    BY DEF Shape, Fields
  <2> HIDE DEF r, u
  <2> QED BY <2>1, <2>2, WriteChain
<1>4. CASE Copy(p) /\ pipe[proc[p].in[1]] # <<>>
  <2> DEFINE i == proc[p].in[1]
  <2>1. WriteFrom([pipe EXCEPT ![i] = Tail(@)], p, Head(pipe[i]), proc[p]) /\ proc[p].pc = "copy"
    BY <1>4 DEF Copy
  <2>2. Still(proc[p])
    BY DEF Shape
  <2> QED BY <2>1, <2>2, WriteChain
<1>5. CASE Cd(p)
  <2> DEFINE r == [proc[p] EXCEPT !.pc = "greet"]
  <2>1. proc' = [proc EXCEPT ![p] = r] /\ proc[p].pc = "read"
    BY <1>5 DEF Cd, Shape
  <2>2. Still(r) /\ r.pc = "greet"
    BY DEF Shape, Fields
  <2> HIDE DEF r
  <2> QED BY <2>1, <2>2, ChangeStays
<1>6. CASE Ends(p) /\ proc[p].pc # "wait"
  BY <1>6, EndsLeaves DEF Ends
<1>7. CASE Exit(p) \/ EndOfInput(p) \/ Leave(p)
  BY <1>6, <1>7 DEF Exit, EndOfInput, Leave
<1>8. CASE Produce(p) /\ proc[p].left = 0
  BY <1>6, <1>8 DEF Produce
<1>9. CASE Copy(p) /\ pipe[proc[p].in[1]] = <<>>
  BY <1>6, <1>9 DEF Copy
<1> QED BY <1>0, <1>1, <1>2, <1>3, <1>4, <1>5, <1>7, <1>8, <1>9

-----------------------------------------------------------------------------
\* A process keeps its line until execve().
LEMMA DeadLines ==
  ASSUME Shape, LineInv, NEW p \in Procs, proc' = Dead(p)
  PROVE  LineInv'
<1> SUFFICES ASSUME NEW q \in Procs PROVE HasLine(q)'
  BY DEF LineInv
<1>1. \/ proc'[q].pc \in {"free", "zombie"}
      \/ proc'[q].pc = proc[q].pc /\ proc'[q].line = proc[q].line
  BY DEF Dead, Free, Shape, Fields
<1> QED BY <1>1 DEF LineInv, HasLine

\* Only the record of p changes, and p has a line where it needs one.
LEMMA ChangeLines ==
  ASSUME Shape, LineInv, NEW p \in Procs, NEW r, proc' = [proc EXCEPT ![p] = r],
         \/ r.pc \notin {"tell", "pipe", "writer", "reader", "exe", "io"}
         \/ r.line \in Seq(Stage) /\ r.line # <<>> /\ (r.pc \in {"tell", "pipe"} => Len(r.line) > 1)
  PROVE  LineInv'
<1> SUFFICES ASSUME NEW q \in Procs PROVE HasLine(q)'
  BY DEF LineInv
<1>1. CASE q = p
  <2>1. proc'[q] = r
    BY <1>1 DEF Shape
  <2> QED BY <2>1 DEF HasLine
<1>2. CASE q # p
  <2>1. proc'[q] = proc[q]
    BY <1>2 DEF Shape
  <2> QED BY <2>1 DEF LineInv, HasLine
<1> QED BY <1>1, <1>2

\* The same after a write.
LEMMA WriteLines ==
  ASSUME Shape, LineInv, NEW p \in Procs, NEW b, NEW u, NEW r, WriteFrom(b, p, u, r),
         \/ r.pc \notin {"tell", "pipe", "writer", "reader", "exe", "io"}
         \/ r.line \in Seq(Stage) /\ r.line # <<>> /\ (r.pc \in {"tell", "pipe"} => Len(r.line) > 1)
  PROVE  LineInv'
<1>1. proc' = Dead(p) \/ proc' = [proc EXCEPT ![p] = r]
  BY DEF WriteFrom
<1> QED BY <1>1, DeadLines, ChangeLines

\* run() hands the whole line to its child.
LEMMA RunLines ==
  ASSUME Shape, LineInv, NEW p \in Procs, NEW l \in Lines, Run(p, l)
  PROVE  LineInv'
<1>1. CASE Slots = {}
  BY <1>1 DEF Run, Shape, Fields, LineInv, HasLine
<1>2. CASE Slots # {}
  <2>1. PICK c \in Procs : c = Min(Slots) /\ proc[c].pc = "free"
    BY <1>2, SlotIsFree
  <2>2. PICK e : /\ e.line = l /\ e.pc = (IF Len(l) > 1 THEN "tell" ELSE "exe")
                 /\ proc' = [proc EXCEPT ![p].pc = "wait", ![c] = e]
    <3> DEFINE e == [Free EXCEPT !.pc = IF Len(l) > 1 THEN "tell" ELSE "exe",
                               !.line = l, !.io = l[1].io, !.in = proc[p].in,
                               !.out = proc[p].out, !.parent = p, !.job = Len(typed) + 1]
    <3>1. e.line = l /\ e.pc = IF Len(l) > 1 THEN "tell" ELSE "exe"
      BY DEF Free, Fields
    <3>2. proc' = [proc EXCEPT ![p].pc = "wait", ![c] = e]
      BY <1>2, <2>1 DEF Run
    <3> HIDE DEF e
    <3> QED BY <3>1, <3>2
  <2>3. l \in Seq(Stage) /\ l # <<>>
    <3>1. l \in Seq(Stage) /\ Len(l) \in 1 .. 4
      BY ShellAssumption, Zenon
    <3> QED BY <3>1
  <2> SUFFICES ASSUME NEW q \in Procs PROVE HasLine(q)'
    BY DEF LineInv
  <2>4. CASE q = c
    <3>1. proc'[q] = e
      BY <2>2, <2>4 DEF Shape
    <3> QED BY <2>2, <2>3, <3>1 DEF HasLine
  <2>5. CASE q # c /\ q = p
    <3>1. proc'[q].pc = "wait"
      BY <2>2, <2>5 DEF Shape, Fields
    <3> QED BY <3>1 DEF HasLine
  <2>6. CASE q # c /\ q # p
    <3>1. proc'[q] = proc[q]
      BY <2>2, <2>6 DEF Shape
    <3> QED BY <3>1 DEF LineInv, HasLine
  <2> QED BY <2>4, <2>5, <2>6
<1> QED BY <1>1, <1>2

\* handlePipes() splits the line in two that are not empty.
LEMMA PipesLines ==
  ASSUME Shape, LineInv, NEW p \in Procs, HandlePipes(p)
  PROVE  LineInv'
<1>1. proc[p].line \in Seq(Stage) /\ Len(proc[p].line) > 1 /\ proc[p].line # <<>>
  BY DEF HandlePipes, LineInv, HasLine
<1>2. PICK w, r : /\ w.line = proc[p].line /\ w.pc = "writer"
                  /\ r.pc = "reader" /\ r.line = Tail(proc[p].line)
                  /\ proc' = IF Slots = {} THEN [proc EXCEPT ![p] = w]
                             ELSE [proc EXCEPT ![p] = w, ![Min(Slots)] = r]
  <2> DEFINE l == proc[p].line
             i == Min({k \in Pipes : Readers(k) \union Writers(k) = {}})
             rest == {l[k].io : k \in 2 .. Len(l)}
             both == {R(i), W(i)}
             w == [proc[p] EXCEPT !.pc = "writer", !.pd = both,
                     !.io = Redirection(l[1].io, IF layout = "head" THEN rest ELSE {})]
             r == [proc[p] EXCEPT !.pc = "reader", !.pd = both, !.parent = p,
                     !.line = Tail(l),
                     !.io = Redirection(l[2].io, IF layout = "tail" THEN {l[1].io} ELSE {})]
  <2>1. proc' = IF Slots = {} THEN [proc EXCEPT ![p] = w]
                ELSE [proc EXCEPT ![p] = w, ![Min(Slots)] = r]
    BY DEF HandlePipes
  <2> HIDE DEF both, rest, i
  <2>2. w.line = proc[p].line /\ w.pc = "writer"
    BY DEF Shape, Fields
  <2>3. r.pc = "reader" /\ r.line = Tail(proc[p].line)
    BY DEF Shape, Fields
  <2> HIDE DEF w, r
  <2> QED BY <2>1, <2>2, <2>3
<1>3. CASE Slots = {}
  BY <1>1, <1>2, <1>3, ChangeLines
<1>4. CASE Slots # {}
  <2>1. PICK c \in Procs : c = Min(Slots)
    BY <1>4, SlotIsFree
  <2>2. proc' = [proc EXCEPT ![p] = w, ![c] = r]
    BY <1>2, <1>4, <2>1
  <2>3. Tail(proc[p].line) \in Seq(Stage) /\ Tail(proc[p].line) # <<>>
    <3>1. PICK l \in Seq(Stage) : l = proc[p].line /\ Len(l) > 1
      BY <1>1
    <3>2. l # <<>> /\ Len(Tail(l)) = Len(l) - 1 /\ Tail(l) \in Seq(Stage)
      BY <3>1
    <3>3. Tail(l) # <<>>
      <4>1. PICK k \in Nat : k = Len(l)
        BY <3>1
      <4>2. k > 1
        BY <3>1, <4>1, Zenon
      <4>3. k - 1 # 0
        BY <4>2
      <4>4. Len(<<>>) = 0
        OBVIOUS
      <4> QED BY <3>2, <4>1, <4>3, <4>4, Zenon
    <3> QED BY <3>1, <3>2, <3>3, Zenon
  <2> SUFFICES ASSUME NEW q \in Procs PROVE HasLine(q)'
    BY DEF LineInv
  <2>4. proc'[q] = IF q = c THEN r ELSE IF q = p THEN w ELSE proc[q]
    BY <2>2 DEF Shape
  <2> QED BY <1>1, <1>2, <2>3, <2>4 DEF LineInv, HasLine
<1> QED BY <1>3, <1>4

\* Every step keeps the lines.
LEMMA StepLines ==
  ASSUME Shape, LineInv, NEW p \in Procs, Step(p) \/ User(p)
  PROVE  LineInv'
<1> DEFINE NoLine(r) == r.pc \notin {"tell", "pipe", "writer", "reader", "exe", "io"}
<1>1. CASE GetInput(p)
  <2> DEFINE r == [proc[p] EXCEPT !.pc = "read"]
  <2>1. NoLine(r) /\ WriteFrom(pipe, p, Note, r)
    BY <1>1 DEF GetInput, Write, Shape, Fields
  <2> HIDE DEF r
  <2> QED BY <2>1, WriteLines
<1>2. CASE Wait(p)
  <2>1. CASE \E q \in Children(p) : proc[q].pc = "zombie" /\ proc' = Waited(p, q)
    <3>1. PICK q \in Procs : proc' = [proc EXCEPT ![q] = Free]
      BY <2>1 DEF Children, Waited
    <3>2. NoLine(Free)
      BY DEF Free
    <3> QED BY <3>1, <3>2, ChangeLines
  <2>2. CASE proc' = [proc EXCEPT ![p].pc = "greet"]
    BY <2>2 DEF Shape, Fields, LineInv, HasLine
  <2> QED BY <1>2, <2>1, <2>2 DEF Wait
<1>3. CASE HandlePipes(p)
  BY <1>3, PipesLines
<1>4. CASE Rewire(p)
  <2> DEFINE r == IF proc[p].pc = "writer" THEN WriterSide(p) ELSE ReaderSide(p)
  <2>1. proc' = [proc EXCEPT ![p] = r]
    BY <1>4 DEF Rewire, Shape
  <2>2. proc[p].line \in Seq(Stage) /\ proc[p].line # <<>>
    BY <1>4 DEF Rewire, LineInv, HasLine
  <2>3. r.line = proc[p].line /\ (r.pc \in {"tell", "pipe"} => Len(proc[p].line) > 1)
    BY DEF WriterSide, ReaderSide, Shape, Fields
  <2> HIDE DEF r
  <2> QED BY <2>1, <2>2, <2>3, ChangeLines
<1>0. CASE HasPipe(p)
  <2> DEFINE r == [proc[p] EXCEPT !.pc = "pipe"]
  <2>1. r.pc = "pipe" /\ r.line = proc[p].line /\ WriteFrom(pipe, p, Note, r)
    BY <1>0 DEF HasPipe, Write, Shape, Fields
  <2>2. proc[p].line \in Seq(Stage) /\ proc[p].line # <<>> /\ Len(proc[p].line) > 1
    BY <1>0 DEF HasPipe, LineInv, HasLine
  <2> HIDE DEF r
  <2> QED BY <2>1, <2>2, WriteLines
<1>5. CASE LinuxExe(p)
  <2> DEFINE r == [proc[p] EXCEPT !.pc = "io"]
  <2>1. r.pc = "io" /\ r.line = proc[p].line /\ WriteFrom(pipe, p, Note, r)
    BY <1>5 DEF LinuxExe, Write, Shape, Fields
  <2>2. proc[p].line \in Seq(Stage) /\ proc[p].line # <<>>
    BY <1>5 DEF LinuxExe, LineInv, HasLine
  <2> HIDE DEF r
  <2> QED BY <2>1, <2>2, WriteLines
<1>6. CASE Execve(p)
  <2> DEFINE prog == proc[p].line[1].prog
  <2>1. PICK h \in HandleIO(proc[p]) :
          proc' = [proc EXCEPT ![p] =
                    [h EXCEPT !.pc = IF prog = "missing" THEN "greet" ELSE prog,
                              !.line = <<>>, !.io = "", !.left = UNITS]]
    BY <1>6 DEF Execve
  <2>2. DOMAIN h = Fields
    BY DEF HandleIO, Shape, Fields
  <2>3. prog \in Programs
    <3>1. proc[p].line \in Seq(Stage) /\ proc[p].line # <<>>
      BY <1>6 DEF Execve, LineInv, HasLine
    <3>2. proc[p].line[1] \in Stage
      BY <3>1
    <3> QED BY <3>2 DEF Stage
  <2> DEFINE r == [h EXCEPT !.pc = IF prog = "missing" THEN "greet" ELSE prog,
                            !.line = <<>>, !.io = "", !.left = UNITS]
  <2> HIDE DEF prog
  <2>4. NoLine(r)
    BY <2>2, <2>3 DEF Fields, Programs
  <2>5. proc' = [proc EXCEPT ![p] = r]
    BY <2>1
  <2> HIDE DEF r
  <2> QED BY <2>4, <2>5, ChangeLines
<1>7. CASE Produce(p) /\ proc[p].left # 0
  <2> DEFINE r == [proc[p] EXCEPT !.left = @ - 1]
             u == [job |-> proc[p].job, n |-> UNITS + 1 - proc[p].left]
  <2>1. WriteFrom(pipe, p, u, r) /\ proc[p].pc \in {"make", "copy"}
    BY <1>7 DEF Produce, Write
  <2>2. NoLine(r)
    BY <2>1 DEF Shape, Fields
  <2> HIDE DEF r, u
  <2> QED BY <2>1, <2>2, WriteLines
<1>8. CASE Copy(p) /\ pipe[proc[p].in[1]] # <<>>
  <2> DEFINE i == proc[p].in[1]
  <2>1. WriteFrom([pipe EXCEPT ![i] = Tail(@)], p, Head(pipe[i]), proc[p]) /\ NoLine(proc[p])
    BY <1>8 DEF Copy
  <2> QED BY <2>1, WriteLines
<1>9. CASE Cd(p)
  BY <1>9 DEF Cd, Shape, Fields, LineInv, HasLine
<1>10. CASE Ends(p)
  BY <1>10, DeadLines DEF Ends
<1>11. CASE \E l \in Lines : Run(p, l)
  BY <1>11, RunLines
<1>12. CASE Exit(p) \/ EndOfInput(p) \/ Leave(p)
  BY <1>10, <1>12 DEF Exit, EndOfInput, Leave
<1>13. CASE Produce(p) /\ proc[p].left = 0
  BY <1>10, <1>13 DEF Produce
<1>14. CASE Copy(p) /\ pipe[proc[p].in[1]] = <<>>
  BY <1>10, <1>14 DEF Copy
<1> QED BY <1>0, <1>1, <1>2, <1>3, <1>4, <1>5, <1>6, <1>7, <1>8, <1>9, <1>11, <1>12, <1>13,
           <1>14 DEF Step, User

\* At the start the first shell is in front of the terminal, alone.
LEMMA ChainInit == Init => ChainInv /\ LineInv
<1> SUFFICES ASSUME Init PROVE ChainInv /\ LineInv
  OBVIOUS
<1>0. Main \in Procs
  <2>1. NPROC \in Nat \ {0}
    BY ShellAssumption
  <2> QED BY <2>1 DEF Main, Procs
<1>1. \A p \in Procs : proc[p].pc = IF p = Main THEN "greet" ELSE "free"
  BY DEF Init, Free
<1>2. proc[Main].in = Tty
  BY <1>0 DEF Init, Free
<1>3. Shape
  BY DEF Init, Free, Shape, Fields
<1> DEFINE s == [k \in 1 .. 1 |-> Main]
<1>4. IsChain(1, s)
  <2>1. \A p \in Procs : AtTty(p) <=> p = Main
    BY <1>0, <1>1, <1>2 DEF AtTty, Alive
  <2>2. 1 \in Nat /\ s \in [1 .. 1 -> Procs] /\ \A k \in 1 .. 1 : s[k] = Main
    BY <1>0
  <2>3. 1 .. 1 - 1 = {} /\ 1 \in 1 .. 1
    OBVIOUS
  <2> HIDE DEF s
  <2> QED BY <2>1, <2>2, <2>3 DEF IsChain
<1>5. LineInv
  BY <1>1 DEF LineInv, HasLine
<1> QED BY <1>3, <1>4, <1>5 DEF ChainInv

\* Every step keeps the chain.
LEMMA ChainStep == ChainInv /\ LineInv /\ [Next]_vars => (ChainInv /\ LineInv)'
<1> SUFFICES ASSUME ChainInv, LineInv, [Next]_vars PROVE (ChainInv /\ LineInv)'
  OBVIOUS
<1>1. ASSUME NEW p \in Procs, Step(p) \/ User(p)
      PROVE  Shape' /\ (Stays(p) \/ Leaves(p) \/ \E c \in Procs : Starts(p, c))
  <2>1. CASE \E l \in Lines : Run(p, l)
    BY <2>1, RunChain DEF ChainInv
  <2>2. CASE Wait(p) \/ HandlePipes(p) \/ Rewire(p) \/ Execve(p)
    BY <2>2, WaitChain, PipesChain, RewireChain, ExecveChain DEF ChainInv
  <2>3. CASE \/ GetInput(p) \/ HasPipe(p) \/ LinuxExe(p) \/ Produce(p) \/ Copy(p) \/ Leave(p)
             \/ Cd(p) \/ Exit(p) \/ EndOfInput(p)
    BY <2>3, WritersChain DEF ChainInv
  <2> QED BY <1>1, <2>1, <2>2, <2>3 DEF Step, User
<1>2. CASE Next
  <2>1. PICK p \in Procs : Step(p) \/ User(p)
    BY <1>2 DEF Next
  <2>2. LineInv'
    BY <2>1, StepLines DEF ChainInv
  <2>3. ChainInv'
    BY <1>1, <2>1, StaysChain, LeavesChain, StartsChain DEF ChainInv
  <2> QED BY <2>2, <2>3
<1>3. CASE UNCHANGED vars
  BY <1>3 DEF vars, ChainInv, LineInv, HasLine, Shape, IsChain, AtTty, Alive
<1> QED BY <1>2, <1>3

\* Whoever reads the terminal is the last of the chain.
LEMMA ChainReads == ChainInv => OneTerminalReader
<1> SUFFICES ASSUME ChainInv PROVE OneTerminalReader
  OBVIOUS
<1>1. PICK n, s : IsChain(n, s)
  BY DEF ChainInv
<1>2. \A p \in TerminalReaders : p = s[n]
  BY <1>1, LastOfChain DEF TerminalReaders, AtTty, Alive
<1>3. TerminalReaders \subseteq {s[n]}
  BY <1>2
<1>4. IsFiniteSet({s[n]}) /\ Cardinality({s[n]}) = 1
  BY FS_Singleton
<1>5. Cardinality(TerminalReaders) <= 1
  BY <1>3, <1>4, FS_Subset
<1> QED BY <1>5 DEF OneTerminalReader

\* kcsh and what it starts never read the terminal at the same time, whatever
\* lines are typed into whichever shell: a shell returns to its prompt only when
\* it has no child left, and it is the parent of whoever is in front of the
\* terminal.
THEOREM OneReader == Spec => []OneTerminalReader
<1>1. Init => ChainInv /\ LineInv
  BY ChainInit
<1>2. ChainInv /\ LineInv /\ [Next]_vars => (ChainInv /\ LineInv)'
  BY ChainStep
<1>3. ChainInv => OneTerminalReader
  BY ChainReads
<1> QED BY <1>1, <1>2, <1>3, PTL DEF Spec

-----------------------------------------------------------------------------
(***************************************************************************)
(* What comes out of a pipeline.                                           *)
(*                                                                         *)
(* PipelineDelivers is not inductive: what the terminal will show depends  *)
(* on what is in the pipes, and on who writes and reads there.  The        *)
(* invariant follows every job's data.  There is a set of pipes into which *)
(* it goes, one process writes it into each of them, and the numbers of    *)
(* units that have gone into each pipe say what is in it, and what its     *)
(* reader has passed on.  The workers of a plain line are a chain to the   *)
(* terminal, and each of them has a writer in front of it until it has got *)
(* everything.  Every process needs such a set, too, since a shell that a  *)
(* failed execve() leaves in a pipeline starts jobs that write there.      *)
(***************************************************************************)

Pre == {"tell", "pipe", "writer", "reader", "exe", "io"}
Shells == {"greet", "read", "wait"}
Gone == {"free", "zombie"}

\* Where a process will write and read: between pipe() and dup() it still has its
\* old descriptors, but does nothing with them.
Outlet(p) == IF proc[p].pc = "writer" THEN W(PipeOf(p)) ELSE proc[p].out
Inlet(p) == IF proc[p].pc = "reader" THEN R(PipeOf(p)) ELSE proc[p].in

\* A sink is a pipe, or 0, the terminal.
Sinks == Pipes \union {0}
Puts(p, x) == Alive(p) /\ Outlet(p) = IF x = 0 THEN Tty ELSE W(x)
Takes(p, i) == Alive(p) /\ Inlet(p) = R(i)

\* The types of a process, when n lines have been typed.  Only the first stage of
\* a line without redirections is a command that does not exist, so that a shell
\* reads the terminal.
ProcType(r, n) ==
  /\ r.in \in {Tty, File, Closed} \union {R(i) : i \in Pipes}
  /\ r.out \in {Tty, File, Closed} \union {W(i) : i \in Pipes}
  /\ IF r.pc \in {"writer", "reader"} THEN \E i \in Pipes : r.pd = {R(i), W(i)} ELSE r.pd = {}
  /\ r.pc \in Gone \union Pre \union Shells \union {"make", "copy", "quit"}
  /\ r.pc \in Gone => r.in = Closed /\ r.out = Closed
  /\ r.job \in 0 .. n /\ r.left \in 0 .. UNITS
  /\ r.pc \notin Gone \union Shells => r.job # 0
  /\ r.pc \in Shells => r.in = Tty
  /\ r.pc \in Pre \union Shells => r.out \in {Tty} \union {W(i) : i \in Pipes}
  /\ r.pc \in Pre => \A k \in DOMAIN r.line : r.line[k].prog = "missing" =>
       /\ k = 1 /\ r.pc # "reader" /\ r.in = Tty /\ r.io = ""
       /\ \A m \in DOMAIN r.line : r.line[m].io = ""

Unit(n) == [job : 0 .. n, n : Nat]
PipeType ==
  /\ typed \in Seq(Lines) /\ Len(typed) <= MaxLines
  /\ pipe \in [Pipes -> Seq(Unit(Len(typed)))]
  /\ shown \in [1 .. MaxLines -> Seq(Nat)]
  /\ \A j \in Len(typed) + 1 .. MaxLines : shown[j] = <<>>
TypeInv == PipeType /\ \A p \in Procs : ProcType(proc[p], Len(typed))

\* The units of job j in s are those after lo up to hi, in order.
InOrder(s, j, lo, hi) ==
  /\ \A a \in DOMAIN s : s[a].job = j => s[a].n \in lo + 1 .. hi
  /\ \A n \in lo + 1 .. hi : \E a \in DOMAIN s : s[a] = [job |-> j, n |-> n]
  /\ \A a, b \in DOMAIN s : a < b /\ s[a].job = j /\ s[b].job = j => s[a].n < s[b].n

NoneOf(s, j) == \A a \in DOMAIN s : s[a].job # j

\* Sequence t is s with u behind it.
Adds(t, s, u) ==
  /\ DOMAIN t = 1 .. Len(s) + 1 /\ Len(s) \in Nat /\ DOMAIN s = 1 .. Len(s)
  /\ (\A a \in 1 .. Len(s) : t[a] = s[a]) /\ t[Len(s) + 1] = u

\* Append() adds at the end.
LEMMA AppendAdds ==
  ASSUME NEW U, NEW s \in Seq(U), NEW u \in U
  PROVE  Adds(Append(s, u), s, u)
<1>1. Len(s) \in Nat /\ DOMAIN s = 1 .. Len(s)
  OBVIOUS
<1>2. /\ Append(s, u) \in Seq(U) /\ Len(Append(s, u)) = Len(s) + 1
      /\ \A a \in 1 .. Len(s) : Append(s, u)[a] = s[a]
      /\ Append(s, u)[Len(s) + 1] = u
  OBVIOUS
<1> QED BY <1>1, <1>2 DEF Adds

\* A unit of another job at the end of a sequence.
LEMMA OrderOther ==
  ASSUME NEW m, NEW s \in Seq(Unit(m)), NEW u \in Unit(m), NEW j, u.job # j
  PROVE  /\ NoneOf(s, j) => NoneOf(Append(s, u), j)
         /\ \A lo, hi \in Nat : InOrder(s, j, lo, hi) => InOrder(Append(s, u), j, lo, hi)
<1>1. PICK t : t = Append(s, u) /\ Adds(t, s, u)
  BY AppendAdds
<1> USE DEF Adds
<1>2. \A a \in DOMAIN t : t[a].job = j => a \in DOMAIN s /\ t[a] = s[a]
  BY <1>1
<1>3. \A a \in DOMAIN s : a \in DOMAIN t /\ t[a] = s[a]
  BY <1>1
<1>4. NoneOf(s, j) => NoneOf(t, j)
  BY <1>2 DEF NoneOf
<1>5. ASSUME NEW lo \in Nat, NEW hi \in Nat, InOrder(s, j, lo, hi) PROVE InOrder(t, j, lo, hi)
  BY <1>2, <1>3, <1>5 DEF InOrder
<1> QED BY <1>1, <1>4, <1>5

\* The next unit of the job at the end.
LEMMA OrderNext ==
  ASSUME NEW m, NEW s \in Seq(Unit(m)), NEW j \in 0 .. m, NEW lo \in Nat, NEW hi \in Nat, lo <= hi,
         InOrder(s, j, lo, hi)
  PROVE  InOrder(Append(s, [job |-> j, n |-> hi + 1]), j, lo, hi + 1)
<1>0. /\ [job |-> j, n |-> hi + 1] \in Unit(m)
      /\ [job |-> j, n |-> hi + 1].job = j /\ [job |-> j, n |-> hi + 1].n = hi + 1
  BY DEF Unit
<1>1. PICK u \in Unit(m) : u = [job |-> j, n |-> hi + 1] /\ u.job = j /\ u.n = hi + 1
  BY <1>0
<1>2. PICK t : t = Append(s, u) /\ Adds(t, s, u)
  BY <1>1, AppendAdds
<1> USE DEF Adds
<1>3. ASSUME NEW a \in DOMAIN t, t[a].job = j PROVE t[a].n \in lo + 1 .. hi + 1
  <2>1. CASE a = Len(s) + 1
    BY <1>1, <1>2, <2>1
  <2>2. CASE a # Len(s) + 1
    <3>1. a \in DOMAIN s /\ t[a] = s[a]
      BY <1>2, <2>2
    <3>2. s[a].n \in lo + 1 .. hi
      BY <1>3, <3>1 DEF InOrder
    <3> QED BY <3>1, <3>2
  <2> QED BY <2>1, <2>2
<1>4. ASSUME NEW n \in lo + 1 .. hi + 1 PROVE \E a \in DOMAIN t : t[a] = [job |-> j, n |-> n]
  <2>1. CASE n = hi + 1
    BY <1>1, <1>2, <2>1
  <2>2. CASE n # hi + 1
    <3>1. n \in lo + 1 .. hi
      BY <2>2
    <3>2. PICK a \in DOMAIN s : s[a] = [job |-> j, n |-> n]
      BY <3>1 DEF InOrder
    <3>3. a \in DOMAIN t /\ t[a] = s[a]
      BY <1>2
    <3> QED BY <3>2, <3>3
  <2> QED BY <2>1, <2>2
<1>5. ASSUME NEW a \in DOMAIN t, NEW b \in DOMAIN t, a < b, t[a].job = j, t[b].job = j
      PROVE  t[a].n < t[b].n
  <2>1. a \in DOMAIN s /\ t[a] = s[a] /\ s[a].n \in lo + 1 .. hi
    <3>1. a \in DOMAIN s /\ t[a] = s[a]
      BY <1>2, <1>5
    <3> QED BY <1>5, <3>1 DEF InOrder
  <2>2. CASE b = Len(s) + 1
    BY <1>1, <1>2, <2>1, <2>2
  <2>3. CASE b # Len(s) + 1
    <3>1. b \in DOMAIN s /\ t[b] = s[b]
      BY <1>2, <2>3
    <3> QED BY <1>5, <2>1, <3>1 DEF InOrder
  <2> QED BY <2>2, <2>3
<1>6. InOrder(t, j, lo, hi + 1)
  BY <1>3, <1>4, <1>5 DEF InOrder
<1> QED BY <1>1, <1>2, <1>6

\* What is left of a sequence when its first unit is taken.
LEMMA TailIs ==
  ASSUME NEW U, NEW s \in Seq(U), s # <<>>
  PROVE  \E t \in Seq(U) :
           /\ t = Tail(s) /\ Head(s) = s[1] /\ Head(s) \in U /\ 1 \in DOMAIN s
           /\ \A a \in DOMAIN t : a + 1 \in DOMAIN s /\ t[a] = s[a + 1] /\ a \in Nat /\ a >= 1
           /\ \A a \in DOMAIN s : a # 1 => a - 1 \in DOMAIN t /\ t[a - 1] = s[a]
<1>1. Len(s) \in Nat /\ Len(s) # 0 /\ DOMAIN s = 1 .. Len(s)
  OBVIOUS
<1>2. /\ Tail(s) \in Seq(U) /\ Len(Tail(s)) = Len(s) - 1 /\ Head(s) = s[1]
      /\ \A a \in 1 .. Len(s) - 1 : Tail(s)[a] = s[a + 1]
  OBVIOUS
<1>3. DOMAIN Tail(s) = 1 .. Len(s) - 1
  BY <1>2
<1>4. 1 \in DOMAIN s /\ Head(s) \in U
  BY <1>1, <1>2
<1>5. ASSUME NEW a \in DOMAIN Tail(s)
      PROVE  a + 1 \in DOMAIN s /\ Tail(s)[a] = s[a + 1] /\ a \in Nat /\ a >= 1
  BY <1>1, <1>2, <1>3
<1>6. ASSUME NEW a \in DOMAIN s, a # 1
      PROVE  a - 1 \in DOMAIN Tail(s) /\ Tail(s)[a - 1] = s[a]
  <2>1. a - 1 \in 1 .. Len(s) - 1 /\ (a - 1) + 1 = a
    BY <1>1, <1>6
  <2>2. Tail(s)[a - 1] = s[(a - 1) + 1]
    BY <1>2, <2>1
  <2> QED BY <1>3, <2>1, <2>2
<1> QED BY <1>2, <1>4, <1>5, <1>6

\* The first unit is of another job.
LEMMA TailOther ==
  ASSUME NEW m, NEW s \in Seq(Unit(m)), s # <<>>, NEW j, Head(s).job # j
  PROVE  /\ NoneOf(s, j) => NoneOf(Tail(s), j)
         /\ \A lo, hi \in Nat : InOrder(s, j, lo, hi) => InOrder(Tail(s), j, lo, hi)
<1>1. PICK t \in Seq(Unit(m)) :
           /\ t = Tail(s) /\ Head(s) = s[1] /\ Head(s) \in Unit(m) /\ 1 \in DOMAIN s
           /\ \A a \in DOMAIN t : a + 1 \in DOMAIN s /\ t[a] = s[a + 1] /\ a \in Nat /\ a >= 1
           /\ \A a \in DOMAIN s : a # 1 => a - 1 \in DOMAIN t /\ t[a - 1] = s[a]
  BY TailIs
<1>2. NoneOf(s, j) => NoneOf(t, j)
  BY <1>1 DEF NoneOf
<1>3. ASSUME NEW lo \in Nat, NEW hi \in Nat, InOrder(s, j, lo, hi) PROVE InOrder(t, j, lo, hi)
  <2>1. \A a \in DOMAIN t : t[a].job = j => t[a].n \in lo + 1 .. hi
    BY <1>1, <1>3 DEF InOrder
  <2>2. ASSUME NEW n \in lo + 1 .. hi PROVE \E a \in DOMAIN t : t[a] = [job |-> j, n |-> n]
    <3>1. PICK a \in DOMAIN s : s[a] = [job |-> j, n |-> n]
      BY <1>3 DEF InOrder
    <3>2. s[a].job = j
      BY <3>1
    <3>3. CASE a = 1
      BY <1>1, <3>2, <3>3
    <3>4. CASE a # 1
      <4>1. a - 1 \in DOMAIN t /\ t[a - 1] = s[a]
        BY <1>1, <3>4
      <4> QED BY <3>1, <4>1
    <3> QED BY <3>3, <3>4
  <2>3. ASSUME NEW a \in DOMAIN t, NEW b \in DOMAIN t, a < b, t[a].job = j, t[b].job = j
        PROVE  t[a].n < t[b].n
    <3>1. /\ a + 1 \in DOMAIN s /\ b + 1 \in DOMAIN s /\ t[a] = s[a + 1] /\ t[b] = s[b + 1]
          /\ a + 1 < b + 1
      BY <1>1, <2>3
    <3> QED BY <1>3, <2>3, <3>1 DEF InOrder
  <2> QED BY <2>1, <2>2, <2>3 DEF InOrder
<1> QED BY <1>1, <1>2, <1>3

\* The first unit is of the job: it is the next one.
LEMMA TailNext ==
  ASSUME NEW m, NEW s \in Seq(Unit(m)), s # <<>>, NEW j, Head(s).job = j,
         NEW lo \in Nat, NEW hi \in Nat, InOrder(s, j, lo, hi)
  PROVE  /\ Head(s) = [job |-> j, n |-> lo + 1] /\ lo + 1 <= hi
         /\ InOrder(Tail(s), j, lo + 1, hi)
<1>0. PICK U : U = Unit(m) /\ s \in Seq(U) /\ s # <<>>
  OBVIOUS
<1>1. PICK t \in Seq(U) :
           /\ t = Tail(s) /\ Head(s) = s[1] /\ Head(s) \in U /\ 1 \in DOMAIN s
           /\ \A a \in DOMAIN t : a + 1 \in DOMAIN s /\ t[a] = s[a + 1] /\ a \in Nat /\ a >= 1
           /\ \A a \in DOMAIN s : a # 1 => a - 1 \in DOMAIN t /\ t[a - 1] = s[a]
  BY <1>0, TailIs
<1>2. s[1].job = j /\ s[1].n \in lo + 1 .. hi
  BY <1>1 DEF InOrder
<1>3. lo + 1 <= hi /\ lo + 1 \in lo + 1 .. hi
  BY <1>2
<1>d. DOMAIN s = 1 .. Len(s) /\ Len(s) \in Nat
  OBVIOUS
<1>4. s[1].n = lo + 1
  <2>1. PICK a \in DOMAIN s : s[a] = [job |-> j, n |-> lo + 1]
    BY <1>3 DEF InOrder
  <2>2. s[a].job = j /\ s[a].n = lo + 1
    BY <2>1
  <2>3. CASE a = 1
    BY <2>2, <2>3
  <2>4. CASE a # 1
    <3>1. 1 < a
      BY <1>d, <2>4
    <3>2. s[1].n < s[a].n
      BY <1>1, <1>2, <2>2, <3>1 DEF InOrder
    <3> QED BY <1>2, <2>2, <3>2
  <2> QED BY <2>3, <2>4
<1>5. Head(s) = [job |-> j, n |-> lo + 1]
  <2>1. PICK u \in Unit(m) : u = Head(s)
    BY <1>0, <1>1
  <2>2. u = [job |-> u.job, n |-> u.n]
    BY DEF Unit
  <2> QED BY <1>1, <1>4, <2>1, <2>2
<1>6. \A a \in DOMAIN t : t[a].job = j => t[a].n \in lo + 2 .. hi
  <2> SUFFICES ASSUME NEW a \in DOMAIN t, t[a].job = j PROVE t[a].n \in lo + 2 .. hi
    OBVIOUS
  <2>1. a + 1 \in DOMAIN s /\ t[a] = s[a + 1] /\ 1 < a + 1
    BY <1>1
  <2>2. s[a + 1].n \in lo + 1 .. hi /\ s[1].n < s[a + 1].n
    BY <1>1, <1>2, <2>1 DEF InOrder
  <2> QED BY <1>4, <2>1, <2>2
<1>7. ASSUME NEW n \in lo + 2 .. hi PROVE \E a \in DOMAIN t : t[a] = [job |-> j, n |-> n]
  <2>1. PICK a \in DOMAIN s : s[a] = [job |-> j, n |-> n]
    <3>1. n \in lo + 1 .. hi
      OBVIOUS
    <3> QED BY <3>1 DEF InOrder
  <2>2. s[a].n = n /\ n # lo + 1
    BY <2>1
  <2>3. CASE a = 1
    BY <1>4, <2>2, <2>3
  <2>4. CASE a # 1
    <3>1. a - 1 \in DOMAIN t /\ t[a - 1] = s[a]
      BY <1>1, <2>4
    <3> QED BY <2>1, <3>1
  <2> QED BY <2>3, <2>4
<1>8. ASSUME NEW a \in DOMAIN t, NEW b \in DOMAIN t, a < b, t[a].job = j, t[b].job = j
      PROVE  t[a].n < t[b].n
  <2>1. /\ a + 1 \in DOMAIN s /\ b + 1 \in DOMAIN s /\ t[a] = s[a + 1] /\ t[b] = s[b + 1]
        /\ a + 1 < b + 1
    BY <1>1, <1>8
  <2> QED BY <1>8, <2>1 DEF InOrder
<1>9. (lo + 1) + 1 .. hi = lo + 2 .. hi
  OBVIOUS
<1>10. InOrder(t, j, lo + 1, hi)
  BY <1>6, <1>7, <1>8, <1>9 DEF InOrder
<1> QED BY <1>1, <1>3, <1>5, <1>10

\* Who moves data that goes into the pipes X, when the processes in C make it.
Carries(p, C, X) == Alive(p) /\ (p \in C \/ \E i \in X : Takes(p, i))

\* All of it goes into X or to the terminal, each time from one process.
OneWay(C, X) ==
  /\ \A p \in Procs, x \in Pipes : Carries(p, C, X) /\ Puts(p, x) => x \in X
  /\ \A p, q \in Procs, x \in Sinks :
       Carries(p, C, X) /\ Carries(q, C, X) /\ Puts(p, x) /\ Puts(q, x) => p = q

OneTaker == \A i \in Pipes, p, q \in Procs : Takes(p, i) /\ Takes(q, i) => p = q

Workers(j) == {p \in Procs : Alive(p) /\ proc[p].pc \notin Shells /\ proc[p].job = j}
MayCopy(p) == proc[p].pc \in Pre \union {"copy"}
Makes(p) == proc[p].pc = "make" \/ (proc[p].pc = "copy" /\ proc[p].in = File)

\* s[x] units of job j have gone into x.  Those after lo are still there, and the
\* lo that are not are where the reader of the pipe puts them.
Flows(i, j, s) ==
  \E lo \in 0 .. s[i] :
    /\ InOrder(pipe[i], j, lo, s[i])
    /\ \A p \in Procs, x \in Sinks : Takes(p, i) /\ MayCopy(p) /\ Puts(p, x) => lo = s[x]

\* What job j writes goes into the pipes X only, in order and each unit once.
JobInv(j, X, s) ==
  /\ OneWay(Workers(j), X)
  /\ shown[j] = [n \in 1 .. s[0] |-> n]
  /\ \A i \in Pipes \ X : NoneOf(pipe[i], j)
  /\ \A i \in X : Flows(i, j, s)
  /\ \A p \in Procs, x \in Sinks :
       Carries(p, Workers(j), X) /\ proc[p].pc \in Pre /\ Puts(p, x) => s[x] = 0
  /\ \A p \in Workers(j), x \in Sinks : Makes(p) /\ Puts(p, x) => s[x] + proc[p].left = UNITS

\* Somebody writes into x still, or all has been written.
Fed(j, x, s) == (\E w \in Workers(j) : Puts(w, x)) \/ s[x] = UNITS

\* Worker p writes to the terminal, or to a pipe that a worker reads.
Heard(p, j) == \E x \in Sinks : Puts(p, x) /\ (x \in Pipes => \E r \in Workers(j) : Takes(r, x))

\* Program k is what p executes or will execute.
Plays(p, k) == proc[p].pc = k \/ (proc[p].pc \in Pre /\ proc[p].line[1].prog = k)
HasRole(p, j, X, s) ==
  \/ Plays(p, "make") /\ Inlet(p) = Tty
  \/ Plays(p, "copy") /\ \E i \in X : Takes(p, i) /\ Fed(j, i, s)
PlainLine(r) ==
  /\ r.io = ""
  /\ \A m \in DOMAIN r.line : r.line[m].io = "" /\ (m # 1 => r.line[m].prog = "copy")

\* The workers of a plain line are a chain that leads to the terminal.
PlainInv(j, X, s) ==
  /\ Fed(j, 0, s)
  /\ \A p \in Workers(j) :
       Heard(p, j) /\ HasRole(p, j, X, s) /\ (proc[p].pc \in Pre => PlainLine(proc[p]))

Streams(D, P, S) ==
  /\ D \in [Procs -> SUBSET Pipes]
  /\ P \in [1 .. MaxLines -> SUBSET Pipes]
  /\ S \in [1 .. MaxLines -> [Sinks -> 0 .. UNITS]]
  /\ \A p \in Procs : Alive(p) => OneWay({p}, D[p])
  /\ \A j \in 1 .. Len(typed) : JobInv(j, P[j], S[j])
  /\ \A j \in 1 .. Len(typed) : IsPlain(typed[j]) /\ j \notin excused => PlainInv(j, P[j], S[j])

DeliverInv == TypeInv /\ OneTaker /\ \E D, P, S : Streams(D, P, S)

-----------------------------------------------------------------------------
\* Descriptors.
LEMMA Descriptors ==
  /\ \A i, k : R(i) # W(k) /\ (R(i) = R(k) => i = k) /\ (W(i) = W(k) => i = k)
  /\ \A i : R(i) # Tty /\ R(i) # File /\ R(i) # Closed
  /\ \A i : W(i) # Tty /\ W(i) # File /\ W(i) # Closed
  /\ \A i : R(i)[1] = i /\ W(i)[1] = i
  /\ Tty # File /\ Tty # Closed /\ File # Closed
  /\ Tty[1] = 0 /\ File[1] = 0 /\ Closed[1] = 0
  /\ 0 \notin Pipes /\ Pipes \subseteq Nat /\ Pipes \subseteq Sinks /\ 0 \in Sinks
<1>0. NPROC \in Nat
  BY ShellAssumption
<1>1. 3 * NPROC \in Nat
  BY <1>0
<1>2. 0 \notin Pipes /\ Pipes \subseteq Nat /\ Pipes \subseteq Sinks /\ 0 \in Sinks
  BY <1>1 DEF Pipes, Sinks
<1> QED BY <1>2 DEF R, W, Tty, File, Closed

\* The pipe a process has just made.
LEMMA PipeOfIs ==
  ASSUME NEW p, NEW i, proc[p].pd = {R(i), W(i)}
  PROVE  PipeOf(p) = i
<1>1. R(i) \in proc[p].pd
  OBVIOUS
<1>2. (CHOOSE e \in proc[p].pd : TRUE) \in proc[p].pd
  BY <1>1
<1> QED BY <1>2, Descriptors DEF PipeOf

\* Where a living process puts its output.
LEMMA OutletIs ==
  ASSUME TypeInv, NEW p \in Procs
  PROVE  /\ Outlet(p) \in {Tty, File, Closed} \union {W(i) : i \in Pipes}
         /\ proc[p].pc \in Pre \union Shells =>
              \E x \in Sinks : Outlet(p) = IF x = 0 THEN Tty ELSE W(x)
<1>1. CASE proc[p].pc = "writer"
  <2>1. PICK i \in Pipes : proc[p].pd = {R(i), W(i)}
    BY <1>1 DEF TypeInv, ProcType
  <2>2. PipeOf(p) = i
    BY <2>1, PipeOfIs
  <2>3. i # 0 /\ i \in Sinks
    BY Descriptors
  <2> QED BY <1>1, <2>2, <2>3 DEF Outlet
<1>2. CASE proc[p].pc # "writer"
  <2>1. Outlet(p) = proc[p].out
    BY <1>2 DEF Outlet
  <2>2. proc[p].out \in {Tty, File, Closed} \union {W(i) : i \in Pipes}
    BY DEF TypeInv, ProcType
  <2>3. ASSUME proc[p].pc \in Pre \union Shells
        PROVE  \E x \in Sinks : proc[p].out = IF x = 0 THEN Tty ELSE W(x)
    <3>1. proc[p].out = Tty \/ \E i \in Pipes : proc[p].out = W(i)
      BY <2>3 DEF TypeInv, ProcType
    <3> QED BY <3>1, Descriptors
  <2> QED BY <2>1, <2>2, <2>3
<1> QED BY <1>1, <1>2

\* A process writes into one sink, and reads from one pipe.
LEMMA PutsOne ==
  ASSUME NEW p, NEW x \in Sinks, NEW y \in Sinks, Puts(p, x), Puts(p, y)
  PROVE  x = y
  BY Descriptors DEF Puts

\* A process reads from one pipe.
LEMMA TakesOne ==
  ASSUME NEW p, NEW x, NEW y, Takes(p, x), Takes(p, y)
  PROVE  x = y
  BY Descriptors DEF Takes

\* Who writes into a pipe or reads from it holds it.
LEMMA PutsHolds ==
  ASSUME TypeInv, NEW p \in Procs, NEW i \in Pipes, Puts(p, i)
  PROVE  p \in Writers(i)
<1>1. Outlet(p) = W(i)
  BY Descriptors DEF Puts
<1>2. CASE proc[p].pc = "writer"
  <2>1. PICK k \in Pipes : proc[p].pd = {R(k), W(k)}
    BY <1>2 DEF TypeInv, ProcType
  <2>2. PipeOf(p) = k
    BY <2>1, PipeOfIs
  <2>3. k = i
    BY <1>1, <1>2, <2>2, Descriptors DEF Outlet
  <2> QED BY <2>1, <2>3 DEF Writers, Holds
<1>3. CASE proc[p].pc # "writer"
  BY <1>1, <1>3 DEF Outlet, Writers, Holds
<1> QED BY <1>2, <1>3

\* Who reads from a pipe holds it.
LEMMA TakesHolds ==
  ASSUME TypeInv, NEW p \in Procs, NEW i \in Pipes, Takes(p, i)
  PROVE  p \in Readers(i)
<1>1. Inlet(p) = R(i)
  BY DEF Takes
<1>2. CASE proc[p].pc = "reader"
  <2>1. PICK k \in Pipes : proc[p].pd = {R(k), W(k)}
    BY <1>2 DEF TypeInv, ProcType
  <2>2. PipeOf(p) = k
    BY <2>1, PipeOfIs
  <2>3. k = i
    BY <1>1, <1>2, <2>2, Descriptors DEF Inlet
  <2> QED BY <2>1, <2>3 DEF Readers, Holds
<1>3. CASE proc[p].pc # "reader"
  BY <1>1, <1>3 DEF Inlet, Readers, Holds
<1> QED BY <1>2, <1>3

-----------------------------------------------------------------------------
(***************************************************************************)
(* Steps in which nobody writes or reads anywhere new.                     *)
(***************************************************************************)

\* Only the parent of q may change.
SameView(q) ==
  /\ Alive(q)' <=> Alive(q)
  /\ Alive(q) => \A f \in Fields \ {"parent"} : proc'[q][f] = proc[q][f]

Narrow(q) ==
  /\ Alive(q)' => Alive(q) /\ proc'[q].job = proc[q].job
  /\ \A x \in Sinks : Puts(q, x)' => Puts(q, x)
  /\ \A i \in Pipes : Takes(q, i)' => Takes(q, i)
  /\ Alive(q)' => /\ MayCopy(q)' => MayCopy(q)
                  /\ proc'[q].pc \in Pre => proc[q].pc \in Pre
                  /\ proc[q].pc \in Shells => proc'[q].pc \in Shells

\* A process that makes data of job j has as much left as before, or all.
Steady(q, j) ==
  q \in Workers(j)' /\ Makes(q)' /\ (\E x \in Sinks : Puts(q, x)') =>
    \/ Makes(q) /\ proc'[q].left = proc[q].left
    \/ proc[q].pc \in Pre /\ proc'[q].left = UNITS

\* Seen the same, the fields are the same.
LEMMA SameFields ==
  ASSUME NEW q, SameView(q), Alive(q)
  PROVE  /\ proc'[q].pc = proc[q].pc /\ proc'[q].in = proc[q].in /\ proc'[q].out = proc[q].out
         /\ proc'[q].pd = proc[q].pd /\ proc'[q].job = proc[q].job
         /\ proc'[q].left = proc[q].left /\ proc'[q].line = proc[q].line
         /\ proc'[q].io = proc[q].io
  BY DEF SameView, Fields

\* And so are the ends.
LEMMA SameEnds ==
  ASSUME NEW q, SameView(q)
  PROVE  /\ \A x : Puts(q, x)' <=> Puts(q, x)
         /\ \A i : Takes(q, i)' <=> Takes(q, i)
         /\ Alive(q) => Inlet(q)' = Inlet(q)
<1>1. CASE ~Alive(q)
  BY <1>1 DEF SameView, Puts, Takes
<1>2. CASE Alive(q)
  <2>1. Alive(q)'
    BY <1>2 DEF SameView
  <2>2. PipeOf(q)' = PipeOf(q)
    BY <1>2, SameFields DEF PipeOf
  <2>3. Outlet(q)' = Outlet(q) /\ Inlet(q)' = Inlet(q)
    BY <1>2, <2>2, SameFields DEF Outlet, Inlet
  <2> QED BY <1>2, <2>1, <2>3 DEF Puts, Takes
<1> QED BY <1>1, <1>2

\* So it writes and reads nowhere new.
LEMMA SameNarrow ==
  ASSUME NEW q, SameView(q)
  PROVE  Narrow(q) /\ \A j : Steady(q, j)
<1>1. Alive(q)' => Alive(q)
  BY DEF SameView
<1>2. CASE ~Alive(q)
  BY <1>1, <1>2 DEF Narrow, Steady, Puts, Takes, Workers
<1>3. CASE Alive(q)
  BY <1>1, <1>3, SameFields, SameEnds DEF Narrow, Steady, MayCopy, Makes
<1> QED BY <1>2, <1>3

\* Process q has nothing to do with job j.
Idle(q, j) == q \notin Workers(j)' /\ \A i \in Pipes : ~Takes(q, i)'

\* Nobody joins the job.
LEMMA NarrowWorkers ==
  ASSUME NEW j, \A q \in Procs : Narrow(q) \/ Idle(q, j)
  PROVE  \A q \in Procs : q \in Workers(j)' => q \in Workers(j)
  BY DEF Narrow, Idle, Workers

\* Nobody begins to carry its data.
LEMMA NarrowCarries ==
  ASSUME NEW j, \A q \in Procs : Narrow(q) \/ Idle(q, j), NEW X \in SUBSET Pipes,
         NEW q \in Procs, Carries(q, Workers(j), X)'
  PROVE  Narrow(q) /\ Carries(q, Workers(j), X)
<1>1. Alive(q)' /\ (q \in Workers(j)' \/ \E i \in X : Takes(q, i)')
  BY DEF Carries
<1>2. Narrow(q)
  BY <1>1 DEF Idle
<1>3. Alive(q) /\ \A i \in X : Takes(q, i)' => Takes(q, i)
  BY <1>1, <1>2 DEF Narrow
<1> QED BY <1>1, <1>2, <1>3, NarrowWorkers DEF Carries

\* The paths stay.
LEMMA NarrowWay ==
  ASSUME NEW j, \A q \in Procs : Narrow(q) \/ Idle(q, j), NEW X \in SUBSET Pipes,
         OneWay(Workers(j), X)
  PROVE  OneWay(Workers(j), X)'
<1>1. \A q \in Procs : Carries(q, Workers(j), X)' => Narrow(q) /\ Carries(q, Workers(j), X)
  BY NarrowCarries
<1>2. \A q \in Procs, x \in Sinks : Narrow(q) /\ Puts(q, x)' => Puts(q, x)
  BY DEF Narrow
<1>3. Pipes \subseteq Sinks
  BY Descriptors
<1> QED BY <1>1, <1>2, <1>3 DEF OneWay

\* The same for what a single process writes.
LEMMA NarrowOne ==
  ASSUME NEW p \in Procs, NEW j, Narrow(p), \A q \in Procs : Narrow(q) \/ Idle(q, j),
         NEW X \in SUBSET Pipes, Alive(p) => OneWay({p}, X)
  PROVE  Alive(p)' => OneWay({p}, X)'
<1>1. \A q \in Procs : Carries(q, {p}, X)' => Narrow(q) /\ Carries(q, {p}, X)
  BY DEF Carries, Narrow, Idle
<1>2. \A q \in Procs, x \in Sinks : Narrow(q) /\ Puts(q, x)' => Puts(q, x)
  BY DEF Narrow
<1>3. Pipes \subseteq Sinks /\ (Alive(p)' => Alive(p))
  BY Descriptors DEF Narrow
<1> QED BY <1>1, <1>2, <1>3 DEF OneWay

\* A pipe has one reader still.
LEMMA NarrowTaker ==
  ASSUME NEW j, \A q \in Procs : Narrow(q) \/ Idle(q, j), OneTaker
  PROVE  OneTaker'
<1>1. \A q \in Procs, i \in Pipes : Takes(q, i)' => Takes(q, i)
  BY DEF Narrow, Idle
<1> QED BY <1>1 DEF OneTaker

\* What is of job j in pipe i stays there.
KeepsPipe(i, j) ==
  /\ NoneOf(pipe[i], j) => NoneOf(pipe'[i], j)
  /\ \A lo, hi \in Nat : InOrder(pipe[i], j, lo, hi) => InOrder(pipe'[i], j, lo, hi)

\* Or its first unit is taken and lost, since its reader writes nowhere.
LosesOne(i, j) ==
  /\ NoneOf(pipe[i], j) => NoneOf(pipe'[i], j)
  /\ \A lo, hi \in Nat : InOrder(pipe[i], j, lo, hi) /\ lo <= hi =>
       \E k \in 0 .. hi : InOrder(pipe'[i], j, k, hi)
  /\ \A q \in Procs, x \in Sinks : ~(Takes(q, i)' /\ MayCopy(q)' /\ Puts(q, x)')

\* What is in a pipe stays in order.
LEMMA NarrowFlows ==
  ASSUME NEW j, \A q \in Procs : Narrow(q) \/ Idle(q, j), NEW i \in Pipes,
         NEW s, s \in [Sinks -> 0 .. UNITS], Flows(i, j, s), KeepsPipe(i, j) \/ LosesOne(i, j)
  PROVE  Flows(i, j, s)'
<1>1. PICK lo \in 0 .. s[i] :
        /\ InOrder(pipe[i], j, lo, s[i])
        /\ \A p \in Procs, x \in Sinks : Takes(p, i) /\ MayCopy(p) /\ Puts(p, x) => lo = s[x]
  BY DEF Flows
<1>u. UNITS \in Nat /\ i \in Sinks
  BY Descriptors, ShellAssumption
<1>2. s[i] \in Nat /\ lo \in Nat /\ lo <= s[i]
  BY <1>u
<1>3. CASE KeepsPipe(i, j)
  <2>1. InOrder(pipe'[i], j, lo, s[i])
    BY <1>1, <1>2, <1>3 DEF KeepsPipe
  <2>2. ASSUME NEW p \in Procs, NEW x \in Sinks, Takes(p, i)', MayCopy(p)', Puts(p, x)'
        PROVE  lo = s[x]
    <3>1. Alive(p)'
      BY <2>2 DEF Takes
    <3>2. Takes(p, i) /\ MayCopy(p) /\ Puts(p, x)
      BY <2>2, <3>1 DEF Narrow, Idle
    <3> QED BY <1>1, <3>2
  <2> QED BY <2>1, <2>2 DEF Flows
<1>4. CASE LosesOne(i, j)
  <2>1. PICK k \in 0 .. s[i] : InOrder(pipe'[i], j, k, s[i])
    BY <1>1, <1>2, <1>4 DEF LosesOne
  <2> QED BY <1>4, <2>1 DEF Flows, LosesOne
<1> QED BY <1>3, <1>4

\* So all of the job's data stays in order.
LEMMA NarrowJob ==
  ASSUME NEW j, \A q \in Procs : Narrow(q) \/ Idle(q, j), \A q \in Procs : Steady(q, j),
         \A i \in Pipes : KeepsPipe(i, j) \/ LosesOne(i, j), shown'[j] = shown[j],
         NEW X \in SUBSET Pipes, NEW s, s \in [Sinks -> 0 .. UNITS], JobInv(j, X, s)
  PROVE  JobInv(j, X, s)'
<1>1. OneWay(Workers(j), X)'
  BY NarrowWay DEF JobInv
<1>2. (shown[j] = [n \in 1 .. s[0] |-> n])'
  BY DEF JobInv
<1>3. \A i \in Pipes \ X : NoneOf(pipe'[i], j)
  BY DEF JobInv, KeepsPipe, LosesOne
<1>4. \A i \in X : Flows(i, j, s)'
  BY NarrowFlows DEF JobInv
<1>5. ASSUME NEW p \in Procs, NEW x \in Sinks, Carries(p, Workers(j), X)', proc'[p].pc \in Pre,
             Puts(p, x)'
      PROVE  s[x] = 0
  <2>1. Narrow(p) /\ Carries(p, Workers(j), X)
    BY <1>5, NarrowCarries
  <2>2. proc[p].pc \in Pre /\ Puts(p, x)
    BY <1>5, <2>1 DEF Narrow, Puts
  <2> QED BY <2>1, <2>2 DEF JobInv
<1>6. ASSUME NEW p \in Workers(j)', NEW x \in Sinks, Makes(p)', Puts(p, x)'
      PROVE  s[x] + proc'[p].left = UNITS
  <2>1. p \in Procs /\ p \in Workers(j)
    BY NarrowWorkers DEF Workers
  <2>2. Puts(p, x)
    BY <1>6, <2>1 DEF Narrow, Idle
  <2>3. CASE Makes(p) /\ proc'[p].left = proc[p].left
    BY <2>1, <2>2, <2>3 DEF JobInv
  <2>4. CASE proc[p].pc \in Pre /\ proc'[p].left = UNITS
    <3>1. Carries(p, Workers(j), X)
      BY <2>1 DEF Carries, Workers
    <3>2. s[x] = 0
      BY <2>1, <2>2, <2>4, <3>1 DEF JobInv
    <3>3. UNITS \in Nat
      BY ShellAssumption
    <3> QED BY <2>4, <3>2, <3>3
  <2> QED BY <1>6, <2>1, <2>3, <2>4 DEF Steady
<1> QED BY <1>1, <1>2, <1>3, <1>4, <1>5, <1>6 DEF JobInv

-----------------------------------------------------------------------------
(***************************************************************************)
(* A unit of job j goes into x.                                            *)
(***************************************************************************)

\* One unit more behind the first ones.
LEMMA CountNext ==
  ASSUME NEW k \in Nat
  PROVE  Append([n \in 1 .. k |-> n], k + 1) = [n \in 1 .. k + 1 |-> n]
<1> DEFINE c == [n \in 1 .. k |-> n]
           d == [n \in 1 .. k + 1 |-> n]
<1>1. c \in Seq(Nat) /\ Len(c) = k /\ d \in Seq(Nat) /\ Len(d) = k + 1
  OBVIOUS
<1>2. \A n \in 1 .. k : c[n] = n
  OBVIOUS
<1>3. \A n \in 1 .. k + 1 : d[n] = n
  OBVIOUS
<1> HIDE DEF c, d
<1>4. Append(c, k + 1) \in Seq(Nat) /\ Len(Append(c, k + 1)) = k + 1
  BY <1>1
<1>5. \A n \in 1 .. k + 1 : Append(c, k + 1)[n] = d[n]
  BY <1>1, <1>2, <1>3
<1>6. Append(c, k + 1) = d
  BY <1>1, <1>4, <1>5
<1> QED BY <1>6 DEF c, d

\* Without units of the job, none is in order.
LEMMA NoneInOrder ==
  ASSUME NEW s, NEW j, NoneOf(s, j)
  PROVE  InOrder(s, j, 0, 0)
  BY DEF NoneOf, InOrder

\* The next unit of job j in pipe i is taken.
TakesNext(p, i, j) ==
  /\ Takes(p, i)
  /\ \A lo, hi \in Nat : InOrder(pipe[i], j, lo, hi) =>
       lo + 1 <= hi /\ InOrder(pipe'[i], j, lo + 1, hi)

\* Process p puts unit k of job j into x.  If it has it from a pipe, this is not x.
Moves(p, x, j, k) ==
  /\ Puts(p, x) /\ proc[p].pc \notin Pre
  /\ x \in Pipes => pipe'[x] = Append(pipe[x], [job |-> j, n |-> k])
  /\ shown'[j] = IF x = 0 THEN Append(shown[j], k) ELSE shown[j]
  /\ \A i \in Pipes \ {x} : KeepsPipe(i, j) \/ TakesNext(p, i, j)
  /\ \A i \in Pipes : Takes(p, i) /\ MayCopy(p) => i # x /\ TakesNext(p, i, j)
  /\ \A q \in Procs \ {p} : Steady(q, j)
  /\ p \in Workers(j)' /\ Makes(p)' =>
       Makes(p) /\ proc[p].left # 0 /\ proc'[p].left = proc[p].left - 1

\* The pipes stay in order when a unit moves.
LEMMA MoveFlows ==
  ASSUME TypeInv, OneTaker, \A q \in Procs : Narrow(q),
         NEW j \in 1 .. Len(typed), NEW X \in SUBSET Pipes, NEW s, s \in [Sinks -> 0 .. UNITS],
         NEW t, t \in [Sinks -> 0 .. UNITS],
         NEW p \in Procs, NEW x \in Sinks, Moves(p, x, j, s[x] + 1),
         t[x] = s[x] + 1, \A y \in Sinks \ {x} : t[y] = s[y],
         Carries(p, Workers(j), X), OneWay(Workers(j), X),
         NEW i \in X, Flows(i, j, s)
  PROVE  Flows(i, j, t)'
<1>1. PICK lo \in 0 .. s[i] :
        /\ InOrder(pipe[i], j, lo, s[i])
        /\ \A q \in Procs, y \in Sinks : Takes(q, i) /\ MayCopy(q) /\ Puts(q, y) => lo = s[y]
  BY DEF Flows
<1>u. UNITS \in Nat /\ i \in Sinks /\ i \in Pipes
  BY Descriptors, ShellAssumption
<1>2. s[i] \in Nat /\ lo \in Nat /\ lo <= s[i] /\ s[x] \in Nat
  BY <1>u
<1>3. ASSUME NEW q \in Procs, NEW y \in Sinks, Takes(q, i)', MayCopy(q)', Puts(q, y)'
      PROVE  /\ Takes(q, i) /\ MayCopy(q) /\ Puts(q, y) /\ lo = s[y]
             /\ q # p => t[y] = s[y]
  <2>1. Alive(q)'
    BY <1>3 DEF Takes
  <2>2. Takes(q, i) /\ MayCopy(q) /\ Puts(q, y)
    BY <1>3, <1>u, <2>1 DEF Narrow
  <2>3. lo = s[y]
    BY <1>1, <2>2
  <2>4. ASSUME q # p PROVE t[y] = s[y]
    <3>1. Carries(q, Workers(j), X)
      BY <2>2 DEF Carries, Takes
    <3>2. Puts(p, x)
      BY DEF Moves
    <3>3. y # x
      BY <2>2, <2>4, <3>1, <3>2 DEF OneWay
    <3> QED BY <3>3
  <2> QED BY <2>2, <2>3, <2>4
<1>4. CASE i = x
  <2>1. pipe[i] \in Seq(Unit(Len(typed))) /\ Len(typed) \in Nat
    BY <1>u DEF TypeInv, PipeType
  <2>2. pipe'[i] = Append(pipe[i], [job |-> j, n |-> s[i] + 1])
    BY <1>4, <1>u DEF Moves
  <2>3. j \in 0 .. Len(typed)
    BY <2>1
  <2>4. InOrder(pipe'[i], j, lo, s[i] + 1)
    BY <1>1, <1>2, <2>1, <2>2, <2>3, OrderNext
  <2>5. t[i] = s[i] + 1 /\ lo \in 0 .. s[i] + 1
    BY <1>2, <1>4
  <2>6. ASSUME NEW q \in Procs, NEW y \in Sinks, Takes(q, i)', MayCopy(q)', Puts(q, y)'
        PROVE  lo = t[y]
    <3>1. Takes(q, i) /\ MayCopy(q) /\ lo = s[y] /\ (q # p => t[y] = s[y])
      BY <1>3, <2>6
    <3>2. q # p
      BY <1>4, <1>u, <3>1 DEF Moves
    <3> QED BY <3>1, <3>2
  <2> QED BY <2>4, <2>5, <2>6 DEF Flows
<1>5. CASE i # x /\ TakesNext(p, i, j)
  <2>1. lo + 1 <= s[i] /\ InOrder(pipe'[i], j, lo + 1, s[i])
    BY <1>1, <1>2, <1>5 DEF TakesNext
  <2>2. t[i] = s[i]
    BY <1>5, <1>u
  <2>3. lo + 1 \in 0 .. s[i]
    BY <1>2, <2>1
  <2>4. ASSUME NEW q \in Procs, NEW y \in Sinks, Takes(q, i)', MayCopy(q)', Puts(q, y)'
        PROVE  lo + 1 = t[y]
    <3>1. Takes(q, i) /\ MayCopy(q) /\ Puts(q, y) /\ lo = s[y]
      BY <1>3, <2>4
    <3>2. Takes(p, i) /\ Puts(p, x)
      BY <1>5 DEF TakesNext, Moves
    <3>3. q = p
      BY <1>u, <3>1, <3>2 DEF OneTaker
    <3>4. y = x
      BY <3>1, <3>2, <3>3, PutsOne
    <3> QED BY <3>1, <3>4
  <2> QED BY <2>1, <2>2, <2>3, <2>4 DEF Flows
<1>6. CASE i # x /\ ~TakesNext(p, i, j)
  <2>1. KeepsPipe(i, j) /\ ~(Takes(p, i) /\ MayCopy(p))
    BY <1>6, <1>u DEF Moves
  <2>2. InOrder(pipe'[i], j, lo, s[i])
    BY <1>1, <1>2, <2>1 DEF KeepsPipe
  <2>3. t[i] = s[i]
    BY <1>6, <1>u
  <2>4. ASSUME NEW q \in Procs, NEW y \in Sinks, Takes(q, i)', MayCopy(q)', Puts(q, y)'
        PROVE  lo = t[y]
    BY <1>3, <2>1, <2>4
  <2> QED BY <2>2, <2>3, <2>4 DEF Flows
<1> QED BY <1>4, <1>5, <1>6

\* And so does the whole job.
LEMMA MoveJob ==
  ASSUME TypeInv, OneTaker, \A q \in Procs : Narrow(q),
         NEW j \in 1 .. Len(typed), NEW X \in SUBSET Pipes, NEW s, s \in [Sinks -> 0 .. UNITS],
         NEW t, t \in [Sinks -> 0 .. UNITS],
         NEW p \in Procs, NEW x \in Sinks, Moves(p, x, j, s[x] + 1),
         t[x] = s[x] + 1, \A y \in Sinks \ {x} : t[y] = s[y],
         Carries(p, Workers(j), X), JobInv(j, X, s)
  PROVE  JobInv(j, X, t)'
<1>u. UNITS \in Nat /\ s[x] \in Nat /\ 0 \in Sinks /\ s[0] \in Nat
  <2>1. UNITS \in Nat /\ 0 \in Sinks
    BY Descriptors, ShellAssumption
  <2> QED BY <2>1
<1>w. OneWay(Workers(j), X)
  BY DEF JobInv
<1>0. Puts(p, x) /\ (x \in Pipes => x \in X)
  BY <1>w DEF Moves, OneWay
<1>1. OneWay(Workers(j), X)'
  BY <1>w, NarrowWay
<1>2. shown'[j] = [n \in 1 .. t[0] |-> n]
  <2>1. shown[j] = [n \in 1 .. s[0] |-> n]
    BY DEF JobInv
  <2>2. CASE x = 0
    <3>1. shown'[j] = Append([n \in 1 .. s[0] |-> n], s[0] + 1)
      BY <2>1, <2>2 DEF Moves
    <3>2. t[0] = s[0] + 1
      BY <2>2
    <3> QED BY <1>u, <3>1, <3>2, CountNext
  <2>3. CASE x # 0
    <3>1. t[0] = s[0] /\ shown'[j] = shown[j]
      BY <1>u, <2>3 DEF Moves
    <3> QED BY <2>1, <3>1
  <2> QED BY <2>2, <2>3
<1>3. ASSUME NEW i \in Pipes \ X PROVE NoneOf(pipe'[i], j)
  <2>1. i # x /\ NoneOf(pipe[i], j)
    BY <1>0 DEF JobInv
  <2>2. ~TakesNext(p, i, j)
    <3>1. InOrder(pipe[i], j, 0, 0)
      BY <2>1, NoneInOrder
    <3>2. 0 \in Nat /\ ~(0 + 1 <= 0)
      OBVIOUS
    <3> QED BY <3>1, <3>2 DEF TakesNext
  <2> QED BY <2>1, <2>2 DEF Moves, KeepsPipe
<1>4. ASSUME NEW i \in X PROVE Flows(i, j, t)'
  <2>1. Flows(i, j, s)
    BY DEF JobInv
  <2> QED BY <1>w, <2>1, MoveFlows
<1>5. ASSUME NEW q \in Procs, NEW y \in Sinks, Carries(q, Workers(j), X)', proc'[q].pc \in Pre,
             Puts(q, y)'
      PROVE  t[y] = 0
  <2>1. Carries(q, Workers(j), X)
    BY <1>5, NarrowCarries
  <2>2. proc[q].pc \in Pre /\ Puts(q, y)
    BY <1>5 DEF Narrow, Puts
  <2>3. q # p
    BY <2>2 DEF Moves
  <2>4. y # x
    BY <1>0, <1>w, <2>1, <2>2, <2>3 DEF OneWay
  <2>5. s[y] = 0
    BY <2>1, <2>2 DEF JobInv
  <2> QED BY <2>4, <2>5
<1>6. ASSUME NEW q \in Workers(j)', NEW y \in Sinks, Makes(q)', Puts(q, y)'
      PROVE  t[y] + proc'[q].left = UNITS
  <2>1. q \in Procs /\ q \in Workers(j)
    BY NarrowWorkers DEF Workers
  <2>2. Puts(q, y)
    BY <1>6, <2>1 DEF Narrow
  <2>c. Carries(q, Workers(j), X)
    BY <2>1 DEF Carries, Workers
  <2>3. CASE q = p
    <3>1. y = x
      BY <1>0, <2>2, <2>3, PutsOne
    <3>2. Makes(p) /\ proc'[p].left = proc[p].left - 1
      BY <1>6, <2>3 DEF Moves
    <3>3. s[x] + proc[p].left = UNITS
      BY <1>0, <2>1, <2>3, <3>2 DEF JobInv
    <3>4. proc[p].left \in 0 .. UNITS
      BY DEF TypeInv, ProcType
    <3>5. PICK l \in Nat, a \in Nat : l = proc[p].left /\ a = s[x]
      BY <1>u, <3>4
    <3>6. t[y] = a + 1 /\ proc'[q].left = l - 1 /\ a + l = UNITS
      BY <2>3, <3>1, <3>2, <3>3, <3>5
    <3>7. (a + 1) + (l - 1) = a + l
      OBVIOUS
    <3> QED BY <3>6, <3>7
  <2>4. CASE q # p
    <3>1. y # x
      BY <1>0, <1>w, <2>1, <2>2, <2>4, <2>c DEF OneWay
    <3>2. t[y] = s[y]
      BY <3>1
    <3>3. Steady(q, j)
      BY <2>1, <2>4 DEF Moves
    <3>4. CASE Makes(q) /\ proc'[q].left = proc[q].left
      BY <2>1, <2>2, <3>2, <3>4 DEF JobInv
    <3>5. CASE proc[q].pc \in Pre /\ proc'[q].left = UNITS
      <4>1. s[y] = 0
        BY <2>1, <2>2, <2>c, <3>5 DEF JobInv
      <4> QED BY <1>u, <3>2, <3>5, <4>1
    <3> QED BY <1>6, <3>3, <3>4, <3>5 DEF Steady
  <2> QED BY <2>3, <2>4
<1> QED BY <1>1, <1>2, <1>3, <1>4, <1>5, <1>6 DEF JobInv

-----------------------------------------------------------------------------
(***************************************************************************)
(* The workers of a plain line.                                            *)
(***************************************************************************)

\* Worker q stays one, in its role.
Follows(q) ==
  /\ \A x \in Sinks : Puts(q, x)' <=> Puts(q, x)
  /\ \A i \in Pipes : Takes(q, i)' <=> Takes(q, i)
  /\ Inlet(q)' = Inlet(q)
  /\ \A k \in {"make", "copy"} : Plays(q, k) => Plays(q, k)'
  /\ proc'[q].pc \in Pre => /\ proc[q].pc \in Pre
                            /\ proc'[q].line = proc[q].line /\ proc'[q].io = proc[q].io

\* Who is left alone stays in its role.
LEMMA SameFollows ==
  ASSUME NEW q, SameView(q), Alive(q)
  PROVE  Follows(q)
  BY SameFields, SameEnds DEF Follows, Plays

\* More may have been written.
More(s, t) == \A x \in Sinks : s[x] = UNITS => t[x] = UNITS

\* The chain of workers stays when they do.
LEMMA PlainKept ==
  ASSUME NEW j, NEW X \in SUBSET Pipes, NEW s, NEW t, More(s, t),
         \A q \in Procs : q \in Workers(j)' <=> q \in Workers(j),
         \A q \in Workers(j) : Follows(q), PlainInv(j, X, s)
  PROVE  PlainInv(j, X, t)'
<1>1. Workers(j)' = Workers(j)
  BY DEF Workers
<1>2. Pipes \subseteq Sinks /\ 0 \in Sinks
  BY Descriptors
<1>3. ASSUME NEW x \in Sinks, Fed(j, x, s) PROVE Fed(j, x, t)'
  BY <1>1, <1>3 DEF Fed, More, Follows
<1>4. ASSUME NEW p \in Workers(j) PROVE Heard(p, j)'
  BY <1>1, <1>4 DEF PlainInv, Heard, Follows
<1>5. ASSUME NEW p \in Workers(j) PROVE HasRole(p, j, X, t)'
  <2>1. HasRole(p, j, X, s) /\ Follows(p)
    BY DEF PlainInv
  <2>2. CASE Plays(p, "make") /\ Inlet(p) = Tty
    BY <2>1, <2>2 DEF HasRole, Follows
  <2>3. CASE Plays(p, "copy") /\ \E i \in X : Takes(p, i) /\ Fed(j, i, s)
    <3>1. PICK i \in X : Takes(p, i) /\ Fed(j, i, s)
      BY <2>3
    <3>2. Takes(p, i)' /\ Fed(j, i, t)' /\ Plays(p, "copy")'
      BY <1>2, <1>3, <2>1, <2>3, <3>1 DEF Follows
    <3> QED BY <3>2 DEF HasRole
  <2> QED BY <2>1, <2>2, <2>3 DEF HasRole
<1>6. ASSUME NEW p \in Workers(j), proc'[p].pc \in Pre PROVE PlainLine(proc'[p])
  <2>1. /\ proc[p].pc \in Pre
        /\ proc'[p].line = proc[p].line /\ proc'[p].io = proc[p].io
    BY <1>6 DEF Follows
  <2>2. PlainLine(proc[p])
    BY <2>1 DEF PlainInv
  <2> QED BY <2>1, <2>2 DEF PlainLine
<1> QED BY <1>1, <1>2, <1>3, <1>4, <1>5, <1>6 DEF PlainInv

\* Worker p ends, when it has written everything and nobody writes to it.
LEMMA PlainEnd ==
  ASSUME NEW j, NEW X \in SUBSET Pipes, NEW s, NEW p,
         \A q \in Procs : q \in Workers(j)' <=> q \in Workers(j) /\ q # p,
         \A q \in Workers(j) \ {p} : Follows(q), PlainInv(j, X, s),
         \A x \in Sinks : Puts(p, x) => s[x] = UNITS,
         \A i \in Pipes, w \in Workers(j) : Takes(p, i) /\ Puts(w, i) => w = p
  PROVE  PlainInv(j, X, s)'
<1>1. Workers(j)' = Workers(j) \ {p}
  BY DEF Workers
<1>2. Pipes \subseteq Sinks /\ 0 \in Sinks
  BY Descriptors
<1>3. ASSUME NEW x \in Sinks, Fed(j, x, s) PROVE Fed(j, x, s)'
  BY <1>1, <1>3 DEF Fed, Follows
<1>4. ASSUME NEW q \in Workers(j) \ {p} PROVE Heard(q, j)'
  BY <1>1, <1>2, <1>4 DEF PlainInv, Heard, Follows
<1>5. ASSUME NEW q \in Workers(j) \ {p} PROVE HasRole(q, j, X, s)'
  <2>1. HasRole(q, j, X, s) /\ Follows(q)
    BY DEF PlainInv
  <2>2. CASE Plays(q, "make") /\ Inlet(q) = Tty
    BY <2>1, <2>2 DEF HasRole, Follows
  <2>3. CASE Plays(q, "copy") /\ \E i \in X : Takes(q, i) /\ Fed(j, i, s)
    <3>1. PICK i \in X : Takes(q, i) /\ Fed(j, i, s)
      BY <2>3
    <3>2. Takes(q, i)' /\ Fed(j, i, s)' /\ Plays(q, "copy")'
      BY <1>2, <1>3, <2>1, <2>3, <3>1 DEF Follows
    <3> QED BY <3>2 DEF HasRole
  <2> QED BY <2>1, <2>2, <2>3 DEF HasRole
<1>6. ASSUME NEW q \in Workers(j) \ {p}, proc'[q].pc \in Pre PROVE PlainLine(proc'[q])
  <2>1. /\ proc[q].pc \in Pre
        /\ proc'[q].line = proc[q].line /\ proc'[q].io = proc[q].io
    BY <1>6 DEF Follows
  <2>2. PlainLine(proc[q])
    BY <2>1 DEF PlainInv
  <2> QED BY <2>1, <2>2 DEF PlainLine
<1> QED BY <1>1, <1>2, <1>3, <1>4, <1>5, <1>6 DEF PlainInv

-----------------------------------------------------------------------------
(***************************************************************************)
(* What these steps do to all jobs.                                        *)
(***************************************************************************)

\* The bounds are numbers.
LEMMA Bounds == UNITS \in Nat /\ UNITS # 0 /\ MaxLines \in Nat /\ NPROC \in Nat /\ NPROC # 0
  BY ShellAssumption

Counts(s) == s \in [Sinks -> 0 .. UNITS]

\* No data of job j is written.
Quiet(j) ==
  /\ \A q \in Procs : Steady(q, j)
  /\ \A i \in Pipes : KeepsPipe(i, j) \/ LosesOne(i, j)
  /\ shown'[j] = shown[j]

StaysPlain(j) ==
  \A X \in SUBSET Pipes : \A s : Counts(s) /\ JobInv(j, X, s) /\ PlainInv(j, X, s) =>
    PlainInv(j, X, s)'

\* A step that writes no data keeps the streams.
LEMMA NarrowDeliver ==
  ASSUME DeliverInv, TypeInv', \A q \in Procs : Narrow(q),
         typed' = typed, excused' = excused,
         \A j \in 1 .. Len(typed) : Quiet(j) /\ StaysPlain(j)
  PROVE  DeliverInv'
<1>1. PICK D, P, S : Streams(D, P, S)
  BY DEF DeliverInv
<1>2. OneTaker'
  BY NarrowTaker DEF DeliverInv
<1>t. Len(typed) \in Nat /\ Len(typed) <= MaxLines /\ MaxLines \in Nat
  BY Bounds DEF DeliverInv, TypeInv, PipeType
<1>3. ASSUME NEW p \in Procs PROVE Alive(p)' => OneWay({p}, D[p])'
  <2>1. D[p] \in SUBSET Pipes /\ (Alive(p) => OneWay({p}, D[p]))
    BY <1>1 DEF Streams
  <2> QED BY <2>1, NarrowOne
<1>4. ASSUME NEW j \in 1 .. Len(typed)
      PROVE  /\ JobInv(j, P[j], S[j])'
             /\ (IsPlain(typed[j]) /\ j \notin excused => PlainInv(j, P[j], S[j]))'
  <2>1. j \in 1 .. MaxLines
    BY <1>t
  <2>2. /\ P[j] \in SUBSET Pipes /\ S[j] \in [Sinks -> 0 .. UNITS] /\ JobInv(j, P[j], S[j])
        /\ IsPlain(typed[j]) /\ j \notin excused => PlainInv(j, P[j], S[j])
    BY <1>1, <2>1 DEF Streams
  <2>3. JobInv(j, P[j], S[j])'
    BY <2>2, NarrowJob DEF Quiet
  <2>4. IsPlain(typed[j])' <=> IsPlain(typed[j])
    BY DEF IsPlain
  <2>5. ASSUME PlainInv(j, P[j], S[j]) PROVE PlainInv(j, P[j], S[j])'
    BY <2>2, <2>5 DEF StaysPlain, Counts
  <2> QED BY <2>2, <2>3, <2>4, <2>5
<1>5. Streams(D, P, S)'
  BY <1>1, <1>3, <1>4 DEF Streams
<1> QED BY <1>2, <1>5 DEF DeliverInv

\* Process p writes the next unit of job k into x, or copies it.
LEMMA MoveDeliver ==
  ASSUME DeliverInv, TypeInv', \A q \in Procs : Narrow(q),
         typed' = typed, excused' = excused,
         NEW k \in 1 .. Len(typed), NEW p \in Procs, NEW x \in Sinks,
         \A j \in 1 .. Len(typed) : j # k => Quiet(j),
         \A X \in SUBSET Pipes : \A s : Counts(s) /\ JobInv(k, X, s) =>
           Carries(p, Workers(k), X) /\ s[x] + 1 <= UNITS /\ Moves(p, x, k, s[x] + 1),
         \A q \in Procs : Alive(q) => Alive(q)' /\ Follows(q),
         \A q \in Procs : Alive(q) /\ proc'[q].pc \in Shells => proc[q].pc \in Shells
  PROVE  DeliverInv'
<1>1. PICK D, P, S : Streams(D, P, S)
  BY DEF DeliverInv
<1>2. OneTaker'
  BY NarrowTaker DEF DeliverInv
<1>t. Len(typed) \in Nat /\ Len(typed) <= MaxLines /\ MaxLines \in Nat /\ UNITS \in Nat
  BY Bounds DEF DeliverInv, TypeInv, PipeType
<1>m. k \in 1 .. MaxLines /\ P[k] \in SUBSET Pipes /\ S[k] \in [Sinks -> 0 .. UNITS]
      /\ JobInv(k, P[k], S[k])
  BY <1>1, <1>t DEF Streams
<1>n. Carries(p, Workers(k), P[k]) /\ S[k][x] + 1 <= UNITS /\ Moves(p, x, k, S[k][x] + 1)
  BY <1>m DEF Counts
<1>3. ASSUME NEW q \in Procs PROVE Alive(q)' => OneWay({q}, D[q])'
  <2>1. D[q] \in SUBSET Pipes /\ (Alive(q) => OneWay({q}, D[q]))
    BY <1>1 DEF Streams
  <2> QED BY <2>1, NarrowOne
<1> DEFINE t == [S[k] EXCEPT ![x] = S[k][x] + 1]
           T == [S EXCEPT ![k] = t]
<1>4. /\ t \in [Sinks -> 0 .. UNITS] /\ t[x] = S[k][x] + 1
      /\ \A y \in Sinks \ {x} : t[y] = S[k][y]
  <2>1. S[k][x] + 1 \in 0 .. UNITS
    BY <1>m, <1>n, <1>t
  <2> QED BY <1>m, <2>1
<1>5. More(S[k], t)
  BY <1>4, <1>m, <1>n, <1>t DEF More
<1> HIDE DEF t
<1>6. /\ T \in [1 .. MaxLines -> [Sinks -> 0 .. UNITS]] /\ T[k] = t
      /\ \A j \in 1 .. MaxLines : j # k => T[j] = S[j]
  BY <1>1, <1>4, <1>m DEF Streams
<1> HIDE DEF T
<1>7. \A j \in 1 .. Len(typed) : j \in 1 .. MaxLines
  BY <1>t
<1>8. ASSUME NEW j \in 1 .. Len(typed) PROVE JobInv(j, P[j], T[j])'
  <2>1. /\ P[j] \in SUBSET Pipes /\ S[j] \in [Sinks -> 0 .. UNITS] /\ JobInv(j, P[j], S[j])
    BY <1>1, <1>7 DEF Streams
  <2>2. CASE j = k
    <3>1. JobInv(k, P[k], t)'
      BY <1>4, <1>m, <1>n, MoveJob DEF DeliverInv
    <3> QED BY <1>6, <2>2, <3>1
  <2>3. CASE j # k
    <3>1. JobInv(j, P[j], S[j])'
      BY <2>1, <2>3, NarrowJob DEF Quiet
    <3>2. T[j] = S[j]
      BY <1>6, <1>7, <2>3
    <3> QED BY <3>1, <3>2
  <2> QED BY <2>2, <2>3
<1>9. ASSUME NEW j \in 1 .. Len(typed), (IsPlain(typed[j]) /\ j \notin excused)'
      PROVE  PlainInv(j, P[j], T[j])'
  <2>1. IsPlain(typed[j]) /\ j \notin excused
    BY <1>9 DEF IsPlain
  <2>2. P[j] \in SUBSET Pipes /\ PlainInv(j, P[j], S[j])
    BY <1>1, <1>7, <2>1 DEF Streams
  <2>3. More(S[j], T[j])
    BY <1>5, <1>6, <1>7 DEF More
  <2>4. \A q \in Procs : q \in Workers(j)' <=> q \in Workers(j)
    BY DEF Workers, Narrow
  <2>5. \A q \in Workers(j) : Follows(q)
    BY DEF Workers
  <2> QED BY <2>2, <2>3, <2>4, <2>5, PlainKept
<1>10. Streams(D, P, T)'
  BY <1>1, <1>3, <1>6, <1>8, <1>9 DEF Streams
<1> QED BY <1>2, <1>10 DEF DeliverInv

-----------------------------------------------------------------------------
(***************************************************************************)
(* The end of a process, and the change of one.                            *)
(***************************************************************************)

\* The end of a process leaves the others alone.
LEMMA DeadViews ==
  ASSUME Shape, NEW p \in Procs, proc' = Dead(p)
  PROVE  ~Alive(p)' /\ \A q \in Procs \ {p} : SameView(q)
<1>1. ~Alive(p)'
  BY DEF Shape, Dead, Free, Alive
<1>2. ASSUME NEW q \in Procs \ {p} PROVE SameView(q)
  BY DEF Shape, Dead, Free, SameView, Alive, Fields
<1> QED BY <1>1, <1>2

\* A free slot and a zombie have no descriptors.
LEMMA FreeTypes ==
  ASSUME NEW n \in Nat, NEW r, NEW v, r = Free \/ r = [Free EXCEPT !.pc = "zombie", !.parent = v]
  PROVE  ProcType(r, n)
<1>1. /\ r.in = Closed /\ r.out = Closed /\ r.pd = {} /\ r.pc \in Gone
      /\ r.job = 0 /\ r.left = 0
  <2>1. CASE r = Free
    BY <2>1 DEF Free, Gone
  <2>2. CASE r = [Free EXCEPT !.pc = "zombie", !.parent = v]
    BY <2>2 DEF Free, Gone
  <2> QED BY <2>1, <2>2
<1>2. 0 \in 0 .. n /\ 0 \in 0 .. UNITS
  BY Bounds
<1>3. r.pc \notin {"writer", "reader"} /\ r.pc \notin Pre \union Shells
  BY <1>1 DEF Gone, Pre, Shells
<1> QED BY <1>1, <1>2, <1>3 DEF ProcType

\* The parent is not part of the type.
LEMMA SameTypes ==
  ASSUME NEW n, NEW r, NEW q, ProcType(q, n),
         r.pc = q.pc, r.in = q.in, r.out = q.out, r.pd = q.pd, r.job = q.job, r.left = q.left,
         r.line = q.line, r.io = q.io
  PROVE  ProcType(r, n)
  BY DEF ProcType

\* The types after the end of a process.
LEMMA DeadTypes ==
  ASSUME Shape, TypeInv, NEW p \in Procs, proc' = Dead(p)
  PROVE  \A q \in Procs : ProcType(proc'[q], Len(typed))
<1> SUFFICES ASSUME NEW q \in Procs PROVE ProcType(proc'[q], Len(typed))
  OBVIOUS
<1>1. Len(typed) \in Nat /\ ProcType(proc[q], Len(typed))
  BY DEF TypeInv, PipeType
<1>2. \/ proc'[q] = Free \/ proc'[q] = [Free EXCEPT !.pc = "zombie", !.parent = proc[p].parent]
      \/ proc'[q] = proc[q] \/ proc'[q] = [proc[q] EXCEPT !.parent = Init0]
  BY DEF Dead
<1>3. CASE proc'[q] = [proc[q] EXCEPT !.parent = Init0]
  <2>1. PICK r : r = proc'[q]
    OBVIOUS
  <2>2. /\ r.pc = proc[q].pc /\ r.in = proc[q].in /\ r.out = proc[q].out /\ r.pd = proc[q].pd
        /\ r.job = proc[q].job /\ r.left = proc[q].left /\ r.line = proc[q].line
        /\ r.io = proc[q].io
    BY <1>3, <2>1 DEF Shape, Fields
  <2>3. ProcType(r, Len(typed))
    BY <1>1, <2>2, SameTypes
  <2> QED BY <2>1, <2>3
<1> QED BY <1>1, <1>2, <1>3, FreeTypes

\* A process that changes its record leaves the others alone.
LEMMA ChangeViews ==
  ASSUME Shape, NEW p \in Procs, NEW r, proc' = [proc EXCEPT ![p] = r]
  PROVE  proc'[p] = r /\ \A q \in Procs \ {p} : SameView(q)
<1>1. proc'[p] = r
  BY DEF Shape
<1>2. ASSUME NEW q \in Procs \ {p} PROVE SameView(q)
  <2>1. proc'[q] = proc[q]
    BY DEF Shape
  <2> QED BY <2>1 DEF SameView, Alive
<1> QED BY <1>1, <1>2

\* And its new record has its type.
LEMMA ChangeTypes ==
  ASSUME Shape, TypeInv, NEW p \in Procs, NEW r, proc' = [proc EXCEPT ![p] = r],
         ProcType(r, Len(typed))
  PROVE  \A q \in Procs : ProcType(proc'[q], Len(typed))
<1> SUFFICES ASSUME NEW q \in Procs PROVE ProcType(proc'[q], Len(typed))
  OBVIOUS
<1>1. proc'[q] = IF q = p THEN r ELSE proc[q]
  BY DEF Shape
<1>2. ProcType(proc[q], Len(typed))
  BY DEF TypeInv
<1> QED BY <1>1, <1>2

\* No more is needed of a process that ends.
LEMMA GoneNarrow ==
  ASSUME NEW p, ~Alive(p)'
  PROVE  Narrow(p) /\ \A j : Steady(p, j) /\ p \notin Workers(j)'
  BY DEF Narrow, Steady, Workers, Puts, Takes

\* Whoever is not a worker of j does not disturb its plain pipeline.
LEMMA OthersPlain ==
  ASSUME NEW p \in Procs, \A q \in Procs \ {p} : SameView(q), Narrow(p),
         NEW j, p \notin Workers(j)
  PROVE  StaysPlain(j)
<1>1. \A q \in Procs : q \in Workers(j)' <=> q \in Workers(j)
  <2> SUFFICES ASSUME NEW q \in Procs PROVE q \in Workers(j)' <=> q \in Workers(j)
    OBVIOUS
  <2>1. CASE q = p
    BY <2>1 DEF Workers, Narrow
  <2>2. CASE q # p
    BY <2>2, SameFields DEF Workers, SameView
  <2> QED BY <2>1, <2>2
<1>2. \A q \in Workers(j) : Follows(q)
  BY SameFollows DEF Workers
<1>3. \A s : More(s, s)
  BY DEF More
<1> QED BY <1>1, <1>2, <1>3, PlainKept DEF StaysPlain

\* A worker of a plain line ends when all its data is written and nobody is left
\* to write to it.
MayEnd(p, j) ==
  \A X \in SUBSET Pipes : \A s : Counts(s) /\ JobInv(j, X, s) /\ PlainInv(j, X, s) =>
    /\ \A x \in Sinks : Puts(p, x) => s[x] = UNITS
    /\ \A i \in Pipes, w \in Workers(j) : Takes(p, i) /\ Puts(w, i) => w = p

\* Process p ends.
LEMMA EndsDeliver ==
  ASSUME Shape, DeliverInv, NEW p \in Procs, proc' = Dead(p), typed' = typed,
         excused' = excused, PipeType', \A j \in 1 .. Len(typed) : shown'[j] = shown[j],
         \A j \in 1 .. Len(typed) : \A i \in Pipes : KeepsPipe(i, j) \/ LosesOne(i, j),
         \A j \in 1 .. Len(typed) : p \in Workers(j) => MayEnd(p, j)
  PROVE  DeliverInv'
<1>1. TypeInv
  BY DEF DeliverInv
<1>2. TypeInv'
  BY <1>1, DeadTypes DEF TypeInv
<1>3. ~Alive(p)' /\ \A q \in Procs \ {p} : SameView(q)
  BY DeadViews
<1>4. ASSUME NEW q \in Procs PROVE Narrow(q) /\ \A j : Steady(q, j)
  BY <1>3, GoneNarrow, SameNarrow
<1>5. ASSUME NEW j \in 1 .. Len(typed) PROVE Quiet(j)
  BY <1>4 DEF Quiet
<1>6. ASSUME NEW j \in 1 .. Len(typed) PROVE StaysPlain(j)
  <2>1. CASE p \notin Workers(j)
    BY <1>3, <1>4, <2>1, OthersPlain
  <2>2. CASE p \in Workers(j)
    <3>1. ASSUME NEW q \in Procs PROVE q \in Workers(j)' <=> q \in Workers(j) /\ q # p
      <4>1. CASE q = p
        BY <1>3, <4>1 DEF Workers
      <4>2. CASE q # p
        BY <1>3, <4>2, SameFields DEF Workers, SameView
      <4> QED BY <4>1, <4>2
    <3>2. \A q \in Workers(j) \ {p} : Follows(q)
      BY <1>3, SameFollows DEF Workers
    <3>3. ASSUME NEW X \in SUBSET Pipes, NEW s, Counts(s), JobInv(j, X, s), PlainInv(j, X, s)
          PROVE  PlainInv(j, X, s)'
      <4>1. /\ \A x \in Sinks : Puts(p, x) => s[x] = UNITS
            /\ \A i \in Pipes, w \in Workers(j) : Takes(p, i) /\ Puts(w, i) => w = p
        BY <2>2, <3>3 DEF MayEnd
      <4> QED BY <3>1, <3>2, <3>3, <4>1, PlainEnd
    <3> QED BY <3>3 DEF StaysPlain
  <2> QED BY <2>1, <2>2
<1> QED BY <1>2, <1>4, <1>5, <1>6, NarrowDeliver

\* A worker of a plain line stays one.
MayChange(p, j) ==
  \A X \in SUBSET Pipes : \A s : Counts(s) /\ JobInv(j, X, s) /\ PlainInv(j, X, s) =>
    p \in Workers(j)' /\ Follows(p)

\* Process p changes its record.
LEMMA ChangeDeliver ==
  ASSUME Shape, DeliverInv, NEW p \in Procs, NEW r, proc' = [proc EXCEPT ![p] = r],
         ProcType(r, Len(typed)), Narrow(p), typed' = typed, excused' = excused, PipeType',
         \A j \in 1 .. Len(typed) : shown'[j] = shown[j] /\ Steady(p, j),
         \A j \in 1 .. Len(typed) : \A i \in Pipes : KeepsPipe(i, j) \/ LosesOne(i, j),
         \A j \in 1 .. Len(typed) : p \in Workers(j) => MayChange(p, j)
  PROVE  DeliverInv'
<1>1. TypeInv
  BY DEF DeliverInv
<1>2. TypeInv'
  BY <1>1, ChangeTypes DEF TypeInv
<1>3. \A q \in Procs \ {p} : SameView(q)
  BY ChangeViews
<1>4. ASSUME NEW q \in Procs PROVE Narrow(q) /\ \A j \in 1 .. Len(typed) : Steady(q, j)
  BY <1>3, SameNarrow
<1>5. ASSUME NEW j \in 1 .. Len(typed) PROVE Quiet(j)
  BY <1>4 DEF Quiet
<1>6. ASSUME NEW j \in 1 .. Len(typed) PROVE StaysPlain(j)
  <2>1. CASE p \notin Workers(j)
    BY <1>3, <1>4, <2>1, OthersPlain
  <2>2. CASE p \in Workers(j)
    <3>3. ASSUME NEW X \in SUBSET Pipes, NEW s, Counts(s), JobInv(j, X, s), PlainInv(j, X, s)
          PROVE  PlainInv(j, X, s)'
      <4>1. p \in Workers(j)' /\ Follows(p)
        BY <2>2, <3>3 DEF MayChange
      <4>2. ASSUME NEW q \in Procs PROVE q \in Workers(j)' <=> q \in Workers(j)
        <5>1. CASE q = p
          BY <2>2, <4>1, <5>1
        <5>2. CASE q # p
          BY <1>3, <5>2, SameFields DEF Workers, SameView
        <5> QED BY <5>1, <5>2
      <4>3. \A q \in Workers(j) : Follows(q)
        BY <1>3, <4>1, SameFollows DEF Workers
      <4>4. More(s, s)
        BY DEF More
      <4> QED BY <3>3, <4>2, <4>3, <4>4, PlainKept
    <3> QED BY <3>3 DEF StaysPlain
  <2> QED BY <2>1, <2>2
<1> QED BY <1>2, <1>4, <1>5, <1>6, NarrowDeliver

\* A pipe that is left alone keeps its units.
LEMMA SamePipe ==
  ASSUME NEW i, NEW j, pipe'[i] = pipe[i]
  PROVE  KeepsPipe(i, j)
  BY DEF KeepsPipe

\* Process p changes its record, and nothing else happens.
LEMMA StillDeliver ==
  ASSUME Shape, DeliverInv, NEW p \in Procs, NEW r, proc' = [proc EXCEPT ![p] = r],
         ProcType(r, Len(typed)), Narrow(p), UNCHANGED <<pipe, typed, shown, excused, layout>>,
         \A j \in 1 .. Len(typed) : Steady(p, j),
         \A j \in 1 .. Len(typed) : p \in Workers(j) => MayChange(p, j)
  PROVE  DeliverInv'
<1>1. PipeType'
  BY DEF DeliverInv, TypeInv, PipeType
<1>2. \A j \in 1 .. Len(typed) : \A i \in Pipes : KeepsPipe(i, j) \/ LosesOne(i, j)
  BY SamePipe
<1>3. typed' = typed /\ excused' = excused /\ \A j \in 1 .. Len(typed) : shown'[j] = shown[j]
  OBVIOUS
<1> QED BY <1>1, <1>2, <1>3, ChangeDeliver

\* Process p ends, and nothing else happens.
LEMMA JustEnds ==
  ASSUME Shape, DeliverInv, NEW p \in Procs, Ends(p),
         \A j \in 1 .. Len(typed) : p \in Workers(j) => MayEnd(p, j)
  PROVE  DeliverInv'
<1>0. UNCHANGED <<pipe, typed, shown, excused, layout>> /\ proc' = Dead(p)
  BY DEF Ends
<1>1. PipeType'
  BY <1>0 DEF DeliverInv, TypeInv, PipeType
<1>2. \A j \in 1 .. Len(typed) : \A i \in Pipes : KeepsPipe(i, j) \/ LosesOne(i, j)
  BY <1>0, SamePipe
<1>3. typed' = typed /\ excused' = excused /\ \A j \in 1 .. Len(typed) : shown'[j] = shown[j]
  BY <1>0
<1> QED BY <1>0, <1>1, <1>2, <1>3, EndsDeliver

\* A shell is no worker.
LEMMA ShellIsNone ==
  ASSUME NEW p, proc[p].pc \in Shells, NEW j
  PROVE  p \notin Workers(j)
  BY DEF Workers

\* A shell that goes from one place to the next.
LEMMA ShellMoves ==
  ASSUME Shape, TypeInv, NEW p \in Procs, proc[p].pc \in Shells, NEW r, proc'[p] = r,
         NEW c \in Shells, r = [proc[p] EXCEPT !.pc = c]
  PROVE  ProcType(r, Len(typed)) /\ Narrow(p) /\ \A j : Steady(p, j)
<1>1. /\ r.pc = c /\ r.in = proc[p].in /\ r.out = proc[p].out /\ r.pd = proc[p].pd
      /\ r.job = proc[p].job /\ r.left = proc[p].left
  BY DEF Shape, Fields
<1> HIDE DEF Shape
<1>2. c \in {"greet", "read", "wait"} /\ proc[p].pc \in {"greet", "read", "wait"}
  BY DEF Shells
<1>3. ProcType(proc[p], Len(typed))
  BY DEF TypeInv
<1>4. ProcType(r, Len(typed))
  BY <1>1, <1>2, <1>3 DEF ProcType, Pre, Shells, Gone
<1>5. Alive(p)' /\ Alive(p)
  BY <1>1, <1>2 DEF Alive
<1>6. Outlet(p)' = Outlet(p) /\ Inlet(p)' = Inlet(p)
  BY <1>1, <1>2 DEF Outlet, Inlet
<1>7. Narrow(p)
  BY <1>1, <1>2, <1>5, <1>6 DEF Narrow, Puts, Takes, MayCopy, Pre, Shells
<1>8. \A j : Steady(p, j)
  BY <1>1, <1>2 DEF Steady, Workers, Shells
<1> QED BY <1>4, <1>7, <1>8

\* cd() changes nothing that counts.
LEMMA CdDeliver ==
  ASSUME Shape, DeliverInv, NEW p \in Procs, Cd(p)
  PROVE  DeliverInv'
<1>1. /\ proc[p].pc = "read" /\ proc' = [proc EXCEPT ![p].pc = "greet"]
      /\ UNCHANGED <<pipe, typed, shown, excused, layout>>
  BY DEF Cd
<1>2. PICK r : r = [proc[p] EXCEPT !.pc = "greet"]
  OBVIOUS
<1>3. proc' = [proc EXCEPT ![p] = r] /\ proc'[p] = r
  BY <1>1, <1>2 DEF Shape
<1>4. proc[p].pc \in Shells /\ "greet" \in Shells /\ TypeInv
  BY <1>1 DEF Shells, DeliverInv
<1>5. ProcType(r, Len(typed)) /\ Narrow(p) /\ \A j : Steady(p, j)
  BY <1>2, <1>3, <1>4, ShellMoves
<1> QED BY <1>1, <1>3, <1>4, <1>5, ShellIsNone, StillDeliver

\* A shell that exits is no worker.
LEMMA ExitDeliver ==
  ASSUME Shape, DeliverInv, NEW p \in Procs, Exit(p)
  PROVE  DeliverInv'
<1>1. Ends(p) /\ proc[p].pc \in Shells
  BY DEF Exit, Shells
<1> QED BY <1>1, ShellIsNone, JustEnds

\* Nor is one that waits.
LEMMA WaitDeliver ==
  ASSUME Shape, DeliverInv, NEW p \in Procs, Wait(p)
  PROVE  DeliverInv'
<1>0. proc[p].pc = "wait" /\ UNCHANGED <<pipe, typed, shown, excused, layout>>
  BY DEF Wait
<1>1. CASE Children(p) = {} /\ proc' = [proc EXCEPT ![p].pc = "greet"]
  <2>2. PICK r : r = [proc[p] EXCEPT !.pc = "greet"]
    OBVIOUS
  <2>3. proc' = [proc EXCEPT ![p] = r] /\ proc'[p] = r
    BY <1>1, <2>2 DEF Shape
  <2>4. proc[p].pc \in Shells /\ "greet" \in Shells /\ TypeInv
    BY <1>0 DEF Shells, DeliverInv
  <2>5. ProcType(r, Len(typed)) /\ Narrow(p) /\ \A j : Steady(p, j)
    BY <2>2, <2>3, <2>4, ShellMoves
  <2> QED BY <1>0, <2>3, <2>4, <2>5, ShellIsNone, StillDeliver
<1>2. CASE \E q \in Children(p) : proc[q].pc = "zombie" /\ proc' = Waited(p, q)
  <2>1. PICK q \in Procs : proc[q].pc = "zombie" /\ proc' = [proc EXCEPT ![q] = Free]
    BY <1>2 DEF Children, Waited
  <2>2. ProcType(Free, Len(typed))
    <3>1. Len(typed) \in Nat
      BY DEF DeliverInv, TypeInv, PipeType
    <3>2. PICK r, v : r = Free /\ v = 0
      OBVIOUS
    <3> QED BY <3>1, <3>2, FreeTypes
  <2>3. proc'[q] = Free
    BY <2>1 DEF Shape
  <2>4. ~Alive(q) /\ ~Alive(q)'
    <3>1. Free.pc = "free"
      BY DEF Free
    <3> QED BY <2>1, <2>3, <3>1 DEF Alive
  <2>5. Narrow(q) /\ \A j : Steady(q, j) /\ q \notin Workers(j)
    BY <2>4, GoneNarrow DEF Workers
  <2> QED BY <1>0, <2>1, <2>2, <2>5, StillDeliver
<1> QED BY <1>1, <1>2 DEF Wait

\* Nothing happens.
LEMMA StutterDeliver ==
  ASSUME DeliverInv, UNCHANGED vars
  PROVE  DeliverInv'
<1>0. UNCHANGED <<proc, pipe, typed, shown, excused, layout>>
  BY DEF vars
<1>1. TypeInv'
  BY <1>0 DEF DeliverInv, TypeInv, PipeType
<1>2. ASSUME NEW q \in Procs PROVE SameView(q)
  BY <1>0 DEF SameView, Alive
<1>3. \A q \in Procs : Narrow(q) /\ \A j : Steady(q, j)
  BY <1>2, SameNarrow
<1>4. ASSUME NEW j \in 1 .. Len(typed) PROVE Quiet(j)
  BY <1>0, <1>3, SamePipe DEF Quiet
<1>5. ASSUME NEW j \in 1 .. Len(typed) PROVE StaysPlain(j)
  <2>1. \A q \in Procs : q \in Workers(j)' <=> q \in Workers(j)
    BY <1>0 DEF Workers, Alive
  <2>2. \A q \in Workers(j) : Follows(q)
    BY <1>2, SameFollows DEF Workers
  <2>3. \A s : More(s, s)
    BY DEF More
  <2> QED BY <2>1, <2>2, <2>3, PlainKept DEF StaysPlain
<1> QED BY <1>0, <1>1, <1>3, <1>4, <1>5, NarrowDeliver

\* Process p changes on its way to execve(), or in its program, and keeps its ends.
LEMMA KeepsEnds ==
  ASSUME NEW p \in Procs, Alive(p), Alive(p)', Outlet(p)' = Outlet(p), Inlet(p)' = Inlet(p),
         proc'[p].job = proc[p].job, proc[p].pc \notin Shells, proc'[p].pc \notin Shells,
         MayCopy(p)' => MayCopy(p), proc'[p].pc \in Pre => proc[p].pc \in Pre
  PROVE  /\ Narrow(p)
         /\ \A j : p \in Workers(j)' <=> p \in Workers(j)
         /\ \A x : Puts(p, x)' <=> Puts(p, x)
         /\ \A i : Takes(p, i)' <=> Takes(p, i)
<1>1. \A x : Puts(p, x)' <=> Puts(p, x)
  BY DEF Puts
<1>2. \A i : Takes(p, i)' <=> Takes(p, i)
  BY DEF Takes
<1>3. \A j : p \in Workers(j)' <=> p \in Workers(j)
  BY DEF Workers
<1> QED BY <1>1, <1>2, <1>3 DEF Narrow

\* close() and dup(): the ends become what they were meant to be.
LEMMA RewireDeliver ==
  ASSUME Shape, DeliverInv, NEW p \in Procs, Rewire(p)
  PROVE  DeliverInv'
<1>0. /\ proc[p].pc \in {"writer", "reader"} /\ UNCHANGED <<pipe, typed, shown, excused, layout>>
      /\ proc' = [proc EXCEPT ![p] = IF @.pc = "writer" THEN WriterSide(p) ELSE ReaderSide(p)]
  BY DEF Rewire
<1>1. TypeInv /\ ProcType(proc[p], Len(typed))
  BY DEF DeliverInv, TypeInv
<1>2. PICK i \in Pipes : proc[p].pd = {R(i), W(i)}
  BY <1>0, <1>1 DEF ProcType
<1>3. PipeOf(p) = i
  BY <1>2, PipeOfIs
<1>4. PICK r : r = IF proc[p].pc = "writer" THEN WriterSide(p) ELSE ReaderSide(p)
  OBVIOUS
<1>5. proc' = [proc EXCEPT ![p] = r] /\ proc'[p] = r
  BY <1>0, <1>4 DEF Shape
<1>6. /\ r.pc \in {"exe", "tell"} /\ r.pd = {}
      /\ r.out = (IF proc[p].pc = "writer" THEN W(i) ELSE proc[p].out)
      /\ r.in = (IF proc[p].pc = "reader" THEN R(i) ELSE proc[p].in)
      /\ r.job = proc[p].job /\ r.left = proc[p].left /\ r.line = proc[p].line
      /\ r.io = proc[p].io
  <2>1. CASE proc[p].pc = "writer"
    <3>1. r = [proc[p] EXCEPT !.pc = "exe", !.out = W(i), !.pd = {}]
      BY <1>3, <1>4, <2>1 DEF WriterSide
    <3> QED BY <2>1, <3>1 DEF Shape, Fields
  <2>2. CASE proc[p].pc = "reader"
    <3>1. r = [proc[p] EXCEPT !.pc = IF Len(proc[p].line) > 1 THEN "tell" ELSE "exe",
                              !.in = R(i), !.pd = {}]
      BY <1>3, <1>4, <2>2 DEF ReaderSide
    <3> QED BY <2>2, <3>1 DEF Shape, Fields
  <2> QED BY <1>0, <2>1, <2>2
<1>7. ProcType(r, Len(typed))
  <2>1. r.in \in {Tty, File, Closed} \union {R(k) : k \in Pipes}
    BY <1>1, <1>6 DEF ProcType
  <2>2. r.out \in {Tty, File, Closed} \union {W(k) : k \in Pipes}
    BY <1>1, <1>6 DEF ProcType
  <2>3. r.out \in {Tty} \union {W(k) : k \in Pipes}
    BY <1>0, <1>1, <1>6 DEF ProcType, Pre
  <2>4. \A k \in DOMAIN r.line : r.line[k].prog = "missing" =>
       /\ k = 1 /\ r.pc # "reader" /\ r.in = Tty /\ r.io = ""
       /\ \A m \in DOMAIN r.line : r.line[m].io = ""
    <3>1. proc[p].pc \in Pre
      BY <1>0 DEF Pre
    <3> QED BY <1>0, <1>1, <1>6, <3>1 DEF ProcType
  <2>5. r.pc \notin {"writer", "reader"} /\ r.pc \in Pre /\ r.pc \notin Gone /\ r.pc \notin Shells
    BY <1>6 DEF Pre, Gone, Shells
  <2>6. r.job \in 0 .. Len(typed) /\ r.left \in 0 .. UNITS /\ r.job # 0
    BY <1>0, <1>1, <1>6 DEF ProcType, Gone, Shells
  <2> QED BY <1>6, <2>1, <2>2, <2>3, <2>4, <2>5, <2>6 DEF ProcType
<1>8. /\ Alive(p) /\ Alive(p)' /\ proc[p].pc \notin Shells /\ proc'[p].pc \notin Shells
      /\ proc[p].pc \in Pre /\ proc'[p].pc \in Pre /\ MayCopy(p) /\ proc'[p].job = proc[p].job
  BY <1>0, <1>5, <1>6 DEF Alive, Shells, Pre, MayCopy
<1>9. Outlet(p)' = Outlet(p) /\ Inlet(p)' = Inlet(p)
  BY <1>0, <1>3, <1>5, <1>6 DEF Outlet, Inlet
<1>10. /\ Narrow(p)
       /\ \A j : p \in Workers(j)' <=> p \in Workers(j)
       /\ \A x : Puts(p, x)' <=> Puts(p, x)
       /\ \A k : Takes(p, k)' <=> Takes(p, k)
  BY <1>8, <1>9, KeepsEnds
<1>11. ~Makes(p)'
  BY <1>5, <1>6 DEF Makes
<1>12. \A j : Steady(p, j)
  BY <1>11 DEF Steady
<1>13. Follows(p)
  BY <1>0, <1>5, <1>6, <1>8, <1>9, <1>10 DEF Follows, Plays
<1>14. \A j : p \in Workers(j) => MayChange(p, j)
  BY <1>10, <1>13 DEF MayChange
<1> QED BY <1>0, <1>5, <1>7, <1>10, <1>12, <1>14, StillDeliver

\* A program starts, or a shell when there is none.
LEMMA ExecveDeliver ==
  ASSUME Shape, LineInv, DeliverInv, NEW p \in Procs, Execve(p)
  PROVE  DeliverInv'
<1>1. TypeInv /\ ProcType(proc[p], Len(typed)) /\ proc[p].pc = "io"
  BY DEF DeliverInv, TypeInv, Execve
<1>2. PICK a : a = proc[p].line[1].prog
  OBVIOUS
<1>3. a \in Programs /\ 1 \in DOMAIN proc[p].line
  <2>1. PICK l \in Seq(Stage) : l = proc[p].line /\ l # <<>>
    BY <1>1 DEF LineInv, HasLine
  <2>2. 1 \in DOMAIN l /\ l[1] \in Stage
    BY <2>1
  <2> QED BY <1>2, <2>1, <2>2 DEF Stage
<1>4. PICK h \in HandleIO(proc[p]) :
        proc' = [proc EXCEPT ![p] =
                  [h EXCEPT !.pc = IF a = "missing" THEN "greet" ELSE a,
                            !.line = <<>>, !.io = "", !.left = UNITS]]
  BY <1>2 DEF Execve
<1>5. /\ DOMAIN h = Fields /\ h.pd = proc[p].pd /\ h.job = proc[p].job
      /\ h.in \in {proc[p].in, File, Closed} /\ h.out \in {proc[p].out, File, Closed}
      /\ proc[p].io = "" => h.in = proc[p].in /\ h.out = proc[p].out
  BY DEF HandleIO, Shape, Fields
<1>6. PICK r : r = [h EXCEPT !.pc = IF a = "missing" THEN "greet" ELSE a,
                            !.line = <<>>, !.io = "", !.left = UNITS]
  OBVIOUS
<1>7. /\ r.pc = (IF a = "missing" THEN "greet" ELSE a) /\ r.left = UNITS
      /\ r.in = h.in /\ r.out = h.out /\ r.pd = h.pd /\ r.job = h.job
  BY <1>5, <1>6 DEF Fields
<1>8. proc' = [proc EXCEPT ![p] = r] /\ proc'[p] = r
  BY <1>4, <1>6 DEF Shape
<1>9. r.pc \in {"greet", "make", "copy", "quit"}
  BY <1>3, <1>7 DEF Programs
<1>10. r.pc = "greet" => r.in = Tty /\ r.out = proc[p].out
  <2>1. ASSUME a = "missing" PROVE proc[p].in = Tty /\ proc[p].io = ""
    BY <1>1, <1>2, <1>3, <2>1 DEF ProcType, Pre
  <2> QED BY <1>3, <1>5, <1>7, <2>1 DEF Programs
<1>11. ProcType(r, Len(typed))
  <2>1. r.in \in {Tty, File, Closed} \union {R(k) : k \in Pipes}
    BY <1>1, <1>5, <1>7 DEF ProcType
  <2>2. r.out \in {Tty, File, Closed} \union {W(k) : k \in Pipes}
    BY <1>1, <1>5, <1>7 DEF ProcType
  <2>3. r.pc \in Pre \union Shells => r.in = Tty /\ r.out \in {Tty} \union {W(i) : i \in Pipes}
    BY <1>1, <1>9, <1>10 DEF ProcType, Pre, Shells
  <2>4. r.pd = {} /\ r.job \in 0 .. Len(typed) /\ r.job # 0 /\ r.left \in 0 .. UNITS
    <3>1. UNITS \in 0 .. UNITS
      BY Bounds
    <3> QED BY <1>1, <1>5, <1>7, <3>1 DEF ProcType, Gone, Shells
  <2>5. r.pc \notin {"writer", "reader"} /\ r.pc \notin Pre /\ r.pc \notin Gone
        /\ r.pc \in Shells \union {"make", "copy", "quit"}
    BY <1>9 DEF Pre, Gone, Shells
  <2> QED BY <2>1, <2>2, <2>3, <2>4, <2>5 DEF ProcType
<1>12. /\ Alive(p) /\ Alive(p)' /\ proc[p].pc \notin Shells
       /\ proc[p].pc \in Pre /\ proc'[p].pc \notin Pre /\ MayCopy(p) /\ proc'[p].job = proc[p].job
  BY <1>1, <1>5, <1>7, <1>8, <1>9 DEF Alive, Shells, Pre, MayCopy
<1>13. Outlet(p)' = h.out /\ Inlet(p)' = h.in /\ Outlet(p) = proc[p].out /\ Inlet(p) = proc[p].in
  BY <1>1, <1>7, <1>8, <1>9 DEF Outlet, Inlet
<1>14. ASSUME NEW x \in Sinks, Puts(p, x)' PROVE Puts(p, x)
  <2>1. PICK e : e = (IF x = 0 THEN Tty ELSE W(x)) /\ e # File /\ e # Closed
    BY Descriptors
  <2>2. h.out = e
    BY <1>13, <1>14, <2>1 DEF Puts
  <2>3. Outlet(p) = e
    BY <1>5, <1>13, <2>1, <2>2
  <2> QED BY <1>12, <2>1, <2>3 DEF Puts
<1>15. ASSUME NEW i \in Pipes, Takes(p, i)' PROVE Takes(p, i)
  <2>1. R(i) # File /\ R(i) # Closed
    BY Descriptors
  <2>2. h.in = R(i)
    BY <1>13, <1>15 DEF Takes
  <2>3. Inlet(p) = R(i)
    BY <1>5, <1>13, <2>1, <2>2
  <2> QED BY <1>12, <2>3 DEF Takes
<1>16. Narrow(p)
  BY <1>12, <1>14, <1>15 DEF Narrow
<1>17. \A j : Steady(p, j)
  BY <1>7, <1>8, <1>12 DEF Steady
<1>18. ASSUME NEW j, p \in Workers(j), NEW X \in SUBSET Pipes, NEW s, PlainInv(j, X, s)
       PROVE  p \in Workers(j)' /\ Follows(p)
  <2>1. HasRole(p, j, X, s) /\ PlainLine(proc[p])
    BY <1>12, <1>18 DEF PlainInv
  <2>2. proc[p].io = ""
    BY <2>1 DEF PlainLine
  <2>3. a \in {"make", "copy"}
    BY <1>1, <1>2, <2>1 DEF HasRole, Plays
  <2>4. Outlet(p)' = Outlet(p) /\ Inlet(p)' = Inlet(p)
    BY <1>5, <1>13, <2>2
  <2>5. proc'[p].pc = a /\ proc'[p].pc \notin Shells
    BY <1>7, <1>8, <2>3 DEF Shells
  <2>6. /\ p \in Workers(j)' <=> p \in Workers(j)
        /\ \A x : Puts(p, x)' <=> Puts(p, x)
        /\ \A k : Takes(p, k)' <=> Takes(p, k)
    BY <1>12, <2>4, <2>5, KeepsEnds
  <2>7. ASSUME NEW k \in {"make", "copy"}, Plays(p, k) PROVE Plays(p, k)'
    BY <1>1, <1>2, <2>5, <2>7 DEF Plays
  <2> QED BY <1>12, <1>18, <2>4, <2>6, <2>7 DEF Follows
<1>19. \A j : p \in Workers(j) => MayChange(p, j)
  BY <1>18 DEF MayChange
<1>20. UNCHANGED <<pipe, typed, shown, excused, layout>>
  BY DEF Execve
<1> QED BY <1>8, <1>11, <1>16, <1>17, <1>19, <1>20, StillDeliver

-----------------------------------------------------------------------------
(***************************************************************************)
(* A write: nobody reads, or a file takes it, or it goes into a sink.      *)
(***************************************************************************)

NobodyReads(p) == \A x \in Sinks : Puts(p, x) => x \in Pipes /\ Readers(x) = {}
WriteEnds(b, p) == proc' = Dead(p) /\ pipe' = b /\ shown' = shown /\ NobodyReads(p)
WriteFiles(b, p, r) ==
  /\ proc' = [proc EXCEPT ![p] = r] /\ pipe' = b /\ shown' = shown
  /\ \A x \in Sinks : ~Puts(p, x)
WriteSinks(b, p, u, r, x) ==
  /\ proc' = [proc EXCEPT ![p] = r] /\ Puts(p, x)
  /\ pipe' = IF x \in Pipes THEN [b EXCEPT ![x] = Append(b[x], u)] ELSE b
  /\ shown' = IF x = 0 /\ u # Note THEN [shown EXCEPT ![u.job] = Append(shown[u.job], u.n)]
              ELSE shown

\* The three outcomes of a write.
LEMMA WriteCases ==
  ASSUME TypeInv, NEW p \in Procs, Alive(p), proc[p].pc # "writer",
         NEW b, NEW u, NEW r, WriteFrom(b, p, u, r)
  PROVE  /\ typed' = typed /\ excused' = excused
         /\ \/ WriteEnds(b, p) \/ WriteFiles(b, p, r)
            \/ \E x \in Sinks : WriteSinks(b, p, u, r, x)
<1>0. typed' = typed /\ excused' = excused
  BY DEF WriteFrom
<1>1. Outlet(p) = proc[p].out
  BY DEF Outlet
<1>2. proc[p].out \in {Tty, File, Closed} \union {W(i) : i \in Pipes}
  BY DEF TypeInv, ProcType
<1>3. CASE proc[p].out = Tty
  <2>1. Puts(p, 0) /\ 0 \in Sinks /\ 0 \notin Pipes /\ Tty[1] = 0 /\ Tty # Closed
    BY <1>1, <1>3, Descriptors DEF Puts
  <2>2. /\ proc' = [proc EXCEPT ![p] = r] /\ pipe' = b
        /\ shown' = IF u # Note THEN [shown EXCEPT ![u.job] = Append(@, u.n)] ELSE shown
    BY <1>3, <2>1 DEF WriteFrom
  <2>3. WriteSinks(b, p, u, r, 0)
    BY <2>1, <2>2 DEF WriteSinks
  <2> QED BY <1>0, <2>1, <2>3
<1>4. CASE proc[p].out = File
  <2>1. (\A x \in Sinks : ~Puts(p, x)) /\ 0 \notin Pipes /\ File[1] = 0 /\ File # Closed /\ File # Tty
    BY <1>1, <1>4, Descriptors DEF Puts
  <2>2. proc' = [proc EXCEPT ![p] = r] /\ pipe' = b /\ shown' = shown
    BY <1>4, <2>1 DEF WriteFrom
  <2> QED BY <1>0, <2>1, <2>2 DEF WriteFiles
<1>5. CASE proc[p].out = Closed
  <2>1. (\A x \in Sinks : ~Puts(p, x)) /\ 0 \notin Pipes /\ Closed[1] = 0 /\ Closed # Tty
    BY <1>1, <1>5, Descriptors DEF Puts
  <2>2. proc' = Dead(p) /\ pipe' = b /\ shown' = shown
    BY <1>5, <2>1 DEF WriteFrom
  <2> QED BY <1>0, <2>1, <2>2 DEF WriteEnds, NobodyReads
<1>6. ASSUME NEW i \in Pipes, proc[p].out = W(i)
      PROVE  WriteEnds(b, p) \/ \E x \in Sinks : WriteSinks(b, p, u, r, x)
  <2>1. /\ i \in Sinks /\ i # 0 /\ Puts(p, i) /\ W(i)[1] = i /\ W(i) # Closed /\ W(i) # Tty
    BY <1>1, <1>6, Descriptors DEF Puts
  <2>2. shown' = shown
    BY <1>6, <2>1 DEF WriteFrom
  <2>3. CASE Readers(i) = {}
    <3>1. proc' = Dead(p) /\ pipe' = b
      BY <1>6, <2>1, <2>3 DEF WriteFrom
    <3>2. NobodyReads(p)
      BY <2>1, <2>3, PutsOne DEF NobodyReads
    <3> QED BY <2>2, <3>1, <3>2 DEF WriteEnds
  <2>4. CASE Readers(i) # {}
    <3>1. proc' = [proc EXCEPT ![p] = r] /\ pipe' = [b EXCEPT ![i] = Append(@, u)]
      BY <1>6, <2>1, <2>4 DEF WriteFrom
    <3>2. WriteSinks(b, p, u, r, i)
      BY <2>1, <2>2, <3>1 DEF WriteSinks
    <3> QED BY <2>1, <3>2
  <2> QED BY <2>3, <2>4
<1> QED BY <1>0, <1>2, <1>3, <1>4, <1>5, <1>6

\* In a plain line somebody reads.
LEMMA PlainReads ==
  ASSUME TypeInv, NEW p \in Procs, NobodyReads(p), NEW j, p \in Workers(j)
  PROVE  MayEnd(p, j)
<1> SUFFICES ASSUME NEW X \in SUBSET Pipes, NEW s, PlainInv(j, X, s)
             PROVE  FALSE
  BY DEF MayEnd
<1>1. PICK x \in Sinks : Puts(p, x) /\ (x \in Pipes => \E r \in Workers(j) : Takes(r, x))
  BY DEF PlainInv, Heard
<1>2. x \in Pipes /\ Readers(x) = {}
  BY <1>1 DEF NobodyReads
<1>3. PICK r \in Procs : Takes(r, x)
  BY <1>1, <1>2 DEF Workers
<1> QED BY <1>2, <1>3, TakesHolds

\* Messages are no data.
LEMMA NoteKeeps ==
  ASSUME TypeInv, NEW p \in Procs, NEW r,
         \/ pipe' = pipe
         \/ \E x \in Pipes : pipe' = [pipe EXCEPT ![x] = Append(pipe[x], Note)],
         typed' = typed, shown' = shown
  PROVE  /\ PipeType' /\ \A j \in 1 .. Len(typed) : shown'[j] = shown[j]
         /\ \A j \in 1 .. Len(typed) : \A i \in Pipes : KeepsPipe(i, j) \/ LosesOne(i, j)
<1>0. PipeType /\ Len(typed) \in Nat
  BY DEF TypeInv, PipeType
<1>1. CASE pipe' = pipe
  BY <1>0, <1>1, SamePipe DEF PipeType
<1>2. ASSUME NEW x \in Pipes, pipe' = [pipe EXCEPT ![x] = Append(pipe[x], Note)]
      PROVE  PipeType' /\ \A j \in 1 .. Len(typed) : \A i \in Pipes : KeepsPipe(i, j)
  <2>1. Note \in Unit(Len(typed)) /\ Note.job = 0
    BY <1>0 DEF Note, Unit
  <2>2. /\ pipe[x] \in Seq(Unit(Len(typed))) /\ pipe'[x] = Append(pipe[x], Note)
        /\ \A i \in Pipes : i # x => pipe'[i] = pipe[i]
    BY <1>0, <1>2 DEF PipeType
  <2>3. Append(pipe[x], Note) \in Seq(Unit(Len(typed)))
    BY <2>1, <2>2
  <2>4. pipe' \in [Pipes -> Seq(Unit(Len(typed)))]
    BY <1>0, <1>2, <2>3 DEF PipeType
  <2>5. PipeType'
    BY <1>0, <2>4 DEF PipeType
  <2>6. ASSUME NEW j \in 1 .. Len(typed), NEW i \in Pipes PROVE KeepsPipe(i, j)
    <3>1. CASE i # x
      BY <2>2, <3>1, SamePipe
    <3>2. CASE i = x
      <4>1. Note.job # j
        BY <1>0, <2>1
      <4>2. /\ NoneOf(pipe[x], j) => NoneOf(Append(pipe[x], Note), j)
            /\ \A lo, hi \in Nat : InOrder(pipe[x], j, lo, hi) =>
                 InOrder(Append(pipe[x], Note), j, lo, hi)
        BY <2>1, <2>2, <4>1, OrderOther
      <4> QED BY <2>2, <3>2, <4>2 DEF KeepsPipe
    <3> QED BY <3>1, <3>2
  <2> QED BY <2>5, <2>6
<1> QED BY <1>1, <1>2

\* A message is written.
LEMMA NoteDeliver ==
  ASSUME Shape, DeliverInv, NEW p \in Procs, Alive(p), proc[p].pc # "writer",
         NEW r, WriteFrom(pipe, p, Note, r), ProcType(r, Len(typed)),
         proc'[p] = r => Narrow(p) /\ \A j \in 1 .. Len(typed) : Steady(p, j),
         proc'[p] = r => \A j \in 1 .. Len(typed) : p \in Workers(j) => MayChange(p, j)
  PROVE  DeliverInv'
<1>0. TypeInv
  BY DEF DeliverInv
<1>1. /\ typed' = typed /\ excused' = excused
      /\ \/ WriteEnds(pipe, p) \/ WriteFiles(pipe, p, r)
         \/ \E x \in Sinks : WriteSinks(pipe, p, Note, r, x)
  BY <1>0, WriteCases
<1>2. /\ shown' = shown
      /\ \/ pipe' = pipe
         \/ \E x \in Pipes : pipe' = [pipe EXCEPT ![x] = Append(pipe[x], Note)]
  BY <1>1 DEF WriteEnds, WriteFiles, WriteSinks
<1>3. /\ PipeType' /\ \A j \in 1 .. Len(typed) : shown'[j] = shown[j]
      /\ \A j \in 1 .. Len(typed) : \A i \in Pipes : KeepsPipe(i, j) \/ LosesOne(i, j)
  BY <1>0, <1>1, <1>2, NoteKeeps
<1>4. CASE proc' = [proc EXCEPT ![p] = r]
  <2>1. proc'[p] = r
    BY <1>4 DEF Shape
  <2> QED BY <1>1, <1>3, <1>4, <2>1, ChangeDeliver
<1>5. CASE proc' = Dead(p) /\ NobodyReads(p)
  BY <1>0, <1>1, <1>3, <1>5, PlainReads, EndsDeliver
<1> QED BY <1>1, <1>4, <1>5 DEF WriteEnds, WriteFiles, WriteSinks

\* The prompt.
LEMMA GetInputDeliver ==
  ASSUME Shape, DeliverInv, NEW p \in Procs, GetInput(p)
  PROVE  DeliverInv'
<1>1. PICK r : r = [proc[p] EXCEPT !.pc = "read"]
  OBVIOUS
<1>2. proc[p].pc = "greet" /\ WriteFrom(pipe, p, Note, r)
  BY <1>1 DEF GetInput, Write
<1>3. /\ proc[p].pc \in Shells /\ "read" \in Shells /\ TypeInv /\ Alive(p)
      /\ proc[p].pc # "writer"
  BY <1>2 DEF Shells, DeliverInv, Alive
<1>4. ProcType(r, Len(typed))
  <2>1. /\ r.pc = "read" /\ r.in = proc[p].in /\ r.out = proc[p].out /\ r.pd = proc[p].pd
        /\ r.job = proc[p].job /\ r.left = proc[p].left
    BY <1>1 DEF Shape, Fields
  <2>2. ProcType(proc[p], Len(typed))
    BY <1>3 DEF TypeInv
  <2> QED BY <1>2, <2>1, <2>2 DEF ProcType, Pre, Shells, Gone
<1>5. ASSUME proc'[p] = r PROVE Narrow(p) /\ \A j : Steady(p, j)
  BY <1>1, <1>3, <1>5, ShellMoves
<1>6. \A j : p \notin Workers(j)
  BY <1>3, ShellIsNone
<1> QED BY <1>2, <1>3, <1>4, <1>5, <1>6, NoteDeliver

\* The messages of run() and handlePipes(), and those of linuxExe(): the process is
\* one step nearer to execve().
LEMMA TellsDeliver ==
  ASSUME Shape, DeliverInv, NEW p \in Procs, HasPipe(p) \/ LinuxExe(p)
  PROVE  DeliverInv'
<1>1. PICK next, r :
        /\ next \in {"pipe", "io"} /\ r = [proc[p] EXCEPT !.pc = next] /\ WriteFrom(pipe, p, Note, r)
        /\ proc[p].pc \in {"tell", "exe"}
  BY DEF HasPipe, LinuxExe, Write
<1>2. proc[p].pc \in {"tell", "exe"} /\ WriteFrom(pipe, p, Note, r)
  BY <1>1
<1>3. TypeInv /\ Alive(p) /\ proc[p].pc # "writer" /\ ProcType(proc[p], Len(typed))
  BY <1>2 DEF DeliverInv, Alive, TypeInv
<1>4. /\ r.pc \in {"pipe", "io"} /\ r.in = proc[p].in /\ r.out = proc[p].out /\ r.pd = proc[p].pd
      /\ r.job = proc[p].job /\ r.left = proc[p].left /\ r.line = proc[p].line
      /\ r.io = proc[p].io
  BY <1>1 DEF Shape, Fields
<1>5. ProcType(r, Len(typed))
  BY <1>2, <1>3, <1>4 DEF ProcType, Pre, Shells, Gone
<1>6. ASSUME proc'[p] = r
      PROVE  Narrow(p) /\ (\A j : Steady(p, j)) /\ (\A j : p \in Workers(j) => MayChange(p, j))
  <2>1. /\ Alive(p)' /\ proc[p].pc \notin Shells /\ proc'[p].pc \notin Shells
        /\ proc[p].pc \in Pre /\ proc'[p].pc \in Pre /\ MayCopy(p) /\ ~Makes(p)'
        /\ proc'[p].job = proc[p].job
    BY <1>2, <1>4, <1>6 DEF Alive, Shells, Pre, MayCopy, Makes
  <2>2. Outlet(p)' = Outlet(p) /\ Inlet(p)' = Inlet(p)
    BY <1>2, <1>4, <1>6 DEF Outlet, Inlet
  <2>3. /\ Narrow(p)
        /\ \A j : p \in Workers(j)' <=> p \in Workers(j)
        /\ \A x : Puts(p, x)' <=> Puts(p, x)
        /\ \A k : Takes(p, k)' <=> Takes(p, k)
    BY <1>3, <2>1, <2>2, KeepsEnds
  <2>4. Follows(p)
    BY <1>2, <1>4, <1>6, <2>1, <2>2, <2>3 DEF Follows, Plays
  <2> QED BY <2>1, <2>3, <2>4 DEF MayChange, Steady
<1> QED BY <1>2, <1>3, <1>5, <1>6, NoteDeliver

-----------------------------------------------------------------------------
(***************************************************************************)
(* The programs.                                                           *)
(***************************************************************************)

KeepsSeq(s, t, j) ==
  /\ NoneOf(s, j) => NoneOf(t, j)
  /\ \A lo, hi \in Nat : InOrder(s, j, lo, hi) => InOrder(t, j, lo, hi)

\* A unit goes into a sink: what else is there stays.
LEMMA SinkShows ==
  ASSUME TypeInv, NEW p, NEW r, NEW u, NEW x, NEW b, WriteSinks(b, p, u, r, x),
         NEW j \in 1 .. Len(typed), u.job # j
  PROVE  shown'[j] = shown[j]
<1>0. Len(typed) \in Nat /\ Len(typed) <= MaxLines /\ shown \in [1 .. MaxLines -> Seq(Nat)]
      /\ MaxLines \in Nat
  BY Bounds DEF TypeInv, PipeType
<1> QED BY <1>0 DEF WriteSinks

\* The jobs that the unit is not of.
LEMMA SinkKeeps ==
  ASSUME NEW p, NEW r, NEW u \in Unit(Len(typed)), NEW x \in Sinks,
         NEW b, b \in [Pipes -> Seq(Unit(Len(typed)))], WriteSinks(b, p, u, r, x),
         NEW j, u.job # j, NEW i \in Pipes, KeepsSeq(pipe[i], b[i], j)
  PROVE  KeepsPipe(i, j)
<1>2. CASE i = x
  <2>1. pipe'[i] = Append(b[i], u)
    BY <1>2 DEF WriteSinks
  <2>2. b[i] \in Seq(Unit(Len(typed)))
    OBVIOUS
  <2>3. KeepsSeq(b[i], Append(b[i], u), j)
    BY <2>2, OrderOther DEF KeepsSeq
  <2> QED BY <2>1, <2>3 DEF KeepsSeq, KeepsPipe
<1>3. CASE i # x
  <2>1. pipe'[i] = b[i]
    BY <1>3 DEF WriteSinks
  <2> QED BY <2>1 DEF KeepsSeq, KeepsPipe
<1> QED BY <1>2, <1>3

\* The types after a write.
LEMMA SinkTypes ==
  ASSUME TypeInv, NEW p, NEW r, NEW u \in Unit(Len(typed)), NEW x \in Sinks, typed' = typed,
         NEW b, b \in [Pipes -> Seq(Unit(Len(typed)))], WriteSinks(b, p, u, r, x)
  PROVE  PipeType'
<1>0. PipeType /\ shown \in [1 .. MaxLines -> Seq(Nat)] /\ Len(typed) \in Nat
  BY DEF TypeInv, PipeType
<1>u. u.job \in 0 .. Len(typed) /\ u.n \in Nat
  BY DEF Unit
<1>1. pipe' \in [Pipes -> Seq(Unit(Len(typed)))]
  <2>1. CASE x \in Pipes
    <3>1. Append(b[x], u) \in Seq(Unit(Len(typed)))
      <4>1. b[x] \in Seq(Unit(Len(typed)))
        BY <2>1
      <4> QED BY <4>1
    <3> QED BY <2>1, <3>1 DEF WriteSinks
  <2>2. CASE x \notin Pipes
    BY <2>2 DEF WriteSinks
  <2> QED BY <2>1, <2>2
<1>2. CASE shown' = shown
  BY <1>0, <1>1, <1>2 DEF PipeType
<1>3. CASE shown' # shown
  <2>1. shown' = [shown EXCEPT ![u.job] = Append(shown[u.job], u.n)]
    BY <1>3 DEF WriteSinks
  <2>2. u.job \in 1 .. MaxLines
    BY <1>0, <1>3, <2>1
  <2>3. Append(shown[u.job], u.n) \in Seq(Nat)
    <3>1. shown[u.job] \in Seq(Nat)
      BY <1>0, <2>2
    <3> QED BY <1>u, <3>1
  <2>4. shown' \in [1 .. MaxLines -> Seq(Nat)]
    BY <1>0, <2>1, <2>3
  <2>5. \A j \in Len(typed) + 1 .. MaxLines : shown'[j] = <<>>
    <3>1. \A j \in Len(typed) + 1 .. MaxLines :
            j \in 1 .. MaxLines /\ j # u.job /\ shown[j] = <<>>
      BY <1>0, <1>u, Bounds DEF PipeType
    <3> QED BY <1>0, <2>1, <3>1
  <2> QED BY <1>0, <1>1, <2>4, <2>5 DEF PipeType
<1> QED BY <1>2, <1>3

\* "quit", and "copy" of nothing, are not in a plain line.
LEMMA StopsDeliver ==
  ASSUME Shape, DeliverInv, NEW p \in Procs, Leave(p) \/ EndOfInput(p)
  PROVE  DeliverInv'
<1>1. Ends(p)
  BY DEF Leave, EndOfInput
<1>2. proc[p].pc = "quit" \/ (proc[p].pc = "copy" /\ proc[p].in \in {Closed, Tty})
  BY DEF Leave, EndOfInput
<1>3. ASSUME NEW j, p \in Workers(j), NEW X \in SUBSET Pipes, NEW s, PlainInv(j, X, s)
      PROVE  FALSE
  <2>1. HasRole(p, j, X, s)
    BY <1>3 DEF PlainInv
  <2>2. proc[p].pc = "copy" /\ \E i \in X : Takes(p, i)
    BY <1>2, <2>1 DEF HasRole, Plays, Pre
  <2> QED BY <1>2, <2>2, Descriptors DEF Takes, Inlet
<1>4. \A j \in 1 .. Len(typed) : p \in Workers(j) => MayEnd(p, j)
  BY <1>3 DEF MayEnd
<1> QED BY <1>1, <1>4, JustEnds

\* A program that has written everything ends.
LEMMA ProduceEnds ==
  ASSUME Shape, DeliverInv, NEW p \in Procs, Produce(p), proc[p].left = 0
  PROVE  DeliverInv'
<1>1. Ends(p) /\ Makes(p)
  BY DEF Produce, Makes
<1>2. ASSUME NEW j, p \in Workers(j), NEW X \in SUBSET Pipes, NEW s, Counts(s),
             JobInv(j, X, s), PlainInv(j, X, s)
      PROVE  /\ \A x \in Sinks : Puts(p, x) => s[x] = UNITS
             /\ \A i \in Pipes : ~Takes(p, i)
  <2>1. HasRole(p, j, X, s)
    BY <1>2 DEF PlainInv
  <2>2. ASSUME NEW x \in Sinks, Puts(p, x) PROVE s[x] = UNITS
    <3>1. s[x] + 0 = UNITS
      BY <1>1, <1>2, <2>2 DEF JobInv
    <3>2. s[x] \in Nat
      BY <1>2, Bounds DEF Counts
    <3> QED BY <3>1, <3>2
  <2>3. proc[p].in \in {Tty, File} /\ Inlet(p) = proc[p].in
    BY <1>1, <2>1 DEF HasRole, Plays, Makes, Pre, Inlet
  <2>4. \A i \in Pipes : ~Takes(p, i)
    BY <2>3, Descriptors DEF Takes
  <2> QED BY <2>2, <2>4
<1>3. \A j \in 1 .. Len(typed) : p \in Workers(j) => MayEnd(p, j)
  BY <1>2 DEF MayEnd
<1> QED BY <1>1, <1>3, JustEnds

\* A program writes its next unit.
LEMMA ProduceDeliver ==
  ASSUME Shape, DeliverInv, NEW p \in Procs, Produce(p), proc[p].left # 0
  PROVE  DeliverInv'
<1>0. TypeInv /\ ProcType(proc[p], Len(typed)) /\ PipeType /\ Len(typed) \in Nat
  BY DEF DeliverInv, TypeInv, PipeType
<1>1. Makes(p) /\ proc[p].pc \in {"make", "copy"}
  BY DEF Produce, Makes
<1>2. PICK k, l : k = proc[p].job /\ l = proc[p].left
  OBVIOUS
<1>3. k \in 1 .. Len(typed) /\ l \in 1 .. UNITS /\ UNITS \in Nat
  <2>1. k \in 0 .. Len(typed) /\ k # 0 /\ l \in 0 .. UNITS /\ l # 0
    BY <1>0, <1>1, <1>2 DEF ProcType, Gone, Shells
  <2> QED BY <1>0, <2>1, Bounds
<1>4. PICK r : r = [proc[p] EXCEPT !.left = l - 1]
  OBVIOUS
<1>5. /\ r.pc = proc[p].pc /\ r.in = proc[p].in /\ r.out = proc[p].out /\ r.pd = proc[p].pd
      /\ r.job = proc[p].job /\ r.left = l - 1 /\ r.line = proc[p].line
      /\ r.io = proc[p].io
  BY <1>4 DEF Shape, Fields
<1>6. ProcType(r, Len(typed))
  <2>1. l - 1 \in 0 .. UNITS
    BY <1>3
  <2> QED BY <1>0, <1>5, <2>1 DEF ProcType
<1>7. PICK u : u = [job |-> k, n |-> UNITS + 1 - l]
  OBVIOUS
<1>8. u \in Unit(Len(typed)) /\ u.job = k /\ u.n = UNITS + 1 - l /\ u # Note
  <2>1. UNITS + 1 - l \in Nat /\ k \in 0 .. Len(typed) /\ k # 0
    BY <1>0, <1>3
  <2>2. u.job = k /\ u.n = UNITS + 1 - l /\ u \in Unit(Len(typed))
    BY <1>7, <2>1 DEF Unit
  <2> QED BY <2>1, <2>2 DEF Note
<1>9. WriteFrom(pipe, p, u, r)
  BY <1>2, <1>4, <1>7 DEF Produce, Write
<1>10. Alive(p) /\ proc[p].pc # "writer" /\ p \in Workers(k) /\ proc[p].pc \notin Pre
       /\ proc[p].pc \notin Shells
  BY <1>1, <1>2 DEF Alive, Workers, Shells, Pre
<1>11. /\ typed' = typed /\ excused' = excused
       /\ \/ WriteEnds(pipe, p) \/ WriteFiles(pipe, p, r)
          \/ \E x \in Sinks : WriteSinks(pipe, p, u, r, x)
  BY <1>0, <1>9, <1>10, WriteCases
<1>12. ASSUME proc' = [proc EXCEPT ![p] = r]
       PROVE  /\ Narrow(p) /\ Follows(p) /\ Alive(p)' /\ proc'[p] = r
              /\ \A j : p \in Workers(j)' <=> p \in Workers(j)
              /\ \A x : Puts(p, x)' <=> Puts(p, x)
  <2>1. proc'[p] = r
    BY <1>12 DEF Shape
  <2>2. Alive(p)' /\ proc'[p].pc \notin Shells /\ (MayCopy(p)' => MayCopy(p))
        /\ proc'[p].pc \notin Pre /\ proc'[p].job = proc[p].job
    BY <1>5, <1>10, <2>1 DEF Alive, MayCopy
  <2>3. Outlet(p)' = Outlet(p) /\ Inlet(p)' = Inlet(p)
    BY <1>1, <1>5, <2>1 DEF Outlet, Inlet
  <2>4. /\ Narrow(p)
        /\ \A j : p \in Workers(j)' <=> p \in Workers(j)
        /\ \A x : Puts(p, x)' <=> Puts(p, x)
        /\ \A i : Takes(p, i)' <=> Takes(p, i)
    BY <1>10, <2>2, <2>3, KeepsEnds
  <2>5. Follows(p)
    BY <1>5, <1>10, <2>1, <2>3, <2>4 DEF Follows, Plays
  <2> QED BY <2>1, <2>2, <2>4, <2>5
<1>13. ASSUME pipe' = pipe, shown' = shown
       PROVE  /\ PipeType' /\ \A j \in 1 .. Len(typed) : shown'[j] = shown[j]
              /\ \A j \in 1 .. Len(typed) : \A i \in Pipes : KeepsPipe(i, j) \/ LosesOne(i, j)
  BY <1>0, <1>11, <1>13, SamePipe DEF PipeType
<1>14. CASE WriteEnds(pipe, p)
  <2>1. proc' = Dead(p) /\ pipe' = pipe /\ shown' = shown /\ NobodyReads(p)
    BY <1>14 DEF WriteEnds
  <2> QED BY <1>0, <1>11, <1>13, <2>1, PlainReads, EndsDeliver
<1>15. CASE WriteFiles(pipe, p, r)
  <2>1. /\ proc' = [proc EXCEPT ![p] = r] /\ pipe' = pipe /\ shown' = shown
        /\ \A x \in Sinks : ~Puts(p, x)
    BY <1>15 DEF WriteFiles
  <2>2. \A j : Steady(p, j)
    BY <1>12, <2>1 DEF Steady
  <2>3. \A j : p \in Workers(j) => MayChange(p, j)
    BY <1>12, <2>1 DEF MayChange
  <2> QED BY <1>6, <1>11, <1>12, <1>13, <2>1, <2>2, <2>3, ChangeDeliver
<1>16. ASSUME NEW x \in Sinks, WriteSinks(pipe, p, u, r, x) PROVE DeliverInv'
  <2>1. proc' = [proc EXCEPT ![p] = r] /\ Puts(p, x)
    BY <1>16 DEF WriteSinks
  <2>2. /\ Narrow(p) /\ Follows(p) /\ Alive(p)' /\ proc'[p] = r
        /\ \A j : p \in Workers(j)' <=> p \in Workers(j)
        /\ \A y : Puts(p, y)' <=> Puts(p, y)
    BY <1>12, <2>1
  <2>3. \A q \in Procs \ {p} : SameView(q)
    BY <2>1, ChangeViews
  <2>4. \A q \in Procs : Narrow(q)
    BY <2>2, <2>3, SameNarrow
  <2>b. pipe \in [Pipes -> Seq(Unit(Len(typed)))] /\ shown \in [1 .. MaxLines -> Seq(Nat)]
    BY <1>0 DEF PipeType
  <2>5. TypeInv'
    <3>1. \A q \in Procs : ProcType(proc'[q], Len(typed))
      BY <1>0, <1>6, <2>1, ChangeTypes
    <3>2. PipeType'
      BY <1>0, <1>8, <1>11, <1>16, <2>b, SinkTypes
    <3> QED BY <1>11, <3>1, <3>2 DEF TypeInv
  <2>6. ASSUME NEW j \in 1 .. Len(typed), j # k PROVE Quiet(j)
    <3>1. p \notin Workers(j)'
      BY <1>2, <1>12, <2>1, <2>6 DEF Workers
    <3>2. \A q \in Procs : Steady(q, j)
      BY <2>3, <3>1, SameNarrow DEF Steady
    <3>3. \A i \in Pipes : KeepsSeq(pipe[i], pipe[i], j)
      BY DEF KeepsSeq
    <3>4. ASSUME NEW i \in Pipes PROVE KeepsPipe(i, j)
      <4>1. u.job # j /\ KeepsSeq(pipe[i], pipe[i], j) /\ u \in Unit(Len(typed))
        BY <1>8, <2>6, <3>3
      <4> QED BY <1>16, <2>b, <4>1, SinkKeeps
    <3>5. shown'[j] = shown[j]
      BY <1>0, <1>8, <1>16, <2>6, SinkShows
    <3> QED BY <3>2, <3>4, <3>5 DEF Quiet
  <2>7. ASSUME NEW X \in SUBSET Pipes, NEW s, Counts(s), JobInv(k, X, s)
        PROVE  Carries(p, Workers(k), X) /\ s[x] + 1 <= UNITS /\ Moves(p, x, k, s[x] + 1)
    <3>1. Carries(p, Workers(k), X)
      BY <1>10 DEF Carries
    <3>2. s[x] \in Nat
      BY <2>7, Bounds DEF Counts
    <3>3. s[x] + l = UNITS
      BY <1>1, <1>2, <1>10, <2>1, <2>7 DEF JobInv
    <3>4. s[x] + 1 <= UNITS /\ UNITS + 1 - l = s[x] + 1
      BY <1>3, <3>2, <3>3
    <3>5. Moves(p, x, k, s[x] + 1)
      <4>1. x \in Pipes => pipe'[x] = Append(pipe[x], [job |-> k, n |-> s[x] + 1])
        BY <1>7, <1>16, <2>b, <3>4 DEF WriteSinks
      <4>2. shown'[k] = IF x = 0 THEN Append(shown[k], s[x] + 1) ELSE shown[k]
        <5>1. k \in 1 .. MaxLines
          BY <1>0, <1>3, Bounds DEF PipeType
        <5> QED BY <1>8, <1>16, <2>b, <3>4, <5>1 DEF WriteSinks
      <4>3. ASSUME NEW i \in Pipes \ {x} PROVE KeepsPipe(i, k)
        <5>1. pipe'[i] = pipe[i]
          BY <1>16, <2>b DEF WriteSinks
        <5> QED BY <5>1, SamePipe
      <4>4. \A i \in Pipes : ~(Takes(p, i) /\ MayCopy(p))
        BY <1>1, Descriptors DEF Takes, Inlet, MayCopy, Makes, Pre
      <4>5. \A q \in Procs \ {p} : Steady(q, k)
        BY <2>3, SameNarrow
      <4>6. Makes(p) /\ proc[p].left # 0 /\ proc'[p].left = proc[p].left - 1
        BY <1>1, <1>2, <1>5, <2>2
      <4> QED BY <1>10, <2>1, <4>1, <4>2, <4>3, <4>4, <4>5, <4>6 DEF Moves
    <3> QED BY <3>1, <3>4, <3>5
  <2>8. ASSUME NEW q \in Procs, Alive(q) PROVE Alive(q)' /\ Follows(q)
    BY <2>2, <2>3, <2>8, SameFollows DEF SameView
  <2>9. ASSUME NEW q \in Procs, Alive(q), proc'[q].pc \in Shells PROVE proc[q].pc \in Shells
    BY <1>5, <2>2, <2>3, <2>9, SameFields
  <2> QED BY <1>3, <1>11, <2>4, <2>5, <2>6, <2>7, <2>8, <2>9, MoveDeliver
<1> QED BY <1>11, <1>14, <1>15, <1>16

\* "copy" of a pipe reads from it.
LEMMA CopyTakes ==
  ASSUME TypeInv, NEW p \in Procs, proc[p].pc = "copy", proc[p].in[1] \in Pipes
  PROVE  /\ Takes(p, proc[p].in[1]) /\ MayCopy(p) /\ ~Makes(p) /\ Alive(p)
         /\ proc[p].pc \notin Pre /\ proc[p].pc \notin Shells /\ proc[p].pc # "writer"
<1>1. proc[p].in \in {Tty, File, Closed} \union {R(k) : k \in Pipes}
  BY DEF TypeInv, ProcType
<1>2. PICK k \in Pipes : proc[p].in = R(k)
  BY <1>1, Descriptors
<1>3. Takes(p, k) /\ proc[p].in[1] = k /\ proc[p].in # File
  BY <1>2, Descriptors DEF Takes, Alive, Inlet
<1> QED BY <1>3 DEF MayCopy, Makes, Alive, Pre, Shells

\* The end of file.
LEMMA CopyEnds ==
  ASSUME Shape, DeliverInv, NEW p \in Procs, Copy(p), pipe[proc[p].in[1]] = <<>>
  PROVE  DeliverInv'
<1>1. PICK i \in Pipes : i = proc[p].in[1] /\ pipe[i] = <<>> /\ Writers(i) = {}
  BY DEF Copy
<1>0. TypeInv /\ Ends(p)
  BY <1>1 DEF DeliverInv, Copy
<1>2. Takes(p, i) /\ MayCopy(p) /\ proc[p].pc = "copy"
  BY <1>0, <1>1, CopyTakes DEF Copy
<1>3. \A w \in Procs : ~Puts(w, i)
  BY <1>0, <1>1, PutsHolds
<1>4. ASSUME NEW j, p \in Workers(j), NEW X \in SUBSET Pipes, NEW s, Counts(s),
             JobInv(j, X, s), PlainInv(j, X, s), NEW x \in Sinks, Puts(p, x)
      PROVE  s[x] = UNITS
  <2>1. HasRole(p, j, X, s)
    BY <1>4 DEF PlainInv
  <2>2. PICK k \in X : Takes(p, k) /\ Fed(j, k, s)
    BY <1>2, <2>1 DEF HasRole, Plays, Pre
  <2>3. k = i
    BY <1>2, <2>2, TakesOne
  <2>4. s[i] = UNITS
    BY <1>3, <2>2, <2>3 DEF Fed, Workers
  <2>5. Flows(i, j, s)
    BY <1>4, <2>3 DEF JobInv
  <2>6. PICK lo \in 0 .. s[i] :
          /\ InOrder(pipe[i], j, lo, s[i])
          /\ \A q \in Procs, y \in Sinks : Takes(q, i) /\ MayCopy(q) /\ Puts(q, y) => lo = s[y]
    BY <2>5 DEF Flows
  <2>7. lo = s[x]
    BY <1>2, <1>4, <2>6
  <2>8. lo = UNITS
    <3>0. DOMAIN pipe[i] = {}
      BY <1>1
    <3>1. \A n \in lo + 1 .. UNITS : FALSE
      BY <2>4, <2>6, <3>0 DEF InOrder
    <3>2. lo \in 0 .. UNITS /\ UNITS \in Nat
      BY <2>4, Bounds
    <3>3. lo # UNITS => lo + 1 \in lo + 1 .. UNITS
      BY <3>2
    <3> QED BY <3>1, <3>3
  <2> QED BY <2>7, <2>8
<1>5. ASSUME NEW j \in 1 .. Len(typed), p \in Workers(j) PROVE MayEnd(p, j)
  <2>1. ASSUME NEW k \in Pipes, NEW w \in Workers(j), Takes(p, k), Puts(w, k) PROVE w = p
    <3>1. k = i
      BY <1>2, <2>1, TakesOne
    <3> QED BY <1>3, <2>1, <3>1 DEF Workers
  <2>2. ASSUME NEW X \in SUBSET Pipes, NEW s, Counts(s), JobInv(j, X, s), PlainInv(j, X, s)
        PROVE  \A x \in Sinks : Puts(p, x) => s[x] = UNITS
    BY <1>4, <1>5, <2>2
  <2> QED BY <2>1, <2>2 DEF MayEnd
<1> QED BY <1>0, <1>5, JustEnds

\* A unit is copied.
LEMMA CopyDeliver ==
  ASSUME Shape, DeliverInv, NEW p \in Procs, Copy(p), pipe[proc[p].in[1]] # <<>>
  PROVE  DeliverInv'
<1>0. TypeInv /\ PipeType /\ Len(typed) \in Nat /\ ProcType(proc[p], Len(typed)) /\ OneTaker
  BY DEF DeliverInv, TypeInv, PipeType
<1>1. PICK i \in Pipes : i = proc[p].in[1] /\ pipe[i] # <<>>
  BY DEF Copy
<1>2. PICK b : b = [pipe EXCEPT ![i] = Tail(pipe[i])]
  OBVIOUS
<1>3. PICK u : u = Head(pipe[i])
  OBVIOUS
<1>4. WriteFrom(b, p, u, proc[p])
  BY <1>1, <1>2, <1>3 DEF Copy
<1>5. /\ Takes(p, i) /\ MayCopy(p) /\ ~Makes(p) /\ Alive(p)
      /\ proc[p].pc \notin Pre /\ proc[p].pc \notin Shells /\ proc[p].pc # "writer"
  BY <1>0, <1>1, CopyTakes DEF Copy
<1>6. pipe[i] \in Seq(Unit(Len(typed))) /\ pipe \in [Pipes -> Seq(Unit(Len(typed)))]
      /\ shown \in [1 .. MaxLines -> Seq(Nat)]
  BY <1>0 DEF PipeType
<1>7. /\ u \in Unit(Len(typed)) /\ b \in [Pipes -> Seq(Unit(Len(typed)))] /\ b[i] = Tail(pipe[i])
      /\ \A k \in Pipes : k # i => b[k] = pipe[k]
  <2>1. u \in Unit(Len(typed)) /\ Tail(pipe[i]) \in Seq(Unit(Len(typed)))
    BY <1>1, <1>3, <1>6
  <2> QED BY <1>2, <1>6, <2>1
<1>8. u.job \in 0 .. Len(typed) /\ u.n \in Nat
  BY <1>7 DEF Unit
<1>9. /\ typed' = typed /\ excused' = excused
      /\ \/ WriteEnds(b, p) \/ WriteFiles(b, p, proc[p])
         \/ \E x \in Sinks : WriteSinks(b, p, u, proc[p], x)
  BY <1>0, <1>4, <1>5, WriteCases
<1>10. ASSUME NEW j, j # u.job, NEW k \in Pipes PROVE KeepsSeq(pipe[k], b[k], j)
  <2>1. CASE k = i
    <3>1. KeepsSeq(pipe[i], Tail(pipe[i]), j)
      BY <1>1, <1>3, <1>6, <1>10, TailOther DEF KeepsSeq
    <3> QED BY <1>7, <2>1, <3>1
  <2>2. CASE k # i
    BY <1>7, <2>2 DEF KeepsSeq
  <2> QED BY <2>1, <2>2
<1>11. ASSUME NEW lo \in Nat, NEW hi \in Nat, InOrder(pipe[i], u.job, lo, hi)
       PROVE  /\ u = [job |-> u.job, n |-> lo + 1] /\ lo + 1 <= hi
              /\ InOrder(b[i], u.job, lo + 1, hi)
  <2>1. PICK j : j = u.job /\ Head(pipe[i]).job = j /\ InOrder(pipe[i], j, lo, hi)
    BY <1>3, <1>11
  <2>2. /\ Head(pipe[i]) = [job |-> j, n |-> lo + 1] /\ lo + 1 <= hi
        /\ InOrder(Tail(pipe[i]), j, lo + 1, hi)
    BY <1>1, <1>6, <2>1, TailNext
  <2> QED BY <1>3, <1>7, <2>1, <2>2
<1>12. ~NoneOf(pipe[i], u.job)
  <2>1. 1 \in DOMAIN pipe[i] /\ pipe[i][1] = u
    BY <1>1, <1>3, <1>6
  <2> QED BY <2>1 DEF NoneOf
<1>13. ASSUME pipe' = b, shown' = shown, \A q \in Procs \ {p} : SameView(q),
              \A x \in Sinks : ~Puts(p, x)'
       PROVE  /\ PipeType' /\ \A j \in 1 .. Len(typed) : shown'[j] = shown[j]
              /\ \A j \in 1 .. Len(typed) : \A k \in Pipes : KeepsPipe(k, j) \/ LosesOne(k, j)
  <2>1. PipeType'
    BY <1>0, <1>7, <1>9, <1>13 DEF PipeType
  <2>2. ASSUME NEW j \in 1 .. Len(typed), NEW k \in Pipes PROVE KeepsPipe(k, j) \/ LosesOne(k, j)
    <3>1. CASE j # u.job
      <4>1. KeepsSeq(pipe[k], b[k], j)
        BY <1>10, <3>1
      <4> QED BY <1>13, <4>1 DEF KeepsSeq, KeepsPipe
    <3>2. CASE k # i
      BY <1>7, <1>13, <3>2, SamePipe
    <3>3. CASE j = u.job /\ k = i
      <4>1. ASSUME NEW q \in Procs, NEW x \in Sinks, Takes(q, i)', Puts(q, x)' PROVE FALSE
        <5>1. q # p
          BY <1>13, <4>1
        <5>2. Takes(q, i)
          BY <1>13, <4>1, <5>1, SameEnds
        <5> QED BY <1>0, <1>5, <5>1, <5>2 DEF OneTaker
      <4>2. ASSUME NEW lo \in Nat, NEW hi \in Nat, InOrder(pipe[i], j, lo, hi)
            PROVE  \E m \in 0 .. hi : InOrder(pipe'[i], j, m, hi)
        <5>1. lo + 1 <= hi /\ InOrder(pipe'[i], j, lo + 1, hi)
          BY <1>11, <1>13, <3>3, <4>2
        <5>2. lo + 1 \in 0 .. hi
          BY <5>1
        <5> QED BY <5>1, <5>2
      <4>3. ~NoneOf(pipe[i], j)
        BY <1>12, <3>3
      <4>4. LosesOne(i, j)
        BY <4>1, <4>2, <4>3 DEF LosesOne
      <4> QED BY <3>3, <4>4
    <3> QED BY <3>1, <3>2, <3>3
  <2> QED BY <1>13, <2>1, <2>2
<1>14. CASE WriteEnds(b, p)
  <2>1. proc' = Dead(p) /\ pipe' = b /\ shown' = shown /\ NobodyReads(p)
    BY <1>14 DEF WriteEnds
  <2>2. ~Alive(p)' /\ \A q \in Procs \ {p} : SameView(q)
    BY <2>1, DeadViews
  <2>3. \A x \in Sinks : ~Puts(p, x)'
    BY <2>2 DEF Puts
  <2> QED BY <1>0, <1>9, <1>13, <2>1, <2>2, <2>3, PlainReads, EndsDeliver
<1>15. ASSUME proc' = [proc EXCEPT ![p] = proc[p]]
       PROVE  /\ \A q \in Procs : SameView(q)
              /\ \A q \in Procs : Narrow(q) /\ \A j : Steady(q, j)
              /\ \A j : p \in Workers(j) => p \in Workers(j)' /\ Follows(p)
  <2>1. \A q \in Procs : proc'[q] = proc[q]
    BY <1>15 DEF Shape
  <2>2. ASSUME NEW q \in Procs PROVE SameView(q)
    BY <2>1 DEF SameView, Alive
  <2>3. \A j : p \in Workers(j) => p \in Workers(j)' /\ Follows(p)
    BY <1>5, <2>1, <2>2, SameFollows DEF Workers, Alive
  <2> QED BY <2>2, <2>3, SameNarrow
<1>16. CASE WriteFiles(b, p, proc[p])
  <2>1. /\ proc' = [proc EXCEPT ![p] = proc[p]] /\ pipe' = b /\ shown' = shown
        /\ \A x \in Sinks : ~Puts(p, x)
    BY <1>16 DEF WriteFiles
  <2>2. \A x \in Sinks : ~Puts(p, x)'
    BY <1>15, <2>1, SameEnds
  <2>3. \A j : p \in Workers(j) => MayChange(p, j)
    BY <1>15, <2>1 DEF MayChange
  <2>4. /\ PipeType' /\ \A j \in 1 .. Len(typed) : shown'[j] = shown[j]
        /\ \A j \in 1 .. Len(typed) : \A k \in Pipes : KeepsPipe(k, j) \/ LosesOne(k, j)
    BY <1>13, <1>15, <2>1, <2>2
  <2>5. Narrow(p) /\ \A j : Steady(p, j)
    BY <1>15, <2>1
  <2> QED BY <1>0, <1>9, <2>1, <2>3, <2>4, <2>5, ChangeDeliver
<1>17. ASSUME NEW x \in Sinks, WriteSinks(b, p, u, proc[p], x) PROVE DeliverInv'
  <2>1. proc' = [proc EXCEPT ![p] = proc[p]] /\ Puts(p, x)
    BY <1>17 DEF WriteSinks
  <2>2. /\ \A q \in Procs : SameView(q)
        /\ \A q \in Procs : Narrow(q) /\ \A j : Steady(q, j)
        /\ \A j : p \in Workers(j) => p \in Workers(j)' /\ Follows(p)
    BY <1>15, <2>1
  <2>3. PipeType'
    BY <1>0, <1>7, <1>9, <1>17, SinkTypes
  <2>4. ASSUME NEW j \in 1 .. Len(typed), j # u.job, NEW k \in Pipes
        PROVE  KeepsPipe(k, j)
    <3>1. u.job # j /\ KeepsSeq(pipe[k], b[k], j) /\ u \in Unit(Len(typed))
      BY <1>7, <1>10, <2>4
    <3> QED BY <1>7, <1>17, <3>1, SinkKeeps
  <2>5. ASSUME NEW j \in 1 .. Len(typed), j # u.job PROVE shown'[j] = shown[j]
    BY <1>0, <1>17, <2>5, SinkShows
  <2>6. CASE u.job = 0
    <3>1. \A j \in 1 .. Len(typed) : j # u.job
      BY <1>0, <2>6
    <3>2. \A j : p \in Workers(j) => MayChange(p, j)
      BY <2>2 DEF MayChange
    <3>3. \A j \in 1 .. Len(typed) : shown'[j] = shown[j]
      BY <2>5, <3>1
    <3>4. \A j \in 1 .. Len(typed) : \A k \in Pipes : KeepsPipe(k, j) \/ LosesOne(k, j)
      BY <2>4, <3>1
    <3> QED BY <1>0, <1>9, <2>1, <2>2, <2>3, <3>2, <3>3, <3>4, ChangeDeliver
  <2>7. CASE u.job # 0
    <3>1. PICK j \in 1 .. Len(typed) : j = u.job
      BY <1>0, <1>8, <2>7
    <3>2. TypeInv'
      <4>1. \A q \in Procs : ProcType(proc'[q], Len(typed))
        BY <1>0, <2>1, ChangeTypes
      <4> QED BY <1>9, <2>3, <4>1 DEF TypeInv
    <3>3. ASSUME NEW k \in 1 .. Len(typed), k # j PROVE Quiet(k)
      BY <2>2, <2>4, <2>5, <3>1, <3>3 DEF Quiet
    <3>4. ASSUME NEW X \in SUBSET Pipes, NEW s, Counts(s), JobInv(j, X, s)
          PROVE  Carries(p, Workers(j), X) /\ s[x] + 1 <= UNITS /\ Moves(p, x, j, s[x] + 1)
      <4>1. i \in X
        BY <1>12, <3>1, <3>4 DEF JobInv
      <4>2. Carries(p, Workers(j), X)
        BY <1>5, <4>1 DEF Carries
      <4>3. PICK lo \in 0 .. s[i] :
              /\ InOrder(pipe[i], j, lo, s[i])
              /\ \A q \in Procs, y \in Sinks : Takes(q, i) /\ MayCopy(q) /\ Puts(q, y) => lo = s[y]
        BY <3>4, <4>1 DEF JobInv, Flows
      <4>4. lo = s[x]
        BY <1>5, <2>1, <4>3
      <4>5. i \in Sinks /\ s[i] \in 0 .. UNITS /\ UNITS \in Nat
        BY <3>4, Bounds, Descriptors DEF Counts
      <4>6. lo \in Nat /\ s[i] \in Nat /\ s[i] <= UNITS
        BY <4>5
      <4>7. u = [job |-> j, n |-> lo + 1] /\ lo + 1 <= s[i]
        BY <1>11, <3>1, <4>3, <4>6
      <4>8. s[x] + 1 <= UNITS /\ i # x
        <5>1. lo + 1 <= UNITS /\ lo # s[i]
          BY <4>5, <4>6, <4>7
        <5> QED BY <4>4, <5>1
      <4>9. TakesNext(p, i, j)
        <5>1. pipe'[i] = b[i]
          BY <1>7, <1>17, <4>8 DEF WriteSinks
        <5>2. ASSUME NEW a \in Nat, NEW c \in Nat, InOrder(pipe[i], j, a, c)
              PROVE  a + 1 <= c /\ InOrder(pipe'[i], j, a + 1, c)
          BY <1>11, <3>1, <5>1, <5>2
        <5> QED BY <1>5, <5>2 DEF TakesNext
      <4>10. Moves(p, x, j, s[x] + 1)
        <5>1. x \in Pipes => pipe'[x] = Append(pipe[x], [job |-> j, n |-> s[x] + 1])
          BY <1>7, <1>17, <4>4, <4>7, <4>8 DEF WriteSinks
        <5>2. shown'[j] = IF x = 0 THEN Append(shown[j], s[x] + 1) ELSE shown[j]
          <6>1. j \in 1 .. MaxLines
            BY <1>0, Bounds DEF PipeType
          <6>2. u # Note /\ u.n = s[x] + 1
            <7>1. Note.job = 0
              BY DEF Note
            <7>2. [job |-> j, n |-> lo + 1].n = lo + 1
              OBVIOUS
            <7> QED BY <2>7, <4>4, <4>7, <7>1, <7>2
          <6> QED BY <1>6, <1>17, <3>1, <6>1, <6>2 DEF WriteSinks
        <5>3. ASSUME NEW k \in Pipes \ {x} PROVE KeepsPipe(k, j) \/ TakesNext(p, k, j)
          <6>1. CASE k = i
            BY <4>9, <6>1
          <6>2. CASE k # i
            <7>1. pipe'[k] = pipe[k]
              BY <1>7, <1>17, <6>2 DEF WriteSinks
            <7> QED BY <7>1, SamePipe
          <6> QED BY <6>1, <6>2
        <5>4. ASSUME NEW k \in Pipes, Takes(p, k) PROVE k # x /\ TakesNext(p, k, j)
          <6>1. k = i
            BY <1>5, <5>4, TakesOne
          <6> QED BY <4>8, <4>9, <6>1
        <5>5. ~Makes(p)'
          <6>1. proc'[p] = proc[p]
            BY <2>1 DEF Shape
          <6> QED BY <1>5, <6>1 DEF Makes
        <5> QED BY <1>5, <2>1, <2>2, <5>1, <5>2, <5>3, <5>4, <5>5 DEF Moves
      <4> QED BY <4>2, <4>8, <4>10
    <3>5. ASSUME NEW q \in Procs, Alive(q) PROVE Alive(q)' /\ Follows(q)
      BY <2>2, <3>5, SameFollows DEF SameView
    <3>6. ASSUME NEW q \in Procs, Alive(q), proc'[q].pc \in Shells PROVE proc[q].pc \in Shells
      BY <2>2, <3>6, SameFields
    <3> QED BY <1>9, <2>2, <3>2, <3>3, <3>4, <3>5, <3>6, MoveDeliver
  <2> QED BY <2>6, <2>7
<1> QED BY <1>9, <1>14, <1>16, <1>17

-----------------------------------------------------------------------------
(***************************************************************************)
(* run(): a new job.                                                       *)
(***************************************************************************)

\* One more line is typed.
LEMMA TypeGrows ==
  ASSUME NEW n \in Nat, NEW r, ProcType(r, n)
  PROVE  ProcType(r, n + 1)
<1>1. \A k \in 0 .. n : k \in 0 .. n + 1
  OBVIOUS
<1> QED BY <1>1 DEF ProcType

\* No unit is of the new job.
LEMMA UnitGrows ==
  ASSUME NEW n \in Nat, NEW s \in Seq(Unit(n))
  PROVE  s \in Seq(Unit(n + 1)) /\ NoneOf(s, n + 1)
<1>1. Unit(n) \subseteq Unit(n + 1)
  BY DEF Unit
<1>2. ASSUME NEW a \in DOMAIN s PROVE s[a].job # n + 1
  <2>1. s[a] \in Unit(n)
    OBVIOUS
  <2>2. s[a].job \in 0 .. n
    BY <2>1 DEF Unit
  <2> QED BY <2>2
<1> QED BY <1>1, <1>2 DEF NoneOf

\* The types with the line.
LEMMA PipeTypeGrows ==
  ASSUME PipeType, NEW l \in Lines, typed' = Append(typed, l), Len(typed) < MaxLines,
         pipe' = pipe, shown' = shown
  PROVE  PipeType' /\ Len(typed') = Len(typed) + 1 /\ typed'[Len(typed) + 1] = l
         /\ \A j \in 1 .. Len(typed) : typed'[j] = typed[j]
<1>1. typed \in Seq(Lines) /\ Len(typed) \in Nat /\ MaxLines \in Nat
  BY Bounds DEF PipeType
<1>2. /\ typed' \in Seq(Lines) /\ Len(typed') = Len(typed) + 1 /\ typed'[Len(typed) + 1] = l
      /\ \A j \in 1 .. Len(typed) : typed'[j] = typed[j]
  BY <1>1
<1>3. pipe' \in [Pipes -> Seq(Unit(Len(typed) + 1))]
  <2>1. \A i \in Pipes : pipe[i] \in Seq(Unit(Len(typed) + 1))
    BY <1>1, UnitGrows DEF PipeType
  <2> QED BY <2>1 DEF PipeType
<1>4. \A j \in Len(typed') + 1 .. MaxLines : shown'[j] = <<>>
  <2>1. \A j \in Len(typed') + 1 .. MaxLines : j \in Len(typed) + 1 .. MaxLines
    BY <1>1, <1>2
  <2> QED BY <2>1 DEF PipeType
<1>5. Len(typed') <= MaxLines
  BY <1>1, <1>2
<1> QED BY <1>2, <1>3, <1>4, <1>5 DEF PipeType

\* Shell p, and its child if K has one.  The child belongs to the new job.
Spawns(p, K) ==
  /\ K \subseteq Procs \ {p} /\ (\A a, b \in K : a = b)
  /\ proc[p].pc \in Shells /\ Narrow(p) /\ (\A j : Steady(p, j)) /\ (\A i \in Pipes : ~Takes(p, i)')
  /\ \A c \in K :
       /\ ~Alive(c) /\ Alive(c)' /\ proc'[c].job = Len(typed) + 1 /\ proc'[c].pc \in {"tell", "exe"}
       /\ Inlet(c)' = Tty /\ \A x \in Sinks : Puts(c, x)' => Puts(p, x)
  /\ \A q \in Procs : q # p /\ q \notin K => SameView(q)
  /\ pipe' = pipe /\ shown' = shown

\* For the older jobs the child does not exist.
LEMMA SpawnIdle ==
  ASSUME NEW p \in Procs, NEW K, Spawns(p, K), NEW j \in 1 .. Len(typed), Len(typed) \in Nat
  PROVE  \A q \in Procs : (Narrow(q) \/ Idle(q, j)) /\ Steady(q, j)
<1> SUFFICES ASSUME NEW q \in Procs PROVE (Narrow(q) \/ Idle(q, j)) /\ Steady(q, j)
  OBVIOUS
<1>1. CASE q \in K
  <2>1. Inlet(q)' = Tty /\ proc'[q].job = Len(typed) + 1
    BY <1>1 DEF Spawns
  <2>2. q \notin Workers(j)'
    BY <2>1 DEF Workers
  <2>3. \A i \in Pipes : ~Takes(q, i)'
    BY <2>1, Descriptors DEF Takes
  <2> QED BY <2>2, <2>3 DEF Idle, Steady
<1>2. CASE q \notin K
  BY <1>2, SameNarrow DEF Spawns
<1> QED BY <1>1, <1>2

\* So they go on.
LEMMA SpawnOld ==
  ASSUME NEW p \in Procs, NEW K, Spawns(p, K), NEW j \in 1 .. Len(typed), Len(typed) \in Nat,
         NEW X \in SUBSET Pipes, NEW s, s \in [Sinks -> 0 .. UNITS], JobInv(j, X, s)
  PROVE  JobInv(j, X, s)' /\ (PlainInv(j, X, s) => PlainInv(j, X, s)')
<1>1. \A q \in Procs : (Narrow(q) \/ Idle(q, j)) /\ Steady(q, j)
  BY SpawnIdle
<1>2. shown'[j] = shown[j] /\ \A i \in Pipes : KeepsPipe(i, j) \/ LosesOne(i, j)
  BY SamePipe DEF Spawns
<1>3. JobInv(j, X, s)'
  BY <1>1, <1>2, NarrowJob
<1>4. ASSUME NEW q \in Procs PROVE q \in Workers(j)' <=> q \in Workers(j)
  <2>1. CASE q \in K
    <3>1. proc'[q].job = Len(typed) + 1 /\ ~Alive(q)
      BY <2>1 DEF Spawns
    <3>2. proc'[q].job # j
      BY <3>1
    <3> QED BY <3>1, <3>2 DEF Workers
  <2>2. CASE q = p
    BY <2>2 DEF Spawns, Workers, Narrow
  <2>3. CASE q \notin K /\ q # p
    <3>1. SameView(q)
      BY <2>3 DEF Spawns
    <3> QED BY <3>1, SameFields DEF Workers, SameView
  <2> QED BY <2>1, <2>2, <2>3
<1>5. ASSUME NEW q \in Workers(j) PROVE Follows(q)
  <2>1. q \in Procs /\ Alive(q) /\ q # p /\ q \notin K
    BY DEF Workers, Spawns
  <2> QED BY <2>1, SameFollows DEF Spawns
<1>6. More(s, s)
  BY DEF More
<1> QED BY <1>3, <1>4, <1>5, <1>6, PlainKept

\* What the child writes goes where the shell's output goes.
LEMMA SpawnWay ==
  ASSUME NEW p \in Procs, NEW K, Spawns(p, K), NEW c \in K, Alive(p),
         NEW X \in SUBSET Pipes, OneWay({p}, X)
  PROVE  OneWay({c}, X)'
<1>0. Pipes \subseteq Sinks
  BY Descriptors
<1> DEFINE was(q) == IF q = c THEN p ELSE q
<1>1. ASSUME NEW q \in Procs, Carries(q, {c}, X)'
      PROVE  /\ was(q) \in Procs /\ Carries(was(q), {p}, X)
             /\ \A x \in Sinks : Puts(q, x)' => Puts(was(q), x)
             /\ q # c => q # p
  <2>1. CASE q = c
    BY <2>1 DEF Carries, Spawns
  <2>2. CASE q # c
    <3>1. PICK i \in X : Takes(q, i)'
      BY <1>1, <2>2 DEF Carries
    <3>2. q # p
      BY <3>1 DEF Spawns
    <3>3. q \notin K
      BY <2>2 DEF Spawns
    <3>4. SameView(q)
      BY <3>2, <3>3 DEF Spawns
    <3>5. Takes(q, i) /\ \A x : Puts(q, x)' => Puts(q, x)
      BY <3>1, <3>4, SameEnds
    <3>6. Carries(q, {p}, X)
      BY <3>5 DEF Carries, Takes
    <3> QED BY <2>2, <3>2, <3>5, <3>6
  <2> QED BY <2>1, <2>2
<1>2. ASSUME NEW q \in Procs, NEW x \in Pipes, Carries(q, {c}, X)', Puts(q, x)' PROVE x \in X
  BY <1>0, <1>1, <1>2 DEF OneWay
<1>3. ASSUME NEW q \in Procs, NEW r \in Procs, NEW x \in Sinks, Carries(q, {c}, X)',
             Carries(r, {c}, X)', Puts(q, x)', Puts(r, x)'
      PROVE  q = r
  <2>1. was(q) = was(r)
    BY <1>1, <1>3 DEF OneWay
  <2> QED BY <1>1, <1>3, <2>1
<1> QED BY <1>2, <1>3 DEF OneWay

\* The child is all there is of the new job.
LEMMA SpawnWorkers ==
  ASSUME TypeInv, NEW p \in Procs, NEW K, Spawns(p, K), NEW n \in Nat, n = Len(typed) + 1
  PROVE  \A q \in Procs : q \in Workers(n)' => q \in K
<1> SUFFICES ASSUME NEW q \in Procs, q \in Workers(n)' PROVE q \in K
  OBVIOUS
<1>1. CASE q = p
  BY <1>1 DEF Workers, Spawns, Narrow
<1>2. CASE q # p /\ q \notin K
  <2>1. SameView(q) /\ Alive(q) /\ proc'[q].job = n
    BY <1>2 DEF Spawns, Workers, SameView
  <2>2. proc[q].job = n
    BY <2>1, SameFields
  <2>3. proc[q].job \in 0 .. Len(typed)
    BY DEF TypeInv, ProcType
  <2>4. Len(typed) \in Nat
    BY DEF TypeInv, PipeType
  <2> QED BY <2>2, <2>3, <2>4
<1> QED BY <1>1, <1>2

\* The new job has written nothing.
LEMMA SpawnNew ==
  ASSUME TypeInv, NEW p \in Procs, NEW K, Spawns(p, K), NEW n \in Nat, n = Len(typed) + 1,
         n <= MaxLines, NEW X, X \in SUBSET Pipes,
         \A c \in K : OneWay({c}, X)', K = {} => X = {},
         NEW s, \A x \in Sinks : s[x] = 0
  PROVE  JobInv(n, X, s)'
<1>0. Len(typed) \in Nat /\ PipeType
  BY DEF TypeInv, PipeType
<1>1. \A q \in Procs : q \in Workers(n)' => q \in K
  BY SpawnWorkers
<1>2. OneWay(Workers(n), X)'
  <2>1. CASE K = {}
    <3>1. ASSUME NEW q \in Procs, Carries(q, Workers(n), X)' PROVE FALSE
      BY <1>1, <2>1, <3>1 DEF Carries
    <3> QED BY <3>1 DEF OneWay
  <2>2. CASE K # {}
    <3>1. PICK c \in K : TRUE
      BY <2>2
    <3>2. \A q \in Procs : Carries(q, Workers(n), X)' => Carries(q, {c}, X)'
      BY <1>1 DEF Carries, Spawns
    <3> QED BY <3>2 DEF OneWay
  <2> QED BY <2>1, <2>2
<1>3. shown'[n] = [k \in 1 .. s[0] |-> k]
  <2>1. shown'[n] = <<>>
    <3>1. n \in Len(typed) + 1 .. MaxLines
      BY <1>0, Bounds
    <3> QED BY <1>0, <3>1 DEF PipeType, Spawns
  <2>2. s[0] = 0
    BY Descriptors
  <2>3. [k \in 1 .. 0 |-> k] = <<>>
    OBVIOUS
  <2> QED BY <2>1, <2>2, <2>3
<1>4. ASSUME NEW i \in Pipes PROVE NoneOf(pipe'[i], n)
  <2>1. pipe'[i] = pipe[i] /\ pipe[i] \in Seq(Unit(Len(typed)))
    BY <1>0 DEF PipeType, Spawns
  <2> QED BY <1>0, <2>1, UnitGrows
<1>5. ASSUME NEW i \in X PROVE Flows(i, n, s)'
  <2>1. InOrder(pipe'[i], n, 0, 0)
    BY <1>4, NoneInOrder
  <2>2. s[i] = 0 /\ 0 \in 0 .. 0
    BY Descriptors
  <2> QED BY <2>1, <2>2 DEF Flows
<1>6. ASSUME NEW q \in Workers(n)' PROVE ~Makes(q)'
  <2>1. q \in K
    BY <1>1 DEF Workers
  <2> QED BY <2>1 DEF Spawns, Makes
<1> QED BY <1>1, <1>2, <1>3, <1>4, <1>5, <1>6 DEF JobInv

\* The new pipeline is plain: its only process so far writes to the terminal.
LEMMA SpawnPlain ==
  ASSUME NEW p \in Procs, NEW c \in Procs, NEW n, NEW X, NEW s, NEW l,
         \A q \in Procs : q \in Workers(n)' => q = c, Alive(c)', proc'[c].job = n,
         proc'[c].pc \in {"tell", "exe"}, Inlet(c)' = Tty, Puts(c, 0)', proc'[c].line = l,
         proc'[c].io = l[1].io, IsPlain(l), 1 \in DOMAIN l
  PROVE  PlainInv(n, X, s)'
<1>1. c \in Workers(n)' /\ proc'[c].pc \in Pre
  BY DEF Workers, Shells, Pre
<1>2. Fed(n, 0, s)'
  BY <1>1 DEF Fed
<1>3. Heard(c, n)'
  BY Descriptors DEF Heard
<1>4. HasRole(c, n, X, s)'
  BY <1>1 DEF HasRole, Plays, IsPlain
<1>5. PlainLine(proc'[c])
  BY DEF PlainLine, IsPlain
<1>6. \A q \in Workers(n)' : q = c
  BY DEF Workers
<1> QED BY <1>2, <1>3, <1>4, <1>5, <1>6 DEF PlainInv

\* All that is needed of run().
LEMMA SpawnDeliver ==
  ASSUME DeliverInv, TypeInv', NEW p \in Procs, NEW K, Spawns(p, K), NEW l \in Lines,
         Len(typed) < MaxLines, typed' = Append(typed, l),
         \A j \in 1 .. Len(typed) : j \notin excused' => j \notin excused,
         Len(typed) + 1 \notin excused' /\ IsPlain(l) => \E c \in K :
           /\ Puts(c, 0)' /\ proc'[c].line = l /\ proc'[c].io = l[1].io /\ 1 \in DOMAIN l
  PROVE  DeliverInv'
<1>0. TypeInv /\ PipeType /\ OneTaker /\ Len(typed) \in Nat /\ MaxLines \in Nat
  <2>1. TypeInv /\ OneTaker
    BY DEF DeliverInv
  <2>2. PipeType /\ Len(typed) \in Nat
    BY <2>1 DEF TypeInv, PipeType
  <2> QED BY <2>1, <2>2, Bounds
<1>1. PICK D, P, S : Streams(D, P, S)
  BY DEF DeliverInv
<1>2. PICK n \in Nat : n = Len(typed) + 1
  BY <1>0
<1>3. /\ Len(typed') = n /\ typed'[n] = l
      /\ \A j \in 1 .. Len(typed) : typed'[j] = typed[j]
  BY <1>0, <1>2, PipeTypeGrows DEF Spawns
<1>4. n \in 1 .. MaxLines /\ \A j \in 1 .. Len(typed) : j \in 1 .. MaxLines /\ j # n
  BY <1>0, <1>2
<1>5. \A j \in 1 .. n : j = n \/ j \in 1 .. Len(typed)
  BY <1>0, <1>2
<1>6. PICK A : /\ A \in SUBSET Pipes /\ (K = {} => A = {}) /\ (K # {} => A = D[p])
  <2>1. D[p] \in SUBSET Pipes
    BY <1>1 DEF Streams
  <2> QED BY <2>1
<1>7. Alive(p) /\ OneWay({p}, D[p])
  <2>1. Alive(p)
    BY DEF Spawns, Shells, Alive
  <2> QED BY <1>1, <2>1 DEF Streams
<1>8. \A c \in K : OneWay({c}, A)'
  BY <1>6, <1>7, SpawnWay
<1> DEFINE E == [q \in Procs |-> IF q \in K THEN A ELSE D[q]]
           Q == [j \in 1 .. MaxLines |-> IF j = n THEN A ELSE P[j]]
           z == [x \in Sinks |-> 0]
           T == [j \in 1 .. MaxLines |-> IF j = n THEN z ELSE S[j]]
<1>9. /\ E \in [Procs -> SUBSET Pipes] /\ Q \in [1 .. MaxLines -> SUBSET Pipes]
      /\ T \in [1 .. MaxLines -> [Sinks -> 0 .. UNITS]]
  <2>1. z \in [Sinks -> 0 .. UNITS]
    BY Bounds
  <2> HIDE DEF z
  <2> QED BY <1>1, <1>6, <2>1 DEF Streams
<1>10. /\ Q[n] = A /\ T[n] = z /\ (\A x \in Sinks : z[x] = 0)
       /\ \A j \in 1 .. Len(typed) : Q[j] = P[j] /\ T[j] = S[j]
  BY <1>4
<1>11. \A q \in Procs : E[q] = IF q \in K THEN A ELSE D[q]
  OBVIOUS
<1> HIDE DEF E, Q, T, z
<1>12. JobInv(n, A, z)' /\ \A q \in Procs : q \in Workers(n)' => q \in K
  <2>1. n <= MaxLines
    BY <1>0, <1>2
  <2>2. JobInv(n, A, z)'
    BY <1>0, <1>2, <1>6, <1>8, <1>10, <2>1, SpawnNew
  <2>3. \A q \in Procs : q \in Workers(n)' => q \in K
    BY <1>0, <1>2, SpawnWorkers
  <2> QED BY <2>2, <2>3
<1>13. ASSUME NEW j \in 1 .. Len(typed)
       PROVE  /\ P[j] \in SUBSET Pipes /\ S[j] \in [Sinks -> 0 .. UNITS] /\ JobInv(j, P[j], S[j])
              /\ IsPlain(typed[j]) /\ j \notin excused => PlainInv(j, P[j], S[j])
  BY <1>1, <1>4 DEF Streams
<1>14. ASSUME NEW q \in Procs PROVE Alive(q)' => OneWay({q}, E[q])'
  <2>1. CASE q \in K
    BY <1>8, <1>11, <2>1
  <2>2. CASE q \notin K
    <3>1. Narrow(q) /\ D[q] \in SUBSET Pipes /\ (Alive(q) => OneWay({q}, D[q]))
      BY <1>1, <2>2, SameNarrow DEF Spawns, Streams
    <3>2. \A r \in Procs : Narrow(r) \/ Idle(r, 0)
      <4> SUFFICES ASSUME NEW r \in Procs PROVE Narrow(r) \/ Idle(r, 0)
        OBVIOUS
      <4>1. CASE r \notin K
        BY <4>1, SameNarrow DEF Spawns
      <4>2. CASE r \in K
        <5>1. Inlet(r)' = Tty /\ proc'[r].job = Len(typed) + 1
          BY <4>2 DEF Spawns
        <5>2. r \notin Workers(0)'
          BY <1>0, <5>1 DEF Workers
        <5> QED BY <5>1, <5>2, Descriptors DEF Idle, Takes
      <4> QED BY <4>1, <4>2
    <3>3. Alive(q)' => OneWay({q}, D[q])'
      BY <3>1, <3>2, NarrowOne
    <3> QED BY <1>11, <2>2, <3>3
  <2> QED BY <2>1, <2>2
<1>15. OneTaker'
  <2>1. ASSUME NEW q \in Procs, NEW i \in Pipes, Takes(q, i)' PROVE Takes(q, i)
    <3>1. q \notin K
      BY <2>1, Descriptors DEF Spawns, Takes
    <3>2. q # p
      BY <2>1 DEF Spawns
    <3> QED BY <2>1, <3>1, <3>2, SameEnds DEF Spawns
  <2> QED BY <1>0, <2>1 DEF OneTaker
<1>16. ASSUME NEW j \in 1 .. n PROVE JobInv(j, Q[j], T[j])'
  <2>1. CASE j = n
    BY <1>10, <1>12, <2>1
  <2>2. CASE j \in 1 .. Len(typed)
    <3>1. JobInv(j, P[j], S[j])'
      BY <1>0, <1>13, <2>2, SpawnOld
    <3> QED BY <1>10, <2>2, <3>1
  <2> QED BY <1>5, <2>1, <2>2
<1>17. ASSUME NEW j \in 1 .. n, IsPlain(typed'[j]), j \notin excused'
       PROVE  PlainInv(j, Q[j], T[j])'
  <2>1. CASE j = n
    <3>1. PICK c \in K : /\ Puts(c, 0)' /\ proc'[c].line = l /\ proc'[c].io = l[1].io
                        /\ 1 \in DOMAIN l
      BY <1>2, <1>3, <1>17, <2>1
    <3>2. /\ c \in Procs /\ Alive(c)' /\ proc'[c].job = n
          /\ proc'[c].pc \in {"tell", "exe"} /\ Inlet(c)' = Tty
      BY <1>2 DEF Spawns
    <3>3. \A q \in Procs : q \in Workers(n)' => q = c
      BY <1>12 DEF Spawns
    <3>4. IsPlain(l)
      BY <1>3, <1>17, <2>1
    <3>5. PlainInv(n, A, z)'
      BY <3>1, <3>2, <3>3, <3>4, SpawnPlain
    <3> QED BY <1>10, <2>1, <3>5
  <2>2. CASE j \in 1 .. Len(typed)
    <3>1. IsPlain(typed[j]) /\ j \notin excused
      BY <1>3, <1>17, <2>2
    <3>2. PlainInv(j, P[j], S[j])'
      BY <1>0, <1>13, <2>2, <3>1, SpawnOld
    <3> QED BY <1>10, <2>2, <3>2
  <2> QED BY <1>5, <2>1, <2>2
<1>18. Streams(E, Q, T)'
  BY <1>3, <1>9, <1>14, <1>16, <1>17 DEF Streams
<1> QED BY <1>15, <1>18 DEF DeliverInv

\* A line that is typed.
LEMMA LineIs ==
  ASSUME NEW l \in Lines
  PROVE  /\ 1 \in DOMAIN l
         /\ \A k \in DOMAIN l : l[k].prog = "missing" =>
              k = 1 /\ \A m \in DOMAIN l : l[m].io = ""
<1>1. l \in Seq(Stage) /\ Len(l) \in 1 .. 4
  BY ShellAssumption
<1>2. 1 \in DOMAIN l
  BY <1>1
<1>3. \A k \in DOMAIN l : l[k].prog = "missing" => k = 1 /\ \A m \in DOMAIN l : l[m].io = ""
  BY ShellAssumption
<1> QED BY <1>2, <1>3

\* The types after run(), of the shell and of others.
LEMMA RunTypes ==
  ASSUME TypeInv, NEW l \in Lines, typed' = Append(typed, l), Len(typed) < MaxLines,
         pipe' = pipe, shown' = shown, NEW n \in Nat, n = Len(typed) + 1,
         \A q \in Procs : ProcType(proc'[q], Len(typed)) \/ ProcType(proc'[q], n)
  PROVE  TypeInv'
<1>1. PipeType /\ Len(typed) \in Nat
  BY DEF TypeInv, PipeType
<1>2. PipeType' /\ Len(typed') = n
  BY <1>1, PipeTypeGrows
<1>3. ASSUME NEW q \in Procs PROVE ProcType(proc'[q], n)
  BY <1>1, TypeGrows
<1> QED BY <1>2, <1>3 DEF TypeInv

\* run() without a child.
LEMMA RunFails ==
  ASSUME Shape, DeliverInv, NEW p \in Procs, NEW l \in Lines, Run(p, l), Slots = {}
  PROVE  DeliverInv'
<1>0. /\ proc[p].pc = "read" /\ Len(typed) < MaxLines /\ typed' = Append(typed, l)
      /\ proc' = [proc EXCEPT ![p].pc = "greet"]
      /\ excused' = excused \union {Len(typed) + 1} /\ pipe' = pipe /\ shown' = shown
  BY DEF Run
<1>1. PICK r : r = [proc[p] EXCEPT !.pc = "greet"]
  OBVIOUS
<1>2. proc' = [proc EXCEPT ![p] = r] /\ proc'[p] = r
  BY <1>0, <1>1 DEF Shape
<1>3. proc[p].pc \in Shells /\ "greet" \in Shells /\ TypeInv
  BY <1>0 DEF Shells, DeliverInv
<1>4. ProcType(r, Len(typed)) /\ Narrow(p) /\ \A j : Steady(p, j)
  BY <1>1, <1>2, <1>3, ShellMoves
<1>5. \A q \in Procs \ {p} : SameView(q)
  BY <1>2, ChangeViews
<1>6. \A i \in Pipes : ~Takes(p, i)'
  <2>1. proc[p].in = Tty
    BY <1>3 DEF TypeInv, ProcType
  <2>2. proc[p].pc # "reader"
    BY <1>0
  <2>3. \A i \in Pipes : ~Takes(p, i)
    BY <2>1, <2>2, Descriptors DEF Takes, Inlet
  <2> QED BY <1>4, <2>3 DEF Narrow
<1>7. \A q \in Procs : ProcType(proc'[q], Len(typed))
  BY <1>2, <1>3, <1>4, ChangeTypes
<1>8. Len(typed) \in Nat
  BY <1>3 DEF TypeInv, PipeType
<1>9. PICK n \in Nat : n = Len(typed) + 1
  BY <1>8
<1>10. TypeInv'
  BY <1>0, <1>3, <1>7, <1>9, RunTypes
<1>11. PICK K : K = {}
  OBVIOUS
<1>12. Spawns(p, K)
  BY <1>0, <1>3, <1>4, <1>5, <1>6, <1>11 DEF Spawns
<1>13. /\ \A j \in 1 .. Len(typed) : j \notin excused' => j \notin excused
       /\ Len(typed) + 1 \in excused'
  BY <1>0
<1> QED BY <1>0, <1>10, <1>12, <1>13, SpawnDeliver

\* The child of run() as it starts.
IsJob(e, r, l, n) ==
  /\ e.pc \in {"tell", "exe"} /\ e.in = Tty /\ e.out = r.out /\ e.pd = {} /\ e.job = n
  /\ e.left = 0 /\ e.line = l /\ e.io = l[1].io

\* It has its type.
LEMMA JobType ==
  ASSUME NEW e, NEW r, NEW l \in Lines, NEW n \in Nat, n # 0, IsJob(e, r, l, n),
         r.out \in {Tty} \union {W(i) : i \in Pipes}
  PROVE  ProcType(e, n)
<1>1. /\ e.pc \notin {"writer", "reader"} /\ e.pc \in Pre /\ e.pc \notin Gone \union Shells
  BY DEF IsJob, Pre, Gone, Shells
<1>2. /\ e.in = Tty /\ e.out \in {Tty} \union {W(i) : i \in Pipes} /\ e.pd = {}
  BY DEF IsJob
<1>3. n \in 0 .. n /\ 0 \in 0 .. UNITS
  BY Bounds
<1>4. e.job \in 0 .. n /\ e.left \in 0 .. UNITS /\ e.job # 0
  BY <1>3 DEF IsJob
<1>5. \A k \in DOMAIN e.line : e.line[k].prog = "missing" =>
        /\ k = 1 /\ e.io = "" /\ \A m \in DOMAIN e.line : e.line[m].io = ""
  BY LineIs DEF IsJob
<1> QED BY <1>1, <1>2, <1>4, <1>5 DEF ProcType

\* run() with a child.
LEMMA RunForks ==
  ASSUME Shape, DeliverInv, NEW p \in Procs, NEW l \in Lines, Run(p, l), Slots # {}
  PROVE  DeliverInv'
<1>0. /\ proc[p].pc = "read" /\ Len(typed) < MaxLines /\ typed' = Append(typed, l)
      /\ excused' = (IF proc[p].out # Tty THEN excused \union {Len(typed) + 1} ELSE excused)
      /\ pipe' = pipe /\ shown' = shown
  BY DEF Run
<1>3. proc[p].pc \in Shells /\ "wait" \in Shells /\ TypeInv
  BY <1>0 DEF Shells, DeliverInv
<1>8. Len(typed) \in Nat
  BY <1>3 DEF TypeInv, PipeType
<1>9. PICK n \in Nat : n = Len(typed) + 1 /\ n # 0
  BY <1>8
<1>a. PICK c \in Procs : c = Min(Slots) /\ proc[c].pc = "free"
  BY SlotIsFree
<1>b. proc[p].in = Tty /\ proc[p].out \in {Tty} \union {W(i) : i \in Pipes}
  BY <1>3 DEF TypeInv, ProcType
<1>1. PICK r : r = [proc[p] EXCEPT !.pc = "wait"]
  OBVIOUS
<1>c. PICK e : IsJob(e, proc[p], l, n) /\ proc' = [proc EXCEPT ![p] = r, ![c] = e]
  <2> DEFINE e == [Free EXCEPT !.pc = IF Len(l) > 1 THEN "tell" ELSE "exe",
                               !.line = l, !.io = l[1].io, !.in = proc[p].in,
                               !.out = proc[p].out, !.parent = p, !.job = n]
  <2>1. IsJob(e, proc[p], l, n)
    BY <1>b DEF Free, IsJob
  <2>2. proc' = [proc EXCEPT ![p].pc = "wait", ![c] = e]
    BY <1>9, <1>a DEF Run
  <2> HIDE DEF e
  <2>3. proc' = [proc EXCEPT ![p] = r, ![c] = e]
    BY <1>1, <2>2 DEF Shape
  <2> QED BY <2>1, <2>3
<1>d. p # c
  BY <1>0, <1>a
<1>2. proc'[p] = r /\ proc'[c] = e /\ \A q \in Procs : q # p /\ q # c => proc'[q] = proc[q]
  BY <1>c, <1>d DEF Shape
<1>4. ProcType(r, Len(typed)) /\ Narrow(p) /\ \A j : Steady(p, j)
  BY <1>1, <1>2, <1>3, ShellMoves
<1>5. \A q \in Procs : q # p /\ q # c => SameView(q)
  BY <1>2 DEF SameView, Alive
<1>6. \A i \in Pipes : ~Takes(p, i)'
  <2>2. proc[p].pc # "reader"
    BY <1>0
  <2>3. \A i \in Pipes : ~Takes(p, i)
    BY <1>b, <2>2, Descriptors DEF Takes, Inlet
  <2> QED BY <1>4, <2>3 DEF Narrow
<1>7. ProcType(e, n)
  BY <1>9, <1>b, <1>c, JobType
<1>10. TypeInv'
  <2>1. \A q \in Procs : ProcType(proc'[q], Len(typed)) \/ ProcType(proc'[q], n)
    BY <1>2, <1>3, <1>4, <1>7 DEF TypeInv
  <2> QED BY <1>0, <1>3, <1>9, <2>1, RunTypes
<1>e. /\ ~Alive(c) /\ Alive(c)' /\ proc'[c].job = Len(typed) + 1 /\ proc'[c].pc \in {"tell", "exe"}
      /\ Inlet(c)' = Tty /\ Outlet(c)' = proc[p].out /\ Outlet(p) = proc[p].out
      /\ proc'[c].line = l /\ proc'[c].io = l[1].io
  <2>1. proc'[c].pc \in {"tell", "exe"} /\ proc'[c].in = Tty /\ proc'[c].out = proc[p].out
        /\ proc'[c].job = Len(typed) + 1 /\ proc'[c].line = l /\ proc'[c].io = l[1].io
    BY <1>2, <1>9, <1>c DEF IsJob
  <2> QED BY <1>0, <1>a, <2>1 DEF Alive, Inlet, Outlet
<1>f. \A x \in Sinks : Puts(c, x)' => Puts(p, x)
  BY <1>0, <1>e DEF Puts, Alive
<1>11. PICK K : K = {c}
  OBVIOUS
<1>12. Spawns(p, K)
  BY <1>0, <1>3, <1>4, <1>5, <1>6, <1>11, <1>d, <1>e, <1>f DEF Spawns
<1>13. \A j \in 1 .. Len(typed) : j \notin excused' => j \notin excused
  BY <1>0
<1>14. ASSUME Len(typed) + 1 \notin excused' /\ IsPlain(l)
       PROVE  \E k \in K : /\ Puts(k, 0)' /\ proc'[k].line = l /\ proc'[k].io = l[1].io
                           /\ 1 \in DOMAIN l
  <2>1. proc[p].out = Tty
    BY <1>0, <1>14
  <2>2. Puts(c, 0)'
    BY <1>e, <2>1 DEF Puts
  <2>3. 1 \in DOMAIN l
    BY LineIs
  <2> QED BY <1>11, <1>e, <2>2, <2>3
<1> QED BY <1>0, <1>10, <1>12, <1>13, <1>14, SpawnDeliver

-----------------------------------------------------------------------------
(***************************************************************************)
(* handlePipes(): there is always another pipe.                            *)
(***************************************************************************)

\* A function has at most as many values as arguments.
LEMMA ImageSize ==
  ASSUME NEW S, IsFiniteSet(S), NEW f, DOMAIN f = S, f = [x \in S |-> f[x]]
  PROVE  /\ IsFiniteSet({f[x] : x \in S}) /\ Cardinality({f[x] : x \in S}) <= Cardinality(S)
<1>1. PICK T : T = {f[x] : x \in S}
  OBVIOUS
<1>2. f \in Surjection(S, T)
  BY <1>1 DEF Surjection
<1>3. IsFiniteSet(T) /\ Cardinality(T) <= Cardinality(S)
  BY <1>2, FS_Surjection
<1> QED BY <1>1, <1>3

\* Two finite sets together.
LEMMA UnionSize ==
  ASSUME NEW S, NEW T, IsFiniteSet(S), IsFiniteSet(T), NEW a \in Nat, NEW b \in Nat,
         Cardinality(S) <= a, Cardinality(T) <= b
  PROVE  IsFiniteSet(S \union T) /\ Cardinality(S \union T) <= a + b
<1>1. /\ IsFiniteSet(S \union T)
      /\ Cardinality(S \union T) = Cardinality(S) + Cardinality(T) - Cardinality(S \intersect T)
  BY FS_Union
<1>2. IsFiniteSet(S \intersect T)
  BY FS_Intersection
<1>3. /\ Cardinality(S) \in Nat /\ Cardinality(T) \in Nat /\ Cardinality(S \intersect T) \in Nat
  BY <1>2, FS_CardinalityType
<1> QED BY <1>1, <1>3

\* A pipe that is held is the input or the output of a process, or the one that
\* it has just made.
LEMMA HeldPipe ==
  ASSUME TypeInv, NEW k \in Pipes, NEW q \in Procs, q \in Readers(k) \union Writers(k)
  PROVE  \/ proc[q].in[1] = k \/ proc[q].out[1] = k \/ (proc[q].pd # {} /\ PipeOf(q) = k)
<1>1. R(k) \in Holds(q) \/ W(k) \in Holds(q)
  BY DEF Readers, Writers
<1>2. CASE R(k) \in proc[q].pd \/ W(k) \in proc[q].pd
  <2>1. PICK i \in Pipes : proc[q].pd = {R(i), W(i)}
    BY <1>2 DEF TypeInv, ProcType
  <2>2. PipeOf(q) = i /\ k = i
    BY <1>2, <2>1, PipeOfIs, Descriptors
  <2> QED BY <1>2, <2>2
<1>3. CASE proc[q].in \in {R(k), W(k)} \/ proc[q].out \in {R(k), W(k)}
  BY <1>3, Descriptors
<1> QED BY <1>1, <1>2, <1>3 DEF Holds

\* Three pipes for each process are more than are in use.
LEMMA FreePipe ==
  ASSUME TypeInv, NEW p \in Procs, proc[p].pc = "pipe"
  PROVE  \E k \in Pipes : Readers(k) \union Writers(k) = {}
<1> SUFFICES ASSUME \A k \in Pipes : Readers(k) \union Writers(k) # {} PROVE FALSE
  OBVIOUS
<1> DEFINE f == [q \in Procs |-> proc[q].in[1]]
           g == [q \in Procs |-> proc[q].out[1]]
           h == [q \in Procs \ {p} |-> PipeOf(q)]
           A == {f[q] : q \in Procs}
           B == {g[q] : q \in Procs}
           C == {h[q] : q \in Procs \ {p}}
<1>1. NPROC \in Nat /\ 3 * NPROC \in Nat /\ NPROC # 0 /\ 3 * NPROC # 0
  <2>1. NPROC \in Nat /\ NPROC # 0
    BY Bounds
  <2> QED BY <2>1
<1>2. /\ IsFiniteSet(Procs) /\ Cardinality(Procs) = NPROC
      /\ IsFiniteSet(Pipes) /\ Cardinality(Pipes) = 3 * NPROC
  <2>1. PICK n \in Nat, m \in Nat : n = NPROC /\ m = 3 * NPROC /\ n # 0 /\ m # 0
    BY <1>1
  <2>2. IsFiniteSet(1 .. n) /\ Cardinality(1 .. n) = n
    BY <2>1, FS_Interval
  <2>3. IsFiniteSet(1 .. m) /\ Cardinality(1 .. m) = m
    BY <2>1, FS_Interval
  <2> QED BY <2>1, <2>2, <2>3 DEF Procs, Pipes
<1>3. IsFiniteSet(Procs \ {p}) /\ Cardinality(Procs \ {p}) = NPROC - 1
  BY <1>2, FS_RemoveElement
<1>4. proc[p].pd = {}
  BY DEF TypeInv, ProcType
<1>5. ASSUME NEW k \in Pipes PROVE k \in (A \union B) \union C
  <2>1. PICK q \in Procs : q \in Readers(k) \union Writers(k)
    BY DEF Readers, Writers
  <2>2. \/ proc[q].in[1] = k \/ proc[q].out[1] = k \/ (proc[q].pd # {} /\ PipeOf(q) = k)
    BY <2>1, HeldPipe
  <2>3. CASE proc[q].in[1] = k
    BY <2>3
  <2>4. CASE proc[q].out[1] = k
    BY <2>4
  <2>5. CASE proc[q].pd # {} /\ PipeOf(q) = k
    <3>1. q \in Procs \ {p}
      BY <1>4, <2>5
    <3>2. h[q] = k
      BY <2>5, <3>1
    <3> QED BY <3>1, <3>2
  <2> QED BY <2>2, <2>3, <2>4, <2>5
<1>6. IsFiniteSet(A) /\ Cardinality(A) <= NPROC
  <2>1. DOMAIN f = Procs /\ f = [q \in Procs |-> f[q]]
    OBVIOUS
  <2> HIDE DEF f
  <2> QED BY <1>2, <2>1, ImageSize
<1>7. IsFiniteSet(B) /\ Cardinality(B) <= NPROC
  <2>1. DOMAIN g = Procs /\ g = [q \in Procs |-> g[q]]
    OBVIOUS
  <2> HIDE DEF g
  <2> QED BY <1>2, <2>1, ImageSize
<1>8. IsFiniteSet(C) /\ Cardinality(C) <= NPROC - 1
  <2>1. DOMAIN h = Procs \ {p} /\ h = [q \in Procs \ {p} |-> h[q]]
    OBVIOUS
  <2>2. PICK S : S = Procs \ {p}
    OBVIOUS
  <2> HIDE DEF h
  <2>3. IsFiniteSet({h[q] : q \in S}) /\ Cardinality({h[q] : q \in S}) <= Cardinality(S)
    BY <1>3, <2>1, <2>2, ImageSize
  <2> QED BY <1>3, <2>2, <2>3
<1> HIDE DEF A, B, C, f, g, h
<1>9. PICK n \in Nat, m \in Nat : n = NPROC /\ m = NPROC - 1
  BY <1>1
<1>10. IsFiniteSet(A \union B) /\ Cardinality(A \union B) <= n + n
  BY <1>6, <1>7, <1>9, UnionSize
<1>e. PICK E : E = A \union B
  OBVIOUS
<1>11. PICK a \in Nat : a = n + n /\ IsFiniteSet(E) /\ Cardinality(E) <= a
  BY <1>10, <1>e
<1>12. IsFiniteSet(E \union C) /\ Cardinality(E \union C) <= a + m
  BY <1>8, <1>9, <1>11, UnionSize
<1>13. Pipes \in SUBSET (E \union C)
  BY <1>5, <1>e
<1>14. Cardinality(Pipes) <= Cardinality(E \union C)
  BY <1>12, <1>13, FS_Subset
<1>15. Cardinality(E \union C) \in Nat
  BY <1>12, FS_CardinalityType
<1>16. 3 * n <= a + m
  BY <1>2, <1>9, <1>12, <1>14, <1>15
<1> QED BY <1>1, <1>9, <1>11, <1>16

\* The pipe that handlePipes() makes: nobody writes into it or reads from it.
IsNew(i) ==
  /\ i \in Pipes
  /\ \A q \in Procs : ~Puts(q, i) /\ ~Takes(q, i)

NextPipe == Min({k \in Pipes : Readers(k) \union Writers(k) = {}})

\* pipe() finds such a pipe.
LEMMA NewPipe ==
  ASSUME TypeInv, NEW p \in Procs, proc[p].pc = "pipe"
  PROVE  IsNew(NextPipe)
<1>1. PICK T : T = {k \in Pipes : Readers(k) \union Writers(k) = {}}
  OBVIOUS
<1>2. T # {} /\ T \subseteq Nat
  BY <1>1, FreePipe, Descriptors
<1>3. PICK i : i = Min(T) /\ i \in T
  BY <1>2, MinIsIn
<1>4. i \in Pipes /\ Readers(i) = {} /\ Writers(i) = {}
  BY <1>1, <1>3
<1>5. \A q \in Procs : ~Puts(q, i) /\ ~Takes(q, i)
  BY <1>4, PutsHolds, TakesHolds
<1> QED BY <1>1, <1>3, <1>4, <1>5 DEF IsNew, NextPipe

-----------------------------------------------------------------------------
(***************************************************************************)
(* handlePipes(): one process becomes two, with pipe i between them.       *)
(***************************************************************************)

\* The writer p keeps its input, its child, if K has one, has its output.
Splits(p, i, K) ==
  /\ IsNew(i) /\ K \subseteq Procs \ {p} /\ (\A a, b \in K : a = b)
  /\ Alive(p) /\ Alive(p)' /\ proc[p].pc \in Pre /\ proc'[p].pc = "writer"
  /\ proc'[p].job = proc[p].job /\ Inlet(p)' = Inlet(p)
  /\ \A x \in Sinks : Puts(p, x)' <=> x = i
  /\ \A k \in Pipes : Takes(p, k)' <=> Takes(p, k)
  /\ \A c \in K :
       /\ ~Alive(c) /\ Alive(c)' /\ proc'[c].job = proc[p].job /\ proc'[c].pc = "reader"
       /\ \A x \in Sinks : Puts(c, x)' <=> Puts(p, x)
       /\ \A k \in Pipes : Takes(c, k)' <=> k = i
  /\ \A q \in Procs : q # p /\ q \notin K => SameView(q)
  /\ pipe'[i] = <<>> /\ \A k \in Pipes : k # i => pipe'[k] = pipe[k]

\* Carriers A become B, and their pipes X become Y.
Grows(p, i, K, A, B, X, Y) ==
  /\ p \in A => B \subseteq A \union K /\ Y = X \union {i}
  /\ p \notin A => B \subseteq A /\ Y = X \ {i}

\* Nobody writes where another one of them does.
LEMMA SplitWay ==
  ASSUME NEW p \in Procs, NEW i, NEW K, Splits(p, i, K), NEW A \in SUBSET Procs,
         NEW B \in SUBSET Procs, NEW X, NEW Y, Grows(p, i, K, A, B, X, Y),
         \A q \in A : Alive(q),
         \A q \in A, x \in Pipes : Puts(q, x) => x \in X,
         \A q, r \in A, x \in Sinks : Puts(q, x) /\ Puts(r, x) => q = r
  PROVE  /\ \A q \in B, x \in Pipes : Puts(q, x)' => x \in Y
         /\ \A q, r \in B, x \in Sinks : Puts(q, x)' /\ Puts(r, x)' => q = r
<1>0. /\ Pipes \subseteq Sinks /\ i \in Pipes /\ \A q \in Procs : ~Puts(q, i)
  BY Descriptors DEF Splits, IsNew
<1>1. ASSUME NEW q \in B
      PROVE  \/ q = p /\ p \in A
             \/ q \in K /\ p \in A /\ \A x \in Sinks : Puts(q, x)' <=> Puts(p, x)
             \/ q \in A /\ q # p /\ q \notin K /\ \A x \in Sinks : Puts(q, x)' <=> Puts(q, x)
  <2>1. CASE q = p
    BY <2>1 DEF Grows
  <2>2. CASE q \in K
    <3>1. ~Alive(q) /\ \A x \in Sinks : Puts(q, x)' <=> Puts(p, x)
      BY <2>2 DEF Splits
    <3>2. q \notin A
      BY <3>1
    <3>3. p \in A
      BY <3>2 DEF Grows
    <3> QED BY <2>2, <3>1, <3>3
  <2>3. CASE q # p /\ q \notin K
    <3>1. q \in A
      BY <2>3 DEF Grows
    <3>2. SameView(q)
      BY <2>3 DEF Splits
    <3> QED BY <2>3, <3>1, <3>2, SameEnds
  <2> QED BY <2>1, <2>2, <2>3
<1>p. \A x \in Sinks : Puts(p, x)' => x = i
  BY DEF Splits
<1>2. ASSUME NEW q \in B, NEW x \in Pipes, Puts(q, x)' PROVE x \in Y
  <2>1. CASE q = p /\ p \in A
    BY <1>0, <1>2, <1>p, <2>1 DEF Grows
  <2>2. CASE q # p
    <3>1. PICK r \in A : Puts(r, x)
      BY <1>0, <1>1, <1>2, <2>2
    <3>2. x \in X /\ x # i
      BY <1>0, <3>1
    <3> QED BY <3>2 DEF Grows
  <2> QED BY <1>1, <2>1, <2>2 DEF Grows
<1>k. \A q \in K : q # p /\ \A r \in K : q = r
  BY DEF Splits
<1>3. ASSUME NEW q \in B, NEW r \in B, NEW x \in Sinks, Puts(q, x)', Puts(r, x)' PROVE q = r
  <2>1. CASE x = i
    <3>1. q = p
      BY <1>0, <1>1, <1>3, <2>1
    <3>2. r = p
      BY <1>0, <1>1, <1>3, <2>1
    <3> QED BY <3>1, <3>2
  <2>2. CASE x # i
    <3>1. q # p /\ r # p
      BY <1>3, <1>p, <2>2
    <3>2. \/ q \in K /\ p \in A /\ Puts(p, x)
          \/ q \in A /\ q \notin K /\ Puts(q, x)
      BY <1>1, <1>3, <3>1
    <3>3. \/ r \in K /\ p \in A /\ Puts(p, x)
          \/ r \in A /\ r \notin K /\ Puts(r, x)
      BY <1>1, <1>3, <3>1
    <3> QED BY <1>k, <3>1, <3>2, <3>3
  <2> QED BY <2>1, <2>2
<1> QED BY <1>2, <1>3

\* Who carries what a process writes.
LEMMA SplitOne ==
  ASSUME NEW p \in Procs, NEW i, NEW K, Splits(p, i, K), NEW o \in Procs, o \notin K,
         Alive(o)', NEW X \in SUBSET Pipes, OneWay({o}, X), NEW Y,
         Carries(p, {o}, X) => Y = X \union {i}, ~Carries(p, {o}, X) => Y = X \ {i}
  PROVE  OneWay({o}, Y)'
<1>y. Y \subseteq Pipes
  BY DEF Splits, IsNew
<1>a. PICK A : A = {q \in Procs : Carries(q, {o}, X)}
  OBVIOUS
<1>b. PICK B : B = {q \in Procs : Carries(q, {o}, Y)'}
  OBVIOUS
<1>1. ASSUME NEW q \in B PROVE q \in A \/ (q \in K /\ p \in A)
  <2>1. Alive(q)' /\ (q = o \/ \E k \in Y : Takes(q, k)')
    BY <1>b DEF Carries
  <2>2. CASE q = p
    <3>1. Alive(p) /\ (p = o \/ \E k \in Y : Takes(p, k))
      BY <1>y, <2>1, <2>2 DEF Splits
    <3>2. ~Takes(p, i)
      BY DEF Splits, IsNew
    <3>3. Carries(p, {o}, X)
      BY <3>1, <3>2 DEF Carries
    <3> QED BY <1>a, <2>2, <3>3
  <2>3. CASE q \in K
    <3>1. PICK k \in Y : Takes(q, k)'
      BY <2>1, <2>3
    <3>2. k = i
      BY <2>3, <3>1 DEF Splits, IsNew
    <3>3. Carries(p, {o}, X)
      BY <3>1, <3>2
    <3> QED BY <1>a, <2>3, <3>3
  <2>4. CASE q # p /\ q \notin K
    <3>1. q \in Procs /\ SameView(q)
      BY <1>b, <2>4 DEF Splits
    <3>2. Alive(q) /\ (q = o \/ \E k \in Y : Takes(q, k))
      BY <2>1, <3>1, SameEnds DEF SameView
    <3>3. ~Takes(q, i)
      BY <3>1 DEF Splits, IsNew
    <3>4. Carries(q, {o}, X)
      BY <3>2, <3>3 DEF Carries
    <3> QED BY <1>a, <3>1, <3>4
  <2> QED BY <2>2, <2>3, <2>4
<1>2. Grows(p, i, K, A, B, X, Y)
  BY <1>1, <1>a DEF Grows
<1>3. /\ A \in SUBSET Procs /\ B \in SUBSET Procs /\ (\A q \in A : Alive(q))
      /\ \A q \in A, x \in Pipes : Puts(q, x) => x \in X
      /\ \A q, r \in A, x \in Sinks : Puts(q, x) /\ Puts(r, x) => q = r
  BY <1>a, <1>b DEF OneWay, Carries
<1>4. /\ \A q \in B, x \in Pipes : Puts(q, x)' => x \in Y
      /\ \A q, r \in B, x \in Sinks : Puts(q, x)' /\ Puts(r, x)' => q = r
  BY <1>2, <1>3, SplitWay
<1> QED BY <1>4, <1>b DEF OneWay

\* The child carries at most what its parent does.
LEMMA SplitChild ==
  ASSUME NEW p \in Procs, NEW i, NEW K, Splits(p, i, K), NEW c \in K,
         NEW X \in SUBSET Pipes, OneWay({p}, X), NEW Y, Y = X \union {i}
  PROVE  OneWay({c}, Y)'
<1>1. Carries(p, {p}, X) /\ Alive(p)' /\ p \notin K
  BY DEF Splits, Carries
<1>2. OneWay({p}, Y)'
  BY <1>1, SplitOne
<1>3. Alive(p)' /\ i \in Y /\ Carries(p, {p}, Y)'
  BY <1>1 DEF Carries
<1>4. Takes(c, i)'
  BY DEF Splits, IsNew
<1>5. \A q \in Procs : Carries(q, {c}, Y)' => Carries(q, {p}, Y)'
  BY <1>3, <1>4 DEF Carries
<1> QED BY <1>2, <1>5 DEF OneWay

\* The pipes of job j, and how much has gone into them.
JobGrows(p, i, j, X, Y, s, t) ==
  /\ IF Carries(p, Workers(j), X) THEN Y = X \union {i} ELSE Y = X \ {i}
  /\ Counts(s) /\ Counts(t) /\ t[i] = 0 /\ \A x \in Sinks : x # i => t[x] = s[x]

\* The child works for the job of its parent.
LEMMA SplitWorkers ==
  ASSUME NEW p \in Procs, NEW i, NEW K, Splits(p, i, K), NEW j
  PROVE  /\ p \in Workers(j)' <=> p \in Workers(j)
         /\ \A c \in K : c \notin Workers(j) /\ (c \in Workers(j)' <=> p \in Workers(j))
         /\ \A q \in Procs : q # p /\ q \notin K => (q \in Workers(j)' <=> q \in Workers(j))
<1>1. proc[p].pc \notin Shells /\ "writer" \notin Shells /\ "reader" \notin Shells
  BY DEF Splits, Pre, Shells
<1>2. p \in Workers(j)' <=> p \in Workers(j)
  BY <1>1 DEF Splits, Workers
<1>3. ASSUME NEW c \in K PROVE c \notin Workers(j) /\ (c \in Workers(j)' <=> p \in Workers(j))
  BY <1>1 DEF Splits, Workers
<1>4. ASSUME NEW q \in Procs, q # p, q \notin K PROVE q \in Workers(j)' <=> q \in Workers(j)
  <2>1. SameView(q)
    BY <1>4 DEF Splits
  <2> QED BY <2>1, SameFields DEF SameView, Workers
<1> QED BY <1>2, <1>3, <1>4

\* Who carries the data of the job.
LEMMA SplitCarries ==
  ASSUME NEW p \in Procs, NEW i, NEW K, Splits(p, i, K), NEW j, NEW X \in SUBSET Pipes,
         NEW Y, NEW s, NEW t, JobGrows(p, i, j, X, Y, s, t),
         NEW q \in Procs, Carries(q, Workers(j), Y)'
  PROVE  Carries(q, Workers(j), X) \/ (q \in K /\ Carries(p, Workers(j), X))
<1>y. Y \subseteq Pipes
  BY DEF Splits, IsNew, JobGrows
<1>1. Alive(q)' /\ (q \in Workers(j)' \/ \E k \in Y : Takes(q, k)')
  BY DEF Carries
<1>2. CASE q = p
  <2>1. Alive(p) /\ (p \in Workers(j) \/ \E k \in Y : Takes(p, k))
    BY <1>1, <1>2, <1>y, SplitWorkers DEF Splits
  <2>2. ~Takes(p, i)
    BY DEF Splits, IsNew
  <2> QED BY <1>2, <2>1, <2>2 DEF Carries, JobGrows
<1>3. CASE q \in K
  <2>1. CASE q \in Workers(j)'
    <3>1. p \in Workers(j)
      BY <1>3, <2>1, SplitWorkers
    <3> QED BY <1>3, <3>1 DEF Carries, Workers
  <2>2. CASE \E k \in Y : Takes(q, k)'
    <3>1. i \in Y
      BY <1>3, <1>y, <2>2 DEF Splits
    <3> QED BY <1>3, <3>1 DEF JobGrows
  <2> QED BY <1>1, <2>1, <2>2
<1>4. CASE q # p /\ q \notin K
  <2>1. SameView(q)
    BY <1>4 DEF Splits
  <2>2. Alive(q) /\ (q \in Workers(j) \/ \E k \in Y : Takes(q, k))
    BY <1>1, <1>4, <2>1, SameEnds, SplitWorkers DEF SameView
  <2>3. ~Takes(q, i)
    BY DEF Splits, IsNew
  <2> QED BY <2>2, <2>3 DEF Carries, JobGrows
<1> QED BY <1>2, <1>3, <1>4

\* The job's data goes one way.
LEMMA SplitJobWay ==
  ASSUME NEW p \in Procs, NEW i, NEW K, Splits(p, i, K), NEW j, NEW X \in SUBSET Pipes,
         NEW Y, NEW s, NEW t, JobGrows(p, i, j, X, Y, s, t), OneWay(Workers(j), X)
  PROVE  OneWay(Workers(j), Y)'
<1>a. PICK A : A = {q \in Procs : Carries(q, Workers(j), X)}
  OBVIOUS
<1>b. PICK B : B = {q \in Procs : Carries(q, Workers(j), Y)'}
  OBVIOUS
<1>1. ASSUME NEW q \in B PROVE q \in A \/ (q \in K /\ p \in A)
  BY <1>a, <1>b, SplitCarries
<1>2. Grows(p, i, K, A, B, X, Y)
  BY <1>1, <1>a DEF Grows, JobGrows
<1>3. /\ A \in SUBSET Procs /\ B \in SUBSET Procs /\ (\A q \in A : Alive(q))
      /\ \A q \in A, x \in Pipes : Puts(q, x) => x \in X
      /\ \A q, r \in A, x \in Sinks : Puts(q, x) /\ Puts(r, x) => q = r
  BY <1>a, <1>b DEF OneWay, Carries
<1>4. /\ \A q \in B, x \in Pipes : Puts(q, x)' => x \in Y
      /\ \A q, r \in B, x \in Sinks : Puts(q, x)' /\ Puts(r, x)' => q = r
  BY <1>2, <1>3, SplitWay
<1> QED BY <1>4, <1>b DEF OneWay

\* The new pipe is empty, and nothing has come out of it.
LEMMA SplitNewFlow ==
  ASSUME NEW p \in Procs, NEW i, NEW K, Splits(p, i, K), NEW j, NEW X \in SUBSET Pipes,
         NEW Y, NEW s, NEW t, JobGrows(p, i, j, X, Y, s, t), JobInv(j, X, s), i \in Y
  PROVE  Flows(i, j, t)'
<1>1. i \in Pipes /\ i \in Sinks /\ pipe'[i] = <<>> /\ t[i] = 0
  BY Descriptors DEF Splits, IsNew, JobGrows
<1>2. InOrder(pipe'[i], j, 0, 0)
  <2>1. NoneOf(<<>>, j)
    BY DEF NoneOf
  <2> QED BY <1>1, <2>1, NoneInOrder
<1>3. Carries(p, Workers(j), X) /\ proc[p].pc \in Pre
  BY DEF JobGrows, Splits
<1>4. ASSUME NEW q \in Procs, NEW x \in Sinks, Takes(q, i)', Puts(q, x)' PROVE 0 = t[x]
  <2>1. q \in K
    <3>1. ~Takes(q, i)
      BY DEF Splits, IsNew
    <3> QED BY <1>1, <1>4, <3>1, SameEnds DEF Splits
  <2>2. Puts(p, x)
    BY <1>4, <2>1 DEF Splits
  <2>3. x # i /\ s[x] = 0
    BY <1>3, <2>2 DEF Splits, IsNew, JobInv
  <2> QED BY <2>3 DEF JobGrows
<1>5. 0 \in 0 .. t[i]
  BY <1>1
<1> QED BY <1>1, <1>2, <1>4, <1>5 DEF Flows

\* A process that makes a pipe has copied nothing yet.
LEMMA SplitOldFlow ==
  ASSUME TypeInv, NEW p \in Procs, NEW i, NEW K, Splits(p, i, K), NEW j, NEW X \in SUBSET Pipes,
         NEW Y, NEW s, NEW t, JobGrows(p, i, j, X, Y, s, t), JobInv(j, X, s),
         NEW k \in X, k # i
  PROVE  Flows(k, j, t)'
<1>1. PICK lo \in 0 .. s[k] :
        /\ InOrder(pipe[k], j, lo, s[k])
        /\ \A q \in Procs, x \in Sinks : Takes(q, k) /\ MayCopy(q) /\ Puts(q, x) => lo = s[x]
  BY DEF JobInv, Flows
<1>2. k \in Pipes /\ k \in Sinks /\ pipe'[k] = pipe[k] /\ t[k] = s[k]
  BY Descriptors DEF Splits, JobGrows
<1>3. ASSUME NEW q \in Procs, NEW x \in Sinks, Takes(q, k)', MayCopy(q)', Puts(q, x)'
      PROVE  lo = t[x]
  <2>1. q \notin K
    BY <1>2, <1>3 DEF Splits
  <2>2. CASE q = p
    <3>1. Takes(p, k) /\ x = i
      BY <1>2, <1>3, <2>2 DEF Splits
    <3>2. proc[p].pc \in Pre /\ MayCopy(p) /\ Alive(p)
      BY DEF Splits, MayCopy
    <3>3. PICK y \in Sinks : Puts(p, y)
      BY <3>2, OutletIs DEF Puts
    <3>4. Carries(p, Workers(j), X)
      BY <3>1, <3>2 DEF Carries
    <3>5. lo = s[y] /\ s[y] = 0
      BY <1>1, <3>1, <3>2, <3>3, <3>4 DEF JobInv
    <3> QED BY <3>1, <3>5 DEF JobGrows
  <2>3. CASE q # p
    <3>1. SameView(q)
      BY <2>1, <2>3 DEF Splits
    <3>2. Takes(q, k) /\ Puts(q, x) /\ Alive(q)
      BY <1>3, <3>1, SameEnds DEF Takes
    <3>3. MayCopy(q)
      BY <1>3, <3>1, <3>2, SameFields DEF MayCopy
    <3>4. x # i
      BY <3>2 DEF Splits, IsNew
    <3> QED BY <1>1, <3>2, <3>3, <3>4 DEF JobGrows
  <2> QED BY <2>2, <2>3
<1> QED BY <1>1, <1>2, <1>3 DEF Flows

\* All of the job's data stays in order.
LEMMA SplitJob ==
  ASSUME TypeInv, NEW p \in Procs, NEW i, NEW K, Splits(p, i, K), NEW j, NEW X \in SUBSET Pipes,
         NEW Y, NEW s, NEW t, JobGrows(p, i, j, X, Y, s, t), JobInv(j, X, s),
         shown'[j] = shown[j]
  PROVE  JobInv(j, Y, t)'
<1>0. i \in Pipes /\ i # 0 /\ 0 \in Sinks /\ \A q \in Procs : ~Puts(q, i)
  BY Descriptors DEF Splits, IsNew
<1>1. OneWay(Workers(j), Y)'
  BY SplitJobWay DEF JobInv
<1>2. shown'[j] = [n \in 1 .. t[0] |-> n]
  BY <1>0 DEF JobInv, JobGrows
<1>3. ASSUME NEW k \in Pipes \ Y PROVE NoneOf(pipe'[k], j)
  <2>1. CASE k = i
    BY <2>1 DEF Splits, NoneOf
  <2>2. CASE k # i
    <3>1. k \in Pipes \ X
      BY <2>2 DEF JobGrows
    <3> QED BY <2>2, <3>1 DEF Splits, JobInv
  <2> QED BY <2>1, <2>2
<1>4. ASSUME NEW k \in Y PROVE Flows(k, j, t)'
  <2>1. CASE k = i
    BY <2>1, SplitNewFlow
  <2>2. CASE k # i
    <3>1. k \in X
      BY <2>2 DEF JobGrows
    <3> QED BY <2>2, <3>1, SplitOldFlow
  <2> QED BY <2>1, <2>2
<1>5. ASSUME NEW q \in Procs, NEW x \in Sinks, Carries(q, Workers(j), Y)', proc'[q].pc \in Pre,
             Puts(q, x)'
      PROVE  t[x] = 0
  <2>1. CASE q = p
    BY <1>5, <2>1 DEF Splits, JobGrows
  <2>2. CASE q # p
    <3>1. PICK r \in Procs : Carries(r, Workers(j), X) /\ proc[r].pc \in Pre /\ Puts(r, x)
      <4>1. CASE q \in K
        <5>1. ~Alive(q) /\ Puts(p, x) /\ proc[p].pc \in Pre
          BY <1>5, <4>1 DEF Splits
        <5>2. Carries(p, Workers(j), X)
          BY <1>5, <5>1, SplitCarries DEF Carries
        <5> QED BY <5>1, <5>2
      <4>2. CASE q \notin K
        <5>1. SameView(q) /\ Carries(q, Workers(j), X)
          BY <1>5, <2>2, <4>2, SplitCarries DEF Splits
        <5>2. proc[q].pc \in Pre /\ Puts(q, x)
          BY <1>5, <5>1, SameEnds, SameFields DEF Carries
        <5> QED BY <5>1, <5>2
      <4> QED BY <4>1, <4>2
    <3>2. s[x] = 0 /\ x # i
      BY <1>0, <3>1 DEF JobInv
    <3> QED BY <3>2 DEF JobGrows
  <2> QED BY <2>1, <2>2
<1>6. ASSUME NEW q \in Workers(j)', NEW x \in Sinks, Makes(q)', Puts(q, x)'
      PROVE  t[x] + proc'[q].left = UNITS
  <2>1. q \in Procs /\ q # p /\ q \notin K
    BY <1>6 DEF Workers, Makes, Splits
  <2>2. SameView(q) /\ q \in Workers(j)
    BY <2>1, SplitWorkers DEF Splits
  <2>3. Alive(q)
    BY <2>2 DEF Workers
  <2>4. Makes(q) /\ Puts(q, x) /\ proc'[q].left = proc[q].left
    BY <1>6, <2>2, <2>3, SameFields, SameEnds DEF Makes
  <2>5. x # i
    BY <1>0, <2>1, <2>4
  <2> QED BY <2>2, <2>4, <2>5 DEF JobInv, JobGrows
<1> QED BY <1>1, <1>2, <1>3, <1>4, <1>5, <1>6 DEF JobInv

\* The lines of the two sides of a plain pipeline.
SplitLines(p, K) ==
  PlainLine(proc[p]) =>
    /\ PlainLine(proc'[p]) /\ proc'[p].line[1].prog = proc[p].line[1].prog
    /\ \A c \in K : PlainLine(proc'[c]) /\ proc'[c].line[1].prog = "copy"

\* The child is the next in the chain.
LEMMA SplitPlain ==
  ASSUME NEW p \in Procs, NEW i, NEW K, Splits(p, i, K), SplitLines(p, K), NEW j,
         NEW X \in SUBSET Pipes, NEW Y, NEW s, NEW t, JobGrows(p, i, j, X, Y, s, t),
         PlainInv(j, X, s), p \in Workers(j) => K # {}
  PROVE  PlainInv(j, Y, t)'
<1>0. /\ i \in Pipes /\ i # 0 /\ 0 \in Sinks /\ i \in Sinks /\ Pipes \subseteq Sinks
      /\ \A q \in Procs : ~Puts(q, i) /\ ~Takes(q, i)
  BY Descriptors DEF Splits, IsNew
<1>w. /\ p \in Workers(j)' <=> p \in Workers(j)
      /\ \A c \in K : c \notin Workers(j) /\ (c \in Workers(j)' <=> p \in Workers(j))
      /\ \A q \in Procs : q # p /\ q \notin K => (q \in Workers(j)' <=> q \in Workers(j))
  BY SplitWorkers
<1>o. ASSUME NEW q \in Workers(j), q # p
      PROVE  /\ q \in Procs /\ Alive(q) /\ q \notin K /\ SameView(q) /\ q \in Workers(j)'
             /\ (\A x \in Sinks : Puts(q, x)' <=> Puts(q, x))
             /\ (\A k \in Pipes : Takes(q, k)' <=> Takes(q, k))
  <2>1. q \in Procs /\ Alive(q) /\ q \notin K
    BY <1>w DEF Workers
  <2>2. SameView(q)
    BY <1>o, <2>1 DEF Splits
  <2> QED BY <1>o, <1>w, <2>1, <2>2, SameEnds
<1>t. ASSUME NEW r \in Workers(j), NEW k \in Pipes, Takes(r, k)
      PROVE  r \in Workers(j)' /\ Takes(r, k)'
  BY <1>t, <1>o, <1>w DEF Splits
<1>1. ASSUME NEW x \in Sinks, x # i, Fed(j, x, s) PROVE Fed(j, x, t)'
  <2>1. CASE s[x] = UNITS
    BY <1>1, <2>1 DEF Fed, JobGrows
  <2>2. CASE \E w \in Workers(j) : Puts(w, x)
    <3>1. PICK w \in Workers(j) : Puts(w, x)
      BY <2>2
    <3>2. CASE w = p
      <4>1. PICK c \in K : TRUE
        BY <3>2
      <4>2. Puts(c, x)' /\ c \in Workers(j)'
        BY <1>w, <3>1, <3>2, <4>1 DEF Splits
      <4> QED BY <4>2 DEF Fed
    <3>3. CASE w # p
      BY <1>o, <3>1, <3>3 DEF Fed
    <3> QED BY <3>2, <3>3
  <2> QED BY <1>1, <2>1, <2>2 DEF Fed
<1>2. Fed(j, 0, t)'
  BY <1>0, <1>1 DEF PlainInv
<1>3. ASSUME NEW q \in Workers(j), q # p
      PROVE  /\ Heard(q, j)' /\ HasRole(q, j, Y, t)'
             /\ proc'[q].pc \in Pre => PlainLine(proc'[q])
  <2>1. Heard(q, j) /\ HasRole(q, j, X, s) /\ (proc[q].pc \in Pre => PlainLine(proc[q]))
    BY DEF PlainInv
  <2>2. Heard(q, j)'
    <3>1. PICK x \in Sinks : Puts(q, x) /\ (x \in Pipes => \E r \in Workers(j) : Takes(r, x))
      BY <2>1 DEF Heard
    <3>2. Puts(q, x)' /\ (x \in Pipes => \E r \in Workers(j)' : Takes(r, x)')
      BY <1>3, <1>o, <1>t, <3>1
    <3> QED BY <3>2 DEF Heard
  <2>3. /\ proc'[q].pc = proc[q].pc /\ proc'[q].line = proc[q].line /\ proc'[q].io = proc[q].io
        /\ Inlet(q)' = Inlet(q)
    BY <1>3, <1>o, SameFields, SameEnds
  <2>4. HasRole(q, j, Y, t)'
    <3>1. CASE Plays(q, "make") /\ Inlet(q) = Tty
      BY <2>3, <3>1 DEF HasRole, Plays
    <3>2. CASE Plays(q, "copy") /\ \E k \in X : Takes(q, k) /\ Fed(j, k, s)
      <4>1. PICK k \in X : Takes(q, k) /\ Fed(j, k, s)
        BY <3>2
      <4>2. k # i /\ k \in Y /\ Takes(q, k)'
        BY <1>0, <1>3, <1>o, <4>1 DEF JobGrows
      <4>3. Fed(j, k, t)'
        BY <1>0, <1>1, <4>1, <4>2
      <4> QED BY <2>3, <3>2, <4>2, <4>3 DEF HasRole, Plays
    <3> QED BY <2>1, <3>1, <3>2 DEF HasRole
  <2>5. proc'[q].pc \in Pre => PlainLine(proc'[q])
    BY <2>1, <2>3 DEF PlainLine
  <2> QED BY <2>2, <2>4, <2>5
<1>4. ASSUME p \in Workers(j)
      PROVE  /\ Heard(p, j)' /\ HasRole(p, j, Y, t)' /\ PlainLine(proc'[p])
             /\ \A c \in K : Heard(c, j)' /\ HasRole(c, j, Y, t)' /\ PlainLine(proc'[c])
  <2>1. /\ Heard(p, j) /\ HasRole(p, j, X, s) /\ PlainLine(proc[p])
        /\ proc[p].pc \in Pre /\ proc'[p].pc \in Pre /\ Inlet(p)' = Inlet(p)
    BY <1>4 DEF PlainInv, Splits, Pre
  <2>2. /\ PlainLine(proc'[p]) /\ proc'[p].line[1].prog = proc[p].line[1].prog
        /\ \A c \in K : PlainLine(proc'[c]) /\ proc'[c].line[1].prog = "copy"
    BY <2>1 DEF SplitLines
  <2>3. PICK c \in K : TRUE
    BY <1>4
  <2>4. p \in Workers(j)' /\ c \in Workers(j)' /\ Puts(p, i)' /\ Takes(c, i)' /\ i \in Y
    BY <1>0, <1>4, <1>w, <2>3 DEF Splits, JobGrows, Carries
  <2>5. Heard(p, j)'
    BY <1>0, <2>4 DEF Heard
  <2>6. HasRole(p, j, Y, t)'
    <3>0. \A a \in {"make", "copy"} : Plays(p, a) => Plays(p, a)'
      <4>1. proc[p].pc \notin {"make", "copy"}
        BY <2>1 DEF Pre
      <4> QED BY <2>1, <2>2, <4>1 DEF Plays
    <3>1. CASE Plays(p, "make") /\ Inlet(p) = Tty
      BY <2>1, <3>0, <3>1 DEF HasRole
    <3>2. CASE Plays(p, "copy") /\ \E k \in X : Takes(p, k) /\ Fed(j, k, s)
      <4>1. PICK k \in X : Takes(p, k) /\ Fed(j, k, s)
        BY <3>2
      <4>2. k # i /\ k \in Y /\ Takes(p, k)'
        BY <1>0, <4>1 DEF JobGrows, Splits
      <4>3. Fed(j, k, t)'
        BY <1>0, <1>1, <4>1, <4>2
      <4> QED BY <3>0, <3>2, <4>2, <4>3 DEF HasRole
    <3> QED BY <2>1, <3>1, <3>2 DEF HasRole
  <2>7. Heard(c, j)'
    <3>1. PICK x \in Sinks : Puts(p, x) /\ (x \in Pipes => \E r \in Workers(j) : Takes(r, x))
      BY <2>1 DEF Heard
    <3>2. Puts(c, x)' /\ (x \in Pipes => \E r \in Workers(j)' : Takes(r, x)')
      BY <1>t, <3>1 DEF Splits
    <3> QED BY <3>2 DEF Heard
  <2>8. HasRole(c, j, Y, t)'
    <3>1. Fed(j, i, t)'
      BY <2>4 DEF Fed
    <3>2. Plays(c, "copy")'
      BY <2>2, <2>3 DEF Plays, Splits, Pre
    <3> QED BY <2>4, <3>1, <3>2 DEF HasRole
  <2>9. \A a \in K : a = c
    BY DEF Splits
  <2> QED BY <2>2, <2>5, <2>6, <2>7, <2>8, <2>9
<1>5. ASSUME NEW q \in Workers(j)'
      PROVE  /\ Heard(q, j)' /\ HasRole(q, j, Y, t)'
             /\ proc'[q].pc \in Pre => PlainLine(proc'[q])
  <2>0. q \in Procs
    BY DEF Workers
  <2>1. CASE q = p
    BY <1>4, <1>w, <2>1
  <2>2. CASE q \in K
    BY <1>4, <1>w, <2>2
  <2>3. CASE q # p /\ q \notin K
    BY <1>3, <1>w, <2>0, <2>3
  <2> QED BY <2>1, <2>2, <2>3
<1> QED BY <1>2, <1>5 DEF PlainInv

\* All that is needed of handlePipes().
LEMMA SplitDeliver ==
  ASSUME DeliverInv, TypeInv', NEW p \in Procs, NEW i, NEW K, Splits(p, i, K),
         SplitLines(p, K), typed' = typed, shown' = shown,
         \A j : j \notin excused' => j \notin excused /\ (p \in Workers(j) => K # {})
  PROVE  DeliverInv'
<1>0. TypeInv /\ OneTaker /\ Len(typed) \in Nat /\ MaxLines \in Nat /\ Len(typed) <= MaxLines
  <2>1. TypeInv /\ OneTaker
    BY DEF DeliverInv
  <2> QED BY <2>1, Bounds DEF TypeInv, PipeType
<1>1. PICK D, P, S : Streams(D, P, S)
  BY DEF DeliverInv
<1>2. i \in Pipes /\ i # 0 /\ i \in Sinks /\ UNITS \in Nat
  BY Descriptors, Bounds DEF Splits, IsNew
<1>e. PICK E : E = [q \in Procs |-> IF q \in K THEN D[p] \union {i}
                                   ELSE IF Carries(p, {q}, D[q]) THEN D[q] \union {i}
                                   ELSE D[q] \ {i}]
  OBVIOUS
<1>q. PICK Q : Q = [j \in 1 .. MaxLines |-> IF Carries(p, Workers(j), P[j]) THEN P[j] \union {i}
                                           ELSE P[j] \ {i}]
  OBVIOUS
<1>t. PICK T : T = [j \in 1 .. MaxLines |-> [S[j] EXCEPT ![i] = 0]]
  OBVIOUS
<1>3. \A j \in 1 .. Len(typed) : j \in 1 .. MaxLines
  BY <1>0
<1>4. E \in [Procs -> SUBSET Pipes] /\ Q \in [1 .. MaxLines -> SUBSET Pipes]
  BY <1>1, <1>2, <1>e, <1>q DEF Streams
<1>5. T \in [1 .. MaxLines -> [Sinks -> 0 .. UNITS]]
  <2>1. ASSUME NEW j \in 1 .. MaxLines PROVE [S[j] EXCEPT ![i] = 0] \in [Sinks -> 0 .. UNITS]
    <3>1. S[j] \in [Sinks -> 0 .. UNITS] /\ 0 \in 0 .. UNITS
      BY <1>1, <1>2 DEF Streams
    <3> QED BY <3>1
  <2> QED BY <1>t, <2>1
<1>6. ASSUME NEW j \in 1 .. MaxLines
      PROVE  P[j] \in SUBSET Pipes /\ JobGrows(p, i, j, P[j], Q[j], S[j], T[j])
  <2>1. S[j] \in [Sinks -> 0 .. UNITS] /\ T[j] \in [Sinks -> 0 .. UNITS]
        /\ P[j] \in SUBSET Pipes
    BY <1>1, <1>5 DEF Streams
  <2>2. T[j] = [S[j] EXCEPT ![i] = 0]
    BY <1>t
  <2>3. T[j][i] = 0 /\ \A x \in Sinks : x # i => T[j][x] = S[j][x]
    BY <1>2, <2>1, <2>2
  <2>4. Q[j] = IF Carries(p, Workers(j), P[j]) THEN P[j] \union {i} ELSE P[j] \ {i}
    BY <1>q
  <2> QED BY <2>1, <2>3, <2>4 DEF JobGrows, Counts
<1>7. ASSUME NEW q \in Procs, Alive(q)' PROVE OneWay({q}, E[q])'
  <2>1. CASE q \in K
    <3>1. D[p] \in SUBSET Pipes /\ OneWay({p}, D[p]) /\ E[q] = D[p] \union {i}
      BY <1>1, <1>e, <2>1 DEF Streams, Splits
    <3> QED BY <2>1, <3>1, SplitChild
  <2>2. CASE q \notin K
    <3>1. Alive(q)
      BY <1>7, <2>2 DEF Splits, SameView
    <3>2. D[q] \in SUBSET Pipes /\ OneWay({q}, D[q])
      BY <1>1, <3>1 DEF Streams
    <3>3. E[q] = IF Carries(p, {q}, D[q]) THEN D[q] \union {i} ELSE D[q] \ {i}
      BY <1>e, <2>2
    <3> QED BY <1>7, <2>2, <3>2, <3>3, SplitOne
  <2> QED BY <2>1, <2>2
<1>8. ASSUME NEW j \in 1 .. Len(typed) PROVE JobInv(j, Q[j], T[j])'
  <2>1. JobInv(j, P[j], S[j]) /\ j \in 1 .. MaxLines
    BY <1>1, <1>3 DEF Streams
  <2>2. P[j] \in SUBSET Pipes /\ JobGrows(p, i, j, P[j], Q[j], S[j], T[j])
    BY <1>6, <2>1
  <2>3. shown'[j] = shown[j]
    OBVIOUS
  <2> QED BY <1>0, <2>1, <2>2, <2>3, SplitJob
<1>9. ASSUME NEW j \in 1 .. Len(typed), IsPlain(typed[j]), j \notin excused'
      PROVE  PlainInv(j, Q[j], T[j])'
  <2>1. PlainInv(j, P[j], S[j]) /\ j \in 1 .. MaxLines /\ (p \in Workers(j) => K # {})
    BY <1>1, <1>3, <1>9 DEF Streams
  <2>2. P[j] \in SUBSET Pipes /\ JobGrows(p, i, j, P[j], Q[j], S[j], T[j])
    BY <1>6, <2>1
  <2> QED BY <2>1, <2>2, SplitPlain
<1>10. Streams(E, Q, T)'
  BY <1>4, <1>5, <1>7, <1>8, <1>9 DEF Streams
<1>11. OneTaker'
  <2>1. ASSUME NEW k \in Pipes, NEW q \in Procs, NEW r \in Procs, Takes(q, k)', Takes(r, k)'
        PROVE  q = r
    <3>1. \A a \in Procs : Takes(a, k)' /\ a \notin K => Takes(a, k)
      BY SameEnds DEF Splits
    <3>2. CASE k = i
      <4>1. q \in K /\ r \in K
        BY <2>1, <3>1, <3>2 DEF Splits, IsNew
      <4> QED BY <4>1 DEF Splits
    <3>3. CASE k # i
      <4>1. q \notin K /\ r \notin K
        BY <2>1, <3>3 DEF Splits
      <4> QED BY <1>0, <2>1, <3>1, <4>1 DEF OneTaker
    <3> QED BY <3>2, <3>3
  <2> QED BY <2>1 DEF OneTaker
<1> QED BY <1>10, <1>11 DEF DeliverInv

\* Without redirections handleIO() finds none.
LEMMA NoRedirection ==
  ASSUME NEW others \in SUBSET {""}
  PROVE  Redirection("", others) = ""
<1>1. "<" \notin others /\ others \intersect {">", ">>"} = {}
  OBVIOUS
<1> QED BY <1>1 DEF Redirection

\* The two sides, made from the process o.
IsWriter(w, o, i) ==
  /\ w.pc = "writer" /\ w.pd = {R(i), W(i)} /\ w.in = o.in /\ w.out = o.out /\ w.job = o.job
  /\ w.left = o.left /\ w.line = o.line
  /\ (\A k \in DOMAIN o.line : o.line[k].io = "") => w.io = ""
IsReader(r, o, i) ==
  /\ r.pc = "reader" /\ r.pd = {R(i), W(i)} /\ r.in = o.in /\ r.out = o.out /\ r.job = o.job
  /\ r.left = o.left /\ r.line = Tail(o.line)
  /\ (\A k \in DOMAIN o.line : o.line[k].io = "") => r.io = ""

Forked(p, w, r) ==
  IF Slots = {} THEN /\ proc' = [proc EXCEPT ![p] = w]
                     /\ excused' = excused \union {proc[p].job}
  ELSE /\ proc' = [proc EXCEPT ![p] = w, ![Min(Slots)] = r]
       /\ excused' = excused

\* What handlePipes() does to the processes.
LEMMA TwoSides ==
  ASSUME Shape, NEW p \in Procs, HandlePipes(p), proc[p].line \in Seq(Stage),
         Len(proc[p].line) > 1, NEW i, i = NextPipe
  PROVE  \E w, r :
           IsWriter(w, proc[p], i) /\ IsReader(r, proc[p], i) /\ Forked(p, w, r)
<1> DEFINE l == proc[p].line
           rest == {l[k].io : k \in 2 .. Len(l)}
           heads == IF layout = "head" THEN rest ELSE {}
           tails == IF layout = "tail" THEN {l[1].io} ELSE {}
           both == {R(i), W(i)}
           w == [proc[p] EXCEPT !.pc = "writer", !.pd = both, !.io = Redirection(l[1].io, heads)]
           r == [proc[p] EXCEPT !.pc = "reader", !.pd = both, !.parent = p,
                   !.line = Tail(l), !.io = Redirection(l[2].io, tails)]
<1>1. Forked(p, w, r)
  BY DEF HandlePipes, NextPipe, Forked
<1>2. 1 \in DOMAIN l /\ 2 \in DOMAIN l /\ \A k \in 2 .. Len(l) : k \in DOMAIN l
  OBVIOUS
<1>3. ASSUME \A k \in DOMAIN l : l[k].io = ""
      PROVE  /\ heads \in SUBSET {""} /\ tails \in SUBSET {""} /\ l[1].io = "" /\ l[2].io = ""
  BY <1>2, <1>3
<1> HIDE DEF l, heads, tails, rest
<1>4. (\A k \in DOMAIN l : l[k].io = "") =>
        Redirection(l[1].io, heads) = "" /\ Redirection(l[2].io, tails) = ""
  BY <1>3, NoRedirection
<1>5. PICK a, b : a = Redirection(l[1].io, heads) /\ b = Redirection(l[2].io, tails)
  OBVIOUS
<1>6. /\ w.pc = "writer" /\ w.pd = both /\ w.in = proc[p].in /\ w.out = proc[p].out
      /\ w.job = proc[p].job /\ w.left = proc[p].left /\ w.line = proc[p].line /\ w.io = a
  BY <1>5 DEF Shape, Fields
<1>7. /\ r.pc = "reader" /\ r.pd = both /\ r.in = proc[p].in /\ r.out = proc[p].out
      /\ r.job = proc[p].job /\ r.left = proc[p].left /\ r.line = Tail(l) /\ r.io = b
  BY <1>5 DEF Shape, Fields
<1> HIDE DEF w, r
<1>8. IsWriter(w, proc[p], i)
  BY <1>4, <1>5, <1>6 DEF IsWriter, l
<1>9. IsReader(r, proc[p], i)
  BY <1>4, <1>5, <1>7 DEF IsReader, l
<1> QED BY <1>1, <1>8, <1>9

\* The line of the reader.
LEMMA RestIs ==
  ASSUME NEW l \in Seq(Stage), Len(l) > 1
  PROVE  /\ 1 \in DOMAIN Tail(l) /\ Tail(l)[1] = l[2] /\ 2 \in DOMAIN l
         /\ \A m \in DOMAIN Tail(l) : m + 1 \in DOMAIN l /\ m + 1 # 1 /\ Tail(l)[m] = l[m + 1]
<1>1. Len(l) \in Nat /\ DOMAIN l = 1 .. Len(l) /\ l # <<>>
  OBVIOUS
<1>2. /\ Tail(l) \in Seq(Stage) /\ Len(Tail(l)) = Len(l) - 1
      /\ \A a \in 1 .. Len(l) - 1 : Tail(l)[a] = l[a + 1]
  BY <1>1
<1>3. DOMAIN Tail(l) = 1 .. Len(l) - 1
  BY <1>2
<1>4. 1 \in 1 .. Len(l) - 1 /\ 1 + 1 = 2 /\ 2 \in DOMAIN l
  BY <1>1
<1>5. Tail(l)[1] = l[2]
  <2>1. Tail(l)[1] = l[1 + 1]
    BY <1>2, <1>4
  <2> QED BY <1>4, <2>1
<1>6. ASSUME NEW m \in 1 .. Len(l) - 1
      PROVE  m + 1 \in DOMAIN l /\ m + 1 # 1 /\ Tail(l)[m] = l[m + 1]
  BY <1>1, <1>2
<1> QED BY <1>3, <1>4, <1>5, <1>6

\* Both have their types.
LEMMA SideTypes ==
  ASSUME NEW o, NEW n, ProcType(o, n), o.pc = "pipe", o.line \in Seq(Stage), Len(o.line) > 1,
         NEW i \in Pipes, NEW w, NEW r, IsWriter(w, o, i), IsReader(r, o, i)
  PROVE  ProcType(w, n) /\ ProcType(r, n)
<1>1. /\ o.in \in {Tty, File, Closed} \union {R(k) : k \in Pipes}
      /\ o.out \in {Tty, File, Closed} \union {W(k) : k \in Pipes}
      /\ o.job \in 0 .. n /\ o.left \in 0 .. UNITS /\ o.job # 0
      /\ o.out \in {Tty} \union {W(k) : k \in Pipes}
  BY DEF ProcType, Pre, Gone, Shells
<1>2. \A k \in DOMAIN o.line : o.line[k].prog = "missing" =>
        k = 1 /\ o.in = Tty /\ \A m \in DOMAIN o.line : o.line[m].io = ""
  BY DEF ProcType, Pre
<1>3. /\ "writer" \in Pre /\ "reader" \in Pre /\ "writer" \notin Gone \union Shells
      /\ "reader" \notin Gone \union Shells /\ "writer" # "reader"
  BY DEF Pre, Gone, Shells
<1>4. ProcType(w, n)
  <2>1. \A k \in DOMAIN w.line : w.line[k].prog = "missing" =>
          /\ k = 1 /\ w.pc # "reader" /\ w.in = Tty /\ w.io = ""
          /\ \A m \in DOMAIN w.line : w.line[m].io = ""
    BY <1>2 DEF IsWriter
  <2> QED BY <1>1, <1>3, <2>1 DEF ProcType, IsWriter
<1>5. ProcType(r, n)
  <2>1. ASSUME NEW k \in DOMAIN r.line PROVE r.line[k].prog # "missing"
    <3>1. r.line = Tail(o.line)
      BY DEF IsReader
    <3>2. k + 1 \in DOMAIN o.line /\ k + 1 # 1 /\ r.line[k] = o.line[k + 1]
      BY <3>1, RestIs
    <3> QED BY <1>2, <3>2
  <2> QED BY <1>1, <1>3, <2>1 DEF ProcType, IsReader
<1> QED BY <1>4, <1>5

\* Both have a plain line.
LEMMA SidesPlain ==
  ASSUME NEW o, o.line \in Seq(Stage), Len(o.line) > 1, PlainLine(o),
         NEW i, NEW w, NEW r, IsWriter(w, o, i), IsReader(r, o, i)
  PROVE  PlainLine(w) /\ PlainLine(r) /\ r.line[1].prog = "copy"
<1>1. \A m \in DOMAIN o.line : o.line[m].io = "" /\ (m # 1 => o.line[m].prog = "copy")
  BY DEF PlainLine
<1>2. PlainLine(w)
  BY <1>1 DEF PlainLine, IsWriter
<1>3. r.line = Tail(o.line) /\ r.io = ""
  BY <1>1 DEF IsReader
<1>4. ASSUME NEW m \in DOMAIN r.line PROVE r.line[m].io = "" /\ r.line[m].prog = "copy"
  <2>1. m + 1 \in DOMAIN o.line /\ m + 1 # 1 /\ r.line[m] = o.line[m + 1]
    BY <1>3, RestIs
  <2> QED BY <1>1, <2>1
<1>5. 1 \in DOMAIN r.line
  BY <1>3, RestIs
<1> QED BY <1>2, <1>3, <1>4, <1>5 DEF PlainLine

\* handlePipes() keeps the streams.
LEMMA PipesDeliver ==
  ASSUME Shape, LineInv, DeliverInv, NEW p \in Procs, HandlePipes(p)
  PROVE  DeliverInv'
<1>t. TypeInv /\ PipeType /\ ProcType(proc[p], Len(typed)) /\ proc[p].pc = "pipe"
  BY DEF DeliverInv, TypeInv, HandlePipes
<1>l. proc[p].line \in Seq(Stage) /\ Len(proc[p].line) > 1
  BY <1>t DEF LineInv, HasLine
<1>i. PICK i : i = NextPipe /\ IsNew(i)
  BY <1>t, NewPipe
<1>0. typed' = typed /\ shown' = shown /\ pipe' = [pipe EXCEPT ![i] = <<>>]
  BY <1>i DEF HandlePipes, NextPipe
<1>1. PICK w, r :
           IsWriter(w, proc[p], i) /\ IsReader(r, proc[p], i) /\ Forked(p, w, r)
  BY <1>i, <1>l, TwoSides
<1>k. PICK K : /\ K \subseteq Procs \ {p} /\ (\A a, b \in K : a = b)
               /\ (\A c \in K : proc[c].pc = "free" /\ proc'[c] = r) /\ proc'[p] = w
               /\ (\A q \in Procs : q # p /\ q \notin K => proc'[q] = proc[q])
               /\ (K = {} => excused' = excused \union {proc[p].job})
               /\ (K # {} => excused' = excused)
  <2>1. CASE Slots = {}
    <3>1. PICK K : K = {}
      OBVIOUS
    <3>2. /\ proc'[p] = w /\ \A q \in Procs : q # p => proc'[q] = proc[q]
      BY <1>1, <2>1 DEF Shape, Forked
    <3> QED BY <1>1, <2>1, <3>1, <3>2 DEF Forked
  <2>2. CASE Slots # {}
    <3>0. PICK c \in Procs : c = Min(Slots) /\ proc[c].pc = "free"
      BY <2>2, SlotIsFree
    <3>1. PICK K : K = {c}
      OBVIOUS
    <3>p. c # p
      BY <1>t, <3>0
    <3>2. /\ proc'[p] = w /\ proc'[c] = r
          /\ \A q \in Procs : q # p /\ q # c => proc'[q] = proc[q]
      BY <1>1, <2>2, <3>0, <3>p DEF Shape, Forked
    <3>3. /\ K \subseteq Procs \ {p} /\ (\A a, b \in K : a = b) /\ K # {}
          /\ \A q : q \in K <=> q = c
      BY <3>1, <3>p
    <3>4. excused' = excused
      BY <1>1, <2>2 DEF Forked
    <3> QED BY <3>0, <3>2, <3>3, <3>4
  <2> QED BY <2>1, <2>2
<1>2. i \in Pipes /\ i # 0 /\ i \in Sinks
  BY <1>i, Descriptors DEF IsNew
<1>3. ProcType(w, Len(typed)) /\ ProcType(r, Len(typed))
  BY <1>1, <1>2, <1>l, <1>t, SideTypes
<1>4. TypeInv'
  <2>1. PipeType'
    <3>1. <<>> \in Seq(Unit(Len(typed)))
      OBVIOUS
    <3>2. pipe' \in [Pipes -> Seq(Unit(Len(typed)))]
      BY <1>0, <1>t, <3>1 DEF PipeType
    <3> QED BY <1>0, <1>t, <3>2 DEF PipeType
  <2>2. ASSUME NEW q \in Procs PROVE ProcType(proc'[q], Len(typed))
    BY <1>3, <1>k, <1>t DEF TypeInv
  <2> QED BY <1>0, <2>1, <2>2 DEF TypeInv
<1>w. /\ proc'[p].pc = "writer" /\ proc'[p].pd = {R(i), W(i)} /\ proc'[p].in = proc[p].in
      /\ proc'[p].job = proc[p].job /\ proc'[p].line = proc[p].line
  BY <1>1, <1>k DEF IsWriter
<1>5. Alive(p) /\ Alive(p)' /\ Outlet(p)' = W(i) /\ Inlet(p)' = Inlet(p)
      /\ Outlet(p) = proc[p].out
  <2>1. PipeOf(p)' = i
    <3>1. R(i) \in proc'[p].pd
      BY <1>w
    <3>2. (CHOOSE e \in proc'[p].pd : TRUE) \in proc'[p].pd
      BY <3>1
    <3> QED BY <1>w, <3>2, Descriptors DEF PipeOf
  <2> QED BY <1>t, <1>w, <2>1 DEF Alive, Outlet, Inlet
<1>6. /\ \A x \in Sinks : Puts(p, x)' <=> x = i
      /\ \A k \in Pipes : Takes(p, k)' <=> Takes(p, k)
  BY <1>2, <1>5, Descriptors DEF Puts, Takes
<1>7. ASSUME NEW c \in K
      PROVE  /\ ~Alive(c) /\ Alive(c)' /\ proc'[c].job = proc[p].job /\ proc'[c].pc = "reader"
             /\ \A x \in Sinks : Puts(c, x)' <=> Puts(p, x)
             /\ \A k \in Pipes : Takes(c, k)' <=> k = i
  <2>1. /\ proc'[c].pc = "reader" /\ proc'[c].pd = {R(i), W(i)} /\ proc'[c].out = proc[p].out
        /\ proc'[c].job = proc[p].job /\ proc[c].pc = "free"
    BY <1>1, <1>k DEF IsReader
  <2>2. PipeOf(c)' = i
    <3>1. R(i) \in proc'[c].pd
      BY <2>1
    <3>2. (CHOOSE e \in proc'[c].pd : TRUE) \in proc'[c].pd
      BY <3>1
    <3> QED BY <2>1, <3>2, Descriptors DEF PipeOf
  <2>3. ~Alive(c) /\ Alive(c)' /\ Outlet(c)' = proc[p].out /\ Inlet(c)' = R(i)
    BY <2>1, <2>2 DEF Alive, Outlet, Inlet
  <2>4. \A x \in Sinks : Puts(c, x)' <=> Puts(p, x)
    BY <1>5, <2>3 DEF Puts
  <2>5. \A k \in Pipes : Takes(c, k)' <=> k = i
    BY <2>3, Descriptors DEF Takes
  <2> QED BY <2>1, <2>3, <2>4, <2>5
<1>8. \A q \in Procs : q # p /\ q \notin K => SameView(q)
  BY <1>k DEF SameView, Alive
<1>9. pipe'[i] = <<>> /\ \A k \in Pipes : k # i => pipe'[k] = pipe[k]
  BY <1>0, <1>2, <1>t DEF PipeType
<1>10. Splits(p, i, K)
  <2>1. proc[p].pc \in Pre
    BY <1>t DEF Pre
  <2>2. /\ K \subseteq Procs \ {p} /\ (\A a, b \in K : a = b)
    BY <1>k
  <2> QED BY <1>5, <1>6, <1>7, <1>8, <1>9, <1>i, <1>w, <2>1, <2>2 DEF Splits
<1>11. SplitLines(p, K)
  <2>1. ASSUME PlainLine(proc[p])
        PROVE  PlainLine(w) /\ PlainLine(r) /\ r.line[1].prog = "copy"
    BY <1>1, <1>l, <2>1, SidesPlain
  <2> QED BY <1>k, <1>w, <2>1 DEF SplitLines
<1>12. \A j : j \notin excused' => j \notin excused /\ (p \in Workers(j) => K # {})
  BY <1>k DEF Workers
<1>13. typed' = typed /\ shown' = shown
  BY <1>0
<1> QED BY <1>4, <1>10, <1>11, <1>12, <1>13, SplitDeliver

-----------------------------------------------------------------------------
(***************************************************************************)
(* All together.                                                           *)
(***************************************************************************)

\* At the start no line has been typed.
LEMMA DeliverInit == Init => DeliverInv
<1> SUFFICES ASSUME Init PROVE DeliverInv
  OBVIOUS
<1>0. /\ typed = <<>> /\ pipe = [i \in Pipes |-> <<>>] /\ shown = [j \in 1 .. MaxLines |-> <<>>]
      /\ proc = [p \in Procs |-> IF p = Main
                                 THEN [Free EXCEPT !.pc = "greet", !.in = Tty, !.out = Tty]
                                 ELSE Free]
  BY DEF Init
<1>1. Len(typed) = 0 /\ Len(typed) \in Nat /\ 1 .. Len(typed) = {}
  BY <1>0
<1>2. PipeType
  <2>1. typed \in Seq(Lines) /\ Len(typed) <= MaxLines
    BY <1>0, <1>1, Bounds
  <2>2. <<>> \in Seq(Unit(Len(typed))) /\ <<>> \in Seq(Nat)
    OBVIOUS
  <2>3. \A j \in Len(typed) + 1 .. MaxLines : j \in 1 .. MaxLines
    BY <1>1
  <2> QED BY <1>0, <2>1, <2>2, <2>3 DEF PipeType
<1>3. ASSUME NEW p \in Procs
      PROVE  /\ ProcType(proc[p], Len(typed)) /\ proc[p].in \in {Tty, Closed}
             /\ proc[p].pc \in {"greet", "free"} /\ (Alive(p) => p = Main)
  <2>1. CASE p = Main
    <3>1. proc[p] = [Free EXCEPT !.pc = "greet", !.in = Tty, !.out = Tty]
      BY <1>0, <2>1
    <3>2. PICK r : r = proc[p]
      OBVIOUS
    <3>3. /\ r.pc = "greet" /\ r.in = Tty /\ r.out = Tty /\ r.pd = {} /\ r.job = 0 /\ r.left = 0
      BY <3>1, <3>2 DEF Free
    <3>4. 0 \in 0 .. Len(typed) /\ 0 \in 0 .. UNITS
      BY <1>1, Bounds
    <3>5. ProcType(r, Len(typed))
      BY <3>3, <3>4 DEF ProcType, Pre, Gone, Shells
    <3> QED BY <2>1, <3>2, <3>3, <3>5
  <2>2. CASE p # Main
    <3>1. proc[p] = Free
      BY <1>0, <2>2
    <3>2. Free.pc = "free" /\ Free.in = Closed
      BY DEF Free
    <3>3. PICK r, v : r = proc[p] /\ v = 0
      OBVIOUS
    <3>4. ProcType(r, Len(typed))
      <4>1. PICK n \in Nat : n = Len(typed)
        BY <1>1
      <4>2. r = Free
        BY <3>1, <3>3
      <4> QED BY <4>1, <4>2, FreeTypes
    <3> QED BY <3>1, <3>2, <3>3, <3>4 DEF Alive
  <2> QED BY <2>1, <2>2
<1>4. ASSUME NEW p \in Procs, NEW i PROVE ~Takes(p, i)
  <2>1. proc[p].pc # "reader" /\ proc[p].in # R(i)
    BY <1>3, Descriptors
  <2> QED BY <2>1 DEF Takes, Inlet
<1>5. PICK D, P, S : /\ D = [p \in Procs |-> Pipes] /\ P = [j \in 1 .. MaxLines |-> {}]
                     /\ S = [j \in 1 .. MaxLines |-> [x \in Sinks |-> 0]]
  OBVIOUS
<1>6. /\ D \in [Procs -> SUBSET Pipes] /\ P \in [1 .. MaxLines -> SUBSET Pipes]
      /\ S \in [1 .. MaxLines -> [Sinks -> 0 .. UNITS]]
  <2>1. [x \in Sinks |-> 0] \in [Sinks -> 0 .. UNITS]
    BY Bounds
  <2> QED BY <1>5, <2>1
<1>7. ASSUME NEW p \in Procs PROVE OneWay({p}, D[p])
  <2>1. D[p] = Pipes
    BY <1>5
  <2>2. \A q \in Procs : Carries(q, {p}, Pipes) => q = Main
    BY <1>3 DEF Carries
  <2> QED BY <2>1, <2>2 DEF OneWay
<1>8. Streams(D, P, S)
  BY <1>1, <1>6, <1>7 DEF Streams
<1>9. TypeInv /\ OneTaker
  BY <1>2, <1>3, <1>4 DEF TypeInv, OneTaker
<1> QED BY <1>8, <1>9 DEF DeliverInv

\* Every step keeps the streams.
LEMMA DeliverStep ==
  ASSUME Shape, LineInv, DeliverInv, [Next]_vars
  PROVE  DeliverInv'
<1>1. ASSUME NEW p \in Procs, Step(p) PROVE DeliverInv'
  <2>1. CASE GetInput(p) \/ Wait(p) \/ HandlePipes(p) \/ Rewire(p)
    BY <2>1, GetInputDeliver, WaitDeliver, PipesDeliver, RewireDeliver
  <2>2. CASE HasPipe(p) \/ LinuxExe(p) \/ Execve(p) \/ Leave(p)
    BY <2>2, TellsDeliver, ExecveDeliver, StopsDeliver
  <2>3. CASE Produce(p)
    BY <2>3, ProduceEnds, ProduceDeliver
  <2>4. CASE Copy(p)
    BY <2>4, CopyEnds, CopyDeliver
  <2> QED BY <1>1, <2>1, <2>2, <2>3, <2>4 DEF Step
<1>2. ASSUME NEW p \in Procs, User(p) PROVE DeliverInv'
  <2>1. CASE \E l \in Lines : Run(p, l)
    BY <2>1, RunFails, RunForks
  <2>2. CASE Cd(p) \/ Exit(p) \/ EndOfInput(p)
    BY <2>2, CdDeliver, ExitDeliver, StopsDeliver
  <2> QED BY <1>2, <2>1, <2>2 DEF User
<1>3. CASE UNCHANGED vars
  BY <1>3, StutterDeliver
<1> QED BY <1>1, <1>2, <1>3 DEF Next

\* What the terminal has shown, and what it has shown when nobody is left.
LEMMA DeliverShows == DeliverInv => PipelineDelivers
<1> SUFFICES ASSUME DeliverInv, NEW j \in 1 .. Len(typed)
             PROVE  LET all == [n \in 1 .. UNITS |-> n] IN
                    /\ IsPrefix(shown[j], all)
                    /\ IsPlain(typed[j]) /\ Complete(j) /\ j \notin excused => shown[j] = all
  BY DEF PipelineDelivers
<1>1. PICK D, P, S : Streams(D, P, S)
  BY DEF DeliverInv
<1>2. Len(typed) \in Nat /\ Len(typed) <= MaxLines /\ MaxLines \in Nat /\ UNITS \in Nat
  BY Bounds DEF DeliverInv, TypeInv, PipeType
<1>3. j \in 1 .. MaxLines
  BY <1>2
<1>4. /\ S[j] \in [Sinks -> 0 .. UNITS] /\ JobInv(j, P[j], S[j])
      /\ IsPlain(typed[j]) /\ j \notin excused => PlainInv(j, P[j], S[j])
  BY <1>1, <1>3 DEF Streams
<1>5. PICK m \in 0 .. UNITS : m = S[j][0]
  BY <1>4, Descriptors
<1>6. shown[j] = [n \in 1 .. m |-> n]
  BY <1>4, <1>5 DEF JobInv
<1>7. IsPrefix(shown[j], [n \in 1 .. UNITS |-> n])
  <2>1. PICK a, b : a = [n \in 1 .. m |-> n] /\ b = [n \in 1 .. UNITS |-> n]
    OBVIOUS
  <2>2. a \in Seq(Nat) /\ Len(a) = m /\ b \in Seq(Nat) /\ Len(b) = UNITS
    BY <1>2, <2>1
  <2>3. m \in Nat /\ m <= UNITS
    BY <1>2
  <2>4. SubSeq(a, 1, m) = SubSeq(b, 1, m)
    <3>1. SubSeq(a, 1, m) = [n \in 1 .. m |-> a[n]] /\ SubSeq(b, 1, m) = [n \in 1 .. m |-> b[n]]
      BY <2>2, <2>3
    <3>2. \A n \in 1 .. m : a[n] = b[n]
      BY <1>2, <2>1, <2>3
    <3> QED BY <3>1, <3>2
  <2> QED BY <1>6, <2>1, <2>2, <2>3, <2>4 DEF IsPrefix
<1>8. ASSUME IsPlain(typed[j]), Complete(j), j \notin excused
      PROVE  shown[j] = [n \in 1 .. UNITS |-> n]
  <2>1. Fed(j, 0, S[j])
    BY <1>4, <1>8 DEF PlainInv
  <2>2. Workers(j) = {}
    BY <1>8 DEF Workers, Complete
  <2> QED BY <1>5, <1>6, <2>1, <2>2 DEF Fed
<1> QED BY <1>7, <1>8

\* What the first program of a pipeline writes comes out of the last one, each
\* unit once and in order, and all of it when the pipeline has ended: for every
\* set of command lines, number of processes, size of a pipe and amount of data,
\* and in whatever order parents and children close, duplicate and execute.
THEOREM PipelinesDeliver == Spec => []PipelineDelivers
<1> DEFINE Inv == ChainInv /\ LineInv /\ DeliverInv
<1>1. Init => Inv
  BY ChainInit, DeliverInit
<1>2. Inv /\ [Next]_vars => Inv'
  <2> SUFFICES ASSUME Inv, [Next]_vars PROVE Inv'
    OBVIOUS
  <2>1. ChainInv' /\ LineInv'
    BY ChainStep
  <2>2. DeliverInv'
    BY DeliverStep DEF ChainInv
  <2> QED BY <2>1, <2>2
<1>3. Inv => PipelineDelivers
  BY DeliverShows
<1> QED BY <1>1, <1>2, <1>3, PTL DEF Spec
=============================================================================
