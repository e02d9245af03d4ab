------------------------------ MODULE FileTree ------------------------------
(***************************************************************************)
(* What the directory tree simulator of Lab2 promises: a set of named      *)
(* entries, a current directory, and files that hold whole trees.  Every   *)
(* command is one step; a command that fails changes nothing.              *)
(***************************************************************************)
EXTENDS Pathname

VARIABLES tree,   \* the entries, each with its kind and its path
          cur,    \* the path of the current directory
          store   \* store[f]: the entries saved in f, NoTree for no such file

vars == <<tree, cur, store>>

Entry(k, path) == [kind |-> k, names |-> path]

NoTree == {Entry("none", <<>>)}
Nowhere == <<NoName>>
IsDir(path) == path = <<>> \/ Entry("D", path) \in tree

Resolve(from, names) ==
  LET at[i \in 0 .. Len(names)] ==
        IF i = 0 THEN from
        ELSE IF at[i-1] = Nowhere THEN Nowhere
        ELSE IF names[i] = ".." /\ at[i-1] # <<>> THEN Front(at[i-1])
        ELSE IF IsDir(Append(at[i-1], names[i])) THEN Append(at[i-1], names[i])
        ELSE Nowhere
  IN  at[Len(names)]

From(p) == IF p.abs THEN <<>> ELSE cur

\* The entry of kind k that p names.
Target(k, p) == Entry(k, Append(Resolve(From(p), Dname(p.names)), Bname(p.names)))

Make(k, p) ==
  /\ Resolve(From(p), Dname(p.names)) # Nowhere
  /\ tree' = tree \union {Target(k, p)}
  /\ UNCHANGED <<cur, store>>

Unlink(k, p) ==
  /\ Resolve(From(p), Dname(p.names)) # Nowhere
  /\ Target(k, p) \in tree
  /\ k = "D" => /\ \A e \in tree : ~IsStrictPrefix(Target(k, p).names, e.names)
                /\ Target(k, p).names # cur
  /\ tree' = tree \ {Target(k, p)}
  /\ UNCHANGED <<cur, store>>

\* cd without a last name goes to the root.
Cd(p) ==
  LET dir == Resolve(From(p), Dname(p.names)) IN
  /\ dir # Nowhere
  /\ cur' = IF Bname(p.names) = NoName THEN <<>> ELSE Resolve(dir, <<Bname(p.names)>>)
  /\ cur' # Nowhere
  /\ UNCHANGED <<tree, store>>

Save(f) == store' = [store EXCEPT ![f] = tree] /\ UNCHANGED <<tree, cur>>

\* The tree that was saved is back.
Reload(f) ==
  /\ store[f] # NoTree
  /\ tree' = store[f] /\ cur' = <<>>
  /\ UNCHANGED store

\* quit saves; the next session starts with nothing else.
Quit ==
  /\ store' = [store EXCEPT !["quit.txt"] = tree]
  /\ tree' = {} /\ cur' = <<>>

Init == tree = {} /\ cur = <<>> /\ store = [f \in Files |-> NoTree]

Next ==
  \/ \E k \in {"D", "F"} : \/ \E p \in NewPaths[k] : Make(k, p)
                           \/ \E p \in OldPaths[k] : Unlink(k, p)
  \/ \E p \in Paths : Cd(p)
  \/ \E f \in Files : Save(f) \/ Reload(f)
  \/ Quit

Spec == Init /\ [][Next]_vars
=============================================================================
