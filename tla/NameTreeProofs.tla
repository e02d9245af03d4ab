--------------------------- MODULE NameTreeProofs ---------------------------
(***************************************************************************)
(* Theorems about the directory tree simulator, for every number of blocks *)
(* and all pathnames.  A naming of the nodes in use gives each its path:   *)
(* with it the tree has no circle, getPath() returns the name, a walk of   *)
(* locateDir() keeps to paths that end the way the prompt does, saveTree() *)
(* writes the paths, each after the one it is in, and a new node, or one   *)
(* less, leaves the names of the others alone.  In every state the nodes   *)
(* in use have a naming; it is the link to FileTree too, whose entries are *)
(* the names.                                                              *)
(*                                                                         *)
(* The users are careful: they type a name to mkdir and creat, do not      *)
(* remove the directory they are in and save no long text.  What happens   *)
(* otherwise the runs empty_name, removed_directory and long_text show.    *)
(***************************************************************************)
EXTENDS NameTreeProperties, NumberLemmas, FiniteSetTheorems, SequenceTheorems

-----------------------------------------------------------------------------
(***************************************************************************)
(* Sequences.                                                              *)
(***************************************************************************)

\* A sequence and one more element.
LEMMA AppendIs ==
  ASSUME NEW S, NEW s \in Seq(S), NEW x \in S
  PROVE  /\ Append(s, x) \in Seq(S) /\ Len(Append(s, x)) = Len(s) + 1
         /\ \A i \in 1 .. Len(s) : Append(s, x)[i] = s[i]
         /\ Append(s, x)[Len(s) + 1] = x
         /\ Front(Append(s, x)) = s
<1>1. /\ Append(s, x) \in Seq(S) /\ Len(Append(s, x)) = Len(s) + 1
      /\ \A i \in 1 .. Len(s) : Append(s, x)[i] = s[i]
      /\ Append(s, x)[Len(s) + 1] = x
  OBVIOUS
<1>2. Front(Append(s, x)) = s
  <2>1. Front(Append(s, x)) = SubSeq(Append(s, x), 1, Len(s))
    BY <1>1 DEF Front
  <2>2. SubSeq(Append(s, x), 1, Len(s)) = s
    OBVIOUS
  <2> QED BY <2>1, <2>2
<1> QED BY <1>1, <1>2

\* A sequence without its last element.
LEMMA FrontIs ==
  ASSUME NEW S, NEW s \in Seq(S), s # <<>>
  PROVE  /\ Front(s) \in Seq(S) /\ Len(Front(s)) = Len(s) - 1 /\ Last(s) \in S
         /\ Len(s) \in Nat \ {0}
         /\ \A i \in 1 .. Len(s) - 1 : Front(s)[i] = s[i]
         /\ s = Append(Front(s), Last(s))
<1>1. Len(s) \in Nat \ {0}
  OBVIOUS
<1>2. /\ Front(s) \in Seq(S) /\ Len(Front(s)) = Len(s) - 1
      /\ \A i \in 1 .. Len(s) - 1 : Front(s)[i] = s[i]
  <2>1. PICK m \in Nat : m = Len(s) - 1
    BY <1>1
  <2>2. /\ SubSeq(s, 1, m) \in Seq(S) /\ Len(SubSeq(s, 1, m)) = m
        /\ \A i \in 1 .. m : SubSeq(s, 1, m)[i] = s[i]
    BY <1>1, <2>1
  <2> QED BY <2>1, <2>2 DEF Front
<1>3. Last(s) \in S
  BY <1>1 DEF Last
<1>4. s = Append(Front(s), Last(s))
  <2>1. /\ Append(Front(s), Last(s)) \in Seq(S)
        /\ Len(Append(Front(s), Last(s))) = Len(s)
        /\ \A i \in 1 .. Len(s) - 1 : Append(Front(s), Last(s))[i] = s[i]
        /\ Append(Front(s), Last(s))[Len(s)] = Last(s)
    BY <1>1, <1>2, <1>3
  <2>2. \A i \in 1 .. Len(s) : Append(Front(s), Last(s))[i] = s[i]
    BY <1>1, <2>1 DEF Last
  <2> QED BY <2>1, <2>2, SeqEqual
<1> QED BY <1>1, <1>2, <1>3, <1>4

\* Every prompt ends with the path of the root.
LEMMA EndsEmpty ==
  ASSUME NEW S, NEW t \in Seq(S)
  PROVE  EndsWith(t, <<>>)
BY DEF EndsWith

\* A name added to both keeps the one the end of the other.
LEMMA EndsAppend ==
  ASSUME NEW S, NEW s \in Seq(S), NEW t \in Seq(S), NEW x \in S, EndsWith(t, s)
  PROVE  EndsWith(Append(t, x), Append(s, x))
<1>1. /\ Len(s) \in Nat /\ Len(t) \in Nat
      /\ Len(Append(s, x)) = Len(s) + 1 /\ Len(Append(t, x)) = Len(t) + 1
  OBVIOUS
<1>2. ASSUME NEW i \in 1 .. Len(s) + 1
      PROVE  Append(s, x)[i] = Append(t, x)[Len(t) - Len(s) + i]
  <2>1. CASE i = Len(s) + 1
    <3>1. Len(t) - Len(s) + i = Len(t) + 1
      BY <1>1, <2>1
    <3> QED BY <2>1, <3>1, AppendIs
  <2>2. CASE i # Len(s) + 1
    <3>1. /\ i \in 1 .. Len(s) /\ Len(t) - Len(s) + i \in 1 .. Len(t)
      BY <1>1, <2>2 DEF EndsWith
    <3> QED BY <3>1, AppendIs DEF EndsWith
  <2> QED BY <2>1, <2>2
<1>3. Len(t) + 1 - (Len(s) + 1) = Len(t) - Len(s) /\ Len(s) + 1 <= Len(t) + 1
  BY <1>1 DEF EndsWith
<1>4. PICK u : u = Append(s, x)
  OBVIOUS
<1>5. PICK v : v = Append(t, x)
  OBVIOUS
<1>6. EndsWith(v, u)
  <2>1. Len(u) = Len(s) + 1 /\ Len(v) = Len(t) + 1 /\ Len(v) - Len(u) = Len(t) - Len(s)
    BY <1>1, <1>3, <1>4, <1>5
  <2>2. \A i \in 1 .. Len(u) : u[i] = v[Len(v) - Len(u) + i]
    BY <1>2, <1>4, <1>5, <2>1
  <2> QED BY <1>3, <2>1, <2>2 DEF EndsWith
<1> QED BY <1>4, <1>5, <1>6

\* So does cutting a name off both, and there is one to cut.
LEMMA EndsFront ==
  ASSUME NEW S, NEW s \in Seq(S), NEW t \in Seq(S), s # <<>>, EndsWith(t, s)
  PROVE  t # <<>> /\ EndsWith(Front(t), Front(s))
<1>1. Len(s) \in Nat \ {0} /\ Len(t) \in Nat /\ Len(s) <= Len(t)
  BY DEF EndsWith
<1>2. t # <<>>
  BY <1>1
<1>3. Len(Front(s)) = Len(s) - 1 /\ Len(Front(t)) = Len(t) - 1
  BY <1>2, FrontIs
<1>4. ASSUME NEW i \in 1 .. Len(s) - 1
      PROVE  Front(s)[i] = Front(t)[Len(t) - Len(s) + i]
  <2>1. i \in 1 .. Len(s) /\ Len(t) - Len(s) + i \in 1 .. Len(t) - 1
    BY <1>1
  <2>2. Front(s)[i] = s[i]
    BY FrontIs
  <2>3. Front(t)[Len(t) - Len(s) + i] = t[Len(t) - Len(s) + i]
    BY <1>2, <2>1, FrontIs
  <2> QED BY <2>1, <2>2, <2>3 DEF EndsWith
<1>5. Len(Front(t)) - Len(Front(s)) = Len(t) - Len(s)
  BY <1>1, <1>3
<1> QED BY <1>1, <1>2, <1>3, <1>4, <1>5 DEF EndsWith

\* The suffixes of the library.
LEMMA EndsIsSuffix ==
  ASSUME NEW S, NEW s \in Seq(S), NEW t \in Seq(S), EndsWith(t, s)
  PROVE  IsSuffix(s, t)
<1>1. Len(s) \in Nat /\ Len(t) \in Nat /\ Len(s) <= Len(t)
  BY DEF EndsWith
<1>2. /\ Reverse(s) \in Seq(S) /\ Len(Reverse(s)) = Len(s)
      /\ \A i \in 1 .. Len(s) : Reverse(s)[i] = s[(Len(s) - i) + 1]
  BY <1>1 DEF Reverse
<1>3. /\ Reverse(t) \in Seq(S) /\ Len(Reverse(t)) = Len(t)
      /\ \A i \in 1 .. Len(t) : Reverse(t)[i] = t[(Len(t) - i) + 1]
  BY <1>1 DEF Reverse
<1>4. ASSUME NEW i \in 1 .. Len(s) PROVE Reverse(s)[i] = Reverse(t)[i]
  <2>1. i \in 1 .. Len(t) /\ (Len(s) - i) + 1 \in 1 .. Len(s)
    BY <1>1
  <2>2. s[(Len(s) - i) + 1] = t[Len(t) - Len(s) + ((Len(s) - i) + 1)]
    BY <2>1 DEF EndsWith
  <2>3. Len(t) - Len(s) + ((Len(s) - i) + 1) = (Len(t) - i) + 1
    BY <1>1
  <2> QED BY <1>2, <1>3, <2>1, <2>2, <2>3
<1>5. SubSeq(Reverse(s), 1, Len(s)) = SubSeq(Reverse(t), 1, Len(s))
  <2>1. /\ SubSeq(Reverse(s), 1, Len(s)) \in Seq(S)
        /\ Len(SubSeq(Reverse(s), 1, Len(s))) = Len(s)
        /\ \A i \in 1 .. Len(s) : SubSeq(Reverse(s), 1, Len(s))[i] = Reverse(s)[i]
    BY <1>1, <1>2
  <2>2. /\ SubSeq(Reverse(t), 1, Len(s)) \in Seq(S)
        /\ Len(SubSeq(Reverse(t), 1, Len(s))) = Len(s)
        /\ \A i \in 1 .. Len(s) : SubSeq(Reverse(t), 1, Len(s))[i] = Reverse(t)[i]
    BY <1>1, <1>3
  <2> QED BY <1>4, <2>1, <2>2, SeqEqual
<1> QED BY <1>1, <1>2, <1>3, <1>5 DEF IsSuffix, IsPrefix

\* What a strict prefix leaves.
LEMMA PrefixSplit ==
  ASSUME NEW S, NEW s \in Seq(S), NEW t \in Seq(S), IsStrictPrefix(s, t)
  PROVE  \E u \in Seq(S) : u # <<>> /\ t = s \o u
<1>1. Len(s) \in Nat /\ Len(t) \in Nat /\ Len(s) <= Len(t)
  BY DEF IsStrictPrefix, IsPrefix
<1>2. SubSeq(t, 1, Len(s)) = s /\ s # t
  BY SubSeqFull DEF IsStrictPrefix, IsPrefix
<1>3. PICK u : u = SubSeq(t, Len(s) + 1, Len(t))
  OBVIOUS
<1>4. u \in Seq(S)
  BY <1>1, <1>3
<1>5. SubSeq(t, 1, Len(s)) \o SubSeq(t, Len(s) + 1, Len(t)) = SubSeq(t, 1, Len(t))
  <2>1. 1 \in 1 .. Len(t) + 1 /\ Len(s) \in 1 - 1 .. Len(t) /\ Len(t) \in Len(s) .. Len(t)
    BY <1>1
  <2> QED BY <2>1, ConcatAdjacentSubSeq
<1>6. t = s \o u
  BY <1>2, <1>3, <1>5, SubSeqFull
<1>7. u # <<>>
  BY <1>2, <1>6, ConcatEmptySeq
<1> QED BY <1>4, <1>6, <1>7

\* A sequence is a strict prefix of a longer one that starts with it.
LEMMA PrefixMakes ==
  ASSUME NEW S, NEW s \in Seq(S), NEW u \in Seq(S), u # <<>>
  PROVE  IsStrictPrefix(s, s \o u)
<1>1. Len(s) \in Nat /\ Len(u) \in Nat \ {0} /\ Len(s \o u) = Len(s) + Len(u)
  BY ConcatProperties, EmptySeq
<1>2. SubSeq(s \o u, 1, Len(s)) = SubSeq(s, 1, Len(s))
  <2>1. CASE Len(s) = 0
    <3>1. SubSeq(s \o u, 1, 0) = <<>> /\ SubSeq(s, 1, 0) = <<>>
      BY SubSeqEmpty
    <3> QED BY <2>1, <3>1
  <2>2. CASE Len(s) # 0
    <3>1. 1 \in 1 .. Len(s) /\ Len(s) \in 1 .. Len(s)
      BY <1>1, <2>2
    <3> QED BY <3>1, SubSeqOfConcat1
  <2> QED BY <2>1, <2>2
<1>3. s # s \o u
  BY <1>1
<1> QED BY <1>1, <1>2, <1>3 DEF IsStrictPrefix, IsPrefix

\* A strict prefix stays one behind the same names.
LEMMA PrefixBehind ==
  ASSUME NEW S, NEW a \in Seq(S), NEW s \in Seq(S), NEW t \in Seq(S), IsStrictPrefix(s, t)
  PROVE  IsStrictPrefix(a \o s, a \o t)
<1>1. PICK u \in Seq(S) : u # <<>> /\ t = s \o u
  BY PrefixSplit
<1>2. a \o s \in Seq(S)
  BY ConcatProperties
<1>3. a \o (s \o u) = (a \o s) \o u
  BY ConcatAssociative
<1>4. IsStrictPrefix(a \o s, (a \o s) \o u)
  BY <1>1, <1>2, PrefixMakes
<1> QED BY <1>1, <1>3, <1>4

\* What is in front of something in front is in front.
LEMMA PrefixTrans ==
  ASSUME NEW S, NEW s \in Seq(S), NEW t \in Seq(S), NEW u \in Seq(S),
         IsStrictPrefix(s, t), IsStrictPrefix(t, u)
  PROVE  IsStrictPrefix(s, u)
<1>1. PICK a \in Seq(S) : a # <<>> /\ t = s \o a
  BY PrefixSplit
<1>2. PICK b \in Seq(S) : b # <<>> /\ u = t \o b
  BY PrefixSplit
<1>3. u = s \o (a \o b)
  BY <1>1, <1>2, ConcatAssociative
<1>4. a \o b \in Seq(S) /\ a \o b # <<>>
  <2>1. a \o b \in Seq(S) /\ Len(a \o b) = Len(a) + Len(b) /\ Len(a) \in Nat /\ Len(b) \in Nat /\ Len(a) # 0
    BY <1>1, ConcatProperties, EmptySeq
  <2>2. Len(a \o b) # Len(<<>>)
    BY <2>1
  <2> QED BY <2>1, <2>2
<1> QED BY <1>3, <1>4, PrefixMakes

-----------------------------------------------------------------------------
(***************************************************************************)
(* traverseDir() and locateDir().                                          *)
(***************************************************************************)

\* traverseDir() returns the first node of the kind and name, if there is one.
LEMMA PositionIs ==
  ASSUME NEW c, kids[c] \in Seq(Nodes), NEW k, NEW n
  PROVE  LET i == Position(c, k, n) IN
         /\ i \in 0 .. Len(kids[c])
         /\ i # 0 => kind[kids[c][i]] = k /\ name[kids[c][i]] = n
         /\ \A j \in 1 .. Len(kids[c]) :
              kind[kids[c][j]] = k /\ name[kids[c][j]] = n => i # 0
<1> DEFINE I == {i \in 1 .. Len(kids[c]) : kind[kids[c][i]] = k /\ name[kids[c][i]] = n}
<1>1. Position(c, k, n) = IF I # {} THEN Min(I) ELSE 0
  BY DEF Position, SelectInSeq
<1>2. Len(kids[c]) \in Nat /\ I \subseteq 1 .. Len(kids[c])
  OBVIOUS
<1>3. CASE I # {}
  <2>1. PICK x \in I : \A y \in I : x <= y
    <3>1. I \subseteq Nat
      BY <1>2
    <3> HIDE DEF I
    <3> QED BY <1>3, <3>1, LeastNumber
  <2>2. Min(I) \in I
    BY <2>1 DEF Min
  <2>3. Position(c, k, n) \in I
    BY <1>1, <1>3, <2>2
  <2> QED BY <1>2, <2>3
<1>4. CASE I = {}
  BY <1>1, <1>2, <1>4
<1> QED BY <1>3, <1>4

\* at is the walk of locateDir() over n names from w.
IsRoute(at, w, names, n) ==
  at = [i \in 0 .. n |-> IF i = 0 THEN w ELSE Token(at[i-1], names[i])]

\* There is a walk over any number of names.
LEMMA RouteExists ==
  ASSUME NEW w, NEW names
  PROVE  \A n \in Nat : \E at : IsRoute(at, w, names, n)
<1> DEFINE S == {n \in Nat : \E at : IsRoute(at, w, names, n)}
<1>1. 0 \in S
  <2>1. IsRoute([i \in 0 .. 0 |-> w], w, names, 0)
    BY DEF IsRoute
  <2> QED BY <2>1
<1>2. ASSUME NEW n \in Nat, n \in S PROVE n + 1 \in S
  <2>1. PICK at : IsRoute(at, w, names, n)
    BY <1>2
  <2> DEFINE to == [i \in 0 .. n + 1 |-> IF i = n + 1 THEN Token(at[n], names[n + 1]) ELSE at[i]]
  <2>2. ASSUME NEW i \in 0 .. n + 1
        PROVE  to[i] = IF i = 0 THEN w ELSE Token(to[i-1], names[i])
    <3>1. CASE i = n + 1
      BY <3>1
    <3>2. CASE i # n + 1
      <4>1. i \in 0 .. n /\ to[i] = at[i] /\ (i # 0 => to[i-1] = at[i-1])
        BY <3>2
      <4> QED BY <2>1, <4>1 DEF IsRoute
    <3> QED BY <3>1, <3>2
  <2>3. IsRoute(to, w, names, n + 1)
    BY <2>2 DEF IsRoute
  <2> QED BY <2>3
<1> HIDE DEF S
<1>3. \A n \in Nat : n \in S
  BY <1>1, <1>2, NaturalsIn
<1> QED BY <1>3 DEF S

\* locateDir() ends where its walk does.
LEMMA LocateWalks ==
  ASSUME NEW w, NEW names, Len(names) \in Nat
  PROVE  \E at : IsRoute(at, w, names, Len(names)) /\ LocateDir(w, names) = at[Len(names)]
<1>1. \E at : IsRoute(at, w, names, Len(names))
  BY RouteExists
<1>2. IsRoute(CHOOSE at : IsRoute(at, w, names, Len(names)), w, names, Len(names))
  BY <1>1
<1>3. LocateDir(w, names) = (CHOOSE at : IsRoute(at, w, names, Len(names)))[Len(names)]
  BY DEF LocateDir, IsRoute
<1> QED BY <1>2, <1>3

\* No names lead nowhere else.
LEMMA LocateNothing ==
  ASSUME NEW w
  PROVE  LocateDir(w, <<>>) = w
<1>1. Len(<<>>) = 0
  OBVIOUS
<1>2. PICK at : IsRoute(at, w, <<>>, Len(<<>>)) /\ LocateDir(w, <<>>) = at[Len(<<>>)]
  BY <1>1, LocateWalks
<1> QED BY <1>1, <1>2 DEF IsRoute

\* The last name is looked up where the names before it lead.
LEMMA LocateLast ==
  ASSUME NEW w, NEW S, NEW s \in Seq(S), NEW x \in S
  PROVE  LocateDir(w, Append(s, x)) = Token(LocateDir(w, s), x)
<1> DEFINE t == Append(s, x)
           n == Len(s)
<1>1. n \in Nat /\ Len(t) = n + 1 /\ t[n + 1] = x /\ \A i \in 1 .. n : t[i] = s[i]
  BY AppendIs
<1> HIDE DEF n
<1>2. PICK a : IsRoute(a, w, s, n) /\ LocateDir(w, s) = a[n]
  BY <1>1, LocateWalks DEF n
<1>3. PICK b : IsRoute(b, w, t, n + 1) /\ LocateDir(w, t) = b[n + 1]
  <2>1. Len(t) \in Nat
    BY <1>1
  <2>2. PICK b : IsRoute(b, w, t, Len(t)) /\ LocateDir(w, t) = b[Len(t)]
    BY <2>1, LocateWalks
  <2> QED BY <1>1, <2>2
<1> HIDE DEF t
<1>4. a[0] = w /\ \A i \in 1 .. n : a[i] = Token(a[i-1], s[i])
  BY <1>1, <1>2 DEF IsRoute
<1>5. b[0] = w /\ \A i \in 1 .. n + 1 : b[i] = Token(b[i-1], t[i])
  BY <1>1, <1>3 DEF IsRoute
<1> DEFINE T == {i \in Nat : i <= n => a[i] = b[i]}
<1>6. 0 \in T
  BY <1>4, <1>5
<1>7. ASSUME NEW i \in Nat, i \in T PROVE i + 1 \in T
  <2>1. SUFFICES ASSUME i + 1 <= n PROVE a[i + 1] = b[i + 1]
    OBVIOUS
  <2>2. i + 1 \in 1 .. n /\ i + 1 \in 1 .. n + 1 /\ (i + 1) - 1 = i /\ a[i] = b[i]
    BY <1>1, <1>7, <2>1
  <2>3. a[i + 1] = Token(a[i], s[i + 1]) /\ b[i + 1] = Token(b[i], t[i + 1])
    BY <1>4, <1>5, <2>2
  <2> QED BY <1>1, <2>2, <2>3
<1>8. n \in T
  <2> HIDE DEF T
  <2> QED BY <1>1, <1>6, <1>7, NaturalsIn
<1>9. a[n] = b[n] /\ n + 1 \in 1 .. n + 1 /\ (n + 1) - 1 = n
  BY <1>1, <1>8
<1>10. b[n + 1] = Token(b[n], t[n + 1])
  BY <1>5, <1>9
<1> QED BY <1>1, <1>2, <1>3, <1>9, <1>10 DEF t
-----------------------------------------------------------------------------
(***************************************************************************)
(* A named tree.                                                           *)
(***************************************************************************)

NamedTree(G) == HeapType /\ IsTree /\ Naming(G)

\* A node below the root.
LEMMA ParentIs ==
  ASSUME NEW G, NamedTree(G), NEW n \in used, n # root
  PROVE  /\ n \in Nodes /\ parent[n] \in used /\ parent[n] \in Nodes /\ kind[parent[n]] = "D"
         /\ G[n] = Append(G[parent[n]], name[n]) /\ name[n] \in Label
         /\ G[parent[n]] \in Seq(Label) /\ G[n] \in Seq(Label)
         /\ Len(G[n]) = Len(G[parent[n]]) + 1 /\ Front(G[n]) = G[parent[n]]
         /\ \E i \in 1 .. Len(kids[parent[n]]) : kids[parent[n]][i] = n
<1>1. n \in Nodes /\ parent[n] \in used /\ parent[n] \in Nodes
  BY DEF NamedTree, HeapType, IsTree
<1>2. PICK i \in DOMAIN kids[parent[n]] : kids[parent[n]][i] = n
  BY DEF NamedTree, IsTree, ToSet
<1>3. kids[parent[n]] \in Seq(Nodes) /\ DOMAIN kids[parent[n]] = 1 .. Len(kids[parent[n]])
  BY <1>1 DEF NamedTree, HeapType
<1>4. kind[parent[n]] = "D"
  <2>1. kids[parent[n]] # <<>>
    BY <1>2
  <2> QED BY <1>1, <2>1 DEF NamedTree, IsTree, HeapType
<1>5. /\ G[n] = Append(G[parent[n]], name[n]) /\ name[n] \in Label
      /\ G[parent[n]] \in Seq(Label) /\ G[n] \in Seq(Label)
  BY <1>1 DEF NamedTree, Naming, HeapType
<1>6. Len(G[n]) = Len(G[parent[n]]) + 1 /\ Front(G[n]) = G[parent[n]]
  BY <1>5, AppendIs
<1> QED BY <1>1, <1>2, <1>3, <1>4, <1>5, <1>6

\* A node in a list.
LEMMA KidIs ==
  ASSUME NEW G, NamedTree(G), NEW c \in used, NEW i \in 1 .. Len(kids[c])
  PROVE  /\ kids[c][i] \in used \ {root} /\ kids[c][i] \in Nodes /\ parent[kids[c][i]] = c
         /\ G[kids[c][i]] = Append(G[c], name[kids[c][i]])
<1>1. c \in Nodes /\ kids[c] \in Seq(Nodes) /\ DOMAIN kids[c] = 1 .. Len(kids[c])
  BY DEF NamedTree, HeapType
<1>2. kids[c][i] \in used /\ parent[kids[c][i]] = c
  BY <1>1 DEF NamedTree, IsTree
<1>3. c # NULL /\ kids[c][i] # root
  BY <1>1, <1>2 DEF NamedTree, IsTree, Nodes, NULL
<1> QED BY <1>2, <1>3 DEF NamedTree, Naming, HeapType

\* Every shorter length is that of a path too.
LEMMA PathLengths ==
  ASSUME NEW G, NamedTree(G)
  PROVE  \A n \in used : 0 .. Len(G[n]) \subseteq {Len(G[m]) : m \in used}
<1> DEFINE S == {k \in Nat : \A n \in used : Len(G[n]) = k => 0 .. k \subseteq {Len(G[m]) : m \in used}}
<1>1. 0 \in S
  <2>1. ASSUME NEW n \in used, Len(G[n]) = 0 PROVE 0 .. 0 \subseteq {Len(G[m]) : m \in used}
    BY <2>1
  <2> QED BY <2>1
<1>2. ASSUME NEW k \in Nat, k \in S PROVE k + 1 \in S
  <2>1. ASSUME NEW n \in used, Len(G[n]) = k + 1
        PROVE  0 .. k + 1 \subseteq {Len(G[m]) : m \in used}
    <3>1. n # root
      <4>1. G[root] = <<>> /\ Len(<<>>) = 0
        BY DEF NamedTree, Naming
      <4> QED BY <2>1, <4>1
    <3>2. parent[n] \in used /\ Len(G[parent[n]]) \in Nat /\ Len(G[n]) = Len(G[parent[n]]) + 1
      BY <3>1, ParentIs
    <3>3. Len(G[parent[n]]) = k
      BY <2>1, <3>2
    <3>4. 0 .. k \subseteq {Len(G[m]) : m \in used} /\ k + 1 \in {Len(G[m]) : m \in used}
      BY <1>2, <2>1, <3>2, <3>3
    <3> QED BY <3>4
  <2> QED BY <2>1
<1>3. \A k \in Nat : k \in S
  <2> HIDE DEF S
  <2> QED BY <1>1, <1>2, NaturalsIn
<1>4. ASSUME NEW n \in used PROVE Len(G[n]) \in Nat
  BY DEF NamedTree, Naming
<1> QED BY <1>3, <1>4

\* A path is shorter than there are nodes, so the climb of getPath() ends.
LEMMA PathsAreShort ==
  ASSUME NEW G, NamedTree(G), NEW n \in used
  PROVE  Len(G[n]) \in Nat /\ Len(G[n]) < NBLOCKS
<1> DEFINE D == {Len(G[m]) : m \in used}
<1>1. Len(G[n]) \in Nat
  BY DEF NamedTree, Naming
<1>2. PICK k \in Nat : k = Len(G[n])
  BY <1>1
<1>3. 0 .. k \subseteq D
  BY <1>2, PathLengths
<1>4. IsFiniteSet(Nodes) /\ Cardinality(Nodes) = NBLOCKS
  BY FS_Interval, BlocksAssumption DEF Nodes
<1>5. IsFiniteSet(used) /\ Cardinality(used) <= NBLOCKS
  BY <1>4, FS_Subset DEF NamedTree, HeapType
<1>6. IsFiniteSet(D) /\ Cardinality(D) <= Cardinality(used)
  <2> DEFINE f == [m \in used |-> Len(G[m])]
  <2>1. f \in Surjection(used, D)
    BY DEF Surjection
  <2> HIDE DEF f, D
  <2> QED BY <1>5, <2>1, FS_Surjection
<1>7. Cardinality(0 .. k) <= Cardinality(D) /\ Cardinality(0 .. k) = k + 1
  <2>1. Cardinality(0 .. k) <= Cardinality(D)
    <3> HIDE DEF D
    <3> QED BY <1>3, <1>6, FS_Subset
  <2>2. Cardinality(0 .. k) = k - 0 + 1
    BY FS_Interval
  <2> QED BY <2>1, <2>2
<1>8. Cardinality(used) \in Nat /\ Cardinality(D) \in Nat
  <2> HIDE DEF D
  <2> QED BY <1>5, <1>6, FS_CardinalityType
<1> HIDE DEF D
<1> QED BY <1>2, <1>5, <1>6, <1>7, <1>8, BlocksAssumption

-----------------------------------------------------------------------------
(***************************************************************************)
(* getPath().                                                              *)
(***************************************************************************)

IsClimb(path, n) ==
  path = [k \in 0 .. n |->
            [m \in Nodes |-> IF k = 0 \/ parent[m] = NULL THEN <<>>
                             ELSE Append(path[k-1][parent[m]], name[m])]]

\* The paths of all nodes, cut off after n parents, exist for every n.
LEMMA ClimbExists == \A n \in Nat : \E path : IsClimb(path, n)
<1> DEFINE S == {n \in Nat : \E path : IsClimb(path, n)}
           Row(k, last) == [m \in Nodes |-> IF k = 0 \/ parent[m] = NULL THEN <<>>
                                            ELSE Append(last[parent[m]], name[m])]
<1>1. 0 \in S
  <2>1. IsClimb([k \in 0 .. 0 |-> [m \in Nodes |-> <<>>]], 0)
    BY DEF IsClimb
  <2> QED BY <2>1
<1>2. ASSUME NEW n \in Nat, n \in S PROVE n + 1 \in S
  <2>1. PICK path : IsClimb(path, n)
    BY <1>2
  <2> DEFINE to == [k \in 0 .. n + 1 |-> IF k = n + 1 THEN Row(k, path[n]) ELSE path[k]]
  <2>2. ASSUME NEW k \in 0 .. n + 1 PROVE to[k] = Row(k, to[k-1])
    <3>1. CASE k = n + 1
      <4>1. k \in 0 .. n + 1 /\ k - 1 \in 0 .. n + 1 /\ k - 1 = n /\ n # n + 1
        BY <3>1
      <4>2. to[k] = Row(k, path[n]) /\ to[k-1] = path[n]
        BY <3>1, <4>1
      <4> HIDE DEF to, Row
      <4> QED BY <4>2
    <3>2. CASE k # n + 1
      <4>1. k \in 0 .. n /\ to[k] = path[k] /\ (k # 0 => to[k-1] = path[k-1])
        BY <3>2
      <4>2. path[k] = Row(k, path[k-1])
        BY <2>1, <4>1 DEF IsClimb
      <4>3. CASE k = 0
        BY <4>1, <4>2, <4>3
      <4>4. CASE k # 0
        <5> HIDE DEF to, Row
        <5> QED BY <4>1, <4>2, <4>4
      <4> QED BY <4>3, <4>4
    <3> QED BY <3>1, <3>2
  <2>3. IsClimb(to, n + 1)
    <3>1. to = [k \in 0 .. n + 1 |-> to[k]]
      OBVIOUS
    <3> QED BY <2>2, <3>1 DEF IsClimb
  <2> QED BY <2>3
<1>3. \A n \in Nat : n \in S
  <2> HIDE DEF S
  <2> QED BY <1>1, <1>2, NaturalsIn
<1> QED BY <1>3

\* getPath() gives a node its path.
LEMMA GetPathIs ==
  ASSUME NEW G, NamedTree(G), NEW n \in used
  PROVE  GetPath(n) = G[n] /\ GetPathEnds(n)
<1>1. NBLOCKS \in Nat
  BY BlocksAssumption
<1>2. \E path : IsClimb(path, NBLOCKS)
  BY <1>1, ClimbExists
<1>3. PICK path : IsClimb(path, NBLOCKS) /\ GetPath(n) = path[NBLOCKS][n]
  <2>1. IsClimb(CHOOSE path : IsClimb(path, NBLOCKS), NBLOCKS)
    BY <1>2
  <2>2. GetPath(n) = (CHOOSE path : IsClimb(path, NBLOCKS))[NBLOCKS][n]
    BY DEF GetPath, IsClimb
  <2> QED BY <2>1, <2>2
<1> DEFINE S == {k \in Nat : k <= NBLOCKS => \A m \in used : Len(G[m]) <= k => path[k][m] = G[m]}
<1>4. 0 \in S
  <2>1. ASSUME NEW m \in used, Len(G[m]) <= 0 PROVE path[0][m] = G[m]
    <3>1. G[m] = <<>>
      <4>1. G[m] \in Seq(Label)
        BY DEF NamedTree, Naming
      <4> QED BY <2>1, <4>1
    <3>2. m \in Nodes /\ 0 \in 0 .. NBLOCKS
      BY <1>1 DEF NamedTree, HeapType
    <3> QED BY <1>3, <3>1, <3>2 DEF IsClimb
  <2> QED BY <2>1
<1>5. ASSUME NEW k \in Nat, k \in S PROVE k + 1 \in S
  <2>1. SUFFICES ASSUME k + 1 <= NBLOCKS, NEW m \in used, Len(G[m]) <= k + 1
                 PROVE  path[k + 1][m] = G[m]
    OBVIOUS
  <2>2. m \in Nodes /\ k + 1 \in 0 .. NBLOCKS /\ k + 1 # 0 /\ (k + 1) - 1 = k
    BY <1>1, <2>1 DEF NamedTree, HeapType
  <2>3. path[k + 1][m] = IF parent[m] = NULL THEN <<>> ELSE Append(path[k][parent[m]], name[m])
    <3>1. PICK j : j = k + 1 /\ j \in 0 .. NBLOCKS /\ j # 0 /\ j - 1 = k
      BY <2>2
    <3>2. path[j][m] = IF j = 0 \/ parent[m] = NULL THEN <<>> ELSE Append(path[j-1][parent[m]], name[m])
      <4> DEFINE Row(i, last) == [x \in Nodes |-> IF i = 0 \/ parent[x] = NULL THEN <<>>
                                                  ELSE Append(last[parent[x]], name[x])]
      <4>1. path[j] = Row(j, path[j-1])
        BY <1>3, <3>1 DEF IsClimb
      <4>2. Row(j, path[j-1])[m] =
              IF j = 0 \/ parent[m] = NULL THEN <<>> ELSE Append(path[j-1][parent[m]], name[m])
        BY <2>2, Zenon
      <4> HIDE DEF Row
      <4> QED BY <4>1, <4>2, Zenon
    <3> QED BY <3>1, <3>2
  <2>4. CASE m = root
    BY <2>3, <2>4 DEF NamedTree, IsTree, Naming
  <2>5. CASE m # root
    <3>1. /\ parent[m] \in used /\ parent[m] \in Nodes /\ G[m] = Append(G[parent[m]], name[m])
          /\ Len(G[m]) = Len(G[parent[m]]) + 1 /\ G[parent[m]] \in Seq(Label)
      BY <2>5, ParentIs
    <3>2. parent[m] # NULL /\ Len(G[parent[m]]) <= k
      BY <2>1, <3>1 DEF Nodes, NULL
    <3>3. path[k][parent[m]] = G[parent[m]]
      BY <1>1, <1>5, <2>1, <3>1, <3>2
    <3> QED BY <2>3, <3>1, <3>2, <3>3
  <2> QED BY <2>4, <2>5
<1>6. NBLOCKS \in S
  <2> HIDE DEF S
  <2> QED BY <1>1, <1>4, <1>5, NaturalsIn
<1>7. Len(G[n]) \in Nat /\ Len(G[n]) < NBLOCKS
  BY PathsAreShort
<1>8. GetPath(n) = G[n]
  BY <1>1, <1>3, <1>6, <1>7
<1> QED BY <1>7, <1>8 DEF GetPathEnds

-----------------------------------------------------------------------------
(***************************************************************************)
(* Where a walk can be: nowhere, or in a directory whose path ends cwPath. *)
(***************************************************************************)

WalkOK(w, G) ==
  /\ w.path \in Seq(Label)
  /\ \/ w.node = NULL
     \/ /\ w.node \in used /\ kind[w.node] = "D"
        /\ EndsWith(w.path, G[w.node]) /\ NoUpInside(G[w.node])

\* One token of locateDir() keeps to it: it never cuts a cwPath without slash.
LEMMA TokenOK ==
  ASSUME NEW G, NamedTree(G), NEW w, WalkOK(w, G), NEW n \in Label
  PROVE  WalkOK(Token(w, n), G)
<1>1. CASE w.node = NULL
  <2>1. NULL \notin Nodes
    BY DEF NULL, Nodes
  <2> QED BY <1>1, <2>1 DEF Token
<1>2. CASE w.node # NULL
  <2>0. PICK c \in used : c = w.node
    BY <1>2 DEF WalkOK
  <2>1. /\ c \in Nodes /\ kind[c] = "D" /\ EndsWith(w.path, G[c]) /\ NoUpInside(G[c])
        /\ w.path \in Seq(Label) /\ G[c] \in Seq(Label)
    BY <1>2, <2>0 DEF WalkOK, NamedTree, HeapType, Naming
  <2>2. CASE n = ".." /\ c # root
    <3>1. /\ parent[c] \in used /\ kind[parent[c]] = "D" /\ G[parent[c]] \in Seq(Label)
          /\ Len(G[c]) = Len(G[parent[c]]) + 1 /\ Front(G[c]) = G[parent[c]]
      BY <2>2, ParentIs
    <3>2. G[c] # <<>>
      BY <3>1
    <3>3. w.path # <<>> /\ EndsWith(Front(w.path), G[parent[c]])
      BY <2>1, <3>1, <3>2, EndsFront
    <3>4. Token(w, n) = [node |-> parent[c], path |-> Front(w.path)]
      BY <2>0, <2>1, <2>2, <3>3 DEF Token
    <3>5. Front(w.path) \in Seq(Label)
      BY <2>1, <3>3, FrontIs
    <3>6. NoUpInside(G[parent[c]])
      <4>1. \A i \in 1 .. Len(G[c]) - 1 : G[parent[c]][i] = G[c][i]
        <5>1. \A i \in 1 .. Len(G[c]) - 1 : Front(G[c])[i] = G[c][i]
          BY <2>1, <3>2, FrontIs
        <5> QED BY <3>1, <5>1
      <4> QED BY <2>1, <3>1, <4>1 DEF NoUpInside
    <3> QED BY <3>1, <3>3, <3>4, <3>5, <3>6 DEF WalkOK
  <2>3. CASE ~(n = ".." /\ c # root)
    <3>0. \A j \in 1 .. Len(kids[c]) :
            kids[c][j] \in used /\ G[kids[c][j]] = Append(G[c], name[kids[c][j]])
      BY KidIs
    <3> PICK i : i = Position(c, "D", n)
      OBVIOUS
    <3>1. Token(w, n) = [node |-> IF i = 0 THEN NULL ELSE kids[c][i], path |-> Append(w.path, n)]
      BY <2>0, <2>1, <2>3 DEF Token
    <3>2. Append(w.path, n) \in Seq(Label)
      BY <2>1
    <3>3. CASE i = 0
      BY <3>1, <3>2, <3>3 DEF WalkOK
    <3>4. CASE i # 0
      <4>1. kids[c] \in Seq(Nodes)
        BY <2>1 DEF NamedTree, HeapType
      <4>2. i \in 1 .. Len(kids[c]) /\ kind[kids[c][i]] = "D" /\ name[kids[c][i]] = n
        BY <3>4, <4>1, PositionIs
      <4>3. kids[c][i] \in used /\ G[kids[c][i]] = Append(G[c], n)
        BY <3>0, <4>2
      <4>4. EndsWith(Append(w.path, n), Append(G[c], n))
        BY <2>1, EndsAppend
      <4>5. NoUpInside(Append(G[c], n))
        <5>1. /\ Len(G[c]) \in Nat /\ Len(Append(G[c], n)) = Len(G[c]) + 1
              /\ \A j \in 1 .. Len(G[c]) : Append(G[c], n)[j] = G[c][j]
              /\ Append(G[c], n)[Len(G[c]) + 1] = n
          BY <2>1, AppendIs
        <5>2. c = root => Len(G[c]) = 0
          BY DEF NamedTree, Naming
        <5>3. ASSUME NEW j \in 2 .. Len(G[c]) + 1 PROVE Append(G[c], n)[j] # ".."
          <6>1. CASE j = Len(G[c]) + 1
            BY <2>3, <5>1, <5>2, <6>1
          <6>2. CASE j # Len(G[c]) + 1
            <7>1. j \in 1 .. Len(G[c]) /\ j \in 2 .. Len(G[c])
              BY <5>1, <6>2
            <7> QED BY <2>1, <5>1, <7>1 DEF NoUpInside
          <6> QED BY <6>1, <6>2
        <5> QED BY <5>1, <5>3 DEF NoUpInside
      <4>6. Token(w, n) = [node |-> kids[c][i], path |-> Append(w.path, n)]
        BY <3>1, <3>4
      <4>7. Token(w, n).node = kids[c][i] /\ Token(w, n).path = Append(w.path, n)
        BY <4>6
      <4> QED BY <3>2, <4>2, <4>3, <4>4, <4>5, <4>7 DEF WalkOK
    <3> QED BY <3>3, <3>4
  <2> QED BY <2>2, <2>3
<1> QED BY <1>1, <1>2

\* And so does locateDir().
LEMMA LocateOK ==
  ASSUME NEW G, NamedTree(G), NEW w, WalkOK(w, G), NEW names \in Seq(Label)
  PROVE  WalkOK(LocateDir(w, names), G)
<1> DEFINE S == {k \in Nat : \A s \in Seq(Label) : Len(s) = k => WalkOK(LocateDir(w, s), G)}
<1>1. 0 \in S
  <2>1. ASSUME NEW s \in Seq(Label), Len(s) = 0 PROVE WalkOK(LocateDir(w, s), G)
    <3>1. s = <<>>
      BY <2>1
    <3> QED BY <3>1, LocateNothing
  <2> QED BY <2>1
<1>2. ASSUME NEW k \in Nat, k \in S PROVE k + 1 \in S
  <2>1. ASSUME NEW s \in Seq(Label), Len(s) = k + 1 PROVE WalkOK(LocateDir(w, s), G)
    <3>1. s # <<>>
      BY <2>1
    <3>2. /\ Front(s) \in Seq(Label) /\ Len(Front(s)) = k /\ Last(s) \in Label
          /\ s = Append(Front(s), Last(s))
      BY <2>1, <3>1, FrontIs
    <3>3. WalkOK(LocateDir(w, Front(s)), G)
      BY <1>2, <3>2
    <3>4. LocateDir(w, s) = Token(LocateDir(w, Front(s)), Last(s))
      <4>1. PICK t \in Seq(Label), x \in Label : t = Front(s) /\ x = Last(s)
        BY <3>2
      <4>2. LocateDir(w, Append(t, x)) = Token(LocateDir(w, t), x)
        BY LocateLast
      <4> QED BY <3>2, <4>1, <4>2
    <3> QED BY <3>2, <3>3, <3>4, TokenOK
  <2> QED BY <2>1
<1>3. \A k \in Nat : k \in S
  <2> HIDE DEF S
  <2> QED BY <1>1, <1>2, NaturalsIn
<1>4. Len(names) \in Nat
  OBVIOUS
<1> QED BY <1>3, <1>4

\* The path of a directory leads to it, unless it goes up by a name "..".
LEMMA PathLeads ==
  ASSUME NEW G, NamedTree(G), NEW n \in used, kind[n] = "D", NoUpInside(G[n])
  PROVE  LocateDir([node |-> root, path |-> <<>>], G[n]).node = n
<1> DEFINE w == [node |-> root, path |-> <<>>]
           Leads(m) == kind[m] = "D" /\ NoUpInside(G[m]) => LocateDir(w, G[m]).node = m
           S == {k \in Nat : \A m \in used : Len(G[m]) = k => Leads(m)}
<1>1. 0 \in S
  <2>1. ASSUME NEW m \in used, Len(G[m]) = 0 PROVE LocateDir(w, G[m]).node = m
    <3>1. m = root
      BY <2>1, ParentIs
    <3>2. G[m] = <<>>
      BY <3>1 DEF NamedTree, Naming
    <3> QED BY <3>1, <3>2, LocateNothing
  <2> QED BY <2>1
<1>2. ASSUME NEW k \in Nat, k \in S PROVE k + 1 \in S
  <2>1. ASSUME NEW m \in used, Len(G[m]) = k + 1, kind[m] = "D", NoUpInside(G[m])
        PROVE  LocateDir(w, G[m]).node = m
    <3>1. m # root
      <4>1. G[root] = <<>> /\ Len(<<>>) = 0
        BY DEF NamedTree, Naming
      <4> QED BY <2>1, <4>1
    <3> PICK c \in used, x \in Label : c = parent[m] /\ x = name[m]
      BY <3>1, ParentIs
    <3>2. /\ c \in Nodes /\ kind[c] = "D" /\ G[m] = Append(G[c], x)
          /\ G[c] \in Seq(Label) /\ Len(G[m]) = Len(G[c]) + 1
          /\ \E i \in 1 .. Len(kids[c]) : kids[c][i] = m
      BY <3>1, ParentIs
    <3>3. /\ Len(G[c]) = k
          /\ \A i \in 1 .. Len(G[c]) : G[m][i] = G[c][i]
          /\ G[m][Len(G[c]) + 1] = x
      BY <2>1, <3>2, AppendIs
    <3>4. NoUpInside(G[c])
      BY <2>1, <3>2, <3>3 DEF NoUpInside
    <3>5. LocateDir(w, G[c]).node = c
      BY <1>2, <3>2, <3>3, <3>4
    <3>6. ~(x = ".." /\ c # root)
      <4>1. c # root => Len(G[c]) >= 1
        <5>1. c # root => G[parent[c]] \in Seq(Label) /\ Len(G[c]) = Len(G[parent[c]]) + 1
          BY ParentIs
        <5> QED BY <5>1
      <4> QED BY <2>1, <3>3, <4>1 DEF NoUpInside
    <3>7. PICK i : i = Position(c, "D", x)
      OBVIOUS
    <3>8. kids[c][i] = m /\ i # 0
      <4>1. PICK j \in 1 .. Len(kids[c]) : kids[c][j] = m
        BY <3>2
      <4>2. kids[c] \in Seq(Nodes)
        BY <3>2 DEF NamedTree, HeapType
      <4>3. i \in 1 .. Len(kids[c]) /\ kind[kids[c][i]] = "D" /\ name[kids[c][i]] = x
        BY <2>1, <3>7, <4>1, <4>2, PositionIs
      <4>4. i = j
        BY <2>1, <4>1, <4>2, <4>3 DEF NamedTree, IsTree
      <4> QED BY <4>1, <4>3, <4>4
    <3>9. LocateDir(w, G[m]) = Token(LocateDir(w, G[c]), x)
      BY <3>2, LocateLast
    <3>10. Token(LocateDir(w, G[c]), x).node = m
      BY <3>2, <3>5, <3>6, <3>7, <3>8 DEF Token
    <3> QED BY <3>9, <3>10
  <2> QED BY <2>1
<1>3. \A k \in Nat : k \in S
  <2> HIDE DEF S
  <2> QED BY <1>1, <1>2, NaturalsIn
<1>4. Len(G[n]) \in Nat
  BY DEF NamedTree, Naming
<1>5. Leads(n)
  BY <1>3, <1>4
<1> QED BY <1>5
-----------------------------------------------------------------------------
(***************************************************************************)
(* saveTree() writes lines.                                                *)
(***************************************************************************)

IsFlat(f, ss, n) == f = [i \in 1 .. n |-> IF i = 1 THEN ss[i] ELSE f[i-1] \o ss[i]]

\* The concatenation of the first n sequences exists for every n.
LEMMA FlatExists ==
  ASSUME NEW ss
  PROVE  \A n \in Nat : \E f : IsFlat(f, ss, n)
<1> DEFINE S == {n \in Nat : \E f : IsFlat(f, ss, n)}
<1>1. 0 \in S
  <2>1. IsFlat([i \in 1 .. 0 |-> 0], ss, 0)
    BY DEF IsFlat
  <2> QED BY <2>1
<1>2. ASSUME NEW n \in Nat, n \in S PROVE n + 1 \in S
  <2>1. PICK f : IsFlat(f, ss, n)
    BY <1>2
  <2> DEFINE Next1(i, last) == IF i = 1 THEN ss[i] ELSE last \o ss[i]
             to == [i \in 1 .. n + 1 |-> IF i = n + 1 THEN Next1(i, f[n]) ELSE f[i]]
  <2>2. ASSUME NEW i \in 1 .. n + 1 PROVE to[i] = Next1(i, to[i-1])
    <3>1. CASE i = n + 1
      <4>1. to[i] = Next1(i, f[n]) /\ (i # 1 => to[i-1] = f[n])
        BY <3>1
      <4> HIDE DEF to
      <4> QED BY <4>1
    <3>2. CASE i # n + 1
      <4>1. i \in 1 .. n /\ to[i] = f[i] /\ (i # 1 => to[i-1] = f[i-1])
        BY <3>2
      <4>2. f[i] = Next1(i, f[i-1])
        BY <2>1, <4>1 DEF IsFlat
      <4> HIDE DEF to
      <4> QED BY <4>1, <4>2
    <3> QED BY <3>1, <3>2
  <2>3. IsFlat(to, ss, n + 1)
    <3>1. to = [i \in 1 .. n + 1 |-> to[i]]
      OBVIOUS
    <3> QED BY <2>2, <3>1 DEF IsFlat
  <2> QED BY <2>3
<1>3. \A n \in Nat : n \in S
  <2> HIDE DEF S
  <2> QED BY <1>1, <1>2, NaturalsIn
<1> QED BY <1>3

\* FlattenSeq is the last of them.
LEMMA FlattenWalks ==
  ASSUME NEW S, NEW ss, NEW n \in Nat \ {0}, ss \in [1 .. n -> Seq(S)]
  PROVE  \E f : IsFlat(f, ss, n) /\ FlattenSeq(ss) = f[n]
<1>1. ss \in Seq(Seq(S)) /\ Len(ss) = n
  OBVIOUS
<1>2. \E f : IsFlat(f, ss, n)
  BY FlatExists
<1>3. IsFlat(CHOOSE f : IsFlat(f, ss, n), ss, n)
  BY <1>2
<1>4. FlattenSeq(ss) = (CHOOSE f : IsFlat(f, ss, n))[n]
  BY <1>1 DEF FlattenSeq, IsFlat
<1> QED BY <1>3, <1>4

\* The concatenation of sequences of lines is one.
LEMMA FlattenType ==
  ASSUME NEW S, NEW ss, NEW n \in Nat, ss \in [1 .. n -> Seq(S)]
  PROVE  FlattenSeq(ss) \in Seq(S)
<1>1. ss \in Seq(Seq(S)) /\ Len(ss) = n
  OBVIOUS
<1>2. CASE n = 0
  BY <1>1, <1>2 DEF FlattenSeq
<1>3. CASE n # 0
  <2>1. PICK f : IsFlat(f, ss, n) /\ FlattenSeq(ss) = f[n]
    BY <1>3, FlattenWalks
  <2> DEFINE T == {i \in Nat : i \in 1 .. n => f[i] \in Seq(S)}
  <2>2. 0 \in T
    OBVIOUS
  <2>3. ASSUME NEW i \in Nat, i \in T PROVE i + 1 \in T
    <3>1. SUFFICES ASSUME i + 1 \in 1 .. n PROVE f[i + 1] \in Seq(S)
      OBVIOUS
    <3>2. PICK j : j = i + 1 /\ j \in 1 .. n /\ j - 1 = i /\ (j # 1 => i \in 1 .. n)
      BY <3>1
    <3>3. f[j] = IF j = 1 THEN ss[j] ELSE f[j-1] \o ss[j]
      BY <2>1, <3>2 DEF IsFlat
    <3>4. j # 1 => f[i] \in Seq(S)
      BY <2>3, <3>2
    <3>5. f[j] \in Seq(S)
      BY <3>2, <3>3, <3>4
    <3> QED BY <3>2, <3>5
  <2>4. n \in T
    <3> HIDE DEF T
    <3> QED BY <2>2, <2>3, NaturalsIn
  <2> QED BY <1>3, <2>1, <2>4
<1> QED BY <1>2, <1>3

\* What saveTree() writes for the nodes of a list.
Listing(c, below) == FlattenSeq([i \in DOMAIN kids[c] |-> Subtree(kids[c][i], below)])
DumpRow(k, last) == [c \in Nodes |-> IF k = 0 THEN <<>> ELSE Listing(c, last)]
IsDump(dump, n) == dump = [k \in 0 .. n |-> DumpRow(k, dump[k-1])]

\* The listings of all nodes, cut off below depth n, exist for every n.
LEMMA DumpExists == \A n \in Nat : \E dump : IsDump(dump, n)
<1> DEFINE S == {n \in Nat : \E dump : IsDump(dump, n)}
<1>1. 0 \in S
  <2>1. IsDump([k \in 0 .. 0 |-> [c \in Nodes |-> <<>>]], 0)
    BY DEF IsDump, DumpRow
  <2> QED BY <2>1
<1>2. ASSUME NEW n \in Nat, n \in S PROVE n + 1 \in S
  <2>1. PICK dump : IsDump(dump, n)
    BY <1>2
  <2> DEFINE to == [k \in 0 .. n + 1 |-> IF k = n + 1 THEN DumpRow(k, dump[n]) ELSE dump[k]]
  <2>2. ASSUME NEW k \in 0 .. n + 1 PROVE to[k] = DumpRow(k, to[k-1])
    <3>1. CASE k = n + 1
      <4>1. to[k] = DumpRow(k, dump[n]) /\ to[k-1] = dump[n]
        BY <3>1
      <4> HIDE DEF to
      <4> QED BY <4>1
    <3>2. CASE k # n + 1
      <4>1. k \in 0 .. n /\ to[k] = dump[k] /\ (k # 0 => to[k-1] = dump[k-1])
        BY <3>2
      <4>2. dump[k] = DumpRow(k, dump[k-1])
        BY <2>1, <4>1 DEF IsDump
      <4>3. k = 0 => DumpRow(k, dump[k-1]) = DumpRow(k, to[k-1])
        BY DEF DumpRow
      <4> HIDE DEF to
      <4> QED BY <4>1, <4>2, <4>3
    <3> QED BY <3>1, <3>2
  <2>3. IsDump(to, n + 1)
    <3>1. to = [k \in 0 .. n + 1 |-> to[k]]
      OBVIOUS
    <3> QED BY <2>2, <3>1 DEF IsDump
  <2> QED BY <2>3
<1>3. \A n \in Nat : n \in S
  <2> HIDE DEF S
  <2> QED BY <1>1, <1>2, NaturalsIn
<1> QED BY <1>3

\* The lines of what is below a node, with its name in front.
LEMMA UnderIs ==
  ASSUME NEW n \in Label, NEW lines \in Seq(LineType)
  PROVE  /\ Under(n, lines) \in Seq(LineType) /\ Len(Under(n, lines)) = Len(lines)
         /\ \A i \in 1 .. Len(lines) :
              Under(n, lines)[i] = [kind |-> lines[i].kind, names |-> <<n>> \o lines[i].names]
<1>1. DOMAIN lines = 1 .. Len(lines) /\ Len(lines) \in Nat
  OBVIOUS
<1>2. ASSUME NEW i \in 1 .. Len(lines)
      PROVE  /\ [lines[i] EXCEPT !.names = <<n>> \o @] \in LineType
             /\ [lines[i] EXCEPT !.names = <<n>> \o @] =
                  [kind |-> lines[i].kind, names |-> <<n>> \o lines[i].names]
  <2>1. PICK l \in LineType : l = lines[i]
    OBVIOUS
  <2>2. l.names \in Seq(Label) /\ l.kind \in {"D", "F"}
    BY DEF LineType
  <2>3. <<n>> \o l.names \in Seq(Label) /\ Len(<<n>> \o l.names) = 1 + Len(l.names)
    BY <2>2
  <2>4. <<n>> \o l.names # <<>>
    BY <2>2, <2>3
  <2>5. [l EXCEPT !.names = <<n>> \o @] = [kind |-> l.kind, names |-> <<n>> \o l.names]
    <3>1. PICK a, b : l = [kind |-> a, names |-> b]
      BY DEF LineType
    <3>2. PICK c : c = <<n>> \o b
      OBVIOUS
    <3>3. [l EXCEPT !.names = c] = [kind |-> l.kind, names |-> c] /\ l.names = b
      BY <3>1
    <3> QED BY <3>2, <3>3, Zenon
  <2> QED BY <2>1, <2>2, <2>3, <2>4, <2>5 DEF LineType
<1>3. PICK u : u = Under(n, lines)
  OBVIOUS
<1> DEFINE Deeper(i) == [lines[i] EXCEPT !.names = <<n>> \o @]
<1>4. u = [i \in 1 .. Len(lines) |-> Deeper(i)]
  BY <1>1, <1>3 DEF Under
<1>5. /\ u \in [1 .. Len(lines) -> LineType]
      /\ \A i \in 1 .. Len(lines) : u[i] = [kind |-> lines[i].kind, names |-> <<n>> \o lines[i].names]
  <2>1. \A i \in 1 .. Len(lines) : Deeper(i) \in LineType
          /\ Deeper(i) = [kind |-> lines[i].kind, names |-> <<n>> \o lines[i].names]
    BY <1>2
  <2> HIDE DEF Deeper
  <2>2. u \in [1 .. Len(lines) -> LineType] /\ \A i \in 1 .. Len(lines) : u[i] = Deeper(i)
    BY <1>4, <2>1
  <2> QED BY <2>1, <2>2
<1>6. u \in Seq(LineType) /\ Len(u) = Len(lines)
  BY <1>1, <1>5
<1> QED BY <1>3, <1>5, <1>6

\* A node and what is below it.
LEMMA SubtreeIs ==
  ASSUME HeapType, NEW m \in Nodes, NEW below, below[m] \in Seq(LineType)
  PROVE  \E l \in LineType, u \in Seq(LineType) :
           /\ l = [kind |-> kind[m], names |-> <<name[m]>>] /\ u = Under(name[m], below[m])
           /\ Subtree(m, below) = <<l>> \o u /\ name[m] \in Label
<1>0. PICK n \in Label : n = name[m]
  BY DEF HeapType
<1>1. [kind |-> kind[m], names |-> <<n>>] \in LineType
  BY DEF HeapType, LineType
<1>2. Under(n, below[m]) \in Seq(LineType)
  BY UnderIs
<1> QED BY <1>0, <1>1, <1>2 DEF Subtree

\* They are lines.
LEMMA SubtreeType ==
  ASSUME HeapType, NEW m \in Nodes, NEW below, below[m] \in Seq(LineType)
  PROVE  Subtree(m, below) \in Seq(LineType)
<1>1. PICK l \in LineType, u \in Seq(LineType) : Subtree(m, below) = <<l>> \o u
  BY SubtreeIs
<1>2. <<l>> \o u \in Seq(LineType)
  OBVIOUS
<1> QED BY <1>1, <1>2

\* saveTree() writes lines, each with a path that is not empty.
LEMMA SaveTreeDumps ==
  ASSUME HeapType
  PROVE  \E dump : /\ IsDump(dump, NBLOCKS) /\ SaveTree = dump[NBLOCKS][root]
                   /\ \A k \in 0 .. NBLOCKS : \A c \in Nodes : dump[k][c] \in Seq(LineType)
<1>1. NBLOCKS \in Nat /\ root \in Nodes
  BY BlocksAssumption DEF Nodes, root
<1>2. PICK dump : IsDump(dump, NBLOCKS) /\ SaveTree = dump[NBLOCKS][root]
  <2>1. \E dump : IsDump(dump, NBLOCKS)
    BY <1>1, DumpExists
  <2>2. IsDump(CHOOSE dump : IsDump(dump, NBLOCKS), NBLOCKS)
    BY <2>1
  <2>3. SaveTree = (CHOOSE dump : IsDump(dump, NBLOCKS))[NBLOCKS][root]
    BY DEF SaveTree, IsDump, DumpRow, Listing
  <2> QED BY <2>2, <2>3
<1> DEFINE S == {k \in Nat : k <= NBLOCKS => \A c \in Nodes : dump[k][c] \in Seq(LineType)}
<1>3. 0 \in S
  <2>1. ASSUME NEW c \in Nodes PROVE dump[0][c] = <<>>
    <3>1. dump[0] = DumpRow(0, dump[0-1])
      BY <1>1, <1>2 DEF IsDump
    <3> QED BY <3>1 DEF DumpRow
  <2>2. <<>> \in Seq(LineType)
    OBVIOUS
  <2> QED BY <2>1, <2>2
<1>4. ASSUME NEW k \in Nat, k \in S PROVE k + 1 \in S
  <2>1. SUFFICES ASSUME k + 1 <= NBLOCKS, NEW c \in Nodes PROVE dump[k + 1][c] \in Seq(LineType)
    OBVIOUS
  <2>2. PICK j : j = k + 1 /\ j \in 0 .. NBLOCKS /\ j # 0 /\ j - 1 = k
    BY <1>1, <2>1
  <2>3. dump[j] = DumpRow(j, dump[k])
    BY <1>2, <2>2 DEF IsDump
  <2>4. dump[j][c] = Listing(c, dump[k])
    BY <2>2, <2>3 DEF DumpRow
  <2>5. kids[c] \in Seq(Nodes) /\ Len(kids[c]) \in Nat /\ DOMAIN kids[c] = 1 .. Len(kids[c])
    BY DEF HeapType
  <2>6. \A m \in Nodes : dump[k][m] \in Seq(LineType)
    BY <1>1, <1>4, <2>1
  <2>7. ASSUME NEW i \in 1 .. Len(kids[c]) PROVE Subtree(kids[c][i], dump[k]) \in Seq(LineType)
    <3>1. kids[c][i] \in Nodes
      BY <2>5
    <3> QED BY <2>6, <3>1, SubtreeType
  <2>8. [i \in DOMAIN kids[c] |-> Subtree(kids[c][i], dump[k])] \in [1 .. Len(kids[c]) -> Seq(LineType)]
    BY <2>5, <2>7
  <2>9. Listing(c, dump[k]) \in Seq(LineType)
    BY <2>5, <2>8, FlattenType DEF Listing
  <2> QED BY <2>2, <2>4, <2>9
<1>5. \A k \in Nat : k \in S
  <2> HIDE DEF S
  <2> QED BY <1>3, <1>4, NaturalsIn
<1>6. \A k \in 0 .. NBLOCKS : \A c \in Nodes : dump[k][c] \in Seq(LineType)
  BY <1>1, <1>5
<1> QED BY <1>2, <1>6

\* In particular what it writes for the root.
LEMMA SaveTreeType ==
  ASSUME HeapType
  PROVE  SaveTree \in Seq(LineType)
<1>1. NBLOCKS \in 0 .. NBLOCKS /\ root \in Nodes
  BY BlocksAssumption DEF Nodes, root
<1> QED BY <1>1, SaveTreeDumps
-----------------------------------------------------------------------------
(***************************************************************************)
(* The lines of saveTree() are the nodes, each after the one it is in.     *)
(***************************************************************************)

\* An element of a sequence is one of its set.
LEMMA InToSet ==
  ASSUME NEW s, NEW i \in DOMAIN s
  PROVE  s[i] \in ToSet(s)
BY DEF ToSet

\* An element of a concatenation is one of a part.
LEMMA ConcatSet ==
  ASSUME NEW S, NEW a \in Seq(S), NEW b \in Seq(S)
  PROVE  ToSet(a \o b) = ToSet(a) \union ToSet(b)
<1>1. PICK r \in Seq(S) :
        /\ r = a \o b /\ Len(r) = Len(a) + Len(b)
        /\ \A i \in 1 .. Len(a) + Len(b) : r[i] = IF i <= Len(a) THEN a[i] ELSE b[i - Len(a)]
  <2>1. /\ a \o b \in Seq(S) /\ Len(a \o b) = Len(a) + Len(b)
        /\ \A i \in 1 .. Len(a) + Len(b) : (a \o b)[i] = IF i <= Len(a) THEN a[i] ELSE b[i - Len(a)]
    BY ConcatProperties
  <2> QED BY <2>1
<1>2. /\ Len(a) \in Nat /\ Len(b) \in Nat
      /\ DOMAIN a = 1 .. Len(a) /\ DOMAIN b = 1 .. Len(b) /\ DOMAIN r = 1 .. Len(a) + Len(b)
  BY <1>1
<1>3. ASSUME NEW e \in ToSet(r) PROVE e \in ToSet(a) \union ToSet(b)
  <2>1. PICK i \in 1 .. Len(a) + Len(b) : e = r[i]
    BY <1>2 DEF ToSet
  <2>2. CASE i <= Len(a)
    <3>1. i \in DOMAIN a /\ e = a[i]
      BY <1>1, <1>2, <2>1, <2>2
    <3> QED BY <3>1, InToSet
  <2>3. CASE ~(i <= Len(a))
    <3>1. i - Len(a) \in DOMAIN b /\ e = b[i - Len(a)]
      BY <1>1, <1>2, <2>1, <2>3
    <3> QED BY <3>1, InToSet
  <2> QED BY <2>2, <2>3
<1>4. ASSUME NEW e \in ToSet(a) PROVE e \in ToSet(r)
  <2>1. PICK i \in 1 .. Len(a) : e = a[i]
    BY <1>2 DEF ToSet
  <2>2. i \in DOMAIN r /\ e = r[i]
    BY <1>1, <1>2, <2>1
  <2> QED BY <2>2, InToSet
<1>5. ASSUME NEW e \in ToSet(b) PROVE e \in ToSet(r)
  <2>1. PICK i \in 1 .. Len(b) : e = b[i]
    BY <1>2 DEF ToSet
  <2>2. Len(a) + i \in 1 .. Len(a) + Len(b) /\ ~(Len(a) + i <= Len(a)) /\ Len(a) + i - Len(a) = i
    BY <1>2
  <2>3. Len(a) + i \in DOMAIN r /\ e = r[Len(a) + i]
    BY <1>1, <1>2, <2>1, <2>2
  <2> QED BY <2>3, InToSet
<1> QED BY <1>1, <1>3, <1>4, <1>5

\* Two listings that have no line in common, one after the other, are one.
LEMMA ConcatPreorder ==
  ASSUME NEW a \in Seq(LineType), NEW b \in Seq(LineType), Preorder(a), Preorder(b),
         \A e : ~(e \in ToSet(a) /\ e \in ToSet(b))
  PROVE  Preorder(a \o b)
<1>1. PICK r \in Seq(LineType) :
        /\ r = a \o b /\ Len(r) = Len(a) + Len(b)
        /\ \A i \in 1 .. Len(a) + Len(b) : r[i] = IF i <= Len(a) THEN a[i] ELSE b[i - Len(a)]
  <2>1. /\ a \o b \in Seq(LineType) /\ Len(a \o b) = Len(a) + Len(b)
        /\ \A i \in 1 .. Len(a) + Len(b) : (a \o b)[i] = IF i <= Len(a) THEN a[i] ELSE b[i - Len(a)]
    BY ConcatProperties
  <2> QED BY <2>1
<1>2. /\ Len(a) \in Nat /\ Len(b) \in Nat
      /\ DOMAIN a = 1 .. Len(a) /\ DOMAIN b = 1 .. Len(b) /\ DOMAIN r = 1 .. Len(a) + Len(b)
  BY <1>1
<1>3. ASSUME NEW j \in 1 .. Len(a) + Len(b)
      PROVE  IF j = 1 THEN Len(r[j].names) = 1 ELSE Follows(r[j], r[j-1])
  <2>1. CASE j <= Len(a)
    <3>1. j \in DOMAIN a /\ r[j] = a[j] /\ (j # 1 => r[j-1] = a[j-1])
      BY <1>1, <1>2, <2>1
    <3> QED BY <3>1 DEF Preorder
  <2>2. CASE ~(j <= Len(a))
    <3>1. PICK k \in DOMAIN b : k = j - Len(a) /\ r[j] = b[k] /\ (k # 1 => r[j-1] = b[k-1])
      BY <1>1, <1>2, <2>2
    <3>2. CASE k = 1
      <4>1. Len(r[j].names) = 1
        BY <3>1, <3>2 DEF Preorder
      <4> QED BY <4>1 DEF Follows
    <3>3. CASE k # 1
      <4>a. Follows(b[k], b[k-1])
        BY <3>3 DEF Preorder
      <4>b. r[j] = b[k] /\ r[j-1] = b[k-1]
        BY <3>1, <3>3
      <4>c. j # 1
        BY <1>2, <2>2, <3>1, <3>3
      <4>1. Follows(r[j], r[j-1]) /\ j # 1
        BY <4>a, <4>b, <4>c
      <4> QED BY <4>1
    <3> QED BY <3>2, <3>3
  <2> QED BY <2>1, <2>2
<1>4. ASSUME NEW i \in 1 .. Len(a) + Len(b), NEW j \in 1 .. Len(a) + Len(b), i <= j, r[i] = r[j]
      PROVE  i = j
  <2>1. CASE j <= Len(a)
    <3>1. i \in DOMAIN a /\ j \in DOMAIN a /\ r[i] = a[i] /\ r[j] = a[j]
      BY <1>1, <1>2, <1>4, <2>1
    <3> QED BY <1>4, <3>1 DEF Preorder
  <2>2. CASE ~(i <= Len(a))
    <3>1. /\ i - Len(a) \in DOMAIN b /\ j - Len(a) \in DOMAIN b
          /\ r[i] = b[i - Len(a)] /\ r[j] = b[j - Len(a)]
      BY <1>1, <1>2, <1>4, <2>2
    <3>2. i - Len(a) = j - Len(a)
      BY <1>4, <3>1 DEF Preorder
    <3> QED BY <1>2, <3>2
  <2>3. CASE i <= Len(a) /\ ~(j <= Len(a))
    <3>1. i \in DOMAIN a /\ j - Len(a) \in DOMAIN b /\ r[i] = a[i] /\ r[j] = b[j - Len(a)]
      BY <1>1, <1>2, <2>3
    <3>2. r[i] \in ToSet(a) /\ r[j] \in ToSet(b)
      BY <3>1, InToSet
    <3> QED BY <1>4, <3>2
  <2> QED BY <2>1, <2>2, <2>3
<1>5. ASSUME NEW i \in 1 .. Len(a) + Len(b), NEW j \in 1 .. Len(a) + Len(b), r[i] = r[j]
      PROVE  i = j
  <2>1. i <= j \/ j <= i
    BY <1>2
  <2> QED BY <1>4, <1>5, <2>1
<1>6. Preorder(r)
  BY <1>2, <1>3, <1>5 DEF Preorder
<1> QED BY <1>1, <1>6

\* The elements of a concatenation of many.
LEMMA FlattenElements ==
  ASSUME NEW S, NEW ss, NEW n \in Nat, ss \in [1 .. n -> Seq(S)], NEW e
  PROVE  e \in ToSet(FlattenSeq(ss)) <=> \E i \in 1 .. n : e \in ToSet(ss[i])
<1>1. ss \in Seq(Seq(S)) /\ Len(ss) = n
  OBVIOUS
<1>2. CASE n = 0
  <2>1. FlattenSeq(ss) = <<>> /\ ToSet(<<>>) = {} /\ 1 .. n = {}
    BY <1>1, <1>2 DEF FlattenSeq, ToSet
  <2> QED BY <2>1
<1>3. CASE n # 0
  <2>1. PICK f : IsFlat(f, ss, n) /\ FlattenSeq(ss) = f[n]
    BY <1>3, FlattenWalks
  <2> DEFINE T == {i \in Nat : i \in 1 .. n =>
                     /\ f[i] \in Seq(S)
                     /\ e \in ToSet(f[i]) <=> \E j \in 1 .. i : e \in ToSet(ss[j])}
  <2>2. 0 \in T
    OBVIOUS
  <2>3. ASSUME NEW i \in Nat, i \in T PROVE i + 1 \in T
    <3>1. SUFFICES ASSUME i + 1 \in 1 .. n
                   PROVE  /\ f[i + 1] \in Seq(S)
                          /\ e \in ToSet(f[i + 1]) <=> \E j \in 1 .. i + 1 : e \in ToSet(ss[j])
      OBVIOUS
    <3>2. PICK h : h = i + 1 /\ h \in 1 .. n /\ h - 1 = i /\ (h # 1 => i \in 1 .. n)
      BY <3>1
    <3>3. f[h] = IF h = 1 THEN ss[h] ELSE f[h-1] \o ss[h]
      BY <2>1, <3>2 DEF IsFlat
    <3>4. CASE h = 1
      <4>1. f[h] = ss[h] /\ 1 .. h = {h} /\ ss[h] \in Seq(S)
        BY <3>2, <3>3, <3>4
      <4>2. e \in ToSet(f[h]) <=> \E j \in 1 .. h : e \in ToSet(ss[j])
        BY <4>1
      <4> QED BY <3>2, <4>1, <4>2
    <3>5. CASE h # 1
      <4>1. /\ f[i] \in Seq(S) /\ ss[h] \in Seq(S) /\ f[h] = f[i] \o ss[h]
            /\ e \in ToSet(f[i]) <=> \E j \in 1 .. i : e \in ToSet(ss[j])
        BY <2>3, <3>2, <3>3, <3>5
      <4>2. f[h] \in Seq(S) /\ ToSet(f[h]) = ToSet(f[i]) \union ToSet(ss[h])
        BY <4>1, ConcatSet
      <4>3. 1 .. h = (1 .. i) \union {h}
        BY <3>2
      <4> QED BY <3>2, <4>1, <4>2, <4>3
    <3> QED BY <3>4, <3>5
  <2>4. n \in T
    <3> HIDE DEF T
    <3> QED BY <2>2, <2>3, NaturalsIn
  <2> QED BY <1>3, <2>1, <2>4
<1> QED BY <1>2, <1>3

\* So is the concatenation of many.
LEMMA FlattenPreorder ==
  ASSUME NEW ss, NEW n \in Nat, ss \in [1 .. n -> Seq(LineType)],
         \A i \in 1 .. n : Preorder(ss[i]),
         \A i, j \in 1 .. n : \A e : e \in ToSet(ss[i]) /\ e \in ToSet(ss[j]) => i = j
  PROVE  Preorder(FlattenSeq(ss))
<1>1. ss \in Seq(Seq(LineType)) /\ Len(ss) = n
  OBVIOUS
<1>2. CASE n = 0
  <2>1. FlattenSeq(ss) = <<>> /\ DOMAIN <<>> = {}
    BY <1>1, <1>2 DEF FlattenSeq
  <2> QED BY <2>1 DEF Preorder
<1>3. CASE n # 0
  <2>1. PICK f : IsFlat(f, ss, n) /\ FlattenSeq(ss) = f[n]
    BY <1>3, FlattenWalks
  <2> DEFINE Good(i) == /\ f[i] \in Seq(LineType) /\ Preorder(f[i])
                        /\ \A e \in ToSet(f[i]) : \E j \in 1 .. i : e \in ToSet(ss[j])
             T == {i \in Nat : i \in 1 .. n => Good(i)}
  <2>2. 0 \in T
    OBVIOUS
  <2>3. ASSUME NEW i \in Nat, i \in T PROVE i + 1 \in T
    <3>1. SUFFICES ASSUME i + 1 \in 1 .. n PROVE Good(i + 1)
      OBVIOUS
    <3>2. PICK h : h = i + 1 /\ h \in 1 .. n /\ h - 1 = i /\ (h # 1 => i \in 1 .. n)
      BY <3>1
    <3>3. f[h] = IF h = 1 THEN ss[h] ELSE f[h-1] \o ss[h]
      BY <2>1, <3>2 DEF IsFlat
    <3>4. ss[h] \in Seq(LineType) /\ Preorder(ss[h]) /\ h \in 1 .. h
      BY <3>2
    <3>5. CASE h = 1
      <4>1. f[h] = ss[h]
        BY <3>3, <3>5
      <4>2. Good(h)
        BY <3>4, <4>1
      <4> QED BY <3>2, <4>2
    <3>6. CASE h # 1
      <4>1. Good(i) /\ f[h] = f[i] \o ss[h]
        BY <2>3, <3>2, <3>3, <3>6
      <4>2. ASSUME NEW e, e \in ToSet(f[i]), e \in ToSet(ss[h]) PROVE FALSE
        <5>1. PICK j \in 1 .. i : e \in ToSet(ss[j])
          BY <4>1, <4>2
        <5>2. j \in 1 .. n /\ j # h
          BY <3>2, <5>1
        <5> QED BY <3>2, <4>2, <5>1, <5>2
      <4>3. f[h] \in Seq(LineType) /\ Preorder(f[h]) /\ ToSet(f[h]) = ToSet(f[i]) \union ToSet(ss[h])
        BY <3>4, <4>1, <4>2, ConcatPreorder, ConcatProperties, ConcatSet
      <4>4. \A j \in 1 .. i : j \in 1 .. h
        BY <3>2
      <4>5. ASSUME NEW e \in ToSet(f[h]) PROVE \E j \in 1 .. h : e \in ToSet(ss[j])
        BY <3>4, <4>1, <4>3, <4>4, <4>5
      <4>6. Good(h)
        BY <4>3, <4>5
      <4> QED BY <3>2, <4>6
    <3> QED BY <3>5, <3>6
  <2>4. n \in T
    <3> HIDE DEF T
    <3> QED BY <2>2, <2>3, NaturalsIn
  <2> QED BY <1>3, <2>1, <2>4
<1> QED BY <1>2, <1>3

\* Two nodes of a kind do not share a path.
LEMMA PathsDiffer ==
  ASSUME NEW G, NamedTree(G), NEW x \in used, NEW y \in used, kind[x] = kind[y], G[x] = G[y]
  PROVE  x = y
<1> DEFINE S == {k \in Nat : \A u, v \in used :
                   Len(G[u]) = k /\ G[u] = G[v] /\ kind[u] = kind[v] => u = v}
<1>1. 0 \in S
  <2>1. ASSUME NEW u \in used, Len(G[u]) = 0 PROVE u = root
    BY <2>1, ParentIs
  <2> QED BY <2>1
<1>2. ASSUME NEW k \in Nat, k \in S PROVE k + 1 \in S
  <2>1. ASSUME NEW u \in used, NEW v \in used, Len(G[u]) = k + 1, G[u] = G[v], kind[u] = kind[v]
        PROVE  u = v
    <3>1. u # root /\ v # root
      <4>1. G[root] = <<>> /\ Len(<<>>) = 0
        BY DEF NamedTree, Naming
      <4> QED BY <2>1, <4>1
    <3>2. /\ parent[u] \in used /\ kind[parent[u]] = "D" /\ Len(G[u]) = Len(G[parent[u]]) + 1
          /\ Front(G[u]) = G[parent[u]] /\ G[u] = Append(G[parent[u]], name[u])
          /\ G[parent[u]] \in Seq(Label) /\ name[u] \in Label
          /\ \E i \in 1 .. Len(kids[parent[u]]) : kids[parent[u]][i] = u
      BY <3>1, ParentIs
    <3>3. /\ parent[v] \in used /\ kind[parent[v]] = "D" /\ Front(G[v]) = G[parent[v]]
          /\ G[v] = Append(G[parent[v]], name[v]) /\ name[v] \in Label
          /\ \E i \in 1 .. Len(kids[parent[v]]) : kids[parent[v]][i] = v
      BY <3>1, ParentIs
    <3>4. Len(G[parent[u]]) = k /\ G[parent[u]] = G[parent[v]]
      BY <2>1, <3>2, <3>3
    <3>5. parent[u] = parent[v]
      BY <1>2, <3>2, <3>3, <3>4
    <3>6. PICK c \in used, s \in Seq(Label) : c = parent[u] /\ s = G[c]
      BY <3>2
    <3>7. name[u] = name[v]
      <4>1. \A a \in Label : Append(s, a)[Len(s) + 1] = a
        OBVIOUS
      <4>2. G[u] = Append(s, name[u]) /\ G[v] = Append(s, name[v])
        BY <3>2, <3>3, <3>5, <3>6
      <4>3. Append(s, name[u])[Len(s) + 1] = name[u] /\ Append(s, name[v])[Len(s) + 1] = name[v]
        BY <3>2, <3>3, <4>1
      <4> QED BY <2>1, <4>2, <4>3
    <3>8. PICK i \in 1 .. Len(kids[c]), j \in 1 .. Len(kids[c]) : kids[c][i] = u /\ kids[c][j] = v
      BY <3>2, <3>3, <3>5, <3>6
    <3>9. DOMAIN kids[c] = 1 .. Len(kids[c])
      BY <3>6 DEF NamedTree, HeapType
    <3>10. i = j
      BY <2>1, <3>7, <3>8, <3>9 DEF NamedTree, IsTree
    <3> QED BY <3>8, <3>10
  <2> QED BY <2>1
<1>3. \A k \in Nat : k \in S
  <2> HIDE DEF S
  <2> QED BY <1>1, <1>2, NaturalsIn
<1>4. Len(G[x]) \in Nat
  BY DEF NamedTree, Naming
<1> QED BY <1>3, <1>4

\* A concatenation without its last element.
LEMMA FrontConcat ==
  ASSUME NEW S, NEW a \in Seq(S), NEW b \in Seq(S), b # <<>>
  PROVE  Front(a \o b) = a \o Front(b) /\ a \o b \in Seq(S) /\ Len(a \o b) = Len(a) + Len(b)
<1>1. PICK t \in Seq(S), x \in S : b = Append(t, x) /\ t = Front(b)
  BY FrontIs
<1>2. a \o b = Append(a \o t, x)
  BY <1>1
<1>3. Front(a \o b) = a \o t
  <2>0. a \o t \in Seq(S)
    BY ConcatProperties
  <2>1. PICK r \in Seq(S) : r = a \o t
    BY <2>0
  <2>2. Front(Append(r, x)) = r
    BY AppendIs
  <2> QED BY <1>2, <2>1, <2>2
<1> QED BY <1>1, <1>3, ConcatProperties

\* A sequence is its first element and the rest.
LEMMA HeadTailIs ==
  ASSUME NEW S, NEW s \in Seq(S), s # <<>>
  PROVE  /\ Head(s) \in S /\ Tail(s) \in Seq(S) /\ Len(s) = 1 + Len(Tail(s))
         /\ s = <<Head(s)>> \o Tail(s)
<1>1. PICK n \in Nat \ {0} : n = Len(s)
  BY LenProperties, EmptySeq
<1>2. Head(s) \in S /\ Tail(s) \in Seq(S) /\ Len(Tail(s)) = n - 1 /\ Tail(s) = SubSeq(s, 2, n)
  BY <1>1, HeadTailProperties, TailIsSubSeq
<1>3. 1 \in 1 .. Len(s) /\ n \in 1 .. Len(s)
  BY <1>1
<1>4. SubSeq(s, 1, n) = <<s[1]>> \o SubSeq(s, 1 + 1, n)
  BY <1>3, SubSeqRecursiveFirst
<1>5. SubSeq(s, 1, n) = s /\ s[1] = Head(s) /\ 1 + 1 = 2
  BY <1>1, SubSeqFull
<1> QED BY <1>1, <1>2, <1>4, <1>5

\* One element may be taken from either side.
LEMMA AppendConcat ==
  ASSUME NEW S, NEW s \in Seq(S), NEW x \in S, NEW t \in Seq(S)
  PROVE  Append(s, x) \o t = s \o (<<x>> \o t)
<1>1. <<x>> \in Seq(S)
  OBVIOUS
<1> QED BY <1>1, AppendIsConcat, ConcatAssociative

\* The names b lead from path a to node x.
Below(G, x, a, b) == b # <<>> /\ G[x] = a \o b

\* What is in front of the end of a path is the path of a directory.
LEMMA Ancestor ==
  ASSUME NEW G, NamedTree(G), NEW a \in Seq(Label), NEW b \in Seq(Label),
         NEW x \in used, Below(G, x, a, b)
  PROVE  \E y \in used : kind[y] = "D" /\ G[y] = a
<1> DEFINE S == {k \in Nat : \A t \in Seq(Label), u \in used :
                   Len(t) = k + 1 /\ G[u] = a \o t => \E y \in used : kind[y] = "D" /\ G[y] = a}
<1>1. ASSUME NEW t \in Seq(Label), t # <<>>, NEW u \in used, G[u] = a \o t
      PROVE  parent[u] \in used /\ kind[parent[u]] = "D" /\ G[parent[u]] = a \o Front(t)
  <2>1. Len(G[u]) # 0
    BY <1>1
  <2>2. u # root
    BY <2>1 DEF NamedTree, Naming
  <2>3. parent[u] \in used /\ kind[parent[u]] = "D" /\ Front(G[u]) = G[parent[u]]
    BY <2>2, ParentIs
  <2> QED BY <1>1, <2>3, FrontConcat
<1>2. 0 \in S
  <2>1. ASSUME NEW t \in Seq(Label), Len(t) = 1, NEW u \in used, G[u] = a \o t
        PROVE  \E y \in used : kind[y] = "D" /\ G[y] = a
    <3>0. t # <<>>
      <4>1. Len(<<>>) # 1
        OBVIOUS
      <4> QED BY <2>1, <4>1, Zenon
    <3>1. t # <<>> /\ Front(t) = <<>> /\ a \o <<>> = a
      <4>1. Front(t) \in Seq(Label) /\ Len(Front(t)) = 1 - 1
        BY <2>1, <3>0, FrontIs
      <4> QED BY <3>0, <4>1, EmptySeq, ConcatEmptySeq
    <3>2. parent[u] \in used /\ kind[parent[u]] = "D" /\ G[parent[u]] = a \o Front(t)
      BY <1>1, <2>1, <3>0
    <3>3. G[parent[u]] = a
      BY <3>1, <3>2
    <3> QED BY <3>2, <3>3
  <2> QED BY <2>1
<1>3. ASSUME NEW k \in Nat, k \in S PROVE k + 1 \in S
  <2>1. ASSUME NEW t \in Seq(Label), Len(t) = (k + 1) + 1, NEW u \in used, G[u] = a \o t
        PROVE  \E y \in used : kind[y] = "D" /\ G[y] = a
    <3>1. t # <<>>
      BY <2>1
    <3>2. Front(t) \in Seq(Label) /\ Len(Front(t)) = k + 1
      <4>1. Front(t) \in Seq(Label) /\ Len(Front(t)) = Len(t) - 1
        BY <3>1, FrontIs
      <4> QED BY <2>1, <4>1
    <3>3. parent[u] \in used /\ G[parent[u]] = a \o Front(t)
      BY <1>1, <2>1, <3>1
    <3> QED BY <1>3, <3>2, <3>3
  <2> QED BY <2>1
<1>4. \A k \in Nat : k \in S
  <2> HIDE DEF S
  <2> QED BY <1>2, <1>3, NaturalsIn
<1>5. Len(b) - 1 \in Nat /\ Len(b) = (Len(b) - 1) + 1
  BY DEF Below
<1> QED BY <1>4, <1>5 DEF Below

\* The first of the names that lead to x leads to y.
StepTo(G, y, x, names) ==
  /\ name[y] = Head(names)
  /\ \/ y = x /\ names = <<Head(names)>>
     \/ kind[y] = "D" /\ Tail(names) # <<>> /\ G[x] = G[y] \o Tail(names)

\* The way from a directory to a node below it begins with one of its list.
LEMMA FirstStep ==
  ASSUME NEW G, NamedTree(G), NEW c \in used, kind[c] = "D",
         NEW names \in Seq(Label), NEW x \in used, Below(G, x, G[c], names)
  PROVE  \E i \in 1 .. Len(kids[c]) : StepTo(G, kids[c][i], x, names)
<1>0. names # <<>> /\ G[x] = G[c] \o names
  BY DEF Below
<1>1. PICK g \in Seq(Label) : g = G[c]
  BY DEF NamedTree, Naming
<1>2. PICK h \in Label, t \in Seq(Label) : h = Head(names) /\ t = Tail(names) /\ names = <<h>> \o t
  <2>1. /\ Head(names) \in Label /\ Tail(names) \in Seq(Label)
        /\ names = <<Head(names)>> \o Tail(names)
    BY <1>0, HeadTailIs
  <2> QED BY <2>1
<1>3. PICK s \in Seq(Label) : s = Append(g, h)
  <2>1. Append(g, h) \in Seq(Label)
    BY AppendIs
  <2> QED BY <2>1
<1>4. G[x] = s \o t
  <2>1. Append(g, h) \o t = g \o (<<h>> \o t)
    BY AppendConcat
  <2> QED BY <1>0, <1>1, <1>2, <1>3, <2>1
<1>5. ASSUME NEW y \in used, G[y] = s
      PROVE  \E i \in 1 .. Len(kids[c]) : kids[c][i] = y /\ name[y] = h
  <2>1. Len(s) # 0
    BY <1>3
  <2>2. y # root
    BY <1>5, <2>1 DEF NamedTree, Naming
  <2>3. /\ parent[y] \in used /\ kind[parent[y]] = "D" /\ Front(G[y]) = G[parent[y]]
        /\ G[y] = Append(G[parent[y]], name[y]) /\ name[y] \in Label
        /\ \E i \in 1 .. Len(kids[parent[y]]) : kids[parent[y]][i] = y
    BY <2>2, ParentIs
  <2>4. Front(s) = g
    BY <1>3, AppendIs
  <2>5. parent[y] = c
    BY <1>1, <1>5, <2>3, <2>4, PathsDiffer
  <2>6. name[y] = h
    <3>1. Append(g, h)[Len(g) + 1] = h /\ Append(g, name[y])[Len(g) + 1] = name[y]
      BY <2>3, AppendIs
    <3> QED BY <1>1, <1>3, <1>5, <2>3, <2>5, <3>1
  <2> QED BY <2>3, <2>5, <2>6
<1>6. CASE t = <<>>
  <2>1. G[x] = s /\ names = <<h>>
    <3>1. s \o <<>> = s /\ <<h>> \o <<>> = <<h>>
      BY ConcatEmptySeq
    <3> QED BY <1>2, <1>4, <1>6, <3>1
  <2> QED BY <1>2, <1>5, <2>1 DEF StepTo
<1>7. CASE t # <<>>
  <2>1. PICK y \in used : kind[y] = "D" /\ G[y] = s
    <3>1. Below(G, x, s, t)
      BY <1>4, <1>7 DEF Below
    <3> QED BY <3>1, Ancestor
  <2> QED BY <1>2, <1>4, <1>5, <1>7, <2>1 DEF StepTo
<1> QED BY <1>6, <1>7

\* Line e, in what is saved for the path a, is that of a node.
IsEntry(G, a, e) == \E x \in used \ {root} : kind[x] = e.kind /\ G[x] = a \o e.names

\* The lines s are those of what is below c, as deep as k.
DumpOK(G, c, s, k) ==
  /\ s \in Seq(LineType) /\ Preorder(s)
  /\ kind[c] = "F" => s = <<>>
  /\ \A e \in ToSet(s) : IsEntry(G, G[c], e)
  /\ kind[c] = "D" => \A x \in used, names \in Seq(Label) :
       Len(names) <= k /\ Below(G, x, G[c], names)
         => [kind |-> kind[x], names |-> names] \in ToSet(s)

\* d are the lines of what is below m, r those of m and of what is below it.
IsSubtree(m, below, n, d, r) ==
  /\ n = name[m] /\ d = below[m] /\ r = Subtree(m, below) /\ Len(r) = 1 + Len(d)
  /\ r[1] = [kind |-> kind[m], names |-> <<n>>]
  /\ \A i \in 1 .. Len(d) : r[i + 1] = [kind |-> d[i].kind, names |-> <<n>> \o d[i].names]

\* The lines of a node and of what is below it.
LEMMA SubtreeLines ==
  ASSUME NEW G, NamedTree(G), NEW m \in used, NEW below, NEW k \in Nat, DumpOK(G, m, below[m], k)
  PROVE  \E n \in Label, d \in Seq(LineType), r \in Seq(LineType) : IsSubtree(m, below, n, d, r)
<1>1. HeapType /\ m \in Nodes
  BY DEF NamedTree, HeapType
<1>2. PICK d \in Seq(LineType) : d = below[m]
  BY DEF DumpOK
<1>3. PICK l \in LineType, u \in Seq(LineType) :
        /\ l = [kind |-> kind[m], names |-> <<name[m]>>] /\ u = Under(name[m], below[m])
        /\ Subtree(m, below) = <<l>> \o u /\ name[m] \in Label
  BY <1>1, <1>2, SubtreeIs
<1>4. PICK n \in Label : n = name[m]
  BY <1>3
<1>5. /\ Len(u) = Len(d)
      /\ \A i \in 1 .. Len(d) : u[i] = [kind |-> d[i].kind, names |-> <<n>> \o d[i].names]
  BY <1>2, <1>3, <1>4, UnderIs
<1>6. <<l>> \in Seq(LineType) /\ Len(<<l>>) = 1 /\ <<l>>[1] = l
  OBVIOUS
<1>7. PICK r \in Seq(LineType) :
        /\ r = <<l>> \o u /\ Len(r) = 1 + Len(u)
        /\ \A i \in 1 .. 1 + Len(u) : r[i] = IF i <= 1 THEN <<l>>[i] ELSE u[i - 1]
  <2>1. /\ <<l>> \o u \in Seq(LineType) /\ Len(<<l>> \o u) = 1 + Len(u)
        /\ \A i \in 1 .. 1 + Len(u) : (<<l>> \o u)[i] = IF i <= 1 THEN <<l>>[i] ELSE u[i - 1]
    BY <1>6, ConcatProperties
  <2> QED BY <2>1
<1>8. r[1] = l
  <2>1. 1 \in 1 .. 1 + Len(u) /\ 1 <= 1
    BY <1>3
  <2> QED BY <1>6, <1>7, <2>1
<1>9. ASSUME NEW i \in 1 .. Len(d) PROVE r[i + 1] = u[i]
  <2>1. PICK j : j = i + 1 /\ j \in 1 .. 1 + Len(u) /\ ~(j <= 1) /\ j - 1 = i
    BY <1>5
  <2>2. r[j] = u[j - 1]
    BY <1>7, <2>1
  <2> QED BY <2>1, <2>2
<1>10. IsSubtree(m, below, n, d, r)
  BY <1>2, <1>3, <1>4, <1>5, <1>7, <1>8, <1>9 DEF IsSubtree
<1> QED BY <1>10

\* Line j of r is line i of d, whose names are t, with n in front.
IsDeeper(n, d, r, j, i, t) ==
  /\ j = i + 1 /\ t = d[i].names /\ t # <<>>
  /\ r[j].kind = d[i].kind /\ r[j].names = <<n>> \o t
  /\ r[j] = [kind |-> d[i].kind, names |-> <<n>> \o t]

\* A line of what is below a node has its name in front.
LEMMA DeeperLine ==
  ASSUME NEW m, NEW below, NEW n \in Label, NEW d \in Seq(LineType), NEW r \in Seq(LineType),
         IsSubtree(m, below, n, d, r), NEW j \in DOMAIN r, j # 1
  PROVE  \E i \in 1 .. Len(d), t \in Seq(Label) : IsDeeper(n, d, r, j, i, t)
<1>0. PICK i \in 1 .. Len(d) : j = i + 1
  <2>1. DOMAIN r = 1 .. 1 + Len(d) /\ Len(d) \in Nat
    BY DEF IsSubtree
  <2>2. j - 1 \in 1 .. Len(d) /\ j = (j - 1) + 1
    BY <2>1
  <2> QED BY <2>2
<1>1. PICK l \in LineType : l = d[i]
  OBVIOUS
<1>2. l.names \in Seq(Label) /\ l.names # <<>>
  BY DEF LineType
<1>3. r[j] = [kind |-> l.kind, names |-> <<n>> \o l.names]
  BY <1>0, <1>1 DEF IsSubtree
<1>4. r[j].kind = l.kind /\ r[j].names = <<n>> \o l.names
  BY <1>3
<1>5. IsDeeper(n, d, r, j, i, l.names)
  BY <1>0, <1>1, <1>2, <1>3, <1>4 DEF IsDeeper
<1> QED BY <1>2, <1>5

\* A name in front of two sequences.
LEMMA SameBehind ==
  ASSUME NEW S, NEW n \in S, NEW s \in Seq(S), NEW t \in Seq(S), <<n>> \o s = <<n>> \o t
  PROVE  s = t
<1>1. <<n>> \in Seq(S) /\ Len(<<n>>) = 1
  OBVIOUS
<1>2. /\ Len(<<n>> \o s) = 1 + Len(s) /\ Len(<<n>> \o t) = 1 + Len(t)
      /\ \A i \in 1 .. 1 + Len(s) : (<<n>> \o s)[i] = IF i <= 1 THEN <<n>>[i] ELSE s[i - 1]
      /\ \A i \in 1 .. 1 + Len(t) : (<<n>> \o t)[i] = IF i <= 1 THEN <<n>>[i] ELSE t[i - 1]
  BY <1>1, ConcatProperties
<1>3. Len(s) \in Nat /\ Len(s) = Len(t)
  BY <1>2
<1>4. ASSUME NEW i \in 1 .. Len(s) PROVE s[i] = t[i]
  <2>1. i + 1 \in 1 .. 1 + Len(s) /\ ~(i + 1 <= 1) /\ (i + 1) - 1 = i
    BY <1>3
  <2>2. (<<n>> \o s)[i + 1] = s[i] /\ (<<n>> \o t)[i + 1] = t[i]
    BY <1>2, <1>3, <2>1
  <2> QED BY <2>2
<1> QED BY <1>3, <1>4, SeqEqual

\* A line of a node and of what is below it starts with its name.
LEMMA SubtreeLine ==
  ASSUME NEW G, NamedTree(G), NEW m \in used, NEW below, NEW k \in Nat, DumpOK(G, m, below[m], k),
         NEW e \in ToSet(Subtree(m, below))
  PROVE  /\ Head(e.names) = name[m]
         /\ \/ Len(e.names) = 1 /\ e.kind = kind[m]
            \/ Len(e.names) # 1 /\ kind[m] = "D"
<1>1. PICK n \in Label, d \in Seq(LineType), r \in Seq(LineType) : IsSubtree(m, below, n, d, r)
  BY SubtreeLines
<1>a. /\ n = name[m] /\ d = below[m] /\ r = Subtree(m, below) /\ Len(r) = 1 + Len(d)
      /\ r[1].kind = kind[m] /\ r[1].names = <<n>>
  BY <1>1 DEF IsSubtree
<1>2. PICK j \in DOMAIN r : e = r[j]
  BY <1>a DEF ToSet
<1>3. CASE j = 1
  <2>1. e.names = <<n>> /\ e.kind = kind[m]
    BY <1>a, <1>2, <1>3
  <2>2. Head(<<n>>) = n /\ Len(<<n>>) = 1
    OBVIOUS
  <2> QED BY <1>a, <2>1, <2>2
<1>4. CASE j # 1
  <2>a. PICK i \in 1 .. Len(d), t \in Seq(Label) : IsDeeper(n, d, r, j, i, t)
    BY <1>1, <1>4, DeeperLine
  <2>1. j = i + 1 /\ t = d[i].names /\ t # <<>> /\ r[j].names = <<n>> \o t
    BY <2>a DEF IsDeeper
  <2>2. Head(<<n>> \o t) = n /\ Len(<<n>> \o t) # 1
    <3>1. <<n>> \in Seq(Label) /\ Len(<<n>>) = 1 /\ <<n>>[1] = n /\ Len(t) \in Nat /\ Len(t) # 0
      BY <2>1, EmptySeq
    <3>2. /\ Len(<<n>> \o t) = 1 + Len(t)
          /\ \A x \in 1 .. 1 + Len(t) : (<<n>> \o t)[x] = IF x <= 1 THEN <<n>>[x] ELSE t[x - 1]
      BY <3>1, ConcatProperties
    <3>3. (<<n>> \o t)[1] = n
      BY <3>1, <3>2
    <3> QED BY <3>1, <3>2, <3>3
  <2>3. kind[m] = "D"
    <3>1. d # <<>> /\ kind[m] \in {"D", "F"}
      BY <2>1 DEF NamedTree, HeapType
    <3> QED BY <1>a, <3>1 DEF DumpOK
  <2> QED BY <1>a, <1>2, <2>1, <2>2, <2>3
<1> QED BY <1>3, <1>4

\* The lines of a node and of what is below it are in order.
LEMMA SubtreePreorder ==
  ASSUME NEW G, NamedTree(G), NEW m \in used, NEW below, NEW k \in Nat, DumpOK(G, m, below[m], k)
  PROVE  Subtree(m, below) \in Seq(LineType) /\ Preorder(Subtree(m, below))
<1>1. PICK n \in Label, d \in Seq(LineType), r \in Seq(LineType) : IsSubtree(m, below, n, d, r)
  BY SubtreeLines
<1>a. /\ n = name[m] /\ d = below[m] /\ r = Subtree(m, below) /\ Len(r) = 1 + Len(d)
      /\ r[1].kind = kind[m] /\ r[1].names = <<n>>
  BY <1>1 DEF IsSubtree
<1>2. DOMAIN r = 1 .. 1 + Len(d) /\ Len(d) \in Nat /\ DOMAIN d = 1 .. Len(d) /\ Preorder(d)
  BY <1>a DEF DumpOK
<1>b. <<n>> \in Seq(Label) /\ Len(<<n>>) = 1
  OBVIOUS
<1>c. ASSUME NEW j \in DOMAIN r, j # 1
      PROVE  \E i \in DOMAIN d, t \in Seq(Label) :
               /\ j = i + 1 /\ t = d[i].names /\ t # <<>> /\ d[i] = [kind |-> r[j].kind, names |-> t]
               /\ r[j].kind = d[i].kind /\ r[j].names = <<n>> \o t
  <2>a. PICK i \in 1 .. Len(d), t \in Seq(Label) : IsDeeper(n, d, r, j, i, t)
    BY <1>1, <1>c, DeeperLine
  <2>1. /\ j = i + 1 /\ t = d[i].names /\ t # <<>>
        /\ r[j].kind = d[i].kind /\ r[j].names = <<n>> \o t
    BY <2>a DEF IsDeeper
  <2>2. d[i] = [kind |-> d[i].kind, names |-> d[i].names]
    <3>1. PICK l \in LineType : l = d[i]
      OBVIOUS
    <3>2. l = [kind |-> l.kind, names |-> l.names]
      BY DEF LineType
    <3> QED BY <3>1, <3>2
  <2> QED BY <1>2, <2>1, <2>2
<1>3. ASSUME NEW j \in DOMAIN r, j # 1 PROVE Follows(r[j], r[j-1])
  <2>1. PICK i \in DOMAIN d, t \in Seq(Label) :
          j = i + 1 /\ t = d[i].names /\ t # <<>> /\ r[j].names = <<n>> \o t
    BY <1>3, <1>c
  <2>2. PICK ft \in Seq(Label) : ft = Front(t) /\ Front(r[j].names) = <<n>> \o ft
    <3>1. Front(t) \in Seq(Label)
      BY <2>1, FrontIs
    <3>2. Front(<<n>> \o t) = <<n>> \o Front(t)
      BY <1>b, <2>1, FrontConcat
    <3> QED BY <2>1, <3>1, <3>2
  <2>3. Len(t) = 1 => Front(r[j].names) = <<n>>
    <3>1. SUFFICES ASSUME Len(t) = 1 PROVE Front(r[j].names) = <<n>>
      OBVIOUS
    <3>2. Front(t) \in Seq(Label) /\ Len(Front(t)) = 1 - 1
      BY <2>1, <3>1, FrontIs
    <3>3. Front(t) = <<>>
      BY <3>2, EmptySeq
    <3>4. <<n>> \o <<>> = <<n>>
      BY <1>b, ConcatEmptySeq
    <3> QED BY <2>2, <3>3, <3>4
  <2>4. CASE i = 1
    <3>1. Len(t) = 1 /\ r[j-1] = r[1]
      BY <1>2, <2>1, <2>4 DEF Preorder
    <3>2. kind[m] = "D"
      <4>1. d # <<>> /\ kind[m] \in {"D", "F"}
        BY <1>2, <2>1 DEF NamedTree, HeapType
      <4> QED BY <1>a, <4>1 DEF DumpOK
    <3> QED BY <1>a, <2>3, <3>1, <3>2 DEF Follows
  <2>5. CASE i # 1
    <3>1. PICK h : h = i /\ h = j - 1 /\ h \in DOMAIN r /\ h # 1
      BY <1>2, <2>1, <2>5
    <3>2. PICK g \in DOMAIN d, y \in Seq(Label) :
            /\ h = g + 1 /\ y = d[g].names /\ y # <<>>
            /\ r[h].kind = d[g].kind /\ r[h].names = <<n>> \o y
      BY <1>c, <3>1
    <3>3. Follows(d[i], d[g])
      <4>1. g = i - 1
        BY <1>2, <3>1, <3>2
      <4> QED BY <1>2, <2>5, <4>1 DEF Preorder
    <3>4. CASE Len(t) = 1
      <4>1. IsStrictPrefix(<<n>>, <<n>> \o y)
        BY <1>b, <3>2, PrefixMakes
      <4> QED BY <2>3, <3>1, <3>2, <3>4, <4>1 DEF Follows
    <3>5. CASE d[g].kind = "D" /\ ft = y
      BY <2>2, <3>1, <3>2, <3>5 DEF Follows
    <3>6. CASE IsStrictPrefix(ft, y)
      <4>1. IsStrictPrefix(<<n>> \o ft, <<n>> \o y)
        BY <1>b, <3>6, PrefixBehind
      <4> QED BY <2>2, <3>1, <3>2, <4>1 DEF Follows
    <3> QED BY <2>1, <2>2, <3>2, <3>3, <3>4, <3>5, <3>6 DEF Follows
  <2> QED BY <2>4, <2>5
<1>4. ASSUME NEW i \in DOMAIN r, NEW j \in DOMAIN r, r[i] = r[j] PROVE i = j
  <2>1. ASSUME NEW x \in DOMAIN r, x # 1 PROVE r[x].names # <<n>>
    <3>1. PICK t \in Seq(Label) : t # <<>> /\ r[x].names = <<n>> \o t
      BY <1>c, <2>1
    <3>2. Len(<<n>> \o t) = Len(<<n>>) + Len(t) /\ Len(t) \in Nat /\ Len(t) # 0
      BY <1>b, <3>1, ConcatProperties, EmptySeq
    <3>3. Len(<<n>> \o t) # Len(<<n>>)
      BY <1>b, <3>2
    <3> QED BY <3>1, <3>3
  <2>2. CASE i = 1 \/ j = 1
    BY <1>a, <1>4, <2>1, <2>2
  <2>3. CASE i # 1 /\ j # 1
    <3>1. PICK x \in DOMAIN d, t \in Seq(Label) :
            i = x + 1 /\ d[x] = [kind |-> r[i].kind, names |-> t] /\ r[i].names = <<n>> \o t
      BY <1>c, <2>3
    <3>2. PICK y \in DOMAIN d, u \in Seq(Label) :
            j = y + 1 /\ d[y] = [kind |-> r[j].kind, names |-> u] /\ r[j].names = <<n>> \o u
      BY <1>c, <2>3
    <3>3. t = u
      BY <1>4, <3>1, <3>2, SameBehind
    <3>4. d[x] = d[y]
      BY <1>4, <3>1, <3>2, <3>3
    <3>5. x = y
      BY <1>2, <3>4 DEF Preorder
    <3> QED BY <3>1, <3>2, <3>5
  <2> QED BY <2>2, <2>3
<1>5. Len(r[1].names) = 1
  BY <1>a, <1>b
<1> QED BY <1>a, <1>3, <1>4, <1>5 DEF Preorder

\* Two nodes of a list have no line in common.
LEMMA SubtreesDiffer ==
  ASSUME NEW G, NamedTree(G), NEW c \in used, NEW below, NEW k \in Nat,
         NEW i \in 1 .. Len(kids[c]), NEW j \in 1 .. Len(kids[c]),
         DumpOK(G, kids[c][i], below[kids[c][i]], k), DumpOK(G, kids[c][j], below[kids[c][j]], k),
         NEW e, e \in ToSet(Subtree(kids[c][i], below)), e \in ToSet(Subtree(kids[c][j], below))
  PROVE  i = j
<1>1. PICK x \in used, y \in used : x = kids[c][i] /\ y = kids[c][j]
  BY KidIs
<1>2. /\ Head(e.names) = name[x]
      /\ \/ Len(e.names) = 1 /\ e.kind = kind[x]
         \/ Len(e.names) # 1 /\ kind[x] = "D"
  <2>1. DumpOK(G, x, below[x], k) /\ e \in ToSet(Subtree(x, below))
    BY <1>1
  <2> QED BY <2>1, SubtreeLine
<1>3. /\ Head(e.names) = name[y]
      /\ \/ Len(e.names) = 1 /\ e.kind = kind[y]
         \/ Len(e.names) # 1 /\ kind[y] = "D"
  <2>1. DumpOK(G, y, below[y], k) /\ e \in ToSet(Subtree(y, below))
    BY <1>1
  <2> QED BY <2>1, SubtreeLine
<1>4. kind[x] = kind[y] /\ name[x] = name[y]
  BY <1>2, <1>3
<1>5. i \in DOMAIN kids[c] /\ j \in DOMAIN kids[c]
  BY DEF NamedTree, HeapType
<1> QED BY <1>1, <1>4, <1>5 DEF NamedTree, IsTree

\* Each is that of a node.
LEMMA SubtreeSound ==
  ASSUME NEW G, NamedTree(G), NEW m \in used, m # root, NEW below, NEW k \in Nat,
         DumpOK(G, m, below[m], k)
  PROVE  \A e \in ToSet(Subtree(m, below)) : IsEntry(G, G[parent[m]], e)
<1> TAKE e \in ToSet(Subtree(m, below))
<1>1. PICK n \in Label, d \in Seq(LineType), r \in Seq(LineType) : IsSubtree(m, below, n, d, r)
  BY SubtreeLines
<1>a. /\ n = name[m] /\ d = below[m] /\ r = Subtree(m, below) /\ Len(r) = 1 + Len(d)
      /\ r[1].kind = kind[m] /\ r[1].names = <<n>> /\ r[1] = [kind |-> kind[m], names |-> <<n>>]
  BY <1>1 DEF IsSubtree
<1>2. DOMAIN r = 1 .. 1 + Len(d) /\ Len(d) \in Nat /\ DOMAIN d = 1 .. Len(d)
  BY <1>a
<1>3. PICK g \in Seq(Label) : g = G[parent[m]] /\ G[m] = Append(g, n)
  BY <1>a, ParentIs
<1>4. PICK j \in 1 .. 1 + Len(d) : e = r[j]
  BY <1>a, <1>2 DEF ToSet
<1>5. CASE j = 1
  <2>1. e.kind = kind[m] /\ e.names = <<n>>
    BY <1>a, <1>4, <1>5
  <2>2. G[m] = g \o <<n>>
    BY <1>3, AppendIsConcat
  <2> QED BY <1>3, <2>1, <2>2 DEF IsEntry
<1>6. CASE j # 1
  <2>1. j \in DOMAIN r
    BY <1>2
  <2>a. PICK i \in 1 .. Len(d), t \in Seq(Label) : IsDeeper(n, d, r, j, i, t)
    BY <1>1, <1>6, <2>1, DeeperLine
  <2>2. t = d[i].names /\ r[j].kind = d[i].kind /\ r[j].names = <<n>> \o t
    BY <2>a DEF IsDeeper
  <2>3. e.kind = d[i].kind /\ e.names = <<n>> \o t
    BY <1>4, <2>2
  <2>4. d[i] \in ToSet(d)
    BY <1>2, InToSet
  <2>5. PICK x \in used \ {root} : kind[x] = d[i].kind /\ G[x] = Append(g, n) \o t
    BY <1>a, <1>3, <2>2, <2>4 DEF DumpOK, IsEntry
  <2>6. G[x] = g \o (<<n>> \o t)
    <3>1. Append(g, n) \o t = g \o (<<n>> \o t)
      BY AppendConcat
    <3> QED BY <2>5, <3>1
  <2> QED BY <1>3, <2>3, <2>5, <2>6 DEF IsEntry
<1> QED BY <1>5, <1>6

\* And each node has one.
LEMMA SubtreeComplete ==
  ASSUME NEW G, NamedTree(G), NEW m \in used, NEW below, NEW k \in Nat,
         DumpOK(G, m, below[m], k)
  PROVE  /\ [kind |-> kind[m], names |-> <<name[m]>>] \in ToSet(Subtree(m, below))
         /\ \A x \in used, t \in Seq(Label) :
              kind[m] = "D" /\ Len(t) <= k /\ Below(G, x, G[m], t) =>
                [kind |-> kind[x], names |-> <<name[m]>> \o t] \in ToSet(Subtree(m, below))
<1>1. PICK n \in Label, d \in Seq(LineType), r \in Seq(LineType) : IsSubtree(m, below, n, d, r)
  BY SubtreeLines
<1>a. /\ n = name[m] /\ d = below[m] /\ r = Subtree(m, below) /\ Len(r) = 1 + Len(d)
      /\ r[1].kind = kind[m] /\ r[1].names = <<n>> /\ r[1] = [kind |-> kind[m], names |-> <<n>>]
  BY <1>1 DEF IsSubtree
<1>2. DOMAIN r = 1 .. 1 + Len(d) /\ Len(d) \in Nat /\ DOMAIN d = 1 .. Len(d)
  BY <1>a
<1>3. r[1] \in ToSet(r)
  <2>1. 1 \in DOMAIN r
    BY <1>2
  <2> QED BY <2>1, InToSet
<1>4. ASSUME NEW x \in used, NEW t \in Seq(Label), kind[m] = "D", Len(t) <= k, Below(G, x, G[m], t)
      PROVE  [kind |-> kind[x], names |-> <<n>> \o t] \in ToSet(r)
  <2>1. [kind |-> kind[x], names |-> t] \in ToSet(d)
    BY <1>a, <1>4 DEF DumpOK
  <2>2. PICK i \in 1 .. Len(d) : d[i] = [kind |-> kind[x], names |-> t]
    BY <1>2, <2>1 DEF ToSet
  <2>3. r[i + 1] = [kind |-> kind[x], names |-> <<n>> \o t] /\ i + 1 \in DOMAIN r
    <3>1. d[i].kind = kind[x] /\ d[i].names = t
      BY <2>2
    <3>2. PICK j \in 1 .. 1 + Len(d) : j = i + 1
      BY <1>2
    <3>3. r[j] = [kind |-> d[i].kind, names |-> <<n>> \o d[i].names]
      <4>1. j \in DOMAIN r /\ j # 1
        BY <1>2, <3>2
      <4>a. PICK h \in 1 .. Len(d), y \in Seq(Label) : IsDeeper(n, d, r, j, h, y)
        BY <1>1, <4>1, DeeperLine
      <4>2. j = h + 1 /\ y = d[h].names /\ r[j] = [kind |-> d[h].kind, names |-> <<n>> \o y]
        BY <4>a DEF IsDeeper
      <4>3. h = i
        BY <3>2, <4>2
      <4> QED BY <4>2, <4>3
    <3> QED BY <1>2, <3>1, <3>2, <3>3
  <2>4. r[i + 1] \in ToSet(r)
    BY <2>3, InToSet
  <2> QED BY <2>3, <2>4
<1> QED BY <1>a, <1>3, <1>4

\* The lines of a directory, one level deeper.
LEMMA ListingOK ==
  ASSUME NEW G, NamedTree(G), NEW c \in used, NEW below, NEW k \in Nat,
         \A m \in used : DumpOK(G, m, below[m], k)
  PROVE  DumpOK(G, c, Listing(c, below), k + 1)
<1>1. kids[c] \in Seq(Nodes) /\ DOMAIN kids[c] = 1 .. Len(kids[c]) /\ Len(kids[c]) \in Nat
  BY DEF NamedTree, HeapType
<1>2. PICK ss : ss = [i \in DOMAIN kids[c] |-> Subtree(kids[c][i], below)]
  OBVIOUS
<1>3. ASSUME NEW i \in 1 .. Len(kids[c])
      PROVE  /\ ss[i] = Subtree(kids[c][i], below) /\ kids[c][i] \in used /\ kids[c][i] # root
             /\ parent[kids[c][i]] = c /\ DumpOK(G, kids[c][i], below[kids[c][i]], k)
  BY <1>1, <1>2, KidIs
<1>4. ss \in [1 .. Len(kids[c]) -> Seq(LineType)] /\ \A i \in 1 .. Len(kids[c]) : Preorder(ss[i])
  <2>1. ASSUME NEW i \in 1 .. Len(kids[c]) PROVE ss[i] \in Seq(LineType) /\ Preorder(ss[i])
    BY <1>3, SubtreePreorder
  <2>2. ss = [i \in 1 .. Len(kids[c]) |-> ss[i]]
    BY <1>1, <1>2
  <2> QED BY <2>1, <2>2
<1>5. PICK n \in Nat : n = Len(kids[c])
  BY <1>1
<1>6. Listing(c, below) = FlattenSeq(ss)
  BY <1>2 DEF Listing
<1>7. FlattenSeq(ss) \in Seq(LineType) /\ Preorder(FlattenSeq(ss))
  <2>1. ASSUME NEW i \in 1 .. n, NEW j \in 1 .. n, NEW e, e \in ToSet(ss[i]), e \in ToSet(ss[j])
        PROVE  i = j
    <3>1. i \in 1 .. Len(kids[c]) /\ j \in 1 .. Len(kids[c])
      BY <1>5
    <3>2. e \in ToSet(Subtree(kids[c][i], below)) /\ e \in ToSet(Subtree(kids[c][j], below))
      BY <1>3, <2>1, <3>1
    <3>3. /\ DumpOK(G, kids[c][i], below[kids[c][i]], k)
          /\ DumpOK(G, kids[c][j], below[kids[c][j]], k)
      BY <1>3, <3>1
    <3> QED BY <3>1, <3>2, <3>3, SubtreesDiffer
  <2>2. Preorder(FlattenSeq(ss))
    BY <1>4, <1>5, <2>1, FlattenPreorder
  <2> QED BY <1>4, <1>5, <2>2, FlattenType
<1>8. ASSUME NEW e
      PROVE  e \in ToSet(FlattenSeq(ss)) <=> \E i \in 1 .. n : e \in ToSet(ss[i])
  BY <1>4, <1>5, FlattenElements
<1>9. kind[c] = "F" => FlattenSeq(ss) = <<>>
  <2>1. SUFFICES ASSUME kind[c] = "F" PROVE FlattenSeq(ss) = <<>>
    OBVIOUS
  <2>2. kids[c] = <<>>
    BY <2>1 DEF NamedTree, IsTree
  <2>3. ss = <<>>
    BY <1>2, <2>2
  <2> QED BY <2>3 DEF FlattenSeq
<1>10. ASSUME NEW e \in ToSet(FlattenSeq(ss))
       PROVE  IsEntry(G, G[c], e)
  <2>1. PICK i \in 1 .. Len(kids[c]) : e \in ToSet(ss[i])
    BY <1>5, <1>8
  <2>2. PICK m \in used : m = kids[c][i]
    BY <1>3
  <2>3. e \in ToSet(Subtree(m, below)) /\ m # root /\ parent[m] = c /\ DumpOK(G, m, below[m], k)
    BY <1>3, <2>1, <2>2
  <2>4. IsEntry(G, G[parent[m]], e)
    BY <2>3, SubtreeSound
  <2> QED BY <2>3, <2>4
<1>11. ASSUME kind[c] = "D", NEW x \in used, NEW names \in Seq(Label),
              Len(names) <= k + 1, Below(G, x, G[c], names)
       PROVE  [kind |-> kind[x], names |-> names] \in ToSet(FlattenSeq(ss))
  <2>1. names # <<>> /\ G[x] = G[c] \o names
    BY <1>11 DEF Below
  <2>2. PICK i \in 1 .. Len(kids[c]) : StepTo(G, kids[c][i], x, names)
    BY <1>11, FirstStep
  <2>3. PICK m \in used : m = kids[c][i] /\ ss[i] = Subtree(m, below) /\ DumpOK(G, m, below[m], k)
    BY <1>3
  <2>4. PICK t \in Seq(Label) :
          t = Tail(names) /\ Len(names) = 1 + Len(t) /\ names = <<name[m]>> \o t
    <3>1. Tail(names) \in Seq(Label) /\ Len(names) = 1 + Len(Tail(names))
          /\ names = <<Head(names)>> \o Tail(names)
      BY <2>1, HeadTailIs
    <3> QED BY <2>2, <2>3, <3>1 DEF StepTo
  <2>5. /\ [kind |-> kind[m], names |-> <<name[m]>>] \in ToSet(Subtree(m, below))
        /\ \A y \in used, s \in Seq(Label) :
             kind[m] = "D" /\ Len(s) <= k /\ Below(G, y, G[m], s) =>
               [kind |-> kind[y], names |-> <<name[m]>> \o s] \in ToSet(Subtree(m, below))
    BY <2>3, SubtreeComplete
  <2>6. CASE m = x /\ names = <<name[m]>>
    BY <1>5, <1>8, <2>3, <2>5, <2>6
  <2>7. CASE kind[m] = "D" /\ t # <<>> /\ G[x] = G[m] \o t
    <3>1. Below(G, x, G[m], t) /\ Len(t) <= k
      <4>1. Len(t) \in Nat /\ 1 + Len(t) <= k + 1
        BY <1>11, <2>4
      <4> QED BY <2>7, <4>1 DEF Below
    <3>2. [kind |-> kind[x], names |-> <<name[m]>> \o t] \in ToSet(Subtree(m, below))
      BY <2>5, <2>7, <3>1
    <3>3. [kind |-> kind[x], names |-> names] \in ToSet(ss[i])
      BY <2>3, <2>4, <3>2, Zenon
    <3> QED BY <1>5, <1>8, <3>3
  <2> QED BY <2>2, <2>3, <2>4, <2>6, <2>7 DEF StepTo
<1> QED BY <1>6, <1>7, <1>9, <1>10, <1>11 DEF DumpOK

\* The lines of saveTree() are the entries of the tree, in an order in which
\* they can be run again.
LEMMA SaveTreeOrdered ==
  ASSUME NEW G, NamedTree(G), Reachable(G)
  PROVE  /\ Preorder(SaveTree) /\ SaveTree # NoFile /\ ToSet(SaveTree) = EntriesOf(G)
         /\ \A i \in DOMAIN SaveTree : NoUpInside(Front(SaveTree[i].names))
<1>1. NBLOCKS \in Nat /\ root \in used /\ root \in Nodes /\ kind[root] = "D" /\ G[root] = <<>>
  BY BlocksAssumption DEF NamedTree, IsTree, HeapType, Naming
<1>2. PICK dump : /\ IsDump(dump, NBLOCKS) /\ SaveTree = dump[NBLOCKS][root]
                  /\ \A k \in 0 .. NBLOCKS : \A c \in Nodes : dump[k][c] \in Seq(LineType)
  BY SaveTreeDumps DEF NamedTree
<1> DEFINE S == {k \in Nat : k <= NBLOCKS => \A c \in used : DumpOK(G, c, dump[k][c], k)}
<1>3. 0 \in S
  <2>1. ASSUME NEW c \in used PROVE DumpOK(G, c, dump[0][c], 0)
    <3>1. dump[0][c] = <<>>
      <4>1. dump[0] = DumpRow(0, dump[0-1])
        <5>1. IsDump(dump, NBLOCKS) /\ 0 \in 0 .. NBLOCKS
          BY <1>1, <1>2
        <5> QED BY <5>1, Zenon DEF IsDump
      <4>2. c \in Nodes
        BY DEF NamedTree, HeapType
      <4> QED BY <4>1, <4>2 DEF DumpRow
    <3>2. <<>> \in Seq(LineType) /\ Preorder(<<>>) /\ ToSet(<<>>) = {}
      BY DEF Preorder, ToSet
    <3>3. ASSUME NEW names \in Seq(Label), Len(names) <= 0, names # <<>> PROVE FALSE
      BY <3>3
    <3> QED BY <3>1, <3>2, <3>3 DEF DumpOK, Below
  <2> QED BY <2>1
<1>4. ASSUME NEW k \in Nat, k \in S PROVE k + 1 \in S
  <2>1. SUFFICES ASSUME k + 1 <= NBLOCKS, NEW c \in used PROVE DumpOK(G, c, dump[k + 1][c], k + 1)
    OBVIOUS
  <2>2. PICK j : j = k + 1 /\ j \in 0 .. NBLOCKS /\ j # 0 /\ j - 1 = k
    BY <1>1, <2>1
  <2>3. dump[j] = DumpRow(j, dump[k]) /\ c \in Nodes
    BY <1>2, <2>2 DEF IsDump, NamedTree, HeapType
  <2>4. dump[j][c] = Listing(c, dump[k])
    BY <2>2, <2>3 DEF DumpRow
  <2>5. \A m \in used : DumpOK(G, m, dump[k][m], k)
    BY <1>1, <1>4, <2>1
  <2>6. DumpOK(G, c, Listing(c, dump[k]), k + 1)
    <3>1. PICK below : below = dump[k]
      OBVIOUS
    <3>2. DumpOK(G, c, Listing(c, below), k + 1)
      BY <2>5, <3>1, ListingOK
    <3> QED BY <3>1, <3>2
  <2> QED BY <2>2, <2>4, <2>6
<1>5. \A k \in Nat : k \in S
  <2> HIDE DEF S
  <2> QED BY <1>3, <1>4, NaturalsIn
<1>6. PICK s \in Seq(LineType) : s = SaveTree /\ DumpOK(G, root, s, NBLOCKS)
  <2>1. DumpOK(G, root, SaveTree, NBLOCKS)
    BY <1>1, <1>2, <1>5
  <2> QED BY <2>1 DEF DumpOK
<1>7. Preorder(s)
  BY <1>6 DEF DumpOK
<1>8. ASSUME NEW e \in ToSet(s)
      PROVE  e \in EntriesOf(G) /\ NoUpInside(Front(e.names))
  <2>1. PICK i \in DOMAIN s : e = s[i]
    BY DEF ToSet
  <2>2. PICK a \in {"D", "F"}, b \in Seq(Label) : e = [kind |-> a, names |-> b]
    <3>1. PICK l \in LineType : l = e
      BY <2>1
    <3> QED BY <3>1 DEF LineType
  <2>3. e.kind = a /\ e.names = b
    BY <2>2
  <2>4. PICK x \in used \ {root} : kind[x] = a /\ G[x] = G[root] \o b
    BY <1>6, <2>3 DEF DumpOK, IsEntry
  <2>5. G[x] = b
    BY <1>1, <2>4, ConcatEmptySeq
  <2> QED BY <2>2, <2>3, <2>4, <2>5 DEF EntriesOf, Reachable
<1>9. ASSUME NEW e \in EntriesOf(G) PROVE e \in ToSet(s)
  <2>1. PICK x \in used \ {root} : e = [kind |-> kind[x], names |-> G[x]]
    BY DEF EntriesOf
  <2>2. G[x] \in Seq(Label) /\ Len(G[x]) <= NBLOCKS /\ G[x] # <<>>
    <3>1. /\ G[x] \in Seq(Label) /\ G[parent[x]] \in Seq(Label)
          /\ Len(G[x]) = Len(G[parent[x]]) + 1
      BY ParentIs
    <3>2. Len(G[x]) \in Nat /\ Len(G[x]) < NBLOCKS
      BY PathsAreShort
    <3> QED BY <1>1, <3>1, <3>2
  <2>3. Below(G, x, G[root], G[x])
    BY <1>1, <2>2, ConcatEmptySeq DEF Below
  <2> QED BY <1>1, <1>6, <2>1, <2>2, <2>3 DEF DumpOK
<1>10. ToSet(s) = EntriesOf(G)
  BY <1>8, <1>9
<1>11. s # NoFile
  <2>1. SUFFICES ASSUME s = NoFile PROVE FALSE
    OBVIOUS
  <2>2. 1 \in DOMAIN s /\ s[1].kind = "none"
    BY <2>1 DEF NoFile
  <2>3. s[1] \in LineType
    BY <2>2
  <2> QED BY <2>2, <2>3 DEF LineType
<1>12. \A i \in DOMAIN s : NoUpInside(Front(s[i].names))
  BY <1>8, InToSet
<1> QED BY <1>6, <1>7, <1>10, <1>11, <1>12

-----------------------------------------------------------------------------
(***************************************************************************)
(* createNode() and the removal of a node.                                 *)
(***************************************************************************)

\* A list without its element i.
LEMMA RemoveAtIs ==
  ASSUME NEW S, NEW s \in Seq(S), NEW i \in 1 .. Len(s)
  PROVE  /\ RemoveAt(s, i) \in Seq(S) /\ Len(RemoveAt(s, i)) = Len(s) - 1
         /\ \A j \in 1 .. Len(s) - 1 : RemoveAt(s, i)[j] = IF j < i THEN s[j] ELSE s[j + 1]
<1>0. PICK n \in Nat : n = Len(s)
  OBVIOUS
<1>1. PICK a \in Seq(S) :
        a = SubSeq(s, 1, i-1) /\ Len(a) = i - 1 /\ \A j \in 1 .. i - 1 : a[j] = s[j]
  <2>1. /\ SubSeq(s, 1, i-1) \in Seq(S) /\ Len(SubSeq(s, 1, i-1)) = i - 1
        /\ \A j \in 1 .. i - 1 : SubSeq(s, 1, i-1)[j] = s[j]
    OBVIOUS
  <2> QED BY <2>1
<1>2. PICK b \in Seq(S) :
        b = SubSeq(s, i+1, n) /\ Len(b) = n - i /\ \A j \in 1 .. n - i : b[j] = s[i + j]
  <2>1. /\ SubSeq(s, i+1, n) \in Seq(S) /\ Len(SubSeq(s, i+1, n)) = n - i
        /\ \A j \in 1 .. n - i : SubSeq(s, i+1, n)[j] = s[i + j]
    BY <1>0
  <2> QED BY <2>1
<1>3. RemoveAt(s, i) = a \o b
  BY <1>0, <1>1, <1>2 DEF RemoveAt
<1>4. i \in 1 .. n
  BY <1>0
<1>5. /\ a \o b \in Seq(S) /\ Len(a \o b) = n - 1
      /\ \A j \in 1 .. n - 1 : (a \o b)[j] = IF j <= i - 1 THEN a[j] ELSE b[j - (i - 1)]
  <2>1. Len(a) + Len(b) = n - 1
    BY <1>1, <1>2, <1>4
  <2>2. /\ a \o b \in Seq(S) /\ Len(a \o b) = Len(a) + Len(b)
        /\ \A j \in 1 .. Len(a) + Len(b) : (a \o b)[j] = IF j <= Len(a) THEN a[j] ELSE b[j - Len(a)]
    BY ConcatProperties
  <2> QED BY <1>1, <2>1, <2>2
<1>6. PICK r : r = a \o b
  OBVIOUS
<1>7. ASSUME NEW j \in 1 .. n - 1 PROVE r[j] = IF j < i THEN s[j] ELSE s[j + 1]
  <2>1. r[j] = IF j <= i - 1 THEN a[j] ELSE b[j - (i - 1)]
    BY <1>5, <1>6
  <2>2. CASE j < i
    <3>1. j \in 1 .. i - 1 /\ j <= i - 1
      BY <1>4, <2>2
    <3> QED BY <1>1, <2>1, <2>2, <3>1
  <2>3. CASE ~(j < i)
    <3>1. j - (i - 1) \in 1 .. n - i /\ i + (j - (i - 1)) = j + 1 /\ ~(j <= i - 1)
      BY <1>4, <2>3
    <3> QED BY <1>2, <2>1, <2>3, <3>1
  <2> QED BY <2>2, <2>3
<1> QED BY <1>0, <1>3, <1>5, <1>6, <1>7

\* While start is in use malloc() returns a block that is not.
LEMMA MallocFresh ==
  ASSUME HeapType, start \in used, NEW m \in Malloc
  PROVE  m \in Nodes /\ m \notin used
<1> DEFINE others == Nodes \ (used \union {start})
<1>1. others # {} /\ m = Min(others)
  BY DEF Malloc
<1>2. others \subseteq Nat
  BY DEF Nodes
<1> HIDE DEF others
<1>3. PICK x \in others : \A y \in others : x <= y
  BY <1>1, <1>2, LeastNumber
<1>4. m \in others
  BY <1>1, <1>3 DEF Min
<1> QED BY <1>4 DEF others

\* The names and kinds of all nodes after a new one, m, below c.
Added(G, c, k, n, H, m) ==
  /\ m \notin used /\ used' = used \union {m}
  /\ H[m] = Append(G[c], n) /\ kind'[m] = k
  /\ \A x \in used : H[x] = G[x] /\ kind'[x] = kind[x]

\* The other fields.
Linked(c, n, m) ==
  /\ m \in Nodes /\ name'[m] = n /\ parent'[m] = c
  /\ kids'[c] = Append(kids[c], m) /\ kids'[m] = <<>>
  /\ \A x \in used : /\ name'[x] = name[x] /\ parent'[x] = parent[x]
                     /\ x # c => kids'[x] = kids[x]

\* A new leaf: the path of every other node stays.
LEMMA AddNodeKeeps ==
  ASSUME NEW G, NamedTree(G), start \in used, NEW c \in used, kind[c] = "D",
         NEW k \in {"D", "F"}, NEW n \in Label, ~Exists(c, k, n), AddNode(c, k, n)
  PROVE  \E H, m : NamedTree(H)' /\ Added(G, c, k, n, H, m) /\ Linked(c, n, m)
<1>1. PICK m \in Malloc :
        /\ name' = [name EXCEPT ![m] = n]
        /\ kind' = [kind EXCEPT ![m] = k]
        /\ parent' = [parent EXCEPT ![m] = c]
        /\ kids' = [kids EXCEPT ![c] = Append(@, m),
                                ![m] = IF m = c /\ kids[c] = <<>> THEN <<m>> ELSE <<>>]
        /\ used' = used \union {m}
  BY DEF AddNode
<1>a. used' = used \union {m}
  BY <1>1
<1>2. m \in Nodes /\ m \notin used /\ c \in Nodes /\ m # c /\ root \in used /\ m # root
  BY MallocFresh DEF NamedTree, HeapType, IsTree
<1>3. \A x \in used : x \in Nodes /\ x # m
  BY <1>2 DEF NamedTree, HeapType
<1>4. /\ name'[m] = n /\ kind'[m] = k /\ parent'[m] = c
      /\ \A x \in Nodes \ {m} : name'[x] = name[x] /\ kind'[x] = kind[x] /\ parent'[x] = parent[x]
  BY <1>1, <1>2 DEF NamedTree, HeapType
<1>5. /\ kids[c] \in Seq(Nodes) /\ kids'[c] = Append(kids[c], m) /\ kids'[m] = <<>>
      /\ \A x \in Nodes \ {m, c} : kids'[x] = kids[x]
  BY <1>1, <1>2 DEF NamedTree, HeapType
<1>6. PICK H : H = [x \in used \union {m} |-> IF x = m THEN Append(G[c], n) ELSE G[x]]
  OBVIOUS
<1>7. H[m] = Append(G[c], n) /\ \A x \in used : H[x] = G[x]
  BY <1>3, <1>6
<1>8. HeapType'
  <2>1. /\ name' \in [Nodes -> Label] /\ kind' \in [Nodes -> {"D", "F"}]
        /\ parent' \in [Nodes -> Nodes \union {NULL}] /\ used' \subseteq Nodes
    BY <1>1, <1>2 DEF NamedTree, HeapType
  <2>2. kids' \in [Nodes -> Seq(Nodes)]
    <3>1. Append(kids[c], m) \in Seq(Nodes) /\ <<>> \in Seq(Nodes)
      BY <1>2, <1>5
    <3>2. kids' = [kids EXCEPT ![c] = Append(kids[c], m), ![m] = <<>>]
      BY <1>1, <1>2
    <3>3. kids \in [Nodes -> Seq(Nodes)]
      BY DEF NamedTree, HeapType
    <3> QED BY <1>2, <3>1, <3>2, <3>3
  <2> QED BY <2>1, <2>2 DEF HeapType
<1>9. /\ Len(kids[c]) \in Nat /\ DOMAIN kids[c] = 1 .. Len(kids[c])
      /\ DOMAIN kids'[c] = 1 .. Len(kids[c]) + 1 /\ kids'[c][Len(kids[c]) + 1] = m
      /\ \A i \in 1 .. Len(kids[c]) : kids'[c][i] = kids[c][i]
  <2>1. PICK s \in Seq(Nodes), t \in Seq(Nodes) : s = kids[c] /\ t = kids'[c] /\ t = Append(s, m)
    <3>1. kids'[c] \in Seq(Nodes)
      BY <1>2, <1>8 DEF HeapType
    <3> QED BY <1>5, <3>1
  <2>2. /\ Len(s) \in Nat /\ DOMAIN s = 1 .. Len(s) /\ DOMAIN t = 1 .. Len(s) + 1
        /\ t[Len(s) + 1] = m /\ \A i \in 1 .. Len(s) : t[i] = s[i]
    BY <1>2, <2>1
  <2> QED BY <2>1, <2>2
<1>10. IsTree'
  <2>1. root \in used' /\ kind'[root] = "D" /\ parent'[root] = NULL
    BY <1>a, <1>2, <1>3, <1>4 DEF NamedTree, IsTree
  <2>2. ASSUME NEW x \in used' \ {root}
        PROVE  parent'[x] \in used' /\ x \in ToSet(kids'[parent'[x]])
    <3>1. CASE x = m
      <4>1. Len(kids[c]) + 1 \in DOMAIN kids'[c]
        BY <1>9
      <4>2. m \in ToSet(kids'[c])
        BY <1>9, <4>1, InToSet
      <4> QED BY <1>a, <1>4, <3>1, <4>2
    <3>2. CASE x # m
      <4>1. x \in used \ {root} /\ x \in Nodes \ {m} /\ parent'[x] = parent[x]
        BY <1>a, <1>3, <1>4, <3>2
      <4>2. parent[x] \in used /\ x \in ToSet(kids[parent[x]])
        BY <4>1 DEF NamedTree, IsTree
      <4>3. CASE parent[x] = c
        <5>1. PICK i \in 1 .. Len(kids[c]) : x = kids[c][i]
          BY <1>9, <4>2, <4>3 DEF ToSet
        <5>2. i \in DOMAIN kids'[c] /\ kids'[c][i] = x
          BY <1>9, <5>1
        <5>3. x \in ToSet(kids'[c])
          BY <5>2, InToSet
        <5> QED BY <1>a, <4>1, <4>2, <4>3, <5>3
      <4>4. CASE parent[x] # c
        <5>1. kids'[parent[x]] = kids[parent[x]]
          BY <1>3, <1>5, <4>2, <4>4
        <5> QED BY <1>a, <4>1, <4>2, <5>1
      <4> QED BY <4>3, <4>4
    <3> QED BY <3>1, <3>2
  <2>3. ASSUME NEW d \in used'
        PROVE  /\ kind'[d] = "F" => kids'[d] = <<>>
               /\ \A i \in DOMAIN kids'[d] : kids'[d][i] \in used' /\ parent'[kids'[d][i]] = d
               /\ \A i, j \in DOMAIN kids'[d] :
                    kind'[kids'[d][i]] = kind'[kids'[d][j]] /\ name'[kids'[d][i]] = name'[kids'[d][j]]
                      => i = j
    <3>1. CASE d = m
      <4>1. kids'[d] = <<>> /\ DOMAIN <<>> = {}
        BY <1>5, <3>1
      <4> QED BY <4>1
    <3>2. CASE d = c
      <4>1. ASSUME NEW i \in 1 .. Len(kids[c])
            PROVE  /\ kids[c][i] \in used /\ parent[kids[c][i]] = c
                   /\ ~(kind[kids[c][i]] = k /\ name[kids[c][i]] = n)
        <5>1. kids[c][i] \in used /\ parent[kids[c][i]] = c
          BY <1>9 DEF NamedTree, IsTree
        <5>2. ~(kind[kids[c][i]] = k /\ name[kids[c][i]] = n)
          BY <1>5, PositionIs DEF Exists
        <5> QED BY <5>1, <5>2
      <4>2. ASSUME NEW i \in 1 .. Len(kids[c])
            PROVE  /\ kids'[c][i] = kids[c][i] /\ kids'[c][i] \in used' /\ parent'[kids'[c][i]] = c
                   /\ kind'[kids'[c][i]] = kind[kids[c][i]] /\ name'[kids'[c][i]] = name[kids[c][i]]
        <5>1. PICK x \in used : x = kids[c][i] /\ x = kids'[c][i] /\ parent[x] = c
          BY <1>9, <4>1
        <5>2. x \in used' /\ parent'[x] = c /\ kind'[x] = kind[x] /\ name'[x] = name[x]
          BY <1>a, <1>3, <1>4, <5>1
        <5> QED BY <5>1, <5>2
      <4>3. kind'[d] = "D"
        BY <1>3, <1>4, <3>2
      <4>4. ASSUME NEW i \in DOMAIN kids'[d] PROVE kids'[d][i] \in used' /\ parent'[kids'[d][i]] = d
        <5>1. CASE i = Len(kids[c]) + 1
          BY <1>a, <1>4, <1>9, <3>2, <5>1
        <5>2. CASE i # Len(kids[c]) + 1
          BY <1>9, <3>2, <4>2, <5>2
        <5> QED BY <5>1, <5>2
      <4>5. ASSUME NEW i \in DOMAIN kids'[d], NEW j \in DOMAIN kids'[d],
                   kind'[kids'[d][i]] = kind'[kids'[d][j]], name'[kids'[d][i]] = name'[kids'[d][j]]
            PROVE  i = j
        <5>1. i \in 1 .. Len(kids[c]) + 1 /\ j \in 1 .. Len(kids[c]) + 1
          BY <1>9, <3>2
        <5>2. CASE i \in 1 .. Len(kids[c]) /\ j \in 1 .. Len(kids[c])
          <6>1. kind[kids[c][i]] = kind[kids[c][j]] /\ name[kids[c][i]] = name[kids[c][j]]
            BY <3>2, <4>2, <4>5, <5>2
          <6> QED BY <1>9, <5>2, <6>1 DEF NamedTree, IsTree
        <5>3. CASE i \in 1 .. Len(kids[c]) /\ j = Len(kids[c]) + 1
          BY <1>4, <1>9, <3>2, <4>1, <4>2, <4>5, <5>3
        <5>4. CASE j \in 1 .. Len(kids[c]) /\ i = Len(kids[c]) + 1
          BY <1>4, <1>9, <3>2, <4>1, <4>2, <4>5, <5>4
        <5> QED BY <1>9, <5>1, <5>2, <5>3, <5>4
      <4> QED BY <4>3, <4>4, <4>5
    <3>3. CASE d # m /\ d # c
      <4>1. d \in used /\ kids'[d] = kids[d] /\ kind'[d] = kind[d]
        BY <1>a, <1>3, <1>4, <1>5, <3>3
      <4>2. \A i \in DOMAIN kids[d] : kids[d][i] \in used /\ parent[kids[d][i]] = d
        BY <4>1 DEF NamedTree, IsTree
      <4>3. \A i \in DOMAIN kids[d] :
              LET x == kids[d][i] IN
              x \in used' /\ parent'[x] = d /\ kind'[x] = kind[x] /\ name'[x] = name[x]
        BY <1>a, <1>3, <1>4, <4>2
      <4> QED BY <4>1, <4>3 DEF NamedTree, IsTree
    <3> QED BY <3>1, <3>2, <3>3
  <2> QED BY <2>1, <2>2, <2>3 DEF IsTree
<1>11. Naming(H)'
  <2>1. G[c] \in Seq(Label) /\ \A x \in used : G[x] \in Seq(Label)
    BY DEF NamedTree, Naming
  <2>2. H \in [used' -> Seq(Label)]
    <3>1. Append(G[c], n) \in Seq(Label)
      BY <2>1
    <3>2. \A x \in used \union {m} : H[x] \in Seq(Label)
      BY <1>7, <2>1, <3>1
    <3> QED BY <1>1, <1>6, <3>2
  <2>3. H[root] = <<>>
    BY <1>2, <1>7 DEF NamedTree, Naming
  <2>4. ASSUME NEW x \in used' \ {root} PROVE H[x] = Append(H[parent'[x]], name'[x])
    <3>1. CASE x = m
      BY <1>4, <1>7, <3>1
    <3>2. CASE x # m
      <4>1. x \in used \ {root} /\ parent'[x] = parent[x] /\ name'[x] = name[x]
        BY <1>1, <1>3, <1>4, <3>2
      <4>2. parent[x] \in used /\ G[x] = Append(G[parent[x]], name[x])
        BY <4>1 DEF NamedTree, IsTree, Naming
      <4>3. H[x] = G[x] /\ H[parent[x]] = G[parent[x]]
        BY <1>7, <4>1, <4>2
      <4> QED BY <4>1, <4>2, <4>3
    <3> QED BY <3>1, <3>2
  <2> QED BY <2>2, <2>3, <2>4 DEF Naming
<1>12. NamedTree(H)'
  BY <1>8, <1>10, <1>11 DEF NamedTree
<1>13. \A x \in used : H[x] = G[x] /\ kind'[x] = kind[x]
  BY <1>3, <1>4, <1>7
<1>14. Added(G, c, k, n, H, m)
  BY <1>a, <1>2, <1>4, <1>7, <1>13 DEF Added
<1>15. Linked(c, n, m)
  BY <1>2, <1>3, <1>4, <1>5 DEF Linked
<1> QED BY <1>12, <1>14, <1>15

\* The new node is where a walk has been, and it is the only new entry.
LEMMA AddedEntry ==
  ASSUME NEW G, NamedTree(G), Reachable(G), NEW c \in used, NoUpInside(G[c]),
         NEW k, NEW n \in Label, NEW H, NEW m, Added(G, c, k, n, H, m)
  PROVE  /\ Reachable(H)'
         /\ EntriesOf(H)' = EntriesOf(G) \union {[kind |-> k, names |-> Append(G[c], n)]}
<1>0. /\ m \notin used /\ used' = used \union {m}
      /\ H[m] = Append(G[c], n) /\ kind'[m] = k
      /\ \A x \in used : H[x] = G[x] /\ kind'[x] = kind[x]
  BY DEF Added
<1>1. m # root /\ \A x \in used : x # m
  BY <1>0 DEF NamedTree, IsTree
<1>2. Front(Append(G[c], n)) = G[c]
  BY AppendIs DEF NamedTree, Naming
<1>3. Reachable(H)'
  <2>1. ASSUME NEW x \in used' \ {root} PROVE NoUpInside(Front(H[x]))
    <3>1. CASE x = m
      BY <1>0, <1>2, <3>1
    <3>2. CASE x # m
      BY <1>0, <3>2 DEF Reachable
    <3> QED BY <3>1, <3>2
  <2> QED BY <2>1 DEF Reachable
<1>4. used' \ {root} = (used \ {root}) \union {m}
  BY <1>0, <1>1
<1>5. {[kind |-> kind'[x], names |-> H[x]] : x \in used' \ {root}}
        = {[kind |-> kind[x], names |-> G[x]] : x \in used \ {root}}
            \union {[kind |-> k, names |-> Append(G[c], n)]}
  BY <1>0, <1>1, <1>4
<1> QED BY <1>3, <1>5 DEF EntriesOf

\* What Unlink does to a node that is not start.
Removed(c, i, m) ==
  /\ kids' = [kids EXCEPT ![c] = RemoveAt(@, i)]
  /\ name' = [name EXCEPT ![m] = Blank]
  /\ kind' = [kind EXCEPT ![m] = "D"]
  /\ parent' = [parent EXCEPT ![m] = NULL]
  /\ used' = used \ {m}

\* A leaf less: the path of every other node stays.
LEMMA RemovalKeeps ==
  ASSUME NEW G, NamedTree(G), NEW c \in used, NEW i \in 1 .. Len(kids[c]),
         NEW m, m = kids[c][i], kids[m] = <<>>, Removed(c, i, m)
  PROVE  \E H : /\ NamedTree(H)'
                /\ \A x \in used' : H[x] = G[x] /\ kind'[x] = kind[x]
<1> USE DEF Removed
<1>1. /\ m \in used /\ m # root /\ m \in Nodes /\ parent[m] = c /\ c \in Nodes
      /\ used \subseteq Nodes /\ root \in used
  <2>1. m \in used /\ m # root /\ m \in Nodes /\ parent[m] = c
    BY KidIs
  <2>2. used \subseteq Nodes /\ root \in used
    BY DEF NamedTree, HeapType, IsTree
  <2> QED BY <2>1, <2>2
<1>2. m # c
  <2>1. Len(kids[c]) # 0
    OBVIOUS
  <2>2. Len(<<>>) = 0
    OBVIOUS
  <2> QED BY <2>1, <2>2
<1>3. \A x \in Nodes \ {m} : name'[x] = name[x] /\ kind'[x] = kind[x] /\ parent'[x] = parent[x]
  BY DEF NamedTree, HeapType
<1>4. \A x \in used' : x \in used /\ x # m /\ x \in Nodes \ {m}
  BY <1>1
<1>5. kids[c] \in Seq(Nodes) /\ Len(kids[c]) \in Nat /\ DOMAIN kids[c] = 1 .. Len(kids[c])
  BY <1>1 DEF NamedTree, HeapType
<1>6. /\ kids'[c] = RemoveAt(kids[c], i)
      /\ \A x \in Nodes \ {c} : kids'[x] = kids[x]
  BY <1>1 DEF NamedTree, HeapType
<1>7. /\ kids'[c] \in Seq(Nodes) /\ DOMAIN kids'[c] = 1 .. Len(kids[c]) - 1
      /\ \A j \in 1 .. Len(kids[c]) - 1 :
           kids'[c][j] = IF j < i THEN kids[c][j] ELSE kids[c][j + 1]
  <2>1. PICK r \in Seq(Nodes) : r = kids'[c]
    BY <1>5, <1>6, RemoveAtIs
  <2>2. /\ Len(r) = Len(kids[c]) - 1
        /\ \A j \in 1 .. Len(kids[c]) - 1 : r[j] = IF j < i THEN kids[c][j] ELSE kids[c][j + 1]
    <3>1. PICK s \in Seq(Nodes) : s = kids[c]
      BY <1>5
    <3>2. /\ Len(RemoveAt(s, i)) = Len(s) - 1
          /\ \A j \in 1 .. Len(s) - 1 : RemoveAt(s, i)[j] = IF j < i THEN s[j] ELSE s[j + 1]
      BY <3>1, RemoveAtIs
    <3> QED BY <1>6, <2>1, <3>1, <3>2
  <2>3. DOMAIN r = 1 .. Len(r)
    OBVIOUS
  <2> QED BY <2>1, <2>2, <2>3
\* Where the elements of the new list were in the old one.
<1>8. ASSUME NEW j \in DOMAIN kids'[c]
      PROVE  \E a \in 1 .. Len(kids[c]) :
               kids'[c][j] = kids[c][a] /\ a # i /\ a = IF j < i THEN j ELSE j + 1
  <2>1. j \in 1 .. Len(kids[c]) - 1
    BY <1>7
  <2>2. PICK a : a = IF j < i THEN j ELSE j + 1
    OBVIOUS
  <2>3. a \in 1 .. Len(kids[c]) /\ a # i
    BY <1>5, <2>1, <2>2
  <2>4. kids'[c][j] = kids[c][a]
    BY <1>7, <2>1, <2>2, Zenon
  <2> QED BY <2>2, <2>3, <2>4
<1>9. \A a, b \in 1 .. Len(kids[c]) :
        kind[kids[c][a]] = kind[kids[c][b]] /\ name[kids[c][a]] = name[kids[c][b]] => a = b
  BY <1>5 DEF NamedTree, IsTree
<1>10. ASSUME NEW a \in 1 .. Len(kids[c]), a # i
       PROVE  /\ kids[c][a] \in used' /\ parent'[kids[c][a]] = c
              /\ kind'[kids[c][a]] = kind[kids[c][a]] /\ name'[kids[c][a]] = name[kids[c][a]]
  <2>1. kids[c][a] # m
    BY <1>9, <1>10
  <2>2. kids[c][a] \in used /\ parent[kids[c][a]] = c
    BY <1>5 DEF NamedTree, IsTree
  <2>3. kids[c][a] \in used' /\ kids[c][a] \in Nodes \ {m}
    BY <1>1, <2>1, <2>2
  <2> QED BY <1>3, <2>2, <2>3
<1>11. PICK H : H = [x \in used \ {m} |-> G[x]]
  OBVIOUS
<1>12. \A x \in used' : H[x] = G[x]
  BY <1>11
<1>13. HeapType'
  <2>1. /\ name' \in [Nodes -> Label] /\ kind' \in [Nodes -> {"D", "F"}]
        /\ parent' \in [Nodes -> Nodes \union {NULL}] /\ used' \subseteq Nodes
    BY <1>1 DEF NamedTree, HeapType, Label
  <2>2. kids' \in [Nodes -> Seq(Nodes)]
    <3>1. kids' = [kids EXCEPT ![c] = RemoveAt(kids[c], i)]
      OBVIOUS
    <3>2. kids \in [Nodes -> Seq(Nodes)] /\ RemoveAt(kids[c], i) \in Seq(Nodes)
      BY <1>6, <1>7 DEF NamedTree, HeapType
    <3> QED BY <1>1, <3>1, <3>2
  <2> QED BY <2>1, <2>2 DEF HeapType
<1>14. IsTree'
  <2>1. root \in used' /\ kind'[root] = "D" /\ parent'[root] = NULL
    BY <1>1, <1>3 DEF NamedTree, IsTree
  <2>2. ASSUME NEW x \in used' \ {root}
        PROVE  parent'[x] \in used' /\ x \in ToSet(kids'[parent'[x]])
    <3>1. x \in used \ {root} /\ x # m /\ parent'[x] = parent[x]
      BY <1>3, <1>4
    <3>2. parent[x] \in used /\ x \in ToSet(kids[parent[x]])
      BY <3>1 DEF NamedTree, IsTree
    <3>3. parent[x] # m
      <4>1. ToSet(<<>>) = {}
        BY DEF ToSet
      <4> QED BY <3>2, <4>1
    <3>4. CASE parent[x] = c
      <4>1. PICK a \in 1 .. Len(kids[c]) : x = kids[c][a]
        BY <1>5, <3>2, <3>4 DEF ToSet
      <4>2. a # i
        BY <3>1, <4>1
      <4>3. PICK j \in 1 .. Len(kids[c]) - 1 : a = IF j < i THEN j ELSE j + 1
        <5>1. CASE a < i
          BY <1>5, <5>1
        <5>2. CASE a > i
          <6>1. a - 1 \in 1 .. Len(kids[c]) - 1 /\ ~(a - 1 < i) /\ a = (a - 1) + 1
            BY <1>5, <5>2
          <6> QED BY <6>1
        <5> QED BY <1>5, <4>2, <5>1, <5>2
      <4>4. kids'[c][j] = x /\ j \in DOMAIN kids'[c]
        BY <1>5, <1>7, <4>1, <4>3
      <4>5. x \in ToSet(kids'[c])
        BY <4>4, InToSet
      <4> QED BY <3>1, <3>2, <3>3, <3>4, <4>5
    <3>5. CASE parent[x] # c
      <4>1. kids'[parent[x]] = kids[parent[x]]
        BY <1>1, <1>6, <3>2, <3>5
      <4> QED BY <3>1, <3>2, <3>3, <4>1
    <3> QED BY <3>4, <3>5
  <2>3. ASSUME NEW d \in used'
        PROVE  /\ kind'[d] = "F" => kids'[d] = <<>>
               /\ \A j \in DOMAIN kids'[d] : kids'[d][j] \in used' /\ parent'[kids'[d][j]] = d
               /\ \A j, k \in DOMAIN kids'[d] :
                    kind'[kids'[d][j]] = kind'[kids'[d][k]] /\ name'[kids'[d][j]] = name'[kids'[d][k]]
                      => j = k
    <3>1. d \in used /\ d \in Nodes \ {m} /\ kind'[d] = kind[d]
      BY <1>3, <1>4
    <3>2. CASE d = c
      <4>1. kind'[d] # "F"
        <5>1. kids[c] # <<>>
          BY <1>5
        <5> QED BY <3>1, <3>2, <5>1 DEF NamedTree, IsTree
      <4>2. ASSUME NEW j \in DOMAIN kids'[d] PROVE kids'[d][j] \in used' /\ parent'[kids'[d][j]] = d
        <5>1. PICK a \in 1 .. Len(kids[c]) : kids'[c][j] = kids[c][a] /\ a # i
          BY <1>8, <3>2
        <5> QED BY <1>10, <3>2, <5>1
      <4>3. ASSUME NEW j \in DOMAIN kids'[d], NEW k \in DOMAIN kids'[d],
                   kind'[kids'[d][j]] = kind'[kids'[d][k]], name'[kids'[d][j]] = name'[kids'[d][k]]
            PROVE  j = k
        <5>1. PICK a \in 1 .. Len(kids[c]) :
                kids'[c][j] = kids[c][a] /\ a # i /\ a = IF j < i THEN j ELSE j + 1
          BY <1>8, <3>2
        <5>2. PICK b \in 1 .. Len(kids[c]) :
                kids'[c][k] = kids[c][b] /\ b # i /\ b = IF k < i THEN k ELSE k + 1
          BY <1>8, <3>2
        <5>3. kind[kids[c][a]] = kind[kids[c][b]] /\ name[kids[c][a]] = name[kids[c][b]]
          BY <1>10, <3>2, <4>3, <5>1, <5>2
        <5>4. a = b
          BY <1>9, <5>3
        <5>5. j \in Nat /\ k \in Nat /\ i \in Nat
          BY <1>5, <1>7, <3>2
        <5> QED BY <5>1, <5>2, <5>4, <5>5
      <4> QED BY <4>1, <4>2, <4>3
    <3>3. CASE d # c
      <4>1. kids'[d] = kids[d]
        BY <1>6, <3>1, <3>3
      <4>2. \A j \in DOMAIN kids[d] : kids[d][j] \in used /\ parent[kids[d][j]] = d
        BY <3>1 DEF NamedTree, IsTree
      <4>3. \A j \in DOMAIN kids[d] :
              LET x == kids[d][j] IN
              x \in used' /\ parent'[x] = d /\ kind'[x] = kind[x] /\ name'[x] = name[x]
        <5>1. ASSUME NEW j \in DOMAIN kids[d], NEW x, x = kids[d][j]
              PROVE  x \in used' /\ parent'[x] = d /\ kind'[x] = kind[x] /\ name'[x] = name[x]
          <6>1. x \in used /\ parent[x] = d /\ x # m
            BY <1>1, <3>3, <4>2, <5>1
          <6>2. x \in used' /\ x \in Nodes \ {m}
            BY <1>1, <6>1
          <6> QED BY <1>3, <6>1, <6>2
        <5> QED BY <5>1
      <4> QED BY <3>1, <4>1, <4>3 DEF NamedTree, IsTree
    <3> QED BY <3>2, <3>3
  <2> QED BY <2>1, <2>2, <2>3 DEF IsTree
<1>15. Naming(H)'
  <2>1. H \in [used' -> Seq(Label)]
    <3>1. \A x \in used' : H[x] \in Seq(Label)
      BY <1>4, <1>12 DEF NamedTree, Naming
    <3> QED BY <1>11, <3>1
  <2>2. H[root] = <<>>
    BY <1>1, <1>12 DEF NamedTree, Naming
  <2>3. ASSUME NEW x \in used' \ {root} PROVE H[x] = Append(H[parent'[x]], name'[x])
    <3>1. x \in used \ {root} /\ parent'[x] = parent[x] /\ name'[x] = name[x]
      BY <1>3, <1>4
    <3>2. G[x] = Append(G[parent[x]], name[x])
      BY <3>1 DEF NamedTree, Naming
    <3>3. parent'[x] \in used'
      BY <1>14 DEF IsTree
    <3> QED BY <1>12, <3>1, <3>2, <3>3
  <2> QED BY <2>1, <2>2, <2>3 DEF Naming
<1>16. NamedTree(H)'
  BY <1>13, <1>14, <1>15 DEF NamedTree
<1> QED BY <1>3, <1>4, <1>12, <1>16

\* A new root.
LEMMA InitializeMakes ==
  ASSUME Initialize
  PROVE  \E H : NamedTree(H)' /\ H[root] = <<>> /\ start' = root /\ used' = {root}
                /\ kind'[root] = "D"
<1>1. root \in Nodes
  BY BlocksAssumption DEF root, Nodes
<1>2. PICK H : H = [x \in {root} |-> <<>>]
  OBVIOUS
<1>3. HeapType'
  BY <1>1 DEF Initialize, HeapType, Label, NULL
<1>4. kids'[root] = <<>> /\ kind'[root] = "D" /\ parent'[root] = NULL /\ used' = {root} /\ start' = root
  BY <1>1 DEF Initialize
<1>5. DOMAIN <<>> = {}
  OBVIOUS
<1>6. IsTree'
  BY <1>4, <1>5 DEF IsTree
<1>7. H[root] = <<>> /\ <<>> \in Seq(Label)
  BY <1>2
<1>8. Naming(H)'
  <2>1. H \in [{root} -> Seq(Label)]
    BY <1>2, <1>7
  <2> QED BY <1>4, <1>7, <2>1 DEF Naming
<1> QED BY <1>3, <1>4, <1>6, <1>7, <1>8 DEF NamedTree

-----------------------------------------------------------------------------
(***************************************************************************)
(* A new node at the end of its list, in directories that are at the end   *)
(* of theirs, is one more line at the end of what saveTree() writes.       *)
(***************************************************************************)

\* The two have the same n first elements.
OneMore(tt, ss, n) == \A i \in 1 .. n : tt[i] = ss[i]

\* A concatenation of many is that of all but the last, and the last.
LEMMA FlattenSplit ==
  ASSUME NEW S, NEW n \in Nat, NEW ss \in [1 .. n -> Seq(S)], NEW tt \in [1 .. n + 1 -> Seq(S)],
         OneMore(tt, ss, n)
  PROVE  FlattenSeq(tt) = FlattenSeq(ss) \o tt[n + 1]
<1> USE DEF OneMore
<1>1. PICK N : N = n + 1 /\ N \in Nat \ {0} /\ N \in 1 .. N /\ tt \in [1 .. N -> Seq(S)] /\ N - 1 = n
  <2>1. n + 1 \in Nat \ {0} /\ n + 1 \in 1 .. n + 1 /\ tt \in [1 .. n + 1 -> Seq(S)] /\ (n + 1) - 1 = n
    OBVIOUS
  <2> QED BY <2>1
<1>2. PICK f : IsFlat(f, tt, N) /\ FlattenSeq(tt) = f[N]
  <2>1. N \in Nat \ {0} /\ tt \in [1 .. N -> Seq(S)]
    BY <1>1
  <2> QED BY ONLY <2>1, FlattenWalks
<1>3. \A i \in 1 .. N : f[i] = IF i = 1 THEN tt[i] ELSE f[i-1] \o tt[i]
  BY <1>2 DEF IsFlat
<1>4. tt[N] \in Seq(S)
  BY <1>1
<1>5. CASE n = 0
  <2>1. ss \in Seq(Seq(S)) /\ Len(ss) = 0
    BY <1>5
  <2>2. FlattenSeq(ss) = <<>>
    BY <2>1 DEF FlattenSeq
  <2>3. f[N] = tt[N]
    BY <1>1, <1>3, <1>5
  <2>4. <<>> \o tt[N] = tt[N]
    BY <1>4, ConcatEmptySeq
  <2> QED BY <1>1, <1>2, <2>2, <2>3, <2>4
<1>6. CASE n # 0
  <2>1. PICK g : IsFlat(g, ss, n) /\ FlattenSeq(ss) = g[n]
    BY <1>6, FlattenWalks
  <2>2. \A i \in 1 .. n : g[i] = IF i = 1 THEN ss[i] ELSE g[i-1] \o ss[i]
    BY <2>1 DEF IsFlat
  <2> DEFINE T == {i \in Nat : i \in 1 .. n => f[i] = g[i]}
  <2>3. 0 \in T
    OBVIOUS
  <2>4. ASSUME NEW i \in Nat, i \in T PROVE i + 1 \in T
    <3>1. SUFFICES ASSUME i + 1 \in 1 .. n PROVE f[i + 1] = g[i + 1]
      OBVIOUS
    <3>2. PICK h : h = i + 1 /\ h \in 1 .. n /\ h \in 1 .. N /\ h - 1 = i /\ (h # 1 => i \in 1 .. n)
      BY <1>1, <3>1
    <3>3. f[h] = IF h = 1 THEN tt[h] ELSE f[i] \o tt[h]
      BY <1>3, <3>2
    <3>4. g[h] = IF h = 1 THEN ss[h] ELSE g[i] \o ss[h]
      BY <2>2, <3>2
    <3>5. tt[h] = ss[h] /\ (h # 1 => f[i] = g[i])
      BY <2>4, <3>2
    <3>6. f[h] = g[h]
      BY <3>3, <3>4, <3>5
    <3> QED BY <3>2, <3>6
  <2>5. n \in T
    <3> HIDE DEF T
    <3> QED BY <2>3, <2>4, NaturalsIn
  <2>6. f[n] = g[n] /\ N # 1
    BY <1>1, <1>6, <2>5
  <2>7. f[N] = f[n] \o tt[N]
    BY <1>1, <1>3, <2>6
  <2> QED BY <1>1, <1>2, <2>1, <2>6, <2>7
<1> QED BY <1>5, <1>6

\* One more element at the end of two sequences.
LEMMA ConcatMore ==
  ASSUME NEW S, NEW a \in Seq(S), NEW b \in Seq(S), NEW e \in S
  PROVE  (a \o b) \o <<e>> = a \o (b \o <<e>>)
<1>1. <<e>> \in Seq(S)
  OBVIOUS
<1> QED BY <1>1, ConcatAssociative

\* They differ in the last, which has one more line.
LastGrows(S, n, ss, tt, e) ==
  /\ n \in Nat /\ e \in S /\ ss \in [1 .. n + 1 -> Seq(S)] /\ tt \in [1 .. n + 1 -> Seq(S)]
  /\ OneMore(tt, ss, n) /\ tt[n + 1] = ss[n + 1] \o <<e>>

\* A line more at the end of the last is one more at the end.
LEMMA FlattenGrows ==
  ASSUME NEW S, NEW n, NEW ss, NEW tt, NEW e, LastGrows(S, n, ss, tt, e)
  PROVE  FlattenSeq(tt) = FlattenSeq(ss) \o <<e>>
<1>a. n \in Nat /\ e \in S
  BY DEF LastGrows
<1>0. /\ ss \in [1 .. n + 1 -> Seq(S)] /\ tt \in [1 .. n + 1 -> Seq(S)]
      /\ OneMore(tt, ss, n) /\ tt[n + 1] = ss[n + 1] \o <<e>>
  BY DEF LastGrows
<1>1. PICK a : a \in [1 .. n -> Seq(S)] /\ \A i \in 1 .. n : a[i] = ss[i]
  <2>1. PICK b : b = [i \in 1 .. n |-> ss[i]]
    BY <1>a
  <2>2. b \in [1 .. n -> Seq(S)]
    BY <1>a, <1>0, <2>1
  <2>3. \A i \in 1 .. n : b[i] = ss[i]
    BY <1>a, <2>1
  <2> QED BY <2>2, <2>3
<1>2. PICK x \in Seq(S) : x = ss[n + 1]
  <2>1. n + 1 \in 1 .. n + 1
    BY <1>a
  <2> QED BY <1>a, <1>0, <2>1
<1>3. PICK y \in Seq(S) : y = FlattenSeq(a)
  BY <1>a, <1>1, FlattenType
<1>4. FlattenSeq(ss) = FlattenSeq(a) \o ss[n + 1]
  <2>1. OneMore(ss, a, n)
    BY <1>a, <1>0, <1>1 DEF OneMore
  <2> QED BY <1>a, <1>0, <1>1, <2>1, FlattenSplit
<1>5. FlattenSeq(tt) = FlattenSeq(a) \o tt[n + 1]
  <2>1. OneMore(tt, a, n)
    BY <1>a, <1>0, <1>1 DEF OneMore
  <2> QED BY <1>a, <1>0, <1>1, <2>1, FlattenSplit
<1>6. (y \o x) \o <<e>> = y \o (x \o <<e>>)
  BY <1>a, ConcatMore
<1> QED BY <1>a, <1>0, <1>2, <1>3, <1>4, <1>5, <1>6

\* A line more below a node.
LEMMA UnderGrows ==
  ASSUME NEW n \in Label, NEW lines \in Seq(LineType), NEW e \in LineType
  PROVE  Under(n, lines \o <<e>>) = Under(n, lines) \o <<[kind |-> e.kind, names |-> <<n>> \o e.names]>>
<1>1. <<e>> \in Seq(LineType) /\ Len(<<e>>) = 1 /\ <<e>>[1] = e
  OBVIOUS
<1>2. PICK all \in Seq(LineType) :
        /\ all = lines \o <<e>> /\ Len(all) = Len(lines) + 1
        /\ \A i \in 1 .. Len(lines) + 1 : all[i] = IF i <= Len(lines) THEN lines[i] ELSE <<e>>[i - Len(lines)]
  <2>1. /\ lines \o <<e>> \in Seq(LineType) /\ Len(lines \o <<e>>) = Len(lines) + 1
        /\ \A i \in 1 .. Len(lines) + 1 :
             (lines \o <<e>>)[i] = IF i <= Len(lines) THEN lines[i] ELSE <<e>>[i - Len(lines)]
    BY <1>1, ConcatProperties
  <2> QED BY <2>1
<1>3. PICK u \in Seq(LineType) :
        /\ u = Under(n, all) /\ Len(u) = Len(all)
        /\ \A i \in 1 .. Len(all) : u[i] = [kind |-> all[i].kind, names |-> <<n>> \o all[i].names]
  BY UnderIs
<1>4. PICK v \in Seq(LineType) :
        /\ v = Under(n, lines) /\ Len(v) = Len(lines)
        /\ \A i \in 1 .. Len(lines) : v[i] = [kind |-> lines[i].kind, names |-> <<n>> \o lines[i].names]
  BY UnderIs
<1>5. PICK l \in LineType : l = [kind |-> e.kind, names |-> <<n>> \o e.names]
  <2>1. e.kind \in {"D", "F"} /\ e.names \in Seq(Label)
    BY DEF LineType
  <2>2. <<n>> \in Seq(Label) /\ Len(<<n>>) = 1
    OBVIOUS
  <2>3. <<n>> \o e.names \in Seq(Label) /\ Len(<<n>> \o e.names) = 1 + Len(e.names) /\ Len(e.names) \in Nat
    BY <2>1, <2>2, ConcatProperties
  <2>4. Len(<<n>> \o e.names) # Len(<<>>)
    BY <2>3
  <2>5. <<n>> \o e.names # <<>>
    BY <2>4
  <2> QED BY <2>1, <2>3, <2>5 DEF LineType
<1>6. <<l>> \in Seq(LineType) /\ Len(<<l>>) = 1 /\ <<l>>[1] = l
  OBVIOUS
<1>7. /\ v \o <<l>> \in Seq(LineType) /\ Len(v \o <<l>>) = Len(v) + 1
      /\ \A i \in 1 .. Len(v) + 1 : (v \o <<l>>)[i] = IF i <= Len(v) THEN v[i] ELSE <<l>>[i - Len(v)]
  BY <1>6, ConcatProperties
<1>8. Len(lines) \in Nat
  OBVIOUS
<1>9. ASSUME NEW i \in 1 .. Len(u) PROVE u[i] = (v \o <<l>>)[i]
  <2>0. i \in 1 .. Len(lines) + 1 /\ i \in 1 .. Len(all) /\ i \in 1 .. Len(v) + 1
    BY <1>2, <1>3, <1>4
  <2>1. CASE i <= Len(lines)
    <3>1. all[i] = lines[i] /\ i \in 1 .. Len(lines) /\ i <= Len(v)
      BY <1>2, <1>4, <1>8, <2>0, <2>1
    <3>2. u[i] = [kind |-> lines[i].kind, names |-> <<n>> \o lines[i].names]
      BY <1>3, <2>0, <3>1
    <3>3. (v \o <<l>>)[i] = v[i]
      BY <1>7, <2>0, <3>1
    <3> QED BY <1>4, <3>1, <3>2, <3>3
  <2>2. CASE ~(i <= Len(lines))
    <3>1. i - Len(lines) = 1 /\ ~(i <= Len(v)) /\ i - Len(v) = 1
      BY <1>4, <1>8, <2>0, <2>2
    <3>2. all[i] = e
      BY <1>1, <1>2, <2>0, <2>2, <3>1
    <3>3. u[i] = l
      BY <1>3, <1>5, <2>0, <3>2
    <3>4. (v \o <<l>>)[i] = l
      BY <1>6, <1>7, <2>0, <3>1
    <3> QED BY <3>3, <3>4
  <2> QED BY <2>1, <2>2
<1>10. Len(u) = Len(v \o <<l>>)
  BY <1>2, <1>3, <1>4, <1>7
<1>11. u = v \o <<l>>
  BY <1>7, <1>9, <1>10, SeqEqual
<1> QED BY <1>2, <1>3, <1>4, <1>5, <1>11

\* The node x is what it was.
SameNode(x) == name'[x] = name[x] /\ kind'[x] = kind[x]

\* What saveTree() writes after a step.
NewSubtree(x, below) ==
  <<[kind |-> kind'[x], names |-> <<name'[x]>>]>> \o Under(name'[x], below[x])
NewListing(x, below) == FlattenSeq([i \in DOMAIN kids'[x] |-> NewSubtree(kids'[x][i], below)])

\* What is written of a node is the same if it is the same below it.
LEMMA SubtreeSame ==
  ASSUME NEW x, SameNode(x), NEW old, NEW new, new[x] = old[x]
  PROVE  NewSubtree(x, new) = Subtree(x, old)
BY DEF Subtree, NewSubtree, SameNode

\* A line more below it is a line more.
LEMMA SubtreeGrows ==
  ASSUME HeapType, NEW x \in Nodes, SameNode(x), NEW old, NEW new, old[x] \in Seq(LineType),
         NEW e \in LineType, new[x] = old[x] \o <<e>>
  PROVE  NewSubtree(x, new) = Subtree(x, old) \o <<[kind |-> e.kind, names |-> <<name[x]>> \o e.names]>>
<1>1. PICK l \in LineType, u \in Seq(LineType) :
        /\ l = [kind |-> kind[x], names |-> <<name[x]>>] /\ u = Under(name[x], old[x])
        /\ Subtree(x, old) = <<l>> \o u /\ name[x] \in Label
  BY SubtreeIs
<1>2. PICK f : f = [kind |-> e.kind, names |-> <<name[x]>> \o e.names]
  OBVIOUS
<1>3. f \in LineType
  <2>1. PICK a \in Label : a = name[x]
    BY <1>1
  <2>2. e.kind \in {"D", "F"} /\ e.names \in Seq(Label)
    BY DEF LineType
  <2>3. <<a>> \o e.names \in Seq(Label) /\ Len(<<a>> \o e.names) # 0
    BY <2>2
  <2>4. <<a>> \o e.names # <<>>
    BY <2>3
  <2> QED BY <1>2, <2>1, <2>2, <2>3, <2>4 DEF LineType
<1>4. Under(name[x], old[x] \o <<e>>) = u \o <<f>>
  BY <1>1, <1>2, UnderGrows
<1>5. NewSubtree(x, new) = <<l>> \o (u \o <<f>>)
  <2>1. NewSubtree(x, new) = <<[kind |-> kind'[x], names |-> <<name'[x]>>]>> \o Under(name'[x], new[x])
    BY DEF NewSubtree
  <2> QED BY <1>1, <1>4, <2>1 DEF SameNode
<1>6. <<l>> \in Seq(LineType)
  OBVIOUS
<1>7. (<<l>> \o u) \o <<f>> = <<l>> \o (u \o <<f>>)
  BY <1>3, <1>6, ConcatMore
<1> QED BY <1>1, <1>2, <1>5, <1>7

\* A new node is one line.
LEMMA SubtreeNew ==
  ASSUME NEW m, NEW k \in {"D", "F"}, NEW n \in Label, name'[m] = n, kind'[m] = k, NEW new, new[m] = <<>>
  PROVE  NewSubtree(m, new) = <<[kind |-> k, names |-> <<n>>]>>
<1>1. Under(n, <<>>) = <<>>
  BY DEF Under
<1>2. [kind |-> k, names |-> <<n>>] \in LineType
  BY DEF LineType
<1>3. <<[kind |-> k, names |-> <<n>>]>> \in Seq(LineType)
  BY <1>2
<1>4. <<[kind |-> k, names |-> <<n>>]>> \o <<>> = <<[kind |-> k, names |-> <<n>>]>>
  BY <1>3, ConcatEmptySeq
<1>5. NewSubtree(m, new) = <<[kind |-> k, names |-> <<n>>]>> \o Under(n, <<>>)
  BY DEF NewSubtree
<1> QED BY <1>1, <1>4, <1>5

\* What is written of the nodes in the list of x.
Parts(x, below) == [i \in DOMAIN kids[x] |-> Subtree(kids[x][i], below)]

\* They are lines.
LEMMA PartsType ==
  ASSUME HeapType, NEW x \in Nodes, NEW below, \A y \in Nodes : below[y] \in Seq(LineType)
  PROVE  /\ Parts(x, below) \in [1 .. Len(kids[x]) -> Seq(LineType)] /\ Len(kids[x]) \in Nat
         /\ \A i \in 1 .. Len(kids[x]) : Parts(x, below)[i] = Subtree(kids[x][i], below)
         /\ Listing(x, below) = FlattenSeq(Parts(x, below))
<1>1. kids[x] \in Seq(Nodes) /\ Len(kids[x]) \in Nat /\ DOMAIN kids[x] = 1 .. Len(kids[x])
  BY DEF HeapType
<1>2. ASSUME NEW i \in 1 .. Len(kids[x]) PROVE Subtree(kids[x][i], below) \in Seq(LineType)
  <2>1. kids[x][i] \in Nodes
    BY <1>1
  <2> QED BY <2>1, SubtreeType
<1>3. Parts(x, below) \in [1 .. Len(kids[x]) -> Seq(LineType)]
  BY <1>1, <1>2 DEF Parts
<1>4. \A i \in 1 .. Len(kids[x]) : Parts(x, below)[i] = Subtree(kids[x][i], below)
  BY <1>1 DEF Parts
<1> QED BY <1>1, <1>3, <1>4 DEF Listing, Parts

\* The names t lead from the directory x to c.
Over(G, x, c, t) == kind[x] = "D" /\ t \in Seq(Label) /\ G[c] = G[x] \o t

\* No names lead only from c to c.
LEMMA OverItself ==
  ASSUME NEW G, NamedTree(G), NEW c \in used, kind[c] = "D", NEW x \in used, Over(G, x, c, <<>>)
  PROVE  x = c
<1>1. G[x] \in Seq(Label)
  BY DEF NamedTree, Naming
<1>2. G[c] = G[x]
  BY <1>1, ConcatEmptySeq DEF Over
<1> QED BY <1>2, PathsDiffer DEF Over

\* Where the way to c goes through a list, it goes through its last node.
LEMMA OverKid ==
  ASSUME NEW G, NamedTree(G), NEW c \in used, kind[c] = "D", AtEnd(G, c),
         NEW x \in used, NEW i \in 1 .. Len(kids[x]), NEW t, Over(G, kids[x][i], c, t)
  PROVE  i = Len(kids[x]) /\ \E s : Over(G, x, c, s)
<1>1. PICK y \in used : y = kids[x][i] /\ y # root /\ parent[y] = x /\ G[y] = Append(G[x], name[y])
  BY KidIs
<1>2. kind[x] = "D" /\ G[x] \in Seq(Label) /\ name[y] \in Label /\ G[y] \in Seq(Label)
  BY <1>1, ParentIs
<1>3. t \in Seq(Label) /\ G[c] = G[y] \o t /\ kind[y] = "D"
  BY <1>1 DEF Over
<1>4. Over(G, x, c, <<name[y]>> \o t)
  <2>1. Append(G[x], name[y]) \o t = G[x] \o (<<name[y]>> \o t)
    <3>1. PICK g \in Seq(Label) : g = G[x]
      BY <1>2
    <3>2. PICK a \in Label : a = name[y]
      BY <1>2
    <3>3. Append(g, a) \o t = g \o (<<a>> \o t)
      BY <1>3, AppendConcat
    <3> QED BY <3>1, <3>2, <3>3
  <2>2. <<name[y]>> \o t \in Seq(Label)
    BY <1>2, <1>3
  <2> QED BY <1>1, <1>2, <1>3, <2>1, <2>2 DEF Over
<1>5. y = c \/ IsStrictPrefix(G[y], G[c])
  <2>1. CASE t = <<>>
    BY <1>1, <2>1, OverItself
  <2>2. CASE t # <<>>
    BY <1>2, <1>3, <2>2, PrefixMakes
  <2> QED BY <2>1, <2>2
<1>6. Last(kids[x]) = y
  BY <1>1, <1>3, <1>5 DEF AtEnd
<1>7. kids[x] \in Seq(Nodes) /\ Len(kids[x]) \in Nat /\ DOMAIN kids[x] = 1 .. Len(kids[x])
  BY DEF NamedTree, HeapType
<1>8. Len(kids[x]) \in 1 .. Len(kids[x]) /\ kids[x][Len(kids[x])] = kids[x][i]
  BY <1>1, <1>6, <1>7 DEF Last
<1>9. i = Len(kids[x])
  BY <1>7, <1>8 DEF NamedTree, IsTree
<1> QED BY <1>4, <1>9

\* The first of the names leads to the last node of the list.
LEMMA OverStep ==
  ASSUME NEW G, NamedTree(G), NEW c \in used, kind[c] = "D", AtEnd(G, c),
         NEW x \in used, NEW t, Over(G, x, c, t), t # <<>>
  PROVE  LET L == Len(kids[x]) IN
         /\ L \in 1 .. L /\ Over(G, kids[x][L], c, Tail(t)) /\ name[kids[x][L]] = Head(t)
<1>1. t \in Seq(Label) /\ Below(G, c, G[x], t) /\ kind[x] = "D"
  BY DEF Over, Below
<1>2. PICK i \in 1 .. Len(kids[x]) : StepTo(G, kids[x][i], c, t)
  BY <1>1, FirstStep
<1>3. PICK y \in used : y = kids[x][i]
  BY KidIs
<1>4. Tail(t) \in Seq(Label) /\ t = <<Head(t)>> \o Tail(t) /\ Len(t) = 1 + Len(Tail(t))
  BY <1>1, HeadTailIs
<1>5. Over(G, y, c, Tail(t)) /\ name[y] = Head(t)
  <2>1. CASE y = c /\ t = <<Head(t)>>
    <3>1. Len(Tail(t)) = 0
      <4>1. PICK h, s : h = Head(t) /\ s = Tail(t)
        OBVIOUS
      <4>2. t = <<h>> /\ Len(<<h>>) = 1
        BY <2>1, <4>1
      <4>3. Len(t) = 1
        BY ONLY <4>2, Zenon
      <4>4. s \in Seq(Label) /\ 1 = 1 + Len(s)
        BY <1>4, <4>1, <4>3
      <4>5. Len(s) \in Nat
        BY <4>4
      <4>6. Len(s) = 0
        BY ONLY <4>4, <4>5
      <4> QED BY <4>1, <4>6
    <3>2. Tail(t) = <<>>
      BY <1>4, <3>1, EmptySeq
    <3>3. G[c] \in Seq(Label)
      BY DEF NamedTree, Naming
    <3>4. G[c] = G[y] \o <<>>
      BY <2>1, <3>3, ConcatEmptySeq
    <3> QED BY <1>2, <1>3, <1>4, <2>1, <3>2, <3>4 DEF StepTo, Over
  <2>2. CASE kind[y] = "D" /\ Tail(t) # <<>> /\ G[c] = G[y] \o Tail(t)
    BY <1>2, <1>3, <1>4, <2>2 DEF StepTo, Over
  <2> QED BY <1>2, <1>3, <2>1, <2>2 DEF StepTo
<1>6. i = Len(kids[x])
  <2>1. Over(G, kids[x][i], c, Tail(t))
    BY <1>3, <1>5
  <2> QED BY <2>1, OverKid
<1> QED BY <1>3, <1>5, <1>6

\* The listing a of x, as deep as d, has become b by the line of a new node of
\* kind k and name n in c.
Grown(G, c, k, n, x, d, a, b) ==
  /\ (\A t : ~Over(G, x, c, t)) => b = a
  /\ \A t : Over(G, x, c, t) /\ Len(t) < d => b = a \o <<[kind |-> k, names |-> Append(t, n)]>>

\* The listings old, as deep as d, have become new.
AllGrown(G, c, k, n, m, d, old, new) ==
  /\ \A y \in Nodes : old[y] \in Seq(LineType)
  /\ \A y \in used : Grown(G, c, k, n, y, d, old[y], new[y])
  /\ new[m] = <<>>

\* c is not below itself.
LEMMA NotOverKid ==
  ASSUME NEW G, NamedTree(G), NEW c \in used, NEW i \in 1 .. Len(kids[c]), NEW t
  PROVE  ~Over(G, kids[c][i], c, t)
<1>1. SUFFICES ASSUME Over(G, kids[c][i], c, t) PROVE FALSE
  OBVIOUS
<1>2. PICK y \in used : y = kids[c][i] /\ y # root /\ parent[y] = c
  BY KidIs
<1>3. G[c] \in Seq(Label) /\ G[y] \in Seq(Label) /\ Len(G[y]) = Len(G[c]) + 1
  BY <1>2, ParentIs
<1>4. t \in Seq(Label) /\ G[c] = G[y] \o t
  BY <1>1, <1>2 DEF Over
<1>5. Len(G[c]) = Len(G[y]) + Len(t)
  BY <1>3, <1>4
<1>6. Len(G[c]) \in Nat /\ Len(t) \in Nat
  BY <1>3, <1>4
<1> QED BY <1>3, <1>5, <1>6

\* The nodes that were there keep their names and kinds.
LEMMA AddedSame ==
  ASSUME NEW G, NEW c, NEW k, NEW n, NEW H, NEW m, Added(G, c, k, n, H, m), Linked(c, n, m), NEW x \in used
  PROVE  SameNode(x)
BY DEF Added, Linked, SameNode

\* A kid that is not on the way to c is written as before.
LEMMA PartSame ==
  ASSUME NEW G, NamedTree(G), NEW c \in used, NEW k, NEW n, NEW H, NEW m,
         Added(G, c, k, n, H, m), Linked(c, n, m), NEW d, NEW old, NEW new,
         AllGrown(G, c, k, n, m, d, old, new), NEW x \in used, NEW i \in 1 .. Len(kids[x]),
         \A t : ~Over(G, kids[x][i], c, t)
  PROVE  NewSubtree(kids[x][i], new) = Subtree(kids[x][i], old)
<1>1. PICK y \in used : y = kids[x][i]
  BY KidIs
<1>2. \A t : ~Over(G, y, c, t)
  BY <1>1
<1>3. new[y] = old[y]
  BY <1>2 DEF AllGrown, Grown
<1>4. SameNode(y)
  BY AddedSame
<1> QED BY <1>1, <1>3, <1>4, SubtreeSame

\* So is all of a list that is not on the way.
LEMMA GrowAway ==
  ASSUME NEW G, NamedTree(G), NEW c \in used, kind[c] = "D", AtEnd(G, c), NEW k, NEW n, NEW H, NEW m,
         Added(G, c, k, n, H, m), Linked(c, n, m), NEW d, NEW old, NEW new,
         AllGrown(G, c, k, n, m, d, old, new), NEW x \in used, \A t : ~Over(G, x, c, t)
  PROVE  NewListing(x, new) = Listing(x, old)
<1>1. x # c
  <2>1. G[c] \in Seq(Label) /\ <<>> \in Seq(Label)
    BY DEF NamedTree, Naming
  <2>2. Over(G, c, c, <<>>)
    BY <2>1, ConcatEmptySeq DEF Over
  <2> QED BY <2>2
<1>2. kids'[x] = kids[x]
  BY <1>1 DEF Linked
<1>3. DOMAIN kids[x] = 1 .. Len(kids[x])
  BY DEF NamedTree, HeapType
<1>4. ASSUME NEW i \in 1 .. Len(kids[x]) PROVE NewSubtree(kids[x][i], new) = Subtree(kids[x][i], old)
  <2>1. \A t : ~Over(G, kids[x][i], c, t)
    BY OverKid
  <2> QED BY <2>1, PartSame
<1> QED BY <1>2, <1>3, <1>4 DEF NewListing, Listing

\* The list of c ends with the new node.
LEMMA GrowHere ==
  ASSUME NEW G, NamedTree(G), NEW c \in used, kind[c] = "D", AtEnd(G, c), NEW k \in {"D", "F"},
         NEW n \in Label, NEW H, NEW m,
         Added(G, c, k, n, H, m), Linked(c, n, m), NEW d, NEW old, NEW new,
         AllGrown(G, c, k, n, m, d, old, new)
  PROVE  NewListing(c, new) = Listing(c, old) \o <<[kind |-> k, names |-> <<n>>]>>
<1>1. PICK N \in Nat : N = Len(kids[c])
  BY DEF NamedTree, HeapType
<1>2. kids[c] \in Seq(Nodes) /\ kids'[c] = Append(kids[c], m) /\ m \in Nodes
  BY DEF NamedTree, HeapType, Linked
<1>3. /\ DOMAIN kids'[c] = 1 .. N + 1 /\ kids'[c][N + 1] = m
      /\ \A i \in 1 .. N : kids'[c][i] = kids[c][i]
  BY <1>1, <1>2
<1>4. /\ Parts(c, old) \in [1 .. N -> Seq(LineType)]
      /\ \A i \in 1 .. N : Parts(c, old)[i] = Subtree(kids[c][i], old)
      /\ Listing(c, old) = FlattenSeq(Parts(c, old))
  BY <1>1, PartsType DEF NamedTree, HeapType, AllGrown
<1>5. PICK tt : tt = [i \in 1 .. N + 1 |-> NewSubtree(kids'[c][i], new)]
  OBVIOUS
<1>6. NewListing(c, new) = FlattenSeq(tt)
  BY <1>3, <1>5 DEF NewListing
<1>7. ASSUME NEW i \in 1 .. N PROVE tt[i] = Parts(c, old)[i]
  <2>1. i \in 1 .. N + 1 /\ i \in 1 .. Len(kids[c])
    BY <1>1
  <2>2. tt[i] = NewSubtree(kids[c][i], new)
    BY <1>3, <1>5, <2>1
  <2>3. \A t : ~Over(G, kids[c][i], c, t)
    BY <2>1, NotOverKid
  <2>4. NewSubtree(kids[c][i], new) = Subtree(kids[c][i], old)
    BY <2>1, <2>3, PartSame
  <2> QED BY <1>4, <2>2, <2>4
<1>8. tt[N + 1] = <<[kind |-> k, names |-> <<n>>]>>
  <2>1. N + 1 \in 1 .. N + 1
    OBVIOUS
  <2>2. tt[N + 1] = NewSubtree(m, new)
    BY <1>3, <1>5, <2>1
  <2>3. name'[m] = n /\ kind'[m] = k /\ new[m] = <<>>
    BY DEF Added, Linked, AllGrown
  <2> QED BY <2>2, <2>3, SubtreeNew
<1>9. tt[N + 1] \in Seq(LineType)
  <2>1. [kind |-> k, names |-> <<n>>] \in LineType
    BY DEF LineType
  <2> QED BY <1>8, <2>1
<1>10. tt \in [1 .. N + 1 -> Seq(LineType)]
  <2>1. ASSUME NEW i \in 1 .. N + 1 PROVE tt[i] \in Seq(LineType)
    <3>1. CASE i = N + 1
      BY <1>9, <3>1
    <3>2. CASE i # N + 1
      <4>1. i \in 1 .. N
        BY <3>2
      <4> QED BY <1>4, <1>7, <4>1
    <3> QED BY <3>1, <3>2
  <2>2. tt = [i \in 1 .. N + 1 |-> tt[i]]
    BY <1>5
  <2> QED BY <2>1, <2>2
<1>11. OneMore(tt, Parts(c, old), N)
  BY <1>7 DEF OneMore
<1>12. FlattenSeq(tt) = FlattenSeq(Parts(c, old)) \o tt[N + 1]
  BY <1>4, <1>10, <1>11, FlattenSplit
<1> QED BY <1>4, <1>6, <1>8, <1>12

\* A name in front and one behind.
LEMMA BothEnds ==
  ASSUME NEW S, NEW h \in S, NEW s \in Seq(S), NEW n \in S
  PROVE  <<h>> \o Append(s, n) = Append(<<h>> \o s, n)
<1>1. <<h>> \in Seq(S) /\ <<n>> \in Seq(S)
  OBVIOUS
<1>2. <<h>> \o s \in Seq(S)
  BY <1>1, ConcatProperties
<1>3. Append(s, n) = s \o <<n>> /\ Append(<<h>> \o s, n) = (<<h>> \o s) \o <<n>>
  BY <1>2, AppendIsConcat
<1>4. (<<h>> \o s) \o <<n>> = <<h>> \o (s \o <<n>>)
  BY <1>1, ConcatMore
<1> QED BY <1>3, <1>4

\* A step that makes the node m in c, and the listings as deep as d before
\* and after it.
Growing(G, c, k, n, H, m, d, old, new) ==
  /\ NamedTree(G) /\ c \in used /\ kind[c] = "D" /\ AtEnd(G, c) /\ k \in {"D", "F"} /\ n \in Label
  /\ Added(G, c, k, n, H, m) /\ Linked(c, n, m) /\ d \in Nat
  /\ AllGrown(G, c, k, n, m, d, old, new)

\* c is below x, at most d names away.
OverWithin(G, x, c, t, d) == Over(G, x, c, t) /\ t # <<>> /\ Len(t) <= d

\* b is a and the line of a node of kind k at the end of the path t, n.
OneLineMore(k, n, t, a, b) == b = a \o <<[kind |-> k, names |-> Append(t, n)]>>

\* A list on the way to c ends with what is written of its last node.
LEMMA GrowAbove ==
  ASSUME NEW G, NEW c, NEW k, NEW n, NEW H, NEW m, NEW d, NEW old, NEW new,
         Growing(G, c, k, n, H, m, d, old, new), NEW x \in used, NEW t, OverWithin(G, x, c, t, d)
  PROVE  OneLineMore(k, n, t, Listing(x, old), NewListing(x, new))
<1>a. /\ NamedTree(G) /\ c \in used /\ kind[c] = "D" /\ AtEnd(G, c) /\ k \in {"D", "F"} /\ n \in Label
      /\ Added(G, c, k, n, H, m) /\ Linked(c, n, m) /\ d \in Nat
      /\ AllGrown(G, c, k, n, m, d, old, new)
      /\ Over(G, x, c, t) /\ t # <<>> /\ Len(t) <= d
  BY DEF Growing, OverWithin
<1>0. /\ t \in Seq(Label) /\ Head(t) \in Label /\ Tail(t) \in Seq(Label)
      /\ Len(t) = 1 + Len(Tail(t)) /\ t = <<Head(t)>> \o Tail(t)
  <2>1. t \in Seq(Label)
    BY <1>a DEF Over
  <2> QED BY <1>a, <2>1, HeadTailIs
<1>1. PICK h \in Label, s \in Seq(Label) : h = Head(t) /\ s = Tail(t) /\ t = <<h>> \o s /\ Len(s) < d
  <2>1. Len(Tail(t)) < d
    BY <1>a, <1>0
  <2> QED BY <1>a, <1>0, <2>1
<1>2. x # c
  <2>1. SUFFICES ASSUME x = c PROVE FALSE
    BY <1>a
  <2>2. G[c] \in Seq(Label) /\ G[c] = G[c] \o t
    BY <1>a, <2>1 DEF NamedTree, Naming, Over
  <2>3. Len(G[c]) = Len(G[c]) + Len(t) /\ Len(G[c]) \in Nat /\ Len(t) \in Nat
    BY <1>a, <1>0, <2>2
  <2>4. Len(t) = 0
    BY <1>a, <2>3
  <2> QED BY <1>a, <1>0, <2>4, EmptySeq
<1>3. kids'[x] = kids[x]
  BY <1>a, <1>2 DEF Linked
<1>4. PICK L : /\ L = Len(kids[x]) /\ L \in 1 .. L
               /\ Over(G, kids[x][L], c, s) /\ name[kids[x][L]] = h
  BY <1>a, <1>1, OverStep
<1>5. PICK N \in Nat : L = N + 1
  <2>1. Len(kids[x]) \in Nat
    BY <1>a DEF NamedTree, HeapType
  <2>2. L - 1 \in Nat /\ L = (L - 1) + 1
    BY <1>a, <1>4, <2>1
  <2> QED BY <1>a, <2>2
<1>6. PICK y \in used : y = kids[x][L] /\ y \in Nodes
  BY <1>a, <1>4, KidIs
<1>7. PICK e \in LineType : e = [kind |-> k, names |-> Append(s, n)]
  <2>1. Append(s, n) \in Seq(Label) /\ Len(Append(s, n)) = Len(s) + 1 /\ Len(s) \in Nat
    BY <1>a
  <2>2. Len(Append(s, n)) # Len(<<>>)
    BY <1>a, <2>1
  <2>3. Append(s, n) # <<>>
    BY <1>a, <2>2
  <2>4. [kind |-> k, names |-> Append(s, n)] \in LineType
    BY <1>a, <2>1, <2>3 DEF LineType
  <2> QED BY <1>a, <2>4
<1>8. [kind |-> k, names |-> Append(t, n)] \in LineType
  <2>1. Append(t, n) \in Seq(Label) /\ Len(Append(t, n)) = Len(t) + 1 /\ Len(t) \in Nat
    BY <1>a, <1>0
  <2>2. Len(Append(t, n)) # Len(<<>>)
    BY <1>a, <2>1
  <2>3. Append(t, n) # <<>>
    BY <1>a, <2>2
  <2> QED BY <1>a, <2>1, <2>3 DEF LineType
<1>9. PICK f \in LineType : f = [kind |-> k, names |-> Append(t, n)]
  BY <1>a, <1>8
<1>10. new[y] = old[y] \o <<e>>
  <2>1. Grown(G, c, k, n, y, d, old[y], new[y])
    BY <1>a DEF AllGrown
  <2>2. Over(G, y, c, s)
    BY <1>a, <1>4, <1>6
  <2> QED BY <1>a, <1>1, <1>7, <2>1, <2>2 DEF Grown
<1>11. NewSubtree(y, new) = Subtree(y, old) \o <<f>>
  <2>1. SameNode(y) /\ old[y] \in Seq(LineType) /\ HeapType
    BY <1>a, <1>6, AddedSame DEF AllGrown, NamedTree
  <2>2. NewSubtree(y, new) = Subtree(y, old) \o <<[kind |-> e.kind, names |-> <<name[y]>> \o e.names]>>
    BY <1>a, <1>6, <1>10, <2>1, SubtreeGrows
  <2>3. e.kind = k /\ e.names = Append(s, n) /\ name[y] = h
    BY <1>a, <1>4, <1>6, <1>7
  <2>4. <<h>> \o Append(s, n) = Append(t, n)
    BY <1>a, <1>1, BothEnds
  <2> QED BY <1>a, <1>9, <2>2, <2>3, <2>4
<1>12. PICK ss : /\ ss \in [1 .. N + 1 -> Seq(LineType)]
                 /\ \A i \in 1 .. N + 1 : ss[i] = Subtree(kids[x][i], old)
                 /\ Listing(x, old) = FlattenSeq(ss)
  <2>1. x \in Nodes /\ HeapType
    BY <1>a DEF NamedTree, HeapType
  <2>2. \A z \in Nodes : old[z] \in Seq(LineType)
    BY <1>a DEF AllGrown
  <2>3. /\ Parts(x, old) \in [1 .. Len(kids[x]) -> Seq(LineType)]
        /\ \A i \in 1 .. Len(kids[x]) : Parts(x, old)[i] = Subtree(kids[x][i], old)
        /\ Listing(x, old) = FlattenSeq(Parts(x, old))
    BY <1>a, <2>1, <2>2, PartsType
  <2>4. Len(kids[x]) = N + 1
    BY <1>a, <1>4, <1>5
  <2> QED BY <1>a, <2>3, <2>4
<1>13. PICK tt : tt = [i \in 1 .. N + 1 |-> NewSubtree(kids[x][i], new)]
  BY <1>a
<1>14. NewListing(x, new) = FlattenSeq(tt)
  <2>1. DOMAIN kids[x] = 1 .. N + 1
    <3>1. kids[x] \in Seq(Nodes)
      BY <1>a DEF NamedTree, HeapType
    <3>2. DOMAIN kids[x] = 1 .. Len(kids[x])
      BY <1>a, <3>1
    <3> QED BY <1>a, <1>4, <1>5, <3>2
  <2> QED BY <1>a, <1>3, <1>13, <2>1 DEF NewListing
<1>15. ASSUME NEW i \in 1 .. N PROVE tt[i] = ss[i]
  <2>1. i \in 1 .. N + 1 /\ i \in 1 .. Len(kids[x]) /\ i # Len(kids[x])
    BY <1>a, <1>4, <1>5
  <2>2. \A u : ~Over(G, kids[x][i], c, u)
    BY <1>a, <2>1, OverKid
  <2>3. NewSubtree(kids[x][i], new) = Subtree(kids[x][i], old)
    BY <1>a, <2>1, <2>2, PartSame
  <2> QED BY <1>a, <1>12, <1>13, <2>1, <2>3
<1>16. tt[N + 1] = ss[N + 1] \o <<f>> /\ ss[N + 1] \in Seq(LineType)
  <2>1. N + 1 \in 1 .. N + 1 /\ kids[x][N + 1] = y
    BY <1>a, <1>5, <1>6
  <2> QED BY <1>a, <1>11, <1>12, <1>13, <2>1
<1>17. tt \in [1 .. N + 1 -> Seq(LineType)]
  <2>1. ASSUME NEW i \in 1 .. N + 1 PROVE tt[i] \in Seq(LineType)
    <3>1. CASE i = N + 1
      <4>1. ss[N + 1] \o <<f>> \in Seq(LineType)
        BY <1>a, <1>16
      <4> QED BY <1>a, <1>16, <3>1, <4>1
    <3>2. CASE i # N + 1
      <4>1. i \in 1 .. N
        BY <1>a, <3>2
      <4> QED BY <1>a, <1>12, <1>15, <4>1
    <3> QED BY <1>a, <3>1, <3>2
  <2>2. tt = [i \in 1 .. N + 1 |-> tt[i]]
    BY <1>a, <1>13
  <2> QED BY <1>a, <2>1, <2>2
<1>18. OneMore(tt, ss, N)
  BY <1>a, <1>15 DEF OneMore
<1>19. FlattenSeq(tt) = FlattenSeq(ss) \o <<f>>
  <2>1. tt[N + 1] = ss[N + 1] \o <<f>>
    BY <1>a, <1>16
  <2>2. ss \in [1 .. N + 1 -> Seq(LineType)]
    BY <1>a, <1>12
  <2>3. LastGrows(LineType, N, ss, tt, f)
    BY <1>a, <1>17, <1>18, <2>1, <2>2 DEF LastGrows
  <2> QED BY <1>a, <2>3, FlattenGrows
<1>20. NewListing(x, new) = Listing(x, old) \o <<[kind |-> k, names |-> Append(t, n)]>>
  BY <1>a, <1>9, <1>12, <1>14, <1>19
<1> QED BY <1>20 DEF OneLineMore

\* One level deeper.
LEMMA GrowRow ==
  ASSUME NEW G, NEW c, NEW k, NEW n, NEW H, NEW m, NEW d, NEW old, NEW new,
         Growing(G, c, k, n, H, m, d, old, new), NEW x \in used
  PROVE  Grown(G, c, k, n, x, d + 1, Listing(x, old), NewListing(x, new))
<1>a. /\ NamedTree(G) /\ c \in used /\ kind[c] = "D" /\ AtEnd(G, c) /\ k \in {"D", "F"} /\ n \in Label
      /\ Added(G, c, k, n, H, m) /\ Linked(c, n, m) /\ d \in Nat
      /\ AllGrown(G, c, k, n, m, d, old, new)
  BY DEF Growing
<1>1. ASSUME \A t : ~Over(G, x, c, t) PROVE NewListing(x, new) = Listing(x, old)
  BY <1>a, <1>1, GrowAway
<1>2. ASSUME NEW t, Over(G, x, c, t), Len(t) < d + 1
      PROVE  NewListing(x, new) = Listing(x, old) \o <<[kind |-> k, names |-> Append(t, n)]>>
  <2>1. CASE t = <<>>
    <3>1. x = c
      BY <1>a, <1>2, <2>1, OverItself
    <3>2. Append(<<>>, n) = <<n>>
      OBVIOUS
    <3> QED BY <1>a, <2>1, <3>1, <3>2, GrowHere
  <2>2. CASE t # <<>>
    <3>1. OverWithin(G, x, c, t, d)
      <4>1. Len(t) \in Nat
        BY <1>2 DEF Over
      <4>2. Len(t) <= d
        BY <1>a, <1>2, <4>1
      <4> QED BY <1>2, <2>2, <4>2 DEF OverWithin
    <3>2. OneLineMore(k, n, t, Listing(x, old), NewListing(x, new))
      BY <3>1, GrowAbove
    <3> QED BY <3>2 DEF OneLineMore
  <2> QED BY <2>1, <2>2
<1> QED BY <1>1, <1>2 DEF Grown

\* The listings that saveTree() makes.
LEMMA SaveTreeRows ==
  \E dump : /\ SaveTree = dump[NBLOCKS][root]
            /\ \A k \in 0 .. NBLOCKS : \A c \in Nodes :
                 dump[k][c] = IF k = 0 THEN <<>> ELSE Listing(c, dump[k-1])
<1>1. NBLOCKS \in Nat
  BY BlocksAssumption
<1>2. \E dump : IsDump(dump, NBLOCKS)
  BY <1>1, DumpExists
<1>3. PICK dump : dump = CHOOSE d : IsDump(d, NBLOCKS)
  OBVIOUS
<1>4. IsDump(dump, NBLOCKS)
  BY <1>2, <1>3
<1>5. SaveTree = dump[NBLOCKS][root]
  BY <1>3 DEF SaveTree, IsDump, DumpRow, Listing
<1>6. ASSUME NEW k \in 0 .. NBLOCKS, NEW c \in Nodes
      PROVE  dump[k][c] = IF k = 0 THEN <<>> ELSE Listing(c, dump[k-1])
  <2>1. dump[k] = DumpRow(k, dump[k-1])
    BY <1>4 DEF IsDump
  <2> QED BY <2>1 DEF DumpRow
<1> QED BY <1>5, <1>6

\* After a step.
LEMMA NewSaveTreeRows ==
  \E dump : /\ SaveTree' = dump[NBLOCKS][root]
            /\ \A k \in 0 .. NBLOCKS : \A c \in Nodes :
                 dump[k][c] = IF k = 0 THEN <<>> ELSE NewListing(c, dump[k-1])
<1>1. (\E dump : /\ SaveTree = dump[NBLOCKS][root]
                 /\ \A k \in 0 .. NBLOCKS : \A c \in Nodes :
                      dump[k][c] = IF k = 0 THEN <<>> ELSE Listing(c, dump[k-1]))'
  BY SaveTreeRows, PTL
<1>2. PICK dump : /\ SaveTree' = dump[NBLOCKS][root]
                  /\ \A k \in 0 .. NBLOCKS : \A c \in Nodes :
                       dump[k][c] = IF k = 0 THEN <<>> ELSE Listing(c, dump[k-1])'
  BY <1>1
<1>3. ASSUME NEW k \in 0 .. NBLOCKS, NEW c \in Nodes
      PROVE  dump[k][c] = IF k = 0 THEN <<>> ELSE NewListing(c, dump[k-1])
  <2>1. dump[k][c] = IF k = 0 THEN <<>> ELSE Listing(c, dump[k-1])'
    BY <1>2
  <2>2. Listing(c, dump[k-1])' = NewListing(c, dump[k-1])
    BY DEF Listing, Subtree, NewListing, NewSubtree
  <2> QED BY <2>1, <2>2
<1> QED BY <1>2, <1>3

\* The new node's line is the last: its directory and those above it end
\* with what leads to it.
LEMMA SaveTreeGrows ==
  ASSUME NEW G, NamedTree(G), NEW c \in used, kind[c] = "D", AtEnd(G, c), NEW k \in {"D", "F"},
         NEW n \in Label, NEW H, NEW m, Added(G, c, k, n, H, m), Linked(c, n, m)
  PROVE  SaveTree' = SaveTree \o <<[kind |-> k, names |-> Append(G[c], n)]>>
<1>1. NBLOCKS \in Nat /\ root \in used /\ root \in Nodes /\ kind[root] = "D" /\ G[root] = <<>>
  BY BlocksAssumption DEF NamedTree, IsTree, HeapType, Naming
<1>2. PICK old : /\ IsDump(old, NBLOCKS) /\ SaveTree = old[NBLOCKS][root]
                 /\ \A j \in 0 .. NBLOCKS : \A x \in Nodes : old[j][x] \in Seq(LineType)
  BY SaveTreeDumps DEF NamedTree
<1>3. PICK new : /\ SaveTree' = new[NBLOCKS][root]
                 /\ \A j \in 0 .. NBLOCKS : \A x \in Nodes :
                      new[j][x] = IF j = 0 THEN <<>> ELSE NewListing(x, new[j-1])
  BY NewSaveTreeRows
<1>4. ASSUME NEW j \in 0 .. NBLOCKS, NEW x \in Nodes
      PROVE  old[j][x] = IF j = 0 THEN <<>> ELSE Listing(x, old[j-1])
  <2>1. old[j] = DumpRow(j, old[j-1])
    BY <1>2 DEF IsDump
  <2> QED BY <2>1 DEF DumpRow
<1>5. ASSUME NEW j \in 0 .. NBLOCKS PROVE new[j][m] = <<>>
  <2>1. m \in Nodes /\ kids'[m] = <<>>
    BY DEF Linked
  <2>2. NewListing(m, new[j-1]) = <<>>
    <3>1. [i \in DOMAIN kids'[m] |-> NewSubtree(kids'[m][i], new[j-1])] = <<>>
      BY <2>1
    <3>2. FlattenSeq(<<>>) = <<>>
      BY DEF FlattenSeq
    <3> QED BY <3>1, <3>2 DEF NewListing
  <2> QED BY <1>3, <2>1, <2>2
<1> DEFINE S == {j \in Nat : j <= NBLOCKS => AllGrown(G, c, k, n, m, j, old[j], new[j])}
<1>6. 0 \in S
  <2>1. 0 \in 0 .. NBLOCKS
    BY <1>1
  <2>2. ASSUME NEW x \in used PROVE Grown(G, c, k, n, x, 0, old[0][x], new[0][x])
    <3>1. x \in Nodes
      BY DEF NamedTree, HeapType
    <3>2. old[0][x] = <<>> /\ new[0][x] = <<>>
      BY <1>3, <1>4, <2>1, <3>1
    <3>3. ASSUME NEW t, Over(G, x, c, t) PROVE ~(Len(t) < 0)
      <4>1. Len(t) \in Nat
        BY <3>3 DEF Over
      <4> QED BY <4>1
    <3> QED BY <3>2, <3>3 DEF Grown
  <2>3. AllGrown(G, c, k, n, m, 0, old[0], new[0])
    BY <1>2, <1>5, <2>1, <2>2 DEF AllGrown
  <2> QED BY <2>3
<1>7. ASSUME NEW j \in Nat, j \in S PROVE j + 1 \in S
  <2>1. SUFFICES ASSUME j + 1 <= NBLOCKS PROVE AllGrown(G, c, k, n, m, j + 1, old[j + 1], new[j + 1])
    OBVIOUS
  <2>2. PICK i : i = j + 1 /\ i \in 0 .. NBLOCKS /\ i # 0 /\ i - 1 = j
    BY <1>1, <2>1
  <2>3. AllGrown(G, c, k, n, m, j, old[j], new[j])
    BY <1>1, <1>7, <2>1
  <2>4. PICK o, w : o = old[j] /\ w = new[j]
    OBVIOUS
  <2>5. Growing(G, c, k, n, H, m, j, o, w)
    BY <2>3, <2>4 DEF Growing
  <2>6. ASSUME NEW x \in used PROVE Grown(G, c, k, n, x, j + 1, old[i][x], new[i][x])
    <3>1. x \in Nodes
      BY DEF NamedTree, HeapType
    <3>2. old[i][x] = Listing(x, o) /\ new[i][x] = NewListing(x, w)
      BY <1>3, <1>4, <2>2, <2>4, <3>1
    <3>3. Grown(G, c, k, n, x, j + 1, Listing(x, o), NewListing(x, w))
      BY <2>5, GrowRow
    <3> QED BY <3>2, <3>3
  <2>7. AllGrown(G, c, k, n, m, j + 1, old[i], new[i])
    <3>1. \A x \in Nodes : old[i][x] \in Seq(LineType)
      BY <1>2, <2>2
    <3>2. new[i][m] = <<>>
      BY <1>5, <2>2
    <3> QED BY <2>6, <3>1, <3>2 DEF AllGrown
  <2> QED BY <2>2, <2>7
<1>8. NBLOCKS \in S
  <2> HIDE DEF S
  <2> QED BY <1>1, <1>6, <1>7, NaturalsIn
<1>9. Grown(G, c, k, n, root, NBLOCKS, SaveTree, SaveTree')
  BY <1>1, <1>2, <1>3, <1>8 DEF AllGrown
<1>10. Over(G, root, c, G[c]) /\ Len(G[c]) < NBLOCKS
  <2>1. G[c] \in Seq(Label)
    BY DEF NamedTree, Naming
  <2>2. <<>> \o G[c] = G[c]
    BY <2>1, ConcatEmptySeq
  <2> QED BY <1>1, <2>1, <2>2, PathsAreShort DEF Over
<1> QED BY <1>9, <1>10 DEF Grown

\* A tree that is only a root has no lines.
LEMMA SaveTreeEmpty ==
  ASSUME Initialize
  PROVE  SaveTree' = <<>>
<1>1. NBLOCKS \in 0 .. NBLOCKS /\ root \in Nodes
  BY BlocksAssumption DEF root, Nodes
<1>2. PICK new : /\ SaveTree' = new[NBLOCKS][root]
                 /\ \A j \in 0 .. NBLOCKS : \A x \in Nodes :
                      new[j][x] = IF j = 0 THEN <<>> ELSE NewListing(x, new[j-1])
  BY NewSaveTreeRows
<1>3. kids'[root] = <<>>
  BY <1>1 DEF Initialize
<1>4. NewListing(root, new[NBLOCKS-1]) = <<>>
  <2>1. [i \in DOMAIN kids'[root] |-> NewSubtree(kids'[root][i], new[NBLOCKS-1])] = <<>>
    BY <1>3
  <2>2. FlattenSeq(<<>>) = <<>>
    BY DEF FlattenSeq
  <2> QED BY <2>1, <2>2 DEF NewListing
<1> QED BY <1>1, <1>2, <1>4

\* In front of a sequence with one more element.
LEMMA PrefixOfAppend ==
  ASSUME NEW S, NEW s \in Seq(S), NEW t \in Seq(S), NEW x \in S, IsStrictPrefix(s, Append(t, x))
  PROVE  s = t \/ IsStrictPrefix(s, t)
<1>1. Append(t, x) \in Seq(S) /\ Front(Append(t, x)) = t
  BY AppendIs
<1>2. PICK u \in Seq(S) : u # <<>> /\ Append(t, x) = s \o u
  BY <1>1, PrefixSplit
<1>a. Front(u) \in Seq(S)
  BY <1>2, FrontIs
<1>3. Front(s \o u) = s \o Front(u) /\ Front(u) \in Seq(S)
  BY <1>2, <1>a, FrontConcat
<1>4. t = s \o Front(u)
  BY <1>1, <1>2, <1>3
<1>5. CASE Front(u) = <<>>
  BY <1>4, <1>5, ConcatEmptySeq
<1>6. CASE Front(u) # <<>>
  BY <1>3, <1>4, <1>6, PrefixMakes
<1> QED BY <1>5, <1>6

\* The root is at the end of nothing.
LEMMA AtEndRoot ==
  ASSUME NEW G, NamedTree(G)
  PROVE  AtEnd(G, root)
<1>1. G[root] = <<>> /\ Len(<<>>) = 0
  BY DEF NamedTree, Naming
<1>2. ASSUME NEW a \in used \ {root} PROVE ~IsStrictPrefix(G[a], G[root])
  <2>1. G[a] \in Seq(Label) /\ Len(G[a]) = Len(G[parent[a]]) + 1 /\ G[parent[a]] \in Seq(Label)
    BY ParentIs
  <2>2. Len(G[a]) \in Nat /\ Len(G[a]) # 0
    BY <2>1
  <2> QED BY <1>1, <2>2 DEF IsStrictPrefix, IsPrefix
<1> QED BY <1>2 DEF AtEnd

\* A directory above one at the end is at the end.
LEMMA AtEndAbove ==
  ASSUME NEW G, NamedTree(G), NEW u \in used, AtEnd(G, u),
         NEW c \in used, kind[c] = "D", IsStrictPrefix(G[c], G[u])
  PROVE  AtEnd(G, c)
<1>1. \A x \in used : G[x] \in Seq(Label)
  BY DEF NamedTree, Naming
<1>2. ASSUME NEW a \in used \ {root}, a = c \/ (kind[a] = "D" /\ IsStrictPrefix(G[a], G[c]))
      PROVE  Last(kids[parent[a]]) = a
  <2>1. kind[a] = "D" /\ IsStrictPrefix(G[a], G[u])
    <3>1. CASE a = c
      BY <3>1
    <3>2. CASE kind[a] = "D" /\ IsStrictPrefix(G[a], G[c])
      BY <1>1, <3>2, PrefixTrans
    <3> QED BY <1>2, <3>1, <3>2
  <2> QED BY <2>1 DEF AtEnd
<1> QED BY <1>2 DEF AtEnd

\* A new node in a directory at the end is at the end.
LEMMA AtEndNew ==
  ASSUME NEW G, NamedTree(G), NEW c \in used, kind[c] = "D", AtEnd(G, c), NEW k, NEW n \in Label,
         NEW H, NEW m, Added(G, c, k, n, H, m), Linked(c, n, m)
  PROVE  AtEnd(H, m)'
<1>1. /\ m \notin used /\ used' = used \union {m} /\ H[m] = Append(G[c], n)
      /\ \A x \in used : H[x] = G[x] /\ kind'[x] = kind[x]
      /\ parent'[m] = c /\ kids'[c] = Append(kids[c], m) /\ m \in Nodes
      /\ \A x \in used : parent'[x] = parent[x] /\ (x # c => kids'[x] = kids[x])
  BY DEF Added, Linked
<1>2. ASSUME NEW a \in used' \ {root}, a = m \/ (kind'[a] = "D" /\ IsStrictPrefix(H[a], H[m]))
      PROVE  Last(kids'[parent'[a]]) = a
  <2>1. CASE a = m
    <3>1. PICK s \in Seq(Nodes) : s = kids[c]
      BY DEF NamedTree, HeapType
    <3>2. Last(Append(s, m)) = m
      BY <1>1, AppendIs DEF Last
    <3> QED BY <1>1, <2>1, <3>1, <3>2
  <2>2. CASE a # m
    <3>1. /\ a \in used \ {root} /\ kind[a] = "D" /\ IsStrictPrefix(G[a], Append(G[c], n))
          /\ parent'[a] = parent[a]
      BY <1>1, <1>2, <2>2
    <3>2. G[a] \in Seq(Label) /\ G[c] \in Seq(Label)
      BY <3>1 DEF NamedTree, Naming
    <3>3. G[a] = G[c] \/ IsStrictPrefix(G[a], G[c])
      BY <3>1, <3>2, PrefixOfAppend
    <3>4. a = c \/ IsStrictPrefix(G[a], G[c])
      BY <3>1, <3>3, PathsDiffer
    <3>5. Last(kids[parent[a]]) = a
      BY <3>1, <3>4 DEF AtEnd
    <3>6. Len(G[a]) <= Len(G[c]) /\ Len(G[a]) \in Nat /\ Len(G[c]) \in Nat
      <4>1. Len(G[a]) \in Nat /\ Len(G[c]) \in Nat
        BY <3>2
      <4> QED BY <3>3, <4>1 DEF IsStrictPrefix, IsPrefix
    <3>7. /\ parent[a] \in used /\ G[parent[a]] \in Seq(Label)
          /\ Len(G[a]) = Len(G[parent[a]]) + 1
      BY <3>1, ParentIs
    <3>8. parent[a] # c
      BY <3>6, <3>7
    <3> QED BY <1>1, <3>1, <3>5, <3>7, <3>8
  <2> QED BY <2>1, <2>2
<1> QED BY <1>2 DEF AtEnd

-----------------------------------------------------------------------------
(***************************************************************************)
(* The inductive invariant.  TLC has checked it with GetPath for G.        *)
(***************************************************************************)

Facts(G) == NamedTree(G) /\ PromptInv(G) /\ Reachable(G) /\ ReloadInv(G)
TreeInv == StateType /\ SavedInv /\ \E G : Facts(G)

\* Where a command starts, and the names it looks up.
LEMMA LocatedOK ==
  ASSUME StateType, NEW G, NamedTree(G), PromptInv(G), NEW p \in PathType
  PROVE  /\ WalkOK(Origin(p), G) /\ Dname(p.names) \in Seq(Label) /\ WalkOK(Located(p), G)
         /\ Bname(p.names) # NoName => Bname(p.names) \in Label
<1>1. p.names \in Seq(Names) /\ p.names \in Seq(Label)
  BY DEF PathType, Label
<1>2. WalkOK(Origin(p), G)
  <2>1. CASE p.abs
    <3>1. G[root] = <<>> /\ root \in used /\ kind[root] = "D" /\ <<>> \in Seq(Label) /\ Len(<<>>) = 0
      BY DEF NamedTree, IsTree, Naming
    <3>2. EndsWith(<<>>, <<>>) /\ NoUpInside(<<>>)
      BY DEF EndsWith, NoUpInside
    <3> QED BY <2>1, <3>1, <3>2 DEF Origin, WalkOK
  <2>2. CASE ~p.abs
    BY <2>2 DEF Origin, WalkOK, StateType, PromptInv, NoUpInside
  <2> QED BY <2>1, <2>2
<1>3. Dname(p.names) \in Seq(Label)
  <2>1. <<>> \in Seq(Label) /\ (p.names # <<>> => Front(p.names) \in Seq(Label))
    BY <1>1, FrontIs
  <2> QED BY <2>1 DEF Dname
<1>4. Bname(p.names) # NoName => Bname(p.names) \in Label
  <2>1. p.names # <<>> => Last(p.names) \in Label
    BY <1>1, FrontIs
  <2> QED BY <2>1 DEF Bname
<1> QED BY <1>2, <1>3, <1>4, LocateOK DEF Located

\* In a state of another heap with the same paths the prompt is still right.
LEMMA PromptKept ==
  ASSUME StateType, NEW G, PromptInv(G), NEW H, UNCHANGED <<start, pathname>>, H[start] = G[start]
  PROVE  PromptInv(H)'
BY DEF PromptInv

\* A new session has the root.
LEMMA InitTree == Init => TreeInv
<1> SUFFICES ASSUME Init PROVE TreeInv
  OBVIOUS
<1>1. root \in Nodes
  BY BlocksAssumption DEF root, Nodes
<1>2. PICK H : H = [x \in {root} |-> <<>>]
  OBVIOUS
<1>3. HeapType
  BY <1>1 DEF Init, HeapType, Label, NULL
<1>4. kids[root] = <<>> /\ kind[root] = "D" /\ parent[root] = NULL /\ used = {root} /\ start = root
  BY <1>1 DEF Init
<1>5. DOMAIN <<>> = {} /\ Len(<<>>) = 0
  OBVIOUS
<1>6. IsTree
  BY <1>4, <1>5 DEF IsTree
<1>7. H[root] = <<>> /\ <<>> \in Seq(Label)
  BY <1>2
<1>8. Naming(H)
  <2>1. H \in [{root} -> Seq(Label)]
    BY <1>2, <1>7
  <2> QED BY <1>4, <1>7, <2>1 DEF Naming
<1>9. PromptInv(H)
  BY <1>4, <1>5, <1>7 DEF PromptInv, EndsWith, NoUpInside, Init
<1>10. StateType
  <2>1. <<>> \in Seq(LineType)
    OBVIOUS
  <2>2. file \in [Files -> Seq(LineType) \union {NoFile}]
    BY DEF Init
  <2> QED BY <1>4, <1>7, <2>1, <2>2 DEF StateType, Init
<1>11. Reachable(H) /\ ReloadInv(H) /\ SavedInv
  BY <1>4 DEF Reachable, ReloadInv, SavedInv, Init
<1> QED BY <1>3, <1>6, <1>8, <1>9, <1>10, <1>11 DEF TreeInv, Facts, NamedTree

\* mkdir() and creat().
LEMMA MakeTree ==
  ASSUME NamesGiven, TreeInv, NEW k \in {"D", "F"}, NEW p \in NewPaths[k], Make(k, p)
  PROVE  TreeInv'
<1> PICK G : Facts(G) /\ NamedTree(G) /\ PromptInv(G)
  BY DEF TreeInv, Facts
<1>1. StateType /\ p \in PathType /\ p.names # <<>> /\ Last(p.names) # "."
  BY PathAssumption DEF TreeInv, NamesGiven
<1>2. PICK c : c = Located(p).node
  OBVIOUS
<1>3. PICK n : n = Bname(p.names)
  OBVIOUS
<1>4. /\ c \in Nodes /\ ~Exists(c, k, n) /\ AddNode(c, k, n)
      /\ UNCHANGED <<start, pathname, file, dirty, pc, reloading>>
  BY <1>2, <1>3 DEF Make
<1>5. c \in used /\ kind[c] = "D" /\ NoUpInside(G[c])
  <2>1. c # NULL
    BY <1>4 DEF Nodes, NULL
  <2> QED BY <1>1, <1>2, <2>1, LocatedOK DEF WalkOK
<1>6. n \in Label
  <2>1. p.names \in Seq(Names)
    BY <1>1 DEF PathType
  <2>2. Last(p.names) \in Names
    BY <1>1, <2>1, FrontIs
  <2> QED BY <1>1, <1>3, <2>2 DEF Bname, Label
<1>7. start \in used
  BY <1>1 DEF StateType
<1>8. PICK H, m : NamedTree(H)' /\ Added(G, c, k, n, H, m)
  BY <1>4, <1>5, <1>6, <1>7, AddNodeKeeps
<1>9. PromptInv(H)'
  BY <1>1, <1>4, <1>7, <1>8, PromptKept DEF Added
<1>10. StateType'
  BY <1>1, <1>4, <1>8 DEF StateType, Added, reloading
<1>11. Reachable(H)'
  BY <1>5, <1>6, <1>8, AddedEntry DEF Facts
<1>12. ReloadInv(H)' /\ SavedInv'
  BY <1>4 DEF Make, ReloadInv, SavedInv, TreeInv
<1> QED BY <1>8, <1>9, <1>10, <1>11, <1>12 DEF TreeInv, Facts

\* rmdir() and rm(), where nobody removes the directory he is in.
LEMMA UnlinkTree ==
  ASSUME TreeInv, ~RemovesCurrent, NEW k \in {"D", "F"}, NEW p \in OldPaths[k], Unlink(k, p)
  PROVE  TreeInv'
<1> PICK G : Facts(G) /\ NamedTree(G) /\ PromptInv(G)
  BY DEF TreeInv, Facts
<1>1. StateType /\ p \in PathType
  BY PathAssumption DEF TreeInv
<1>2. PICK c : c = Located(p).node
  OBVIOUS
<1>3. PICK i : i = Position(c, k, Bname(p.names))
  OBVIOUS
<1>4. PICK m : m = kids[c][i]
  OBVIOUS
<1>5. /\ c \in Nodes /\ i # 0 /\ MayRemove(k, m)
      /\ m # start /\ Removed(c, i, m)
      /\ UNCHANGED <<start, pathname, file, dirty, pc, reloading>>
  BY <1>2, <1>3, <1>4 DEF Unlink, Removed
<1>6. c \in used /\ kind[c] = "D"
  <2>1. c # NULL
    BY <1>5 DEF Nodes, NULL
  <2> QED BY <1>1, <1>2, <2>1, LocatedOK DEF WalkOK
<1>7. i \in 1 .. Len(kids[c]) /\ kind[m] = k
  <2>1. kids[c] \in Seq(Nodes)
    BY <1>5 DEF NamedTree, HeapType
  <2>2. i \in 0 .. Len(kids[c]) /\ (i # 0 => kind[kids[c][i]] = k)
    BY <1>3, <2>1, PositionIs
  <2>3. Len(kids[c]) \in Nat
    BY <2>1
  <2> QED BY <1>4, <1>5, <2>2, <2>3
<1>8. kids[m] = <<>>
  <2>1. m \in used
    BY <1>4, <1>6, <1>7, KidIs
  <2> QED BY <1>5, <1>7, <2>1 DEF MayRemove, NamedTree, IsTree
<1>9. PICK H : NamedTree(H)' /\ \A x \in used' : H[x] = G[x] /\ kind'[x] = kind[x]
  BY <1>4, <1>5, <1>6, <1>7, <1>8, RemovalKeeps
<1>10. start \in used'
  BY <1>1, <1>5 DEF StateType, Removed
<1>11. PromptInv(H)'
  BY <1>1, <1>5, <1>9, <1>10, PromptKept
<1>12. StateType'
  BY <1>1, <1>5, <1>9, <1>10 DEF StateType, reloading
<1>13. Reachable(H)'
  BY <1>5, <1>9 DEF Facts, Reachable, Removed
<1>14. ReloadInv(H)' /\ SavedInv'
  BY <1>5 DEF Unlink, ReloadInv, SavedInv, TreeInv
<1> QED BY <1>9, <1>11, <1>12, <1>13, <1>14 DEF TreeInv, Facts

\* cd().
LEMMA CdTree ==
  ASSUME TreeInv, NEW p \in Paths, Cd(p)
  PROVE  TreeInv'
<1> PICK G : Facts(G) /\ NamedTree(G) /\ PromptInv(G)
  BY DEF TreeInv, Facts
<1>1. StateType /\ p \in PathType
  BY PathAssumption DEF TreeInv
<1>2. PICK n : n = Bname(p.names)
  OBVIOUS
<1>3. PICK v : v = Token(Located(p), n)
  OBVIOUS
<1>4. /\ UNCHANGED <<heap, file, dirty, pc, reloading>>
      /\ \/ start' = root /\ pathname' = <<>>
         \/ n # NoName /\ v.node \in Nodes /\ start' = v.node /\ pathname' = v.path
  BY <1>2, <1>3 DEF Cd, Enter
<1>5. NamedTree(G)'
  BY <1>4 DEF NamedTree, HeapType, IsTree, Naming, heap
<1>8. Reachable(G)' /\ ReloadInv(G)' /\ SavedInv'
  BY <1>4 DEF Cd, Facts, Reachable, ReloadInv, SavedInv, TreeInv, heap
<1>6. CASE start' = root /\ pathname' = <<>>
  <2>1. /\ G[root] = <<>> /\ root \in used /\ kind[root] = "D" /\ Len(<<>>) = 0
        /\ <<>> \in Seq(Label)
    BY DEF NamedTree, IsTree, Naming
  <2>2. PromptInv(G)'
    BY <1>6, <2>1 DEF PromptInv, EndsWith, NoUpInside
  <2>3. StateType'
    BY <1>1, <1>4, <1>6, <2>1 DEF StateType, heap, reloading
  <2> QED BY <1>5, <1>8, <2>2, <2>3 DEF TreeInv, Facts
<1>7. CASE n # NoName /\ v.node \in Nodes /\ start' = v.node /\ pathname' = v.path
  <2>1. WalkOK(v, G)
    BY <1>1, <1>2, <1>3, <1>7, LocatedOK, TokenOK
  <2>2. v.node # NULL
    BY <1>7 DEF Nodes, NULL
  <2>3. PromptInv(G)'
    BY <1>7, <2>1, <2>2 DEF WalkOK, PromptInv, NoUpInside
  <2>4. StateType'
    BY <1>1, <1>4, <1>7, <2>1, <2>2 DEF WalkOK, StateType, heap, reloading
  <2> QED BY <1>5, <1>8, <2>3, <2>4 DEF TreeInv, Facts
<1> QED BY <1>4, <1>6, <1>7

\* ls returns to the prompt.
LEMMA LsTree ==
  ASSUME TreeInv, NEW p \in Paths, Ls(p)
  PROVE  UNCHANGED vars
<1> PICK G : Facts(G) /\ NamedTree(G) /\ PromptInv(G)
  BY DEF TreeInv, Facts
<1>1. StateType /\ p \in PathType
  BY PathAssumption DEF TreeInv
<1>2. PICK last : last = IF Bname(p.names) = NoName THEN <<>> ELSE <<Bname(p.names)>>
  OBVIOUS
<1>3. last \in Seq(Label)
  <2>1. CASE Bname(p.names) = NoName
    BY <1>2, <2>1
  <2>2. CASE Bname(p.names) # NoName
    <3>1. Bname(p.names) \in Label
      BY <1>1, <2>2, LocatedOK
    <3> QED BY <1>2, <2>2, <3>1
  <2> QED BY <2>1, <2>2
<1>4. WalkOK(LocateDir(Located(p), last), G)
  BY <1>1, <1>3, LocatedOK, LocateOK
<1>5. LocateDir(Located(p), last).node # Crash
  BY <1>4, BlocksAssumption DEF WalkOK, NamedTree, HeapType, Nodes, NULL, Crash
<1>6. pc' = "prompt" /\ pc = "prompt"
  BY <1>2, <1>5 DEF Ls
<1> QED BY <1>6 DEF Ls, vars, heap, reloading

\* And pwd returns to the prompt.
LEMMA PwdTree ==
  ASSUME TreeInv, Pwd
  PROVE  UNCHANGED vars
<1> PICK G : Facts(G) /\ NamedTree(G) /\ PromptInv(G)
  BY DEF TreeInv, Facts
<1>1. start \in used
  BY DEF TreeInv, StateType
<1>2. GetPathEnds(start)
  BY <1>1, GetPathIs
<1> QED BY <1>2 DEF Pwd, vars, heap, reloading

\* save and quit write lines, where no long text stays behind.
LEMMA WrittenTree ==
  ASSUME TreeInv, ~LongText, NEW f \in Files, Written(f), pc' \in {"prompt", "exit"},
         UNCHANGED <<heap, start, pathname, reloading>>
  PROVE  TreeInv'
<1> PICK G : Facts(G) /\ NamedTree(G) /\ PromptInv(G)
  BY DEF TreeInv, Facts
<1>1. NamedTree(G)' /\ PromptInv(G)'
  BY DEF NamedTree, HeapType, IsTree, Naming, heap, PromptInv
<1>2. SaveTree \in Seq(LineType)
  BY SaveTreeType DEF NamedTree
<1>3. StateType'
  BY <1>2 DEF TreeInv, StateType, Written, IsLong, heap, reloading
<1>4. Reachable(G)' /\ ReloadInv(G)'
  BY DEF Facts, Reachable, ReloadInv, heap
<1>5. SavedInv'
  <2>1. /\ Preorder(SaveTree) /\ SaveTree # NoFile
        /\ \A i \in DOMAIN SaveTree : NoUpInside(Front(SaveTree[i].names))
    BY SaveTreeOrdered DEF Facts
  <2>2. ASSUME NEW g \in Files, file'[g] # NoFile
        PROVE  Preorder(file'[g]) /\ \A i \in DOMAIN file'[g] : NoUpInside(Front(file'[g][i].names))
    <3>1. CASE g = f
      <4>1. file'[g] = SaveTree
        BY <3>1 DEF Written, TreeInv, StateType
      <4> QED BY <2>1, <4>1
    <3>2. CASE g # f
      <4>1. file'[g] = file[g]
        BY <3>2 DEF Written, TreeInv, StateType
      <4> QED BY <2>2, <4>1 DEF SavedInv, TreeInv
    <3> QED BY <3>1, <3>2
  <2> QED BY <2>2 DEF SavedInv
<1> QED BY <1>1, <1>3, <1>4, <1>5 DEF TreeInv, Facts

\* reload() and the start of a session.
LEMMA InitializeTree ==
  ASSUME TreeInv, Initialize, pathname' \in Seq(Label), todo' \in Seq(LineType),
         pc' \in {"prompt", "reload"}, dirty' = FALSE, UNCHANGED file,
         pc' = "reload" => source' \in Files /\ file[source'] # NoFile /\ todo' = file[source']
  PROVE  TreeInv'
<1>1. PICK H : /\ NamedTree(H)' /\ H[root] = <<>> /\ start' = root /\ used' = {root}
               /\ kind'[root] = "D"
  BY InitializeMakes
<1>2. Len(<<>>) = 0
  OBVIOUS
<1>3. PromptInv(H)'
  <2>1. PICK q \in Seq(Label) : q = pathname'
    OBVIOUS
  <2>2. EndsWith(q, <<>>)
    BY EndsEmpty
  <2> QED BY <1>1, <1>2, <2>1, <2>2 DEF PromptInv, NoUpInside
<1>4. StateType'
  BY <1>1 DEF TreeInv, StateType
<1>5. Reachable(H)' /\ SavedInv'
  BY <1>1 DEF Reachable, SavedInv, TreeInv
<1>6. ReloadInv(H)'
  <2> SUFFICES ASSUME pc' = "reload" PROVE ReloadInv(H)'
    BY DEF ReloadInv
  <2>1. PICK lines \in Seq(LineType) : lines = file'[source']
    BY DEF TreeInv, StateType
  <2>2. 0 \in 0 .. Len(lines) /\ todo' = SubSeq(lines, 0 + 1, Len(lines))
    BY <2>1
  <2>3. SaveTree' = SubSeq(lines, 1, 0)
    BY SaveTreeEmpty, SubSeqEmpty
  <2>4. LinesRun(H, lines, 0)'
    BY <2>2, <2>3 DEF LinesRun
  <2>5. \E n \in 0 .. Len(file'[source']) : LinesRun(H, file[source], n)'
    BY <2>1, <2>2, <2>4
  <2> QED BY <1>1, <2>5 DEF ReloadInv
<1> QED BY <1>1, <1>3, <1>4, <1>5, <1>6 DEF TreeInv, Facts

\* reload() starts from a new root.
LEMMA ReloadTree ==
  ASSUME TreeInv, NEW f \in Files, Reload(f)
  PROVE  TreeInv'
<1>1. file[f] \in Seq(LineType)
  BY DEF TreeInv, StateType, Reload
<1> QED BY <1>1, InitializeTree DEF Reload, TreeInv, StateType

\* And so does a new session.
LEMMA RestartTree ==
  ASSUME TreeInv, Restart
  PROVE  TreeInv'
<1>1. <<>> \in Seq(Label)
  OBVIOUS
<1> QED BY <1>1, InitializeTree DEF Restart, TreeInv, StateType, reloading

\* While reload() runs.
LEMMA Reloading ==
  ASSUME StateType, SavedInv, NEW G, Facts(G), pc = "reload"
  PROVE  \E lines \in Seq(LineType), n \in Nat :
           /\ lines = file[source] /\ n \in 0 .. Len(lines) /\ LinesRun(G, lines, n)
           /\ Preorder(lines) /\ \A i \in DOMAIN lines : NoUpInside(Front(lines[i].names))
<1>1. source \in Files /\ file[source] # NoFile
  BY DEF Facts, ReloadInv
<1>2. PICK lines \in Seq(LineType) : lines = file[source]
  BY <1>1 DEF StateType
<1>3. PICK n \in 0 .. Len(lines) : LinesRun(G, lines, n)
  BY <1>2 DEF Facts, ReloadInv
<1>4. Preorder(lines) /\ \A i \in DOMAIN lines : NoUpInside(Front(lines[i].names))
  BY <1>1, <1>2 DEF SavedInv
<1> QED BY <1>2, <1>3, <1>4

\* After n lines l is next.
NextLine(lines, n, l) == n + 1 \in 1 .. Len(lines) /\ l = lines[n + 1] /\ l = Head(todo)

\* As long as there are lines to run there is a next one.
LEMMA NextLineIs ==
  ASSUME NEW G, NEW lines \in Seq(LineType), NEW n \in Nat, n \in 0 .. Len(lines),
         LinesRun(G, lines, n), todo # <<>>
  PROVE  /\ \E l \in LineType : NextLine(lines, n, l)
         /\ Tail(todo) = SubSeq(lines, (n + 1) + 1, Len(lines))
<1>1. Len(lines) \in Nat /\ todo = SubSeq(lines, n + 1, Len(lines))
  BY DEF LinesRun
<1>2. n # Len(lines)
  <2>1. SUFFICES ASSUME n = Len(lines) PROVE FALSE
    OBVIOUS
  <2>2. SubSeq(lines, n + 1, Len(lines)) = <<>>
    BY <1>1, <2>1, SubSeqEmpty
  <2> QED BY <1>1, <2>2
<1>3. n + 1 \in 1 .. Len(lines) /\ Len(lines) \in n + 1 .. Len(lines)
  BY <1>1, <1>2
<1>4. /\ Head(SubSeq(lines, n + 1, Len(lines))) = lines[n + 1]
      /\ Tail(SubSeq(lines, n + 1, Len(lines))) = SubSeq(lines, (n + 1) + 1, Len(lines))
  BY <1>3, HeadTailOfSubSeq
<1>5. lines[n + 1] \in LineType
  BY <1>3
<1> QED BY <1>1, <1>3, <1>4, <1>5 DEF NextLine

\* It names a node in a directory that is there and at the end of its list.
LEMMA LineLeads ==
  ASSUME NEW G, NamedTree(G), NEW lines \in Seq(LineType), NEW n \in Nat,
         LinesRun(G, lines, n), Preorder(lines), NEW l \in LineType, NextLine(lines, n, l)
  PROVE  \E c \in used : kind[c] = "D" /\ G[c] = Front(l.names) /\ AtEnd(G, c)
<1>1. n + 1 \in DOMAIN lines /\ l = lines[n + 1] /\ (n + 1) - 1 = n /\ (n + 1 = 1 <=> n = 0)
  BY DEF NextLine
<1>2. PICK s \in Seq(Label) : s = l.names /\ s # <<>>
  BY DEF LineType
<1>3. Front(s) \in Seq(Label) /\ Len(Front(s)) = Len(s) - 1
  BY <1>2, FrontIs
<1>4. IF n = 0 THEN Len(s) = 1 ELSE Follows(l, lines[n])
  <2>1. IF n + 1 = 1 THEN Len(lines[n + 1].names) = 1 ELSE Follows(lines[n + 1], lines[(n + 1) - 1])
    BY <1>1 DEF Preorder
  <2> QED BY <1>1, <1>2, <2>1
<1>5. CASE Len(s) = 1
  <2>1. Front(s) = <<>>
    BY <1>3, <1>5, EmptySeq
  <2>2. root \in used /\ kind[root] = "D" /\ G[root] = <<>>
    BY DEF NamedTree, IsTree, Naming
  <2> QED BY <1>2, <2>1, <2>2, AtEndRoot
<1>6. CASE Len(s) # 1
  <2>1. n # 0 /\ Follows(l, lines[n])
    BY <1>4, <1>6
  <2>2. PICK u \in used \ {root} : [kind |-> kind[u], names |-> G[u]] = lines[n] /\ AtEnd(G, u)
    BY <2>1 DEF LinesRun
  <2>3. lines[n].kind = kind[u] /\ lines[n].names = G[u]
    <3>1. PICK e : e = [kind |-> kind[u], names |-> G[u]]
      OBVIOUS
    <3>2. e.kind = kind[u] /\ e.names = G[u]
      BY <3>1
    <3> QED BY <2>2, <3>1, <3>2
  <2>4. (kind[u] = "D" /\ Front(s) = G[u]) \/ IsStrictPrefix(Front(s), G[u])
    BY <1>2, <1>6, <2>1, <2>3 DEF Follows
  <2>5. CASE kind[u] = "D" /\ Front(s) = G[u]
    BY <1>2, <2>2, <2>5
  <2>6. CASE IsStrictPrefix(Front(s), G[u])
    <3>1. G[u] \in Seq(Label) /\ u \in used
      BY DEF NamedTree, Naming
    <3>2. PICK b \in Seq(Label) : b # <<>> /\ G[u] = Front(s) \o b
      BY <1>3, <2>6, <3>1, PrefixSplit
    <3>3. Below(G, u, Front(s), b)
      BY <3>2 DEF Below
    <3>4. PICK c \in used : kind[c] = "D" /\ G[c] = Front(s)
      BY <1>3, <3>1, <3>3, Ancestor
    <3>5. AtEnd(G, c)
      BY <2>2, <2>6, <3>1, <3>4, AtEndAbove
    <3> QED BY <1>2, <3>4, <3>5
  <2> QED BY <2>4, <2>5, <2>6
<1> QED BY <1>5, <1>6

\* It is new.
LEMMA LineIsNew ==
  ASSUME NEW G, NamedTree(G), Reachable(G), NEW lines \in Seq(LineType), NEW n \in Nat,
         LinesRun(G, lines, n), Preorder(lines), NEW l \in LineType, NextLine(lines, n, l)
  PROVE  l \notin EntriesOf(G)
<1>1. SUFFICES ASSUME l \in EntriesOf(G) PROVE FALSE
  OBVIOUS
<1>2. n + 1 \in DOMAIN lines /\ l = lines[n + 1] /\ n <= Len(lines)
  BY DEF NextLine
<1>3. PICK first : first = SubSeq(lines, 1, n)
  OBVIOUS
<1>4. l \in ToSet(first)
  BY <1>1, <1>3, SaveTreeOrdered DEF LinesRun
<1>5. DOMAIN first = 1 .. n /\ \A i \in 1 .. n : first[i] = lines[i]
  BY <1>2, <1>3
<1>6. PICK i \in 1 .. n : l = lines[i]
  BY <1>4, <1>5 DEF ToSet
<1>7. i \in DOMAIN lines
  BY <1>2
<1>8. i = n + 1
  BY <1>2, <1>6, <1>7 DEF Preorder
<1> QED BY <1>8

\* With the line in the tree one line more has been run.
LEMMA LineRun ==
  ASSUME NEW G, NamedTree(G), NEW lines \in Seq(LineType), NEW n \in Nat,
         LinesRun(G, lines, n), NEW l \in LineType, NextLine(lines, n, l),
         NEW c \in used, kind[c] = "D", AtEnd(G, c), NEW k \in {"D", "F"}, NEW a \in Label,
         l = [kind |-> k, names |-> Append(G[c], a)],
         NEW H, NEW m, Added(G, c, k, a, H, m), Linked(c, a, m),
         todo' = SubSeq(lines, (n + 1) + 1, Len(lines))
  PROVE  LinesRun(H, lines, n + 1)'
<1>1. n + 1 \in 1 .. Len(lines) /\ l = lines[n + 1] /\ Len(lines) \in Nat
  BY DEF NextLine
<1>2. SaveTree' = SaveTree \o <<l>>
  BY SaveTreeGrows
<1>3. SaveTree = SubSeq(lines, 1, n)
  BY DEF LinesRun
<1>4. SubSeq(lines, 1, n) \o <<l>> = SubSeq(lines, 1, n + 1)
  <2>1. SubSeq(lines, 1, n) \o SubSeq(lines, n + 1, n + 1) = SubSeq(lines, 1, n + 1)
    <3>1. 1 \in 1 .. Len(lines) + 1 /\ n \in 1 - 1 .. Len(lines) /\ n + 1 \in n .. Len(lines)
      BY <1>1
    <3> QED BY <3>1, ConcatAdjacentSubSeq
  <2>2. SubSeq(lines, n + 1, n + 1) = <<lines[n + 1]>>
    <3>1. PICK j \in 1 .. Len(lines) : j = n + 1
      BY <1>1
    <3>2. PICK s : s = SubSeq(lines, j, j)
      OBVIOUS
    <3>3. s \in Seq(LineType) /\ Len(s) = 1 /\ s[1] = lines[j]
      BY <3>2
    <3>4. s = <<lines[j]>>
      BY <3>3
    <3> QED BY <3>1, <3>2, <3>4
  <2> QED BY <1>1, <2>1, <2>2
<1>5. m \in used' \ {root} /\ [kind |-> kind'[m], names |-> H[m]] = lines[n + 1]
  <2>1. m \notin used /\ used' = used \union {m} /\ kind'[m] = k /\ H[m] = Append(G[c], a)
    BY DEF Added
  <2>2. root \in used
    BY DEF NamedTree, IsTree
  <2> QED BY <1>1, <2>1, <2>2
<1>6. AtEnd(H, m)'
  BY AtEndNew
<1> QED BY <1>2, <1>3, <1>4, <1>5, <1>6 DEF LinesRun

\* One line of the file.
LEMMA ReloadLineTree ==
  ASSUME TreeInv, ReloadLine
  PROVE  TreeInv'
<1> PICK G : Facts(G)
  BY DEF TreeInv
<1>0. NamedTree(G) /\ PromptInv(G) /\ Reachable(G) /\ start = root
  BY DEF Facts, ReloadInv, ReloadLine
<1>1. StateType /\ SavedInv /\ pc = "reload" /\ todo # <<>> /\ todo \in Seq(LineType)
  BY DEF TreeInv, StateType, ReloadLine
<1>2. PICK lines \in Seq(LineType), i \in Nat :
        /\ lines = file[source] /\ i \in 0 .. Len(lines) /\ LinesRun(G, lines, i)
        /\ Preorder(lines) /\ \A j \in DOMAIN lines : NoUpInside(Front(lines[j].names))
  BY <1>1, Reloading
<1>3. PICK l \in LineType : NextLine(lines, i, l)
  BY <1>1, <1>2, NextLineIs
<1>4. PICK c \in used : kind[c] = "D" /\ G[c] = Front(l.names) /\ AtEnd(G, c)
  BY <1>0, <1>2, <1>3, LineLeads
<1>5. PICK k \in {"D", "F"}, n \in Label :
        k = l.kind /\ n = Last(l.names) /\ l = [kind |-> k, names |-> Append(G[c], n)]
  <2>1. PICK k \in {"D", "F"}, s \in Seq(Label) : l = [kind |-> k, names |-> s] /\ s # <<>>
    BY DEF LineType
  <2>2. l.kind = k /\ l.names = s
    BY <2>1
  <2>3. Last(s) \in Label /\ s = Append(Front(s), Last(s))
    BY <2>1, FrontIs
  <2> QED BY <1>4, <2>1, <2>2, <2>3
<1>6. c \in Nodes /\ NoUpInside(G[c])
  <2>1. c \in Nodes
    BY <1>0 DEF NamedTree, HeapType
  <2>2. l = lines[i + 1] /\ i + 1 \in DOMAIN lines
    BY <1>3 DEF NextLine
  <2> QED BY <1>2, <1>4, <2>1, <2>2
<1>7. c = LocateDir(LineOrigin, Front(l.names)).node
  <2>1. LocateDir([node |-> root, path |-> <<>>], G[c]).node = c
    BY <1>0, <1>4, <1>6, PathLeads
  <2> QED BY <1>4, <2>1 DEF LineOrigin
<1>8. ~Exists(c, k, n)
  <2>1. SUFFICES ASSUME Exists(c, k, n) PROVE l \in EntriesOf(G)
    BY <1>0, <1>2, <1>3, LineIsNew
  <2>2. kids[c] \in Seq(Nodes)
    BY <1>0, <1>6 DEF NamedTree, HeapType
  <2>3. PICK j \in 1 .. Len(kids[c]) : kind[kids[c][j]] = k /\ name[kids[c][j]] = n
    BY <2>1, <2>2, PositionIs DEF Exists
  <2>4. kids[c][j] \in used \ {root} /\ G[kids[c][j]] = Append(G[c], n)
    BY <1>0, <2>3, KidIs
  <2> QED BY <1>5, <2>3, <2>4 DEF EntriesOf
<1>9. /\ AddNode(c, k, n) /\ todo' = Tail(todo)
      /\ UNCHANGED <<start, pathname, file, dirty, pc, source>>
  <2>1. l = Head(todo)
    BY <1>3 DEF NextLine
  <2>2. n # NoName
    BY PathAssumption DEF Label, NoName, Blank
  <2>3. LineNames(l) = l.names /\ l.names # <<>>
    BY <1>5, <2>2 DEF LineNames, LineType
  <2>4. PICK at : at = Split(l)
    OBVIOUS
  <2>5. at.dname = Front(l.names) /\ at.bname = n
    BY <1>5, <2>3, <2>4 DEF Split
  <2> QED BY <1>5, <1>6, <1>7, <1>8, <2>1, <2>4, <2>5 DEF ReloadLine
<1>10. start \in used
  BY <1>1 DEF StateType
<1>11. PICK H, m : NamedTree(H)' /\ Added(G, c, k, n, H, m) /\ Linked(c, n, m)
  BY <1>0, <1>4, <1>8, <1>9, <1>10, AddNodeKeeps
<1>12. PromptInv(H)'
  BY <1>0, <1>1, <1>9, <1>10, <1>11, PromptKept DEF Added
<1>13. StateType'
  BY <1>1, <1>9, <1>11 DEF StateType, Added
<1>14. Reachable(H)'
  BY <1>0, <1>6, <1>11, AddedEntry
<1>15. ReloadInv(H)'
  <2>1. todo' = SubSeq(lines, (i + 1) + 1, Len(lines))
    BY <1>1, <1>2, <1>9, NextLineIs
  <2>2. LinesRun(H, lines, i + 1)'
    BY <1>0, <1>2, <1>3, <1>4, <1>5, <1>11, <2>1, LineRun
  <2>3. lines = file'[source'] /\ source' \in Files /\ file'[source'] # NoFile /\ start' = root
    BY <1>0, <1>1, <1>2, <1>9 DEF Facts, ReloadInv
  <2>4. i + 1 \in 0 .. Len(lines)
    BY <1>3 DEF NextLine
  <2>5. \E j \in 0 .. Len(lines) : LinesRun(H, lines, j)'
    BY <2>2, <2>4
  <2> QED BY <2>3, <2>5 DEF ReloadInv
<1>16. SavedInv'
  BY <1>1, <1>9 DEF SavedInv
<1> QED BY <1>11, <1>12, <1>13, <1>14, <1>15, <1>16 DEF TreeInv, Facts

\* The same heap is written the same.
LEMMA SaveTreeKept ==
  ASSUME UNCHANGED <<name, kind, kids>>
  PROVE  SaveTree' = SaveTree
BY DEF SaveTree, Subtree

\* Everything else leaves the tree alone.
LEMMA StutterTree ==
  ASSUME TreeInv, UNCHANGED <<heap, start, pathname, file, dirty, reloading>>,
         pc' \in {pc, "prompt"}
  PROVE  TreeInv'
<1> PICK G : Facts(G) /\ NamedTree(G) /\ PromptInv(G)
  BY DEF TreeInv, Facts
<1>1. NamedTree(G)' /\ PromptInv(G)'
  BY DEF NamedTree, HeapType, IsTree, Naming, heap, PromptInv
<1>2. StateType'
  BY DEF TreeInv, StateType, heap, reloading
<1>3. Reachable(G)' /\ SavedInv'
  BY DEF TreeInv, Facts, Reachable, SavedInv, heap
<1>4. ReloadInv(G)'
  <2> SUFFICES ASSUME pc' = "reload" PROVE ReloadInv(G)'
    BY DEF ReloadInv
  <2>1. pc = "reload" /\ ReloadInv(G)
    BY DEF Facts
  <2>2. PICK n \in 0 .. Len(file[source]) : LinesRun(G, file[source], n)
    BY <2>1 DEF ReloadInv
  <2>3. LinesRun(G, file[source], n)'
    <3>1. SaveTree' = SaveTree
      BY SaveTreeKept DEF heap
    <3> QED BY <2>2, <3>1 DEF LinesRun, AtEnd, heap, reloading
  <2> QED BY <2>1, <2>3 DEF ReloadInv, reloading
<1> QED BY <1>1, <1>2, <1>3, <1>4 DEF TreeInv, Facts

\* The program as it is used in the passing run: nobody removes the directory
\* he is in, no saved listing is long enough to dirty a new root, and mkdir and
\* creat are typed with a name.
Careful == ~RemovesCurrent /\ ~LongText /\ NamesGiven

\* The invariant is inductive.
LEMMA NextTree ==
  ASSUME Careful, TreeInv, [Next]_vars
  PROVE  TreeInv'
<1>1. CASE UNCHANGED vars
  BY <1>1, StutterTree DEF vars, TreeInv, StateType
<1>2. ASSUME NEW k \in {"D", "F"}, NEW p \in NewPaths[k], Make(k, p) PROVE TreeInv'
  BY <1>2, MakeTree DEF Careful
<1>3. ASSUME NEW k \in {"D", "F"}, NEW p \in OldPaths[k], Unlink(k, p) PROVE TreeInv'
  BY <1>3, UnlinkTree DEF Careful
<1>4. ASSUME NEW p \in Paths, Cd(p) PROVE TreeInv'
  BY <1>4, CdTree
<1>5. ASSUME NEW p \in Paths, Ls(p) PROVE TreeInv'
  BY <1>1, <1>5, LsTree
<1>6. ASSUME NEW f \in Files, Save(f) PROVE TreeInv'
  BY <1>6, WrittenTree DEF Save, Careful
<1>7. ASSUME NEW f \in Files, Reload(f) PROVE TreeInv'
  BY <1>7, ReloadTree
<1>8. CASE ReloadLine
  BY <1>8, ReloadLineTree
<1>9. CASE ReloadDone
  <2>1. dirty' = dirty /\ UNCHANGED <<heap, start, pathname, file, reloading>> /\ pc' = "prompt"
    BY <1>9 DEF ReloadDone, IsLong, Careful, TreeInv, StateType
  <2> QED BY <2>1, StutterTree
<1>10. CASE Pwd
  BY <1>1, <1>10, PwdTree
<1>11. CASE Quit
  BY <1>11, WrittenTree, PathAssumption DEF Quit, Careful
<1>12. CASE Restart
  BY <1>12, RestartTree
<1> QED BY <1>1, <1>2, <1>3, <1>4, <1>5, <1>6, <1>7, <1>8, <1>9, <1>10, <1>11, <1>12 DEF Next

-----------------------------------------------------------------------------
(***************************************************************************)
(* FileTree: what the operators of the two have in common, and Resolve.    *)
(***************************************************************************)

\* The operators that FileTree shares with the program.
LEMMA SameOperators ==
  /\ Abstract!NoName = NoName /\ Abstract!Nowhere = <<NoName>>
  /\ \A s : Abstract!Dname(s) = Dname(s) /\ Abstract!Bname(s) = Bname(s)
  /\ \A s : Abstract!Front(s) = Front(s)
  /\ \A s, t : Abstract!IsStrictPrefix(s, t) = IsStrictPrefix(s, t)
BY DEF Abstract!NoName, NoName, Abstract!Nowhere, Abstract!Dname, Dname, Abstract!Bname, Bname,
       Abstract!Front, Front, Abstract!Last, Last, Abstract!IsStrictPrefix, IsStrictPrefix,
       Abstract!IsPrefix, IsPrefix

\* What is in the tree, and the path of a node, in terms of a naming.
LEMMA EntriesAre ==
  \A G : NamedTree(G) => Entries = EntriesOf(G) /\ \A n \in used : GetPath(n) = G[n]
<1> SUFFICES ASSUME NEW G, NamedTree(G)
             PROVE  Entries = EntriesOf(G) /\ \A n \in used : GetPath(n) = G[n]
  OBVIOUS
<1>1. \A n \in used : GetPath(n) = G[n]
  BY GetPathIs
<1> QED BY <1>1 DEF Entries, EntriesOf

\* And in the next state.
LEMMA EntriesNext ==
  \A G : NamedTree(G)' => Entries' = EntriesOf(G)' /\ \A n \in used' : GetPath(n)' = G[n]
<1>1. (\A G : NamedTree(G) => Entries = EntriesOf(G) /\ \A n \in used : GetPath(n) = G[n])'
  BY EntriesAre, PTL
<1> QED BY <1>1

\* One name of Resolve.
NextName(a, n) ==
  IF a = Abstract!Nowhere THEN Abstract!Nowhere
  ELSE IF n = ".." /\ a # <<>> THEN Abstract!Front(a)
  ELSE IF Abstract!IsDir(Append(a, n)) THEN Append(a, n)
  ELSE Abstract!Nowhere

\* at is the walk of Resolve over n names from w.
IsWay(at, w, names, n) ==
  at = [i \in 0 .. n |-> IF i = 0 THEN w ELSE NextName(at[i-1], names[i])]

\* There is a walk over any number of names.
LEMMA WayExists ==
  ASSUME NEW w, NEW names
  PROVE  \A n \in Nat : \E at : IsWay(at, w, names, n)
<1> DEFINE S == {n \in Nat : \E at : IsWay(at, w, names, n)}
<1>1. 0 \in S
  <2>1. IsWay([i \in 0 .. 0 |-> w], w, names, 0)
    BY DEF IsWay
  <2> QED BY <2>1
<1>2. ASSUME NEW n \in Nat, n \in S PROVE n + 1 \in S
  <2>1. PICK at : IsWay(at, w, names, n)
    BY <1>2
  <2> DEFINE to == [i \in 0 .. n + 1 |-> IF i = n + 1 THEN NextName(at[n], names[n + 1]) ELSE at[i]]
  <2>2. ASSUME NEW i \in 0 .. n + 1
        PROVE  to[i] = IF i = 0 THEN w ELSE NextName(to[i-1], names[i])
    <3>1. CASE i = n + 1
      BY <3>1
    <3>2. CASE i # n + 1
      <4>1. i \in 0 .. n /\ to[i] = at[i] /\ (i # 0 => to[i-1] = at[i-1])
        BY <3>2
      <4> QED BY <2>1, <4>1 DEF IsWay
    <3> QED BY <3>1, <3>2
  <2>3. IsWay(to, w, names, n + 1)
    BY <2>2 DEF IsWay
  <2> QED BY <2>3
<1> HIDE DEF S
<1>3. \A n \in Nat : n \in S
  BY <1>1, <1>2, NaturalsIn
<1> QED BY <1>3 DEF S

\* Resolve ends where its walk does.
LEMMA ResolveWalks ==
  ASSUME NEW w, NEW names, Len(names) \in Nat
  PROVE  \E at : IsWay(at, w, names, Len(names)) /\ Abstract!Resolve(w, names) = at[Len(names)]
<1>1. \E at : IsWay(at, w, names, Len(names))
  BY WayExists
<1>2. IsWay(CHOOSE at : IsWay(at, w, names, Len(names)), w, names, Len(names))
  BY <1>1
<1>3. Abstract!Resolve(w, names) = (CHOOSE at : IsWay(at, w, names, Len(names)))[Len(names)]
  BY DEF Abstract!Resolve, IsWay, NextName
<1> QED BY <1>2, <1>3

\* No names lead nowhere else.
LEMMA ResolveNothing ==
  ASSUME NEW w
  PROVE  Abstract!Resolve(w, <<>>) = w
<1>1. Len(<<>>) = 0
  OBVIOUS
<1>2. PICK at : IsWay(at, w, <<>>, Len(<<>>)) /\ Abstract!Resolve(w, <<>>) = at[Len(<<>>)]
  BY <1>1, ResolveWalks
<1> QED BY <1>1, <1>2 DEF IsWay

\* The last name is looked up where the names before it lead.
LEMMA ResolveLast ==
  ASSUME NEW w, NEW S, NEW s \in Seq(S), NEW x \in S
  PROVE  Abstract!Resolve(w, Append(s, x)) = NextName(Abstract!Resolve(w, s), x)
<1> DEFINE t == Append(s, x)
           n == Len(s)
<1>1. n \in Nat /\ Len(t) = n + 1 /\ t[n + 1] = x /\ \A i \in 1 .. n : t[i] = s[i]
  BY AppendIs
<1> HIDE DEF n
<1>2. PICK a : IsWay(a, w, s, n) /\ Abstract!Resolve(w, s) = a[n]
  BY <1>1, ResolveWalks DEF n
<1>3. PICK b : IsWay(b, w, t, n + 1) /\ Abstract!Resolve(w, t) = b[n + 1]
  <2>1. Len(t) \in Nat
    BY <1>1
  <2>2. PICK b : IsWay(b, w, t, Len(t)) /\ Abstract!Resolve(w, t) = b[Len(t)]
    BY <2>1, ResolveWalks
  <2> QED BY <1>1, <2>2
<1> HIDE DEF t
<1>4. a[0] = w /\ \A i \in 1 .. n : a[i] = NextName(a[i-1], s[i])
  BY <1>1, <1>2 DEF IsWay
<1>5. b[0] = w /\ \A i \in 1 .. n + 1 : b[i] = NextName(b[i-1], t[i])
  BY <1>1, <1>3 DEF IsWay
<1> DEFINE T == {i \in Nat : i <= n => a[i] = b[i]}
<1>6. 0 \in T
  BY <1>4, <1>5
<1>7. ASSUME NEW i \in Nat, i \in T PROVE i + 1 \in T
  <2>1. SUFFICES ASSUME i + 1 <= n PROVE a[i + 1] = b[i + 1]
    OBVIOUS
  <2>2. i + 1 \in 1 .. n /\ i + 1 \in 1 .. n + 1 /\ (i + 1) - 1 = i /\ a[i] = b[i]
    BY <1>1, <1>7, <2>1
  <2>3. a[i + 1] = NextName(a[i], s[i + 1]) /\ b[i + 1] = NextName(b[i], t[i + 1])
    BY <1>4, <1>5, <2>2
  <2> QED BY <1>1, <2>2, <2>3
<1>8. n \in T
  <2> HIDE DEF T
  <2> QED BY <1>1, <1>6, <1>7, NaturalsIn
<1>9. a[n] = b[n] /\ n + 1 \in 1 .. n + 1 /\ (n + 1) - 1 = n
  BY <1>1, <1>8
<1>10. b[n + 1] = NextName(b[n], t[n + 1])
  BY <1>5, <1>9
<1> QED BY <1>1, <1>2, <1>3, <1>9, <1>10 DEF t

\* The path of a walk.
Bar(G, w) == IF w.node = NULL THEN Abstract!Nowhere ELSE G[w.node]

\* No node is nowhere.
LEMMA NotNowhere ==
  ASSUME NEW G, NamedTree(G), NEW x \in used
  PROVE  G[x] # Abstract!Nowhere
<1>1. G[x] \in Seq(Label)
  BY DEF NamedTree, Naming
<1>2. NoName \notin Label
  BY PathAssumption DEF Label, NoName, Blank
<1>3. ASSUME G[x] = <<NoName>> PROVE FALSE
  <2>1. <<NoName>> \in Seq(Label) /\ Len(<<NoName>>) = 1 /\ <<NoName>>[1] = NoName
    BY <1>1, <1>3
  <2> QED BY <1>2, <2>1
<1> QED BY <1>3, SameOperators

\* A directory of the list is a directory of the set.
LEMMA DirIs ==
  ASSUME NEW G, NamedTree(G), AbstractTree = EntriesOf(G), NEW c \in used, kind[c] = "D",
         NEW n \in Label
  PROVE  Abstract!IsDir(Append(G[c], n)) <=> Position(c, "D", n) # 0
<1>1. PICK i : i = Position(c, "D", n)
  OBVIOUS
<1>2. kids[c] \in Seq(Nodes) /\ G[c] \in Seq(Label)
  BY DEF NamedTree, HeapType, Naming
<1>3. Append(G[c], n) # <<>>
  <2>1. Len(Append(G[c], n)) = Len(G[c]) + 1 /\ Len(G[c]) \in Nat /\ Len(<<>>) = 0
    BY <1>2
  <2>2. Len(Append(G[c], n)) # Len(<<>>)
    BY <2>1
  <2> QED BY <2>2, Zenon
<1>4. Abstract!IsDir(Append(G[c], n)) <=>
        \E x \in used \ {root} : kind[x] = "D" /\ G[x] = Append(G[c], n)
  <2>1. Abstract!IsDir(Append(G[c], n)) <=>
          [kind |-> "D", names |-> Append(G[c], n)] \in EntriesOf(G)
    BY <1>3, Zenon DEF Abstract!IsDir, Abstract!Entry
  <2>2. PICK t : t = Append(G[c], n)
    OBVIOUS
  <2>3. [kind |-> "D", names |-> t] \in EntriesOf(G) <=>
          \E x \in used \ {root} : kind[x] = "D" /\ G[x] = t
    BY DEF EntriesOf
  <2> QED BY <2>1, <2>2, <2>3, Zenon
<1>5. CASE i # 0
  <2>1. i \in 1 .. Len(kids[c]) /\ kind[kids[c][i]] = "D" /\ name[kids[c][i]] = n
    BY <1>1, <1>2, <1>5, PositionIs
  <2>2. kids[c][i] \in used \ {root} /\ G[kids[c][i]] = Append(G[c], n)
    BY <2>1, KidIs
  <2> QED BY <1>1, <1>4, <1>5, <2>1, <2>2
<1>6. CASE i = 0
  <2>1. SUFFICES ASSUME NEW x \in used \ {root}, kind[x] = "D", G[x] = Append(G[c], n)
                 PROVE  FALSE
    BY <1>1, <1>4, <1>6
  <2>2. PICK s \in Seq(Label) : s = <<n>> /\ Head(s) = n /\ Tail(s) = <<>> /\ s # <<>>
    <3>1. <<n>> \in Seq(Label) /\ Head(<<n>>) = n /\ Tail(<<n>>) = <<>> /\ <<n>> # <<>>
      OBVIOUS
    <3> QED BY <3>1
  <2>3. Below(G, x, G[c], s)
    BY <1>2, <2>1, <2>2, AppendIsConcat DEF Below
  <2>4. PICK j \in 1 .. Len(kids[c]) : StepTo(G, kids[c][j], x, s)
    BY <2>3, FirstStep
  <2>5. kids[c][j] = x /\ name[x] = n
    BY <2>2, <2>4 DEF StepTo
  <2>6. kind[kids[c][j]] = "D" /\ name[kids[c][j]] = n
    BY <2>1, <2>5
  <2>7. i # 0
    BY <1>1, <1>2, <2>6, PositionIs
  <2> QED BY <1>6, <2>7
<1> QED BY <1>5, <1>6

\* One token of locateDir() is one name of Resolve.
LEMMA NameSim ==
  ASSUME NEW G, NamedTree(G), AbstractTree = EntriesOf(G), NEW w, WalkOK(w, G), NEW n \in Label
  PROVE  NextName(Bar(G, w), n) = Bar(G, Token(w, n))
<1>1. CASE w.node = NULL
  <2>1. Token(w, n) = w
    BY <1>1 DEF Token, NULL, Nodes
  <2> QED BY <1>1, <2>1 DEF NextName, Bar
<1>2. CASE w.node # NULL
  <2>1. PICK c \in used : c = w.node
    BY <1>2 DEF WalkOK
  <2>2. /\ c \in Nodes /\ kind[c] = "D" /\ EndsWith(w.path, G[c])
        /\ w.path \in Seq(Label) /\ G[c] \in Seq(Label)
    BY <1>2, <2>1 DEF WalkOK, NamedTree, HeapType, Naming
  <2>3. Bar(G, w) = G[c] /\ G[c] # Abstract!Nowhere
    BY <1>2, <2>1, NotNowhere DEF Bar
  <2>4. c = root <=> G[c] = <<>>
    <3>1. G[root] = <<>>
      BY DEF NamedTree, Naming
    <3>2. ASSUME c # root PROVE G[c] # <<>>
      <4>1. G[parent[c]] \in Seq(Label) /\ Len(G[c]) = Len(G[parent[c]]) + 1
        BY <3>2, ParentIs
      <4>2. Len(G[c]) # Len(<<>>)
        BY <4>1
      <4> QED BY <4>2
    <3> QED BY <3>1, <3>2
  <2>5. CASE n = ".." /\ c # root
    <3>1. parent[c] \in used /\ parent[c] \in Nodes /\ Front(G[c]) = G[parent[c]]
      BY <2>5, ParentIs
    <3>2. w.path # <<>>
      BY <2>2, <2>4, <2>5, EndsFront
    <3>3. Token(w, n).node = parent[c]
      BY <2>1, <2>2, <2>5, <3>2 DEF Token
    <3>4. Bar(G, Token(w, n)) = Front(G[c])
      BY <3>1, <3>3 DEF Bar, NULL, Nodes
    <3>5. NextName(G[c], n) = Front(G[c])
      BY <2>3, <2>4, <2>5, SameOperators DEF NextName
    <3> QED BY <2>3, <3>4, <3>5
  <2>6. CASE ~(n = ".." /\ c # root)
    <3>1. PICK i : i = Position(c, "D", n)
      OBVIOUS
    <3>2. Token(w, n).node = IF i = 0 THEN NULL ELSE kids[c][i]
      BY <2>1, <2>2, <2>6, <3>1 DEF Token
    <3>3. Abstract!IsDir(Append(G[c], n)) <=> i # 0
      BY <2>2, <3>1, DirIs
    <3>4. NextName(G[c], n) = IF i # 0 THEN Append(G[c], n) ELSE Abstract!Nowhere
      <4>1. NextName(G[c], n) = IF Abstract!IsDir(Append(G[c], n)) THEN Append(G[c], n) ELSE Abstract!Nowhere
        BY <2>3, <2>4, <2>6, Zenon DEF NextName
      <4> QED BY <3>3, <4>1, Zenon
    <3>5. CASE i = 0
      BY <2>3, <3>2, <3>4, <3>5 DEF Bar
    <3>6. CASE i # 0
      <4>1. kids[c] \in Seq(Nodes)
        BY <2>2 DEF NamedTree, HeapType
      <4>2. i \in 1 .. Len(kids[c]) /\ name[kids[c][i]] = n
        BY <3>1, <3>6, <4>1, PositionIs
      <4>3. kids[c][i] \in Nodes /\ G[kids[c][i]] = Append(G[c], n)
        BY <4>2, KidIs
      <4>4. Bar(G, Token(w, n)) = Append(G[c], n)
        BY <3>2, <3>6, <4>3 DEF Bar, NULL, Nodes
      <4> QED BY <2>3, <3>4, <3>6, <4>4
    <3> QED BY <3>5, <3>6
  <2> QED BY <2>5, <2>6
<1> QED BY <1>1, <1>2

\* locateDir() is Resolve.
LEMMA LocateSim ==
  ASSUME NEW G, NamedTree(G), AbstractTree = EntriesOf(G), NEW w, WalkOK(w, G),
         NEW names \in Seq(Label)
  PROVE  Abstract!Resolve(Bar(G, w), names) = Bar(G, LocateDir(w, names))
<1> DEFINE Sim(s) == Abstract!Resolve(Bar(G, w), s) = Bar(G, LocateDir(w, s))
           S == {k \in Nat : \A s \in Seq(Label) : Len(s) = k => Sim(s)}
<1>1. 0 \in S
  <2>1. ASSUME NEW s \in Seq(Label), Len(s) = 0 PROVE Sim(s)
    <3>1. s = <<>>
      BY <2>1
    <3> QED BY <3>1, LocateNothing, ResolveNothing
  <2> QED BY <2>1
<1>2. ASSUME NEW k \in Nat, k \in S PROVE k + 1 \in S
  <2>1. ASSUME NEW s \in Seq(Label), Len(s) = k + 1 PROVE Sim(s)
    <3>1. s # <<>>
      BY <2>1
    <3>2. PICK t \in Seq(Label), x \in Label : s = Append(t, x) /\ Len(t) = k
      <4>1. /\ Front(s) \in Seq(Label) /\ Len(Front(s)) = k /\ Last(s) \in Label
            /\ s = Append(Front(s), Last(s))
        BY <2>1, <3>1, FrontIs
      <4> QED BY <4>1
    <3>3. Sim(t)
      BY <1>2, <3>2
    <3>4. LocateDir(w, Append(t, x)) = Token(LocateDir(w, t), x)
      BY LocateLast
    <3>5. Abstract!Resolve(Bar(G, w), Append(t, x)) = NextName(Abstract!Resolve(Bar(G, w), t), x)
      BY ResolveLast
    <3>6. PICK v : v = LocateDir(w, t)
      OBVIOUS
    <3>7. NextName(Bar(G, v), x) = Bar(G, Token(v, x))
      BY <3>6, LocateOK, NameSim
    <3> QED BY <3>2, <3>3, <3>4, <3>5, <3>6, <3>7, Zenon
  <2> QED BY <2>1
<1>3. \A k \in Nat : k \in S
  <2> HIDE DEF S
  <2> QED BY <1>1, <1>2, NaturalsIn
<1>4. Len(names) \in Nat
  OBVIOUS
<1> QED BY <1>3, <1>4

-----------------------------------------------------------------------------
(***************************************************************************)
(* FileTree: every step is one of the set of entries, or none.             *)
(***************************************************************************)

\* The abstract state at the prompt, in terms of a naming.
LEMMA AtPrompt ==
  ASSUME NEW G, NamedTree(G), pc = "prompt", start \in used
  PROVE  AbstractTree = EntriesOf(G) /\ AbstractCur = G[start]
BY EntriesAre DEF AbstractTree, AbstractCur

\* And at the next prompt.
LEMMA AtNextPrompt ==
  ASSUME NEW H, NamedTree(H)', pc' = "prompt", start' \in used'
  PROVE  AbstractTree' = EntriesOf(H)' /\ AbstractCur' = H[start']
BY EntriesNext DEF AbstractTree, AbstractCur

\* The files keep what is in them.
LEMMA StoreKept ==
  ASSUME UNCHANGED file
  PROVE  UNCHANGED AbstractStore
BY DEF AbstractStore

\* The directory in which a command works.
LEMMA LocatedSim ==
  ASSUME StateType, NEW G, NamedTree(G), PromptInv(G), pc = "prompt", NEW p \in PathType
  PROVE  Abstract!Resolve(Abstract!From(p), Abstract!Dname(p.names)) = Bar(G, Located(p))
<1>1. AbstractTree = EntriesOf(G) /\ AbstractCur = G[start]
  BY AtPrompt DEF StateType
<1>2. WalkOK(Origin(p), G) /\ Dname(p.names) \in Seq(Label)
  BY LocatedOK
<1>3. Bar(G, Origin(p)) = Abstract!From(p)
  <2>1. G[root] = <<>> /\ root # NULL /\ start # NULL
    BY DEF NamedTree, HeapType, Naming, StateType, root, NULL, Nodes
  <2> QED BY <1>1, <2>1 DEF Bar, Origin, Abstract!From
<1>5. Abstract!Resolve(Bar(G, Origin(p)), Dname(p.names)) = Bar(G, LocateDir(Origin(p), Dname(p.names)))
  BY <1>1, <1>2, LocateSim
<1>6. Abstract!Dname(p.names) = Dname(p.names)
  BY SameOperators
<1> QED BY <1>3, <1>5, <1>6 DEF Located

\* The directory c in which a command works is the one that FileTree finds.
LEMMA WorksIn ==
  ASSUME StateType, NEW G, NamedTree(G), PromptInv(G), pc = "prompt", NEW p \in PathType,
         NEW c \in Nodes, c = Located(p).node
  PROVE  /\ c \in used /\ kind[c] = "D" /\ NoUpInside(G[c])
         /\ Abstract!Resolve(Abstract!From(p), Abstract!Dname(p.names)) = G[c]
         /\ G[c] # Abstract!Nowhere
         /\ \A k : Abstract!Target(k, p) = [kind |-> k, names |-> Append(G[c], Bname(p.names))]
<1>1. c # NULL
  BY DEF Nodes, NULL
<1>2. c \in used /\ kind[c] = "D" /\ NoUpInside(G[c])
  BY <1>1, LocatedOK DEF WalkOK
<1>3. Abstract!Resolve(Abstract!From(p), Abstract!Dname(p.names)) = G[c]
  BY <1>1, LocatedSim DEF Bar
<1>4. G[c] # Abstract!Nowhere
  BY <1>2, NotNowhere
<1>5. Abstract!Bname(p.names) = Bname(p.names)
  BY SameOperators
<1> QED BY <1>2, <1>3, <1>4, <1>5 DEF Abstract!Target, Abstract!Entry

\* mkdir and creat.
LEMMA MakeSim ==
  ASSUME NamesGiven, TreeInv, NEW k \in {"D", "F"}, NEW p \in NewPaths[k], Make(k, p)
  PROVE  Abstract!Make(k, p)
<1> PICK G : Facts(G) /\ NamedTree(G) /\ PromptInv(G) /\ Reachable(G)
  BY DEF TreeInv, Facts
<1>1. StateType /\ p \in PathType /\ p.names # <<>> /\ Last(p.names) # "." /\ pc = "prompt"
  BY PathAssumption DEF TreeInv, Make, NamesGiven
<1>2. PICK c : c = Located(p).node
  OBVIOUS
<1>3. PICK n : n = Bname(p.names)
  OBVIOUS
<1>4. /\ c \in Nodes /\ ~Exists(c, k, n) /\ AddNode(c, k, n)
      /\ UNCHANGED <<start, pathname, file, dirty, pc, reloading>>
  BY <1>2, <1>3 DEF Make
<1>5. /\ c \in used /\ kind[c] = "D" /\ NoUpInside(G[c])
      /\ Abstract!Resolve(Abstract!From(p), Abstract!Dname(p.names)) # Abstract!Nowhere
      /\ Abstract!Target(k, p) = [kind |-> k, names |-> Append(G[c], n)]
  BY <1>1, <1>2, <1>3, <1>4, WorksIn
<1>6. n \in Label
  <2>1. p.names \in Seq(Names)
    BY <1>1 DEF PathType
  <2>2. Last(p.names) \in Names
    BY <1>1, <2>1, FrontIs
  <2> QED BY <1>1, <1>3, <2>2 DEF Bname, Label
<1>7. start \in used
  BY <1>1 DEF StateType
<1>8. PICK H, m : NamedTree(H)' /\ Added(G, c, k, n, H, m)
  BY <1>4, <1>5, <1>6, <1>7, AddNodeKeeps
<1>9. EntriesOf(H)' = EntriesOf(G) \union {[kind |-> k, names |-> Append(G[c], n)]}
  <2>1. c \in used /\ NoUpInside(G[c]) /\ n \in Label /\ Added(G, c, k, n, H, m)
    BY <1>5, <1>6, <1>8
  <2>2. NamedTree(G) /\ Reachable(G)
    OBVIOUS
  <2> QED BY ONLY <2>1, <2>2, AddedEntry
<1>10. AbstractTree = EntriesOf(G) /\ AbstractCur = G[start]
  BY <1>1, <1>7, AtPrompt
<1>11. start' \in used' /\ H[start'] = G[start]
  BY <1>4, <1>7, <1>8 DEF Added
<1>12. AbstractTree' = EntriesOf(H)' /\ AbstractCur' = H[start']
  BY <1>1, <1>4, <1>8, <1>11, AtNextPrompt
<1>13. UNCHANGED AbstractStore
  BY <1>4, StoreKept
<1> QED BY <1>5, <1>9, <1>10, <1>11, <1>12, <1>13 DEF Abstract!Make

\* cd.
LEMMA CdSim ==
  ASSUME TreeInv, NEW p \in Paths, Cd(p)
  PROVE  Abstract!Cd(p)
<1> PICK G : Facts(G) /\ NamedTree(G) /\ PromptInv(G)
  BY DEF TreeInv, Facts
<1>1. StateType /\ p \in PathType /\ pc = "prompt"
  BY PathAssumption DEF TreeInv, Cd
<1>2. PICK n : n = Bname(p.names)
  OBVIOUS
<1>3. PICK w, v : w = Located(p) /\ v = Token(w, n)
  OBVIOUS
<1>4. /\ UNCHANGED <<heap, file, dirty, pc, reloading>> /\ w.node \in Nodes
      /\ \/ n = NoName /\ start' = root
         \/ n # NoName /\ v.node \in Nodes /\ start' = v.node
  BY <1>2, <1>3 DEF Cd, Enter
<1>5. PICK dir : dir = Abstract!Resolve(Abstract!From(p), Abstract!Dname(p.names))
  OBVIOUS
<1>6. PICK c \in Nodes : c = w.node
  BY <1>4
<1>7. c \in used /\ kind[c] = "D" /\ dir = G[c] /\ dir # Abstract!Nowhere
  BY <1>1, <1>3, <1>5, <1>6, WorksIn
<1>8. NamedTree(G)'
  BY <1>4 DEF NamedTree, HeapType, IsTree, Naming, heap
<1>9. AbstractTree = EntriesOf(G) /\ UNCHANGED AbstractStore
  BY <1>1, <1>4, AtPrompt, StoreKept DEF StateType
<1>10. Abstract!Bname(p.names) = n /\ Abstract!NoName = NoName
  BY <1>2, SameOperators
<1>11. ASSUME start' \in used
       PROVE  AbstractTree' = AbstractTree /\ AbstractCur' = G[start'] /\ AbstractCur' # Abstract!Nowhere
  <2>1. AbstractTree' = EntriesOf(G)' /\ AbstractCur' = G[start']
    BY <1>1, <1>4, <1>8, <1>11, AtNextPrompt DEF heap
  <2>2. EntriesOf(G)' = EntriesOf(G)
    BY <1>4 DEF EntriesOf, heap
  <2> QED BY <1>9, <1>11, <2>1, <2>2, NotNowhere
<1>12. CASE n = NoName /\ start' = root
  <2>1. root \in used /\ G[root] = <<>>
    BY DEF NamedTree, IsTree, Naming
  <2> QED BY <1>5, <1>7, <1>9, <1>10, <1>11, <1>12, <2>1 DEF Abstract!Cd
<1>13. CASE n # NoName /\ v.node \in Nodes /\ start' = v.node
  <2>1. n \in Label /\ WalkOK(w, G)
    BY <1>1, <1>2, <1>3, <1>13, LocatedOK
  <2>2. WalkOK(v, G) /\ v.node # NULL
    BY <1>3, <1>13, <2>1, TokenOK DEF NULL, Nodes
  <2>3. v.node \in used
    BY <2>2 DEF WalkOK
  <2>4. Abstract!Resolve(dir, <<n>>) = G[v.node]
    <3>1. <<>> \in Seq(Label) /\ Append(<<>>, n) = <<n>>
      BY <2>1
    <3>2. Abstract!Resolve(dir, Append(<<>>, n)) = NextName(Abstract!Resolve(dir, <<>>), n)
      BY <2>1, <3>1, ResolveLast
    <3>3. Abstract!Resolve(dir, <<>>) = dir
      BY ResolveNothing
    <3>4. NextName(Bar(G, w), n) = Bar(G, v)
      BY <1>3, <1>9, <2>1, NameSim
    <3>5. Bar(G, w) = dir /\ Bar(G, v) = G[v.node]
      BY <1>6, <1>7, <2>2 DEF Bar, NULL, Nodes
    <3> QED BY <3>1, <3>2, <3>3, <3>4, <3>5
  <2> QED BY <1>5, <1>7, <1>9, <1>10, <1>11, <1>13, <2>3, <2>4 DEF Abstract!Cd
<1> QED BY <1>4, <1>12, <1>13

\* Nothing is below a directory whose list is empty.
LEMMA NothingBelow ==
  ASSUME NEW G, NamedTree(G), NEW m \in used, kind[m] = "D", kids[m] = <<>>, NEW x \in used
  PROVE  ~IsStrictPrefix(G[m], G[x])
<1> SUFFICES ASSUME IsStrictPrefix(G[m], G[x]) PROVE FALSE
  OBVIOUS
<1>1. G[m] \in Seq(Label) /\ G[x] \in Seq(Label)
  BY DEF NamedTree, Naming
<1>2. PICK u \in Seq(Label) : u # <<>> /\ G[x] = G[m] \o u
  BY <1>1, PrefixSplit
<1>3. Below(G, x, G[m], u)
  BY <1>2 DEF Below
<1>4. \E i \in 1 .. Len(kids[m]) : StepTo(G, kids[m][i], x, u)
  BY <1>3, FirstStep
<1>5. Len(kids[m]) = 0
  OBVIOUS
<1> QED BY <1>4, <1>5

\* rmdir and rm, where nobody removes the directory he is in.
LEMMA UnlinkSim ==
  ASSUME TreeInv, ~RemovesCurrent, NEW k \in {"D", "F"}, NEW p \in OldPaths[k], Unlink(k, p)
  PROVE  Abstract!Unlink(k, p)
<1> PICK G : Facts(G) /\ NamedTree(G) /\ PromptInv(G)
  BY DEF TreeInv, Facts
<1>1. StateType /\ p \in PathType /\ pc = "prompt" /\ start \in used /\ kind[start] = "D"
  BY PathAssumption DEF TreeInv, Unlink, StateType
<1>2. PICK c, n : c = Located(p).node /\ n = Bname(p.names)
  OBVIOUS
<1>3. PICK i : i = Position(c, k, n)
  OBVIOUS
<1>4. PICK m : m = kids[c][i]
  OBVIOUS
<1>5. /\ c \in Nodes /\ i # 0 /\ MayRemove(k, m)
      /\ m # start /\ Removed(c, i, m)
      /\ UNCHANGED <<start, pathname, file, dirty, pc, reloading>>
  BY <1>2, <1>3, <1>4 DEF Unlink, Removed
<1>6. /\ c \in used /\ kind[c] = "D"
      /\ Abstract!Resolve(Abstract!From(p), Abstract!Dname(p.names)) # Abstract!Nowhere
      /\ Abstract!Target(k, p) = [kind |-> k, names |-> Append(G[c], n)]
  BY <1>1, <1>2, <1>5, WorksIn
<1>7. i \in 1 .. Len(kids[c]) /\ kind[m] = k /\ name[m] = n
  <2>1. kids[c] \in Seq(Nodes)
    BY <1>5 DEF NamedTree, HeapType
  <2>2. i \in 0 .. Len(kids[c]) /\ (i # 0 => kind[kids[c][i]] = k /\ name[kids[c][i]] = n)
    BY <1>3, <2>1, PositionIs
  <2>3. Len(kids[c]) \in Nat
    BY <2>1
  <2> QED BY <1>4, <1>5, <2>2, <2>3
<1>8. m \in used /\ m # root /\ G[m] = Append(G[c], n)
  BY <1>4, <1>6, <1>7, KidIs
<1>9. kids[m] = <<>>
  BY <1>5, <1>7, <1>8 DEF MayRemove, NamedTree, IsTree
<1>10. PICK H : NamedTree(H)' /\ \A x \in used' : H[x] = G[x] /\ kind'[x] = kind[x]
  BY <1>4, <1>5, <1>6, <1>7, <1>9, RemovalKeeps
<1>11. start' \in used' /\ start' = start /\ used' = used \ {m} /\ pc' = "prompt"
  BY <1>1, <1>5 DEF Removed
<1>12. PICK e : e = [kind |-> k, names |-> G[m]]
  OBVIOUS
<1>13. Abstract!Target(k, p) = e /\ e.names = G[m]
  BY <1>6, <1>8, <1>12
<1>14. AbstractTree = EntriesOf(G) /\ AbstractCur = G[start]
  BY <1>1, AtPrompt
<1>15. AbstractTree' = EntriesOf(H)' /\ AbstractCur' = G[start]
  BY <1>10, <1>11, AtNextPrompt
<1>16. UNCHANGED AbstractStore
  BY <1>5, StoreKept
<1>17. e \in EntriesOf(G)
  BY <1>7, <1>8, <1>12 DEF EntriesOf
<1>18. EntriesOf(H)' = EntriesOf(G) \ {e}
  <2>1. ASSUME NEW x \in used, x # m
        PROVE  [kind |-> kind[x], names |-> G[x]] # e
    BY <1>7, <1>8, <1>12, <2>1, PathsDiffer
  <2>2. EntriesOf(H)' = {[kind |-> kind[x], names |-> G[x]] : x \in (used \ {m}) \ {root}}
    BY <1>10, <1>11 DEF EntriesOf
  <2>3. e = [kind |-> kind[m], names |-> G[m]]
    BY <1>7, <1>12
  <2> QED BY <2>1, <2>2, <2>3 DEF EntriesOf
<1>19. ASSUME k = "D"
       PROVE  /\ \A a \in AbstractTree : ~Abstract!IsStrictPrefix(G[m], a.names)
              /\ G[m] # AbstractCur
  <2>1. ASSUME NEW x \in used PROVE ~IsStrictPrefix(G[m], G[x])
    BY <1>7, <1>8, <1>9, <1>19, NothingBelow
  <2>2. ASSUME NEW a \in AbstractTree PROVE ~Abstract!IsStrictPrefix(G[m], a.names)
    <3>1. PICK x \in used \ {root} : a = [kind |-> kind[x], names |-> G[x]]
      BY <1>14, <2>2 DEF EntriesOf
    <3>2. a.names = G[x]
      BY <3>1
    <3> QED BY <2>1, <3>2, SameOperators
  <2>3. G[m] # G[start]
    BY <1>1, <1>5, <1>7, <1>8, <1>19, PathsDiffer
  <2> QED BY <1>14, <2>2, <2>3
<1> QED BY <1>6, <1>13, <1>14, <1>15, <1>16, <1>17, <1>18, <1>19 DEF Abstract!Unlink

\* What save and quit write is the tree.
LEMMA WrittenSim ==
  ASSUME TreeInv, pc = "prompt", NEW f \in Files, Written(f)
  PROVE  AbstractStore' = [AbstractStore EXCEPT ![f] = AbstractTree]
<1> PICK G : Facts(G) /\ NamedTree(G) /\ Reachable(G)
  BY DEF TreeInv, Facts
<1>1. AbstractTree = ToSet(SaveTree)
  <2>1. ToSet(SaveTree) = EntriesOf(G)
    BY SaveTreeOrdered
  <2> QED BY <2>1, AtPrompt DEF TreeInv, StateType
<1>2. PICK lines : lines = SaveTree
  OBVIOUS
<1>3. file' = [file EXCEPT ![f] = lines] /\ DOMAIN file = Files
  BY <1>2 DEF Written, TreeInv, StateType
<1>4. [g \in Files |-> ToSet(file'[g])] =
        [[g \in Files |-> ToSet(file[g])] EXCEPT ![f] = ToSet(lines)]
  BY <1>3
<1> QED BY <1>1, <1>2, <1>4 DEF AbstractStore

\* The tree at the prompt stays where the heap and start do.
LEMMA PromptStays ==
  ASSUME TreeInv, pc = "prompt", pc' = "prompt", UNCHANGED <<heap, start>>
  PROVE  UNCHANGED <<AbstractTree, AbstractCur>>
<1> PICK G : NamedTree(G)
  BY DEF TreeInv, Facts
<1>1. NamedTree(G)'
  BY DEF NamedTree, HeapType, IsTree, Naming, heap
<1>2. start \in used /\ start' \in used'
  BY DEF TreeInv, StateType, heap
<1>3. EntriesOf(G)' = EntriesOf(G)
  BY DEF EntriesOf, heap
<1> QED BY <1>1, <1>2, <1>3, AtPrompt, AtNextPrompt

\* save.
LEMMA SaveSim ==
  ASSUME TreeInv, NEW f \in Files, Save(f)
  PROVE  Abstract!Save(f)
BY WrittenSim, PromptStays DEF Save, Abstract!Save

\* quit: until the next session there is no tree.
LEMMA QuitSim ==
  ASSUME TreeInv, Quit
  PROVE  Abstract!Quit
<1>1. AbstractStore' = [AbstractStore EXCEPT !["quit.txt"] = AbstractTree]
  BY WrittenSim, PathAssumption DEF Quit
<1>2. AbstractTree' = {} /\ AbstractCur' = <<>>
  BY DEF Quit, AbstractTree, AbstractCur
<1> QED BY <1>1, <1>2 DEF Abstract!Quit

\* reload: the tree is that of the file from the first line on.
LEMMA ReloadSim ==
  ASSUME TreeInv, NEW f \in Files, Reload(f)
  PROVE  Abstract!Reload(f)
<1>1. /\ file[f] \in Seq(LineType) /\ pc' = "reload" /\ source' = f
      /\ UNCHANGED file
  BY DEF TreeInv, StateType, Reload
<1>2. AbstractTree' = ToSet(file[f]) /\ AbstractCur' = <<>>
  BY <1>1 DEF AbstractTree, AbstractCur
<1>3. AbstractStore[f] = ToSet(file[f]) /\ UNCHANGED AbstractStore
  BY <1>1, StoreKept DEF AbstractStore
<1>4. ToSet(file[f]) # Abstract!NoTree
  <2>1. SUFFICES ASSUME [kind |-> "none", names |-> <<>>] \in ToSet(file[f]) PROVE FALSE
    BY DEF Abstract!NoTree, Abstract!Entry
  <2>2. PICK i \in DOMAIN file[f] : file[f][i] = [kind |-> "none", names |-> <<>>]
    BY <2>1 DEF ToSet
  <2>3. file[f][i] \in LineType
    BY <1>1, <2>2
  <2> QED BY <2>2, <2>3 DEF LineType
<1> QED BY <1>2, <1>3, <1>4 DEF Abstract!Reload

\* A line of reload() is no step of the set.
LEMMA ReloadLineSim ==
  ASSUME ReloadLine
  PROVE  UNCHANGED <<AbstractTree, AbstractCur, AbstractStore>>
<1>1. pc = "reload" /\ UNCHANGED <<file, pc, source>>
  BY DEF ReloadLine
<1> QED BY <1>1, StoreKept DEF AbstractTree, AbstractCur

\* All lines have been run: the tree is there.
LEMMA ReloadDoneSim ==
  ASSUME TreeInv, ReloadDone
  PROVE  UNCHANGED <<AbstractTree, AbstractCur, AbstractStore>>
<1> PICK G : Facts(G) /\ NamedTree(G)
  BY DEF TreeInv, Facts
<1>1. /\ pc = "reload" /\ todo = <<>> /\ pc' = "prompt"
      /\ UNCHANGED <<heap, start, file>>
  BY DEF ReloadDone
<1>2. start = root /\ source \in Files /\ file[source] # NoFile
  BY <1>1 DEF Facts, ReloadInv
<1>3. PICK lines \in Seq(LineType) : lines = file[source]
  BY <1>2 DEF TreeInv, StateType
<1>4. PICK n \in 0 .. Len(lines) : /\ todo = SubSeq(lines, n + 1, Len(lines))
                                   /\ SaveTree = SubSeq(lines, 1, n)
  BY <1>1, <1>3 DEF Facts, ReloadInv, LinesRun
<1>5. n = Len(lines)
  <2>1. Len(SubSeq(lines, n + 1, Len(lines))) = Len(lines) - n
    BY <1>4
  <2>2. Len(todo) = 0
    BY <1>1
  <2> QED BY <1>4, <2>1, <2>2
<1>6. EntriesOf(G) = ToSet(file[source])
  <2>1. SaveTree = lines
    BY <1>4, <1>5, SubSeqFull
  <2>2. ToSet(SaveTree) = EntriesOf(G)
    BY SaveTreeOrdered DEF Facts
  <2> QED BY <1>3, <2>1, <2>2
<1>7. NamedTree(G)' /\ EntriesOf(G)' = EntriesOf(G)
  BY <1>1 DEF NamedTree, HeapType, IsTree, Naming, EntriesOf, heap
<1>8. start' = root /\ root \in used' /\ G[root] = <<>>
  BY <1>1, <1>2 DEF NamedTree, IsTree, Naming, heap
<1>9. AbstractTree' = EntriesOf(G)' /\ AbstractCur' = <<>>
  BY <1>1, <1>7, <1>8, AtNextPrompt
<1>10. AbstractTree = ToSet(file[source]) /\ AbstractCur = <<>>
  BY <1>1 DEF AbstractTree, AbstractCur
<1> QED BY <1>1, <1>6, <1>7, <1>9, <1>10, StoreKept

\* A new session has nothing but the files.
LEMMA RestartSim ==
  ASSUME Restart
  PROVE  UNCHANGED <<AbstractTree, AbstractCur, AbstractStore>>
<1>1. PICK H : NamedTree(H)' /\ H[root] = <<>> /\ start' = root /\ used' = {root}
  BY InitializeMakes DEF Restart
<1>2. AbstractTree' = EntriesOf(H)' /\ AbstractCur' = <<>>
  BY <1>1, AtNextPrompt DEF Restart
<1>3. EntriesOf(H)' = {}
  BY <1>1 DEF EntriesOf
<1>4. AbstractTree = {} /\ AbstractCur = <<>>
  BY DEF Restart, AbstractTree, AbstractCur
<1> QED BY <1>2, <1>3, <1>4, StoreKept DEF Restart

\* And so has the first one.
LEMMA InitSim == Init => Abstract!Init
<1> SUFFICES ASSUME Init PROVE Abstract!Init
  OBVIOUS
<1>1. PICK G : NamedTree(G)
  BY InitTree DEF TreeInv, Facts
<1>2. pc = "prompt" /\ start = root /\ used = {root} /\ file = [f \in Files |-> NoFile]
  BY DEF Init
<1>3. AbstractTree = EntriesOf(G) /\ AbstractCur = G[root]
  BY <1>1, <1>2, AtPrompt
<1>4. EntriesOf(G) = {} /\ G[root] = <<>>
  BY <1>1, <1>2 DEF EntriesOf, NamedTree, Naming
<1>5. ToSet(NoFile) = Abstract!NoTree
  BY DEF ToSet, NoFile, Abstract!NoTree, Abstract!Entry
<1>6. AbstractStore = [f \in Files |-> Abstract!NoTree]
  BY <1>2, <1>5 DEF AbstractStore
<1> QED BY <1>3, <1>4, <1>6 DEF Abstract!Init

\* Where nothing changes, nothing changes in the set.
LEMMA StutterSim ==
  ASSUME TreeInv, UNCHANGED vars
  PROVE  UNCHANGED <<AbstractTree, AbstractCur, AbstractStore>>
<1>1. UNCHANGED <<heap, start, file, pc, source>>
  BY DEF vars, reloading
<1>2. CASE pc = "prompt"
  BY <1>1, <1>2, PromptStays, StoreKept
<1>3. CASE pc # "prompt"
  BY <1>1, <1>3, StoreKept DEF AbstractTree, AbstractCur
<1> QED BY <1>2, <1>3

\* Every step is one of FileTree, or none.
LEMMA NextSim ==
  ASSUME Careful, TreeInv, [Next]_vars
  PROVE  [Abstract!Next]_(Abstract!vars)
<1> DEFINE Same == UNCHANGED <<AbstractTree, AbstractCur, AbstractStore>>
<1>0. Same => UNCHANGED Abstract!vars
  BY DEF Abstract!vars
<1>1. CASE UNCHANGED vars
  BY <1>0, <1>1, StutterSim
<1>2. ASSUME NEW k \in {"D", "F"}, NEW p \in NewPaths[k], Make(k, p) PROVE Abstract!Next
  BY <1>2, MakeSim DEF Careful, Abstract!Next
<1>3. ASSUME NEW k \in {"D", "F"}, NEW p \in OldPaths[k], Unlink(k, p) PROVE Abstract!Next
  BY <1>3, UnlinkSim DEF Careful, Abstract!Next
<1>4. ASSUME NEW p \in Paths, Cd(p) PROVE Abstract!Next
  BY <1>4, CdSim DEF Abstract!Next
<1>5. ASSUME NEW p \in Paths, Ls(p) PROVE Same
  BY <1>5, LsTree, StutterSim
<1>6. ASSUME NEW f \in Files, Save(f) PROVE Abstract!Next
  BY <1>6, SaveSim DEF Abstract!Next
<1>7. ASSUME NEW f \in Files, Reload(f) PROVE Abstract!Next
  BY <1>7, ReloadSim DEF Abstract!Next
<1>8. CASE ReloadLine
  BY <1>0, <1>8, ReloadLineSim
<1>9. CASE ReloadDone
  BY <1>0, <1>9, ReloadDoneSim
<1>10. CASE Pwd
  BY <1>0, <1>10, PwdTree, StutterSim
<1>11. CASE Quit
  BY <1>11, QuitSim DEF Abstract!Next
<1>12. CASE Restart
  BY <1>0, <1>12, RestartSim
<1> HIDE DEF Same
<1> QED BY <1>0, <1>1, <1>2, <1>3, <1>4, <1>5, <1>6, <1>7, <1>8, <1>9, <1>10, <1>11, <1>12 DEF Next

-----------------------------------------------------------------------------
\* For every number of blocks and careful users, the nodes in use form one
\* tree: createNode(), rmdir() and rm() keep lists and parents in step, no
\* climb of getPath() is endless, and start is a directory of the tree.
THEOREM TreeStaysATree == ASSUME Careful PROVE Spec => []TreeShape
<1>1. TreeInv /\ [Next]_vars => TreeInv'
  BY NextTree
<1>2. TreeInv => TreeShape
  <2> SUFFICES ASSUME TreeInv PROVE TreeShape
    OBVIOUS
  <2> PICK G : Facts(G) /\ NamedTree(G) /\ PromptInv(G)
    BY DEF TreeInv, Facts
  <2>1. \A n \in used : GetPathEnds(n)
    BY GetPathIs
  <2> QED BY <2>1 DEF TreeInv, StateType, NamedTree, IsTree, TreeShape
<1> QED BY InitTree, <1>1, <1>2, PTL DEF Spec

\* For every number of blocks and careful users, cd keeps start, the prompt and
\* the parents of the tree in step: what pwd prints leads to start.
THEOREM PwdIsRight == ASSUME Careful PROVE Spec => []PwdNamesCwd
<1>1. TreeInv /\ [Next]_vars => TreeInv'
  BY NextTree
<1>2. TreeInv => PwdNamesCwd
  <2> SUFFICES ASSUME TreeInv PROVE PwdNamesCwd
    OBVIOUS
  <2> PICK G : Facts(G) /\ NamedTree(G) /\ PromptInv(G)
    BY DEF TreeInv, Facts
  <2>1. start \in used /\ kind[start] = "D" /\ pathname \in Seq(Label)
    BY DEF TreeInv, StateType
  <2>2. GetPath(start) = G[start] /\ G[start] \in Seq(Label)
    BY <2>1, GetPathIs DEF NamedTree, Naming
  <2>3. LocateDir([node |-> root, path |-> <<>>], G[start]).node = start
    BY <2>1, PathLeads DEF PromptInv, NoUpInside
  <2>4. IsSuffix(G[start], pathname)
    BY <2>1, <2>2, EndsIsSuffix DEF PromptInv
  <2> QED BY <2>2, <2>3, <2>4 DEF PwdNamesCwd
<1> QED BY InitTree, <1>1, <1>2, PTL DEF Spec

\* For every number of blocks and careful users no command ends the program:
\* locateDir() always finds a slash to cut, and pwd comes to its end.
THEOREM CommandsReturn == ASSUME Careful PROVE Spec => []NoCrash
<1>1. TreeInv /\ [Next]_vars => TreeInv'
  BY NextTree
<1>2. TreeInv => NoCrash
  BY DEF TreeInv, StateType, NoCrash
<1> QED BY InitTree, <1>1, <1>2, PTL DEF Spec

\* For every number of blocks and careful users, at every line of a reload the
\* tree is the one whose lines were run, in the order of the file: saveTree()
\* would write them again as they stand.
THEOREM ReloadIsFaithful == ASSUME Careful PROVE Spec => []ReloadRestores
<1>1. TreeInv /\ [Next]_vars => TreeInv'
  BY NextTree
<1>2. TreeInv => ReloadRestores
  <2> SUFFICES ASSUME TreeInv, pc = "reload" PROVE SaveTree \o todo = file[source]
    BY DEF ReloadRestores
  <2>1. PICK G : Facts(G)
    BY DEF TreeInv
  <2>2. PICK lines \in Seq(LineType), n \in Nat :
          /\ lines = file[source] /\ n \in 0 .. Len(lines) /\ LinesRun(G, lines, n)
          /\ Preorder(lines) /\ \A i \in DOMAIN lines : NoUpInside(Front(lines[i].names))
    BY <2>1, Reloading DEF TreeInv
  <2>3. SubSeq(lines, 1, n) \o SubSeq(lines, n + 1, Len(lines)) = SubSeq(lines, 1, Len(lines))
    <3>1. Len(lines) \in Nat
      OBVIOUS
    <3>2. 1 \in 1 .. Len(lines) + 1 /\ n \in 1 - 1 .. Len(lines) /\ Len(lines) \in n .. Len(lines)
      BY <2>2, <3>1
    <3> QED BY <3>2, ConcatAdjacentSubSeq
  <2>4. SaveTree \o todo = lines
    BY <2>2, <2>3, SubSeqFull DEF LinesRun
  <2> QED BY <2>2, <2>4
<1> QED BY InitTree, <1>1, <1>2, PTL DEF Spec

\* For every number of blocks and careful users, every command does to the tree
\* of nodes what FileTree says of the set of paths: it finds the same directory,
\* makes, removes or enters the same entry, saves all of the tree, and a reload,
\* run to its end, gives back what was saved.
THEOREM FileTreeImplemented == ASSUME Careful PROVE Spec => ImplementsFileTree
<1>1. Init => TreeInv
  BY InitTree
<1>2. TreeInv /\ [Next]_vars => TreeInv'
  BY NextTree
<1>3. Init => Abstract!Init
  BY InitSim
<1>4. TreeInv /\ [Next]_vars => [Abstract!Next]_(Abstract!vars)
  BY NextSim
<1> QED BY <1>1, <1>2, <1>3, <1>4, PTL DEF Spec, ImplementsFileTree, Abstract!Spec
=============================================================================
