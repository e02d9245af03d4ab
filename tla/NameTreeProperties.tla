------------------------- MODULE NameTreeProperties -------------------------
(***************************************************************************)
(* What the directory tree simulator keeps to.                             *)
(***************************************************************************)
EXTENDS NameTree

\* The nodes in use form one tree: every node but the root is in the list of
\* its parent and in no other place, only directories have lists, siblings
\* of one kind differ in name, and root and start are in use.  rmdir(), rm()
\* and createNode() move blocks between the tree and the heap, and reload()
\* starts from a block whose Child it does not clear.
TreeShape ==
  pc \in {"prompt", "reload"} =>
    /\ root \in used /\ start \in used /\ kind[start] = "D"
    /\ parent[root] = NULL
    /\ \A n \in used : GetPathEnds(n)
    /\ \A n \in used \ {root} : parent[n] \in used /\ n \in ToSet(kids[parent[n]])
    /\ \A c \in used :
         /\ kind[c] = "F" => kids[c] = <<>>
         /\ \A i \in DOMAIN kids[c] :
              kids[c][i] \in used /\ parent[kids[c][i]] = c
         /\ \A i, j \in DOMAIN kids[c] :
              kind[kids[c][i]] = kind[kids[c][j]] /\ name[kids[c][i]] = name[kids[c][j]]
                => i = j

\* What pwd prints leads from the root to the current directory, and the
\* prompt ends with it.  Before a reload below the root they are the same;
\* after it the prompt keeps the names of the old directory in front.
PwdNamesCwd ==
  pc = "prompt" =>
    /\ LocateDir([node |-> root, path |-> <<>>], GetPath(start)).node = start
    /\ IsSuffix(GetPath(start), pathname)

\* What the three invariants rest on.  The fields have their types, also of
\* the blocks that are not in use, and so do the lines of the files.
Label == Names \union {Blank}
LineType == [kind : {"D", "F"}, names : Seq(Label) \ {<<>>}]
HeapType ==
  /\ name \in [Nodes -> Label] /\ kind \in [Nodes -> {"D", "F"}]
  /\ kids \in [Nodes -> Seq(Nodes)] /\ parent \in [Nodes -> Nodes \union {NULL}]
  /\ used \subseteq Nodes
StateType ==
  /\ start \in used /\ kind[start] = "D" /\ pathname \in Seq(Label)
  /\ file \in [Files -> Seq(LineType) \union {NoFile}] /\ todo \in Seq(LineType)
  /\ dirty = FALSE /\ pc \in {"prompt", "reload", "exit"}

\* Lists and parents agree.
IsTree ==
  /\ root \in used /\ kind[root] = "D" /\ parent[root] = NULL
  /\ \A n \in used \ {root} : parent[n] \in used /\ n \in ToSet(kids[parent[n]])
  /\ \A c \in used :
       /\ kind[c] = "F" => kids[c] = <<>>
       /\ \A i \in DOMAIN kids[c] : kids[c][i] \in used /\ parent[kids[c][i]] = c
       /\ \A i, j \in DOMAIN kids[c] :
            kind[kids[c][i]] = kind[kids[c][j]] /\ name[kids[c][i]] = name[kids[c][j]]
              => i = j

\* G gives every node in use its path, so there is no circle of parents.
Naming(G) ==
  /\ G \in [used -> Seq(Label)] /\ G[root] = <<>>
  /\ \A n \in used \ {root} : G[n] = Append(G[parent[n]], name[n])

\* The prompt ends with the path of start.  A directory called ".." can only
\* be entered from the root: elsewhere ".." leads up.
EndsWith(t, s) ==
  Len(s) <= Len(t) /\ \A i \in 1 .. Len(s) : s[i] = t[Len(t) - Len(s) + i]
NoUpInside(s) == \A i \in 2 .. Len(s) : s[i] # ".."
PromptInv(G) == EndsWith(pathname, G[start]) /\ NoUpInside(G[start])

\* Nodes are made only where a walk can go, so their lines can be run again.
Reachable(G) == \A n \in used \ {root} : NoUpInside(Front(G[n]))

\* In what is saved every line is in the directory of the line before it, or
\* in one above that, and no line is there twice.
Follows(l, last) ==
  \/ Len(l.names) = 1
  \/ last.kind = "D" /\ Front(l.names) = last.names
  \/ IsStrictPrefix(Front(l.names), last.names)
Preorder(lines) ==
  \A j \in DOMAIN lines :
    /\ IF j = 1 THEN Len(lines[j].names) = 1 ELSE Follows(lines[j], lines[j-1])
    /\ \A i \in DOMAIN lines : lines[i] = lines[j] => i = j
SavedInv ==
  \A f \in Files : file[f] # NoFile =>
    Preorder(file[f]) /\ \A i \in DOMAIN file[f] : NoUpInside(Front(file[f][i].names))

\* While reload() runs the tree has what the lines run so far say, and the node
\* of the last one is at the end of its list, as the directories above it are.
EntriesOf(G) == {[kind |-> kind[n], names |-> G[n]] : n \in used \ {root}}
AtEnd(G, u) ==
  \A a \in used \ {root} :
    a = u \/ (kind[a] = "D" /\ IsStrictPrefix(G[a], G[u])) => Last(kids[parent[a]]) = a
LinesRun(G, lines, n) ==
  /\ todo = SubSeq(lines, n + 1, Len(lines))
  /\ SaveTree = SubSeq(lines, 1, n)
  /\ n # 0 => \E u \in used \ {root} :
                [kind |-> kind[u], names |-> G[u]] = lines[n] /\ AtEnd(G, u)
ReloadInv(G) ==
  pc = "reload" =>
    /\ start = root /\ source \in Files /\ file[source] # NoFile
    /\ \E n \in 0 .. Len(file[source]) : LinesRun(G, file[source], n)

\* No command ends the program: strrchr() always finds a slash to cut at, and
\* the climb of getPath() ends ("pwd :print the (absolute) pathname of CWD").
NoCrash == pc # "crash"

\* The lines that reload() has run have built the tree of just these lines, in
\* the order of the file: run to its end, reload gives back what save, or the
\* quit of an earlier session, has written.  It rests on saveTree() writing a
\* node before what is below it, and on new nodes going to the end of a list.
ReloadRestores == pc = "reload" => SaveTree \o todo = file[source]

\* The program implements FileTree: its commands do to the tree of nodes what
\* their pathnames say, whichever blocks the nodes are in.
Entries == {[kind |-> kind[n], names |-> GetPath(n)] : n \in used \ {root}}
AbstractTree == CASE pc = "prompt" -> Entries
                  [] pc = "reload" -> ToSet(file[source])
                  [] OTHER -> {}
AbstractCur == IF pc = "prompt" THEN GetPath(start) ELSE <<>>
AbstractStore == [f \in Files |-> ToSet(file[f])]
Abstract ==
  INSTANCE FileTree WITH tree <- AbstractTree, cur <- AbstractCur, store <- AbstractStore
ImplementsFileTree == Abstract!Spec
=============================================================================
