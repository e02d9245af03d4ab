------------------------------ MODULE Pathname ------------------------------
(***************************************************************************)
(* Lab2: a pathname as typed, and its split into the directory to go to    *)
(* and the last name.  Names are atoms.                                    *)
(***************************************************************************)
EXTENDS Naturals, Sequences, SequencesExt

CONSTANTS Names,     \* names that occur in pathnames, ".." and "." too
          NewPaths,  \* the pathnames typed to mkdir, "D", and creat, "F"
          OldPaths,  \* those typed to rmdir, "D", and rm, "F"
          Paths,     \* those typed to cd and ls
          Files      \* the files that save and reload are told to use

\* The empty string, written as something that no name can be.
NoName == "/"

PathType == [abs : BOOLEAN, names : Seq(Names)]

ASSUME PathAssumption ==
  /\ \A k \in {"D", "F"} : NewPaths[k] \subseteq PathType /\ OldPaths[k] \subseteq PathType
  /\ Paths \subseteq PathType /\ NoName \notin Names
  /\ "quit.txt" \in Files

\* dbname(): what dirname() and basename() leave, where "." stands for
\* nothing.  NoName is the empty string of a basename when nothing was typed.
Dname(names) ==
  IF names = <<>> \/ Front(names) = <<".">> THEN <<>> ELSE Front(names)
Bname(names) ==
  IF names = <<>> \/ Last(names) = "." THEN NoName ELSE Last(names)

\* mkdir and creat are told what to call the node.  Without a pathname they make
\* one whose name is empty.
NamesGiven ==
  \A k \in {"D", "F"} : \A p \in NewPaths[k] : p.names # <<>> /\ Last(p.names) # "."
=============================================================================
