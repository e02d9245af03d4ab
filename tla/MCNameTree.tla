----------------------------- MODULE MCNameTree -----------------------------
(***************************************************************************)
(* Pathnames for TLC: relative and absolute, one and two names, and "..".  *)
(***************************************************************************)
EXTENDS NameTreeProperties

P(a, ns) == [abs |-> a, names |-> ns]

MCNames == {"a", "b", ".", ".."}
MCNewPaths ==
  [D |-> {P(FALSE, <<"a">>), P(FALSE, <<"..", "a">>), P(TRUE, <<"b">>)},
   F |-> {P(FALSE, <<"b">>)}]
\* mkdir and creat without a pathname as well.
MCEmptyPaths == [k \in {"D", "F"} |-> MCNewPaths[k] \cup {P(FALSE, <<>>)}]
MCOldPaths ==
  [D |-> {P(FALSE, <<"a">>), P(FALSE, <<"..", "a">>), P(TRUE, <<"b">>)},
   F |-> {P(FALSE, <<".", "b">>)}]
MCPaths ==
  {P(FALSE, <<>>), P(FALSE, <<"..">>), P(FALSE, <<"a">>), P(FALSE, <<"b">>),
   P(FALSE, <<"a", ".">>), P(TRUE, <<"a", "a">>)}
=============================================================================
