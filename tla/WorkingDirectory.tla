-------------------------- MODULE WorkingDirectory --------------------------
(***************************************************************************)
(* What the commands promise, with no cache in sight: the shell is in one  *)
(* directory of the tree, and only cd moves it.  A cd that has been typed  *)
(* goes to the directory its own pathname leads to, and stays only if that *)
(* leads to no directory.                                                  *)
(***************************************************************************)
EXTENDS DirectoryTree

CONSTANT Paths      \* the pathnames a user may type

VARIABLES cur,      \* the inode of the current directory
          typed     \* the pathname of the cd in progress, or NoPath

Init == cur = Root /\ typed = NoPath

\* Where the pathname leads.  "//" has no name to look up and leads nowhere.
Start == IF typed.kind = "rel" THEN cur ELSE Root
Destination == IF typed.kind = "root" \/ typed.names # <<>>
               THEN Resolve(Start, typed.names) ELSE 0

TypeCd(p) ==
  /\ typed = NoPath /\ p.kind # "none"
  /\ typed' = p
  /\ UNCHANGED cur

Move ==
  /\ typed # NoPath /\ Destination \in Dirs
  /\ cur' = Destination /\ typed' = NoPath

Refuse ==
  /\ typed # NoPath /\ Destination \notin Dirs
  /\ typed' = NoPath
  /\ UNCHANGED cur

Next == (\E p \in Paths : TypeCd(p)) \/ Move \/ Refuse

Spec == Init /\ [][Next]_<<cur, typed>>
=============================================================================
