------------------------------ MODULE MCMinode ------------------------------
(***************************************************************************)
(* The tree of the image mydisk, and pathnames of every kind, for TLC.     *)
(***************************************************************************)
EXTENDS MinodeProperties

E(n, i) == [name |-> n, ino |-> i]

MCInodes == {2, 11, 12, 13, 14, 15}
MCDirs == {2, 11, 12, 13}
MCNames == {".", "..", "dir1", "dir2", "dir3", "file1", "file2", "nosuch"}
MCDisk ==
  [d \in MCDirs |->
     CASE d = 2 -> <<E(".", 2), E("..", 2), E("dir1", 11), E("dir2", 12),
                     E("file1", 14), E("file2", 15)>>
       [] d = 11 -> <<E(".", 11), E("..", 2), E("dir3", 13)>>
       [] d = 12 -> <<E(".", 12), E("..", 2)>>
       [] d = 13 -> <<E(".", 13), E("..", 11)>>]

P(k, ns) == [kind |-> k, names |-> ns]

MCPaths ==
  {P("root", <<>>), P("abs", <<>>), P("rel", <<"..">>), P("rel", <<"dir1">>),
   P("abs", <<"dir1", "dir3">>), P("rel", <<"file1">>),
   P("abs", <<"file1", "dir1">>), P("rel", <<"dir3", "..", "dir3">>)}
=============================================================================
