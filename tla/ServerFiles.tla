---------------------------- MODULE ServerFiles ----------------------------
(***************************************************************************)
(* What the commands of Lab4/Code/linux_cmd.c do to the server's machine:   *)
(* the names it knows, what each one is, and the current directory of the   *)
(* one server process (every client shares it).  Names are absolute         *)
(* pathnames of entries of one directory; NoPath is a command line without  *)
(* a pathname.                                                              *)
(***************************************************************************)
CONSTANTS Names, Root, NoPath

ASSUME NamesAssumption == Root \notin Names /\ NoPath \notin Names

Kinds == {"none", "file", "dir"}

\* where the server process may stand; "deleted" is a directory removed under it
Places == Names \cup {Root, "deleted"}

\* what the named entry must be for the system call behind a command to succeed
Needs == [mkdir |-> {"none"}, rmdir |-> {"dir"}, rm |-> {"file"}, cd |-> {"dir"},
          cat |-> {"file", "dir"}, get |-> {"file"}, put |-> {"file"}]

Ops == DOMAIN Needs \cup {"ls", "pwd", "quit"}

CommandType == [op : Ops, path : Names \cup {NoPath}]

IsTransfer(cmd) == cmd.op \in {"get", "put"}

\* _ls without a pathname lists "./"
ListsNothing(cmd, files) ==
    cmd.op = "ls" /\ cmd.path # NoPath /\ files[cmd.path] = "none"

Succeeds(cmd, files, place) ==
    \/ cmd.op \in DOMAIN Needs /\ cmd.path # NoPath /\ files[cmd.path] \in Needs[cmd.op]
    \/ cmd.op = "pwd" /\ place # "deleted"
    \/ cmd.op = "ls" /\ ~ListsNothing(cmd, files)

\* the line runCommand leaves for the client
Verdict(cmd, files, place) ==
    IF ~Succeeds(cmd, files, place) THEN "FAILURE"
    ELSE IF cmd.op \in {"ls", "pwd"} THEN "text" ELSE "SUCCESS"

FilesAfter(cmd, files, place) ==
    IF ~Succeeds(cmd, files, place) THEN files
    ELSE CASE cmd.op = "mkdir"          -> [files EXCEPT ![cmd.path] = "dir"]
           [] cmd.op \in {"rmdir", "rm"} -> [files EXCEPT ![cmd.path] = "none"]
           [] OTHER                      -> files

PlaceAfter(cmd, files, place) ==
    IF ~Succeeds(cmd, files, place) THEN place
    ELSE CASE cmd.op = "cd"                           -> cmd.path
           [] cmd.op = "rmdir" /\ place = cmd.path    -> "deleted"
           [] OTHER                                   -> place
=============================================================================
