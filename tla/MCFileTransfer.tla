--------------------------- MODULE MCFileTransfer ---------------------------
(* Instances of FileTransfer: one name, and one with "put" in it. *)
EXTENDS FileTransferProperties

CONSTANTS a, input

On(ops, paths) == [op : ops, path : paths]

\* the commands answered by one line, on paths the server can list; quit, which
\* the server does not know, is answered as a command that fails
PlainCommands ==
    On({"mkdir", "rmdir", "cd", "rm", "cat"}, {a}) \cup On({"ls", "pwd"}, {NoPath})

\* the commands that send a file, others that may follow one, and one that the
\* client takes for a transfer
TransferCommands == On({"get", "put", "ls", "cat", "rm"}, {a}) \cup On({"cat"}, {input})

GetCommands == On({"get"}, {a})

ListCommands == On({"ls"}, {a})

\* a file of five characters that begins like the marker and holds parts of it, and
\* one that begins with all of it
MCMarker == <<"*", "E", "0">>
MCFile == <<"*", "*", "t", "E", "*">>
MarkedFile == <<"*", "E", "0", "t", "t">>
MCChars == {"*", "E", "0", "t"}

ClientSymmetry == Permutations(Clients)

OneName == {a}
TwoNames == {a, input}
PutName == {input}
NoNames == {}
=============================================================================
