---------------------------- MODULE FileTransfer ----------------------------
(***************************************************************************)
(* Lab4: clients (client.c) and one iterative server (server.c) over TCP.   *)
(*                                                                          *)
(* A command is one write and one read of MAX bytes.  What the server sends *)
(* back is a stream without boundaries, here a sequence of symbols: the int *)
(* n ("size"), LineLen symbols of the line it announces ("text"), the       *)
(* characters of a file ("data") and those of EOF_STR with its NUL ("eof"). *)
(* A symbol carries the number of the command it answers, its place n in    *)
(* the line, the file or the marker, and, for text, the verdict it spells.  *)
(* The client tells none of this from the bytes: it sees characters only.   *)
(* A read returns what has arrived, up to its limit, which is what the      *)
(* loopback interface of the default host "localhost" delivers.             *)
(*                                                                          *)
(* sock[c] is the kernel's view of c's connection: "fin" when the client    *)
(* closed having read everything, "reset" when it closed with unread data   *)
(* (the next call of the server fails with ECONNRESET), "broken" when the   *)
(* next write raises SIGPIPE, "gone" when the server closed its end.        *)
(***************************************************************************)
EXTENDS Integers, Sequences, SequencesExt, ServerFiles

CONSTANTS Clients, NoClient,
          Commands,    \* the command lines users type
          Lookalikes,  \* names that contain "get" or "put"
          MAX,         \* symbols in a buffer (header.h: 256 bytes)
          Chars, NUL,
          Letter,      \* every character of a reply
          FILE,        \* the characters of a file that get and put send
          MARKER,      \* those of EOF_STR, with the NUL
          LineLen,
          MaxCommands  \* bound: commands a client sends

ASSUME TransferAssumption ==
    /\ Commands \subseteq CommandType
    /\ Lookalikes \subseteq Names
    /\ FILE \in Seq(Chars) /\ MARKER \in Seq(Chars)
    /\ MAX \in Nat \ {0} /\ Len(MARKER) \in 1..MAX /\ LineLen \in 1..MAX
    /\ \A i \in 1..Len(MARKER) : MARKER[i] # Letter /\ (MARKER[i] = NUL <=> i = Len(MARKER))
    /\ MaxCommands \in Nat

VARIABLES
    files, place,  \* the server's machine
    server,        \* its program counter, the client it serves and its command
    backlog,       \* connections the kernel completed and main has not accepted
    sock,          \* per client, the state of its connection
    up, down,      \* per client, the two directions of the stream
    client         \* per client, its program counter and local variables

vars == <<files, place, server, backlog, sock, up, down, client>>

FileLen == Len(FILE)
EofLen == Len(MARKER)

\* n symbols, of which the first is at place start + 1
Symbols(kind, id, verdict, start, n) ==
    [i \in 1..n |-> [kind |-> kind, id |-> id, verdict |-> verdict, n |-> start + i]]
Line(id, verdict) == Symbols("text", id, verdict, 0, LineLen)
Marker(id) == Symbols("eof", id, "none", 0, EofLen)

Char(symbol) == CASE symbol.kind = "data" -> FILE[symbol.n]
                  [] symbol.kind = "eof"  -> MARKER[symbol.n]
                  [] OTHER                -> Letter

Least(a, b) == IF a < b THEN a ELSE b

Init ==
    /\ files \in [Names -> Kinds]
    /\ place = Root
    /\ server = [pc |-> "accept", peer |-> NoClient, id |-> 0, left |-> 0, verdict |-> "none"]
    /\ backlog = <<>>
    /\ sock = [c \in Clients |-> "none"]
    /\ up = [c \in Clients |-> <<>>]
    /\ down = [c \in Clients |-> <<>>]
    /\ client = [c \in Clients |-> [pc |-> "start", sent |-> 0, cmd |-> [op |-> "none"],
                                    cleared |-> FALSE, shown |-> <<>>]]

-----------------------------------------------------------------------------
(* The server *)

\* exit(1) or a signal: the kernel closes every connection, and resets those
\* with a command the server has not read, which a waiting client finds out
Dies ==
    /\ server' = [server EXCEPT !.pc = "dead"]
    /\ sock' = [c \in Clients |-> IF sock[c] # "up" THEN sock[c]
                                  ELSE IF up'[c] = <<>> \/ client[c].pc = "prompt"
                                         THEN "gone" ELSE "broken"]

\* one write() of symbols to the client served; its result is ignored
Write(symbols) ==
    LET c == server.peer IN
    /\ sock[c] # "broken"
    /\ IF sock[c] = "up"
         THEN /\ down' = [down EXCEPT ![c] = @ \o symbols]
              /\ UNCHANGED sock
         ELSE /\ sock' = [sock EXCEPT ![c] = "broken"]
              /\ UNCHANGED down

Accept ==
    /\ server.pc = "accept"
    /\ backlog # <<>>
    /\ server' = [server EXCEPT !.pc = "read", !.peer = Head(backlog)]
    /\ backlog' = Tail(backlog)
    /\ UNCHANGED <<files, place, sock, up, down, client>>

\* Mutants of ReadCommand: a failed command sends no reply; the verdict is taken
\* after the command has changed the files.
ReadCommandSilent ==
    LET c == server.peer
        cmd == Head(up[c]).cmd
        verdict == Verdict(cmd, files, place) IN
    /\ server.pc = "read"
    /\ up[c] # <<>>
    /\ ~ListsNothing(cmd, files)
    /\ files' = FilesAfter(cmd, files, place)
    /\ place' = PlaceAfter(cmd, files, place)
    /\ server' = [server EXCEPT !.pc = IF verdict = "FAILURE" THEN "read" ELSE "size",
                                !.id = Head(up[c]).id, !.verdict = verdict]
    /\ up' = [up EXCEPT ![c] = Tail(@)]
    /\ UNCHANGED <<backlog, sock, down, client>>

ReadCommandLate ==
    LET c == server.peer
        cmd == Head(up[c]).cmd IN
    /\ server.pc = "read"
    /\ up[c] # <<>>
    /\ ~ListsNothing(cmd, files)
    /\ files' = FilesAfter(cmd, files, place)
    /\ place' = PlaceAfter(cmd, files, place)
    /\ server' = [server EXCEPT !.pc = "size", !.id = Head(up[c]).id,
                                !.verdict = Verdict(cmd, files', place')]
    /\ up' = [up EXCEPT ![c] = Tail(@)]
    /\ UNCHANGED <<backlog, sock, down, client>>

\* read() returns a command and runCommand performs it; a transfer of a regular
\* file goes on to send it, and only its end reaches the reply
ReadCommand ==
    LET c == server.peer IN
    /\ server.pc = "read"
    /\ up[c] # <<>>
    /\ LET cmd == Head(up[c]).cmd
           verdict == Verdict(cmd, files, place) IN
         /\ ~ListsNothing(cmd, files)
         /\ files' = FilesAfter(cmd, files, place)
         /\ place' = PlaceAfter(cmd, files, place)
         /\ server' = [server EXCEPT
              !.pc = IF IsTransfer(cmd) /\ verdict = "SUCCESS" THEN "file" ELSE "size",
              !.id = Head(up[c]).id, !.left = FileLen, !.verdict = verdict]
    /\ up' = [up EXCEPT ![c] = Tail(@)]
    /\ UNCHANGED <<backlog, sock, down, client>>

\* _ls of a pathname that does not exist calls exit(1)
ListMissing ==
    LET c == server.peer IN
    /\ server.pc = "read"
    /\ up[c] # <<>>
    /\ ListsNothing(Head(up[c]).cmd, files)
    /\ up' = [up EXCEPT ![c] = Tail(@)]
    /\ Dies
    /\ UNCHANGED <<files, place, backlog, down, client>>

\* Mutant of Disconnect: close() without the break.
DisconnectStays ==
    /\ server.pc = "read"
    /\ up[server.peer] = <<>>
    /\ sock[server.peer] \in {"fin", "broken"}
    /\ UNCHANGED vars

\* read() returns 0: the client has left
Disconnect ==
    /\ server.pc = "read"
    /\ up[server.peer] = <<>>
    /\ sock[server.peer] \in {"fin", "broken"}
    /\ server' = [server EXCEPT !.pc = "accept"]
    /\ UNCHANGED <<files, place, backlog, sock, up, down, client>>

\* read() returns -1, which main takes for an empty command line
ReadFails ==
    /\ server.pc = "read"
    /\ up[server.peer] = <<>>
    /\ sock[server.peer] = "reset"
    /\ sock' = [sock EXCEPT ![server.peer] = "broken"]
    /\ server' = [server EXCEPT !.pc = "size", !.id = 0, !.verdict = "FAILURE"]
    /\ UNCHANGED <<files, place, backlog, up, down, client>>

SendChunk ==
    LET n == Least(MAX, server.left) IN
    /\ server.pc = "file"
    /\ n > 0
    /\ Write(Symbols("data", server.id, "none", FileLen - server.left, n))
    /\ server' = [server EXCEPT !.left = @ - n]
    /\ UNCHANGED <<files, place, backlog, up, client>>

SendMarker ==
    /\ server.pc = "file"
    /\ server.left = 0
    /\ Write(Marker(server.id))
    /\ server' = [server EXCEPT !.pc = "size"]
    /\ UNCHANGED <<files, place, backlog, up, client>>

SendSize ==
    /\ server.pc = "size"
    /\ Write(Symbols("size", server.id, "none", 0, 1))
    /\ server' = [server EXCEPT !.pc = "line"]
    /\ UNCHANGED <<files, place, backlog, up, client>>

SendLine ==
    /\ server.pc = "line"
    /\ Write(Line(server.id, server.verdict))
    /\ server' = [server EXCEPT !.pc = "read"]
    /\ UNCHANGED <<files, place, backlog, up, client>>

\* a write to a connection the client has reset raises SIGPIPE
Sigpipe ==
    /\ server.pc \in {"file", "size", "line"}
    /\ sock[server.peer] = "broken"
    /\ UNCHANGED <<files, place, backlog, up, down, client>>
    /\ Dies

ServerStep ==
    \/ Accept \/ ReadCommand \/ ListMissing \/ Disconnect \/ ReadFails
    \/ SendChunk \/ SendMarker \/ SendSize \/ SendLine \/ Sigpipe

-----------------------------------------------------------------------------
(* The clients *)

ServerGone == server.pc = "dead"

\* the client process ends; unread data makes its close a reset
Ends(c, pc) ==
    /\ client' = [client EXCEPT ![c].pc = pc]
    /\ sock' = [sock EXCEPT ![c] = IF @ # "up" THEN @
                                   ELSE IF down'[c] = <<>> THEN "fin" ELSE "reset"]

\* client_init: connect() completes in the kernel, before the server accepts
Connect(c) ==
    /\ client[c].pc = "start"
    /\ ~ServerGone
    /\ client' = [client EXCEPT ![c].pc = "prompt"]
    /\ sock' = [sock EXCEPT ![c] = "up"]
    /\ backlog' = Append(backlog, c)
    /\ UNCHANGED <<files, place, server, up, down>>

\* strstr(line, "get") and strstr(line, "put") look at the pathname too
ExpectsFile(cmd) == IsTransfer(cmd) \/ cmd.path \in Lookalikes

\* the user types a command for the server; the first write to a server that
\* has gone is lost, the next one raises SIGPIPE
Send(c, cmd) ==
    /\ client[c].pc = "prompt"
    /\ client[c].sent < MaxCommands
    /\ sock[c] # "broken"
    /\ client' = [client EXCEPT ![c].pc = IF ExpectsFile(cmd) THEN "file" ELSE "size",
                                ![c].sent = @ + 1, ![c].cmd = cmd, ![c].cleared = FALSE]
    /\ up' = IF sock[c] = "up" THEN [up EXCEPT ![c] = Append(@, [id |-> client[c].sent + 1, cmd |-> cmd])]
             ELSE up
    /\ sock' = [sock EXCEPT ![c] = IF @ = "gone" THEN "broken" ELSE @]
    /\ UNCHANGED <<files, place, server, backlog, down>>

SendFails(c) ==
    /\ client[c].pc = "prompt"
    /\ sock[c] = "broken"
    /\ client' = [client EXCEPT ![c].pc = "out"]
    /\ UNCHANGED <<files, place, server, backlog, sock, up, down>>

\* an empty line, or a local lls of a missing pathname: exit()
Leave(c) ==
    /\ client[c].pc = "prompt"
    /\ UNCHANGED <<files, place, server, backlog, up, down>>
    /\ Ends(c, "out")

\* the client is killed, or its user interrupts it, while it waits for the server
Kill(c) ==
    /\ client[c].pc \in {"file", "size", "line"}
    /\ UNCHANGED <<files, place, server, backlog, up, down>>
    /\ Ends(c, "lost")

\* Mutant of HoldsMarker: a part of the marker anywhere in the buffer will do.
HoldsMarkerPart(buff, cleared, junk) == \E i \in DOMAIN buff : buff[i].kind = "eof"

\* strcmp(buff, EOF_STR) = 0.  Behind what was read the buffer is cleared, but in
\* the first round it is uninitialised: junk says whether that completes the marker.
HoldsMarker(buff, cleared, junk) ==
    \A j \in 1..EofLen :
      IF j <= Len(buff) THEN Char(buff[j]) = MARKER[j]
      ELSE IF cleared THEN MARKER[j] = NUL ELSE junk

\* one round of the loop that receives a file
ReadFile(c) ==
    LET n == Least(MAX, Len(down[c])) IN
    /\ client[c].pc = "file"
    /\ n > 0
    /\ down' = [down EXCEPT ![c] = SubSeq(@, n + 1, Len(@))]
    /\ \E junk \in BOOLEAN :
         client' = [client EXCEPT
                      ![c].pc = IF HoldsMarker(SubSeq(down[c], 1, n), client[c].cleared, junk)
                                  THEN "prompt" ELSE "file",
                      ![c].cleared = TRUE]
    /\ UNCHANGED <<files, place, server, backlog, sock, up>>

ReadSize(c) ==
    /\ client[c].pc = "size"
    /\ down[c] # <<>>
    /\ Head(down[c]).kind = "size"
    /\ down' = [down EXCEPT ![c] = Tail(@)]
    /\ client' = [client EXCEPT ![c].pc = "line"]
    /\ UNCHANGED <<files, place, server, backlog, sock, up>>

\* characters read as an int: char str[s] is larger than the stack
ReadGarbage(c) ==
    /\ client[c].pc = "size"
    /\ down[c] # <<>>
    /\ Head(down[c]).kind # "size"
    /\ down' = [down EXCEPT ![c] = Tail(@)]
    /\ Ends(c, "out")
    /\ UNCHANGED <<files, place, server, backlog, up>>

\* Mutant of ReadLine: the terminating NUL is not counted.
ReadLineShort(c) ==
    LET n == Least(LineLen - 1, Len(down[c])) IN
    /\ client[c].pc = "line"
    /\ n > 0
    /\ down' = [down EXCEPT ![c] = SubSeq(@, n + 1, Len(@))]
    /\ client' = [client EXCEPT ![c].pc = "prompt", ![c].shown = SubSeq(down[c], 1, n)]
    /\ UNCHANGED <<files, place, server, backlog, sock, up>>

\* read() of size + 1 bytes
ReadLine(c) ==
    LET n == Least(LineLen + 1, Len(down[c])) IN
    /\ client[c].pc = "line"
    /\ n > 0
    /\ down' = [down EXCEPT ![c] = SubSeq(@, n + 1, Len(@))]
    /\ client' = [client EXCEPT ![c].pc = "prompt", ![c].shown = SubSeq(down[c], 1, n)]
    /\ UNCHANGED <<files, place, server, backlog, sock, up>>

\* the server's end is closed and everything it sent has been read: read()
\* returns 0 or an error, in the loops and in both reads of a reply
ReadNothing(c) ==
    /\ client[c].pc \in {"file", "size", "line"}
    /\ down[c] = <<>>
    /\ ServerGone
    /\ client' = [client EXCEPT ![c].pc = "prompt",
                                ![c].shown = IF client[c].pc = "file" THEN @ ELSE <<>>]
    /\ UNCHANGED <<files, place, server, backlog, sock, up, down>>

ClientStep(c) ==
    \/ ReadFile(c) \/ ReadSize(c) \/ ReadGarbage(c) \/ ReadLine(c) \/ ReadNothing(c)

UserStep(c) ==
    \/ Connect(c) \/ SendFails(c) \/ Leave(c) \/ Kill(c)
    \/ \E cmd \in Commands : Send(c, cmd)

Next == ServerStep \/ \E c \in Clients : ClientStep(c) \/ UserStep(c)

Spec == Init /\ [][Next]_vars

\* both programs run on; what users type is not fair
FairSpec == Spec /\ WF_vars(ServerStep) /\ \A c \in Clients : WF_vars(ClientStep(c))
=============================================================================
