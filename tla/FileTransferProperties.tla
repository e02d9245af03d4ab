----------------------- MODULE FileTransferProperties -----------------------
(***************************************************************************)
(* What the client and the server of Lab4 are to each other, as properties  *)
(* of FileTransfer.                                                         *)
(***************************************************************************)
EXTENDS FileTransfer

Waiting(c) == client[c].pc \in {"file", "size", "line"}

\* What the client shows for a command line is the whole reply to that command,
\* not part of it and not the reply to an earlier one (client.c 153-157), or
\* nothing if the server has gone.
RepliesMatch ==
    \A c \in Clients :
      client[c].pc = "prompt" /\ client[c].sent > 0 /\ ~ExpectsFile(client[c].cmd) =>
        \/ \E verdict \in {"SUCCESS", "FAILURE", "text"} :
             client[c].shown = Line(client[c].sent, verdict)
        \/ ServerGone /\ client[c].shown = <<>>

\* Only the loss of the client it serves in the middle of a call ends the server:
\* no order of the clients' commands, reads and exits at the prompt and of its own
\* writes does (server.c 257-273).
OnlyLossEndsServer == ServerGone => client[server.peer].pc = "lost"

\* Client and server never wait for each other: a client does not wait for
\* something to read while the server it is connected to waits for its command
\* (client.c 132, 143, 153 against server.c 257).
NotStuck ==
    \A c \in Clients :
      ~ /\ Waiting(c) /\ down[c] = <<>> /\ up[c] = <<>>
        /\ server.pc = "read" /\ server.peer = c

InFile(symbol) == symbol.kind \in {"data", "eof"}

\* A file whose text the client never takes for the marker: no part of it spells
\* EOF_STR, not even with the beginning of the marker behind it, and it does not
\* begin like EOF_STR as far as it goes.
MarkerFree ==
    /\ \A i \in 1..FileLen : \E j \in 1..EofLen - 1 : (FILE \o MARKER)[i + j - 1] # MARKER[j]
    /\ FileLen # 0 => \E j \in 1..Least(FileLen, EofLen - 1) : FILE[j] # MARKER[j]

\* A transfer the client reports as received was received whole, as long as the
\* server lives: when the loop of client.c 132-138 ends, nothing of the file or the
\* marker is still in the stream, in the server or to be asked for.
TransferComplete ==
    \A c \in Clients :
      client[c].pc = "prompt" /\ IsTransfer(client[c].cmd) /\ ~ServerGone =>
        /\ up[c] = <<>>
        /\ ~(server.pc = "file" /\ server.peer = c)
        /\ \A i \in DOMAIN down[c] : ~InFile(down[c][i])

-----------------------------------------------------------------------------
\* Someone else's connection is being served and its user is thinking.
HeldUp(c) ==
    /\ server.pc # "accept"
    /\ server.peer # c
    /\ server.peer \in Clients
    /\ client[server.peer].pc = "prompt"

\* No command waits for ever, also that of a client in the listen queue, unless
\* another user keeps the only connection open (the accept loop of server.c
\* 234-274): its client gets the answer, hears that the server has gone or is killed.
EveryoneServed ==
    \A c \in Clients : []<>~HeldUp(c) => (Waiting(c) ~> client[c].pc \in {"prompt", "lost"})

-----------------------------------------------------------------------------
(* The abstract calls: a command is performed when runCommand has run, its  *)
(* verdict is on the way until the client has read the line.                *)

OnItsWay(c) ==
    IF server.peer = c /\ server.pc \in {"size", "line"} THEN server.verdict
    ELSE Last(down[c]).verdict

\* the server is at work on c's command; id 0 is a read that failed
AtWork(c) == server.peer = c /\ server.pc \in {"size", "line"} /\ server.id # 0

NoCall == [state |-> "none"]
LostCall == [state |-> "lost"]
FailedCall == [state |-> "failed"]

CallOf(c) ==
    IF client[c].sent = 0 THEN NoCall
    ELSE IF client[c].pc = "lost" THEN
           IF up[c] # <<>> THEN [state |-> "asked", cmd |-> client[c].cmd]
           ELSE IF AtWork(c) THEN [state |-> "performed", verdict |-> server.verdict]
           ELSE LostCall
    ELSE IF Waiting(c) THEN
           IF up[c] # <<>> \/ ServerGone THEN [state |-> "asked", cmd |-> client[c].cmd]
           ELSE [state |-> "performed", verdict |-> OnItsWay(c)]
    ELSE IF client[c].shown = <<>> THEN FailedCall
    ELSE [state |-> "answered", verdict |-> Last(client[c].shown).verdict]

Abstract == INSTANCE RemoteCommands WITH call <- [c \in Clients |-> CallOf(c)],
                                         alive <- ~ServerGone

\* Over the commands that transfer no file, the two programs implement
\* RemoteCommands: one atomic call at a time, whatever the other clients do.
ImplementsRemoteCommands == Abstract!Spec
=============================================================================
