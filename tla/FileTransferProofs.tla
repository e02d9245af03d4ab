------------------------- MODULE FileTransferProofs -------------------------
(***************************************************************************)
(* What client and server of Lab4 are to each other, for any number of     *)
(* clients and any lengths of buffers, markers, lines and files.           *)
(*                                                                         *)
(* None of the properties is inductive.  TransferComplete needs to know    *)
(* where the file being received is: TransferInv follows it from the       *)
(* request over the chunks to the marker, and MarkerFree makes sure that   *)
(* no piece of it is taken for the marker.  The properties of the plain    *)
(* commands need to know what is in both streams: Phase(c) says it, for    *)
(* every pair of program counters, while the server lives, and Orphaned(c) *)
(* once it has ended in the call of a client that was lost.                *)
(***************************************************************************)
EXTENDS FileTransferProperties, NumberLemmas, SequenceTheorems

NoCommand == [op |-> "none"]
Verdicts == {"SUCCESS", "FAILURE", "text"}
SymbolKinds == {"size", "text", "data", "eof"}
Symbol == [kind : {"size", "text", "data", "eof"}, id : Nat, verdict : Verdicts \cup {"none"},
           n : Nat]
Message == [id : Nat, cmd : Commands]

ServerType ==
  [pc : {"accept", "read", "file", "size", "line", "dead"}, peer : Clients \cup {NoClient},
   id : Nat, left : 0 .. FileLen, verdict : Verdicts \cup {"none"}]
ClientType ==
  [pc : {"start", "prompt", "file", "size", "line", "out", "lost"}, sent : Nat,
   cmd : Commands \cup {NoCommand}, cleared : BOOLEAN, shown : Seq(Symbol)]
SockType == {"none", "up", "fin", "reset", "broken", "gone"}

\* The variables have their types, and a server that reads or writes has a
\* client.
ShapeInv ==
  /\ files \in [Names -> Kinds]
  /\ server \in ServerType
  /\ server.pc # "accept" => server.peer \in Clients
  /\ backlog \in Seq(Clients)
  /\ sock \in [Clients -> SockType]
  /\ up \in [Clients -> Seq(Message)]
  /\ down \in [Clients -> Seq(Symbol)]
  /\ client \in [Clients -> ClientType]

-----------------------------------------------------------------------------
\* The lengths of the file and of the marker.
LEMMA Lengths ==
  /\ FileLen \in Nat /\ EofLen \in Nat \ {0} /\ EofLen <= MAX /\ MAX \in Nat \ {0}
  /\ LineLen \in Nat \ {0}
<1>1. Len(FILE) \in Nat
  BY TransferAssumption
<1>2. Len(MARKER) \in 1 .. MAX /\ MAX \in Nat \ {0} /\ LineLen \in 1 .. MAX
  BY TransferAssumption
<1> QED BY <1>1, <1>2 DEF FileLen, EofLen

\* What symbols of one kind look like in the stream.
LEMMA SymbolsAre ==
  ASSUME NEW kind \in SymbolKinds, NEW id \in Nat,
         NEW verdict \in Verdicts \cup {"none"}, NEW start \in Nat, NEW n \in Nat
  PROVE  /\ Symbols(kind, id, verdict, start, n) \in Seq(Symbol)
         /\ Len(Symbols(kind, id, verdict, start, n)) = n
<1> DEFINE x(i) == [kind |-> kind, id |-> id, verdict |-> verdict, n |-> start + i]
<1>1. \A i \in 1 .. n : x(i) \in Symbol
  BY DEF Symbol, SymbolKinds
<1>2. Symbols(kind, id, verdict, start, n) = [i \in 1 .. n |-> x(i)]
  BY DEF Symbols
<1> HIDE DEF x
<1>4. Symbols(kind, id, verdict, start, n) \in [1 .. n -> Symbol]
  BY <1>1, <1>2
<1>5. Symbols(kind, id, verdict, start, n) \in Seq(Symbol)
  BY <1>4
<1>6. Len(Symbols(kind, id, verdict, start, n)) = n
  <2>1. Len(Symbols(kind, id, verdict, start, n)) \in Nat
        /\ 1 .. Len(Symbols(kind, id, verdict, start, n)) = 1 .. n
    BY <1>4, <1>5, LenProperties
  <2>2. n = 0 \/ n \in 1 .. n
    OBVIOUS
  <2> QED BY <2>1, <2>2
<1> QED BY <1>5, <1>6

\* What a chunk of a file looks like in the stream.
LEMMA ChunkIs ==
  ASSUME NEW id \in Nat, NEW start \in Nat, NEW n \in Nat
  PROVE  /\ Symbols("data", id, "none", start, n) \in Seq(Symbol)
         /\ Len(Symbols("data", id, "none", start, n)) = n
         /\ \A i \in 1 .. n : /\ Symbols("data", id, "none", start, n)[i].kind = "data"
                              /\ Symbols("data", id, "none", start, n)[i].n = start + i
<1>1. PICK kind \in SymbolKinds, verdict \in Verdicts \cup {"none"} :
        kind = "data" /\ verdict = "none"
  BY DEF SymbolKinds
<1>2. Symbols(kind, id, verdict, start, n) \in Seq(Symbol)
      /\ Len(Symbols(kind, id, verdict, start, n)) = n
  BY SymbolsAre
<1>3. \A i \in 1 .. n : /\ Symbols("data", id, "none", start, n)[i].kind = "data"
                        /\ Symbols("data", id, "none", start, n)[i].n = start + i
  BY DEF Symbols
<1> QED BY <1>1, <1>2, <1>3, Zenon

\* The marker is EofLen symbols.
LEMMA MarkerIs ==
  ASSUME NEW id \in Nat
  PROVE  /\ Marker(id) \in Seq(Symbol) /\ Len(Marker(id)) = EofLen
         /\ \A i \in 1 .. EofLen : Marker(id)[i].kind = "eof" /\ Marker(id)[i].n = i
<1>1. PICK kind \in SymbolKinds, verdict \in Verdicts \cup {"none"}, start \in Nat, n \in Nat :
        kind = "eof" /\ verdict = "none" /\ start = 0 /\ n = EofLen
  BY Lengths DEF SymbolKinds
<1>2. Symbols(kind, id, verdict, start, n) \in Seq(Symbol)
      /\ Len(Symbols(kind, id, verdict, start, n)) = n
  BY SymbolsAre
<1>3. Marker(id) = Symbols(kind, id, verdict, start, n)
  BY <1>1, Zenon DEF Marker
<1>4. \A i \in 1 .. EofLen : Marker(id)[i].kind = "eof" /\ Marker(id)[i].n = i
  BY Lengths DEF Marker, Symbols
<1> QED BY <1>1, <1>2, <1>3, <1>4, Zenon

\* The int that announces a line is one symbol.
LEMMA SizeIs ==
  ASSUME NEW id \in Nat
  PROVE  /\ Symbols("size", id, "none", 0, 1) \in Seq(Symbol)
         /\ Len(Symbols("size", id, "none", 0, 1)) = 1
         /\ Symbols("size", id, "none", 0, 1)[1].kind = "size"
<1>1. PICK kind \in SymbolKinds, verdict \in Verdicts \cup {"none"}, start \in Nat, n \in Nat :
        kind = "size" /\ verdict = "none" /\ start = 0 /\ n = 1
  BY DEF SymbolKinds
<1>2. Symbols(kind, id, verdict, start, n) \in Seq(Symbol)
      /\ Len(Symbols(kind, id, verdict, start, n)) = n
  BY SymbolsAre
<1>3. Symbols("size", id, "none", 0, 1)[1].kind = "size"
  BY DEF Symbols
<1> QED BY <1>1, <1>2, <1>3, Zenon

\* The line is LineLen symbols.
LEMMA LineIs ==
  ASSUME NEW id \in Nat, NEW verdict \in Verdicts \cup {"none"}
  PROVE  /\ Line(id, verdict) \in Seq(Symbol) /\ Len(Line(id, verdict)) = LineLen
         /\ \A i \in 1 .. LineLen : Line(id, verdict)[i].kind = "text"
                                    /\ Line(id, verdict)[i].verdict = verdict
<1>1. PICK kind \in SymbolKinds, start \in Nat, n \in Nat :
        kind = "text" /\ start = 0 /\ n = LineLen
  BY Lengths DEF SymbolKinds
<1>2. Symbols(kind, id, verdict, start, n) \in Seq(Symbol)
      /\ Len(Symbols(kind, id, verdict, start, n)) = n
  BY SymbolsAre
<1>3. Line(id, verdict) = Symbols(kind, id, verdict, start, n)
  BY <1>1, Zenon DEF Line
<1>4. \A i \in 1 .. LineLen : Line(id, verdict)[i].kind = "text"
                              /\ Line(id, verdict)[i].verdict = verdict
  BY DEF Line, Symbols
<1> QED BY <1>1, <1>2, <1>3, <1>4, Zenon

\* A stream after a write.
LEMMA ConcatIs ==
  ASSUME NEW S, NEW s \in Seq(S), NEW t \in Seq(S)
  PROVE  /\ s \o t \in Seq(S) /\ Len(s) \in Nat /\ Len(t) \in Nat
         /\ Len(s \o t) = Len(s) + Len(t)
         /\ \A i \in 1 .. Len(s) : (s \o t)[i] = s[i]
         /\ \A i \in Len(s) + 1 .. Len(s) + Len(t) :
              (s \o t)[i] = t[i - Len(s)] /\ i - Len(s) \in 1 .. Len(t)
  OBVIOUS

\* What is left of a stream after a read of n symbols.
LEMMA RestOf ==
  ASSUME NEW S, NEW s \in Seq(S), NEW n \in 0 .. Len(s)
  PROVE  /\ SubSeq(s, n + 1, Len(s)) \in Seq(S)
         /\ Len(SubSeq(s, n + 1, Len(s))) = Len(s) - n
         /\ \A i \in 1 .. Len(s) - n : SubSeq(s, n + 1, Len(s))[i] = s[n + i]
         /\ SubSeq(s, 1, n) \in Seq(S)
         /\ Len(SubSeq(s, 1, n)) = n
         /\ \A i \in 1 .. n : SubSeq(s, 1, n)[i] = s[i]
  OBVIOUS

\* A message taken from the front of a stream.
LEMMA TailOf ==
  ASSUME NEW S, NEW s \in Seq(S), s # <<>>
  PROVE  /\ Head(s) \in S /\ Head(s) = s[1] /\ Len(s) \in Nat \ {0}
         /\ Tail(s) \in Seq(S) /\ Len(Tail(s)) = Len(s) - 1
         /\ \A i \in 1 .. Len(s) - 1 : Tail(s)[i] = s[i + 1]
  OBVIOUS

\* What a command leaves of the server's machine, and what it says.
LEMMA CommandFacts ==
  ASSUME NEW cmd \in Commands, files \in [Names -> Kinds]
  PROVE  /\ FilesAfter(cmd, files, place) \in [Names -> Kinds]
         /\ Verdict(cmd, files, place) \in Verdicts
         /\ IsTransfer(cmd) => ExpectsFile(cmd)
<1>1. cmd.op \in Ops /\ cmd.path \in Names \cup {NoPath}
  BY TransferAssumption DEF CommandType
<1>2. FilesAfter(cmd, files, place) \in [Names -> Kinds]
  BY <1>1 DEF FilesAfter, Kinds, Succeeds
<1>3. Verdict(cmd, files, place) \in Verdicts
  BY DEF Verdict, Verdicts
<1> QED BY <1>2, <1>3 DEF ExpectsFile

\* The lesser of two numbers.
LEMMA LeastIs ==
  ASSUME NEW a \in Nat, NEW b \in Nat
  PROVE  Least(a, b) \in Nat /\ Least(a, b) <= a /\ Least(a, b) <= b
  BY DEF Least

\* A server that ends leaves its variables in their types.
LEMMA DiesShape ==
  ASSUME ShapeInv, Dies, server.pc # "accept"
  PROVE  /\ server' \in ServerType
         /\ server'.pc = "dead" /\ server'.peer \in Clients
         /\ sock' \in [Clients -> SockType]
  BY DEF ShapeInv, Dies, ServerType, SockType

\* So does a write.
LEMMA WriteShape ==
  ASSUME ShapeInv, server.pc # "accept", NEW s \in Seq(Symbol), Write(s)
  PROVE  /\ sock' \in [Clients -> SockType]
         /\ down' \in [Clients -> Seq(Symbol)]
<1> USE DEF ShapeInv
<1>1. CASE sock[server.peer] = "up"
  <2>1. server.peer \in Clients /\ down[server.peer] \o s \in Seq(Symbol)
    OBVIOUS
  <2> QED BY <1>1, <2>1 DEF Write
<1>2. CASE sock[server.peer] # "up"
  BY <1>2 DEF Write, SockType
<1> QED BY <1>1, <1>2

\* Every step keeps the types.
LEMMA ShapeStep == ShapeInv /\ [Next]_vars => ShapeInv'
<1> SUFFICES ASSUME ShapeInv, [Next]_vars PROVE ShapeInv'
  OBVIOUS
<1>1. CASE Accept
  BY <1>1, TailOf DEF Accept, ShapeInv, ServerType
<1>2. CASE ReadCommand
  <2>1. server.peer \in Clients /\ server.pc = "read" /\ up[server.peer] # <<>>
    BY <1>2 DEF ReadCommand, ShapeInv
  <2>2. PICK msg \in Message : msg = Head(up[server.peer])
    BY <2>1, TailOf DEF ShapeInv
  <2>3. Tail(up[server.peer]) \in Seq(Message)
    BY <2>1, TailOf DEF ShapeInv
  <2>4. msg.cmd \in Commands /\ msg.id \in Nat
    BY <2>2 DEF Message
  <2>5. files' \in [Names -> Kinds]
    BY <1>2, <2>2, <2>4, CommandFacts DEF ReadCommand, ShapeInv
  <2>6. server' \in ServerType /\ server'.peer \in Clients
    <3>1. Verdict(msg.cmd, files, place) \in Verdicts
      BY <2>4, CommandFacts DEF ShapeInv
    <3>2. FileLen \in 0 .. FileLen
      BY Lengths
    <3> QED BY <1>2, <2>1, <2>2, <2>4, <3>1, <3>2
            DEF ReadCommand, ShapeInv, ServerType
  <2>7. up' \in [Clients -> Seq(Message)]
    BY <1>2, <2>1, <2>3 DEF ReadCommand, ShapeInv
  <2> QED BY <1>2, <2>5, <2>6, <2>7 DEF ReadCommand, ShapeInv
<1>3. CASE ListMissing
  <2>1. server.peer \in Clients /\ server.pc = "read" /\ up[server.peer] # <<>>
    BY <1>3 DEF ListMissing, ShapeInv
  <2>2. up' \in [Clients -> Seq(Message)]
    BY <1>3, <2>1, TailOf DEF ListMissing, ShapeInv
  <2> QED BY <1>3, <2>1, <2>2, DiesShape DEF ListMissing, ShapeInv
<1>4. CASE Disconnect
  BY <1>4 DEF Disconnect, ShapeInv, ServerType
<1>5. CASE ReadFails
  BY <1>5 DEF ReadFails, ShapeInv, ServerType, SockType, Verdicts
<1>6. CASE SendChunk
  <2> DEFINE n == Least(MAX, server.left)
             start == FileLen - server.left
  <2>1. n \in Nat /\ n <= server.left /\ server.left \in 0 .. FileLen /\ FileLen \in Nat
    <3>1. server.left \in 0 .. FileLen
      BY DEF ShapeInv, ServerType
    <3>2. server.left \in Nat /\ MAX \in Nat /\ FileLen \in Nat
      BY <3>1, Lengths
    <3>3. n \in Nat /\ n <= server.left
      BY <3>2, LeastIs
    <3> QED BY <3>1, <3>2, <3>3
  <2>2. Symbols("data", server.id, "none", start, n) \in Seq(Symbol)
    <3>1. server.id \in Nat
      BY DEF ShapeInv, ServerType
    <3>2. n \in Nat /\ start \in Nat
      BY <2>1
    <3> HIDE DEF n, start
    <3> QED BY <3>1, <3>2, ChunkIs
  <2>3. sock' \in [Clients -> SockType] /\ down' \in [Clients -> Seq(Symbol)]
    BY <1>6, <2>2, WriteShape DEF SendChunk
  <2> HIDE DEF n
  <2>4. server' = [server EXCEPT !.left = @ - n] /\ server.left - n \in 0 .. FileLen
    BY <1>6, <2>1 DEF n, SendChunk
  <2>5. server' \in ServerType /\ server'.peer = server.peer /\ server'.pc = server.pc
    BY <2>4 DEF ShapeInv, ServerType
  <2> QED BY <1>6, <2>3, <2>5 DEF SendChunk, ShapeInv
<1>7. CASE SendMarker
  <2>1. Marker(server.id) \in Seq(Symbol)
    <3>1. server.id \in Nat
      BY DEF ShapeInv, ServerType
    <3> QED BY <3>1, MarkerIs
  <2>2. sock' \in [Clients -> SockType] /\ down' \in [Clients -> Seq(Symbol)]
    BY <1>7, <2>1, WriteShape DEF SendMarker
  <2> QED BY <1>7, <2>2 DEF SendMarker, ShapeInv, ServerType
<1>8. CASE SendSize
  <2>1. Symbols("size", server.id, "none", 0, 1) \in Seq(Symbol)
    <3>1. server.id \in Nat
      BY DEF ShapeInv, ServerType
    <3> QED BY <3>1, SizeIs
  <2>2. sock' \in [Clients -> SockType] /\ down' \in [Clients -> Seq(Symbol)]
    BY <1>8, <2>1, WriteShape DEF SendSize
  <2> QED BY <1>8, <2>2 DEF SendSize, ShapeInv, ServerType
<1>9. CASE SendLine
  <2>1. Line(server.id, server.verdict) \in Seq(Symbol)
    <3>1. server.id \in Nat /\ server.verdict \in Verdicts \cup {"none"}
      BY DEF ShapeInv, ServerType
    <3> QED BY <3>1, LineIs
  <2>2. sock' \in [Clients -> SockType] /\ down' \in [Clients -> Seq(Symbol)]
    BY <1>9, <2>1, WriteShape DEF SendLine
  <2> QED BY <1>9, <2>2 DEF SendLine, ShapeInv, ServerType
<1>10. CASE Sigpipe
  BY <1>10, DiesShape DEF Sigpipe, ShapeInv
<1>11. ASSUME NEW c \in Clients, Connect(c) PROVE ShapeInv'
  <2>1. ASSUME NEW x \in Clients PROVE client'[x] \in ClientType
    BY <1>11 DEF Connect, Ends, ShapeInv, ClientType
  <2>2. sock' \in [Clients -> SockType]
    BY <1>11 DEF Connect, Ends, ShapeInv, SockType
  <2>3. down' \in [Clients -> Seq(Symbol)]
    BY <1>11, TailOf DEF Connect, ShapeInv
  <2>4. backlog' \in Seq(Clients)
    BY <1>11 DEF Connect, ShapeInv
  <2> QED BY <1>11, <2>1, <2>2, <2>3, <2>4 DEF Connect, Ends, ShapeInv
<1>12. ASSUME NEW c \in Clients, SendFails(c) PROVE ShapeInv'
  BY <1>12 DEF SendFails, ShapeInv, ClientType
<1>13. ASSUME NEW c \in Clients, Leave(c) \/ Kill(c) PROVE ShapeInv'
  <2>1. ASSUME NEW x \in Clients PROVE client'[x] \in ClientType
    <3>1. PICK p \in {"out", "lost"} : client' = [client EXCEPT ![c].pc = p]
      BY <1>13 DEF Leave, Kill, Ends
    <3> QED BY <3>1 DEF ShapeInv, ClientType
  <2>2. sock' \in [Clients -> SockType]
    BY <1>13 DEF Leave, Kill, Ends, ShapeInv, SockType
  <2>3. down' \in [Clients -> Seq(Symbol)]
    BY <1>13, TailOf DEF Leave, Kill, ShapeInv
  <2>4. backlog' \in Seq(Clients)
    BY <1>13 DEF Leave, Kill, ShapeInv
  <2> QED BY <1>13, <2>1, <2>2, <2>3, <2>4 DEF Leave, Kill, Ends, ShapeInv
<1>14. ASSUME NEW c \in Clients, NEW cmd \in Commands, Send(c, cmd) PROVE ShapeInv'
  <2>1. client' \in [Clients -> ClientType]
    <3>1. ASSUME NEW x \in Clients PROVE client'[x] \in ClientType
      <4>1. client \in [Clients -> ClientType]
        BY DEF ShapeInv
      <4> QED BY <1>14, <4>1 DEF Send, ClientType
    <3> QED BY <1>14, <3>1 DEF Send, ShapeInv
  <2>2. up' \in [Clients -> Seq(Message)]
    <3>1. [id |-> client[c].sent + 1, cmd |-> cmd] \in Message
      BY DEF ShapeInv, ClientType, Message
    <3> QED BY <1>14, <3>1 DEF Send, ShapeInv
  <2>3. sock' \in [Clients -> SockType]
    BY <1>14 DEF Send, ShapeInv, SockType
  <2> QED BY <1>14, <2>1, <2>2, <2>3 DEF Send, ShapeInv
<1>15. ASSUME NEW c \in Clients, ReadFile(c) PROVE ShapeInv'
  <2> DEFINE n == Least(MAX, Len(down[c]))
  <2>1. n \in 0 .. Len(down[c]) /\ down[c] \in Seq(Symbol)
    <3>1. down[c] \in Seq(Symbol) /\ Len(down[c]) \in Nat /\ MAX \in Nat
      BY TransferAssumption DEF ShapeInv
    <3>2. n \in Nat /\ n <= Len(down[c])
      BY <3>1, LeastIs
    <3> QED BY <3>1, <3>2
  <2>2. SubSeq(down[c], n + 1, Len(down[c])) \in Seq(Symbol)
    BY <2>1, RestOf
  <2> HIDE DEF n
  <2>3. down' \in [Clients -> Seq(Symbol)]
    BY <1>15, <2>2 DEF n, ReadFile, ShapeInv
  <2>4. client' \in [Clients -> ClientType]
    <3>1. ASSUME NEW x \in Clients PROVE client'[x] \in ClientType
      <4>1. client \in [Clients -> ClientType] /\ n \in Nat
        BY <2>1 DEF ShapeInv
      <4>2. PICK p \in {"prompt", "file"} : client' = [client EXCEPT ![c].pc = p, ![c].cleared = TRUE]
        BY <1>15 DEF ReadFile
      <4> QED BY <4>1, <4>2 DEF ClientType
    <3> QED BY <1>15, <3>1 DEF ReadFile, ShapeInv
  <2> QED BY <1>15, <2>3, <2>4 DEF ReadFile, ShapeInv
<1>16. ASSUME NEW c \in Clients, ReadSize(c) PROVE ShapeInv'
  <2>1. ASSUME NEW x \in Clients PROVE client'[x] \in ClientType
    BY <1>16 DEF ReadSize, Ends, ShapeInv, ClientType
  <2>2. sock' \in [Clients -> SockType]
    BY <1>16 DEF ReadSize, Ends, ShapeInv, SockType
  <2>3. down' \in [Clients -> Seq(Symbol)]
    BY <1>16, TailOf DEF ReadSize, ShapeInv
  <2>4. backlog' \in Seq(Clients)
    BY <1>16 DEF ReadSize, ShapeInv
  <2> QED BY <1>16, <2>1, <2>2, <2>3, <2>4 DEF ReadSize, Ends, ShapeInv
<1>17. ASSUME NEW c \in Clients, ReadGarbage(c) PROVE ShapeInv'
  <2>1. ASSUME NEW x \in Clients PROVE client'[x] \in ClientType
    BY <1>17 DEF ReadGarbage, Ends, ShapeInv, ClientType
  <2>2. sock' \in [Clients -> SockType]
    BY <1>17 DEF ReadGarbage, Ends, ShapeInv, SockType
  <2>3. down' \in [Clients -> Seq(Symbol)]
    BY <1>17, TailOf DEF ReadGarbage, ShapeInv
  <2>4. backlog' \in Seq(Clients)
    BY <1>17 DEF ReadGarbage, ShapeInv
  <2> QED BY <1>17, <2>1, <2>2, <2>3, <2>4 DEF ReadGarbage, Ends, ShapeInv
<1>18. ASSUME NEW c \in Clients, ReadLine(c) PROVE ShapeInv'
  <2> DEFINE n == Least(LineLen + 1, Len(down[c]))
  <2>1. n \in 0 .. Len(down[c]) /\ down[c] \in Seq(Symbol)
    <3>1. down[c] \in Seq(Symbol) /\ Len(down[c]) \in Nat /\ LineLen + 1 \in Nat
      BY TransferAssumption DEF ShapeInv
    <3>2. n \in Nat /\ n <= Len(down[c])
      BY <3>1, LeastIs
    <3> QED BY <3>1, <3>2
  <2>2. SubSeq(down[c], n + 1, Len(down[c])) \in Seq(Symbol) /\ SubSeq(down[c], 1, n) \in Seq(Symbol)
    BY <2>1, RestOf
  <2> HIDE DEF n
  <2>3. down' \in [Clients -> Seq(Symbol)]
    BY <1>18, <2>2 DEF n, ReadLine, ShapeInv
  <2>4. client' \in [Clients -> ClientType]
    <3>1. ASSUME NEW x \in Clients PROVE client'[x] \in ClientType
      BY <1>18, <2>1, <2>2 DEF n, ReadLine, ShapeInv, ClientType
    <3> QED BY <1>18, <3>1 DEF ReadLine, ShapeInv
  <2> QED BY <1>18, <2>3, <2>4 DEF ReadLine, ShapeInv
<1>19. ASSUME NEW c \in Clients, ReadNothing(c) PROVE ShapeInv'
  <2>1. client' \in [Clients -> ClientType]
    <3>1. ASSUME NEW x \in Clients PROVE client'[x] \in ClientType
      BY <1>19 DEF ReadNothing, ShapeInv, ClientType
    <3> QED BY <1>19, <3>1 DEF ReadNothing, ShapeInv
  <2> QED BY <1>19, <2>1 DEF ReadNothing, ShapeInv
<1>20. CASE UNCHANGED vars
  BY <1>20 DEF vars, ShapeInv
<1> QED BY <1>1, <1>2, <1>3, <1>4, <1>5, <1>6, <1>7, <1>8, <1>9, <1>10, <1>11, <1>12,
           <1>13, <1>14, <1>15, <1>16, <1>17, <1>18, <1>19, <1>20
        DEF Next, ServerStep, ClientStep, UserStep

-----------------------------------------------------------------------------
(***************************************************************************)
(* A transfer the client takes for finished.  While the server lives, a     *)
(* client is engaged in at most one transfer: its request is the last thing *)
(* in up, or the server is sending the file, or the end of it is in down.   *)
(* What there is of the file in down is one piece of it, which ends where   *)
(* the server has got to: a buffer that begins with a character of the file *)
(* goes on with those that follow it, and by MarkerFree these differ from   *)
(* the marker.                                                              *)
(***************************************************************************)

\* Where a character is in the file and the marker behind it.
Place(symbol) == IF symbol.kind = "eof" THEN FileLen + symbol.n ELSE symbol.n
Placed(symbol) ==
  IF symbol.kind = "eof" THEN symbol.n \in 1 .. EofLen ELSE symbol.n \in 1 .. FileLen

\* The characters of the file in d are successive and end with number sent; while
\* the server has more to come, d ends there too.
Piece(d, sent, more) ==
  \A i \in 1 .. Len(d) : InFile(d[i]) =>
    /\ Placed(d[i])
    /\ Place(d[i]) + (Len(d) - i) >= sent
    /\ more => Place(d[i]) + (Len(d) - i) = sent
    /\ \A j \in i .. Len(d) :
         /\ InFile(d[j]) <=> Place(d[i]) + (j - i) <= sent
         /\ InFile(d[j]) => Place(d[j]) = Place(d[i]) + (j - i)

\* A character has a place.
LEMMA PlaceIs ==
  ASSUME NEW symbol \in Symbol
  PROVE  Place(symbol) \in Nat
  BY Lengths DEF Place, Symbol

\* A reply behind the piece.
LEMMA PieceReply ==
  ASSUME NEW d \in Seq(Symbol), NEW s \in Seq(Symbol), NEW sent \in Nat,
         Piece(d, sent, FALSE), \A i \in 1 .. Len(s) : ~InFile(s[i])
  PROVE  Piece(d \o s, sent, FALSE)
<1> DEFINE ds == d \o s
<1>1. /\ Len(ds) = Len(d) + Len(s) /\ Len(d) \in Nat /\ Len(s) \in Nat
      /\ \A i \in 1 .. Len(d) : ds[i] = d[i]
      /\ \A i \in Len(d) + 1 .. Len(d) + Len(s) : ds[i] = s[i - Len(d)] /\ i - Len(d) \in 1 .. Len(s)
  BY ConcatIs
<1> HIDE DEF ds
<1>2. SUFFICES ASSUME NEW i \in 1 .. Len(ds), InFile(ds[i])
               PROVE  /\ Placed(ds[i])
                      /\ Place(ds[i]) + (Len(ds) - i) >= sent
                      /\ \A j \in i .. Len(ds) :
                           /\ InFile(ds[j]) <=> Place(ds[i]) + (j - i) <= sent
                           /\ InFile(ds[j]) => Place(ds[j]) = Place(ds[i]) + (j - i)
  BY DEF Piece, ds
<1>3. i \in 1 .. Len(d) /\ ds[i] = d[i]
  <2>1. i \notin Len(d) + 1 .. Len(d) + Len(s)
    BY <1>1, <1>2
  <2> QED BY <1>1, <2>1
<1>4. PICK p \in Nat : p = Place(d[i])
  BY <1>3, PlaceIs
<1>5. /\ Placed(d[i]) /\ p + (Len(d) - i) >= sent
      /\ \A j \in i .. Len(d) :
           /\ InFile(d[j]) <=> p + (j - i) <= sent
           /\ InFile(d[j]) => Place(d[j]) = p + (j - i)
  BY <1>2, <1>3, <1>4 DEF Piece
<1>6. ASSUME NEW j \in i .. Len(ds)
      PROVE  /\ InFile(ds[j]) <=> p + (j - i) <= sent
             /\ InFile(ds[j]) => Place(ds[j]) = p + (j - i)
  <2>1. CASE j \in 1 .. Len(d)
    <3>1. j \in i .. Len(d) /\ ds[j] = d[j]
      BY <1>1, <1>3, <1>6, <2>1
    <3> QED BY <1>5, <3>1
  <2>2. CASE j \notin 1 .. Len(d)
    <3>1. j \in Len(d) + 1 .. Len(d) + Len(s)
      BY <1>1, <1>3, <1>6, <2>2
    <3>2. ~InFile(ds[j])
      BY <1>1, <3>1
    <3>3. ~(p + (j - i) <= sent)
      BY <1>1, <1>3, <1>5, <3>1
    <3> QED BY <3>2, <3>3
  <2> QED BY <2>1, <2>2
<1>7. p + (Len(ds) - i) >= sent
  BY <1>1, <1>3, <1>5
<1> QED BY <1>3, <1>4, <1>5, <1>6, <1>7

\* The next piece behind it.
LEMMA PieceMore ==
  ASSUME NEW d \in Seq(Symbol), NEW s \in Seq(Symbol), NEW sent \in Nat, NEW more \in BOOLEAN,
         Piece(d, sent, TRUE),
         \A i \in 1 .. Len(s) : InFile(s[i]) /\ Placed(s[i]) /\ Place(s[i]) = sent + i
  PROVE  Piece(d \o s, sent + Len(s), more)
<1> DEFINE ds == d \o s
<1>1. /\ Len(ds) = Len(d) + Len(s) /\ Len(d) \in Nat /\ Len(s) \in Nat
      /\ \A i \in 1 .. Len(d) : ds[i] = d[i]
      /\ \A i \in Len(d) + 1 .. Len(d) + Len(s) : ds[i] = s[i - Len(d)] /\ i - Len(d) \in 1 .. Len(s)
  BY ConcatIs
<1> HIDE DEF ds
<1>2. SUFFICES ASSUME NEW i \in 1 .. Len(ds), InFile(ds[i])
               PROVE  /\ Placed(ds[i])
                      /\ Place(ds[i]) + (Len(ds) - i) = sent + Len(s)
                      /\ \A j \in i .. Len(ds) :
                           /\ InFile(ds[j]) /\ Place(ds[i]) + (j - i) <= sent + Len(s)
                           /\ Place(ds[j]) = Place(ds[i]) + (j - i)
  <2>1. ds \in Seq(Symbol)
    BY ConcatIs DEF ds
  <2>2. \A k \in 1 .. Len(ds) : Place(ds[k]) \in Nat
    BY <2>1, PlaceIs
  <2>3. PICK e \in Nat : e = sent + Len(s)
    BY <1>1
  <2>4. ASSUME NEW i \in 1 .. Len(ds), InFile(ds[i])
        PROVE  /\ Placed(ds[i])
               /\ Place(ds[i]) + (Len(ds) - i) >= e
               /\ more => Place(ds[i]) + (Len(ds) - i) = e
               /\ \A j \in i .. Len(ds) :
                    /\ InFile(ds[j]) <=> Place(ds[i]) + (j - i) <= e
                    /\ InFile(ds[j]) => Place(ds[j]) = Place(ds[i]) + (j - i)
    <3>1. /\ Placed(ds[i]) /\ Place(ds[i]) + (Len(ds) - i) = e
          /\ \A j \in i .. Len(ds) :
               /\ InFile(ds[j]) /\ Place(ds[i]) + (j - i) <= e
               /\ Place(ds[j]) = Place(ds[i]) + (j - i)
      BY <1>2, <2>3, <2>4
    <3> QED BY <2>3, <3>1
  <2>5. Piece(ds, e, more)
    BY <2>4 DEF Piece
  <2> QED BY <2>3, <2>5 DEF ds
<1>3. ASSUME NEW k \in 1 .. Len(ds), k > Len(d)
      PROVE  InFile(ds[k]) /\ Placed(ds[k]) /\ Place(ds[k]) = sent + (k - Len(d))
  <2>1. k \in Len(d) + 1 .. Len(d) + Len(s)
    BY <1>1, <1>3
  <2> QED BY <1>1, <2>1
<1>4. CASE i \in 1 .. Len(d)
  <2>1. ds[i] = d[i] /\ InFile(d[i])
    BY <1>1, <1>2, <1>4
  <2>2. PICK p \in Nat : p = Place(d[i])
    BY <1>4, PlaceIs
  <2>3. /\ Placed(d[i]) /\ p + (Len(d) - i) = sent
        /\ \A j \in i .. Len(d) :
             /\ InFile(d[j]) <=> p + (j - i) <= sent
             /\ InFile(d[j]) => Place(d[j]) = p + (j - i)
    BY <1>4, <2>1, <2>2 DEF Piece
  <2>4. ASSUME NEW j \in i .. Len(ds)
        PROVE  InFile(ds[j]) /\ p + (j - i) <= sent + Len(s) /\ Place(ds[j]) = p + (j - i)
    <3>1. CASE j \in 1 .. Len(d)
      <4>1. j \in i .. Len(d) /\ ds[j] = d[j] /\ p + (j - i) <= sent
        BY <1>1, <1>4, <2>3, <2>4, <3>1
      <4> QED BY <1>1, <2>3, <4>1
    <3>2. CASE j \notin 1 .. Len(d)
      <4>1. j \in 1 .. Len(ds) /\ j > Len(d)
        BY <1>1, <1>4, <2>4, <3>2
      <4>2. InFile(ds[j]) /\ Place(ds[j]) = sent + (j - Len(d))
        BY <1>3, <4>1
      <4>3. PICK k \in Nat, l \in Nat, a \in Nat, b \in Nat : k = Len(d) /\ l = Len(s) /\ a = i /\ b = j
        BY <1>1, <1>4, <4>1
      <4>4. b <= k + l /\ p + (k - a) = sent
        BY <1>1, <1>4, <2>3, <4>1, <4>3
      <4>5. p + (b - a) <= sent + l /\ sent + (b - k) = p + (b - a)
        BY <4>4
      <4> QED BY <4>2, <4>3, <4>5
    <3> QED BY <3>1, <3>2
  <2>5. p + (Len(ds) - i) = sent + Len(s)
    BY <1>1, <1>4, <2>3
  <2> QED BY <2>1, <2>2, <2>3, <2>4, <2>5
<1>5. CASE i \notin 1 .. Len(d)
  <2>1. i > Len(d)
    BY <1>1, <1>5
  <2>2. Placed(ds[i]) /\ Place(ds[i]) = sent + (i - Len(d))
    BY <1>3, <2>1
  <2>3. ASSUME NEW j \in i .. Len(ds)
        PROVE  InFile(ds[j]) /\ Place(ds[j]) = sent + (j - Len(d))
    BY <1>1, <1>3, <2>1
  <2> QED BY <1>1, <2>1, <2>2, <2>3
<1> QED BY <1>4, <1>5

\* What a read leaves of it.
LEMMA PieceRest ==
  ASSUME NEW d \in Seq(Symbol), NEW n \in 0 .. Len(d), NEW r \in Seq(Symbol), NEW sent \in Nat,
         NEW more \in BOOLEAN, Piece(d, sent, more),
         Len(r) = Len(d) - n, \A i \in 1 .. Len(d) - n : r[i] = d[n + i]
  PROVE  Piece(r, sent, more)
<1>1. Len(d) \in Nat /\ n \in Nat
  OBVIOUS
<1>2. SUFFICES ASSUME NEW i \in 1 .. Len(r), InFile(r[i])
               PROVE  /\ Placed(r[i])
                      /\ Place(r[i]) + (Len(r) - i) >= sent
                      /\ more => Place(r[i]) + (Len(r) - i) = sent
                      /\ \A j \in i .. Len(r) :
                           /\ InFile(r[j]) <=> Place(r[i]) + (j - i) <= sent
                           /\ InFile(r[j]) => Place(r[j]) = Place(r[i]) + (j - i)
  BY DEF Piece
<1>3. n + i \in 1 .. Len(d) /\ r[i] = d[n + i]
  BY <1>1, <1>2
<1>4. PICK p \in Nat : p = Place(d[n + i])
  BY <1>3, PlaceIs
<1>5. /\ Placed(d[n + i]) /\ p + (Len(d) - (n + i)) >= sent
      /\ more => p + (Len(d) - (n + i)) = sent
      /\ \A j \in n + i .. Len(d) :
           /\ InFile(d[j]) <=> p + (j - (n + i)) <= sent
           /\ InFile(d[j]) => Place(d[j]) = p + (j - (n + i))
  BY <1>2, <1>3, <1>4 DEF Piece
<1>6. ASSUME NEW j \in i .. Len(r)
      PROVE  /\ InFile(r[j]) <=> p + (j - i) <= sent
             /\ InFile(r[j]) => Place(r[j]) = p + (j - i)
  <2>1. n + j \in n + i .. Len(d) /\ r[j] = d[n + j] /\ (n + j) - (n + i) = j - i
    BY <1>1, <1>2, <1>6
  <2> QED BY <1>5, <2>1
<1>7. Len(d) - (n + i) = Len(r) - i
  BY <1>1, <1>2
<1> QED BY <1>3, <1>4, <1>5, <1>6, <1>7

\* A buffer that begins with the marker is the last one with part of the file.
LEMMA PieceEnds ==
  ASSUME NEW d \in Seq(Symbol), NEW sent \in Nat, NEW more \in BOOLEAN, Piece(d, sent, more),
         more => sent <= FileLen, sent <= FileLen + EofLen,
         Len(d) > 0, d[1].kind = "eof"
  PROVE  ~more /\ \A j \in 1 .. Len(d) : InFile(d[j]) => j <= EofLen
<1>1. Len(d) \in Nat /\ 1 \in 1 .. Len(d) /\ d[1] \in Symbol
  OBVIOUS
<1>2. InFile(d[1])
  BY DEF InFile
<1>3. d[1].n \in 1 .. EofLen /\ Place(d[1]) = FileLen + d[1].n
  BY <1>1, <1>2 DEF Piece, Placed, Place
<1>4. PICK p \in Nat : p = Place(d[1])
  BY <1>1, PlaceIs
<1>5. p > FileLen
  BY <1>3, <1>4, Lengths
<1>6. /\ more => p + (Len(d) - 1) = sent
      /\ \A j \in 1 .. Len(d) : InFile(d[j]) => p + (j - 1) <= sent
  BY <1>1, <1>2, <1>4 DEF Piece
<1> QED BY <1>1, <1>5, <1>6, Lengths

\* A character of the file or the marker is the one at its place.
LEMMA CharIs ==
  ASSUME NEW symbol \in Symbol, InFile(symbol), Placed(symbol)
  PROVE  Char(symbol) = (FILE \o MARKER)[Place(symbol)]
<1>1. FILE \in Seq(Chars) /\ MARKER \in Seq(Chars)
  BY TransferAssumption
<1>2. /\ \A i \in 1 .. FileLen : (FILE \o MARKER)[i] = FILE[i]
      /\ \A i \in FileLen + 1 .. FileLen + EofLen : (FILE \o MARKER)[i] = MARKER[i - FileLen]
  BY <1>1, ConcatIs DEF FileLen, EofLen
<1>3. CASE symbol.kind = "eof"
  <2>1. symbol.n \in 1 .. EofLen /\ Place(symbol) = FileLen + symbol.n
    BY <1>3 DEF Placed, Place
  <2>2. Place(symbol) \in FileLen + 1 .. FileLen + EofLen /\ Place(symbol) - FileLen = symbol.n
    BY <2>1, Lengths
  <2>3. Char(symbol) = MARKER[symbol.n]
    BY <1>3 DEF Char
  <2> QED BY <1>2, <2>2, <2>3
<1>4. CASE symbol.kind # "eof"
  <2>1. symbol.kind = "data" /\ symbol.n \in 1 .. FileLen /\ Place(symbol) = symbol.n
    BY <1>4 DEF InFile, Placed, Place
  <2>2. Char(symbol) = FILE[symbol.n]
    BY <2>1 DEF Char
  <2> QED BY <1>2, <2>1, <2>2
<1> QED BY <1>3, <1>4

\* Only the marker looks like the marker.
LEMMA OnlyTheMarker ==
  ASSUME MarkerFree,
         NEW d \in Seq(Symbol), NEW sent \in Nat, NEW more \in BOOLEAN, Piece(d, sent, more),
         ~more => sent = FileLen + EofLen,
         NEW n \in 1 .. Len(d), n = Least(MAX, Len(d)), NEW b \in Seq(Symbol),
         Len(b) = n, \A i \in 1 .. n : b[i] = d[i],
         NEW cleared \in BOOLEAN, NEW junk \in BOOLEAN, HoldsMarker(b, cleared, junk),
         ~cleared /\ d[1].kind = "data" => d[1].n = 1 /\ Len(d) >= Least(MAX, FileLen)
  PROVE  d[1].kind = "eof"
<1>1. /\ Len(d) \in Nat /\ 1 \in 1 .. Len(d) /\ d[1] \in Symbol /\ 1 \in 1 .. n /\ n \in Nat
      /\ n <= Len(d)
  OBVIOUS
<1>2. \A j \in 1 .. EofLen : MARKER[j] # Letter /\ (MARKER[j] = NUL <=> j = EofLen)
  BY TransferAssumption DEF EofLen
<1>3. \A j \in 1 .. EofLen : j <= n => Char(d[j]) = MARKER[j]
  <2>1. ASSUME NEW j \in 1 .. EofLen, j <= n PROVE Char(d[j]) = MARKER[j]
    <3>1. j \in 1 .. n
      BY <1>1, <2>1, Lengths
    <3> QED BY <2>1, <3>1 DEF HoldsMarker
  <2> QED BY <2>1
<1>4. SUFFICES ASSUME d[1].kind # "eof" PROVE FALSE
  OBVIOUS
<1>5. d[1].kind = "data"
  <2>1. Char(d[1]) # Letter
    BY <1>1, <1>2, <1>3, Lengths
  <2> QED BY <1>4, <2>1 DEF Char
<1>6. InFile(d[1])
  BY <1>5 DEF InFile
<1>7. PICK p \in 1 .. FileLen : p = d[1].n /\ p = Place(d[1])
  BY <1>1, <1>5, <1>6 DEF Piece, Placed, Place
<1>8. ASSUME NEW j \in 1 .. n, j < EofLen PROVE (FILE \o MARKER)[p + j - 1] = MARKER[j]
  <2>1. j \in 1 .. Len(d) /\ j \in 1 .. EofLen /\ d[j] \in Symbol
    BY <1>1, <1>8, Lengths
  <2>2. p + (j - 1) <= sent
    <3>1. more => p + (Len(d) - 1) = sent
      BY <1>1, <1>6, <1>7 DEF Piece
    <3>2. j \in Nat /\ j <= n /\ n \in Nat /\ n <= Len(d) /\ p \in Nat /\ p <= FileLen
      BY <1>1, <1>7, <1>8, Lengths
    <3> QED BY <1>1, <1>8, <3>1, <3>2, Lengths
  <2>3. InFile(d[j]) /\ Place(d[j]) = p + (j - 1)
    BY <1>1, <1>6, <1>7, <2>1, <2>2 DEF Piece
  <2>4. Placed(d[j])
    BY <2>1, <2>3 DEF Piece
  <2>5. Char(d[j]) = (FILE \o MARKER)[p + (j - 1)]
    BY <2>1, <2>3, <2>4, CharIs
  <2>6. p + (j - 1) = p + j - 1
    BY <1>7, <2>1, Lengths
  <2>7. Char(d[j]) = MARKER[j]
    <3>1. j <= n
      BY <1>1, <1>8
    <3> QED BY <1>3, <2>1, <3>1
  <2> QED BY <2>5, <2>6, <2>7, Zenon
<1>9. CASE cleared
  <2>1. PICK j \in 1 .. EofLen - 1 : (FILE \o MARKER)[p + j - 1] # MARKER[j]
    BY <1>7 DEF MarkerFree
  <2>2. j \in 1 .. EofLen /\ j < EofLen
    BY <2>1, Lengths
  <2>3. ~(j <= n)
    <3>1. j <= n => j \in 1 .. n
      BY <1>1, <2>2
    <3> QED BY <1>8, <2>1, <2>2, <3>1
  <2>4. MARKER[j] = NUL
    BY <1>9, <2>2, <2>3 DEF HoldsMarker
  <2> QED BY <1>2, <2>2, <2>4
<1>10. CASE ~cleared
  <2>1. p = 1 /\ Len(d) >= Least(MAX, FileLen)
    BY <1>5, <1>7, <1>10
  <2>2. FileLen # 0
    BY <1>7, Lengths
  <2>3. PICK j \in 1 .. Least(FileLen, EofLen - 1) : FILE[j] # MARKER[j]
    BY <2>2 DEF MarkerFree
  <2>4. j \in 1 .. FileLen /\ j < EofLen
    BY <2>3, Lengths DEF Least
  <2>5. j \in 1 .. n
    BY <1>1, <2>1, <2>4, Lengths DEF Least
  <2>6. (FILE \o MARKER)[p + j - 1] = MARKER[j]
    BY <1>8, <2>4, <2>5
  <2>7. p + j - 1 = j
    BY <2>1, <2>4, Lengths
  <2>8. (FILE \o MARKER)[j] = FILE[j]
    BY <2>4, ConcatIs, TransferAssumption DEF FileLen
  <2> QED BY <2>3, <2>6, <2>7, <2>8
<1> QED BY <1>9, <1>10

-----------------------------------------------------------------------------
Transfers(c) == {i \in 1 .. Len(up[c]) : IsTransfer(up[c][i].cmd)}
Stream(c) == {i \in 1 .. Len(down[c]) : InFile(down[c][i])}
Sending(c) == server.pc = "file" /\ server.peer = c
Sent(c) == IF Sending(c) THEN FileLen - server.left ELSE FileLen + EofLen

RequestOK(c) ==
  \A i \in Transfers(c) : i = Len(up[c]) /\ client[c].pc = "file" /\ Stream(c) = {} /\ ~Sending(c)
SendingOK(c) ==
  Sending(c) => /\ client[c].pc = "file" /\ Transfers(c) = {}
                /\ ~client[c].cleared /\ Len(down[c]) = 0 => server.left = FileLen
StreamOK(c) ==
  /\ Piece(down[c], Sent(c), Sending(c))
  /\ Stream(c) # {} => client[c].pc = "file" /\ Transfers(c) = {}
FirstOK(c) ==
  ~client[c].cleared /\ Len(down[c]) > 0 /\ down[c][1].kind = "data" =>
    down[c][1].n = 1 /\ Len(down[c]) >= Least(MAX, FileLen)
ClientOK(c) ==
  /\ client[c].pc # "start" => sock[c] = "up"
  /\ client[c].pc \in {"start", "size", "line"} => ~IsTransfer(client[c].cmd)
  /\ IsTransfer(client[c].cmd) /\ Len(up[c]) # 0 => Len(up[c]) \in Transfers(c)

Gone(c) == client[c].pc \in {"out", "lost"}

EngagedInv(c) ==
  ~Gone(c) => RequestOK(c) /\ SendingOK(c) /\ StreamOK(c) /\ FirstOK(c) /\ ClientOK(c)

TransferInv == ServerGone \/ \A c \in Clients : EngagedInv(c)

\* The inductive invariant as a whole.
Inv == ShapeInv /\ TransferInv

\* Sent(c) is a place in the file or the marker.
LEMMA SentIs ==
  ASSUME ShapeInv, NEW c
  PROVE  /\ Sent(c) \in Nat /\ Sending(c) \in BOOLEAN /\ Sent(c) <= FileLen + EofLen
         /\ Sending(c) => Sent(c) <= FileLen
         /\ ~Sending(c) => Sent(c) = FileLen + EofLen
<1>1. server.left \in 0 .. FileLen
  BY DEF ShapeInv, ServerType
<1> QED BY <1>1, Lengths DEF Sent, Sending

\* Without a character of the file there is nothing to say of the piece.
LEMMA NoPiece ==
  ASSUME NEW c, NEW sent, NEW more, Stream(c) = {}
  PROVE  Piece(down[c], sent, more)
  BY DEF Stream, Piece

\* A step that leaves a client's streams alone, and does not take up a transfer
\* with it, keeps what is said of it.
LEMMA Untouched ==
  ASSUME NEW c \in Clients, EngagedInv(c),
         client'[c] = client[c], up'[c] = up[c], down'[c] = down[c],
         sock[c] = "up" => sock'[c] = "up",
         Sending(c)' <=> Sending(c), Sending(c) => server'.left = server.left
  PROVE  EngagedInv(c)'
<1>1. Transfers(c)' = Transfers(c) /\ Stream(c)' = Stream(c) /\ Sent(c)' = Sent(c)
  BY DEF Transfers, Stream, Sent
<1>2. SUFFICES ASSUME ~Gone(c) PROVE EngagedInv(c)'
  BY DEF EngagedInv, Gone
<1>3. RequestOK(c)' /\ SendingOK(c)' /\ FirstOK(c)'
  BY <1>1, <1>2 DEF EngagedInv, RequestOK, SendingOK, FirstOK
<1>4. Piece(down[c], Sent(c), Sending(c)) => Piece(down[c], Sent(c), Sending(c)')
  BY DEF Piece
<1>5. StreamOK(c)'
  BY <1>1, <1>2, <1>4 DEF EngagedInv, StreamOK
<1>6. ClientOK(c)'
  BY <1>1, <1>2 DEF EngagedInv, ClientOK
<1> QED BY <1>3, <1>5, <1>6 DEF EngagedInv

\* A write of symbols of a reply.
LEMMA Written ==
  ASSUME ShapeInv, NEW c \in Clients, EngagedInv(c), ~Sending(c), ~Sending(c)',
         client'[c] = client[c], up'[c] = up[c], sock'[c] = sock[c],
         NEW s \in Seq(Symbol), \A i \in 1 .. Len(s) : ~InFile(s[i]),
         down'[c] = down[c] \o s
  PROVE  EngagedInv(c)'
<1>1. PICK d \in Seq(Symbol) : d = down[c]
  BY DEF ShapeInv
<1>2. /\ Len(d \o s) = Len(d) + Len(s) /\ Len(d) \in Nat /\ Len(s) \in Nat
      /\ \A i \in 1 .. Len(d) : (d \o s)[i] = d[i]
      /\ \A i \in Len(d) + 1 .. Len(d) + Len(s) :
           (d \o s)[i] = s[i - Len(d)] /\ i - Len(d) \in 1 .. Len(s)
  BY ConcatIs
<1>3. PICK ds : ds = d \o s /\ ds = down'[c]
  BY <1>1
<1>4. ASSUME NEW i \in 1 .. Len(ds), InFile(ds[i]) PROVE i \in 1 .. Len(d) /\ ds[i] = d[i]
  <2>1. i \notin Len(d) + 1 .. Len(d) + Len(s)
    BY <1>2, <1>3, <1>4
  <2> QED BY <1>2, <1>3, <2>1
<1>5. Stream(c)' = Stream(c)
  <2>1. ASSUME NEW i \in 1 .. Len(d) PROVE i \in 1 .. Len(ds) /\ ds[i] = d[i]
    BY <1>2, <1>3
  <2>2. Stream(c)' = {i \in 1 .. Len(ds) : InFile(ds[i])} /\ Stream(c) = {i \in 1 .. Len(d) : InFile(d[i])}
    BY <1>1, <1>3 DEF Stream
  <2> QED BY <1>4, <2>1, <2>2
<1>6. Transfers(c)' = Transfers(c) /\ Sent(c)' = Sent(c) /\ Sent(c) \in Nat
  BY SentIs DEF Transfers, Sent
<1>7. SUFFICES ASSUME ~Gone(c) PROVE EngagedInv(c)'
  BY DEF EngagedInv, Gone
<1>8. RequestOK(c)' /\ SendingOK(c)'
  BY <1>5, <1>6, <1>7 DEF EngagedInv, RequestOK, SendingOK
<1>9. StreamOK(c)'
  <2>1. Piece(d, Sent(c), FALSE)
    BY <1>1, <1>7 DEF EngagedInv, StreamOK, Piece
  <2>2. Piece(d \o s, Sent(c), FALSE)
    BY <1>6, <2>1, PieceReply
  <2>3. Piece(ds, Sent(c), Sending(c)')
    BY <1>3, <2>2 DEF Piece
  <2> QED BY <1>3, <1>5, <1>6, <1>7, <2>3 DEF EngagedInv, StreamOK
<1>10. FirstOK(c)'
  <2>1. SUFFICES ASSUME ~client[c].cleared, Len(ds) > 0, ds[1].kind = "data"
                 PROVE  ds[1].n = 1 /\ Len(ds) >= Least(MAX, FileLen)
    BY <1>3 DEF FirstOK
  <2>2. 1 \in 1 .. Len(d) /\ ds[1] = d[1]
    BY <1>2, <1>3, <1>4, <2>1 DEF InFile
  <2>3. d[1].n = 1 /\ Len(d) >= Least(MAX, FileLen)
    BY <1>1, <1>7, <2>1, <2>2 DEF EngagedInv, FirstOK
  <2> QED BY <1>2, <1>3, <2>2, <2>3, Lengths DEF Least
<1>11. ClientOK(c)'
  BY <1>6, <1>7 DEF EngagedInv, ClientOK
<1> QED BY <1>8, <1>9, <1>10, <1>11 DEF EngagedInv

\* A write of the next characters of the file or the marker.
LEMMA Streamed ==
  ASSUME ShapeInv, ShapeInv', NEW c \in Clients, EngagedInv(c), Sending(c),
         client'[c] = client[c], up'[c] = up[c], sock'[c] = sock[c],
         NEW s \in Seq(Symbol), Len(s) > 0, Sent(c)' = Sent(c) + Len(s),
         \A i \in 1 .. Len(s) : InFile(s[i]) /\ Placed(s[i]) /\ Place(s[i]) = Sent(c) + i,
         s[1].kind = "data" => Len(s) = Least(MAX, server.left),
         down'[c] = down[c] \o s
  PROVE  EngagedInv(c)'
<1>1. PICK d \in Seq(Symbol) : d = down[c]
  BY DEF ShapeInv
<1>2. /\ Len(d \o s) = Len(d) + Len(s) /\ Len(d) \in Nat /\ Len(s) \in Nat
      /\ \A i \in 1 .. Len(d) : (d \o s)[i] = d[i]
      /\ \A i \in Len(d) + 1 .. Len(d) + Len(s) :
           (d \o s)[i] = s[i - Len(d)] /\ i - Len(d) \in 1 .. Len(s)
  BY ConcatIs
<1>3. PICK ds : ds = d \o s /\ ds = down'[c]
  BY <1>1
<1>4. SUFFICES ASSUME ~Gone(c) PROVE EngagedInv(c)'
  BY DEF EngagedInv, Gone
<1>5. client[c].pc = "file" /\ Transfers(c) = {} /\ Transfers(c)' = {}
  BY <1>4 DEF EngagedInv, SendingOK, Transfers
<1>6. Sent(c) \in Nat /\ Sending(c)' \in BOOLEAN
  BY SentIs DEF Sending
<1>7. StreamOK(c)'
  <2>1. Piece(d, Sent(c), TRUE)
    BY <1>1, <1>4 DEF EngagedInv, StreamOK, Piece
  <2>2. PICK more \in BOOLEAN : more = Sending(c)'
    BY <1>6
  <2>3. Piece(d \o s, Sent(c) + Len(s), more)
    BY <1>6, <2>1, PieceMore
  <2> QED BY <1>3, <1>5, <2>2, <2>3 DEF StreamOK
<1>8. FirstOK(c)'
  <2>1. SUFFICES ASSUME ~client[c].cleared, Len(ds) > 0, ds[1].kind = "data"
                 PROVE  ds[1].n = 1 /\ Len(ds) >= Least(MAX, FileLen)
    BY <1>3 DEF FirstOK
  <2>2. CASE Len(d) = 0
    <3>1. server.left = FileLen
      BY <1>1, <1>4, <2>1, <2>2 DEF EngagedInv, SendingOK
    <3>2. ds[1] = s[1] /\ Len(ds) = Len(s) /\ 1 \in 1 .. Len(s)
      BY <1>2, <1>3, <2>2
    <3>3. Sent(c) = 0
      BY <3>1, Lengths DEF Sent
    <3>4. Place(s[1]) = 1
      <4>1. Place(s[1]) = Sent(c) + 1
        BY <3>2
      <4> QED BY <3>3, <4>1
    <3> QED BY <2>1, <3>1, <3>2, <3>4, Lengths DEF Place, Least
  <2>3. CASE Len(d) # 0
    <3>1. ds[1] = d[1] /\ Len(d) > 0
      BY <1>2, <1>3, <2>3
    <3>2. d[1].n = 1 /\ Len(d) >= Least(MAX, FileLen)
      BY <1>1, <1>4, <2>1, <3>1 DEF EngagedInv, FirstOK
    <3> QED BY <1>2, <1>3, <3>1, <3>2, Lengths DEF Least
  <2> QED BY <2>2, <2>3
<1>9. ClientOK(c)'
  BY <1>4, <1>5 DEF EngagedInv, ClientOK, Transfers
<1>10. SendingOK(c)' /\ RequestOK(c)'
  <2>1. Len(down'[c]) # 0
    BY <1>2, <1>3
  <2> QED BY <1>5, <2>1 DEF SendingOK, RequestOK
<1> QED BY <1>7, <1>8, <1>9, <1>10 DEF EngagedInv

\* What one write does to the streams.
LEMMA WriteDoes ==
  ASSUME ShapeInv, server.pc # "accept", NEW s, Write(s), NEW x \in Clients
  PROVE  /\ x # server.peer => down'[x] = down[x] /\ sock'[x] = sock[x]
         /\ sock[x] # "up" => down'[x] = down[x]
         /\ x = server.peer /\ sock[x] = "up" => down'[x] = down[x] \o s /\ sock'[x] = sock[x]
         /\ sock[x] = "up" => sock'[x] = "up"
         /\ x = server.peer /\ sock[x] # "up" => sock[x] # "broken" /\ sock'[x] = "broken"
<1> USE DEF ShapeInv
<1>1. CASE sock[server.peer] = "up"
  BY <1>1 DEF Write
<1>2. CASE sock[server.peer] # "up"
  BY <1>2 DEF Write
<1> QED BY <1>1, <1>2

\* No symbol of a reply belongs to a file.
LEMMA ReplySymbols ==
  ASSUME ShapeInv
  PROVE  /\ Symbols("size", server.id, "none", 0, 1) \in Seq(Symbol)
         /\ \A i \in 1 .. Len(Symbols("size", server.id, "none", 0, 1)) :
              ~InFile(Symbols("size", server.id, "none", 0, 1)[i])
         /\ Line(server.id, server.verdict) \in Seq(Symbol)
         /\ \A i \in 1 .. Len(Line(server.id, server.verdict)) :
              ~InFile(Line(server.id, server.verdict)[i])
<1>1. PICK id \in Nat, verdict \in Verdicts \cup {"none"} : id = server.id /\ verdict = server.verdict
  BY DEF ShapeInv, ServerType
<1>2. PICK size \in Seq(Symbol) : size = Symbols("size", id, "none", 0, 1)
                                  /\ Len(size) = 1 /\ size[1].kind = "size"
  BY SizeIs
<1>3. PICK line \in Seq(Symbol) : line = Line(id, verdict) /\ Len(line) = LineLen
                                  /\ \A i \in 1 .. LineLen : line[i].kind = "text"
  BY LineIs
<1>4. (\A i \in 1 .. Len(size) : ~InFile(size[i])) /\ \A i \in 1 .. Len(line) : ~InFile(line[i])
  BY <1>2, <1>3 DEF InFile
<1> QED BY <1>1, <1>2, <1>3, <1>4, Zenon

\* The server takes a command from a client's stream.
LEMMA ReadCommandKeeps ==
  ASSUME ShapeInv, ReadCommand, NEW x \in Clients, EngagedInv(x)
  PROVE  EngagedInv(x)'
<1> DEFINE c == server.peer
<1>1. c \in Clients /\ server.pc = "read" /\ up[c] # <<>> /\ up[c] \in Seq(Message)
      /\ server'.peer = c
  BY DEF ReadCommand, ShapeInv, ServerType
<1>2. CASE x # c
  <2>1. ~Sending(x)' /\ ~Sending(x) /\ up'[x] = up[x]
    BY <1>1, <1>2 DEF ReadCommand, ShapeInv, Sending
  <2> QED BY <2>1, Untouched DEF ReadCommand
<1>3. CASE x = c
  <2> DEFINE cmd == Head(up[x]).cmd
  <2>1. /\ Len(up[x]) \in Nat \ {0} /\ cmd = up[x][1].cmd
        /\ Len(up'[x]) = Len(up[x]) - 1
        /\ \A i \in 1 .. Len(up[x]) - 1 : up'[x][i] = up[x][i + 1]
    BY <1>1, <1>3, TailOf DEF ReadCommand, ShapeInv
  <2>2. Sending(x)' => IsTransfer(cmd) /\ server'.left = FileLen
    BY <1>1, <1>3 DEF ReadCommand, ShapeInv, Sending, ServerType
  <2>3. client' = client /\ down' = down /\ sock' = sock
    BY DEF ReadCommand
  <2>4. SUFFICES ASSUME ~Gone(x) PROVE EngagedInv(x)'
    BY <2>3 DEF EngagedInv, Gone
  <2>5. ~Sending(x) /\ Stream(x)' = Stream(x)
    BY <1>1, <2>3 DEF Sending, Stream
  <2>6. ASSUME NEW i \in Transfers(x)' PROVE i + 1 \in Transfers(x)
    BY <2>1, <2>6 DEF Transfers
  <2>7. ClientOK(x)'
    <3>1. ASSUME IsTransfer(client[x].cmd), Len(up'[x]) # 0 PROVE Len(up'[x]) \in Transfers(x)'
      <4>1. Len(up[x]) \in Transfers(x)
        BY <2>1, <2>4, <3>1 DEF EngagedInv, ClientOK
      <4>2. Len(up'[x]) \in 1 .. Len(up[x]) - 1 /\ Len(up'[x]) + 1 = Len(up[x])
        <5>1. PICK m \in Nat \ {0} : m = Len(up[x])
          BY <2>1
        <5>2. PICK k \in Int : k = Len(up'[x]) /\ k = m - 1
          BY <2>1, <5>1
        <5>3. k # 0 /\ k = m - 1
          BY <3>1, <5>2
        <5>4. k \in 1 .. m - 1 /\ k + 1 = m
          BY ONLY m \in Nat \ {0}, k \in Int, <5>3
        <5> QED BY <5>1, <5>2, <5>4, Zenon
      <4>3. up'[x][Len(up'[x])] = up[x][Len(up[x])]
        BY <2>1, <4>2
      <4> QED BY <2>1, <4>1, <4>2, <4>3 DEF Transfers
    <3> QED BY <2>3, <2>4, <3>1 DEF EngagedInv, ClientOK
  <2>8. FirstOK(x)'
    BY <2>3, <2>4 DEF EngagedInv, FirstOK
  <2>9. CASE IsTransfer(cmd)
    <3>1. 1 \in Transfers(x)
      BY <2>1, <2>9 DEF Transfers
    <3>2. Len(up[x]) = 1 /\ client[x].pc = "file" /\ Stream(x) = {}
      BY <2>4, <3>1 DEF EngagedInv, RequestOK
    <3>3. Transfers(x)' = {}
      BY <2>1, <3>2 DEF Transfers
    <3>4. StreamOK(x)'
      <4>1. Piece(down'[x], Sent(x)', Sending(x)')
        BY <2>5, <3>2, NoPiece, <2>3 DEF Stream, Piece
      <4> QED BY <2>5, <3>2, <4>1 DEF StreamOK
    <3> QED BY <2>2, <2>3, <2>7, <2>8, <3>2, <3>3, <3>4 DEF EngagedInv, RequestOK, SendingOK
  <2>10. CASE ~IsTransfer(cmd)
    <3>1. ~Sending(x)'
      BY <2>2, <2>10
    <3>2. RequestOK(x)'
      <4>1. ASSUME NEW i \in Transfers(x)'
            PROVE  i = Len(up'[x]) /\ client[x].pc = "file" /\ Stream(x) = {}
        <5>1. i + 1 = Len(up[x]) /\ client[x].pc = "file" /\ Stream(x) = {}
          BY <2>4, <2>6 DEF EngagedInv, RequestOK
        <5>2. i \in Int
          BY <2>1 DEF Transfers
        <5> QED BY <2>1, <5>1, <5>2
      <4> QED BY <2>3, <2>5, <3>1, <4>1 DEF RequestOK
    <3>3. StreamOK(x)'
      <4>1. Transfers(x) = {} => Transfers(x)' = {}
        BY <2>6
      <4>2. Sent(x)' = Sent(x)
        BY <2>5, <3>1 DEF Sent
      <4>3. Piece(down'[x], Sent(x)', Sending(x)')
        BY <2>3, <2>4, <2>5, <3>1, <4>2 DEF EngagedInv, StreamOK, Piece
      <4> QED BY <2>3, <2>4, <2>5, <4>1, <4>3 DEF EngagedInv, StreamOK
    <3> QED BY <2>7, <2>8, <3>1, <3>2, <3>3 DEF EngagedInv, SendingOK
  <2> QED BY <2>9, <2>10
<1> QED BY <1>2, <1>3

\* The server sends a chunk of the file.
LEMMA SendChunkKeeps ==
  ASSUME ShapeInv, ShapeInv', SendChunk, NEW x \in Clients, EngagedInv(x)
  PROVE  EngagedInv(x)'
<1> DEFINE n == Least(MAX, server.left)
           start == FileLen - server.left
           s == Symbols("data", server.id, "none", start, n)
<1>1. server.left \in 0 .. FileLen /\ server.id \in Nat
  BY DEF ShapeInv, ServerType
<1>2. n \in Nat \ {0} /\ n <= server.left /\ start \in Nat
  <2>1. n \in Nat /\ n <= server.left
    <3>1. server.left \in Nat /\ MAX \in Nat
      BY <1>1, Lengths
    <3> QED BY <3>1, LeastIs
  <2>2. n > 0
    BY DEF SendChunk
  <2> QED BY <1>1, <2>1, <2>2, Lengths
<1>3. Write(s) /\ UNCHANGED <<up, client>> /\ server.pc = "file" /\ server'.pc = "file"
      /\ server'.peer = server.peer /\ server'.left = server.left - n
  BY DEF SendChunk, ShapeInv, ServerType
<1>4. s \in Seq(Symbol) /\ Len(s) = n /\ \A i \in 1 .. n : s[i].kind = "data" /\ s[i].n = start + i
  <2> HIDE DEF n, start
  <2> QED BY <1>1, <1>2, ChunkIs
<1> HIDE DEF s
<1>5. CASE x # server.peer
  <2>1. ~Sending(x)' /\ ~Sending(x)
    BY <1>3, <1>5 DEF Sending
  <2> QED BY <1>3, <1>5, <2>1, WriteDoes, Untouched
<1>6. CASE x = server.peer
  <2>1. SUFFICES ASSUME ~Gone(x) PROVE EngagedInv(x)'
    BY <1>3 DEF EngagedInv, Gone
  <2>2. Sending(x) /\ Sending(x)'
    BY <1>3, <1>6 DEF Sending
  <2>3. sock[x] = "up"
    BY <2>1, <2>2 DEF EngagedInv, SendingOK, ClientOK
  <2>4. down'[x] = down[x] \o s /\ sock'[x] = sock[x]
    BY <1>3, <1>6, <2>3, WriteDoes
  <2>5. Sent(x) = start /\ Sent(x)' = start + n
    BY <1>1, <1>2, <1>3, <2>2, Lengths DEF Sent
  <2>6. ASSUME NEW i \in 1 .. n PROVE InFile(s[i]) /\ Placed(s[i]) /\ Place(s[i]) = start + i
    <3>1. start + i \in 1 .. FileLen
      BY <1>1, <1>2, Lengths
    <3> QED BY <1>4, <3>1 DEF InFile, Placed, Place
  <2> HIDE DEF start
  <2>7. Len(s) > 0 /\ Len(s) = Least(MAX, server.left)
    BY <1>2, <1>4
  <2> HIDE DEF n
  <2> QED BY <1>3, <1>4, <2>2, <2>4, <2>5, <2>6, <2>7, Streamed
<1> QED BY <1>5, <1>6

\* The server sends the marker.
LEMMA SendMarkerKeeps ==
  ASSUME ShapeInv, ShapeInv', SendMarker, NEW x \in Clients, EngagedInv(x)
  PROVE  EngagedInv(x)'
<1> DEFINE s == Marker(server.id)
<1>1. server.left = 0 /\ server.id \in Nat
  BY DEF SendMarker, ShapeInv, ServerType
<1>2. s \in Seq(Symbol) /\ Len(s) = EofLen /\ \A i \in 1 .. EofLen : s[i].kind = "eof" /\ s[i].n = i
  BY <1>1, MarkerIs
<1>3. Write(s) /\ UNCHANGED <<up, client>> /\ server.pc = "file" /\ server'.pc = "size"
  BY DEF SendMarker, ShapeInv, ServerType
<1> HIDE DEF s
<1>4. ~Sending(x)'
  BY <1>3 DEF Sending
<1>5. CASE x # server.peer
  <2>1. ~Sending(x)
    BY <1>5 DEF Sending
  <2> QED BY <1>3, <1>4, <1>5, <2>1, WriteDoes, Untouched
<1>6. CASE x = server.peer
  <2>1. SUFFICES ASSUME ~Gone(x) PROVE EngagedInv(x)'
    BY <1>3 DEF EngagedInv, Gone
  <2>2. Sending(x)
    BY <1>3, <1>6 DEF Sending
  <2>3. sock[x] = "up"
    BY <2>1, <2>2 DEF EngagedInv, SendingOK, ClientOK
  <2>4. down'[x] = down[x] \o s /\ sock'[x] = sock[x]
    BY <1>3, <1>6, <2>3, WriteDoes
  <2>5. Sent(x) = FileLen /\ Sent(x)' = FileLen + EofLen
    BY <1>1, <1>4, <2>2, Lengths DEF Sent
  <2>6. ASSUME NEW i \in 1 .. EofLen
        PROVE  InFile(s[i]) /\ Placed(s[i]) /\ Place(s[i]) = FileLen + i
    BY <1>2 DEF InFile, Placed, Place
  <2>7. Len(s) > 0 /\ s[1].kind # "data"
    BY <1>2, Lengths
  <2> QED BY <1>2, <1>3, <2>2, <2>4, <2>5, <2>6, <2>7, Streamed
<1> QED BY <1>5, <1>6

\* The steps of the server.
LEMMA ServerKeeps ==
  ASSUME ShapeInv, ShapeInv', \A c \in Clients : EngagedInv(c), ServerStep, ~ServerGone',
         NEW x \in Clients
  PROVE  EngagedInv(x)'
<1>0. EngagedInv(x)
  OBVIOUS
<1>1. CASE Accept
  <2>1. ~Sending(x)' /\ ~Sending(x)
    BY <1>1 DEF Accept, Sending, ShapeInv, ServerType
  <2> QED BY <1>0, <1>1, <2>1, Untouched DEF Accept
<1>2. CASE ReadCommand
  BY <1>0, <1>2, ReadCommandKeeps
<1>3. CASE ListMissing
  BY <1>3 DEF ListMissing, Dies, ServerGone, ShapeInv, ServerType
<1>4. CASE Disconnect
  <2>1. ~Sending(x)' /\ ~Sending(x)
    BY <1>4 DEF Disconnect, Sending, ShapeInv, ServerType
  <2> QED BY <1>0, <1>4, <2>1, Untouched DEF Disconnect
<1>5. CASE ReadFails
  <2>1. ~Sending(x)' /\ ~Sending(x) /\ (sock[x] = "up" => sock'[x] = "up")
    BY <1>5 DEF ReadFails, Sending, ShapeInv, ServerType
  <2> QED BY <1>0, <1>5, <2>1, Untouched DEF ReadFails
<1>6. CASE SendChunk \/ SendMarker
  BY <1>0, <1>6, SendChunkKeeps, SendMarkerKeeps
<1>8. CASE SendSize \/ SendLine
  <2>1. PICK s \in Seq(Symbol) : (\A i \in 1 .. Len(s) : ~InFile(s[i])) /\ Write(s)
    BY <1>8, ReplySymbols DEF SendSize, SendLine
  <2>2. UNCHANGED <<up, client>> /\ ~Sending(x)' /\ ~Sending(x) /\ server.pc # "accept"
    BY <1>8 DEF SendSize, SendLine, Sending, ShapeInv, ServerType
  <2>3. CASE x = server.peer /\ sock[x] = "up"
    <3>1. down'[x] = down[x] \o s /\ sock'[x] = sock[x]
      BY <2>1, <2>2, <2>3, WriteDoes
    <3> QED BY <1>0, <2>1, <2>2, <3>1, Written
  <2>4. CASE ~(x = server.peer /\ sock[x] = "up")
    <3>1. down'[x] = down[x] /\ (sock[x] = "up" => sock'[x] = "up")
      BY <2>1, <2>2, <2>4, WriteDoes
    <3> QED BY <1>0, <2>2, <3>1, Untouched
  <2> QED BY <2>3, <2>4
<1>9. CASE Sigpipe
  BY <1>9 DEF Sigpipe, Dies, ServerGone, ShapeInv, ServerType
<1> QED BY <1>1, <1>2, <1>3, <1>4, <1>5, <1>6, <1>8, <1>9 DEF ServerStep

\* A client's read takes a number of symbols off its stream.
LEMMA ReadTakes ==
  ASSUME ShapeInv, NEW c \in Clients, ReadFile(c) \/ ReadSize(c) \/ ReadLine(c)
  PROVE  \E n \in 0 .. Len(down[c]) :
           /\ Len(down'[c]) = Len(down[c]) - n
           /\ \A i \in 1 .. Len(down[c]) - n : down'[c][i] = down[c][n + i]
           /\ ReadFile(c) => n = Least(MAX, Len(down[c]))
<1>1. down[c] \in Seq(Symbol) /\ Len(down[c]) \in Nat /\ LineLen + 1 \in Nat /\ MAX \in Nat
  BY Lengths DEF ShapeInv
<1>2. ASSUME NEW m \in Nat, down'[c] = SubSeq(down[c], Least(m, Len(down[c])) + 1, Len(down[c]))
      PROVE  \E n \in 0 .. Len(down[c]) :
               /\ Len(down'[c]) = Len(down[c]) - n
               /\ \A i \in 1 .. Len(down[c]) - n : down'[c][i] = down[c][n + i]
               /\ n = Least(m, Len(down[c]))
  <2>1. PICK d \in Seq(Symbol), l \in Nat : d = down[c] /\ l = Len(d)
    BY <1>1
  <2>2. PICK n \in Nat : n = Least(m, l) /\ n <= l
    BY LeastIs
  <2>3. n \in 0 .. Len(d)
    BY <2>1, <2>2
  <2>4. PICK r : r = SubSeq(d, n + 1, Len(d))
    OBVIOUS
  <2>5. Len(r) = Len(d) - n /\ \A i \in 1 .. Len(d) - n : r[i] = d[n + i]
    BY <2>3, <2>4, RestOf
  <2>6. down'[c] = r /\ n = Least(m, Len(d))
    BY <1>2, <2>1, <2>2, <2>4
  <2> QED BY <2>1, <2>3, <2>5, <2>6
<1>3. CASE ReadFile(c)
  <2>1. down'[c] = SubSeq(down[c], Least(MAX, Len(down[c])) + 1, Len(down[c]))
    BY <1>3 DEF ReadFile, ShapeInv
  <2> QED BY <1>1, <1>2, <2>1
<1>4. CASE ReadLine(c)
  <2>1. down'[c] = SubSeq(down[c], Least(LineLen + 1, Len(down[c])) + 1, Len(down[c]))
    BY <1>4 DEF ReadLine, ShapeInv
  <2>2. ~ReadFile(c)
    BY <1>4 DEF ReadLine, ReadFile
  <2> QED BY <1>1, <1>2, <2>1, <2>2
<1>5. CASE ReadSize(c)
  <2>1. down[c] # <<>> /\ down'[c] = Tail(down[c])
    BY <1>5 DEF ReadSize, ShapeInv
  <2>2. /\ Len(Tail(down[c])) = Len(down[c]) - 1 /\ Len(down[c]) \in Nat \ {0}
        /\ \A i \in 1 .. Len(down[c]) - 1 : Tail(down[c])[i] = down[c][1 + i]
    BY <1>1, <2>1
  <2>3. ~ReadFile(c) /\ 1 \in 0 .. Len(down[c])
    BY <1>5, <2>2 DEF ReadSize, ReadFile
  <2> QED BY <2>1, <2>2, <2>3
<1> QED BY <1>3, <1>4, <1>5

\* One round of the loop that receives a file.
LEMMA ReadFileKeeps ==
  ASSUME MarkerFree, ShapeInv, ShapeInv', NEW c \in Clients, EngagedInv(c), ReadFile(c)
  PROVE  EngagedInv(c)'
<1>1. PICK d \in Seq(Symbol) : d = down[c]
  BY DEF ShapeInv
<1>2. PICK r \in Seq(Symbol) : r = down'[c]
  BY DEF ShapeInv
<1>3. PICK n \in 0 .. Len(d) : /\ Len(r) = Len(d) - n
                               /\ \A i \in 1 .. Len(d) - n : r[i] = d[n + i]
                               /\ n = Least(MAX, Len(d))
  BY <1>1, <1>2, ReadTakes
<1>4. /\ client[c].pc = "file" /\ up' = up /\ sock' = sock /\ server' = server /\ n > 0
      /\ client'[c].cmd = client[c].cmd /\ client'[c].cleared = TRUE
  BY <1>1, <1>3 DEF ReadFile, ShapeInv, ClientType
<1>5. PICK junk \in BOOLEAN :
        client'[c].pc = IF HoldsMarker(SubSeq(d, 1, n), client[c].cleared, junk)
                        THEN "prompt" ELSE "file"
  BY <1>1, <1>3 DEF ReadFile, ShapeInv, ClientType
<1>6. RequestOK(c) /\ SendingOK(c) /\ StreamOK(c) /\ FirstOK(c) /\ ClientOK(c)
  BY <1>4 DEF EngagedInv, Gone
<1>7. Transfers(c)' = Transfers(c) /\ Sent(c)' = Sent(c) /\ (Sending(c)' <=> Sending(c))
  BY <1>4 DEF Transfers, Sent, Sending
<1>8. PICK sent \in Nat, more \in BOOLEAN : sent = Sent(c) /\ more = Sending(c)
  BY SentIs
<1>9. Piece(d, sent, more) /\ sent <= FileLen + EofLen
      /\ (more => sent <= FileLen) /\ (~more => sent = FileLen + EofLen)
  BY <1>1, <1>6, <1>8, SentIs DEF StreamOK
<1>10. Piece(r, sent, more)
  <2>1. Piece(d, sent, more) /\ Len(r) = Len(d) - n /\ \A i \in 1 .. Len(d) - n : r[i] = d[n + i]
    BY <1>3, <1>9
  <2>2. n \in 0 .. Len(d)
    BY <1>3
  <2> QED BY <2>1, <2>2, PieceRest, SMTT(40)
<1>11. Piece(down'[c], Sent(c)', Sending(c)')
  BY <1>2, <1>7, <1>8, <1>10 DEF Piece
<1>12. Len(d) \in Nat /\ n \in Nat
  BY <1>3
<1>13. ASSUME NEW i \in Stream(c)' PROVE i + n \in Stream(c) /\ i \in Nat \ {0}
  <2>1. i \in 1 .. Len(d) - n /\ InFile(d[n + i])
    BY <1>2, <1>3 DEF Stream
  <2>2. i + n = n + i /\ n + i \in 1 .. Len(d) /\ i \in Nat \ {0}
    BY <1>12, <2>1
  <2> QED BY <1>1, <2>1, <2>2 DEF Stream
<1>14. ClientOK(c)' /\ FirstOK(c)'
  BY <1>4, <1>5, <1>6, <1>7 DEF ClientOK, FirstOK
<1>15. CASE HoldsMarker(SubSeq(d, 1, n), client[c].cleared, junk)
  <2>1. d[1].kind = "eof"
    <3>1. PICK b \in Seq(Symbol) : b = SubSeq(d, 1, n)
      BY <1>3, RestOf
    <3>2. Len(b) = n /\ \A i \in 1 .. n : b[i] = d[i]
      BY <1>3, <3>1, RestOf
    <3>3. PICK cleared \in BOOLEAN : cleared = client[c].cleared
      BY DEF ShapeInv, ClientType
    <3>4. HoldsMarker(b, cleared, junk)
      BY <1>15, <3>1, <3>3
    <3>5. n \in 1 .. Len(d) /\ Len(d) > 0
      BY <1>4, <1>12, <1>3
    <3>6. ~cleared /\ d[1].kind = "data" => d[1].n = 1 /\ Len(d) >= Least(MAX, FileLen)
      BY <1>1, <1>6, <3>3, <3>5 DEF FirstOK
    <3> QED BY <1>3, <1>9, <3>2, <3>4, <3>5, <3>6, OnlyTheMarker
  <2>2. Len(d) > 0
    BY <1>3, <1>4, <1>12
  <2>3. ~more /\ \A j \in 1 .. Len(d) : InFile(d[j]) => j <= EofLen
    BY <1>9, <2>1, <2>2, PieceEnds
  <2>4. Stream(c)' = {}
    <3>1. SUFFICES ASSUME NEW i \in Stream(c)' PROVE FALSE
      OBVIOUS
    <3>2. i + n \in 1 .. Len(d) /\ InFile(d[i + n]) /\ i \in Nat \ {0}
      BY <1>1, <1>13 DEF Stream
    <3>3. i + n <= EofLen
      BY <2>3, <3>2
    <3> QED BY <1>3, <1>12, <3>2, <3>3, Lengths DEF Least
  <2>5. Transfers(c)' = {}
    <3>1. 1 \in Stream(c)
      BY <1>1, <1>12, <2>1, <2>2 DEF Stream, InFile
    <3> QED BY <1>6, <1>7, <3>1 DEF StreamOK
  <2> QED BY <1>7, <1>8, <1>11, <1>14, <2>3, <2>4, <2>5
          DEF EngagedInv, RequestOK, SendingOK, StreamOK
<1>16. CASE ~HoldsMarker(SubSeq(d, 1, n), client[c].cleared, junk)
  <2>1. client'[c].pc = "file"
    BY <1>5, <1>16
  <2>2. Stream(c) = {} => Stream(c)' = {}
    BY <1>13
  <2>3. RequestOK(c)'
    BY <1>4, <1>6, <1>7, <2>1, <2>2 DEF RequestOK
  <2>4. SendingOK(c)'
    BY <1>4, <1>6, <1>7, <2>1 DEF SendingOK
  <2>5. StreamOK(c)'
    BY <1>6, <1>7, <1>11, <2>1, <2>2 DEF StreamOK
  <2> QED BY <1>14, <2>3, <2>4, <2>5 DEF EngagedInv
<1> QED BY <1>15, <1>16

\* The steps of a client and its user.
LEMMA ClientKeeps ==
  ASSUME MarkerFree, ShapeInv, ShapeInv', \A c \in Clients : EngagedInv(c), ~ServerGone,
         NEW c \in Clients, ClientStep(c) \/ UserStep(c), NEW x \in Clients
  PROVE  EngagedInv(x)'
<1>1. EngagedInv(x) /\ EngagedInv(c)
  OBVIOUS
<1>2. UNCHANGED server
  BY DEF ClientStep, UserStep, Connect, SendFails, Leave, Kill, Send, ReadFile, ReadSize,
         ReadGarbage, ReadLine, ReadNothing
<1>3. Sending(x)' <=> Sending(x)
  BY <1>2 DEF Sending
<1>4. CASE x # c
  <2>1. /\ client'[x] = client[x] /\ up'[x] = up[x] /\ down'[x] = down[x]
        /\ sock'[x] = sock[x]
    <3>1. CASE SendFails(c) \/ Leave(c) \/ Kill(c) \/ ReadGarbage(c)
      BY <1>4, <3>1 DEF SendFails, Leave, Kill, ReadGarbage, Ends, ShapeInv
    <3>2. CASE Connect(c)
      BY <1>4, <3>2 DEF Connect, ShapeInv
    <3>3. CASE ReadFile(c)
      BY <1>4, <3>3 DEF ReadFile, ShapeInv
    <3>4. CASE ReadSize(c) \/ ReadLine(c) \/ ReadNothing(c)
      BY <1>4, <3>4 DEF ReadSize, ReadLine, ReadNothing, ShapeInv
    <3>5. ASSUME NEW cmd \in Commands, Send(c, cmd)
          PROVE  /\ client'[x] = client[x] /\ up'[x] = up[x] /\ down'[x] = down[x]
                 /\ sock'[x] = sock[x]
      BY <1>4, <3>5 DEF Send, ShapeInv
    <3> QED BY <3>1, <3>2, <3>3, <3>4, <3>5 DEF ClientStep, UserStep
  <2> QED BY <1>1, <1>2, <1>3, <2>1, Untouched
<1>5. CASE x = c
  <2>1. CASE SendFails(c) \/ Leave(c) \/ ReadGarbage(c) \/ Kill(c)
    <3>1. client'[c].pc \in {"out", "lost"}
      BY <2>1 DEF SendFails, Leave, Kill, ReadGarbage, Ends, ShapeInv, ClientType
    <3> QED BY <1>5, <3>1 DEF EngagedInv, Gone
  <2>2. CASE ReadNothing(c)
    BY <2>2 DEF ReadNothing
  <2>3. ASSUME client[c].pc \notin {"out", "lost", "file"}
        PROVE  Transfers(c) = {} /\ Stream(c) = {} /\ ~Sending(c)
    BY <1>1, <2>3 DEF EngagedInv, Gone, RequestOK, SendingOK, StreamOK
  <2>4. CASE Connect(c)
    <3>1. client'[c].pc = "prompt" /\ client[c].pc = "start" /\ client'[c].cmd = client[c].cmd
          /\ sock'[c] = "up" /\ up' = up /\ down' = down /\ client'[c].cleared = client[c].cleared
      BY <2>4 DEF Connect, ShapeInv, ClientType
    <3>2. Transfers(c)' = {} /\ Stream(c)' = {} /\ ~Sending(c)'
      BY <1>2, <2>3, <3>1 DEF Transfers, Stream, Sending
    <3>3. ClientOK(c)' /\ FirstOK(c)'
      BY <1>1, <3>1 DEF EngagedInv, Gone, ClientOK, FirstOK, Transfers
    <3>4. Piece(down'[c], Sent(c)', Sending(c)')
      BY <3>2 DEF Stream, Piece
    <3> QED BY <1>5, <3>2, <3>3, <3>4 DEF EngagedInv, RequestOK, SendingOK, StreamOK
  <2>5. ASSUME NEW cmd \in Commands, Send(c, cmd) PROVE EngagedInv(c)'
    <3>1. client[c].pc = "prompt" /\ sock[c] = "up" /\ down' = down /\ sock'[c] = "up"
      BY <1>1, <2>5 DEF Send, EngagedInv, Gone, ClientOK, ShapeInv
    <3>2. /\ client'[c].pc = IF ExpectsFile(cmd) THEN "file" ELSE "size"
          /\ client'[c].cmd = cmd
      BY <2>5 DEF Send, ShapeInv, ClientType
    <3>3. PICK m : m.cmd = cmd /\ m \in Message /\ up'[c] = Append(up[c], m)
      <4>1. [id |-> client[c].sent + 1, cmd |-> cmd] \in Message
        BY DEF ShapeInv, ClientType, Message
      <4>2. PICK m \in Message : m = [id |-> client[c].sent + 1, cmd |-> cmd]
        BY <4>1
      <4>3. m.cmd = cmd
        BY <4>2
      <4>4. up' = [up EXCEPT ![c] = Append(@, m)]
        BY <2>5, <3>1, <4>2 DEF Send
      <4>5. up'[c] = Append(up[c], m)
        BY <4>4 DEF ShapeInv
      <4> QED BY <4>3, <4>5
    <3>4. /\ Len(up[c]) \in Nat /\ Len(up'[c]) = Len(up[c]) + 1
          /\ \A i \in 1 .. Len(up[c]) : up'[c][i] = up[c][i]
          /\ up'[c][Len(up[c]) + 1].cmd = cmd
      BY <3>3 DEF ShapeInv
    <3>5. Transfers(c) = {} /\ Stream(c) = {} /\ ~Sending(c) /\ ~Sending(c)'
      BY <1>2, <2>3, <3>1 DEF Sending
    <3>6. Stream(c)' = {}
      BY <3>1, <3>5 DEF Stream
    <3>7. ASSUME NEW i \in Transfers(c)' PROVE i = Len(up'[c]) /\ IsTransfer(cmd)
      <4>1. i \in 1 .. Len(up[c]) + 1 /\ IsTransfer(up'[c][i].cmd)
        BY <3>4 DEF Transfers
      <4>2. i \notin 1 .. Len(up[c])
        BY <3>4, <3>5, <4>1 DEF Transfers
      <4>3. i = Len(up[c]) + 1
        BY <3>4, <4>1, <4>2
      <4> QED BY <3>4, <4>1, <4>3
    <3>8. IsTransfer(cmd) => client'[c].pc = "file" /\ Len(up'[c]) \in Transfers(c)'
      BY <3>2, <3>4 DEF ExpectsFile, Transfers
    <3>9. ClientOK(c)'
      BY <3>1, <3>2, <3>8 DEF ClientOK
    <3>10. Piece(down'[c], Sent(c)', Sending(c)')
      BY <3>6 DEF Stream, Piece
    <3>11. FirstOK(c)'
      <4>1. Len(down'[c]) \in Nat
        BY DEF ShapeInv
      <4>2. Len(down'[c]) > 0 => down'[c][1].kind # "data"
        BY <3>6, <4>1 DEF Stream, InFile
      <4> QED BY <4>2 DEF FirstOK
    <3> QED BY <3>5, <3>6, <3>7, <3>8, <3>9, <3>10, <3>11
            DEF EngagedInv, RequestOK, SendingOK, StreamOK
  <2>6. CASE ReadSize(c) \/ ReadLine(c)
    <3>1. client[c].pc \in {"size", "line"} /\ client'[c].pc \in {"line", "prompt"}
          /\ client'[c].cmd = client[c].cmd /\ up' = up /\ sock' = sock
      BY <2>6 DEF ReadSize, ReadLine, ShapeInv, ClientType
    <3>2. PICK n \in 0 .. Len(down[c]) : /\ Len(down'[c]) = Len(down[c]) - n
                                         /\ \A i \in 1 .. Len(down[c]) - n : down'[c][i] = down[c][n + i]
      BY <2>6, ReadTakes
    <3>3. Transfers(c) = {} /\ Stream(c) = {} /\ ~Sending(c)'
      BY <1>2, <2>3, <3>1 DEF Sending
    <3>4. Stream(c)' = {}
      <4>1. Len(down[c]) \in Nat
        BY DEF ShapeInv
      <4>2. ASSUME NEW i \in 1 .. Len(down[c]) - n PROVE ~InFile(down'[c][i])
        <5>1. n + i \in 1 .. Len(down[c])
          BY <4>1
        <5> QED BY <3>2, <3>3, <5>1 DEF Stream
      <4> QED BY <3>2, <4>2 DEF Stream
    <3>5. Transfers(c)' = {}
      BY <3>1, <3>3 DEF Transfers
    <3>6. ClientOK(c)'
      BY <1>1, <3>1 DEF EngagedInv, Gone, ClientOK
    <3>7. Piece(down'[c], Sent(c)', Sending(c)')
      BY <3>4 DEF Stream, Piece
    <3>8. FirstOK(c)'
      <4>1. Len(down'[c]) \in Nat
        BY DEF ShapeInv
      <4>2. Len(down'[c]) > 0 => down'[c][1].kind # "data"
        BY <3>4, <4>1 DEF Stream, InFile
      <4> QED BY <4>2 DEF FirstOK
    <3> QED BY <1>5, <3>3, <3>4, <3>5, <3>6, <3>7, <3>8
            DEF EngagedInv, RequestOK, SendingOK, StreamOK
  <2>7. CASE ReadFile(c)
    BY <1>1, <1>5, <2>7, ReadFileKeeps
  <2> QED BY <1>5, <2>1, <2>2, <2>4, <2>5, <2>6, <2>7 DEF ClientStep, UserStep
<1> QED BY <1>4, <1>5

\* A server that has ended does not come back.
LEMMA DeadStays ==
  ASSUME ServerGone, [Next]_vars
  PROVE  ServerGone'
<1>1. ~ServerStep
  BY DEF ServerGone, ServerStep, Accept, ReadCommand, ListMissing, Disconnect, ReadFails,
         SendChunk, SendMarker, SendSize, SendLine, Sigpipe
<1>2. ASSUME NEW c \in Clients, ClientStep(c) \/ UserStep(c) PROVE UNCHANGED server
  BY <1>2 DEF ClientStep, UserStep, Connect, SendFails, Leave, Kill, Send, ReadFile, ReadSize,
              ReadGarbage, ReadLine, ReadNothing
<1>3. UNCHANGED server
  BY <1>1, <1>2 DEF Next, vars
<1> QED BY <1>3 DEF ServerGone

\* The invariant holds at the start.
LEMMA InvInit == Init => Inv
<1> SUFFICES ASSUME Init PROVE Inv
  OBVIOUS
<1>1. ShapeInv
  <2>1. server \in ServerType /\ server.pc = "accept"
    BY Lengths DEF Init, ServerType
  <2>2. client \in [Clients -> ClientType]
    BY DEF Init, ClientType, NoCommand
  <2> QED BY <2>1, <2>2 DEF Init, ShapeInv, SockType
<1>2. ASSUME NEW c \in Clients PROVE EngagedInv(c)
  <2>1. Transfers(c) = {} /\ Stream(c) = {} /\ ~Sending(c) /\ Len(down[c]) = 0
    BY DEF Init, Transfers, Stream, Sending
  <2>2. ClientOK(c)
    BY DEF Init, ClientOK, IsTransfer
  <2>3. Piece(down[c], Sent(c), Sending(c))
    BY <2>1 DEF Piece
  <2> QED BY <2>1, <2>2, <2>3 DEF EngagedInv, RequestOK, SendingOK, StreamOK, FirstOK
<1> QED BY <1>1, <1>2 DEF Inv, TransferInv

\* Every step keeps the invariant.
LEMMA InvStep == ASSUME MarkerFree PROVE Inv /\ [Next]_vars => Inv'
<1> SUFFICES ASSUME Inv, [Next]_vars PROVE Inv'
  OBVIOUS
<1>1. ShapeInv'
  BY ShapeStep DEF Inv
<1>2. TransferInv'
  <2>1. SUFFICES ASSUME ~ServerGone, ~ServerGone', NEW x \in Clients PROVE EngagedInv(x)'
    BY DeadStays DEF TransferInv
  <2>2. ShapeInv /\ \A c \in Clients : EngagedInv(c)
    BY <2>1 DEF Inv, TransferInv
  <2>3. CASE ServerStep
    BY <1>1, <2>1, <2>2, <2>3, ServerKeeps
  <2>4. ASSUME NEW c \in Clients, ClientStep(c) \/ UserStep(c) PROVE EngagedInv(x)'
    BY <1>1, <2>1, <2>2, <2>4, ClientKeeps
  <2>5. CASE UNCHANGED vars
    BY <2>2, <2>5, Untouched DEF vars, Sending
  <2> QED BY <2>3, <2>4, <2>5 DEF Next
<1> QED BY <1>1, <1>2 DEF Inv

\* When a client of Lab4 reports a file as received, while the server lives, nothing
\* of the file or the marker is still to come, for any number of clients and any
\* lengths, if the file holds nothing the client takes for the marker (client.c
\* 132-138).
THEOREM TransfersAreWhole == ASSUME MarkerFree PROVE Spec => []TransferComplete
<1>1. Inv => TransferComplete
  <2>1. SUFFICES ASSUME Inv, NEW c \in Clients, client[c].pc = "prompt",
                        IsTransfer(client[c].cmd), ~ServerGone
                 PROVE  up[c] = <<>> /\ ~Sending(c) /\ Stream(c) = {}
    <3>1. \A c \in Clients : DOMAIN down[c] = 1 .. Len(down[c]) \/ ~Inv
      BY DEF Inv, ShapeInv
    <3> QED BY <3>1 DEF TransferComplete, Sending, Stream
  <2>2. RequestOK(c) /\ SendingOK(c) /\ StreamOK(c) /\ ClientOK(c)
    BY <2>1 DEF Inv, TransferInv, EngagedInv, Gone
  <2>3. Transfers(c) = {} /\ ~Sending(c) /\ Stream(c) = {}
    BY <2>1, <2>2 DEF RequestOK, SendingOK, StreamOK
  <2>4. Len(up[c]) = 0 /\ up[c] \in Seq(Message)
    BY <2>1, <2>2, <2>3 DEF ClientOK, Inv, ShapeInv
  <2> QED BY <2>3, <2>4, EmptySeq
<1>2. Inv /\ [Next]_vars => Inv'
  BY InvStep
<1> QED BY InvInit, <1>1, <1>2, PTL DEF Spec

-----------------------------------------------------------------------------
(***************************************************************************)
(* The conversation over the commands that send no file.  While the server *)
(* lives, what is in the two streams of a client follows from the two      *)
(* program counters: Phase(c).  A client that is killed in a call leaves   *)
(* its command, or nothing, behind.  Only its connection can be broken, so *)
(* only in its call does a write end the server, and from then on every    *)
(* other client finds its connection closed and its stream empty:          *)
(* Orphaned(c).                                                            *)
(***************************************************************************)

\* The commands of which the client expects, and the server sends, one line.
PlainOnly ==
  \A cmd \in Commands : ~ExpectsFile(cmd) /\ (cmd.op = "ls" => cmd.path = NoPath)

Serving(c) == server.peer = c /\ server.pc # "accept"
AtRead(c) == Serving(c) => server.pc = "read"
Size(id) == Symbols("size", id, "none", 0, 1)
Call(c) == [id |-> client[c].sent, cmd |-> client[c].cmd]
Shown(c) ==
  client[c].sent = 0 \/ \E verdict \in Verdicts : client[c].shown = Line(client[c].sent, verdict)

Quiet(c) == up[c] = <<>> /\ down[c] = <<>>
Asked(c) == up[c] = <<Call(c)>> /\ down[c] = <<>> /\ AtRead(c)
Answering(c, pc) ==
  /\ Serving(c) /\ server.pc = pc
  /\ server.id = client[c].sent /\ server.verdict \in Verdicts /\ up[c] = <<>>
Answered(c, before) ==
  /\ Serving(c) /\ server.pc = "read" /\ up[c] = <<>>
  /\ \E verdict \in Verdicts : down[c] = before \o Line(client[c].sent, verdict)

SizeStates(c) ==
  \/ Asked(c)
  \/ Answering(c, "size") /\ down[c] = <<>>
  \/ Answering(c, "line") /\ down[c] = Size(client[c].sent)
  \/ Answered(c, Size(client[c].sent))
LineStates(c) ==
  \/ Answering(c, "line") /\ down[c] = <<>>
  \/ Answered(c, <<>>)

Abandoned(c) ==
  /\ client[c].pc = "lost" /\ client[c].sent > 0 /\ sock[c] \in {"fin", "reset", "broken"}
  /\ up[c] = <<>> \/ (up[c] = <<Call(c)>> /\ AtRead(c))

Phase(c) ==
  \/ client[c].pc = "start" /\ client[c].sent = 0 /\ sock[c] = "none" /\ Quiet(c) /\ ~Serving(c)
  \/ client[c].pc = "prompt" /\ sock[c] = "up" /\ Quiet(c) /\ AtRead(c) /\ Shown(c)
  \/ client[c].pc = "size" /\ client[c].sent > 0 /\ sock[c] = "up" /\ SizeStates(c)
  \/ client[c].pc = "line" /\ client[c].sent > 0 /\ sock[c] = "up" /\ LineStates(c)
  \/ client[c].pc = "out" /\ sock[c] = "fin" /\ Quiet(c) /\ AtRead(c) /\ Shown(c)
  \/ Abandoned(c)

AliveInv ==
  /\ ShapeInv
  /\ server.pc \in {"accept", "read", "size", "line"}
  /\ \A i \in 1 .. Len(backlog) : client[backlog[i]].pc # "start"
  /\ \A c \in Clients : Phase(c)

Orphaned(c) ==
  \/ client[c].pc = "start" /\ client[c].sent = 0
  \/ /\ client[c].pc = "prompt" /\ sock[c] \in {"gone", "broken"} /\ down[c] = <<>>
     /\ Shown(c) \/ client[c].shown = <<>>
  \/ client[c].pc = "size" /\ client[c].sent > 0 /\ sock[c] \in {"gone", "broken"} /\ down[c] = <<>>
  \/ client[c].pc \in {"out", "lost"}

DeadInv ==
  /\ ShapeInv
  /\ ServerGone
  /\ client[server.peer].pc = "lost"
  /\ \A c \in Clients : Orphaned(c)

PlainInv == AliveInv \/ DeadInv

\* What the streams of an answer look like from either end.
LEMMA StreamFacts ==
  ASSUME NEW id \in Nat, NEW v \in Verdicts
  PROVE  /\ Line(id, v) \in Seq(Symbol) /\ Len(Line(id, v)) = LineLen /\ Line(id, v) # <<>>
         /\ Size(id) \in Seq(Symbol) /\ Size(id) # <<>>
         /\ Head(Size(id)).kind = "size" /\ Tail(Size(id)) = <<>>
         /\ Size(id) \o Line(id, v) # <<>> /\ Head(Size(id) \o Line(id, v)).kind = "size"
         /\ Tail(Size(id) \o Line(id, v)) = Line(id, v)
         /\ <<>> \o Line(id, v) = Line(id, v) /\ <<>> \o Size(id) = Size(id)
         /\ Last(Line(id, v)).verdict = v /\ Last(Size(id) \o Line(id, v)).verdict = v
         /\ Least(LineLen + 1, Len(Line(id, v))) = LineLen
         /\ SubSeq(Line(id, v), 1, LineLen) = Line(id, v)
         /\ SubSeq(Line(id, v), LineLen + 1, Len(Line(id, v))) = <<>>
<1> DEFINE l == Line(id, v)
           s == Size(id)
<1>0. LineLen \in Nat \ {0}
  BY TransferAssumption
<1>1. l \in Seq(Symbol) /\ Len(l) = LineLen
  BY LineIs
<1>2. s \in Seq(Symbol) /\ Len(s) = 1
  BY SizeIs DEF Size
<1>3. l[LineLen].verdict = v
  BY <1>0, LineIs
<1>4. s[1].kind = "size"
  BY SizeIs DEF Size
<1> HIDE DEF l, s
<1>5. l # <<>> /\ s # <<>> /\ <<>> \o l = l /\ <<>> \o s = s
  <2>1. Len(<<>>) = 0
    BY EmptySeq
  <2>2. l # <<>> /\ s # <<>>
    <3>1. Len(l) # 0 /\ Len(s) # 0
      BY <1>0, <1>1, <1>2
    <3> QED BY <2>1, <3>1, Zenon
  <2> QED BY <1>1, <1>2, <2>2, ConcatEmptySeq
<1>6. Head(s).kind = "size" /\ Tail(s) = <<>>
  <2>1. Head(s) = s[1] /\ Tail(s) \in Seq(Symbol) /\ Len(Tail(s)) = 0
    BY <1>2, <1>5, TailOf
  <2>2. Tail(s) = <<>>
    BY <2>1, EmptySeq
  <2> QED BY <1>4, <2>1, <2>2
<1>7. s \o l \in Seq(Symbol) /\ Len(s \o l) = LineLen + 1 /\ (s \o l)[1] = s[1]
      /\ (s \o l)[LineLen + 1] = l[LineLen]
  <2>1. /\ s \o l \in Seq(Symbol) /\ Len(s \o l) = Len(s) + Len(l)
        /\ \A i \in 1 .. Len(s) : (s \o l)[i] = s[i]
        /\ \A i \in Len(s) + 1 .. Len(s) + Len(l) : (s \o l)[i] = l[i - Len(s)]
    BY <1>1, <1>2, ConcatIs
  <2>2. 1 \in 1 .. 1 /\ LineLen + 1 \in 1 + 1 .. 1 + LineLen /\ (LineLen + 1) - 1 = LineLen
    BY <1>0
  <2> QED BY <1>0, <1>1, <1>2, <2>1, <2>2
<1>8. s \o l # <<>> /\ Head(s \o l).kind = "size" /\ Tail(s \o l) = l
  <2>1. s \o l # <<>> /\ Head(s \o l) = s[1]
    BY <1>0, <1>7
  <2>2. Tail(s \o l) \in Seq(Symbol) /\ Len(Tail(s \o l)) = LineLen
    BY <1>0, <1>7, <2>1
  <2>3. \A i \in 1 .. LineLen : Tail(s \o l)[i] = l[i]
    BY <1>0, <1>1, <1>2, <1>7, <2>1
  <2>4. Tail(s \o l) = l
    BY <1>1, <2>2, <2>3, SeqEqual
  <2> QED BY <1>4, <2>1, <2>4
<1>9. Last(l).verdict = v /\ Last(s \o l).verdict = v
  BY <1>1, <1>3, <1>7 DEF Last
<1>10. Least(LineLen + 1, Len(l)) = LineLen
  BY <1>0, <1>1 DEF Least
<1>11. SubSeq(l, 1, LineLen) = l /\ SubSeq(l, LineLen + 1, Len(l)) = <<>>
  BY <1>0, <1>1
<1> QED BY <1>1, <1>2, <1>5, <1>6, <1>8, <1>9, <1>10, <1>11 DEF l, s

\* A step of which a client, its streams and its server see nothing.
LEMMA Bystander ==
  ASSUME NEW c \in Clients, Phase(c),
         client'[c] = client[c], up'[c] = up[c], down'[c] = down[c], sock'[c] = sock[c],
         Serving(c)' <=> Serving(c), Serving(c) => server' = server,
         ~ServerGone, ~ServerGone'
  PROVE  Phase(c)' /\ CallOf(c)' = CallOf(c)
<1>1. /\ Quiet(c)' <=> Quiet(c)
      /\ Shown(c)' <=> Shown(c)
      /\ AtRead(c)' <=> AtRead(c)
  BY DEF Quiet, Shown, AtRead
<1>2. /\ SizeStates(c) => SizeStates(c)'
      /\ LineStates(c) => LineStates(c)'
      /\ Abandoned(c) => Abandoned(c)'
  BY <1>1 DEF SizeStates, LineStates, Asked, Answering, Answered, Abandoned, Call
<1>3. Phase(c)'
  BY <1>1, <1>2 DEF Phase
<1>4. OnItsWay(c)' = OnItsWay(c)
  BY DEF OnItsWay, Serving
<1>5. Waiting(c)' <=> Waiting(c)
  BY DEF Waiting
<1>6. (AtWork(c)' <=> AtWork(c)) /\ (AtWork(c) => server'.verdict = server.verdict)
  BY DEF AtWork, Serving
<1>7. CallOf(c)' = CallOf(c)
  BY <1>4, <1>5, <1>6 DEF CallOf
<1> QED BY <1>3, <1>7

\* The server's next client is one that has asked at most.
LEMMA AcceptDoes ==
  ASSUME AliveInv, Accept, NEW x \in Clients
  PROVE  Phase(x)' /\ CallOf(x)' = CallOf(x)
<1> DEFINE c == Head(backlog)
<1>1. c \in Clients /\ c = backlog[1] /\ Len(backlog) \in Nat \ {0}
  BY TailOf DEF Accept, AliveInv, ShapeInv
<1>2. server.pc = "accept" /\ server'.pc = "read" /\ server'.peer = c
      /\ UNCHANGED <<sock, up, down, client>> /\ ~ServerGone /\ ~ServerGone'
  BY DEF Accept, AliveInv, ShapeInv, ServerType, ServerGone
<1> HIDE DEF c
<1>3. ~Serving(x) /\ Phase(x)
  BY <1>2 DEF Serving, AliveInv
<1>4. CASE x # c
  BY <1>2, <1>3, <1>4, Bystander DEF Serving
<1>5. CASE x = c
  <2>1. client[x].pc # "start"
    BY <1>1, <1>5 DEF AliveInv
  <2>2. AtRead(x)'
    BY <1>2 DEF AtRead
  <2>3. ~SizeStates(x) \/ Asked(x)
    BY <1>3 DEF SizeStates, Answering, Answered
  <2>4. ~LineStates(x)
    BY <1>3 DEF LineStates, Answering, Answered
  <2>5. /\ (Quiet(x)' <=> Quiet(x)) /\ (Shown(x)' <=> Shown(x)) /\ (Asked(x) => Asked(x)')
        /\ Abandoned(x) => Abandoned(x)'
    BY <1>2, <2>2 DEF Quiet, Shown, Asked, Abandoned, Call
  <2>6. Phase(x)'
    BY <1>2, <1>3, <2>1, <2>2, <2>3, <2>4, <2>5 DEF Phase, SizeStates
  <2>7. CallOf(x)' = CallOf(x)
    <3>1. Waiting(x) => up[x] # <<>>
      <4>1. Asked(x) => up[x] # <<>>
        BY DEF Asked
      <4> QED BY <1>3, <2>3, <2>4, <4>1 DEF Phase, Abandoned, Waiting
    <3>2. ~AtWork(x) /\ ~AtWork(x)'
      BY <1>2 DEF AtWork
    <3> QED BY <1>2, <3>1, <3>2 DEF CallOf, Waiting
  <2> QED BY <2>6, <2>7
<1> QED BY <1>4, <1>5

\* A client the server works for has asked, and waits or has been killed.
LEMMA ServedClient ==
  ASSUME AliveInv, server.pc # "accept", NEW c, c = server.peer
  PROVE  /\ c \in Clients /\ Serving(c) /\ Phase(c) /\ ~ServerGone
         /\ client[c].pc = "lost" => Abandoned(c)
         /\ sock[c] \notin {"up", "fin"} => client[c].pc = "lost"
         /\ client[c].pc # "lost" /\ up[c] # <<>> =>
              client[c].pc = "size" /\ client[c].sent > 0 /\ sock[c] = "up" /\ Asked(c)
         /\ client[c].pc # "lost" /\ server.pc = "size" =>
              /\ client[c].pc = "size" /\ client[c].sent > 0 /\ sock[c] = "up"
              /\ Answering(c, "size") /\ down[c] = <<>>
         /\ client[c].pc # "lost" /\ server.pc = "line" =>
              /\ client[c].sent > 0 /\ sock[c] = "up" /\ Answering(c, "line")
              /\ \/ client[c].pc = "size" /\ down[c] = Size(client[c].sent)
                 \/ client[c].pc = "line" /\ down[c] = <<>>
<1>1. c \in Clients /\ Serving(c) /\ Phase(c) /\ ~ServerGone
  BY DEF AliveInv, ShapeInv, Serving, ServerGone
<1>2. (client[c].pc = "lost" => Abandoned(c)) /\ (sock[c] \notin {"up", "fin"} => client[c].pc = "lost")
  BY <1>1 DEF Phase, Abandoned
<1>3. client[c].pc # "lost" /\ up[c] # <<>> =>
        client[c].pc = "size" /\ client[c].sent > 0 /\ sock[c] = "up" /\ Asked(c)
  BY <1>1 DEF Phase, Abandoned, Quiet, SizeStates, LineStates, Answering, Answered
<1>4. client[c].pc # "lost" /\ server.pc = "size" =>
        /\ client[c].pc = "size" /\ client[c].sent > 0 /\ sock[c] = "up"
        /\ Answering(c, "size") /\ down[c] = <<>>
  BY <1>1 DEF Phase, Abandoned, AtRead, SizeStates, LineStates, Asked, Answering, Answered
<1>5. client[c].pc # "lost" /\ server.pc = "line" =>
        /\ client[c].sent > 0 /\ sock[c] = "up" /\ Answering(c, "line")
        /\ \/ client[c].pc = "size" /\ down[c] = Size(client[c].sent)
           \/ client[c].pc = "line" /\ down[c] = <<>>
  BY <1>1 DEF Phase, Abandoned, AtRead, SizeStates, LineStates, Asked, Answering, Answered
<1> QED BY <1>1, <1>2, <1>3, <1>4, <1>5

\* The steps a server of plain commands never takes, and those it takes only for
\* a client that has been killed.
LEMMA NeverTaken ==
  ASSUME PlainOnly, AliveInv
  PROVE  /\ ~ListMissing /\ ~SendChunk /\ ~SendMarker
         /\ ReadFails \/ Sigpipe => client[server.peer].pc = "lost"
<1>1. ~SendChunk /\ ~SendMarker
  BY DEF AliveInv, SendChunk, SendMarker
<1>2. ReadFails \/ Sigpipe => client[server.peer].pc = "lost"
  BY ServedClient DEF ReadFails, Sigpipe
<1>3. ~ListMissing
  <2>1. SUFFICES ASSUME ListMissing PROVE FALSE
    OBVIOUS
  <2>2. server.peer \in Clients /\ up[server.peer] # <<>>
    BY <2>1, ServedClient DEF ListMissing
  <2>3. Head(up[server.peer]) \in Message
    BY <2>2, TailOf DEF AliveInv, ShapeInv
  <2>4. Head(up[server.peer]).cmd \in Commands
    BY <2>3 DEF Message
  <2> QED BY <2>1, <2>4 DEF ListMissing, ListsNothing, PlainOnly
<1> QED BY <1>1, <1>2, <1>3

\* runCommand performs what the client asked for.
LEMMA ReadCommandDoes ==
  ASSUME PlainOnly, AliveInv, ReadCommand
  PROVE  /\ \A x \in Clients : Phase(x)'
         /\ server'.pc = "size"
         /\ \E c \in Clients, cmd \in Commands :
              /\ \A x \in Clients \ {c} : CallOf(x)' = CallOf(x)
              /\ CallOf(c) = [state |-> "asked", cmd |-> cmd]
              /\ files' = FilesAfter(cmd, files, place)
              /\ place' = PlaceAfter(cmd, files, place)
              /\ CallOf(c)' = [state |-> "performed", verdict |-> Verdict(cmd, files, place)]
<1>a. PICK c \in Clients : c = server.peer
  BY ServedClient DEF ReadCommand
<1>b. PICK cmd : cmd = client[c].cmd
  OBVIOUS
<1>0. c = server.peer /\ cmd = client[c].cmd
  BY <1>a, <1>b
<1>1. /\ c \in Clients /\ up[c] # <<>> /\ Serving(c) /\ ~ServerGone
      /\ \/ client[c].pc = "size" /\ client[c].sent > 0 /\ sock[c] = "up" /\ Asked(c)
         \/ client[c].pc = "lost" /\ Abandoned(c)
  BY <1>0, ServedClient DEF ReadCommand
<1>2. up[c] = <<Call(c)>> /\ client[c].sent > 0 /\ client[c].sent \in Nat
  BY <1>1 DEF Asked, Abandoned, AliveInv, ShapeInv, ClientType
<1>3. Head(up[c]) = Call(c) /\ Tail(up[c]) = <<>>
  BY <1>2
<1>4. Call(c) \in Message
  BY <1>1, <1>3, TailOf DEF AliveInv, ShapeInv
<1>5. cmd \in Commands /\ Head(up[c]).cmd = cmd /\ Head(up[c]).id = client[c].sent
  BY <1>0, <1>3, <1>4 DEF Call, Message
<1>6. ~IsTransfer(cmd) /\ Verdict(cmd, files, place) \in Verdicts
  BY <1>5, CommandFacts DEF PlainOnly, ExpectsFile, AliveInv, ShapeInv
<1>7. /\ server'.pc = "size" /\ server'.peer = c /\ server'.id = client[c].sent
      /\ server'.verdict = Verdict(cmd, files, place)
  BY <1>0, <1>5, <1>6 DEF ReadCommand, AliveInv, ShapeInv, ServerType
<1>8. /\ files' = FilesAfter(cmd, files, place) /\ place' = PlaceAfter(cmd, files, place)
      /\ up' = [up EXCEPT ![c] = Tail(@)] /\ UNCHANGED <<backlog, sock, down, client>>
  BY <1>0, <1>5 DEF ReadCommand
<1>9. up'[c] = <<>> /\ \A x \in Clients \ {c} : up'[x] = up[x]
  BY <1>1, <1>3, <1>8 DEF AliveInv, ShapeInv
<1>10. ~ServerGone'
  BY <1>7 DEF ServerGone
<1>11. ASSUME NEW x \in Clients \ {c} PROVE Phase(x)' /\ CallOf(x)' = CallOf(x)
  <2>1. ~Serving(x) /\ ~Serving(x)' /\ Phase(x)
    BY <1>0, <1>7 DEF Serving, AliveInv
  <2> QED BY <1>1, <1>8, <1>9, <1>10, <2>1, Bystander
<1>12. Phase(c)'
  <2>1. Answering(c, "size")'
    BY <1>6, <1>7, <1>8, <1>9 DEF Answering, Serving
  <2>2. CASE client[c].pc = "size"
    <3>1. down[c] = <<>> /\ sock[c] = "up"
      BY <1>1, <2>2 DEF Asked
    <3> QED BY <1>2, <1>8, <2>1, <2>2, <3>1 DEF Phase, SizeStates
  <2>3. CASE client[c].pc = "lost"
    BY <1>1, <1>8, <1>9, <2>3 DEF Phase, Abandoned
  <2> QED BY <1>1, <2>2, <2>3
<1>13. CallOf(c) = [state |-> "asked", cmd |-> cmd]
  BY <1>0, <1>1, <1>2 DEF CallOf, Waiting
<1>14. CallOf(c)' = [state |-> "performed", verdict |-> Verdict(cmd, files, place)]
  <2>1. OnItsWay(c)' = Verdict(cmd, files, place) /\ AtWork(c)'
    BY <1>2, <1>7 DEF OnItsWay, AtWork
  <2> QED BY <1>1, <1>2, <1>7, <1>8, <1>9, <1>10, <2>1 DEF CallOf, Waiting
<1> QED BY <1>0, <1>1, <1>5, <1>7, <1>8, <1>11, <1>12, <1>13, <1>14

\* A client that has left goes out of the server's sight.
LEMMA DisconnectDoes ==
  ASSUME AliveInv, Disconnect, NEW x \in Clients
  PROVE  Phase(x)' /\ CallOf(x)' = CallOf(x) /\ server'.pc = "accept"
<1>1. /\ server.pc = "read" /\ server'.pc = "accept" /\ server'.peer = server.peer
      /\ UNCHANGED <<sock, up, down, client>> /\ ~ServerGone /\ ~ServerGone'
  BY DEF Disconnect, AliveInv, ShapeInv, ServerType, ServerGone
<1>2. /\ server.peer \in Clients /\ sock[server.peer] \in {"fin", "broken"} /\ Phase(x)
      /\ up[server.peer] = <<>>
  BY <1>1, ServedClient DEF Disconnect, AliveInv
<1>3. CASE x # server.peer
  BY <1>1, <1>2, <1>3, Bystander DEF Serving
<1>5. CASE x = server.peer /\ client[x].pc = "lost"
  <2>1. Abandoned(x) /\ Abandoned(x)'
    BY <1>1, <1>2, <1>5 DEF Phase, Abandoned
  <2>2. ~AtWork(x) /\ ~AtWork(x)'
    BY <1>1 DEF AtWork
  <2> QED BY <1>1, <1>5, <2>1, <2>2 DEF Phase, CallOf
<1>4. CASE x = server.peer /\ client[x].pc # "lost"
  <2>1. client[x].pc = "out" /\ Quiet(x) /\ Shown(x) /\ sock[x] = "fin"
    BY <1>2, <1>4 DEF Phase, Abandoned
  <2>2. AtRead(x)' /\ Quiet(x)' /\ Shown(x)'
    BY <1>1, <2>1 DEF AtRead, Serving, Quiet, Shown
  <2>3. Phase(x)'
    BY <1>1, <1>2, <1>4, <2>1, <2>2 DEF Phase
  <2>4. CallOf(x)' = CallOf(x)
    BY <1>1, <2>1 DEF CallOf, Waiting
  <2> QED BY <1>1, <2>3, <2>4
<1> QED BY <1>1, <1>3, <1>4, <1>5

\* The two writes of an answer.
LEMMA AnswerDoes ==
  ASSUME AliveInv, SendSize \/ SendLine, client[server.peer].pc # "lost", NEW x \in Clients
  PROVE  Phase(x)' /\ CallOf(x)' = CallOf(x) /\ server'.pc \in {"line", "read"}
<1>0. PICK c \in Clients, sent \in Nat : c = server.peer /\ sent = client[c].sent
  BY ServedClient DEF SendSize, SendLine, AliveInv, ShapeInv, ClientType
<1>1. /\ c \in Clients /\ Serving(c) /\ sock[c] = "up" /\ sent > 0
      /\ server.id = sent /\ server.verdict \in Verdicts /\ up[c] = <<>>
      /\ server.pc = "size" => client[c].pc = "size" /\ down[c] = <<>>
      /\ server.pc = "line" => \/ client[c].pc = "size" /\ down[c] = Size(sent)
                               \/ client[c].pc = "line" /\ down[c] = <<>>
  BY <1>0, ServedClient DEF SendSize, SendLine, Answering
<1>2. UNCHANGED <<files, place, up, client>> /\ server'.peer = c
      /\ server'.id = server.id /\ server'.verdict = server.verdict
      /\ server'.pc = (IF server.pc = "size" THEN "line" ELSE "read")
      /\ server.pc \in {"size", "line"}
  BY <1>0 DEF SendSize, SendLine, AliveInv, ShapeInv, ServerType
<1>10. ~ServerGone /\ ~ServerGone'
  BY <1>2 DEF ServerGone
<1>3. PICK s : Write(s) /\ s = (IF server.pc = "size" THEN Size(sent) ELSE Line(sent, server.verdict))
  BY <1>1 DEF SendSize, SendLine, Size
<1>4. /\ x # c => down'[x] = down[x] /\ sock'[x] = sock[x]
      /\ down'[c] = down[c] \o s /\ sock'[c] = "up"
  BY <1>0, <1>1, <1>2, <1>3, WriteDoes DEF AliveInv
<1>8. PICK v \in Verdicts : v = server.verdict
  BY <1>1
<1>9. /\ <<>> \o Size(sent) = Size(sent) /\ <<>> \o Line(sent, v) = Line(sent, v)
      /\ Last(Line(sent, v)).verdict = v /\ Last(Size(sent) \o Line(sent, v)).verdict = v
  BY StreamFacts
<1>5. CASE x # c
  <2>1. ~Serving(x) /\ ~Serving(x)' /\ Phase(x)
    BY <1>0, <1>2, <1>5 DEF Serving, AliveInv
  <2> QED BY <1>2, <1>4, <1>5, <1>10, <2>1, Bystander
<1>6. CASE x = c /\ server.pc = "size"
  <2>1. down'[c] = Size(sent) /\ server'.pc = "line"
    BY <1>1, <1>2, <1>3, <1>4, <1>6, <1>9
  <2>2. Answering(c, "line")'
    BY <1>0, <1>1, <1>2, <2>1 DEF Answering, Serving
  <2>3. Phase(c)'
    BY <1>0, <1>1, <1>2, <1>4, <1>6, <2>1, <2>2 DEF Phase, SizeStates
  <2>4. CallOf(c)' = CallOf(c)
    <3>1. OnItsWay(c)' = server.verdict /\ OnItsWay(c) = server.verdict
      BY <1>0, <1>2, <1>6, <2>1 DEF OnItsWay
    <3> QED BY <1>1, <1>2, <1>6, <1>10, <3>1 DEF CallOf, Waiting
  <2> QED BY <1>6, <2>1, <2>3, <2>4
<1>7. CASE x = c /\ server.pc = "line"
  <2> DEFINE l == Line(sent, server.verdict)
  <2>1. server'.pc = "read" /\ s = l
    BY <1>2, <1>3, <1>7
  <2>2. Serving(c)'
    BY <1>2, <2>1 DEF Serving
  <2>3. Last(down'[c]).verdict = server.verdict /\ Phase(c)'
    <3>1. CASE client[c].pc = "size" /\ down[c] = Size(sent)
      <4>1. down'[c] = Size(sent) \o l
        BY <1>4, <2>1, <3>1
      <4>2. Last(down'[c]).verdict = server.verdict
        BY <1>8, <1>9, <4>1, Zenon
      <4>3. Answered(c, Size(client[c].sent))'
        BY <1>0, <1>1, <1>2, <2>1, <2>2, <4>1 DEF Answered
      <4> QED BY <1>0, <1>1, <1>2, <1>4, <3>1, <4>2, <4>3 DEF Phase, SizeStates
    <3>2. CASE client[c].pc = "line" /\ down[c] = <<>>
      <4>1. down'[c] = <<>> \o l
        BY <1>4, <2>1, <3>2
      <4>2. Last(down'[c]).verdict = server.verdict
        BY <1>8, <1>9, <4>1, Zenon
      <4>3. Answered(c, <<>>)'
        BY <1>0, <1>1, <1>2, <2>1, <2>2, <4>1 DEF Answered
      <4> QED BY <1>0, <1>1, <1>2, <1>4, <3>2, <4>2, <4>3 DEF Phase, LineStates
    <3> QED BY <1>1, <1>7, <3>1, <3>2
  <2>4. CallOf(c)' = CallOf(c)
    <3>1. OnItsWay(c)' = server.verdict /\ OnItsWay(c) = server.verdict
      BY <1>0, <1>2, <1>7, <2>1, <2>3 DEF OnItsWay
    <3> QED BY <1>1, <1>2, <1>7, <1>10, <3>1 DEF CallOf, Waiting
  <2> QED BY <1>7, <2>1, <2>3, <2>4
<1> QED BY <1>2, <1>5, <1>6, <1>7

\* The steps a client of plain commands never takes.
LEMMA NeverRead ==
  ASSUME AliveInv, NEW c \in Clients
  PROVE  ~SendFails(c) /\ ~ReadFile(c) /\ ~ReadGarbage(c) /\ ~ReadNothing(c)
<1>1. Phase(c) /\ ~ServerGone
  BY DEF AliveInv, ServerGone
<1>2. ~SendFails(c) /\ ~ReadFile(c) /\ ~ReadNothing(c)
  BY <1>1 DEF Phase, Abandoned, SendFails, ReadFile, ReadNothing
<1>3. ~ReadGarbage(c)
  <2>1. SUFFICES ASSUME client[c].pc = "size", down[c] # <<>> PROVE Head(down[c]).kind = "size"
    BY DEF ReadGarbage
  <2>2. PICK sent \in Nat : sent = client[c].sent
    BY DEF AliveInv, ShapeInv, ClientType
  <2>3. \/ down[c] = Size(sent)
        \/ \E verdict \in Verdicts : down[c] = Size(sent) \o Line(sent, verdict)
    BY <1>1, <2>1, <2>2 DEF Phase, Abandoned, SizeStates, Asked, Answered
  <2>4. "text" \in Verdicts
    BY DEF Verdicts
  <2>5. CASE down[c] = Size(sent)
    <3>1. Head(Size(sent)).kind = "size"
      BY <2>4, StreamFacts
    <3> QED BY <2>5, <3>1
  <2>6. ASSUME NEW v \in Verdicts, down[c] = Size(sent) \o Line(sent, v)
        PROVE  Head(down[c]).kind = "size"
    <3>1. Head(Size(sent) \o Line(sent, v)).kind = "size"
      BY StreamFacts
    <3> QED BY <2>6, <3>1
  <2> QED BY <2>3, <2>5, <2>6
<1> QED BY <1>2, <1>3

\* The steps of a user at the prompt.
LEMMA ConnectDoes ==
  ASSUME AliveInv, NEW c \in Clients, Connect(c)
  PROVE  Phase(c)' /\ CallOf(c)' = CallOf(c)
<1>1. /\ client[c].pc = "start" /\ client[c].sent = 0 /\ Quiet(c) /\ ~Serving(c)
  BY DEF Connect, AliveInv, Phase, Abandoned
<1>2. /\ client'[c].pc = "prompt" /\ client'[c].sent = 0 /\ sock'[c] = "up"
      /\ UNCHANGED <<server, up, down>>
  BY <1>1 DEF Connect, AliveInv, ShapeInv, ClientType
<1>3. Quiet(c)' /\ AtRead(c)' /\ Shown(c)'
  BY <1>1, <1>2 DEF Quiet, AtRead, Serving, Shown
<1>4. Phase(c)'
  BY <1>2, <1>3 DEF Phase
<1>5. CallOf(c)' = CallOf(c)
  BY <1>1, <1>2 DEF CallOf
<1> QED BY <1>4, <1>5

\* A user who leaves takes nothing along.
LEMMA LeaveDoes ==
  ASSUME AliveInv, NEW c \in Clients, Leave(c)
  PROVE  Phase(c)' /\ CallOf(c)' = CallOf(c)
<1>1. client[c].pc = "prompt" /\ sock[c] = "up" /\ Quiet(c) /\ AtRead(c) /\ Shown(c)
  BY DEF Leave, AliveInv, Phase, Abandoned
<1>2. /\ client'[c].pc = "out" /\ client'[c].sent = client[c].sent
      /\ client'[c].shown = client[c].shown /\ UNCHANGED <<server, up, down>>
  BY DEF Leave, Ends, AliveInv, ShapeInv, ClientType
<1>3. sock'[c] = "fin"
  BY <1>1, <1>2 DEF Leave, Ends, Quiet, AliveInv, ShapeInv
<1>4. Quiet(c)' /\ AtRead(c)' /\ Shown(c)'
  BY <1>1, <1>2 DEF Quiet, AtRead, Serving, Shown
<1> QED BY <1>1, <1>2, <1>3, <1>4 DEF Phase, CallOf, Waiting

\* A client that is killed leaves its call to the server, or loses the answer.
LEMMA KillDoes ==
  ASSUME AliveInv, NEW c \in Clients, Kill(c)
  PROVE  /\ Phase(c)'
         /\ \/ CallOf(c)' = CallOf(c)
            \/ CallOf(c).state = "performed" /\ CallOf(c)' = LostCall
<1>1. /\ client[c].pc \in {"size", "line"} /\ sock[c] = "up" /\ client[c].sent > 0
      /\ client[c].sent \in Nat /\ ~ServerGone
      /\ SizeStates(c) \/ LineStates(c)
  BY DEF Kill, AliveInv, Phase, Abandoned, ShapeInv, ClientType, ServerGone
<1>2. /\ client'[c].pc = "lost" /\ client'[c].sent = client[c].sent /\ client'[c].cmd = client[c].cmd
      /\ UNCHANGED <<server, up, down>>
  BY DEF Kill, Ends, AliveInv, ShapeInv, ClientType
<1>3. sock'[c] \in {"fin", "reset"}
  BY <1>1 DEF Kill, Ends, AliveInv, ShapeInv
<1>4. /\ OnItsWay(c) = IF server.peer = c /\ server.pc \in {"size", "line"} THEN server.verdict
                       ELSE Last(down[c]).verdict
      /\ AtWork(c)' <=> AtWork(c)
  BY <1>2 DEF OnItsWay, AtWork
<1>5. CASE Asked(c)
  <2>1. up[c] = <<Call(c)>> /\ AtRead(c)' /\ Call(c)' = Call(c) /\ up[c] # <<>>
    BY <1>2, <1>5 DEF Asked, AtRead, Serving, Call
  <2>2. Phase(c)'
    BY <1>1, <1>2, <1>3, <2>1 DEF Phase, Abandoned
  <2> QED BY <1>1, <1>2, <2>1, <2>2 DEF CallOf, Waiting
<1>6. CASE Answering(c, "size") \/ Answering(c, "line")
  <2>1. up[c] = <<>> /\ AtWork(c) /\ OnItsWay(c) = server.verdict
    BY <1>1, <1>4, <1>6 DEF Answering, AtWork, Serving
  <2>2. Phase(c)'
    BY <1>1, <1>2, <1>3, <2>1 DEF Phase, Abandoned
  <2> QED BY <1>1, <1>2, <1>4, <2>1, <2>2 DEF CallOf, Waiting
<1>7. CASE up[c] = <<>> /\ server.pc = "read"
  <2>1. ~AtWork(c) /\ ~AtWork(c)'
    BY <1>4, <1>7 DEF AtWork
  <2>2. Phase(c)'
    BY <1>1, <1>2, <1>3, <1>7 DEF Phase, Abandoned
  <2> QED BY <1>1, <1>2, <1>7, <2>1, <2>2 DEF CallOf, Waiting
<1> QED BY <1>1, <1>5, <1>6, <1>7 DEF SizeStates, LineStates, Answered

\* A command typed is a call asked.
LEMMA SendDoes ==
  ASSUME PlainOnly, AliveInv, NEW c \in Clients, NEW cmd \in Commands, Send(c, cmd)
  PROVE  /\ Phase(c)' /\ CallOf(c).state \in {"none", "answered", "failed"}
         /\ CallOf(c)' = [state |-> "asked", cmd |-> cmd]
<1>1. /\ client[c].pc = "prompt" /\ sock[c] = "up" /\ Quiet(c) /\ AtRead(c) /\ Shown(c)
      /\ client[c].sent \in Nat
  BY DEF Send, AliveInv, Phase, Abandoned, ShapeInv, ClientType
<1>2. /\ client'[c].pc = "size" /\ client'[c].sent = client[c].sent + 1 /\ client'[c].cmd = cmd
      /\ UNCHANGED <<server, down>>
  BY DEF Send, PlainOnly, AliveInv, ShapeInv, ClientType
<1>3. sock'[c] = "up" /\ up'[c] = Append(up[c], [id |-> client[c].sent + 1, cmd |-> cmd])
  BY <1>1 DEF Send, AliveInv, ShapeInv
<1>4. up'[c] = <<[id |-> client[c].sent + 1, cmd |-> cmd]>>
  BY <1>1, <1>3 DEF Quiet
<1>5. Asked(c)'
  BY <1>1, <1>2, <1>4 DEF Asked, Call, Quiet, AtRead, Serving
<1>6. client'[c].sent > 0
  BY <1>1, <1>2
<1>7. Phase(c)'
  BY <1>2, <1>3, <1>5, <1>6 DEF Phase, SizeStates
<1>8. CallOf(c).state \in {"none", "answered", "failed"}
  BY <1>1 DEF CallOf, Waiting, NoCall, FailedCall
<1>9. CallOf(c)' = [state |-> "asked", cmd |-> cmd]
  <2>1. up'[c] # <<>> /\ Head(up'[c]).cmd = cmd
    BY <1>4
  <2> QED BY <1>2, <1>6, <2>1, <1>1 DEF CallOf, Waiting
<1> QED BY <1>7, <1>8, <1>9

\* The two reads of an answer.
LEMMA ReadSizeDoes ==
  ASSUME AliveInv, NEW c \in Clients, ReadSize(c)
  PROVE  Phase(c)' /\ CallOf(c)' = CallOf(c)
<1>1. /\ client[c].pc = "size" /\ client[c].sent > 0 /\ sock[c] = "up" /\ SizeStates(c)
      /\ client[c].sent \in Nat /\ down[c] # <<>> /\ ~ServerGone
  BY DEF ReadSize, AliveInv, Phase, Abandoned, ShapeInv, ClientType, ServerGone
<1>2. /\ client'[c].pc = "line" /\ client'[c].sent = client[c].sent
      /\ down'[c] = Tail(down[c]) /\ UNCHANGED <<server, up, sock>>
  BY DEF ReadSize, AliveInv, ShapeInv, ClientType
<1>3. PICK sent \in Nat : sent = client[c].sent
  BY <1>1
<1>4. CASE Answering(c, "line") /\ down[c] = Size(sent)
  <2>1. "text" \in Verdicts
    BY DEF Verdicts
  <2>2. down'[c] = <<>>
    BY <1>2, <1>4, <2>1, StreamFacts
  <2>3. Answering(c, "line")'
    BY <1>2, <1>4 DEF Answering, Serving
  <2>4. Phase(c)'
    BY <1>1, <1>2, <2>2, <2>3 DEF Phase, LineStates
  <2>5. OnItsWay(c) = server.verdict /\ OnItsWay(c)' = server.verdict
    BY <1>2, <1>4 DEF OnItsWay, Answering, Serving
  <2>6. CallOf(c)' = CallOf(c)
    BY <1>1, <1>2, <1>4, <2>5 DEF CallOf, Waiting, Answering, ServerGone
  <2> QED BY <2>4, <2>6
<1>5. CASE Answered(c, Size(sent))
  <2>1. PICK v \in Verdicts : down[c] = Size(sent) \o Line(sent, v)
    BY <1>3, <1>5 DEF Answered
  <2>2. /\ Tail(Size(sent) \o Line(sent, v)) = Line(sent, v)
        /\ <<>> \o Line(sent, v) = Line(sent, v)
        /\ Last(Line(sent, v)).verdict = v /\ Last(Size(sent) \o Line(sent, v)).verdict = v
    BY StreamFacts
  <2>3. /\ down'[c] = <<>> \o Line(sent, v)
        /\ Last(down'[c]).verdict = v /\ Last(down[c]).verdict = v
    BY <1>2, <2>1, <2>2, Zenon
  <2>4. Serving(c)' /\ server'.pc = "read" /\ server.pc = "read" /\ up'[c] = <<>> /\ up[c] = <<>>
    BY <1>2, <1>5 DEF Answered, Serving
  <2>5. Answered(c, <<>>)'
    BY <1>2, <1>3, <2>3, <2>4 DEF Answered
  <2>6. Phase(c)'
    BY <1>1, <1>2, <2>5 DEF Phase, LineStates
  <2>7. OnItsWay(c) = v /\ OnItsWay(c)' = v
    BY <2>3, <2>4 DEF OnItsWay
  <2>8. CallOf(c)' = CallOf(c)
    BY <1>1, <1>2, <2>4, <2>7 DEF CallOf, Waiting, ServerGone
  <2> QED BY <2>6, <2>8
<1> QED BY <1>1, <1>3, <1>4, <1>5 DEF SizeStates, Asked

\* The line that is read is the whole answer.
LEMMA ReadLineDoes ==
  ASSUME AliveInv, NEW c \in Clients, ReadLine(c)
  PROVE  /\ Phase(c)'
         /\ \E v : /\ CallOf(c) = [state |-> "performed", verdict |-> v]
                   /\ CallOf(c)' = [state |-> "answered", verdict |-> v]
<1> DEFINE n == Least(LineLen + 1, Len(down[c]))
<1>1. /\ client[c].pc = "line" /\ client[c].sent > 0 /\ sock[c] = "up" /\ LineStates(c) /\ n > 0
      /\ client[c].sent \in Nat /\ ~ServerGone
  BY DEF ReadLine, AliveInv, Phase, Abandoned, ShapeInv, ClientType, ServerGone
<1>2. /\ client'[c].pc = "prompt" /\ client'[c].sent = client[c].sent
      /\ client'[c].shown = SubSeq(down[c], 1, n)
      /\ down'[c] = SubSeq(down[c], n + 1, Len(down[c])) /\ UNCHANGED <<server, up, sock>>
  BY DEF ReadLine, AliveInv, ShapeInv, ClientType
<1>3. PICK sent \in Nat : sent = client[c].sent
  BY <1>1
<1>4. down[c] # <<>>
  <2>1. SUFFICES ASSUME down[c] = <<>> PROVE FALSE
    OBVIOUS
  <2>2. Len(down[c]) = 0 /\ LineLen \in Nat
    BY <2>1, EmptySeq, TransferAssumption
  <2>3. n = 0
    BY <2>2 DEF Least
  <2> QED BY <1>1, <2>3
<1>5. Answered(c, <<>>)
  BY <1>1, <1>4 DEF LineStates
<1>6. PICK v \in Verdicts : down[c] = <<>> \o Line(sent, v)
  BY <1>3, <1>5 DEF Answered
<1>7. /\ <<>> \o Line(sent, v) = Line(sent, v) /\ Line(sent, v) # <<>>
      /\ Last(Line(sent, v)).verdict = v
      /\ Least(LineLen + 1, Len(Line(sent, v))) = LineLen
      /\ SubSeq(Line(sent, v), 1, LineLen) = Line(sent, v)
      /\ SubSeq(Line(sent, v), LineLen + 1, Len(Line(sent, v))) = <<>>
  BY StreamFacts
<1>8. down[c] = Line(sent, v) /\ n = LineLen
  BY <1>6, <1>7, Zenon
<1> HIDE DEF n
<1>9. client'[c].shown = Line(sent, v) /\ down'[c] = <<>>
  BY <1>2, <1>7, <1>8, Zenon
<1>10. Serving(c) /\ server.pc = "read" /\ up[c] = <<>>
  BY <1>5 DEF Answered
<1>11. Quiet(c)' /\ AtRead(c)' /\ Shown(c)'
  BY <1>2, <1>3, <1>9, <1>10 DEF Quiet, AtRead, Serving, Shown
<1>12. Phase(c)'
  BY <1>1, <1>2, <1>11 DEF Phase
<1>13. OnItsWay(c) = v
  BY <1>7, <1>8, <1>10 DEF OnItsWay
<1>14. CallOf(c) = [state |-> "performed", verdict |-> v]
  BY <1>1, <1>10, <1>13 DEF CallOf, Waiting
<1>15. Last(client'[c].shown).verdict = v /\ client'[c].shown # <<>>
  BY <1>7, <1>9, Zenon
<1>16. CallOf(c)' = [state |-> "answered", verdict |-> v]
  BY <1>1, <1>2, <1>15 DEF CallOf, Waiting
<1> QED BY <1>12, <1>14, <1>16

\* The writes to a client that has been killed; the second one is its answer.
LEMMA LostAnswerDoes ==
  ASSUME AliveInv, SendSize \/ SendLine, NEW c \in Clients, c = server.peer, client[c].pc = "lost"
  PROVE  /\ \A x \in Clients : Phase(x)'
         /\ \A x \in Clients \ {c} : CallOf(x)' = CallOf(x)
         /\ \/ CallOf(c)' = CallOf(c)
            \/ CallOf(c).state = "performed" /\ CallOf(c)' = LostCall
<1>1. Abandoned(c) /\ Serving(c) /\ server.pc \in {"size", "line"} /\ ~ServerGone
  BY ServedClient DEF SendSize, SendLine
<1>2. /\ UNCHANGED <<up, client>> /\ server'.peer = c
      /\ server'.id = server.id /\ server'.verdict = server.verdict
      /\ server'.pc = IF server.pc = "size" THEN "line" ELSE "read"
  BY DEF SendSize, SendLine, AliveInv, ShapeInv, ServerType
<1>3. ~ServerGone' /\ up[c] = <<>>
  BY <1>1, <1>2 DEF ServerGone, Abandoned, AtRead
<1>4. PICK s : Write(s)
  BY DEF SendSize, SendLine
<1>5. ASSUME NEW x \in Clients \ {c} PROVE Phase(x)' /\ CallOf(x)' = CallOf(x)
  <2>1. down'[x] = down[x] /\ sock'[x] = sock[x]
    BY <1>1, <1>4, WriteDoes DEF AliveInv
  <2>2. ~Serving(x) /\ ~Serving(x)' /\ Phase(x)
    BY <1>2 DEF Serving, AliveInv
  <2> QED BY <1>1, <1>2, <1>3, <2>1, <2>2, Bystander
<1>6. Phase(c)'
  <2>1. sock'[c] = "broken"
    BY <1>1, <1>4, WriteDoes DEF AliveInv, Abandoned
  <2> QED BY <1>1, <1>2, <1>3, <2>1 DEF Phase, Abandoned
<1>7. \/ CallOf(c)' = CallOf(c)
      \/ CallOf(c).state = "performed" /\ CallOf(c)' = LostCall
  <2>1. client[c].sent # 0
    BY <1>1 DEF Abandoned, AliveInv, ShapeInv, ClientType
  <2>2. CASE server.pc = "size"
    <3>1. AtWork(c)' <=> AtWork(c)
      BY <1>2, <2>2 DEF AtWork
    <3> QED BY <1>2, <1>3, <2>1, <3>1 DEF CallOf
  <2>3. CASE server.pc = "line"
    <3>1. ~AtWork(c)'
      BY <1>2, <2>3 DEF AtWork
    <3> QED BY <1>2, <1>3, <2>1, <3>1 DEF CallOf
  <2> QED BY <1>1, <2>2, <2>3
<1> QED BY <1>5, <1>6, <1>7

\* The server takes the failed read of a connection that was reset for a command.
LEMMA ReadFailsDoes ==
  ASSUME PlainOnly, AliveInv, ReadFails, NEW x \in Clients
  PROVE  Phase(x)' /\ CallOf(x)' = CallOf(x)
<1>1. PICK c \in Clients : c = server.peer /\ client[c].pc = "lost" /\ Abandoned(c) /\ Serving(c)
  BY ServedClient, NeverTaken DEF ReadFails
<1>2. /\ UNCHANGED <<up, down, client>> /\ server'.peer = c /\ server'.id = 0 /\ server'.pc = "size"
      /\ server.pc = "read" /\ up[c] = <<>> /\ ~ServerGone /\ ~ServerGone'
      /\ sock' = [sock EXCEPT ![c] = "broken"]
  BY <1>1 DEF ReadFails, AliveInv, ShapeInv, ServerType, ServerGone
<1>3. sock'[c] = "broken" /\ (x # c => sock'[x] = sock[x])
  BY <1>2 DEF AliveInv, ShapeInv
<1>4. CASE x # c
  <2>1. ~Serving(x) /\ ~Serving(x)' /\ Phase(x)
    BY <1>1, <1>2, <1>4 DEF Serving, AliveInv
  <2> QED BY <1>2, <1>3, <1>4, <2>1, Bystander
<1>5. CASE x = c
  <2>1. ~AtWork(c) /\ ~AtWork(c)'
    BY <1>2 DEF AtWork
  <2>2. Phase(c)'
    BY <1>1, <1>2, <1>3 DEF Phase, Abandoned
  <2> QED BY <1>1, <1>2, <1>5, <2>1, <2>2 DEF CallOf
<1> QED BY <1>4, <1>5

\* A server that ends leaves every other call as it is.
LEMMA SigpipeDoes ==
  ASSUME PlainOnly, AliveInv, ShapeInv', Sigpipe, NEW c \in Clients, c = server.peer
  PROVE  /\ DeadInv'
         /\ \A x \in Clients \ {c} : CallOf(x)' = CallOf(x)
         /\ CallOf(c).state \in {"performed", "lost"} /\ CallOf(c)' = LostCall
<1>1. client[c].pc = "lost" /\ Abandoned(c) /\ server.pc \in {"size", "line"} /\ Serving(c)
      /\ ~ServerGone
  BY ServedClient, NeverTaken DEF Sigpipe, AliveInv
<1>2. /\ UNCHANGED <<up, down, client>> /\ ServerGone' /\ server'.peer = c
      /\ \A x \in Clients : sock'[x] = IF sock[x] # "up" THEN sock[x]
                                       ELSE IF up[x] = <<>> \/ client[x].pc = "prompt"
                                              THEN "gone" ELSE "broken"
  BY DEF Sigpipe, Dies, ServerGone, AliveInv, ShapeInv, ServerType
<1>3. up[c] = <<>> /\ client[c].sent # 0
  BY <1>1 DEF Abandoned, AtRead, AliveInv, ShapeInv, ClientType
<1>4. ASSUME NEW x \in Clients \ {c} PROVE Orphaned(x)' /\ CallOf(x)' = CallOf(x)
  <2>1. ~Serving(x) /\ Phase(x) /\ client[x].sent \in Nat
    BY DEF Serving, AliveInv, ShapeInv, ClientType
  <2>2. ~LineStates(x) /\ (SizeStates(x) => Asked(x))
    BY <2>1 DEF LineStates, SizeStates, Answering, Answered
  <2>3. Asked(x) => up[x] # <<>> /\ down[x] = <<>>
    BY DEF Asked
  <2>4. Waiting(x) => client[x].pc = "size" /\ up[x] # <<>> /\ down[x] = <<>> /\ sock[x] = "up"
                      /\ client[x].sent > 0
    BY <2>1, <2>2, <2>3 DEF Waiting, Phase, Abandoned
  <2>5. Orphaned(x)'
    <3>1. CASE Waiting(x)
      BY <1>2, <2>4, <3>1 DEF Orphaned
    <3>2. CASE client[x].pc = "prompt"
      <4>1. sock[x] = "up" /\ Quiet(x) /\ Shown(x)
        BY <2>1, <3>2 DEF Phase, Abandoned
      <4> QED BY <1>2, <3>2, <4>1 DEF Orphaned, Quiet, Shown
    <3>3. CASE client[x].pc \in {"start", "out", "lost"}
      BY <1>2, <2>1, <3>3 DEF Orphaned, Phase, Abandoned
    <3> QED BY <2>1, <3>1, <3>2, <3>3 DEF Phase, Abandoned, Waiting
  <2>6. ~AtWork(x) /\ ~AtWork(x)'
    BY <1>2 DEF AtWork, ServerGone
  <2>7. Waiting(x)' <=> Waiting(x)
    BY <1>2 DEF Waiting
  <2>8. CallOf(x)' = CallOf(x)
    BY <1>2, <2>4, <2>6, <2>7 DEF CallOf
  <2> QED BY <2>5, <2>8
<1>5. Orphaned(c)'
  BY <1>1, <1>2 DEF Orphaned
<1>6. DeadInv'
  BY <1>1, <1>2, <1>4, <1>5 DEF DeadInv
<1>7. ~AtWork(c)'
  BY <1>2 DEF AtWork, ServerGone
<1>8. CallOf(c)' = LostCall
  <2>1. client'[c].sent # 0 /\ client'[c].pc = "lost" /\ up'[c] = <<>>
    BY <1>1, <1>2, <1>3
  <2> QED BY <1>7, <2>1 DEF CallOf
<1>9. CallOf(c).state \in {"performed", "lost"}
  <2>1. CallOf(c) = IF AtWork(c) THEN [state |-> "performed", verdict |-> server.verdict]
                    ELSE LostCall
    BY <1>1, <1>3 DEF CallOf
  <2> QED BY <2>1 DEF LostCall
<1> QED BY <1>4, <1>6, <1>8, <1>9

\* The abstract specification's commands are the server's.
LEMMA SameCommands ==
  ASSUME NEW cmd, NEW f, NEW p
  PROVE  /\ Abstract!Verdict(cmd, f, p) = Verdict(cmd, f, p)
         /\ Abstract!FilesAfter(cmd, f, p) = FilesAfter(cmd, f, p)
         /\ Abstract!PlaceAfter(cmd, f, p) = PlaceAfter(cmd, f, p)
<1>1. Abstract!Needs = Needs
  BY DEF Abstract!Needs, Needs
<1>2. Abstract!ListsNothing(cmd, f) <=> ListsNothing(cmd, f)
  BY DEF Abstract!ListsNothing, ListsNothing
<1>3. Abstract!Succeeds(cmd, f, p) <=> Succeeds(cmd, f, p)
  BY <1>1, <1>2 DEF Abstract!Succeeds, Succeeds
<1>4. Abstract!Verdict(cmd, f, p) = Verdict(cmd, f, p)
  BY <1>3 DEF Abstract!Verdict, Verdict
<1>5. Abstract!FilesAfter(cmd, f, p) = FilesAfter(cmd, f, p)
  BY <1>3 DEF Abstract!FilesAfter, FilesAfter
<1>6. Abstract!PlaceAfter(cmd, f, p) = PlaceAfter(cmd, f, p)
  BY <1>3 DEF Abstract!PlaceAfter, PlaceAfter
<1> QED BY <1>4, <1>5, <1>6

\* What a step does to the abstract calls: to all but at most one, nothing.
LEMMA AliveStep ==
  ASSUME PlainOnly, AliveInv, [Next]_vars
  PROVE  PlainInv' /\ [Abstract!Next]_(Abstract!vars)
<1> DEFINE calls == [x \in Clients |-> CallOf(x)]
           alive == ~ServerGone
           Quietly == UNCHANGED <<files, place>> /\ \A x \in Clients : CallOf(x)' = CallOf(x)
           Rest == /\ server'.pc \in {"accept", "read", "size", "line"}
                   /\ \A i \in 1 .. Len(backlog') : client'[backlog'[i]].pc # "start"
<1>1. ShapeInv'
  BY ShapeStep DEF AliveInv
<1>2. ASSUME Rest, \A x \in Clients : Phase(x)' PROVE PlainInv' /\ alive' = alive
  <2>1. PlainInv'
    BY <1>1, <1>2 DEF AliveInv, PlainInv
  <2>2. alive /\ alive'
    BY <1>2 DEF AliveInv, ServerGone
  <2> QED BY <2>1, <2>2
<1> HIDE DEF alive
<1>3. ASSUME Quietly, alive' = alive PROVE UNCHANGED Abstract!vars
  <2>1. calls' = calls
    BY <1>3
  <2> QED BY <1>3, <2>1 DEF alive, Abstract!vars
<1>4. ASSUME UNCHANGED <<client, backlog>>
      PROVE  \A i \in 1 .. Len(backlog') : client'[backlog'[i]].pc # "start"
  BY <1>4 DEF AliveInv
<1>11. ASSUME NEW c \in Clients, CallOf(c).state = "performed", CallOf(c)' = LostCall,
              \A x \in Clients \ {c} : CallOf(x)' = CallOf(x), UNCHANGED <<files, place>>,
              alive' = alive
       PROVE  Abstract!Next
  <2>1. calls' = [calls EXCEPT ![c] = LostCall] /\ calls[c].state = "performed"
    BY <1>11
  <2>2. Abstract!Lose(c)
    BY <1>11, <2>1 DEF alive, Abstract!Lose, Abstract!Lost, LostCall
  <2> QED BY <2>2 DEF Abstract!Next
<1>5. CASE Accept
  <2>1. backlog # <<>> /\ backlog' = Tail(backlog) /\ client' = client /\ server'.pc = "read"
        /\ UNCHANGED <<files, place>>
    BY <1>5 DEF Accept, AliveInv, ShapeInv, ServerType
  <2>2. /\ Len(backlog) \in Nat /\ Len(backlog') = Len(backlog) - 1
        /\ \A i \in 1 .. Len(backlog) - 1 : backlog'[i] = backlog[i + 1]
    BY <2>1, TailOf DEF AliveInv, ShapeInv
  <2>3. \A i \in 1 .. Len(backlog') : client'[backlog'[i]].pc # "start"
    <3>1. \A i \in 1 .. Len(backlog) - 1 : i + 1 \in 1 .. Len(backlog)
      BY <2>2
    <3> QED BY <2>1, <2>2, <3>1 DEF AliveInv
  <2>4. Rest /\ Quietly /\ \A x \in Clients : Phase(x)'
    BY <1>5, <2>1, <2>3, AcceptDoes
  <2> QED BY <1>2, <1>3, <2>4
<1>6. CASE ReadCommand
  <2>1. UNCHANGED <<client, backlog>>
    BY <1>6 DEF ReadCommand
  <2>3. PICK c \in Clients, cmd \in Commands :
          /\ \A x \in Clients \ {c} : CallOf(x)' = CallOf(x)
          /\ CallOf(c) = [state |-> "asked", cmd |-> cmd]
          /\ files' = FilesAfter(cmd, files, place)
          /\ place' = PlaceAfter(cmd, files, place)
          /\ CallOf(c)' = [state |-> "performed", verdict |-> Verdict(cmd, files, place)]
    BY <1>6, ReadCommandDoes
  <2>5. PlainInv' /\ alive' = alive /\ alive
    <3>1. alive
      BY DEF alive, AliveInv, ServerGone
    <3> QED BY <1>2, <1>4, <1>6, <2>1, <3>1, ReadCommandDoes
  <2>6. calls' = [calls EXCEPT ![c] = [state |-> "performed", verdict |-> Verdict(cmd, files, place)]]
    BY <2>3
  <2>7. calls[c] = [state |-> "asked", cmd |-> cmd]
    BY <2>3
  <2>8. Abstract!Perform(c)
    <3>1. calls[c].state = "asked" /\ calls[c].cmd = cmd
      BY <2>7
    <3>2. /\ files' = Abstract!FilesAfter(cmd, files, place)
          /\ place' = Abstract!PlaceAfter(cmd, files, place)
      BY <2>3, SameCommands
    <3>3. calls' = [calls EXCEPT ![c] = Abstract!Performed(Abstract!Verdict(cmd, files, place))]
      BY <2>6, SameCommands DEF Abstract!Performed
    <3> QED BY <2>5, <3>1, <3>2, <3>3, Zenon DEF alive, Abstract!Perform
  <2> QED BY <2>5, <2>8 DEF Abstract!Next
<1>7. CASE Disconnect
  <2>1. UNCHANGED <<client, backlog, files, place>> /\ server'.pc = "accept"
    BY <1>7 DEF Disconnect, AliveInv, ShapeInv, ServerType
  <2>2. Rest /\ Quietly /\ \A x \in Clients : Phase(x)'
    BY <1>4, <1>7, <2>1, DisconnectDoes
  <2> QED BY <1>2, <1>3, <2>2
<1>8. CASE SendSize \/ SendLine
  <2>1. UNCHANGED <<client, backlog, files, place>> /\ server'.pc \in {"line", "read"}
    BY <1>8 DEF SendSize, SendLine, AliveInv, ShapeInv, ServerType
  <2>2. CASE client[server.peer].pc # "lost"
    <3>1. Rest /\ Quietly /\ \A x \in Clients : Phase(x)'
      BY <1>4, <1>8, <2>1, <2>2, AnswerDoes
    <3> QED BY <1>2, <1>3, <3>1
  <2>3. CASE client[server.peer].pc = "lost"
    <3>1. PICK c \in Clients : c = server.peer
      BY <1>8, ServedClient DEF SendSize, SendLine
    <3>2. PlainInv' /\ alive' = alive
      BY <1>2, <1>4, <1>8, <2>1, <2>3, <3>1, LostAnswerDoes
    <3>3. \A x \in Clients \ {c} : CallOf(x)' = CallOf(x)
      BY <1>8, <2>3, <3>1, LostAnswerDoes
    <3>4. CASE CallOf(c)' = CallOf(c)
      BY <1>3, <2>1, <3>2, <3>3, <3>4
    <3>5. CASE CallOf(c).state = "performed" /\ CallOf(c)' = LostCall
      BY <1>11, <2>1, <3>2, <3>3, <3>5
    <3> QED BY <1>8, <2>3, <3>1, <3>4, <3>5, LostAnswerDoes
  <2> QED BY <2>2, <2>3
<1>12. CASE ReadFails
  <2>1. UNCHANGED <<client, backlog, files, place>> /\ server'.pc = "size"
    BY <1>12 DEF ReadFails, AliveInv, ShapeInv, ServerType
  <2>2. Rest /\ Quietly /\ \A x \in Clients : Phase(x)'
    BY <1>4, <1>12, <2>1, ReadFailsDoes
  <2> QED BY <1>2, <1>3, <2>2
<1>13. CASE Sigpipe
  <2>1. PICK c \in Clients : c = server.peer
    BY <1>13, ServedClient DEF Sigpipe
  <2>2. /\ DeadInv'
        /\ \A x \in Clients \ {c} : CallOf(x)' = CallOf(x)
        /\ CallOf(c).state \in {"performed", "lost"} /\ CallOf(c)' = LostCall
    BY <1>1, <1>13, <2>1, SigpipeDoes
  <2>3. UNCHANGED <<files, place>> /\ alive /\ alive' = FALSE
    BY <1>13, <2>2 DEF Sigpipe, alive, AliveInv, ServerGone, DeadInv
  <2>4. calls' = [calls EXCEPT ![c] = LostCall] /\ calls[c].state \in {"performed", "lost"}
    BY <2>2
  <2>5. Abstract!End(c)
    BY <2>3, <2>4 DEF alive, Abstract!End, Abstract!Lost, LostCall
  <2> QED BY <2>2, <2>5 DEF PlainInv, Abstract!Next
<1>9. ASSUME NEW c \in Clients, ClientStep(c) \/ UserStep(c)
      PROVE  PlainInv' /\ [Abstract!Next]_(Abstract!vars)
  <2>1. \/ Connect(c) \/ Leave(c) \/ Kill(c) \/ ReadSize(c) \/ ReadLine(c)
        \/ \E cmd \in Commands : Send(c, cmd)
    BY <1>9, NeverRead DEF ClientStep, UserStep
  <2>2. UNCHANGED <<files, place, server>>
    BY <2>1 DEF Connect, Leave, Kill, ReadSize, ReadLine, Send
  <2>3. ASSUME NEW x \in Clients \ {c} PROVE Phase(x)' /\ CallOf(x)' = CallOf(x)
    <3>1. /\ client'[x] = client[x] /\ up'[x] = up[x] /\ down'[x] = down[x]
          /\ sock'[x] = sock[x]
      BY <2>1 DEF Connect, Leave, Kill, Ends, ReadSize, ReadLine, Send, AliveInv, ShapeInv
    <3>2. ~ServerGone /\ ~ServerGone'
      BY <2>2 DEF AliveInv, ServerGone
    <3> QED BY <2>2, <3>1, <3>2, Bystander DEF AliveInv, Serving
  <2>4. Rest
    <3>1. client'[c].pc # "start"
      <4>1. client \in [Clients -> ClientType]
        BY DEF AliveInv, ShapeInv
      <4>2. ASSUME Connect(c) \/ Leave(c) \/ Kill(c) \/ ReadSize(c) \/ ReadLine(c)
            PROVE  client'[c].pc # "start"
        BY <4>1, <4>2 DEF Connect, Leave, Kill, Ends, ReadSize, ReadLine, ClientType
      <4>3. ASSUME NEW cmd \in Commands, Send(c, cmd) PROVE client'[c].pc # "start"
        BY <4>1, <4>3 DEF Send, ClientType
      <4> QED BY <2>1, <4>2, <4>3
    <3>2. \A x \in Clients : client[x].pc # "start" => client'[x].pc # "start"
      <4>1. \A x \in Clients \ {c} : client'[x] = client[x]
        BY <2>1 DEF Connect, Leave, Kill, Ends, ReadSize, ReadLine, Send, AliveInv, ShapeInv
      <4> QED BY <3>1, <4>1
    <3>3. backlog \in Seq(Clients)
      BY DEF AliveInv, ShapeInv
    <3>4. CASE Connect(c)
      <4>1. backlog' = Append(backlog, c)
        BY <3>4 DEF Connect
      <4>2. ASSUME NEW i \in 1 .. Len(backlog') PROVE client'[backlog'[i]].pc # "start"
        <5>1. \/ backlog'[i] = c
              \/ i \in 1 .. Len(backlog) /\ backlog'[i] = backlog[i] /\ backlog[i] \in Clients
          BY <3>3, <4>1
        <5> QED BY <3>1, <3>2, <5>1 DEF AliveInv
      <4> QED BY <2>2, <4>2 DEF AliveInv
    <3>5. CASE ~Connect(c)
      <4>1. backlog' = backlog
        BY <2>1, <3>5 DEF Leave, Kill, ReadSize, ReadLine, Send
      <4>2. ASSUME NEW i \in 1 .. Len(backlog') PROVE client'[backlog'[i]].pc # "start"
        <5>1. i \in 1 .. Len(backlog) /\ backlog'[i] = backlog[i] /\ backlog[i] \in Clients
          BY <3>3, <4>1
        <5> QED BY <3>2, <5>1 DEF AliveInv
      <4> QED BY <2>2, <4>2 DEF AliveInv
    <3> QED BY <3>4, <3>5
  <2> HIDE DEF Rest
  <2>5. CASE Connect(c) \/ Leave(c) \/ ReadSize(c)
    <3>1. Phase(c)' /\ CallOf(c)' = CallOf(c)
      BY <2>5, ConnectDoes, LeaveDoes, ReadSizeDoes
    <3>2. Quietly /\ \A x \in Clients : Phase(x)'
      BY <2>2, <2>3, <3>1
    <3> QED BY <1>2, <1>3, <2>4, <3>2
  <2>8. CASE Kill(c)
    <3>1. PlainInv' /\ alive' = alive
      BY <1>2, <2>3, <2>4, <2>8, KillDoes
    <3>2. CASE CallOf(c)' = CallOf(c)
      <4>1. Quietly
        BY <2>2, <2>3, <3>2
      <4> QED BY <1>3, <3>1, <4>1
    <3>3. CASE CallOf(c).state = "performed" /\ CallOf(c)' = LostCall
      BY <1>11, <2>2, <2>3, <3>1, <3>3
    <3> QED BY <2>8, <3>2, <3>3, KillDoes
  <2>6. ASSUME NEW cmd \in Commands, Send(c, cmd)
        PROVE  PlainInv' /\ [Abstract!Next]_(Abstract!vars)
    <3>1. /\ Phase(c)' /\ CallOf(c).state \in {"none", "answered", "failed"}
          /\ CallOf(c)' = [state |-> "asked", cmd |-> cmd]
      BY <2>6, SendDoes
    <3>2. PlainInv' /\ alive' = alive
      BY <1>2, <2>3, <2>4, <3>1
    <3>3. calls' = [calls EXCEPT ![c] = [state |-> "asked", cmd |-> cmd]]
      BY <2>3, <3>1
    <3>4. calls[c].state \in {"none", "answered", "failed"}
      BY <3>1
    <3>5. Abstract!Ask(c, cmd)
      BY <2>2, <3>2, <3>3, <3>4 DEF alive, Abstract!Ask, Abstract!Asked
    <3> QED BY <3>2, <3>5 DEF Abstract!Next
  <2>7. CASE ReadLine(c)
    <3>1. PICK v : /\ CallOf(c) = [state |-> "performed", verdict |-> v]
                   /\ CallOf(c)' = [state |-> "answered", verdict |-> v]
      BY <2>7, ReadLineDoes
    <3>2. PlainInv' /\ alive' = alive
      BY <1>2, <2>3, <2>4, <2>7, ReadLineDoes
    <3>3. calls' = [calls EXCEPT ![c] = [state |-> "answered", verdict |-> v]]
      BY <2>3, <3>1
    <3>4. calls[c] = [state |-> "performed", verdict |-> v]
      BY <3>1
    <3>5. Abstract!Answer(c)
      <4>1. calls[c].state = "performed" /\ calls[c].verdict = v
        BY <3>4
      <4>2. calls' = [calls EXCEPT ![c] = Abstract!Answered(calls[c].verdict)]
        BY <3>3, <4>1 DEF Abstract!Answered
      <4> QED BY <2>2, <3>2, <4>1, <4>2, Zenon DEF alive, Abstract!Answer
    <3> QED BY <3>2, <3>5 DEF Abstract!Next
  <2> QED BY <2>1, <2>5, <2>6, <2>7, <2>8
<1>10. CASE UNCHANGED vars
  <2>1. UNCHANGED <<files, place, server, backlog, sock, up, down, client>>
    BY <1>10 DEF vars
  <2>4. ~ServerGone /\ ~ServerGone'
    BY <2>1 DEF AliveInv, ServerGone
  <2>2. Quietly /\ \A x \in Clients : Phase(x)'
    BY <2>1, <2>4, Bystander DEF AliveInv, Serving
  <2>3. Rest
    BY <1>4, <2>1 DEF AliveInv
  <2> QED BY <1>2, <1>3, <2>2, <2>3
<1> QED BY <1>5, <1>6, <1>7, <1>8, <1>9, <1>10, <1>12, <1>13, NeverTaken DEF Next, ServerStep

\* What happens when the server has ended: calls fail.
LEMMA DeadStep ==
  ASSUME PlainOnly, DeadInv, [Next]_vars
  PROVE  DeadInv' /\ [Abstract!Next]_(Abstract!vars)
<1> DEFINE calls == [x \in Clients |-> CallOf(x)]
           alive == ~ServerGone
<1>1. ShapeInv'
  BY ShapeStep DEF DeadInv
<1>2. ~ServerStep
  BY DEF DeadInv, ServerGone, ServerStep, Accept, ReadCommand, ListMissing, Disconnect, ReadFails,
         SendChunk, SendMarker, SendSize, SendLine, Sigpipe
<1>3. CASE UNCHANGED vars
  <2>1. UNCHANGED <<files, place, server, sock, up, down, client>>
    BY <1>3 DEF vars
  <2>2. DeadInv'
    BY <1>1, <2>1 DEF DeadInv, ServerGone, Orphaned, Shown
  <2>3. \A x \in Clients : CallOf(x)' = CallOf(x)
    BY <2>1 DEF CallOf, Waiting, AtWork, OnItsWay, ServerGone
  <2>4. UNCHANGED Abstract!vars
    BY <2>1, <2>3 DEF Abstract!vars, ServerGone
  <2> QED BY <2>2, <2>4
<1>4. ASSUME NEW c \in Clients, ClientStep(c) \/ UserStep(c)
      PROVE  DeadInv' /\ [Abstract!Next]_(Abstract!vars)
  <2>1. Orphaned(c) /\ ServerGone /\ client[c].sent \in Nat
    BY DEF DeadInv, ShapeInv, ClientType
  <2>2. \/ SendFails(c) \/ Leave(c) \/ Kill(c) \/ ReadNothing(c)
        \/ \E cmd \in Commands : Send(c, cmd)
    BY <1>4, <2>1 DEF ClientStep, UserStep, Orphaned, Connect, ReadFile, ReadSize, ReadGarbage,
                      ReadLine, Least
  <2>3. UNCHANGED <<files, place, server, down>>
    BY <2>2 DEF SendFails, Leave, Kill, ReadNothing, Send
  <2>4. client[c].pc # "lost" /\ ServerGone' /\ alive' = alive
    BY <2>1, <2>2, <2>3 DEF SendFails, Leave, Kill, ReadNothing, Send, ServerGone
  <2> HIDE DEF alive
  <2>5. ASSUME NEW x \in Clients \ {c} PROVE Orphaned(x)' /\ CallOf(x)' = CallOf(x)
    <3>1. client'[x] = client[x] /\ up'[x] = up[x] /\ sock'[x] = sock[x]
      BY <2>2 DEF SendFails, Leave, Kill, Ends, ReadNothing, Send, DeadInv, ShapeInv
    <3>2. Orphaned(x)'
      BY <2>3, <3>1 DEF DeadInv, Orphaned, Shown
    <3> QED BY <2>3, <3>1, <3>2 DEF CallOf, Waiting, AtWork, OnItsWay, ServerGone
  <2>6. ASSUME Orphaned(c)' PROVE DeadInv'
    <3>1. server'.peer = server.peer /\ server.peer \in Clients /\ server.peer # c
      BY <2>3, <2>4 DEF DeadInv, ShapeInv, ServerGone
    <3>2. client'[server.peer].pc = "lost"
      BY <2>2, <3>1 DEF SendFails, Leave, Kill, Ends, ReadNothing, Send, DeadInv, ShapeInv
    <3> QED BY <1>1, <2>4, <2>5, <2>6, <3>1, <3>2 DEF DeadInv
  <2>7. CASE SendFails(c) \/ Leave(c)
    <3>1. /\ client[c].pc = "prompt" /\ client'[c].pc = "out"
          /\ client'[c].sent = client[c].sent /\ client'[c].shown = client[c].shown
      BY <2>7 DEF SendFails, Leave, Ends, DeadInv, ShapeInv, ClientType
    <3>2. Orphaned(c)'
      BY <3>1 DEF Orphaned
    <3>3. CallOf(c)' = CallOf(c)
      BY <3>1 DEF CallOf, Waiting
    <3>4. calls' = calls
      BY <2>5, <3>3
    <3>5. UNCHANGED Abstract!vars
      BY <2>3, <2>4, <3>4 DEF alive, Abstract!vars
    <3> QED BY <2>6, <3>2, <3>5
  <2>8. CASE Kill(c) \/ ReadNothing(c)
    <3>1. /\ client[c].pc = "size" /\ client[c].sent > 0 /\ sock[c] \in {"gone", "broken"}
          /\ down[c] = <<>>
      BY <2>1, <2>8 DEF Orphaned, Kill, ReadNothing
    <3>2. CallOf(c) = [state |-> "asked", cmd |-> client[c].cmd]
      BY <2>1, <3>1 DEF CallOf, Waiting
    <3>3. CASE Kill(c)
      <4>1. /\ client'[c].pc = "lost" /\ client'[c].sent = client[c].sent
            /\ client'[c].cmd = client[c].cmd /\ up' = up
        BY <3>3 DEF Kill, Ends, DeadInv, ShapeInv, ClientType
      <4>2. Orphaned(c)'
        BY <4>1 DEF Orphaned
      <4>3. ~AtWork(c)'
        BY <2>4 DEF AtWork, ServerGone
      <4>4. CASE up[c] # <<>>
        <5>1. CallOf(c)' = CallOf(c)
          BY <2>1, <3>1, <3>2, <4>1, <4>4 DEF CallOf
        <5>2. calls' = calls
          BY <2>5, <5>1
        <5>3. UNCHANGED Abstract!vars
          BY <2>3, <2>4, <5>2 DEF alive, Abstract!vars
        <5> QED BY <2>6, <4>2, <5>3
      <4>5. CASE up[c] = <<>>
        <5>1. CallOf(c)' = LostCall
          <6>1. client'[c].sent # 0 /\ up'[c] = <<>>
            BY <2>1, <3>1, <4>1, <4>5
          <6> QED BY <4>1, <4>3, <6>1 DEF CallOf
        <5>2. calls' = [calls EXCEPT ![c] = LostCall]
          BY <2>5, <5>1
        <5>4. calls[c].state = "asked"
          BY <3>2
        <5>3. Abstract!Lose(c)
          BY <2>3, <2>4, <5>2, <5>4 DEF alive, Abstract!Lose, Abstract!Lost, LostCall
        <5> QED BY <2>6, <4>2, <5>3 DEF Abstract!Next
      <4> QED BY <4>4, <4>5
    <3>4. CASE ReadNothing(c)
      <4>1. /\ client'[c].pc = "prompt" /\ client'[c].sent = client[c].sent
            /\ client'[c].shown = <<>> /\ sock' = sock
        BY <3>1, <3>4 DEF ReadNothing, DeadInv, ShapeInv, ClientType
      <4>2. Orphaned(c)'
        BY <2>3, <3>1, <4>1 DEF Orphaned
      <4>3. CallOf(c)' = FailedCall
        BY <2>1, <3>1, <4>1 DEF CallOf, Waiting
      <4>4. calls' = [calls EXCEPT ![c] = FailedCall]
        BY <2>5, <4>3
      <4>7. calls[c].state = "asked"
        BY <3>2
      <4>5. ~alive
        BY <2>1 DEF alive
      <4>6. Abstract!Fail(c)
        BY <2>3, <2>4, <4>4, <4>5, <4>7 DEF alive, Abstract!Fail, Abstract!Failed, FailedCall
      <4> QED BY <2>6, <4>2, <4>6 DEF Abstract!Next
    <3> QED BY <2>8, <3>3, <3>4
  <2>9. ASSUME NEW cmd \in Commands, Send(c, cmd)
        PROVE  DeadInv' /\ [Abstract!Next]_(Abstract!vars)
    <3>1. client[c].pc = "prompt" /\ sock[c] = "gone" /\ down[c] = <<>>
      BY <2>1, <2>9 DEF Send, Orphaned
    <3>2. /\ client'[c].pc = "size" /\ client'[c].sent = client[c].sent + 1 /\ client'[c].cmd = cmd
          /\ sock'[c] = "broken"
      BY <2>9, <3>1 DEF Send, PlainOnly, DeadInv, ShapeInv, ClientType
    <3>3. Orphaned(c)'
      BY <2>1, <2>3, <3>1, <3>2 DEF Orphaned
    <3>4. CallOf(c).state \in {"none", "answered", "failed"}
      BY <3>1 DEF CallOf, Waiting, NoCall, FailedCall
    <3>5. CallOf(c)' = [state |-> "asked", cmd |-> cmd]
      BY <2>1, <2>4, <3>2 DEF CallOf, Waiting
    <3>6. calls' = [calls EXCEPT ![c] = [state |-> "asked", cmd |-> cmd]]
          /\ calls[c].state \in {"none", "answered", "failed"}
      BY <2>5, <3>4, <3>5
    <3>7. Abstract!Ask(c, cmd)
      BY <2>3, <2>4, <3>6 DEF alive, Abstract!Ask, Abstract!Asked
    <3> QED BY <2>6, <3>3, <3>7 DEF Abstract!Next
  <2> QED BY <2>2, <2>7, <2>8, <2>9
<1> QED BY <1>2, <1>3, <1>4 DEF Next

\* Every step keeps the invariant and is a step of the abstract specification.
LEMMA PlainStep ==
  ASSUME PlainOnly, PlainInv, [Next]_vars
  PROVE  PlainInv' /\ [Abstract!Next]_(Abstract!vars)
  BY AliveStep, DeadStep DEF PlainInv

\* Nothing has been asked at the start.
LEMMA PlainInit == Init => PlainInv /\ Abstract!Init
<1> SUFFICES ASSUME Init PROVE PlainInv /\ Abstract!Init
  OBVIOUS
<1>1. ShapeInv
  BY InvInit DEF Inv
<1>2. ASSUME NEW c \in Clients PROVE Phase(c) /\ CallOf(c) = NoCall
  <2>1. client[c].pc = "start" /\ client[c].sent = 0
    BY DEF Init
  <2>2. Phase(c)
    BY <2>1 DEF Init, Phase, Quiet, Serving
  <2>3. CallOf(c) = NoCall
    BY <2>1 DEF CallOf
  <2> QED BY <2>2, <2>3
<1>3. server.pc = "accept" /\ backlog = <<>>
  BY DEF Init
<1>4. PlainInv
  BY <1>1, <1>2, <1>3 DEF PlainInv, AliveInv
<1>5. Abstract!Init
  <2>1. (~ServerGone) = TRUE
    BY <1>3 DEF ServerGone
  <2> QED BY <1>2, <2>1 DEF Init, Abstract!Init, Abstract!None, NoCall, Abstract!Kinds, Kinds
<1> QED BY <1>4, <1>5

\* Over the commands that send no file, Lab4's client shows the whole reply to the
\* command its user typed (client.c 153-157), or nothing once the server has ended,
\* for any number of clients and wherever clients are killed.
THEOREM RepliesAreTheRightOnes == ASSUME PlainOnly PROVE Spec => []RepliesMatch
<1>1. PlainInv /\ [Next]_vars => PlainInv'
  BY PlainStep
<1>2. PlainInv => RepliesMatch
  <2>1. SUFFICES ASSUME PlainInv, NEW c \in Clients, client[c].pc = "prompt", client[c].sent > 0
                 PROVE  \/ \E verdict \in Verdicts : client[c].shown = Line(client[c].sent, verdict)
                        \/ ServerGone /\ client[c].shown = <<>>
    BY DEF RepliesMatch, Verdicts
  <2>2. Shown(c) \/ (ServerGone /\ client[c].shown = <<>>)
    <3>1. CASE AliveInv
      BY <2>1, <3>1 DEF AliveInv, Phase, Abandoned
    <3>2. CASE DeadInv
      BY <2>1, <3>2 DEF DeadInv, Orphaned
    <3> QED BY <2>1, <3>1, <3>2 DEF PlainInv
  <2>3. client[c].sent # 0
    BY <2>1
  <2> QED BY <2>2, <2>3 DEF Shown
<1> QED BY PlainInit, <1>1, <1>2, PTL DEF Spec

\* Over the same commands nothing but the loss of the client it is serving, in the
\* middle of a call, ends the server (server.c 257-273).
THEOREM OnlyALostClientEndsServer == ASSUME PlainOnly PROVE Spec => []OnlyLossEndsServer
<1>1. PlainInv /\ [Next]_vars => PlainInv'
  BY PlainStep
<1>2. PlainInv => OnlyLossEndsServer
  BY DEF PlainInv, AliveInv, DeadInv, ServerGone, OnlyLossEndsServer
<1> QED BY PlainInit, <1>1, <1>2, PTL DEF Spec

\* Over the same commands client and server never wait for each other
\* (client.c 132, 143, 153 against server.c 257).
THEOREM NeverStuck == ASSUME PlainOnly PROVE Spec => []NotStuck
<1>1. PlainInv /\ [Next]_vars => PlainInv'
  BY PlainStep
<1>2. PlainInv => NotStuck
  <2>1. SUFFICES ASSUME PlainInv, NEW c \in Clients, Waiting(c), down[c] = <<>>, up[c] = <<>>,
                        server.pc = "read", server.peer = c
                 PROVE  FALSE
    BY DEF NotStuck
  <2>0. AliveInv
    BY <2>1 DEF PlainInv, DeadInv, ServerGone
  <2>2. PICK sent \in Nat : sent = client[c].sent
    BY <2>0 DEF AliveInv, ShapeInv, ClientType
  <2>3. ~Asked(c)
    BY <2>1 DEF Asked
  <2>4. \E v \in Verdicts : <<>> \in {Size(sent) \o Line(sent, v), <<>> \o Line(sent, v), Size(sent)}
    BY <2>0, <2>1, <2>2, <2>3
       DEF AliveInv, Phase, Abandoned, Waiting, SizeStates, LineStates, Answering, Answered
  <2> QED BY <2>4, StreamFacts
<1> QED BY PlainInit, <1>1, <1>2, PTL DEF Spec

\* Over the same commands client and server implement RemoteCommands: every
\* command is performed once, at one moment between question and answer.
THEOREM FileServerImplementsRemoteCommands ==
  ASSUME PlainOnly PROVE Spec => ImplementsRemoteCommands
<1>1. PlainInv /\ [Next]_vars => PlainInv' /\ [Abstract!Next]_(Abstract!vars)
  BY PlainStep
<1> QED BY PlainInit, <1>1, PTL DEF Spec, ImplementsRemoteCommands, Abstract!Spec
=============================================================================
