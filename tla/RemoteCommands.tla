--------------------------- MODULE RemoteCommands ---------------------------
(***************************************************************************)
(* What the file server of Lab4 promises its clients: a command a client    *)
(* sends is performed at most once, at one moment between the question and  *)
(* the answer, and the answer is the verdict of that moment.  Only a call   *)
(* whose client is lost may end the server, and only then do calls fail.    *)
(***************************************************************************)
EXTENDS ServerFiles

CONSTANTS Clients, Commands

VARIABLES files, place,
          call,   \* each client's call: nothing asked yet, asked, performed,
                  \* answered, failed, or lost with its client
          alive   \* the server runs

vars == <<files, place, call, alive>>

None == [state |-> "none"]
Asked(cmd) == [state |-> "asked", cmd |-> cmd]
Performed(verdict) == [state |-> "performed", verdict |-> verdict]
Answered(verdict) == [state |-> "answered", verdict |-> verdict]
Failed == [state |-> "failed"]
Lost == [state |-> "lost"]

Init ==
    /\ files \in [Names -> Kinds]
    /\ place = Root
    /\ call = [c \in Clients |-> None]
    /\ alive = TRUE

Ask(c, cmd) ==
    /\ call[c].state \in {"none", "answered", "failed"}
    /\ call' = [call EXCEPT ![c] = Asked(cmd)]
    /\ UNCHANGED <<files, place, alive>>

Perform(c) ==
    /\ alive
    /\ call[c].state = "asked"
    /\ LET cmd == call[c].cmd IN
         /\ files' = FilesAfter(cmd, files, place)
         /\ place' = PlaceAfter(cmd, files, place)
         /\ call' = [call EXCEPT ![c] = Performed(Verdict(cmd, files, place))]
    /\ UNCHANGED alive

Answer(c) ==
    /\ call[c].state = "performed"
    /\ call' = [call EXCEPT ![c] = Answered(call[c].verdict)]
    /\ UNCHANGED <<files, place, alive>>

\* the client is lost, and its question or its answer with it
Lose(c) ==
    /\ call[c].state \in {"asked", "performed"}
    /\ call' = [call EXCEPT ![c] = Lost]
    /\ UNCHANGED <<files, place, alive>>

\* the server ends in the call of a client that is lost
End(c) ==
    /\ alive
    /\ call[c].state \in {"performed", "lost"}
    /\ call' = [call EXCEPT ![c] = Lost]
    /\ alive' = FALSE
    /\ UNCHANGED <<files, place>>

Fail(c) ==
    /\ ~alive
    /\ call[c].state = "asked"
    /\ call' = [call EXCEPT ![c] = Failed]
    /\ UNCHANGED <<files, place, alive>>

Next == \E c \in Clients :
    \/ Perform(c) \/ Answer(c) \/ Lose(c) \/ End(c) \/ Fail(c)
    \/ \E cmd \in Commands : Ask(c, cmd)

Spec == Init /\ [][Next]_vars
=============================================================================
