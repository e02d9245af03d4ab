--------------------------- MODULE ShellProperties ---------------------------
(***************************************************************************)
(* What kcsh promises of the processes it starts.                          *)
(***************************************************************************)
EXTENDS Shell

TerminalReaders ==
  {p \in Procs : proc[p].in = Tty /\ proc[p].pc \in {"read", "copy"}}

\* Whoever types talks to one process: while a program or a shell that a
\* failed execve() left behind reads the terminal, the shells above it are in
\* the loop of run() that waits until they have no child at all.
OneTerminalReader == Cardinality(TerminalReaders) <= 1

\* A pipeline of programs that exist, without redirections.
IsPlain(l) ==
  \A i \in DOMAIN l : l[i].io = "" /\ l[i].prog = IF i = 1 THEN "make" ELSE "copy"
Complete(j) == \A p \in Procs : Alive(p) => proc[p].job # j

\* What the first program of a pipeline writes comes out of the last one, each
\* unit once and in order, and when all of its processes have ended nothing is
\* missing: nobody has seen an end of file or a broken pipe too early, in
\* whatever order parent and child close, duplicate and execute.
PipelineDelivers ==
  \A j \in 1 .. Len(typed) :
    LET all == [n \in 1 .. UNITS |-> n] IN
    /\ IsPrefix(shown[j], all)
    /\ IsPlain(typed[j]) /\ Complete(j) /\ j \notin excused => shown[j] = all

\* Again and again somebody reads the terminal, unless the first shell has
\* been told to exit: no shell waits for children that cannot end.
PromptReturns == []<>(TerminalReaders # {} \/ ~Alive(Main))

\* A line whose programs exist and do not read the terminal comes to an end,
\* the stages for which run() does not wait as well: each reader has closed its
\* copy of the write end, so it meets the end of file.
EndsByItself(l) ==
  /\ \A i \in DOMAIN l : l[i].prog # "missing"
  /\ l[1].prog # "copy"
PipelinesEnd ==
  \A j \in 1 .. MaxLines :
    (Len(typed) >= j /\ EndsByItself(typed[j])) ~> Complete(j)
=============================================================================
