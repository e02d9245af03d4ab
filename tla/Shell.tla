-------------------------------- MODULE Shell --------------------------------
(***************************************************************************)
(* Lab3: the shell kcsh, the processes it forks, and the pipes between     *)
(* them.  A command line is a sequence of stages; a stage is a program and *)
(* its redirection.  What programs do with their descriptors is external:  *)
(* "make" writes UNITS units of data, "copy" copies its input to its       *)
(* output, "quit" ends without reading, and "missing" cannot be executed.  *)
(*                                                                         *)
(* stdout is line buffered from the first prompt on, so the messages that  *)
(* a process prints go wherever its descriptor 1 leads: into the pipe, too.*)
(* All messages between two system calls are one unit here, a note.        *)
(*                                                                         *)
(* Not typed: more than three pipes (PIPE has four entries), a missing     *)
(* program that does not read the terminal, an empty stage, two            *)
(* redirections of one stage.  pipe() does not fail: of the whole machine  *)
(* it would take all descriptors.                                          *)
(***************************************************************************)
EXTENDS Naturals, Sequences, FiniteSets, FiniteSetsExt, SequencesExt

CONSTANTS NPROC,     \* bound: processes
          CAP,       \* bound: units a pipe holds
          UNITS,     \* units of data that a program makes
          MaxLines,  \* bound: command lines typed
          Lines      \* the command lines that are typed

Programs == {"make", "copy", "quit", "missing"}
Stage == [prog : Programs, io : {"", "<", ">", ">>"}]

ASSUME ShellAssumption ==
  /\ {NPROC, CAP, UNITS, MaxLines} \subseteq Nat \ {0}
  /\ \A l \in Lines :
       /\ l \in Seq(Stage) /\ Len(l) \in 1 .. 4
       /\ \A i \in DOMAIN l : l[i].prog = "missing" => i = 1
       /\ l[1].prog = "missing" => \A i \in DOMAIN l : l[i].io = ""

Procs == 1 .. NPROC
Main == 1
Init0 == 0                    \* the process that adopts orphans
Pipes == 1 .. 3 * NPROC

\* Where a descriptor leads.
Tty == <<0, "tty">>
File == <<0, "file">>
Closed == <<0, "closed">>
R(i) == <<i, "r">>
W(i) == <<i, "w">>

Free == [pc |-> "free", line |-> <<>>, io |-> "", in |-> Closed, out |-> Closed,
         pd |-> {}, parent |-> Init0, job |-> 0, left |-> 0]

VARIABLES proc,     \* proc[p]: what process p does, its descriptors, its parent
          pipe,     \* pipe[i]: the units in pipe i
          typed,    \* the lines typed so far; a line's number is its job
          shown,    \* shown[j]: the data of job j that the terminal has shown
          excused,  \* jobs of which the terminal need not show all: a fork has
                    \* failed, or the shell itself writes into a pipe
          layout    \* which line the compiler puts in front of the other on the
                    \* stack of handlePipes(): the "head" or the "tail"

vars == <<proc, pipe, typed, shown, excused, layout>>

Alive(p) == proc[p].pc \notin {"free", "zombie"}
Holds(p) == proc[p].pd \union {proc[p].in, proc[p].out}
Readers(i) == {p \in Procs : R(i) \in Holds(p)}
Writers(i) == {p \in Procs : W(i) \in Holds(p)}
Slots == {p \in Procs \ {Main} : proc[p].pc = "free"}

-----------------------------------------------------------------------------
(***************************************************************************)
(* The kernel's part: the end of a process, and writing.                   *)
(***************************************************************************)

\* Process p ends: its children are orphans, and it stays a zombie until its
\* parent waits for it.
Dead(p) ==
  [q \in Procs |->
     IF q = p THEN IF proc[p].parent = Init0 THEN Free
                   ELSE [Free EXCEPT !.pc = "zombie", !.parent = proc[p].parent]
     ELSE IF proc[q].pc # "free" /\ proc[q].parent = p
     THEN IF proc[q].pc = "zombie" THEN Free ELSE [proc[q] EXCEPT !.parent = Init0]
     ELSE proc[q]]

Ends(p) == proc' = Dead(p) /\ UNCHANGED <<pipe, typed, shown, excused, layout>>

Note == [job |-> 0, n |-> 0]

\* Process p writes u when the pipes are as in b, and then is as in r.  SIGPIPE
\* ends it when there is no reader, and a program ends when its output is
\* closed; a writer waits while the pipe is full.
WriteFrom(b, p, u, r) ==
  LET i == proc[p].out[1]
      gone == proc[p].out = Closed \/ (i \in Pipes /\ Readers(i) = {})
      piped == i \in Pipes /\ ~gone
  IN  /\ piped => Len(b[i]) < CAP
      /\ proc' = IF gone THEN Dead(p) ELSE [proc EXCEPT ![p] = r]
      /\ pipe' = IF piped THEN [b EXCEPT ![i] = Append(@, u)] ELSE b
      /\ shown' = IF proc[p].out = Tty /\ u # Note
                  THEN [shown EXCEPT ![u.job] = Append(@, u.n)] ELSE shown
      /\ UNCHANGED <<typed, excused, layout>>

Write(p, u, r) == WriteFrom(pipe, p, u, r)

-----------------------------------------------------------------------------
(***************************************************************************)
(* main(), getInput(), run()                                               *)
(***************************************************************************)

\* The prompt.
GetInput(p) == proc[p].pc = "greet" /\ Write(p, Note, [proc[p] EXCEPT !.pc = "read"])

\* run() with a line that is neither exit nor cd: fork, and the parent waits.
\* When fork() fails the shell goes on.
Run(p, l) ==
  LET j == Len(typed) + 1 IN
  /\ proc[p].pc = "read" /\ Len(typed) < MaxLines
  /\ typed' = Append(typed, l)
  /\ IF Slots = {}
     THEN proc' = [proc EXCEPT ![p].pc = "greet"]
     ELSE proc' = [proc EXCEPT
            ![p].pc = "wait",
            ![Min(Slots)] = [Free EXCEPT !.pc = IF Len(l) > 1 THEN "tell" ELSE "exe",
                               !.line = l, !.io = l[1].io, !.in = proc[p].in,
                               !.out = proc[p].out, !.parent = p, !.job = j]]
  /\ excused' = IF Slots = {} \/ proc[p].out # Tty THEN excused \union {j} ELSE excused
  /\ UNCHANGED <<pipe, shown, layout>>

\* cd(): this process's directory, which nothing here depends on.
Cd(p) ==
  /\ proc[p].pc = "read"
  /\ proc' = [proc EXCEPT ![p].pc = "greet"]
  /\ UNCHANGED <<pipe, typed, shown, excused, layout>>

\* exit, and an empty line, of which simpleCommands() compares a null pointer.
Exit(p) == proc[p].pc = "read" /\ Ends(p)

Children(p) == {q \in Procs : proc[q].pc # "free" /\ proc[q].parent = p}

\* Faulty variant: one wait() instead of the loop.
WaitedOnce(p, q) == [proc EXCEPT ![q] = Free, ![p].pc = "greet"]
\* One turn of the loop: child q is a zombie.
Waited(p, q) == [proc EXCEPT ![q] = Free]

\* The loop ends when there is no child left, whoever they were.
Wait(p) ==
  /\ proc[p].pc = "wait"
  /\ \/ \E q \in Children(p) : proc[q].pc = "zombie" /\ proc' = Waited(p, q)
     \/ Children(p) = {} /\ proc' = [proc EXCEPT ![p].pc = "greet"]
  /\ UNCHANGED <<pipe, typed, shown, excused, layout>>

-----------------------------------------------------------------------------
(***************************************************************************)
(* handlePipes(), handleIO(), linuxExe()                                   *)
(***************************************************************************)

\* The redirection that handleIO() finds in a line: memchr() looks at LINE
\* bytes of an array of DIR and so at the array behind it as well, strstr()
\* does not; others are the redirections there.
Redirection(own, others) ==
  CASE own = "<" \/ "<" \in others -> "<"
    [] own = ">>" -> ">>"
    [] own = ">" \/ others \intersect {">", ">>"} # {} -> ">"
    [] OTHER -> ""

\* What is printed before pipe(), by the child of run() and by each reader of a
\* line with more pipes.
HasPipe(p) == proc[p].pc = "tell" /\ Write(p, Note, [proc[p] EXCEPT !.pc = "pipe"])

\* pipe() and fork(): both sides have both ends.  Without a child the process
\* still goes on as the writer.
HandlePipes(p) ==
  LET l == proc[p].line
      i == Min({k \in Pipes : Readers(k) \union Writers(k) = {}})
      rest == {l[k].io : k \in 2 .. Len(l)}
      both == {R(i), W(i)}
  IN
  /\ proc[p].pc = "pipe"
  /\ pipe' = [pipe EXCEPT ![i] = <<>>]
  /\ LET writer == [proc[p] EXCEPT !.pc = "writer", !.pd = both,
           !.io = Redirection(l[1].io, IF layout = "head" THEN rest ELSE {})]
         reader == [proc[p] EXCEPT !.pc = "reader", !.pd = both, !.parent = p,
           !.line = Tail(l),
           !.io = Redirection(l[2].io, IF layout = "tail" THEN {l[1].io} ELSE {})]
     IN  IF Slots = {}
         THEN /\ proc' = [proc EXCEPT ![p] = writer]
              /\ excused' = excused \union {proc[p].job}
         ELSE /\ proc' = [proc EXCEPT ![p] = writer, ![Min(Slots)] = reader]
              /\ UNCHANGED excused
  /\ UNCHANGED <<typed, shown, layout>>

PipeOf(p) == (CHOOSE e \in proc[p].pd : TRUE)[1]

\* Faulty variant: pd[READ] stays open.
WriterKeepsRead(p) ==
  [proc[p] EXCEPT !.pc = "exe", !.out = W(PipeOf(p)), !.pd = {R(PipeOf(p))}]
WriterSide(p) == [proc[p] EXCEPT !.pc = "exe", !.out = W(PipeOf(p)), !.pd = {}]

\* Faulty variants: pd[WRITE] stays open; pd[READ] is closed before dup().
ReaderKeepsWrite(p) ==
  [proc[p] EXCEPT !.pc = IF Len(proc[p].line) > 1 THEN "tell" ELSE "exe",
                  !.in = R(PipeOf(p)), !.pd = {W(PipeOf(p))}]
ReaderClosesFirst(p) ==
  [proc[p] EXCEPT !.pc = IF Len(proc[p].line) > 1 THEN "tell" ELSE "exe",
                  !.in = Closed, !.pd = {}]
\* The reader of a line with more pipes goes on with the next.
ReaderSide(p) ==
  [proc[p] EXCEPT !.pc = IF Len(proc[p].line) > 1 THEN "tell" ELSE "exe",
                  !.in = R(PipeOf(p)), !.pd = {}]

Rewire(p) ==
  /\ proc[p].pc \in {"writer", "reader"}
  /\ proc' = [proc EXCEPT ![p] = IF @.pc = "writer" THEN WriterSide(p) ELSE ReaderSide(p)]
  /\ UNCHANGED <<pipe, typed, shown, excused, layout>>

\* linuxExe() tells what it does, on descriptor 1 as it is by now.
LinuxExe(p) == proc[p].pc = "exe" /\ Write(p, Note, [proc[p] EXCEPT !.pc = "io"])

\* handleIO() closes the descriptor and opens the file, which fails where the
\* file must be there already.
HandleIO(r) ==
  CASE r.io = "<"  -> {[r EXCEPT !.in = File], [r EXCEPT !.in = Closed]}
    [] r.io = ">>" -> {[r EXCEPT !.out = File], [r EXCEPT !.out = Closed]}
    [] r.io = ">"  -> {[r EXCEPT !.out = File]}
    [] OTHER       -> {r}

\* execve().  When it fails the process returns into the loop of main().
Execve(p) ==
  /\ proc[p].pc = "io"
  /\ \E r \in HandleIO(proc[p]) :
       LET prog == proc[p].line[1].prog IN
       proc' = [proc EXCEPT ![p] =
                  [r EXCEPT !.pc = IF prog = "missing" THEN "greet" ELSE prog,
                            !.line = <<>>, !.io = "", !.left = UNITS]]
  /\ UNCHANGED <<pipe, typed, shown, excused, layout>>

-----------------------------------------------------------------------------
(***************************************************************************)
(* The programs.                                                           *)
(***************************************************************************)

\* "make", and "copy" of a file.
Produce(p) ==
  /\ proc[p].pc = "make" \/ (proc[p].pc = "copy" /\ proc[p].in = File)
  /\ IF proc[p].left = 0 THEN Ends(p)
     ELSE Write(p, [job |-> proc[p].job, n |-> UNITS + 1 - proc[p].left],
                [proc[p] EXCEPT !.left = @ - 1])

\* "copy" of a pipe, to the end: the pipe is empty and has no writer.
Copy(p) ==
  LET i == proc[p].in[1] IN
  /\ proc[p].pc = "copy" /\ i \in Pipes
  /\ IF pipe[i] = <<>> THEN Writers(i) = {} /\ Ends(p)
     ELSE WriteFrom([pipe EXCEPT ![i] = Tail(@)], p, Head(pipe[i]), proc[p])

\* "quit", and "copy" without an input.
Leave(p) ==
  /\ proc[p].pc = "quit" \/ (proc[p].pc = "copy" /\ proc[p].in = Closed)
  /\ Ends(p)

\* "copy" of the terminal ends when the user says so.
EndOfInput(p) == proc[p].pc = "copy" /\ proc[p].in = Tty /\ Ends(p)

-----------------------------------------------------------------------------
Init ==
  /\ proc = [p \in Procs |-> IF p = Main
                             THEN [Free EXCEPT !.pc = "greet", !.in = Tty, !.out = Tty]
                             ELSE Free]
  /\ pipe = [i \in Pipes |-> <<>>]
  /\ typed = <<>> /\ shown = [j \in 1 .. MaxLines |-> <<>>] /\ excused = {}
  /\ layout \in {"head", "tail"}

\* What processes do by themselves, and what the user at the terminal does.
Step(p) ==
  \/ GetInput(p) \/ Wait(p)
  \/ HasPipe(p) \/ HandlePipes(p) \/ Rewire(p) \/ LinuxExe(p) \/ Execve(p)
  \/ Produce(p) \/ Copy(p) \/ Leave(p)
User(p) ==
  \/ \E l \in Lines : Run(p, l)
  \/ Cd(p) \/ Exit(p) \/ EndOfInput(p)

Next == \E p \in Procs : Step(p) \/ User(p)

\* Every process runs on; the user need not do anything.
Spec == Init /\ [][Next]_vars /\ \A p \in Procs : WF_vars(Step(p))
=============================================================================
