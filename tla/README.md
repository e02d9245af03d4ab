# TLA+ models of WSU_CptS_360

The repository holds eight independent C programs, one per laboratory of a
course in systems programming. This directory models all of them: specifications
in TLA+, model checked with TLC on small instances, with the main invariants
proved for every instance with TLAPS.

## 1. Inventory

| Part | State | Operations | Interaction | What makes it correct |
|---|---|---|---|---|
| **PreLab3** MT multitasking (`t.c`, `queue.c`, `wait.c`, `ts.s`) | `proc[NPROC]` with status, priority, event, parent/child/sibling links, saved stacks; `freeList`, `readyQueue`, `sleepList`; `running` | fork, switch, exit, jesus, sleep, wakeup, wait; `main`'s idle loop; scheduler | coroutines over one process table; sleep/wakeup by event, exit/wait by the address of the parent | one queue per PROC, scheduler never without a PROC, FIFO within a priority, wakeup exact, family links sound |
| **Lab5** mountroot (`Main.c`, `util.c`, `Commands.c`, `ls_l.c`) | `minode[NMINODE]` with reference counts, `root`, `running->cwd` | ls, cd, pwd, quit over getino, search, iget, iput | commands share the cache through reference counts | no inode twice in the cache, no slot recycled under a pointer, pwd names cwd, references given back |
| **Lab4** server and client (`server.c`, `client.c`, `linux_cmd.c`) | listen queue, one served connection, TCP streams, server cwd and files, client program counters | pwd, ls, cd, mkdir, rmdir, rm, cat, get, put, local commands, connect, exit | two kinds of processes over byte streams; connection loss, SIGPIPE | each reply goes to its command, nobody waits on nobody, the server outlives its clients, everyone is served |
| **Lab2** directory tree simulator (`Lab2.c`) | n-ary tree, `root`, `cwd`, `start`, two path strings | mkdir, rmdir, ls, cd, pwd, creat, rm, save, reload, quit | shell loop; reload runs the commands of a file | tree stays a tree, `start` never dangles, reload(save(t)) = t |
| **Lab3** shell kcsh (`Lab3.c`) | processes, descriptors, pipes | simple command, pipeline, redirection, cd, exit | fork, pipe, dup, execve, wait | one reader of the terminal, pipelines deliver all and end, the prompt returns |
| **PreLab4** threads (`Part1-3.c`) | matrix, `total`, mutex, clock | thread bodies, timer handler | shared memory, signals | no lost update, right totals, the clock lags by the signals it missed |
| **Lab6** showblock (`Main.c`, `Functions.c`) | ext2 image | path walk, block lists | reads the disk only | blocks listed are those of the file |
| **Lab1** partitions, myprintf | MBR chain in one shared buffer, numbers | list partitions, print numbers | none | the listing is that of the link list, numbers print as their numerals |

Hard behaviour: in PreLab3 the order in which several processes call the
kernel and the reuse of PROCs; in Lab5 long command sequences against reference
counts; in Lab4 the interleaving of reads and writes of a stream, and of exits
with writes; in Lab2 pointers and path strings that must follow each other, and
memory that comes back; in Lab3 which process holds which end of a pipe, and what
a failed execve leaves behind; in PreLab4 the order of threads and signals; in
Lab1 and Lab6 buffers that are read after they have changed. `PROJECT.json` lists each hazard at its line with the properties
that would catch it.

## 2. Modules

| Module | Content |
|---|---|
| `Multitask` | PreLab3: state, one action per command, kernel loops one iteration per step |
| `MultitaskProperties` | its invariants, action and liveness properties, and what README and comments claim |
| `MultitaskProofs` | inductive invariants and theorems |
| `NumberLemmas` | induction over a set of naturals, quotients and remainders, for all proofs |
| `DirectoryTree` | Lab5: the disk as a tree of named entries, path resolution |
| `WorkingDirectory` | abstract specification: one current directory; a cd that is typed goes where its own pathname leads |
| `MinodeCache` | Lab5: the cache and the commands, one iget or iput per step |
| `MinodeProperties`, `MinodeProofs` | its properties, the refinement of `WorkingDirectory`, theorems |
| `ServerFiles` | Lab4: what a command does to the server's files and directory |
| `RemoteCommands` | abstract specification: atomic calls |
| `FileTransfer` | Lab4: server, clients, listen queue, sockets and streams |
| `FileTransferProperties`, `FileTransferProofs` | its properties and the refinement of `RemoteCommands`; theorems |
| `Pathname` | Lab2: a typed pathname and what `dbname` makes of it |
| `FileTree` | abstract specification: a set of entries, a current directory, saved trees |
| `NameTree`, `NameTreeProperties` | Lab2: nodes, heap, commands; properties and the refinement of `FileTree` |
| `NameTreeProofs` | what its operators compute; the inductive invariant, theorems |
| `Shell`, `ShellProperties`, `ShellProofs` | Lab3: processes, descriptors, pipes; properties; theorems |
| `RowSums`, `MutexSums`, `WallClock` | PreLab4: one module per program |
| `Prelab4`, `Prelab4Proofs` | the three programs in the order of `mk`, their properties, theorems |
| `PartitionTable`, `NumberPrinting` | Lab1: the two programs |
| `ShowBlock` | Lab6, on the tree of `DirectoryTree` |
| `OneShot` | the three programs that take one input and end, and their reference definitions |
| `OneShotProofs` | what they print for every input: theorems |
| `MCMultitask`, `MCMinode`, `MCFileTransfer`, `MCNameTree`, `MCShell`, `MCOneShot` | instances for TLC |

Operators named as faulty variants or mutants, next to the definitions they vary,
are no part of a specification; each shows, put in place of its neighbour, that
a property can fail.

### PreLab3, `Multitask`

A PROC is its index; a queue linked by `next` is a sequence, which is faithful
because `QueueInv` (checked and proved) says no PROC is linked twice. `resume[p]`
is what the saved stack returns to: `main`, `body` or the middle of `kwait`. A
kernel call is one step, except `wakeup` and `do_jesus`, whose loops are steps of
their own (`WakeupStep`, `JesusStep`) so that their intermediate states are
checked. Child lists are chains of `sibling`; they can be cyclic, and
`PromptHangs` is the endless walk of `printChild` over such a list.
The address of a PROC that `kexit` and `kwait` use as an event is `Addr(p)`, in
the same number space as the events a user types, as in the code.

`body`'s test `cmd == NULL` (t.c 122) can never hold for an array, so an empty
line does nothing, although ReadMe.md 23 has it end the process.

### Lab5, `MinodeCache`

A slot holds an inode number and a count. A command is a path through `pc`:
`load` (iget in getino), `search`, `open` (iget in the command), `chdir`, `list`,
`pwd`. `iget` returning a null pointer leads to `crash`, the endless search of a
missing name to `hang`. A slot keeps its inode number at count 0, so that a later
`iget` finds it again, as in the code.

`GetName` returns a pointer into its own stack frame, and two string calls are made
before the name is copied. `FrameKept` says whether they leave the string there
alone, as in the distributed binary (`gcc -m32`, bound at load time); if it is
FALSE, as in a lazily bound build where the dynamic linker runs in between, the
name is any name. The iget and iput around one entry of a listing are one step:
the program has one process and nothing happens in between.

### Lab4, `FileTransfer`

The stream from server to client is a sequence of symbols: the int with the
length of a reply, the symbols of its text, of file data, and of `EOF_STR`. A
symbol carries the number of the command it belongs to and its place in what was
sent, which only the properties look at; the client sees characters (`Char`), and
`FILE` and `MARKER` are strings over one alphabet, so that text of a file can be
taken for the marker. A read takes what has
arrived up to its limit, so that messages coalesce and are cut exactly as the
interleaving of the two programs makes them. Commands travel as whole records:
both sides use `MAX` bytes for them. `EOF_STR` is recognised when a buffer starts
with it, terminating NUL included (`strcmp`), whatever follows; in the first round
of the loop the buffer behind what was read is uninitialised (`junk`).

The states of a connection follow Linux: closing with unread data resets it
(the peer's next call fails with ECONNRESET), the first write to a closed peer is
accepted, the next raises SIGPIPE, which neither program handles. A client leaves
at its prompt (`Leave`) or is killed at any point of a call (`Kill`). Kernel
behaviour is marked external in the map. Text read as an int is taken for a
length far beyond the stack, so the client ends (`ReadGarbage`).

### Lab2, `NameTree`

A node is a block of the heap with the fields of `struct node`; the list of
`Child` and `Sibling` is one sequence. Every turn of `main` sets `cwd = start` and
`cwPath = pathname`, so these two are locals of a command, computed by `LocateDir`
token by token; a command that fails leaves everything as it was. A freed block
keeps its fields but for the name, which `free` overwrites, and `malloc` may
return it while `start` still points to it. `GetPath` and `SaveTree` are recursive
functions whose argument counts the levels left to climb or to descend; `NoName`,
a string no name is, stands for the empty one. `save` and `quit` write lines,
`reload` runs one line per step on a new root, and leaves the prompt as it was.
`RemovesCurrent` says whether somebody removes the directory he is in, `LongText`
whether a saved listing is long enough to leave text where a new root has its
`Child`, which `initialize` does not clear, in the buffer that a save or a reload
has freed; both are off in the passing run. mkdir and creat without a pathname make
a node whose name is empty (`NoName`), and a line of a reload without one uses the
`dname` and `bname` that the line before it left (`LineNames`, `Left`, `Split`);
the pathnames of the passing run all have a name (`NamesGiven`). The copy of the
prompt into `root->Name` is left out: nothing reads the name of the root.

### Lab3, `Shell`

A process has a program counter, the ends its descriptors 0 and 1 lead to, and
the two ends in `pd` between `pipe` and the `close`s. `Run` is the fork of `run`,
`HasPipe` and `HandlePipes` the messages and then the pipe and fork of one level of
`handlePipes`, `Rewire` the closes
and dups of one side, `LinuxExe` the messages (which go wherever descriptor 1
leads, into the pipe too, because stdout is line buffered), `Execve` the
redirection and the exec; a failed exec leads back to the prompt in that process.
`Wait` is one turn of the loop that waits for every child. Kernel and programs are
external: a pipe holds `CAP` units, a write without a reader ends the writer, a
read of an empty pipe without a writer is the end of file; programs make data,
copy, leave at once or do not exist. `memchr` in `handleIO` looks at 100 bytes of a
50-byte array; whose redirection it finds there depends on which array the
compiler puts first, the variable `layout`, fixed in the initial state.

### PreLab4, `RowSums`, `MutexSums`, `WallClock`

The sum of a row is one step, since only its thread uses what it reads; lock,
read of the total, write after the sleep, and unlock are steps of their own.
Integers wrap at `WORD`. `Expire` is an expiry of the interval timer: SIGALRM
pending already means one signal less. `TimerHandler` is the whole handler.

### Lab1 and Lab6, `OneShot`

`PartitionTable` keeps the pending calls of the two recursive functions on a
stack, and one table in `BUF`: `Fetched` is what `getExtendedPartition` leaves
there, with the sector number cut to the reach of a 32-bit byte offset, and with
the old contents when the read is past the end of the disk. After the four entries
come zeros, as they do in the memory behind `BUF`. `NumberPrinting` scans the
format one turn of the loop per step; a `char*` is an address in `Memory`.
The numeral that a number should print as is the reference of `OneShot`, without
the prefixes that the comments announce; of 0 `%d` prints nothing and `%x` "0x" and a
new line, and the reference says so. A disk that cannot be opened leaves `BUF` zero
and is a disk with an empty table.

`ShowBlock` follows `main`. `groupDesc` points into a dead frame: with
`DescriptorKept` the `printf` before the second use of it leaves it alone, without
it any inode, or none, is taken for the root's. The root inode is in a second dead
frame, so that either it or an empty inode is found (built with gcc 12 for x86-64 it
is the empty one; the program is meant for 32 bits). `ShowDir` reads such an inode
too and may come to its end, hang or crash. A miss goes on in block 0 and hangs, a
path to a directory ends in `strcmp` of a null pointer, because `TokenizePath` counts
one name too many.

## 3. Runs

Bounds: `MaxRef`, `MaxCommands`, `NBLOCKS`, `MaxPrompt`, `NPROC`, `CAP`,
`MaxLines`, `MaxMerged`, `STACK` and the sizes of the constants are the only ones;
PreLab3 is finite by itself.

| Run | Instance | Checks |
|---|---|---|
| `multitask` | 4 PROCs, events 2 and 7 (2 is also the address of P1), all commands; 340,654 states | queues, scheduler, P1, FIFO order, exact wakeup, P0 last, jesus; lists walked by later calls end; kernel loops end; an exit wakes the waiting parent |
| `minode` | the tree of `mydisk`, 4 slots, counts to 4, eight pathnames; 156,351 states | cache invariants, pwd away from the root, refinement of `WorkingDirectory`, commands end |
| `plain` | 2 clients, 3 commands each, one-line commands, clients killed in a call; 1,349,369 states | replies match, only the loss of the client in service ends the server, no mutual wait, refinement of `RemoteCommands`, everyone is served |
| `transfer` | 2 clients, 3 commands each, a file of 5 characters that begins like the marker and holds parts of it, buffer of 4, marker of 3; 8,054,874 states up to symmetry of the clients | transfers complete |
| `nametree` | 4 blocks, names a and b, one file; 97,303 states | one tree, pwd and prompt, no crash, reload gives back what was saved, refinement of `FileTree` |
| `shell` | 4 processes, pipes of 3 units, 2 lines out of 8; 175,573 states | one reader of the terminal, pipelines deliver and end, the prompt returns |
| `prelab4` | 4 threads, 3 columns, words of 5 bits, 3 tests, seconds of 4 intervals, minutes and hours of 2; 6,551 states | no lost update, totals, clock, all three end |
| `one_shot` | 114 disks, 549 calls, 13 command lines; 3,937 states | listing, numerals, the right file |

Four PROCs are P0, P1, and two others, enough for a parent and a child beside
P1; the run `no_hang`, about families of processes, has five.
With four slots the cache both fills and recycles. In Lab4 a file of 5 characters
against a buffer of 4 and a marker of 3, its NUL included, lets a read end before,
inside and after the marker. In Lab2 four blocks are the root and three nodes, enough
for a directory in a directory with a sibling, and `MaxPrompt` only stops the prompt from
growing with every reload. In Lab3 a line of three stages uses all four processes,
so that forks of the second line can fail; the note and the data of one program
fill a pipe. `WORD = 32` makes the totals of PreLab4 overflow, and the clock
carries into minutes and hours before it stops. The disks of Lab1 have up to three
primaries and three logicals, with and without gaps, primaries and free sectors
behind them, and sectors beyond `REACH`; only the ones without gaps are promised a
right listing.

Runs that end in a violation show where the code and what its README or comments
say part; each has an entry under findings:

| Run | Statement that fails |
|---|---|
| `no_hang` | exit gets through giving its children away (a list becomes a circle) |
| `get_then_leave` | a client that leaves at its prompt does not end the server (after a get it does) |
| `removed_directory` | no command ends the program (after rmdir of the current directory a mkdir links the freed node below itself, and pwd climbs for ever) |
| `missing_head` | the prompt returns (a pipeline whose head does not exist, then another command) |

Other places where the code does not do what it should are behind a switch that is
off in the passing runs, or an input they leave out. The hypotheses of the theorems
are these. TLC finds the property violated when the line of the cfg is changed:

| Line of the cfg | Fails | What happens |
|---|---|---|
| `MCMinode`: `FrameKept = FALSE` | `PwdNamesCwd` | pwd prints what the stack holds instead of a name (Lab5 Commands.c 95) |
| `MCGetThenLeave`: `Commands <- ListCommands` | `OnlyLossEndsServer` | ls of a missing pathname ends the server (linux_cmd.c 64) |
| `MCTransfer`: `FILE <- MarkedFile` | `TransferComplete` | a file with the marker and a NUL at the start of a read ends its own transfer (client.c 136) |
| `MCNameTree`: `NewPaths <- MCEmptyPaths` | `ReloadRestores` | mkdir or creat without a pathname makes a nameless node, whose line a reload runs with the name of the line before (Lab2.c 64, 301) |
| `MCNameTree`: `LongText = TRUE` | `NoCrash` | a reload follows text as the list of children (Lab2.c 82) |
| `MCOneShot`: `DescriptorKept = FALSE` | `ShowsTheFile` | showblock walks from another inode and shows another file (Lab6 Main.c 28) |

That a killed client ends the server is in the passing run: the two writes of the
reply raise SIGPIPE (server.c 268, 269, although 259 says "Client Died, Server
Loops"), and `OnlyLossEndsServer` says that nothing else does.

Seen on the way, in the models but without a run of their own, because reading
the line is enough:

- PreLab3: `kfork` gives a third child the link of the second (t.c 153 is an `if`,
  ReadMe.md 27 wants the family tree); `kwait` drops all children when it buries the
  first (t.c 261, against its comment at 254), returns -1 to a process that has
  children (250 assigns the variable the loop tests), and lets P1 sleep on while it
  is given zombies (205).
- Lab5: in the root pwd prints an empty string (Commands.c 68, ReadMe.md 170 wants
  "/"); `cd` without a pathname does nothing (Commands.c 12, ReadMe.md 156); getino
  and pwd keep references, so that the cache fills (util.c 140); a search that misses
  never ends (util.c 95), and "Does Not Exist" is never reported.
- Lab4: `quit` does not end the client (client.c 106, ReadMe.md 27); a pathname that
  contains "get" or "put" makes the client wait for a file (client.c 130, 141: the
  names in `Lookalikes`); get of a missing file blocks client and server (server.c
  109), and after a transfer the next command is shown its reply (268).
- Lab2: a reload leaves the old directory in the prompt.
- Lab3: an empty line is `strcmp` of a null pointer (141), `>` does not truncate and
  `>>` does not create (269, 274), only /bin is searched (165), only the process of
  the head is the child that `run` waits for.
- PreLab4: the total of Part1 does not fit a 32-bit long with its 50000 columns, and
  the elapsed times are printed without a borrow from the seconds.
- Lab1: hexadecimal and octal numbers come without the "0x" and "0" of the comments
  (myprintf.c 18, 19, ReadMe.md 120, 121), `%d` of 0 prints nothing and `%x` of 0
  "0x" and a new line (82-92), no new line comes with a carriage return (ReadMe.md
  170), `%%` takes an argument; a partition behind the extended one is not listed,
  and a zero sector behind it makes the listing endless (Partitions.c 73, seen on
  vdisk with a sector appended).
- Lab6: a path that leads on from a file, as /tiny/X, shows that file (Functions.c
  175, against the comment at 161); a search that misses never ends (132).

`put` is not stated as a property: in the code it sends the server's file to the
client just as `get` does, while ReadMe.md 26 has it copy to the server.

Deadlock is checked in Lab2, PreLab4 and the one-shot programs, which go on until
they end. In the other runs it is not: the user may stop, exit, or the program end
or crash, and the last state then has no successor.

**Fairness.** Weak fairness is assumed for the steps the programs take by
themselves (`KernelStep`, `Step`, `ServerStep`, each `ClientStep`), which run
whenever they can; never for what a user types, connects or closes. `EveryoneServed`
therefore excludes executions in which another user sits at the prompt of the
served connection for ever. In Lab3 every process has it for its own steps
(`Step(p)`), not for what is typed (`User(p)`), in PreLab4 threads and main, the
expiry of the timer and the delivery of a pending signal.

## 4. Proofs

Each theorem is about the specification a run checks, for every value of the
constants that the named ASSUMEs allow; each property was an invariant or a
property of a TLC run before it was proved. All invariants of the passing runs are
theorems. The order of this section is that of the
modules, not of importance.

**PreLab3** (`MultitaskProofs`), for every `NPROC >= 2`, every set of events and
commands. `TypeCorrect`, `QueuesPartition`, `SchedulerSafe` and `P1Survives` come
from `IInv`. None of the four is inductive alone: that the scheduler finds a PROC
needs that P0 is in the ready queue whenever it does not run, hence the queue
partition, which in turn needs that `running` is READY, or a ZOMBIE inside its own
exit; that P1 never dies needs that P1 was the first PROC taken from the free list
(`ControlInv`). The lemmas about `Enqueue` (an insertion point exists; the result
has the old elements and the new one, without repeats) carry the queue argument.

`CallsInv` adds what the loops inside a call leave behind, and gives the rest:
`WakeupIsExact` needs that the PROCs put aside by `wakeup` wait for other events
(`AsideInv`), `JesusIsComplete` that no zombie is behind the loop (`RaisedInv`),
`IdleRunsLast` and `FirstComeFirstServed` that the queue is ordered and P0 alone
has priority 0 (`OrderInv`). `PromptListsEnd` needs that the sibling fields form no
circle anywhere, except in the list the running PROC is about to walk for ever
(`ListsInv`); the argument that following the fields comes to an end is a
pigeonhole over the table.

**Lab5** (`MinodeProofs`), for every disk, cache size and set of pathnames.
`TypeCorrect`, `CacheHasNoAliases`, `PointersStayPinned` and `SlotsAreRight` come
from `IInv`, which adds `LeftBehind`, the reference that getino does not give back,
on which a new cwd lives: without it the step of `ChangeDir`, which releases its
own reference, cannot be shown to leave cwd pinned. The root keeps two references,
one of which `cd /` relies on. `NamesInv` adds where a walk is (`WalkInv`: what is
left of the pathname leads from the inode in hand to where the whole pathname
leads) and where the climb of pwd is (`ClimbingInv`: the names put together so far
lead back to cwd); it gives `PwdIsRight` and, step by step,
`CacheImplementsWorkingDirectory`: the abstract shell remembers the pathname typed,
moves only to the directory that it leads to, and returns without a move only if it
leads to none. `PwdIsRight` has the hypothesis `FrameKept` and is about directories
other than the root. Assumed: root is a directory, entries of a
directory have distinct names, ".." leads to a directory, and the pathname "/" has
no names.

**Lab4** (`FileTransferProofs`), for any number of clients, commands per client,
and any sizes of file, buffer, marker and line. `TransfersAreWhole` is about all
commands, and about files and markers that are `MarkerFree`: no piece of the file at
which a read can begin spells the marker, nor does the file begin like it as far as
it goes. Its invariant follows the one transfer a client can be engaged in: the
request is the last thing in `up`, or the server is sending and what was read plus
what is on its way is what was sent, or the marker is in `down` behind the whole
file (`RequestOK`, `SendingOK`, `MarkerOK`). It says nothing once the server is
dead, as `TransferComplete` does not.

`RepliesAreTheRightOnes`, `OnlyALostClientEndsServer`, `NeverStuck` and
`FileServerImplementsRemoteCommands` hold under `PlainOnly`: no command makes the
client wait for a file, and ls has no pathname. That is the instance of the run
`plain`, for any number of clients and commands, killed in a call or not. It is
needed because the code is
wrong without it: `get_then_leave` is the counterexample to `OnlyLossEndsServer`, after
a transfer the next command is shown its reply, get of a missing file blocks both
sides, and ls of a missing pathname ends the server. As long as the server lives,
`PlainInv` gives for each
client the exact contents of both streams at each pair of program counters
(`AliveInv`, `Phase`), which is why no line can be taken for another command's and no
two reads meet; once it is dead, its last client was lost and the others have the
whole reply or none (`DeadInv`, `Orphaned`).

**Lab2** (`NameTreeProofs`), for every number of blocks and all pathnames, under
`Careful`: nobody removes the directory he is in, no saved text is long enough
to be found in a new root, and mkdir and creat are typed with a name. The run
`removed_directory` shows what happens without the first, the table of section 3
without the others. `TreeStaysATree`, `PwdIsRight`, `CommandsReturn`, `ReloadIsFaithful` and
`FileTreeImplemented` rest on `TreeInv`:
there is a naming `G` of the nodes in use by paths, the root's empty, every other
that of its parent and its own name. `TreeShape` says that each climb by `parent`
ends, which does not tell what a new node does to the climbs of the others; the
naming does, since it is extended or restricted with the tree and a circle of
parents would be shorter than itself. That the climb of `getPath` ends within the
number of blocks is a pigeonhole over the ancestors. `PwdNamesCwd` needs one fact
more about the names: a directory called ".." can only be entered from the root,
since anywhere else ".." leads up.

`FileTreeImplemented` is the refinement. Two nodes of one kind have different paths,
so the entries of `FileTree` are the names that `G` gives, and a token of `locateDir`
is a name of `Resolve` (`LocateSim`): found in the list of children exactly when the
longer path is in the set. Removing an entry needs that nothing is below a directory
whose list is empty (`NothingBelow`). The hard part is reload, which `FileTree` does
at once and the program line by line.

`ReloadIsFaithful` says what holds between two lines of a reload: `saveTree`, called
there, would write the lines run so far, in the order of the file. What `saveTree`
writes is a preorder (`SaveTreeOrdered`): the first line is in the root, every other
is in the directory of the line before it or in one that this line is below
(`Follows`), and no line occurs twice. So the directory of the next line is at the
end of its list, and so is every directory above it (`AtEnd`); `mkdir` and `creat`
put a node at the end of the list, and by induction over the height of the tree that
is one line at the end of `saveTree`'s text and no other change (`SaveTreeGrows`).
`ReloadInv` carries both, the lines and the end of the lists, from line to line
(`LinesRun`). That a line can be looked up at all is because its directory was made
by walking there (`Reachable`). A directory called ".." below the root is why
`Reachable` is not obvious: it can be made and saved, and nothing can be put in it.
When no line is left, the entries are those of the file, which is the step of
`FileTreeImplemented`.

**Lab3** (`ShellProofs`), for any number of processes, capacity of a pipe, units of
data and set of lines of at most four stages, in which only the head of a line
without redirections may be missing. `OneReader`: the processes in front of the
terminal are a chain, all but the last in the loop of `run` that waits for children,
each the parent of the next (`ChainInv`): a shell comes back to its prompt only when
its child is gone, and then it is the end of the chain. `LineInv` says that whoever
is to make a pipe has more than one stage left.

`PipelinesDeliver`: what the terminal will show depends on what is in the pipes and
on who holds which end, so `DeliverInv` follows the data of every job. There is a
set of pipes that it goes into, and one process writes it into each of them
(`OneWay`); how many units have gone into each pipe says what is in it and what its
only reader has passed on (`Flows`, `OneTaker`), which keeps the units in order and
each of them once. The workers of a plain line are a chain to the terminal, each
with somebody in front of it until it has everything (`PlainInv`), so that no end of
file and no broken pipe comes too early. Every process, not only every job, has
such a set of pipes: a shell that a failed `execve` leaves at the head of a pipeline
starts jobs that write there. The model has three pipes for every process, since a
process holds at most two ends by its descriptors and two of one pipe in `pd`; that
a free one is always found is a pigeonhole. The order holds for every job; that
all comes out is not promised of a job in `excused`: a fork failed for it, or the
shell that started it writes into a pipe.

**PreLab4** (`Prelab4Proofs`), for every matrix, word size and number of tests, and
all lengths of interval, second and minute. `UpdatesKept`: that nobody writes the
total while a thread sleeps on it needs that every thread in the critical region is
the holder of the mutex (`HoldsMutex`). `SumsAreRight`: the rows are joined in order
(`RowInv`), and the total under the mutex is at any time the sum, row by row, of the
rows that have been written (`TotalInv`), so that the order of the threads does not
matter; sums in a word are sums cut to a word. `ClockIsExact`: `ClockInv` has
the clock behind real time by the signals merged or pending; the carries are
arithmetic of quotients and remainders.

**Lab1 and Lab6** (`OneShotProofs`), for every input. `AllPartitionsListed` is about
the disks that are `WithoutGaps`, of any size up to `REACH` and with any number of
partitions the stack holds. `WalkInv` names the stages of the walk: in the master
table, at a local table, behind its partition, past the last one, back in the call
of the master table with a local table in the buffer, and at the end; at each it says
which calls are pending, what is in the buffer and that the first lines of the link
list have been printed. The conditions in `WithoutGaps` are those the argument uses.
The program never follows a link, so the next table must be where a partition ends.
The last local table may have no further entry, because the last read fails (or, on
a disk of exactly `REACH` sectors, begins again at sector 0) and the walk of the
master table then goes on in what is left in the buffer.

`NumeralsPrinted` holds for every word size, format and argument of a well-formed
call, 0 included, of which it says what the code prints. The digits that `rpu` prints are the numeral by strong induction over the
number: to divide by the base and then by a power of it is to divide by the next
power. Powers are a recursive function in the reference definition, since the provers
have no theory of `^`. `PrintInv` says that the output is the text of the characters
passed, that `ap` counts their conversions, and that the scan never stops between a
`%` and its letter.

`ShowsFile` holds for every tree, path that leads somewhere, size of `tokens` and
number of inodes in a block, with `DescriptorKept`. It says that no other file is
shown, and that the right one has been if the program ends by itself. `ShowInv`: the
inode in memory is where the names passed lead, all of them
directories, or there was none to begin with, because a dead frame held nothing. That
the block and offset of Mailman's algorithm name the inode they were computed from is
arithmetic of quotient and remainder.

Induction over naturals and sequences is by the least number of a set
(`NumberLemmas`), since the provers cannot instantiate an induction theorem that
takes a predicate as a parameter.

The assumptions are the named ASSUMEs of `Multitask`, `DirectoryTree`,
`MinodeCache`, `RowSums`, `MutexSums`, `WallClock`, `ServerFiles`, `FileTransfer`,
`Pathname`, `NameTree`, `Shell`, `PartitionTable`, `NumberPrinting` and `ShowBlock`,
which TLC evaluates in the runs, and the hypotheses `PlainOnly`, `MarkerFree`, `Careful`, `FrameKept` and
`DescriptorKept`.

Only model checked: freedom from deadlock and liveness under fairness (`CallsReturn`,
`ExitWakesParent`, `CommandsEnd`, `EveryoneServed`, `PipelinesEnd`, `PromptReturns`,
`PartsEnd`), which are outside the prover's reach.

## 5. Not modelled

Printed layout, the contents of inodes and files, writing back dirty inodes
(`dirty` is never set), exit codes, buffers overrun by long input, the client's own
files. Lab3: a missing command behind a pipe, whose process becomes a shell that
takes the messages in the pipe for commands and forks for each of them; pipelines
of more than four stages, which run past `PIPE`; a `pipe()` that fails, for want of
descriptors in the whole machine, and the message of a failed fork in `handlePipes`;
two redirections of one stage. Lab6: what follows the direct
blocks, indirect blocks among it, read through a pointer ten inodes before the
buffer. The listing of
`ls_l.c` in Lab4 is text only.

## 6. Plan

PreLab3: queues with the `next` field, refining `Multitask`.
