------------------------------- MODULE MCShell -------------------------------
(***************************************************************************)
(* Command lines for TLC.                                                  *)
(***************************************************************************)
EXTENDS ShellProperties

S(p) == [prog |-> p, io |-> ""]
To(p, io) == [prog |-> p, io |-> io]

\* One to three stages; one that reads the terminal; one that leaves early;
\* redirections in the head and in the tail; commands that do not exist.
MCLines ==
  {<<S("copy")>>, <<S("missing")>>,
   <<S("make"), S("copy"), S("copy")>>, <<S("make"), S("quit")>>,
   <<S("missing"), S("quit")>>,
   <<To("copy", "<"), S("copy")>>, <<S("make"), To("copy", ">>")>>,
   <<To("make", ">"), S("copy")>>}

\* A pipeline whose first command does not exist, and a command.
MCMissingHead == {<<S("missing"), S("copy")>>, <<S("make")>>}
=============================================================================
