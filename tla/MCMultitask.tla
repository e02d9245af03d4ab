---------------------------- MODULE MCMultitask ----------------------------
(***************************************************************************)
(* Instances of Multitask for TLC.                                         *)
(***************************************************************************)
EXTENDS MultitaskProperties

\* An event of its own, and the int that is also &proc[1].
MCEvents == {7, 2}

\* The commands that make and unmake families of PROCs.
FamilyCommands == {"fork", "switch", "exit", "wait"}
=============================================================================
