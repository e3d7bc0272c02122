----------------------------- MODULE MCLinuxOs -----------------------------
(***************************************************************************)
(* LinuxOs on small instances.                                             *)
(***************************************************************************)
EXTENDS LinuxOs, TLC

\* Neither configurations nor sockets are told apart by anything but identity.
Symmetry == Permutations(Configs) \cup Permutations(Sockets)

\* Bound: answers are unread in one socket at a time, that of the process.
Bounded == running => \A s \in Sockets \ {socket} : replies[s] = << >>
=============================================================================
