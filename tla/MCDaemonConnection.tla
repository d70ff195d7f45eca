-------------------------- MODULE MCDaemonConnection --------------------------
(* DaemonConnection on small instances. *)
EXTENDS DaemonConnection, TLC

\* Requests are interchangeable, and so are profiles: nothing orders either.
Symmetry == Permutations(Requests) \cup Permutations(Profiles)
===============================================================================
