---------------------------- MODULE MCProfileStore ----------------------------
(* ProfileStore on small instances. *)
EXTENDS ProfileStore, TLC

\* Profile ids are random: nothing orders them.
Symmetry == Permutations(Ids)
===============================================================================
