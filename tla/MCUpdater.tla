------------------------------ MODULE MCUpdater ------------------------------
(* Updater on small instances. *)
EXTENDS Updater, TLC

\* Helpers differ only in their process ids.
Symmetry == Permutations(Updaters)
===============================================================================
