---------------------------- MODULE MCCoreService ----------------------------
(***************************************************************************)
(* Small instances of CoreService for TLC.                                 *)
(***************************************************************************)
EXTENDS CoreService, TLC

CONSTANTS c1, c2, alice, bob

\* One connection each of two users; Bob is no administrator.
TwoSessions == (c1 :> alice) @@ (c2 :> bob)

PrepareCommands == {[op |-> "Prepare", gen |-> g] : g \in Gens}
TunCommands == {[op |-> "SetTun", on |-> b] : b \in BOOLEAN}

\* Everything a Linux service is asked, the commands it does not support
\* included.
UnixCommands ==
    PrepareCommands \cup TunCommands
        \cup {[op |-> o] : o \in {"Query", "Stop", "Shutdown", "Update"}}
        \cup {[op |-> "Troubleshoot", wintun |-> TRUE]}

\* The cores, and the commands that leave the lock.
LongCommands ==
    PrepareCommands
        \cup {[op |-> o] : o \in {"Update", "StageUpdate"}}
        \cup {[op |-> "Troubleshoot", wintun |-> TRUE]}
=============================================================================
