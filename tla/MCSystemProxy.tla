---------------------------- MODULE MCSystemProxy ----------------------------
(***************************************************************************)
(* Small instances of SystemProxy for TLC.                                 *)
(***************************************************************************)
EXTENDS SystemProxy

\* A company proxy that is switched off, and one that is on, with a PAC URL.
TwoSettings ==
    {[enable |-> 0, server |-> "corp", bypass |-> "intranet", pac |-> "none"],
     [enable |-> 1, server |-> "home", bypass |-> "local", pac |-> "url"]}

TwoPorts == {"own:1", "own:2"}
=============================================================================
