------------------------------- MODULE CoreLease -------------------------------
(***************************************************************************)
(* What the always-ready service promises about its cores: they are leased *)
(* to one user at a time.  Only the user who holds the lease (or takes a   *)
(* free one) has cores running, cores never run without a holder, and the  *)
(* lease never passes from one user to another without the cores having    *)
(* been stopped in between.                                                *)
(***************************************************************************)
CONSTANTS Users, NoUser

VARIABLES holder, running

leaseVars == <<holder, running>>

Init == holder = NoUser /\ running = FALSE

\* The holder, or whoever takes a free lease, starts or stops the cores; a
\* holder's cores may also stop by themselves.
Use(u) ==
    /\ holder \in {NoUser, u}
    /\ holder' = u
    /\ running' \in BOOLEAN

Release ==
    /\ holder' = NoUser
    /\ running' = FALSE

Next == Release \/ \E u \in Users : Use(u)

Spec == Init /\ [][Next]_leaseVars
=============================================================================
