---------------------------- MODULE ServiceSession ----------------------------
(***************************************************************************)
(* The daemon's side of the always-ready service: ServiceSession and the   *)
(* controllers built on it (multicore-daemon/src/service_client.rs).       *)
(*                                                                         *)
(* A session s is what the daemon believes, a service v what is really     *)
(* there.  Every exchange runs under the session's transport lock and its  *)
(* answer is recorded before the lock is left, so an operation is the set  *)
(* of its results [res, s, v].  The service is external here: CoreService  *)
(* is its model.  A channel that is dropped makes it stop the cores.       *)
(***************************************************************************)
EXTENDS Naturals

CONSTANTS
    MaxGens,    \* generation ids the daemon may stage
    Faults      \* what may go wrong

AllFaults ==
    {"timeout",   \* an answer does not come within its budget
     "refusal",   \* the service answers Busy, or fails to prepare or to switch
     "exit",      \* the service process ends
     "death",     \* its cores or its tunnel end by themselves
     "staging",   \* a controller cannot be built, or its interface changed
     "replay",    \* a queued selection is refused, or one cannot be undone
     "host",      \* the elevated host fails to start or to stop cores
     "store",     \* the profile store fails, or a profile cannot be read
     "drop"}      \* a client drops its request

ASSUME SessionAssumption == MaxGens \in Nat \ {0} /\ Faults \subseteq AllFaults

\* The outcomes f only when such a fault may happen.
If(fault, f) == IF fault \in Faults THEN f ELSE {}

NoGen == 0
Gens == 1..MaxGens
GenOrNone == Gens \cup {NoGen}

SessionType ==
    [chan : BOOLEAN,         \* transport is Some
     prepared : GenOrNone,   \* the generation of the last Prepared answer
     rejected : GenOrNone,   \* the generation whose last Prepare failed
     healthy : BOOLEAN,
     tunOn : BOOLEAN,
     inUse : BOOLEAN,        \* in_use is IN_USE_TUN
     owner : GenOrNone,      \* the generation a Connect claimed
     available : BOOLEAN]    \* the last probe found the service

ServiceType ==
    [up : BOOLEAN,           \* the service answers new connections
     link : BOOLEAN,         \* the daemon's channel is still open at its end
     gen : GenOrNone,        \* the generation whose cores run for it
     tun : BOOLEAN]          \* their tunnel is up

NewSession == [chan |-> FALSE, prepared |-> NoGen, rejected |-> NoGen,
               healthy |-> FALSE, tunOn |-> FALSE, inUse |-> FALSE,
               owner |-> NoGen, available |-> FALSE]

Result(res, s, v) == [res |-> res, s |-> s, v |-> v]

Forget(s) == [s EXCEPT !.prepared = NoGen, !.healthy = FALSE, !.tunOn = FALSE]

\* The service loses its client: client_gone stops what ran for it.
Released(v) == [v EXCEPT !.link = FALSE, !.gen = NoGen, !.tun = FALSE]

\* A failed exchange drops the channel and forgets what was prepared.
Dropped(res, s, v) == Result(res, Forget([s EXCEPT !.chan = FALSE]), Released(v))

(***************************************************************************)
(* exchange_if: "reached" when the command was read by the service (the    *)
(* answer is the caller's business), "TimedOut" when its answer did not    *)
(* come within the budget of the command.                                  *)
(***************************************************************************)
ExchangeOn(s, v) ==
    IF ~v.link
    THEN {Dropped("Disconnected", s, v)}
    ELSE {Result("reached", s, v)} \cup If("timeout", {Dropped("TimedOut", s, v)})

Exchange(s, v, connect) ==
    CASE s.chan -> ExchangeOn(s, v)
      [] ~s.chan /\ ~connect -> {Result("Disconnected", s, v)}
      [] ~s.chan /\ connect /\ ~v.up -> {Result("Disconnected", Forget(s), v)}
      [] OTHER -> ExchangeOn([Forget(s) EXCEPT !.chan = TRUE],
                             [v EXCEPT !.link = TRUE])

\* The results of reached exchanges under Answers, the others as they are.
Answering(outcomes, Answers(_)) ==
    UNION {IF o.res = "reached" THEN Answers(o) ELSE {o} : o \in outcomes}

(***************************************************************************)
(* probe asks for Status and tries once more on a fresh channel when it    *)
(* had one that failed; probe_mode remembers whether the service answered. *)
(***************************************************************************)
ProbeMode(s, v) ==
    LET Ok(o) == {[o EXCEPT !.res = "Ok"]}
        first == Answering(Exchange(s, v, TRUE), Ok)
        all == UNION {IF s.chan /\ o.res # "Ok"
                      THEN Answering(Exchange(o.s, o.v, TRUE), Ok)
                      ELSE {o} : o \in first}
    IN  {[o EXCEPT !.s.available = (o.res = "Ok")] : o \in all}

\* poll: Status over the channel there is.
Poll(s, v) ==
    LET Status(o) ==
            {[o EXCEPT !.res = "Ok", !.s.tunOn = o.v.tun,
                       !.s.healthy = o.v.gen # NoGen /\ o.v.gen = o.s.prepared]}
    IN  {[o EXCEPT !.s.healthy = @ /\ o.res = "Ok"] :
            o \in Answering(Exchange(s, v, FALSE), Status)}

CoresReady(s) == s.healthy /\ s.prepared # NoGen

\* Mutant: only the cores are looked at, not the tunnel.
CoresLost(s) == s.inUse /\ ~CoresReady(s)

\* The connection the session carries is gone.
ConnectionLost(s) ==
    /\ s.inUse
    /\ \/ ~CoresReady(s)
       \/ s.owner # NoGen /\ s.prepared # s.owner
       \/ ~s.tunOn

Claim(s, g) == [s EXCEPT !.owner = g]
ReleaseClaim(s) == [s EXCEPT !.owner = NoGen]

\* Mutant: a warm-up is never refused.
NeverRefused(s, g) == FALSE

\* A warm-up is refused while a Connect owns the session.
IdleRefused(s, g) == s.owner \notin {NoGen, g}

(***************************************************************************)
(* prepare_if.  The refusal is checked before and again with the channel   *)
(* held; the operation is one step, so once here.  The service answers     *)
(* Prepared, or fails and stops the cores; Busy leaves them alone (another *)
(* user's) and rejects nothing.                                            *)
(***************************************************************************)
PrepareIf(s, v, g, idle) ==
    LET Answer(o) ==
            {Result("Ok",
                    [o.s EXCEPT !.prepared = g, !.rejected = NoGen, !.healthy = TRUE],
                    [o.v EXCEPT !.gen = g])}
            \cup If("refusal",
                    {Result("Rejected", o.s, [o.v EXCEPT !.gen = NoGen, !.tun = FALSE])}
                    \cup (IF o.v.gen = NoGen THEN {[o EXCEPT !.res = "Busy"]} ELSE {}))
    IN  IF idle /\ IdleRefused(s, g)
        THEN {Result("InUse", s, v)}
        ELSE IF s.prepared = g /\ s.healthy
        THEN {Result("Ok", s, v)}
        ELSE {IF o.res \in {"Rejected", "TimedOut"}
              THEN [o EXCEPT !.s.rejected = g] ELSE o :
                  o \in Answering(Exchange(s, v, TRUE), Answer)}

Prepare(s, v, g) == PrepareIf(s, v, g, FALSE)
PrepareIdle(s, v, g) == PrepareIf(s, v, g, TRUE)

(***************************************************************************)
(* set_tun never opens a channel.  The service needs prepared cores to     *)
(* switch on and may roll back; a switch-off may fail and leave the tunnel *)
(* up.                                                                     *)
(***************************************************************************)
SetTun(s, v, on) ==
    LET Answer(o) ==
            LET done == Result("Ok", [o.s EXCEPT !.tunOn = on], [o.v EXCEPT !.tun = on])
                rolledBack == Result("Rejected", [o.s EXCEPT !.tunOn = FALSE],
                                     [o.v EXCEPT !.tun = FALSE])
                stillUp == [o EXCEPT !.res = "Rejected"]
            IN  IF on /\ o.v.gen = NoGen THEN {rolledBack}
                ELSE {done} \cup If("refusal", IF on THEN {rolledBack}
                                               ELSE IF o.v.tun THEN {stillUp} ELSE {})
    IN  Answering(Exchange(s, v, FALSE), Answer)

\* shutdown takes the channel away, asks the service to stop and forgets.
Shutdown(s, v) ==
    Result("Ok", Forget([s EXCEPT !.chan = FALSE, !.inUse = FALSE]),
           IF s.chan THEN Released(v) ELSE v)

(***************************************************************************)
(* ServiceTunController.  start(Xray) is claim, then prepare (here the     *)
(* second half); start(Mihomo) switches the tunnel on; stop(Mihomo)        *)
(* switches it off and forgives what a dead channel or dead cores explain. *)
(***************************************************************************)
StartXray(s, v, g) ==
    {IF o.res = "Ok" THEN o ELSE [o EXCEPT !.s = ReleaseClaim(o.s)] :
        o \in Prepare(s, v, g)}

StartMihomo(s, v) ==
    {IF o.res = "Ok" THEN [o EXCEPT !.s.inUse = TRUE] ELSE o :
        o \in SetTun(s, v, TRUE)}

StopMihomo(s, v) ==
    {Result(IF o.res \in {"Ok", "Disconnected"} \/ ~CoresReady(o.s) THEN "Ok" ELSE o.res,
            [ReleaseClaim(o.s) EXCEPT !.inUse = FALSE], o.v) :
        o \in SetTun(s, v, FALSE)}
===============================================================================
