----------------------------- MODULE ElevatedHost -----------------------------
(***************************************************************************)
(* Cores started on demand: without the service a Connect launches an      *)
(* elevated multicore-core-host and drives it over a private pipe.         *)
(*                                                                         *)
(* The daemon's side is ElevatedBroker and ElevatedProcessController       *)
(* (multicore-daemon/src/elevated_controller.rs) under the Supervisor's    *)
(* connect and disconnect; the host's side is its command loop             *)
(* (windows_pipe.rs, unix_socket.rs), RuntimeHost (runtime_host.rs) and    *)
(* the SidecarProcessController of one generation (sidecar.rs).            *)
(*                                                                         *)
(* A command that fails or is late drops the session.  The host notices    *)
(* only when it reads or writes, so it may run on beside its successor.    *)
(***************************************************************************)
EXTENDS Naturals, FiniteSets

CONSTANTS
    MaxHosts,   \* hosts that may be launched
    MaxGens,    \* generations that may be staged
    MaxLate     \* dropped calls that may still wait for the broker's lock

ASSUME HostAssumption ==
    MaxHosts \in Nat \ {0} /\ MaxGens \in Nat \ {0} /\ MaxLate \in Nat

NoHost == 0
Hosts == 1..MaxHosts
NoGen == 0
Gens == 1..MaxGens
Engines == {"Xray", "Mihomo"}

Start(e, g) == [op |-> "Start", engine |-> e, gen |-> g]
Stop(e) == [op |-> "Stop", engine |-> e, gen |-> NoGen]
Diagnostics == [op |-> "Diagnostics", engine |-> "Xray", gen |-> NoGen]
Shutdown == [op |-> "Shutdown", engine |-> "Xray", gen |-> NoGen]
Commands ==
    {Start(e, g) : e \in Engines, g \in Gens} \cup {Stop(e) : e \in Engines}
        \cup {Diagnostics, Shutdown}
NoCommand == [op |-> "none", engine |-> "Xray", gen |-> NoGen]

VARIABLES
    conn,     \* the daemon's connection and the step of its Supervisor
    job,      \* the blocking call that holds the broker's lock
    late,     \* calls of dropped requests that wait for it
    left,     \* history: the generations whose Connect left such a call
    session,  \* the host the broker is connected to
    host      \* the host processes

vars == <<conn, job, late, left, session, host>>

ConnType ==
    [st : {"Ready", "Connecting", "Connected", "Error"},
     pc : {"idle", "startXray", "startMihomo", "rollback", "stopMihomo", "stopXray"},
     gen : Gens \cup {NoGen},     \* the generation of the controller
     staged : 0..MaxGens,         \* generations staged so far
     failed : BOOLEAN]            \* stopping Mihomo failed

JobType ==
    [cmd : Commands \cup {NoCommand},
     for : {"conn", "diag", "quit", "nobody"},
     sent : BOOLEAN]

HostType ==
    [life : {"none", "starting", "idle", "busy", "gone"},
     link : BOOLEAN,              \* the daemon's end of the pipe is open
     inbox : Commands \cup {NoCommand},
     reply : {"none", "Ok", "Error"},
     gen : Gens \cup {NoGen},     \* active: the generation of its controller
     flag : SUBSET Engines,       \* active: the engines it believes to run
     child : SUBSET Engines,      \* the controller's children, ended ones too
     alive : SUBSET (Engines \X Gens)]    \* the core processes in its job

TypeOK ==
    /\ conn \in ConnType /\ job \in JobType /\ late \subseteq Commands
    /\ left \subseteq Gens
    /\ session \in Hosts \cup {NoHost} /\ host \in [Hosts -> HostType]

NoJob == [cmd |-> NoCommand, for |-> "nobody", sent |-> FALSE]

NotLaunched == [life |-> "none", link |-> FALSE, inbox |-> NoCommand, reply |-> "none",
                gen |-> NoGen, flag |-> {}, child |-> {}, alive |-> {}]

FirstConn == [st |-> "Ready", pc |-> "idle", gen |-> NoGen, staged |-> 0,
              failed |-> FALSE]

Init ==
    /\ conn = FirstConn /\ job = NoJob /\ late = {} /\ left = {}
    /\ session = NoHost /\ host = [h \in Hosts |-> NotLaunched]

-------------------------------------------------------------------------------
(* RuntimeHost: an operation is the set of its results [ok, h]. *)

Result(ok, h) == [ok |-> ok, h |-> h]

\* Mutant: the job does not kill the cores when it is closed.
ActiveForgotten(h) == [h EXCEPT !.gen = NoGen, !.flag = {}, !.child = {}]

\* active = None: the controller goes with its children and its job.
ActiveDropped(h) ==
    [h EXCEPT !.gen = NoGen, !.flag = {}, !.child = {}, !.alive = {}]

Runs(h, e) == e \in h.child /\ <<e, h.gen>> \in h.alive

\* SidecarProcessController.start.  Files that changed fail it at once; a core
\* that does not become ready is stopped, and one that resists is left to the
\* job.
ControllerStart(h, e) ==
    LET fresh == [h EXCEPT !.child = @ \ {e}]
        process == h.alive \cup {<<e, h.gen>>}
    IN  {Result(FALSE, h)}
            \cup IF Runs(h, e) THEN {Result(TRUE, h)}
                 ELSE {Result(TRUE, [h EXCEPT !.child = @ \cup {e}, !.alive = process]),
                       Result(FALSE, fresh),
                       Result(FALSE, [fresh EXCEPT !.alive = process])}

\* SidecarProcessController.stop: a core that resists stays a child.
ControllerStop(h, e) ==
    IF e \notin h.child THEN {Result(TRUE, h)}
    ELSE {Result(TRUE, [h EXCEPT !.child = @ \ {e}, !.alive = @ \ {<<e, h.gen>>}])}
            \cup IF Runs(h, e) THEN {Result(FALSE, h)} ELSE {}

Cleared(h, e) ==
    IF h.flag \subseteq {e} THEN ActiveDropped(h) ELSE [h EXCEPT !.flag = @ \ {e}]

AnyCoreAlive(h) == h.flag # {} /\ \E e \in Engines : Runs(h, e)

\* Mutant: the answer does not look at the generation that is active.
StartAnyGeneration(h, e, g) ==
    IF e = "Mihomo" /\ "Xray" \notin h.flag THEN {Result(FALSE, h)}
    ELSE LET a == IF h.gen = NoGen THEN [h EXCEPT !.gen = g] ELSE h
         IN  {IF o.ok THEN Result(TRUE, [o.h EXCEPT !.flag = @ \cup {e}])
              ELSE Result(FALSE, Cleared(o.h, e)) : o \in ControllerStart(a, e)}

\* Mutant: the controller is asked although no generation is active.
StartInactive(h, e, g) ==
    {IF o.ok THEN Result(TRUE, [o.h EXCEPT !.flag = @ \cup {e}])
     ELSE Result(FALSE, Cleared(o.h, e)) : o \in ControllerStart(h, e)}

\* A generation is discarded for another one only when its cores have exited;
\* Mihomo starts after Xray.  resolve_current may fail for a new generation.
HostStart(h, e, g) ==
    LET other == h.gen \notin {NoGen, g}
        d == IF other THEN ActiveDropped(h) ELSE h
        a == IF d.gen = NoGen THEN [d EXCEPT !.gen = g] ELSE d
        delegated == {IF o.ok THEN Result(TRUE, [o.h EXCEPT !.flag = @ \cup {e}])
                      ELSE Result(FALSE, Cleared(o.h, e)) : o \in ControllerStart(a, e)}
    IN  CASE other /\ AnyCoreAlive(h) -> {Result(FALSE, h)}
          [] ~(other /\ AnyCoreAlive(h)) /\ e = "Mihomo" /\ "Xray" \notin d.flag
                -> {Result(FALSE, d)}
          [] OTHER -> delegated \cup IF d.gen = NoGen THEN {Result(FALSE, d)} ELSE {}

\* Mutant: a core that resists is reported as stopped.
StopForgiven(h, e) ==
    IF e \in h.flag
    THEN {Result(TRUE, IF o.ok THEN Cleared(o.h, e) ELSE o.h) : o \in ControllerStop(h, e)}
    ELSE {Result(TRUE, h)}

StopEngine(h, e) ==
    IF e \in h.flag
    THEN {IF o.ok THEN Result(TRUE, Cleared(o.h, e)) ELSE o : o \in ControllerStop(h, e)}
    ELSE {Result(TRUE, h)}

\* Mihomo is stopped before Xray.
HostStop(h, e) ==
    IF e = "Xray" /\ "Mihomo" \in h.flag
    THEN UNION {IF o.ok THEN StopEngine(o.h, e) ELSE {o} : o \in StopEngine(h, "Mihomo")}
    ELSE StopEngine(h, e)

\* RuntimeHost::execute.
Execute(h, cmd) ==
    CASE cmd.op = "Start" -> HostStart(h, cmd.engine, cmd.gen)
      [] cmd.op = "Stop" -> HostStop(h, cmd.engine)
      [] cmd.op = "Shutdown" -> {Result(TRUE, ActiveDropped(h))}
      [] OTHER -> {Result(TRUE, h)}

-------------------------------------------------------------------------------
(* The host's loop.  However it ends, RuntimeHost is dropped and the job or *)
(* the parent-death signal takes the cores.                                 *)

Ended(h) == [ActiveDropped(h) EXCEPT !.life = "gone", !.inbox = NoCommand]

HostJoins(h) ==
    /\ host[h].life = "starting"
    /\ host' = [host EXCEPT ![h] = IF @.link THEN [@ EXCEPT !.life = "idle"] ELSE Ended(@)]
    /\ UNCHANGED <<conn, job, late, left, session>>

HostReads(h) ==
    /\ host[h].life = "idle" /\ host[h].inbox # NoCommand
    /\ host' = [host EXCEPT ![h].life = "busy"]
    /\ UNCHANGED <<conn, job, late, left, session>>

\* An answer nobody can receive ends the host.
HostAnswers(h) ==
    /\ host[h].life = "busy"
    /\ \E o \in Execute(host[h], host[h].inbox) :
          LET answered == [o.h EXCEPT !.life = "idle", !.inbox = NoCommand,
                                      !.reply = IF o.ok THEN "Ok" ELSE "Error"]
          IN  host' = [host EXCEPT ![h] =
                          IF ~@.link THEN Ended(o.h)
                          ELSE IF @.inbox = Shutdown THEN Ended(answered)
                          ELSE answered]
    /\ UNCHANGED <<conn, job, late, left, session>>

HostEof(h) ==
    /\ host[h].life = "idle" /\ ~host[h].link
    /\ host' = [host EXCEPT ![h] = Ended(@)]
    /\ UNCHANGED <<conn, job, late, left, session>>

HostKilled(h) ==
    /\ host[h].life \notin {"none", "gone"}
    /\ host' = [host EXCEPT ![h] = Ended(@)]
    /\ UNCHANGED <<conn, job, late, left, session>>

CoreDies(h, e) ==
    /\ <<e, host[h].gen>> \in host[h].alive
    /\ host' = [host EXCEPT ![h].alive = @ \ {<<e, host[h].gen>>}]
    /\ UNCHANGED <<conn, job, late, left, session>>

-------------------------------------------------------------------------------
(* Supervisor.connect and disconnect over ElevatedProcessController *)

CommandOf(pc, g) ==
    CASE pc \in {"startXray", "startMihomo"} ->
            Start(IF pc = "startXray" THEN "Xray" ELSE "Mihomo", g)
      [] OTHER -> Stop(IF pc = "stopMihomo" THEN "Mihomo" ELSE "Xray")

\* A stop without a host to ask has nothing to stop.
Succeeded(pc, res) ==
    \/ res = "Ok"
    \/ res = "Disconnected" /\ pc \notin {"startXray", "startMihomo"}

Settled(c, st) == [c EXCEPT !.st = st, !.pc = "idle", !.failed = FALSE]

\* The step of the Supervisor after its call returned res.
Advanced(c, res) ==
    LET ok == Succeeded(c.pc, res) IN
    CASE c.pc = "startXray" /\ ok -> [c EXCEPT !.pc = "startMihomo"]
      [] c.pc = "startMihomo" /\ ~ok -> [c EXCEPT !.pc = "rollback"]
      [] c.pc = "startMihomo" /\ ok -> Settled(c, "Connected")
      [] c.pc = "stopMihomo" -> [c EXCEPT !.pc = "stopXray", !.failed = ~ok]
      [] c.pc = "startXray" /\ ~ok -> Settled(c, "Ready")
      [] c.pc = "rollback" -> Settled(c, IF ok THEN "Ready" ELSE "Error")
      [] c.pc = "stopXray" /\ ok /\ ~c.failed ->
            Settled([c EXCEPT !.gen = NoGen], "Ready")
      [] OTHER -> Settled(c, "Error")

BeginConnect ==
    /\ conn.pc = "idle" /\ conn.st = "Ready" /\ conn.staged < MaxGens
    /\ conn' = [conn EXCEPT !.st = "Connecting", !.pc = "startXray",
                            !.gen = conn.staged + 1, !.staged = @ + 1]
    /\ UNCHANGED <<job, late, left, session, host>>

BeginDisconnect ==
    /\ conn.pc = "idle" /\ conn.st \in {"Connected", "Error"}
    /\ conn' = [conn EXCEPT !.pc = "stopMihomo"]
    /\ UNCHANGED <<job, late, left, session, host>>

\* The request's future is dropped; its blocking call runs on.
Abandon ==
    /\ conn.pc # "idle"
    /\ IF job.for = "conn"
       THEN job' = [job EXCEPT !.for = "nobody"] /\ UNCHANGED <<late, left>>
       ELSE /\ Cardinality(late) < MaxLate
            /\ late' = late \cup {CommandOf(conn.pc, conn.gen)}
            /\ left' = IF conn.st = "Connecting" THEN left \cup {conn.gen} ELSE left
            /\ UNCHANGED job
    /\ conn' = Settled(conn, IF conn.st = "Connecting" THEN "Error" ELSE conn.st)
    /\ UNCHANGED <<session, host>>

-------------------------------------------------------------------------------
(* ElevatedBroker: one blocking call at a time, under the session's mutex. *)

Holding(cmd, for) == [cmd |-> cmd, for |-> for, sent |-> FALSE]

Acquire ==
    /\ job = NoJob
    /\ \/ /\ conn.pc # "idle"
          /\ job' = Holding(CommandOf(conn.pc, conn.gen), "conn") /\ UNCHANGED late
       \/ /\ conn.gen # NoGen /\ session # NoHost
          /\ job' = Holding(Diagnostics, "diag") /\ UNCHANGED late
       \/ \E cmd \in late :
             job' = Holding(cmd, "nobody") /\ late' = late \ {cmd}
    /\ UNCHANGED <<conn, left, session, host>>

\* Drop for ElevatedBroker, as the daemon ends.
Quit ==
    /\ job = NoJob /\ conn.pc = "idle" /\ session # NoHost
    /\ job' = Holding(Shutdown, "quit")
    /\ UNCHANGED <<conn, late, left, session, host>>

\* The daemon process is gone and the next one starts.
DaemonDies ==
    /\ conn' = [FirstConn EXCEPT !.staged = conn.staged]
    /\ job' = NoJob /\ late' = {} /\ session' = NoHost /\ UNCHANGED left
    /\ host' = [h \in Hosts |-> [host[h] EXCEPT !.link = FALSE, !.reply = "none"]]

\* The call returns res and leaves the lock with session s.
Returns(res, s) ==
    /\ session' = s /\ job' = NoJob /\ UNCHANGED <<late, left>>
    /\ conn' = IF job.for = "conn" THEN Advanced(conn, res) ELSE conn

\* A request that failed drops the session, and the pipe with it.
Drops(res) ==
    IF job.for = "quit" THEN DaemonDies
    ELSE /\ Returns(res, NoHost)
         /\ host' = [host EXCEPT ![session].link = FALSE, ![session].reply = "none"]

BrokerRefuses ==
    /\ job # NoJob /\ session = NoHost /\ job.cmd.op # "Start"
    /\ Returns("Disconnected", NoHost) /\ UNCHANGED host

\* The prompt is declined or the launch fails.
LaunchFails ==
    /\ job # NoJob /\ session = NoHost /\ job.cmd.op = "Start"
    /\ Returns("Failed", NoHost) /\ UNCHANGED host

LaunchHost ==
    /\ job # NoJob /\ session = NoHost /\ job.cmd.op = "Start"
    /\ \E h \in Hosts :
          /\ host[h].life = "none" /\ \A k \in 1..(h - 1) : host[k].life # "none"
          /\ session' = h
          /\ host' = [host EXCEPT ![h].life = "starting", ![h].link = TRUE]
    /\ UNCHANGED <<conn, job, late, left>>

BrokerSends ==
    /\ job # NoJob /\ session # NoHost /\ ~job.sent
    /\ host[session].life \notin {"starting", "gone"}
    /\ job' = [job EXCEPT !.sent = TRUE]
    /\ host' = [host EXCEPT ![session].inbox = job.cmd]
    /\ UNCHANGED <<conn, late, left, session>>

BrokerReceives ==
    /\ job.sent /\ host[session].reply # "none"
    /\ IF job.for = "quit" THEN DaemonDies
       ELSE /\ Returns(host[session].reply, session)
            /\ host' = [host EXCEPT ![session].reply = "none"]

BrokerLoses ==
    /\ job # NoJob /\ session # NoHost
    /\ host[session].life = "gone" /\ host[session].reply = "none"
    /\ Drops("Disconnected")

\* The host does not join, or does not answer, in time.
BrokerTimesOut ==
    /\ job # NoJob /\ session # NoHost
    /\ job.sent \/ host[session].life = "starting"
    /\ Drops("TimedOut")

Next ==
    \/ BeginConnect \/ BeginDisconnect \/ Abandon \/ Acquire \/ Quit \/ DaemonDies
    \/ BrokerRefuses \/ LaunchFails \/ LaunchHost
    \/ BrokerSends \/ BrokerReceives \/ BrokerLoses \/ BrokerTimesOut
    \/ \E h \in Hosts : \/ HostJoins(h) \/ HostReads(h) \/ HostAnswers(h)
                        \/ HostEof(h) \/ HostKilled(h)
                        \/ \E e \in Engines : CoreDies(h, e)

Spec == Init /\ [][Next]_vars

-------------------------------------------------------------------------------
(* Properties *)

\* The processes of a host are the cores of the generation it answers for:
\* one that was replaced, failed to start or resisted its stop leaves none
\* behind that no later Stop would reach.
OneGeneration ==
    \A h \in Hosts : \A p \in host[h].alive : p[2] = host[h].gen

\* A Connect is answered only when the host it talks to has started both cores
\* of the very generation it staged, whatever hosts, generations and dropped
\* calls came before.  (A Disconnect that is dropped may stop them later while
\* the daemon still says Connected.)
ConnectIsServed ==
    [][conn.st # "Connected" /\ conn'.st = "Connected"
        => /\ session # NoHost
           /\ \/ host[session].life = "gone"
              \/ host[session].gen = conn.gen /\ host[session].flag = Engines]_vars

\* A daemon that is Ready again (after a Disconnect, a failed or dropped
\* Connect, a time-out, a restart) has no core in a host it is connected to:
\* what still runs is in a host that was cut off and will end.  Only a start
\* that its dropped request left waiting for the lock may run behind its back.
ReadyLeavesNoCores ==
    conn.st = "Ready" =>
        \A h \in Hosts : host[h].link => \A p \in host[h].alive : p[2] \in left
=============================================================================
