------------------------------ MODULE CoreService ------------------------------
(***************************************************************************)
(* The always-ready service: ServiceLoop (service/core_loop.rs), the       *)
(* connection threads of its server (windows_server.rs, unix_server.rs),   *)
(* the health ticker and the service process's own stop (windows_scm.rs,   *)
(* unix_server.rs::shut_down, update.rs).                                  *)
(*                                                                         *)
(* Everything that touches the ServiceLoop runs under one mutex, so one    *)
(* action is one critical section.  The mutex is not fair: any thread that *)
(* waits for it may be next.  A connection thread reads one command, waits *)
(* for the lock, executes, replies; it ends when the client is gone, and   *)
(* its last critical section is client_gone.  Update, StageUpdate and      *)
(* Troubleshoot leave the lock between their first and their last phase.   *)
(***************************************************************************)
EXTENDS Cores, Integers

CONSTANTS
    Conns,      \* connection ids, each used once
    NoConn,     \* owner: None
    Users,      \* user keys
    NoUser,     \* nobody holds the cores (for the abstract lease)
    UserOf,     \* the verified identity of each connection
    Admins,     \* the users whose connections carry administrator = true
    Gens,       \* profile generations a client may ask for
    NoGen,      \* prepared: None
    Commands,   \* the commands the clients send
    Platform    \* "windows" or "unix"

\* Every command of ServiceCommand.  Query stands for the read-only ones:
\* Status, Diagnostics, ServiceLog, CoreJournal and UpdateProgress.
CommandType ==
    [op : {"Prepare"}, gen : Gens]
        \cup [op : {"SetTun"}, on : BOOLEAN]
        \cup [op : {"Query", "Stop", "Shutdown", "Update", "StageUpdate"}]
        \cup [op : {"Troubleshoot"}, wintun : BOOLEAN]

ASSUME ConnsAssumption == NoConn \notin Conns
ASSUME UsersAssumption ==
    UserOf \in [Conns -> Users] /\ Admins \subseteq Users /\ NoUser \notin Users
ASSUME GensAssumption == NoGen \notin Gens
ASSUME CommandsAssumption == Commands \subseteq CommandType
ASSUME PlatformAssumption == Platform \in {"windows", "unix"}

VARIABLES
    owner,           \* the connection of ServiceLoop.owner, or NoConn
    prepared,        \* the prepared generation, or NoGen
    tunOn,           \* ServiceLoop.tun_on: what the service believes
    crashRestarts,   \* restarts of this generation, at most MaxCrashRestarts
    failure,         \* ServiceLoop.failure is Some
    cores,           \* what really runs (module Cores)
    updating,        \* an Update or StageUpdate downloads outside the lock
    troubleshooting, \* a Troubleshoot batch runs outside the lock
    launched,        \* ProductionUpdater.launched: the updater was started
    life,            \* the service process: "serving", "stopping" (the stop
                     \* event is set), "stopped" (run_body released the
                     \* cores) or "exited"
    client,          \* client[c]: the client still holds its end of c
    thread           \* thread[c]: the connection thread of c

loopVars == <<owner, prepared, tunOn, crashRestarts, failure, cores>>
slotVars == <<updating, troubleshooting, launched>>
vars == <<loopVars, slotVars, life, client, thread>>

MaxCrashRestarts == 1

(***************************************************************************)
(* Connection threads.  "queued": a command was read and waits for the     *)
(* lock; "download" and "fixing"/"fixed": a command between its phases,    *)
(* outside the lock; "replying": the answer is being written; "closing":   *)
(* the read loop is over and connection_closed waits for the lock.  A      *)
(* thread forgets what no longer matters: while it replies, every command  *)
(* but Shutdown; once it is idle, every answer but Prepared.               *)
(***************************************************************************)
Phases == {"none", "idle", "queued", "download", "fixing", "fixed",
           "replying", "closing", "ended"}
Answers == {"none", "Prepared", "TunOn", "TunOff", "Stopped", "ShuttingDown",
            "Info", "Busy", "Error", "UpdateStarted", "UpdateStaged",
            "Troubleshot"}
NoCommand == [op |-> "none"]

Thread(phase, cmd, answer) == [phase |-> phase, cmd |-> cmd, answer |-> answer]

Fresh == Thread("none", NoCommand, "none")
Ended == Thread("ended", NoCommand, "none")

Become(c, t) == thread' = [thread EXCEPT ![c] = t]
Answer(c, a) ==
    Become(c, Thread("replying",
                     IF thread[c].cmd.op = "Shutdown" THEN thread[c].cmd
                     ELSE NoCommand,
                     a))

Alive == life # "exited"

\* owner.user_key != client.user_key
Foreign(c) == owner # NoConn /\ UserOf[owner] # UserOf[c]

Queued(c, op) ==
    /\ Alive
    /\ thread[c].phase = "queued"
    /\ thread[c].cmd.op = op

Init ==
    /\ owner = NoConn
    /\ prepared = NoGen
    /\ tunOn = FALSE
    /\ crashRestarts = 0
    /\ failure = FALSE
    /\ cores = Stopped
    /\ updating = FALSE
    /\ troubleshooting = FALSE
    /\ launched = FALSE
    /\ life = "serving"
    /\ client = [c \in Conns |-> FALSE]
    /\ thread = [c \in Conns |-> Fresh]
-----------------------------------------------------------------------------
(***************************************************************************)
(* ServiceLoop: the bodies that run under the lock.                        *)
(***************************************************************************)

\* stop_cores.  It first switches a recorded tunnel off, which leaves no trace:
\* stop_all ends Mihomo and its adapter anyway.
StopCores ==
    /\ cores' = Stopped
    /\ prepared' = NoGen
    /\ tunOn' = FALSE
    /\ crashRestarts' = 0
    /\ failure' = FALSE

\* Mutant: the owner is forgotten and its cores are left running.
ReleaseOnly ==
    /\ owner' = NoConn
    /\ UNCHANGED <<prepared, tunOn, crashRestarts, failure, cores>>

StopEverything ==
    /\ StopCores
    /\ owner' = NoConn

\* The early return of prepare: this generation already runs.
AlreadyPrepared(g) == prepared = g /\ ~failure /\ Healthy(cores)

\* Mutant: the tunnel is switched on whether it was on or not.
AlwaysRaiseTunnel(c) ==
    \E t \in RaiseTunResults(c) :
        /\ cores' = t.cores
        /\ tunOn' = t.ok
        /\ failure' = ~t.ok

\* After prepare and restart: a tunnel that was on is switched on again; if it
\* does not come back, the failure is recorded.
RestoreTunnel(c) ==
    \E t \in (IF tunOn THEN RaiseTunResults(c) ELSE {Result(TRUE, c)}) :
        /\ cores' = t.cores
        /\ tunOn' = (tunOn /\ t.ok)
        /\ failure' = ~t.ok

\* prepare of a generation that does not run yet: everything is stopped and
\* launched again.
Relaunch(c, g) ==
    /\ crashRestarts' = 0
    /\ \E r \in PrepareResults :
          \/ /\ ~r.ok
             /\ prepared' = NoGen
             /\ failure' = TRUE
             /\ tunOn' = FALSE
             /\ cores' = r.cores
             /\ Answer(c, "Error")
          \/ /\ r.ok
             /\ prepared' = g
             /\ RestoreTunnel(r.cores)
             /\ Answer(c, "Prepared")

ExecutePrepare(c) ==
    /\ Queued(c, "Prepare") /\ ~Foreign(c)
    /\ owner' = c
    /\ LET g == thread[c].cmd.gen
       IN  \/ /\ AlreadyPrepared(g)
              /\ Answer(c, "Prepared")
              /\ UNCHANGED <<prepared, tunOn, crashRestarts, failure, cores>>
           \/ /\ ~AlreadyPrepared(g)
              /\ Relaunch(c, g)
    /\ UNCHANGED <<slotVars, life, client>>

\* set_tun(true): a failed switch-on is rolled back and recorded as off.
SwitchTunOn(c) ==
    \E r \in RaiseTunResults(cores) :
        /\ cores' = r.cores
        /\ tunOn' = r.ok
        /\ Answer(c, IF r.ok THEN "TunOn" ELSE "Error")

\* set_tun(false): after a failed switch-off the tunnel counts as on unless
\* the cores can tell that it is off.
SwitchTunOff(c) ==
    \E r \in SetTunResults(cores, FALSE) :
        /\ cores' = r.cores
        /\ \/ /\ r.ok
              /\ tunOn' = FALSE
              /\ Answer(c, "TunOff")
           \/ /\ ~r.ok
              /\ tunOn' \in TunIsOn(r.cores)
              /\ Answer(c, "Error")

\* Mutant: set_tun forgets to look at the recorded failure.
ReadyIgnoringFailure == prepared # NoGen

\* The guard of set_tun.
Ready == prepared # NoGen /\ ~failure

ExecuteSetTun(c) ==
    /\ Queued(c, "SetTun") /\ ~Foreign(c)
    /\ owner' = c
    /\ LET on == thread[c].cmd.on
       IN  \/ /\ ~Ready
              /\ Answer(c, "Error")
              /\ UNCHANGED <<tunOn, cores>>
           \/ /\ Ready /\ tunOn = on
              /\ Answer(c, IF on THEN "TunOn" ELSE "TunOff")
              /\ UNCHANGED <<tunOn, cores>>
           \/ Ready /\ ~tunOn /\ on /\ SwitchTunOn(c)
           \/ Ready /\ tunOn /\ ~on /\ SwitchTunOff(c)
    /\ UNCHANGED <<prepared, crashRestarts, failure, slotVars, life, client>>

ExecuteQuery(c) ==
    /\ Queued(c, "Query") /\ ~Foreign(c)
    /\ Answer(c, "Info")
    /\ UNCHANGED <<loopVars, slotVars, life, client>>

ExecuteStop(c) ==
    /\ Queued(c, "Stop") /\ ~Foreign(c)
    /\ owner' = c
    /\ StopCores
    /\ Answer(c, "Stopped")
    /\ UNCHANGED <<slotVars, life, client>>

ExecuteShutdown(c) ==
    /\ Queued(c, "Shutdown") /\ ~Foreign(c)
    /\ StopEverything
    /\ Answer(c, "ShuttingDown")
    /\ UNCHANGED <<slotVars, life, client>>

\* Another user's cores: every command is turned away.
ExecuteBusy(c) ==
    /\ Alive
    /\ thread[c].phase = "queued"
    /\ Foreign(c)
    /\ Answer(c, "Busy")
    /\ UNCHANGED <<loopVars, slotVars, life, client>>

\* Mutant: > for >=, one restart too many.
RestartSpentOffByOne == crashRestarts > MaxCrashRestarts

RestartSpent == crashRestarts >= MaxCrashRestarts

\* tick: a dead core is restarted once per prepared generation, with the
\* tunnel on again if it was on; the second time both are stopped and the
\* failure stays.  A tick that already waits for the lock when the stop event is
\* set still runs: run_body joins the ticker.
Tick ==
    /\ life \in {"serving", "stopping"}
    /\ prepared # NoGen /\ ~failure /\ ~Healthy(cores)
    /\ \/ /\ RestartSpent
          /\ tunOn' = FALSE
          /\ cores' = Stopped
          /\ failure' = TRUE
          /\ UNCHANGED crashRestarts
       \/ /\ ~RestartSpent
          /\ crashRestarts' = crashRestarts + 1
          /\ \E r \in RestartResults(cores) :
                \/ /\ ~r.ok
                   /\ cores' = Stopped
                   /\ tunOn' = FALSE
                   /\ failure' = TRUE
                \/ r.ok /\ RestoreTunnel(r.cores)
    /\ UNCHANGED <<owner, prepared, slotVars, life, client, thread>>
-----------------------------------------------------------------------------
(***************************************************************************)
(* Update, StageUpdate and Troubleshoot: phase 1 under the lock, the work  *)
(* outside it, phase 3 under it again.                                     *)
(***************************************************************************)

\* start_update.  Only Windows has an updater; it is taken out for the
\* download.
StartUpdate(c) ==
    /\ Queued(c, "Update") \/ Queued(c, "StageUpdate")
    /\ ~Foreign(c)
    /\ \/ /\ updating
          /\ Answer(c, "Busy")
          /\ UNCHANGED updating
       \/ /\ ~updating /\ Platform = "unix"
          /\ Answer(c, "Error")
          /\ UNCHANGED updating
       \/ /\ ~updating /\ Platform = "windows"
          /\ updating' = TRUE
          /\ Become(c, [thread[c] EXCEPT !.phase = "download"])
    /\ UNCHANGED <<loopVars, troubleshooting, launched, life, client>>

\* The result of ServiceUpdater::prepare and of begin: nothing after the
\* updater was launched, otherwise the network and the disk decide.
UpdaterResults == IF launched THEN {FALSE} ELSE BOOLEAN

\* Mutant: the error path of finish_stage leaves `updating` set.
FinishStageKeepsSlot(c) ==
    /\ Alive
    /\ thread[c].phase = "download" /\ thread[c].cmd.op = "StageUpdate"
    /\ Answer(c, "Error")
    /\ UNCHANGED <<loopVars, slotVars, life, client>>

\* finish_stage: whatever came of the download, nothing is stopped.
FinishStage(c) ==
    /\ Alive
    /\ thread[c].phase = "download" /\ thread[c].cmd.op = "StageUpdate"
    /\ updating' = FALSE
    /\ \E downloaded \in UpdaterResults :
          Answer(c, IF downloaded THEN "UpdateStaged" ELSE "Error")
    /\ UNCHANGED <<loopVars, troubleshooting, launched, life, client>>

\* Mutant: finish_update does not look at the owner again.
NeverClaimed(c) == FALSE

\* finish_update asks again: did another user claim the cores meanwhile?
ClaimedMeanwhile(c) == Foreign(c)

\* finish_update: unless the download failed or another user claimed the
\* cores meanwhile, stop everything and start the updater.
FinishUpdate(c) ==
    /\ Alive
    /\ thread[c].phase = "download" /\ thread[c].cmd.op = "Update"
    /\ updating' = FALSE
    /\ \E downloaded \in UpdaterResults :
          \/ /\ ~downloaded
             /\ Answer(c, "Error")
             /\ UNCHANGED <<loopVars, launched>>
          \/ /\ downloaded /\ ClaimedMeanwhile(c)
             /\ Answer(c, "Busy")
             /\ UNCHANGED <<loopVars, launched>>
          \/ /\ downloaded /\ ~ClaimedMeanwhile(c)
             /\ StopEverything
             /\ \E begun \in UpdaterResults :
                   /\ launched' = (launched \/ begun)
                   /\ Answer(c, IF begun THEN "UpdateStarted" ELSE "Error")
    /\ UNCHANGED <<troubleshooting, life, client>>

\* start_troubleshoot.  Only Windows has a troubleshooter.
StartTroubleshoot(c) ==
    /\ Queued(c, "Troubleshoot") /\ ~Foreign(c)
    /\ LET refused == \/ UserOf[c] \notin Admins
                      \/ tunOn /\ thread[c].cmd.wintun
                      \/ Platform = "unix"
       IN  \/ /\ updating \/ troubleshooting
              /\ Answer(c, "Busy")
              /\ UNCHANGED troubleshooting
           \/ /\ ~updating /\ ~troubleshooting /\ refused
              /\ Answer(c, "Error")
              /\ UNCHANGED troubleshooting
           \/ /\ ~updating /\ ~troubleshooting /\ ~refused
              /\ troubleshooting' = TRUE
              /\ Become(c, [thread[c] EXCEPT !.phase = "fixing"])
    /\ UNCHANGED <<loopVars, updating, launched, life, client>>

\* Troubleshooter::run, outside the lock: the Wintun fix removes MultiCore's
\* adapter from the system (or fails to), whoever uses it by now.
RunFixes(c) ==
    /\ Alive
    /\ thread[c].phase = "fixing"
    /\ Become(c, [thread[c] EXCEPT !.phase = "fixed"])
    /\ cores' \in {cores} \cup (IF thread[c].cmd.wintun
                               THEN {[cores EXCEPT !.tun = "down"]} ELSE {})
    /\ UNCHANGED <<owner, prepared, tunOn, crashRestarts, failure, slotVars,
                   life, client>>

\* Mutant: a batch whose client has left is not finished.
FinishIfAwaited(c) ==
    /\ Alive /\ client[c]
    /\ thread[c].phase = "fixed"
    /\ troubleshooting' = FALSE
    /\ Answer(c, "Troubleshot")
    /\ UNCHANGED <<loopVars, updating, launched, life, client>>

\* finish_troubleshoot; the troubleshooter returns one outcome per fix.
FinishTroubleshoot(c) ==
    /\ Alive
    /\ thread[c].phase = "fixed"
    /\ troubleshooting' = FALSE
    /\ Answer(c, "Troubleshot")
    /\ UNCHANGED <<loopVars, updating, launched, life, client>>
-----------------------------------------------------------------------------
(***************************************************************************)
(* The server's connections and their clients.                             *)
(***************************************************************************)

\* serve accepts a client and handle_connection verifies it.  Once the stop
\* event is set nobody is accepted any more.
Accept(c) ==
    /\ life = "serving"
    /\ thread[c] = Fresh
    /\ client' = [client EXCEPT ![c] = TRUE]
    /\ Become(c, Thread("idle", NoCommand, "none"))
    /\ UNCHANGED <<loopVars, slotVars, life>>

\* A client sends a command, and its thread reads it and asks for the lock.
SendCommand(c, cmd) ==
    /\ Alive
    /\ client[c] /\ thread[c].phase = "idle"
    /\ Become(c, Thread("queued", cmd, "none"))
    /\ UNCHANGED <<loopVars, slotVars, life, client>>

\* The client drops its end: it quit, crashed, or gave up on an exchange that
\* took too long, whatever the thread is doing.
Drop(c) ==
    /\ Alive /\ client[c]
    /\ client' = [client EXCEPT ![c] = FALSE]
    /\ UNCHANGED <<loopVars, slotVars, life, thread>>

\* The read loop ends on a frame that is no command (InvalidRequest), or a
\* client that stays silent at first is dropped (FIRST_COMMAND_TIMEOUT).
BadFrame(c) ==
    /\ Alive
    /\ client[c] /\ thread[c].phase = "idle"
    /\ Become(c, Thread("closing", NoCommand, "none"))
    /\ UNCHANGED <<loopVars, slotVars, life, client>>

\* The read loop ends because the client is gone or (Windows) the stop event
\* is set.
EndOfStream(c) ==
    /\ Alive
    /\ thread[c].phase = "idle"
    /\ ~client[c] \/ life # "serving"
    /\ Become(c, Thread("closing", NoCommand, "none"))
    /\ UNCHANGED <<loopVars, slotVars, life, client>>

\* The answer is written.  A write that fails (the client has left, or does
\* not read within IO_TIMEOUT) ends the loop, and so does an answered Shutdown.
Reply(c) ==
    /\ Alive
    /\ thread[c].phase = "replying"
    /\ \/ /\ client[c] /\ thread[c].cmd.op # "Shutdown"
          /\ Become(c, Thread("idle", NoCommand,
                              IF thread[c].answer = "Prepared" THEN "Prepared"
                              ELSE "none"))
       \/ Become(c, Thread("closing", NoCommand, "none"))
    /\ UNCHANGED <<loopVars, slotVars, life, client>>

\* Mutant: a closed connection leaves the cores to the next client.
LeaveCores(c) == UNCHANGED loopVars

\* Mutant: every connection that closes stops the cores.
StopWhoeverOwns(c) == StopEverything

\* client_gone: only the owner's connection stops the cores.
ClientGone(c) ==
    \/ owner = c /\ StopEverything
    \/ owner # c /\ UNCHANGED loopVars

\* connection_closed: client_gone under the lock, then the thread ends and
\* its end of the pipe closes.
ConnectionClosed(c) ==
    /\ Alive
    /\ thread[c].phase = "closing"
    /\ ClientGone(c)
    /\ client' = [client EXCEPT ![c] = FALSE]
    /\ Become(c, Ended)
    /\ UNCHANGED <<slotVars, life>>
-----------------------------------------------------------------------------
(***************************************************************************)
(* The rest of the world: dying cores, a late adapter, the service process *)
(* itself.                                                                 *)
(***************************************************************************)

CoreDies(engine) ==
    /\ cores[engine] = "running"
    /\ cores' = Exit(cores, engine)
    /\ UNCHANGED <<owner, prepared, tunOn, crashRestarts, failure, slotVars,
                   life, client, thread>>

\* The adapter of an unanswered switch-on comes up after all.
AdapterComesUp ==
    /\ cores.tun = "rising"
    /\ cores' = [cores EXCEPT !.tun = "up"]
    /\ UNCHANGED <<owner, prepared, tunOn, crashRestarts, failure, slotVars,
                   life, client, thread>>

\* control_handler on Windows: the stop event is set.
StopRequested ==
    /\ life = "serving" /\ Platform = "windows"
    /\ life' = "stopping"
    /\ UNCHANGED <<loopVars, slotVars, client, thread>>

\* Mutant: the launched updater waits for a stop nobody asks for.
HandOverForgotten == FALSE /\ UNCHANGED vars

\* The thread begin started: HANDOVER_DELAY later it sets the stop event.
HandOver ==
    /\ life = "serving" /\ launched
    /\ life' = "stopping"
    /\ UNCHANGED <<loopVars, slotVars, client, thread>>

\* The end of run_body: serve returned, the ticker was joined.  Connection
\* threads are not joined.
StopBody ==
    /\ life = "stopping"
    /\ life' = "stopped"
    /\ StopEverything
    /\ UNCHANGED <<slotVars, client, thread>>

\* The service process is gone, and with it its threads, its pipe ends and
\* (job object, process group) its cores.
Vanish ==
    /\ life' = "exited"
    /\ StopEverything
    /\ updating' = FALSE
    /\ troubleshooting' = FALSE
    /\ launched' = FALSE
    /\ client' = [c \in Conns |-> FALSE]
    /\ thread' = [c \in Conns |-> IF thread[c] = Fresh THEN Fresh ELSE Ended]

\* Windows: service_main returns after run_body.
ProcessExit == life = "stopped" /\ Vanish

\* Unix: shut_down holds the lock from stop_everything to the process's exit.
ShutDown == life = "serving" /\ Platform = "unix" /\ Vanish

\* The service process is killed.
ProcessKilled == Alive /\ Vanish

\* The service manager (or the updater) starts the service again.
ServiceStart ==
    /\ life = "exited"
    /\ life' = "serving"
    /\ UNCHANGED <<loopVars, slotVars, client, thread>>
-----------------------------------------------------------------------------
Execute(c) ==
    \/ ExecuteBusy(c)
    \/ ExecutePrepare(c)
    \/ ExecuteSetTun(c)
    \/ ExecuteQuery(c)
    \/ ExecuteStop(c)
    \/ ExecuteShutdown(c)
    \/ StartUpdate(c)
    \/ FinishStage(c)
    \/ FinishUpdate(c)
    \/ StartTroubleshoot(c)
    \/ RunFixes(c)
    \/ FinishTroubleshoot(c)

Serve(c) == EndOfStream(c) \/ Reply(c) \/ ConnectionClosed(c)

ClientStep(c) ==
    \/ Accept(c)
    \/ \E cmd \in Commands : SendCommand(c, cmd)
    \/ Drop(c)
    \/ BadFrame(c)

System ==
    \/ Tick
    \/ \E engine \in {"xray", "mihomo"} : CoreDies(engine)
    \/ AdapterComesUp
    \/ StopRequested
    \/ HandOver
    \/ StopBody
    \/ ProcessExit
    \/ ShutDown
    \/ ProcessKilled
    \/ ServiceStart

Next == System \/ \E c \in Conns : Execute(c) \/ Serve(c) \/ ClientStep(c)

Spec == Init /\ [][Next]_vars

\* A thread that can go on does: it gets the lock in the end, downloads and
\* fixes are bounded by their timeouts, and so is the write of an answer.  The
\* ticker keeps ticking, and the stop of the service, once begun, completes.
Fairness ==
    /\ \A c \in Conns : WF_vars(Execute(c)) /\ WF_vars(Serve(c))
    /\ WF_vars(Tick)
    /\ WF_vars(HandOver)
    /\ WF_vars(StopBody)
    /\ WF_vars(ProcessExit)

FairSpec == Spec /\ Fairness
-----------------------------------------------------------------------------
(***************************************************************************)
(* Properties.                                                             *)
(***************************************************************************)

ThreadType == [phase : Phases, cmd : CommandType \cup {NoCommand},
               answer : Answers]

\* Every variable keeps its type: the fields of ServiceLoop, the process's
\* life and the state of every connection thread.
TypeOK ==
    /\ owner \in Conns \cup {NoConn}
    /\ prepared \in Gens \cup {NoGen}
    /\ tunOn \in BOOLEAN
    /\ crashRestarts \in 0..MaxCrashRestarts
    /\ failure \in BOOLEAN
    /\ cores \in CoresType
    /\ updating \in BOOLEAN
    /\ troubleshooting \in BOOLEAN
    /\ launched \in BOOLEAN
    /\ life \in {"serving", "stopping", "stopped", "exited"}
    /\ client \in [Conns -> BOOLEAN]
    /\ thread \in [Conns -> ThreadType]

\* Cores never run for nobody: while ProductionCores is active, and while any
\* tunnel or prepared generation is left, the owner is a connection whose
\* thread has still to go through client_gone.  So no interleaving of drops,
\* timeouts and commands leaves cores (or a tunnel) behind that nothing stops.
CoresAreOwned ==
    cores.active \/ cores.tun # "down" \/ prepared # NoGen =>
        owner # NoConn /\ thread[owner].phase \notin {"none", "ended"}

\* What the loop has recorded is backed by the cores: a prepared generation
\* without a failure has its cores, and a tunnel recorded as on belongs to
\* such a generation (tick and SetTun rely on both).
RecordsAreBacked ==
    /\ prepared # NoGen /\ ~failure => cores.active
    /\ tunOn => prepared # NoGen /\ ~failure

Downloading(c) == thread[c].phase = "download"
Fixing(c) == thread[c].phase \in {"fixing", "fixed"}

\* The `updating` and `troubleshooting` flags are set exactly while one
\* connection thread holds the updater, or runs a batch, outside the lock.  A
\* flag that stays set would answer Busy for ever; one that is cleared early
\* would let two downloads or batches run at once.
SlotsAreExclusive ==
    /\ updating <=> \E c \in Conns : Downloading(c)
    /\ troubleshooting <=> \E c \in Conns : Fixing(c)
    /\ \A c, d \in Conns : \/ Downloading(c) /\ Downloading(d)
                           \/ Fixing(c) /\ Fixing(d)
                           => c = d

StepLeavesOthersAlone ==
    \A c \in Conns :
        /\ thread'[c] # thread[c] /\ life' # "exited"
        /\ thread[c].phase # "fixing"
        /\ owner # NoConn /\ UserOf[owner] # UserOf[c]
        => UNCHANGED <<owner, prepared, tunOn, failure, cores>>

\* A connection of another user never disturbs the owner's cores, whatever it
\* sends and however its Update or its departure interleaves with the owner's
\* commands (execute, finish_update and client_gone).  The one exception is a
\* Wintun fix that was admitted before the owner came: it takes the adapter
\* away from a tunnel raised since.
ForeignUserChangesNothing == [][StepLeavesOthersAlone]_vars

StepRaisesTunnelOnRequest ==
    ~tunOn /\ tunOn' =>
        \E c \in Conns : /\ thread[c].phase = "queued"
                         /\ thread[c].cmd.op = "SetTun" /\ thread[c].cmd.on
                         /\ thread'[c].answer = "TunOn"

\* The tunnel is recorded as on only after some client asked for it: neither a
\* crash restart nor a re-Prepare ever switches on a tunnel that was off.
TunnelRisesOnlyOnRequest == [][StepRaisesTunnelOnRequest]_vars

BothRun == cores.xray = "running" /\ cores.mihomo = "running"

StepKeepsBudget ==
    crashRestarts = MaxCrashRestarts /\ ~BothRun /\ BothRun' =>
        \E c \in Conns : thread[c].phase = "queued"
                         /\ thread[c].cmd.op = "Prepare"

\* Once the crash restart of a generation is spent, dead cores come back only
\* through another Prepare (tick: "restarted once per prepared generation").
RestartBudgetHolds == [][StepKeepsBudget]_vars

\* The service implements the abstract lease: the cores belong to one user at
\* a time and are stopped before another user gets them.
Holder == IF owner = NoConn THEN NoUser ELSE UserOf[owner]
Lease == INSTANCE CoreLease WITH holder <- Holder, running <- cores.active
LeaseSpec == Lease!Spec

\* The cores of a client that has left stop (or pass to another connection):
\* its thread always reaches client_gone, whatever it was doing.
VanishedClientReleases ==
    \A c \in Conns : owner = c /\ ~client[c] ~> owner # c

\* A dead core does not go unnoticed: the cores are running again, or the
\* failure is recorded for Status, or they were stopped on purpose.
CrashIsHandled ==
    prepared # NoGen /\ ~failure /\ ~BothRun
        ~> BothRun \/ failure \/ prepared = NoGen

\* An Update or StageUpdate gives the updater back and a Troubleshoot batch
\* frees its slot, so the next one is not Busy for ever.
SlotsAreFreed == (updating ~> ~updating) /\ (troubleshooting ~> ~troubleshooting)

\* Once the updater is launched, or the service is told to stop, its process
\* ends and its cores are gone, although connection threads are not joined.
StopCompletes == launched \/ life = "stopping" ~> life = "exited"
=============================================================================
