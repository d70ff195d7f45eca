--------------------------- MODULE DaemonConnection ---------------------------
(***************************************************************************)
(* The daemon's connection: CoreBackend (multicore-daemon/src/lib.rs), the *)
(* Supervisor it drives and the service watcher (main.rs), over the        *)
(* session of module ServiceSession.                                       *)
(*                                                                         *)
(* Tasks are HTTP requests and the watcher.  Two locks order them:         *)
(* generation_change (taken first) and operation.  The runtime state is    *)
(* read and written between their awaits, so an action is what a task does *)
(* from one await to the next.  A request's future may be dropped at an    *)
(* await (Abandon); the blocking call it waited for then runs on without   *)
(* it (orphan).  A generation id stands for staged files, a snapshot       *)
(* <<p, n>> for profile p with the n-th content (catalog_revision is a    *)
(* hash of both), and connect options are left at TUN.                     *)
(***************************************************************************)
EXTENDS ServiceSession, FiniteSets

CONSTANTS
    Profiles,    \* subscriptions the store may hold
    NoProfile,
    MaxCommits,  \* contents committed to the store, the saved one included
    Requests,    \* HTTP requests in flight at a time
    Watcher,     \* the task of spawn_service_watch
    NoTask,      \* a lock is free
    Ops,         \* the requests the desktop sends
    MaxOrphans,  \* blocking calls that may outlive their request (0 or 1)
    OnDemand     \* without the service, cores start through the elevated host

AllOps == {"Connect", "Disconnect", "Quit", "Select", "Refresh", "Activate",
           "Replace", "Import", "Delete"}

ASSUME ConnectionAssumption ==
    /\ NoProfile \notin Profiles /\ MaxCommits \in Nat \ {0}
    /\ Watcher \notin Requests /\ NoTask \notin Requests \cup {Watcher}
    /\ Ops \subseteq AllOps /\ MaxOrphans \in {0, 1} /\ OnDemand \in BOOLEAN

Tasks == Requests \cup {Watcher}
NoSnap == <<NoProfile, 0>>
Snapshots == (Profiles \X (1..MaxCommits)) \cup {NoSnap}
NoWarmUp == [snap |-> NoSnap, gen |-> NoGen, moved |-> FALSE]
NoController == [kind |-> "none", gen |-> NoGen]
Controllers == {NoController, [kind |-> "demand", gen |-> NoGen]}
                   \cup [kind : {"service"}, gen : Gens]

VARIABLES
    store,    \* ProfileStore: the active profile and each profile's content
    rt,       \* CoreRuntime
    quit,     \* shut_down: "no", "asked", or "done" once Quit was answered
    lock,     \* lock.op and lock.switch: the tasks that hold them
    task,     \* task[t]: where each task is
    warmup,   \* the warm-up the watcher runs: its snapshot and generation, and
              \* whether connect_attempts moved since it read it
    stage,    \* WarmStages.current and the snapshot every generation was made of
    ses, svc, \* the service session and the service
    host,     \* cores run through the on-demand elevated host
    orphan    \* the blocking call that outlived its request

vars == <<store, rt, quit, lock, task, warmup, stage, ses, svc, host, orphan>>

States == {"Empty", "Ready", "Connecting", "Connected", "Error"}

RuntimeType ==
    [st : States, snap : Snapshots, pending : Snapshots, ctl : Controllers,
     warm : Snapshots, degraded : BOOLEAN,
     again : BOOLEAN,     \* auto_reconnect is Some
     cooling : BOOLEAN,   \* last_auto_reconnect is within the cooldown
     stale : BOOLEAN]     \* a mutation answered Committed and the runtime was
                          \* not rebuilt from the store since

(***************************************************************************)
(* Where a task may be.  "switch": waits for generation_change; "pause",   *)
(* "resume": pause_/resume_after_generation_change; "connect",             *)
(* "disconnect": waits for operation; "factory": builds a controller;      *)
(* "claim".."replay": Supervisor.connect and the selection replay;         *)
(* "rollback", "stop": Supervisor.disconnect; "mutate", "commit": a        *)
(* profile mutation before and after it stopped the connection.            *)
(***************************************************************************)
Pcs == {"idle", "switch", "pause", "resume", "connect", "factory",
        "claim", "prepare", "tunOn", "hostOn", "replay", "rollback",
        "disconnect", "stop", "release", "fetch", "mutate", "commit", "tick",
        "lost", "warmFactory", "warmCheck", "warmPrepare", "warmDone"}
Calls == {"claim", "prepare", "tunOn", "stop", "rollback"}

TypeOK ==
    /\ store \in [active : Profiles \cup {NoProfile}, present : SUBSET Profiles,
                  commits : 1..MaxCommits, content : [Profiles -> 0..MaxCommits]]
    /\ rt \in RuntimeType
    /\ quit \in {"no", "asked", "done"}
    /\ lock \in [op : Tasks \cup {NoTask}, switch : Tasks \cup {NoTask}]
    /\ task \in [Tasks -> [pc : Pcs, op : AllOps \cup {"Watch", "ImportLive"},
                           arg : Profiles \cup {NoProfile}, resume : BOOLEAN]]
    /\ warmup \in [snap : Snapshots, gen : GenOrNone, moved : BOOLEAN]
    /\ stage \in [gen : GenOrNone, next : 1..(MaxGens + 1), of : [Gens -> Snapshots]]
    /\ ses \in SessionType /\ svc \in ServiceType /\ host \in BOOLEAN
    /\ orphan \in [pc : Calls \cup {"none", "late"}, gen : GenOrNone]

\* The snapshot a store d holds for profile p, and for its active profile.
SnapOf(d, p) == IF p = NoProfile THEN NoSnap ELSE <<p, d.content[p]>>
ActiveSnap(d) == SnapOf(d, d.active)

-------------------------------------------------------------------------------
(* CoreRuntime *)

\* clear_for_active; the pending reconnect survives it.
Cleared(r) ==
    [r EXCEPT !.st = "Empty", !.ctl = NoController, !.snap = NoSnap,
              !.pending = NoSnap, !.degraded = FALSE, !.warm = NoSnap, !.stale = FALSE]

\* apply_snapshot_metadata and its callers.
Applied(r, snap, ctl) ==
    [r EXCEPT !.st = IF @ \in {"Empty", "Error"} THEN "Ready" ELSE @,
              !.snap = snap, !.ctl = ctl, !.pending = NoSnap,
              !.degraded = FALSE, !.stale = FALSE]

\* mark_error(_, degraded = true): every caller passes true.
MarkError(r) == [r EXCEPT !.st = "Error", !.degraded = TRUE]

\* The connection ended cleanly.
Stopped(r) == [r EXCEPT !.st = "Ready", !.degraded = FALSE]

\* Mutant: the runtime is rebuilt from what it held, not from the store.
ReconciledFromRuntime(r, snap) ==
    {[Applied(Cleared(r), r.snap, NoController) EXCEPT !.warm = r.warm]}

\* reconcile_authoritative: the runtime is rebuilt from the store; a profile
\* that cannot be read leaves it empty.  The cores of an unchanged snapshot
\* stay warm.
Reconciled(r, snap) ==
    IF snap = NoSnap THEN {Cleared(r)}
    ELSE {[Applied(Cleared(r), snap, NoController) EXCEPT
              !.warm = IF r.warm = snap THEN snap ELSE NoSnap]}
         \cup If("store", {Cleared(r)})

CoresLive ==
    /\ ~rt.degraded
    /\ \/ rt.st = "Connected"
       \/ rt.st = "Ready" /\ rt.warm = rt.snap /\ CoresReady(ses)

-------------------------------------------------------------------------------
(* Tasks and locks *)

Go(t, pc) == task' = [task EXCEPT ![t].pc = pc]
AtRest(t) == [pc |-> "idle", op |-> IF t = Watcher THEN "Watch" ELSE "Connect",
              arg |-> NoProfile, resume |-> FALSE]
Idle(t) == [task EXCEPT ![t] = AtRest(t)]

\* What follows connect_now, disconnect_now and a mutation, and the locks the
\* task still holds then.  A request that ends leaves generation_change.
After(t, step) ==
    LET op == task[t].op IN
    CASE step = "connect" -> "idle"
      [] step = "disconnect" /\ op = "Disconnect" -> "idle"
      [] step = "disconnect" /\ op = "Quit" -> "release"
      [] step = "disconnect" /\ op = "Activate" -> "mutate"
      [] step = "disconnect" -> "resume"
      [] step = "mutate" /\ op = "Activate" -> "resume"
      [] step = "mutate" /\ op = "Refresh" -> "switch"
      [] OTHER -> "idle"

Leave(t, pc) ==
    /\ task' = IF pc = "idle" THEN Idle(t) ELSE [task EXCEPT ![t].pc = pc]
    /\ lock' = [op |-> NoTask,
                switch |-> IF pc = "idle" /\ lock.switch = t THEN NoTask
                           ELSE lock.switch]


-------------------------------------------------------------------------------
(***************************************************************************)
(* The controller factory (main.rs): probe the service, reuse the staged   *)
(* generation or stage a new one; without the service only a plain Connect *)
(* may fall back to the elevated host.  A miss drops the staged            *)
(* generation; a changed network interface is a miss at any time.  Staging *)
(* or activating the staged files may fail.                                *)
(***************************************************************************)
\* Mutants: an empty stage counts as a match; any staged snapshot does.
ReusableWhenEmpty(snap) ==
    /\ stage.gen # NoGen => stage.of[stage.gen] = snap
    /\ ses.rejected # stage.gen
ReusableAlways(snap) == stage.gen # NoGen /\ ses.rejected # stage.gen

Reusable(snap) ==
    /\ stage.gen # NoGen /\ stage.of[stage.gen] = snap
    /\ ses.rejected # stage.gen

FactoryResults(snap, serviceOnly) ==
    LET Built(o, kind, g, stg) == [ok |-> TRUE, ctl |-> [kind |-> kind, gen |-> g],
                                   s |-> o.s, v |-> o.v, stage |-> stg]
        Failed(o, stg) == [ok |-> FALSE, ctl |-> NoController,
                           s |-> o.s, v |-> o.v, stage |-> stg]
        fresh == [gen |-> stage.next, next |-> stage.next + 1,
                  of |-> [stage.of EXCEPT ![stage.next] = snap]]
        none == [stage EXCEPT !.gen = NoGen]
        Restaged(o) ==
            IF stage.next > MaxGens THEN {Failed(o, none)}
            ELSE {Built(o, "service", fresh.gen, fresh)}
                 \cup If("staging", {Failed(o, none), Failed(o, fresh)})
        Use(o) ==
            IF o.s.available
            THEN (IF Reusable(snap) THEN {Built(o, "service", stage.gen, stage)} ELSE {})
                 \cup (IF ~Reusable(snap) \/ "staging" \in Faults
                       THEN Restaged(o) ELSE {})
            ELSE {Failed(o, stage)}
                 \cup (IF ~serviceOnly /\ OnDemand
                       THEN {Built(o, "demand", NoGen, stage)} ELSE {})
    IN  UNION {Use(o) : o \in ProbeMode(ses, svc)}

FactoryRan(f) == ses' = f.s /\ svc' = f.v /\ stage' = f.stage

-------------------------------------------------------------------------------
(* Requests arrive.  Connect and Disconnect first cancel a pending reconnect. *)

Start(r, op, p, pc) ==
    task' = [task EXCEPT ![r] = [pc |-> pc, op |-> op, arg |-> p, resume |-> FALSE]]

Free(r, op) == op \in Ops /\ task[r].pc = "idle"

ArriveConnect(r) ==
    /\ Free(r, "Connect")
    /\ rt' = [rt EXCEPT !.again = FALSE]
    /\ \/ /\ lock.switch = NoTask
          /\ lock' = [lock EXCEPT !.switch = r]
          /\ Start(r, "Connect", NoProfile, "connect")
       \/ /\ lock.switch # NoTask
          /\ Start(r, "Connect", NoProfile, "switch")
          /\ UNCHANGED lock
    /\ UNCHANGED <<store, quit, warmup, stage, ses, svc, host, orphan>>

ArriveDisconnect(r) ==
    /\ Free(r, "Disconnect")
    /\ rt' = [rt EXCEPT !.again = FALSE]
    /\ Start(r, "Disconnect", NoProfile, "switch")
    /\ UNCHANGED <<store, quit, lock, warmup, stage, ses, svc, host, orphan>>

\* shutdown_cores does not take generation_change.
ArriveQuit(r) ==
    /\ Free(r, "Quit") /\ quit = "no"
    /\ quit' = "asked"
    /\ Start(r, "Quit", NoProfile, "disconnect")
    /\ UNCHANGED <<store, rt, lock, warmup, stage, ses, svc, host, orphan>>

\* Backend::activate_subscription of a profile in the list.
ArriveActivate(r) ==
    /\ Free(r, "Activate")
    /\ \E p \in store.present : Start(r, "Activate", p, "switch")
    /\ UNCHANGED <<store, rt, quit, lock, warmup, stage, ses, svc, host, orphan>>

MayRefreshOrDelete == ~rt.degraded /\ rt.st # "Connecting"

\* refresh_subscription (NoProfile) and refresh_subscription_profile.
ArriveRefresh(r) ==
    /\ Free(r, "Refresh") /\ MayRefreshOrDelete /\ store.active # NoProfile
    /\ \E p \in store.present \cup {NoProfile} : Start(r, "Refresh", p, "fetch")
    /\ UNCHANGED <<store, rt, quit, lock, warmup, stage, ses, svc, host, orphan>>

\* replace_subscription_source downloads under operation.
ArriveReplace(r) ==
    /\ Free(r, "Replace")
    /\ \E p \in store.present : Start(r, "Replace", p, "mutate")
    /\ UNCHANGED <<store, rt, quit, lock, warmup, stage, ses, svc, host, orphan>>

ArriveDelete(r) ==
    /\ Free(r, "Delete") /\ MayRefreshOrDelete
    /\ \E p \in store.present : Start(r, "Delete", p, "mutate")
    /\ UNCHANGED <<store, rt, quit, lock, warmup, stage, ses, svc, host, orphan>>

\* import_subscription: while connected the active profile is refreshed, any
\* other one downloaded first; otherwise the download runs under operation.
ArriveImport(r) ==
    /\ Free(r, "Import")
    /\ \E p \in Profiles :
          IF rt.st = "Connected" /\ ~rt.degraded
          THEN Start(r, IF p = store.active THEN "Refresh" ELSE "ImportLive",
                     IF p = store.active THEN NoProfile ELSE p, "fetch")
          ELSE Start(r, "Import", p, "mutate")
    /\ UNCHANGED <<store, rt, quit, lock, warmup, stage, ses, svc, host, orphan>>

\* A download outside the locks: it may fail.
Fetch(r) ==
    /\ task[r].pc = "fetch"
    /\ Go(r, "mutate") \/ ("store" \in Faults /\ task' = Idle(r))
    /\ UNCHANGED <<store, rt, quit, lock, warmup, stage, ses, svc, host, orphan>>

(***************************************************************************)
(* generation_change.  A Connect that had to wait for it takes a           *)
(* connection the switch made as its answer.  The automatic reconnect      *)
(* starts its cooldown.                                                    *)
(***************************************************************************)
TakeSwitch(t) ==
    /\ task[t].pc = "switch" /\ lock.switch = NoTask
    /\ LET op == task[t].op IN
       IF op = "Connect" /\ rt.st = "Connected"
       THEN task' = Idle(t) /\ UNCHANGED lock
       ELSE /\ lock' = [lock EXCEPT !.switch = t]
            /\ Go(t, CASE op \in {"Connect", "Watch"} -> "connect"
                       [] op = "Disconnect" -> "disconnect"
                       [] OTHER -> "pause")
    /\ rt' = [rt EXCEPT !.cooling = @ \/ task[t].op = "Watch"]
    /\ UNCHANGED <<store, quit, warmup, stage, ses, svc, host, orphan>>

\* pause_for_generation_change: a switch pauses a connection on another
\* profile, a refresh one whose pending snapshot changes the runtime (its
\* payload may be the same).
Pausing(t) ==
    /\ rt.st = "Connected" /\ ~rt.degraded /\ ses.available
    /\ IF task[t].op = "Activate" THEN rt.snap[1] # task[t].arg
       ELSE rt.pending # NoSnap

Pause(t) ==
    /\ task[t].pc = "pause"
    /\ \/ Pausing(t) /\ Go(t, "disconnect")
       \/ /\ ~Pausing(t) \/ task[t].op = "Refresh"
          /\ Go(t, IF task[t].op = "Activate" THEN "mutate" ELSE "resume")
    /\ UNCHANGED <<store, rt, quit, lock, warmup, stage, ses, svc, host, orphan>>

Resume(t) ==
    /\ task[t].pc = "resume"
    /\ IF task[t].resume /\ quit = "no"
       THEN Go(t, "connect") /\ UNCHANGED lock
       ELSE /\ task' = Idle(t)
            /\ lock' = [lock EXCEPT !.switch = NoTask]
    /\ UNCHANGED <<store, rt, quit, warmup, stage, ses, svc, host, orphan>>

-------------------------------------------------------------------------------
(* connect_now, with Supervisor.connect *)

ConnectBegin(t) ==
    /\ task[t].pc = "connect" /\ lock.op = NoTask
    /\ warmup' = [warmup EXCEPT !.moved = warmup # NoWarmUp]
    /\ IF ~rt.degraded /\ rt.st = "Ready" /\ rt.snap # NoSnap
       THEN Go(t, "factory") /\ lock' = [lock EXCEPT !.op = t]
       ELSE Leave(t, After(t, "connect"))
    /\ UNCHANGED <<store, rt, quit, stage, ses, svc, host, orphan>>

ConnectFactory(t) ==
    /\ task[t].pc = "factory"
    /\ \E f \in FactoryResults(rt.snap, task[t].op = "Watch") :
          /\ FactoryRan(f)
          /\ IF f.ok
             THEN /\ rt' = [rt EXCEPT !.ctl = f.ctl, !.st = "Connecting"]
                  /\ Go(t, IF f.ctl.kind = "service" THEN "claim" ELSE "hostOn")
                  /\ UNCHANGED lock
             ELSE UNCHANGED rt /\ Leave(t, After(t, "connect"))
    /\ UNCHANGED <<store, quit, warmup, host, orphan>>

ConnectClaim(t) ==
    /\ task[t].pc = "claim"
    /\ ses' = Claim(ses, rt.ctl.gen)
    /\ Go(t, "prepare")
    /\ UNCHANGED <<store, rt, quit, lock, warmup, stage, svc, host, orphan>>

\* A failed start went back to Ready; only a failed roll-back is an error.
ConnectPrepare(t) ==
    /\ task[t].pc = "prepare"
    /\ \E o \in StartXray(ses, svc, rt.ctl.gen) :
          /\ ses' = o.s /\ svc' = o.v
          /\ IF o.res = "Ok"
             THEN Go(t, "tunOn") /\ UNCHANGED <<rt, lock>>
             ELSE rt' = Stopped(rt) /\ Leave(t, After(t, "connect"))
    /\ UNCHANGED <<store, quit, warmup, stage, host, orphan>>

\* Rolling back stops Xray, which only releases the claim.
ConnectTunOn(t) ==
    /\ task[t].pc = "tunOn"
    /\ \E o \in StartMihomo(ses, svc) :
          /\ svc' = o.v
          /\ IF o.res = "Ok"
             THEN ses' = o.s /\ Go(t, "replay") /\ UNCHANGED <<rt, lock>>
             ELSE /\ ses' = ReleaseClaim(o.s)
                  /\ rt' = Stopped(rt) /\ Leave(t, After(t, "connect"))
    /\ UNCHANGED <<store, quit, warmup, stage, host, orphan>>

\* The same through the elevated host, where stopping Xray again may fail.
ConnectHostOn(t) ==
    /\ task[t].pc = "hostOn"
    /\ \/ host' = TRUE /\ Go(t, "replay") /\ UNCHANGED <<rt, lock>>
       \/ /\ "host" \in Faults /\ UNCHANGED host
          /\ rt' = Stopped(rt) /\ Leave(t, After(t, "connect"))
       \/ /\ "host" \in Faults /\ host' = TRUE
          /\ rt' = MarkError(rt) /\ Leave(t, After(t, "connect"))
    /\ UNCHANGED <<store, quit, warmup, stage, ses, svc, orphan>>

ConnectReplay(t) ==
    /\ task[t].pc = "replay"
    /\ \/ /\ rt' = [rt EXCEPT !.st = "Connected", !.degraded = FALSE]
          /\ Leave(t, After(t, "connect"))
       \/ "replay" \in Faults /\ Go(t, "rollback") /\ UNCHANGED <<rt, lock>>
    /\ UNCHANGED <<store, quit, warmup, stage, ses, svc, host, orphan>>

\* Supervisor.disconnect through the runtime's controller.
StopResults ==
    IF rt.ctl.kind = "service"
    THEN {[ok |-> o.res = "Ok", s |-> o.s, v |-> o.v, host |-> host] :
             o \in StopMihomo(ses, svc)}
    ELSE {[ok |-> ok, s |-> ses, v |-> svc, host |-> host /\ ~ok] :
             ok \in {TRUE} \cup If("host", {FALSE})}

StopRan(o) == ses' = o.s /\ svc' = o.v /\ host' = o.host

\* Mutant: a roll-back that failed still goes back to Ready.
RollbackForgiven(t) ==
    /\ task[t].pc = "rollback"
    /\ \E o \in StopResults : StopRan(o)
    /\ rt' = Stopped(rt)
    /\ Leave(t, After(t, "connect"))
    /\ UNCHANGED <<store, quit, warmup, stage, orphan>>

ConnectRollback(t) ==
    /\ task[t].pc = "rollback"
    /\ \E o \in StopResults :
          /\ StopRan(o)
          /\ rt' = IF o.ok THEN Stopped(rt) ELSE MarkError(rt)
    /\ Leave(t, After(t, "connect"))
    /\ UNCHANGED <<store, quit, warmup, stage, orphan>>

-------------------------------------------------------------------------------
(* disconnect_now, and the other places that stop a connection *)

Resuming(t, ok) == ok /\ task[t].op \in {"Activate", "Refresh"}

\* Mutant: the request ends and keeps generation_change.
LeaveStoppedHolding(t, ok) ==
    LET pc == After(t, "disconnect") IN
    /\ task' = IF pc = "idle" THEN Idle(t)
               ELSE [task EXCEPT ![t].pc = pc, ![t].resume = Resuming(t, ok)]
    /\ lock' = [lock EXCEPT !.op = NoTask]

LeaveStopped(t, ok) ==
    LET pc == After(t, "disconnect") IN
    /\ task' = IF pc = "idle" THEN Idle(t)
               ELSE [task EXCEPT ![t].pc = pc, ![t].resume = Resuming(t, ok)]
    /\ lock' = [op |-> NoTask,
                switch |-> IF pc = "idle" /\ lock.switch = t THEN NoTask
                           ELSE lock.switch]

\* Mutant: the disconnect does not wait for operation.
DisconnectUnlocked(t) ==
    /\ task[t].pc = "disconnect"
    /\ IF rt.st \notin {"Empty", "Ready"} /\ rt.ctl # NoController
       THEN Go(t, "stop") /\ lock' = [lock EXCEPT !.op = t]
       ELSE LeaveStopped(t, rt.st \in {"Empty", "Ready"})
    /\ UNCHANGED <<store, rt, quit, warmup, stage, ses, svc, host, orphan>>

DisconnectBegin(t) ==
    /\ task[t].pc = "disconnect" /\ lock.op = NoTask
    /\ IF rt.st \notin {"Empty", "Ready"} /\ rt.ctl # NoController
       THEN Go(t, "stop") /\ lock' = [lock EXCEPT !.op = t]
       ELSE LeaveStopped(t, rt.st \in {"Empty", "Ready"})
    /\ UNCHANGED <<store, rt, quit, warmup, stage, ses, svc, host, orphan>>

\* Disconnect, Quit and a pause end alike.
DisconnectStop(t) ==
    /\ task[t].pc = "stop" /\ task[t].op \notin {"Watch", "Delete"}
    /\ \E o \in StopResults :
          /\ StopRan(o)
          /\ LeaveStopped(t, o.ok)
          /\ IF o.ok THEN rt' \in Reconciled(Stopped(rt), ActiveSnap(store))
             ELSE rt' = MarkError(rt)
    /\ UNCHANGED <<store, quit, warmup, stage, orphan>>

\* cores_lost: schedule one automatic reconnect outside the cooldown.
LostStop ==
    /\ task[Watcher].pc = "stop"
    /\ \E o \in StopResults :
          /\ StopRan(o)
          /\ IF o.ok
             THEN LET r == [Stopped(rt) EXCEPT !.warm = NoSnap,
                                !.again = IF quit = "no" /\ ~rt.cooling THEN TRUE ELSE @]
                  IN  rt' \in Reconciled(r, ActiveSnap(store))
             ELSE rt' = MarkError(rt)
    /\ Leave(Watcher, "idle")
    /\ UNCHANGED <<store, quit, warmup, stage, orphan>>

\* stop_connection_for_profile_mutation: operation is kept for the deletion.
DeleteStop(t) ==
    /\ task[t].pc = "stop" /\ task[t].op = "Delete"
    /\ \E o \in StopResults :
          /\ StopRan(o)
          /\ IF o.ok THEN rt' = Stopped(rt) /\ Go(t, "commit") /\ UNCHANGED lock
             ELSE rt' = MarkError(rt) /\ Leave(t, "idle")
    /\ UNCHANGED <<store, quit, warmup, stage, orphan>>

\* readiness.release(): at the end of Quit, and by the watcher when no profile
\* is left.
Release(t) ==
    /\ task[t].pc = "release"
    /\ ses' = Shutdown(ses, svc).s /\ svc' = Shutdown(ses, svc).v
    /\ quit' = IF task[t].op = "Quit" THEN "done" ELSE quit
    /\ task' = Idle(t)
    /\ UNCHANGED <<store, rt, lock, warmup, stage, host, orphan>>

-------------------------------------------------------------------------------
(***************************************************************************)
(* Profile mutations.  Each runs under operation; the store is changed     *)
(* first and the runtime rebuilt from it in one write.  A mutation may     *)
(* fail, change the store and rebuild the runtime, or change the store and *)
(* answer Committed: then the runtime was rebuilt from what could be read, *)
(* or (a selection that could not be carried over, a deletion that failed  *)
(* after the connection was stopped) left as it was.                       *)
(***************************************************************************)
NotMutable(t) ==
    CASE task[t].op \in {"Activate", "Import", "Replace"} ->
            rt.degraded \/ rt.st \in {"Connecting", "Connected"}
      [] task[t].op = "Refresh" -> ~MayRefreshOrDelete \/ store.active = NoProfile
      [] task[t].op = "Delete" -> ~MayRefreshOrDelete
      [] OTHER -> FALSE

\* Activate and Delete also look before they wait for operation.
MutateRefused(t) ==
    /\ task[t].pc = "mutate" /\ NotMutable(t)
    /\ lock.op = NoTask \/ task[t].op \in {"Activate", "Delete"}
    /\ IF task[t].op = "Activate" THEN Go(t, "resume") ELSE task' = Idle(t)
    /\ UNCHANGED <<store, rt, quit, lock, warmup, stage, ses, svc, host, orphan>>

Locked(t, op) ==
    task[t].pc = "mutate" /\ task[t].op = op /\ lock.op = NoTask /\ ~NotMutable(t)

\* The runtime after the active snapshot became snap while disconnected: a
\* controller is prepared first, which may fail without failing the mutation.
Rebuilt(snap) ==
    \E f \in FactoryResults(snap, FALSE) :
        /\ FactoryRan(f)
        /\ rt' \in {Applied(Cleared(rt), snap, f.ctl)} \cup Reconciled(rt, snap)

Behind == "store" \in Faults /\ rt' = [rt EXCEPT !.stale = TRUE] /\ UNCHANGED <<stage, ses, svc>>

\* The profile a mutation is about: the active one unless the request names it.
Target(t) == IF task[t].arg = NoProfile THEN store.active ELSE task[t].arg
CanCommit == store.commits < MaxCommits

\* The store refuses, or the profile is no longer in the list.
MutateFails(t) ==
    /\ task[t].pc = "mutate" /\ lock.op = NoTask /\ ~NotMutable(t)
    /\ \/ "store" \in Faults \/ ~CanCommit
       \/ task[t].op \notin {"Import", "ImportLive"} /\ Target(t) \notin store.present
    /\ Leave(t, IF task[t].op = "Refresh" /\ task[t].arg # NoProfile THEN "idle"
                ELSE After(t, "mutate"))
    /\ UNCHANGED <<store, rt, quit, warmup, stage, ses, svc, host, orphan>>

Activate(t) ==
    /\ Locked(t, "Activate") /\ task[t].arg \in store.present
    /\ store' = [store EXCEPT !.active = task[t].arg]
    /\ Rebuilt(ActiveSnap(store'))
    /\ Leave(t, After(t, "mutate"))
    /\ UNCHANGED <<quit, warmup, host, orphan>>

\* The store with the next content of profile p (and p in the list).
Replaced(p) == [store EXCEPT !.content[p] = store.commits + 1, !.commits = @ + 1,
                            !.present = @ \cup {p}]

\* replace_profile_source_locked.  Of an inactive profile only the store
\* changes; while connected the new snapshot waits as pending.
Refresh(t) ==
    /\ Locked(t, "Refresh") \/ Locked(t, "Replace")
    /\ Target(t) \in store.present /\ CanCommit
    /\ store' = Replaced(Target(t))
    /\ \/ /\ CASE Target(t) # store.active -> UNCHANGED <<rt, stage, ses, svc>>
              [] Target(t) = store.active /\ rt.st = "Connected" ->
                    /\ rt' = [rt EXCEPT !.pending = ActiveSnap(store')]
                    /\ UNCHANGED <<stage, ses, svc>>
              [] OTHER -> Rebuilt(ActiveSnap(store'))
          /\ Leave(t, After(t, "mutate"))
       \/ /\ Target(t) = store.active /\ Behind
          /\ Leave(t, IF task[t].arg # NoProfile THEN "idle" ELSE After(t, "mutate"))
    /\ UNCHANGED <<quit, warmup, host, orphan>>

\* Replacing an existing profile may succeed and activating it fail.
Import(t) ==
    LET p == task[t].arg IN
    /\ Locked(t, "Import") /\ CanCommit
    /\ \/ /\ store' = [Replaced(p) EXCEPT !.active = p]
          /\ Rebuilt(ActiveSnap(store')) \/ (p \in store.present /\ Behind)
       \/ /\ "store" \in Faults /\ p \in store.present
          /\ store' = Replaced(p)
          /\ rt' \in Reconciled(rt, ActiveSnap(store'))
          /\ UNCHANGED <<stage, ses, svc>>
    /\ Leave(t, After(t, "mutate"))
    /\ UNCHANGED <<quit, warmup, host, orphan>>

\* store_inactive_profile_locked, then the switch of activate_subscription.
\* Whether the profile is still inactive is not looked at again.
ImportLive(t) ==
    LET p == task[t].arg IN
    /\ Locked(t, "ImportLive") /\ CanCommit
    /\ store' = Replaced(p)
    /\ rt' = [rt EXCEPT !.stale = @ \/ p = store.active]
    /\ task' = [task EXCEPT ![t].op = "Activate", ![t].pc = "switch"]
    /\ UNCHANGED <<quit, lock, warmup, stage, ses, svc, host, orphan>>

\* Deleting the active profile stops its connection first.
DeleteBegin(t) ==
    /\ Locked(t, "Delete") /\ task[t].arg = store.active /\ rt.st = "Connected"
    /\ lock' = [lock EXCEPT !.op = t]
    /\ Go(t, "stop")
    /\ UNCHANGED <<store, rt, quit, warmup, stage, ses, svc, host, orphan>>

DeleteCommit(t) ==
    LET p == task[t].arg IN
    /\ \/ task[t].pc = "commit"
       \/ Locked(t, "Delete") /\ ~(p = store.active /\ rt.st = "Connected")
    /\ \/ /\ p \in store.present
          /\ \E next \in IF p # store.active THEN {store.active}
                         ELSE IF store.present = {p} THEN {NoProfile}
                         ELSE store.present \ {p} :
                store' = [store EXCEPT !.present = @ \ {p}, !.active = next]
          /\ IF p = store.active THEN rt' \in Reconciled(rt, ActiveSnap(store'))
             ELSE UNCHANGED rt
       \/ /\ task[t].pc = "commit" /\ "store" \in Faults
          /\ rt' = [rt EXCEPT !.stale = TRUE]
          /\ UNCHANGED store
    /\ Leave(t, "idle")
    /\ UNCHANGED <<quit, warmup, stage, ses, svc, host, orphan>>

\* select changes no connection state unless a live selection was made, could
\* not be saved and could not be taken back.
Select(r) ==
    /\ Free(r, "Select") /\ "replay" \in Faults /\ lock.op = NoTask
    /\ rt.st \in {"Ready", "Connected"} /\ ~rt.degraded /\ rt.snap # NoSnap
    /\ CoresLive
    /\ rt' = MarkError(rt)
    /\ UNCHANGED <<store, quit, lock, task, warmup, stage, ses, svc, host, orphan>>

-------------------------------------------------------------------------------
(* The watcher *)

WatchPoll ==
    /\ task[Watcher].pc = "idle"
    /\ \E o \in IF ses.available THEN Poll(ses, svc) ELSE ProbeMode(ses, svc) :
          ses' = o.s /\ svc' = o.v
    /\ Go(Watcher, "tick")
    /\ UNCHANGED <<store, rt, quit, lock, warmup, stage, host, orphan>>

\* Mutant: cores once marked warm are never looked at again.
MayWarmOnce == ses.available /\ ~rt.degraded /\ rt.snap # NoSnap /\ rt.warm # rt.snap

MayWarm == ses.available /\ ~rt.degraded /\ rt.snap # NoSnap /\ ~CoresLive

\* watch_service: what the state calls for.
Tick ==
    /\ task[Watcher].pc = "tick"
    /\ LET st == IF quit = "no" THEN rt.st ELSE "quit"
           lost == st = "Connected" /\ ConnectionLost(ses)
           reconnect == st = "Ready" /\ rt.again
           warm == st = "Ready" /\ ~rt.again /\ MayWarm
           empty == st = "Empty" /\ CoresReady(ses)
       IN  /\ Go(Watcher, CASE lost -> "lost"
                            [] reconnect /\ ses.available -> "switch"
                            [] warm -> "warmFactory"
                            [] empty -> "release"
                            [] OTHER -> "idle")
           /\ rt' = IF st \in {"quit", "Connected"} THEN rt
                    ELSE [rt EXCEPT !.again = FALSE]
           /\ warmup' = IF warm THEN [snap |-> rt.snap, gen |-> NoGen, moved |-> FALSE]
                        ELSE warmup
    /\ UNCHANGED <<store, quit, lock, stage, ses, svc, host, orphan>>

LostBegin ==
    /\ task[Watcher].pc = "lost" /\ lock.op = NoTask
    /\ IF rt.st = "Connected" /\ ConnectionLost(ses)
       THEN Go(Watcher, "stop") /\ lock' = [lock EXCEPT !.op = Watcher]
       ELSE Go(Watcher, "idle") /\ UNCHANGED lock
    /\ UNCHANGED <<store, rt, quit, warmup, stage, ses, svc, host, orphan>>

\* warm_up, which takes neither lock.  A failure clears a warm mark.
WarmFailed == [rt EXCEPT !.warm = IF rt.st = "Ready" /\ ~warmup.moved
                                     /\ rt.warm = warmup.snap THEN NoSnap ELSE @]

WarmFactory ==
    /\ task[Watcher].pc = "warmFactory"
    /\ \E f \in FactoryResults(warmup.snap, TRUE) :
          /\ FactoryRan(f)
          /\ IF f.ok
             THEN /\ warmup' = [warmup EXCEPT !.gen = f.ctl.gen]
                  /\ Go(Watcher, "warmCheck") /\ UNCHANGED rt
             ELSE Go(Watcher, "idle") /\ rt' = WarmFailed /\ warmup' = NoWarmUp
    /\ UNCHANGED <<store, quit, lock, host, orphan>>

Superseded == warmup.moved \/ rt.st # "Ready" \/ rt.snap # warmup.snap

WarmCheck ==
    /\ task[Watcher].pc = "warmCheck"
    /\ IF Superseded THEN Go(Watcher, "idle") /\ warmup' = NoWarmUp
       ELSE Go(Watcher, "warmPrepare") /\ UNCHANGED warmup
    /\ UNCHANGED <<store, rt, quit, lock, stage, ses, svc, host, orphan>>

WarmPrepare ==
    /\ task[Watcher].pc = "warmPrepare"
    /\ \E o \in PrepareIdle(ses, svc, warmup.gen) :
          /\ ses' = o.s /\ svc' = o.v
          /\ IF o.res = "Ok" THEN Go(Watcher, "warmDone") /\ UNCHANGED <<rt, warmup>>
             ELSE Go(Watcher, "idle") /\ rt' = WarmFailed /\ warmup' = NoWarmUp
    /\ UNCHANGED <<store, quit, lock, stage, host, orphan>>

WarmDone ==
    /\ task[Watcher].pc = "warmDone"
    /\ rt' = [rt EXCEPT !.warm = IF rt.snap = warmup.snap THEN warmup.snap ELSE @]
    /\ warmup' = NoWarmUp
    /\ Go(Watcher, "idle")
    /\ UNCHANGED <<store, quit, lock, stage, ses, svc, host, orphan>>

-------------------------------------------------------------------------------
(***************************************************************************)
(* A client that gives up drops the handler's future at an await: its      *)
(* guards free the locks, AbandonedConnectGuard turns Connecting into a    *)
(* degraded error, and a blocking call in flight runs on as the orphan.    *)
(* Synchronous steps cannot be dropped.                                    *)
(***************************************************************************)
\* Mutant: no guard covers the dropped future.
AbandonedUnguarded(r) == rt

AbandonedConnect(r) ==
    IF rt.st = "Connecting" /\ lock.op = r THEN MarkError(rt) ELSE rt

Abandon(r) ==
    LET pc == task[r].pc IN
    /\ "drop" \in Faults /\ pc \notin {"idle", "factory", "commit", "release"}
    /\ IF pc \in Calls /\ rt.ctl.kind = "service"
       THEN /\ MaxOrphans = 1 /\ orphan.pc = "none"
            /\ orphan' = [pc |-> pc, gen |-> rt.ctl.gen]
       ELSE UNCHANGED orphan
    /\ host' \in IF pc = "hostOn" THEN {host, TRUE}
                 ELSE IF pc \in {"stop", "rollback"} THEN {host, FALSE} ELSE {host}
    /\ rt' = AbandonedConnect(r)
    /\ task' = Idle(r)
    /\ lock' = [k \in {"op", "switch"} |-> IF lock[k] = r THEN NoTask ELSE lock[k]]
    /\ UNCHANGED <<store, quit, warmup, stage, ses, svc>>

Orphan ==
    /\ \/ /\ orphan.pc = "claim"
          /\ ses' = Claim(ses, orphan.gen) /\ UNCHANGED svc
          /\ orphan' = [orphan EXCEPT !.pc = "prepare"]
       \/ /\ orphan.pc = "prepare"
          /\ \E o \in StartXray(ses, svc, orphan.gen) : ses' = o.s /\ svc' = o.v
          /\ orphan' = [pc |-> "none", gen |-> NoGen]
       \/ /\ orphan.pc = "tunOn"
          /\ \E o \in StartMihomo(ses, svc) :
                /\ ses' = o.s /\ svc' = o.v
                /\ orphan' = [pc |-> IF o.res = "Ok" THEN "late" ELSE "none",
                              gen |-> NoGen]
       \/ /\ orphan.pc \in {"stop", "rollback"}
          /\ \E o \in StopMihomo(ses, svc) : ses' = o.s /\ svc' = o.v
          /\ orphan' = [pc |-> "none", gen |-> NoGen]
    /\ UNCHANGED <<store, rt, quit, lock, task, warmup, stage, host>>

\* What the service does by itself, and the end of the reconnect cooldown.
CoresDie ==
    /\ "death" \in Faults /\ svc.gen # NoGen
    /\ \/ svc' = [svc EXCEPT !.gen = NoGen, !.tun = FALSE]
       \/ svc.tun /\ svc' = [svc EXCEPT !.tun = FALSE]
    /\ UNCHANGED <<store, rt, quit, lock, task, warmup, stage, ses, host, orphan>>

ServiceExits ==
    /\ "exit" \in Faults /\ svc.up /\ svc' = [Released(svc) EXCEPT !.up = FALSE]
    /\ UNCHANGED <<store, rt, quit, lock, task, warmup, stage, ses, host, orphan>>

ServiceStarts ==
    /\ ~svc.up /\ svc' = [svc EXCEPT !.up = TRUE]
    /\ UNCHANGED <<store, rt, quit, lock, task, warmup, stage, ses, host, orphan>>

CooldownEnds ==
    /\ rt.cooling /\ rt' = [rt EXCEPT !.cooling = FALSE]
    /\ UNCHANGED <<store, quit, lock, task, warmup, stage, ses, svc, host, orphan>>

-------------------------------------------------------------------------------
\* from_prepared_factory: the saved active profile is loaded without controller.
Init ==
    /\ \E p \in Profiles :
          store = [active |-> p, present |-> {p}, commits |-> 1,
                   content |-> [q \in Profiles |-> IF q = p THEN 1 ELSE 0]]
    /\ rt = [st |-> "Ready", snap |-> ActiveSnap(store), pending |-> NoSnap,
             ctl |-> NoController, warm |-> NoSnap, degraded |-> FALSE,
             again |-> FALSE, cooling |-> FALSE, stale |-> FALSE]
    /\ quit = "no"
    /\ lock = [op |-> NoTask, switch |-> NoTask]
    /\ task = [t \in Tasks |-> AtRest(t)]
    /\ warmup = NoWarmUp
    /\ stage = [gen |-> NoGen, next |-> 1, of |-> [g \in Gens |-> NoSnap]]
    /\ ses = NewSession
    /\ svc = [up |-> TRUE, link |-> FALSE, gen |-> NoGen, tun |-> FALSE]
    /\ host = FALSE
    /\ orphan = [pc |-> "none", gen |-> NoGen]

Arrive(r) ==
    \/ ArriveConnect(r) \/ ArriveDisconnect(r) \/ ArriveQuit(r) \/ ArriveActivate(r)
    \/ ArriveRefresh(r) \/ ArriveReplace(r) \/ ArriveDelete(r) \/ ArriveImport(r) \/ Select(r)

\* Steps that wait for a lock, and the others.
Acquire(t) ==
    \/ TakeSwitch(t) \/ ConnectBegin(t) \/ DisconnectBegin(t) \/ MutateRefused(t)
    \/ MutateFails(t) \/ Activate(t) \/ Refresh(t) \/ Import(t) \/ ImportLive(t)
    \/ DeleteBegin(t) \/ DeleteCommit(t)

Proceed(t) ==
    \/ Fetch(t) \/ Pause(t) \/ Resume(t) \/ ConnectFactory(t) \/ ConnectClaim(t)
    \/ ConnectPrepare(t) \/ ConnectTunOn(t) \/ ConnectHostOn(t) \/ ConnectReplay(t)
    \/ ConnectRollback(t) \/ DisconnectStop(t) \/ DeleteStop(t) \/ Release(t)

Watch == WatchPoll \/ Tick \/ LostStop \/ WarmFactory \/ WarmCheck \/ WarmPrepare \/ WarmDone

Environment == CoresDie \/ ServiceExits \/ ServiceStarts \/ CooldownEnds \/ Orphan

Next ==
    \/ \E r \in Requests : Arrive(r) \/ Abandon(r)
    \/ \E t \in Tasks : Acquire(t) \/ Proceed(t)
    \/ Watch \/ LostBegin \/ Environment

Spec == Init /\ [][Next]_vars

(***************************************************************************)
(* Every task is polled by the runtime and every call it waits for is      *)
(* bounded by a time-out; both mutexes are FIFO, so a waiter that sees its  *)
(* lock free again and again gets it.  The watcher's loop never ends.      *)
(***************************************************************************)
Fairness ==
    /\ \A t \in Tasks : WF_vars(Proceed(t)) /\ SF_vars(Acquire(t))
    /\ WF_vars(Watch) /\ SF_vars(LostBegin) /\ WF_vars(Orphan)

FairSpec == Spec /\ Fairness

-------------------------------------------------------------------------------
(* Properties *)

\* While the state says Connecting a task holds `operation` and is in the
\* middle of connect_now: AbandonedConnectGuard leaves no dropped future behind
\* that nobody would ever finish.
ConnectingIsOwned ==
    rt.st = "Connecting" =>
        lock.op # NoTask /\ task[lock.op].pc \in
            {"claim", "prepare", "tunOn", "hostOn", "replay", "rollback"}

Critical == {"factory", "claim", "prepare", "tunOn", "hostOn", "replay",
             "rollback", "stop", "commit"}

\* Exactly the holder of `operation` drives the supervisor, it waits for no
\* other lock, and the holder of `generation_change` waits for nothing but
\* `operation`: the two mutexes of CoreBackend cannot deadlock.
LocksAreOrdered ==
    /\ \A t \in Tasks : task[t].pc \in Critical <=> lock.op = t
    /\ lock.switch # NoTask =>
          task[lock.switch].pc \in Critical
              \cup {"pause", "resume", "connect", "disconnect", "mutate"}

\* A tunnel of the service or cores of the elevated host that are up can be
\* stopped: the runtime is in a state from which disconnect_now reaches them
\* and holds their controller.  (The tunnel an orphaned call raised late is
\* the exception the README describes.)
RunningIsStoppable ==
    svc.tun \/ host =>
        \/ rt.st \in {"Connecting", "Connected", "Error"} /\ rt.ctl # NoController
        \/ orphan.pc = "late"

\* A warm-up (start of WarmController, prepare_idle) never replaces the cores
\* of the generation a Connect has claimed, however it interleaves with it.
WarmUpNeverDisplaces ==
    [][task[Watcher].pc = "warmPrepare" /\ task'[Watcher].pc # "warmPrepare"
            /\ ses.owner # NoGen /\ svc.gen = ses.owner
        => svc'.gen \in {ses.owner, NoGen}]_vars

\* Between operations the runtime shows the active profile of the store with
\* its newest content (or holds it as pending_snapshot), unless a mutation
\* that answered Committed said otherwise.
SnapshotIsCurrent ==
    lock.op = NoTask /\ rt.st \in {"Ready", "Connected"} /\ ~rt.stale =>
        ActiveSnap(store) = IF rt.pending # NoSnap THEN rt.pending ELSE rt.snap

\* A connection through the service runs the generation staged from the
\* runtime's own snapshot: switching, refreshing and deleting profiles around
\* it never leaves it on another profile's cores.
ConnectedRunsItsSnapshot ==
    rt.st = "Connected" /\ rt.ctl.kind = "service" =>
        /\ stage.of[rt.ctl.gen] = rt.snap
        /\ svc.gen \in {NoGen, rt.ctl.gen} \/ orphan.pc # "none"

\* Every request is answered (or dropped by its client): none waits for a
\* lock, a call or another request for ever.
RequestsAreAnswered ==
    \A r \in Requests : task[r].pc # "idle" ~> task[r].pc = "idle"

\* A connection whose tunnel is gone at the service is torn down by the
\* watcher (watch_service, cores_lost), unless the daemon is quitting.
Lost == rt.st = "Connected" /\ ses.inUse /\ ~svc.tun /\ quit = "no"
LossIsNoticed == Lost ~> ~Lost

\* While the service is there, a disconnected daemon with a profile gets its
\* cores warm again whatever ended them (watch_service, warm_up).
Cold == rt.st = "Ready" /\ ~CoresLive /\ svc.up /\ quit = "no"
WarmsUpAgain == Cold ~> ~Cold

\* "A user Connect or Disconnect takes over from a pending automatic
\* reconnect" (cancel_auto_reconnect): when a Disconnect has been answered and
\* the daemon is Ready, no automatic reconnect is pending or under way.
DisconnectCancelsReconnect ==
    [][\A r \in Requests :
        /\ task[r].op = "Disconnect" /\ task[r].pc \in {"disconnect", "stop"}
        /\ task'[r].pc = "idle" /\ rt'.st = "Ready"
        => ~rt'.again /\ task'[Watcher].pc # "switch"]_vars

\* "Quit: disconnect, stop the service's cores and never warm them again"
\* (shutdown_cores): once Quit is answered no cores are started any more.
QuitNeverWarms ==
    [][quit = "done" /\ svc.gen = NoGen => svc'.gen = NoGen]_vars
===============================================================================
