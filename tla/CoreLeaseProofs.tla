---------------------------- MODULE CoreLeaseProofs ----------------------------
(***************************************************************************)
(* Proofs of what a step of the always-ready service may never do, and     *)
(* that the service implements the abstract lease of CoreLease.  All of    *)
(* them use the invariant Owned of CoreOwnershipProofs.                    *)
(***************************************************************************)
EXTENDS CoreOwnershipProofs

-----------------------------------------------------------------------------
(***************************************************************************)
(* The lease.                                                              *)
(***************************************************************************)

\* A step that keeps the owner and `active` is a stuttering step.
LEMMA LeaseStutters ==
    ASSUME owner' = owner, cores'.active = cores.active
    PROVE  UNCHANGED Lease!leaseVars
  BY DEF Lease!leaseVars, Holder

\* stop_everything releases the lease.
LEMMA LeaseReleased ==
    ASSUME StopEverything
    PROVE  Lease!Next
<1>1. Lease!Release
  BY StoppedTunnel DEF Lease!Release, Holder, StopEverything, StopCores
<1> QED
  BY <1>1 DEF Lease!Next

\* A connection that is not foreign and claims the cores uses the lease.
LEMMA LeaseUsed ==
    ASSUME TypeOK, NEW c \in Conns, ~Foreign(c), owner' = c,
           cores' \in CoresType
    PROVE  Lease!Next
<1>1. UserOf[c] \in Users /\ c # NoConn
  BY UsersAssumption, ConnsAssumption
<1>2. Holder \in {NoUser, UserOf[c]}
  BY DEF Foreign, Holder
<1>3. Holder' = UserOf[c]
  BY <1>1 DEF Holder
<1>4. cores'.active \in BOOLEAN
  BY DEF CoresType
<1>5. Lease!Use(UserOf[c])
  BY <1>2, <1>3, <1>4 DEF Lease!Use
<1> QED
  BY <1>1, <1>5 DEF Lease!Next

\* Every step of the service is a step of the lease, or none.
LEMMA LeaseStep ==
    ASSUME Owned, [Next]_vars
    PROVE  [Lease!Next]_(Lease!leaseVars)
<1>0. /\ TypeOK /\ TypeOK'
      /\ owner \in Conns \cup {NoConn}
      /\ cores \in CoresType /\ cores' \in CoresType
  BY NextType DEF Owned, TypeOK
<1>1. ASSUME NEW c \in Conns, Execute(c)
      PROVE  [Lease!Next]_(Lease!leaseVars)
  <2>1. CASE ExecutePrepare(c) \/ ExecuteSetTun(c) \/ ExecuteStop(c)
    BY <1>0, <2>1, LeaseUsed DEF ExecutePrepare, ExecuteSetTun, ExecuteStop
  <2>2. CASE ExecuteShutdown(c)
    BY <2>2, LeaseReleased DEF ExecuteShutdown
  <2>3. CASE UNCHANGED loopVars
    BY <2>3, LeaseStutters DEF loopVars
  <2>4. CASE FinishUpdate(c)
    BY <2>3, <2>4, LeaseReleased DEF FinishUpdate
  <2>5. CASE RunFixes(c)
    <3>1. owner' = owner
          /\ (cores' = cores \/ cores' = [cores EXCEPT !.tun = "down"])
      BY <2>5 DEF RunFixes
    <3>2. cores'.active = cores.active
      BY <1>0, <3>1 DEF CoresType
    <3> QED
      BY <3>1, <3>2, LeaseStutters
  <2> QED
    BY <1>1, <2>1, <2>2, <2>3, <2>4, <2>5
    DEF Execute, ExecuteBusy, ExecuteQuery, StartUpdate, FinishStage,
        StartTroubleshoot, FinishTroubleshoot
<1>2. ASSUME NEW c \in Conns, Serve(c) \/ ClientStep(c)
      PROVE  [Lease!Next]_(Lease!leaseVars)
  <2>1. UNCHANGED loopVars \/ StopEverything
    BY <1>2 DEF Serve, ClientStep, EndOfStream, Reply, ConnectionClosed,
                ClientGone, Accept, SendCommand, Drop, BadFrame
  <2> QED
    BY <2>1, LeaseStutters, LeaseReleased DEF loopVars
<1>3. CASE Tick
  <2>1. owner # NoConn /\ owner' = owner
    BY <1>3 DEF Tick, Owned, CoresAreOwned
  <2>2. ~Foreign(owner)
    BY DEF Foreign
  <2> QED
    BY <1>0, <2>1, <2>2, LeaseUsed
<1>4. ASSUME NEW engine \in {"xray", "mihomo"}, CoreDies(engine)
      PROVE  [Lease!Next]_(Lease!leaseVars)
  <2>1. cores'.active = cores.active
    BY <1>0, <1>4 DEF CoreDies, Exit, CoresType
  <2> QED
    BY <1>4, <2>1, LeaseStutters DEF CoreDies
<1>5. CASE AdapterComesUp
  <2>1. cores'.active = cores.active
    BY <1>0, <1>5 DEF AdapterComesUp, CoresType
  <2> QED
    BY <1>5, <2>1, LeaseStutters DEF AdapterComesUp
<1>6. CASE StopRequested \/ HandOver \/ ServiceStart \/ UNCHANGED vars
  <2>1. UNCHANGED loopVars
    BY <1>6 DEF StopRequested, HandOver, ServiceStart, vars
  <2> QED
    BY <2>1, LeaseStutters DEF loopVars
<1>7. CASE StopBody \/ ProcessExit \/ ShutDown \/ ProcessKilled
  BY <1>7, LeaseReleased
  DEF StopBody, ProcessExit, ShutDown, ProcessKilled, Vanish
<1> QED
  BY <1>1, <1>2, <1>3, <1>4, <1>5, <1>6, <1>7 DEF Next, System

\* The service implements the lease: whatever its clients, its ticker and its
\* updater do, the cores belong to one user at a time and are stopped before
\* they pass to another.
THEOREM ServiceImplementsLease == Spec => LeaseSpec
<1>1. Init => Lease!Init
  BY StoppedTunnel DEF Init, Lease!Init, Holder
<1>2. Owned /\ [Next]_vars => [Lease!Next]_(Lease!leaseVars)
  BY LeaseStep
<1> QED
  BY <1>1, <1>2, AlwaysOwned, PTL DEF Spec, LeaseSpec, Lease!Spec
-----------------------------------------------------------------------------
(***************************************************************************)
(* What a step may never do.                                               *)
(***************************************************************************)

\* An action of connection c moves no other connection's thread.
LEMMA OneThreadMoves ==
    ASSUME TypeOK, NEW c \in Conns, Execute(c) \/ Serve(c) \/ ClientStep(c)
    PROVE  \A d \in Conns : d # c => thread'[d] = thread[d]
<1>1. CASE UNCHANGED thread
  BY <1>1
<1>2. CASE \E t : Become(c, t)
  BY <1>2, BecomeEffect
<1>3. CASE \E a : Answer(c, a)
  BY <1>3, AnswerEffect
<1>4. CASE Execute(c)
  BY <1>2, <1>3, <1>4, SetTunEffect
  DEF Execute, ExecuteBusy, ExecutePrepare, Relaunch, ExecuteQuery,
      ExecuteStop, ExecuteShutdown, StartUpdate, FinishStage, FinishUpdate,
      StartTroubleshoot, RunFixes, FinishTroubleshoot
<1>5. CASE Serve(c) \/ ClientStep(c)
  BY <1>1, <1>2, <1>5
  DEF Serve, EndOfStream, Reply, ConnectionClosed, ClientStep, Accept,
      SendCommand, Drop, BadFrame
<1> QED
  BY <1>4, <1>5

\* A foreign connection's own step touches nothing of the owner's.
LEMMA ForeignStep ==
    ASSUME NEW c \in Conns, Foreign(c), thread[c].phase # "fixing",
           Execute(c) \/ Serve(c) \/ ClientStep(c)
    PROVE  UNCHANGED loopVars
<1>1. owner # c
  BY DEF Foreign
<1>2. CASE Execute(c)
  BY <1>2
  DEF Execute, ExecuteBusy, ExecutePrepare, ExecuteSetTun, ExecuteQuery,
      ExecuteStop, ExecuteShutdown, StartUpdate, FinishStage, FinishUpdate,
      ClaimedMeanwhile, StartTroubleshoot, RunFixes, FinishTroubleshoot
<1>3. CASE Serve(c) \/ ClientStep(c)
  BY <1>1, <1>3
  DEF Serve, EndOfStream, Reply, ConnectionClosed, ClientGone, ClientStep,
      Accept, SendCommand, Drop, BadFrame
<1> QED
  BY <1>2, <1>3

\* A step of the ticker, of a core or of the service itself moves no thread,
\* unless the process is gone.
LEMMA SystemMovesNoThread ==
    ASSUME System
    PROVE  UNCHANGED thread \/ life' = "exited"
  BY DEF System, Tick, CoreDies, AdapterComesUp, StopRequested, HandOver,
         StopBody, ProcessExit, ShutDown, ProcessKilled, Vanish, ServiceStart

\* One user's connection never disturbs another user's cores, for any number
\* of users and connections: not with a command, not with an Update whose
\* download the owner overtook, not by leaving.
THEOREM OthersAreLeftAlone == Spec => ForeignUserChangesNothing
<1>1. ASSUME Owned, [Next]_vars
      PROVE  [StepLeavesOthersAlone]_vars
  <2> SUFFICES ASSUME Next, NEW c \in Conns,
                      thread'[c] # thread[c], life' # "exited",
                      thread[c].phase # "fixing",
                      owner # NoConn, UserOf[owner] # UserOf[c]
               PROVE  UNCHANGED <<owner, prepared, tunOn, failure, cores>>
    BY <1>1 DEF StepLeavesOthersAlone
  <2>1. PICK d \in Conns : Execute(d) \/ Serve(d) \/ ClientStep(d)
    BY SystemMovesNoThread DEF Next
  <2>2. c = d
    BY <1>1, <2>1, OneThreadMoves DEF Owned
  <2>3. UNCHANGED loopVars
    BY <2>1, <2>2, ForeignStep DEF Foreign
  <2> QED
    BY <2>3 DEF loopVars
<1>2. Owned /\ [Next]_vars => [StepLeavesOthersAlone]_vars
  BY <1>1
<1> QED
  BY <1>2, AlwaysOwned, PTL DEF Spec, ForeignUserChangesNothing

\* A SetTun is the only step that records a tunnel that was not there.
LEMMA OnlySetTunRaises ==
    ASSUME Owned, Next, ~tunOn, tunOn'
    PROVE  \E c \in Conns : ExecuteSetTun(c)
<1>0. TypeOK /\ tunOn \in BOOLEAN /\ cores \in CoresType
  BY DEF Owned, TypeOK
<1>1. ASSUME NEW r \in CoresType, RestoreTunnel(r)
      PROVE  FALSE
  BY <1>0, <1>1, RestoreTunnelKeepsCores
<1>2. ~StopCores /\ ~StopEverything /\ ~(UNCHANGED loopVars)
  BY DEF StopCores, StopEverything, loopVars
<1>3. ~Tick
  <2> SUFFICES ASSUME Tick
               PROVE  FALSE
    OBVIOUS
  <2>1. PICK r \in RestartResults(cores) : r.ok /\ RestoreTunnel(r.cores)
    BY DEF Tick
  <2>2. r.cores \in CoresType
    BY <1>0, <2>1, RestartedCoresRun
  <2> QED
    BY <1>1, <2>1, <2>2
<1>4. ASSUME NEW c \in Conns, ExecutePrepare(c)
      PROVE  FALSE
  <2>1. PICK r \in PrepareResults : r.ok /\ RestoreTunnel(r.cores)
    BY <1>4 DEF ExecutePrepare, Relaunch
  <2>2. r.cores = Launched
    BY <2>1 DEF PrepareResults, Result
  <2> QED
    BY <1>1, <2>1, <2>2, LaunchedType
<1>5. ~System
  BY <1>2, <1>3
  DEF System, CoreDies, AdapterComesUp, StopRequested, HandOver, StopBody,
      ProcessExit, ShutDown, ProcessKilled, Vanish, ServiceStart
<1>6. PICK c \in Conns : Execute(c) \/ Serve(c) \/ ClientStep(c)
  BY <1>5 DEF Next
<1>7. ~(Serve(c) \/ ClientStep(c))
  BY <1>2
  DEF Serve, EndOfStream, Reply, ConnectionClosed, ClientGone, ClientStep,
      Accept, SendCommand, Drop, BadFrame
<1>8. ExecuteSetTun(c)
  BY <1>2, <1>4, <1>6, <1>7
  DEF Execute, ExecuteBusy, ExecuteQuery, ExecuteStop, ExecuteShutdown,
      StartUpdate, FinishStage, FinishUpdate, StartTroubleshoot, RunFixes,
      FinishTroubleshoot
<1> QED
  BY <1>8

\* Neither a crash restart nor a Prepare switches on a tunnel that was off: a
\* tunnel is recorded as on only by a SetTun that asked for it and was told so.
THEOREM TunnelNeedsRequest == Spec => TunnelRisesOnlyOnRequest
<1>1. ASSUME Owned, [Next]_vars
      PROVE  [StepRaisesTunnelOnRequest]_vars
  <2> SUFFICES ASSUME Next, ~tunOn, tunOn'
               PROVE  \E c \in Conns :
                         /\ thread[c].phase = "queued"
                         /\ thread[c].cmd.op = "SetTun" /\ thread[c].cmd.on
                         /\ thread'[c].answer = "TunOn"
    BY <1>1 DEF StepRaisesTunnelOnRequest
  <2>1. PICK c \in Conns : ExecuteSetTun(c)
    BY <1>1, OnlySetTunRaises
  <2>2. thread[c].cmd.on /\ Answer(c, "TunOn")
    BY <1>1, <2>1, SetTunEffect DEF Owned
  <2>3. thread'[c].answer = "TunOn"
    BY <1>1, <2>2, AnswerEffect DEF Owned
  <2> QED
    BY <2>1, <2>2, <2>3 DEF ExecuteSetTun, Queued
<1>2. Owned /\ [Next]_vars => [StepRaisesTunnelOnRequest]_vars
  BY <1>1
<1> QED
  BY <1>2, AlwaysOwned, PTL DEF Spec, TunnelRisesOnlyOnRequest

\* With its restart spent, only a Prepare gets both cores running again.
LEMMA OnlyPrepareRevives ==
    ASSUME Owned, Next, crashRestarts = MaxCrashRestarts, ~BothRun, BothRun'
    PROVE  \E c \in Conns : ExecutePrepare(c)
<1>0. TypeOK /\ cores \in CoresType
  BY DEF Owned, TypeOK
<1>1. cores' # Stopped
  BY DEF BothRun, Stopped
<1>2. ~StopCores /\ ~StopEverything
  BY <1>1 DEF StopCores, StopEverything
<1>3. cores' # cores
  BY DEF BothRun
<1>4. ~Tick
  BY <1>1 DEF Tick, RestartSpent, MaxCrashRestarts
<1>5. \A engine \in {"xray", "mihomo"} : ~CoreDies(engine)
  BY <1>0 DEF CoreDies, Exit, CoresType, BothRun
<1>6. ~AdapterComesUp
  BY <1>0 DEF AdapterComesUp, CoresType, BothRun
<1>7. ~System
  BY <1>2, <1>3, <1>4, <1>5, <1>6
  DEF System, StopRequested, HandOver, StopBody, ProcessExit, ShutDown,
      ProcessKilled, Vanish, ServiceStart, loopVars
<1>8. PICK c \in Conns : Execute(c) \/ Serve(c) \/ ClientStep(c)
  BY <1>7 DEF Next
<1>9. ~(Serve(c) \/ ClientStep(c))
  BY <1>2, <1>3
  DEF Serve, EndOfStream, Reply, ConnectionClosed, ClientGone, ClientStep,
      Accept, SendCommand, Drop, BadFrame, loopVars
<1>10. ~ExecuteSetTun(c)
  BY <1>0, SetTunEffect DEF BothRun
<1>11. ~RunFixes(c)
  BY <1>0 DEF RunFixes, CoresType, BothRun
<1>12. ExecutePrepare(c)
  BY <1>2, <1>3, <1>8, <1>9, <1>10, <1>11
  DEF Execute, ExecuteBusy, ExecuteQuery, ExecuteStop, ExecuteShutdown,
      StartUpdate, FinishStage, FinishUpdate, StartTroubleshoot,
      FinishTroubleshoot, loopVars
<1> QED
  BY <1>12

\* A generation's cores are restarted at most MAX_CRASH_RESTARTS times: after
\* that only a Prepare gets them running again.
THEOREM RestartsAreBounded == Spec => RestartBudgetHolds
<1>1. ASSUME Owned, [Next]_vars
      PROVE  [StepKeepsBudget]_vars
  <2> SUFFICES ASSUME Next, crashRestarts = MaxCrashRestarts, ~BothRun, BothRun'
               PROVE  \E c \in Conns : thread[c].phase = "queued"
                                       /\ thread[c].cmd.op = "Prepare"
    BY <1>1 DEF StepKeepsBudget
  <2> QED
    BY <1>1, OnlyPrepareRevives DEF ExecutePrepare, Queued
<1>2. Owned /\ [Next]_vars => [StepKeepsBudget]_vars
  BY <1>1
<1> QED
  BY <1>2, AlwaysOwned, PTL DEF Spec, RestartBudgetHolds
=============================================================================
