-------------------------- MODULE CoreOwnershipProofs --------------------------
(***************************************************************************)
(* Proofs of what the always-ready service promises about its cores.  The  *)
(* inductive invariant is Owned: the types, CoresAreOwned and              *)
(* RecordsAreBacked together.  Neither of the last two is inductive alone: *)
(* a crash restart keeps the cores active only because they were active,   *)
(* and a tunnel rises only for a prepared generation, which has an owner.  *)
(* A last section proves that the slots of long commands are exact.        *)
(***************************************************************************)
EXTENDS CoreServiceProofs

Owned == TypeOK /\ CoresAreOwned /\ RecordsAreBacked

-----------------------------------------------------------------------------
(***************************************************************************)
(* What a step leaves of the connection threads.                           *)
(***************************************************************************)

\* One thread becomes t, the others stay as they are.
LEMMA BecomeEffect ==
    ASSUME TypeOK, NEW c \in Conns, NEW t, Become(c, t)
    PROVE  /\ thread'[c] = t
           /\ \A d \in Conns : d # c => thread'[d] = thread[d]
  BY DEF TypeOK, Become

\* An answered thread is about to reply.
LEMMA AnswerEffect ==
    ASSUME TypeOK, NEW c \in Conns, NEW a, Answer(c, a)
    PROVE  /\ thread'[c].phase = "replying"
           /\ thread'[c].answer = a
           /\ \A d \in Conns : d # c => thread'[d] = thread[d]
<1> DEFINE m == IF thread[c].cmd.op = "Shutdown" THEN thread[c].cmd
                ELSE NoCommand
<1>1. Become(c, Thread("replying", m, a))
  BY DEF Answer
<1> HIDE DEF m
<1>2. /\ thread'[c] = Thread("replying", m, a)
      /\ \A d \in Conns : d # c => thread'[d] = thread[d]
  BY <1>1, BecomeEffect
<1> QED
  BY <1>2 DEF Thread

\* A thread goes to its next phase, the others stay as they are.
LEMMA PhaseEffect ==
    ASSUME TypeOK, NEW c \in Conns, NEW p,
           Become(c, [thread[c] EXCEPT !.phase = p])
    PROVE  /\ thread'[c].phase = p
           /\ \A d \in Conns : d # c => thread'[d] = thread[d]
<1>1. thread[c] \in ThreadType
  BY ThreadFields
<1>2. [thread[c] EXCEPT !.phase = p].phase = p
  BY <1>1 DEF ThreadType
<1> QED
  BY <1>2, BecomeEffect

\* The thread of c goes on living, and no other thread moves.
Lives(c) == /\ thread'[c].phase \notin {"none", "ended"}
            /\ \A d \in Conns : d # c => thread'[d] = thread[d]

\* A live connection that owns the cores keeps them owned, whatever it does to
\* them.
LEMMA OwnerLives ==
    ASSUME TypeOK, NEW c \in Conns, Lives(c), owner' = c
    PROVE  CoresAreOwned'
  BY ConnsAssumption DEF CoresAreOwned, Lives

\* A thread that goes on without touching the loop keeps the cores owned.
LEMMA ThreadLives ==
    ASSUME Owned, NEW c \in Conns, Lives(c),
           UNCHANGED <<owner, prepared, tunOn, failure>>,
           cores'.active = cores.active,
           cores'.tun # "down" => cores.tun # "down"
    PROVE  CoresAreOwned' /\ RecordsAreBacked'
<1>1. owner \in Conns \cup {NoConn}
  BY DEF Owned, TypeOK
<1>2. CoresAreOwned'
  BY <1>1 DEF Owned, CoresAreOwned, Lives
<1>3. RecordsAreBacked'
  BY DEF Owned, RecordsAreBacked
<1> QED
  BY <1>2, <1>3

\* Where no thread moves and no core starts, nothing changes either.
LEMMA NobodyMoves ==
    ASSUME Owned,
           UNCHANGED <<owner, prepared, tunOn, failure, thread>>,
           cores'.active = cores.active,
           cores'.tun # "down" => cores.tun # "down"
    PROVE  CoresAreOwned' /\ RecordsAreBacked'
  BY DEF Owned, CoresAreOwned, RecordsAreBacked

\* Stopped cores have no tunnel.
LEMMA StoppedTunnel == Stopped.active = FALSE /\ Stopped.tun = "down"
  BY DEF Stopped

\* stop_everything leaves nothing that could need an owner.
LEMMA EverythingStopped ==
    ASSUME StopEverything
    PROVE  CoresAreOwned' /\ RecordsAreBacked'
<1>1. /\ cores'.active = FALSE /\ cores'.tun = "down"
      /\ prepared' = NoGen /\ tunOn' = FALSE
  BY StoppedTunnel DEF StopEverything, StopCores
<1> QED
  BY <1>1 DEF CoresAreOwned, RecordsAreBacked

-----------------------------------------------------------------------------
(***************************************************************************)
(* The steps of the loop.                                                  *)
(***************************************************************************)

\* Prepare gives the cores it starts an owner.
LEMMA PrepareOwned ==
    ASSUME Owned, NEW c \in Conns, ExecutePrepare(c)
    PROVE  CoresAreOwned' /\ RecordsAreBacked'
<1> DEFINE g == thread[c].cmd.gen
<1>1. /\ TypeOK /\ RecordsAreBacked /\ tunOn \in BOOLEAN
      /\ g \in Gens /\ g # NoGen
      /\ owner' = c
  BY CommandFields, GensAssumption DEF ExecutePrepare, Queued, Owned, TypeOK
<1> HIDE DEF g
<1>2. Answer(c, "Prepared") \/ Answer(c, "Error")
  BY DEF ExecutePrepare, Relaunch
<1>3. Lives(c)
  BY <1>1, <1>2, AnswerEffect DEF Lives
<1>4. CoresAreOwned'
  BY <1>1, <1>3, OwnerLives
<1>5. RecordsAreBacked'
  <2>1. CASE UNCHANGED <<prepared, tunOn, crashRestarts, failure, cores>>
    BY <1>1, <2>1 DEF RecordsAreBacked
  <2>2. CASE Relaunch(c, g)
    <3>1. PICK r \in PrepareResults :
             \/ /\ ~r.ok
                /\ prepared' = NoGen
                /\ failure' = TRUE
                /\ tunOn' = FALSE
             \/ /\ r.ok
                /\ prepared' = g
                /\ RestoreTunnel(r.cores)
      BY <2>2 DEF Relaunch
    <3>2. CASE ~r.ok
      BY <3>1, <3>2 DEF RecordsAreBacked
    <3>3. CASE r.ok
      <4>1. r.cores = Launched
        BY <3>3 DEF PrepareResults, Result
      <4>2. prepared' = g /\ RestoreTunnel(Launched)
        BY <3>1, <3>3, <4>1
      <4>3. cores'.active = Launched.active /\ (tunOn' => ~failure')
        BY <1>1, <4>2, LaunchedType, RestoreTunnelKeepsCores
      <4> QED
        BY <1>1, <4>2, <4>3, LaunchedType DEF RecordsAreBacked
    <3> QED
      BY <3>2, <3>3
  <2> QED
    BY <2>1, <2>2 DEF ExecutePrepare, g
<1> QED
  BY <1>4, <1>5

\* SetTun raises a tunnel only for the owner of what is prepared.
LEMMA SetTunOwned ==
    ASSUME Owned, NEW c \in Conns, ExecuteSetTun(c)
    PROVE  CoresAreOwned' /\ RecordsAreBacked'
<1>1. /\ TypeOK /\ RecordsAreBacked
      /\ owner' = c
      /\ UNCHANGED <<prepared, failure>>
  BY DEF ExecuteSetTun, Owned
<1>2. /\ cores'.active = cores.active
      /\ \E a \in {"TunOn", "TunOff", "Error"} : Answer(c, a)
      /\ ~Ready => UNCHANGED tunOn
  BY <1>1, SetTunEffect
<1>3. CoresAreOwned'
  BY <1>1, <1>2, AnswerEffect, OwnerLives DEF Lives
<1>4. RecordsAreBacked'
  BY <1>1, <1>2 DEF RecordsAreBacked, Ready
<1> QED
  BY <1>3, <1>4

\* The ticker restarts or gives up, and the owner stays.
LEMMA TickOwned ==
    ASSUME Owned, Tick
    PROVE  CoresAreOwned' /\ RecordsAreBacked'
<1>1. /\ tunOn \in BOOLEAN /\ cores \in CoresType
      /\ prepared # NoGen
      /\ UNCHANGED <<owner, prepared, thread>>
  BY DEF Tick, Owned, TypeOK
<1>2. CoresAreOwned'
  BY <1>1 DEF Owned, CoresAreOwned
<1>3. RecordsAreBacked'
  <2>1. CASE tunOn' = FALSE /\ failure' = TRUE
    BY <2>1 DEF RecordsAreBacked
  <2>2. ASSUME NEW r \in RestartResults(cores), r.ok, RestoreTunnel(r.cores)
        PROVE  RecordsAreBacked'
    <3>1. r.cores \in CoresType /\ r.cores.active
      BY <1>1, <2>2, RestartedCoresRun
    <3>2. cores'.active = r.cores.active /\ (tunOn' => ~failure')
      BY <1>1, <2>2, <3>1, RestoreTunnelKeepsCores
    <3> QED
      BY <1>1, <3>1, <3>2 DEF RecordsAreBacked
  <2> QED
    BY <2>1, <2>2 DEF Tick
<1> QED
  BY <1>2, <1>3

\* Every command leaves the cores owned.
LEMMA ExecuteOwned ==
    ASSUME Owned, NEW c \in Conns, Execute(c)
    PROVE  CoresAreOwned' /\ RecordsAreBacked'
<1>0. TypeOK
  BY DEF Owned
<1>1. CASE ExecuteBusy(c) \/ ExecuteQuery(c) \/ FinishStage(c)
           \/ FinishTroubleshoot(c)
  <2>1. UNCHANGED loopVars /\ \E a \in Answers : Answer(c, a)
    BY <1>1 DEF ExecuteBusy, ExecuteQuery, FinishStage, FinishTroubleshoot,
                Answers
  <2>2. Lives(c)
    BY <1>0, <2>1, AnswerEffect DEF Lives
  <2> QED
    BY <2>1, <2>2, ThreadLives DEF loopVars
<1>2. CASE ExecutePrepare(c)
  BY <1>2, PrepareOwned
<1>3. CASE ExecuteSetTun(c)
  BY <1>3, SetTunOwned
<1>4. CASE ExecuteStop(c)
  <2>1. /\ cores'.active = FALSE /\ cores'.tun = "down"
        /\ prepared' = NoGen /\ tunOn' = FALSE
    BY <1>4, StoppedTunnel DEF ExecuteStop, StopCores
  <2> QED
    BY <2>1 DEF CoresAreOwned, RecordsAreBacked
<1>5. CASE ExecuteShutdown(c)
  BY <1>5, EverythingStopped DEF ExecuteShutdown
<1>6. CASE StartUpdate(c) \/ StartTroubleshoot(c)
  <2>1. /\ UNCHANGED loopVars
        /\ \/ \E a \in Answers : Answer(c, a)
           \/ \E p \in {"download", "fixing"} :
                 Become(c, [thread[c] EXCEPT !.phase = p])
    BY <1>6 DEF StartUpdate, StartTroubleshoot, Answers
  <2>2. Lives(c)
    BY <1>0, <2>1, AnswerEffect, PhaseEffect DEF Lives
  <2> QED
    BY <2>1, <2>2, ThreadLives DEF loopVars
<1>7. CASE FinishUpdate(c)
  <2>1. CASE StopEverything
    BY <2>1, EverythingStopped
  <2>2. CASE UNCHANGED loopVars /\ \E a \in Answers : Answer(c, a)
    <3>1. Lives(c)
      BY <1>0, <2>2, AnswerEffect DEF Lives
    <3> QED
      BY <2>2, <3>1, ThreadLives DEF loopVars
  <2> QED
    BY <1>7, <2>1, <2>2 DEF FinishUpdate, Answers
<1>8. CASE RunFixes(c)
  <2>1. /\ Become(c, [thread[c] EXCEPT !.phase = "fixed"])
        /\ UNCHANGED <<owner, prepared, tunOn, failure>>
        /\ cores \in CoresType
        /\ cores' = cores \/ cores' = [cores EXCEPT !.tun = "down"]
    BY <1>8 DEF RunFixes, Owned, TypeOK
  <2>2. Lives(c)
    BY <1>0, <2>1, PhaseEffect DEF Lives
  <2>3. /\ cores'.active = cores.active
        /\ cores'.tun # "down" => cores.tun # "down"
    BY <2>1 DEF CoresType
  <2> QED
    BY <2>1, <2>2, <2>3, ThreadLives
<1> QED
  BY <1>1, <1>2, <1>3, <1>4, <1>5, <1>6, <1>7, <1>8 DEF Execute

\* A connection that ends takes its cores with it.
LEMMA ConnectionOwned ==
    ASSUME Owned, NEW c \in Conns, Serve(c) \/ ClientStep(c)
    PROVE  CoresAreOwned' /\ RecordsAreBacked'
<1>0. TypeOK
  BY DEF Owned
<1>1. CASE ConnectionClosed(c)
  <2>1. CASE StopEverything
    BY <2>1, EverythingStopped
  <2>2. CASE owner # c /\ UNCHANGED loopVars
    <3>1. \A d \in Conns : d # c => thread'[d] = thread[d]
      BY <1>0, <1>1, BecomeEffect DEF ConnectionClosed
    <3>2. owner \in Conns \cup {NoConn}
      BY <1>0 DEF TypeOK
    <3> QED
      BY <2>2, <3>1, <3>2
      DEF Owned, CoresAreOwned, RecordsAreBacked, loopVars
  <2> QED
    BY <1>1, <2>1, <2>2 DEF ConnectionClosed, ClientGone
<1>2. CASE Drop(c)
  BY <1>2, NobodyMoves DEF Drop, loopVars
<1>3. ASSUME NEW p \in {"idle", "queued", "closing"}, NEW m, NEW a,
             Become(c, Thread(p, m, a)), UNCHANGED loopVars
      PROVE  CoresAreOwned' /\ RecordsAreBacked'
  <2>1. Lives(c)
    BY <1>0, <1>3, BecomeEffect DEF Lives, Thread
  <2> QED
    BY <1>3, <2>1, ThreadLives DEF loopVars
<1>4. CASE EndOfStream(c) \/ Reply(c) \/ Accept(c) \/ BadFrame(c)
  BY <1>3, <1>4 DEF EndOfStream, Reply, Accept, BadFrame
<1>5. CASE \E cmd \in Commands : SendCommand(c, cmd)
  BY <1>3, <1>5 DEF SendCommand
<1> QED
  BY <1>1, <1>2, <1>4, <1>5 DEF Serve, ClientStep

\* The ticker, dying cores and the process leave none orphaned.
LEMMA SystemOwned ==
    ASSUME Owned, System
    PROVE  CoresAreOwned' /\ RecordsAreBacked'
<1>0. cores \in CoresType
  BY DEF Owned, TypeOK
<1>1. CASE Tick
  BY <1>1, TickOwned
<1>2. ASSUME NEW engine \in {"xray", "mihomo"}, CoreDies(engine)
      PROVE  CoresAreOwned' /\ RecordsAreBacked'
  <2>1. /\ cores'.active = cores.active
        /\ cores'.tun # "down" => cores.tun # "down"
    BY <1>0, <1>2 DEF CoreDies, Exit, CoresType
  <2> QED
    BY <1>2, <2>1, NobodyMoves DEF CoreDies
<1>3. CASE AdapterComesUp
  <2>1. /\ cores'.active = cores.active
        /\ cores'.tun # "down" => cores.tun # "down"
    BY <1>0, <1>3 DEF AdapterComesUp, CoresType
  <2> QED
    BY <1>3, <2>1, NobodyMoves DEF AdapterComesUp
<1>4. CASE StopRequested \/ HandOver \/ ServiceStart
  BY <1>4, NobodyMoves DEF StopRequested, HandOver, ServiceStart, loopVars
<1>5. CASE StopBody \/ ProcessExit \/ ShutDown \/ ProcessKilled
  BY <1>5, EverythingStopped
  DEF StopBody, ProcessExit, ShutDown, ProcessKilled, Vanish
<1> QED
  BY <1>1, <1>2, <1>3, <1>4, <1>5 DEF System

\* Every reachable state is Owned: from it follow the two invariants and the
\* action properties below.
THEOREM AlwaysOwned == Spec => []Owned
<1>1. Init => Owned
  <2> SUFFICES ASSUME Init
               PROVE  Owned
    OBVIOUS
  <2>1. TypeOK
    BY InitType
  <2>2. /\ cores.active = FALSE /\ cores.tun = "down"
        /\ prepared = NoGen /\ tunOn = FALSE
    BY StoppedTunnel DEF Init
  <2> QED
    BY <2>1, <2>2 DEF Owned, CoresAreOwned, RecordsAreBacked
<1>2. Owned /\ [Next]_vars => Owned'
  <2> SUFFICES ASSUME Owned, [Next]_vars
               PROVE  Owned'
    OBVIOUS
  <2>1. TypeOK'
    BY NextType DEF Owned
  <2>2. CoresAreOwned' /\ RecordsAreBacked'
    <3>1. CASE System
      BY <3>1, SystemOwned
    <3>2. ASSUME NEW c \in Conns, Execute(c) \/ Serve(c) \/ ClientStep(c)
          PROVE  CoresAreOwned' /\ RecordsAreBacked'
      BY <3>2, ExecuteOwned, ConnectionOwned
    <3>3. CASE UNCHANGED vars
      BY <3>3, NobodyMoves DEF vars, loopVars
    <3> QED
      BY <3>1, <3>2, <3>3 DEF Next
  <2> QED
    BY <2>1, <2>2 DEF Owned
<1> QED
  BY <1>1, <1>2, PTL DEF Spec

\* No interleaving of commands, drops, timeouts and crashes leaves cores, a
\* tunnel or a prepared generation behind that no connection's client_gone
\* would stop.
THEOREM CoresNeverOrphaned == Spec => []CoresAreOwned
<1>1. Owned => CoresAreOwned
  BY DEF Owned
<1> QED
  BY <1>1, AlwaysOwned, PTL

\* What ServiceLoop has recorded (prepared, tun_on, failure) is always backed
\* by the cores it has.
THEOREM RecordsStayBacked == Spec => []RecordsAreBacked
<1>1. Owned => RecordsAreBacked
  BY DEF Owned
<1> QED
  BY <1>1, AlwaysOwned, PTL

-----------------------------------------------------------------------------
(***************************************************************************)
(* The `updating` and `troubleshooting` flags of ServiceLoop are exact:    *)
(* set while one connection thread is between the phases of its command,   *)
(* outside the lock, and never otherwise.                                  *)
(***************************************************************************)

Slots == TypeOK /\ SlotsAreExclusive

\* The thread of c changes, and no other one does.
Only(c) == \A d \in Conns : d # c => thread'[d] = thread[d]

\* A thread outside the two slots stays outside.
LEMMA StaysOutside ==
    ASSUME SlotsAreExclusive, NEW c \in Conns, Only(c),
           ~Downloading(c), ~Fixing(c), ~Downloading(c)', ~Fixing(c)',
           UNCHANGED <<updating, troubleshooting>>
    PROVE  SlotsAreExclusive'
  BY DEF SlotsAreExclusive, Only, Downloading, Fixing

\* A thread takes the free download slot.
LEMMA EntersDownload ==
    ASSUME SlotsAreExclusive, NEW c \in Conns, Only(c),
           ~updating, updating', ~Fixing(c), Downloading(c)',
           UNCHANGED troubleshooting
    PROVE  SlotsAreExclusive'
  BY DEF SlotsAreExclusive, Only, Downloading, Fixing

\* A thread gives the download slot back.
LEMMA LeavesDownload ==
    ASSUME SlotsAreExclusive, NEW c \in Conns, Only(c),
           Downloading(c), ~Downloading(c)', ~Fixing(c)', ~updating',
           UNCHANGED troubleshooting
    PROVE  SlotsAreExclusive'
  BY DEF SlotsAreExclusive, Only, Downloading, Fixing

\* A thread takes the free troubleshooting slot.
LEMMA EntersFixing ==
    ASSUME SlotsAreExclusive, NEW c \in Conns, Only(c),
           ~troubleshooting, troubleshooting', ~Downloading(c), Fixing(c)',
           UNCHANGED updating
    PROVE  SlotsAreExclusive'
  BY DEF SlotsAreExclusive, Only, Downloading, Fixing

\* A thread between the phases of its batch keeps the slot.
LEMMA GoesOnFixing ==
    ASSUME SlotsAreExclusive, NEW c \in Conns, Only(c),
           Fixing(c), Fixing(c)', UNCHANGED <<updating, troubleshooting>>
    PROVE  SlotsAreExclusive'
  BY DEF SlotsAreExclusive, Only, Downloading, Fixing

\* A thread gives the troubleshooting slot back.
LEMMA LeavesFixing ==
    ASSUME SlotsAreExclusive, NEW c \in Conns, Only(c),
           Fixing(c), ~Downloading(c)', ~Fixing(c)', ~troubleshooting',
           UNCHANGED updating
    PROVE  SlotsAreExclusive'
  BY DEF SlotsAreExclusive, Only, Downloading, Fixing

\* The phases an answer leads to and comes from.
LEMMA AnswerLeaves ==
    ASSUME TypeOK, NEW c \in Conns, NEW a, Answer(c, a)
    PROVE  Only(c) /\ ~Downloading(c)' /\ ~Fixing(c)'
  BY AnswerEffect DEF Only, Downloading, Fixing

\* Every phase of a command that runs under the lock keeps the flags exact.
LEMMA ExecuteSlots ==
    ASSUME Slots, NEW c \in Conns, Execute(c)
    PROVE  SlotsAreExclusive'
<1>0. TypeOK /\ SlotsAreExclusive
  BY DEF Slots
<1>1. ASSUME thread[c].phase = "queued", NEW a, Answer(c, a),
             UNCHANGED <<updating, troubleshooting>>
      PROVE  SlotsAreExclusive'
  <2>1. ~Downloading(c) /\ ~Fixing(c)
    BY <1>1 DEF Downloading, Fixing
  <2> QED
    BY <1>0, <1>1, <2>1, AnswerLeaves, StaysOutside
<1>2. CASE ExecuteBusy(c) \/ ExecuteQuery(c) \/ ExecuteStop(c)
           \/ ExecuteShutdown(c) \/ ExecutePrepare(c)
  BY <1>1, <1>2 DEF ExecuteBusy, ExecuteQuery, ExecuteStop, ExecuteShutdown,
                    ExecutePrepare, Relaunch, Queued, slotVars
<1>3. CASE ExecuteSetTun(c)
  <2>1. \E a : Answer(c, a)
    BY <1>0, <1>3, SetTunEffect
  <2> QED
    BY <1>1, <1>3, <2>1 DEF ExecuteSetTun, Queued, slotVars
<1>4. CASE StartUpdate(c)
  <2>1. /\ thread[c].phase = "queued" /\ UNCHANGED troubleshooting
        /\ \/ (\E a : Answer(c, a)) /\ UNCHANGED updating
           \/ /\ ~updating /\ updating'
              /\ Become(c, [thread[c] EXCEPT !.phase = "download"])
    BY <1>4 DEF StartUpdate, Queued
  <2>2. CASE /\ ~updating /\ updating'
             /\ Become(c, [thread[c] EXCEPT !.phase = "download"])
    <3>1. Only(c) /\ thread'[c].phase = "download"
      BY <1>0, <2>2, PhaseEffect DEF Only
    <3> QED
      BY <1>0, <2>1, <2>2, <3>1, EntersDownload DEF Downloading, Fixing
  <2> QED
    BY <1>1, <2>1, <2>2
<1>5. CASE FinishStage(c) \/ FinishUpdate(c)
  <2>1. /\ thread[c].phase = "download" /\ UNCHANGED troubleshooting
        /\ ~updating' /\ \E a : Answer(c, a)
    BY <1>5 DEF FinishStage, FinishUpdate
  <2> QED
    BY <1>0, <2>1, AnswerLeaves, LeavesDownload DEF Downloading
<1>6. CASE StartTroubleshoot(c)
  <2>1. /\ thread[c].phase = "queued" /\ UNCHANGED updating
        /\ \/ (\E a : Answer(c, a)) /\ UNCHANGED troubleshooting
           \/ /\ ~troubleshooting /\ troubleshooting'
              /\ Become(c, [thread[c] EXCEPT !.phase = "fixing"])
    BY <1>6 DEF StartTroubleshoot, Queued
  <2>2. CASE /\ ~troubleshooting /\ troubleshooting'
             /\ Become(c, [thread[c] EXCEPT !.phase = "fixing"])
    <3>1. Only(c) /\ thread'[c].phase = "fixing"
      BY <1>0, <2>2, PhaseEffect DEF Only
    <3> QED
      BY <1>0, <2>1, <2>2, <3>1, EntersFixing DEF Downloading, Fixing
  <2> QED
    BY <1>1, <2>1, <2>2
<1>7. CASE RunFixes(c)
  <2>1. /\ thread[c].phase = "fixing"
        /\ UNCHANGED <<updating, troubleshooting>>
        /\ Become(c, [thread[c] EXCEPT !.phase = "fixed"])
    BY <1>7 DEF RunFixes, slotVars
  <2>2. Only(c) /\ thread'[c].phase = "fixed"
    BY <1>0, <2>1, PhaseEffect DEF Only
  <2> QED
    BY <1>0, <2>1, <2>2, GoesOnFixing DEF Fixing
<1>8. CASE FinishTroubleshoot(c)
  <2>1. /\ thread[c].phase = "fixed" /\ UNCHANGED updating
        /\ ~troubleshooting' /\ \E a : Answer(c, a)
    BY <1>8 DEF FinishTroubleshoot
  <2> QED
    BY <1>0, <2>1, AnswerLeaves, LeavesFixing DEF Fixing
<1> QED
  BY <1>2, <1>3, <1>4, <1>5, <1>6, <1>7, <1>8 DEF Execute

\* Frames, replies and closing connections leave the slots alone.
LEMMA ConnectionSlots ==
    ASSUME Slots, NEW c \in Conns, Serve(c) \/ ClientStep(c)
    PROVE  SlotsAreExclusive'
<1>0. /\ TypeOK /\ SlotsAreExclusive
      /\ UNCHANGED <<updating, troubleshooting>>
  BY DEF Slots, Serve, ClientStep, EndOfStream, Reply, ConnectionClosed,
         Accept, SendCommand, Drop, BadFrame, slotVars
<1>1. ASSUME thread[c].phase \in {"none", "idle", "replying", "closing"},
             NEW p \in {"idle", "queued", "closing", "ended"}, NEW m, NEW a,
             Become(c, Thread(p, m, a))
      PROVE  SlotsAreExclusive'
  <2>1. Only(c) /\ thread'[c].phase = p
    BY <1>0, <1>1, BecomeEffect DEF Only, Thread
  <2> QED
    BY <1>0, <1>1, <2>1, StaysOutside DEF Downloading, Fixing
<1>2. CASE EndOfStream(c) \/ Reply(c) \/ BadFrame(c)
  BY <1>1, <1>2 DEF EndOfStream, Reply, BadFrame
<1>3. CASE ConnectionClosed(c)
  BY <1>1, <1>3 DEF ConnectionClosed, Ended
<1>4. CASE Accept(c)
  BY <1>1, <1>4 DEF Accept, Fresh, Thread
<1>5. CASE \E cmd \in Commands : SendCommand(c, cmd)
  BY <1>1, <1>5 DEF SendCommand
<1>6. CASE Drop(c)
  BY <1>0, <1>6 DEF Drop, SlotsAreExclusive, Downloading, Fixing
<1> QED
  BY <1>2, <1>3, <1>4, <1>5, <1>6 DEF Serve, ClientStep

\* So do the ticker and the process, which frees both when it goes.
LEMMA SystemSlots ==
    ASSUME Slots, System
    PROVE  SlotsAreExclusive'
<1>1. CASE UNCHANGED <<updating, troubleshooting, thread>>
  BY <1>1 DEF Slots, SlotsAreExclusive, Downloading, Fixing
<1>2. CASE Vanish
  <2>1. ~updating' /\ ~troubleshooting'
        /\ \A c \in Conns : thread'[c].phase \in {"none", "ended"}
    BY <1>2 DEF Vanish, Fresh, Ended, Thread
  <2> QED
    BY <2>1 DEF SlotsAreExclusive, Downloading, Fixing
<1> QED
  BY <1>1, <1>2
  DEF System, Tick, CoreDies, AdapterComesUp, StopRequested, HandOver,
      StopBody, ProcessExit, ShutDown, ProcessKilled, ServiceStart, slotVars

\* The updater is never taken out twice and no two batches run at once, and no
\* path (busy, failed download, claimed meanwhile, client gone, process gone)
\* leaves a flag set behind: `updating` and `troubleshooting` are exact.
THEOREM SlotsStayExact == Spec => []SlotsAreExclusive
<1>1. Init => Slots
  <2> SUFFICES ASSUME Init
               PROVE  Slots
    OBVIOUS
  <2>1. ~updating /\ ~troubleshooting
        /\ \A c \in Conns : thread[c].phase = "none"
    BY DEF Init, Fresh, Thread
  <2> QED
    BY <2>1, InitType DEF Slots, SlotsAreExclusive, Downloading, Fixing
<1>2. Slots /\ [Next]_vars => Slots'
  <2> SUFFICES ASSUME Slots, [Next]_vars
               PROVE  Slots'
    OBVIOUS
  <2>1. TypeOK'
    BY NextType DEF Slots
  <2>2. CASE UNCHANGED vars
    BY <2>1, <2>2
    DEF Slots, SlotsAreExclusive, Downloading, Fixing, vars, slotVars
  <2>3. CASE Next
    <3>1. SlotsAreExclusive'
      BY <2>3, ExecuteSlots, ConnectionSlots, SystemSlots DEF Next
    <3> QED
      BY <2>1, <3>1 DEF Slots
  <2> QED
    BY <2>2, <2>3
<1>3. Slots => SlotsAreExclusive
  BY DEF Slots
<1> QED
  BY <1>1, <1>2, <1>3, PTL DEF Spec
=============================================================================
