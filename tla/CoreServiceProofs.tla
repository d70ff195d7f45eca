--------------------------- MODULE CoreServiceProofs ---------------------------
(***************************************************************************)
(* Proofs about the always-ready service, for every set of connections,    *)
(* users, generations and commands and on both platforms.                  *)
(***************************************************************************)
EXTENDS CoreService, TLAPS

-----------------------------------------------------------------------------
(***************************************************************************)
(* What the operations of ProductionCores return.                          *)
(***************************************************************************)

\* The fields of a result of the cores.
LEMMA ResultFields ==
    ASSUME NEW ok \in BOOLEAN, NEW c, NEW r, r = Result(ok, c)
    PROVE  r.ok = ok /\ r.ok \in BOOLEAN /\ r.cores = c
  BY DEF Result

\* The tunnel is a field of its own.
LEMMA TunnelField ==
    ASSUME NEW c \in CoresType, NEW t \in TunStates
    PROVE  /\ [c EXCEPT !.tun = t] \in CoresType
           /\ [c EXCEPT !.tun = t].active = c.active
           /\ [c EXCEPT !.tun = t].xray = c.xray
           /\ [c EXCEPT !.tun = t].mihomo = c.mihomo
  BY DEF CoresType

\* set_tun touches nothing but the tunnel.
LEMMA SetTunKeepsCores ==
    ASSUME NEW c \in CoresType, NEW on \in BOOLEAN,
           NEW r \in SetTunResults(c, on)
    PROVE  /\ r.ok \in BOOLEAN
           /\ r.cores \in CoresType
           /\ r.cores.active = c.active
           /\ r.cores.xray = c.xray
           /\ r.cores.mihomo = c.mihomo
<1>1. \E ok \in BOOLEAN :
         \/ r = Result(ok, c)
         \/ \E t \in TunStates : r = Result(ok, [c EXCEPT !.tun = t])
  <2>1. CASE c.mihomo # "running"
    BY <2>1 DEF SetTunResults
  <2>2. CASE c.mihomo = "running" /\ on
    BY <2>2 DEF SetTunResults, TunStates
  <2>3. CASE c.mihomo = "running" /\ ~on
    BY <2>3 DEF SetTunResults, TunStates
  <2> QED
    BY <2>1, <2>2, <2>3
<1>2. PICK ok \in BOOLEAN :
         \/ r = Result(ok, c)
         \/ \E t \in TunStates : r = Result(ok, [c EXCEPT !.tun = t])
  BY <1>1
<1>3. CASE r = Result(ok, c)
  BY <1>3, ResultFields
<1>4. CASE \E t \in TunStates : r = Result(ok, [c EXCEPT !.tun = t])
  <2>1. PICK t \in TunStates : r = Result(ok, [c EXCEPT !.tun = t])
    BY <1>4
  <2>2. r.ok \in BOOLEAN /\ r.cores = [c EXCEPT !.tun = t]
    BY <2>1 DEF Result
  <2> QED
    BY <2>2, TunnelField
<1> QED
  BY <1>2, <1>3, <1>4

\* Nor does a switch-on that is rolled back when it failed.
LEMMA RaiseTunKeepsCores ==
    ASSUME NEW c \in CoresType, NEW r \in RaiseTunResults(c)
    PROVE  /\ r.ok \in BOOLEAN
           /\ r.cores \in CoresType
           /\ r.cores.active = c.active
           /\ r.cores.xray = c.xray
           /\ r.cores.mihomo = c.mihomo
<1>1. PICK s \in SetTunResults(c, TRUE) :
         r \in IF s.ok THEN {s}
               ELSE {Result(FALSE, t) : t \in SwitchOff(s.cores)}
  BY DEF RaiseTunResults
<1>2. /\ s.ok \in BOOLEAN
      /\ s.cores \in CoresType
      /\ s.cores.active = c.active
      /\ s.cores.xray = c.xray
      /\ s.cores.mihomo = c.mihomo
  BY SetTunKeepsCores
<1>3. CASE s.ok
  BY <1>1, <1>2, <1>3
<1>4. CASE ~s.ok
  <2>1. PICK t \in SwitchOff(s.cores) : r = Result(FALSE, t)
    BY <1>1, <1>4
  <2>2. PICK q \in SetTunResults(s.cores, FALSE) : t = q.cores
    BY <2>1 DEF SwitchOff
  <2>3. /\ q.cores \in CoresType
        /\ q.cores.active = s.cores.active
        /\ q.cores.xray = s.cores.xray
        /\ q.cores.mihomo = s.cores.mihomo
    BY <1>2, SetTunKeepsCores
  <2> QED
    BY <1>2, <2>1, <2>2, <2>3 DEF Result
<1> QED
  BY <1>3, <1>4

\* A restart that succeeded has both cores running and did not lose `active`.
LEMMA RestartedCoresRun ==
    ASSUME NEW c \in CoresType, NEW r \in RestartResults(c)
    PROVE  /\ r.ok \in BOOLEAN
           /\ r.ok => r.cores \in CoresType /\ r.cores.active
<1>1. CASE ~c.active
  <2>1. r = Result(FALSE, c)
    BY <1>1 DEF RestartResults
  <2> QED
    BY <2>1, ResultFields
<1>2. CASE c.active
  <2>1. PICK s \in StopProcesses(c) :
           r \in {Result(FALSE, s),
                  Result(FALSE, [s EXCEPT !.xray = "running"]),
                  Result(TRUE, [s EXCEPT !.xray = "running",
                                         !.mihomo = "running"])}
    BY <1>2 DEF RestartResults
  <2>2. s \in CoresType /\ s.active
    <3>1. PICK x \in StopOne(c.xray) : \E m \in StopOne(c.mihomo) :
             s = [c EXCEPT !.xray = x, !.mihomo = m, !.tun = TunAfter(c, m)]
      BY <2>1 DEF StopProcesses
    <3>2. PICK m \in StopOne(c.mihomo) :
             s = [c EXCEPT !.xray = x, !.mihomo = m, !.tun = TunAfter(c, m)]
      BY <3>1
    <3>3. x \in ProcessStates /\ m \in ProcessStates
      BY DEF StopOne, ProcessStates
    <3>4. TunAfter(c, m) \in TunStates
      BY DEF TunAfter, CoresType, TunStates
    <3> QED
      BY <1>2, <3>2, <3>3, <3>4 DEF CoresType
  <2>3. CASE r = Result(FALSE, s)
    BY <2>3, ResultFields
  <2>4. CASE r = Result(FALSE, [s EXCEPT !.xray = "running"])
    BY <2>4, ResultFields
  <2>5. CASE r = Result(TRUE, [s EXCEPT !.xray = "running",
                                        !.mihomo = "running"])
    <3>1. r.ok \in BOOLEAN
          /\ r.cores = [s EXCEPT !.xray = "running", !.mihomo = "running"]
      BY <2>5 DEF Result
    <3> QED
      BY <2>2, <3>1 DEF CoresType, ProcessStates
  <2> QED
    BY <2>1, <2>3, <2>4, <2>5
<1> QED
  BY <1>1, <1>2 DEF CoresType

\* Stopped cores are well formed.
LEMMA StoppedType == Stopped \in CoresType /\ ~Stopped.active
  BY DEF Stopped, CoresType, ProcessStates, TunStates

\* Launched cores are well formed.
LEMMA LaunchedType == Launched \in CoresType /\ Launched.active
  BY DEF Launched, CoresType, ProcessStates, TunStates

\* Restoring the tunnel keeps both cores and records either a failure or
\* nothing but the tunnel that was there.
LEMMA RestoreTunnelKeepsCores ==
    ASSUME NEW c \in CoresType, tunOn \in BOOLEAN, RestoreTunnel(c)
    PROVE  /\ cores' \in CoresType
           /\ cores'.active = c.active
           /\ tunOn' \in BOOLEAN
           /\ failure' \in BOOLEAN
           /\ tunOn' => tunOn /\ ~failure'
<1>1. PICK t \in (IF tunOn THEN RaiseTunResults(c) ELSE {Result(TRUE, c)}) :
         /\ cores' = t.cores
         /\ tunOn' = (tunOn /\ t.ok)
         /\ failure' = ~t.ok
  BY DEF RestoreTunnel
<1>2. CASE tunOn
  <2>1. t \in RaiseTunResults(c)
    BY <1>2
  <2>2. /\ t.ok \in BOOLEAN
        /\ t.cores \in CoresType
        /\ t.cores.active = c.active
    BY <2>1, RaiseTunKeepsCores
  <2> QED
    BY <1>1, <1>2, <2>2
<1>3. CASE ~tunOn
  <2>1. t = Result(TRUE, c)
    BY <1>3
  <2> QED
    BY <1>1, <1>3, <2>1 DEF Result
<1> QED
  BY <1>2, <1>3
-----------------------------------------------------------------------------
(***************************************************************************)
(* Type correctness.                                                       *)
(***************************************************************************)

\* The fields of a thread.
LEMMA ThreadFields ==
    ASSUME TypeOK, NEW c \in Conns
    PROVE  /\ thread \in [Conns -> ThreadType]
           /\ thread[c] \in ThreadType
           /\ thread[c].phase \in Phases
           /\ thread[c].cmd \in CommandType \cup {NoCommand}
           /\ thread[c].answer \in Answers
  BY DEF TypeOK, ThreadType

\* The parameters of a command are of the type its name promises.
LEMMA CommandFields ==
    ASSUME TypeOK, NEW c \in Conns
    PROVE  /\ thread[c].cmd.op = "Prepare" => thread[c].cmd.gen \in Gens
           /\ thread[c].cmd.op = "SetTun" => thread[c].cmd.on \in BOOLEAN
<1>1. thread[c].cmd \in CommandType \cup {NoCommand}
  BY ThreadFields
<1> QED
  BY <1>1 DEF CommandType, NoCommand

\* A thread made of well formed parts is one.
LEMMA MakeThread ==
    ASSUME NEW p \in Phases, NEW m \in CommandType \cup {NoCommand},
           NEW a \in Answers
    PROVE  Thread(p, m, a) \in ThreadType
  BY DEF Thread, ThreadType

\* A thread that becomes a well formed one keeps the types.
LEMMA BecomeType ==
    ASSUME TypeOK, NEW c \in Conns, NEW t \in ThreadType, Become(c, t)
    PROVE  thread' \in [Conns -> ThreadType]
  BY DEF TypeOK, Become

\* So does one that answers.
LEMMA AnswerType ==
    ASSUME TypeOK, NEW c \in Conns, NEW a \in Answers, Answer(c, a)
    PROVE  thread' \in [Conns -> ThreadType]
<1> DEFINE m == IF thread[c].cmd.op = "Shutdown" THEN thread[c].cmd
                ELSE NoCommand
<1>1. m \in CommandType \cup {NoCommand}
  BY ThreadFields
<1>2. Thread("replying", m, a) \in ThreadType
  <2> HIDE DEF m
  <2> QED
    BY <1>1, MakeThread DEF Phases
<1>3. Become(c, Thread("replying", m, a))
  BY DEF Answer
<1> QED
  BY <1>2, <1>3, BecomeType

\* A thread that only changes its phase.
LEMMA PhaseType ==
    ASSUME TypeOK, NEW c \in Conns, NEW p \in Phases,
           Become(c, [thread[c] EXCEPT !.phase = p])
    PROVE  thread' \in [Conns -> ThreadType]
<1>1. thread[c] \in ThreadType
  BY ThreadFields
<1>2. [thread[c] EXCEPT !.phase = p] \in ThreadType
  BY <1>1 DEF ThreadType
<1> QED
  BY <1>2, BecomeType

\* So do threads that carry no command and no answer.
LEMMA SimpleThreads ==
    /\ Fresh \in ThreadType
    /\ Ended \in ThreadType
    /\ Thread("closing", NoCommand, "none") \in ThreadType
    /\ \A a \in Answers : Thread("idle", NoCommand, a) \in ThreadType
    /\ \A m \in Commands : Thread("queued", m, "none") \in ThreadType
<1>1. /\ NoCommand \in CommandType \cup {NoCommand}
      /\ "none" \in Answers
      /\ \A p \in {"none", "ended", "closing", "idle", "queued"} : p \in Phases
  BY DEF Answers, Phases
<1>2. \A p \in {"none", "ended", "closing"} :
         Thread(p, NoCommand, "none") \in ThreadType
  BY <1>1, MakeThread
<1>3. \A a \in Answers : Thread("idle", NoCommand, a) \in ThreadType
  BY <1>1, MakeThread
<1>4. \A m \in Commands : Thread("queued", m, "none") \in ThreadType
  <2> TAKE m \in Commands
  <2>1. m \in CommandType \cup {NoCommand}
    BY CommandsAssumption
  <2> QED
    BY <1>1, <2>1, MakeThread
<1>5. Fresh \in ThreadType /\ Ended \in ThreadType
  BY <1>2 DEF Fresh, Ended
<1> QED
  BY <1>2, <1>3, <1>4, <1>5

\* Everything stops: what is left is of the right type.
LEMMA StopEverythingType ==
    ASSUME StopEverything
    PROVE  /\ owner' \in Conns \cup {NoConn}
           /\ prepared' \in Gens \cup {NoGen}
           /\ tunOn' \in BOOLEAN
           /\ crashRestarts' \in 0..MaxCrashRestarts
           /\ failure' \in BOOLEAN
           /\ cores' \in CoresType
<1>1. crashRestarts' \in 0..MaxCrashRestarts
  BY DEF StopEverything, StopCores, MaxCrashRestarts
<1>2. cores' \in CoresType
  BY StoppedType DEF StopEverything, StopCores
<1>3. /\ owner' \in Conns \cup {NoConn}
      /\ prepared' \in Gens \cup {NoGen}
  BY DEF StopEverything, StopCores
<1>4. tunOn' \in BOOLEAN /\ failure' \in BOOLEAN
  BY DEF StopEverything, StopCores
<1> QED
  BY <1>1, <1>2, <1>3, <1>4

\* The ticker keeps the types.
LEMMA TickType ==
    ASSUME TypeOK, Tick
    PROVE  TypeOK'
<1>1. /\ UNCHANGED <<owner, prepared, slotVars, life, client, thread>>
      /\ tunOn \in BOOLEAN /\ cores \in CoresType
      /\ crashRestarts \in 0..1
  BY DEF Tick, TypeOK, MaxCrashRestarts
<1>2. /\ tunOn' \in BOOLEAN
      /\ failure' \in BOOLEAN
      /\ cores' \in CoresType
      /\ crashRestarts' \in 0..1
  <2>1. CASE RestartSpent
    BY <1>1, <2>1, StoppedType DEF Tick
  <2>2. CASE ~RestartSpent
    <3>1. crashRestarts' \in 0..1
      BY <1>1, <2>2 DEF Tick, RestartSpent, MaxCrashRestarts
    <3>2. PICK r \in RestartResults(cores) :
             \/ /\ ~r.ok
                /\ cores' = Stopped
                /\ tunOn' = FALSE
                /\ failure' = TRUE
             \/ r.ok /\ RestoreTunnel(r.cores)
      BY <2>2 DEF Tick
    <3>3. CASE ~r.ok
      BY <3>1, <3>2, <3>3, StoppedType
    <3>4. CASE r.ok /\ RestoreTunnel(r.cores)
      BY <1>1, <3>1, <3>4, RestartedCoresRun, RestoreTunnelKeepsCores
    <3> QED
      BY <3>2, <3>3, <3>4
  <2> QED
    BY <2>1, <2>2
<1> QED
  BY <1>1, <1>2 DEF TypeOK, slotVars, MaxCrashRestarts

\* Prepare keeps the types, on each of its outcomes.
LEMMA PrepareType ==
    ASSUME TypeOK, NEW c \in Conns, ExecutePrepare(c)
    PROVE  TypeOK'
<1> DEFINE g == thread[c].cmd.gen
<1>1. /\ g \in Gens
      /\ UNCHANGED <<slotVars, life, client>>
      /\ owner' = c
      /\ tunOn \in BOOLEAN
      /\ "Prepared" \in Answers /\ "Error" \in Answers
  BY CommandFields DEF ExecutePrepare, Queued, TypeOK, Answers
<1> HIDE DEF g
<1>2. CASE AlreadyPrepared(g)
  <2>1. UNCHANGED <<prepared, tunOn, crashRestarts, failure, cores>>
        /\ Answer(c, "Prepared")
    BY <1>2 DEF ExecutePrepare, g
  <2>2. thread' \in [Conns -> ThreadType]
    BY <1>1, <2>1, AnswerType
  <2> QED
    BY <1>1, <2>1, <2>2 DEF TypeOK, slotVars
<1>3. CASE Relaunch(c, g)
  <2>1. PICK r \in PrepareResults :
           \/ /\ ~r.ok
              /\ prepared' = NoGen
              /\ failure' = TRUE
              /\ tunOn' = FALSE
              /\ cores' = r.cores
              /\ Answer(c, "Error")
           \/ /\ r.ok
              /\ prepared' = g
              /\ RestoreTunnel(r.cores)
              /\ Answer(c, "Prepared")
    BY <1>3 DEF Relaunch
  <2>2. r.cores \in CoresType
    BY StoppedType, LaunchedType DEF PrepareResults, Result
  <2>3. thread' \in [Conns -> ThreadType]
    BY <1>1, <2>1, AnswerType
  <2>4. /\ prepared' \in Gens \cup {NoGen}
        /\ tunOn' \in BOOLEAN
        /\ failure' \in BOOLEAN
        /\ cores' \in CoresType
    BY <1>1, <2>1, <2>2, RestoreTunnelKeepsCores
  <2>5. crashRestarts' \in 0..MaxCrashRestarts
    BY <1>3 DEF Relaunch, MaxCrashRestarts
  <2> QED
    BY <1>1, <2>3, <2>4, <2>5 DEF TypeOK, slotVars
<1> QED
  BY <1>2, <1>3 DEF ExecutePrepare, g

\* SetTun leaves everything but the owner, the tunnel and its record alone.
LEMMA SetTunEffect ==
    ASSUME TypeOK, NEW c \in Conns, ExecuteSetTun(c)
    PROVE  /\ tunOn' \in BOOLEAN
           /\ cores' \in CoresType
           /\ cores'.active = cores.active
           /\ cores'.xray = cores.xray
           /\ cores'.mihomo = cores.mihomo
           /\ \E a \in {"TunOn", "TunOff", "Error"} : Answer(c, a)
           /\ ~Ready => UNCHANGED <<tunOn, cores>>
           /\ ~tunOn /\ tunOn' => thread[c].cmd.on /\ Answer(c, "TunOn")
<1> DEFINE on == thread[c].cmd.on
<1>1. on \in BOOLEAN /\ tunOn \in BOOLEAN /\ cores \in CoresType
  BY CommandFields DEF ExecuteSetTun, Queued, TypeOK
<1> HIDE DEF on
<1>2. CASE ~Ready /\ Answer(c, "Error") /\ UNCHANGED <<tunOn, cores>>
  BY <1>1, <1>2
<1>3. CASE /\ Ready /\ tunOn = on
           /\ Answer(c, IF on THEN "TunOn" ELSE "TunOff")
           /\ UNCHANGED <<tunOn, cores>>
  BY <1>1, <1>3
<1>4. CASE Ready /\ ~tunOn /\ on /\ SwitchTunOn(c)
  <2>1. PICK r \in RaiseTunResults(cores) :
           /\ cores' = r.cores
           /\ tunOn' = r.ok
           /\ Answer(c, IF r.ok THEN "TunOn" ELSE "Error")
    BY <1>4 DEF SwitchTunOn
  <2>2. /\ r.ok \in BOOLEAN
        /\ r.cores \in CoresType
        /\ r.cores.active = cores.active
        /\ r.cores.xray = cores.xray
        /\ r.cores.mihomo = cores.mihomo
    BY <1>1, RaiseTunKeepsCores
  <2> QED
    BY <1>4, <2>1, <2>2 DEF on
<1>5. CASE Ready /\ tunOn /\ ~on /\ SwitchTunOff(c)
  <2>1. PICK r \in SetTunResults(cores, FALSE) :
           /\ cores' = r.cores
           /\ \/ /\ r.ok
                 /\ tunOn' = FALSE
                 /\ Answer(c, "TunOff")
              \/ /\ ~r.ok
                 /\ tunOn' \in TunIsOn(r.cores)
                 /\ Answer(c, "Error")
    BY <1>5 DEF SwitchTunOff
  <2>2. /\ r.cores \in CoresType
        /\ r.cores.active = cores.active
        /\ r.cores.xray = cores.xray
        /\ r.cores.mihomo = cores.mihomo
    BY <1>1, SetTunKeepsCores
  <2>3. tunOn' \in BOOLEAN
    BY <2>1 DEF TunIsOn
  <2> QED
    BY <1>5, <2>1, <2>2, <2>3
<1> QED
  BY <1>2, <1>3, <1>4, <1>5 DEF ExecuteSetTun, on

\* Every command keeps them.
LEMMA ExecuteType ==
    ASSUME TypeOK, NEW c \in Conns, Execute(c)
    PROVE  TypeOK'
<1> USE DEF Answers
<1>1. CASE ExecuteBusy(c)
  <2>1. thread' \in [Conns -> ThreadType]
    BY <1>1, AnswerType DEF ExecuteBusy
  <2> QED
    BY <1>1, <2>1 DEF ExecuteBusy, TypeOK, loopVars, slotVars
<1>2. CASE ExecutePrepare(c)
  BY <1>2, PrepareType
<1>3. CASE ExecuteSetTun(c)
  <2>1. /\ tunOn' \in BOOLEAN
        /\ cores' \in CoresType
        /\ \E a \in {"TunOn", "TunOff", "Error"} : Answer(c, a)
    BY <1>3, SetTunEffect
  <2>2. thread' \in [Conns -> ThreadType]
    BY <2>1, AnswerType
  <2> QED
    BY <1>3, <2>1, <2>2 DEF ExecuteSetTun, TypeOK, slotVars
<1>4. CASE ExecuteQuery(c)
  <2>1. thread' \in [Conns -> ThreadType]
    BY <1>4, AnswerType DEF ExecuteQuery
  <2> QED
    BY <1>4, <2>1 DEF ExecuteQuery, TypeOK, loopVars, slotVars
<1>5. CASE ExecuteStop(c)
  <2>1. thread' \in [Conns -> ThreadType]
    BY <1>5, AnswerType DEF ExecuteStop
  <2>2. crashRestarts' \in 0..MaxCrashRestarts
    BY <1>5 DEF ExecuteStop, StopCores, MaxCrashRestarts
  <2>3. cores' \in CoresType
    BY <1>5, StoppedType DEF ExecuteStop, StopCores
  <2> QED
    BY <1>5, <2>1, <2>2, <2>3 DEF ExecuteStop, StopCores, TypeOK, slotVars
<1>6. CASE ExecuteShutdown(c)
  <2>1. thread' \in [Conns -> ThreadType]
    BY <1>6, AnswerType DEF ExecuteShutdown
  <2> QED
    BY <1>6, <2>1, StopEverythingType DEF ExecuteShutdown, TypeOK, slotVars
<1>7. CASE StartUpdate(c)
  <2>1. thread' \in [Conns -> ThreadType]
    BY <1>7, AnswerType, PhaseType DEF StartUpdate, Phases
  <2>2. updating' \in BOOLEAN
    BY <1>7 DEF StartUpdate, TypeOK
  <2> QED
    BY <1>7, <2>1, <2>2 DEF StartUpdate, TypeOK, loopVars
<1>8. CASE FinishStage(c)
  <2>1. thread' \in [Conns -> ThreadType]
    BY <1>8, AnswerType DEF FinishStage
  <2> QED
    BY <1>8, <2>1 DEF FinishStage, TypeOK, loopVars
<1>9. CASE FinishUpdate(c)
  <2>1. PICK downloaded \in UpdaterResults :
          \/ /\ Answer(c, "Error") \/ Answer(c, "Busy")
             /\ UNCHANGED <<loopVars, launched>>
          \/ /\ StopEverything
             /\ \E begun \in UpdaterResults :
                   /\ launched' = (launched \/ begun)
                   /\ Answer(c, IF begun THEN "UpdateStarted" ELSE "Error")
    BY <1>9 DEF FinishUpdate
  <2>2. thread' \in [Conns -> ThreadType]
    BY <2>1, AnswerType
  <2>3. updating' \in BOOLEAN /\ UNCHANGED <<troubleshooting, life, client>>
    BY <1>9 DEF FinishUpdate
  <2>4. CASE UNCHANGED <<loopVars, launched>>
    BY <2>2, <2>3, <2>4 DEF TypeOK, loopVars
  <2>5. CASE StopEverything /\ launched' \in BOOLEAN
    BY <2>2, <2>3, <2>5, StopEverythingType DEF TypeOK
  <2> QED
    BY <2>1, <2>4, <2>5
<1>10. CASE StartTroubleshoot(c)
  <2>1. thread' \in [Conns -> ThreadType]
    BY <1>10, AnswerType, PhaseType DEF StartTroubleshoot, Phases
  <2>2. troubleshooting' \in BOOLEAN
    BY <1>10 DEF StartTroubleshoot, TypeOK
  <2> QED
    BY <1>10, <2>1, <2>2 DEF StartTroubleshoot, TypeOK, loopVars
<1>11. CASE RunFixes(c)
  <2>1. thread' \in [Conns -> ThreadType]
    BY <1>11, PhaseType DEF RunFixes, Phases
  <2>2. cores' \in CoresType
    BY <1>11, TunnelField DEF RunFixes, TypeOK, TunStates
  <2> QED
    BY <1>11, <2>1, <2>2 DEF RunFixes, TypeOK, slotVars
<1>12. CASE FinishTroubleshoot(c)
  <2>1. thread' \in [Conns -> ThreadType]
    BY <1>12, AnswerType DEF FinishTroubleshoot
  <2> QED
    BY <1>12, <2>1 DEF FinishTroubleshoot, TypeOK, loopVars
<1> QED
  BY <1>1, <1>2, <1>3, <1>4, <1>5, <1>6, <1>7, <1>8, <1>9, <1>10, <1>11,
     <1>12 DEF Execute

\* Frames, replies and drops keep them.
LEMMA ConnectionType ==
    ASSUME TypeOK, NEW c \in Conns, Serve(c) \/ ClientStep(c)
    PROVE  TypeOK'
<1>1. CASE EndOfStream(c) \/ BadFrame(c)
  <2>1. Become(c, Thread("closing", NoCommand, "none"))
    BY <1>1 DEF EndOfStream, BadFrame
  <2>2. thread' \in [Conns -> ThreadType]
    BY <2>1, SimpleThreads, BecomeType
  <2> QED
    BY <1>1, <2>2 DEF EndOfStream, BadFrame, TypeOK, loopVars, slotVars
<1>2. CASE Reply(c)
  <2>1. \/ \E a \in Answers : Become(c, Thread("idle", NoCommand, a))
        \/ Become(c, Thread("closing", NoCommand, "none"))
    BY <1>2 DEF Reply, Answers
  <2>2. thread' \in [Conns -> ThreadType]
    BY <2>1, SimpleThreads, BecomeType
  <2> QED
    BY <1>2, <2>2 DEF Reply, TypeOK, loopVars, slotVars
<1>3. CASE ConnectionClosed(c)
  <2>1. thread' \in [Conns -> ThreadType]
    BY <1>3, SimpleThreads, BecomeType DEF ConnectionClosed
  <2>2. client' \in [Conns -> BOOLEAN]
    BY <1>3 DEF ConnectionClosed, TypeOK
  <2>3. CASE StopEverything
    BY <1>3, <2>1, <2>2, <2>3, StopEverythingType
    DEF ConnectionClosed, TypeOK, slotVars
  <2>4. CASE UNCHANGED loopVars
    BY <1>3, <2>1, <2>2, <2>4 DEF ConnectionClosed, TypeOK, slotVars, loopVars
  <2> QED
    BY <1>3, <2>3, <2>4 DEF ConnectionClosed, ClientGone
<1>4. CASE Accept(c)
  <2>1. thread' \in [Conns -> ThreadType]
    BY <1>4, SimpleThreads, BecomeType DEF Accept, Answers
  <2>2. client' \in [Conns -> BOOLEAN]
    BY <1>4 DEF Accept, TypeOK
  <2> QED
    BY <1>4, <2>1, <2>2 DEF Accept, TypeOK, loopVars, slotVars
<1>5. ASSUME NEW cmd \in Commands, SendCommand(c, cmd)
      PROVE  TypeOK'
  <2>1. thread' \in [Conns -> ThreadType]
    BY <1>5, SimpleThreads, BecomeType DEF SendCommand
  <2> QED
    BY <1>5, <2>1 DEF SendCommand, TypeOK, loopVars, slotVars
<1>6. CASE Drop(c)
  BY <1>6 DEF Drop, TypeOK, loopVars, slotVars
<1> QED
  BY <1>1, <1>2, <1>3, <1>4, <1>5, <1>6 DEF Serve, ClientStep

\* A process that goes leaves nothing of the wrong type.
LEMMA VanishType ==
    ASSUME TypeOK, Vanish
    PROVE  TypeOK'
<1>1. thread' \in [Conns -> ThreadType]
  BY SimpleThreads DEF Vanish, TypeOK
<1> QED
  BY <1>1, StopEverythingType DEF Vanish, TypeOK

\* The ticker, dying cores and the process keep them.
LEMMA SystemType ==
    ASSUME TypeOK, System
    PROVE  TypeOK'
<1>1. CASE Tick
  BY <1>1, TickType
<1>2. ASSUME NEW engine \in {"xray", "mihomo"}, CoreDies(engine)
      PROVE  TypeOK'
  <2>1. cores' \in CoresType
    BY <1>2 DEF CoreDies, Exit, TypeOK, CoresType, ProcessStates, TunStates
  <2> QED
    BY <1>2, <2>1 DEF CoreDies, TypeOK, slotVars
<1>3. CASE AdapterComesUp
  <2>1. cores' \in CoresType
    BY <1>3, TunnelField DEF AdapterComesUp, TypeOK, TunStates
  <2> QED
    BY <1>3, <2>1 DEF AdapterComesUp, TypeOK, slotVars
<1>4. CASE StopRequested \/ HandOver \/ ServiceStart
  BY <1>4 DEF StopRequested, HandOver, ServiceStart, TypeOK, loopVars, slotVars
<1>5. CASE StopBody
  BY <1>5, StopEverythingType DEF StopBody, TypeOK, slotVars
<1>6. CASE ProcessExit \/ ShutDown \/ ProcessKilled
  BY <1>6, VanishType DEF ProcessExit, ShutDown, ProcessKilled
<1> QED
  BY <1>1, <1>2, <1>3, <1>4, <1>5, <1>6 DEF System

\* Every step keeps the types.
LEMMA NextType == TypeOK /\ [Next]_vars => TypeOK'
<1> SUFFICES ASSUME TypeOK, [Next]_vars
             PROVE  TypeOK'
  OBVIOUS
<1>1. CASE System
  BY <1>1, SystemType
<1>2. ASSUME NEW c \in Conns, Execute(c) \/ Serve(c) \/ ClientStep(c)
      PROVE  TypeOK'
  BY <1>2, ExecuteType, ConnectionType
<1>3. CASE UNCHANGED vars
  BY <1>3 DEF vars, TypeOK, loopVars, slotVars
<1> QED
  BY <1>1, <1>2, <1>3 DEF Next

\* They hold at first.
LEMMA InitType == Init => TypeOK
<1> SUFFICES ASSUME Init
             PROVE  TypeOK
  OBVIOUS
<1>1. crashRestarts \in 0..MaxCrashRestarts
  BY DEF Init, MaxCrashRestarts
<1>2. thread \in [Conns -> ThreadType] /\ client \in [Conns -> BOOLEAN]
  BY SimpleThreads DEF Init
<1>3. cores \in CoresType
  BY StoppedType DEF Init
<1> QED
  BY <1>1, <1>2, <1>3 DEF Init, TypeOK

\* Type correctness of the whole service: every field of ServiceLoop and every
\* connection thread keeps its type, and the crash-restart counter never
\* passes MAX_CRASH_RESTARTS.
THEOREM TypeCorrect == Spec => []TypeOK
  BY InitType, NextType, PTL DEF Spec
=============================================================================
