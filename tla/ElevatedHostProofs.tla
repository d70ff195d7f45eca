-------------------------- MODULE ElevatedHostProofs --------------------------
(***************************************************************************)
(* A host runs the cores of one generation, for every number of hosts,     *)
(* generations and waiting calls.                                          *)
(*                                                                         *)
(* A second layer, ServedInv, says which generation the session's host may *)
(* have at each step of the Supervisor.  From it: a daemon that is Ready   *)
(* has left no core running, and Connected means that both cores of the    *)
(* staged generation were started.                                         *)
(***************************************************************************)
EXTENDS ElevatedHost, TLAPS

\* A host whose processes are all of its active generation.
Sound(h) == \A p \in h.alive : p[2] = h.gen

\* The command a running Supervisor sends, and the Connect a drop may leave
\* behind, name a staged generation; a command that was sent went to a host.
CallsAreBacked ==
    /\ conn.pc \in {"startXray", "startMihomo"} => conn.gen \in Gens
    /\ conn.st = "Connecting" => conn.gen \in Gens
    /\ job.sent => session \in Hosts

\* The inductive invariant.
HostsAreSound == TypeOK /\ OneGeneration /\ CallsAreBacked

-------------------------------------------------------------------------------
(* What the operations of RuntimeHost leave behind *)

\* No generation is numbered 0.
LEMMA NoGenIsNone == NoGen \notin Gens /\ NoHost \notin Hosts
BY HostAssumption DEF NoGen, Gens, NoHost, Hosts

\* The two parts of a result.
LEMMA ResultParts ==
    ASSUME NEW ok \in BOOLEAN, NEW h
    PROVE  Result(ok, h).ok = ok /\ Result(ok, h).h = h
BY DEF Result

\* A host without an active generation has no core process.
LEMMA InactiveIsEmpty ==
    ASSUME NEW h \in HostType, Sound(h), h.gen = NoGen
    PROVE  h.alive = {}
<1>1. \A p \in h.alive : p \in Engines \X Gens /\ p[2] = NoGen
  BY DEF Sound, HostType
<1>2. \A p \in h.alive : p[2] \in Gens
  BY <1>1
<1> QED
  BY <1>1, <1>2, NoGenIsNone

\* Dropping the active controller leaves nothing.
LEMMA DroppedIsSound ==
    ASSUME NEW h \in HostType
    PROVE  /\ ActiveDropped(h) \in HostType /\ Sound(ActiveDropped(h))
           /\ ActiveDropped(h).gen = NoGen
BY DEF Sound, ActiveDropped, HostType

\* Clearing a flag keeps a host sound, whether or not it drops the controller.
LEMMA ClearedIsSound ==
    ASSUME NEW h \in HostType, Sound(h), NEW e \in Engines
    PROVE  Cleared(h, e) \in HostType /\ Sound(Cleared(h, e))
<1>1. CASE h.flag \subseteq {e}
  BY <1>1, DroppedIsSound DEF Cleared, Sound
<1>2. CASE ~(h.flag \subseteq {e})
  BY <1>2 DEF Cleared, Sound, HostType
<1> QED
  BY <1>1, <1>2

\* A start under an active generation adds a core of that generation at most.
LEMMA ControllerStartIsSound ==
    ASSUME NEW h \in HostType, Sound(h), NEW e \in Engines, h.gen \in Gens,
           NEW o \in ControllerStart(h, e)
    PROVE  o.h \in HostType /\ Sound(o.h) /\ o.ok \in BOOLEAN
<1> DEFINE fresh == [h EXCEPT !.child = @ \ {e}]
           process == h.alive \cup {<<e, h.gen>>}
           started == [h EXCEPT !.child = @ \cup {e}, !.alive = process]
           resisting == [fresh EXCEPT !.alive = process]
<1>1. fresh \in HostType /\ Sound(fresh) /\ fresh.gen = h.gen
  BY DEF Sound, HostType
<1>2. process \in SUBSET (Engines \X Gens) /\ \A p \in process : p[2] = h.gen
  BY DEF Sound, HostType
<1>3. started \in HostType /\ Sound(started)
  BY <1>2 DEF Sound, HostType
<1>4. resisting \in HostType /\ Sound(resisting)
  BY <1>1, <1>2 DEF Sound, HostType
<1>5. o \in {Result(FALSE, h), Result(TRUE, h),
             Result(TRUE, started), Result(FALSE, fresh), Result(FALSE, resisting)}
  BY DEF ControllerStart
<1> HIDE DEF fresh, started, resisting
<1>6. PICK b \in BOOLEAN, x \in {h, started, fresh, resisting} : o = Result(b, x)
  BY <1>5
<1>7. o.ok = b /\ o.h = x
  BY <1>6, ResultParts
<1> QED
  BY <1>1, <1>3, <1>4, <1>7

\* A stop removes processes at most.
LEMMA ControllerStopIsSound ==
    ASSUME NEW h \in HostType, Sound(h), NEW e \in Engines, NEW o \in ControllerStop(h, e)
    PROVE  o.h \in HostType /\ Sound(o.h) /\ o.ok \in BOOLEAN
<1> DEFINE stopped == [h EXCEPT !.child = @ \ {e}, !.alive = @ \ {<<e, h.gen>>}]
<1>1. stopped \in HostType /\ Sound(stopped)
  BY DEF Sound, HostType
<1>2. o \in {Result(TRUE, h), Result(FALSE, h), Result(TRUE, stopped)}
  BY DEF ControllerStop
<1> QED
  BY <1>1, <1>2, ResultParts

\* RuntimeHost::start.
LEMMA HostStartIsSound ==
    ASSUME NEW h \in HostType, Sound(h), NEW e \in Engines, NEW g \in Gens,
           NEW o \in HostStart(h, e, g)
    PROVE  o.h \in HostType /\ Sound(o.h) /\ o.ok \in BOOLEAN
<1> DEFINE other == h.gen \notin {NoGen, g}
           d == IF other THEN ActiveDropped(h) ELSE h
           a == IF d.gen = NoGen THEN [d EXCEPT !.gen = g] ELSE d
<1>1. d \in HostType /\ Sound(d) /\ d.gen \in {NoGen, g}
  BY DroppedIsSound DEF Sound
<1>2. a \in HostType /\ Sound(a) /\ a.gen = g
  <2>1. CASE d.gen = NoGen
    BY <2>1, <1>1, InactiveIsEmpty DEF Sound, HostType
  <2>2. CASE d.gen # NoGen
    BY <2>2, <1>1
  <2> QED
    BY <2>1, <2>2
<1>3. ASSUME NEW c \in ControllerStart(a, e),
             o = IF c.ok THEN Result(TRUE, [c.h EXCEPT !.flag = @ \cup {e}])
                 ELSE Result(FALSE, Cleared(c.h, e))
      PROVE  o.h \in HostType /\ Sound(o.h) /\ o.ok \in BOOLEAN
  <2>1. c.h \in HostType /\ Sound(c.h) /\ c.ok \in BOOLEAN
    BY <1>2, ControllerStartIsSound
  <2>2. [c.h EXCEPT !.flag = @ \cup {e}] \in HostType /\ Sound([c.h EXCEPT !.flag = @ \cup {e}])
    BY <2>1 DEF Sound, HostType
  <2>3. Cleared(c.h, e) \in HostType /\ Sound(Cleared(c.h, e))
    BY <2>1, ClearedIsSound
  <2> QED
    BY <1>3, <2>1, <2>2, <2>3, ResultParts
<1>4. \/ o = Result(FALSE, h)
      \/ o = Result(FALSE, d)
      \/ \E c \in ControllerStart(a, e) :
            o = IF c.ok THEN Result(TRUE, [c.h EXCEPT !.flag = @ \cup {e}])
                ELSE Result(FALSE, Cleared(c.h, e))
  <2>1. CASE other /\ AnyCoreAlive(h)
    BY <2>1 DEF HostStart
  <2>2. CASE ~(other /\ AnyCoreAlive(h)) /\ e = "Mihomo" /\ "Xray" \notin d.flag
    BY <2>2 DEF HostStart
  <2>3. CASE ~(other /\ AnyCoreAlive(h)) /\ ~(e = "Mihomo" /\ "Xray" \notin d.flag)
    BY <2>3 DEF HostStart
  <2> QED
    BY <2>1, <2>2, <2>3
<1> QED
  BY <1>1, <1>3, <1>4, ResultParts

\* RuntimeHost::stop of one engine.
LEMMA StopEngineIsSound ==
    ASSUME NEW h \in HostType, Sound(h), NEW e \in Engines, NEW o \in StopEngine(h, e)
    PROVE  o.h \in HostType /\ Sound(o.h) /\ o.ok \in BOOLEAN
<1>1. CASE e \in h.flag
  <2>1. PICK c \in ControllerStop(h, e) :
           o = IF c.ok THEN Result(TRUE, Cleared(c.h, e)) ELSE c
    BY <1>1 DEF StopEngine
  <2>2. c.h \in HostType /\ Sound(c.h) /\ c.ok \in BOOLEAN
    BY ControllerStopIsSound
  <2>3. Cleared(c.h, e) \in HostType /\ Sound(Cleared(c.h, e))
    BY <2>2, ClearedIsSound
  <2> QED
    BY <2>1, <2>2, <2>3, ResultParts
<1>2. CASE e \notin h.flag
  BY <1>2, ResultParts DEF StopEngine
<1> QED
  BY <1>1, <1>2

\* RuntimeHost::stop.
LEMMA HostStopIsSound ==
    ASSUME NEW h \in HostType, Sound(h), NEW e \in Engines, NEW o \in HostStop(h, e)
    PROVE  o.h \in HostType /\ Sound(o.h) /\ o.ok \in BOOLEAN
<1>1. CASE e = "Xray" /\ "Mihomo" \in h.flag
  <2>1. PICK c \in StopEngine(h, "Mihomo") : o \in IF c.ok THEN StopEngine(c.h, e) ELSE {c}
    BY <1>1 DEF HostStop
  <2>2. c.h \in HostType /\ Sound(c.h) /\ c.ok \in BOOLEAN
    BY StopEngineIsSound DEF Engines
  <2>3. CASE c.ok
    BY <2>1, <2>2, <2>3, StopEngineIsSound
  <2>4. CASE ~c.ok
    BY <2>1, <2>2, <2>4
  <2> QED
    BY <2>3, <2>4
<1>2. CASE ~(e = "Xray" /\ "Mihomo" \in h.flag)
  BY <1>2, StopEngineIsSound DEF HostStop
<1> QED
  BY <1>1, <1>2

\* A command starts a generation that was staged.
LEMMA CommandShape ==
    ASSUME NEW cmd \in Commands \cup {NoCommand}
    PROVE  /\ cmd.engine \in Engines
           /\ cmd.op = "Start" => cmd.gen \in Gens
BY DEF Commands, NoCommand, Start, Stop, Diagnostics, Shutdown, Engines

\* RuntimeHost::execute.
LEMMA ExecuteIsSound ==
    ASSUME NEW h \in HostType, Sound(h), NEW cmd \in Commands \cup {NoCommand},
           NEW o \in Execute(h, cmd)
    PROVE  o.h \in HostType /\ Sound(o.h) /\ o.ok \in BOOLEAN
<1>1. CASE cmd.op = "Start"
  BY <1>1, CommandShape, HostStartIsSound DEF Execute
<1>2. CASE cmd.op = "Stop"
  BY <1>2, CommandShape, HostStopIsSound DEF Execute
<1>3. CASE cmd.op = "Shutdown"
  BY <1>3, DroppedIsSound, ResultParts DEF Execute
<1>4. CASE cmd.op \notin {"Start", "Stop", "Shutdown"}
  BY <1>4, ResultParts DEF Execute
<1> QED
  BY <1>1, <1>2, <1>3, <1>4

\* A host that ended has no process.
LEMMA EndedIsSound ==
    ASSUME NEW h \in HostType
    PROVE  Ended(h) \in HostType /\ Sound(Ended(h))
<1>1. ActiveDropped(h) \in HostType /\ Sound(ActiveDropped(h))
  BY DroppedIsSound
<1> QED
  BY <1>1 DEF Ended, Sound, HostType

-------------------------------------------------------------------------------
(* The steps *)

\* Replacing one host by a sound one.
LEMMA OneHostChanges ==
    ASSUME HostsAreSound, NEW h \in Hosts, NEW x \in HostType, Sound(x),
           host' = [host EXCEPT ![h] = x]
    PROVE  host' \in [Hosts -> HostType] /\ OneGeneration'
<1>1. \A k \in Hosts : host'[k] = IF k = h THEN x ELSE host[k]
  BY DEF HostsAreSound, TypeOK
<1> QED
  BY <1>1 DEF HostsAreSound, TypeOK, OneGeneration, Sound

\* Every host is sound.
LEMMA EachIsSound ==
    ASSUME HostsAreSound, NEW h \in Hosts
    PROVE  host[h] \in HostType /\ Sound(host[h])
BY DEF HostsAreSound, TypeOK, OneGeneration, Sound

\* A step of a host leaves the daemon alone.
LEMMA HostStep ==
    ASSUME HostsAreSound, host' \in [Hosts -> HostType], OneGeneration',
           UNCHANGED <<conn, job, late, left, session>>
    PROVE  HostsAreSound'
BY DEF HostsAreSound, TypeOK, CallsAreBacked

\* A host joins, or finds its daemon gone and ends.
LEMMA HostJoinsSafe ==
    ASSUME HostsAreSound, NEW h \in Hosts, HostJoins(h)
    PROVE  HostsAreSound'
<1> DEFINE x == IF host[h].link THEN [host[h] EXCEPT !.life = "idle"] ELSE Ended(host[h])
<1>1. host[h] \in HostType /\ Sound(host[h])
  BY EachIsSound
<1>2. [host[h] EXCEPT !.life = "idle"] \in HostType /\ Sound([host[h] EXCEPT !.life = "idle"])
  BY <1>1 DEF Sound, HostType
<1>3. x \in HostType /\ Sound(x)
  BY <1>1, <1>2, EndedIsSound
<1>4. host' = [host EXCEPT ![h] = x] /\ UNCHANGED <<conn, job, late, left, session>>
  BY DEF HostJoins
<1> HIDE DEF x
<1> QED
  BY <1>3, <1>4, OneHostChanges, HostStep

\* Reading a command changes no core.
LEMMA HostReadsSafe ==
    ASSUME HostsAreSound, NEW h \in Hosts, HostReads(h)
    PROVE  HostsAreSound'
<1> DEFINE x == [host[h] EXCEPT !.life = "busy"]
<1>1. host[h] \in HostType /\ Sound(host[h])
  BY EachIsSound
<1>2. x \in HostType /\ Sound(x)
  BY <1>1 DEF Sound, HostType
<1>3. host' = [host EXCEPT ![h] = x] /\ UNCHANGED <<conn, job, late, left, session>>
  BY <1>1 DEF HostReads
<1> HIDE DEF x
<1> QED
  BY <1>2, <1>3, OneHostChanges, HostStep

\* Executing a command, with its answer received or not.
LEMMA HostAnswersSafe ==
    ASSUME HostsAreSound, NEW h \in Hosts, HostAnswers(h)
    PROVE  HostsAreSound'
<1>1. host[h] \in HostType /\ Sound(host[h]) /\ host[h].inbox \in Commands \cup {NoCommand}
  BY EachIsSound DEF HostType
<1>2. PICK o \in Execute(host[h], host[h].inbox) :
         LET answered == [o.h EXCEPT !.life = "idle", !.inbox = NoCommand,
                                     !.reply = IF o.ok THEN "Ok" ELSE "Error"]
         IN  host' = [host EXCEPT ![h] =
                         IF ~@.link THEN Ended(o.h)
                         ELSE IF @.inbox = Shutdown THEN Ended(answered)
                         ELSE answered]
  BY DEF HostAnswers
<1>3. o.h \in HostType /\ Sound(o.h) /\ o.ok \in BOOLEAN
  BY <1>1, ExecuteIsSound
<1> DEFINE answered == [o.h EXCEPT !.life = "idle", !.inbox = NoCommand,
                                   !.reply = IF o.ok THEN "Ok" ELSE "Error"]
           x == IF ~host[h].link THEN Ended(o.h)
                ELSE IF host[h].inbox = Shutdown THEN Ended(answered) ELSE answered
<1>4. answered \in HostType /\ Sound(answered)
  BY <1>3 DEF Sound, HostType
<1>5. host' = [host EXCEPT ![h] = x] /\ UNCHANGED <<conn, job, late, left, session>>
  BY <1>2 DEF HostAnswers
<1> HIDE DEF answered
<1>6. x \in HostType /\ Sound(x)
  BY <1>3, <1>4, EndedIsSound
<1> HIDE DEF x
<1> QED
  BY <1>5, <1>6, OneHostChanges, HostStep

\* However a host ends, its cores end with it.
LEMMA HostEndsSafe ==
    ASSUME HostsAreSound, NEW h \in Hosts, HostEof(h) \/ HostKilled(h)
    PROVE  HostsAreSound'
<1>1. host[h] \in HostType /\ Sound(host[h])
  BY EachIsSound
<1>2. Ended(host[h]) \in HostType /\ Sound(Ended(host[h]))
  BY <1>1, EndedIsSound
<1>3. /\ host' = [host EXCEPT ![h] = Ended(host[h])]
      /\ UNCHANGED <<conn, job, late, left, session>>
  BY DEF HostEof, HostKilled
<1> QED
  BY <1>2, <1>3, OneHostChanges, HostStep

\* A core that dies is missing from the job only.
LEMMA CoreDiesSafe ==
    ASSUME HostsAreSound, NEW h \in Hosts, NEW e \in Engines, CoreDies(h, e)
    PROVE  HostsAreSound'
<1> DEFINE x == [host[h] EXCEPT !.alive = @ \ {<<e, host[h].gen>>}]
<1>1. host[h] \in HostType /\ Sound(host[h])
  BY EachIsSound
<1>2. x \in HostType /\ Sound(x)
  BY <1>1 DEF Sound, HostType
<1>3. host' = [host EXCEPT ![h] = x] /\ UNCHANGED <<conn, job, late, left, session>>
  BY DEF CoreDies
<1> HIDE DEF x
<1> QED
  BY <1>2, <1>3, OneHostChanges, HostStep

-------------------------------------------------------------------------------
(* The daemon's steps *)

\* A command of a Supervisor whose generation is staged is one of the protocol.
LEMMA CommandOfType ==
    ASSUME HostsAreSound, conn.pc # "idle"
    PROVE  CommandOf(conn.pc, conn.gen) \in Commands
<1>1. CASE conn.pc \in {"startXray", "startMihomo"}
  <2>1. conn.gen \in Gens
    BY <1>1 DEF HostsAreSound, CallsAreBacked
  <2>2. \A e \in Engines : Start(e, conn.gen) \in Commands
    BY <2>1 DEF Commands
  <2> QED
    BY <1>1, <2>2 DEF CommandOf, Engines
<1>2. CASE conn.pc \notin {"startXray", "startMihomo"}
  BY <1>2 DEF CommandOf, Commands, Engines
<1> QED
  BY <1>1, <1>2

\* The Supervisor's next step has its type, and never starts a core without a
\* generation.
LEMMA AdvancedType ==
    ASSUME HostsAreSound, NEW res
    PROVE  /\ Advanced(conn, res) \in ConnType
           /\ Advanced(conn, res).pc \in {"startXray", "startMihomo"} =>
                 Advanced(conn, res).gen \in Gens
           /\ Advanced(conn, res).st = "Connecting" => Advanced(conn, res).gen \in Gens
<1> DEFINE ok == Succeeded(conn.pc, res)
<1>1. /\ conn \in ConnType
      /\ conn.pc \in {"startXray", "startMihomo"} => conn.gen \in Gens
      /\ conn.st = "Connecting" => conn.gen \in Gens
  BY DEF HostsAreSound, TypeOK, CallsAreBacked
<1>2. ASSUME NEW st \in {"Ready", "Connected", "Error"}
      PROVE  /\ Settled(conn, st) \in ConnType /\ Settled(conn, st).pc = "idle"
             /\ Settled(conn, st).st = st
             /\ Settled([conn EXCEPT !.gen = NoGen], st) \in ConnType
             /\ Settled([conn EXCEPT !.gen = NoGen], st).pc = "idle"
             /\ Settled([conn EXCEPT !.gen = NoGen], st).st = st
  BY <1>1 DEF Settled, ConnType
<1>3. CASE conn.pc = "startXray" /\ ok
  BY <1>1, <1>3 DEF Advanced, ConnType
<1>4. CASE conn.pc = "startMihomo" /\ ~ok
  BY <1>1, <1>4 DEF Advanced, ConnType
<1>5. CASE conn.pc = "stopMihomo"
  BY <1>1, <1>5 DEF Advanced, ConnType, Succeeded
<1>6. CASE /\ ~(conn.pc = "startXray" /\ ok) /\ ~(conn.pc = "startMihomo" /\ ~ok)
           /\ conn.pc # "stopMihomo"
  <2>1. \E st \in {"Ready", "Connected", "Error"} :
           Advanced(conn, res) \in {Settled(conn, st), Settled([conn EXCEPT !.gen = NoGen], st)}
    BY <1>6 DEF Advanced
  <2> QED
    BY <2>1, <1>2
<1> QED
  BY <1>3, <1>4, <1>5, <1>6

\* Cutting a host off does not touch its cores.
LEMMA LinkCut ==
    ASSUME HostsAreSound, NEW h \in Hosts
    PROVE  LET x == [host[h] EXCEPT !.link = FALSE, !.reply = "none"]
           IN  x \in HostType /\ Sound(x)
<1>1. host[h] \in HostType /\ Sound(host[h])
  BY EachIsSound
<1> QED
  BY <1>1 DEF Sound, HostType

\* The daemon's end cuts every host off.
LEMMA DaemonDiesSafe ==
    ASSUME HostsAreSound, DaemonDies
    PROVE  HostsAreSound'
<1>1. host' \in [Hosts -> HostType] /\ \A h \in Hosts : Sound(host'[h])
  BY LinkCut DEF DaemonDies
<1>2. OneGeneration'
  BY <1>1 DEF OneGeneration, Sound
<1>3. conn' \in ConnType /\ conn'.pc = "idle" /\ conn'.st = "Ready"
  BY HostAssumption DEF HostsAreSound, TypeOK, DaemonDies, FirstConn, ConnType
<1>4. job' \in JobType /\ ~job'.sent
  BY DEF DaemonDies, NoJob, JobType
<1> QED
  BY <1>1, <1>2, <1>3, <1>4 DEF HostsAreSound, TypeOK, CallsAreBacked, DaemonDies

\* A call that returns, with the hosts it leaves.
LEMMA ReturnsSafe ==
    ASSUME HostsAreSound, NEW res, NEW s \in Hosts \cup {NoHost}, Returns(res, s),
           host' \in [Hosts -> HostType], OneGeneration'
    PROVE  HostsAreSound'
<1>1. /\ conn' \in ConnType
      /\ conn'.pc \in {"startXray", "startMihomo"} => conn'.gen \in Gens
      /\ conn'.st = "Connecting" => conn'.gen \in Gens
  BY AdvancedType DEF Returns, HostsAreSound, TypeOK, CallsAreBacked
<1>2. job' \in JobType /\ ~job'.sent
  BY DEF Returns, NoJob, JobType
<1> QED
  BY <1>1, <1>2 DEF HostsAreSound, TypeOK, CallsAreBacked, Returns

\* A failed request drops the session.
LEMMA DropsSafe ==
    ASSUME HostsAreSound, NEW res, session \in Hosts, Drops(res)
    PROVE  HostsAreSound'
<1>1. CASE job.for = "quit"
  BY <1>1, DaemonDiesSafe DEF Drops
<1>2. CASE job.for # "quit"
  <2> DEFINE x == [host[session] EXCEPT !.link = FALSE, !.reply = "none"]
  <2>1. x \in HostType /\ Sound(x)
    BY LinkCut
  <2>2. Returns(res, NoHost) /\ host' = [host EXCEPT ![session] = x]
    BY <1>2 DEF Drops
  <2> HIDE DEF x
  <2>3. host' \in [Hosts -> HostType] /\ OneGeneration'
    BY <2>1, <2>2, OneHostChanges
  <2> QED
    BY <2>2, <2>3, ReturnsSafe
<1> QED
  BY <1>1, <1>2

\* A step that leaves hosts and session alone.
LEMMA DaemonStep ==
    ASSUME HostsAreSound, UNCHANGED <<session, host>>, conn' \in ConnType,
           conn'.pc \in {"startXray", "startMihomo"} => conn'.gen \in Gens,
           conn'.st = "Connecting" => conn'.gen \in Gens,
           job' \in JobType, job'.sent => job.sent,
           late' \subseteq Commands, left' \subseteq Gens
    PROVE  HostsAreSound'
BY DEF HostsAreSound, TypeOK, OneGeneration, CallsAreBacked

\* A Connect stages a new generation; a Disconnect needs none.
LEMMA BeginSafe ==
    ASSUME HostsAreSound, BeginConnect \/ BeginDisconnect
    PROVE  HostsAreSound'
<1>1. conn \in ConnType /\ conn.staged \in Nat
  BY HostAssumption DEF HostsAreSound, TypeOK, ConnType
<1>2. CASE BeginConnect
  <2>1. conn.staged + 1 \in Gens
    BY <1>1, <1>2, HostAssumption DEF BeginConnect, Gens
  <2>2. conn.staged + 1 \in 0..MaxGens
    BY <2>1 DEF Gens
  <2>3. conn' \in ConnType /\ conn'.gen \in Gens
    BY <1>1, <1>2, <2>1, <2>2 DEF BeginConnect, ConnType
  <2> QED
    BY <1>2, <2>3, DaemonStep DEF BeginConnect, HostsAreSound, TypeOK
<1>3. CASE BeginDisconnect
  <2>1. conn' \in ConnType /\ conn'.pc = "stopMihomo" /\ conn'.st # "Connecting"
    BY <1>1, <1>3 DEF BeginDisconnect, ConnType
  <2> QED
    BY <1>3, <2>1, DaemonStep DEF BeginDisconnect, HostsAreSound, TypeOK
<1> QED
  BY <1>2, <1>3

\* A dropped request leaves a call of the protocol behind.
LEMMA AbandonSafe ==
    ASSUME HostsAreSound, Abandon
    PROVE  HostsAreSound'
<1>1. conn' \in ConnType /\ conn'.pc = "idle" /\ conn'.st # "Connecting"
  BY DEF HostsAreSound, TypeOK, Abandon, Settled, ConnType
<1>2. job' \in JobType /\ (job'.sent => job.sent)
  BY DEF HostsAreSound, TypeOK, Abandon, JobType
<1>3. late' \subseteq Commands
  BY CommandOfType DEF HostsAreSound, TypeOK, Abandon
<1>4. left' \subseteq Gens
  BY DEF HostsAreSound, TypeOK, Abandon, CallsAreBacked
<1> QED
  BY <1>1, <1>2, <1>3, <1>4, DaemonStep DEF Abandon

\* Taking the session's lock.
LEMMA AcquireSafe ==
    ASSUME HostsAreSound, Acquire \/ Quit
    PROVE  HostsAreSound'
<1>1. ASSUME NEW cmd \in Commands, NEW for \in {"conn", "diag", "quit", "nobody"}
      PROVE  Holding(cmd, for) \in JobType /\ ~Holding(cmd, for).sent
  BY DEF Holding, JobType
<1>2. Diagnostics \in Commands /\ Shutdown \in Commands
  BY DEF Commands
<1>3. late \subseteq Commands
  BY DEF HostsAreSound, TypeOK
<1>4. /\ job' \in JobType /\ ~job'.sent /\ late' \subseteq late
      /\ UNCHANGED <<conn, left, session, host>>
  BY <1>1, <1>2, <1>3, CommandOfType DEF Acquire, Quit
<1> QED
  BY <1>3, <1>4, DaemonStep DEF HostsAreSound, TypeOK, CallsAreBacked

\* A call that never reaches a host.
LEMMA RefusedSafe ==
    ASSUME HostsAreSound, BrokerRefuses \/ LaunchFails
    PROVE  HostsAreSound'
<1>1. host' \in [Hosts -> HostType] /\ OneGeneration'
  BY DEF BrokerRefuses, LaunchFails, HostsAreSound, TypeOK, OneGeneration
<1>2. Returns("Disconnected", NoHost) \/ Returns("Failed", NoHost)
  BY DEF BrokerRefuses, LaunchFails
<1> QED
  BY <1>1, <1>2, ReturnsSafe

\* A launched host is a new one.
LEMMA LaunchHostSafe ==
    ASSUME HostsAreSound, LaunchHost
    PROVE  HostsAreSound'
<1>1. PICK h \in Hosts :
         /\ session' = h
         /\ host' = [host EXCEPT ![h].life = "starting", ![h].link = TRUE]
  BY DEF LaunchHost
<1> DEFINE x == [host[h] EXCEPT !.life = "starting", !.link = TRUE]
<1>2. host[h] \in HostType /\ Sound(host[h])
  BY EachIsSound
<1>3. x \in HostType /\ Sound(x)
  BY <1>2 DEF Sound, HostType
<1>4. host' = [host EXCEPT ![h] = x]
  BY <1>1, <1>2 DEF HostsAreSound, TypeOK
<1> HIDE DEF x
<1>5. host' \in [Hosts -> HostType] /\ OneGeneration'
  BY <1>3, <1>4, OneHostChanges
<1> QED
  BY <1>1, <1>5 DEF LaunchHost, HostsAreSound, TypeOK, CallsAreBacked

\* Sending a command to the host of the session.
LEMMA BrokerSendsSafe ==
    ASSUME HostsAreSound, BrokerSends
    PROVE  HostsAreSound'
<1> DEFINE x == [host[session] EXCEPT !.inbox = job.cmd]
<1>1. session \in Hosts
  BY DEF BrokerSends, HostsAreSound, TypeOK
<1>2. host[session] \in HostType /\ Sound(host[session])
  BY <1>1, EachIsSound
<1>3. job \in JobType
  BY DEF HostsAreSound, TypeOK
<1>4. x \in HostType /\ Sound(x)
  BY <1>2, <1>3 DEF Sound, HostType, JobType
<1>5. host' = [host EXCEPT ![session] = x]
  BY DEF BrokerSends
<1> HIDE DEF x
<1>6. host' \in [Hosts -> HostType] /\ OneGeneration'
  BY <1>1, <1>4, <1>5, OneHostChanges
<1>7. job' \in JobType
  BY <1>3 DEF BrokerSends, JobType
<1> QED
  BY <1>1, <1>6, <1>7 DEF BrokerSends, HostsAreSound, TypeOK, CallsAreBacked

\* An answer ends its call.
LEMMA BrokerReceivesSafe ==
    ASSUME HostsAreSound, BrokerReceives
    PROVE  HostsAreSound'
<1>1. CASE job.for = "quit"
  BY <1>1, DaemonDiesSafe DEF BrokerReceives
<1>2. CASE job.for # "quit"
  <2> DEFINE x == [host[session] EXCEPT !.reply = "none"]
  <2>1. session \in Hosts
    BY DEF BrokerReceives, HostsAreSound, CallsAreBacked
  <2>2. host[session] \in HostType /\ Sound(host[session])
    BY <2>1, EachIsSound
  <2>3. x \in HostType /\ Sound(x)
    BY <2>2 DEF Sound, HostType
  <2>4. Returns(host[session].reply, session) /\ host' = [host EXCEPT ![session] = x]
    BY <1>2 DEF BrokerReceives
  <2> HIDE DEF x
  <2>5. host' \in [Hosts -> HostType] /\ OneGeneration'
    BY <2>1, <2>3, <2>4, OneHostChanges
  <2> QED
    BY <2>1, <2>4, <2>5, ReturnsSafe
<1> QED
  BY <1>1, <1>2

\* A session that broke or was late.
LEMMA LostSafe ==
    ASSUME HostsAreSound, BrokerLoses \/ BrokerTimesOut
    PROVE  HostsAreSound'
<1>1. session \in Hosts
  BY DEF BrokerLoses, BrokerTimesOut, HostsAreSound, TypeOK
<1>2. Drops("Disconnected") \/ Drops("TimedOut")
  BY DEF BrokerLoses, BrokerTimesOut
<1> QED
  BY <1>1, <1>2, DropsSafe

-------------------------------------------------------------------------------
(* The theorems *)

\* The invariant holds before the first Connect.
LEMMA InitSound == Init => HostsAreSound
<1> SUFFICES ASSUME Init PROVE HostsAreSound
  OBVIOUS
<1>1. NotLaunched \in HostType /\ NotLaunched.alive = {}
  BY DEF NotLaunched, HostType
<1>2. FirstConn \in ConnType /\ FirstConn.pc = "idle" /\ FirstConn.st = "Ready"
  BY HostAssumption DEF FirstConn, ConnType
<1>3. NoJob \in JobType /\ ~NoJob.sent
  BY DEF NoJob, JobType
<1> QED
  BY <1>1, <1>2, <1>3 DEF Init, HostsAreSound, TypeOK, OneGeneration, CallsAreBacked

\* Every step keeps the invariant.
LEMMA NextSound == HostsAreSound /\ [Next]_vars => HostsAreSound'
<1> SUFFICES ASSUME HostsAreSound, [Next]_vars PROVE HostsAreSound'
  OBVIOUS
<1>1. CASE UNCHANGED vars
  BY <1>1 DEF vars, HostsAreSound, TypeOK, OneGeneration, CallsAreBacked
<1>2. CASE BeginConnect \/ BeginDisconnect \/ Abandon \/ Acquire \/ Quit
  BY <1>2, BeginSafe, AbandonSafe, AcquireSafe
<1>3. CASE DaemonDies
  BY <1>3, DaemonDiesSafe
<1>4. CASE BrokerRefuses \/ LaunchFails \/ LaunchHost
  BY <1>4, RefusedSafe, LaunchHostSafe
<1>5. CASE BrokerSends \/ BrokerReceives \/ BrokerLoses \/ BrokerTimesOut
  BY <1>5, BrokerSendsSafe, BrokerReceivesSafe, LostSafe
<1>6. ASSUME NEW h \in Hosts,
             HostJoins(h) \/ HostReads(h) \/ HostAnswers(h) \/ HostEof(h) \/ HostKilled(h)
      PROVE  HostsAreSound'
  BY <1>6, HostJoinsSafe, HostReadsSafe, HostAnswersSafe, HostEndsSafe
<1>7. ASSUME NEW h \in Hosts, NEW e \in Engines, CoreDies(h, e)
      PROVE  HostsAreSound'
  BY <1>7, CoreDiesSafe
<1> QED
  BY <1>1, <1>2, <1>3, <1>4, <1>5, <1>6, <1>7 DEF Next

\* The types, for every number of hosts, generations and waiting calls: no call
\* of the broker asks for a generation that was never staged.
THEOREM HostTypeCorrect == Spec => []TypeOK
<1>1. HostsAreSound => TypeOK
  BY DEF HostsAreSound
<1> QED
  BY <1>1, InitSound, NextSound, PTL DEF Spec

\* The processes of a host are the cores of its active generation, though cores
\* die, resist their stop and fail to start, sessions are dropped and calls of
\* dropped requests arrive late.
THEOREM HostRunsOneGeneration == Spec => []OneGeneration
<1>1. HostsAreSound => OneGeneration
  BY DEF HostsAreSound
<1> QED
  BY <1>1, InitSound, NextSound, PTL DEF Spec

-------------------------------------------------------------------------------
(* What a daemon that is Ready, or Connected, knows of its host *)

\* active is Some exactly while one of its two flags is set.
FlagOK(h) == h.gen = NoGen <=> h.flag = {}

\* The one open pipe is the session's, and a host that was not launched is as
\* it was.
LinkInv ==
    /\ \A h \in Hosts : FlagOK(host[h]) /\ (host[h].link <=> h = session)
    /\ \A h \in Hosts : host[h].life = "none" => host[h] = NotLaunched /\ h # session

\* One command at a time: the pipe holds the call's command or its answer.
PipeInv ==
    /\ \A h \in Hosts : host[h].life = "busy" => host[h].inbox # NoCommand
    /\ session # NoHost =>
          /\ ~job.sent => host[session].inbox = NoCommand /\ host[session].reply = "none"
          /\ host[session].inbox \in {NoCommand, job.cmd}
          /\ host[session].inbox # NoCommand => host[session].reply = "none"

\* The call that holds the lock is the Supervisor's next one, or it may start
\* only generations whose Connect was dropped.
JobInv ==
    /\ job.for = "conn" => conn.pc # "idle" /\ job.cmd = CommandOf(conn.pc, conn.gen)
    /\ job.for # "conn" /\ job.cmd.op = "Start" => job.cmd.gen \in left \/ conn.st = "Error"
    /\ \A c \in late : c.op = "Start" => c.gen \in left

\* Where the Supervisor may be in each state; a generation is staged once.
ConnInv ==
    /\ conn.st = "Connecting" <=> conn.pc \in {"startXray", "startMihomo", "rollback"}
    /\ conn.st = "Ready" => conn.pc = "idle"
    /\ conn.gen <= conn.staged /\ \A g \in left : g <= conn.staged
    /\ conn.st = "Connecting" => conn.gen \notin left

\* Which generation a host h of the session has, by the step of the Supervisor
\* and the answer that is on its way to it: none or one whose Connect was
\* dropped while nothing may run, and the right one when both cores were started.
Fits(h) ==
    LET answered == job.for = "conn" /\ h.reply = "Ok" IN
    /\ conn.st = "Ready" \/ (conn.pc = "startXray" /\ ~answered) => h.gen \in left \cup {NoGen}
    /\ conn.pc \in {"stopXray", "rollback"} /\ answered => h.gen = NoGen
    /\ conn.pc = "startMihomo" /\ answered =>
          h.life = "gone" \/ (h.gen = conn.gen /\ h.flag = Engines)

GenInv == session # NoHost => Fits(host[session])

\* The second layer of the invariant.
ServedInv == LinkInv /\ PipeInv /\ JobInv /\ ConnInv /\ GenInv

\* What an operation of RuntimeHost leaves alone.
Frame(h, x) ==
    x.life = h.life /\ x.link = h.link /\ x.inbox = h.inbox /\ x.reply = h.reply

\* Dropping the controller clears both flags.
LEMMA DroppedKeeps ==
    ASSUME NEW h \in HostType
    PROVE  /\ Frame(h, ActiveDropped(h)) /\ FlagOK(ActiveDropped(h))
           /\ ActiveDropped(h).gen = NoGen /\ ActiveDropped(h).flag = {}
BY DEF ActiveDropped, Frame, FlagOK, HostType

\* Clearing the last flag drops the controller.
LEMMA ClearedKeeps ==
    ASSUME NEW h \in HostType, NEW e \in Engines, h.gen # NoGen
    PROVE  LET x == Cleared(h, e) IN
           /\ Frame(h, x) /\ FlagOK(x) /\ x.gen \in {h.gen, NoGen}
           /\ x.flag = h.flag \ {e}
           /\ h.flag \subseteq {e} => x.gen = NoGen
<1>1. CASE h.flag \subseteq {e}
  BY <1>1, DroppedKeeps DEF Cleared
<1>2. CASE ~(h.flag \subseteq {e})
  BY <1>2 DEF Cleared, Frame, FlagOK, HostType
<1> QED
  BY <1>1, <1>2

\* The sidecar controller knows nothing of generations and flags.
LEMMA ControllerKeeps ==
    ASSUME NEW h \in HostType, NEW e \in Engines,
           NEW o \in ControllerStart(h, e) \cup ControllerStop(h, e)
    PROVE  Frame(h, o.h) /\ o.h.gen = h.gen /\ o.h.flag = h.flag
<1> DEFINE fresh == [h EXCEPT !.child = @ \ {e}]
           process == h.alive \cup {<<e, h.gen>>}
           started == [h EXCEPT !.child = @ \cup {e}, !.alive = process]
           resisting == [fresh EXCEPT !.alive = process]
           stopped == [h EXCEPT !.child = @ \ {e}, !.alive = @ \ {<<e, h.gen>>}]
<1>1. \A x \in {h, started, fresh, resisting, stopped} :
         Frame(h, x) /\ x.gen = h.gen /\ x.flag = h.flag
  BY DEF Frame, HostType
<1>2. o \in {Result(FALSE, h), Result(TRUE, h), Result(TRUE, started), Result(FALSE, fresh),
             Result(FALSE, resisting), Result(TRUE, stopped)}
  BY DEF ControllerStart, ControllerStop
<1> HIDE DEF fresh, started, resisting, stopped
<1>3. PICK b \in BOOLEAN, x \in {h, started, fresh, resisting, stopped} : o = Result(b, x)
  BY <1>2
<1> QED
  BY <1>1, <1>3, ResultParts

\* RuntimeHost::start: Ok means that generation, and for Mihomo both engines; a
\* start of Xray that fails leaves no new generation.
LEMMA HostStartDoes ==
    ASSUME NEW h \in HostType, Sound(h), FlagOK(h), NEW e \in Engines, NEW g \in Gens,
           NEW o \in HostStart(h, e, g)
    PROVE  /\ Frame(h, o.h) /\ FlagOK(o.h) /\ o.h.gen \in {h.gen, g, NoGen}
           /\ o.ok /\ e = "Mihomo" => o.h.gen = g /\ o.h.flag = Engines
           /\ ~o.ok /\ e = "Xray" /\ h.gen # g => o.h.gen \in {h.gen, NoGen}
<1> DEFINE other == h.gen \notin {NoGen, g}
           d == IF other THEN ActiveDropped(h) ELSE h
           a == IF d.gen = NoGen THEN [d EXCEPT !.gen = g] ELSE d
<1>1. /\ d \in HostType /\ d.gen \in {NoGen, g} /\ Frame(h, d) /\ FlagOK(d) /\ Sound(d)
      /\ h.gen # g => d.gen = NoGen
  BY DroppedKeeps, DroppedIsSound DEF Frame
<1>2. /\ a \in HostType /\ a.gen = g /\ Frame(h, a) /\ a.flag = d.flag /\ Sound(a)
      /\ g # NoGen
  <2>1. CASE d.gen = NoGen
    BY <1>1, <2>1, NoGenIsNone, InactiveIsEmpty DEF Frame, HostType, Sound
  <2>2. CASE d.gen # NoGen
    BY <1>1, <2>2, NoGenIsNone
  <2> QED
    BY <2>1, <2>2
<1>3. ASSUME NEW c \in ControllerStart(a, e), e = "Mihomo" => "Xray" \in d.flag,
             o = IF c.ok THEN Result(TRUE, [c.h EXCEPT !.flag = @ \cup {e}])
                 ELSE Result(FALSE, Cleared(c.h, e))
      PROVE  /\ Frame(h, o.h) /\ FlagOK(o.h) /\ o.h.gen \in {h.gen, g, NoGen}
             /\ o.ok /\ e = "Mihomo" => o.h.gen = g /\ o.h.flag = Engines
             /\ ~o.ok /\ e = "Xray" /\ h.gen # g => o.h.gen \in {h.gen, NoGen}
  <2>1. /\ c.h \in HostType /\ Frame(a, c.h) /\ c.h.gen = g /\ c.h.flag = d.flag
        /\ c.ok \in BOOLEAN
    <3> HIDE DEF a
    <3>1. c \in ControllerStart(a, e) \cup ControllerStop(a, e)
      BY <1>3
    <3>2. Frame(a, c.h) /\ c.h.gen = a.gen /\ c.h.flag = a.flag
      BY <1>2, <3>1, ControllerKeeps
    <3>3. c.h \in HostType /\ c.ok \in BOOLEAN
      BY <1>2, ControllerStartIsSound
    <3> QED
      BY <1>2, <3>2, <3>3
  <2>2. CASE c.ok
    <3> DEFINE x == [c.h EXCEPT !.flag = @ \cup {e}]
    <3>1. x.gen = g /\ x.flag = d.flag \cup {e} /\ Frame(c.h, x) /\ d.flag \subseteq Engines
      BY <1>1, <2>1 DEF HostType, Frame
    <3>2. o.ok /\ o.h = x
      BY <1>3, <2>2, ResultParts
    <3> HIDE DEF x
    <3>3. e = "Mihomo" => x.flag = Engines
      BY <1>3, <3>1 DEF Engines
    <3> QED
      BY <1>2, <2>1, <3>1, <3>2, <3>3 DEF Frame, FlagOK
  <2>3. CASE ~c.ok
    <3>1. ~o.ok /\ o.h = Cleared(c.h, e)
      BY <1>3, <2>3, ResultParts
    <3>2. h.gen # g => c.h.flag \subseteq {e}
      BY <1>1, <2>1 DEF FlagOK
    <3> QED
      BY <1>2, <2>1, <3>1, <3>2, ClearedKeeps DEF Frame
  <2> QED
    BY <2>1, <2>2, <2>3
<1>4. \/ o = Result(FALSE, h)
      \/ o = Result(FALSE, d)
      \/ \E c \in ControllerStart(a, e) :
            /\ e = "Mihomo" => "Xray" \in d.flag
            /\ o = IF c.ok THEN Result(TRUE, [c.h EXCEPT !.flag = @ \cup {e}])
                   ELSE Result(FALSE, Cleared(c.h, e))
  <2>1. CASE other /\ AnyCoreAlive(h)
    BY <2>1 DEF HostStart
  <2>2. CASE ~(other /\ AnyCoreAlive(h)) /\ e = "Mihomo" /\ "Xray" \notin d.flag
    BY <2>2 DEF HostStart
  <2>3. CASE ~(other /\ AnyCoreAlive(h)) /\ ~(e = "Mihomo" /\ "Xray" \notin d.flag)
    BY <2>3 DEF HostStart
  <2> QED
    BY <2>1, <2>2, <2>3
<1>5. Frame(h, h)
  BY DEF Frame
<1> HIDE DEF d, a
<1>6. CASE o = Result(FALSE, h) \/ o = Result(FALSE, d)
  BY <1>1, <1>5, <1>6, ResultParts
<1> QED
  BY <1>3, <1>4, <1>6

\* RuntimeHost::stop of one engine: Ok means that its flag is down.
LEMMA StopEngineDoes ==
    ASSUME NEW h \in HostType, Sound(h), FlagOK(h), NEW e \in Engines, NEW o \in StopEngine(h, e)
    PROVE  /\ Frame(h, o.h) /\ FlagOK(o.h) /\ o.h.gen \in {h.gen, NoGen}
           /\ o.h.flag \subseteq h.flag
           /\ o.ok => e \notin o.h.flag
<1>1. CASE e \in h.flag
  <2>1. PICK c \in ControllerStop(h, e) :
           o = IF c.ok THEN Result(TRUE, Cleared(c.h, e)) ELSE c
    BY <1>1 DEF StopEngine
  <2>2. /\ c.h \in HostType /\ c.ok \in BOOLEAN
        /\ Frame(h, c.h) /\ c.h.gen = h.gen /\ c.h.flag = h.flag
    BY ControllerStopIsSound, ControllerKeeps
  <2>3. h.gen # NoGen
    BY <1>1 DEF FlagOK
  <2>4. CASE c.ok
    <3>1. o.ok /\ o.h = Cleared(c.h, e)
      BY <2>1, <2>4, ResultParts
    <3>2. /\ Frame(c.h, o.h) /\ FlagOK(o.h) /\ o.h.gen \in {c.h.gen, NoGen}
          /\ o.h.flag = c.h.flag \ {e}
      BY <2>2, <2>3, <3>1, ClearedKeeps
    <3> QED
      BY <2>2, <3>1, <3>2 DEF Frame
  <2>5. CASE ~c.ok
    BY <2>1, <2>2, <2>5 DEF FlagOK
  <2> QED
    BY <2>4, <2>5
<1>2. CASE e \notin h.flag
  BY <1>2, ResultParts DEF StopEngine, Frame
<1> QED
  BY <1>1, <1>2

\* RuntimeHost::stop: Ok to the stop of Xray means that nothing is active.
LEMMA HostStopDoes ==
    ASSUME NEW h \in HostType, Sound(h), FlagOK(h), NEW e \in Engines, NEW o \in HostStop(h, e)
    PROVE  /\ Frame(h, o.h) /\ FlagOK(o.h) /\ o.h.gen \in {h.gen, NoGen}
           /\ e = "Xray" /\ o.ok => o.h.gen = NoGen
<1>0. "Mihomo" \in Engines /\ h.flag \subseteq Engines
  BY DEF Engines, HostType
<1>1. CASE e = "Xray" /\ "Mihomo" \in h.flag
  <2>1. PICK c \in StopEngine(h, "Mihomo") : o \in IF c.ok THEN StopEngine(c.h, e) ELSE {c}
    BY <1>1 DEF HostStop
  <2>2. /\ c.h \in HostType /\ Sound(c.h) /\ c.ok \in BOOLEAN
        /\ Frame(h, c.h) /\ FlagOK(c.h) /\ c.h.gen \in {h.gen, NoGen}
        /\ c.h.flag \subseteq h.flag /\ (c.ok => "Mihomo" \notin c.h.flag)
    BY <1>0, StopEngineIsSound, StopEngineDoes
  <2>3. CASE c.ok
    <3>1. o \in StopEngine(c.h, e)
      BY <2>1, <2>3
    <3>2. /\ Frame(c.h, o.h) /\ FlagOK(o.h) /\ o.h.gen \in {c.h.gen, NoGen}
          /\ o.h.flag \subseteq c.h.flag /\ (o.ok => e \notin o.h.flag)
      BY <2>2, <3>1, StopEngineDoes
    <3>3. o.ok => o.h.flag = {}
      BY <1>0, <1>1, <2>2, <2>3, <3>2 DEF Engines
    <3> QED
      BY <2>2, <3>2, <3>3 DEF Frame, FlagOK
  <2>4. CASE ~c.ok
    BY <2>1, <2>2, <2>4
  <2> QED
    BY <2>2, <2>3, <2>4
<1>2. CASE ~(e = "Xray" /\ "Mihomo" \in h.flag)
  <2>1. o \in StopEngine(h, e)
    BY <1>2 DEF HostStop
  <2>2. /\ Frame(h, o.h) /\ FlagOK(o.h) /\ o.h.gen \in {h.gen, NoGen}
        /\ o.h.flag \subseteq h.flag /\ (o.ok => e \notin o.h.flag)
    BY <2>1, StopEngineDoes
  <2>3. e = "Xray" /\ o.ok => o.h.flag = {}
    BY <1>0, <1>2, <2>2 DEF Engines
  <2> QED
    BY <2>2, <2>3 DEF FlagOK
<1> QED
  BY <1>1, <1>2

\* What a command does to the host that executes it.
Executed(h, cmd, o) ==
    /\ Frame(h, o.h) /\ FlagOK(o.h)
    /\ o.h.gen \in {h.gen, NoGen} \/ (cmd.op = "Start" /\ o.h.gen = cmd.gen)
    /\ cmd.op = "Start" /\ cmd.engine = "Mihomo" /\ o.ok =>
          o.h.gen = cmd.gen /\ o.h.flag = Engines
    /\ cmd.op = "Start" /\ cmd.engine = "Xray" /\ ~o.ok /\ h.gen # cmd.gen =>
          o.h.gen \in {h.gen, NoGen}
    /\ cmd.op = "Stop" /\ cmd.engine = "Xray" /\ o.ok => o.h.gen = NoGen

\* RuntimeHost::execute.
LEMMA ExecuteDoes ==
    ASSUME NEW h \in HostType, Sound(h), FlagOK(h), NEW cmd \in Commands \cup {NoCommand},
           NEW o \in Execute(h, cmd)
    PROVE  Executed(h, cmd, o)
<1>1. CASE cmd.op = "Start"
  <2>1. cmd.engine \in Engines /\ cmd.gen \in Gens /\ o \in HostStart(h, cmd.engine, cmd.gen)
    BY <1>1, CommandShape DEF Execute
  <2> QED
    BY <1>1, <2>1, HostStartDoes DEF Executed
<1>2. CASE cmd.op = "Stop"
  <2>1. cmd.engine \in Engines /\ o \in HostStop(h, cmd.engine)
    BY <1>2, CommandShape DEF Execute
  <2> QED
    BY <1>2, <2>1, HostStopDoes DEF Executed
<1>3. CASE cmd.op \notin {"Start", "Stop"}
  <2>1. o.h = h \/ o.h = ActiveDropped(h)
    BY <1>3, ResultParts DEF Execute
  <2>2. Frame(h, h)
    BY DEF Frame
  <2> QED
    BY <1>3, <2>1, <2>2, DroppedKeeps DEF Executed
<1> QED
  BY <1>1, <1>2, <1>3

-------------------------------------------------------------------------------
(* The second layer: steps of a host *)

\* A host that changes by itself keeps the invariant if it stays on its pipe
\* and, when it is the session's, fits the Supervisor's step.
LEMMA HostServes ==
    ASSUME HostsAreSound, ServedInv, NEW h \in Hosts, NEW y \in HostType,
           host' = [host EXCEPT ![h] = y], UNCHANGED <<conn, job, late, left, session>>,
           host[h].life # "none", y.life # "none", FlagOK(y), y.link = host[h].link,
           y.life = "busy" => y.inbox # NoCommand,
           h = session => /\ y.inbox \in {NoCommand, host[h].inbox}
                          /\ y.inbox # NoCommand \/ ~job.sent => y.reply = "none"
                          /\ Fits(y)
    PROVE  ServedInv'
<1>1. \A k \in Hosts : host'[k] = IF k = h THEN y ELSE host[k]
  BY DEF HostsAreSound, TypeOK
<1>2. session \in Hosts \cup {NoHost}
  BY DEF HostsAreSound, TypeOK
<1>3. LinkInv'
  BY <1>1 DEF ServedInv, LinkInv
<1>4. PipeInv'
  BY <1>1, <1>2 DEF ServedInv, PipeInv
<1>5. JobInv' /\ ConnInv'
  BY DEF ServedInv, JobInv, ConnInv
<1>6. GenInv'
  BY <1>1, <1>2 DEF ServedInv, GenInv, Fits
<1> QED
  BY <1>3, <1>4, <1>5, <1>6 DEF ServedInv

\* What a host that ended leaves of itself.
LEMMA EndedKeeps ==
    ASSUME NEW h \in HostType
    PROVE  /\ Ended(h) \in HostType /\ FlagOK(Ended(h)) /\ Ended(h).link = h.link
           /\ Ended(h).life = "gone" /\ Ended(h).inbox = NoCommand
           /\ Ended(h).reply = h.reply /\ Fits(Ended(h))
<1>1. /\ ActiveDropped(h) \in HostType /\ Frame(h, ActiveDropped(h))
      /\ ActiveDropped(h).gen = NoGen /\ ActiveDropped(h).flag = {}
  BY DroppedIsSound, DroppedKeeps
<1>2. /\ Ended(h) \in HostType /\ Ended(h).gen = NoGen /\ Ended(h).flag = {}
      /\ Ended(h).link = h.link /\ Ended(h).life = "gone" /\ Ended(h).inbox = NoCommand
      /\ Ended(h).reply = h.reply
  BY <1>1 DEF Ended, Frame, HostType
<1> QED
  BY <1>2 DEF FlagOK, Fits

\* The session's host fits the Supervisor's step, and its pipe is in order.
LEMMA SessionFits ==
    ASSUME HostsAreSound, ServedInv, NEW h \in Hosts
    PROVE  /\ host[h] \in HostType /\ Sound(host[h]) /\ FlagOK(host[h])
           /\ host[h].life = "none" => host[h] = NotLaunched
           /\ host[h].life = "busy" => host[h].inbox # NoCommand
           /\ h = session =>
                 /\ Fits(host[h]) /\ host[h].inbox \in {NoCommand, job.cmd}
                 /\ host[h].inbox # NoCommand \/ ~job.sent => host[h].reply = "none"
                 /\ ~job.sent => host[h].inbox = NoCommand
<1>1. NoHost \notin Hosts
  BY NoGenIsNone
<1> QED
  BY <1>1, EachIsSound DEF ServedInv, LinkInv, PipeInv, GenInv

\* Ending, joining, reading and losing a core.
LEMMA HostStepServes ==
    ASSUME HostsAreSound, ServedInv, NEW h \in Hosts,
           \/ HostJoins(h) \/ HostReads(h) \/ HostEof(h) \/ HostKilled(h)
           \/ \E e \in Engines : CoreDies(h, e)
    PROVE  ServedInv'
<1>0. /\ host[h] \in HostType /\ FlagOK(host[h])
      /\ host[h].life = "busy" => host[h].inbox # NoCommand
      /\ h = session =>
            /\ Fits(host[h])
            /\ host[h].inbox # NoCommand \/ ~job.sent => host[h].reply = "none"
      /\ UNCHANGED <<conn, job, late, left, session>>
  BY SessionFits DEF HostJoins, HostReads, HostEof, HostKilled, CoreDies
<1>1. CASE host' = [host EXCEPT ![h] = Ended(host[h])] /\ host[h].life # "none"
  BY <1>0, <1>1, EndedKeeps, HostServes
<1>2. ASSUME NEW y \in HostType, host' = [host EXCEPT ![h] = y], host[h].life # "none",
             y.life # "none", y.life = "gone" <=> host[h].life = "gone",
             y.life = "busy" => y.inbox # NoCommand,
             y.link = host[h].link, y.gen = host[h].gen, y.flag = host[h].flag,
             y.inbox = host[h].inbox, y.reply = host[h].reply
      PROVE  ServedInv'
  <2>1. h = session => Fits(y)
    BY <1>0, <1>2 DEF Fits
  <2>2. FlagOK(y)
    BY <1>0, <1>2 DEF FlagOK
  <2> QED
    BY <1>0, <1>2, <2>1, <2>2, HostServes
<1>3. CASE HostJoins(h)
  <2> DEFINE y == [host[h] EXCEPT !.life = "idle"]
  <2>1. CASE host[h].link
    <3>1. /\ y \in HostType /\ y.life = "idle" /\ y.link = host[h].link
          /\ y.gen = host[h].gen /\ y.flag = host[h].flag
          /\ y.inbox = host[h].inbox /\ y.reply = host[h].reply
      BY <1>0 DEF HostType
    <3>2. host' = [host EXCEPT ![h] = y] /\ host[h].life = "starting"
      BY <1>3, <2>1 DEF HostJoins
    <3> HIDE DEF y
    <3> QED
      BY <1>2, <3>1, <3>2
  <2>2. CASE ~host[h].link
    BY <1>1, <1>3, <2>2 DEF HostJoins
  <2> QED
    BY <2>1, <2>2
<1>4. CASE HostReads(h)
  <2> DEFINE y == [host[h] EXCEPT !.life = "busy"]
  <2>1. /\ y \in HostType /\ y.life = "busy" /\ y.link = host[h].link
        /\ y.gen = host[h].gen /\ y.flag = host[h].flag
        /\ y.inbox = host[h].inbox /\ y.reply = host[h].reply
    BY <1>0 DEF HostType
  <2>2. /\ host' = [host EXCEPT ![h] = y] /\ host[h].life = "idle"
        /\ host[h].inbox # NoCommand
    BY <1>4 DEF HostReads
  <2> HIDE DEF y
  <2> QED
    BY <1>2, <2>1, <2>2
<1>5. CASE HostEof(h) \/ HostKilled(h)
  BY <1>1, <1>5 DEF HostEof, HostKilled
<1>6. ASSUME NEW e \in Engines, CoreDies(h, e)
      PROVE  ServedInv'
  <2> DEFINE y == [host[h] EXCEPT !.alive = @ \ {<<e, host[h].gen>>}]
  <2>1. /\ y \in HostType /\ y.life = host[h].life /\ y.link = host[h].link
        /\ y.gen = host[h].gen /\ y.flag = host[h].flag
        /\ y.inbox = host[h].inbox /\ y.reply = host[h].reply
    BY <1>0 DEF HostType
  <2>2. host' = [host EXCEPT ![h] = y] /\ <<e, host[h].gen>> \in host[h].alive
    BY <1>6 DEF CoreDies
  <2>3. host[h].life # "none"
    BY <2>2, SessionFits DEF NotLaunched
  <2> HIDE DEF y
  <2> QED
    BY <1>0, <1>2, <2>1, <2>2, <2>3
<1> QED
  BY <1>3, <1>4, <1>5, <1>6

\* The fields of the Supervisor's commands.
LEMMA CommandOfParts ==
    ASSUME NEW pc, NEW g
    PROVE  LET c == CommandOf(pc, g) IN
           /\ pc = "startXray" => c.op = "Start" /\ c.engine = "Xray" /\ c.gen = g
           /\ pc = "startMihomo" => c.op = "Start" /\ c.engine = "Mihomo" /\ c.gen = g
           /\ pc \notin {"startXray", "startMihomo"} => c.op = "Stop"
           /\ pc \notin {"startXray", "startMihomo", "stopMihomo"} => c.engine = "Xray"
BY DEF CommandOf, Start, Stop

\* An answer fits the step of the Supervisor that waits for it.
LEMMA AnswerFits ==
    ASSUME HostsAreSound, ServedInv, session \in Hosts, job.sent,
           NEW o, Executed(host[session], job.cmd, o), NEW y,
           y.gen = o.h.gen, y.flag = o.h.flag, y.reply = IF o.ok THEN "Ok" ELSE "Error",
           host[session].reply = "none"
    PROVE  Fits(y)
<1> DEFINE x == host[session]
<1>1. /\ conn.st = "Ready" => conn.pc = "idle"
      /\ conn.st = "Connecting" <=> conn.pc \in {"startXray", "startMihomo", "rollback"}
      /\ conn.st = "Connecting" => conn.gen \notin left
      /\ conn.st = "Ready" \/ conn.pc = "startXray" => x.gen \in left \cup {NoGen}
  BY SessionFits DEF ServedInv, ConnInv, Fits
<1>2. o.ok <=> y.reply = "Ok"
  OBVIOUS
<1> HIDE DEF x
<1>3. Executed(x, job.cmd, o)
  BY DEF x
<1>4. CASE job.for = "conn"
  <2>1. conn.pc # "idle" /\ job.cmd = CommandOf(conn.pc, conn.gen)
    BY <1>4 DEF ServedInv, JobInv
  <2>2. conn.pc = "startXray" /\ ~o.ok => y.gen \in left \cup {NoGen}
    <3> SUFFICES ASSUME conn.pc = "startXray", ~o.ok PROVE y.gen \in left \cup {NoGen}
      OBVIOUS
    <3>1. job.cmd.op = "Start" /\ job.cmd.engine = "Xray" /\ job.cmd.gen = conn.gen
      BY <2>1, CommandOfParts
    <3>2. conn.gen \in Gens
      BY DEF HostsAreSound, CallsAreBacked
    <3>3. x.gen # conn.gen
      BY <1>1, <3>2, NoGenIsNone
    <3> QED
      BY <1>1, <1>3, <3>1, <3>3 DEF Executed
  <2>3. conn.pc \in {"stopXray", "rollback"} /\ o.ok => y.gen = NoGen
    <3> SUFFICES ASSUME conn.pc \in {"stopXray", "rollback"}, o.ok PROVE y.gen = NoGen
      OBVIOUS
    <3>1. job.cmd.op = "Stop" /\ job.cmd.engine = "Xray"
      BY <2>1, CommandOfParts
    <3> QED
      BY <1>3, <3>1 DEF Executed
  <2>4. conn.pc = "startMihomo" /\ o.ok => y.gen = conn.gen /\ y.flag = Engines
    <3> SUFFICES ASSUME conn.pc = "startMihomo", o.ok
                 PROVE  y.gen = conn.gen /\ y.flag = Engines
      OBVIOUS
    <3>1. job.cmd.op = "Start" /\ job.cmd.engine = "Mihomo" /\ job.cmd.gen = conn.gen
      BY <2>1, CommandOfParts
    <3> QED
      BY <1>3, <3>1 DEF Executed
  <2> QED
    BY <1>1, <1>2, <1>4, <2>1, <2>2, <2>3, <2>4 DEF Fits
<1>5. CASE job.for # "conn"
  <2>1. job.cmd.op = "Start" => job.cmd.gen \in left \/ conn.st = "Error"
    BY <1>5 DEF ServedInv, JobInv
  <2>2. conn.st = "Ready" \/ conn.pc = "startXray" => y.gen \in left \cup {NoGen}
    BY <1>1, <1>3, <2>1 DEF Executed
  <2> QED
    BY <1>5, <2>2 DEF Fits
<1> QED
  BY <1>4, <1>5

\* Executing a command and answering it.
LEMMA HostAnswersServes ==
    ASSUME HostsAreSound, ServedInv, NEW h \in Hosts, HostAnswers(h)
    PROVE  ServedInv'
<1>1. /\ host[h] \in HostType /\ Sound(host[h]) /\ FlagOK(host[h])
      /\ host[h].inbox \in Commands \cup {NoCommand} /\ host[h].life = "busy"
      /\ host[h].inbox # NoCommand
      /\ h = session => job.sent /\ host[h].inbox = job.cmd /\ host[h].reply = "none"
      /\ UNCHANGED <<conn, job, late, left, session>>
  BY SessionFits DEF HostType, HostAnswers
<1>2. PICK o \in Execute(host[h], host[h].inbox) :
         LET answered == [o.h EXCEPT !.life = "idle", !.inbox = NoCommand,
                                     !.reply = IF o.ok THEN "Ok" ELSE "Error"]
         IN  host' = [host EXCEPT ![h] =
                         IF ~@.link THEN Ended(o.h)
                         ELSE IF @.inbox = Shutdown THEN Ended(answered)
                         ELSE answered]
  BY DEF HostAnswers
<1>3. o.h \in HostType /\ o.ok \in BOOLEAN /\ Executed(host[h], host[h].inbox, o)
  BY <1>1, ExecuteIsSound, ExecuteDoes
<1>4. o.h.link = host[h].link /\ o.h.reply = host[h].reply /\ FlagOK(o.h)
  BY <1>3 DEF Executed, Frame
<1> DEFINE answered == [o.h EXCEPT !.life = "idle", !.inbox = NoCommand,
                                   !.reply = IF o.ok THEN "Ok" ELSE "Error"]
<1>5. /\ answered \in HostType /\ answered.link = host[h].link /\ answered.life = "idle"
      /\ answered.inbox = NoCommand /\ answered.reply = IF o.ok THEN "Ok" ELSE "Error"
      /\ answered.gen = o.h.gen /\ answered.flag = o.h.flag
  BY <1>3, <1>4 DEF HostType
<1>6. \/ host' = [host EXCEPT ![h] = Ended(o.h)] /\ ~host[h].link
      \/ host' = [host EXCEPT ![h] = Ended(answered)]
      \/ host' = [host EXCEPT ![h] = answered]
  BY <1>2
<1> HIDE DEF answered
<1>7. CASE host' = [host EXCEPT ![h] = Ended(o.h)] /\ ~host[h].link
  BY <1>1, <1>3, <1>4, <1>7, EndedKeeps, HostServes
<1>8. CASE host' = [host EXCEPT ![h] = Ended(answered)]
  BY <1>1, <1>5, <1>8, EndedKeeps, HostServes
<1>9. CASE host' = [host EXCEPT ![h] = answered]
  <2>1. FlagOK(answered)
    BY <1>4, <1>5 DEF FlagOK
  <2>2. h = session => Fits(answered)
    BY <1>1, <1>3, <1>5, AnswerFits
  <2> QED
    BY <1>1, <1>5, <1>9, <2>1, <2>2, HostServes
<1> QED
  BY <1>6, <1>7, <1>8, <1>9

-------------------------------------------------------------------------------
(* The second layer: steps of the daemon *)

\* Beginning, dropping and queueing a request: the hosts stay.
LEMMA RequestServes ==
    ASSUME HostsAreSound, ServedInv, BeginConnect \/ BeginDisconnect \/ Abandon
    PROVE  ServedInv'
<1>0. /\ conn \in ConnType /\ conn.staged \in Nat /\ session \in Hosts \cup {NoHost}
      /\ conn.gen \in Nat /\ job \in JobType
  BY HostAssumption DEF HostsAreSound, TypeOK, ConnType, Gens, NoGen
<1>1. /\ UNCHANGED <<session, host>> /\ LinkInv'
  BY DEF BeginConnect, BeginDisconnect, Abandon, ServedInv, LinkInv
<1>2. CASE BeginConnect
  <2>1. /\ conn'.st = "Connecting" /\ conn'.pc = "startXray"
        /\ conn'.gen = conn.staged + 1 /\ conn'.staged = conn.staged + 1
        /\ conn.st = "Ready" /\ conn.pc = "idle" /\ UNCHANGED <<job, late, left>>
    BY <1>0, <1>2 DEF BeginConnect, ConnType
  <2>2. left \subseteq Nat /\ \A g \in left : g <= conn.staged
    BY DEF HostsAreSound, TypeOK, Gens, ServedInv, ConnInv
  <2>3. ConnInv'
    BY <1>0, <2>1, <2>2 DEF ConnInv
  <2>4. JobInv' /\ job.for # "conn"
    BY <2>1 DEF ServedInv, JobInv
  <2>5. PipeInv' /\ GenInv'
    BY <1>1, <2>1, <2>4 DEF ServedInv, PipeInv, GenInv, Fits
  <2> QED
    BY <1>1, <2>3, <2>4, <2>5 DEF ServedInv
<1>3. CASE BeginDisconnect
  <2>1. /\ conn'.st = conn.st /\ conn'.pc = "stopMihomo" /\ conn.st \in {"Connected", "Error"}
        /\ conn'.gen = conn.gen /\ conn'.staged = conn.staged
        /\ conn.pc = "idle" /\ UNCHANGED <<job, late, left>>
    BY <1>0, <1>3 DEF BeginDisconnect, ConnType
  <2>2. ConnInv' /\ JobInv' /\ PipeInv' /\ GenInv'
    BY <1>1, <2>1 DEF ServedInv, ConnInv, JobInv, PipeInv, GenInv, Fits
  <2> QED
    BY <1>1, <2>2 DEF ServedInv
<1>4. CASE Abandon
  <2>1. /\ conn'.st = (IF conn.st = "Connecting" THEN "Error" ELSE conn.st)
        /\ conn'.pc = "idle" /\ conn'.gen = conn.gen /\ conn'.staged = conn.staged
        /\ conn.pc # "idle"
    BY <1>0, <1>4 DEF Abandon, Settled, ConnType
  <2>2. conn.st # "Ready" /\ conn'.st \notin {"Ready", "Connecting"}
    BY <2>1 DEF ServedInv, ConnInv
  <2>3. CommandOf(conn.pc, conn.gen).op = "Start" =>
           /\ CommandOf(conn.pc, conn.gen).gen = conn.gen /\ conn.st = "Connecting"
    BY CommandOfParts DEF ServedInv, ConnInv
  <2>4. CASE job.for = "conn"
    <3>1. /\ job'.for = "nobody" /\ job'.cmd = job.cmd /\ job'.sent = job.sent
          /\ UNCHANGED <<late, left>>
      BY <1>0, <1>4, <2>4 DEF Abandon, JobType
    <3>2. JobInv'
      BY <2>1, <2>3, <2>4, <3>1 DEF ServedInv, JobInv
    <3>3. ConnInv' /\ PipeInv' /\ GenInv'
      BY <1>1, <2>1, <2>2, <3>1 DEF ServedInv, ConnInv, PipeInv, GenInv, Fits
    <3> QED
      BY <1>1, <3>2, <3>3 DEF ServedInv
  <2>5. CASE job.for # "conn"
    <3>1. /\ job' = job /\ late' = late \cup {CommandOf(conn.pc, conn.gen)}
          /\ left' = IF conn.st = "Connecting" THEN left \cup {conn.gen} ELSE left
      BY <1>4, <2>5 DEF Abandon
    <3>2. JobInv'
      BY <2>1, <2>3, <2>5, <3>1 DEF ServedInv, JobInv
    <3>3. ConnInv'
      BY <2>1, <2>2, <3>1 DEF ServedInv, ConnInv
    <3>4. PipeInv' /\ GenInv'
      BY <1>1, <2>1, <2>2, <3>1 DEF ServedInv, PipeInv, GenInv, Fits
    <3> QED
      BY <1>1, <3>2, <3>3, <3>4 DEF ServedInv
  <2> QED
    BY <2>4, <2>5
<1> QED
  BY <1>2, <1>3, <1>4

\* Taking the lock: nothing is on its way before or after.
LEMMA AcquireServes ==
    ASSUME HostsAreSound, ServedInv, Acquire \/ Quit
    PROVE  ServedInv'
<1>0. /\ job = NoJob /\ UNCHANGED <<conn, left, session, host>> /\ late' \subseteq late
      /\ NoJob.for = "nobody" /\ ~NoJob.sent
  BY DEF Acquire, Quit, NoJob
<1>1. /\ ~job'.sent
      /\ job'.for = "conn" => conn.pc # "idle" /\ job'.cmd = CommandOf(conn.pc, conn.gen)
      /\ job'.for # "conn" /\ job'.cmd.op = "Start" => job'.cmd \in late
  <2>1. \A cmd, for : /\ Holding(cmd, for).cmd = cmd /\ Holding(cmd, for).for = for
                       /\ ~Holding(cmd, for).sent
    BY DEF Holding
  <2>2. Diagnostics.op = "Diagnostics" /\ Shutdown.op = "Shutdown"
    BY DEF Diagnostics, Shutdown
  <2>3. \/ job' = Holding(CommandOf(conn.pc, conn.gen), "conn") /\ conn.pc # "idle"
        \/ job' = Holding(Diagnostics, "diag") \/ job' = Holding(Shutdown, "quit")
        \/ \E cmd \in late : job' = Holding(cmd, "nobody")
    BY DEF Acquire, Quit
  <2> QED
    BY <2>1, <2>2, <2>3
<1>2. JobInv'
  BY <1>0, <1>1 DEF ServedInv, JobInv
<1>3. LinkInv' /\ ConnInv'
  BY <1>0 DEF ServedInv, LinkInv, ConnInv
<1>4. session # NoHost => host[session].inbox = NoCommand /\ host[session].reply = "none"
  BY <1>0 DEF ServedInv, PipeInv
<1>5. PipeInv'
  BY <1>0, <1>1, <1>4 DEF ServedInv, PipeInv
<1>6. GenInv'
  BY <1>0, <1>1, <1>4 DEF ServedInv, GenInv, Fits
<1> QED
  BY <1>2, <1>3, <1>5, <1>6 DEF ServedInv

\* The Supervisor's next step: Ready needs a failed start of Xray or a stop of
\* it that succeeded, Connected a start of Mihomo that succeeded.
LEMMA AdvancedDoes ==
    ASSUME HostsAreSound, ConnInv, conn.pc # "idle", NEW res
    PROVE  LET c == Advanced(conn, res) IN
           /\ c.staged = conn.staged /\ c.gen \in {conn.gen, NoGen}
           /\ c.st = "Connecting" <=> c.pc \in {"startXray", "startMihomo", "rollback"}
           /\ c.st = "Connecting" => conn.st = "Connecting" /\ c.gen = conn.gen
           /\ c.st = "Ready" => c.pc = "idle" /\
                 \/ conn.pc = "startXray" /\ res # "Ok"
                 \/ conn.pc \in {"rollback", "stopXray"} /\ res \in {"Ok", "Disconnected"}
           /\ c.pc # "startXray"
           /\ c.st = "Connected" /\ conn.st # "Connected" =>
                 conn.pc = "startMihomo" /\ res = "Ok"
<1> DEFINE ok == Succeeded(conn.pc, res)
           c == Advanced(conn, res)
<1>1. /\ conn \in ConnType
      /\ conn.st = "Connecting" <=> conn.pc \in {"startXray", "startMihomo", "rollback"}
      /\ conn.st = "Ready" => conn.pc = "idle"
  BY DEF HostsAreSound, TypeOK, ConnInv
<1>2. ASSUME NEW st, NEW d \in {conn, [conn EXCEPT !.gen = NoGen]}
      PROVE  /\ Settled(d, st).staged = conn.staged /\ Settled(d, st).gen \in {conn.gen, NoGen}
             /\ Settled(d, st).st = st /\ Settled(d, st).pc = "idle"
  BY <1>1 DEF Settled, ConnType
<1>3. /\ ok => res \in {"Ok", "Disconnected"}
      /\ ok /\ conn.pc \in {"startXray", "startMihomo"} => res = "Ok"
      /\ ~ok => res # "Ok"
  BY DEF Succeeded
<1> HIDE DEF ok
<1>4. CASE conn.pc = "startXray" /\ ok
  <2>1. c = [conn EXCEPT !.pc = "startMihomo"]
    BY <1>4 DEF Advanced, ok
  <2>2. /\ c.pc = "startMihomo" /\ c.st = conn.st /\ c.gen = conn.gen
        /\ c.staged = conn.staged
    BY <1>1, <2>1 DEF ConnType
  <2> HIDE DEF c
  <2> QED
    BY <1>1, <1>4, <2>2 DEF c
<1>5. CASE conn.pc = "startMihomo" /\ ~ok
  <2>1. c = [conn EXCEPT !.pc = "rollback"]
    BY <1>5 DEF Advanced, ok
  <2>2. c.pc = "rollback" /\ c.st = conn.st /\ c.gen = conn.gen /\ c.staged = conn.staged
    BY <1>1, <2>1 DEF ConnType
  <2> QED
    BY <1>1, <1>5, <2>2
<1>6. CASE conn.pc = "stopMihomo"
  <2>1. c = [conn EXCEPT !.pc = "stopXray", !.failed = ~ok]
    BY <1>6 DEF Advanced, ok
  <2>2. c.pc = "stopXray" /\ c.st = conn.st /\ c.gen = conn.gen /\ c.staged = conn.staged
    BY <1>1, <2>1 DEF ConnType
  <2> QED
    BY <1>1, <1>6, <2>2
<1>7. CASE conn.pc = "startMihomo" /\ ok
  <2>1. c = Settled(conn, "Connected")
    BY <1>7 DEF Advanced, ok
  <2> QED
    BY <1>2, <1>3, <1>7, <2>1
<1>8. CASE conn.pc = "startXray" /\ ~ok
  <2>1. c = Settled(conn, "Ready")
    BY <1>8 DEF Advanced, ok
  <2> QED
    BY <1>2, <1>3, <1>8, <2>1
<1>9. CASE conn.pc = "rollback"
  <2>1. c = Settled(conn, IF ok THEN "Ready" ELSE "Error")
    BY <1>9 DEF Advanced, ok
  <2> QED
    BY <1>2, <1>3, <1>9, <2>1
<1>10. CASE conn.pc = "stopXray"
  <2>1. \/ ok /\ c = Settled([conn EXCEPT !.gen = NoGen], "Ready")
        \/ c = Settled(conn, "Error")
    BY <1>10 DEF Advanced, ok
  <2> QED
    BY <1>2, <1>3, <1>10, <2>1
<1>11. conn.pc \in {"idle", "startXray", "startMihomo", "rollback", "stopMihomo", "stopXray"}
  BY <1>1 DEF ConnType
<1> QED
  BY <1>4, <1>5, <1>6, <1>7, <1>8, <1>9, <1>10, <1>11

\* A call that returns leaves nothing on its way, and what the Supervisor does
\* next fits the host that answered it.
LEMMA ReturnsServes ==
    ASSUME HostsAreSound, ServedInv, NEW res, NEW s, Returns(res, s), LinkInv',
           \A h \in Hosts : host'[h].life = "busy" => host'[h].inbox # NoCommand,
           s # NoHost =>
              /\ s = session /\ host'[s].inbox = NoCommand /\ host'[s].reply = "none"
              /\ host'[s].gen = host[s].gen
              /\ res = host[s].reply /\ res \in {"Ok", "Error"}
    PROVE  ServedInv'
<1>1. /\ session' = s /\ job'.for = "nobody" /\ ~job'.sent /\ job'.cmd = NoCommand
      /\ NoCommand.op = "none" /\ UNCHANGED <<late, left>>
      /\ conn' = IF job.for = "conn" THEN Advanced(conn, res) ELSE conn
  BY DEF Returns, NoJob, NoCommand
<1>2. conn.staged \in Nat /\ NoGen <= conn.staged
  BY HostAssumption DEF HostsAreSound, TypeOK, ConnType, NoGen
<1>3. JobInv'
  BY <1>1 DEF ServedInv, JobInv
<1>4. PipeInv'
  BY <1>1 DEF PipeInv
<1>5. CASE job.for = "conn"
  <2> DEFINE c == Advanced(conn, res)
  <2>1. conn.pc # "idle" /\ ConnInv
    BY <1>5 DEF ServedInv, JobInv
  <2>2. /\ c.staged = conn.staged /\ c.gen \in {conn.gen, NoGen}
        /\ c.st = "Connecting" <=> c.pc \in {"startXray", "startMihomo", "rollback"}
        /\ c.st = "Connecting" => conn.st = "Connecting" /\ c.gen = conn.gen
        /\ c.st = "Ready" => c.pc = "idle" /\
              \/ conn.pc = "startXray" /\ res # "Ok"
              \/ conn.pc \in {"rollback", "stopXray"} /\ res \in {"Ok", "Disconnected"}
        /\ c.pc # "startXray"
    BY <2>1, AdvancedDoes
  <2>3. conn' = c
    BY <1>1, <1>5
  <2> HIDE DEF c
  <2>4. ConnInv'
    BY <1>1, <1>2, <2>1, <2>2, <2>3 DEF ConnInv
  <2>5. GenInv'
    <3> SUFFICES ASSUME s # NoHost, c.st = "Ready"
                 PROVE  host'[s].gen \in left \cup {NoGen}
      BY <1>1, <2>2, <2>3 DEF GenInv, Fits
    <3> QED
      BY <1>5, <2>2 DEF ServedInv, GenInv, Fits
  <2> QED
    BY <1>3, <1>4, <2>4, <2>5 DEF ServedInv
<1>6. CASE job.for # "conn"
  <2>1. conn' = conn
    BY <1>1, <1>6
  <2>2. ConnInv' /\ GenInv'
    BY <1>1, <1>6, <2>1 DEF ServedInv, ConnInv, GenInv, Fits
  <2> QED
    BY <1>3, <1>4, <2>2 DEF ServedInv
<1> QED
  BY <1>5, <1>6

\* The end of the daemon cuts every pipe.
LEMMA DaemonDiesServes ==
    ASSUME HostsAreSound, ServedInv, DaemonDies
    PROVE  ServedInv'
<1>1. /\ session' = NoHost /\ late' = {} /\ left' = left /\ job' = NoJob
      /\ conn'.staged = conn.staged /\ conn'.st = "Ready" /\ conn'.pc = "idle"
      /\ conn'.gen = NoGen
      /\ NoJob.for = "nobody" /\ NoJob.cmd.op = "none" /\ ~NoJob.sent
  BY DEF DaemonDies, FirstConn, NoJob, NoCommand
<1>2. conn.staged \in Nat /\ NoGen <= conn.staged /\ NoHost \notin Hosts
  BY HostAssumption, NoGenIsNone DEF HostsAreSound, TypeOK, ConnType, NoGen
<1>3. ConnInv' /\ JobInv' /\ GenInv'
  BY <1>1, <1>2 DEF ServedInv, ConnInv, JobInv, GenInv
<1>4. ASSUME NEW h \in Hosts
      PROVE  /\ FlagOK(host'[h]) /\ ~host'[h].link /\ host'[h].life = host[h].life
             /\ host'[h].inbox = host[h].inbox
             /\ host'[h].life = "none" => host'[h] = NotLaunched
  <2>1. /\ host[h] \in HostType /\ FlagOK(host[h])
        /\ host[h].life = "none" => host[h] = NotLaunched
    BY SessionFits
  <2>2. host'[h] = [host[h] EXCEPT !.link = FALSE, !.reply = "none"]
    BY DEF DaemonDies
  <2>3. host[h] = NotLaunched => host'[h] = NotLaunched
    <3> SUFFICES ASSUME host[h] = NotLaunched PROVE host'[h] = host[h]
      OBVIOUS
    <3>1. host[h].link = FALSE /\ host[h].reply = "none"
      BY DEF NotLaunched
    <3>2. [host[h] EXCEPT !.link = FALSE, !.reply = "none"] = host[h]
      BY <2>1, <3>1 DEF HostType
    <3> QED
      BY <2>2, <3>2
  <2> QED
    BY <2>1, <2>2, <2>3 DEF FlagOK, HostType
<1>5. LinkInv'
  BY <1>1, <1>2, <1>4 DEF LinkInv
<1>6. PipeInv'
  BY <1>1, <1>4 DEF ServedInv, PipeInv
<1> QED
  BY <1>3, <1>5, <1>6 DEF ServedInv

\* Replacing the session's host, in a step of the broker.
LEMMA SessionChanges ==
    ASSUME HostsAreSound, ServedInv, session \in Hosts, NEW y,
           host' = [host EXCEPT ![session] = y], FlagOK(y), y.life # "none",
           y.link <=> session' = session, session' \in {session, NoHost}
    PROVE  /\ LinkInv' /\ host'[session] = y
           /\ \A h \in Hosts \ {session} : host'[h] = host[h]
<1>1. /\ host'[session] = y /\ \A h \in Hosts \ {session} : host'[h] = host[h]
  BY DEF HostsAreSound, TypeOK
<1>2. NoHost \notin Hosts
  BY NoGenIsNone
<1> QED
  BY <1>1, <1>2 DEF ServedInv, LinkInv

\* Failed requests, with a session or without.
LEMMA LostServes ==
    ASSUME HostsAreSound, ServedInv,
           BrokerRefuses \/ LaunchFails \/ BrokerLoses \/ BrokerTimesOut
    PROVE  ServedInv'
<1>1. CASE BrokerRefuses \/ LaunchFails
  <2>1. /\ UNCHANGED host /\ session = NoHost /\ session' = NoHost
        /\ Returns("Disconnected", NoHost) \/ Returns("Failed", NoHost)
    BY <1>1 DEF BrokerRefuses, LaunchFails, Returns
  <2>2. LinkInv' /\ \A h \in Hosts : host'[h].life = "busy" => host'[h].inbox # NoCommand
    BY <2>1 DEF ServedInv, LinkInv, PipeInv
  <2> QED
    BY <2>1, <2>2, ReturnsServes
<1>2. CASE BrokerLoses \/ BrokerTimesOut
  <2>1. session \in Hosts /\ NoHost \notin Hosts
    BY <1>2, NoGenIsNone DEF BrokerLoses, BrokerTimesOut, HostsAreSound, TypeOK
  <2>2. PICK res : Drops(res)
    BY <1>2 DEF BrokerLoses, BrokerTimesOut
  <2>3. CASE job.for = "quit"
    BY <2>2, <2>3, DaemonDiesServes DEF Drops
  <2>4. CASE job.for # "quit"
    <3> DEFINE y == [host[session] EXCEPT !.link = FALSE, !.reply = "none"]
    <3>1. Returns(res, NoHost) /\ host' = [host EXCEPT ![session] = y] /\ session' = NoHost
      BY <2>2, <2>4 DEF Drops, Returns
    <3>2. /\ host[session] \in HostType /\ FlagOK(host[session])
          /\ host[session].life # "none"
      BY <2>1, SessionFits DEF ServedInv, LinkInv
    <3>3. /\ FlagOK(y) /\ ~y.link /\ y.life = host[session].life
          /\ y.inbox = host[session].inbox
      BY <3>2 DEF FlagOK, HostType
    <3> HIDE DEF y
    <3>4. /\ LinkInv' /\ host'[session] = y
          /\ \A h \in Hosts \ {session} : host'[h] = host[h]
      BY <2>1, <3>1, <3>2, <3>3, SessionChanges
    <3>5. \A h \in Hosts : host'[h].life = "busy" => host'[h].inbox # NoCommand
      BY <3>3, <3>4 DEF ServedInv, PipeInv
    <3> QED
      BY <3>1, <3>4, <3>5, ReturnsServes
  <2> QED
    BY <2>3, <2>4
<1> QED
  BY <1>1, <1>2

\* A host that is launched has no generation.
LEMMA LaunchServes ==
    ASSUME HostsAreSound, ServedInv, LaunchHost
    PROVE  ServedInv'
<1>1. PICK h \in Hosts :
         /\ host[h].life = "none" /\ session' = h /\ session = NoHost
         /\ host' = [host EXCEPT ![h].life = "starting", ![h].link = TRUE]
         /\ UNCHANGED <<conn, job, late, left>>
  BY DEF LaunchHost
<1> DEFINE y == [NotLaunched EXCEPT !.life = "starting", !.link = TRUE]
<1>2. host[h] = NotLaunched /\ NoHost \notin Hosts /\ ~job.sent
  BY <1>1, NoGenIsNone DEF ServedInv, LinkInv, HostsAreSound, CallsAreBacked
<1>3. host' = [host EXCEPT ![h] = y]
  BY <1>1, <1>2 DEF HostsAreSound, TypeOK
<1>4. /\ y.life = "starting" /\ y.link /\ y.gen = NoGen /\ y.flag = {}
      /\ y.inbox = NoCommand /\ y.reply = "none"
  BY DEF NotLaunched
<1> HIDE DEF y
<1>5. host'[h] = y /\ \A k \in Hosts \ {h} : host'[k] = host[k]
  BY <1>3 DEF HostsAreSound, TypeOK
<1>6. LinkInv'
  BY <1>1, <1>2, <1>4, <1>5 DEF ServedInv, LinkInv, FlagOK
<1>7. PipeInv'
  BY <1>1, <1>2, <1>4, <1>5 DEF ServedInv, PipeInv
<1>8. JobInv' /\ ConnInv'
  BY <1>1 DEF ServedInv, JobInv, ConnInv
<1>9. GenInv'
  BY <1>1, <1>4, <1>5 DEF GenInv, Fits
<1> QED
  BY <1>6, <1>7, <1>8, <1>9 DEF ServedInv

\* Sending the call's command.
LEMMA SendsServes ==
    ASSUME HostsAreSound, ServedInv, BrokerSends
    PROVE  ServedInv'
<1> DEFINE y == [host[session] EXCEPT !.inbox = job.cmd]
<1>1. session \in Hosts /\ NoHost \notin Hosts /\ job \in JobType
  BY NoGenIsNone DEF BrokerSends, HostsAreSound, TypeOK
<1>2. /\ host[session] \in HostType /\ FlagOK(host[session]) /\ host[session].link
      /\ host[session].life \notin {"none", "busy"} /\ host[session].reply = "none"
      /\ Fits(host[session])
  BY <1>1, SessionFits DEF BrokerSends, ServedInv, LinkInv
<1>3. /\ FlagOK(y) /\ y.link /\ y.life = host[session].life /\ y.gen = host[session].gen
      /\ y.inbox = job.cmd /\ y.reply = "none"
  BY <1>2 DEF FlagOK, HostType
<1>4. /\ host' = [host EXCEPT ![session] = y] /\ UNCHANGED <<conn, late, left, session>>
      /\ job'.cmd = job.cmd /\ job'.for = job.for /\ job'.sent
  BY <1>1 DEF BrokerSends, JobType
<1> HIDE DEF y
<1>5. /\ LinkInv' /\ host'[session] = y
      /\ \A h \in Hosts \ {session} : host'[h] = host[h]
  BY <1>1, <1>2, <1>3, <1>4, SessionChanges
<1>6. PipeInv'
  BY <1>1, <1>2, <1>3, <1>4, <1>5 DEF ServedInv, PipeInv
<1>7. JobInv' /\ ConnInv'
  BY <1>4 DEF ServedInv, JobInv, ConnInv
<1>8. GenInv'
  BY <1>2, <1>3, <1>4, <1>5 DEF GenInv, Fits
<1> QED
  BY <1>5, <1>6, <1>7, <1>8 DEF ServedInv

\* Receiving the answer.
LEMMA ReceivesServes ==
    ASSUME HostsAreSound, ServedInv, BrokerReceives
    PROVE  ServedInv'
<1>1. CASE job.for = "quit"
  BY <1>1, DaemonDiesServes DEF BrokerReceives
<1>2. CASE job.for # "quit"
  <2> DEFINE y == [host[session] EXCEPT !.reply = "none"]
  <2>1. session \in Hosts /\ NoHost \notin Hosts /\ job.sent
    BY NoGenIsNone DEF BrokerReceives, HostsAreSound, CallsAreBacked
  <2>2. /\ host[session] \in HostType /\ FlagOK(host[session]) /\ host[session].link
        /\ host[session].life # "none" /\ host[session].reply \in {"Ok", "Error"}
        /\ host[session].inbox = NoCommand
    BY <2>1, SessionFits DEF BrokerReceives, ServedInv, LinkInv, HostType
  <2>3. /\ FlagOK(y) /\ y.link /\ y.life = host[session].life /\ y.gen = host[session].gen
        /\ y.inbox = NoCommand /\ y.reply = "none"
    BY <2>2 DEF FlagOK, HostType
  <2>4. /\ Returns(host[session].reply, session) /\ host' = [host EXCEPT ![session] = y]
        /\ session' = session
    BY <1>2 DEF BrokerReceives, Returns
  <2> HIDE DEF y
  <2>5. /\ LinkInv' /\ host'[session] = y
        /\ \A h \in Hosts \ {session} : host'[h] = host[h]
    BY <2>1, <2>2, <2>3, <2>4, SessionChanges
  <2>6. \A h \in Hosts : host'[h].life = "busy" => host'[h].inbox # NoCommand
    BY <2>1, <2>2, <2>3, <2>5, SessionFits DEF ServedInv, PipeInv
  <2> QED
    BY <2>1, <2>2, <2>3, <2>4, <2>5, <2>6, ReturnsServes
<1> QED
  BY <1>1, <1>2

-------------------------------------------------------------------------------
(* The theorems of the second layer *)

\* The second layer holds before the first Connect.
LEMMA InitServes == Init => ServedInv
<1> SUFFICES ASSUME Init PROVE ServedInv
  OBVIOUS
<1>1. /\ session = NoHost /\ NoHost \notin Hosts /\ late = {} /\ left = {}
      /\ host = [h \in Hosts |-> NotLaunched]
      /\ conn.st = "Ready" /\ conn.pc = "idle" /\ conn.gen = NoGen /\ conn.staged = 0
      /\ job.for = "nobody" /\ job.cmd.op = "none"
  BY NoGenIsNone DEF Init, FirstConn, NoJob, NoCommand
<1>2. FlagOK(NotLaunched) /\ ~NotLaunched.link /\ NotLaunched.life = "none"
  BY DEF NotLaunched, FlagOK
<1> QED
  BY <1>1, <1>2 DEF ServedInv, LinkInv, PipeInv, JobInv, ConnInv, GenInv, NoGen

\* Every step keeps it.
LEMMA NextServes == HostsAreSound /\ ServedInv /\ [Next]_vars => ServedInv'
<1> SUFFICES ASSUME HostsAreSound, ServedInv, [Next]_vars PROVE ServedInv'
  OBVIOUS
<1>1. CASE UNCHANGED vars
  BY <1>1 DEF vars, ServedInv, LinkInv, PipeInv, JobInv, ConnInv, GenInv, Fits
<1>2. CASE BeginConnect \/ BeginDisconnect \/ Abandon \/ Acquire \/ Quit
  BY <1>2, RequestServes, AcquireServes
<1>3. CASE DaemonDies
  BY <1>3, DaemonDiesServes
<1>4. CASE BrokerRefuses \/ LaunchFails \/ BrokerLoses \/ BrokerTimesOut
  BY <1>4, LostServes
<1>5. CASE LaunchHost \/ BrokerSends \/ BrokerReceives
  BY <1>5, LaunchServes, SendsServes, ReceivesServes
<1>6. ASSUME NEW h \in Hosts,
             \/ HostJoins(h) \/ HostReads(h) \/ HostEof(h) \/ HostKilled(h)
             \/ \E e \in Engines : CoreDies(h, e)
      PROVE  ServedInv'
  BY <1>6, HostStepServes
<1>7. ASSUME NEW h \in Hosts, HostAnswers(h)
      PROVE  ServedInv'
  BY <1>7, HostAnswersServes
<1> QED
  BY <1>1, <1>2, <1>3, <1>4, <1>5, <1>6, <1>7 DEF Next

\* Both layers together are an invariant.
LEMMA ServedInvariant == Spec => [](HostsAreSound /\ ServedInv)
BY InitSound, NextSound, InitServes, NextServes, PTL DEF Spec

\* A daemon that is Ready again has no core in a host it is connected to, but
\* for one that a dropped Connect's waiting call started behind its back.
THEOREM ReadyHasNoCores == Spec => []ReadyLeavesNoCores
<1>1. HostsAreSound /\ ServedInv => ReadyLeavesNoCores
  <2> SUFFICES ASSUME HostsAreSound, ServedInv, conn.st = "Ready", NEW h \in Hosts,
                      host[h].link, NEW p \in host[h].alive
               PROVE  p[2] \in left
    BY DEF ReadyLeavesNoCores
  <2>1. h = session /\ host[h].gen \in left \cup {NoGen}
    BY SessionFits DEF ServedInv, LinkInv, Fits
  <2>2. host[h] \in HostType /\ p[2] = host[h].gen
    BY EachIsSound DEF Sound
  <2>3. p \in Engines \X Gens
    BY <2>2 DEF HostType
  <2>4. p[2] \in Gens
    BY <2>3
  <2> QED
    BY <2>1, <2>2, <2>4, NoGenIsNone
<1> QED
  BY <1>1, ServedInvariant, PTL

\* A Connect is answered only when its host has started both cores of the very
\* generation it staged (or has ended since).
THEOREM ConnectMeansBothCores == Spec => ConnectIsServed
<1> DEFINE A == conn.st # "Connected" /\ conn'.st = "Connected"
                    => /\ session # NoHost
                       /\ \/ host[session].life = "gone"
                          \/ host[session].gen = conn.gen /\ host[session].flag = Engines
<1>1. ASSUME HostsAreSound, ServedInv, [Next]_vars
      PROVE  [A]_vars
  <2> SUFFICES ASSUME Next, conn.st # "Connected", conn'.st = "Connected"
               PROVE  /\ session # NoHost
                      /\ \/ host[session].life = "gone"
                         \/ host[session].gen = conn.gen /\ host[session].flag = Engines
    BY <1>1
  <2>0. conn \in ConnType
    BY <1>1 DEF HostsAreSound, TypeOK
  <2>1. ASSUME NEW res, NEW s, Returns(res, s)
        PROVE  job.for = "conn" /\ conn.pc = "startMihomo" /\ res = "Ok"
    <3>1. job.for = "conn" /\ conn' = Advanced(conn, res)
      BY <2>1 DEF Returns
    <3>2. conn.pc # "idle" /\ ConnInv
      BY <1>1, <3>1 DEF ServedInv, JobInv
    <3> QED
      BY <1>1, <3>1, <3>2, AdvancedDoes
  <2>2. ~DaemonDies
    BY DEF DaemonDies, FirstConn
  <2>3. ~(BeginConnect \/ BeginDisconnect \/ Abandon \/ Acquire \/ Quit)
    BY <2>0 DEF BeginConnect, BeginDisconnect, Abandon, Acquire, Quit, Settled, ConnType
  <2>4. ~(BrokerRefuses \/ LaunchFails \/ BrokerLoses \/ BrokerTimesOut)
    BY <2>1, <2>2 DEF BrokerRefuses, LaunchFails, BrokerLoses, BrokerTimesOut, Drops
  <2>5. conn' # conn
    OBVIOUS
  <2>6. BrokerReceives
    BY <2>2, <2>3, <2>4, <2>5 DEF Next, LaunchHost, BrokerSends, HostJoins, HostReads,
                                  HostAnswers, HostEof, HostKilled, CoreDies
  <2>7. Returns(host[session].reply, session) /\ session \in Hosts /\ NoHost \notin Hosts
    BY <1>1, <2>2, <2>6, NoGenIsNone DEF BrokerReceives, HostsAreSound, CallsAreBacked
  <2>8. Fits(host[session])
    BY <1>1, <2>7, SessionFits
  <2> QED
    BY <2>1, <2>7, <2>8 DEF Fits
<1> QED
  BY <1>1, ServedInvariant, PTL DEF Spec, ConnectIsServed

=============================================================================
