------------------------ MODULE DaemonConnectionProofs ------------------------
(***************************************************************************)
(* Proofs about DaemonConnection, for any number of requests, profiles and *)
(* generations and any set of faults.  First what the operations of the    *)
(* service session and the controller factory return, then what each       *)
(* action does, then the parts of the inductive invariant.                 *)
(***************************************************************************)
EXTENDS DaemonConnection, TLAPS

-------------------------------------------------------------------------------
(* The service session *)

Answers == {"reached", "Ok", "Disconnected", "TimedOut", "Rejected", "Busy", "InUse"}
Outcome == [res : Answers, s : SessionType, v : ServiceType]

\* The two ends agree: without a channel the service has no link, without a
\* link no cores, without cores no tunnel, and cores that run are the ones the
\* session prepared and believes healthy.
Sound(s, v) ==
    /\ ~s.chan => ~v.link
    /\ ~v.link => v.gen = NoGen
    /\ v.gen = NoGen => ~v.tun
    /\ v.gen # NoGen => s.prepared = v.gen /\ s.healthy

\* What an exchange may do to s and v: nothing starts, and the claim stays.
Calmer(s, v, o) ==
    /\ o \in Outcome /\ Sound(o.s, o.v)
    /\ o.s.owner = s.owner
    /\ o.v.gen \in {v.gen, NoGen}
    /\ o.v.tun => v.tun

\* The parts of a result.
LEMMA ResultIs ==
  ASSUME NEW res \in Answers, NEW s \in SessionType, NEW v \in ServiceType
  PROVE  /\ Result(res, s, v) \in Outcome
         /\ Result(res, s, v).res = res
         /\ Result(res, s, v).s = s
         /\ Result(res, s, v).v = v
BY DEF Result, Outcome

\* A dropped channel leaves nothing behind at either end.
LEMMA DroppedIs ==
  ASSUME NEW res \in Answers, NEW s \in SessionType, NEW v \in ServiceType
  PROVE  /\ Dropped(res, s, v) \in Outcome /\ Dropped(res, s, v).res = res
         /\ Calmer(s, v, Dropped(res, s, v)) /\ Dropped(res, s, v).v.gen = NoGen
<1> DEFINE a == Forget([s EXCEPT !.chan = FALSE])
           b == Released(v)
<1>1. a \in SessionType /\ a.owner = s.owner /\ ~a.chan
  BY DEF Forget, SessionType, GenOrNone
<1>2. b \in ServiceType /\ ~b.link /\ b.gen = NoGen /\ ~b.tun
  BY DEF Released, ServiceType, GenOrNone
<1>3. Dropped(res, s, v) = Result(res, a, b)
  BY DEF Dropped
<1> HIDE DEF a, b
<1>4. Dropped(res, s, v) \in Outcome /\ Dropped(res, s, v).res = res
      /\ Dropped(res, s, v).s = a /\ Dropped(res, s, v).v = b
  BY <1>1, <1>2, <1>3, ResultIs
<1> QED
  BY <1>1, <1>2, <1>4 DEF Calmer, Sound

\* What exchange_if returns: the command was read over an open channel, or
\* nothing of the daemon's is left at the service.
Exchanged(s, v, o) ==
    /\ Calmer(s, v, o)
    /\ o.res \in {"reached", "Disconnected", "TimedOut"}
    /\ o.res = "reached" => o.s.chan /\ o.v.link
    /\ o.res # "reached" => o.v.gen = NoGen /\ ~o.v.tun

\* An exchange on a channel that is open ends as Exchanged says.
LEMMA ExchangeOnIs ==
  ASSUME NEW s \in SessionType, NEW v \in ServiceType, Sound(s, v), s.chan,
         NEW o \in ExchangeOn(s, v)
  PROVE  Exchanged(s, v, o)
<1> USE DEF Answers
<1>1. CASE o = Dropped("Disconnected", s, v)
  BY <1>1, DroppedIs DEF Exchanged, Calmer, Sound
<1>2. CASE o = Dropped("TimedOut", s, v)
  BY <1>2, DroppedIs DEF Exchanged, Calmer, Sound
<1>3. CASE o = Result("reached", s, v) /\ v.link
  <2>1. o \in Outcome /\ o.res = "reached" /\ o.s = s /\ o.v = v
    BY <1>3, ResultIs
  <2> QED
    BY <1>3, <2>1 DEF Exchanged, Calmer
<1> QED
  BY <1>1, <1>2, <1>3 DEF ExchangeOn, If

\* Exchange ends as Exchanged says, whether or not the channel was open before.
LEMMA ExchangeIs ==
  ASSUME NEW s \in SessionType, NEW v \in ServiceType, Sound(s, v), NEW connect \in BOOLEAN,
         NEW o \in Exchange(s, v, connect)
  PROVE  Exchanged(s, v, o)
<1> USE DEF Answers
<1>1. CASE s.chan
  <2>1. o \in ExchangeOn(s, v)
    BY <1>1 DEF Exchange
  <2> QED
    BY <1>1, <2>1, ExchangeOnIs
<1>2. CASE ~s.chan /\ ~connect
  <2>1. o = Result("Disconnected", s, v)
    BY <1>2 DEF Exchange
  <2>2. o \in Outcome /\ o.res = "Disconnected" /\ o.s = s /\ o.v = v
    BY <2>1, ResultIs
  <2> QED
    BY <1>2, <2>2 DEF Exchanged, Calmer, Sound
<1>3. CASE ~s.chan /\ connect /\ ~v.up
  <2> DEFINE a == Forget(s)
  <2>1. a \in SessionType /\ a.owner = s.owner /\ ~a.chan
    BY <1>3 DEF Forget, SessionType, GenOrNone
  <2>2. o = Result("Disconnected", a, v)
    BY <1>3 DEF Exchange
  <2> HIDE DEF a
  <2>3. o \in Outcome /\ o.res = "Disconnected" /\ o.s = a /\ o.v = v
    BY <2>1, <2>2, ResultIs
  <2> QED
    BY <1>3, <2>1, <2>3 DEF Exchanged, Calmer, Sound
<1>4. CASE ~s.chan /\ connect /\ v.up
  <2> DEFINE a == [Forget(s) EXCEPT !.chan = TRUE]
             b == [v EXCEPT !.link = TRUE]
  <2>1. a \in SessionType /\ a.owner = s.owner /\ a.chan
    BY DEF Forget, SessionType, GenOrNone
  <2>2. b \in ServiceType /\ b.link /\ b.gen = v.gen /\ b.tun = v.tun
    BY DEF ServiceType
  <2>3. o \in ExchangeOn(a, b)
    BY <1>4 DEF Exchange
  <2> HIDE DEF a, b
  <2>4. v.gen = NoGen /\ ~v.tun /\ Sound(a, b)
    BY <1>4, <2>1, <2>2 DEF Sound
  <2>5. Exchanged(a, b, o)
    BY <2>1, <2>2, <2>3, <2>4, ExchangeOnIs
  <2> QED
    BY <2>1, <2>2, <2>5 DEF Exchanged, Calmer
<1> QED
  BY <1>1, <1>2, <1>3, <1>4

\* An outcome with another answer, and one with another session.
LEMMA WithAnswer ==
  ASSUME NEW o \in Outcome, NEW r \in Answers
  PROVE  /\ [o EXCEPT !.res = r] \in Outcome
         /\ [o EXCEPT !.res = r].res = r
         /\ [o EXCEPT !.res = r].s = o.s /\ [o EXCEPT !.res = r].v = o.v
BY DEF Outcome

\* An outcome with another session is an outcome with the same answer and service.
LEMMA WithSession ==
  ASSUME NEW o \in Outcome, NEW s \in SessionType
  PROVE  /\ [o EXCEPT !.s = s] \in Outcome
         /\ [o EXCEPT !.s = s].res = o.res
         /\ [o EXCEPT !.s = s].s = s /\ [o EXCEPT !.s = s].v = o.v
BY DEF Outcome

\* One exchange of a probe.
LEMMA StatusAnswered ==
  ASSUME NEW s \in SessionType, NEW v \in ServiceType, Sound(s, v),
         NEW o \in Answering(Exchange(s, v, TRUE), LAMBDA x : {[x EXCEPT !.res = "Ok"]})
  PROVE  Calmer(s, v, o)
<1>1. PICK x \in Exchange(s, v, TRUE) :
        o \in IF x.res = "reached" THEN {[x EXCEPT !.res = "Ok"]} ELSE {x}
  BY DEF Answering
<1>2. Exchanged(s, v, x)
  BY <1>1, ExchangeIs
<1>3. x \in Outcome
  BY <1>2 DEF Exchanged, Calmer
<1>4. CASE o = x
  BY <1>2, <1>4 DEF Exchanged
<1>5. CASE o = [x EXCEPT !.res = "Ok"]
  <2>1. o \in Outcome /\ o.s = x.s /\ o.v = x.v
    BY <1>3, <1>5, WithAnswer DEF Answers
  <2> QED
    BY <1>2, <2>1 DEF Exchanged, Calmer
<1> QED
  BY <1>1, <1>4, <1>5

\* Two exchanges after one another.
LEMMA CalmerTwice ==
  ASSUME NEW s, NEW v, NEW x, NEW o, Calmer(s, v, x), Calmer(x.s, x.v, o)
  PROVE  Calmer(s, v, o)
BY DEF Calmer

\* probe_mode: nothing starts, whatever the answers.
LEMMA ProbeIs ==
  ASSUME NEW s \in SessionType, NEW v \in ServiceType, Sound(s, v),
         NEW o \in ProbeMode(s, v)
  PROVE  Calmer(s, v, o)
<1> DEFINE Ok(x) == {[x EXCEPT !.res = "Ok"]}
           first == Answering(Exchange(s, v, TRUE), Ok)
           all == UNION {IF s.chan /\ x.res # "Ok"
                         THEN Answering(Exchange(x.s, x.v, TRUE), Ok)
                         ELSE {x} : x \in first}
<1>1. PICK y \in all : o = [y EXCEPT !.s.available = (y.res = "Ok")]
  BY DEF ProbeMode
<1>2. PICK x \in first : y \in IF s.chan /\ x.res # "Ok"
                               THEN Answering(Exchange(x.s, x.v, TRUE), Ok) ELSE {x}
  OBVIOUS
<1>3. Calmer(s, v, x)
  BY <1>2, StatusAnswered
<1>4. Calmer(s, v, y)
  <2>1. CASE y = x
    BY <1>3, <2>1
  <2>2. CASE y \in Answering(Exchange(x.s, x.v, TRUE), Ok)
    <3>1. x.s \in SessionType /\ x.v \in ServiceType /\ Sound(x.s, x.v)
      BY <1>3 DEF Calmer, Outcome
    <3>2. Calmer(x.s, x.v, y)
      BY <2>2, <3>1, StatusAnswered
    <3> QED
      BY <1>3, <3>2, CalmerTwice
  <2> QED
    BY <1>2, <2>1, <2>2
<1>5. y \in Outcome
  BY <1>4 DEF Calmer
<1> HIDE DEF all
<1>6. /\ o \in Outcome /\ o.v = y.v /\ o.s.owner = y.s.owner /\ o.s.chan = y.s.chan
      /\ o.s.prepared = y.s.prepared /\ o.s.healthy = y.s.healthy
  BY <1>1, <1>5 DEF Outcome, SessionType
<1> QED
  BY <1>4, <1>6 DEF Calmer, Sound

\* poll: the session learns which cores run.
LEMMA PollIs ==
  ASSUME NEW s \in SessionType, NEW v \in ServiceType, Sound(s, v), NEW o \in Poll(s, v)
  PROVE  Calmer(s, v, o)
<1> DEFINE Status(x) ==
             {[x EXCEPT !.res = "Ok", !.s.tunOn = x.v.tun,
                        !.s.healthy = x.v.gen # NoGen /\ x.v.gen = x.s.prepared]}
<1>1. PICK y \in Answering(Exchange(s, v, FALSE), Status) :
        o = [y EXCEPT !.s.healthy = @ /\ y.res = "Ok"]
  BY DEF Poll
<1>2. PICK x \in Exchange(s, v, FALSE) : y \in IF x.res = "reached" THEN Status(x) ELSE {x}
  BY DEF Answering
<1>3. Exchanged(s, v, x) /\ x \in Outcome
  BY <1>2, ExchangeIs DEF Exchanged, Calmer
<1>4. CASE x.res = "reached" /\ y \in Status(x)
  <2> DEFINE h == (x.v.gen # NoGen /\ x.v.gen = x.s.prepared)
  <2>0. y = [x EXCEPT !.res = "Ok", !.s.tunOn = x.v.tun, !.s.healthy = h]
    BY <1>4
  <2>a. h \in BOOLEAN /\ x.v.tun \in BOOLEAN
    BY <1>3 DEF Outcome, ServiceType
  <2>b. h <=> x.v.gen # NoGen /\ x.v.gen = x.s.prepared
    OBVIOUS
  <2> HIDE DEF h
  <2>1. /\ y \in Outcome /\ y.res = "Ok" /\ y.v = x.v /\ y.s.owner = x.s.owner
        /\ y.s.chan = x.s.chan /\ y.s.prepared = x.s.prepared
        /\ y.s.healthy = h
    BY <1>3, <2>0, <2>a DEF Outcome, SessionType, Answers
  <2>2. /\ o \in Outcome /\ o.v = y.v /\ o.s.owner = y.s.owner
        /\ o.s.chan = y.s.chan /\ o.s.prepared = y.s.prepared
        /\ o.s.healthy <=> y.s.healthy
    BY <1>1, <2>1 DEF Outcome, SessionType
  <2> QED
    BY <1>3, <2>1, <2>2, <2>b DEF Exchanged, Calmer, Sound
<1>5. CASE x.res # "reached" /\ y = x
  <2>1. /\ o \in Outcome /\ o.v = x.v /\ o.s.owner = x.s.owner
        /\ o.s.chan = x.s.chan /\ o.s.prepared = x.s.prepared
    BY <1>1, <1>3, <1>5 DEF Outcome, SessionType
  <2>2. x.v.gen = NoGen
    BY <1>3, <1>5 DEF Exchanged
  <2> QED
    BY <1>3, <2>1, <2>2 DEF Exchanged, Calmer, Sound
<1> QED
  BY <1>2, <1>4, <1>5

\* prepare_if: the cores of g start, or nothing does; the tunnel is never
\* raised, and a warm-up leaves the cores of a claimed generation alone.
Prepared(s, v, g, idle, o) ==
    /\ o \in Outcome /\ Sound(o.s, o.v)
    /\ o.s.owner = s.owner
    /\ o.v.gen \in {v.gen, g, NoGen}
    /\ o.res = "Ok" => o.v.gen \in {g, NoGen}
    /\ o.v.tun => v.tun
    /\ idle /\ s.owner \notin {NoGen, g} => o.v = v

\* Every outcome of prepare_if_current is a Prepared one.
LEMMA PrepareIs ==
  ASSUME NEW s \in SessionType, NEW v \in ServiceType, Sound(s, v), NEW g \in Gens,
         NEW idle \in BOOLEAN, NEW o \in PrepareIf(s, v, g, idle)
  PROVE  Prepared(s, v, g, idle, o)
<1> DEFINE Answer(x) ==
            {Result("Ok",
                    [x.s EXCEPT !.prepared = g, !.rejected = NoGen, !.healthy = TRUE],
                    [x.v EXCEPT !.gen = g])}
            \cup If("refusal",
                    {Result("Rejected", x.s, [x.v EXCEPT !.gen = NoGen, !.tun = FALSE])}
                    \cup (IF x.v.gen = NoGen THEN {[x EXCEPT !.res = "Busy"]} ELSE {}))
<1>0. g \in GenOrNone /\ g # NoGen /\ NoGen \in GenOrNone
  BY SessionAssumption DEF Gens, GenOrNone, NoGen
<1>1. CASE idle /\ IdleRefused(s, g)
  <2>1. o = Result("InUse", s, v)
    BY <1>1 DEF PrepareIf
  <2>2. o \in Outcome /\ o.res = "InUse" /\ o.s = s /\ o.v = v
    BY <2>1, ResultIs DEF Answers
  <2> QED
    BY <2>2 DEF Prepared
<1>2. CASE ~(idle /\ IdleRefused(s, g)) /\ s.prepared = g /\ s.healthy
  <2>1. o = Result("Ok", s, v)
    BY <1>2 DEF PrepareIf
  <2>2. o \in Outcome /\ o.res = "Ok" /\ o.s = s /\ o.v = v
    BY <2>1, ResultIs DEF Answers
  <2> QED
    BY <1>2, <2>2 DEF Prepared, IdleRefused, Sound
<1>3. CASE ~(idle /\ IdleRefused(s, g)) /\ ~(s.prepared = g /\ s.healthy)
  <2>1. PICK y \in Answering(Exchange(s, v, TRUE), Answer) :
          o = IF y.res \in {"Rejected", "TimedOut"} THEN [y EXCEPT !.s.rejected = g] ELSE y
    BY <1>3 DEF PrepareIf
  <2>2. PICK x \in Exchange(s, v, TRUE) : y \in IF x.res = "reached" THEN Answer(x) ELSE {x}
    BY DEF Answering
  <2>3. Exchanged(s, v, x) /\ x \in Outcome /\ x.s \in SessionType /\ x.v \in ServiceType
    BY <2>2, ExchangeIs DEF Exchanged, Calmer, Outcome
  <2> HIDE DEF Answer
  <2>4. Prepared(s, v, g, FALSE, y)
    <3>1. CASE x.res # "reached" /\ y = x
      BY <2>3, <3>1 DEF Prepared, Exchanged, Calmer
    <3>2. CASE x.res = "reached" /\ y = [x EXCEPT !.res = "Busy"]
      <4>1. y \in Outcome /\ y.res = "Busy" /\ y.s = x.s /\ y.v = x.v
        BY <2>3, <3>2, WithAnswer DEF Answers
      <4> QED
        BY <2>3, <4>1 DEF Prepared, Exchanged, Calmer
    <3>3. CASE /\ x.res = "reached"
               /\ y = Result("Rejected", x.s, [x.v EXCEPT !.gen = NoGen, !.tun = FALSE])
      <4> DEFINE w == [x.v EXCEPT !.gen = NoGen, !.tun = FALSE]
      <4>1. w \in ServiceType /\ w.gen = NoGen /\ ~w.tun /\ w.link = x.v.link
        BY <1>0, <2>3 DEF ServiceType
      <4>a. y = Result("Rejected", x.s, w)
        BY <3>3
      <4> HIDE DEF w
      <4>2. y \in Outcome /\ y.res = "Rejected" /\ y.s = x.s /\ y.v = w
        <5>1. "Rejected" \in Answers
          BY DEF Answers
        <5> QED
          BY <2>3, <4>a, <4>1, <5>1, ResultIs
      <4> QED
        BY <2>3, <3>3, <4>1, <4>2 DEF Prepared, Exchanged, Calmer, Sound
    <3>4. CASE /\ x.res = "reached"
               /\ y = Result("Ok",
                             [x.s EXCEPT !.prepared = g, !.rejected = NoGen, !.healthy = TRUE],
                             [x.v EXCEPT !.gen = g])
      <4> DEFINE a == [x.s EXCEPT !.prepared = g, !.rejected = NoGen, !.healthy = TRUE]
                 w == [x.v EXCEPT !.gen = g]
      <4>1. w \in ServiceType /\ w.gen = g /\ w.tun = x.v.tun /\ w.link = x.v.link
        BY <1>0, <2>3 DEF ServiceType
      <4>2. /\ a \in SessionType /\ a.owner = x.s.owner /\ a.chan = x.s.chan
            /\ a.prepared = g /\ a.healthy
        BY <1>0, <2>3 DEF SessionType
      <4>a. y = Result("Ok", a, w)
        BY <3>4
      <4> HIDE DEF w, a
      <4>3. y \in Outcome /\ y.res = "Ok" /\ y.s = a /\ y.v = w
        <5>1. "Ok" \in Answers
          BY DEF Answers
        <5> QED
          BY <4>a, <4>1, <4>2, <5>1, ResultIs
      <4> QED
        BY <1>0, <2>3, <3>4, <4>1, <4>2, <4>3 DEF Prepared, Exchanged, Calmer, Sound
    <3> QED
      BY <2>2, <3>1, <3>2, <3>3, <3>4 DEF If, Answer
  <2>5. y \in Outcome
    BY <2>4 DEF Prepared
  <2>6. /\ o \in Outcome /\ o.res = y.res /\ o.v = y.v /\ o.s.owner = y.s.owner
        /\ o.s.chan = y.s.chan /\ o.s.prepared = y.s.prepared /\ o.s.healthy = y.s.healthy
    BY <1>0, <2>1, <2>5 DEF Outcome, SessionType
  <2> QED
    BY <1>3, <2>4, <2>6 DEF Prepared, Sound, IdleRefused
<1> QED
  BY <1>1, <1>2, <1>3

\* set_tun: the tunnel is up only after a switch-on that answered Ok, or a
\* switch-off that was refused while the cores run.
Switched(s, v, on, o) ==
    /\ o \in Outcome /\ Sound(o.s, o.v)
    /\ o.s.owner = s.owner
    /\ o.v.gen \in {v.gen, NoGen}
    /\ on /\ o.res # "Ok" => ~o.v.tun
    /\ ~on /\ o.res \in {"Ok", "Disconnected"} => ~o.v.tun
    /\ ~on /\ o.v.tun => v.tun

\* Every outcome of set_tun is a Switched one.
LEMMA SetTunIs ==
  ASSUME NEW s \in SessionType, NEW v \in ServiceType, Sound(s, v),
         NEW on \in BOOLEAN, NEW o \in SetTun(s, v, on)
  PROVE  Switched(s, v, on, o)
<1> DEFINE done(x) == Result("Ok", [x.s EXCEPT !.tunOn = on], [x.v EXCEPT !.tun = on])
           rolledBack(x) == Result("Rejected", [x.s EXCEPT !.tunOn = FALSE],
                                   [x.v EXCEPT !.tun = FALSE])
           stillUp(x) == [x EXCEPT !.res = "Rejected"]
           Answer(x) ==
                IF on /\ x.v.gen = NoGen THEN {rolledBack(x)}
                ELSE {done(x)} \cup If("refusal", IF on THEN {rolledBack(x)}
                                               ELSE IF x.v.tun THEN {stillUp(x)} ELSE {})
<1>1. PICK x \in Exchange(s, v, FALSE) : o \in IF x.res = "reached" THEN Answer(x) ELSE {x}
  BY DEF SetTun, Answering
<1>2. Exchanged(s, v, x) /\ x \in Outcome /\ x.s \in SessionType /\ x.v \in ServiceType
  BY <1>1, ExchangeIs DEF Exchanged, Calmer, Outcome
<1>3. CASE x.res # "reached" /\ o = x
  BY <1>2, <1>3 DEF Exchanged, Calmer, Switched
<1>4. CASE o = rolledBack(x)
  <2> DEFINE a == [x.s EXCEPT !.tunOn = FALSE]
             w == [x.v EXCEPT !.tun = FALSE]
  <2>1. w \in ServiceType /\ w.gen = x.v.gen /\ ~w.tun /\ w.link = x.v.link
    BY <1>2 DEF ServiceType
  <2>2. /\ a \in SessionType /\ a.owner = x.s.owner /\ a.chan = x.s.chan
        /\ a.prepared = x.s.prepared /\ a.healthy = x.s.healthy
    BY <1>2 DEF SessionType
  <2>3. o = Result("Rejected", a, w)
    BY <1>4
  <2> HIDE DEF a, w
  <2>4. o \in Outcome /\ o.res = "Rejected" /\ o.s = a /\ o.v = w
    BY <2>1, <2>2, <2>3, ResultIs DEF Answers
  <2> QED
    BY <1>2, <2>1, <2>2, <2>4 DEF Switched, Exchanged, Calmer, Sound
<1>5. CASE o = done(x) /\ ~(on /\ x.v.gen = NoGen)
  <2> DEFINE a == [x.s EXCEPT !.tunOn = on]
             w == [x.v EXCEPT !.tun = on]
  <2>1. w \in ServiceType /\ w.gen = x.v.gen /\ w.tun = on /\ w.link = x.v.link
    BY <1>2 DEF ServiceType
  <2>2. /\ a \in SessionType /\ a.owner = x.s.owner /\ a.chan = x.s.chan
        /\ a.prepared = x.s.prepared /\ a.healthy = x.s.healthy
    BY <1>2 DEF SessionType
  <2>3. o = Result("Ok", a, w)
    BY <1>5
  <2> HIDE DEF a, w
  <2>4. o \in Outcome /\ o.res = "Ok" /\ o.s = a /\ o.v = w
    BY <2>1, <2>2, <2>3, ResultIs DEF Answers
  <2> QED
    BY <1>2, <1>5, <2>1, <2>2, <2>4 DEF Switched, Exchanged, Calmer, Sound
<1>6. CASE o = stillUp(x) /\ ~on
  <2>1. o \in Outcome /\ o.res = "Rejected" /\ o.s = x.s /\ o.v = x.v
    BY <1>2, <1>6, WithAnswer DEF Answers
  <2> QED
    BY <1>2, <1>6, <2>1 DEF Switched, Exchanged, Calmer
<1> QED
  BY <1>1, <1>3, <1>4, <1>5, <1>6 DEF If

\* What an operation leaves at the two ends (s2, v2) of a session (s, v) when
\* it starts nothing.
Calms(s, v, s2, v2) ==
    /\ s2 \in SessionType /\ v2 \in ServiceType /\ Sound(s2, v2)
    /\ s2.owner = s.owner /\ v2.gen \in {v.gen, NoGen} /\ (v2.tun => v.tun)

\* Cores that run are ready in the session's eyes.
LEMMA TunMeansReady ==
  ASSUME NEW s \in SessionType, NEW v \in ServiceType, Sound(s, v), v.tun
  PROVE  CoresReady(s)
BY DEF Sound, CoresReady

\* A claim that is made or given up changes nothing else.
LEMMA ClaimIs ==
  ASSUME NEW s \in SessionType, NEW v \in ServiceType, Sound(s, v), NEW g \in GenOrNone
  PROVE  Claim(s, g) \in SessionType /\ Claim(s, g).owner = g /\ Sound(Claim(s, g), v)
<1>1. /\ Claim(s, g) \in SessionType /\ Claim(s, g).owner = g /\ Claim(s, g).chan = s.chan
      /\ Claim(s, g).prepared = s.prepared /\ Claim(s, g).healthy = s.healthy
  BY DEF Claim, SessionType
<1> QED
  BY <1>1 DEF Sound

\* Dropping the claim leaves a sound session that nobody owns.
LEMMA ReleaseClaimIs ==
  ASSUME NEW s \in SessionType, NEW v \in ServiceType, Sound(s, v)
  PROVE  /\ ReleaseClaim(s) \in SessionType /\ ReleaseClaim(s).owner = NoGen
         /\ Sound(ReleaseClaim(s), v)
<1>1. ReleaseClaim(s) = Claim(s, NoGen) /\ NoGen \in GenOrNone
  BY DEF ReleaseClaim, Claim, GenOrNone
<1> QED
  BY <1>1, ClaimIs

\* start(Xray) after the claim: it is given up again when the cores fail.
XrayStarted(s, v, g, o) ==
    /\ o \in Outcome /\ Sound(o.s, o.v)
    /\ o.res = "Ok" => o.s.owner = s.owner /\ o.v.gen \in {g, NoGen}
    /\ o.v.tun => v.tun

\* Every outcome of start_xray is an XrayStarted one.
LEMMA StartXrayIs ==
  ASSUME NEW s \in SessionType, NEW v \in ServiceType, Sound(s, v), NEW g \in Gens,
         NEW o \in StartXray(s, v, g)
  PROVE  XrayStarted(s, v, g, o)
<1>1. PICK x \in PrepareIf(s, v, g, FALSE) :
        o = IF x.res = "Ok" THEN x ELSE [x EXCEPT !.s = ReleaseClaim(x.s)]
  BY DEF StartXray, Prepare
<1>2. Prepared(s, v, g, FALSE, x)
  BY <1>1, PrepareIs
<1>3. x \in Outcome /\ x.s \in SessionType /\ x.v \in ServiceType /\ Sound(x.s, x.v)
  BY <1>2 DEF Prepared, Outcome
<1>4. CASE x.res = "Ok"
  BY <1>1, <1>2, <1>4 DEF Prepared, XrayStarted
<1>5. CASE x.res # "Ok"
  <2>1. o = [x EXCEPT !.s = ReleaseClaim(x.s)]
    BY <1>1, <1>5
  <2>2. ReleaseClaim(x.s) \in SessionType /\ Sound(ReleaseClaim(x.s), x.v)
    BY <1>3, ReleaseClaimIs
  <2>3. o \in Outcome /\ o.res = x.res /\ o.v = x.v /\ o.s = ReleaseClaim(x.s)
    BY <1>3, <2>1, <2>2, WithSession
  <2> QED
    BY <1>2, <1>5, <2>2, <2>3 DEF Prepared, XrayStarted
<1> QED
  BY <1>4, <1>5

\* start(Mihomo): the tunnel is up only if it answers Ok.
MihomoStarted(s, v, o) ==
    /\ o \in Outcome /\ Sound(o.s, o.v)
    /\ o.s.owner = s.owner /\ o.v.gen \in {v.gen, NoGen}
    /\ o.res # "Ok" => ~o.v.tun

\* Every outcome of start_mihomo is a MihomoStarted one.
LEMMA StartMihomoIs ==
  ASSUME NEW s \in SessionType, NEW v \in ServiceType, Sound(s, v), NEW o \in StartMihomo(s, v)
  PROVE  MihomoStarted(s, v, o)
<1>1. PICK x \in SetTun(s, v, TRUE) : o = IF x.res = "Ok" THEN [x EXCEPT !.s.inUse = TRUE] ELSE x
  BY DEF StartMihomo
<1>2. Switched(s, v, TRUE, x)
  BY <1>1, SetTunIs
<1>3. x \in Outcome
  BY <1>2 DEF Switched
<1>4. CASE x.res = "Ok"
  <2>1. /\ o \in Outcome /\ o.res = x.res /\ o.v = x.v /\ o.s.owner = x.s.owner
        /\ o.s.chan = x.s.chan /\ o.s.prepared = x.s.prepared /\ o.s.healthy = x.s.healthy
    BY <1>1, <1>3, <1>4 DEF Outcome, SessionType
  <2> QED
    BY <1>2, <1>4, <2>1 DEF Switched, MihomoStarted, Sound
<1>5. CASE x.res # "Ok"
  BY <1>1, <1>2, <1>5 DEF Switched, MihomoStarted
<1> QED
  BY <1>4, <1>5

\* stop(Mihomo): the claim is gone, and so is the tunnel when it answers Ok;
\* what is forgiven is a dead channel or dead cores, and neither has a tunnel.
MihomoStopped(v, o) ==
    /\ o \in Outcome /\ Sound(o.s, o.v)
    /\ o.v.gen \in {v.gen, NoGen}
    /\ o.res = "Ok" => ~o.v.tun
    /\ o.v.tun => v.tun

\* Every outcome of stop_mihomo is a MihomoStopped one.
LEMMA StopMihomoIs ==
  ASSUME NEW s \in SessionType, NEW v \in ServiceType, Sound(s, v), NEW o \in StopMihomo(s, v)
  PROVE  MihomoStopped(v, o)
<1>1. PICK x \in SetTun(s, v, FALSE) :
        o = Result(IF x.res \in {"Ok", "Disconnected"} \/ ~CoresReady(x.s) THEN "Ok" ELSE x.res,
                   [ReleaseClaim(x.s) EXCEPT !.inUse = FALSE], x.v)
  BY DEF StopMihomo
<1>2. Switched(s, v, FALSE, x)
  BY <1>1, SetTunIs
<1>3. x.res \in Answers /\ x.s \in SessionType /\ x.v \in ServiceType /\ Sound(x.s, x.v)
  BY <1>2 DEF Switched, Outcome
<1> DEFINE a == [ReleaseClaim(x.s) EXCEPT !.inUse = FALSE]
           res == IF x.res \in {"Ok", "Disconnected"} \/ ~CoresReady(x.s) THEN "Ok" ELSE x.res
<1>4. ReleaseClaim(x.s) \in SessionType /\ Sound(ReleaseClaim(x.s), x.v)
  BY <1>3, ReleaseClaimIs
<1>5. /\ a \in SessionType /\ a.chan = ReleaseClaim(x.s).chan
      /\ a.prepared = ReleaseClaim(x.s).prepared /\ a.healthy = ReleaseClaim(x.s).healthy
  BY <1>4 DEF SessionType
<1>6. Sound(a, x.v)
  BY <1>4, <1>5 DEF Sound
<1>7. res \in Answers /\ (res = "Ok" => x.res \in {"Ok", "Disconnected"} \/ ~CoresReady(x.s))
  BY <1>3 DEF Answers
<1>8. o = Result(res, a, x.v)
  BY <1>1
<1> HIDE DEF a, res
<1>9. o \in Outcome /\ o.res = res /\ o.s = a /\ o.v = x.v
  BY <1>3, <1>5, <1>7, <1>8, ResultIs
<1>10. x.v.tun => CoresReady(x.s)
  BY <1>3, TunMeansReady
<1> QED
  BY <1>2, <1>6, <1>7, <1>9, <1>10 DEF Switched, MihomoStopped

\* readiness.release: the channel is taken away.
LEMMA ShutdownIs ==
  ASSUME NEW s \in SessionType, NEW v \in ServiceType, Sound(s, v)
  PROVE  Calms(s, v, Shutdown(s, v).s, Shutdown(s, v).v)
<1> DEFINE a == Forget([s EXCEPT !.chan = FALSE, !.inUse = FALSE])
           b == IF s.chan THEN Released(v) ELSE v
<1>1. a \in SessionType /\ a.owner = s.owner /\ ~a.chan
  BY DEF Forget, SessionType, GenOrNone
<1>2. b \in ServiceType /\ ~b.link /\ b.gen = NoGen /\ ~b.tun
  BY DEF Released, ServiceType, GenOrNone, Sound
<1>3. Shutdown(s, v) = Result("Ok", a, b) /\ "Ok" \in Answers
  BY DEF Shutdown, Answers
<1> HIDE DEF a, b
<1>4. Shutdown(s, v).s = a /\ Shutdown(s, v).v = b
  BY <1>1, <1>2, <1>3, ResultIs
<1> QED
  BY <1>1, <1>2, <1>4 DEF Calms, Sound

-------------------------------------------------------------------------------
(* The controller factory *)

StageType == [gen : GenOrNone, next : 1..(MaxGens + 1), of : [Gens -> Snapshots]]

\* A controller that was built is one of the service, for a generation staged
\* from the snapshot, or an on-demand one for a request that may have it.
Built(snap, serviceOnly, f) ==
    \/ f.ctl.kind = "service" /\ f.ctl.gen \in Gens /\ f.stage.of[f.ctl.gen] = snap
    \/ f.ctl.kind = "demand" /\ ~serviceOnly

\* Generations are only added: those there are keep their snapshot.
StageGrows(g) ==
    /\ g \in StageType /\ g.gen < g.next /\ stage.next <= g.next
    /\ \A i \in Gens : i < stage.next => g.of[i] = stage.of[i]

FactoryDone(snap, serviceOnly, f) ==
    /\ Calms(ses, svc, f.s, f.v)
    /\ StageGrows(f.stage)
    /\ f.ok \in BOOLEAN /\ f.ctl \in Controllers /\ f.ctl.gen < f.stage.next
    /\ f.ok => Built(snap, serviceOnly, f)

\* Staging one more generation, dropping the staged one, and neither.
LEMMA StageIs ==
  ASSUME stage \in StageType, stage.gen < stage.next, NEW snap \in Snapshots
  PROVE  /\ StageGrows(stage)
         /\ StageGrows([stage EXCEPT !.gen = NoGen])
         /\ stage.next <= MaxGens =>
              LET fresh == [gen |-> stage.next, next |-> stage.next + 1,
                            of |-> [stage.of EXCEPT ![stage.next] = snap]]
              IN  /\ StageGrows(fresh) /\ fresh.gen \in Gens /\ fresh.gen < fresh.next
                  /\ fresh.of[fresh.gen] = snap /\ fresh.gen = stage.next
<1>0. MaxGens \in Nat /\ NoGen = 0 /\ Gens = 1..MaxGens
  BY SessionAssumption DEF NoGen, Gens
<1>1. StageGrows(stage)
  BY <1>0 DEF StageGrows, StageType
<1>2. StageGrows([stage EXCEPT !.gen = NoGen])
  BY <1>0 DEF StageGrows, StageType, GenOrNone
<1>3. ASSUME stage.next <= MaxGens
      PROVE  LET fresh == [gen |-> stage.next, next |-> stage.next + 1,
                            of |-> [stage.of EXCEPT ![stage.next] = snap]]
             IN  /\ StageGrows(fresh) /\ fresh.gen \in Gens /\ fresh.gen < fresh.next
                 /\ fresh.of[fresh.gen] = snap /\ fresh.gen = stage.next
  <2> DEFINE n == stage.next
             of == [stage.of EXCEPT ![n] = snap]
             fresh == [gen |-> n, next |-> n + 1, of |-> of]
  <2>1. n \in Gens /\ n + 1 \in 1..(MaxGens + 1) /\ n \in GenOrNone /\ n < n + 1 /\ n <= n + 1
    BY <1>0, <1>3 DEF StageType, GenOrNone
  <2>2. of \in [Gens -> Snapshots] /\ of[n] = snap
    BY <2>1 DEF StageType
  <2>3. \A i \in Gens : i < n => of[i] = stage.of[i]
    BY <1>0, <2>1 DEF StageType
  <2> HIDE DEF of
  <2>4. fresh \in StageType /\ fresh.gen = n /\ fresh.next = n + 1 /\ fresh.of = of
    BY <2>1, <2>2 DEF StageType
  <2> HIDE DEF fresh
  <2>5. StageGrows(fresh)
    BY <2>1, <2>3, <2>4 DEF StageGrows
  <2> QED
    BY <2>1, <2>2, <2>4, <2>5 DEF fresh, of
<1> QED
  BY <1>1, <1>2, <1>3

\* The parts of a factory result.
LEMMA FactoryResultIs ==
  ASSUME NEW ok \in BOOLEAN, NEW ctl \in Controllers, NEW s, NEW v, NEW stg, NEW snap,
         NEW only \in BOOLEAN, Calms(ses, svc, s, v), StageGrows(stg), ctl.gen < stg.next,
         ok => \/ ctl.kind = "service" /\ ctl.gen \in Gens /\ stg.of[ctl.gen] = snap
               \/ ctl.kind = "demand" /\ ~only
  PROVE  FactoryDone(snap, only, [ok |-> ok, ctl |-> ctl, s |-> s, v |-> v, stage |-> stg])
BY DEF FactoryDone, Built

\* The controllers and their generations.
LEMMA ControllersAre ==
  /\ NoController \in Controllers /\ NoController.kind = "none" /\ NoController.gen = NoGen
  /\ [kind |-> "demand", gen |-> NoGen] \in Controllers
  /\ \A g \in Gens : [kind |-> "service", gen |-> g] \in Controllers
  /\ \A c \in Controllers : c.gen \in GenOrNone /\ c.kind \in {"none", "demand", "service"}
  /\ \A c \in Controllers : c.kind = "service" => c.gen \in Gens
  /\ \A c \in Controllers : c.kind # "service" => c.gen = NoGen
  /\ \A c \in Controllers : c.kind = "none" <=> c = NoController
<1>1. NoController \in Controllers /\ NoController.kind = "none" /\ NoController.gen = NoGen
  BY DEF Controllers, NoController
<1>2. [kind |-> "demand", gen |-> NoGen] \in Controllers
  BY DEF Controllers
<1>3. \A g \in Gens : [kind |-> "service", gen |-> g] \in Controllers
  BY DEF Controllers
<1>4. ASSUME NEW c \in Controllers
      PROVE  /\ c.gen \in GenOrNone /\ c.kind \in {"none", "demand", "service"}
             /\ c.kind = "service" => c.gen \in Gens
             /\ c.kind # "service" => c.gen = NoGen
             /\ c.kind = "none" <=> c = NoController
  BY DEF Controllers, NoController, GenOrNone
<1> QED
  BY <1>1, <1>2, <1>3, <1>4

\* The factory starts nothing, and what it builds belongs to the snapshot.
LEMMA FactoryIs ==
  ASSUME stage \in StageType, stage.gen < stage.next, ses \in SessionType, svc \in ServiceType,
         Sound(ses, svc), NEW snap \in Snapshots, NEW only \in BOOLEAN,
         NEW f \in FactoryResults(snap, only)
  PROVE  FactoryDone(snap, only, f)
<1> DEFINE Make(o, kind, g, stg) == [ok |-> TRUE, ctl |-> [kind |-> kind, gen |-> g],
                                     s |-> o.s, v |-> o.v, stage |-> stg]
           Fail(o, stg) == [ok |-> FALSE, ctl |-> NoController,
                            s |-> o.s, v |-> o.v, stage |-> stg]
           fresh == [gen |-> stage.next, next |-> stage.next + 1,
                     of |-> [stage.of EXCEPT ![stage.next] = snap]]
           none == [stage EXCEPT !.gen = NoGen]
           Restaged(o) ==
               IF stage.next > MaxGens THEN {Fail(o, none)}
               ELSE {Make(o, "service", fresh.gen, fresh)}
                    \cup If("staging", {Fail(o, none), Fail(o, fresh)})
           Used(o) ==
               IF o.s.available
               THEN (IF Reusable(snap) THEN {Make(o, "service", stage.gen, stage)} ELSE {})
                    \cup (IF ~Reusable(snap) \/ "staging" \in Faults
                          THEN Restaged(o) ELSE {})
               ELSE {Fail(o, stage)}
                    \cup (IF ~only /\ OnDemand
                          THEN {Make(o, "demand", NoGen, stage)} ELSE {})
<1>1. PICK o \in ProbeMode(ses, svc) : f \in Used(o)
  BY DEF FactoryResults
<1>2. Calms(ses, svc, o.s, o.v)
  BY <1>1, ProbeIs DEF Calmer, Calms, Outcome
<1>3. /\ StageGrows(stage) /\ StageGrows(none)
      /\ stage.next <= MaxGens => /\ StageGrows(fresh) /\ fresh.gen \in Gens
                                  /\ fresh.gen < fresh.next /\ fresh.of[fresh.gen] = snap
  BY StageIs
<1>4. MaxGens \in Nat /\ stage.next \in Nat /\ NoGen = 0
  BY SessionAssumption DEF StageType, NoGen
<1>5. NoGen < stage.next /\ NoGen < none.next /\ (stage.next <= MaxGens => NoGen < fresh.next)
  BY <1>4 DEF StageType
<1>6. \/ f = Fail(o, stage) \/ f = Fail(o, none)
      \/ f = Fail(o, fresh) /\ stage.next <= MaxGens
      \/ f = Make(o, "service", fresh.gen, fresh) /\ stage.next <= MaxGens
      \/ f = Make(o, "service", stage.gen, stage) /\ Reusable(snap)
      \/ f = Make(o, "demand", NoGen, stage) /\ ~only
  <2> HIDE DEF Make, Fail, fresh, none
  <2>1. ~(stage.next > MaxGens) => stage.next <= MaxGens
    BY <1>4
  <2> QED
    BY <1>1, <2>1 DEF If
<1> HIDE DEF fresh, none
<1>7. CASE f = Fail(o, stage) \/ f = Fail(o, none)
            \/ (f = Fail(o, fresh) /\ stage.next <= MaxGens)
  <2>1. PICK stg : /\ StageGrows(stg) /\ NoGen < stg.next
                   /\ f = [ok |-> FALSE, ctl |-> NoController,
                           s |-> o.s, v |-> o.v, stage |-> stg]
    BY <1>3, <1>5, <1>7
  <2>2. FALSE \in BOOLEAN /\ NoController \in Controllers /\ NoController.gen = NoGen
    BY ControllersAre
  <2> QED
    BY <1>2, <2>1, <2>2, FactoryResultIs
<1>8. CASE f = Make(o, "service", fresh.gen, fresh) /\ stage.next <= MaxGens
  <2> DEFINE c == [kind |-> "service", gen |-> fresh.gen]
  <2>1. c \in Controllers /\ c.kind = "service" /\ c.gen = fresh.gen
    BY <1>3, <1>8, ControllersAre
  <2>2. f = [ok |-> TRUE, ctl |-> c, s |-> o.s, v |-> o.v, stage |-> fresh]
    BY <1>8
  <2> HIDE DEF c
  <2> QED
    BY <1>2, <1>3, <1>8, <2>1, <2>2, FactoryResultIs
<1>9. CASE f = Make(o, "service", stage.gen, stage) /\ Reusable(snap)
  <2> DEFINE c == [kind |-> "service", gen |-> stage.gen]
  <2>1. stage.gen \in Gens /\ stage.of[stage.gen] = snap
    BY <1>9 DEF Reusable, StageType, GenOrNone
  <2>2. c \in Controllers /\ c.kind = "service" /\ c.gen = stage.gen
    BY <2>1, ControllersAre
  <2>3. f = [ok |-> TRUE, ctl |-> c, s |-> o.s, v |-> o.v, stage |-> stage]
    BY <1>9
  <2> HIDE DEF c
  <2> QED
    BY <1>2, <1>3, <2>1, <2>2, <2>3, FactoryResultIs
<1>10. CASE f = Make(o, "demand", NoGen, stage) /\ ~only
  <2> DEFINE c == [kind |-> "demand", gen |-> NoGen]
  <2>1. c \in Controllers /\ c.kind = "demand" /\ c.gen = NoGen
    BY ControllersAre
  <2>2. f = [ok |-> TRUE, ctl |-> c, s |-> o.s, v |-> o.v, stage |-> stage]
    BY <1>10
  <2> HIDE DEF c
  <2> QED
    BY <1>2, <1>3, <1>5, <1>10, <2>1, <2>2, FactoryResultIs
<1> QED
  BY <1>6, <1>7, <1>8, <1>9, <1>10

-------------------------------------------------------------------------------
(* The runtime and the store *)

StoreType == [active : Profiles \cup {NoProfile}, present : SUBSET Profiles,
              commits : 1..MaxCommits, content : [Profiles -> 0..MaxCommits]]

\* The active profile is in the list, and a profile in the list has a content.
StoreOK(d) ==
    /\ d \in StoreType
    /\ d.active \in d.present \cup {NoProfile}
    /\ \A p \in d.present : d.content[p] # 0

\* No snapshot is one of a profile.
LEMMA SnapIs ==
  /\ NoSnap \in Snapshots
  /\ \A p \in Profiles, n \in 1..MaxCommits : <<p, n>> \in Snapshots /\ <<p, n>> # NoSnap
<1>1. \A p \in Profiles : p # NoProfile
  BY ConnectionAssumption
<1> QED
  BY <1>1 DEF Snapshots, NoSnap

\* The active profile of a well-formed store has a snapshot.
LEMMA ActiveSnapIs ==
  ASSUME NEW d, StoreOK(d)
  PROVE  ActiveSnap(d) \in Snapshots /\ (d.active # NoProfile => ActiveSnap(d) # NoSnap)
<1>1. CASE d.active = NoProfile
  BY <1>1, SnapIs DEF ActiveSnap, SnapOf
<1>2. CASE d.active # NoProfile
  <2>1. d.active \in d.present /\ d.active \in Profiles /\ d.content[d.active] # 0
    BY <1>2 DEF StoreOK, StoreType
  <2>2. d.content[d.active] \in 1..MaxCommits
    BY <2>1, ConnectionAssumption DEF StoreOK, StoreType
  <2>3. ActiveSnap(d) = <<d.active, d.content[d.active]>>
    BY <1>2 DEF ActiveSnap, SnapOf
  <2> QED
    BY <2>1, <2>2, <2>3, SnapIs
<1> QED
  BY <1>1, <1>2

\* A new content of p: the other profiles keep theirs.
LEMMA ReplacedIs ==
  ASSUME StoreOK(store), NEW p \in Profiles, CanCommit
  PROVE  /\ StoreOK(Replaced(p))
         /\ Replaced(p).active = store.active
         /\ Replaced(p).present = store.present \cup {p}
         /\ p # store.active => ActiveSnap(Replaced(p)) = ActiveSnap(store)
<1> DEFINE n == store.commits + 1
           c == [store.content EXCEPT ![p] = n]
           m == store.present \cup {p}
<1>1. n \in 1..MaxCommits /\ n # 0
  BY ConnectionAssumption DEF CanCommit, StoreOK, StoreType
<1>2. /\ c \in [Profiles -> 0..MaxCommits] /\ c[p] = n
      /\ \A q \in Profiles : q # p => c[q] = store.content[q]
  BY <1>1 DEF StoreOK, StoreType
<1>3. Replaced(p) = [store EXCEPT !.content = c, !.commits = n, !.present = m]
  BY DEF Replaced, StoreOK, StoreType
<1>a. m \in SUBSET Profiles /\ store \in StoreType
  BY DEF StoreOK, StoreType
<1> HIDE DEF n, c, m
<1>4. /\ Replaced(p) \in StoreType /\ Replaced(p).content = c
      /\ Replaced(p).active = store.active
      /\ Replaced(p).present = m
  BY <1>1, <1>2, <1>3, <1>a DEF StoreType
<1>5. StoreOK(Replaced(p))
  BY <1>1, <1>2, <1>4 DEF StoreOK, StoreType, m
<1>6. ASSUME p # store.active
      PROVE  ActiveSnap(Replaced(p)) = ActiveSnap(store)
  BY <1>2, <1>4, <1>6 DEF ActiveSnap, SnapOf, StoreOK, StoreType
<1> QED
  BY <1>4, <1>5, <1>6 DEF m

\* Another active profile.
LEMMA WithActive ==
  ASSUME NEW d, StoreOK(d), NEW p \in d.present \cup {NoProfile}
  PROVE  /\ StoreOK([d EXCEPT !.active = p])
         /\ [d EXCEPT !.active = p].active = p
BY DEF StoreOK, StoreType

\* What the parts of CoreRuntime do to the fields the invariant speaks of.
LEMMA ClearedIs ==
  ASSUME NEW r \in RuntimeType
  PROVE  /\ Cleared(r) \in RuntimeType /\ Cleared(r).st = "Empty"
         /\ Cleared(r).ctl = NoController /\ Cleared(r).pending = NoSnap
         /\ ~Cleared(r).degraded /\ ~Cleared(r).stale
BY SnapIs, ControllersAre DEF Cleared, RuntimeType, States

\* mark_error keeps the controller, the snapshot and what the watcher is told of it.
LEMMA MarkErrorIs ==
  ASSUME NEW r \in RuntimeType
  PROVE  /\ MarkError(r) \in RuntimeType /\ MarkError(r).st = "Error" /\ MarkError(r).degraded
         /\ MarkError(r).ctl = r.ctl /\ MarkError(r).snap = r.snap
         /\ MarkError(r).pending = r.pending /\ MarkError(r).stale = r.stale
BY DEF MarkError, RuntimeType, States

\* A successful stop leaves the runtime Ready and keeps its controller and its snapshot.
LEMMA StoppedIs ==
  ASSUME NEW r \in RuntimeType
  PROVE  /\ Stopped(r) \in RuntimeType /\ Stopped(r).st = "Ready" /\ ~Stopped(r).degraded
         /\ Stopped(r).ctl = r.ctl /\ Stopped(r).snap = r.snap
         /\ Stopped(r).pending = r.pending /\ Stopped(r).stale = r.stale
BY DEF Stopped, RuntimeType, States

\* A runtime r that was rebuilt from the store for snapshot snap: empty, or
\* ready with exactly that snapshot.
Rebuild(r, snap) ==
    /\ r \in RuntimeType /\ r.st \in {"Empty", "Ready"}
    /\ ~r.degraded /\ ~r.stale /\ r.pending = NoSnap
    /\ r.st = "Ready" => r.snap = snap

\* A snapshot applied to a cleared runtime rebuilds it, with the given controller.
LEMMA AppliedIs ==
  ASSUME NEW r \in RuntimeType, NEW snap \in Snapshots, NEW c \in Controllers
  PROVE  /\ Rebuild(Applied(Cleared(r), snap, c), snap)
         /\ Applied(Cleared(r), snap, c).ctl = c
<1> DEFINE e == Cleared(r)
<1>1. e \in RuntimeType /\ e.st = "Empty"
  BY ClearedIs
<1> HIDE DEF e
<1>2. /\ Applied(e, snap, c) \in RuntimeType /\ Applied(e, snap, c).st = "Ready"
      /\ ~Applied(e, snap, c).degraded /\ ~Applied(e, snap, c).stale
      /\ Applied(e, snap, c).pending = NoSnap /\ Applied(e, snap, c).snap = snap
      /\ Applied(e, snap, c).ctl = c
  BY <1>1, SnapIs DEF Applied, RuntimeType, States
<1> QED
  BY <1>2 DEF Rebuild, e

\* Reconciling the runtime rebuilds it or leaves it Empty, without a controller.
LEMMA ReconciledIs ==
  ASSUME NEW r \in RuntimeType, NEW snap \in Snapshots, NEW q \in Reconciled(r, snap)
  PROVE  Rebuild(q, snap) /\ q.ctl = NoController
<1>1. CASE q = Cleared(r)
  BY <1>1, ClearedIs DEF Rebuild
<1>2. CASE q = [Applied(Cleared(r), snap, NoController) EXCEPT
                  !.warm = IF r.warm = snap THEN snap ELSE NoSnap]
  <2> DEFINE a == Applied(Cleared(r), snap, NoController)
             w == IF r.warm = snap THEN snap ELSE NoSnap
  <2>1. Rebuild(a, snap) /\ a.ctl = NoController
    BY AppliedIs, ControllersAre
  <2>2. w \in Snapshots
    BY SnapIs
  <2>3. q = [a EXCEPT !.warm = w]
    BY <1>2
  <2> HIDE DEF a, w
  <2>4. /\ q \in RuntimeType /\ q.st = a.st /\ q.degraded = a.degraded /\ q.stale = a.stale
        /\ q.pending = a.pending /\ q.snap = a.snap /\ q.ctl = a.ctl
    BY <2>1, <2>2, <2>3 DEF Rebuild, RuntimeType
  <2> QED
    BY <2>1, <2>4 DEF Rebuild
<1> QED
  BY <1>1, <1>2 DEF Reconciled, If

-------------------------------------------------------------------------------
(* Tasks and locks *)

TaskType == [pc : Pcs, op : AllOps \cup {"Watch", "ImportLive"},
             arg : Profiles \cup {NoProfile}, resume : BOOLEAN]
LockType == [op : Tasks \cup {NoTask}, switch : Tasks \cup {NoTask}]
WarmUpType == [snap : Snapshots, gen : GenOrNone, moved : BOOLEAN]
OrphanType == [pc : Calls \cup {"none", "late"}, gen : GenOrNone]

\* TypeOK by the names of the types.
LEMMA TypeIs ==
  TypeOK <=> /\ store \in StoreType /\ rt \in RuntimeType /\ quit \in {"no", "asked", "done"}
             /\ lock \in LockType /\ task \in [Tasks -> TaskType] /\ warmup \in WarmUpType
             /\ stage \in StageType /\ ses \in SessionType /\ svc \in ServiceType
             /\ host \in BOOLEAN /\ orphan \in OrphanType
BY DEF TypeOK, StoreType, LockType, TaskType, WarmUpType, StageType, OrphanType

\* The requests that take generation_change, and what their task may do while
\* it holds it.
SwitchOps == {"Connect", "Disconnect", "Watch", "Activate", "Refresh"}
Holding == {"pause", "resume", "connect", "disconnect", "mutate"}

\* The program of task t: which request may be at which step.
TaskOK(t, x) ==
    /\ x.op = "Watch" <=> t = Watcher
    /\ x.pc = "switch" => x.op \in SwitchOps
    /\ x.pc = "pause" => x.op \in {"Activate", "Refresh"}
    /\ x.pc = "disconnect" => x.op \in {"Disconnect", "Quit", "Activate", "Refresh"}
    /\ x.op \in {"Import", "ImportLive"} => x.arg \in Profiles

\* A task that holds generation_change.
HolderOK(x) ==
    /\ x.pc \in Critical \cup Holding
    /\ x.op \in SwitchOps
    /\ x.pc = "mutate" => x.op = "Activate"

\* A step of task t: it may take or give up a lock and touches no other task.
LockStep(t) ==
    /\ t \in Tasks /\ task' \in [Tasks -> TaskType] /\ lock' \in LockType
    /\ \A u \in Tasks : u # t => task'[u] = task[u]
    /\ TaskOK(t, task'[t])
    /\ task'[t].pc \in Critical <=> lock'.op = t
    /\ lock'.op = lock.op \/ (lock.op \in {t, NoTask} /\ lock'.op \in {t, NoTask})
    /\ lock'.switch \in {lock.switch, NoTask, t}
    /\ lock'.switch = t => HolderOK(task'[t])

Moves(t, pc) ==
    /\ task' \in [Tasks -> TaskType]
    /\ \A u \in Tasks : u # t => task'[u] = task[u]
    /\ task'[t].pc = pc /\ task'[t].op = task[t].op /\ task'[t].arg = task[t].arg

Rests(t) ==
    /\ task' \in [Tasks -> TaskType]
    /\ \A u \in Tasks : u # t => task'[u] = task[u]
    /\ task'[t].pc = "idle" /\ task'[t].op = IF t = Watcher THEN "Watch" ELSE "Connect"

Left(t, pc) ==
    /\ lock' \in LockType /\ lock'.op = NoTask
    /\ lock'.switch = IF pc = "idle" /\ lock.switch = t THEN NoTask ELSE lock.switch
    /\ IF pc = "idle" THEN Rests(t) ELSE Moves(t, pc)

\* Go moves one task to the named step.
LEMMA GoIs ==
  ASSUME task \in [Tasks -> TaskType], NEW t \in Tasks, NEW pc \in Pcs, Go(t, pc)
  PROVE  Moves(t, pc)
BY DEF Go, Moves, TaskType

\* Idle puts one task at rest.
LEMMA IdleIs ==
  ASSUME task \in [Tasks -> TaskType], NEW t \in Tasks, task' = Idle(t)
  PROVE  Rests(t)
<1>1. AtRest(t) \in TaskType /\ AtRest(t).pc = "idle"
      /\ AtRest(t).op = IF t = Watcher THEN "Watch" ELSE "Connect"
  BY DEF AtRest, TaskType, Pcs, AllOps
<1> QED
  BY <1>1 DEF Idle, Rests

\* Leave gives up the operation lock, and the switch lock too when the task comes to rest.
LEMMA LeaveIs ==
  ASSUME task \in [Tasks -> TaskType], lock \in LockType, NEW t \in Tasks, NEW pc \in Pcs,
         Leave(t, pc)
  PROVE  Left(t, pc)
<1>1. /\ lock' \in LockType /\ lock'.op = NoTask
      /\ lock'.switch = IF pc = "idle" /\ lock.switch = t THEN NoTask ELSE lock.switch
  BY DEF Leave, LockType
<1>2. CASE pc = "idle"
  BY <1>1, <1>2, IdleIs DEF Left, Leave
<1>3. CASE pc # "idle"
  BY <1>1, <1>3, GoIs DEF Left, Leave, Go
<1> QED
  BY <1>2, <1>3

\* What follows a connect, a disconnect or a mutation takes no lock.
LEMMA AfterIs ==
  ASSUME task \in [Tasks -> TaskType], NEW t \in Tasks
  PROVE  /\ After(t, "connect") = "idle"
         /\ After(t, "disconnect") \in {"idle", "release", "mutate", "resume"}
         /\ After(t, "disconnect") = "mutate" => task[t].op = "Activate"
         /\ After(t, "disconnect") = "release" => task[t].op = "Quit"
         /\ After(t, "mutate") \in {"idle", "switch", "resume"}
         /\ After(t, "mutate") = "switch" => task[t].op = "Refresh"
BY DEF After

\* Leaving after a stop is leaving for what comes after a disconnect.
LEMMA LeaveStoppedIs ==
  ASSUME task \in [Tasks -> TaskType], lock \in LockType, NEW t \in Tasks,
         NEW ok \in BOOLEAN, LeaveStopped(t, ok)
  PROVE  Left(t, After(t, "disconnect"))
<1> DEFINE pc == After(t, "disconnect")
<1>0. pc \in Pcs
  BY AfterIs DEF Pcs
<1>1. /\ lock' \in LockType /\ lock'.op = NoTask
      /\ lock'.switch = IF pc = "idle" /\ lock.switch = t THEN NoTask ELSE lock.switch
  BY DEF LeaveStopped, LockType
<1>2. CASE pc = "idle"
  BY <1>1, <1>2, IdleIs DEF Left, LeaveStopped
<1>3. CASE pc # "idle"
  <2>1. task' = [task EXCEPT ![t].pc = pc, ![t].resume = Resuming(t, ok)]
    BY <1>3 DEF LeaveStopped
  <2>2. Resuming(t, ok) \in BOOLEAN
    BY DEF Resuming
  <2> HIDE DEF pc
  <2>3. Moves(t, pc)
    BY <1>0, <2>1, <2>2 DEF Moves, TaskType
  <2> QED
    BY <1>1, <1>3, <2>3 DEF Left, pc
<1> QED
  BY <1>2, <1>3

-------------------------------------------------------------------------------
(* The inductive invariant *)

Connecting == {"claim", "prepare", "tunOn", "hostOn", "replay", "rollback"}

TaskInv == \A t \in Tasks : TaskOK(t, task[t])

LockInv ==
    /\ \A t \in Tasks : task[t].pc \in Critical <=> lock.op = t
    /\ lock.switch # NoTask => HolderOK(task[lock.switch])

\* What the runtime r looks like at the steps of the task x that holds operation.
RunsAs(x, r) ==
    /\ x.pc \in Connecting => r.st = "Connecting"
    /\ x.pc \in {"factory", "commit"} => r.st = "Ready"
    /\ x.pc \in {"claim", "prepare", "tunOn"} => r.ctl.kind = "service"
    /\ x.pc = "hostOn" => r.ctl.kind = "demand"
    /\ x.pc = "stop" => r.st \notin {"Empty", "Ready"}
    /\ x.pc = "stop" /\ x.op \in {"Delete", "Watch"} => r.st = "Connected"

StateInv ==
    /\ \A t \in Tasks : RunsAs(task[t], rt)
    /\ ConnectingIsOwned
    /\ rt.st = "Error" => rt.degraded

\* What runs, and the runtime that can stop it.  Before a start nothing runs,
\* but for the tunnel of a call that outlived its request.
RunInv ==
    /\ svc.tun => \/ orphan.pc = "late"
                  \/ rt.st \in {"Connecting", "Connected", "Error"} /\ rt.ctl.kind = "service"
    /\ host => rt.st \in {"Connecting", "Connected", "Error"} /\ rt.ctl.kind = "demand"
    /\ \A t \in Tasks : task[t].pc \in {"claim", "prepare", "tunOn", "hostOn"} =>
          ~host /\ (svc.tun => orphan.pc = "late")
    /\ rt.st \in {"Connecting", "Connected"} => rt.ctl.kind # "none"

SnapInv ==
    rt.st \in {"Ready", "Connecting", "Connected"} /\ ~rt.stale =>
        ActiveSnap(store) = IF rt.pending # NoSnap THEN rt.pending ELSE rt.snap

\* A generation id is never given twice, so a connection's generation keeps
\* the snapshot it was staged from.
StageInv ==
    /\ stage.gen < stage.next /\ rt.ctl.gen < stage.next /\ warmup.gen < stage.next
    /\ rt.st \in {"Connecting", "Connected"} /\ rt.ctl.kind = "service" =>
          stage.of[rt.ctl.gen] = rt.snap

\* A call in flight has a generation.
CallInv ==
    /\ task[Watcher].pc \in {"warmCheck", "warmPrepare"} => warmup.gen \in Gens
    /\ orphan.pc \in {"claim", "prepare"} => orphan.gen \in Gens

\* As long as no call outlives its request, the claim keeps every other
\* generation away from the service while the connection is made and lasts.
ClaimInv ==
    MaxOrphans = 0 =>
        /\ orphan.pc = "none"
        /\ rt.ctl.kind = "service" =>
              /\ rt.st = "Connected" => /\ ses.owner = rt.ctl.gen
                                        /\ svc.gen \in {NoGen, rt.ctl.gen}
              /\ \A t \in Tasks :
                    /\ task[t].pc \in {"prepare", "tunOn", "replay", "rollback"} =>
                          ses.owner = rt.ctl.gen
                    /\ task[t].pc \in {"tunOn", "replay", "rollback"} =>
                          svc.gen \in {NoGen, rt.ctl.gen}

DaemonInv ==
    /\ TypeOK /\ StoreOK(store) /\ Sound(ses, svc)
    /\ TaskInv /\ LockInv /\ StateInv /\ RunInv /\ SnapInv /\ StageInv /\ CallInv /\ ClaimInv

-------------------------------------------------------------------------------
(***************************************************************************)
(* What each action does, said point by point and from the invariant.      *)
(***************************************************************************)

KeepsRt ==
    /\ rt' \in RuntimeType /\ rt'.st = rt.st /\ rt'.snap = rt.snap /\ rt'.pending = rt.pending
    /\ rt'.ctl = rt.ctl /\ rt'.degraded = rt.degraded /\ rt'.stale = rt.stale

WarmStep(t) ==
    /\ warmup' \in WarmUpType /\ warmup'.gen < stage'.next
    /\ t # Watcher => warmup'.gen = warmup.gen
    /\ t = Watcher /\ task'[t].pc \in {"warmCheck", "warmPrepare"} => warmup'.gen \in Gens

\* A step of a task that does not hold operation and does not take it.
AsideDoes(t) ==
    /\ LockStep(t) /\ task[t].pc \notin Critical /\ task'[t].pc \notin Critical
    /\ lock'.op = lock.op
    /\ KeepsRt /\ store' = store /\ host' = host /\ orphan' = orphan
    /\ quit' \in {"no", "asked", "done"}
    /\ Calms(ses, svc, ses', svc') /\ StageGrows(stage') /\ WarmStep(t)

\* A task takes operation.
EnterDoes(t) ==
    /\ LockStep(t) /\ lock.op = NoTask /\ lock'.op = t
    /\ RunsAs(task'[t], rt) /\ task'[t].pc \in {"factory", "stop"}
    /\ KeepsRt /\ UNCHANGED <<store, quit, stage, ses, svc, host, orphan>>
    /\ warmup' \in WarmUpType /\ warmup'.gen = warmup.gen

\* What the actions below the lock leave alone; none of them warms up.
Elsewhere(t) ==
    /\ UNCHANGED <<store, quit, warmup, orphan>>
    /\ task'[t].pc \notin {"warmCheck", "warmPrepare"}

\* The cores of a warm-up start, unless a Connect holds the claim.
WarmDoes ==
    /\ LockStep(Watcher) /\ task[Watcher].pc = "warmPrepare"
    /\ task'[Watcher].pc \notin Critical \cup {"warmCheck", "warmPrepare"}
    /\ lock'.op = lock.op /\ KeepsRt
    /\ UNCHANGED <<store, quit, stage, host, orphan>>
    /\ ses' \in SessionType /\ svc' \in ServiceType /\ Sound(ses', svc')
    /\ ses'.owner = ses.owner
    /\ svc'.gen \in {svc.gen, warmup.gen, NoGen} /\ (svc'.tun => svc.tun)
    /\ ses.owner \notin {NoGen, warmup.gen} => svc'.gen = svc.gen
    /\ warmup' \in WarmUpType /\ warmup'.gen \in {warmup.gen, NoGen}

\* connect_now gets a controller, or gives up.
FactoryDoes(t) ==
    /\ LockStep(t) /\ task[t].pc = "factory"
    /\ Elsewhere(t) /\ host' = host
    /\ Calms(ses, svc, ses', svc') /\ StageGrows(stage')
    /\ \/ KeepsRt /\ lock'.op = NoTask
       \/ /\ lock'.op = t /\ task'[t].pc \in {"claim", "hostOn"}
          /\ rt' \in RuntimeType /\ rt'.st = "Connecting" /\ rt'.snap = rt.snap
          /\ rt'.pending = rt.pending /\ rt'.stale = rt.stale
          /\ rt'.ctl.gen < stage'.next
          /\ task'[t].pc = "claim" => rt'.ctl.kind = "service" /\ stage'.of[rt'.ctl.gen] = rt.snap
          /\ task'[t].pc = "hostOn" => rt'.ctl.kind = "demand"

ClaimDoes(t) ==
    /\ LockStep(t) /\ task[t].pc = "claim" /\ task'[t].pc = "prepare"
    /\ Elsewhere(t) /\ UNCHANGED <<rt, stage, svc, host>>
    /\ ses' \in SessionType /\ Sound(ses', svc) /\ ses'.owner = rt.ctl.gen

\* The connection attempt ends without one.
GivesUp(t) ==
    /\ lock'.op = NoTask
    /\ rt' \in RuntimeType /\ rt'.st = "Ready" /\ rt'.snap = rt.snap
    /\ rt'.pending = rt.pending /\ rt'.ctl = rt.ctl /\ rt'.stale = rt.stale

\* It ends in an error that only a disconnect clears.
Fails(t) ==
    /\ lock'.op = NoTask
    /\ rt' \in RuntimeType /\ rt'.st = "Error" /\ rt'.degraded /\ rt'.ctl = rt.ctl

PrepareDoes(t) ==
    /\ LockStep(t) /\ task[t].pc = "prepare"
    /\ Elsewhere(t) /\ UNCHANGED <<stage, host>>
    /\ ses' \in SessionType /\ svc' \in ServiceType /\ Sound(ses', svc')
    /\ svc'.tun => svc.tun
    /\ \/ GivesUp(t)
       \/ /\ task'[t].pc = "tunOn" /\ rt' = rt
          /\ ses'.owner = ses.owner /\ svc'.gen \in {rt.ctl.gen, NoGen}

TunDoes(t) ==
    /\ LockStep(t) /\ task[t].pc = "tunOn"
    /\ Elsewhere(t) /\ UNCHANGED <<stage, host>>
    /\ ses' \in SessionType /\ svc' \in ServiceType /\ Sound(ses', svc')
    /\ \/ GivesUp(t) /\ ~svc'.tun
       \/ /\ task'[t].pc = "replay" /\ rt' = rt
          /\ ses'.owner = ses.owner /\ svc'.gen \in {svc.gen, NoGen}

HostDoes(t) ==
    /\ LockStep(t) /\ task[t].pc = "hostOn" /\ host' \in BOOLEAN
    /\ Elsewhere(t) /\ UNCHANGED <<stage, ses, svc>>
    /\ \/ GivesUp(t) /\ host' = host
       \/ Fails(t)
       \/ task'[t].pc = "replay" /\ rt' = rt

ReplayDoes(t) ==
    /\ LockStep(t) /\ task[t].pc = "replay"
    /\ Elsewhere(t) /\ UNCHANGED <<stage, ses, svc, host>>
    /\ \/ task'[t].pc = "rollback" /\ rt' = rt
       \/ /\ lock'.op = NoTask
          /\ rt' \in RuntimeType /\ rt'.st = "Connected" /\ rt'.snap = rt.snap
          /\ rt'.pending = rt.pending /\ rt'.ctl = rt.ctl /\ rt'.stale = rt.stale

\* Supervisor.disconnect: ok says that it answered Ok.
StopsCores(ok) ==
    /\ ses' \in SessionType /\ svc' \in ServiceType /\ Sound(ses', svc') /\ host' \in BOOLEAN
    /\ rt.ctl.kind = "service" => /\ host' = host /\ (svc'.tun => svc.tun)
                                  /\ ok => ~svc'.tun
    /\ rt.ctl.kind # "service" => /\ svc' = svc /\ (host' => host)
                                  /\ ok => ~host'

\* A stop that worked ends in Ready or in a runtime rebuilt from the store; a
\* deletion keeps operation.
StopDoes(t) ==
    /\ LockStep(t) /\ task[t].pc \in {"rollback", "stop"}
    /\ Elsewhere(t) /\ stage' = stage
    /\ \/ StopsCores(FALSE) /\ Fails(t)
       \/ StopsCores(TRUE) /\ GivesUp(t) /\ task[t].pc = "rollback"
       \/ /\ StopsCores(TRUE) /\ lock'.op = NoTask /\ Rebuild(rt', ActiveSnap(store))
          /\ rt'.ctl = NoController
       \/ /\ StopsCores(TRUE) /\ task'[t].pc = "commit" /\ task[t].op = "Delete"
          /\ task[t].pc = "stop"
          /\ rt' \in RuntimeType /\ rt'.st = "Ready" /\ rt'.snap = rt.snap
          /\ rt'.pending = rt.pending /\ rt'.ctl = rt.ctl /\ rt'.stale = rt.stale

\* A mutation of the store, with what it makes of the runtime: it rebuilds it,
\* falls behind, is not about the active profile, or leaves it pending.
CommitDoes(t) ==
    /\ LockStep(t) /\ lock'.op = NoTask /\ lock.op \in {t, NoTask}
    /\ task[t].pc \in {"mutate", "commit"}
    /\ task'[t].pc \notin {"warmCheck", "warmPrepare"}
    /\ StoreOK(store')
    /\ Calms(ses, svc, ses', svc') /\ StageGrows(stage')
    /\ UNCHANGED <<quit, warmup, host, orphan>>
    /\ rt' \in RuntimeType
    /\ \/ /\ Rebuild(rt', ActiveSnap(store')) /\ rt'.ctl.gen < stage'.next
          /\ rt.st \in {"Empty", "Ready"}
       \/ /\ rt'.st = rt.st /\ rt'.snap = rt.snap /\ rt'.ctl = rt.ctl
          /\ rt'.degraded = rt.degraded /\ rt'.stale
       \/ KeepsRt /\ ActiveSnap(store') = ActiveSnap(store)
       \/ /\ rt'.st = rt.st /\ rt'.snap = rt.snap /\ rt'.ctl = rt.ctl
          /\ rt'.degraded = rt.degraded
          /\ rt'.pending = ActiveSnap(store') /\ rt'.pending # NoSnap

SelectDoes ==
    /\ lock.op = NoTask /\ rt.st \in {"Ready", "Connected"} /\ rt' = MarkError(rt)
    /\ UNCHANGED <<store, quit, lock, task, warmup, stage, ses, svc, host, orphan>>

\* A dropped request: its locks are free, its connection attempt an error.
AbandonDoes(t) ==
    /\ LockStep(t) /\ t # Watcher /\ task'[t].pc = "idle"
    /\ lock'.op = IF lock.op = t THEN NoTask ELSE lock.op
    /\ rt' = IF rt.st = "Connecting" /\ lock.op = t THEN MarkError(rt) ELSE rt
    /\ UNCHANGED <<store, quit, warmup, stage, ses, svc>>
    /\ task[t].pc \notin {"factory", "commit"}
    /\ host' \in BOOLEAN /\ (host' => host \/ task[t].pc = "hostOn")
    /\ orphan' \in OrphanType
    /\ \/ orphan' = orphan /\ ~(task[t].pc \in Calls /\ rt.ctl.kind = "service")
       \/ /\ MaxOrphans = 1 /\ orphan.pc = "none" /\ orphan'.pc \in Calls
          /\ orphan'.gen \in Gens

\* The call that outlived its request.
OrphanDoes ==
    /\ orphan.pc \in Calls /\ orphan' \in OrphanType
    /\ UNCHANGED <<store, rt, quit, lock, task, warmup, stage, host>>
    /\ ses' \in SessionType /\ svc' \in ServiceType /\ Sound(ses', svc')
    /\ \/ orphan'.pc = "prepare" /\ orphan'.gen = orphan.gen /\ orphan.pc = "claim" /\ svc' = svc
       \/ orphan'.pc = "none" /\ (svc'.tun => svc.tun)
       \/ orphan'.pc = "late"

\* What the service does by itself.
ServiceDoes ==
    /\ KeepsRt /\ ses' = ses /\ Calms(ses, svc, ses', svc')
    /\ UNCHANGED <<store, quit, lock, task, warmup, stage, host, orphan>>

\* What the invariant says in the words the effects below use.
LEMMA InvGives ==
  ASSUME DaemonInv
  PROVE  /\ store \in StoreType /\ rt \in RuntimeType /\ quit \in {"no", "asked", "done"}
         /\ lock \in LockType /\ task \in [Tasks -> TaskType] /\ warmup \in WarmUpType
         /\ stage \in StageType /\ ses \in SessionType /\ svc \in ServiceType
         /\ host \in BOOLEAN /\ orphan \in OrphanType
         /\ StoreOK(store) /\ Sound(ses, svc)
         /\ Watcher \in Tasks /\ NoTask \notin Tasks /\ Requests \subseteq Tasks
         /\ \A t \in Tasks : TaskOK(t, task[t]) /\ RunsAs(task[t], rt)
         /\ \A t \in Tasks : task[t].pc \in Critical <=> lock.op = t
         /\ lock.switch # NoTask => HolderOK(task[lock.switch])
         /\ Calms(ses, svc, ses, svc) /\ StageGrows(stage)
         /\ warmup.gen < stage.next /\ rt.ctl.gen < stage.next /\ stage.gen < stage.next
<1>1. /\ store \in StoreType /\ rt \in RuntimeType /\ quit \in {"no", "asked", "done"}
      /\ lock \in LockType /\ task \in [Tasks -> TaskType] /\ warmup \in WarmUpType
      /\ stage \in StageType /\ ses \in SessionType /\ svc \in ServiceType
      /\ host \in BOOLEAN /\ orphan \in OrphanType
  BY TypeIs DEF DaemonInv
<1>2. StageGrows(stage)
  BY <1>1, StageIs, SnapIs DEF DaemonInv, StageInv
<1>3. Calms(ses, svc, ses, svc)
  BY <1>1 DEF Calms, DaemonInv
<1> QED
  BY <1>1, <1>2, <1>3, ConnectionAssumption
     DEF DaemonInv, Tasks, TaskInv, LockInv, StateInv, StageInv

\* A task without operation goes on, or ends, without it.
LEMMA AsideMoves ==
  ASSUME DaemonInv, NEW t \in Tasks, task[t].pc \notin Critical, lock' = lock,
         NEW pc \in Pcs, pc \notin Critical, Moves(t, pc),
         pc = "switch" => task[t].op \in SwitchOps,
         pc = "pause" => task[t].op \in {"Activate", "Refresh"},
         pc = "disconnect" => task[t].op \in {"Disconnect", "Quit", "Activate", "Refresh"},
         lock.switch = t => pc \in Holding /\ (pc = "mutate" => task[t].op = "Activate")
  PROVE  LockStep(t) /\ task'[t].pc = pc /\ lock'.op = lock.op
BY InvGives DEF Moves, LockStep, TaskOK, HolderOK

\* A task that holds neither lock may come to rest beside the others.
LEMMA AsideRests ==
  ASSUME DaemonInv, NEW t \in Tasks, task[t].pc \notin Critical, Rests(t),
         lock' \in LockType, lock'.op = lock.op,
         lock'.switch \in {lock.switch, NoTask}, lock'.switch # t
  PROVE  LockStep(t) /\ task'[t].pc = "idle" /\ lock'.op = lock.op
BY InvGives DEF Rests, LockStep, TaskOK, Critical

\* A task gives operation up, or found it free and did not keep it.
LEMMA LeftStep ==
  ASSUME DaemonInv, NEW t \in Tasks, lock.op \in {t, NoTask},
         NEW pc \in Pcs, pc \notin Critical \cup {"pause", "disconnect"}, Left(t, pc),
         pc = "switch" => task[t].op \in SwitchOps,
         pc # "idle" /\ lock.switch = t =>
            pc \in Holding /\ (pc = "mutate" => task[t].op = "Activate")
  PROVE  LockStep(t) /\ task'[t].pc = pc /\ lock'.op = NoTask
<1>1. CASE pc = "idle"
  BY <1>1, InvGives DEF Left, Rests, LockStep, TaskOK, Critical
<1>2. CASE pc # "idle"
  BY <1>2, InvGives DEF Left, Moves, LockStep, TaskOK, HolderOK
<1> QED
  BY <1>1, <1>2

\* A task takes operation, and goes on with it.
LEMMA EnterStep ==
  ASSUME DaemonInv, NEW t \in Tasks, lock.op = NoTask, lock' = [lock EXCEPT !.op = t],
         NEW pc \in Critical, Moves(t, pc)
  PROVE  LockStep(t) /\ task'[t].pc = pc /\ lock'.op = t
<1>1. lock' \in LockType /\ lock'.op = t /\ lock'.switch = lock.switch
  BY InvGives DEF LockType
<1> QED
  BY <1>1, InvGives DEF Moves, LockStep, TaskOK, HolderOK, Critical

\* The holder of the operation lock moves between critical steps and keeps it.
LEMMA WithinStep ==
  ASSUME DaemonInv, NEW t \in Tasks, lock.op = t, lock' = lock,
         NEW pc \in Critical, Moves(t, pc)
  PROVE  LockStep(t) /\ task'[t].pc = pc /\ lock'.op = t
BY InvGives DEF Moves, LockStep, TaskOK, HolderOK, Critical

\* A request arrives: it may find generation_change free and take it.
LEMMA StartStep ==
  ASSUME DaemonInv, NEW r \in Requests, task[r].pc = "idle",
         NEW op \in AllOps \cup {"ImportLive"}, NEW p \in Profiles \cup {NoProfile},
         NEW pc \in Pcs, pc \notin Critical, Start(r, op, p, pc),
         pc = "switch" => op \in SwitchOps, pc # "pause",
         pc = "disconnect" => op = "Quit",
         op \in {"Import", "ImportLive"} => p \in Profiles,
         \/ lock' = lock
         \/ lock' = [lock EXCEPT !.switch = r] /\ lock.switch = NoTask
            /\ pc = "connect" /\ op = "Connect"
  PROVE  LockStep(r) /\ task'[r].pc = pc /\ task[r].pc \notin Critical /\ lock'.op = lock.op
<1>1. /\ task' \in [Tasks -> TaskType] /\ \A u \in Tasks : u # r => task'[u] = task[u]
      /\ task'[r].pc = pc /\ task'[r].op = op /\ task'[r].arg = p
  BY InvGives DEF Start, TaskType
<1>2. r # Watcher /\ r \in Tasks /\ op # "Watch"
  BY ConnectionAssumption DEF Tasks, AllOps
<1>3. /\ lock' \in LockType /\ lock'.op = lock.op /\ lock'.switch \in {lock.switch, r}
      /\ lock'.switch = r => lock.switch = r \/ (pc = "connect" /\ op = "Connect")
  BY <1>2, InvGives DEF LockType
<1>4. lock.switch # r /\ task[r].pc \notin Critical
  BY <1>2, InvGives DEF HolderOK, Critical, Holding
<1>5. TaskOK(r, task'[r])
  BY <1>1, <1>2 DEF TaskOK
<1>6. lock'.switch = r => HolderOK(task'[r])
  BY <1>1, <1>3, <1>4 DEF HolderOK, Holding, SwitchOps
<1> QED
  BY <1>1, <1>2, <1>3, <1>4, <1>5, <1>6, InvGives DEF LockStep

\* The rest of an Aside step that moves the tasks and the locks only.
LEMMA AsideQuiet ==
  ASSUME DaemonInv, NEW t \in Tasks, LockStep(t), task[t].pc \notin Critical,
         task'[t].pc \notin Critical \cup {"warmCheck", "warmPrepare"}, lock'.op = lock.op,
         KeepsRt, quit' \in {"no", "asked", "done"},
         warmup' \in WarmUpType, warmup'.gen = warmup.gen,
         UNCHANGED <<store, stage, ses, svc, host, orphan>>
  PROVE  AsideDoes(t)
BY InvGives DEF AsideDoes, WarmStep

\* A field of the runtime the invariant does not speak of.
LEMMA KeepsIs ==
  ASSUME NEW r \in RuntimeType, NEW b \in BOOLEAN
  PROVE  /\ rt = r /\ rt' = r => KeepsRt
         /\ rt = r /\ rt' = [r EXCEPT !.again = b] => KeepsRt
         /\ rt = r /\ rt' = [r EXCEPT !.cooling = b] => KeepsRt
BY DEF KeepsRt, RuntimeType

\* A request that arrives takes no lock; select alone commits at once.
LEMMA ArriveEffect ==
  ASSUME DaemonInv, NEW r \in Requests, Arrive(r)
  PROVE  AsideDoes(r) \/ SelectDoes
<1> USE DEF Free
<1>0. /\ r \in Tasks /\ NoProfile \in Profiles \cup {NoProfile}
      /\ \A p \in store.present : p \in Profiles
      /\ rt \in RuntimeType /\ warmup \in WarmUpType
  BY InvGives DEF Tasks, StoreType
<1>q. ASSUME NEW pc, LockStep(r) /\ task'[r].pc = pc /\ task[r].pc \notin Critical,
             lock'.op = lock.op, pc \notin Critical \cup {"warmCheck", "warmPrepare"},
             KeepsRt, quit' \in {"no", "asked", "done"},
             UNCHANGED <<store, warmup, stage, ses, svc, host, orphan>>
      PROVE  AsideDoes(r)
  BY <1>0, <1>q, AsideQuiet
<1>1. CASE ArriveConnect(r)
  <2>1. KeepsRt
    BY <1>0, <1>1, KeepsIs DEF ArriveConnect
  <2>2. CASE lock' = lock /\ Start(r, "Connect", NoProfile, "switch")
    <3>1. /\ LockStep(r) /\ task'[r].pc = "switch"
          /\ task[r].pc \notin Critical /\ lock'.op = lock.op
      BY <1>0, <1>1, <2>2, StartStep DEF ArriveConnect, AllOps, Pcs, Critical, SwitchOps
    <3> QED
      BY <1>1, <1>q, <2>1, <3>1, InvGives DEF ArriveConnect, Critical
  <2>3. CASE /\ lock' = [lock EXCEPT !.switch = r] /\ lock.switch = NoTask
             /\ Start(r, "Connect", NoProfile, "connect")
    <3>1. /\ LockStep(r) /\ task'[r].pc = "connect"
          /\ task[r].pc \notin Critical /\ lock'.op = lock.op
      BY <1>0, <1>1, <2>3, StartStep DEF ArriveConnect, AllOps, Pcs, Critical
    <3> QED
      BY <1>1, <1>q, <2>1, <3>1, InvGives DEF ArriveConnect, Critical
  <2> QED
    BY <1>1, <2>2, <2>3 DEF ArriveConnect
<1>2. CASE ArriveDisconnect(r)
  <2>1. KeepsRt
    BY <1>0, <1>2, KeepsIs DEF ArriveDisconnect
  <2>2. LockStep(r) /\ task'[r].pc = "switch" /\ task[r].pc \notin Critical /\ lock'.op = lock.op
    BY <1>0, <1>2, StartStep DEF ArriveDisconnect, AllOps, Pcs, Critical, SwitchOps
  <2> QED
    BY <1>2, <1>q, <2>1, <2>2, InvGives DEF ArriveDisconnect, Critical
<1>3. CASE ArriveQuit(r)
  <2>1. LockStep(r) /\ task'[r].pc = "disconnect" /\ task[r].pc \notin Critical
        /\ lock'.op = lock.op
    BY <1>0, <1>3, StartStep DEF ArriveQuit, AllOps, Pcs, Critical
  <2>2. KeepsRt
    BY <1>0, <1>3, KeepsIs DEF ArriveQuit
  <2> QED
    BY <1>3, <1>q, <2>1, <2>2 DEF ArriveQuit, Critical
<1>4. CASE ArriveActivate(r)
  <2>1. PICK p \in store.present : Start(r, "Activate", p, "switch")
    BY <1>4 DEF ArriveActivate
  <2>2. LockStep(r) /\ task'[r].pc = "switch" /\ task[r].pc \notin Critical /\ lock'.op = lock.op
    BY <1>0, <1>4, <2>1, StartStep DEF ArriveActivate, AllOps, Pcs, Critical, SwitchOps
  <2>3. KeepsRt
    BY <1>0, <1>4, KeepsIs DEF ArriveActivate
  <2> QED
    BY <1>4, <1>q, <2>2, <2>3, InvGives DEF ArriveActivate, Critical
<1>5. CASE ArriveRefresh(r)
  <2>1. PICK p \in store.present \cup {NoProfile} : Start(r, "Refresh", p, "fetch")
    BY <1>5 DEF ArriveRefresh
  <2>2. LockStep(r) /\ task'[r].pc = "fetch" /\ task[r].pc \notin Critical /\ lock'.op = lock.op
    BY <1>0, <1>5, <2>1, StartStep DEF ArriveRefresh, AllOps, Pcs, Critical
  <2>3. KeepsRt
    BY <1>0, <1>5, KeepsIs DEF ArriveRefresh
  <2> QED
    BY <1>5, <1>q, <2>2, <2>3, InvGives DEF ArriveRefresh, Critical
<1>6. CASE ArriveReplace(r)
  <2>1. PICK p \in store.present : Start(r, "Replace", p, "mutate")
    BY <1>6 DEF ArriveReplace
  <2>2. LockStep(r) /\ task'[r].pc = "mutate" /\ task[r].pc \notin Critical /\ lock'.op = lock.op
    BY <1>0, <1>6, <2>1, StartStep DEF ArriveReplace, AllOps, Pcs, Critical
  <2>3. KeepsRt
    BY <1>0, <1>6, KeepsIs DEF ArriveReplace
  <2> QED
    BY <1>6, <1>q, <2>2, <2>3, InvGives DEF ArriveReplace, Critical
<1>7. CASE ArriveDelete(r)
  <2>1. PICK p \in store.present : Start(r, "Delete", p, "mutate")
    BY <1>7 DEF ArriveDelete
  <2>2. LockStep(r) /\ task'[r].pc = "mutate" /\ task[r].pc \notin Critical /\ lock'.op = lock.op
    BY <1>0, <1>7, <2>1, StartStep DEF ArriveDelete, AllOps, Pcs, Critical
  <2>3. KeepsRt
    BY <1>0, <1>7, KeepsIs DEF ArriveDelete
  <2> QED
    BY <1>7, <1>q, <2>2, <2>3, InvGives DEF ArriveDelete, Critical
<1>8. CASE ArriveImport(r)
  <2>1. PICK p \in Profiles :
          \/ Start(r, "Refresh", NoProfile, "fetch") \/ Start(r, "ImportLive", p, "fetch")
          \/ Start(r, "Import", p, "mutate")
    BY <1>8 DEF ArriveImport
  <2>2. /\ LockStep(r) /\ task'[r].pc \in {"fetch", "mutate"}
        /\ task[r].pc \notin Critical /\ lock'.op = lock.op
    <3>1. CASE Start(r, "Refresh", NoProfile, "fetch")
      BY <1>0, <1>8, <3>1, StartStep DEF ArriveImport, AllOps, Pcs, Critical
    <3>2. CASE Start(r, "ImportLive", p, "fetch")
      BY <1>0, <1>8, <3>2, StartStep DEF ArriveImport, AllOps, Pcs, Critical
    <3>3. CASE Start(r, "Import", p, "mutate")
      BY <1>0, <1>8, <3>3, StartStep DEF ArriveImport, AllOps, Pcs, Critical
    <3> QED
      BY <2>1, <3>1, <3>2, <3>3
  <2>3. KeepsRt
    BY <1>0, <1>8, KeepsIs DEF ArriveImport
  <2> QED
    BY <1>8, <1>q, <2>2, <2>3, InvGives DEF ArriveImport, Critical
<1>9. CASE Select(r)
  BY <1>9 DEF Select, SelectDoes
<1> QED
  BY <1>1, <1>2, <1>3, <1>4, <1>5, <1>6, <1>7, <1>8, <1>9 DEF Arrive

\* The action Fetch does what AsideDoes says.
LEMMA FetchEffect ==
  ASSUME DaemonInv, NEW t \in Tasks, Fetch(t)
  PROVE  AsideDoes(t)
<1>1. /\ task[t].pc = "fetch" /\ lock' = lock /\ KeepsRt /\ lock.switch # t
      /\ task[t].pc \notin Critical /\ lock' \in LockType
  BY InvGives, KeepsIs DEF Fetch, HolderOK, Critical, Holding
<1>2. CASE Go(t, "mutate")
  <2>1. Moves(t, "mutate")
    BY <1>2, InvGives, GoIs DEF Pcs
  <2>2. LockStep(t) /\ task'[t].pc = "mutate" /\ lock'.op = lock.op
    BY <1>1, <2>1, AsideMoves DEF Pcs, Critical
  <2> QED
    BY <1>1, <2>2, InvGives, AsideQuiet DEF Fetch, Critical
<1>3. CASE task' = Idle(t)
  <2>1. Rests(t)
    BY <1>3, InvGives, IdleIs
  <2>2. LockStep(t) /\ task'[t].pc = "idle" /\ lock'.op = lock.op
    BY <1>1, <2>1, AsideRests
  <2> QED
    BY <1>1, <2>2, InvGives, AsideQuiet DEF Fetch, Critical
<1> QED
  BY <1>2, <1>3 DEF Fetch

\* The action TakeSwitch does what AsideDoes says.
LEMMA TakeSwitchEffect ==
  ASSUME DaemonInv, NEW t \in Tasks, TakeSwitch(t)
  PROVE  AsideDoes(t)
<1>1. /\ task[t].pc = "switch" /\ lock.switch = NoTask /\ lock.switch # t
      /\ task[t].pc \notin Critical /\ lock \in LockType /\ task[t].op \in SwitchOps
      /\ task \in [Tasks -> TaskType]
  BY InvGives DEF TakeSwitch, HolderOK, Critical, TaskOK
<1>2. KeepsRt
  <2>1. (rt.cooling \/ task[t].op = "Watch") \in BOOLEAN
    OBVIOUS
  <2>2. rt' = [rt EXCEPT !.cooling = (rt.cooling \/ task[t].op = "Watch")]
    BY DEF TakeSwitch
  <2> QED
    BY <2>1, <2>2, InvGives, KeepsIs
<1>3. CASE task' = Idle(t) /\ lock' = lock
  <2>1. Rests(t)
    BY <1>3, <1>1, IdleIs
  <2>2. LockStep(t) /\ task'[t].pc = "idle" /\ lock'.op = lock.op
    BY <1>1, <1>3, <2>1, AsideRests
  <2> QED
    BY <1>1, <1>2, <2>2, InvGives, AsideQuiet DEF TakeSwitch, Critical
<1>4. CASE /\ lock' = [lock EXCEPT !.switch = t]
           /\ Go(t, CASE task[t].op \in {"Connect", "Watch"} -> "connect"
                      [] task[t].op = "Disconnect" -> "disconnect"
                      [] OTHER -> "pause")
  <2> DEFINE pc == CASE task[t].op \in {"Connect", "Watch"} -> "connect"
                     [] task[t].op = "Disconnect" -> "disconnect"
                     [] OTHER -> "pause"
  <2>1. /\ pc \in {"connect", "disconnect", "pause"}
        /\ pc = "disconnect" => task[t].op = "Disconnect"
        /\ pc = "pause" => task[t].op \in {"Activate", "Refresh"}
    BY <1>1 DEF SwitchOps
  <2>2. Go(t, pc)
    BY <1>4
  <2> HIDE DEF pc
  <2>3. Moves(t, pc)
    BY <1>1, <2>1, <2>2, GoIs DEF Pcs
  <2>4. lock' \in LockType /\ lock'.op = lock.op /\ lock'.switch = t
    BY <1>1, <1>4 DEF LockType
  <2>5. LockStep(t)
    BY <1>1, <2>1, <2>3, <2>4, InvGives
       DEF Moves, LockStep, TaskOK, HolderOK, Holding, Critical
  <2>6. task'[t].pc = pc /\ pc \notin Critical \cup {"warmCheck", "warmPrepare"}
    BY <2>1, <2>3 DEF Moves, Critical
  <2> QED
    BY <1>1, <1>2, <2>4, <2>5, <2>6, InvGives, AsideQuiet DEF TakeSwitch
<1> QED
  BY <1>3, <1>4 DEF TakeSwitch

\* The action Pause does what AsideDoes says.
LEMMA PauseEffect ==
  ASSUME DaemonInv, NEW t \in Tasks, Pause(t)
  PROVE  AsideDoes(t)
<1>1. /\ task[t].pc = "pause" /\ lock' = lock /\ KeepsRt
      /\ task[t].pc \notin Critical /\ task[t].op \in {"Activate", "Refresh"}
  BY InvGives, KeepsIs DEF Pause, TaskOK, Critical
<1>2. PICK pc \in {"disconnect", "mutate", "resume"} :
        Go(t, pc) /\ (pc = "mutate" => task[t].op = "Activate")
  BY DEF Pause
<1>3. Moves(t, pc)
  BY <1>2, InvGives, GoIs DEF Pcs
<1>4. LockStep(t) /\ task'[t].pc = pc /\ lock'.op = lock.op
  BY <1>1, <1>2, <1>3, AsideMoves DEF Pcs, Critical, Holding
<1> QED
  BY <1>1, <1>2, <1>4, InvGives, AsideQuiet DEF Pause, Critical

\* The action Resume does what AsideDoes says.
LEMMA ResumeEffect ==
  ASSUME DaemonInv, NEW t \in Tasks, Resume(t)
  PROVE  AsideDoes(t)
<1>1. task[t].pc = "resume" /\ KeepsRt /\ task[t].pc \notin Critical
  BY InvGives, KeepsIs DEF Resume, Critical
<1>2. CASE Go(t, "connect") /\ lock' = lock
  <2>1. Moves(t, "connect")
    BY <1>2, InvGives, GoIs DEF Pcs
  <2>2. LockStep(t) /\ task'[t].pc = "connect" /\ lock'.op = lock.op
    BY <1>1, <1>2, <2>1, AsideMoves DEF Pcs, Critical, Holding
  <2> QED
    BY <1>1, <2>2, InvGives, AsideQuiet DEF Resume, Critical
<1>3. CASE task' = Idle(t) /\ lock' = [lock EXCEPT !.switch = NoTask]
  <2>1. Rests(t)
    BY <1>3, InvGives, IdleIs
  <2>2. lock' \in LockType /\ lock'.op = lock.op /\ lock'.switch = NoTask /\ t # NoTask
    BY <1>3, InvGives DEF LockType
  <2>3. LockStep(t) /\ task'[t].pc = "idle" /\ lock'.op = lock.op
    BY <1>1, <2>1, <2>2, AsideRests
  <2> QED
    BY <1>1, <2>3, InvGives, AsideQuiet DEF Resume, Critical
<1> QED
  BY <1>2, <1>3 DEF Resume

\* The action ConnectBegin does what AsideDoes or EnterDoes says.
LEMMA ConnectBeginEffect ==
  ASSUME DaemonInv, NEW t \in Tasks, ConnectBegin(t)
  PROVE  AsideDoes(t) \/ EnterDoes(t)
<1>1. /\ task[t].pc = "connect" /\ lock.op = NoTask /\ KeepsRt /\ task[t].pc \notin Critical
  BY InvGives, KeepsIs DEF ConnectBegin, Critical
<1>2. warmup' \in WarmUpType /\ warmup'.gen = warmup.gen
  <2>1. (warmup # NoWarmUp) \in BOOLEAN
    OBVIOUS
  <2> QED
    BY <2>1, InvGives DEF ConnectBegin, WarmUpType
<1>3. CASE Go(t, "factory") /\ lock' = [lock EXCEPT !.op = t] /\ rt.st = "Ready"
  <2>1. Moves(t, "factory")
    BY <1>3, InvGives, GoIs DEF Pcs
  <2>2. LockStep(t) /\ task'[t].pc = "factory" /\ lock'.op = t
    BY <1>1, <1>3, <2>1, EnterStep DEF Critical
  <2>3. RunsAs(task'[t], rt)
    BY <1>3, <2>2 DEF RunsAs, Connecting
  <2> QED
    BY <1>1, <1>2, <2>2, <2>3 DEF ConnectBegin, EnterDoes
<1>4. CASE Leave(t, After(t, "connect"))
  <2>1. Left(t, "idle")
    BY <1>4, InvGives, AfterIs, LeaveIs DEF Pcs
  <2>2. LockStep(t) /\ task'[t].pc = "idle" /\ lock'.op = NoTask
    BY <1>1, <2>1, LeftStep DEF Pcs, Critical
  <2> QED
    BY <1>1, <1>2, <2>2, InvGives, AsideQuiet DEF ConnectBegin, Critical
<1> QED
  BY <1>3, <1>4 DEF ConnectBegin

\* What follows a disconnect is a step the task may be at.
LEMMA AfterStop ==
  ASSUME DaemonInv, NEW t \in Tasks, lock.op \in {t, NoTask}, Left(t, After(t, "disconnect"))
  PROVE  /\ LockStep(t) /\ lock'.op = NoTask
         /\ task'[t].pc \notin Critical \cup {"warmCheck", "warmPrepare"}
<1> DEFINE pc == After(t, "disconnect")
<1>1. /\ pc \in {"idle", "release", "mutate", "resume"}
      /\ pc = "mutate" => task[t].op = "Activate"
      /\ pc = "release" => task[t].op = "Quit"
  BY InvGives, AfterIs
<1>2. pc = "release" => lock.switch # t
  BY <1>1, InvGives DEF HolderOK, SwitchOps
<1> HIDE DEF pc
<1>3. Left(t, pc)
  BY DEF pc
<1>4. LockStep(t) /\ task'[t].pc = pc /\ lock'.op = NoTask
  BY <1>1, <1>2, <1>3, LeftStep DEF Pcs, Critical, Holding
<1> QED
  BY <1>1, <1>4 DEF Critical

\* The action DisconnectBegin does what AsideDoes or EnterDoes says.
LEMMA DisconnectBeginEffect ==
  ASSUME DaemonInv, NEW t \in Tasks, DisconnectBegin(t)
  PROVE  AsideDoes(t) \/ EnterDoes(t)
<1>1. /\ task[t].pc = "disconnect" /\ lock.op = NoTask /\ KeepsRt /\ task[t].pc \notin Critical
      /\ task[t].op \notin {"Delete", "Watch"}
  BY InvGives, KeepsIs DEF DisconnectBegin, Critical, TaskOK
<1>3. CASE Go(t, "stop") /\ lock' = [lock EXCEPT !.op = t] /\ rt.st \notin {"Empty", "Ready"}
  <2>1. Moves(t, "stop")
    BY <1>3, InvGives, GoIs DEF Pcs
  <2>2. LockStep(t) /\ task'[t].pc = "stop" /\ lock'.op = t
    BY <1>1, <1>3, <2>1, EnterStep DEF Critical
  <2>3. RunsAs(task'[t], rt)
    BY <1>1, <1>3, <2>1 DEF RunsAs, Connecting, Moves
  <2> QED
    BY <1>1, <2>2, <2>3, InvGives DEF DisconnectBegin, EnterDoes
<1>4. CASE LeaveStopped(t, rt.st \in {"Empty", "Ready"})
  <2>1. Left(t, After(t, "disconnect"))
    <3>1. (rt.st \in {"Empty", "Ready"}) \in BOOLEAN
      OBVIOUS
    <3> QED
      BY <1>4, <3>1, InvGives, LeaveStoppedIs
  <2> QED
    BY <1>1, <2>1, InvGives, AfterStop, AsideQuiet DEF DisconnectBegin
<1> QED
  BY <1>3, <1>4 DEF DisconnectBegin

\* The action LostBegin does what AsideDoes or EnterDoes says.
LEMMA LostBeginEffect ==
  ASSUME DaemonInv, LostBegin
  PROVE  AsideDoes(Watcher) \/ EnterDoes(Watcher)
<1>1. /\ task[Watcher].pc = "lost" /\ lock.op = NoTask /\ KeepsRt
      /\ task[Watcher].pc \notin Critical /\ lock.switch # Watcher
  BY InvGives, KeepsIs DEF LostBegin, Critical, HolderOK, Holding
<1>2. CASE Go(Watcher, "stop") /\ lock' = [lock EXCEPT !.op = Watcher] /\ rt.st = "Connected"
  <2>1. Moves(Watcher, "stop")
    BY <1>2, InvGives, GoIs DEF Pcs
  <2>2. LockStep(Watcher) /\ task'[Watcher].pc = "stop" /\ lock'.op = Watcher
    BY <1>1, <1>2, <2>1, InvGives, EnterStep DEF Critical
  <2>3. RunsAs(task'[Watcher], rt)
    BY <1>2, <2>2 DEF RunsAs, Connecting
  <2> QED
    BY <1>1, <2>2, <2>3, InvGives DEF LostBegin, EnterDoes
<1>3. CASE Go(Watcher, "idle") /\ lock' = lock
  <2>1. Moves(Watcher, "idle")
    BY <1>3, InvGives, GoIs DEF Pcs
  <2>2. LockStep(Watcher) /\ task'[Watcher].pc = "idle" /\ lock'.op = lock.op
    BY <1>1, <1>3, <2>1, InvGives, AsideMoves DEF Pcs, Critical
  <2> QED
    BY <1>1, <2>2, InvGives, AsideQuiet DEF LostBegin, Critical
<1> QED
  BY <1>2, <1>3 DEF LostBegin

\* The action DeleteBegin does what EnterDoes says.
LEMMA DeleteBeginEffect ==
  ASSUME DaemonInv, NEW t \in Tasks, DeleteBegin(t)
  PROVE  EnterDoes(t)
<1>1. lock.op = NoTask /\ KeepsRt /\ rt.st = "Connected"
  BY InvGives, KeepsIs DEF DeleteBegin, Locked
<1>2. Moves(t, "stop")
  BY InvGives, GoIs DEF Pcs, DeleteBegin
<1>3. LockStep(t) /\ task'[t].pc = "stop" /\ lock'.op = t
  BY <1>1, <1>2, EnterStep DEF Critical, DeleteBegin
<1>4. RunsAs(task'[t], rt)
  BY <1>1, <1>3 DEF RunsAs, Connecting
<1> QED
  BY <1>1, <1>3, <1>4, InvGives DEF DeleteBegin, EnterDoes

\* The action MutateRefused does what AsideDoes says.
LEMMA MutateRefusedEffect ==
  ASSUME DaemonInv, NEW t \in Tasks, MutateRefused(t)
  PROVE  AsideDoes(t)
<1>1. /\ task[t].pc = "mutate" /\ lock' = lock /\ KeepsRt /\ task[t].pc \notin Critical
      /\ lock.switch = t => task[t].op = "Activate"
  BY InvGives, KeepsIs DEF MutateRefused, Critical, HolderOK
<1>2. CASE Go(t, "resume")
  <2>1. Moves(t, "resume")
    BY <1>2, InvGives, GoIs DEF Pcs
  <2>2. LockStep(t) /\ task'[t].pc = "resume" /\ lock'.op = lock.op
    BY <1>1, <2>1, AsideMoves DEF Pcs, Critical, Holding
  <2> QED
    BY <1>1, <2>2, InvGives, AsideQuiet DEF MutateRefused, Critical
<1>3. CASE task' = Idle(t) /\ task[t].op # "Activate"
  <2>1. Rests(t)
    BY <1>3, InvGives, IdleIs
  <2>2. LockStep(t) /\ task'[t].pc = "idle" /\ lock'.op = lock.op
    BY <1>1, <1>3, <2>1, InvGives, AsideRests
  <2> QED
    BY <1>1, <2>2, InvGives, AsideQuiet DEF MutateRefused, Critical
<1> QED
  BY <1>2, <1>3 DEF MutateRefused

\* What follows a mutation is a step the task may be at.
LEMMA AfterMutation ==
  ASSUME DaemonInv, NEW t \in Tasks, lock.op \in {t, NoTask}, NEW pc, Left(t, pc),
         pc = "idle" \/ (pc = After(t, "mutate") /\ task[t].pc = "mutate")
  PROVE  /\ LockStep(t) /\ lock'.op = NoTask
         /\ task'[t].pc \notin Critical \cup {"warmCheck", "warmPrepare"}
<1>1. pc \in {"idle", "switch", "resume"} /\ (pc = "switch" => task[t].op = "Refresh")
  BY InvGives, AfterIs
<1>2. pc = "switch" => lock.switch # t
  BY <1>1, InvGives DEF HolderOK
<1>3. LockStep(t) /\ task'[t].pc = pc /\ lock'.op = NoTask
  BY <1>1, <1>2, LeftStep DEF Pcs, Critical, Holding, SwitchOps
<1> QED
  BY <1>1, <1>3 DEF Critical

\* The next steps after a mutation are steps.
LEMMA AfterMutationPc ==
  ASSUME DaemonInv, NEW t \in Tasks, NEW pc, Leave(t, pc),
         pc = "idle" \/ pc = After(t, "mutate")
  PROVE  Left(t, pc)
<1>1. pc \in Pcs
  BY InvGives, AfterIs DEF Pcs
<1> QED
  BY <1>1, InvGives, LeaveIs

\* The action MutateFails does what AsideDoes says.
LEMMA MutateFailsEffect ==
  ASSUME DaemonInv, NEW t \in Tasks, MutateFails(t)
  PROVE  AsideDoes(t)
<1>1. task[t].pc = "mutate" /\ lock.op = NoTask /\ KeepsRt /\ task[t].pc \notin Critical
  BY InvGives, KeepsIs DEF MutateFails, Critical
<1>2. PICK pc : Leave(t, pc) /\ (pc = "idle" \/ pc = After(t, "mutate"))
  BY DEF MutateFails
<1>3. /\ LockStep(t) /\ lock'.op = NoTask
      /\ task'[t].pc \notin Critical \cup {"warmCheck", "warmPrepare"}
  BY <1>1, <1>2, AfterMutationPc, AfterMutation
<1> QED
  BY <1>1, <1>3, InvGives, AsideQuiet DEF MutateFails

\* The action Release does what AsideDoes says.
LEMMA ReleaseEffect ==
  ASSUME DaemonInv, NEW t \in Tasks, Release(t)
  PROVE  AsideDoes(t)
<1>1. /\ task[t].pc = "release" /\ lock' = lock /\ KeepsRt /\ lock.switch # t
      /\ task[t].pc \notin Critical /\ lock' \in LockType
  BY InvGives, KeepsIs DEF Release, HolderOK, Critical, Holding
<1>2. LockStep(t) /\ task'[t].pc = "idle" /\ lock'.op = lock.op
  BY <1>1, InvGives, IdleIs, AsideRests DEF Release
<1>3. Calms(ses, svc, ses', svc')
  BY InvGives, ShutdownIs DEF Release
<1>4. quit' \in {"no", "asked", "done"}
  BY InvGives DEF Release
<1> QED
  BY <1>1, <1>2, <1>3, <1>4, InvGives DEF Release, AsideDoes, WarmStep, Critical

\* The watcher outside both locks.
LEMMA WatcherMoves ==
  ASSUME DaemonInv, NEW pc \in Pcs, pc \notin Critical \cup {"pause", "disconnect"},
         Go(Watcher, pc), lock' = lock,
         task[Watcher].pc \in {"idle", "tick", "warmFactory", "warmCheck",
                               "warmPrepare", "warmDone"}
  PROVE  /\ LockStep(Watcher) /\ task'[Watcher].pc = pc /\ lock'.op = lock.op
         /\ task[Watcher].pc \notin Critical
<1>1. /\ Watcher \in Tasks /\ task[Watcher].pc \notin Critical /\ lock.switch # Watcher
      /\ task[Watcher].op \in SwitchOps
  BY InvGives DEF HolderOK, Critical, Holding, TaskOK, SwitchOps
<1>2. Moves(Watcher, pc)
  BY <1>1, InvGives, GoIs
<1> QED
  BY <1>1, <1>2, AsideMoves

\* The action WatchPoll does what AsideDoes says.
LEMMA WatchPollEffect ==
  ASSUME DaemonInv, WatchPoll
  PROVE  AsideDoes(Watcher)
<1>1. /\ LockStep(Watcher) /\ task'[Watcher].pc = "tick" /\ lock'.op = lock.op
      /\ task[Watcher].pc \notin Critical
  BY WatcherMoves DEF WatchPoll, Pcs, Critical
<1>2. Calms(ses, svc, ses', svc')
  BY InvGives, PollIs, ProbeIs DEF WatchPoll, Calmer, Calms, Outcome
<1>3. KeepsRt
  BY InvGives, KeepsIs DEF WatchPoll
<1> QED
  BY <1>1, <1>2, <1>3, InvGives DEF WatchPoll, AsideDoes, WarmStep, Critical

\* The action Tick does what AsideDoes says.
LEMMA TickEffect ==
  ASSUME DaemonInv, Tick
  PROVE  AsideDoes(Watcher)
<1>1. PICK pc \in {"lost", "switch", "warmFactory", "release", "idle"} : Go(Watcher, pc)
  BY DEF Tick
<1>2. /\ LockStep(Watcher) /\ task'[Watcher].pc = pc /\ lock'.op = lock.op
      /\ task[Watcher].pc \notin Critical
  BY <1>1, WatcherMoves DEF Tick, Pcs, Critical
<1>3. KeepsRt
  <2>1. rt' = rt \/ rt' = [rt EXCEPT !.again = FALSE]
    BY DEF Tick
  <2> QED
    BY <2>1, InvGives, KeepsIs
<1>4. warmup' \in WarmUpType /\ warmup'.gen < stage.next
  <2>1. warmup' = warmup \/ warmup' = [snap |-> rt.snap, gen |-> NoGen, moved |-> FALSE]
    BY DEF Tick
  <2>2. rt.snap \in Snapshots /\ NoGen \in GenOrNone /\ NoGen < stage.next
    BY InvGives, SessionAssumption DEF RuntimeType, GenOrNone, StageType, NoGen
  <2>3. CASE warmup' = warmup
    BY <2>3, InvGives
  <2>4. CASE warmup' = [snap |-> rt.snap, gen |-> NoGen, moved |-> FALSE]
    BY <2>2, <2>4 DEF WarmUpType
  <2> QED
    BY <2>1, <2>3, <2>4
<1> QED
  BY <1>1, <1>2, <1>3, <1>4, InvGives DEF Tick, AsideDoes, WarmStep, Critical

\* A warm-up that failed touches only the warm mark, and is over.
LEMMA WarmFailedIs ==
  ASSUME DaemonInv
  PROVE  /\ rt' = WarmFailed => KeepsRt
         /\ NoWarmUp \in WarmUpType /\ NoWarmUp.gen = NoGen /\ NoGen < stage.next
<1>1. NoWarmUp \in WarmUpType /\ NoWarmUp.gen = NoGen /\ NoGen < stage.next
  BY InvGives, SnapIs, SessionAssumption DEF NoWarmUp, WarmUpType, GenOrNone, NoGen, StageType
<1>2. ASSUME rt' = WarmFailed
      PROVE  KeepsRt
  <2> DEFINE w == IF rt.st = "Ready" /\ ~warmup.moved /\ rt.warm = warmup.snap
                  THEN NoSnap ELSE rt.warm
  <2>1. w \in Snapshots
    BY InvGives, SnapIs DEF RuntimeType
  <2>2. rt' = [rt EXCEPT !.warm = w]
    BY <1>2 DEF WarmFailed
  <2> HIDE DEF w
  <2> QED
    BY <2>1, <2>2, InvGives DEF KeepsRt, RuntimeType
<1> QED
  BY <1>1, <1>2

\* The action WarmFactory does what AsideDoes says.
LEMMA WarmFactoryEffect ==
  ASSUME DaemonInv, WarmFactory
  PROVE  AsideDoes(Watcher)
<1>1. PICK f \in FactoryResults(warmup.snap, TRUE) :
        /\ FactoryRan(f)
        /\ \/ /\ f.ok /\ warmup' = [warmup EXCEPT !.gen = f.ctl.gen]
              /\ Go(Watcher, "warmCheck") /\ rt' = rt
           \/ Go(Watcher, "idle") /\ rt' = WarmFailed /\ warmup' = NoWarmUp
  BY DEF WarmFactory
<1>2. FactoryDone(warmup.snap, TRUE, f)
  BY InvGives, FactoryIs DEF WarmUpType
<1>3. Calms(ses, svc, ses', svc') /\ StageGrows(stage')
  BY <1>1, <1>2 DEF FactoryDone, FactoryRan
<1>4. KeepsRt
  BY <1>1, InvGives, KeepsIs, WarmFailedIs
<1>5. CASE f.ok /\ warmup' = [warmup EXCEPT !.gen = f.ctl.gen] /\ Go(Watcher, "warmCheck")
  <2>1. f.ctl.gen \in Gens /\ f.ctl.gen < stage'.next
    BY <1>1, <1>2, <1>5 DEF FactoryDone, FactoryRan, Built
  <2>2. warmup' \in WarmUpType /\ warmup'.gen = f.ctl.gen
    BY <1>5, <2>1, InvGives DEF WarmUpType, GenOrNone
  <2>3. /\ LockStep(Watcher) /\ task'[Watcher].pc = "warmCheck" /\ lock'.op = lock.op
        /\ task[Watcher].pc \notin Critical
    BY <1>5, WatcherMoves DEF WarmFactory, Pcs, Critical
  <2> QED
    BY <1>3, <1>4, <2>1, <2>2, <2>3, InvGives DEF WarmFactory, AsideDoes, WarmStep, Critical
<1>6. CASE Go(Watcher, "idle") /\ warmup' = NoWarmUp
  <2>1. /\ LockStep(Watcher) /\ task'[Watcher].pc = "idle" /\ lock'.op = lock.op
        /\ task[Watcher].pc \notin Critical
    BY <1>6, WatcherMoves DEF WarmFactory, Pcs, Critical
  <2>2. warmup' \in WarmUpType /\ warmup'.gen < stage'.next
    BY <1>3, <1>6, InvGives, WarmFailedIs DEF StageGrows, StageType, NoGen
  <2> QED
    BY <1>3, <1>4, <2>1, <2>2, InvGives DEF WarmFactory, AsideDoes, WarmStep, Critical
<1> QED
  BY <1>1, <1>5, <1>6

\* The action WarmCheck does what AsideDoes says.
LEMMA WarmCheckEffect ==
  ASSUME DaemonInv, WarmCheck
  PROVE  AsideDoes(Watcher)
<1>1. KeepsRt /\ warmup.gen \in Gens
  BY InvGives, KeepsIs DEF WarmCheck, DaemonInv, CallInv
<1>2. CASE Go(Watcher, "idle") /\ warmup' = NoWarmUp
  <2>1. /\ LockStep(Watcher) /\ task'[Watcher].pc = "idle" /\ lock'.op = lock.op
        /\ task[Watcher].pc \notin Critical
    BY <1>2, WatcherMoves DEF WarmCheck, Pcs, Critical
  <2> QED
    BY <1>1, <1>2, <2>1, InvGives, WarmFailedIs DEF WarmCheck, AsideDoes, WarmStep, Critical
<1>3. CASE Go(Watcher, "warmPrepare") /\ warmup' = warmup
  <2>1. /\ LockStep(Watcher) /\ task'[Watcher].pc = "warmPrepare" /\ lock'.op = lock.op
        /\ task[Watcher].pc \notin Critical
    BY <1>3, WatcherMoves DEF WarmCheck, Pcs, Critical
  <2> QED
    BY <1>1, <1>3, <2>1, InvGives DEF WarmCheck, AsideDoes, WarmStep, Critical
<1> QED
  BY <1>2, <1>3 DEF WarmCheck

\* The action WarmPrepare does what WarmDoes says.
LEMMA WarmPrepareEffect ==
  ASSUME DaemonInv, WarmPrepare
  PROVE  WarmDoes
<1>1. PICK o \in PrepareIf(ses, svc, warmup.gen, TRUE) :
        /\ ses' = o.s /\ svc' = o.v
        /\ \/ Go(Watcher, "warmDone") /\ rt' = rt /\ warmup' = warmup
           \/ Go(Watcher, "idle") /\ rt' = WarmFailed /\ warmup' = NoWarmUp
  BY DEF WarmPrepare, PrepareIdle
<1>2. warmup.gen \in Gens
  BY DEF WarmPrepare, DaemonInv, CallInv
<1>3. Prepared(ses, svc, warmup.gen, TRUE, o)
  BY <1>1, <1>2, InvGives, PrepareIs
<1>4. /\ ses' \in SessionType /\ svc' \in ServiceType /\ Sound(ses', svc')
      /\ ses'.owner = ses.owner
      /\ svc'.gen \in {svc.gen, warmup.gen, NoGen} /\ (svc'.tun => svc.tun)
      /\ ses.owner \notin {NoGen, warmup.gen} => svc'.gen = svc.gen
  BY <1>1, <1>3 DEF Prepared, Outcome
<1>5. PICK pc \in {"warmDone", "idle"} : Go(Watcher, pc)
  BY <1>1
<1>6. LockStep(Watcher) /\ task'[Watcher].pc = pc /\ lock'.op = lock.op
  BY <1>5, WatcherMoves DEF WarmPrepare, Pcs, Critical
<1>7. KeepsRt /\ warmup' \in WarmUpType /\ warmup'.gen \in {warmup.gen, NoGen}
  BY <1>1, InvGives, KeepsIs, WarmFailedIs
<1> QED
  BY <1>4, <1>5, <1>6, <1>7 DEF WarmPrepare, WarmDoes, Critical

\* The action WarmDone does what AsideDoes says.
LEMMA WarmDoneEffect ==
  ASSUME DaemonInv, WarmDone
  PROVE  AsideDoes(Watcher)
<1>1. /\ LockStep(Watcher) /\ task'[Watcher].pc = "idle" /\ lock'.op = lock.op
      /\ task[Watcher].pc \notin Critical
  BY WatcherMoves DEF WarmDone, Pcs, Critical
<1>2. KeepsRt
  <2> DEFINE w == IF rt.snap = warmup.snap THEN warmup.snap ELSE rt.warm
  <2>1. w \in Snapshots
    BY InvGives DEF RuntimeType, WarmUpType
  <2>2. rt' = [rt EXCEPT !.warm = w]
    BY DEF WarmDone
  <2> HIDE DEF w
  <2> QED
    BY <2>1, <2>2, InvGives DEF KeepsRt, RuntimeType
<1> QED
  BY <1>1, <1>2, InvGives, WarmFailedIs DEF WarmDone, AsideDoes, WarmStep, Critical

\* A task at a critical step holds operation; when its connect ends it rests.
LEMMA HoldsIt ==
  ASSUME DaemonInv, NEW t \in Tasks, task[t].pc \in Critical
  PROVE  lock.op = t
BY InvGives

\* A connect that ends gives up the operation lock and comes to rest.
LEMMA ConnectEnds ==
  ASSUME DaemonInv, NEW t \in Tasks, task[t].pc \in Critical, Leave(t, After(t, "connect"))
  PROVE  LockStep(t) /\ task'[t].pc = "idle" /\ lock'.op = NoTask
<1>1. Left(t, "idle")
  BY InvGives, AfterIs, LeaveIs DEF Pcs
<1> QED
  BY <1>1, HoldsIt, LeftStep DEF Pcs, Critical

\* A connect that goes on keeps the operation lock.
LEMMA ConnectGoesOn ==
  ASSUME DaemonInv, NEW t \in Tasks, task[t].pc \in Critical, NEW pc \in Critical,
         Go(t, pc), lock' = lock
  PROVE  LockStep(t) /\ task'[t].pc = pc /\ lock'.op = t
<1>1. Moves(t, pc)
  BY InvGives, GoIs DEF Pcs, Critical
<1> QED
  BY <1>1, HoldsIt, WithinStep

\* A connect or a deletion that stopped, and one that failed.
LEMMA GivesUpIs ==
  ASSUME DaemonInv, NEW t, lock'.op = NoTask, rt' = Stopped(rt)
  PROVE  GivesUp(t)
BY InvGives, StoppedIs DEF GivesUp

\* A connect that marks the error and leaves has failed as Fails says.
LEMMA FailsIs ==
  ASSUME DaemonInv, NEW t, lock'.op = NoTask, rt' = MarkError(rt)
  PROVE  Fails(t)
BY InvGives, MarkErrorIs DEF Fails

\* The action ConnectFactory does what FactoryDoes says.
LEMMA ConnectFactoryEffect ==
  ASSUME DaemonInv, NEW t \in Tasks, ConnectFactory(t)
  PROVE  FactoryDoes(t)
<1>1. PICK f \in FactoryResults(rt.snap, task[t].op = "Watch") :
        /\ FactoryRan(f)
        /\ \/ /\ f.ok /\ rt' = [rt EXCEPT !.ctl = f.ctl, !.st = "Connecting"]
              /\ Go(t, IF f.ctl.kind = "service" THEN "claim" ELSE "hostOn")
              /\ lock' = lock
           \/ rt' = rt /\ Leave(t, After(t, "connect"))
  BY DEF ConnectFactory
<1>2. FactoryDone(rt.snap, task[t].op = "Watch", f)
  <2>1. (task[t].op = "Watch") \in BOOLEAN /\ rt.snap \in Snapshots
    BY InvGives DEF RuntimeType
  <2> QED
    BY <2>1, InvGives, FactoryIs
<1>3. Calms(ses, svc, ses', svc') /\ StageGrows(stage') /\ f.stage = stage'
  BY <1>1, <1>2 DEF FactoryDone, FactoryRan
<1>4. task[t].pc \in Critical /\ task[t].pc = "factory"
  BY DEF ConnectFactory, Critical
<1>5. CASE rt' = rt /\ Leave(t, After(t, "connect"))
  <2>1. LockStep(t) /\ task'[t].pc = "idle" /\ lock'.op = NoTask
    BY <1>4, <1>5, ConnectEnds
  <2>2. KeepsRt
    BY <1>5, InvGives, KeepsIs
  <2> QED
    BY <1>3, <1>4, <2>1, <2>2 DEF ConnectFactory, FactoryDoes, Elsewhere
<1>6. CASE /\ f.ok /\ rt' = [rt EXCEPT !.ctl = f.ctl, !.st = "Connecting"]
           /\ Go(t, IF f.ctl.kind = "service" THEN "claim" ELSE "hostOn")
           /\ lock' = lock
  <2>1. /\ f.ctl \in Controllers /\ f.ctl.gen < stage'.next
        /\ \/ f.ctl.kind = "service" /\ stage'.of[f.ctl.gen] = rt.snap
           \/ f.ctl.kind = "demand"
    BY <1>2, <1>3, <1>6 DEF FactoryDone, Built
  <2>2. /\ rt' \in RuntimeType /\ rt'.st = "Connecting" /\ rt'.snap = rt.snap
        /\ rt'.pending = rt.pending /\ rt'.stale = rt.stale /\ rt'.ctl = f.ctl
    BY <1>6, <2>1, InvGives DEF RuntimeType, States
  <2>3. CASE f.ctl.kind = "service"
    <3>1. LockStep(t) /\ task'[t].pc = "claim" /\ lock'.op = t
      BY <1>4, <1>6, <2>3, ConnectGoesOn DEF Critical
    <3> QED
      BY <1>3, <1>4, <2>1, <2>2, <2>3, <3>1 DEF ConnectFactory, FactoryDoes, Elsewhere
  <2>4. CASE f.ctl.kind = "demand"
    <3>1. LockStep(t) /\ task'[t].pc = "hostOn" /\ lock'.op = t
      BY <1>4, <1>6, <2>4, ConnectGoesOn DEF Critical
    <3> QED
      BY <1>3, <1>4, <2>1, <2>2, <2>4, <3>1 DEF ConnectFactory, FactoryDoes, Elsewhere
  <2> QED
    BY <2>1, <2>3, <2>4
<1> QED
  BY <1>1, <1>5, <1>6

\* While a task is at claim, prepare or tunOn the controller is the service's.
LEMMA ControllerGen ==
  ASSUME DaemonInv, rt.ctl.kind = "service"
  PROVE  rt.ctl.gen \in Gens /\ rt.ctl.gen \in GenOrNone
BY InvGives, ControllersAre DEF RuntimeType, GenOrNone

\* The action ConnectClaim does what ClaimDoes says.
LEMMA ConnectClaimEffect ==
  ASSUME DaemonInv, NEW t \in Tasks, ConnectClaim(t)
  PROVE  ClaimDoes(t)
<1>1. task[t].pc = "claim" /\ task[t].pc \in Critical /\ rt.ctl.kind = "service"
  BY InvGives DEF ConnectClaim, Critical, RunsAs
<1>2. LockStep(t) /\ task'[t].pc = "prepare"
  BY <1>1, ConnectGoesOn DEF ConnectClaim, Critical
<1>3. ses' \in SessionType /\ Sound(ses', svc) /\ ses'.owner = rt.ctl.gen
  BY <1>1, InvGives, ControllerGen, ClaimIs DEF ConnectClaim
<1> QED
  BY <1>1, <1>2, <1>3 DEF ConnectClaim, ClaimDoes, Elsewhere

\* The action ConnectPrepare does what PrepareDoes says.
LEMMA ConnectPrepareEffect ==
  ASSUME DaemonInv, NEW t \in Tasks, ConnectPrepare(t)
  PROVE  PrepareDoes(t)
<1>1. task[t].pc = "prepare" /\ task[t].pc \in Critical /\ rt.ctl.kind = "service"
  BY InvGives DEF ConnectPrepare, Critical, RunsAs
<1>2. PICK o \in StartXray(ses, svc, rt.ctl.gen) :
        /\ ses' = o.s /\ svc' = o.v
        /\ \/ o.res = "Ok" /\ Go(t, "tunOn") /\ rt' = rt /\ lock' = lock
           \/ rt' = Stopped(rt) /\ Leave(t, After(t, "connect"))
  BY DEF ConnectPrepare
<1>3. XrayStarted(ses, svc, rt.ctl.gen, o)
  BY <1>1, InvGives, ControllerGen, StartXrayIs
<1>4. /\ ses' \in SessionType /\ svc' \in ServiceType /\ Sound(ses', svc')
      /\ svc'.tun => svc.tun
      /\ o.res = "Ok" => ses'.owner = ses.owner /\ svc'.gen \in {rt.ctl.gen, NoGen}
  BY <1>2, <1>3 DEF XrayStarted, Outcome
<1>5. CASE o.res = "Ok" /\ Go(t, "tunOn") /\ rt' = rt /\ lock' = lock
  <2>1. LockStep(t) /\ task'[t].pc = "tunOn"
    BY <1>1, <1>5, ConnectGoesOn DEF Critical
  <2> QED
    BY <1>1, <1>4, <1>5, <2>1 DEF ConnectPrepare, PrepareDoes, Elsewhere
<1>6. CASE rt' = Stopped(rt) /\ Leave(t, After(t, "connect"))
  <2>1. LockStep(t) /\ task'[t].pc = "idle" /\ lock'.op = NoTask
    BY <1>1, <1>6, ConnectEnds
  <2> QED
    BY <1>1, <1>4, <1>6, <2>1, GivesUpIs DEF ConnectPrepare, PrepareDoes, Elsewhere
<1> QED
  BY <1>2, <1>5, <1>6

\* The action ConnectTunOn does what TunDoes says.
LEMMA ConnectTunOnEffect ==
  ASSUME DaemonInv, NEW t \in Tasks, ConnectTunOn(t)
  PROVE  TunDoes(t)
<1>1. task[t].pc = "tunOn" /\ task[t].pc \in Critical
  BY DEF ConnectTunOn, Critical
<1>2. PICK o \in StartMihomo(ses, svc) :
        /\ svc' = o.v
        /\ \/ o.res = "Ok" /\ ses' = o.s /\ Go(t, "replay") /\ rt' = rt /\ lock' = lock
           \/ /\ o.res # "Ok" /\ ses' = ReleaseClaim(o.s)
              /\ rt' = Stopped(rt) /\ Leave(t, After(t, "connect"))
  BY DEF ConnectTunOn
<1>3. MihomoStarted(ses, svc, o)
  BY <1>2, InvGives, StartMihomoIs
<1>4. o.s \in SessionType /\ o.v \in ServiceType /\ Sound(o.s, o.v)
  BY <1>3 DEF MihomoStarted, Outcome
<1>5. CASE o.res = "Ok" /\ ses' = o.s /\ Go(t, "replay") /\ rt' = rt /\ lock' = lock
  <2>1. LockStep(t) /\ task'[t].pc = "replay"
    BY <1>1, <1>5, ConnectGoesOn DEF Critical
  <2> QED
    BY <1>1, <1>2, <1>3, <1>4, <1>5, <2>1 DEF ConnectTunOn, TunDoes, Elsewhere, MihomoStarted
<1>6. CASE /\ o.res # "Ok" /\ ses' = ReleaseClaim(o.s)
           /\ rt' = Stopped(rt) /\ Leave(t, After(t, "connect"))
  <2>1. LockStep(t) /\ task'[t].pc = "idle" /\ lock'.op = NoTask
    BY <1>1, <1>6, ConnectEnds
  <2>2. ses' \in SessionType /\ Sound(ses', svc')
    BY <1>2, <1>4, <1>6, ReleaseClaimIs
  <2> QED
    BY <1>1, <1>2, <1>3, <1>4, <1>6, <2>1, <2>2, GivesUpIs
       DEF ConnectTunOn, TunDoes, Elsewhere, MihomoStarted
<1> QED
  BY <1>2, <1>5, <1>6

\* The action ConnectHostOn does what HostDoes says.
LEMMA ConnectHostOnEffect ==
  ASSUME DaemonInv, NEW t \in Tasks, ConnectHostOn(t)
  PROVE  HostDoes(t)
<1>1. task[t].pc = "hostOn" /\ task[t].pc \in Critical
  BY DEF ConnectHostOn, Critical
<1>2. CASE host' = TRUE /\ Go(t, "replay") /\ rt' = rt /\ lock' = lock
  <2>1. LockStep(t) /\ task'[t].pc = "replay"
    BY <1>1, <1>2, ConnectGoesOn DEF Critical
  <2> QED
    BY <1>1, <1>2, <2>1 DEF ConnectHostOn, HostDoes, Elsewhere
<1>3. CASE host' = host /\ rt' = Stopped(rt) /\ Leave(t, After(t, "connect"))
  <2>1. LockStep(t) /\ task'[t].pc = "idle" /\ lock'.op = NoTask
    BY <1>1, <1>3, ConnectEnds
  <2> QED
    BY <1>1, <1>3, <2>1, InvGives, GivesUpIs DEF ConnectHostOn, HostDoes, Elsewhere
<1>4. CASE host' = TRUE /\ rt' = MarkError(rt) /\ Leave(t, After(t, "connect"))
  <2>1. LockStep(t) /\ task'[t].pc = "idle" /\ lock'.op = NoTask
    BY <1>1, <1>4, ConnectEnds
  <2> QED
    BY <1>1, <1>4, <2>1, FailsIs DEF ConnectHostOn, HostDoes, Elsewhere
<1> QED
  BY <1>2, <1>3, <1>4 DEF ConnectHostOn

\* The action ConnectReplay does what ReplayDoes says.
LEMMA ConnectReplayEffect ==
  ASSUME DaemonInv, NEW t \in Tasks, ConnectReplay(t)
  PROVE  ReplayDoes(t)
<1>1. task[t].pc = "replay" /\ task[t].pc \in Critical
  BY DEF ConnectReplay, Critical
<1>2. CASE Go(t, "rollback") /\ rt' = rt /\ lock' = lock
  <2>1. LockStep(t) /\ task'[t].pc = "rollback"
    BY <1>1, <1>2, ConnectGoesOn DEF Critical
  <2> QED
    BY <1>1, <1>2, <2>1 DEF ConnectReplay, ReplayDoes, Elsewhere
<1>3. CASE /\ rt' = [rt EXCEPT !.st = "Connected", !.degraded = FALSE]
           /\ Leave(t, After(t, "connect"))
  <2>1. LockStep(t) /\ task'[t].pc = "idle" /\ lock'.op = NoTask
    BY <1>1, <1>3, ConnectEnds
  <2>2. /\ rt' \in RuntimeType /\ rt'.st = "Connected" /\ rt'.snap = rt.snap
        /\ rt'.pending = rt.pending /\ rt'.ctl = rt.ctl /\ rt'.stale = rt.stale
    BY <1>3, InvGives DEF RuntimeType, States
  <2> QED
    BY <1>1, <2>1, <2>2 DEF ConnectReplay, ReplayDoes, Elsewhere
<1> QED
  BY <1>2, <1>3 DEF ConnectReplay

\* Supervisor.disconnect through the service or through the elevated host.
LEMMA StopIs ==
  ASSUME DaemonInv, NEW o \in StopResults, StopRan(o)
  PROVE  o.ok \in BOOLEAN /\ StopsCores(o.ok)
<1>1. CASE rt.ctl.kind = "service"
  <2>1. PICK x \in StopMihomo(ses, svc) :
          o = [ok |-> x.res = "Ok", s |-> x.s, v |-> x.v, host |-> host]
    BY <1>1 DEF StopResults
  <2>2. MihomoStopped(svc, x)
    BY <2>1, InvGives, StopMihomoIs
  <2>3. /\ o.ok \in BOOLEAN /\ (o.ok <=> x.res = "Ok")
        /\ ses' = x.s /\ svc' = x.v /\ host' = host
    BY <2>1 DEF StopRan
  <2> QED
    BY <1>1, <2>2, <2>3, InvGives DEF MihomoStopped, StopsCores, Outcome
<1>2. CASE rt.ctl.kind # "service"
  <2>1. PICK ok \in BOOLEAN : o = [ok |-> ok, s |-> ses, v |-> svc, host |-> host /\ ~ok]
    BY <1>2 DEF StopResults, If
  <2>2. /\ o.ok = ok /\ ses' = ses /\ svc' = svc /\ host' \in BOOLEAN
        /\ host' <=> host /\ ~ok
    BY <2>1 DEF StopRan
  <2> QED
    BY <1>2, <2>1, <2>2, InvGives DEF StopsCores
<1> QED
  BY <1>1, <1>2

\* The action ConnectRollback does what StopDoes says.
LEMMA ConnectRollbackEffect ==
  ASSUME DaemonInv, NEW t \in Tasks, ConnectRollback(t)
  PROVE  StopDoes(t)
<1>1. task[t].pc = "rollback" /\ task[t].pc \in Critical
  BY DEF ConnectRollback, Critical
<1>2. PICK o \in StopResults : StopRan(o) /\ rt' = IF o.ok THEN Stopped(rt) ELSE MarkError(rt)
  BY DEF ConnectRollback
<1>3. LockStep(t) /\ task'[t].pc = "idle" /\ lock'.op = NoTask
  BY <1>1, ConnectEnds DEF ConnectRollback
<1>4. o.ok \in BOOLEAN /\ StopsCores(o.ok)
  BY <1>2, StopIs
<1>5. CASE o.ok = TRUE
  <2>1. StopsCores(TRUE) /\ GivesUp(t)
    BY <1>2, <1>3, <1>4, <1>5, GivesUpIs
  <2> QED
    BY <1>1, <1>3, <2>1 DEF ConnectRollback, StopDoes, Elsewhere
<1>6. CASE o.ok = FALSE
  <2>1. StopsCores(FALSE) /\ Fails(t)
    BY <1>2, <1>3, <1>4, <1>6, FailsIs
  <2> QED
    BY <1>1, <1>3, <2>1 DEF ConnectRollback, StopDoes, Elsewhere
<1> QED
  BY <1>4, <1>5, <1>6

\* The action DisconnectStop does what StopDoes says.
LEMMA DisconnectStopEffect ==
  ASSUME DaemonInv, NEW t \in Tasks, DisconnectStop(t)
  PROVE  StopDoes(t)
<1>1. task[t].pc = "stop" /\ task[t].pc \in Critical
  BY DEF DisconnectStop, Critical
<1>2. PICK o \in StopResults :
        /\ StopRan(o) /\ LeaveStopped(t, o.ok)
        /\ IF o.ok THEN rt' \in Reconciled(Stopped(rt), ActiveSnap(store))
           ELSE rt' = MarkError(rt)
  BY DEF DisconnectStop
<1>3. o.ok \in BOOLEAN /\ StopsCores(o.ok)
  BY <1>2, StopIs
<1>4. /\ LockStep(t) /\ lock'.op = NoTask
      /\ task'[t].pc \notin Critical \cup {"warmCheck", "warmPrepare"}
  BY <1>1, <1>2, <1>3, InvGives, HoldsIt, LeaveStoppedIs, AfterStop
<1>5. CASE o.ok = TRUE
  <2>1. StopsCores(TRUE) /\ Rebuild(rt', ActiveSnap(store)) /\ rt'.ctl = NoController
    <3>1. Stopped(rt) \in RuntimeType /\ ActiveSnap(store) \in Snapshots
      BY InvGives, StoppedIs, ActiveSnapIs
    <3>2. rt' \in Reconciled(Stopped(rt), ActiveSnap(store))
      BY <1>2, <1>5
    <3> QED
      BY <1>3, <1>5, <3>1, <3>2, ReconciledIs
  <2> QED
    BY <1>1, <1>4, <2>1 DEF DisconnectStop, StopDoes, Elsewhere
<1>6. CASE o.ok = FALSE
  <2>1. StopsCores(FALSE) /\ Fails(t)
    BY <1>2, <1>3, <1>4, <1>6, FailsIs
  <2> QED
    BY <1>1, <1>4, <2>1 DEF DisconnectStop, StopDoes, Elsewhere
<1> QED
  BY <1>3, <1>5, <1>6

\* The action LostStop does what StopDoes says.
LEMMA LostStopEffect ==
  ASSUME DaemonInv, LostStop
  PROVE  StopDoes(Watcher)
<1>1. task[Watcher].pc = "stop" /\ task[Watcher].pc \in Critical /\ Watcher \in Tasks
  BY InvGives DEF LostStop, Critical
<1> DEFINE again == IF quit = "no" /\ ~rt.cooling THEN TRUE ELSE Stopped(rt).again
           r == [Stopped(rt) EXCEPT !.warm = NoSnap, !.again = again]
<1>2. PICK o \in StopResults :
        /\ StopRan(o)
        /\ IF o.ok THEN rt' \in Reconciled(r, ActiveSnap(store)) ELSE rt' = MarkError(rt)
  BY DEF LostStop
<1>3. o.ok \in BOOLEAN /\ StopsCores(o.ok)
  BY <1>2, StopIs
<1>4. LockStep(Watcher) /\ task'[Watcher].pc = "idle" /\ lock'.op = NoTask
  BY <1>1, InvGives, AfterIs, ConnectEnds DEF LostStop
<1>5. r \in RuntimeType
  <2>1. Stopped(rt) \in RuntimeType
    BY InvGives, StoppedIs
  <2>2. again \in BOOLEAN
    BY <2>1 DEF RuntimeType
  <2> HIDE DEF again
  <2> QED
    BY <2>1, <2>2, SnapIs DEF RuntimeType
<1> HIDE DEF r
<1>6. CASE o.ok = TRUE
  <2>1. StopsCores(TRUE) /\ Rebuild(rt', ActiveSnap(store)) /\ rt'.ctl = NoController
    BY <1>2, <1>3, <1>5, <1>6, InvGives, ActiveSnapIs, ReconciledIs
  <2> QED
    BY <1>1, <1>4, <2>1 DEF LostStop, StopDoes, Elsewhere
<1>7. CASE o.ok = FALSE
  <2>1. StopsCores(FALSE) /\ Fails(Watcher)
    BY <1>2, <1>3, <1>4, <1>7, FailsIs
  <2> QED
    BY <1>1, <1>4, <2>1 DEF LostStop, StopDoes, Elsewhere
<1> QED
  BY <1>3, <1>6, <1>7

\* The action DeleteStop does what StopDoes says.
LEMMA DeleteStopEffect ==
  ASSUME DaemonInv, NEW t \in Tasks, DeleteStop(t)
  PROVE  StopDoes(t)
<1>1. task[t].pc = "stop" /\ task[t].pc \in Critical /\ task[t].op = "Delete"
  BY DEF DeleteStop, Critical
<1>2. PICK o \in StopResults :
        /\ StopRan(o)
        /\ IF o.ok THEN rt' = Stopped(rt) /\ Go(t, "commit") /\ lock' = lock
           ELSE rt' = MarkError(rt) /\ Leave(t, "idle")
  BY DEF DeleteStop
<1>3. o.ok \in BOOLEAN /\ StopsCores(o.ok)
  BY <1>2, StopIs
<1>4. CASE o.ok = TRUE
  <2>1. StopsCores(TRUE) /\ rt' = Stopped(rt) /\ Go(t, "commit") /\ lock' = lock
    BY <1>2, <1>3, <1>4
  <2>2. LockStep(t) /\ task'[t].pc = "commit"
    BY <1>1, <2>1, ConnectGoesOn DEF Critical
  <2>3. /\ rt' \in RuntimeType /\ rt'.st = "Ready" /\ rt'.snap = rt.snap
        /\ rt'.pending = rt.pending /\ rt'.ctl = rt.ctl /\ rt'.stale = rt.stale
    BY <2>1, InvGives, StoppedIs
  <2> QED
    BY <1>1, <2>1, <2>2, <2>3 DEF DeleteStop, StopDoes, Elsewhere
<1>5. CASE o.ok = FALSE
  <2>1. StopsCores(FALSE) /\ rt' = MarkError(rt) /\ Leave(t, "idle")
    BY <1>2, <1>3, <1>5
  <2>2. LockStep(t) /\ task'[t].pc = "idle" /\ lock'.op = NoTask
    BY <1>1, <2>1, InvGives, AfterIs, ConnectEnds
  <2>3. Fails(t)
    BY <2>1, <2>2, FailsIs
  <2> QED
    BY <1>1, <2>1, <2>2, <2>3 DEF DeleteStop, StopDoes, Elsewhere
<1> QED
  BY <1>3, <1>4, <1>5

\* The action Abandon does what AbandonDoes says.
LEMMA AbandonEffect ==
  ASSUME DaemonInv, NEW r \in Requests, Abandon(r)
  PROVE  AbandonDoes(r)
<1>1. r \in Tasks /\ r # Watcher /\ r # NoTask
  BY ConnectionAssumption DEF Tasks
<1>2. Rests(r)
  BY <1>1, InvGives, IdleIs DEF Abandon
<1>3. /\ lock' \in LockType
      /\ lock'.op = IF lock.op = r THEN NoTask ELSE lock.op
      /\ lock'.switch = IF lock.switch = r THEN NoTask ELSE lock.switch
  BY <1>1, InvGives DEF Abandon, LockType
<1>4. LockStep(r) /\ task'[r].pc = "idle"
  BY <1>1, <1>2, <1>3, InvGives DEF LockStep, Rests, TaskOK, Critical
<1>5. /\ host' \in BOOLEAN /\ (host' => host \/ task[r].pc = "hostOn")
      /\ task[r].pc \notin {"factory", "commit"}
  BY InvGives DEF Abandon
<1>6. rt' = IF rt.st = "Connecting" /\ lock.op = r THEN MarkError(rt) ELSE rt
  BY DEF Abandon, AbandonedConnect
<1>7. CASE task[r].pc \in Calls /\ rt.ctl.kind = "service"
  <2>1. /\ MaxOrphans = 1 /\ orphan.pc = "none"
        /\ orphan' = [pc |-> task[r].pc, gen |-> rt.ctl.gen]
    BY <1>7 DEF Abandon
  <2>2. rt.ctl.gen \in Gens /\ rt.ctl.gen \in GenOrNone
    BY <1>7, ControllerGen
  <2>3. orphan' \in OrphanType /\ orphan'.pc \in Calls /\ orphan'.gen \in Gens
    BY <1>7, <2>1, <2>2 DEF OrphanType
  <2> QED
    BY <1>1, <1>3, <1>4, <1>5, <1>6, <2>1, <2>3 DEF Abandon, AbandonDoes
<1>8. CASE ~(task[r].pc \in Calls /\ rt.ctl.kind = "service")
  <2>1. orphan' = orphan
    BY <1>8 DEF Abandon
  <2> QED
    BY <1>1, <1>3, <1>4, <1>5, <1>6, <1>8, <2>1, InvGives DEF Abandon, AbandonDoes
<1> QED
  BY <1>7, <1>8

\* The action Orphan does what OrphanDoes says.
LEMMA OrphanEffect ==
  ASSUME DaemonInv, Orphan
  PROVE  OrphanDoes
<1>0. /\ NoGen \in GenOrNone /\ orphan \in OrphanType
      /\ [pc |-> "none", gen |-> NoGen] \in OrphanType
  BY InvGives DEF OrphanType, GenOrNone, Calls
<1>1. CASE /\ orphan.pc = "claim" /\ ses' = Claim(ses, orphan.gen) /\ svc' = svc
           /\ orphan' = [orphan EXCEPT !.pc = "prepare"]
  <2>1. ses' \in SessionType /\ Sound(ses', svc)
    BY <1>1, InvGives, ClaimIs DEF OrphanType
  <2>2. orphan' \in OrphanType /\ orphan'.pc = "prepare" /\ orphan'.gen = orphan.gen
    BY <1>1, InvGives DEF OrphanType, Calls
  <2> QED
    BY <1>1, <2>1, <2>2, InvGives DEF Orphan, OrphanDoes, Calls
<1>2. CASE /\ orphan.pc = "prepare"
           /\ \E o \in StartXray(ses, svc, orphan.gen) : ses' = o.s /\ svc' = o.v
           /\ orphan' = [pc |-> "none", gen |-> NoGen]
  <2>1. PICK o \in StartXray(ses, svc, orphan.gen) : ses' = o.s /\ svc' = o.v
    BY <1>2
  <2>2. orphan.gen \in Gens
    BY <1>2 DEF DaemonInv, CallInv
  <2>3. XrayStarted(ses, svc, orphan.gen, o)
    BY <2>1, <2>2, InvGives, StartXrayIs
  <2>4. ses' \in SessionType /\ svc' \in ServiceType /\ Sound(ses', svc') /\ (svc'.tun => svc.tun)
    BY <2>1, <2>3 DEF XrayStarted, Outcome
  <2> QED
    BY <1>0, <1>2, <2>4 DEF Orphan, OrphanDoes, Calls
<1>3. CASE /\ orphan.pc = "tunOn"
           /\ \E o \in StartMihomo(ses, svc) :
                /\ ses' = o.s /\ svc' = o.v
                /\ orphan' = [pc |-> IF o.res = "Ok" THEN "late" ELSE "none", gen |-> NoGen]
  <2>1. PICK o \in StartMihomo(ses, svc) :
          /\ ses' = o.s /\ svc' = o.v
          /\ orphan' = [pc |-> IF o.res = "Ok" THEN "late" ELSE "none", gen |-> NoGen]
    BY <1>3
  <2>2. MihomoStarted(ses, svc, o)
    BY <2>1, InvGives, StartMihomoIs
  <2>3. /\ ses' \in SessionType /\ svc' \in ServiceType /\ Sound(ses', svc')
        /\ o.res # "Ok" => ~svc'.tun
    BY <2>1, <2>2 DEF MihomoStarted, Outcome
  <2>4. /\ orphan' \in OrphanType
        /\ orphan'.pc = "late" \/ (orphan'.pc = "none" /\ o.res # "Ok")
    BY <1>0, <2>1 DEF OrphanType
  <2> QED
    BY <1>3, <2>3, <2>4 DEF Orphan, OrphanDoes, Calls
<1>4. CASE /\ orphan.pc \in {"stop", "rollback"}
           /\ \E o \in StopMihomo(ses, svc) : ses' = o.s /\ svc' = o.v
           /\ orphan' = [pc |-> "none", gen |-> NoGen]
  <2>1. PICK o \in StopMihomo(ses, svc) : ses' = o.s /\ svc' = o.v
    BY <1>4
  <2>2. MihomoStopped(svc, o)
    BY <2>1, InvGives, StopMihomoIs
  <2>3. ses' \in SessionType /\ svc' \in ServiceType /\ Sound(ses', svc') /\ (svc'.tun => svc.tun)
    BY <2>1, <2>2 DEF MihomoStopped, Outcome
  <2> QED
    BY <1>0, <1>4, <2>3 DEF Orphan, OrphanDoes, Calls
<1> QED
  BY <1>1, <1>2, <1>3, <1>4 DEF Orphan

\* What the service and the clock do by themselves touches no task.
LEMMA ServiceEffect ==
  ASSUME DaemonInv, CoresDie \/ ServiceExits \/ ServiceStarts \/ CooldownEnds
  PROVE  ServiceDoes
<1>0. NoGen \in GenOrNone /\ svc \in ServiceType /\ ses \in SessionType /\ Sound(ses, svc)
  BY InvGives DEF GenOrNone
<1>1. CASE CoresDie
  <2>1. /\ svc' \in ServiceType /\ svc'.link = svc.link /\ ~svc'.tun
        /\ svc'.gen \in {svc.gen, NoGen}
    BY <1>0, <1>1 DEF CoresDie, ServiceType
  <2>2. Calms(ses, svc, ses, svc')
    BY <1>0, <2>1 DEF Calms, Sound
  <2> QED
    BY <1>1, <2>2, InvGives, KeepsIs DEF CoresDie, ServiceDoes
<1>2. CASE ServiceExits
  <2>1. svc' \in ServiceType /\ ~svc'.link /\ ~svc'.tun /\ svc'.gen = NoGen
    BY <1>0, <1>2 DEF ServiceExits, Released, ServiceType
  <2>2. Calms(ses, svc, ses, svc')
    BY <1>0, <2>1 DEF Calms, Sound
  <2> QED
    BY <1>2, <2>2, InvGives, KeepsIs DEF ServiceExits, ServiceDoes
<1>3. CASE ServiceStarts
  <2>1. svc' \in ServiceType /\ svc'.link = svc.link /\ svc'.tun = svc.tun /\ svc'.gen = svc.gen
    BY <1>0, <1>3 DEF ServiceStarts, ServiceType
  <2>2. Calms(ses, svc, ses, svc')
    BY <1>0, <2>1 DEF Calms, Sound
  <2> QED
    BY <1>3, <2>2, InvGives, KeepsIs DEF ServiceStarts, ServiceDoes
<1>4. CASE CooldownEnds
  BY <1>4, InvGives, KeepsIs DEF CooldownEnds, ServiceDoes
<1> QED
  BY <1>1, <1>2, <1>3, <1>4

\* Outside the lock and not in error the runtime of a mutation is at rest.
LEMMA NotError ==
  ASSUME DaemonInv, ~rt.degraded, rt.st \notin {"Connecting", "Connected"}
  PROVE  rt.st \in {"Empty", "Ready"}
BY InvGives DEF DaemonInv, StateInv, RuntimeType, States

\* The runtime rebuilt for a new active snapshot, and one left behind.
LEMMA RebuiltIs ==
  ASSUME DaemonInv, NEW snap \in Snapshots, Rebuilt(snap)
  PROVE  /\ Calms(ses, svc, ses', svc') /\ StageGrows(stage')
         /\ Rebuild(rt', snap) /\ rt'.ctl.gen < stage'.next
<1>1. PICK f \in FactoryResults(snap, FALSE) :
        /\ FactoryRan(f)
        /\ rt' \in {Applied(Cleared(rt), snap, f.ctl)} \cup Reconciled(rt, snap)
  BY DEF Rebuilt
<1>2. FactoryDone(snap, FALSE, f)
  BY InvGives, FactoryIs
<1>3. /\ Calms(ses, svc, ses', svc') /\ StageGrows(stage')
      /\ f.ctl \in Controllers /\ f.ctl.gen < stage'.next
  BY <1>1, <1>2 DEF FactoryDone, FactoryRan
<1>4. NoController.gen < stage'.next
  BY <1>3, ControllersAre, SessionAssumption DEF StageGrows, StageType, NoGen
<1>5. CASE rt' = Applied(Cleared(rt), snap, f.ctl)
  BY <1>3, <1>5, InvGives, AppliedIs
<1>6. CASE rt' \in Reconciled(rt, snap)
  BY <1>3, <1>4, <1>6, InvGives, ReconciledIs
<1> QED
  BY <1>1, <1>5, <1>6

\* The runtime was rebuilt from what could be read.
LEMMA RereadIs ==
  ASSUME DaemonInv, NEW snap \in Snapshots, rt' \in Reconciled(rt, snap),
         UNCHANGED <<stage, ses, svc>>
  PROVE  /\ Calms(ses, svc, ses', svc') /\ StageGrows(stage')
         /\ Rebuild(rt', snap) /\ rt'.ctl.gen < stage'.next
<1>1. NoController.gen < stage.next
  BY InvGives, ControllersAre, SessionAssumption DEF StageType, NoGen
<1> QED
  BY <1>1, InvGives, ReconciledIs

Lags ==
    /\ rt' \in RuntimeType /\ rt'.st = rt.st /\ rt'.snap = rt.snap /\ rt'.ctl = rt.ctl
    /\ rt'.degraded = rt.degraded /\ rt'.stale

\* A runtime marked stale lags behind the store.
LEMMA BehindIs ==
  ASSUME DaemonInv, rt' = [rt EXCEPT !.stale = TRUE]
  PROVE  Lags
BY InvGives DEF Lags, RuntimeType

\* The frame of every mutation.
Mutates(t) ==
    /\ LockStep(t) /\ lock'.op = NoTask /\ lock.op \in {t, NoTask}
    /\ task[t].pc \in {"mutate", "commit"}
    /\ task'[t].pc \notin {"warmCheck", "warmPrepare"}
    /\ UNCHANGED <<quit, warmup, host, orphan>>

\* A commit that leaves has the frame of a mutation.
LEMMA MutatesIs ==
  ASSUME DaemonInv, NEW t \in Tasks, NEW pc, Leave(t, pc), lock.op \in {t, NoTask},
         \/ pc = "idle" /\ task[t].pc \in {"mutate", "commit"}
         \/ pc = After(t, "mutate") /\ task[t].pc = "mutate",
         UNCHANGED <<quit, warmup, host, orphan>>
  PROVE  Mutates(t)
BY AfterMutationPc, AfterMutation DEF Mutates

\* The four ways a mutation leaves the runtime.
LEMMA CommitRebuilds ==
  ASSUME NEW t \in Tasks, Mutates(t), StoreOK(store'), rt.st \in {"Empty", "Ready"},
         Calms(ses, svc, ses', svc'), StageGrows(stage'),
         Rebuild(rt', ActiveSnap(store')), rt'.ctl.gen < stage'.next
  PROVE  CommitDoes(t)
BY DEF CommitDoes, Mutates, Rebuild

\* A mutation that marks the runtime stale is a commit.
LEMMA CommitLags ==
  ASSUME DaemonInv, NEW t \in Tasks, Mutates(t), StoreOK(store'), Lags,
         UNCHANGED <<stage, ses, svc>>
  PROVE  CommitDoes(t)
BY InvGives DEF CommitDoes, Mutates, Lags

\* A mutation that leaves the active snapshot alone is a commit.
LEMMA CommitKeeps ==
  ASSUME DaemonInv, NEW t \in Tasks, Mutates(t), StoreOK(store'), KeepsRt,
         ActiveSnap(store') = ActiveSnap(store), UNCHANGED <<stage, ses, svc>>
  PROVE  CommitDoes(t)
BY InvGives DEF CommitDoes, Mutates, KeepsRt

\* The action Activate does what CommitDoes says.
LEMMA ActivateEffect ==
  ASSUME DaemonInv, NEW t \in Tasks, Activate(t)
  PROVE  CommitDoes(t)
<1>1. /\ task[t].pc = "mutate" /\ lock.op = NoTask /\ task[t].arg \in store.present
      /\ ~rt.degraded /\ rt.st \notin {"Connecting", "Connected"}
  BY DEF Activate, Locked, NotMutable
<1>2. Mutates(t)
  BY <1>1, MutatesIs DEF Activate
<1>3. StoreOK(store')
  BY <1>1, InvGives, WithActive DEF Activate
<1>4. ActiveSnap(store') \in Snapshots /\ Rebuilt(ActiveSnap(store'))
  BY <1>3, ActiveSnapIs DEF Activate
<1> QED
  BY <1>1, <1>2, <1>3, <1>4, NotError, RebuiltIs, CommitRebuilds

\* The action Refresh does what CommitDoes says.
LEMMA RefreshEffect ==
  ASSUME DaemonInv, NEW t \in Tasks, Refresh(t)
  PROVE  CommitDoes(t)
<1>1. /\ task[t].pc = "mutate" /\ lock.op = NoTask
      /\ ~rt.degraded /\ rt.st # "Connecting"
  BY DEF Refresh, Locked, NotMutable, MayRefreshOrDelete
<1>2. Target(t) \in Profiles /\ CanCommit /\ store' = Replaced(Target(t))
  BY InvGives DEF Refresh, StoreType
<1>3. StoreOK(store')
  BY <1>2, InvGives, ReplacedIs
<1>4. Mutates(t)
  BY <1>1, MutatesIs DEF Refresh
<1>5. CASE Target(t) # store.active /\ UNCHANGED <<rt, stage, ses, svc>>
  <2>1. ActiveSnap(store') = ActiveSnap(store) /\ KeepsRt
    BY <1>2, <1>5, InvGives, ReplacedIs, KeepsIs
  <2> QED
    BY <1>3, <1>4, <1>5, <2>1, CommitKeeps
<1>6. CASE /\ Target(t) = store.active /\ rt' = [rt EXCEPT !.pending = ActiveSnap(store')]
           /\ UNCHANGED <<stage, ses, svc>>
  <2>1. store'.active # NoProfile
    BY <1>2, <1>6, InvGives, ReplacedIs, ConnectionAssumption
  <2>2. ActiveSnap(store') \in Snapshots /\ ActiveSnap(store') # NoSnap
    BY <1>3, <2>1, ActiveSnapIs
  <2>3. /\ rt' \in RuntimeType /\ rt'.st = rt.st /\ rt'.snap = rt.snap /\ rt'.ctl = rt.ctl
        /\ rt'.degraded = rt.degraded /\ rt'.pending = ActiveSnap(store')
    BY <1>6, <2>2, InvGives DEF RuntimeType
  <2> QED
    BY <1>3, <1>4, <1>6, <2>2, <2>3, InvGives DEF CommitDoes, Mutates
<1>7. CASE rt.st # "Connected" /\ Rebuilt(ActiveSnap(store'))
  <2>1. ActiveSnap(store') \in Snapshots /\ rt.st \in {"Empty", "Ready"}
    BY <1>1, <1>3, <1>7, ActiveSnapIs, NotError
  <2> QED
    BY <1>3, <1>4, <1>7, <2>1, RebuiltIs, CommitRebuilds
<1>8. CASE Behind
  BY <1>3, <1>4, <1>8, BehindIs, CommitLags DEF Behind
<1> QED
  BY <1>5, <1>6, <1>7, <1>8 DEF Refresh

\* The action Import does what CommitDoes says.
LEMMA ImportEffect ==
  ASSUME DaemonInv, NEW t \in Tasks, Import(t)
  PROVE  CommitDoes(t)
<1> DEFINE p == task[t].arg
<1>1. /\ task[t].pc = "mutate" /\ lock.op = NoTask /\ CanCommit /\ task[t].op = "Import"
      /\ ~rt.degraded /\ rt.st \notin {"Connecting", "Connected"}
  BY DEF Import, Locked, NotMutable
<1>2. p \in Profiles /\ rt.st \in {"Empty", "Ready"}
  BY <1>1, InvGives, NotError DEF TaskOK
<1>3. Mutates(t)
  BY <1>1, MutatesIs DEF Import
<1>4. StoreOK(Replaced(p)) /\ Replaced(p).present = store.present \cup {p}
  BY <1>1, <1>2, InvGives, ReplacedIs
<1>5. StoreOK([Replaced(p) EXCEPT !.active = p])
  BY <1>4, WithActive
<1>6. CASE /\ store' = [Replaced(p) EXCEPT !.active = p]
           /\ Rebuilt(ActiveSnap(store'))
  <2>1. StoreOK(store') /\ ActiveSnap(store') \in Snapshots
    BY <1>5, <1>6, ActiveSnapIs
  <2> QED
    BY <1>2, <1>3, <1>6, <2>1, RebuiltIs, CommitRebuilds
<1>7. CASE store' = [Replaced(p) EXCEPT !.active = p] /\ Behind
  BY <1>3, <1>5, <1>7, BehindIs, CommitLags DEF Behind
<1>8. CASE /\ store' = Replaced(p) /\ rt' \in Reconciled(rt, ActiveSnap(store'))
           /\ UNCHANGED <<stage, ses, svc>>
  <2>1. StoreOK(store') /\ ActiveSnap(store') \in Snapshots
    BY <1>4, <1>8, ActiveSnapIs
  <2> QED
    BY <1>2, <1>3, <1>8, <2>1, RereadIs, CommitRebuilds
<1> QED
  BY <1>6, <1>7, <1>8 DEF Import

\* The action ImportLive does what CommitDoes says.
LEMMA ImportLiveEffect ==
  ASSUME DaemonInv, NEW t \in Tasks, ImportLive(t)
  PROVE  CommitDoes(t)
<1> DEFINE p == task[t].arg
<1>1. /\ task[t].pc = "mutate" /\ lock.op = NoTask /\ CanCommit /\ task[t].op = "ImportLive"
      /\ p \in Profiles /\ store' = Replaced(p) /\ lock' = lock /\ lock.switch # t /\ t # Watcher
  BY InvGives DEF ImportLive, Locked, TaskOK, HolderOK, SwitchOps
<1>2. /\ task' \in [Tasks -> TaskType] /\ \A u \in Tasks : u # t => task'[u] = task[u]
      /\ task'[t].pc = "switch" /\ task'[t].op = "Activate"
  <2>1. task' = [task EXCEPT ![t].op = "Activate", ![t].pc = "switch"]
    BY DEF ImportLive
  <2>2. /\ task \in [Tasks -> TaskType]
        /\ "Activate" \in AllOps \cup {"Watch", "ImportLive"} /\ "switch" \in Pcs
    BY InvGives DEF AllOps, Pcs
  <2> QED
    BY <2>1, <2>2 DEF TaskType
<1>3. LockStep(t)
  BY <1>1, <1>2, InvGives DEF LockStep, TaskOK, SwitchOps, Critical
<1>4. Mutates(t)
  BY <1>1, <1>2, <1>3 DEF Mutates, ImportLive
<1>5. StoreOK(store') /\ (p # store.active => ActiveSnap(store') = ActiveSnap(store))
  BY <1>1, InvGives, ReplacedIs
<1>6. CASE p = store.active
  <2>1. rt' = [rt EXCEPT !.stale = TRUE]
    BY <1>6, InvGives DEF ImportLive, RuntimeType
  <2> QED
    BY <1>4, <1>5, <2>1, BehindIs, CommitLags DEF ImportLive
<1>7. CASE p # store.active
  <2>1. KeepsRt
    BY <1>7, InvGives DEF ImportLive, KeepsRt, RuntimeType
  <2> QED
    BY <1>4, <1>5, <1>7, <2>1, CommitKeeps DEF ImportLive
<1> QED
  BY <1>6, <1>7

\* The action DeleteCommit does what CommitDoes says.
LEMMA DeleteCommitEffect ==
  ASSUME DaemonInv, NEW t \in Tasks, DeleteCommit(t)
  PROVE  CommitDoes(t)
<1> DEFINE p == task[t].arg
<1>1. /\ task[t].pc \in {"mutate", "commit"} /\ lock.op \in {t, NoTask}
      /\ p = store.active => rt.st \in {"Empty", "Ready"}
  <2>1. CASE task[t].pc = "commit"
    BY <2>1, InvGives DEF RunsAs, Critical
  <2>2. CASE Locked(t, "Delete") /\ ~(p = store.active /\ rt.st = "Connected")
    BY <2>2, NotError DEF Locked, NotMutable, MayRefreshOrDelete
  <2> QED
    BY <2>1, <2>2 DEF DeleteCommit
<1>2. Mutates(t)
  BY <1>1, MutatesIs DEF DeleteCommit
<1>3. CASE store' = store /\ rt' = [rt EXCEPT !.stale = TRUE]
  BY <1>2, <1>3, InvGives, BehindIs, CommitLags DEF DeleteCommit
<1>4. CASE /\ p \in store.present
           /\ \E next \in IF p # store.active THEN {store.active}
                          ELSE IF store.present = {p} THEN {NoProfile}
                          ELSE store.present \ {p} :
                store' = [store EXCEPT !.present = @ \ {p}, !.active = next]
           /\ IF p = store.active THEN rt' \in Reconciled(rt, ActiveSnap(store'))
              ELSE UNCHANGED rt
  <2>1. PICK next : /\ store' = [store EXCEPT !.present = @ \ {p}, !.active = next]
                    /\ \/ p # store.active /\ next = store.active
                       \/ p = store.active /\ next \in (store.present \ {p}) \cup {NoProfile}
    BY <1>4
  <2>2. next \in (store.present \ {p}) \cup {NoProfile} /\ store.present \subseteq Profiles
    BY <2>1, InvGives DEF StoreOK, StoreType
  <2>3. /\ store' \in StoreType /\ store'.present = store.present \ {p}
        /\ store'.active = next /\ store'.content = store.content
    BY <2>1, <2>2, InvGives DEF StoreType
  <2>4. StoreOK(store')
    BY <2>2, <2>3, InvGives DEF StoreOK
  <2>5. CASE p = store.active
    <3>1. ActiveSnap(store') \in Snapshots /\ rt' \in Reconciled(rt, ActiveSnap(store'))
      BY <1>4, <2>4, <2>5, ActiveSnapIs
    <3> QED
      BY <1>1, <1>2, <2>4, <2>5, <3>1, RereadIs, CommitRebuilds DEF DeleteCommit
  <2>6. CASE p # store.active
    <3>1. ActiveSnap(store') = ActiveSnap(store) /\ KeepsRt
      BY <1>4, <2>1, <2>3, <2>6, InvGives, KeepsIs DEF ActiveSnap, SnapOf
    <3> QED
      BY <1>2, <2>4, <3>1, CommitKeeps DEF DeleteCommit
  <2> QED
    BY <2>5, <2>6
<1> QED
  BY <1>3, <1>4 DEF DeleteCommit

-------------------------------------------------------------------------------
(* Every step keeps the invariant *)

\* A step is one of these, or leaves everything as it is.
StepDoes ==
    \/ \E t \in Tasks :
          \/ AsideDoes(t) \/ EnterDoes(t) \/ FactoryDoes(t) \/ ClaimDoes(t)
          \/ PrepareDoes(t) \/ TunDoes(t) \/ HostDoes(t) \/ ReplayDoes(t)
          \/ StopDoes(t) \/ CommitDoes(t) \/ AbandonDoes(t)
    \/ WarmDoes \/ SelectDoes \/ OrphanDoes \/ ServiceDoes
    \/ UNCHANGED vars

\* The fields keep their types.
LEMMA StepTypes ==
  ASSUME DaemonInv, StepDoes
  PROVE  TypeOK'
<1> DEFINE Typed == /\ store \in StoreType /\ rt \in RuntimeType
                    /\ quit \in {"no", "asked", "done"} /\ lock \in LockType
                    /\ task \in [Tasks -> TaskType] /\ warmup \in WarmUpType
                    /\ stage \in StageType /\ ses \in SessionType /\ svc \in ServiceType
                    /\ host \in BOOLEAN /\ orphan \in OrphanType
<1>0. Typed
  BY TypeIs DEF DaemonInv
<1>1. ASSUME NEW t \in Tasks, AsideDoes(t)
      PROVE  Typed'
  BY <1>0, <1>1 DEF AsideDoes, KeepsRt, Calms, StageGrows, WarmStep, LockStep
<1>2. ASSUME NEW t \in Tasks, EnterDoes(t)
      PROVE  Typed'
  BY <1>0, <1>2 DEF EnterDoes, KeepsRt, LockStep
<1>3. ASSUME NEW t \in Tasks, FactoryDoes(t)
      PROVE  Typed'
  BY <1>0, <1>3 DEF FactoryDoes, Elsewhere, KeepsRt, Calms, StageGrows, LockStep
<1>4. ASSUME NEW t \in Tasks, ClaimDoes(t)
      PROVE  Typed'
  BY <1>0, <1>4 DEF ClaimDoes, Elsewhere, LockStep
<1>5. ASSUME NEW t \in Tasks, PrepareDoes(t)
      PROVE  Typed'
  BY <1>0, <1>5 DEF PrepareDoes, GivesUp, Elsewhere, LockStep
<1>6. ASSUME NEW t \in Tasks, TunDoes(t)
      PROVE  Typed'
  BY <1>0, <1>6 DEF TunDoes, GivesUp, Elsewhere, LockStep
<1>7. ASSUME NEW t \in Tasks, HostDoes(t)
      PROVE  Typed'
  BY <1>0, <1>7 DEF HostDoes, GivesUp, Fails, Elsewhere, LockStep
<1>8. ASSUME NEW t \in Tasks, ReplayDoes(t)
      PROVE  Typed'
  BY <1>0, <1>8 DEF ReplayDoes, Elsewhere, LockStep
<1>9. ASSUME NEW t \in Tasks, StopDoes(t)
      PROVE  Typed'
  BY <1>0, <1>9 DEF StopDoes, StopsCores, GivesUp, Fails, Rebuild, Elsewhere, LockStep
<1>10. ASSUME NEW t \in Tasks, CommitDoes(t)
      PROVE  Typed'
  BY <1>0, <1>10 DEF CommitDoes, StoreOK, KeepsRt, Calms, StageGrows, LockStep
<1>11. ASSUME NEW t \in Tasks, AbandonDoes(t)
      PROVE  Typed'
  BY <1>0, <1>11, MarkErrorIs DEF AbandonDoes, LockStep
<1>12. ASSUME WarmDoes
      PROVE  Typed'
  BY <1>0, <1>12 DEF WarmDoes, KeepsRt, LockStep
<1>13. ASSUME SelectDoes
      PROVE  Typed'
  BY <1>0, <1>13, MarkErrorIs DEF SelectDoes
<1>14. ASSUME OrphanDoes
      PROVE  Typed'
  BY <1>0, <1>14 DEF OrphanDoes, Calls
<1>15. ASSUME ServiceDoes
      PROVE  Typed'
  BY <1>0, <1>15 DEF ServiceDoes, KeepsRt, Calms
<1>16. ASSUME UNCHANGED vars
      PROVE  Typed'
  BY <1>0, <1>16 DEF vars
<1>99. Typed'
  BY <1>1, <1>2, <1>3, <1>4, <1>5, <1>6, <1>7, <1>8, <1>9,
     <1>10, <1>11, <1>12, <1>13, <1>14, <1>15, <1>16 DEF StepDoes
<1>100. TypeOK' <=> Typed'
  BY TypeIs, PTL
<1> QED
  BY <1>99, <1>100

\* The store and the session stay sound.
LEMMA StepStore ==
  ASSUME DaemonInv, StepDoes
  PROVE  StoreOK(store)' /\ Sound(ses, svc)'
<1>1. ASSUME NEW t \in Tasks, AsideDoes(t)
      PROVE  StoreOK(store)' /\ Sound(ses, svc)'
  BY <1>1 DEF AsideDoes, Calms, DaemonInv
<1>2. ASSUME NEW t \in Tasks, EnterDoes(t)
      PROVE  StoreOK(store)' /\ Sound(ses, svc)'
  BY <1>2 DEF EnterDoes, DaemonInv
<1>3. ASSUME NEW t \in Tasks, FactoryDoes(t)
      PROVE  StoreOK(store)' /\ Sound(ses, svc)'
  BY <1>3 DEF FactoryDoes, Elsewhere, Calms, DaemonInv
<1>4. ASSUME NEW t \in Tasks, ClaimDoes(t)
      PROVE  StoreOK(store)' /\ Sound(ses, svc)'
  BY <1>4 DEF ClaimDoes, Elsewhere, DaemonInv
<1>5. ASSUME NEW t \in Tasks, PrepareDoes(t)
      PROVE  StoreOK(store)' /\ Sound(ses, svc)'
  BY <1>5 DEF PrepareDoes, GivesUp, Elsewhere, DaemonInv
<1>6. ASSUME NEW t \in Tasks, TunDoes(t)
      PROVE  StoreOK(store)' /\ Sound(ses, svc)'
  BY <1>6 DEF TunDoes, GivesUp, Elsewhere, DaemonInv
<1>7. ASSUME NEW t \in Tasks, HostDoes(t)
      PROVE  StoreOK(store)' /\ Sound(ses, svc)'
  BY <1>7 DEF HostDoes, GivesUp, Fails, Elsewhere, DaemonInv
<1>8. ASSUME NEW t \in Tasks, ReplayDoes(t)
      PROVE  StoreOK(store)' /\ Sound(ses, svc)'
  BY <1>8 DEF ReplayDoes, Elsewhere, DaemonInv
<1>9. ASSUME NEW t \in Tasks, StopDoes(t)
      PROVE  StoreOK(store)' /\ Sound(ses, svc)'
  BY <1>9 DEF StopDoes, StopsCores, GivesUp, Fails, Rebuild, Elsewhere, DaemonInv
<1>10. ASSUME NEW t \in Tasks, CommitDoes(t)
      PROVE  StoreOK(store)' /\ Sound(ses, svc)'
  BY <1>10 DEF CommitDoes, Rebuild, Calms, DaemonInv
<1>11. ASSUME NEW t \in Tasks, AbandonDoes(t)
      PROVE  StoreOK(store)' /\ Sound(ses, svc)'
  BY <1>11, MarkErrorIs DEF AbandonDoes, DaemonInv
<1>12. ASSUME WarmDoes
      PROVE  StoreOK(store)' /\ Sound(ses, svc)'
  BY <1>12 DEF WarmDoes, DaemonInv
<1>13. ASSUME SelectDoes
      PROVE  StoreOK(store)' /\ Sound(ses, svc)'
  BY <1>13, MarkErrorIs DEF SelectDoes, DaemonInv
<1>14. ASSUME OrphanDoes
      PROVE  StoreOK(store)' /\ Sound(ses, svc)'
  BY <1>14 DEF OrphanDoes, Calls, DaemonInv
<1>15. ASSUME ServiceDoes
      PROVE  StoreOK(store)' /\ Sound(ses, svc)'
  BY <1>15 DEF ServiceDoes, Calms, DaemonInv
<1>16. ASSUME UNCHANGED vars
      PROVE  StoreOK(store)' /\ Sound(ses, svc)'
  BY <1>16 DEF vars, DaemonInv
<1> QED
  BY <1>1, <1>2, <1>3, <1>4, <1>5, <1>6, <1>7, <1>8, <1>9,
     <1>10, <1>11, <1>12, <1>13, <1>14, <1>15, <1>16 DEF StepDoes

\* Each task follows its program and the locks their order.
LEMMA StepLocks ==
  ASSUME DaemonInv, StepDoes
  PROVE  TaskInv' /\ LockInv'
<1>0. lock \in LockType /\ NoTask \notin Tasks
  BY TypeIs, ConnectionAssumption DEF DaemonInv, Tasks
<1>a. ASSUME NEW t \in Tasks, LockStep(t)
      PROVE  TaskInv' /\ LockInv'
  BY <1>0, <1>a DEF LockStep, DaemonInv, TaskInv, LockInv, LockType
<1>1. ASSUME NEW t \in Tasks, AsideDoes(t)
      PROVE  LockStep(t)
  BY <1>1 DEF AsideDoes
<1>2. ASSUME NEW t \in Tasks, EnterDoes(t)
      PROVE  LockStep(t)
  BY <1>2 DEF EnterDoes
<1>3. ASSUME NEW t \in Tasks, FactoryDoes(t)
      PROVE  LockStep(t)
  BY <1>3 DEF FactoryDoes
<1>4. ASSUME NEW t \in Tasks, ClaimDoes(t)
      PROVE  LockStep(t)
  BY <1>4 DEF ClaimDoes
<1>5. ASSUME NEW t \in Tasks, PrepareDoes(t)
      PROVE  LockStep(t)
  BY <1>5 DEF PrepareDoes
<1>6. ASSUME NEW t \in Tasks, TunDoes(t)
      PROVE  LockStep(t)
  BY <1>6 DEF TunDoes
<1>7. ASSUME NEW t \in Tasks, HostDoes(t)
      PROVE  LockStep(t)
  BY <1>7 DEF HostDoes
<1>8. ASSUME NEW t \in Tasks, ReplayDoes(t)
      PROVE  LockStep(t)
  BY <1>8 DEF ReplayDoes
<1>9. ASSUME NEW t \in Tasks, StopDoes(t)
      PROVE  LockStep(t)
  BY <1>9 DEF StopDoes
<1>10. ASSUME NEW t \in Tasks, CommitDoes(t)
      PROVE  LockStep(t)
  BY <1>10 DEF CommitDoes
<1>11. ASSUME NEW t \in Tasks, AbandonDoes(t)
      PROVE  LockStep(t)
  BY <1>11 DEF AbandonDoes
<1>12. CASE WarmDoes
  BY <1>12, <1>a DEF WarmDoes, Tasks
<1>13. CASE UNCHANGED <<lock, task>>
  BY <1>13 DEF DaemonInv, TaskInv, LockInv
<1> QED
  BY <1>a, <1>1, <1>2, <1>3, <1>4, <1>5, <1>6, <1>7, <1>8, <1>9, <1>10, <1>11, <1>12, <1>13
     DEF StepDoes, SelectDoes, OrphanDoes, ServiceDoes, vars

\* The runtime's state is the one the holder of operation left it in.
LEMMA StepState ==
  ASSUME DaemonInv, StepDoes
  PROVE  StateInv'
<1>0. /\ rt \in RuntimeType /\ NoTask \notin Tasks /\ lock.op \in Tasks \cup {NoTask}
      /\ NoController.kind = "none" /\ NoController.gen = NoGen
  BY TypeIs, ConnectionAssumption, ControllersAre DEF DaemonInv, Tasks, LockType
<1>a. \A u \in Tasks : task[u].pc \in Critical <=> lock.op = u
  BY DEF DaemonInv, LockInv
<1>b. \A u \in Tasks : task'[u].pc \in Critical <=> lock'.op = u
  BY StepLocks DEF LockInv
<1>c. StateInv
  BY DEF DaemonInv
<1>1. ASSUME NEW t \in Tasks, AsideDoes(t)
      PROVE  StateInv'
  BY <1>0, <1>a, <1>b, <1>c, <1>1
     DEF AsideDoes, KeepsRt, LockStep, StateInv, RunsAs, ConnectingIsOwned, Critical,
         Connecting
<1>2. ASSUME NEW t \in Tasks, EnterDoes(t)
      PROVE  StateInv'
  BY <1>0, <1>a, <1>b, <1>c, <1>2
     DEF EnterDoes, KeepsRt, LockStep, StateInv, RunsAs, ConnectingIsOwned, Critical,
         Connecting
<1>3. ASSUME NEW t \in Tasks, FactoryDoes(t)
      PROVE  StateInv'
  BY <1>0, <1>a, <1>b, <1>c, <1>3
     DEF FactoryDoes, Elsewhere, KeepsRt, LockStep, StateInv, RunsAs, ConnectingIsOwned,
         Critical, Connecting
<1>4. ASSUME NEW t \in Tasks, ClaimDoes(t)
      PROVE  StateInv'
  BY <1>0, <1>a, <1>b, <1>c, <1>4
     DEF ClaimDoes, Elsewhere, LockStep, StateInv, RunsAs, ConnectingIsOwned, Critical,
         Connecting
<1>5. ASSUME NEW t \in Tasks, PrepareDoes(t)
      PROVE  StateInv'
  BY <1>0, <1>a, <1>b, <1>c, <1>5
     DEF PrepareDoes, GivesUp, Elsewhere, LockStep, StateInv, RunsAs, ConnectingIsOwned,
         Critical, Connecting
<1>6. ASSUME NEW t \in Tasks, TunDoes(t)
      PROVE  StateInv'
  BY <1>0, <1>a, <1>b, <1>c, <1>6
     DEF TunDoes, GivesUp, Elsewhere, LockStep, StateInv, RunsAs, ConnectingIsOwned,
         Critical, Connecting
<1>7. ASSUME NEW t \in Tasks, HostDoes(t)
      PROVE  StateInv'
  BY <1>0, <1>a, <1>b, <1>c, <1>7
     DEF HostDoes, GivesUp, Fails, Elsewhere, LockStep, StateInv, RunsAs, ConnectingIsOwned,
         Critical, Connecting
<1>8. ASSUME NEW t \in Tasks, ReplayDoes(t)
      PROVE  StateInv'
  BY <1>0, <1>a, <1>b, <1>c, <1>8
     DEF ReplayDoes, Elsewhere, LockStep, StateInv, RunsAs, ConnectingIsOwned, Critical,
         Connecting
<1>9. ASSUME NEW t \in Tasks, StopDoes(t)
      PROVE  StateInv'
  BY <1>0, <1>a, <1>b, <1>c, <1>9
     DEF StopDoes, StopsCores, GivesUp, Fails, Rebuild, Elsewhere, LockStep, StateInv,
         RunsAs, ConnectingIsOwned, Critical, Connecting
<1>10. ASSUME NEW t \in Tasks, CommitDoes(t)
      PROVE  StateInv'
  BY <1>0, <1>a, <1>b, <1>c, <1>10
     DEF CommitDoes, Rebuild, KeepsRt, LockStep, StateInv, RunsAs, ConnectingIsOwned,
         Critical, Connecting
<1>11. ASSUME NEW t \in Tasks, AbandonDoes(t)
      PROVE  StateInv'
  BY <1>0, <1>a, <1>b, <1>c, <1>11, MarkErrorIs
     DEF AbandonDoes, LockStep, StateInv, RunsAs, ConnectingIsOwned, Critical, Connecting
<1>12. ASSUME WarmDoes
      PROVE  StateInv'
  BY <1>0, <1>a, <1>b, <1>c, <1>12
     DEF WarmDoes, KeepsRt, LockStep, StateInv, RunsAs, ConnectingIsOwned, Critical,
         Connecting
<1>13. ASSUME SelectDoes
      PROVE  StateInv'
  BY <1>0, <1>a, <1>b, <1>c, <1>13, MarkErrorIs
     DEF SelectDoes, StateInv, RunsAs, ConnectingIsOwned, Critical, Connecting
<1>14. ASSUME OrphanDoes
      PROVE  StateInv'
  BY <1>0, <1>a, <1>b, <1>c, <1>14
     DEF OrphanDoes, Calls, StateInv, RunsAs, ConnectingIsOwned, Critical, Connecting
<1>15. ASSUME ServiceDoes
      PROVE  StateInv'
  BY <1>0, <1>a, <1>b, <1>c, <1>15
     DEF ServiceDoes, KeepsRt, StateInv, RunsAs, ConnectingIsOwned, Critical, Connecting
<1>16. ASSUME UNCHANGED vars
      PROVE  StateInv'
  BY <1>0, <1>a, <1>b, <1>c, <1>16
     DEF vars, StateInv, RunsAs, ConnectingIsOwned, Critical, Connecting
<1> QED
  BY <1>1, <1>2, <1>3, <1>4, <1>5, <1>6, <1>7, <1>8, <1>9,
     <1>10, <1>11, <1>12, <1>13, <1>14, <1>15, <1>16 DEF StepDoes

\* What runs can be stopped.
LEMMA StepRun ==
  ASSUME DaemonInv, StepDoes
  PROVE  RunInv'
<1>0. /\ rt \in RuntimeType /\ NoTask \notin Tasks /\ lock.op \in Tasks \cup {NoTask}
      /\ NoController.kind = "none" /\ NoController.gen = NoGen
  BY TypeIs, ConnectionAssumption, ControllersAre DEF DaemonInv, Tasks, LockType
<1>a. \A u \in Tasks : task[u].pc \in Critical <=> lock.op = u
  BY DEF DaemonInv, LockInv
<1>b. \A u \in Tasks : task'[u].pc \in Critical <=> lock'.op = u
  BY StepLocks DEF LockInv
<1>c. RunInv /\ StateInv
  BY DEF DaemonInv
<1>1. ASSUME NEW t \in Tasks, AsideDoes(t)
      PROVE  RunInv'
  BY <1>0, <1>a, <1>b, <1>c, <1>1
     DEF AsideDoes, KeepsRt, Calms, LockStep, RunInv, StateInv, RunsAs, Critical, Connecting
<1>2. ASSUME NEW t \in Tasks, EnterDoes(t)
      PROVE  RunInv'
  BY <1>0, <1>a, <1>b, <1>c, <1>2
     DEF EnterDoes, KeepsRt, LockStep, RunInv, StateInv, RunsAs, Critical, Connecting
<1>3. ASSUME NEW t \in Tasks, FactoryDoes(t)
      PROVE  RunInv'
  BY <1>0, <1>a, <1>b, <1>c, <1>3
     DEF FactoryDoes, Elsewhere, KeepsRt, Calms, LockStep, RunInv, StateInv, RunsAs,
         Critical, Connecting
<1>4. ASSUME NEW t \in Tasks, ClaimDoes(t)
      PROVE  RunInv'
  BY <1>0, <1>a, <1>b, <1>c, <1>4
     DEF ClaimDoes, Elsewhere, LockStep, RunInv, StateInv, RunsAs, Critical, Connecting
<1>5. ASSUME NEW t \in Tasks, PrepareDoes(t)
      PROVE  RunInv'
  BY <1>0, <1>a, <1>b, <1>c, <1>5
     DEF PrepareDoes, GivesUp, Elsewhere, LockStep, RunInv, StateInv, RunsAs, Critical,
         Connecting
<1>6. ASSUME NEW t \in Tasks, TunDoes(t)
      PROVE  RunInv'
  BY <1>0, <1>a, <1>b, <1>c, <1>6
     DEF TunDoes, GivesUp, Elsewhere, LockStep, RunInv, StateInv, RunsAs, Critical,
         Connecting
<1>7. ASSUME NEW t \in Tasks, HostDoes(t)
      PROVE  RunInv'
  BY <1>0, <1>a, <1>b, <1>c, <1>7
     DEF HostDoes, GivesUp, Fails, Elsewhere, LockStep, RunInv, StateInv, RunsAs, Critical,
         Connecting
<1>8. ASSUME NEW t \in Tasks, ReplayDoes(t)
      PROVE  RunInv'
  BY <1>0, <1>a, <1>b, <1>c, <1>8
     DEF ReplayDoes, Elsewhere, LockStep, RunInv, StateInv, RunsAs, Critical, Connecting
<1>9. ASSUME NEW t \in Tasks, StopDoes(t)
      PROVE  RunInv'
  BY <1>0, <1>a, <1>b, <1>c, <1>9
     DEF StopDoes, StopsCores, GivesUp, Fails, Rebuild, Elsewhere, LockStep, RunInv,
         StateInv, RunsAs, Critical, Connecting
<1>10. ASSUME NEW t \in Tasks, CommitDoes(t)
      PROVE  RunInv'
  BY <1>0, <1>a, <1>b, <1>c, <1>10
     DEF CommitDoes, Rebuild, KeepsRt, Calms, LockStep, RunInv, StateInv, RunsAs, Critical,
         Connecting
<1>11. ASSUME NEW t \in Tasks, AbandonDoes(t)
      PROVE  RunInv'
  BY <1>0, <1>a, <1>b, <1>c, <1>11, MarkErrorIs
     DEF AbandonDoes, LockStep, RunInv, StateInv, RunsAs, Critical, Connecting
<1>12. ASSUME WarmDoes
      PROVE  RunInv'
  BY <1>0, <1>a, <1>b, <1>c, <1>12
     DEF WarmDoes, KeepsRt, LockStep, RunInv, StateInv, RunsAs, Critical, Connecting
<1>13. ASSUME SelectDoes
      PROVE  RunInv'
  BY <1>0, <1>a, <1>b, <1>c, <1>13, MarkErrorIs
     DEF SelectDoes, RunInv, StateInv, RunsAs, Critical, Connecting
<1>14. ASSUME OrphanDoes
      PROVE  RunInv'
  BY <1>0, <1>a, <1>b, <1>c, <1>14
     DEF OrphanDoes, Calls, RunInv, StateInv, RunsAs, Critical, Connecting
<1>15. ASSUME ServiceDoes
      PROVE  RunInv'
  BY <1>0, <1>a, <1>b, <1>c, <1>15
     DEF ServiceDoes, KeepsRt, Calms, RunInv, StateInv, RunsAs, Critical, Connecting
<1>16. ASSUME UNCHANGED vars
      PROVE  RunInv'
  BY <1>0, <1>a, <1>b, <1>c, <1>16 DEF vars, RunInv, StateInv, RunsAs, Critical, Connecting
<1> QED
  BY <1>1, <1>2, <1>3, <1>4, <1>5, <1>6, <1>7, <1>8, <1>9,
     <1>10, <1>11, <1>12, <1>13, <1>14, <1>15, <1>16 DEF StepDoes

\* The runtime shows the active profile's newest content.
LEMMA StepSnap ==
  ASSUME DaemonInv, StepDoes
  PROVE  SnapInv'
<1>0. /\ rt \in RuntimeType /\ NoTask \notin Tasks /\ lock.op \in Tasks \cup {NoTask}
      /\ NoController.kind = "none" /\ NoController.gen = NoGen
  BY TypeIs, ConnectionAssumption, ControllersAre DEF DaemonInv, Tasks, LockType
<1>a. \A u \in Tasks : task[u].pc \in Critical <=> lock.op = u
  BY DEF DaemonInv, LockInv
<1>b. \A u \in Tasks : task'[u].pc \in Critical <=> lock'.op = u
  BY StepLocks DEF LockInv
<1>c. SnapInv /\ StateInv /\ \A t \in Tasks : RunsAs(task[t], rt)
  BY DEF DaemonInv, StateInv
<1>1. ASSUME NEW t \in Tasks, AsideDoes(t)
      PROVE  SnapInv'
  BY <1>0, <1>a, <1>b, <1>c, <1>1
     DEF AsideDoes, KeepsRt, LockStep, SnapInv, RunsAs, Critical, Connecting
<1>2. ASSUME NEW t \in Tasks, EnterDoes(t)
      PROVE  SnapInv'
  BY <1>0, <1>a, <1>b, <1>c, <1>2
     DEF EnterDoes, KeepsRt, LockStep, SnapInv, RunsAs, Critical, Connecting
<1>3. ASSUME NEW t \in Tasks, FactoryDoes(t)
      PROVE  SnapInv'
  BY <1>0, <1>a, <1>b, <1>c, <1>3
     DEF FactoryDoes, Elsewhere, KeepsRt, LockStep, SnapInv, RunsAs, Critical, Connecting
<1>4. ASSUME NEW t \in Tasks, ClaimDoes(t)
      PROVE  SnapInv'
  BY <1>0, <1>a, <1>b, <1>c, <1>4
     DEF ClaimDoes, Elsewhere, LockStep, SnapInv, RunsAs, Critical, Connecting
<1>5. ASSUME NEW t \in Tasks, PrepareDoes(t)
      PROVE  SnapInv'
  BY <1>0, <1>a, <1>b, <1>c, <1>5
     DEF PrepareDoes, GivesUp, Elsewhere, LockStep, SnapInv, RunsAs, Critical, Connecting
<1>6. ASSUME NEW t \in Tasks, TunDoes(t)
      PROVE  SnapInv'
  BY <1>0, <1>a, <1>b, <1>c, <1>6
     DEF TunDoes, GivesUp, Elsewhere, LockStep, SnapInv, RunsAs, Critical, Connecting
<1>7. ASSUME NEW t \in Tasks, HostDoes(t)
      PROVE  SnapInv'
  BY <1>0, <1>a, <1>b, <1>c, <1>7
     DEF HostDoes, GivesUp, Fails, Elsewhere, LockStep, SnapInv, RunsAs, Critical,
         Connecting
<1>8. ASSUME NEW t \in Tasks, ReplayDoes(t)
      PROVE  SnapInv'
  BY <1>0, <1>a, <1>b, <1>c, <1>8
     DEF ReplayDoes, Elsewhere, LockStep, SnapInv, RunsAs, Critical, Connecting
<1>9. ASSUME NEW t \in Tasks, StopDoes(t)
      PROVE  SnapInv'
  BY <1>0, <1>a, <1>b, <1>c, <1>9
     DEF StopDoes, StopsCores, GivesUp, Fails, Rebuild, Elsewhere, LockStep, SnapInv, RunsAs,
         Critical, Connecting
<1>10. ASSUME NEW t \in Tasks, CommitDoes(t)
      PROVE  SnapInv'
  BY <1>0, <1>a, <1>b, <1>c, <1>10
     DEF CommitDoes, Rebuild, KeepsRt, LockStep, SnapInv, RunsAs, Critical, Connecting
<1>11. ASSUME NEW t \in Tasks, AbandonDoes(t)
      PROVE  SnapInv'
  BY <1>0, <1>a, <1>b, <1>c, <1>11, MarkErrorIs
     DEF AbandonDoes, LockStep, SnapInv, RunsAs, Critical, Connecting
<1>12. ASSUME WarmDoes
      PROVE  SnapInv'
  BY <1>0, <1>a, <1>b, <1>c, <1>12
     DEF WarmDoes, KeepsRt, LockStep, SnapInv, RunsAs, Critical, Connecting
<1>13. ASSUME SelectDoes
      PROVE  SnapInv'
  BY <1>0, <1>a, <1>b, <1>c, <1>13, MarkErrorIs
     DEF SelectDoes, SnapInv, RunsAs, Critical, Connecting
<1>14. ASSUME OrphanDoes
      PROVE  SnapInv'
  BY <1>0, <1>a, <1>b, <1>c, <1>14 DEF OrphanDoes, Calls, SnapInv, RunsAs, Critical, Connecting
<1>15. ASSUME ServiceDoes
      PROVE  SnapInv'
  BY <1>0, <1>a, <1>b, <1>c, <1>15 DEF ServiceDoes, KeepsRt, SnapInv, RunsAs, Critical, Connecting
<1>16. ASSUME UNCHANGED vars
      PROVE  SnapInv'
  BY <1>0, <1>a, <1>b, <1>c, <1>16 DEF vars, SnapInv, RunsAs, Critical, Connecting
<1> QED
  BY <1>1, <1>2, <1>3, <1>4, <1>5, <1>6, <1>7, <1>8, <1>9,
     <1>10, <1>11, <1>12, <1>13, <1>14, <1>15, <1>16 DEF StepDoes

\* The staged generations only grow.
LEMMA StepStage ==
  ASSUME DaemonInv, StepDoes
  PROVE  StageInv'
<1>0. /\ rt \in RuntimeType /\ NoTask \notin Tasks /\ lock.op \in Tasks \cup {NoTask}
      /\ NoController.kind = "none" /\ NoController.gen = NoGen
  BY TypeIs, ConnectionAssumption, ControllersAre DEF DaemonInv, Tasks, LockType
<1>c. /\ StageInv /\ stage \in StageType /\ warmup \in WarmUpType /\ NoGen = 0
      /\ MaxGens \in Nat /\ Gens = 1..MaxGens /\ \A t \in Tasks : RunsAs(task[t], rt)
  BY TypeIs, SessionAssumption DEF DaemonInv, NoGen, Gens, StateInv
<1>d. /\ rt.ctl.kind = "service" => rt.ctl.gen \in Gens
      /\ rt.ctl.gen \in Nat /\ warmup.gen \in Nat /\ stage.next \in Nat /\ stage.next > 0
  BY <1>0, <1>c, ControllersAre DEF RuntimeType, WarmUpType, StageType, GenOrNone
<1>e. stage' \in StageType /\ stage'.next \in Nat /\ stage'.next > 0
  BY <1>c, StepTypes DEF TypeOK, StageType
<1>1. ASSUME NEW t \in Tasks, AsideDoes(t)
      PROVE  StageInv'
  BY <1>0, <1>c, <1>d, <1>e, <1>1
     DEF AsideDoes, KeepsRt, StageGrows, WarmStep, StageInv, RunsAs, Connecting
<1>2. ASSUME NEW t \in Tasks, EnterDoes(t)
      PROVE  StageInv'
  BY <1>0, <1>c, <1>d, <1>e, <1>2 DEF EnterDoes, KeepsRt, StageInv, RunsAs, Connecting
<1>3. ASSUME NEW t \in Tasks, FactoryDoes(t)
      PROVE  StageInv'
  BY <1>0, <1>c, <1>d, <1>e, <1>3
     DEF FactoryDoes, Elsewhere, KeepsRt, StageGrows, StageInv, RunsAs, Connecting
<1>4. ASSUME NEW t \in Tasks, ClaimDoes(t)
      PROVE  StageInv'
  BY <1>0, <1>c, <1>d, <1>e, <1>4 DEF ClaimDoes, Elsewhere, StageInv, RunsAs, Connecting
<1>5. ASSUME NEW t \in Tasks, PrepareDoes(t)
      PROVE  StageInv'
  BY <1>0, <1>c, <1>d, <1>e, <1>5
     DEF PrepareDoes, GivesUp, Elsewhere, StageInv, RunsAs, Connecting
<1>6. ASSUME NEW t \in Tasks, TunDoes(t)
      PROVE  StageInv'
  BY <1>0, <1>c, <1>d, <1>e, <1>6 DEF TunDoes, GivesUp, Elsewhere, StageInv, RunsAs, Connecting
<1>7. ASSUME NEW t \in Tasks, HostDoes(t)
      PROVE  StageInv'
  BY <1>0, <1>c, <1>d, <1>e, <1>7
     DEF HostDoes, GivesUp, Fails, Elsewhere, StageInv, RunsAs, Connecting
<1>8. ASSUME NEW t \in Tasks, ReplayDoes(t)
      PROVE  StageInv'
  BY <1>0, <1>c, <1>d, <1>e, <1>8 DEF ReplayDoes, Elsewhere, StageInv, RunsAs, Connecting
<1>9. ASSUME NEW t \in Tasks, StopDoes(t)
      PROVE  StageInv'
  BY <1>0, <1>c, <1>d, <1>e, <1>9
     DEF StopDoes, StopsCores, GivesUp, Fails, Rebuild, Elsewhere, StageInv, RunsAs,
         Connecting
<1>10. ASSUME NEW t \in Tasks, CommitDoes(t)
      PROVE  StageInv'
  BY <1>0, <1>c, <1>d, <1>e, <1>10
     DEF CommitDoes, Rebuild, KeepsRt, StageGrows, StageInv, RunsAs, Connecting
<1>11. ASSUME NEW t \in Tasks, AbandonDoes(t)
      PROVE  StageInv'
  BY <1>0, <1>c, <1>d, <1>e, <1>11, MarkErrorIs DEF AbandonDoes, StageInv, RunsAs, Connecting
<1>12. ASSUME WarmDoes
      PROVE  StageInv'
  BY <1>0, <1>c, <1>d, <1>e, <1>12 DEF WarmDoes, KeepsRt, StageInv, RunsAs, Connecting
<1>13. ASSUME SelectDoes
      PROVE  StageInv'
  BY <1>0, <1>c, <1>d, <1>e, <1>13, MarkErrorIs DEF SelectDoes, StageInv, RunsAs, Connecting
<1>14. ASSUME OrphanDoes
      PROVE  StageInv'
  BY <1>0, <1>c, <1>d, <1>e, <1>14 DEF OrphanDoes, Calls, StageInv, RunsAs, Connecting
<1>15. ASSUME ServiceDoes
      PROVE  StageInv'
  BY <1>0, <1>c, <1>d, <1>e, <1>15 DEF ServiceDoes, KeepsRt, StageInv, RunsAs, Connecting
<1>16. ASSUME UNCHANGED vars
      PROVE  StageInv'
  BY <1>0, <1>c, <1>d, <1>e, <1>16 DEF vars, StageInv, RunsAs, Connecting
<1> QED
  BY <1>1, <1>2, <1>3, <1>4, <1>5, <1>6, <1>7, <1>8, <1>9,
     <1>10, <1>11, <1>12, <1>13, <1>14, <1>15, <1>16 DEF StepDoes

\* Calls in flight have their generation.
LEMMA StepCall ==
  ASSUME DaemonInv, StepDoes
  PROVE  CallInv'
<1>0. CallInv /\ Watcher \in Tasks
  BY DEF DaemonInv, Tasks
<1>1. ASSUME NEW t \in Tasks, AsideDoes(t)
      PROVE  CallInv'
  BY <1>0, <1>1 DEF AsideDoes, WarmStep, LockStep, CallInv, Critical
<1>2. ASSUME NEW t \in Tasks, EnterDoes(t)
      PROVE  CallInv'
  BY <1>0, <1>2 DEF EnterDoes, LockStep, CallInv, Critical
<1>3. ASSUME NEW t \in Tasks, FactoryDoes(t)
      PROVE  CallInv'
  BY <1>0, <1>3 DEF FactoryDoes, Elsewhere, LockStep, CallInv, Critical
<1>4. ASSUME NEW t \in Tasks, ClaimDoes(t)
      PROVE  CallInv'
  BY <1>0, <1>4 DEF ClaimDoes, Elsewhere, LockStep, CallInv, Critical
<1>5. ASSUME NEW t \in Tasks, PrepareDoes(t)
      PROVE  CallInv'
  BY <1>0, <1>5 DEF PrepareDoes, GivesUp, Elsewhere, LockStep, CallInv, Critical
<1>6. ASSUME NEW t \in Tasks, TunDoes(t)
      PROVE  CallInv'
  BY <1>0, <1>6 DEF TunDoes, GivesUp, Elsewhere, LockStep, CallInv, Critical
<1>7. ASSUME NEW t \in Tasks, HostDoes(t)
      PROVE  CallInv'
  BY <1>0, <1>7 DEF HostDoes, GivesUp, Fails, Elsewhere, LockStep, CallInv, Critical
<1>8. ASSUME NEW t \in Tasks, ReplayDoes(t)
      PROVE  CallInv'
  BY <1>0, <1>8 DEF ReplayDoes, Elsewhere, LockStep, CallInv, Critical
<1>9. ASSUME NEW t \in Tasks, StopDoes(t)
      PROVE  CallInv'
  BY <1>0, <1>9
     DEF StopDoes, StopsCores, GivesUp, Fails, Rebuild, Elsewhere, LockStep, CallInv,
         Critical
<1>10. ASSUME NEW t \in Tasks, CommitDoes(t)
      PROVE  CallInv'
  BY <1>0, <1>10 DEF CommitDoes, Rebuild, LockStep, CallInv, Critical
<1>11. ASSUME NEW t \in Tasks, AbandonDoes(t)
      PROVE  CallInv'
  BY <1>0, <1>11, MarkErrorIs DEF AbandonDoes, LockStep, CallInv, Critical
<1>12. ASSUME WarmDoes
      PROVE  CallInv'
  BY <1>0, <1>12 DEF WarmDoes, LockStep, CallInv, Critical
<1>13. ASSUME SelectDoes
      PROVE  CallInv'
  BY <1>0, <1>13, MarkErrorIs DEF SelectDoes, CallInv, Critical
<1>14. ASSUME OrphanDoes
      PROVE  CallInv'
  BY <1>0, <1>14 DEF OrphanDoes, Calls, CallInv, Critical
<1>15. ASSUME ServiceDoes
      PROVE  CallInv'
  BY <1>0, <1>15 DEF ServiceDoes, CallInv, Critical
<1>16. ASSUME UNCHANGED vars
      PROVE  CallInv'
  BY <1>0, <1>16 DEF vars, CallInv, Critical
<1> QED
  BY <1>1, <1>2, <1>3, <1>4, <1>5, <1>6, <1>7, <1>8, <1>9,
     <1>10, <1>11, <1>12, <1>13, <1>14, <1>15, <1>16 DEF StepDoes

\* The claim keeps other generations away.
LEMMA StepClaim ==
  ASSUME DaemonInv, StepDoes
  PROVE  ClaimInv'
<1>0. /\ rt \in RuntimeType /\ NoTask \notin Tasks /\ lock.op \in Tasks \cup {NoTask}
      /\ NoController.kind = "none" /\ NoController.gen = NoGen
  BY TypeIs, ConnectionAssumption, ControllersAre DEF DaemonInv, Tasks, LockType
<1>a. \A u \in Tasks : task[u].pc \in Critical <=> lock.op = u
  BY DEF DaemonInv, LockInv
<1>b. \A u \in Tasks : task'[u].pc \in Critical <=> lock'.op = u
  BY StepLocks DEF LockInv
<1>c. /\ ClaimInv /\ StateInv /\ \A t \in Tasks : RunsAs(task[t], rt)
      /\ NoGen = 0 /\ 0 # 1
  BY DEF DaemonInv, StateInv, NoGen
<1>d. rt.ctl.kind = "service" => rt.ctl.gen # NoGen
  BY <1>0, ControllersAre, SessionAssumption DEF RuntimeType, Gens, NoGen
<1>1. ASSUME NEW t \in Tasks, AsideDoes(t)
      PROVE  ClaimInv'
  BY <1>0, <1>a, <1>b, <1>c, <1>d, <1>1
     DEF AsideDoes, KeepsRt, Calms, LockStep, ClaimInv, RunsAs, Critical, Connecting
<1>2. ASSUME NEW t \in Tasks, EnterDoes(t)
      PROVE  ClaimInv'
  BY <1>0, <1>a, <1>b, <1>c, <1>d, <1>2
     DEF EnterDoes, KeepsRt, LockStep, ClaimInv, RunsAs, Critical, Connecting
<1>3. ASSUME NEW t \in Tasks, FactoryDoes(t)
      PROVE  ClaimInv'
  BY <1>0, <1>a, <1>b, <1>c, <1>d, <1>3
     DEF FactoryDoes, Elsewhere, KeepsRt, Calms, LockStep, ClaimInv, RunsAs, Critical,
         Connecting
<1>4. ASSUME NEW t \in Tasks, ClaimDoes(t)
      PROVE  ClaimInv'
  BY <1>0, <1>a, <1>b, <1>c, <1>d, <1>4
     DEF ClaimDoes, Elsewhere, LockStep, ClaimInv, RunsAs, Critical, Connecting
<1>5. ASSUME NEW t \in Tasks, PrepareDoes(t)
      PROVE  ClaimInv'
  BY <1>0, <1>a, <1>b, <1>c, <1>d, <1>5
     DEF PrepareDoes, GivesUp, Elsewhere, LockStep, ClaimInv, RunsAs, Critical, Connecting
<1>6. ASSUME NEW t \in Tasks, TunDoes(t)
      PROVE  ClaimInv'
  BY <1>0, <1>a, <1>b, <1>c, <1>d, <1>6
     DEF TunDoes, GivesUp, Elsewhere, LockStep, ClaimInv, RunsAs, Critical, Connecting
<1>7. ASSUME NEW t \in Tasks, HostDoes(t)
      PROVE  ClaimInv'
  BY <1>0, <1>a, <1>b, <1>c, <1>d, <1>7
     DEF HostDoes, GivesUp, Fails, Elsewhere, LockStep, ClaimInv, RunsAs, Critical,
         Connecting
<1>8. ASSUME NEW t \in Tasks, ReplayDoes(t)
      PROVE  ClaimInv'
  BY <1>0, <1>a, <1>b, <1>c, <1>d, <1>8
     DEF ReplayDoes, Elsewhere, LockStep, ClaimInv, RunsAs, Critical, Connecting
<1>9. ASSUME NEW t \in Tasks, StopDoes(t)
      PROVE  ClaimInv'
  BY <1>0, <1>a, <1>b, <1>c, <1>d, <1>9
     DEF StopDoes, StopsCores, GivesUp, Fails, Rebuild, Elsewhere, LockStep, ClaimInv,
         RunsAs, Critical, Connecting
<1>10. ASSUME NEW t \in Tasks, CommitDoes(t)
      PROVE  ClaimInv'
  BY <1>0, <1>a, <1>b, <1>c, <1>d, <1>10
     DEF CommitDoes, Rebuild, KeepsRt, Calms, LockStep, ClaimInv, RunsAs, Critical,
         Connecting
<1>11. ASSUME NEW t \in Tasks, AbandonDoes(t)
      PROVE  ClaimInv'
  BY <1>0, <1>a, <1>b, <1>c, <1>d, <1>11, MarkErrorIs
     DEF AbandonDoes, LockStep, ClaimInv, RunsAs, Critical, Connecting
<1>12. ASSUME WarmDoes
      PROVE  ClaimInv'
  BY <1>0, <1>a, <1>b, <1>c, <1>d, <1>12
     DEF WarmDoes, KeepsRt, LockStep, ClaimInv, RunsAs, Critical, Connecting
<1>13. ASSUME SelectDoes
      PROVE  ClaimInv'
  BY <1>0, <1>a, <1>b, <1>c, <1>d, <1>13, MarkErrorIs
     DEF SelectDoes, ClaimInv, RunsAs, Critical, Connecting
<1>14. ASSUME OrphanDoes
      PROVE  ClaimInv'
  BY <1>0, <1>a, <1>b, <1>c, <1>d, <1>14
     DEF OrphanDoes, Calls, ClaimInv, RunsAs, Critical, Connecting
<1>15. ASSUME ServiceDoes
      PROVE  ClaimInv'
  BY <1>0, <1>a, <1>b, <1>c, <1>d, <1>15
     DEF ServiceDoes, KeepsRt, Calms, ClaimInv, RunsAs, Critical, Connecting
<1>16. ASSUME UNCHANGED vars
      PROVE  ClaimInv'
  BY <1>0, <1>a, <1>b, <1>c, <1>d, <1>16 DEF vars, ClaimInv, RunsAs, Critical, Connecting
<1> QED
  BY <1>1, <1>2, <1>3, <1>4, <1>5, <1>6, <1>7, <1>8, <1>9,
     <1>10, <1>11, <1>12, <1>13, <1>14, <1>15, <1>16 DEF StepDoes

\* Every step of Next is one of the fifteen kinds above, or changes nothing.
LEMMA EveryStep ==
  ASSUME DaemonInv, [Next]_vars
  PROVE  StepDoes
<1>0. Watcher \in Tasks /\ Requests \subseteq Tasks
  BY InvGives
<1>1. ASSUME NEW r \in Requests, Arrive(r) \/ Abandon(r)
      PROVE  StepDoes
  BY <1>0, <1>1, ArriveEffect, AbandonEffect DEF StepDoes
<1>2. ASSUME NEW t \in Tasks, Acquire(t)
      PROVE  StepDoes
  <2>1. CASE \/ TakeSwitch(t) \/ ConnectBegin(t) \/ DisconnectBegin(t) \/ MutateRefused(t)
             \/ MutateFails(t) \/ DeleteBegin(t)
    BY <2>1, TakeSwitchEffect, ConnectBeginEffect, DisconnectBeginEffect,
       MutateRefusedEffect, MutateFailsEffect, DeleteBeginEffect DEF StepDoes
  <2>2. CASE Activate(t) \/ Refresh(t) \/ Import(t) \/ ImportLive(t) \/ DeleteCommit(t)
    BY <2>2, ActivateEffect, RefreshEffect, ImportEffect, ImportLiveEffect,
       DeleteCommitEffect DEF StepDoes
  <2> QED
    BY <1>2, <2>1, <2>2 DEF Acquire
<1>3. ASSUME NEW t \in Tasks, Proceed(t)
      PROVE  StepDoes
  <2>1. CASE Fetch(t) \/ Pause(t) \/ Resume(t) \/ Release(t)
    BY <2>1, FetchEffect, PauseEffect, ResumeEffect, ReleaseEffect DEF StepDoes
  <2>2. CASE \/ ConnectFactory(t) \/ ConnectClaim(t) \/ ConnectPrepare(t) \/ ConnectTunOn(t)
             \/ ConnectHostOn(t) \/ ConnectReplay(t)
    BY <2>2, ConnectFactoryEffect, ConnectClaimEffect, ConnectPrepareEffect,
       ConnectTunOnEffect, ConnectHostOnEffect, ConnectReplayEffect DEF StepDoes
  <2>3. CASE ConnectRollback(t) \/ DisconnectStop(t) \/ DeleteStop(t)
    BY <2>3, ConnectRollbackEffect, DisconnectStopEffect, DeleteStopEffect DEF StepDoes
  <2> QED
    BY <1>3, <2>1, <2>2, <2>3 DEF Proceed
<1>4. CASE Watch \/ LostBegin
  <2>1. CASE LostBegin \/ LostStop
    BY <1>0, <2>1, LostBeginEffect, LostStopEffect DEF StepDoes
  <2>2. CASE WatchPoll \/ Tick \/ WarmFactory \/ WarmCheck \/ WarmPrepare \/ WarmDone
    BY <1>0, <2>2, WatchPollEffect, TickEffect, WarmFactoryEffect, WarmCheckEffect,
       WarmPrepareEffect, WarmDoneEffect DEF StepDoes
  <2> QED
    BY <1>4, <2>1, <2>2 DEF Watch
<1>5. CASE Environment
  BY <1>5, ServiceEffect, OrphanEffect DEF Environment, StepDoes
<1>6. CASE UNCHANGED vars
  BY <1>6 DEF StepDoes
<1> QED
  BY <1>1, <1>2, <1>3, <1>4, <1>5, <1>6 DEF Next

\* The daemon starts with the saved profile, no controller and nothing running.
LEMMA InitInv ==
  ASSUME Init
  PROVE  DaemonInv
<1>1. PICK p \in Profiles :
        store = [active |-> p, present |-> {p}, commits |-> 1,
                 content |-> [q \in Profiles |-> IF q = p THEN 1 ELSE 0]]
  BY DEF Init
<1>2. StoreOK(store)
  <2>1. 1 \in 1..MaxCommits /\ 0 \in 0..MaxCommits /\ 1 \in 0..MaxCommits
    BY ConnectionAssumption
  <2>2. [q \in Profiles |-> IF q = p THEN 1 ELSE 0] \in [Profiles -> 0..MaxCommits]
    BY <2>1
  <2> QED
    BY <1>1, <2>1, <2>2 DEF StoreOK, StoreType
<1>3. /\ NoTask \notin Tasks /\ Watcher \in Tasks /\ NoGen \in GenOrNone /\ NoGen = 0
      /\ 1 \in 1..(MaxGens + 1) /\ 0 < 1 /\ MaxGens \in Nat
      /\ NoSnap \in Snapshots /\ NoController \in Controllers
      /\ NoController.kind = "none" /\ NoController.gen = NoGen
  BY ConnectionAssumption, SessionAssumption, SnapIs, ControllersAre
     DEF Tasks, GenOrNone, NoGen
<1>4. /\ rt \in RuntimeType /\ rt.st = "Ready" /\ rt.snap = ActiveSnap(store)
      /\ rt.pending = NoSnap /\ rt.ctl = NoController /\ ~rt.degraded
  BY <1>2, <1>3, ActiveSnapIs DEF Init, RuntimeType, States
<1>5. /\ task \in [Tasks -> TaskType]
      /\ \A t \in Tasks : /\ task[t].pc = "idle"
                          /\ task[t].op = IF t = Watcher THEN "Watch" ELSE "Connect"
  <2>1. \A t \in Tasks : /\ AtRest(t) \in TaskType /\ AtRest(t).pc = "idle"
                         /\ AtRest(t).op = IF t = Watcher THEN "Watch" ELSE "Connect"
    BY DEF AtRest, TaskType, Pcs, AllOps
  <2> QED
    BY <2>1 DEF Init
<1>6. lock \in LockType /\ lock.op = NoTask /\ lock.switch = NoTask
  BY DEF Init, LockType
<1>7. warmup \in WarmUpType /\ warmup.gen = NoGen
  BY <1>3 DEF Init, NoWarmUp, WarmUpType
<1>8. stage \in StageType /\ stage.gen = NoGen /\ stage.next = 1
  BY <1>3 DEF Init, StageType
<1>9. /\ ses \in SessionType /\ svc \in ServiceType /\ Sound(ses, svc)
      /\ svc.gen = NoGen /\ ~svc.tun
  BY <1>3 DEF Init, NewSession, SessionType, ServiceType, Sound
<1>10. /\ orphan \in OrphanType /\ orphan.pc = "none" /\ host = FALSE /\ quit = "no"
  BY <1>3 DEF Init, OrphanType
<1>11. TypeOK
  BY <1>2, <1>4, <1>5, <1>6, <1>7, <1>8, <1>9, <1>10, TypeIs DEF StoreOK
<1>12. TaskInv /\ LockInv
  BY <1>3, <1>5, <1>6 DEF TaskInv, TaskOK, LockInv, Critical
<1>13. StateInv
  BY <1>4, <1>5 DEF StateInv, RunsAs, ConnectingIsOwned, Connecting
<1>14. RunInv /\ SnapInv
  BY <1>4, <1>5, <1>9, <1>10 DEF RunInv, SnapInv
<1>15. StageInv
  BY <1>3, <1>4, <1>7, <1>8 DEF StageInv
<1>16. CallInv /\ ClaimInv
  BY <1>3, <1>4, <1>5, <1>10 DEF CallInv, ClaimInv
<1> QED
  BY <1>2, <1>9, <1>11, <1>12, <1>13, <1>14, <1>15, <1>16 DEF DaemonInv

\* No step breaks the invariant.
LEMMA StepInv ==
  ASSUME DaemonInv, [Next]_vars
  PROVE  DaemonInv'
BY EveryStep, StepTypes, StepStore, StepLocks, StepState, StepRun, StepSnap, StepStage,
   StepCall, StepClaim DEF DaemonInv

\* The conjunction of the parts is an invariant of the specification.
LEMMA DaemonInductive == Spec => []DaemonInv
BY InitInv, StepInv, PTL DEF Spec

-------------------------------------------------------------------------------
(* Theorems *)

\* The daemon's fields keep their types for any number of requests, profiles
\* and generations, whatever faults happen.
THEOREM DaemonTypes == Spec => []TypeOK
<1>1. DaemonInv => TypeOK
  BY DEF DaemonInv
<1> QED
  BY <1>1, DaemonInductive, PTL

\* The two mutexes of CoreBackend are taken in one order, and exactly the
\* holder of operation drives the supervisor.
THEOREM LocksStayOrdered == Spec => []LocksAreOrdered
<1>1. DaemonInv => LocksAreOrdered
  BY DEF DaemonInv, LockInv, HolderOK, Holding, LocksAreOrdered
<1> QED
  BY <1>1, DaemonInductive, PTL

\* A runtime in Connecting has a task that is connecting it: no dropped future
\* leaves it there.
THEOREM ConnectingHasOwner == Spec => []ConnectingIsOwned
<1>1. DaemonInv => ConnectingIsOwned
  BY DEF DaemonInv, StateInv
<1> QED
  BY <1>1, DaemonInductive, PTL

\* Whatever runs can be stopped by disconnect_now, but for the tunnel of a
\* call that outlived its request.
THEOREM RunningStaysStoppable == Spec => []RunningIsStoppable
<1>1. DaemonInv => RunningIsStoppable
  BY ControllersAre DEF DaemonInv, RunInv, RunningIsStoppable
<1> QED
  BY <1>1, DaemonInductive, PTL

\* Between operations the runtime shows the store's active profile with its
\* newest content, or holds it as pending, unless a mutation marked it stale.
THEOREM SnapshotStaysCurrent == Spec => []SnapshotIsCurrent
<1>1. DaemonInv => SnapshotIsCurrent
  BY DEF DaemonInv, SnapInv, SnapshotIsCurrent
<1> QED
  BY <1>1, DaemonInductive, PTL

\* A connection through the service has the generation that was staged from
\* the runtime's snapshot, whatever calls outlive their requests.
THEOREM ConnectedIsStaged ==
  Spec => [](rt.st = "Connected" /\ rt.ctl.kind = "service" => stage.of[rt.ctl.gen] = rt.snap)
<1>1. DaemonInv => (rt.st = "Connected" /\ rt.ctl.kind = "service" =>
                       stage.of[rt.ctl.gen] = rt.snap)
  BY DEF DaemonInv, StageInv
<1> QED
  BY <1>1, DaemonInductive, PTL

\* As long as no blocking call outlives its request (such a call may prepare its
\* own generation later), a connection has the generation staged from the
\* runtime's snapshot and the service runs no other one's cores under it.
THEOREM ConnectedRunsSnapshot ==
  ASSUME MaxOrphans = 0
  PROVE  Spec => []ConnectedRunsItsSnapshot
<1>1. DaemonInv => ConnectedRunsItsSnapshot
  BY DEF DaemonInv, StageInv, ClaimInv, ConnectedRunsItsSnapshot
<1> QED
  BY <1>1, DaemonInductive, PTL

\* A warm-up never replaces the cores of the generation a Connect has claimed.
THEOREM WarmUpKeepsClaim == Spec => WarmUpNeverDisplaces
<1> DEFINE A == task[Watcher].pc = "warmPrepare" /\ task'[Watcher].pc # "warmPrepare"
                    /\ ses.owner # NoGen /\ svc.gen = ses.owner
                => svc'.gen \in {ses.owner, NoGen}
<1>1. ASSUME DaemonInv, [Next]_vars
      PROVE  [A]_vars
  <2>1. StepDoes
    BY <1>1, EveryStep
  <2>2. Watcher \in Tasks
    BY DEF Tasks
  <2>3. ASSUME NEW t \in Tasks, LockStep(t), t # Watcher
        PROVE  A
    BY <2>2, <2>3 DEF LockStep
  <2>4. ASSUME NEW t \in Tasks, AsideDoes(t) \/ EnterDoes(t) \/ CommitDoes(t)
        PROVE  A
    BY <2>4 DEF AsideDoes, EnterDoes, CommitDoes, Calms
  <2>5. ASSUME NEW t \in Tasks,
               \/ FactoryDoes(t) \/ ClaimDoes(t) \/ PrepareDoes(t) \/ TunDoes(t)
               \/ HostDoes(t) \/ ReplayDoes(t) \/ StopDoes(t)
        PROVE  A
    <3>1. LockStep(t) /\ task[t].pc # "warmPrepare"
      BY <2>5 DEF FactoryDoes, ClaimDoes, PrepareDoes, TunDoes, HostDoes, ReplayDoes, StopDoes
    <3> QED
      BY <2>3, <3>1
  <2>6. ASSUME NEW t \in Tasks, AbandonDoes(t)
        PROVE  A
    BY <2>3, <2>6 DEF AbandonDoes
  <2>7. ASSUME WarmDoes
        PROVE  A
    BY <2>7 DEF WarmDoes
  <2>8. ASSUME SelectDoes \/ OrphanDoes \/ ServiceDoes \/ UNCHANGED vars
        PROVE  A
    BY <2>8 DEF SelectDoes, OrphanDoes, ServiceDoes, vars
  <2> QED
    BY <2>1, <2>4, <2>5, <2>6, <2>7, <2>8 DEF StepDoes
<1> QED
  BY <1>1, DaemonInductive, PTL DEF Spec, WarmUpNeverDisplaces
===============================================================================
