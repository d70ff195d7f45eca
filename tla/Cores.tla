-------------------------------- MODULE Cores --------------------------------
(***************************************************************************)
(* The two core processes of the always-ready service (ProductionCores in  *)
(* apps/multicore-core-host/src/service/cores.rs) as values: one record    *)
(* for what is really running, and for every operation of the `Cores`      *)
(* trait the set of results it may come back with.  Every operation runs   *)
(* under the service's lock, so a caller picks one result atomically.      *)
(*                                                                         *)
(*   active  ProductionCores.active is Some                                *)
(*   xray    } "none": no child, "running", or "exited" (a child that is   *)
(*   mihomo  }  gone without having been stopped)                          *)
(*   tun     Mihomo's MultiCore adapter: "down", "up", or "rising" (a      *)
(*           PATCH that got no answer in time; the adapter may still come) *)
(*                                                                         *)
(* External assumptions: the adapter exists only while Mihomo runs, and    *)
(* closing the process group / job of a dropped controller ends both       *)
(* cores.                                                                  *)
(***************************************************************************)

ProcessStates == {"none", "running", "exited"}
TunStates == {"down", "rising", "up"}

CoresType == [active : BOOLEAN, xray : ProcessStates,
              mihomo : ProcessStates, tun : TunStates]

\* What stop_all leaves: `active` is taken and its controller dropped.
Stopped ==
    [active |-> FALSE, xray |-> "none", mihomo |-> "none", tun |-> "down"]

\* What a successful launch leaves: both cores ready, TUN off.
Launched ==
    [active |-> TRUE, xray |-> "running", mihomo |-> "running", tun |-> "down"]

Result(ok, c) == [ok |-> ok, cores |-> c]

\* Mutant: one of the two cores is enough.
EitherRuns(c) == c.xray = "running" \/ c.mihomo = "running"

\* CoreHealth.all(): both processes run.  Nothing else counts.
Healthy(c) == c.xray = "running" /\ c.mihomo = "running"

\* prepare: stop_all, then launch; a failed launch stops what it started.
PrepareResults == {Result(TRUE, Launched), Result(FALSE, Stopped)}

\* The tunnel a set of cores keeps when `m` is what is left of Mihomo.
TunAfter(c, m) == IF m = "running" THEN c.tun ELSE "down"

\* SidecarProcessController::stop of one core: a running child may refuse to
\* die (StopFailed puts it back), an exited one is only forgotten.
StopOne(p) == IF p = "running" THEN {"none", "running"} ELSE {"none"}

StopProcesses(c) ==
    UNION {{[c EXCEPT !.xray = x, !.mihomo = m, !.tun = TunAfter(c, m)] :
                m \in StopOne(c.mihomo)} : x \in StopOne(c.xray)}

\* restart: stop both, check the hashes, start Xray, start Mihomo.  Starting a
\* core that survived its stop succeeds at once and keeps the old process.
RestartResults(c) ==
    IF ~c.active THEN {Result(FALSE, c)}
    ELSE UNION {{Result(FALSE, s),
                 Result(FALSE, [s EXCEPT !.xray = "running"]),
                 Result(TRUE, [s EXCEPT !.xray = "running",
                                        !.mihomo = "running"])} :
                   s \in StopProcesses(c)}

\* set_tun.  Without Mihomo there is nobody to PATCH.  A failed switch-on says
\* nothing about the adapter: the PATCH may have been refused, be unanswered
\* ("rising") or be done while the two probes disagree.  A failed switch-off
\* left the tunnel as it was, or only the mixed port is missing.
SetTunResults(c, on) ==
    LET tun(t) == [c EXCEPT !.tun = t]
    IN  CASE c.mihomo # "running" -> {Result(FALSE, c)}
          [] c.mihomo = "running" /\ on ->
                {Result(TRUE, tun("up"))}
                    \cup {Result(FALSE, tun(t)) : t \in TunStates}
          [] c.mihomo = "running" /\ ~on ->
                {Result(TRUE, tun("down")), Result(FALSE, tun("down")),
                 Result(FALSE, c)}

\* `let _ = cores.set_tun(false)`: the switch-off whose result is ignored.
SwitchOff(c) == {r.cores : r \in SetTunResults(c, FALSE)}

\* set_tun(true) rolled back by set_tun(false) when it failed.
RaiseTunResults(c) ==
    UNION {IF r.ok THEN {r} ELSE {Result(FALSE, s) : s \in SwitchOff(r.cores)} :
              r \in SetTunResults(c, TRUE)}

\* tun_is_on().unwrap_or(true): Mihomo's answer or the adapter; unknown is on.
TunIsOn(c) == IF c.tun = "up" THEN {TRUE} ELSE BOOLEAN

\* A core process ends by itself (a crash, a kill).  Mihomo takes its adapter
\* with it.
Exit(c, engine) ==
    [c EXCEPT ![engine] = "exited",
              !.tun = IF engine = "mihomo" THEN "down" ELSE @]
=============================================================================
