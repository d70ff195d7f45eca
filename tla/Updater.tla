------------------------------- MODULE Updater -------------------------------
(***************************************************************************)
(* Installing a new version on Windows: the update helper                  *)
(* (apps/multicore-updater), the renames it makes (multicore-update), and  *)
(* the desktop that starts it, confirms its own start and removes old      *)
(* backups (multicore-desktop/src/updater.rs).                             *)
(*                                                                         *)
(* The install directory `current' and its siblings are the shared state.  *)
(* Any rename or removal may fail, helpers and desktops may die at any     *)
(* step, and a second helper may be started while an earlier one is still  *)
(* waiting.  Downloading, archive contents, the result file and the log    *)
(* are left out; a failed verification is a failure of its step.           *)
(***************************************************************************)
EXTENDS Naturals

CONSTANTS
    Updaters,      \* helper processes
    NoUpdater,
    MaxVersion,    \* versions are 1..MaxVersion; 1 is installed
    Patient,       \* between a swap and its outcome the user does not start
                   \* again a version that confirmed
    Overlap,       \* a helper may be started while another one still works
    ServiceModes   \* installs considered: with the service, without it

ASSUME UpdaterAssumption ==
    /\ NoUpdater \notin Updaters
    /\ MaxVersion \in Nat \ {0}
    /\ Patient \in BOOLEAN /\ Overlap \in BOOLEAN /\ ServiceModes \subseteq BOOLEAN /\ ServiceModes # {}

\* A directory: missing, still being extracted, complete, or with files missing
\* after a removal that was not finished ("scrap" after a second one).
Content == [v : 0..MaxVersion, state : {"none", "part", "whole", "torn", "scrap"}]
Nothing == [v |-> 0, state |-> "none"]

\* Names carry the helper's process id, so no two helpers share one.
Current == <<"current", NoUpdater>>
Stage(u) == <<"stage", u>>
Backup(u) == <<"previous", u>>
Failed(u) == <<"failed", u>>
Places == {Current} \cup {<<kind, u>> : kind \in {"stage", "previous", "failed"}, u \in Updaters}
Backups == {Backup(u) : u \in Updaters}

VARIABLES
    dir,        \* dir[p]: what directory p holds
    marker,     \* the version in started-ok, or 0
    proven,     \* the installations that started and wrote it
    desktop,    \* the client: single_instance lets one run
    service,    \* the service runs
    viaService, \* the install has the service, which starts the helpers
    job         \* job[u]: a helper

vars == <<dir, marker, proven, desktop, service, viaService, job>>

Running == {"wait", "stale", "extract", "unpack", "swap", "publish", "swapBack",
            "unstage", "unmark", "launch", "confirm", "discard", "stop", "rollback",
            "restore", "unfail", "drop", "restart", "relaunch"}
Swapped == {"unmark", "launch", "confirm", "stop", "rollback", "restore", "unfail", "drop"}
Ended == {"done", "failed", "dead"}
Jobs == [pc : {"idle"} \cup Running \cup Ended, version : 0..MaxVersion,
         waits : BOOLEAN, client : {"none", "running", "exited"}]
Down == [up |-> FALSE, v |-> 0, by |-> NoUpdater, pc |-> "off"]

TypeOK ==
    /\ dir \in [Places -> Content]
    /\ marker \in 0..MaxVersion /\ proven \subseteq Content
    /\ desktop.up <=> desktop.pc # "off"
    /\ desktop \in [up : BOOLEAN, v : 0..MaxVersion, by : Updaters \cup {NoUpdater},
                    pc : {"off", "starting", "cleaning", "writing", "ready", "quitting"}]
    /\ service \in BOOLEAN /\ viaService \in BOOLEAN
    /\ job \in [Updaters -> Jobs]

-------------------------------------------------------------------------------
(* Files *)

There(p) == dir[p].state # "none"

\* Windows does not rename a directory whose programs run.
InUse(p) == p = Current /\ (desktop.up \/ service)

\* rename_with_retry: it fails while the source is in use, or if it is gone or
\* the destination is there.
Renamed(from, to) ==
    /\ There(from) /\ ~InUse(from) /\ ~There(to)
    /\ dir' = [dir EXCEPT ![to] = dir[from], ![from] = Nothing]

\* remove_dir_all, its result ignored: each directory goes, loses files or stays.
Removed(S) ==
    \E gone \in SUBSET {p \in S : There(p)} :
    \E torn \in SUBSET ({p \in S : There(p)} \ gone) :
        dir' = [p \in Places |-> CASE p \in gone -> Nothing
                                   [] p \in torn -> [dir[p] EXCEPT !.state = IF @ \in {"torn", "scrap"} THEN "scrap" ELSE "torn"]
                                   [] OTHER -> dir[p]]

-------------------------------------------------------------------------------
(* The desktop *)

Launched(by) == [up |-> TRUE, v |-> dir[Current].v, by |-> by, pc |-> "starting"]

UserStarts ==
    /\ ~desktop.up /\ There(Current)
    /\ Patient => \A u \in Updaters : job[u].pc \in Swapped => marker # job[u].version
    /\ desktop' = Launched(NoUpdater)
    /\ UNCHANGED <<dir, marker, proven, service, viaService, job>>

\* confirm_started_in: reads the marker, ...
ReadMarker ==
    /\ desktop.pc = "starting"
    /\ desktop' = [desktop EXCEPT !.pc = IF marker = desktop.v THEN "cleaning" ELSE "writing"]
    /\ UNCHANGED <<dir, marker, proven, service, viaService, job>>

\* ... removes the backups if it named this version before, ...
CleanBackups ==
    /\ desktop.pc = "cleaning"
    /\ Removed(Backups)
    /\ desktop' = [desktop EXCEPT !.pc = "writing"]
    /\ UNCHANGED <<marker, proven, service, viaService, job>>

\* Mutant: the start is confirmed by a client that is gone.
WriteMarkerLate ==
    /\ desktop.pc \in {"writing", "off"}
    /\ marker' = desktop.v /\ proven' = proven \cup {dir[Current]}
    /\ desktop' = [desktop EXCEPT !.pc = "ready"]
    /\ UNCHANGED <<dir, service, viaService, job>>

\* ... and writes it, if it can.
WriteMarker ==
    /\ desktop.pc = "writing"
    /\ \/ marker' = desktop.v /\ proven' = proven \cup {dir[Current]}
       \/ UNCHANGED <<marker, proven>>
    /\ desktop' = [desktop EXCEPT !.pc = "ready"]
    /\ UNCHANGED <<dir, service, viaService, job>>

\* start_apply, or the service's launch of the helper: this process then quits.
StartApply(u, version) ==
    /\ desktop.up /\ desktop.pc # "quitting" /\ desktop.v < version
    /\ job[u].pc = "idle" /\ (viaService => service)
    /\ Overlap \/ \A w \in Updaters : job[w].pc \notin Running
    /\ job' = [job EXCEPT ![u] = [@ EXCEPT !.pc = "wait", !.version = version, !.waits = TRUE]]
    /\ desktop' = [desktop EXCEPT !.pc = "quitting"]
    /\ UNCHANGED <<dir, marker, proven, service, viaService>>

\* The desktop quits or dies.  Helpers that waited for it go on.
DesktopExit ==
    /\ desktop.up
    /\ desktop' = Down
    /\ job' = [u \in Updaters |->
                  [job[u] EXCEPT !.waits = @ /\ viaService,
                                 !.client = IF desktop.by = u THEN "exited" ELSE @]]
    /\ UNCHANGED <<dir, marker, proven, service, viaService>>

\* The service ends after it launched a helper.
ServiceExit ==
    /\ viaService /\ service
    /\ \E u \in Updaters : job[u].pc = "wait" /\ job[u].waits
    /\ service' = FALSE
    /\ job' = [u \in Updaters |-> [job[u] EXCEPT !.waits = FALSE]]
    /\ UNCHANGED <<dir, marker, proven, desktop, viaService>>

-------------------------------------------------------------------------------
(* apply_update, in the order of its steps *)

Go(u, pc) == job' = [job EXCEPT ![u].pc = pc]
FilesOnly == UNCHANGED <<marker, proven, desktop, service, viaService>>

\* start_service, a no-op without the service.
ServiceStarted == service' = (service \/ (viaService /\ There(Current)))

\* wait_for_process_exit, between two verifications of the archive.
Wait(u) ==
    /\ job[u].pc = "wait"
    /\ \/ ~job[u].waits /\ Go(u, "stale")
       \/ Go(u, "relaunch")
    /\ UNCHANGED dir /\ FilesOnly

\* remove_stale_work_directories: never the backups.
RemoveStale(u) ==
    /\ job[u].pc = "stale"
    /\ Removed({Stage(w) : w \in Updaters} \cup {Failed(w) : w \in Updaters})
    /\ Go(u, "extract") /\ FilesOnly

Extract(u) ==
    /\ job[u].pc = "extract"
    /\ dir' = [dir EXCEPT ![Stage(u)] = [v |-> job[u].version, state |-> "part"]]
    /\ Go(u, "unpack") /\ FilesOnly

\* extract_verified_bundle.  It does not see what another helper removes from
\* files it has already checked.
Unpack(u) ==
    LET p == Stage(u) IN
    /\ job[u].pc = "unpack"
    /\ \/ /\ There(p)
          /\ dir' = [dir EXCEPT ![p].state = IF @ = "part" THEN "whole" ELSE @]
          /\ Go(u, "swap")
       \/ Removed({p}) /\ Go(u, "relaunch")
    /\ FilesOnly

\* transactional_swap: the checks and the first rename.
Swap(u) ==
    /\ job[u].pc = "swap"
    /\ \/ There(Stage(u)) /\ Renamed(Current, Backup(u)) /\ Go(u, "publish")
       \/ Go(u, "unstage") /\ UNCHANGED dir
    /\ FilesOnly

Publish(u) ==
    /\ job[u].pc = "publish"
    /\ \/ Renamed(Stage(u), Current) /\ Go(u, "unmark")
       \/ Go(u, "swapBack") /\ UNCHANGED dir
    /\ FilesOnly

SwapBack(u) ==
    /\ job[u].pc = "swapBack"
    /\ Renamed(Backup(u), Current) \/ UNCHANGED dir
    /\ Go(u, "unstage") /\ FilesOnly

Unstage(u) ==
    /\ job[u].pc = "unstage"
    /\ Removed({Stage(u)})
    /\ Go(u, "relaunch") /\ FilesOnly

\* The marker of an earlier start is removed, if it can be.
Unmark(u) ==
    /\ job[u].pc = "unmark"
    /\ marker' \in {0, marker}
    /\ Go(u, "launch")
    /\ UNCHANGED <<dir, proven, desktop, service, viaService>>

\* launch_client.  A second instance hands over to the first and exits.
Launch(u) ==
    /\ job[u].pc = "launch"
    /\ ServiceStarted
    /\ \/ /\ There(Current) /\ ~desktop.up
          /\ desktop' = Launched(u)
          /\ job' = [job EXCEPT ![u].pc = "confirm", ![u].client = "running"]
       \/ /\ There(Current) /\ desktop.up
          /\ job' = [job EXCEPT ![u].pc = "confirm", ![u].client = "exited"]
          /\ UNCHANGED desktop
       \/ Go(u, "stop") /\ UNCHANGED desktop
    /\ UNCHANGED <<dir, marker, proven, viaService>>

\* Mutant: a client that still runs at the timeout counts as confirmed.
PollImpatient(u) ==
    /\ job[u].pc = "confirm"
    /\ \/ job[u].client = "running" /\ Go(u, "discard")
       \/ job[u].client = "exited" /\ Go(u, "stop")
    /\ UNCHANGED dir /\ FilesOnly

\* launch_and_finalize: confirmed, exited without confirming, or neither after
\* STARTUP_CONFIRM_TIMEOUT, which keeps the backup.
Poll(u) ==
    /\ job[u].pc = "confirm"
    /\ \/ marker = job[u].version /\ Go(u, "discard")
       \/ marker # job[u].version /\ job[u].client = "exited" /\ Go(u, "stop")
       \/ marker # job[u].version /\ job[u].client = "running" /\ Go(u, "done")
    /\ UNCHANGED dir /\ FilesOnly

\* discard_backup.
Discard(u) ==
    /\ job[u].pc = "discard"
    /\ Removed({Backup(u)})
    /\ Go(u, "done") /\ FilesOnly

\* stop_service, which may time out.
StopService(u) ==
    /\ job[u].pc = "stop"
    /\ service' \in {FALSE, service}
    /\ Go(u, "rollback")
    /\ UNCHANGED <<dir, marker, proven, desktop, viaService>>

\* rollback_after_launch_failure.
Rollback(u) ==
    /\ job[u].pc = "rollback"
    /\ \/ Renamed(Current, Failed(u)) /\ Go(u, "restore")
       \/ Go(u, "restart") /\ UNCHANGED dir
    /\ FilesOnly

Restore(u) ==
    /\ job[u].pc = "restore"
    /\ \/ Renamed(Backup(u), Current) /\ Go(u, "drop")
       \/ Go(u, "unfail") /\ UNCHANGED dir
    /\ FilesOnly

Unfail(u) ==
    /\ job[u].pc = "unfail"
    /\ Renamed(Failed(u), Current) \/ UNCHANGED dir
    /\ Go(u, "restart") /\ FilesOnly

Drop(u) ==
    /\ job[u].pc = "drop"
    /\ Removed({Failed(u)})
    /\ Go(u, "restart") /\ FilesOnly

Restart(u) ==
    /\ job[u].pc = "restart"
    /\ ServiceStarted /\ Go(u, "relaunch")
    /\ UNCHANGED <<dir, marker, proven, desktop, viaService>>

\* Mutant: the service is not started again.
RelaunchOnly(u) ==
    /\ job[u].pc = "relaunch"
    /\ \/ There(Current) /\ ~desktop.up /\ desktop' = Launched(NoUpdater)
       \/ UNCHANGED desktop
    /\ Go(u, "failed")
    /\ UNCHANGED <<dir, marker, proven, service, viaService>>

\* relaunch_current_client, after every failure.
Relaunch(u) ==
    /\ job[u].pc = "relaunch"
    /\ ServiceStarted
    /\ \/ There(Current) /\ ~desktop.up /\ desktop' = Launched(NoUpdater)
       \/ UNCHANGED desktop
    /\ Go(u, "failed")
    /\ UNCHANGED <<dir, marker, proven, viaService>>

Crash(u) ==
    /\ job[u].pc \in Running
    /\ Go(u, "dead") /\ UNCHANGED dir /\ FilesOnly

-------------------------------------------------------------------------------
Init ==
    /\ dir = [p \in Places |-> IF p = Current THEN [v |-> 1, state |-> "whole"] ELSE Nothing]
    /\ marker = 1 /\ proven = {dir[Current]}
    /\ desktop = Down
    /\ viaService \in ServiceModes /\ service = viaService
    /\ job = [u \in Updaters |-> [pc |-> "idle", version |-> 0, waits |-> FALSE, client |-> "none"]]

Step(u) ==
    \/ Wait(u) \/ RemoveStale(u) \/ Extract(u) \/ Unpack(u)
    \/ Swap(u) \/ Publish(u) \/ SwapBack(u) \/ Unstage(u)
    \/ Unmark(u) \/ Launch(u) \/ Poll(u) \/ Discard(u)
    \/ StopService(u) \/ Rollback(u) \/ Restore(u) \/ Unfail(u) \/ Drop(u)
    \/ Restart(u) \/ Relaunch(u)

Client ==
    \/ UserStarts \/ ReadMarker \/ CleanBackups \/ WriteMarker
    \/ DesktopExit \/ ServiceExit

Next ==
    \/ Client
    \/ \E u \in Updaters : Step(u) \/ Crash(u)
    \/ \E u \in Updaters, version \in 1..MaxVersion : StartApply(u, version)

Spec == Init /\ [][Next]_vars

-------------------------------------------------------------------------------
(* Properties *)

\* Whatever fails, dies or runs at the same time, an installation that has
\* confirmed its start is in `current' or in a backup, as it was then.
ProvenInstallSurvives == \E p \in {Current} \cup Backups : dir[p] \in proven

\* Helpers that end by themselves leave the service running.
ServiceComesBack ==
    viaService /\ There(Current) /\ (\A u \in Updaters : job[u].pc \in {"idle", "done", "failed"})
        => service
===============================================================================
