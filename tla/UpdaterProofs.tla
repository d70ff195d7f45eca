----------------------------- MODULE UpdaterProofs -----------------------------
(***************************************************************************)
(* What an update promises, for any number of helpers and versions: the    *)
(* service comes back, whatever helpers do at the same time; and if they   *)
(* work one after the other and the user does not start a version again    *)
(* that has just confirmed, a working installation is always left.         *)
(***************************************************************************)
EXTENDS Updater, TLAPS

\* A complete installation of version v.
Whole(v) == [v |-> v, state |-> "whole"]
IsWhole(c) == \E v \in 1..MaxVersion : c = Whole(v)

\* Steps from which start_service still lies ahead.
Owes == Running \ {"confirm", "discard"}

\* A service that is missing although it could run is owed by a helper, or by
\* one that died.
ServiceOwed ==
    viaService /\ There(Current) /\ ~service =>
        \E u \in Updaters : job[u].pc \in Owes \cup {"dead"}

\* Helpers work one after the other, each on a version there is.
OneHelper ==
    /\ \A u, w \in Updaters : job[u].pc \in Running /\ job[w].pc \in Running => u = w
    /\ \A u \in Updaters : job[u].pc \in Running => job[u].version \in 1..MaxVersion

\* What the client relies on: `current' is complete or missing, it runs from
\* there, and the marker and what was confirmed name complete installations.
ClientInv ==
    /\ dir[Current] = Nothing \/ IsWhole(dir[Current])
    /\ desktop.up => There(Current) /\ desktop.v = dir[Current].v
    /\ \A c \in proven : IsWhole(c)
    /\ marker # 0 => Whole(marker) \in proven
    /\ desktop.pc = "cleaning" => dir[Current] \in proven

\* Some backup is an installation that confirmed.
Kept == \E w \in Updaters : dir[Backup(w)] \in proven

\* Where the new version is, at each step of the helper.
VersionInv(u) ==
    LET pc == job[u].pc
        new == Whole(job[u].version)
    IN  /\ pc = "unpack" => dir[Stage(u)] = [v |-> job[u].version, state |-> "part"]
        /\ pc \in {"swap", "publish"} => dir[Stage(u)] = new
        /\ pc \in {"publish", "swapBack", "restore", "unfail"} => dir[Current] = Nothing
        /\ pc \in {"unmark", "launch", "confirm", "discard", "stop", "rollback"} =>
              dir[Current] = new
        /\ pc \in {"restore", "unfail"} => dir[Failed(u)] = new

\* Where the old one is: its backup is whole, and some backup is proven, until
\* the new version has confirmed; before, no client removes backups.
BackupInv(u) ==
    LET pc == job[u].pc
        confirmed == marker = job[u].version
    IN  /\ pc \in {"publish", "swapBack", "restore"} => IsWhole(dir[Backup(u)])
        /\ pc \in {"unmark", "launch", "stop", "rollback"} \/ (pc = "confirm" /\ ~confirmed) =>
              IsWhole(dir[Backup(u)]) /\ Kept /\ desktop.pc # "cleaning"
        /\ pc \in {"unmark", "launch", "stop", "rollback"} /\ desktop.pc = "starting" => ~confirmed
        /\ pc = "discard" => dir[Current] \in proven

\* The invariant of a helper at a time.
InstallInv ==
    /\ OneHelper /\ ClientInv /\ ProvenInstallSurvives
    /\ \A u \in Updaters : VersionInv(u) /\ BackupInv(u)

-------------------------------------------------------------------------------
(* Directories *)

\* The directories differ, and each is a place.
LEMMA PlacesDiffer ==
    ASSUME NEW u \in Updaters
    PROVE  /\ Current \in Places /\ Stage(u) \in Places /\ Backup(u) \in Places
           /\ Failed(u) \in Places
           /\ Current \notin {Stage(u), Backup(u), Failed(u)}
           /\ Stage(u) \notin {Backup(u), Failed(u)} /\ Backup(u) # Failed(u)
           /\ \A w \in Updaters : /\ Backup(w) \in Places /\ Stage(w) \in Places
                                  /\ Failed(w) \in Places
                                  /\ Backup(w) \notin {Current, Stage(u), Failed(u)}
                                  /\ (w # u => Backup(w) # Backup(u))
BY DEF Current, Stage, Backup, Failed, Places

\* The installation directory is a place.
LEMMA CurrentIsPlace == Current \in Places /\ Backups \subseteq Places
BY DEF Current, Places, Backups, Backup

\* Nothing and a complete installation are contents.
LEMMA ContentsAre ==
    /\ Nothing \in Content /\ Nothing.state = "none"
    /\ \A v : Whole(v).v = v /\ Whole(v).state = "whole"
    /\ \A v \in 1..MaxVersion : Whole(v) \in Content
    /\ \A c : IsWhole(c) => c.state = "whole" /\ c.v \in 1..MaxVersion /\ c = Whole(c.v)
    /\ ~IsWhole(Nothing)
<1>1. Nothing \in Content /\ Nothing.state = "none"
  BY UpdaterAssumption DEF Nothing, Content
<1>2. \A v : Whole(v).v = v /\ Whole(v).state = "whole"
  BY DEF Whole
<1>3. \A v \in 1..MaxVersion : Whole(v) \in Content
  BY UpdaterAssumption DEF Whole, Content
<1>4. \A c : IsWhole(c) => c.state = "whole" /\ c.v \in 1..MaxVersion /\ c = Whole(c.v)
  BY <1>2 DEF IsWhole
<1> QED
  BY <1>1, <1>2, <1>3, <1>4

\* A rename moves one directory to a place where there was none.
LEMMA RenamedDoes ==
    ASSUME TypeOK, NEW from \in Places, NEW to \in Places, from # to, Renamed(from, to)
    PROVE  /\ dir' \in [Places -> Content]
           /\ dir'[to] = dir[from] /\ dir'[from] = Nothing
           /\ \A p \in Places \ {from, to} : dir'[p] = dir[p]
           /\ dir[from].state # "none" /\ dir[to].state = "none"
           /\ from = Current => ~desktop.up
<1>1. dir \in [Places -> Content] /\ dir' = [dir EXCEPT ![to] = dir[from], ![from] = Nothing]
  BY DEF TypeOK, Renamed
<1>2. dir[from].state # "none" /\ dir[to].state = "none" /\ (from = Current => ~desktop.up)
  BY DEF Renamed, There, InUse
<1> QED
  BY <1>1, <1>2, ContentsAre

\* A removal touches nothing else.
LEMMA RemovedDoes ==
    ASSUME TypeOK, NEW S, Removed(S)
    PROVE  /\ dir' \in [Places -> Content]
           /\ \A p \in Places \ S : dir'[p] = dir[p]
<1>1. PICK gone \in SUBSET {p \in S : There(p)} :
         \E torn \in SUBSET ({p \in S : There(p)} \ gone) :
            dir' = [p \in Places |->
               CASE p \in gone -> Nothing
                 [] p \in torn -> [dir[p] EXCEPT !.state = IF @ \in {"torn", "scrap"} THEN "scrap" ELSE "torn"]
                 [] OTHER -> dir[p]]
  BY DEF Removed
<1>2. PICK torn \in SUBSET ({p \in S : There(p)} \ gone) :
         dir' = [p \in Places |->
            CASE p \in gone -> Nothing
              [] p \in torn -> [dir[p] EXCEPT !.state = IF @ \in {"torn", "scrap"} THEN "scrap" ELSE "torn"]
              [] OTHER -> dir[p]]
  BY <1>1
<1> DEFINE New(p) ==
        CASE p \in gone -> Nothing
          [] p \in torn -> [dir[p] EXCEPT !.state = IF @ \in {"torn", "scrap"} THEN "scrap" ELSE "torn"]
          [] OTHER -> dir[p]
<1>3. ASSUME NEW p \in Places
      PROVE  New(p) \in Content /\ (p \notin S => New(p) = dir[p])
  <2>1. dir[p] \in Content
    BY DEF TypeOK
  <2>2. CASE p \in gone
    BY <2>2, ContentsAre
  <2>3. CASE p \in torn
    <3>1. p \notin gone /\ p \in S
      BY <2>3
    <3>2. New(p) = [dir[p] EXCEPT !.state = IF @ \in {"torn", "scrap"} THEN "scrap" ELSE "torn"]
      BY <2>3, <3>1
    <3> QED
      BY <2>1, <3>1, <3>2 DEF Content
  <2>4. CASE p \notin gone /\ p \notin torn
    BY <2>1, <2>4
  <2> QED
    BY <2>2, <2>3, <2>4
<1>4. dir' = [p \in Places |-> New(p)]
  BY <1>2
<1> HIDE DEF New
<1> QED
  BY <1>3, <1>4

-------------------------------------------------------------------------------
(* Helpers and client *)

Pcs == {"idle"} \cup Running \cup Ended

\* One helper goes to pc and keeps its version.
Moves(u, pc) ==
    /\ job' \in [Updaters -> Jobs]
    /\ job'[u].pc = pc /\ job'[u].version = job[u].version
    /\ \A w \in Updaters : w # u => job'[w] = job[w]

\* Go moves one helper.
LEMMA GoMoves ==
    ASSUME TypeOK, NEW u \in Updaters, NEW pc \in Pcs, Go(u, pc)
    PROVE  Moves(u, pc)
<1>1. job[u] \in Jobs /\ job' = [job EXCEPT ![u] = [job[u] EXCEPT !.pc = pc]]
  BY DEF TypeOK, Go
<1>2. [job[u] EXCEPT !.pc = pc] \in Jobs
  BY <1>1 DEF Jobs, Pcs
<1> QED
  BY <1>1, <1>2 DEF Moves, TypeOK, Jobs

\* The client as it was launched from a complete installation.
LEMMA LaunchedIs ==
    ASSUME TypeOK, NEW by \in Updaters \cup {NoUpdater}
    PROVE  /\ Launched(by).up /\ Launched(by).pc = "starting"
           /\ Launched(by).v = dir[Current].v
           /\ Launched(by) \in [up : BOOLEAN, v : 0..MaxVersion, by : Updaters \cup {NoUpdater},
                  pc : {"off", "starting", "cleaning", "writing", "ready", "quitting"}]
<1>1. dir[Current] \in Content
  BY CurrentIsPlace DEF TypeOK
<1> QED
  BY <1>1 DEF Launched, Content

\* A step of the client to another point of its start.
ClientMoves(pc) ==
    /\ desktop'.pc = pc /\ desktop'.up /\ desktop'.v = desktop.v
    /\ desktop' \in [up : BOOLEAN, v : 0..MaxVersion, by : Updaters \cup {NoUpdater},
          pc : {"off", "starting", "cleaning", "writing", "ready", "quitting"}]

\* The client's record with another pc.
LEMMA ClientGoes ==
    ASSUME TypeOK, desktop.up, NEW pc \in {"cleaning", "writing", "ready", "quitting"},
           desktop' = [desktop EXCEPT !.pc = pc]
    PROVE  ClientMoves(pc)
BY DEF TypeOK, ClientMoves

-------------------------------------------------------------------------------
(* Types, and the service that comes back *)

\* A step of a helper on the directories alone.
LEMMA FilesTypes ==
    ASSUME TypeOK, NEW u \in Updaters, NEW pc \in Pcs, Go(u, pc), FilesOnly,
           dir' \in [Places -> Content]
    PROVE  TypeOK'
BY GoMoves DEF TypeOK, Moves, FilesOnly

\* The removals and renames of a helper keep the types.
LEMMA DirTypes ==
    ASSUME TypeOK, NEW u \in Updaters
    PROVE  /\ \A S : Removed(S) => dir' \in [Places -> Content]
           /\ \A from, to \in {Current, Stage(u), Backup(u), Failed(u)} :
                 from # to /\ Renamed(from, to) => dir' \in [Places -> Content]
           /\ UNCHANGED dir => dir' \in [Places -> Content]
<1>1. \A S : Removed(S) => dir' \in [Places -> Content]
  BY RemovedDoes
<1>2. \A from, to \in {Current, Stage(u), Backup(u), Failed(u)} :
         from # to /\ Renamed(from, to) => dir' \in [Places -> Content]
  BY PlacesDiffer, RenamedDoes
<1> QED
  BY <1>1, <1>2 DEF TypeOK

\* Every step of a helper keeps the types.
LEMMA HelperTypes ==
    ASSUME TypeOK, NEW u \in Updaters, Step(u) \/ Crash(u)
    PROVE  TypeOK'
<1> USE DEF Pcs, Running, Ended
<1>0. /\ job[u] \in Jobs /\ job[u].version \in 0..MaxVersion
      /\ Current \in {Current, Stage(u), Backup(u), Failed(u)}
  BY DEF TypeOK, Jobs
<1>1. CASE Wait(u) \/ Poll(u) \/ Crash(u)
  BY <1>1, FilesTypes, DirTypes DEF Wait, Poll, Crash
<1>2. CASE RemoveStale(u) \/ Unstage(u) \/ Discard(u) \/ Drop(u)
  BY <1>2, FilesTypes, DirTypes DEF RemoveStale, Unstage, Discard, Drop
<1>3. CASE Extract(u)
  <2>1. [v |-> job[u].version, state |-> "part"] \in Content
    BY <1>0 DEF Content
  <2>2. dir' \in [Places -> Content]
    BY <1>3, <2>1, PlacesDiffer DEF Extract, TypeOK
  <2> QED
    BY <1>3, <2>2, FilesTypes DEF Extract
<1>4. CASE Unpack(u)
  <2>1. Go(u, "swap") \/ Go(u, "relaunch")
    BY <1>4 DEF Unpack
  <2>2. dir' \in [Places -> Content]
    <3>1. dir[Stage(u)] \in Content
      BY PlacesDiffer DEF TypeOK
    <3>2. \/ Removed({Stage(u)})
          \/ dir' = [dir EXCEPT ![Stage(u)] =
                        [dir[Stage(u)] EXCEPT !.state = IF @ = "part" THEN "whole" ELSE @]]
      BY <1>4 DEF Unpack
    <3>3. [dir[Stage(u)] EXCEPT !.state = IF @ = "part" THEN "whole" ELSE @] \in Content
      BY <3>1 DEF Content
    <3> QED
      BY <3>2, <3>3, DirTypes DEF TypeOK
  <2> QED
    BY <1>4, <2>1, <2>2, FilesTypes DEF Unpack
<1>5. CASE Swap(u) \/ Publish(u) \/ SwapBack(u) \/ Rollback(u) \/ Restore(u) \/ Unfail(u)
  <2>1. dir' \in [Places -> Content]
    BY <1>5, PlacesDiffer, DirTypes DEF Swap, Publish, SwapBack, Rollback, Restore, Unfail
  <2> QED
    BY <1>5, <2>1, FilesTypes DEF Swap, Publish, SwapBack, Rollback, Restore, Unfail
<1>6. CASE Unmark(u)
  <2>1. marker' \in 0..MaxVersion
    BY <1>6, UpdaterAssumption DEF Unmark, TypeOK
  <2> QED
    BY <1>6, <2>1, GoMoves DEF Unmark, Moves, TypeOK
<1>7. CASE Launch(u)
  <2>1. service' \in BOOLEAN
    BY <1>7 DEF Launch, ServiceStarted, TypeOK
  <2>2. job' \in [Updaters -> Jobs]
    <3>1. ASSUME NEW c \in {"running", "exited"},
                 job' = [job EXCEPT ![u].pc = "confirm", ![u].client = c]
          PROVE  job' \in [Updaters -> Jobs]
      <4>1. job' = [job EXCEPT ![u] = [job[u] EXCEPT !.pc = "confirm", !.client = c]]
        BY <3>1 DEF TypeOK
      <4>2. [job[u] EXCEPT !.pc = "confirm", !.client = c] \in Jobs
        BY <1>0 DEF Jobs
      <4> QED
        BY <4>1, <4>2 DEF TypeOK
    <3> QED
      BY <1>7, <3>1, GoMoves DEF Launch, Moves
  <2> QED
    BY <1>7, <2>1, <2>2, LaunchedIs DEF Launch, TypeOK
<1>8. CASE StopService(u)
  BY <1>8, GoMoves DEF StopService, Moves, TypeOK
<1>9. CASE Restart(u)
  BY <1>9, GoMoves DEF Restart, ServiceStarted, Moves, TypeOK
<1>10. CASE Relaunch(u)
  <2>1. service' \in BOOLEAN /\ job' \in [Updaters -> Jobs]
    BY <1>10, GoMoves DEF Relaunch, ServiceStarted, Moves, TypeOK
  <2> QED
    BY <1>10, <2>1, LaunchedIs DEF Relaunch, TypeOK
<1> QED
  BY <1>1, <1>2, <1>3, <1>4, <1>5, <1>6, <1>7, <1>8, <1>9, <1>10 DEF Step

\* Every step of the client and of the service keeps the types; helpers stay
\* where they are.
LEMMA ClientTypes ==
    ASSUME TypeOK, Client
    PROVE  /\ TypeOK'
           /\ \A u \in Updaters : /\ job'[u].pc = job[u].pc
                                  /\ job'[u].version = job[u].version
<1>1. CASE UserStarts
  BY <1>1, LaunchedIs DEF UserStarts, TypeOK
<1>2. CASE ReadMarker
  <2>1. desktop.up
    BY <1>2 DEF ReadMarker, TypeOK
  <2>2. ClientMoves("cleaning") \/ ClientMoves("writing")
    BY <1>2, <2>1, ClientGoes DEF ReadMarker
  <2> QED
    BY <1>2, <2>2 DEF ReadMarker, ClientMoves, TypeOK
<1>3. CASE CleanBackups
  <2>1. desktop.up
    BY <1>3 DEF CleanBackups, TypeOK
  <2>2. ClientMoves("writing") /\ dir' \in [Places -> Content]
    BY <1>3, <2>1, ClientGoes, RemovedDoes DEF CleanBackups
  <2> QED
    BY <1>3, <2>2 DEF CleanBackups, ClientMoves, TypeOK
<1>4. CASE WriteMarker
  <2>1. desktop.up /\ desktop.v \in 0..MaxVersion /\ dir[Current] \in Content
    BY <1>4, CurrentIsPlace DEF WriteMarker, TypeOK
  <2>2. ClientMoves("ready")
    BY <1>4, <2>1, ClientGoes DEF WriteMarker
  <2>3. marker' \in 0..MaxVersion /\ proven' \subseteq Content
    BY <1>4, <2>1 DEF WriteMarker, TypeOK
  <2> QED
    BY <1>4, <2>2, <2>3 DEF WriteMarker, ClientMoves, TypeOK
<1>5. CASE DesktopExit
  <2> DEFINE New(u) == [job[u] EXCEPT !.waits = @ /\ viaService,
                                      !.client = IF desktop.by = u THEN "exited" ELSE @]
  <2>0. 0 \in 0..MaxVersion
    BY UpdaterAssumption
  <2>1. /\ Down.up = FALSE /\ Down.pc = "off"
        /\ Down \in [up : BOOLEAN, v : 0..MaxVersion, by : Updaters \cup {NoUpdater},
              pc : {"off", "starting", "cleaning", "writing", "ready", "quitting"}]
    BY <2>0 DEF Down
  <2>5. desktop' = Down
    BY <1>5 DEF DesktopExit
  <2>2. ASSUME NEW u \in Updaters
        PROVE  /\ New(u) \in Jobs /\ New(u).pc = job[u].pc /\ New(u).version = job[u].version
    <3>1. job[u] \in Jobs
      BY DEF TypeOK
    <3> QED
      BY <3>1 DEF Jobs
  <2>3. job' = [u \in Updaters |-> New(u)]
    BY <1>5 DEF DesktopExit
  <2> HIDE DEF New
  <2>4. job' \in [Updaters -> Jobs] /\ \A u \in Updaters : job'[u] = New(u)
    BY <2>2, <2>3
  <2> QED
    BY <1>5, <2>1, <2>2, <2>4, <2>5 DEF DesktopExit, TypeOK
<1>6. CASE ServiceExit
  <2> DEFINE New(u) == [job[u] EXCEPT !.waits = FALSE]
  <2>1. ASSUME NEW u \in Updaters
        PROVE  /\ New(u) \in Jobs /\ New(u).pc = job[u].pc /\ New(u).version = job[u].version
    <3>1. job[u] \in Jobs
      BY DEF TypeOK
    <3> QED
      BY <3>1 DEF Jobs
  <2>2. job' = [u \in Updaters |-> New(u)] /\ service' = FALSE
    BY <1>6 DEF ServiceExit
  <2> HIDE DEF New
  <2>3. job' \in [Updaters -> Jobs] /\ \A u \in Updaters : job'[u] = New(u)
    BY <2>1, <2>2
  <2> QED
    BY <1>6, <2>1, <2>2, <2>3 DEF ServiceExit, TypeOK
<1> QED
  BY <1>1, <1>2, <1>3, <1>4, <1>5, <1>6 DEF Client

\* A helper that is started waits; the client that started it quits.
LEMMA StartTypes ==
    ASSUME TypeOK, NEW u \in Updaters, NEW version \in 1..MaxVersion, StartApply(u, version)
    PROVE  /\ TypeOK' /\ ClientMoves("quitting")
           /\ job'[u].pc = "wait" /\ job'[u].version = version
           /\ \A w \in Updaters : w # u => job'[w] = job[w]
<1> DEFINE x == [job[u] EXCEPT !.pc = "wait", !.version = version, !.waits = TRUE]
<1>1. ClientMoves("quitting")
  BY ClientGoes DEF StartApply
<1>2. job[u] \in Jobs /\ version \in 0..MaxVersion
  BY DEF TypeOK
<1>3. x \in Jobs /\ x.pc = "wait" /\ x.version = version
  BY <1>2 DEF Jobs, Running
<1>4. job' = [job EXCEPT ![u] = x]
  BY DEF StartApply
<1> HIDE DEF x
<1> QED
  BY <1>1, <1>3, <1>4 DEF StartApply, ClientMoves, TypeOK

\* A helper that is not about to end owes the service, wherever it goes; one
\* that ends, or waits for its client, has started it.
LEMMA HelperOwes ==
    ASSUME TypeOK, ServiceOwed, NEW u \in Updaters, Step(u) \/ Crash(u)
    PROVE  ServiceOwed'
<1> USE DEF Pcs, Running, Ended
<1>1. ASSUME NEW pc \in Owes \cup {"dead"}, Go(u, pc)
      PROVE  ServiceOwed'
  <2>1. job'[u].pc = pc
    BY <1>1, GoMoves DEF Moves, Owes
  <2> QED
    BY <1>1, <2>1 DEF ServiceOwed
<1>2. ASSUME NEW pc \in {"discard", "done"}, Go(u, pc), job[u].pc \in {"confirm", "discard"},
             UNCHANGED <<service, viaService>>, dir'[Current] = dir[Current]
      PROVE  ServiceOwed'
  <2>1. \A w \in Updaters : job[w].pc \in Owes \cup {"dead"} => job'[w].pc = job[w].pc
    BY <1>2, GoMoves DEF Moves, Owes
  <2> QED
    BY <1>2, <2>1 DEF ServiceOwed, There
<1>3. ASSUME ServiceStarted, UNCHANGED <<dir, viaService>>
      PROVE  ServiceOwed'
  BY <1>3 DEF ServiceStarted, ServiceOwed, There, TypeOK
<1>4. CASE \/ Wait(u) \/ RemoveStale(u) \/ Extract(u) \/ Unpack(u) \/ Swap(u) \/ Publish(u)
           \/ SwapBack(u) \/ Unstage(u) \/ Unmark(u) \/ StopService(u) \/ Rollback(u)
           \/ Restore(u) \/ Unfail(u) \/ Drop(u) \/ Restart(u) \/ Crash(u)
  <2>1. \E pc \in Owes \cup {"dead"} : Go(u, pc)
    BY <1>4 DEF Wait, RemoveStale, Extract, Unpack, Swap, Publish, SwapBack, Unstage, Unmark,
                StopService, Rollback, Restore, Unfail, Drop, Restart, Crash, Owes
  <2> QED
    BY <1>1, <2>1
<1>5. CASE Launch(u) \/ Relaunch(u)
  BY <1>3, <1>5 DEF Launch, Relaunch
<1>6. CASE Poll(u)
  BY <1>1, <1>2, <1>6 DEF Poll, FilesOnly, Owes
<1>7. CASE Discard(u)
  <2>1. dir'[Current] = dir[Current]
    BY <1>7, RemovedDoes, PlacesDiffer DEF Discard
  <2> QED
    BY <1>2, <1>7, <2>1 DEF Discard, FilesOnly
<1> QED
  BY <1>4, <1>5, <1>6, <1>7 DEF Step

\* The service ends by itself only for a helper that will start it again.
LEMMA ClientOwes ==
    ASSUME TypeOK, ServiceOwed, Client
    PROVE  ServiceOwed'
<1>1. \A u \in Updaters : job'[u].pc = job[u].pc
  BY ClientTypes
<1>2. CASE ServiceExit
  <2>1. PICK u \in Updaters : job[u].pc = "wait"
    BY <1>2 DEF ServiceExit
  <2> QED
    BY <1>1, <2>1 DEF ServiceOwed, Owes, Running
<1>3. CASE ~ServiceExit
  <2>1. dir'[Current] = dir[Current] /\ UNCHANGED <<service, viaService>>
    <3>1. CASE CleanBackups
      <4>1. Current \in Places \ Backups
        BY CurrentIsPlace DEF Backups, Backup, Current
      <4> QED
        BY <3>1, <4>1, RemovedDoes DEF CleanBackups
    <3>2. CASE ~CleanBackups
      BY <1>3, <3>2 DEF Client, UserStarts, ReadMarker, WriteMarker, DesktopExit
    <3> QED
      BY <1>3, <3>1, <3>2 DEF Client, CleanBackups
  <2> QED
    BY <1>1, <2>1 DEF ServiceOwed, There
<1> QED
  BY <1>2, <1>3

\* The first layer of the invariant.
ServiceInv == TypeOK /\ ServiceOwed

\* It holds of a fresh installation.
LEMMA ServiceInit == Init => ServiceInv
<1> SUFFICES ASSUME Init PROVE ServiceInv
  OBVIOUS
<1>1. 1 \in 1..MaxVersion /\ 1 \in 0..MaxVersion /\ 0 \in 0..MaxVersion
  BY UpdaterAssumption
<1>2. [v |-> 1, state |-> "whole"] \in Content
  BY <1>1 DEF Content
<1>3. dir \in [Places -> Content] /\ dir[Current] \in Content
  BY <1>2, ContentsAre, CurrentIsPlace DEF Init
<1>4. /\ Down.up = FALSE /\ Down.pc = "off"
      /\ Down \in [up : BOOLEAN, v : 0..MaxVersion, by : Updaters \cup {NoUpdater},
            pc : {"off", "starting", "cleaning", "writing", "ready", "quitting"}]
  BY <1>1 DEF Down
<1>5. [pc |-> "idle", version |-> 0, waits |-> FALSE, client |-> "none"] \in Jobs
  BY <1>1 DEF Jobs
<1>6. viaService \in BOOLEAN /\ service = viaService
  BY UpdaterAssumption DEF Init
<1> QED
  BY <1>1, <1>3, <1>4, <1>5, <1>6 DEF Init, ServiceInv, TypeOK, ServiceOwed

\* Every step keeps it, whatever the user does and however helpers overlap.
LEMMA ServiceNext == ServiceInv /\ [Next]_vars => ServiceInv'
<1> SUFFICES ASSUME ServiceInv, [Next]_vars PROVE ServiceInv'
  OBVIOUS
<1>0. TypeOK /\ ServiceOwed
  BY DEF ServiceInv
<1>1. CASE UNCHANGED vars
  BY <1>0, <1>1 DEF vars, ServiceInv, TypeOK, ServiceOwed, There
<1>2. CASE Client
  BY <1>0, <1>2, ClientTypes, ClientOwes DEF ServiceInv
<1>3. ASSUME NEW u \in Updaters, Step(u) \/ Crash(u)
      PROVE  ServiceInv'
  BY <1>0, <1>3, HelperTypes, HelperOwes DEF ServiceInv
<1>4. ASSUME NEW u \in Updaters, NEW version \in 1..MaxVersion, StartApply(u, version)
      PROVE  ServiceInv'
  <2>1. TypeOK' /\ job'[u].pc = "wait"
    BY <1>0, <1>4, StartTypes
  <2> QED
    BY <2>1 DEF ServiceInv, ServiceOwed, Owes, Running
<1> QED
  BY <1>1, <1>2, <1>3, <1>4 DEF Next

\* The two together are an invariant.
LEMMA ServiceInvariant == Spec => []ServiceInv
BY ServiceInit, ServiceNext, PTL DEF Spec

\* Directories, client and helpers keep their types, for any number of helpers
\* and versions.
THEOREM UpdaterTypes == Spec => []TypeOK
<1>1. ServiceInv => TypeOK
  BY DEF ServiceInv
<1> QED
  BY <1>1, ServiceInvariant, PTL

\* Helpers that end by themselves leave the service running, also when several
\* of them work at the same time.
THEOREM ServiceIsRestored == Spec => []ServiceComesBack
<1>1. ServiceInv => ServiceComesBack
  BY DEF ServiceInv, ServiceOwed, ServiceComesBack, Owes, Running, TypeOK
<1> QED
  BY <1>1, ServiceInvariant, PTL

-------------------------------------------------------------------------------
(* A working installation is left *)

Plain == Pcs \ {"unpack", "swap", "publish", "swapBack", "restore", "unfail", "unmark",
                "launch", "confirm", "discard", "stop", "rollback"}

\* What the invariant says of `current', the marker and the confirmed versions.
LEMMA ClientFacts ==
    ASSUME TypeOK, ClientInv
    PROVE  /\ There(Current) => IsWhole(dir[Current])
           /\ dir[Current] \in proven => There(Current)
           /\ ~There(Current) => ~desktop.up
           /\ \A p \in Places : dir[p].state = "none" => dir[p] \notin proven
           /\ ~desktop.up <=> desktop.pc = "off"
BY ContentsAre DEF TypeOK, ClientInv, There

\* An installation survives in `current' or in a backup.
LEMMA SurvivesHere == ProvenInstallSurvives => dir[Current] \in proven \/ Kept
BY DEF ProvenInstallSurvives, Kept, Backups

\* The same after a step, from either place.
LEMMA SurvivesThen ==
    ASSUME \/ dir'[Current] \in proven'
           \/ \E w \in Updaters : dir'[Backup(w)] \in proven'
    PROVE  ProvenInstallSurvives'
BY DEF ProvenInstallSurvives, Backups

\* At these steps nothing is claimed of a helper's directories.
LEMMA PlainClaimsNothing ==
    ASSUME NEW u \in Updaters, job'[u].pc \in Plain
    PROVE  VersionInv(u)' /\ BackupInv(u)'
BY DEF VersionInv, BackupInv, Plain

\* A step of the one helper at work keeps the invariant if it does for itself.
LEMMA HelperStep ==
    ASSUME TypeOK, InstallInv, NEW u \in Updaters, job[u].pc \in Running, NEW pc, Moves(u, pc),
           ClientInv', ProvenInstallSurvives', VersionInv(u)', BackupInv(u)'
    PROVE  InstallInv'
<1>1. \A w \in Updaters : w # u => job[w].pc \notin Running /\ job'[w] = job[w]
  BY DEF InstallInv, OneHelper, Moves
<1>2. OneHelper'
  BY <1>1 DEF InstallInv, OneHelper, Moves
<1>3. ASSUME NEW w \in Updaters, w # u
      PROVE  VersionInv(w)' /\ BackupInv(w)'
  <2>1. job'[w].pc \in Pcs /\ job'[w].pc \notin Running
    BY <1>1, <1>3 DEF Moves, Jobs, Pcs
  <2>2. job'[w].pc \in Plain
    BY <2>1 DEF Plain, Running
  <2> QED
    BY <2>2, PlainClaimsNothing
<1> QED
  BY <1>2, <1>3 DEF InstallInv

\* A step that leaves `current', the backups and the client alone.
LEMMA Quiet ==
    ASSUME TypeOK, InstallInv, UNCHANGED <<marker, proven, desktop>>,
           dir'[Current] = dir[Current], \A w \in Updaters : dir'[Backup(w)] = dir[Backup(w)]
    PROVE  ClientInv' /\ ProvenInstallSurvives' /\ (Kept => Kept')
<1>1. ClientInv'
  BY DEF InstallInv, ClientInv, There
<1>2. ProvenInstallSurvives' /\ (Kept => Kept')
  BY SurvivesHere, SurvivesThen DEF InstallInv, Kept
<1> QED
  BY <1>1, <1>2

\* A step that moves another installation, or none, to `current' while no
\* client runs.
LEMMA CurrentChanges ==
    ASSUME TypeOK, ClientInv, UNCHANGED <<marker, proven, desktop>>, ~desktop.up,
           dir'[Current] = Nothing \/ IsWhole(dir'[Current])
    PROVE  ClientInv'
BY DEF TypeOK, ClientInv, There

\* A removal of other directories than these.
LEMMA RemovesOther ==
    ASSUME TypeOK, NEW S, Removed(S), NEW u \in Updaters,
           S \subseteq {Stage(w) : w \in Updaters} \cup {Failed(w) : w \in Updaters}
    PROVE  /\ dir'[Current] = dir[Current]
           /\ \A w \in Updaters : dir'[Backup(w)] = dir[Backup(w)]
<1>1. Current \in Places \ S /\ \A w \in Updaters : Backup(w) \in Places \ S
  BY PlacesDiffer DEF Stage, Failed, Current, Backup
<1> QED
  BY <1>1, RemovedDoes

\* Steps of a helper before it touches `current'.
LEMMA PreparesQuietly ==
    ASSUME TypeOK, InstallInv, NEW u \in Updaters,
           \/ Wait(u) \/ RemoveStale(u) \/ Extract(u) \/ Unpack(u) \/ Unstage(u) \/ Drop(u)
           \/ Restart(u) \/ Crash(u)
    PROVE  InstallInv'
<1> USE DEF Pcs, Running, Ended
<1>0. job[u].pc \in Running /\ UNCHANGED <<marker, proven, desktop>>
  BY DEF Wait, RemoveStale, Extract, Unpack, Unstage, Drop, Restart, Crash, FilesOnly
<1>1. /\ dir'[Current] = dir[Current]
      /\ \A w \in Updaters : dir'[Backup(w)] = dir[Backup(w)]
  <2>1. CASE Wait(u) \/ Restart(u) \/ Crash(u)
    BY <2>1 DEF Wait, Restart, Crash
  <2>2. CASE RemoveStale(u) \/ Unstage(u) \/ Drop(u)
    BY <2>2, RemovesOther DEF RemoveStale, Unstage, Drop
  <2>3. CASE Extract(u)
    BY <2>3, PlacesDiffer DEF Extract, TypeOK
  <2>4. CASE Unpack(u)
    <3>1. CASE Removed({Stage(u)})
      BY <3>1, RemovesOther
    <3>2. CASE ~Removed({Stage(u)})
      BY <2>4, <3>2, PlacesDiffer DEF Unpack, TypeOK
    <3> QED
      BY <3>1, <3>2
  <2> QED
    BY <2>1, <2>2, <2>3, <2>4
<1>2. ClientInv' /\ ProvenInstallSurvives'
  BY <1>0, <1>1, Quiet
<1>3. ASSUME NEW pc \in Plain, Go(u, pc)
      PROVE  InstallInv'
  <2>1. Moves(u, pc)
    BY <1>3, GoMoves DEF Plain
  <2> QED
    BY <1>0, <1>2, <1>3, <2>1, HelperStep, PlainClaimsNothing DEF Moves
<1>4. CASE Wait(u) \/ RemoveStale(u) \/ Unstage(u) \/ Drop(u) \/ Restart(u) \/ Crash(u)
  <2>1. \E pc \in Plain : Go(u, pc)
    BY <1>4 DEF Wait, RemoveStale, Unstage, Drop, Restart, Crash, Plain
  <2> QED
    BY <1>3, <2>1
<1>5. CASE Extract(u)
  <2>1. Moves(u, "unpack")
    BY <1>5, GoMoves DEF Extract
  <2>2. dir'[Stage(u)] = [v |-> job[u].version, state |-> "part"]
    BY <1>5, PlacesDiffer DEF Extract, TypeOK
  <2>3. VersionInv(u)' /\ BackupInv(u)'
    BY <2>1, <2>2 DEF Moves, VersionInv, BackupInv
  <2> QED
    BY <1>0, <1>2, <2>1, <2>3, HelperStep
<1>6. CASE Unpack(u)
  <2>1. CASE Go(u, "relaunch")
    BY <1>3, <2>1 DEF Plain
  <2>2. CASE Go(u, "swap") /\ dir' = [dir EXCEPT ![Stage(u)].state = IF @ = "part" THEN "whole" ELSE @]
    <3>1. Moves(u, "swap")
      BY <2>2, GoMoves
    <3>2. dir[Stage(u)] = [v |-> job[u].version, state |-> "part"]
      BY <1>6 DEF InstallInv, VersionInv, Unpack
    <3>3. [dir[Stage(u)] EXCEPT !.state = IF @ = "part" THEN "whole" ELSE @] = Whole(job[u].version)
      BY <3>2 DEF Whole
    <3>4. dir'[Stage(u)] = Whole(job[u].version)
      BY <2>2, <3>3, PlacesDiffer DEF TypeOK
    <3>5. VersionInv(u)' /\ BackupInv(u)'
      BY <3>1, <3>4 DEF Moves, VersionInv, BackupInv
    <3> QED
      BY <1>0, <1>2, <3>1, <3>5, HelperStep
  <2> QED
    BY <1>6, <2>1, <2>2 DEF Unpack
<1> QED
  BY <1>4, <1>5, <1>6

\* A whole backup that goes back to `current' keeps what was confirmed.
LEMMA BackupReturns ==
    ASSUME TypeOK, InstallInv, NEW u \in Updaters, UNCHANGED <<marker, proven, desktop>>,
           job[u].pc \in {"swapBack", "restore"}, Renamed(Backup(u), Current)
    PROVE  ClientInv' /\ ProvenInstallSurvives'
<1>1. /\ ClientInv /\ dir[Current] = Nothing /\ IsWhole(dir[Backup(u)])
  BY DEF InstallInv, VersionInv, BackupInv
<1>2. ~desktop.up /\ dir[Current] \notin proven
  BY <1>1, ClientFacts, ContentsAre, CurrentIsPlace DEF There
<1>3. /\ dir'[Current] = dir[Backup(u)]
      /\ \A w \in Updaters : w # u => dir'[Backup(w)] = dir[Backup(w)]
  BY PlacesDiffer, RenamedDoes
<1>4. ClientInv'
  BY <1>1, <1>2, <1>3, CurrentChanges
<1>5. PICK w \in Updaters : dir[Backup(w)] \in proven
  BY <1>2, SurvivesHere DEF InstallInv, Kept
<1>6. ProvenInstallSurvives'
  BY <1>3, <1>5, SurvivesThen
<1> QED
  BY <1>4, <1>6

\* transactional_swap: `current' goes to the backup and the new version comes,
\* or the backup goes back.
LEMMA SwapKeeps ==
    ASSUME TypeOK, InstallInv, NEW u \in Updaters, Swap(u) \/ Publish(u) \/ SwapBack(u)
    PROVE  InstallInv'
<1> USE DEF Pcs, Running, Ended
<1>0. /\ job[u].pc \in Running /\ UNCHANGED <<marker, proven, desktop>>
      /\ VersionInv(u) /\ BackupInv(u) /\ ClientInv /\ job[u].version \in 1..MaxVersion
  BY DEF Swap, Publish, SwapBack, FilesOnly, InstallInv, OneHelper
<1>1. UNCHANGED dir => ClientInv' /\ ProvenInstallSurvives'
  BY <1>0, Quiet
<1>2. CASE Swap(u)
  <2>1. CASE Go(u, "unstage") /\ UNCHANGED dir
    <3>1. Moves(u, "unstage")
      BY <2>1, GoMoves
    <3>2. VersionInv(u)' /\ BackupInv(u)'
      BY <3>1, PlainClaimsNothing DEF Moves, Plain
    <3> QED
      BY <1>0, <1>1, <2>1, <3>1, <3>2, HelperStep
  <2>2. CASE Renamed(Current, Backup(u)) /\ Go(u, "publish")
    <3>1. Moves(u, "publish")
      BY <2>2, GoMoves
    <3>2. /\ dir'[Backup(u)] = dir[Current] /\ dir'[Current] = Nothing
          /\ \A p \in Places \ {Current, Backup(u)} : dir'[p] = dir[p]
          /\ dir[Current].state # "none" /\ dir[Backup(u)].state = "none" /\ ~desktop.up
      BY <2>2, PlacesDiffer, RenamedDoes
    <3>3. ClientInv' /\ IsWhole(dir'[Backup(u)])
      BY <1>0, <3>2, CurrentChanges, ClientFacts DEF There
    <3>4. ProvenInstallSurvives'
      <4>1. CASE dir[Current] \in proven
        BY <1>0, <3>2, <4>1, SurvivesThen
      <4>2. CASE dir[Current] \notin proven
        <5>1. PICK w \in Updaters : dir[Backup(w)] \in proven
          BY <4>2, SurvivesHere DEF InstallInv, Kept
        <5>2. w # u
          BY <1>0, <3>2, <5>1, ClientFacts, PlacesDiffer
        <5>3. dir'[Backup(w)] = dir[Backup(w)]
          BY <3>2, <5>2, PlacesDiffer
        <5> QED
          BY <1>0, <5>1, <5>3, SurvivesThen
      <4> QED
        BY <4>1, <4>2
    <3>5. dir'[Stage(u)] = Whole(job[u].version)
      BY <1>0, <1>2, <3>2, PlacesDiffer DEF VersionInv, Swap
    <3>6. VersionInv(u)' /\ BackupInv(u)'
      BY <3>1, <3>2, <3>3, <3>5 DEF Moves, VersionInv, BackupInv
    <3> QED
      BY <1>0, <3>1, <3>3, <3>4, <3>6, HelperStep
  <2> QED
    BY <1>2, <2>1, <2>2 DEF Swap
<1>3. CASE Publish(u)
  <2>0. /\ dir[Stage(u)] = Whole(job[u].version) /\ dir[Current] = Nothing
        /\ IsWhole(dir[Backup(u)])
    BY <1>0, <1>3 DEF Publish, VersionInv, BackupInv
  <2>1. PICK w \in Updaters : dir[Backup(w)] \in proven
    <3>1. dir[Current] \notin proven
      BY <1>0, <2>0, ContentsAre, ClientFacts, CurrentIsPlace
    <3> QED
      BY <3>1, SurvivesHere DEF InstallInv, Kept
  <2>2. CASE Go(u, "swapBack") /\ UNCHANGED dir
    <3>1. Moves(u, "swapBack")
      BY <2>2, GoMoves
    <3>2. VersionInv(u)' /\ BackupInv(u)'
      BY <2>0, <2>2, <3>1 DEF Moves, VersionInv, BackupInv
    <3> QED
      BY <1>0, <1>1, <2>2, <3>1, <3>2, HelperStep
  <2>3. CASE Renamed(Stage(u), Current) /\ Go(u, "unmark")
    <3>1. Moves(u, "unmark")
      BY <2>3, GoMoves
    <3>2. /\ dir'[Current] = dir[Stage(u)]
          /\ \A x \in Updaters : dir'[Backup(x)] = dir[Backup(x)]
      BY <2>3, PlacesDiffer, RenamedDoes
    <3>3. ~desktop.up /\ desktop.pc = "off"
      BY <1>0, <2>0, ClientFacts, ContentsAre DEF There
    <3>4. ClientInv'
      BY <1>0, <2>0, <3>2, <3>3, CurrentChanges DEF IsWhole
    <3>5. ProvenInstallSurvives' /\ Kept'
      BY <1>0, <2>1, <3>2, SurvivesThen DEF Kept
    <3>6. VersionInv(u)' /\ BackupInv(u)'
      BY <1>0, <2>0, <3>1, <3>2, <3>3, <3>5 DEF Moves, VersionInv, BackupInv
    <3> QED
      BY <1>0, <3>1, <3>4, <3>5, <3>6, HelperStep
  <2> QED
    BY <1>3, <2>2, <2>3 DEF Publish
<1>4. CASE SwapBack(u)
  <2>1. Moves(u, "unstage")
    BY <1>4, GoMoves DEF SwapBack
  <2>2. VersionInv(u)' /\ BackupInv(u)'
    BY <2>1, PlainClaimsNothing DEF Moves, Plain
  <2>3. CASE UNCHANGED dir
    BY <1>0, <1>1, <2>1, <2>2, <2>3, HelperStep
  <2>4. CASE Renamed(Backup(u), Current)
    <3>1. ClientInv' /\ ProvenInstallSurvives'
      BY <1>0, <1>4, <2>4, BackupReturns DEF SwapBack
    <3> QED
      BY <1>0, <2>1, <2>2, <3>1, HelperStep
  <2> QED
    BY <1>4, <2>3, <2>4 DEF SwapBack
<1> QED
  BY <1>2, <1>3, <1>4

\* launch_client, the wait for the confirmation, and discard_backup.
LEMMA LaunchKeeps ==
    ASSUME TypeOK, InstallInv, NEW u \in Updaters,
           \/ Unmark(u) \/ Launch(u) \/ Poll(u) \/ Discard(u) \/ StopService(u) \/ Relaunch(u)
    PROVE  InstallInv'
<1> USE DEF Pcs, Running, Ended
<1>0. /\ job[u].pc \in Running /\ proven' = proven
      /\ VersionInv(u) /\ BackupInv(u) /\ ClientInv /\ job[u].version \in 1..MaxVersion
  BY DEF Unmark, Launch, Poll, Discard, StopService, Relaunch, FilesOnly, InstallInv, OneHelper
<1>1. UNCHANGED dir => ProvenInstallSurvives' /\ (Kept => Kept')
  BY <1>0, SurvivesHere, SurvivesThen DEF InstallInv, Kept
<1>2. UNCHANGED <<dir, marker, desktop>> => ClientInv'
  BY <1>0, Quiet
<1>3. ASSUME UNCHANGED <<dir, marker>>, NEW by \in Updaters \cup {NoUpdater},
             There(Current), desktop' = Launched(by)
      PROVE  ClientInv' /\ desktop'.pc = "starting"
  <2>1. desktop'.up /\ desktop'.pc = "starting" /\ desktop'.v = dir[Current].v
    BY <1>3, LaunchedIs
  <2> QED
    BY <1>0, <1>3, <2>1 DEF ClientInv, There
<1>4. CASE Unmark(u)
  <2>1. Moves(u, "launch") /\ UNCHANGED <<dir, desktop>> /\ marker' \in {0, marker}
    BY <1>4, GoMoves DEF Unmark
  <2>2. ClientInv'
    BY <1>0, <2>1 DEF ClientInv, There
  <2>3. marker' = job[u].version => marker = job[u].version
    BY <1>0, <2>1, UpdaterAssumption
  <2>4. VersionInv(u)' /\ BackupInv(u)'
    BY <1>0, <1>1, <1>4, <2>1, <2>3 DEF Unmark, Moves, VersionInv, BackupInv
  <2> QED
    BY <1>0, <1>1, <2>1, <2>2, <2>4, HelperStep
<1>5. CASE Launch(u)
  <2>0. /\ UNCHANGED <<dir, marker>> /\ dir[Current] = Whole(job[u].version)
        /\ IsWhole(dir[Backup(u)]) /\ Kept /\ desktop.pc # "cleaning"
        /\ desktop.pc = "starting" => marker # job[u].version
    BY <1>0, <1>5 DEF Launch, VersionInv, BackupInv
  <2>1. CASE Go(u, "stop") /\ UNCHANGED desktop
    <3>1. Moves(u, "stop")
      BY <2>1, GoMoves
    <3>2. VersionInv(u)' /\ BackupInv(u)'
      BY <1>1, <2>0, <2>1, <3>1 DEF Moves, VersionInv, BackupInv
    <3> QED
      BY <1>0, <1>1, <1>2, <2>0, <2>1, <3>1, <3>2, HelperStep
  <2>2. ASSUME NEW c \in {"running", "exited"},
               job' = [job EXCEPT ![u].pc = "confirm", ![u].client = c],
               ClientInv', desktop'.pc # "cleaning"
        PROVE  InstallInv'
    <3>1. Moves(u, "confirm")
      <4>1. job[u] \in Jobs /\ job' = [job EXCEPT ![u] = [job[u] EXCEPT !.pc = "confirm", !.client = c]]
        BY <2>2 DEF TypeOK
      <4>2. [job[u] EXCEPT !.pc = "confirm", !.client = c] \in Jobs
        BY <4>1 DEF Jobs
      <4> QED
        BY <4>1, <4>2 DEF Moves, TypeOK, Jobs
    <3>2. VersionInv(u)' /\ BackupInv(u)'
      BY <1>1, <2>0, <2>2, <3>1 DEF Moves, VersionInv, BackupInv
    <3> QED
      BY <1>0, <1>1, <2>0, <2>2, <3>1, <3>2, HelperStep
  <2>3. \/ Go(u, "stop") /\ UNCHANGED desktop
        \/ /\ ClientInv' /\ desktop'.pc # "cleaning"
           /\ \E c \in {"running", "exited"} :
                 job' = [job EXCEPT ![u].pc = "confirm", ![u].client = c]
    BY <1>2, <1>3, <1>5, <2>0 DEF Launch
  <2> QED
    BY <2>1, <2>2, <2>3
<1>6. CASE Poll(u)
  <2>0. UNCHANGED <<dir, marker, desktop>> /\ dir[Current] = Whole(job[u].version)
    BY <1>0, <1>6 DEF Poll, FilesOnly, VersionInv
  <2>1. CASE marker = job[u].version /\ Go(u, "discard")
    <3>1. Moves(u, "discard")
      BY <2>1, GoMoves
    <3>2. dir'[Current] \in proven'
      BY <1>0, <2>0, <2>1, UpdaterAssumption DEF ClientInv
    <3>3. VersionInv(u)' /\ BackupInv(u)'
      BY <2>0, <3>1, <3>2 DEF Moves, VersionInv, BackupInv
    <3> QED
      BY <1>0, <1>1, <1>2, <2>0, <3>1, <3>3, HelperStep
  <2>2. CASE marker # job[u].version /\ Go(u, "stop")
    <3>1. Moves(u, "stop")
      BY <2>2, GoMoves
    <3>2. IsWhole(dir[Backup(u)]) /\ Kept /\ desktop.pc # "cleaning"
      BY <1>0, <1>6, <2>2 DEF Poll, BackupInv
    <3>3. VersionInv(u)' /\ BackupInv(u)'
      BY <1>1, <2>0, <2>2, <3>1, <3>2 DEF Moves, VersionInv, BackupInv
    <3> QED
      BY <1>0, <1>1, <1>2, <2>0, <3>1, <3>3, HelperStep
  <2>3. CASE Go(u, "done")
    <3>1. Moves(u, "done")
      BY <2>3, GoMoves
    <3>2. VersionInv(u)' /\ BackupInv(u)'
      BY <3>1, PlainClaimsNothing DEF Moves, Plain
    <3> QED
      BY <1>0, <1>1, <1>2, <2>0, <3>1, <3>2, HelperStep
  <2> QED
    BY <1>6, <2>1, <2>2, <2>3 DEF Poll
<1>7. CASE Discard(u)
  <2>1. Moves(u, "done") /\ UNCHANGED <<marker, desktop>>
    BY <1>7, GoMoves DEF Discard, FilesOnly
  <2>2. dir[Current] \in proven /\ dir'[Current] = dir[Current]
    BY <1>0, <1>7, RemovedDoes, PlacesDiffer DEF Discard, BackupInv
  <2>3. ClientInv' /\ ProvenInstallSurvives'
    BY <1>0, <2>1, <2>2, SurvivesThen DEF ClientInv, There
  <2>4. VersionInv(u)' /\ BackupInv(u)'
    BY <2>1, PlainClaimsNothing DEF Moves, Plain
  <2> QED
    BY <1>0, <2>1, <2>3, <2>4, HelperStep
<1>8. CASE StopService(u)
  <2>1. Moves(u, "rollback") /\ UNCHANGED <<dir, marker, desktop>>
    BY <1>8, GoMoves DEF StopService
  <2>2. VersionInv(u)' /\ BackupInv(u)'
    BY <1>0, <1>1, <1>8, <2>1 DEF StopService, Moves, VersionInv, BackupInv
  <2> QED
    BY <1>0, <1>1, <1>2, <2>1, <2>2, HelperStep
<1>9. CASE Relaunch(u)
  <2>1. Moves(u, "failed") /\ UNCHANGED <<dir, marker>>
    BY <1>9, GoMoves DEF Relaunch
  <2>2. ClientInv'
    BY <1>2, <1>3, <1>9, <2>1 DEF Relaunch
  <2>3. VersionInv(u)' /\ BackupInv(u)'
    BY <2>1, PlainClaimsNothing DEF Moves, Plain
  <2> QED
    BY <1>0, <1>1, <2>1, <2>2, <2>3, HelperStep
<1> QED
  BY <1>4, <1>5, <1>6, <1>7, <1>8, <1>9

\* rollback_after_launch_failure: the new version is put aside and the backup
\* comes back, or the new version stays.
LEMMA RollbackKeeps ==
    ASSUME TypeOK, InstallInv, NEW u \in Updaters, Rollback(u) \/ Restore(u) \/ Unfail(u)
    PROVE  InstallInv'
<1> USE DEF Pcs, Running, Ended
<1>0. /\ job[u].pc \in Running /\ UNCHANGED <<marker, proven, desktop>>
      /\ VersionInv(u) /\ BackupInv(u) /\ ClientInv /\ job[u].version \in 1..MaxVersion
  BY DEF Rollback, Restore, Unfail, FilesOnly, InstallInv, OneHelper
<1>1. UNCHANGED dir => ClientInv' /\ ProvenInstallSurvives'
  BY <1>0, Quiet
<1>2. ASSUME NEW pc \in Plain, Go(u, pc), ClientInv', ProvenInstallSurvives'
      PROVE  InstallInv'
  <2>1. Moves(u, pc)
    BY <1>2, GoMoves DEF Plain
  <2> QED
    BY <1>0, <1>2, <2>1, HelperStep, PlainClaimsNothing DEF Moves
<1>3. CASE Rollback(u)
  <2>1. CASE Go(u, "restart") /\ UNCHANGED dir
    BY <1>1, <1>2, <2>1 DEF Plain
  <2>2. CASE Renamed(Current, Failed(u)) /\ Go(u, "restore")
    <3>1. Moves(u, "restore")
      BY <2>2, GoMoves
    <3>2. /\ dir'[Failed(u)] = dir[Current] /\ dir'[Current] = Nothing /\ ~desktop.up
          /\ \A x \in Updaters : dir'[Backup(x)] = dir[Backup(x)]
      BY <2>2, PlacesDiffer, RenamedDoes
    <3>3. ClientInv'
      BY <1>0, <3>2, CurrentChanges
    <3>4. dir[Current] = Whole(job[u].version) /\ IsWhole(dir[Backup(u)]) /\ Kept
      BY <1>0, <1>3 DEF Rollback, VersionInv, BackupInv
    <3>5. ProvenInstallSurvives'
      BY <1>0, <3>2, <3>4, SurvivesThen DEF Kept
    <3>6. VersionInv(u)' /\ BackupInv(u)'
      BY <3>1, <3>2, <3>4 DEF Moves, VersionInv, BackupInv
    <3> QED
      BY <1>0, <3>1, <3>3, <3>5, <3>6, HelperStep
  <2> QED
    BY <1>3, <2>1, <2>2 DEF Rollback
<1>4. CASE Restore(u)
  <2>1. CASE Renamed(Backup(u), Current) /\ Go(u, "drop")
    <3>1. ClientInv' /\ ProvenInstallSurvives'
      BY <1>0, <1>4, <2>1, BackupReturns DEF Restore
    <3> QED
      BY <1>2, <2>1, <3>1 DEF Plain
  <2>2. CASE Go(u, "unfail") /\ UNCHANGED dir
    <3>1. Moves(u, "unfail")
      BY <2>2, GoMoves
    <3>2. VersionInv(u)' /\ BackupInv(u)'
      BY <1>0, <1>4, <2>2, <3>1 DEF Restore, Moves, VersionInv, BackupInv
    <3> QED
      BY <1>0, <1>1, <2>2, <3>1, <3>2, HelperStep
  <2> QED
    BY <1>4, <2>1, <2>2 DEF Restore
<1>5. CASE Unfail(u)
  <2>1. ClientInv' /\ ProvenInstallSurvives'
    <3>1. CASE Renamed(Failed(u), Current)
      <4>1. dir[Current] = Nothing /\ dir[Failed(u)] = Whole(job[u].version)
        BY <1>0, <1>5 DEF Unfail, VersionInv
      <4>2. ~desktop.up /\ dir[Current] \notin proven
        BY <1>0, <4>1, ClientFacts, ContentsAre, CurrentIsPlace DEF There
      <4>3. /\ dir'[Current] = dir[Failed(u)]
            /\ \A x \in Updaters : dir'[Backup(x)] = dir[Backup(x)]
        BY <3>1, PlacesDiffer, RenamedDoes
      <4>4. ClientInv'
        BY <1>0, <4>1, <4>2, <4>3, CurrentChanges DEF IsWhole
      <4>5. ProvenInstallSurvives'
        BY <1>0, <4>2, <4>3, SurvivesHere, SurvivesThen DEF InstallInv, Kept
      <4> QED
        BY <4>4, <4>5
    <3> QED
      BY <1>1, <1>5, <3>1 DEF Unfail
  <2> QED
    BY <1>2, <1>5, <2>1 DEF Unfail, Plain
<1> QED
  BY <1>3, <1>4, <1>5

\* A step of the client moves no helper.
LEMMA ClientStep ==
    ASSUME TypeOK, InstallInv, Client, ClientInv', ProvenInstallSurvives',
           \A u \in Updaters : VersionInv(u)' /\ BackupInv(u)'
    PROVE  InstallInv'
<1>1. \A u \in Updaters : job'[u].pc = job[u].pc /\ job'[u].version = job[u].version
  BY ClientTypes
<1>2. OneHelper'
  BY <1>1 DEF InstallInv, OneHelper
<1> QED
  BY <1>2 DEF InstallInv

\* Where the new version is does not change when the helper and its
\* directories do not.
LEMMA VersionStays ==
    ASSUME NEW u \in Updaters, VersionInv(u),
           job'[u].pc = job[u].pc, job'[u].version = job[u].version,
           dir'[Current] = dir[Current], dir'[Stage(u)] = dir[Stage(u)],
           dir'[Failed(u)] = dir[Failed(u)]
    PROVE  VersionInv(u)'
BY DEF VersionInv

\* The client's start, its confirmation and its cleaning up leave a working
\* installation, if a version that confirmed is not started again too early.
LEMMA ClientKeeps ==
    ASSUME TypeOK, InstallInv, Client, Patient
    PROVE  InstallInv'
<1>0. ClientInv /\ \A u \in Updaters : /\ job'[u].pc = job[u].pc /\ job'[u].version = job[u].version
                                       /\ VersionInv(u) /\ BackupInv(u)
                                       /\ job[u].pc \in Running => job[u].version \in 1..MaxVersion
  BY ClientTypes DEF InstallInv, OneHelper
<1>1. ASSUME UNCHANGED <<dir, proven>>
      PROVE  /\ ProvenInstallSurvives' /\ (Kept => Kept')
             /\ \A u \in Updaters : VersionInv(u)'
  BY <1>0, <1>1, VersionStays, SurvivesHere, SurvivesThen DEF InstallInv, Kept
<1>2. CASE UserStarts
  <2>1. /\ desktop'.up /\ desktop'.pc = "starting" /\ desktop'.v = dir[Current].v
        /\ There(Current) /\ UNCHANGED <<dir, marker, proven>>
    BY <1>2, LaunchedIs DEF UserStarts
  <2>2. ClientInv'
    BY <1>0, <2>1 DEF ClientInv, There
  <2>3. \A u \in Updaters : BackupInv(u)'
    BY <1>0, <1>1, <1>2, <2>1 DEF UserStarts, Swapped, BackupInv
  <2> QED
    BY <1>1, <2>1, <2>2, <2>3, ClientStep
<1>3. CASE ReadMarker
  <2>1. /\ desktop.pc = "starting" /\ desktop.up /\ UNCHANGED <<dir, marker, proven>>
        /\ There(Current) /\ desktop.v = dir[Current].v
    BY <1>0, <1>3 DEF ReadMarker, ClientInv, TypeOK
  <2>2. \/ marker = desktop.v /\ ClientMoves("cleaning")
        \/ marker # desktop.v /\ ClientMoves("writing")
    BY <1>3, <2>1, ClientGoes DEF ReadMarker
  <2>3. IsWhole(dir[Current])
    BY <1>0, <2>1, ClientFacts
  <2>4. marker = desktop.v => dir[Current] \in proven
    BY <1>0, <2>1, <2>3, ContentsAre, UpdaterAssumption DEF ClientInv
  <2>5. ClientInv'
    BY <1>0, <2>1, <2>2, <2>4 DEF ClientInv, There, ClientMoves
  <2>6. ASSUME NEW u \in Updaters
        PROVE  BackupInv(u)'
    <3>1. job[u].pc \in {"unmark", "launch", "confirm", "stop", "rollback"} =>
             desktop.v = job[u].version
      BY <1>0, <2>1, ContentsAre DEF VersionInv
    <3>2. desktop'.pc \in {"cleaning", "writing"} /\ (desktop'.pc = "cleaning" => marker = desktop.v)
      BY <2>2 DEF ClientMoves
    <3> QED
      BY <1>0, <1>1, <2>1, <3>1, <3>2 DEF BackupInv
  <2> QED
    BY <1>1, <2>1, <2>5, <2>6, ClientStep
<1>4. CASE CleanBackups
  <2>1. /\ desktop.pc = "cleaning" /\ desktop.up /\ UNCHANGED <<marker, proven>>
        /\ dir[Current] \in proven
    BY <1>0, <1>4 DEF CleanBackups, ClientInv, TypeOK
  <2>2. ClientMoves("writing")
    BY <1>4, <2>1, ClientGoes DEF CleanBackups
  <2>3. \A p \in Places \ Backups : dir'[p] = dir[p]
    BY <1>4, RemovedDoes DEF CleanBackups
  <2>4. /\ dir'[Current] = dir[Current]
        /\ \A u \in Updaters : dir'[Stage(u)] = dir[Stage(u)] /\ dir'[Failed(u)] = dir[Failed(u)]
    <3>1. /\ Current \in Places \ Backups
          /\ \A u \in Updaters : Stage(u) \in Places \ Backups /\ Failed(u) \in Places \ Backups
      BY PlacesDiffer, CurrentIsPlace DEF Backups, Current, Stage, Failed, Backup
    <3> QED
      BY <2>3, <3>1
  <2>5. ClientInv' /\ ProvenInstallSurvives'
    BY <1>0, <2>1, <2>2, <2>4, SurvivesThen DEF ClientInv, There, ClientMoves
  <2>6. ASSUME NEW u \in Updaters
        PROVE  VersionInv(u)' /\ BackupInv(u)'
    <3>1. VersionInv(u)'
      BY <1>0, <2>4, VersionStays
    <3>2. dir[Current] # Nothing
      BY <1>0, <2>1, ClientFacts, ContentsAre DEF There
    <3>3. /\ job[u].pc \notin {"publish", "swapBack", "restore", "unmark", "launch", "stop", "rollback"}
          /\ job[u].pc = "confirm" => marker = job[u].version
      BY <1>0, <2>1, <3>2 DEF VersionInv, BackupInv
    <3>4. BackupInv(u)'
      BY <1>0, <2>1, <2>4, <3>3 DEF BackupInv
    <3> QED
      BY <3>1, <3>4
  <2> QED
    BY <2>5, <2>6, ClientStep
<1>5. CASE WriteMarker
  <2>1. /\ desktop.pc = "writing" /\ desktop.up /\ UNCHANGED dir
        /\ There(Current) /\ desktop.v = dir[Current].v
    BY <1>0, <1>5 DEF WriteMarker, ClientInv, TypeOK
  <2>2. ClientMoves("ready")
    BY <1>5, <2>1, ClientGoes DEF WriteMarker
  <2>3. \/ marker' = desktop.v /\ proven' = proven \cup {dir[Current]}
        \/ UNCHANGED <<marker, proven>>
    BY <1>5 DEF WriteMarker
  <2>4. IsWhole(dir[Current]) /\ dir[Current] = Whole(desktop.v)
    BY <1>0, <2>1, ClientFacts, ContentsAre
  <2>5. ClientInv'
    <3>1. \A c \in proven' : IsWhole(c)
      BY <1>0, <2>3, <2>4 DEF ClientInv
    <3>2. marker' # 0 => Whole(marker') \in proven'
      BY <1>0, <2>3, <2>4 DEF ClientInv
    <3>3. /\ desktop'.up => There(Current)' /\ desktop'.v = dir'[Current].v
          /\ desktop'.pc # "cleaning"
          /\ dir'[Current] = Nothing \/ IsWhole(dir'[Current])
      BY <2>1, <2>2, <2>4 DEF ClientMoves, There
    <3> QED
      BY <3>1, <3>2, <3>3 DEF ClientInv
  <2>6. ProvenInstallSurvives' /\ (Kept => Kept')
    BY <2>1, <2>3, SurvivesHere, SurvivesThen DEF InstallInv, Kept
  <2>7. ASSUME NEW u \in Updaters
        PROVE  VersionInv(u)' /\ BackupInv(u)'
    <3>1. VersionInv(u)'
      BY <1>0, <2>1, VersionStays
    <3>2. job[u].pc = "confirm" => desktop.v = job[u].version
      BY <1>0, <2>1, ContentsAre DEF VersionInv
    <3>3. desktop'.pc = "ready" /\ proven \subseteq proven'
      BY <2>2, <2>3 DEF ClientMoves
    <3>4. job[u].pc = "confirm" /\ marker' # job[u].version => marker # job[u].version
      BY <2>3, <3>2
    <3>5. BackupInv(u)'
      BY <1>0, <2>1, <2>6, <3>3, <3>4 DEF BackupInv
    <3> QED
      BY <3>1, <3>5
  <2> QED
    BY <2>5, <2>6, <2>7, ClientStep
<1>6. CASE DesktopExit
  <2>1. desktop'.up = FALSE /\ desktop'.pc = "off" /\ UNCHANGED <<dir, marker, proven>>
    BY <1>6 DEF DesktopExit, Down
  <2>2. ClientInv' /\ \A u \in Updaters : BackupInv(u)'
    BY <1>0, <1>1, <2>1 DEF ClientInv, BackupInv
  <2> QED
    BY <1>1, <2>1, <2>2, ClientStep
<1>7. CASE ServiceExit
  <2>1. UNCHANGED <<dir, marker, proven, desktop>>
    BY <1>7 DEF ServiceExit
  <2>2. ClientInv' /\ \A u \in Updaters : BackupInv(u)'
    BY <1>0, <1>1, <2>1 DEF ClientInv, There, BackupInv
  <2> QED
    BY <1>1, <2>1, <2>2, ClientStep
<1> QED
  BY <1>2, <1>3, <1>4, <1>5, <1>6, <1>7 DEF Client

\* A helper is started only when no other one works.
LEMMA StartKeeps ==
    ASSUME TypeOK, InstallInv, ~Overlap, NEW u \in Updaters, NEW version \in 1..MaxVersion,
           StartApply(u, version)
    PROVE  InstallInv'
<1>1. /\ UNCHANGED <<dir, marker, proven>> /\ desktop.up /\ ClientMoves("quitting")
      /\ job'[u].pc = "wait" /\ job'[u].version = version
      /\ \A w \in Updaters : w # u => job'[w] = job[w] /\ job[w].pc \notin Running
  BY StartTypes DEF StartApply
<1>2. ClientInv' /\ ProvenInstallSurvives'
  BY <1>1, SurvivesHere, SurvivesThen DEF InstallInv, ClientInv, ClientMoves, There, Kept
<1>3. OneHelper'
  BY <1>1 DEF OneHelper
<1>4. ASSUME NEW w \in Updaters
      PROVE  VersionInv(w)' /\ BackupInv(w)'
  <2>1. job[w] \in Jobs
    BY DEF TypeOK
  <2>2. job'[w].pc \in Plain
    BY <1>1, <2>1 DEF Plain, Pcs, Jobs, Running
  <2> QED
    BY <2>2, PlainClaimsNothing
<1> QED
  BY <1>2, <1>3, <1>4 DEF InstallInv

\* A fresh installation has confirmed.
LEMMA InstallInit == Init => InstallInv
<1> SUFFICES ASSUME Init PROVE InstallInv
  OBVIOUS
<1>1. 1 \in 1..MaxVersion
  BY UpdaterAssumption
<1>2. /\ dir[Current] = Whole(1) /\ IsWhole(Whole(1)) /\ proven = {Whole(1)} /\ marker = 1
      /\ desktop.up = FALSE /\ desktop.pc = "off"
  BY <1>1, CurrentIsPlace DEF Init, Whole, IsWhole, Down
<1>3. \A u \in Updaters : job[u].pc = "idle"
  BY DEF Init
<1>4. ClientInv /\ ProvenInstallSurvives
  BY <1>2 DEF ClientInv, ProvenInstallSurvives
<1>5. OneHelper /\ \A u \in Updaters : VersionInv(u) /\ BackupInv(u)
  BY <1>3 DEF OneHelper, Running, VersionInv, BackupInv
<1> QED
  BY <1>4, <1>5 DEF InstallInv

\* Every step keeps it, one helper at a time and with a patient user.
LEMMA InstallNext ==
    ASSUME Patient, ~Overlap
    PROVE  ServiceInv /\ InstallInv /\ [Next]_vars => InstallInv'
<1> SUFFICES ASSUME ServiceInv, InstallInv, [Next]_vars PROVE InstallInv'
  OBVIOUS
<1>0. TypeOK
  BY DEF ServiceInv
<1>1. CASE UNCHANGED vars
  BY <1>1 DEF vars, InstallInv, OneHelper, ClientInv, There, ProvenInstallSurvives, VersionInv,
              BackupInv, Kept
<1>2. CASE Client
  BY <1>0, <1>2, ClientKeeps
<1>3. ASSUME NEW u \in Updaters, Step(u) \/ Crash(u)
      PROVE  InstallInv'
  BY <1>0, <1>3, PreparesQuietly, SwapKeeps, LaunchKeeps, RollbackKeeps DEF Step
<1>4. ASSUME NEW u \in Updaters, NEW version \in 1..MaxVersion, StartApply(u, version)
      PROVE  InstallInv'
  BY <1>0, <1>4, StartKeeps
<1> QED
  BY <1>1, <1>2, <1>3, <1>4 DEF Next

\* While helpers work one after the other, and between a swap and its outcome
\* the user does not start again a version that confirmed, an installation that
\* has confirmed its start is in `current' or in a backup, whole: whatever
\* rename or removal fails, whoever dies, at any step of an update.
THEOREM WorkingInstallIsLeft ==
    ASSUME Patient, ~Overlap
    PROVE  Spec => []ProvenInstallSurvives
<1>1. InstallInv => ProvenInstallSurvives
  BY DEF InstallInv
<1> QED
  BY <1>1, InstallInit, InstallNext, ServiceInvariant, PTL DEF Spec

===============================================================================
