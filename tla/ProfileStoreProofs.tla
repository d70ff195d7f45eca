-------------------------- MODULE ProfileStoreProofs --------------------------
(***************************************************************************)
(* Proofs about ProfileStore, for any set of profile ids, any number of    *)
(* generations and any retention.  The invariant is built in four layers,  *)
(* each of which uses the ones before it: the shape of the operation in    *)
(* progress, the index, the maintenance debt, and the directories.         *)
(***************************************************************************)
EXTENDS ProfileStore, FiniteSetTheorems, WellFoundedInduction, TLAPS

DiskType == [index : Index, dir : [Ids -> Dirs]]
MaybeType == [index : SUBSET Index, dir : [Ids -> SUBSET Dirs]]
JobType == [op : Ops, pc : Steps, id : Ids \cup {NoId}, gen : 0..MaxGen,
            next : Proposed, debt : BOOLEAN, swept : BOOLEAN]

\* The steps at which an operation has a profile, and those at which a new
\* generation, or the index that names it, is on its way.
Publishing == {"publish", "syncDir", "prune", "reload"}
Committing == {"index", "syncRoot"}
Removing == {"remove", "syncRemoval"}
Opening == {"syncOpen", "migrate", "cleanup", "syncCleanup", "failedCleanup"}

\* Which operation can be at which step; an operation on a profile has its id,
\* and the store is open exactly for the operations that do not open it.  After
\* the rename the disk shows the proposed index.
JobInv ==
    /\ job.pc = "idle" => job = Idle
    /\ job.pc \in Publishing => job.op \in {"insert", "migrate", "replace"}
    /\ job.pc \in Committing => job.op \in {"insert", "migrate", "activate", "delete"}
    /\ job.pc \in Removing => job.op \in {"insert", "migrate", "delete", "retry"}
    /\ job.pc = "retry" => job.op = "delete"
    /\ job.pc \in Opening => job.op \in {"open", "migrate"}
    /\ job.op \notin {"none", "open"} => job.id \in Ids
    /\ job.op \in {"open", "migrate"} => ~up
    /\ job.op \notin {"none", "open", "migrate"} => up
    /\ job.pc = "syncRoot" => disk.index = job.next

ShapeInv == TypeOK /\ JobInv

-------------------------------------------------------------------------------
(* Operators *)

\* The index of a store that has no index file is one that open accepts.
LEMMA NoIndexType == NoIndex \in Index /\ NoIndex \in Proposed
  BY FS_EmptySet, StoreAssumption DEF NoIndex, Index, Proposed, Valid

\* A directory that is missing, and a new one, are directories.
LEMMA NewDirTypes ==
    /\ Absent \in Dirs /\ EmptyDir \in Dirs
    /\ ~Absent.there /\ EmptyDir.there
    /\ EmptyDir.gens = Absent.gens
    /\ \A g \in Gens : Absent.gens[g] = "none"
  BY DEF Absent, EmptyDir, Dirs, Held

\* The operation at rest.
LEMMA IdleType == Idle \in JobType
  BY NoIndexType, StoreAssumption DEF Idle, JobType, Ops, Steps

\* A removal that fails leaves the directory there.
LEMMA PartlyRemovedType ==
  ASSUME NEW d \in Dirs, NEW e \in PartlyRemoved(d)
  PROVE  e \in Dirs /\ e.there = d.there
<1>1. PICK S \in SUBSET {g \in Gens : d.gens[g] # "none"} :
        e = [d EXCEPT !.gens = [g \in Gens |-> IF g \in S THEN "torn" ELSE d.gens[g]]]
  BY DEF PartlyRemoved
<1>2. [g \in Gens |-> IF g \in S THEN "torn" ELSE d.gens[g]] \in [Gens -> Held]
  BY DEF Dirs, Held
<1>3. QED
  BY <1>1, <1>2 DEF Dirs

\* There is nothing to remove in a directory that is missing.
LEMMA PartlyRemovedAbsent ==
  ASSUME NEW e \in PartlyRemoved(Absent)
  PROVE  e = Absent
<1>1. PICK S \in SUBSET {g \in Gens : Absent.gens[g] # "none"} :
        e = [Absent EXCEPT !.gens = [g \in Gens |-> IF g \in S THEN "torn" ELSE Absent.gens[g]]]
  BY DEF PartlyRemoved
<1>2. S = {}
  BY NewDirTypes
<1>3. [g \in Gens |-> IF g \in S THEN "torn" ELSE Absent.gens[g]] = [g \in Gens |-> "none"]
  BY <1>2, NewDirTypes
<1> QED
  BY <1>1, <1>3 DEF Absent

\* Among some generations there is a last one.
LEMMA LargestIs ==
  ASSUME NEW S \in SUBSET Gens
  PROVE  Largest(S) \in S \cup {0} /\ \A h \in S : h <= Largest(S)
<1> DEFINE T == {n \in Nat : MaxGen - n \in S}
<1>0. MaxGen \in Nat /\ \A g \in S : g \in Nat /\ g <= MaxGen /\ 1 <= g
  BY StoreAssumption DEF Gens
<1>1. \E g \in S \cup {0} : \A h \in S : h <= g
  <2>1. CASE S = {}
    BY <2>1
  <2>2. CASE S # {}
    <3>1. PICK s \in S : TRUE
      BY <2>2
    <3>2. MaxGen - s \in T /\ T \subseteq Nat
      BY <1>0, <3>1
    <3>3. IsWellFoundedOn(OpToRel(<, Nat), Nat)
      BY NatLessThanWellFounded
    <3> HIDE DEF T
    <3>4. PICK x \in T : \A y \in T : ~ (<<y, x>> \in OpToRel(<, Nat))
      BY <3>2, <3>3, WFMin
    <3>5. \A y \in T : ~ (y < x)
      <4> TAKE y \in T
      <4>1. <<y, x>> \in Nat \X Nat
        BY <3>2
      <4> QED
        BY <3>4, <4>1 DEF OpToRel
    <3>6. MaxGen - x \in S
      BY DEF T
    <3>7. \A h \in S : h <= MaxGen - x
      <4> TAKE h \in S
      <4>1. MaxGen - h \in Nat /\ MaxGen - (MaxGen - h) = h
        BY <1>0
      <4>2. MaxGen - h \in T
        BY <4>1 DEF T
      <4> QED
        BY <4>2, <3>2, <3>5, <1>0
    <3> QED
      BY <3>6, <3>7
  <2> QED
    BY <2>1, <2>2
<1> QED
  BY <1>1 DEF Largest

\* current(): the newest generation that loads is no older than one that loads.
LEMMA CurrentIs ==
  ASSUME NEW d \in Dirs
  PROVE  /\ Current(d) \in 0..MaxGen
         /\ \A g \in Gens : d.gens[g] = "whole" => g <= Current(d)
<1>1. {g \in Gens : d.gens[g] = "whole"} \in SUBSET Gens
  OBVIOUS
<1> QED
  BY <1>1, LargestIs, StoreAssumption DEF Current, Gens

\* The number of the next generation is larger than every one in use.
LEMMA NextGenIs ==
  ASSUME NEW d \in Dirs
  PROVE  /\ NextGen(d) \in Nat \ {0}
         /\ \A g \in Gens : d.gens[g] # "none" => g < NextGen(d)
<1>1. {g \in Gens : d.gens[g] # "none"} \in SUBSET Gens
  OBVIOUS
<1> QED
  BY <1>1, LargestIs, StoreAssumption DEF NextGen, Gens

\* What SetDir, a sync of a profile directory and one of the root change.
DirBecomes(p, d) ==
    /\ disk' \in DiskType /\ maybe' \in MaybeType
    /\ disk'.index = disk.index /\ maybe'.index = maybe.index
    /\ disk'.dir[p] = d /\ maybe'.dir[p] = maybe.dir[p] \cup {d}
    /\ \A q \in Ids \ {p} : disk'.dir[q] = disk.dir[q] /\ maybe'.dir[q] = maybe.dir[q]

DirDurable(p) ==
    /\ maybe' \in MaybeType /\ maybe'.index = maybe.index
    /\ maybe'.dir[p] = {disk.dir[p]} \cup (maybe.dir[p] \cap {Absent})
    /\ \A q \in Ids \ {p} : maybe'.dir[q] = maybe.dir[q]

RootDurable ==
    /\ maybe' \in MaybeType /\ maybe'.index = {disk.index}
    /\ \A p \in Ids : maybe'.dir[p] = IF disk.dir[p].there
                                      THEN maybe.dir[p] \ {Absent} ELSE {Absent}

\* An entry of the root is replaced, and every other one is left alone.
LEMMA SetDirEffect ==
  ASSUME disk \in DiskType, maybe \in MaybeType,
         NEW p \in Ids, NEW d \in Dirs, SetDir(p, d)
  PROVE  DirBecomes(p, d)
BY DEF SetDir, DirBecomes, DiskType, MaybeType

\* A synced directory keeps what it shows.
LEMMA DirSyncedEffect ==
  ASSUME disk \in DiskType, maybe \in MaybeType, NEW p \in Ids, DirSynced(p)
  PROVE  DirDurable(p)
<1> DEFINE S == {disk.dir[p]} \cup (maybe.dir[p] \cap {Absent})
<1>1. S \in SUBSET Dirs
  BY DEF DiskType, MaybeType
<1>2. maybe' = [maybe EXCEPT !.dir[p] = S]
  BY DEF DirSynced
<1> HIDE DEF S
<1>3. maybe' \in MaybeType /\ maybe'.index = maybe.index /\ maybe'.dir[p] = S
      /\ \A q \in Ids \ {p} : maybe'.dir[q] = maybe.dir[q]
  BY <1>1, <1>2 DEF MaybeType
<1> QED
  BY <1>3 DEF DirDurable, S

\* A synced root keeps the index it shows and the directories that are there.
LEMMA RootSyncedEffect ==
  ASSUME disk \in DiskType, maybe \in MaybeType, RootSynced
  PROVE  RootDurable
<1> DEFINE D(p) == IF disk.dir[p].there THEN maybe.dir[p] \ {Absent} ELSE {Absent}
<1>1. \A p \in Ids : D(p) \in SUBSET Dirs
  BY NewDirTypes DEF MaybeType
<1>2. maybe' = [index |-> {disk.index}, dir |-> [p \in Ids |-> D(p)]]
  BY DEF RootSynced
<1> HIDE DEF D
<1>3. [p \in Ids |-> D(p)] \in [Ids -> SUBSET Dirs]
  BY <1>1
<1>4. maybe' \in MaybeType /\ maybe'.index = {disk.index} /\ \A p \in Ids : maybe'.dir[p] = D(p)
  BY <1>2, <1>3 DEF MaybeType, DiskType
<1> QED
  BY <1>4 DEF RootDurable, D

-------------------------------------------------------------------------------
(* The shape of the operation in progress *)

\* The type invariant with its record types named.
LEMMA Types ==
  TypeOK <=> /\ disk \in DiskType /\ maybe \in MaybeType /\ job \in JobType
             /\ mem \in Index /\ debt \in BOOLEAN /\ up \in BOOLEAN
             /\ used \subseteq Ids /\ promised \in [Ids -> 0..MaxGen] /\ agreed \subseteq Index
BY DEF TypeOK, DiskType, MaybeType, JobType

\* The same of the next state.
LEMMA TypesNext ==
  TypeOK' <=> /\ disk' \in DiskType /\ maybe' \in MaybeType /\ job' \in JobType
              /\ mem' \in Index /\ debt' \in BOOLEAN /\ up' \in BOOLEAN
              /\ used' \subseteq Ids /\ promised' \in [Ids -> 0..MaxGen] /\ agreed' \subseteq Index
BY DEF TypeOK, DiskType, MaybeType, JobType

\* Initially nothing is in progress.
LEMMA ShapeInit == Init => ShapeInv
<1> SUFFICES ASSUME Init PROVE ShapeInv
  OBVIOUS
<1>1. disk \in DiskType /\ maybe \in MaybeType
  BY NoIndexType, NewDirTypes DEF Init, DiskType, MaybeType
<1>2. promised \in [Ids -> 0..MaxGen]
  BY StoreAssumption DEF Init
<1>3. TypeOK
  BY <1>1, <1>2, NoIndexType, IdleType, Types DEF Init
<1>4. JobInv
  BY DEF JobInv, Init, Idle, Publishing, Committing, Removing, Opening
<1> QED
  BY <1>3, <1>4 DEF ShapeInv

\* The fields of the operation that a step leaves alone.
SameJob == job' \in JobType /\ job'.op = job.op /\ job'.id = job.id /\ job'.next = job.next

\* How an operation moves on: to a step; back to the removal of what it made,
\* or to its end; to its end with the debt flagged, or to a second attempt; to
\* its answer, after which a migration cleans up and a deletion tries again.
Moves(pc) ==
    /\ SameJob /\ job'.pc = pc
    /\ job'.gen = job.gen /\ job'.debt = job.debt /\ job'.swept = job.swept
Undone ==
    /\ up' = up
    /\ \/ job.op \in {"insert", "migrate"} /\ Moves("remove")
       \/ job.op \notin {"insert", "migrate"} /\ job' = Idle
RemovalFailed ==
    /\ up' = up /\ debt' = TRUE
    /\ \/ job.op = "delete" /\ Moves("retry")
       \/ job.op # "delete" /\ job' = Idle
Answered(clean) ==
    /\ debt' = (debt \/ ~clean) /\ debt' \in BOOLEAN
    /\ promised' \in [Ids -> 0..MaxGen]
    /\ \A p \in Ids : promised'[p] = IF p = job.id /\ clean /\ ~debt /\ job.gen # 0
                                     THEN job.gen ELSE promised[p]
    /\ \/ job.op = "migrate" /\ Moves("cleanup")
       \/ job.op = "delete" /\ Moves("retry")
       \/ job.op \notin {"migrate", "delete"} /\ job' = Idle

\* The operation moves on to a step.
LEMMA StepEffect ==
  ASSUME job \in JobType, NEW pc \in Steps, Step(pc)
  PROVE  Moves(pc)
BY DEF Step, Moves, SameJob, JobType

\* The fields of the operation at rest.
LEMMA IdleFields ==
  Idle.op = "none" /\ Idle.pc = "idle" /\ Idle.id = NoId /\ Idle.gen = 0
    /\ Idle.next = NoIndex /\ ~Idle.debt /\ ~Idle.swept
BY DEF Idle

\* An operation begins.
LEMMA BeginEffect ==
  ASSUME NEW op \in Ops, NEW pc \in Steps, NEW p \in Ids \cup {NoId}, NEW next \in Proposed,
         Begin(op, pc, p, next)
  PROVE  job' \in JobType /\ job'.op = op /\ job'.pc = pc /\ job'.id = p /\ job'.next = next
         /\ job'.gen = 0 /\ ~job'.debt /\ ~job'.swept
BY IdleType, IdleFields DEF Begin, JobType

\* It returns, and an opening that returns early has failed.
LEMMA ReturnsEffect ==
  ASSUME Returns, ShapeInv
  PROVE  job' = Idle /\ up' = up
BY DEF Returns, ShapeInv, TypeOK, JobInv

\* The undo of an operation, and a removal that fails.
LEMMA UndoEffect ==
  ASSUME Undo, ShapeInv
  PROVE  Undone
<1>1. job \in JobType /\ up \in BOOLEAN /\ "remove" \in Steps
  BY Types DEF ShapeInv, Steps
<1> QED
  BY <1>1, StepEffect, ReturnsEffect DEF Undo, Undone

\* RemovalFails does what RemovalFailed says.
LEMMA RemovalFailsEffect ==
  ASSUME RemovalFails, ShapeInv
  PROVE  RemovalFailed
<1>1. job \in JobType /\ up \in BOOLEAN /\ "retry" \in Steps
  BY Types DEF ShapeInv, Steps
<1> QED
  BY <1>1, StepEffect, ReturnsEffect DEF RemovalFails, RemovalFailed

\* An answer: a migration goes on to the clean-up, a deletion that left a debt
\* is tried again, any other operation ends.
LEMMA AnswerEffect ==
  ASSUME ShapeInv, NEW clean \in BOOLEAN, Answer(clean), job.op # "none"
  PROVE  Answered(clean)
<1>1. job \in JobType /\ debt \in BOOLEAN /\ promised \in [Ids -> 0..MaxGen]
  BY Types DEF ShapeInv
<1>2. debt' = (debt \/ ~clean) /\ debt' \in BOOLEAN
  BY <1>1 DEF Answer
<1>3. job.gen \in 0..MaxGen
  BY <1>1 DEF JobType
<1>4. /\ promised' \in [Ids -> 0..MaxGen]
      /\ \A p \in Ids : promised'[p] = IF p = job.id /\ clean /\ ~debt /\ job.gen # 0
                                       THEN job.gen ELSE promised[p]
  BY <1>1, <1>3 DEF Answer
<1>5. CASE job.op = "migrate"
  BY <1>1, <1>2, <1>4, <1>5 DEF Answer, Answered, Moves, JobType, SameJob, Steps
<1>6. CASE job.op = "delete"
  BY <1>1, <1>2, <1>4, <1>6 DEF Answer, Answered, Moves, JobType, SameJob, Steps
<1>7. CASE job.op \notin {"migrate", "delete"}
  BY <1>1, <1>2, <1>4, <1>7 DEF Answer, Answered
<1> QED
  BY <1>5, <1>6, <1>7

-------------------------------------------------------------------------------
(* What each action does to each part of the state *)

\* The parts of the root that a step leaves alone.
SameRoot == UNCHANGED <<disk, maybe>>

\* Publish: the new generation is the newest one, or nothing is published.
PublishDoes ==
    /\ job.pc = "publish" /\ up' = up /\ UNCHANGED <<mem, debt, used, promised, agreed>>
    /\ \/ \E d \in Dirs, g \in Gens :
             /\ DirBecomes(job.id, d) /\ SameJob
             /\ job'.pc = "syncDir" /\ job'.gen = g /\ job'.debt = job.debt
             /\ d.there = disk.dir[job.id].there /\ d.gens[g] = "whole"
             /\ \A h \in Gens : disk.dir[job.id].gens[h] # "none" =>
                    h < g /\ d.gens[h] = disk.dir[job.id].gens[h]
       \/ Undone /\ SameRoot

\* The action Publish does what PublishDoes says.
LEMMA PublishEffect ==
  ASSUME ShapeInv, Publish
  PROVE  PublishDoes
<1> DEFINE d == disk.dir[job.id]
           g == NextGen(d)
           e == [d EXCEPT !.gens[g] = "whole"]
<1>1. job \in JobType /\ disk \in DiskType /\ maybe \in MaybeType
  BY Types DEF ShapeInv
<1>2. job.pc = "publish" /\ job.id \in Ids
  BY DEF Publish, ShapeInv, JobInv, Publishing
<1>3. d \in Dirs
  BY <1>1, <1>2 DEF DiskType
<1>4. g \in Nat \ {0} /\ \A h \in Gens : d.gens[h] # "none" => h < g
  BY <1>3, NextGenIs
<1>5. CASE /\ g <= MaxGen /\ SetDir(job.id, e) /\ UNCHANGED up
           /\ job' = [job EXCEPT !.pc = "syncDir", !.gen = g]
  <2>1. g \in Gens /\ g \in 0..MaxGen
    BY <1>4, <1>5, StoreAssumption DEF Gens
  <2> HIDE DEF g, d
  <2>2. /\ e \in Dirs /\ e.there = d.there /\ e.gens[g] = "whole"
        /\ \A h \in Gens : h # g => e.gens[h] = d.gens[h]
    BY <2>1, <1>3 DEF Dirs, Held
  <2>3. SameJob /\ job'.pc = "syncDir" /\ job'.gen = g /\ job'.debt = job.debt
    BY <1>1, <1>5, <2>1 DEF SameJob, JobType, Steps
  <2> HIDE DEF e
  <2>4. DirBecomes(job.id, e)
    BY <1>1, <1>2, <1>5, <2>2, SetDirEffect
  <2>5. \A h \in Gens : d.gens[h] # "none" => h < g /\ h # g /\ e.gens[h] = d.gens[h]
    BY <1>4, <2>1, <2>2, StoreAssumption DEF Gens
  <2>6. \E dd \in Dirs, gg \in Gens :
             /\ DirBecomes(job.id, dd) /\ SameJob
             /\ job'.pc = "syncDir" /\ job'.gen = gg /\ job'.debt = job.debt
             /\ dd.there = d.there /\ dd.gens[gg] = "whole"
             /\ \A h \in Gens : d.gens[h] # "none" => h < gg /\ dd.gens[h] = d.gens[h]
    BY <2>1, <2>2, <2>3, <2>4, <2>5
  <2> QED
    BY <1>2, <1>5, <2>6 DEF PublishDoes, Publish, d
<1>6. CASE Undo /\ UNCHANGED <<disk, maybe>>
  BY <1>2, <1>6, UndoEffect DEF PublishDoes, Publish, SameRoot, Undone
<1> QED
  BY <1>5, <1>6 DEF Publish

\* SyncDir: the directory is durable, or the debt of the operation is noted.
SyncDirDoes ==
    /\ job.pc = "syncDir" /\ disk' = disk /\ Rest /\ SameJob
    /\ job'.pc = "prune" /\ job'.gen = job.gen
    /\ \/ DirDurable(job.id) /\ job'.debt = job.debt
       \/ job'.debt = TRUE /\ maybe' = maybe

\* The action SyncDir does what SyncDirDoes says.
LEMMA SyncDirEffect ==
  ASSUME ShapeInv, SyncDir
  PROVE  SyncDirDoes
<1>1. job \in JobType /\ disk \in DiskType /\ maybe \in MaybeType /\ "prune" \in Steps
  BY Types DEF ShapeInv, Steps
<1>2. job.pc = "syncDir" /\ job.id \in Ids
  BY DEF SyncDir, ShapeInv, JobInv, Publishing
<1>3. CASE DirSynced(job.id) /\ Step("prune")
  BY <1>1, <1>2, <1>3, DirSyncedEffect, StepEffect DEF SyncDir, SyncDirDoes, Moves
<1>4. CASE job' = [job EXCEPT !.pc = "prune", !.debt = TRUE] /\ UNCHANGED maybe
  BY <1>1, <1>2, <1>4 DEF SyncDir, SyncDirDoes, SameJob, JobType
<1> QED
  BY <1>3, <1>4 DEF SyncDir

\* Prune: the generation just published stays whole.
PruneDoes ==
    /\ job.pc = "prune" /\ Rest /\ Moves("reload")
    /\ \E d \in Dirs : /\ DirBecomes(job.id, d) /\ d.there = disk.dir[job.id].there
                       /\ job.gen \in Gens => d.gens[job.gen] = disk.dir[job.id].gens[job.gen]

\* The action Prune does what PruneDoes says.
LEMMA PruneEffect ==
  ASSUME ShapeInv, Prune
  PROVE  PruneDoes
<1> DEFINE d == disk.dir[job.id]
           old == {g \in Gens : Superseded(g) /\ d.gens[g] # "none"}
<1>1. job \in JobType /\ disk \in DiskType /\ maybe \in MaybeType /\ "reload" \in Steps
  BY Types DEF ShapeInv, Steps
<1>2. job.pc = "prune" /\ job.id \in Ids
  BY DEF Prune, ShapeInv, JobInv, Publishing
<1>3. d \in Dirs
  BY <1>1, <1>2 DEF DiskType
<1>4. PICK f \in [old -> Held] :
        SetDir(job.id, [d EXCEPT !.gens = [g \in Gens |->
                              IF g \in old /\ f[g] # "whole" THEN f[g] ELSE d.gens[g]]])
  BY DEF Prune
<1>5. job.gen \notin old
  BY <1>1, StoreAssumption DEF JobType, Superseded
<1> DEFINE gs == [g \in Gens |-> IF g \in old /\ f[g] # "whole" THEN f[g] ELSE d.gens[g]]
           e == [d EXCEPT !.gens = gs]
<1> HIDE DEF d, old
<1>6. gs \in [Gens -> Held] /\ (job.gen \in Gens => gs[job.gen] = d.gens[job.gen])
  BY <1>3, <1>5 DEF Dirs
<1>7. SetDir(job.id, e)
  BY <1>4
<1> HIDE DEF gs
<1>8. e \in Dirs /\ e.there = d.there /\ e.gens = gs
  BY <1>3, <1>6 DEF Dirs
<1> HIDE DEF e
<1>9. DirBecomes(job.id, e)
  BY <1>1, <1>2, <1>7, <1>8, SetDirEffect
<1>10. \E dd \in Dirs : /\ DirBecomes(job.id, dd) /\ dd.there = d.there
                        /\ job.gen \in Gens => dd.gens[job.gen] = d.gens[job.gen]
  BY <1>6, <1>8, <1>9
<1> QED
  BY <1>1, <1>2, <1>10, StepEffect DEF Prune, PruneDoes, d

\* Reload: a replacement is answered, another commit goes on to the index.
ReloadDoes ==
    /\ job.pc = "reload" /\ up' = up /\ UNCHANGED <<disk, maybe, mem, used, agreed>>
    /\ \/ job.op = "replace" /\ Answered(~job.debt)
       \/ job.op # "replace" /\ Moves("index") /\ UNCHANGED <<debt, promised>>
       \/ Undone /\ UNCHANGED <<debt, promised>>

\* The action Reload does what ReloadDoes says.
LEMMA ReloadEffect ==
  ASSUME ShapeInv, Reload
  PROVE  ReloadDoes
<1>1. job \in JobType /\ "index" \in Steps /\ job.debt \in BOOLEAN
  BY Types DEF ShapeInv, Steps, JobType
<1>2. job.pc = "reload" /\ UNCHANGED <<disk, maybe, mem, used, agreed>>
  BY DEF Reload
<1>3. CASE job.op = "replace" /\ Answer(~job.debt) /\ UNCHANGED up
  <2>1. (~job.debt) \in BOOLEAN
    OBVIOUS
  <2>2. Answered(~job.debt)
    BY <1>3, <2>1, AnswerEffect
  <2> QED
    BY <1>2, <1>3, <2>2 DEF ReloadDoes
<1>4. CASE job.op # "replace" /\ Step("index") /\ UNCHANGED <<debt, promised, up>>
  BY <1>1, <1>2, <1>4, StepEffect DEF ReloadDoes
<1>5. CASE Undo /\ UNCHANGED <<debt, promised>>
  BY <1>2, <1>5, UndoEffect DEF ReloadDoes, Undone
<1> QED
  BY <1>3, <1>4, <1>5 DEF Reload

\* PersistIndex: the rename shows a valid index, or nothing happens.
PersistIndexDoes ==
    /\ job.pc = "index" /\ up' = up /\ UNCHANGED <<mem, debt, used, promised>>
    /\ \/ /\ job.next \in Index /\ Moves("syncRoot") /\ agreed' = {}
          /\ disk' \in DiskType /\ maybe' \in MaybeType
          /\ disk'.index = job.next /\ maybe'.index = maybe.index \cup {job.next}
          /\ disk'.dir = disk.dir /\ maybe'.dir = maybe.dir
       \/ Undone /\ SameRoot /\ agreed' = agreed

\* The action PersistIndex does what PersistIndexDoes says.
LEMMA PersistIndexEffect ==
  ASSUME ShapeInv, PersistIndex
  PROVE  PersistIndexDoes
<1>1. /\ job \in JobType /\ "syncRoot" \in Steps
      /\ disk \in DiskType /\ maybe \in MaybeType
  BY Types DEF ShapeInv, Steps
<1>2. job.pc = "index" /\ UNCHANGED <<mem, debt, used, promised>>
  BY DEF PersistIndex
<1>3. CASE /\ Valid(job.next)
           /\ disk' = [disk EXCEPT !.index = job.next]
           /\ maybe' = [maybe EXCEPT !.index = @ \cup {job.next}]
           /\ agreed' = {}
           /\ Step("syncRoot") /\ UNCHANGED up
  <2>1. job.next \in Index
    BY <1>1, <1>3 DEF JobType, Index
  <2>2. /\ disk' \in DiskType /\ maybe' \in MaybeType
        /\ disk'.index = job.next /\ maybe'.index = maybe.index \cup {job.next}
        /\ disk'.dir = disk.dir /\ maybe'.dir = maybe.dir
    BY <1>1, <1>3, <2>1 DEF DiskType, MaybeType
  <2>3. Moves("syncRoot")
    BY <1>1, <1>3, StepEffect
  <2> QED
    BY <1>2, <1>3, <2>1, <2>2, <2>3 DEF PersistIndexDoes
<1>4. CASE Undo /\ UNCHANGED <<disk, maybe, agreed>>
  BY <1>2, <1>4, UndoEffect DEF PersistIndexDoes, Undone, SameRoot
<1> QED
  BY <1>3, <1>4 DEF PersistIndex

\* SyncRoot: the index is durable and answered or, in a deletion, the removal
\* follows; or the debt is flagged.
SyncRootDoes ==
    /\ job.pc = "syncRoot" /\ mem' = job.next /\ up' = up /\ UNCHANGED <<disk, used>>
    /\ \/ /\ RootDurable /\ agreed' = {job.next}
          /\ \/ job.op = "delete" /\ Moves("remove") /\ UNCHANGED <<debt, promised>>
             \/ job.op # "delete" /\ Answered(~job.debt)
       \/ Answered(FALSE) /\ UNCHANGED <<maybe, agreed>>

\* The action SyncRoot does what SyncRootDoes says.
LEMMA SyncRootEffect ==
  ASSUME ShapeInv, SyncRoot
  PROVE  SyncRootDoes
<1>1. /\ job \in JobType /\ "remove" \in Steps
      /\ disk \in DiskType /\ maybe \in MaybeType
  BY Types DEF ShapeInv, Steps
<1>2. /\ job.pc = "syncRoot" /\ mem' = job.next /\ UNCHANGED <<disk, up, used>>
      /\ job.op # "none"
  BY DEF SyncRoot, ShapeInv, JobInv, Committing
<1>3. CASE RootSynced /\ agreed' = {job.next} /\ job.op = "delete" /\ Step("remove")
           /\ UNCHANGED <<debt, promised>>
  BY <1>1, <1>2, <1>3, StepEffect, RootSyncedEffect DEF SyncRootDoes
<1>4. CASE RootSynced /\ agreed' = {job.next} /\ job.op # "delete" /\ Answer(~job.debt)
  <2>1. (~job.debt) \in BOOLEAN
    OBVIOUS
  <2>2. Answered(~job.debt) /\ RootDurable
    BY <1>1, <1>2, <1>4, <2>1, AnswerEffect, RootSyncedEffect
  <2> QED
    BY <1>2, <1>4, <2>2 DEF SyncRootDoes
<1>5. CASE Answer(FALSE) /\ UNCHANGED <<maybe, agreed>>
  <2>1. Answered(FALSE)
    BY <1>2, <1>5, AnswerEffect
  <2> QED
    BY <1>2, <1>5, <2>1 DEF SyncRootDoes
<1> QED
  BY <1>3, <1>4, <1>5 DEF SyncRoot

\* Remove: the directory is gone, or what is left of it is a debt.
RemoveDoes ==
    /\ job.pc = "remove" /\ up' = up /\ UNCHANGED <<mem, used, promised, agreed>>
    /\ \/ DirBecomes(job.id, Absent) /\ Moves("syncRemoval") /\ debt' = debt
       \/ \E d \in Dirs : /\ DirBecomes(job.id, d) /\ d.there = disk.dir[job.id].there
                          /\ d \in PartlyRemoved(disk.dir[job.id]) /\ RemovalFailed

\* The action Remove does what RemoveDoes says.
LEMMA RemoveEffect ==
  ASSUME ShapeInv, Remove
  PROVE  RemoveDoes
<1>1. /\ job \in JobType /\ "syncRemoval" \in Steps
      /\ disk \in DiskType /\ maybe \in MaybeType
  BY Types DEF ShapeInv, Steps
<1>2. job.pc = "remove" /\ UNCHANGED <<mem, used, promised, agreed>> /\ job.id \in Ids
  BY DEF Remove, ShapeInv, JobInv, Removing
<1>3. CASE SetDir(job.id, Absent) /\ Step("syncRemoval") /\ UNCHANGED <<debt, up>>
  BY <1>1, <1>2, <1>3, NewDirTypes, SetDirEffect, StepEffect DEF RemoveDoes
<1>4. CASE (\E d \in PartlyRemoved(disk.dir[job.id]) : SetDir(job.id, d)) /\ RemovalFails
  <2>1. PICK d \in PartlyRemoved(disk.dir[job.id]) : SetDir(job.id, d)
    BY <1>4
  <2>2. d \in Dirs /\ d.there = disk.dir[job.id].there
    BY <1>1, <1>2, PartlyRemovedType DEF DiskType
  <2>3. DirBecomes(job.id, d) /\ RemovalFailed
    BY <1>1, <1>2, <1>4, <2>1, <2>2, SetDirEffect, RemovalFailsEffect
  <2> QED
    BY <1>2, <2>2, <2>3 DEF RemoveDoes, RemovalFailed
<1> QED
  BY <1>3, <1>4 DEF Remove

\* SyncRemoval: the removal is durable, or a debt.
SyncRemovalDoes ==
    /\ job.pc = "syncRemoval" /\ up' = up /\ UNCHANGED <<disk, mem, used, promised, agreed>>
    /\ \/ RootDurable /\ job' = Idle /\ debt' = debt
       \/ RemovalFailed /\ maybe' = maybe

\* The action SyncRemoval does what SyncRemovalDoes says.
LEMMA SyncRemovalEffect ==
  ASSUME ShapeInv, SyncRemoval
  PROVE  SyncRemovalDoes
<1>1. disk \in DiskType /\ maybe \in MaybeType /\ up \in BOOLEAN
  BY Types DEF ShapeInv
<1>2. CASE RootSynced /\ Returns /\ UNCHANGED debt
  BY <1>1, <1>2, RootSyncedEffect, ReturnsEffect DEF SyncRemoval, SyncRemovalDoes
<1>3. CASE RemovalFails /\ UNCHANGED maybe
  BY <1>3, RemovalFailsEffect DEF SyncRemoval, SyncRemovalDoes, RemovalFailed
<1> QED
  BY <1>2, <1>3 DEF SyncRemoval

\* Insert and Migrate: a fresh id, its empty directory and the index that will
\* name it.
Inserting(op, p, next) ==
    /\ p \in Ids \ used /\ next \in Proposed /\ next.saved /\ used' = used \cup {p}
    /\ DirBecomes(p, EmptyDir) /\ UNCHANGED <<mem, debt, up, promised, agreed>>
    /\ job' \in JobType /\ job'.op = op /\ job'.pc = "publish" /\ job'.id = p
    /\ job'.next = next /\ job'.gen = 0 /\ ~job'.debt

InsertDoes ==
    Ready /\ \E p \in Ids, next \in Proposed :
                 Inserting("insert", p, next) /\ next.list = mem.list \cup {p}

MigrateDoes ==
    job.pc = "migrate" /\ \E p \in Ids, next \in Proposed :
                              Inserting("migrate", p, next) /\ next.list = {p}

\* The action Insert does what InsertDoes says.
LEMMA InsertEffect ==
  ASSUME ShapeInv, NEW activate \in BOOLEAN, Insert(activate)
  PROVE  InsertDoes
<1>1. PICK p \in Ids \ used :
          /\ SetDir(p, EmptyDir)
          /\ used' = used \cup {p}
          /\ Begin("insert", "publish", p,
                   [saved |-> TRUE, list |-> mem.list \cup {p},
                    active |-> IF activate THEN p ELSE mem.active])
  BY DEF Insert
<1> DEFINE a == IF activate THEN p ELSE mem.active
           next == [saved |-> TRUE, list |-> mem.list \cup {p}, active |-> a]
<1>2. disk \in DiskType /\ maybe \in MaybeType /\ mem \in Index
  BY Types DEF ShapeInv
<1>3. a \in Ids \cup {NoId} /\ mem.list \cup {p} \in SUBSET Ids
  BY <1>2 DEF Index, Proposed
<1>4. Begin("insert", "publish", p, next)
  BY <1>1
<1> HIDE DEF a
<1>5. next \in Proposed /\ next.saved /\ next.list = mem.list \cup {p}
  BY <1>3 DEF Proposed
<1> HIDE DEF next
<1>6. /\ job' \in JobType /\ job'.op = "insert" /\ job'.pc = "publish" /\ job'.id = p
      /\ job'.next = next /\ job'.gen = 0 /\ ~job'.debt
  BY <1>4, <1>5, BeginEffect DEF Ops, Steps
<1>7. DirBecomes(p, EmptyDir)
  BY <1>1, <1>2, NewDirTypes, SetDirEffect
<1> QED
  BY <1>1, <1>5, <1>6, <1>7 DEF Insert, Inserting, InsertDoes

\* The action Migrate does what MigrateDoes says.
LEMMA MigrateEffect ==
  ASSUME ShapeInv, Migrate
  PROVE  MigrateDoes
<1>1. PICK p \in Ids \ used :
          /\ SetDir(p, EmptyDir) /\ used' = used \cup {p}
          /\ Begin("migrate", "publish", p, [saved |-> TRUE, list |-> {p}, active |-> p])
  BY DEF Migrate
<1> DEFINE next == [saved |-> TRUE, list |-> {p}, active |-> p]
<1>2. disk \in DiskType /\ maybe \in MaybeType
  BY Types DEF ShapeInv
<1>3. next \in Proposed /\ next.saved /\ next.list = {p}
  BY DEF Proposed
<1>4. Begin("migrate", "publish", p, next)
  BY <1>1
<1> HIDE DEF next
<1>5. /\ job' \in JobType /\ job'.op = "migrate" /\ job'.pc = "publish" /\ job'.id = p
      /\ job'.next = next /\ job'.gen = 0 /\ ~job'.debt
  BY <1>3, <1>4, BeginEffect DEF Ops, Steps
<1>6. DirBecomes(p, EmptyDir)
  BY <1>1, <1>2, NewDirTypes, SetDirEffect
<1> QED
  BY <1>1, <1>3, <1>5, <1>6 DEF Migrate, Inserting, MigrateDoes

\* Replace, Activate and Delete begin without touching the disk.
Starts(op, pc, p, next) ==
    /\ Ready /\ SameRoot /\ Rest
    /\ p \in Ids /\ p \in mem.list /\ next \in Proposed
    /\ job' \in JobType /\ job'.op = op /\ job'.pc = pc /\ job'.id = p
    /\ job'.next = next /\ job'.gen = 0 /\ ~job'.debt

ReplaceDoes == \E p \in Ids : disk.dir[p].there /\ Starts("replace", "publish", p, mem)

ActivateDoes ==
    \E p \in Ids, next \in Proposed :
        /\ next.list = mem.list /\ next.saved = mem.saved
        /\ Starts("activate", "index", p, next)

DeleteDoes ==
    \E p \in Ids, next \in Proposed :
        /\ next.list = mem.list \ {p} /\ next.saved
        /\ Starts("delete", "index", p, next)

\* The action Replace does what ReplaceDoes says.
LEMMA ReplaceEffect ==
  ASSUME ShapeInv, Replace
  PROVE  ReplaceDoes
<1>1. PICK p \in mem.list : disk.dir[p].there /\ Begin("replace", "publish", p, mem)
  BY DEF Replace
<1>2. mem \in Proposed /\ mem.list \subseteq Ids
  BY Types DEF ShapeInv, Index, Proposed
<1>3. /\ job' \in JobType /\ job'.op = "replace" /\ job'.pc = "publish" /\ job'.id = p
      /\ job'.next = mem /\ job'.gen = 0 /\ ~job'.debt
  BY <1>1, <1>2, BeginEffect DEF Ops, Steps
<1> QED
  BY <1>1, <1>2, <1>3 DEF Replace, ReplaceDoes, Starts, SameRoot

\* The action Activate does what ActivateDoes says.
LEMMA ActivateEffect ==
  ASSUME ShapeInv, Activate
  PROVE  ActivateDoes
<1>1. PICK p \in mem.list : Begin("activate", "index", p, [mem EXCEPT !.active = p])
  BY DEF Activate
<1> DEFINE next == [mem EXCEPT !.active = p]
<1>2. mem \in Proposed /\ mem.list \subseteq Ids
  BY Types DEF ShapeInv, Index, Proposed
<1>3. next \in Proposed /\ next.list = mem.list /\ next.saved = mem.saved
  BY <1>2 DEF Proposed
<1>4. Begin("activate", "index", p, next)
  BY <1>1
<1> HIDE DEF next
<1>5. /\ job' \in JobType /\ job'.op = "activate" /\ job'.pc = "index" /\ job'.id = p
      /\ job'.next = next /\ job'.gen = 0 /\ ~job'.debt
  BY <1>2, <1>3, <1>4, BeginEffect DEF Ops, Steps
<1> QED
  BY <1>2, <1>3, <1>5 DEF Activate, ActivateDoes, Starts, SameRoot

\* The action Delete does what DeleteDoes says.
LEMMA DeleteEffect ==
  ASSUME ShapeInv, Delete
  PROVE  DeleteDoes
<1>1. mem \in Proposed /\ mem.list \subseteq Ids /\ mem.active \in Ids \cup {NoId}
  BY Types DEF ShapeInv, Index, Proposed
<1>2. PICK p \in mem.list, q \in Ids \cup {NoId} :
        Begin("delete", "index", p, [saved |-> TRUE, list |-> mem.list \ {p}, active |-> q])
  BY <1>1 DEF Delete
<1> DEFINE next == [saved |-> TRUE, list |-> mem.list \ {p}, active |-> q]
<1>3. next \in Proposed /\ next.list = mem.list \ {p} /\ next.saved
  BY <1>1 DEF Proposed
<1>4. Begin("delete", "index", p, next)
  BY <1>2
<1> HIDE DEF next
<1>5. /\ job' \in JobType /\ job'.op = "delete" /\ job'.pc = "index" /\ job'.id = p
      /\ job'.next = next /\ job'.gen = 0 /\ ~job'.debt
  BY <1>1, <1>3, <1>4, BeginEffect DEF Ops, Steps
<1> QED
  BY <1>1, <1>3, <1>5 DEF Delete, DeleteDoes, Starts, SameRoot

\* Retry: the deletion becomes a removal, and nothing is promised any more.
RetryDoes ==
    /\ job.pc = "retry" /\ UNCHANGED <<disk, maybe, mem, debt, up, used, agreed>>
    /\ job' \in JobType /\ job'.op = "retry" /\ job'.pc = "remove" /\ job'.id = job.id
    /\ job'.next = job.next
    /\ promised' \in [Ids -> 0..MaxGen]
    /\ \A p \in Ids : promised'[p] = IF p = job.id THEN 0 ELSE promised[p]

\* The action Retry does what RetryDoes says.
LEMMA RetryEffect ==
  ASSUME ShapeInv, Retry
  PROVE  RetryDoes
<1>1. job \in JobType /\ promised \in [Ids -> 0..MaxGen] /\ 0 \in 0..MaxGen
  BY Types, StoreAssumption DEF ShapeInv
<1>2. /\ job' \in JobType /\ job'.op = "retry" /\ job'.pc = "remove" /\ job'.id = job.id
      /\ job'.next = job.next
  BY <1>1 DEF Retry, JobType, Ops, Steps
<1>3. /\ promised' \in [Ids -> 0..MaxGen]
      /\ \A p \in Ids : promised'[p] = IF p = job.id THEN 0 ELSE promised[p]
  BY <1>1 DEF Retry
<1> QED
  BY <1>2, <1>3 DEF Retry, RetryDoes

\* Open: the index is read and the debt forgotten.
OpenDoes ==
    /\ ~up /\ job = Idle /\ mem' = disk.index /\ debt' = FALSE
    /\ job' \in JobType /\ job'.op = "open" /\ job'.pc = "syncOpen" /\ job'.id = NoId
    /\ job'.next = NoIndex /\ job'.gen = 0
    /\ UNCHANGED <<disk, maybe, up, used, promised, agreed>>

\* The action Open does what OpenDoes says.
LEMMA OpenEffect ==
  ASSUME ShapeInv, Open
  PROVE  OpenDoes
<1>1. /\ job' \in JobType /\ job'.op = "open" /\ job'.pc = "syncOpen" /\ job'.id = NoId
      /\ job'.next = NoIndex /\ job'.gen = 0
  BY NoIndexType, BeginEffect DEF Open, Ops, Steps
<1> QED
  BY <1>1 DEF Open, OpenDoes

\* SyncOpen: the root is durable, or the store does not open.
SyncOpenDoes ==
    /\ job.pc = "syncOpen" /\ up' = up /\ UNCHANGED <<disk, mem, debt, used, promised, agreed>>
    /\ \/ RootDurable /\ ~mem.saved /\ Moves("migrate")
       \/ RootDurable /\ Moves("cleanup")
       \/ job' = Idle /\ maybe' = maybe

\* The action SyncOpen does what SyncOpenDoes says.
LEMMA SyncOpenEffect ==
  ASSUME ShapeInv, SyncOpen
  PROVE  SyncOpenDoes
<1>1. /\ disk \in DiskType /\ maybe \in MaybeType /\ up \in BOOLEAN
      /\ job \in JobType /\ "migrate" \in Steps /\ "cleanup" \in Steps
  BY Types DEF ShapeInv, Steps
<1>2. CASE RootSynced /\ UNCHANGED up /\ Step(IF Migrating THEN "migrate" ELSE "cleanup")
  <2>1. RootDurable
    BY <1>1, <1>2, RootSyncedEffect
  <2>2. CASE Migrating
    BY <1>1, <1>2, <2>1, <2>2, StepEffect DEF SyncOpen, SyncOpenDoes, Migrating
  <2>3. CASE ~Migrating
    BY <1>1, <1>2, <2>1, <2>3, StepEffect DEF SyncOpen, SyncOpenDoes
  <2> QED
    BY <2>2, <2>3
<1>3. CASE Returns /\ UNCHANGED maybe
  BY <1>1, <1>3, ReturnsEffect DEF SyncOpen, SyncOpenDoes
<1> QED
  BY <1>2, <1>3 DEF SyncOpen

\* Cleanup: an unindexed directory changes, or there is none left.
CleanupDoes ==
    /\ job.pc = "cleanup" /\ UNCHANGED <<mem, debt, used, promised, agreed>>
    /\ \/ \E p \in Unindexed, d \in Dirs :
             /\ DirBecomes(p, d) /\ up' = up
             /\ \/ d = Absent
                \/ d.there = disk.dir[p].there /\ d \in PartlyRemoved(disk.dir[p])
             /\ \/ SameJob /\ job'.pc = "cleanup"
                \/ Moves("failedCleanup")
                \/ job' = Idle
       \/ /\ Unindexed = {} /\ SameRoot
          /\ \/ Moves("syncCleanup") /\ up' = up
             \/ job' = Idle /\ up' = TRUE

\* The action Cleanup does what CleanupDoes says.
LEMMA CleanupEffect ==
  ASSUME ShapeInv, Cleanup
  PROVE  CleanupDoes
<1>1. /\ disk \in DiskType /\ maybe \in MaybeType /\ up \in BOOLEAN
      /\ job \in JobType /\ "failedCleanup" \in Steps /\ "syncCleanup" \in Steps
  BY Types DEF ShapeInv, Steps
<1>2. job.pc = "cleanup" /\ UNCHANGED <<mem, debt, used, promised, agreed>>
  BY DEF Cleanup
<1>3. ASSUME NEW p \in Unindexed, SetDir(p, Absent), job' = [job EXCEPT !.swept = TRUE],
             UNCHANGED up
      PROVE  CleanupDoes
  <2>1. p \in Ids
    BY DEF Unindexed
  <2>2. DirBecomes(p, Absent)
    BY <1>1, <1>3, <2>1, NewDirTypes, SetDirEffect
  <2>3. SameJob /\ job'.pc = "cleanup"
    BY <1>1, <1>2, <1>3 DEF SameJob, JobType
  <2>4. Absent \in Dirs
    BY NewDirTypes
  <2> QED
    BY <1>2, <1>3, <2>2, <2>3, <2>4 DEF CleanupDoes
<1>4. ASSUME NEW p \in Unindexed, NEW d \in PartlyRemoved(disk.dir[p]), SetDir(p, d),
             IF job.swept THEN Step("failedCleanup") /\ UNCHANGED up ELSE Returns
      PROVE  CleanupDoes
  <2>1. p \in Ids
    BY DEF Unindexed
  <2>2. d \in Dirs /\ d.there = disk.dir[p].there
    BY <1>1, <2>1, PartlyRemovedType DEF DiskType
  <2>3. DirBecomes(p, d)
    BY <1>1, <1>4, <2>1, <2>2, SetDirEffect
  <2>4. up' = up /\ (Moves("failedCleanup") \/ job' = Idle)
    BY <1>1, <1>4, StepEffect, ReturnsEffect
  <2> QED
    BY <1>2, <2>2, <2>3, <2>4 DEF CleanupDoes
<1>5. CASE /\ Unindexed = {} /\ UNCHANGED <<disk, maybe>>
           /\ IF job.swept THEN Step("syncCleanup") /\ UNCHANGED up ELSE Opened
  BY <1>1, <1>2, <1>5, StepEffect DEF CleanupDoes, Opened, SameRoot
<1> QED
  BY <1>3, <1>4, <1>5 DEF Cleanup

\* SyncCleanup and FailedCleanup: the store is open, or it is not.
SyncCleanupDoes ==
    /\ job.pc \in {"syncCleanup", "failedCleanup"} /\ job' = Idle
    /\ UNCHANGED <<disk, mem, debt, used, promised, agreed>>
    /\ RootDurable \/ maybe' = maybe
    /\ \/ up' = up
       \/ job.pc = "syncCleanup" /\ RootDurable /\ up' = TRUE

\* The action SyncCleanup does what SyncCleanupDoes says.
LEMMA SyncCleanupEffect ==
  ASSUME ShapeInv, SyncCleanup \/ FailedCleanup
  PROVE  SyncCleanupDoes
<1>1. disk \in DiskType /\ maybe \in MaybeType /\ up \in BOOLEAN
  BY Types DEF ShapeInv
<1>2. RootSynced => RootDurable
  BY <1>1, RootSyncedEffect
<1>3. Returns => job' = Idle /\ up' = up
  BY ReturnsEffect
<1>4. CASE SyncCleanup
  <2>1. CASE RootSynced /\ Opened
    BY <1>2, <1>4, <2>1 DEF SyncCleanup, SyncCleanupDoes, Opened
  <2>2. CASE Returns /\ UNCHANGED maybe
    BY <1>3, <1>4, <2>2 DEF SyncCleanup, SyncCleanupDoes
  <2> QED
    BY <1>4, <2>1, <2>2 DEF SyncCleanup
<1>5. CASE FailedCleanup
  BY <1>2, <1>3, <1>5 DEF FailedCleanup, SyncCleanupDoes
<1> QED
  BY <1>4, <1>5

\* Crash: the disk stays as it is.
CrashDoes == SameRoot /\ Down /\ UNCHANGED <<used, promised, agreed>>

\* PowerLoss: every entry of the root becomes one that it may have become.
PowerLossDoes ==
    /\ Down /\ UNCHANGED <<used, promised, agreed>>
    /\ disk' \in DiskType /\ maybe' \in MaybeType
    /\ disk'.index \in maybe.index /\ maybe'.index = {disk'.index}
    /\ \A p \in Ids : disk'.dir[p] \in maybe.dir[p] /\ maybe'.dir[p] = {disk'.dir[p]}

\* The action PowerLoss does what PowerLossDoes says.
LEMMA PowerLossEffect ==
  ASSUME ShapeInv, PowerLoss
  PROVE  PowerLossDoes
<1>1. maybe \in MaybeType
  BY Types DEF ShapeInv
<1>2. PICK i \in maybe.index, f \in [Ids -> UNION {maybe.dir[p] : p \in Ids}] :
          /\ \A p \in Ids : f[p] \in maybe.dir[p]
          /\ disk' = [index |-> i, dir |-> f]
          /\ maybe' = [index |-> {i}, dir |-> [p \in Ids |-> {f[p]}]]
  BY DEF PowerLoss
<1>3. i \in Index /\ f \in [Ids -> Dirs] /\ [p \in Ids |-> {f[p]}] \in [Ids -> SUBSET Dirs]
  <2>1. i \in Index /\ \A p \in Ids : maybe.dir[p] \subseteq Dirs
    BY <1>1 DEF MaybeType
  <2>2. \A p \in Ids : f[p] \in Dirs
    BY <1>2, <2>1
  <2> QED
    BY <2>1, <2>2
<1>4. /\ disk' \in DiskType /\ maybe' \in MaybeType
      /\ disk'.index = i /\ disk'.dir = f /\ maybe'.index = {i}
      /\ \A p \in Ids : maybe'.dir[p] = {f[p]}
  BY <1>2, <1>3 DEF DiskType, MaybeType
<1> QED
  BY <1>2, <1>4 DEF PowerLoss, PowerLossDoes


\* Every step of the store is one of these.
StepDoes ==
    \/ PublishDoes \/ SyncDirDoes \/ PruneDoes \/ ReloadDoes \/ PersistIndexDoes
    \/ SyncRootDoes \/ RemoveDoes \/ SyncRemovalDoes
    \/ InsertDoes \/ ReplaceDoes \/ ActivateDoes \/ DeleteDoes \/ RetryDoes
    \/ OpenDoes \/ SyncOpenDoes \/ MigrateDoes \/ CleanupDoes \/ SyncCleanupDoes
    \/ CrashDoes \/ PowerLossDoes

\* Each action of Next does what its description above says.
LEMMA EveryStep ==
  ASSUME ShapeInv, Next
  PROVE  StepDoes
<1>1. CASE Commit
  BY <1>1, PublishEffect, SyncDirEffect, PruneEffect, ReloadEffect, PersistIndexEffect,
     SyncRootEffect, RemoveEffect, SyncRemovalEffect DEF Commit, StepDoes
<1>2. CASE \E activate \in BOOLEAN : Insert(activate)
  BY <1>2, InsertEffect DEF StepDoes
<1>3. CASE Replace \/ Activate \/ Delete \/ Retry
  BY <1>3, ReplaceEffect, ActivateEffect, DeleteEffect, RetryEffect DEF StepDoes
<1>4. CASE Open \/ SyncOpen \/ Migrate \/ Cleanup
  BY <1>4, OpenEffect, SyncOpenEffect, MigrateEffect, CleanupEffect DEF StepDoes
<1>5. CASE SyncCleanup \/ FailedCleanup
  BY <1>5, SyncCleanupEffect DEF StepDoes
<1>6. CASE Crash
  BY <1>6 DEF StepDoes, CrashDoes, Crash, SameRoot
<1>7. CASE PowerLoss
  BY <1>7, PowerLossEffect DEF StepDoes
<1> QED
  BY <1>1, <1>2, <1>3, <1>4, <1>5, <1>6, <1>7 DEF Next

-------------------------------------------------------------------------------
(* The first layer: types and the shape of the operation in progress *)

\* A state of the right types whose operation is at rest, or has the shape
\* that JobInv asks of it.
LEMMA ShapeNext ==
  ASSUME ShapeInv, Next
  PROVE  ShapeInv'
<1> USE DEF JobInv, Publishing, Committing, Removing, Opening
<1>0. /\ disk \in DiskType /\ maybe \in MaybeType /\ job \in JobType
      /\ mem \in Index /\ debt \in BOOLEAN /\ up \in BOOLEAN
      /\ used \subseteq Ids /\ promised \in [Ids -> 0..MaxGen] /\ agreed \subseteq Index
      /\ JobInv
  BY Types DEF ShapeInv
<1>i. /\ Idle \in JobType /\ Idle.op = "none" /\ Idle.pc = "idle"
      /\ NoIndex \in Index
  BY IdleType, IdleFields, NoIndexType
<1> SUFFICES TypeOK' /\ JobInv'
  BY DEF ShapeInv
<1>1. CASE PublishDoes
  BY <1>0, <1>i, <1>1, TypesNext DEF PublishDoes, DirBecomes, SameJob, Undone, Moves, SameRoot
<1>2. CASE SyncDirDoes
  BY <1>0, <1>i, <1>2, TypesNext DEF SyncDirDoes, DirDurable, SameJob, Rest
<1>3. CASE PruneDoes
  BY <1>0, <1>i, <1>3, TypesNext DEF PruneDoes, DirBecomes, SameJob, Moves, Rest
<1>4. CASE ReloadDoes
  BY <1>0, <1>i, <1>4, TypesNext DEF ReloadDoes, Answered, SameJob, Moves, Undone
<1>5. CASE PersistIndexDoes
  BY <1>0, <1>i, <1>5, TypesNext DEF PersistIndexDoes, SameJob, Moves, Undone, SameRoot
<1>6. CASE SyncRootDoes
  <2>1. job.next \in Index
    BY <1>0, <1>6 DEF SyncRootDoes, DiskType
  <2> QED
    BY <1>0, <1>i, <1>6, <2>1, TypesNext DEF SyncRootDoes, RootDurable, Answered, SameJob, Moves
<1>7. CASE RemoveDoes
  BY <1>0, <1>i, <1>7, TypesNext DEF RemoveDoes, DirBecomes, RemovalFailed, SameJob, Moves
<1>8. CASE SyncRemovalDoes
  BY <1>0, <1>i, <1>8, TypesNext DEF SyncRemovalDoes, RootDurable, RemovalFailed, SameJob, Moves
<1>9. CASE InsertDoes
  BY <1>0, <1>i, <1>9, TypesNext DEF InsertDoes, Inserting, DirBecomes, Ready
<1>10. CASE ReplaceDoes
  BY <1>0, <1>i, <1>10, TypesNext DEF ReplaceDoes, Starts, SameRoot, Rest, Ready
<1>11. CASE ActivateDoes
  BY <1>0, <1>i, <1>11, TypesNext DEF ActivateDoes, Starts, SameRoot, Rest, Ready
<1>12. CASE DeleteDoes
  BY <1>0, <1>i, <1>12, TypesNext DEF DeleteDoes, Starts, SameRoot, Rest, Ready
<1>13. CASE RetryDoes
  BY <1>0, <1>i, <1>13, TypesNext DEF RetryDoes
<1>14. CASE OpenDoes
  <2>1. disk.index \in Index
    BY <1>0 DEF DiskType
  <2> QED
    BY <1>0, <1>i, <1>14, <2>1, TypesNext DEF OpenDoes
<1>15. CASE SyncOpenDoes
  BY <1>0, <1>i, <1>15, TypesNext DEF SyncOpenDoes, RootDurable, SameJob, Moves
<1>16. CASE MigrateDoes
  BY <1>0, <1>i, <1>16, TypesNext DEF MigrateDoes, Inserting, DirBecomes
<1>17. CASE CleanupDoes
  <2>1. /\ job.pc = "cleanup" /\ job' \in JobType
        /\ disk' \in DiskType /\ maybe' \in MaybeType
        /\ UNCHANGED <<mem, debt, used, promised, agreed>>
    BY <1>0, <1>i, <1>17 DEF CleanupDoes, DirBecomes, SameJob, Moves, SameRoot
  <2>2. \/ SameJob /\ job'.pc \in {"cleanup", "failedCleanup", "syncCleanup"} /\ up' = up
        \/ job' = Idle /\ (up' = up \/ up' = TRUE)
    BY <1>17 DEF CleanupDoes, Moves
  <2>3. TypeOK'
    BY <1>0, <2>1, <2>2, TypesNext
  <2>4. JobInv'
    BY <1>0, <1>i, <2>1, <2>2 DEF SameJob
  <2> QED
    BY <2>3, <2>4
<1>18. CASE SyncCleanupDoes
  BY <1>0, <1>i, <1>18, TypesNext DEF SyncCleanupDoes, RootDurable
<1>19. CASE CrashDoes
  BY <1>0, <1>i, <1>19, TypesNext DEF CrashDoes, Down, SameRoot
<1>20. CASE PowerLossDoes
  BY <1>0, <1>i, <1>20, TypesNext DEF PowerLossDoes, Down
<1> QED
  BY EveryStep, <1>1, <1>2, <1>3, <1>4, <1>5, <1>6, <1>7, <1>8, <1>9, <1>10, <1>11, <1>12, <1>13,
     <1>14, <1>15, <1>16, <1>17, <1>18, <1>19, <1>20 DEF StepDoes

\* Every index on disk, durable or not, is one that open accepts, and the
\* operation in progress has the fields its step reads.
THEOREM StoreTypes == Spec => []TypeOK
<1>1. Init => ShapeInv
  BY ShapeInit
<1>2. ShapeInv /\ [Next]_vars => ShapeInv'
  <2>1. CASE UNCHANGED vars
    BY <2>1 DEF ShapeInv, TypeOK, JobInv, vars
  <2> QED
    BY <2>1, ShapeNext
<1>3. ShapeInv => TypeOK
  BY DEF ShapeInv
<1> QED
  BY <1>1, <1>2, <1>3, PTL DEF Spec

-------------------------------------------------------------------------------
(* The second layer: the index in memory, on disk and after a power loss *)

\* The index on disk may come back after a power loss, an agreed one is the one
\* on disk and nothing else may come back, and outside the window between the
\* rename and the sync an open or opening store has the index of the disk.
IndexInv ==
    /\ disk.index \in maybe.index
    /\ agreed # {} => agreed = {disk.index} /\ maybe.index = {disk.index}
    /\ (up \/ job.pc # "idle") /\ job.pc # "syncRoot" => mem = disk.index

\* No step breaks IndexInv: only the rename moves the disk away from memory.
LEMMA IndexNext ==
  ASSUME ShapeInv, IndexInv, Next
  PROVE  IndexInv'
<1> USE DEF IndexInv, JobInv, Publishing, Committing, Removing, Opening
<1>0. JobInv /\ up \in BOOLEAN
  BY Types DEF ShapeInv
<1>i. Idle.op = "none" /\ Idle.pc = "idle"
  BY IdleFields
<1>1. CASE PublishDoes
  BY <1>0, <1>i, <1>1 DEF PublishDoes, DirBecomes, SameJob, Undone, Moves, SameRoot
<1>2. CASE SyncDirDoes
  BY <1>0, <1>i, <1>2 DEF SyncDirDoes, DirDurable, SameJob, Rest
<1>3. CASE PruneDoes
  BY <1>0, <1>i, <1>3 DEF PruneDoes, DirBecomes, SameJob, Moves, Rest
<1>4. CASE ReloadDoes
  BY <1>0, <1>i, <1>4 DEF ReloadDoes, Answered, SameJob, Moves, Undone
<1>5. CASE PersistIndexDoes
  BY <1>0, <1>i, <1>5 DEF PersistIndexDoes, SameJob, Moves, Undone, SameRoot
<1>6. CASE SyncRootDoes
  BY <1>0, <1>i, <1>6 DEF SyncRootDoes, RootDurable, Answered, SameJob, Moves
<1>7. CASE RemoveDoes
  BY <1>0, <1>i, <1>7 DEF RemoveDoes, DirBecomes, RemovalFailed, SameJob, Moves
<1>8. CASE SyncRemovalDoes
  BY <1>0, <1>i, <1>8 DEF SyncRemovalDoes, RootDurable, RemovalFailed, SameJob, Moves
<1>9. CASE InsertDoes
  BY <1>0, <1>i, <1>9 DEF InsertDoes, Inserting, DirBecomes, Ready
<1>10. CASE ReplaceDoes
  BY <1>0, <1>i, <1>10 DEF ReplaceDoes, Starts, SameRoot, Rest, Ready
<1>11. CASE ActivateDoes
  BY <1>0, <1>i, <1>11 DEF ActivateDoes, Starts, SameRoot, Rest, Ready
<1>12. CASE DeleteDoes
  BY <1>0, <1>i, <1>12 DEF DeleteDoes, Starts, SameRoot, Rest, Ready
<1>13. CASE RetryDoes
  BY <1>0, <1>i, <1>13 DEF RetryDoes
<1>14. CASE OpenDoes
  BY <1>0, <1>i, <1>14 DEF OpenDoes
<1>15. CASE SyncOpenDoes
  BY <1>0, <1>i, <1>15 DEF SyncOpenDoes, RootDurable, SameJob, Moves
<1>16. CASE MigrateDoes
  BY <1>0, <1>i, <1>16 DEF MigrateDoes, Inserting, DirBecomes
<1>17. CASE CleanupDoes
  BY <1>0, <1>i, <1>17 DEF CleanupDoes, DirBecomes, SameJob, Moves, SameRoot
<1>18. CASE SyncCleanupDoes
  BY <1>0, <1>i, <1>18 DEF SyncCleanupDoes, RootDurable
<1>19. CASE CrashDoes
  BY <1>0, <1>i, <1>19 DEF CrashDoes, Down, SameRoot
<1>20. CASE PowerLossDoes
  BY <1>0, <1>i, <1>20 DEF PowerLossDoes, Down
<1> QED
  BY EveryStep, <1>1, <1>2, <1>3, <1>4, <1>5, <1>6, <1>7, <1>8, <1>9, <1>10, <1>11, <1>12, <1>13,
     <1>14, <1>15, <1>16, <1>17, <1>18, <1>19, <1>20 DEF StepDoes

\* The layers so far are an invariant.
LEMMA IndexInvariant == Spec => [](ShapeInv /\ IndexInv)
<1>1. Init => ShapeInv /\ IndexInv
  BY ShapeInit, IdleFields DEF Init, IndexInv
<1>2. ShapeInv /\ IndexInv /\ [Next]_vars => (ShapeInv /\ IndexInv)'
  <2>1. CASE UNCHANGED vars
    BY <2>1 DEF ShapeInv, TypeOK, JobInv, IndexInv, vars
  <2> QED
    BY <2>1, ShapeNext, IndexNext
<1> QED
  BY <1>1, <1>2, PTL DEF Spec

\* An index answered without maintenance debt is the only one that can come
\* back: an activation or deletion answered Ok is never undone by a power loss.
THEOREM AgreedIndexSurvives == Spec => []AgreedSurvives
<1>1. IndexInv => AgreedSurvives
  BY DEF IndexInv, AgreedSurvives
<1> QED
  BY <1>1, IndexInvariant, PTL

\* Between operations the index in memory is the one on disk, whichever steps
\* of earlier operations failed.
THEOREM MemoryFollowsDisk == Spec => []MemoryMatchesDisk
<1>1. IndexInv => MemoryMatchesDisk
  BY IdleFields DEF IndexInv, MemoryMatchesDisk, Ready
<1> QED
  BY <1>1, IndexInvariant, PTL

-------------------------------------------------------------------------------
(* The third layer: maintenance debt *)

\* The root has been synced since the store was opened, or is open.
Known == up \/ job.pc \notin {"idle", "syncOpen"}

\* Without debt only the index on disk can come back, except in the window
\* before its sync.
IndexDebt ==
    /\ Known /\ job.pc # "syncRoot" /\ ~debt => maybe.index = {disk.index}
    /\ job.pc = "retry" \/ job.op = "retry" => debt

\* What the operation will do to the list of profiles.
Proposal ==
    /\ job.op = "activate" => job.next.list = mem.list
    /\ job.op = "insert" /\ job.pc \in Publishing \cup Committing =>
           job.next.list = mem.list \cup {job.id}
    /\ job.op = "delete" => job.next.list = mem.list \ {job.id}
    /\ job.op = "replace" => job.id \in mem.list

\* The operation has no directory outside the index: it is removed, or was
\* never made, or is still indexed.
Tidy ==
    \/ job.pc \in {"idle", "syncRemoval"}
    \/ job.op \in {"replace", "activate"}
    \/ job.op = "delete" /\ job.pc = "index"

\* Without debt the only directory outside the index is that of the operation
\* in progress.
DirDebt ==
    /\ up /\ ~debt => Unindexed \subseteq {job.id}
    /\ up /\ ~debt /\ Tidy => Unindexed = {}
    /\ job.pc = "syncCleanup" => Unindexed = {}

\* No step leaves a second index that may come back without flagging it.
LEMMA IndexDebtNext ==
  ASSUME ShapeInv, IndexInv, IndexDebt, Next
  PROVE  IndexDebt'
<1> USE DEF IndexInv, JobInv, Publishing, Committing, Removing, Opening, Known, IndexDebt
<1>0. JobInv /\ up \in BOOLEAN /\ debt \in BOOLEAN
  BY Types DEF ShapeInv
<1>i. Idle.op = "none" /\ Idle.pc = "idle"
  BY IdleFields
<1>1. CASE PublishDoes
  BY <1>0, <1>i, <1>1 DEF PublishDoes, DirBecomes, SameJob, Undone, Moves, SameRoot
<1>2. CASE SyncDirDoes
  BY <1>0, <1>i, <1>2 DEF SyncDirDoes, DirDurable, SameJob, Rest
<1>3. CASE PruneDoes
  BY <1>0, <1>i, <1>3 DEF PruneDoes, DirBecomes, SameJob, Moves, Rest
<1>4. CASE ReloadDoes
  BY <1>0, <1>i, <1>4 DEF ReloadDoes, Answered, SameJob, Moves, Undone
<1>5. CASE PersistIndexDoes
  BY <1>0, <1>i, <1>5 DEF PersistIndexDoes, SameJob, Moves, Undone, SameRoot
<1>6. CASE SyncRootDoes
  BY <1>0, <1>i, <1>6 DEF SyncRootDoes, RootDurable, Answered, SameJob, Moves
<1>7. CASE RemoveDoes
  BY <1>0, <1>i, <1>7 DEF RemoveDoes, DirBecomes, RemovalFailed, SameJob, Moves
<1>8. CASE SyncRemovalDoes
  BY <1>0, <1>i, <1>8 DEF SyncRemovalDoes, RootDurable, RemovalFailed, SameJob, Moves
<1>9. CASE InsertDoes
  BY <1>0, <1>i, <1>9 DEF InsertDoes, Inserting, DirBecomes, Ready
<1>10. CASE ReplaceDoes
  BY <1>0, <1>i, <1>10 DEF ReplaceDoes, Starts, SameRoot, Rest, Ready
<1>11. CASE ActivateDoes
  BY <1>0, <1>i, <1>11 DEF ActivateDoes, Starts, SameRoot, Rest, Ready
<1>12. CASE DeleteDoes
  BY <1>0, <1>i, <1>12 DEF DeleteDoes, Starts, SameRoot, Rest, Ready
<1>13. CASE RetryDoes
  BY <1>0, <1>i, <1>13 DEF RetryDoes
<1>14. CASE OpenDoes
  BY <1>0, <1>i, <1>14 DEF OpenDoes
<1>15. CASE SyncOpenDoes
  BY <1>0, <1>i, <1>15 DEF SyncOpenDoes, RootDurable, SameJob, Moves
<1>16. CASE MigrateDoes
  BY <1>0, <1>i, <1>16 DEF MigrateDoes, Inserting, DirBecomes
<1>17. CASE CleanupDoes
  BY <1>0, <1>i, <1>17 DEF CleanupDoes, DirBecomes, SameJob, Moves, SameRoot
<1>18. CASE SyncCleanupDoes
  BY <1>0, <1>i, <1>18 DEF SyncCleanupDoes, RootDurable
<1>19. CASE CrashDoes
  BY <1>0, <1>i, <1>19 DEF CrashDoes, Down, SameRoot
<1>20. CASE PowerLossDoes
  BY <1>0, <1>i, <1>20 DEF PowerLossDoes, Down
<1> QED
  BY EveryStep, <1>1, <1>2, <1>3, <1>4, <1>5, <1>6, <1>7, <1>8, <1>9, <1>10, <1>11, <1>12, <1>13,
     <1>14, <1>15, <1>16, <1>17, <1>18, <1>19, <1>20 DEF StepDoes

\* The proposed list is fixed when the operation begins.
LEMMA ProposalNext ==
  ASSUME ShapeInv, Proposal, Next
  PROVE  Proposal'
<1> USE DEF JobInv, Publishing, Committing, Removing, Opening, Proposal
<1>0. JobInv /\ up \in BOOLEAN /\ debt \in BOOLEAN
  BY Types DEF ShapeInv
<1>i. Idle.op = "none" /\ Idle.pc = "idle"
  BY IdleFields
<1>1. CASE PublishDoes
  BY <1>0, <1>i, <1>1 DEF PublishDoes, DirBecomes, SameJob, Undone, Moves, SameRoot
<1>2. CASE SyncDirDoes
  BY <1>0, <1>i, <1>2 DEF SyncDirDoes, DirDurable, SameJob, Rest
<1>3. CASE PruneDoes
  BY <1>0, <1>i, <1>3 DEF PruneDoes, DirBecomes, SameJob, Moves, Rest
<1>4. CASE ReloadDoes
  BY <1>0, <1>i, <1>4 DEF ReloadDoes, Answered, SameJob, Moves, Undone
<1>5. CASE PersistIndexDoes
  BY <1>0, <1>i, <1>5 DEF PersistIndexDoes, SameJob, Moves, Undone, SameRoot
<1>6. CASE SyncRootDoes
  BY <1>0, <1>i, <1>6 DEF SyncRootDoes, RootDurable, Answered, SameJob, Moves
<1>7. CASE RemoveDoes
  BY <1>0, <1>i, <1>7 DEF RemoveDoes, DirBecomes, RemovalFailed, SameJob, Moves
<1>8. CASE SyncRemovalDoes
  BY <1>0, <1>i, <1>8 DEF SyncRemovalDoes, RootDurable, RemovalFailed, SameJob, Moves
<1>9. CASE InsertDoes
  BY <1>0, <1>i, <1>9 DEF InsertDoes, Inserting, DirBecomes, Ready
<1>10. CASE ReplaceDoes
  BY <1>0, <1>i, <1>10 DEF ReplaceDoes, Starts, SameRoot, Rest, Ready
<1>11. CASE ActivateDoes
  BY <1>0, <1>i, <1>11 DEF ActivateDoes, Starts, SameRoot, Rest, Ready
<1>12. CASE DeleteDoes
  BY <1>0, <1>i, <1>12 DEF DeleteDoes, Starts, SameRoot, Rest, Ready
<1>13. CASE RetryDoes
  BY <1>0, <1>i, <1>13 DEF RetryDoes
<1>14. CASE OpenDoes
  BY <1>0, <1>i, <1>14 DEF OpenDoes
<1>15. CASE SyncOpenDoes
  BY <1>0, <1>i, <1>15 DEF SyncOpenDoes, RootDurable, SameJob, Moves
<1>16. CASE MigrateDoes
  BY <1>0, <1>i, <1>16 DEF MigrateDoes, Inserting, DirBecomes
<1>17. CASE CleanupDoes
  BY <1>0, <1>i, <1>17 DEF CleanupDoes, DirBecomes, SameJob, Moves, SameRoot
<1>18. CASE SyncCleanupDoes
  BY <1>0, <1>i, <1>18 DEF SyncCleanupDoes, RootDurable
<1>19. CASE CrashDoes
  BY <1>0, <1>i, <1>19 DEF CrashDoes, Down, SameRoot
<1>20. CASE PowerLossDoes
  BY <1>0, <1>i, <1>20 DEF PowerLossDoes, Down
<1> QED
  BY EveryStep, <1>1, <1>2, <1>3, <1>4, <1>5, <1>6, <1>7, <1>8, <1>9, <1>10, <1>11, <1>12, <1>13,
     <1>14, <1>15, <1>16, <1>17, <1>18, <1>19, <1>20 DEF StepDoes

\* No step leaves a directory outside the index without flagging it.
LEMMA DirDebtNext ==
  ASSUME ShapeInv, IndexInv, IndexDebt, Proposal, DirDebt, Next
  PROVE  DirDebt'
<1> USE DEF JobInv, Publishing, Committing, Removing, Opening, Proposal, IndexDebt,
           DirDebt, Unindexed, Tidy
<1>0. JobInv /\ up \in BOOLEAN /\ debt \in BOOLEAN
  BY Types DEF ShapeInv
<1>i. Idle.op = "none" /\ Idle.pc = "idle" /\ ~Absent.there
  BY IdleFields, NewDirTypes
<1>1. CASE PublishDoes
  BY <1>0, <1>i, <1>1 DEF PublishDoes, DirBecomes, SameJob, Undone, Moves, SameRoot
<1>2. CASE SyncDirDoes
  BY <1>0, <1>i, <1>2 DEF SyncDirDoes, DirDurable, SameJob, Rest
<1>3. CASE PruneDoes
  BY <1>0, <1>i, <1>3 DEF PruneDoes, DirBecomes, SameJob, Moves, Rest
<1>4. CASE ReloadDoes
  BY <1>0, <1>i, <1>4 DEF ReloadDoes, Answered, SameJob, Moves, Undone
<1>5. CASE PersistIndexDoes
  BY <1>0, <1>i, <1>5 DEF PersistIndexDoes, SameJob, Moves, Undone, SameRoot
<1>6. CASE SyncRootDoes
  BY <1>0, <1>i, <1>6 DEF SyncRootDoes, RootDurable, Answered, SameJob, Moves
<1>7. CASE RemoveDoes
  BY <1>0, <1>i, <1>7 DEF RemoveDoes, DirBecomes, RemovalFailed, SameJob, Moves
<1>8. CASE SyncRemovalDoes
  BY <1>0, <1>i, <1>8 DEF SyncRemovalDoes, RootDurable, RemovalFailed, SameJob, Moves
<1>9. CASE InsertDoes
  BY <1>0, <1>i, <1>9 DEF InsertDoes, Inserting, DirBecomes, Ready
<1>10. CASE ReplaceDoes
  BY <1>0, <1>i, <1>10 DEF ReplaceDoes, Starts, SameRoot, Rest, Ready
<1>11. CASE ActivateDoes
  BY <1>0, <1>i, <1>11 DEF ActivateDoes, Starts, SameRoot, Rest, Ready
<1>12. CASE DeleteDoes
  BY <1>0, <1>i, <1>12 DEF DeleteDoes, Starts, SameRoot, Rest, Ready
<1>13. CASE RetryDoes
  BY <1>0, <1>i, <1>13 DEF RetryDoes
<1>14. CASE OpenDoes
  BY <1>0, <1>i, <1>14 DEF OpenDoes
<1>15. CASE SyncOpenDoes
  BY <1>0, <1>i, <1>15 DEF SyncOpenDoes, RootDurable, SameJob, Moves
<1>16. CASE MigrateDoes
  BY <1>0, <1>i, <1>16 DEF MigrateDoes, Inserting, DirBecomes
<1>17. CASE CleanupDoes
  BY <1>0, <1>i, <1>17 DEF CleanupDoes, DirBecomes, SameJob, Moves, SameRoot
<1>18. CASE SyncCleanupDoes
  BY <1>0, <1>i, <1>18 DEF SyncCleanupDoes, RootDurable
<1>19. CASE CrashDoes
  BY <1>0, <1>i, <1>19 DEF CrashDoes, Down, SameRoot
<1>20. CASE PowerLossDoes
  BY <1>0, <1>i, <1>20 DEF PowerLossDoes, Down
<1> QED
  BY EveryStep, <1>1, <1>2, <1>3, <1>4, <1>5, <1>6, <1>7, <1>8, <1>9, <1>10, <1>11, <1>12, <1>13,
     <1>14, <1>15, <1>16, <1>17, <1>18, <1>19, <1>20 DEF StepDoes

\* The first three layers are an invariant.
LEMMA DebtInvariant == Spec => [](ShapeInv /\ IndexInv /\ IndexDebt /\ Proposal /\ DirDebt)
<1>1. Init => ShapeInv /\ IndexInv /\ IndexDebt /\ Proposal /\ DirDebt
  BY ShapeInit, IdleFields DEF Init, IndexInv, IndexDebt, Proposal, DirDebt, Known
<1>2. ShapeInv /\ IndexInv /\ IndexDebt /\ Proposal /\ DirDebt /\ [Next]_vars
        => (ShapeInv /\ IndexInv /\ IndexDebt /\ Proposal /\ DirDebt)'
  <2>1. CASE UNCHANGED vars
    BY <2>1 DEF ShapeInv, TypeOK, JobInv, IndexInv, IndexDebt, Proposal, DirDebt, Known,
                Tidy, Unindexed, vars
  <2> QED
    BY <2>1, ShapeNext, IndexNext, IndexDebtNext, ProposalNext, DirDebtNext
<1> QED
  BY <1>1, <1>2, PTL DEF Spec

\* has_maintenance_debt tells the truth about the root: without it every
\* directory is indexed and the index on disk is durable.
THEOREM DebtTellsTheTruth == Spec => []DebtIsFlagged
<1>1. IndexDebt /\ DirDebt => DebtIsFlagged
  BY IdleFields DEF IndexDebt, DirDebt, Tidy, Known, DebtIsFlagged, Ready
<1> QED
  BY <1>1, DebtInvariant, PTL

-------------------------------------------------------------------------------
(* The fourth layer: the directories and what was promised of them *)

\* What is on disk may come back, and a directory that is not there holds nothing.
\* A generation is written to a directory that is there.
DirsHeld ==
    /\ \A p \in Ids : disk.dir[p] \in maybe.dir[p]
    /\ \A p \in Ids : \A d \in maybe.dir[p] : ~d.there => d = Absent
    /\ job.op \in {"insert", "migrate", "replace"} /\ job.pc \in Publishing \cup Committing =>
           disk.dir[job.id].there

\* No index names an id that was never given out, and one that was never saved
\* names nothing.  A clean-up finds no index that names what it removes, and
\* nor does the removal that follows a durable deletion.
Lists ==
    /\ \A i \in maybe.index : i.list \subseteq used /\ (i.saved \/ i.list = {})
    /\ job.next.list \subseteq used /\ (job.next.saved \/ job.next.list = {})
    /\ job.id \in used \cup {NoId}
    /\ job.pc = "migrate" => maybe.index = {disk.index} /\ ~mem.saved
    /\ job.op = "migrate" /\ job.pc \in Publishing \cup Committing =>
           job.next.list = {job.id} /\ \A i \in maybe.index : i.list \subseteq {job.id}
    /\ job.pc = "cleanup" => \A i \in maybe.index : i.list \subseteq mem.list
    /\ job.op = "delete" /\ job.pc = "remove" => \A i \in maybe.index : job.id \notin i.list
    /\ job.op = "insert" /\ job.pc \in Publishing \cup {"index", "remove"} =>
           job.id \notin mem.list

\* Nothing is promised of a profile that was never committed or is given up.
Unpromised ==
    /\ \A p \in Ids \ used : promised[p] = 0
    /\ job.op \in {"insert", "migrate"} /\ job.pc \in Publishing \cup Committing \cup {"remove"} =>
           promised[job.id] = 0
    /\ job.op = "retry" => promised[job.id] = 0
    /\ job.op \in {"activate", "delete"} => job.gen = 0

\* Without debt, power loss cannot take away the directory of an indexed profile.
Rooted ==
    Known /\ ~debt /\ job.pc # "syncRoot" =>
        \A p \in mem.list : disk.dir[p].there => Absent \notin maybe.dir[p]

\* A sync of the root only takes away what may come back.
LEMMA RootDurableHeld ==
  ASSUME ShapeInv, DirsHeld, RootDurable
  PROVE  \A p \in Ids : /\ maybe'.dir[p] \subseteq maybe.dir[p] /\ disk.dir[p] \in maybe'.dir[p]
                        /\ disk.dir[p].there => Absent \notin maybe'.dir[p]
<1> TAKE p \in Ids
<1>1. disk.dir[p] \in maybe.dir[p] /\ (~disk.dir[p].there => disk.dir[p] = Absent) /\ ~Absent.there
  BY NewDirTypes DEF DirsHeld
<1>2. maybe'.dir[p] = IF disk.dir[p].there THEN maybe.dir[p] \ {Absent} ELSE {Absent}
  BY DEF RootDurable
<1>3. CASE disk.dir[p].there
  BY <1>1, <1>2, <1>3
<1>4. CASE ~disk.dir[p].there
  BY <1>1, <1>2, <1>4
<1> QED
  BY <1>3, <1>4

\* No step makes the disk show what may not come back.
LEMMA DirsHeldNext ==
  ASSUME ShapeInv, DirsHeld, Next
  PROVE  DirsHeld'
<1> USE DEF DirsHeld, JobInv, Publishing, Committing, Removing, Opening
<1>0. JobInv /\ up \in BOOLEAN /\ debt \in BOOLEAN /\ used \subseteq Ids
      /\ disk \in DiskType /\ maybe \in MaybeType /\ promised \in [Ids -> 0..MaxGen]
  BY Types DEF ShapeInv
<1>i. /\ Idle.op = "none" /\ Idle.pc = "idle" /\ Idle.id = NoId /\ Idle.gen = 0
      /\ Idle.next = NoIndex /\ NoIndex.list = {}
      /\ ~Absent.there /\ EmptyDir.there /\ NoId \notin Ids
  BY IdleFields, NewDirTypes, StoreAssumption DEF NoIndex
<1>u. \A p \in Unindexed : p \in Ids /\ disk.dir[p].there
  BY DEF Unindexed
<1>r. RootDurable => \A p \in Ids :
          maybe'.dir[p] \subseteq maybe.dir[p] /\ disk.dir[p] \in maybe'.dir[p]
  BY RootDurableHeld
<1>p. disk.dir[job.id] = Absent => \A d \in PartlyRemoved(disk.dir[job.id]) : d = Absent
  BY PartlyRemovedAbsent
<1>1. CASE PublishDoes
  BY <1>0, <1>i, <1>u, <1>r, <1>1 DEF PublishDoes, DirBecomes, SameJob, Undone, Moves, SameRoot
<1>2. CASE SyncDirDoes
  BY <1>0, <1>i, <1>u, <1>r, <1>2 DEF SyncDirDoes, DirDurable, SameJob, Rest
<1>3. CASE PruneDoes
  BY <1>0, <1>i, <1>u, <1>r, <1>3 DEF PruneDoes, DirBecomes, SameJob, Moves, Rest
<1>4. CASE ReloadDoes
  BY <1>0, <1>i, <1>u, <1>r, <1>4 DEF ReloadDoes, Answered, SameJob, Moves, Undone
<1>5. CASE PersistIndexDoes
  BY <1>0, <1>i, <1>u, <1>r, <1>5 DEF PersistIndexDoes, SameJob, Moves, Undone, SameRoot
<1>6. CASE SyncRootDoes
  BY <1>0, <1>i, <1>u, <1>r, <1>6 DEF SyncRootDoes, Answered, SameJob, Moves
<1>7. CASE RemoveDoes
  BY <1>0, <1>i, <1>p, <1>7 DEF RemoveDoes, DirBecomes, RemovalFailed, SameJob, Moves
<1>8. CASE SyncRemovalDoes
  BY <1>0, <1>i, <1>u, <1>r, <1>8 DEF SyncRemovalDoes, RemovalFailed, SameJob, Moves
<1>9. CASE InsertDoes
  BY <1>0, <1>i, <1>u, <1>r, <1>9 DEF InsertDoes, Inserting, DirBecomes, Ready
<1>10. CASE ReplaceDoes
  BY <1>0, <1>i, <1>u, <1>r, <1>10 DEF ReplaceDoes, Starts, SameRoot, Rest, Ready
<1>11. CASE ActivateDoes
  BY <1>0, <1>i, <1>u, <1>r, <1>11 DEF ActivateDoes, Starts, SameRoot, Rest, Ready
<1>12. CASE DeleteDoes
  BY <1>0, <1>i, <1>u, <1>r, <1>12 DEF DeleteDoes, Starts, SameRoot, Rest, Ready
<1>13. CASE RetryDoes
  BY <1>0, <1>i, <1>u, <1>r, <1>13 DEF RetryDoes
<1>14. CASE OpenDoes
  BY <1>0, <1>i, <1>u, <1>r, <1>14 DEF OpenDoes
<1>15. CASE SyncOpenDoes
  BY <1>0, <1>i, <1>u, <1>r, <1>15 DEF SyncOpenDoes, SameJob, Moves
<1>16. CASE MigrateDoes
  BY <1>0, <1>i, <1>u, <1>r, <1>16 DEF MigrateDoes, Inserting, DirBecomes
<1>17. CASE CleanupDoes
  BY <1>0, <1>i, <1>u, <1>r, <1>17 DEF CleanupDoes, DirBecomes, SameJob, Moves, SameRoot
<1>18. CASE SyncCleanupDoes
  BY <1>0, <1>i, <1>u, <1>r, <1>18 DEF SyncCleanupDoes
<1>19. CASE CrashDoes
  BY <1>0, <1>i, <1>u, <1>r, <1>19 DEF CrashDoes, Down, SameRoot
<1>20. CASE PowerLossDoes
  BY <1>0, <1>i, <1>u, <1>r, <1>20 DEF PowerLossDoes, Down
<1> QED
  BY EveryStep, <1>1, <1>2, <1>3, <1>4, <1>5, <1>6, <1>7, <1>8, <1>9, <1>10, <1>11, <1>12, <1>13,
     <1>14, <1>15, <1>16, <1>17, <1>18, <1>19, <1>20 DEF StepDoes

\* No step brings an id into an index other than the one just given out.
LEMMA ListsNext ==
  ASSUME ShapeInv, IndexInv, Proposal, Lists, Next
  PROVE  Lists'
<1> USE DEF Lists, Proposal, IndexInv, JobInv, Publishing, Committing, Removing, Opening
<1>0. JobInv /\ up \in BOOLEAN /\ debt \in BOOLEAN /\ used \subseteq Ids
      /\ disk \in DiskType /\ maybe \in MaybeType /\ promised \in [Ids -> 0..MaxGen]
  BY Types DEF ShapeInv
<1>i. /\ Idle.op = "none" /\ Idle.pc = "idle" /\ Idle.id = NoId /\ Idle.gen = 0
      /\ Idle.next = NoIndex /\ NoIndex.list = {}
      /\ ~Absent.there /\ EmptyDir.there /\ NoId \notin Ids
  BY IdleFields, NewDirTypes, StoreAssumption DEF NoIndex
<1>1. CASE PublishDoes
  BY <1>0, <1>i, <1>1 DEF PublishDoes, DirBecomes, SameJob, Undone, Moves, SameRoot
<1>2. CASE SyncDirDoes
  BY <1>0, <1>i, <1>2 DEF SyncDirDoes, DirDurable, SameJob, Rest
<1>3. CASE PruneDoes
  BY <1>0, <1>i, <1>3 DEF PruneDoes, DirBecomes, SameJob, Moves, Rest
<1>4. CASE ReloadDoes
  BY <1>0, <1>i, <1>4 DEF ReloadDoes, Answered, SameJob, Moves, Undone
<1>5. CASE PersistIndexDoes
  BY <1>0, <1>i, <1>5 DEF PersistIndexDoes, SameJob, Moves, Undone, SameRoot
<1>6. CASE SyncRootDoes
  BY <1>0, <1>i, <1>6 DEF SyncRootDoes, RootDurable, Answered, SameJob, Moves
<1>7. CASE RemoveDoes
  BY <1>0, <1>i, <1>7 DEF RemoveDoes, DirBecomes, RemovalFailed, SameJob, Moves
<1>8. CASE SyncRemovalDoes
  BY <1>0, <1>i, <1>8 DEF SyncRemovalDoes, RootDurable, RemovalFailed, SameJob, Moves
<1>9. CASE InsertDoes
  BY <1>0, <1>i, <1>9 DEF InsertDoes, Inserting, DirBecomes, Ready
<1>10. CASE ReplaceDoes
  BY <1>0, <1>i, <1>10 DEF ReplaceDoes, Starts, SameRoot, Rest, Ready
<1>11. CASE ActivateDoes
  BY <1>0, <1>i, <1>11 DEF ActivateDoes, Starts, SameRoot, Rest, Ready
<1>12. CASE DeleteDoes
  BY <1>0, <1>i, <1>12 DEF DeleteDoes, Starts, SameRoot, Rest, Ready
<1>13. CASE RetryDoes
  BY <1>0, <1>i, <1>13 DEF RetryDoes
<1>14. CASE OpenDoes
  BY <1>0, <1>i, <1>14 DEF OpenDoes
<1>15. CASE SyncOpenDoes
  BY <1>0, <1>i, <1>15 DEF SyncOpenDoes, RootDurable, SameJob, Moves
<1>16. CASE MigrateDoes
  BY <1>0, <1>i, <1>16 DEF MigrateDoes, Inserting, DirBecomes
<1>17. CASE CleanupDoes
  BY <1>0, <1>i, <1>17 DEF CleanupDoes, DirBecomes, SameJob, Moves, SameRoot
<1>18. CASE SyncCleanupDoes
  BY <1>0, <1>i, <1>18 DEF SyncCleanupDoes, RootDurable
<1>19. CASE CrashDoes
  BY <1>0, <1>i, <1>19 DEF CrashDoes, Down, SameRoot
<1>20. CASE PowerLossDoes
  BY <1>0, <1>i, <1>20 DEF PowerLossDoes, Down
<1> QED
  BY EveryStep, <1>1, <1>2, <1>3, <1>4, <1>5, <1>6, <1>7, <1>8, <1>9, <1>10, <1>11, <1>12, <1>13,
     <1>14, <1>15, <1>16, <1>17, <1>18, <1>19, <1>20 DEF StepDoes

\* An answer promises only a profile that was committed.
LEMMA UnpromisedNext ==
  ASSUME ShapeInv, Lists, Unpromised, Next
  PROVE  Unpromised'
<1> USE DEF Unpromised, Lists, JobInv, Publishing, Committing, Removing, Opening
<1>0. JobInv /\ up \in BOOLEAN /\ debt \in BOOLEAN /\ used \subseteq Ids
      /\ disk \in DiskType /\ maybe \in MaybeType /\ promised \in [Ids -> 0..MaxGen]
  BY Types DEF ShapeInv
<1>i. /\ Idle.op = "none" /\ Idle.pc = "idle" /\ Idle.id = NoId /\ Idle.gen = 0
      /\ Idle.next = NoIndex /\ NoIndex.list = {}
      /\ ~Absent.there /\ EmptyDir.there /\ NoId \notin Ids
  BY IdleFields, NewDirTypes, StoreAssumption DEF NoIndex
<1>1. CASE PublishDoes
  BY <1>0, <1>i, <1>1 DEF PublishDoes, DirBecomes, SameJob, Undone, Moves, SameRoot
<1>2. CASE SyncDirDoes
  BY <1>0, <1>i, <1>2 DEF SyncDirDoes, DirDurable, SameJob, Rest
<1>3. CASE PruneDoes
  BY <1>0, <1>i, <1>3 DEF PruneDoes, DirBecomes, SameJob, Moves, Rest
<1>4. CASE ReloadDoes
  BY <1>0, <1>i, <1>4 DEF ReloadDoes, Answered, SameJob, Moves, Undone
<1>5. CASE PersistIndexDoes
  BY <1>0, <1>i, <1>5 DEF PersistIndexDoes, SameJob, Moves, Undone, SameRoot
<1>6. CASE SyncRootDoes
  BY <1>0, <1>i, <1>6 DEF SyncRootDoes, RootDurable, Answered, SameJob, Moves
<1>7. CASE RemoveDoes
  BY <1>0, <1>i, <1>7 DEF RemoveDoes, DirBecomes, RemovalFailed, SameJob, Moves
<1>8. CASE SyncRemovalDoes
  BY <1>0, <1>i, <1>8 DEF SyncRemovalDoes, RootDurable, RemovalFailed, SameJob, Moves
<1>9. CASE InsertDoes
  BY <1>0, <1>i, <1>9 DEF InsertDoes, Inserting, DirBecomes, Ready
<1>10. CASE ReplaceDoes
  BY <1>0, <1>i, <1>10 DEF ReplaceDoes, Starts, SameRoot, Rest, Ready
<1>11. CASE ActivateDoes
  BY <1>0, <1>i, <1>11 DEF ActivateDoes, Starts, SameRoot, Rest, Ready
<1>12. CASE DeleteDoes
  BY <1>0, <1>i, <1>12 DEF DeleteDoes, Starts, SameRoot, Rest, Ready
<1>13. CASE RetryDoes
  BY <1>0, <1>i, <1>13 DEF RetryDoes
<1>14. CASE OpenDoes
  BY <1>0, <1>i, <1>14 DEF OpenDoes
<1>15. CASE SyncOpenDoes
  BY <1>0, <1>i, <1>15 DEF SyncOpenDoes, RootDurable, SameJob, Moves
<1>16. CASE MigrateDoes
  BY <1>0, <1>i, <1>16 DEF MigrateDoes, Inserting, DirBecomes
<1>17. CASE CleanupDoes
  BY <1>0, <1>i, <1>17 DEF CleanupDoes, DirBecomes, SameJob, Moves, SameRoot
<1>18. CASE SyncCleanupDoes
  BY <1>0, <1>i, <1>18 DEF SyncCleanupDoes, RootDurable
<1>19. CASE CrashDoes
  BY <1>0, <1>i, <1>19 DEF CrashDoes, Down, SameRoot
<1>20. CASE PowerLossDoes
  BY <1>0, <1>i, <1>20 DEF PowerLossDoes, Down
<1> QED
  BY EveryStep, <1>1, <1>2, <1>3, <1>4, <1>5, <1>6, <1>7, <1>8, <1>9, <1>10, <1>11, <1>12, <1>13,
     <1>14, <1>15, <1>16, <1>17, <1>18, <1>19, <1>20 DEF StepDoes

\* An indexed directory is durable in the root, or the debt is flagged.
LEMMA RootedNext ==
  ASSUME ShapeInv, IndexInv, IndexDebt, Proposal, DirsHeld, Lists, Rooted, Next
  PROVE  Rooted'
<1> USE DEF Rooted, Known, IndexDebt, IndexInv, DirsHeld, Proposal, Lists,
           JobInv, Publishing, Committing, Removing, Opening
<1>0. JobInv /\ up \in BOOLEAN /\ debt \in BOOLEAN /\ used \subseteq Ids
      /\ disk \in DiskType /\ maybe \in MaybeType /\ promised \in [Ids -> 0..MaxGen]
  BY Types DEF ShapeInv
<1>i. /\ Idle.op = "none" /\ Idle.pc = "idle" /\ Idle.id = NoId /\ Idle.gen = 0
      /\ Idle.next = NoIndex /\ NoIndex.list = {}
      /\ ~Absent.there /\ EmptyDir.there /\ NoId \notin Ids
  BY IdleFields, NewDirTypes, StoreAssumption DEF NoIndex
<1>u. \A p \in Unindexed : p \in Ids /\ p \notin mem.list
  BY DEF Unindexed
<1>r. RootDurable => \A p \in Ids : disk.dir[p].there => Absent \notin maybe'.dir[p]
  BY RootDurableHeld
<1>m. mem.list \subseteq Ids /\ job.next.list \subseteq Ids
  BY Types DEF ShapeInv, Index, Proposed, JobType
<1>1. CASE PublishDoes
  BY <1>0, <1>i, <1>u, <1>r, <1>m, <1>1 DEF PublishDoes, DirBecomes, SameJob, Undone, Moves, SameRoot
<1>2. CASE SyncDirDoes
  BY <1>0, <1>i, <1>u, <1>r, <1>m, <1>2 DEF SyncDirDoes, DirDurable, SameJob, Rest
<1>3. CASE PruneDoes
  BY <1>0, <1>i, <1>u, <1>r, <1>m, <1>3 DEF PruneDoes, DirBecomes, SameJob, Moves, Rest
<1>4. CASE ReloadDoes
  BY <1>0, <1>i, <1>u, <1>r, <1>m, <1>4 DEF ReloadDoes, Answered, SameJob, Moves, Undone
<1>5. CASE PersistIndexDoes
  BY <1>0, <1>i, <1>u, <1>r, <1>m, <1>5 DEF PersistIndexDoes, SameJob, Moves, Undone, SameRoot
<1>6. CASE SyncRootDoes
  BY <1>0, <1>i, <1>u, <1>r, <1>m, <1>6 DEF SyncRootDoes, Answered, SameJob, Moves
<1>7. CASE RemoveDoes
  BY <1>0, <1>i, <1>u, <1>r, <1>m, <1>7 DEF RemoveDoes, DirBecomes, RemovalFailed, SameJob, Moves
<1>8. CASE SyncRemovalDoes
  BY <1>0, <1>i, <1>u, <1>r, <1>m, <1>8 DEF SyncRemovalDoes, RemovalFailed, SameJob, Moves
<1>9. CASE InsertDoes
  BY <1>0, <1>i, <1>u, <1>r, <1>m, <1>9 DEF InsertDoes, Inserting, DirBecomes, Ready
<1>10. CASE ReplaceDoes
  BY <1>0, <1>i, <1>u, <1>r, <1>m, <1>10 DEF ReplaceDoes, Starts, SameRoot, Rest, Ready
<1>11. CASE ActivateDoes
  BY <1>0, <1>i, <1>u, <1>r, <1>m, <1>11 DEF ActivateDoes, Starts, SameRoot, Rest, Ready
<1>12. CASE DeleteDoes
  BY <1>0, <1>i, <1>u, <1>r, <1>m, <1>12 DEF DeleteDoes, Starts, SameRoot, Rest, Ready
<1>13. CASE RetryDoes
  BY <1>0, <1>i, <1>u, <1>r, <1>m, <1>13 DEF RetryDoes
<1>14. CASE OpenDoes
  BY <1>0, <1>i, <1>u, <1>r, <1>m, <1>14 DEF OpenDoes
<1>15. CASE SyncOpenDoes
  BY <1>0, <1>i, <1>u, <1>r, <1>m, <1>15 DEF SyncOpenDoes, SameJob, Moves
<1>16. CASE MigrateDoes
  BY <1>0, <1>i, <1>u, <1>r, <1>m, <1>16 DEF MigrateDoes, Inserting, DirBecomes
<1>17. CASE CleanupDoes
  BY <1>0, <1>i, <1>u, <1>r, <1>m, <1>17 DEF CleanupDoes, DirBecomes, SameJob, Moves, SameRoot
<1>18. CASE SyncCleanupDoes
  BY <1>0, <1>i, <1>u, <1>r, <1>m, <1>18 DEF SyncCleanupDoes
<1>19. CASE CrashDoes
  BY <1>0, <1>i, <1>u, <1>r, <1>m, <1>19 DEF CrashDoes, Down, SameRoot
<1>20. CASE PowerLossDoes
  BY <1>0, <1>i, <1>u, <1>r, <1>m, <1>20 DEF PowerLossDoes, Down
<1> QED
  BY EveryStep, <1>1, <1>2, <1>3, <1>4, <1>5, <1>6, <1>7, <1>8, <1>9, <1>10, <1>11, <1>12, <1>13,
     <1>14, <1>15, <1>16, <1>17, <1>18, <1>19, <1>20 DEF StepDoes

\* A directory has a generation that loads and is no older than n.
Loads(d, n) == \E g \in Gens : g >= n /\ d.gens[g] = "whole"

\* The generation being committed is whole on disk and no older than what was
\* promised; once its directory is synced, it is whole in whatever comes back.
Written ==
    /\ job.pc \in {"syncDir", "prune", "reload"} =>
           /\ job.gen \in Gens /\ job.gen >= promised[job.id]
           /\ disk.dir[job.id].gens[job.gen] = "whole"
    /\ job.op \in {"insert", "migrate", "replace"} /\ ~job.debt
       /\ job.pc \in {"prune", "reload", "index", "syncRoot"} =>
           /\ job.gen \in Gens
           /\ \A d \in maybe.dir[job.id] : d = Absent \/ d.gens[job.gen] = "whole"

\* Whatever comes back, an indexed profile has what was promised of it.
Kept ==
    \A p \in Ids : promised[p] # 0 =>
        \A i \in maybe.index, d \in maybe.dir[p] : p \in i.list => Loads(d, promised[p])

\* Neither a publication nor the pruning loses the newest generation.
LEMMA WrittenNext ==
  ASSUME ShapeInv, IndexInv, Proposal, DirsHeld, Unpromised, Written, Kept, Next
  PROVE  Written'
<1> USE DEF Written, JobInv, Publishing, Committing, Removing, Opening
<1>0. JobInv /\ up \in BOOLEAN /\ debt \in BOOLEAN /\ used \subseteq Ids /\ job \in JobType
      /\ disk \in DiskType /\ maybe \in MaybeType /\ promised \in [Ids -> 0..MaxGen]
  BY Types DEF ShapeInv
<1>i. /\ Idle.op = "none" /\ Idle.pc = "idle" /\ Idle.id = NoId /\ Idle.gen = 0
      /\ ~Absent.there /\ EmptyDir.there /\ NoId \notin Ids
  BY IdleFields, NewDirTypes, StoreAssumption
<1>u. \A p \in Unindexed : p \in Ids /\ disk.dir[p].there
  BY DEF Unindexed
<1>r. RootDurable => \A p \in Ids : maybe'.dir[p] \subseteq maybe.dir[p]
  BY RootDurableHeld
<1>1. CASE PublishDoes
  <2>1. CASE Undone /\ SameRoot
    BY <1>0, <1>i, <1>1, <2>1 DEF PublishDoes, SameJob, Undone, Moves, SameRoot
  <2>2. ASSUME NEW d \in Dirs, NEW g \in Gens,
               DirBecomes(job.id, d), SameJob,
               job'.pc = "syncDir", job'.gen = g, job'.debt = job.debt,
               d.gens[g] = "whole",
               \A h \in Gens : disk.dir[job.id].gens[h] # "none" => h < g
        PROVE  Written'
    <3>1. job.pc = "publish" /\ promised' = promised /\ job.id \in Ids
      BY <1>0, <1>1 DEF PublishDoes
    <3>2. promised[job.id] \in Nat /\ g \in Nat /\ g > 0
      BY <1>0, <3>1, StoreAssumption DEF Gens
    <3>3. g >= promised[job.id]
      <4>1. CASE promised[job.id] = 0
        BY <3>2, <4>1
      <4>2. CASE promised[job.id] # 0
        <5>1. job.op = "replace" /\ job.id \in mem.list /\ mem \in maybe.index
          BY <1>0, <3>1, <4>2 DEF Unpromised, Proposal, IndexInv
        <5>2. Loads(disk.dir[job.id], promised[job.id])
          BY <3>1, <4>2, <5>1 DEF Kept, DirsHeld
        <5>3. PICK h \in Gens : h >= promised[job.id] /\ disk.dir[job.id].gens[h] = "whole"
          BY <5>2 DEF Loads
        <5> QED
          BY <2>2, <3>2, <5>3, StoreAssumption DEF Gens
      <4> QED
        BY <4>1, <4>2
    <3> QED
      BY <2>2, <3>1, <3>3 DEF DirBecomes, SameJob
  <2> QED
    BY <1>1, <2>1, <2>2 DEF PublishDoes
<1>2. CASE SyncDirDoes
  BY <1>0, <1>i, <1>r, <1>2 DEF SyncDirDoes, DirDurable, SameJob, Rest
<1>3. CASE PruneDoes
  BY <1>0, <1>i, <1>r, <1>3 DEF PruneDoes, DirBecomes, SameJob, Moves, Rest
<1>4. CASE ReloadDoes
  BY <1>0, <1>i, <1>r, <1>4 DEF ReloadDoes, Answered, SameJob, Moves, Undone
<1>5. CASE PersistIndexDoes
  BY <1>0, <1>i, <1>r, <1>5 DEF PersistIndexDoes, SameJob, Moves, Undone, SameRoot
<1>6. CASE SyncRootDoes
  BY <1>0, <1>i, <1>r, <1>6 DEF SyncRootDoes, Answered, SameJob, Moves
<1>7. CASE RemoveDoes
  BY <1>0, <1>i, <1>r, <1>7 DEF RemoveDoes, DirBecomes, RemovalFailed, SameJob, Moves
<1>8. CASE SyncRemovalDoes
  BY <1>0, <1>i, <1>r, <1>8 DEF SyncRemovalDoes, RemovalFailed, SameJob, Moves
<1>9. CASE InsertDoes
  BY <1>0, <1>i, <1>r, <1>9 DEF InsertDoes, Inserting, DirBecomes, Ready
<1>10. CASE ReplaceDoes
  BY <1>0, <1>i, <1>r, <1>10 DEF ReplaceDoes, Starts, SameRoot, Rest, Ready
<1>11. CASE ActivateDoes
  BY <1>0, <1>i, <1>r, <1>11 DEF ActivateDoes, Starts, SameRoot, Rest, Ready
<1>12. CASE DeleteDoes
  BY <1>0, <1>i, <1>r, <1>12 DEF DeleteDoes, Starts, SameRoot, Rest, Ready
<1>13. CASE RetryDoes
  BY <1>0, <1>i, <1>r, <1>13 DEF RetryDoes
<1>14. CASE OpenDoes
  BY <1>0, <1>i, <1>r, <1>14 DEF OpenDoes
<1>15. CASE SyncOpenDoes
  BY <1>0, <1>i, <1>r, <1>15 DEF SyncOpenDoes, SameJob, Moves
<1>16. CASE MigrateDoes
  BY <1>0, <1>i, <1>r, <1>16 DEF MigrateDoes, Inserting, DirBecomes
<1>17. CASE CleanupDoes
  BY <1>0, <1>i, <1>r, <1>17 DEF CleanupDoes, DirBecomes, SameJob, Moves, SameRoot
<1>18. CASE SyncCleanupDoes
  BY <1>0, <1>i, <1>r, <1>18 DEF SyncCleanupDoes
<1>19. CASE CrashDoes
  BY <1>0, <1>i, <1>r, <1>19 DEF CrashDoes, Down, SameRoot
<1>20. CASE PowerLossDoes
  BY <1>0, <1>i, <1>r, <1>20 DEF PowerLossDoes, Down
<1> QED
  BY EveryStep, <1>1, <1>2, <1>3, <1>4, <1>5, <1>6, <1>7, <1>8, <1>9, <1>10, <1>11, <1>12, <1>13,
     <1>14, <1>15, <1>16, <1>17, <1>18, <1>19, <1>20 DEF StepDoes


\* Less may come back, and no more is promised.
LEMMA KeptShrinks ==
  ASSUME Kept, maybe'.index \subseteq maybe.index,
         \A p \in Ids : maybe'.dir[p] \subseteq maybe.dir[p],
         \A p \in Ids : promised'[p] \in {promised[p], 0}
  PROVE  Kept'
BY DEF Kept, Loads

\* One directory changes: it still has what was promised, or no index that may
\* come back names it.
LEMMA KeptDir ==
  ASSUME Kept, NEW p \in Ids, NEW d \in Dirs, DirBecomes(p, d), promised' = promised,
         \/ promised[p] = 0
         \/ \A i \in maybe.index : p \notin i.list
         \/ Loads(d, promised[p])
  PROVE  Kept'
<1> SUFFICES ASSUME NEW q \in Ids, promised'[q] # 0, NEW i \in maybe'.index,
                    NEW e \in maybe'.dir[q], q \in i.list
             PROVE  Loads(e, promised'[q])
  BY DEF Kept, Loads
<1>1. i \in maybe.index /\ promised'[q] = promised[q]
  BY DEF DirBecomes
<1>2. CASE e \in maybe.dir[q]
  BY <1>1, <1>2 DEF Kept
<1>3. CASE e \notin maybe.dir[q]
  <2>1. q = p /\ e = d
    BY <1>3 DEF DirBecomes
  <2> QED
    BY <1>1, <2>1
<1> QED
  BY <1>2, <1>3

\* A generation is promised that every directory that may come back has.
LEMMA KeptPromise ==
  ASSUME ShapeInv, Kept, NEW clean \in BOOLEAN, Answered(clean), job.id \in Ids,
         maybe'.index \subseteq maybe.index,
         \A p \in Ids : maybe'.dir[p] \subseteq maybe.dir[p],
         clean /\ ~debt /\ job.gen # 0 =>
             /\ job.gen \in Gens
             /\ \A d \in maybe'.dir[job.id] : d.gens[job.gen] = "whole"
  PROVE  Kept'
<1> SUFFICES ASSUME NEW q \in Ids, promised'[q] # 0, NEW i \in maybe'.index,
                    NEW e \in maybe'.dir[q], q \in i.list
             PROVE  Loads(e, promised'[q])
  BY DEF Kept, Loads
<1>1. CASE q = job.id /\ clean /\ ~debt /\ job.gen # 0
  <2>1. promised'[q] = job.gen /\ job.gen \in Gens /\ e.gens[job.gen] = "whole"
    BY <1>1 DEF Answered
  <2>2. job.gen >= job.gen
    BY <2>1, StoreAssumption DEF Gens
  <2> QED
    BY <2>1, <2>2 DEF Loads
<1>2. CASE ~(q = job.id /\ clean /\ ~debt /\ job.gen # 0)
  <2>1. promised'[q] = promised[q]
    BY <1>2 DEF Answered
  <2> QED
    BY <2>1 DEF Kept
<1> QED
  BY <1>1, <1>2

\* No step takes away what was promised, from any index that may come back.
LEMMA KeptNext ==
  ASSUME ShapeInv, IndexInv, IndexDebt, Proposal, DirsHeld, Lists, Unpromised, Rooted,
         Written, Kept, Next
  PROVE  Kept'
<1> USE DEF JobInv, Publishing, Committing, Removing, Opening
<1>0. JobInv /\ used \subseteq Ids /\ job \in JobType
      /\ disk \in DiskType /\ maybe \in MaybeType /\ promised \in [Ids -> 0..MaxGen]
  BY Types DEF ShapeInv
<1>r. RootDurable => /\ maybe'.index \subseteq maybe.index
                     /\ \A p \in Ids : maybe'.dir[p] \subseteq maybe.dir[p]
                     /\ \A p \in Ids : disk.dir[p].there => Absent \notin maybe'.dir[p]
  BY RootDurableHeld DEF RootDurable, IndexInv
<1>1. CASE PublishDoes
  <2>1. CASE SameRoot
    BY <1>1, <2>1, KeptShrinks DEF PublishDoes, SameRoot
  <2>2. ASSUME NEW d \in Dirs, NEW g \in Gens, DirBecomes(job.id, d),
               \A h \in Gens : disk.dir[job.id].gens[h] # "none" =>
                   d.gens[h] = disk.dir[job.id].gens[h]
        PROVE  Kept'
    <3>1. promised' = promised /\ job.id \in Ids
      BY <1>0, <1>1 DEF PublishDoes
    <3>2. ASSUME NEW i \in maybe.index, job.id \in i.list, promised[job.id] # 0
          PROVE  Loads(d, promised[job.id])
      <4>1. Loads(disk.dir[job.id], promised[job.id])
        BY <3>1, <3>2 DEF Kept, DirsHeld
      <4> QED
        BY <2>2, <4>1 DEF Loads
    <3> QED
      BY <2>2, <3>1, <3>2, KeptDir
  <2> QED
    BY <1>1, <2>1, <2>2 DEF PublishDoes
<1>2. CASE SyncDirDoes
  <2>1. job.id \in Ids /\ promised' = promised
    BY <1>0, <1>2 DEF SyncDirDoes, Rest
  <2>2. maybe'.index \subseteq maybe.index /\ \A p \in Ids : maybe'.dir[p] \subseteq maybe.dir[p]
    BY <1>2, <2>1 DEF SyncDirDoes, DirDurable, DirsHeld
  <2> QED
    BY <2>1, <2>2, KeptShrinks
<1>3. CASE PruneDoes
  <2>1. PICK d \in Dirs : DirBecomes(job.id, d)
                          /\ (job.gen \in Gens => d.gens[job.gen] = disk.dir[job.id].gens[job.gen])
    BY <1>3 DEF PruneDoes
  <2>2. /\ job.gen \in Gens /\ job.gen >= promised[job.id] /\ d.gens[job.gen] = "whole"
        /\ promised' = promised /\ job.id \in Ids
    BY <1>0, <1>3, <2>1 DEF PruneDoes, Written, Rest
  <2>3. Loads(d, promised[job.id])
    BY <2>2 DEF Loads
  <2> QED
    BY <2>1, <2>2, <2>3, KeptDir
<1>4. CASE ReloadDoes
  <2>1. CASE job.op = "replace" /\ Answered(~job.debt)
    <3>1. job.pc = "reload" /\ maybe' = maybe /\ job.id \in Ids /\ up /\ disk.dir[job.id].there
          /\ job.id \in mem.list
      BY <1>0, <1>4, <2>1 DEF ReloadDoes, DirsHeld, Proposal
    <3>2. ~job.debt /\ ~debt => /\ job.gen \in Gens
                                /\ \A d \in maybe'.dir[job.id] : d.gens[job.gen] = "whole"
      BY <2>1, <3>1 DEF Written, Rooted, Known
    <3>3. (~job.debt) \in BOOLEAN
      OBVIOUS
    <3> QED
      BY <2>1, <3>1, <3>2, <3>3, KeptPromise
  <2>2. CASE promised' = promised
    BY <1>4, <2>2, KeptShrinks DEF ReloadDoes
  <2> QED
    BY <1>4, <2>1, <2>2 DEF ReloadDoes
<1>5. CASE PersistIndexDoes
  <2>1. CASE SameRoot
    BY <1>5, <2>1, KeptShrinks DEF PersistIndexDoes, SameRoot
  <2>2. CASE maybe'.index = maybe.index \cup {job.next} /\ maybe'.dir = maybe.dir
    <3>1. promised' = promised /\ job.pc = "index" /\ job.id \in Ids /\ mem \in maybe.index
      BY <1>0, <1>5 DEF PersistIndexDoes, IndexInv
    <3>2. \A p \in Ids : promised[p] # 0 /\ p \in job.next.list => p \in mem.list
      BY <1>0, <3>1 DEF Proposal, Lists, Unpromised
    <3> QED
      BY <2>2, <3>1, <3>2 DEF Kept, Loads
  <2> QED
    BY <1>5, <2>1, <2>2 DEF PersistIndexDoes
<1>6. CASE SyncRootDoes
  <2>0. /\ job.pc = "syncRoot" /\ job.id \in Ids
        /\ job.op \in {"insert", "migrate", "activate", "delete"}
    BY <1>0, <1>6 DEF SyncRootDoes
  <2>1. CASE RootDurable /\ promised' = promised
    BY <1>r, <2>1, KeptShrinks
  <2>2. CASE RootDurable /\ job.op # "delete" /\ Answered(~job.debt)
    <3>1. ~job.debt /\ job.gen # 0 =>
              /\ job.gen \in Gens
              /\ \A d \in maybe'.dir[job.id] : d.gens[job.gen] = "whole"
      BY <1>r, <2>0, <2>2 DEF Written, DirsHeld, Unpromised
    <3>2. (~job.debt) \in BOOLEAN
      OBVIOUS
    <3> QED
      BY <1>r, <2>0, <2>2, <3>1, <3>2, KeptPromise
  <2>3. CASE Answered(FALSE) /\ UNCHANGED <<maybe, agreed>>
    BY <2>0, <2>3, KeptPromise
  <2> QED
    BY <1>6, <2>1, <2>2, <2>3 DEF SyncRootDoes
<1>7. CASE RemoveDoes
  <2>1. PICK d \in Dirs : DirBecomes(job.id, d)
    BY <1>7, NewDirTypes DEF RemoveDoes
  <2>2. /\ promised' = promised /\ job.id \in Ids
        /\ promised[job.id] = 0 \/ \A i \in maybe.index : job.id \notin i.list
    BY <1>0, <1>7 DEF RemoveDoes, Unpromised, Lists
  <2> QED
    BY <2>1, <2>2, KeptDir
<1>8. CASE SyncRemovalDoes
  BY <1>8, <1>r, KeptShrinks DEF SyncRemovalDoes
<1>9. CASE InsertDoes \/ MigrateDoes
  <2>1. PICK p \in Ids \ used : DirBecomes(p, EmptyDir) /\ promised' = promised
    BY <1>9 DEF InsertDoes, MigrateDoes, Inserting
  <2>2. promised[p] = 0 /\ EmptyDir \in Dirs
    BY <2>1, NewDirTypes DEF Unpromised
  <2> QED
    BY <2>1, <2>2, KeptDir
<1>10. CASE ReplaceDoes \/ ActivateDoes \/ DeleteDoes
  BY <1>10, KeptShrinks DEF ReplaceDoes, ActivateDoes, DeleteDoes, Starts, SameRoot, Rest
<1>11. CASE RetryDoes \/ OpenDoes \/ CrashDoes
  BY <1>11, KeptShrinks DEF RetryDoes, OpenDoes, CrashDoes, SameRoot
<1>12. CASE SyncOpenDoes \/ SyncCleanupDoes
  BY <1>12, <1>r, KeptShrinks DEF SyncOpenDoes, SyncCleanupDoes
<1>13. CASE CleanupDoes
  <2>1. CASE SameRoot
    BY <1>13, <2>1, KeptShrinks DEF CleanupDoes, SameRoot
  <2>2. ASSUME NEW p \in Unindexed, NEW d \in Dirs, DirBecomes(p, d)
        PROVE  Kept'
    <3>1. p \in Ids /\ p \notin mem.list /\ promised' = promised /\ job.pc = "cleanup"
      BY <1>13 DEF CleanupDoes, Unindexed
    <3>2. \A i \in maybe.index : p \notin i.list
      BY <3>1 DEF Lists
    <3> QED
      BY <2>2, <3>1, <3>2, KeptDir
  <2> QED
    BY <1>13, <2>1, <2>2 DEF CleanupDoes
<1>14. CASE PowerLossDoes
  <2>1. /\ maybe'.index \subseteq maybe.index /\ promised' = promised
        /\ \A p \in Ids : maybe'.dir[p] \subseteq maybe.dir[p]
    BY <1>14 DEF PowerLossDoes
  <2> QED
    BY <2>1, KeptShrinks
<1> QED
  BY EveryStep, <1>1, <1>2, <1>3, <1>4, <1>5, <1>6, <1>7, <1>8, <1>9, <1>10, <1>11, <1>12,
     <1>13, <1>14 DEF StepDoes

\* The whole invariant of the store.
StoreInv ==
    /\ ShapeInv /\ IndexInv
    /\ IndexDebt /\ Proposal
    /\ DirsHeld /\ Lists /\ Unpromised /\ Rooted
    /\ Written /\ Kept

\* The layers together are an invariant.
LEMMA StoreInvariant == Spec => []StoreInv
<1>1. Init => StoreInv
  <2> SUFFICES ASSUME Init PROVE StoreInv
    OBVIOUS
  <2>1. ShapeInv
    BY ShapeInit
  <2>2. /\ disk.index = NoIndex /\ maybe.index = {NoIndex}
        /\ \A p \in Ids : disk.dir[p] = Absent /\ maybe.dir[p] = {Absent} /\ promised[p] = 0
    BY DEF Init
  <2>3. NoIndex.list = {}
    BY DEF NoIndex
  <2> QED
    BY <2>1, <2>2, <2>3, IdleFields
       DEF Init, StoreInv, IndexInv, IndexDebt, Proposal, DirsHeld, Lists, Unpromised, Rooted,
           Written, Kept, Known, Publishing, Committing
<1>2. StoreInv /\ [Next]_vars => StoreInv'
  <2>1. CASE UNCHANGED vars
    BY <2>1 DEF StoreInv, ShapeInv, TypeOK, JobInv, IndexInv, IndexDebt, Proposal, DirsHeld,
                Lists, Unpromised, Rooted, Written, Kept, Known, vars
  <2>2. ASSUME StoreInv, Next
        PROVE  StoreInv'
    BY <2>2, ShapeNext, IndexNext, IndexDebtNext, ProposalNext, DirsHeldNext, ListsNext,
       UnpromisedNext, RootedNext, WrittenNext, KeptNext DEF StoreInv
  <2> QED
    BY <2>1, <2>2
<1> QED
  BY <1>1, <1>2, PTL DEF Spec

\* Durability: whatever a power loss brings back at any moment, a profile that
\* an index names loads with the generation its last clean answer promised, or
\* a newer one.
THEOREM PromisesAreKept == Spec => []PromisedSurvives
<1>1. StoreInv => PromisedSurvives
  <2> SUFFICES ASSUME StoreInv, NEW p \in Ids, promised[p] # 0, NEW i \in maybe.index,
                      NEW d \in maybe.dir[p], p \in i.list
               PROVE  Current(d) >= promised[p]
    BY DEF PromisedSurvives
  <2>1. PICK g \in Gens : g >= promised[p] /\ d.gens[g] = "whole"
    BY DEF StoreInv, Kept, Loads
  <2>2. d \in Dirs /\ promised[p] \in Nat
    BY Types DEF StoreInv, ShapeInv, MaybeType
  <2>3. Current(d) \in Nat /\ g <= Current(d)
    BY <2>1, <2>2, CurrentIs, StoreAssumption
  <2> QED
    BY <2>1, <2>2, <2>3, StoreAssumption DEF Gens
<1> QED
  BY <1>1, StoreInvariant, PTL
===============================================================================
