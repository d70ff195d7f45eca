----------------------------- MODULE ProfileStore -----------------------------
(***************************************************************************)
(* The profile store on disk: ProfileStore (multicore-core/src/profile.rs) *)
(* over PersistentSnapshotStore (snapshot.rs) and DirectoryCapability      *)
(* (store_root.rs).                                                        *)
(*                                                                         *)
(* A root directory holds the index file and one directory per profile,    *)
(* which holds numbered snapshot generations.  The index lock makes        *)
(* operations follow one another, but every step of one may fail, the      *)
(* process may die after it, and a power loss may bring back what was not  *)
(* synced: each entry of the root by itself, a profile directory as it was *)
(* at some moment since its last sync.  Saved selections, logos and icons  *)
(* are left out.                                                           *)
(***************************************************************************)
EXTENDS Naturals, FiniteSets

CONSTANTS
    Ids,          \* profile ids; they are random and never used twice
    NoId,
    MaxGen,       \* bound on the generations of a profile
    Retained,     \* RETAINED_GENERATIONS
    MaxProfiles,  \* MAX_PROFILES
    Legacy        \* a legacy root holds a snapshot to migrate

ASSUME StoreAssumption ==
    /\ NoId \notin Ids /\ IsFiniteSet(Ids) /\ Legacy \in BOOLEAN
    /\ MaxGen \in Nat \ {0} /\ Retained \in Nat \ {0} /\ MaxProfiles \in Nat

Gens == 1..MaxGen
\* A generation directory: missing, with files missing, or loadable.
Held == {"none", "torn", "whole"}
Dirs == [there : BOOLEAN, gens : [Gens -> Held]]
Absent == [there |-> FALSE, gens |-> [g \in Gens |-> "none"]]
EmptyDir == [Absent EXCEPT !.there = TRUE]

Proposed == [saved : BOOLEAN, list : SUBSET Ids, active : Ids \cup {NoId}]

\* validate_index.
Valid(i) ==
    /\ Cardinality(i.list) <= MaxProfiles
    /\ i.list = {} <=> i.active = NoId
    /\ i.active \in i.list \cup {NoId}

Index == {i \in Proposed : Valid(i)}
NoIndex == [saved |-> FALSE, list |-> {}, active |-> NoId]    \* no index file

VARIABLES
    disk,      \* what the file system shows: disk.index and disk.dir
    maybe,     \* the values each entry may have after a power loss
    mem,       \* the index in memory
    debt,      \* has_maintenance_debt
    job,       \* the operation in progress and its next step
    up,        \* the store is open
    used,      \* ids ever given to a profile
    promised,  \* promised[p]: the generation last answered with Ok, or 0
    agreed     \* the index value last answered with Ok, in a set, or {}

vars == <<disk, maybe, mem, debt, job, up, used, promised, agreed>>

Ops == {"none", "insert", "migrate", "replace", "activate", "delete", "retry", "open"}
Steps == {"idle", "publish", "syncDir", "prune", "reload", "index", "syncRoot",
          "remove", "syncRemoval", "retry", "syncOpen", "migrate", "cleanup",
          "syncCleanup", "failedCleanup"}
Idle == [op |-> "none", pc |-> "idle", id |-> NoId, gen |-> 0, next |-> NoIndex,
         debt |-> FALSE, swept |-> FALSE]

\* Types.  Every index on disk, durable or not, is one that open accepts.
TypeOK ==
    /\ disk \in [index : Index, dir : [Ids -> Dirs]]
    /\ maybe \in [index : SUBSET Index, dir : [Ids -> SUBSET Dirs]]
    /\ mem \in Index /\ debt \in BOOLEAN /\ up \in BOOLEAN
    /\ job \in [op : Ops, pc : Steps, id : Ids \cup {NoId}, gen : 0..MaxGen,
                next : Proposed, debt : BOOLEAN, swept : BOOLEAN]
    /\ used \subseteq Ids /\ promised \in [Ids -> 0..MaxGen] /\ agreed \subseteq Index

-------------------------------------------------------------------------------
(* Directories *)

Largest(S) == CHOOSE g \in S \cup {0} : \A h \in S : h <= g
\* open_capability: the newest generation that loads, and the number after
\* every generation directory there is, whether it loads or not.
Current(d) == Largest({g \in Gens : d.gens[g] = "whole"})
NextGen(d) == Largest({g \in Gens : d.gens[g] # "none"}) + 1

\* What a remove_child_tree that fails may leave: generations with files missing.
PartlyRemoved(d) ==
    {[d EXCEPT !.gens = [g \in Gens |-> IF g \in S THEN "torn" ELSE d.gens[g]]] :
        S \in SUBSET {g \in Gens : d.gens[g] # "none"}}

\* An entry of the root changes; until the next sync a power loss may undo it.
SetDir(p, d) ==
    /\ disk' = [disk EXCEPT !.dir[p] = d]
    /\ maybe' = [maybe EXCEPT !.dir[p] = @ \cup {d}]

\* sync of a profile directory: its contents are durable, the entry that
\* names it in the root only if it was before.
DirSynced(p) ==
    maybe' = [maybe EXCEPT !.dir[p] = {disk.dir[p]} \cup (@ \cap {Absent})]

\* sync of the root: the index, and which profile directories there are.
RootSynced ==
    maybe' = [index |-> {disk.index},
              dir |-> [p \in Ids |-> IF disk.dir[p].there
                                     THEN maybe.dir[p] \ {Absent} ELSE {Absent}]]

-------------------------------------------------------------------------------
(* Steps that operations share *)

Step(pc) == job' = [job EXCEPT !.pc = pc]
Rest == UNCHANGED <<mem, debt, up, used, promised, agreed>>

\* The operation returns.  An error before anything was committed ends the
\* opening of the store, too.
Returns ==
    /\ job' = Idle
    /\ up' = (up /\ job.op \notin {"migrate", "open"})

\* It could not remove the directory, or not make that durable.
RemovalFails ==
    /\ debt' = TRUE
    /\ IF job.op = "delete" THEN Step("retry") /\ UNCHANGED up ELSE Returns

\* An insertion that failed removes its directory again.
Undo == IF job.op \in {"insert", "migrate"} THEN Step("remove") /\ UNCHANGED up ELSE Returns

\* commit_with_generation_status up to the rename that publishes the
\* generation.  A failure leaves nothing but a staging directory.
Publish ==
    LET d == disk.dir[job.id]
        g == NextGen(d) IN
    /\ job.pc = "publish"
    /\ \/ /\ g <= MaxGen
          /\ SetDir(job.id, [d EXCEPT !.gens[g] = "whole"])
          /\ job' = [job EXCEPT !.pc = "syncDir", !.gen = g]
          /\ UNCHANGED up
       \/ Undo /\ UNCHANGED <<disk, maybe>>
    /\ UNCHANGED <<mem, debt, used, promised, agreed>>

\* Mutant: the profile's directory is not synced.
NeverSynced ==
    /\ job.pc = "syncDir" /\ Step("prune")
    /\ UNCHANGED <<disk, maybe>> /\ Rest

\* A failed sync is maintenance debt, which only a migration rejects.
SyncDir ==
    /\ job.pc = "syncDir"
    /\ \/ DirSynced(job.id) /\ Step("prune")
       \/ job' = [job EXCEPT !.pc = "prune", !.debt = TRUE] /\ UNCHANGED maybe
    /\ UNCHANGED disk /\ Rest

Superseded(g) == g + Retained <= job.gen

\* prune_superseded_generations: best effort.
Prune ==
    LET d == disk.dir[job.id]
        old == {g \in Gens : Superseded(g) /\ d.gens[g] # "none"} IN
    /\ job.pc = "prune"
    /\ \E f \in [old -> Held] :
          SetDir(job.id, [d EXCEPT !.gens = [g \in Gens |->
                              IF g \in old /\ f[g] # "whole" THEN f[g] ELSE d.gens[g]]])
    /\ Step("reload") /\ Rest

\* An answer that names a debt, or a clean one.  A clean one promises the
\* generation, unless an earlier debt is flagged: a replace does not sync the
\* root, so it does not make good an insertion whose root sync failed.
Answer(clean) ==
    /\ job' = CASE job.op = "migrate" -> [job EXCEPT !.pc = "cleanup"]
                [] job.op = "delete" -> [job EXCEPT !.pc = "retry"]
                [] OTHER -> Idle
    /\ debt' = (debt \/ ~clean)
    /\ promised' = IF clean /\ ~debt /\ job.gen # 0
                   THEN [promised EXCEPT ![job.id] = job.gen] ELSE promised

\* load_profile after the commit.
Reload ==
    /\ job.pc = "reload"
    /\ \/ /\ job.op = "replace" /\ Current(disk.dir[job.id]) = job.gen
          /\ Answer(~job.debt) /\ UNCHANGED up
       \/ /\ job.op # "replace" /\ Current(disk.dir[job.id]) # 0
          /\ ~(job.op = "migrate" /\ job.debt)
          /\ Step("index") /\ UNCHANGED <<debt, promised, up>>
       \/ Undo /\ UNCHANGED <<debt, promised>>
    /\ UNCHANGED <<disk, maybe, mem, used, agreed>>

\* Mutant: the proposed index is not validated.
PersistUnvalidated ==
    /\ job.pc = "index"
    /\ disk' = [disk EXCEPT !.index = job.next]
    /\ maybe' = [maybe EXCEPT !.index = @ \cup {job.next}]
    /\ agreed' = {}
    /\ Step("syncRoot") /\ UNCHANGED <<mem, debt, up, used, promised>>

\* persist_index: the new index replaces the old one in one rename, or it is
\* refused: an add_profile to an empty store would leave no profile active.
PersistIndex ==
    /\ job.pc = "index"
    /\ \/ /\ Valid(job.next)
          /\ disk' = [disk EXCEPT !.index = job.next]
          /\ maybe' = [maybe EXCEPT !.index = @ \cup {job.next}]
          /\ agreed' = {}
          /\ Step("syncRoot") /\ UNCHANGED up
       \/ Undo /\ UNCHANGED <<disk, maybe, agreed>>
    /\ UNCHANGED <<mem, debt, used, promised>>

\* Mutants: a failed sync keeps the old index in memory; it is answered as a
\* success.
MemoryKept ==
    /\ job.pc = "syncRoot"
    /\ Answer(FALSE)
    /\ UNCHANGED <<disk, maybe, mem, up, used, agreed>>
DebtForgotten ==
    /\ job.pc = "syncRoot"
    /\ mem' = job.next /\ agreed' = {job.next} /\ Answer(TRUE)
    /\ UNCHANGED <<disk, maybe, up, used>>

\* The sync after it.  A deletion goes on to the directory only when the index
\* without the profile is durable.
SyncRoot ==
    /\ job.pc = "syncRoot"
    /\ mem' = job.next
    /\ \/ /\ RootSynced /\ agreed' = {job.next}
          /\ IF job.op = "delete" THEN Step("remove") /\ UNCHANGED <<debt, promised>>
             ELSE Answer(~job.debt)
       \/ Answer(FALSE) /\ UNCHANGED <<maybe, agreed>>
    /\ UNCHANGED <<disk, up, used>>

\* Mutant: a directory that cannot be removed is not recorded.
RemovedSilently ==
    /\ job.pc = "remove"
    /\ \/ SetDir(job.id, Absent) /\ Step("syncRemoval") /\ UNCHANGED up
       \/ \E d \in PartlyRemoved(disk.dir[job.id]) : SetDir(job.id, d) /\ Returns
    /\ UNCHANGED <<mem, debt, used, promised, agreed>>

\* remove_profile_directory, after an insertion failed or a deletion committed,
\* or to try again.
Remove ==
    /\ job.pc = "remove"
    /\ \/ SetDir(job.id, Absent) /\ Step("syncRemoval") /\ UNCHANGED <<debt, up>>
       \/ /\ \E d \in PartlyRemoved(disk.dir[job.id]) : SetDir(job.id, d)
          /\ RemovalFails
    /\ UNCHANGED <<mem, used, promised, agreed>>

SyncRemoval ==
    /\ job.pc = "syncRemoval"
    /\ \/ RootSynced /\ Returns /\ UNCHANGED debt
       \/ RemovalFails /\ UNCHANGED maybe
    /\ UNCHANGED <<disk, mem, used, promised, agreed>>

-------------------------------------------------------------------------------
(* Operations *)

Ready == up /\ job = Idle
Begin(op, pc, p, next) ==
    job' = [Idle EXCEPT !.op = op, !.pc = pc, !.id = p, !.next = next]

Occupied == mem.list \cup {p \in Ids : disk.dir[p].there}

\* insert_profile: create_profile activates, add_profile does not.
Insert(activate) ==
    /\ Ready /\ Cardinality(Occupied) < MaxProfiles
    /\ \E p \in Ids \ used :
          /\ SetDir(p, EmptyDir)
          /\ used' = used \cup {p}
          /\ Begin("insert", "publish", p,
                   [saved |-> TRUE, list |-> mem.list \cup {p},
                    active |-> IF activate THEN p ELSE mem.active])
    /\ UNCHANGED <<mem, debt, up, promised, agreed>>

\* replace_profile_loaded.
Replace ==
    /\ Ready
    /\ \E p \in mem.list : disk.dir[p].there /\ Begin("replace", "publish", p, mem)
    /\ UNCHANGED <<disk, maybe>> /\ Rest

Activate ==
    /\ Ready
    /\ \E p \in mem.list \ {mem.active} :
          /\ Current(disk.dir[p]) # 0
          /\ Begin("activate", "index", p, [mem EXCEPT !.active = p])
    /\ UNCHANGED <<disk, maybe>> /\ Rest

\* delete: another profile becomes active, if it loads.
Delete ==
    /\ Ready
    /\ \E p \in mem.list :
       \E q \in IF p # mem.active THEN {mem.active}
                ELSE IF mem.list = {p} THEN {NoId} ELSE mem.list \ {p} :
          /\ p = mem.active /\ q # NoId => Current(disk.dir[q]) # 0
          /\ Begin("delete", "index", p,
                   [saved |-> TRUE, list |-> mem.list \ {p}, active |-> q])
    /\ UNCHANGED <<disk, maybe>> /\ Rest

\* A deletion that left a debt: the daemon calls cleanup_unindexed_profile at
\* once.  The user gave the profile up; nothing is promised of it any more.
Retry ==
    /\ job.pc = "retry"
    /\ job' = [job EXCEPT !.op = "retry", !.pc = "remove"]
    /\ promised' = [promised EXCEPT ![job.id] = 0]
    /\ UNCHANGED <<disk, maybe, mem, debt, up, used, agreed>>

-------------------------------------------------------------------------------
(* open_impl *)

Open ==
    /\ ~up /\ job = Idle /\ Valid(disk.index)
    /\ mem' = disk.index /\ debt' = FALSE
    /\ Begin("open", "syncOpen", NoId, NoIndex)
    /\ UNCHANGED <<disk, maybe, up, used, promised, agreed>>

Migrating == ~mem.saved /\ Legacy

SyncOpen ==
    /\ job.pc = "syncOpen"
    /\ \/ /\ RootSynced /\ UNCHANGED up
          /\ Step(IF Migrating THEN "migrate" ELSE "cleanup")
       \/ Returns /\ UNCHANGED maybe
    /\ UNCHANGED <<disk, mem, debt, used, promised, agreed>>

\* migrate_legacy.
Migrate ==
    /\ job.pc = "migrate"
    /\ \E p \in Ids \ used :
          /\ SetDir(p, EmptyDir) /\ used' = used \cup {p}
          /\ Begin("migrate", "publish", p,
                   [saved |-> TRUE, list |-> {p}, active |-> p])
    /\ UNCHANGED <<mem, debt, up, promised, agreed>>

\* cleanup_unindexed_profile_directories.
Unindexed == {p \in Ids : disk.dir[p].there} \ mem.list

Opened == job' = Idle /\ up' = TRUE

Cleanup ==
    /\ job.pc = "cleanup"
    /\ \/ \E p \in Unindexed :
             \/ SetDir(p, Absent) /\ job' = [job EXCEPT !.swept = TRUE] /\ UNCHANGED up
             \/ /\ \E d \in PartlyRemoved(disk.dir[p]) : SetDir(p, d)
                /\ IF job.swept THEN Step("failedCleanup") /\ UNCHANGED up ELSE Returns
       \/ /\ Unindexed = {} /\ UNCHANGED <<disk, maybe>>
          /\ IF job.swept THEN Step("syncCleanup") /\ UNCHANGED up ELSE Opened
    /\ UNCHANGED <<mem, debt, used, promised, agreed>>

SyncCleanup ==
    /\ job.pc = "syncCleanup"
    /\ \/ RootSynced /\ Opened
       \/ Returns /\ UNCHANGED maybe
    /\ UNCHANGED <<disk, mem, debt, used, promised, agreed>>

\* The opening fails; what was removed before is still synced, if it can be.
FailedCleanup ==
    /\ job.pc = "failedCleanup"
    /\ RootSynced \/ UNCHANGED maybe
    /\ Returns
    /\ UNCHANGED <<disk, mem, debt, used, promised, agreed>>

-------------------------------------------------------------------------------
(* The process dies, or the machine loses power. *)

Down == up' = FALSE /\ job' = Idle /\ mem' = NoIndex /\ debt' = FALSE

Crash ==
    /\ up \/ job # Idle
    /\ Down /\ UNCHANGED <<disk, maybe, used, promised, agreed>>

PowerLoss ==
    /\ \E i \in maybe.index, f \in [Ids -> UNION {maybe.dir[p] : p \in Ids}] :
          /\ \A p \in Ids : f[p] \in maybe.dir[p]
          /\ disk' = [index |-> i, dir |-> f]
          /\ maybe' = [index |-> {i}, dir |-> [p \in Ids |-> {f[p]}]]
    /\ Down /\ UNCHANGED <<used, promised, agreed>>

Init ==
    /\ disk = [index |-> NoIndex, dir |-> [p \in Ids |-> Absent]]
    /\ maybe = [index |-> {NoIndex}, dir |-> [p \in Ids |-> {Absent}]]
    /\ mem = NoIndex /\ debt = FALSE /\ job = Idle /\ up = FALSE
    /\ used = {} /\ promised = [p \in Ids |-> 0] /\ agreed = {NoIndex}

Commit == Publish \/ SyncDir \/ Prune \/ Reload \/ PersistIndex \/ SyncRoot
              \/ Remove \/ SyncRemoval

Next ==
    \/ \E activate \in BOOLEAN : Insert(activate)
    \/ Replace \/ Activate \/ Delete \/ Retry \/ Commit
    \/ Open \/ SyncOpen \/ Migrate \/ Cleanup \/ SyncCleanup \/ FailedCleanup
    \/ Crash \/ PowerLoss

Spec == Init /\ [][Next]_vars

-------------------------------------------------------------------------------
(* Properties *)

\* Durability: whatever a power loss brings back at any moment, a profile that
\* an index names loads with the generation its last clean answer promised, or
\* a newer one.  No step removes a directory (delete, the undo of an insertion,
\* the clean-up at open, the pruning) that a surviving index still needs.
PromisedSurvives ==
    \A p \in Ids : promised[p] # 0 =>
        \A i \in maybe.index, d \in maybe.dir[p] :
            p \in i.list => Current(d) >= promised[p]

\* An index answered without maintenance debt is the only one that can come
\* back: an activation or deletion answered Ok is never undone by a crash.
AgreedSurvives == agreed # {} => maybe.index = agreed

\* Between operations the index in memory is the one on disk, whichever steps
\* of earlier operations failed.
MemoryMatchesDisk == Ready => mem = disk.index

\* has_maintenance_debt tells the truth about the root: without it every
\* directory is indexed and the index on disk is durable.
DebtIsFlagged ==
    Ready /\ ~debt => Unindexed = {} /\ maybe.index = {disk.index}
===============================================================================
