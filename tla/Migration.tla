------------------------------ MODULE Migration ------------------------------
(***************************************************************************)
(* The schema v1 -> v2 migration of a Personal Tideway home: planning,     *)
(* transactional apply with a backup bundle, automatic rollback when a     *)
(* mutation fails, and the operator's `ptw migrate rollback`               *)
(* (core/migration.py and core/migration_apply.py).                        *)
(*                                                                         *)
(* Several ptw processes share one file tree.  Each step of an apply or of *)
(* a rollback is an action of its own, so that a crash, an I/O error or    *)
(* another process may come between any two of them.  The operator and the *)
(* clients (Codex, agy, editors) also write to the tree, but never while a *)
(* process holds the migration lock: the code claims no protection from    *)
(* writers that race a locked apply.                                       *)
(*                                                                         *)
(* File contents are abstracted to what the migration tells apart.         *)
(***************************************************************************)
EXTENDS Naturals

CONSTANTS
    Procs,        \* ptw processes
    NoProc,       \* the lock is free
    Bundles,      \* identifiers of backup bundles (uuid in the code)
    NoBundle,
    Skills,       \* names of the entries of the legacy agy skills directory
    V1Homes,      \* the trees a migration may start from
    MaxMishaps    \* bound: crashes, I/O errors and outside writes together

ASSUME NoProcAssumption == NoProc \notin Procs
ASSUME NoBundleAssumption == NoBundle \notin Bundles
ASSUME MaxMishapsAssumption == MaxMishaps \in Nat

-----------------------------------------------------------------------------
(* The file tree *)

Config   == <<"home", "config.yaml">>
Memory   == <<"home", "memory">>
V2Tree   == <<"home", "canonical v2 directories">>
Archive  == <<"home", "archive/legacy_memory">>
Rules    == <<"gemini", "GEMINI.md">>
NewRules == <<"gemini", "config/GEMINI.md">>
SkillRoot == <<"gemini", "config/skills">>
Client   == <<"client", "configuration and rules">>
LegacySkill(s)  == <<"gemini/skills", s>>
CurrentSkill(s) == <<"gemini/config/skills", s>>

\* What a v1 home is made of, and what the migration backs up.
Sources == {Config, Memory, Rules, Client} \cup {LegacySkill(s) : s \in Skills}
\* What the migration creates.
Destinations == {V2Tree, Archive, NewRules, SkillRoot} \cup {CurrentSkill(s) : s \in Skills}
Path == Sources \cup Destinations

(* "v1", "v1_edited"  written by v1 and recognised as such (managed markers) *)
(* "foreign"          the user's own, without managed markers                *)
(* "blank"            a rules file with nothing but white space              *)
(* "rest"             the legacy rules file without its managed block        *)
(* "v2"               written by the migration                               *)
(* "none_text"        a managed block whose body is the text None            *)
(* "partial"          a copy that stopped half way                           *)
(* "note"             central memory written after the migration             *)
Content == {"absent", "v1", "v1_edited", "foreign", "blank", "rest", "v2",
            "none_text", "partial", "note"}
Managed == {"v1", "v1_edited"}
\* A home that schema v1 left behind: each artifact but the config optional,
\* the user's own current skills root perhaps already there.
V1Tree(f) ==
    /\ f \in [Path -> {"absent", "v1", "foreign", "blank"}]
    /\ f[Config] = "v1" /\ f[Memory] \in {"absent", "v1"}
    /\ \A x \in Path : f[x] = "blank" => x = Rules
    /\ \A x \in Destinations : f[x] = "absent" \/ (x = SkillRoot /\ f[x] = "foreign")

ASSUME V1HomesAssumption == \A f \in V1Homes : V1Tree(f)

NoTree == [x \in Sources |-> "absent"]

ManifestState == {"none", "preparing", "applying", "completed", "rolled_back",
                  "rollback_failed"}
Restorable == {"applying", "completed", "rollback_failed"}

VARIABLES
    fs,        \* the file tree
    kept,      \* contents saved as <name>.post_migration beside the memory
    lock,      \* holder of locks/migration.lock
    mstate,    \* state field of each bundle's manifest.json
    mcreated,  \* its entries with existed_before = false
    backup,    \* the payloads under its entries/ directory
    pc,        \* where each process is
    bun,       \* the bundle a process works on
    seen,      \* apply: the source snapshot it planned from
    made,      \* apply: destinations recorded so far, in memory
    todo,      \* paths the current loop has still to visit
    mf,        \* rollback: the created destinations it read from the manifest
    mishaps,   \* how many have happened
    origin     \* history: the tree when a bundle was created

disk  == <<fs, kept>>
bundleVars == <<mstate, mcreated, backup, origin>>
local == <<bun, seen, made, todo, mf>>
vars  == <<disk, lock, bundleVars, pc, local, mishaps>>

\* Phase B of apply_migration: backups are armed and mutations run.
MutatingPcs == {"m_dirs", "m_config", "m_rules", "m_rules_old", "m_skills",
                "m_skill_copy", "m_skill_src", "m_memory_src", "m_done"}
AbortPcs == {"abort"}
RollbackPcs == {"rb_clean", "rb_restore"}
BackupPcs == {"locked", "backup"}
LockedPcs == BackupPcs \cup MutatingPcs \cup AbortPcs \cup RollbackPcs
Pcs == {"idle", "snapped", "planned", "rb_read"} \cup LockedPcs

TypeOK ==
    /\ fs \in [Path -> Content]
    /\ kept \in SUBSET Content
    /\ lock \in Procs \cup {NoProc}
    /\ mstate \in [Bundles -> ManifestState]
    /\ mcreated \in [Bundles -> SUBSET Destinations]
    /\ backup \in [Bundles -> [Sources -> Content]]
    /\ origin \in [Bundles -> [Path -> Content]]
    /\ pc \in [Procs -> Pcs]
    /\ bun \in [Procs -> Bundles \cup {NoBundle}]
    /\ seen \in [Procs -> [Sources -> Content]]
    /\ made \in [Procs -> SUBSET Destinations]
    /\ todo \in [Procs -> SUBSET Path]
    /\ mf \in [Procs -> SUBSET Destinations]
    /\ mishaps \in 0 .. MaxMishaps

\* Manifest entries are listed, and visited, in the order they were made.
Stage(x) ==
    CASE x \in {Config, V2Tree} -> 1
      [] x \in {Rules, NewRules} -> 2
      [] x = SkillRoot -> 3
      [] x \in {Memory, Archive} -> 5
      [] x = Client -> 6
      [] OTHER -> 4

IsNext(p, x) == x \in todo[p] /\ \A y \in todo[p] : Stage(x) <= Stage(y)

-----------------------------------------------------------------------------
(* Planning *)

Snapshot == [x \in Sources |-> fs[x]]

\* Rules and skills present both at the legacy and at the current place.
Collision ==
    \/ fs[Rules] # "absent" /\ fs[NewRules] # "absent"
    \/ \E s \in Skills : fs[LegacySkill(s)] # "absent" /\ fs[CurrentSkill(s)] # "absent"

PlanStatus ==
    CASE fs[Config] = "v2" -> "not_required"
      [] fs[Config] \in Managed /\ ~Collision -> "ready"
      [] OTHER -> "blocked"

\* check_rules_ownership: text without markers has no provable owner.
OwnershipError == fs[Rules] \in {"foreign", "rest"}

ManagedSkills(p) == {s \in Skills : seen[p][LegacySkill(s)] \in Managed}

-----------------------------------------------------------------------------
(* Control helpers *)

Goto(p, label) == pc' = [pc EXCEPT ![p] = label]

ResetLocals(p) ==
    /\ pc' = [pc EXCEPT ![p] = "idle"]
    /\ bun' = [bun EXCEPT ![p] = NoBundle]
    /\ seen' = [seen EXCEPT ![p] = NoTree]
    /\ made' = [made EXCEPT ![p] = {}]
    /\ todo' = [todo EXCEPT ![p] = {}]
    /\ mf' = [mf EXCEPT ![p] = {}]

\* Mutants: the lock is released whoever holds it; it is never released.
Return_AnyLock(p) == ResetLocals(p) /\ lock' = NoProc
Return_NoRelease(p) == ResetLocals(p) /\ UNCHANGED lock

\* The call returns; its finally clause releases the lock it took.
Return(p) ==
    /\ ResetLocals(p)
    /\ lock' = IF lock = p THEN NoProc ELSE lock

Init ==
    /\ fs \in V1Homes
    /\ kept = {}
    /\ lock = NoProc
    /\ mstate = [b \in Bundles |-> "none"]
    /\ mcreated = [b \in Bundles |-> {}]
    /\ backup = [b \in Bundles |-> NoTree]
    /\ origin = [b \in Bundles |-> [x \in Path |-> "absent"]]
    /\ pc = [p \in Procs |-> "idle"]
    /\ bun = [p \in Procs |-> NoBundle]
    /\ seen = [p \in Procs |-> NoTree]
    /\ made = [p \in Procs |-> {}]
    /\ todo = [p \in Procs |-> {}]
    /\ mf = [p \in Procs |-> {}]
    /\ mishaps = 0

-----------------------------------------------------------------------------
(* apply_migration, before the lock *)

\* Hash every source before planning, so that later drift shows.
TakeSnapshot(p) ==
    /\ pc[p] = "idle"
    /\ seen' = [seen EXCEPT ![p] = Snapshot]
    /\ Goto(p, "snapped")
    /\ UNCHANGED <<disk, lock, bundleVars, bun, made, todo, mf, mishaps>>

\* Only a ready plan goes on; a blocked or unneeded one returns its report.
Plan(p) ==
    /\ pc[p] = "snapped"
    /\ IF PlanStatus = "ready"
       THEN Goto(p, "planned") /\ UNCHANGED <<lock, local>>
       ELSE Return(p)
    /\ UNCHANGED <<disk, bundleVars, mishaps>>

\* The lock is not waited for: contention is an error of this call.
Lock(p) ==
    /\ pc[p] = "planned"
    /\ IF lock = NoProc
       THEN lock' = p /\ Goto(p, "locked") /\ UNCHANGED local
       ELSE Return(p)
    /\ UNCHANGED <<disk, bundleVars, mishaps>>

-----------------------------------------------------------------------------
(* apply_migration, Phase A: the backup bundle *)

\* Mutant: the locked snapshot is not compared with the first one.
Revalidated_NoDrift(p) == PlanStatus = "ready" /\ ~OwnershipError

\* The plan is made again under the lock; it must be the one of the snapshot.
Revalidated(p) == PlanStatus = "ready" /\ Snapshot = seen[p] /\ ~OwnershipError

\* Bound: the model has Bundles, the code as many identifiers as it asks for.
BundleLeft == \E b \in Bundles : mstate[b] = "none"

Refuse(p) ==
    /\ pc[p] = "locked"
    /\ ~Revalidated(p) \/ ~BundleLeft
    /\ Return(p)
    /\ UNCHANGED <<disk, bundleVars, mishaps>>

Prepare(p, b) ==
    /\ pc[p] = "locked"
    /\ Revalidated(p)
    /\ mstate[b] = "none"
    /\ mstate' = [mstate EXCEPT ![b] = "preparing"]
    /\ origin' = [origin EXCEPT ![b] = fs]
    /\ bun' = [bun EXCEPT ![p] = b]
    /\ todo' = [todo EXCEPT ![p] = {x \in Sources : fs[x] # "absent"}]
    /\ Goto(p, "backup")
    /\ UNCHANGED <<disk, lock, mcreated, backup, seen, made, mf, mishaps>>

\* One target is copied and its copy verified against the target's hash.
BackUp(p, x) ==
    /\ pc[p] = "backup"
    /\ IsNext(p, x)
    /\ backup' = [backup EXCEPT ![bun[p]][x] = fs[x]]
    /\ todo' = [todo EXCEPT ![p] = @ \ {x}]
    /\ UNCHANGED <<disk, lock, mstate, mcreated, origin, pc, bun, seen, made, mf, mishaps>>

\* Mutant: the bundle is armed before its last backup.
Arm_Early(p) ==
    /\ pc[p] = "backup"
    /\ mstate' = [mstate EXCEPT ![bun[p]] = "applying"]
    /\ Goto(p, "m_dirs")
    /\ UNCHANGED <<disk, lock, mcreated, backup, origin, local, mishaps>>

\* The manifest names the backups, and no created destination yet.
Arm(p) ==
    /\ pc[p] = "backup"
    /\ todo[p] = {}
    /\ mstate' = [mstate EXCEPT ![bun[p]] = "applying"]
    /\ Goto(p, "m_dirs")
    /\ UNCHANGED <<disk, lock, mcreated, backup, origin, local, mishaps>>


Mishap == mishaps < MaxMishaps /\ mishaps' = mishaps + 1

\* Any error of Phase A removes the bundle again.
BackupFails(p) ==
    /\ pc[p] = "backup"
    /\ Mishap
    /\ mstate' = [mstate EXCEPT ![bun[p]] = "none"]
    /\ backup' = [backup EXCEPT ![bun[p]] = NoTree]
    /\ Return(p)
    /\ UNCHANGED <<disk, mcreated, origin>>

-----------------------------------------------------------------------------
(* apply_migration, Phase B: the mutations, in the order of the code *)

Write(x, c) == fs' = [fs EXCEPT ![x] = c]
Record(p, x) == made' = [made EXCEPT ![p] = @ \cup {x}]
RecordIfNew(p, x) == IF fs[x] = "absent" THEN Record(p, x) ELSE UNCHANGED made
MutationFrame == UNCHANGED <<kept, lock, bundleVars, bun, seen, mf, mishaps>>

\* 02: registry/, projects/, knowledge/, ... and their initial files, if missing.
InitDirs(p) ==
    /\ pc[p] = "m_dirs"
    /\ IF fs[V2Tree] = "absent" THEN Write(V2Tree, "v2") ELSE UNCHANGED fs
    /\ RecordIfNew(p, V2Tree)
    /\ Goto(p, "m_config")
    /\ UNCHANGED todo /\ MutationFrame

\* 03
UpdateConfig(p) ==
    /\ pc[p] = "m_config"
    /\ Write(Config, "v2")
    /\ Goto(p, IF fs[Rules] # "absent" THEN "m_rules" ELSE "m_skills")
    /\ todo' = [todo EXCEPT ![p] = {LegacySkill(s) : s \in ManagedSkills(p)}]
    /\ UNCHANGED made /\ MutationFrame

\* 04: the managed block is written first; a file without markers has no
\* block, and the body formatted into the destination is then the text None.
CopyRules(p) ==
    /\ pc[p] = "m_rules"
    /\ Write(NewRules, IF fs[Rules] \in Managed THEN fs[Rules] ELSE "none_text")
    /\ RecordIfNew(p, NewRules)
    /\ Goto(p, "m_rules_old")
    /\ UNCHANGED todo /\ MutationFrame

\* The legacy file keeps its unmanaged text, or goes when it has none.
StripRules(p) ==
    /\ pc[p] = "m_rules_old"
    /\ \E left \in IF fs[Rules] = "blank" THEN {"absent"} ELSE {"absent", "rest"} :
          Write(Rules, left)
    /\ Goto(p, "m_skills")
    /\ UNCHANGED <<made, todo>> /\ MutationFrame

\* 05: the legacy skills root exists when it has an entry.
HasLegacySkills(p) == \E s \in Skills : seen[p][LegacySkill(s)] # "absent"

InitSkillRoot(p) ==
    /\ pc[p] = "m_skills"
    /\ IF HasLegacySkills(p) /\ fs[SkillRoot] = "absent"
       THEN Write(SkillRoot, "v2") /\ Record(p, SkillRoot)
       ELSE UNCHANGED <<fs, made>>
    /\ Goto(p, "m_skill_copy")
    /\ UNCHANGED todo /\ MutationFrame

CopySkill(p, s) ==
    /\ pc[p] = "m_skill_copy"
    /\ LegacySkill(s) \in todo[p]
    /\ Write(CurrentSkill(s), fs[LegacySkill(s)])
    /\ todo' = [todo EXCEPT ![p] = (@ \ {LegacySkill(s)}) \cup {CurrentSkill(s)}]
    /\ Goto(p, "m_skill_src")
    /\ UNCHANGED made /\ MutationFrame

\* Mutant: the old place is recorded as created, not the new one.
DropLegacySkill_WrongRecord(p, s) ==
    /\ pc[p] = "m_skill_src"
    /\ CurrentSkill(s) \in todo[p]
    /\ Write(LegacySkill(s), "absent")
    /\ Record(p, LegacySkill(s))
    /\ todo' = [todo EXCEPT ![p] = @ \ {CurrentSkill(s)}]
    /\ Goto(p, "m_skill_copy")
    /\ MutationFrame

\* Only now is the new skill recorded.  It was absent: the plan had no collision.
DropLegacySkill(p, s) ==
    /\ pc[p] = "m_skill_src"
    /\ CurrentSkill(s) \in todo[p]
    /\ Write(LegacySkill(s), "absent")
    /\ Record(p, CurrentSkill(s))
    /\ todo' = [todo EXCEPT ![p] = @ \ {CurrentSkill(s)}]
    /\ Goto(p, "m_skill_copy")
    /\ MutationFrame

\* 06
ArchiveMemory(p) ==
    /\ pc[p] = "m_skill_copy"
    /\ todo[p] = {}
    /\ IF fs[Memory] = "absent"
       THEN Goto(p, "m_done") /\ UNCHANGED <<fs, made>>
       ELSE /\ Write(Archive, fs[Memory])
            /\ Record(p, Archive)
            /\ Goto(p, "m_memory_src")
    /\ UNCHANGED todo /\ MutationFrame

\* The copy is compared with the original before the original goes.
DropMemory(p) ==
    /\ pc[p] = "m_memory_src"
    /\ fs[Archive] = fs[Memory]
    /\ Write(Memory, "absent")
    /\ Goto(p, "m_done")
    /\ UNCHANGED <<made, todo>> /\ MutationFrame

Complete(p) ==
    /\ pc[p] = "m_done"
    /\ mstate' = [mstate EXCEPT ![bun[p]] = "completed"]
    /\ mcreated' = [mcreated EXCEPT ![bun[p]] = made[p]]
    /\ Return(p)
    /\ UNCHANGED <<disk, backup, origin, mishaps>>

-----------------------------------------------------------------------------
(* Errors of Phase B, and the automatic rollback *)

\* Mutant: the error is swallowed.
MutationFails_Swallowed(p) ==
    /\ pc[p] \in MutatingPcs
    /\ Mishap
    /\ Goto(p, "m_done")
    /\ UNCHANGED <<disk, lock, bundleVars, local>>

\* A mutation raises before it changes anything.
MutationFails(p) ==
    /\ pc[p] \in MutatingPcs
    /\ Mishap
    /\ Goto(p, "abort")
    /\ UNCHANGED <<disk, lock, bundleVars, local>>

\* A tree copy stops half way.  The archive's new parent is already recorded,
\* a new skill is not.
CopyFails(p) ==
    /\ pc[p] = "m_skill_copy"
    /\ Mishap
    /\ \/ \E s \in Skills : /\ LegacySkill(s) \in todo[p]
                            /\ Write(CurrentSkill(s), "partial")
                            /\ UNCHANGED made
       \/ /\ todo[p] = {}
          /\ fs[Memory] # "absent"
          /\ Write(Archive, "partial")
          /\ RecordIfNew(p, Archive)
    /\ Goto(p, "abort")
    /\ UNCHANGED <<kept, lock, bundleVars, bun, seen, todo, mf>>

\* The handler writes the recorded destinations into the manifest and calls
\* rollback_migration, which reads them back, under the lock already held.
Abort(p) ==
    /\ pc[p] = "abort"
    /\ mcreated' = [mcreated EXCEPT ![bun[p]] = made[p]]
    /\ mf' = [mf EXCEPT ![p] = made[p]]
    /\ todo' = [todo EXCEPT ![p] = made[p]]
    /\ Goto(p, "rb_clean")
    /\ UNCHANGED <<disk, lock, mstate, backup, origin, bun, seen, made, mishaps>>

\* That write fails too: the call reports rollback_failed, nothing is undone.
AbortFails(p) ==
    /\ pc[p] = "abort"
    /\ Mishap
    /\ Return(p)
    /\ UNCHANGED <<disk, bundleVars>>

-----------------------------------------------------------------------------
(* rollback_migration *)

\* The manifest is read and validated before the lock is asked for.  A
\* preparing or already rolled back one returns here.
ReadManifest(p, b) ==
    /\ pc[p] = "idle"
    /\ mstate[b] \in Restorable
    /\ bun' = [bun EXCEPT ![p] = b]
    /\ mf' = [mf EXCEPT ![p] = mcreated[b]]
    /\ Goto(p, "rb_read")
    /\ UNCHANGED <<disk, lock, bundleVars, seen, made, todo, mishaps>>

LockForRollback(p) ==
    /\ pc[p] = "rb_read"
    /\ IF lock = NoProc
       THEN /\ lock' = p
            /\ todo' = [todo EXCEPT ![p] = mf[p]]
            /\ Goto(p, "rb_clean")
            /\ UNCHANGED <<bun, seen, made, mf>>
       ELSE Return(p)
    /\ UNCHANGED <<disk, bundleVars, mishaps>>

\* Every entry under a directory goes with it.
Subtree(x) == IF x = SkillRoot THEN {x} \cup {CurrentSkill(s) : s \in Skills} ELSE {x}

CleanDestination(p, x) ==
    /\ pc[p] = "rb_clean"
    /\ IsNext(p, x)
    /\ fs' = [y \in Path |-> IF y \in Subtree(x) THEN "absent" ELSE fs[y]]
    /\ todo' = [todo EXCEPT ![p] = @ \ {x}]
    /\ UNCHANGED <<kept, lock, bundleVars, pc, bun, seen, made, mf, mishaps>>

Saved(b) == {x \in Sources : backup[b][x] # "absent"}

\* Mutant: nothing is restored after the destinations are gone.
CleanedAll_NoRestore(p) ==
    /\ pc[p] = "rb_clean"
    /\ todo[p] = {}
    /\ Goto(p, "rb_restore")
    /\ UNCHANGED <<disk, lock, bundleVars, local, mishaps>>

CleanedAll(p) ==
    /\ pc[p] = "rb_clean"
    /\ todo[p] = {}
    /\ todo' = [todo EXCEPT ![p] = Saved(bun[p])]
    /\ Goto(p, "rb_restore")
    /\ UNCHANGED <<disk, lock, bundleVars, bun, seen, made, mf, mishaps>>

\* Mutant: a changed note is overwritten.
Restore_Overwrites(p, x) ==
    /\ pc[p] = "rb_restore"
    /\ IsNext(p, x)
    /\ Write(x, backup[bun[p]][x])
    /\ todo' = [todo EXCEPT ![p] = @ \ {x}]
    /\ UNCHANGED <<kept, lock, bundleVars, pc, bun, seen, made, mf, mishaps>>

\* A memory note of another content is first saved beside the restored one.
Restore(p, x) ==
    /\ pc[p] = "rb_restore"
    /\ IsNext(p, x)
    /\ kept' = IF x = Memory /\ fs[x] \notin {"absent", backup[bun[p]][x]}
               THEN kept \cup {fs[x]} ELSE kept
    /\ Write(x, backup[bun[p]][x])
    /\ todo' = [todo EXCEPT ![p] = @ \ {x}]
    /\ UNCHANGED <<lock, bundleVars, pc, bun, seen, made, mf, mishaps>>

\* Mutant: the manifest is marked before the last entry is restored.
MarkRolledBack_Early(p) ==
    /\ pc[p] = "rb_restore"
    /\ mstate' = [mstate EXCEPT ![bun[p]] = "rolled_back"]
    /\ mcreated' = [mcreated EXCEPT ![bun[p]] = mf[p]]
    /\ Return(p)
    /\ UNCHANGED <<disk, backup, origin, mishaps>>

\* The manifest read before the lock is written back, marked rolled_back.
MarkRolledBack(p) ==
    /\ pc[p] = "rb_restore"
    /\ todo[p] = {}
    /\ mstate' = [mstate EXCEPT ![bun[p]] = "rolled_back"]
    /\ mcreated' = [mcreated EXCEPT ![bun[p]] = mf[p]]
    /\ Return(p)
    /\ UNCHANGED <<disk, backup, origin, mishaps>>

\* Any error marks the manifest rollback_failed, if even that can be written.
RollbackFails(p) ==
    /\ pc[p] \in RollbackPcs
    /\ Mishap
    /\ \/ /\ mstate' = [mstate EXCEPT ![bun[p]] = "rollback_failed"]
          /\ mcreated' = [mcreated EXCEPT ![bun[p]] = mf[p]]
       \/ UNCHANGED <<mstate, mcreated>>
    /\ Return(p)
    /\ UNCHANGED <<disk, backup, origin>>

-----------------------------------------------------------------------------
(* Crashes, users and clients *)

\* The kernel drops the dead process's flock; nothing else is undone.
Crash(p) ==
    /\ pc[p] \in LockedPcs
    /\ Mishap
    /\ Return(p)
    /\ UNCHANGED <<disk, bundleVars>>

UserWrite(x, c) ==
    /\ lock = NoProc
    /\ Mishap
    /\ fs[x] # c
    /\ Write(x, c)
    /\ UNCHANGED <<kept, lock, bundleVars, pc, local>>

\* A source is edited before, or a client file after, the migration.
EditSource == \E x \in {Config, Rules, Memory, Client} :
                fs[x] \in Managed /\ \E c \in {"v1_edited", "foreign"} : UserWrite(x, c)
\* v2 project notes and registrations; notes in a new memory directory.
WriteNote == \/ fs[V2Tree] = "v2" /\ UserWrite(V2Tree, "note")
             \/ fs[Config] = "v2" /\ UserWrite(Memory, "note")

-----------------------------------------------------------------------------
Apply(p) ==
    \/ TakeSnapshot(p) \/ Plan(p) \/ Lock(p) \/ Refuse(p)
    \/ \E b \in Bundles : Prepare(p, b)
    \/ \E x \in Sources : BackUp(p, x)
    \/ Arm(p) \/ BackupFails(p)
    \/ InitDirs(p) \/ UpdateConfig(p) \/ CopyRules(p) \/ StripRules(p)
    \/ InitSkillRoot(p)
    \/ \E s \in Skills : CopySkill(p, s) \/ DropLegacySkill(p, s)
    \/ ArchiveMemory(p) \/ DropMemory(p) \/ Complete(p)
    \/ MutationFails(p) \/ CopyFails(p) \/ Abort(p) \/ AbortFails(p)

Rollback(p) ==
    \/ \E b \in Bundles : ReadManifest(p, b)
    \/ LockForRollback(p)
    \/ \E x \in Destinations : CleanDestination(p, x)
    \/ \E x \in Sources : Restore(p, x)
    \/ CleanedAll(p) \/ MarkRolledBack(p) \/ RollbackFails(p)

Environment == (\E p \in Procs : Crash(p)) \/ EditSource \/ WriteNote

Next == (\E p \in Procs : Apply(p) \/ Rollback(p)) \/ Environment

Spec == Init /\ [][Next]_vars

\* A call that has started runs on: file operations end, and no call waits
\* for the lock.  Starting a call, crashes, faults and edits are never forced.
Fairness == \A p \in Procs : WF_vars(pc[p] # "idle" /\ (Apply(p) \/ Rollback(p)))

FairSpec == Spec /\ Fairness

-----------------------------------------------------------------------------
(* Safety *)

\* Two processes are never both inside the section that the migration lock
\* protects, whatever crashes and whichever of them rolls back.
OneMutator ==
    \A p, q \in Procs : pc[p] \in LockedPcs /\ pc[q] \in LockedPcs => p = q

\* From the moment a manifest offers itself for rollback, its payloads are
\* the bytes every source had when the bundle was created.
BackupsComplete ==
    \A b \in Bundles : mstate[b] \in Restorable =>
        \A x \in Sources : backup[b][x] = origin[b][x]

\* What is being migrated is what the snapshot before planning saw, however
\* long the process took between planning and locking.
DriftNeverApplied ==
    \A p \in Procs : pc[p] \in MutatingPcs =>
        \A x \in Sources : origin[bun[p]][x] = seen[p][x]

\* A source that the migration rewrote or moved can still be had back: some
\* bundle that rollback accepts holds it.
Reversible ==
    /\ fs[Config] = "v2" => \E b \in Bundles : mstate[b] \in Restorable /\ Config \in Saved(b)
    /\ fs[Rules] = "rest" => \E b \in Bundles : mstate[b] \in Restorable /\ Rules \in Saved(b)
    /\ fs[Archive] # "absent" /\ fs[Memory] = "absent" =>
          \E b \in Bundles : mstate[b] \in Restorable /\ Memory \in Saved(b)

-----------------------------------------------------------------------------
(* Action properties *)

Completes(b) == mstate[b] # "completed" /\ mstate'[b] = "completed"
RollsBack(b) == mstate[b] # "rolled_back" /\ mstate'[b] = "rolled_back"

\* A migration that reports completion has moved every managed artifact to
\* its new place with its content, and left the others where they were.
MovedFaithfully ==
    [][\A b \in Bundles : Completes(b) =>
         /\ fs[Config] = "v2" /\ fs[V2Tree] # "absent"
         /\ fs[Memory] = "absent"
         /\ origin[b][Memory] # "absent" => fs[Archive] = origin[b][Memory]
         /\ origin[b][Rules] \in Managed => fs[NewRules] = origin[b][Rules]
         /\ \A s \in Skills :
              IF origin[b][LegacySkill(s)] \in Managed
              THEN /\ fs[CurrentSkill(s)] = origin[b][LegacySkill(s)]
                   /\ fs[LegacySkill(s)] = "absent"
              ELSE fs[LegacySkill(s)] = origin[b][LegacySkill(s)]]_vars

\* A rollback that reports success has put back every source the bundle
\* saved and removed every destination its manifest lists.
RollbackRestores ==
    [][\A b \in Bundles : RollsBack(b) =>
         /\ \A x \in Saved(b) : fs[x] = origin[b][x]
         /\ \A x \in mcreated'[b] : fs[x] = "absent"]_vars

\* No step under the lock loses a memory note: it is archived, in a bundle, or
\* saved beside the restored file.
MemoryNeverLost ==
    [][\A c \in Content \ {"absent"} :
         lock # NoProc /\ fs[Memory] = c /\ fs'[Memory] # c =>
            \/ c \in kept'
            \/ fs'[Archive] = c
            \/ \E b \in Bundles : backup'[b][Memory] = c]_vars

-----------------------------------------------------------------------------
(* Liveness *)

\* Whoever takes the lock gives it back.
LockReleased == \A p \in Procs : lock = p ~> lock # p

=============================================================================
