--------------------------- MODULE MigrationProofs ---------------------------
(* Theorems about Migration, for any processes, bundles, skills and homes; the
   last one, which counts the steps of a call, for any number of skills. *)
EXTENDS Migration, FiniteSetTheorems, TLAPS

-----------------------------------------------------------------------------
(* Types *)

\* Every step from the creation of a bundle, or the reading of its manifest,
\* to the return of the call works on that bundle.
BundlePcs == {"backup", "rb_read"} \cup MutatingPcs \cup AbortPcs \cup RollbackPcs
BundleInv == \A p \in Procs : pc[p] \in BundlePcs => bun[p] \in Bundles

LEMMA SourcesAreFound ==
    /\ Sources \subseteq Path /\ Destinations \subseteq Path
    /\ Config \in Sources /\ Memory \in Sources /\ Rules \in Sources /\ Client \in Sources
    /\ \A s \in Skills : LegacySkill(s) \in Sources /\ CurrentSkill(s) \in Destinations
    /\ V2Tree \in Destinations /\ Archive \in Destinations
    /\ NewRules \in Destinations /\ SkillRoot \in Destinations
BY DEF Path, Sources, Destinations

LEMMA TypeOKInit == Init => TypeOK
BY SourcesAreFound, V1HomesAssumption, MaxMishapsAssumption
   DEF Init, TypeOK, V1Tree, Content, ManifestState, NoTree, Pcs

LEMMA NoTreeTyped == NoTree \in [Sources -> Content]
BY DEF NoTree, Content

\* What a call leaves in its own variables when it returns.
LEMMA ReturnTyped ==
    ASSUME TypeOK, NEW p \in Procs, Return(p)
    PROVE  /\ lock' \in Procs \cup {NoProc}
           /\ pc' \in [Procs -> Pcs]
           /\ bun' \in [Procs -> Bundles \cup {NoBundle}]
           /\ seen' \in [Procs -> [Sources -> Content]]
           /\ made' \in [Procs -> SUBSET Destinations]
           /\ todo' \in [Procs -> SUBSET Path]
           /\ mf' \in [Procs -> SUBSET Destinations]
BY NoTreeTyped DEF TypeOK, Return, ResetLocals, Pcs

LEMMA WriteTyped ==
    ASSUME TypeOK, NEW x \in Path, NEW c \in Content, Write(x, c)
    PROVE  fs' \in [Path -> Content]
BY DEF TypeOK, Write

LEMMA RecordTyped ==
    ASSUME TypeOK, NEW p \in Procs, NEW x \in Destinations,
           Record(p, x) \/ RecordIfNew(p, x)
    PROVE  made' \in [Procs -> SUBSET Destinations]
<1>1. Record(p, x) \/ made' = made
  BY DEF RecordIfNew
<1>2. CASE Record(p, x)
  BY <1>2 DEF TypeOK, Record
<1> QED
  BY <1>1, <1>2 DEF TypeOK

LEMMA TypeOKStep == TypeOK /\ BundleInv /\ [Next]_vars => TypeOK'
<1> SUFFICES ASSUME TypeOK, BundleInv, [Next]_vars PROVE TypeOK'
  OBVIOUS
<1> USE SourcesAreFound, MaxMishapsAssumption
<1> USE DEF TypeOK, disk, bundleVars, local, vars, Goto, Pcs, LockedPcs,
        BackupPcs, MutatingPcs, AbortPcs, RollbackPcs, ManifestState
<1>1. CASE UNCHANGED vars
  BY <1>1
<1>2. ASSUME NEW p \in Procs, Apply(p) PROVE TypeOK'
  <2>1. CASE TakeSnapshot(p)
    BY <2>1 DEF TakeSnapshot, Snapshot
  <2>2. CASE Plan(p)
    BY <2>2, ReturnTyped DEF Plan
  <2>3. CASE Lock(p)
    BY <2>3, ReturnTyped DEF Lock
  <2>4. CASE Refuse(p)
    BY <2>4, ReturnTyped DEF Refuse
  <2>5. ASSUME NEW b \in Bundles, Prepare(p, b) PROVE TypeOK'
    BY <2>5 DEF Prepare
  <2>6. ASSUME NEW x \in Sources, BackUp(p, x) PROVE TypeOK'
    BY <2>6 DEF BackUp
  <2>7. CASE Arm(p)
    BY <2>7 DEF Arm
  <2>8. CASE BackupFails(p)
    <3>1. /\ mstate' \in [Bundles -> ManifestState]
          /\ backup' \in [Bundles -> [Sources -> Content]]
      BY <2>8, NoTreeTyped DEF BackupFails
    <3>2. /\ fs' \in [Path -> Content] /\ kept' \in SUBSET Content
          /\ mcreated' \in [Bundles -> SUBSET Destinations]
          /\ origin' \in [Bundles -> [Path -> Content]]
          /\ mishaps' \in 0 .. MaxMishaps
      BY <2>8 DEF BackupFails, Mishap
    <3> QED
      BY <2>8, <3>1, <3>2, ReturnTyped DEF BackupFails
  <2>9. CASE InitDirs(p)
    <3>1. fs' \in [Path -> Content]
      BY <2>9, WriteTyped DEF InitDirs, Content
    <3>2. made' \in [Procs -> SUBSET Destinations]
      BY <2>9, RecordTyped DEF InitDirs
    <3> QED
      BY <2>9, <3>1, <3>2 DEF InitDirs, MutationFrame
  <2>10. CASE UpdateConfig(p)
    BY <2>10 DEF UpdateConfig, MutationFrame, Write, ManagedSkills, Content
  <2>11. CASE CopyRules(p)
    BY <2>11 DEF CopyRules, MutationFrame, Write, Record, RecordIfNew, Content
  <2>12. CASE StripRules(p)
    BY <2>12 DEF StripRules, MutationFrame, Write, Content
  <2>13. CASE InitSkillRoot(p)
    BY <2>13 DEF InitSkillRoot, MutationFrame, Write, Record, Content
  <2>14. ASSUME NEW s \in Skills, CopySkill(p, s) PROVE TypeOK'
    BY <2>14 DEF CopySkill, MutationFrame, Write
  <2>15. ASSUME NEW s \in Skills, DropLegacySkill(p, s) PROVE TypeOK'
    BY <2>15 DEF DropLegacySkill, MutationFrame, Write, Record, Content
  <2>16. CASE ArchiveMemory(p)
    <3>1. fs' \in [Path -> Content] /\ made' \in [Procs -> SUBSET Destinations]
      BY <2>16, WriteTyped, RecordTyped DEF ArchiveMemory
    <3> QED
      BY <2>16, <3>1 DEF ArchiveMemory, MutationFrame
  <2>17. CASE DropMemory(p)
    BY <2>17 DEF DropMemory, MutationFrame, Write, Content
  <2>18. CASE Complete(p)
    BY <2>18, ReturnTyped DEF Complete
  <2>19. CASE MutationFails(p)
    BY <2>19 DEF MutationFails, Mishap
  <2>20. CASE CopyFails(p)
    <3>1. fs' \in [Path -> Content]
      BY <2>20, WriteTyped DEF CopyFails, Content
    <3>2. made' \in [Procs -> SUBSET Destinations]
      BY <2>20, RecordTyped DEF CopyFails
    <3>3. pc' \in [Procs -> Pcs] /\ mishaps' \in 0 .. MaxMishaps
      BY <2>20 DEF CopyFails, Mishap
    <3> QED
      BY <2>20, <3>1, <3>2, <3>3 DEF CopyFails
  <2>21. CASE Abort(p)
    BY <2>21 DEF Abort
  <2>22. CASE AbortFails(p)
    BY <2>22, ReturnTyped DEF AbortFails, Mishap
  <2> QED
    BY <1>2, <2>1, <2>2, <2>3, <2>4, <2>5, <2>6, <2>7, <2>8, <2>9, <2>10, <2>11, <2>12,
       <2>13, <2>14, <2>15, <2>16, <2>17, <2>18, <2>19, <2>20, <2>21, <2>22 DEF Apply
<1>3. ASSUME NEW p \in Procs, Rollback(p) PROVE TypeOK'
  <2>1. ASSUME NEW b \in Bundles, ReadManifest(p, b) PROVE TypeOK'
    BY <2>1 DEF ReadManifest
  <2>2. CASE LockForRollback(p)
    BY <2>2, ReturnTyped DEF LockForRollback
  <2>3. ASSUME NEW x \in Destinations, CleanDestination(p, x) PROVE TypeOK'
    BY <2>3 DEF CleanDestination, Content
  <2>4. ASSUME NEW x \in Sources, Restore(p, x) PROVE TypeOK'
    <3>1. fs' \in [Path -> Content]
      BY <2>4, WriteTyped DEF Restore, BundleInv, BundlePcs
    <3>2. kept' \in SUBSET Content
      BY <2>4 DEF Restore
    <3> QED
      BY <2>4, <3>1, <3>2 DEF Restore
  <2>5. CASE CleanedAll(p)
    BY <2>5 DEF CleanedAll, Saved
  <2>6. CASE MarkRolledBack(p)
    BY <2>6, ReturnTyped DEF MarkRolledBack
  <2>7. CASE RollbackFails(p)
    <3>1. /\ mstate' \in [Bundles -> ManifestState]
          /\ mcreated' \in [Bundles -> SUBSET Destinations]
      BY <2>7 DEF RollbackFails
    <3> QED
      BY <2>7, <3>1, ReturnTyped DEF RollbackFails, Mishap
  <2> QED
    BY <1>3, <2>1, <2>2, <2>3, <2>4, <2>5, <2>6, <2>7 DEF Rollback
<1>4. ASSUME NEW p \in Procs, Crash(p) PROVE TypeOK'
  BY <1>4, ReturnTyped DEF Crash, Mishap
<1>5. CASE EditSource \/ WriteNote
  <2>1. PICK x \in Path, c \in Content : UserWrite(x, c)
    BY <1>5 DEF EditSource, WriteNote, Content
  <2>2. fs' \in [Path -> Content]
    BY <2>1, WriteTyped DEF UserWrite
  <2> QED
    BY <2>1, <2>2 DEF UserWrite, Mishap
<1> QED
  BY <1>1, <1>2, <1>3, <1>4, <1>5 DEF Next, Environment

-----------------------------------------------------------------------------
(* What a step of one process leaves alone *)

StepOf(p) == Apply(p) \/ Rollback(p) \/ Crash(p)

\* A step of p changes no variable of another process and does not take the
\* lock from it, is in the locked section only with the lock, and outside of
\* it touches neither the tree nor a bundle.
LEMMA StepFrame ==
    ASSUME TypeOK, BundleInv, NEW p \in Procs,
           StepOf(p)
    PROVE  /\ \A q \in Procs \ {p} : /\ pc'[q] = pc[q] /\ bun'[q] = bun[q]
                                     /\ seen'[q] = seen[q] /\ todo'[q] = todo[q]
                                     /\ lock = q => lock' = q
           /\ pc'[p] \in LockedPcs => lock' = p \/ (pc[p] \in LockedPcs /\ lock' = lock)
           /\ pc'[p] \in BundlePcs => bun'[p] \in Bundles
           /\ pc[p] \notin LockedPcs => UNCHANGED <<disk, bundleVars>>
<1> DEFINE Goal == /\ \A q \in Procs \ {p} : /\ pc'[q] = pc[q] /\ bun'[q] = bun[q]
                                             /\ seen'[q] = seen[q] /\ todo'[q] = todo[q]
                                             /\ lock = q => lock' = q
                   /\ pc'[p] \in LockedPcs => lock' = p \/ (pc[p] \in LockedPcs /\ lock' = lock)
                   /\ pc'[p] \in BundlePcs => bun'[p] \in Bundles
                   /\ pc[p] \notin LockedPcs => UNCHANGED <<disk, bundleVars>>
<1> USE NoProcAssumption DEF TypeOK, BundleInv, BundlePcs, Goto, Return, ResetLocals,
        MutationFrame, local, LockedPcs, BackupPcs, MutatingPcs, AbortPcs, RollbackPcs
<1>1. CASE TakeSnapshot(p)
  BY <1>1 DEF TakeSnapshot
<1>2. CASE Plan(p)
  BY <1>2 DEF Plan
<1>3. CASE Lock(p)
  BY <1>3 DEF Lock
<1>4. CASE Refuse(p)
  BY <1>4 DEF Refuse
<1>5. ASSUME NEW b \in Bundles, Prepare(p, b) PROVE Goal
  BY <1>5 DEF Prepare
<1>6. ASSUME NEW x \in Sources, BackUp(p, x) PROVE Goal
  BY <1>6 DEF BackUp
<1>7. CASE Arm(p)
  BY <1>7 DEF Arm
<1>8. CASE BackupFails(p)
  BY <1>8 DEF BackupFails
<1>9. CASE InitDirs(p)
  BY <1>9 DEF InitDirs
<1>10. CASE UpdateConfig(p)
  BY <1>10 DEF UpdateConfig
<1>11. CASE CopyRules(p)
  BY <1>11 DEF CopyRules
<1>12. CASE StripRules(p)
  BY <1>12 DEF StripRules
<1>13. CASE InitSkillRoot(p)
  BY <1>13 DEF InitSkillRoot
<1>14. ASSUME NEW s \in Skills, CopySkill(p, s) PROVE Goal
  BY <1>14 DEF CopySkill
<1>15. ASSUME NEW s \in Skills, DropLegacySkill(p, s) PROVE Goal
  BY <1>15 DEF DropLegacySkill
<1>16. CASE ArchiveMemory(p)
  BY <1>16 DEF ArchiveMemory
<1>17. CASE DropMemory(p)
  BY <1>17 DEF DropMemory
<1>18. CASE Complete(p)
  BY <1>18 DEF Complete
<1>19. CASE MutationFails(p)
  BY <1>19 DEF MutationFails
<1>20. CASE CopyFails(p)
  BY <1>20 DEF CopyFails
<1>21. CASE Abort(p)
  BY <1>21 DEF Abort
<1>22. CASE AbortFails(p)
  BY <1>22 DEF AbortFails
<1>23. ASSUME NEW b \in Bundles, ReadManifest(p, b) PROVE Goal
  BY <1>23 DEF ReadManifest
<1>24. CASE LockForRollback(p)
  BY <1>24 DEF LockForRollback
<1>25. ASSUME NEW x \in Destinations, CleanDestination(p, x) PROVE Goal
  BY <1>25 DEF CleanDestination
<1>26. ASSUME NEW x \in Sources, Restore(p, x) PROVE Goal
  BY <1>26 DEF Restore
<1>27. CASE CleanedAll(p)
  BY <1>27 DEF CleanedAll
<1>28. CASE MarkRolledBack(p)
  BY <1>28 DEF MarkRolledBack
<1>29. CASE RollbackFails(p)
  BY <1>29 DEF RollbackFails
<1>30. CASE Crash(p)
  BY <1>30 DEF Crash
<1> QED
  BY <1>1, <1>2, <1>3, <1>4, <1>5, <1>6, <1>7, <1>8, <1>9, <1>10, <1>11, <1>12, <1>13,
     <1>14, <1>15, <1>16, <1>17, <1>18, <1>19, <1>20, <1>21, <1>22, <1>23, <1>24, <1>25,
     <1>26, <1>27, <1>28, <1>29, <1>30 DEF StepOf, Apply, Rollback

\* Only the user and the clients write while nobody holds the lock.
LEMMA EditFrame ==
    ASSUME EditSource \/ WriteNote
    PROVE  /\ lock = NoProc
           /\ UNCHANGED <<kept, lock, bundleVars, pc, local>>
BY DEF EditSource, WriteNote, UserWrite

-----------------------------------------------------------------------------
(* Mutual exclusion, and what a bundle holds *)

LockInv == \A p \in Procs : pc[p] \in LockedPcs => lock = p

\* The backups of bundle b are complete: it was armed, whatever came after.
Armed(b) == mstate[b] \notin {"none", "preparing"}

BundleHolds(b) ==
    /\ Armed(b) => \A x \in Sources : backup[b][x] = origin[b][x]
    /\ mstate[b] = "none" => backup[b] = NoTree

\* While it is being filled, nobody else writes to the sources.
FillingHolds(p) ==
    pc[p] = "backup" =>
        /\ mstate[bun[p]] = "preparing"
        /\ \A x \in Sources :
              /\ fs[x] = origin[bun[p]][x]
              /\ x \notin todo[p] => backup[bun[p]][x] = fs[x]

StateHolds(p) ==
    /\ pc[p] \in MutatingPcs \cup AbortPcs => mstate[bun[p]] = "applying"
    /\ pc[p] \in RollbackPcs \cup {"rb_read"} => Armed(bun[p])

PlannedHolds(p) ==
    pc[p] \in {"backup"} \cup MutatingPcs =>
        \A x \in Sources : origin[bun[p]][x] = seen[p][x]

ProcHolds(p) == FillingHolds(p) /\ StateHolds(p) /\ PlannedHolds(p)

IInv ==
    /\ TypeOK /\ BundleInv /\ LockInv
    /\ \A b \in Bundles : BundleHolds(b)
    /\ \A p \in Procs : ProcHolds(p)

LEMMA IInvInit == Init => IInv
<1> SUFFICES ASSUME Init PROVE IInv
  OBVIOUS
<1> QED
  BY TypeOKInit DEF Init, IInv, BundleInv, BundlePcs, LockInv, LockedPcs, BackupPcs, MutatingPcs,
     AbortPcs, RollbackPcs, BundleHolds, Armed, ProcHolds, FillingHolds, StateHolds, PlannedHolds

LEMMA LockInvStep ==
    ASSUME TypeOK, BundleInv, LockInv, [Next]_vars
    PROVE  LockInv' /\ BundleInv'
<1>1. CASE UNCHANGED vars
  BY <1>1 DEF vars, local, LockInv, BundleInv
<1>2. ASSUME NEW p \in Procs, StepOf(p) PROVE LockInv' /\ BundleInv'
  <2>1. \A q \in Procs \ {p} : /\ pc'[q] = pc[q] /\ bun'[q] = bun[q]
                               /\ seen'[q] = seen[q] /\ todo'[q] = todo[q]
                               /\ lock = q => lock' = q
    BY <1>2, StepFrame
  <2>2. /\ pc'[p] \in LockedPcs => lock' = p \/ (pc[p] \in LockedPcs /\ lock' = lock)
        /\ pc'[p] \in BundlePcs => bun'[p] \in Bundles
    BY <1>2, StepFrame
  <2>3. LockInv'
    BY <2>1, <2>2 DEF LockInv
  <2>4. BundleInv'
    BY <2>1, <2>2 DEF BundleInv
  <2> QED
    BY <2>3, <2>4
<1>3. CASE EditSource \/ WriteNote
  BY <1>3, EditFrame DEF LockInv, BundleInv, local
<1> QED
  BY <1>1, <1>2, <1>3 DEF Next, Environment, StepOf

\* An armed bundle stays armed, and every bundle keeps what it holds.
LEMMA BundleStep ==
    ASSUME IInv, NEW p \in Procs, NEW b \in Bundles,
           StepOf(p)
    PROVE  BundleHolds(b)' /\ (Armed(b) => Armed(b)')
<1> DEFINE Goal == BundleHolds(b)' /\ (Armed(b) => Armed(b)')
<1> USE NoTreeTyped DEF IInv, TypeOK, BundleInv, BundlePcs, BundleHolds, Armed, ProcHolds,
        FillingHolds, StateHolds, Goto, MutationFrame, bundleVars, MutatingPcs, AbortPcs,
        RollbackPcs
<1>1. CASE TakeSnapshot(p)
  BY <1>1 DEF TakeSnapshot
<1>2. CASE Plan(p)
  BY <1>2 DEF Plan
<1>3. CASE Lock(p)
  BY <1>3 DEF Lock
<1>4. CASE Refuse(p)
  BY <1>4 DEF Refuse
<1>5. ASSUME NEW c \in Bundles, Prepare(p, c) PROVE Goal
  BY <1>5 DEF Prepare
<1>6. ASSUME NEW x \in Sources, BackUp(p, x) PROVE Goal
  BY <1>6 DEF BackUp
<1>7. CASE Arm(p)
  BY <1>7 DEF Arm
<1>8. CASE BackupFails(p)
  BY <1>8 DEF BackupFails
<1>9. CASE InitDirs(p)
  BY <1>9 DEF InitDirs
<1>10. CASE UpdateConfig(p)
  BY <1>10 DEF UpdateConfig
<1>11. CASE CopyRules(p)
  BY <1>11 DEF CopyRules
<1>12. CASE StripRules(p)
  BY <1>12 DEF StripRules
<1>13. CASE InitSkillRoot(p)
  BY <1>13 DEF InitSkillRoot
<1>14. ASSUME NEW s \in Skills, CopySkill(p, s) PROVE Goal
  BY <1>14 DEF CopySkill
<1>15. ASSUME NEW s \in Skills, DropLegacySkill(p, s) PROVE Goal
  BY <1>15 DEF DropLegacySkill
<1>16. CASE ArchiveMemory(p)
  BY <1>16 DEF ArchiveMemory
<1>17. CASE DropMemory(p)
  BY <1>17 DEF DropMemory
<1>18. CASE Complete(p)
  BY <1>18 DEF Complete
<1>19. CASE MutationFails(p)
  BY <1>19 DEF MutationFails
<1>20. CASE CopyFails(p)
  BY <1>20 DEF CopyFails
<1>21. CASE Abort(p)
  BY <1>21 DEF Abort
<1>22. CASE AbortFails(p)
  BY <1>22 DEF AbortFails
<1>23. ASSUME NEW c \in Bundles, ReadManifest(p, c) PROVE Goal
  BY <1>23 DEF ReadManifest
<1>24. CASE LockForRollback(p)
  BY <1>24 DEF LockForRollback
<1>25. ASSUME NEW x \in Destinations, CleanDestination(p, x) PROVE Goal
  BY <1>25 DEF CleanDestination
<1>26. ASSUME NEW x \in Sources, Restore(p, x) PROVE Goal
  BY <1>26 DEF Restore
<1>27. CASE CleanedAll(p)
  BY <1>27 DEF CleanedAll
<1>28. CASE MarkRolledBack(p)
  BY <1>28 DEF MarkRolledBack
<1>29. CASE RollbackFails(p)
  BY <1>29 DEF RollbackFails
<1>30. CASE Crash(p)
  BY <1>30 DEF Crash
<1> QED
  BY <1>1, <1>2, <1>3, <1>4, <1>5, <1>6, <1>7, <1>8, <1>9, <1>10, <1>11, <1>12, <1>13,
     <1>14, <1>15, <1>16, <1>17, <1>18, <1>19, <1>20, <1>21, <1>22, <1>23, <1>24, <1>25,
     <1>26, <1>27, <1>28, <1>29, <1>30 DEF StepOf, Apply, Rollback

\* A step of p keeps what holds of p.
LEMMA OwnStep ==
    ASSUME IInv, NEW p \in Procs,
           StepOf(p)
    PROVE  ProcHolds(p)'
<1> DEFINE Goal == ProcHolds(p)'
<1> USE DEF IInv, TypeOK, BundleInv, BundlePcs, BundleHolds, Armed, ProcHolds,
        FillingHolds, StateHolds, PlannedHolds, Goto, Return, ResetLocals, MutationFrame,
        disk, bundleVars, local, MutatingPcs, AbortPcs, RollbackPcs
<1>1. CASE TakeSnapshot(p)
  BY <1>1 DEF TakeSnapshot
<1>2. CASE Plan(p)
  BY <1>2 DEF Plan
<1>3. CASE Lock(p)
  BY <1>3 DEF Lock
<1>4. CASE Refuse(p)
  BY <1>4 DEF Refuse
<1>5. ASSUME NEW b \in Bundles, Prepare(p, b) PROVE Goal
  BY <1>5 DEF Prepare, Revalidated, Snapshot, NoTree
<1>6. ASSUME NEW x \in Sources, BackUp(p, x) PROVE Goal
  BY <1>6 DEF BackUp
<1>7. CASE Arm(p)
  BY <1>7 DEF Arm
<1>8. CASE BackupFails(p)
  BY <1>8 DEF BackupFails
<1>9. CASE InitDirs(p)
  BY <1>9 DEF InitDirs
<1>10. CASE UpdateConfig(p)
  BY <1>10 DEF UpdateConfig
<1>11. CASE CopyRules(p)
  BY <1>11 DEF CopyRules
<1>12. CASE StripRules(p)
  BY <1>12 DEF StripRules
<1>13. CASE InitSkillRoot(p)
  BY <1>13 DEF InitSkillRoot
<1>14. ASSUME NEW s \in Skills, CopySkill(p, s) PROVE Goal
  BY <1>14 DEF CopySkill
<1>15. ASSUME NEW s \in Skills, DropLegacySkill(p, s) PROVE Goal
  BY <1>15 DEF DropLegacySkill
<1>16. CASE ArchiveMemory(p)
  BY <1>16 DEF ArchiveMemory
<1>17. CASE DropMemory(p)
  BY <1>17 DEF DropMemory
<1>18. CASE Complete(p)
  BY <1>18 DEF Complete
<1>19. CASE MutationFails(p)
  BY <1>19 DEF MutationFails
<1>20. CASE CopyFails(p)
  BY <1>20 DEF CopyFails
<1>21. CASE Abort(p)
  BY <1>21 DEF Abort
<1>22. CASE AbortFails(p)
  BY <1>22 DEF AbortFails
<1>23. ASSUME NEW b \in Bundles, ReadManifest(p, b) PROVE Goal
  BY <1>23 DEF ReadManifest, Restorable
<1>24. CASE LockForRollback(p)
  BY <1>24 DEF LockForRollback
<1>25. ASSUME NEW x \in Destinations, CleanDestination(p, x) PROVE Goal
  BY <1>25 DEF CleanDestination
<1>26. ASSUME NEW x \in Sources, Restore(p, x) PROVE Goal
  BY <1>26 DEF Restore
<1>27. CASE CleanedAll(p)
  BY <1>27 DEF CleanedAll
<1>28. CASE MarkRolledBack(p)
  BY <1>28 DEF MarkRolledBack
<1>29. CASE RollbackFails(p)
  BY <1>29 DEF RollbackFails
<1>30. CASE Crash(p)
  BY <1>30 DEF Crash
<1> QED
  BY <1>1, <1>2, <1>3, <1>4, <1>5, <1>6, <1>7, <1>8, <1>9, <1>10, <1>11, <1>12, <1>13,
     <1>14, <1>15, <1>16, <1>17, <1>18, <1>19, <1>20, <1>21, <1>22, <1>23, <1>24, <1>25,
     <1>26, <1>27, <1>28, <1>29, <1>30 DEF StepOf, Apply, Rollback

LEMMA IInvStep == IInv /\ [Next]_vars => IInv'
<1> SUFFICES ASSUME IInv, [Next]_vars PROVE IInv'
  OBVIOUS
<1>1. TypeOK' /\ LockInv' /\ BundleInv'
  BY TypeOKStep, LockInvStep DEF IInv
<1>2. CASE UNCHANGED vars
  BY <1>1, <1>2 DEF IInv, vars, disk, bundleVars, local, BundleHolds, Armed, ProcHolds,
     FillingHolds, StateHolds, PlannedHolds
<1>3. ASSUME NEW p \in Procs, StepOf(p) PROVE IInv'
  <2>1. \A b \in Bundles : BundleHolds(b)' /\ (Armed(b) => Armed(b)')
    BY <1>3, BundleStep
  <2>2. ProcHolds(p)'
    BY <1>3, OwnStep
  <2>3. ASSUME NEW q \in Procs \ {p} PROVE ProcHolds(q)'
    <3>1. /\ pc'[q] = pc[q] /\ bun'[q] = bun[q]
          /\ seen'[q] = seen[q] /\ todo'[q] = todo[q]
          /\ pc[p] \notin LockedPcs => UNCHANGED <<disk, bundleVars>>
      BY <1>3, StepFrame DEF IInv
    <3>2. CASE pc[q] \in LockedPcs
      <4>1. pc[p] \notin LockedPcs
        BY <3>2 DEF IInv, LockInv
      <4> QED
        BY <3>1, <4>1 DEF IInv, ProcHolds, FillingHolds, StateHolds, PlannedHolds, Armed,
           disk, bundleVars
    <3>3. CASE pc[q] \notin LockedPcs
      <4>1. pc[q] = "rb_read" => Armed(bun[q]) /\ bun[q] \in Bundles
        BY DEF IInv, ProcHolds, StateHolds, BundleInv, BundlePcs
      <4> QED
        BY <2>1, <3>1, <3>3, <4>1 DEF ProcHolds, FillingHolds, StateHolds, PlannedHolds,
           Armed, LockedPcs, BackupPcs
    <3> QED
      BY <3>2, <3>3
  <2> QED
    BY <1>1, <2>1, <2>2, <2>3 DEF IInv
<1>4. CASE EditSource \/ WriteNote
  <2>1. lock = NoProc /\ UNCHANGED <<kept, lock, bundleVars, pc, local>>
    BY <1>4, EditFrame
  <2>2. \A q \in Procs : pc[q] \notin LockedPcs
    BY <2>1, NoProcAssumption DEF IInv, LockInv
  <2>3. \A b \in Bundles : BundleHolds(b)'
    BY <2>1 DEF IInv, BundleHolds, Armed, bundleVars
  <2>4. \A q \in Procs : ProcHolds(q)'
    BY <2>1, <2>2 DEF IInv, ProcHolds, FillingHolds, StateHolds, PlannedHolds, Armed,
       LockedPcs, BackupPcs, bundleVars, local
  <2> QED
    BY <1>1, <2>3, <2>4 DEF IInv
<1> QED
  BY <1>2, <1>3, <1>4 DEF Next, Environment, StepOf

THEOREM Invariance == Spec => []IInv
BY IInvInit, IInvStep, PTL DEF Spec

\* Every variable of the model keeps its type.
THEOREM TypeCorrect == Spec => []TypeOK
<1>1. IInv => TypeOK
  BY DEF IInv
<1> QED
  BY <1>1, Invariance, PTL

\* However many processes migrate and roll back, and wherever they die, no two
\* of them are in the section of the migration lock.
THEOREM MutualExclusion == Spec => []OneMutator
<1>1. IInv => OneMutator
  BY DEF IInv, LockInv, OneMutator
<1> QED
  BY <1>1, Invariance, PTL

\* A manifest that rollback accepts names backups of exactly what every source
\* held when the bundle was made.
THEOREM BackupsAreComplete == Spec => []BackupsComplete
<1>1. IInv => BackupsComplete
  BY DEF IInv, BundleHolds, Armed, BackupsComplete, Restorable
<1> QED
  BY <1>1, Invariance, PTL

\* A source that changed between planning and locking is never migrated.
THEOREM DriftIsRefused == Spec => []DriftNeverApplied
<1>1. IInv => DriftNeverApplied
  BY DEF IInv, ProcHolds, PlannedHolds, DriftNeverApplied
<1> QED
  BY <1>1, Invariance, PTL

-----------------------------------------------------------------------------
(* Whatever the migration rewrote or moved can be had back *)

LEMMA PathsDiffer ==
    /\ Config # Memory /\ Config # Rules /\ Memory # Rules
    /\ \A s \in Skills : LegacySkill(s) \notin {Config, Memory, Rules}
    /\ {Config, Memory, Rules} \cap Destinations = {}
    /\ Archive \notin Sources /\ Archive # SkillRoot
    /\ Archive # V2Tree /\ Archive # NewRules
    /\ \A s \in Skills : CurrentSkill(s) # Archive
<1>1. Config # Memory /\ Config # Rules /\ Memory # Rules
  BY DEF Config, Memory, Rules
<1>2. ASSUME NEW s \in Skills PROVE LegacySkill(s) \notin {Config, Memory, Rules}
  BY DEF LegacySkill, Config, Memory, Rules
<1>3. ASSUME NEW s \in Skills PROVE CurrentSkill(s) \notin {Config, Memory, Rules, Archive}
  BY DEF CurrentSkill, Config, Memory, Rules, Archive
<1>4. {V2Tree, Archive, NewRules, SkillRoot} \cap {Config, Memory, Rules} = {}
  <2>1. V2Tree \notin {Config, Memory, Rules}
    BY DEF V2Tree, Config, Memory, Rules
  <2>2. Archive \notin {Config, Memory, Rules}
    BY DEF Archive, Config, Memory, Rules
  <2>3. NewRules \notin {Config, Memory, Rules}
    BY DEF NewRules, Config, Memory, Rules
  <2>4. SkillRoot \notin {Config, Memory, Rules}
    BY DEF SkillRoot, Config, Memory, Rules
  <2> QED
    BY <2>1, <2>2, <2>3, <2>4
<1>5. Archive # SkillRoot /\ Archive # V2Tree /\ Archive # NewRules /\ Archive # Client
  BY DEF Archive, SkillRoot, V2Tree, NewRules, Client
<1>6. ASSUME NEW s \in Skills PROVE LegacySkill(s) # Archive
  BY DEF LegacySkill, Archive
<1> QED
  BY <1>1, <1>2, <1>3, <1>4, <1>5, <1>6 DEF Sources, Destinations

\* Only a v1 home whose rules have a provable owner gets a bundle.
OriginHolds(b) ==
    mstate[b] # "none" => origin[b][Config] \in Managed /\ origin[b][Rules] \notin {"foreign", "rest"}

\* Until their turn comes, the rules and the memory are as they were; what a
\* rollback has restored stays restored.
ProgressHolds(p) ==
    /\ pc[p] \in {"m_dirs", "m_config", "m_rules", "m_rules_old"} =>
          fs[Rules] = origin[bun[p]][Rules]
    /\ pc[p] \in {"m_rules", "m_rules_old"} => fs[Rules] # "absent"
    /\ pc[p] \in MutatingPcs \ {"m_done"} => fs[Memory] = origin[bun[p]][Memory]
    /\ pc[p] = "m_memory_src" => fs[Memory] # "absent"
    /\ pc[p] = "rb_restore" =>
          /\ todo[p] \subseteq Saved(bun[p])
          /\ \A x \in Saved(bun[p]) \ todo[p] : fs[x] = backup[bun[p]][x]

RInv ==
    /\ IInv /\ Reversible
    /\ \A b \in Bundles : OriginHolds(b)
    /\ \A p \in Procs : ProgressHolds(p)

LEMMA RInvInit == Init => RInv
<1> SUFFICES ASSUME Init PROVE RInv
  OBVIOUS
<1>1. fs[Config] # "v2" /\ fs[Rules] # "rest" /\ fs[Archive] = "absent"
  BY SourcesAreFound, PathsDiffer, V1HomesAssumption DEF Init, V1Tree
<1> QED
  BY <1>1, IInvInit DEF Init, RInv, Reversible, OriginHolds, ProgressHolds, MutatingPcs

\* A step of p keeps where the migration of p stands, and the origin of
\* every bundle.
LEMMA ProgressStep ==
    ASSUME RInv, NEW p \in Procs,
           StepOf(p)
    PROVE  ProgressHolds(p)' /\ \A c \in Bundles : OriginHolds(c)'
<1> DEFINE Goal == ProgressHolds(p)' /\ \A c \in Bundles : OriginHolds(c)'
<1> USE SourcesAreFound, PathsDiffer DEF RInv, IInv, TypeOK, BundleInv, BundlePcs,
        ProcHolds, FillingHolds, StateHolds, ProgressHolds, OriginHolds, Armed, Saved,
        Goto, Return, ResetLocals, MutationFrame, Write, disk, bundleVars, local,
        MutatingPcs, AbortPcs, RollbackPcs
<1>1. CASE TakeSnapshot(p)
  BY <1>1 DEF TakeSnapshot
<1>2. CASE Plan(p)
  BY <1>2 DEF Plan
<1>3. CASE Lock(p)
  BY <1>3 DEF Lock
<1>4. CASE Refuse(p)
  BY <1>4 DEF Refuse
<1>5. ASSUME NEW b \in Bundles, Prepare(p, b) PROVE Goal
  BY <1>5 DEF Prepare, Revalidated, PlanStatus, OwnershipError
<1>6. ASSUME NEW x \in Sources, BackUp(p, x) PROVE Goal
  BY <1>6 DEF BackUp
<1>7. CASE Arm(p)
  BY <1>7 DEF Arm
<1>8. CASE BackupFails(p)
  BY <1>8 DEF BackupFails
<1>9. CASE InitDirs(p)
  BY <1>9 DEF InitDirs
<1>10. CASE UpdateConfig(p)
  BY <1>10 DEF UpdateConfig
<1>11. CASE CopyRules(p)
  BY <1>11 DEF CopyRules
<1>12. CASE StripRules(p)
  BY <1>12 DEF StripRules
<1>13. CASE InitSkillRoot(p)
  BY <1>13 DEF InitSkillRoot
<1>14. ASSUME NEW s \in Skills, CopySkill(p, s) PROVE Goal
  BY <1>14 DEF CopySkill
<1>15. ASSUME NEW s \in Skills, DropLegacySkill(p, s) PROVE Goal
  BY <1>15 DEF DropLegacySkill
<1>16. CASE ArchiveMemory(p)
  BY <1>16 DEF ArchiveMemory
<1>17. CASE DropMemory(p)
  BY <1>17 DEF DropMemory
<1>18. CASE Complete(p)
  BY <1>18 DEF Complete
<1>19. CASE MutationFails(p)
  BY <1>19 DEF MutationFails
<1>20. CASE CopyFails(p)
  BY <1>20 DEF CopyFails
<1>21. CASE Abort(p)
  BY <1>21 DEF Abort
<1>22. CASE AbortFails(p)
  BY <1>22 DEF AbortFails
<1>23. ASSUME NEW b \in Bundles, ReadManifest(p, b) PROVE Goal
  BY <1>23 DEF ReadManifest
<1>24. CASE LockForRollback(p)
  BY <1>24 DEF LockForRollback
<1>25. ASSUME NEW x \in Destinations, CleanDestination(p, x) PROVE Goal
  BY <1>25 DEF CleanDestination, Subtree
<1>26. ASSUME NEW x \in Sources, Restore(p, x) PROVE Goal
  BY <1>26 DEF Restore
<1>27. CASE CleanedAll(p)
  BY <1>27 DEF CleanedAll
<1>28. CASE MarkRolledBack(p)
  BY <1>28 DEF MarkRolledBack
<1>29. CASE RollbackFails(p)
  BY <1>29 DEF RollbackFails
<1>30. CASE Crash(p)
  BY <1>30 DEF Crash
<1> QED
  BY <1>1, <1>2, <1>3, <1>4, <1>5, <1>6, <1>7, <1>8, <1>9, <1>10, <1>11, <1>12, <1>13,
     <1>14, <1>15, <1>16, <1>17, <1>18, <1>19, <1>20, <1>21, <1>22, <1>23, <1>24, <1>25,
     <1>26, <1>27, <1>28, <1>29, <1>30 DEF StepOf, Apply, Rollback

\* A step of p leaves every source recoverable.
LEMMA ReversibleStep ==
    ASSUME RInv, NEW p \in Procs,
           StepOf(p)
    PROVE  Reversible'
<1> DEFINE Goal == Reversible'
<1> USE SourcesAreFound, PathsDiffer DEF RInv, IInv, TypeOK, BundleInv, BundlePcs,
        BundleHolds, ProcHolds, FillingHolds, StateHolds, ProgressHolds, OriginHolds,
        Reversible, Restorable, Managed, Armed, Saved, Goto, MutationFrame, Write, disk,
        bundleVars, local, MutatingPcs, AbortPcs, RollbackPcs
<1>1. CASE TakeSnapshot(p)
  BY <1>1 DEF TakeSnapshot
<1>2. CASE Plan(p)
  BY <1>2 DEF Plan
<1>3. CASE Lock(p)
  BY <1>3 DEF Lock
<1>4. CASE Refuse(p)
  BY <1>4 DEF Refuse
<1>5. ASSUME NEW b \in Bundles, Prepare(p, b) PROVE Goal
  BY <1>5 DEF Prepare
<1>6. ASSUME NEW x \in Sources, BackUp(p, x) PROVE Goal
  BY <1>6 DEF BackUp
<1>7. CASE Arm(p)
  BY <1>7 DEF Arm
<1>8. CASE BackupFails(p)
  BY <1>8 DEF BackupFails
<1>9. CASE InitDirs(p)
  BY <1>9 DEF InitDirs
<1>10. CASE UpdateConfig(p)
  <2>1. mstate[bun[p]] = "applying" /\ bun[p] \in Bundles
    BY <1>10 DEF UpdateConfig
  <2>2. Config \in Saved(bun[p])
    BY <2>1
  <2>3. Reversible /\ UNCHANGED <<mstate, backup>> /\ Write(Config, "v2")
    BY <1>10 DEF UpdateConfig
  <2> QED
    BY <2>1, <2>2, <2>3
<1>11. CASE CopyRules(p)
  BY <1>11 DEF CopyRules
<1>12. CASE StripRules(p)
  <2>1. mstate[bun[p]] = "applying" /\ bun[p] \in Bundles
    BY <1>12 DEF StripRules
  <2>2. fs[Rules] = origin[bun[p]][Rules] /\ fs[Rules] # "absent"
    BY <1>12 DEF StripRules
  <2>3. backup[bun[p]][Rules] = origin[bun[p]][Rules]
    BY <2>1
  <2>4. Rules \in Saved(bun[p])
    BY <2>2, <2>3
  <2>5. Reversible /\ UNCHANGED <<mstate, backup>> /\ \E c \in {"absent", "rest"} : Write(Rules, c)
    BY <1>12 DEF StripRules
  <2> QED
    BY <2>1, <2>4, <2>5
<1>13. CASE InitSkillRoot(p)
  BY <1>13 DEF InitSkillRoot
<1>14. ASSUME NEW s \in Skills, CopySkill(p, s) PROVE Goal
  BY <1>14 DEF CopySkill
<1>15. ASSUME NEW s \in Skills, DropLegacySkill(p, s) PROVE Goal
  BY <1>15 DEF DropLegacySkill
<1>16. CASE ArchiveMemory(p)
  BY <1>16 DEF ArchiveMemory
<1>17. CASE DropMemory(p)
  <2>1. mstate[bun[p]] = "applying" /\ bun[p] \in Bundles
    BY <1>17 DEF DropMemory
  <2>2. Memory \in Saved(bun[p])
    BY <2>1, <1>17 DEF DropMemory
  <2>3. Reversible /\ UNCHANGED <<mstate, backup>> /\ Write(Memory, "absent")
    BY <1>17 DEF DropMemory
  <2> QED
    BY <2>1, <2>2, <2>3
<1>18. CASE Complete(p)
  BY <1>18 DEF Complete
<1>19. CASE MutationFails(p)
  BY <1>19 DEF MutationFails
<1>20. CASE CopyFails(p)
  BY <1>20 DEF CopyFails
<1>21. CASE Abort(p)
  BY <1>21 DEF Abort
<1>22. CASE AbortFails(p)
  BY <1>22 DEF AbortFails
<1>23. ASSUME NEW b \in Bundles, ReadManifest(p, b) PROVE Goal
  BY <1>23 DEF ReadManifest
<1>24. CASE LockForRollback(p)
  BY <1>24 DEF LockForRollback
<1>25. ASSUME NEW x \in Destinations, CleanDestination(p, x) PROVE Goal
  BY <1>25 DEF CleanDestination, Subtree
<1>26. ASSUME NEW x \in Sources, Restore(p, x) PROVE Goal
  <2>1. bun[p] \in Bundles /\ backup[bun[p]][x] = origin[bun[p]][x] /\ mstate[bun[p]] # "none"
    BY <1>26 DEF Restore
  <2>2. x \in todo[p] /\ UNCHANGED <<mstate, backup>> /\ Write(x, backup[bun[p]][x])
    BY <1>26 DEF Restore, IsNext
  <2>3. backup[bun[p]][x] # "absent"
    BY <2>1, <2>2, <1>26 DEF Restore
  <2>4. CASE x = Config
    BY <2>1, <2>2, <2>4
  <2>5. CASE x = Rules
    BY <2>1, <2>2, <2>5
  <2>6. CASE x = Memory
    BY <2>1, <2>2, <2>6, <2>3
  <2>7. CASE x \notin {Config, Rules, Memory}
    BY <2>2, <2>7
  <2> QED
    BY <2>4, <2>5, <2>6, <2>7
<1>27. CASE CleanedAll(p)
  BY <1>27 DEF CleanedAll
<1>28. CASE MarkRolledBack(p)
  <2>1. bun[p] \in Bundles /\ mstate[bun[p]] # "none"
    BY <1>28 DEF MarkRolledBack
  <2>2. \A x \in Saved(bun[p]) : fs[x] = origin[bun[p]][x] /\ fs[x] # "absent"
    <3>1. \A x \in Sources : backup[bun[p]][x] = origin[bun[p]][x]
      BY <1>28 DEF MarkRolledBack
    <3>2. \A x \in Saved(bun[p]) : fs[x] = backup[bun[p]][x]
      BY <1>28 DEF MarkRolledBack
    <3> QED
      BY <3>1, <3>2
  <2>3. UNCHANGED <<fs, backup>> /\ \A b \in Bundles \ {bun[p]} : mstate'[b] = mstate[b]
    BY <1>28 DEF MarkRolledBack
  <2>4. fs[Config] # "v2" \/ Config \notin Saved(bun[p])
    BY <2>1, <2>2
  <2>5. fs[Rules] # "rest" \/ Rules \notin Saved(bun[p])
    BY <2>1, <2>2
  <2>6. fs[Memory] # "absent" \/ Memory \notin Saved(bun[p])
    BY <2>2
  <2>7. \A b \in Bundles : Saved(b)' = Saved(b)
    BY <2>3
  <2> HIDE DEF Saved
  <2>8. \A b \in Bundles : mstate[b] \in Restorable => b = bun[p] \/ mstate'[b] \in Restorable
    BY <2>3
  <2>9. fs'[Config] = "v2" => \E b \in Bundles : mstate'[b] \in Restorable /\ Config \in Saved(b)
    BY <2>3, <2>4, <2>8
  <2>10. fs'[Rules] = "rest" => \E b \in Bundles : mstate'[b] \in Restorable /\ Rules \in Saved(b)
    BY <2>3, <2>5, <2>8
  <2>11. fs'[Archive] # "absent" /\ fs'[Memory] = "absent" =>
           \E b \in Bundles : mstate'[b] \in Restorable /\ Memory \in Saved(b)
    BY <2>3, <2>6, <2>8
  <2> QED
    BY <2>7, <2>9, <2>10, <2>11
<1>29. CASE RollbackFails(p)
  BY <1>29 DEF RollbackFails
<1>30. CASE Crash(p)
  BY <1>30 DEF Crash
<1> QED
  BY <1>1, <1>2, <1>3, <1>4, <1>5, <1>6, <1>7, <1>8, <1>9, <1>10, <1>11, <1>12, <1>13,
     <1>14, <1>15, <1>16, <1>17, <1>18, <1>19, <1>20, <1>21, <1>22, <1>23, <1>24, <1>25,
     <1>26, <1>27, <1>28, <1>29, <1>30 DEF StepOf, Apply, Rollback

LEMMA RInvStep == RInv /\ [Next]_vars => RInv'
<1> SUFFICES ASSUME RInv, [Next]_vars PROVE RInv'
  OBVIOUS
<1>1. IInv'
  BY IInvStep DEF RInv
<1>2. CASE UNCHANGED vars
  BY <1>1, <1>2 DEF RInv, vars, disk, bundleVars, local, Reversible, Saved, OriginHolds, ProgressHolds
<1>3. ASSUME NEW p \in Procs, StepOf(p) PROVE RInv'
  <2>1. Reversible' /\ ProgressHolds(p)' /\ \A c \in Bundles : OriginHolds(c)'
    BY <1>3, ProgressStep, ReversibleStep
  <2>2. ASSUME NEW q \in Procs \ {p} PROVE ProgressHolds(q)'
    <3>1. /\ pc'[q] = pc[q] /\ bun'[q] = bun[q] /\ todo'[q] = todo[q]
          /\ pc[p] \notin LockedPcs => UNCHANGED <<disk, bundleVars>>
      BY <1>3, StepFrame DEF RInv, IInv
    <3>2. CASE pc[q] \in LockedPcs
      <4>1. pc[p] \notin LockedPcs
        BY <3>2 DEF RInv, IInv, LockInv
      <4> QED
        BY <3>1, <4>1 DEF RInv, ProgressHolds, Saved, disk, bundleVars
    <3>3. CASE pc[q] \notin LockedPcs
      BY <3>1, <3>3 DEF ProgressHolds, LockedPcs, MutatingPcs, RollbackPcs
    <3> QED
      BY <3>2, <3>3
  <2> QED
    BY <1>1, <2>1, <2>2 DEF RInv
<1>4. CASE EditSource \/ WriteNote
  <2>1. lock = NoProc /\ UNCHANGED <<kept, lock, bundleVars, pc, local>>
    BY <1>4, EditFrame
  <2>2. \A q \in Procs : pc[q] \notin LockedPcs
    BY <2>1, NoProcAssumption DEF RInv, IInv, LockInv
  <2>3. Reversible'
    <3>1. /\ fs'[Config] = "v2" => fs[Config] = "v2"
          /\ fs'[Rules] = "rest" => fs[Rules] = "rest"
          /\ fs'[Memory] = "absent" => fs[Memory] = "absent"
          /\ fs'[Archive] = fs[Archive]
      BY <1>4, SourcesAreFound, PathsDiffer
         DEF EditSource, WriteNote, UserWrite, Write, RInv, IInv, TypeOK
    <3> QED
      BY <2>1, <3>1 DEF RInv, Reversible, Saved, bundleVars
  <2>4. \A q \in Procs : ProgressHolds(q)'
    BY <2>1, <2>2 DEF ProgressHolds, LockedPcs, MutatingPcs, RollbackPcs
  <2> QED
    BY <1>1, <2>1, <2>3, <2>4 DEF RInv, OriginHolds, bundleVars
<1> QED
  BY <1>2, <1>3, <1>4 DEF Next, Environment, StepOf

\* Whatever crashes, fails, races or is edited: a config that was rewritten,
\* rules that were stripped and a memory that was moved are each still in the
\* backups of a bundle that rollback accepts.
THEOREM AlwaysReversible == Spec => []Reversible
<1>1. RInv => Reversible
  BY DEF RInv
<1> QED
  BY <1>1, RInvInit, RInvStep, PTL DEF Spec

-----------------------------------------------------------------------------
(* What a completed migration has moved, and what a rollback has put back *)

\* The places of different artifacts are different, and no source is a destination.
LEMMA SkillPathsDiffer ==
    /\ \A s, t \in Skills : /\ LegacySkill(s) # CurrentSkill(t)
                            /\ LegacySkill(s) = LegacySkill(t) => s = t
                            /\ CurrentSkill(s) = CurrentSkill(t) => s = t
    /\ \A s \in Skills :
          {LegacySkill(s), CurrentSkill(s)} \cap
          {Config, Memory, Rules, V2Tree, Archive, NewRules, SkillRoot} = {}
<1>1. ASSUME NEW s \in Skills, NEW t \in Skills
      PROVE  /\ LegacySkill(s) # CurrentSkill(t)
             /\ LegacySkill(s) = LegacySkill(t) => s = t
             /\ CurrentSkill(s) = CurrentSkill(t) => s = t
  BY DEF LegacySkill, CurrentSkill
<1>2. ASSUME NEW s \in Skills
      PROVE  {LegacySkill(s), CurrentSkill(s)} \cap {Config, Memory, Rules, V2Tree} = {}
  BY DEF LegacySkill, CurrentSkill, Config, Memory, Rules, V2Tree
<1>3. ASSUME NEW s \in Skills
      PROVE  {LegacySkill(s), CurrentSkill(s)} \cap {Archive, NewRules, SkillRoot} = {}
  BY DEF LegacySkill, CurrentSkill, Archive, NewRules, SkillRoot
<1> QED
  BY <1>1, <1>2, <1>3

LEMMA PlacesDiffer ==
    /\ V2Tree \notin {Config, NewRules, SkillRoot} /\ NewRules \notin {Config, SkillRoot}
    /\ {V2Tree, NewRules, SkillRoot, Archive} \subseteq Destinations
    /\ \A s \in Skills : LegacySkill(s) \in Sources /\ CurrentSkill(s) \in Destinations
BY DEF V2Tree, NewRules, SkillRoot, Config, Sources, Destinations

LEMMA SourcesAreNotDestinations == Sources \cap Destinations = {}
<1>1. {Config, Memory, Rules} \cap Destinations = {}
  BY PathsDiffer
<1>2. \A s \in Skills : LegacySkill(s) \notin Destinations
  BY SkillPathsDiffer DEF Destinations
<1>3. Client \notin Destinations
  <2>1. Client \notin {V2Tree, Archive}
    BY DEF Client, V2Tree, Archive
  <2>2. Client \notin {NewRules, SkillRoot}
    BY DEF Client, NewRules, SkillRoot
  <2>3. \A s \in Skills : Client # CurrentSkill(s)
    BY DEF Client, CurrentSkill
  <2> QED
    BY <2>1, <2>2, <2>3 DEF Destinations
<1> QED
  BY <1>1, <1>2, <1>3 DEF Sources

\* A managed skill is still to be copied, or it is copied and perhaps still to be dropped
\* at its old place; any other skill stays where it was.
SkillHolds(p, s) ==
    LET old == LegacySkill(s)
        new == CurrentSkill(s)
        was == origin[bun[p]][old]
    IN  /\ was \notin Managed => {old, new} \cap todo[p] = {} /\ fs[old] = was
        /\ was \in Managed =>
              /\ old \in todo[p] => fs[old] = was /\ new \notin todo[p]
              /\ old \notin todo[p] => fs[new] = was
              /\ {old, new} \cap todo[p] = {} => fs[old] = "absent"

LEMMA SkillKept ==
    ASSUME NEW p \in Procs, NEW s \in Skills, SkillHolds(p, s), UNCHANGED <<bun, origin>>,
           LegacySkill(s) \in todo'[p] <=> LegacySkill(s) \in todo[p],
           CurrentSkill(s) \in todo'[p] <=> CurrentSkill(s) \in todo[p],
           fs'[LegacySkill(s)] = fs[LegacySkill(s)], fs'[CurrentSkill(s)] = fs[CurrentSkill(s)]
    PROVE  SkillHolds(p, s)'
BY DEF SkillHolds

\* What the mutations done so far have achieved.
MovedHolds(p) ==
    /\ pc[p] \in MutatingPcs \ {"m_dirs"} => fs[V2Tree] # "absent"
    /\ pc[p] \in MutatingPcs \ {"m_dirs", "m_config"} =>
          fs[Config] = "v2" /\ \A s \in Skills : SkillHolds(p, s)
    /\ pc[p] \in {"m_dirs", "m_config"} =>
          \A s \in Skills : fs[LegacySkill(s)] = origin[bun[p]][LegacySkill(s)]
    /\ pc[p] \in MutatingPcs \ {"m_dirs", "m_config", "m_rules"} =>
          (origin[bun[p]][Rules] \in Managed => fs[NewRules] = origin[bun[p]][Rules])
    /\ pc[p] \in {"m_memory_src", "m_done"} => todo[p] = {}
    /\ pc[p] = "m_done" =>
          /\ fs[Memory] = "absent"
          /\ origin[bun[p]][Memory] # "absent" => fs[Archive] = origin[bun[p]][Memory]

\* The destinations a rollback has cleaned stay clean.
CleanHolds(p) ==
    /\ pc[p] = "rb_clean" => \A x \in mf[p] \ todo[p] : fs[x] = "absent"
    /\ pc[p] = "rb_restore" => \A x \in mf[p] : fs[x] = "absent"

MInv ==
    /\ RInv
    /\ \A p \in Procs : MovedHolds(p) /\ CleanHolds(p)

LEMMA MInvInit == Init => MInv
<1> SUFFICES ASSUME Init PROVE MInv
  OBVIOUS
<1>1. \A p \in Procs : pc[p] = "idle"
  BY DEF Init
<1> QED
  BY <1>1, RInvInit DEF MInv, MovedHolds, CleanHolds, MutatingPcs

\* A step of p keeps what its mutations have achieved.
LEMMA MovedStep ==
    ASSUME MInv, NEW p \in Procs, StepOf(p)
    PROVE  MovedHolds(p)'
<1> DEFINE Goal == MovedHolds(p)'
           b == bun[p]
<1> USE SourcesAreFound, PathsDiffer, SkillPathsDiffer, PlacesDiffer
        DEF MInv, RInv, IInv, TypeOK, BundleInv, BundlePcs, MutatingPcs, AbortPcs, RollbackPcs
<1>0. pc'[p] \notin MutatingPcs => Goal
  BY DEF MovedHolds
<1>1. CASE Arm(p)
  BY <1>1 DEF Arm, Goto, MovedHolds, ProcHolds, FillingHolds, disk, bundleVars, local
<1>2. CASE InitDirs(p)
  <2>1. \A s \in Skills : fs[LegacySkill(s)] = origin[b][LegacySkill(s)]
    BY <1>2 DEF InitDirs, MovedHolds
  <2>2. \A s \in Skills : fs'[LegacySkill(s)] = fs[LegacySkill(s)]
    BY <1>2 DEF InitDirs, Write
  <2>3. fs'[V2Tree] # "absent"
    BY <1>2 DEF InitDirs, Write
  <2> QED
    BY <1>2, <2>1, <2>2, <2>3 DEF InitDirs, Goto, MutationFrame, bundleVars, MovedHolds
<1>3. CASE UpdateConfig(p)
  <2>1. \A s \in Skills : fs[LegacySkill(s)] = origin[b][LegacySkill(s)]
    BY <1>3 DEF UpdateConfig, MovedHolds
  <2>2. \A s \in Skills : origin[b][LegacySkill(s)] = seen[p][LegacySkill(s)]
    BY <1>3 DEF UpdateConfig, ProcHolds, PlannedHolds
  <2>3. todo'[p] = {LegacySkill(s) : s \in ManagedSkills(p)}
    BY <1>3 DEF UpdateConfig
  <2>4. /\ fs'[Config] = "v2" /\ fs'[V2Tree] = fs[V2Tree] /\ fs'[NewRules] = fs[NewRules]
        /\ \A s \in Skills : fs'[LegacySkill(s)] = fs[LegacySkill(s)]
    BY <1>3 DEF UpdateConfig, Write
  <2>5. fs[V2Tree] # "absent"
    BY <1>3 DEF UpdateConfig, MovedHolds
  <2>6. UNCHANGED <<bun, origin>>
    BY <1>3 DEF UpdateConfig, MutationFrame, bundleVars
  <2>7. ASSUME NEW s \in Skills PROVE SkillHolds(p, s)'
    <3>1. LegacySkill(s) \in todo'[p] <=> origin[b][LegacySkill(s)] \in Managed
      BY <2>2, <2>3 DEF ManagedSkills
    <3>2. CurrentSkill(s) \notin todo'[p]
      BY <2>3 DEF ManagedSkills
    <3> QED
      BY <2>1, <2>4, <2>6, <3>1, <3>2 DEF SkillHolds
  <2>8. pc'[p] # "m_rules" => pc'[p] = "m_skills" /\ origin[b][Rules] \notin Managed
    <3>1. pc'[p] = IF fs[Rules] # "absent" THEN "m_rules" ELSE "m_skills"
      BY <1>3 DEF UpdateConfig, Goto
    <3>2. fs[Rules] = origin[b][Rules]
      BY <1>3 DEF UpdateConfig, ProgressHolds
    <3> QED
      BY <3>1, <3>2 DEF Managed
  <2>9. pc'[p] \in {"m_rules", "m_skills"}
    BY <1>3 DEF UpdateConfig, Goto
  <2> QED
    BY <2>4, <2>5, <2>6, <2>7, <2>8, <2>9 DEF MovedHolds
<1>4. CASE CopyRules(p)
  <2>1. /\ pc[p] = "m_rules" /\ pc'[p] = "m_rules_old" /\ UNCHANGED <<bun, origin, todo>>
    BY <1>4 DEF CopyRules, Goto, MutationFrame, bundleVars
  <2>2. /\ fs' = [fs EXCEPT ![NewRules] = IF fs[Rules] \in Managed THEN fs[Rules] ELSE "none_text"]
    BY <1>4 DEF CopyRules, Write
  <2>3. fs[Rules] = origin[b][Rules]
    BY <2>1 DEF ProgressHolds
  <2>4. /\ fs'[Config] = fs[Config] /\ fs'[V2Tree] = fs[V2Tree]
        /\ \A s \in Skills : /\ fs'[LegacySkill(s)] = fs[LegacySkill(s)]
                             /\ fs'[CurrentSkill(s)] = fs[CurrentSkill(s)]
        /\ origin[b][Rules] \in Managed => fs'[NewRules] = origin[b][Rules]
    BY <2>2, <2>3
  <2>5. \A s \in Skills : SkillHolds(p, s)'
    <3>1. \A s \in Skills : SkillHolds(p, s)
      BY <2>1 DEF MovedHolds
    <3> QED
      BY <2>1, <2>4, <3>1, SkillKept
  <2> QED
    BY <2>1, <2>4, <2>5 DEF MovedHolds
<1>5. CASE StripRules(p)
  <2>1. /\ pc[p] = "m_rules_old" /\ pc'[p] = "m_skills" /\ UNCHANGED <<bun, origin, todo>>
    BY <1>5 DEF StripRules, Goto, MutationFrame, bundleVars
  <2>2. PICK left : fs' = [fs EXCEPT ![Rules] = left]
    BY <1>5 DEF StripRules, Write
  <2>3. /\ fs'[Config] = fs[Config] /\ fs'[V2Tree] = fs[V2Tree] /\ fs'[NewRules] = fs[NewRules]
        /\ \A s \in Skills : /\ fs'[LegacySkill(s)] = fs[LegacySkill(s)]
                             /\ fs'[CurrentSkill(s)] = fs[CurrentSkill(s)]
    BY <2>2
  <2>4. \A s \in Skills : SkillHolds(p, s)'
    <3>1. \A s \in Skills : SkillHolds(p, s)
      BY <2>1 DEF MovedHolds
    <3> QED
      BY <2>1, <2>3, <3>1, SkillKept
  <2> QED
    BY <2>1, <2>3, <2>4 DEF MovedHolds
<1>6. CASE InitSkillRoot(p)
  <2>1. /\ pc[p] = "m_skills" /\ pc'[p] = "m_skill_copy" /\ UNCHANGED <<bun, origin, todo>>
    BY <1>6 DEF InitSkillRoot, Goto, MutationFrame, bundleVars
  <2>2. fs' = fs \/ fs' = [fs EXCEPT ![SkillRoot] = "v2"]
    BY <1>6 DEF InitSkillRoot, Write
  <2>3. /\ fs'[Config] = fs[Config] /\ fs'[V2Tree] = fs[V2Tree] /\ fs'[NewRules] = fs[NewRules]
        /\ \A s \in Skills : /\ fs'[LegacySkill(s)] = fs[LegacySkill(s)]
                             /\ fs'[CurrentSkill(s)] = fs[CurrentSkill(s)]
    BY <2>2
  <2>4. \A s \in Skills : SkillHolds(p, s)'
    <3>1. \A s \in Skills : SkillHolds(p, s)
      BY <2>1 DEF MovedHolds
    <3> QED
      BY <2>1, <2>3, <3>1, SkillKept
  <2> QED
    BY <2>1, <2>3, <2>4 DEF MovedHolds
<1>7. ASSUME NEW s \in Skills, CopySkill(p, s) PROVE Goal
  <2>1. /\ pc[p] = "m_skill_copy" /\ pc'[p] = "m_skill_src" /\ UNCHANGED <<bun, origin>>
        /\ LegacySkill(s) \in todo[p]
        /\ todo'[p] = (todo[p] \ {LegacySkill(s)}) \cup {CurrentSkill(s)}
    BY <1>7 DEF CopySkill, Goto, MutationFrame, bundleVars
  <2>2. fs' = [fs EXCEPT ![CurrentSkill(s)] = fs[LegacySkill(s)]]
    BY <1>7 DEF CopySkill, Write
  <2>3. /\ fs'[Config] = fs[Config] /\ fs'[V2Tree] = fs[V2Tree] /\ fs'[NewRules] = fs[NewRules]
        /\ \A t \in Skills : /\ fs'[LegacySkill(t)] = fs[LegacySkill(t)]
                             /\ t # s => fs'[CurrentSkill(t)] = fs[CurrentSkill(t)]
        /\ fs'[CurrentSkill(s)] = fs[LegacySkill(s)]
    BY <2>2
  <2>4. SkillHolds(p, s)'
    <3>1. SkillHolds(p, s)
      BY <2>1 DEF MovedHolds
    <3> QED
      BY <2>1, <2>3, <3>1 DEF SkillHolds
  <2>5. ASSUME NEW t \in Skills \ {s} PROVE SkillHolds(p, t)'
    <3>1. /\ LegacySkill(t) \in todo'[p] <=> LegacySkill(t) \in todo[p]
          /\ CurrentSkill(t) \in todo'[p] <=> CurrentSkill(t) \in todo[p]
      BY <2>1
    <3>2. SkillHolds(p, t)
      BY <2>1 DEF MovedHolds
    <3> QED
      BY <2>1, <2>3, <3>1, <3>2, SkillKept
  <2> QED
    BY <2>1, <2>3, <2>4, <2>5 DEF MovedHolds
<1>8. ASSUME NEW s \in Skills, DropLegacySkill(p, s) PROVE Goal
  <2>1. /\ pc[p] = "m_skill_src" /\ pc'[p] = "m_skill_copy" /\ UNCHANGED <<bun, origin>>
        /\ CurrentSkill(s) \in todo[p] /\ todo'[p] = todo[p] \ {CurrentSkill(s)}
    BY <1>8 DEF DropLegacySkill, Goto, MutationFrame, bundleVars
  <2>2. fs' = [fs EXCEPT ![LegacySkill(s)] = "absent"]
    BY <1>8 DEF DropLegacySkill, Write
  <2>3. /\ fs'[Config] = fs[Config] /\ fs'[V2Tree] = fs[V2Tree] /\ fs'[NewRules] = fs[NewRules]
        /\ \A t \in Skills : /\ fs'[CurrentSkill(t)] = fs[CurrentSkill(t)]
                             /\ t # s => fs'[LegacySkill(t)] = fs[LegacySkill(t)]
        /\ fs'[LegacySkill(s)] = "absent"
    BY <2>2
  <2>4. SkillHolds(p, s)'
    <3>1. SkillHolds(p, s)
      BY <2>1 DEF MovedHolds
    <3> QED
      BY <2>1, <2>3, <3>1 DEF SkillHolds
  <2>5. ASSUME NEW t \in Skills \ {s} PROVE SkillHolds(p, t)'
    <3>1. /\ LegacySkill(t) \in todo'[p] <=> LegacySkill(t) \in todo[p]
          /\ CurrentSkill(t) \in todo'[p] <=> CurrentSkill(t) \in todo[p]
      BY <2>1
    <3>2. SkillHolds(p, t)
      BY <2>1 DEF MovedHolds
    <3> QED
      BY <2>1, <2>3, <3>1, <3>2, SkillKept
  <2> QED
    BY <2>1, <2>3, <2>4, <2>5 DEF MovedHolds
<1>9. CASE ArchiveMemory(p)
  <2>1. /\ pc[p] = "m_skill_copy" /\ todo[p] = {} /\ UNCHANGED <<bun, origin, todo>>
    BY <1>9 DEF ArchiveMemory, MutationFrame, bundleVars
  <2>2. fs[Memory] = origin[b][Memory]
    BY <2>1 DEF ProgressHolds
  <2>3. /\ fs'[Config] = fs[Config] /\ fs'[V2Tree] = fs[V2Tree] /\ fs'[NewRules] = fs[NewRules]
        /\ \A s \in Skills : /\ fs'[LegacySkill(s)] = fs[LegacySkill(s)]
                             /\ fs'[CurrentSkill(s)] = fs[CurrentSkill(s)]
    BY <1>9 DEF ArchiveMemory, Write
  <2>4. /\ pc'[p] \in {"m_done", "m_memory_src"}
        /\ pc'[p] = "m_done" => fs' = fs /\ fs[Memory] = "absent"
    BY <1>9 DEF ArchiveMemory, Goto
  <2>5. \A s \in Skills : SkillHolds(p, s)'
    <3>1. \A s \in Skills : SkillHolds(p, s)
      BY <2>1 DEF MovedHolds
    <3> QED
      BY <2>1, <2>3, <3>1, SkillKept
  <2> QED
    BY <2>1, <2>2, <2>3, <2>4, <2>5 DEF MovedHolds
<1>10. CASE DropMemory(p)
  <2>1. /\ pc[p] = "m_memory_src" /\ pc'[p] = "m_done" /\ UNCHANGED <<bun, origin, todo>>
        /\ fs[Archive] = fs[Memory] /\ fs' = [fs EXCEPT ![Memory] = "absent"]
    BY <1>10 DEF DropMemory, Goto, Write, MutationFrame, bundleVars
  <2>2. fs[Memory] = origin[b][Memory]
    BY <2>1 DEF ProgressHolds
  <2>3. /\ fs'[Config] = fs[Config] /\ fs'[V2Tree] = fs[V2Tree] /\ fs'[NewRules] = fs[NewRules]
        /\ \A s \in Skills : /\ fs'[LegacySkill(s)] = fs[LegacySkill(s)]
                             /\ fs'[CurrentSkill(s)] = fs[CurrentSkill(s)]
        /\ fs'[Memory] = "absent" /\ fs'[Archive] = fs[Archive]
    BY <2>1
  <2>4. \A s \in Skills : SkillHolds(p, s)'
    <3>1. \A s \in Skills : SkillHolds(p, s)
      BY <2>1 DEF MovedHolds
    <3> QED
      BY <2>1, <2>3, <3>1, SkillKept
  <2> QED
    BY <2>1, <2>2, <2>3, <2>4 DEF MovedHolds
<1>11. pc'[p] \in MutatingPcs =>
         \/ Arm(p) \/ InitDirs(p) \/ UpdateConfig(p) \/ CopyRules(p) \/ StripRules(p)
         \/ InitSkillRoot(p) \/ (\E s \in Skills : CopySkill(p, s) \/ DropLegacySkill(p, s))
         \/ ArchiveMemory(p) \/ DropMemory(p)
  <2>1. TakeSnapshot(p) \/ Plan(p) \/ Lock(p) \/ Refuse(p) => pc'[p] \notin MutatingPcs
    BY DEF TakeSnapshot, Plan, Lock, Refuse, Return, ResetLocals, Goto
  <2>2. (\E c \in Bundles : Prepare(p, c) \/ ReadManifest(p, c)) => pc'[p] \notin MutatingPcs
    BY DEF Prepare, ReadManifest, Goto
  <2>3. (\E x \in Sources : BackUp(p, x) \/ Restore(p, x)) => pc'[p] \notin MutatingPcs
    BY DEF BackUp, Restore
  <2>4. BackupFails(p) \/ Complete(p) \/ AbortFails(p) \/ Crash(p) => pc'[p] \notin MutatingPcs
    BY DEF BackupFails, Complete, AbortFails, Crash, Return, ResetLocals
  <2>5. MutationFails(p) \/ CopyFails(p) \/ Abort(p) => pc'[p] \notin MutatingPcs
    BY DEF MutationFails, CopyFails, Abort, Goto
  <2>6. LockForRollback(p) \/ CleanedAll(p) => pc'[p] \notin MutatingPcs
    BY DEF LockForRollback, CleanedAll, Return, ResetLocals, Goto
  <2>7. (\E x \in Destinations : CleanDestination(p, x)) => pc'[p] \notin MutatingPcs
    BY DEF CleanDestination
  <2>8. MarkRolledBack(p) \/ RollbackFails(p) => pc'[p] \notin MutatingPcs
    BY DEF MarkRolledBack, RollbackFails, Return, ResetLocals
  <2> QED
    BY <2>1, <2>2, <2>3, <2>4, <2>5, <2>6, <2>7, <2>8 DEF StepOf, Apply, Rollback
<1> QED
  BY <1>0, <1>1, <1>2, <1>3, <1>4, <1>5, <1>6, <1>7, <1>8, <1>9, <1>10, <1>11

\* A step of p keeps clean what its rollback has cleaned.
LEMMA CleanStep ==
    ASSUME MInv, NEW p \in Procs, StepOf(p)
    PROVE  CleanHolds(p)'
<1> DEFINE Goal == CleanHolds(p)'
<1> USE DEF MInv, RInv, IInv, TypeOK
<1>0. pc'[p] \notin RollbackPcs => Goal
  BY DEF CleanHolds, RollbackPcs
<1>1. CASE Abort(p)
  BY <1>1 DEF Abort, Goto, CleanHolds
<1>2. CASE LockForRollback(p)
  BY <1>2 DEF LockForRollback, Return, ResetLocals, Goto, CleanHolds
<1>3. ASSUME NEW x \in Destinations, CleanDestination(p, x) PROVE Goal
  <2>1. /\ pc[p] = "rb_clean" /\ pc' = pc /\ mf' = mf
        /\ todo'[p] = todo[p] \ {x}
    BY <1>3 DEF CleanDestination, IsNext
  <2>2. x \in Subtree(x) /\ \A y \in Path : y \in Subtree(x) => fs'[y] = "absent"
    BY <1>3 DEF CleanDestination, Subtree
  <2>3. \A y \in Path : fs[y] = "absent" => fs'[y] = "absent"
    BY <1>3 DEF CleanDestination
  <2>4. mf[p] \subseteq Path
    BY DEF Path
  <2> QED
    BY <2>1, <2>2, <2>3, <2>4 DEF CleanHolds
<1>4. CASE CleanedAll(p)
  <2>1. /\ pc[p] = "rb_clean" /\ todo[p] = {} /\ pc'[p] = "rb_restore"
        /\ UNCHANGED <<fs, mf>>
    BY <1>4 DEF CleanedAll, Goto, disk
  <2>2. \A x \in mf[p] : fs[x] = "absent"
    BY <2>1 DEF CleanHolds
  <2> QED
    BY <2>1, <2>2 DEF CleanHolds
<1>5. ASSUME NEW x \in Sources, Restore(p, x) PROVE Goal
  <2>1. /\ pc[p] = "rb_restore" /\ pc' = pc /\ mf' = mf
        /\ fs' = [fs EXCEPT ![x] = backup[bun[p]][x]]
    BY <1>5 DEF Restore, IsNext, Write
  <2>2. x \notin mf[p] /\ mf[p] \subseteq Path
    BY SourcesAreNotDestinations DEF Path
  <2> QED
    BY <2>1, <2>2 DEF CleanHolds
<1>6. pc'[p] \in RollbackPcs =>
        \/ Abort(p) \/ LockForRollback(p) \/ (\E x \in Destinations : CleanDestination(p, x))
        \/ CleanedAll(p) \/ (\E x \in Sources : Restore(p, x))
  <2>1. TakeSnapshot(p) \/ Plan(p) \/ Lock(p) \/ Refuse(p) => pc'[p] \notin RollbackPcs
    BY DEF TakeSnapshot, Plan, Lock, Refuse, Return, ResetLocals, Goto, RollbackPcs
  <2>2. (\E c \in Bundles : Prepare(p, c) \/ ReadManifest(p, c)) => pc'[p] \notin RollbackPcs
    BY DEF Prepare, ReadManifest, Goto, RollbackPcs
  <2>3. (\E x \in Sources : BackUp(p, x)) \/ Arm(p) => pc'[p] \notin RollbackPcs
    BY DEF BackUp, Arm, Goto, RollbackPcs
  <2>4. BackupFails(p) \/ Complete(p) \/ AbortFails(p) \/ Crash(p) => pc'[p] \notin RollbackPcs
    BY DEF BackupFails, Complete, AbortFails, Crash, Return, ResetLocals, RollbackPcs
  <2>5. MutationFails(p) \/ CopyFails(p) \/ InitDirs(p) \/ UpdateConfig(p) => pc'[p] \notin RollbackPcs
    BY DEF MutationFails, CopyFails, InitDirs, UpdateConfig, Goto, RollbackPcs
  <2>6. CopyRules(p) \/ StripRules(p) \/ InitSkillRoot(p) => pc'[p] \notin RollbackPcs
    BY DEF CopyRules, StripRules, InitSkillRoot, Goto, RollbackPcs
  <2>7. (\E s \in Skills : CopySkill(p, s) \/ DropLegacySkill(p, s)) => pc'[p] \notin RollbackPcs
    BY DEF CopySkill, DropLegacySkill, Goto, RollbackPcs
  <2>8. ArchiveMemory(p) \/ DropMemory(p) => pc'[p] \notin RollbackPcs
    BY DEF ArchiveMemory, DropMemory, Goto, RollbackPcs
  <2>9. MarkRolledBack(p) \/ RollbackFails(p) => pc'[p] \notin RollbackPcs
    BY DEF MarkRolledBack, RollbackFails, Return, ResetLocals, RollbackPcs
  <2> QED
    BY <2>1, <2>2, <2>3, <2>4, <2>5, <2>6, <2>7, <2>8, <2>9 DEF StepOf, Apply, Rollback
<1> QED
  BY <1>0, <1>1, <1>2, <1>3, <1>4, <1>5, <1>6

\* The destinations a rollback has read are its own.
LEMMA ManifestFrame ==
    ASSUME TypeOK, NEW p \in Procs, StepOf(p)
    PROVE  \A q \in Procs \ {p} : mf'[q] = mf[q]
<1> DEFINE Goal == \A q \in Procs \ {p} : mf'[q] = mf[q]
<1> USE DEF TypeOK, local
<1>1. CASE TakeSnapshot(p) \/ Plan(p) \/ Lock(p) \/ Refuse(p)
  BY <1>1 DEF TakeSnapshot, Plan, Lock, Refuse, Return, ResetLocals
<1>2. CASE \E c \in Bundles : Prepare(p, c) \/ ReadManifest(p, c)
  BY <1>2 DEF Prepare, ReadManifest
<1>3. CASE (\E x \in Sources : BackUp(p, x) \/ Restore(p, x)) \/ Arm(p)
  BY <1>3 DEF BackUp, Restore, Arm
<1>4. CASE BackupFails(p) \/ Complete(p) \/ AbortFails(p) \/ Crash(p)
  BY <1>4 DEF BackupFails, Complete, AbortFails, Crash, Return, ResetLocals
<1>5. CASE MutationFails(p) \/ CopyFails(p) \/ Abort(p)
  BY <1>5 DEF MutationFails, CopyFails, Abort
<1>6. CASE InitDirs(p) \/ UpdateConfig(p) \/ CopyRules(p) \/ StripRules(p) \/ InitSkillRoot(p)
  BY <1>6 DEF InitDirs, UpdateConfig, CopyRules, StripRules, InitSkillRoot, MutationFrame
<1>7. CASE (\E s \in Skills : CopySkill(p, s) \/ DropLegacySkill(p, s))
           \/ ArchiveMemory(p) \/ DropMemory(p)
  BY <1>7 DEF CopySkill, DropLegacySkill, ArchiveMemory, DropMemory, MutationFrame
<1>8. CASE LockForRollback(p) \/ CleanedAll(p) \/ \E x \in Destinations : CleanDestination(p, x)
  BY <1>8 DEF LockForRollback, CleanedAll, CleanDestination, Return, ResetLocals
<1>9. CASE MarkRolledBack(p) \/ RollbackFails(p)
  BY <1>9 DEF MarkRolledBack, RollbackFails, Return, ResetLocals
<1> QED
  BY <1>1, <1>2, <1>3, <1>4, <1>5, <1>6, <1>7, <1>8, <1>9 DEF StepOf, Apply, Rollback

LEMMA MInvStep == MInv /\ [Next]_vars => MInv'
<1> SUFFICES ASSUME MInv, [Next]_vars PROVE MInv'
  OBVIOUS
<1>1. RInv'
  BY RInvStep DEF MInv
<1>2. CASE UNCHANGED vars
  BY <1>1, <1>2 DEF MInv, vars, disk, bundleVars, local, MovedHolds, SkillHolds, CleanHolds
<1>3. ASSUME NEW p \in Procs, StepOf(p) PROVE MInv'
  <2>1. MovedHolds(p)' /\ CleanHolds(p)'
    BY <1>3, MovedStep, CleanStep
  <2>2. ASSUME NEW q \in Procs \ {p} PROVE MovedHolds(q)' /\ CleanHolds(q)'
    <3>1. /\ pc'[q] = pc[q] /\ bun'[q] = bun[q] /\ todo'[q] = todo[q] /\ mf'[q] = mf[q]
          /\ pc[p] \notin LockedPcs => UNCHANGED <<disk, bundleVars>>
      BY <1>3, StepFrame, ManifestFrame DEF MInv, RInv, IInv
    <3>2. CASE pc[q] \in LockedPcs
      <4>1. pc[p] \notin LockedPcs
        BY <3>2 DEF MInv, RInv, IInv, LockInv
      <4>2. UNCHANGED <<fs, origin>>
        BY <3>1, <4>1 DEF disk, bundleVars
      <4>3. MovedHolds(q)'
        BY <3>1, <4>2 DEF MInv, MovedHolds, SkillHolds
      <4>4. CleanHolds(q)'
        BY <3>1, <4>2 DEF MInv, CleanHolds
      <4> QED
        BY <4>3, <4>4
    <3>3. CASE pc[q] \notin LockedPcs
      BY <3>1, <3>3 DEF MovedHolds, CleanHolds, LockedPcs, MutatingPcs, RollbackPcs
    <3> QED
      BY <3>2, <3>3
  <2> QED
    BY <1>1, <2>1, <2>2 DEF MInv
<1>4. CASE EditSource \/ WriteNote
  <2>1. lock = NoProc /\ UNCHANGED <<kept, lock, bundleVars, pc, local>>
    BY <1>4, EditFrame
  <2>2. \A q \in Procs : pc[q] \notin LockedPcs
    BY <2>1, NoProcAssumption DEF MInv, RInv, IInv, LockInv
  <2>3. \A q \in Procs : MovedHolds(q)' /\ CleanHolds(q)'
    BY <2>1, <2>2 DEF MovedHolds, CleanHolds, LockedPcs, MutatingPcs, RollbackPcs
  <2> QED
    BY <1>1, <2>3 DEF MInv
<1> QED
  BY <1>2, <1>3, <1>4 DEF Next, Environment, StepOf

\* Only a completed apply, and only a finished rollback, writes these states.
LEMMA CompletionStep ==
    ASSUME TypeOK, BundleInv, [Next]_vars, NEW b \in Bundles
    PROVE  /\ Completes(b) => \E p \in Procs : Complete(p) /\ bun[p] = b
           /\ RollsBack(b) => \E p \in Procs : MarkRolledBack(p) /\ bun[p] = b
<1>0. SUFFICES ASSUME mstate'[b] # mstate[b], mstate'[b] \in {"completed", "rolled_back"}
               PROVE  \E p \in Procs : /\ Complete(p) \/ MarkRolledBack(p)
                                       /\ bun[p] = b
                                       /\ Complete(p) => mstate'[b] = "completed"
                                       /\ MarkRolledBack(p) => mstate'[b] = "rolled_back"
  BY DEF Completes, RollsBack
<1>1. mstate' # mstate
  BY <1>0
<1>2. PICK p \in Procs : StepOf(p)
  BY <1>1, EditFrame DEF vars, bundleVars, Next, Environment, StepOf
<1> USE DEF TypeOK, BundleInv, BundlePcs, bundleVars
<1>3. \/ (\E c \in Bundles : Prepare(p, c)) \/ Arm(p) \/ BackupFails(p) \/ Complete(p)
      \/ MarkRolledBack(p) \/ RollbackFails(p)
  <2>1. TakeSnapshot(p) \/ Plan(p) \/ Lock(p) \/ Refuse(p) => mstate' = mstate
    BY DEF TakeSnapshot, Plan, Lock, Refuse
  <2>2. (\E c \in Bundles : ReadManifest(p, c)) => mstate' = mstate
    BY DEF ReadManifest
  <2>3. (\E x \in Sources : BackUp(p, x) \/ Restore(p, x)) => mstate' = mstate
    BY DEF BackUp, Restore
  <2>4. Abort(p) \/ AbortFails(p) \/ Crash(p) \/ MutationFails(p) \/ CopyFails(p) => mstate' = mstate
    BY DEF Abort, AbortFails, Crash, MutationFails, CopyFails
  <2>5. InitDirs(p) \/ UpdateConfig(p) \/ CopyRules(p) \/ StripRules(p) \/ InitSkillRoot(p) => mstate' = mstate
    BY DEF InitDirs, UpdateConfig, CopyRules, StripRules, InitSkillRoot, MutationFrame
  <2>6. (\E s \in Skills : CopySkill(p, s) \/ DropLegacySkill(p, s)) => mstate' = mstate
    BY DEF CopySkill, DropLegacySkill, MutationFrame
  <2>7. ArchiveMemory(p) \/ DropMemory(p) => mstate' = mstate
    BY DEF ArchiveMemory, DropMemory, MutationFrame
  <2>8. LockForRollback(p) \/ CleanedAll(p) \/ (\E x \in Destinations : CleanDestination(p, x)) => mstate' = mstate
    BY DEF LockForRollback, CleanedAll, CleanDestination
  <2> QED
    BY <1>1, <1>2, <2>1, <2>2, <2>3, <2>4, <2>5, <2>6, <2>7, <2>8 DEF StepOf, Apply, Rollback
<1>4. ASSUME NEW c \in Bundles, Prepare(p, c) PROVE FALSE
  BY <1>0, <1>4 DEF Prepare
<1>5. ~Arm(p)
  BY <1>0 DEF Arm
<1>6. ~BackupFails(p)
  BY <1>0 DEF BackupFails
<1>7. ~RollbackFails(p)
  BY <1>0 DEF RollbackFails
<1>8. CASE Complete(p)
  <2>1. bun[p] = b /\ mstate'[b] = "completed" /\ pc[p] = "m_done"
    BY <1>0, <1>8 DEF Complete, MutatingPcs
  <2>2. ~MarkRolledBack(p)
    BY <2>1 DEF MarkRolledBack
  <2> QED
    BY <1>8, <2>1, <2>2
<1>9. CASE MarkRolledBack(p)
  <2>1. bun[p] = b /\ mstate'[b] = "rolled_back" /\ pc[p] = "rb_restore"
    BY <1>0, <1>9 DEF MarkRolledBack, RollbackPcs
  <2>2. ~Complete(p)
    BY <2>1 DEF Complete
  <2> QED
    BY <1>9, <2>1, <2>2
<1> QED
  BY <1>3, <1>4, <1>5, <1>6, <1>7, <1>8, <1>9

\* When a bundle becomes completed, every managed artifact is at its new place with the
\* content it had when the bundle was made, whichever skills there are.
THEOREM CompletionIsFaithful == Spec => MovedFaithfully
<1>1. ASSUME MInv, [Next]_vars, NEW b \in Bundles, Completes(b)
      PROVE  /\ fs[Config] = "v2" /\ fs[V2Tree] # "absent"
             /\ fs[Memory] = "absent"
             /\ origin[b][Memory] # "absent" => fs[Archive] = origin[b][Memory]
             /\ origin[b][Rules] \in Managed => fs[NewRules] = origin[b][Rules]
             /\ \A s \in Skills :
                  IF origin[b][LegacySkill(s)] \in Managed
                  THEN /\ fs[CurrentSkill(s)] = origin[b][LegacySkill(s)]
                       /\ fs[LegacySkill(s)] = "absent"
                  ELSE fs[LegacySkill(s)] = origin[b][LegacySkill(s)]
  <2>1. PICK p \in Procs : Complete(p) /\ bun[p] = b
    BY <1>1, CompletionStep DEF MInv, RInv, IInv
  <2>2. pc[p] = "m_done" /\ MovedHolds(p)
    BY <1>1, <2>1 DEF Complete, MInv
  <2>3. todo[p] = {} /\ \A s \in Skills : SkillHolds(p, s)
    BY <2>2 DEF MovedHolds, MutatingPcs
  <2>4. ASSUME NEW s \in Skills
        PROVE  IF origin[b][LegacySkill(s)] \in Managed
               THEN /\ fs[CurrentSkill(s)] = origin[b][LegacySkill(s)]
                    /\ fs[LegacySkill(s)] = "absent"
               ELSE fs[LegacySkill(s)] = origin[b][LegacySkill(s)]
    BY <2>1, <2>3 DEF SkillHolds
  <2> QED
    BY <2>1, <2>2, <2>4 DEF MovedHolds, MutatingPcs
<1>2. MInv /\ [Next]_vars => [\A b \in Bundles : Completes(b) =>
         /\ fs[Config] = "v2" /\ fs[V2Tree] # "absent"
         /\ fs[Memory] = "absent"
         /\ origin[b][Memory] # "absent" => fs[Archive] = origin[b][Memory]
         /\ origin[b][Rules] \in Managed => fs[NewRules] = origin[b][Rules]
         /\ \A s \in Skills :
              IF origin[b][LegacySkill(s)] \in Managed
              THEN /\ fs[CurrentSkill(s)] = origin[b][LegacySkill(s)]
                   /\ fs[LegacySkill(s)] = "absent"
              ELSE fs[LegacySkill(s)] = origin[b][LegacySkill(s)]]_vars
  BY <1>1
<1> QED
  BY <1>2, MInvInit, MInvStep, PTL DEF Spec, MovedFaithfully

\* A rollback that marks its bundle as rolled back has put back every source the bundle
\* saved, and nothing is left at the destinations its manifest lists.
THEOREM RollbackIsExact == Spec => RollbackRestores
<1>1. ASSUME MInv, [Next]_vars, NEW b \in Bundles, RollsBack(b)
      PROVE  /\ \A x \in Saved(b) : fs[x] = origin[b][x]
             /\ \A x \in mcreated'[b] : fs[x] = "absent"
  <2>1. PICK p \in Procs : MarkRolledBack(p) /\ bun[p] = b
    BY <1>1, CompletionStep DEF MInv, RInv, IInv
  <2>2. pc[p] = "rb_restore" /\ todo[p] = {} /\ mcreated'[b] = mf[p]
    BY <1>1, <2>1 DEF MarkRolledBack, MInv, RInv, IInv, TypeOK
  <2>3. \A x \in Saved(b) : fs[x] = backup[b][x]
    BY <1>1, <2>1, <2>2 DEF MInv, RInv, ProgressHolds
  <2>4. \A x \in Sources : backup[b][x] = origin[b][x]
    BY <1>1, <2>1, <2>2 DEF MInv, RInv, IInv, ProcHolds, StateHolds, BundleHolds, RollbackPcs
  <2>5. \A x \in mf[p] : fs[x] = "absent"
    BY <1>1, <2>2 DEF MInv, CleanHolds
  <2> QED
    BY <2>2, <2>3, <2>4, <2>5 DEF Saved
<1>2. MInv /\ [Next]_vars => [\A b \in Bundles : RollsBack(b) =>
         /\ \A x \in Saved(b) : fs[x] = origin[b][x]
         /\ \A x \in mcreated'[b] : fs[x] = "absent"]_vars
  BY <1>1
<1> QED
  BY <1>2, MInvInit, MInvStep, PTL DEF Spec, RollbackRestores

LEMMA MemoryElsewhere ==
    ASSUME TypeOK, NEW c,
           \/ \E x \in {V2Tree, Archive, NewRules, SkillRoot, Config, Rules} : Write(x, c)
           \/ \E s \in Skills : Write(LegacySkill(s), c) \/ Write(CurrentSkill(s), c)
    PROVE  fs'[Memory] = fs[Memory]
<1>1. Memory \notin Destinations /\ Memory \notin {Config, Rules} /\ Memory \in Path
  BY PathsDiffer, SourcesAreFound
<1>2. \A x \in {V2Tree, Archive, NewRules, SkillRoot, Config, Rules} : x # Memory
  BY <1>1, PlacesDiffer
<1>3. \A s \in Skills : LegacySkill(s) # Memory /\ CurrentSkill(s) # Memory
  BY SkillPathsDiffer
<1> QED
  BY <1>1, <1>2, <1>3 DEF Write, TypeOK

\* A step of p that changes the memory note moves it, or restores it.
LEMMA MemoryStep ==
    ASSUME MInv, NEW p \in Procs, StepOf(p), fs'[Memory] # fs[Memory]
    PROVE  DropMemory(p) \/ Restore(p, Memory)
<1> USE DEF MInv, RInv, IInv, disk
<1>1. Memory \notin Destinations
  BY PathsDiffer
<1>2. TakeSnapshot(p) \/ Plan(p) \/ Lock(p) \/ Refuse(p) => fs'[Memory] = fs[Memory]
  BY DEF TakeSnapshot, Plan, Lock, Refuse
<1>3. (\E c \in Bundles : Prepare(p, c) \/ ReadManifest(p, c)) => fs'[Memory] = fs[Memory]
  BY DEF Prepare, ReadManifest
<1>4. (\E x \in Sources : BackUp(p, x)) \/ Arm(p) => fs'[Memory] = fs[Memory]
  BY DEF BackUp, Arm
<1>5. BackupFails(p) \/ Complete(p) \/ AbortFails(p) \/ Crash(p) => fs'[Memory] = fs[Memory]
  BY DEF BackupFails, Complete, AbortFails, Crash
<1>6. MutationFails(p) \/ Abort(p) => fs'[Memory] = fs[Memory]
  BY DEF MutationFails, Abort
<1>7. CopyFails(p) => fs'[Memory] = fs[Memory]
  BY MemoryElsewhere DEF CopyFails
<1>8. InitDirs(p) \/ UpdateConfig(p) => fs'[Memory] = fs[Memory]
  BY MemoryElsewhere DEF InitDirs, UpdateConfig
<1>9. CopyRules(p) \/ StripRules(p) \/ InitSkillRoot(p) => fs'[Memory] = fs[Memory]
  BY MemoryElsewhere DEF CopyRules, StripRules, InitSkillRoot
<1>10. (\E s \in Skills : CopySkill(p, s) \/ DropLegacySkill(p, s)) => fs'[Memory] = fs[Memory]
  BY MemoryElsewhere DEF CopySkill, DropLegacySkill
<1>11. ArchiveMemory(p) => fs'[Memory] = fs[Memory]
  BY MemoryElsewhere DEF ArchiveMemory
<1>12. LockForRollback(p) \/ CleanedAll(p) => fs'[Memory] = fs[Memory]
  BY DEF LockForRollback, CleanedAll
<1>13. (\E x \in Destinations : CleanDestination(p, x)) => fs'[Memory] = fs[Memory]
  <2>1. ASSUME NEW x \in Destinations, CleanDestination(p, x) PROVE fs'[Memory] = fs[Memory]
    <3>1. Memory \notin Subtree(x) /\ Memory \in Path
      BY <1>1, SourcesAreFound DEF Subtree
    <3> QED
      BY <2>1, <3>1 DEF CleanDestination
  <2> QED
    BY <2>1
<1>14. (\E x \in Sources \ {Memory} : Restore(p, x)) => fs'[Memory] = fs[Memory]
  BY SourcesAreFound DEF Restore, Write, TypeOK
<1>15. MarkRolledBack(p) \/ RollbackFails(p) => fs'[Memory] = fs[Memory]
  BY DEF MarkRolledBack, RollbackFails
<1> QED
  BY <1>2, <1>3, <1>4, <1>5, <1>6, <1>7, <1>8, <1>9, <1>10, <1>11, <1>12, <1>13, <1>14, <1>15
  DEF StepOf, Apply, Rollback

\* A memory note that a step under the lock takes from its place is archived, in a bundle
\* or saved beside the restored file, even when it was written after the migration.
THEOREM MemoryIsKept == Spec => MemoryNeverLost
<1>1. ASSUME MInv, [Next]_vars, NEW c \in Content \ {"absent"}, lock # NoProc,
             fs[Memory] = c, fs'[Memory] # c
      PROVE  c \in kept' \/ fs'[Archive] = c \/ \E b \in Bundles : backup'[b][Memory] = c
  <2>1. PICK p \in Procs : StepOf(p)
    BY <1>1, EditFrame DEF vars, disk, Next, Environment, StepOf
  <2>2. DropMemory(p) \/ Restore(p, Memory)
    BY <1>1, <2>1, MemoryStep
  <2>3. CASE DropMemory(p)
    <3>1. fs' = [fs EXCEPT ![Memory] = "absent"] /\ fs[Archive] = fs[Memory]
      BY <2>3 DEF DropMemory, Write
    <3>2. fs'[Archive] = c
      BY <1>1, <3>1, PathsDiffer, SourcesAreFound DEF MInv, RInv, IInv, TypeOK
    <3> QED
      BY <3>2
  <2>4. CASE Restore(p, Memory)
    <3>1. fs'[Memory] = backup[bun[p]][Memory]
      BY <1>1, <2>4, SourcesAreFound DEF Restore, Write, MInv, RInv, IInv, TypeOK
    <3>2. c \notin {"absent", backup[bun[p]][Memory]}
      BY <1>1, <3>1
    <3>3. kept' = kept \cup {c}
      BY <1>1, <2>4, <3>2 DEF Restore
    <3> QED
      BY <3>3
  <2> QED
    BY <2>2, <2>3, <2>4
<1>2. MInv /\ [Next]_vars => [\A c \in Content \ {"absent"} :
         lock # NoProc /\ fs[Memory] = c /\ fs'[Memory] # c =>
            \/ c \in kept'
            \/ fs'[Archive] = c
            \/ \E b \in Bundles : backup'[b][Memory] = c]_vars
  BY <1>1
<1> QED
  BY <1>2, MInvInit, MInvStep, PTL DEF Spec, MemoryNeverLost

-----------------------------------------------------------------------------
(* What a loop of a call has still to visit *)

\* What a loop has still to visit is what it was filled with: sources, legacy skills and at
\* most one copy whose original has not gone yet, or created destinations.
IsLegacy(x) == \E s \in Skills : x = LegacySkill(s)
LoopHolds(p) ==
    /\ pc[p] \in {"backup", "rb_restore"} => todo[p] \subseteq Sources
    /\ pc[p] = "rb_clean" => todo[p] \subseteq Destinations
    /\ pc[p] \in {"m_rules", "m_rules_old", "m_skills", "m_skill_copy"} =>
          \A x \in todo[p] : IsLegacy(x)
    /\ pc[p] = "m_skill_src" =>
          \E s \in Skills : /\ CurrentSkill(s) \in todo[p]
                            /\ \A x \in todo[p] \ {CurrentSkill(s)} : IsLegacy(x)
    /\ pc[p] = "m_memory_src" => fs[Archive] = fs[Memory]

LInv == IInv /\ \A p \in Procs : LoopHolds(p)

LEMMA LInvInit == Init => LInv
<1> SUFFICES ASSUME Init PROVE LInv
  OBVIOUS
<1>1. \A p \in Procs : pc[p] = "idle"
  BY DEF Init
<1> QED
  BY <1>1, IInvInit DEF LInv, LoopHolds

LEMMA LoopStep ==
    ASSUME IInv, NEW p \in Procs, LoopHolds(p), StepOf(p)
    PROVE  LoopHolds(p)'
<1> USE DEF IInv, TypeOK, Goto
<1> DEFINE Looping == {"backup", "rb_restore", "rb_clean", "m_rules", "m_rules_old", "m_skills",
                       "m_skill_copy", "m_skill_src", "m_memory_src"}
<1>0. pc'[p] \notin Looping => LoopHolds(p)'
  BY DEF LoopHolds
<1>1. ASSUME NEW b \in Bundles, Prepare(p, b) PROVE LoopHolds(p)'
  BY <1>1 DEF Prepare, LoopHolds
<1>2. ASSUME NEW x \in Sources, BackUp(p, x) PROVE LoopHolds(p)'
  BY <1>2 DEF BackUp, LoopHolds
<1>3. CASE UpdateConfig(p)
  <2>1. pc'[p] \in {"m_rules", "m_skills"}
    BY <1>3 DEF UpdateConfig
  <2>2. todo'[p] = {LegacySkill(s) : s \in ManagedSkills(p)}
    BY <1>3 DEF UpdateConfig
  <2>3. \A x \in todo'[p] : IsLegacy(x)
    BY <2>2 DEF ManagedSkills, IsLegacy
  <2> QED
    BY <2>1, <2>3 DEF LoopHolds
<1>4. CASE CopyRules(p) \/ StripRules(p) \/ InitSkillRoot(p)
  <2>1. /\ pc[p] \in {"m_rules", "m_rules_old", "m_skills"}
        /\ pc'[p] \in {"m_rules_old", "m_skills", "m_skill_copy"} /\ todo' = todo
    BY <1>4 DEF CopyRules, StripRules, InitSkillRoot
  <2> QED
    BY <2>1 DEF LoopHolds, IsLegacy
<1>5. ASSUME NEW s \in Skills, CopySkill(p, s) PROVE LoopHolds(p)'
  <2>1. /\ pc[p] = "m_skill_copy" /\ pc'[p] = "m_skill_src"
        /\ todo'[p] = (todo[p] \ {LegacySkill(s)}) \cup {CurrentSkill(s)}
    BY <1>5 DEF CopySkill
  <2>2. \A x \in todo'[p] \ {CurrentSkill(s)} : IsLegacy(x)
    BY <2>1 DEF LoopHolds
  <2> QED
    BY <2>1, <2>2 DEF LoopHolds, IsLegacy
<1>6. ASSUME NEW s \in Skills, DropLegacySkill(p, s) PROVE LoopHolds(p)'
  <2>1. /\ pc[p] = "m_skill_src" /\ pc'[p] = "m_skill_copy" /\ CurrentSkill(s) \in todo[p]
        /\ todo'[p] = todo[p] \ {CurrentSkill(s)}
    BY <1>6 DEF DropLegacySkill
  <2>2. PICK t \in Skills : /\ CurrentSkill(t) \in todo[p]
                            /\ \A x \in todo[p] \ {CurrentSkill(t)} : IsLegacy(x)
    BY <2>1 DEF LoopHolds
  <2>3. CurrentSkill(s) = CurrentSkill(t)
    BY <2>1, <2>2, SkillPathsDiffer DEF IsLegacy
  <2>4. \A x \in todo'[p] : IsLegacy(x)
    BY <2>1, <2>2, <2>3
  <2> QED
    BY <2>1, <2>4 DEF LoopHolds
<1>7. CASE ArchiveMemory(p)
  <2>1. pc'[p] \in {"m_done", "m_memory_src"}
    BY <1>7 DEF ArchiveMemory
  <2>2. pc'[p] = "m_memory_src" => fs' = [fs EXCEPT ![Archive] = fs[Memory]]
    BY <1>7 DEF ArchiveMemory, Write
  <2>3. Archive # Memory /\ Archive \in Path /\ Memory \in Path
    BY PathsDiffer, SourcesAreFound
  <2>4. pc'[p] = "m_memory_src" => fs'[Archive] = fs'[Memory]
    BY <2>2, <2>3
  <2> QED
    BY <2>1, <2>4 DEF LoopHolds
<1>8. CASE Abort(p) \/ LockForRollback(p)
  <2>1. pc'[p] = "rb_clean" => todo'[p] \subseteq Destinations
    BY <1>8 DEF Abort, LockForRollback, Return, ResetLocals
  <2>2. pc'[p] \in {"rb_clean", "idle"}
    BY <1>8 DEF Abort, LockForRollback, Return, ResetLocals
  <2> QED
    BY <2>1, <2>2 DEF LoopHolds
<1>9. ASSUME NEW x \in Destinations, CleanDestination(p, x) PROVE LoopHolds(p)'
  BY <1>9 DEF CleanDestination, LoopHolds
<1>10. CASE CleanedAll(p)
  BY <1>10 DEF CleanedAll, LoopHolds, Saved
<1>11. ASSUME NEW x \in Sources, Restore(p, x) PROVE LoopHolds(p)'
  BY <1>11 DEF Restore, LoopHolds
<1>12. CASE \/ TakeSnapshot(p) \/ Plan(p) \/ Lock(p) \/ Refuse(p) \/ BackupFails(p) \/ Complete(p)
            \/ AbortFails(p) \/ MarkRolledBack(p) \/ RollbackFails(p) \/ Crash(p)
  <2>1. pc'[p] \in {"snapped", "planned", "locked", "idle"}
    BY <1>12 DEF TakeSnapshot, Plan, Lock, Refuse, BackupFails, Complete, AbortFails,
       MarkRolledBack, RollbackFails, Crash, Return, ResetLocals
  <2> QED
    BY <1>0, <2>1
<1>13. CASE \/ Arm(p) \/ InitDirs(p) \/ DropMemory(p) \/ MutationFails(p) \/ CopyFails(p)
            \/ \E b \in Bundles : ReadManifest(p, b)
  <2>1. pc'[p] \in {"m_dirs", "m_config", "m_done", "abort", "rb_read"}
    BY <1>13 DEF Arm, InitDirs, DropMemory, MutationFails, CopyFails, ReadManifest
  <2> QED
    BY <1>0, <2>1
<1> QED
  BY <1>1, <1>2, <1>3, <1>4, <1>5, <1>6, <1>7, <1>8, <1>9, <1>10, <1>11, <1>12, <1>13
  DEF StepOf, Apply, Rollback

LEMMA LInvStep == ASSUME LInv, [Next]_vars PROVE LInv'
<1>1. IInv /\ IInv'
  BY IInvStep DEF LInv
<1>2. CASE UNCHANGED vars
  BY <1>1, <1>2 DEF LInv, vars, disk, local, LoopHolds
<1>3. ASSUME NEW p \in Procs, StepOf(p) PROVE LInv'
  <2>1. LoopHolds(p)'
    BY <1>1, <1>3, LoopStep DEF LInv
  <2>2. ASSUME NEW q \in Procs, q # p PROVE LoopHolds(q)'
    <3>1. pc'[q] = pc[q] /\ todo'[q] = todo[q]
      BY <1>1, <1>3, <2>2, StepFrame DEF IInv
    <3>2. pc[q] = "m_memory_src" => fs' = fs
      <4>1. pc[q] = "m_memory_src" => pc[p] \notin LockedPcs
        BY <1>1, <2>2 DEF IInv, LockInv, LockedPcs, MutatingPcs
      <4> QED
        BY <1>1, <1>3, <4>1, StepFrame DEF IInv, disk
    <3> QED
      BY <3>1, <3>2 DEF LInv, LoopHolds
  <2> QED
    BY <1>1, <2>1, <2>2 DEF LInv
<1>4. CASE EditSource \/ WriteNote
  <2>1. PICK x \in Path, c \in Content : UserWrite(x, c)
    BY <1>4, SourcesAreFound DEF EditSource, WriteNote, Content
  <2>2. lock = NoProc /\ UNCHANGED <<pc, todo>>
    BY <2>1 DEF UserWrite, local
  <2>3. \A p \in Procs : pc[p] # "m_memory_src"
    BY <1>1, <2>2, NoProcAssumption DEF IInv, LockInv, LockedPcs, MutatingPcs
  <2> QED
    BY <1>1, <2>2, <2>3 DEF LInv, LoopHolds
<1> QED
  BY <1>2, <1>3, <1>4 DEF Next, Environment, StepOf

-----------------------------------------------------------------------------
(* No call is stuck *)

\* Some step of a call has its guard true.
CanGoOn(p) ==
    \/ pc[p] \in {"snapped", "planned", "locked", "m_dirs", "m_config", "m_rules", "m_rules_old",
                  "m_skills", "m_done", "abort", "rb_read"}
    \/ pc[p] \in {"backup", "rb_restore"} /\ (todo[p] = {} \/ \E x \in Sources : IsNext(p, x))
    \/ pc[p] = "rb_clean" /\ (todo[p] = {} \/ \E x \in Destinations : IsNext(p, x))
    \/ pc[p] = "m_skill_copy" /\ (todo[p] = {} \/ \E s \in Skills : LegacySkill(s) \in todo[p])
    \/ pc[p] = "m_skill_src" /\ \E s \in Skills : CurrentSkill(s) \in todo[p]
    \/ pc[p] = "m_memory_src" /\ fs[Archive] = fs[Memory]

\* Among any paths there is one that a loop visits first.
LEMMA FirstIsFound ==
    ASSUME NEW p \in Procs, todo[p] # {}
    PROVE  \E x \in todo[p] : IsNext(p, x)
<1>1. \A x : Stage(x) \in 1 .. 6
  BY DEF Stage
<1>2. \E k \in 1 .. 6 : (\E x \in todo[p] : Stage(x) = k) /\ \A x \in todo[p] : k <= Stage(x)
  BY <1>1
<1> QED
  BY <1>2 DEF IsNext

\* Every call that has begun can go on, whatever the tree and the bundles hold.
THEOREM NeverStuck == Spec => [](\A p \in Procs : pc[p] # "idle" => CanGoOn(p))
<1>1. ASSUME LInv, NEW p \in Procs, pc[p] # "idle" PROVE CanGoOn(p)
  <2>1. LoopHolds(p) /\ pc[p] \in Pcs
    BY <1>1 DEF LInv, IInv, TypeOK
  <2>2. CASE pc[p] \in {"backup", "rb_restore", "rb_clean"}
    BY <2>1, <2>2, FirstIsFound DEF LoopHolds, CanGoOn
  <2>3. CASE pc[p] \in {"m_skill_copy", "m_skill_src"}
    BY <2>1, <2>3 DEF LoopHolds, CanGoOn, IsLegacy
  <2>4. CASE pc[p] = "m_memory_src"
    BY <2>1, <2>4 DEF LoopHolds, CanGoOn
  <2> QED
    BY <1>1, <2>1, <2>2, <2>3, <2>4
    DEF CanGoOn, Pcs, LockedPcs, BackupPcs, MutatingPcs, AbortPcs, RollbackPcs
<1>2. LInv => \A p \in Procs : pc[p] # "idle" => CanGoOn(p)
  BY <1>1
<1> QED
  BY <1>2, LInvInit, LInvStep, PTL DEF Spec

-----------------------------------------------------------------------------
(* No call runs for ever *)

\* How many phases a call has still before it, and how much of its loop: a legacy skill
\* takes two steps, its copy and the removal of the original.
Phase(l) ==
    CASE l = "idle" -> 0
      [] l = "rb_restore" -> 1
      [] l = "rb_clean" -> 2
      [] l \in {"rb_read", "abort"} -> 3
      [] l = "m_done" -> 4
      [] l = "m_memory_src" -> 5
      [] l \in {"m_skill_copy", "m_skill_src"} -> 6
      [] l = "m_skills" -> 7
      [] l = "m_rules_old" -> 8
      [] l = "m_rules" -> 9
      [] l = "m_config" -> 10
      [] l = "m_dirs" -> 11
      [] l = "backup" -> 12
      [] l = "locked" -> 13
      [] l = "planned" -> 14
      [] OTHER -> 15
InLoop(l, S) ==
    IF l \notin {"backup", "rb_restore", "rb_clean", "m_skill_copy", "m_skill_src"} THEN 0
    ELSE 2 * Cardinality(S) + (IF l = "m_skill_copy" THEN 1 ELSE 0)
StepsLeft(p) == Phase(pc[p]) * (2 * Cardinality(Path) + 2) + InLoop(pc[p], todo[p])

\* A step of its own brings a call nearer to its end; a step of another takes nothing back.
GetsNearer(p) ==
    /\ StepsLeft(p) \in Nat
    /\ StepOf(p) => StepsLeft(p)' < StepsLeft(p)
    /\ StepsLeft(p)' <= StepsLeft(p)

LEMMA PathIsFinite == IsFiniteSet(Skills) => IsFiniteSet(Path)
<1> SUFFICES ASSUME IsFiniteSet(Skills) PROVE IsFiniteSet(Path)
  OBVIOUS
<1> DEFINE Old == {LegacySkill(s) : s \in Skills}
           New == {CurrentSkill(s) : s \in Skills}
<1>1. IsFiniteSet(Old)
  <2>1. [s \in Skills |-> LegacySkill(s)] \in Surjection(Skills, Old)
    BY DEF Surjection
  <2> QED
    BY <2>1, FS_Surjection
<1>2. IsFiniteSet(New)
  <2>1. [s \in Skills |-> CurrentSkill(s)] \in Surjection(Skills, New)
    BY DEF Surjection
  <2> QED
    BY <2>1, FS_Surjection
<1>3. IsFiniteSet({}) /\ \A S, x : IsFiniteSet(S) => IsFiniteSet(S \cup {x})
  BY FS_EmptySet, FS_AddElement
<1> HIDE DEF Old, New
<1>4. IsFiniteSet(((((((((Old \cup New) \cup {Config}) \cup {Memory}) \cup {Rules}) \cup {Client})
                  \cup {V2Tree}) \cup {Archive}) \cup {NewRules}) \cup {SkillRoot})
  BY <1>1, <1>2, <1>3, FS_Union
<1>5. Path = ((((((((Old \cup New) \cup {Config}) \cup {Memory}) \cup {Rules}) \cup {Client})
                  \cup {V2Tree}) \cup {Archive}) \cup {NewRules}) \cup {SkillRoot}
  BY DEF Path, Sources, Destinations, Old, New
<1> QED
  BY <1>4, <1>5

LEMMA StepsAreNumbers ==
    ASSUME IsFiniteSet(Skills), NEW l, NEW S \in SUBSET Path
    PROVE  /\ Cardinality(Path) \in Nat /\ IsFiniteSet(S)
           /\ InLoop(l, S) \in 0 .. (2 * Cardinality(Path) + 1)
           /\ Phase(l) \in 0 .. 15
<1>1. IsFiniteSet(Path) /\ Cardinality(Path) \in Nat
  BY PathIsFinite, FS_CardinalityType
<1>2. IsFiniteSet(S) /\ Cardinality(S) \in Nat /\ Cardinality(S) <= Cardinality(Path)
  BY <1>1, FS_Subset, FS_CardinalityType
<1>3. InLoop(l, S) \in 0 .. (2 * Cardinality(Path) + 1)
  BY <1>1, <1>2 DEF InLoop
<1>4. Phase(l) \in 0 .. 15
  BY DEF Phase
<1> QED
  BY <1>1, <1>2, <1>3, <1>4

\* An earlier phase outweighs any loop.
LEMMA LaterPhase ==
    ASSUME NEW n \in Nat, NEW h \in Nat, NEW k \in Nat, k < h,
           NEW i \in 0 .. (2 * n + 1), NEW j \in 0 .. (2 * n + 1)
    PROVE  k * (2 * n + 2) + j < h * (2 * n + 2) + i
<1>1. k + 1 <= h
  OBVIOUS
<1>2. (k + 1) * (2 * n + 2) <= h * (2 * n + 2)
  <2>1. \A a, b, c \in Nat : a <= b => a * c <= b * c
    OBVIOUS
  <2>2. 2 * n + 2 \in Nat /\ k + 1 \in Nat
    OBVIOUS
  <2> QED
    BY <1>1, <2>1, <2>2
<1>3. (k + 1) * (2 * n + 2) = k * (2 * n + 2) + (2 * n + 2)
  OBVIOUS
<1> QED
  BY <1>2, <1>3

\* A step leads to a later phase, or has less of its loop before it.
LEMMA StepAdvances ==
    ASSUME LInv, IsFiniteSet(Skills), NEW p \in Procs, pc[p] # "idle", StepOf(p)
    PROVE  \/ Phase(pc'[p]) < Phase(pc[p])
           \/ Phase(pc'[p]) = Phase(pc[p]) /\ InLoop(pc'[p], todo'[p]) < InLoop(pc[p], todo[p])
<1> DEFINE Goal == \/ Phase(pc'[p]) < Phase(pc[p])
                   \/ Phase(pc'[p]) = Phase(pc[p]) /\ InLoop(pc'[p], todo'[p]) < InLoop(pc[p], todo[p])
           n == Cardinality(todo[p])
           m == Cardinality(todo'[p])
<1>0. /\ TypeOK /\ IsFiniteSet(todo[p]) /\ n \in Nat
      /\ pc \in [Procs -> Pcs] /\ todo \in [Procs -> SUBSET Path]
  <2>1. TypeOK
    BY DEF LInv, IInv
  <2>2. IsFiniteSet(todo[p])
    BY <2>1, PathIsFinite, FS_Subset DEF TypeOK
  <2> QED
    BY <2>1, <2>2, FS_CardinalityType DEF TypeOK
<1>1. ASSUME pc'[p] = "idle" PROVE Goal
  <2>1. Phase(pc'[p]) = 0 /\ Phase(pc[p]) > 0
    BY <1>0, <1>1 DEF Phase, Pcs, LockedPcs, BackupPcs, MutatingPcs, AbortPcs, RollbackPcs
  <2> QED
    BY <2>1
<1>2. ASSUME NEW x, x \in todo[p], todo'[p] = todo[p] \ {x}
      PROVE  n \in Nat /\ m \in Nat /\ m = n - 1
  <2>1. IsFiniteSet(todo'[p]) /\ m = n - 1
    BY <1>0, <1>2, FS_RemoveElement
  <2>2. m \in Nat
    BY <2>1, FS_CardinalityType
  <2> QED
    BY <1>0, <2>1, <2>2
<1>3. ASSUME NEW x \in Sources, BackUp(p, x) PROVE Goal
  <2>1. x \in todo[p] /\ todo'[p] = todo[p] \ {x} /\ pc[p] = "backup" /\ pc'[p] = "backup"
    BY <1>0, <1>3 DEF BackUp, IsNext
  <2>2. n \in Nat /\ m \in Nat /\ m = n - 1
    BY <1>2, <2>1
  <2>3. InLoop(pc'[p], todo'[p]) = 2 * m + 0 /\ InLoop(pc[p], todo[p]) = 2 * n + 0 /\ Phase(pc'[p]) = Phase(pc[p])
    BY <2>1 DEF InLoop, Phase
  <2> HIDE DEF n, m
  <2> QED
    BY <2>2, <2>3
<1>4. ASSUME NEW x, CleanDestination(p, x) \/ Restore(p, x) PROVE Goal
  <2>1. /\ x \in todo[p] /\ todo'[p] = todo[p] \ {x}
        /\ pc[p] \in {"rb_clean", "rb_restore"} /\ pc'[p] = pc[p]
    BY <1>0, <1>4 DEF CleanDestination, Restore, IsNext
  <2>2. n \in Nat /\ m \in Nat /\ m = n - 1
    BY <1>2, <2>1
  <2>3. InLoop(pc'[p], todo'[p]) = 2 * m + 0 /\ InLoop(pc[p], todo[p]) = 2 * n + 0 /\ Phase(pc'[p]) = Phase(pc[p])
    BY <2>1 DEF InLoop, Phase
  <2> HIDE DEF n, m
  <2> QED
    BY <2>2, <2>3
<1>5. ASSUME NEW s \in Skills, DropLegacySkill(p, s) PROVE Goal
  <2>1. /\ CurrentSkill(s) \in todo[p] /\ todo'[p] = todo[p] \ {CurrentSkill(s)}
        /\ pc[p] = "m_skill_src" /\ pc'[p] = "m_skill_copy"
    BY <1>0, <1>5 DEF DropLegacySkill, Goto
  <2>2. n \in Nat /\ m \in Nat /\ m = n - 1
    BY <1>2, <2>1
  <2>3. InLoop(pc'[p], todo'[p]) = 2 * m + 1 /\ InLoop(pc[p], todo[p]) = 2 * n + 0 /\ Phase(pc'[p]) = Phase(pc[p])
    BY <2>1 DEF InLoop, Phase
  <2> HIDE DEF n, m
  <2> QED
    BY <2>2, <2>3
<1>6. ASSUME NEW s \in Skills, CopySkill(p, s) PROVE Goal
  <2> DEFINE left == todo[p] \ {LegacySkill(s)}
             c == CurrentSkill(s)
  <2>1. /\ LegacySkill(s) \in todo[p] /\ todo'[p] = left \cup {c}
        /\ pc[p] = "m_skill_copy" /\ pc'[p] = "m_skill_src"
    BY <1>0, <1>6 DEF CopySkill, Goto
  <2>2. IsFiniteSet(left) /\ Cardinality(left) = n - 1
    BY <1>0, <2>1, FS_RemoveElement
  <2>3. m \in Nat /\ m <= n
    <3> HIDE DEF left, c
    <3>1. /\ IsFiniteSet(left \cup {c})
          /\ Cardinality(left \cup {c}) = Cardinality(left)
             \/ Cardinality(left \cup {c}) = Cardinality(left) + 1
      BY <2>2, FS_AddElement
    <3>2. m \in Nat
      BY <2>1, <3>1, FS_CardinalityType
    <3> QED
      BY <1>0, <2>1, <2>2, <3>1, <3>2
  <2>4. InLoop(pc'[p], todo'[p]) = 2 * m + 0 /\ InLoop(pc[p], todo[p]) = 2 * n + 1 /\ Phase(pc'[p]) = Phase(pc[p])
    <3> HIDE DEF left, c
    <3> QED
      BY <2>1 DEF InLoop, Phase
  <2> HIDE DEF n, m
  <2> QED
    BY <1>0, <2>3, <2>4
<1>7. CASE \/ Plan(p) \/ Lock(p) \/ Refuse(p) \/ BackupFails(p) \/ Complete(p)
           \/ AbortFails(p) \/ LockForRollback(p) \/ MarkRolledBack(p) \/ RollbackFails(p) \/ Crash(p)
  <2>1. CASE pc'[p] = "idle"
    BY <1>1, <2>1
  <2>2. CASE pc'[p] # "idle"
    <3>1. \/ pc[p] = "snapped" /\ pc'[p] = "planned"
          \/ pc[p] = "planned" /\ pc'[p] = "locked"
          \/ pc[p] = "rb_read" /\ pc'[p] = "rb_clean"
      BY <1>0, <1>7, <2>2 DEF Goto, Plan, Lock, Refuse, BackupFails, Complete, AbortFails, LockForRollback,
         MarkRolledBack, RollbackFails, Crash, Return, ResetLocals
    <3> QED
      BY <3>1 DEF Phase
  <2> QED
    BY <2>1, <2>2
<1>8. CASE \/ \E b \in Bundles : Prepare(p, b)
           \/ Arm(p) \/ InitDirs(p) \/ UpdateConfig(p) \/ CopyRules(p) \/ StripRules(p)
           \/ InitSkillRoot(p) \/ ArchiveMemory(p) \/ DropMemory(p) \/ Abort(p) \/ CleanedAll(p)
  <2>1. \/ pc[p] = "locked" /\ pc'[p] = "backup"
        \/ pc[p] = "backup" /\ pc'[p] = "m_dirs"
        \/ pc[p] = "m_dirs" /\ pc'[p] = "m_config"
        \/ pc[p] = "m_config" /\ pc'[p] \in {"m_rules", "m_skills"}
        \/ pc[p] = "m_rules" /\ pc'[p] = "m_rules_old"
        \/ pc[p] = "m_rules_old" /\ pc'[p] = "m_skills"
        \/ pc[p] = "m_skills" /\ pc'[p] = "m_skill_copy"
        \/ pc[p] = "m_skill_copy" /\ pc'[p] \in {"m_done", "m_memory_src"}
        \/ pc[p] = "m_memory_src" /\ pc'[p] = "m_done"
        \/ pc[p] = "abort" /\ pc'[p] = "rb_clean"
        \/ pc[p] = "rb_clean" /\ pc'[p] = "rb_restore"
    BY <1>0, <1>8 DEF Goto, Prepare, Arm, InitDirs, UpdateConfig, CopyRules, StripRules, InitSkillRoot,
       ArchiveMemory, DropMemory, Abort, CleanedAll
  <2> QED
    BY <2>1 DEF Phase
<1>9. CASE MutationFails(p) \/ CopyFails(p)
  <2>1. pc[p] \in MutatingPcs /\ pc'[p] = "abort"
    BY <1>0, <1>9 DEF Goto, MutationFails, CopyFails, MutatingPcs
  <2> QED
    BY <2>1 DEF Phase, MutatingPcs
<1>10. ~TakeSnapshot(p) /\ \A b \in Bundles : ~ReadManifest(p, b)
  BY DEF TakeSnapshot, ReadManifest
<1> QED
  BY <1>3, <1>4, <1>5, <1>6, <1>7, <1>8, <1>9, <1>10 DEF StepOf, Apply, Rollback

\* Each step of a call that has begun brings it nearer to its end, whatever fails, and
\* nobody else sets it back: with a number of skills there is an end to every call.
THEOREM CallsAreFinite ==
    ASSUME IsFiniteSet(Skills)
    PROVE  Spec => [][\A p \in Procs : pc[p] # "idle" => GetsNearer(p)]_vars
<1>1. ASSUME LInv, LInv', [Next]_vars, NEW p \in Procs, pc[p] # "idle"
      PROVE  GetsNearer(p)
  <2> DEFINE n == Cardinality(Path)
             h == Phase(pc[p])
             k == Phase(pc'[p])
             i == InLoop(pc[p], todo[p])
             j == InLoop(pc'[p], todo'[p])
  <2>1. /\ TypeOK /\ TypeOK' /\ BundleInv
        /\ todo[p] \in SUBSET Path /\ todo'[p] \in SUBSET Path
    BY <1>1 DEF LInv, IInv, TypeOK
  <2>2. /\ n \in Nat /\ h \in 0 .. 15 /\ k \in 0 .. 15
        /\ i \in 0 .. (2 * n + 1) /\ j \in 0 .. (2 * n + 1)
    BY <2>1, StepsAreNumbers
  <2>3. StepsLeft(p) = h * (2 * n + 2) + i /\ StepsLeft(p)' = k * (2 * n + 2) + j
    BY DEF StepsLeft
  <2>4. ASSUME StepOf(p) PROVE k < h \/ (k = h /\ j < i)
    BY <1>1, <2>4, StepAdvances
  <2>5. ASSUME ~StepOf(p) PROVE k = h /\ j = i
    <3>1. pc'[p] = pc[p] /\ todo'[p] = todo[p]
      <4>1. CASE \E q \in Procs : StepOf(q)
        <5>1. PICK q \in Procs : StepOf(q) /\ p # q
          BY <2>5, <4>1
        <5> QED
          BY <2>1, <5>1, StepFrame
      <4>2. CASE EditSource \/ WriteNote
        BY <4>2 DEF EditSource, WriteNote, UserWrite, local
      <4>3. CASE UNCHANGED vars
        BY <4>3 DEF vars, local
      <4> QED
        BY <1>1, <4>1, <4>2, <4>3 DEF Next, Environment, StepOf
    <3> QED
      BY <3>1
  <2> HIDE DEF n, h, k, i, j
  <2>6. h * (2 * n + 2) \in Nat /\ StepsLeft(p) \in Nat
    BY <2>2, <2>3
  <2>7. ASSUME k < h PROVE StepsLeft(p)' < StepsLeft(p)
    BY <2>2, <2>3, <2>7, LaterPhase
  <2>8. ASSUME k = h, j < i PROVE StepsLeft(p)' < StepsLeft(p)
    BY <2>2, <2>3, <2>6, <2>8
  <2>9. ASSUME k = h, j = i PROVE StepsLeft(p)' = StepsLeft(p)
    BY <2>3, <2>9
  <2>10. StepsLeft(p)' \in Nat
    BY <2>2, <2>3
  <2>11. StepOf(p) => StepsLeft(p)' < StepsLeft(p)
    BY <2>4, <2>7, <2>8
  <2>12. StepsLeft(p)' <= StepsLeft(p)
    BY <2>5, <2>6, <2>9, <2>10, <2>11
  <2> QED
    BY <2>6, <2>11, <2>12 DEF GetsNearer
<1>2. LInv /\ LInv' /\ [Next]_vars => [\A p \in Procs : pc[p] # "idle" => GetsNearer(p)]_vars
  BY <1>1
<1> QED
  BY <1>2, LInvInit, LInvStep, PTL DEF Spec

=============================================================================
