--------------------------- MODULE RegistrationProofs ---------------------------
(* Proofs about Registration, for any processes, checkouts, places and remotes, and
   for commands that interleave in any way.  The theorems of the last sections are for
   one process at a time (Alone): a command that overlaps another may lose its record. *)
EXTENDS Registration, TLAPS

--------------------------------------------------------------------------------
(* Type correctness. *)

LEMMA InitTyped == Init => TypeOK
<1>1. ASSUME Init PROVE Resting \in ProcStates
  BY <1>1, BoundsAssumption DEF Resting, ProcStates, NoSnap, Snaps, Stages, Ended
<1>. QED
  BY <1>1, LayoutAssumption, BoundsAssumption DEF Init, TypeOK, Ids

\* A record made for a target, and a record with added bindings, are records.
LEMMA NewRecordTyped ==
  ASSUME TypeOK, NEW t \in Targets, NEW i \in Ids
  PROVE  NewRecord(t, i) \in Records
BY LayoutAssumption DEF TypeOK, NewRecord, Records, Targets, Subjects

LEMMA BoundRecordTyped ==
  ASSUME NEW r \in Records, NEW paths \in SUBSET Places, NEW gcds \in SUBSET Places,
         NEW more \in SUBSET Remotes
  PROVE  /\ [r EXCEPT !.paths = paths, !.gcds = gcds, !.remotes = @ \cup more] \in Records
         /\ [r EXCEPT !.paths = @ \cup paths, !.remotes = @ \cup more] \in Records
BY DEF Records

LEMMA BecomesTyped ==
  ASSUME TypeOK, NEW p \in Procs, NEW stage \in Stages, Becomes(p, stage)
  PROVE  proc' \in [Procs -> ProcStates]
BY DEF TypeOK, Becomes, ProcStates

LEMMA AfterFailureTyped == ASSUME NEW p \in Procs PROVE AfterFailure(p) \in Stages
BY DEF AfterFailure, Stages, Ended

LEMMA ConcludedTyped == ASSUME NEW p \in Procs PROVE Concluded(p) \in Stages
BY DEF Concluded, Stages, Ended

LEMMA ExpectedTyped == ASSUME TypeOK, NEW p \in Procs PROVE Expected(p) \in SUBSET Ids
BY DEF TypeOK, Expected, Names, ProcStates, Snaps, Records

LEMMA RootsTyped ==
  ASSUME TypeOK, NEW p \in Procs, MakeRoots(p)
  PROVE  roots' \in [Ids -> {"none", "empty", "notes"}]
BY DEF TypeOK, MakeRoots

\* Saving bindings keeps the types.
LEMMA SaveTyped ==
  ASSUME TypeOK, NEW p \in Procs, NEW r \in proc[p].reg, NEW bound \in Records,
         SaveBindings(p, r, bound)
  PROVE  TypeOK'
<1>1. proc[p] \in ProcStates /\ r \in Records
  BY DEF TypeOK, ProcStates
<1>2. r.id \in 0..MaxProjects /\ "reconcile" \in Stages
  BY <1>1, BoundsAssumption DEF Records, Ids, Stages
<1>. DEFINE Replace(set) == (set \ {r}) \cup {bound}
            snap == [proc[p].snap EXCEPT !.projects = Replace(proc[p].snap.projects)]
            saved == [proc[p] EXCEPT !.reg = Replace(proc[p].reg), !.snap = snap,
                                     !.id = r.id, !.mutated = TRUE, !.pc = "reconcile"]
<1>5. snap \in Snaps
  BY <1>1 DEF ProcStates, Snaps
<1>6. saved \in ProcStates
  <2>1. Replace(proc[p].reg) \in SUBSET Records
    BY <1>1 DEF ProcStates
  <2>. HIDE DEF snap, Replace
  <2>. QED  BY <1>1, <1>2, <1>5, <2>1 DEF ProcStates
<1>7. proc' = [proc EXCEPT ![p] = saved]
  BY DEF SaveBindings
<1>3. proc' \in [Procs -> ProcStates]
  <2>. HIDE DEF saved
  <2>. QED  BY <1>6, <1>7 DEF TypeOK
<1>4. registry' \subseteq Records
  BY <1>1 DEF SaveBindings, ProcStates
<1>. QED
  BY <1>3, <1>4 DEF SaveBindings, TypeOK

LEMMA StartTyped ==
  ASSUME TypeOK, NEW p \in Procs, NEW t \in Targets, Start(p, t) PROVE TypeOK'
<1>1. [Resting EXCEPT !.pc = "capture", !.target = t, !.reg = registry] \in ProcStates
  <2>1. NoSnap \in Snaps
    BY DEF NoSnap, Snaps
  <2>2. 0 \in 0..MaxProjects /\ "capture" \in Stages
    BY BoundsAssumption DEF Stages
  <2>. QED  BY <2>1, <2>2 DEF TypeOK, Resting, ProcStates
<1>. QED
  BY <1>1, BoundsAssumption DEF Start, TypeOK, disk

LEMMA CommandTyped ==
  ASSUME TypeOK, NEW p \in Procs, Command(p) PROVE TypeOK'
<1>0. proc[p] \in ProcStates
  BY DEF TypeOK
<1>1. CASE Capture(p)
  <2>1. {i \in Names(proc[p].reg) : roots[i] # "none"} \in SUBSET Ids
    BY <1>0 DEF Names, ProcStates, Records
  <2>2. proc' \in [Procs -> ProcStates]
    BY <1>0, <1>1, <2>1 DEF TypeOK, Capture, ProcStates, Snaps, Stages
  <2>. QED  BY <1>1, <2>2 DEF Capture, TypeOK, disk
<1>2. CASE UseBound(p)
  <2>1. PICK r \in PathMatches(proc[p].reg, proc[p].target) :
          proc' = [proc EXCEPT ![p].id = r.id, ![p].pc = "reconcile"]
    BY <1>2 DEF UseBound
  <2>2. r.id \in 0..MaxProjects
    BY <1>0, BoundsAssumption DEF PathMatches, ProcStates, Records, Ids
  <2>3. proc' \in [Procs -> ProcStates]
    BY <1>0, <2>1, <2>2 DEF TypeOK, ProcStates, Stages
  <2>. QED  BY <1>2, <2>3 DEF UseBound, TypeOK, disk
<1>3. CASE AddWorktree(p)
  <2>. DEFINE t == proc[p].target
  <2>1. PICK r \in GcdMatches(proc[p].reg, t) :
          SaveBindings(p, r, [r EXCEPT !.paths = @ \cup {at[t]}, !.remotes = @ \cup RemotesOf[t]])
    BY <1>3 DEF AddWorktree
  <2>2. r \in proc[p].reg /\ r \in Records
    BY <1>0 DEF GcdMatches, ProcStates
  <2>3. {at[t]} \in SUBSET Places /\ RemotesOf[t] \in SUBSET Remotes
    BY <1>3, LayoutAssumption DEF AddWorktree, TypeOK, Subjects
  <2>4. [r EXCEPT !.paths = @ \cup {at[t]}, !.remotes = @ \cup RemotesOf[t]] \in Records
    BY <2>2, <2>3, BoundRecordTyped
  <2>. QED  BY <2>1, <2>2, <2>4, SaveTyped
<1>4. CASE MoveBindings(p)
  <2>. DEFINE t == proc[p].target
              new(r) == [r EXCEPT !.paths = {at[t]}, !.gcds = {at[MainOf[t]]},
                                  !.remotes = @ \cup RemotesOf[t]]
  <2>1. PICK r \in RemoteMatches(proc[p].reg, t) : SaveBindings(p, r, new(r))
    BY <1>4 DEF MoveBindings
  <2>2. r \in proc[p].reg /\ r \in Records
    BY <1>0 DEF RemoteMatches, ProcStates
  <2>3. /\ {at[t]} \in SUBSET Places /\ {at[MainOf[t]]} \in SUBSET Places
        /\ RemotesOf[t] \in SUBSET Remotes
    BY <1>4, LayoutAssumption DEF MoveBindings, TypeOK, Subjects
  <2>4. new(r) \in Records
    BY <2>2, <2>3, BoundRecordTyped
  <2>. QED  BY <2>1, <2>2, <2>4, SaveTyped
<1>5. CASE Refuse(p)
  <2>1. proc' \in [Procs -> ProcStates]
    BY <1>5, BecomesTyped DEF Refuse, Stages, Ended
  <2>. QED  BY <1>5, <2>1 DEF Refuse, TypeOK, disk
<1>6. CASE Create(p)
  <2>. DEFINE rec == NewRecord(proc[p].target, issued + 1)
  <2>1. issued + 1 \in Ids /\ proc[p].target \in Targets
    BY <1>6, BoundsAssumption DEF Create, TypeOK, Ids, Unregistered, Targets, Subjects
  <2>2. rec \in Records /\ rec.id = issued + 1
    BY <2>1, NewRecordTyped DEF NewRecord
  <2>3. rec.id \in 0..MaxProjects /\ issued' \in 0..MaxProjects
    BY <1>6, <2>1, <2>2 DEF Create, Ids
  <2>4. proc[p].reg \cup {rec} \subseteq Records
    BY <1>0, <2>2 DEF ProcStates
  <2>5. proc' = [proc EXCEPT ![p].reg = proc[p].reg \cup {rec}, ![p].id = rec.id,
                             ![p].created = TRUE, ![p].mutated = TRUE, ![p].pc = "reconcile"]
    BY <1>6 DEF Create
  <2>6. proc' \in [Procs -> ProcStates]
    BY <1>0, <2>3, <2>4, <2>5 DEF TypeOK, ProcStates, Stages
  <2>. QED  BY <1>6, <2>3, <2>4, <2>6 DEF Create, TypeOK
<1>7. CASE Reconcile(p)
  <2>1. proc' \in [Procs -> ProcStates]
    BY <1>7, BecomesTyped DEF Reconcile, Stages, Ended
  <2>. QED  BY <1>7, <2>1, RootsTyped, ExpectedTyped DEF Reconcile, TypeOK
<1>8. CASE Reindex(p)
  <2>1. proc' \in [Procs -> ProcStates]
    BY <1>8, BecomesTyped, AfterFailureTyped DEF Reindex, Stages, Ended
  <2>2. runtime' \in SUBSET Ids
    BY <1>8 DEF Reindex, Imported, TypeOK
  <2>. QED  BY <1>8, <2>1, <2>2 DEF Reindex, TypeOK
<1>9. CASE Status(p)
  <2>1. proc' \in [Procs -> ProcStates]
    BY <1>9, BecomesTyped, AfterFailureTyped DEF Status, Stages, Ended
  <2>2. known' \in [Repos -> 0..MaxProjects]
    BY <1>0, <1>9 DEF Status, Remember, TypeOK, ProcStates
  <2>. QED  BY <1>9, <2>1, <2>2 DEF Status, TypeOK, disk
<1>10. CASE Unbind(p)
  <2>1. proc' \in [Procs -> ProcStates]
    BY <1>10, BecomesTyped DEF Unbind, Stages, Ended
  <2>. QED  BY <1>10, <2>1 DEF Unbind, TypeOK
<1>11. CASE RestoreRegistry(p)
  <2>1. proc' \in [Procs -> ProcStates]
    BY <1>11, BecomesTyped DEF RestoreRegistry, Stages, Ended
  <2>2. registry' \subseteq Records
    BY <1>0, <1>11 DEF RestoreRegistry, ProcStates, Snaps
  <2>. QED  BY <1>11, <2>1, <2>2 DEF RestoreRegistry, TypeOK
<1>12. CASE RestoreConfig(p)
  <2>1. config' \in SUBSET Ids
    BY <1>0, <1>12 DEF RestoreConfig, ProcStates, Snaps
  <2>2. proc' \in [Procs -> ProcStates]
    BY <1>0, <1>12, ConcludedTyped DEF RestoreConfig, TypeOK, ProcStates, Snaps, Stages
  <2>. QED  BY <1>12, <2>1, <2>2 DEF RestoreConfig, TypeOK
<1>13. CASE Prune(p)
  <2>1. proc' \in [Procs -> ProcStates]
    BY <1>13, BecomesTyped, ConcludedTyped DEF Prune
  <2>2. roots' \in [Ids -> {"none", "empty", "notes"}]
    BY <1>13 DEF Prune, TypeOK
  <2>. QED  BY <1>13, <2>1, <2>2 DEF Prune, TypeOK
<1>. QED
  BY <1>1, <1>2, <1>3, <1>4, <1>5, <1>6, <1>7, <1>8, <1>9, <1>10, <1>11, <1>12, <1>13
  DEF Command

LEMMA FailureTyped ==
  ASSUME TypeOK, NEW p \in Procs, Failure(p) PROVE TypeOK'
<1>0. proc[p] \in ProcStates /\ upsets' \in 0..MaxUpsets
  BY BoundsAssumption DEF TypeOK, Failure, RegisterFails, ReconcileFails, ReindexFails,
     StatusFails, UnbindFails, RestoreFails, Crash, Fault
<1>1. CASE RegisterFails(p)
  <2>1. proc' \in [Procs -> ProcStates]
    BY <1>1, BecomesTyped DEF RegisterFails, Stages, Ended
  <2>. QED  BY <1>0, <1>1, <2>1 DEF RegisterFails, TypeOK, disk
<1>2. CASE ReconcileFails(p)
  <2>1. proc' \in [Procs -> ProcStates]
    BY <1>2, BecomesTyped, AfterFailureTyped DEF ReconcileFails, Stages, Ended
  <2>2. roots' \in [Ids -> {"none", "empty", "notes"}]
    BY <1>2, RootsTyped DEF ReconcileFails, TypeOK
  <2>. QED  BY <1>0, <1>2, <2>1, <2>2 DEF ReconcileFails, TypeOK
<1>3. CASE ReindexFails(p)
  <2>1. proc' \in [Procs -> ProcStates]
    BY <1>3, BecomesTyped, AfterFailureTyped DEF ReindexFails
  <2>2. runtime' \in SUBSET Ids
    BY <1>3 DEF ReindexFails, Imported, TypeOK
  <2>. QED  BY <1>0, <1>3, <2>1, <2>2 DEF ReindexFails, TypeOK
<1>4. CASE StatusFails(p)
  <2>1. proc' \in [Procs -> ProcStates]
    BY <1>4, BecomesTyped, AfterFailureTyped DEF StatusFails
  <2>. QED  BY <1>0, <1>4, <2>1 DEF StatusFails, TypeOK, disk
<1>5. CASE UnbindFails(p)
  <2>1. proc' \in [Procs -> ProcStates]
    BY <1>0, <1>5 DEF UnbindFails, TypeOK, ProcStates, Stages
  <2>. QED  BY <1>0, <1>5, <2>1 DEF UnbindFails, TypeOK
<1>6. CASE RestoreFails(p)
  <2>1. proc' \in [Procs -> ProcStates]
    BY <1>6, BecomesTyped DEF RestoreFails, Stages, Ended
  <2>. QED  BY <1>0, <1>6, <2>1 DEF RestoreFails, TypeOK, disk
<1>7. CASE Crash(p)
  <2>1. NoSnap \in Snaps /\ 0 \in 0..MaxProjects /\ "idle" \in Stages
    BY BoundsAssumption DEF NoSnap, Snaps, Stages, Ended
  <2>2. Resting \in ProcStates
    BY <2>1 DEF Resting, ProcStates
  <2>. QED  BY <1>0, <1>7, <2>2 DEF Crash, TypeOK, disk
<1>. QED
  BY <1>1, <1>2, <1>3, <1>4, <1>5, <1>6, <1>7 DEF Failure

LEMMA NextTyped == TypeOK /\ [Next]_vars => TypeOK'
<1>. SUFFICES ASSUME TypeOK, [Next]_vars PROVE TypeOK'
  OBVIOUS
<1>1. ASSUME NEW p \in Procs, NEW t \in Targets, Start(p, t) PROVE TypeOK'
  BY <1>1, StartTyped
<1>2. ASSUME NEW p \in Procs, Command(p) PROVE TypeOK'
  BY <1>2, CommandTyped
<1>3. ASSUME NEW p \in Procs, Failure(p) PROVE TypeOK'
  BY <1>3, FailureTyped
<1>4. ASSUME NEW s \in Subjects, NEW to \in Places, Move(s, to) PROVE TypeOK'
  BY <1>4, BoundsAssumption DEF Move, TypeOK, disk
<1>5. ASSUME NEW i \in Ids, WriteNote(i) PROVE TypeOK'
  BY <1>5 DEF WriteNote, TypeOK
<1>6. CASE UNCHANGED vars
  BY <1>6 DEF vars, TypeOK
<1>. QED
  BY <1>1, <1>2, <1>3, <1>4, <1>5, <1>6 DEF Next

\* Every variable keeps its type, however the commands interleave, fail and are killed.
THEOREM TypeCorrect == Spec => []TypeOK
<1>. QED  BY InitTyped, NextTyped, PTL DEF Spec

--------------------------------------------------------------------------------
(* The bindings of different projects stay apart.  Two things make this inductive.
   The registry a process holds is apart by itself, and so is every copy it may write
   back, because what the tiers add to it is bound to nobody in it.  And every
   identifier in use is one that has been issued, so a new one is new everywhere. *)

Apart(set) ==
  \A r1, r2 \in set : r1 # r2 =>
    /\ r1.id # r2.id
    /\ r1.paths \cap r2.paths = {} /\ r1.gcds \cap r2.gcds = {}

Numbered(set) == \A r \in set : r.id <= issued

Sound(set) == Apart(set) /\ Numbered(set)

\* What a process holds: its registry, and the two copies in its snapshot.
Holds(state) == Sound(state.reg) /\ Sound(state.snap.registry) /\ Sound(state.snap.projects)

\* Up to its first write, the snapshot's records are those of the registry in memory.
Aliased(state) == state.pc = "register" => state.snap.projects = state.reg

IInv ==
  /\ TypeOK
  /\ Sound(registry)
  /\ \A p \in Procs : Holds(proc[p]) /\ Aliased(proc[p])

LEMMA SoundEmpty == Sound({})
BY DEF Sound, Apart, Numbered

\* A sound set stays sound when one of its records takes on bindings nobody else has.
LEMMA SoundReplace ==
  ASSUME NEW set \in SUBSET Records, Sound(set), NEW r \in set, NEW bound \in Records,
         bound.id = r.id,
         \A q \in set \ {r} : q.paths \cap bound.paths = {} /\ q.gcds \cap bound.gcds = {}
  PROVE  Sound((set \ {r}) \cup {bound})
<1>1. \A q \in set \ {r} : q.id # bound.id
  BY DEF Sound, Apart
<1>. QED
  BY <1>1 DEF Sound, Apart, Numbered

\* A sound set stays sound when the record with the next identifier is added.
LEMMA SoundAdd ==
  ASSUME TypeOK, NEW set \in SUBSET Records, Sound(set), NEW rec \in Records,
         rec.id = issued + 1, issued' = issued + 1,
         \A q \in set : q.paths \cap rec.paths = {} /\ q.gcds \cap rec.gcds = {}
  PROVE  Apart(set \cup {rec}) /\ \A q \in set \cup {rec} : q.id <= issued'
<1>1. \A q \in set : q.id <= issued /\ q.id \in Nat
  BY DEF Sound, Numbered, Records, Ids
<1>2. issued \in Nat
  BY BoundsAssumption DEF TypeOK
<1>3. \A q \in set : q.id # rec.id
  BY <1>1, <1>2
<1>4. Apart(set \cup {rec})
  BY <1>3 DEF Sound, Apart
<1>5. \A q \in set \cup {rec} : q.id <= issued'
  BY <1>1, <1>2
<1>. QED
  BY <1>4, <1>5

\* A step of one process that leaves the others alone keeps the invariant when the file
\* and the process's own copies are sound after it.
LEMMA StepKeeps ==
  ASSUME IInv, TypeOK', NEW p \in Procs, issued <= issued',
         \A q \in Procs \ {p} : proc'[q] = proc[q],
         Sound(registry)', Holds(proc[p])', Aliased(proc[p])'
  PROVE  IInv'
<1>1. \A q \in Procs \ {p} : proc[q] \in ProcStates
  BY DEF IInv, TypeOK
<1>2. issued \in Nat /\ issued' \in Nat
  BY BoundsAssumption DEF IInv, TypeOK
<1>3. ASSUME NEW set \in SUBSET Records, Sound(set)
      PROVE  Apart(set) /\ \A r \in set : r.id <= issued'
  BY <1>2, <1>3 DEF Sound, Numbered, Records, Ids
<1>4. ASSUME NEW q \in Procs \ {p} PROVE Holds(proc[q])' /\ Aliased(proc[q])'
  <2>1. proc'[q] = proc[q] /\ proc[q] \in ProcStates /\ Holds(proc[q]) /\ Aliased(proc[q])
    BY <1>1 DEF IInv
  <2>2. /\ proc[q].reg \in SUBSET Records /\ proc[q].snap.registry \in SUBSET Records
        /\ proc[q].snap.projects \in SUBSET Records
    BY <2>1 DEF ProcStates, Snaps
  <2>. QED  BY <1>3, <2>1, <2>2 DEF Holds, Aliased, Sound, Apart, Numbered
<1>. QED
  BY <1>4 DEF IInv

\* A step that only moves a process on, to a stage other than the resolution.
LEMMA BecomesKeeps ==
  ASSUME IInv, TypeOK', NEW p \in Procs, NEW stage, stage # "register", Becomes(p, stage),
         registry' = registry, issued' = issued
  PROVE  IInv'
<1>1. proc[p] \in ProcStates /\ issued <= issued'
  BY BoundsAssumption DEF IInv, TypeOK
<1>2. /\ proc'[p] = [proc[p] EXCEPT !.pc = stage]
      /\ \A q \in Procs \ {p} : proc'[q] = proc[q]
  BY DEF IInv, TypeOK, Becomes
<1>3. /\ proc'[p].reg = proc[p].reg /\ proc'[p].snap = proc[p].snap /\ proc'[p].pc = stage
  BY <1>1, <1>2 DEF ProcStates
<1>4. Sound(registry)' /\ Holds(proc[p])' /\ Aliased(proc[p])'
  BY <1>3 DEF IInv, Holds, Aliased, Sound, Apart, Numbered
<1>. QED
  BY <1>1, <1>2, <1>4, StepKeeps

\* Bindings that nobody else has are written to the file and to both copies.
LEMMA SaveKeeps ==
  ASSUME IInv, TypeOK', NEW p \in Procs, proc[p].pc = "register",
         NEW r \in proc[p].reg, NEW bound \in Records, bound.id = r.id,
         \A q \in proc[p].reg \ {r} : q.paths \cap bound.paths = {} /\ q.gcds \cap bound.gcds = {},
         SaveBindings(p, r, bound)
  PROVE  IInv'
<1>. DEFINE after == (proc[p].reg \ {r}) \cup {bound}
<1>1. /\ proc[p] \in ProcStates /\ proc[p].reg \in SUBSET Records
      /\ Holds(proc[p]) /\ proc[p].snap.projects = proc[p].reg
  BY DEF IInv, TypeOK, ProcStates, Aliased
<1>2. Sound(after)
  <2>1. Sound(proc[p].reg)
    BY <1>1 DEF Holds
  <2>. QED  BY <1>1, <2>1, SoundReplace
<1>3. proc'[p] = [proc[p] EXCEPT !.reg = after,
                     !.snap = [proc[p].snap EXCEPT !.projects = after],
                     !.id = r.id, !.mutated = TRUE, !.pc = "reconcile"]
  BY <1>1 DEF IInv, TypeOK, SaveBindings
<1>4. /\ proc'[p].reg = after /\ proc'[p].snap.projects = after
      /\ proc'[p].snap.registry = proc[p].snap.registry /\ proc'[p].pc = "reconcile"
  <2>. HIDE DEF after
  <2>. QED  BY <1>1, <1>3 DEF ProcStates, Snaps
<1>5. registry' = after /\ issued' = issued /\ issued <= issued'
  BY BoundsAssumption DEF SaveBindings, IInv, TypeOK
<1>6. \A q \in Procs \ {p} : proc'[q] = proc[q]
  BY DEF IInv, TypeOK, SaveBindings
<1>7. Sound(registry)' /\ Holds(proc[p])' /\ Aliased(proc[p])'
  <2>. HIDE DEF after
  <2>. QED  BY <1>1, <1>2, <1>4, <1>5 DEF Holds, Aliased, Sound, Apart, Numbered
<1>. QED
  BY <1>5, <1>6, <1>7, StepKeeps

LEMMA CreateKeeps ==
  ASSUME IInv, TypeOK', NEW p \in Procs, Create(p) PROVE IInv'
<1>. DEFINE t == proc[p].target
            rec == NewRecord(t, issued + 1)
            after == proc[p].reg \cup {rec}
<1>1. /\ proc[p] \in ProcStates /\ Holds(proc[p])
      /\ proc[p].reg \in SUBSET Records
  BY DEF IInv, TypeOK, ProcStates
<1>2. issued \in Nat /\ issued' = issued + 1 /\ issued <= issued'
  <2>1. issued' = issued + 1
    BY DEF Create
  <2>. QED  BY <2>1, BoundsAssumption DEF IInv, TypeOK
<1>3. rec \in Records /\ rec.id = issued + 1
  <2>1. issued + 1 \in Ids /\ t \in Targets
    BY <1>2, BoundsAssumption DEF Create, Ids, Unregistered, Targets, Subjects
  <2>. QED  BY <2>1, NewRecordTyped DEF NewRecord, IInv
<1>4. \A q \in proc[p].reg : q.paths \cap rec.paths = {} /\ q.gcds \cap rec.gcds = {}
  <2>1. CASE t \in Repos
    <3>1. UnknownHere(proc[p].reg, t)
      BY <2>1, LayoutAssumption DEF Create, Unregistered, Subjects
    <3>2. rec.paths = {at[t]} /\ rec.gcds = {at[MainOf[t]]}
      BY <2>1 DEF NewRecord, Subjects
    <3>. QED  BY <3>1, <3>2 DEF UnknownHere, PathMatches, GcdMatches
  <2>2. CASE t \in Folders
    <3>1. PathMatches(proc[p].reg, t) = {}
      BY <2>2, LayoutAssumption DEF Create, Unregistered, Subjects
    <3>2. rec.paths = {at[t]} /\ rec.gcds = {}
      BY <2>2, LayoutAssumption DEF NewRecord, Subjects
    <3>. QED  BY <3>1, <3>2 DEF PathMatches
  <2>3. CASE t \notin Subjects
    BY <2>3 DEF NewRecord, Subjects
  <2>. QED  BY <2>1, <2>2, <2>3 DEF Subjects
<1>5. Apart(after) /\ \A q \in after : q.id <= issued'
  <2>1. Sound(proc[p].reg) /\ TypeOK
    BY <1>1 DEF Holds, IInv
  <2>. QED  BY <1>1, <1>2, <1>3, <1>4, <2>1, SoundAdd
<1>6. /\ registry' = after
      /\ proc' = [proc EXCEPT ![p].reg = after, ![p].id = rec.id, ![p].created = TRUE,
                              ![p].mutated = TRUE, ![p].pc = "reconcile"]
  BY DEF Create
<1>7. /\ proc'[p].reg = after /\ proc'[p].snap = proc[p].snap /\ proc'[p].pc = "reconcile"
      /\ \A q \in Procs \ {p} : proc'[q] = proc[q]
  <2>. HIDE DEF after, rec
  <2>. QED  BY <1>1, <1>6 DEF IInv, TypeOK, ProcStates
<1>8. Sound(registry)' /\ Sound(proc[p].reg)' /\ Aliased(proc[p])'
  <2>. HIDE DEF after
  <2>. QED  BY <1>5, <1>6, <1>7 DEF Sound, Apart, Numbered, Aliased
<1>9. Sound(proc[p].snap.registry)' /\ Sound(proc[p].snap.projects)'
  <2>1. \A r \in Records : r.id <= issued => r.id <= issued'
    BY <1>2 DEF Records, Ids
  <2>2. proc[p].snap.registry \in SUBSET Records /\ proc[p].snap.projects \in SUBSET Records
    BY <1>1 DEF ProcStates, Snaps
  <2>. QED  BY <1>1, <1>7, <2>1, <2>2 DEF Holds, Sound, Apart, Numbered
<1>. QED
  BY <1>2, <1>7, <1>8, <1>9, StepKeeps DEF Holds

\* The two tiers that rebind a record add only what no record of the registry has.
LEMMA AddWorktreeKeeps ==
  ASSUME IInv, TypeOK', NEW p \in Procs, AddWorktree(p) PROVE IInv'
<1>. DEFINE t == proc[p].target
            new(r) == [r EXCEPT !.paths = @ \cup {at[t]}, !.remotes = @ \cup RemotesOf[t]]
<1>1. proc[p].reg \in SUBSET Records /\ Sound(proc[p].reg)
  BY DEF IInv, TypeOK, ProcStates, Holds
<1>2. PICK r \in GcdMatches(proc[p].reg, t) : SaveBindings(p, r, new(r))
  BY DEF AddWorktree
<1>3. r \in proc[p].reg /\ r \in Records /\ {at[t]} \in SUBSET Places /\ RemotesOf[t] \in SUBSET Remotes
  BY <1>1, LayoutAssumption DEF GcdMatches, AddWorktree, IInv, TypeOK, Subjects
<1>4. /\ new(r) \in Records /\ new(r).id = r.id
      /\ new(r).paths = r.paths \cup {at[t]} /\ new(r).gcds = r.gcds
  BY <1>3, BoundRecordTyped DEF Records
<1>5. \A q \in proc[p].reg : at[t] \notin q.paths
  BY DEF AddWorktree, PathMatches
<1>6. \A q \in proc[p].reg \ {r} :
        q.paths \cap new(r).paths = {} /\ q.gcds \cap new(r).gcds = {}
  <2>. HIDE DEF new
  <2>. QED  BY <1>1, <1>3, <1>4, <1>5 DEF Sound, Apart
<1>. QED
  BY <1>2, <1>3, <1>4, <1>6, SaveKeeps DEF AddWorktree

LEMMA MoveBindingsKeeps ==
  ASSUME IInv, TypeOK', NEW p \in Procs, MoveBindings(p) PROVE IInv'
<1>. DEFINE t == proc[p].target
            new(r) == [r EXCEPT !.paths = {at[t]}, !.gcds = {at[MainOf[t]]},
                                !.remotes = @ \cup RemotesOf[t]]
<1>1. proc[p].reg \in SUBSET Records
  BY DEF IInv, TypeOK, ProcStates
<1>2. PICK r \in RemoteMatches(proc[p].reg, t) : SaveBindings(p, r, new(r))
  BY DEF MoveBindings
<1>3. /\ r \in proc[p].reg /\ r \in Records
      /\ {at[t]} \in SUBSET Places /\ {at[MainOf[t]]} \in SUBSET Places
      /\ RemotesOf[t] \in SUBSET Remotes
  BY <1>1, LayoutAssumption DEF RemoteMatches, MoveBindings, IInv, TypeOK, Subjects
<1>4. /\ new(r) \in Records /\ new(r).id = r.id
      /\ new(r).paths = {at[t]} /\ new(r).gcds = {at[MainOf[t]]}
  BY <1>3, BoundRecordTyped DEF Records
<1>5. \A q \in proc[p].reg : at[t] \notin q.paths /\ at[MainOf[t]] \notin q.gcds
  BY DEF MoveBindings, UnknownHere, PathMatches, GcdMatches
<1>6. \A q \in proc[p].reg \ {r} :
        q.paths \cap new(r).paths = {} /\ q.gcds \cap new(r).gcds = {}
  <2>. HIDE DEF new
  <2>. QED  BY <1>4, <1>5
<1>. QED
  BY <1>2, <1>3, <1>4, <1>6, SaveKeeps DEF MoveBindings

\* A step of one process that issues no identifier and writes back only what is sound.
LEMMA CopyKeeps ==
  ASSUME IInv, TypeOK', NEW p \in Procs, NEW state, proc' = [proc EXCEPT ![p] = state],
         issued' = issued, registry' = registry \/ registry' = proc[p].snap.registry,
         Holds(state), Aliased(state)
  PROVE  IInv'
<1>1. /\ proc'[p] = state /\ issued <= issued'
      /\ \A q \in Procs \ {p} : proc'[q] = proc[q]
  BY BoundsAssumption DEF IInv, TypeOK
<1>2. Sound(registry) /\ Sound(proc[p].snap.registry)
  BY DEF IInv, Holds
<1>3. Sound(registry)' /\ Holds(proc[p])' /\ Aliased(proc[p])'
  BY <1>1, <1>2 DEF Holds, Aliased, Sound, Apart, Numbered
<1>. QED
  BY <1>1, <1>3, StepKeeps

LEMMA CommandKeeps ==
  ASSUME IInv, TypeOK', NEW p \in Procs, Command(p) PROVE IInv'
<1>0. /\ proc[p] \in ProcStates /\ proc[p].snap \in Snaps
      /\ Holds(proc[p]) /\ Aliased(proc[p])
  BY DEF IInv, TypeOK, ProcStates
<1>1. CASE Capture(p)
  <2>. DEFINE roots0 == {i \in Names(proc[p].reg) : roots[i] # "none"}
              snap == [registry |-> registry, projects |-> proc[p].reg, config |-> config,
                       roots |-> roots0]
              state == [proc[p] EXCEPT !.snap = snap, !.pc = "register"]
  <2>1. proc' = [proc EXCEPT ![p] = state]
    BY <1>1 DEF Capture
  <2>2. state.reg = proc[p].reg /\ state.snap = snap /\ state.pc = "register"
    <3>. HIDE DEF snap
    <3>. QED  BY <1>0 DEF ProcStates
  <2>3. Holds(state) /\ Aliased(state)
    <3>. HIDE DEF state, roots0
    <3>. QED  BY <1>0, <2>2 DEF Holds, Aliased, IInv
  <2>. QED  BY <1>1, <2>1, <2>3, CopyKeeps DEF Capture, disk
<1>2. CASE UseBound(p)
  <2>1. PICK r \in PathMatches(proc[p].reg, proc[p].target) :
          proc' = [proc EXCEPT ![p].id = r.id, ![p].pc = "reconcile"]
    BY <1>2 DEF UseBound
  <2>. DEFINE state == [proc[p] EXCEPT !.id = r.id, !.pc = "reconcile"]
  <2>2. proc' = [proc EXCEPT ![p] = state]
    BY <2>1
  <2>3. state.reg = proc[p].reg /\ state.snap = proc[p].snap /\ state.pc = "reconcile"
    BY <1>0 DEF ProcStates
  <2>4. Holds(state) /\ Aliased(state)
    <3>. HIDE DEF state
    <3>. QED  BY <1>0, <2>3 DEF Holds, Aliased
  <2>. QED  BY <1>2, <2>2, <2>4, CopyKeeps DEF UseBound, disk
<1>3. CASE AddWorktree(p)   BY <1>3, AddWorktreeKeeps
<1>4. CASE MoveBindings(p)  BY <1>4, MoveBindingsKeeps
<1>5. CASE Refuse(p)        BY <1>5, BecomesKeeps DEF Refuse, disk
<1>6. CASE Create(p)        BY <1>6, CreateKeeps
<1>7. AfterFailure(p) # "register" /\ Concluded(p) # "register"
  BY DEF AfterFailure, Concluded
<1>8. CASE Reconcile(p)     BY <1>8, BecomesKeeps DEF Reconcile
<1>9. CASE Reindex(p)       BY <1>7, <1>9, BecomesKeeps DEF Reindex
<1>10. CASE Status(p)       BY <1>7, <1>10, BecomesKeeps DEF Status, disk
<1>11. CASE Unbind(p)       BY <1>11, BecomesKeeps DEF Unbind
<1>12. CASE RestoreRegistry(p)
  <2>. DEFINE state == [proc[p] EXCEPT !.pc = "restoreconfig"]
  <2>1. proc' = [proc EXCEPT ![p] = state]
    BY <1>12 DEF RestoreRegistry, Becomes
  <2>2. state.reg = proc[p].reg /\ state.snap = proc[p].snap /\ state.pc = "restoreconfig"
    BY <1>0 DEF ProcStates
  <2>3. Holds(state) /\ Aliased(state)
    <3>. HIDE DEF state
    <3>. QED  BY <1>0, <2>2 DEF Holds, Aliased
  <2>. QED  BY <1>12, <2>1, <2>3, CopyKeeps DEF RestoreRegistry
<1>13. CASE RestoreConfig(p)
  <2>. DEFINE next == IF proc[p].created /\ ~proc[p].broken /\ proc[p].id \notin proc[p].snap.roots
                      THEN "prune" ELSE Concluded(p)
              state == [proc[p] EXCEPT !.reg = proc[p].snap.projects,
                                       !.undoing = ~proc[p].created, !.pc = next]
  <2>1. proc' = [proc EXCEPT ![p] = state]
    BY <1>13 DEF RestoreConfig
  <2>2. next # "register"
    BY <1>7
  <2>3. state.reg = proc[p].snap.projects /\ state.snap = proc[p].snap /\ state.pc = next
    <3>. HIDE DEF next
    <3>. QED  BY <1>0 DEF ProcStates
  <2>4. Holds(state) /\ Aliased(state)
    <3>. HIDE DEF state, next
    <3>. QED  BY <1>0, <2>2, <2>3 DEF Holds, Aliased
  <2>. QED  BY <1>13, <2>1, <2>4, CopyKeeps DEF RestoreConfig
<1>14. CASE Prune(p)        BY <1>7, <1>14, BecomesKeeps DEF Prune
<1>. QED
  BY <1>1, <1>2, <1>3, <1>4, <1>5, <1>6, <1>8, <1>9, <1>10, <1>11, <1>12, <1>13, <1>14
  DEF Command

LEMMA RestingKeeps == Holds(Resting) /\ Aliased(Resting)
BY SoundEmpty DEF Resting, NoSnap, Holds, Aliased

LEMMA FailureKeeps ==
  ASSUME IInv, TypeOK', NEW p \in Procs, Failure(p) PROVE IInv'
<1>0. proc[p] \in ProcStates /\ Holds(proc[p]) /\ AfterFailure(p) # "register"
  BY DEF IInv, TypeOK, AfterFailure
<1>1. CASE RegisterFails(p)   BY <1>1, BecomesKeeps DEF RegisterFails, disk
<1>2. CASE ReconcileFails(p)  BY <1>0, <1>2, BecomesKeeps DEF ReconcileFails
<1>3. CASE ReindexFails(p)    BY <1>0, <1>3, BecomesKeeps DEF ReindexFails
<1>4. CASE StatusFails(p)     BY <1>0, <1>4, BecomesKeeps DEF StatusFails, disk
<1>5. CASE UnbindFails(p)
  <2>. DEFINE state == [proc[p] EXCEPT !.broken = TRUE, !.pc = "restore"]
  <2>1. proc' = [proc EXCEPT ![p] = state]
    BY <1>5 DEF UnbindFails
  <2>2. state.reg = proc[p].reg /\ state.snap = proc[p].snap /\ state.pc = "restore"
    BY <1>0 DEF ProcStates
  <2>3. Holds(state) /\ Aliased(state)
    <3>. HIDE DEF state
    <3>. QED  BY <1>0, <2>2 DEF Holds, Aliased
  <2>. QED  BY <1>5, <2>1, <2>3, CopyKeeps DEF UnbindFails
<1>6. CASE RestoreFails(p)    BY <1>6, BecomesKeeps DEF RestoreFails, disk
<1>7. CASE Crash(p)           BY <1>7, RestingKeeps, CopyKeeps DEF Crash, disk
<1>. QED
  BY <1>1, <1>2, <1>3, <1>4, <1>5, <1>6, <1>7 DEF Failure

LEMMA NextKeeps == IInv /\ [Next]_vars => IInv'
<1>. SUFFICES ASSUME IInv, [Next]_vars PROVE IInv'
  OBVIOUS
<1>0. TypeOK'
  BY NextTyped DEF IInv
<1>1. ASSUME NEW p \in Procs, NEW t \in Targets, Start(p, t) PROVE IInv'
  <2>. DEFINE state == [Resting EXCEPT !.pc = "capture", !.target = t, !.reg = registry]
  <2>1. state.reg = registry /\ state.snap = NoSnap /\ state.pc = "capture"
    BY DEF Resting
  <2>2. Holds(state) /\ Aliased(state)
    <3>. HIDE DEF state
    <3>. QED  BY <2>1, SoundEmpty DEF Holds, Aliased, NoSnap, IInv
  <2>. QED  BY <1>0, <1>1, <2>2, CopyKeeps DEF Start, disk
<1>2. ASSUME NEW p \in Procs, Command(p) PROVE IInv'
  BY <1>0, <1>2, CommandKeeps
<1>3. ASSUME NEW p \in Procs, Failure(p) PROVE IInv'
  BY <1>0, <1>3, FailureKeeps
<1>4. ASSUME proc' = proc, registry' = registry, issued' = issued PROVE IInv'
  BY <1>0, <1>4 DEF IInv, Holds, Aliased, Sound, Apart, Numbered
<1>5. CASE \E s \in Subjects, to \in Places : Move(s, to)
  BY <1>4, <1>5 DEF Move, disk
<1>6. CASE \E i \in Ids : WriteNote(i)
  BY <1>4, <1>6 DEF WriteNote
<1>7. CASE UNCHANGED vars
  BY <1>4, <1>7 DEF vars
<1>. QED
  BY <1>1, <1>2, <1>3, <1>5, <1>6, <1>7 DEF Next

LEMMA InitKeeps == Init => IInv
BY InitTyped, SoundEmpty, RestingKeeps DEF Init, IInv

\* No directory and no git-common-dir is ever bound to two projects, however many commands
\* run at the same time: the validation that precedes each write never has to refuse one.
THEOREM BindingsStayExclusive == Spec => []BindingsExclusive
<1>1. IInv => BindingsExclusive
  BY DEF IInv, Sound, Apart, BindingsExclusive
<1>. QED  BY <1>1, InitKeeps, NextKeeps, PTL DEF Spec

--------------------------------------------------------------------------------
(* Notes. *)

LEMMA StepKeepsNotes ==
  ASSUME TypeOK, [Next]_vars, NEW i \in Ids, roots[i] = "notes" PROVE roots'[i] = "notes"
<1>1. ASSUME NEW p \in Procs, MakeRoots(p) \/ UNCHANGED roots PROVE roots'[i] = "notes"
  BY <1>1 DEF MakeRoots
<1>2. ASSUME NEW p \in Procs, Prune(p) PROVE roots'[i] = "notes"
  BY <1>2 DEF Prune, TypeOK
<1>3. ASSUME NEW j \in Ids, WriteNote(j) PROVE roots'[i] = "notes"
  BY <1>3 DEF WriteNote, TypeOK
<1>4. ASSUME NEW p \in Procs, Command(p) PROVE roots'[i] = "notes"
  BY <1>1, <1>2, <1>4 DEF Command, Capture, UseBound, AddWorktree, MoveBindings, Refuse,
     Create, Reconcile, Reindex, Status, Unbind, RestoreRegistry, RestoreConfig,
     SaveBindings, disk
<1>5. ASSUME NEW p \in Procs, Failure(p) PROVE roots'[i] = "notes"
  BY <1>1, <1>5 DEF Failure, RegisterFails, ReconcileFails, ReindexFails, StatusFails,
     UnbindFails, RestoreFails, Crash, disk
<1>6. CASE UNCHANGED vars
  BY <1>6 DEF vars
<1>. QED
  BY <1>3, <1>4, <1>5, <1>6 DEF Next, Start, Move, disk

\* No registration and no rollback of one removes a directory with notes.
THEOREM NotesAreKept == Spec => NotesKept
<1>1. TypeOK /\ [Next]_vars => [\A i \in Ids : roots[i] = "notes" => roots'[i] = "notes"]_vars
  BY StepKeepsNotes
<1>. QED  BY <1>1, TypeCorrect, PTL DEF Spec, NotesKept

--------------------------------------------------------------------------------
(* What a success and a rollback report are true of one command after another.  Commands
   that overlap overwrite each other's registry, so these facts need a single process; it
   may still fail, be killed and start again anywhere.  The invariant follows one command:
   the registry in memory is the one in the file until it is taken back, and the snapshot
   is the registry as it was. *)

Alone == \A p, q \in Procs : p = q

\* Every repository that is known has a record that carries one of its remotes.
Knows(set) ==
  \A t \in Repos : known[t] # 0 =>
    \E r \in set : r.id = known[t] /\ r.remotes \cap RemotesOf[t] # {}

Going == {"reconcile", "sync", "reindex", "status"}
Undone == {"restoreconfig", "prune"}

Current(p) ==
  /\ proc[p].pc \in {"capture", "register"} =>
       /\ proc[p].reg = registry
       /\ ~proc[p].created /\ ~proc[p].undoing /\ ~proc[p].broken
  /\ proc[p].pc \in Going /\ ~proc[p].undoing =>
       proc[p].reg = registry /\ proc[p].id \in Names(registry)

\* The snapshot knows what was known, and its two copies name the same projects.
Captured(p) ==
  /\ proc[p].pc \notin Ended \cup {"capture"} =>
       /\ Knows(proc[p].snap.registry)
       /\ Names(proc[p].snap.projects) = Names(proc[p].snap.registry)
  /\ proc[p].pc = "register" => proc[p].snap.registry = registry

\* How far the registration has been taken back.
TakenBack(p) ==
  /\ proc[p].undoing => ~proc[p].created
  /\ proc[p].created => proc[p].id \in Ids
  /\ proc[p].pc \in Undone \/ (proc[p].undoing /\ proc[p].pc \in Going) =>
       registry = proc[p].snap.registry
  /\ proc[p].pc \in {"restore"} \cup Undone /\ proc[p].created /\ ~proc[p].broken =>
       proc[p].id \notin runtime
  /\ proc[p].pc = "prune" =>
       proc[p].created /\ ~proc[p].broken /\ config = proc[p].snap.config

\* What the backend has been brought to.
Reconciled(p) ==
  proc[p].pc \in {"reindex", "status"} =>
    config = Expected(p) /\ \A i \in Expected(p) : roots[i] # "none"

Ready(p) ==
  proc[p].pc = "done" =>
    /\ proc[p].id \in Names(registry)
    /\ config = Names(registry)
    /\ Names(registry) \subseteq runtime
    /\ \A i \in Names(registry) : roots[i] # "none"

Exact(p) ==
  proc[p].pc = "rolledback" =>
    /\ registry = proc[p].snap.registry
    /\ IF proc[p].created
       THEN /\ config = proc[p].snap.config
            /\ proc[p].id \notin runtime
            /\ roots[proc[p].id] = "empty" => proc[p].id \in proc[p].snap.roots
       ELSE /\ config = Names(registry)
            /\ Names(registry) \subseteq runtime

Course(p) ==
  Current(p) /\ Captured(p) /\ TakenBack(p) /\ Reconciled(p) /\ Ready(p) /\ Exact(p)

AInv ==
  /\ IInv
  /\ Knows(registry)
  /\ \A p \in Procs : Course(p)

LEMMA AInvInit == Init => AInv
<1>. SUFFICES ASSUME Init PROVE AInv
  OBVIOUS
<1>1. \A p \in Procs : proc[p] = Resting
  BY DEF Init
<1>2. \A p \in Procs : proc[p].pc = "idle" /\ ~proc[p].created /\ ~proc[p].undoing
  BY <1>1 DEF Resting
<1>3. \A p \in Procs : Course(p)
  BY <1>2 DEF Course, Current, Captured, TakenBack, Reconciled, Ready, Exact, Going, Undone, Ended
<1>4. Knows(registry)
  BY DEF Init, Knows
<1>. QED
  BY <1>3, <1>4, InitKeeps DEF AInv

\* With one process, only its own course is to be followed.
LEMMA CourseStep ==
  ASSUME Alone, AInv, IInv', NEW p \in Procs, Knows(registry)', Course(p)'
  PROVE  AInv'
<1>1. \A q \in Procs : q = p
  BY DEF Alone
<1>. QED
  BY <1>1 DEF AInv

\* Only the stage of the process changes.
SameBut(p, stage) ==
  /\ proc'[p].pc = stage
  /\ proc'[p].target = proc[p].target /\ proc'[p].reg = proc[p].reg
  /\ proc'[p].snap = proc[p].snap /\ proc'[p].id = proc[p].id
  /\ proc'[p].created = proc[p].created /\ proc'[p].mutated = proc[p].mutated
  /\ proc'[p].undoing = proc[p].undoing /\ proc'[p].broken = proc[p].broken

LEMMA BecomesSame ==
  ASSUME TypeOK, NEW p \in Procs, NEW stage, Becomes(p, stage)
  PROVE  SameBut(p, stage)
<1>1. proc[p] \in ProcStates /\ proc'[p] = [proc[p] EXCEPT !.pc = stage]
  BY DEF TypeOK, Becomes
<1>. QED
  BY <1>1 DEF ProcStates, SameBut

LEMMA ExpectedSame ==
  ASSUME NEW p \in Procs, NEW stage, SameBut(p, stage) PROVE Expected(p)' = Expected(p)
BY DEF SameBut, Expected, Names

\* A registry that keeps its records, perhaps with more remotes, knows as much.
LEMMA KnowsGrows ==
  ASSUME NEW set, NEW more, Knows(set),
         \A r \in set : \E q \in more : q.id = r.id /\ r.remotes \subseteq q.remotes
  PROVE  Knows(more)
BY DEF Knows

\* A command that ends without a report, in whatever state the backend is.
LEMMA EndsCourse ==
  ASSUME AInv, NEW p \in Procs, NEW stage \in {"refused", "failed", "incomplete"},
         SameBut(p, stage), UNCHANGED <<registry, known>>
  PROVE  Knows(registry)' /\ Course(p)'
<1>1. Knows(registry)'
  BY DEF AInv, Knows
<1>2. Current(p)' /\ Captured(p)' /\ Reconciled(p)' /\ Ready(p)' /\ Exact(p)'
  BY DEF SameBut, Current, Captured, Reconciled, Ready, Exact, Going, Ended
<1>3. TakenBack(p)'
  BY DEF AInv, Course, SameBut, TakenBack, Going, Undone
<1>. QED
  BY <1>1, <1>2, <1>3 DEF Course

\* A failure of the backend sends the command into the right rollback.
LEMMA FailsCourse ==
  ASSUME AInv, NEW p \in Procs, proc[p].pc \in Going,
         SameBut(p, AfterFailure(p)), UNCHANGED <<registry, known>>
  PROVE  Knows(registry)' /\ Course(p)'
<1>1. AfterFailure(p) \in {"incomplete", "failed", "unbind", "restore"}
  BY DEF AfterFailure
<1>2. CASE AfterFailure(p) \in {"incomplete", "failed"}
  BY <1>2, EndsCourse
<1>3. CASE AfterFailure(p) \in {"unbind", "restore"}
  <2>1. AfterFailure(p) = "restore" => ~proc[p].created
    BY DEF AfterFailure
  <2>2. Knows(registry)'
    BY DEF AInv, Knows
  <2>3. Captured(p)'
    <3>1. Knows(proc[p].snap.registry) /\ Names(proc[p].snap.projects) = Names(proc[p].snap.registry)
      BY DEF AInv, Course, Captured, Going, Ended
    <3>. QED  BY <1>3, <3>1 DEF SameBut, Captured, Knows, Names
  <2>4. Current(p)' /\ Reconciled(p)' /\ Ready(p)' /\ Exact(p)'
    BY <1>3 DEF SameBut, Current, Reconciled, Ready, Exact, Going
  <2>5. TakenBack(p)'
    BY <1>3, <2>1 DEF AInv, Course, SameBut, TakenBack, Going, Undone
  <2>. QED  BY <2>2, <2>3, <2>4, <2>5 DEF Course
<1>. QED
  BY <1>1, <1>2, <1>3

\* Bindings added to a record of the registry.
LEMMA SaveCourse ==
  ASSUME AInv, NEW p \in Procs, proc[p].pc = "register", NEW r \in proc[p].reg, NEW bound,
         bound.id = r.id, r.remotes \subseteq bound.remotes, SaveBindings(p, r, bound)
  PROVE  Knows(registry)' /\ Course(p)'
<1>. DEFINE after == (registry \ {r}) \cup {bound}
<1>1. /\ proc[p] \in ProcStates /\ proc[p].reg = registry
      /\ ~proc[p].created /\ ~proc[p].undoing /\ ~proc[p].broken
      /\ proc[p].snap.registry = registry /\ proc[p].snap.projects = registry
  BY DEF AInv, IInv, TypeOK, Course, Current, Captured, Aliased
<1>2. proc'[p] = [proc[p] EXCEPT !.reg = after,
                     !.snap = [proc[p].snap EXCEPT !.projects = after],
                     !.id = r.id, !.mutated = TRUE, !.pc = "reconcile"]
  BY <1>1 DEF AInv, IInv, TypeOK, SaveBindings
<1>3. /\ proc'[p].reg = after /\ proc'[p].snap.projects = after
      /\ proc'[p].snap.registry = registry /\ proc'[p].pc = "reconcile" /\ proc'[p].id = r.id
      /\ ~proc'[p].created /\ ~proc'[p].undoing
  <2>. HIDE DEF after
  <2>. QED  BY <1>1, <1>2 DEF ProcStates, Snaps
<1>4. registry' = after /\ known' = known
  BY <1>1 DEF SaveBindings
<1>5. Names(after) = Names(registry) /\ r.id \in Names(after)
  BY <1>1 DEF Names
<1>6. Knows(registry) /\ Knows(after)
  <2>1. \A q \in registry : \E q2 \in after : q2.id = q.id /\ q.remotes \subseteq q2.remotes
    OBVIOUS
  <2>2. Knows(registry)
    BY DEF AInv
  <2>. QED  BY <2>1, <2>2, KnowsGrows
<1>. HIDE DEF after
<1>7. Knows(registry)'
  BY <1>4, <1>6 DEF Knows
<1>8. Current(p)'
  BY <1>3, <1>4, <1>5 DEF Current, Names, Going
<1>9. Captured(p)'
  BY <1>3, <1>4, <1>5, <1>6 DEF Captured, Knows, Names
<1>10. TakenBack(p)' /\ Reconciled(p)' /\ Ready(p)' /\ Exact(p)'
  BY <1>3 DEF TakenBack, Reconciled, Ready, Exact, Going, Undone
<1>. QED
  BY <1>7, <1>8, <1>9, <1>10 DEF Course

LEMMA AddWorktreeCourse ==
  ASSUME AInv, NEW p \in Procs, AddWorktree(p) PROVE Knows(registry)' /\ Course(p)'
<1>. DEFINE t == proc[p].target
            new(r) == [r EXCEPT !.paths = @ \cup {at[t]}, !.remotes = @ \cup RemotesOf[t]]
<1>1. PICK r \in GcdMatches(proc[p].reg, t) : SaveBindings(p, r, new(r))
  BY DEF AddWorktree
<1>2. r \in proc[p].reg /\ r \in Records
  BY DEF GcdMatches, AInv, IInv, TypeOK, ProcStates
<1>3. new(r).id = r.id /\ r.remotes \subseteq new(r).remotes
  BY <1>2 DEF Records
<1>4. proc[p].pc = "register"
  BY DEF AddWorktree
<1>. HIDE DEF new
<1>. QED  BY <1>1, <1>2, <1>3, <1>4, SaveCourse

LEMMA MoveBindingsCourse ==
  ASSUME AInv, NEW p \in Procs, MoveBindings(p) PROVE Knows(registry)' /\ Course(p)'
<1>. DEFINE t == proc[p].target
            new(r) == [r EXCEPT !.paths = {at[t]}, !.gcds = {at[MainOf[t]]},
                                !.remotes = @ \cup RemotesOf[t]]
<1>1. PICK r \in RemoteMatches(proc[p].reg, t) : SaveBindings(p, r, new(r))
  BY DEF MoveBindings
<1>2. r \in proc[p].reg /\ r \in Records
  BY DEF RemoteMatches, AInv, IInv, TypeOK, ProcStates
<1>3. new(r).id = r.id /\ r.remotes \subseteq new(r).remotes
  BY <1>2 DEF Records
<1>4. proc[p].pc = "register"
  BY DEF MoveBindings
<1>. HIDE DEF new
<1>. QED  BY <1>1, <1>2, <1>3, <1>4, SaveCourse

LEMMA CreateCourse ==
  ASSUME AInv, NEW p \in Procs, Create(p) PROVE Knows(registry)' /\ Course(p)'
<1>1. PICK rec : rec = NewRecord(proc[p].target, issued + 1)
  OBVIOUS
<1>2. rec.id = issued + 1 /\ issued + 1 \in Ids
  <2>1. rec.id = issued + 1
    BY <1>1 DEF NewRecord
  <2>2. issued \in 0..MaxProjects /\ issued < MaxProjects
    BY DEF Create, AInv, IInv, TypeOK
  <2>3. issued + 1 \in 1..MaxProjects
    BY <2>2, BoundsAssumption
  <2>. QED
    BY <2>1, <2>3 DEF Ids
<1>3. /\ proc[p] \in ProcStates /\ proc[p].reg = registry /\ ~proc[p].undoing
      /\ Knows(proc[p].snap.registry)
      /\ Names(proc[p].snap.projects) = Names(proc[p].snap.registry)
  BY DEF Create, AInv, IInv, TypeOK, Course, Current, Captured, Ended
<1>4. proc'[p] = [proc[p] EXCEPT !.reg = registry \cup {rec}, !.id = rec.id, !.created = TRUE,
                                 !.mutated = TRUE, !.pc = "reconcile"]
  BY <1>1, <1>3 DEF Create, AInv, IInv, TypeOK
<1>5. /\ proc'[p].reg = registry \cup {rec} /\ proc'[p].id = rec.id /\ proc'[p].created
      /\ ~proc'[p].undoing /\ proc'[p].pc = "reconcile" /\ proc'[p].snap = proc[p].snap
  BY <1>3, <1>4 DEF ProcStates
<1>6. registry' = registry \cup {rec} /\ known' = known
  BY <1>1, <1>3 DEF Create
<1>7. Knows(registry)'
  BY <1>6 DEF AInv, Knows
<1>8. Current(p)'
  BY <1>5, <1>6 DEF Current, Names, Going
<1>9. Captured(p)'
  BY <1>3, <1>5, <1>6 DEF Captured, Knows, Names
<1>10. TakenBack(p)' /\ Reconciled(p)' /\ Ready(p)' /\ Exact(p)'
  BY <1>2, <1>5 DEF TakenBack, Reconciled, Ready, Exact, Going, Undone
<1>. QED
  BY <1>7, <1>8, <1>9, <1>10 DEF Course

LEMMA CaptureCourse ==
  ASSUME AInv, NEW p \in Procs, Capture(p) PROVE Knows(registry)' /\ Course(p)'
<1>1. /\ proc[p] \in ProcStates /\ proc[p].reg = registry
      /\ ~proc[p].created /\ ~proc[p].undoing /\ ~proc[p].broken
  BY DEF Capture, AInv, IInv, TypeOK, Course, Current
<1>2. PICK snap : snap = [registry |-> registry, projects |-> proc[p].reg, config |-> config,
                          roots |-> {i \in Names(proc[p].reg) : roots[i] # "none"}]
  OBVIOUS
<1>3. snap.registry = registry /\ snap.projects = registry
  BY <1>1, <1>2
<1>4. proc'[p] = [proc[p] EXCEPT !.snap = snap, !.pc = "register"]
  BY <1>2 DEF Capture, AInv, IInv, TypeOK
<1>5. /\ proc'[p].pc = "register" /\ proc'[p].snap = snap /\ proc'[p].reg = registry
      /\ ~proc'[p].created /\ ~proc'[p].undoing /\ ~proc'[p].broken
  BY <1>1, <1>4 DEF ProcStates
<1>6. registry' = registry /\ known' = known
  BY DEF Capture, disk
<1>7. Knows(registry)'
  BY <1>6 DEF AInv, Knows
<1>8. Captured(p)'
  BY <1>3, <1>5, <1>6 DEF AInv, Captured, Knows
<1>9. Current(p)' /\ TakenBack(p)' /\ Reconciled(p)' /\ Ready(p)' /\ Exact(p)'
  BY <1>5, <1>6 DEF Current, TakenBack, Reconciled, Ready, Exact, Going, Undone
<1>. QED
  BY <1>7, <1>8, <1>9 DEF Course

LEMMA UseBoundCourse ==
  ASSUME AInv, NEW p \in Procs, UseBound(p) PROVE Knows(registry)' /\ Course(p)'
<1>1. PICK r \in proc[p].reg : proc' = [proc EXCEPT ![p].id = r.id, ![p].pc = "reconcile"]
  BY DEF UseBound, PathMatches
<1>2. /\ proc[p] \in ProcStates /\ proc[p].reg = registry /\ ~proc[p].created
      /\ ~proc[p].undoing /\ Knows(proc[p].snap.registry)
      /\ Names(proc[p].snap.projects) = Names(proc[p].snap.registry)
  BY DEF UseBound, AInv, IInv, TypeOK, Course, Current, Captured, Ended
<1>3. /\ proc'[p].reg = registry /\ proc'[p].id = r.id /\ ~proc'[p].created
      /\ ~proc'[p].undoing /\ proc'[p].pc = "reconcile" /\ proc'[p].snap = proc[p].snap
  BY <1>1, <1>2 DEF AInv, IInv, TypeOK, ProcStates
<1>4. registry' = registry /\ known' = known
  BY DEF UseBound, disk
<1>5. Knows(registry)'
  BY <1>4 DEF AInv, Knows
<1>6. Current(p)'
  BY <1>1, <1>2, <1>3, <1>4 DEF Current, Names, Going
<1>7. Captured(p)'
  BY <1>2, <1>3, <1>4 DEF Captured, Knows, Names
<1>8. TakenBack(p)' /\ Reconciled(p)' /\ Ready(p)' /\ Exact(p)'
  BY <1>3 DEF TakenBack, Reconciled, Ready, Exact, Going, Undone
<1>. QED
  BY <1>5, <1>6, <1>7, <1>8 DEF Course

LEMMA ReconcileCourse ==
  ASSUME AInv, NEW p \in Procs, Reconcile(p) PROVE Knows(registry)' /\ Course(p)'
<1>1. PICK stage \in {"sync", "reindex"} : Becomes(p, stage)
  BY DEF Reconcile
<1>2. SameBut(p, stage)
  BY <1>1, BecomesSame DEF AInv, IInv
<1>3. registry' = registry /\ known' = known /\ runtime' = runtime /\ proc[p].pc \in Going
  BY DEF Reconcile, Going
<1>4. Expected(p)' = Expected(p) /\ Expected(p) \subseteq Ids
  BY <1>2, ExpectedSame, ExpectedTyped DEF AInv, IInv
<1>5. config' = Expected(p) /\ \A i \in Expected(p) : roots'[i] # "none"
  BY <1>4 DEF Reconcile, MakeRoots
<1>6. Knows(registry)'
  BY <1>3 DEF AInv, Knows
<1>7. Current(p)'
  BY <1>1, <1>2, <1>3 DEF AInv, Course, SameBut, Current, Going
<1>8. Captured(p)'
  <2>1. Knows(proc[p].snap.registry) /\ Names(proc[p].snap.projects) = Names(proc[p].snap.registry)
    BY <1>3 DEF AInv, Course, Captured, Going, Ended
  <2>. QED  BY <1>1, <1>2, <1>3, <2>1 DEF SameBut, Captured, Knows, Names
<1>9. TakenBack(p)'
  BY <1>1, <1>2, <1>3 DEF AInv, Course, SameBut, TakenBack, Going, Undone
<1>10. Reconciled(p)'
  BY <1>4, <1>5 DEF Reconciled
<1>11. Ready(p)' /\ Exact(p)'
  BY <1>1, <1>2 DEF SameBut, Ready, Exact
<1>. QED
  BY <1>6, <1>7, <1>8, <1>9, <1>10, <1>11 DEF Course

LEMMA ReindexCourse ==
  ASSUME AInv, NEW p \in Procs, Reindex(p) PROVE Knows(registry)' /\ Course(p)'
<1>1. /\ proc[p].pc = "reindex" /\ UNCHANGED <<registry, config, roots, known>>
      /\ Becomes(p, "status") \/ Becomes(p, AfterFailure(p))
  BY DEF Reindex
<1>2. CASE Becomes(p, AfterFailure(p))
  <2>1. SameBut(p, AfterFailure(p))
    BY <1>2, BecomesSame DEF AInv, IInv
  <2>. QED  BY <1>1, <2>1, FailsCourse DEF Going
<1>3. CASE Becomes(p, "status")
  <2>1. SameBut(p, "status")
    BY <1>3, BecomesSame DEF AInv, IInv
  <2>2. Expected(p)' = Expected(p)
    BY <2>1, ExpectedSame
  <2>3. Knows(registry)'
    BY <1>1 DEF AInv, Knows
  <2>4. Current(p)'
    BY <1>1, <2>1 DEF AInv, Course, SameBut, Current, Going
  <2>5. Captured(p)'
    <3>1. Knows(proc[p].snap.registry) /\ Names(proc[p].snap.projects) = Names(proc[p].snap.registry)
      BY <1>1 DEF AInv, Course, Captured, Going, Ended
    <3>. QED  BY <1>1, <2>1, <3>1 DEF SameBut, Captured, Knows, Names
  <2>6. TakenBack(p)'
    BY <1>1, <2>1 DEF AInv, Course, SameBut, TakenBack, Going, Undone
  <2>7. Reconciled(p)'
    BY <1>1, <2>2 DEF AInv, Course, Reconciled
  <2>8. Ready(p)' /\ Exact(p)'
    BY <2>1 DEF SameBut, Ready, Exact
  <2>. QED  BY <2>3, <2>4, <2>5, <2>6, <2>7, <2>8 DEF Course
<1>. QED
  BY <1>1, <1>2, <1>3

\* The report: success, a finished rollback, or one more failure.
LEMMA StatusCourse ==
  ASSUME AInv, NEW p \in Procs, Status(p) PROVE Knows(registry)' /\ Course(p)'
<1>1. proc[p].pc = "status" /\ UNCHANGED <<registry, config, runtime, roots>>
  BY DEF Status, disk
<1>2. CASE ~(Expected(p) \subseteq runtime)
  <2>1. SameBut(p, AfterFailure(p)) /\ known' = known
    BY <1>2, BecomesSame DEF Status, AInv, IInv
  <2>. QED  BY <1>1, <2>1, FailsCourse DEF Going
<1>3. CASE Expected(p) \subseteq runtime
  <2>. DEFINE stage == IF proc[p].undoing THEN "rolledback" ELSE "done"
  <2>1. SameBut(p, stage) /\ known' = Remember(p)
    BY <1>3, BecomesSame DEF Status, AInv, IInv
  <2>2. config = Expected(p) /\ \A i \in Expected(p) : roots[i] # "none"
    BY <1>1 DEF AInv, Course, Reconciled
  <2>3. proc[p] \in ProcStates
    BY DEF AInv, IInv, TypeOK
  <2>4. CASE proc[p].undoing
    <3>1. /\ ~proc[p].created /\ registry = proc[p].snap.registry
          /\ Names(proc[p].snap.projects) = Names(proc[p].snap.registry)
      BY <1>1, <2>4 DEF AInv, Course, TakenBack, Captured, Going, Ended
    <3>2. Expected(p) = Names(registry)
      BY <2>4, <3>1 DEF Expected
    <3>3. known' = known
      BY <2>1, <2>4 DEF Remember
    <3>4. Knows(registry)'
      BY <1>1, <3>3 DEF AInv, Knows
    <3>5. Exact(p)'
      BY <1>1, <1>3, <2>1, <2>2, <2>4, <3>1, <3>2 DEF SameBut, Exact, Names
    <3>6. Current(p)' /\ Captured(p)' /\ Reconciled(p)' /\ Ready(p)' /\ TakenBack(p)'
      BY <2>1, <2>4, <3>1
      DEF SameBut, Current, Captured, Reconciled, Ready, TakenBack, Going, Undone, Ended
    <3>. QED  BY <3>4, <3>5, <3>6 DEF Course
  <2>5. CASE ~proc[p].undoing
    <3>1. proc[p].reg = registry /\ proc[p].id \in Names(registry) /\ proc[p].id \in 0..MaxProjects
      BY <1>1, <2>3, <2>5 DEF AInv, Course, Current, Going, ProcStates
    <3>2. Expected(p) = Names(registry)
      BY <2>5, <3>1 DEF Expected
    <3>3. Knows(registry)'
      BY <1>1, <2>1, <3>1 DEF AInv, IInv, TypeOK, Knows, Remember
    <3>4. Ready(p)'
      BY <1>1, <1>3, <2>1, <2>2, <2>5, <3>1, <3>2 DEF SameBut, Ready, Names
    <3>5. Current(p)' /\ Captured(p)' /\ Reconciled(p)' /\ Exact(p)'
      BY <2>1, <2>5 DEF SameBut, Current, Captured, Reconciled, Exact, Going, Ended
    <3>6. TakenBack(p)'
      BY <2>1, <2>5 DEF AInv, Course, SameBut, TakenBack, Going, Undone
    <3>. QED  BY <3>3, <3>4, <3>5, <3>6 DEF Course
  <2>. QED  BY <2>4, <2>5
<1>. QED
  BY <1>2, <1>3

\* Past the unbinding, whether it worked or not, the snapshot is still to be restored.
LEMMA UnbindCourse ==
  ASSUME AInv, NEW p \in Procs, Unbind(p) \/ UnbindFails(p)
  PROVE  Knows(registry)' /\ Course(p)'
<1>1. /\ proc[p].pc = "unbind" /\ proc[p] \in ProcStates
      /\ UNCHANGED <<registry, known>>
  BY DEF Unbind, UnbindFails, AInv, IInv, TypeOK
<1>2. /\ proc'[p].pc = "restore" /\ proc'[p].snap = proc[p].snap /\ proc'[p].id = proc[p].id
      /\ proc'[p].created = proc[p].created /\ proc'[p].undoing = proc[p].undoing
      /\ proc'[p].broken \/ (Unbind(p) /\ proc'[p].broken = proc[p].broken)
  <2>1. CASE Unbind(p)
    BY <2>1, BecomesSame DEF Unbind, AInv, IInv, SameBut
  <2>2. CASE UnbindFails(p)
    <3>1. proc'[p] = [proc[p] EXCEPT !.broken = TRUE, !.pc = "restore"]
      BY <2>2 DEF UnbindFails, AInv, IInv, TypeOK
    <3>. QED  BY <1>1, <3>1 DEF ProcStates
  <2>. QED  BY <2>1, <2>2
<1>3. Knows(registry)'
  BY <1>1 DEF AInv, Knows
<1>4. Captured(p)'
  <2>1. Knows(proc[p].snap.registry) /\ Names(proc[p].snap.projects) = Names(proc[p].snap.registry)
    BY <1>1 DEF AInv, Course, Captured, Ended
  <2>. QED  BY <1>1, <1>2, <2>1 DEF Captured, Knows, Names
<1>5. TakenBack(p)'
  <2>1. proc[p].id \notin runtime' \/ proc'[p].broken
    BY <1>2 DEF Unbind
  <2>. QED  BY <1>1, <1>2, <2>1 DEF AInv, Course, TakenBack, Undone, Going
<1>6. Current(p)' /\ Reconciled(p)' /\ Ready(p)' /\ Exact(p)'
  BY <1>2 DEF Current, Reconciled, Ready, Exact, Going
<1>. QED
  BY <1>3, <1>4, <1>5, <1>6 DEF Course

LEMMA RestoreRegistryCourse ==
  ASSUME AInv, NEW p \in Procs, RestoreRegistry(p) PROVE Knows(registry)' /\ Course(p)'
<1>1. /\ proc[p].pc = "restore" /\ registry' = proc[p].snap.registry
      /\ UNCHANGED <<config, runtime, roots, known>>
  BY DEF RestoreRegistry
<1>2. SameBut(p, "restoreconfig")
  BY BecomesSame DEF RestoreRegistry, AInv, IInv
<1>3. Knows(proc[p].snap.registry) /\ Names(proc[p].snap.projects) = Names(proc[p].snap.registry)
  BY <1>1 DEF AInv, Course, Captured, Ended
<1>4. Knows(registry)'
  BY <1>1, <1>3 DEF Knows
<1>5. Captured(p)'
  BY <1>1, <1>2, <1>3 DEF SameBut, Captured, Knows, Names
<1>6. TakenBack(p)'
  BY <1>1, <1>2 DEF AInv, Course, SameBut, TakenBack, Undone, Going
<1>7. Current(p)' /\ Reconciled(p)' /\ Ready(p)' /\ Exact(p)'
  BY <1>2 DEF SameBut, Current, Reconciled, Ready, Exact, Going
<1>. QED
  BY <1>4, <1>5, <1>6, <1>7 DEF Course

\* With both files back, a new project's directory may go, and a binding update is
\* reconciled once more.
LEMMA RestoreConfigCourse ==
  ASSUME AInv, NEW p \in Procs, RestoreConfig(p) PROVE Knows(registry)' /\ Course(p)'
<1>. DEFINE stage == IF proc[p].created /\ ~proc[p].broken /\ proc[p].id \notin proc[p].snap.roots
                     THEN "prune" ELSE Concluded(p)
<1>1. /\ proc[p].pc = "restoreconfig" /\ config' = proc[p].snap.config
      /\ UNCHANGED <<registry, runtime, roots, known>>
  BY DEF RestoreConfig
<1>2. proc[p] \in ProcStates
  BY DEF AInv, IInv, TypeOK
<1>3. proc'[p] = [proc[p] EXCEPT !.reg = proc[p].snap.projects, !.undoing = ~proc[p].created,
                                 !.pc = stage]
  BY DEF RestoreConfig, AInv, IInv, TypeOK
<1>4. /\ proc'[p].pc = stage /\ proc'[p].reg = proc[p].snap.projects
      /\ proc'[p].snap = proc[p].snap /\ proc'[p].id = proc[p].id
      /\ proc'[p].created = proc[p].created /\ proc'[p].broken = proc[p].broken
      /\ proc'[p].undoing = ~proc[p].created
  <2>. HIDE DEF stage
  <2>. QED  BY <1>2, <1>3 DEF ProcStates
<1>5. /\ Knows(proc[p].snap.registry)
      /\ Names(proc[p].snap.projects) = Names(proc[p].snap.registry)
      /\ registry = proc[p].snap.registry
      /\ proc[p].created => proc[p].id \in Ids
      /\ proc[p].created /\ ~proc[p].broken => proc[p].id \notin runtime
  BY <1>1 DEF AInv, Course, Captured, TakenBack, Undone, Ended
<1>6. /\ stage \in {"prune", "sync", "incomplete", "rolledback"}
      /\ stage = "prune" => proc[p].created /\ ~proc[p].broken
      /\ stage = "sync" => ~proc[p].created
      /\ stage = "rolledback" =>
           proc[p].created /\ ~proc[p].broken /\ proc[p].id \in proc[p].snap.roots
  BY DEF Concluded
<1>. HIDE DEF stage
<1>7. Knows(registry)'
  BY <1>1 DEF AInv, Knows
<1>8. Captured(p)'
  BY <1>1, <1>4, <1>5, <1>6 DEF Captured, Knows, Names
<1>9. TakenBack(p)'
  BY <1>1, <1>4, <1>5, <1>6 DEF TakenBack, Undone, Going
<1>10. Current(p)' /\ Reconciled(p)' /\ Ready(p)'
  BY <1>4, <1>6 DEF Current, Reconciled, Ready, Going
<1>11. Exact(p)'
  BY <1>1, <1>4, <1>5, <1>6 DEF Exact
<1>. QED
  BY <1>7, <1>8, <1>9, <1>10, <1>11 DEF Course

LEMMA PruneCourse ==
  ASSUME AInv, NEW p \in Procs, Prune(p) PROVE Knows(registry)' /\ Course(p)'
<1>1. /\ proc[p].pc = "prune" /\ UNCHANGED <<registry, config, runtime, known>>
      /\ roots' = [roots EXCEPT ![proc[p].id] = IF @ = "empty" THEN "none" ELSE @]
  BY DEF Prune
<1>2. /\ registry = proc[p].snap.registry /\ config = proc[p].snap.config
      /\ proc[p].created /\ ~proc[p].broken /\ ~proc[p].undoing
      /\ proc[p].id \in Ids /\ proc[p].id \notin runtime
  BY <1>1 DEF AInv, IInv, TypeOK, ProcStates, Course, TakenBack, Undone
<1>3. SameBut(p, "rolledback")
  <2>1. Concluded(p) = "rolledback"
    BY <1>2 DEF Concluded
  <2>. QED  BY <2>1, BecomesSame DEF Prune, AInv, IInv
<1>4. roots'[proc[p].id] # "empty"
  BY <1>1, <1>2 DEF AInv, IInv, TypeOK
<1>5. Knows(registry)'
  BY <1>1 DEF AInv, Knows
<1>6. Exact(p)'
  BY <1>1, <1>2, <1>3, <1>4 DEF SameBut, Exact
<1>7. TakenBack(p)'
  BY <1>2, <1>3 DEF SameBut, TakenBack, Undone, Going
<1>8. Current(p)' /\ Captured(p)' /\ Reconciled(p)' /\ Ready(p)'
  BY <1>3 DEF SameBut, Current, Captured, Reconciled, Ready, Going, Ended
<1>. QED
  BY <1>5, <1>6, <1>7, <1>8 DEF Course

LEMMA CommandCourse ==
  ASSUME AInv, NEW p \in Procs, Command(p) PROVE Knows(registry)' /\ Course(p)'
<1>1. CASE Refuse(p)
  BY <1>1, BecomesSame, EndsCourse DEF Refuse, disk, AInv, IInv
<1>. QED
  BY <1>1, CaptureCourse, UseBoundCourse, AddWorktreeCourse, MoveBindingsCourse, CreateCourse,
     ReconcileCourse, ReindexCourse, StatusCourse, UnbindCourse, RestoreRegistryCourse,
     RestoreConfigCourse, PruneCourse DEF Command

\* A process that is given up, or starts again, promises nothing yet.
LEMMA RestingCourse ==
  ASSUME AInv, NEW p \in Procs, NEW stage \in {"idle", "capture"}, UNCHANGED <<registry, known>>,
         proc'[p].pc = stage, stage = "capture" => proc'[p].reg = registry,
         ~proc'[p].created, ~proc'[p].undoing, ~proc'[p].broken
  PROVE  Knows(registry)' /\ Course(p)'
<1>1. Knows(registry)'
  BY DEF AInv, Knows
<1>2. Current(p)' /\ Captured(p)' /\ TakenBack(p)' /\ Reconciled(p)' /\ Ready(p)' /\ Exact(p)'
  BY DEF Current, Captured, TakenBack, Reconciled, Ready, Exact, Going, Undone, Ended
<1>. QED
  BY <1>1, <1>2 DEF Course

LEMMA FailureCourse ==
  ASSUME AInv, NEW p \in Procs, Failure(p) PROVE Knows(registry)' /\ Course(p)'
<1>. USE DEF disk
<1>1. CASE RegisterFails(p)
  BY <1>1, BecomesSame, EndsCourse DEF RegisterFails, AInv, IInv
<1>2. CASE ReconcileFails(p)
  <2>1. UNCHANGED <<registry, known>> /\ proc[p].pc \in Going
    BY <1>2 DEF ReconcileFails, Going
  <2>2. SameBut(p, "failed") \/ SameBut(p, AfterFailure(p))
    BY <1>2, BecomesSame DEF ReconcileFails, AInv, IInv
  <2>. QED  BY <2>1, <2>2, EndsCourse, FailsCourse
<1>3. CASE ReindexFails(p)
  BY <1>3, BecomesSame, FailsCourse DEF ReindexFails, AInv, IInv, Going
<1>4. CASE StatusFails(p)
  BY <1>4, BecomesSame, FailsCourse DEF StatusFails, AInv, IInv, Going
<1>5. CASE UnbindFails(p)
  BY <1>5, UnbindCourse
<1>6. CASE RestoreFails(p)
  BY <1>6, BecomesSame, EndsCourse DEF RestoreFails, AInv, IInv
<1>7. CASE Crash(p)
  <2>1. proc'[p] = Resting /\ UNCHANGED <<registry, known>>
    BY <1>7 DEF Crash, AInv, IInv, TypeOK
  <2>. QED  BY <2>1, RestingCourse DEF Resting
<1>. QED
  BY <1>1, <1>2, <1>3, <1>4, <1>5, <1>6, <1>7 DEF Failure

LEMMA AInvStep == ASSUME Alone PROVE AInv /\ [Next]_vars => AInv'
<1>. SUFFICES ASSUME AInv, [Next]_vars PROVE AInv'
  OBVIOUS
<1>1. IInv'
  BY NextKeeps DEF AInv
<1>2. ASSUME NEW p \in Procs, NEW t \in Targets, Start(p, t) PROVE AInv'
  <2>1. proc'[p] = [Resting EXCEPT !.pc = "capture", !.target = t, !.reg = registry]
    BY <1>2 DEF Start, AInv, IInv, TypeOK
  <2>2. /\ proc'[p].pc = "capture" /\ proc'[p].reg = registry
        /\ ~proc'[p].created /\ ~proc'[p].undoing /\ ~proc'[p].broken
    BY <2>1 DEF Resting
  <2>3. UNCHANGED <<registry, known>>
    BY <1>2 DEF Start, disk
  <2>. QED  BY <1>1, <2>2, <2>3, RestingCourse, CourseStep
<1>3. ASSUME NEW p \in Procs, Command(p) PROVE AInv'
  BY <1>1, <1>3, CommandCourse, CourseStep
<1>4. ASSUME NEW p \in Procs, Failure(p) PROVE AInv'
  BY <1>1, <1>4, FailureCourse, CourseStep
<1>5. CASE UNCHANGED <<disk, proc, known>>
  <2>1. Knows(registry)'
    BY <1>5 DEF AInv, Knows, disk
  <2>2. ASSUME NEW p \in Procs PROVE Course(p)'
    <3>1. Course(p)
      BY DEF AInv
    <3>2. Expected(p)' = Expected(p) /\ proc'[p] = proc[p]
      BY <1>5 DEF Expected, Names
    <3>3. Captured(p)'
      BY <1>5, <3>1, <3>2 DEF Course, Captured, Knows, Names, disk
    <3>. QED
      BY <1>5, <3>1, <3>2, <3>3
      DEF Course, Current, TakenBack, Reconciled, Ready, Exact, Names, disk
  <2>. QED  BY <1>1, <2>1, <2>2 DEF AInv
<1>6. ASSUME NEW i \in Ids, WriteNote(i) PROVE AInv'
  <2>1. /\ UNCHANGED <<registry, config, runtime, proc, known>>
        /\ roots' = [roots EXCEPT ![i] = "notes"]
    BY <1>6 DEF WriteNote
  <2>2. Knows(registry)'
    BY <2>1 DEF AInv, Knows
  <2>3. ASSUME NEW p \in Procs PROVE Course(p)'
    <3>1. Course(p) /\ proc[p] \in ProcStates
      BY DEF AInv, IInv, TypeOK
    <3>2. Expected(p)' = Expected(p) /\ proc'[p] = proc[p] /\ Names(registry)' = Names(registry)
      BY <2>1 DEF Expected, Names
    <3>3. \A j \in Ids : (roots'[j] = "none" <=> roots[j] = "none")
                         /\ (roots'[j] = "empty" => roots[j] = "empty")
      BY <1>6, <2>1 DEF WriteNote, AInv, IInv, TypeOK
    <3>4. Expected(p) \subseteq Ids /\ Names(registry) \subseteq Ids
      BY ExpectedTyped DEF AInv, IInv, TypeOK, Names, Records
    <3>5. Current(p)' /\ TakenBack(p)'
      BY <2>1, <3>1, <3>2 DEF Course, Current, TakenBack
    <3>6. Captured(p)'
      BY <2>1, <3>1, <3>2 DEF Course, Captured, Knows, Names
    <3>7. Reconciled(p)' /\ Ready(p)'
      BY <2>1, <3>1, <3>2, <3>3, <3>4 DEF Course, Reconciled, Ready
    <3>8. Exact(p)'
      BY <2>1, <3>1, <3>2, <3>3 DEF Course, Exact, TakenBack
    <3>. QED  BY <3>5, <3>6, <3>7, <3>8 DEF Course
  <2>. QED  BY <1>1, <2>2, <2>3 DEF AInv
<1>7. ASSUME NEW s \in Subjects, NEW to \in Places, Move(s, to) PROVE AInv'
  BY <1>5, <1>7 DEF Move
<1>8. CASE UNCHANGED vars
  BY <1>5, <1>8 DEF vars, disk
<1>. QED
  BY <1>2, <1>3, <1>4, <1>6, <1>7, <1>8 DEF Next

THEOREM CourseIsFollowed == ASSUME Alone PROVE Spec => []AInv
<1>. QED  BY AInvInit, AInvStep, PTL DEF Spec

\* One command after another, whatever the earlier ones left behind when they failed or
\* were killed: a reported success means that the file, the configuration, the runtime
\* and the memory directories all agree.
THEOREM SuccessIsReady == ASSUME Alone PROVE Spec => []SuccessMeansReady
<1>1. AInv => SuccessMeansReady
  BY DEF AInv, Course, Ready, SuccessMeansReady
<1>. QED  BY <1>1, CourseIsFollowed, PTL

\* A rollback that reports that it is done has restored the registry exactly and left
\* nothing of a new project in the configuration, the runtime or an empty directory.
THEOREM RollbackIsExact == ASSUME Alone PROVE Spec => []RollbackExact
<1>1. AInv => RollbackExact
  BY DEF AInv, Course, Exact, RollbackExact
<1>. QED  BY <1>1, CourseIsFollowed, PTL

\* A resolution finds the project of a known repository, unless a place it is at is bound
\* to another project.
LEMMA ResolutionKeeps ==
  ASSUME Alone, AInv, [Next]_vars, NEW p \in Procs, proc[p].pc = "register",
         proc'[p].pc = "reconcile", proc[p].target \in Repos, known[proc[p].target] # 0,
         ~Contested(proc[p].reg, proc[p].target, known[proc[p].target])
  PROVE  proc'[p].id = known[proc[p].target]
<1>. DEFINE t == proc[p].target
            k == known[t]
<1>1. PICK mine \in proc[p].reg : mine.id = k /\ mine.remotes \cap RemotesOf[t] # {}
  BY DEF AInv, Course, Current, Knows
<1>2. proc[p] \in ProcStates /\ p \in DOMAIN proc
  BY DEF AInv, IInv, TypeOK
<1>3. ASSUME NEW r \in PathMatches(proc[p].reg, t) \cup GcdMatches(proc[p].reg, t) PROVE r.id = k
  BY DEF PathMatches, GcdMatches, Contested
<1>4. CASE UseBound(p)
  <2>1. PICK r \in PathMatches(proc[p].reg, t) :
          proc' = [proc EXCEPT ![p].id = r.id, ![p].pc = "reconcile"]
    BY <1>4 DEF UseBound
  <2>. QED  BY <1>2, <1>3, <2>1 DEF ProcStates
<1>5. ASSUME NEW r, NEW bound, SaveBindings(p, r, bound) PROVE proc'[p].id = r.id
  BY <1>2, <1>5 DEF SaveBindings, ProcStates
<1>6. CASE AddWorktree(p)
  <2>1. PICK r \in GcdMatches(proc[p].reg, t) : \E bound : SaveBindings(p, r, bound)
    BY <1>6 DEF AddWorktree
  <2>. QED  BY <1>3, <1>5, <2>1
<1>7. CASE MoveBindings(p)
  <2>1. PICK r \in RemoteMatches(proc[p].reg, t) :
          RemoteMatches(proc[p].reg, t) = {r} /\ \E bound : SaveBindings(p, r, bound)
    BY <1>7 DEF MoveBindings
  <2>2. mine = r
    BY <1>1, <2>1 DEF RemoteMatches
  <2>. QED  BY <1>1, <1>5, <2>1, <2>2
<1>8. ~Create(p)
  <2>1. RemoteMatches(proc[p].reg, t) # {}
    BY <1>1 DEF RemoteMatches
  <2>. QED  BY <2>1, LayoutAssumption DEF Create, Unregistered, Subjects
<1>9. UseBound(p) \/ AddWorktree(p) \/ MoveBindings(p) \/ Create(p)
  <2>1. proc' # proc
    OBVIOUS
  <2>2. \/ \E to \in Targets : Start(p, to)
        \/ Command(p) \/ Failure(p)
    BY <2>1 DEF Alone, Next, vars, Move, WriteNote
  <2>3. ~\E to \in Targets : Start(p, to)
    BY DEF Start, Ended
  <2>4. ~Failure(p)
    <3>1. ASSUME NEW stage, Becomes(p, stage) PROVE stage = "reconcile"
      BY <1>2, <3>1, BecomesSame DEF SameBut, AInv, IInv
    <3>2. ~RegisterFails(p) /\ ~RestoreFails(p)
      BY <3>1 DEF RegisterFails, RestoreFails
    <3>3. ~ReconcileFails(p) /\ ~ReindexFails(p) /\ ~StatusFails(p) /\ ~UnbindFails(p)
      BY DEF ReconcileFails, ReindexFails, StatusFails, UnbindFails
    <3>4. ~Crash(p)
      BY <1>2 DEF Crash, Resting, AInv, IInv, TypeOK
    <3>. QED  BY <3>2, <3>3, <3>4 DEF Failure
  <2>5. ~Capture(p) /\ ~Reconcile(p) /\ ~Reindex(p) /\ ~Status(p) /\ ~Unbind(p)
    BY DEF Capture, Reconcile, Reindex, Status, Unbind
  <2>6. ~RestoreRegistry(p) /\ ~RestoreConfig(p) /\ ~Prune(p)
    BY DEF RestoreRegistry, RestoreConfig, Prune
  <2>7. ~Refuse(p)
    BY BecomesSame DEF Refuse, SameBut, AInv, IInv
  <2>. QED  BY <2>2, <2>3, <2>4, <2>5, <2>6, <2>7 DEF Command
<1>. QED
  BY <1>4, <1>6, <1>7, <1>8, <1>9

\* A repository with a remote that was once registered is found again as the same project,
\* after any moves, failed commands and rollbacks, however the checkout is moved about.
THEOREM KnownIsFoundAgain == ASSUME Alone PROVE Spec => KnownRepositoryKeepsItsProject
<1>1. AInv /\ [Next]_vars => [\A p \in Procs :
       LET t == proc[p].target IN
       proc[p].pc = "register" /\ proc'[p].pc = "reconcile" /\ t \in Repos =>
         \/ known[t] = 0 \/ Contested(proc[p].reg, t, known[t])
         \/ proc'[p].id = known[t]]_vars
  BY ResolutionKeeps
<1>. QED
  BY <1>1, AInvInit, AInvStep, PTL DEF Spec, KnownRepositoryKeepsItsProject
=============================================================================
