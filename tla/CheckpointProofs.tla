---------------------------- MODULE CheckpointProofs ----------------------------
(* Type correctness of Checkpoint, what its commands do not do, that it implements
   CurrentState, and that its commands come to an end. *)
EXTENDS Checkpoint, TLAPS

LEMMA InitTyped == Init => TypeOK
BY CheckpointAssumption DEF Init, TypeOK, Notes, Missing, Calls, Resting, Ended, Locked, Times

\* A stage with nothing but a request and a time is a state of a process.
LEMMA EndTyped ==
  ASSUME TypeOK, NEW p \in Procs, call[p].pc \notin Ended, NEW pc \in Ended,
         NEW t \in {0} \cup Times, End(p, pc, t)
  PROVE  /\ call' \in [Procs -> Calls]
         /\ \A q \in Procs : call'[q].pc # "idle" =>
              call'[q].project \in Projects /\ call'[q].payload \in Payloads
<1>1. call[p] \in Calls /\ call[p].project \in Projects /\ call[p].payload \in Payloads
  BY DEF TypeOK, Ended
<1>2. [Resting EXCEPT !.pc = pc, !.project = call[p].project, !.payload = call[p].payload,
                      !.at = t] \in Calls
  BY <1>1, CheckpointAssumption DEF Resting, Calls, Missing, Notes, Ended
<1>. QED
  BY <1>1, <1>2 DEF End, TypeOK, Resting

LEMMA BecomesTyped ==
  ASSUME TypeOK, NEW p \in Procs, call[p].pc \notin Ended,
         NEW pc \in Locked \cup {"lock", "lost"}, Becomes(p, pc)
  PROVE  /\ call' \in [Procs -> Calls]
         /\ \A q \in Procs : call'[q].pc # "idle" =>
              call'[q].project \in Projects /\ call'[q].payload \in Payloads
BY DEF Becomes, TypeOK, Calls, Ended

LEMMA ReleaseTyped ==
  ASSUME TypeOK, NEW p \in Procs, Release(p)
  PROVE  lock' \in [Projects -> Procs \cup {NoProc}]
BY DEF TypeOK, Release

LEMMA TouchedTyped ==
  ASSUME TypeOK, NEW j, NEW p \in Procs
  PROVE  /\ Touched(j, p) \in Calls
         /\ Touched(j, p).pc = call[p].pc /\ Touched(j, p).project = call[p].project
         /\ Touched(j, p).payload = call[p].payload
BY DEF TypeOK, Touched, Calls

LEMMA RenderedTyped ==
  ASSUME NEW x \in Payloads, NEW t \in {0} \cup Times
  PROVE  Rendered(x, t) \in Notes
BY DEF Rendered, Notes

LEMMA StepTyped ==
  ASSUME TypeOK, NEW p \in Procs, Step(p) PROVE TypeOK'
<1>0. /\ call[p] \in Calls /\ call[p].at \in {0} \cup Times /\ call[p].seen \in Notes
      /\ call[p].seen.at \in {0} \cup Times
      /\ clock \in Times
  BY DEF TypeOK, Calls, Notes
<1>1. CASE Plan(p) \/ Contended(p) \/ PlanFails(p)
  BY <1>0, <1>1, BecomesTyped, EndTyped DEF Plan, PlanFails, Contended, TypeOK, Ended
<1>2. CASE Acquire(p)
  <2>1. call[p].project \in Projects
    BY <1>2 DEF Acquire, TypeOK
  <2>. QED
    BY <1>2, <2>1, BecomesTyped DEF Acquire, TypeOK, Ended, Locked
<1>3. CASE Read(p)
  <2>1. note[call[p].project] \in Notes
    BY <1>3 DEF Read, TypeOK
  <2>2. [call[p] EXCEPT !.pc = "decide", !.seen = note[call[p].project], !.touched = FALSE]
          \in Calls
    BY <1>0, <2>1 DEF Calls, Locked
  <2>. QED
    BY <1>3, <2>2 DEF Read, TypeOK
<1>4. CASE ReadFails(p) \/ Skip(p) \/ OverBudget(p) \/ WriteDone(p) \/ WriteFails(p)
  BY <1>0, <1>4, EndTyped, ReleaseTyped
     DEF ReadFails, Skip, OverBudget, WriteDone, WriteFails, TypeOK, Ended
<1>5. CASE StartWrite(p)
  BY <1>0, <1>5 DEF StartWrite, TypeOK, Calls, Locked
<1>6. CASE Store(p)
  <2>1. Rendered(call[p].payload, call[p].at) \in Notes
    BY <1>0, <1>6, RenderedTyped DEF Store, TypeOK
  <2>2. note' \in [Projects -> Notes]
    BY <1>6, <2>1 DEF Store, TypeOK
  <2>. QED
    BY <1>0, <1>6, <2>2 DEF Store, TypeOK, Calls
<1>. QED
  BY <1>1, <1>2, <1>3, <1>4, <1>5, <1>6 DEF Step

LEMMA NextTyped == TypeOK /\ [Next]_vars => TypeOK'
<1>. SUFFICES ASSUME TypeOK, [Next]_vars PROVE TypeOK'
  OBVIOUS
<1>1. ASSUME NEW p \in Procs, NEW j \in Projects, NEW x \in Payloads, NEW fits \in BOOLEAN,
             Request(p, j, x, fits)
      PROVE  TypeOK'
  <2>1. [Resting EXCEPT !.pc = "plan", !.project = j, !.payload = x, !.fits = fits] \in Calls
    BY CheckpointAssumption DEF Resting, Calls, Missing, Notes
  <2>. QED
    BY <1>1, <2>1 DEF Request, TypeOK, Resting
<1>2. ASSUME NEW p \in Procs, Step(p) PROVE TypeOK'
  BY <1>2, StepTyped
<1>3. ASSUME NEW p \in Procs, Crash(p) PROVE TypeOK'
  <2>1. upsets' \in 0..MaxUpsets
    BY <1>3, CheckpointAssumption DEF Crash, Upset, TypeOK
  <2>2. lock' \in [Projects -> Procs \cup {NoProc}]
    BY <1>3, ReleaseTyped DEF Crash, TypeOK
  <2>3. /\ call' \in [Procs -> Calls]
        /\ \A q \in Procs : call'[q].pc # "idle" =>
             call'[q].project \in Projects /\ call'[q].payload \in Payloads
    <3>1. CASE Becomes(p, "lost")
      BY <1>3, <3>1, BecomesTyped DEF Crash
    <3>2. CASE End(p, "idle", 0)
      BY <1>3, <3>2, EndTyped DEF Crash, Ended
    <3>. QED
      BY <1>3, <3>1, <3>2 DEF Crash
  <2>. QED
    BY <1>3, <2>1, <2>2, <2>3 DEF Crash, TypeOK
<1>4. ASSUME NEW p \in Procs, OrphanStores(p) PROVE TypeOK'
  <2>1. /\ call[p].at \in {0} \cup Times
        /\ call[p].payload \in Payloads /\ call[p].project \in Projects
    BY <1>4 DEF OrphanStores, TypeOK, Calls
  <2>2. Rendered(call[p].payload, call[p].at) \in Notes
    BY <2>1, RenderedTyped
  <2>3. [Resting EXCEPT !.project = call[p].project, !.payload = call[p].payload] \in Calls
    BY <2>1, CheckpointAssumption DEF Resting, Calls, Missing, Notes, Ended
  <2>4. /\ call' \in [Procs -> Calls]
        /\ \A q \in Procs : call'[q].pc # "idle" =>
             call'[q].project \in Projects /\ call'[q].payload \in Payloads
    BY <1>4, <2>3, TouchedTyped DEF OrphanStores, TypeOK, Resting
  <2>. QED
    BY <1>4, <2>1, <2>2, <2>4 DEF OrphanStores, TypeOK
<1>5. ASSUME NEW p \in Procs, OrphanDies(p) PROVE TypeOK'
  BY <1>5, EndTyped DEF OrphanDies, TypeOK, Ended
<1>6. ASSUME NEW j \in Projects, EditNote(j) PROVE TypeOK'
  <2>1. upsets' \in 0..MaxUpsets
    BY <1>6, CheckpointAssumption DEF EditNote, Upset, TypeOK
  <2>2. \A n \in {[note[j] EXCEPT !.body = "edited"], [Missing EXCEPT !.body = "edited"],
                  Missing} : n \in Notes
    BY DEF TypeOK, Notes, Missing
  <2>. QED
    BY <1>6, <2>1, <2>2, TouchedTyped DEF EditNote, TypeOK
<1>7. CASE Tick
  BY <1>7, CheckpointAssumption DEF Tick, TypeOK, Times
<1>8. CASE UNCHANGED vars
  BY <1>8 DEF vars, TypeOK
<1>. QED
  BY <1>1, <1>2, <1>3, <1>4, <1>5, <1>6, <1>7, <1>8 DEF Next

\* Every variable keeps its type, whatever the bounds.
THEOREM TypeCorrect == Spec => []TypeOK
<1>. QED  BY InitTyped, NextTyped, PTL DEF Spec

--------------------------------------------------------------------------------
(* The inductive invariant: the lock of a project is held by the one command that reads or
   writes its note, what such a command has read is what the note still holds unless
   somebody without the lock came in between, and no time is ahead of the clock. *)

LockHeld(p) == call[p].pc \in Locked => lock[call[p].project] = p

ReadHolds(p) ==
  call[p].pc \in {"decide", "write"} /\ ~call[p].stored /\ ~call[p].touched =>
    note[call[p].project] = call[p].seen

WriteHolds(p) ==
  /\ call[p].pc \in {"write", "lost"} => call[p].at \in Times
  /\ call[p].pc = "write" => call[p].seen.mark # call[p].payload /\ call[p].seen.at <= call[p].at
  /\ call[p].pc \in {"plan", "lock", "read", "decide"} => ~call[p].stored

Past(p) == call[p].at <= clock /\ call[p].seen.at <= clock

IInv ==
  /\ TypeOK
  /\ \A p \in Procs : LockHeld(p) /\ ReadHolds(p) /\ WriteHolds(p) /\ Past(p)
  /\ \A j \in Projects : note[j].at <= clock

LEMMA IInvInit == Init => IInv
BY InitTyped DEF Init, IInv, LockHeld, ReadHolds, WriteHolds, Past, Resting, Missing, Locked

\* Two commands that hold the lock of one project are the same.
LEMMA OneHolder ==
  ASSUME IInv, NEW p \in Procs, NEW q \in Procs,
         call[p].pc \in Locked, call[q].pc \in Locked, call[p].project = call[q].project
  PROVE  p = q
BY DEF IInv, LockHeld

\* A command that ends, with the lock or without it.
LEMMA EndKeeps ==
  ASSUME IInv, TypeOK', NEW p \in Procs, call[p].pc \notin Ended,
         NEW pc \in Ended, NEW t \in {0} \cup Times, t <= clock,
         End(p, pc, t), UNCHANGED <<note, clock>>,
         (lock' = lock) \/ (Release(p) /\ call[p].pc \in Locked)
  PROVE  IInv'
<1>1. call[p].project \in Projects /\ call' = [call EXCEPT ![p] = call'[p]]
  BY DEF End, IInv, TypeOK, Ended
<1>2. /\ call'[p].pc \notin Locked \cup {"lost"} /\ call'[p].at = t /\ call'[p].seen.at = 0
      /\ call'[p].stored = FALSE /\ call'[p].touched = FALSE
  BY DEF End, Resting, Missing, Ended, Locked, IInv, TypeOK
<1>3. ASSUME NEW q \in Procs PROVE (LockHeld(q) /\ ReadHolds(q) /\ WriteHolds(q) /\ Past(q))'
  <2>1. CASE q = p
    BY <1>2, <2>1, 0 <= clock DEF LockHeld, ReadHolds, WriteHolds, Past, Locked, IInv, TypeOK, Times
  <2>2. CASE q # p
    <3>1. call'[q] = call[q]
      BY <1>1, <2>2 DEF IInv, TypeOK
    <3>2. call[q].pc \in Locked => lock'[call[q].project] = q
      <4>1. SUFFICES ASSUME call[q].pc \in Locked PROVE lock'[call[q].project] = q
        OBVIOUS
      <4>2. lock[call[q].project] = q /\ call[q].project \in Projects
        BY <4>1 DEF IInv, LockHeld, TypeOK, Locked
      <4>3. CASE lock' = lock
        BY <4>2, <4>3
      <4>4. CASE Release(p) /\ call[p].pc \in Locked
        BY <2>2, <4>1, <4>2, <4>4, OneHolder DEF Release, IInv, TypeOK
      <4>. QED
        BY <4>3, <4>4
    <3>. QED
      BY <3>1, <3>2 DEF IInv, LockHeld, ReadHolds, WriteHolds, Past
  <2>. QED
    BY <2>1, <2>2
<1>. QED
  BY <1>3 DEF IInv

LEMMA StepKeeps ==
  ASSUME IInv, TypeOK', NEW p \in Procs, Step(p) PROVE IInv'
<1>0. /\ call[p] \in Calls /\ call[p].at \in {0} \cup Times
      /\ call[p].seen.at \in {0} \cup Times
      /\ clock \in Times /\ call[p].at <= clock /\ call[p].seen.at <= clock /\ 0 <= clock
  BY CheckpointAssumption DEF IInv, Past, TypeOK, Calls, Notes, Times
<1>1. CASE PlanFails(p) \/ Contended(p) \/ ReadFails(p) \/ Skip(p) \/ OverBudget(p)
           \/ WriteDone(p) \/ WriteFails(p)
  <2>1. CASE PlanFails(p) \/ Contended(p)
    BY <1>0, <2>1, EndKeeps DEF PlanFails, Contended, Ended
  <2>2. CASE ReadFails(p) \/ OverBudget(p) \/ WriteFails(p)
    BY <1>0, <2>2, EndKeeps DEF ReadFails, OverBudget, WriteFails, Ended, Locked
  <2>3. CASE Skip(p) \/ WriteDone(p)
    BY <1>0, <2>3, EndKeeps DEF Skip, WriteDone, Ended, Locked
  <2>. QED
    BY <1>1, <2>1, <2>2, <2>3
<1>2. CASE Plan(p)
  BY <1>2 DEF Plan, Becomes, IInv, TypeOK, LockHeld, ReadHolds, WriteHolds, Past, Locked
<1>3. CASE Acquire(p)
  <2>1. call[p].project \in Projects
    BY <1>3 DEF Acquire, IInv, TypeOK
  <2>2. \A q \in Procs : call[q].pc \in Locked => call[q].project # call[p].project
    BY <1>3, CheckpointAssumption DEF Acquire, IInv, LockHeld
  <2>. QED
    BY <1>3, <2>1, <2>2
       DEF Acquire, Becomes, IInv, TypeOK, LockHeld, ReadHolds, WriteHolds, Past, Locked
<1>4. CASE Read(p)
  <2>1. call[p].project \in Projects
    BY <1>4 DEF Read, IInv, TypeOK
  <2>2. ~call[p].stored
    BY <1>4 DEF Read, IInv, WriteHolds
  <2>. QED
    BY <1>0, <1>4, <2>1, <2>2
       DEF Read, IInv, TypeOK, LockHeld, ReadHolds, WriteHolds, Past, Locked
<1>5. CASE StartWrite(p)
  <2>1. /\ call'[p].pc = "write" /\ call'[p].at = clock
        /\ call'[p].seen = call[p].seen /\ call'[p].payload = call[p].payload
        /\ call'[p].stored = call[p].stored /\ call'[p].touched = call[p].touched
        /\ call'[p].project = call[p].project
        /\ \A q \in Procs : q # p => call'[q] = call[q]
    BY <1>5 DEF StartWrite, IInv, TypeOK, Calls
  <2>2. LockHeld(p)' /\ ReadHolds(p)' /\ WriteHolds(p)' /\ Past(p)'
    <3>1. LockHeld(p) /\ ReadHolds(p) /\ call[p].pc = "decide"
          /\ call[p].seen.mark # call[p].payload
      BY <1>5 DEF StartWrite, Same, IInv
    <3>2. UNCHANGED <<note, lock, clock>>
      BY <1>5 DEF StartWrite
    <3>3. WriteHolds(p)' /\ Past(p)'
      BY <1>0, <2>1, <3>1, <3>2, CheckpointAssumption DEF WriteHolds, Past, Times
    <3>. QED
      BY <2>1, <3>1, <3>2, <3>3 DEF LockHeld, ReadHolds, Locked
  <2>3. ASSUME NEW q \in Procs, q # p
        PROVE  LockHeld(q)' /\ ReadHolds(q)' /\ WriteHolds(q)' /\ Past(q)'
    BY <1>5, <2>1, <2>3 DEF StartWrite, IInv, LockHeld, ReadHolds, WriteHolds, Past
  <2>. QED
    BY <1>5, <2>2, <2>3 DEF StartWrite, IInv
<1>6. CASE Store(p)
  <2>1. call[p].project \in Projects
    BY <1>6 DEF Store, IInv, TypeOK
  <2>2. \A q \in Procs : q # p /\ call[q].pc \in Locked => call[q].project # call[p].project
    BY <1>6, OneHolder DEF Store, Locked
  <2>. QED
    BY <1>0, <1>6, <2>1, <2>2
       DEF Store, Rendered, IInv, TypeOK, LockHeld, ReadHolds, WriteHolds, Past, Locked
<1>. QED
  BY <1>1, <1>2, <1>3, <1>4, <1>5, <1>6 DEF Step

\* What an agent or an orphaned child does to a call that has read the note.
LEMMA TouchKeeps ==
  ASSUME IInv, NEW j \in Projects, NEW q \in Procs,
         call'[q] = Touched(j, q), UNCHANGED <<lock, clock>>,
         \A i \in Projects : i # j => note'[i] = note[i]
  PROVE  LockHeld(q)' /\ ReadHolds(q)' /\ WriteHolds(q)' /\ Past(q)'
<1>0. /\ call[q] \in Calls
      /\ call[q].pc # "idle" => call[q].project \in Projects
      /\ LockHeld(q) /\ ReadHolds(q) /\ WriteHolds(q) /\ Past(q)
  BY DEF IInv, TypeOK
<1>1. CASE call[q].pc \in Locked /\ call[q].project = j
  <2>1. /\ call'[q].touched /\ call'[q].pc = call[q].pc /\ call'[q].project = call[q].project
        /\ call'[q].payload = call[q].payload /\ call'[q].seen = call[q].seen
        /\ call'[q].at = call[q].at /\ call'[q].stored = call[q].stored
    BY <1>0, <1>1 DEF Touched, Calls
  <2>. QED
    BY <1>0, <2>1 DEF LockHeld, ReadHolds, WriteHolds, Past
<1>2. CASE ~(call[q].pc \in Locked /\ call[q].project = j)
  BY <1>0, <1>2 DEF Touched, LockHeld, ReadHolds, WriteHolds, Past, Locked
<1>. QED
  BY <1>1, <1>2

LEMMA NextKeeps == IInv /\ [Next]_vars => IInv'
<1>. SUFFICES ASSUME IInv, [Next]_vars PROVE IInv'
  OBVIOUS
<1>0. TypeOK'
  BY NextTyped DEF IInv
<1>00. clock \in Times /\ 0 <= clock
  BY CheckpointAssumption DEF IInv, TypeOK, Times
<1>1. ASSUME NEW p \in Procs, NEW j \in Projects, NEW x \in Payloads, NEW fits \in BOOLEAN,
             Request(p, j, x, fits)
      PROVE  IInv'
  BY <1>0, <1>00, <1>1 DEF Request, Resting, Missing, IInv, TypeOK, LockHeld, ReadHolds,
     WriteHolds, Past, Locked
<1>2. ASSUME NEW p \in Procs, Step(p) PROVE IInv'
  BY <1>0, <1>2, StepKeeps
<1>3. ASSUME NEW p \in Procs, Crash(p) PROVE IInv'
  <2>1. CASE call[p].pc = "write" /\ ~call[p].stored
    <3>1. call[p].project \in Projects /\ Becomes(p, "lost") /\ Release(p)
      BY <1>3, <2>1 DEF Crash, IInv, TypeOK, Locked
    <3>2. \A q \in Procs : q # p /\ call[q].pc \in Locked => call[q].project # call[p].project
      BY <2>1, OneHolder DEF Locked
    <3>. QED
      BY <1>0, <1>3, <2>1, <3>1, <3>2 DEF Crash, Becomes, Release, IInv, TypeOK, LockHeld,
         ReadHolds, WriteHolds, Past, Locked
  <2>2. CASE ~(call[p].pc = "write" /\ ~call[p].stored)
    BY <1>0, <1>00, <1>3, <2>2, EndKeeps DEF Crash, Ended
  <2>. QED
    BY <2>1, <2>2
<1>4. ASSUME NEW p \in Procs, OrphanStores(p) PROVE IInv'
  <2>1. /\ call[p].project \in Projects /\ call[p].at <= clock /\ note' = [note EXCEPT
             ![call[p].project] = Rendered(call[p].payload, call[p].at)]
    BY <1>4 DEF OrphanStores, IInv, TypeOK, Past
  <2>2. ASSUME NEW q \in Procs
        PROVE  LockHeld(q)' /\ ReadHolds(q)' /\ WriteHolds(q)' /\ Past(q)'
    <3>1. CASE q = p
      BY <1>00, <1>4, <3>1 DEF OrphanStores, Resting, Missing, LockHeld, ReadHolds,
         WriteHolds, Past, Locked
    <3>2. CASE q # p
      BY <1>4, <2>1, <3>2, TouchKeeps DEF OrphanStores, IInv, TypeOK
    <3>. QED
      BY <3>1, <3>2
  <2>3. \A j \in Projects : note'[j].at <= clock
    BY <2>1 DEF IInv, TypeOK, Rendered
  <2>. QED
    BY <1>0, <1>4, <2>2, <2>3 DEF OrphanStores, IInv
<1>5. ASSUME NEW p \in Procs, OrphanDies(p) PROVE IInv'
  BY <1>0, <1>00, <1>5, EndKeeps DEF OrphanDies, Ended
<1>6. ASSUME NEW j \in Projects, EditNote(j) PROVE IInv'
  <2>1. \A q \in Procs : LockHeld(q)' /\ ReadHolds(q)' /\ WriteHolds(q)' /\ Past(q)'
    BY <1>6, TouchKeeps DEF EditNote, IInv, TypeOK
  <2>2. \A i \in Projects : note'[i].at <= clock
    BY <1>00, <1>6 DEF EditNote, IInv, TypeOK, Missing, Notes
  <2>. QED
    BY <1>0, <1>6, <2>1, <2>2 DEF EditNote, IInv
<1>7. CASE Tick
  <2>1. clock' = clock + 1 /\ clock \in Nat
    BY <1>00, <1>7, CheckpointAssumption DEF Tick, Times
  <2>2. \A j \in Projects : note[j].at \in Nat
    BY CheckpointAssumption DEF IInv, TypeOK, Notes, Times
  <2>3. \A q \in Procs : call[q].at \in Nat /\ call[q].seen.at \in Nat
    BY CheckpointAssumption DEF IInv, TypeOK, Calls, Notes, Times
  <2>. QED
    BY <1>0, <1>7, <2>1, <2>2, <2>3 DEF Tick, IInv, LockHeld, ReadHolds, WriteHolds, Past
<1>8. CASE UNCHANGED vars
  BY <1>8 DEF vars, IInv, TypeOK, LockHeld, ReadHolds, WriteHolds, Past
<1>. QED
  BY <1>1, <1>2, <1>3, <1>4, <1>5, <1>6, <1>7, <1>8 DEF Next

THEOREM Invariance == Spec => []IInv
<1>. QED  BY IInvInit, NextKeeps, PTL DEF Spec

\* Of overlapping and repeated requests with one payload, one writes.
THEOREM RepeatsWriteNothing == Spec => RepeatWritesNothing
<1>1. ASSUME IInv, [Next]_vars
      PROVE  [\A p \in Procs : Store(p) /\ ~call[p].touched =>
                note[call[p].project].mark # call[p].payload]_vars
  BY <1>1 DEF IInv, Store, ReadHolds, WriteHolds
<1>. QED  BY <1>1, Invariance, PTL DEF Spec, RepeatWritesNothing

\* updated_at does not go back.
THEOREM TimesGoForward == Spec => TimeGoesForward
<1>1. ASSUME IInv, [Next]_vars
      PROVE  [\A p \in Procs : Store(p) /\ ~call[p].touched =>
                note'[call[p].project].at >= note[call[p].project].at]_vars
  <2>1. ASSUME NEW p \in Procs, Store(p), ~call[p].touched
        PROVE  note'[call[p].project].at >= note[call[p].project].at
    BY <1>1, <2>1 DEF IInv, TypeOK, Store, Rendered, ReadHolds, WriteHolds
  <2>. QED
    BY <2>1
<1>. QED  BY <1>1, Invariance, PTL DEF Spec, TimeGoesForward

--------------------------------------------------------------------------------
(* Refinement: storing the note is the moment a written request takes effect, reading it
   the moment an unchanged one does. *)

\* The request of another command stays as it is.
LEMMA OthersKeep ==
  ASSUME NEW q \in Procs, call'[q] = call[q]
  PROVE  Requested'[q] = Requested[q]
BY DEF Requested, Phase, Reported, Same

LEMMA TouchedKeep ==
  ASSUME TypeOK, NEW j, NEW q \in Procs, call'[q] = Touched(j, q)
  PROVE  Requested'[q] = Requested[q]
<1>1. CASE call[q].pc \in Locked /\ call[q].project = j
  <2>1. /\ call'[q].pc = call[q].pc /\ call'[q].project = call[q].project
        /\ call'[q].payload = call[q].payload /\ call'[q].seen = call[q].seen
        /\ call'[q].at = call[q].at /\ call'[q].stored = call[q].stored
    BY <1>1 DEF Touched, TypeOK, Calls
  <2>. QED
    BY <2>1 DEF Requested, Phase, Reported, Same
<1>2. CASE ~(call[q].pc \in Locked /\ call[q].project = j)
  BY <1>2, OthersKeep DEF Touched
<1>. QED
  BY <1>1, <1>2

\* The request of a command, by its stage.
LEMMA PhaseOpen ==
  ASSUME NEW p \in Procs,
         \/ call[p].pc \in {"plan", "lock", "read"}
         \/ call[p].pc = "decide" /\ ~Same(p)
         \/ call[p].pc = "write" /\ ~call[p].stored
  PROVE  Requested[p] = [phase |-> "open", project |-> call[p].project,
                         payload |-> call[p].payload, at |-> 0]
BY DEF Requested, Reported, Phase

LEMMA PhaseEnded ==
  ASSUME NEW p \in Procs, call[p].pc \in Ended
  PROVE  Requested[p] = [phase |-> call[p].pc, project |-> call[p].project,
                         payload |-> call[p].payload, at |-> call[p].at]
BY DEF Requested, Reported, Phase, Ended

LEMMA PhaseTaken ==
  ASSUME NEW p \in Procs, call[p].pc = "write", call[p].stored
  PROVE  Requested[p] = [phase |-> "taken", project |-> call[p].project,
                         payload |-> call[p].payload, at |-> call[p].at]
BY DEF Requested, Reported, Phase

LEMMA PhaseMatched ==
  ASSUME NEW p \in Procs, call[p].pc = "decide", Same(p)
  PROVE  Requested[p] = [phase |-> "matched", project |-> call[p].project,
                         payload |-> call[p].payload, at |-> call[p].seen.at]
BY DEF Requested, Reported, Phase

LEMMA PhaseLost ==
  ASSUME NEW p \in Procs, call[p].pc = "lost"
  PROVE  Requested[p] = [phase |-> "lost", project |-> call[p].project,
                         payload |-> call[p].payload, at |-> 0]
BY DEF Requested, Reported, Phase

\* A step of p alone turns its request into another.
LEMMA RequestBecomes ==
  ASSUME NEW p \in Procs, \A q \in Procs : q # p => Requested'[q] = Requested[q]
  PROVE  /\ \A r : Requested'[p] = r => Requested' = [Requested EXCEPT ![p] = r]
         /\ Requested'[p] = Requested[p] => Requested' = Requested
<1>1. Requested = [q \in Procs |-> Requested[q]] /\ Requested' = [q \in Procs |-> Requested'[q]]
  BY DEF Requested
<1>. QED
  BY <1>1

LEMMA Alone ==
  ASSUME TypeOK, NEW p \in Procs, NEW r, call' = [call EXCEPT ![p] = r]
  PROVE  /\ call'[p] = r
         /\ \A x : Requested'[p] = x => Requested' = [Requested EXCEPT ![p] = x]
         /\ Requested'[p] = Requested[p] => Requested' = Requested
<1>1. \A q \in Procs : q # p => Requested'[q] = Requested[q]
  BY OthersKeep DEF TypeOK
<1>. QED
  BY <1>1, RequestBecomes DEF TypeOK

\* A command that ends.
LEMMA EndRefines ==
  ASSUME TypeOK, NEW p \in Procs, NEW pc \in Ended, NEW t, End(p, pc, t)
  PROVE  Requested' = [Requested EXCEPT ![p] = [phase |-> pc, project |-> call[p].project,
                                                payload |-> call[p].payload, at |-> t]]
<1> DEFINE r == [Resting EXCEPT !.pc = pc, !.project = call[p].project,
                                !.payload = call[p].payload, !.at = t]
<1>1. call'[p] = r /\ \A x : Requested'[p] = x => Requested' = [Requested EXCEPT ![p] = x]
  BY Alone DEF End
<1>2. /\ r.pc = pc /\ r.project = call[p].project
      /\ r.payload = call[p].payload /\ r.at = t
  BY DEF Resting
<1>3. Requested'[p] = [phase |-> pc, project |-> call[p].project,
                       payload |-> call[p].payload, at |-> t]
  BY <1>1, <1>2 DEF Requested, Reported, Phase, Ended
<1>. QED
  BY <1>1, <1>3

LEMMA StepRefines ==
  ASSUME IInv, NEW p \in Procs, Step(p)
  PROVE  [Promise!Next]_<<note, Requested>>
<1>0. /\ TypeOK /\ call[p] \in Calls /\ WriteHolds(p) /\ ReadHolds(p)
  BY DEF IInv, TypeOK
<1>1. CASE Plan(p) \/ Acquire(p)
  <2>1. call' = [call EXCEPT ![p] = [call[p] EXCEPT !.pc = call'[p].pc]] /\ note' = note
        /\ call[p].pc \in {"plan", "lock"} /\ call'[p].pc \in {"lock", "read"}
    <3>1. CASE Plan(p)
      BY <1>0, <3>1 DEF Plan, Becomes, TypeOK, Calls
    <3>2. CASE Acquire(p)
      BY <1>0, <3>2 DEF Acquire, Becomes, TypeOK, Calls
    <3>. QED
      BY <1>1, <3>1, <3>2
  <2>2. Requested'[p] = Requested[p]
    <3>1. /\ call'[p].project = call[p].project /\ call'[p].payload = call[p].payload
      BY <1>0, <2>1 DEF Calls, TypeOK
    <3>. QED
      BY <2>1, <3>1 DEF Requested, Reported, Phase
  <2>. QED
    BY <1>0, <2>1, <2>2, Alone
<1>2. CASE PlanFails(p) \/ Contended(p) \/ ReadFails(p) \/ OverBudget(p) \/ WriteFails(p)
  <2>1. End(p, "failed", 0) /\ note' = note
    BY <1>2 DEF PlanFails, Contended, ReadFails, OverBudget, WriteFails
  <2>2. Requested[p].phase \in {"open", "taken"}
    BY <1>2 DEF PlanFails, Contended, ReadFails, OverBudget, WriteFails, Requested, Phase
  <2>3. Requested' = [Requested EXCEPT ![p] =
          [phase |-> "failed", project |-> Requested[p].project,
           payload |-> Requested[p].payload, at |-> 0]]
    BY <1>0, <2>1, EndRefines DEF Ended, Requested
  <2>4. Promise!Fail(p)
    BY <2>1, <2>2, <2>3 DEF Promise!Fail, Promise!Becomes
  <2>. QED
    BY <2>4 DEF Promise!Next
<1>3. CASE Read(p)
  <2>1. /\ call[p].project \in Projects /\ note' = note /\ call[p].pc = "read"
        /\ Requested[p] = [phase |-> "open", project |-> call[p].project,
                           payload |-> call[p].payload, at |-> 0]
    BY <1>3, PhaseOpen DEF Read, IInv, TypeOK
  <2>2. /\ call'[p].pc = "decide" /\ call'[p].seen = note[call[p].project]
        /\ call'[p].project = call[p].project /\ call'[p].payload = call[p].payload
        /\ \A x : Requested'[p] = x => Requested' = [Requested EXCEPT ![p] = x]
        /\ Requested'[p] = Requested[p] => Requested' = Requested
    <3>1. call' = [call EXCEPT ![p] = [call[p] EXCEPT !.pc = "decide",
                                       !.seen = note[call[p].project], !.touched = FALSE]]
      BY <1>3 DEF Read
    <3>. QED
      <4>1. call'[p] = [call[p] EXCEPT !.pc = "decide", !.seen = note[call[p].project],
                                       !.touched = FALSE]
        BY <1>0, <3>1 DEF TypeOK
      <4>2. /\ \A x : Requested'[p] = x => Requested' = [Requested EXCEPT ![p] = x]
            /\ Requested'[p] = Requested[p] => Requested' = Requested
        BY <1>0, <3>1, Alone
      <4>. QED
        BY <1>0, <4>1, <4>2 DEF Calls
  <2>3. CASE note[call[p].project].mark = call[p].payload
    <3>1. Requested'[p] = [phase |-> "matched", project |-> call[p].project,
                           payload |-> call[p].payload, at |-> note[call[p].project].at]
      BY <2>2, <2>3 DEF Requested, Reported, Phase, Same
    <3>2. Requested' = [Requested EXCEPT ![p] =
            [phase |-> "matched", project |-> call[p].project,
             payload |-> call[p].payload, at |-> note[call[p].project].at]]
      BY <2>2, <3>1
    <3>3. Promise!Match(p)
      BY <2>1, <2>3, <3>2 DEF Promise!Match, Promise!Becomes
    <3>. QED
      BY <3>3 DEF Promise!Next
  <2>4. CASE note[call[p].project].mark # call[p].payload
    <3>1. Requested'[p] = Requested[p]
      BY <2>1, <2>2, <2>4 DEF Requested, Reported, Phase, Same
    <3>. QED
      BY <2>1, <2>2, <3>1
  <2>. QED
    BY <2>3, <2>4
<1>4. CASE Skip(p) \/ WriteDone(p)
  <2>1. CASE Skip(p)
    <3>1. /\ note' = note
          /\ Requested[p] = [phase |-> "matched", project |-> call[p].project,
                             payload |-> call[p].payload, at |-> call[p].seen.at]
          /\ Requested' = [Requested EXCEPT ![p] =
               [phase |-> "unchanged", project |-> call[p].project,
                payload |-> call[p].payload, at |-> call[p].seen.at]]
      BY <1>0, <2>1, EndRefines, PhaseMatched DEF Skip, Ended
    <3>2. Promise!Report(p)
      BY <3>1 DEF Promise!Report, Promise!Becomes
    <3>. QED
      BY <3>2 DEF Promise!Next
  <2>2. CASE WriteDone(p)
    <3>1. /\ note' = note
          /\ Requested[p] = [phase |-> "taken", project |-> call[p].project,
                             payload |-> call[p].payload, at |-> call[p].at]
          /\ Requested' = [Requested EXCEPT ![p] =
               [phase |-> "written", project |-> call[p].project,
                payload |-> call[p].payload, at |-> call[p].at]]
      BY <1>0, <2>2, EndRefines, PhaseTaken DEF WriteDone, Ended
    <3>2. Promise!Report(p)
      BY <3>1 DEF Promise!Report, Promise!Becomes
    <3>. QED
      BY <3>2 DEF Promise!Next
  <2>. QED
    BY <1>4, <2>1, <2>2
<1>5. CASE StartWrite(p)
  <2>1. call' = [call EXCEPT ![p] = [call[p] EXCEPT !.pc = "write", !.at = clock]]
        /\ note' = note /\ call[p].pc = "decide" /\ ~Same(p) /\ ~call[p].stored
    BY <1>0, <1>5 DEF StartWrite, WriteHolds
  <2>2. Requested'[p] = Requested[p]
    BY <1>0, <2>1 DEF Requested, Reported, Phase, Calls, TypeOK
  <2>. QED
    BY <1>0, <2>1, <2>2, Alone
<1>6. CASE Store(p)
  <2>1. call' = [call EXCEPT ![p] = [call[p] EXCEPT !.stored = TRUE]]
        /\ call[p].pc = "write" /\ ~call[p].stored /\ call[p].at \in Times
    BY <1>0, <1>6 DEF Store, WriteHolds
  <2>2. Requested[p] = [phase |-> "open", project |-> call[p].project,
                        payload |-> call[p].payload, at |-> 0]
    BY <2>1, PhaseOpen
  <2>3. Requested'[p] = [phase |-> "taken", project |-> call[p].project,
                         payload |-> call[p].payload, at |-> call[p].at]
    BY <1>0, <2>1 DEF Requested, Reported, Phase, Calls, TypeOK
  <2>4. Requested' = [Requested EXCEPT ![p] =
          [phase |-> "taken", project |-> call[p].project,
           payload |-> call[p].payload, at |-> call[p].at]]
    <3> DEFINE r == [call[p] EXCEPT !.stored = TRUE]
    <3>1. \A x : Requested'[p] = x => Requested' = [Requested EXCEPT ![p] = x]
      <4>1. call' = [call EXCEPT ![p] = r]
        BY <2>1
      <4>. QED
        BY <1>0, <4>1, Alone
    <3>. QED
      BY <2>3, <3>1
  <2>5. Promise!Take(p, call[p].at)
    BY <1>6, <2>2, <2>4 DEF Store, Rendered, Promise!Take, Promise!Becomes, Promise!Written
  <2>. QED
    BY <2>1, <2>5 DEF Promise!Next
<1>. QED
  BY <1>1, <1>2, <1>3, <1>4, <1>5, <1>6 DEF Step

LEMMA InitRefines == Init => Promise!Init
BY DEF Init, Promise!Init, Requested, Phase, Resting, Missing, Notes

LEMMA NextRefines ==
  ASSUME IInv, [Next]_vars
  PROVE  [Promise!Next]_<<note, Requested>>
<1>0. TypeOK
  BY DEF IInv
<1>1. ASSUME NEW p \in Procs, NEW j \in Projects, NEW x \in Payloads, NEW fits \in BOOLEAN,
             Request(p, j, x, fits)
      PROVE  Promise!Next
  <2> DEFINE r == [Resting EXCEPT !.pc = "plan", !.project = j, !.payload = x, !.fits = fits]
  <2>1. /\ call'[p] = r
        /\ \A y : Requested'[p] = y => Requested' = [Requested EXCEPT ![p] = y]
    BY <1>0, <1>1, Alone DEF Request
  <2>2. Requested'[p] = [phase |-> "open", project |-> j, payload |-> x, at |-> 0]
    BY <2>1 DEF Requested, Reported, Phase, Resting
  <2>3. Requested[p].phase \in Promise!Closed
    BY <1>1 DEF Request, Requested, Phase, Ended, Promise!Closed
  <2>4. Promise!Ask(p, j, x)
    BY <1>1, <2>1, <2>2, <2>3 DEF Request, Promise!Ask
  <2>. QED
    BY <2>4 DEF Promise!Next
<1>2. ASSUME NEW p \in Procs, Crash(p) PROVE Promise!Next
  <2>1. CASE call[p].pc = "write" /\ ~call[p].stored
    <3> DEFINE r == [call[p] EXCEPT !.pc = "lost"]
    <3>1. call' = [call EXCEPT ![p] = r]
      BY <1>2, <2>1 DEF Crash, Becomes
    <3>2. /\ call'[p] = r
          /\ \A y : Requested'[p] = y => Requested' = [Requested EXCEPT ![p] = y]
      BY <1>0, <3>1, Alone
    <3>3. Requested'[p] = [phase |-> "lost", project |-> call[p].project,
                           payload |-> call[p].payload, at |-> 0]
      BY <1>0, <3>2 DEF Requested, Reported, Phase, Calls, TypeOK
    <3>4. Requested[p] = [phase |-> "open", project |-> call[p].project,
                          payload |-> call[p].payload, at |-> 0]
      BY <2>1, PhaseOpen
    <3>5. Promise!Die(p)
      BY <1>2, <3>2, <3>3, <3>4 DEF Crash, Promise!Die, Promise!Becomes
    <3>. QED
      BY <3>5 DEF Promise!Next
  <2>2. CASE ~(call[p].pc = "write" /\ ~call[p].stored)
    <3>1. End(p, "idle", 0) /\ note' = note
      BY <1>2, <2>2 DEF Crash
    <3>2. Requested' = [Requested EXCEPT ![p] =
            [phase |-> "idle", project |-> Requested[p].project,
             payload |-> Requested[p].payload, at |-> 0]]
      BY <1>0, <3>1, EndRefines DEF Ended, Requested
    <3>3. Requested[p].phase \in {"open", "taken", "matched"}
      BY <1>0, <1>2, <2>2 DEF Crash, Requested, Phase, TypeOK, Calls, Locked
    <3>4. Promise!Die(p)
      BY <3>1, <3>2, <3>3 DEF Promise!Die, Promise!Becomes
    <3>. QED
      BY <3>4 DEF Promise!Next
  <2>. QED
    BY <2>1, <2>2
<1>3. ASSUME NEW p \in Procs, OrphanStores(p) PROVE Promise!Next
  <2>1. call[p].at \in Times /\ call[p].pc = "lost"
    BY <1>3 DEF OrphanStores, IInv, WriteHolds
  <2>2. Requested[p] = [phase |-> "lost", project |-> call[p].project,
                        payload |-> call[p].payload, at |-> 0]
    BY <2>1, PhaseLost
  <2>3. Requested'[p] = [phase |-> "idle", project |-> call[p].project,
                         payload |-> call[p].payload, at |-> 0]
    BY <1>3 DEF OrphanStores, Requested, Reported, Phase, Resting
  <2>4. \A q \in Procs : q # p => Requested'[q] = Requested[q]
    BY <1>0, <1>3, TouchedKeep DEF OrphanStores
  <2>5. Requested' = [Requested EXCEPT ![p] =
          [phase |-> "idle", project |-> call[p].project,
           payload |-> call[p].payload, at |-> 0]]
    BY <2>3, <2>4, RequestBecomes
  <2>6. Promise!LateTake(p, call[p].at)
    BY <1>3, <2>2, <2>5
       DEF OrphanStores, Rendered, Promise!LateTake, Promise!Becomes, Promise!Written
  <2>. QED
    BY <2>1, <2>6 DEF Promise!Next
<1>4. ASSUME NEW p \in Procs, OrphanDies(p) PROVE Promise!Next
  <2>1. Requested' = [Requested EXCEPT ![p] =
          [phase |-> "idle", project |-> Requested[p].project,
           payload |-> Requested[p].payload, at |-> 0]]
    BY <1>0, <1>4, EndRefines DEF OrphanDies, Ended, Requested
  <2>2. Promise!LateDrop(p)
    <3>1. Requested[p].phase = "lost" /\ note' = note
      BY <1>4 DEF OrphanDies, Requested, Phase
    <3>. QED
      BY <2>1, <3>1 DEF Promise!LateDrop, Promise!Becomes
  <2>. QED
    BY <2>2 DEF Promise!Next
<1>5. ASSUME NEW j \in Projects, EditNote(j) PROVE Promise!Next
  <2>1. Requested' = Requested
    <3>1. \A q \in Procs : Requested'[q] = Requested[q]
      BY <1>0, <1>5, TouchedKeep DEF EditNote
    <3>. QED
      BY <3>1 DEF Requested
  <2>2. PICK n \in {[note[j] EXCEPT !.body = "edited"], [Missing EXCEPT !.body = "edited"],
                    Missing} : note' = [note EXCEPT ![j] = n]
    BY <1>5 DEF EditNote
  <2>3. n \in Notes /\ n.body \notin Payloads
    BY <1>0, <2>2, CheckpointAssumption DEF TypeOK, Notes, Missing
  <2>4. Promise!Edit(j, n)
    BY <2>1, <2>2, <2>3 DEF Promise!Edit
  <2>. QED
    BY <2>3, <2>4 DEF Promise!Next
<1>6. CASE Tick
  BY <1>6 DEF Tick, Requested, Phase, Reported, Same
<1>7. CASE UNCHANGED vars
  BY <1>7 DEF vars, Requested, Phase, Reported, Same
<1>. QED
  BY <1>1, <1>2, <1>3, <1>4, <1>5, <1>6, <1>7, StepRefines DEF Next

\* Every request takes effect at one moment or not at all, and its report is true.
THEOREM Implements == Spec => KeepsItsPromise
<1>. QED
  BY InitRefines, NextRefines, Invariance, PTL
     DEF Spec, KeepsItsPromise, Promise!Spec, Promise!vars

---------------------------------------------------------------------------------
(* No command runs for ever. *)

\* How many steps a command can still take.
Remaining(c) ==
  CASE c.pc = "plan" -> 6
    [] c.pc = "lock" -> 5
    [] c.pc = "read" -> 4
    [] c.pc = "decide" -> 3
    [] c.pc = "write" -> IF c.stored THEN 1 ELSE 2
    [] OTHER -> 0
StepsLeft(p) == Remaining(call[p])

\* A step of its own brings a running command nearer to its end, and nothing that others
\* do, the holder of the lock included, takes it back.
GetsNearer(p) ==
  /\ Step(p) => StepsLeft(p)' < StepsLeft(p)
  /\ StepsLeft(p)' <= StepsLeft(p)

LEMMA RemainingIsNumber == \A c : Remaining(c) \in 0..6
BY DEF Remaining

LEMMA StepAdvances ==
  ASSUME TypeOK, NEW p \in Procs, Step(p)
  PROVE  StepsLeft(p)' < StepsLeft(p)
<1>0. call \in [Procs -> Calls] /\ \A c : c \in Calls => c.pc \in Ended \cup Locked \cup {"plan", "lock", "lost"}
  BY DEF TypeOK, Calls
<1>1. CASE Plan(p)
  BY <1>0, <1>1 DEF Plan, Becomes, StepsLeft, Remaining, Calls
<1>2. CASE Acquire(p)
  BY <1>0, <1>2 DEF Acquire, Becomes, StepsLeft, Remaining, Calls
<1>3. CASE Read(p)
  BY <1>0, <1>3 DEF Read, StepsLeft, Remaining, Calls
<1>4. CASE StartWrite(p)
  BY <1>0, <1>4 DEF StartWrite, StepsLeft, Remaining, Calls
<1>5. CASE Store(p)
  BY <1>0, <1>5 DEF Store, StepsLeft, Remaining, Calls
<1>6. ASSUME call[p].pc \in {"plan", "lock", "read", "decide", "write"},
             NEW pc \in Ended, NEW t, End(p, pc, t)
      PROVE  StepsLeft(p)' < StepsLeft(p)
  <2>1. StepsLeft(p)' = 0
    BY <1>0, <1>6 DEF End, Resting, StepsLeft, Remaining, Ended
  <2>2. StepsLeft(p) \in 1..6
    BY <1>6 DEF StepsLeft, Remaining
  <2>. QED
    BY <2>1, <2>2
<1>7. CASE PlanFails(p) \/ Contended(p) \/ ReadFails(p) \/ Skip(p) \/ OverBudget(p)
           \/ WriteDone(p) \/ WriteFails(p)
  <2>1. /\ call[p].pc \in {"plan", "lock", "read", "decide", "write"}
        /\ \E pc \in Ended, t \in {0, call[p].at, call[p].seen.at} : End(p, pc, t)
    BY <1>7 DEF PlanFails, Contended, ReadFails, Skip, OverBudget, WriteDone, WriteFails, Ended
  <2>. QED
    BY <1>6, <2>1
<1>. QED
  BY <1>1, <1>2, <1>3, <1>4, <1>5, <1>7 DEF Step

\* Each command is at its end after at most six steps of its own, however often others take
\* the lock (checkpoint.py:800).
THEOREM CallsAreFinite ==
  Spec => [][\A p \in Procs : call[p].pc \notin Ended => GetsNearer(p)]_vars
<1>1. ASSUME TypeOK, [Next]_vars, NEW p \in Procs, call[p].pc \notin Ended
      PROVE  GetsNearer(p)
  <2>0. StepsLeft(p) \in 0..6 /\ StepsLeft(p)' \in 0..6 /\ call \in [Procs -> Calls]
    BY <1>1, RemainingIsNumber DEF StepsLeft, TypeOK
  <2>1. CASE Step(p)
    BY <1>1, <2>0, <2>1, StepAdvances DEF GetsNearer
  <2>2. ASSUME ~Step(p) PROVE StepsLeft(p)' <= StepsLeft(p)
    <3>1. ASSUME call'[p] = call[p] PROVE StepsLeft(p)' <= StepsLeft(p)
      BY <2>0, <3>1 DEF StepsLeft
    <3>2. ASSUME NEW j, call'[p] = Touched(j, p) PROVE StepsLeft(p)' <= StepsLeft(p)
      <4>1. call'[p].pc = call[p].pc /\ call'[p].stored = call[p].stored
        BY <2>0, <3>2 DEF Touched, Calls
      <4>. QED
        BY <2>0, <4>1 DEF StepsLeft, Remaining
    <3>3. ASSUME call'[p].pc \in {"idle", "lost"} PROVE StepsLeft(p)' <= StepsLeft(p)
      <4>1. StepsLeft(p)' = 0
        BY <3>3 DEF StepsLeft, Remaining
      <4>. QED
        BY <2>0, <4>1
    <3>4. ASSUME NEW q \in Procs, q # p, Step(q) PROVE call'[p] = call[p]
      BY <2>0, <3>4 DEF Step, Plan, PlanFails, Acquire, Contended, Read, ReadFails, Skip, StartWrite,
         OverBudget, Store, WriteDone, WriteFails, Becomes, End
    <3>5. ASSUME NEW q \in Procs, NEW j \in Projects, NEW x \in Payloads, NEW fits \in BOOLEAN,
                 Request(q, j, x, fits)
          PROVE  call'[p] = call[p]
      BY <1>1, <2>0, <3>5 DEF Request
    <3>6. ASSUME NEW q \in Procs, Crash(q) \/ OrphanDies(q)
          PROVE  call'[p] = call[p] \/ call'[p].pc \in {"idle", "lost"}
      BY <2>0, <3>6 DEF Crash, OrphanDies, Becomes, End, Resting, Calls
    <3>7. ASSUME NEW q \in Procs, OrphanStores(q)
          PROVE  call'[p] = Touched(call[q].project, p) \/ call'[p].pc = "idle"
      BY <3>7 DEF OrphanStores, Resting
    <3>8. ASSUME NEW j \in Projects, EditNote(j) PROVE call'[p] = Touched(j, p)
      BY <3>8 DEF EditNote
    <3>9. CASE Tick \/ UNCHANGED vars
      BY <3>1, <3>9 DEF Tick, vars
    <3>. QED
      BY <1>1, <2>2, <3>1, <3>2, <3>3, <3>4, <3>5, <3>6, <3>7, <3>8, <3>9 DEF Next
  <2>. QED
    BY <2>1, <2>2 DEF GetsNearer
<1>2. TypeOK /\ [Next]_vars =>
        [\A p \in Procs : call[p].pc \notin Ended => GetsNearer(p)]_vars
  BY <1>1
<1>. QED
  BY <1>2, TypeCorrect, PTL DEF Spec
================================================================================
