------------------------------- MODULE Checkpoint -------------------------------
(* `ptw checkpoint` (core/checkpoint.py): reading the current-state note of a project
   through Basic Memory, comparing its embedded fingerprint, and writing the note anew,
   under a lock of the project that is refused, not waited for.

   Reading and writing are child processes with a timeout.  A child that times out is
   killed and waited for, so it does nothing after the failure is reported, but it may
   have stored the note before.  A child outlives its parent when the parent is killed,
   and the lock does not: Python opens the lock file so that children do not inherit it.

   A note is its content, its fingerprint and its updated_at; payloads have different
   fingerprints. *)
EXTENDS Naturals

CONSTANTS
  Procs,      \* ptw processes
  NoProc,
  Projects,
  Payloads,   \* what an agent asks to be remembered
  MaxTime,    \* bound: how far the clock goes
  MaxUpsets   \* bound: killed commands and edits by agents together

ASSUME CheckpointAssumption ==
  /\ NoProc \notin Procs
  /\ "none" \notin Projects /\ Payloads \cap {"none", "edited"} = {}
  /\ MaxTime \in Nat \ {0} /\ MaxUpsets \in Nat

VARIABLES
  note,     \* each project's current-state note
  lock,     \* locks/checkpoint-<project>.lock
  call,     \* each process: where it is, its request, what it read, its timestamp
  clock,
  upsets

vars == <<note, lock, call, clock, upsets>>

Times == 1..MaxTime
Notes == [body : Payloads \cup {"none", "edited"}, mark : Payloads \cup {"none"},
          at : {0} \cup Times]
Missing == [body |-> "none", mark |-> "none", at |-> 0]

Ended == {"idle", "written", "unchanged", "failed"}
Locked == {"read", "decide", "write"}
Calls == [pc : Ended \cup Locked \cup {"plan", "lock", "lost"},
          project : Projects \cup {"none"}, payload : Payloads \cup {"none"}, fits : BOOLEAN,
          seen : Notes, at : {0} \cup Times, stored : BOOLEAN,
          touched : BOOLEAN]   \* history: somebody else changed the note since it was read
Resting == [pc |-> "idle", project |-> "none", payload |-> "none", fits |-> TRUE,
            seen |-> Missing, at |-> 0, stored |-> FALSE, touched |-> FALSE]

Init ==
  /\ note = [j \in Projects |-> Missing]
  /\ lock = [j \in Projects |-> NoProc]
  /\ call = [p \in Procs |-> Resting]
  /\ clock = 1
  /\ upsets = 0

Becomes(p, pc) == call' = [call EXCEPT ![p].pc = pc]
\* A command ends and reports a time.
End(p, pc, t) ==
  call' = [call EXCEPT ![p] = [Resting EXCEPT !.pc = pc, !.project = call[p].project,
                                              !.payload = call[p].payload, !.at = t]]
Release(p) == lock' = [lock EXCEPT ![call[p].project] = NoProc]
Rendered(x, t) == [body |-> x, mark |-> x, at |-> t]

\* What the commands of this project have read is no longer what the note holds.
Touched(j, p) ==
  IF call[p].pc \in Locked /\ call[p].project = j THEN [call[p] EXCEPT !.touched = TRUE] ELSE call[p]

---------------------------------------------------------------------------------
(* One command. *)

\* Mutant: the project is not resolved.
Request_Unresolved(p, j, x, fits) ==
  /\ call[p].pc \in Ended
  /\ call' = [call EXCEPT ![p] = [Resting EXCEPT !.pc = "plan", !.payload = x, !.fits = fits]]
  /\ UNCHANGED <<note, lock, clock, upsets>>

Request(p, j, x, fits) ==
  /\ call[p].pc \in Ended
  /\ call' = [call EXCEPT ![p] = [Resting EXCEPT !.pc = "plan", !.project = j,
                                                 !.payload = x, !.fits = fits]]
  /\ UNCHANGED <<note, lock, clock, upsets>>

Plan(p) ==
  /\ call[p].pc = "plan" /\ Becomes(p, "lock")
  /\ UNCHANGED <<note, lock, clock, upsets>>

\* An unknown project, no Basic Memory to run, or a lock file that is no plain file.
PlanFails(p) ==
  /\ call[p].pc = "plan" /\ End(p, "failed", 0)
  /\ UNCHANGED <<note, lock, clock, upsets>>

Acquire(p) ==
  /\ call[p].pc = "lock" /\ lock[call[p].project] = NoProc
  /\ lock' = [lock EXCEPT ![call[p].project] = p]
  /\ Becomes(p, "read")
  /\ UNCHANGED <<note, clock, upsets>>

\* Mutant: without LOCK_NB the command waits.
Contended_Waits(p) ==
  /\ call[p].pc = "lock" /\ lock[call[p].project] # NoProc
  /\ UNCHANGED vars

\* LOCK_NB: the command fails at once.
Contended(p) ==
  /\ call[p].pc = "lock" /\ lock[call[p].project] # NoProc
  /\ End(p, "failed", 0)
  /\ UNCHANGED <<note, lock, clock, upsets>>

\* Mutant: the lock covers the read only.
Read_Unlocks(p) ==
  /\ call[p].pc = "read"
  /\ call' = [call EXCEPT ![p].pc = "decide", ![p].seen = note[call[p].project],
                          ![p].touched = FALSE]
  /\ Release(p)
  /\ UNCHANGED <<note, clock, upsets>>

Read(p) ==
  /\ call[p].pc = "read"
  /\ call' = [call EXCEPT ![p].pc = "decide", ![p].seen = note[call[p].project],
                          ![p].touched = FALSE]
  /\ UNCHANGED <<note, lock, clock, upsets>>

\* A timeout, an exit code, or an answer that is too long or no JSON object.
ReadFails(p) ==
  /\ call[p].pc = "read"
  /\ End(p, "failed", 0) /\ Release(p)
  /\ UNCHANGED <<note, clock, upsets>>

Same(p) == call[p].seen.mark = call[p].payload

\* No clock, no write: the time in the note is reported.
Skip(p) ==
  /\ call[p].pc = "decide" /\ Same(p)
  /\ End(p, "unchanged", call[p].seen.at) /\ Release(p)
  /\ UNCHANGED <<note, clock, upsets>>

\* Mutant: local time, which daylight saving sets back.
StartWrite_LocalTime(p) ==
  /\ call[p].pc = "decide" /\ ~Same(p) /\ call[p].fits
  /\ \E t \in {clock, clock - 1} \cap Times : call' = [call EXCEPT ![p].pc = "write", ![p].at = t]
  /\ UNCHANGED <<note, lock, clock, upsets>>

StartWrite(p) ==
  /\ call[p].pc = "decide" /\ ~Same(p) /\ call[p].fits
  /\ call' = [call EXCEPT ![p].pc = "write", ![p].at = clock]
  /\ UNCHANGED <<note, lock, clock, upsets>>

\* The rendered note is longer than max_chars.
OverBudget(p) ==
  /\ call[p].pc = "decide" /\ ~Same(p) /\ ~call[p].fits
  /\ End(p, "failed", 0) /\ Release(p)
  /\ UNCHANGED <<note, clock, upsets>>

\* write-note --overwrite puts the note in its place.
Store(p) ==
  /\ call[p].pc = "write" /\ ~call[p].stored
  /\ note' = [note EXCEPT ![call[p].project] = Rendered(call[p].payload, call[p].at)]
  /\ call' = [call EXCEPT ![p].stored = TRUE]
  /\ UNCHANGED <<lock, clock, upsets>>

WriteDone(p) ==
  /\ call[p].pc = "write" /\ call[p].stored
  /\ End(p, "written", call[p].at) /\ Release(p)
  /\ UNCHANGED <<note, clock, upsets>>

\* Mutant: the exit code is not looked at.
WriteFails_Ignored(p) ==
  /\ call[p].pc = "write"
  /\ End(p, "written", call[p].at) /\ Release(p)
  /\ UNCHANGED <<note, clock, upsets>>

\* A timeout, an exit code or too long an answer, before or after the note was stored.
WriteFails(p) ==
  /\ call[p].pc = "write"
  /\ End(p, "failed", 0) /\ Release(p)
  /\ UNCHANGED <<note, clock, upsets>>

---------------------------------------------------------------------------------
(* Everything else that happens. *)

Upset == upsets < MaxUpsets /\ upsets' = upsets + 1

\* The kernel gives the lock back; a child that writes goes on.
Crash(p) ==
  /\ call[p].pc \notin Ended \cup {"lost"} /\ Upset
  /\ IF call[p].pc = "write" /\ ~call[p].stored THEN Becomes(p, "lost") ELSE End(p, "idle", 0)
  /\ IF call[p].pc \in Locked THEN Release(p) ELSE UNCHANGED lock
  /\ UNCHANGED <<note, clock>>

OrphanStores(p) ==
  /\ call[p].pc = "lost"
  /\ note' = [note EXCEPT ![call[p].project] = Rendered(call[p].payload, call[p].at)]
  /\ call' = [q \in Procs |->
       IF q = p THEN [Resting EXCEPT !.project = call[p].project, !.payload = call[p].payload]
       ELSE Touched(call[p].project, q)]
  /\ UNCHANGED <<lock, clock, upsets>>

OrphanDies(p) ==
  /\ call[p].pc = "lost" /\ End(p, "idle", 0)
  /\ UNCHANGED <<note, lock, clock, upsets>>

\* An agent edits the note in place, writes one of its own, or deletes it.
EditNote(j) ==
  /\ Upset
  /\ \E n \in {[note[j] EXCEPT !.body = "edited"], [Missing EXCEPT !.body = "edited"], Missing} :
       note' = [note EXCEPT ![j] = n]
  /\ call' = [p \in Procs |-> Touched(j, p)]
  /\ UNCHANGED <<lock, clock>>

Tick ==
  /\ clock < MaxTime /\ clock' = clock + 1
  /\ UNCHANGED <<note, lock, call, upsets>>

Step(p) ==
  \/ Plan(p) \/ PlanFails(p) \/ Acquire(p) \/ Contended(p)
  \/ Read(p) \/ ReadFails(p) \/ Skip(p) \/ StartWrite(p) \/ OverBudget(p)
  \/ Store(p) \/ WriteDone(p) \/ WriteFails(p)

Next ==
  \/ \E p \in Procs, j \in Projects, x \in Payloads, fits \in BOOLEAN : Request(p, j, x, fits)
  \/ \E p \in Procs : Step(p) \/ Crash(p) \/ OrphanStores(p) \/ OrphanDies(p)
  \/ \E j \in Projects : EditNote(j)
  \/ Tick

Spec == Init /\ [][Next]_vars

\* A command that is not killed goes on: its children answer or run into their timeout.
FairSpec == Spec /\ \A p \in Procs : WF_vars(Step(p))
---------------------------------------------------------------------------------
(* Refinement. *)

Phase(p) ==
  LET c == call[p] IN
  IF c.pc \in {"plan", "lock", "read"} THEN "open"
  ELSE IF c.pc = "decide" THEN IF Same(p) THEN "matched" ELSE "open"
  ELSE IF c.pc = "write" THEN IF c.stored THEN "taken" ELSE "open"
  ELSE c.pc

\* The time a request has to report.
Reported(p) ==
  IF Phase(p) = "matched" THEN call[p].seen.at
  ELSE IF Phase(p) \in {"open", "lost"} THEN 0 ELSE call[p].at

Requested == [p \in Procs |-> [phase |-> Phase(p), project |-> call[p].project,
                               payload |-> call[p].payload, at |-> Reported(p)]]

Promise == INSTANCE CurrentState WITH ask <- Requested

---------------------------------------------------------------------------------
(* Properties. *)

TypeOK ==
  /\ note \in [Projects -> Notes]
  /\ lock \in [Projects -> Procs \cup {NoProc}]
  /\ call \in [Procs -> Calls]
  /\ \A p \in Procs : call[p].pc # "idle" =>
       call[p].project \in Projects /\ call[p].payload \in Payloads
  /\ clock \in Times /\ upsets \in 0..MaxUpsets

\* Every request takes effect at one moment or not at all, and its report is true: a
\* success names the time that is in the note, a failure is final (checkpoint.py:1209).
KeepsItsPromise == Promise!Spec

\* Of requests with the same payload, however they overlap and are repeated, one writes:
\* a command stores a note only over one with another fingerprint, unless an agent or an
\* orphaned child came between its read and its write
\* (docs/PERSONAL_TIDEWAY_V2_SPEC.md:870; checkpoint.py:1263).
RepeatWritesNothing ==
  [][\A p \in Procs : Store(p) /\ ~call[p].touched =>
       note[call[p].project].mark # call[p].payload]_vars

\* updated_at of a note does not go back, except by the hand of an agent or by a child
\* that outlived its command (tests/test_checkpoint.py:469).
TimeGoesForward ==
  [][\A p \in Procs :
       Store(p) /\ ~call[p].touched => note'[call[p].project].at >= note[call[p].project].at]_vars

\* No command waits for another one: each comes to an end, even if others are started and
\* hold the lock again and again.
CallsEnd == \A p \in Procs : call[p].pc = "plan" ~> call[p].pc \in Ended \cup {"lost"}
=================================================================================
