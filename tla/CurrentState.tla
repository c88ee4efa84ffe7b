------------------------------ MODULE CurrentState ------------------------------
(* What `ptw checkpoint` promises about the one current-state note of a project,
   whatever Basic Memory and other commands do meanwhile: a request takes effect at
   one moment, or not at all.

   A request that reports "written" put its payload into the note, with the reported
   time, while it ran; one that reports "unchanged" met a note with its fingerprint; one
   that reports a failure may have taken effect before it did so, and never does
   afterwards.  Only a request whose command was killed may take effect later, once. *)

CONSTANTS Procs, Projects, Payloads, Times, Notes

VARIABLES
  note,   \* the note of each project
  ask     \* the request of each process

vars == <<note, ask>>

\* The note a checkpoint leaves: its content, its fingerprint and its updated_at.
Written(x, t) == [body |-> x, mark |-> x, at |-> t]

Closed == {"idle", "written", "unchanged", "failed"}

Init ==
  /\ note \in [Projects -> Notes]
  /\ \A p \in Procs : ask[p].phase = "idle"

Becomes(p, phase, t) ==
  ask' = [ask EXCEPT ![p] = [phase |-> phase, project |-> ask[p].project,
                             payload |-> ask[p].payload, at |-> t]]

Ask(p, j, x) ==
  /\ ask[p].phase \in Closed
  /\ ask' = [ask EXCEPT ![p] = [phase |-> "open", project |-> j, payload |-> x, at |-> 0]]
  /\ UNCHANGED note

Take(p, t) ==
  /\ ask[p].phase = "open"
  /\ note' = [note EXCEPT ![ask[p].project] = Written(ask[p].payload, t)]
  /\ Becomes(p, "taken", t)

\* The note already carries the fingerprint.
Match(p) ==
  /\ ask[p].phase = "open"
  /\ note[ask[p].project].mark = ask[p].payload
  /\ Becomes(p, "matched", note[ask[p].project].at)
  /\ UNCHANGED note

Report(p) ==
  /\ \/ ask[p].phase = "taken" /\ Becomes(p, "written", ask[p].at)
     \/ ask[p].phase = "matched" /\ Becomes(p, "unchanged", ask[p].at)
  /\ UNCHANGED note

Fail(p) ==
  /\ ask[p].phase \in {"open", "taken"}
  /\ Becomes(p, "failed", 0)
  /\ UNCHANGED note

\* The command is killed: its request is over, or is still on its way.
Die(p) ==
  /\ \/ ask[p].phase \in {"open", "taken", "matched"} /\ Becomes(p, "idle", 0)
     \/ ask[p].phase = "open" /\ Becomes(p, "lost", 0)
  /\ UNCHANGED note

LateTake(p, t) ==
  /\ ask[p].phase = "lost"
  /\ note' = [note EXCEPT ![ask[p].project] = Written(ask[p].payload, t)]
  /\ Becomes(p, "idle", 0)

LateDrop(p) ==
  /\ ask[p].phase = "lost" /\ Becomes(p, "idle", 0)
  /\ UNCHANGED note

\* Agents edit the note, and delete it; what they leave is not what a request asked for.
Edit(j, n) ==
  /\ n.body \notin Payloads
  /\ note' = [note EXCEPT ![j] = n]
  /\ UNCHANGED ask

Next ==
  \/ \E p \in Procs, j \in Projects, x \in Payloads : Ask(p, j, x)
  \/ \E p \in Procs, t \in Times : Take(p, t) \/ LateTake(p, t)
  \/ \E p \in Procs : Match(p) \/ Report(p) \/ Fail(p) \/ Die(p) \/ LateDrop(p)
  \/ \E j \in Projects, n \in Notes : Edit(j, n)

Spec == Init /\ [][Next]_vars
=================================================================================
