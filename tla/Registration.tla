------------------------------ MODULE Registration ------------------------------
(* `ptw project add` and `ptw project add-external`: finding or making the record
   of a checkout, a folder or an external subject in projects.yaml, bringing the
   Basic Memory configuration and its runtime database in line with the registry,
   and taking the registration back when the runtime refuses it.

   A record is its identifier, its kind and its bindings; slug, aliases and display
   name only decide how a new record is called.  memory.project_name and the memory
   root are derived from the identifier, so the identifier stands for both.  Places
   are directories on disk, and a repository's git-common-dir is named by the place
   of the checkout that holds it. *)
EXTENDS Naturals, FiniteSets

CONSTANTS
  Procs,       \* ptw processes
  Repos,       \* Git checkouts: main checkouts, linked worktrees and clones
  Folders,     \* ordinary directories
  Externals,   \* subjects without a directory
  Places,      \* where a checkout or folder can be
  Remotes,
  MainOf,      \* the checkout whose .git a checkout uses
  RemotesOf,   \* the remotes Git reports for a checkout
  Home,        \* where each checkout and folder is at first
  MaxProjects, MaxCalls, MaxUpsets     \* bounds: identifiers, commands, and faults and moves together

Subjects == Repos \cup Folders
Targets == Subjects \cup Externals
Ids == 1..MaxProjects

ASSUME LayoutAssumption ==
  /\ Repos \cap Folders = {} /\ Externals \cap Subjects = {}
  /\ MainOf \in [Repos -> Repos]
  /\ RemotesOf \in [Repos -> SUBSET Remotes]
  /\ \A s \in Repos : RemotesOf[s] = RemotesOf[MainOf[s]]
  /\ Home \in [Subjects -> Places]
  /\ \A s, t \in Subjects : Home[s] = Home[t] => s = t

ASSUME BoundsAssumption ==
  MaxProjects \in Nat /\ MaxCalls \in Nat /\ MaxUpsets \in Nat

VARIABLES
  registry,    \* projects.yaml: a set of records
  config,      \* the 'projects' section of Basic Memory's config.json
  runtime,     \* the projects Basic Memory's database knows
  roots,       \* the central memory directory of each project
  at,          \* where each checkout and folder is
  proc,        \* each process
  issued,      \* how many identifiers have been handed out
  known,       \* history: the project a checkout was first registered as, or 0
  calls, upsets

disk == <<registry, config, runtime, roots>>
vars == <<registry, config, runtime, roots, at, proc, issued, known, calls, upsets>>

Records == [id : Ids, kind : {"git", "directory", "external"},
            paths : SUBSET Places, gcds : SUBSET Places, remotes : SUBSET Remotes]

Ended == {"idle", "done", "refused", "failed", "rolledback", "incomplete"}
Stages == Ended \cup {"capture", "register", "reconcile", "sync", "reindex", "status",
                      "unbind", "restore", "restoreconfig", "prune"}

Snaps == [registry : SUBSET Records, projects : SUBSET Records,
          config : SUBSET Ids, roots : SUBSET Ids]
ProcStates == [pc : Stages, target : Targets \cup {"none"}, reg : SUBSET Records,
               snap : Snaps, id : 0..MaxProjects, created : BOOLEAN, mutated : BOOLEAN,
               undoing : BOOLEAN, broken : BOOLEAN]

NoSnap == [registry |-> {}, projects |-> {}, config |-> {}, roots |-> {}]
Resting == [pc |-> "idle", target |-> "none", reg |-> {}, snap |-> NoSnap, id |-> 0,
            created |-> FALSE, mutated |-> FALSE, undoing |-> FALSE, broken |-> FALSE]

Init ==
  /\ registry = {} /\ config = {} /\ runtime = {}
  /\ roots = [i \in Ids |-> "none"]
  /\ at = Home
  /\ proc = [p \in Procs |-> Resting]
  /\ issued = 0
  /\ known = [s \in Repos |-> 0]
  /\ calls = 0 /\ upsets = 0

Names(reg) == {r.id : r \in reg}

\* An I/O error, a timeout, a failing child process or a killed command.
Fault == upsets < MaxUpsets /\ upsets' = upsets + 1

Becomes(p, stage) == proc' = [proc EXCEPT ![p].pc = stage]

--------------------------------------------------------------------------------
(* The command up to its first write: the registry is read once, and the snapshot
   of both files is taken afterwards. *)

Start(p, t) ==
  /\ proc[p].pc \in Ended
  /\ calls < MaxCalls /\ calls' = calls + 1
  /\ proc' = [proc EXCEPT ![p] = [Resting EXCEPT !.pc = "capture", !.target = t, !.reg = registry]]
  /\ UNCHANGED <<disk, at, issued, known, upsets>>

Capture(p) ==
  /\ proc[p].pc = "capture"
  /\ proc' = [proc EXCEPT
       ![p].snap = [registry |-> registry, projects |-> proc[p].reg, config |-> config,
                    roots |-> {i \in Names(proc[p].reg) : roots[i] # "none"}],
       ![p].pc = "register"]
  /\ UNCHANGED <<disk, at, issued, known, calls, upsets>>

--------------------------------------------------------------------------------
(* Resolution.  The tiers are tried in this order: the path, the git-common-dir, the
   remotes. *)

PathMatches(reg, s) == {r \in reg : at[s] \in r.paths}
GcdMatches(reg, s) == {r \in reg : at[MainOf[s]] \in r.gcds}
\* Mutant: the remote tier is missing.
RemoteMatches_None(reg, s) == {r \in reg : r.paths = {} /\ r.remotes \cap RemotesOf[s] # {}}

RemoteMatches(reg, s) == {r \in reg : r.remotes \cap RemotesOf[s] # {}}

\* Every old path and git-common-dir of a project is missing from disk.  A linked worktree has
\* a file where another checkout has its git-common-dir.
Gone(r) ==
  /\ \A s \in Subjects : at[s] \notin r.paths
  /\ \A s \in Repos : at[s] \notin r.gcds

\* Mutant: the record is built with the number already handed out.
NewRecord_Stale(t, i) ==
  [id |-> i - 1, kind |-> "git", paths |-> IF t \in Subjects THEN {at[t]} ELSE {},
   gcds |-> {}, remotes |-> {}]

\* The record a new identifier gets.
NewRecord(t, i) ==
  [id |-> i,
   kind |-> IF t \in Repos THEN "git" ELSE IF t \in Folders THEN "directory" ELSE "external",
   paths |-> IF t \in Subjects THEN {at[t]} ELSE {},
   gcds |-> IF t \in Repos THEN {at[MainOf[t]]} ELSE {},
   remotes |-> IF t \in Repos THEN RemotesOf[t] ELSE {}]

\* The record is already there: nothing is written.
UseBound(p) ==
  /\ proc[p].pc = "register"
  /\ proc[p].target \in Subjects
  /\ \E r \in PathMatches(proc[p].reg, proc[p].target) :
       proc' = [proc EXCEPT ![p].id = r.id, ![p].pc = "reconcile"]
  /\ UNCHANGED <<disk, at, issued, known, calls, upsets>>

\* Rebound bindings replace the record in the file, and then in the caller's registry.
\* The record is the very object the snapshot holds, so the snapshot changes with it.
SaveBindings(p, r, bound) ==
  LET Replace(set) == (set \ {r}) \cup {bound} IN
  /\ registry' = Replace(proc[p].reg)
  /\ proc' = [proc EXCEPT ![p] =
       [proc[p] EXCEPT !.reg = Replace(proc[p].reg),
                       !.snap = [proc[p].snap EXCEPT !.projects = Replace(proc[p].snap.projects)],
                       !.id = r.id, !.mutated = TRUE, !.pc = "reconcile"]]
  /\ UNCHANGED <<config, runtime, roots, at, issued, known, calls, upsets>>

\* Another worktree of a known repository: its root and missing remotes are added.
AddWorktree(p) ==
  LET t == proc[p].target IN
  /\ proc[p].pc = "register" /\ t \in Repos
  /\ PathMatches(proc[p].reg, t) = {}
  /\ \E r \in GcdMatches(proc[p].reg, t) :
       SaveBindings(p, r, [r EXCEPT !.paths = @ \cup {at[t]}, !.remotes = @ \cup RemotesOf[t]])

UnknownHere(reg, t) == PathMatches(reg, t) = {} /\ GcdMatches(reg, t) = {}

\* A moved repository: the only project with one of its remotes has nothing left on disk.
MoveBindings(p) ==
  LET t == proc[p].target IN
  /\ proc[p].pc = "register" /\ t \in Repos
  /\ UnknownHere(proc[p].reg, t)
  /\ \E r \in RemoteMatches(proc[p].reg, t) :
       /\ RemoteMatches(proc[p].reg, t) = {r} /\ Gone(r)
       /\ SaveBindings(p, r, [r EXCEPT !.paths = {at[t]}, !.gcds = {at[MainOf[t]]},
                                       !.remotes = @ \cup RemotesOf[t]])

\* A live clone needs a confirmation the command does not give, and several projects
\* with the same remote are ambiguous.
Refuse(p) ==
  LET t == proc[p].target IN
  /\ proc[p].pc = "register" /\ t \in Repos
  /\ UnknownHere(proc[p].reg, t)
  /\ LET same == RemoteMatches(proc[p].reg, t) IN
       Cardinality(same) > 1 \/ \E r \in same : ~Gone(r)
  /\ Becomes(p, "refused")
  /\ UNCHANGED <<disk, at, issued, known, calls, upsets>>

\* Mutant: a folder is registered without looking for its path first.
Unregistered_AnyFolder(reg, t) ==
  \/ t \in Repos /\ UnknownHere(reg, t) /\ RemoteMatches(reg, t) = {}
  \/ t \notin Repos

Unregistered(reg, t) ==
  \/ t \in Repos /\ UnknownHere(reg, t) /\ RemoteMatches(reg, t) = {}
  \/ t \in Folders /\ PathMatches(reg, t) = {}
  \/ t \in Externals

\* A new record is appended to the registry the process read, and the file replaced.
Create(p) ==
  LET rec == NewRecord(proc[p].target, issued + 1)
      reg == proc[p].reg \cup {rec} IN
  /\ proc[p].pc = "register"
  /\ issued < MaxProjects /\ issued' = issued + 1
  /\ Unregistered(proc[p].reg, proc[p].target)
  /\ registry' = reg
  /\ proc' = [proc EXCEPT ![p].reg = reg, ![p].id = rec.id, ![p].created = TRUE,
                          ![p].mutated = TRUE, ![p].pc = "reconcile"]
  /\ UNCHANGED <<config, runtime, roots, at, known, calls, upsets>>

\* The atomic write fails: nothing has changed.
RegisterFails(p) ==
  /\ proc[p].pc = "register" /\ Fault
  /\ Becomes(p, "failed")
  /\ UNCHANGED <<disk, at, issued, known, calls>>

--------------------------------------------------------------------------------
(* Reconciliation and the backend.  The command reconciles once by itself, where a
   failure is not taken back, and once more inside complete_project_registration.
   The registry is the one in memory, even when the file has changed since. *)

Expected(p) == Names(IF proc[p].undoing THEN proc[p].snap.projects ELSE proc[p].reg)

\* Where a failure inside complete_project_registration leads.
AfterFailure(p) ==
  IF proc[p].undoing THEN "incomplete"
  ELSE IF ~proc[p].mutated THEN "failed"
  ELSE IF proc[p].created THEN "unbind" ELSE "restore"

MakeRoots(p) ==
  roots' = [i \in Ids |-> IF i \in Expected(p) /\ roots[i] = "none" THEN "empty" ELSE roots[i]]

\* Mutant: projects are added to the configuration and never taken out.
Reconcile_AddsOnly(p) ==
  /\ proc[p].pc \in {"reconcile", "sync"}
  /\ MakeRoots(p)
  /\ config' = config \cup Expected(p)
  /\ Becomes(p, IF proc[p].pc = "reconcile" THEN "sync" ELSE "reindex")
  /\ UNCHANGED <<registry, runtime, at, issued, known, calls, upsets>>

Reconcile(p) ==
  /\ proc[p].pc \in {"reconcile", "sync"}
  /\ MakeRoots(p)
  /\ config' = Expected(p)
  /\ Becomes(p, IF proc[p].pc = "reconcile" THEN "sync" ELSE "reindex")
  /\ UNCHANGED <<registry, runtime, at, issued, known, calls, upsets>>

\* The lock, the executable, a directory or the configuration write fails.
ReconcileFails(p) ==
  /\ proc[p].pc \in {"reconcile", "sync"} /\ Fault
  /\ MakeRoots(p) \/ UNCHANGED roots
  /\ Becomes(p, IF proc[p].pc = "reconcile" THEN "failed" ELSE AfterFailure(p))
  /\ UNCHANGED <<registry, config, runtime, at, issued, known, calls>>

\* Basic Memory takes every configured project into its database; whether it drops the
\* ones it no longer finds there is left open.
Imported == {config, config \cup runtime}

\* The first reindex imports the configuration, and each one fails for a project the
\* database does not know.
Reindex(p) ==
  /\ proc[p].pc = "reindex"
  /\ runtime' \in Imported
  /\ Becomes(p, IF Expected(p) \subseteq runtime' THEN "status" ELSE AfterFailure(p))
  /\ UNCHANGED <<registry, config, roots, at, issued, known, calls, upsets>>

ReindexFails(p) ==
  /\ proc[p].pc = "reindex" /\ Fault
  /\ runtime' \in {runtime} \cup Imported
  /\ Becomes(p, AfterFailure(p))
  /\ UNCHANGED <<registry, config, roots, at, issued, known, calls>>

\* A repository is known once a project that carries its remotes has been reported for it.
Remember(p) ==
  LET t == proc[p].target IN
  IF /\ t \in Repos /\ ~proc[p].undoing /\ known[t] = 0
     /\ \E r \in proc[p].reg : r.id = proc[p].id /\ r.remotes \cap RemotesOf[t] # {}
  THEN [known EXCEPT ![t] = proc[p].id] ELSE known

Status(p) ==
  /\ proc[p].pc = "status"
  /\ IF Expected(p) \subseteq runtime
     THEN /\ Becomes(p, IF proc[p].undoing THEN "rolledback" ELSE "done")
          /\ known' = Remember(p)
     ELSE /\ Becomes(p, AfterFailure(p))
          /\ UNCHANGED known
  /\ UNCHANGED <<disk, at, issued, calls, upsets>>

StatusFails(p) ==
  /\ proc[p].pc = "status" /\ Fault
  /\ Becomes(p, AfterFailure(p))
  /\ UNCHANGED <<disk, at, issued, known, calls>>

--------------------------------------------------------------------------------
(* Taking a registration back. *)

\* `project remove --local`; a project the runtime does not know counts as removed.
Unbind(p) ==
  /\ proc[p].pc = "unbind"
  /\ runtime' = runtime \ {proc[p].id}
  /\ config' \in {config, config \ {proc[p].id}}
  /\ Becomes(p, "restore")
  /\ UNCHANGED <<registry, roots, at, issued, known, calls, upsets>>

\* The rollback goes on, and is reported as incomplete.
UnbindFails(p) ==
  /\ proc[p].pc = "unbind" /\ Fault
  /\ runtime' \in {runtime, runtime \ {proc[p].id}}
  /\ proc' = [proc EXCEPT ![p].broken = TRUE, ![p].pc = "restore"]
  /\ UNCHANGED <<registry, config, roots, at, issued, known, calls>>

RestoreRegistry(p) ==
  /\ proc[p].pc = "restore"
  /\ registry' = proc[p].snap.registry
  /\ Becomes(p, "restoreconfig")
  /\ UNCHANGED <<config, runtime, roots, at, issued, known, calls, upsets>>

\* The first file that cannot be restored ends the restoration.
RestoreFails(p) ==
  /\ proc[p].pc \in {"restore", "restoreconfig"} /\ Fault
  /\ Becomes(p, "incomplete")
  /\ UNCHANGED <<disk, at, issued, known, calls>>

\* A binding update is followed by a second reconciliation, with the restored registry.
Concluded(p) ==
  IF ~proc[p].created THEN "sync" ELSE IF proc[p].broken THEN "incomplete" ELSE "rolledback"

\* Mutant: the configuration is left as it is.
RestoreConfig_Kept(p) ==
  /\ proc[p].pc = "restoreconfig"
  /\ proc' = [proc EXCEPT ![p].reg = proc[p].snap.projects, ![p].undoing = ~proc[p].created,
                          ![p].pc = Concluded(p)]
  /\ UNCHANGED <<disk, at, issued, known, calls, upsets>>

RestoreConfig(p) ==
  /\ proc[p].pc = "restoreconfig"
  /\ config' = proc[p].snap.config
  /\ proc' = [proc EXCEPT
       ![p].reg = proc[p].snap.projects,
       ![p].undoing = ~proc[p].created,
       ![p].pc = IF proc[p].created /\ ~proc[p].broken /\ proc[p].id \notin proc[p].snap.roots
                 THEN "prune" ELSE Concluded(p)]
  /\ UNCHANGED <<registry, runtime, roots, at, issued, known, calls, upsets>>

\* Mutant: the whole directory is removed.
Prune_Recursive(p) ==
  /\ proc[p].pc = "prune"
  /\ roots' = [roots EXCEPT ![proc[p].id] = "none"]
  /\ Becomes(p, Concluded(p))
  /\ UNCHANGED <<registry, config, runtime, at, issued, known, calls, upsets>>

\* rmdir, which refuses a directory with notes.
Prune(p) ==
  /\ proc[p].pc = "prune"
  /\ roots' = [roots EXCEPT ![proc[p].id] = IF @ = "empty" THEN "none" ELSE @]
  /\ Becomes(p, Concluded(p))
  /\ UNCHANGED <<registry, config, runtime, at, issued, known, calls, upsets>>

--------------------------------------------------------------------------------
(* Everything else that happens. *)

\* A killed command leaves the files as they are.
Crash(p) ==
  /\ proc[p].pc \notin Ended /\ Fault
  /\ proc' = [proc EXCEPT ![p] = Resting]
  /\ UNCHANGED <<disk, at, issued, known, calls>>

\* The user moves a checkout or a folder while no command is running on it.
Move(s, to) ==
  /\ \A t \in Subjects : at[t] # to
  /\ \A p \in Procs : proc[p].pc \in Ended
  /\ upsets < MaxUpsets /\ upsets' = upsets + 1
  /\ at' = [at EXCEPT ![s] = to]
  /\ UNCHANGED <<disk, proc, issued, known, calls>>

\* An agent writes a note into a project the runtime serves.
WriteNote(i) ==
  /\ i \in runtime /\ roots[i] = "empty"
  /\ roots' = [roots EXCEPT ![i] = "notes"]
  /\ UNCHANGED <<registry, config, runtime, at, proc, issued, known, calls, upsets>>

Command(p) ==
  \/ Capture(p)
  \/ UseBound(p) \/ AddWorktree(p) \/ MoveBindings(p) \/ Refuse(p) \/ Create(p)
  \/ Reconcile(p) \/ Reindex(p) \/ Status(p)
  \/ Unbind(p) \/ RestoreRegistry(p) \/ RestoreConfig(p) \/ Prune(p)

Failure(p) ==
  \/ RegisterFails(p) \/ ReconcileFails(p) \/ ReindexFails(p) \/ StatusFails(p)
  \/ UnbindFails(p) \/ RestoreFails(p) \/ Crash(p)

Next ==
  \/ \E p \in Procs, t \in Targets : Start(p, t)
  \/ \E p \in Procs : Command(p) \/ Failure(p)
  \/ \E s \in Subjects, to \in Places : Move(s, to)
  \/ \E i \in Ids : WriteNote(i)

Spec == Init /\ [][Next]_vars
--------------------------------------------------------------------------------
(* Properties. *)

\* Every variable holds a value the program can give it (project_registration_runtime.py:30,
\* registry.py:307).
TypeOK ==
  /\ registry \subseteq Records
  /\ config \in SUBSET Ids /\ runtime \in SUBSET Ids
  /\ roots \in [Ids -> {"none", "empty", "notes"}]
  /\ at \in [Subjects -> Places]
  /\ issued \in 0..MaxProjects
  /\ known \in [Repos -> 0..MaxProjects]
  /\ calls \in 0..MaxCalls /\ upsets \in 0..MaxUpsets
  /\ proc \in [Procs -> ProcStates]

\* When `project add` reports success, the project is in projects.yaml, the Basic Memory
\* configuration lists exactly the registered projects, the runtime knows all of them and
\* each has its memory directory, whatever earlier failed or interrupted commands left
\* behind (cli/main.py:767; docs/MIGRATION_5D_READINESS_AUDIT.md:475).
SuccessMeansReady ==
  \A p \in Procs : proc[p].pc = "done" =>
    /\ proc[p].id \in Names(registry)
    /\ config = Names(registry)
    /\ Names(registry) \subseteq runtime
    /\ \A i \in Names(registry) : roots[i] # "none"

\* "was rolled back" is the truth: the registry is the one before the command; a new
\* project is out of the configuration and the runtime and leaves no empty directory,
\* and after a binding update the runtime serves the restored registry
\* (project_registration_runtime.py:217).
RollbackExact ==
  \A p \in Procs : proc[p].pc = "rolledback" =>
    /\ registry = proc[p].snap.registry
    /\ IF proc[p].created
       THEN /\ config = proc[p].snap.config
            /\ proc[p].id \notin runtime
            /\ roots[proc[p].id] = "empty" => proc[p].id \in proc[p].snap.roots
       ELSE /\ config = Names(registry)
            /\ Names(registry) \subseteq runtime

\* The tiers keep the bindings of different projects apart by themselves: no directory and
\* no git-common-dir is ever bound to two projects, which the validation before each write
\* would refuse (registry.py:616).
BindingsExclusive ==
  \A r1, r2 \in registry : r1 # r2 =>
    /\ r1.id # r2.id
    /\ r1.paths \cap r2.paths = {} /\ r1.gcds \cap r2.gcds = {}

\* Another project is bound to the place of a checkout or of its git-common-dir.
Contested(reg, t, i) ==
  \E r \in reg : r.id # i /\ (at[t] \in r.paths \/ at[MainOf[t]] \in r.gcds)

\* A repository with a remote that was registered once is found again as the same project
\* after any moves, failures and interrupted commands, or the command refuses; the one
\* exception is a place still bound to another project, which the path tier prefers
\* (project_resolver.py:890; docs/PERSONAL_TIDEWAY_V2_SPEC.md:324).
KnownRepositoryKeepsItsProject ==
  [][\A p \in Procs :
       LET t == proc[p].target IN
       proc[p].pc = "register" /\ proc'[p].pc = "reconcile" /\ t \in Repos =>
         \/ known[t] = 0 \/ Contested(proc[p].reg, t, known[t])
         \/ proc'[p].id = known[t]]_vars

\* No registration and no rollback removes a memory directory that has notes
\* (project_registration_runtime.py:154).
NotesKept ==
  [][\A i \in Ids : roots[i] = "notes" => roots'[i] = "notes"]_vars

\* docs/PERSONAL_TIDEWAY_V2_SPEC.md:865: "Two simultaneous project auto-registration
\* attempts converge on one record."  The file is read, and written whole, without a lock
\* (registry.py:816).
SimultaneousRegistrationsConverge ==
  \A p, q \in Procs :
    /\ p # q /\ proc[p].pc = "done" /\ proc[q].pc = "done"
    /\ proc[p].target = proc[q].target /\ proc[p].target \in Repos
    => proc[p].id = proc[q].id
=============================================================================
