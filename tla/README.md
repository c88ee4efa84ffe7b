# Personal Tideway in TLA+

Personal Tideway (`src/src/personal_tideway`) keeps one home directory with rules, skills, MCP servers,
projects and memory, and projects it into two coding clients, Codex and agy (Gemini). It is a command
line: every operation is a short process that reads files, decides, and writes files. Nothing runs
between commands, but nothing stops two commands from running at once either, the clients and the user
edit the same files, and any command may die between two writes. The specifications here are about that:
what the files look like after every order of steps, failures and edits.

Paths below are relative to `src/personal_tideway/` in the repository.

## 1. Inventory

| Component | State it keeps | Operations | Interacts with | Modelled |
|---|---|---|---|---|
| Schema migration (`core/migration.py`, `core/migration_apply.py`) | v1 and v2 trees, backup bundles with `manifest.json`, the migration lock | `plan_migration`, `apply_migration`, `rollback_migration` | client rules and skills, config, memory | `Migration` |
| Sync and resolve (`core/sync.py`, `conflicts.py`, `mcp.py`, `rules.py`, `skills.py`, `adapters/`) | `state.json`, MCP definitions, fragments, skills, conflict artifacts, the clients' files | `sync_workspace`, `resolve_conflict` | client files | `Sync` |
| Registration (`core/registry.py`, `project_resolver.py`, `project_registration_runtime.py`, `basic_memory_backend.py`, `basic_memory_reconciliation.py`, `external_registration.py`) | `projects.yaml`, Basic Memory config, its runtime, memory directories | `project add` with its rollback | Basic Memory (subprocess), git | `Registration` |
| Checkpoints (`core/checkpoint.py`) | one note per project in Basic Memory, a lock per project | `write_checkpoint`: read, compare, write | Basic Memory subprocess with a timeout | `Checkpoint`, `CurrentState` |
| Context retrieval (`core/context_retrieval.py`, the hook handlers of `core/hooks.py`, `cli/bridge.py`) | none | find the project, one or two searches, gather, cut to the limits | Basic Memory subprocess | `Context` |
| Hooks (`core/hooks.py`, `adapters/`) | `hooks.json` of both clients, a feature flag in `config.toml` | plan, install, remove | client files, sync | `Hooks` |
| Installer (`core/basic_memory_installer.py`, `basic_memory_runtime.py`) | an isolated tool directory, bootstrap config, a lock | `ptw init` | `uv`, shares its lock and config with reconciliation | `Install` |
| Behavioral evidence (`core/behavioral_evidence.py`) | seal key, one record per client | store, load | the files of `Hooks` and of sync | `Evidence` |
| Discovery, status, assurance (`core/discovery.py`, `status.py`, `assurance.py`) | none | inspect, classify | everything, read only | no: keeps no state, its results are text |
| Workspace files (`core/workspace.py`, `project.py`, `memory.py`, `config.py`, `models.py`) | directories and dataclasses | create, parse | all | `init_workspace` in `Install`; else as state of the modules above |
| Utilities (`utils.py`, `backup.py`, `secrets.py`) | none | atomic write, hash, copy, redact | all | as the atomicity of their callers |
| CLI (`cli/`) | none | one core call per command | all | `project add`, `init`, `hook`, `context` in the modules of their cores |

What is hard in each, and what makes it right:

* **Migration** is a transaction over a tree it does not own. It plans twice, once before and once under
  the lock; backs up; mutates in about ten kinds of steps; and either completes or rolls back, on the
  spot or in a later command. Right means: one mutator, no change of a drifted source, every
  restorable bundle complete, everything rewritten within reach of a rollback, and a completed
  migration that did all of its work.
* **Sync** compares three versions of every object (home, client, last recorded) and writes one over
  another. It takes no lock and records its state only at the end. Right means: an edit is never replaced
  by somebody else's version without a conflict; quiet syncs reach agreement; resolved conflicts stay so.
* **Registration** finds a project by three tiers of evidence, writes two files and drives a subprocess,
  and undoes all of it when a later step fails. Right means: success means the whole backend is ready,
  "rolled back" is true, and projects stay apart and keep their identity when checkouts move.
* **Checkpoints** replace one note that agents also edit, through child processes that may fail after they
  have done their work and may outlive the command. Right means: a request takes effect at one moment or not
  at all, its report is true, repeats do not write, `updated_at` does not go back, and nobody waits.
* **Hooks** take two files for one effect, and decide on one look at them, build on a second and write after a
  third; sync and the client write the same files. Right means: what is reported is so, the preview tells what
  the install does, an install that was stopped between the files can be completed, and nothing of the user's is
  written over unseen without a copy.
* **The installer** runs a long foreign program under a lock on a file that anybody may remove, and publishes
  a config beside a program that knows of no lock. Right means: one at a time, "ready" is true whatever
  was left half done before, projects leave the config only by a reconciliation,
  and a command that is left alone succeeds.
* **Evidence** is sealed with a key that the first prober makes in two steps. Right means: the key outlives every
  record, and a record is given out only about the present files.
* **Context** merges two searches that need not agree and cuts the result by two limits. Right means: the longest
  bundle that fits, its length counted as it is rendered, no silent omission, each note once.

`PROJECT.json` lists the hazards with their lines and the properties that would catch them. Hazards that the models contain
and that no property decides, because nothing in the repository says which outcome is meant: a rules block whose body is
blank (`migration_apply.py:1224`) is rewritten with the text `None`; resolving in favour of a linked skill removes it first
(`sync.py:681`); there is one conflict artifact per object, so the second client to diverge replaces the record of the first
(`conflicts.py:61`), and resolving rules uses the recorded text, which may be older than the client's (`sync.py:634`); a
repository moved to a path bound to another project is taken for that project (`project_resolver.py:890`); a checkpoint that
would repair a note whose text an agent has changed is skipped as unchanged (`checkpoint.py:1263`); an MCP definition that the
user writes during an install is replaced after it (`cli/main.py:1236`); an init may report ready a program that another
init, whose health check timed out, has begun to replace (`basic_memory_installer.py:754`).

## 2. Modules

```
Migration      <- MCMigration     <- (2 configurations)     <- MigrationProofs
Sync           <- MCSync          <- (2 configurations)     <- SyncProofs
Registration   <- MCRegistration  <- (2 configurations)     <- RegistrationProofs
CurrentState   <- Checkpoint      <- MCCheckpoint           <- CheckpointProofs
Hooks          <- MCHooks                                   <- HooksProofs
Evidence       <- MCEvidence                                <- EvidenceProofs
Context        <- MCContext                                 <- ContextProofs
Install        <- MCInstall       <- (2 configurations)     <- InstallProofs
```

`Checkpoint` instantiates `CurrentState`, the abstract specification it implements. The components share
no variable. Where two of them write one file the module of the file has both as actions: sync writes its servers
into the config of `Hooks`, reconciliation takes the lock and writes the config of `Install`, and
the files of a client change under `Evidence` in every way. The others meet in files whose owners do not
overlap in time (a migration creates the v2 home, which sync and registration use; a checkpoint or a retrieval
looks its project up once). Deliberately wrong variants
of a definition (`Name_Variant`, marked *mutant* in a comment) stand before the definition they alter.
No specification uses them; they record which bug each property would notice.

### Migration

State: `fs` maps every file and directory the migration touches to an abstract content; `mstate`,
`backup`, `origin`, `mcreated` are the bundle (manifest state, payloads, what the sources were, the
list of created destinations on disk); `lock`; and per process its `pc`, its bundle, what it saw, what
is left to do and what it created. `Plan` is the planning before the lock, `Lock` the `flock` that is refused and not waited for (`migration_apply.py:344`),
`Revalidated` the second plan (`migration_apply.py:767`), `Prepare`/`Stage`/`BackUp`/`Arm` the
bundle, then one action for each mutation in the code's order (`InitDirs` ... `DropMemory`,
`Complete`). `MutationFails`, `CopyFails`, `Abort`, `AbortFails` are the automatic rollback;
`ReadManifest` ... `RollbackFails` the command `rollback`. `Crash`, `EditSource` and `WriteNote` are the
environment.

Abstractions: a v2 directory tree is one node; copying a directory is atomic except for `CopyFails`,
which leaves a part; edits happen only while the lock is free, the assumption stated in
`docs/MIGRATION_5D_READINESS_AUDIT.md`; failures before the bundle exists change nothing and are covered by
`Crash`. Not modelled: refusals for symlinks, owners and modes; retention; JSON details. Rules with blank
markers, which the code rewrites with the text `None`, are modelled without a property.

### Sync

State: one MCP server (`mcp` at its three places), the shared and own rule fragments and each client's
block, one skill at its three places with the link mode `link`, `base` (`state.json`), `conflict` (the
artifacts), and the program: `pc`, the loaded state `st`, and what it has read (`srv`, `cl`, `out`,
`tree`, `div`). `Begin` starts a sync; `McpMerge`, `McpDeleted`, `McpWrite`, `RulesMerge`,
`SkillMerge` (per client) and `Save` are its steps; `Resolve` is the command; `Edit` is any edit of any
file, in any state; `Crash` stops a sync between steps and also inside a skill installation, leaving a
partial tree. `quiet`, `calm`, `settled` and `raced` are history variables for the properties.

Objects of one kind are merged independently and share only `state.json`, hence one of each.
Not modelled: `targets` and per-client server overrides, merging of `env`, scopes other than shared,
the first import of a skill only a client has, backups, a second sync at the same time.

### Registration

State: `registry` (`projects.yaml`; an absent file is an empty one), `config` and `runtime` (Basic Memory),
`roots` (memory directories), `at` (where each checkout is), and per process `pc`, target, the registry in
memory, the rollback snapshot and what it did. `Start` loads the registry, `Capture` takes the snapshot,
then one of `UseBound`, `AddWorktree`, `MoveBindings`, `Refuse`, `Create` resolves the target (path, then
git common directory, then remotes, `project_resolver.py:890`), and `Reconcile`, `Reindex`, `Status`
finish. Each has a failing twin; a failure leads through `Unbind`, `RestoreRegistry`, `RestoreConfig` and
`Prune` in the order of `project_registration_runtime.py:159`. The snapshot keeps both the file's bytes
and the record objects, and an in-place update reaches the latter, as in the code.

Basic Memory is external: importing a config may or may not prune names, and `project remove` may or may not
rewrite the config. Not modelled: nested paths, slugs, aliases, dry runs, refusals of malformed input. A path
whose state cannot be read counts as alive.

### Checkpoint

State: `note` (what Basic Memory holds for each project: its content, the fingerprint in it, its
`updated_at`), `lock` (the `flock` of each project), `clock`, and per process `call`: where the command is, what
it was asked, what it read, the timestamp it took and whether its child has stored the note. `Request` and `Plan`
are `plan_checkpoint_write`; `Acquire` and `Contended` the non-blocking lock (`checkpoint.py:800`); `Read`,
`Skip`, `StartWrite`, `OverBudget`, `WriteDone` the steps of `execute_checkpoint_plan`, with `PlanFails`,
`ReadFails` and `WriteFails` its error exits, all of which give the lock back. `Store` is the moment the child puts
the note in its place: `WriteFails` may come before or after it. A child that times out is killed and
waited for by `subprocess.run`, so it does nothing later. A command that is killed leaves its child
running without the lock, because Python opens files so that children do not inherit them: `Crash`, then
`OrphanStores` or `OrphanDies`. `EditNote` is an agent that edits the text and keeps the fingerprint, writes a
note of its own, or deletes it.

`CurrentState` says what a caller may rely on, in terms of requests alone: a request is open until it takes
effect (`Take`), meets its own fingerprint (`Match`), or fails; "written" and "unchanged" are reported only after
that, with the time then in the note; a failure is final; only the request of a killed command may take
effect afterwards, once. The mapping `Requested` reads the phase of a request off the command: it is taken
when the note is stored and matched when the note has been read.

Abstractions: `fits` says whether the rendered note is within `max_chars` (its length does not depend on the
time); payloads have different fingerprints (SHA-256 of the canonical fields); Basic Memory replaces a note at
once and says 0 only when it has; there is one clock and it does not go back. Not modelled: validation of the
text, dry runs (no step at all), injected runners and clocks, hostile lock files.

### Hooks

State: `hooks` and `config`, the two files of the client at issue, and per process `call`: where it is, what it is
about to write (`doc`, `conf`), what it has put into `backups/`, and what the preview said before it. An entry is
canonical, odd (a modified one, or one in a place of its own), or not there; `feature` is
`features.hooks`, `clash` a hook in `config.toml` itself. `Status` and `Plan` are the functions of these names.
`Request` starts `hook install`, `hook remove` or a sync; `Inspect` is the first look of the Codex commands
(`hooks.py:950`), `LoadToInstall` ... `LoadRefuses` the second, `Save` the third and the backup,
`Replace` the write; `Enable`, `SaveConfig`, `ReplaceConfig` the same for `config.toml`, for the
feature or for the servers of sync. `Stop` is a kill or an I/O error anywhere, `EditHooks` and `EditConfig` the client
and the user. `alone`, `touched` and `unsaved` are history: who else has changed a file since the command began, read
it, copied it.

Abstractions: everything else in a file is one text; a byte-for-byte different file that means the same is the same.
Not modelled: refusals of symlinks and large files, dry runs, the handlers themselves (see Context).

### Evidence

State: `files` (`hooks.json` and config of each client), `key` (made and, a step later, filled), `record` (what it is
about, the key of its seal, its age) and `probe`. A storing prober goes through `ReadHooks`, `ReadConfigToStore`,
`OpenKey`, `FillKey`, `Seal`; a loading one through `ReadRecord`, `ReadHooks`, `ReadConfigToLoad`: each read is a step,
because each file is opened by itself. `Stop` kills, `Spoil` lets 30 days pass or damages a record, `Rewrite` changes a
file. Digests are what they are digests of. Not modelled: the path and ownership checks, which only refuse.

### Context

A behaviour is one command. `Ask` is its start: `HandleContext`, `PreInvocation`, `SessionStart` and `ReadNote` are the
four callers with their payload checks, and `Resolves` is `resolve_cli_project`. `SearchState`, `SearchQuery` and `Read`
take any answer of Basic Memory; `SearchFails` and `AnswerRefused` end the command. `Collect` gathers, `Collected` cuts to
`max_items`, and `Keep`, `Stop`, `Finish` are the loop of `build_bounded_context_bundle`. A note is its permalink, the
length of its header lines and the length of its body; `Shorten` is `_truncate_item_to_fit`, marker included, in lengths.
Not modelled: the texts themselves (escaping, control characters, trailing blanks), the plan preview.

### Install

State: `files` (two that stand for all that `init_workspace` makes), `registry` (`projects.yaml`), `config` (its projects, and
the name of the process whose temporary file is its second name), `tool` (`"writing"` while one uv is at work on it alone),
`mcp`, `lockFile` (how often the lock file has been removed, hence which file has the name), `orphans` (uv processes without a
parent) and `call`. `Request` is the preflight of `ptw init`, or a registration that has loaded the registry, perhaps saved it
with new projects, and calls the reconciliation with it (`reg`); `MakeFile`; `OpenLock` and `Acquire` (open, then `flock`, then
the check that the name is still that of the locked file); `ReadConfig`, `Link`, `Unlink` for the bootstrap config;
`PreHealth`, `Spawn`, `UvEnds`, `Check` for the program, where any failure of the first check leads to a forced install
(`basic_memory_installer.py:754`), a good program's timeout included; `SaveMcp` after the lock. `Load` and `Write` are the
reconciliation: the projects of the config become those of `reg`, and all others go. `Stop` is a kill, whose uv goes on
(`OrphanEnds`); `Fails`, `UvFails` and `HealthFails` are errors; `RemoveLock`, `Spoil` and `WriteConfig` are the user, Basic
Memory and the rollback of a registration, which writes `projects.yaml` and `config.json` without the lock
(`project_registration_runtime.py:188`). `alone`, `robbed` and `fresh` are history: undisturbed, robbed of the lock file, and
only commands have changed anything and none has given the program up.

Abstractions: loading the registry and saving it with a project is one step (that two of these lose a record is in
`Registration`, as are the steps that follow the reconciliation); a directory is made and closed by each
command that needs it. Not modelled: owners and modes, the environment of uv.

## 3. Runs

| Run | Instance | Shows |
|---|---|---|
| `migration_race` | 2 processes, 2 bundles, 3 homes, 1 mishap, symmetry | type, `OneMutator`, `DriftNeverApplied`, `MovedFaithfully` |
| `migration_mishaps` | 1 process, 2 bundles, 2 mishaps, fair | `BackupsComplete`, `Reversible`, `RollbackRestores`, `MemoryNeverLost`, `LockReleased` |
| `sync` | 2 definitions, 2 texts, both link modes, 2 events, symmetry | type, `EditsSurviveSync`, `QuietSyncsConverge`, `ResolveSettles` |
| `registration` | checkout, linked worktree, fork, folder, external; 3 projects, 3 calls, 3 upsets | type, `SuccessMeansReady`, `RollbackExact`, `BindingsExclusive`, `KnownRepositoryKeepsItsProject`, `NotesKept` |
| `checkpoint` | 2 processes, 1 project, 2 payloads, clock to 2, 2 upsets, fair | type, `KeepsItsPromise` (it implements `CurrentState`), `RepeatWritesNothing`, `TimeGoesForward`, `CallsEnd` |
| `hooks` | 2 processes, either client, 2 texts, 2 upsets, symmetry | type, `ReportsAreTrue`, `PlanForetells`, `NothingLostUnseen` |
| `evidence` | 2 probers, 2 clients, 2 contents, 2 keys, 2 upsets, symmetry | type, `SealsStay`, `GivenIsCurrent` |
| `context` | any request up to 3 notes and 16 characters, answers of up to 2 of 12 notes | type, `BundleIsLongest`, `NothingDroppedSilently`, `OneVersionEach` |
| `install` | 2 processes, 2 projects, 2 upsets, symmetry | type, `OneAtATime`, `ReadyMeansReady`, `UndisturbedSucceeds`, `ProjectsStay` |
| `sync_skill`, `registration_race`, `install_link` | small | three statements of the documents that the code does not keep |

The bounds are named constants. *Mishaps* (`MaxMishaps`) are crashes, I/O errors and outside edits of a
migration together: one in any place for two processes, two for one process (a crash and then a failing
rollback; an edit and then an error). *Events* of a sync are edits and crashes: two is what a
conflict needs, or a crash followed by an edit, and syncs and resolutions between them are unlimited.
*Upsets* of registration are faults, crashes and moves; three allow a failure, a failing rollback
and a retry, or a move after a crash. *Upsets* of checkpoints are kills and edits by agents; failing
children are unlimited, and so are requests. One project is enough because commands for different projects share
nothing but the clock. *Upsets* of hooks are kills and edits by the client: one between the two files and one
before the retry; two commands at once cover every pair of writers. *Upsets* of evidence are edits, kills and damage: two
change both files between two reads. *Upsets* of the installer are kills, failures, removals of the lock file and edits;
two let one command die, its orphan run on and the lock file go, or bring projects into the config and then a failure; two
projects tell a registry from a newer one. In `context` headers of 2 and 3, bodies of 0 and 4,
a marker of 2 and limits of 1 to 16 put every comparison of the budget on both sides and on its edge, and 2 notes a
page with two permalinks of the current state give every overlap of the two searches. Two definitions and two texts tell "mine" from "yours"; where a
third version matters (`sync_skill`) there are three. Two bundles are enough for a bundle to be undone while
another is being made. Symmetry is over processes and bundles, and over definitions and texts, which no
definition tells apart; `migration_mishaps` has a liveness property and therefore none.

Deadlock is checked except in the registration runs, which stop when their calls are used up, and in `context`, where a
behaviour is one command. In the others a command can always be started.

Fairness is assumed in `migration_mishaps` and `checkpoint`. In the first, a call that has started takes its next step (weak
fairness of `Apply` and `Rollback` of a started process). The code is a straight line of system calls with no
waiting but the lock, so a process that neither dies nor is stopped goes on; nothing is assumed about
commands being issued, edits, or crashes. With it, `LockReleased` says that every exit of the two functions
returns the lock. In `checkpoint` a command that is not killed takes its next step (weak fairness of `Step(p)`):
its children answer or run into their timeout. With it, `CallsEnd` says that a command ends even when others take
the lock again and again, which needs the refusal of `LOCK_NB`: the mutant that waits starves.

The exceptions written into properties are facts about the code, found by TLC. In `QuietSyncsConverge` a
skill edited between its merge and the second hash (`sync.py:506`) is recorded as synced. In
`KnownRepositoryKeepsItsProject` a repository moved onto a path that is still bound to another project is taken
for that project, because the path tier comes first. In `NothingLostUnseen` what is written between a command's read and
its write goes with the rest of the file, and what is written between the backup and the write is in neither. In
`GivenIsCurrent` the loader does not see a change of `hooks.json` between its two reads. In `OneAtATime` a process that
holds the lock does not notice that the lock file is gone. In `UndisturbedSucceeds` a config with two names stops every
command (`install_link`). In `ReadyMeansReady` another command may be replacing the program that is reported, because its own
health check of it failed, and the promise ends when that command fails or is killed. In `ProjectsStay` a reconciliation takes
out what the registry it was given lacks, even if that registry is an old one (section 4).

## 4. Where the code and its documents differ

Each of these has a run in which TLC finds the difference.

1. `sync_skill`: a skill edited in both clients is taken from Codex and installed over the agy copy with no
   conflict (`sync.py:485`), against the docstring at `sync.py:80`.
2. `registration_race`: the registry is read and written whole without a lock (`registry.py:816`);
   `docs/PERSONAL_TIDEWAY_V2_SPEC.md:865` says two registrations converge on one record.
3. `install_link`: an init that is killed, or whose `unlink` fails, after the bootstrap config got its name leaves a file
   with two links (`basic_memory_installer.py:631`), which every later init and reconciliation refuses; the docstring
   at `basic_memory_installer.py:695` calls the installer idempotent.

These are behaviours of the models and have no run of their own:

* The list of created destinations reaches the manifest only at the end or on a caught error
  (`migration_apply.py:1013`). After a crash between, rollback reports success and leaves the created directories,
  against `README.md:97-99`.
* Rollback removes the created v2 directories with notes written since (`migration_apply.py:1685`), against
  `docs/PERSONAL_TIDEWAY_V2_SPEC.md:839`.
* The early return for a bundle already rolled back looks at a manifest read before the lock
  (`migration_apply.py:1601`), against `docs/MIGRATION_5D_READINESS_AUDIT.md:308`.
* A server adopted from agy is recorded as if Codex had it (`sync.py:241`), and the next sync, with no edit between,
  takes the old version back from Codex; `docs/PERSONAL_TIDEWAY_V2_SPEC.md:870` says repeated syncs are idempotent.
* Resolving a skill in favour of a client that holds the managed link deletes the canonical directory, then fails
  (`sync.py:681`), against the docstring at `sync.py:531`.
* A rolled-back `project add` leaves the new bindings in the registry object in memory (`project_resolver.py:980`),
  which no command goes on to use.
* `docs/CHECKPOINT_ADVERSARIAL_REVIEW.md:80` says that a failed checkpoint leaves the note untouched; when the failure is
  a timeout or too long an answer it may have been stored, which `CurrentState` therefore allows.
* A seal key whose maker died between creating and filling it is never filled (`behavioral_evidence.py:157`), and every
  prober fails from then on. A record may bind a `hooks.json` and a config that were never there together.
* The session hooks inject the configured project whatever the directory is bound to (`cli/bridge.py:80`).
* `project add` loads the registry before the reconciliation asks for its lock (`cli/main.py:706`, `:767`), and the
  reconciliation writes exactly those projects (`basic_memory_reconciliation.py:734`). Of two registrations the one that waits
  may reconcile the older registry last, and the config loses a project that the registry has; the docstring
  (`basic_memory_reconciliation.py:612`) calls the registry the only source of truth. No failure is needed.
* An init whose health check of a good program times out installs it again, and another init, which found it good and gave back
  the lock, reports it ready meanwhile (`basic_memory_installer.py:754`, `cli/main.py:1230`).
* A retrieval for a hook takes the current state from the answer to its first search and passes over what else that search
  has answered; the truncation flag stays down (`SearchState` in `Context`).
* A uv process that outlives its installer may break a program that the next init has reported ready
  (`basic_memory_installer.py:762`).

## 5. Proofs

Checked by TLAPS for every value of the constants.

`MigrationProofs`, for any processes, bundles, skills, initial homes and bound on mishaps:

* `TypeCorrect`, from `TypeOK` alone, which is inductive.
* `MutualExclusion` (`OneMutator`), `BackupsAreComplete`, `DriftIsRefused`. None is inductive: that a
  backup is complete when the manifest is armed depends on which payloads the process at that point has
  written and on nobody else filling the same bundle. `IInv` adds who holds the lock in which section
  (`LockInv`), that started processes have bundles and no two fill one (`BundleInv`), what an armed bundle
  contains (`BundleHolds`), and what a process between two steps knows (`ProcHolds`: payloads written so
  far, the manifest state it is about to change, and that the sources are still those it planned for).
* `AlwaysReversible` (`Reversible`). `RInv` adds to `IInv` what a bundle's origin can be and how far
  each mutation or restore has come.
* `CompletionIsFaithful` (`MovedFaithfully`), `RollbackIsExact` (`RollbackRestores`) and `MemoryIsKept`
  (`MemoryNeverLost`), action properties. `MInv` adds to `RInv` what the mutations done so far have achieved
  (`MovedHolds`, and per skill `SkillHolds`: still to be copied, or copied and perhaps still to be dropped, or never
  managed and where it was) and that what a rollback has cleaned stays clean while it restores (`CleanHolds`).
  Without the per-skill part nothing says at the end of the loop what its first rounds did.
* `NeverStuck` and `CallsAreFinite`, the part of `LockReleased` that needs no fairness: a call that has begun always has
  a step whose guard is true, and each of its steps, the failing ones included, lowers a number (`StepsLeft`: the phases
  it has before it, then the paths of its loop) that nobody else raises. `LInv` adds to `IInv` what a loop has still to
  visit (`LoopHolds`).

Assumptions: `NoProc` is not a process, the bound on mishaps is a number, and the initial homes are v1
trees (`NoProcAssumption`, `MaxMishapsAssumption`, `V1HomesAssumption`); `CallsAreFinite` is for finitely many skills.

`RegistrationProofs`, for any checkouts, remotes, places and bounds, the first three for any number of processes at once:

* `TypeCorrect`.
* `BindingsStayExclusive` (`BindingsExclusive`). The registry that a process writes is the one it holds
  in memory, or the one in its snapshot, so `IInv` says of all three that their records share no path and no
  common directory and carry different ids no greater than those issued (`Sound`, `Holds`), and that before
  the first write the snapshot's records are those in memory (`Aliased`). With concurrent commands records
  are lost (finding 2), but the file is never inconsistent.
* `NotesAreKept` (`NotesKept`), an action property: only `Prune` removes a directory, and only an empty one.
* `SuccessIsReady` (`SuccessMeansReady`), `RollbackIsExact` (`RollbackExact`) and `KnownIsFoundAgain`
  (`KnownRepositoryKeepsItsProject`), for one process, which may fail, be killed and start again anywhere (`Alone`).
  They are not claimed of overlapping commands, which lose each other's records (finding 2).
  `AInv` follows the command (`Course`): the registry in memory is the one in the file until it is taken back
  (`Current`), the snapshot names the projects of the registry as it was (`Captured`), a rollback has come to a certain
  point (`TakenBack`), the backend has what was expected of it (`Reconciled`), and the two reports are true (`Ready`,
  `Exact`). `Knows`, that every repository seen before has a record with one of its remotes, holds of the file and of the
  snapshot, so a rollback does not forget one.

Assumptions: `LayoutAssumption` (a linked worktree has the remotes of its main checkout, kinds of subjects are
disjoint) and `BoundsAssumption`.

`CheckpointProofs`, for any processes, projects, payloads and bounds:

* `TypeCorrect`.
* `RepeatsWriteNothing` and `TimesGoForward`, action properties. `IInv` says that a command that reads or writes
  holds its project's lock, that what it has read is what the note still holds unless somebody without the lock came
  in between (`ReadHolds`), and that no time in a note or a command is ahead of the clock.
* `Implements` (`KeepsItsPromise`): under the mapping, each step of a command is a step of `CurrentState` or
  leaves it alone (`StepRefines`, `NextRefines`). It needs `IInv` for two things: the timestamp of a write is
  a time, and nothing is stored before the write begins.
* `CallsAreFinite`, the part of `CallsEnd` that needs no fairness: a command has at most six steps of its own before
  it, and whoever holds the lock meanwhile adds none.

Assumption: `CheckpointAssumption` (the markers for no process, no project and foreign content are none of the
constants' elements, and the bounds are numbers).

`ContextProofs`, for any notes, lengths and limits:

* `TypeCorrect`: no length becomes negative, whatever header, marker and limits.
* `StaysWithinBudget`, `BundlesAreWhole`: no bundle exceeds what was asked for, and none is given before every search has
  answered. `IInv` follows the loop: what is kept is the front of the candidates, one by one, and `used` is below the limit.
* `SaysWhatItDrops` (`NothingDroppedSilently`): the current state and every note of the page are among the candidates
  (`Stages`), every candidate comes from a search, and without a cut the loop has kept them all as they are.
* `OneVersion` (`OneVersionEach`): the candidates have different permalinks and begin with the current state.
* `GivesAllThatFits` (`BundleIsLongest`): the loop, which adds notes one at a time and cuts only the first, gives the
  longest front of the candidates whose rendered text fits. `BInv` adds to `IInv` that the running count is the length of
  the text rendered so far (`Counted`). That length is a recursive function of the text; that it exists, is a number, grows
  with the text and is settled by its front (`SumsExist`, `SumsAgree`, `SumsGrow`, `RenderedFront`) is shown by induction over
  the set of numbers for which it holds (`EveryNumber`, from the well-foundedness of `<`): no operator parameter is needed.

Assumption: `ContextAssumption` (lengths are numbers, limits are in their range).

`SyncProofs`, for any texts, definitions and number of events:

* `TypeCorrect`. A block is a sequence of texts of any length.
* `EditsSurvive` (`EditsSurviveSync`), an action property. `RunInv` says how much of the loaded state a sync has brought
  up to date, `CalmInv` that what an undisturbed one has read is still so and that what it is about to write over was not
  edited. A block that is renewed keeps its edited text because the fragment it is renewed from ends with it.
* `ResolvedStays` (`ResolveSettles`). `SettledInv` says, per object, which sides agree after a resolution, in the files, in
  `state.json` and in a sync under way. Resolving the rules of one client in favour of the other replaces the other's
  fragments, which counts as an edit of its rules: a conflict that this brings back is not a lapse.
* `TwoSyncsSuffice` (`QuietSyncsConverge`). `QuietInv`, inductive with the rest, says what one undisturbed sync leaves: rules
  in line, or reported; a server definition that is recorded and with which agy agrees, or a client that will be
  in conflict again (`Stuck`); a skill that both clients have or that one has deleted, or a conflict again (`Split`). A sync
  that starts from there brings the rest in line, or does not report success.

Assumptions: `TokenAssumption` (no marker is a text or a tree), `LinkModesAssumption`, `MaxEventsAssumption`.

`HooksProofs`, for any processes and any number of upsets, all four properties of `Hooks`:

* `TypeCorrect`.
* `ReportsHold` (`ReportsAreTrue`), `PlansComeTrue` (`PlanForetells`), `LossIsSeen` (`NothingLostUnseen`). `IInv` follows a
  command from place to place: what it is about to write is the file as it read it but for Tideway's own (`DocInv`,
  `ConfInv`) unless somebody came in between, and an undisturbed install or remove knows how far it has come and what the
  plan was (`InstallInv`, `RemoveInv`).

Assumption: `HooksAssumption`.

`EvidenceProofs`, for any clients, contents, probers and keys:

* `TypeCorrect`, `TheKeyOutlivesItsRecords` (`SealsStay`), `NothingStaleIsGiven` (`GivenIsCurrent`). `KeyInv` is the heart:
  at most one prober fills the key, only while it is empty, and nothing can have been sealed before; `ProbersInv` says
  that a prober between its two reads knows of every change of the files.

Assumption: `EvidenceAssumption` (the markers are not elements of the constants).

`InstallProofs`, for any number of processes and upsets, all five properties of `Install`:

* `TypeCorrect` and, from it, `ProjectsRemain` (`ProjectsStay`), an action property: projects come into the config by
  reconciliations and by whoever asks for no lock, and no step of an init takes them out again, because the bootstrap config
  is linked to the name only if nothing has it.
* `MutualExclusion` (`OneAtATime`): commands at work have different lock files, and whoever has not been robbed has the
  one with the name (`LockInv`).
* `ReadyIsReady` (`ReadyMeansReady`), from `FilesInv`, `McpInv` and `ToolInv`: the last says that a program which has been
  found good and not yet reported, or reported, is the pinned one or has a command at work on it that will look at it again.
  It needs no exclusion and so holds also where the lock file was removed.
* `LeftAloneItSucceeds` (`UndisturbedSucceeds`), from `AloneInv`: who has been alone so far has met nothing broken.

Assumption: `InstallAssumption`.

Every invariant and action property of the runs is a theorem. The inductive invariants were model-checked on the
instances of the runs as well. Only model-checked: `LockReleased` and `CallsEnd`. Both are liveness under weak fairness, and the
step from a true guard to ENABLED is beyond this prover; what can be said without it is in `NeverStuck` and `CallsAreFinite`.
The modules declare no RECURSIVE operator, so that all of them remain open to proof.

## 6. Plan

1. A second sync at the same time: the steps of `Sync` taken by two processes over the same files and one `state.json`,
   of which the later save wins (`sync.py:82`).
2. `targets` and per-client overrides in `Sync`.

### Not modelled

Discovery, status and assurance (read-only, textual), argument parsing, TOML and YAML formatting,
text redaction, and the checks against hostile files (symlinks, hard links, owners). They keep no state: what they decide
is the refusal of a step, which the modules have as failures wherever a command can be refused half way.
