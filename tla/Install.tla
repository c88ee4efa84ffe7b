--------------------------------- MODULE Install ---------------------------------
(* `ptw init` (core/workspace.py, core/basic_memory_installer.py, cli/main.py) and the
   reconciliation of the project registry into the config of Basic Memory
   (core/basic_memory_reconciliation.py).  Both write services/basic-memory/config/
   config.json under one flock; init also runs uv, which may outlive it.

   A directory that is missing or too open is made and closed by each of these commands
   when it needs it, so the directories are no state here.  The registry of projects is
   read and saved before the lock is asked for, by whoever calls the reconciliation. *)
EXTENDS Naturals

CONSTANTS
  Procs, NoProc,
  Projects,
  MaxUpsets    \* bound: everything that happens outside of the commands, and their failures

ASSUME InstallAssumption == NoProc \notin Procs /\ MaxUpsets \in Nat

VARIABLES
  files,      \* what init_workspace makes if it is missing: two stand for all
  registry,   \* projects.yaml
  config,     \* config.json of Basic Memory
  tool,       \* the installed program; "writing": one uv process is at work on it alone
  mcp,        \* mcp/basic-memory.yaml
  lockFile,   \* how often the lock file has been removed: which file has its name
  orphans,    \* uv processes whose installer is gone
  call,       \* each process
  upsets

vars == <<files, registry, config, tool, mcp, lockFile, orphans, call, upsets>>

Files == {"config.yaml", "SKILL.md"}

\* spare: the process that has linked a temporary file to this name and has not removed the
\* temporary name since (it may be gone): the file has two links.
Configs == [kind : {"absent", "bad", "good"}, projects : SUBSET Projects, spare : Procs \cup {NoProc}]
NoConfig == [kind |-> "absent", projects |-> {}, spare |-> NoProc]

Ended == {"idle", "refused", "failed", "ready", "reconciled"}
Critical == {"read", "link", "unlink", "pre", "spawn", "uv", "check", "load", "write"}
Calls == [pc : Ended \cup Critical \cup Files \cup {"open", "wait", "mcp"},
          op : {"init", "reconcile"},
          gen : 0..MaxUpsets,   \* the lock file it has opened
          mcp : BOOLEAN,        \* there was no mcp/basic-memory.yaml
          reg : SUBSET Projects,    \* the registry that a reconciliation was given
          alone : BOOLEAN,      \* history: it has been undisturbed, and nothing was broken
          robbed : BOOLEAN,     \* history: the lock file was removed while it held the lock
          fresh : BOOLEAN]      \* history: since it began, only commands have changed
                                \* anything, and none has left the program unfinished
Resting == [pc |-> "idle", op |-> "init", gen |-> 0, mcp |-> FALSE, reg |-> {},
            alone |-> FALSE, robbed |-> FALSE, fresh |-> FALSE]

Init ==
  /\ files \in [Files -> {"missing", "default"}] \cup [Files -> {"legacy"}]
  /\ registry = {} /\ config = NoConfig
  /\ tool \in {"none", "other"} /\ mcp = "absent"
  /\ lockFile = 0 /\ orphans = 0 /\ upsets = 0
  /\ call = [p \in Procs |-> Resting]

---------------------------------------------------------------------------------

Goes(p, pc) == call' = [call EXCEPT ![p].pc = pc]
\* p changes something: of the results of others, only that an init is ready is still looked at.
Changes(p, r) ==
  call' = [q \in Procs |-> IF q = p THEN r
             ELSE IF call[q].pc \in Ended \ {"ready"} THEN Resting ELSE call[q]]
\* p gives the program up as it is: nobody can rely on it any more.
GivesUp(p, r) ==
  call' = [q \in Procs |-> IF q = p THEN r
             ELSE IF call[q].pc \in Ended THEN Resting ELSE [call[q] EXCEPT !.fresh = FALSE]]

\* load_safe_mcp_server: there is a definition, and it is not the canonical one.
Diverges == mcp = "user"

\* cli/main.py: then nothing is made.  A registration calls the reconciliation with the registry
\* as it has loaded it, or as it has saved it with its project.
Request(p, op, new) ==
  /\ call[p].pc \in Ended
  /\ IF op = "init" THEN new = {} ELSE registry \cup new # {}
  /\ registry' = registry \cup new
  /\ call' = [q \in Procs |->
       IF q # p THEN [call[q] EXCEPT !.alone = FALSE]
       ELSE [Resting EXCEPT !.op = op, !.mcp = mcp = "absent", !.fresh = TRUE,
               !.reg = IF op = "init" THEN {} ELSE registry \cup new,
               !.pc = IF op = "reconcile" THEN "open"
                      ELSE IF Diverges THEN "refused" ELSE "config.yaml",
               !.alone = /\ \A r \in Procs \ {p} : call[r].pc \in Ended
                         /\ orphans = 0 /\ config.kind # "bad" /\ tool # "unsafe"]]
  /\ UNCHANGED <<files, config, tool, mcp, lockFile, orphans, upsets>>

\* init_workspace keeps what is there, except a continuity skill of an earlier release.
MakeFile(p, f) ==
  /\ call[p].pc = f
  /\ files' = [files EXCEPT ![f] = IF @ \in {"missing", "legacy"} THEN "default" ELSE @]
  /\ Changes(p, [call[p] EXCEPT !.pc = IF f = "config.yaml" THEN "SKILL.md" ELSE "open"])
  /\ UNCHANGED <<registry, config, tool, mcp, lockFile, orphans, upsets>>

---------------------------------------------------------------------------------
(* acquire_basic_memory_lock.  The kernel gives the lock back when a process ends. *)

OpenLock(p) ==
  /\ call[p].pc = "open"
  /\ call' = [call EXCEPT ![p].pc = "wait", ![p].gen = lockFile]
  /\ UNCHANGED <<files, registry, config, tool, mcp, lockFile, orphans, upsets>>

Held(gen) == \E q \in Procs : call[q].pc \in Critical /\ call[q].gen = gen

\* Mutant: it is not looked at which file the lock is on.
Acquire_AnyFile(p) ==
  /\ call[p].pc = "wait" /\ ~Held(call[p].gen)
  /\ Goes(p, IF call[p].op = "init" THEN "read" ELSE "load")
  /\ UNCHANGED <<files, registry, config, tool, mcp, lockFile, orphans, upsets>>

\* A lock on a file that has lost its name is no lock.
Acquire(p) ==
  /\ call[p].pc = "wait" /\ ~Held(call[p].gen)
  /\ Goes(p, IF call[p].gen # lockFile THEN "failed"
             ELSE IF call[p].op = "init" THEN "read" ELSE "load")
  /\ UNCHANGED <<files, registry, config, tool, mcp, lockFile, orphans, upsets>>

---------------------------------------------------------------------------------
(* The bootstrap config. *)

\* read_safe_basic_memory_config refuses what it does not understand, and a file with two links.
Unusable == config.kind = "bad" \/ config.spare # NoProc

ReadConfig(p) ==
  /\ call[p].pc = "read"
  /\ Goes(p, IF Unusable THEN "failed" ELSE IF config.kind = "absent" THEN "link" ELSE "pre")
  /\ UNCHANGED <<files, registry, config, tool, mcp, lockFile, orphans, upsets>>

Bootstrap(p) == [NoConfig EXCEPT !.kind = "good", !.spare = p]

\* Mutant: the bootstrap config is moved into place.
Link_Replaces(p) ==
  /\ call[p].pc = "link"
  /\ config' = Bootstrap(p) /\ Changes(p, [call[p] EXCEPT !.pc = "unlink"])
  /\ UNCHANGED <<files, registry, tool, mcp, lockFile, orphans, upsets>>

\* The temporary file gets a second name, unless that name is there: then all over again.
Link(p) ==
  /\ call[p].pc = "link"
  /\ IF config.kind = "absent"
     THEN config' = Bootstrap(p) /\ Changes(p, [call[p] EXCEPT !.pc = "unlink"])
     ELSE UNCHANGED config /\ Goes(p, "read")
  /\ UNCHANGED <<files, registry, tool, mcp, lockFile, orphans, upsets>>

Unlink(p) ==
  /\ call[p].pc = "unlink"
  /\ config' = IF config.spare = p THEN [config EXCEPT !.spare = NoProc] ELSE config
  /\ Changes(p, [call[p] EXCEPT !.pc = "pre"])
  /\ UNCHANGED <<files, registry, tool, mcp, lockFile, orphans, upsets>>

---------------------------------------------------------------------------------
(* The program. *)

\* Mutant: a program that does not answer is an error.
PreHealth_Strict(p) ==
  /\ call[p].pc = "pre"
  /\ \/ tool \in {"unsafe", "broken", "writing"} /\ Goes(p, "failed")
     \/ tool \in {"none", "other"} /\ Goes(p, "spawn")
     \/ tool = "pinned" /\ \E pc \in {"mcp", "failed"} : Goes(p, pc)
  /\ UNCHANGED <<files, registry, config, tool, mcp, lockFile, orphans, upsets>>

\* Nothing but the pinned version is good enough, and that may not answer in time: no failure
\* of this check is an error, whatever it was.
PreHealth(p) ==
  /\ call[p].pc = "pre"
  /\ \/ tool = "unsafe" /\ Goes(p, "failed")
     \/ tool = "pinned" /\ Goes(p, "mcp")
     \/ tool # "unsafe" /\ Goes(p, "spawn")
  /\ UNCHANGED <<files, registry, config, tool, mcp, lockFile, orphans, upsets>>

\* uv tool install --force.
Spawn(p) ==
  /\ call[p].pc = "spawn"
  /\ tool' = IF orphans = 0 /\ \A q \in Procs : call[q].pc # "uv" THEN "writing" ELSE "broken"
  /\ Changes(p, [call[p] EXCEPT !.pc = "uv"])
  /\ UNCHANGED <<files, registry, config, mcp, lockFile, orphans, upsets>>

\* A uv process leaves a good program if no other has been at work next to it.
UvEnds(p) ==
  /\ call[p].pc = "uv"
  /\ tool' \in {"pinned"} \cup (IF tool = "writing" THEN {} ELSE {"broken"})
  /\ Changes(p, [call[p] EXCEPT !.pc = "check"])
  /\ UNCHANGED <<files, registry, config, mcp, lockFile, orphans, upsets>>

\* Mutant: the exit code of uv is taken for the answer.
Check_Trusting(p) ==
  /\ call[p].pc = "check"
  /\ Goes(p, "mcp")
  /\ UNCHANGED <<files, registry, config, tool, mcp, lockFile, orphans, upsets>>

\* That the pinned version does not answer here is for HealthFails.
Check(p) ==
  /\ call[p].pc = "check"
  /\ IF tool = "pinned" THEN Goes(p, "mcp") ELSE GivesUp(p, [call[p] EXCEPT !.pc = "failed"])
  /\ UNCHANGED <<files, registry, config, tool, mcp, lockFile, orphans, upsets>>

\* The lock is free again.  Whether there was a definition was seen at the start.
SaveMcp(p) ==
  /\ call[p].pc = "mcp"
  /\ mcp' = IF call[p].mcp THEN "canonical" ELSE mcp
  /\ Changes(p, [call[p] EXCEPT !.pc = "ready"])
  /\ UNCHANGED <<files, registry, config, tool, lockFile, orphans, upsets>>

---------------------------------------------------------------------------------
(* reconcile_basic_memory_projects. *)

\* The config is read under the lock, the registry was read before.  If the config lists the
\* projects of that one, and other settings are right, it is in step.
Load(p) ==
  /\ call[p].pc = "load"
  /\ \/ Unusable /\ Goes(p, "failed")
     \/ ~Unusable /\ config.kind = "good" /\ config.projects = call[p].reg /\ Goes(p, "reconciled")
     \/ ~Unusable /\ Goes(p, "write")
  /\ UNCHANGED <<files, registry, config, tool, mcp, lockFile, orphans, upsets>>

\* Mutant: the config is taken to be there.
Write_Amends(p) ==
  /\ call[p].pc = "write"
  /\ config' = [config EXCEPT !.projects = call[p].reg]
  /\ Changes(p, [call[p] EXCEPT !.pc = "reconciled"])
  /\ UNCHANGED <<files, registry, tool, mcp, lockFile, orphans, upsets>>

\* The new config takes the place of whatever is there by now, and its projects are those of
\* the registry that was given: all others are taken out.
Write(p) ==
  /\ call[p].pc = "write"
  /\ config' = [NoConfig EXCEPT !.kind = "good", !.projects = call[p].reg]
  /\ Changes(p, [call[p] EXCEPT !.pc = "reconciled"])
  /\ UNCHANGED <<files, registry, tool, mcp, lockFile, orphans, upsets>>

---------------------------------------------------------------------------------
(* What goes wrong, and what others do. *)

Upset == upsets < MaxUpsets /\ upsets' = upsets + 1

\* Killed: uv goes on.
Stop(p) ==
  /\ call[p].pc \notin Ended /\ Upset
  /\ call' = [q \in Procs |->
       IF q = p THEN Resting
       ELSE [call[q] EXCEPT !.alone = FALSE, !.fresh = @ /\ call[p].pc \notin {"uv", "check"}]]
  /\ orphans' = IF call[p].pc = "uv" THEN orphans + 1 ELSE orphans
  /\ UNCHANGED <<files, registry, config, tool, mcp, lockFile>>

OrphanEnds ==
  /\ orphans > 0 /\ orphans' = orphans - 1
  /\ tool' \in {"pinned", "broken"}
  /\ call' = [p \in Procs |-> IF call[p].pc \in Ended THEN Resting ELSE [call[p] EXCEPT !.fresh = FALSE]]
  /\ UNCHANGED <<files, registry, config, mcp, lockFile, upsets>>

\* An error of the file system, the lock, or the start of a process; one that keeps the
\* temporary name is ignored.
Fails(p) ==
  /\ call[p].pc \in Files \cup {"open", "wait", "read", "link", "unlink", "pre", "spawn", "mcp",
                               "load", "write"}
  /\ Upset
  /\ call' = [call EXCEPT ![p].pc = IF @ = "unlink" THEN "pre" ELSE "failed", ![p].alone = FALSE]
  /\ UNCHANGED <<files, registry, config, tool, mcp, lockFile, orphans>>

\* uv fails, is stopped at its time limit, or says that it has installed what does not work.
UvFails(p) ==
  /\ call[p].pc = "uv" /\ Upset
  /\ tool' \in {"broken", "other"}
  /\ \/ GivesUp(p, [call[p] EXCEPT !.pc = "failed", !.alone = FALSE])
     \/ Changes(p, [call[p] EXCEPT !.pc = "check", !.alone = FALSE])
  /\ UNCHANGED <<files, registry, config, mcp, lockFile, orphans>>

\* The program is good and does not answer.
HealthFails(p) ==
  /\ call[p].pc = "check" /\ Upset
  /\ GivesUp(p, [call[p] EXCEPT !.pc = "failed", !.alone = FALSE])
  /\ UNCHANGED <<files, registry, config, tool, mcp, lockFile, orphans>>

\* The user removes the lock file, spoils the program, or writes the MCP
\* definition; the user or the rollback of a registration restores an earlier registry.
Disturbed == [p \in Procs |-> IF call[p].pc \in Ended THEN Resting
                           ELSE [call[p] EXCEPT !.alone = FALSE, !.fresh = FALSE]]
RemoveLock ==
  /\ Upset /\ lockFile' = lockFile + 1
  /\ call' = [p \in Procs |->
       [call[p] EXCEPT !.alone = FALSE, !.robbed = @ \/ call[p].pc \in Critical]]
  /\ UNCHANGED <<files, registry, config, tool, mcp, orphans>>
Spoil ==
  /\ Upset /\ call' = Disturbed
  /\ \/ /\ tool' \in {"none", "other", "broken", "unsafe"}
        /\ UNCHANGED <<files, registry, mcp>>
     \/ mcp' \in {"absent", "user"} /\ UNCHANGED <<files, registry, tool>>
     \/ registry' \in SUBSET Projects /\ UNCHANGED <<files, tool, mcp>>
     \/ /\ \E f \in Files : files' = [files EXCEPT ![f] = "user"]
        /\ UNCHANGED <<registry, tool, mcp>>
  /\ UNCHANGED <<config, lockFile, orphans>>

\* Basic Memory, the user, or the rollback of a registration: all of them write config.json, with
\* any projects in it, or delete it, and ask for no lock.
WriteConfig ==
  /\ Upset
  /\ \/ config' = NoConfig
     \/ config' = [NoConfig EXCEPT !.kind = "bad"]
     \/ \E js \in SUBSET Projects : config' = [NoConfig EXCEPT !.kind = "good", !.projects = js]
  /\ call' = Disturbed
  /\ UNCHANGED <<files, registry, tool, mcp, lockFile, orphans>>

Step(p) ==
  \/ OpenLock(p) \/ ReadConfig(p) \/ Link(p) \/ Unlink(p)
  \/ PreHealth(p) \/ Spawn(p) \/ UvEnds(p) \/ Check(p) \/ SaveMcp(p) \/ Load(p) \/ Write(p)
  \/ \E f \in Files : MakeFile(p, f)

Next ==
  \/ \E p \in Procs : Step(p) \/ Acquire(p) \/ Stop(p) \/ Fails(p) \/ UvFails(p) \/ HealthFails(p)
  \/ \E p \in Procs, op \in {"init", "reconcile"}, new \in SUBSET Projects : Request(p, op, new)
  \/ OrphanEnds \/ RemoveLock \/ Spoil \/ WriteConfig

Spec == Init /\ [][Next]_vars

---------------------------------------------------------------------------------
(* Properties. *)

TypeOK ==
  /\ files \in [Files -> {"missing", "default", "legacy", "user"}]
  /\ registry \subseteq Projects /\ config \in Configs
  /\ config.kind # "good" => config.projects = {} /\ config.spare = NoProc
  /\ tool \in {"none", "pinned", "other", "broken", "writing", "unsafe"}
  /\ mcp \in {"absent", "canonical", "user"}
  /\ lockFile \in 0..upsets /\ orphans \in Nat /\ upsets \in 0..MaxUpsets
  /\ call \in [Procs -> Calls]

\* No two commands are at work at once, through any sequence of waits, crashes and removals
\* of the lock file, except next to one whose lock file was removed while it held the lock.
OneAtATime ==
  \A p, q \in Procs : p # q /\ {call[p].pc, call[q].pc} \subseteq Critical =>
    call[p].robbed \/ call[q].robbed

\* What an init reports is so, and stays so while others run inits and reconciliations: the
\* program is the pinned one, or another command is replacing it at this moment (its health
\* check failed, and it has the lock that this one has given back) and will leave the pinned
\* one; everything else that is needed is there.  That holds until something else happens to
\* the program: a command that was replacing it fails or is killed, a uv process ends whose
\* installer is gone, somebody edits a file.
ReadyMeansReady ==
  \A p \in Procs : call[p].pc = "ready" /\ call[p].fresh =>
    /\ tool = "pinned" \/ \E q \in Procs : call[q].pc \in {"uv", "check"}
    /\ mcp # "absent" /\ \A f \in Files : files[f] \notin {"missing", "legacy"}

\* Of the projects in the config, one that a program without the lock has written in the middle
\* of an init included, no command takes any out but a reconciliation, and that none that the
\* registry it was given has.
ProjectsStay ==
  [][\A j \in config.projects \ config'.projects :
       \/ upsets' # upsets
       \/ \E p \in Procs : /\ call[p].pc = "write" /\ call'[p].pc = "reconciled"
                          /\ j \notin call[p].reg]_vars

\* A command that nobody disturbs succeeds, whatever earlier ones have left half done,
\* unless that is a config with two names.
UndisturbedSucceeds ==
  \A p \in Procs : call[p].pc = "failed" /\ call[p].alone => config.spare # NoProc

\* "Safe, idempotent executor for Basic Memory 0.23.2 install plan"
\* (basic_memory_installer.py:695): an init that was stopped can be repeated.
RepeatConverges == \A p \in Procs : call[p].pc = "failed" /\ call[p].op = "init" => ~call[p].alone
=================================================================================
