---------------------------------- MODULE Hooks ----------------------------------
(* `ptw hook install | remove` (core/hooks.py, adapters/codex.py, adapters/agy.py): one
   managed entry in the hooks.json of a client and, for Codex, the feature that makes the
   client run hooks, which is in config.toml.  `ptw sync` rewrites the same config.toml
   (its MCP servers).  No file is locked: each is read, changed in memory, backed up and
   replaced, next to other commands and to the client, which edits both files.

   An entry is canonical, odd (modified, or in a place of the user's own) or absent;
   everything else in a file is one text of the user.  Bytes that mean the same are the
   same file here. *)
EXTENDS Naturals

CONSTANTS
  Procs,      \* ptw processes
  Clients,    \* "codex", "agy"
  Texts,      \* what a user may have in a file besides the entries
  Servers,    \* what sync projects into a config
  MaxUpsets   \* bound: stopped commands and edits of the files together

ASSUME HooksAssumption ==
  /\ Clients \subseteq {"codex", "agy"}
  /\ "none" \notin Texts \cup Servers
  /\ MaxUpsets \in Nat

VARIABLES
  client,    \* the client at issue: two clients have no file in common
  hooks,     \* its hooks.json
  config,    \* its config.toml or mcp_config.json
  call,      \* each process
  upsets

vars == <<client, hooks, config, call, upsets>>

HookFiles == [kind : {"absent", "bad", "good"}, canon : 0..2, odd : 0..1, text : Texts \cup {"none"}]
Blank == [kind |-> "absent", canon |-> 0, odd |-> 0, text |-> "none"]

\* feature: is features.hooks true?  clash: a hook of Tideway's stands in config.toml itself,
\* or features.hooks is no Boolean.
Configs == [kind : {"absent", "bad", "good"}, feature : BOOLEAN, clash : BOOLEAN,
            servers : Servers \cup {"none"}, text : Texts \cup {"none"}]
NoConfig == [kind |-> "absent", feature |-> FALSE, clash |-> FALSE,
             servers |-> "none", text |-> "none"]

Ended == {"idle", "changed", "unchanged", "refused"}
Calls == [pc : Ended \cup {"inspect", "load", "save", "replace", "enable", "saveconf", "replaceconf"},
          op : {"none", "install", "remove", "sync"}, servers : Servers \cup {"none"},
          doc : HookFiles, conf : Configs,          \* what it is going to write
          oldDoc : HookFiles, oldConf : Configs,    \* what it has put into backups/
          wrote : BOOLEAN,
          plan : {"", "conflict", "none", "enable", "create", "update"},  \* the preview before the command
          alone : BOOLEAN,      \* history: nobody else has changed the files since the start
          touched : BOOLEAN,    \* history: ... the file it is rewriting, since it was read
          unsaved : BOOLEAN]    \* history: ... since it was backed up
Resting == [pc |-> "idle", op |-> "none", servers |-> "none", doc |-> Blank, conf |-> NoConfig,
            oldDoc |-> Blank, oldConf |-> NoConfig, wrote |-> FALSE, plan |-> "",
            alone |-> FALSE, touched |-> FALSE, unsaved |-> FALSE]

Init ==
  /\ client \in Clients
  /\ hooks \in {Blank} \cup {[Blank EXCEPT !.kind = "good", !.text = t] : t \in Texts}
  /\ config \in {NoConfig} \cup {[NoConfig EXCEPT !.kind = "good", !.text = t] : t \in Texts}
  /\ call = [p \in Procs |-> Resting]
  /\ upsets = 0

---------------------------------------------------------------------------------
(* What the two files say. *)

\* check_codex_config_for_inline_hooks; the config of agy is not looked at.
ConfigConflict ==
  client = "codex" /\ (config.kind = "bad" \/ config.clash)
Enabled == client = "agy" \/ config.feature

\* get_codex_hook_status, get_agy_hook_status.
Status ==
  IF ConfigConflict \/ hooks.kind = "bad" \/ hooks.odd = 1 \/ hooks.canon = 2 THEN "conflict"
  ELSE IF hooks.canon = 1 /\ Enabled THEN "installed" ELSE "not-installed"

\* Mutant: the preview does not know of the feature.
Plan_HooksOnly ==
  IF Status = "conflict" THEN "conflict"
  ELSE IF hooks.canon = 1 THEN "none"
  ELSE IF hooks.kind = "absent" THEN "create" ELSE "update"

\* `ptw hook plan`: what an install would do.
Plan ==
  IF Status = "conflict" THEN "conflict"
  ELSE IF Status = "installed" THEN "none"
  ELSE IF hooks.canon = 1 THEN "enable"
  ELSE IF hooks.kind = "absent" THEN "create" ELSE "update"

\* A file has changed, the one that p is rewriting when it is at one of these places.
Notice(p, at) ==
  IF call[p].pc \in Ended THEN Resting
  ELSE [call[p] EXCEPT !.alone = FALSE, !.plan = "",
          !.touched = @ \/ call[p].pc \in at, !.unsaved = @ \/ call[p].pc \in at]
HooksInPlay == {"save", "replace"}
ConfigInPlay == {"saveconf", "replaceconf"}

\* Process p goes on as r; the others notice that p has changed a file.
Changing(p, r, at) ==
  call' = [q \in Procs |-> IF q = p THEN r ELSE Notice(q, at)]
\* The end of a command.
Over(p, pc, wrote) ==
  IF ~call[p].alone THEN Resting
  ELSE [Resting EXCEPT !.pc = pc, !.op = call[p].op, !.wrote = wrote, !.plan = call[p].plan,
                      !.alone = TRUE]
Ends(p, pc) == call' = [call EXCEPT ![p] = Over(p, pc, call[p].wrote)]

---------------------------------------------------------------------------------
(* A command. *)

Request(p, op, s) ==
  /\ call[p].pc \in Ended
  /\ (op = "sync") = (s # "none")
  /\ call' = [call EXCEPT ![p] = [Resting EXCEPT !.op = op, !.servers = s, !.alone = TRUE, !.plan = IF op = "install" THEN Plan ELSE "",
       !.pc = IF op = "sync" THEN "enable" ELSE IF client = "codex" THEN "inspect" ELSE "load"]]
  /\ UNCHANGED <<client, hooks, config, upsets>>

\* Codex: a first look at both files decides whether there is anything to do.
Inspect(p) ==
  /\ call[p].pc = "inspect"
  /\ IF Status = "conflict" THEN Ends(p, "refused")
     ELSE IF \/ call[p].op = "install" /\ Status = "installed"
             \/ call[p].op = "remove" /\ hooks.kind = "absent" THEN Ends(p, "unchanged")
     ELSE call' = [call EXCEPT ![p].pc = "load"]
  /\ UNCHANGED <<client, hooks, config, upsets>>

\* What the file is going to say.
Added(f) == [f EXCEPT !.kind = "good", !.canon = IF @ = 0 THEN 1 ELSE @]
Dropped(f) == [f EXCEPT !.canon = @ - 1]

\* The file is read again; Codex only asks whether a canonical group is there by now.
LoadToInstall(p) ==
  /\ call[p].pc = "load" /\ call[p].op = "install" /\ hooks.kind # "bad"
  /\ client = "agy" => hooks.canon + hooks.odd = 0
  /\ call' = [call EXCEPT ![p].pc = "save", ![p].doc = Added(hooks), ![p].touched = FALSE]
  /\ UNCHANGED <<client, hooks, config, upsets>>

\* agy: present and canonical.
AlreadyThere(p) ==
  /\ call[p].pc = "load" /\ call[p].op = "install" /\ client = "agy"
  /\ hooks.kind = "good" /\ hooks.canon = 1
  /\ Ends(p, "unchanged")
  /\ UNCHANGED <<client, hooks, config, upsets>>

\* Mutant: nobody asks whether there is a canonical entry.
LoadToRemove_Unchecked(p) ==
  /\ call[p].pc = "load" /\ call[p].op = "remove" /\ hooks.kind # "bad"
  /\ call' = [call EXCEPT ![p].pc = "save", ![p].doc = Dropped(hooks), ![p].touched = FALSE]
  /\ UNCHANGED <<client, hooks, config, upsets>>

LoadToRemove(p) ==
  /\ call[p].pc = "load" /\ call[p].op = "remove" /\ hooks.kind # "bad"
  /\ hooks.canon > 0
  /\ call' = [call EXCEPT ![p].pc = "save", ![p].doc = Dropped(hooks), ![p].touched = FALSE]
  /\ UNCHANGED <<client, hooks, config, upsets>>

NothingToRemove(p) ==
  /\ call[p].pc = "load" /\ call[p].op = "remove" /\ hooks.kind # "bad"
  /\ hooks.canon = 0 /\ (client = "agy" => hooks.odd = 0)
  /\ Ends(p, "unchanged")
  /\ UNCHANGED <<client, hooks, config, upsets>>

\* Malformed by now, or, for agy, a modified entry.
LoadRefuses(p) ==
  /\ call[p].pc = "load"
  /\ hooks.kind = "bad" \/ (client = "agy" /\ hooks.odd = 1)
  /\ Ends(p, "refused")
  /\ UNCHANGED <<client, hooks, config, upsets>>

\* Both files are in place, or need not change.
Finish(p, wrote) == Over(p, IF wrote THEN "changed" ELSE "unchanged", wrote)
AfterHooks(p, wrote) ==
  IF call[p].op = "install" /\ client = "codex"
  THEN [call[p] EXCEPT !.pc = "enable", !.wrote = wrote, !.doc = Blank, !.oldDoc = Blank]
  ELSE Finish(p, wrote)

\* Mutant: the file is replaced without a copy.
Save_Skips(p) ==
  /\ call[p].pc = "save" /\ hooks.kind # "bad" /\ hooks # call[p].doc
  /\ call' = [call EXCEPT ![p].pc = "replace", ![p].unsaved = FALSE]
  /\ UNCHANGED <<client, hooks, config, upsets>>

\* write_hooks looks at the file once more, then copies it to backups/.
Save(p) ==
  /\ call[p].pc = "save" /\ hooks.kind # "bad" /\ hooks # call[p].doc
  /\ call' = [call EXCEPT ![p].pc = "replace", ![p].oldDoc = hooks, ![p].unsaved = FALSE]
  /\ UNCHANGED <<client, hooks, config, upsets>>

SaveRefuses(p) ==
  /\ call[p].pc = "save" /\ hooks.kind = "bad"
  /\ Ends(p, "refused")
  /\ UNCHANGED <<client, hooks, config, upsets>>

NothingToReplace(p) ==
  /\ call[p].pc = "save" /\ hooks = call[p].doc
  /\ call' = [call EXCEPT ![p] = AfterHooks(p, FALSE)]
  /\ UNCHANGED <<client, hooks, config, upsets>>

Replace(p) ==
  /\ call[p].pc = "replace"
  /\ hooks' = call[p].doc
  /\ Changing(p, AfterHooks(p, TRUE), HooksInPlay)
  /\ UNCHANGED <<client, config, upsets>>

\* What config.toml is going to say: the feature, or the servers of sync.
Rewritten(p) ==
  LET f == [config EXCEPT !.kind = "good"]
  IN  IF call[p].op = "sync" THEN [f EXCEPT !.servers = call[p].servers] ELSE [f EXCEPT !.feature = TRUE]

EnableRefuses(p) ==
  /\ call[p].pc = "enable"
  /\ config.kind = "bad" \/ (call[p].op = "install" /\ ConfigConflict)
  /\ Ends(p, "refused")
  /\ UNCHANGED <<client, hooks, config, upsets>>

\* Mutant: the feature is looked after only when hooks.json was written.
Enable_IfWritten(p) ==
  /\ call[p].pc = "enable" /\ config.kind # "bad"
  /\ call[p].op = "install" => ~ConfigConflict
  /\ call' = [call EXCEPT ![p] =
       IF Rewritten(p) = config \/ (call[p].op = "install" /\ ~call[p].wrote)
       THEN Finish(p, call[p].wrote)
       ELSE [call[p] EXCEPT !.pc = "saveconf", !.conf = Rewritten(p), !.touched = FALSE]]
  /\ UNCHANGED <<client, hooks, config, upsets>>

\* set_codex_hooks_feature_enabled and write_mcp_servers read the config they rewrite.
Enable(p) ==
  /\ call[p].pc = "enable" /\ config.kind # "bad"
  /\ call[p].op = "install" => ~ConfigConflict
  /\ call' = [call EXCEPT ![p] =
       IF Rewritten(p) = config THEN Finish(p, call[p].wrote)
       ELSE [call[p] EXCEPT !.pc = "saveconf", !.conf = Rewritten(p), !.touched = FALSE]]
  /\ UNCHANGED <<client, hooks, config, upsets>>

SaveConfig(p) ==
  /\ call[p].pc = "saveconf"
  /\ call' = [call EXCEPT ![p].pc = "replaceconf", ![p].unsaved = FALSE,
                          ![p].oldConf = IF config = call[p].conf THEN NoConfig ELSE config]
  /\ UNCHANGED <<client, hooks, config, upsets>>

ReplaceConfig(p) ==
  /\ call[p].pc = "replaceconf"
  /\ config' = call[p].conf
  /\ Changing(p, Finish(p, TRUE), ConfigInPlay)
  /\ UNCHANGED <<client, hooks, upsets>>

---------------------------------------------------------------------------------
(* Everything else that happens. *)

Upset == upsets < MaxUpsets /\ upsets' = upsets + 1

\* Killed, or a copy or a replacement fails.
Stop(p) ==
  /\ call[p].pc \notin Ended /\ Upset
  /\ Ends(p, "idle")
  /\ UNCHANGED <<client, hooks, config>>

\* The client or its user: another text, an entry taken out, modified, copied or added
\* by hand, the file removed or left half written.
EditHooks ==
  /\ Upset
  /\ \E f \in {Blank, [Blank EXCEPT !.kind = "bad"]}
            \cup {[hooks EXCEPT !.kind = "good", !.text = t] : t \in Texts}
            \cup {[hooks EXCEPT !.kind = "good", !.canon = n[1], !.odd = n[2]] :
                     n \in {m \in (0..2) \X (0..1) : client = "agy" => m[1] + m[2] <= 1}} :
       /\ f # hooks /\ (hooks.kind = "bad" => f.kind = "absent")
       /\ hooks' = f
  /\ call' = [p \in Procs |-> Notice(p, HooksInPlay)]
  /\ UNCHANGED <<client, config>>

EditConfig ==
  /\ Upset
  /\ \E f \in {NoConfig, [NoConfig EXCEPT !.kind = "bad"]}
            \cup {[config EXCEPT !.kind = "good", !.text = t] : t \in Texts}
            \cup {[config EXCEPT !.kind = "good", !.feature = ~@]}
            \cup {[config EXCEPT !.kind = "good", !.clash = ~@]} :
       /\ f # config /\ (config.kind = "bad" => f.kind = "absent")
       /\ config' = f
  /\ call' = [p \in Procs |-> Notice(p, ConfigInPlay)]
  /\ UNCHANGED <<client, hooks>>

Step(p) ==
  \/ Inspect(p) \/ LoadToInstall(p) \/ AlreadyThere(p) \/ LoadToRemove(p) \/ NothingToRemove(p)
  \/ LoadRefuses(p) \/ Save(p) \/ SaveRefuses(p) \/ NothingToReplace(p) \/ Replace(p)
  \/ Enable(p) \/ EnableRefuses(p) \/ SaveConfig(p) \/ ReplaceConfig(p)

Next ==
  \/ \E p \in Procs, op \in {"install", "remove", "sync"}, s \in Servers \cup {"none"} : Request(p, op, s)
  \/ \E p \in Procs : Step(p) \/ Stop(p)
  \/ EditHooks \/ EditConfig

Spec == Init /\ [][Next]_vars

---------------------------------------------------------------------------------
(* Properties. *)

TypeOK ==
  /\ client \in Clients /\ hooks \in HookFiles /\ config \in Configs
  /\ call \in [Procs -> Calls]
  /\ upsets \in 0..MaxUpsets

\* What a command reports is so until somebody else changes the files: after install the
\* hook runs, also when an earlier install stopped between the two files; after remove
\* no canonical entry is left.
ReportsAreTrue ==
  \A p \in Procs : call[p].alone /\ call[p].pc \in {"changed", "unchanged"} =>
    /\ call[p].op = "install" => Status = "installed"
    /\ call[p].op = "remove" => hooks.canon = 0

\* The preview tells what the install after it does, for both files; and what it calls a
\* conflict, in either file, is refused before the other one is written.
PlanForetells ==
  \A p \in Procs : call[p].alone /\ call[p].op = "install" /\ call[p].pc \in Ended \ {"idle"} =>
    /\ call[p].plan = "none" <=> call[p].pc = "unchanged"
    /\ call[p].plan = "conflict" <=> call[p].pc = "refused"
    /\ call[p].pc # "changed" => ~call[p].wrote

ReplacesHooks(p) == call[p].pc = "replace" /\ call'[p].pc # "replace" /\ hooks' # hooks
ReplacesConfig(p) == call[p].pc = "replaceconf" /\ call'[p].pc # "replaceconf" /\ config' # config

\* What a command writes over is in backups/ unless it was written after the copy was
\* made, and what is not Tideway's own gets lost only if it was written after the command
\* read the file.
NothingLostUnseen == [][\A p \in Procs :
  /\ ReplacesHooks(p) =>
       /\ hooks.kind = "absent" \/ call[p].unsaved \/ hooks = call[p].oldDoc
       /\ call[p].touched \/ (hooks'.text = hooks.text /\ hooks'.odd = hooks.odd)
  /\ ReplacesConfig(p) =>
       /\ config.kind = "absent" \/ call[p].unsaved \/ config \in {call[p].oldConf, config'}
       /\ call[p].touched \/ (/\ config'.text = config.text /\ config'.clash = config.clash
                              /\ config'.servers \in {config.servers, call[p].servers}
                              /\ config.feature => config'.feature)
  ]_vars

=================================================================================
