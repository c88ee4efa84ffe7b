------------------------------ MODULE InstallProofs ------------------------------
(* What Install promises, for any processes and any number of upsets. *)
EXTENDS Install, TLAPS

\* The steps that only an init takes.
InitOnly == Files \cup {"read", "link", "unlink", "pre", "spawn", "uv", "check", "mcp", "ready"}
InitInv == \A p \in Procs : call[p].pc \in InitOnly => call[p].op = "init"

\* No two commands are at work over the same lock file, and whoever has not been robbed is
\* at work over the one that has the name.
LockInv ==
  /\ \A p \in Procs : call[p].robbed => lockFile > 0
  /\ \A p \in Procs : call[p].pc \in Critical /\ ~call[p].robbed => call[p].gen = lockFile
  /\ \A p, q \in Procs :
       call[p].pc \in Critical /\ call[q].pc \in Critical /\ call[p].gen = call[q].gen => p = q

\* The files are there from the moment they have been made.
Made(f) == files[f] \notin {"missing", "legacy"}
FilesInv ==
  \A p \in Procs : call[p].op = "init"
              /\ call[p].pc \notin {"idle", "refused", "failed", "config.yaml"} =>
    Made("config.yaml") /\ (call[p].pc # "SKILL.md" => Made("SKILL.md"))

\* A definition that was there at the start still is.
McpInv ==
  \A p \in Procs : call[p].fresh /\ (~call[p].mcp \/ call[p].pc = "ready") => mcp # "absent"

\* The program that an init has found good, and may have reported, is the pinned one, or it is
\* being replaced by one that will look at it again.
ToolInv ==
  \A p \in Procs : call[p].fresh /\ call[p].pc \in {"mcp", "ready"} =>
    tool = "pinned" \/ \E q \in Procs : call[q].pc \in {"uv", "check"}

\* Who has been undisturbed so far has met nothing broken.
AloneInv ==
  \A p \in Procs : call[p].alone =>
    /\ call[p].pc = "failed" => config.spare # NoProc
    /\ call[p].pc \notin Ended =>
         /\ \A q \in Procs \ {p} : call[q].pc \in Ended
         /\ orphans = 0 /\ config.kind # "bad" /\ tool # "unsafe"
         /\ call[p].pc \notin Files \cup {"open"} => call[p].gen = lockFile
         /\ call[p].pc = "uv" => tool = "writing"
         /\ call[p].pc = "check" => tool = "pinned"

IInv == TypeOK /\ InitInv /\ LockInv /\ FilesInv /\ McpInv /\ ToolInv /\ AloneInv

\* Nobody has done anything yet.
LEMMA InitIInv == Init => IInv
BY InstallAssumption DEF Init, IInv, TypeOK, InitInv, LockInv, FilesInv, McpInv, ToolInv, AloneInv,
   InitOnly, Files, Configs, NoConfig, Calls, Resting, Ended, Critical

---------------------------------------------------------------------------------
(* What the actions that change all calls at once do to them. *)

\* The lock file and the upsets stay within their bounds.
LEMMA Bounds ==
  ASSUME TypeOK
  PROVE  /\ lockFile \in 0..MaxUpsets
         /\ Upset => upsets' \in 0..MaxUpsets /\ {lockFile, lockFile + 1} \subseteq 0..upsets'
<1>1. MaxUpsets \in Nat /\ upsets \in 0..MaxUpsets /\ lockFile \in 0..upsets
  BY InstallAssumption DEF TypeOK
<1> QED
  BY <1>1 DEF Upset

\* A call as it was, but for what it knows of others.
Same(q) ==
  /\ call'[q].pc = call[q].pc /\ call'[q].op = call[q].op
  /\ call'[q].gen = call[q].gen /\ call'[q].mcp = call[q].mcp /\ call'[q].reg = call[q].reg

\* What a request leaves of the calls.
Requested(p, op) ==
  /\ UNCHANGED <<files, config, tool, mcp, lockFile, orphans, upsets>>
  /\ registry' \subseteq Projects /\ call' \in [Procs -> Calls]
  /\ \A q \in Procs \ {p} : /\ Same(q) /\ ~call'[q].alone
                            /\ call'[q].fresh = call[q].fresh /\ call'[q].robbed = call[q].robbed
  /\ call'[p].op = op /\ call'[p].gen = 0 /\ call'[p].robbed = FALSE
  /\ call'[p].pc \in {"open", "refused", "config.yaml"}
  /\ call'[p].pc = "open" <=> op = "reconcile"
  /\ call'[p].mcp <=> mcp = "absent"
  /\ call'[p].alone => /\ \A q \in Procs \ {p} : call[q].pc \in Ended
                       /\ orphans = 0 /\ config.kind # "bad" /\ tool # "unsafe"

LEMMA AfterRequest ==
  ASSUME TypeOK, NEW p \in Procs, NEW op \in {"init", "reconcile"}, NEW more \in SUBSET Projects,
         Request(p, op, more)
  PROVE  Requested(p, op)
<1> DEFINE quiet == /\ \A r \in Procs \ {p} : call[r].pc \in Ended
                    /\ orphans = 0 /\ config.kind # "bad" /\ tool # "unsafe"
           at == IF op = "reconcile" THEN "open" ELSE IF Diverges THEN "refused" ELSE "config.yaml"
           given == IF op = "init" THEN {} ELSE registry \cup more
           new == [Resting EXCEPT !.op = op, !.mcp = mcp = "absent", !.fresh = TRUE, !.reg = given,
                                  !.pc = at, !.alone = quiet]
<1>1. call' = [q \in Procs |-> IF q # p THEN [call[q] EXCEPT !.alone = FALSE] ELSE new]
  BY Zenon DEF Request
<1>2. PICK a \in BOOLEAN : a <=> quiet
  OBVIOUS
<1>3. PICK m \in BOOLEAN : m <=> mcp = "absent"
  OBVIOUS
<1>4. a = quiet /\ m = (mcp = "absent")
  BY <1>2, <1>3, Zenon
<1>5. new = [Resting EXCEPT !.op = op, !.mcp = m, !.fresh = TRUE, !.reg = given, !.pc = at, !.alone = a]
  BY <1>4, Zenon
<1>12. given \subseteq Projects
  BY DEF TypeOK
<1> HIDE DEF quiet, new, given
<1>6. new = [pc |-> at, op |-> op, gen |-> 0, mcp |-> m, reg |-> given, alone |-> a, robbed |-> FALSE, fresh |-> TRUE]
  BY <1>5 DEF Resting
<1>7. at \in {"open", "refused", "config.yaml"} /\ (at = "open" <=> op = "reconcile")
  OBVIOUS
<1> HIDE DEF at
<1>8. new \in Calls
  BY <1>6, <1>7, <1>12, InstallAssumption DEF Calls, Ended, Critical, Files
<1>9. ASSUME NEW q \in Procs, NEW r, r = [call[q] EXCEPT !.alone = FALSE]
      PROVE  /\ r \in Calls /\ ~r.alone /\ r.pc = call[q].pc /\ r.op = call[q].op
             /\ r.gen = call[q].gen /\ r.mcp = call[q].mcp /\ r.reg = call[q].reg
             /\ r.robbed = call[q].robbed /\ r.fresh = call[q].fresh
  <2>1. call[q] \in Calls
    BY DEF TypeOK
  <2> QED
    BY <1>9, <2>1 DEF Calls
<1>10. call' \in [Procs -> Calls]
  BY <1>1, <1>8, <1>9
<1>11. UNCHANGED <<files, config, tool, mcp, lockFile, orphans, upsets>> /\ registry' \subseteq Projects
  BY DEF Request, TypeOK
<1> QED
  <2>1. \A q \in Procs \ {p} : /\ Same(q) /\ ~call'[q].alone
                               /\ call'[q].fresh = call[q].fresh /\ call'[q].robbed = call[q].robbed
    BY <1>1, <1>9 DEF Same
  <2>2. call'[p] = new /\ (a => quiet)
    BY <1>1, <1>2
  <2> QED
    BY <1>3, <1>6, <1>7, <1>10, <1>11, <2>1, <2>2 DEF Requested, quiet

\* Everybody who holds the lock is robbed.
Robbed ==
  /\ UNCHANGED <<files, registry, config, tool, mcp, orphans>> /\ lockFile' > 0 /\ lockFile' # 0
  /\ call' \in [Procs -> Calls]
  /\ \A p \in Procs : /\ Same(p) /\ ~call'[p].alone /\ call'[p].fresh = call[p].fresh
                      /\ call'[p].robbed <=> call[p].robbed \/ call[p].pc \in Critical

LEMMA AfterRemoveLock ==
  ASSUME TypeOK, RemoveLock
  PROVE  Robbed
<1> DEFINE now(p) == call[p].robbed \/ call[p].pc \in Critical
<1>1. call' = [p \in Procs |-> [call[p] EXCEPT !.alone = FALSE, !.robbed = now(p)]]
  BY Zenon DEF RemoveLock
<1>2. \A p \in Procs : now(p) \in BOOLEAN
  BY Zenon
<1> HIDE DEF now
<1>3. \A p \in Procs : call[p] \in Calls
  BY DEF TypeOK
<1>4. ASSUME NEW p \in Procs, NEW r, r = [call[p] EXCEPT !.alone = FALSE, !.robbed = now(p)]
      PROVE  /\ r \in Calls /\ ~r.alone /\ r.robbed = now(p) /\ r.fresh = call[p].fresh
             /\ r.pc = call[p].pc /\ r.op = call[p].op /\ r.gen = call[p].gen /\ r.mcp = call[p].mcp
             /\ r.reg = call[p].reg
  BY <1>2, <1>3, <1>4 DEF Calls
<1>5. /\ call' \in [Procs -> Calls]
      /\ \A p \in Procs : /\ Same(p) /\ ~call'[p].alone /\ call'[p].fresh = call[p].fresh
                          /\ call'[p].robbed = now(p)
  BY <1>1, <1>4 DEF Same
<1>6. \A p \in Procs : call'[p].robbed <=> call[p].robbed \/ call[p].pc \in Critical
  BY <1>5, Zenon DEF now
<1>7. /\ UNCHANGED <<files, registry, config, tool, mcp, orphans>>
      /\ lockFile' > 0 /\ lockFile' # 0
  <2>1. UNCHANGED <<files, registry, config, tool, mcp, orphans>> /\ lockFile' = lockFile + 1
    BY Zenon DEF RemoveLock
  <2>2. lockFile \in 0..MaxUpsets
    BY Bounds
  <2> QED
    BY <2>1, <2>2, InstallAssumption
<1> QED
  BY <1>5, <1>6, <1>7 DEF Robbed

\* What is done is no statement about the present any more, and what is not is disturbed.
AllDisturbed ==
  /\ call' \in [Procs -> Calls]
  /\ \A p \in Procs :
       /\ ~call'[p].alone /\ ~call'[p].fresh
       /\ call[p].pc \in Ended => call'[p] = Resting
       /\ call[p].pc \notin Ended => Same(p) /\ call'[p].robbed = call[p].robbed

LEMMA AfterDisturbance ==
  ASSUME TypeOK, call' = Disturbed
  PROVE  AllDisturbed
<1>1. \A q \in Procs : call[q] \in Calls
  BY DEF TypeOK
<1>2. Resting \in Calls /\ ~Resting.alone /\ ~Resting.fresh
  BY InstallAssumption DEF Resting, Calls, Ended
<1>3. ASSUME NEW q \in Procs, NEW r, r = [call[q] EXCEPT !.alone = FALSE, !.fresh = FALSE]
      PROVE  /\ r \in Calls /\ ~r.alone /\ ~r.fresh
             /\ r.pc = call[q].pc /\ r.op = call[q].op /\ r.gen = call[q].gen
             /\ r.mcp = call[q].mcp /\ r.reg = call[q].reg /\ r.robbed = call[q].robbed
  BY <1>1, <1>3 DEF Calls
<1>4. \A q \in Procs : call'[q] = IF call[q].pc \in Ended THEN Resting
                                  ELSE [call[q] EXCEPT !.alone = FALSE, !.fresh = FALSE]
  BY DEF Disturbed
<1>5. \A q \in Procs : call'[q] \in Calls
  BY <1>2, <1>3, <1>4
<1>6. call' \in [Procs -> Calls]
  BY <1>5 DEF Disturbed
<1> QED
  BY <1>2, <1>3, <1>4, <1>6 DEF AllDisturbed, Same

\* The others are disturbed, and no longer fresh if it was at work on the program.
Stopped(p) ==
  /\ UNCHANGED <<files, registry, config, tool, mcp, lockFile>>
  /\ call[p].pc \notin Ended /\ call' \in [Procs -> Calls] /\ call'[p] = Resting
  /\ \A q \in Procs \ {p} :
       /\ Same(q) /\ ~call'[q].alone /\ call'[q].robbed = call[q].robbed
       /\ call'[q].fresh => call[q].fresh /\ call[p].pc \notin {"uv", "check"}

LEMMA AfterStop ==
  ASSUME TypeOK, NEW p \in Procs, Stop(p)
  PROVE  Stopped(p)
<1> DEFINE now(q) == call[q].fresh /\ call[p].pc \notin {"uv", "check"}
<1>1. call' = [q \in Procs |-> IF q = p THEN Resting
                              ELSE [call[q] EXCEPT !.alone = FALSE, !.fresh = now(q)]]
  BY Zenon DEF Stop
<1>2. \A q \in Procs : now(q) \in BOOLEAN
  BY Zenon
<1> HIDE DEF now
<1>3. \A q \in Procs : call[q] \in Calls
  BY DEF TypeOK
<1>4. ASSUME NEW q \in Procs, NEW r, r = [call[q] EXCEPT !.alone = FALSE, !.fresh = now(q)]
      PROVE  /\ r \in Calls /\ ~r.alone /\ r.fresh = now(q) /\ r.robbed = call[q].robbed
             /\ r.pc = call[q].pc /\ r.op = call[q].op /\ r.gen = call[q].gen /\ r.mcp = call[q].mcp
             /\ r.reg = call[q].reg
  BY <1>2, <1>3, <1>4 DEF Calls
<1>5. Resting \in Calls
  BY InstallAssumption DEF Resting, Calls, Ended
<1>6. /\ call' \in [Procs -> Calls] /\ call'[p] = Resting
      /\ \A q \in Procs \ {p} : /\ Same(q) /\ ~call'[q].alone /\ call'[q].robbed = call[q].robbed
                               /\ call'[q].fresh = now(q)
  BY <1>1, <1>4, <1>5 DEF Same
<1>7. \A q \in Procs \ {p} :
        call'[q].fresh => call[q].fresh /\ call[p].pc \notin {"uv", "check"}
  BY <1>6, Zenon DEF now
<1>8. UNCHANGED <<files, registry, config, tool, mcp, lockFile>> /\ call[p].pc \notin Ended
  BY Zenon DEF Stop
<1> QED
  BY <1>6, <1>7, <1>8 DEF Stopped

---------------------------------------------------------------------------------
\* What an init writes for a start is a good config, without projects, under two names.
LEMMA BootstrapIsGood ==
  ASSUME NEW p \in Procs
  PROVE  /\ Bootstrap(p) \in Configs
         /\ Bootstrap(p).kind = "good" /\ Bootstrap(p).spare = p
BY DEF Bootstrap, NoConfig, Configs

\* A call that goes on, or is disturbed, is a call.
Places == Ended \cup Critical \cup Files \cup {"open", "wait", "mcp"}
LEMMA CallsGoOn ==
  ASSUME TypeOK
  PROVE  /\ call \in [Procs -> Calls] /\ Resting \in Calls
         /\ \A c \in Calls, pc \in Places : /\ [c EXCEPT !.pc = pc] \in Calls
                                           /\ [c EXCEPT !.pc = pc, !.alone = FALSE] \in Calls
                                           /\ [c EXCEPT !.pc = pc, !.gen = lockFile] \in Calls
         /\ \A c \in Calls : /\ [c EXCEPT !.alone = FALSE] \in Calls
                            /\ [c EXCEPT !.fresh = FALSE] \in Calls
                            /\ c.pc \in Places
<1>1. lockFile \in 0..MaxUpsets /\ call \in [Procs -> Calls]
  BY Bounds DEF TypeOK
<1>2. Resting \in Calls
  BY InstallAssumption DEF Resting, Calls, Ended
<1>3. \A c \in Calls, pc \in Places : /\ [c EXCEPT !.pc = pc] \in Calls
                                    /\ [c EXCEPT !.pc = pc, !.alone = FALSE] \in Calls
                                    /\ [c EXCEPT !.pc = pc, !.gen = lockFile] \in Calls
  BY <1>1 DEF Calls, Places
<1>4. \A c \in Calls : /\ [c EXCEPT !.alone = FALSE] \in Calls
                     /\ [c EXCEPT !.fresh = FALSE] \in Calls
                     /\ c.pc \in Places
  BY DEF Calls, Places
<1> QED
  BY <1>1, <1>2, <1>3, <1>4

\* Every action writes what the type allows.
LEMMA TypeKeeps ==
  ASSUME TypeOK, Next
  PROVE  TypeOK'
<1>1. ASSUME NEW p \in Procs, NEW op \in {"init", "reconcile"}, NEW new \in SUBSET Projects, Request(p, op, new) PROVE TypeOK'
  <2>1. Requested(p, op)
    BY <1>1, AfterRequest
  <2> QED
    BY <1>1, <2>1, InstallAssumption DEF TypeOK, Configs, Resting, Calls, Ended, Critical, Files, Requested, Same
<1>2. ASSUME NEW p \in Procs, NEW f \in Files, MakeFile(p, f) PROVE TypeOK'
  BY <1>2, InstallAssumption DEF TypeOK, Configs, Resting, Calls, Ended, Critical, Files, MakeFile, Changes
<1>3. ASSUME NEW p \in Procs, OpenLock(p) PROVE TypeOK'
  <2>1. call' \in [Procs -> Calls]
    BY <1>3, CallsGoOn DEF OpenLock, Places
  <2> QED
    BY <1>3, <2>1 DEF TypeOK, OpenLock
<1>4. ASSUME NEW p \in Procs, Acquire(p) PROVE TypeOK'
  BY <1>4, InstallAssumption DEF TypeOK, Configs, Resting, Calls, Ended, Critical, Files, Acquire, Goes
<1>5. ASSUME NEW p \in Procs, ReadConfig(p) PROVE TypeOK'
  BY <1>5, InstallAssumption DEF TypeOK, Configs, Resting, Calls, Ended, Critical, Files, ReadConfig, Goes
<1>6. ASSUME NEW p \in Procs, Link(p) PROVE TypeOK'
  <2>1. call' \in [Procs -> Calls]
    <3>1. [call[p] EXCEPT !.pc = "unlink"] \in Calls /\ [call[p] EXCEPT !.pc = "read"] \in Calls
      BY CallsGoOn DEF Places, Critical
    <3>2. CASE Changes(p, [call[p] EXCEPT !.pc = "unlink"])
      BY <3>1, <3>2, CallsGoOn DEF Changes
    <3>3. CASE Goes(p, "read")
      BY <3>1, <3>3, CallsGoOn DEF Goes
    <3> QED
      BY <1>6, <3>2, <3>3 DEF Link
  <2>2. Bootstrap(p) \in Configs /\ Bootstrap(p).kind = "good"
    BY BootstrapIsGood
  <2>3. config' \in Configs /\ (config'.kind # "good" => config'.projects = {} /\ config'.spare = NoProc)
    BY <1>6, <2>2 DEF TypeOK, Link
  <2> QED
    BY <1>6, <2>1, <2>3 DEF TypeOK, Link
<1>7. ASSUME NEW p \in Procs, Unlink(p) PROVE TypeOK'
  <2>1. call' \in [Procs -> Calls]
    BY <1>7, CallsGoOn DEF Unlink, Changes, Places, Ended, Critical
  <2>2. config' \in Configs /\ (config'.kind # "good" => config'.projects = {} /\ config'.spare = NoProc)
    BY <1>7 DEF TypeOK, Unlink, Configs
  <2> QED
    BY <1>7, <2>1, <2>2 DEF TypeOK, Unlink
<1>8. ASSUME NEW p \in Procs, PreHealth(p) PROVE TypeOK'
  BY <1>8, InstallAssumption DEF TypeOK, Configs, Resting, Calls, Ended, Critical, Files, PreHealth, Goes
<1>9. ASSUME NEW p \in Procs, Spawn(p) PROVE TypeOK'
  BY <1>9, InstallAssumption DEF TypeOK, Configs, Resting, Calls, Ended, Critical, Files, Spawn, Changes
<1>10. ASSUME NEW p \in Procs, UvEnds(p) PROVE TypeOK'
  BY <1>10, InstallAssumption DEF TypeOK, Configs, Resting, Calls, Ended, Critical, Files, UvEnds, Changes
<1>11. ASSUME NEW p \in Procs, Check(p) PROVE TypeOK'
  <2>1. call' \in [Procs -> Calls]
    <3>1. \A pc \in {"mcp", "failed"} : [call[p] EXCEPT !.pc = pc] \in Calls
      BY CallsGoOn DEF Places, Ended
    <3> QED
      BY <1>11, <3>1, CallsGoOn DEF Check, Goes, GivesUp
  <2> QED
    BY <1>11, <2>1 DEF TypeOK, Check
<1>12. ASSUME NEW p \in Procs, SaveMcp(p) PROVE TypeOK'
  BY <1>12, InstallAssumption DEF TypeOK, Configs, Resting, Calls, Ended, Critical, Files, SaveMcp, Changes
<1>13. ASSUME NEW p \in Procs, Load(p) PROVE TypeOK'
  BY <1>13, InstallAssumption DEF TypeOK, Configs, Resting, Calls, Ended, Critical, Files, Load, Goes
<1>14. ASSUME NEW p \in Procs, Write(p) PROVE TypeOK'
  <2>1. call' \in [Procs -> Calls]
    BY <1>14, CallsGoOn DEF Write, Changes, Places, Ended, Critical
  <2>2. config' \in Configs /\ config'.kind = "good"
    BY <1>14, InstallAssumption DEF Write, NoConfig, Configs, TypeOK, Calls
  <2> QED
    BY <1>14, <2>1, <2>2 DEF TypeOK, Write
<1>15. ASSUME NEW p \in Procs, Stop(p) PROVE TypeOK'
  <2>1. Stopped(p)
    BY <1>15, AfterStop
  <2>2. orphans' \in {orphans, orphans + 1} /\ Upset
    BY <1>15, Zenon DEF Stop
  <2> QED
    BY <2>1, <2>2, Bounds DEF TypeOK, Stopped
<1>16. ASSUME NEW p \in Procs, Fails(p) PROVE TypeOK'
  <2>1. call' \in [Procs -> Calls]
    BY <1>16, CallsGoOn DEF Fails, Places, Ended, Critical, Files
  <2> QED
    BY <1>16, <2>1, Bounds DEF TypeOK, Fails
<1>17. ASSUME NEW p \in Procs, UvFails(p) PROVE TypeOK'
  <2>1. call' \in [Procs -> Calls]
    <3>1. CASE GivesUp(p, [call[p] EXCEPT !.pc = "failed", !.alone = FALSE])
      BY <3>1, CallsGoOn DEF GivesUp, Places, Ended
    <3>2. CASE Changes(p, [call[p] EXCEPT !.pc = "check", !.alone = FALSE])
      BY <3>2, CallsGoOn DEF Changes, Places, Critical
    <3> QED
      BY <1>17, <3>1, <3>2 DEF UvFails
  <2> QED
    BY <1>17, <2>1, Bounds DEF TypeOK, UvFails
<1>18. ASSUME OrphanEnds PROVE TypeOK'
  <2>1. call' \in [Procs -> Calls]
    BY <1>18, CallsGoOn DEF OrphanEnds, Places, Ended, Critical
  <2> QED
    BY <1>18, <2>1 DEF TypeOK, OrphanEnds
<1>19. ASSUME RemoveLock PROVE TypeOK'
  <2>1. Robbed
    BY <1>19, AfterRemoveLock
  <2>2. lockFile' \in 0..upsets' /\ upsets' \in 0..MaxUpsets
    BY <1>19, Bounds DEF RemoveLock
  <2> QED
    BY <2>1, <2>2 DEF TypeOK, Robbed
<1>20. ASSUME Spoil PROVE TypeOK'
  <2>1. AllDisturbed
    BY <1>20, AfterDisturbance DEF Spoil
  <2> QED
    BY <1>20, <2>1, Bounds DEF TypeOK, Spoil, AllDisturbed
<1>21. ASSUME WriteConfig PROVE TypeOK'
  <2>1. AllDisturbed
    BY <1>21, AfterDisturbance DEF WriteConfig
  <2>2. config' \in Configs /\ (config'.kind # "good" => config'.projects = {} /\ config'.spare = NoProc)
    <3>1. CASE config' = NoConfig
      BY <3>1 DEF NoConfig, Configs
    <3>2. CASE config' = [NoConfig EXCEPT !.kind = "bad"]
      BY <3>2 DEF NoConfig, Configs
    <3>3. CASE \E js \in SUBSET Projects : config' = [NoConfig EXCEPT !.kind = "good", !.projects = js]
      BY <3>3 DEF NoConfig, Configs
    <3> QED
      BY <1>21, <3>1, <3>2, <3>3 DEF WriteConfig
  <2> QED
    BY <1>21, <2>1, <2>2, Bounds DEF TypeOK, WriteConfig, AllDisturbed
<1>22. ASSUME NEW p \in Procs, HealthFails(p) PROVE TypeOK'
  <2>1. call' \in [Procs -> Calls]
    BY <1>22, CallsGoOn DEF HealthFails, GivesUp, Places, Ended, Critical
  <2> QED
    BY <1>22, <2>1, Bounds DEF TypeOK, HealthFails
<1> QED
  BY <1>1, <1>2, <1>3, <1>4, <1>5, <1>6, <1>7, <1>8, <1>9, <1>10, <1>11, <1>12, <1>13, <1>14, <1>15, <1>16, <1>17, <1>18, <1>19, <1>20, <1>21, <1>22 DEF Next, Step

\* Only an init comes to these places.
LEMMA InitKeeps ==
  ASSUME TypeOK, InitInv, Next
  PROVE  InitInv'
<1>1. ASSUME NEW p \in Procs, NEW op \in {"init", "reconcile"}, NEW new \in SUBSET Projects, Request(p, op, new) PROVE InitInv'
  <2>1. Requested(p, op)
    BY <1>1, AfterRequest
  <2> QED
    BY <1>1, <2>1 DEF TypeOK, InitInv, InitOnly, Resting, Calls, Ended, Critical, Files, Requested, Same
<1>2. ASSUME NEW p \in Procs, NEW f \in Files, MakeFile(p, f) PROVE InitInv'
  BY <1>2 DEF TypeOK, InitInv, InitOnly, Resting, Calls, Ended, Critical, Files, MakeFile, Changes
<1>3. ASSUME NEW p \in Procs, OpenLock(p) PROVE InitInv'
  BY <1>3 DEF TypeOK, InitInv, InitOnly, Resting, Calls, Ended, Critical, Files, OpenLock
<1>4. ASSUME NEW p \in Procs, Acquire(p) PROVE InitInv'
  BY <1>4 DEF TypeOK, InitInv, InitOnly, Resting, Calls, Ended, Critical, Files, Acquire, Goes
<1>5. ASSUME NEW p \in Procs, ReadConfig(p) PROVE InitInv'
  BY <1>5 DEF TypeOK, InitInv, InitOnly, Resting, Calls, Ended, Critical, Files, ReadConfig, Goes
<1>6. ASSUME NEW p \in Procs, Link(p) PROVE InitInv'
  BY <1>6 DEF TypeOK, InitInv, InitOnly, Resting, Calls, Ended, Critical, Files, Link, Bootstrap, NoConfig, Changes, Goes
<1>7. ASSUME NEW p \in Procs, Unlink(p) PROVE InitInv'
  BY <1>7 DEF TypeOK, InitInv, InitOnly, Resting, Calls, Ended, Critical, Files, Unlink, Changes
<1>8. ASSUME NEW p \in Procs, PreHealth(p) PROVE InitInv'
  BY <1>8 DEF TypeOK, InitInv, InitOnly, Resting, Calls, Ended, Critical, Files, PreHealth, Goes
<1>9. ASSUME NEW p \in Procs, Spawn(p) PROVE InitInv'
  BY <1>9 DEF TypeOK, InitInv, InitOnly, Resting, Calls, Ended, Critical, Files, Spawn, Changes
<1>10. ASSUME NEW p \in Procs, UvEnds(p) PROVE InitInv'
  BY <1>10 DEF TypeOK, InitInv, InitOnly, Resting, Calls, Ended, Critical, Files, UvEnds, Changes
<1>11. ASSUME NEW p \in Procs, Check(p) PROVE InitInv'
  BY <1>11 DEF TypeOK, InitInv, InitOnly, Resting, Calls, Ended, Critical, Files, Check, Goes, GivesUp
<1>12. ASSUME NEW p \in Procs, SaveMcp(p) PROVE InitInv'
  BY <1>12 DEF TypeOK, InitInv, InitOnly, Resting, Calls, Ended, Critical, Files, SaveMcp, Changes
<1>13. ASSUME NEW p \in Procs, Load(p) PROVE InitInv'
  BY <1>13 DEF TypeOK, InitInv, InitOnly, Resting, Calls, Ended, Critical, Files, Load, Goes
<1>14. ASSUME NEW p \in Procs, Write(p) PROVE InitInv'
  BY <1>14 DEF TypeOK, InitInv, InitOnly, Resting, Calls, Ended, Critical, Files, Write, NoConfig, Changes
<1>15. ASSUME NEW p \in Procs, Stop(p) PROVE InitInv'
  <2>1. Stopped(p)
    BY <1>15, AfterStop
  <2> QED
    BY <2>1 DEF TypeOK, InitInv, InitOnly, Resting, Calls, Ended, Critical, Files, Stopped, Same
<1>16. ASSUME NEW p \in Procs, Fails(p) PROVE InitInv'
  BY <1>16 DEF TypeOK, InitInv, InitOnly, Resting, Calls, Ended, Critical, Files, Fails, Upset
<1>17. ASSUME NEW p \in Procs, UvFails(p) PROVE InitInv'
  <2>1. call[p].pc = "uv" /\ UNCHANGED <<files, registry, config, mcp, lockFile, orphans>>
    BY <1>17 DEF UvFails
  <2>2. CASE GivesUp(p, [call[p] EXCEPT !.pc = "failed", !.alone = FALSE])
    BY <2>1, <2>2 DEF TypeOK, InitInv, InitOnly, Resting, Calls, Ended, Critical, Files, GivesUp
  <2>3. CASE Changes(p, [call[p] EXCEPT !.pc = "check", !.alone = FALSE])
    BY <2>1, <2>3 DEF TypeOK, InitInv, InitOnly, Resting, Calls, Ended, Critical, Files, Changes
  <2> QED
    BY <1>17, <2>2, <2>3 DEF UvFails
<1>18. ASSUME OrphanEnds PROVE InitInv'
  BY <1>18 DEF TypeOK, InitInv, InitOnly, Resting, Calls, Ended, Critical, Files, OrphanEnds
<1>19. ASSUME RemoveLock PROVE InitInv'
  <2>1. Robbed
    BY <1>19, AfterRemoveLock
  <2> QED
    BY <1>19, <2>1 DEF TypeOK, InitInv, InitOnly, Resting, Calls, Ended, Critical, Files, Robbed, Same
<1>20. ASSUME Spoil PROVE InitInv'
  <2>1. AllDisturbed
    BY <1>20, AfterDisturbance DEF Spoil
  <2> QED
    BY <1>20, <2>1 DEF TypeOK, InitInv, InitOnly, Resting, Calls, Ended, Critical, Files, Spoil, Upset, AllDisturbed, Same
<1>21. ASSUME WriteConfig PROVE InitInv'
  <2>1. AllDisturbed
    BY <1>21, AfterDisturbance DEF WriteConfig
  <2>2. UNCHANGED <<files, tool, mcp, lockFile, orphans>>
    BY <1>21 DEF WriteConfig
  <2> QED
    BY <2>1, <2>2 DEF TypeOK, InitInv, InitOnly, Resting, Calls, Ended, Critical, Files, AllDisturbed, Same
<1>22. ASSUME NEW p \in Procs, HealthFails(p) PROVE InitInv'
  BY <1>22 DEF TypeOK, InitInv, InitOnly, Resting, Calls, Ended, Critical, Files, HealthFails, GivesUp, Upset
<1> QED
  BY <1>1, <1>2, <1>3, <1>4, <1>5, <1>6, <1>7, <1>8, <1>9, <1>10, <1>11, <1>12, <1>13, <1>14, <1>15, <1>16, <1>17, <1>18, <1>19, <1>20, <1>21, <1>22 DEF Next, Step

\* A lock is taken on a file that has the name and that nobody else has locked.
LEMMA LockKeeps ==
  ASSUME TypeOK, LockInv, Next
  PROVE  LockInv'
<1>1. ASSUME NEW p \in Procs, NEW op \in {"init", "reconcile"}, NEW new \in SUBSET Projects, Request(p, op, new) PROVE LockInv'
  <2>1. Requested(p, op)
    BY <1>1, AfterRequest
  <2> QED
    BY <1>1, <2>1 DEF TypeOK, LockInv, Resting, Held, Calls, Ended, Critical, Files, Requested, Same
<1>2. ASSUME NEW p \in Procs, NEW f \in Files, MakeFile(p, f) PROVE LockInv'
  BY <1>2 DEF TypeOK, LockInv, Resting, Held, Calls, Ended, Critical, Files, MakeFile, Changes
<1>3. ASSUME NEW p \in Procs, OpenLock(p) PROVE LockInv'
  BY <1>3 DEF TypeOK, LockInv, Resting, Held, Calls, Ended, Critical, Files, OpenLock
<1>4. ASSUME NEW p \in Procs, Acquire(p) PROVE LockInv'
  BY <1>4 DEF TypeOK, LockInv, Resting, Held, Calls, Ended, Critical, Files, Acquire, Goes
<1>5. ASSUME NEW p \in Procs, ReadConfig(p) PROVE LockInv'
  BY <1>5 DEF TypeOK, LockInv, Resting, Held, Calls, Ended, Critical, Files, ReadConfig, Goes
<1>6. ASSUME NEW p \in Procs, Link(p) PROVE LockInv'
  BY <1>6 DEF TypeOK, LockInv, Resting, Held, Calls, Ended, Critical, Files, Link, Bootstrap, NoConfig, Changes, Goes
<1>7. ASSUME NEW p \in Procs, Unlink(p) PROVE LockInv'
  BY <1>7 DEF TypeOK, LockInv, Resting, Held, Calls, Ended, Critical, Files, Unlink, Changes
<1>8. ASSUME NEW p \in Procs, PreHealth(p) PROVE LockInv'
  BY <1>8 DEF TypeOK, LockInv, Resting, Held, Calls, Ended, Critical, Files, PreHealth, Goes
<1>9. ASSUME NEW p \in Procs, Spawn(p) PROVE LockInv'
  BY <1>9 DEF TypeOK, LockInv, Resting, Held, Calls, Ended, Critical, Files, Spawn, Changes
<1>10. ASSUME NEW p \in Procs, UvEnds(p) PROVE LockInv'
  BY <1>10 DEF TypeOK, LockInv, Resting, Held, Calls, Ended, Critical, Files, UvEnds, Changes
<1>11. ASSUME NEW p \in Procs, Check(p) PROVE LockInv'
  BY <1>11 DEF TypeOK, LockInv, Resting, Held, Calls, Ended, Critical, Files, Check, Goes, GivesUp
<1>12. ASSUME NEW p \in Procs, SaveMcp(p) PROVE LockInv'
  BY <1>12 DEF TypeOK, LockInv, Resting, Held, Calls, Ended, Critical, Files, SaveMcp, Changes
<1>13. ASSUME NEW p \in Procs, Load(p) PROVE LockInv'
  BY <1>13 DEF TypeOK, LockInv, Resting, Held, Calls, Ended, Critical, Files, Load, Goes
<1>14. ASSUME NEW p \in Procs, Write(p) PROVE LockInv'
  BY <1>14 DEF TypeOK, LockInv, Resting, Held, Calls, Ended, Critical, Files, Write, NoConfig, Changes
<1>15. ASSUME NEW p \in Procs, Stop(p) PROVE LockInv'
  <2>1. Stopped(p)
    BY <1>15, AfterStop
  <2> QED
    BY <2>1 DEF TypeOK, LockInv, Resting, Held, Calls, Ended, Critical, Files, Stopped, Same
<1>16. ASSUME NEW p \in Procs, Fails(p) PROVE LockInv'
  BY <1>16 DEF TypeOK, LockInv, Resting, Held, Calls, Ended, Critical, Files, Fails, Upset
<1>17. ASSUME NEW p \in Procs, UvFails(p) PROVE LockInv'
  <2>1. call[p].pc = "uv" /\ UNCHANGED <<files, registry, config, mcp, lockFile, orphans>>
    BY <1>17 DEF UvFails
  <2>2. CASE GivesUp(p, [call[p] EXCEPT !.pc = "failed", !.alone = FALSE])
    BY <2>1, <2>2 DEF TypeOK, LockInv, Resting, Held, Calls, Ended, Critical, Files, GivesUp
  <2>3. CASE Changes(p, [call[p] EXCEPT !.pc = "check", !.alone = FALSE])
    BY <2>1, <2>3 DEF TypeOK, LockInv, Resting, Held, Calls, Ended, Critical, Files, Changes
  <2> QED
    BY <1>17, <2>2, <2>3 DEF UvFails
<1>18. ASSUME OrphanEnds PROVE LockInv'
  BY <1>18 DEF TypeOK, LockInv, Resting, Held, Calls, Ended, Critical, Files, OrphanEnds
<1>19. ASSUME RemoveLock PROVE LockInv'
  <2>1. Robbed
    BY <1>19, AfterRemoveLock
  <2> QED
    BY <1>19, <2>1 DEF TypeOK, LockInv, Resting, Held, Calls, Ended, Critical, Files, Robbed, Same
<1>20. ASSUME Spoil PROVE LockInv'
  <2>1. AllDisturbed
    BY <1>20, AfterDisturbance DEF Spoil
  <2> QED
    BY <1>20, <2>1 DEF TypeOK, LockInv, Resting, Held, Calls, Ended, Critical, Files, Spoil, Upset, AllDisturbed, Same
<1>21. ASSUME WriteConfig PROVE LockInv'
  <2>1. AllDisturbed
    BY <1>21, AfterDisturbance DEF WriteConfig
  <2>2. UNCHANGED <<files, tool, mcp, lockFile, orphans>>
    BY <1>21 DEF WriteConfig
  <2> QED
    BY <2>1, <2>2 DEF TypeOK, LockInv, Resting, Held, Calls, Ended, Critical, Files, AllDisturbed, Same
<1>22. ASSUME NEW p \in Procs, HealthFails(p) PROVE LockInv'
  BY <1>22 DEF TypeOK, LockInv, Resting, Held, Calls, Ended, Critical, Files, HealthFails, GivesUp, Upset
<1> QED
  BY <1>1, <1>2, <1>3, <1>4, <1>5, <1>6, <1>7, <1>8, <1>9, <1>10, <1>11, <1>12, <1>13, <1>14, <1>15, <1>16, <1>17, <1>18, <1>19, <1>20, <1>21, <1>22 DEF Next, Step

\* No command removes a file.
LEMMA FilesKeep ==
  ASSUME TypeOK, InitInv, FilesInv, Next
  PROVE  FilesInv'
<1>1. ASSUME NEW p \in Procs, NEW op \in {"init", "reconcile"}, NEW new \in SUBSET Projects, Request(p, op, new) PROVE FilesInv'
  <2>1. Requested(p, op)
    BY <1>1, AfterRequest
  <2> QED
    BY <1>1, <2>1 DEF TypeOK, InitInv, InitOnly, FilesInv, Made, Resting, Calls, Ended, Critical, Files, Requested, Same
<1>2. ASSUME NEW p \in Procs, NEW f \in Files, MakeFile(p, f) PROVE FilesInv'
  BY <1>2 DEF TypeOK, InitInv, InitOnly, FilesInv, Made, Resting, Calls, Ended, Critical, Files, MakeFile, Changes
<1>3. ASSUME NEW p \in Procs, OpenLock(p) PROVE FilesInv'
  BY <1>3 DEF TypeOK, InitInv, InitOnly, FilesInv, Made, Resting, Calls, Ended, Critical, Files, OpenLock
<1>4. ASSUME NEW p \in Procs, Acquire(p) PROVE FilesInv'
  BY <1>4 DEF TypeOK, InitInv, InitOnly, FilesInv, Made, Resting, Calls, Ended, Critical, Files, Acquire, Goes
<1>5. ASSUME NEW p \in Procs, ReadConfig(p) PROVE FilesInv'
  BY <1>5 DEF TypeOK, InitInv, InitOnly, FilesInv, Made, Resting, Calls, Ended, Critical, Files, ReadConfig, Goes
<1>6. ASSUME NEW p \in Procs, Link(p) PROVE FilesInv'
  BY <1>6 DEF TypeOK, InitInv, InitOnly, FilesInv, Made, Resting, Calls, Ended, Critical, Files, Link, Bootstrap, NoConfig, Changes, Goes
<1>7. ASSUME NEW p \in Procs, Unlink(p) PROVE FilesInv'
  BY <1>7 DEF TypeOK, InitInv, InitOnly, FilesInv, Made, Resting, Calls, Ended, Critical, Files, Unlink, Changes
<1>8. ASSUME NEW p \in Procs, PreHealth(p) PROVE FilesInv'
  BY <1>8 DEF TypeOK, InitInv, InitOnly, FilesInv, Made, Resting, Calls, Ended, Critical, Files, PreHealth, Goes
<1>9. ASSUME NEW p \in Procs, Spawn(p) PROVE FilesInv'
  BY <1>9 DEF TypeOK, InitInv, InitOnly, FilesInv, Made, Resting, Calls, Ended, Critical, Files, Spawn, Changes
<1>10. ASSUME NEW p \in Procs, UvEnds(p) PROVE FilesInv'
  BY <1>10 DEF TypeOK, InitInv, InitOnly, FilesInv, Made, Resting, Calls, Ended, Critical, Files, UvEnds, Changes
<1>11. ASSUME NEW p \in Procs, Check(p) PROVE FilesInv'
  BY <1>11 DEF TypeOK, InitInv, InitOnly, FilesInv, Made, Resting, Calls, Ended, Critical, Files, Check, Goes, GivesUp
<1>12. ASSUME NEW p \in Procs, SaveMcp(p) PROVE FilesInv'
  BY <1>12 DEF TypeOK, InitInv, InitOnly, FilesInv, Made, Resting, Calls, Ended, Critical, Files, SaveMcp, Changes
<1>13. ASSUME NEW p \in Procs, Load(p) PROVE FilesInv'
  BY <1>13 DEF TypeOK, InitInv, InitOnly, FilesInv, Made, Resting, Calls, Ended, Critical, Files, Load, Goes
<1>14. ASSUME NEW p \in Procs, Write(p) PROVE FilesInv'
  BY <1>14 DEF TypeOK, InitInv, InitOnly, FilesInv, Made, Resting, Calls, Ended, Critical, Files, Write, NoConfig, Changes
<1>15. ASSUME NEW p \in Procs, Stop(p) PROVE FilesInv'
  <2>1. Stopped(p)
    BY <1>15, AfterStop
  <2> QED
    BY <2>1 DEF TypeOK, InitInv, InitOnly, FilesInv, Made, Resting, Calls, Ended, Critical, Files, Stopped, Same
<1>16. ASSUME NEW p \in Procs, Fails(p) PROVE FilesInv'
  BY <1>16 DEF TypeOK, InitInv, InitOnly, FilesInv, Made, Resting, Calls, Ended, Critical, Files, Fails, Upset
<1>17. ASSUME NEW p \in Procs, UvFails(p) PROVE FilesInv'
  <2>1. call[p].pc = "uv" /\ UNCHANGED <<files, registry, config, mcp, lockFile, orphans>>
    BY <1>17 DEF UvFails
  <2>2. CASE GivesUp(p, [call[p] EXCEPT !.pc = "failed", !.alone = FALSE])
    BY <2>1, <2>2 DEF TypeOK, InitInv, InitOnly, FilesInv, Made, Resting, Calls, Ended, Critical, Files, GivesUp
  <2>3. CASE Changes(p, [call[p] EXCEPT !.pc = "check", !.alone = FALSE])
    BY <2>1, <2>3 DEF TypeOK, InitInv, InitOnly, FilesInv, Made, Resting, Calls, Ended, Critical, Files, Changes
  <2> QED
    BY <1>17, <2>2, <2>3 DEF UvFails
<1>18. ASSUME OrphanEnds PROVE FilesInv'
  BY <1>18 DEF TypeOK, InitInv, InitOnly, FilesInv, Made, Resting, Calls, Ended, Critical, Files, OrphanEnds
<1>19. ASSUME RemoveLock PROVE FilesInv'
  <2>1. Robbed
    BY <1>19, AfterRemoveLock
  <2> QED
    BY <1>19, <2>1 DEF TypeOK, InitInv, InitOnly, FilesInv, Made, Resting, Calls, Ended, Critical, Files, Robbed, Same
<1>20. ASSUME Spoil PROVE FilesInv'
  <2>1. AllDisturbed
    BY <1>20, AfterDisturbance DEF Spoil
  <2> QED
    BY <1>20, <2>1 DEF TypeOK, InitInv, InitOnly, FilesInv, Made, Resting, Calls, Ended, Critical, Files, Spoil, Upset, AllDisturbed, Same
<1>21. ASSUME WriteConfig PROVE FilesInv'
  <2>1. AllDisturbed
    BY <1>21, AfterDisturbance DEF WriteConfig
  <2>2. UNCHANGED <<files, tool, mcp, lockFile, orphans>>
    BY <1>21 DEF WriteConfig
  <2> QED
    BY <2>1, <2>2 DEF TypeOK, InitInv, InitOnly, FilesInv, Made, Resting, Calls, Ended, Critical, Files, AllDisturbed, Same
<1>22. ASSUME NEW p \in Procs, HealthFails(p) PROVE FilesInv'
  BY <1>22 DEF TypeOK, InitInv, InitOnly, FilesInv, Made, Resting, Calls, Ended, Critical, Files, HealthFails, GivesUp, Upset
<1> QED
  BY <1>1, <1>2, <1>3, <1>4, <1>5, <1>6, <1>7, <1>8, <1>9, <1>10, <1>11, <1>12, <1>13, <1>14, <1>15, <1>16, <1>17, <1>18, <1>19, <1>20, <1>21, <1>22 DEF Next, Step

\* No command removes the definition.
LEMMA McpKeeps ==
  ASSUME TypeOK, McpInv, Next
  PROVE  McpInv'
<1>1. ASSUME NEW p \in Procs, NEW op \in {"init", "reconcile"}, NEW new \in SUBSET Projects, Request(p, op, new) PROVE McpInv'
  <2>1. Requested(p, op)
    BY <1>1, AfterRequest
  <2> QED
    BY <1>1, <2>1 DEF TypeOK, McpInv, Resting, Calls, Ended, Critical, Files, Requested, Same
<1>2. ASSUME NEW p \in Procs, NEW f \in Files, MakeFile(p, f) PROVE McpInv'
  BY <1>2 DEF TypeOK, McpInv, Resting, Calls, Ended, Critical, Files, MakeFile, Changes
<1>3. ASSUME NEW p \in Procs, OpenLock(p) PROVE McpInv'
  BY <1>3 DEF TypeOK, McpInv, Resting, Calls, Ended, Critical, Files, OpenLock
<1>4. ASSUME NEW p \in Procs, Acquire(p) PROVE McpInv'
  BY <1>4 DEF TypeOK, McpInv, Resting, Calls, Ended, Critical, Files, Acquire, Goes
<1>5. ASSUME NEW p \in Procs, ReadConfig(p) PROVE McpInv'
  BY <1>5 DEF TypeOK, McpInv, Resting, Calls, Ended, Critical, Files, ReadConfig, Goes
<1>6. ASSUME NEW p \in Procs, Link(p) PROVE McpInv'
  BY <1>6 DEF TypeOK, McpInv, Resting, Calls, Ended, Critical, Files, Link, Bootstrap, NoConfig, Changes, Goes
<1>7. ASSUME NEW p \in Procs, Unlink(p) PROVE McpInv'
  BY <1>7 DEF TypeOK, McpInv, Resting, Calls, Ended, Critical, Files, Unlink, Changes
<1>8. ASSUME NEW p \in Procs, PreHealth(p) PROVE McpInv'
  BY <1>8 DEF TypeOK, McpInv, Resting, Calls, Ended, Critical, Files, PreHealth, Goes
<1>9. ASSUME NEW p \in Procs, Spawn(p) PROVE McpInv'
  BY <1>9 DEF TypeOK, McpInv, Resting, Calls, Ended, Critical, Files, Spawn, Changes
<1>10. ASSUME NEW p \in Procs, UvEnds(p) PROVE McpInv'
  BY <1>10 DEF TypeOK, McpInv, Resting, Calls, Ended, Critical, Files, UvEnds, Changes
<1>11. ASSUME NEW p \in Procs, Check(p) PROVE McpInv'
  BY <1>11 DEF TypeOK, McpInv, Resting, Calls, Ended, Critical, Files, Check, Goes, GivesUp
<1>12. ASSUME NEW p \in Procs, SaveMcp(p) PROVE McpInv'
  BY <1>12 DEF TypeOK, McpInv, Resting, Calls, Ended, Critical, Files, SaveMcp, Changes
<1>13. ASSUME NEW p \in Procs, Load(p) PROVE McpInv'
  BY <1>13 DEF TypeOK, McpInv, Resting, Calls, Ended, Critical, Files, Load, Goes
<1>14. ASSUME NEW p \in Procs, Write(p) PROVE McpInv'
  BY <1>14 DEF TypeOK, McpInv, Resting, Calls, Ended, Critical, Files, Write, NoConfig, Changes
<1>15. ASSUME NEW p \in Procs, Stop(p) PROVE McpInv'
  <2>1. Stopped(p)
    BY <1>15, AfterStop
  <2> QED
    BY <2>1 DEF TypeOK, McpInv, Resting, Calls, Ended, Critical, Files, Stopped, Same
<1>16. ASSUME NEW p \in Procs, Fails(p) PROVE McpInv'
  BY <1>16 DEF TypeOK, McpInv, Resting, Calls, Ended, Critical, Files, Fails, Upset
<1>17. ASSUME NEW p \in Procs, UvFails(p) PROVE McpInv'
  <2>1. call[p].pc = "uv" /\ UNCHANGED <<files, registry, config, mcp, lockFile, orphans>>
    BY <1>17 DEF UvFails
  <2>2. CASE GivesUp(p, [call[p] EXCEPT !.pc = "failed", !.alone = FALSE])
    BY <2>1, <2>2 DEF TypeOK, McpInv, Resting, Calls, Ended, Critical, Files, GivesUp
  <2>3. CASE Changes(p, [call[p] EXCEPT !.pc = "check", !.alone = FALSE])
    BY <2>1, <2>3 DEF TypeOK, McpInv, Resting, Calls, Ended, Critical, Files, Changes
  <2> QED
    BY <1>17, <2>2, <2>3 DEF UvFails
<1>18. ASSUME OrphanEnds PROVE McpInv'
  BY <1>18 DEF TypeOK, McpInv, Resting, Calls, Ended, Critical, Files, OrphanEnds
<1>19. ASSUME RemoveLock PROVE McpInv'
  <2>1. Robbed
    BY <1>19, AfterRemoveLock
  <2> QED
    BY <1>19, <2>1 DEF TypeOK, McpInv, Resting, Calls, Ended, Critical, Files, Robbed, Same
<1>20. ASSUME Spoil PROVE McpInv'
  <2>1. AllDisturbed
    BY <1>20, AfterDisturbance DEF Spoil
  <2> QED
    BY <1>20, <2>1 DEF TypeOK, McpInv, Resting, Calls, Ended, Critical, Files, Spoil, Upset, AllDisturbed, Same
<1>21. ASSUME WriteConfig PROVE McpInv'
  <2>1. AllDisturbed
    BY <1>21, AfterDisturbance DEF WriteConfig
  <2>2. UNCHANGED <<files, tool, mcp, lockFile, orphans>>
    BY <1>21 DEF WriteConfig
  <2> QED
    BY <2>1, <2>2 DEF TypeOK, McpInv, Resting, Calls, Ended, Critical, Files, AllDisturbed, Same
<1>22. ASSUME NEW p \in Procs, HealthFails(p) PROVE McpInv'
  BY <1>22 DEF TypeOK, McpInv, Resting, Calls, Ended, Critical, Files, HealthFails, GivesUp, Upset
<1> QED
  BY <1>1, <1>2, <1>3, <1>4, <1>5, <1>6, <1>7, <1>8, <1>9, <1>10, <1>11, <1>12, <1>13, <1>14, <1>15, <1>16, <1>17, <1>18, <1>19, <1>20, <1>21, <1>22 DEF Next, Step

\* Who replaces the program looks at it afterwards, or is known to have given it up.
LEMMA ToolKeeps ==
  ASSUME TypeOK, ToolInv, Next
  PROVE  ToolInv'
<1>1. ASSUME NEW p \in Procs, NEW op \in {"init", "reconcile"}, NEW new \in SUBSET Projects, Request(p, op, new) PROVE ToolInv'
  <2>1. Requested(p, op)
    BY <1>1, AfterRequest
  <2>2. call[p].pc \in Ended /\ UNCHANGED <<tool, orphans>>
    BY <1>1 DEF Request
  <2> QED
    BY <2>1, <2>2 DEF TypeOK, ToolInv, Resting, Calls, Ended, Critical, Files, Requested, Same
<1>2. ASSUME NEW p \in Procs, NEW f \in Files, MakeFile(p, f) PROVE ToolInv'
  BY <1>2 DEF TypeOK, ToolInv, Resting, Calls, Ended, Critical, Files, MakeFile, Changes
<1>3. ASSUME NEW p \in Procs, OpenLock(p) PROVE ToolInv'
  BY <1>3 DEF TypeOK, ToolInv, Resting, Calls, Ended, Critical, Files, OpenLock
<1>4. ASSUME NEW p \in Procs, Acquire(p) PROVE ToolInv'
  BY <1>4 DEF TypeOK, ToolInv, Resting, Calls, Ended, Critical, Files, Acquire, Goes
<1>5. ASSUME NEW p \in Procs, ReadConfig(p) PROVE ToolInv'
  BY <1>5 DEF TypeOK, ToolInv, Resting, Calls, Ended, Critical, Files, ReadConfig, Goes
<1>6. ASSUME NEW p \in Procs, Link(p) PROVE ToolInv'
  BY <1>6 DEF TypeOK, ToolInv, Resting, Calls, Ended, Critical, Files, Link, Bootstrap, NoConfig, Changes, Goes
<1>7. ASSUME NEW p \in Procs, Unlink(p) PROVE ToolInv'
  BY <1>7 DEF TypeOK, ToolInv, Resting, Calls, Ended, Critical, Files, Unlink, Changes
<1>8. ASSUME NEW p \in Procs, PreHealth(p) PROVE ToolInv'
  BY <1>8 DEF TypeOK, ToolInv, Resting, Calls, Ended, Critical, Files, PreHealth, Goes
<1>9. ASSUME NEW p \in Procs, Spawn(p) PROVE ToolInv'
  BY <1>9 DEF TypeOK, ToolInv, Resting, Calls, Ended, Critical, Files, Spawn, Changes
<1>10. ASSUME NEW p \in Procs, UvEnds(p) PROVE ToolInv'
  BY <1>10 DEF TypeOK, ToolInv, Resting, Calls, Ended, Critical, Files, UvEnds, Changes
<1>11. ASSUME NEW p \in Procs, Check(p) PROVE ToolInv'
  BY <1>11 DEF TypeOK, ToolInv, Resting, Calls, Ended, Critical, Files, Check, Goes, GivesUp
<1>12. ASSUME NEW p \in Procs, SaveMcp(p) PROVE ToolInv'
  BY <1>12 DEF TypeOK, ToolInv, Resting, Calls, Ended, Critical, Files, SaveMcp, Changes
<1>13. ASSUME NEW p \in Procs, Load(p) PROVE ToolInv'
  BY <1>13 DEF TypeOK, ToolInv, Resting, Calls, Ended, Critical, Files, Load, Goes
<1>14. ASSUME NEW p \in Procs, Write(p) PROVE ToolInv'
  BY <1>14 DEF TypeOK, ToolInv, Resting, Calls, Ended, Critical, Files, Write, NoConfig, Changes
<1>15. ASSUME NEW p \in Procs, Stop(p) PROVE ToolInv'
  <2>1. Stopped(p)
    BY <1>15, AfterStop
  <2> QED
    BY <2>1 DEF TypeOK, ToolInv, Resting, Calls, Ended, Critical, Files, Stopped, Same
<1>16. ASSUME NEW p \in Procs, Fails(p) PROVE ToolInv'
  BY <1>16 DEF TypeOK, ToolInv, Resting, Calls, Ended, Critical, Files, Fails, Upset
<1>17. ASSUME NEW p \in Procs, UvFails(p) PROVE ToolInv'
  <2>1. call[p].pc = "uv" /\ UNCHANGED <<files, registry, config, mcp, lockFile, orphans>>
    BY <1>17 DEF UvFails
  <2>2. CASE GivesUp(p, [call[p] EXCEPT !.pc = "failed", !.alone = FALSE])
    BY <2>1, <2>2 DEF TypeOK, ToolInv, Resting, Calls, Ended, Critical, Files, GivesUp
  <2>3. CASE Changes(p, [call[p] EXCEPT !.pc = "check", !.alone = FALSE])
    BY <2>1, <2>3 DEF TypeOK, ToolInv, Resting, Calls, Ended, Critical, Files, Changes
  <2> QED
    BY <1>17, <2>2, <2>3 DEF UvFails
<1>18. ASSUME OrphanEnds PROVE ToolInv'
  BY <1>18 DEF TypeOK, ToolInv, Resting, Calls, Ended, Critical, Files, OrphanEnds
<1>19. ASSUME RemoveLock PROVE ToolInv'
  <2>1. Robbed
    BY <1>19, AfterRemoveLock
  <2> QED
    BY <1>19, <2>1 DEF TypeOK, ToolInv, Resting, Calls, Ended, Critical, Files, Robbed, Same
<1>20. ASSUME Spoil PROVE ToolInv'
  <2>1. AllDisturbed
    BY <1>20, AfterDisturbance DEF Spoil
  <2> QED
    BY <1>20, <2>1 DEF TypeOK, ToolInv, Resting, Calls, Ended, Critical, Files, Spoil, Upset, AllDisturbed, Same
<1>21. ASSUME WriteConfig PROVE ToolInv'
  <2>1. AllDisturbed
    BY <1>21, AfterDisturbance DEF WriteConfig
  <2>2. UNCHANGED <<files, tool, mcp, lockFile, orphans>>
    BY <1>21 DEF WriteConfig
  <2> QED
    BY <2>1, <2>2 DEF TypeOK, ToolInv, Resting, Calls, Ended, Critical, Files, AllDisturbed, Same
<1>22. ASSUME NEW p \in Procs, HealthFails(p) PROVE ToolInv'
  BY <1>22 DEF TypeOK, ToolInv, Resting, Calls, Ended, Critical, Files, HealthFails, GivesUp, Upset
<1> QED
  BY <1>1, <1>2, <1>3, <1>4, <1>5, <1>6, <1>7, <1>8, <1>9, <1>10, <1>11, <1>12, <1>13, <1>14, <1>15, <1>16, <1>17, <1>18, <1>19, <1>20, <1>21, <1>22 DEF Next, Step

\* Nothing that is broken by others goes unnoticed.
LEMMA AloneKeeps ==
  ASSUME TypeOK, AloneInv, Next
  PROVE  AloneInv'
<1>1. ASSUME NEW p \in Procs, NEW op \in {"init", "reconcile"}, NEW new \in SUBSET Projects, Request(p, op, new) PROVE AloneInv'
  <2>1. Requested(p, op)
    BY <1>1, AfterRequest
  <2> QED
    BY <1>1, <2>1, InstallAssumption DEF TypeOK, AloneInv, Resting, Configs, Unusable, Held, Calls, Ended, Critical, Files, Requested, Same
<1>2. ASSUME NEW p \in Procs, NEW f \in Files, MakeFile(p, f) PROVE AloneInv'
  BY <1>2, InstallAssumption DEF TypeOK, AloneInv, Resting, Configs, Unusable, Held, Calls, Ended, Critical, Files, MakeFile, Changes
<1>3. ASSUME NEW p \in Procs, OpenLock(p) PROVE AloneInv'
  BY <1>3, InstallAssumption DEF TypeOK, AloneInv, Resting, Configs, Unusable, Held, Calls, Ended, Critical, Files, OpenLock
<1>4. ASSUME NEW p \in Procs, Acquire(p) PROVE AloneInv'
  BY <1>4, InstallAssumption DEF TypeOK, AloneInv, Resting, Configs, Unusable, Held, Calls, Ended, Critical, Files, Acquire, Goes
<1>5. ASSUME NEW p \in Procs, ReadConfig(p) PROVE AloneInv'
  BY <1>5, InstallAssumption DEF TypeOK, AloneInv, Resting, Configs, Unusable, Held, Calls, Ended, Critical, Files, ReadConfig, Goes
<1>6. ASSUME NEW p \in Procs, Link(p) PROVE AloneInv'
  BY <1>6, BootstrapIsGood DEF TypeOK, AloneInv, Resting, Calls, Ended, Critical, Files, Link, Changes, Goes
<1>7. ASSUME NEW p \in Procs, Unlink(p) PROVE AloneInv'
  BY <1>7, InstallAssumption DEF TypeOK, AloneInv, Resting, Configs, Unusable, Held, Calls, Ended, Critical, Files, Unlink, Changes
<1>8. ASSUME NEW p \in Procs, PreHealth(p) PROVE AloneInv'
  BY <1>8, InstallAssumption DEF TypeOK, AloneInv, Resting, Configs, Unusable, Held, Calls, Ended, Critical, Files, PreHealth, Goes
<1>9. ASSUME NEW p \in Procs, Spawn(p) PROVE AloneInv'
  BY <1>9, InstallAssumption DEF TypeOK, AloneInv, Resting, Configs, Unusable, Held, Calls, Ended, Critical, Files, Spawn, Changes
<1>10. ASSUME NEW p \in Procs, UvEnds(p) PROVE AloneInv'
  BY <1>10, InstallAssumption DEF TypeOK, AloneInv, Resting, Configs, Unusable, Held, Calls, Ended, Critical, Files, UvEnds, Changes
<1>11. ASSUME NEW p \in Procs, Check(p) PROVE AloneInv'
  BY <1>11, InstallAssumption DEF TypeOK, AloneInv, Resting, Configs, Unusable, Held, Calls, Ended, Critical, Files, Check, Goes, GivesUp
<1>12. ASSUME NEW p \in Procs, SaveMcp(p) PROVE AloneInv'
  BY <1>12, InstallAssumption DEF TypeOK, AloneInv, Resting, Configs, Unusable, Held, Calls, Ended, Critical, Files, SaveMcp, Changes
<1>13. ASSUME NEW p \in Procs, Load(p) PROVE AloneInv'
  BY <1>13, InstallAssumption DEF TypeOK, AloneInv, Resting, Configs, Unusable, Held, Calls, Ended, Critical, Files, Load, Goes
<1>14. ASSUME NEW p \in Procs, Write(p) PROVE AloneInv'
  BY <1>14, InstallAssumption DEF TypeOK, AloneInv, Resting, Configs, Unusable, Held, Calls, Ended, Critical, Files, Write, NoConfig, Changes
<1>15. ASSUME NEW p \in Procs, Stop(p) PROVE AloneInv'
  <2>1. Stopped(p)
    BY <1>15, AfterStop
  <2> QED
    BY <2>1, InstallAssumption DEF TypeOK, AloneInv, Resting, Configs, Unusable, Held, Calls, Ended, Critical, Files, Stopped, Same
<1>16. ASSUME NEW p \in Procs, Fails(p) PROVE AloneInv'
  BY <1>16, InstallAssumption DEF TypeOK, AloneInv, Resting, Configs, Unusable, Held, Calls, Ended, Critical, Files, Fails, Upset
<1>17. ASSUME NEW p \in Procs, UvFails(p) PROVE AloneInv'
  <2>1. call[p].pc = "uv" /\ UNCHANGED <<files, registry, config, mcp, lockFile, orphans>>
    BY <1>17 DEF UvFails
  <2>2. CASE GivesUp(p, [call[p] EXCEPT !.pc = "failed", !.alone = FALSE])
    BY <2>1, <2>2, InstallAssumption DEF TypeOK, AloneInv, Resting, Configs, Unusable, Held, Calls, Ended, Critical, Files, GivesUp
  <2>3. CASE Changes(p, [call[p] EXCEPT !.pc = "check", !.alone = FALSE])
    BY <2>1, <2>3, InstallAssumption DEF TypeOK, AloneInv, Resting, Configs, Unusable, Held, Calls, Ended, Critical, Files, Changes
  <2> QED
    BY <1>17, <2>2, <2>3 DEF UvFails
<1>18. ASSUME OrphanEnds PROVE AloneInv'
  BY <1>18, InstallAssumption DEF TypeOK, AloneInv, Resting, Configs, Unusable, Held, Calls, Ended, Critical, Files, OrphanEnds
<1>19. ASSUME RemoveLock PROVE AloneInv'
  <2>1. Robbed
    BY <1>19, AfterRemoveLock
  <2> QED
    BY <1>19, <2>1, InstallAssumption DEF TypeOK, AloneInv, Resting, Configs, Unusable, Held, Calls, Ended, Critical, Files, Robbed, Same
<1>20. ASSUME Spoil PROVE AloneInv'
  <2>1. AllDisturbed
    BY <1>20, AfterDisturbance DEF Spoil
  <2> QED
    BY <1>20, <2>1, InstallAssumption DEF TypeOK, AloneInv, Resting, Configs, Unusable, Held, Calls, Ended, Critical, Files, Spoil, Upset, AllDisturbed, Same
<1>21. ASSUME WriteConfig PROVE AloneInv'
  <2>1. AllDisturbed
    BY <1>21, AfterDisturbance DEF WriteConfig
  <2>2. UNCHANGED <<files, tool, mcp, lockFile, orphans>>
    BY <1>21 DEF WriteConfig
  <2> QED
    BY <2>1, <2>2 DEF TypeOK, AloneInv, Resting, Configs, Unusable, Held, Calls, Ended, Critical, Files, AllDisturbed, Same
<1>22. ASSUME NEW p \in Procs, HealthFails(p) PROVE AloneInv'
  BY <1>22, InstallAssumption DEF TypeOK, AloneInv, Resting, Configs, Unusable, Held, Calls, Ended, Critical, Files, HealthFails, GivesUp, Upset
<1> QED
  BY <1>1, <1>2, <1>3, <1>4, <1>5, <1>6, <1>7, <1>8, <1>9, <1>10, <1>11, <1>12, <1>13, <1>14, <1>15, <1>16, <1>17, <1>18, <1>19, <1>20, <1>21, <1>22 DEF Next, Step

---------------------------------------------------------------------------------
(* The theorems. *)

\* Doing nothing keeps everything.
LEMMA StutterKeeps ==
  ASSUME IInv, UNCHANGED vars
  PROVE  IInv'
BY DEF IInv, TypeOK, InitInv, LockInv, FilesInv, Made, McpInv, ToolInv, AloneInv, vars

LEMMA Inductive == Spec => []IInv
<1>1. IInv /\ Next => IInv'
  BY TypeKeeps, InitKeeps, LockKeeps, FilesKeep, McpKeeps, ToolKeeps, AloneKeeps DEF IInv
<1>2. IInv /\ [Next]_vars => IInv'
  BY <1>1, StutterKeeps
<1> QED
  BY InitIInv, <1>2, PTL DEF Spec

\* Every variable keeps its type; a config that is not good lists no projects.
THEOREM TypeCorrect == Spec => []TypeOK
<1>1. IInv => TypeOK
  BY DEF IInv
<1> QED
  BY Inductive, <1>1, PTL

\* acquire_basic_memory_lock excludes, although the lock file may lose its name to
\* anybody at any time: two commands at work have different lock files, and only one of
\* these has the name.
THEOREM MutualExclusion == Spec => []OneAtATime
<1>1. IInv => OneAtATime
  BY DEF IInv, LockInv, OneAtATime
<1> QED
  BY Inductive, <1>1, PTL

\* What `ptw init` reports is so, and stays so beside any number of other commands that do not
\* fail, until something else changes: the program is the pinned one, or one of those commands
\* is replacing it at this moment.  No lock is needed for that, only the check before the report.
THEOREM ReadyIsReady == Spec => []ReadyMeansReady
<1>1. IInv => ReadyMeansReady
  <2>1. ASSUME IInv, NEW p \in Procs, call[p].pc = "ready", call[p].fresh
        PROVE  /\ tool = "pinned" \/ \E q \in Procs : call[q].pc \in {"uv", "check"}
               /\ mcp # "absent" /\ Made("config.yaml") /\ Made("SKILL.md")
    BY <2>1 DEF IInv, InitInv, InitOnly, FilesInv, McpInv, ToolInv
  <2> QED
    BY <2>1 DEF ReadyMeansReady, Made, Files
<1> QED
  BY Inductive, <1>1, PTL

\* Whatever earlier commands have left half done, the next one gets to its end if it is
\* left alone, unless it meets a config with two names (ensure_safe_bootstrap_config).
THEOREM LeftAloneItSucceeds == Spec => []UndisturbedSucceeds
<1>1. IInv => UndisturbedSucceeds
  BY DEF IInv, AloneInv, UndisturbedSucceeds
<1> QED
  BY Inductive, <1>1, PTL

\* os.link never replaces a config, whoever has written it, and whenever; only the replacement of
\* the config by a reconciliation takes projects out, and never one of the registry it was given.
THEOREM ProjectsRemain == Spec => ProjectsStay
<1> DEFINE Stays == \A j \in config.projects \ config'.projects :
             \/ upsets' # upsets
             \/ \E p \in Procs : /\ call[p].pc = "write" /\ call'[p].pc = "reconciled"
                                /\ j \notin call[p].reg
<1>1. TypeOK /\ [Next]_vars => Stays
  <2> SUFFICES ASSUME TypeOK, Next, UNCHANGED upsets, config' # config,
                      NEW j \in config.projects, j \notin config'.projects
               PROVE  \E p \in Procs : /\ call[p].pc = "write" /\ call'[p].pc = "reconciled"
                                     /\ j \notin call[p].reg
    BY DEF vars
  <2>1. upsets # upsets + 1
    BY InstallAssumption DEF TypeOK
  <2>2. PICK p \in Procs : Link(p) \/ Unlink(p) \/ Write(p)
    BY <2>1 DEF Next, Step, Request, MakeFile, OpenLock, Acquire, ReadConfig, PreHealth, Spawn,
       UvEnds, Check, SaveMcp, Load, Stop, Fails, UvFails, HealthFails, OrphanEnds, RemoveLock,
       Spoil, WriteConfig, Upset
  <2>3. ~Link(p)
    BY DEF Link, TypeOK
  <2>4. ~Unlink(p)
    BY DEF Unlink, TypeOK, Configs
  <2>5. CASE Write(p)
    <3>1. config'.projects = call[p].reg /\ call[p].pc = "write"
      BY <2>5 DEF Write, NoConfig
    <3>2. call'[p].pc = "reconciled"
      BY <2>5 DEF Write, Changes, TypeOK, Calls
    <3> QED
      BY <3>1, <3>2
  <2> QED
    BY <2>2, <2>3, <2>4, <2>5
<1> QED
  BY TypeCorrect, <1>1, PTL DEF Spec, ProjectsStay

=================================================================================
