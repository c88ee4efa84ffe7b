------------------------------- MODULE HooksProofs -------------------------------
(* What the hook commands promise, for any processes and any number of upsets. *)
EXTENDS Hooks, TLAPS

\* Only a file that can be read has entries, and one of agy has at most one.
HooksInv ==
  /\ hooks.kind # "good" => hooks.canon = 0 /\ hooks.odd = 0
  /\ client = "agy" => hooks.canon + hooks.odd <= 1

\* Only an install at Codex looks at both files; it has written neither before the end of
\* the first.
PlaceInv(c) ==
  /\ c.pc \in {"inspect", "load", "save", "replace"} => c.op \in {"install", "remove"} /\ ~c.wrote
  /\ c.pc \in {"enable", "saveconf", "replaceconf"} =>
       c.op \in {"install", "sync"} /\ (c.op = "install" => client = "codex")

\* What a command is going to write is the file as it read it, but for Tideway's own, and
\* what it has put into backups/ is the file, unless somebody came in between.
DocInv(c) ==
  /\ c.pc \in HooksInPlay =>
       /\ c.doc.kind = "good" /\ (client = "agy" => c.doc.canon + c.doc.odd <= 1)
       /\ c.touched \/ (c.doc.text = hooks.text /\ c.doc.odd = hooks.odd)
  /\ c.pc = "replace" => c.unsaved \/ hooks = c.oldDoc
ConfInv(c) ==
  /\ c.pc \in ConfigInPlay =>
       c.touched \/ (/\ c.conf.text = config.text /\ c.conf.clash = config.clash
                     /\ c.conf.servers \in {config.servers, c.servers}
                     /\ config.feature => c.conf.feature)
  /\ c.pc = "replaceconf" => c.unsaved \/ config \in {c.oldConf, c.conf}

\* How far an undisturbed install has come.
InstallInv(c) ==
  /\ c.pc \in {"inspect", "load"} => c.plan = Plan
  /\ c.pc = "load" => client = "agy" \/ Status = "not-installed"
  /\ c.pc \in {"save", "replace", "enable"} \cup ConfigInPlay => c.plan \notin {"none", "conflict"}
  /\ c.pc \in HooksInPlay => Status = "not-installed" /\ c.doc.canon = 1 /\ c.doc.odd = 0
  /\ c.pc \in {"enable"} \cup ConfigInPlay =>
       hooks.kind = "good" /\ hooks.canon = 1 /\ hooks.odd = 0 /\ ~ConfigConflict
  /\ c.pc = "enable" => c.wrote \/ ~config.feature
  /\ c.pc \in ConfigInPlay => c.conf.kind = "good" /\ c.conf.feature /\ ~c.conf.clash
  /\ c.pc \in {"changed", "unchanged"} => Status = "installed"
  /\ c.pc \in Ended \ {"idle"} =>
       /\ c.plan = "none" <=> c.pc = "unchanged"
       /\ c.plan = "conflict" <=> c.pc = "refused"
       /\ c.pc # "changed" => ~c.wrote

\* And an undisturbed remove.
RemoveInv(c) ==
  /\ c.pc = "load" => hooks.canon <= 1
  /\ c.pc \in HooksInPlay => c.doc.canon = 0
  /\ c.pc \in {"changed", "unchanged"} => hooks.canon = 0

CallInv(c) ==
  /\ PlaceInv(c) /\ DocInv(c) /\ ConfInv(c)
  /\ c.alone /\ c.op = "install" => InstallInv(c)
  /\ c.alone /\ c.op = "remove" => RemoveInv(c)

IInv == TypeOK /\ HooksInv /\ \A p \in Procs : CallInv(call[p])

---------------------------------------------------------------------------------
\* Nothing has been said or done yet.
LEMMA RestingIs ==
  /\ Resting \in Calls /\ Resting.pc = "idle" /\ ~Resting.alone
  /\ Blank \in HookFiles /\ NoConfig \in Configs
BY DEF Resting, Calls, Ended, Blank, HookFiles, NoConfig, Configs

LEMMA InitIInv == Init => IInv
<1> SUFFICES ASSUME Init PROVE IInv
  OBVIOUS
<1>1. hooks \in HookFiles /\ config \in Configs /\ hooks.canon = 0 /\ hooks.odd = 0
  <2>1. ASSUME NEW t \in Texts, NEW f, f = [Blank EXCEPT !.kind = "good", !.text = t]
        PROVE  f \in HookFiles /\ f.canon = 0 /\ f.odd = 0
    <3>1. f = [kind |-> "good", canon |-> 0, odd |-> 0, text |-> t]
      BY <2>1 DEF Blank
    <3> QED
      BY <3>1 DEF HookFiles
  <2>2. \A t \in Texts : [NoConfig EXCEPT !.kind = "good", !.text = t] \in Configs
    BY DEF NoConfig, Configs
  <2>3. Blank.canon = 0 /\ Blank.odd = 0
    BY DEF Blank
  <2> QED
    BY <2>1, <2>2, <2>3, RestingIs DEF Init
<1>2. call \in [Procs -> Calls] /\ \A p \in Procs : call[p] = Resting
  BY RestingIs DEF Init
<1>3. TypeOK
  <2>1. client \in Clients /\ upsets = 0 /\ MaxUpsets \in Nat
    BY HooksAssumption DEF Init
  <2> QED
    BY <1>1, <1>2, <2>1 DEF TypeOK
<1>4. \A p \in Procs : CallInv(call[p])
  BY <1>2, RestingIs DEF CallInv, PlaceInv, DocInv, ConfInv, HooksInPlay, ConfigInPlay
<1> QED
  BY <1>1, <1>3, <1>4 DEF IInv, HooksInv

---------------------------------------------------------------------------------
(* What becomes of a call. *)

\* One that ends keeps what it reports, if nobody came in between.
LEMMA OverIs ==
  ASSUME TypeOK, NEW p \in Procs, NEW pc \in Ended, NEW wrote \in BOOLEAN
  PROVE  LET r == Over(p, pc, wrote) IN
         /\ r \in Calls /\ r.pc \in Ended
         /\ r.alone => /\ call[p].alone /\ r.pc = pc /\ r.op = call[p].op
                       /\ r.wrote = wrote /\ r.plan = call[p].plan
<1>1. call[p] \in Calls
  BY DEF TypeOK
<1>2. CASE ~call[p].alone
  BY <1>2, RestingIs DEF Over, Ended
<1>3. CASE call[p].alone
  <2>1. ASSUME NEW r, r = [Resting EXCEPT !.pc = pc, !.op = call[p].op, !.wrote = wrote,
                      !.plan = call[p].plan, !.alone = TRUE]
        PROVE  /\ r \in Calls /\ r.pc = pc /\ r.op = call[p].op
               /\ r.wrote = wrote /\ r.plan = call[p].plan
    BY <1>1, <2>1, RestingIs DEF Calls
  <2> QED
    BY <1>3, <2>1 DEF Over
<1> QED
  BY <1>2, <1>3

\* One that is at work notices what others do; a report is dropped.
LEMMA NoticeIs ==
  ASSUME TypeOK, NEW q \in Procs, NEW at
  PROVE  LET c == call[q]
             r == Notice(q, at)
         IN  /\ r \in Calls /\ ~r.alone
             /\ r.pc = c.pc \/ r.pc = "idle"
             /\ c.pc \notin Ended => r.pc = c.pc
             /\ r.pc # "idle" =>
                  /\ r.op = c.op /\ r.servers = c.servers /\ r.wrote = c.wrote
                  /\ r.doc = c.doc /\ r.conf = c.conf /\ r.oldDoc = c.oldDoc /\ r.oldConf = c.oldConf
                  /\ r.touched <=> c.touched \/ c.pc \in at
                  /\ r.unsaved <=> c.unsaved \/ c.pc \in at
<1>1. call[q] \in Calls
  BY DEF TypeOK
<1>2. CASE call[q].pc \in Ended
  BY <1>2, RestingIs DEF Notice, Ended
<1>3. CASE call[q].pc \notin Ended
  <2> DEFINE t == call[q].touched \/ call[q].pc \in at
             u == call[q].unsaved \/ call[q].pc \in at
             r == [call[q] EXCEPT !.alone = FALSE, !.plan = "", !.touched = t, !.unsaved = u]
  <2>1. Notice(q, at) = r
    BY <1>3, Zenon DEF Notice
  <2>2. t \in BOOLEAN /\ u \in BOOLEAN
    BY Zenon
  <2> HIDE DEF t, u
  <2>3. /\ r \in Calls /\ ~r.alone
        /\ r.pc = call[q].pc
        /\ r.op = call[q].op /\ r.servers = call[q].servers /\ r.wrote = call[q].wrote
        /\ r.doc = call[q].doc /\ r.conf = call[q].conf
        /\ r.oldDoc = call[q].oldDoc /\ r.oldConf = call[q].oldConf
        /\ r.touched = t /\ r.unsaved = u
    BY <1>1, <2>2 DEF Calls
  <2> HIDE DEF r
  <2>4. (r.touched <=> t) /\ (r.unsaved <=> u)
    BY <2>3, Zenon
  <2> QED
    BY <1>3, <2>1, <2>3, <2>4, Zenon DEF t, u
<1> QED
  BY <1>2, <1>3

---------------------------------------------------------------------------------
(* Three kinds of steps. *)

\* One process goes on as r, and no file changes.
LEMMA LocalStep ==
  ASSUME IInv, NEW p \in Procs, NEW r \in Calls, CallInv(r),
         call' = [call EXCEPT ![p] = r], UNCHANGED <<client, hooks, config>>,
         upsets' \in 0..MaxUpsets
  PROVE  IInv'
<1>1. call' \in [Procs -> Calls] /\ \A q \in Procs : call'[q] = IF q = p THEN r ELSE call[q]
  BY DEF IInv, TypeOK
<1>2. TypeOK' /\ HooksInv'
  BY <1>1 DEF IInv, TypeOK, HooksInv
<1>3. \A q \in Procs : CallInv(call'[q])
  BY <1>1 DEF IInv
<1>4. \A q \in Procs : CallInv(call[q])'
  BY <1>3 DEF CallInv, PlaceInv, DocInv, ConfInv, InstallInv, RemoveInv, Plan, Status,
     ConfigConflict, Enabled
<1> QED
  BY <1>2, <1>4 DEF IInv

\* hooks.json changes, and all but one at most notice.
LEMMA HooksStep ==
  ASSUME IInv, UNCHANGED <<client, config>>, hooks' \in HookFiles, HooksInv', upsets' \in 0..MaxUpsets,
         call' = [q \in Procs |-> call'[q]],
         \A q \in Procs : \/ call'[q] = Notice(q, HooksInPlay)
                          \/ call'[q] \in Calls /\ CallInv(call[q])'
  PROVE  IInv'
<1>1. ASSUME NEW q \in Procs, call'[q] = Notice(q, HooksInPlay)
      PROVE  call'[q] \in Calls /\ CallInv(call[q])'
  <2>1. CallInv(call[q]) /\ TypeOK
    BY DEF IInv
  <2> QED
    BY <1>1, <2>1, NoticeIs DEF CallInv, PlaceInv, DocInv, ConfInv, HooksInPlay, ConfigInPlay
<1>2. call' \in [Procs -> Calls] /\ \A q \in Procs : CallInv(call[q])'
  BY <1>1
<1> QED
  BY <1>2 DEF IInv, TypeOK

\* The config changes, and all but one at most notice.
LEMMA ConfigStep ==
  ASSUME IInv, UNCHANGED <<client, hooks>>, config' \in Configs, upsets' \in 0..MaxUpsets,
         call' = [q \in Procs |-> call'[q]],
         \A q \in Procs : \/ call'[q] = Notice(q, ConfigInPlay)
                          \/ call'[q] \in Calls /\ CallInv(call[q])'
  PROVE  IInv'
<1>1. ASSUME NEW q \in Procs, call'[q] = Notice(q, ConfigInPlay)
      PROVE  call'[q] \in Calls /\ CallInv(call[q])'
  <2>1. CallInv(call[q]) /\ TypeOK
    BY DEF IInv
  <2> QED
    BY <1>1, <2>1, NoticeIs DEF CallInv, PlaceInv, DocInv, ConfInv, HooksInPlay, ConfigInPlay
<1>2. call' \in [Procs -> Calls] /\ \A q \in Procs : CallInv(call[q])'
  BY <1>1
<1> QED
  BY <1>2 DEF IInv, TypeOK, HooksInv

---------------------------------------------------------------------------------
(* The actions. *)

\* A true report about p, with the files as they are.
Report(p, pc, wrote) ==
  /\ call[p].alone /\ call[p].op = "install" =>
       /\ pc \in {"changed", "unchanged"} => Status = "installed"
       /\ pc # "idle" => /\ call[p].plan = "none" <=> pc = "unchanged"
                         /\ call[p].plan = "conflict" <=> pc = "refused"
                         /\ pc # "changed" => ~wrote
  /\ call[p].alone /\ call[p].op = "remove" =>
       (pc \in {"changed", "unchanged"} => hooks.canon = 0)

LEMMA OverInv ==
  ASSUME TypeOK, NEW p \in Procs, NEW pc \in Ended, NEW wrote \in BOOLEAN, Report(p, pc, wrote)
  PROVE  Over(p, pc, wrote) \in Calls /\ CallInv(Over(p, pc, wrote))
<1> DEFINE r == Over(p, pc, wrote)
<1>1. /\ r \in Calls /\ r.pc \in Ended
      /\ r.alone => /\ call[p].alone /\ r.pc = pc /\ r.op = call[p].op
                    /\ r.wrote = wrote /\ r.plan = call[p].plan
  BY OverIs
<1> HIDE DEF r
<1>2. PlaceInv(r) /\ DocInv(r) /\ ConfInv(r)
  BY <1>1 DEF PlaceInv, DocInv, ConfInv, HooksInPlay, ConfigInPlay, Ended
<1>3. r.alone /\ r.op = "install" => InstallInv(r)
  BY <1>1 DEF Report, InstallInv, HooksInPlay, ConfigInPlay, Ended
<1>4. r.alone /\ r.op = "remove" => RemoveInv(r)
  BY <1>1 DEF Report, RemoveInv, HooksInPlay, Ended
<1>5. r \in Calls /\ CallInv(r)
  BY <1>1, <1>2, <1>3, <1>4 DEF CallInv
<1> QED
  BY <1>5 DEF r

LEMMA EndStep ==
  ASSUME IInv, NEW p \in Procs, NEW pc \in Ended, Report(p, pc, call[p].wrote), Ends(p, pc),
         UNCHANGED <<client, hooks, config>>, upsets' \in 0..MaxUpsets
  PROVE  IInv'
<1>1. call[p].wrote \in BOOLEAN
  BY DEF IInv, TypeOK, Calls
<1>2. TypeOK
  BY DEF IInv
<1>3. /\ Over(p, pc, call[p].wrote) \in Calls /\ CallInv(Over(p, pc, call[p].wrote))
  BY <1>1, <1>2, OverInv
<1>4. call' = [call EXCEPT ![p] = Over(p, pc, call[p].wrote)]
  BY DEF Ends
<1> QED
  BY <1>3, <1>4, LocalStep

\* What is known of p before a step that leaves the upsets alone.
LEMMA Known ==
  ASSUME IInv, NEW p \in Procs
  PROVE  /\ TypeOK /\ HooksInv /\ call[p] \in Calls /\ CallInv(call[p])
         /\ hooks \in HookFiles /\ config \in Configs /\ client \in {"codex", "agy"}
         /\ upsets \in 0..MaxUpsets
BY HooksAssumption DEF IInv, TypeOK

LEMMA RequestStep ==
  ASSUME IInv, NEW p \in Procs, NEW op \in {"install", "remove", "sync"},
         NEW s \in Servers \cup {"none"}, Request(p, op, s)
  PROVE  IInv'
<1> DEFINE pl == IF op = "install" THEN Plan ELSE ""
           at == IF op = "sync" THEN "enable" ELSE IF client = "codex" THEN "inspect" ELSE "load"
           r == [Resting EXCEPT !.op = op, !.servers = s, !.alone = TRUE, !.plan = pl, !.pc = at]
<1>1. call' = [call EXCEPT ![p] = r] /\ UNCHANGED <<client, hooks, config, upsets>>
  BY DEF Request
<1>2. /\ at \in {"enable", "inspect", "load"} /\ (at = "enable" <=> op = "sync")
      /\ at = "load" => client # "codex"
  OBVIOUS
<1>3. pl \in {"", "conflict", "none", "enable", "create", "update"} /\ (op = "install" => pl = Plan)
  BY DEF Plan
<1> HIDE DEF pl, at
<1>4. ASSUME NEW c, c = r
      PROVE  /\ c \in Calls /\ c.pc = at /\ c.op = op /\ c.plan = pl /\ c.wrote = FALSE
  <2>1. Resting \in Calls /\ Resting.wrote = FALSE
    BY RestingIs DEF Resting
  <2> QED
    BY <1>2, <1>3, <1>4, <2>1 DEF Calls
<1> HIDE DEF r
<1>5. /\ r \in Calls /\ r.pc = at /\ r.op = op /\ r.plan = pl /\ ~r.wrote
  BY <1>4
<1>6. CallInv(r)
  <2>1. PlaceInv(r) /\ DocInv(r) /\ ConfInv(r)
    BY <1>2, <1>5 DEF PlaceInv, DocInv, ConfInv, HooksInPlay, ConfigInPlay
  <2>2. r.op = "install" => InstallInv(r)
    BY <1>2, <1>3, <1>5, Known DEF InstallInv, HooksInPlay, ConfigInPlay, Ended
  <2>3. r.op = "remove" => RemoveInv(r)
    BY <1>2, <1>5, Known DEF RemoveInv, HooksInPlay, HooksInv, HookFiles
  <2> QED
    BY <2>1, <2>2, <2>3 DEF CallInv
<1> QED
  BY <1>1, <1>5, <1>6, LocalStep, Known

LEMMA InspectStep ==
  ASSUME IInv, NEW p \in Procs, Inspect(p)
  PROVE  IInv'
<1> DEFINE c == call[p]
<1>1. /\ c.pc = "inspect" /\ UNCHANGED <<client, hooks, config>> /\ upsets' \in 0..MaxUpsets
      /\ c \in Calls /\ CallInv(c) /\ HooksInv /\ hooks \in HookFiles
  BY Known DEF Inspect
<1>2. c.op \in {"install", "remove"} /\ ~c.wrote
  BY <1>1 DEF CallInv, PlaceInv
<1>3. c.alone /\ c.op = "install" => c.plan = Plan
  BY <1>1 DEF CallInv, InstallInv
<1>4. CASE Status = "conflict"
  <2>1. Ends(p, "refused")
    BY <1>4 DEF Inspect
  <2>2. Report(p, "refused", c.wrote)
    BY <1>2, <1>3, <1>4 DEF Report, Plan
  <2> QED
    BY <1>1, <2>1, <2>2, EndStep DEF Ended
<1>5. CASE /\ Status # "conflict"
           /\ \/ c.op = "install" /\ Status = "installed"
              \/ c.op = "remove" /\ hooks.kind = "absent"
  <2>1. Ends(p, "unchanged")
    BY <1>5 DEF Inspect
  <2>2. Report(p, "unchanged", c.wrote)
    BY <1>1, <1>2, <1>3, <1>5 DEF Report, Plan, HooksInv
  <2> QED
    BY <1>1, <2>1, <2>2, EndStep DEF Ended
<1>6. CASE /\ Status # "conflict"
           /\ ~(c.op = "install" /\ Status = "installed")
           /\ ~(c.op = "remove" /\ hooks.kind = "absent")
  <2>1. call' = [call EXCEPT ![p] = [c EXCEPT !.pc = "load"]]
    BY <1>6 DEF Inspect
  <2>2. ASSUME NEW r, r = [c EXCEPT !.pc = "load"]
        PROVE  r \in Calls /\ CallInv(r)
    <3>1. /\ r \in Calls /\ r.pc = "load" /\ r.op = c.op /\ r.plan = c.plan
          /\ r.alone = c.alone /\ r.wrote = c.wrote
      BY <1>1, <2>2 DEF Calls
    <3>2. PlaceInv(r) /\ DocInv(r) /\ ConfInv(r)
      BY <1>2, <3>1 DEF PlaceInv, DocInv, ConfInv, HooksInPlay, ConfigInPlay
    <3>3. r.alone /\ r.op = "install" => InstallInv(r)
      BY <1>3, <1>6, <3>1 DEF InstallInv, HooksInPlay, ConfigInPlay, Ended, Status
    <3>4. r.alone /\ r.op = "remove" => RemoveInv(r)
      BY <1>1, <1>6, <3>1 DEF RemoveInv, HooksInPlay, Status, HookFiles
    <3> QED
      BY <3>1, <3>2, <3>3, <3>4 DEF CallInv
  <2>3. [c EXCEPT !.pc = "load"] \in Calls /\ CallInv([c EXCEPT !.pc = "load"])
    BY <2>2
  <2> QED
    BY <1>1, <2>1, <2>3, LocalStep
<1> QED
  BY <1>2, <1>4, <1>5, <1>6

\* Someone adds an entry to a file that has none to go by.
LEMMA AddedIs ==
  ASSUME hooks \in HookFiles
  PROVE  LET f == Added(hooks) IN
         /\ f \in HookFiles /\ f.kind = "good" /\ f.text = hooks.text /\ f.odd = hooks.odd
         /\ f.canon = IF hooks.canon = 0 THEN 1 ELSE hooks.canon
<1>1. ASSUME NEW g, g = [hooks EXCEPT !.kind = "good"]
      PROVE  /\ g \in HookFiles /\ g.kind = "good"
             /\ g.text = hooks.text /\ g.odd = hooks.odd /\ g.canon = hooks.canon
  BY <1>1 DEF HookFiles
<1>2. ASSUME NEW g \in HookFiles, NEW f, f = [g EXCEPT !.canon = IF g.canon = 0 THEN 1 ELSE g.canon]
      PROVE  /\ f \in HookFiles /\ f.kind = g.kind /\ f.text = g.text /\ f.odd = g.odd
             /\ f.canon = IF g.canon = 0 THEN 1 ELSE g.canon
  BY <1>2 DEF HookFiles
<1>3. PICK g : g = [hooks EXCEPT !.kind = "good"]
  OBVIOUS
<1>4. Added(hooks) = [g EXCEPT !.canon = IF g.canon = 0 THEN 1 ELSE g.canon]
  BY <1>3, Zenon DEF Added
<1>5. /\ g \in HookFiles /\ g.kind = "good"
      /\ g.text = hooks.text /\ g.odd = hooks.odd /\ g.canon = hooks.canon
  BY <1>1, <1>3
<1>6. PICK f : f = Added(hooks)
  OBVIOUS
<1>7. /\ f \in HookFiles /\ f.kind = g.kind /\ f.text = g.text /\ f.odd = g.odd
      /\ f.canon = IF g.canon = 0 THEN 1 ELSE g.canon
  BY <1>2, <1>4, <1>5, <1>6
<1> QED
  BY <1>5, <1>6, <1>7

LEMMA DroppedIs ==
  ASSUME hooks \in HookFiles, hooks.canon > 0
  PROVE  LET f == Dropped(hooks) IN
         /\ f \in HookFiles /\ f.kind = hooks.kind /\ f.text = hooks.text /\ f.odd = hooks.odd
         /\ f.canon = hooks.canon - 1
BY DEF Dropped, HookFiles

LEMMA LoadToInstallStep ==
  ASSUME IInv, NEW p \in Procs, LoadToInstall(p)
  PROVE  IInv'
<1> DEFINE c == call[p]
           d == Added(hooks)
<1>1. /\ c.pc = "load" /\ c.op = "install" /\ hooks.kind # "bad"
      /\ client = "agy" => hooks.canon + hooks.odd = 0
      /\ UNCHANGED <<client, hooks, config>> /\ upsets' \in 0..MaxUpsets
      /\ c \in Calls /\ CallInv(c) /\ HooksInv /\ hooks \in HookFiles
      /\ client \in {"codex", "agy"}
  BY Known DEF LoadToInstall
<1>2. /\ d \in HookFiles /\ d.kind = "good" /\ d.text = hooks.text /\ d.odd = hooks.odd
      /\ d.canon = IF hooks.canon = 0 THEN 1 ELSE hooks.canon
  BY <1>1, AddedIs
<1>3. client = "agy" => d.canon = 1 /\ d.odd = 0 /\ Status = "not-installed"
  BY <1>1, <1>2 DEF Status, ConfigConflict, HookFiles
<1>4. Status = "not-installed" => d.canon = 1 /\ d.odd = 0 /\ Plan \notin {"none", "conflict"}
  BY <1>1, <1>2 DEF Status, Plan, HookFiles
<1>5. ~c.wrote /\ (c.alone => c.plan = Plan /\ Status = "not-installed")
  BY <1>1, <1>3 DEF CallInv, PlaceInv, InstallInv
<1>6. call' = [call EXCEPT ![p] = [c EXCEPT !.pc = "save", !.doc = d, !.touched = FALSE]]
  BY DEF LoadToInstall
<1> HIDE DEF d
<1>7. ASSUME NEW r, r = [c EXCEPT !.pc = "save", !.doc = d, !.touched = FALSE]
      PROVE  r \in Calls /\ CallInv(r)
  <2>1. /\ r \in Calls /\ r.pc = "save" /\ r.op = "install" /\ r.plan = c.plan
        /\ r.alone = c.alone /\ r.wrote = c.wrote /\ r.doc = d
    BY <1>1, <1>2, <1>7 DEF Calls
  <2>2. PlaceInv(r) /\ DocInv(r) /\ ConfInv(r)
    BY <1>2, <1>3, <1>5, <2>1 DEF PlaceInv, DocInv, ConfInv, HooksInPlay, ConfigInPlay
  <2>3. r.alone /\ r.op = "install" => InstallInv(r)
    BY <1>4, <1>5, <2>1 DEF InstallInv, HooksInPlay, ConfigInPlay, Ended
  <2> QED
    BY <2>1, <2>2, <2>3 DEF CallInv
<1>8. /\ [c EXCEPT !.pc = "save", !.doc = d, !.touched = FALSE] \in Calls
      /\ CallInv([c EXCEPT !.pc = "save", !.doc = d, !.touched = FALSE])
  BY <1>7
<1> QED
  BY <1>1, <1>6, <1>8, LocalStep

LEMMA LoadToRemoveStep ==
  ASSUME IInv, NEW p \in Procs, LoadToRemove(p)
  PROVE  IInv'
<1> DEFINE c == call[p]
           d == Dropped(hooks)
<1>1. /\ c.pc = "load" /\ c.op = "remove" /\ hooks.canon > 0
      /\ UNCHANGED <<client, hooks, config>> /\ upsets' \in 0..MaxUpsets
      /\ c \in Calls /\ CallInv(c) /\ HooksInv /\ hooks \in HookFiles
  BY Known DEF LoadToRemove
<1>2. /\ d \in HookFiles /\ d.kind = hooks.kind /\ d.text = hooks.text /\ d.odd = hooks.odd
      /\ d.canon = hooks.canon - 1
  BY <1>1, DroppedIs
<1>3. d.kind = "good" /\ (client = "agy" => d.canon + d.odd <= 1)
  BY <1>1, <1>2 DEF HooksInv, HookFiles
<1>4. ~c.wrote /\ (c.alone => d.canon = 0)
  BY <1>1, <1>2 DEF CallInv, PlaceInv, RemoveInv, HookFiles
<1>5. call' = [call EXCEPT ![p] = [c EXCEPT !.pc = "save", !.doc = d, !.touched = FALSE]]
  BY DEF LoadToRemove
<1> HIDE DEF d
<1>6. ASSUME NEW r, r = [c EXCEPT !.pc = "save", !.doc = d, !.touched = FALSE]
      PROVE  r \in Calls /\ CallInv(r)
  <2>1. /\ r \in Calls /\ r.pc = "save" /\ r.op = "remove"
        /\ r.alone = c.alone /\ r.wrote = c.wrote /\ r.doc = d
    BY <1>1, <1>2, <1>6 DEF Calls
  <2>2. PlaceInv(r) /\ DocInv(r) /\ ConfInv(r)
    BY <1>2, <1>3, <1>4, <2>1 DEF PlaceInv, DocInv, ConfInv, HooksInPlay, ConfigInPlay
  <2>3. r.alone => RemoveInv(r)
    BY <1>4, <2>1 DEF RemoveInv, HooksInPlay
  <2> QED
    BY <2>1, <2>2, <2>3 DEF CallInv
<1>7. /\ [c EXCEPT !.pc = "save", !.doc = d, !.touched = FALSE] \in Calls
      /\ CallInv([c EXCEPT !.pc = "save", !.doc = d, !.touched = FALSE])
  BY <1>6
<1> QED
  BY <1>1, <1>5, <1>7, LocalStep

\* The three ways in which a command ends when it reads the file again.
LEMMA LoadEndsStep ==
  ASSUME IInv, NEW p \in Procs, AlreadyThere(p) \/ NothingToRemove(p) \/ LoadRefuses(p)
  PROVE  IInv'
<1> DEFINE c == call[p]
<1>1. /\ c.pc = "load" /\ UNCHANGED <<client, hooks, config>> /\ upsets' \in 0..MaxUpsets
      /\ CallInv(c) /\ HooksInv /\ hooks \in HookFiles
  BY Known DEF AlreadyThere, NothingToRemove, LoadRefuses
<1>2. ~c.wrote /\ c.op \in {"install", "remove"}
  BY <1>1 DEF CallInv, PlaceInv
<1>3. c.alone /\ c.op = "install" => c.plan = Plan /\ (client = "agy" \/ Status = "not-installed")
  BY <1>1 DEF CallInv, InstallInv
<1>4. CASE AlreadyThere(p)
  <2>1. c.op = "install" /\ client = "agy" /\ hooks.kind = "good" /\ hooks.canon = 1 /\ hooks.odd = 0
    BY <1>1, <1>4 DEF AlreadyThere, HooksInv, HookFiles
  <2>2. Status = "installed" /\ Plan = "none"
    BY <2>1 DEF Status, Plan, ConfigConflict, Enabled
  <2>3. Report(p, "unchanged", c.wrote) /\ Ends(p, "unchanged")
    BY <1>2, <1>3, <1>4, <2>1, <2>2 DEF Report, AlreadyThere
  <2> QED
    BY <1>1, <2>3, EndStep DEF Ended
<1>5. CASE NothingToRemove(p)
  <2>1. Report(p, "unchanged", c.wrote) /\ Ends(p, "unchanged")
    BY <1>5 DEF Report, NothingToRemove
  <2> QED
    BY <1>1, <2>1, EndStep DEF Ended
<1>6. CASE LoadRefuses(p)
  <2>1. hooks.kind = "bad" \/ (client = "agy" /\ hooks.odd = 1)
    BY <1>6 DEF LoadRefuses
  <2>2. Status = "conflict" /\ Plan = "conflict"
    BY <2>1 DEF Status, Plan
  <2>3. Report(p, "refused", c.wrote) /\ Ends(p, "refused")
    BY <1>2, <1>3, <1>6, <2>2 DEF Report, LoadRefuses
  <2> QED
    BY <1>1, <2>3, EndStep DEF Ended
<1> QED
  BY <1>4, <1>5, <1>6

LEMMA SaveStep ==
  ASSUME IInv, NEW p \in Procs, Save(p)
  PROVE  IInv'
<1> DEFINE c == call[p]
<1>1. /\ c.pc = "save" /\ UNCHANGED <<client, hooks, config>> /\ upsets' \in 0..MaxUpsets
      /\ c \in Calls /\ CallInv(c) /\ hooks \in HookFiles
  BY Known DEF Save
<1>2. call' = [call EXCEPT ![p] = [c EXCEPT !.pc = "replace", !.oldDoc = hooks, !.unsaved = FALSE]]
  BY DEF Save
<1>3. ASSUME NEW r, r = [c EXCEPT !.pc = "replace", !.oldDoc = hooks, !.unsaved = FALSE]
      PROVE  r \in Calls /\ CallInv(r)
  <2>1. /\ r \in Calls /\ r.pc = "replace" /\ r.op = c.op /\ r.plan = c.plan /\ r.alone = c.alone
        /\ r.wrote = c.wrote /\ r.doc = c.doc /\ r.oldDoc = hooks /\ r.touched = c.touched
    BY <1>1, <1>3 DEF Calls
  <2> QED
    BY <1>1, <2>1 DEF CallInv, PlaceInv, DocInv, ConfInv, InstallInv, RemoveInv,
       HooksInPlay, ConfigInPlay, Ended
<1>4. /\ [c EXCEPT !.pc = "replace", !.oldDoc = hooks, !.unsaved = FALSE] \in Calls
      /\ CallInv([c EXCEPT !.pc = "replace", !.oldDoc = hooks, !.unsaved = FALSE])
  BY <1>3
<1> QED
  BY <1>1, <1>2, <1>4, LocalStep

LEMMA SaveRefusesStep ==
  ASSUME IInv, NEW p \in Procs, SaveRefuses(p)
  PROVE  IInv'
<1> DEFINE c == call[p]
<1>1. /\ c.pc = "save" /\ hooks.kind = "bad" /\ Ends(p, "refused")
      /\ UNCHANGED <<client, hooks, config>> /\ upsets' \in 0..MaxUpsets /\ CallInv(c)
  BY Known DEF SaveRefuses
<1>2. ~(c.alone /\ c.op = "install")
  BY <1>1 DEF CallInv, InstallInv, HooksInPlay, Status
<1>3. Report(p, "refused", c.wrote)
  BY <1>2 DEF Report
<1> QED
  BY <1>1, <1>3, EndStep DEF Ended

\* An install at Codex goes on to the second file.
LEMMA AfterHooksIs ==
  ASSUME TypeOK, NEW p \in Procs, NEW wrote \in BOOLEAN, call[p].op = "install", client = "codex"
  PROVE  LET c == call[p]
             r == AfterHooks(p, wrote)
         IN  /\ r \in Calls /\ r.pc = "enable" /\ r.op = "install" /\ r.plan = c.plan
             /\ r.alone = c.alone /\ r.wrote = wrote
<1>1. call[p] \in Calls
  BY DEF TypeOK
<1>2. ASSUME NEW r, r = [call[p] EXCEPT !.pc = "enable", !.wrote = wrote, !.doc = Blank, !.oldDoc = Blank]
      PROVE  /\ r \in Calls /\ r.pc = "enable" /\ r.op = "install" /\ r.plan = call[p].plan
             /\ r.alone = call[p].alone /\ r.wrote = wrote
  BY <1>1, <1>2, RestingIs DEF Calls
<1> QED
  BY <1>2 DEF AfterHooks

LEMMA NothingToReplaceStep ==
  ASSUME IInv, NEW p \in Procs, NothingToReplace(p)
  PROVE  IInv'
<1> DEFINE c == call[p]
           r == AfterHooks(p, FALSE)
<1>1. /\ c.pc = "save" /\ hooks = c.doc /\ call' = [call EXCEPT ![p] = r]
      /\ UNCHANGED <<client, hooks, config>> /\ upsets' \in 0..MaxUpsets
      /\ TypeOK /\ CallInv(c) /\ client \in {"codex", "agy"}
  BY Known DEF NothingToReplace
<1>2. /\ c.op \in {"install", "remove"} /\ hooks.kind = "good"
      /\ c.alone /\ c.op = "install" => /\ c.plan \notin {"none", "conflict"}
                                        /\ Status = "not-installed" /\ hooks.canon = 1 /\ hooks.odd = 0
      /\ c.alone /\ c.op = "remove" => hooks.canon = 0
  BY <1>1 DEF CallInv, PlaceInv, DocInv, InstallInv, RemoveInv, HooksInPlay
<1>3. c.alone /\ c.op = "install" => ~ConfigConflict /\ client = "codex" /\ ~config.feature
  BY <1>1, <1>2 DEF Status, Enabled
<1>4. CASE c.op = "install" /\ client = "codex"
  <2>1. /\ r \in Calls /\ r.pc = "enable" /\ r.op = "install" /\ r.plan = c.plan /\ r.alone = c.alone
    BY <1>1, <1>4, AfterHooksIs
  <2> HIDE DEF r
  <2>2. PlaceInv(r) /\ DocInv(r) /\ ConfInv(r)
    BY <1>4, <2>1 DEF PlaceInv, DocInv, ConfInv, HooksInPlay, ConfigInPlay
  <2>3. r.alone => InstallInv(r)
    BY <1>2, <1>3, <1>4, <2>1 DEF InstallInv, HooksInPlay, ConfigInPlay, Ended
  <2>4. CallInv(r)
    BY <2>1, <2>2, <2>3 DEF CallInv
  <2> QED
    BY <1>1, <2>1, <2>4, LocalStep
<1>5. CASE ~(c.op = "install" /\ client = "codex")
  <2>1. r = Over(p, "unchanged", FALSE)
    BY <1>5 DEF AfterHooks, Finish
  <2>2. Report(p, "unchanged", FALSE)
    BY <1>2, <1>3, <1>5 DEF Report
  <2>3. r \in Calls /\ CallInv(r)
    BY <1>1, <2>1, <2>2, OverInv DEF Ended
  <2> QED
    BY <1>1, <2>3, LocalStep
<1> QED
  BY <1>4, <1>5

\* The file is replaced: what the process goes on with is true of the new one.
LEMMA ReplaceStep ==
  ASSUME IInv, NEW p \in Procs, Replace(p)
  PROVE  IInv'
<1> DEFINE c == call[p]
           r == AfterHooks(p, TRUE)
<1>1. /\ c.pc = "replace" /\ hooks' = c.doc /\ UNCHANGED <<client, config>> /\ upsets' \in 0..MaxUpsets
      /\ TypeOK /\ c \in Calls /\ CallInv(c) /\ client \in {"codex", "agy"}
  BY Known DEF Replace
<1>2. call' = [q \in Procs |-> IF q = p THEN r ELSE Notice(q, HooksInPlay)]
  BY DEF Replace, Changing
<1>3. /\ c.op \in {"install", "remove"} /\ hooks' \in HookFiles /\ hooks'.kind = "good"
      /\ client = "agy" => hooks'.canon + hooks'.odd <= 1
      /\ c.alone /\ c.op = "install" => /\ c.plan \notin {"none", "conflict"}
                                        /\ Status = "not-installed" /\ hooks'.canon = 1 /\ hooks'.odd = 0
      /\ c.alone /\ c.op = "remove" => hooks'.canon = 0
  BY <1>1 DEF CallInv, PlaceInv, DocInv, InstallInv, RemoveInv, HooksInPlay, Calls
<1>4. c.alone /\ c.op = "install" =>
        /\ ~ConfigConflict /\ ~ConfigConflict' /\ (client = "agy" => Status' = "installed")
  BY <1>1, <1>3 DEF Status, ConfigConflict, Enabled
<1>5. call'[p] = r
  BY <1>2
<1>6. call'[p] \in Calls /\ CallInv(call[p])'
  <2>1. CASE c.op = "install" /\ client = "codex"
    <3>1. /\ r \in Calls /\ r.pc = "enable" /\ r.op = "install" /\ r.plan = c.plan
          /\ r.alone = c.alone /\ r.wrote = TRUE
      BY <1>1, <2>1, AfterHooksIs
    <3> HIDE DEF r
    <3>2. PlaceInv(call[p])' /\ DocInv(call[p])' /\ ConfInv(call[p])'
      BY <1>1, <1>5, <2>1, <3>1 DEF PlaceInv, DocInv, ConfInv, HooksInPlay, ConfigInPlay
    <3>3. call'[p].alone => InstallInv(call[p])'
      BY <1>3, <1>4, <1>5, <2>1, <3>1 DEF InstallInv, HooksInPlay, ConfigInPlay, Ended
    <3> QED
      BY <1>5, <3>1, <3>2, <3>3 DEF CallInv
  <2>2. CASE ~(c.op = "install" /\ client = "codex")
    <3>1. r = Over(p, "changed", TRUE)
      BY <2>2 DEF AfterHooks, Finish
    <3>2. /\ r \in Calls /\ r.pc \in Ended
          /\ r.alone => /\ c.alone /\ r.pc = "changed" /\ r.op = c.op
                        /\ r.wrote = TRUE /\ r.plan = c.plan
      <4>1. "changed" \in Ended /\ TRUE \in BOOLEAN
        BY DEF Ended
      <4> HIDE DEF r
      <4> QED
        BY <1>1, <3>1, <4>1, OverIs
    <3> HIDE DEF r
    <3>3. PlaceInv(call[p])' /\ DocInv(call[p])' /\ ConfInv(call[p])'
      BY <1>5, <3>2 DEF PlaceInv, DocInv, ConfInv, HooksInPlay, ConfigInPlay, Ended
    <3>4. call'[p].alone /\ call'[p].op = "install" => InstallInv(call[p])'
      BY <1>1, <1>3, <1>4, <1>5, <2>2, <3>2 DEF InstallInv, HooksInPlay, ConfigInPlay, Ended
    <3>5. call'[p].alone /\ call'[p].op = "remove" => RemoveInv(call[p])'
      BY <1>3, <1>5, <3>2 DEF RemoveInv, HooksInPlay
    <3> QED
      BY <1>5, <3>2, <3>3, <3>4, <3>5 DEF CallInv
  <2> QED
    BY <2>1, <2>2
<1>7. HooksInv' /\ call' = [q \in Procs |-> call'[q]]
  BY <1>1, <1>2, <1>3 DEF HooksInv
<1>8. \A q \in Procs : \/ call'[q] = Notice(q, HooksInPlay)
                       \/ call'[q] \in Calls /\ CallInv(call[q])'
  BY <1>2, <1>6
<1> QED
  BY <1>1, <1>3, <1>7, <1>8, HooksStep

---------------------------------------------------------------------------------
(* config.toml. *)

\* A rewritten config differs in one place at most.
LEMMA RewrittenIs ==
  ASSUME TypeOK, NEW p \in Procs
  PROVE  LET c == call[p]
             f == Rewritten(p)
         IN  /\ f \in Configs /\ f.kind = "good" /\ f.text = config.text /\ f.clash = config.clash
             /\ f.servers \in {config.servers, c.servers}
             /\ config.feature => f.feature
             /\ c.op # "sync" => f.feature = TRUE
<1>1. config \in Configs /\ call[p].servers \in Servers \cup {"none"}
  BY DEF TypeOK, Calls
<1>2. ASSUME NEW g, g = [config EXCEPT !.kind = "good"]
      PROVE  /\ g \in Configs /\ g.kind = "good" /\ g.text = config.text /\ g.clash = config.clash
             /\ g.servers = config.servers /\ g.feature = config.feature
  BY <1>1, <1>2 DEF Configs
<1>3. ASSUME NEW g \in Configs, NEW f, f = [g EXCEPT !.servers = call[p].servers]
      PROVE  /\ f \in Configs /\ f.kind = g.kind /\ f.text = g.text /\ f.clash = g.clash
             /\ f.servers = call[p].servers /\ f.feature = g.feature
  BY <1>1, <1>3 DEF Configs
<1>4. ASSUME NEW g \in Configs, NEW f, f = [g EXCEPT !.feature = TRUE]
      PROVE  /\ f \in Configs /\ f.kind = g.kind /\ f.text = g.text /\ f.clash = g.clash
             /\ f.servers = g.servers /\ f.feature = TRUE
  BY <1>4 DEF Configs
<1>5. PICK g : g = [config EXCEPT !.kind = "good"]
  OBVIOUS
<1>6. /\ g \in Configs /\ g.kind = "good" /\ g.text = config.text /\ g.clash = config.clash
      /\ g.servers = config.servers /\ g.feature = config.feature
  BY <1>2, <1>5
<1>7. PICK f : f = Rewritten(p)
  OBVIOUS
<1>8. f = IF call[p].op = "sync" THEN [g EXCEPT !.servers = call[p].servers]
                                 ELSE [g EXCEPT !.feature = TRUE]
  BY <1>5, <1>7, Zenon DEF Rewritten
<1>9. CASE call[p].op = "sync"
  BY <1>3, <1>6, <1>7, <1>8, <1>9
<1>10. CASE call[p].op # "sync"
  <2>1. f = [g EXCEPT !.feature = TRUE]
    BY <1>8, <1>10
  <2>2. /\ f \in Configs /\ f.kind = g.kind /\ f.text = g.text /\ f.clash = g.clash
        /\ f.servers = g.servers /\ f.feature = TRUE
    BY <1>4, <1>6, <2>1
  <2> QED
    BY <1>6, <1>7, <1>10, <2>2
<1> QED
  BY <1>9, <1>10

LEMMA EnableStep ==
  ASSUME IInv, NEW p \in Procs, Enable(p)
  PROVE  IInv'
<1> DEFINE c == call[p]
           f == Rewritten(p)
           new == [c EXCEPT !.pc = "saveconf", !.conf = f, !.touched = FALSE]
<1>1. /\ c.pc = "enable" /\ UNCHANGED <<client, hooks, config>> /\ upsets' \in 0..MaxUpsets
      /\ TypeOK /\ c \in Calls /\ CallInv(c) /\ client \in {"codex", "agy"}
  BY Known DEF Enable
<1>2. call' = [call EXCEPT ![p] = IF f = config THEN Finish(p, c.wrote) ELSE new]
  BY DEF Enable
<1>3. /\ f \in Configs /\ f.kind = "good" /\ f.text = config.text /\ f.clash = config.clash
      /\ f.servers \in {config.servers, c.servers} /\ (config.feature => f.feature)
      /\ c.op # "sync" => f.feature = TRUE
  BY <1>1, RewrittenIs
<1>4. /\ c.op \in {"install", "sync"} /\ (c.op = "install" => client = "codex")
      /\ c.alone /\ c.op = "install" =>
           /\ c.plan \notin {"none", "conflict"} /\ hooks.kind = "good"
           /\ hooks.canon = 1 /\ hooks.odd = 0 /\ ~ConfigConflict /\ (c.wrote \/ ~config.feature)
  BY <1>1 DEF CallInv, PlaceInv, InstallInv
<1> HIDE DEF f
<1>5. CASE f = config
  <2> DEFINE pc == IF c.wrote THEN "changed" ELSE "unchanged"
             r == Over(p, pc, c.wrote)
  <2>1. call' = [call EXCEPT ![p] = r]
    BY <1>2, <1>5 DEF Finish
  <2>2. pc \in Ended /\ c.wrote \in BOOLEAN
    BY <1>1 DEF Ended, Calls
  <2>3. c.alone /\ c.op = "install" => c.wrote /\ Status = "installed"
    BY <1>3, <1>4, <1>5 DEF Status, Enabled
  <2>4. Report(p, pc, c.wrote)
    BY <1>4, <2>3 DEF Report
  <2> HIDE DEF pc
  <2>5. r \in Calls /\ CallInv(r)
    BY <1>1, <2>2, <2>4, OverInv
  <2> HIDE DEF r
  <2> QED
    BY <1>1, <2>1, <2>5, LocalStep
<1>6. CASE f # config
  <2>1. call' = [call EXCEPT ![p] = new]
    BY <1>2, <1>6
  <2>2. ASSUME NEW r, r = new
        PROVE  r \in Calls /\ CallInv(r)
    <3>1. /\ r \in Calls /\ r.pc = "saveconf" /\ r.op = c.op /\ r.plan = c.plan /\ r.alone = c.alone
          /\ r.conf = f /\ r.servers = c.servers
      BY <1>1, <1>3, <2>2 DEF Calls
    <3>2. PlaceInv(r) /\ DocInv(r) /\ ConfInv(r)
      BY <1>3, <1>4, <3>1 DEF PlaceInv, DocInv, ConfInv, HooksInPlay, ConfigInPlay
    <3>3. r.alone /\ r.op = "install" => InstallInv(r)
      BY <1>3, <1>4, <3>1 DEF InstallInv, HooksInPlay, ConfigInPlay, Ended, ConfigConflict
    <3> QED
      BY <1>4, <3>1, <3>2, <3>3 DEF CallInv
  <2>3. new \in Calls /\ CallInv(new)
    BY <2>2
  <2> HIDE DEF new
  <2> QED
    BY <1>1, <2>1, <2>3, LocalStep
<1> QED
  BY <1>5, <1>6

LEMMA EnableRefusesStep ==
  ASSUME IInv, NEW p \in Procs, EnableRefuses(p)
  PROVE  IInv'
<1> DEFINE c == call[p]
<1>1. /\ c.pc = "enable" /\ Ends(p, "refused") /\ (config.kind = "bad" \/ ConfigConflict)
      /\ UNCHANGED <<client, hooks, config>> /\ upsets' \in 0..MaxUpsets /\ CallInv(c)
  BY Known DEF EnableRefuses
<1>2. ~(c.alone /\ c.op = "install")
  BY <1>1 DEF CallInv, PlaceInv, InstallInv, ConfigConflict
<1>3. Report(p, "refused", c.wrote)
  BY <1>2 DEF Report
<1> QED
  BY <1>1, <1>3, EndStep DEF Ended

LEMMA SaveConfigStep ==
  ASSUME IInv, NEW p \in Procs, SaveConfig(p)
  PROVE  IInv'
<1> DEFINE c == call[p]
           o == IF config = c.conf THEN NoConfig ELSE config
           new == [c EXCEPT !.pc = "replaceconf", !.unsaved = FALSE, !.oldConf = o]
<1>1. /\ c.pc = "saveconf" /\ UNCHANGED <<client, hooks, config>> /\ upsets' \in 0..MaxUpsets
      /\ c \in Calls /\ CallInv(c)
  BY Known DEF SaveConfig
<1>2. call' = [call EXCEPT ![p] = new]
  BY DEF SaveConfig
<1>3. o \in Configs /\ config \in {o, c.conf}
  BY Known, RestingIs
<1> HIDE DEF o
<1>4. ASSUME NEW r, r = new
      PROVE  r \in Calls /\ CallInv(r)
  <2>1. /\ r \in Calls /\ r.pc = "replaceconf" /\ r.op = c.op /\ r.plan = c.plan /\ r.alone = c.alone
        /\ r.conf = c.conf /\ r.servers = c.servers /\ r.touched = c.touched /\ r.oldConf = o
    BY <1>1, <1>3, <1>4 DEF Calls
  <2> QED
    BY <1>1, <1>3, <2>1 DEF CallInv, PlaceInv, DocInv, ConfInv, InstallInv, RemoveInv,
       HooksInPlay, ConfigInPlay, Ended
<1>5. new \in Calls /\ CallInv(new)
  BY <1>4
<1> HIDE DEF new
<1> QED
  BY <1>1, <1>2, <1>5, LocalStep

\* With the second file in place an install has done what it reports.
LEMMA ReplaceConfigStep ==
  ASSUME IInv, NEW p \in Procs, ReplaceConfig(p)
  PROVE  IInv'
<1> DEFINE c == call[p]
           r == Over(p, "changed", TRUE)
<1>1. /\ c.pc = "replaceconf" /\ config' = c.conf /\ UNCHANGED <<client, hooks>>
      /\ upsets' \in 0..MaxUpsets /\ TypeOK /\ c \in Calls /\ CallInv(c)
  BY Known DEF ReplaceConfig
<1>2. call' = [q \in Procs |-> IF q = p THEN r ELSE Notice(q, ConfigInPlay)]
  BY DEF ReplaceConfig, Changing, Finish
<1>3. /\ config' \in Configs /\ c.op \in {"install", "sync"}
      /\ c.alone /\ c.op = "install" =>
           /\ c.plan \notin {"none", "conflict"} /\ hooks.kind = "good" /\ hooks.canon = 1 /\ hooks.odd = 0
           /\ config'.kind = "good" /\ config'.feature /\ ~config'.clash
  BY <1>1 DEF CallInv, PlaceInv, InstallInv, ConfigInPlay, Calls
<1>4. c.alone /\ c.op = "install" => Status' = "installed"
  BY <1>1, <1>3 DEF Status, ConfigConflict, Enabled
<1>5. call'[p] = r
  BY <1>2
<1> HIDE DEF r
<1>6. call'[p] \in Calls /\ CallInv(call[p])'
  <2>1. /\ r \in Calls /\ r.pc \in Ended
        /\ r.alone => /\ c.alone /\ r.pc = "changed" /\ r.op = c.op
                      /\ r.wrote = TRUE /\ r.plan = c.plan
    <3>1. "changed" \in Ended /\ TRUE \in BOOLEAN
      BY DEF Ended
    <3> QED
      BY <1>1, <3>1, OverIs DEF r
  <2>2. PlaceInv(call[p])' /\ DocInv(call[p])' /\ ConfInv(call[p])'
    BY <1>5, <2>1 DEF PlaceInv, DocInv, ConfInv, HooksInPlay, ConfigInPlay, Ended
  <2>3. call'[p].alone /\ call'[p].op = "install" => InstallInv(call[p])'
    BY <1>3, <1>4, <1>5, <2>1 DEF InstallInv, HooksInPlay, ConfigInPlay, Ended
  <2>4. ~(call'[p].alone /\ call'[p].op = "remove")
    BY <1>3, <1>5, <2>1
  <2> QED
    BY <1>5, <2>1, <2>2, <2>3, <2>4 DEF CallInv
<1>7. \A q \in Procs : \/ call'[q] = Notice(q, ConfigInPlay)
                       \/ call'[q] \in Calls /\ CallInv(call[q])'
  BY <1>2, <1>6
<1>8. call' = [q \in Procs |-> call'[q]]
  BY <1>2
<1> QED
  BY <1>1, <1>3, <1>7, <1>8, ConfigStep

---------------------------------------------------------------------------------
(* Upsets. *)

LEMMA UpsetIs ==
  ASSUME TypeOK, Upset
  PROVE  upsets' \in 0..MaxUpsets
BY HooksAssumption DEF TypeOK, Upset

LEMMA StopStep ==
  ASSUME IInv, NEW p \in Procs, Stop(p)
  PROVE  IInv'
<1>1. /\ Upset /\ Ends(p, "idle") /\ UNCHANGED <<client, hooks, config>> /\ TypeOK
  BY Known DEF Stop
<1>2. Report(p, "idle", call[p].wrote)
  BY DEF Report
<1> QED
  BY <1>1, <1>2, EndStep, UpsetIs DEF Ended

LEMMA EditHooksStep ==
  ASSUME IInv, EditHooks
  PROVE  IInv'
<1>1. /\ Upset /\ call' = [p \in Procs |-> Notice(p, HooksInPlay)] /\ UNCHANGED <<client, config>>
      /\ TypeOK /\ HooksInv /\ hooks \in HookFiles
  BY DEF EditHooks, IInv, TypeOK
<1>2. hooks' \in HookFiles /\ HooksInv'
  <2>1. ASSUME NEW f, f = Blank \/ f = [Blank EXCEPT !.kind = "bad"]
        PROVE  f \in HookFiles /\ f.canon = 0 /\ f.odd = 0
    <3>1. Blank \in HookFiles /\ Blank.canon = 0 /\ Blank.odd = 0
      BY RestingIs DEF Blank
    <3> QED
      BY <2>1, <3>1 DEF HookFiles
  <2>2. ASSUME NEW t \in Texts, NEW f, f = [hooks EXCEPT !.kind = "good", !.text = t]
        PROVE  f \in HookFiles /\ f.kind = "good" /\ f.canon = hooks.canon /\ f.odd = hooks.odd
    BY <1>1, <2>2 DEF HookFiles
  <2>3. ASSUME NEW n \in (0..2) \X (0..1), NEW f, f = [hooks EXCEPT !.kind = "good", !.canon = n[1], !.odd = n[2]]
        PROVE  f \in HookFiles /\ f.kind = "good" /\ f.canon = n[1] /\ f.odd = n[2]
    BY <1>1, <2>3 DEF HookFiles
  <2>4. \/ hooks' = Blank \/ hooks' = [Blank EXCEPT !.kind = "bad"]
        \/ \E t \in Texts : hooks' = [hooks EXCEPT !.kind = "good", !.text = t]
        \/ \E n \in (0..2) \X (0..1) :
             /\ hooks' = [hooks EXCEPT !.kind = "good", !.canon = n[1], !.odd = n[2]]
             /\ client = "agy" => n[1] + n[2] <= 1
    BY Zenon DEF EditHooks
  <2>5. CASE hooks' = Blank \/ hooks' = [Blank EXCEPT !.kind = "bad"]
    BY <1>1, <2>1, <2>5 DEF HooksInv
  <2>6. ASSUME NEW t \in Texts, hooks' = [hooks EXCEPT !.kind = "good", !.text = t]
        PROVE  hooks' \in HookFiles /\ HooksInv'
    BY <1>1, <2>2, <2>6 DEF HooksInv
  <2>7. ASSUME NEW n \in (0..2) \X (0..1),
               hooks' = [hooks EXCEPT !.kind = "good", !.canon = n[1], !.odd = n[2]],
               client = "agy" => n[1] + n[2] <= 1
        PROVE  hooks' \in HookFiles /\ HooksInv'
    BY <1>1, <2>3, <2>7 DEF HooksInv
  <2> QED
    BY <2>4, <2>5, <2>6, <2>7
<1>3. call' = [p \in Procs |-> call'[p]] /\ \A p \in Procs : call'[p] = Notice(p, HooksInPlay)
  BY <1>1
<1> QED
  BY <1>1, <1>2, <1>3, HooksStep, UpsetIs

LEMMA EditConfigStep ==
  ASSUME IInv, EditConfig
  PROVE  IInv'
<1>1. /\ Upset /\ call' = [p \in Procs |-> Notice(p, ConfigInPlay)] /\ UNCHANGED <<client, hooks>>
      /\ TypeOK /\ config \in Configs
  BY DEF EditConfig, IInv, TypeOK
<1>2. config' \in Configs
  <2>1. ASSUME NEW f, f = NoConfig \/ f = [NoConfig EXCEPT !.kind = "bad"]
        PROVE  f \in Configs
    BY <2>1, RestingIs DEF Configs
  <2>2. ASSUME NEW f, NEW t \in Texts, f = [config EXCEPT !.kind = "good", !.text = t]
        PROVE  f \in Configs
    BY <1>1, <2>2 DEF Configs
  <2>3. ASSUME NEW b \in BOOLEAN, NEW f,
               \/ f = [config EXCEPT !.kind = "good", !.feature = b]
               \/ f = [config EXCEPT !.kind = "good", !.clash = b]
        PROVE  f \in Configs
    BY <1>1, <2>3 DEF Configs
  <2>4. \/ config' = NoConfig \/ config' = [NoConfig EXCEPT !.kind = "bad"]
        \/ \E t \in Texts : config' = [config EXCEPT !.kind = "good", !.text = t]
        \/ config' = [config EXCEPT !.kind = "good", !.feature = ~@]
        \/ config' = [config EXCEPT !.kind = "good", !.clash = ~@]
    BY Zenon DEF EditConfig
  <2>5. \/ config' = NoConfig \/ config' = [NoConfig EXCEPT !.kind = "bad"]
        \/ \E t \in Texts : config' = [config EXCEPT !.kind = "good", !.text = t]
        \/ \E b \in BOOLEAN : \/ config' = [config EXCEPT !.kind = "good", !.feature = b]
                              \/ config' = [config EXCEPT !.kind = "good", !.clash = b]
    BY <2>4, Zenon
  <2> QED
    BY <2>1, <2>2, <2>3, <2>5
<1>3. call' = [p \in Procs |-> call'[p]] /\ \A p \in Procs : call'[p] = Notice(p, ConfigInPlay)
  BY <1>1
<1> QED
  BY <1>1, <1>2, <1>3, ConfigStep, UpsetIs

---------------------------------------------------------------------------------
(* The theorems. *)

LEMMA NextIInv == IInv /\ [Next]_vars => IInv'
<1> SUFFICES ASSUME IInv, [Next]_vars PROVE IInv'
  OBVIOUS
<1>1. ASSUME NEW p \in Procs, NEW op \in {"install", "remove", "sync"},
             NEW s \in Servers \cup {"none"}, Request(p, op, s)
      PROVE  IInv'
  BY <1>1, RequestStep
<1>2. ASSUME NEW p \in Procs, Step(p)
      PROVE  IInv'
  BY <1>2, InspectStep, LoadToInstallStep, LoadToRemoveStep, LoadEndsStep, SaveStep,
     SaveRefusesStep, NothingToReplaceStep, ReplaceStep, EnableStep, EnableRefusesStep,
     SaveConfigStep, ReplaceConfigStep, Zenon DEF Step
<1>3. ASSUME NEW p \in Procs, Stop(p)
      PROVE  IInv'
  BY <1>3, StopStep
<1>4. CASE EditHooks \/ EditConfig
  BY <1>4, EditHooksStep, EditConfigStep
<1>5. CASE UNCHANGED vars
  BY <1>5 DEF vars, IInv, TypeOK, HooksInv, CallInv, PlaceInv, DocInv, ConfInv, InstallInv,
     RemoveInv, Plan, Status, ConfigConflict, Enabled
<1> QED
  BY <1>1, <1>2, <1>3, <1>4, <1>5, Zenon DEF Next

LEMMA Invariant == Spec => []IInv
BY InitIInv, NextIInv, PTL DEF Spec

\* Every variable has its type: no command takes an entry out of a file that has none.
THEOREM TypeCorrect == Spec => []TypeOK
<1>1. IInv => TypeOK
  BY DEF IInv
<1> QED
  BY <1>1, Invariant, PTL

\* What `ptw hook install` and `ptw hook remove` report is so until somebody else changes
\* the files, whatever an earlier command has left of the two.
THEOREM ReportsHold == Spec => []ReportsAreTrue
<1>1. IInv => ReportsAreTrue
  BY DEF IInv, CallInv, InstallInv, RemoveInv, ReportsAreTrue
<1> QED
  BY <1>1, Invariant, PTL

\* `ptw hook plan` tells what the install after it does, and a conflict in either file is
\* refused before the other one is written.
THEOREM PlansComeTrue == Spec => []PlanForetells
<1>1. IInv => PlanForetells
  BY DEF IInv, CallInv, InstallInv, PlanForetells
<1> QED
  BY <1>1, Invariant, PTL

\* What p does not do leaves it at its place.
LEMMA OthersStay ==
  ASSUME IInv, Next, NEW p \in Procs, call[p].pc \in {"replace", "replaceconf"},
         call'[p].pc # call[p].pc
  PROVE  \/ UNCHANGED <<hooks, config>>
         \/ Replace(p) /\ config' = config
         \/ ReplaceConfig(p) /\ hooks' = hooks
<1>1. TypeOK /\ call[p] \in Calls /\ call[p].pc \notin Ended
  BY DEF IInv, TypeOK, Ended
<1>2. \A at : Notice(p, at).pc = call[p].pc
  BY <1>1, NoticeIs
<1>3. ~EditHooks /\ ~EditConfig
  <2>1. EditHooks \/ EditConfig => \E at : call'[p] = Notice(p, at)
    <3>1. EditHooks => call' = [q \in Procs |-> Notice(q, HooksInPlay)]
      BY Zenon DEF EditHooks
    <3>2. EditConfig => call' = [q \in Procs |-> Notice(q, ConfigInPlay)]
      BY Zenon DEF EditConfig
    <3> QED
      BY <3>1, <3>2
  <2> QED
    BY <1>2, <2>1
<1>4. ASSUME NEW q \in Procs, Replace(q)
      PROVE  q = p
  BY <1>2, <1>4 DEF Replace, Changing
<1>5. ASSUME NEW q \in Procs, ReplaceConfig(q)
      PROVE  q = p
  BY <1>2, <1>5 DEF ReplaceConfig, Changing
<1>6. ASSUME NEW q \in Procs, Step(q), ~Replace(q), ~ReplaceConfig(q)
      PROVE  UNCHANGED <<hooks, config>>
  BY <1>6 DEF Step, Inspect, LoadToInstall, AlreadyThere, LoadToRemove, NothingToRemove, LoadRefuses,
     Save, SaveRefuses, NothingToReplace, Enable, EnableRefuses, SaveConfig
<1>7. ASSUME NEW q \in Procs, Stop(q)
      PROVE  UNCHANGED <<hooks, config>>
  BY <1>7 DEF Stop
<1>8. ASSUME NEW q \in Procs, NEW op, NEW s, Request(q, op, s)
      PROVE  UNCHANGED <<hooks, config>>
  BY <1>8 DEF Request
<1>9. /\ Replace(p) => config' = config
      /\ ReplaceConfig(p) => hooks' = hooks
  BY DEF Replace, ReplaceConfig
<1> QED
  BY <1>3, <1>4, <1>5, <1>6, <1>7, <1>8, <1>9 DEF Next

\* Whatever a command writes over, in either file, is in backups/ unless it came after the
\* copy, and what is not Tideway's gets lost only if it came after the read.
THEOREM LossIsSeen == Spec => NothingLostUnseen
<1>1. ASSUME IInv, Next, NEW p \in Procs, ReplacesHooks(p)
      PROVE  /\ hooks.kind = "absent" \/ call[p].unsaved \/ hooks = call[p].oldDoc
             /\ call[p].touched \/ (hooks'.text = hooks.text /\ hooks'.odd = hooks.odd)
  <2>1. call[p].pc = "replace" /\ Replace(p)
    BY <1>1, OthersStay DEF ReplacesHooks, ReplaceConfig
  <2> QED
    BY <1>1, <2>1 DEF IInv, CallInv, DocInv, HooksInPlay, Replace
<1>2. ASSUME IInv, Next, NEW p \in Procs, ReplacesConfig(p)
      PROVE  /\ config.kind = "absent" \/ call[p].unsaved \/ config \in {call[p].oldConf, config'}
             /\ call[p].touched \/ (/\ config'.text = config.text /\ config'.clash = config.clash
                                    /\ config'.servers \in {config.servers, call[p].servers}
                                    /\ config.feature => config'.feature)
  <2>1. call[p].pc = "replaceconf" /\ ReplaceConfig(p)
    BY <1>2, OthersStay DEF ReplacesConfig, Replace
  <2> QED
    BY <1>2, <2>1 DEF IInv, CallInv, ConfInv, ConfigInPlay, ReplaceConfig
<1>3. ASSUME UNCHANGED vars, NEW p \in Procs
      PROVE  ~ReplacesHooks(p) /\ ~ReplacesConfig(p)
  BY <1>3 DEF vars, ReplacesHooks, ReplacesConfig
<1>4. IInv /\ [Next]_vars =>
        [\A p \in Procs :
           /\ ReplacesHooks(p) =>
                /\ hooks.kind = "absent" \/ call[p].unsaved \/ hooks = call[p].oldDoc
                /\ call[p].touched \/ (hooks'.text = hooks.text /\ hooks'.odd = hooks.odd)
           /\ ReplacesConfig(p) =>
                /\ config.kind = "absent" \/ call[p].unsaved \/ config \in {call[p].oldConf, config'}
                /\ call[p].touched \/ (/\ config'.text = config.text /\ config'.clash = config.clash
                                       /\ config'.servers \in {config.servers, call[p].servers}
                                       /\ config.feature => config'.feature)]_vars
  BY <1>1, <1>2, <1>3
<1> QED
  BY <1>4, Invariant, PTL DEF Spec, NothingLostUnseen

=================================================================================
