-------------------------------- MODULE Sync --------------------------------
(***************************************************************************)
(* `ptw sync` and `ptw resolve` (core/sync.py): the three-way merge of an  *)
(* MCP server definition, the composed rules and a shared skill between    *)
(* the Personal Tideway home and the files of two clients, Codex and agy.  *)
(*                                                                         *)
(* A sync loads state.json (what the last sync saw), merges one kind of    *)
(* object after the other, client by client, writing as it goes, and saves *)
(* state.json at its very end.  It takes no lock.  The user and the        *)
(* clients may edit any file between two of its steps, and it may die      *)
(* there.                                                                  *)
(*                                                                         *)
(* One object of each kind is modelled: objects are merged independently   *)
(* and share nothing but the fate of state.json.                           *)
(***************************************************************************)
EXTENDS Naturals, Sequences, SequencesExt

CONSTANTS
    Defs,       \* transport, command, args, url and env of an MCP server
    Texts,      \* contents of a rule fragment or of a skill
    LinkModes,  \* config: skill_link_mode, "symlink" or "copy"
    MaxEvents   \* bound: edits and crashes together

ASSUME LinkModesAssumption == LinkModes \subseteq {"symlink", "copy"}
ASSUME MaxEventsAssumption == MaxEvents \in Nat
ASSUME TokenAssumption ==
    /\ "absent" \notin Defs
    /\ Texts \cap {"absent", "link", "partial", "unmarked", "malformed", "never"} = {}

Client == {"codex", "agy"}
Place == Client \cup {"ptw"}
Object == {"mcp", "rules codex", "rules agy", "skill"}
RulesOf(c) == IF c = "codex" THEN "rules codex" ELSE "rules agy"

\* An MCP definition.  A client's edit of `enabled` is not carried back.
Server == [def : Defs, on : BOOLEAN]
NoServer == [def |-> "absent", on |-> FALSE]

\* The body of a rules block is a list of fragments.
Unmarked == <<"unmarked">>     \* no file, or no managed markers in it
Malformed == <<"malformed">>   \* unbalanced, repeated or swapped markers
Never == <<"never">>           \* state.json: never synced

\* A skill directory; "partial" is what an interrupted copy leaves.
Tree == Texts \cup {"partial"}
NoTree == "absent"

VARIABLES
    link,      \* the configured skill_link_mode; never changes
    mcp,       \* mcp/<name>.yaml and the two clients' entries of that name
    shared,    \* rules/shared/*.md
    own,       \* rules/<client>/*.md
    block,     \* managed blocks of AGENTS.md and GEMINI.md
    skill,     \* skills/shared/<name> and the two clients' directories
    base,      \* state.json
    conflict,  \* conflicts/<object>.json
    exit,      \* exit code of the last completed sync
    pc,        \* the running sync: its next step
    st,        \* its copy of state.json
    srv,       \* the server definition it loaded, as changed so far
    cl,        \* the clients' entries as it read them
    out,       \* the entries it is going to write
    tree,      \* skill_ptw_hash
    div,       \* objects it found in conflict
    events,    \* how many edits and crashes so far
    quiet,     \* history: undisturbed syncs since the last edit or resolve, up to 2
    calm,      \* history: no edit since this sync began
    settled,   \* history: conflicts resolved since the last edit
    raced      \* history: a skill was edited while a sync ran

files == <<mcp, shared, own, block, skill>>
run   == <<pc, st, srv, cl, out, tree, div>>
hist  == <<events, quiet, calm, settled, raced>>
vars  == <<link, files, base, conflict, exit, run, hist>>

\* Where a sync is: a phase, and the client it serves in it.
Idle == <<"idle", "codex">>
NextPhase == [merge |-> "write", write |-> "rules", rules |-> "skill", skill |-> "save"]
Follow(ph, c) == IF c = "codex" THEN <<ph, "agy">> ELSE <<NextPhase[ph], "codex">>
At(ph, c) == pc = <<ph, c>>

NoConflict == [client |-> "none", text |-> <<>>]
NeverSynced == [mcp   |-> [x \in Place |-> NoServer],
                rules |-> [c \in Client |-> Never],
                skill |-> [x \in Place |-> NoTree]]

-----------------------------------------------------------------------------
(* What the code computes from the files *)

\* compose_rules_content: the shared fragments, then the client's own.
Composed(c) == shared \o own[c]

\* What remains of a block once the shared text it begins with is taken off.
Override(body) == IF IsPrefix(shared, body) THEN SubSeq(body, Len(shared) + 1, Len(body)) ELSE body

\* hash_dir follows a link to the canonical directory.
TreeAt(c) == IF skill[c] = "link" THEN skill["ptw"] ELSE skill[c]
Installed == IF link = "symlink" THEN "link" ELSE skill["ptw"]

Report(o, c, text) ==
    /\ conflict' = [conflict EXCEPT ![o] = [client |-> c, text |-> text]]
    /\ div' = div \cup {o}
NoReport == UNCHANGED <<conflict, div>>

Init ==
    /\ link \in LinkModes
    /\ \E d \in Defs :
           mcp = [x \in Place |-> IF x = "ptw" THEN [def |-> d, on |-> TRUE] ELSE NoServer]
    /\ shared \in {<<t>> : t \in Texts}
    /\ own = [c \in Client |-> <<>>]
    /\ block = [c \in Client |-> Unmarked]
    /\ skill \in {[x \in Place |-> IF x = "ptw" THEN t ELSE NoTree] : t \in Texts}
    /\ base = NeverSynced
    /\ conflict = [o \in Object |-> NoConflict]
    /\ exit = "none"
    /\ pc = Idle /\ st = NeverSynced /\ srv = NoServer
    /\ cl = [c \in Client |-> NoServer] /\ out = cl
    /\ tree = NoTree /\ div = {}
    /\ events = 0 /\ quiet = 0 /\ calm = FALSE /\ settled = {} /\ raced = FALSE

-----------------------------------------------------------------------------
(* sync_workspace: MCP servers *)

Begin ==
    /\ pc = Idle
    /\ pc' = <<"merge", "codex">>
    /\ st' = base
    /\ srv' = mcp["ptw"]
    /\ cl' = [c \in Client |-> mcp[c]]
    /\ out' = [c \in Client |-> NoServer]
    /\ tree' = NoTree /\ div' = {}
    /\ calm' = TRUE
    /\ UNCHANGED <<link, files, base, conflict, exit, events, quiet, settled, raced>>

PtwChanged == srv # st.mcp["ptw"]
ClientChanged(c) == cl[c] # st.mcp[c]
FirstSync == st.mcp["ptw"] = NoServer

\* server.command = client_norm["command"] and so on; `enabled` stays.
Adopted(c) == [def |-> cl[c].def, on |-> srv.on]

McpDiverged(c) ==
    \/ FirstSync /\ cl[c] \notin {NoServer, srv}
    \/ ~FirstSync /\ PtwChanged /\ ClientChanged(c) /\ srv # cl[c]
McpPush_Regardless(c) ==  \* mutant: the client's own edit is not looked at
    \/ FirstSync /\ cl[c] = NoServer
    \/ ~FirstSync /\ PtwChanged
McpPush(c) ==
    \/ FirstSync /\ cl[c] = NoServer
    \/ ~FirstSync /\ PtwChanged /\ ~ClientChanged(c)
McpPull_Deleted(c) ==     \* mutant: a missing entry is adopted as well
    ~FirstSync /\ ~PtwChanged /\ ClientChanged(c)
McpPull(c) == ~FirstSync /\ ~PtwChanged /\ ClientChanged(c) /\ cl[c] # NoServer

\* After the last client: what the clients are taken to hold from now on.
McpBase(s, d) == IF "mcp" \in d THEN st.mcp ELSE [x \in Place |-> s]

McpMerge(c) ==
    /\ At("merge", c)
    /\ srv # NoServer
    /\ IF McpPull(c)
       THEN /\ srv' = Adopted(c)
            /\ mcp' = [mcp EXCEPT !["ptw"] = Adopted(c)]
            /\ out' = [out EXCEPT ![c] = Adopted(c)]
       ELSE /\ UNCHANGED <<srv, mcp>>
            /\ out' = IF McpPush(c) THEN [out EXCEPT ![c] = srv] ELSE out
    /\ IF McpDiverged(c) THEN Report("mcp", c, <<>>) ELSE NoReport
    /\ st' = IF c = "agy" THEN [st EXCEPT !.mcp = McpBase(srv', div')] ELSE st
    /\ pc' = Follow("merge", c)
    /\ UNCHANGED <<link, shared, own, block, skill, base, exit, cl, tree, hist>>

\* A definition deleted from the home: only a notice.
McpDeleted ==
    /\ At("merge", "codex")
    /\ srv = NoServer
    /\ pc' = <<"write", "codex">>
    /\ UNCHANGED <<link, files, base, conflict, exit, st, srv, cl, out, tree, div, hist>>

\* write_mcp_servers reads the client's file again and replaces this entry.
McpWrite(c) ==
    /\ At("write", c)
    /\ mcp' = IF out[c] # NoServer THEN [mcp EXCEPT ![c] = out[c]] ELSE mcp
    /\ pc' = Follow("write", c)
    /\ UNCHANGED <<link, shared, own, block, skill, base, conflict, exit, st, srv, cl, out, tree,
                   div, hist>>

-----------------------------------------------------------------------------
(* sync_workspace: rules *)

\* No block counts as an empty text in what is written, not in what is compared.
Body(c) == IF block[c] = Unmarked THEN <<>> ELSE block[c]

RulesDiverged(c) ==
    \/ block[c] = Malformed
    \/ st.rules[c] = Never /\ block[c] \notin {Unmarked, Composed(c)}
    \/ /\ st.rules[c] # Never
       /\ Composed(c) # st.rules[c] /\ block[c] # st.rules[c] /\ block[c] # Composed(c)
RulesPush(c) ==
    \/ st.rules[c] = Never /\ block[c] \in {Unmarked, Composed(c)}
    \/ st.rules[c] # Never /\ Composed(c) # st.rules[c] /\ block[c] = st.rules[c]
RulesPull(c) ==
    block[c] # Malformed /\ st.rules[c] # Never /\ Composed(c) = st.rules[c] /\ block[c] # st.rules[c]
RulesAgreed_Forgotten(c) ==  \* mutant: identical changes are not recorded
    FALSE /\ block[c] = Composed(c)
RulesAgreed(c) ==
    st.rules[c] # Never /\ Composed(c) # st.rules[c] /\ block[c] = Composed(c)

\* The client's text replaces all of its own fragments in the home, and what
\* is then composed goes back into its block.
RulesMerge(c) ==
    /\ At("rules", c)
    /\ UNCHANGED <<link, mcp, shared, skill, base, exit, srv, cl, out, tree, hist>>
    /\ own' = IF RulesPull(c) THEN [own EXCEPT ![c] = Override(Body(c))] ELSE own
    /\ block' = IF RulesPush(c) \/ RulesPull(c)
                THEN [block EXCEPT ![c] = Composed(c)'] ELSE block
    /\ st' = IF RulesPush(c) \/ RulesPull(c) \/ RulesAgreed(c)
             THEN [st EXCEPT !.rules[c] = Composed(c)'] ELSE st
    /\ IF RulesDiverged(c)
       THEN Report(RulesOf(c), c, IF block[c] = Malformed THEN <<>> ELSE Body(c))
       ELSE NoReport
    /\ pc' = Follow("rules", c)

-----------------------------------------------------------------------------
(* sync_workspace: skills *)

\* The hash of the canonical directory, taken once and updated by a pull.
SkillHash(c) == IF c = "codex" THEN skill["ptw"] ELSE tree
TreeChanged(c) == TreeAt(c) # NoTree /\ TreeAt(c) # st.skill[c]
FirstSkillSync == st.skill["ptw"] = NoTree
\* Deleted at the client: a notice, and state.json forgets the client's copy.
SkillGone(c) == ~FirstSkillSync /\ skill[c] = NoTree /\ st.skill[c] # NoTree

SkillDiverged(c) ==
    /\ skill[c] # NoTree
    /\ TreeAt(c) # SkillHash(c)
    /\ FirstSkillSync \/ (SkillHash(c) # st.skill["ptw"] /\ TreeChanged(c))
SkillPush(c) ==
    \/ FirstSkillSync /\ skill[c] = NoTree
    \/ /\ ~FirstSkillSync /\ ~SkillGone(c) /\ ~TreeChanged(c)
       /\ SkillHash(c) # st.skill["ptw"] \/ skill[c] = NoTree
SkillPull(c) == ~FirstSkillSync /\ SkillHash(c) = st.skill["ptw"] /\ TreeChanged(c)

\* The canonical directory is removed and copied from the client, and every
\* other client gets the result.
Pulled(c) ==
    [x \in Place |->
        IF x \in {c, "ptw"} THEN skill[c] ELSE IF link = "symlink" THEN "link" ELSE skill[c]]

\* Without a canonical directory there is only a notice, or nothing at all.
SkillSkip ==
    /\ At("skill", "codex")
    /\ skill["ptw"] = NoTree
    /\ pc' = <<"save", "codex">>
    /\ UNCHANGED <<link, files, base, conflict, exit, st, srv, cl, out, tree, div, hist>>

\* A copy needs its source.
CanPush == link = "symlink" \/ skill["ptw"] # NoTree
CanPull(c) == skill[c] # "link"

SkillMerge(c) ==
    /\ At("skill", c)
    /\ SkillHash(c) # NoTree
    /\ SkillPush(c) => CanPush
    /\ SkillPull(c) => CanPull(c)
    /\ skill' = IF SkillPull(c) THEN Pulled(c)
                ELSE IF SkillPush(c) THEN [skill EXCEPT ![c] = Installed] ELSE skill
    /\ tree' = IF SkillPull(c) THEN skill[c] ELSE SkillHash(c)
    /\ IF SkillDiverged(c) THEN Report("skill", c, <<>>) ELSE NoReport
    /\ pc' = Follow("skill", c)
    /\ UNCHANGED <<link, mcp, shared, own, block, base, exit, st, srv, cl, out, hist>>

\* What the clients hold is hashed again before it is recorded.
SkillBase ==
    IF tree = NoTree \/ "skill" \in div THEN st.skill
    ELSE [x \in Place |-> IF x = "ptw" THEN tree ELSE TreeAt(x)]

Save ==
    /\ At("save", "codex")
    /\ base' = [st EXCEPT !.skill = SkillBase]
    /\ exit' = IF div = {} THEN "ok" ELSE "conflict"
    /\ quiet' = IF ~calm THEN 0 ELSE IF quiet = 2 THEN 2 ELSE quiet + 1
    /\ pc' = Idle
    /\ UNCHANGED <<link, files, conflict, st, srv, cl, out, tree, div, events, calm, settled, raced>>

-----------------------------------------------------------------------------
(* A sync that does not end *)

Event == events < MaxEvents /\ events' = events + 1

Stop ==
    /\ pc' = Idle
    /\ exit' = "failed"
    /\ quiet' = 0
    /\ UNCHANGED <<link, mcp, shared, block, base, conflict, st, srv, cl, out, tree, div, calm, settled, raced>>

\* The canonical skill was removed first, and the link to it cannot be copied.
PullFails(c) ==
    /\ At("skill", c) /\ SkillHash(c) # NoTree
    /\ SkillPull(c) /\ ~CanPull(c)
    /\ skill' = [skill EXCEPT !["ptw"] = NoTree]
    /\ Stop /\ UNCHANGED <<own, events>>
PushFails(c) ==
    /\ At("skill", c) /\ SkillHash(c) # NoTree
    /\ SkillPush(c) /\ ~CanPush
    /\ skill' = [skill EXCEPT ![c] = NoTree]
    /\ Stop /\ UNCHANGED <<own, events>>

\* The process dies between two steps, or in the middle of one that first
\* removes what it replaces or writes two files.
InstallCutShort(old, c) ==
    {[old EXCEPT ![c] = left] : left \in IF link = "copy" THEN {NoTree, "partial"} ELSE {NoTree}}
CrashInRules(c) ==
    /\ At("rules", c) /\ RulesPull(c)
    /\ own' \in {[own EXCEPT ![c] = left] : left \in {<<>>, Override(Body(c))}}
    /\ UNCHANGED skill
CrashInSkill(c) ==
    /\ At("skill", c) /\ SkillHash(c) # NoTree
    /\ \/ SkillPush(c) /\ skill' \in InstallCutShort(skill, c)
       \/ SkillPull(c) /\ skill' \in {[skill EXCEPT !["ptw"] = left] : left \in {NoTree, "partial"}}
       \/ /\ SkillPull(c) /\ CanPull(c)
          /\ \E d \in Client \ {c} : skill' \in InstallCutShort(Pulled(c), d)
    /\ UNCHANGED own

Crash ==
    /\ pc # Idle
    /\ Event
    /\ Stop
    /\ (UNCHANGED <<own, skill>>) \/ (\E c \in Client : CrashInRules(c) \/ CrashInSkill(c))

-----------------------------------------------------------------------------
(* resolve_conflict *)

ResolveFrame == quiet' = 0 /\ UNCHANGED <<link, exit, run, events, calm, raced>>
Settle(o) ==
    /\ conflict' = [conflict EXCEPT ![o] = NoConflict]
    /\ settled' = settled \cup {o}
    /\ ResolveFrame

ResolveMcp_NoBase(take) ==  \* mutant: state.json is not updated
    LET chosen == IF take = "ptw" THEN mcp["ptw"]
                  ELSE [def |-> mcp[take].def,
                        on  |-> mcp["ptw"] = NoServer \/ mcp["ptw"].on] IN
    /\ pc = Idle /\ conflict["mcp"] # NoConflict
    /\ mcp[take] # NoServer
    /\ mcp' = [x \in Place |-> IF x = take THEN (IF x = "ptw" THEN chosen ELSE mcp[x]) ELSE chosen]
    /\ Settle("mcp")
    /\ UNCHANGED <<shared, own, block, skill, base>>
ResolveMcp(take) ==
    LET chosen == IF take = "ptw" THEN mcp["ptw"]
                  ELSE [def |-> mcp[take].def,
                        on  |-> mcp["ptw"] = NoServer \/ mcp["ptw"].on] IN
    /\ pc = Idle /\ conflict["mcp"] # NoConflict
    /\ mcp[take] # NoServer
    /\ mcp' = [x \in Place |-> IF x = take THEN (IF x = "ptw" THEN chosen ELSE mcp[x]) ELSE chosen]
    /\ base' = [base EXCEPT !.mcp = [x \in Place |-> chosen]]
    /\ Settle("mcp")
    /\ UNCHANGED <<shared, own, block, skill>>

\* The text that was in conflict, as recorded then, goes to the fragments of
\* the client that is named, which need not be the one in conflict.
ResolveRules(c, take) ==
    /\ pc = Idle /\ conflict[RulesOf(c)] # NoConflict
    /\ UNCHANGED <<mcp, shared, skill>>
    /\ own' = IF take = "ptw" THEN own
              ELSE [own EXCEPT ![take] = Override(conflict[RulesOf(c)].text)]
    /\ ResolveFrame
    /\ LET replaced == {RulesOf(d) : d \in {take} \ {c, "ptw"}} IN
       IF block[c] = Malformed
       THEN UNCHANGED <<block, base, conflict>> /\ settled' = settled \ replaced
       ELSE /\ block' = [block EXCEPT ![c] = Composed(c)']
            /\ base' = [base EXCEPT !.rules[c] = Composed(c)']
            /\ conflict' = [conflict EXCEPT ![RulesOf(c)] = NoConflict]
            /\ settled' = (settled \cup {RulesOf(c)}) \ replaced

\* Taking the version of a client whose directory is a link removes what the
\* link points to, and then fails.
ResolveSkill(take) ==
    /\ pc = Idle /\ conflict["skill"] # NoConflict
    /\ IF take = "ptw" THEN skill["ptw"] # NoTree ELSE TreeAt(take) # NoTree
    /\ IF skill[take] = "link"
       THEN /\ skill' = [skill EXCEPT !["ptw"] = NoTree]
            /\ UNCHANGED <<base, conflict, settled>> /\ ResolveFrame
       ELSE /\ skill' = IF take # "ptw" THEN Pulled(take)
                        ELSE [x \in Place |-> IF x = "ptw" THEN skill[x] ELSE Installed]
            /\ base' = [base EXCEPT !.skill = [x \in Place |-> skill[take]]]
            /\ Settle("skill")
    /\ UNCHANGED <<mcp, shared, own, block>>

Resolve ==
    \E take \in Place :
        \/ ResolveMcp(take)
        \/ \E c \in Client : ResolveRules(c, take)
        \/ ResolveSkill(take)

-----------------------------------------------------------------------------
(* The user and the clients *)

Edited ==
    /\ Event
    /\ quiet' = 0 /\ calm' = FALSE /\ settled' = {}
    /\ raced' = (raced \/ (pc # Idle /\ skill' # skill))
    /\ UNCHANGED <<link, base, conflict, exit, run>>

EditMcp == \E x \in Place, s \in Server \cup {NoServer} :
    s # mcp[x] /\ mcp' = [mcp EXCEPT ![x] = s] /\ UNCHANGED <<shared, own, block, skill>>
EditShared == \E t \in Texts :
    shared # <<t>> /\ shared' = <<t>> /\ UNCHANGED <<mcp, own, block, skill>>
EditOwn == \E c \in Client, t \in Texts :
    own[c] # <<t>> /\ own' = [own EXCEPT ![c] = <<t>>] /\ UNCHANGED <<mcp, shared, block, skill>>
EditBlock == \E c \in Client, t \in Texts :
    \E body \in {Unmarked, Malformed, <<t>>, shared \o <<t>>} :
        /\ body # block[c]
        /\ block' = [block EXCEPT ![c] = body]
        /\ UNCHANGED <<mcp, shared, own, skill>>
EditSkill == \E x \in Place, t \in Texts \cup {NoTree} :
    skill[x] # t /\ skill' = [skill EXCEPT ![x] = t] /\ UNCHANGED <<mcp, shared, own, block>>
Edit == (EditMcp \/ EditShared \/ EditOwn \/ EditBlock \/ EditSkill) /\ Edited

-----------------------------------------------------------------------------
SyncStep ==
    \/ Begin \/ McpDeleted \/ SkillSkip \/ Save
    \/ \E c \in Client :
          \/ McpMerge(c) \/ McpWrite(c) \/ RulesMerge(c) \/ SkillMerge(c)
          \/ PullFails(c) \/ PushFails(c)

Next == SyncStep \/ Crash \/ Resolve \/ Edit

Spec == Init /\ [][Next]_vars

-----------------------------------------------------------------------------
Entries == {NoServer} \cup Server
State == [mcp : [Place -> Entries], rules : [Client -> Seq(Texts) \cup {Never}],
          skill : [Place -> Tree \cup {NoTree}]]

\* Every variable holds a value of its kind.
TypeOK ==
    /\ link \in LinkModes
    /\ mcp \in [Place -> Entries] /\ srv \in Entries
    /\ cl \in [Client -> Entries] /\ out \in [Client -> Entries]
    /\ shared \in {<<t>> : t \in Texts}
    /\ own \in [Client -> Seq(Texts)]
    /\ block \in [Client -> Seq(Texts) \cup {Unmarked, Malformed}]
    /\ skill \in [Place -> Tree \cup {NoTree, "link"}] /\ skill["ptw"] # "link"
    /\ base \in State /\ st \in State
    /\ conflict \in [Object -> [client : Client \cup {"none"}, text : Seq(Texts)]]
    /\ exit \in {"none", "ok", "conflict", "failed"}
    /\ pc \in ({"merge", "write", "rules", "skill"} \X Client) \cup {Idle, <<"save", "codex">>}
    /\ tree \in Tree \cup {NoTree} /\ div \subseteq Object
    /\ events \in 0..MaxEvents /\ quiet \in 0..2 /\ calm \in BOOLEAN
    /\ settled \subseteq Object /\ raced \in BOOLEAN

-----------------------------------------------------------------------------
\* What was changed since the last sync that recorded it.
EditedEntry(x) == base.mcp[x] # NoServer /\ mcp[x] \notin {NoServer, base.mcp[x]}
EditedBlock(c) == base.rules[c] # Never /\ block[c] \notin {Unmarked, Malformed, base.rules[c]}
EditedCanonical == base.skill["ptw"] # NoTree /\ skill["ptw"] \notin {NoTree, base.skill["ptw"]}

\* A sync that nobody disturbs, and that may have been preceded by one that
\* died, never replaces what was edited since the state was recorded by the
\* version of somebody else: not the definition of an MCP server on any side,
\* not the client's own text in its rules block, not the canonical skill.
EditsSurviveSync ==
    [][SyncStep /\ calm' =>
        /\ \A x \in Place : EditedEntry(x) => mcp'[x].def = mcp[x].def
        /\ \A c \in Client : EditedBlock(c) => IsSuffix(Override(block[c]), block'[c])
        /\ EditedCanonical => skill'["ptw"] = skill["ptw"]]_vars

\* Two syncs in a row with no edit, the second of which reports success: the
\* three sides of every object agree, and state.json records just that.  (One
\* is not enough: a definition adopted from agy is recorded as if Codex had it, and
\* the next sync takes the old one back from Codex.)  The exception is a skill edited
\* while a sync ran: the clients' copies are hashed a second time when the state
\* is recorded, so an edit that falls between merge and record passes for synced.
QuietSyncsConverge ==
    pc = Idle /\ quiet = 2 /\ exit = "ok" =>
        /\ mcp["ptw"] # NoServer =>
               /\ \A c \in Client : mcp[c] \in {NoServer, mcp["ptw"]}
               /\ \A x \in Place : base.mcp[x] = mcp["ptw"]
        /\ \A c \in Client : block[c] = Composed(c) /\ base.rules[c] = Composed(c)
        /\ skill["ptw"] # NoTree /\ ~raced =>
               \A x \in Place : TreeAt(x) = skill["ptw"] /\ base.skill[x] = skill["ptw"]

\* A conflict that was resolved does not come back, in however many syncs,
\* crashes and resolutions of other objects, until somebody edits again; a resolution of
\* one client's rules that replaces the fragments of the other is such an edit.
ResolveSettles == [][\A o \in settled : conflict'[o] = NoConflict]_vars

-----------------------------------------------------------------------------
(* What the documentation says and the code does not do *)

\* sync_workspace: it exits with CONFLICT "if divergences occur".  When both
\* clients have edited a skill, differently, a sync replaces neither copy by
\* the other's.
SkillEditsSurvive ==
    [][\A c, d \in Client :
        /\ SyncStep /\ calm' /\ c # d
        /\ {TreeAt(c), TreeAt(d)} \subseteq Texts /\ TreeAt(c) # TreeAt(d)
        /\ base.skill[c] # NoTree /\ TreeAt(c) # base.skill[c]
        /\ base.skill[d] # NoTree /\ TreeAt(d) # base.skill[d]
        => TreeAt(c)' = TreeAt(c)]_vars

==============================================================================
