------------------------------- MODULE SyncProofs -------------------------------
(* What syncs do to what was edited and to what was resolved, and that two of     *)
(* them bring all sides together, for any texts, definitions and number of events. *)
EXTENDS Sync, TLAPS

Started == pc # Idle

\* The copy of state.json is brought up to date one kind of object after the other.
RunInv == Started =>
    /\ st.skill = base.skill
    /\ pc[1] = "merge" => st.mcp = base.mcp
    /\ pc[1] \in {"merge", "write"} \/ pc = <<"rules", "codex">> =>
           st.rules["codex"] = base.rules["codex"]
    /\ pc[1] \in {"merge", "write", "rules"} => st.rules["agy"] = base.rules["agy"]
    /\ pc[1] \in {"merge", "write", "rules"} \/ pc = <<"skill", "codex">> => tree = NoTree

\* What a sync that nobody disturbs has read is still so, and it is not going to write over
\* an entry that was edited.
CalmInv == calm /\ Started =>
    /\ pc[1] = "merge" => srv = mcp["ptw"] /\ \A c \in Client : cl[c] = mcp[c]
    /\ pc[1] \in {"merge", "write"} =>
           \A c \in Client : out[c] # NoServer /\ EditedEntry(c) => out[c].def = mcp[c].def
    /\ pc \in {<<"skill", "agy">>, <<"save", "codex">>} => tree = skill["ptw"]

\* What has been resolved gives no sync, finished or not, a reason to report it again.
McpSettled == "mcp" \in settled =>
    /\ \A x \in Place : mcp[x] # NoServer /\ mcp[x].def = mcp["ptw"].def /\ base.mcp[x] = mcp["ptw"]
    /\ Started => /\ \A x \in Place : st.mcp[x] = mcp["ptw"]
                  /\ \A c \in Client : out[c] \in {NoServer, mcp["ptw"]}
RulesSettled(c) == RulesOf(c) \in settled =>
    /\ base.rules[c] # Never /\ block[c] \in {base.rules[c], Composed(c)}
    /\ Started => st.rules[c] # Never /\ block[c] \in {st.rules[c], Composed(c)}
SkillSettled == "skill" \in settled =>
    /\ skill["ptw"] # NoTree
    /\ \A c \in Client : TreeAt(c) = skill["ptw"]
    /\ \A x \in Place : base.skill[x] = skill["ptw"]

SettledInv ==
    /\ settled # {} /\ Started => calm
    /\ \A o \in settled : conflict[o] = NoConflict
    /\ McpSettled /\ SkillSettled /\ \A c \in Client : RulesSettled(c)

IInv == TypeOK /\ RunInv /\ CalmInv /\ SettledInv

---------------------------------------------------------------------------------
(* Texts and markers. *)

\* No text is taken for a marker.
LEMMA Markers ==
  /\ {Unmarked, Malformed, Never} \cap Seq(Texts) = {} /\ Unmarked # Malformed /\ <<>> \in Seq(Texts)
  /\ NoTree \notin Tree /\ "link" \notin Tree /\ NoTree # "link"
<1>1. \A x : <<x>> \in Seq(Texts) => x \in Texts
  <2> TAKE x
  <2> HAVE <<x>> \in Seq(Texts)
  <2> QED
    <3>1. Len(<<x>>) = 1 /\ <<x>>[1] = x
      OBVIOUS
    <3> QED
      BY <3>1
<1>2. "unmarked" \notin Texts /\ "malformed" \notin Texts /\ "never" \notin Texts
      /\ "absent" \notin Texts /\ "link" \notin Texts
  BY TokenAssumption
<1>3. Unmarked # Malformed
  BY DEF Unmarked, Malformed
<1> QED
  BY <1>1, <1>2, <1>3 DEF Unmarked, Malformed, Never, NoTree, Tree

\* What the variables hold, one by one.
LEMMA Types ==
  ASSUME TypeOK
  PROVE  /\ shared \in Seq(Texts)
         /\ \A c \in Client : /\ own[c] \in Seq(Texts)
                             /\ block[c] \in Seq(Texts) \cup {Unmarked, Malformed}
<1>1. shared \in {<<t>> : t \in Texts}
  BY Zenon DEF TypeOK
<1>2. PICK t \in Texts : shared = <<t>>
  BY <1>1
<1>3. own \in [Client -> Seq(Texts)] /\ block \in [Client -> Seq(Texts) \cup {Unmarked, Malformed}]
  BY Zenon DEF TypeOK
<1> QED
  BY <1>2, <1>3

\* What a client's text becomes in the home, and there and back is no loss.
LEMMA OverrideIs ==
  ASSUME TypeOK, NEW b \in Seq(Texts)
  PROVE  Override(b) \in Seq(Texts) /\ IsSuffix(Override(b), b)
<1>1. shared \in Seq(Texts)
  BY Types
<1>2. CASE IsPrefix(shared, b)
  <2>1. Len(shared) <= Len(b) /\ Len(shared) \in Nat /\ Len(b) \in Nat
    BY <1>1, <1>2 DEF IsPrefix
  <2> DEFINE t == SubSeq(b, Len(shared) + 1, Len(b))
  <2>2. t \in Seq(Texts) /\ Len(t) = Len(b) - Len(shared)
        /\ \A i \in 1..Len(t) : t[i] = b[Len(shared) + i]
    BY <2>1
  <2>3. Override(b) = t
    BY <1>2 DEF Override
  <2> HIDE DEF t
  <2>4. IsSuffix(t, b)
    <3>1. Len(Reverse(t)) = Len(t) /\ Len(Reverse(b)) = Len(b)
      BY <2>2 DEF Reverse
    <3>2. \A i \in 1..Len(t) : Reverse(t)[i] = Reverse(b)[i]
      <4>1. ASSUME NEW i \in 1..Len(t)
            PROVE  Reverse(t)[i] = Reverse(b)[i]
        <5>1. Len(t) - i + 1 \in 1..Len(t) /\ i \in 1..Len(b)
          BY <2>1, <2>2
        <5>2. t[Len(t) - i + 1] = b[Len(shared) + (Len(t) - i + 1)]
          BY <2>2, <5>1
        <5>3. Len(shared) + (Len(t) - i + 1) = Len(b) - i + 1
          BY <2>1, <2>2
        <5>4. Reverse(t)[i] = t[Len(t) - i + 1] /\ Reverse(b)[i] = b[Len(b) - i + 1]
          BY <5>1 DEF Reverse
        <5> QED
          BY <5>2, <5>3, <5>4
      <4> QED
        BY <4>1
    <3>3. SubSeq(Reverse(t), 1, Len(t)) = SubSeq(Reverse(b), 1, Len(t))
      BY <2>1, <2>2, <3>1, <3>2
    <3> QED
      BY <2>1, <2>2, <3>1, <3>3 DEF IsSuffix, IsPrefix
  <2> QED
    BY <2>2, <2>3, <2>4
<1>3. CASE ~IsPrefix(shared, b)
  <2>1. Len(Reverse(b)) = Len(b)
    BY DEF Reverse
  <2> QED
    BY <1>3, <2>1 DEF Override, IsSuffix, IsPrefix
<1> QED
  BY <1>2, <1>3

LEMMA SuffixOfConcat ==
  ASSUME NEW s \in Seq(Texts), NEW t \in Seq(Texts)
  PROVE  IsSuffix(t, s \o t)
<1>1. Len(Reverse(t)) = Len(t) /\ Len(Reverse(s \o t)) = Len(s) + Len(t)
  BY DEF Reverse
<1>2. \A i \in 1..Len(t) : Reverse(t)[i] = Reverse(s \o t)[i]
  BY DEF Reverse
<1>3. SubSeq(Reverse(t), 1, Len(t)) = SubSeq(Reverse(s \o t), 1, Len(t))
  BY <1>1, <1>2
<1> QED
  BY <1>1, <1>3 DEF IsSuffix, IsPrefix

LEMMA ComposedIs ==
  ASSUME TypeOK, NEW c \in Client
  PROVE  /\ Composed(c) \in Seq(Texts)
         /\ block[c] # Malformed => Body(c) \in Seq(Texts)
<1>1. shared \in Seq(Texts) /\ own[c] \in Seq(Texts) /\ block[c] \in Seq(Texts) \cup {Unmarked, Malformed}
  BY Types
<1> QED
  BY <1>1, Markers DEF Composed, Body

---------------------------------------------------------------------------------
LEMMA InitIInv == Init => IInv
<1> SUFFICES ASSUME Init PROVE IInv
  OBVIOUS
<1>1. /\ NeverSynced \in State /\ NoServer \in Entries /\ NoTree \in Tree \cup {NoTree}
      /\ [c \in Client |-> NoServer] \in [Client -> Entries]
  BY DEF NeverSynced, State, Entries
<1>2. TypeOK
  <2>1. link \in LinkModes /\ exit = "none" /\ pc = Idle /\ st = NeverSynced /\ srv = NoServer
        /\ base = NeverSynced /\ tree = NoTree /\ div = {} /\ events = 0 /\ quiet = 0
        /\ calm = FALSE /\ settled = {} /\ raced = FALSE
        /\ cl = [c \in Client |-> NoServer] /\ out = cl
    BY DEF Init
  <2>2. mcp \in [Place -> Entries]
    BY <1>1 DEF Init, Entries, Server
  <2>3. shared \in {<<t>> : t \in Texts} /\ own \in [Client -> Seq(Texts)]
        /\ block \in [Client -> Seq(Texts) \cup {Unmarked, Malformed}]
    BY Markers DEF Init
  <2>4. skill \in [Place -> Tree \cup {NoTree, "link"}] /\ skill["ptw"] # "link"
    BY Markers DEF Init, Tree, Place
  <2>5. conflict \in [Object -> [client : Client \cup {"none"}, text : Seq(Texts)]]
    BY Markers DEF Init, NoConflict
  <2>6. 0 \in 0..MaxEvents
    BY MaxEventsAssumption
  <2>7. cl \in [Client -> Entries] /\ out \in [Client -> Entries]
    BY <1>1, <2>1, Zenon
  <2>8. srv \in Entries /\ base \in State /\ st \in State /\ tree \in Tree \cup {NoTree}
        /\ events \in 0..MaxEvents /\ quiet \in 0..2
    BY <1>1, <2>1, <2>6
  <2> QED
    BY <2>1, <2>2, <2>3, <2>4, <2>5, <2>7, <2>8 DEF TypeOK
<1>3. RunInv /\ CalmInv /\ SettledInv
  BY DEF Init, RunInv, CalmInv, SettledInv, McpSettled, RulesSettled, SkillSettled, Started
<1> QED
  BY <1>2, <1>3 DEF IInv

LEMMA BeginStep == IInv /\ Begin => IInv'
<1> SUFFICES ASSUME IInv, Begin PROVE IInv'
  OBVIOUS
<1>1. /\ pc = Idle /\ pc' = <<"merge", "codex">> /\ st' = base /\ srv' = mcp["ptw"]
      /\ cl' = [c \in Client |-> mcp[c]] /\ out' = [c \in Client |-> NoServer]
      /\ tree' = NoTree /\ div' = {} /\ calm' = TRUE
      /\ UNCHANGED <<link, mcp, shared, own, block, skill, base, conflict, exit, events, quiet, settled, raced>>
  BY DEF Begin, files
<1>2. TypeOK'
  <2>1. NoServer \in Entries /\ "codex" \in Client /\ Client \subseteq Place /\ "ptw" \in Place
    BY DEF Entries, Client, Place
  <2> QED
    BY <1>1, <2>1 DEF IInv, TypeOK
<1>3. RunInv' /\ CalmInv'
  BY <1>1 DEF RunInv, CalmInv, Started
<1>4. SettledInv'
  BY <1>1 DEF IInv, SettledInv, McpSettled, RulesSettled, SkillSettled, Started, Composed, TreeAt
<1> QED
  BY <1>2, <1>3, <1>4 DEF IInv

---------------------------------------------------------------------------------
(* MCP servers. *)

\* What is adopted from a client is a definition; from one that differs only in
\* `enabled` it is the one that was there.
LEMMA AdoptedIs ==
  ASSUME TypeOK, NEW c \in Client, srv # NoServer, cl[c] # NoServer
  PROVE  /\ Adopted(c) \in Server /\ Adopted(c) # NoServer /\ Adopted(c).def = cl[c].def
         /\ cl[c].def = srv.def => Adopted(c) = srv
<1>1. cl[c] \in Server /\ srv \in Server
  BY DEF TypeOK, Entries
<1>2. \A d \in Defs : d # "absent"
  BY TokenAssumption
<1> QED
  BY <1>1, <1>2 DEF Adopted, Server, NoServer

\* A report has its place and its form.
LEMMA ReportIs ==
  ASSUME TypeOK, NEW o \in Object, NEW c \in Client, NEW t \in Seq(Texts),
         Report(o, c, t) \/ NoReport
  PROVE  /\ conflict' \in [Object -> [client : Client \cup {"none"}, text : Seq(Texts)]]
         /\ div' \subseteq Object
         /\ \A p \in Object : p # o => conflict'[p] = conflict[p]
         /\ NoReport => conflict' = conflict
<1>1. conflict \in [Object -> [client : Client \cup {"none"}, text : Seq(Texts)]] /\ div \subseteq Object
  BY DEF TypeOK
<1>2. ASSUME Report(o, c, t)
      PROVE  /\ conflict' \in [Object -> [client : Client \cup {"none"}, text : Seq(Texts)]]
             /\ div' \subseteq Object /\ \A p \in Object : p # o => conflict'[p] = conflict[p]
  <2>1. [client |-> c, text |-> t] \in [client : Client \cup {"none"}, text : Seq(Texts)]
    OBVIOUS
  <2>2. conflict' = [conflict EXCEPT ![o] = [client |-> c, text |-> t]] /\ div' = div \cup {o}
    BY <1>2 DEF Report
  <2> QED
    BY <1>1, <2>1, <2>2
<1>3. NoReport => conflict' = conflict /\ div' = div
  BY DEF NoReport
<1> QED
  BY <1>1, <1>2, <1>3

LEMMA McpMergeStep ==
  ASSUME IInv, NEW c \in Client, McpMerge(c)
  PROVE  IInv'
<1>1. /\ pc = <<"merge", c>> /\ srv # NoServer /\ pc' = Follow("merge", c)
      /\ McpPull(c) => srv' = Adopted(c) /\ mcp' = [mcp EXCEPT !["ptw"] = Adopted(c)]
                       /\ out' = [out EXCEPT ![c] = Adopted(c)]
      /\ ~McpPull(c) => srv' = srv /\ mcp' = mcp
                        /\ out' = IF McpPush(c) THEN [out EXCEPT ![c] = srv] ELSE out
      /\ Report("mcp", c, <<>>) \/ NoReport
      /\ ~McpDiverged(c) => NoReport
      /\ st' = IF c = "agy" THEN [st EXCEPT !.mcp = McpBase(srv', div')] ELSE st
      /\ UNCHANGED <<link, shared, own, block, skill, base, exit, cl, tree>> /\ UNCHANGED hist
  BY DEF McpMerge, At
<1>2. TypeOK /\ RunInv /\ CalmInv /\ SettledInv
  BY DEF IInv
<1>3. /\ c \in Place /\ "ptw" \in Place /\ c # "ptw" /\ Client \subseteq Place /\ "mcp" \in Object
      /\ mcp \in [Place -> Entries] /\ out \in [Client -> Entries] /\ srv \in Entries
      /\ cl \in [Client -> Entries] /\ st \in State
  BY <1>2 DEF Place, Client, Object, TypeOK
<1>4. McpPull(c) => /\ cl[c] # NoServer
                    /\ Adopted(c) \in Server /\ Adopted(c) # NoServer /\ Adopted(c).def = cl[c].def
                    /\ cl[c].def = srv.def => Adopted(c) = srv
  BY <1>1, <1>2, AdoptedIs DEF McpPull
<1>5. /\ srv' \in Entries /\ mcp' \in [Place -> Entries] /\ out' \in [Client -> Entries]
  BY <1>1, <1>3, <1>4 DEF Entries
<1>6. /\ st' \in State /\ st'.rules = st.rules /\ st'.skill = st.skill
      /\ \A x \in Place : st'.mcp[x] \in {st.mcp[x], srv'}
  <2>1. ASSUME NEW m, m = McpBase(srv', div')
        PROVE  m \in [Place -> Entries] /\ \A x \in Place : m[x] \in {st.mcp[x], srv'}
    BY <1>3, <1>5, <2>1 DEF McpBase, State
  <2>2. ASSUME NEW m \in [Place -> Entries], NEW s, s = [st EXCEPT !.mcp = m]
        PROVE  s \in State /\ s.rules = st.rules /\ s.skill = st.skill /\ s.mcp = m
    BY <1>3, <2>2 DEF State
  <2>3. CASE c = "agy"
    <3>1. PICK m : m = McpBase(srv', div')
      OBVIOUS
    <3>2. m \in [Place -> Entries] /\ st' = [st EXCEPT !.mcp = m]
      BY <1>1, <2>1, <2>3, <3>1
    <3>3. st' \in State /\ st'.rules = st.rules /\ st'.skill = st.skill /\ st'.mcp = m
      BY <2>2, <3>2
    <3> QED
      BY <2>1, <3>1, <3>3
  <2>4. CASE c # "agy"
    BY <1>1, <1>3, <2>4
  <2> QED
    BY <2>3, <2>4
<1>7. /\ conflict' \in [Object -> [client : Client \cup {"none"}, text : Seq(Texts)]]
      /\ div' \subseteq Object /\ \A o \in Object : o # "mcp" => conflict'[o] = conflict[o]
      /\ ~McpDiverged(c) => conflict' = conflict
  BY <1>1, <1>2, <1>3, ReportIs, Markers
<1>8. pc' \in {<<"merge", "agy">>, <<"write", "codex">>} /\ (c = "codex" <=> pc' = <<"merge", "agy">>)
  BY <1>1 DEF Follow, NextPhase, Client
<1>9. TypeOK'
  BY <1>1, <1>2, <1>5, <1>6, <1>7, <1>8 DEF TypeOK, hist, Client
<1>10. RunInv'
  BY <1>1, <1>2, <1>6, <1>8 DEF RunInv, Started, Idle
<1>11. CalmInv'
  <2> SUFFICES ASSUME calm PROVE CalmInv'
    BY <1>1 DEF CalmInv, hist
  <2>1. /\ srv = mcp["ptw"] /\ st.mcp = base.mcp
        /\ \A d \in Client : cl[d] = mcp[d]
        /\ \A d \in Client : out[d] # NoServer /\ EditedEntry(d) => out[d].def = mcp[d].def
    BY <1>1, <1>2 DEF CalmInv, RunInv, Started, Idle
  <2>2. srv' = mcp'["ptw"] /\ \A d \in Client : mcp'[d] = mcp[d]
    BY <1>1, <1>3, <2>1 DEF Client
  <2>3. \A d \in Client \ {c} : out'[d] = out[d]
    BY <1>1, <1>3
  <2>4. out'[c] # NoServer /\ EditedEntry(c) => out'[c].def = mcp[c].def
    BY <1>1, <1>3, <1>4, <2>1 DEF McpPush, EditedEntry, ClientChanged
  <2>5. \A d \in Client : out'[d] # NoServer /\ EditedEntry(d)' => out'[d].def = mcp'[d].def
    BY <1>1, <2>1, <2>2, <2>3, <2>4 DEF EditedEntry
  <2> QED
    BY <1>1, <1>8, <2>1, <2>2, <2>5 DEF CalmInv
<1>12. SettledInv'
  <2>1. /\ UNCHANGED <<settled, calm, base, skill, block, shared, own>> /\ Started /\ Started'
    BY <1>1, <1>8 DEF hist, Started, Idle
  <2>2. ASSUME "mcp" \in settled
        PROVE  ~McpDiverged(c) /\ McpSettled'
    <3>1. /\ \A x \in Place : mcp[x] # NoServer /\ mcp[x].def = mcp["ptw"].def
                              /\ base.mcp[x] = mcp["ptw"] /\ st.mcp[x] = mcp["ptw"]
          /\ \A d \in Client : out[d] \in {NoServer, mcp["ptw"]}
          /\ calm
      BY <1>2, <2>1, <2>2 DEF SettledInv, McpSettled
    <3>2. srv = mcp["ptw"] /\ cl[c] = mcp[c]
      BY <1>1, <1>2, <2>1, <3>1 DEF CalmInv
    <3>3. ~McpDiverged(c) /\ (McpPull(c) => Adopted(c) = srv)
      BY <1>3, <1>4, <3>1, <3>2 DEF McpDiverged, FirstSync, PtwChanged
    <3>4. srv' = srv /\ mcp' = mcp /\ \A d \in Client : out'[d] \in {NoServer, mcp["ptw"]}
      BY <1>1, <1>3, <3>1, <3>2, <3>3
    <3> QED
      BY <1>6, <2>1, <3>1, <3>2, <3>3, <3>4 DEF McpSettled
  <2>3. McpSettled'
    BY <2>1, <2>2 DEF McpSettled
  <2>4. \A o \in settled : conflict'[o] = NoConflict
    BY <1>2, <1>7, <2>2 DEF SettledInv, TypeOK
  <2>5. SkillSettled' /\ \A d \in Client : RulesSettled(d)'
    BY <1>2, <1>6, <2>1 DEF SettledInv, SkillSettled, RulesSettled, TreeAt, Composed
  <2> QED
    BY <1>2, <2>1, <2>3, <2>4, <2>5 DEF SettledInv
<1> QED
  BY <1>9, <1>10, <1>11, <1>12 DEF IInv

LEMMA McpDeletedStep == IInv /\ McpDeleted => IInv'
<1> SUFFICES ASSUME IInv, McpDeleted PROVE IInv'
  OBVIOUS
<1>1. /\ pc = <<"merge", "codex">> /\ pc' = <<"write", "codex">>
      /\ UNCHANGED <<link, mcp, shared, own, block, skill, base, conflict, exit, st, srv, cl, out, tree, div>>
      /\ UNCHANGED hist
  BY DEF McpDeleted, files, At
<1>2. TypeOK /\ RunInv /\ CalmInv /\ SettledInv
  BY DEF IInv
<1>3. TypeOK'
  BY <1>1, <1>2 DEF TypeOK, hist, Client
<1>4. RunInv' /\ CalmInv'
  BY <1>1, <1>2 DEF RunInv, CalmInv, Started, Idle, hist, EditedEntry
<1>5. SettledInv'
  BY <1>1, <1>2 DEF SettledInv, McpSettled, RulesSettled, SkillSettled, Started, Idle, Composed,
     TreeAt, hist
<1> QED
  BY <1>3, <1>4, <1>5 DEF IInv

LEMMA McpWriteStep ==
  ASSUME IInv, NEW c \in Client, McpWrite(c)
  PROVE  IInv'
<1>1. /\ pc = <<"write", c>> /\ pc' = Follow("write", c)
      /\ mcp' = IF out[c] # NoServer THEN [mcp EXCEPT ![c] = out[c]] ELSE mcp
      /\ UNCHANGED <<link, shared, own, block, skill, base, conflict, exit, st, srv, cl, out, tree, div>>
      /\ UNCHANGED hist
  BY DEF McpWrite, At
<1>2. TypeOK /\ RunInv /\ CalmInv /\ SettledInv
  BY DEF IInv
<1>3. /\ c \in Place /\ c # "ptw" /\ Client \subseteq Place /\ "ptw" \in Place
      /\ mcp \in [Place -> Entries] /\ out \in [Client -> Entries]
  BY <1>2 DEF Place, Client, TypeOK
<1>4. /\ pc' \in {<<"write", "agy">>, <<"rules", "codex">>}
  BY <1>1 DEF Follow, NextPhase, Client
<1>5. mcp' \in [Place -> Entries] /\ \A x \in Place \ {c} : mcp'[x] = mcp[x]
  BY <1>1, <1>3
<1>6. TypeOK'
  BY <1>1, <1>2, <1>4, <1>5 DEF TypeOK, hist, Client
<1>7. RunInv'
  BY <1>1, <1>2, <1>4 DEF RunInv, Started, Idle
<1>8. CalmInv'
  <2> SUFFICES ASSUME calm PROVE CalmInv'
    BY <1>1 DEF CalmInv, hist
  <2>1. \A d \in Client : out[d] # NoServer /\ EditedEntry(d) => out[d].def = mcp[d].def
    BY <1>1, <1>2 DEF CalmInv, Started, Idle
  <2>2. mcp'[c] = IF out[c] # NoServer THEN out[c] ELSE mcp[c]
    BY <1>1, <1>3
  <2>3. \A d \in Client : out'[d] # NoServer /\ EditedEntry(d)' => out'[d].def = mcp'[d].def
    BY <1>1, <1>3, <1>5, <2>1, <2>2 DEF EditedEntry
  <2> QED
    BY <1>1, <1>4, <2>3 DEF CalmInv
<1>9. SettledInv'
  <2>1. /\ UNCHANGED <<settled, calm>> /\ Started /\ Started'
    BY <1>1, <1>4 DEF hist, Started, Idle
  <2>2. McpSettled'
    BY <1>1, <1>2, <1>3, <1>5, <2>1 DEF SettledInv, McpSettled
  <2>3. SkillSettled' /\ \A d \in Client : RulesSettled(d)'
    BY <1>1, <1>2, <2>1 DEF SettledInv, SkillSettled, RulesSettled, TreeAt, Composed
  <2> QED
    BY <1>1, <1>2, <2>1, <2>2, <2>3 DEF SettledInv
<1> QED
  BY <1>6, <1>7, <1>8, <1>9 DEF IInv

---------------------------------------------------------------------------------
(* Rules. *)

\* What has been resolved is no conflict and is not carried back.
LEMMA SettledRules ==
  ASSUME IInv, NEW c \in Client, Started, RulesOf(c) \in settled
  PROVE  ~RulesDiverged(c) /\ ~RulesPull(c)
<1>1. /\ base.rules[c] # Never /\ block[c] \in {base.rules[c], Composed(c)}
      /\ st.rules[c] # Never /\ block[c] \in {st.rules[c], Composed(c)}
  BY DEF IInv, SettledInv, RulesSettled
<1>2. Composed(c) \in Seq(Texts) /\ st.rules[c] \in Seq(Texts) \cup {Never}
  BY ComposedIs DEF IInv, TypeOK, State
<1>3. block[c] # Malformed
  BY <1>1, <1>2, Markers
<1> QED
  BY <1>1, <1>3 DEF RulesDiverged, RulesPull

\* What becomes of the fragments of a client, of its block and of what is recorded of it.
LEMMA RulesMergeIs ==
  ASSUME TypeOK, NEW c \in Client, RulesMerge(c)
  PROVE  /\ own' \in [Client -> Seq(Texts)] /\ shared' = shared
         /\ Composed(c)' \in Seq(Texts) /\ \A d \in Client \ {c} : Composed(d)' = Composed(d)
         /\ block' \in [Client -> Seq(Texts) \cup {Unmarked, Malformed}]
         /\ \A d \in Client \ {c} : block'[d] = block[d]
         /\ block'[c] = IF RulesPush(c) \/ RulesPull(c) THEN Composed(c)' ELSE block[c]
         /\ st' \in State /\ st'.mcp = st.mcp /\ st'.skill = st.skill
         /\ \A d \in Client \ {c} : st'.rules[d] = st.rules[d]
         /\ st'.rules[c] = IF RulesPush(c) \/ RulesPull(c) \/ RulesAgreed(c) THEN Composed(c)' ELSE st.rules[c]
<1>1. /\ own' = IF RulesPull(c) THEN [own EXCEPT ![c] = Override(Body(c))] ELSE own
      /\ block' = IF RulesPush(c) \/ RulesPull(c) THEN [block EXCEPT ![c] = Composed(c)'] ELSE block
      /\ st' = IF RulesPush(c) \/ RulesPull(c) \/ RulesAgreed(c)
               THEN [st EXCEPT !.rules[c] = Composed(c)'] ELSE st
      /\ shared' = shared
  BY DEF RulesMerge
<1>2. /\ own \in [Client -> Seq(Texts)] /\ block \in [Client -> Seq(Texts) \cup {Unmarked, Malformed}]
      /\ shared \in Seq(Texts) /\ st \in State
  BY Types DEF TypeOK
<1>3. own' \in [Client -> Seq(Texts)] /\ \A d \in Client \ {c} : own'[d] = own[d]
  <2>1. RulesPull(c) => Body(c) \in Seq(Texts)
    BY ComposedIs DEF RulesPull
  <2>2. RulesPull(c) => Override(Body(c)) \in Seq(Texts)
    BY <2>1, OverrideIs
  <2> QED
    BY <1>1, <1>2, <2>2
<1>4. Composed(c)' \in Seq(Texts) /\ \A d \in Client \ {c} : Composed(d)' = Composed(d)
  BY <1>1, <1>2, <1>3 DEF Composed
<1>5. /\ block' \in [Client -> Seq(Texts) \cup {Unmarked, Malformed}]
      /\ \A d \in Client \ {c} : block'[d] = block[d]
      /\ block'[c] = IF RulesPush(c) \/ RulesPull(c) THEN Composed(c)' ELSE block[c]
  BY <1>1, <1>2, <1>4
<1>6. /\ st' \in State /\ st'.mcp = st.mcp /\ st'.skill = st.skill
      /\ \A d \in Client \ {c} : st'.rules[d] = st.rules[d]
      /\ st'.rules[c] = IF RulesPush(c) \/ RulesPull(c) \/ RulesAgreed(c) THEN Composed(c)' ELSE st.rules[c]
  <2>1. CASE RulesPush(c) \/ RulesPull(c) \/ RulesAgreed(c)
    <3>1. PICK t : t = Composed(c)'
      OBVIOUS
    <3>2. st' = [st EXCEPT !.rules[c] = t]
      BY <1>1, <2>1, <3>1
    <3>3. t \in Seq(Texts)
      BY <1>4, <3>1
    <3>4. /\ st' \in State /\ st'.mcp = st.mcp /\ st'.skill = st.skill
          /\ \A d \in Client \ {c} : st'.rules[d] = st.rules[d]
          /\ st'.rules[c] = t
      BY <1>2, <3>2, <3>3 DEF State
    <3> QED
      BY <2>1, <3>1, <3>4
  <2>2. CASE ~(RulesPush(c) \/ RulesPull(c) \/ RulesAgreed(c))
    BY <1>1, <1>2, <2>2
  <2> QED
    BY <2>1, <2>2
<1> QED
  BY <1>1, <1>3, <1>4, <1>5, <1>6

LEMMA RulesMergeStep ==
  ASSUME IInv, NEW c \in Client, RulesMerge(c)
  PROVE  IInv'
<1> DEFINE text == IF block[c] = Malformed THEN <<>> ELSE Body(c)
<1>1. /\ pc = <<"rules", c>> /\ pc' = Follow("rules", c)
      /\ ~RulesPull(c) => own' = own
      /\ Report(RulesOf(c), c, text) \/ NoReport
      /\ ~RulesDiverged(c) => NoReport
      /\ UNCHANGED <<link, mcp, shared, skill, base, exit, srv, cl, out, tree>> /\ UNCHANGED hist
  BY DEF RulesMerge, At
<1>2. TypeOK /\ RunInv /\ CalmInv /\ SettledInv
  BY DEF IInv
<1>3. /\ own \in [Client -> Seq(Texts)] /\ block \in [Client -> Seq(Texts) \cup {Unmarked, Malformed}]
      /\ shared \in Seq(Texts) /\ st \in State /\ RulesOf(c) \in Object
      /\ \A d \in Client : RulesOf(d) = RulesOf(c) => d = c
  BY <1>2, Types DEF TypeOK, RulesOf, Client, Object
<1>4. text \in Seq(Texts)
  BY <1>2, ComposedIs, Markers
<1>5. own' \in [Client -> Seq(Texts)]
  BY <1>2, RulesMergeIs
<1>6. Composed(c)' \in Seq(Texts) /\ \A d \in Client \ {c} : Composed(d)' = Composed(d)
  BY <1>2, RulesMergeIs
<1>7. /\ block' \in [Client -> Seq(Texts) \cup {Unmarked, Malformed}]
      /\ \A d \in Client \ {c} : block'[d] = block[d]
      /\ block'[c] = IF RulesPush(c) \/ RulesPull(c) THEN Composed(c)' ELSE block[c]
  BY <1>2, RulesMergeIs
<1>8. /\ st' \in State /\ st'.mcp = st.mcp /\ st'.skill = st.skill
      /\ \A d \in Client \ {c} : st'.rules[d] = st.rules[d]
      /\ st'.rules[c] = IF RulesPush(c) \/ RulesPull(c) \/ RulesAgreed(c) THEN Composed(c)' ELSE st.rules[c]
  BY <1>2, RulesMergeIs
<1> HIDE DEF text
<1>9. /\ conflict' \in [Object -> [client : Client \cup {"none"}, text : Seq(Texts)]]
      /\ div' \subseteq Object /\ \A o \in Object : o # RulesOf(c) => conflict'[o] = conflict[o]
      /\ ~RulesDiverged(c) => conflict' = conflict
  BY <1>1, <1>2, <1>3, <1>4, ReportIs
<1>10. pc' \in {<<"rules", "agy">>, <<"skill", "codex">>} /\ (c = "codex" <=> pc' = <<"rules", "agy">>)
  BY <1>1 DEF Follow, NextPhase, Client
<1>11. TypeOK'
  BY <1>1, <1>2, <1>5, <1>7, <1>8, <1>9, <1>10 DEF TypeOK, hist, Client
<1>12. RunInv' /\ CalmInv'
  BY <1>1, <1>2, <1>8, <1>10 DEF RunInv, CalmInv, Started, Idle, Client, hist
<1>13. SettledInv'
  <2>1. /\ UNCHANGED <<settled, calm>> /\ Started /\ Started'
    BY <1>1, <1>10 DEF hist, Started, Idle
  <2>2. ASSUME RulesOf(c) \in settled
        PROVE  RulesSettled(c)' /\ conflict' = conflict
    <3>1. ~RulesDiverged(c) /\ ~RulesPull(c)
      BY <2>1, <2>2, SettledRules
    <3>2. Composed(c)' = Composed(c)
      BY <1>1, <3>1 DEF Composed
    <3>3. /\ base.rules[c] # Never /\ block[c] \in {base.rules[c], Composed(c)}
          /\ st.rules[c] # Never /\ block[c] \in {st.rules[c], Composed(c)}
      BY <1>2, <2>1, <2>2 DEF SettledInv, RulesSettled
    <3>4. Composed(c) # Never
      BY <1>6, <3>2, Markers
    <3> QED
      BY <1>1, <1>7, <1>8, <1>9, <3>1, <3>2, <3>3, <3>4 DEF RulesSettled, RulesAgreed
  <2>3. \A d \in Client : RulesSettled(d)'
    BY <1>1, <1>2, <1>6, <1>7, <1>8, <2>1, <2>2 DEF SettledInv, RulesSettled
  <2>4. \A o \in settled : conflict'[o] = NoConflict
    BY <1>2, <1>9, <2>2 DEF SettledInv, TypeOK
  <2>5. SkillSettled' /\ McpSettled'
    BY <1>1, <1>2, <1>8, <2>1 DEF SettledInv, SkillSettled, McpSettled, TreeAt
  <2> QED
    BY <1>2, <2>1, <2>3, <2>4, <2>5 DEF SettledInv
<1> QED
  BY <1>11, <1>12, <1>13 DEF IInv

---------------------------------------------------------------------------------
(* Skills. *)

\* What the directories hold, and what a link leads to.
LEMMA TreesAre ==
  ASSUME TypeOK
  PROVE  /\ Client \subseteq Place /\ "ptw" \in Place /\ "ptw" \notin Client
         /\ skill \in [Place -> Tree \cup {NoTree, "link"}] /\ skill["ptw"] \in Tree \cup {NoTree}
         /\ tree \in Tree \cup {NoTree}
         /\ Installed \in Tree \cup {NoTree, "link"}
         /\ \A c \in Client : TreeAt(c) \in Tree \cup {NoTree} /\ SkillHash(c) \in Tree \cup {NoTree}
<1>1. /\ skill \in [Place -> Tree \cup {NoTree, "link"}] /\ skill["ptw"] # "link"
      /\ tree \in Tree \cup {NoTree}
  BY DEF TypeOK
<1>2. Client \subseteq Place /\ "ptw" \in Place /\ "ptw" \notin Client
  BY DEF Client, Place
<1> QED
  BY <1>1, <1>2 DEF Installed, TreeAt, SkillHash

LEMMA PulledIs ==
  ASSUME TypeOK, NEW c \in Client, skill[c] # "link"
  PROVE  /\ Pulled(c) \in [Place -> Tree \cup {NoTree, "link"}]
         /\ Pulled(c)["ptw"] = skill[c] /\ Pulled(c)[c] = skill[c]
         /\ \A d \in Client : Pulled(c)[d] = skill[c] \/ Pulled(c)[d] = "link"
BY TreesAre DEF Pulled

\* An installed skill that was resolved is let alone.
LEMMA SettledSkill ==
  ASSUME IInv, NEW c \in Client, pc = <<"skill", c>>, "skill" \in settled
  PROVE  ~SkillDiverged(c) /\ ~SkillPush(c) /\ ~SkillPull(c) /\ SkillHash(c) = skill["ptw"]
<1>1. Started /\ calm
  BY DEF Started, Idle, IInv, SettledInv
<1>2. /\ skill["ptw"] # NoTree /\ TreeAt(c) = skill["ptw"] /\ st.skill = base.skill
      /\ \A x \in Place : base.skill[x] = skill["ptw"]
  BY <1>1 DEF IInv, SettledInv, SkillSettled, RunInv
<1>3. SkillHash(c) = skill["ptw"]
  BY <1>1 DEF IInv, CalmInv, SkillHash, Client
<1>4. c \in Place /\ "ptw" \in Place /\ skill[c] # NoTree
  BY <1>2 DEF Place, Client, TreeAt, NoTree
<1> QED
  BY <1>2, <1>3, <1>4 DEF SkillDiverged, SkillPush, SkillPull, TreeChanged, FirstSkillSync

LEMMA SkillSkipStep == IInv /\ SkillSkip => IInv'
<1> SUFFICES ASSUME IInv, SkillSkip PROVE IInv'
  OBVIOUS
<1>1. /\ pc = <<"skill", "codex">> /\ pc' = <<"save", "codex">> /\ skill["ptw"] = NoTree
      /\ UNCHANGED <<link, mcp, shared, own, block, skill, base, conflict, exit, st, srv, cl, out, tree, div>>
      /\ UNCHANGED hist
  BY DEF SkillSkip, files, At
<1>2. TypeOK /\ RunInv /\ CalmInv /\ SettledInv
  BY DEF IInv
<1>3. TypeOK'
  BY <1>1, <1>2 DEF TypeOK, hist, Client
<1>4. RunInv' /\ CalmInv'
  BY <1>1, <1>2 DEF RunInv, CalmInv, Started, Idle, hist
<1>5. SettledInv'
  BY <1>1, <1>2 DEF SettledInv, McpSettled, RulesSettled, SkillSettled, Started, Idle, Composed,
     TreeAt, hist
<1> QED
  BY <1>3, <1>4, <1>5 DEF IInv

LEMMA SkillMergeStep ==
  ASSUME IInv, NEW c \in Client, SkillMerge(c)
  PROVE  IInv'
<1>1. /\ pc = <<"skill", c>> /\ pc' = Follow("skill", c)
      /\ SkillPull(c) => skill[c] # "link"
      /\ skill' = IF SkillPull(c) THEN Pulled(c)
                  ELSE IF SkillPush(c) THEN [skill EXCEPT ![c] = Installed] ELSE skill
      /\ tree' = IF SkillPull(c) THEN skill[c] ELSE SkillHash(c)
      /\ Report("skill", c, <<>>) \/ NoReport
      /\ ~SkillDiverged(c) => NoReport
      /\ UNCHANGED <<link, mcp, shared, own, block, base, exit, st, srv, cl, out>> /\ UNCHANGED hist
  BY DEF SkillMerge, At, CanPull
<1>2. TypeOK /\ RunInv /\ CalmInv /\ SettledInv
  BY DEF IInv
<1>3. "skill" \in Object
  BY DEF Object
<1>4. /\ conflict' \in [Object -> [client : Client \cup {"none"}, text : Seq(Texts)]]
      /\ div' \subseteq Object /\ \A o \in Object : o # "skill" => conflict'[o] = conflict[o]
      /\ ~SkillDiverged(c) => conflict' = conflict
  BY <1>1, <1>2, <1>3, ReportIs, Markers
<1>5. pc' \in {<<"skill", "agy">>, <<"save", "codex">>}
  BY <1>1 DEF Follow, NextPhase, Client
<1>6. skill' \in [Place -> Tree \cup {NoTree, "link"}] /\ skill'["ptw"] # "link"
      /\ skill'["ptw"] = IF SkillPull(c) THEN skill[c] ELSE skill["ptw"]
  BY <1>1, <1>2, TreesAre, PulledIs, Markers
<1>7. tree' \in Tree \cup {NoTree}
  BY <1>1, <1>2, TreesAre
<1>8. TypeOK'
  BY <1>1, <1>2, <1>4, <1>5, <1>6, <1>7 DEF TypeOK, hist, Client
<1>9. RunInv' /\ CalmInv'
  BY <1>1, <1>2, <1>5, <1>6 DEF RunInv, CalmInv, Started, Idle, hist, SkillHash, Client
<1>10. SettledInv'
  <2>1. /\ UNCHANGED <<settled, calm>> /\ Started /\ Started'
    BY <1>1, <1>5 DEF hist, Started, Idle
  <2>2. "skill" \in settled => skill' = skill /\ conflict' = conflict
    BY <1>1, <1>4, SettledSkill
  <2>3. \A o \in settled : conflict'[o] = NoConflict
    BY <1>2, <1>4, <2>2 DEF SettledInv, TypeOK
  <2>4. SkillSettled'
    BY <1>1, <1>2, <2>1, <2>2 DEF SettledInv, SkillSettled, TreeAt
  <2>5. McpSettled' /\ \A d \in Client : RulesSettled(d)'
    BY <1>1, <1>2, <2>1 DEF SettledInv, RulesSettled, McpSettled, Composed
  <2> QED
    BY <1>2, <2>1, <2>3, <2>4, <2>5 DEF SettledInv
<1> QED
  BY <1>8, <1>9, <1>10 DEF IInv

LEMMA SaveStep == IInv /\ Save => IInv'
<1> SUFFICES ASSUME IInv, Save PROVE IInv'
  OBVIOUS
<1>1. /\ pc = <<"save", "codex">> /\ pc' = Idle
      /\ base' = [st EXCEPT !.skill = SkillBase]
      /\ exit' \in {"ok", "conflict"} /\ quiet' \in {0, 2, quiet + 1} /\ (quiet' = quiet + 1 => quiet # 2)
      /\ UNCHANGED <<link, mcp, shared, own, block, skill, conflict, st, srv, cl, out, tree, div,
                     events, calm, settled, raced>>
  BY DEF Save, files, At
<1>2. TypeOK /\ RunInv /\ CalmInv /\ SettledInv
  BY DEF IInv
<1>3. SkillBase \in [Place -> Tree \cup {NoTree}]
  <2>1. st.skill \in [Place -> Tree \cup {NoTree}]
    BY <1>2 DEF TypeOK, State
  <2>2. \A x \in Place : (IF x = "ptw" THEN tree ELSE TreeAt(x)) \in Tree \cup {NoTree}
    BY <1>2, TreesAre DEF Place
  <2> QED
    BY <2>1, <2>2 DEF SkillBase
<1>4. base' \in State /\ base'.mcp = st.mcp /\ base'.rules = st.rules /\ base'.skill = SkillBase
  <2>1. PICK b : b = SkillBase
    OBVIOUS
  <2>2. base' = [st EXCEPT !.skill = b] /\ st \in State /\ b \in [Place -> Tree \cup {NoTree}]
    BY <1>1, <1>2, <1>3, <2>1 DEF TypeOK
  <2> QED
    BY <2>1, <2>2 DEF State
<1>5. quiet' \in 0..2
  BY <1>1, <1>2 DEF TypeOK
<1>6. TypeOK'
  BY <1>1, <1>2, <1>4, <1>5 DEF TypeOK
<1>7. RunInv' /\ CalmInv' /\ ~Started'
  BY <1>1 DEF RunInv, CalmInv, Started
<1>8. SettledInv'
  <2>1. Started
    BY <1>1 DEF Started, Idle
  <2>2. McpSettled' /\ \A c \in Client : RulesSettled(c)'
    BY <1>1, <1>2, <1>4, <1>7, <2>1 DEF SettledInv, McpSettled, RulesSettled, Composed
  <2>3. SkillSettled'
    <3> SUFFICES ASSUME "skill" \in settled PROVE SkillSettled'
      BY <1>1 DEF SkillSettled
    <3>1. /\ skill["ptw"] # NoTree /\ \A c \in Client : TreeAt(c) = skill["ptw"]
          /\ \A x \in Place : base.skill[x] = skill["ptw"]
          /\ tree = skill["ptw"] /\ st.skill = base.skill
      BY <1>1, <1>2, <2>1 DEF SettledInv, SkillSettled, CalmInv, RunInv
    <3>2. \A x \in Place : SkillBase[x] = skill["ptw"]
      BY <3>1 DEF SkillBase, Place
    <3> QED
      BY <1>1, <1>4, <3>1, <3>2 DEF SkillSettled, TreeAt
  <2> QED
    BY <1>1, <1>2, <1>7, <2>2, <2>3 DEF SettledInv
<1> QED
  BY <1>6, <1>7, <1>8 DEF IInv

---------------------------------------------------------------------------------
(* A sync that does not end. *)

\* One that stops leaves what was resolved alone.
LEMMA StopStep ==
  ASSUME IInv, Started, Stop, own' \in [Client -> Seq(Texts)], events' \in 0..MaxEvents,
         skill' \in [Place -> Tree \cup {NoTree, "link"}], skill'["ptw"] # "link",
         \A c \in Client : RulesOf(c) \in settled => own'[c] = own[c],
         "skill" \in settled => skill' = skill
  PROVE  IInv'
<1>1. /\ pc' = Idle /\ exit' = "failed" /\ quiet' = 0
      /\ UNCHANGED <<link, mcp, shared, block, base, conflict, st, srv, cl, out, tree, div, calm, settled, raced>>
  BY DEF Stop
<1>2. TypeOK /\ RunInv /\ CalmInv /\ SettledInv
  BY DEF IInv
<1>3. TypeOK'
  BY <1>1, <1>2 DEF TypeOK
<1>4. RunInv' /\ CalmInv' /\ ~Started'
  BY <1>1 DEF RunInv, CalmInv, Started
<1>5. McpSettled' /\ SkillSettled' /\ \A c \in Client : RulesSettled(c)'
  BY <1>1, <1>2, <1>4 DEF SettledInv, McpSettled, RulesSettled, SkillSettled, Composed, TreeAt
<1>6. SettledInv'
  BY <1>1, <1>2, <1>4, <1>5 DEF SettledInv
<1> QED
  BY <1>3, <1>4, <1>6 DEF IInv

LEMMA FailsStep ==
  ASSUME IInv, NEW c \in Client, PullFails(c) \/ PushFails(c)
  PROVE  IInv'
<1>1. /\ pc = <<"skill", c>> /\ Stop /\ UNCHANGED <<own, events>> /\ (SkillPull(c) \/ SkillPush(c))
      /\ \E x \in Place : skill' = [skill EXCEPT ![x] = NoTree]
  BY DEF PullFails, PushFails, At, Place, Client
<1>2. TypeOK /\ Started
  BY <1>1 DEF IInv, Started, Idle
<1>3. "skill" \notin settled
  BY <1>1, SettledSkill
<1>4. skill' \in [Place -> Tree \cup {NoTree, "link"}] /\ skill'["ptw"] # "link"
  BY <1>1, <1>2, TreesAre, Markers
<1>5. own \in [Client -> Seq(Texts)] /\ events \in 0..MaxEvents
  BY <1>2 DEF TypeOK
<1> QED
  BY <1>1, <1>2, <1>3, <1>4, <1>5, StopStep

LEMMA CutShortIs ==
  ASSUME NEW old \in [Place -> Tree \cup {NoTree, "link"}], old["ptw"] # "link",
         NEW c \in Client, NEW new \in InstallCutShort(old, c)
  PROVE  new \in [Place -> Tree \cup {NoTree, "link"}] /\ new["ptw"] # "link"
<1>1. PICK left \in {NoTree, "partial"} : new = [old EXCEPT ![c] = left]
  BY DEF InstallCutShort
<1>2. c \in Place /\ c # "ptw" /\ "ptw" \in Place /\ left \in Tree \cup {NoTree, "link"}
  BY DEF Client, Place, Tree
<1> QED
  BY <1>1, <1>2

LEMMA CrashStep == IInv /\ Crash => IInv'
<1> SUFFICES ASSUME IInv, Crash PROVE IInv'
  OBVIOUS
<1>1. Started /\ Stop /\ Event
  BY DEF Crash, Started
<1>2. TypeOK /\ events' \in 0..MaxEvents
  BY <1>1, MaxEventsAssumption DEF Event, IInv, TypeOK
<1>3. own \in [Client -> Seq(Texts)]
      /\ skill \in [Place -> Tree \cup {NoTree, "link"}] /\ skill["ptw"] # "link"
  BY <1>2 DEF TypeOK
<1>4. CASE UNCHANGED <<own, skill>>
  BY <1>1, <1>2, <1>3, <1>4, StopStep
<1>5. ASSUME NEW c \in Client, CrashInRules(c)
      PROVE  IInv'
  <2>1. RulesPull(c) /\ UNCHANGED skill
    BY <1>5 DEF CrashInRules
  <2>2. Override(Body(c)) \in Seq(Texts) /\ <<>> \in Seq(Texts)
    BY <1>2, <2>1, ComposedIs, OverrideIs, Markers DEF RulesPull
  <2>3. PICK left \in {<<>>, Override(Body(c))} : own' = [own EXCEPT ![c] = left]
    BY <1>5 DEF CrashInRules
  <2>4. own' \in [Client -> Seq(Texts)] /\ \A d \in Client \ {c} : own'[d] = own[d]
    BY <1>3, <2>2, <2>3
  <2>5. RulesOf(c) \notin settled
    BY <1>1, <2>1, SettledRules
  <2> QED
    BY <1>1, <1>2, <1>3, <2>1, <2>4, <2>5, StopStep
<1>6. ASSUME NEW c \in Client, CrashInSkill(c)
      PROVE  IInv'
  <2>1. pc = <<"skill", c>> /\ UNCHANGED own
    BY <1>6 DEF CrashInSkill, At
  <2>2. \/ SkillPush(c) /\ skill' \in InstallCutShort(skill, c)
        \/ SkillPull(c) /\ skill' \in {[skill EXCEPT !["ptw"] = left] : left \in {NoTree, "partial"}}
        \/ /\ SkillPull(c) /\ skill[c] # "link"
           /\ \E d \in Client \ {c} : skill' \in InstallCutShort(Pulled(c), d)
    BY <1>6 DEF CrashInSkill, CanPull
  <2>3. "skill" \notin settled
    BY <2>1, <2>2, SettledSkill
  <2>4. skill' \in [Place -> Tree \cup {NoTree, "link"}] /\ skill'["ptw"] # "link"
    <3>1. CASE skill' \in InstallCutShort(skill, c)
      BY <1>3, <3>1, CutShortIs
    <3>2. ASSUME NEW left \in {NoTree, "partial"}, skill' = [skill EXCEPT !["ptw"] = left]
          PROVE  skill' \in [Place -> Tree \cup {NoTree, "link"}] /\ skill'["ptw"] # "link"
      <4>1. left \in Tree \cup {NoTree} /\ left # "link" /\ "ptw" \in Place
        BY Markers DEF Tree, Place
      <4> QED
        BY <1>3, <3>2, <4>1
    <3>3. ASSUME NEW d \in Client, skill[c] # "link", skill' \in InstallCutShort(Pulled(c), d)
          PROVE  skill' \in [Place -> Tree \cup {NoTree, "link"}] /\ skill'["ptw"] # "link"
      BY <1>2, <3>3, PulledIs, CutShortIs
    <3> QED
      BY <2>2, <3>1, <3>2, <3>3
  <2> QED
    BY <1>1, <1>2, <1>3, <2>1, <2>3, <2>4, StopStep
<1> QED
  BY <1>4, <1>5, <1>6 DEF Crash

---------------------------------------------------------------------------------
(* ptw resolve. *)

\* What a resolution leaves of the rest.
ResolveHolds ==
  /\ pc = Idle
  /\ UNCHANGED <<link, exit, pc, st, srv, cl, out, tree, div, events, calm, raced>> /\ quiet' = 0

LEMMA ResolveTypes ==
  ASSUME IInv, ResolveHolds,
         mcp' \in [Place -> Entries], shared' = shared, own' \in [Client -> Seq(Texts)],
         block' \in [Client -> Seq(Texts) \cup {Unmarked, Malformed}],
         skill' \in [Place -> Tree \cup {NoTree, "link"}], skill'["ptw"] # "link", base' \in State,
         conflict' \in [Object -> [client : Client \cup {"none"}, text : Seq(Texts)]],
         settled' \subseteq Object,
         SettledInv'
  PROVE  IInv'
<1>1. TypeOK'
  BY DEF IInv, TypeOK, ResolveHolds
<1>2. RunInv' /\ CalmInv'
  BY DEF RunInv, CalmInv, Started, ResolveHolds
<1> QED
  BY <1>1, <1>2 DEF IInv

LEMMA ResolveMcpStep ==
  ASSUME IInv, NEW take \in Place, ResolveMcp(take)
  PROVE  IInv'
<1> DEFINE on == mcp["ptw"] = NoServer \/ mcp["ptw"].on
           chosen == IF take = "ptw" THEN mcp["ptw"] ELSE [def |-> mcp[take].def, on |-> on]
<1>1. /\ ResolveHolds /\ mcp[take] # NoServer
      /\ mcp' = [x \in Place |-> IF x = take THEN (IF x = "ptw" THEN chosen ELSE mcp[x]) ELSE chosen]
      /\ base' = [base EXCEPT !.mcp = [x \in Place |-> chosen]]
      /\ conflict' = [conflict EXCEPT !["mcp"] = NoConflict] /\ settled' = settled \cup {"mcp"}
      /\ UNCHANGED <<shared, own, block, skill>>
  BY Zenon DEF ResolveMcp, Settle, ResolveFrame, ResolveHolds, run
<1>2. TypeOK /\ SettledInv /\ mcp \in [Place -> Entries] /\ base \in State
      /\ "ptw" \in Place /\ Client \subseteq Place /\ "mcp" \in Object
  BY DEF IInv, TypeOK, Place, Client, Object
<1>3. on \in BOOLEAN
  BY Zenon
<1> HIDE DEF on
<1>4. mcp[take] \in Server /\ mcp[take].def \in Defs
  BY <1>1, <1>2 DEF Entries, Server
<1>5. chosen \in Server /\ chosen.def = mcp[take].def
  BY <1>3, <1>4 DEF Server
<1>6. chosen \in Entries /\ chosen # NoServer
  BY <1>5, TokenAssumption DEF Entries, Server, NoServer
<1> HIDE DEF chosen
<1>7. /\ mcp' \in [Place -> Entries]
      /\ \A x \in Place : mcp'[x] # NoServer /\ mcp'[x].def = chosen.def
      /\ mcp'["ptw"] = chosen
  <2>1. take = "ptw" \/ take # "ptw"
    OBVIOUS
  <2> QED
    BY <1>1, <1>2, <1>5, <1>6
<1>8. /\ base' \in State /\ base'.rules = base.rules /\ base'.skill = base.skill
      /\ \A x \in Place : base'.mcp[x] = chosen
  BY <1>1, <1>2, <1>6 DEF State
<1>9. /\ conflict' \in [Object -> [client : Client \cup {"none"}, text : Seq(Texts)]]
      /\ \A o \in Object : conflict'[o] = IF o = "mcp" THEN NoConflict ELSE conflict[o]
  BY <1>1, <1>2, Markers DEF TypeOK, NoConflict
<1>10. settled' \subseteq Object /\ settled \subseteq Object
  BY <1>1, <1>2 DEF TypeOK
<1>11. SettledInv'
  <2>1. ~Started /\ ~Started'
    BY <1>1 DEF ResolveHolds, Started
  <2>2. McpSettled'
    BY <1>7, <1>8, <2>1 DEF McpSettled
  <2>3. SkillSettled' /\ \A c \in Client : RulesSettled(c)'
    BY <1>1, <1>2, <1>8, <2>1 DEF SettledInv, SkillSettled, RulesSettled, TreeAt, Composed, RulesOf
  <2>4. \A o \in settled' : conflict'[o] = NoConflict
    BY <1>1, <1>2, <1>9, <1>10 DEF SettledInv
  <2> QED
    BY <2>1, <2>2, <2>3, <2>4 DEF SettledInv
<1>12. /\ own' \in [Client -> Seq(Texts)] /\ block' \in [Client -> Seq(Texts) \cup {Unmarked, Malformed}]
       /\ skill' \in [Place -> Tree \cup {NoTree, "link"}] /\ skill'["ptw"] # "link"
  BY <1>1, <1>2 DEF TypeOK
<1> QED
  BY <1>1, <1>7, <1>8, <1>9, <1>10, <1>11, <1>12, ResolveTypes

LEMMA ResolveRulesStep ==
  ASSUME IInv, NEW c \in Client, NEW take \in Place, ResolveRules(c, take)
  PROVE  IInv'
<1> DEFINE text == conflict[RulesOf(c)].text
           replaced == {RulesOf(d) : d \in {take} \ {c, "ptw"}}
<1>1. /\ ResolveHolds /\ conflict[RulesOf(c)] # NoConflict
      /\ own' = IF take = "ptw" THEN own ELSE [own EXCEPT ![take] = Override(text)]
      /\ UNCHANGED <<mcp, shared, skill>>
  BY DEF ResolveRules, ResolveFrame, ResolveHolds, run
<1>2. /\ block[c] = Malformed =>
           UNCHANGED <<block, base, conflict>> /\ settled' = settled \ replaced
      /\ block[c] # Malformed =>
           /\ block' = [block EXCEPT ![c] = Composed(c)']
           /\ base' = [base EXCEPT !.rules[c] = Composed(c)']
           /\ conflict' = [conflict EXCEPT ![RulesOf(c)] = NoConflict]
           /\ settled' = (settled \cup {RulesOf(c)}) \ replaced
  BY DEF ResolveRules
<1>3. /\ TypeOK /\ SettledInv
      /\ own \in [Client -> Seq(Texts)] /\ block \in [Client -> Seq(Texts) \cup {Unmarked, Malformed}]
      /\ conflict \in [Object -> [client : Client \cup {"none"}, text : Seq(Texts)]]
      /\ shared \in Seq(Texts) /\ base \in State /\ settled \subseteq Object
      /\ ~Started /\ ~Started'
  BY <1>1, Types DEF IInv, TypeOK, ResolveHolds, Started
<1>4. /\ \A d \in Client : RulesOf(d) \in Object /\ (RulesOf(d) = RulesOf(c) => d = c)
      /\ \A d \in Client : RulesOf(d) \notin {"mcp", "skill"}
      /\ take = "ptw" \/ take \in Client
      /\ "ptw" \notin Client
  BY DEF RulesOf, Client, Object, Place
<1>5. text \in Seq(Texts)
  BY <1>3, <1>4
<1> HIDE DEF text
<1>6. own' \in [Client -> Seq(Texts)] /\ \A d \in Client \ {take} : own'[d] = own[d]
  BY <1>1, <1>3, <1>4, <1>5, OverrideIs
<1>7. \A d \in Client : RulesOf(d) \in replaced <=> d = take /\ d # c
  BY <1>4 DEF RulesOf, Client
<1> HIDE DEF replaced
<1>8. \A d \in Client : /\ Composed(d)' \in Seq(Texts)
                        /\ d # take => Composed(d)' = Composed(d)
  BY <1>1, <1>3, <1>6 DEF Composed
<1>9. PICK t \in Seq(Texts) : t = Composed(c)'
  BY <1>8
<1>10. /\ block' \in [Client -> Seq(Texts) \cup {Unmarked, Malformed}]
       /\ \A d \in Client \ {c} : block'[d] = block[d]
       /\ block[c] # Malformed => block'[c] = t
  BY <1>2, <1>3, <1>9
<1>11. /\ base' \in State /\ base'.mcp = base.mcp /\ base'.skill = base.skill
       /\ \A d \in Client \ {c} : base'.rules[d] = base.rules[d]
       /\ block[c] # Malformed => base'.rules[c] = t
  <2>1. CASE block[c] = Malformed
    BY <1>2, <1>3, <2>1
  <2>2. CASE block[c] # Malformed
    <3>1. base' = [base EXCEPT !.rules[c] = t]
      BY <1>2, <1>9, <2>2
    <3> QED
      BY <1>3, <3>1 DEF State
  <2> QED
    BY <2>1, <2>2
<1>12. /\ conflict' \in [Object -> [client : Client \cup {"none"}, text : Seq(Texts)]]
       /\ \A o \in Object : conflict'[o] = conflict[o] \/ conflict'[o] = NoConflict
       /\ block[c] # Malformed => conflict'[RulesOf(c)] = NoConflict
  <2> DEFINE Records == [client : Client \cup {"none"}, text : Seq(Texts)]
  <2>1. NoConflict \in Records
    BY Markers DEF NoConflict
  <2>2. conflict \in [Object -> Records] /\ RulesOf(c) \in Object
    BY <1>3, <1>4
  <2> HIDE DEF Records
  <2>3. CASE block[c] = Malformed
    <3>1. conflict' = conflict
      BY <1>2, <2>3
    <3> QED
      BY <2>2, <2>3, <3>1 DEF Records
  <2>4. CASE block[c] # Malformed
    <3>1. conflict' = [conflict EXCEPT ![RulesOf(c)] = NoConflict]
      BY <1>2, <2>4
    <3>2. conflict' \in [Object -> Records]
      BY <2>1, <2>2, <3>1
    <3> QED
      BY <2>2, <3>1, <3>2 DEF Records
  <2> QED
    BY <2>3, <2>4
<1>13. settled' \subseteq settled \cup {RulesOf(c)} /\ settled' \subseteq Object
       /\ (block[c] = Malformed => settled' \subseteq settled)
       /\ settled' \cap replaced = {}
  BY <1>2, <1>3, <1>4
<1>14. RulesOf(c) \notin settled
  BY <1>1, <1>3 DEF SettledInv
<1>15. SettledInv'
  <2>1. McpSettled' /\ SkillSettled'
    BY <1>1, <1>3, <1>4, <1>11, <1>13 DEF SettledInv, McpSettled, SkillSettled, TreeAt
  <2>2. RulesSettled(c)'
    <3> SUFFICES ASSUME RulesOf(c) \in settled' PROVE RulesSettled(c)'
      BY DEF RulesSettled
    <3>1. block[c] # Malformed
      BY <1>13, <1>14
    <3> QED
      BY <1>3, <1>9, <1>10, <1>11, <3>1, Markers DEF RulesSettled
  <2>3. ASSUME NEW d \in Client \ {c}, RulesOf(d) \in settled'
        PROVE  RulesSettled(d)'
    <3>1. d # take /\ RulesOf(d) \in settled
      BY <1>4, <1>7, <1>13, <2>3
    <3>2. base.rules[d] # Never /\ block[d] \in {base.rules[d], Composed(d)}
      BY <1>3, <3>1 DEF SettledInv, RulesSettled
    <3> QED
      BY <1>3, <1>8, <1>10, <1>11, <3>1, <3>2 DEF RulesSettled
  <2>4. \A d \in Client : RulesSettled(d)'
    BY <2>2, <2>3 DEF RulesSettled
  <2>5. \A o \in settled' : conflict'[o] = NoConflict
    BY <1>3, <1>12, <1>13, <1>14 DEF SettledInv
  <2> QED
    BY <1>3, <2>1, <2>4, <2>5 DEF SettledInv
<1>16. /\ mcp' \in [Place -> Entries] /\ skill' \in [Place -> Tree \cup {NoTree, "link"}]
       /\ skill'["ptw"] # "link" /\ shared' = shared
  BY <1>1, <1>3 DEF TypeOK
<1> QED
  BY <1>1, <1>6, <1>10, <1>11, <1>12, <1>13, <1>15, <1>16, ResolveTypes

LEMMA ResolveSkillStep ==
  ASSUME IInv, NEW take \in Place, ResolveSkill(take)
  PROVE  IInv'
<1>1. /\ ResolveHolds /\ conflict["skill"] # NoConflict
      /\ IF take = "ptw" THEN skill["ptw"] # NoTree ELSE TreeAt(take) # NoTree
      /\ UNCHANGED <<mcp, shared, own, block>>
  BY DEF ResolveSkill, Settle, ResolveFrame, ResolveHolds, run
<1>2. /\ TypeOK /\ SettledInv /\ base \in State /\ settled \subseteq Object
      /\ mcp \in [Place -> Entries] /\ own \in [Client -> Seq(Texts)]
      /\ block \in [Client -> Seq(Texts) \cup {Unmarked, Malformed}]
      /\ conflict \in [Object -> [client : Client \cup {"none"}, text : Seq(Texts)]]
      /\ ~Started /\ ~Started' /\ "skill" \in Object
  BY <1>1 DEF IInv, TypeOK, ResolveHolds, Started, Object
<1>3. "skill" \notin settled
  BY <1>1, <1>2 DEF SettledInv
<1>4. /\ skill \in [Place -> Tree \cup {NoTree, "link"}] /\ skill["ptw"] # "link" /\ "ptw" \in Place
  BY <1>2, TreesAre DEF TypeOK
<1>5. CASE skill[take] = "link"
  <2>1. /\ skill' = [skill EXCEPT !["ptw"] = NoTree] /\ UNCHANGED <<base, conflict, settled>>
    BY <1>5 DEF ResolveSkill
  <2>2. skill' \in [Place -> Tree \cup {NoTree, "link"}] /\ skill'["ptw"] # "link"
    BY <1>4, <2>1, Markers
  <2>3. SettledInv'
    BY <1>1, <1>2, <1>3, <2>1 DEF SettledInv, McpSettled, RulesSettled, SkillSettled, Composed
  <2> QED
    BY <1>1, <1>2, <2>1, <2>2, <2>3, ResolveTypes
<1>6. CASE skill[take] # "link"
  <2>1. /\ skill' = IF take # "ptw" THEN Pulled(take)
                    ELSE [x \in Place |-> IF x = "ptw" THEN skill[x] ELSE Installed]
        /\ base' = [base EXCEPT !.skill = [x \in Place |-> skill[take]]]
        /\ conflict' = [conflict EXCEPT !["skill"] = NoConflict] /\ settled' = settled \cup {"skill"}
    BY <1>6 DEF ResolveSkill, Settle
  <2>2. skill[take] \in Tree
    BY <1>1, <1>4, <1>6 DEF TreeAt
  <2>3. /\ skill' \in [Place -> Tree \cup {NoTree, "link"}] /\ skill'["ptw"] = skill[take]
        /\ \A c \in Client : skill'[c] = skill[take] \/ skill'[c] = "link"
    <3>1. CASE take = "ptw"
      BY <1>2, <1>4, <2>1, <3>1, TreesAre DEF Installed
    <3>2. CASE take # "ptw"
      <4>1. take \in Client
        BY <3>2 DEF Place
      <4> QED
        BY <1>2, <1>6, <2>1, <3>2, <4>1, PulledIs
    <3> QED
      BY <3>1, <3>2
  <2>4. /\ base' \in State /\ base'.mcp = base.mcp /\ base'.rules = base.rules
        /\ \A x \in Place : base'.skill[x] = skill[take]
    <3>1. PICK t \in Tree : t = skill[take]
      BY <2>2
    <3>2. base' = [base EXCEPT !.skill = [x \in Place |-> t]]
      BY <2>1, <3>1
    <3> QED
      BY <1>2, <3>1, <3>2 DEF State
  <2>5. /\ conflict' \in [Object -> [client : Client \cup {"none"}, text : Seq(Texts)]]
        /\ \A o \in Object : conflict'[o] = IF o = "skill" THEN NoConflict ELSE conflict[o]
    <3>1. NoConflict \in [client : Client \cup {"none"}, text : Seq(Texts)]
      BY Markers DEF NoConflict
    <3> QED
      BY <1>2, <2>1, <3>1
  <2>6. SettledInv'
    <3>1. SkillSettled'
      BY <1>2, <2>2, <2>3, <2>4, Markers DEF SkillSettled, TreeAt
    <3>2. McpSettled' /\ \A c \in Client : RulesSettled(c)'
      BY <1>1, <1>2, <2>1, <2>4 DEF SettledInv, McpSettled, RulesSettled, Composed, RulesOf
    <3>3. \A o \in settled' : conflict'[o] = NoConflict
      BY <1>2, <2>1, <2>5 DEF SettledInv
    <3> QED
      BY <1>2, <3>1, <3>2, <3>3 DEF SettledInv
  <2> QED
    BY <1>1, <1>2, <2>1, <2>2, <2>3, <2>4, <2>5, <2>6, ResolveTypes, Markers
<1> QED
  BY <1>5, <1>6

---------------------------------------------------------------------------------
(* The user and the clients. *)

LEMMA EditStep == IInv /\ Edit => IInv'
<1> SUFFICES ASSUME IInv, Edit PROVE IInv'
  OBVIOUS
<1>1. /\ events < MaxEvents /\ events' = events + 1 /\ quiet' = 0 /\ calm' = FALSE /\ settled' = {}
      /\ UNCHANGED <<link, base, conflict, exit, pc, st, srv, cl, out, tree, div>>
  BY DEF Edit, Edited, Event, run
<1>2. /\ TypeOK /\ mcp \in [Place -> Entries] /\ own \in [Client -> Seq(Texts)]
      /\ shared \in {<<t>> : t \in Texts} /\ shared \in Seq(Texts)
      /\ block \in [Client -> Seq(Texts) \cup {Unmarked, Malformed}]
      /\ skill \in [Place -> Tree \cup {NoTree, "link"}] /\ skill["ptw"] # "link"
  BY Types DEF IInv, TypeOK
<1>3. /\ mcp' \in [Place -> Entries] /\ own' \in [Client -> Seq(Texts)]
      /\ shared' \in {<<t>> : t \in Texts}
      /\ block' \in [Client -> Seq(Texts) \cup {Unmarked, Malformed}]
      /\ skill' \in [Place -> Tree \cup {NoTree, "link"}] /\ skill'["ptw"] # "link"
  <2>1. CASE EditMcp
    BY <1>2, <2>1 DEF EditMcp, Entries
  <2>2. CASE EditShared
    BY <1>2, <2>2 DEF EditShared
  <2>3. CASE EditOwn
    <3>1. PICK c \in Client, t \in Texts : own' = [own EXCEPT ![c] = <<t>>]
      BY <2>3 DEF EditOwn
    <3>2. <<t>> \in Seq(Texts)
      OBVIOUS
    <3> QED
      BY <1>2, <2>3, <3>1, <3>2 DEF EditOwn
  <2>4. CASE EditBlock
    <3>1. PICK c \in Client, t \in Texts :
            \E body \in {Unmarked, Malformed, <<t>>, shared \o <<t>>} : block' = [block EXCEPT ![c] = body]
      BY <2>4 DEF EditBlock
    <3>2. <<t>> \in Seq(Texts) /\ shared \o <<t>> \in Seq(Texts)
      BY <1>2
    <3>3. PICK body \in Seq(Texts) \cup {Unmarked, Malformed} : block' = [block EXCEPT ![c] = body]
      BY <3>1, <3>2
    <3>4. block' \in [Client -> Seq(Texts) \cup {Unmarked, Malformed}]
      BY <1>2, <3>3
    <3> QED
      BY <1>2, <2>4, <3>4 DEF EditBlock
  <2>5. CASE EditSkill
    <3>1. PICK x \in Place, t \in Texts \cup {NoTree} : skill' = [skill EXCEPT ![x] = t]
      BY <2>5 DEF EditSkill
    <3>2. t \in Tree \cup {NoTree} /\ t # "link"
      BY Markers DEF Tree
    <3> QED
      BY <1>2, <2>5, <3>1, <3>2 DEF EditSkill
  <2> QED
    BY <2>1, <2>2, <2>3, <2>4, <2>5 DEF Edit
<1>4. raced' \in BOOLEAN
  <2>1. raced' = (raced \/ (pc # Idle /\ skill' # skill))
    BY DEF Edit, Edited
  <2> QED
    BY <2>1, Zenon
<1>5. events' \in 0..MaxEvents
  BY <1>1, <1>2, MaxEventsAssumption DEF TypeOK
<1>6. TypeOK'
  <2>1. /\ link' \in LinkModes /\ srv' \in Entries /\ cl' \in [Client -> Entries]
        /\ out' \in [Client -> Entries] /\ base' \in State /\ st' \in State
        /\ conflict' \in [Object -> [client : Client \cup {"none"}, text : Seq(Texts)]]
        /\ exit' \in {"none", "ok", "conflict", "failed"}
    BY <1>1, <1>2 DEF TypeOK
  <2>2. /\ pc' \in ({"merge", "write", "rules", "skill"} \X Client) \cup {Idle, <<"save", "codex">>}
        /\ tree' \in Tree \cup {NoTree} /\ div' \subseteq Object
    BY <1>1, <1>2 DEF TypeOK
  <2>3. quiet' \in 0..2 /\ settled' \subseteq Object
    BY <1>1
  <2>4. calm' \in BOOLEAN
    BY <1>1, Zenon
  <2> QED
    BY <1>3, <1>4, <1>5, <2>1, <2>2, <2>3, <2>4, Zenon DEF TypeOK
<1>7. RunInv' /\ CalmInv' /\ SettledInv'
  BY <1>1 DEF IInv, RunInv, CalmInv, SettledInv, McpSettled, RulesSettled, SkillSettled, Started
<1> QED
  BY <1>6, <1>7 DEF IInv

---------------------------------------------------------------------------------
(* The theorems. *)

LEMMA NextIInv == IInv /\ [Next]_vars => IInv'
<1> SUFFICES ASSUME IInv, [Next]_vars PROVE IInv'
  OBVIOUS
<1>1. CASE SyncStep
  BY <1>1, BeginStep, McpDeletedStep, SkillSkipStep, SaveStep, McpMergeStep, McpWriteStep,
     RulesMergeStep, SkillMergeStep, FailsStep, Zenon DEF SyncStep
<1>2. CASE Crash
  BY <1>2, CrashStep
<1>3. CASE Resolve
  BY <1>3, ResolveMcpStep, ResolveRulesStep, ResolveSkillStep, Zenon DEF Resolve
<1>4. CASE Edit
  BY <1>4, EditStep
<1>5. CASE UNCHANGED vars
  BY <1>5 DEF vars, files, run, hist, IInv, TypeOK, RunInv, CalmInv, SettledInv, McpSettled,
     RulesSettled, SkillSettled, Started, EditedEntry, TreeAt, Composed
<1> QED
  BY <1>1, <1>2, <1>3, <1>4, <1>5, Zenon DEF Next

LEMMA Invariant == Spec => []IInv
BY InitIInv, NextIInv, PTL DEF Spec

\* Every variable has its type: no sync and no resolution makes a definition or a text of
\* what is none.
THEOREM TypeCorrect == Spec => []TypeOK
<1>1. IInv => TypeOK
  BY DEF IInv
<1> QED
  BY <1>1, Invariant, PTL

\* What was edited since state.json was last saved is not replaced by a sync that nobody
\* disturbs, whatever earlier syncs were cut short.
THEOREM EditsSurvive == Spec => EditsSurviveSync
<1> DEFINE Survives ==
      /\ \A x \in Place : EditedEntry(x) => mcp'[x].def = mcp[x].def
      /\ \A c \in Client : EditedBlock(c) => IsSuffix(Override(block[c]), block'[c])
      /\ EditedCanonical => skill'["ptw"] = skill["ptw"]
<1>1. ASSUME IInv, SyncStep, calm'
      PROVE  Survives
  <2>1. TypeOK /\ RunInv /\ CalmInv
    BY <1>1 DEF IInv
  <2>2. UNCHANGED mcp \/ \E c \in Client : McpMerge(c) \/ McpWrite(c)
    BY <1>1 DEF SyncStep, Begin, McpDeleted, SkillSkip, Save, RulesMerge, SkillMerge, PullFails,
       PushFails, Stop, files
  <2>3. UNCHANGED block \/ \E c \in Client : RulesMerge(c)
    BY <1>1 DEF SyncStep, Begin, McpDeleted, SkillSkip, Save, McpMerge, McpWrite, SkillMerge,
       PullFails, PushFails, Stop, files
  <2>4. UNCHANGED skill \/ \E c \in Client : SkillMerge(c) \/ PullFails(c) \/ PushFails(c)
    BY <1>1 DEF SyncStep, Begin, McpDeleted, SkillSkip, Save, McpMerge, McpWrite, RulesMerge, files
  <2>5. ASSUME NEW c \in Client, McpMerge(c), NEW x \in Place, EditedEntry(x)
        PROVE  mcp'[x].def = mcp[x].def
    <3>1. pc = <<"merge", c>> /\ calm /\ mcp \in [Place -> Entries]
      BY <1>1, <2>1, <2>5 DEF McpMerge, At, hist, TypeOK
    <3>2. srv = mcp["ptw"] /\ st.mcp = base.mcp
      BY <2>1, <3>1 DEF CalmInv, RunInv, Started, Idle
    <3>3. McpPull(c) => x # "ptw"
      BY <2>5, <3>2 DEF McpPull, PtwChanged, EditedEntry
    <3>4. /\ McpPull(c) => mcp' = [mcp EXCEPT !["ptw"] = Adopted(c)]
          /\ ~McpPull(c) => mcp' = mcp
      BY <2>5 DEF McpMerge
    <3> QED
      BY <3>1, <3>3, <3>4
  <2>6. ASSUME NEW c \in Client, McpWrite(c), NEW x \in Place, EditedEntry(x)
        PROVE  mcp'[x].def = mcp[x].def
    <3>1. pc = <<"write", c>> /\ calm /\ mcp \in [Place -> Entries]
      BY <1>1, <2>1, <2>6 DEF McpWrite, At, hist, TypeOK
    <3>2. out[c] # NoServer /\ EditedEntry(c) => out[c].def = mcp[c].def
      BY <2>1, <3>1 DEF CalmInv, Started, Idle
    <3> QED
      BY <2>6, <3>1, <3>2 DEF McpWrite
  <2>7. ASSUME NEW c \in Client, EditedBlock(c)
        PROVE  IsSuffix(Override(block[c]), block'[c])
    <3>1. /\ block[c] \in Seq(Texts) /\ base.rules[c] # Never /\ block[c] # base.rules[c]
          /\ block[c] \notin {Unmarked, Malformed}
      BY <2>1, <2>7, Types DEF EditedBlock
    <3>2. Override(block[c]) \in Seq(Texts) /\ IsSuffix(Override(block[c]), block[c])
      BY <2>1, <3>1, OverrideIs
    <3>3. CASE block'[c] = block[c]
      BY <3>2, <3>3
    <3>4. CASE block'[c] # block[c]
      <4>1. PICK d \in Client : RulesMerge(d)
        BY <2>3, <3>4
      <4>2. /\ pc = <<"rules", d>> /\ UNCHANGED shared
            /\ block' = IF RulesPush(d) \/ RulesPull(d) THEN [block EXCEPT ![d] = Composed(d)'] ELSE block
            /\ own' = IF RulesPull(d) THEN [own EXCEPT ![d] = Override(Body(d))] ELSE own
        BY <4>1 DEF RulesMerge, At
      <4>3. block \in [Client -> Seq(Texts) \cup {Unmarked, Malformed}] /\ own \in [Client -> Seq(Texts)]
        BY <2>1 DEF TypeOK
      <4>4. c = d /\ (RulesPush(c) \/ RulesPull(c)) /\ block'[c] = Composed(c)'
        BY <3>4, <4>2, <4>3
      <4>5. st.rules[c] = base.rules[c]
        BY <2>1, <4>2, <4>4 DEF RunInv, Started, Idle, Client
      <4>6. RulesPull(c)
        BY <3>1, <3>4, <4>2, <4>4, <4>5 DEF RulesPush, Composed
      <4>7. own'[c] = Override(block[c])
        BY <3>1, <4>2, <4>3, <4>4, <4>6 DEF Body
      <4>8. block'[c] = shared \o Override(block[c])
        BY <4>2, <4>4, <4>7 DEF Composed
      <4> QED
        BY <2>1, <3>2, <4>8, SuffixOfConcat, Types
    <3> QED
      BY <3>3, <3>4
  <2>8. ASSUME EditedCanonical
        PROVE  skill'["ptw"] = skill["ptw"]
    <3>1. ASSUME NEW c \in Client, SkillMerge(c) \/ PullFails(c) \/ PushFails(c)
          PROVE  skill'["ptw"] = skill["ptw"]
      <4>1. pc = <<"skill", c>> /\ calm
        BY <1>1, <3>1 DEF SkillMerge, PullFails, PushFails, At, Stop, hist
      <4>2. SkillHash(c) = skill["ptw"] /\ st.skill = base.skill
        BY <2>1, <4>1 DEF CalmInv, RunInv, Started, Idle, SkillHash, Client
      <4>3. ~SkillPull(c)
        BY <2>8, <4>2 DEF SkillPull, EditedCanonical
      <4>4. skill' = skill \/ \E t : skill' = [skill EXCEPT ![c] = t]
        BY <3>1, <4>3 DEF SkillMerge, PullFails, PushFails
      <4> QED
        BY <2>1, <4>4, TreesAre
    <3> QED
      BY <2>4, <3>1
  <2> QED
    BY <2>2, <2>5, <2>6, <2>7, <2>8
<1>2. IInv /\ [Next]_vars => [SyncStep /\ calm' => Survives]_vars
  BY <1>1
<1> QED
  BY <1>2, Invariant, PTL DEF Spec, EditsSurviveSync

\* A conflict that has been resolved stays so, in however many syncs, crashes and
\* resolutions of other objects, until somebody edits.
THEOREM ResolvedStays == Spec => ResolveSettles
<1>1. ASSUME IInv, IInv', Next, NEW o \in settled
      PROVE  conflict'[o] = NoConflict
  <2>1. CASE o \in settled'
    BY <1>1, <2>1 DEF IInv, SettledInv
  <2>2. CASE o \notin settled'
    <3>1. Edit \/ \E c \in Client, take \in Place : ResolveRules(c, take)
      BY <1>1, <2>2, Zenon DEF Next, SyncStep, Begin, McpDeleted, SkillSkip, Save, McpMerge, McpWrite,
         RulesMerge, SkillMerge, PullFails, PushFails, Crash, Stop, hist, Resolve, ResolveMcp,
         ResolveSkill, Settle
    <3>2. conflict[o] = NoConflict /\ conflict \in [Object -> [client : Client \cup {"none"}, text : Seq(Texts)]]
          /\ o \in Object
      BY <1>1 DEF IInv, SettledInv, TypeOK
    <3>3. CASE Edit
      BY <3>2, <3>3 DEF Edit, Edited
    <3>4. ASSUME NEW c \in Client, NEW take \in Place, ResolveRules(c, take)
          PROVE  conflict'[o] = NoConflict
      <4>1. conflict' = conflict \/ conflict' = [conflict EXCEPT ![RulesOf(c)] = NoConflict]
        BY <3>4 DEF ResolveRules
      <4> QED
        BY <3>2, <4>1
    <3> QED
      BY <3>1, <3>3, <3>4
  <2> QED
    BY <2>1, <2>2
<1>2. ASSUME IInv, UNCHANGED vars, NEW o \in settled
      PROVE  conflict'[o] = NoConflict
  BY <1>2 DEF IInv, SettledInv, vars
<1>3. IInv /\ IInv' /\ [Next]_vars => [\A o \in settled : conflict'[o] = NoConflict]_vars
  BY <1>1, <1>2
<1> QED
  BY <1>3, Invariant, PTL DEF Spec, ResolveSettles

---------------------------------------------------------------------------------
(* Two syncs in a row that nobody disturbs. *)

\* What state.json, or a copy of it, has of the servers and skills was the same at all places.
EvenMcp(s) == \A x \in Place : s.mcp[x] = s.mcp["ptw"]
EvenSkill(s) == \A c \in Client : s.skill[c] \in {s.skill["ptw"], NoTree}

\* A client's entry agrees with the home, or will after it is written; or both were
\* changed, and will be in conflict in every sync until somebody does something.
InLine(c) == mcp[c] \in {NoServer, mcp["ptw"]}
Bound(c) == out[c] \in {NoServer, mcp["ptw"]} /\ (out[c] = NoServer => InLine(c))
Stuck(s, c) ==
  /\ mcp["ptw"] # NoServer /\ mcp[c] # mcp["ptw"]
  /\ IF s.mcp["ptw"] = NoServer THEN mcp[c] # NoServer
     ELSE mcp["ptw"] # s.mcp["ptw"] /\ mcp[c] # s.mcp["ptw"]
Recorded(s) == \A x \in Place : s.mcp[x] = mcp["ptw"]

\* One such sync leaves agy in line and everything recorded, or a conflict. A second one
\* gets Codex in line.
Later == pc[1] \in {"write", "rules", "skill", "save"}
McpMerging == calm /\ pc[1] = "merge" =>
  /\ out["agy"] = NoServer
  /\ pc[2] = "codex" => "mcp" \notin div /\ out["codex"] = NoServer
  /\ "mcp" \in div => out["codex"] = NoServer /\ Stuck(st, "codex")
McpMerged == calm /\ Later =>
  /\ "mcp" \in div => \E c \in Client : out[c] = NoServer /\ Stuck(st, c)
  /\ "mcp" \in div \/ mcp["ptw"] = NoServer \/ (Recorded(st) /\ Bound("agy"))
  /\ pc # <<"write", "codex">> => out["codex"] \in {NoServer, mcp["codex"]}
  /\ pc[1] # "write" => out["agy"] \in {NoServer, mcp["agy"]}
McpQuiet == quiet >= 1 =>
  /\ ~Started \/ pc = <<"merge", "codex">> =>
       \/ mcp["ptw"] = NoServer
       \/ \E c \in Client : Stuck(base, c)
       \/ Recorded(base) /\ InLine("agy")
  /\ pc = <<"merge", "agy">> /\ "mcp" \notin div =>
       \/ McpDiverged("agy")
       \/ ~FirstSync /\ cl["agy"] \in {NoServer, st.mcp["ptw"]} /\ Bound("codex")
  /\ Later => "mcp" \in div \/ mcp["ptw"] = NoServer \/ Bound("codex")
McpEnds == quiet = 2 /\ ~Started /\ exit = "ok" /\ mcp["ptw"] # NoServer =>
  Recorded(base) /\ \A c \in Client : InLine(c)
McpConv == EvenMcp(base) /\ (Started => EvenMcp(st)) /\ McpMerging /\ McpMerged /\ McpQuiet /\ McpEnds

\* Rules are in line after one.
RulesDone(c) == RulesOf(c) \in div \/ (block[c] = Composed(c) /\ st.rules[c] = Composed(c))
RulesConv ==
  /\ calm /\ pc = <<"rules", "agy">> => RulesDone("codex")
  /\ calm /\ pc[1] \in {"skill", "save"} => \A c \in Client : RulesDone(c)
  /\ quiet >= 1 /\ ~Started /\ exit = "ok" =>
       \A c \in Client : block[c] = Composed(c) /\ base.rules[c] = Composed(c)

\* Skills are after one, but for those deleted at the client, which the second one renews.
Past(c) == pc[1] = "save" \/ (pc[1] = "skill" /\ pc[2] # c /\ c = "codex")
Split(c) ==
  /\ skill["ptw"] # NoTree /\ TreeAt(c) \notin {NoTree, skill["ptw"]}
  /\ base.skill["ptw"] # NoTree => skill["ptw"] # base.skill["ptw"] /\ TreeAt(c) # base.skill[c]
SkillSteps ==
  /\ pc[1] \in {"merge", "write", "rules"} \/ pc = <<"skill", "codex">> => "skill" \notin div
  /\ pc = <<"skill", "agy">> \/ pc[1] = "save" => tree = skill["ptw"]
  /\ Started /\ "skill" \in div => \E c \in Client : Past(c) /\ Split(c)
  /\ Started /\ "skill" \notin div /\ skill["ptw"] # NoTree =>
       \A c \in Client : Past(c) => \/ TreeAt(c) = skill["ptw"]
                                    \/ TreeAt(c) = NoTree /\ base.skill[c] # NoTree
SkillQuiet == quiet >= 1 =>
  \/ skill["ptw"] = NoTree
  \/ \E c \in Client : Split(c)
  \/ /\ skill["ptw"] = base.skill["ptw"]
     /\ \A c \in Client : TreeAt(c) = IF Past(c) THEN skill["ptw"] ELSE base.skill[c]
SkillEnds == quiet = 2 /\ ~Started /\ exit = "ok" /\ skill["ptw"] # NoTree =>
  \A x \in Place : TreeAt(x) = skill["ptw"] /\ base.skill[x] = skill["ptw"]
SkillConv == ~raced => EvenSkill(base) /\ SkillSteps /\ SkillQuiet /\ SkillEnds

QuietInv ==
  /\ quiet >= 1 /\ Started => calm
  /\ McpConv /\ RulesConv /\ SkillConv

LEMMA InitQuiet == Init => QuietInv
<1> SUFFICES ASSUME Init PROVE QuietInv
  OBVIOUS
<1>1. /\ pc = Idle /\ quiet = 0 /\ ~calm /\ base = NeverSynced
  BY DEF Init
<1>2. EvenMcp(base) /\ EvenSkill(base) /\ ~Started /\ ~Later /\ pc[1] = "idle"
  BY <1>1 DEF EvenMcp, EvenSkill, NeverSynced, Started, Later, Idle, Place, Client
<1>3. McpConv
  BY <1>1, <1>2 DEF McpConv, McpMerging, McpMerged, McpQuiet, McpEnds
<1>4. RulesConv /\ SkillConv
  BY <1>1, <1>2 DEF RulesConv, SkillConv, SkillSteps, SkillQuiet, SkillEnds, Idle
<1> QED
  BY <1>1, <1>2, <1>3, <1>4 DEF QuietInv

\* What stops a sync or happens between two starts the count again.
LEMMA AfreshIs ==
  ASSUME pc' = Idle, quiet' = 0, EvenMcp(base)', ~raced' => EvenSkill(base)'
  PROVE  QuietInv'
<1>1. ~Started' /\ ~Later' /\ pc'[1] = "idle" /\ pc' # <<"rules", "agy">> /\ pc' # <<"skill", "agy">>
      /\ pc' # <<"skill", "codex">>
  BY DEF Started, Later, Idle
<1>2. McpConv'
  BY <1>1 DEF McpConv, McpMerging, McpMerged, McpQuiet, McpEnds
<1>3. RulesConv' /\ SkillConv'
  BY <1>1 DEF RulesConv, SkillConv, SkillSteps, SkillQuiet, SkillEnds
<1> QED
  BY <1>1, <1>2, <1>3 DEF QuietInv

LEMMA StopQuiet == QuietInv /\ Stop => QuietInv'
<1> SUFFICES ASSUME QuietInv, Stop PROVE QuietInv'
  OBVIOUS
<1>1. pc' = Idle /\ quiet' = 0 /\ UNCHANGED <<base, raced>>
  BY DEF Stop
<1>2. EvenMcp(base)' /\ (~raced' => EvenSkill(base)')
  BY <1>1 DEF QuietInv, McpConv, SkillConv, EvenMcp, EvenSkill
<1> QED
  BY <1>1, <1>2, AfreshIs

LEMMA ResolveQuiet == IInv /\ QuietInv /\ Resolve => QuietInv'
<1> SUFFICES ASSUME IInv, QuietInv, NEW take \in Place,
                    \/ ResolveMcp(take)
                    \/ \E c \in Client : ResolveRules(c, take)
                    \/ ResolveSkill(take)
             PROVE  QuietInv'
  BY DEF Resolve
<1>1. pc' = Idle /\ quiet' = 0 /\ raced' = raced
  BY DEF ResolveMcp, ResolveRules, ResolveSkill, Settle, ResolveFrame, run
<1>2. base \in State /\ EvenMcp(base) /\ (~raced => EvenSkill(base)) /\ "ptw" \in Place /\ Client \subseteq Place
  BY DEF IInv, TypeOK, QuietInv, McpConv, SkillConv, Place, Client
<1>3. CASE ResolveMcp(take)
  <2>1. PICK chosen : base' = [base EXCEPT !.mcp = [x \in Place |-> chosen]]
    BY <1>3 DEF ResolveMcp
  <2>2. base'.skill = base.skill /\ \A x \in Place : base'.mcp[x] = chosen
    BY <1>2, <2>1 DEF State
  <2>3. EvenMcp(base)' /\ (~raced' => EvenSkill(base)')
    BY <1>1, <1>2, <2>2 DEF EvenMcp, EvenSkill
  <2> QED
    BY <1>1, <2>3, AfreshIs
<1>4. ASSUME NEW c \in Client, ResolveRules(c, take)
      PROVE  QuietInv'
  <2>1. base' = base \/ \E t : base' = [base EXCEPT !.rules[c] = t]
    BY <1>4 DEF ResolveRules
  <2>2. base'.skill = base.skill /\ base'.mcp = base.mcp
    BY <1>2, <2>1 DEF State
  <2>3. EvenMcp(base)' /\ (~raced' => EvenSkill(base)')
    BY <1>1, <1>2, <2>2 DEF EvenMcp, EvenSkill
  <2> QED
    BY <1>1, <2>3, AfreshIs
<1>5. CASE ResolveSkill(take)
  <2>1. base' = base \/ \E t : base' = [base EXCEPT !.skill = [x \in Place |-> t]]
    BY <1>5 DEF ResolveSkill
  <2>2. CASE base' = base
    <3>1. EvenMcp(base)' /\ (~raced' => EvenSkill(base)')
      BY <1>1, <1>2, <2>2 DEF EvenMcp, EvenSkill
    <3> QED
      BY <1>1, <3>1, AfreshIs
  <2>3. ASSUME NEW t, base' = [base EXCEPT !.skill = [x \in Place |-> t]]
        PROVE  QuietInv'
    <3>1. base'.mcp = base.mcp /\ \A x \in Place : base'.skill[x] = t
      BY <1>2, <2>3 DEF State
    <3>2. EvenMcp(base)' /\ (~raced' => EvenSkill(base)')
      BY <1>2, <3>1 DEF EvenMcp, EvenSkill
    <3> QED
      BY <1>1, <3>2, AfreshIs
  <2> QED
    BY <2>1, <2>2, <2>3
<1> QED
  BY <1>3, <1>4, <1>5

\* An edit during a sync: it is not quiet any more, and what it has recorded stays.
LEMMA EditQuiet == IInv /\ QuietInv /\ Edit => QuietInv'
<1> SUFFICES ASSUME IInv, QuietInv, Edit PROVE QuietInv'
  OBVIOUS
<1>1. /\ quiet' = 0 /\ ~calm' /\ raced' = (raced \/ (pc # Idle /\ skill' # skill))
      /\ UNCHANGED <<link, base, conflict, exit, pc, st, srv, cl, out, tree, div>>
  BY DEF Edit, Edited, run
<1>2. McpConv'
  BY <1>1 DEF QuietInv, McpConv, EvenMcp, Started, McpMerging, McpMerged, McpQuiet, McpEnds
<1>3. RulesConv'
  BY <1>1 DEF RulesConv
<1>4. SkillConv'
  <2> SUFFICES ASSUME ~raced' PROVE EvenSkill(base)' /\ SkillSteps'
    BY <1>1 DEF SkillConv, SkillQuiet, SkillEnds
  <2>1. ~raced /\ (pc = Idle \/ skill' = skill)
    BY <1>1
  <2>2. EvenSkill(base) /\ SkillSteps
    BY <2>1 DEF QuietInv, SkillConv
  <2>3. CASE pc = Idle
    BY <1>1, <2>2, <2>3 DEF EvenSkill, SkillSteps, Started, Idle
  <2>4. CASE skill' = skill
    BY <1>1, <2>2, <2>4 DEF EvenSkill, SkillSteps, Started, Past, Split, TreeAt
  <2> QED
    BY <2>1, <2>3, <2>4
<1> QED
  BY <1>1, <1>2, <1>3, <1>4 DEF QuietInv

LEMMA BeginQuiet == QuietInv /\ Begin => QuietInv'
<1> SUFFICES ASSUME QuietInv, Begin PROVE QuietInv'
  OBVIOUS
<1>1. /\ pc = Idle /\ pc' = <<"merge", "codex">> /\ st' = base /\ srv' = mcp["ptw"]
      /\ cl' = [c \in Client |-> mcp[c]] /\ out' = [c \in Client |-> NoServer]
      /\ tree' = NoTree /\ div' = {} /\ calm' = TRUE
      /\ UNCHANGED <<link, mcp, shared, own, block, skill, base, conflict, exit, events, quiet, settled, raced>>
  BY DEF Begin, files
<1>2. ~Started /\ Started' /\ ~Later' /\ pc'[1] = "merge" /\ pc'[2] = "codex" /\ pc[1] = "idle"
  BY <1>1 DEF Started, Later, Idle
<1>3. McpConv'
  <2>1. EvenMcp(base)' /\ EvenMcp(st)'
    BY <1>1 DEF QuietInv, McpConv, EvenMcp
  <2>2. McpMerging' /\ McpMerged' /\ McpEnds'
    BY <1>1, <1>2 DEF McpMerging, McpMerged, McpEnds, Client
  <2>3. McpQuiet'
    BY <1>1, <1>2 DEF QuietInv, McpConv, McpQuiet, Stuck, Recorded, InLine
  <2> QED
    BY <2>1, <2>2, <2>3 DEF McpConv
<1>4. RulesConv'
  BY <1>1, <1>2 DEF RulesConv
<1>5. SkillConv'
  <2> SUFFICES ASSUME ~raced PROVE EvenSkill(base)' /\ SkillSteps' /\ SkillQuiet'
    BY <1>1, <1>2 DEF SkillConv, SkillEnds
  <2>1. EvenSkill(base) /\ SkillQuiet
    BY DEF QuietInv, SkillConv
  <2>2. \A c \in Client : ~Past(c) /\ ~Past(c)'
    BY <1>1, <1>2 DEF Past
  <2> QED
    BY <1>1, <1>2, <2>1, <2>2 DEF EvenSkill, SkillSteps, SkillQuiet, Split, TreeAt
<1> QED
  BY <1>1, <1>3, <1>4, <1>5 DEF QuietInv

\* A report concerns no other object.
LEMMA OthersAreNotReported ==
  ASSUME NEW o, NEW c, NEW t, Report(o, c, t) \/ NoReport
  PROVE  \A p : p # o => (p \in div' <=> p \in div)
BY DEF Report, NoReport

LEMMA McpMergeQuiet ==
  ASSUME IInv, QuietInv, NEW c \in Client, McpMerge(c)
  PROVE  McpConv'
<1>1. /\ pc = <<"merge", c>> /\ srv # NoServer /\ pc' = Follow("merge", c)
      /\ McpPull(c) => srv' = Adopted(c) /\ mcp' = [mcp EXCEPT !["ptw"] = Adopted(c)]
                       /\ out' = [out EXCEPT ![c] = Adopted(c)]
      /\ ~McpPull(c) => srv' = srv /\ mcp' = mcp
                        /\ out' = IF McpPush(c) THEN [out EXCEPT ![c] = srv] ELSE out
      /\ McpDiverged(c) => div' = div \cup {"mcp"}
      /\ ~McpDiverged(c) => div' = div
      /\ st' = IF c = "agy" THEN [st EXCEPT !.mcp = McpBase(srv', div')] ELSE st
      /\ UNCHANGED <<base, exit, cl, quiet, calm>>
  BY DEF McpMerge, At, Report, NoReport, hist
<1>2. /\ "ptw" \in Place /\ c # "ptw" /\ Client \subseteq Place /\ Client = {"codex", "agy"}
      /\ mcp \in [Place -> Entries] /\ out \in [Client -> Entries] /\ st \in State
  BY DEF IInv, TypeOK, Place, Client
<1>3. /\ Started /\ Started' /\ pc[1] = "merge" /\ pc[2] = c /\ ~Later
      /\ c = "codex" => pc' = <<"merge", "agy">> /\ ~Later'
      /\ c = "agy" => pc' = <<"write", "codex">> /\ Later'
  BY <1>1 DEF Started, Idle, Later, Follow, NextPhase
<1>4. /\ EvenMcp(base) /\ EvenMcp(st) /\ McpMerging /\ McpQuiet /\ (quiet >= 1 => calm)
      /\ quiet >= 1 => st.mcp = base.mcp
  BY <1>1, <1>3 DEF QuietInv, McpConv, IInv, RunInv
<1>5. \A d \in Client : st.mcp[d] = st.mcp["ptw"]
  BY <1>2, <1>4 DEF EvenMcp
<1>6. calm => srv = mcp["ptw"] /\ \A d \in Client : cl[d] = mcp[d]
  BY <1>1, <1>3 DEF IInv, CalmInv
<1>7. EvenMcp(base)'
  BY <1>1, <1>4 DEF EvenMcp
<1>8. /\ srv' = mcp'["ptw"] \/ ~calm
      /\ \A d \in Client : mcp'[d] = mcp[d] /\ (d # c => out'[d] = out[d])
      /\ out'[c] = IF McpPull(c) THEN Adopted(c) ELSE IF McpPush(c) THEN srv ELSE out[c]
  BY <1>1, <1>2, <1>6
<1>9. c = "agy" => /\ "mcp" \in div' => st'.mcp = st.mcp
                   /\ "mcp" \notin div' => \A x \in Place : st'.mcp[x] = srv'
  <2> SUFFICES ASSUME c = "agy"
               PROVE  /\ "mcp" \in div' => st'.mcp = st.mcp
                      /\ "mcp" \notin div' => \A x \in Place : st'.mcp[x] = srv'
    OBVIOUS
  <2>1. PICK m : m = McpBase(srv', div')
    OBVIOUS
  <2>2. st' = [st EXCEPT !.mcp = m]
    BY <1>1, <2>1
  <2>3. st'.mcp = m
    BY <1>2, <2>2 DEF State
  <2> QED
    BY <2>1, <2>3 DEF McpBase
<1>10. EvenMcp(st)'
  BY <1>1, <1>2, <1>4, <1>9 DEF EvenMcp
<1>11. McpEnds'
  BY <1>3 DEF McpEnds
\* A client in conflict is not written, and keeps others from being adopted.
<1>12. calm /\ McpDiverged(c) => out'[c] = out[c] /\ mcp' = mcp /\ srv' = srv /\ Stuck(st, c)
  BY <1>1, <1>5, <1>6, <1>8 DEF McpDiverged, McpPull, McpPush, FirstSync, PtwChanged, ClientChanged, Stuck
<1>13. \A d \in Client : calm /\ Stuck(st, d) => ~McpPull(c) /\ (d = c => McpDiverged(c))
  BY <1>5, <1>6 DEF McpDiverged, McpPull, FirstSync, PtwChanged, ClientChanged, Stuck
<1>14. McpPull(c) => Adopted(c) # NoServer /\ mcp'["ptw"] = Adopted(c)
  BY <1>1, <1>2, AdoptedIs DEF McpPull, IInv
<1>15. CASE c = "codex"
  <2>1. st' = st /\ pc' = <<"merge", "agy">> /\ out'["agy"] = out["agy"] /\ pc'[1] = "merge" /\ pc'[2] = "agy"
        /\ ~Later'
    BY <1>1, <1>2, <1>3, <1>8, <1>15
  <2>2. calm => "mcp" \notin div /\ out["codex"] = NoServer /\ out["agy"] = NoServer
    BY <1>3, <1>4, <1>15 DEF McpMerging
  <2>3. McpMerging'
    BY <1>1, <1>12, <1>15, <2>1, <2>2 DEF McpMerging, Stuck
  <2>4. McpMerged'
    BY <2>1 DEF McpMerged
  <2>5. McpQuiet'
    <3> SUFFICES ASSUME quiet >= 1, "mcp" \notin div'
                 PROVE  \/ McpDiverged("agy")'
                        \/ ~FirstSync' /\ cl'["agy"] \in {NoServer, st'.mcp["ptw"]} /\ Bound("codex")'
      BY <1>1, <1>3, <2>1 DEF McpQuiet
    <3>1. calm /\ st.mcp = base.mcp /\ ~McpDiverged(c) /\ mcp["ptw"] # NoServer
      BY <1>1, <1>4, <1>6
    <3>2. \/ \E d \in Client : Stuck(base, d)
          \/ Recorded(base) /\ InLine("agy")
      BY <1>1, <1>4, <1>15, <3>1 DEF McpQuiet
    <3>3. ASSUME NEW d \in Client, Stuck(base, d)
          PROVE  McpDiverged("agy")'
      <4>1. Stuck(st, d)
        BY <3>1, <3>3 DEF Stuck
      <4>2. d = "agy" /\ ~McpPull(c)
        BY <1>2, <1>13, <1>15, <3>1, <4>1
      <4>3. McpDiverged("agy")
        BY <1>2, <1>5, <1>6, <3>1, <4>1, <4>2 DEF McpDiverged, FirstSync, PtwChanged, ClientChanged, Stuck
      <4> QED
        BY <1>1, <2>1, <4>2, <4>3 DEF McpDiverged, FirstSync, PtwChanged, ClientChanged
    <3>4. CASE Recorded(base) /\ InLine("agy")
      <4>1. \A x \in Place : st.mcp[x] = mcp["ptw"]
        BY <3>1, <3>4 DEF Recorded
      <4>2. ~FirstSync /\ ~PtwChanged /\ st.mcp["codex"] = srv /\ cl["agy"] \in {NoServer, st.mcp["ptw"]}
        BY <1>2, <1>6, <3>1, <3>4, <4>1 DEF FirstSync, PtwChanged, InLine
      <4>3. Bound("codex")'
        <5>1. CASE McpPull(c)
          BY <1>1, <1>2, <1>15, <1>14, <5>1 DEF Bound
        <5>2. CASE ~McpPull(c)
          <6>1. mcp' = mcp /\ out'["codex"] = NoServer
            BY <1>1, <1>15, <2>2, <3>1, <4>2, <5>2 DEF McpPush
          <6>2. mcp["codex"] \in {NoServer, mcp["ptw"]}
            BY <1>2, <1>6, <1>15, <3>1, <4>2, <5>2 DEF McpPull, ClientChanged
          <6> QED
            BY <6>1, <6>2 DEF Bound, InLine
        <5> QED
          BY <5>1, <5>2
      <4> QED
        BY <1>1, <2>1, <4>2, <4>3 DEF FirstSync
    <3> QED
      BY <3>2, <3>3, <3>4
  <2> QED
    BY <1>7, <1>10, <1>11, <2>3, <2>4, <2>5 DEF McpConv
<1>16. CASE c = "agy"
  <2>1. /\ pc' = <<"write", "codex">> /\ pc'[1] = "write" /\ out'["codex"] = out["codex"]
        /\ mcp'["codex"] = mcp["codex"] /\ Later' /\ pc = <<"merge", "agy">>
    BY <1>1, <1>2, <1>3, <1>8, <1>16
  <2>2. McpMerging'
    BY <2>1 DEF McpMerging
  <2>3. McpMerged'
    <3> SUFFICES ASSUME calm
                 PROVE  /\ "mcp" \in div' => \E d \in Client : out'[d] = NoServer /\ Stuck(st, d)'
                        /\ "mcp" \in div' \/ mcp'["ptw"] = NoServer \/ (Recorded(st)' /\ Bound("agy")')
      BY <1>1, <2>1 DEF McpMerged
    <3>1. out["agy"] = NoServer /\ ("mcp" \in div => out["codex"] = NoServer /\ Stuck(st, "codex"))
      BY <1>3, <1>4 DEF McpMerging
    <3>2. ASSUME "mcp" \in div'
          PROVE  \E d \in Client : out'[d] = NoServer /\ Stuck(st, d)'
      <4>1. st'.mcp = st.mcp
        BY <1>9, <1>16, <3>2
      <4>2. CASE McpDiverged(c)
        BY <1>2, <1>12, <1>16, <3>1, <4>1, <4>2 DEF Stuck
      <4>3. CASE ~McpDiverged(c)
        <5>1. out["codex"] = NoServer /\ Stuck(st, "codex") /\ mcp' = mcp
          BY <1>1, <1>2, <1>13, <3>1, <3>2, <4>3
        <5> QED
          BY <1>2, <2>1, <4>1, <5>1 DEF Stuck
      <4> QED
        BY <4>2, <4>3
    <3>3. ASSUME "mcp" \notin div'
          PROVE  Recorded(st)' /\ Bound("agy")'
      <4>1. Recorded(st)'
        BY <1>8, <1>9, <1>16, <3>3 DEF Recorded
      <4>2. ~McpDiverged(c)
        BY <1>1, <3>3
      <4>3. CASE McpPull(c) \/ McpPush(c)
        BY <1>1, <1>2, <1>6, <1>8, <1>16, <1>14, <4>1, <4>3 DEF Bound
      <4>4. CASE ~McpPull(c) /\ ~McpPush(c)
        <5>1. out'["agy"] = NoServer /\ mcp' = mcp
          BY <1>1, <1>16, <3>1, <4>4
        <5>2. mcp["agy"] \in {NoServer, mcp["ptw"]}
          BY <1>2, <1>5, <1>6, <1>16, <4>2, <4>4
             DEF McpDiverged, McpPull, McpPush, FirstSync, PtwChanged, ClientChanged
        <5> QED
          BY <4>1, <5>1, <5>2 DEF Bound, InLine
      <4> QED
        BY <4>1, <4>3, <4>4
    <3> QED
      BY <3>2, <3>3
  <2>4. McpQuiet'
    <3> SUFFICES ASSUME quiet >= 1, "mcp" \notin div'
                 PROVE  Bound("codex")'
      BY <1>1, <1>3, <2>1 DEF McpQuiet
    <3>1. ~McpDiverged("agy") /\ "mcp" \notin div
      BY <1>1, <1>16
    <3>2. ~FirstSync /\ cl["agy"] \in {NoServer, st.mcp["ptw"]} /\ Bound("codex")
      BY <1>4, <2>1, <3>1 DEF McpQuiet
    <3>3. ~McpPull(c)
      BY <1>2, <1>5, <1>16, <3>2 DEF McpPull, ClientChanged
    <3> QED
      BY <1>1, <2>1, <3>2, <3>3 DEF Bound, InLine
  <2> QED
    BY <1>7, <1>10, <1>11, <2>2, <2>3, <2>4 DEF McpConv
<1> QED
  BY <1>2, <1>15, <1>16

\* What the later steps of a sync leave of this.
LEMMA McpStays ==
  ASSUME QuietInv, pc[1] \in {"rules", "skill"}, pc'[1] \in {"rules", "skill", "save"},
         UNCHANGED <<mcp, base, out, quiet, calm>>, st'.mcp = st.mcp, "mcp" \in div' <=> "mcp" \in div
  PROVE  McpConv'
<1>1. /\ Later /\ Later' /\ Started /\ Started' /\ pc[1] # "write" /\ pc'[1] \notin {"merge", "write"}
      /\ pc' # <<"write", "codex">> /\ pc # <<"write", "codex">> /\ pc'[1] # "idle" /\ pc'[1] # "merge"
      /\ pc' # <<"merge", "codex">> /\ pc' # <<"merge", "agy">>
  BY DEF Later, Started, Idle
<1>2. EvenMcp(base)' /\ EvenMcp(st)'
  BY <1>1 DEF QuietInv, McpConv, EvenMcp
<1>3. McpMerging' /\ McpEnds'
  BY <1>1 DEF McpMerging, McpEnds
<1>4. McpMerged'
  BY <1>1 DEF QuietInv, McpConv, McpMerged, Stuck, Recorded, Bound, InLine
<1>5. McpQuiet'
  BY <1>1 DEF QuietInv, McpConv, McpQuiet, Bound, InLine
<1> QED
  BY <1>2, <1>3, <1>4, <1>5 DEF McpConv

LEMMA McpDeletedQuiet == IInv /\ QuietInv /\ McpDeleted => McpConv'
<1> SUFFICES ASSUME IInv, QuietInv, McpDeleted PROVE McpConv'
  OBVIOUS
<1>1. /\ pc = <<"merge", "codex">> /\ pc' = <<"write", "codex">> /\ srv = NoServer
      /\ UNCHANGED <<mcp, base, exit, st, srv, cl, out, div>> /\ UNCHANGED <<quiet, calm>>
  BY DEF McpDeleted, files, At, hist
<1>2. Started /\ Started' /\ pc[1] = "merge" /\ pc[2] = "codex" /\ Later' /\ pc'[1] = "write"
  BY <1>1 DEF Started, Idle, Later
<1>3. calm => srv = mcp["ptw"] /\ "mcp" \notin div
  BY <1>1, <1>2 DEF IInv, CalmInv, QuietInv, McpConv, McpMerging
<1>4. EvenMcp(base)' /\ EvenMcp(st)'
  BY <1>1, <1>2 DEF QuietInv, McpConv, EvenMcp
<1>5. McpMerging' /\ McpEnds' /\ McpMerged'
  BY <1>1, <1>2, <1>3 DEF McpMerging, McpEnds, McpMerged
<1>6. McpQuiet'
  BY <1>1, <1>2, <1>3 DEF QuietInv, McpQuiet
<1> QED
  BY <1>4, <1>5, <1>6 DEF McpConv

LEMMA McpWriteQuiet ==
  ASSUME IInv, QuietInv, NEW c \in Client, McpWrite(c)
  PROVE  McpConv'
<1>1. /\ pc = <<"write", c>> /\ pc' = Follow("write", c)
      /\ mcp' = IF out[c] # NoServer THEN [mcp EXCEPT ![c] = out[c]] ELSE mcp
      /\ UNCHANGED <<base, st, out, div, quiet, calm>>
  BY DEF McpWrite, At, hist
<1>2. /\ c \in Place /\ "ptw" \in Place /\ c # "ptw" /\ Client \subseteq Place /\ Client = {"codex", "agy"}
      /\ mcp \in [Place -> Entries]
  BY DEF IInv, TypeOK, Place, Client
<1>3. /\ Started /\ Started' /\ Later /\ Later' /\ pc[1] = "write" /\ pc'[1] # "merge"
      /\ pc' # <<"merge", "codex">> /\ pc' # <<"merge", "agy">>
      /\ c = "codex" => pc' = <<"write", "agy">> /\ pc'[1] = "write"
      /\ c = "agy" => pc = <<"write", "agy">> /\ pc # <<"write", "codex">> /\ pc'[1] = "rules"
  BY <1>1 DEF Started, Idle, Later, Follow, NextPhase, Client
<1>4. /\ \A x \in Place \ {c} : mcp'[x] = mcp[x]
      /\ mcp'[c] = IF out[c] # NoServer THEN out[c] ELSE mcp[c]
  BY <1>1, <1>2
<1>5. mcp'["ptw"] = mcp["ptw"] /\ \A d \in Client : out[d] = NoServer => mcp'[d] = mcp[d]
  BY <1>2, <1>4
<1>6. /\ EvenMcp(base) /\ EvenMcp(st) /\ McpMerged /\ McpQuiet /\ (quiet >= 1 => calm)
  BY <1>3 DEF QuietInv, McpConv
<1>7. EvenMcp(base)' /\ EvenMcp(st)'
  BY <1>1, <1>6 DEF EvenMcp
<1>8. McpMerging' /\ McpEnds'
  BY <1>3 DEF McpMerging, McpEnds
<1>9. \A d \in Client : Bound(d) => Bound(d)'
  BY <1>1, <1>5 DEF Bound, InLine
<1>10. McpMerged'
  <2> SUFFICES ASSUME calm PROVE McpMerged'
    BY <1>1 DEF McpMerged
  <2>1. "mcp" \in div' => \E d \in Client : out'[d] = NoServer /\ Stuck(st, d)'
    BY <1>1, <1>3, <1>5, <1>6 DEF McpMerged, Stuck
  <2>2. "mcp" \in div' \/ mcp'["ptw"] = NoServer \/ (Recorded(st)' /\ Bound("agy")')
    BY <1>1, <1>2, <1>3, <1>5, <1>6, <1>9 DEF McpMerged, Recorded
  <2>3. out'["codex"] \in {NoServer, mcp'["codex"]}
    BY <1>1, <1>2, <1>3, <1>4, <1>6 DEF McpMerged
  <2>4. pc'[1] # "write" => out'["agy"] \in {NoServer, mcp'["agy"]}
    BY <1>1, <1>2, <1>3, <1>4
  <2> QED
    BY <2>1, <2>2, <2>3, <2>4 DEF McpMerged
<1>11. McpQuiet'
  <2> SUFFICES ASSUME quiet >= 1
               PROVE  "mcp" \in div' \/ mcp'["ptw"] = NoServer \/ Bound("codex")'
    BY <1>1, <1>3 DEF McpQuiet
  <2> QED
    BY <1>1, <1>2, <1>3, <1>5, <1>6, <1>9 DEF McpQuiet
<1> QED
  BY <1>7, <1>8, <1>10, <1>11 DEF McpConv

LEMMA McpSaveQuiet == IInv /\ QuietInv /\ Save => McpConv'
<1> SUFFICES ASSUME IInv, QuietInv, Save PROVE McpConv'
  OBVIOUS
<1>1. /\ pc = <<"save", "codex">> /\ pc' = Idle
      /\ base' = [st EXCEPT !.skill = SkillBase]
      /\ exit' = "ok" => div = {}
      /\ quiet' >= 1 => calm
      /\ quiet' = 2 => quiet >= 1
      /\ UNCHANGED <<mcp, out>>
  BY DEF Save, files, At, IInv, TypeOK
<1>2. /\ Started /\ ~Started' /\ Later /\ ~Later' /\ pc[1] = "save" /\ pc # <<"write", "codex">>
      /\ pc'[1] = "idle" /\ pc' # <<"merge", "codex">> /\ pc' # <<"merge", "agy">>
      /\ Client = {"codex", "agy"}
  BY <1>1 DEF Started, Idle, Later, Client
<1>3. base'.mcp = st.mcp
  <2>1. PICK b : b = SkillBase
    OBVIOUS
  <2>2. base' = [st EXCEPT !.skill = b] /\ st \in State
    BY <1>1, <2>1 DEF IInv, TypeOK
  <2> QED
    BY <2>2 DEF State
<1>4. EvenMcp(base)'
  BY <1>2, <1>3 DEF QuietInv, McpConv, EvenMcp
<1>5. McpMerging' /\ McpMerged'
  BY <1>2 DEF McpMerging, McpMerged
<1>6. calm => /\ "mcp" \in div => \E c \in Client : Stuck(base, c)'
              /\ "mcp" \in div \/ mcp["ptw"] = NoServer \/ (Recorded(base)' /\ Bound("agy"))
              /\ \A c \in Client : out[c] \in {NoServer, mcp[c]}
  <2>1. McpMerged
    BY DEF QuietInv, McpConv
  <2>2. calm /\ "mcp" \in div => \E c \in Client : Stuck(base, c)'
    BY <1>1, <1>2, <1>3, <2>1 DEF McpMerged, Stuck
  <2>3. calm => "mcp" \in div \/ mcp["ptw"] = NoServer \/ (Recorded(base)' /\ Bound("agy"))
    BY <1>1, <1>2, <1>3, <2>1 DEF McpMerged, Recorded
  <2>4. calm => \A c \in Client : out[c] \in {NoServer, mcp[c]}
    BY <1>2, <2>1 DEF McpMerged
  <2> QED
    BY <2>2, <2>3, <2>4
<1>7. \A c \in Client : calm /\ Bound(c) => InLine(c)'
  BY <1>1, <1>6 DEF Bound, InLine
<1>8. McpQuiet'
  BY <1>1, <1>2, <1>6, <1>7 DEF McpQuiet
<1>9. McpEnds'
  <2> SUFFICES ASSUME quiet' = 2, exit' = "ok", mcp["ptw"] # NoServer
               PROVE  Recorded(base)' /\ \A c \in Client : InLine(c)'
    BY <1>1 DEF McpEnds
  <2>1. div = {} /\ calm /\ Bound("codex")
    BY <1>1, <1>2 DEF QuietInv, McpConv, McpQuiet
  <2> QED
    BY <1>2, <1>6, <1>7, <2>1
<1> QED
  BY <1>2, <1>4, <1>5, <1>8, <1>9 DEF McpConv

LEMMA RulesMergeQuiet ==
  ASSUME IInv, QuietInv, NEW c \in Client, RulesMerge(c)
  PROVE  RulesConv' /\ McpConv'
<1>1. /\ pc = <<"rules", c>> /\ pc' = Follow("rules", c)
      /\ RulesDiverged(c) => div' = div \cup {RulesOf(c)}
      /\ ~RulesDiverged(c) => div' = div
      /\ UNCHANGED <<mcp, base, out, quiet, calm>>
  BY DEF RulesMerge, At, Report, NoReport, hist
<1>2. /\ Client = {"codex", "agy"} /\ RulesOf("codex") # RulesOf("agy") /\ RulesOf(c) # "mcp"
  BY DEF Client, RulesOf
<1>3. /\ pc[1] = "rules" /\ Started'
      /\ c = "codex" => pc' = <<"rules", "agy">> /\ pc'[1] = "rules"
      /\ c = "agy" => pc' = <<"skill", "codex">> /\ pc'[1] = "skill" /\ pc = <<"rules", "agy">>
  BY <1>1 DEF Started, Idle, Follow, NextPhase
<1>4. /\ \A d \in Client \ {c} : Composed(d)' = Composed(d) /\ block'[d] = block[d] /\ st'.rules[d] = st.rules[d]
      /\ block'[c] = IF RulesPush(c) \/ RulesPull(c) THEN Composed(c)' ELSE block[c]
      /\ st'.rules[c] = IF RulesPush(c) \/ RulesPull(c) \/ RulesAgreed(c) THEN Composed(c)' ELSE st.rules[c]
      /\ st'.mcp = st.mcp
  BY RulesMergeIs DEF IInv
<1>5. ~RulesPull(c) => Composed(c)' = Composed(c)
  BY DEF RulesMerge, Composed
<1>6. RulesDone(c)'
  BY <1>1, <1>4, <1>5 DEF RulesDone, RulesDiverged, RulesPush, RulesPull, RulesAgreed
<1>7. \A d \in Client \ {c} : RulesDone(d) => RulesDone(d)'
  BY <1>1, <1>4 DEF RulesDone
<1>8. RulesConv'
  BY <1>1, <1>2, <1>3, <1>6, <1>7 DEF QuietInv, RulesConv
<1>9. McpConv'
  BY <1>1, <1>2, <1>3, <1>4, McpStays
<1> QED
  BY <1>8, <1>9

\* A sync has done nothing about rules before their turn, nor about skills.
LEMMA RulesWait ==
  ASSUME pc' \in ({"merge", "write"} \X Client) \cup {<<"rules", "codex">>}
  PROVE  RulesConv'
<1>1. Started' /\ pc' # <<"rules", "agy">> /\ pc'[1] \notin {"skill", "save"}
  BY DEF Started, Idle, Client
<1> QED
  BY <1>1 DEF RulesConv

LEMMA SkillWaits ==
  ASSUME QuietInv, pc[1] \in {"merge", "write", "rules"},
         pc' \in ({"merge", "write", "rules"} \X Client) \cup {<<"skill", "codex">>},
         UNCHANGED <<skill, base, quiet, raced>>, "skill" \in div' <=> "skill" \in div
  PROVE  SkillConv'
<1>1. Started' /\ pc'[1] # "save" /\ pc' # <<"skill", "agy">> /\ \A c \in Client : ~Past(c) /\ ~Past(c)'
  BY DEF Started, Idle, Client, Past
<1>2. SUFFICES ASSUME ~raced PROVE EvenSkill(base)' /\ SkillSteps' /\ SkillQuiet'
  BY <1>1 DEF SkillConv, SkillEnds
<1>3. EvenSkill(base) /\ SkillSteps /\ SkillQuiet
  BY <1>2 DEF QuietInv, SkillConv
<1>4. "skill" \notin div'
  BY <1>3 DEF SkillSteps
<1> QED
  BY <1>1, <1>3, <1>4 DEF EvenSkill, SkillSteps, SkillQuiet, Split, TreeAt

\* The rules, once merged, are left alone.
LEMMA RulesStay ==
  ASSUME QuietInv, pc[1] = "skill", pc'[1] \in {"skill", "save"},
         UNCHANGED <<shared, own, block, st, calm>>,
         \A c \in Client : RulesOf(c) \in div' <=> RulesOf(c) \in div
  PROVE  RulesConv'
<1>1. Started' /\ pc' # <<"rules", "agy">>
  BY DEF Started, Idle
<1>2. \A c \in Client : RulesDone(c) => RulesDone(c)'
  BY DEF RulesDone, Composed
<1> QED
  BY <1>1, <1>2 DEF QuietInv, RulesConv

LEMMA SkillSkipQuiet == IInv /\ QuietInv /\ SkillSkip => QuietInv'
<1> SUFFICES ASSUME IInv, QuietInv, SkillSkip PROVE QuietInv'
  OBVIOUS
<1>1. /\ pc = <<"skill", "codex">> /\ pc' = <<"save", "codex">> /\ skill["ptw"] = NoTree
      /\ UNCHANGED <<mcp, shared, own, block, skill, base, exit, st, out, tree, div>>
      /\ UNCHANGED <<quiet, calm, raced>>
  BY DEF SkillSkip, files, At, hist
<1>2. Started /\ Started' /\ pc[1] = "skill" /\ pc'[1] = "save"
  BY <1>1 DEF Started, Idle
<1>3. McpConv' /\ RulesConv'
  BY <1>1, <1>2, McpStays, RulesStay
<1>4. tree = NoTree
  BY <1>1, <1>2 DEF IInv, RunInv
<1>5. SkillConv'
  BY <1>1, <1>2, <1>4 DEF QuietInv, SkillConv, EvenSkill, SkillSteps, SkillQuiet, SkillEnds
<1> QED
  BY <1>1, <1>2, <1>3, <1>5 DEF QuietInv

\* How one client's directory comes out of a sync: in line, or deleted; or in conflict.
LEMMA SkillMergeIs ==
  ASSUME IInv, NEW c \in Client, SkillMerge(c), SkillHash(c) = skill["ptw"], EvenSkill(base)
  PROVE  /\ SkillDiverged(c) => skill' = skill /\ Split(c) /\ div' = div \cup {"skill"}
         /\ ~SkillDiverged(c) =>
              /\ div' = div
              /\ TreeAt(c)' = skill'["ptw"] \/ (TreeAt(c)' = NoTree /\ base.skill[c] # NoTree)
              /\ skill["ptw"] = base.skill["ptw"] /\ TreeAt(c) = base.skill[c] => TreeAt(c)' = skill'["ptw"]
         /\ SkillPull(c) => \A d \in Client : TreeAt(d)' = skill'["ptw"]
         /\ ~SkillPull(c) => /\ skill'["ptw"] = skill["ptw"]
                             /\ \A d \in Client \ {c} : TreeAt(d)' = TreeAt(d)
         /\ (\E d \in Client : Split(d)) \/ TreeAt(c) = base.skill[c] => ~SkillPull(c)
         /\ Split(c) => SkillDiverged(c)
         /\ tree' = skill'["ptw"] /\ skill["ptw"] # NoTree /\ skill'["ptw"] # NoTree
<1>1. /\ pc = <<"skill", c>>
      /\ skill["ptw"] # NoTree
      /\ SkillPull(c) => skill[c] # "link" /\ skill' = Pulled(c)
      /\ ~SkillPull(c) => skill' = IF SkillPush(c) THEN [skill EXCEPT ![c] = Installed] ELSE skill
      /\ tree' = IF SkillPull(c) THEN skill[c] ELSE SkillHash(c)
      /\ SkillDiverged(c) => div' = div \cup {"skill"}
      /\ ~SkillDiverged(c) => div' = div
      /\ link' = link
  BY DEF SkillMerge, At, CanPull, Report, NoReport
<1>2. TypeOK /\ st.skill = base.skill
  BY <1>1 DEF IInv, RunInv, Started, Idle
<1>3. /\ Client \subseteq Place /\ "ptw" \in Place /\ "ptw" \notin Client
      /\ skill \in [Place -> Tree \cup {NoTree, "link"}] /\ skill["ptw"] \in Tree \cup {NoTree}
  BY <1>2, TreesAre
<1>4. skill["ptw"] # "link" /\ NoTree # "link"
  BY <1>2, Markers DEF TypeOK
<1>5. base.skill[c] \in {base.skill["ptw"], NoTree}
  BY DEF EvenSkill
<1>6. TreeAt(c) = NoTree <=> skill[c] = NoTree
  BY <1>1, <1>4 DEF TreeAt
\* A pull: everyone gets the client's tree.
<1>7. ASSUME SkillPull(c)
      PROVE  /\ skill'["ptw"] = skill[c] /\ skill[c] # NoTree /\ ~SkillDiverged(c)
             /\ \A d \in Client : TreeAt(d)' = skill'["ptw"]
             /\ base.skill["ptw"] # NoTree /\ skill["ptw"] = base.skill["ptw"] /\ TreeAt(c) # base.skill[c]
  <2>1. /\ ~FirstSkillSync /\ skill["ptw"] = base.skill["ptw"] /\ TreeAt(c) # NoTree /\ TreeAt(c) # base.skill[c]
        /\ skill[c] # "link" /\ skill' = Pulled(c)
    BY <1>1, <1>2, <1>7 DEF SkillPull, TreeChanged
  <2>2. /\ skill'["ptw"] = skill[c] /\ \A d \in Client : skill'[d] = skill[c] \/ skill'[d] = "link"
    BY <1>2, <2>1, PulledIs
  <2>3. ~SkillDiverged(c)
    BY <1>2, <2>1 DEF SkillDiverged, FirstSkillSync
  <2> QED
    BY <1>2, <1>6, <2>1, <2>2, <2>3 DEF TreeAt, FirstSkillSync
\* A push, or nothing.
<1>8. ASSUME ~SkillPull(c)
      PROVE  /\ skill'["ptw"] = skill["ptw"] /\ \A d \in Client \ {c} : TreeAt(d)' = TreeAt(d)
             /\ SkillPush(c) => TreeAt(c)' = skill["ptw"]
             /\ ~SkillPush(c) => skill' = skill
  <2>1. CASE SkillPush(c)
    <3>1. skill' = [skill EXCEPT ![c] = Installed]
      BY <1>1, <1>8, <2>1
    <3>2. Installed = "link" \/ (Installed = skill["ptw"] /\ Installed # "link")
      BY <1>4 DEF Installed
    <3> QED
      BY <1>3, <2>1, <3>1, <3>2 DEF TreeAt
  <2>2. CASE ~SkillPush(c)
    BY <1>1, <1>8, <2>2 DEF TreeAt
  <2> QED
    BY <2>1, <2>2
<1>9. SkillDiverged(c) => ~SkillPush(c) /\ ~SkillPull(c) /\ Split(c)
  BY <1>1, <1>2, <1>6, <1>7 DEF SkillDiverged, SkillPush, FirstSkillSync, TreeChanged, Split, SkillGone
<1>10. ~SkillDiverged(c) /\ ~SkillPull(c) /\ ~SkillPush(c) =>
         TreeAt(c) = skill["ptw"] \/ (TreeAt(c) = NoTree /\ base.skill[c] # NoTree)
  BY <1>1, <1>2, <1>5, <1>6
     DEF SkillDiverged, SkillPull, SkillPush, FirstSkillSync, TreeChanged, SkillGone
<1>11. /\ (\E d \in Client : Split(d)) \/ TreeAt(c) = base.skill[c] => ~SkillPull(c)
       /\ Split(c) => SkillDiverged(c)
  BY <1>2, <1>6, <1>7 DEF Split, SkillDiverged, FirstSkillSync, TreeChanged
<1>12. ~SkillDiverged(c) =>
         /\ TreeAt(c)' = skill'["ptw"] \/ (TreeAt(c)' = NoTree /\ base.skill[c] # NoTree)
         /\ skill["ptw"] = base.skill["ptw"] /\ TreeAt(c) = base.skill[c] => TreeAt(c)' = skill'["ptw"]
  <2> SUFFICES ASSUME ~SkillDiverged(c)
               PROVE  /\ TreeAt(c)' = skill'["ptw"] \/ (TreeAt(c)' = NoTree /\ base.skill[c] # NoTree)
                      /\ skill["ptw"] = base.skill["ptw"] /\ TreeAt(c) = base.skill[c] => TreeAt(c)' = skill'["ptw"]
    OBVIOUS
  <2>1. CASE SkillPull(c) \/ SkillPush(c)
    BY <1>7, <1>8, <2>1
  <2>2. CASE ~SkillPull(c) /\ ~SkillPush(c)
    <3>1. skill' = skill /\ TreeAt(c)' = TreeAt(c)
      BY <1>8, <2>2 DEF TreeAt
    <3>2. TreeAt(c) = skill["ptw"] \/ (TreeAt(c) = NoTree /\ base.skill[c] # NoTree)
      BY <1>10, <2>2
    <3> QED
      BY <3>1, <3>2
  <2> QED
    BY <2>1, <2>2
<1>13. tree' = skill'["ptw"] /\ skill'["ptw"] # NoTree
  BY <1>1, <1>7, <1>8
<1> QED
  BY <1>1, <1>7, <1>8, <1>9, <1>11, <1>12, <1>13

LEMMA SkillMergeQuiet ==
  ASSUME IInv, QuietInv, NEW c \in Client, SkillMerge(c)
  PROVE  QuietInv'
<1>1. /\ pc = <<"skill", c>> /\ pc' = Follow("skill", c)
      /\ Report("skill", c, <<>>) \/ NoReport
      /\ UNCHANGED <<mcp, shared, own, block, base, exit, st, out>> /\ UNCHANGED <<quiet, calm, raced>>
  BY DEF SkillMerge, At, hist
<1>2. /\ Started /\ Started' /\ pc[1] = "skill" /\ pc[2] = c /\ Client = {"codex", "agy"}
      /\ c = "codex" => pc' = <<"skill", "agy">> /\ pc'[1] = "skill" /\ pc'[2] = "agy"
      /\ c = "agy" => pc' = <<"save", "codex">> /\ pc'[1] = "save" /\ pc = <<"skill", "agy">>
  BY <1>1 DEF Started, Idle, Client, Follow, NextPhase
<1>3. \A p : p # "skill" => (p \in div' <=> p \in div)
  BY <1>1, OthersAreNotReported
<1>4. McpConv' /\ RulesConv'
  BY <1>1, <1>2, <1>3, McpStays, RulesStay DEF RulesOf
<1>5. SkillConv'
  <2> SUFFICES ASSUME ~raced PROVE EvenSkill(base)' /\ SkillSteps' /\ SkillQuiet'
    BY <1>1, <1>2 DEF SkillConv, SkillEnds
  <2>1. EvenSkill(base) /\ SkillSteps /\ SkillQuiet
    BY DEF QuietInv, SkillConv
  <2>2. SkillHash(c) = skill["ptw"]
    BY <1>2, <2>1 DEF SkillHash, SkillSteps
  <2>3. ~Past(c) /\ \A d \in Client : Past(d)' <=> Past(d) \/ d = c
    BY <1>2 DEF Past
  <2>4. /\ SkillDiverged(c) => skill' = skill /\ Split(c) /\ div' = div \cup {"skill"}
        /\ ~SkillDiverged(c) =>
             /\ div' = div
             /\ TreeAt(c)' = skill'["ptw"] \/ (TreeAt(c)' = NoTree /\ base.skill[c] # NoTree)
             /\ skill["ptw"] = base.skill["ptw"] /\ TreeAt(c) = base.skill[c] => TreeAt(c)' = skill'["ptw"]
        /\ SkillPull(c) => \A d \in Client : TreeAt(d)' = skill'["ptw"]
        /\ ~SkillPull(c) => /\ skill'["ptw"] = skill["ptw"]
                            /\ \A d \in Client \ {c} : TreeAt(d)' = TreeAt(d)
        /\ (\E d \in Client : Split(d)) \/ TreeAt(c) = base.skill[c] => ~SkillPull(c)
        /\ Split(c) => SkillDiverged(c)
        /\ tree' = skill'["ptw"] /\ skill["ptw"] # NoTree /\ skill'["ptw"] # NoTree
    BY <2>1, <2>2, SkillMergeIs
  <2>5. \A d \in Client : Split(d) => Split(d)'
    <3>1. SkillDiverged(c) => \A d \in Client : TreeAt(d)' = TreeAt(d)
      BY <2>4 DEF TreeAt
    <3> QED
      BY <1>1, <2>4, <3>1 DEF Split
  <2>6. EvenSkill(base)'
    BY <1>1, <2>1 DEF EvenSkill
  <2>7. SkillSteps'
    <3>1. /\ pc'[1] \notin {"merge", "write", "rules"} /\ pc' # <<"skill", "codex">>
      BY <1>2
    <3>2. "skill" \in div' => \E d \in Client : Past(d)' /\ Split(d)'
      BY <1>2, <2>1, <2>3, <2>4, <2>5 DEF SkillSteps
    <3>3. ASSUME "skill" \notin div', NEW d \in Client, Past(d)'
          PROVE  TreeAt(d)' = skill'["ptw"] \/ (TreeAt(d)' = NoTree /\ base'.skill[d] # NoTree)
      <4>1. ~SkillDiverged(c) /\ "skill" \notin div
        BY <2>4, <3>3
      <4>2. CASE d = c \/ SkillPull(c)
        BY <1>1, <2>4, <4>1, <4>2
      <4>3. CASE d # c /\ ~SkillPull(c)
        BY <1>1, <1>2, <2>1, <2>3, <2>4, <3>3, <4>1, <4>3 DEF SkillSteps
      <4> QED
        BY <4>2, <4>3
    <3> QED
      BY <2>4, <3>1, <3>2, <3>3 DEF SkillSteps
  <2>8. SkillQuiet'
    <3> SUFFICES ASSUME quiet >= 1 PROVE SkillQuiet'
      BY <1>1 DEF SkillQuiet
    <3>1. CASE \E d \in Client : Split(d)
      BY <2>5, <3>1 DEF SkillQuiet
    <3>2. CASE ~\E d \in Client : Split(d)
      <4>1. /\ skill["ptw"] = base.skill["ptw"]
            /\ \A d \in Client : TreeAt(d) = IF Past(d) THEN skill["ptw"] ELSE base.skill[d]
        BY <2>1, <2>4, <3>2 DEF SkillQuiet
      <4>2. ~SkillDiverged(c) /\ ~SkillPull(c)
        BY <2>3, <2>4, <3>2, <4>1
      <4>3. \A d \in Client : TreeAt(d)' = IF Past(d)' THEN skill'["ptw"] ELSE base'.skill[d]
        BY <1>1, <2>3, <2>4, <4>1, <4>2
      <4> QED
        BY <1>1, <2>4, <4>1, <4>2, <4>3 DEF SkillQuiet
    <3> QED
      BY <3>1, <3>2
  <2> QED
    BY <2>6, <2>7, <2>8
<1> QED
  BY <1>1, <1>2, <1>4, <1>5 DEF QuietInv

LEMMA SaveQuiet == IInv /\ QuietInv /\ Save => QuietInv'
<1> SUFFICES ASSUME IInv, QuietInv, Save PROVE QuietInv'
  OBVIOUS
<1>1. /\ pc = <<"save", "codex">> /\ pc' = Idle
      /\ base' = [st EXCEPT !.skill = SkillBase]
      /\ exit' = "ok" => div = {}
      /\ quiet' >= 1 => calm
      /\ quiet' = 2 => quiet >= 1
      /\ UNCHANGED <<shared, own, block, skill, raced>>
  BY DEF Save, files, At, IInv, TypeOK
<1>2. /\ Started /\ ~Started' /\ pc[1] = "save" /\ pc'[1] = "idle" /\ pc' # <<"skill", "agy">>
      /\ pc' # <<"skill", "codex">> /\ pc' # <<"rules", "agy">>
  BY <1>1 DEF Started, Idle
<1>3. base'.rules = st.rules /\ base'.skill = SkillBase
  <2>1. PICK b : b = SkillBase
    OBVIOUS
  <2>2. base' = [st EXCEPT !.skill = b] /\ st \in State
    BY <1>1, <2>1 DEF IInv, TypeOK
  <2> QED
    BY <2>1, <2>2 DEF State
<1>4. RulesConv'
  <2>1. calm => \A c \in Client : RulesDone(c)
    BY <1>2 DEF QuietInv, RulesConv
  <2> QED
    BY <1>1, <1>2, <1>3, <2>1 DEF RulesConv, RulesDone, Composed
<1>5. SkillConv'
  <2> SUFFICES ASSUME ~raced PROVE EvenSkill(base)' /\ SkillSteps' /\ SkillQuiet' /\ SkillEnds'
    BY <1>1 DEF SkillConv
  <2>1. EvenSkill(base) /\ SkillSteps /\ SkillQuiet /\ tree = skill["ptw"] /\ st.skill = base.skill
    BY <1>2 DEF QuietInv, SkillConv, SkillSteps, IInv, RunInv
  <2>2. (\A c \in Client : Past(c) /\ ~Past(c)') /\ Place = Client \cup {"ptw"} /\ "ptw" \notin Client
    BY <1>2 DEF Past, Place, Client
  <2>3. /\ "skill" \in div => \E c \in Client : Split(c)
        /\ "skill" \notin div /\ skill["ptw"] # NoTree =>
             \A c \in Client : TreeAt(c) \in {skill["ptw"], NoTree}
    BY <1>2, <2>1, <2>2 DEF SkillSteps
  <2>4. /\ skill["ptw"] = NoTree \/ "skill" \in div => base'.skill = base.skill
        /\ ~(skill["ptw"] = NoTree \/ "skill" \in div) =>
             /\ base'.skill["ptw"] = skill["ptw"]
             /\ \A c \in Client : base'.skill[c] = TreeAt(c)
    BY <1>3, <2>1, <2>2 DEF SkillBase
  <2>5. \A c \in Client : TreeAt(c)' = TreeAt(c)
    BY <1>1 DEF TreeAt
  <2>6. EvenSkill(base)' /\ SkillSteps'
    BY <1>2, <2>1, <2>3, <2>4 DEF EvenSkill, SkillSteps
  <2>7. SkillQuiet'
    BY <1>1, <2>2, <2>3, <2>4, <2>5 DEF SkillQuiet, Split
  <2>8. SkillEnds'
    <3> SUFFICES ASSUME quiet' = 2, exit' = "ok", skill["ptw"] # NoTree
                 PROVE  \A x \in Place : TreeAt(x)' = skill["ptw"] /\ base'.skill[x] = skill["ptw"]
      BY <1>1 DEF SkillEnds
    <3>1. div = {} /\ quiet >= 1
      BY <1>1
    <3>2. \A c \in Client : TreeAt(c) = skill["ptw"]
      BY <2>1, <2>2, <2>3, <3>1 DEF SkillQuiet, Split
    <3>3. TreeAt("ptw")' = skill["ptw"]
      BY <1>1 DEF TreeAt
    <3> QED
      BY <2>2, <2>4, <2>5, <3>1, <3>2, <3>3
  <2> QED
    BY <2>6, <2>7, <2>8
<1> QED
  BY <1>2, <1>4, <1>5, McpSaveQuiet DEF QuietInv

LEMMA NextQuiet == IInv /\ QuietInv /\ [Next]_vars => QuietInv'
<1> SUFFICES ASSUME IInv, QuietInv, [Next]_vars PROVE QuietInv'
  OBVIOUS
<1>1. ASSUME NEW c \in Client, McpMerge(c) \/ McpWrite(c) \/ McpDeleted
      PROVE  QuietInv'
  <2>1. /\ pc[1] \in {"merge", "write"} /\ Started
        /\ pc' \in ({"merge", "write"} \X Client) \cup {<<"rules", "codex">>}
        /\ UNCHANGED <<skill, base, quiet, calm, raced>>
        /\ "skill" \in div' <=> "skill" \in div
    BY <1>1 DEF McpMerge, McpWrite, McpDeleted, At, Started, Idle, Follow, NextPhase, Client, files, hist,
       Report, NoReport
  <2>2. RulesConv' /\ SkillConv'
    <3>1. pc' \in ({"merge", "write", "rules"} \X Client) \cup {<<"skill", "codex">>}
      BY <2>1 DEF Client
    <3>2. SkillConv'
      BY <2>1, <3>1, SkillWaits
    <3> QED
      BY <2>1, <3>2, RulesWait
  <2>3. McpConv'
    BY <1>1, McpMergeQuiet, McpWriteQuiet, McpDeletedQuiet
  <2> QED
    BY <2>1, <2>2, <2>3 DEF QuietInv
<1>2. ASSUME NEW c \in Client, RulesMerge(c)
      PROVE  QuietInv'
  <2>1. /\ pc[1] = "rules" /\ Started
        /\ pc' \in {<<"rules", "agy">>, <<"skill", "codex">>}
        /\ UNCHANGED <<skill, base, quiet, calm, raced>>
        /\ "skill" \in div' <=> "skill" \in div
    <3>1. /\ pc = <<"rules", c>> /\ pc' = Follow("rules", c)
          /\ (\E t : Report(RulesOf(c), c, t)) \/ NoReport
          /\ UNCHANGED <<skill, base, quiet, calm, raced>>
      BY <1>2 DEF RulesMerge, At, hist
    <3>2. RulesOf(c) # "skill"
      BY DEF RulesOf
    <3>3. "skill" \in div' <=> "skill" \in div
      BY <3>1, <3>2 DEF Report, NoReport
    <3> QED
      BY <3>1, <3>3 DEF Started, Idle, Follow, NextPhase, Client
  <2>2. "agy" \in Client
    BY DEF Client
  <2>3. SkillConv'
    BY <2>1, <2>2, SkillWaits
  <2> QED
    BY <1>2, <2>1, <2>3, RulesMergeQuiet DEF QuietInv
<1>3. CASE \E c \in Client : PullFails(c) \/ PushFails(c)
  BY <1>3, StopQuiet DEF PullFails, PushFails
<1>4. CASE Crash
  BY <1>4, StopQuiet DEF Crash
<1>5. CASE UNCHANGED vars
  <2>1. UNCHANGED <<mcp, shared, own, block, skill, base, exit, pc, st, srv, cl, out, tree, div, quiet, calm, raced>>
    BY <1>5 DEF vars, files, run, hist
  <2>2. McpConv'
    BY <2>1 DEF QuietInv, McpConv, EvenMcp, McpMerging, McpMerged, McpQuiet, McpEnds, Started, Later,
       Stuck, Recorded, Bound, InLine, McpDiverged, FirstSync, PtwChanged, ClientChanged
  <2>3. RulesConv'
    BY <2>1 DEF QuietInv, RulesConv, RulesDone, Composed, Started
  <2>4. SkillConv'
    BY <2>1 DEF QuietInv, SkillConv, EvenSkill, SkillSteps, SkillQuiet, SkillEnds, Past, Split, TreeAt, Started
  <2> QED
    BY <2>1, <2>2, <2>3, <2>4 DEF QuietInv, Started
<1>6. "codex" \in Client
  BY DEF Client
<1> QED
  BY <1>1, <1>2, <1>3, <1>4, <1>5, <1>6, BeginQuiet, SkillSkipQuiet, SaveQuiet, SkillMergeQuiet,
     ResolveQuiet, EditQuiet, Zenon DEF Next, SyncStep

\* After two syncs that nobody disturbs, the second of which reports success, the three
\* sides of every object agree, whatever the first one found.
THEOREM TwoSyncsSuffice == Spec => []QuietSyncsConverge
<1>1. IInv /\ QuietInv => QuietSyncsConverge
  <2> SUFFICES ASSUME IInv, QuietInv, pc = Idle, quiet = 2, exit = "ok" PROVE QuietSyncsConverge
    BY DEF QuietSyncsConverge
  <2>1. ~Started /\ quiet >= 1
    BY DEF Started
  <2>2. mcp["ptw"] # NoServer => Recorded(base) /\ \A c \in Client : InLine(c)
    BY <2>1 DEF QuietInv, McpConv, McpEnds
  <2>3. \A c \in Client : block[c] = Composed(c) /\ base.rules[c] = Composed(c)
    BY <2>1 DEF QuietInv, RulesConv
  <2>4. skill["ptw"] # NoTree /\ ~raced =>
          \A x \in Place : TreeAt(x) = skill["ptw"] /\ base.skill[x] = skill["ptw"]
    BY <2>1 DEF QuietInv, SkillConv, SkillEnds
  <2> QED
    BY <2>2, <2>3, <2>4 DEF QuietSyncsConverge, Recorded, InLine
<1>2. IInv /\ QuietInv /\ [Next]_vars => (IInv /\ QuietInv)'
  BY NextIInv, NextQuiet
<1>3. Init => IInv /\ QuietInv
  BY InitIInv, InitQuiet
<1> QED
  BY <1>1, <1>2, <1>3, PTL DEF Spec

===============================================================================
