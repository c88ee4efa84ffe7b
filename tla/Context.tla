--------------------------------- MODULE Context ---------------------------------
(* Reading a project's notes back (core/context_retrieval.py): `ptw context`, the session
   hooks of the clients (core/hooks.py) and read_project_note.  One or two searches of
   Basic Memory, in order, each of which may fail; their results are gathered, once per
   permalink, and as many as fit are given.  A behaviour is one command.

   A note is its permalink (lower case), the length of its header lines and the length of
   its body: nothing else decides what is given.  Basic Memory answers with any notes. *)
EXTENDS Integers, Sequences

CONSTANTS
  Keys, StateKeys,    \* permalinks; those that end in current-state
  Heads, Bodies,      \* lengths
  Marker,             \* length of "\n... [truncated]"
  MaxPage,            \* bound: notes in an answer, page size or not
  MaxItems, MaxChars, \* bounds of a request
  HookItems, HookChars

ASSUME ContextAssumption ==
  /\ StateKeys \subseteq Keys
  /\ Heads \subseteq Nat \ {0} /\ Bodies \subseteq Nat
  /\ Marker \in Nat /\ MaxPage \in Nat
  /\ HookItems \in 1..MaxItems /\ HookChars \in 1..MaxChars
  /\ MaxItems \in Nat /\ MaxChars \in Nat

VARIABLES
  pc,
  request,
  answered,   \* the searches that Basic Memory has answered
  found,      \* the current state, if there is one
  page,       \* the results of the query
  cands,      \* what there is to give, in order
  at,         \* how far the loop at hand has come
  kept, used, truncated   \* the bundle, its length, its flag

vars == <<pc, request, answered, found, page, cands, at, kept, used, truncated>>

Items == [key : Keys, head : Nat, body : Nat]
Answers == [key : Keys, head : Heads, body : Bodies]
Pages == UNION {[1..n -> Answers] : n \in 0..MaxPage}

\* by: `ptw context`, a hook, or read_project_note.
Requests == [by : {"cli", "hook", "read"}, state : BOOLEAN, query : BOOLEAN,
             items : 1..MaxItems, chars : 1..MaxChars]
Ended == {"refused", "failed", "given"}

Init ==
  /\ pc = "idle"
  /\ request = [by |-> "cli", state |-> TRUE, query |-> FALSE,
                items |-> HookItems, chars |-> HookChars]
  /\ answered = {} /\ found = <<>> /\ page = <<>> /\ cands = <<>> /\ at = 1
  /\ kept = <<>> /\ used = 0 /\ truncated = FALSE

---------------------------------------------------------------------------------
(* A request. *)

\* What a project argument or a configured project may be, and what the directory may be.
Names == {"none", "known", "unknown"}
Directories == {"bound", "probed", "candidate", "ambiguous", "unregistered", "unprobed"}
Here(directory) == directory \in {"bound", "probed"}

\* resolve_cli_project: an explicit project, else the configured one, else the directory,
\* by its bindings and then by one Git probe.
Resolves(explicit, configured, directory) ==
  IF explicit # "none" THEN explicit = "known"
  ELSE IF configured # "none" THEN configured = "known"
  ELSE Here(directory)

\* plan_context_retrieval: which search comes first.
First(r) ==
  IF r.by = "read" THEN "read"
  ELSE IF r.state THEN "state" ELSE IF r.query THEN "query" ELSE "given"

Refuse(r) ==
  /\ pc = "idle" /\ pc' = "refused" /\ request' = r
  /\ UNCHANGED <<answered, found, page, cands, at, kept, used, truncated>>

\* execute_context_retrieval_plan: a request for nothing, or a preview, gets an empty bundle;
\* anything else needs a sound executable.
Begin(r, idle, sound) ==
  /\ pc = "idle" /\ request' = r
  /\ pc' = IF idle \/ First(r) = "given" THEN "given" ELSE IF sound THEN First(r) ELSE "failed"
  /\ UNCHANGED <<answered, found, page, cands, at, kept, used, truncated>>

Limited(r) == r.state /\ ~r.query /\ r.items = HookItems /\ r.chars = HookChars

\* `ptw context show`, `ptw context search`, and other callers of retrieve_context.
HandleContext(r, resolved, idle, sound) ==
  /\ r.by = "cli"
  /\ IF resolved THEN Begin(r, idle, sound) ELSE Refuse(r)

\* An invocation of agy: the first one of a session, a later one, or a malformed payload.
Payloads == {"first", "later", "malformed"}
PreInvocation(r, payload, resolved, sound) ==
  /\ r.by = "hook" /\ Limited(r)
  /\ IF payload = "malformed" \/ (payload = "first" /\ ~resolved) THEN Refuse(r)
     ELSE Begin(r, payload = "later", sound)

SessionStart(r, payload, resolved, sound) ==
  /\ r.by = "hook" /\ Limited(r) /\ payload # "later"
  /\ IF payload = "malformed" \/ ~resolved THEN Refuse(r) ELSE Begin(r, FALSE, sound)

\* read_project_note: an identifier that is no path, of a project that is named.
ReadNote(r, good, explicit, sound) ==
  /\ r.by = "read" /\ ~r.state /\ ~r.query /\ r.items = 1 /\ r.chars = MaxChars
  /\ IF good /\ explicit = "known" THEN Begin(r, FALSE, sound) ELSE Refuse(r)

Ask(r, explicit, configured, directory, payload, flag, sound) ==
  \/ HandleContext(r, Resolves(explicit, configured, directory), flag, sound)
  \/ PreInvocation(r, payload, Resolves("none", configured, directory), sound)
  \/ SessionStart(r, payload, Resolves("none", configured, directory), sound)
  \/ ReadNote(r, flag, explicit, sound)

---------------------------------------------------------------------------------
(* The searches. *)

\* Two results with one permalink have to be the same result.
Consistent(raw) ==
  \A m, n \in DOMAIN raw : raw[m].key = raw[n].key => raw[m] = raw[n]

\* Timeout, exit code, more output than is allowed.
SearchFails ==
  /\ pc \in {"state", "query", "read"}
  /\ pc' = "failed"
  /\ UNCHANGED <<request, answered, found, page, cands, at, kept, used, truncated>>

\* What comes back is malformed, of another project, or contradicts itself.
AnswerRefused(raw) ==
  /\ \/ pc \in {"state", "query"} /\ ~Consistent(raw)
     \/ pc = "read" /\ raw = <<>>
  /\ pc' = "failed"
  /\ UNCHANGED <<request, answered, found, page, cands, at, kept, used, truncated>>

\* The pattern */current-state asks for one note; the first that has such a permalink is it.
SearchState(raw) ==
  /\ pc = "state" /\ Consistent(raw)
  /\ \/ /\ \A n \in DOMAIN raw : raw[n].key \notin StateKeys
        /\ found' = <<>>
     \/ \E n \in DOMAIN raw :
          /\ raw[n].key \in StateKeys /\ \A m \in 1..(n - 1) : raw[m].key \notin StateKeys
          /\ found' = <<raw[n]>>
  /\ cands' = found'
  /\ answered' = {"state"}
  /\ pc' = IF request.query THEN "query" ELSE "collect"
  /\ UNCHANGED <<request, page, at, kept, used, truncated>>

SearchQuery(raw) ==
  /\ pc = "query" /\ Consistent(raw)
  /\ page' = raw
  /\ answered' = answered \cup {"query"}
  /\ pc' = "collect"
  /\ UNCHANGED <<request, found, cands, at, kept, used, truncated>>

\* read_project_note gives one note as it is, however long.
Read(i) ==
  /\ pc = "read" /\ pc' = "given"
  /\ answered' = {"note"} /\ kept' = <<i>>
  /\ UNCHANGED <<request, found, page, cands, at, used, truncated>>

---------------------------------------------------------------------------------
(* The bundle. *)

\* Mutant: what the current-state search has found counts as not seen.
Collect_StateAgain ==
  /\ pc = "collect" /\ at <= Len(page)
  /\ cands' = IF \E n \in DOMAIN cands : n > Len(found) /\ cands[n].key = page[at].key
              THEN cands ELSE Append(cands, page[at])
  /\ at' = at + 1
  /\ UNCHANGED <<pc, request, answered, found, page, kept, used, truncated>>

\* One result of the query; the same permalink is taken once.
Collect ==
  /\ pc = "collect" /\ at <= Len(page)
  /\ cands' = IF \E n \in DOMAIN cands : cands[n].key = page[at].key
              THEN cands ELSE Append(cands, page[at])
  /\ at' = at + 1
  /\ UNCHANGED <<pc, request, answered, found, page, kept, used, truncated>>

\* Mutant: the notes beyond the limit go without a word.
Collected_Silently ==
  /\ pc = "collect" /\ at > Len(page)
  /\ pc' = "budget" /\ at' = 1
  /\ UNCHANGED <<request, answered, found, page, cands, kept, used, truncated>>

Collected ==
  /\ pc = "collect" /\ at > Len(page)
  /\ truncated' = (Len(cands) > request.items)
  /\ pc' = "budget" /\ at' = 1
  /\ UNCHANGED <<request, answered, found, page, cands, kept, used>>

Least(a, b) == IF a < b THEN a ELSE b
Offered == Least(Len(cands), request.items)

\* _render_single_item: header lines, an empty line, the body.
Size(i) == IF i.body = 0 THEN i.head ELSE i.head + 2 + i.body
Separator == IF kept = <<>> THEN 0 ELSE 2
Needed == used + Separator + Size(cands[at])
Fits == Needed <= request.chars

\* Mutant: the blank line between two notes is not counted.
Keep_NoSeparator ==
  /\ pc = "budget" /\ at <= Offered /\ used + Size(cands[at]) <= request.chars
  /\ kept' = Append(kept, cands[at]) /\ used' = used + Size(cands[at])
  /\ at' = at + 1
  /\ UNCHANGED <<pc, request, answered, found, page, cands, truncated>>

Keep ==
  /\ pc = "budget" /\ at <= Offered /\ Fits
  /\ kept' = Append(kept, cands[at]) /\ used' = Needed
  /\ at' = at + 1
  /\ UNCHANGED <<pc, request, answered, found, page, cands, truncated>>

\* Mutant: the body is cut although the header lines leave no room for the marker.
Shorten_Unchecked(i) ==
  IF i.head > request.chars THEN <<>>
  ELSE <<[i EXCEPT !.body = request.chars - i.head - 2]>>

\* _truncate_item_to_fit: the body cut to make room for the marker, or only the header lines.
Shorten(i) ==
  IF i.head > request.chars THEN <<>>
  ELSE IF i.head + 2 + Marker > request.chars THEN <<[i EXCEPT !.body = 0]>>
  ELSE <<[i EXCEPT !.body = request.chars - i.head - 2]>>

\* The first note that does not fit ends the bundle; it is shortened if it is the only one.
Stop ==
  /\ pc = "budget" /\ at <= Offered /\ ~Fits
  /\ truncated' = TRUE /\ pc' = "given"
  /\ kept' = IF kept = <<>> THEN Shorten(cands[at]) ELSE kept
  /\ used' = IF kept' = <<>> THEN 0 ELSE IF kept = <<>> THEN Size(kept'[1]) ELSE used
  /\ UNCHANGED <<request, answered, found, page, cands, at>>

Finish ==
  /\ pc = "budget" /\ at > Offered
  /\ pc' = "given"
  /\ UNCHANGED <<request, answered, found, page, cands, at, kept, used, truncated>>

Next ==
  \/ pc = "idle" /\ \E r \in Requests, explicit, configured \in Names, directory \in Directories,
        payload \in Payloads, flag, sound \in BOOLEAN :
        Ask(r, explicit, configured, directory, payload, flag, sound)
  \/ pc \in {"state", "query", "read"} /\ \E raw \in Pages :
        SearchState(raw) \/ SearchQuery(raw) \/ AnswerRefused(raw)
  \/ \E i \in Answers : Read(i)
  \/ SearchFails \/ Collect \/ Collected \/ Keep \/ Stop \/ Finish

Spec == Init /\ [][Next]_vars

---------------------------------------------------------------------------------
(* Properties. *)

TypeOK ==
  /\ pc \in Ended \cup {"idle", "state", "query", "read", "collect", "budget"}
  /\ request \in Requests
  /\ answered \subseteq {"state", "query", "note"}
  /\ found \in Seq(Items) /\ page \in Seq(Items) /\ cands \in Seq(Items) /\ kept \in Seq(Items)
  /\ at \in Nat \ {0} /\ used \in Nat /\ truncated \in BOOLEAN

\* A bundle never exceeds what was asked for: its notes, and the length the code counts.
WithinBudget ==
  request.by # "read" => Len(kept) <= request.items /\ used <= request.chars

\* The text of notes one after the other, with a blank line between them.
Rendered(s) ==
  LET upTo[n \in 0..Len(s)] ==
        IF n = 0 THEN 0 ELSE upTo[n - 1] + Size(s[n]) + (IF n = 1 THEN 0 ELSE 2)
  IN upTo[Len(s)]

\* What a bundle should be: the most notes from the front that fit together, or the first
\* alone, cut to the limit.  And the length that was counted is that of the text.
BundleIsLongest ==
  pc = "given" /\ request.by # "read" =>
    LET first(n) == SubSeq(cands, 1, n)
        fitting == {n \in 0..Offered : Rendered(first(n)) <= request.chars}
        most == CHOOSE n \in fitting : \A m \in fitting : m <= n
    IN /\ used = Rendered(kept)
       /\ IF most > 0 \/ cands = <<>> THEN kept = first(most)
          ELSE kept = <<>> \/ (Len(kept) = 1 /\ kept[1].key = cands[1].key /\ used <= request.chars)

\* What the searches have handed on: the current state, not what else its search answered
\* with (SearchState passes that over), and the results of the query.
Handed == {found[n] : n \in DOMAIN found} \cup {page[n] : n \in DOMAIN page}

\* A bundle that does not say it is truncated has every note that the searches have handed
\* on, and has it whole: a hook's current state and a query's results, none cut, none left out.
NothingDroppedSilently ==
  pc = "given" /\ ~truncated =>
    \A i \in Handed : \E n \in DOMAIN kept : kept[n].key = i.key /\ kept[n] \in Handed

\* Each note is in a bundle once, in one version: the current state comes first, as its own
\* search gave it, even if the query has answered with another version of it since.
OneVersionEach ==
  /\ \A m, n \in DOMAIN kept : kept[m].key = kept[n].key => m = n
  /\ request.by # "read" /\ kept # <<>> /\ found # <<>> =>
       kept[1].key = found[1].key /\ (kept[1] = found[1] \/ truncated)

\* Nothing is given before every search that was called for has answered.
NoPartialBundle ==
  kept # <<>> => answered = CASE request.by = "read" -> {"note"}
                              [] OTHER -> {q \in {"state", "query"} : request[q]}

=================================================================================
