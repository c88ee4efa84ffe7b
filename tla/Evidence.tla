-------------------------------- MODULE Evidence --------------------------------
(* Candidate evidence of a probe (core/behavioral_evidence.py): a record of the hooks.json
   and config bytes the probe saw, sealed with a key that the first probe makes, and the
   loader (used by the assurance report, core/assurance.py) that gives it back only if it
   is intact, young and still about the present files.  Each file is opened and read on its
   own and nothing is locked; the files change under the readers (`ptw hook`, `ptw sync`,
   the client: module Hooks). *)
EXTENDS Naturals

CONSTANTS
  Clients,
  Texts,      \* contents of a file
  Probers,    \* processes that store or load evidence
  Keys,       \* values of 32 random bytes
  NoKey,
  MaxUpsets   \* bound: changes of files, stopped probers, damaged and old records together

ASSUME EvidenceAssumption ==
  NoKey \notin Keys /\ "absent" \notin Texts /\ "none" \notin Clients /\ MaxUpsets \in Nat

VARIABLES
  files,     \* hooks.json and the config of each client
  key,       \* behavioral-evidence/seal.key
  record,    \* behavioral-evidence/<client>.json
  probe,     \* each prober
  upsets

vars == <<files, key, record, probe, upsets>>

Seen == [hooks : Texts \cup {"absent"}, config : Texts \cup {"absent"}]
Unread == [hooks |-> "absent", config |-> "absent"]
\* seal: the key of the seal, if the bytes are intact.  old: more than 30 days have passed.
Records == [about : Seen, seal : Keys \cup {NoKey}, old : BOOLEAN]
Nothing == [about |-> Unread, seal |-> NoKey, old |-> FALSE]

Probes == [pc : {"idle", "stored", "failed", "given", "record", "hooks", "config", "open", "fill", "seal"},
           op : {"store", "load"}, client : Clients \cup {"none"}, about : Seen, found : Records,
           since : SUBSET Seen]   \* history: what the files have been since hooks.json was read
AtRest == [pc |-> "idle", op |-> "store", client |-> "none", about |-> Unread,
           found |-> Nothing, since |-> {}]
ProbeEnded == {"idle", "stored", "failed", "given"}

Init ==
  /\ files \in [Clients -> Seen]
  /\ key = [made |-> FALSE, bytes |-> NoKey]
  /\ record = [c \in Clients |-> Nothing]
  /\ probe = [q \in Probers |-> AtRest]
  /\ upsets = 0

Done(q, pc) == probe' = [probe EXCEPT ![q] = [AtRest EXCEPT !.pc = pc]]

---------------------------------------------------------------------------------

Start(q, op, c) ==
  /\ probe[q].pc \in ProbeEnded
  /\ probe' = [probe EXCEPT ![q] = [AtRest EXCEPT !.op = op, !.client = c,
                                              !.pc = IF op = "store" THEN "hooks" ELSE "record"]]
  /\ UNCHANGED <<files, key, record, upsets>>

\* The loader checks the seal and the age before it looks at the client's files.
Intact(r) == key.bytes # NoKey /\ r.seal = key.bytes /\ ~r.old
ReadRecord(q) ==
  /\ probe[q].pc = "record"
  /\ IF Intact(record[probe[q].client])
     THEN probe' = [probe EXCEPT ![q].pc = "hooks", ![q].found = record[probe[q].client]]
     ELSE Done(q, "failed")
  /\ UNCHANGED <<files, key, record, upsets>>

\* configuration_fingerprint reads one file after the other; a malformed file has bytes too.
ReadHooks(q) ==
  /\ probe[q].pc = "hooks"
  /\ IF files[probe[q].client].hooks = "absent" THEN Done(q, "failed")
     ELSE probe' = [probe EXCEPT ![q].pc = "config", ![q].about.hooks = files[probe[q].client].hooks,
                                          ![q].since = {files[probe[q].client]}]
  /\ UNCHANGED <<files, key, record, upsets>>

Sealed(q) == [about |-> probe[q].about, seal |-> key.bytes, old |-> FALSE]

\* Mutant: a missing config counts as an empty one.
ReadConfigToStore_Missing(q) ==
  /\ probe[q].pc = "config" /\ probe[q].op = "store"
  /\ probe' = [probe EXCEPT ![q].pc = "open", ![q].about.config = files[probe[q].client].config]
  /\ UNCHANGED <<files, key, record, upsets>>

ReadConfigToStore(q) ==
  /\ probe[q].pc = "config" /\ probe[q].op = "store"
  /\ IF files[probe[q].client].config = "absent" THEN Done(q, "failed")
     ELSE probe' = [probe EXCEPT ![q].pc = "open", ![q].about.config = files[probe[q].client].config]
  /\ UNCHANGED <<files, key, record, upsets>>

\* Mutant: only hooks.json is compared.
ReadConfigToLoad_HooksOnly(q) ==
  /\ probe[q].pc = "config" /\ probe[q].op = "load"
  /\ IF probe[q].found.about.hooks = probe[q].about.hooks
     THEN probe' = [probe EXCEPT ![q].pc = "given"]
     ELSE Done(q, "failed")
  /\ UNCHANGED <<files, key, record, upsets>>

ReadConfigToLoad(q) ==
  /\ probe[q].pc = "config" /\ probe[q].op = "load"
  /\ IF probe[q].found.about = [probe[q].about EXCEPT !.config = files[probe[q].client].config]
     THEN probe' = [probe EXCEPT ![q].pc = "given"]
     ELSE Done(q, "failed")
  /\ UNCHANGED <<files, key, record, upsets>>

\* Mutant: an existing key is opened and truncated.
OpenKey_Truncates(q) ==
  /\ probe[q].pc = "open"
  /\ key' = [made |-> TRUE, bytes |-> NoKey]
  /\ probe' = [probe EXCEPT ![q].pc = "fill"]
  /\ UNCHANGED <<files, record, upsets>>

\* O_EXCL: the key is made once, and is empty at first.
OpenKey(q) ==
  /\ probe[q].pc = "open"
  /\ key' = [key EXCEPT !.made = TRUE]
  /\ probe' = [probe EXCEPT ![q].pc = IF key.made THEN "seal" ELSE "fill"]
  /\ UNCHANGED <<files, record, upsets>>

FillKey(q) ==
  /\ probe[q].pc = "fill"
  /\ \E k \in Keys : key' = [key EXCEPT !.bytes = k]
  /\ probe' = [probe EXCEPT ![q].pc = "seal"]
  /\ UNCHANGED <<files, record, upsets>>

\* A key that is not 32 bytes long, because its maker has not got there or never will.
Seal(q) ==
  /\ probe[q].pc = "seal" /\ key.bytes # NoKey
  /\ record' = [record EXCEPT ![probe[q].client] = Sealed(q)]
  /\ Done(q, "stored")
  /\ UNCHANGED <<files, key, upsets>>

SealFails(q) ==
  /\ probe[q].pc = "seal" /\ key.bytes = NoKey
  /\ Done(q, "failed")
  /\ UNCHANGED <<files, key, record, upsets>>

---------------------------------------------------------------------------------
(* Everything else that happens. *)

Upset == upsets < MaxUpsets /\ upsets' = upsets + 1

\* Killed, or an error of the file system.
Stop(q) ==
  /\ probe[q].pc \notin ProbeEnded /\ Upset /\ Done(q, "idle")
  /\ UNCHANGED <<files, key, record>>

\* Thirty days pass, or the record is damaged by accident.
Spoil(c) ==
  /\ record[c].seal # NoKey /\ Upset
  /\ \E r \in {[record[c] EXCEPT !.old = TRUE], [record[c] EXCEPT !.seal = NoKey]} :
       record' = [record EXCEPT ![c] = r]
  /\ UNCHANGED <<files, key, probe>>

\* A file of the client changes, also between the two reads of a prober.
Rewrite(c) ==
  /\ Upset
  /\ \E f \in {[files[c] EXCEPT !.hooks = t] : t \in Texts \cup {"absent"}}
            \cup {[files[c] EXCEPT !.config = t] : t \in Texts \cup {"absent"}} :
       f # files[c] /\ files' = [files EXCEPT ![c] = f]
  /\ probe' = [q \in Probers |->
       IF probe[q].client # c THEN probe[q]
       ELSE IF probe[q].pc \in ProbeEnded THEN AtRest
       ELSE IF probe[q].pc = "config" THEN [probe[q] EXCEPT !.since = @ \cup {files'[c]}]
       ELSE probe[q]]
  /\ UNCHANGED <<key, record>>

Step(q) ==
  \/ ReadRecord(q) \/ ReadHooks(q) \/ ReadConfigToStore(q) \/ ReadConfigToLoad(q)
  \/ OpenKey(q) \/ FillKey(q) \/ Seal(q) \/ SealFails(q)

Next ==
  \/ \E q \in Probers, op \in {"store", "load"}, c \in Clients : Start(q, op, c)
  \/ \E q \in Probers : Step(q) \/ Stop(q)
  \/ \E c \in Clients : Spoil(c) \/ Rewrite(c)

Spec == Init /\ [][Next]_vars

---------------------------------------------------------------------------------
(* Properties. *)

TypeOK ==
  /\ files \in [Clients -> Seen]
  /\ key \in [made : BOOLEAN, bytes : Keys \cup {NoKey}]
  /\ record \in [Clients -> Records]
  /\ probe \in [Probers -> Probes]
  /\ \A q \in Probers : probe[q].pc \in {"open", "fill", "seal"} =>
       "absent" \notin {probe[q].about.hooks, probe[q].about.config}
  /\ upsets \in 0..MaxUpsets

\* The key outlives every record: however the first probes race and stop, the records of
\* both clients that nobody damaged are sealed with the key that is on disk.
SealsStay == \A c \in Clients : record[c].seal # NoKey => record[c].seal = key.bytes

\* When the loader gives a record out, the client's files are those the record is about,
\* unless hooks.json changed between the loader's own two reads.
GivenIsCurrent ==
  \A q \in Probers :
    probe[q].pc = "given" /\ (\A f \in probe[q].since : f.hooks = probe[q].about.hooks) =>
      probe[q].found.about = files[probe[q].client]

=================================================================================
