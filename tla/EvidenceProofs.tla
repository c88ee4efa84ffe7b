----------------------------- MODULE EvidenceProofs -----------------------------
(* The key outlives every record, and a record that is given out is about the present
   files: for any clients, contents, probers, keys and number of upsets. *)
EXTENDS Evidence, TLAPS

\* A prober at work has a client; the one that has read hooks.json knows of every change
\* of the files since.
ProbersInv ==
  \A q \in Probers :
    /\ probe[q].pc \notin {"idle", "stored", "failed"} => probe[q].client \in Clients
    /\ probe[q].pc = "config" => files[probe[q].client] \in probe[q].since

\* What it has read of hooks.json was there.
HooksReadInv == \A q \in Probers : probe[q].pc = "config" => probe[q].about.hooks # "absent"

\* At most one prober fills the key, once, and nobody has sealed before.
KeyInv ==
  /\ key.bytes # NoKey => key.made
  /\ \A q \in Probers : probe[q].pc = "fill" => key.made /\ key.bytes = NoKey
  /\ \A q, r \in Probers : probe[q].pc = "fill" /\ probe[r].pc = "fill" => q = r

IInv == TypeOK /\ ProbersInv /\ HooksReadInv /\ KeyInv /\ SealsStay /\ GivenIsCurrent

\* Nobody has done anything yet.
LEMMA InitInv == Init => IInv
BY EvidenceAssumption DEF Init, IInv, TypeOK, ProbersInv, HooksReadInv, KeyInv, SealsStay, GivenIsCurrent,
   Seen, Unread, Records, Nothing, Probes, AtRest, ProbeEnded

---------------------------------------------------------------------------------
(* The steps of a prober change one prober.  What such a change has to keep is the same
   for all of them. *)

\* One prober goes on as r; the files stay.  The key may only gain its bytes while its maker
\* is at it, and records are sealed with the key there is.
Sound(q, r) ==
  /\ r \in Probes
  /\ r.pc \in {"open", "fill", "seal"} => "absent" \notin {r.about.hooks, r.about.config}
  /\ r.pc \notin {"idle", "stored", "failed"} => r.client \in Clients
  /\ r.pc = "config" => files[r.client] \in r.since /\ r.about.hooks # "absent"
  /\ r.pc = "given" /\ (\A f \in r.since : f.hooks = r.about.hooks) =>
       r.found.about = files[r.client]

\* A change of one prober that neither fills the key nor is about to keeps the invariant.
LEMMA OneProber ==
  ASSUME IInv, NEW q \in Probers, NEW r, Sound(q, r), r.pc # "fill",
         probe' = [probe EXCEPT ![q] = r], UNCHANGED <<files, key, record>>,
         upsets' \in 0..MaxUpsets
  PROVE  IInv'
<1>1. TypeOK'
  BY DEF IInv, TypeOK, Sound
<1>2. ProbersInv' /\ HooksReadInv'
  BY DEF IInv, TypeOK, ProbersInv, HooksReadInv, Sound
<1>3. KeyInv'
  BY DEF IInv, TypeOK, KeyInv
<1>4. SealsStay'
  BY DEF IInv, SealsStay
<1>5. GivenIsCurrent'
  BY DEF IInv, TypeOK, GivenIsCurrent, Sound
<1> QED
  BY <1>1, <1>2, <1>3, <1>4, <1>5 DEF IInv

\* A prober that is done, one way or the other, has nothing to keep.
LEMMA Rested ==
  ASSUME NEW q \in Probers, NEW p \in {"idle", "stored", "failed"}
  PROVE  Sound(q, [AtRest EXCEPT !.pc = p]) /\ [AtRest EXCEPT !.pc = p].pc # "fill"
BY EvidenceAssumption DEF Sound, AtRest, Probes, Seen, Unread, Records, Nothing

LEMMA DoneKeeps ==
  ASSUME IInv, NEW q \in Probers, NEW p \in {"idle", "stored", "failed"}, Done(q, p),
         UNCHANGED <<files, key, record>>, upsets' \in 0..MaxUpsets
  PROVE  IInv'
BY Rested, OneProber DEF Done

LEMMA StartKeeps ==
  ASSUME IInv, NEW q \in Probers, NEW op \in {"store", "load"}, NEW c \in Clients, Start(q, op, c)
  PROVE  IInv'
<1> DEFINE r == [AtRest EXCEPT !.op = op, !.client = c, !.pc = IF op = "store" THEN "hooks" ELSE "record"]
<1>1. Sound(q, r) /\ r.pc # "fill"
  BY EvidenceAssumption DEF Sound, AtRest, Probes, Seen, Unread, Records, Nothing
<1>2. probe' = [probe EXCEPT ![q] = r] /\ UNCHANGED <<files, key, record>> /\ upsets' \in 0..MaxUpsets
  BY DEF Start, IInv, TypeOK
<1> QED
  BY <1>1, <1>2, OneProber

LEMMA ReadRecordKeeps ==
  ASSUME IInv, NEW q \in Probers, ReadRecord(q)
  PROVE  IInv'
<1> DEFINE r == [probe[q] EXCEPT !.pc = "hooks", !.found = record[probe[q].client]]
<1>0. probe[q] \in Probes /\ probe[q].client \in Clients /\ upsets' \in 0..MaxUpsets
  BY DEF IInv, TypeOK, ProbersInv, ReadRecord
<1>1. CASE Intact(record[probe[q].client])
  <2>1. record[probe[q].client] \in Records
    BY <1>0 DEF IInv, TypeOK
  <2>2. Sound(q, r) /\ r.pc # "fill"
    BY <1>0, <2>1 DEF Sound, Probes
  <2>3. probe' = [probe EXCEPT ![q] = r]
    BY <1>1, <1>0 DEF ReadRecord, IInv, TypeOK, Probes
  <2> QED
    BY <1>0, <2>2, <2>3, OneProber DEF ReadRecord
<1>2. CASE ~Intact(record[probe[q].client])
  BY <1>2, <1>0, DoneKeeps DEF ReadRecord
<1> QED
  BY <1>1, <1>2

LEMMA ReadHooksKeeps ==
  ASSUME IInv, NEW q \in Probers, ReadHooks(q)
  PROVE  IInv'
<1> DEFINE f == files[probe[q].client]
           r == [probe[q] EXCEPT !.pc = "config", !.about.hooks = f.hooks, !.since = {f}]
<1>0. probe[q] \in Probes /\ probe[q].client \in Clients /\ upsets' \in 0..MaxUpsets
  BY DEF IInv, TypeOK, ProbersInv, ReadHooks
<1>1. CASE f.hooks # "absent"
  <2>1. f \in Seen
    BY <1>0 DEF IInv, TypeOK
  <2>2. Sound(q, r) /\ r.pc # "fill"
    BY <1>0, <1>1, <2>1 DEF Sound, Probes, Seen
  <2>3. probe' = [probe EXCEPT ![q] = r]
    BY <1>1, <1>0 DEF ReadHooks, IInv, TypeOK, Probes
  <2> QED
    BY <1>0, <2>2, <2>3, OneProber DEF ReadHooks
<1>2. CASE f.hooks = "absent"
  BY <1>2, <1>0, DoneKeeps DEF ReadHooks
<1> QED
  BY <1>1, <1>2

LEMMA ReadConfigToStoreKeeps ==
  ASSUME IInv, NEW q \in Probers, ReadConfigToStore(q)
  PROVE  IInv'
<1> DEFINE f == files[probe[q].client]
           r == [probe[q] EXCEPT !.pc = "open", !.about.config = f.config]
<1>0. probe[q] \in Probes /\ probe[q].client \in Clients /\ upsets' \in 0..MaxUpsets
  BY DEF IInv, TypeOK, ProbersInv, ReadConfigToStore
<1>1. CASE f.config # "absent"
  <2>1. f \in Seen
    BY <1>0 DEF IInv, TypeOK
  <2>2. probe[q].about.hooks # "absent"
    BY <1>0 DEF IInv, HooksReadInv, ReadConfigToStore
  <2>3. Sound(q, r) /\ r.pc # "fill"
    BY <1>0, <1>1, <2>1, <2>2 DEF Sound, Probes, Seen
  <2>4. probe' = [probe EXCEPT ![q] = r]
    BY <1>1, <1>0 DEF ReadConfigToStore, IInv, TypeOK, Probes
  <2> QED
    BY <1>0, <2>3, <2>4, OneProber DEF ReadConfigToStore
<1>2. CASE f.config = "absent"
  BY <1>2, <1>0, DoneKeeps DEF ReadConfigToStore
<1> QED
  BY <1>1, <1>2

\* A record is given only if it is about what hooks.json was and what the config is; when
\* hooks.json has not changed since, that is what the files are.
LEMMA ReadConfigToLoadKeeps ==
  ASSUME IInv, NEW q \in Probers, ReadConfigToLoad(q)
  PROVE  IInv'
<1> DEFINE f == files[probe[q].client]
           r == [probe[q] EXCEPT !.pc = "given"]
<1>0. probe[q] \in Probes /\ probe[q].client \in Clients /\ upsets' \in 0..MaxUpsets
  BY DEF IInv, TypeOK, ProbersInv, ReadConfigToLoad
<1>1. CASE probe[q].found.about = [probe[q].about EXCEPT !.config = f.config]
  <2>1. f \in Seen /\ f \in probe[q].since
    BY <1>0 DEF IInv, TypeOK, ProbersInv, ReadConfigToLoad
  <2>2. f.hooks = probe[q].about.hooks => probe[q].found.about = f
    BY <1>0, <1>1, <2>1 DEF Probes, Seen
  <2>3. Sound(q, r) /\ r.pc # "fill"
    BY <1>0, <2>1, <2>2 DEF Sound, Probes
  <2>4. probe' = [probe EXCEPT ![q] = r]
    BY <1>1 DEF ReadConfigToLoad
  <2> QED
    BY <1>0, <2>3, <2>4, OneProber DEF ReadConfigToLoad
<1>2. CASE probe[q].found.about # [probe[q].about EXCEPT !.config = f.config]
  BY <1>2, <1>0, DoneKeeps DEF ReadConfigToLoad
<1> QED
  BY <1>1, <1>2

---------------------------------------------------------------------------------
(* The key. *)

\* Only the prober that makes the key becomes its filler, and then no one else is.
LEMMA OpenKeyKeeps ==
  ASSUME IInv, NEW q \in Probers, OpenKey(q)
  PROVE  IInv'
<1> DEFINE r == [probe[q] EXCEPT !.pc = IF key.made THEN "seal" ELSE "fill"]
<1>0. /\ probe[q] \in Probes /\ probe[q].client \in Clients /\ upsets' \in 0..MaxUpsets
      /\ probe' = [probe EXCEPT ![q] = r] /\ UNCHANGED <<files, record>>
      /\ key' = [made |-> TRUE, bytes |-> key.bytes] /\ key'.bytes = key.bytes
      /\ key.bytes \in Keys \cup {NoKey}
  BY DEF IInv, TypeOK, ProbersInv, OpenKey
<1>1. Sound(q, r) /\ r.pc \in {"seal", "fill"}
  BY <1>0 DEF Sound, Probes, IInv, TypeOK, OpenKey
<1>2. TypeOK'
  BY <1>0, <1>1 DEF IInv, TypeOK, Sound
<1>3. ProbersInv' /\ HooksReadInv'
  BY <1>0, <1>1 DEF IInv, TypeOK, ProbersInv, HooksReadInv, Sound
<1>4. KeyInv'
  <2>1. CASE key.made
    BY <1>0, <2>1 DEF IInv, TypeOK, KeyInv
  <2>2. CASE ~key.made
    BY <1>0, <2>2 DEF IInv, TypeOK, KeyInv
  <2> QED
    BY <2>1, <2>2
<1>5. SealsStay'
  BY <1>0 DEF IInv, SealsStay
<1>6. GivenIsCurrent'
  BY <1>0, <1>1 DEF IInv, TypeOK, GivenIsCurrent, Sound
<1> QED
  BY <1>2, <1>3, <1>4, <1>5, <1>6 DEF IInv

\* No record is sealed while the key is empty.
LEMMA FillKeyKeeps ==
  ASSUME IInv, NEW q \in Probers, FillKey(q)
  PROVE  IInv'
<1> DEFINE r == [probe[q] EXCEPT !.pc = "seal"]
<1>0. /\ probe[q] \in Probes /\ probe[q].client \in Clients /\ upsets' \in 0..MaxUpsets
      /\ probe' = [probe EXCEPT ![q] = r] /\ UNCHANGED <<files, record>>
      /\ key.bytes = NoKey /\ key.made
  BY DEF IInv, TypeOK, ProbersInv, KeyInv, FillKey
<1>1. PICK k \in Keys : key' = [key EXCEPT !.bytes = k]
  BY DEF FillKey
<1>2. key' = [made |-> TRUE, bytes |-> k]
  BY <1>0, <1>1 DEF IInv, TypeOK
<1>3. Sound(q, r) /\ r.pc = "seal"
  BY <1>0 DEF Sound, Probes, IInv, TypeOK, FillKey
<1>4. TypeOK'
  BY <1>0, <1>2, <1>3 DEF IInv, TypeOK, Sound
<1>5. ProbersInv' /\ HooksReadInv'
  BY <1>0, <1>3 DEF IInv, TypeOK, ProbersInv, HooksReadInv, Sound
<1>6. KeyInv'
  BY <1>0, <1>2, <1>3 DEF IInv, TypeOK, KeyInv, FillKey
<1>7. SealsStay'
  BY <1>0 DEF IInv, SealsStay, TypeOK, Records
<1>8. GivenIsCurrent'
  BY <1>0, <1>3 DEF IInv, TypeOK, GivenIsCurrent, Sound
<1> QED
  BY <1>4, <1>5, <1>6, <1>7, <1>8 DEF IInv

LEMMA SealKeeps ==
  ASSUME IInv, NEW q \in Probers, Seal(q)
  PROVE  IInv'
<1> DEFINE r == [AtRest EXCEPT !.pc = "stored"]
<1>0. /\ probe[q] \in Probes /\ probe[q].client \in Clients /\ upsets' \in 0..MaxUpsets
      /\ probe' = [probe EXCEPT ![q] = r] /\ UNCHANGED <<files, key>>
      /\ record' = [record EXCEPT ![probe[q].client] = Sealed(q)]
      /\ key.bytes \in Keys
  BY DEF IInv, TypeOK, ProbersInv, Seal, Done
<1>1. Sealed(q) \in Records /\ Sealed(q).seal = key.bytes
  BY <1>0 DEF Sealed, Records, Probes
<1>2. Sound(q, r) /\ r.pc = "stored"
  BY Rested DEF AtRest
<1>3. TypeOK'
  BY <1>0, <1>1, <1>2 DEF IInv, TypeOK, Sound
<1>4. ProbersInv' /\ HooksReadInv'
  BY <1>0, <1>2 DEF IInv, TypeOK, ProbersInv, HooksReadInv, Sound
<1>5. KeyInv'
  BY <1>0, <1>2 DEF IInv, TypeOK, KeyInv
<1>6. SealsStay'
  BY <1>0, <1>1 DEF IInv, TypeOK, SealsStay
<1>7. GivenIsCurrent'
  BY <1>0, <1>2 DEF IInv, TypeOK, GivenIsCurrent, Sound
<1> QED
  BY <1>3, <1>4, <1>5, <1>6, <1>7 DEF IInv

---------------------------------------------------------------------------------
(* Everything else, and the theorems. *)

\* A record grows old or loses its seal: nothing else changes.
LEMMA SpoilKeeps ==
  ASSUME IInv, NEW c \in Clients, Spoil(c)
  PROVE  IInv'
<1>0. UNCHANGED <<files, key, probe>> /\ upsets' \in 0..MaxUpsets
  BY EvidenceAssumption DEF IInv, TypeOK, Spoil, Upset
<1>1. record[c] \in Records
  BY DEF IInv, TypeOK
<1>2. PICK r \in {[record[c] EXCEPT !.old = TRUE], [record[c] EXCEPT !.seal = NoKey]} :
        record' = [record EXCEPT ![c] = r]
  BY DEF Spoil
<1>3. r \in Records /\ r.seal \in {NoKey, record[c].seal}
  BY <1>1 DEF Records
<1>4. TypeOK'
  BY <1>0, <1>2, <1>3 DEF IInv, TypeOK
<1>5. ProbersInv' /\ HooksReadInv' /\ KeyInv' /\ GivenIsCurrent'
  BY <1>0 DEF IInv, ProbersInv, HooksReadInv, KeyInv, GivenIsCurrent
<1>6. SealsStay'
  BY <1>0, <1>2, <1>3 DEF IInv, TypeOK, SealsStay
<1> QED
  BY <1>4, <1>5, <1>6 DEF IInv

\* The files of a client change: what was given about them is not a statement about the
\* present any more, and a prober between its two reads takes note.
LEMMA RewriteKeeps ==
  ASSUME IInv, NEW c \in Clients, Rewrite(c)
  PROVE  IInv'
<1>0. UNCHANGED <<key, record>> /\ upsets' \in 0..MaxUpsets
  BY EvidenceAssumption DEF IInv, TypeOK, Rewrite, Upset
<1>1. files[c] \in Seen
  BY DEF IInv, TypeOK
<1>2. PICK f \in Seen : files' = [files EXCEPT ![c] = f]
  BY <1>1 DEF Rewrite, Seen
<1>3. files' \in [Clients -> Seen] /\ files'[c] = f /\ \A d \in Clients \ {c} : files'[d] = files[d]
  BY <1>2 DEF IInv, TypeOK
<1> DEFINE r(q) == IF probe[q].client # c THEN probe[q]
                   ELSE IF probe[q].pc \in ProbeEnded THEN AtRest
                   ELSE IF probe[q].pc = "config" THEN [probe[q] EXCEPT !.since = @ \cup {f}]
                   ELSE probe[q]
<1>4. probe' = [q \in Probers |-> r(q)]
  BY <1>3 DEF Rewrite
<1>5. ASSUME NEW q \in Probers
      PROVE  /\ r(q) \in Probes
             /\ r(q).pc \in {probe[q].pc, "idle"}
             /\ r(q).pc \in {"open", "fill", "seal"} => "absent" \notin {r(q).about.hooks, r(q).about.config}
             /\ r(q).pc \notin {"idle", "stored", "failed"} => r(q).client \in Clients
             /\ r(q).pc = "config" => files'[r(q).client] \in r(q).since /\ r(q).about.hooks # "absent"
             /\ r(q).pc = "given" /\ (\A g \in r(q).since : g.hooks = r(q).about.hooks) =>
                  r(q).found.about = files'[r(q).client]
  <2>0. probe[q] \in Probes
    BY DEF IInv, TypeOK
  <2>1. CASE probe[q].client # c
    BY <1>3, <2>0, <2>1 DEF IInv, TypeOK, ProbersInv, HooksReadInv, GivenIsCurrent
  <2>2. CASE probe[q].client = c /\ probe[q].pc \in ProbeEnded
    BY <2>2, Rested, EvidenceAssumption DEF AtRest, Probes, Seen, Unread, Records, Nothing
  <2>3. CASE probe[q].client = c /\ probe[q].pc = "config"
    BY <1>3, <2>0, <2>3 DEF Probes, ProbeEnded, IInv, TypeOK, HooksReadInv
  <2>4. CASE probe[q].client = c /\ probe[q].pc \notin ProbeEnded \cup {"config"}
    BY <2>0, <2>4 DEF ProbeEnded, IInv, TypeOK
  <2> QED
    BY <2>1, <2>2, <2>3, <2>4
<1> HIDE DEF r
<1>6. TypeOK'
  BY <1>0, <1>3, <1>4, <1>5 DEF IInv, TypeOK
<1>7. ProbersInv' /\ HooksReadInv'
  BY <1>4, <1>5 DEF ProbersInv, HooksReadInv
<1>8. KeyInv'
  BY <1>0, <1>4, <1>5 DEF IInv, KeyInv
<1>9. SealsStay'
  BY <1>0 DEF IInv, SealsStay
<1>10. GivenIsCurrent'
  BY <1>4, <1>5 DEF GivenIsCurrent
<1> QED
  BY <1>6, <1>7, <1>8, <1>9, <1>10 DEF IInv

LEMMA NextInv ==
  ASSUME IInv, Next
  PROVE  IInv'
<1>1. CASE \E q \in Probers, op \in {"store", "load"}, c \in Clients : Start(q, op, c)
  BY <1>1, StartKeeps
<1>2. ASSUME NEW q \in Probers, Step(q)
      PROVE  IInv'
  <2>1. SealFails(q) => IInv'
    BY DoneKeeps DEF SealFails, IInv, TypeOK
  <2> QED
    BY <1>2, <2>1, ReadRecordKeeps, ReadHooksKeeps, ReadConfigToStoreKeeps,
       ReadConfigToLoadKeeps, OpenKeyKeeps, FillKeyKeeps, SealKeeps DEF Step
<1>3. ASSUME NEW q \in Probers, Stop(q)
      PROVE  IInv'
  <2>1. upsets' \in 0..MaxUpsets
    BY <1>3, EvidenceAssumption DEF Stop, Upset, IInv, TypeOK
  <2> QED
    BY <1>3, <2>1, DoneKeeps DEF Stop
<1>4. CASE \E c \in Clients : Spoil(c) \/ Rewrite(c)
  BY <1>4, SpoilKeeps, RewriteKeeps
<1> QED
  BY <1>1, <1>2, <1>3, <1>4 DEF Next

LEMMA StutterInv ==
  ASSUME IInv, UNCHANGED vars
  PROVE  IInv'
BY DEF IInv, TypeOK, ProbersInv, HooksReadInv, KeyInv, SealsStay, GivenIsCurrent, vars, Intact

LEMMA Inductive == Spec => []IInv
<1>1. IInv /\ [Next]_vars => IInv'
  BY NextInv, StutterInv
<1> QED
  BY InitInv, <1>1, PTL DEF Spec

\* Every variable keeps its type; nothing is sealed that was not read (store_candidate_evidence).
THEOREM TypeCorrect == Spec => []TypeOK
<1>1. IInv => TypeOK
  BY DEF IInv
<1> QED
  BY Inductive, <1>1, PTL

\* However probers race for the making of the key and die at it (_key), every undamaged
\* record is sealed with the key on disk.
THEOREM TheKeyOutlivesItsRecords == Spec => []SealsStay
<1>1. IInv => SealsStay
  BY DEF IInv
<1> QED
  BY Inductive, <1>1, PTL

\* What load_candidate_evidence gives out is about the present files, unless hooks.json
\* changed between its two reads.
THEOREM NothingStaleIsGiven == Spec => []GivenIsCurrent
<1>1. IInv => GivenIsCurrent
  BY DEF IInv
<1> QED
  BY Inductive, <1>1, PTL

=================================================================================
