------------------------------ MODULE ContextProofs ------------------------------
(* A bundle keeps its limits, has each note once, has them all if it says so, and is the
   longest that fits: for any number of notes, any lengths, any answers of Basic Memory. *)
EXTENDS Context, SequenceTheorems, WellFoundedInduction, TLAPS

Distinct(s) == \A m, n \in DOMAIN s : s[m].key = s[n].key => m = n

\* The first k results of the query are among what there is to give.
Covers(k) == \A n \in 1..k : \E m \in DOMAIN cands : cands[m].key = page[n].key

\* What is given is the front of what there is to give, or its first note, cut.
Front == Len(kept) <= Len(cands) /\ \A n \in 1..Len(kept) : kept[n] = cands[n]
Cut == pc = "given" /\ truncated /\ Len(kept) = 1 /\ cands # <<>> /\ kept[1].key = cands[1].key

\* The searches that were called for.
Called == {q \in {"state", "query"} : request[q]}

\* What each stage has done.
Untouched == answered = {} /\ found = <<>> /\ page = <<>> /\ cands = <<>>
Unspent == at = 1 /\ kept = <<>> /\ used = 0 /\ ~truncated
Stages ==
  /\ pc \in {"idle", "state", "read"} => Untouched /\ Unspent
  /\ pc = "state" => request.by # "read" /\ request.state
  /\ pc = "read" => request.by = "read"
  /\ pc = "query" =>
       /\ request.by # "read" /\ request.query /\ Unspent /\ page = <<>>
       /\ answered = {q \in {"state"} : request[q]}
  /\ pc = "collect" =>
       /\ request.by # "read" /\ answered = Called
       /\ kept = <<>> /\ used = 0 /\ ~truncated
       /\ at <= Len(page) + 1 /\ Covers(at - 1)
  /\ pc = "budget" =>
       /\ request.by # "read" /\ answered = Called
       /\ Covers(Len(page)) /\ Front /\ Len(kept) = at - 1
       /\ at <= Offered + 1 /\ (truncated <=> Len(cands) > request.items)
  /\ pc \in {"refused", "failed"} => kept = <<>> /\ used = 0
  /\ pc = "given" /\ kept # <<>> =>
       answered = IF request.by = "read" THEN {"note"} ELSE Called
  /\ pc = "given" /\ request.by = "read" => found = <<>> /\ page = <<>> /\ Len(kept) <= 1
  /\ pc = "given" /\ request.by # "read" =>
       /\ Front \/ Cut
       /\ truncated \/ (Covers(Len(page)) /\ Len(kept) = Len(cands))

\* The current state comes first, no permalink comes twice, and nothing is made up.
Ordered ==
  /\ Len(found) <= 1 /\ Distinct(cands) /\ \A n \in DOMAIN cands : cands[n] \in Handed
  /\ found # <<>> => cands # <<>> /\ cands[1] = found[1]

IInv == TypeOK /\ Stages /\ Ordered /\ WithinBudget

---------------------------------------------------------------------------------
(* Sequences. *)

LEMMA PagesAreSequences == Pages \subseteq Seq(Items)
<1>. SUFFICES ASSUME NEW n \in 0..MaxPage, NEW raw \in [1..n -> Answers] PROVE raw \in Seq(Items)
  BY DEF Pages
<1>1. n \in Nat /\ Answers \subseteq Items
  <2>1. Heads \subseteq Nat /\ Bodies \subseteq Nat /\ MaxPage \in Nat
    BY ContextAssumption
  <2>2. \A i \in Answers : i \in Items
    BY <2>1 DEF Answers, Items
  <2>. QED
    BY <2>1, <2>2
<1>2. raw \in [1..n -> Items]
  BY <1>1
<1>. QED
  BY <1>1, <1>2, SeqDef

LEMMA AppendKeepsDistinct ==
  ASSUME NEW s \in Seq(Items), Distinct(s), NEW i \in Items,
         \A n \in DOMAIN s : s[n].key # i.key
  PROVE  Distinct(Append(s, i))
BY DEF Distinct

LEMMA EmptyIsShort == \A s : s = <<>> => Len(s) = 0
<1>1. Len(<<>>) = 0
  OBVIOUS
<1>. QED
  BY <1>1, Zenon

LEMMA LeastIs == \A a, b \in Int : Least(a, b) \in {a, b} /\ Least(a, b) <= a /\ Least(a, b) <= b
BY DEF Least

---------------------------------------------------------------------------------

LEMMA InitInv == Init => IInv
<1>. SUFFICES ASSUME Init PROVE IInv
  OBVIOUS
<1>1. <<>> \in Seq(Items) /\ Len(<<>>) = 0
  OBVIOUS
<1>2. request \in Requests
  BY ContextAssumption, ZenonT(30) DEF Init, Requests
<1>3. TypeOK
  <2>1. found \in Seq(Items) /\ page \in Seq(Items) /\ cands \in Seq(Items) /\ kept \in Seq(Items)
    BY <1>1, Zenon DEF Init
  <2>2. at \in Nat \ {0} /\ used \in Nat
    <3>1. at = 1 /\ used = 0
      BY Zenon DEF Init
    <3>. QED
      BY <3>1
  <2>4. truncated \in BOOLEAN
    BY Zenon DEF Init
  <2>3. answered \subseteq {"state", "query", "note"} /\ pc \in {"idle"}
    BY DEF Init
  <2>. QED
    BY <1>2, <2>1, <2>2, <2>3, <2>4 DEF TypeOK
<1>. QED
  BY <1>1, <1>2, <1>3 DEF Init, IInv, Stages, Ordered, Handed, WithinBudget, Untouched, Unspent, Distinct, TypeOK, Requests

LEMMA AskInv ==
  ASSUME IInv, NEW r \in Requests, NEW explicit, NEW configured, NEW directory,
         NEW payload \in Payloads, NEW flag \in BOOLEAN, NEW sound \in BOOLEAN, pc = "idle",
         Ask(r, explicit, configured, directory, payload, flag, sound)
  PROVE  IInv'
<1>0. Refuse(r) \/ \E idle \in BOOLEAN : Begin(r, idle, sound)
  <2>1. (payload = "later") \in BOOLEAN
    OBVIOUS
  <2>. QED
    BY <2>1, Zenon DEF Ask, HandleContext, PreInvocation, SessionStart, ReadNote
<1>1. Untouched /\ Unspent /\ Untouched' /\ Unspent'
  BY <1>0 DEF IInv, Stages, Refuse, Begin, Untouched, Unspent
<1>2. /\ pc' \in {"refused", "given", "failed", "read", "state", "query"}
      /\ pc' = "read" => r.by = "read"
      /\ pc' \in {"state", "query"} => r.by # "read" /\ (pc' = "state" <=> r.state)
      /\ pc' = "query" => r.query
      /\ r.by = "read" => pc' # "state" /\ pc' # "query"
  BY <1>0 DEF Refuse, Begin, First, Requests
<1>3. TypeOK'
  BY <1>0, <1>1, <1>2 DEF IInv, TypeOK, Refuse, Begin, Untouched, Unspent, Ended
<1>4. request' = r
  BY <1>0 DEF Refuse, Begin
<1>5. Stages'
  BY <1>1, <1>2, <1>4 DEF Stages, Untouched, Unspent, Covers, Front, Cut
<1>6. Ordered' /\ WithinBudget'
  BY <1>1, <1>3 DEF Ordered, Handed, WithinBudget, Untouched, Unspent, Distinct, TypeOK, Requests
<1>. QED
  BY <1>3, <1>5, <1>6 DEF IInv

LEMMA SearchFailsInv == ASSUME IInv, SearchFails PROVE IInv'
<1>1. TypeOK'
  BY DEF IInv, TypeOK, SearchFails, Ended
<1>2. Stages'
  BY DEF IInv, Stages, SearchFails, Unspent
<1>3. Ordered' /\ WithinBudget'
  BY DEF IInv, Ordered, Handed, WithinBudget, SearchFails, Distinct
<1>. QED
  BY <1>1, <1>2, <1>3 DEF IInv

LEMMA AnswerRefusedInv == ASSUME IInv, NEW raw, AnswerRefused(raw) PROVE IInv'
<1>1. TypeOK'
  BY DEF IInv, TypeOK, AnswerRefused, Ended
<1>2. Stages'
  BY DEF IInv, Stages, AnswerRefused, Unspent
<1>3. Ordered' /\ WithinBudget'
  BY DEF IInv, Ordered, Handed, WithinBudget, AnswerRefused, Distinct
<1>. QED
  BY <1>1, <1>2, <1>3 DEF IInv

LEMMA SearchStateInv == ASSUME IInv, NEW raw \in Pages, SearchState(raw) PROVE IInv'
<1>0. raw \in Seq(Items)
  BY PagesAreSequences
<1>1. found' \in Seq(Items) /\ Len(found') <= 1
  <2>1. CASE found' = <<>>
    BY <2>1
  <2>2. CASE \E n \in DOMAIN raw : found' = <<raw[n]>>
    BY <1>0, <2>2
  <2>. QED
    BY <2>1, <2>2 DEF SearchState
<1>2. TypeOK'
  BY <1>1 DEF IInv, TypeOK, SearchState, Ended
<1>3. Untouched /\ Unspent /\ request.by # "read" /\ request.state
  BY DEF IInv, Stages, SearchState
<1>4. Stages'
  <2>1. pc' = IF request.query THEN "query" ELSE "collect"
    BY DEF SearchState
  <2>2. Unspent' /\ page' = <<>> /\ request' = request /\ answered' = {"state"}
    BY <1>3 DEF SearchState, Unspent, Untouched
  <2>3. Len(page') = 0 /\ at' = 1
    BY <2>2 DEF Unspent
  <2>4. Covers(at - 1)'
    BY <2>3 DEF Covers
  <2>5. answered' = {q \in {"state"} : request'[q]}
    BY <1>3, <2>2
  <2>6. ~request.query => answered' = Called'
    BY <1>3, <2>2 DEF Called
  <2>. QED
    BY <1>3, <2>1, <2>2, <2>3, <2>4, <2>5, <2>6 DEF Stages, Unspent
<1>5. Ordered'
  BY <1>1 DEF SearchState, Ordered, Handed, Distinct
<1>6. WithinBudget'
  BY DEF IInv, WithinBudget, SearchState
<1>. QED
  BY <1>2, <1>4, <1>5, <1>6 DEF IInv

LEMMA SearchQueryInv == ASSUME IInv, NEW raw \in Pages, SearchQuery(raw) PROVE IInv'
<1>0. raw \in Seq(Items)
  BY PagesAreSequences
<1>1. TypeOK'
  BY <1>0 DEF IInv, TypeOK, SearchQuery, Ended
<1>2. Unspent /\ request.by # "read" /\ request.query /\ answered = {q \in {"state"} : request[q]}
  BY DEF IInv, Stages, SearchQuery
<1>3. Stages'
  <2>1. pc' = "collect" /\ request' = request /\ answered' = answered \cup {"query"} /\ at' = 1
        /\ kept' = <<>> /\ used' = 0 /\ truncated' = FALSE
    BY <1>2 DEF SearchQuery, Unspent, TypeOK, IInv
  <2>2. answered' = Called'
    BY <1>2, <2>1 DEF Called
  <2>3. Covers(at - 1)' /\ at' <= Len(page') + 1
    BY <1>1, <2>1 DEF Covers, TypeOK
  <2>. QED
    BY <1>2, <2>1, <2>2, <2>3 DEF Stages
<1>4. Ordered' /\ WithinBudget'
  <2>1. page = <<>> /\ UNCHANGED <<found, cands>>
    BY DEF IInv, Stages, SearchQuery
  <2>2. \A n \in DOMAIN cands' : cands'[n] \in Handed'
    BY <2>1 DEF IInv, Ordered, Handed
  <2>. QED
    BY <2>1, <2>2 DEF IInv, Ordered, WithinBudget, SearchQuery, Distinct
<1>. QED
  BY <1>1, <1>3, <1>4 DEF IInv

LEMMA ReadInv == ASSUME IInv, NEW i \in Answers, Read(i) PROVE IInv'
<1>1. i \in Items
  BY ContextAssumption DEF Answers, Items
<1>2. TypeOK'
  BY <1>1 DEF IInv, TypeOK, Read, Ended
<1>3. Untouched /\ request.by = "read"
  BY DEF IInv, Stages, Read
<1>4. Stages'
  BY <1>3 DEF Stages, Read, Untouched
<1>5. Ordered' /\ WithinBudget'
  BY <1>3 DEF IInv, Ordered, Handed, WithinBudget, Read, Distinct
<1>. QED
  BY <1>2, <1>4, <1>5 DEF IInv

LEMMA CollectInv == ASSUME IInv, Collect PROVE IInv'
<1>1. page[at] \in Items /\ cands \in Seq(Items) /\ at \in Nat \ {0} /\ at <= Len(page)
  BY DEF IInv, TypeOK, Collect
<1>2. \/ cands' = cands /\ \E n \in DOMAIN cands : cands[n].key = page[at].key
      \/ cands' = Append(cands, page[at]) /\ \A n \in DOMAIN cands : cands[n].key # page[at].key
  BY DEF Collect
<1>3. /\ cands' \in Seq(Items) /\ Len(cands') >= Len(cands)
      /\ \A n \in DOMAIN cands : n \in DOMAIN cands' /\ cands'[n] = cands[n]
      /\ \E n \in DOMAIN cands' : cands'[n].key = page[at].key
  <2>1. CASE cands' = cands
    BY <1>1, <1>2, <2>1
  <2>2. CASE cands' = Append(cands, page[at])
    <3>1. Len(cands) + 1 \in DOMAIN cands' /\ cands'[Len(cands) + 1] = page[at]
      BY <1>1, <2>2
    <3>. QED
      BY <1>1, <2>2, <3>1
  <2>. QED
    BY <1>2, <2>1, <2>2
<1>4. TypeOK'
  BY <1>1, <1>3 DEF IInv, TypeOK, Collect, Ended
<1>5. Stages'
  <2>1. request.by # "read" /\ answered = Called /\ kept = <<>> /\ used = 0 /\ ~truncated /\ Covers(at - 1)
    BY DEF IInv, Stages, Collect
  <2>2. Covers(at - 1)'
    <3>. SUFFICES ASSUME NEW n \in 1..at PROVE \E m \in DOMAIN cands' : cands'[m].key = page[n].key
      BY <1>1 DEF Covers, Collect
    <3>1. CASE n = at
      BY <3>1, <1>3
    <3>2. CASE n \in 1..(at - 1)
      BY <3>2, <2>1, <1>3 DEF Covers
    <3>. QED
      BY <3>1, <3>2, <1>1
  <2>. QED
    BY <1>1, <2>1, <2>2 DEF Stages, Collect, Called
<1>6. Ordered'
  <2>1. Distinct(cands')
    BY <1>1, <1>2, AppendKeepsDistinct DEF IInv, Ordered, Handed
  <2>. QED
    BY <1>1, <1>3, <2>1 DEF IInv, Ordered, Handed, Collect
<1>7. WithinBudget'
  BY DEF IInv, WithinBudget, Collect
<1>. QED
  BY <1>4, <1>5, <1>6, <1>7 DEF IInv

LEMMA CollectedInv == ASSUME IInv, Collected PROVE IInv'
<1>1. TypeOK'
  BY DEF IInv, TypeOK, Collected, Ended
<1>2. Stages'
  <2>1. /\ request.by # "read" /\ answered = Called /\ kept = <<>> /\ used = 0
        /\ Covers(at - 1) /\ at - 1 = Len(page)
    BY DEF IInv, Stages, Collected, TypeOK
  <2>2. Offered' \in Nat
    BY <1>1, LeastIs DEF Offered, TypeOK, Requests
  <2>3. Front' /\ Covers(Len(page))'
    BY <2>1, <1>1 DEF Front, Covers, Collected, TypeOK
  <2>4. /\ truncated' = (Len(cands) > request.items) /\ at' = 1 /\ kept' = <<>>
        /\ cands' = cands /\ request' = request
    BY <2>1, Zenon DEF Collected
  <2>5. at' = 1 /\ at' <= Offered' + 1
    <3>1. at' = 1
      BY <2>4, Zenon
    <3>2. \A o \in Nat : 1 <= o + 1
      OBVIOUS
    <3>. QED
      BY <2>2, <3>1, <3>2, Zenon
  <2>6. Len(kept') = at' - 1
    <3>1. Len(kept') = 0
      BY <2>4, EmptyIsShort, Zenon
    <3>. QED
      BY <2>5, <3>1
  <2>7. truncated' <=> Len(cands') > request'.items
    BY <2>4, Zenon
  <2>. QED
    BY <2>1, <2>3, <2>5, <2>6, <2>7 DEF Stages, Collected, Called
<1>3. Ordered' /\ WithinBudget'
  BY DEF IInv, Ordered, Handed, WithinBudget, Collected, Distinct
<1>. QED
  BY <1>1, <1>2, <1>3 DEF IInv

\* What the loop over the budget knows when it looks at the next note.
LEMMA Budgeting ==
  ASSUME IInv, pc = "budget", at <= Offered
  PROVE  /\ at \in 1..Len(cands) /\ at <= request.items /\ cands[at] \in Items
         /\ Len(kept) = at - 1 /\ Front /\ request.by # "read" /\ answered = Called
         /\ Covers(Len(page)) /\ (truncated <=> Len(cands) > request.items)
         /\ Size(cands[at]) \in Nat /\ Needed \in Nat
         /\ request.items \in Nat /\ request.chars \in Nat
<1>1. request.items \in Nat /\ request.chars \in Nat
  BY DEF IInv, TypeOK, Requests
<1>2. Offered <= Len(cands) /\ Offered <= request.items
  BY <1>1, LeastIs DEF Offered, IInv, TypeOK
<1>3. at \in 1..Len(cands) /\ at <= request.items
  BY <1>1, <1>2, LeastIs DEF IInv, TypeOK, Offered
<1>4. cands[at] \in Items
  BY <1>3 DEF IInv, TypeOK
<1>5. Size(cands[at]) \in Nat
  BY <1>4 DEF Size, Items
<1>6. Needed \in Nat
  BY <1>5 DEF Needed, Separator, IInv, TypeOK
<1>. QED
  BY <1>1, <1>3, <1>4, <1>5, <1>6 DEF IInv, Stages

LEMMA KeepInv == ASSUME IInv, Keep PROVE IInv'
<1>1. pc = "budget" /\ at <= Offered
  BY DEF Keep
<1>2. kept' = Append(kept, cands[at]) /\ kept \in Seq(Items) /\ Len(kept') = at
  BY <1>1, Budgeting DEF Keep, IInv, TypeOK
<1>3. TypeOK'
  BY <1>1, <1>2, Budgeting DEF IInv, TypeOK, Keep, Ended
<1>4. Front'
  <2>1. \A n \in 1..Len(kept') : kept'[n] = cands[n]
    BY <1>1, <1>2, Budgeting DEF Front
  <2>. QED
    BY <1>1, <1>2, <2>1, Budgeting DEF Front, Keep
<1>5. Stages'
  <2>1. Len(kept') = at' - 1 /\ at' <= Offered' + 1
    <3>1. at' = at + 1 /\ cands' = cands /\ request' = request
      BY Zenon DEF Keep
    <3>2. Offered' = Offered
      BY <3>1, Zenon DEF Offered, Least
    <3>3. Offered \in Int
      BY <1>1, Budgeting, LeastIs DEF Offered, IInv, TypeOK
    <3>. QED
      BY <1>1, <1>2, <3>1, <3>2, <3>3, Budgeting
  <2>2. Covers(Len(page))' /\ Called' = Called
    BY <1>1, Budgeting DEF Keep, Covers, Called
  <2>3. truncated' <=> Len(cands') > request'.items
    BY <1>1, Budgeting DEF Keep
  <2>4. pc' = "budget" /\ request'.by # "read" /\ answered' = Called
    BY <1>1, Budgeting DEF Keep
  <2>. QED
    BY <1>4, <2>1, <2>2, <2>3, <2>4 DEF Stages
<1>6. Ordered'
  BY DEF IInv, Ordered, Handed, Keep, Distinct
<1>7. WithinBudget'
  BY <1>1, <1>2, Budgeting DEF WithinBudget, Keep, Fits
<1>. QED
  BY <1>3, <1>5, <1>6, <1>7 DEF IInv

\* A note is shortened to one that fits, or to nothing.
LEMMA ShortenFits ==
  ASSUME TypeOK, NEW i \in Items
  PROVE  /\ Shorten(i) \in Seq(Items)
         /\ \/ Shorten(i) = <<>>
            \/ /\ Len(Shorten(i)) = 1 /\ Shorten(i)[1].key = i.key
               /\ Size(Shorten(i)[1]) \in Nat /\ Size(Shorten(i)[1]) <= request.chars
<1>1. request.chars \in Nat /\ i.head \in Nat /\ i.key \in Keys /\ Marker \in Nat
  BY ContextAssumption DEF TypeOK, Requests, Items
<1>2. CASE i.head > request.chars
  BY <1>2 DEF Shorten
<1>3. CASE i.head <= request.chars /\ i.head + 2 + Marker > request.chars
  <2>. DEFINE j == [i EXCEPT !.body = 0]
  <2>1. Shorten(i) = <<j>>
    BY <1>1, <1>3 DEF Shorten
  <2>2. j \in Items /\ Size(j) = i.head /\ j.key = i.key
    BY <1>1 DEF Items, Size
  <2>3. <<j>> \in Seq(Items) /\ Len(<<j>>) = 1 /\ <<j>>[1] = j
    BY <2>2
  <2>. QED
    BY <1>1, <1>3, <2>1, <2>2, <2>3
<1>4. CASE i.head + 2 + Marker <= request.chars
  <2>. DEFINE j == [i EXCEPT !.body = request.chars - i.head - 2]
  <2>1. Shorten(i) = <<j>>
    BY <1>1, <1>4 DEF Shorten
  <2>2. request.chars - i.head - 2 \in Nat
    BY <1>1, <1>4
  <2>3. j \in Items /\ j.key = i.key /\ j.head = i.head /\ j.body = request.chars - i.head - 2
    BY <1>1, <2>2 DEF Items
  <2>4. Size(j) \in Nat /\ Size(j) <= request.chars
    BY <1>1, <1>4, <2>2, <2>3 DEF Size
  <2>5. <<j>> \in Seq(Items) /\ Len(<<j>>) = 1 /\ <<j>>[1] = j
    BY <2>3
  <2>. QED
    BY <2>1, <2>3, <2>4, <2>5
<1>. QED
  BY <1>1, <1>2, <1>3, <1>4

LEMMA StopInv == ASSUME IInv, Stop PROVE IInv'
<1>1. pc = "budget" /\ at <= Offered
  BY DEF Stop
<1>2. cands' = cands /\ request' = request /\ page' = page /\ found' = found
      /\ answered' = answered /\ pc' = "given" /\ truncated' = TRUE
  BY DEF Stop
<1>3. CASE kept # <<>>
  <2>1. kept' = kept /\ used' = used
    BY <1>3 DEF Stop
  <2>2. TypeOK'
    BY <1>2, <2>1 DEF Stop, IInv, TypeOK, Ended
  <2>3. Front'
    BY <1>1, <1>2, <2>1, Budgeting DEF Front
  <2>4. Stages'
    BY <1>1, <1>2, <2>1, <2>3, Budgeting DEF Stages, Called
  <2>5. Ordered' /\ WithinBudget'
    BY <1>2, <2>1 DEF IInv, Ordered, Handed, WithinBudget, Distinct
  <2>. QED
    BY <2>2, <2>4, <2>5 DEF IInv
<1>4. CASE kept = <<>>
  <2>1. kept' = Shorten(cands[at]) /\ at = 1 /\ cands # <<>>
    BY <1>1, <1>4, Budgeting DEF Stop
  <2>2. /\ kept' \in Seq(Items)
        /\ \/ kept' = <<>> /\ used' = 0
           \/ /\ Len(kept') = 1 /\ kept'[1].key = cands[1].key
              /\ used' \in Nat /\ used' <= request.chars
    <3>1. /\ kept' \in Seq(Items)
          /\ \/ kept' = <<>>
             \/ /\ Len(kept') = 1 /\ kept'[1].key = cands[1].key
                /\ Size(kept'[1]) \in Nat /\ Size(kept'[1]) <= request.chars
      BY <1>1, <2>1, Budgeting, ShortenFits DEF IInv
    <3>2. used' = IF kept' = <<>> THEN 0 ELSE Size(kept'[1])
      BY <1>4 DEF Stop
    <3>3. CASE kept' = <<>>
      BY <3>1, <3>2, <3>3
    <3>4. CASE kept' # <<>>
      <4>1. used' = Size(kept'[1])
        BY <3>2, <3>4
      <4>. QED
        BY <3>1, <3>4, <4>1, Zenon
    <3>. QED
      BY <3>3, <3>4
  <2>3. TypeOK'
    BY <1>2, <2>2 DEF Stop, IInv, TypeOK, Ended
  <2>4. Front' \/ Cut'
    BY <1>2, <2>1, <2>2 DEF Front, Cut, IInv, TypeOK
  <2>5. Stages'
    BY <1>1, <1>2, <2>4, Budgeting DEF Stages, Called
  <2>6. Ordered'
    BY <1>2 DEF IInv, Ordered, Handed, Distinct
  <2>7. WithinBudget'
    <3>1. Len(kept') <= 1 /\ 1 <= request.items /\ request.items \in Nat /\ request.chars \in Nat
      <4>1. Len(kept') = 0 \/ Len(kept') = 1
        BY <2>2, EmptyIsShort
      <4>2. 1 <= request.items /\ request.items \in Nat /\ request.chars \in Nat
        BY <1>1, <2>1, Budgeting
      <4>3. 0 <= 1 /\ 1 <= 1
        OBVIOUS
      <4>4. Len(kept') <= 1
        BY <4>1, <4>3, Zenon
      <4>. QED
        BY <4>2, <4>4, Zenon
    <3>2. Len(kept') \in Nat /\ used' <= request.chars
      BY <2>2, <3>1
    <3>. QED
      BY <1>2, <3>1, <3>2 DEF WithinBudget
  <2>. QED
    BY <2>3, <2>5, <2>6, <2>7 DEF IInv
<1>. QED
  BY <1>3, <1>4

LEMMA FinishInv == ASSUME IInv, Finish PROVE IInv'
<1>1. TypeOK'
  BY DEF IInv, TypeOK, Finish, Ended
<1>2. Stages'
  <2>1. /\ request.by # "read" /\ answered = Called /\ Front /\ Covers(Len(page))
        /\ Len(kept) = Offered /\ (truncated <=> Len(cands) > request.items)
    <3>1. Offered \in Nat
      BY LeastIs DEF Offered, IInv, TypeOK, Requests
    <3>. QED
      BY <3>1 DEF IInv, Stages, Finish, TypeOK
  <2>2. truncated \/ Len(kept) = Len(cands)
    BY <2>1 DEF Offered, Least, IInv, TypeOK, Requests
  <2>. QED
    BY <2>1, <2>2 DEF Stages, Finish, Called, Front, Covers
<1>3. Ordered' /\ WithinBudget'
  BY DEF IInv, Ordered, Handed, WithinBudget, Finish, Distinct
<1>. QED
  BY <1>1, <1>2, <1>3 DEF IInv

LEMMA StutterInv == ASSUME IInv, UNCHANGED vars PROVE IInv'
BY DEF IInv, vars, TypeOK, Stages, Ordered, Handed, WithinBudget, Untouched, Unspent, Covers, Front, Cut,
       Called, Distinct, Offered, Least

LEMMA NextInv == ASSUME IInv, [Next]_vars PROVE IInv'
<1>1. CASE pc = "idle" /\ \E r \in Requests, explicit, configured \in Names,
              directory \in Directories, payload \in Payloads, flag, sound \in BOOLEAN :
              Ask(r, explicit, configured, directory, payload, flag, sound)
  BY <1>1, AskInv
<1>2. CASE \E raw \in Pages : SearchState(raw) \/ SearchQuery(raw) \/ AnswerRefused(raw)
  BY <1>2, SearchStateInv, SearchQueryInv, AnswerRefusedInv
<1>3. CASE \E i \in Answers : Read(i)
  BY <1>3, ReadInv
<1>4. CASE SearchFails \/ Collect \/ Collected \/ Keep \/ Stop \/ Finish
  BY <1>4, SearchFailsInv, CollectInv, CollectedInv, KeepInv, StopInv, FinishInv
<1>. QED
  BY <1>1, <1>2, <1>3, <1>4, StutterInv DEF Next

LEMMA Invariance == Spec => []IInv
<1>. QED
  BY InitInv, NextInv, PTL DEF Spec

---------------------------------------------------------------------------------

\* Every variable keeps its type, whatever Basic Memory answers.
THEOREM TypeCorrect == Spec => []TypeOK
<1>1. IInv => TypeOK
  BY DEF IInv
<1>. QED
  BY <1>1, Invariance, PTL

\* No bundle has more notes or more characters than were asked for, however long the notes.
THEOREM StaysWithinBudget == Spec => []WithinBudget
<1>1. IInv => WithinBudget
  BY DEF IInv
<1>. QED
  BY <1>1, Invariance, PTL

\* Only if every search answered is there a bundle.
THEOREM BundlesAreWhole == Spec => []NoPartialBundle
<1>1. ASSUME IInv PROVE NoPartialBundle
  <2>. SUFFICES ASSUME kept # <<>>
                PROVE answered = CASE request.by = "read" -> {"note"} [] OTHER -> Called
    BY DEF NoPartialBundle, Called
  <2>1. pc \in {"budget", "given"}
    BY <1>1 DEF IInv, TypeOK, Ended, Stages, Unspent
  <2>. QED
    BY <1>1, <2>1 DEF IInv, Stages
<1>. QED
  BY <1>1, Invariance, PTL

\* A bundle that is not marked as truncated has all that the searches handed on, uncut.
THEOREM SaysWhatItDrops == Spec => []NothingDroppedSilently
<1>1. ASSUME IInv PROVE NothingDroppedSilently
  <2>. SUFFICES ASSUME pc = "given", ~truncated, NEW i \in Handed
                PROVE  \E n \in DOMAIN kept : kept[n].key = i.key /\ kept[n] \in Handed
    BY DEF NothingDroppedSilently
  <2>1. request.by # "read"
    BY <1>1 DEF IInv, Stages, Handed
  <2>2. Covers(Len(page)) /\ Front /\ Len(kept) = Len(cands)
    BY <1>1, <2>1 DEF IInv, Stages, Cut
  <2>3. PICK m \in DOMAIN cands : cands[m].key = i.key
    <3>1. CASE \E n \in DOMAIN found : i = found[n]
      BY <1>1, <3>1 DEF IInv, Ordered, TypeOK
    <3>2. CASE \E n \in DOMAIN page : i = page[n]
      BY <1>1, <2>2, <3>2 DEF Covers, IInv, TypeOK
    <3>. QED
      BY <3>1, <3>2 DEF Handed
  <2>4. m \in DOMAIN kept /\ kept[m] = cands[m]
    BY <1>1, <2>2, <2>3 DEF Front, IInv, TypeOK
  <2>. QED
    BY <1>1, <2>3, <2>4 DEF IInv, Ordered
<1>. QED
  BY <1>1, Invariance, PTL

\* No note comes twice, and the current state comes first as its own search gave it.
THEOREM OneVersion == Spec => []OneVersionEach
<1>1. ASSUME IInv PROVE OneVersionEach
  <2>0. kept \in Seq(Items) /\ cands \in Seq(Items)
    BY <1>1 DEF IInv, TypeOK
  <2>1. CASE Len(kept) <= 1 /\ (request.by = "read" \/ kept = <<>>)
    BY <2>0, <2>1 DEF OneVersionEach
  <2>2. CASE kept # <<>> /\ request.by # "read" /\ Front
    <3>1. \A n \in DOMAIN kept : n \in DOMAIN cands /\ kept[n] = cands[n]
      BY <2>0, <2>2 DEF Front
    <3>2. 1 \in DOMAIN kept
      BY <2>0, <2>2
    <3>. QED
      BY <1>1, <2>0, <2>2, <3>1, <3>2 DEF OneVersionEach, IInv, Ordered, Distinct
  <2>3. CASE kept # <<>> /\ request.by # "read" /\ Cut
    BY <1>1, <2>0, <2>3 DEF OneVersionEach, IInv, Ordered, Cut
  <2>4. kept = <<>> \/ pc \in {"budget", "given"}
    BY <1>1 DEF IInv, TypeOK, Ended, Stages, Unspent
  <2>. QED
    BY <1>1, <2>0, <2>1, <2>2, <2>3, <2>4 DEF IInv, Stages
<1>. QED
  BY <1>1, Invariance, PTL

---------------------------------------------------------------------------------
(* The length of a text, which is a recursive function of it: what it computes is proved by
   induction, here over the set of numbers for which it holds. *)

\* A set with 0 that has the successor of each of its numbers has every number.
LEMMA EveryNumber ==
  ASSUME NEW S, 0 \in S, \A n \in Nat : n \in S => n + 1 \in S
  PROVE  Nat \subseteq S
<1>. DEFINE R == OpToRel(<, Nat)
            T == Nat \ S
<1>. SUFFICES ASSUME T # {} PROVE FALSE
  OBVIOUS
<1>1. IsWellFoundedOn(R, Nat)
  BY NatLessThanWellFounded
<1>2. PICK n \in T : \A m \in T : <<m, n>> \notin R
  <2>. HIDE DEF R
  <2>. QED
    BY <1>1, WFMin
<1>3. n - 1 \in T /\ n - 1 \in Nat /\ n \in Nat
  OBVIOUS
<1>4. <<n - 1, n>> \in R
  BY <1>3 DEF OpToRel
<1>. QED
  BY <1>2, <1>3, <1>4

\* f[n] is the length of the text of the first n notes of s.
Before(n) == IF n = 1 THEN 0 ELSE 2
Sums(s, f) ==
  /\ f \in [0..Len(s) -> Nat] /\ f[0] = 0
  /\ \A n \in 1..Len(s) : f[n] = f[n - 1] + Size(s[n]) + Before(n)

LEMMA SizeIsNatural == \A i \in Items : Size(i) \in Nat
BY DEF Items, Size

LEMMA SumsExist == \A s \in Seq(Items) : \E f : Sums(s, f)
<1>. DEFINE S == {n \in Nat : \A s \in Seq(Items) : Len(s) = n => \E f : Sums(s, f)}
<1>1. 0 \in S
  <2>. SUFFICES ASSUME NEW s \in Seq(Items), Len(s) = 0 PROVE \E f : Sums(s, f)
    OBVIOUS
  <2>1. Sums(s, [n \in 0..0 |-> 0])
    BY DEF Sums
  <2>. QED
    BY <2>1
<1>2. ASSUME NEW n \in Nat, n \in S PROVE n + 1 \in S
  <2>. SUFFICES ASSUME NEW s \in Seq(Items), Len(s) = n + 1 PROVE \E f : Sums(s, f)
    OBVIOUS
  <2>. DEFINE t == SubSeq(s, 1, n)
  <2>1. t \in Seq(Items) /\ Len(t) = n /\ \A m \in 1..n : t[m] = s[m]
    BY <1>2
  <2>2. PICK f : Sums(t, f)
    BY <1>2, <2>1
  <2>. DEFINE g == [m \in 0..(n + 1) |->
                      IF m = n + 1 THEN f[n] + Size(s[n + 1]) + Before(n + 1) ELSE f[m]]
  <2>3. f \in [0..n -> Nat] /\ f[0] = 0 /\ \A m \in 1..n : f[m] = f[m - 1] + Size(s[m]) + Before(m)
    BY <2>1, <2>2 DEF Sums
  <2>4. Size(s[n + 1]) \in Nat /\ Before(n + 1) \in Nat /\ f[n] \in Nat
    BY <2>3, SizeIsNatural DEF Before
  <2>5. g \in [0..(n + 1) -> Nat]
    BY <2>3, <2>4
  <2>6. \A m \in 1..(n + 1) : g[m] = g[m - 1] + Size(s[m]) + Before(m)
    <3>1. \A m \in 1..n : g[m] = f[m] /\ g[m - 1] = f[m - 1]
      OBVIOUS
    <3>2. g[n + 1] = g[n] + Size(s[n + 1]) + Before(n + 1)
      OBVIOUS
    <3>3. \A m \in 1..(n + 1) : m \in 1..n \/ m = n + 1
      OBVIOUS
    <3>. HIDE DEF g
    <3>4. \A m \in 1..n : g[m] = g[m - 1] + Size(s[m]) + Before(m)
      BY <2>3, <3>1
    <3>5. (n + 1) - 1 = n
      OBVIOUS
    <3>. QED
      BY <3>2, <3>3, <3>4, <3>5
  <2>7. g[0] = 0
    BY <2>3
  <2>. HIDE DEF g
  <2>8. Sums(s, g)
    BY <2>5, <2>6, <2>7 DEF Sums
  <2>. QED
    BY <2>8
<1>3. Nat \subseteq S
  <2>. HIDE DEF S
  <2>. QED
    BY <1>1, <1>2, EveryNumber
<1>. QED
  BY <1>3

\* Notes that begin alike are of the same length as far as they are alike.
LEMMA SumsAgree ==
  ASSUME NEW s \in Seq(Items), NEW t \in Seq(Items), NEW f, NEW g, Sums(s, f), Sums(t, g),
         NEW m \in 0..Len(s), m <= Len(t), \A n \in 1..m : s[n] = t[n]
  PROVE  f[m] = g[m]
<1>. DEFINE S == {n \in Nat : n <= m => f[n] = g[n]}
<1>1. 0 \in S
  BY DEF Sums
<1>2. ASSUME NEW n \in Nat, n \in S PROVE n + 1 \in S
  <2>. SUFFICES ASSUME n + 1 <= m PROVE f[n + 1] = g[n + 1]
    OBVIOUS
  <2>1. f[n] = g[n] /\ s[n + 1] = t[n + 1] /\ n + 1 \in 1..Len(s) /\ n + 1 \in 1..Len(t)
    BY <1>2
  <2>2. /\ f[n + 1] = f[n] + Size(s[n + 1]) + Before(n + 1)
        /\ g[n + 1] = g[n] + Size(t[n + 1]) + Before(n + 1)
    BY <2>1 DEF Sums
  <2>. QED
    BY <2>1, <2>2
<1>3. Nat \subseteq S
  <2>. HIDE DEF S
  <2>. QED
    BY <1>1, <1>2, EveryNumber
<1>. QED
  BY <1>3

LEMMA SumsGrow ==
  ASSUME NEW s \in Seq(Items), NEW f, Sums(s, f),
         NEW m \in 0..Len(s), NEW n \in 0..Len(s), m <= n
  PROVE  f[m] <= f[n]
<1>. DEFINE S == {k \in Nat : m + k <= Len(s) => f[m] <= f[m + k]}
<1>1. 0 \in S
  BY DEF Sums
<1>2. ASSUME NEW k \in Nat, k \in S PROVE k + 1 \in S
  <2>. SUFFICES ASSUME m + k + 1 <= Len(s) PROVE f[m] <= f[m + k + 1]
    OBVIOUS
  <2>1. f[m] <= f[m + k] /\ m + k + 1 \in 1..Len(s)
    BY <1>2
  <2>2. f[m + k + 1] = f[m + k] + Size(s[m + k + 1]) + Before(m + k + 1)
    BY <2>1 DEF Sums
  <2>3. Size(s[m + k + 1]) \in Nat /\ Before(m + k + 1) \in Nat
    BY <2>1, SizeIsNatural DEF Before
  <2>4. f[m] \in Nat /\ f[m + k] \in Nat
    BY <2>1 DEF Sums
  <2>. QED
    BY <2>1, <2>2, <2>3, <2>4
<1>3. Nat \subseteq S
  <2>. HIDE DEF S
  <2>. QED
    BY <1>1, <1>2, EveryNumber
<1>4. n - m \in Nat /\ m + (n - m) = n
  OBVIOUS
<1>. QED
  BY <1>3, <1>4

LEMMA RenderedIsSum ==
  ASSUME NEW s \in Seq(Items), NEW f, Sums(s, f)
  PROVE  Rendered(s) = f[Len(s)]
<1>. DEFINE Unfolds(u) == u = [n \in 0..Len(s) |->
                      IF n = 0 THEN 0 ELSE u[n - 1] + Size(s[n]) + (IF n = 1 THEN 0 ELSE 2)]
            upTo == CHOOSE u : Unfolds(u)
<1>1. Rendered(s) = upTo[Len(s)]
  BY DEF Rendered
<1>2. Unfolds(f)
  <2>1. /\ f = [n \in 0..Len(s) |-> f[n]]
        /\ \A n \in 0..Len(s) : f[n] =
             IF n = 0 THEN 0 ELSE f[n - 1] + Size(s[n]) + (IF n = 1 THEN 0 ELSE 2)
    BY DEF Sums, Before
  <2>. QED
    BY <2>1
<1>3. Unfolds(upTo)
  <2>. HIDE DEF Unfolds
  <2>. QED
    BY <1>2
<1>4. ASSUME NEW u, Unfolds(u) PROVE u[Len(s)] = f[Len(s)]
  <2>. DEFINE S == {n \in Nat : n <= Len(s) => u[n] = f[n]}
  <2>1. Len(s) \in Nat
    OBVIOUS
  <2>0. \A n \in 0..Len(s) : u[n] =
             IF n = 0 THEN 0 ELSE u[n - 1] + Size(s[n]) + (IF n = 1 THEN 0 ELSE 2)
    BY <1>4, Zenon
  <2>2. 0 \in S
    BY <2>0, <2>1 DEF Sums
  <2>3. ASSUME NEW n \in Nat, n \in S PROVE n + 1 \in S
    <3>. SUFFICES ASSUME n + 1 <= Len(s) PROVE u[n + 1] = f[n + 1]
      OBVIOUS
    <3>1. u[n] = f[n] /\ n + 1 \in 1..Len(s) /\ n + 1 \in 0..Len(s)
      BY <2>1, <2>3
    <3>2. f[n + 1] = f[n] + Size(s[n + 1]) + Before(n + 1)
      BY <3>1 DEF Sums
    <3>3. u[n + 1] = u[n] + Size(s[n + 1]) + Before(n + 1)
      <4>. HIDE DEF Unfolds
      <4>. QED
        BY <2>0, <3>1 DEF Before
    <3>. QED
      BY <3>1, <3>2, <3>3
  <2>4. Nat \subseteq S
    <3>. HIDE DEF S
    <3>. QED
      BY <2>2, <2>3, EveryNumber
  <2>. QED
    BY <2>1, <2>4
<1>. HIDE DEF Unfolds, upTo
<1>. QED
  BY <1>1, <1>3, <1>4

\* The front of a sequence of notes is as long as its sum says.
LEMMA RenderedFront ==
  ASSUME NEW s \in Seq(Items), NEW f, Sums(s, f), NEW n \in 0..Len(s)
  PROVE  Rendered(SubSeq(s, 1, n)) = f[n]
<1>. DEFINE t == SubSeq(s, 1, n)
<1>1. t \in Seq(Items) /\ Len(t) = n /\ \A m \in 1..n : t[m] = s[m]
  OBVIOUS
<1>. HIDE DEF t
<1>2. PICK g : Sums(t, g)
  BY <1>1, SumsExist
<1>3. Rendered(t) = g[n]
  BY <1>1, <1>2, RenderedIsSum
<1>4. g[n] = f[n]
  <2>1. n \in 0..Len(t) /\ n <= Len(s)
    BY <1>1
  <2>. QED
    BY <1>1, <1>2, <2>1, SumsAgree
<1>. QED
  BY <1>3, <1>4 DEF t

---------------------------------------------------------------------------------
(* The bundle is the longest that fits. *)

Counted == pc = "budget" => used = Rendered(kept)
BInv == IInv /\ Counted /\ BundleIsLongest

LEMMA NothingIsNoText == Rendered(<<>>) = 0
<1>1. <<>> \in Seq(Items) /\ Len(<<>>) = 0
  OBVIOUS
<1>2. PICK f : Sums(<<>>, f)
  BY <1>1, SumsExist
<1>. QED
  BY <1>1, <1>2, RenderedIsSum DEF Sums

LEMMA OneIsItsText == \A i \in Items : Rendered(<<i>>) = Size(i)
<1>. SUFFICES ASSUME NEW i \in Items PROVE Rendered(<<i>>) = Size(i)
  OBVIOUS
<1>. DEFINE s == <<i>>
<1>1. s \in Seq(Items) /\ Len(s) = 1 /\ s[1] = i
  OBVIOUS
<1>. HIDE DEF s
<1>2. PICK f : Sums(s, f)
  BY <1>1, SumsExist
<1>3. f[0] = 0 /\ f[1] = f[0] + Size(i) + Before(1) /\ Size(i) \in Nat
  BY <1>1, <1>2, SizeIsNatural DEF Sums
<1>4. f[1] = Size(i)
  BY <1>3 DEF Before
<1>. QED
  BY <1>1, <1>2, <1>4, RenderedIsSum DEF s

\* Keeping a note adds to the length what Keep says, and a longer front is a longer text.
LEMMA RenderedGrows ==
  ASSUME NEW s \in Seq(Items), NEW n \in 0..Len(s)
  PROVE  /\ Rendered(SubSeq(s, 1, n)) \in Nat
         /\ n < Len(s) => Rendered(SubSeq(s, 1, n + 1)) =
              Rendered(SubSeq(s, 1, n)) + (IF n = 0 THEN 0 ELSE 2) + Size(s[n + 1])
         /\ \A m \in 0..n : Rendered(SubSeq(s, 1, m)) <= Rendered(SubSeq(s, 1, n))
<1>1. PICK f : Sums(s, f)
  BY SumsExist
<1>2. \A m \in 0..Len(s) : Rendered(SubSeq(s, 1, m)) = f[m] /\ f[m] \in Nat
  BY <1>1, RenderedFront DEF Sums
<1>3. n < Len(s) => f[n + 1] = f[n] + (IF n = 0 THEN 0 ELSE 2) + Size(s[n + 1])
  <2>. SUFFICES ASSUME n < Len(s)
                PROVE  f[n + 1] = f[n] + (IF n = 0 THEN 0 ELSE 2) + Size(s[n + 1])
    OBVIOUS
  <2>1. n + 1 \in 1..Len(s) /\ (n + 1) - 1 = n /\ f[n] \in Nat
    BY <1>2
  <2>2. f[n + 1] = f[n] + Size(s[n + 1]) + Before(n + 1)
    BY <1>1, <2>1 DEF Sums
  <2>3. Size(s[n + 1]) \in Nat
    BY <2>1, SizeIsNatural
  <2>. QED
    BY <2>1, <2>2, <2>3 DEF Before
<1>4. \A m \in 0..n : f[m] <= f[n]
  <2>. SUFFICES ASSUME NEW m \in 0..n PROVE f[m] <= f[n]
    OBVIOUS
  <2>1. m \in 0..Len(s) /\ m <= n
    OBVIOUS
  <2>. QED
    BY <1>1, <2>1, SumsGrow
<1>5. (n < Len(s) => n + 1 \in 0..Len(s)) /\ \A m \in 0..n : m \in 0..Len(s)
  OBVIOUS
<1>. QED
  BY <1>2, <1>3, <1>4, <1>5

\* What is kept is the front of what there is to give.
LEMMA FrontIsSubSeq ==
  ASSUME IInv, Front
  PROVE  kept = SubSeq(cands, 1, Len(kept)) /\ Len(kept) \in 0..Len(cands)
<1>1. kept \in Seq(Items) /\ cands \in Seq(Items) /\ Len(kept) \in 0..Len(cands)
  BY DEF IInv, TypeOK, Front
<1>. DEFINE t == SubSeq(cands, 1, Len(kept))
<1>2. t \in Seq(Items) /\ Len(t) = Len(kept) /\ \A n \in 1..Len(kept) : t[n] = cands[n]
  BY <1>1
<1>. HIDE DEF t
<1>3. kept = t
  BY <1>1, <1>2, SeqEqual DEF Front
<1>. QED
  BY <1>1, <1>3 DEF t

\* The most notes from the front that fit: more than n do not, if n + 1 do not.
LEMMA MostThatFit ==
  ASSUME NEW s \in Seq(Items), NEW limit \in Nat, NEW k \in 0..Len(s), NEW n \in 0..k,
         Rendered(SubSeq(s, 1, n)) <= limit,
         n < k => Rendered(SubSeq(s, 1, n + 1)) > limit
  PROVE  LET fitting == {m \in 0..k : Rendered(SubSeq(s, 1, m)) <= limit}
         IN (CHOOSE m \in fitting : \A l \in fitting : l <= m) = n
<1>. DEFINE fitting == {m \in 0..k : Rendered(SubSeq(s, 1, m)) <= limit}
<1>1. n \in fitting
  OBVIOUS
<1>2. ASSUME NEW m \in fitting PROVE m <= n
  <2>. SUFFICES ASSUME m > n PROVE FALSE
    OBVIOUS
  <2>1. m \in 0..Len(s) /\ n + 1 \in 0..m /\ n + 1 \in 0..Len(s) /\ n < k
    OBVIOUS
  <2>2. Rendered(SubSeq(s, 1, n + 1)) <= Rendered(SubSeq(s, 1, m))
    BY <2>1, RenderedGrows
  <2>3. Rendered(SubSeq(s, 1, n + 1)) \in Nat /\ Rendered(SubSeq(s, 1, m)) \in Nat
    BY <2>1, RenderedGrows
  <2>. QED
    BY <1>2, <2>1, <2>2, <2>3
<1>3. fitting \subseteq Int
  OBVIOUS
<1>. HIDE DEF fitting
<1>4. ASSUME NEW m \in fitting, \A l \in fitting : l <= m PROVE m = n
  BY <1>1, <1>2, <1>3, <1>4
<1>5. (CHOOSE m \in fitting : \A l \in fitting : l <= m) = n
  BY <1>1, <1>2, <1>4
<1>. QED
  BY <1>5 DEF fitting

LEMMA BInvInit == Init => BInv
BY InitInv DEF Init, BInv, Counted, BundleIsLongest

LEMMA OfferedIs ==
  ASSUME IInv
  PROVE  /\ Offered \in 0..Len(cands) /\ cands \in Seq(Items)
         /\ Offered = 0 => cands = <<>>
         /\ request.chars \in Nat
<1>1. cands \in Seq(Items) /\ Len(cands) \in Nat
  BY DEF IInv, TypeOK
<1>2. request.items \in 1..MaxItems /\ request.chars \in 1..MaxChars
  BY DEF IInv, TypeOK, Requests
<1>3. request.items \in Nat \ {0} /\ request.chars \in Nat
  BY <1>2, ContextAssumption
<1>4. Offered = Len(cands) \/ Offered = request.items
  BY <1>1, <1>3 DEF Offered, Least
<1>5. Offered <= Len(cands)
  BY <1>1, <1>3 DEF Offered, Least
<1>. QED
  BY <1>1, <1>3, <1>4, <1>5

\* While the bundle is filled, it is the front that has been seen, and its length is counted.
LEMMA Filling ==
  ASSUME BInv, pc = "budget"
  PROVE  /\ at - 1 \in 0..Len(cands) /\ at \in Nat \ {0} /\ at <= Offered + 1
         /\ kept = SubSeq(cands, 1, at - 1) /\ Len(kept) = at - 1
         /\ used = Rendered(SubSeq(cands, 1, at - 1)) /\ used <= request.chars
<1>1. /\ IInv /\ Front /\ used = Rendered(kept) /\ Len(kept) = at - 1 /\ at \in Nat \ {0}
      /\ at <= Offered + 1 /\ used <= request.chars
  BY DEF BInv, Counted, IInv, Stages, TypeOK, WithinBudget
<1>. QED
  BY <1>1, FrontIsSubSeq

LEMMA NeededIsRendered ==
  ASSUME BInv, pc = "budget", at <= Offered
  PROVE  /\ at \in 1..Len(cands) /\ SubSeq(cands, 1, at) = Append(kept, cands[at])
         /\ Needed = Rendered(SubSeq(cands, 1, at)) /\ Needed \in Nat
<1>1. /\ at - 1 \in 0..Len(cands) /\ at \in Nat \ {0} /\ at <= Len(cands)
      /\ kept = SubSeq(cands, 1, at - 1) /\ Len(kept) = at - 1
      /\ used = Rendered(SubSeq(cands, 1, at - 1)) /\ cands \in Seq(Items)
  <2>1. IInv
    BY DEF BInv
  <2>. QED
    BY <2>1, Filling, OfferedIs
<1>2. SubSeq(cands, 1, at) = Append(kept, cands[at])
  BY <1>1
<1>3. Rendered(SubSeq(cands, 1, at)) =
        Rendered(SubSeq(cands, 1, at - 1)) + (IF at - 1 = 0 THEN 0 ELSE 2) + Size(cands[at])
  <2>1. at - 1 < Len(cands) /\ (at - 1) + 1 = at
    BY <1>1
  <2>. QED
    BY <1>1, <2>1, RenderedGrows
<1>4. kept = <<>> <=> at - 1 = 0
  BY <1>1
<1>5. Rendered(SubSeq(cands, 1, at - 1)) \in Nat /\ Size(cands[at]) \in Nat
  BY <1>1, RenderedGrows, SizeIsNatural
<1>6. Needed = Rendered(SubSeq(cands, 1, at))
  BY <1>1, <1>3, <1>4, <1>5 DEF Needed, Separator
<1>7. Needed \in Nat
  BY <1>1, <1>5 DEF Needed, Separator
<1>. QED
  BY <1>1, <1>2, <1>6, <1>7

LEMMA KeepCounts == ASSUME BInv, Keep PROVE Counted'
<1>1. Needed = Rendered(Append(kept, cands[at]))
  BY NeededIsRendered DEF Keep
<1>2. used' = Needed /\ kept' = Append(kept, cands[at])
  BY DEF Keep
<1>. QED
  BY <1>1, <1>2 DEF Counted

\* The bundle is all there is to give.
LEMMA FinishLongest == ASSUME BInv, Finish PROVE BundleIsLongest'
<1>1. /\ IInv /\ pc = "budget" /\ at > Offered
      /\ UNCHANGED <<request, cands, kept, used>>
  BY DEF BInv, Finish
<1>2. Offered \in 0..Len(cands) /\ cands \in Seq(Items) /\ (Offered = 0 => cands = <<>>)
      /\ request.chars \in Nat
  BY <1>1, OfferedIs
<1>3. at - 1 = Offered
  <2>1. at \in Nat \ {0} /\ at <= Offered + 1
    BY <1>1, Filling
  <2>. QED
    BY <1>1, <1>2, <2>1
<1>4. /\ kept = SubSeq(cands, 1, Offered) /\ used = Rendered(SubSeq(cands, 1, Offered))
      /\ used <= request.chars
  BY <1>1, <1>3, Filling
<1>. DEFINE fitting == {n \in 0..Offered : Rendered(SubSeq(cands, 1, n)) <= request.chars}
            most == CHOOSE n \in fitting : \A m \in fitting : m <= n
<1>5. most = Offered
  <2>1. Offered \in 0..Offered
    BY <1>2
  <2>. QED
    BY <1>2, <1>4, <2>1, MostThatFit
<1>6. Offered' = Offered /\ cands' = cands /\ request' = request /\ kept' = kept /\ used' = used
  BY <1>1 DEF Offered
<1>. HIDE DEF fitting, most
<1>7. (IF most > 0 \/ cands = <<>> THEN kept = SubSeq(cands, 1, most) ELSE FALSE)
      /\ used = Rendered(kept)
  BY <1>2, <1>4, <1>5
<1>. QED
  BY <1>6, <1>7, Zenon DEF BundleIsLongest, fitting, most

\* What was kept before the first note that does not fit is the most that fits.
LEMMA StopLongest == ASSUME BInv, Stop PROVE BundleIsLongest'
<1>1. /\ IInv /\ pc = "budget" /\ at <= Offered /\ Needed > request.chars
      /\ UNCHANGED <<request, cands>>
      /\ kept' = IF kept = <<>> THEN Shorten(cands[at]) ELSE kept
      /\ used' = IF kept' = <<>> THEN 0 ELSE IF kept = <<>> THEN Size(kept'[1]) ELSE used
  <2>1. IInv /\ request.chars \in Nat /\ pc = "budget" /\ at <= Offered /\ ~Fits
    BY OfferedIs DEF BInv, Stop
  <2>2. Needed > request.chars
    BY <2>1, NeededIsRendered DEF Fits
  <2>. QED
    BY <2>1, <2>2 DEF Stop
<1>2. /\ Offered \in 0..Len(cands) /\ cands \in Seq(Items) /\ request.chars \in Nat
      /\ at - 1 \in 0..Offered /\ (at - 1) + 1 = at /\ at - 1 < Offered
      /\ at \in 1..Len(cands)
  BY <1>1, OfferedIs, Filling
<1>3. /\ kept = SubSeq(cands, 1, at - 1) /\ Len(kept) = at - 1
      /\ used = Rendered(kept) /\ used <= request.chars
  BY <1>1, Filling
<1>. DEFINE fitting == {n \in 0..Offered : Rendered(SubSeq(cands, 1, n)) <= request.chars}
            most == CHOOSE n \in fitting : \A m \in fitting : m <= n
<1>4. most = at - 1
  <2>1. Rendered(SubSeq(cands, 1, at)) > request.chars
    BY <1>1, NeededIsRendered
  <2>. QED
    BY <1>2, <1>3, <2>1, MostThatFit
<1>5. Offered' = Offered /\ cands' = cands /\ request' = request
  BY <1>1 DEF Offered
<1>. HIDE DEF fitting, most
<1>6. /\ used' = Rendered(kept')
      /\ IF most > 0 \/ cands = <<>> THEN kept' = SubSeq(cands, 1, most)
         ELSE kept' = <<>> \/ (/\ Len(kept') = 1 /\ kept'[1].key = cands[1].key
                               /\ used' <= request.chars)
  <2>1. CASE kept # <<>>
    <3>1. at - 1 > 0
      BY <1>2, <1>3, <2>1
    <3>. QED
      BY <1>1, <1>3, <1>4, <2>1, <3>1
  <2>2. CASE kept = <<>>
    <3>1. at = 1 /\ cands[1] \in Items /\ cands # <<>> /\ ~(most > 0)
      BY <1>2, <1>3, <1>4, <2>2
    <3>2. kept' = Shorten(cands[1])
      BY <1>1, <2>2, <3>1
    <3>3. CASE kept' = <<>>
      BY <1>1, <3>1, <3>3, NothingIsNoText
    <3>4. CASE kept' # <<>>
      <4>1. PICK j \in Items : kept' = <<j>> /\ j.key = cands[1].key /\ Size(j) <= request.chars
        <5>1. /\ kept' \in Seq(Items) /\ Len(kept') = 1 /\ kept'[1].key = cands[1].key
              /\ Size(kept'[1]) <= request.chars
          BY <1>1, <3>1, <3>2, <3>4, ShortenFits DEF IInv
        <5>2. kept' = <<kept'[1]>> /\ kept'[1] \in Items
          BY <5>1
        <5>. QED
          BY <5>1, <5>2
      <4>2. used' = Size(j)
        BY <1>1, <2>2, <3>4, <4>1
      <4>3. Rendered(kept') = Size(j)
        BY <4>1, OneIsItsText
      <4>4. Len(kept') = 1 /\ kept'[1].key = cands[1].key
        BY <4>1
      <4>. QED
        BY <3>1, <4>1, <4>2, <4>3, <4>4
    <3>. QED
      BY <3>3, <3>4
  <2>. QED
    BY <2>1, <2>2
<1>. QED
  BY <1>5, <1>6, Zenon DEF BundleIsLongest, fitting, most

\* A request that is refused, fails or asks for nothing gets an empty bundle.
LEMMA EmptyLongest ==
  ASSUME TypeOK', Untouched', Unspent' PROVE BundleIsLongest'
<1>1. kept' = <<>> /\ used' = 0 /\ cands' = <<>> /\ request'.items \in Nat /\ request'.chars \in Nat
  BY ContextAssumption DEF Untouched, Unspent, TypeOK, Requests
<1>. DEFINE s == <<>>
            k == Least(Len(s), request'.items)
            fitting == {n \in 0..k : Rendered(SubSeq(s, 1, n)) <= request'.chars}
            most == CHOOSE n \in fitting : \A m \in fitting : m <= n
<1>2. s \in Seq(Items) /\ Len(s) = 0 /\ SubSeq(s, 1, 0) = <<>> /\ k = 0
  BY <1>1 DEF Least
<1>3. most = 0
  <2>1. k \in 0..Len(s) /\ 0 \in 0..k /\ ~(0 < k)
    BY <1>2
  <2>2. Rendered(SubSeq(s, 1, 0)) <= request'.chars
    <3>1. Rendered(SubSeq(s, 1, 0)) = 0
      BY <1>2, NothingIsNoText, Zenon
    <3>. HIDE DEF s
    <3>. QED
      BY <1>1, <3>1
  <2>. HIDE DEF s, k
  <2>. QED
    BY <1>1, <1>2, <2>1, <2>2, MostThatFit
<1>4. kept' = SubSeq(s, 1, most) /\ used' = Rendered(kept')
  BY <1>1, <1>2, <1>3, NothingIsNoText
<1>. HIDE DEF fitting, most
<1>. QED
  BY <1>1, <1>4, Zenon DEF BundleIsLongest, Offered, fitting, most

\* What leaves a command with nothing given, or goes on to another stage, is no bundle yet.
LEMMA NoBundleYet ==
  ASSUME IInv', pc' # "budget",
         pc' = "given" => request'.by = "read" \/ (Untouched' /\ Unspent')
  PROVE  Counted' /\ BundleIsLongest'
<1>1. Counted'
  BY DEF Counted
<1>2. CASE pc' # "given" \/ request'.by = "read"
  BY <1>1, <1>2 DEF BundleIsLongest
<1>3. CASE Untouched' /\ Unspent'
  <2>1. TypeOK'
    BY DEF IInv
  <2>. QED
    BY <1>1, <1>3, <2>1, EmptyLongest
<1>. QED
  BY <1>2, <1>3

LEMMA BInvStep == ASSUME BInv, [Next]_vars PROVE BInv'
<1>0. IInv /\ IInv'
  BY NextInv DEF BInv
<1>1. CASE pc = "idle" /\ \E r \in Requests, explicit, configured \in Names,
              directory \in Directories, payload \in Payloads, flag, sound \in BOOLEAN :
              Ask(r, explicit, configured, directory, payload, flag, sound)
  <2>1. PICK r \in Requests, sound \in BOOLEAN :
          Refuse(r) \/ \E idle \in BOOLEAN : Begin(r, idle, sound)
    <3>1. ASSUME NEW r \in Requests, NEW explicit, NEW configured, NEW directory,
                 NEW payload \in Payloads, NEW flag \in BOOLEAN, NEW sound \in BOOLEAN,
                 Ask(r, explicit, configured, directory, payload, flag, sound)
          PROVE  Refuse(r) \/ \E idle \in BOOLEAN : Begin(r, idle, sound)
      <4>1. (payload = "later") \in BOOLEAN
        OBVIOUS
      <4>. QED
        BY <3>1, <4>1, Zenon DEF Ask, HandleContext, PreInvocation, SessionStart, ReadNote
    <3>. QED
      BY <1>1, <3>1
  <2>2. Untouched' /\ Unspent'
    BY <1>0, <2>1 DEF IInv, Stages, Refuse, Begin, Untouched, Unspent
  <2>3. pc' # "budget"
    BY <2>1 DEF Refuse, Begin, First
  <2>. QED
    BY <1>0, <2>2, <2>3, NoBundleYet DEF BInv
<1>2. CASE \E raw \in Pages : SearchState(raw) \/ SearchQuery(raw) \/ AnswerRefused(raw)
  <2>1. pc' \notin {"budget", "given"}
    BY <1>2 DEF SearchState, SearchQuery, AnswerRefused
  <2>. QED
    BY <1>0, <2>1, NoBundleYet DEF BInv
<1>3. CASE \E i \in Answers : Read(i)
  <2>1. pc' = "given" /\ request'.by = "read"
    BY <1>0, <1>3 DEF Read, IInv, Stages
  <2>. QED
    BY <1>0, <2>1, NoBundleYet DEF BInv
<1>4. CASE SearchFails \/ Collect
  <2>1. pc' \notin {"budget", "given"}
    BY <1>4 DEF SearchFails, Collect
  <2>. QED
    BY <1>0, <2>1, NoBundleYet DEF BInv
<1>5. CASE Collected
  <2>1. kept' = <<>> /\ used' = 0 /\ pc' = "budget"
    BY <1>0, <1>5 DEF IInv, Stages, Collected
  <2>. QED
    BY <1>0, <2>1, NothingIsNoText DEF BInv, Counted, BundleIsLongest
<1>6. CASE Keep
  <2>1. pc' = "budget"
    BY <1>6 DEF Keep
  <2>. QED
    BY <1>0, <1>6, <2>1, KeepCounts DEF BInv, BundleIsLongest
<1>7. CASE Stop \/ Finish
  <2>1. pc' = "given"
    BY <1>7 DEF Stop, Finish
  <2>2. BundleIsLongest'
    BY <1>7, StopLongest, FinishLongest
  <2>. QED
    BY <1>0, <2>1, <2>2 DEF BInv, Counted
<1>8. CASE UNCHANGED vars
  <2>1. Counted'
    BY <1>8 DEF BInv, Counted, vars
  <2>2. BundleIsLongest'
    <3>1. Offered' = Offered /\ pc' = pc /\ request' = request /\ cands' = cands /\ kept' = kept
          /\ used' = used
      BY <1>8 DEF vars, Offered
    <3>. QED
      BY <3>1, Zenon DEF BInv, BundleIsLongest
  <2>. QED
    BY <1>0, <2>1, <2>2 DEF BInv
<1>. QED
  BY <1>1, <1>2, <1>3, <1>4, <1>5, <1>6, <1>7, <1>8 DEF Next

\* A bundle is the most notes from the front that fit together, or the first alone, cut to
\* the limit, and the length that was counted is that of its text: for any notes, any limits.
THEOREM GivesAllThatFits == Spec => []BundleIsLongest
<1>1. BInv => BundleIsLongest
  BY DEF BInv
<1>. QED
  BY <1>1, BInvInit, BInvStep, PTL DEF Spec
=================================================================================
