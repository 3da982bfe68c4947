-------------------------- MODULE InventoryProofs --------------------------
(***************************************************************************)
(* Proofs about Inventory: the invariant of a page's legs and history,     *)
(* what a leg brings, and the rows made of two legs.                       *)
(***************************************************************************)
EXTENDS Inventory, RowsProofs

-----------------------------------------------------------------------------
\* Shapes: what a subscription and a document of a page of this kind look like.

Pairs(s) ==
  {<<Member(s, a, form, c), Member(s, z, form, d)>> :
     a, z \in Local, form \in SubForm, c, d \in Capacity}
Lifecycle == {"active", "terminated"}
SubSet(k) ==
  IF k = "sdp"
  THEN [sub : Nat, status : Lifecycle, stps : UNION {Pairs(s) : s \in Nat}]
  ELSE [sub : Nat, status : Lifecycle, id : RawId(SubForm), name : Nat]
DocSet(k) ==
  IF k = "sdp" THEN [a : RawId(DocForm), z : RawId(DocForm)] ELSE [id : RawId(DocForm), name : Nat]

\* Subscription number s of the orchestrator, whose members carry its names.
Own(k, s, sub) == sub \in SubSet(k) /\ sub.sub = s /\ (k = "sdp" => sub.stps \in Pairs(s))
\* The same subscription, at another time of its life.
SameSub(k, sub, other) ==
  sub.sub = other.sub /\ (IF k = "sdp" THEN sub.stps = other.stps ELSE sub.id = other.id)

Shapes ==
  /\ kind \in Kind
  /\ subs \in Seq(SubSet(kind)) /\ Len(subs) <= MaxSubs[kind]
  /\ \A i \in 1..Len(subs) : Own(kind, i, subs[i])
  /\ docs \in Seq(DocSet(kind))
  /\ edits \in Nat /\ edits <= MaxEdits[kind]

\* A page that has not been asked for, or is left, holds nothing of the sources.
LegsInv ==
  /\ wfo.state \in {"idle", "pending", "failed", "answered"}
  /\ dds.state \in {"idle", "pending", "failed", "answered"}
  /\ table.state \in {"idle", "loading", "error", "shown"}
  /\ wfo.state = "pending" \/ dds.state = "pending" => Asking
  /\ Asking => wfo.state # "idle" /\ dds.state # "idle"
  /\ DOMAIN wfo.list \subseteq 1..Len(subs)
  /\ \A i \in DOMAIN wfo.list :
       /\ Own(kind, i, wfo.list[i]) /\ SameSub(kind, wfo.list[i], subs[i])
       /\ wfo.list[i].status = "active"
  /\ dds.list \in Seq(DocSet(kind))

\* InWfo and InDds, said of a given kind.
SubKey(k, sub) ==
  IF k = "sdp" THEN PairKey({sub.stps[i].id.local : i \in DOMAIN sub.stps}) ELSE {sub.id.local}
DocKey(k, doc) == IF k = "sdp" THEN PairKey({doc.a.local, doc.z.local}) ELSE {doc.id.local}
WfoKeys(k, list) == {SubKey(k, list[i]) : i \in {j \in DOMAIN list : list[j].status # "terminated"}} \ {{}}
DdsKeys(k, list) == {DocKey(k, list[i]) : i \in DOMAIN list} \ {{}}
RowsOf(k, wfoList, ddsList) ==
  CASE k = "stp"   -> ReconcileStps(wfoList, ddsList)
    [] k = "named" -> ReconcileNamed(wfoList, ddsList)
    [] k = "sdp"   -> ReconcileSdps(wfoList, ddsList)

\* What was present all through the request is in the source now, and what the
\* source has now was present at some moment of it.
HistoryInv ==
  /\ always.wfo \subseteq ever.wfo /\ always.dds \subseteq ever.dds
  /\ Asking => WfoKeys(kind, subs) \subseteq ever.wfo /\ always.dds \subseteq DdsKeys(kind, docs) /\ DdsKeys(kind, docs) \subseteq ever.dds
  /\ Asking => always.wfo \subseteq WfoKeys(kind, subs)
  /\ wfo.state = "answered" => WfoKeys(kind, wfo.list) \subseteq ever.wfo
  /\ dds.state = "answered" => always.dds \subseteq DdsKeys(kind, dds.list) /\ DdsKeys(kind, dds.list) \subseteq ever.dds

\* The table is the reconciliation of the two answers, or empty.
ShownInv ==
  IF table.state = "shown"
  THEN wfo.state = "answered" /\ dds.state = "answered" /\ table.rows = RowsOf(kind, wfo.list, dds.list)
  ELSE table.rows = {}

IInv == Shapes /\ LegsInv /\ HistoryInv /\ ShownInv

\* Within the page limit an answer misses nothing that stayed.
Complete ==
  Len(subs) <= PageLimit /\ wfo.state = "answered" => always.wfo \subseteq WfoKeys(kind, wfo.list)

LEMMA KeysOfKind ==
  /\ \A list : InWfo(list) = WfoKeys(kind, list) /\ InDds(list) = DdsKeys(kind, list)
  /\ Reconciled = RowsOf(kind, wfo.list, dds.list)
<1>1. \A list : InWfo(list) = WfoKeys(kind, list) /\ InDds(list) = DdsKeys(kind, list)
  BY DEF InWfo, InDds, WfoKeys, DdsKeys, KeyOfSub, KeyOfDoc, SubKey, DocKey
<1>2. Reconciled = RowsOf(kind, wfo.list, dds.list)
  BY DEF Reconciled, RowsOf
<1> QED BY <1>1, <1>2

-----------------------------------------------------------------------------
\* What the orchestrator's workflows make of a subscription.

LEMMA NewSubsOwn ==
  ASSUME NEW s \in Nat, NEW sub \in NewSubs(s)
  PROVE  Own(kind, s, sub)
<1>1. CASE kind = "sdp"
  <2>1. PICK a \in Local, z \in Local, form \in SubForm, c \in Capacity, d \in Capacity :
          sub = [sub |-> s, status |-> "active", stps |-> <<Member(s, a, form, c), Member(s, z, form, d)>>]
    BY <1>1 DEF NewSubs
  <2> DEFINE stps == <<Member(s, a, form, c), Member(s, z, form, d)>>
  <2>2. stps \in Pairs(s)
    BY DEF Pairs
  <2> HIDE DEF stps
  <2>3. sub = [sub |-> s, status |-> "active", stps |-> stps]
    BY <2>1 DEF stps
  <2>4. stps \in UNION {Pairs(x) : x \in Nat}
    BY <2>2
  <2> QED BY <1>1, <2>2, <2>3, <2>4 DEF Own, SubSet, Lifecycle
<1>2. CASE kind # "sdp"
  BY <1>2, InventoryAssumption DEF NewSubs, Own, SubSet, Lifecycle, RawId, Nothing
<1> QED BY <1>1, <1>2

LEMMA EndedOwn ==
  ASSUME NEW k, NEW s \in Nat, NEW sub, Own(k, s, sub)
  PROVE  LET ended == [sub EXCEPT !.status = "terminated"]
         IN Own(k, s, ended) /\ SameSub(k, sub, ended)
BY DEF Own, SubSet, SameSub, Lifecycle

LEMMA NewDocsShape ==
  ASSUME NEW doc \in NewDocs
  PROVE  doc \in DocSet(kind)
BY DEF NewDocs, DocSet, Nothing

\* One page of the result has subscriptions as they are, and only live ones.
LEMMA ServedPage ==
  ASSUME NEW filtered \in BOOLEAN, NEW T, subs \in Seq(T)
  PROVE  LET list == Live(Served(subs, filtered, PageLimit))
         IN /\ DOMAIN list \subseteq 1..Len(subs)
            /\ \A i \in DOMAIN list : list[i] = subs[i] /\ subs[i].status # "terminated"
BY DEF Live, Served, Restrict, RestrictValues, IsLive

\* If they all fit the page it has every live one.
LEMMA ServedWhole ==
  ASSUME NEW filtered \in BOOLEAN, NEW T, subs \in Seq(T), Len(subs) <= PageLimit
  PROVE  LET list == Live(Served(subs, filtered, PageLimit))
         IN \A i \in 1..Len(subs) : subs[i].status # "terminated" => i \in DOMAIN list
<1> DEFINE matching == {i \in DOMAIN subs : filtered => IsLive(subs[i])}
           page == {i \in matching : Cardinality({j \in matching : j < i}) < PageLimit}
<1>1. ASSUME NEW i \in matching PROVE i \in page
  <2> DEFINE before == {j \in matching : j < i}
  <2>1. i \in 1..Len(subs) /\ i - 1 \in Int
    OBVIOUS
  <2>2. before \in SUBSET (1..(i - 1))
    BY <2>1
  <2>3. IsFiniteSet(1..(i - 1)) /\ Cardinality(1..(i - 1)) = i - 1
    <3> HIDE DEF matching
    <3> QED BY <2>1, FS_Interval
  <2>4. Cardinality(before) <= i - 1 /\ Cardinality(before) \in Nat
    <3> HIDE DEF before
    <3> QED BY <2>2, <2>3, FS_Subset, FS_CardinalityType
  <2>5. Cardinality(before) < PageLimit
    <3> HIDE DEF before
    <3> QED BY <2>1, <2>4, InventoryAssumption
  <2> QED BY <2>5
<1>2. \A i \in 1..Len(subs) : subs[i].status # "terminated" => i \in matching /\ i \in page
  BY <1>1 DEF IsLive
<1>3. Served(subs, filtered, PageLimit) = [i \in page |-> subs[i]]
  BY DEF Served, Restrict
<1> HIDE DEF page
<1> QED BY <1>2, <1>3 DEF Live, RestrictValues, Restrict, IsLive

-----------------------------------------------------------------------------
\* The invariant

LEMMA IInvInit == Init => IInv /\ Complete
<1> SUFFICES ASSUME Init PROVE IInv /\ Complete
  OBVIOUS
<1>1. MaxSubs[kind] \in Nat /\ MaxEdits[kind] \in Nat /\ kind \in Kind
  BY InventoryAssumption DEF Init
<1>2. Shapes
  BY <1>1 DEF Init, Shapes
<1> QED BY <1>2 DEF Init, IInv, LegsInv, HistoryInv, ShownInv, Complete, Idle, NoTable, NoHistory, Asking

\* A change of the sources, whatever it is.
LEMMA EditKeeps ==
  ASSUME IInv, NEW newSubs \in Seq(SubSet(kind)), NEW newDocs \in Seq(DocSet(kind)), Edit(newSubs, newDocs),
         Len(subs) <= Len(newSubs), Len(newSubs) <= MaxSubs[kind],
         \A i \in 1..Len(newSubs) : Own(kind, i, newSubs[i]),
         \A i \in 1..Len(subs) : SameSub(kind, subs[i], newSubs[i])
  PROVE  IInv' /\ (Complete => Complete')
<1>0. kind' = kind /\ subs' = newSubs /\ docs' = newDocs
  BY DEF Edit
<1>1. Shapes'
  <2>1. MaxEdits[kind] \in Nat /\ edits \in Nat
    BY InventoryAssumption DEF IInv, Shapes
  <2>2. edits' \in Nat /\ edits' <= MaxEdits[kind]
    BY <2>1 DEF Edit
  <2> QED BY <1>0, <2>2 DEF Shapes, IInv
<1>2. CASE Asking
  <2>1. UNCHANGED <<wfo, dds, table>> /\ Asking'
    BY <1>2 DEF Edit, Asking
  <2>2. always' = [wfo |-> always.wfo \cap WfoKeys(kind, newSubs), dds |-> always.dds \cap DdsKeys(kind, newDocs)]
    BY <1>2, KeysOfKind DEF Edit
  <2>3. ever' = [wfo |-> ever.wfo \cup WfoKeys(kind, newSubs), dds |-> ever.dds \cup DdsKeys(kind, newDocs)]
    BY <1>2, KeysOfKind DEF Edit
  <2>4. LegsInv'
    <3>1. 1..Len(subs) \subseteq 1..Len(newSubs)
      BY DEF IInv, Shapes
    <3>2. ASSUME NEW i \in DOMAIN wfo.list PROVE SameSub(kind, wfo.list[i], newSubs[i])
      BY DEF IInv, LegsInv, SameSub
    <3> QED BY <1>0, <2>1, <3>1, <3>2 DEF IInv, LegsInv, Asking
  <2>5. HistoryInv'
    BY <1>0, <2>1, <2>2, <2>3 DEF IInv, HistoryInv, Asking
  <2>6. ShownInv'
    BY <1>2, <2>1 DEF IInv, ShownInv, Asking
  <2>7. Complete => Complete'
    <3>1. Len(subs)' <= PageLimit => Len(subs) <= PageLimit
      BY <1>0, InventoryAssumption DEF IInv, Shapes
    <3> QED BY <1>0, <2>1, <2>2, <3>1 DEF Complete
  <2> QED BY <1>1, <2>4, <2>5, <2>6, <2>7 DEF IInv
<1>3. CASE ~Asking
  <2>1. /\ wfo' = Idle /\ dds' = Idle /\ table' = NoTable
        /\ always' = NoHistory /\ ever' = NoHistory
    BY <1>3 DEF Edit
  <2> QED BY <1>0, <1>1, <2>1
        DEF IInv, LegsInv, HistoryInv, ShownInv, Complete, Idle, NoTable, NoHistory, Asking
<1> QED BY <1>2, <1>3

\* A leg is answered or fails: the sources, the table and the history stay.
LEMMA AnswerWfoKeeps ==
  ASSUME IInv, AnswerWfo
  PROVE  IInv' /\ (Complete => Complete')
<1>0. /\ wfo.state = "pending" /\ Asking
      /\ UNCHANGED <<kind, subs, docs, dds, table, edits, always, ever>>
  BY DEF AnswerWfo, IInv, LegsInv, Asking
<1>1. PICK filtered \in BOOLEAN : wfo' = Answered(Live(Served(subs, filtered, PageLimit)))
  BY DEF AnswerWfo
<1> DEFINE list == Live(Served(subs, filtered, PageLimit))
<1>2. wfo' = [state |-> "answered", list |-> list]
  BY <1>1 DEF Answered
<1>3. /\ DOMAIN list \subseteq 1..Len(subs)
      /\ \A i \in DOMAIN list : list[i] = subs[i] /\ subs[i].status # "terminated"
  BY ServedPage DEF IInv, Shapes
<1>4. Len(subs) <= PageLimit => \A i \in 1..Len(subs) : subs[i].status # "terminated" => i \in DOMAIN list
  BY ServedWhole DEF IInv, Shapes
<1> HIDE DEF list
<1>5. \A i \in 1..Len(subs) : subs[i].status \in Lifecycle /\ Own(kind, i, subs[i])
  BY DEF IInv, Shapes, Own, SubSet
<1>6. LegsInv'
  BY <1>0, <1>2, <1>3, <1>5 DEF IInv, LegsInv, Asking, SameSub, Lifecycle
<1>7. WfoKeys(kind, list) \subseteq WfoKeys(kind, subs)
  BY <1>3 DEF WfoKeys, IInv, Shapes
<1>8. Len(subs) <= PageLimit => WfoKeys(kind, subs) \subseteq WfoKeys(kind, list)
  BY <1>3, <1>4 DEF WfoKeys, IInv, Shapes
<1>9. HistoryInv'
  BY <1>0, <1>2, <1>7 DEF IInv, HistoryInv, Asking
<1>10. Complete => Complete'
  BY <1>0, <1>2, <1>8 DEF IInv, HistoryInv, Complete
<1>11. Shapes' /\ ShownInv'
  BY <1>0 DEF IInv, Shapes, ShownInv, Asking
<1> QED BY <1>6, <1>9, <1>10, <1>11 DEF IInv

LEMMA OtherLegsKeep ==
  ASSUME IInv, FailWfo \/ AnswerDds \/ FailDds
  PROVE  IInv' /\ (Complete => Complete')
<1>1. Asking /\ UNCHANGED <<kind, subs, docs, table, edits, always, ever>>
  BY DEF FailWfo, AnswerDds, FailDds, IInv, LegsInv, Asking
<1>2. Shapes' /\ ShownInv'
  BY <1>1 DEF IInv, Shapes, ShownInv, Asking
<1>3. CASE FailWfo
  BY <1>1, <1>2, <1>3 DEF FailWfo, Unreachable, IInv, LegsInv, HistoryInv, Complete, Asking
<1>4. CASE AnswerDds
  BY <1>1, <1>2, <1>4 DEF AnswerDds, Answered, IInv, Shapes, LegsInv, HistoryInv, Complete, Asking
<1>5. CASE FailDds
  BY <1>1, <1>2, <1>5 DEF FailDds, Unreachable, IInv, LegsInv, HistoryInv, Complete, Asking
<1> QED BY <1>3, <1>4, <1>5

LEMMA PageKeeps ==
  ASSUME IInv, Request \/ Compose
  PROVE  IInv' /\ (Complete => Complete')
<1>1. CASE Request
  <2>1. MaxEdits[kind] \in Nat
    BY InventoryAssumption DEF IInv, Shapes
  <2> QED BY <1>1, <2>1, KeysOfKind
        DEF Request, Pending, IInv, Shapes, LegsInv, HistoryInv, ShownInv, Complete, Asking
<1>2. CASE Compose
  <2>1. UNCHANGED <<kind, subs, docs, wfo, dds, edits, always, ever>> /\ Asking
    BY <1>2 DEF Compose
  <2>2. ~Asking' /\ wfo.state # "pending" /\ dds.state # "pending"
    BY <1>2 DEF Compose, Asking
  <2>3. ShownInv'
    <3>1. table' = IF "failed" \in {wfo.state, dds.state}
                   THEN [state |-> "error", rows |-> {}]
                   ELSE [state |-> "shown", rows |-> RowsOf(kind, wfo.list, dds.list)]
      BY <1>2, KeysOfKind DEF Compose
    <3>2. CASE "failed" \in {wfo.state, dds.state}
      BY <3>1, <3>2 DEF ShownInv
    <3>3. CASE "failed" \notin {wfo.state, dds.state}
      <4>1. wfo.state = "answered" /\ dds.state = "answered"
        BY <2>1, <2>2, <3>3 DEF IInv, LegsInv
      <4>2. table'.state = "shown" /\ table'.rows = RowsOf(kind, wfo.list, dds.list)
        BY <3>1, <3>3
      <4> QED BY <2>1, <4>1, <4>2 DEF ShownInv
    <3> QED BY <3>2, <3>3
  <2>4. table'.state \in {"error", "shown"}
    BY <1>2 DEF Compose
  <2> QED BY <2>1, <2>2, <2>3, <2>4 DEF IInv, Shapes, LegsInv, HistoryInv, Complete, Asking
<1> QED BY <1>1, <1>2

LEMMA SourcesKeep ==
  ASSUME IInv, Subscribe \/ Terminate \/ Advertise \/ Withdraw
  PROVE  IInv' /\ (Complete => Complete')
<1>1. /\ subs \in Seq(SubSet(kind)) /\ docs \in Seq(DocSet(kind)) /\ Len(subs) <= MaxSubs[kind]
      /\ \A i \in 1..Len(subs) : Own(kind, i, subs[i]) /\ SameSub(kind, subs[i], subs[i])
      /\ MaxSubs[kind] \in Nat /\ Len(subs) <= Len(subs)
  BY InventoryAssumption DEF IInv, Shapes, SameSub
<1>2. CASE Subscribe
  <2>1. PICK sub \in NewSubs(Len(subs) + 1) : Edit(Append(subs, sub), docs)
    BY <1>2 DEF Subscribe
  <2>2. Own(kind, Len(subs) + 1, sub)
    BY <1>1, NewSubsOwn
  <2> DEFINE newSubs == Append(subs, sub)
  <2>3. /\ newSubs \in Seq(SubSet(kind)) /\ Len(newSubs) = Len(subs) + 1
        /\ \A i \in 1..Len(subs) : newSubs[i] = subs[i]
        /\ newSubs[Len(subs) + 1] = sub
    BY <1>1, <2>2 DEF Own
  <2>4. Len(newSubs) <= MaxSubs[kind]
    BY <1>1, <1>2, <2>3 DEF Subscribe
  <2> HIDE DEF newSubs
  <2>5. \A i \in 1..Len(newSubs) : Own(kind, i, newSubs[i])
    BY <1>1, <2>2, <2>3
  <2>6. Edit(newSubs, docs)
    BY <2>1 DEF newSubs
  <2> QED BY <1>1, <2>3, <2>4, <2>5, <2>6, EditKeeps
<1>3. CASE Terminate
  <2>1. PICK k \in DOMAIN subs : Edit([subs EXCEPT ![k].status = "terminated"], docs)
    BY <1>3 DEF Terminate
  <2> DEFINE newSubs == [subs EXCEPT ![k] = [subs[k] EXCEPT !.status = "terminated"]]
  <2>2. Own(kind, k, newSubs[k]) /\ SameSub(kind, subs[k], newSubs[k])
    BY <1>1, EndedOwn
  <2>3. /\ newSubs \in Seq(SubSet(kind)) /\ Len(newSubs) = Len(subs)
        /\ \A i \in 1..Len(subs) : i # k => newSubs[i] = subs[i]
    BY <1>1, <2>2 DEF Own
  <2>4. Edit(newSubs, docs)
    BY <2>1
  <2> HIDE DEF newSubs
  <2>5. \A i \in 1..Len(newSubs) : Own(kind, i, newSubs[i]) /\ SameSub(kind, subs[i], newSubs[i])
    BY <1>1, <2>2, <2>3
  <2> QED BY <1>1, <2>3, <2>4, <2>5, EditKeeps
<1>4. CASE Advertise
  <2>1. PICK doc \in NewDocs : Edit(subs, Append(docs, doc))
    BY <1>4 DEF Advertise
  <2>2. Append(docs, doc) \in Seq(DocSet(kind))
    BY <1>1, NewDocsShape
  <2> QED BY <1>1, <2>1, <2>2, EditKeeps
<1>5. CASE Withdraw
  <2>1. PICK i \in DOMAIN docs : Edit(subs, SubSeq(docs, 1, i - 1) \o SubSeq(docs, i + 1, Len(docs)))
    BY <1>5 DEF Withdraw
  <2>2. i \in 1..Len(docs) /\ Len(docs) \in Nat /\ \A j \in 1..Len(docs) : docs[j] \in DocSet(kind)
    BY <1>1
  <2>3. SubSeq(docs, 1, i - 1) \in Seq(DocSet(kind))
    BY <2>2, SubSeqProperties
  <2>4. SubSeq(docs, i + 1, Len(docs)) \in Seq(DocSet(kind))
    BY <2>2, SubSeqProperties
  <2>5. SubSeq(docs, 1, i - 1) \o SubSeq(docs, i + 1, Len(docs)) \in Seq(DocSet(kind))
    BY <2>3, <2>4, ConcatProperties
  <2> QED BY <1>1, <2>1, <2>5, EditKeeps
<1> QED BY <1>2, <1>3, <1>4, <1>5

LEMMA IInvNext ==
  ASSUME IInv, [Next]_vars
  PROVE  IInv' /\ (Complete => Complete')
<1>1. CASE UNCHANGED vars
  BY <1>1 DEF vars, IInv, Shapes, LegsInv, HistoryInv, ShownInv, Complete, Asking
<1>2. CASE Next
  BY <1>2, SourcesKeep, PageKeeps, AnswerWfoKeeps, OtherLegsKeep DEF Next
<1> QED BY <1>1, <1>2

LEMMA IInvAlways == Spec => []IInv
<1>1. Init => IInv
  BY IInvInit
<1>2. IInv /\ [Next]_vars => IInv'
  BY IInvNext
<1> QED BY <1>1, <1>2, PTL DEF Spec

-----------------------------------------------------------------------------
\* Rows

KeyOfRow(k, row) == IF k = "sdp" THEN {row.a.local, row.z.local} ELSE {row.id.local}

\* Each object of either list has one row, the row says which lists it is in, and
\* links to a subscription of the object.
RowsRight(k, w, d, rows) ==
  /\ \A key \in WfoKeys(k, w) \cup DdsKeys(k, d) : \E row \in rows : KeyOfRow(k, row) = key
  /\ \A row \in rows :
       /\ KeyOfRow(k, row) \in WfoKeys(k, w) \cup DdsKeys(k, d)
       /\ row.status = Status(KeyOfRow(k, row) \in WfoKeys(k, w), KeyOfRow(k, row) \in DdsKeys(k, d))
       /\ row.sub # Nothing => \E i \in DOMAIN w : i = row.sub /\ SubKey(k, w[i]) = KeyOfRow(k, row)
       /\ \A other \in rows : KeyOfRow(k, other) = KeyOfRow(k, row) => other = row

\* The two lists of a page.
Fetched(k, n, w, d) ==
  /\ DOMAIN w \subseteq 1..n
  /\ \A i \in DOMAIN w : Own(k, i, w[i]) /\ w[i].status = "active"
  /\ d \in Seq(DocSet(k))

\* STPs, topologies and switching services.
LEMMA ObjectKeys ==
  ASSUME NEW k \in {"stp", "named"}, NEW n \in Nat, NEW w, NEW d, Fetched(k, n, w, d)
  PROVE  /\ WfoKeys(k, w) = {{id} : id \in DOMAIN ByNormalizedId(w)}
         /\ DdsKeys(k, d) = {{id} : id \in DOMAIN ByNormalizedId(d)}
<1>1. \A i \in DOMAIN w : w[i].id.local # Nothing /\ w[i].status # "terminated"
  BY InventoryAssumption DEF Fetched, Own, SubSet, RawId, Nothing
<1>2. \A i \in DOMAIN d : d[i].id.local # Nothing
  <2>1. \A i \in DOMAIN d : d[i] \in DocSet(k)
    BY DEF Fetched
  <2> QED BY <2>1, InventoryAssumption DEF DocSet, RawId, Nothing
<1>3. DOMAIN ByNormalizedId(w) = {w[i].id.local : i \in DOMAIN w}
  <2>1. DOMAIN ByNormalizedId(w) = {w[i].id.local : i \in DOMAIN w} \ {Nothing}
    BY ByIdFinds DEF Fetched
  <2>2. Nothing \notin {w[i].id.local : i \in DOMAIN w}
    BY <1>1
  <2> QED BY <2>1, <2>2
<1>4. DOMAIN ByNormalizedId(d) = {d[i].id.local : i \in DOMAIN d}
  <2>1. DOMAIN d \subseteq 1..Len(d) /\ Len(d) \in Nat
    BY DEF Fetched
  <2>2. DOMAIN ByNormalizedId(d) = {d[i].id.local : i \in DOMAIN d} \ {Nothing}
    BY <2>1, ByIdFinds
  <2>3. Nothing \notin {d[i].id.local : i \in DOMAIN d}
    BY <1>2
  <2> QED BY <2>2, <2>3
<1>5. WfoKeys(k, w) = {{w[i].id.local} : i \in DOMAIN w}
  BY <1>1 DEF WfoKeys, SubKey
<1>6. DdsKeys(k, d) = {{d[i].id.local} : i \in DOMAIN d}
  BY DEF DdsKeys, DocKey
<1>7. WfoKeys(k, w) = {{id} : id \in DOMAIN ByNormalizedId(w)}
  BY <1>3, <1>5
<1>8. DdsKeys(k, d) = {{id} : id \in DOMAIN ByNormalizedId(d)}
  BY <1>4, <1>6
<1> QED BY <1>7, <1>8

LEMMA ObjectRow ==
  ASSUME NEW k \in {"stp", "named"}, NEW n \in Nat, NEW w, NEW d, Fetched(k, n, w, d), NEW name,
         NEW id \in DOMAIN ByNormalizedId(w) \cup DOMAIN ByNormalizedId(d)
  PROVE  LET row == Row(id, ByNormalizedId(w), ByNormalizedId(d), name)
         IN /\ row.id.local = id
            /\ row.status = Status(id \in DOMAIN ByNormalizedId(w), id \in DOMAIN ByNormalizedId(d))
            /\ row.sub # Nothing => \E i \in DOMAIN w : i = row.sub /\ w[i].id.local = id
<1> DEFINE W == ByNormalizedId(w)
           D == ByNormalizedId(d)
<1>1. \A key \in DOMAIN W : \E i \in DOMAIN w : w[i].id.local = key /\ W[key] = w[i]
  BY ByIdFinds DEF Fetched
<1>2. \A key \in DOMAIN D : \E i \in DOMAIN d : d[i].id.local = key /\ D[key] = d[i]
  <2>1. DOMAIN d \subseteq 1..Len(d) /\ Len(d) \in Nat
    BY DEF Fetched
  <2> QED BY <2>1, ByIdFinds
<1>3. \A i \in DOMAIN w : w[i].sub = i
  BY DEF Fetched, Own
<1> HIDE DEF W, D
<1>4. id \in DOMAIN W \cup DOMAIN D
  BY DEF W, D
<1>5. Row(id, W, D, name).sub # Nothing => \E i \in DOMAIN w : i = Row(id, W, D, name).sub /\ w[i].id.local = id
  BY <1>1, <1>3 DEF Row, Get, NoItem
<1> QED BY <1>1, <1>2, <1>4, <1>5 DEF Row, W, D

LEMMA ObjectRows ==
  ASSUME NEW k \in {"stp", "named"}, NEW n \in Nat, NEW w, NEW d, Fetched(k, n, w, d), NEW names
  PROVE  RowsRight(k, w, d, {Row(id, ByNormalizedId(w), ByNormalizedId(d), names[id]) :
                               id \in DOMAIN ByNormalizedId(w) \cup DOMAIN ByNormalizedId(d)})
<1> DEFINE W == ByNormalizedId(w)
           D == ByNormalizedId(d)
           R(id) == Row(id, W, D, names[id])
           rows == {R(id) : id \in DOMAIN W \cup DOMAIN D}
<1>1. WfoKeys(k, w) = {{id} : id \in DOMAIN W} /\ DdsKeys(k, d) = {{id} : id \in DOMAIN D}
  BY ObjectKeys
<1>2. \A id \in DOMAIN W \cup DOMAIN D :
        /\ R(id).id.local = id
        /\ R(id).status = Status(id \in DOMAIN W, id \in DOMAIN D)
        /\ R(id).sub # Nothing => \E i \in DOMAIN w : i = R(id).sub /\ w[i].id.local = id
  BY ObjectRow
<1> HIDE DEF W, D, R
<1>3. \A id : ({id} \in WfoKeys(k, w) <=> id \in DOMAIN W) /\ ({id} \in DdsKeys(k, d) <=> id \in DOMAIN D)
  BY <1>1
<1>4. \A id \in DOMAIN W \cup DOMAIN D : KeyOfRow(k, R(id)) = {id}
  BY <1>2 DEF KeyOfRow
<1>5. \A key \in WfoKeys(k, w) \cup DdsKeys(k, d) : \E row \in rows : KeyOfRow(k, row) = key
  BY <1>1, <1>4
<1>6. ASSUME NEW row \in rows
      PROVE  /\ KeyOfRow(k, row) \in WfoKeys(k, w) \cup DdsKeys(k, d)
             /\ row.status = Status(KeyOfRow(k, row) \in WfoKeys(k, w), KeyOfRow(k, row) \in DdsKeys(k, d))
             /\ row.sub # Nothing => \E i \in DOMAIN w : i = row.sub /\ SubKey(k, w[i]) = KeyOfRow(k, row)
             /\ \A other \in rows : KeyOfRow(k, other) = KeyOfRow(k, row) => other = row
  <2>1. PICK id \in DOMAIN W \cup DOMAIN D : row = R(id)
    OBVIOUS
  <2>2. KeyOfRow(k, row) = {id}
    BY <1>4, <2>1
  <2>3. KeyOfRow(k, row) \in WfoKeys(k, w) \cup DdsKeys(k, d)
    BY <1>3, <2>2
  <2>4. row.status = Status(KeyOfRow(k, row) \in WfoKeys(k, w), KeyOfRow(k, row) \in DdsKeys(k, d))
    <3>1. row.status = Status(id \in DOMAIN W, id \in DOMAIN D)
      BY <1>2, <2>1
    <3>2. ({id} \in WfoKeys(k, w)) = (id \in DOMAIN W) /\ ({id} \in DdsKeys(k, d)) = (id \in DOMAIN D)
      BY <1>3
    <3> QED BY <2>2, <3>1, <3>2 DEF Status
  <2>5. row.sub # Nothing => \E i \in DOMAIN w : i = row.sub /\ SubKey(k, w[i]) = KeyOfRow(k, row)
    BY <1>2, <2>1, <2>2 DEF SubKey
  <2>6. \A other \in rows : KeyOfRow(k, other) = KeyOfRow(k, row) => other = row
    BY <1>4, <2>1, <2>2
  <2> QED BY <2>3, <2>4, <2>5, <2>6
<1>7. RowsRight(k, w, d, rows)
  BY <1>5, <1>6 DEF RowsRight
<1> QED BY <1>7 DEF R, W, D

LEMMA ObjectTables ==
  ASSUME NEW k \in {"stp", "named"}, NEW n \in Nat, NEW w, NEW d, Fetched(k, n, w, d)
  PROVE  RowsRight(k, w, d, RowsOf(k, w, d))
<1> DEFINE W == ByNormalizedId(w)
           D == ByNormalizedId(d)
           stpNames == [id \in DOMAIN W \cup DOMAIN D |-> Or(Get(D, id, NoItem).name, Get(W, id, NoItem).name)]
           names == [id \in DOMAIN W \cup DOMAIN D |-> Or(Get(W, id, NoItem).name, Get(D, id, NoItem).name)]
<1>1. ReconcileStps(w, d) = {Row(id, W, D, stpNames[id]) : id \in DOMAIN W \cup DOMAIN D}
  BY DEF ReconcileStps, StpRow
<1>2. ReconcileNamed(w, d) = {Row(id, W, D, names[id]) : id \in DOMAIN W \cup DOMAIN D}
  BY DEF ReconcileNamed, NamedRow
<1> HIDE DEF stpNames, names
<1>3. RowsRight(k, w, d, ReconcileStps(w, d)) /\ RowsRight(k, w, d, ReconcileNamed(w, d))
  BY <1>1, <1>2, ObjectRows
<1>4. RowsOf(k, w, d) = ReconcileStps(w, d) \/ RowsOf(k, w, d) = ReconcileNamed(w, d)
  BY DEF RowsOf
<1> QED BY <1>3, <1>4

-----------------------------------------------------------------------------
\* SDPs

LEMMA PairOfTwo ==
  ASSUME NEW x, NEW y, x.local # Nothing, y.local # Nothing
  PROVE  SdpPair({x, y}) = PairKey({x.local, y.local})
<1>1. {NormalizeId(raw) : raw \in {x, y}} \ {Nothing} = {x.local, y.local}
  BY DEF NormalizeId
<1>2. (\E a, z \in {x.local, y.local} : a # z /\ {x.local, y.local} = {a, z}) <=> x.local # y.local
  OBVIOUS
<1>3. PairKey({x.local, y.local}) = IF x.local # y.local THEN {x.local, y.local} ELSE {}
  BY TwoIds DEF PairKey
<1> QED BY <1>1, <1>2, <1>3 DEF SdpPair

LEMMA TwoMembers ==
  ASSUME NEW s, NEW stps \in Pairs(s)
  PROVE  \E a, z \in Local, form \in SubForm, c, d \in Capacity :
           /\ stps = <<Member(s, a, form, c), Member(s, z, form, d)>>
           /\ DOMAIN stps = {1, 2} /\ stps[1] = Member(s, a, form, c) /\ stps[2] = Member(s, z, form, d)
BY DEF Pairs

LEMMA PairOfSubRight ==
  ASSUME NEW s, NEW sub, Own("sdp", s, sub)
  PROVE  PairOfSub(sub) = SubKey("sdp", sub)
<1>1. PICK a \in Local, z \in Local, form \in SubForm, c \in Capacity, d \in Capacity :
        DOMAIN sub.stps = {1, 2} /\ sub.stps[1] = Member(s, a, form, c) /\ sub.stps[2] = Member(s, z, form, d)
  BY TwoMembers DEF Own
<1>2. sub.stps[1].id.local = a /\ sub.stps[2].id.local = z
  BY <1>1 DEF Member
<1>3. {sub.stps[i].id : i \in DOMAIN sub.stps} = {sub.stps[1].id, sub.stps[2].id}
  BY <1>1
<1>4. {sub.stps[i].id.local : i \in DOMAIN sub.stps} = {sub.stps[1].id.local, sub.stps[2].id.local}
  BY <1>1
<1>5. a # Nothing /\ z # Nothing
  BY InventoryAssumption DEF Nothing
<1> QED BY <1>2, <1>3, <1>4, <1>5, PairOfTwo DEF PairOfSub, SubKey

LEMMA PairOfDdsRight ==
  ASSUME NEW doc \in DocSet("sdp")
  PROVE  PairOfDds(doc) = DocKey("sdp", doc)
<1>1. doc.a.local # Nothing /\ doc.z.local # Nothing
  BY InventoryAssumption DEF DocSet, RawId, Nothing
<1> QED BY <1>1, PairOfTwo DEF PairOfDds, DocKey

LEMMA SdpKeys ==
  ASSUME NEW n \in Nat, NEW w, NEW d, Fetched("sdp", n, w, d)
  PROVE  /\ WfoKeys("sdp", w) = DOMAIN Index(w, PairOfSub, {})
         /\ DdsKeys("sdp", d) = DOMAIN Index(d, PairOfDds, {})
<1>1. WfoKeys("sdp", w) = {SubKey("sdp", w[i]) : i \in DOMAIN w} \ {{}}
  BY DEF Fetched, WfoKeys
<1>2. \A i \in DOMAIN w : PairOfSub(w[i]) = SubKey("sdp", w[i])
  BY PairOfSubRight DEF Fetched
<1>3. DOMAIN Index(w, PairOfSub, {}) = {PairOfSub(w[i]) : i \in DOMAIN w} \ {{}}
  BY ByPairFindsSub DEF Fetched
<1>4. DOMAIN d \subseteq 1..Len(d) /\ Len(d) \in Nat /\ \A i \in DOMAIN d : d[i] \in DocSet("sdp")
  BY DEF Fetched
<1>5. \A i \in DOMAIN d : PairOfDds(d[i]) = DocKey("sdp", d[i])
  BY <1>4, PairOfDdsRight
<1>6. DOMAIN Index(d, PairOfDds, {}) = {PairOfDds(d[i]) : i \in DOMAIN d} \ {{}}
  BY <1>4, ByPairFindsDds
<1>7. {PairOfSub(w[i]) : i \in DOMAIN w} = {SubKey("sdp", w[i]) : i \in DOMAIN w}
  BY <1>2
<1>8. {PairOfDds(d[i]) : i \in DOMAIN d} = {DocKey("sdp", d[i]) : i \in DOMAIN d}
  BY <1>5
<1> QED BY <1>1, <1>3, <1>6, <1>7, <1>8 DEF DdsKeys

\* The end with a given id is found wherever it is listed.
LEMMA EndFound ==
  ASSUME NEW s \in Nat, NEW stps \in Pairs(s), NEW raw,
         raw.local \in {stps[i].id.local : i \in DOMAIN stps}
  PROVE  /\ SdpEnd(stps, raw).name = NameOf(s, raw.local)
         /\ SdpEnd(stps, raw).owner = NameOf(s, raw.local)
         /\ SdpEnd(stps, raw).label = raw.local
<1>1. PICK a \in Local, z \in Local, form \in SubForm, c \in Capacity, d \in Capacity :
        DOMAIN stps = {1, 2} /\ stps[1] = Member(s, a, form, c) /\ stps[2] = Member(s, z, form, d)
  BY TwoMembers
<1>2. \A i \in DOMAIN stps :
        /\ stps[i].id.local # Nothing
        /\ stps[i].name = NameOf(s, stps[i].id.local) /\ stps[i].owner = NameOf(s, stps[i].id.local)
        /\ stps[i].label = stps[i].id.local
  BY <1>1, InventoryAssumption DEF Member, Nothing
<1>3. DOMAIN stps \subseteq 1..2
  BY <1>1
<1>4. raw.local \in DOMAIN ByNormalizedId(stps)
  BY <1>2, <1>3, ByIdFinds
<1>5. PICK i \in DOMAIN stps : stps[i].id.local = raw.local /\ ByNormalizedId(stps)[raw.local] = stps[i]
  BY <1>3, <1>4, ByIdFinds
<1>6. SdpEnd(stps, raw) = stps[i]
  BY <1>4, <1>5 DEF SdpEnd, Get, NormalizeId
<1> QED BY <1>2, <1>5, <1>6

LEMMA CapacityRight ==
  ASSUME NEW s, NEW sub, sub.stps \in Pairs(s)
  PROVE  /\ \A i \in DOMAIN sub.stps :
              sub.stps[i].capacity # NoCapacity => SdpCapacity(sub) <= sub.stps[i].capacity
         /\ SdpCapacity(sub) = NoCapacity => \A i \in DOMAIN sub.stps : sub.stps[i].capacity = NoCapacity
<1> DEFINE known == {sub.stps[i].capacity : i \in DOMAIN sub.stps} \ {NoCapacity}
<1>1. PICK a \in Local, z \in Local, form \in SubForm, c \in Capacity, d \in Capacity :
        DOMAIN sub.stps = {1, 2} /\ sub.stps[1] = Member(s, a, form, c) /\ sub.stps[2] = Member(s, z, form, d)
  BY TwoMembers
<1>2. known = {c, d} \ {NoCapacity}
  <2>1. {sub.stps[i].capacity : i \in DOMAIN sub.stps} = {sub.stps[1].capacity, sub.stps[2].capacity}
    BY <1>1
  <2>2. sub.stps[1].capacity = c /\ sub.stps[2].capacity = d
    BY <1>1 DEF Member
  <2> QED BY <2>1, <2>2
<1>3. known \subseteq Nat
  BY <1>2, InventoryAssumption
<1>4. SdpCapacity(sub) = IF known = {} THEN NoCapacity
                         ELSE CHOOSE x \in known : \A y \in known : x <= y
  BY DEF SdpCapacity
<1>5. \A i \in DOMAIN sub.stps : sub.stps[i].capacity # NoCapacity => sub.stps[i].capacity \in known
  OBVIOUS
<1>6. CASE known = {}
  BY <1>4, <1>5, <1>6
<1>7. CASE known # {}
  <2>1. \E x \in known : \A y \in known : x <= y
    <3> HIDE DEF known
    <3>1. known \subseteq {c, d}
      BY <1>2
    <3>2. CASE c \in known /\ (d \in known => c <= d)
      BY <1>3, <3>1, <3>2
    <3>3. CASE d \in known /\ (c \in known => d <= c)
      BY <1>3, <3>1, <3>3
    <3>4. c \in known \/ d \in known
      BY <1>7, <3>1
    <3>5. c \in known /\ d \in known => c <= d \/ d <= c
      <4>1. c \in known /\ d \in known => c \in Nat /\ d \in Nat
        BY <1>3
      <4> QED BY <4>1
    <3> QED BY <3>2, <3>3, <3>4, <3>5
  <2>2. SdpCapacity(sub) \in known /\ \A y \in known : SdpCapacity(sub) <= y
    <3> HIDE DEF known
    <3> QED BY <1>4, <1>7, <2>1
  <2> QED BY <1>5, <2>2
<1> QED BY <1>6, <1>7

\* The values of subscription s in a row, and the row's capacity.
EndsRight(row, s) ==
  /\ row.aLabel = <<"name", NameOf(s, row.a.local)>> /\ row.aStp = NameOf(s, row.a.local)
  /\ row.zLabel = <<"name", NameOf(s, row.z.local)>> /\ row.zStp = NameOf(s, row.z.local)
  /\ row.labels = {row.a.local, row.z.local}
CapacityOf(row, ends) ==
  LET known == {i \in DOMAIN ends : ends[i].capacity # NoCapacity}
  IN /\ \A i \in known : row.capacity <= ends[i].capacity
     /\ row.capacity = NoCapacity => known = {}

\* The pair of a row, in either order.
LEMMA PairHasTwo ==
  ASSUME NEW n \in Nat, NEW w, NEW d, Fetched("sdp", n, w, d),
         NEW pair \in DOMAIN Index(w, PairOfSub, {}) \cup DOMAIN Index(d, PairOfDds, {})
  PROVE  \E x, y \in Local : x # y /\ pair = {x, y}
<1>1. CASE pair \in WfoKeys("sdp", w)
  <2>1. PICK i \in DOMAIN w : pair = SubKey("sdp", w[i]) /\ pair # {} /\ w[i].stps \in Pairs(i)
    BY <1>1 DEF WfoKeys, Fetched, Own
  <2>2. PICK a \in Local, z \in Local, form \in SubForm, c \in Capacity, e \in Capacity :
          DOMAIN w[i].stps = {1, 2} /\ w[i].stps[1] = Member(i, a, form, c) /\ w[i].stps[2] = Member(i, z, form, e)
    BY <2>1, TwoMembers
  <2>3. {w[i].stps[j].id.local : j \in DOMAIN w[i].stps} = {w[i].stps[1].id.local, w[i].stps[2].id.local}
    BY <2>2
  <2>4. pair = PairKey({a, z})
    BY <2>1, <2>2, <2>3 DEF SubKey, Member
  <2> QED BY <2>1, <2>4, TwoIds DEF PairKey
<1>2. CASE pair \in DdsKeys("sdp", d)
  <2>1. PICK i \in DOMAIN d : pair = PairKey({d[i].a.local, d[i].z.local}) /\ pair # {}
    BY <1>2 DEF DdsKeys, DocKey
  <2>2. d[i] \in DocSet("sdp")
    BY DEF Fetched
  <2>3. d[i].a.local \in Local /\ d[i].z.local \in Local
    BY <2>2 DEF DocSet, RawId
  <2> QED BY <2>1, <2>3, TwoIds DEF PairKey
<1> QED BY <1>1, <1>2, SdpKeys

LEMMA OrderOfPair ==
  ASSUME NEW n \in Nat, NEW w, NEW d, Fetched("sdp", n, w, d),
         NEW pair \in DOMAIN Index(w, PairOfSub, {}) \cup DOMAIN Index(d, PairOfDds, {})
  PROVE  LET az == AzOrder(pair, Index(d, PairOfDds, {}))
         IN pair = {az[1].local, az[2].local} /\ az[1].local # az[2].local
<1> DEFINE D == Index(d, PairOfDds, {})
<1>1. PICK x \in Local, y \in Local : x # y /\ pair = {x, y}
  BY PairHasTwo
<1>2. CASE pair \in DOMAIN D
  <2>1. DOMAIN d \subseteq 1..Len(d) /\ Len(d) \in Nat /\ \A i \in DOMAIN d : d[i] \in DocSet("sdp")
    BY DEF Fetched
  <2>2. PICK i \in DOMAIN d : PairOfDds(d[i]) = pair /\ D[pair] = d[i]
    BY <1>2, <2>1, ByPairFindsDds
  <2>3. pair = PairKey({d[i].a.local, d[i].z.local})
    BY <2>1, <2>2, PairOfDdsRight DEF DocKey
  <2>4. pair = {d[i].a.local, d[i].z.local}
    BY <1>1, <2>3 DEF PairKey
  <2>5. AzOrder(pair, D) = <<d[i].a, d[i].z>>
    BY <1>2, <2>2 DEF AzOrder
  <2> QED BY <1>1, <2>4, <2>5
<1>3. CASE pair \notin DOMAIN D
  <2> DEFINE low == CHOOSE a \in pair : \A z \in pair : a <= z
             high == CHOOSE z \in pair : z # low
  <2>1. \E a \in pair : \A z \in pair : a <= z
    BY <1>1, InventoryAssumption
  <2>2. low \in pair
    BY <2>1
  <2>3. \E z \in pair : z # low
    BY <1>1
  <2>4. high \in pair /\ high # low
    <3> HIDE DEF low
    <3> QED BY <2>3
  <2>5. AzOrder(pair, D) = <<Bare(low), Bare(high)>>
    BY <1>3 DEF AzOrder
  <2> HIDE DEF low, high
  <2> QED BY <1>1, <2>2, <2>4, <2>5 DEF Bare
<1> QED BY <1>2, <1>3

LEMMA SdpRowRight ==
  ASSUME NEW n \in Nat, NEW w, NEW d, Fetched("sdp", n, w, d),
         NEW pair \in DOMAIN Index(w, PairOfSub, {}) \cup DOMAIN Index(d, PairOfDds, {})
  PROVE  LET row == SdpRow(pair, Index(w, PairOfSub, {}), Index(d, PairOfDds, {}))
         IN /\ {row.a.local, row.z.local} = pair
            /\ row.status = Status(pair \in DOMAIN Index(w, PairOfSub, {}), pair \in DOMAIN Index(d, PairOfDds, {}))
            /\ row.sub # Nothing =>
                 \E i \in DOMAIN w :
                   i = row.sub /\ SubKey("sdp", w[i]) = pair /\ EndsRight(row, i) /\ CapacityOf(row, w[i].stps)
<1> DEFINE W == Index(w, PairOfSub, {})
           D == Index(d, PairOfDds, {})
           az == AzOrder(pair, D)
           row == SdpRow(pair, W, D)
<1>1. pair = {az[1].local, az[2].local} /\ az[1].local # az[2].local
  BY OrderOfPair
<1>2. row.a = az[1] /\ row.z = az[2] /\ row.status = Status(pair \in DOMAIN W, pair \in DOMAIN D)
  BY DEF SdpRow
<1>3. ASSUME row.sub # Nothing
      PROVE  \E i \in DOMAIN w :
               i = row.sub /\ SubKey("sdp", w[i]) = pair /\ EndsRight(row, i) /\ CapacityOf(row, w[i].stps)
  <2>1. pair \in DOMAIN W
    BY <1>3 DEF SdpRow
  <2>2. PICK i \in DOMAIN w : PairOfSub(w[i]) = pair /\ W[pair] = w[i]
    BY <2>1, ByPairFindsSub DEF Fetched
  <2>3. Own("sdp", i, w[i]) /\ i \in Nat
    BY DEF Fetched
  <2>4. SubKey("sdp", w[i]) = pair
    BY <2>2, <2>3, PairOfSubRight
  <2> DEFINE stps == w[i].stps
  <2>5. /\ row.sub = w[i].sub
        /\ row.aLabel = EndLabel(SdpEnd(stps, az[1]), az[1]) /\ row.zLabel = EndLabel(SdpEnd(stps, az[2]), az[2])
        /\ row.aStp = SdpEnd(stps, az[1]).owner /\ row.zStp = SdpEnd(stps, az[2]).owner
        /\ row.labels = Shared(SdpEnd(stps, az[1]).label, SdpEnd(stps, az[2]).label)
        /\ row.capacity = SdpCapacity(w[i])
    BY <2>1, <2>2 DEF SdpRow
  <2>6. pair = {stps[j].id.local : j \in DOMAIN stps}
    BY <1>1, <2>4 DEF SubKey, PairKey
  <2>7. PICK x \in Local, y \in Local : x # y /\ pair = {x, y}
    BY PairHasTwo
  <2>8. az[1].local \in Nat /\ az[2].local \in Nat /\ az[1].local # Nothing /\ az[2].local # Nothing
    BY <1>1, <2>7, InventoryAssumption DEF Nothing
  <2>9. stps \in Pairs(i)
    BY <2>3 DEF Own
  <2> HIDE DEF stps, row, az
  <2>10. ASSUME NEW raw \in {az[1], az[2]}
         PROVE  /\ SdpEnd(stps, raw).name = NameOf(i, raw.local)
                /\ SdpEnd(stps, raw).owner = NameOf(i, raw.local)
                /\ SdpEnd(stps, raw).label = raw.local
                /\ EndLabel(SdpEnd(stps, raw), raw) = <<"name", NameOf(i, raw.local)>>
    <3>1. raw.local \in {stps[j].id.local : j \in DOMAIN stps}
      BY <1>1, <2>6
    <3>2. /\ SdpEnd(stps, raw).name = NameOf(i, raw.local)
          /\ SdpEnd(stps, raw).owner = NameOf(i, raw.local)
          /\ SdpEnd(stps, raw).label = raw.local
      BY <2>3, <2>9, <3>1, EndFound
    <3>3. NameOf(i, raw.local) # Nothing
      BY <2>3, <2>8 DEF NameOf, Nothing
    <3> QED BY <3>2, <3>3 DEF EndLabel
  <2>11. EndsRight(row, i)
    BY <1>2, <2>5, <2>8, <2>10 DEF EndsRight, Shared
  <2>12. CapacityOf(row, stps)
    BY <2>5, <2>9, CapacityRight DEF CapacityOf, stps
  <2>13. row.sub = i
    BY <2>3, <2>5 DEF Own
  <2> QED BY <2>4, <2>11, <2>12, <2>13 DEF stps
<1> QED BY <1>1, <1>2, <1>3

LEMMA SdpTables ==
  ASSUME NEW n \in Nat, NEW w, NEW d, Fetched("sdp", n, w, d)
  PROVE  /\ RowsRight("sdp", w, d, RowsOf("sdp", w, d))
         /\ \A row \in RowsOf("sdp", w, d) : row.sub # Nothing =>
              \E i \in DOMAIN w : i = row.sub /\ EndsRight(row, i) /\ CapacityOf(row, w[i].stps)
<1> DEFINE W == Index(w, PairOfSub, {})
           D == Index(d, PairOfDds, {})
           R(pair) == SdpRow(pair, W, D)
           pairs == DOMAIN W \cup DOMAIN D
           rows == {R(pair) : pair \in pairs}
<1>1. RowsOf("sdp", w, d) = rows
  BY DEF RowsOf, ReconcileSdps
<1>2. WfoKeys("sdp", w) = DOMAIN W /\ DdsKeys("sdp", d) = DOMAIN D
  BY SdpKeys
<1>3. \A pair \in pairs :
        /\ {R(pair).a.local, R(pair).z.local} = pair
        /\ R(pair).status = Status(pair \in DOMAIN W, pair \in DOMAIN D)
        /\ R(pair).sub # Nothing =>
             \E i \in DOMAIN w : /\ i = R(pair).sub /\ SubKey("sdp", w[i]) = pair
                                 /\ EndsRight(R(pair), i) /\ CapacityOf(R(pair), w[i].stps)
  BY SdpRowRight
<1> HIDE DEF W, D, R
<1>4. \A pair \in pairs : KeyOfRow("sdp", R(pair)) = pair
  BY <1>3 DEF KeyOfRow
<1>5. \A key \in DOMAIN W \cup DOMAIN D : \E row \in rows : KeyOfRow("sdp", row) = key
  BY <1>4
<1>6. ASSUME NEW row \in rows
      PROVE  /\ KeyOfRow("sdp", row) \in DOMAIN W \cup DOMAIN D
             /\ row.status = Status(KeyOfRow("sdp", row) \in DOMAIN W, KeyOfRow("sdp", row) \in DOMAIN D)
             /\ row.sub # Nothing => \E i \in DOMAIN w : i = row.sub /\ SubKey("sdp", w[i]) = KeyOfRow("sdp", row)
             /\ \A other \in rows : KeyOfRow("sdp", other) = KeyOfRow("sdp", row) => other = row
  <2>1. PICK pair \in pairs : row = R(pair)
    OBVIOUS
  <2>2. KeyOfRow("sdp", row) = pair
    BY <1>4, <2>1
  <2> QED BY <1>3, <1>4, <2>1, <2>2
<1>7. RowsRight("sdp", w, d, rows)
  BY <1>2, <1>5, <1>6 DEF RowsRight
<1>8. \A row \in rows : row.sub # Nothing =>
        \E i \in DOMAIN w : i = row.sub /\ EndsRight(row, i) /\ CapacityOf(row, w[i].stps)
  BY <1>3
<1> QED BY <1>1, <1>7, <1>8

-----------------------------------------------------------------------------
\* The table shown

LEMMA ShownRight ==
  ASSUME IInv, table.state = "shown"
  PROVE  /\ RowsRight(kind, wfo.list, dds.list, table.rows)
         /\ kind = "sdp" => \A row \in table.rows : row.sub # Nothing =>
              \E i \in DOMAIN wfo.list :
                i = row.sub /\ EndsRight(row, i) /\ CapacityOf(row, wfo.list[i].stps)
<1>1. table.rows = RowsOf(kind, wfo.list, dds.list)
  BY DEF IInv, ShownInv
<1>2. Fetched(kind, Len(subs), wfo.list, dds.list) /\ Len(subs) \in Nat
  BY DEF IInv, Shapes, LegsInv, Fetched
<1>3. CASE kind = "sdp"
  <2>1. Fetched("sdp", Len(subs), wfo.list, dds.list)
    BY <1>2, <1>3
  <2> QED BY <1>1, <1>2, <1>3, <2>1, SdpTables
<1>4. CASE kind # "sdp"
  <2>1. kind \in {"stp", "named"}
    BY <1>4, InventoryAssumption DEF IInv, Shapes
  <2> QED BY <1>1, <1>2, <1>4, <2>1, ObjectTables
<1> QED BY <1>3, <1>4

LEMMA EmptyUnlessShown ==
  ASSUME IInv, table.state # "shown"
  PROVE  table.rows = {}
BY DEF IInv, ShownInv

LEMMA RowKeyOfKind ==
  \A row : RowKey(row) = KeyOfRow(kind, row)
BY DEF RowKey, KeyOfRow

\* A subscription that was answered is, in what identifies it and its ends, the
\* one the orchestrator has.
LEMMA SubUnchanged ==
  ASSUME IInv, NEW i \in DOMAIN wfo.list
  PROVE  /\ i \in DOMAIN subs /\ subs[i].sub = i
         /\ SubKey(kind, wfo.list[i]) = KeyOfSub(subs[i])
         /\ kind = "sdp" => wfo.list[i].stps = subs[i].stps
<1>1. i \in 1..Len(subs) /\ DOMAIN subs = 1..Len(subs) /\ Own(kind, i, subs[i])
  BY DEF IInv, Shapes, LegsInv
<1>2. SameSub(kind, wfo.list[i], subs[i])
  BY DEF IInv, LegsInv
<1> QED BY <1>1, <1>2 DEF SameSub, SubKey, KeyOfSub, Own

\* Every leg is a list its source served, and rows are shown by a composed page
\* only (TypeOK).
THEOREM TypeCorrect == Spec => []TypeOK
<1>1. ASSUME IInv PROVE TypeOK
  <2>1. \A row \in table.rows : row.status \in {"IN_BOTH", "DDS_ONLY", "MISSING_IN_DDS"}
    <3>1. CASE table.state = "shown"
      BY <1>1, <3>1, ShownRight DEF RowsRight, Status
    <3>2. CASE table.state # "shown"
      BY <1>1, <3>2, EmptyUnlessShown
    <3> QED BY <3>1, <3>2
  <2>2. table.rows # {} => table.state = "shown"
    BY <1>1, EmptyUnlessShown
  <2> QED BY <1>1, <2>1, <2>2 DEF IInv, Shapes, LegsInv, HistoryInv, TypeOK
<1> QED BY <1>1, IInvAlways, PTL

\* However the two sources change while they are read, and whatever ids they
\* write and repeat, an object has one row, linked to a subscription of that
\* object (OneRowPerObject).
THEOREM OneRowEach == Spec => []OneRowPerObject
<1>1. ASSUME IInv PROVE OneRowPerObject
  <2>1. CASE table.state = "shown"
    <3>1. RowsRight(kind, wfo.list, dds.list, table.rows)
      BY <1>1, <2>1, ShownRight
    <3>2. ASSUME NEW row \in table.rows, row.sub # Nothing
          PROVE  \E i \in DOMAIN subs : subs[i].sub = row.sub /\ KeyOfSub(subs[i]) = RowKey(row)
      <4>1. PICK i \in DOMAIN wfo.list : i = row.sub /\ SubKey(kind, wfo.list[i]) = KeyOfRow(kind, row)
        BY <3>1, <3>2 DEF RowsRight
      <4> QED BY <1>1, <4>1, SubUnchanged, RowKeyOfKind
    <3> QED BY <3>1, <3>2, RowKeyOfKind DEF RowsRight, OneRowPerObject
  <2>2. CASE table.state # "shown"
    BY <1>1, <2>2, EmptyUnlessShown DEF OneRowPerObject
  <2> QED BY <2>1, <2>2
<1> QED BY <1>1, IInvAlways, PTL

\* Each end of an SDP row has the values of its own member, in whatever order the
\* orchestrator lists the two (EndsInTheirColumns).
THEOREM ColumnsOfTheEnds == Spec => []EndsInTheirColumns
<1>1. ASSUME IInv PROVE EndsInTheirColumns
  <2>1. CASE table.state = "shown"
    BY <1>1, <2>1, ShownRight DEF EndsInTheirColumns, EndsRight
  <2>2. CASE table.state # "shown"
    BY <1>1, <2>2, EmptyUnlessShown DEF EndsInTheirColumns
  <2> QED BY <2>1, <2>2
<1> QED BY <1>1, IInvAlways, PTL

\* The capacity of an SDP row is no more than that of either end, 0 included, and
\* unknown only if both are (CapacityIsTheLowerEnd).
THEOREM CapacityOfTheLink == Spec => []CapacityIsTheLowerEnd
<1>1. ASSUME IInv PROVE CapacityIsTheLowerEnd
  <2>1. CASE table.state = "shown" /\ kind = "sdp"
    <3>1. ASSUME NEW row \in table.rows, row.sub # Nothing PROVE CapacityOf(row, subs[row.sub].stps)
      <4>1. PICK i \in DOMAIN wfo.list : i = row.sub /\ CapacityOf(row, wfo.list[i].stps)
        BY <1>1, <2>1, <3>1, ShownRight
      <4>2. wfo.list[i].stps = subs[i].stps
        BY <1>1, <2>1, SubUnchanged
      <4> QED BY <4>1, <4>2
    <3> QED BY <3>1 DEF CapacityIsTheLowerEnd, CapacityOf
  <2>2. CASE table.state # "shown" \/ kind # "sdp"
    BY <1>1, <2>2, EmptyUnlessShown DEF CapacityIsTheLowerEnd
  <2> QED BY <2>1, <2>2
<1> QED BY <1>1, IInvAlways, PTL

\* As long as the subscriptions there are fit one page, what stays as it is while
\* the two sources are read is reported as it is (StableObjectsRight), and the DDS
\* only tab holds no object that had a subscription all the while
\* (DdsOnlyIsUnsubscribed): the page limit is all that stands between the tab and
\* its text.
THEOREM StableWithinThePage ==
  Spec => [](Len(subs) <= PageLimit => StableObjectsRight /\ DdsOnlyIsUnsubscribed)
<1>1. Init => IInv /\ Complete
  BY IInvInit
<1>2. IInv /\ Complete /\ [Next]_vars => (IInv /\ Complete)'
  BY IInvNext
<1>3. ASSUME IInv, Complete, Len(subs) <= PageLimit PROVE StableObjectsRight /\ DdsOnlyIsUnsubscribed
  <2>1. CASE table.state = "shown"
    <3> DEFINE W == WfoKeys(kind, wfo.list)
               D == DdsKeys(kind, dds.list)
    <3>1. RowsRight(kind, wfo.list, dds.list, table.rows)
      BY <1>3, <2>1, ShownRight
    <3>2. always.wfo \subseteq W /\ W \subseteq ever.wfo /\ always.dds \subseteq D /\ D \subseteq ever.dds
      BY <1>3, <2>1 DEF IInv, ShownInv, HistoryInv, Complete
    <3>3. /\ \A key \in W \cup D : \E row \in table.rows : RowKey(row) = key
          /\ \A row \in table.rows :
               RowKey(row) \in W \cup D /\ row.status = Status(RowKey(row) \in W, RowKey(row) \in D)
      BY <3>1, RowKeyOfKind DEF RowsRight
    <3> HIDE DEF W, D
    <3>4. ASSUME NEW key \in W \cup D PROVE StatusesOf(key) = {Status(key \in W, key \in D)}
      BY <3>3 DEF StatusesOf
    <3>5. StableObjectsRight
      <4>1. ASSUME NEW key \in Known PROVE key \in ever.wfo \cup ever.dds
        BY <3>2, <3>3 DEF Known
      <4>2. ASSUME NEW key \in always.wfo \cap always.dds PROVE StatusesOf(key) = {"IN_BOTH"}
        BY <3>2, <3>4 DEF Status
      <4>3. ASSUME NEW key \in always.wfo \ ever.dds PROVE StatusesOf(key) = {"MISSING_IN_DDS"}
        BY <3>2, <3>4 DEF Status
      <4>4. ASSUME NEW key \in always.dds \ ever.wfo PROVE StatusesOf(key) = {"DDS_ONLY"}
        BY <3>2, <3>4 DEF Status
      <4> QED BY <4>1, <4>2, <4>3, <4>4 DEF StableObjectsRight
    <3>6. DdsOnlyIsUnsubscribed
      BY <3>2, <3>3 DEF DdsOnlyIsUnsubscribed, Status
    <3> QED BY <3>5, <3>6
  <2>2. CASE table.state # "shown"
    BY <1>3, <2>2, EmptyUnlessShown DEF StableObjectsRight, DdsOnlyIsUnsubscribed
  <2> QED BY <2>1, <2>2
<1> QED BY <1>1, <1>2, <1>3, PTL DEF Spec

\* However many subscriptions there are, all the page limit can do is to hide
\* them: an object no source had gets no row, one the DDS kept has a row, which
\* says whether it is in the DDS, and no object is said to be in a source that
\* never had it during the request.
NeverInvented ==
  table.state = "shown" =>
    \A key \in Known :
      /\ key \in ever.wfo \cup ever.dds
      /\ key \in always.dds => StatusesOf(key) \in {{"IN_BOTH"}, {"DDS_ONLY"}}
      /\ key \notin ever.wfo => StatusesOf(key) \subseteq {"DDS_ONLY"}
      /\ key \notin ever.dds => StatusesOf(key) \subseteq {"MISSING_IN_DDS"}

\* A page of a truncated list claims nothing that was not so (NeverInvented).
THEOREM TruncationOnlyHides == Spec => []NeverInvented
<1>1. ASSUME IInv PROVE NeverInvented
  <2> SUFFICES ASSUME table.state = "shown" PROVE NeverInvented
    BY DEF NeverInvented
  <2> DEFINE W == WfoKeys(kind, wfo.list)
             D == DdsKeys(kind, dds.list)
  <2>1. RowsRight(kind, wfo.list, dds.list, table.rows)
    BY <1>1, ShownRight
  <2>2. W \subseteq ever.wfo /\ always.dds \subseteq D /\ D \subseteq ever.dds
    BY <1>1 DEF IInv, ShownInv, HistoryInv
  <2>3. /\ \A key \in W \cup D : \E row \in table.rows : RowKey(row) = key
        /\ \A row \in table.rows :
             RowKey(row) \in W \cup D /\ row.status = Status(RowKey(row) \in W, RowKey(row) \in D)
    BY <2>1, RowKeyOfKind DEF RowsRight
  <2> HIDE DEF W, D
  <2>4. ASSUME NEW key \in W \cup D PROVE StatusesOf(key) = {Status(key \in W, key \in D)}
    BY <2>3 DEF StatusesOf
  <2>5. ASSUME NEW key, key \notin W \cup D PROVE StatusesOf(key) = {}
    BY <2>3, <2>5 DEF StatusesOf
  <2> SUFFICES ASSUME NEW key \in Known
               PROVE  /\ key \in ever.wfo \cup ever.dds
                      /\ key \in always.dds => StatusesOf(key) \in {{"IN_BOTH"}, {"DDS_ONLY"}}
                      /\ key \notin ever.wfo => StatusesOf(key) \subseteq {"DDS_ONLY"}
                      /\ key \notin ever.dds => StatusesOf(key) \subseteq {"MISSING_IN_DDS"}
    BY DEF NeverInvented
  <2>6. key \in ever.wfo \cup ever.dds
    BY <2>2, <2>3 DEF Known
  <2>7. CASE key \in W \cup D
    BY <2>2, <2>4, <2>6, <2>7 DEF Status
  <2>8. CASE key \notin W \cup D
    BY <2>2, <2>5, <2>6, <2>8
  <2> QED BY <2>7, <2>8
<1> QED BY <1>1, IInvAlways, PTL
=============================================================================
