----------------------------- MODULE Reconcile -----------------------------
(***************************************************************************)
(* The reconciliation of WFO subscriptions with DDS documents              *)
(* (amiss/sources/reconcile.py) and the part of a WFO fetch that decides   *)
(* which subscriptions reach it (amiss/sources/wfo.py).                    *)
(*                                                                         *)
(* An NSI identifier as a source writes it is a record: the identifier     *)
(* proper, a positive number (numbers, because rows are sorted by id), and *)
(* the form it is written in: bare, under the URN prefix, or followed by a *)
(* query such as "?vlan=100".  0 stands for Python's None and for the      *)
(* empty string, which the code does not tell apart here.                  *)
(*                                                                         *)
(* A list is a sequence, and a list some of whose items were dropped is    *)
(* the function that is left on the places of the others.                  *)
(***************************************************************************)
EXTENDS Integers, Sequences, FiniteSets, Functions

Nothing == 0
Form == {"bare", "urn", "vlan"}
NoId == [local |-> Nothing, form |-> "bare"]

\* "x or y"
Or(x, y) == IF x # Nothing THEN x ELSE y

\* Mutant: the query suffix is kept.
NormalizeIdKeepingQuery(raw) == IF raw.form = "vlan" THEN 10 + raw.local ELSE raw.local
\* Drops the prefix and the query, whatever the form, and keeps the rest.
NormalizeId(raw) == raw.local

\* A dict comprehension over a list: one entry per key, the last one winning;
\* items without a key are dropped.
LastWith(items, KeyOf(_), key) ==
  items[CHOOSE i \in DOMAIN items :
          /\ KeyOf(items[i]) = key
          /\ \A j \in DOMAIN items : KeyOf(items[j]) = key => j <= i]
Index(items, KeyOf(_), noKey) ==
  [key \in {KeyOf(items[i]) : i \in DOMAIN items} \ {noKey} |-> LastWith(items, KeyOf, key)]

\* dict.get
Get(index, key, default) == IF key \in DOMAIN index THEN index[key] ELSE default

NormalizedIdOf(item) == NormalizeId(item.id)
ByNormalizedId(items) == Index(items, NormalizedIdOf, Nothing)

-----------------------------------------------------------------------------
\* The subscriptions of one WFO answer: the server's filter, the page limit it
\* applies to what is left, and _live, which drops what the filter let through.
IsLive(sub) == sub.status # "terminated"
Served(subs, filtered, limit) ==
  LET matching == {i \in DOMAIN subs : filtered => IsLive(subs[i])}
  IN Restrict(subs, {i \in matching : Cardinality({j \in matching : j < i}) < limit})
\* The answers to a query that asks for at most limit items, in no order of its
\* own: which ones come is the orchestrator's choice, and _page only logs it.
PagesOf(list, limit) ==
  IF Cardinality(DOMAIN list) <= limit THEN {list}
  ELSE {Restrict(list, some) : some \in {s \in SUBSET DOMAIN list : Cardinality(s) = limit}}
\* Mutant: the server's filter is trusted.
LiveTrusting(page) == page
Live(page) == RestrictValues(page, IsLive)

-----------------------------------------------------------------------------
Status(inWfo, inDds) ==
  CASE inWfo /\ inDds  -> "IN_BOTH"
    [] ~inWfo /\ inDds -> "DDS_ONLY"
    [] OTHER           -> "MISSING_IN_DDS"

\* STPs, topologies and switching services: [sub, id, name, status] in the WFO,
\* [id, name] in the DDS.
NoItem == [sub |-> Nothing, id |-> NoId, name |-> Nothing]
Row(nid, wfoById, ddsById, name) ==
  [sub    |-> Get(wfoById, nid, NoItem).sub,
   id     |-> IF nid \in DOMAIN ddsById THEN ddsById[nid].id ELSE wfoById[nid].id,
   name   |-> name,
   status |-> Status(nid \in DOMAIN wfoById, nid \in DOMAIN ddsById)]

\* stp_subscriptions: the lookup from an STP's id, however written.
SubscriptionOf(stps, raw) == Get(ByNormalizedId(stps), NormalizeId(raw), NoItem).sub

\* The DDS description of an STP wins; of the other objects, the WFO name.
StpRow(nid, wfoById, ddsById) ==
  Row(nid, wfoById, ddsById, Or(Get(ddsById, nid, NoItem).name, Get(wfoById, nid, NoItem).name))
NamedRow(nid, wfoById, ddsById) ==
  Row(nid, wfoById, ddsById, Or(Get(wfoById, nid, NoItem).name, Get(ddsById, nid, NoItem).name))

ReconcileStps(wfo, dds) ==
  LET wfoById == ByNormalizedId(wfo)
      ddsById == ByNormalizedId(dds)
  IN {StpRow(nid, wfoById, ddsById) : nid \in DOMAIN wfoById \cup DOMAIN ddsById}
ReconcileNamed(wfo, dds) ==
  LET wfoById == ByNormalizedId(wfo)
      ddsById == ByNormalizedId(dds)
  IN {NamedRow(nid, wfoById, ddsById) : nid \in DOMAIN wfoById \cup DOMAIN ddsById}

-----------------------------------------------------------------------------
\* SDPs: [sub, stps, status] in the WFO, stps a list of members
\* [id, name, label, capacity, owner]; [a, z] in the DDS.  NoCapacity is None,
\* which the code tells apart from a capacity of 0.
NoCapacity == -1
NoMember == [id |-> NoId, name |-> Nothing, label |-> Nothing, capacity |-> NoCapacity, owner |-> Nothing]

\* The unordered match key: two distinct ids, or {} for no key.
SdpPair(raws) ==
  LET ids == {NormalizeId(raw) : raw \in raws} \ {Nothing}
  IN IF \E a, z \in ids : a # z /\ ids = {a, z} THEN ids ELSE {}
PairOfSub(sub) == SdpPair({sub.stps[i].id : i \in DOMAIN sub.stps})
PairOfDds(sdp) == SdpPair({sdp.a, sdp.z})

\* Mutant: "if capacity" for "if capacity is not None".
SdpCapacityTruthy(sub) ==
  LET capacities == {sub.stps[i].capacity : i \in DOMAIN sub.stps} \ {NoCapacity, 0}
  IN IF capacities = {} THEN NoCapacity
     ELSE CHOOSE c \in capacities : \A d \in capacities : c <= d
\* The link's own capacity: the lower of its ends'.
SdpCapacity(sub) ==
  LET capacities == {sub.stps[i].capacity : i \in DOMAIN sub.stps} \ {NoCapacity}
  IN IF capacities = {} THEN NoCapacity
     ELSE CHOOSE c \in capacities : \A d \in capacities : c <= d

\* One member of an SDP, looked up by id and never by position.
SdpEnd(members, raw) == Get(ByNormalizedId(members), NormalizeId(raw), NoMember)
EndLabel(end, raw) == IF end.name # Nothing THEN <<"name", end.name>> ELSE <<"id", NormalizeId(raw)>>
\* What the two ends should share: one value, or both when they disagree.
Shared(a, z) == {a, z} \ {Nothing}

Bare(id) == [local |-> id, form |-> "bare"]
\* The A/Z order of a row: the DDS's, or else that of the sorted ids.
AzOrder(pair, ddsByPair) ==
  IF pair \in DOMAIN ddsByPair
  THEN <<ddsByPair[pair].a, ddsByPair[pair].z>>
  ELSE LET low == CHOOSE a \in pair : \A z \in pair : a <= z
       IN <<Bare(low), Bare(CHOOSE z \in pair : z # low)>>

\* Mutant: the ends of a row are its members by list position.
SdpRowByPosition(pair, wfoByPair, ddsByPair) ==
  LET inWfo == pair \in DOMAIN wfoByPair
      az == AzOrder(pair, ddsByPair)
      endA == IF inWfo THEN wfoByPair[pair].stps[1] ELSE NoMember
      endZ == IF inWfo THEN wfoByPair[pair].stps[2] ELSE NoMember
  IN [sub      |-> IF inWfo THEN wfoByPair[pair].sub ELSE Nothing,
      a        |-> az[1],
      z        |-> az[2],
      aLabel   |-> EndLabel(endA, az[1]),
      zLabel   |-> EndLabel(endZ, az[2]),
      aStp     |-> endA.owner,
      zStp     |-> endZ.owner,
      labels   |-> Shared(endA.label, endZ.label),
      capacity |-> IF inWfo THEN SdpCapacity(wfoByPair[pair]) ELSE NoCapacity,
      status   |-> Status(inWfo, pair \in DOMAIN ddsByPair)]
SdpRow(pair, wfoByPair, ddsByPair) ==
  LET inWfo == pair \in DOMAIN wfoByPair
      az == AzOrder(pair, ddsByPair)
      members == IF inWfo THEN wfoByPair[pair].stps ELSE <<>>
      endA == SdpEnd(members, az[1])
      endZ == SdpEnd(members, az[2])
  IN [sub      |-> IF inWfo THEN wfoByPair[pair].sub ELSE Nothing,
      a        |-> az[1],
      z        |-> az[2],
      aLabel   |-> EndLabel(endA, az[1]),
      zLabel   |-> EndLabel(endZ, az[2]),
      aStp     |-> endA.owner,
      zStp     |-> endZ.owner,
      labels   |-> Shared(endA.label, endZ.label),
      capacity |-> IF inWfo THEN SdpCapacity(wfoByPair[pair]) ELSE NoCapacity,
      status   |-> Status(inWfo, pair \in DOMAIN ddsByPair)]
ReconcileSdps(wfo, dds) ==
  LET wfoByPair == Index(wfo, PairOfSub, {})
      ddsByPair == Index(dds, PairOfDds, {})
  IN {SdpRow(pair, wfoByPair, ddsByPair) : pair \in DOMAIN wfoByPair \cup DOMAIN ddsByPair}
=============================================================================
