---------------------------- MODULE SpectrumRows ----------------------------
(***************************************************************************)
(* The join of the orchestrator's circuits and SDPs with the paths of the  *)
(* aggregator: which circuits cross which SDP, and which cross none        *)
(* (amiss/sources/aggregator.py).                                          *)
(*                                                                         *)
(* STP ids are those of Reconcile; an end of a path segment also carries   *)
(* the VLAN of its query, Nothing if it has none.  A circuit is [sub,      *)
(* connection, bandwidth, state] in the orchestrator and [connection,      *)
(* segments] in the aggregator, which lists a connection once: the lists   *)
(* joined from the two are sets here.                                      *)
(***************************************************************************)
EXTENDS Reconcile, FiniteSetsExt

Unattributed == -1   \* UNATTRIBUTED_ID: no subscription has it

\* What a path and an SDP are made of.
End == [local : Nat, form : Form, vlan : Nat]
Segment == [source : End, dest : End]
StpMember == [id : [local : Nat \ {Nothing}, form : Form], name : Nat, label : Nat,
              capacity : Nat \cup {NoCapacity}, owner : Nat]

-----------------------------------------------------------------------------
\* Paths

SegmentEnds(agg) ==
  [i \in 1..(2 * Len(agg.segments)) |->
     IF i % 2 = 1 THEN agg.segments[(i + 1) \div 2].source ELSE agg.segments[i \div 2].dest]
Touched(agg) == {NormalizeId(SegmentEnds(agg)[i]) : i \in DOMAIN SegmentEnds(agg)} \ {Nothing}

\* Mutant: the first VLAN of the path, wherever it is.
VlanOnSdpAnywhere(agg, pair) ==
  LET tagged == {i \in DOMAIN SegmentEnds(agg) : SegmentEnds(agg)[i].vlan # Nothing}
  IN IF tagged = {} THEN Nothing ELSE SegmentEnds(agg)[Min(tagged)].vlan
\* The VLAN of the first segment end that is a member of the SDP and has one.
VlanOnSdp(agg, pair) ==
  LET tagged == {i \in DOMAIN SegmentEnds(agg) :
                   NormalizeId(SegmentEnds(agg)[i]) \in pair /\ SegmentEnds(agg)[i].vlan # Nothing}
  IN IF tagged = {} THEN Nothing ELSE SegmentEnds(agg)[Min(tagged)].vlan

\* link_segments: each end with the subscription of its STP, if there is one.
LinkSegments(segments, stps) ==
  [i \in DOMAIN segments |->
     [source    |-> segments[i].source,
      dest      |-> segments[i].dest,
      sourceSub |-> SubscriptionOf(stps, segments[i].source),
      destSub   |-> SubscriptionOf(stps, segments[i].dest)]]

-----------------------------------------------------------------------------
\* The aggregator's circuits that the orchestrator knows and has not terminated,
\* each with its orchestrator record.
ConnectionOf(circuit) == circuit.connection
IsOpen(circuit) == circuit.state # "TERMINATED"
\* Mutant: terminated circuits stay matched.
WfoBackedPairsHistoric(aggCircuits, wfoCircuits) ==
  LET wfoByConn == Index(wfoCircuits, ConnectionOf, Nothing)
  IN {[agg |-> aggCircuits[i], wfo |-> wfoByConn[aggCircuits[i].connection]] :
        i \in {j \in DOMAIN aggCircuits : aggCircuits[j].connection \in DOMAIN wfoByConn}}
WfoBackedPairs(aggCircuits, wfoCircuits) ==
  LET wfoByConn == Index(RestrictValues(wfoCircuits, IsOpen), ConnectionOf, Nothing)
  IN {[agg |-> aggCircuits[i], wfo |-> wfoByConn[aggCircuits[i].connection]] :
        i \in {j \in DOMAIN aggCircuits : aggCircuits[j].connection \in DOMAIN wfoByConn}}

CircuitOnSdp(pairing, pair) ==
  [sub       |-> pairing.wfo.sub,
   vlan      |-> IF pair = {} THEN Nothing ELSE VlanOnSdp(pairing.agg, pair),
   bandwidth |-> pairing.wfo.bandwidth]
CircuitsOn(members, pair) == {CircuitOnSdp(pairing, pair) : pairing \in members}
\* Mutant: a circuit counts once it is in use.
TotalInUse(members) ==
  MapThenSumSet(LAMBDA pairing : IF pairing.wfo.state = "RESERVED" THEN 0 ELSE pairing.wfo.bandwidth, members)
TotalCapacity(members) == MapThenSumSet(LAMBDA pairing : pairing.wfo.bandwidth, members)

\* Python's round() of n / d.
Rounded(n, d) ==
  LET quotient == n \div d
      twice == 2 * (n % d)
  IN IF twice > d \/ (twice = d /\ quotient % 2 = 1) THEN quotient + 1 ELSE quotient
\* In percent; a capacity of 0 is taken for an unknown one.
Utilisation(total, capacity) ==
  IF capacity \in {NoCapacity, 0} THEN NoCapacity ELSE Rounded(100 * total, capacity)

SpectrumRow(sdp, members) ==
  LET pair == PairOfSub(sdp)
      a == Bare(Min(pair))
      z == Bare(Max(pair))
      endA == SdpEnd(sdp.stps, a)
      endZ == SdpEnd(sdp.stps, z)
  IN [sub      |-> sdp.sub,
      pair     |-> pair,
      aLabel   |-> EndLabel(endA, a),
      zLabel   |-> EndLabel(endZ, z),
      aStp     |-> endA.owner,
      zStp     |-> endZ.owner,
      count    |-> Cardinality(members),
      capacity |-> SdpCapacity(sdp),
      total    |-> TotalCapacity(members),
      utilisation |-> Utilisation(TotalCapacity(members), SdpCapacity(sdp)),
      circuits |-> CircuitsOn(members, pair)]
UnattributedRow(members) ==
  [sub |-> Unattributed, pair |-> {}, count |-> Cardinality(members), total |-> TotalCapacity(members),
   circuits |-> CircuitsOn(members, {})]

\* Mutant: one end of the link is enough.
CrossesPartly(pairing, sdp) == PairOfSub(sdp) \cap Touched(pairing.agg) # {}
Crosses(pairing, sdp) == PairOfSub(sdp) \subseteq Touched(pairing.agg)
\* Mutant: a circuit that crosses several SDPs is on the first of them only.
BuildSpectrumFirstSdp(sdps, aggCircuits, wfoCircuits) ==
  LET backed == WfoBackedPairs(aggCircuits, wfoCircuits)
      known == {i \in DOMAIN sdps : PairOfSub(sdps[i]) # {}}
      Crossed(pairing) == {i \in known : Crosses(pairing, sdps[i])}
      stray == {pairing \in backed : Len(pairing.agg.segments) > 1 /\ Crossed(pairing) = {}}
  IN {SpectrumRow(sdps[i], {pairing \in backed : Crossed(pairing) # {} /\ i = Min(Crossed(pairing))}) :
        i \in known}
     \cup (IF stray = {} THEN {} ELSE {UnattributedRow(stray)})
\* Mutant: every path that crosses no known SDP is unattributed, local ones too.
BuildSpectrumAllStray(sdps, aggCircuits, wfoCircuits) ==
  LET backed == WfoBackedPairs(aggCircuits, wfoCircuits)
      known == {i \in DOMAIN sdps : PairOfSub(sdps[i]) # {}}
      stray == {pairing \in backed : \E i \in known : ~Crosses(pairing, sdps[i])}
  IN {SpectrumRow(sdps[i], {pairing \in backed : Crosses(pairing, sdps[i])}) : i \in known}
     \cup (IF stray = {} THEN {} ELSE {UnattributedRow(stray)})
\* A row per SDP that has a pair, and one for the multi-segment paths that cross
\* no such SDP.  (Rows are sorted by pair; here they are a set.)
BuildSpectrum(sdps, aggCircuits, wfoCircuits) ==
  LET backed == WfoBackedPairs(aggCircuits, wfoCircuits)
      known == {i \in DOMAIN sdps : PairOfSub(sdps[i]) # {}}
      stray == {pairing \in backed : /\ Len(pairing.agg.segments) > 1
                                     /\ \A i \in known : ~Crosses(pairing, sdps[i])}
  IN {SpectrumRow(sdps[i], {pairing \in backed : Crosses(pairing, sdps[i])}) : i \in known}
     \cup (IF stray = {} THEN {} ELSE {UnattributedRow(stray)})

\* split_unattributed
RealSdps(rows) == {row \in rows : row.sub # Unattributed}
HasCircuit(row, sub) == \E circuit \in row.circuits : circuit.sub = sub
\* The SDPs on the page of one circuit.
SdpsCrossed(rows, sub) == {row \in RealSdps(rows) : HasCircuit(row, sub)}

-----------------------------------------------------------------------------
\* Crossing, said without the code's lookups, for the properties.
StpsOn(path) == {path[i].source.local : i \in DOMAIN path} \cup {path[i].dest.local : i \in DOMAIN path}
Members(sdp) == {sdp.stps[i].id.local : i \in DOMAIN sdp.stps}
IsLink(sdp) == Cardinality(Members(sdp)) = 2
Over(path, sdp) == IsLink(sdp) /\ Members(sdp) \subseteq StpsOn(path)
=============================================================================
