------------------------------ MODULE Spectrum ------------------------------
(***************************************************************************)
(* The spectrum page (get_spectrum of amiss/data.py): the join of          *)
(* SpectrumRows over three sources, each read at a moment of its own while *)
(* circuits are being reserved, retried and terminated, and each up to the *)
(* limit of its query.                                                     *)
(***************************************************************************)
EXTENDS SpectrumRows

CONSTANTS
  Path,       \* paths the aggregator may choose: sequences of [source, dest] segments
  SdpStps,    \* member lists an SDP subscription may have
  Bandwidth,  \* of a circuit
  CircuitLimit,  \* "first:" in CIRCUITS_QUERY
  SdpLimit,      \* "first:" in SDP_QUERY
  MaxCircuits, MaxReservations, MaxSdps,  \* bounds on the three lists
  MaxEdits    \* bound on the changes during one request

ASSUME SpectrumAssumption ==
  /\ Path \subseteq Seq(Segment)
  /\ SdpStps \subseteq Seq(StpMember)
  /\ Bandwidth \subseteq Nat
  /\ {CircuitLimit, SdpLimit, MaxCircuits, MaxReservations, MaxSdps, MaxEdits} \subseteq Nat

-----------------------------------------------------------------------------
VARIABLES
  circuits,      \* the orchestrator's circuits: [sub, connection, bandwidth, state]
  reservations,  \* the aggregator's: [connection, segments], also of other requesters
  sdps,          \* the orchestrator's SDP subscriptions
  connections,   \* connection ids the aggregator has given out
  legs,          \* the three legs: "unasked", "pending" or what was read
  rows,          \* the spectrum shown
  status,        \* "idle", "asking" or "shown"
  edits,         \* changes during this request
  always, ever   \* history: what each source held all through, and at some moment of, the request

vars == <<circuits, reservations, sdps, connections, legs, rows, status, edits, always, ever>>

Leg == {"circuits", "agg", "sdp"}
Pending == [answered |-> FALSE, list |-> <<>>]
Read(list) == [answered |-> TRUE, list |-> list]
InSeq(list) == {list[i] : i \in DOMAIN list}

Init ==
  /\ circuits = <<>> /\ reservations = <<>> /\ sdps = <<>>
  /\ connections = 0
  /\ legs = [leg \in Leg |-> Pending]
  /\ rows = {} /\ status = "idle" /\ edits = 0
  /\ always = [leg \in Leg |-> {}] /\ ever = [leg \in Leg |-> {}]

\* A source changes, during a request or, leaving the page last shown, between two.
Holdings(newCircuits, newReservations, newSdps) ==
  [circuits |-> InSeq(newCircuits), agg |-> InSeq(newReservations), sdp |-> InSeq(newSdps)]
Edit(newCircuits, newReservations, newSdps) ==
  LET now == Holdings(newCircuits, newReservations, newSdps) IN
  /\ circuits' = newCircuits /\ reservations' = newReservations /\ sdps' = newSdps
  /\ IF status = "asking"
     THEN /\ edits < MaxEdits /\ edits' = edits + 1
          /\ always' = [leg \in Leg |-> always[leg] \cap now[leg]]
          /\ ever' = [leg \in Leg |-> ever[leg] \cup now[leg]]
          /\ UNCHANGED <<legs, rows, status>>
     ELSE /\ edits' = 0 /\ status' = "idle" /\ rows' = {}
          /\ legs' = [leg \in Leg |-> Pending]
          /\ always' = [leg \in Leg |-> {}] /\ ever' = [leg \in Leg |-> {}]

\* A circuit's workflow: a subscription first, a reservation at the aggregator,
\* then the connection id on the subscription; a retry reserves anew.
CreateCircuit ==
  /\ Len(circuits) < MaxCircuits
  /\ \E bandwidth \in Bandwidth :
       Edit(Append(circuits, [sub |-> Len(circuits) + 1, connection |-> Nothing,
                              bandwidth |-> bandwidth, state |-> "RESERVED"]), reservations, sdps)
  /\ UNCHANGED connections
Reserve ==
  /\ connections < MaxReservations
  /\ connections' = connections + 1
  /\ \E path \in Path :
       Edit(circuits, Append(reservations, [connection |-> connections + 1, segments |-> path]), sdps)
Connect ==
  /\ \E i \in DOMAIN circuits, connection \in 1..connections :  \* stored in the order given out
       /\ IsOpen(circuits[i])
       /\ \A j \in DOMAIN circuits : circuits[j].connection < connection
       /\ Edit([circuits EXCEPT ![i].connection = connection], reservations, sdps)
  /\ UNCHANGED connections
TerminateCircuit ==
  /\ \E i \in DOMAIN circuits :
       /\ IsOpen(circuits[i])
       /\ Edit([circuits EXCEPT ![i].state = "TERMINATED"], reservations, sdps)
  /\ UNCHANGED connections
CreateSdp ==
  /\ Len(sdps) < MaxSdps
  /\ \E stps \in SdpStps :
       Edit(circuits, reservations, Append(sdps, [sub |-> Len(sdps) + 1, stps |-> stps]))
  /\ UNCHANGED connections

Request ==
  /\ status # "asking"
  /\ status' = "asking" /\ edits' = 0 /\ rows' = {}
  /\ legs' = [leg \in Leg |-> Pending]
  /\ always' = Holdings(circuits, reservations, sdps)
  /\ ever' = Holdings(circuits, reservations, sdps)
  /\ UNCHANGED <<circuits, reservations, sdps, connections>>

\* CIRCUITS_QUERY also counts what is terminated; the aggregator has no limit.
MayAnswer(leg) ==
  CASE leg = "circuits" -> PagesOf(circuits, CircuitLimit)
    [] leg = "agg"      -> {reservations}
    [] leg = "sdp"      -> PagesOf(sdps, SdpLimit)
Answer(leg) ==
  /\ status = "asking" /\ ~legs[leg].answered
  /\ \E list \in MayAnswer(leg) : legs' = [legs EXCEPT ![leg] = Read(list)]
  /\ UNCHANGED <<circuits, reservations, sdps, connections, rows, status, edits, always, ever>>

Compose ==
  /\ status = "asking" /\ \A leg \in Leg : legs[leg].answered
  /\ status' = "shown"
  /\ rows' = BuildSpectrum(legs["sdp"].list, legs["agg"].list, legs["circuits"].list)
  /\ UNCHANGED <<circuits, reservations, sdps, connections, legs, edits, always, ever>>

Next ==
  \/ CreateCircuit \/ Reserve \/ Connect \/ TerminateCircuit \/ CreateSdp
  \/ Request
  \/ \E leg \in Leg : Answer(leg)
  \/ Compose

Spec == Init /\ [][Next]_vars

-----------------------------------------------------------------------------
RowOf(sdp) == CHOOSE row \in RealSdps(rows) : row.sub = sdp.sub
\* Neither list is ever shorter than it was: what fits now did when it was read.
Fits(leg) ==
  CASE leg = "circuits" -> Len(circuits) <= CircuitLimit
    [] leg = "agg"      -> TRUE
    [] leg = "sdp"      -> Len(sdps) <= SdpLimit
\* What stayed during the request and is not cut off by the limit of its query.
Certain(leg) == IF Fits(leg) THEN always[leg] ELSE always[leg] \cap InSeq(legs[leg].list)

\* A circuit that stays open on a path that stays reserved is on every SDP of
\* that path, and on no other SDP, whatever else changes while the three legs
\* are read; a multi-domain path over no SDP at all is shown as unattributed.
\* One is missing only if there are more of them, terminated ones included, than
\* the query asks for, and it is not among those that came.
StableCircuitsPlaced ==
  status = "shown" =>
    \A circuit \in Certain("circuits"), reservation \in always["agg"] :
      IsOpen(circuit) /\ circuit.connection = reservation.connection =>
        /\ \A sdp \in Certain("sdp") :
             IsLink(sdp) => (RowOf(sdp) \in SdpsCrossed(rows, circuit.sub) <=> Over(reservation.segments, sdp))
        /\ Len(reservation.segments) > 1 /\ (\A sdp \in ever["sdp"] : ~Over(reservation.segments, sdp))
             => \E row \in rows : row.sub = Unattributed /\ HasCircuit(row, circuit.sub)

\* What is not the orchestrator's is not counted: each circuit shown was open
\* there, on a path the aggregator then had over that SDP, at some moments of
\* the request.  A terminated circuit or one of another requester never is.
OnlyOpenCircuitsShown ==
  \A row \in rows : \A shown \in row.circuits :
    \E circuit \in ever["circuits"], reservation \in ever["agg"] :
      /\ circuit.sub = shown.sub /\ IsOpen(circuit)
      /\ circuit.connection = reservation.connection
      /\ row.pair \subseteq StpsOn(reservation.segments)

\* The reserved capacity of an SDP counts each circuit once, and a circuit is
\* never both on an SDP and unattributed.
ReservedOnce ==
  \A row \in rows :
    /\ row.total = MapThenSumSet(LAMBDA sub : circuits[sub].bandwidth,
                                 {sub \in DOMAIN circuits : HasCircuit(row, sub)})
    /\ \A other \in rows : row.sub = Unattributed /\ other.sub # Unattributed
         => \A circuit \in row.circuits : ~HasCircuit(other, circuit.sub)

\* The VLAN shown for a circuit on an SDP is one it uses at that SDP, and it is
\* shown if it uses one.
VlanOfTheSdp ==
  \A row \in RealSdps(rows) : \A circuit \in row.circuits :
    \E reservation \in ever["agg"] :
      LET ends == {reservation.segments[j].source : j \in DOMAIN reservation.segments}
                  \cup {reservation.segments[j].dest : j \in DOMAIN reservation.segments}
          vlans == {e.vlan : e \in {x \in ends : x.local \in row.pair}} \ {Nothing}
      IN IF vlans = {} THEN circuit.vlan = Nothing ELSE circuit.vlan \in vlans

\* A link that is booked full reads so: open circuits on paths over the SDP, all
\* of them stable during the request and none cut off by the limit of the query,
\* that fill the lower of its two ends are a utilisation of 100 % or more; a link
\* of no or unknown capacity has none.
FullLinkReadsFull ==
  status = "shown" =>
    \A sdp \in {s \in Certain("sdp") : IsLink(s)} :
      LET capacities == {sdp.stps[i].capacity : i \in DOMAIN sdp.stps} \ {NoCapacity}
          booked == {circuit \in Certain("circuits") :
                       /\ IsOpen(circuit)
                       /\ \E reservation \in always["agg"] : /\ circuit.connection = reservation.connection
                                                             /\ Over(reservation.segments, sdp)}
      IN IF capacities = {} \/ 0 \in capacities
         THEN RowOf(sdp).utilisation = NoCapacity
         ELSE MapThenSumSet(LAMBDA circuit : circuit.bandwidth, booked) >= Min(capacities)
                => RowOf(sdp).utilisation >= 100

\* README: each row of /spectrum links to its SDP page.  get_sdp_detail
\* composes that page from the same subscriptions.
RowsHaveTheirPage ==
  \A row \in RealSdps(rows) :
    \E sdpRow \in ReconcileSdps(legs["sdp"].list, <<>>) : sdpRow.sub = row.sub
=============================================================================
