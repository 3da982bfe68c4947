----------------------------- MODULE Dashboard -----------------------------
(***************************************************************************)
(* The two pages that show one set of circuits and SDPs in several ways:   *)
(* the cards of the dashboard (amiss/frontend/home.py) and the page of a   *)
(* circuit with its path and the SDPs it crosses (get_circuit_detail of    *)
(* amiss/data.py), with the lists and tabs the cards link to.              *)
(*                                                                         *)
(* Each source is read once, at a moment of its own, and answers: failed   *)
(* legs are the subject of Pages.  Of the four reconciliation cards, which *)
(* are one function, that of the SDPs is here.                             *)
(***************************************************************************)
EXTENDS SpectrumRows

CONSTANTS
  Path,          \* paths the aggregator may choose
  SdpStps,       \* member lists an SDP subscription may have
  Document,      \* SDPs the DDS may list
  StpSub,        \* STP subscriptions that come and go
  History,       \* circuits the orchestrator keeps from before: a sequence
  CircuitLimit,  \* "first:" in CIRCUITS_QUERY
  MaxCircuits, MaxReservations, MaxSdps,  \* bounds on the lists
  MaxEdits       \* bound on the changes during one request

State == {"RESERVED", "ACTIVATED", "FAILED", "TERMINATED"}
Circuit == [sub : Nat, connection : Nat, bandwidth : Nat, state : State]
\* Circuits number themselves, and no two have the same reservation.
CircuitsOK(circuits) ==
  /\ \A i \in DOMAIN circuits : circuits[i] \in Circuit /\ circuits[i].sub = i
  /\ \A i, j \in DOMAIN circuits :
       circuits[i].connection = circuits[j].connection /\ circuits[i].connection # Nothing => i = j

ASSUME DashboardAssumption ==
  /\ {CircuitLimit, MaxCircuits, MaxReservations, MaxSdps, MaxEdits} \subseteq Nat
  /\ Path \subseteq Seq(Segment)
  /\ SdpStps \subseteq Seq(StpMember)
  /\ \A sub \in StpSub : sub.sub # Nothing /\ sub.id.local # Nothing
  /\ History \in Seq(Circuit) /\ CircuitsOK(History)

-----------------------------------------------------------------------------
\* Lists and their tabs.

CircuitStateBucket(state) ==
  CASE state = "FAILED"     -> "failed"
    [] state = "RESERVED"   -> "reserved"
    [] state = "TERMINATED" -> "terminated"
    [] OTHER                -> "activated"
CircuitTab == {"activated", "failed", "reserved", "terminated", "all"}
CircuitsView(circuits, tab) ==
  {circuits[i].sub : i \in {j \in DOMAIN circuits :
     tab = "all" \/ CircuitStateBucket(circuits[j].state) = tab}}

\* _RECONCILE_TABS and in_tab
TabStatus == [in_both |-> "IN_BOTH", missing_in_dds |-> "MISSING_IN_DDS", dds_only |-> "DDS_ONLY"]
RowsInTab(rows, tab) == {row \in rows : tab = "all" \/ row.status = TabStatus[tab]}

-----------------------------------------------------------------------------
\* Cards

Counted(circuits, bucket) ==
  Cardinality({i \in DOMAIN circuits : CircuitStateBucket(circuits[i].state) = bucket})
\* Mutant: the headline is the length of the list.
CircuitCardOfAll(circuits) ==
  [headline  |-> Cardinality(DOMAIN circuits),
   activated |-> Counted(circuits, "activated"),
   failed    |-> Counted(circuits, "failed"),
   reserved  |-> Counted(circuits, "reserved")]
CircuitCard(circuits) ==
  [headline  |-> Cardinality(DOMAIN circuits) - Counted(circuits, "terminated"),
   activated |-> Counted(circuits, "activated"),
   failed    |-> Counted(circuits, "failed"),
   reserved  |-> Counted(circuits, "reserved")]
ReconcileCard(rows) ==
  [headline |-> Cardinality(rows),
   backed   |-> Cardinality({row \in rows : row.status = "IN_BOTH"}),
   missing  |-> Cardinality({row \in rows : row.status = "MISSING_IN_DDS"}),
   ddsOnly  |-> Cardinality({row \in rows : row.status = "DDS_ONLY"})]
SpectrumCard(rows) ==
  LET stray == {row.count : row \in rows \ RealSdps(rows)}
  IN [headline     |-> Cardinality(RealSdps(rows)),
      inUse        |-> Cardinality({row \in RealSdps(rows) : row.count > 0}),
      idle         |-> Cardinality({row \in RealSdps(rows) : row.count = 0}),
      unattributed |-> IF stray = {} THEN 0 ELSE CHOOSE count \in stray : TRUE]

-----------------------------------------------------------------------------
VARIABLES
  page,    \* "home" or "circuit"
  subject, \* the circuit of a circuit page
  held,    \* what each source holds
  legs,    \* the answer to each leg: [answered, list]
  view,    \* what the page shows
  edits    \* changes during this request

vars == <<page, subject, held, legs, view, edits>>

LegsOf == [home    |-> {"circuits", "agg", "sdp", "dds_sdps"},
           circuit |-> {"circuits", "agg", "sdp", "stp"}]
Source == UNION {LegsOf[p] : p \in DOMAIN LegsOf}

Pending == [answered |-> FALSE, list |-> <<>>]
NoAnswers == [s \in Source |-> Pending]
Blank == [state |-> "blank"]
Asking == view.state = "loading"
List(s) == legs[s].list
Rows == BuildSpectrum(List("sdp"), List("agg"), List("circuits"))

Init ==
  /\ page \in DOMAIN LegsOf
  /\ subject = IF page = "circuit" THEN Len(History) + 1 ELSE Nothing
  /\ held = [s \in Source |-> IF s = "circuits" THEN History ELSE <<>>]
  /\ legs = NoAnswers
  /\ view = Blank
  /\ edits = 0

\* A source this page reads changes, during the request or, leaving the page last
\* shown, between two.
Edit(s, list) ==
  /\ s \in LegsOf[page]
  /\ held' = [held EXCEPT ![s] = list]
  /\ IF Asking
     THEN edits < MaxEdits /\ edits' = edits + 1 /\ UNCHANGED <<legs, view>>
     ELSE edits' = 0 /\ legs' = NoAnswers /\ view' = Blank
  /\ UNCHANGED <<page, subject>>

CreateCircuit ==
  /\ Len(held["circuits"]) < Len(History) + MaxCircuits
  /\ Edit("circuits", Append(held["circuits"],
          [sub |-> Len(held["circuits"]) + 1, connection |-> Nothing, bandwidth |-> 1, state |-> "RESERVED"]))
\* A workflow moves a circuit to another state; a terminated one stays so.
Progress(i, state) ==
  /\ IsOpen(held["circuits"][i])
  /\ state # held["circuits"][i].state
  /\ Edit("circuits", [held["circuits"] EXCEPT ![i].state = state])
Reserve(path) ==
  /\ Len(held["agg"]) < MaxReservations
  /\ Edit("agg", Append(held["agg"], [connection |-> Len(held["agg"]) + 1, segments |-> path]))
\* A circuit gets the id of its latest reservation, after those of older circuits.
Connect(i, connection) ==
  /\ IsOpen(held["circuits"][i])
  /\ \A j \in DOMAIN held["circuits"] : held["circuits"][j].connection < connection
  /\ Edit("circuits", [held["circuits"] EXCEPT ![i].connection = connection])
CreateSdp(stps) ==
  /\ Len(held["sdp"]) < MaxSdps
  /\ Edit("sdp", Append(held["sdp"], [sub |-> Len(held["sdp"]) + 1, stps |-> stps]))
Advertise(document) == held["dds_sdps"] = <<>> /\ Edit("dds_sdps", <<document>>)
Withdraw == held["dds_sdps"] # <<>> /\ Edit("dds_sdps", <<>>)
CreateStp(sub) == held["stp"] = <<>> /\ Edit("stp", <<sub>>)
TerminateStp == held["stp"] # <<>> /\ Edit("stp", <<>>)

Request ==
  /\ ~Asking
  /\ legs' = NoAnswers
  /\ view' = [state |-> "loading"]
  /\ edits' = 0
  /\ UNCHANGED <<page, subject, held>>

\* Terminated circuits count for the limit; the other lists are taken to fit theirs.
MayAnswer(s) == IF s = "circuits" THEN PagesOf(held[s], CircuitLimit) ELSE {held[s]}
Answer(s) ==
  /\ Asking /\ s \in LegsOf[page] /\ ~legs[s].answered
  /\ \E list \in MayAnswer(s) : legs' = [legs EXCEPT ![s] = [answered |-> TRUE, list |-> list]]
  /\ UNCHANGED <<page, subject, held, view, edits>>

\* Mutant: the spectrum card fetches its sources itself, when its turn comes.
HomeRefetching ==
  [state    |-> "home",
   circuits |-> CircuitCard(List("circuits")),
   sdps     |-> ReconcileCard(ReconcileSdps(List("sdp"), List("dds_sdps"))),
   spectrum |-> SpectrumCard(BuildSpectrum(held["sdp"], held["agg"], held["circuits"]))]
Home ==
  [state    |-> "home",
   circuits |-> CircuitCard(List("circuits")),
   sdps     |-> ReconcileCard(ReconcileSdps(List("sdp"), List("dds_sdps"))),
   spectrum |-> SpectrumCard(Rows)]

\* The path of a circuit's reservation, empty if it has none.
CircuitPath(circuit) ==
  LET matches == {i \in DOMAIN List("agg") : List("agg")[i].connection = circuit.connection}
  IN IF matches = {} THEN <<>> ELSE List("agg")[Min(matches)].segments
CircuitDetail ==
  LET found == {i \in DOMAIN List("circuits") : List("circuits")[i].sub = subject}
      circuit == List("circuits")[Min(found)]
  IN IF found = {} THEN [state |-> "not_found"]
     ELSE [state   |-> "circuit",
           circuit |-> circuit,
           path    |-> LinkSegments(CircuitPath(circuit), List("stp")),
           crossed |-> {row.sub : row \in SdpsCrossed(Rows, subject)}]

Compose ==
  /\ Asking
  /\ \A s \in LegsOf[page] : legs[s].answered
  /\ view' = IF page = "home" THEN Home ELSE CircuitDetail
  /\ UNCHANGED <<page, subject, held, legs, edits>>

Next ==
  \/ CreateCircuit
  \/ \E i \in DOMAIN held["circuits"] :
       \/ \E state \in State : Progress(i, state)
       \/ \E connection \in 1..Len(held["agg"]) : Connect(i, connection)
  \/ \E path \in Path : Reserve(path)
  \/ \E stps \in SdpStps : CreateSdp(stps)
  \/ \E document \in Document : Advertise(document)
  \/ Withdraw
  \/ \E sub \in StpSub : CreateStp(sub)
  \/ TerminateStp
  \/ Request \/ Compose
  \/ \E s \in Source : Answer(s)

Spec == Init /\ [][Next]_vars

-----------------------------------------------------------------------------
\* home's docstring: "gives every card a single consistent snapshot".  Cards that
\* count the same objects never contradict each other, however the sources change
\* between the legs: no circuit is on a link or astray that the circuit card does
\* not count as open, and the SDP card and the spectrum card know the same links.
CardsOfOneSnapshot ==
  view.state = "home" =>
    /\ view.spectrum.unattributed <= view.circuits.headline
    /\ view.spectrum.inUse > 0 => view.circuits.headline > 0
    /\ view.sdps.backed + view.sdps.missing <= view.spectrum.headline
    /\ view.sdps.backed + view.sdps.missing = 0 <=> view.spectrum.headline = 0

\* README: "each card linking to its full table".  From the same answers a card's
\* numbers are those of the rows on the tabs of that page; no circuit is on two
\* tabs, and the headline leaves out the terminated ones only.
CardsMatchTheirPages ==
  view.state = "home" =>
    LET circuits(tab) == CircuitsView(List("circuits"), tab)
        sdps(tab) == Cardinality(RowsInTab(ReconcileSdps(List("sdp"), List("dds_sdps")), tab))
    IN /\ view.circuits.headline = Cardinality(circuits("all") \ circuits("terminated"))
       /\ \A tab \in CircuitTab \ {"all", "terminated"} : view.circuits[tab] = Cardinality(circuits(tab))
       /\ view.circuits.headline = view.circuits.activated + view.circuits.failed + view.circuits.reserved
       /\ <<view.sdps.headline, view.sdps.backed, view.sdps.missing, view.sdps.ddsOnly>>
            = <<sdps("all"), sdps("in_both"), sdps("missing_in_dds"), sdps("dds_only")>>
       /\ view.sdps.headline = view.sdps.backed + view.sdps.missing + view.sdps.ddsOnly

\* The two sections of a circuit's page agree: an open circuit is said to cross
\* exactly the SDPs both of whose STPs are on the path shown above them, and one
\* that is terminated crosses none, whatever its path was.
PathAndSdpsAgree ==
  view.state = "circuit" =>
    \A i \in DOMAIN List("sdp") :
      List("sdp")[i].sub \in view.crossed
        <=> IsOpen(view.circuit) /\ Over(view.path, List("sdp")[i])

\* README: every STP shown links to its page "wherever the WFO holds a subscription
\* for it"; one in another domain, or gone when the orchestrator was asked, does not.
PathEndsLinked ==
  view.state = "circuit" =>
    \A i \in DOMAIN view.path :
      \A end \in {<<view.path[i].source, view.path[i].sourceSub>>, <<view.path[i].dest, view.path[i].destSub>>} :
        LET subscribed == {j \in DOMAIN List("stp") : List("stp")[j].id.local = end[1].local}
        IN IF subscribed = {} THEN end[2] = Nothing
           ELSE end[2] \in {List("stp")[j].sub : j \in subscribed}
=============================================================================
