------------------------------- MODULE Links -------------------------------
(***************************************************************************)
(* The links between objects that live in different systems: a provider's  *)
(* reservations to the circuits and STPs of the orchestrator, an STP to    *)
(* the provider of its network and to the circuits that use it             *)
(* (amiss/sources/providers.py, amiss/frontend/stp.py).  The sources of    *)
(* one page answer at moments of their own, while circuits are created,    *)
(* retried and terminated, STPs subscribed and providers peered with, and  *)
(* the queries for circuits and STPs stop at a limit.                      *)
(*                                                                         *)
(* The page of a provider is taken to be of one that exists, and the DDS   *)
(* leg of an STP page to be empty: Pages and Inventory are about those.    *)
(***************************************************************************)
EXTENDS Reconcile

CONSTANTS
  Page,       \* a subset of {"provider", "stp"}
  Stp,        \* identifiers of the STPs subscribed to, positive numbers
  Network,    \* identifiers of networks, positive numbers
  NetworkOf,  \* the network in each STP's id
  Ends,       \* the <<source, dest>> STPs of circuits and of reservations, which may
              \* be in another domain
  Nsa,        \* identifiers of providers, positive numbers
  Name,       \* names of providers in the DDS, numbers for their order
  CircuitLimit,  \* "first:" in CIRCUITS_QUERY
  StpLimit,      \* "first:" in STP_QUERY
  \* Bounds, for each page:
  MaxCircuits, MaxTries, MaxReservations, MaxStps, MaxPeers, MaxNames,
  MaxEdits    \* changes during one request

ASSUME LinksAssumption ==
  /\ Page \subseteq {"provider", "stp"}
  /\ Stp \cup Network \cup Nsa \cup Name \subseteq Nat \ {0}
  /\ NetworkOf \in [Stp -> Network]
  /\ Ends \subseteq (Nat \ {0}) \X (Nat \ {0})
  /\ {CircuitLimit, StpLimit} \subseteq Nat
  /\ {MaxCircuits, MaxTries, MaxReservations, MaxStps, MaxPeers, MaxNames, MaxEdits}
       \subseteq [Page -> Nat]

Foreign == 99   \* the global reservation id of another requester

-----------------------------------------------------------------------------
\* Providers: uPAs [nsa, networks], networks a sequence of raw ids, joined with
\* the NSA documents [nsa, name] of the DDS.

NsaOf(doc) == doc.nsa
NoDocument == [nsa |-> Nothing, name |-> Nothing]
ProviderRow(upa, document) ==
  [nsa |-> upa.nsa, name |-> Or(document.name, upa.nsa), networks |-> upa.networks]
BuildProviders(upas, nsas) ==
  LET nsaById == Index(nsas, NsaOf, Nothing)
  IN [i \in DOMAIN upas |-> ProviderRow(upas[i], Get(nsaById, upas[i].nsa, NoDocument))]

\* Mutant: the network ids are compared as the two sources write them.
ServesRaw(provider, network) ==
  \E i \in DOMAIN provider.networks : provider.networks[i] = Bare(network)
Serves(provider, network) ==
  \E i \in DOMAIN provider.networks : NormalizeId(provider.networks[i]) = network
\* Of several providers of a network the dict keeps the last in the list, which
\* is sorted by name; 0 for none.
ProviderOf(providers, network) ==
  LET serving == {i \in DOMAIN providers : Serves(providers[i], network)}
      last == CHOOSE i \in serving : \A j \in serving :
                \/ providers[j].name < providers[i].name
                \/ providers[j].name = providers[i].name /\ j <= i
  IN IF serving = {} THEN Nothing ELSE providers[last].nsa

-----------------------------------------------------------------------------
\* Reservations [connection, gid, source, dest, lifecycle] of a uPA, circuits [sub,
\* gid, source, dest, status] and STP subscriptions [sub, id, name, status] of the WFO.

GidOf(circuit) == circuit.gid
NoSub == [sub |-> Nothing]

\* Mutant: circuits without a reservation id are indexed too.
CircuitOfAny(circuits, gid) ==
  Get(Index(circuits, GidOf, -1), gid, NoSub).sub
\* The circuit a reservation belongs to, by global reservation id.
CircuitOf(circuits, gid) ==
  Get(Index(circuits, GidOf, Nothing), gid, NoSub).sub

LinkReservations(reservations, circuits, stps) ==
  {[connection |-> reservations[i].connection,
    gid     |-> reservations[i].gid,
    source  |-> reservations[i].source,
    dest    |-> reservations[i].dest,
    circuit |-> CircuitOf(circuits, reservations[i].gid),
    sourceSub |-> SubscriptionOf(stps, reservations[i].source),
    destSub   |-> SubscriptionOf(stps, reservations[i].dest)] : i \in DOMAIN reservations}

\* Mutant: a reservation that is being terminated is not yet on that tab.
ReservationTabAtTheEnd(row) ==
  CASE row.lifecycle = "Created"    -> "active"
    [] row.lifecycle = "Terminated" -> "terminated"
    [] OTHER                        -> "neither"
\* "Failed" stands for PassedEndTime and for states the code does not know, too.
ReservationTab(row) ==
  CASE row.lifecycle = "Created"                     -> "active"
    [] row.lifecycle \in {"Terminating", "Terminated"} -> "terminated"
    [] OTHER                                         -> "neither"
ReservationTabs == {"active", "terminated", "all"}
OnTab(reservations, tab) ==
  RestrictValues(reservations, LAMBDA row : tab = "all" \/ ReservationTab(row) = tab)

\* Mutant: only the circuit's source end is looked at.
CircuitsOnSourceStp(circuits, id) ==
  {circuits[i].sub : i \in {j \in DOMAIN circuits :
     circuits[j].status # "terminated" /\ NormalizeId(circuits[j].source) = NormalizeId(id)}}
\* The circuits still using an STP, on either end.
CircuitsOnStp(circuits, id) ==
  {circuits[i].sub : i \in {j \in DOMAIN circuits :
     /\ circuits[j].status # "terminated"
     /\ NormalizeId(id) \in {NormalizeId(circuits[j].source), NormalizeId(circuits[j].dest)}}}

-----------------------------------------------------------------------------
VARIABLES
  page,      \* the page this browser looks at
  subject,   \* the STP subscription an STP page is of
  circuits, stps, reservations, upas, nsas,  \* what the other systems hold
  legs,      \* the fetches of the request: [state, list]
  view,      \* the page shown
  edits,     \* changes during this request
  seen       \* history: what each source has had to answer since the request

world == <<circuits, stps, reservations, upas, nsas>>
vars == <<page, subject, world, legs, view, edits, seen>>

LegsOf == [provider |-> {"circuits", "stps", "reservations"},
           stp      |-> {"circuits", "stps", "providers"}]
Source == UNION {LegsOf[p] : p \in DOMAIN LegsOf}

\* What a source has to answer now.
Read(s) ==
  CASE s = "circuits"     -> circuits
    [] s = "stps"         -> Live(stps)
    [] s = "reservations" -> reservations
    [] s = "providers"    -> BuildProviders(upas, nsas)
\* Terminated circuits count for the limit; STPs are filtered before it is applied.
MayAnswer(s) ==
  CASE s = "circuits" -> PagesOf(Read(s), CircuitLimit)
    [] s = "stps"     -> PagesOf(Read(s), StpLimit)
    [] OTHER          -> {Read(s)}

Leg(state, list) == [state |-> state, list |-> list]
Idle == [s \in Source |-> Leg("idle", <<>>)]
NothingSeen == [s \in Source |-> {}]
Blank == [state |-> "blank"]
Asking == view.state = "loading"
List(s) == legs[s].list

Init ==
  /\ page \in Page
  /\ subject \in IF page = "stp" THEN 1..MaxStps[page] ELSE {Nothing}
  /\ circuits = <<>> /\ stps = <<>> /\ reservations = <<>> /\ upas = <<>> /\ nsas = <<>>
  /\ legs = Idle
  /\ view = Blank
  /\ edits = 0
  /\ seen = NothingSeen

\* A system changes, while the page is fetched or after it has been left.
Edited ==
  /\ Asking => edits < MaxEdits[page]
  /\ edits' = IF Asking THEN edits + 1 ELSE 0
  /\ legs' = IF Asking THEN legs ELSE Idle
  /\ view' = IF Asking THEN view ELSE Blank
  /\ seen' = IF Asking THEN [s \in Source |-> IF s \in LegsOf[page] THEN seen[s] \cup {Read(s)'} ELSE {}]
                       ELSE NothingSeen
  /\ UNCHANGED <<page, subject>>

CreateCircuit ==
  /\ Len(circuits) < MaxCircuits[page]
  /\ \E e \in Ends :
       circuits' = Append(circuits, [sub |-> Len(circuits) + 1, gid |-> Nothing,
                                     source |-> Bare(e[1]), dest |-> Bare(e[2]), status |-> "active"])
  /\ UNCHANGED <<stps, reservations, upas, nsas>>
  /\ Edited
\* A circuit gets its global reservation id, and a new one when it is retried.
Gid(i, try) == 10 * i + try
TryCircuit(i) ==
  /\ circuits[i].status # "terminated"
  /\ \E try \in 1..MaxTries[page] :
       /\ circuits[i].gid = IF try = 1 THEN Nothing ELSE Gid(i, try - 1)
       /\ circuits' = [circuits EXCEPT ![i].gid = Gid(i, try)]
  /\ UNCHANGED <<stps, reservations, upas, nsas>>
  /\ Edited
TerminateCircuit(i) ==
  /\ circuits[i].status # "terminated"
  /\ circuits' = [circuits EXCEPT ![i].status = "terminated"]
  /\ UNCHANGED <<stps, reservations, upas, nsas>>
  /\ Edited
\* A uPA is asked to reserve: a segment of a circuit, or for another requester,
\* who need not give a global reservation id.
Reserve ==
  /\ Len(reservations) < MaxReservations[page]
  /\ \E e \in Ends, gid \in {GidOf(circuits[i]) : i \in DOMAIN circuits} \cup {Nothing, Foreign},
        connection \in 1..MaxReservations[page] \ {reservations[i].connection : i \in DOMAIN reservations} :
       reservations' = Append(reservations, [connection |-> connection,
                                             gid |-> gid,
                                             source |-> [local |-> e[1], form |-> "vlan"],
                                             dest |-> [local |-> e[2], form |-> "vlan"],
                                             lifecycle |-> "Created"])
  /\ UNCHANGED <<circuits, stps, upas, nsas>>
  /\ Edited
\* The life of a reservation, as NSI has it.
LifeAfter(lifecycle) ==
  CASE lifecycle = "Created"     -> {"Terminating", "Failed"}
    [] lifecycle = "Failed"      -> {"Terminating"}
    [] lifecycle = "Terminating" -> {"Terminated"}
    [] lifecycle = "Terminated"  -> {}
Lapse(i) ==
  /\ \E lifecycle \in LifeAfter(reservations[i].lifecycle) :
       reservations' = [reservations EXCEPT ![i].lifecycle = lifecycle]
  /\ UNCHANGED <<circuits, stps, upas, nsas>>
  /\ Edited
Forget ==
  /\ reservations # <<>>
  /\ reservations' = Tail(reservations)
  /\ UNCHANGED <<circuits, stps, upas, nsas>>
  /\ Edited
CreateStp ==
  /\ Len(stps) < MaxStps[page]
  /\ \E id \in Stp : stps' = Append(stps, [sub |-> Len(stps) + 1, id |-> Bare(id), name |-> Nothing,
                                                status |-> "active"])
  /\ UNCHANGED <<circuits, reservations, upas, nsas>>
  /\ Edited
TerminateStp(i) ==
  /\ IsLive(stps[i])
  /\ stps' = [stps EXCEPT ![i].status = "terminated"]
  /\ UNCHANGED <<circuits, reservations, upas, nsas>>
  /\ Edited
Peer ==
  /\ Len(upas) < MaxPeers[page]
  /\ \E nsa \in Nsa \ {upas[i].nsa : i \in DOMAIN upas}, network \in Network :
       upas' = Append(upas, [nsa |-> nsa, networks |-> <<[local |-> network, form |-> "urn"]>>])
  /\ UNCHANGED <<circuits, stps, reservations, nsas>>
  /\ Edited
Unpeer ==
  /\ upas # <<>>
  /\ upas' = Tail(upas)
  /\ UNCHANGED <<circuits, stps, reservations, nsas>>
  /\ Edited
\* A provider publishes its document in the DDS, under the name it likes.
Publish ==
  /\ Len(nsas) < MaxNames[page]
  /\ \E nsa \in Nsa, name \in Name : nsas' = Append(nsas, [nsa |-> nsa, name |-> name])
  /\ UNCHANGED <<circuits, stps, reservations, upas>>
  /\ Edited

Request ==
  /\ ~Asking
  /\ legs' = [s \in Source |-> IF s \in LegsOf[page] THEN Leg("pending", <<>>) ELSE Leg("idle", <<>>)]
  /\ view' = [state |-> "loading"]
  /\ edits' = 0
  /\ seen' = [s \in Source |-> IF s \in LegsOf[page] THEN {Read(s)} ELSE {}]
  /\ UNCHANGED <<page, subject, world>>

Answer(s) ==
  /\ legs[s].state = "pending"
  /\ \E list \in MayAnswer(s) : legs' = [legs EXCEPT ![s] = Leg("answered", list)]
  /\ UNCHANGED <<page, subject, world, view, edits, seen>>
\* The fetch answers None: "[]" to everything that only supplies links.
Fail(s) ==
  /\ legs[s].state = "pending"
  /\ legs' = [legs EXCEPT ![s] = Leg("failed", <<>>)]
  /\ UNCHANGED <<page, subject, world, view, edits, seen>>

\* One tab of a provider's reservations.
ProviderPage(tab) ==
  IF legs["reservations"].state = "failed"
  THEN [state |-> "unavailable"]
  ELSE [state |-> "provider",
        tab   |-> tab,
        rows  |-> LinkReservations(OnTab(List("reservations"), tab), List("circuits"), List("stps"))]

\* The STP's row, linked to its provider, and the circuits on it.
StpPage ==
  LET rows == {row \in ReconcileStps(List("stps"), <<>>) : row.sub = subject}
      row == CHOOSE r \in rows : TRUE
  IN IF legs["stps"].state = "failed" THEN [state |-> "unavailable"]
     ELSE IF rows = {} THEN [state |-> "not_found"]
     ELSE [state    |-> "stp",
           id       |-> row.id,
           provider |-> ProviderOf(List("providers"), NetworkOf[NormalizeId(row.id)]),
           circuits |-> IF legs["circuits"].state = "failed" THEN {Nothing}
                        ELSE CircuitsOnStp(List("circuits"), row.id)]

Compose ==
  /\ Asking
  /\ \A s \in Source : legs[s].state # "pending"
  /\ IF page = "provider"
     THEN \E tab \in ReservationTabs : view' = ProviderPage(tab)
     ELSE view' = StpPage
  /\ UNCHANGED <<page, subject, world, legs, edits, seen>>

Next ==
  \/ CreateCircuit \/ Reserve \/ Forget \/ CreateStp \/ Peer \/ Unpeer \/ Publish
  \/ \E i \in DOMAIN circuits : TryCircuit(i) \/ TerminateCircuit(i)
  \/ \E i \in DOMAIN reservations : Lapse(i)
  \/ \E i \in DOMAIN stps : TerminateStp(i)
  \/ Request \/ Compose
  \/ \E s \in Source : Answer(s) \/ Fail(s)

Spec == Init /\ [][Next]_vars

-----------------------------------------------------------------------------
\* "P of some item of the source" at one moment of the request, and at all.
Ever(s, P(_)) == \E list \in seen[s] : \E i \in DOMAIN list : P(list[i])
Always(s, P(_)) == \A list \in seen[s] : \E i \in DOMAIN list : P(list[i])
Came(s) == legs[s].state = "answered"
\* It had no more to answer than its query asks for, all the while.
Fits(s, list) ==
  /\ s = "circuits" => Cardinality(DOMAIN list) <= CircuitLimit
  /\ s = "stps" => Cardinality(DOMAIN list) <= StpLimit
Whole(s) == \A list \in seen[s] : Fits(s, list)
\* The page was given such an item: it came, or was always there with nothing cut off.
Certain(s, P(_)) ==
  /\ Came(s)
  /\ \/ Whole(s) /\ Always(s, P)
     \/ \E i \in DOMAIN List(s) : P(List(s)[i])

\* A reservation links to the circuit that had its global reservation id while
\* the page was fetched, to no circuit when it has none, and is never left
\* unlinked by changes to other circuits, unless these fill the answer.
ReservationsLinkTheirCircuit ==
  view.state = "provider" =>
    \A row \in view.rows :
      /\ row.circuit # Nothing =>
           row.gid # Nothing /\ Ever("circuits", LAMBDA c : c.sub = row.circuit /\ c.gid = row.gid)
      /\ row.gid # Nothing /\ Certain("circuits", LAMBDA c : c.gid = row.gid)
           => row.circuit # Nothing

\* A reservation the uPA held all the while is on the tab of all, and missing from
\* one of the others only if it may be looked for on the other, or has failed; and
\* none is shown that the uPA never held: no moment of its life is on no tab.
ReservationsOnTheirTabs ==
  view.state = "provider" =>
    LET shown == {row.connection : row \in view.rows}
        was(connection, states) ==
          Ever("reservations", LAMBDA r : r.connection = connection /\ r.lifecycle \in states)
    IN /\ \A connection \in shown : Ever("reservations", LAMBDA r : r.connection = connection)
       /\ \A connection \in 1..MaxReservations[page] \ shown :
            Always("reservations", LAMBDA r : r.connection = connection) =>
              \/ view.tab = "active" /\ was(connection, {"Terminating", "Terminated", "Failed"})
              \/ view.tab = "terminated" /\ was(connection, {"Created", "Failed"})

\* The end of a reservation links to a subscription of that very STP, whatever
\* VLAN its id carries, and to one that was live while the page was fetched; it
\* has none only if there was none, at some moment or for want of room in the answer.
EndsLinkTheirStp ==
  view.state = "provider" =>
    \A row \in view.rows :
      \A end \in {<<row.source, row.sourceSub>>, <<row.dest, row.destSub>>} :
        /\ end[2] # Nothing =>
             Ever("stps", LAMBDA t : t.sub = end[2] /\ t.id.local = end[1].local)
        /\ Certain("stps", LAMBDA t : t.id.local = end[1].local) => end[2] # Nothing

\* The page of an STP lists every circuit that used it all the while and was not
\* cut off by the limit, to which the terminated ones count, none that was
\* terminated or elsewhere all the while, and "could not fetch" is no list.
CircuitsOfTheStp ==
  view.state = "stp" =>
    LET on(c) == c.status # "terminated" /\ view.id.local \in {c.source.local, c.dest.local}
    IN IF Came("circuits")
       THEN \A sub \in 1..MaxCircuits[page] :
              /\ sub \in view.circuits => Ever("circuits", LAMBDA c : c.sub = sub /\ on(c))
              /\ Certain("circuits", LAMBDA c : c.sub = sub /\ on(c)) => sub \in view.circuits
       ELSE view.circuits = {Nothing}

\* The provider an STP links to serves the STP's network, and there is one when
\* any provider served it all the while, in whatever form each source writes it.
ProviderServesTheNetwork ==
  view.state = "stp" =>
    LET network == NetworkOf[view.id.local]
        on(p) == \E i \in DOMAIN p.networks : p.networks[i].local = network
    IN /\ view.provider # Nothing => Ever("providers", LAMBDA p : p.nsa = view.provider /\ on(p))
       /\ Certain("providers", on) => view.provider # Nothing
=============================================================================
