------------------------------ MODULE MCLinks ------------------------------
(* Values of Links's constants that a configuration cannot write. *)
EXTENDS Links

MCNetworkOf == [s \in Stp |-> IF s = 3 THEN 2 ELSE 1]
MCEnds == {<<2, 1>>}
Bounds(provider, stp) == [p \in Page |-> IF p = "provider" THEN provider ELSE stp]
MCMaxCircuits == Bounds(3, 3)
MCMaxTries == Bounds(2, 0)
MCMaxReservations == Bounds(1, 0)
MCMaxStps == Bounds(2, 2)
MCMaxPeers == Bounds(0, 2)
MCMaxNames == Bounds(0, 1)
MCMaxEdits == Bounds(1, 1)

\* A state the orchestrator comes to before anyone looks at the page of an STP: a
\* circuit is gone, and still takes a place of the answers.
Gone == [sub |-> 1, gid |-> Nothing, source |-> Bare(2), dest |-> Bare(1), status |-> "terminated"]
MCInit ==
  /\ page \in Page
  /\ subject \in IF page = "stp" THEN 1..MaxStps[page] ELSE {Nothing}
  /\ circuits = IF page = "stp" THEN <<Gone>> ELSE <<>>
  /\ stps = <<>> /\ reservations = <<>> /\ upas = <<>> /\ nsas = <<>>
  /\ legs = Idle /\ view = Blank /\ edits = 0 /\ seen = NothingSeen

\* On a provider's page STP 1 is an end of every reservation, whose other end is of
\* another domain; STP 3, which may take the place of STP 1 in the answer, stays, and
\* so do the circuits, of which the third is there to fill the answer.
ProviderWorld ==
  /\ \A i \in DOMAIN stps : stps[i].id.local = 3 => i = 1 /\ IsLive(stps[i])
  /\ \A i \in DOMAIN circuits : IsLive(circuits[i]) /\ (i = 3 => circuits[i].gid = Nothing)
\* On the page of an STP one circuit at a time is in use, and either circuits or
\* providers come and go.
StpWorld ==
  /\ Cardinality({i \in DOMAIN circuits : IsLive(circuits[i])}) <= 1
  /\ circuits = <<Gone>> \/ <<upas, nsas>> = << <<>>, <<>> >>
MCNext == Next /\ IF page = "provider" THEN ProviderWorld' ELSE StpWorld'
MCSpec == MCInit /\ [][MCNext]_vars
=============================================================================
