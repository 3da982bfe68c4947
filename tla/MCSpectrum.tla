----------------------------- MODULE MCSpectrum -----------------------------
(* Paths and SDPs for TLC: STPs 1 and 2 are the ends of one link, 3 and 4 of   *)
(* another, and 5 to 8 are ports at the edges of the domains.                  *)
EXTENDS Spectrum

At(local, form, vlan) == [local |-> local, form |-> form, vlan |-> vlan]
Edge(local) == At(local, "vlan", local)

\* Within one domain; over link 1-2, modelled as the boundary of two segments;
\* over both links, one as a segment of its own; over a link nobody knows.
MCPath ==
  { << [source |-> Edge(5), dest |-> Edge(6)] >>,
    << [source |-> Edge(5), dest |-> At(1, "vlan", 11)], [source |-> At(2, "urn", Nothing), dest |-> Edge(7)] >>,
    << [source |-> Edge(5), dest |-> At(1, "urn", Nothing)], [source |-> At(1, "urn", Nothing), dest |-> At(2, "urn", Nothing)],
       [source |-> At(2, "urn", Nothing), dest |-> At(3, "vlan", 13)], [source |-> At(4, "vlan", 14), dest |-> Edge(8)] >>,
    << [source |-> Edge(5), dest |-> Edge(6)], [source |-> Edge(7), dest |-> Edge(8)] >> }

MCMember(local, form, capacity) ==
  [id |-> [local |-> local, form |-> form], name |-> local, label |-> local,
   capacity |-> capacity, owner |-> local]
\* The ends of link 1-2 disagree, and those of link 3-4 can carry nothing.
MCSdpStps ==
  { <<MCMember(2, "bare", 9), MCMember(1, "bare", 6)>>,
    <<MCMember(3, "urn", 0), MCMember(4, "urn", NoCapacity)>>,
    <<MCMember(1, "bare", 9)>> }

\* A state the orchestrator comes to before anyone looks: a circuit that is gone and
\* an SDP of one member, which take a place of their queries' answers for nothing.
MCInit ==
  /\ circuits = <<[sub |-> 1, connection |-> Nothing, bandwidth |-> 3, state |-> "TERMINATED"]>>
  /\ reservations = <<>>
  /\ sdps = <<[sub |-> 1, stps |-> <<MCMember(1, "bare", 9)>>]>>
  /\ connections = 0
  /\ legs = [leg \in Leg |-> Pending]
  /\ rows = {} /\ status = "idle" /\ edits = 0
  /\ always = [leg \in Leg |-> {}] /\ ever = [leg \in Leg |-> {}]
\* The SDPs after it are links.
MCNext == Next /\ \A i \in DOMAIN sdps' \ {1} : IsLink(sdps'[i])
MCSpec == MCInit /\ [][MCNext]_vars
=============================================================================
