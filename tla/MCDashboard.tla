---------------------------- MODULE MCDashboard ----------------------------
(* Paths and SDPs for TLC: STPs 1 and 2 are the ends of one link, 3 and 4 of   *)
(* another, and 5, 7 and 8 are ports at the edges of the domains.              *)
EXTENDS Dashboard

At(local, form, vlan) == [local |-> local, form |-> form, vlan |-> vlan]

\* Over link 1-2, and from its one end over a link nobody knows.
MCPath ==
  { << [source |-> At(5, "vlan", 5), dest |-> At(1, "vlan", 11)],
       [source |-> At(2, "urn", Nothing), dest |-> At(7, "vlan", 7)] >>,
    << [source |-> At(5, "vlan", 5), dest |-> At(1, "vlan", 6)],
       [source |-> At(7, "vlan", 7), dest |-> At(8, "vlan", 8)] >> }

MCMember(local) ==
  [id |-> [local |-> local, form |-> "bare"], name |-> local, label |-> local, capacity |-> 9, owner |-> local]
MCSdpStps == {<<MCMember(2), MCMember(1)>>, <<MCMember(1)>>}
MCDocument == {[a |-> [local |-> a, form |-> "urn"], z |-> [local |-> a + 1, form |-> "urn"]] : a \in {1, 3}}
MCStpSub == {[sub |-> 1, id |-> [local |-> 1, form |-> "bare"], name |-> Nothing, status |-> "active"]}
MCHistory == << [sub |-> 1, connection |-> Nothing, bandwidth |-> 1, state |-> "TERMINATED"] >>
=============================================================================
