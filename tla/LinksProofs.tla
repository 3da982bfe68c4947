---------------------------- MODULE LinksProofs ----------------------------
(***************************************************************************)
(* Proofs about Links: an invariant of the sources, the answers and the    *)
(* history, and what each lookup by which a page links finds.              *)
(***************************************************************************)
EXTENDS Links, RowsProofs

-----------------------------------------------------------------------------
\* The sources.

NsiId == [local : Nat, form : Form]
CircuitSet == [sub : Nat \ {0}, gid : Nat, source : NsiId, dest : NsiId, status : {"active", "terminated"}]
StpSet == [sub : Nat \ {0}, id : [local : Nat \ {0}, form : Form], name : Nat, status : {"active", "terminated"}]
UpaSet == [nsa : Nat \ {0}, networks : Seq(NsiId)]
DocSet == [nsa : Nat \ {0}, name : Nat \ {0}]
Lifecycle == {"Created", "Terminating", "Terminated", "Failed"}
ReservationSet == [connection : Nat, gid : Nat, source : NsiId, dest : NsiId, lifecycle : Lifecycle]

SourcesInv ==
  /\ circuits \in Seq(CircuitSet) /\ stps \in Seq(StpSet)
  /\ upas \in Seq(UpaSet) /\ nsas \in Seq(DocSet)
  /\ reservations \in Seq(ReservationSet)

\* A list as it may be answered: every item has a number.
Numbered(list, Has(_)) == \E n \in Nat : DOMAIN list \subseteq 1..n /\ \A i \in DOMAIN list : Has(list[i])
CircuitsOK(list) == Numbered(list, LAMBDA c : c.sub # Nothing)
StpsOK(list) == Numbered(list, LAMBDA t : t.sub # Nothing /\ t.id.local # Nothing)
ProvidersOK(list) == Numbered(list, LAMBDA p : p.nsa # Nothing /\ p.name \in Nat)
ReservationsOK(list) == Numbered(list, LAMBDA r : r.lifecycle \in Lifecycle)
ListOK(s, list) ==
  CASE s = "circuits"     -> CircuitsOK(list)
    [] s = "stps"         -> StpsOK(list)
    [] s = "providers"    -> ProvidersOK(list)
    [] s = "reservations" -> ReservationsOK(list)

\* What a request has seen is such a list; what it was answered is one it has seen, or
\* some places of one that did not fit the answer.
PartOf(part, list) == DOMAIN part \subseteq DOMAIN list /\ \A i \in DOMAIN part : part[i] = list[i]
Answered(s, part) == \E list \in seen[s] : PartOf(part, list) /\ (Fits(s, list) => part = list)
SeenInv ==
  /\ DOMAIN seen = Source /\ DOMAIN legs = Source
  /\ \A s \in Source : \A list \in seen[s] : ListOK(s, list)
  /\ Asking => \A s \in LegsOf[page] : Read(s) \in seen[s]
AnswersInv ==
  \A s \in Source :
    /\ legs[s].state \in {"idle", "pending", "answered", "failed"}
    /\ legs[s].state = "pending" => Asking
    /\ legs[s].state # "idle" => s \in LegsOf[page]
    /\ Asking /\ s \in LegsOf[page] => legs[s].state # "idle"
    /\ IF Came(s) THEN Answered(s, List(s)) ELSE List(s) = <<>>
\* A page that is shown is composed of its answers.
StpView(id) ==
  [state    |-> "stp",
   id       |-> id,
   provider |-> ProviderOf(List("providers"), NetworkOf[NormalizeId(id)]),
   circuits |-> IF legs["circuits"].state = "failed" THEN {Nothing} ELSE CircuitsOnStp(List("circuits"), id)]
ViewInv ==
  /\ view.state = "provider" =>
       /\ view.tab \in ReservationTabs
       /\ view.rows = LinkReservations(OnTab(List("reservations"), view.tab), List("circuits"), List("stps"))
       /\ Came("reservations")
  /\ view.state = "stp" => view = StpView(view.id) /\ (Came("circuits") \/ legs["circuits"].state = "failed")
  /\ page \in DOMAIN LegsOf

IInv == SourcesInv /\ SeenInv /\ AnswersInv /\ ViewInv

-----------------------------------------------------------------------------
\* The lookups.

\* The index of NSA documents by provider.
LEMMA ByNsaFinds ==
  ASSUME NEW n \in Nat, NEW items, DOMAIN items \subseteq 1..n
  PROVE  /\ DOMAIN Index(items, NsaOf, Nothing) = {items[i].nsa : i \in DOMAIN items} \ {Nothing}
         /\ \A key \in DOMAIN Index(items, NsaOf, Nothing) :
              \E i \in DOMAIN items : items[i].nsa = key /\ Index(items, NsaOf, Nothing)[key] = items[i]
<1>1. DOMAIN Index(items, NsaOf, Nothing) = {items[i].nsa : i \in DOMAIN items} \ {Nothing}
  BY DEF Index, NsaOf
<1>2. ASSUME NEW key \in DOMAIN Index(items, NsaOf, Nothing)
      PROVE  \E i \in DOMAIN items : items[i].nsa = key /\ Index(items, NsaOf, Nothing)[key] = items[i]
  <2> DEFINE S == {i \in DOMAIN items : items[i].nsa = key}
             Last(i) == i \in S /\ \A j \in S : j <= i
  <2>1. \E i : Last(i)
    <3>1. S \in SUBSET (1..n) /\ S # {}
      BY <1>1
    <3> QED BY <3>1, LastPlace
  <2>2. Index(items, NsaOf, Nothing)[key] =
          items[CHOOSE i \in DOMAIN items :
                  items[i].nsa = key /\ \A j \in DOMAIN items : items[j].nsa = key => j <= i]
    BY <1>1 DEF Index, LastWith, NsaOf
  <2>3. PICK i \in DOMAIN items :
          /\ items[i].nsa = key
          /\ i = CHOOSE k \in DOMAIN items :
                   items[k].nsa = key /\ \A j \in DOMAIN items : items[j].nsa = key => j <= k
    BY <2>1
  <2> QED BY <2>2, <2>3
<1> QED BY <1>1, <1>2

\* The index of circuits by global reservation id.
LEMMA ByGidFinds ==
  ASSUME NEW n \in Nat, NEW items, DOMAIN items \subseteq 1..n
  PROVE  /\ DOMAIN Index(items, GidOf, Nothing) = {items[i].gid : i \in DOMAIN items} \ {Nothing}
         /\ \A key \in DOMAIN Index(items, GidOf, Nothing) :
              \E i \in DOMAIN items : items[i].gid = key /\ Index(items, GidOf, Nothing)[key] = items[i]
<1>1. DOMAIN Index(items, GidOf, Nothing) = {items[i].gid : i \in DOMAIN items} \ {Nothing}
  BY DEF Index, GidOf
<1>2. ASSUME NEW key \in DOMAIN Index(items, GidOf, Nothing)
      PROVE  \E i \in DOMAIN items : items[i].gid = key /\ Index(items, GidOf, Nothing)[key] = items[i]
  <2> DEFINE S == {i \in DOMAIN items : items[i].gid = key}
             Last(i) == i \in S /\ \A j \in S : j <= i
  <2>1. \E i : Last(i)
    <3>1. S \in SUBSET (1..n) /\ S # {}
      BY <1>1
    <3> QED BY <3>1, LastPlace
  <2>2. Index(items, GidOf, Nothing)[key] =
          items[CHOOSE i \in DOMAIN items :
                  items[i].gid = key /\ \A j \in DOMAIN items : items[j].gid = key => j <= i]
    BY <1>1 DEF Index, LastWith, GidOf
  <2>3. PICK i \in DOMAIN items :
          /\ items[i].gid = key
          /\ i = CHOOSE k \in DOMAIN items :
                   items[k].gid = key /\ \A j \in DOMAIN items : items[j].gid = key => j <= k
    BY <2>1
  <2> QED BY <2>2, <2>3
<1> QED BY <1>1, <1>2

\* The circuit of a global reservation id: of that id, and there if one has it.
LEMMA CircuitOfRight ==
  ASSUME NEW list, CircuitsOK(list), NEW gid
  PROVE  /\ CircuitOf(list, gid) # Nothing =>
              gid # Nothing /\ \E i \in DOMAIN list : list[i].sub = CircuitOf(list, gid) /\ list[i].gid = gid
         /\ gid # Nothing /\ (\E i \in DOMAIN list : list[i].gid = gid) => CircuitOf(list, gid) # Nothing
<1> DEFINE index == Index(list, GidOf, Nothing)
<1>1. PICK n \in Nat : DOMAIN list \subseteq 1..n /\ \A i \in DOMAIN list : list[i].sub # Nothing
  BY DEF CircuitsOK, Numbered
<1>2. /\ DOMAIN index = {list[i].gid : i \in DOMAIN list} \ {Nothing}
      /\ \A key \in DOMAIN index : \E i \in DOMAIN list : list[i].gid = key /\ index[key] = list[i]
  <2>1. n \in Nat /\ DOMAIN list \subseteq 1..n
    BY <1>1
  <2> QED BY <2>1, ByGidFinds, Zenon
<1>3. CircuitOf(list, gid) = IF gid \in DOMAIN index THEN index[gid].sub ELSE Nothing
  BY DEF CircuitOf, Get, NoSub
<1> HIDE DEF index
<1> QED BY <1>1, <1>2, <1>3

\* The subscription of an STP id, likewise.
LEMMA SubscriptionOfRight ==
  ASSUME NEW list, StpsOK(list), NEW raw
  PROVE  /\ SubscriptionOf(list, raw) # Nothing =>
              \E i \in DOMAIN list : list[i].sub = SubscriptionOf(list, raw) /\ list[i].id.local = raw.local
         /\ (\E i \in DOMAIN list : list[i].id.local = raw.local) => SubscriptionOf(list, raw) # Nothing
<1>1. Subscriptions(list)
  BY DEF StpsOK, Numbered, Subscriptions
<1> QED BY <1>1, SubscriptionOfFinds

\* Of some places of a list one has the greatest name, and the last place of those.
LEMMA LastByName ==
  ASSUME NEW n \in Nat, NEW S \in SUBSET (1..n), S # {}, NEW name \in [S -> Nat]
  PROVE  \E i \in S : \A j \in S : name[j] < name[i] \/ (name[j] = name[i] /\ j <= i)
<1> DEFINE Before(i, j) == name[i] < name[j] \/ (name[i] = name[j] /\ i < j)
           Above(i) == {j \in S : Before(i, j)}
           Ranks == {Cardinality(Above(i)) : i \in S}
<1>1. \A i \in S : i \in Nat /\ name[i] \in Nat
  OBVIOUS
<1>2. IsFiniteSet(S)
  <2>1. IsFiniteSet(1..n)
    BY FS_Interval
  <2> QED BY <2>1, FS_Subset
<1>3. \A i \in S : ~Before(i, i)
  BY <1>1
<1>4. \A i, j, k \in S : Before(i, j) /\ Before(j, k) => Before(i, k)
  BY <1>1
<1>5. \A i, j \in S : ~Before(i, j) => name[j] < name[i] \/ (name[j] = name[i] /\ j <= i)
  BY <1>1
<1> HIDE DEF Before
<1>6. \A i \in S : IsFiniteSet(Above(i)) /\ Cardinality(Above(i)) \in Nat
  <2> TAKE i \in S
  <2>1. Above(i) \in SUBSET S
    OBVIOUS
  <2> HIDE DEF Above
  <2>2. IsFiniteSet(Above(i))
    BY <1>2, <2>1, FS_Subset
  <2> QED BY <2>2, FS_CardinalityType
<1>7. PICK i \in S : \A j \in S : ~(Cardinality(Above(j)) < Cardinality(Above(i)))
  <2>1. Ranks \subseteq Nat /\ Ranks # {}
    BY <1>6
  <2>2. \E least \in Ranks : \A rank \in Ranks : ~(<<rank, least>> \in OpToRel(<, Nat))
    <3> HIDE DEF Ranks
    <3> QED BY <2>1, NatLessThanWellFounded, WFMin
  <2>3. \E least \in Ranks : \A rank \in Ranks : ~(rank < least)
    BY <2>1, <2>2 DEF OpToRel
  <2> QED BY <2>3
<1>8. ASSUME NEW j \in Above(i) PROVE FALSE
  <2>1. j \in S /\ Before(i, j)
    OBVIOUS
  <2>2. Above(j) \in SUBSET Above(i)
    BY <1>4, <2>1
  <2>3. j \in Above(i) /\ j \notin Above(j)
    BY <1>3, <2>1
  <2> HIDE DEF Above
  <2>4. /\ Cardinality(Above(j)) <= Cardinality(Above(i))
        /\ Cardinality(Above(i)) = Cardinality(Above(j)) => Above(i) = Above(j)
    BY <1>6, <2>2, FS_Subset
  <2>5. Cardinality(Above(j)) # Cardinality(Above(i))
    BY <2>3, <2>4
  <2>6. Cardinality(Above(j)) \in Nat /\ Cardinality(Above(i)) \in Nat
    BY <1>6, <2>1
  <2> QED BY <1>7, <2>1, <2>4, <2>5, <2>6
<1> QED BY <1>5, <1>8

\* The provider of a network: one that serves it, and there if one does.
LEMMA ProviderOfRight ==
  ASSUME NEW list, ProvidersOK(list), NEW network
  PROVE  /\ ProviderOf(list, network) # Nothing =>
              \E i \in DOMAIN list : list[i].nsa = ProviderOf(list, network) /\ Serves(list[i], network)
         /\ (\E i \in DOMAIN list : Serves(list[i], network)) => ProviderOf(list, network) # Nothing
<1> DEFINE serving == {i \in DOMAIN list : Serves(list[i], network)}
           IsLast(i) == \A j \in serving : \/ list[j].name < list[i].name
                                           \/ list[j].name = list[i].name /\ j <= i
           last == CHOOSE i \in serving : IsLast(i)
<1>1. PICK n \in Nat : /\ DOMAIN list \subseteq 1..n
                       /\ \A i \in DOMAIN list : list[i].nsa # Nothing /\ list[i].name \in Nat
  BY DEF ProvidersOK, Numbered
<1>2. ProviderOf(list, network) = IF serving = {} THEN Nothing ELSE list[last].nsa
  BY DEF ProviderOf
<1>3. serving # {} => \E i \in serving : IsLast(i)
  <2> DEFINE name == [i \in serving |-> list[i].name]
  <2>1. serving \in SUBSET (1..n) /\ name \in [serving -> Nat] /\ \A i \in serving : name[i] = list[i].name
    BY <1>1
  <2> HIDE DEF serving, name
  <2>2. ASSUME serving # {}
        PROVE  \E i \in serving : \A j \in serving : name[j] < name[i] \/ (name[j] = name[i] /\ j <= i)
    BY <2>1, <2>2, LastByName
  <2> QED BY <2>1, <2>2
<1>4. serving # {} => last \in serving
  <2> HIDE DEF serving, IsLast
  <2> QED BY <1>3
<1> QED BY <1>1, <1>2, <1>4

-----------------------------------------------------------------------------
\* What the sources may answer is such a list.

\* A sequence is such a list.
LEMMA SomeNumber ==
  ASSUME NEW S, NEW list \in Seq(S)
  PROVE  /\ \E n \in Nat : DOMAIN list \subseteq 1..n
         /\ \A i \in DOMAIN list : list[i] \in S
BY SMT

\* Circuits are answered as they are.
LEMMA CircuitsAnswer ==
  ASSUME NEW list \in Seq(CircuitSet)
  PROVE  CircuitsOK(list)
<1>1. (\E n \in Nat : DOMAIN list \subseteq 1..n) /\ \A i \in DOMAIN list : list[i] \in CircuitSet
  BY SomeNumber
<1>2. \A c \in CircuitSet : c.sub # Nothing
  BY DEF CircuitSet, Nothing
<1> QED BY <1>1, <1>2 DEF CircuitsOK, Numbered

\* So are reservations.
LEMMA ReservationsAnswer ==
  ASSUME NEW list \in Seq(ReservationSet)
  PROVE  ReservationsOK(list)
<1>1. (\E n \in Nat : DOMAIN list \subseteq 1..n) /\ \A i \in DOMAIN list : list[i] \in ReservationSet
  BY SomeNumber
<1>2. \A r \in ReservationSet : r.lifecycle \in Lifecycle
  BY DEF ReservationSet
<1> QED BY <1>1, <1>2 DEF ReservationsOK, Numbered

\* The live subscriptions of STPs.
LEMMA StpsAnswer ==
  ASSUME NEW list \in Seq(StpSet)
  PROVE  StpsOK(Live(list))
<1>1. (\E n \in Nat : DOMAIN list \subseteq 1..n) /\ \A i \in DOMAIN list : list[i] \in StpSet
  BY SomeNumber
<1>2. \A t \in StpSet : t.sub # Nothing /\ t.id.local # Nothing
  BY DEF StpSet, Nothing
<1>3. DOMAIN Live(list) \subseteq DOMAIN list /\ \A i \in DOMAIN Live(list) : Live(list)[i] = list[i]
  BY DEF Live, RestrictValues, Restrict
<1> QED BY <1>1, <1>2, <1>3 DEF StpsOK, Numbered

\* The rows of the providers: named by their document, or else by their id.
LEMMA ProvidersAnswer ==
  ASSUME NEW us \in Seq(UpaSet), NEW docs \in Seq(DocSet)
  PROVE  ProvidersOK(BuildProviders(us, docs))
<1> DEFINE nsaById == Index(docs, NsaOf, Nothing)
           document(i) == Get(nsaById, us[i].nsa, NoDocument)
<1>1. (\E n \in Nat : DOMAIN us \subseteq 1..n) /\ \A i \in DOMAIN us : us[i] \in UpaSet
  BY SomeNumber
<1>2. PICK m \in Nat : DOMAIN docs \subseteq 1..m
  BY SomeNumber
<1>3. \A i \in DOMAIN docs : docs[i] \in DocSet
  BY SomeNumber
<1>4. \A key \in DOMAIN nsaById : \E i \in DOMAIN docs : nsaById[key] = docs[i]
  <2>1. m \in Nat /\ DOMAIN docs \subseteq 1..m
    BY <1>2
  <2>2. \A key \in DOMAIN nsaById : \E i \in DOMAIN docs : docs[i].nsa = key /\ nsaById[key] = docs[i]
    BY <2>1, ByNsaFinds, Zenon
  <2> QED BY <2>2
<1>5. /\ DOMAIN BuildProviders(us, docs) = DOMAIN us
      /\ \A i \in DOMAIN us : BuildProviders(us, docs)[i] = ProviderRow(us[i], document(i))
  BY DEF BuildProviders
<1> HIDE DEF nsaById
<1>6. \A i \in DOMAIN us : document(i).name \in Nat
  <2>1. \A doc \in DocSet : doc.name \in Nat
    BY DEF DocSet
  <2>2. NoDocument.name \in Nat
    BY DEF NoDocument, Nothing
  <2> QED BY <1>3, <1>4, <2>1, <2>2 DEF Get
<1> HIDE DEF document
<1>7. \A i \in DOMAIN us : us[i].nsa \in Nat /\ us[i].nsa # Nothing
  <2>1. \A upa \in UpaSet : upa.nsa \in Nat /\ upa.nsa # Nothing
    BY DEF UpaSet, Nothing
  <2> QED BY <1>1, <2>1
<1>8. \A i \in DOMAIN us : /\ ProviderRow(us[i], document(i)).nsa # Nothing
                           /\ ProviderRow(us[i], document(i)).name \in Nat
  BY <1>6, <1>7 DEF ProviderRow, Or
<1> QED BY <1>1, <1>5, <1>8 DEF ProvidersOK, Numbered

-----------------------------------------------------------------------------
\* The invariant.

\* The legs of the two pages.
LEMMA PagesHaveLegs == Source = {"circuits", "stps", "reservations", "providers"}
                       /\ DOMAIN LegsOf = {"provider", "stp"}
                       /\ \A p \in DOMAIN LegsOf : LegsOf[p] \subseteq Source /\ "circuits" \in LegsOf[p]
BY DEF Source, LegsOf

\* So is whatever a source answers now,
LEMMA ReadsAreLists ==
  ASSUME SourcesInv PROVE \A s \in Source : ListOK(s, Read(s))
BY CircuitsAnswer, StpsAnswer, ProvidersAnswer, ReservationsAnswer, PagesHaveLegs DEF SourcesInv, Read, ListOK
\* and after a step.
LEMMA ReadsStayLists ==
  ASSUME SourcesInv' PROVE \A s \in Source : ListOK(s, Read(s)')
BY CircuitsAnswer, StpsAnswer, ProvidersAnswer, ReservationsAnswer, PagesHaveLegs DEF SourcesInv, Read, ListOK

\* The invariant holds at first.
LEMMA IInvInit == Init => IInv
<1> SUFFICES ASSUME Init PROVE IInv
  OBVIOUS
<1>1. SourcesInv
  BY DEF Init, SourcesInv
<1>2. page \in DOMAIN LegsOf
  BY LinksAssumption, PagesHaveLegs DEF Init
<1>3. SeenInv /\ AnswersInv
  BY DEF Init, SeenInv, AnswersInv, Idle, NothingSeen, Leg, Blank, Asking, Came, List
<1>4. ViewInv
  BY <1>2 DEF Init, ViewInv, Blank
<1> QED BY <1>1, <1>3, <1>4 DEF IInv

\* A change of a system, whatever it is, that leaves the systems well-formed.
LEMMA EditedKeeps ==
  ASSUME IInv, SourcesInv', Edited
  PROVE  IInv'
<1>1. page' = page /\ page \in DOMAIN LegsOf
  BY DEF Edited, IInv, ViewInv
<1>2. CASE Asking
  <2>1. legs' = legs /\ view' = view
        /\ seen' = [s \in Source |-> IF s \in LegsOf[page] THEN seen[s] \cup {Read(s)'} ELSE {}]
    BY <1>2 DEF Edited
  <2>2. DOMAIN seen' = Source /\ DOMAIN legs' = Source
    BY <2>1 DEF IInv, SeenInv
  <2>3. ASSUME NEW s \in Source, NEW list \in seen'[s] PROVE ListOK(s, list)
    <3>1. list \in seen[s] \/ list = Read(s)'
      BY <2>1, <2>3
    <3> QED BY <3>1, ReadsStayLists DEF IInv, SeenInv
  <2>4. \A s \in LegsOf[page] : Read(s)' \in seen'[s]
    BY <1>1, <2>1, PagesHaveLegs
  <2>5. SeenInv'
    BY <1>1, <2>2, <2>3, <2>4 DEF SeenInv
  <2>6. AnswersInv'
    <3> SUFFICES ASSUME NEW s \in Source
                 PROVE  /\ legs[s].state \in {"idle", "pending", "answered", "failed"}
                        /\ legs[s].state = "pending" => Asking'
                        /\ legs[s].state # "idle" => s \in LegsOf[page]
                        /\ Asking' /\ s \in LegsOf[page] => legs[s].state # "idle"
                        /\ IF Came(s) THEN Answered(s, List(s))' ELSE List(s) = <<>>
      BY <1>1, <2>1 DEF AnswersInv, Came, List, Answered
    <3>1. s \in LegsOf[page] => (Answered(s, List(s)) => Answered(s, List(s))')
      BY <2>1 DEF Answered, List
    <3>2. Came(s) => s \in LegsOf[page]
      BY DEF Came, IInv, AnswersInv
    <3>3. Asking' = Asking
      BY <2>1 DEF Asking
    <3> QED BY <3>1, <3>2, <3>3 DEF IInv, AnswersInv
  <2>7. ViewInv'
    BY <1>1, <1>2, <2>1 DEF ViewInv, Asking
  <2> QED BY <2>5, <2>6, <2>7 DEF IInv
<1>3. CASE ~Asking
  <2>1. legs' = Idle /\ view' = Blank /\ seen' = NothingSeen
    BY <1>3 DEF Edited
  <2>2. SeenInv' /\ AnswersInv'
    BY <2>1 DEF SeenInv, AnswersInv, Idle, NothingSeen, Leg, Blank, Asking, Came, List
  <2>3. ViewInv'
    BY <1>1, <2>1 DEF ViewInv, Blank
  <2> QED BY <2>2, <2>3 DEF IInv
<1> QED BY <1>2, <1>3

\* One field of a circuit or of a subscription.
LEMMA CircuitTried ==
  ASSUME NEW c \in CircuitSet, NEW gid \in Nat PROVE [c EXCEPT !.gid = gid] \in CircuitSet
BY DEF CircuitSet
\* The state of a circuit.
LEMMA CircuitEnded ==
  ASSUME NEW c \in CircuitSet PROVE [c EXCEPT !.status = "terminated"] \in CircuitSet
BY DEF CircuitSet
\* The state of a subscription.
LEMMA StpEnded ==
  ASSUME NEW t \in StpSet PROVE [t EXCEPT !.status = "terminated"] \in StpSet
BY DEF StpSet
\* One item of a list replaced.
LEMMA ReplacedIn ==
  ASSUME NEW S, NEW list \in Seq(S), NEW i \in DOMAIN list, NEW x \in S
  PROVE  [list EXCEPT ![i] = x] \in Seq(S)
OBVIOUS

\* The state of a reservation.
LEMMA ReservationLapsed ==
  ASSUME NEW r \in ReservationSet, NEW lifecycle \in Lifecycle
  PROVE  [r EXCEPT !.lifecycle = lifecycle] \in ReservationSet
BY DEF ReservationSet
\* Its life has no other states.
LEMMA LifeIsTyped == \A lifecycle \in Lifecycle : LifeAfter(lifecycle) \subseteq Lifecycle
BY DEF Lifecycle, LifeAfter

\* Every change leaves the systems well-formed.
LEMMA EditsKeep ==
  ASSUME IInv,
         \/ CreateCircuit \/ Reserve \/ Forget \/ CreateStp \/ Peer \/ Unpeer \/ Publish
         \/ \E i \in DOMAIN circuits : TryCircuit(i) \/ TerminateCircuit(i)
         \/ \E i \in DOMAIN reservations : Lapse(i)
         \/ \E i \in DOMAIN stps : TerminateStp(i)
  PROVE  SourcesInv' /\ Edited
<1>1. /\ circuits \in Seq(CircuitSet) /\ stps \in Seq(StpSet)
      /\ upas \in Seq(UpaSet) /\ nsas \in Seq(DocSet)
      /\ reservations \in Seq(ReservationSet)
  BY DEF IInv, SourcesInv
<1>2. CASE CreateCircuit
  <2>1. PICK e \in Ends :
          circuits' = Append(circuits, [sub |-> Len(circuits) + 1, gid |-> Nothing, source |-> Bare(e[1]),
                                        dest |-> Bare(e[2]), status |-> "active"])
    BY <1>2 DEF CreateCircuit
  <2>2. e[1] \in Nat /\ e[2] \in Nat
    BY LinksAssumption
  <2>3. Bare(e[1]) \in NsiId /\ Bare(e[2]) \in NsiId
    BY <2>2 DEF Bare, NsiId, Form
  <2>4. Len(circuits) + 1 \in Nat \ {0}
    BY <1>1
  <2>5. [sub |-> Len(circuits) + 1, gid |-> Nothing, source |-> Bare(e[1]), dest |-> Bare(e[2]),
         status |-> "active"] \in CircuitSet
    BY <2>3, <2>4 DEF CircuitSet, Nothing
  <2>6. circuits' \in Seq(CircuitSet)
    BY <1>1, <2>1, <2>5, AppendProperties
  <2> QED BY <1>1, <1>2, <2>6 DEF SourcesInv, CreateCircuit
<1>3. CASE Reserve
  <2>1. PICK e \in Ends, gid \in {GidOf(circuits[i]) : i \in DOMAIN circuits} \cup {Nothing, Foreign},
             connection \in 1..MaxReservations[page] :
          reservations' = Append(reservations,
            [connection |-> connection, gid |-> gid, source |-> [local |-> e[1], form |-> "vlan"],
             dest |-> [local |-> e[2], form |-> "vlan"], lifecycle |-> "Created"])
    BY <1>3 DEF Reserve
  <2>2. gid \in Nat
    <3>1. \A i \in DOMAIN circuits : circuits[i] \in CircuitSet
      BY <1>1, SomeNumber
    <3>2. \A i \in DOMAIN circuits : GidOf(circuits[i]) \in Nat
      BY <3>1 DEF GidOf, CircuitSet
    <3> QED BY <3>2 DEF Nothing, Foreign
  <2>3. e[1] \in Nat /\ e[2] \in Nat
    BY LinksAssumption
  <2>4. [local |-> e[1], form |-> "vlan"] \in NsiId /\ [local |-> e[2], form |-> "vlan"] \in NsiId
    BY <2>3 DEF NsiId, Form
  <2>5. [connection |-> connection, gid |-> gid, source |-> [local |-> e[1], form |-> "vlan"],
         dest |-> [local |-> e[2], form |-> "vlan"], lifecycle |-> "Created"] \in ReservationSet
    BY <2>2, <2>4 DEF ReservationSet, Lifecycle
  <2>6. reservations' \in Seq(ReservationSet)
    BY <1>1, <2>1, <2>5, AppendProperties
  <2> QED BY <1>1, <1>3, <2>6 DEF SourcesInv, Reserve
<1>11. CASE Forget
  <2>1. reservations' \in Seq(ReservationSet)
    BY <1>1, <1>11, HeadTailProperties DEF Forget
  <2> QED BY <1>1, <1>11, <2>1 DEF SourcesInv, Forget
<1>12. ASSUME NEW i \in DOMAIN reservations, Lapse(i) PROVE SourcesInv' /\ Edited
  <2>1. PICK lifecycle \in LifeAfter(reservations[i].lifecycle) :
          reservations' = [reservations EXCEPT ![i] = [reservations[i] EXCEPT !.lifecycle = lifecycle]]
    BY <1>12 DEF Lapse
  <2>2. reservations[i] \in ReservationSet
    BY <1>1, SomeNumber
  <2>3. reservations[i].lifecycle \in Lifecycle
    BY <2>2 DEF ReservationSet
  <2>4. lifecycle \in Lifecycle
    BY <2>1, <2>3, LifeIsTyped
  <2>5. reservations' \in Seq(ReservationSet)
    BY <1>1, <2>1, <2>2, <2>4, ReservationLapsed, ReplacedIn
  <2> QED BY <1>1, <1>12, <2>5 DEF SourcesInv, Lapse
<1>4. CASE CreateStp
  <2>1. PICK id \in Stp : stps' = Append(stps, [sub |-> Len(stps) + 1, id |-> Bare(id), name |-> Nothing,
                                                status |-> "active"])
    BY <1>4 DEF CreateStp
  <2>2. Bare(id) \in [local : Nat \ {0}, form : Form]
    BY LinksAssumption DEF Bare, Form
  <2>3. Len(stps) + 1 \in Nat \ {0}
    BY <1>1
  <2>4. [sub |-> Len(stps) + 1, id |-> Bare(id), name |-> Nothing, status |-> "active"] \in StpSet
    BY <2>2, <2>3 DEF StpSet, Nothing
  <2>5. stps' \in Seq(StpSet)
    BY <1>1, <2>1, <2>4, AppendProperties
  <2> QED BY <1>1, <1>4, <2>5 DEF SourcesInv, CreateStp
<1>5. CASE Peer
  <2>1. PICK nsa \in Nsa, network \in Network :
          upas' = Append(upas, [nsa |-> nsa, networks |-> <<[local |-> network, form |-> "urn"]>>])
    BY <1>5 DEF Peer
  <2>2. nsa \in Nat \ {0} /\ [local |-> network, form |-> "urn"] \in NsiId
    BY LinksAssumption DEF NsiId, Form
  <2>3. <<[local |-> network, form |-> "urn"]>> \in Seq(NsiId)
    BY <2>2
  <2>4. [nsa |-> nsa, networks |-> <<[local |-> network, form |-> "urn"]>>] \in UpaSet
    BY <2>2, <2>3 DEF UpaSet
  <2>5. upas' \in Seq(UpaSet)
    BY <1>1, <2>1, <2>4, AppendProperties
  <2> QED BY <1>1, <1>5, <2>5 DEF SourcesInv, Peer
<1>6. CASE Unpeer
  <2>1. upas' \in Seq(UpaSet)
    BY <1>1, <1>6, HeadTailProperties DEF Unpeer
  <2> QED BY <1>1, <1>6, <2>1 DEF SourcesInv, Unpeer
<1>7. CASE Publish
  <2>1. PICK nsa \in Nsa, name \in Name : nsas' = Append(nsas, [nsa |-> nsa, name |-> name])
    BY <1>7 DEF Publish
  <2>2. [nsa |-> nsa, name |-> name] \in DocSet
    BY LinksAssumption DEF DocSet
  <2>3. nsas' \in Seq(DocSet)
    BY <1>1, <2>1, <2>2, AppendProperties
  <2> QED BY <1>1, <1>7, <2>3 DEF SourcesInv, Publish
<1>8. ASSUME NEW i \in DOMAIN circuits, TryCircuit(i) PROVE SourcesInv' /\ Edited
  <2>1. PICK try \in 1..MaxTries[page] : circuits' = [circuits EXCEPT ![i].gid = Gid(i, try)]
    BY <1>8 DEF TryCircuit
  <2>2. Gid(i, try) \in Nat
    BY <1>1 DEF Gid
  <2>3. circuits[i] \in CircuitSet
    BY <1>1, SomeNumber
  <2>4. circuits' = [circuits EXCEPT ![i] = [circuits[i] EXCEPT !.gid = Gid(i, try)]]
    BY <2>1
  <2>5. circuits' \in Seq(CircuitSet)
    BY <1>1, <2>2, <2>3, <2>4, CircuitTried, ReplacedIn
  <2> QED BY <1>1, <1>8, <2>5 DEF SourcesInv, TryCircuit
<1>9. ASSUME NEW i \in DOMAIN circuits, TerminateCircuit(i) PROVE SourcesInv' /\ Edited
  <2>1. circuits' = [circuits EXCEPT ![i] = [circuits[i] EXCEPT !.status = "terminated"]]
    BY <1>9 DEF TerminateCircuit
  <2>2. circuits[i] \in CircuitSet
    BY <1>1, SomeNumber
  <2>3. circuits' \in Seq(CircuitSet)
    BY <1>1, <2>1, <2>2, CircuitEnded, ReplacedIn
  <2> QED BY <1>1, <1>9, <2>3 DEF SourcesInv, TerminateCircuit
<1>10. ASSUME NEW i \in DOMAIN stps, TerminateStp(i) PROVE SourcesInv' /\ Edited
  <2>1. stps' = [stps EXCEPT ![i] = [stps[i] EXCEPT !.status = "terminated"]]
    BY <1>10 DEF TerminateStp
  <2>2. stps[i] \in StpSet
    BY <1>1, SomeNumber
  <2>3. stps' \in Seq(StpSet)
    BY <1>1, <2>1, <2>2, StpEnded, ReplacedIn
  <2> QED BY <1>1, <1>10, <2>3 DEF SourcesInv, TerminateStp
<1> QED BY <1>2, <1>3, <1>4, <1>5, <1>6, <1>7, <1>8, <1>9, <1>10, <1>11, <1>12

\* A request asks for every leg of its page and sees what there is.
LEMMA RequestKeeps ==
  ASSUME IInv, Request
  PROVE  IInv'
<1>1. /\ legs' = [s \in Source |-> IF s \in LegsOf[page] THEN Leg("pending", <<>>) ELSE Leg("idle", <<>>)]
      /\ view' = [state |-> "loading"]
      /\ seen' = [s \in Source |-> IF s \in LegsOf[page] THEN {Read(s)} ELSE {}]
      /\ UNCHANGED <<page, circuits, stps, reservations, upas, nsas>>
  BY DEF Request, world
<1>2. page \in DOMAIN LegsOf
  BY DEF IInv, ViewInv
<1>3. SourcesInv'
  BY <1>1 DEF IInv, SourcesInv
<1>4. \A s \in Source : Read(s)' = Read(s)
  BY <1>1 DEF Read
<1>5. Asking'
  BY <1>1 DEF Asking
<1>6. SeenInv'
  <2>1. \A s \in Source : \A list \in seen'[s] : ListOK(s, list)
    BY <1>1, ReadsAreLists DEF IInv
  <2>2. \A s \in LegsOf[page] : Read(s)' \in seen'[s]
    BY <1>1, <1>2, <1>4, PagesHaveLegs
  <2> QED BY <1>1, <2>1, <2>2 DEF SeenInv
<1>7. AnswersInv'
  BY <1>1, <1>5 DEF AnswersInv, Leg, Came, List
<1>8. ViewInv'
  BY <1>1, <1>2 DEF ViewInv
<1> QED BY <1>3, <1>6, <1>7, <1>8 DEF IInv

\* A leg ends, with what its source answers now or with nothing.
LEMMA LegKeeps ==
  ASSUME IInv, NEW s \in Source, Answer(s) \/ Fail(s)
  PROVE  IInv'
<1>1. /\ legs[s].state = "pending"
      /\ \/ \E list \in MayAnswer(s) : legs' = [legs EXCEPT ![s] = Leg("answered", list)]
         \/ legs' = [legs EXCEPT ![s] = Leg("failed", <<>>)]
      /\ UNCHANGED <<page, circuits, stps, reservations, upas, nsas, view, seen>>
  BY DEF Answer, Fail, world
<1>2. Asking /\ s \in LegsOf[page] /\ DOMAIN legs = Source
  BY <1>1 DEF IInv, AnswersInv, SeenInv
<1>3. \A list \in MayAnswer(s) : Answered(s, list)
  <2> TAKE list \in MayAnswer(s)
  <2>1. Read(s) \in seen[s]
    BY <1>2 DEF IInv, SeenInv
  <2>2. PartOf(list, Read(s)) /\ (Fits(s, Read(s)) => list = Read(s))
    <3>1. CASE s = "circuits"
      BY <3>1, PageIsPart DEF MayAnswer, PartOf, Fits
    <3>2. CASE s = "stps"
      BY <3>2, PageIsPart DEF MayAnswer, PartOf, Fits
    <3>3. CASE s \notin {"circuits", "stps"}
      BY <3>3 DEF MayAnswer, PartOf
    <3> QED BY <3>1, <3>2, <3>3
  <2> QED BY <2>1, <2>2 DEF Answered
<1>4. SourcesInv'
  BY <1>1 DEF IInv, SourcesInv
<1>5. \A q \in Source : Read(q)' = Read(q)
  BY <1>1 DEF Read
<1>6. SeenInv'
  <2>1. page \in DOMAIN LegsOf
    BY DEF IInv, ViewInv
  <2> QED BY <1>1, <1>5, <2>1, PagesHaveLegs DEF IInv, SeenInv, Asking
<1>7. AnswersInv'
  <2> SUFFICES ASSUME NEW q \in Source
               PROVE  /\ legs'[q].state \in {"idle", "pending", "answered", "failed"}
                      /\ legs'[q].state = "pending" => Asking
                      /\ legs'[q].state # "idle" => q \in LegsOf[page]
                      /\ Asking /\ q \in LegsOf[page] => legs'[q].state # "idle"
                      /\ IF legs'[q].state = "answered" THEN Answered(q, legs'[q].list) ELSE legs'[q].list = <<>>
    BY <1>1 DEF AnswersInv, Came, List, Asking, Answered
  <2>1. CASE q = s
    BY <1>1, <1>2, <1>3, <2>1 DEF Leg
  <2>2. CASE q # s
    <3>1. legs'[q] = legs[q]
      BY <1>1, <1>2, <2>2
    <3> QED BY <3>1 DEF IInv, AnswersInv, Came, List
  <2> QED BY <2>1, <2>2
<1>8. ViewInv'
  BY <1>1, <1>2 DEF IInv, ViewInv, Asking
<1> QED BY <1>4, <1>6, <1>7, <1>8 DEF IInv

\* A page is composed of its answers.
LEMMA ComposeKeeps ==
  ASSUME IInv, Compose
  PROVE  IInv'
<1>1. /\ Asking /\ \A s \in Source : legs[s].state # "pending"
      /\ IF page = "provider"
         THEN \E tab \in ReservationTabs : view' = ProviderPage(tab)
         ELSE view' = StpPage
      /\ UNCHANGED <<page, circuits, stps, reservations, upas, nsas, legs, seen>>
  BY DEF Compose, world
<1>2. page \in DOMAIN LegsOf
  BY DEF IInv, ViewInv
<1>3. view'.state \in {"unavailable", "not_found", "provider", "stp"}
  BY <1>1 DEF ProviderPage, StpPage
<1>4. ~Asking'
  BY <1>3 DEF Asking
<1>5. SourcesInv' /\ SeenInv'
  BY <1>1, <1>4 DEF IInv, SourcesInv, SeenInv
<1>6. AnswersInv'
  BY <1>1, <1>4 DEF IInv, AnswersInv, Came, List, Answered
<1>7. ViewInv'
  <2>1. ASSUME view'.state = "provider"
        PROVE  /\ view'.tab \in ReservationTabs
               /\ view'.rows = LinkReservations(OnTab(List("reservations"), view'.tab),
                                              List("circuits"), List("stps"))
               /\ Came("reservations")
    <3>1. page = "provider"
      BY <1>1, <2>1 DEF StpPage
    <3>2. PICK tab \in ReservationTabs : view' = ProviderPage(tab)
      BY <1>1, <3>1
    <3>3. legs["reservations"].state # "failed" /\ view' = [state |-> "provider", tab |-> tab,
            rows |-> LinkReservations(OnTab(List("reservations"), tab), List("circuits"), List("stps"))]
      BY <2>1, <3>2 DEF ProviderPage
    <3>4. "reservations" \in Source /\ "reservations" \in LegsOf[page]
      BY <3>1 DEF Source, LegsOf
    <3>5. Came("reservations")
      BY <1>1, <3>3, <3>4 DEF IInv, AnswersInv, Came
    <3> QED BY <3>3, <3>5
  <2>2. ASSUME view'.state = "stp"
        PROVE  view' = StpView(view'.id)
    BY <1>1, <2>2 DEF ProviderPage, StpPage, StpView
  <2>3. Came("circuits") \/ legs["circuits"].state = "failed"
    BY <1>1, <1>2, PagesHaveLegs DEF IInv, AnswersInv, Came
  <2> QED BY <1>1, <1>2, <2>1, <2>2, <2>3 DEF ViewInv, StpView, List, Came
<1> QED BY <1>5, <1>6, <1>7 DEF IInv

\* The invariant, always.
LEMMA IInvAlways == Spec => []IInv
<1>1. ASSUME IInv, [Next]_vars PROVE IInv'
  <2>1. CASE UNCHANGED vars
    BY <1>1, <2>1 DEF vars, world, IInv, SourcesInv, SeenInv, AnswersInv, ViewInv, StpView, Read, Asking, Came, List, Answered
  <2>2. CASE Next
    BY <1>1, <2>2, EditsKeep, EditedKeeps, RequestKeeps, LegKeeps, ComposeKeeps DEF Next
  <2> QED BY <1>1, <2>1, <2>2
<1> QED BY <1>1, IInvInit, PTL DEF Spec

-----------------------------------------------------------------------------
\* What the pages show.

\* Some places of a numbered list are one.
LEMMA PartIsNumbered ==
  ASSUME NEW list, NEW part, PartOf(part, list)
  PROVE  /\ CircuitsOK(list) => CircuitsOK(part)
         /\ StpsOK(list) => StpsOK(part)
         /\ ProvidersOK(list) => ProvidersOK(part)
         /\ ReservationsOK(list) => ReservationsOK(part)
BY DEF PartOf, CircuitsOK, StpsOK, ProvidersOK, ReservationsOK, Numbered

\* Every list a page is composed of has numbered items, each of which was seen, and is
\* one that was seen if what was to be answered always fitted.
LEMMA ListsSeen ==
  ASSUME IInv
  PROVE  /\ CircuitsOK(List("circuits")) /\ StpsOK(List("stps")) /\ ProvidersOK(List("providers"))
         /\ ReservationsOK(List("reservations"))
         /\ \A s \in Source :
              /\ Came(s) /\ Whole(s) => List(s) \in seen[s]
              /\ \A i \in DOMAIN List(s) :
                   \E list \in seen[s] : i \in DOMAIN list /\ list[i] = List(s)[i]
         /\ Whole("reservations") /\ Whole("providers")
<1>1. \A s \in Source : IF Came(s) THEN Answered(s, List(s)) ELSE List(s) = <<>>
  BY DEF IInv, AnswersInv
<1>2. CircuitsOK(<<>>) /\ StpsOK(<<>>) /\ ProvidersOK(<<>>) /\ ReservationsOK(<<>>)
  BY DEF CircuitsOK, StpsOK, ProvidersOK, ReservationsOK, Numbered
<1>3. \A s \in Source : \A list \in seen[s] : ListOK(s, list)
  BY DEF IInv, SeenInv
<1>4. ASSUME NEW s \in Source PROVE ListOK(s, List(s))
  <2>1. CASE Came(s)
    <3>1. PICK list \in seen[s] : PartOf(List(s), list)
      BY <1>1, <2>1 DEF Answered
    <3>2. ListOK(s, list)
      BY <1>3, <3>1
    <3> QED BY <3>1, <3>2, PartIsNumbered, PagesHaveLegs DEF ListOK
  <2>2. CASE ~Came(s)
    BY <1>1, <1>2, <2>2, PagesHaveLegs DEF ListOK
  <2> QED BY <2>1, <2>2
<1>5. \A s \in Source : Came(s) /\ Whole(s) => List(s) \in seen[s]
  BY <1>1 DEF Answered, Whole
<1>6. \A s \in Source : \A i \in DOMAIN List(s) :
        \E list \in seen[s] : i \in DOMAIN list /\ list[i] = List(s)[i]
  BY <1>1 DEF Answered, PartOf
<1>7. Whole("reservations") /\ Whole("providers")
  BY DEF Whole, Fits
<1> QED BY <1>4, <1>5, <1>6, <1>7, PagesHaveLegs DEF ListOK

\* The circuit of a reservation is one that was seen.
LEMMA IInvReservations == IInv => ReservationsLinkTheirCircuit
<1> SUFFICES ASSUME IInv, view.state = "provider", NEW row \in view.rows
             PROVE  /\ row.circuit # Nothing =>
                         /\ row.gid # Nothing
                         /\ \E list \in seen["circuits"] : \E i \in DOMAIN list :
                              list[i].sub = row.circuit /\ list[i].gid = row.gid
                    /\ (/\ row.gid # Nothing /\ Came("circuits")
                        /\ \/ /\ Whole("circuits")
                              /\ \A list \in seen["circuits"] : \E i \in DOMAIN list : list[i].gid = row.gid
                           \/ \E i \in DOMAIN List("circuits") : List("circuits")[i].gid = row.gid)
                       => row.circuit # Nothing
  BY DEF ReservationsLinkTheirCircuit, Ever, Always, Certain
<1> DEFINE list == List("circuits")
<1>1. row.circuit = CircuitOf(list, row.gid)
  BY DEF IInv, ViewInv, LinkReservations
<1>2. /\ CircuitsOK(list)
      /\ Came("circuits") /\ Whole("circuits") => list \in seen["circuits"]
      /\ \A i \in DOMAIN list : \E was \in seen["circuits"] : i \in DOMAIN was /\ was[i] = list[i]
  BY ListsSeen, PagesHaveLegs
<1> HIDE DEF list
<1>3. /\ row.circuit # Nothing =>
           row.gid # Nothing /\ \E i \in DOMAIN list : list[i].sub = row.circuit /\ list[i].gid = row.gid
      /\ row.gid # Nothing /\ (\E i \in DOMAIN list : list[i].gid = row.gid) => row.circuit # Nothing
  BY <1>1, <1>2, CircuitOfRight
<1> QED BY <1>2, <1>3 DEF list

\* A tab shows the reservations of the list that are on it.
LEMMA TabRows ==
  ASSUME NEW all, NEW tab, NEW cs, NEW ts, NEW rows, rows = LinkReservations(OnTab(all, tab), cs, ts)
  PROVE  /\ \A row \in rows :
              \E i \in DOMAIN all : row.connection = all[i].connection
         /\ \A i \in DOMAIN all : (tab = "all" \/ ReservationTab(all[i]) = tab) =>
              \E row \in rows : row.connection = all[i].connection
<1> DEFINE on == {j \in DOMAIN all : tab = "all" \/ ReservationTab(all[j]) = tab}
           row(i) == [connection |-> all[i].connection, gid |-> all[i].gid,
                      source |-> all[i].source, dest |-> all[i].dest,
                      circuit |-> CircuitOf(cs, all[i].gid),
                      sourceSub |-> SubscriptionOf(ts, all[i].source),
                      destSub |-> SubscriptionOf(ts, all[i].dest)]
<1>1. DOMAIN OnTab(all, tab) = on /\ \A i \in on : OnTab(all, tab)[i] = all[i]
  BY DEF OnTab, RestrictValues, Restrict
<1>2. rows = {row(i) : i \in on}
  BY <1>1 DEF LinkReservations
<1>3. \A i : row(i).connection = all[i].connection
  OBVIOUS
<1> HIDE DEF row
<1> QED BY <1>2, <1>3

\* A reservation that is on neither of two tabs has failed.
LEMMA IInvTabs == IInv => ReservationsOnTheirTabs
<1> SUFFICES ASSUME IInv, view.state = "provider"
             PROVE  LET shown == {row.connection : row \in view.rows}
                        was(connection, states) == \E list \in seen["reservations"] : \E i \in DOMAIN list :
                          list[i].connection = connection /\ list[i].lifecycle \in states
                    IN /\ \A connection \in shown :
                            \E list \in seen["reservations"] : \E i \in DOMAIN list : list[i].connection = connection
                       /\ \A connection \in 1..MaxReservations[page] \ shown :
                            (\A list \in seen["reservations"] : \E i \in DOMAIN list :
                               list[i].connection = connection) =>
                              \/ view.tab = "active" /\ was(connection, {"Terminating", "Terminated", "Failed"})
                              \/ view.tab = "terminated" /\ was(connection, {"Created", "Failed"})
  BY DEF ReservationsOnTheirTabs, Ever, Always
<1> DEFINE list == List("reservations")
           shown == {row.connection : row \in view.rows}
<1>1. /\ view.tab \in ReservationTabs /\ Came("reservations")
      /\ view.rows = LinkReservations(OnTab(list, view.tab), List("circuits"), List("stps"))
  BY DEF IInv, ViewInv
<1>2. /\ \A connection \in shown : \E i \in DOMAIN list : list[i].connection = connection
      /\ \A i \in DOMAIN list : (view.tab = "all" \/ ReservationTab(list[i]) = view.tab) =>
           list[i].connection \in shown
  <2> HIDE DEF list
  <2>1. view.rows = LinkReservations(OnTab(list, view.tab), List("circuits"), List("stps"))
    BY <1>1
  <2>2. /\ \A row \in view.rows : \E i \in DOMAIN list : row.connection = list[i].connection
        /\ \A i \in DOMAIN list : (view.tab = "all" \/ ReservationTab(list[i]) = view.tab) =>
             \E row \in view.rows : row.connection = list[i].connection
    BY <2>1, TabRows
  <2> QED BY <2>2
<1>3. list \in seen["reservations"]
  BY <1>1, ListsSeen, PagesHaveLegs
<1>4. \A i \in DOMAIN list : list[i].lifecycle \in Lifecycle
  BY ListsSeen DEF ReservationsOK, Numbered
<1> HIDE DEF list, shown
<1>5. ASSUME NEW i \in DOMAIN list, list[i].connection \notin shown
      PROVE  \/ view.tab = "active" /\ list[i].lifecycle \in {"Terminating", "Terminated", "Failed"}
             \/ view.tab = "terminated" /\ list[i].lifecycle \in {"Created", "Failed"}
  <2>1. view.tab # "all" /\ ReservationTab(list[i]) # view.tab
    BY <1>2, <1>5
  <2> QED BY <1>1, <1>4, <2>1 DEF ReservationTab, ReservationTabs, Lifecycle
<1> QED BY <1>2, <1>3, <1>5 DEF shown

\* The subscription of an end likewise.
LEMMA IInvEnds == IInv => EndsLinkTheirStp
<1> SUFFICES ASSUME IInv, view.state = "provider", NEW row \in view.rows,
                    NEW end \in {<<row.source, row.sourceSub>>, <<row.dest, row.destSub>>}
             PROVE  /\ end[2] # Nothing =>
                         \E list \in seen["stps"] : \E i \in DOMAIN list :
                           list[i].sub = end[2] /\ list[i].id.local = end[1].local
                    /\ (/\ Came("stps")
                        /\ \/ /\ Whole("stps")
                              /\ \A list \in seen["stps"] : \E i \in DOMAIN list : list[i].id.local = end[1].local
                           \/ \E i \in DOMAIN List("stps") : List("stps")[i].id.local = end[1].local)
                       => end[2] # Nothing
  BY DEF EndsLinkTheirStp, Ever, Always, Certain
<1> DEFINE list == List("stps")
<1>1. row.sourceSub = SubscriptionOf(list, row.source) /\ row.destSub = SubscriptionOf(list, row.dest)
  BY DEF IInv, ViewInv, LinkReservations
<1>2. end[2] = SubscriptionOf(list, end[1])
  BY <1>1
<1>3. /\ StpsOK(list)
      /\ Came("stps") /\ Whole("stps") => list \in seen["stps"]
      /\ \A i \in DOMAIN list : \E was \in seen["stps"] : i \in DOMAIN was /\ was[i] = list[i]
  BY ListsSeen, PagesHaveLegs
<1> HIDE DEF list
<1>4. /\ end[2] # Nothing => \E i \in DOMAIN list : list[i].sub = end[2] /\ list[i].id.local = end[1].local
      /\ (\E i \in DOMAIN list : list[i].id.local = end[1].local) => end[2] # Nothing
  BY <1>2, <1>3, SubscriptionOfRight
<1> QED BY <1>3, <1>4 DEF list

\* The circuits of an STP page are those of the list it was answered.
LEMMA IInvCircuits == IInv => CircuitsOfTheStp
<1> DEFINE on(c) == c.status # "terminated" /\ view.id.local \in {c.source.local, c.dest.local}
<1> SUFFICES ASSUME IInv, view.state = "stp"
             PROVE  IF Came("circuits")
                    THEN \A sub \in 1..MaxCircuits[page] :
                           /\ sub \in view.circuits =>
                                \E list \in seen["circuits"] : \E i \in DOMAIN list : list[i].sub = sub /\ on(list[i])
                           /\ (\/ /\ Whole("circuits")
                                  /\ \A list \in seen["circuits"] :
                                       \E i \in DOMAIN list : list[i].sub = sub /\ on(list[i])
                               \/ \E i \in DOMAIN List("circuits") :
                                    List("circuits")[i].sub = sub /\ on(List("circuits")[i]))
                              => sub \in view.circuits
                    ELSE view.circuits = {Nothing}
  BY DEF CircuitsOfTheStp, Ever, Always, Certain
<1> DEFINE list == List("circuits")
<1>1. view = StpView(view.id) /\ (Came("circuits") \/ legs["circuits"].state = "failed")
  BY DEF IInv, ViewInv
<1>2. view.circuits = IF legs["circuits"].state = "failed" THEN {Nothing} ELSE CircuitsOnStp(list, view.id)
  BY <1>1 DEF StpView
<1>3. CircuitsOnStp(list, view.id) = {list[i].sub : i \in {j \in DOMAIN list : on(list[j])}}
  BY DEF CircuitsOnStp, NormalizeId
<1>4. /\ Came("circuits") => legs["circuits"].state # "failed"
      /\ Came("circuits") /\ Whole("circuits") => list \in seen["circuits"]
      /\ \A i \in DOMAIN list : \E was \in seen["circuits"] : i \in DOMAIN was /\ was[i] = list[i]
  BY ListsSeen, PagesHaveLegs DEF Came
<1> HIDE DEF list, on
<1> QED BY <1>1, <1>2, <1>3, <1>4 DEF list

\* The provider of an STP page is in the list it was answered.
LEMMA IInvProvider == IInv => ProviderServesTheNetwork
<1> SUFFICES ASSUME IInv, view.state = "stp"
             PROVE  /\ view.provider # Nothing =>
                         \E list \in seen["providers"] : \E i \in DOMAIN list :
                           /\ list[i].nsa = view.provider
                           /\ \E k \in DOMAIN list[i].networks : list[i].networks[k].local = NetworkOf[view.id.local]
                    /\ (/\ Came("providers")
                        /\ \/ \A list \in seen["providers"] : \E i \in DOMAIN list :
                                \E k \in DOMAIN list[i].networks :
                                  list[i].networks[k].local = NetworkOf[view.id.local]
                           \/ \E i \in DOMAIN List("providers") :
                                \E k \in DOMAIN List("providers")[i].networks :
                                  List("providers")[i].networks[k].local = NetworkOf[view.id.local])
                       => view.provider # Nothing
  BY DEF ProviderServesTheNetwork, Ever, Always, Certain
<1> DEFINE list == List("providers")
           network == NetworkOf[view.id.local]
<1>1. view = StpView(view.id)
  BY DEF IInv, ViewInv
<1>2. view.provider = ProviderOf(list, network)
  BY <1>1 DEF StpView, NormalizeId
<1>3. \A p : Serves(p, network) <=> \E k \in DOMAIN p.networks : p.networks[k].local = network
  BY DEF Serves, NormalizeId
<1>4. /\ ProvidersOK(list)
      /\ Came("providers") => list \in seen["providers"]
      /\ \A i \in DOMAIN list : \E was \in seen["providers"] : i \in DOMAIN was /\ was[i] = list[i]
  BY ListsSeen, PagesHaveLegs
<1> HIDE DEF list, network
<1>5. /\ view.provider # Nothing =>
           \E i \in DOMAIN list : list[i].nsa = view.provider /\ Serves(list[i], network)
      /\ (\E i \in DOMAIN list : Serves(list[i], network)) => view.provider # Nothing
  BY <1>2, <1>4, ProviderOfRight
<1> QED BY <1>3, <1>4, <1>5 DEF network, list

-----------------------------------------------------------------------------
\* A reservation links to a circuit of its global reservation id, and does link
\* when there was one all the while and the circuits never exceeded the limit of
\* their query, or when one of that id came: link_reservations, for any lists.
THEOREM ReservationsLinked == Spec => []ReservationsLinkTheirCircuit
BY IInvAlways, IInvReservations, PTL

\* The tabs of a provider's reservations: one the uPA held all the while is missing
\* from a tab only if that tab was not its own at some moment of the request.
THEOREM TabsComplete == Spec => []ReservationsOnTheirTabs
BY IInvAlways, IInvTabs, PTL

\* The ends of a reservation link to subscriptions of their STPs, whatever form
\* the ids are written in, and to one if any came or, when all STPs fit the answer,
\* if there was one all the while.
THEOREM EndsLinked == Spec => []EndsLinkTheirStp
BY IInvAlways, IInvEnds, PTL

\* The page of an STP lists the circuits on it: those that came and, when the query's
\* limit cuts none off, all that were on it all the while; a failed fetch is no list.
THEOREM CircuitsListed == Spec => []CircuitsOfTheStp
BY IInvAlways, IInvCircuits, PTL

\* An STP links to a provider of its network, if there is one: of several the
\* last by name, which exists in any list.
THEOREM ProviderLinked == Spec => []ProviderServesTheNetwork
BY IInvAlways, IInvProvider, PTL
=============================================================================
