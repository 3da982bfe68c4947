--------------------------- MODULE DashboardProofs --------------------------
(***************************************************************************)
(* Proofs about Dashboard: an invariant of the lists and of the page, the  *)
(* page of a circuit, and what the cards count.                            *)
(***************************************************************************)
EXTENDS Dashboard, RowsProofs

-----------------------------------------------------------------------------
\* What is right of a list, and stays right of a part of it.
Reservation == [connection : Nat, segments : Seq(Segment)]
SdpSub == [sub : Nat, stps : Seq(StpMember)]
AggOK(list) == \A i \in DOMAIN list : list[i] \in Reservation /\ list[i].connection = i
SdpsOK(list) == \A i \in DOMAIN list : list[i] \in SdpSub /\ list[i].sub = i
StpsOK(list) == \A i \in DOMAIN list : list[i].sub # Nothing /\ list[i].id.local # Nothing
Right(s, list) ==
  /\ \E n \in Nat : DOMAIN list \subseteq 1..n
  /\ s = "circuits" => CircuitsOK(list)
  /\ s = "agg" => AggOK(list)
  /\ s = "sdp" => SdpsOK(list)
  /\ s = "stp" => StpsOK(list)

HeldInv ==
  /\ DOMAIN held = Source
  /\ \A s \in Source : Right(s, held[s])
  /\ held["circuits"] \in Seq(Circuit) /\ held["agg"] \in Seq(Reservation) /\ held["sdp"] \in Seq(SdpSub)
LegsInv ==
  /\ DOMAIN legs = Source
  /\ \A s \in Source : Right(s, legs[s].list)
ViewInv ==
  /\ view.state = "home" => view = Home
  /\ view.state = "circuit" => view = CircuitDetail

IInv == HeldInv /\ LegsInv /\ ViewInv

\* The six sources.
LEMMA SourcesAre == Source = {"circuits", "agg", "sdp", "dds_sdps", "stp"}
<1>1. DOMAIN LegsOf = {"home", "circuit"}
  BY DEF LegsOf
<1>2. /\ LegsOf["home"] = {"circuits", "agg", "sdp", "dds_sdps"}
      /\ LegsOf["circuit"] = {"circuits", "agg", "sdp", "stp"}
  BY DEF LegsOf
<1>3. Source = LegsOf["home"] \cup LegsOf["circuit"]
  BY <1>1 DEF Source
<1> QED BY <1>2, <1>3

\* An empty list is right.
LEMMA EmptyRight == \A s : Right(s, <<>>)
<1>1. DOMAIN <<>> \subseteq 1..0 /\ 0 \in Nat /\ DOMAIN <<>> = {}
  OBVIOUS
<1> QED BY <1>1 DEF Right, CircuitsOK, AggOK, SdpsOK, StpsOK

\* Part of a right list is right.
LEMMA PartRight ==
  ASSUME NEW s, NEW list, Right(s, list), NEW some \in SUBSET DOMAIN list
  PROVE  Right(s, Restrict(list, some))
<1> DEFINE part == Restrict(list, some)
<1>1. DOMAIN part = some /\ \A i \in some : part[i] = list[i]
  BY DEF Restrict
<1> HIDE DEF part
<1>2. \E n \in Nat : DOMAIN part \subseteq 1..n
  BY <1>1 DEF Right
<1>3. /\ CircuitsOK(list) => CircuitsOK(part)
      /\ AggOK(list) => AggOK(part)
      /\ SdpsOK(list) => SdpsOK(part)
      /\ StpsOK(list) => StpsOK(part)
  BY <1>1 DEF CircuitsOK, AggOK, SdpsOK, StpsOK
<1> QED BY <1>2, <1>3 DEF Right, part

\* A sequence has its places.
LEMMA SeqPlaces ==
  ASSUME NEW T, NEW list \in Seq(T)
  PROVE  \E n \in Nat : DOMAIN list \subseteq 1..n
BY DOMAIN list = 1..Len(list), Len(list) \in Nat

\* It holds at first.
LEMMA IInvInit == Init => IInv
<1> SUFFICES ASSUME Init PROVE IInv
  OBVIOUS
<1>1. /\ held["circuits"] = History /\ held["agg"] = <<>> /\ held["sdp"] = <<>>
      /\ DOMAIN held = Source /\ \A s \in Source : s # "circuits" => held[s] = <<>>
  BY SourcesAre DEF Init
<1>2. Right("circuits", History)
  BY SeqPlaces, DashboardAssumption DEF Right
<1>3. HeldInv
  BY <1>1, <1>2, EmptyRight, DashboardAssumption DEF HeldInv
<1>4. LegsInv
  BY EmptyRight DEF Init, LegsInv, NoAnswers, Pending
<1>5. ViewInv
  BY DEF Init, ViewInv, Blank
<1> QED BY <1>3, <1>4, <1>5 DEF IInv

\* A change of one source to a right list.
LEMMA EditKeeps ==
  ASSUME IInv, NEW s, NEW list, Edit(s, list), Right(s, list),
         s = "circuits" => list \in Seq(Circuit),
         s = "agg" => list \in Seq(Reservation),
         s = "sdp" => list \in Seq(SdpSub)
  PROVE  IInv'
<1>1. held' = [held EXCEPT ![s] = list]
  BY DEF Edit
<1>2. HeldInv'
  <2>1. /\ DOMAIN held' = Source
        /\ \A t \in Source : held'[t] = IF t = s THEN list ELSE held[t]
    BY <1>1 DEF IInv, HeldInv
  <2>2. \A t \in Source : Right(t, held'[t])
    BY <2>1 DEF IInv, HeldInv
  <2>3. /\ held'["circuits"] \in Seq(Circuit) /\ held'["agg"] \in Seq(Reservation)
        /\ held'["sdp"] \in Seq(SdpSub)
    BY <2>1, SourcesAre DEF IInv, HeldInv
  <2> QED BY <2>1, <2>2, <2>3 DEF HeldInv
<1>3. CASE Asking
  <2>1. UNCHANGED <<legs, view>> /\ view.state = "loading"
    BY <1>3 DEF Edit, Asking
  <2>2. LegsInv' /\ ViewInv'
    BY <2>1 DEF IInv, LegsInv, ViewInv
  <2> QED BY <1>2, <2>2 DEF IInv
<1>4. CASE ~Asking
  <2>1. legs' = NoAnswers /\ view' = Blank
    BY <1>4 DEF Edit
  <2>2. LegsInv' /\ ViewInv'
    BY <2>1, EmptyRight DEF LegsInv, ViewInv, NoAnswers, Pending, Blank
  <2> QED BY <1>2, <2>2 DEF IInv
<1> QED BY <1>3, <1>4


\* One item more, of the next number.
LEMMA AppendRight ==
  ASSUME NEW T, NEW list \in Seq(T), NEW new \in T
  PROVE  LET more == Append(list, new) IN
         /\ more \in Seq(T) /\ Len(list) \in Nat
         /\ DOMAIN more = 1..(Len(list) + 1) /\ DOMAIN list = 1..Len(list)
         /\ more[Len(list) + 1] = new /\ \A i \in 1..Len(list) : more[i] = list[i]
OBVIOUS

\* One item replaced.
LEMMA ExceptRight ==
  ASSUME NEW T, NEW list \in Seq(T), NEW k \in DOMAIN list, NEW new \in T
  PROVE  LET other == [list EXCEPT ![k] = new] IN
         /\ other \in Seq(T)
         /\ DOMAIN other = DOMAIN list
         /\ \A i \in DOMAIN list : other[i] = IF i = k THEN new ELSE list[i]
<1> DEFINE other == [list EXCEPT ![k] = new]
<1>1. Len(list) \in Nat /\ DOMAIN list = 1..Len(list)
  OBVIOUS
<1>2. other \in [1..Len(list) -> T]
  BY <1>1
<1>3. other \in Seq(T)
  BY <1>1, <1>2
<1> QED BY <1>3

\* The circuits, with one replaced that keeps its number and takes no other's connection.
LEMMA CircuitReplaced ==
  ASSUME NEW list \in Seq(Circuit), CircuitsOK(list), NEW k \in DOMAIN list, NEW new \in Circuit,
         new.sub = list[k].sub,
         \A j \in DOMAIN list : j # k => list[j].connection # new.connection \/ new.connection = Nothing
  PROVE  LET other == [list EXCEPT ![k] = new] IN
         other \in Seq(Circuit) /\ Right("circuits", other)
<1> DEFINE other == [list EXCEPT ![k] = new]
<1>1. /\ other \in Seq(Circuit) /\ DOMAIN other = DOMAIN list
      /\ \A i \in DOMAIN list : other[i] = IF i = k THEN new ELSE list[i]
  BY ExceptRight
<1> HIDE DEF other
<1>2. \A i \in DOMAIN other : other[i] \in Circuit /\ other[i].sub = i
  BY <1>1 DEF CircuitsOK
<1>3. \A i, j \in DOMAIN other :
        other[i].connection = other[j].connection /\ other[i].connection # Nothing => i = j
  <2> TAKE i, j \in DOMAIN other
  <2> HAVE other[i].connection = other[j].connection /\ other[i].connection # Nothing
  <2>1. CASE i # k /\ j # k
    BY <1>1, <2>1 DEF CircuitsOK
  <2>2. CASE i = k \/ j = k
    BY <1>1, <2>2
  <2> QED BY <2>1, <2>2
<1>4. Right("circuits", other)
  BY <1>1, <1>2, <1>3, SeqPlaces DEF Right, CircuitsOK
<1> QED BY <1>1, <1>4 DEF other

\* Every change of a source keeps the invariant.
LEMMA CircuitsKeep ==
  ASSUME IInv,
         \/ CreateCircuit
         \/ \E i \in DOMAIN held["circuits"] :
              \/ \E state \in State : Progress(i, state)
              \/ \E connection \in 1..Len(held["agg"]) : Connect(i, connection)
  PROVE  IInv'
<1> DEFINE list == held["circuits"]
<1>1. list \in Seq(Circuit) /\ CircuitsOK(list) /\ Len(list) \in Nat /\ DOMAIN list = 1..Len(list)
  BY SourcesAre DEF IInv, HeldInv, Right
<1>2. CASE CreateCircuit
  <2> DEFINE new == [sub |-> Len(list) + 1, connection |-> Nothing, bandwidth |-> 1, state |-> "RESERVED"]
             more == Append(list, new)
  <2>1. new \in Circuit /\ new.sub = Len(list) + 1 /\ new.connection = Nothing
    BY <1>1 DEF Circuit, State, Nothing
  <2>2. Edit("circuits", more)
    BY <1>2 DEF CreateCircuit
  <2> HIDE DEF new, list
  <2>3. /\ more \in Seq(Circuit) /\ DOMAIN more = 1..(Len(list) + 1)
        /\ more[Len(list) + 1] = new /\ \A i \in 1..Len(list) : more[i] = list[i]
    BY <1>1, <2>1, AppendRight
  <2> HIDE DEF more
  <2>4. \A i \in DOMAIN more : i \in 1..Len(list) \/ i = Len(list) + 1
    BY <1>1, <2>3
  <2>5. \A i \in DOMAIN more : more[i] \in Circuit /\ more[i].sub = i
    BY <1>1, <2>1, <2>3, <2>4 DEF CircuitsOK
  <2>6. \A i, j \in DOMAIN more :
          more[i].connection = more[j].connection /\ more[i].connection # Nothing => i = j
    BY <1>1, <2>1, <2>3, <2>4 DEF CircuitsOK
  <2>7. Right("circuits", more)
    BY <2>3, <2>5, <2>6, SeqPlaces DEF Right, CircuitsOK
  <2> QED BY <2>2, <2>3, <2>7, EditKeeps
<1>3. ASSUME NEW i \in DOMAIN held["circuits"], NEW state \in State, Progress(i, state)
      PROVE  IInv'
  <2> DEFINE new == [list[i] EXCEPT !.state = state]
             other == [list EXCEPT ![i] = new]
  <2>1. list[i] \in Circuit
    BY <1>1 DEF CircuitsOK
  <2>2. new \in Circuit /\ new.sub = list[i].sub /\ new.connection = list[i].connection
    BY <2>1 DEF Circuit
  <2>3. Edit("circuits", other)
    BY <1>3 DEF Progress
  <2>4. \A j \in DOMAIN list : j # i => list[j].connection # list[i].connection \/ list[i].connection = Nothing
    BY <1>1 DEF CircuitsOK
  <2> HIDE DEF new, list
  <2>5. i \in DOMAIN list
    BY DEF list
  <2>6. other \in Seq(Circuit) /\ Right("circuits", other)
    BY <1>1, <2>2, <2>4, <2>5, CircuitReplaced
  <2> HIDE DEF other
  <2> QED BY <2>3, <2>6, EditKeeps
<1>4. ASSUME NEW i \in DOMAIN held["circuits"], NEW connection \in 1..Len(held["agg"]), Connect(i, connection)
      PROVE  IInv'
  <2> DEFINE new == [list[i] EXCEPT !.connection = connection]
             other == [list EXCEPT ![i] = new]
  <2>1. list[i] \in Circuit
    BY <1>1 DEF CircuitsOK
  <2>2. connection \in Nat
    OBVIOUS
  <2>3. new \in Circuit /\ new.sub = list[i].sub /\ new.connection = connection
    BY <2>1, <2>2 DEF Circuit
  <2>4. Edit("circuits", other)
    BY <1>4 DEF Connect
  <2>5. \A j \in DOMAIN list : list[j].connection < connection /\ list[j].connection \in Nat
    BY <1>1, <1>4 DEF Connect, CircuitsOK, Circuit
  <2>6. \A j \in DOMAIN list : list[j].connection # connection
    BY <2>2, <2>5
  <2> HIDE DEF new, list
  <2>7. i \in DOMAIN list
    BY DEF list
  <2>8. other \in Seq(Circuit) /\ Right("circuits", other)
    BY <1>1, <2>3, <2>6, <2>7, CircuitReplaced
  <2> HIDE DEF other
  <2> QED BY <2>4, <2>8, EditKeeps
<1> QED BY <1>2, <1>3, <1>4

\* The same of the other sources.
LEMMA OthersKeep ==
  ASSUME IInv,
         \/ \E path \in Path : Reserve(path)
         \/ \E stps \in SdpStps : CreateSdp(stps)
         \/ \E document \in Document : Advertise(document)
         \/ Withdraw
         \/ \E sub \in StpSub : CreateStp(sub)
         \/ TerminateStp
  PROVE  IInv'
<1>1. ASSUME NEW path \in Path, Reserve(path) PROVE IInv'
  <2> DEFINE list == held["agg"]
             new == [connection |-> Len(list) + 1, segments |-> path]
             more == Append(list, new)
  <2>1. list \in Seq(Reservation) /\ AggOK(list) /\ Len(list) \in Nat
    BY SourcesAre DEF IInv, HeldInv, Right
  <2>2. new \in Reservation /\ new.connection = Len(list) + 1
    BY <2>1, DashboardAssumption DEF Reservation
  <2>3. Edit("agg", more)
    BY <1>1 DEF Reserve
  <2> HIDE DEF list, new
  <2>4. /\ more \in Seq(Reservation) /\ DOMAIN more = 1..(Len(list) + 1) /\ DOMAIN list = 1..Len(list)
        /\ more[Len(list) + 1] = new /\ \A i \in 1..Len(list) : more[i] = list[i]
    BY <2>1, <2>2, AppendRight
  <2> HIDE DEF more
  <2>5. \A i \in DOMAIN more : i \in 1..Len(list) \/ i = Len(list) + 1
    BY <2>1, <2>4
  <2>6. Right("agg", more)
    BY <2>1, <2>2, <2>4, <2>5, SeqPlaces DEF Right, AggOK
  <2> QED BY <2>3, <2>4, <2>6, EditKeeps
<1>2. ASSUME NEW stps \in SdpStps, CreateSdp(stps) PROVE IInv'
  <2> DEFINE list == held["sdp"]
             new == [sub |-> Len(list) + 1, stps |-> stps]
             more == Append(list, new)
  <2>1. list \in Seq(SdpSub) /\ SdpsOK(list) /\ Len(list) \in Nat
    BY SourcesAre DEF IInv, HeldInv, Right
  <2>2. new \in SdpSub /\ new.sub = Len(list) + 1
    BY <2>1, DashboardAssumption DEF SdpSub
  <2>3. Edit("sdp", more)
    BY <1>2 DEF CreateSdp
  <2> HIDE DEF list, new
  <2>4. /\ more \in Seq(SdpSub) /\ DOMAIN more = 1..(Len(list) + 1) /\ DOMAIN list = 1..Len(list)
        /\ more[Len(list) + 1] = new /\ \A i \in 1..Len(list) : more[i] = list[i]
    BY <2>1, <2>2, AppendRight
  <2> HIDE DEF more
  <2>5. \A i \in DOMAIN more : i \in 1..Len(list) \/ i = Len(list) + 1
    BY <2>1, <2>4
  <2>6. Right("sdp", more)
    BY <2>1, <2>2, <2>4, <2>5, SeqPlaces DEF Right, SdpsOK
  <2> QED BY <2>3, <2>4, <2>6, EditKeeps
<1>3. ASSUME NEW document \in Document, Advertise(document) PROVE IInv'
  <2>1. Edit("dds_sdps", <<document>>)
    BY <1>3 DEF Advertise
  <2>2. Right("dds_sdps", <<document>>)
    <3>1. DOMAIN <<document>> \subseteq 1..1 /\ 1 \in Nat
      OBVIOUS
    <3> QED BY <3>1 DEF Right
  <2> QED BY <2>1, <2>2, EditKeeps
<1>4. ASSUME NEW sub \in StpSub, CreateStp(sub) PROVE IInv'
  <2>1. Edit("stp", <<sub>>)
    BY <1>4 DEF CreateStp
  <2>2. Right("stp", <<sub>>)
    <3>1. DOMAIN <<sub>> = 1..1 /\ 1 \in Nat /\ \A i \in 1..1 : <<sub>>[i] = sub
      OBVIOUS
    <3>2. StpsOK(<<sub>>)
      BY <3>1, DashboardAssumption DEF StpsOK
    <3> QED BY <3>1, <3>2 DEF Right
  <2> QED BY <2>1, <2>2, EditKeeps
<1>5. ASSUME Withdraw \/ TerminateStp PROVE IInv'
  <2>1. Edit("dds_sdps", <<>>) \/ Edit("stp", <<>>)
    BY <1>5 DEF Withdraw, TerminateStp
  <2> QED BY <2>1, EmptyRight, EditKeeps
<1> QED BY <1>1, <1>2, <1>3, <1>4, <1>5

\* The steps of the request.
LEMMA PageKeeps ==
  ASSUME IInv, Request \/ Compose \/ \E s \in Source : Answer(s)
  PROVE  IInv'
<1>1. CASE Request
  <2>1. held' = held /\ legs' = NoAnswers /\ view' = [state |-> "loading"]
    BY <1>1 DEF Request
  <2> QED BY <2>1, EmptyRight DEF IInv, HeldInv, LegsInv, ViewInv, NoAnswers, Pending
<1>2. CASE Compose
  <2>1. /\ UNCHANGED <<held, legs, subject>>
        /\ view' = IF page = "home" THEN Home ELSE CircuitDetail
    BY <1>2 DEF Compose
  <2>2. /\ Home.state = "home" /\ CircuitDetail.state \in {"not_found", "circuit"}
    BY DEF Home, CircuitDetail
  <2>3. Home' = Home /\ CircuitDetail' = CircuitDetail
    BY <2>1 DEF Home, CircuitDetail, CircuitPath, Rows, List
  <2>4. ViewInv'
    BY <2>1, <2>2, <2>3 DEF ViewInv
  <2> QED BY <2>1, <2>4 DEF IInv, HeldInv, LegsInv
<1>3. ASSUME NEW s \in Source, Answer(s) PROVE IInv'
  <2>1. Asking /\ UNCHANGED <<held, view>>
    BY <1>3 DEF Answer
  <2>2. PICK list \in MayAnswer(s) : legs' = [legs EXCEPT ![s] = [answered |-> TRUE, list |-> list]]
    BY <1>3 DEF Answer
  <2>3. list = held[s] \/ \E some \in SUBSET DOMAIN held[s] : list = Restrict(held[s], some)
    BY <2>2 DEF MayAnswer, PagesOf
  <2>4. Right(s, list)
    BY <2>3, PartRight DEF IInv, HeldInv
  <2>5. DOMAIN legs' = Source /\ \A t \in Source : legs'[t].list = IF t = s THEN list ELSE legs[t].list
    BY <2>2 DEF IInv, LegsInv
  <2>6. LegsInv'
    BY <2>4, <2>5 DEF IInv, LegsInv
  <2>7. ViewInv'
    BY <2>1 DEF Asking, ViewInv
  <2> QED BY <2>1, <2>6, <2>7 DEF IInv, HeldInv
<1> QED BY <1>1, <1>2, <1>3

\* No step breaks it.
LEMMA IInvAlways == Spec => []IInv
<1>1. IInv /\ [Next]_vars => IInv'
  <2> SUFFICES ASSUME IInv, [Next]_vars PROVE IInv'
    OBVIOUS
  <2>1. CASE Next
    BY <2>1, CircuitsKeep, OthersKeep, PageKeeps DEF Next
  <2>2. CASE UNCHANGED vars
    BY <2>2 DEF vars, IInv, HeldInv, LegsInv, ViewInv, Home, CircuitDetail, CircuitPath, Rows, List
  <2> QED BY <2>1, <2>2
<1> QED BY <1>1, IInvInit, PTL DEF Spec

-----------------------------------------------------------------------------
\* The page of a circuit.

\* What the answers are.
LEMMA ListsRight ==
  ASSUME IInv
  PROVE  /\ CircuitsOK(List("circuits")) /\ AggOK(List("agg")) /\ SdpsOK(List("sdp")) /\ StpsOK(List("stp"))
         /\ \A s \in Source : \E n \in Nat : DOMAIN List(s) \subseteq 1..n
BY SourcesAre DEF IInv, LegsInv, Right, List

\* What is joined is what belongs together.
LEMMA AnswersJoin ==
  ASSUME IInv, NEW p
  PROVE  p \in WfoBackedPairs(List("agg"), List("circuits")) <=> IsJoin(List("agg"), List("circuits"), p)
<1> DEFINE A == List("agg")
           C == List("circuits")
<1>1. PICK n \in Nat : DOMAIN C \subseteq 1..n
  BY ListsRight, SourcesAre
<1>2. \A i \in DOMAIN A : A[i].connection # Nothing
  <2>1. \A i \in DOMAIN A : A[i].connection = i /\ i \in Nat \ {0}
    BY ListsRight, SourcesAre DEF AggOK
  <2> QED BY <2>1 DEF Nothing
<1>3. \A i, j \in DOMAIN C : C[i].connection = C[j].connection /\ C[i].connection # Nothing => i = j
  BY ListsRight DEF CircuitsOK
<1> HIDE DEF A, C
<1>4. p \in WfoBackedPairs(A, C) <=> IsJoin(A, C, p)
  BY <1>1, <1>2, <1>3, BackedRight, Zenon
<1> QED BY <1>4 DEF A, C

\* The circuit shown is the one asked for, with the path of its connection.
LEMMA CircuitShown ==
  ASSUME IInv, view.state = "circuit"
  PROVE  \E m \in DOMAIN List("circuits") :
           /\ view.circuit = List("circuits")[m] /\ view.circuit.sub = subject
           /\ \A i \in DOMAIN List("circuits") : List("circuits")[i].sub = subject => i = m
           /\ view.path = LinkSegments(CircuitPath(view.circuit), List("stp"))
           /\ view.crossed = {row.sub : row \in SdpsCrossed(Rows, subject)}
<1> DEFINE C == List("circuits")
           found == {i \in DOMAIN C : C[i].sub = subject}
           m == Min(found)
<1>1. view = CircuitDetail
  BY DEF IInv, ViewInv
<1>2. found # {}
  <2>1. SUFFICES ASSUME found = {} PROVE FALSE
    OBVIOUS
  <2>2. CircuitDetail = [state |-> "not_found"]
    BY <2>1 DEF CircuitDetail
  <2> QED BY <1>1, <2>2
<1>3. CircuitDetail =
        [state   |-> "circuit",
         circuit |-> C[m],
         path    |-> LinkSegments(CircuitPath(C[m]), List("stp")),
         crossed |-> {row.sub : row \in SdpsCrossed(Rows, subject)}]
  BY <1>2 DEF CircuitDetail
<1>4. m \in found
  <2>1. PICK n \in Nat : DOMAIN C \subseteq 1..n
    BY ListsRight, SourcesAre
  <2>2. found \in SUBSET (1..n)
    BY <2>1
  <2> HIDE DEF found
  <2> QED BY <1>2, <2>2, MinIsOne
<1>5. m \in DOMAIN C /\ C[m].sub = subject
  BY <1>4
<1>6. \A i \in DOMAIN C : C[i].sub = i
  BY ListsRight DEF CircuitsOK
<1> HIDE DEF m, C
<1>7. /\ view.circuit = C[m]
      /\ view.path = LinkSegments(CircuitPath(C[m]), List("stp"))
      /\ view.crossed = {row.sub : row \in SdpsCrossed(Rows, subject)}
  BY <1>1, <1>3
<1>8. \A i \in DOMAIN C : C[i].sub = subject => i = m
  BY <1>5, <1>6
<1> QED BY <1>5, <1>7, <1>8 DEF C

\* The path of a circuit is that of the reservation with its connection, if there is one.
LEMMA PathOf ==
  ASSUME IInv, NEW circuit
  PROVE  IF \E i \in DOMAIN List("agg") : List("agg")[i].connection = circuit.connection
         THEN \A i \in DOMAIN List("agg") : List("agg")[i].connection = circuit.connection =>
                CircuitPath(circuit) = List("agg")[i].segments
         ELSE CircuitPath(circuit) = <<>>
<1> DEFINE A == List("agg")
           matches == {i \in DOMAIN A : A[i].connection = circuit.connection}
<1>1. CASE matches = {}
  <2>1. CircuitPath(circuit) = <<>>
    BY <1>1 DEF CircuitPath
  <2> QED BY <1>1, <2>1
<1>2. CASE matches # {}
  <2>1. CircuitPath(circuit) = A[Min(matches)].segments
    BY <1>2 DEF CircuitPath
  <2>2. Min(matches) \in matches
    <3>1. PICK n \in Nat : DOMAIN A \subseteq 1..n
      BY ListsRight, SourcesAre
    <3>2. matches \in SUBSET (1..n)
      BY <3>1
    <3> HIDE DEF matches
    <3> QED BY <1>2, <3>2, MinIsOne
  <2>3. \A i \in DOMAIN A : A[i].connection = i
    BY ListsRight DEF AggOK
  <2>4. \A i \in matches : i = Min(matches)
    BY <2>2, <2>3
  <2> QED BY <1>2, <2>1, <2>4
<1> QED BY <1>1, <1>2

\* To link the ends of a path moves none.
LEMMA LinkedStps == \A path, stps : StpsOn(LinkSegments(path, stps)) = StpsOn(path)
<1> TAKE path, stps
<1> DEFINE linked == LinkSegments(path, stps)
<1>1. /\ DOMAIN linked = DOMAIN path
      /\ \A i \in DOMAIN path : linked[i].source = path[i].source /\ linked[i].dest = path[i].dest
  BY DEF LinkSegments
<1> HIDE DEF linked
<1>2. /\ {linked[i].source.local : i \in DOMAIN linked} = {path[i].source.local : i \in DOMAIN path}
      /\ {linked[i].dest.local : i \in DOMAIN linked} = {path[i].dest.local : i \in DOMAIN path}
  BY <1>1
<1>3. StpsOn(linked) = StpsOn(path)
  BY <1>2 DEF StpsOn
<1> QED BY <1>3 DEF linked

\* The SDPs listed are those on the path shown.
LEMMA IInvAgree == IInv => PathAndSdpsAgree
<1> DEFINE A == List("agg")
           C == List("circuits")
           S == List("sdp")
<1> SUFFICES ASSUME IInv, view.state = "circuit", NEW k \in DOMAIN List("sdp")
             PROVE  List("sdp")[k].sub \in view.crossed
                      <=> IsOpen(view.circuit) /\ Over(view.path, List("sdp")[k])
  BY DEF PathAndSdpsAgree
<1>1. PICK m \in DOMAIN C :
        /\ view.circuit = C[m] /\ view.circuit.sub = subject
        /\ \A i \in DOMAIN C : C[i].sub = subject => i = m
        /\ view.path = LinkSegments(CircuitPath(view.circuit), List("stp"))
        /\ view.crossed = {row.sub : row \in SdpsCrossed(Rows, subject)}
  BY CircuitShown
<1>2. \A i \in DOMAIN S : S[i].stps \in Seq(StpMember) /\ S[i].sub = i /\ S[i].sub # Unattributed
  <2>1. \A i \in DOMAIN S : S[i] \in SdpSub /\ S[i].sub = i
    BY ListsRight DEF SdpsOK
  <2>2. \A i \in DOMAIN S : S[i].sub \in Nat /\ S[i].stps \in Seq(StpMember)
    BY <2>1 DEF SdpSub
  <2> QED BY <2>1, <2>2 DEF Unattributed
<1>3. StpsOn(view.path) = StpsOn(CircuitPath(view.circuit))
  BY <1>1, LinkedStps
<1>4. Over(view.path, S[k]) <=> Over(CircuitPath(view.circuit), S[k])
  BY <1>3 DEF Over
<1>5. S[k].sub \in view.crossed <=>
        \E row \in RealSdps(Rows) : row.sub = S[k].sub /\ HasCircuit(row, subject)
  BY <1>1 DEF SdpsCrossed
<1>6. Rows = BuildSpectrum(S, A, C)
  BY DEF Rows
<1>7. \A p : p \in WfoBackedPairs(A, C) <=> IsJoin(A, C, p)
  BY AnswersJoin
<1>8. \A i \in DOMAIN A : A[i] \in Reservation /\ A[i].segments \in Seq(Segment)
  BY ListsRight DEF AggOK, Reservation
<1>9. IF \E i \in DOMAIN A : A[i].connection = view.circuit.connection
      THEN \A i \in DOMAIN A : A[i].connection = view.circuit.connection =>
             CircuitPath(view.circuit) = A[i].segments
      ELSE CircuitPath(view.circuit) = <<>>
  BY PathOf
<1> HIDE DEF A, C, S
<1>10. CASE IsLink(S[k])
  <2> DEFINE row == SpectrumRow(S[k], OnTheSdp(A, C, S[k]))
  <2>0. k \in DOMAIN S
    BY DEF S
  <2>1. row \in RealSdps(Rows) /\ \A other \in RealSdps(Rows) : other.sub = S[k].sub => other = row
    <3>1. \A i \in DOMAIN S : S[i].sub = S[k].sub => i = k
      BY <1>2, <2>0
    <3> QED BY <1>2, <1>6, <1>10, <2>0, <3>1, LinkHasRow
  <2>2. row.sub = S[k].sub
    BY SdpRowFields
  <2>3. HasCircuit(row, subject) <=> \E p \in WfoBackedPairs(A, C) : p.wfo.sub = subject /\ Crosses(p, S[k])
    BY CircuitOnRow
  <2> HIDE DEF row
  <2>4. S[k].sub \in view.crossed <=> HasCircuit(row, subject)
    BY <1>5, <2>1, <2>2
  <2>5. ASSUME NEW p \in WfoBackedPairs(A, C), p.wfo.sub = subject, Crosses(p, S[k])
        PROVE  IsOpen(view.circuit) /\ Over(CircuitPath(view.circuit), S[k])
    <3>1. PICK i \in DOMAIN A, j \in DOMAIN C : Joined(A, C, i, j) /\ p = [agg |-> A[i], wfo |-> C[j]]
      BY <1>7 DEF IsJoin
    <3>2. j = m
      BY <1>1, <2>5, <3>1
    <3>3. IsOpen(view.circuit) /\ A[i].connection = view.circuit.connection
      BY <1>1, <3>1, <3>2 DEF Joined
    <3>4. p.agg.segments = CircuitPath(view.circuit) /\ p.agg.segments \in Seq(Segment)
      BY <1>8, <1>9, <3>1, <3>3
    <3>5. Over(p.agg.segments, S[k])
      BY <1>2, <1>10, <2>0, <2>5, <3>4, CrossesRight
    <3> QED BY <3>3, <3>4, <3>5
  <2>6. ASSUME IsOpen(view.circuit), Over(CircuitPath(view.circuit), S[k])
        PROVE  \E p \in WfoBackedPairs(A, C) : p.wfo.sub = subject /\ Crosses(p, S[k])
    <3>1. CircuitPath(view.circuit) # <<>>
      <4>1. SUFFICES ASSUME CircuitPath(view.circuit) = <<>> PROVE FALSE
        OBVIOUS
      <4>2. StpsOn(<<>>) = {}
        BY DEF StpsOn
      <4>3. Members(S[k]) = {}
        BY <2>6, <4>1, <4>2 DEF Over
      <4>4. PairOfSub(S[k]) = {}
        BY <1>2, <1>10, <2>0, <4>3, PairOfLink
      <4> QED BY <1>2, <1>10, <2>0, <4>4, LinkHasPair
    <3>2. PICK i \in DOMAIN A : /\ A[i].connection = view.circuit.connection
                                /\ CircuitPath(view.circuit) = A[i].segments
      BY <1>9, <3>1
    <3> DEFINE p == [agg |-> A[i], wfo |-> C[m]]
    <3>3. p \in WfoBackedPairs(A, C)
      <4>1. IsJoin(A, C, p)
        BY <1>1, <2>6, <3>2 DEF IsJoin, Joined
      <4> QED BY <1>7, <4>1
    <3>4. p.agg.segments = A[i].segments /\ p.wfo.sub = subject
      BY <1>1
    <3> HIDE DEF p
    <3>5. p.agg.segments \in Seq(Segment) /\ Over(p.agg.segments, S[k])
      BY <1>8, <2>6, <3>2, <3>4
    <3>6. Crosses(p, S[k])
      BY <1>2, <1>10, <2>0, <3>5, CrossesRight
    <3> QED BY <3>3, <3>4, <3>6
  <2>7. S[k].sub \in view.crossed <=> IsOpen(view.circuit) /\ Over(CircuitPath(view.circuit), S[k])
    BY <2>3, <2>4, <2>5, <2>6
  <2> QED BY <1>4, <2>7 DEF S
<1>11. CASE ~IsLink(S[k])
  <2>1. ASSUME NEW row \in RealSdps(Rows), row.sub = S[k].sub PROVE FALSE
    <3>1. row \in BuildSpectrum(S, A, C) /\ row.sub # Unattributed
      BY <1>6 DEF RealSdps
    <3>2. PICK i \in DOMAIN S : PairOfSub(S[i]) # {} /\ row = SpectrumRow(S[i], OnTheSdp(A, C, S[i]))
      BY <3>1, RowsAre, StrayRowFields
    <3>3. i = k
      BY <1>2, <2>1, <3>2, SdpRowFields DEF S
    <3> QED BY <1>2, <1>11, <3>2, <3>3, LinkHasPair
  <2> QED BY <1>5, <1>11, <2>1 DEF Over, S
<1> QED BY <1>10, <1>11

\* The ends linked are those with a subscription.
LEMMA IInvEnds == IInv => PathEndsLinked
<1> DEFINE T == List("stp")
           Linked(end) ==
             LET subscribed == {j \in DOMAIN T : T[j].id.local = end[1].local}
             IN IF subscribed = {} THEN end[2] = Nothing ELSE end[2] \in {T[j].sub : j \in subscribed}
<1> SUFFICES ASSUME IInv, view.state = "circuit", NEW i \in DOMAIN view.path
             PROVE  Linked(<<view.path[i].source, view.path[i].sourceSub>>)
                    /\ Linked(<<view.path[i].dest, view.path[i].destSub>>)
  BY DEF PathEndsLinked
<1>1. view.path = LinkSegments(CircuitPath(view.circuit), T)
  BY CircuitShown
<1>2. /\ view.path[i].sourceSub = SubscriptionOf(T, view.path[i].source)
      /\ view.path[i].destSub = SubscriptionOf(T, view.path[i].dest)
  BY <1>1 DEF LinkSegments
<1>3. Subscriptions(T)
  BY ListsRight, SourcesAre DEF StpsOK, Subscriptions
<1>5. ASSUME NEW raw PROVE Linked(<<raw, SubscriptionOf(T, raw)>>)
  <2> HIDE DEF T
  <2>1. /\ SubscriptionOf(T, raw) # Nothing =>
             \E j \in DOMAIN T : T[j].sub = SubscriptionOf(T, raw) /\ T[j].id.local = raw.local
        /\ (\E j \in DOMAIN T : T[j].id.local = raw.local) => SubscriptionOf(T, raw) # Nothing
    BY <1>3, SubscriptionOfFinds
  <2>2. <<raw, SubscriptionOf(T, raw)>>[1] = raw /\ <<raw, SubscriptionOf(T, raw)>>[2] = SubscriptionOf(T, raw)
    OBVIOUS
  <2> QED BY <2>1, <2>2
<1> HIDE DEF T, Linked
<1> QED BY <1>2, <1>5

-----------------------------------------------------------------------------
\* Counting.

\* The values of a function on a finite set are finitely many, and no more than its arguments.
LEMMA Values ==
  ASSUME NEW S, IsFiniteSet(S), NEW f, f = [x \in S |-> f[x]]
  PROVE  /\ IsFiniteSet({f[x] : x \in S})
         /\ Cardinality({f[x] : x \in S}) <= Cardinality(S)
<1> DEFINE T == {f[x] : x \in S}
<1>1. f \in Surjection(S, T)
  BY DEF Surjection
<1> HIDE DEF T
<1>2. IsFiniteSet(T) /\ Cardinality(T) <= Cardinality(S)
  BY <1>1, FS_Surjection
<1> QED BY <1>2 DEF T

\* Three kinds, none of two.
LEMMA ThreeKinds ==
  ASSUME NEW X, NEW Y, NEW Z, IsFiniteSet(X \cup Y \cup Z),
         X \cap Y = {}, Y \cap Z = {}, X \cap Z = {}
  PROVE  Cardinality(X \cup Y \cup Z) = Cardinality(X) + Cardinality(Y) + Cardinality(Z)
<1>1. IsFiniteSet(X) /\ IsFiniteSet(Y) /\ IsFiniteSet(Z)
  <2>1. X \in SUBSET (X \cup Y \cup Z) /\ Y \in SUBSET (X \cup Y \cup Z) /\ Z \in SUBSET (X \cup Y \cup Z)
    OBVIOUS
  <2> QED BY <2>1, FS_Subset
<1>2. /\ Cardinality(X) \in Nat /\ Cardinality(Y) \in Nat /\ Cardinality(Z) \in Nat
  BY <1>1, FS_CardinalityType
<1>3. IsFiniteSet(X \cup Y) /\ Cardinality(X \cup Y) = Cardinality(X) + Cardinality(Y) - Cardinality(X \cap Y)
  BY <1>1, FS_Union
<1>4. Cardinality((X \cup Y) \cup Z) = Cardinality(X \cup Y) + Cardinality(Z) - Cardinality((X \cup Y) \cap Z)
  BY <1>1, <1>3, FS_Union
<1>5. (X \cup Y) \cap Z = {}
  OBVIOUS
<1>6. Cardinality({}) = 0
  BY FS_EmptySet
<1>7. Cardinality(X \cap Y) = 0 /\ Cardinality((X \cup Y) \cap Z) = 0
  BY <1>5, <1>6
<1> QED BY <1>2, <1>3, <1>4, <1>7

\* The places of an answer are finitely many.
LEMMA FinitePlaces ==
  ASSUME IInv, NEW s \in Source
  PROVE  IsFiniteSet(DOMAIN List(s))
<1>1. PICK n \in Nat : DOMAIN List(s) \subseteq 1..n
  BY ListsRight
<1>2. IsFiniteSet(1..n)
  BY FS_Interval
<1> QED BY <1>1, <1>2, FS_Subset

\* The circuits of a bucket, and those that are not terminated.
Bucket(list, bucket) == {i \in DOMAIN list : CircuitStateBucket(list[i].state) = bucket}
OpenPlaces(list) == {i \in DOMAIN list : IsOpen(list[i])}

\* Each circuit is in one bucket, and the terminated ones are those not open.
LEMMA BucketsAre ==
  ASSUME NEW list, CircuitsOK(list)
  PROVE  /\ OpenPlaces(list) = DOMAIN list \ Bucket(list, "terminated")
         /\ OpenPlaces(list) = Bucket(list, "activated") \cup Bucket(list, "failed") \cup Bucket(list, "reserved")
         /\ Bucket(list, "activated") \cap Bucket(list, "failed") = {}
         /\ Bucket(list, "failed") \cap Bucket(list, "reserved") = {}
         /\ Bucket(list, "activated") \cap Bucket(list, "reserved") = {}
         /\ Bucket(list, "terminated") \subseteq DOMAIN list
<1>1. \A i \in DOMAIN list : list[i].state \in State
  BY DEF CircuitsOK, Circuit
<1>2. \A state \in State :
        /\ CircuitStateBucket(state) \in {"activated", "failed", "reserved", "terminated"}
        /\ CircuitStateBucket(state) = "terminated" <=> state = "TERMINATED"
  BY DEF State, CircuitStateBucket
<1> QED BY <1>1, <1>2 DEF OpenPlaces, Bucket, IsOpen

\* The headline is the number of open circuits, and each number that of its bucket.
LEMMA CircuitsCounted ==
  ASSUME NEW list, CircuitsOK(list), IsFiniteSet(DOMAIN list)
  PROVE  /\ CircuitCard(list).headline = Cardinality(OpenPlaces(list))
         /\ CircuitCard(list).headline \in Nat
         /\ CircuitCard(list).activated = Cardinality(Bucket(list, "activated"))
         /\ CircuitCard(list).failed = Cardinality(Bucket(list, "failed"))
         /\ CircuitCard(list).reserved = Cardinality(Bucket(list, "reserved"))
         /\ Cardinality(OpenPlaces(list)) =
              Cardinality(Bucket(list, "activated")) + Cardinality(Bucket(list, "failed"))
                + Cardinality(Bucket(list, "reserved"))
<1> DEFINE D == DOMAIN list
           B == Bucket(list, "terminated")
<1>1. CircuitCard(list).headline = Cardinality(D) - Cardinality(B)
  BY DEF CircuitCard, Counted, Bucket
<1>2. /\ CircuitCard(list).activated = Cardinality(Bucket(list, "activated"))
      /\ CircuitCard(list).failed = Cardinality(Bucket(list, "failed"))
      /\ CircuitCard(list).reserved = Cardinality(Bucket(list, "reserved"))
  BY DEF CircuitCard, Counted, Bucket
<1>3. B \subseteq D /\ OpenPlaces(list) = D \ B
  BY BucketsAre
<1> HIDE DEF D, B
<1>4. IsFiniteSet(D)
  BY DEF D
<1>5. IsFiniteSet(D \ B) /\ Cardinality(D \ B) = Cardinality(D) - Cardinality(D \cap B)
  BY <1>4, FS_Difference
<1>6. D \cap B = B
  BY <1>3
<1>7. Cardinality(OpenPlaces(list)) = Cardinality(D) - Cardinality(B) /\ IsFiniteSet(OpenPlaces(list))
  BY <1>3, <1>5, <1>6
<1>8. Cardinality(OpenPlaces(list)) \in Nat
  BY <1>7, FS_CardinalityType
<1>9. Cardinality(OpenPlaces(list)) =
        Cardinality(Bucket(list, "activated")) + Cardinality(Bucket(list, "failed"))
          + Cardinality(Bucket(list, "reserved"))
  BY <1>7, BucketsAre, ThreeKinds
<1> QED BY <1>1, <1>2, <1>7, <1>8, <1>9

\* The list of a tab is its bucket.
LEMMA TabsAre ==
  ASSUME NEW list, CircuitsOK(list)
  PROVE  /\ CircuitsView(list, "all") = DOMAIN list
         /\ \A tab \in CircuitTab \ {"all"} : CircuitsView(list, tab) = Bucket(list, tab)
<1>1. \A i \in DOMAIN list : list[i].sub = i
  BY DEF CircuitsOK
<1>2. CircuitsView(list, "all") = DOMAIN list
  BY <1>1 DEF CircuitsView
<1>3. ASSUME NEW tab, tab # "all" PROVE CircuitsView(list, tab) = Bucket(list, tab)
  BY <1>1, <1>3 DEF CircuitsView, Bucket
<1> QED BY <1>2, <1>3

-----------------------------------------------------------------------------
\* The rows of the SDPs.

KindOf(rows, status) == {row \in rows : row.status = status}

\* A row's status is one of three, by where the pair is.
LEMMA StatusOfRow ==
  ASSUME NEW pair, NEW w, NEW d
  PROVE  /\ SdpRow(pair, w, d).status \in {"IN_BOTH", "MISSING_IN_DDS", "DDS_ONLY"}
         /\ pair \in DOMAIN w => SdpRow(pair, w, d).status # "DDS_ONLY"
         /\ pair \notin DOMAIN w /\ pair \in DOMAIN d => SdpRow(pair, w, d).status = "DDS_ONLY"
<1>1. SdpRow(pair, w, d).status = Status(pair \in DOMAIN w, pair \in DOMAIN d)
  BY DEF SdpRow
<1> QED BY <1>1 DEF Status

\* The rows are finitely many, and those with a subscription no more than the links.
LEMMA SdpRowsAre ==
  ASSUME NEW S, NEW dds, IsFiniteSet(DOMAIN S), IsFiniteSet(DOMAIN dds)
  PROVE  LET rows == ReconcileSdps(S, dds)
             links == DOMAIN Index(S, PairOfSub, {})
         IN /\ IsFiniteSet(rows) /\ IsFiniteSet(links)
            /\ \A row \in rows : row.status \in {"IN_BOTH", "MISSING_IN_DDS", "DDS_ONLY"}
            /\ Cardinality(KindOf(rows, "IN_BOTH") \cup KindOf(rows, "MISSING_IN_DDS")) <= Cardinality(links)
            /\ KindOf(rows, "IN_BOTH") \cup KindOf(rows, "MISSING_IN_DDS") = {} <=> links = {}
<1> DEFINE w == Index(S, PairOfSub, {})
           d == Index(dds, PairOfDds, {})
           rows == ReconcileSdps(S, dds)
           subscribed == KindOf(rows, "IN_BOTH") \cup KindOf(rows, "MISSING_IN_DDS")
<1>1. IsFiniteSet(DOMAIN w)
  <2> DEFINE f == [i \in DOMAIN S |-> PairOfSub(S[i])]
             all == {f[i] : i \in DOMAIN S}
  <2>1. IsFiniteSet(all)
    BY Values
  <2>2. DOMAIN w \in SUBSET all
    BY DEF Index
  <2> HIDE DEF all
  <2> QED BY <2>1, <2>2, FS_Subset
<1>2. IsFiniteSet(DOMAIN d)
  <2> DEFINE f == [i \in DOMAIN dds |-> PairOfDds(dds[i])]
             all == {f[i] : i \in DOMAIN dds}
  <2>1. IsFiniteSet(all)
    BY Values
  <2>2. DOMAIN d \in SUBSET all
    BY DEF Index
  <2> HIDE DEF all
  <2> QED BY <2>1, <2>2, FS_Subset
<1>3. rows = {SdpRow(pair, w, d) : pair \in DOMAIN w \cup DOMAIN d}
  BY DEF ReconcileSdps
<1> HIDE DEF w, d, rows
<1>4. IsFiniteSet(rows)
  <2> DEFINE keys == DOMAIN w \cup DOMAIN d
             f == [pair \in keys |-> SdpRow(pair, w, d)]
  <2>1. IsFiniteSet(keys)
    BY <1>1, <1>2, FS_Union
  <2>2. rows = {f[pair] : pair \in keys}
    BY <1>3
  <2>3. f = [pair \in keys |-> f[pair]]
    OBVIOUS
  <2> HIDE DEF f, keys
  <2> QED BY <2>1, <2>2, <2>3, Values
<1>5. \A row \in rows : row.status \in {"IN_BOTH", "MISSING_IN_DDS", "DDS_ONLY"}
  BY <1>3, StatusOfRow
<1>6. subscribed = {SdpRow(pair, w, d) : pair \in DOMAIN w}
  <2>1. ASSUME NEW row \in subscribed PROVE \E pair \in DOMAIN w : row = SdpRow(pair, w, d)
    <3>1. row \in rows /\ row.status # "DDS_ONLY"
      BY DEF KindOf
    <3> QED BY <1>3, <3>1, StatusOfRow
  <2>2. ASSUME NEW pair \in DOMAIN w PROVE SdpRow(pair, w, d) \in subscribed
    <3>1. SdpRow(pair, w, d) \in rows
      BY <1>3
    <3>2. SdpRow(pair, w, d).status \in {"IN_BOTH", "MISSING_IN_DDS"}
      BY StatusOfRow
    <3> QED BY <3>1, <3>2 DEF KindOf
  <2> HIDE DEF subscribed
  <2> QED BY <2>1, <2>2
<1>7. Cardinality(subscribed) <= Cardinality(DOMAIN w)
  <2> DEFINE f == [pair \in DOMAIN w |-> SdpRow(pair, w, d)]
  <2>1. subscribed = {f[pair] : pair \in DOMAIN w} /\ f = [pair \in DOMAIN w |-> f[pair]]
    BY <1>6
  <2> HIDE DEF f, subscribed
  <2> QED BY <1>1, <2>1, Values
<1>8. subscribed = {} <=> DOMAIN w = {}
  BY <1>6
<1> QED BY <1>1, <1>4, <1>5, <1>7, <1>8 DEF w, rows

\* A card's numbers are those of the rows.
LEMMA RowsCounted ==
  ASSUME NEW rows, IsFiniteSet(rows),
         \A row \in rows : row.status \in {"IN_BOTH", "MISSING_IN_DDS", "DDS_ONLY"}
  PROVE  /\ ReconcileCard(rows).headline = Cardinality(RowsInTab(rows, "all"))
         /\ ReconcileCard(rows).backed = Cardinality(RowsInTab(rows, "in_both"))
         /\ ReconcileCard(rows).missing = Cardinality(RowsInTab(rows, "missing_in_dds"))
         /\ ReconcileCard(rows).ddsOnly = Cardinality(RowsInTab(rows, "dds_only"))
         /\ ReconcileCard(rows).headline =
              ReconcileCard(rows).backed + ReconcileCard(rows).missing + ReconcileCard(rows).ddsOnly
         /\ ReconcileCard(rows).backed + ReconcileCard(rows).missing =
              Cardinality(KindOf(rows, "IN_BOTH") \cup KindOf(rows, "MISSING_IN_DDS"))
<1> DEFINE X == KindOf(rows, "IN_BOTH")
           Y == KindOf(rows, "MISSING_IN_DDS")
           Z == KindOf(rows, "DDS_ONLY")
<1>1. /\ ReconcileCard(rows).headline = Cardinality(rows)
      /\ ReconcileCard(rows).backed = Cardinality(X)
      /\ ReconcileCard(rows).missing = Cardinality(Y)
      /\ ReconcileCard(rows).ddsOnly = Cardinality(Z)
  BY DEF ReconcileCard, KindOf
<1>2. /\ RowsInTab(rows, "all") = rows /\ RowsInTab(rows, "in_both") = X
      /\ RowsInTab(rows, "missing_in_dds") = Y /\ RowsInTab(rows, "dds_only") = Z
  BY DEF RowsInTab, TabStatus, KindOf
<1>3. rows = X \cup Y \cup Z /\ X \cap Y = {} /\ Y \cap Z = {} /\ X \cap Z = {}
  BY DEF KindOf
<1> HIDE DEF X, Y, Z
<1>4. Cardinality(rows) = Cardinality(X) + Cardinality(Y) + Cardinality(Z)
  BY <1>3, ThreeKinds
<1>5. Cardinality(X \cup Y) = Cardinality(X) + Cardinality(Y)
  <2>1. X \in SUBSET rows /\ Y \in SUBSET rows
    BY <1>3
  <2>2. IsFiniteSet(X) /\ IsFiniteSet(Y)
    BY <2>1, FS_Subset
  <2>3. Cardinality(X \cup Y) = Cardinality(X) + Cardinality(Y) - Cardinality(X \cap Y)
    BY <2>2, FS_Union
  <2>4. Cardinality(X \cap Y) = 0 /\ Cardinality(X) \in Nat /\ Cardinality(Y) \in Nat
    BY <1>3, <2>2, FS_EmptySet, FS_CardinalityType
  <2> QED BY <2>3, <2>4
<1> QED BY <1>1, <1>2, <1>4, <1>5 DEF X, Y

\* The cards' numbers are those of their pages.
LEMMA IInvMatch == IInv => CardsMatchTheirPages
<1> DEFINE C == List("circuits")
           rows == ReconcileSdps(List("sdp"), List("dds_sdps"))
<1> SUFFICES ASSUME IInv, view.state = "home"
             PROVE  /\ view.circuits.headline = Cardinality(CircuitsView(C, "all") \ CircuitsView(C, "terminated"))
                    /\ \A tab \in CircuitTab \ {"all", "terminated"} :
                         view.circuits[tab] = Cardinality(CircuitsView(C, tab))
                    /\ view.circuits.headline =
                         view.circuits.activated + view.circuits.failed + view.circuits.reserved
                    /\ <<view.sdps.headline, view.sdps.backed, view.sdps.missing, view.sdps.ddsOnly>>
                         = <<Cardinality(RowsInTab(rows, "all")), Cardinality(RowsInTab(rows, "in_both")),
                             Cardinality(RowsInTab(rows, "missing_in_dds")), Cardinality(RowsInTab(rows, "dds_only"))>>
                    /\ view.sdps.headline = view.sdps.backed + view.sdps.missing + view.sdps.ddsOnly
  BY DEF CardsMatchTheirPages
<1>1. view.circuits = CircuitCard(C) /\ view.sdps = ReconcileCard(rows)
  BY DEF IInv, ViewInv, Home
<1>2. CircuitsOK(C) /\ IsFiniteSet(DOMAIN C)
  BY ListsRight, FinitePlaces, SourcesAre
<1>3. /\ IsFiniteSet(rows)
      /\ \A row \in rows : row.status \in {"IN_BOTH", "MISSING_IN_DDS", "DDS_ONLY"}
  BY FinitePlaces, SourcesAre, SdpRowsAre
<1> HIDE DEF C, rows
<1>4. CircuitsView(C, "all") \ CircuitsView(C, "terminated") = OpenPlaces(C)
  BY <1>2, TabsAre, BucketsAre DEF CircuitTab
<1>5. /\ CircuitCard(C).headline = Cardinality(OpenPlaces(C))
      /\ CircuitCard(C).headline =
           CircuitCard(C).activated + CircuitCard(C).failed + CircuitCard(C).reserved
  BY <1>2, CircuitsCounted
<1>6. \A tab \in CircuitTab \ {"all", "terminated"} : CircuitCard(C)[tab] = Cardinality(CircuitsView(C, tab))
  <2>1. /\ CircuitCard(C)["activated"] = Cardinality(CircuitsView(C, "activated"))
        /\ CircuitCard(C)["failed"] = Cardinality(CircuitsView(C, "failed"))
        /\ CircuitCard(C)["reserved"] = Cardinality(CircuitsView(C, "reserved"))
    BY <1>2, CircuitsCounted, TabsAre DEF CircuitTab
  <2> QED BY <2>1 DEF CircuitTab
<1>7. /\ ReconcileCard(rows).headline = Cardinality(RowsInTab(rows, "all"))
      /\ ReconcileCard(rows).backed = Cardinality(RowsInTab(rows, "in_both"))
      /\ ReconcileCard(rows).missing = Cardinality(RowsInTab(rows, "missing_in_dds"))
      /\ ReconcileCard(rows).ddsOnly = Cardinality(RowsInTab(rows, "dds_only"))
      /\ ReconcileCard(rows).headline =
           ReconcileCard(rows).backed + ReconcileCard(rows).missing + ReconcileCard(rows).ddsOnly
  BY <1>3, RowsCounted
<1> QED BY <1>1, <1>4, <1>5, <1>6, <1>7

-----------------------------------------------------------------------------
\* The rows of the spectrum, counted.

\* No circuit is joined twice, and none that is not open.
LEMMA JoinedCounted ==
  ASSUME IInv, NEW some \in SUBSET WfoBackedPairs(List("agg"), List("circuits"))
  PROVE  /\ IsFiniteSet(some) /\ Cardinality(some) <= Cardinality(OpenPlaces(List("circuits")))
         /\ some # {} => Cardinality(OpenPlaces(List("circuits"))) > 0
<1> DEFINE A == List("agg")
           C == List("circuits")
           O == OpenPlaces(C)
           h == [p \in some |-> p.wfo.sub]
<1>1. \A p \in some : IsJoin(A, C, p)
  BY AnswersJoin
<1>2. (\A i \in DOMAIN A : A[i].connection = i) /\ \A j \in DOMAIN C : C[j].sub = j
  BY ListsRight DEF AggOK, CircuitsOK
<1>3. IsFiniteSet(O)
  <2>1. O \in SUBSET DOMAIN C /\ IsFiniteSet(DOMAIN C)
    BY FinitePlaces, SourcesAre DEF OpenPlaces
  <2> QED BY <2>1, FS_Subset
<1> HIDE DEF A, C
<1>4. \A p \in some : p.wfo.sub \in O
  BY <1>1, <1>2 DEF IsJoin, Joined, OpenPlaces
<1>5. \A p, q \in some : p.wfo.sub = q.wfo.sub => p = q
  <2> TAKE p, q \in some
  <2> HAVE p.wfo.sub = q.wfo.sub
  <2>1. PICK i \in DOMAIN A, j \in DOMAIN C : Joined(A, C, i, j) /\ p = [agg |-> A[i], wfo |-> C[j]]
    BY <1>1 DEF IsJoin
  <2>2. PICK k \in DOMAIN A, l \in DOMAIN C : Joined(A, C, k, l) /\ q = [agg |-> A[k], wfo |-> C[l]]
    BY <1>1 DEF IsJoin
  <2>3. j = l
    BY <1>2, <2>1, <2>2
  <2>4. i = k
    BY <1>2, <2>1, <2>2, <2>3 DEF Joined
  <2> QED BY <2>1, <2>2, <2>3, <2>4
<1>6. h \in Injection(some, O)
  BY <1>4, <1>5 DEF Injection, IsInjective
<1> HIDE DEF O, h
<1>7. IsFiniteSet(some) /\ Cardinality(some) <= Cardinality(O)
  BY <1>3, <1>6, FS_Injection
<1>8. some # {} => Cardinality(O) > 0
  BY <1>3, <1>4, FS_EmptySet, FS_CardinalityType
<1> QED BY <1>7, <1>8 DEF O, C

\* What a row of the spectrum is.
LEMMA SpectrumRowsAre ==
  ASSUME IInv, NEW row \in Rows
  PROVE  /\ row \in RealSdps(Rows) <=> row.sub # Unattributed
         /\ row.sub # Unattributed =>
              \E k \in DOMAIN List("sdp") :
                /\ PairOfSub(List("sdp")[k]) # {}
                /\ row = SpectrumRow(List("sdp")[k], OnTheSdp(List("agg"), List("circuits"), List("sdp")[k]))
         /\ \E members \in SUBSET WfoBackedPairs(List("agg"), List("circuits")) : row.count = Cardinality(members)
<1>1. row \in RealSdps(Rows) <=> row.sub # Unattributed
  BY DEF RealSdps
<1>2. \/ \E k \in DOMAIN List("sdp") :
           /\ PairOfSub(List("sdp")[k]) # {}
           /\ row = SpectrumRow(List("sdp")[k], OnTheSdp(List("agg"), List("circuits"), List("sdp")[k]))
      \/ \E members \in SUBSET WfoBackedPairs(List("agg"), List("circuits")) : row = UnattributedRow(members)
  BY RowsAre DEF Rows
<1>3. \A A, C, sdp : OnTheSdp(A, C, sdp) \in SUBSET WfoBackedPairs(A, C)
  BY DEF OnTheSdp
<1> QED BY <1>1, <1>2, <1>3, SdpRowFields, StrayRowFields

\* A row for each link, and no more.
LEMMA LinksCounted ==
  ASSUME IInv
  PROVE  LET links == DOMAIN Index(List("sdp"), PairOfSub, {})
             real == RealSdps(Rows)
         IN /\ IsFiniteSet(real)
            /\ IsFiniteSet(links) => Cardinality(links) <= Cardinality(real)
            /\ links = {} <=> real = {}
<1> DEFINE S == List("sdp")
           A == List("agg")
           C == List("circuits")
           w == Index(S, PairOfSub, {})
           real == RealSdps(Rows)
           RowOf(sdp) == SpectrumRow(sdp, OnTheSdp(A, C, sdp))
<1>1. /\ IsFiniteSet(DOMAIN S) /\ \A k \in DOMAIN S : S[k].sub = k /\ k \in Nat
      /\ \E n \in Nat : DOMAIN S \subseteq 1..n
  BY ListsRight, FinitePlaces, SourcesAre DEF SdpsOK
<1>2. /\ DOMAIN w = {PairOfSub(S[i]) : i \in DOMAIN S} \ {{}}
      /\ \A key \in DOMAIN w : \E i \in DOMAIN S : PairOfSub(S[i]) = key /\ w[key] = S[i]
  <2>1. PICK n \in Nat : DOMAIN S \subseteq 1..n
    BY <1>1
  <2> HIDE DEF S
  <2>2. n \in Nat /\ DOMAIN S \subseteq 1..n
    BY <2>1
  <2> QED BY <2>2, ByPairFindsSub, Zenon
<1>3. \A row \in real : \E k \in DOMAIN S : PairOfSub(S[k]) # {} /\ row = RowOf(S[k])
  BY SpectrumRowsAre DEF RealSdps
<1>4. \A k \in DOMAIN S : PairOfSub(S[k]) # {} => RowOf(S[k]) \in real
  <2> TAKE k \in DOMAIN S
  <2> HAVE PairOfSub(S[k]) # {}
  <2>1. RowOf(S[k]) \in Rows
    BY DEF Rows, BuildSpectrum, OnTheSdp
  <2>2. RowOf(S[k]).sub = k /\ k # Unattributed
    BY <1>1, SdpRowFields DEF Unattributed
  <2> QED BY <2>1, <2>2 DEF RealSdps
<1>5. \A sdp : RowOf(sdp).pair = PairOfSub(sdp)
  BY SdpRowFields
<1> HIDE DEF S, w, real, RowOf
<1>6. IsFiniteSet(real)
  <2> DEFINE f == [k \in DOMAIN S |-> RowOf(S[k])]
             all == {f[k] : k \in DOMAIN S}
  <2>1. IsFiniteSet(all)
    <3>1. f = [k \in DOMAIN S |-> f[k]]
      OBVIOUS
    <3> HIDE DEF f
    <3> QED BY <1>1, <3>1, Values
  <2>2. real \in SUBSET all
    BY <1>3
  <2> HIDE DEF all
  <2> QED BY <2>1, <2>2, FS_Subset
<1>7. Cardinality(DOMAIN w) <= Cardinality(real)
  <2> DEFINE g == [pair \in DOMAIN w |-> RowOf(w[pair])]
  <2>1. \A pair \in DOMAIN w : RowOf(w[pair]) \in real /\ RowOf(w[pair]).pair = pair
    BY <1>2, <1>4, <1>5
  <2>2. g \in Injection(DOMAIN w, real)
    BY <2>1 DEF Injection, IsInjective
  <2> QED BY <1>6, <2>2, FS_Injection
<1>8. DOMAIN w = {} <=> real = {}
  BY <1>2, <1>3, <1>4
<1> QED BY <1>6, <1>7, <1>8 DEF S, w, real

\* The cards are of one snapshot.
LEMMA IInvSnapshot == IInv => CardsOfOneSnapshot
<1> DEFINE C == List("circuits")
           rows == ReconcileSdps(List("sdp"), List("dds_sdps"))
           links == DOMAIN Index(List("sdp"), PairOfSub, {})
           real == RealSdps(Rows)
           subscribed == KindOf(rows, "IN_BOTH") \cup KindOf(rows, "MISSING_IN_DDS")
           open == Cardinality(OpenPlaces(C))
<1> SUFFICES ASSUME IInv, view.state = "home"
             PROVE  /\ view.spectrum.unattributed <= view.circuits.headline
                    /\ view.spectrum.inUse > 0 => view.circuits.headline > 0
                    /\ view.sdps.backed + view.sdps.missing <= view.spectrum.headline
                    /\ view.sdps.backed + view.sdps.missing = 0 <=> view.spectrum.headline = 0
  BY DEF CardsOfOneSnapshot
<1>1. view.circuits = CircuitCard(C) /\ view.sdps = ReconcileCard(rows) /\ view.spectrum = SpectrumCard(Rows)
  BY DEF IInv, ViewInv, Home
<1>2. view.circuits.headline = open /\ open \in Nat
  <2>1. CircuitsOK(C) /\ IsFiniteSet(DOMAIN C)
    BY ListsRight, FinitePlaces, SourcesAre
  <2> HIDE DEF C
  <2> QED BY <1>1, <2>1, CircuitsCounted
<1>3. /\ IsFiniteSet(rows) /\ IsFiniteSet(links)
      /\ \A row \in rows : row.status \in {"IN_BOTH", "MISSING_IN_DDS", "DDS_ONLY"}
      /\ Cardinality(subscribed) <= Cardinality(links)
      /\ subscribed = {} <=> links = {}
  BY FinitePlaces, SourcesAre, SdpRowsAre
<1>4. IsFiniteSet(real) /\ Cardinality(links) <= Cardinality(real) /\ (links = {} <=> real = {})
  BY <1>3, LinksCounted
<1>5. ReconcileCard(rows).backed + ReconcileCard(rows).missing = Cardinality(subscribed)
  BY <1>3, RowsCounted
<1>6. IsFiniteSet(subscribed)
  <2>1. subscribed \in SUBSET rows
    BY DEF KindOf
  <2> HIDE DEF subscribed, rows
  <2> QED BY <1>3, <2>1, FS_Subset
<1>7. view.spectrum.headline = Cardinality(real)
  BY <1>1 DEF SpectrumCard
<1>8. \A row \in Rows : /\ row.count \in Nat /\ row.count <= open
                        /\ row.count > 0 => open > 0
  <2> TAKE row \in Rows
  <2>1. PICK members \in SUBSET WfoBackedPairs(List("agg"), C) : row.count = Cardinality(members)
    BY SpectrumRowsAre
  <2>2. IsFiniteSet(members) /\ Cardinality(members) <= open
    BY JoinedCounted
  <2>3. Cardinality(members) \in Nat
    BY <2>2, FS_CardinalityType
  <2> HIDE DEF open
  <2> QED BY <1>2, <2>1, <2>2, <2>3
<1>9. view.spectrum.unattributed <= open
  <2> DEFINE stray == {row.count : row \in Rows \ real}
  <2>1. view.spectrum.unattributed = IF stray = {} THEN 0 ELSE CHOOSE count \in stray : TRUE
    BY <1>1 DEF SpectrumCard
  <2>2. \A count \in stray : count <= open
    BY <1>8
  <2> HIDE DEF stray, open
  <2> QED BY <1>2, <2>1, <2>2
<1>10. view.spectrum.inUse > 0 => open > 0
  <2> DEFINE used == {row \in real : row.count > 0}
  <2>1. view.spectrum.inUse = Cardinality(used)
    BY <1>1 DEF SpectrumCard
  <2>2. CASE used = {}
    BY <2>1, <2>2, FS_EmptySet
  <2>3. CASE used # {}
    BY <1>8, <2>3 DEF RealSdps
  <2> QED BY <2>2, <2>3
<1> HIDE DEF open, subscribed, links, real, rows
<1>11. /\ Cardinality(subscribed) \in Nat /\ Cardinality(links) \in Nat /\ Cardinality(real) \in Nat
       /\ Cardinality(subscribed) = 0 <=> subscribed = {}
       /\ Cardinality(real) = 0 <=> real = {}
  BY <1>3, <1>4, <1>6, FS_CardinalityType, FS_EmptySet
<1> QED BY <1>1, <1>2, <1>3, <1>4, <1>5, <1>7, <1>9, <1>10, <1>11

-----------------------------------------------------------------------------
\* home's docstring, "gives every card a single consistent snapshot": the cards that
\* count the same objects do not contradict each other, for any lists and limits.
THEOREM OneSnapshot == Spec => []CardsOfOneSnapshot
<1> QED BY IInvAlways, IInvSnapshot, PTL

\* A card's numbers are those of the tabs of the page it links to.
THEOREM CardsMatch == Spec => []CardsMatchTheirPages
<1> QED BY IInvAlways, IInvMatch, PTL

\* The SDPs listed on the page of a circuit are the links on the path shown there,
\* and those of a terminated circuit none.
THEOREM PathAgreesWithSdps == Spec => []PathAndSdpsAgree
<1> QED BY IInvAlways, IInvAgree, PTL

\* On that path each STP that has a subscription is linked to one, and no other STP is.
THEOREM PathLinked == Spec => []PathEndsLinked
<1> QED BY IInvAlways, IInvEnds, PTL

=============================================================================
