--------------------------- MODULE SpectrumProofs ---------------------------
(***************************************************************************)
(* Proofs about Spectrum: an invariant of the sources, the answers and the *)
(* history, what is joined, what crosses what, and on which rows a circuit *)
(* is.                                                                     *)
(***************************************************************************)
EXTENDS Spectrum, RowsProofs

-----------------------------------------------------------------------------
\* Each source numbers its items, and no connection is of two circuits.
CircuitSet == [sub : Nat, connection : Nat, bandwidth : Nat, state : {"RESERVED", "TERMINATED"}]
AggSet == [connection : Nat, segments : Path]
SdpSet == [sub : Nat, stps : SdpStps]
CircuitsHeld(list) ==
  /\ list \in Seq(CircuitSet)
  /\ \A i \in 1..Len(list) : list[i].sub = i
  /\ \A i, j \in 1..Len(list) :
       list[i].connection = list[j].connection /\ list[i].connection # Nothing => i = j
AggOK(list) ==
  /\ list \in Seq(AggSet)
  /\ \A i \in 1..Len(list) : list[i].connection = i
SdpsHeld(list) ==
  /\ list \in Seq(SdpSet)
  /\ \A i \in 1..Len(list) : list[i].sub = i
\* An answer has the items of some places of such a list.
CircuitsOK(list) ==
  /\ \E n \in Nat : DOMAIN list \subseteq 1..n
  /\ \A i \in DOMAIN list : list[i] \in CircuitSet /\ list[i].sub = i
  /\ \A i, j \in DOMAIN list :
       list[i].connection = list[j].connection /\ list[i].connection # Nothing => i = j
SdpsOK(list) ==
  /\ \E n \in Nat : DOMAIN list \subseteq 1..n
  /\ \A i \in DOMAIN list : list[i] \in SdpSet /\ list[i].sub = i

SourcesInv ==
  /\ CircuitsHeld(circuits) /\ AggOK(reservations) /\ SdpsHeld(sdps)
  /\ Len(reservations) = connections
LegsInv ==
  /\ DOMAIN legs = Leg /\ DOMAIN always = Leg /\ DOMAIN ever = Leg
  /\ CircuitsOK(legs["circuits"].list) /\ AggOK(legs["agg"].list) /\ SdpsOK(legs["sdp"].list)
\* What stayed since the request is in the source and, unless it may have been cut
\* off, in the answer once there is one; what is in either was there at some moment.
HistoryInv ==
  /\ status = "asking" =>
       \A leg \in Leg : /\ always[leg] \subseteq Holdings(circuits, reservations, sdps)[leg]
                        /\ Holdings(circuits, reservations, sdps)[leg] \subseteq ever[leg]
  /\ \A leg \in Leg : legs[leg].answered =>
       Certain(leg) \subseteq InSeq(legs[leg].list) /\ InSeq(legs[leg].list) \subseteq ever[leg]
ShownInv ==
  IF status = "shown"
  THEN /\ \A leg \in Leg : legs[leg].answered
       /\ rows = BuildSpectrum(legs["sdp"].list, legs["agg"].list, legs["circuits"].list)
  ELSE rows = {}

\* A circuit keeps its place and its bandwidth.
Grown(old, new) == \A i \in DOMAIN old : i \in DOMAIN new /\ new[i].bandwidth = old[i].bandwidth
GrownInv == Grown(legs["circuits"].list, circuits)

IInv == SourcesInv /\ LegsInv /\ HistoryInv /\ ShownInv /\ GrownInv

\* With nothing in them, all is in order.
LEMMA EmptyOK ==
  /\ CircuitsHeld(<<>>) /\ AggOK(<<>>) /\ SdpsHeld(<<>>)
  /\ CircuitsOK(<<>>) /\ SdpsOK(<<>>)
BY DEF CircuitsHeld, AggOK, SdpsHeld, CircuitsOK, SdpsOK

\* A sequence fits if it is no longer than the limit.
LEMMA FitsByLength ==
  ASSUME NEW S, NEW list \in Seq(S) PROVE Cardinality(DOMAIN list) = Len(list)
<1>1. Len(list) \in Nat /\ DOMAIN list = 1..Len(list)
  OBVIOUS
<1>2. Cardinality(1..Len(list)) = Len(list)
  BY <1>1, FS_Interval
<1> QED BY <1>1, <1>2

\* So an answer's circuits are numbered as they are.
LEMMA CircuitsAnswered ==
  ASSUME NEW list, CircuitsHeld(list), NEW page \in PagesOf(list, CircuitLimit)
  PROVE  CircuitsOK(page)
<1>1. /\ DOMAIN list = 1..Len(list) /\ Len(list) \in Nat
      /\ \A i \in DOMAIN list : list[i] \in CircuitSet /\ list[i].sub = i
      /\ \A i, j \in DOMAIN list :
           list[i].connection = list[j].connection /\ list[i].connection # Nothing => i = j
  BY DEF CircuitsHeld
<1>2. DOMAIN page \subseteq DOMAIN list /\ \A i \in DOMAIN page : page[i] = list[i]
  BY PageIsPart
<1> QED BY <1>1, <1>2 DEF CircuitsOK
\* Its SDPs too.
LEMMA SdpsAnswered ==
  ASSUME NEW list, SdpsHeld(list), NEW page \in PagesOf(list, SdpLimit)
  PROVE  SdpsOK(page)
<1>1. /\ DOMAIN list = 1..Len(list) /\ Len(list) \in Nat
      /\ \A i \in DOMAIN list : list[i] \in SdpSet /\ list[i].sub = i
  BY DEF SdpsHeld
<1>2. DOMAIN page \subseteq DOMAIN list /\ \A i \in DOMAIN page : page[i] = list[i]
  BY PageIsPart
<1> QED BY <1>1, <1>2 DEF SdpsOK

\* It holds at first.
LEMMA IInvInit == Init => IInv
<1> SUFFICES ASSUME Init PROVE IInv
  OBVIOUS
<1>1. SourcesInv /\ LegsInv
  BY EmptyOK DEF Init, SourcesInv, LegsInv, Pending, Leg
<1>2. HistoryInv /\ ShownInv /\ GrownInv
  BY DEF Init, HistoryInv, ShownInv, GrownInv, Grown, Pending, Leg
<1> QED BY <1>1, <1>2 DEF IInv

\* A change of the sources, whatever it is.
LEMMA EditKeeps ==
  ASSUME IInv, NEW c, NEW r, NEW s, CircuitsHeld(c), AggOK(r), SdpsHeld(s),
         Grown(circuits, c), Len(circuits) <= Len(c), Len(sdps) <= Len(s),
         Len(r) = connections', Edit(c, r, s)
  PROVE  IInv'
<1>1. circuits' = c /\ reservations' = r /\ sdps' = s
  BY DEF Edit
<1>2. CASE status = "asking"
  <2>1. UNCHANGED <<legs, rows, status>>
    BY <1>2 DEF Edit
  <2>2. /\ always' = [leg \in Leg |-> always[leg] \cap Holdings(c, r, s)[leg]]
        /\ ever' = [leg \in Leg |-> ever[leg] \cup Holdings(c, r, s)[leg]]
    BY <1>2 DEF Edit
  <2>3. SourcesInv' /\ LegsInv' /\ ShownInv'
    BY <1>1, <1>2, <2>1, <2>2 DEF IInv, SourcesInv, LegsInv, ShownInv
  <2>4. HistoryInv'
    <3>1. \A leg \in Leg : Fits(leg)' => Fits(leg)
      <4>1. Len(circuits) \in Nat /\ Len(circuits') \in Nat /\ Len(sdps) \in Nat /\ Len(sdps') \in Nat
        BY <1>1 DEF IInv, SourcesInv, CircuitsHeld, SdpsHeld
      <4>2. CircuitLimit \in Nat /\ SdpLimit \in Nat
        BY SpectrumAssumption
      <4>3. /\ Fits("circuits")' => Fits("circuits")
            /\ Fits("agg")
            /\ Fits("sdp")' => Fits("sdp")
        BY <1>1, <4>1, <4>2 DEF Fits
      <4> QED BY <4>3 DEF Leg
    <3>2. \A leg \in Leg : always'[leg] \subseteq always[leg]
      BY <2>2
    <3>3. \A leg \in Leg : \/ Certain(leg)' = always'[leg] \cap InSeq(legs[leg].list)
                           \/ Certain(leg)' = always'[leg] /\ Fits(leg)'
      BY <2>1, Zenon DEF Certain
    <3>4. \A leg \in Leg : legs[leg].answered => Certain(leg)' \subseteq InSeq(legs[leg].list)
      <4> SUFFICES ASSUME NEW leg \in Leg, legs[leg].answered
                   PROVE  Certain(leg)' \subseteq InSeq(legs[leg].list)
        OBVIOUS
      <4>1. Fits(leg) => always[leg] \subseteq InSeq(legs[leg].list)
        BY DEF IInv, HistoryInv, Certain
      <4> QED BY <3>1, <3>2, <3>3, <4>1
    <3>5. \A leg \in Leg : InSeq(legs[leg].list) \subseteq ever'[leg] \/ ~legs[leg].answered
      BY <2>2 DEF IInv, HistoryInv
    <3>6. \A leg \in Leg : /\ always'[leg] \subseteq Holdings(circuits, reservations, sdps)'[leg]
                           /\ Holdings(circuits, reservations, sdps)'[leg] \subseteq ever'[leg]
      BY <1>1, <2>2
    <3> QED BY <2>1, <3>4, <3>5, <3>6 DEF HistoryInv
  <2>5. GrownInv'
    BY <1>1, <2>1 DEF IInv, GrownInv, Grown
  <2> QED BY <2>3, <2>4, <2>5 DEF IInv
<1>3. CASE status # "asking"
  <2>1. /\ status' = "idle" /\ rows' = {} /\ legs' = [leg \in Leg |-> Pending]
        /\ always' = [leg \in Leg |-> {}] /\ ever' = [leg \in Leg |-> {}]
    BY <1>3 DEF Edit
  <2> QED BY <1>1, <2>1, EmptyOK DEF IInv, SourcesInv, LegsInv, HistoryInv, ShownInv, GrownInv, Grown, Pending, Leg
<1> QED BY <1>2, <1>3

\* One field of a circuit.
LEMMA CircuitConnected ==
  ASSUME NEW circuit \in CircuitSet, NEW connection \in Nat
  PROVE  LET new == [circuit EXCEPT !.connection = connection] IN
         new \in CircuitSet /\ new.sub = circuit.sub /\ new.connection = connection
         /\ new.bandwidth = circuit.bandwidth
BY DEF CircuitSet
\* The same, of its state.
LEMMA CircuitTerminated ==
  ASSUME NEW circuit \in CircuitSet
  PROVE  LET new == [circuit EXCEPT !.state = "TERMINATED"] IN
         new \in CircuitSet /\ new.sub = circuit.sub /\ new.connection = circuit.connection
         /\ new.bandwidth = circuit.bandwidth
BY DEF CircuitSet

\* Every change of a source keeps the invariant.
LEMMA SourcesKeep ==
  ASSUME IInv, CreateCircuit \/ Reserve \/ Connect \/ TerminateCircuit \/ CreateSdp
  PROVE  IInv'
<1>1. /\ CircuitsHeld(circuits) /\ AggOK(reservations) /\ SdpsHeld(sdps)
      /\ Len(reservations) = connections /\ connections \in Nat
      /\ Grown(circuits, circuits) /\ Len(circuits) <= Len(circuits) /\ Len(sdps) <= Len(sdps)
  BY DEF IInv, SourcesInv, AggOK, Grown, CircuitsHeld, SdpsHeld
<1>2. CASE CreateCircuit
  <2>1. PICK bandwidth \in Bandwidth :
          Edit(Append(circuits, [sub |-> Len(circuits) + 1, connection |-> Nothing,
                                 bandwidth |-> bandwidth, state |-> "RESERVED"]), reservations, sdps)
    BY <1>2 DEF CreateCircuit
  <2> DEFINE new == [sub |-> Len(circuits) + 1, connection |-> Nothing, bandwidth |-> bandwidth, state |-> "RESERVED"]
             c == Append(circuits, new)
  <2>2. new \in CircuitSet /\ new.sub = Len(circuits) + 1 /\ new.connection = Nothing
    BY <1>1, SpectrumAssumption DEF CircuitSet, Nothing, CircuitsHeld
  <2> HIDE DEF new
  <2>3. /\ c \in Seq(CircuitSet) /\ Len(c) = Len(circuits) + 1 /\ Len(circuits) \in Nat
        /\ c[Len(circuits) + 1] = new /\ \A i \in 1..Len(circuits) : c[i] = circuits[i]
    BY <1>1, <2>2 DEF CircuitsHeld
  <2> HIDE DEF c
  <2>4. CircuitsHeld(c)
    BY <1>1, <2>2, <2>3 DEF CircuitsHeld
  <2>5. Edit(c, reservations, sdps) /\ connections' = connections
    BY <1>2, <2>1 DEF c, new, CreateCircuit
  <2>6. Grown(circuits, c) /\ Len(circuits) <= Len(c)
    BY <1>1, <2>3 DEF Grown, CircuitsHeld
  <2> QED BY <1>1, <2>4, <2>5, <2>6, EditKeeps
<1>3. CASE Reserve
  <2>1. PICK path \in Path :
          Edit(circuits, Append(reservations, [connection |-> connections + 1, segments |-> path]), sdps)
    BY <1>3 DEF Reserve
  <2> DEFINE r == Append(reservations, [connection |-> connections + 1, segments |-> path])
  <2> DEFINE new == [connection |-> connections + 1, segments |-> path]
  <2>2. AggOK(r) /\ Len(r) = connections + 1
    <3>1. new \in AggSet /\ new.connection = connections + 1
      BY <1>1 DEF AggSet
    <3> HIDE DEF new
    <3>2. /\ r = Append(reservations, new)
      BY DEF new
    <3> HIDE DEF r
    <3> QED BY <1>1, <3>1, <3>2 DEF AggOK
  <2>3. connections' = connections + 1
    BY <1>3 DEF Reserve
  <2> HIDE DEF r
  <2>4. Edit(circuits, r, sdps)
    BY <2>1 DEF r
  <2> QED BY <1>1, <2>2, <2>3, <2>4, EditKeeps
<1>4. CASE Connect
  <2>1. PICK k \in DOMAIN circuits, connection \in 1..connections :
          /\ \A j \in DOMAIN circuits : circuits[j].connection < connection
          /\ Edit([circuits EXCEPT ![k].connection = connection], reservations, sdps)
    BY <1>4 DEF Connect
  <2> DEFINE c == [circuits EXCEPT ![k].connection = connection]
  <2>2. CircuitsHeld(c) /\ Grown(circuits, c) /\ Len(circuits) <= Len(c)
    <3> DEFINE new == [circuits[k] EXCEPT !.connection = connection]
    <3>1. circuits \in Seq(CircuitSet) /\ \A i \in 1..Len(circuits) : circuits[i] \in CircuitSet
      BY <1>1 DEF CircuitsHeld
    <3>2. new \in CircuitSet /\ new.sub = circuits[k].sub /\ new.connection = connection
          /\ new.bandwidth = circuits[k].bandwidth
      BY <3>1, CircuitConnected
    <3>3. \A i \in 1..Len(circuits) : circuits[i].connection \in Nat /\ circuits[i].connection < connection
      BY <2>1, <3>1 DEF CircuitSet
    <3>4. c = [circuits EXCEPT ![k] = new]
      OBVIOUS
    <3> HIDE DEF new, c
    <3>5. /\ c \in Seq(CircuitSet) /\ Len(c) = Len(circuits)
          /\ \A i \in 1..Len(circuits) : c[i] = IF i = k THEN new ELSE circuits[i]
      BY <3>1, <3>2, <3>4
    <3>6. \A i \in 1..Len(c) : c[i].sub = i
      BY <1>1, <3>2, <3>5 DEF CircuitsHeld
    <3>7. \A i, j \in 1..Len(c) : c[i].connection = c[j].connection /\ c[i].connection # Nothing => i = j
      <4> TAKE i, j \in 1..Len(c)
      <4> HAVE c[i].connection = c[j].connection /\ c[i].connection # Nothing
      <4>1. i \in 1..Len(circuits) /\ j \in 1..Len(circuits)
        BY <3>5
      <4>2. (i # k /\ j # k) \/ (i = k /\ j = k)
        BY <3>2, <3>3, <3>5, <4>1
      <4> QED BY <1>1, <3>5, <4>1, <4>2 DEF CircuitsHeld
    <3>8. Grown(circuits, c)
      BY <3>1, <3>2, <3>5 DEF Grown
    <3> QED BY <3>1, <3>5, <3>6, <3>7, <3>8 DEF CircuitsHeld
  <2> HIDE DEF c
  <2>3. Edit(c, reservations, sdps) /\ connections' = connections
    BY <1>4, <2>1 DEF c, Connect
  <2> QED BY <1>1, <2>2, <2>3, EditKeeps
<1>5. CASE TerminateCircuit
  <2>1. PICK k \in DOMAIN circuits : Edit([circuits EXCEPT ![k].state = "TERMINATED"], reservations, sdps)
    BY <1>5 DEF TerminateCircuit
  <2> DEFINE c == [circuits EXCEPT ![k].state = "TERMINATED"]
  <2>2. CircuitsHeld(c) /\ Grown(circuits, c) /\ Len(circuits) <= Len(c)
    <3> DEFINE new == [circuits[k] EXCEPT !.state = "TERMINATED"]
    <3>1. circuits \in Seq(CircuitSet) /\ \A i \in 1..Len(circuits) : circuits[i] \in CircuitSet
      BY <1>1 DEF CircuitsHeld
    <3>2. new \in CircuitSet /\ new.sub = circuits[k].sub /\ new.connection = circuits[k].connection
          /\ new.bandwidth = circuits[k].bandwidth
      BY <3>1, CircuitTerminated
    <3>3. c = [circuits EXCEPT ![k] = new]
      OBVIOUS
    <3> HIDE DEF new, c
    <3>4. /\ c \in Seq(CircuitSet) /\ Len(c) = Len(circuits)
          /\ \A i \in 1..Len(circuits) : c[i] = IF i = k THEN new ELSE circuits[i]
      BY <3>1, <3>2, <3>3
    <3>5. \A i \in 1..Len(c) : c[i].sub = i
      BY <1>1, <3>2, <3>4 DEF CircuitsHeld
    <3>6. \A i, j \in 1..Len(c) : c[i].connection = c[j].connection /\ c[i].connection # Nothing => i = j
      BY <1>1, <3>2, <3>4 DEF CircuitsHeld
    <3>7. Grown(circuits, c)
      BY <3>1, <3>2, <3>4 DEF Grown
    <3> QED BY <3>1, <3>4, <3>5, <3>6, <3>7 DEF CircuitsHeld
  <2> HIDE DEF c
  <2>3. Edit(c, reservations, sdps) /\ connections' = connections
    BY <1>5, <2>1 DEF c, TerminateCircuit
  <2> QED BY <1>1, <2>2, <2>3, EditKeeps
<1>6. CASE CreateSdp
  <2>1. PICK stps \in SdpStps :
          Edit(circuits, reservations, Append(sdps, [sub |-> Len(sdps) + 1, stps |-> stps]))
    BY <1>6 DEF CreateSdp
  <2> DEFINE s == Append(sdps, [sub |-> Len(sdps) + 1, stps |-> stps])
  <2> DEFINE new == [sub |-> Len(sdps) + 1, stps |-> stps]
  <2>2. SdpsHeld(s) /\ Len(sdps) <= Len(s)
    <3>1. new \in SdpSet /\ new.sub = Len(sdps) + 1
      BY <1>1 DEF SdpsHeld, SdpSet
    <3> HIDE DEF new
    <3>2. s = Append(sdps, new)
      BY DEF new
    <3> HIDE DEF s
    <3> QED BY <1>1, <3>1, <3>2 DEF SdpsHeld
  <2> HIDE DEF s
  <2>3. Edit(circuits, reservations, s) /\ connections' = connections
    BY <1>6, <2>1 DEF s, CreateSdp
  <2> QED BY <1>1, <2>2, <2>3, EditKeeps
<1> QED BY <1>2, <1>3, <1>4, <1>5, <1>6

\* An answer holds what its source does, up to its query's limit, and the source
\* all that stayed.
LEMMA AnswerKeeps ==
  ASSUME IInv, NEW leg \in Leg, Answer(leg)
  PROVE  IInv'
<1>1. /\ status = "asking"
      /\ UNCHANGED <<circuits, reservations, sdps, connections, rows, status, edits, always, ever>>
  BY DEF Answer
<1>2. PICK list \in MayAnswer(leg) : legs' = [legs EXCEPT ![leg] = [answered |-> TRUE, list |-> list]]
  BY DEF Answer, Read
<1>3. DOMAIN legs' = Leg /\ legs'[leg] = [answered |-> TRUE, list |-> list]
      /\ \A other \in Leg \ {leg} : legs'[other] = legs[other]
  BY <1>2 DEF IInv, LegsInv
<1> DEFINE held == Holdings(circuits, reservations, sdps)[leg]
<1>4. /\ InSeq(list) \subseteq held /\ (Fits(leg) => InSeq(list) = held)
      /\ leg = "circuits" => CircuitsOK(list) /\ Grown(list, circuits)
      /\ leg = "agg" => AggOK(list)
      /\ leg = "sdp" => SdpsOK(list)
  <2>1. CASE leg = "circuits"
    <3>1. CircuitsHeld(circuits) /\ list \in PagesOf(circuits, CircuitLimit)
      BY <1>2, <2>1 DEF MayAnswer, IInv, SourcesInv
    <3>2. /\ DOMAIN list \subseteq DOMAIN circuits /\ \A i \in DOMAIN list : list[i] = circuits[i]
          /\ Cardinality(DOMAIN circuits) <= CircuitLimit => list = circuits
      BY <3>1, PageIsPart
    <3>3. Cardinality(DOMAIN circuits) = Len(circuits)
      BY <3>1, FitsByLength DEF CircuitsHeld
    <3>4. held = InSeq(circuits) /\ (Fits(leg) => list = circuits)
      BY <2>1, <3>2, <3>3 DEF Holdings, Fits
    <3>5. InSeq(list) \subseteq InSeq(circuits) /\ Grown(list, circuits)
      BY <3>2 DEF InSeq, Grown
    <3> HIDE DEF held
    <3> QED BY <2>1, <3>1, <3>4, <3>5, CircuitsAnswered
  <2>2. CASE leg = "agg"
    <3>1. list = reservations
      BY <1>2, <2>2 DEF MayAnswer
    <3> QED BY <2>2, <3>1 DEF Holdings, IInv, SourcesInv
  <2>3. CASE leg = "sdp"
    <3>1. SdpsHeld(sdps) /\ list \in PagesOf(sdps, SdpLimit)
      BY <1>2, <2>3 DEF MayAnswer, IInv, SourcesInv
    <3>2. /\ DOMAIN list \subseteq DOMAIN sdps /\ \A i \in DOMAIN list : list[i] = sdps[i]
          /\ Cardinality(DOMAIN sdps) <= SdpLimit => list = sdps
      BY <3>1, PageIsPart
    <3>3. Cardinality(DOMAIN sdps) = Len(sdps)
      BY <3>1, FitsByLength DEF SdpsHeld
    <3>4. held = InSeq(sdps) /\ (Fits(leg) => list = sdps)
      BY <2>3, <3>2, <3>3 DEF Holdings, Fits
    <3>5. InSeq(list) \subseteq InSeq(sdps)
      BY <3>2 DEF InSeq
    <3> HIDE DEF held
    <3> QED BY <2>3, <3>1, <3>4, <3>5, SdpsAnswered
  <2> QED BY <2>1, <2>2, <2>3 DEF Leg
<1>5. LegsInv'
  BY <1>1, <1>3, <1>4 DEF IInv, LegsInv, Leg
<1>6. HistoryInv'
  <2>1. always[leg] \subseteq held /\ held \subseteq ever[leg]
    BY <1>1 DEF IInv, HistoryInv
  <2>2. Certain(leg)' = IF Fits(leg) THEN always[leg] ELSE always[leg] \cap InSeq(list)
    <3>1. Fits(leg)' = Fits(leg)
      BY <1>1 DEF Fits
    <3>2. legs'[leg].list = list
      BY <1>3
    <3> QED BY <1>1, <3>1, <3>2 DEF Certain
  <2>3. Certain(leg)' \subseteq InSeq(list) /\ InSeq(list) \subseteq ever[leg]
    <3> HIDE DEF held
    <3> QED BY <1>4, <2>1, <2>2
  <2>4. \A other \in Leg \ {leg} : legs[other].answered =>
          Certain(other)' \subseteq InSeq(legs'[other].list) /\ InSeq(legs'[other].list) \subseteq ever[other]
    <3>1. \A other \in Leg \ {leg} : Certain(other)' = Certain(other)
      BY <1>1, <1>3 DEF Certain, Fits
    <3> QED BY <1>1, <1>3, <3>1 DEF IInv, HistoryInv
  <2>5. \A other \in Leg : /\ always[other] \subseteq Holdings(circuits, reservations, sdps)[other]
                           /\ Holdings(circuits, reservations, sdps)[other] \subseteq ever[other]
    BY <1>1 DEF IInv, HistoryInv
  <2> HIDE DEF held
  <2> QED BY <1>1, <1>3, <2>3, <2>4, <2>5 DEF HistoryInv
<1>7. SourcesInv' /\ ShownInv'
  BY <1>1 DEF IInv, SourcesInv, ShownInv
<1>8. GrownInv'
  <2>1. \/ legs'["circuits"].list = list /\ leg = "circuits"
       \/ legs'["circuits"].list = legs["circuits"].list
    BY <1>3 DEF Leg
  <2> QED BY <1>1, <1>4, <2>1 DEF IInv, GrownInv, Grown
<1> QED BY <1>5, <1>6, <1>7, <1>8 DEF IInv

\* A request starts the history; the page is the join of the answers.
LEMMA PageKeeps ==
  ASSUME IInv, Request \/ Compose
  PROVE  IInv'
<1>1. CASE Request
  <2>1. /\ status' = "asking" /\ rows' = {} /\ legs' = [leg \in Leg |-> Pending]
        /\ always' = Holdings(circuits, reservations, sdps) /\ ever' = Holdings(circuits, reservations, sdps)
        /\ UNCHANGED <<circuits, reservations, sdps, connections>>
    BY <1>1 DEF Request
  <2>2. DOMAIN Holdings(circuits, reservations, sdps) = Leg
    BY DEF Holdings, Leg
  <2>3. LegsInv'
    BY <2>1, <2>2, EmptyOK DEF LegsInv, Pending, Leg
  <2>4. SourcesInv' /\ ShownInv' /\ HistoryInv' /\ GrownInv'
    BY <2>1 DEF IInv, SourcesInv, HistoryInv, ShownInv, GrownInv, Grown, Pending, Leg
  <2> QED BY <2>3, <2>4 DEF IInv
<1>2. CASE Compose
  <2>1. /\ status = "asking" /\ status' = "shown"
        /\ \A leg \in Leg : legs[leg].answered
        /\ rows' = BuildSpectrum(legs["sdp"].list, legs["agg"].list, legs["circuits"].list)
        /\ UNCHANGED <<circuits, reservations, sdps, connections, legs, edits, always, ever>>
    BY <1>2 DEF Compose
  <2>2. SourcesInv' /\ LegsInv' /\ GrownInv'
    BY <2>1 DEF IInv, SourcesInv, LegsInv, GrownInv, Grown
  <2>4. \A leg \in Leg : Certain(leg)' = Certain(leg)
    BY <2>1 DEF Certain, Fits
  <2>5. HistoryInv'
    BY <2>1, <2>4 DEF IInv, HistoryInv
  <2>3. ShownInv'
    BY <2>1 DEF ShownInv
  <2> QED BY <2>2, <2>3, <2>5 DEF IInv
<1> QED BY <1>1, <1>2

\* The invariant, always.
LEMMA IInvAlways == Spec => []IInv
<1>1. ASSUME IInv, [Next]_vars PROVE IInv'
  <2>1. CASE UNCHANGED vars
    BY <1>1, <2>1 DEF vars, IInv, SourcesInv, LegsInv, HistoryInv, ShownInv, GrownInv, Grown, Certain, Fits
  <2>2. CASE Next
    BY <1>1, <2>2, SourcesKeep, AnswerKeeps, PageKeeps DEF Next
  <2> QED BY <1>1, <2>1, <2>2
<1> QED BY <1>1, IInvInit, PTL DEF Spec

-----------------------------------------------------------------------------
\* What is known of the answers once the page is shown.
LEMMA ShownAre ==
  ASSUME IInv, status = "shown"
  PROVE  /\ AggOK(legs["agg"].list) /\ CircuitsOK(legs["circuits"].list) /\ SdpsOK(legs["sdp"].list)
         /\ rows = BuildSpectrum(legs["sdp"].list, legs["agg"].list, legs["circuits"].list)
         /\ \A leg \in Leg : Certain(leg) \subseteq InSeq(legs[leg].list) /\ InSeq(legs[leg].list) \subseteq ever[leg]
         /\ Certain("agg") = always["agg"]
BY DEF IInv, LegsInv, HistoryInv, ShownInv, Certain, Fits

\* The answers are joined on their connections.
LEMMA AnswersJoin ==
  ASSUME NEW A, NEW C, AggOK(A), CircuitsOK(C), NEW p
  PROVE  p \in WfoBackedPairs(A, C) <=>
           \E i \in 1..Len(A), j \in DOMAIN C : Joined(A, C, i, j) /\ p = [agg |-> A[i], wfo |-> C[j]]
<1>1. DOMAIN A = 1..Len(A)
  BY DEF AggOK
<1>2. \A i \in DOMAIN A : A[i].connection # Nothing
  BY <1>1 DEF AggOK, Nothing
<1>3. \A i, j \in DOMAIN C : C[i].connection = C[j].connection /\ C[i].connection # Nothing => i = j
  BY DEF CircuitsOK
<1>4. PICK n \in Nat : DOMAIN C \subseteq 1..n
  BY DEF CircuitsOK
<1>5. p \in WfoBackedPairs(A, C) <=> IsJoin(A, C, p)
  BY <1>2, <1>3, <1>4, BackedRight, Zenon
<1> QED BY <1>1, <1>5 DEF IsJoin

\* Each pair joined is of a circuit and of a path that there were, on the same connection.
LEMMA JoinedWere ==
  ASSUME IInv, status = "shown", NEW p \in WfoBackedPairs(legs["agg"].list, legs["circuits"].list)
  PROVE  /\ p.wfo \in ever["circuits"] /\ p.agg \in ever["agg"]
         /\ IsOpen(p.wfo) /\ p.agg.connection = p.wfo.connection
         /\ p.agg.segments \in Seq(Segment)
<1> DEFINE A == legs["agg"].list
           C == legs["circuits"].list
<1>1. AggOK(A) /\ CircuitsOK(C)
  BY ShownAre
<1>2. InSeq(A) \subseteq ever["agg"] /\ InSeq(C) \subseteq ever["circuits"]
  BY ShownAre DEF Leg
<1> HIDE DEF A, C
<1>3. PICK i \in 1..Len(A), j \in DOMAIN C : Joined(A, C, i, j) /\ p = [agg |-> A[i], wfo |-> C[j]]
  <2>1. p \in WfoBackedPairs(A, C)
    BY DEF A, C
  <2> QED BY <1>1, <2>1, AnswersJoin
<1>4. DOMAIN A = 1..Len(A) /\ A[i] \in AggSet
  BY <1>1 DEF AggOK
<1>5. A[i] \in InSeq(A) /\ C[j] \in InSeq(C)
  BY <1>4 DEF InSeq
<1>6. A[i].segments \in Seq(Segment)
  BY <1>4, SpectrumAssumption DEF AggSet
<1> QED BY <1>2, <1>3, <1>5, <1>6 DEF Joined

\* A shown circuit is an open one the orchestrator has, on a path over the SDP it is shown on.
LEMMA IInvShown == IInv => OnlyOpenCircuitsShown
<1> SUFFICES ASSUME IInv, NEW row \in rows, NEW shown \in row.circuits
             PROVE  \E circuit \in ever["circuits"], reservation \in ever["agg"] :
                      /\ circuit.sub = shown.sub /\ IsOpen(circuit)
                      /\ circuit.connection = reservation.connection
                      /\ row.pair \subseteq StpsOn(reservation.segments)
  BY DEF OnlyOpenCircuitsShown
<1> DEFINE A == legs["agg"].list
           C == legs["circuits"].list
           S == legs["sdp"].list
<1>1. status = "shown"
  BY DEF IInv, ShownInv
<1>2. row \in BuildSpectrum(S, A, C)
  BY <1>1, ShownAre
<1> SUFFICES \E p \in WfoBackedPairs(A, C) : p.wfo.sub = shown.sub /\ row.pair \subseteq StpsOn(p.agg.segments)
  BY <1>1, JoinedWere
<1>3. ASSUME NEW k \in DOMAIN S, row = SpectrumRow(S[k], OnTheSdp(A, C, S[k]))
      PROVE  \E p \in WfoBackedPairs(A, C) : p.wfo.sub = shown.sub /\ row.pair \subseteq StpsOn(p.agg.segments)
  <2>1. row.pair = PairOfSub(S[k]) /\ shown \in {CircuitOnSdp(p, PairOfSub(S[k])) : p \in OnTheSdp(A, C, S[k])}
    BY <1>3, SdpRowFields
  <2>2. PICK p \in OnTheSdp(A, C, S[k]) : shown = CircuitOnSdp(p, PairOfSub(S[k]))
    BY <2>1
  <2>3. p \in WfoBackedPairs(A, C) /\ PairOfSub(S[k]) \subseteq Touched(p.agg)
    BY DEF OnTheSdp, Crosses
  <2>4. Touched(p.agg) \subseteq StpsOn(p.agg.segments)
    BY <1>1, <2>3, JoinedWere, TouchedRight
  <2> QED BY <2>1, <2>2, <2>3, <2>4 DEF CircuitOnSdp
<1>4. ASSUME NEW members \in SUBSET WfoBackedPairs(A, C), row = UnattributedRow(members)
      PROVE  \E p \in WfoBackedPairs(A, C) : p.wfo.sub = shown.sub /\ row.pair \subseteq StpsOn(p.agg.segments)
  <2>1. row.pair = {} /\ shown \in {CircuitOnSdp(p, {}) : p \in members}
    BY <1>4, StrayRowFields
  <2> QED BY <2>1 DEF CircuitOnSdp
<1> QED BY <1>2, <1>3, <1>4, RowsAre

\* The VLAN found along the ends in order is of an end at the SDP.
LEMMA IInvVlan == IInv => VlanOfTheSdp
<1> SUFFICES ASSUME IInv, NEW row \in RealSdps(rows), NEW circuit \in row.circuits
             PROVE  \E reservation \in ever["agg"] :
                      LET ends == {reservation.segments[j].source : j \in DOMAIN reservation.segments}
                                  \cup {reservation.segments[j].dest : j \in DOMAIN reservation.segments}
                          vlans == {e.vlan : e \in {x \in ends : x.local \in row.pair}} \ {Nothing}
                      IN IF vlans = {} THEN circuit.vlan = Nothing ELSE circuit.vlan \in vlans
  BY DEF VlanOfTheSdp
<1> DEFINE A == legs["agg"].list
           C == legs["circuits"].list
           S == legs["sdp"].list
<1>1. row \in rows /\ row.sub # Unattributed /\ status = "shown"
  BY DEF RealSdps, IInv, ShownInv
<1>2. row \in BuildSpectrum(S, A, C)
  BY <1>1, ShownAre
<1>3. PICK k \in DOMAIN S : PairOfSub(S[k]) # {} /\ row = SpectrumRow(S[k], OnTheSdp(A, C, S[k]))
  BY <1>1, <1>2, RowsAre, StrayRowFields
<1>4. row.pair # {} /\ circuit \in {CircuitOnSdp(p, row.pair) : p \in OnTheSdp(A, C, S[k])}
  BY <1>3, SdpRowFields
<1>5. PICK p \in OnTheSdp(A, C, S[k]) : circuit = CircuitOnSdp(p, row.pair)
  BY <1>4
<1>6. p.agg \in ever["agg"] /\ p.agg.segments \in Seq(Segment)
  BY <1>1, JoinedWere DEF OnTheSdp
<1>7. circuit.vlan = VlanOnSdp(p.agg, row.pair)
  BY <1>4, <1>5 DEF CircuitOnSdp
<1> HIDE DEF A, C, S
<1> DEFINE path == p.agg.segments
           ends == {path[j].source : j \in DOMAIN path} \cup {path[j].dest : j \in DOMAIN path}
           vlans == {e.vlan : e \in {x \in ends : x.local \in row.pair}} \ {Nothing}
           all == SegmentEnds(p.agg)
           tagged == {i \in DOMAIN all : all[i].local \in row.pair /\ all[i].vlan # Nothing}
<1>8. circuit.vlan = IF tagged = {} THEN Nothing ELSE all[Min(tagged)].vlan
  BY <1>7 DEF VlanOnSdp, NormalizeId
<1>9. DOMAIN all = 1..(2 * Len(path)) /\ Len(path) \in Nat
  BY <1>6 DEF SegmentEnds
<1>10. tagged # {} => Min(tagged) \in tagged
  <2>1. tagged \in SUBSET (1..(2 * Len(path))) /\ 2 * Len(path) \in Nat
    BY <1>9
  <2> HIDE DEF tagged
  <2> QED BY <2>1, MinIsOne
<1>11. {all[i] : i \in DOMAIN all} = ends
  BY <1>6, SegmentEndsAre
<1> HIDE DEF all, ends
<1>12. vlans = {all[i].vlan : i \in tagged}
  BY <1>11
<1> HIDE DEF vlans, tagged
<1>13. IF vlans = {} THEN circuit.vlan = Nothing ELSE circuit.vlan \in vlans
  BY <1>8, <1>10, <1>12
<1> QED BY <1>6, <1>13 DEF vlans, ends

-----------------------------------------------------------------------------
\* A circuit and its path that stayed are on the links the path is over.

\* One pair is joined for the circuit.
LEMMA OnePairing ==
  ASSUME NEW A, NEW C, AggOK(A), CircuitsOK(C),
         NEW circuit \in InSeq(C), NEW reservation \in InSeq(A),
         IsOpen(circuit), circuit.connection = reservation.connection
  PROVE  LET pairing == [agg |-> reservation, wfo |-> circuit]
         IN /\ pairing \in WfoBackedPairs(A, C)
            /\ \A p \in WfoBackedPairs(A, C) : p.wfo.sub = circuit.sub => p = pairing
<1>1. /\ DOMAIN A = 1..Len(A) /\ \A i \in 1..Len(A) : A[i].connection = i
      /\ \A j \in DOMAIN C : C[j].sub = j
  BY DEF AggOK, CircuitsOK
<1>2. PICK i \in 1..Len(A), j \in DOMAIN C : reservation = A[i] /\ circuit = C[j]
  BY <1>1 DEF InSeq
<1>3. [agg |-> reservation, wfo |-> circuit] \in WfoBackedPairs(A, C)
  BY <1>2, AnswersJoin DEF Joined
<1>4. ASSUME NEW p \in WfoBackedPairs(A, C), p.wfo.sub = circuit.sub
      PROVE  p = [agg |-> reservation, wfo |-> circuit]
  <2>1. PICK m \in 1..Len(A), n \in DOMAIN C : Joined(A, C, m, n) /\ p = [agg |-> A[m], wfo |-> C[n]]
    BY AnswersJoin
  <2>2. n = j
    BY <1>1, <1>2, <1>4, <2>1
  <2>3. m = i
    BY <1>1, <1>2, <2>1, <2>2 DEF Joined
  <2> QED BY <1>2, <2>1, <2>2, <2>3
<1> QED BY <1>3, <1>4

\* The row of a link that stayed.
LEMMA LinksRow ==
  ASSUME IInv, status = "shown", NEW sdp \in Certain("sdp"), IsLink(sdp)
  PROVE  LET row == SpectrumRow(sdp, OnTheSdp(legs["agg"].list, legs["circuits"].list, sdp)) IN
         /\ RowOf(sdp) = row /\ row \in RealSdps(rows)
         /\ sdp.stps \in Seq(StpMember)
<1> DEFINE A == legs["agg"].list
           C == legs["circuits"].list
           S == legs["sdp"].list
           row == SpectrumRow(sdp, OnTheSdp(A, C, sdp))
<1>1. SdpsOK(S) /\ rows = BuildSpectrum(S, A, C) /\ Certain("sdp") \subseteq InSeq(S)
  BY ShownAre DEF Leg
<1> HIDE DEF A, C, S
<1>2. /\ \A k \in DOMAIN S : S[k].stps \in Seq(StpMember)
      /\ \A k \in DOMAIN S : S[k].sub = k /\ S[k].sub # Unattributed
  <2>1. \A k \in DOMAIN S : S[k] \in SdpSet
    BY <1>1 DEF SdpsOK
  <2>2. \A k \in DOMAIN S : S[k].stps \in SdpStps
    BY <2>1 DEF SdpSet
  <2>3. \A k \in DOMAIN S : S[k].sub = k /\ S[k].sub # Unattributed
    BY <1>1 DEF SdpsOK, Unattributed
  <2> QED BY <1>1, <2>2, <2>3, SpectrumAssumption DEF SdpsOK
<1>3. PICK k \in DOMAIN S : sdp = S[k]
  BY <1>1, <1>2 DEF InSeq
<1>4. row \in RealSdps(rows) /\ \A other \in RealSdps(rows) : other.sub = sdp.sub => other = row
  <2>1. k \in DOMAIN S /\ IsLink(S[k]) /\ S[k].stps \in Seq(StpMember) /\ S[k].sub # Unattributed
        /\ \A i \in DOMAIN S : S[i].sub = S[k].sub => i = k
    BY <1>2, <1>3
  <2> QED BY <1>1, <1>3, <2>1, LinkHasRow
<1>5. row.sub = sdp.sub
  BY SdpRowFields
<1> HIDE DEF row
<1>6. RowOf(sdp) = row
  BY <1>4, <1>5 DEF RowOf
<1> QED BY <1>2, <1>3, <1>4, <1>6 DEF row, A, C

\* The joined pair is on the rows it belongs on.
LEMMA IInvPlaced == IInv => StableCircuitsPlaced
<1> SUFFICES ASSUME IInv, status = "shown",
                    NEW circuit \in Certain("circuits"), NEW reservation \in always["agg"],
                    IsOpen(circuit), circuit.connection = reservation.connection
             PROVE  /\ \A sdp \in Certain("sdp") :
                         IsLink(sdp) => (RowOf(sdp) \in SdpsCrossed(rows, circuit.sub) <=> Over(reservation.segments, sdp))
                    /\ Len(reservation.segments) > 1 /\ (\A sdp \in ever["sdp"] : ~Over(reservation.segments, sdp))
                         => \E row \in rows : row.sub = Unattributed /\ HasCircuit(row, circuit.sub)
  BY DEF StableCircuitsPlaced
<1> DEFINE A == legs["agg"].list
           C == legs["circuits"].list
           S == legs["sdp"].list
           pairing == [agg |-> reservation, wfo |-> circuit]
           backed == WfoBackedPairs(A, C)
<1>1. AggOK(A) /\ CircuitsOK(C) /\ SdpsOK(S) /\ rows = BuildSpectrum(S, A, C)
  BY ShownAre
<1>2. /\ circuit \in InSeq(C) /\ reservation \in InSeq(A) /\ Certain("sdp") \subseteq InSeq(S)
      /\ InSeq(S) \subseteq ever["sdp"]
  BY ShownAre DEF Leg
<1>3. pairing \in backed /\ \A p \in backed : p.wfo.sub = circuit.sub => p = pairing
  BY <1>1, <1>2, OnePairing
<1>4. reservation.segments \in Seq(Segment)
  BY <1>3, JoinedWere
<1> HIDE DEF A, C, S
<1>5. /\ \A k \in DOMAIN S : S[k].stps \in Seq(StpMember)
      /\ \A k \in DOMAIN S : S[k].sub = k /\ S[k].sub # Unattributed
  <2>1. \A k \in DOMAIN S : S[k] \in SdpSet
    BY <1>1 DEF SdpsOK
  <2>2. \A k \in DOMAIN S : S[k].stps \in SdpStps
    BY <2>1 DEF SdpSet
  <2>3. \A k \in DOMAIN S : S[k].sub = k /\ S[k].sub # Unattributed
    BY <1>1 DEF SdpsOK, Unattributed
  <2> QED BY <1>1, <2>2, <2>3, SpectrumAssumption DEF SdpsOK
<1>6. ASSUME NEW sdp \in Certain("sdp"), IsLink(sdp)
      PROVE  RowOf(sdp) \in SdpsCrossed(rows, circuit.sub) <=> Over(reservation.segments, sdp)
  <2> DEFINE row == SpectrumRow(sdp, OnTheSdp(A, C, sdp))
  <2>1. RowOf(sdp) = row /\ row \in RealSdps(rows) /\ sdp.stps \in Seq(StpMember)
    BY <1>6, LinksRow DEF A, C
  <2> HIDE DEF row
  <2>2. HasCircuit(row, circuit.sub) <=> \E p \in backed : p.wfo.sub = circuit.sub /\ Crosses(p, sdp)
    BY CircuitOnRow DEF row
  <2>3. HasCircuit(row, circuit.sub) <=> Crosses(pairing, sdp)
    BY <1>3, <2>2
  <2>4. Crosses(pairing, sdp) <=> Over(reservation.segments, sdp)
    BY <1>4, <1>6, <2>1, CrossesRight
  <2> QED BY <2>1, <2>3, <2>4 DEF SdpsCrossed
<1>7. ASSUME Len(reservation.segments) > 1, \A sdp \in ever["sdp"] : ~Over(reservation.segments, sdp)
      PROVE  \E row \in rows : row.sub = Unattributed /\ HasCircuit(row, circuit.sub)
  <2> DEFINE known == {k \in DOMAIN S : PairOfSub(S[k]) # {}}
             stray == {p \in backed : /\ Len(p.agg.segments) > 1
                                      /\ \A k \in known : ~Crosses(p, S[k])}
  <2>1. ASSUME NEW k \in known PROVE ~Crosses(pairing, S[k])
    <3>1. S[k] \in ever["sdp"] /\ S[k].stps \in Seq(StpMember)
      BY <1>2, <1>5 DEF InSeq
    <3>2. IsLink(S[k])
      BY <3>1, LinkHasPair
    <3> QED BY <1>4, <1>7, <3>1, <3>2, CrossesRight
  <2>2. pairing \in stray
    BY <1>3, <1>7, <2>1
  <2>3. UnattributedRow(stray) \in rows
    BY <1>1, <2>2 DEF BuildSpectrum
  <2> HIDE DEF stray
  <2>4. CircuitOnSdp(pairing, {}) \in UnattributedRow(stray).circuits
    BY <2>2, StrayRowFields
  <2>5. CircuitOnSdp(pairing, {}).sub = circuit.sub
    BY DEF CircuitOnSdp
  <2>6. UnattributedRow(stray).sub = Unattributed
    BY StrayRowFields
  <2> QED BY <2>3, <2>4, <2>5, <2>6 DEF HasCircuit
<1> QED BY <1>6, <1>7

-----------------------------------------------------------------------------
\* Sums of bandwidths, of pairs, of subscriptions and of circuits.

\* The total of a row.
LEMMA TotalIsSum ==
  ASSUME NEW members, IsFiniteSet(members), NEW val \in [members -> Nat],
         \A p \in members : val[p] = p.wfo.bandwidth
  PROVE  \E F : Sums(F, members, val) /\ TotalCapacity(members) = F[members]
<1> DEFINE IsTotal(F) == F = [s \in SUBSET members |->
                                IF s = {} THEN 0
                                ELSE (CHOOSE x \in s : TRUE).wfo.bandwidth + F[s \ {CHOOSE x \in s : TRUE}]]
           total == CHOOSE F : IsTotal(F)
<1>1. TotalCapacity(members) = total[members]
  BY DEF TotalCapacity, MapThenSumSet, MapThenFoldSet
<1>2. \A s \in SUBSET members : s # {} =>
        val[CHOOSE x \in s : TRUE] = (CHOOSE x \in s : TRUE).wfo.bandwidth
  OBVIOUS
<1>3. \A F : Sums(F, members, val) <=> IsTotal(F)
  BY <1>2 DEF Sums
<1>4. \E F : Sums(F, members, val)
  BY SumExists
<1> HIDE DEF IsTotal
<1>5. IsTotal(total)
  BY <1>3, <1>4
<1> QED BY <1>1, <1>3, <1>5

\* The bandwidths of some subscriptions.
OfSubs(subs) == MapThenSumSet(LAMBDA sub : circuits[sub].bandwidth, subs)
LEMMA SubsSum ==
  ASSUME NEW subs, IsFiniteSet(subs), NEW val \in [subs -> Nat],
         \A sub \in subs : val[sub] = circuits[sub].bandwidth
  PROVE  \E F : Sums(F, subs, val) /\ OfSubs(subs) = F[subs]
<1> DEFINE IsTotal(F) == F = [s \in SUBSET subs |->
                                IF s = {} THEN 0
                                ELSE circuits[CHOOSE x \in s : TRUE].bandwidth + F[s \ {CHOOSE x \in s : TRUE}]]
           total == CHOOSE F : IsTotal(F)
<1>1. OfSubs(subs) = total[subs]
  BY DEF OfSubs, MapThenSumSet, MapThenFoldSet
<1>2. \A s \in SUBSET subs : s # {} => val[CHOOSE x \in s : TRUE] = circuits[CHOOSE x \in s : TRUE].bandwidth
  OBVIOUS
<1>3. \A F : Sums(F, subs, val) <=> IsTotal(F)
  BY <1>2 DEF Sums
<1>4. \E F : Sums(F, subs, val)
  BY SumExists
<1> HIDE DEF IsTotal
<1>5. IsTotal(total)
  BY <1>3, <1>4
<1> QED BY <1>1, <1>3, <1>5

\* The bandwidths of some circuits.
OfCircuits(some) == MapThenSumSet(LAMBDA circuit : circuit.bandwidth, some)
LEMMA CircuitsSum ==
  ASSUME NEW some, IsFiniteSet(some), NEW val \in [some -> Nat],
         \A circuit \in some : val[circuit] = circuit.bandwidth
  PROVE  \E F : Sums(F, some, val) /\ OfCircuits(some) = F[some]
<1> DEFINE IsTotal(F) == F = [s \in SUBSET some |->
                                IF s = {} THEN 0
                                ELSE (CHOOSE x \in s : TRUE).bandwidth + F[s \ {CHOOSE x \in s : TRUE}]]
           total == CHOOSE F : IsTotal(F)
<1>1. OfCircuits(some) = total[some]
  BY DEF OfCircuits, MapThenSumSet, MapThenFoldSet
<1>2. \A s \in SUBSET some : s # {} => val[CHOOSE x \in s : TRUE] = (CHOOSE x \in s : TRUE).bandwidth
  OBVIOUS
<1>3. \A F : Sums(F, some, val) <=> IsTotal(F)
  BY <1>2 DEF Sums
<1>4. \E F : Sums(F, some, val)
  BY SumExists
<1> HIDE DEF IsTotal
<1>5. IsTotal(total)
  BY <1>3, <1>4
<1> QED BY <1>1, <1>3, <1>5

\* A subscription is in one of the pairs joined at most, and they are finitely many.
LEMMA BackedBySub ==
  ASSUME NEW A, NEW C, AggOK(A), CircuitsOK(C)
  PROVE  LET backed == WfoBackedPairs(A, C) IN
         /\ \A p, q \in backed : p.wfo.sub = q.wfo.sub => p = q
         /\ \A p \in backed : p.wfo.sub \in DOMAIN C /\ p.wfo = C[p.wfo.sub] /\ p.wfo.bandwidth \in Nat
         /\ IsFiniteSet(backed)
<1> DEFINE backed == WfoBackedPairs(A, C)
<1>1. \A j \in DOMAIN C : C[j].sub = j /\ C[j].bandwidth \in Nat
  <2>1. \A j \in DOMAIN C : C[j] \in CircuitSet
    BY DEF CircuitsOK
  <2> QED BY <2>1 DEF CircuitsOK, CircuitSet
<1>2. \A i \in 1..Len(A) : A[i].connection = i
  BY DEF AggOK
<1>3. \A p \in backed : \E i \in 1..Len(A), j \in DOMAIN C : Joined(A, C, i, j) /\ p = [agg |-> A[i], wfo |-> C[j]]
  BY AnswersJoin
<1> HIDE DEF backed
<1>4. ASSUME NEW p \in backed, NEW q \in backed, p.wfo.sub = q.wfo.sub PROVE p = q
  <2>1. PICK i \in 1..Len(A), j \in DOMAIN C : Joined(A, C, i, j) /\ p = [agg |-> A[i], wfo |-> C[j]]
    BY <1>3
  <2>2. PICK m \in 1..Len(A), n \in DOMAIN C : Joined(A, C, m, n) /\ q = [agg |-> A[m], wfo |-> C[n]]
    BY <1>3
  <2>3. j = n
    BY <1>1, <1>4, <2>1, <2>2
  <2>4. i = m
    BY <1>2, <2>1, <2>2, <2>3 DEF Joined
  <2> QED BY <2>1, <2>2, <2>3, <2>4
<1>5. \A p \in backed : p.wfo.sub \in DOMAIN C /\ p.wfo = C[p.wfo.sub] /\ p.wfo.bandwidth \in Nat
  BY <1>1, <1>3
<1>6. IsFiniteSet(backed)
  <2> DEFINE f == [p \in backed |-> p.wfo.sub]
  <2>1. f \in [backed -> DOMAIN C] /\ \A p, q \in DOMAIN f : f[p] = f[q] => p = q
    BY <1>4, <1>5
  <2>2. f \in Injection(backed, DOMAIN C)
    BY <2>1 DEF Injection, IsInjective
  <2>3. IsFiniteSet(DOMAIN C)
    <3>1. PICK n \in Nat : DOMAIN C \subseteq 1..n
      BY DEF CircuitsOK
    <3>2. IsFiniteSet(1..n)
      BY <3>1, FS_Interval
    <3> QED BY <3>1, <3>2, FS_Subset
  <2> HIDE DEF f
  <2> QED BY <2>2, <2>3, FS_Injection
<1> QED BY <1>4, <1>5, <1>6 DEF backed

\* The total of a row is the sum of what the circuits on it have reserved.
CountedOnce(row) ==
  row.total = OfSubs({sub \in DOMAIN circuits : HasCircuit(row, sub)})
RowIsOf(row, members) ==
  /\ row.total = TotalCapacity(members)
  /\ \A sub : HasCircuit(row, sub) <=> \E p \in members : p.wfo.sub = sub
LEMMA RowTotal ==
  ASSUME NEW A, NEW C, AggOK(A), CircuitsOK(C), Grown(C, circuits),
         NEW members \in SUBSET WfoBackedPairs(A, C), NEW row, RowIsOf(row, members)
  PROVE  CountedOnce(row)
<1> DEFINE subs == {sub \in DOMAIN circuits : HasCircuit(row, sub)}
           val == [p \in members |-> p.wfo.bandwidth]
           wgt == [sub \in subs |-> circuits[sub].bandwidth]
           h == [p \in members |-> p.wfo.sub]
<1>1. /\ \A p, q \in members : p.wfo.sub = q.wfo.sub => p = q
      /\ \A p \in members : p.wfo.sub \in DOMAIN C /\ p.wfo = C[p.wfo.sub] /\ p.wfo.bandwidth \in Nat
      /\ IsFiniteSet(WfoBackedPairs(A, C))
  BY BackedBySub
<1>2. IsFiniteSet(members)
  BY <1>1, FS_Subset
<1>4. \A p \in members : /\ p.wfo.sub \in DOMAIN circuits
                         /\ circuits[p.wfo.sub].bandwidth = p.wfo.bandwidth
  BY <1>1 DEF Grown
<1>5. subs = {p.wfo.sub : p \in members}
  BY <1>4 DEF RowIsOf
<1> HIDE DEF subs
<1>6. val \in [members -> Nat] /\ \A p \in members : val[p] = p.wfo.bandwidth
  BY <1>1
<1>7. wgt \in [subs -> Nat] /\ \A sub \in subs : wgt[sub] = circuits[sub].bandwidth
  BY <1>1, <1>4, <1>5
<1>8. h \in [members -> subs] /\ \A p \in members : h[p] = p.wfo.sub
  BY <1>5
<1>9. {h[p] : p \in members} = subs
  BY <1>5, <1>8
<1> HIDE DEF val, wgt, h
<1>10. IsFiniteSet(subs)
  <2>1. h \in Surjection(members, subs)
    BY <1>8, <1>9 DEF Surjection
  <2> QED BY <1>2, <2>1, FS_Surjection
<1>11. PICK F : Sums(F, members, val) /\ TotalCapacity(members) = F[members]
  BY <1>2, <1>6, TotalIsSum
<1>12. PICK G : Sums(G, subs, wgt) /\ OfSubs(subs) = G[subs]
  BY <1>7, <1>10, SubsSum
<1>13. F[members] = G[subs]
  <2>1. Carries(h, members, val, subs, wgt)
    <3>1. \A p, q \in members : h[p] = h[q] => p = q
      BY <1>1, <1>8
    <3>2. \A p \in members : val[p] = wgt[h[p]]
      BY <1>4, <1>6, <1>7, <1>8
    <3> QED BY <1>8, <3>1, <3>2 DEF Carries
  <2>2. Sums(F, members, val) /\ Sums(G, subs, wgt) /\ val \in [members -> Nat] /\ wgt \in [subs -> Nat]
    BY <1>6, <1>7, <1>11, <1>12
  <2>3. F[members] = G[{h[p] : p \in members}]
    BY <1>2, <1>10, <2>1, <2>2, SumCarries
  <2> QED BY <1>9, <2>3
<1> QED BY <1>11, <1>12, <1>13 DEF subs, RowIsOf, CountedOnce

\* Each circuit is counted once on a row, and is on an SDP or unattributed.
LEMMA IInvOnce == IInv => ReservedOnce
<1> SUFFICES ASSUME IInv, NEW row \in rows
             PROVE  /\ CountedOnce(row)
                    /\ \A other \in rows : row.sub = Unattributed /\ other.sub # Unattributed
                         => \A circuit \in row.circuits : ~HasCircuit(other, circuit.sub)
  BY DEF ReservedOnce, CountedOnce, OfSubs
<1> DEFINE A == legs["agg"].list
           C == legs["circuits"].list
           S == legs["sdp"].list
           backed == WfoBackedPairs(A, C)
           known == {k \in DOMAIN S : PairOfSub(S[k]) # {}}
           stray == {p \in backed : /\ Len(p.agg.segments) > 1
                                    /\ \A k \in known : ~Crosses(p, S[k])}
<1>1. status = "shown"
  BY DEF IInv, ShownInv
<1>2. AggOK(A) /\ CircuitsOK(C) /\ SdpsOK(S) /\ rows = BuildSpectrum(S, A, C) /\ Grown(C, circuits)
  BY <1>1, ShownAre DEF IInv, GrownInv
<1> HIDE DEF A, C, S
<1>3. \A r \in rows : \/ \E k \in known : r = SpectrumRow(S[k], OnTheSdp(A, C, S[k]))
                      \/ r = UnattributedRow(stray)
  BY <1>2 DEF BuildSpectrum, OnTheSdp
<1>4. \A k \in known : S[k].sub # Unattributed
  BY <1>2 DEF SdpsOK, Unattributed
<1>5. CountedOnce(row)
  <2>1. PICK members \in SUBSET backed :
          /\ row.total = TotalCapacity(members)
          /\ \E pair : row.circuits = {CircuitOnSdp(p, pair) : p \in members}
    <3>1. ASSUME NEW k \in known, row = SpectrumRow(S[k], OnTheSdp(A, C, S[k]))
          PROVE  \E members \in SUBSET backed :
                   /\ row.total = TotalCapacity(members)
                   /\ \E pair : row.circuits = {CircuitOnSdp(p, pair) : p \in members}
      <4>1. row.total = TotalCapacity(OnTheSdp(A, C, S[k]))
        BY <3>1 DEF SpectrumRow
      <4>2. row.circuits = {CircuitOnSdp(p, PairOfSub(S[k])) : p \in OnTheSdp(A, C, S[k])}
        BY <3>1, SdpRowFields
      <4>3. OnTheSdp(A, C, S[k]) \in SUBSET backed
        BY DEF OnTheSdp
      <4> QED BY <4>1, <4>2, <4>3
    <3>2. ASSUME row = UnattributedRow(stray)
          PROVE  \E members \in SUBSET backed :
                   /\ row.total = TotalCapacity(members)
                   /\ \E pair : row.circuits = {CircuitOnSdp(p, pair) : p \in members}
      <4>1. stray \in SUBSET backed
        OBVIOUS
      <4> HIDE DEF stray
      <4>2. row.total = TotalCapacity(stray)
        BY <3>2 DEF UnattributedRow
      <4>3. row.circuits = {CircuitOnSdp(p, {}) : p \in stray}
        BY <3>2, StrayRowFields
      <4> QED BY <4>1, <4>2, <4>3
    <3> QED BY <1>3, <3>1, <3>2
  <2>2. RowIsOf(row, members)
    <3>1. PICK pair : row.circuits = {CircuitOnSdp(p, pair) : p \in members}
      BY <2>1
    <3>2. \A p : CircuitOnSdp(p, pair).sub = p.wfo.sub
      BY DEF CircuitOnSdp
    <3> QED BY <2>1, <3>1, <3>2 DEF HasCircuit, RowIsOf
  <2>3. members \in SUBSET WfoBackedPairs(A, C)
    BY <2>1
  <2> HIDE DEF backed, known, stray
  <2> QED BY <1>2, <2>2, <2>3, RowTotal
<1>6. ASSUME NEW other \in rows, row.sub = Unattributed, other.sub # Unattributed,
             NEW circuit \in row.circuits, HasCircuit(other, circuit.sub)
      PROVE  FALSE
  <2>1. row = UnattributedRow(stray)
    BY <1>3, <1>4, <1>6, SdpRowFields
  <2>2. PICK k \in known : other = SpectrumRow(S[k], OnTheSdp(A, C, S[k]))
    BY <1>3, <1>6, StrayRowFields
  <2>3. PICK p \in stray : p.wfo.sub = circuit.sub
    <3> HIDE DEF stray
    <3>1. circuit \in {CircuitOnSdp(p, {}) : p \in stray}
      BY <2>1, StrayRowFields
    <3> QED BY <3>1 DEF CircuitOnSdp
  <2>4. PICK q \in backed : q.wfo.sub = circuit.sub /\ Crosses(q, S[k])
    BY <1>6, <2>2, CircuitOnRow
  <2>5. p = q
    <3>1. \A x, y \in backed : x.wfo.sub = y.wfo.sub => x = y
      BY <1>2, BackedBySub
    <3> QED BY <2>3, <2>4, <3>1
  <2> QED BY <2>3, <2>4, <2>5
<1> QED BY <1>5, <1>6

\* What a link booked full reads.
LEMMA FullIsHundred ==
  ASSUME NEW total \in Nat, NEW capacity \in Nat \ {0}, total >= capacity
  PROVE  Utilisation(total, capacity) >= 100
<1> DEFINE n == 100 * total
<1>1. n \in Nat /\ n >= 100 * capacity
  OBVIOUS
<1> HIDE DEF n
<1>2. n \div capacity >= 100 /\ n \div capacity \in Nat
  BY <1>1
<1>3. Utilisation(total, capacity) = Rounded(n, capacity)
  BY DEF Utilisation, NoCapacity, n
<1>4. Rounded(n, capacity) \in {n \div capacity, n \div capacity + 1}
  BY DEF Rounded
<1> DEFINE q == n \div capacity
<1>5. q \in Nat /\ q >= 100 /\ Rounded(n, capacity) \in {q, q + 1}
  BY <1>2, <1>4
<1> HIDE DEF q
<1> QED BY <1>3, <1>5

\* The circuits booked over a link are all counted on its row.
BookedOver(sdp) ==
  {circuit \in Certain("circuits") :
     /\ IsOpen(circuit)
     /\ \E reservation \in always["agg"] : /\ circuit.connection = reservation.connection
                                           /\ Over(reservation.segments, sdp)}
LEMMA BookedCounted ==
  ASSUME IInv, status = "shown", NEW sdp \in Certain("sdp"), IsLink(sdp), sdp.stps \in Seq(StpMember)
  PROVE  LET total == TotalCapacity(OnTheSdp(legs["agg"].list, legs["circuits"].list, sdp)) IN
         OfCircuits(BookedOver(sdp)) <= total /\ total \in Nat /\ OfCircuits(BookedOver(sdp)) \in Nat
<1> DEFINE A == legs["agg"].list
           C == legs["circuits"].list
           members == OnTheSdp(A, C, sdp)
           booked == BookedOver(sdp)
           PairOf(circuit) == CHOOSE p \in members : p.wfo = circuit
           h == [circuit \in booked |-> PairOf(circuit)]
           val == [circuit \in booked |-> circuit.bandwidth]
           wgt == [p \in members |-> p.wfo.bandwidth]
<1>1. AggOK(A) /\ CircuitsOK(C) /\ Certain("circuits") \subseteq InSeq(C) /\ always["agg"] \subseteq InSeq(A)
  BY ShownAre DEF Leg
<1>2. \A p \in WfoBackedPairs(A, C) : p.agg.segments \in Seq(Segment)
  BY JoinedWere
<1> HIDE DEF A, C
<1>3. IsFiniteSet(members) /\ \A p \in members : p.wfo.bandwidth \in Nat
  <2>1. members \in SUBSET WfoBackedPairs(A, C)
    BY DEF OnTheSdp
  <2>2. IsFiniteSet(WfoBackedPairs(A, C)) /\ \A p \in WfoBackedPairs(A, C) : p.wfo.bandwidth \in Nat
    BY <1>1, BackedBySub
  <2> QED BY <2>1, <2>2, FS_Subset
<1>4. \A circuit \in booked : \E p \in members : p.wfo = circuit
  <2> TAKE circuit \in booked
  <2>1. PICK reservation \in always["agg"] :
          circuit.connection = reservation.connection /\ Over(reservation.segments, sdp)
    BY DEF BookedOver
  <2> DEFINE p == [agg |-> reservation, wfo |-> circuit]
  <2>2. p \in WfoBackedPairs(A, C)
    <3>1. circuit \in InSeq(C) /\ reservation \in InSeq(A) /\ IsOpen(circuit)
      BY <1>1 DEF BookedOver
    <3> QED BY <1>1, <2>1, <3>1, OnePairing
  <2>3. p.agg.segments \in Seq(Segment)
    BY <1>2, <2>2
  <2>4. Crosses(p, sdp)
    <3>1. Over(p.agg.segments, sdp)
      BY <2>1
    <3> HIDE DEF p
    <3> QED BY <2>3, <3>1, CrossesRight
  <2> QED BY <2>2, <2>4 DEF OnTheSdp
<1> HIDE DEF members, booked
<1>5. \A circuit \in booked : PairOf(circuit) \in members /\ PairOf(circuit).wfo = circuit
  BY <1>4
<1>6. h \in [booked -> members] /\ \A circuit \in booked : h[circuit].wfo = circuit
  BY <1>5
<1>7. val \in [booked -> Nat] /\ \A circuit \in booked : val[circuit] = circuit.bandwidth
  BY <1>3, <1>5
<1>8. wgt \in [members -> Nat] /\ \A p \in members : wgt[p] = p.wfo.bandwidth
  BY <1>3
<1> HIDE DEF PairOf, h, val, wgt
<1>9. Carries(h, booked, val, members, wgt)
  BY <1>6, <1>7, <1>8 DEF Carries
<1>10. IsFiniteSet(booked)
  <2>1. h \in Injection(booked, members)
    BY <1>6 DEF Injection, IsInjective
  <2> QED BY <1>3, <2>1, FS_Injection
<1>11. PICK F : Sums(F, booked, val) /\ OfCircuits(booked) = F[booked]
  BY <1>7, <1>10, CircuitsSum
<1>12. PICK G : Sums(G, members, wgt) /\ TotalCapacity(members) = G[members]
  BY <1>3, <1>8, TotalIsSum
<1> DEFINE counted == {h[circuit] : circuit \in booked}
<1>13. F[booked] = G[{h[circuit] : circuit \in booked}]
  <2>1. Sums(F, booked, val) /\ Sums(G, members, wgt) /\ val \in [booked -> Nat] /\ wgt \in [members -> Nat]
    BY <1>7, <1>8, <1>11, <1>12
  <2>2. IsFiniteSet(members)
    BY <1>3
  <2> HIDE DEF counted
  <2> QED BY <1>9, <1>10, <2>1, <2>2, SumCarries, SMTT(60)
<1>14. counted \in SUBSET members
  BY <1>6
<1> HIDE DEF counted
<1>15. G[counted] <= G[members]
  BY <1>3, <1>8, <1>12, <1>14, SumGrows
<1>16. G[members] \in Nat /\ G[counted] \in Nat
  <2>1. \A s \in SUBSET members : G[s] \in Nat
    BY <1>3, <1>8, <1>12, SumOut
  <2> QED BY <1>14, <2>1
<1>17. F[booked] = G[counted]
  BY <1>13 DEF counted
<1>18. /\ OfCircuits(booked) <= TotalCapacity(members) /\ TotalCapacity(members) \in Nat
       /\ OfCircuits(booked) \in Nat
  BY <1>11, <1>12, <1>15, <1>16, <1>17
<1> QED BY <1>18 DEF members, booked, A, C

\* So it reads full, unless its capacity is 0 or not known.
LEMMA IInvFull == IInv => FullLinkReadsFull
<1> SUFFICES ASSUME IInv, status = "shown", NEW sdp \in Certain("sdp"), IsLink(sdp)
             PROVE  LET capacities == {sdp.stps[i].capacity : i \in DOMAIN sdp.stps} \ {NoCapacity}
                    IN IF capacities = {} \/ 0 \in capacities
                       THEN RowOf(sdp).utilisation = NoCapacity
                       ELSE OfCircuits(BookedOver(sdp)) >= Min(capacities) => RowOf(sdp).utilisation >= 100
  BY DEF FullLinkReadsFull, OfCircuits, BookedOver
<1> DEFINE A == legs["agg"].list
           C == legs["circuits"].list
           S == legs["sdp"].list
           row == SpectrumRow(sdp, OnTheSdp(A, C, sdp))
           capacities == {sdp.stps[i].capacity : i \in DOMAIN sdp.stps} \ {NoCapacity}
           total == TotalCapacity(OnTheSdp(A, C, sdp))
<1>1. RowOf(sdp) = row /\ sdp.stps \in Seq(StpMember)
  BY LinksRow
<1>2. OfCircuits(BookedOver(sdp)) <= total /\ total \in Nat /\ OfCircuits(BookedOver(sdp)) \in Nat
  BY <1>1, BookedCounted
<1>3. row.utilisation = Utilisation(total, SdpCapacity(sdp))
  BY DEF SpectrumRow
<1>4. capacities \in SUBSET Nat
  <2>1. \A i \in DOMAIN sdp.stps : sdp.stps[i] \in StpMember
    BY <1>1
  <2> QED BY <2>1 DEF StpMember
<1>5. SdpCapacity(sdp) = IF capacities = {} THEN NoCapacity ELSE Min(capacities)
  BY DEF SdpCapacity, Min
<1> HIDE DEF row, capacities, total
<1>6. CASE capacities = {}
  BY <1>1, <1>3, <1>5, <1>6 DEF Utilisation, capacities
<1>7. CASE capacities # {}
  <2> DEFINE least == Min(capacities)
  <2>1. least \in capacities /\ \A y \in capacities : least <= y
    BY <1>4, <1>7, MinIsLeast
  <2>2. SdpCapacity(sdp) = least /\ least \in Nat
    BY <1>4, <1>5, <1>7, <2>1
  <2> HIDE DEF least
  <2>3. CASE 0 \in capacities
    <3>1. least = 0
      BY <2>1, <2>2, <2>3
    <3>2. RowOf(sdp).utilisation = NoCapacity
      BY <1>1, <1>3, <2>2, <3>1 DEF Utilisation
    <3> QED BY <2>3, <3>2 DEF capacities
  <2>4. CASE 0 \notin capacities
    <3>1. least \in Nat \ {0}
      BY <2>1, <2>2, <2>4
    <3>2. ASSUME OfCircuits(BookedOver(sdp)) >= least PROVE RowOf(sdp).utilisation >= 100
      <4>1. total >= least
        BY <1>2, <2>2, <3>2
      <4> QED BY <1>1, <1>2, <1>3, <2>2, <3>1, <4>1, FullIsHundred
    <3> QED BY <1>7, <2>4, <3>2 DEF capacities, least
  <2> QED BY <2>3, <2>4
<1> QED BY <1>6, <1>7

-----------------------------------------------------------------------------
\* Which rows have an SDP page: of the subscriptions for one pair, the last.

HasPage(row) == \E sdpRow \in ReconcileSdps(legs["sdp"].list, <<>>) : sdpRow.sub = row.sub
LastHasPage ==
  \A row \in RealSdps(rows) :
    HasPage(row) <=> \A other \in RealSdps(rows) : other.pair = row.pair => other.sub <= row.sub
NumberedRows == \A row \in RealSdps(rows) : row.sub \in Nat
PairsDiffer == \A row, other \in RealSdps(rows) : row.pair = other.pair => row.sub = other.sub

\* The rows of the SDP pages.
LEMMA PagesAre ==
  ASSUME NEW S, SdpsOK(S), NEW k \in DOMAIN S, PairOfSub(S[k]) # {}
  PROVE  (\E sdpRow \in ReconcileSdps(S, <<>>) : sdpRow.sub = S[k].sub)
           <=> \A j \in DOMAIN S : PairOfSub(S[j]) = PairOfSub(S[k]) => j <= k
<1> DEFINE W == Index(S, PairOfSub, {})
           D == Index(<<>>, PairOfDds, {})
           Last(i) == \A j \in DOMAIN S : PairOfSub(S[j]) = PairOfSub(S[i]) => j <= i
<1>1. PICK n \in Nat : DOMAIN S \subseteq 1..n /\ \A i \in DOMAIN S : S[i].sub = i
  BY DEF SdpsOK
<1>2. ReconcileSdps(S, <<>>) = {SdpRow(pair, W, D) : pair \in DOMAIN W \cup DOMAIN D}
  BY DEF ReconcileSdps
<1>3. DOMAIN D = {}
  BY DEF Index
<1>4. /\ DOMAIN W = {PairOfSub(S[i]) : i \in DOMAIN S} \ {{}}
      /\ \A pair \in DOMAIN W : \E i \in DOMAIN S : PairOfSub(S[i]) = pair /\ W[pair] = S[i] /\ Last(i)
  <2>1. n \in Nat /\ DOMAIN S \subseteq 1..n
    BY <1>1
  <2>2. DOMAIN W = {PairOfSub(S[i]) : i \in DOMAIN S} \ {{}}
    BY DEF Index
  <2>3. \A pair \in DOMAIN W :
          \E i \in DOMAIN S : /\ PairOfSub(S[i]) = pair /\ W[pair] = S[i]
                              /\ \A j \in DOMAIN S : PairOfSub(S[j]) = pair => j <= i
    BY <2>1, ByPairFindsLast
  <2> HIDE DEF W
  <2>4. ASSUME NEW pair \in DOMAIN W
        PROVE  \E i \in DOMAIN S : PairOfSub(S[i]) = pair /\ W[pair] = S[i] /\ Last(i)
    <3>1. PICK i \in DOMAIN S : /\ PairOfSub(S[i]) = pair /\ W[pair] = S[i]
                               /\ \A j \in DOMAIN S : PairOfSub(S[j]) = pair => j <= i
      BY <2>3
    <3> QED BY <3>1
  <2> QED BY <2>2, <2>4
<1>5. \A pair \in DOMAIN W : SdpRow(pair, W, D).sub = W[pair].sub
  BY DEF SdpRow
<1> HIDE DEF W, D
<1>6. ASSUME NEW pair \in DOMAIN W, SdpRow(pair, W, D).sub = S[k].sub PROVE Last(k)
  <2>1. PICK i \in DOMAIN S : PairOfSub(S[i]) = pair /\ W[pair] = S[i] /\ Last(i)
    BY <1>4
  <2>2. i = k
    BY <1>1, <1>5, <1>6, <2>1
  <2> QED BY <2>1, <2>2
<1>7. ASSUME Last(k) PROVE \E pair \in DOMAIN W : SdpRow(pair, W, D).sub = S[k].sub
  <2>1. PairOfSub(S[k]) \in DOMAIN W
    BY <1>4
  <2>2. PICK i \in DOMAIN S : PairOfSub(S[i]) = PairOfSub(S[k]) /\ W[PairOfSub(S[k])] = S[i] /\ Last(i)
    BY <1>4, <2>1
  <2>3. i = k
    BY <1>1, <1>7, <2>2
  <2> QED BY <1>5, <2>1, <2>2, <2>3
<1> QED BY <1>2, <1>3, <1>6, <1>7

\* So of the rows for one pair, the last.
LEMMA IInvLast == IInv => LastHasPage /\ NumberedRows
<1> SUFFICES ASSUME IInv, NEW row \in RealSdps(rows)
             PROVE  /\ HasPage(row) <=> \A other \in RealSdps(rows) : other.pair = row.pair => other.sub <= row.sub
                    /\ row.sub \in Nat
  BY DEF LastHasPage, NumberedRows
<1> DEFINE A == legs["agg"].list
           C == legs["circuits"].list
           S == legs["sdp"].list
           known == {k \in DOMAIN S : PairOfSub(S[k]) # {}}
           R(k) == SpectrumRow(S[k], OnTheSdp(A, C, S[k]))
<1>1. status = "shown"
  BY DEF RealSdps, IInv, ShownInv
<1>2. SdpsOK(S) /\ rows = BuildSpectrum(S, A, C)
  BY <1>1, ShownAre
<1> HIDE DEF A, C
<1>3. \A k \in DOMAIN S : S[k].sub = k /\ S[k].sub # Unattributed
  BY <1>2 DEF SdpsOK, Unattributed
<1>4. \A k \in DOMAIN S : R(k).sub = k /\ R(k).pair = PairOfSub(S[k])
  BY <1>3, SdpRowFields
<1>5. \A k \in known : R(k) \in RealSdps(rows)
  <2> TAKE k \in known
  <2>1. R(k) \in rows
    BY <1>2 DEF BuildSpectrum, OnTheSdp
  <2>2. R(k).sub # Unattributed
    BY <1>3, <1>4
  <2> HIDE DEF R
  <2> QED BY <2>1, <2>2 DEF RealSdps
<1>6. \A other \in RealSdps(rows) : \E k \in known : other = R(k)
  <2> TAKE other \in RealSdps(rows)
  <2>1. other \in BuildSpectrum(S, A, C) /\ other.sub # Unattributed
    BY <1>2 DEF RealSdps
  <2> QED BY <2>1, RowsAre, StrayRowFields
<1>7. PICK k \in known : row = R(k)
  BY <1>6
<1> HIDE DEF R
<1>8. HasPage(row) <=> \A j \in DOMAIN S : PairOfSub(S[j]) = PairOfSub(S[k]) => j <= k
  <2>1. row.sub = S[k].sub
    BY <1>3, <1>4, <1>7
  <2>2. HasPage(row) <=> \E sdpRow \in ReconcileSdps(S, <<>>) : sdpRow.sub = S[k].sub
    BY <2>1 DEF HasPage
  <2> HIDE DEF S
  <2> QED BY <1>2, <2>2, PagesAre DEF known
<1>9. (\A other \in RealSdps(rows) : other.pair = row.pair => other.sub <= row.sub)
        <=> \A j \in known : PairOfSub(S[j]) = PairOfSub(S[k]) => j <= k
  <2>1. known \subseteq DOMAIN S
    OBVIOUS
  <2> HIDE DEF S, known
  <2>2. row.sub = k /\ row.pair = PairOfSub(S[k])
    BY <1>4, <1>7, <2>1
  <2>3. ASSUME \A other \in RealSdps(rows) : other.pair = row.pair => other.sub <= row.sub
        PROVE  \A j \in known : PairOfSub(S[j]) = PairOfSub(S[k]) => j <= k
    BY <1>4, <1>5, <2>1, <2>2, <2>3
  <2>4. ASSUME \A j \in known : PairOfSub(S[j]) = PairOfSub(S[k]) => j <= k,
               NEW other \in RealSdps(rows), other.pair = row.pair
        PROVE  other.sub <= row.sub
    <3>1. PICK j \in known : other = R(j)
      BY <1>6
    <3>2. other.sub = j /\ other.pair = PairOfSub(S[j])
      BY <1>4, <2>1, <3>1
    <3> QED BY <2>2, <2>4, <3>2
  <2> QED BY <2>3, <2>4
<1>10. row.sub \in Nat
  BY <1>2, <1>4, <1>7 DEF SdpsOK
<1> QED BY <1>8, <1>9, <1>10

-----------------------------------------------------------------------------
\* Whatever the sources change to while they are read, each circuit the page
\* shows on an SDP was an open one of the orchestrator, on a path of the same
\* connection over that SDP.
THEOREM OnlyOpenCircuits == Spec => []OnlyOpenCircuitsShown
BY IInvAlways, IInvShown, PTL

\* The VLAN shown for a circuit is one its path uses at that SDP, and one is
\* shown if the path uses any there.
THEOREM VlansRight == Spec => []VlanOfTheSdp
BY IInvAlways, IInvVlan, PTL

\* A circuit and a path that stay through a request are shown on every link the
\* path is over and on no other, and as unattributed if the path is of several
\* segments and over no SDP: each that is not cut off by the limit of its query.
THEOREM CircuitsPlaced == Spec => []StableCircuitsPlaced
BY IInvAlways, IInvPlaced, PTL

\* The reserved capacity of every row is the sum over the circuits on it, each
\* counted once, and a circuit on an SDP is not unattributed too, whatever
\* paths, bandwidths and retries there are.
THEOREM EachCircuitCountedOnce == Spec => []ReservedOnce
BY IInvAlways, IInvOnce, PTL

\* A link filled by circuits that stay through a request, and are not cut off by the
\* limit of the query, reads 100 % or more, and one of no or unknown capacity reads
\* nothing, for every bandwidth, capacity and limit.
THEOREM FullLinksReadFull == Spec => []FullLinkReadsFull
BY IInvAlways, IInvFull, PTL

\* Of the rows for one pair of STPs, the page shows that of the newest
\* subscription and no other; so the README's text (RowsHaveTheirPage) holds
\* exactly as long as no two SDP subscriptions shown are of one pair.
THEOREM OnlyTheLastHasItsPage == Spec => [](LastHasPage /\ (RowsHaveTheirPage <=> PairsDiffer))
<1>1. ASSUME LastHasPage, NumberedRows PROVE RowsHaveTheirPage <=> PairsDiffer
  <2>1. RowsHaveTheirPage <=> \A row \in RealSdps(rows) : HasPage(row)
    BY DEF RowsHaveTheirPage, HasPage
  <2>2. ASSUME RowsHaveTheirPage PROVE PairsDiffer
    BY <1>1, <2>1, <2>2 DEF LastHasPage, PairsDiffer, NumberedRows
  <2>3. ASSUME PairsDiffer PROVE RowsHaveTheirPage
    BY <1>1, <2>1, <2>3 DEF LastHasPage, PairsDiffer, NumberedRows
  <2> QED BY <2>2, <2>3
<1> QED BY <1>1, IInvAlways, IInvLast, PTL
=============================================================================
