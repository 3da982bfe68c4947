----------------------------- MODULE Inventory -----------------------------
(***************************************************************************)
(* One inventory page of AMISS (/stp, /sdp, or /topology and               *)
(* /switching-service, which share their code) read from an orchestrator   *)
(* and a DDS that change while it is being fetched: the two legs of        *)
(* get_stps, get_sdps and _get_named answer at moments of their own, and   *)
(* the table reconciles the two answers.                                   *)
(***************************************************************************)
EXTENDS Reconcile

CONSTANTS
  Kind,       \* which pages: a subset of {"stp", "named", "sdp"}
  Local,      \* identifiers, positive numbers
  SubForm,    \* the forms in which subscriptions write an id
  DocForm,    \* and the DDS
  Capacity,   \* capacities of an STP, NoCapacity for one that has none
  PageLimit,  \* "first:" in the subscription queries
  \* Bounds, for each kind of object:
  MaxSubs, MaxDocs,  \* on the two lists
  MaxEdits    \* on the changes during one request

ASSUME InventoryAssumption ==
  /\ Kind \subseteq {"stp", "named", "sdp"}
  /\ Local \subseteq Nat \ {0}
  /\ SubForm \cup DocForm \subseteq Form
  /\ Capacity \subseteq Nat \cup {NoCapacity}
  /\ PageLimit \in Nat
  /\ {MaxSubs, MaxDocs, MaxEdits} \subseteq [Kind -> Nat]

VARIABLES
  kind,    \* the kind of objects this page is about
  subs,    \* the orchestrator's subscriptions, oldest first, terminated ones too
  docs,    \* the documents the DDS serves
  wfo, dds,  \* the two legs: [state, list]
  table,   \* what the page shows: [state, rows]
  edits,   \* changes during this request
  always,  \* history: keys present in each source ever since the request
  ever     \* history: keys present in it at some moment since the request

vars == <<kind, subs, docs, wfo, dds, table, edits, always, ever>>

-----------------------------------------------------------------------------
RawId(form) == [local : Local, form : form]
\* A name that tells whose it is: subscription s's name for an object.
NameOf(s, id) == 100 * s + id

\* The subscriptions the orchestrator may create as number s.
Member(s, id, form, capacity) ==
  [id |-> [local |-> id, form |-> form], name |-> NameOf(s, id), label |-> id,
   capacity |-> capacity, owner |-> NameOf(s, id)]
NewSubs(s) ==
  IF kind = "sdp"
  THEN {[sub |-> s, status |-> "active",
         stps |-> <<Member(s, a, form, c), Member(s, z, form, d)>>] :
          a, z \in Local, form \in SubForm, c, d \in Capacity}
  ELSE {[sub |-> s, status |-> "active", id |-> [local |-> id, form |-> form], name |-> name] :
          id \in Local, form \in SubForm, name \in {Nothing, s}}
NewDocs ==
  IF kind = "sdp"
  THEN {[a |-> a, z |-> z] : a, z \in RawId(DocForm)}
  ELSE {[id |-> id, name |-> name] : id \in RawId(DocForm), name \in {Nothing, 99}}

\* What an object is known by, from either source, and the objects each source
\* has: said without the code's own lookups, for the history and the properties.
PairKey(ids) == IF Cardinality(ids) = 2 THEN ids ELSE {}
KeyOfSub(sub) ==
  IF kind = "sdp" THEN PairKey({sub.stps[i].id.local : i \in DOMAIN sub.stps}) ELSE {sub.id.local}
KeyOfDoc(doc) == IF kind = "sdp" THEN PairKey({doc.a.local, doc.z.local}) ELSE {doc.id.local}
InWfo(list) == {KeyOfSub(list[i]) : i \in {j \in DOMAIN list : list[j].status # "terminated"}} \ {{}}
InDds(list) == {KeyOfDoc(list[i]) : i \in DOMAIN list} \ {{}}

Reconciled ==
  CASE kind = "stp"   -> ReconcileStps(wfo.list, dds.list)
    [] kind = "named" -> ReconcileNamed(wfo.list, dds.list)
    [] kind = "sdp"   -> ReconcileSdps(wfo.list, dds.list)

-----------------------------------------------------------------------------
Idle == [state |-> "idle", list |-> <<>>]
Pending == [state |-> "pending", list |-> <<>>]
Unreachable == [state |-> "failed", list |-> <<>>]
Answered(list) == [state |-> "answered", list |-> list]
NoTable == [state |-> "idle", rows |-> {}]
NoHistory == [wfo |-> {}, dds |-> {}]
Asking == table.state = "loading"

Init ==
  /\ kind \in Kind
  /\ subs = <<>> /\ docs = <<>>
  /\ wfo = Idle /\ dds = Idle
  /\ table = NoTable
  /\ edits = 0
  /\ always = NoHistory /\ ever = NoHistory

\* Either source changes, during a request or between two, when the page last
\* shown is left.
Edit(newSubs, newDocs) ==
  /\ Asking => edits < MaxEdits[kind]
  /\ edits' = IF Asking THEN edits + 1 ELSE 0
  /\ subs' = newSubs /\ docs' = newDocs
  /\ IF Asking
     THEN /\ always' = [wfo |-> always.wfo \cap InWfo(newSubs), dds |-> always.dds \cap InDds(newDocs)]
          /\ ever' = [wfo |-> ever.wfo \cup InWfo(newSubs), dds |-> ever.dds \cup InDds(newDocs)]
          /\ UNCHANGED <<wfo, dds, table>>
     ELSE /\ always' = NoHistory /\ ever' = NoHistory
          /\ wfo' = Idle /\ dds' = Idle
          /\ table' = NoTable
  /\ UNCHANGED kind

Subscribe ==
  /\ Len(subs) < MaxSubs[kind]
  /\ \E sub \in NewSubs(Len(subs) + 1) : Edit(Append(subs, sub), docs)
Terminate ==
  \E i \in DOMAIN subs :
    /\ IsLive(subs[i])
    /\ Edit([subs EXCEPT ![i].status = "terminated"], docs)
Advertise ==
  /\ Len(docs) < MaxDocs[kind]
  /\ \E doc \in NewDocs : Edit(subs, Append(docs, doc))
Withdraw ==
  \E i \in DOMAIN docs :
    Edit(subs, SubSeq(docs, 1, i - 1) \o SubSeq(docs, i + 1, Len(docs)))

Request ==
  /\ ~Asking
  /\ wfo' = Pending /\ dds' = Pending
  /\ table' = [state |-> "loading", rows |-> {}]
  /\ edits' = 0
  /\ always' = [wfo |-> InWfo(subs), dds |-> InDds(docs)]
  /\ ever' = [wfo |-> InWfo(subs), dds |-> InDds(docs)]
  /\ UNCHANGED <<kind, subs, docs>>

\* fetch_*_subscriptions: the orchestrator may or may not apply the filter the
\* query asks for, and serves one page of the result.
AnswerWfo ==
  /\ wfo.state = "pending"
  /\ \E filtered \in BOOLEAN : wfo' = Answered(Live(Served(subs, filtered, PageLimit)))
  /\ UNCHANGED <<kind, subs, docs, dds, table, edits, always, ever>>
FailWfo ==
  /\ wfo.state = "pending"
  /\ wfo' = Unreachable
  /\ UNCHANGED <<kind, subs, docs, dds, table, edits, always, ever>>
AnswerDds ==
  /\ dds.state = "pending"
  /\ dds' = Answered(docs)
  /\ UNCHANGED <<kind, subs, docs, wfo, table, edits, always, ever>>
FailDds ==
  /\ dds.state = "pending"
  /\ dds' = Unreachable
  /\ UNCHANGED <<kind, subs, docs, wfo, table, edits, always, ever>>

\* Mutant: rows are computed from whatever answered.
ComposeAnyway ==
  /\ Asking
  /\ "pending" \notin {wfo.state, dds.state}
  /\ table' = [state |-> IF "failed" \in {wfo.state, dds.state} THEN "error" ELSE "shown",
               rows |-> Reconciled]
  /\ UNCHANGED <<kind, subs, docs, wfo, dds, edits, always, ever>>

Compose ==
  /\ Asking
  /\ "pending" \notin {wfo.state, dds.state}
  /\ table' = IF "failed" \in {wfo.state, dds.state}
              THEN [state |-> "error", rows |-> {}]
              ELSE [state |-> "shown", rows |-> Reconciled]
  /\ UNCHANGED <<kind, subs, docs, wfo, dds, edits, always, ever>>

Next ==
  \/ Subscribe \/ Terminate \/ Advertise \/ Withdraw
  \/ Request \/ AnswerWfo \/ FailWfo \/ AnswerDds \/ FailDds \/ Compose

Spec == Init /\ [][Next]_vars

-----------------------------------------------------------------------------
RowKey(row) == IF kind = "sdp" THEN {row.a.local, row.z.local} ELSE {row.id.local}
StatusesOf(key) == {row.status : row \in {r \in table.rows : RowKey(r) = key}}
Known == ever.wfo \cup ever.dds \cup {RowKey(row) : row \in table.rows}

\* Each leg is a list the source served; rows are shown only by a composed page.
TypeOK ==
  /\ kind \in Kind
  /\ {wfo.state, dds.state} \subseteq {"idle", "pending", "failed", "answered"}
  /\ table.state \in {"idle", "loading", "error", "shown"}
  /\ table.rows # {} => table.state = "shown"
  /\ \A row \in table.rows : row.status \in {"IN_BOTH", "DDS_ONLY", "MISSING_IN_DDS"}
  /\ always.wfo \subseteq ever.wfo /\ always.dds \subseteq ever.dds
  /\ edits <= MaxEdits[kind]

\* An object that did not change while the page was being fetched is reported
\* as it is, however the two legs interleave with changes to other objects: a
\* stable object is never missing, nor flagged as in one source only, and what
\* was in neither source has no row.
StableObjectsRight ==
  table.state = "shown" =>
    \A key \in Known :
      /\ key \in always.wfo \cap always.dds => StatusesOf(key) = {"IN_BOTH"}
      /\ key \in always.wfo \ ever.dds      => StatusesOf(key) = {"MISSING_IN_DDS"}
      /\ key \in always.dds \ ever.wfo      => StatusesOf(key) = {"DDS_ONLY"}
      /\ key \in ever.wfo \cup ever.dds

\* An object has one row, whatever forms its id is written in and however often
\* it occurs, and the row links to a subscription of that very object.
OneRowPerObject ==
  \A row \in table.rows :
    /\ \A other \in table.rows : RowKey(other) = RowKey(row) => other = row
    /\ row.sub # Nothing => \E i \in DOMAIN subs : subs[i].sub = row.sub /\ KeyOfSub(subs[i]) = RowKey(row)

\* The two ends of an SDP row are shown in the columns of their own ids, in
\* whatever order the orchestrator lists the members.
EndsInTheirColumns ==
  kind = "sdp" =>
    \A row \in table.rows : row.sub # Nothing =>
      /\ row.aLabel = <<"name", NameOf(row.sub, row.a.local)>> /\ row.aStp = NameOf(row.sub, row.a.local)
      /\ row.zLabel = <<"name", NameOf(row.sub, row.z.local)>> /\ row.zStp = NameOf(row.sub, row.z.local)
      /\ row.labels = {row.a.local, row.z.local}

\* The capacity of an SDP is what the link can carry: no more than any of its
\* ends, an end of capacity 0 included, and unknown only if both ends' are.
CapacityIsTheLowerEnd ==
  kind = "sdp" =>
    \A row \in table.rows : row.sub # Nothing =>
      LET ends == subs[row.sub].stps
          known == {i \in DOMAIN ends : ends[i].capacity # NoCapacity}
      IN /\ \A i \in known : row.capacity <= ends[i].capacity
         /\ row.capacity = NoCapacity => known = {}

\* "STPs the DDS knows but that have no subscription yet" (the DDS only tab).
DdsOnlyIsUnsubscribed ==
  \A row \in table.rows : row.status = "DDS_ONLY" => RowKey(row) \notin always.wfo
=============================================================================
