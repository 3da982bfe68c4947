------------------------------ MODULE Failures ------------------------------
(***************************************************************************)
(* The validation panel of the dashboard: which failed processes of the    *)
(* orchestrator reach it, and how repeated failures of one check collapse  *)
(* into a counted row (fetch_validation_failures and dedupe_failures of    *)
(* amiss/sources/wfo.py).                                                  *)
(*                                                                         *)
(* A process is known by its place in the order of starting; the panel     *)
(* reads them at one moment, in one query.                                 *)
(***************************************************************************)
EXTENDS Integers, SequencesExt

CONSTANTS
  Workflow,      \* validation and system workflows
  Subscription,  \* the subscriptions they check
  PageLimit,     \* "first:" in the query
  MaxProcesses   \* bound on the processes ever started

NoSubscription == "none"   \* what a system task validates

ASSUME FailuresAssumption ==
  /\ NoSubscription \notin Subscription
  /\ PageLimit \in Nat /\ MaxProcesses \in Nat

VARIABLES
  processes,   \* oldest first: [workflow, subscription, status]
  terminated,  \* the subscriptions that are gone
  panel        \* what the dashboard shows: [shown, rows], first row first

vars == <<processes, terminated, panel>>

Key(row) == <<row.workflow, row.subscription>>

-----------------------------------------------------------------------------
\* The orchestrator's answer: the numbers of the newest PageLimit failed processes.
\* A list that is filtered keeps its order: it is restricted to the places that stay.
HasFailed(i) == processes[i].status = "failed"
\* Mutant: in the order of starting.
FailedOldestFirst == RestrictValues([i \in DOMAIN processes |-> i], HasFailed)
FailedNewestFirst == RestrictValues([n \in DOMAIN processes |-> Len(processes) + 1 - n], HasFailed)
FailuresPage ==
  RestrictDomain(FailedNewestFirst,
                 LAMBDA n : Cardinality({m \in DOMAIN FailedNewestFirst : m < n}) < PageLimit)

ValidationFailureRow(i) ==
  [process |-> i, workflow |-> processes[i].workflow, subscription |-> processes[i].subscription]

\* A dict keyed by Key, as the sequence of its values in insertion order.
Put(row, dict) ==
  IF \E i \in DOMAIN dict : Key(dict[i]) = Key(row)
  THEN [i \in DOMAIN dict |-> IF Key(dict[i]) = Key(row) THEN row ELSE dict[i]]
  ELSE Append(dict, row)
Occurrences(rows, key) == Cardinality({i \in DOMAIN rows : Key(rows[i]) = key})

\* Mutant: without reversing first, the oldest write wins.
DedupeFailuresOldest(rows) ==
  LET newest == FoldLeft(LAMBDA dict, row : Put(row, dict), <<>>, rows)
  IN [i \in DOMAIN newest |->
        [process     |-> newest[i].process, workflow |-> newest[i].workflow,
         subscription |-> newest[i].subscription,
         occurrences |-> Occurrences(rows, Key(newest[i]))]]
\* Mutant: the dict is handed over as it was filled, oldest first.
DedupeFailuresUnreversed(rows) ==
  LET newest == FoldRight(Put, rows, <<>>)
  IN [i \in DOMAIN newest |->
        [process     |-> newest[i].process, workflow |-> newest[i].workflow,
         subscription |-> newest[i].subscription,
         occurrences |-> Occurrences(rows, Key(newest[i]))]]
DedupeFailures(rows) ==
  LET newest == Reverse(FoldRight(Put, rows, <<>>))   \* from the last row to the first
  IN [i \in DOMAIN newest |->
        [process     |-> newest[i].process, workflow |-> newest[i].workflow,
         subscription |-> newest[i].subscription,
         occurrences |-> Occurrences(rows, Key(newest[i]))]]

OfLiveSubscription(i) == processes[i].subscription \notin terminated
FetchValidationFailures ==
  LET rows == RestrictValues(FailuresPage, OfLiveSubscription)
  IN DedupeFailures([n \in DOMAIN rows |-> ValidationFailureRow(rows[n])])

-----------------------------------------------------------------------------
\* A panel is looked at until something changes at the orchestrator.
NoPanel == [shown |-> FALSE, rows |-> <<>>]

Init ==
  /\ processes = <<>>
  /\ terminated = {}
  /\ panel = NoPanel

Start(w, s) ==
  /\ Len(processes) < MaxProcesses
  /\ s \notin terminated
  /\ processes' = Append(processes, [workflow |-> w, subscription |-> s, status |-> "running"])
  /\ panel' = NoPanel
  /\ UNCHANGED terminated

\* A process ends; a failed one may be resumed, and end again.
Finish(i, status) ==
  /\ processes[i].status = "running"
  /\ processes' = [processes EXCEPT ![i].status = status]
  /\ panel' = NoPanel
  /\ UNCHANGED terminated
Resume(i) ==
  /\ processes[i].status = "failed"
  /\ processes' = [processes EXCEPT ![i].status = "running"]
  /\ panel' = NoPanel
  /\ UNCHANGED terminated

Terminate(s) ==
  /\ s \notin terminated
  /\ terminated' = terminated \cup {s}
  /\ panel' = NoPanel
  /\ UNCHANGED processes

ShowPanel ==
  /\ panel' = [shown |-> TRUE, rows |-> FetchValidationFailures]
  /\ UNCHANGED <<processes, terminated>>

Next ==
  \/ \E w \in Workflow, s \in Subscription \cup {NoSubscription} : Start(w, s)
  \/ \E i \in DOMAIN processes : Finish(i, "failed") \/ Finish(i, "completed") \/ Resume(i)
  \/ \E s \in Subscription : Terminate(s)
  \/ ShowPanel

Spec == Init /\ [][Next]_vars

-----------------------------------------------------------------------------
\* What there is to report, said without the code's lists.
Failed == {i \in DOMAIN processes : processes[i].status = "failed"}
Reported == {i \in Failed : Cardinality({j \in Failed : j > i}) < PageLimit}
Relevant == {i \in Reported : processes[i].subscription \notin terminated}

\* The same check failing on the same subscription is one row: the most recent
\* of these failures, counted with all the others, whatever order they came in
\* and whatever other failures came between; and there are no other rows.
OneRowPerProblem ==
  panel.shown =>
    /\ \A n \in DOMAIN panel.rows : panel.rows[n].process \in Relevant
    /\ \A i \in Relevant :
         LET same == {j \in Relevant : Key(processes[j]) = Key(processes[i])}
         IN \E n \in DOMAIN panel.rows :
              /\ {m \in DOMAIN panel.rows : Key(panel.rows[m]) = Key(processes[i])} = {n}
              /\ panel.rows[n].process \in same /\ \A j \in same : j <= panel.rows[n].process
              /\ panel.rows[n].occurrences = Cardinality(same)

\* The limit is applied before failures of terminated subscriptions are dropped, so
\* these can fill the page: still a problem of a live subscription is off the panel
\* only once PageLimit processes that started after its own have failed.
NewFailuresSurface ==
  panel.shown =>
    \A i \in Failed :
      \/ processes[i].subscription \in terminated
      \/ \E n \in DOMAIN panel.rows : Key(panel.rows[n]) = Key(processes[i])
      \/ Cardinality({j \in Failed : j > i}) >= PageLimit

\* A problem that first failed after the last failure of another stands above it,
\* however often either of them failed: what has just broken is not found below what
\* was failing before.
NewProblemsAbove ==
  panel.shown =>
    \A m, n \in DOMAIN panel.rows : m < n =>
      \E i \in Relevant : Key(processes[i]) = Key(panel.rows[n]) /\ i < panel.rows[m].process

\* dedupe_failures's docstring: "reversing restores newest-first order".
NewestFirst ==
  \A m, n \in DOMAIN panel.rows : m < n => panel.rows[m].process > panel.rows[n].process
=============================================================================
