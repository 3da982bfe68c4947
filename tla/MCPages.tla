------------------------------ MODULE MCPages ------------------------------
(* Bounds Pages for TLC. *)
EXTENDS Pages, Naturals, FiniteSets

CONSTANTS
  AskedPages,   \* the pages requested in this run
  MaxFailures,  \* legs that fail in one request
  MaxChanged,   \* upstreams whose content changes during one request
  StillPages    \* pages during which none does

InitialContent == CHOOSE v \in Connected : TRUE
Changed(w) == {s \in Source : w[s] # InitialContent}

MCInit == world = [s \in Source |-> InitialContent] /\ page = (CHOOSE p \in AskedPages : TRUE) /\ Init

\* An upstream changes while the page in hand still waits for it (the page
\* cannot see any other change), and back to the initial content in between.
MCChange(s, v) ==
  /\ IF status = "asking" THEN legs[s] = "pending" ELSE v = InitialContent
  /\ Change(s, v)
  /\ status = "asking" => page \notin StillPages
  /\ Cardinality({t \in Source : Cardinality(held'[t]) > 1}) <= MaxChanged
MCRequest(p) == Changed(world) = {} /\ Request(p)
MCAnswer(s) ==
  /\ Answer(s)
  /\ Cardinality({t \in Source : legs'[t] \in Failure}) <= MaxFailures

MCNext ==
  \/ \E s \in Source, v \in Version : MCChange(s, v)
  \/ \E p \in AskedPages : MCRequest(p)
  \/ \E s \in Source : MCAnswer(s)
  \/ Respond

MCSpec == MCInit /\ [][MCNext]_vars
          /\ (\A s \in Source : WF_vars(MCAnswer(s))) /\ WF_vars(Respond)
=============================================================================
