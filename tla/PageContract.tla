---------------------------- MODULE PageContract ----------------------------
(***************************************************************************)
(* What every AMISS page promises its reader, said without legs, pools or  *)
(* exceptions: a section shows rows only if each source it needs answered, *)
(* with a content that source really held at some moment between the       *)
(* request and the answer; an error is shown only for a source that        *)
(* failed, and "not authorized" only if the orchestrator refused.  There   *)
(* is no promise that the sources were read at one and the same moment.    *)
(***************************************************************************)
CONSTANTS Version, Connected, Source, Page, LegsOf, Section, Needs, None

VARIABLES
  world,    \* what each source holds now
  page, status, view,
  held,     \* what each source held at some moment since the request
  failed,   \* the sources that failed to answer this request
  refused   \* those that refused the user's credentials

vars == <<world, page, status, view, held, failed, refused>>

Init ==
  /\ world \in [Source -> Version]
  /\ page \in Page
  /\ status = "idle"
  /\ DOMAIN view = {}
  /\ held = [s \in Source |-> {}]
  /\ failed = {} /\ refused = {}

Change(s, v) ==
  /\ world' = [world EXCEPT ![s] = v]
  /\ held' = IF status = "asking" THEN [held EXCEPT ![s] = @ \cup {v}] ELSE held
  /\ UNCHANGED <<page, status, view, failed, refused>>

Request(p) ==
  /\ status # "asking"
  /\ page' = p /\ status' = "asking"
  /\ DOMAIN view' = {}
  /\ held' = [s \in Source |-> {world[s]}]
  /\ failed' = {} /\ refused' = {}
  /\ UNCHANGED world

Fail(s) ==
  /\ status = "asking" /\ s \in LegsOf[page] \ failed
  /\ failed' = failed \cup {s}
  /\ refused' \in {refused, refused \cup {s}}
  /\ UNCHANGED <<world, page, status, view, held>>

\* What the rows of a section may have been computed from.
Witnessed(section, from) ==
  /\ \A s \in Source : from[s] \in held[s] \cup {None}
  /\ \A s \in Needs[section] : from[s] \in held[s] /\ s \notin failed
  /\ section = "path" /\ from["circuits"] \in Connected => from["agg"] \in held["agg"]

Promised(section, shown) ==
  CASE shown.error = "ok"             -> Witnessed(section, shown.from)
    [] shown.error = "not_authorized" -> refused # {}
    [] shown.error = "unavailable"    -> failed # {}
    [] shown.error = "not_found"      -> \E s \in LegsOf[page] : s \notin failed

Serve ==
  /\ status = "asking" /\ status' = "answered"
  /\ DOMAIN view' \subseteq Section /\ DOMAIN view' # {}
  /\ \A section \in DOMAIN view' : Promised(section, view'[section])
  /\ UNCHANGED <<world, page, held, failed, refused>>

Next ==
  \/ \E s \in Source, v \in Version : Change(s, v)
  \/ \E p \in Page : Request(p)
  \/ \E s \in Source : Fail(s)
  \/ Serve

Spec == Init /\ [][Next]_vars
=============================================================================
