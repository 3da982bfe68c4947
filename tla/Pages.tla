------------------------------- MODULE Pages -------------------------------
(***************************************************************************)
(* How AMISS serves one page: the concurrent fetches ("legs") a route      *)
(* handler starts on its upstreams, the order in which it collects their   *)
(* results, the guards around that collection, and the sections the page   *)
(* ends up showing (amiss/data.py, amiss/frontend/home.py and the detail   *)
(* handlers of amiss/frontend).                                            *)
(*                                                                         *)
(* An upstream's content is a value of Version, and a section that shows   *)
(* rows is represented by the upstream contents it was computed from; what *)
(* those rows are is the subject of Reconcile, Spectrum and their kin.     *)
(***************************************************************************)
CONSTANTS
  Version,    \* the contents an upstream list may have
  Listed,     \* those in which the object named by a detail page's URL occurs
  Connected   \* those in which that object is a circuit with a connection id

None == "none"              \* a fetch that answered None: the documented failure
Exception == {"refused",    \* WfoUnauthorizedError
              "raised"}     \* any other exception that escapes the fetch
Failure == Exception \cup {None}
Waiting == {"unasked", "pending"}

ASSUME VersionAssumption ==
  /\ Version \cap (Failure \cup Waiting) = {}
  /\ Listed \subseteq Version
  /\ Connected \subseteq Listed

-----------------------------------------------------------------------------
\* Upstreams: one name per fetch function.

WfoSource == {"circuits", "topo", "ss", "stp", "sdp", "failures"}
ProxySource == {"dds_topos", "dds_ss", "dds_stps", "dds_sdps", "dds_nsas",
                "agg", "upas", "reservations"}
Source == WfoSource \cup ProxySource

\* The fetches each page submits to its thread pools.
LegsOf ==
  [home               |-> WfoSource \cup {"dds_topos", "dds_ss", "dds_stps", "dds_sdps", "agg"},
   circuits           |-> {"circuits"},
   circuit            |-> {"circuits", "sdp", "stp", "agg"},
   topologies         |-> {"topo", "dds_topos", "upas", "dds_nsas"},
   switching_services |-> {"ss", "dds_ss"},
   stps               |-> {"stp", "dds_stps"},
   stp                |-> {"stp", "dds_stps", "circuits", "sdp", "dds_sdps", "upas", "dds_nsas"},
   sdps               |-> {"sdp", "dds_sdps"},
   sdp                |-> {"sdp", "dds_sdps", "agg", "circuits"},
   spectrum           |-> {"sdp", "agg", "circuits"},
   providers          |-> {"upas", "dds_nsas"},
   provider           |-> {"upas", "dds_nsas", "reservations", "circuits", "stp"}]
Page == DOMAIN LegsOf

\* A section cannot show rows without an answer from each of these sources;
\* the path of a circuit also needs "agg", if the circuit is connected.
Needs ==
  [dashboard          |-> {},
   circuits           |-> {"circuits"},
   circuit            |-> {"circuits"},
   path               |-> {"circuits"},
   crossed            |-> {"sdp", "agg", "circuits"},
   topologies         |-> {"topo", "dds_topos"},
   switching_services |-> {"ss", "dds_ss"},
   stps               |-> {"stp", "dds_stps"},
   sdps               |-> {"sdp", "dds_sdps"},
   spectrum           |-> {"sdp", "agg", "circuits"},
   validation         |-> {"failures"},
   providers          |-> {"upas"},
   provider           |-> {"upas"},
   reservations       |-> {"reservations"}]
Section == DOMAIN Needs

-----------------------------------------------------------------------------
\* Sections: an error, or rows computed from the answers recorded in "from".

NoAnswer == [s \in Source |-> None]
Failed(error) == [error |-> error, from |-> NoAnswer]
Shown(o, S) == [error |-> "ok", from |-> [s \in Source |-> IF s \in S THEN o[s] ELSE None]]

\* Mutant: "wfo or []", a failed source read as an empty one.
ReconciledNoneAsEmpty(o, wfo, dds) == Shown(o, {wfo, dds})
\* reconcile_stps, reconcile_sdps, reconcile_named
Reconciled(o, wfo, dds) ==
  IF None \in {o[wfo], o[dds]} THEN Failed("unavailable") ELSE Shown(o, {wfo, dds})

BuildSpectrum(o) ==
  IF None \in {o["sdp"], o["agg"], o["circuits"]}
  THEN Failed("unavailable") ELSE Shown(o, {"sdp", "agg", "circuits"})

\* The aggregator decides which providers exist; the DDS only adds detail.
BuildProviders(o) ==
  IF o["upas"] = None THEN Failed("unavailable") ELSE Shown(o, {"upas", "dds_nsas"})

\* Mutant: a page without its links is no page.
LinkProvidersOrFail(section, providers) ==
  IF section.error = "ok" /\ providers.error # "ok" THEN providers ELSE section
\* A row is linked to its provider, where the providers could be fetched.
LinkProviders(section, providers) ==
  IF section.error = "ok" /\ providers.error = "ok"
  THEN [section EXCEPT !.from = [s \in Source |-> IF s \in LegsOf["providers"]
                                                  THEN providers.from[s] ELSE section.from[s]]]
  ELSE section

-----------------------------------------------------------------------------
\* Guards: a result() that raises ends the try block it is collected in.

First(a, b) == IF a \in Exception THEN a ELSE b
\* Mutant: the guard without its "except Exception" clause.
GuardedRefusalsOnly(exception, section) ==
  IF exception = "refused" THEN Failed("not_authorized") ELSE section
Guarded(exception, section) ==
  CASE exception = "refused" -> Failed("not_authorized")
    [] exception = "raised"  -> Failed("unavailable")
    [] OTHER                 -> section

\* Mutants: safe() without its "except Exception" clause, and safe() without the
\* clause that lets a refusal through.
SafeNothing(outcome) == outcome
SafeSwallowing(outcome) == IF outcome \in Exception THEN None ELSE outcome
\* safe(): every exception but a refusal degrades to None.
Safe(outcome) == IF outcome = "raised" THEN None ELSE outcome
SafeLegs(o) == [s \in Source |-> Safe(o[s])]

GetCircuits(o) ==
  Guarded(o["circuits"], IF o["circuits"] = None THEN Failed("unavailable")
                                                 ELSE Shown(o, {"circuits"}))
\* _get_named, get_stps and get_sdps: a WFO leg and a DDS leg, collected in that order.
GetReconciled(o, wfo, dds) == Guarded(First(o[wfo], o[dds]), Reconciled(o, wfo, dds))
GetProviders(o) == Guarded(First(o["upas"], o["dds_nsas"]), BuildProviders(o))
GetTopologies(o) == LinkProviders(GetReconciled(o, "topo", "dds_topos"), GetProviders(o))
GetSpectrum(o) ==
  Guarded(First(o["sdp"], First(o["agg"], o["circuits"])), BuildSpectrum(o))

-----------------------------------------------------------------------------
\* Handlers: the sections a page shows, from the outcome of each of its legs.

\* The WFO futures of the dashboard, resolved inside its one guard.
HomeGuard(o) ==
  First(o["circuits"], First(o["topo"], First(o["ss"], First(o["stp"], First(o["sdp"], o["failures"])))))
Home(o) ==
  IF HomeGuard(o) = "refused"
  THEN [dashboard |-> Failed("not_authorized")]
  ELSE [circuits           |-> GetCircuits(o),
        topologies         |-> Reconciled(o, "topo", "dds_topos"),
        switching_services |-> Reconciled(o, "ss", "dds_ss"),
        stps               |-> Reconciled(o, "stp", "dds_stps"),
        sdps               |-> Reconciled(o, "sdp", "dds_sdps"),
        spectrum           |-> BuildSpectrum(o),
        validation         |-> IF o["failures"] = None THEN Failed("unavailable")
                                                       ELSE Shown(o, {"failures"})]

CircuitGuard(o) == First(o["circuits"], First(o["sdp"], o["stp"]))
PathOf(o) ==
  IF o["circuits"] \notin Connected THEN Shown(o, {"circuits"})
  ELSE IF o["agg"] = None THEN Failed("unavailable")
  ELSE Shown(o, {"circuits", "agg", "stp"})
CircuitDetail(o) ==
  IF CircuitGuard(o) = "refused" THEN [circuit |-> Failed("not_authorized")]
  ELSE IF o["circuits"] = None THEN [circuit |-> Failed("unavailable")]
  ELSE IF o["circuits"] \notin Listed THEN [circuit |-> Failed("not_found")]
  ELSE [circuit |-> Shown(o, {"circuits"}),
        path    |-> PathOf(o),
        crossed |-> BuildSpectrum(o)]

GetStpDetail(o) ==
  [stps     |-> LinkProviders(GetReconciled(o, "stp", "dds_stps"), GetProviders(o)),
   circuits |-> GetCircuits(o),
   sdps     |-> GetReconciled(o, "sdp", "dds_sdps")]
StpDetail(o) ==
  IF GetStpDetail(o).stps.error # "ok" THEN [stps |-> GetStpDetail(o).stps]
  ELSE IF o["stp"] \notin Listed THEN [stps |-> Failed("not_found")]
  ELSE GetStpDetail(o)

\* One guard for both sections, so that each upstream is fetched once.
SdpGuard(o) == First(o["sdp"], First(o["dds_sdps"], First(o["agg"], o["circuits"])))
GetSdpDetail(o) ==
  [sdps     |-> Guarded(SdpGuard(o), Reconciled(o, "sdp", "dds_sdps")),
   spectrum |-> Guarded(SdpGuard(o), BuildSpectrum(o))]
SdpDetail(o) ==
  IF GetSdpDetail(o).sdps.error # "ok" THEN [sdps |-> GetSdpDetail(o).sdps]
  ELSE IF o["sdp"] \notin Listed THEN [sdps |-> Failed("not_found")]
  ELSE GetSdpDetail(o)

ProviderGuard(o) ==
  First(o["circuits"], First(o["stp"], First(o["upas"], First(o["dds_nsas"], o["reservations"]))))
GetProviderDetail(o) ==
  [provider     |-> Guarded(ProviderGuard(o), BuildProviders(o)),
   reservations |-> IF o["reservations"] = None THEN Failed("unavailable")
                    ELSE Shown(o, {"reservations", "circuits", "stp"})]
ProviderDetail(o) ==
  IF GetProviderDetail(o).provider.error # "ok" THEN [provider |-> GetProviderDetail(o).provider]
  ELSE IF o["upas"] \notin Listed THEN [provider |-> Failed("not_found")]
  ELSE GetProviderDetail(o)

Handle(p, o) ==
  CASE p = "home"               -> Home(SafeLegs(o))
    [] p = "circuits"           -> [circuits |-> GetCircuits(o)]
    [] p = "circuit"            -> CircuitDetail(SafeLegs(o))
    [] p = "topologies"         -> [topologies |-> GetTopologies(o)]
    [] p = "switching_services" -> [switching_services |-> GetReconciled(o, "ss", "dds_ss")]
    [] p = "stps"               -> [stps |-> GetReconciled(o, "stp", "dds_stps")]
    [] p = "stp"                -> StpDetail(o)
    [] p = "sdps"               -> [sdps |-> GetReconciled(o, "sdp", "dds_sdps")]
    [] p = "sdp"                -> SdpDetail(o)
    [] p = "spectrum"           -> [spectrum |-> GetSpectrum(o)]
    [] p = "providers"          -> [providers |-> GetProviders(o)]
    [] p = "provider"           -> ProviderDetail(o)

\* A result() collected where no except clause catches what it raises: a 500.
Escapes(p, o) ==
  LET safe == SafeLegs(o)
  IN \/ /\ p = "home"
        /\ \/ HomeGuard(safe) = "raised"
           \/ HomeGuard(safe) # "refused" /\ \E s \in LegsOf["home"] \cap ProxySource : safe[s] \in Exception
     \/ /\ p = "circuit"
        /\ \/ CircuitGuard(safe) = "raised"
           \/ CircuitGuard(safe) # "refused" /\ safe["circuits"] \in Listed /\ safe["agg"] \in Exception

-----------------------------------------------------------------------------
VARIABLES
  world,    \* what each upstream holds now
  page,     \* the page last requested
  status,   \* "idle", "asking", "answered" or "crashed"
  legs,     \* the outcome of each fetch of this request
  held,     \* history: what each upstream held at some moment of this request
  view      \* the sections shown

vars == <<world, page, status, legs, held, view>>

NoView == [s \in {} |-> Failed("unavailable")]

Init ==
  /\ world \in [Source -> Version]
  /\ page \in Page
  /\ status = "idle"
  /\ legs = [s \in Source |-> "unasked"]
  /\ held = [s \in Source |-> {}]
  /\ view = NoView

\* An upstream's content changes, whatever AMISS is doing.
Change(s, v) ==
  /\ v # world[s]
  /\ world' = [world EXCEPT ![s] = v]
  /\ held' = IF status = "asking" THEN [held EXCEPT ![s] = @ \cup {v}] ELSE held
  /\ UNCHANGED <<page, status, legs, view>>

\* A browser asks for a page: its handler submits every leg at once, to pools
\* with a worker for each.
Request(p) ==
  /\ status # "asking"
  /\ page' = p
  /\ status' = "asking"
  /\ legs' = [s \in Source |-> IF s \in LegsOf[p] THEN "pending" ELSE "unasked"]
  /\ held' = [s \in Source |-> {world[s]}]
  /\ view' = NoView
  /\ UNCHANGED world

\* Mutant: the nested accessors of /stp/{id} share the pool their parents fill.
AnswerOnSharedPool(s) ==
  /\ legs[s] = "pending" /\ page # "stp"
  /\ legs' = [legs EXCEPT ![s] = world[s]]
  /\ UNCHANGED <<world, page, status, held, view>>

\* A fetch ends: the upstream's present content, None, an exception; only the
\* orchestrator refuses, since the proxies get AMISS's own identity.
Answer(s) ==
  /\ legs[s] = "pending"
  /\ \E o \in {world[s], None, "raised"} \cup (IF s \in WfoSource THEN {"refused"} ELSE {}) :
       legs' = [legs EXCEPT ![s] = o]
  /\ UNCHANGED <<world, page, status, held, view>>

\* Leaving the pool's "with" block waits for every leg; then the results are
\* collected and the page composed.
Respond ==
  /\ status = "asking"
  /\ \A s \in Source : legs[s] # "pending"
  /\ status' = IF Escapes(page, legs) THEN "crashed" ELSE "answered"
  /\ view' = IF Escapes(page, legs) THEN NoView ELSE Handle(page, legs)
  /\ UNCHANGED <<world, page, legs, held>>

Next ==
  \/ \E s \in Source, v \in Version : Change(s, v)
  \/ \E p \in Page : Request(p)
  \/ \E s \in Source : Answer(s)
  \/ Respond

Spec == Init /\ [][Next]_vars

\* REQUEST_TIMEOUT and the bounded retries end every fetch, and a worker whose
\* fetches have ended goes on to compose the page.
Fairness == (\A s \in Source : WF_vars(Answer(s))) /\ WF_vars(Respond)
FairSpec == Spec /\ Fairness

-----------------------------------------------------------------------------
SectionView ==
  [error : {"ok", "not_authorized", "unavailable", "not_found"},
   from : [Source -> Version \cup {None}]]

\* Every upstream outcome and every composed section is one the code can
\* produce; an unasked or still pending leg never reaches a section.
TypeOK ==
  /\ world \in [Source -> Version]
  /\ page \in Page
  /\ status \in {"idle", "asking", "answered", "crashed"}
  /\ legs \in [Source -> Version \cup Failure \cup Waiting]
  /\ held \in [Source -> SUBSET Version]
  /\ DOMAIN view \subseteq Section
  /\ \A section \in DOMAIN view : view[section] \in SectionView

Delivered(s) == legs[s] \in Version
Outcomes(S) == {legs[s] : s \in S}

\* The accessors back the user-facing pages, "so they must never raise": no
\* combination of failing legs makes a page answer with a server error.
NoServerError == status # "crashed"

\* A refused credential is reported as one, and never reads as an outage: by
\* the whole page where the legs run under safe(), and by every section that
\* needs the refused source where no leg of the section raised something else.
RefusalReported ==
  status = "answered" =>
    /\ page \in {"home", "circuit"} /\ "refused" \in Outcomes(LegsOf[page])
         => \A section \in DOMAIN view : view[section].error = "not_authorized"
    /\ \A section \in DOMAIN view :
         /\ "refused" \in Outcomes(Needs[section])
         /\ "raised" \notin Outcomes(LegsOf[page])
         => view[section].error = "not_authorized"

\* The legs of the detail pages and of the dashboard are independent: a section
\* whose own sources all answered is shown, whatever the other legs did.
SectionsDegradeAlone ==
  /\ status = "answered"
  /\ \/ page \in {"topologies", "stp"}
     \/ page \in {"home", "circuit"} /\ "refused" \notin Outcomes(LegsOf[page])
  => \A section \in DOMAIN view :
       (\A s \in Needs[section] \cup (IF section = "path" THEN {"agg"} ELSE {}) : Delivered(s))
         => view[section].error \in {"ok", "not_found"}

\* Every page asked for is answered: no pool waits for ever.
RequestAnswered == status = "asking" ~> status = "answered"

\* get_provider_detail's docstring: the WFO only supplies links, so its failure
\* leaves the links empty rather than failing the page.
ProviderSurvivesWfo ==
  /\ status = "answered" /\ page = "provider"
  /\ "refused" \notin Outcomes(WfoSource)
  /\ \A s \in LegsOf["provider"] \cap ProxySource : Delivered(s)
  => view["provider"].error \in {"ok", "not_found"}

\* What a page promises, whatever its legs do: see PageContract.
Contract == INSTANCE PageContract WITH
  failed <- {s \in Source : legs[s] \in Failure},
  refused <- {s \in Source : legs[s] = "refused"}
ImplementsContract == Contract!Spec
=============================================================================
