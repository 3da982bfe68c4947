# AMISS: TLA+ specifications

AMISS (the NSI management information system) is a stateless web front end. It
shows what three upstreams hold about a federation of networks, and where they
disagree:

* the **WFO**, the workflow orchestrator, read over GraphQL with the *user's*
  token: circuits, subscriptions of STPs, SDPs, topologies and switching
  services, and failed validation processes;
* the **DDS proxy**, read with AMISS's own identity: the documents the networks
  publish about the same objects;
* the **aggregator proxy**, also read with AMISS's own identity: the paths of
  circuits, and the peered providers (uPAs) with their reservations.

Nothing is stored between requests. What can go wrong is in one request: a page
starts several fetches at once, the upstreams change while they are under way,
any of them may fail in one of several ways, and the page must still be an
honest account of what the upstreams held.

## 1. Inventory

| Part | Source (`src/amiss/`) | State | Operations | Interacts with |
|---|---|---|---|---|
| Page accessors | `data.py` | the futures of one request | `get_circuits` ... `get_circuit_detail`, `safe` | called by the route handlers; thread pools of fetches |
| Dashboard | `frontend/home.py` | the futures of one request | `home`, the cards | all WFO and DDS fetches, the aggregator |
| Detail and list pages | `frontend/*.py` | none | handlers, tabs | accessors |
| Reconciliation | `sources/reconcile.py` | none (pure) | `reconcile_stps/named/sdps`, `sdp_ends`, ... | the accessors, the spectrum |
| WFO source | `sources/wfo.py` | none | `query_wfo`, `fetch_*`, `dedupe_failures` | the orchestrator |
| DDS source | `sources/dds_topology.py`, `dds.py` | none | `fetch_dds_*` | the DDS proxy |
| Spectrum and paths | `sources/aggregator.py` | none (pure) | `build_spectrum`, `sdps_crossed`, `link_segments` | circuits, SDPs, paths |
| Providers | `sources/providers.py` | none (pure) | `build_providers`, `link_providers`, `link_reservations` | aggregator, DDS, WFO |
| HTTP client | `nsi.py` | a session with a retrying adapter | `nsi_util_get_json` | all fetches |
| Application | `__init__.py`, `frontend/healthcheck.py` | the server's thread pool | routes, the probe | browser, kubelet |
| Re-authentication | `static/auth-reload.js` | a time stamp in `sessionStorage` | `reauth` | browser, login proxy |
| Layout, settings, logging, chart | `frontend/util.py`, `settings.py`, `log.py`, `chart/` | start-up configuration | | |

What is hard, and what makes each part correct:

* **Concurrency.** The legs of a page answer in any order, at moments of their
  own. An object that did not change must be shown as it is; rows must come from
  contents the sources really held during the request.
* **Failure.** A fetch gives a list, `None` (the documented failure), a refusal
  (`WfoUnauthorizedError`, only the WFO) or some other exception. No combination
  may become a server error; a failed source is not an empty one; a refusal is
  reported as one; a section is lost only with a source it needs.
* **Consistency.** The dashboard and the page of a circuit show the same lists in
  several ways: the ways must agree with each other and with the pages they link to.
* **Matching.** Ids come in several spellings, lists may hold an object twice,
  ends of a link come in either order, a capacity may be 0 or unknown.
* **History.** Terminated subscriptions, retried circuits, reservations of other
  requesters and repeated failures are all still in the upstreams' answers.
* **Limits.** Every query asks for one page of bounded size, and that for circuits
  counts the terminated ones. What is cut off is missing, and nothing else may be.
* **Retries.** The session that all fetches share tries again by rules of its own:
  a fetch must end, and a query must not be sent twice. The browser reloads to
  renew a session, and must not do so over and over.

`PROJECT.json` lists each of these hazards at its line, with the property that
would catch it or the reason why none does.

## 2. Modules

| Module | Models | State and actions |
|---|---|---|
| `Pages` | control of a page request: legs, collection order, guards, sections | `legs` are the futures of the request, `view` the sections composed; `Request` submits, `Answer` ends one fetch, `Respond` leaves the pools, collects and composes, `Change` is the environment |
| `PageContract` | what a page promises, without legs or exceptions | the abstract specification `Pages` implements |
| `Leg` | one fetch as a page may rely on it: it settles once, and is refused only if it carried the user's token | the abstract specification of `HttpFetch` and of each leg of `Pages` |
| `HttpFetch` | one fetch: attempts, retries, timeouts, and what the answer comes to for its caller | `connects`, `failures` are the counters of the retry budget, `outcome` what the caller gets; one action for each way an attempt ends |
| `Reconcile` | the pure reconciliation and the filter, limit and backstop of a WFO list | operators only |
| `Inventory` | one inventory page over changing sources; uses `Reconcile` | `subs`, `docs` are what the sources hold, `wfo`, `dds` the two legs, `table` what is shown; `Subscribe`, `Terminate`, `Advertise`, `Withdraw` are the environment |
| `SpectrumRows` | the pure join of circuits, paths and SDPs; uses `Reconcile` | operators only |
| `Spectrum` | `/spectrum` over changing sources; uses `SpectrumRows` | `circuits`, `reservations`, `sdps` are what the sources hold, `legs` what was read, `rows` what is shown; `Answer` reads one source, of circuits and SDPs as many as the query asks for; the environment follows the life of a circuit: subscription, reservation, connection id, retry, termination |
| `Dashboard` | the cards of the dashboard with the lists they link to, and the page of a circuit with its path and SDPs; uses `SpectrumRows` | `held` is what the sources hold, `legs` what was read, `view` the cards or the sections; `Answer` reads one source, a part of it if its query has a limit; `Compose` builds the page |
| `Failures` | the validation panel | `processes`, `terminated` at the orchestrator, `panel`; `ShowPanel` is the one query |
| `Links` | the page of a provider with its tabs and the page of an STP: which circuit, STP and provider a row links to; uses `Reconcile` | `circuits`, `stps`, `reservations`, `upas`, `nsas` are what the systems hold, `legs` the fetches, `view` the page; `Answer` reads one source, of circuits and STPs as many as the query asks for; the environment tries circuits again under a new reservation id, lets reservations fail and end, terminates, peers and publishes |
| `AuthReload` | the wrapper around the browser's `fetch` | `age` is the difference of the clock and the stored time, `fetches` the promises; one action for each way a fetch settles, and the environment lets the session expire and sets the clock |

`MCPages`, `MCInventory`, `MCSpectrum`, `MCDashboard` and `MCLinks` give these
modules bounds and the constants a configuration cannot write; `MCSpectrum` and
`MCLinks` also start from a state with some history, which the modules' own
specifications reach, and leave out states that show nothing more. The theorems are
about the modules' own specifications, without either. The theorems are in
`PagesProofs`, `InventoryProofs`, `SpectrumProofs`, `DashboardProofs`, `LinksProofs`,
`FailuresProofs` and `ClientProofs` (`HttpFetch` and `AuthReload`); `RowsProofs` has
the lemmas that five of them share, about `Reconcile`, `SpectrumRows` and what is
counted, summed and folded.

How they fit together. `HttpFetch` describes inside one fetch what a page takes as
the single step `Answer`. `Leg` is the seam: `HttpFetch` implements it with all its
retries (`ImplementsLeg`), and each leg of `Pages` is nothing more than one
(`LegsAreFetches`), so the four outcomes `Answer` chooses from are the ones a
fetch can have. `Pages` decides which sections a request shows and with what error,
for every page; `Inventory`, `Spectrum`, `Dashboard`, `Links` and `Failures` look
inside the sections, each with the legs of its page read at moments of their own.
What a row is made of is said once: the lookup of an STP's subscription
(`SubscriptionOf` of `Reconcile`) serves `Links` and the path of a circuit in
`Dashboard`, and `BuildSpectrum` of `SpectrumRows` serves `/spectrum`, the spectrum
card and the page of a circuit. `AuthReload` runs in the browser and meets the
others only through the answers it gets.

### Abstractions

* In `Pages` the content of an upstream is a member of `Version`; a section that
  shows rows records which contents (`from`) it was computed from. What the rows
  are is left to the other modules. `Listed` are the contents
  in which the object of a detail page occurs, `Connected` those in which it is a
  circuit with a connection id: these decide between the handler's branches.
* An answer that is not a list (malformed JSON, an HTTP error, an unreachable
  host) is `None`; any exception the fetch does not catch is `"raised"`. Both are
  free choices of `Answer`, since the upstreams are. `HttpFetch` tells these apart:
  there a body is one of ten sorts of content, enough to take every branch of
  `query_wfo`, `nsi_util_get_json` and the two list parsers.
* An NSI id is a record of the identifier proper and of the form it is written
  in. `NormalizeId` forgets the form; that is all that `normalize_id` does.
  Case is preserved by the code and so does not appear. An end of a path also has
  a VLAN.
* Rows are sets. The code sorts them by id, which no property is about. The
  exception is the validation panel, whose order is documented.
* A list filtered in Python keeps its order, and the properties never ask for the
  positions: a filtered list is the function restricted to the places that stay,
  so that lookups that keep the first or the last match still mean something.
  Lists joined from two others are sets.
* A query that stops at a limit answers any part of the list of that size, in the
  order of the list (`PagesOf` of `Reconcile`, `MayAnswer` of the modules): nothing
  in this code says which. What a page owes to an object is stated for those that are
  `Certain`: the object was there all the while, and either it came, or the list never
  exceeded the limit. `Served` of `Inventory` takes the first that fit: there it is about
  which objects a cut list can hide, not which it happens to.
* `held`, `always` and `ever` (`seen` in `Links`) are history variables: they exist
  for the properties and for the refinement, and no action's guard reads them. In
  `Dashboard`, `held` is what the sources hold now.
* `Spectrum` and `Dashboard` take their sources as answering, and `Dashboard` shows
  one of the four reconciliation cards, which are one function in the code: a
  failed leg is the subject of `Pages`.
* In `Links` the provider of a provider page is one that exists (that it may not be
  is in `Pages`) and the DDS leg of an STP page is empty, since the row it adds is
  the subject of `Inventory`. `get_providers` is one leg whose two sources are read
  together. A provider announces one network. Of the lifecycle of a reservation,
  `"Failed"` stands for every state on neither of the two narrower tabs.
* `AuthReload` keeps differences of times, never times: `age` and `since` stop at
  `GUARD_MS`, past which the code does not tell them apart. A fetch belongs to the
  page's own origin or not; how `sameOrigin` finds out is not modelled.
* A page is looked at until its upstreams change (`Inventory`, `Spectrum`,
  `Dashboard`, `Links`, `Failures`): leaving it then keeps the properties about the
  page and what it was read from in one state.

## 3. Runs

| Run | Bounds | Shows |
|---|---|---|
| `pages` (`MCPages.cfg`) | all twelve pages, two contents, at most 2 failing legs, 1 upstream changing per request, none during that of the dashboard | `TypeOK`, `NoServerError`, `RefusalReported`, `SectionsDegradeAlone`, refinement `ImplementsContract`, liveness `RequestAnswered` |
| `inventory` (`MCInventory.cfg`) | 2 ids; STPs and named objects: 2 subscriptions, 2 documents in two spellings, 2 and 1 changes per request; SDPs: 2 subscriptions with members in either order and capacities unknown, 0 and 2, 1 document, changes between requests only | `TypeOK`, `StableObjectsRight`, `OneRowPerObject`, `EndsInTheirColumns`, `CapacityIsTheLowerEnd` |
| `spectrum` (`MCSpectrum.cfg`) | 1 terminated circuit and 2 more of which an answer has 2, 2 reservations over 4 shapes of path, 1 SDP of one member and 2 links of which an answer has 2, 2 changes per request; 1.98 million states | `StableCircuitsPlaced`, `OnlyOpenCircuitsShown`, `ReservedOnce`, `VlanOfTheSdp`, `FullLinkReadsFull` |
| `dashboard` (`MCDashboard.cfg`) | 2 circuits and 1 terminated one of which an answer has 2, 2 reservations over 2 paths, 1 SDP subscription that may lack an end, 1 of 2 SDPs in the DDS, 1 STP subscription, 1 change per request | `CardsOfOneSnapshot`, `CardsMatchTheirPages`, `PathAndSdpsAgree`, `PathEndsLinked` |
| `failures` (`MCFailures.cfg`) | 4 processes of 2 workflows, a subscription and the system tasks, page limit 3 | `OneRowPerProblem`, `NewFailuresSurface`, `NewProblemsAbove` |
| `links` (`MCLinks.cfg`) | provider page: 3 circuits of which an answer has 2, tried up to twice, 1 reservation, 2 STP subscriptions of which an answer has 1; STP page: 1 terminated circuit and 2 more of which an answer has 2, 2 STP subscriptions, 2 providers of which 1 document names one; 1 change per request; 2.14 million states | `ReservationsLinkTheirCircuit`, `ReservationsOnTheirTabs`, `EndsLinkTheirStp`, `CircuitsOfTheStp`, `ProviderServesTheNetwork` |
| `http_fetch` (`MCHttpFetch.cfg`) | none: the code's own retry limits, every status and content of an answer | `OutcomeRight`, `PostedOnce`, `AttemptsBounded`, refinement `ImplementsLeg`, liveness `FetchEnds` |
| `auth_reload` (`MCAuthReload.cfg`) | 2 fetches to the page's origin and 1 elsewhere, a guard of 3 ticks, the clock set twice by up to 4 | `ReloadsSpaced`, `SwallowedWhileReloading`, liveness `SessionRenewed` |
| `provider_wfo` | the provider page, 1 failing leg | *violated*: finding 1 |
| `stp_truncated` | page limit 1, 2 subscriptions | *violated*: finding 2 |
| `failures_order` | 3 processes | *violated*: finding 3 |
| `spectrum_page` | 2 SDP subscriptions | *violated*: finding 4 |

**Why the bounds are enough.** Two failing legs are the fewest that show which of
two failures wins, and no handler distinguishes more; the proofs in section 5 do
away with the bound. Two contents of which one does not list the object take
every branch on a successful answer. One changing upstream shows torn reads,
since a page never compares more than the two contents one leg can return; the
dashboard combines no two of its sections, and its eleven legs are left still.
In the inventory runs two ids are needed for an SDP and for one object to change
while another does not; two subscriptions or documents collide on one id. In the
spectrum, two circuits share an SDP or a retried circuit leaves a reservation
behind, one path crosses both links, one crosses none, one is local; two changes
let a source change between each two of the three legs. It starts with a terminated
circuit and an SDP of one member (`MCInit`), which show nothing themselves: with them
an answer of two lacks either of the others or neither, and the SDPs after the first
are links (`MCNext`).
In `dashboard` three circuits of which an answer has two are the fewest that
overflow the limit in two different ways; the SDP of the DDS is the subscribed one
or another; one path crosses the link and the other is astray though it touches
one end of it; one change between two legs is what a card could contradict another
by. Three failures with one
of another check in the middle are the shortest interleaving; the fourth exceeds
the page limit. In `links` two circuits are the fewest of which one can take the
other's link, and a third overflows the answer; two tries are the fewest that leave a
stale reservation; two STP subscriptions are of one STP or of two networks, and on a
provider page one too many for the answer; two providers compete for one network. The
page of an STP starts with a terminated circuit (`MCInit`). To keep the states few,
`ProviderWorld` has the circuits of a provider page never terminated and never more
than two of them with a reservation id, and the STP that is no end of a reservation
never change; `StpWorld` has one circuit at a time in use, and circuits beyond the
first or providers, not both. The theorems do without all of this. In `auth_reload` two
fetches fail within one guard, and a step of the
clock is longer than the guard; the theorem does away with all three bounds.

The names of the bounds: changes during a request are bounded by `MaxEdits`
(`Inventory`, `Spectrum`, `Dashboard`, `Links`) and by `MaxChanged` and `StillPages`
(`MCPages`, which asks for `AskedPages`); failures by `MaxFailures`; lists by `MaxSubs`,
`MaxDocs`, `MaxCircuits`, `MaxReservations`, `MaxSdps`, `MaxStps`, `MaxPeers`,
`MaxNames`, `MaxProcesses`; tries of a circuit by `MaxTries`; adjustments of the
clock by `MaxStep` and `MaxSteps`. In `Inventory` and `Links` a bound is a function
of the page, so that each page has the sizes that matter to it in one run.
`PageLimit`, `CircuitLimit`, `StpLimit` and `SdpLimit` are limits of the code's queries
(`first:`), made small, and
`MaxConnect` and `MaxTotal` of `HttpFetch` are the code's and its library's as they are.

**Fairness.** `FairSpec` (and `MCSpec` of `MCPages`) assume weak fairness of every
`Answer` and of `Respond`: each fetch has a connect and a read timeout
(`REQUEST_TIMEOUT`, `nsi.py:38`) and a bounded number of retries (`nsi.py:32`), so
it ends; and the worker thread of a request whose futures are done goes on. The
pools have a worker for each leg (`max_workers` equals the number of `submit`
calls everywhere), so no leg waits for another. Nothing is assumed of users or
upstreams. That a body arriving a byte at a time never trips a read timeout, and
that a request first waits for a thread of the web server, are outside the model.

`HttpFetch` assumes weak fairness of `AttemptEnds`: `REQUEST_TIMEOUT` ends every
attempt to connect and every wait for an answer, in no particular way; whether an
idle fetch is started is left open. `AuthReload` assumes that the user
goes on browsing, each view being a fetch (weak fairness of `Send`), that
time passes (`Tick`), that a reload ends (`Reloaded`), and strong fairness of
`Fails` without a session: the proxy turns an expired session's fetch into a
redirect again and again, though some fetches are aborted or answered by a plain
401. Without the last, a session could stay expired because every fetch is
aborted. The other modules are about safety only and state no fairness.

## 4. Findings

1. `get_provider_detail` collects the WFO legs in the page's own `try`
   (`data.py:259`). `query_wfo` catches only `ConnectionError` and `Timeout`; a
   body cut off half-way raises `ChunkedEncodingError`, and the page reads
   "Provider unavailable" although its docstring says that a failure of the WFO
   leaves the links empty. Run `provider_wfo`.
2. An inventory with more subscriptions than the page limit of its query
   (`wfo.py:307`, which only logs it) lists subscribed objects as "DDS only". Run
   `stp_truncated`.
3. `dedupe_failures` (`wfo.py:491`) restores newest-first order by reversing a
   dict, but overwriting an entry keeps its old position: failures A, B, A give
   B above the newer A. Run `failures_order`. `NewProblemsAbove` says what holds of the
   order nevertheless, and would if it were mended: a problem that first failed after
   the last failure of another is above it.
4. Two live SDP subscriptions for one pair of STPs are two rows of `/spectrum`,
   while the SDP pages keep the last (`reconcile.py:309`): the other row's link
   leads to "No SDP with id". Run `spectrum_page`.

Two docstrings say a little more than the code does, without a run of their own.
`circuits.py:89` calls the default tab "Circuits that are neither failed nor
terminated", though reserved ones have a tab of their own; `circuits.py:113` has "All
circuits regardless of state", of which the query answers 500 (`CircuitLimit` in
`Dashboard`).

## 5. Proofs

`PagesProofs` proves, for any sets `Version`, `Listed`, `Connected` that satisfy
`VersionAssumption` (contents are not confused with failures; a circuit with a
connection id is listed), any number of failing legs and any changes:

* `TypeCorrect`: `Spec => []TypeOK`;
* `NeverServerError`: `Spec => []NoServerError`;
* `PagesImplementContract`: `Spec => ImplementsContract`, every behaviour of the
  page server is one of `PageContract`.

The argument has two halves. The first is about the handlers alone, without
states: `Sound(p, o, section, shown)` says that what a section of page `p` shows is
justified by the outcomes `o` of the legs of `p`. One lemma per accessor and per
handler (`GetReconciledSound`, `StpSound`, ...) leads to `HandleSound`, and
`NothingEscapes` shows that `safe()` leaves no exception outside a guard.

The second half is the inductive invariant `IInv`. `TypeOK` and `NoServerError`
are not inductive: a section is well-typed only because a page does not
respond before its legs have answered (`LegsAsked`, `PendingAsked`), and no
server error happens only because the proxies never refuse (`ProxiesAccept`).
`AnswersHeld` (an answer is a content its source held during the request) and
`WorldHeld` (the present content counts as held while the page is asking) are
what the refinement needs: with them `Sound` becomes `Promised`, and a step of
`Pages` is a step of `PageContract` or leaves its variables unchanged.

The same invariant gives `RefusalIsReported`: `Spec => []RefusalReported`. Its lemmas
run parallel to those of the first half: `StpReports`, `SdpReports`, `ProxyReports`
lead to `HandleReports` for the pages whose sections report their own legs, and
`SafeReports` says that on the dashboard and the circuit page one refused leg is
reported by everything shown. `LegsAnswered` supplies what they need of the state.
`SectionsAreIndependent`: `Spec => []SectionsDegradeAlone` follows the same way from
`HandleAlone`: where the sources a section needs all answered, each function it is
made of returns rows, whatever the outcomes of the other legs.

`ProviderFailsWithWfoOnly` says how far finding 1 goes: once the proxies have answered
and no credential was refused, the provider page is lost exactly when a WFO leg raised
(`WfoRaises`); without such a leg `ProviderSurvivesWfo` holds, as the docstring has it.

`LegsAreFetches` closes the loop with `HttpFetch`: in every behaviour of `Pages`, for
each source, that source's leg is a behaviour of `Leg`.

`ClientProofs` proves, of `HttpFetch`, `RetriesBounded` (`AttemptsBounded`),
`QueriesPostedOnce` (`PostedOnce`), `AnswersReadRight` (`OutcomeRight`) and
`FetchesAreLegs` (`ImplementsLeg`). The bounds on what reaches the upstream are not
inductive, since nothing in the code counts deliveries. The invariant relates them to
the counters the retries do keep: until a fetch is done, deliveries and failed connects together
are at most the failed attempts, one more while an answer is awaited; and a
query that is still connecting was not delivered at all. For the outcome a second
invariant keeps the last answer with what it came to, one lemma for each kind of
caller.

`RowsProofs` has what the lookups return, for lists of any length: a dict built in
list order holds the last item of a key (`LastPlace` finds it), so `ByIdFinds`,
`ByPairFindsSub`, `ByConnectionFinds`, `SubscriptionOfFinds`; and what the spectrum is
made of: `BackedRight` (which circuits are joined with which paths), `TouchedRight`,
`PairOfLink`, `CrossesRight`, `LinkHasRow` and `CircuitOnRow`, which translate the
code's sets of normalised ids into `Over`, said without any lookup.

It also has what the spectrum sums and the validation panel folds. A sum or a fold of
the community modules is a `CHOOSE` of the function that satisfies its equations, so
nothing follows of it before such a function is known to exist. The library's
induction theorems take an operator and cannot be used here; the lemmas argue by the
least counterexample instead. `Counting` says it for a set of numbers (one that has 0
and with each number the next has all), `PartByPart` for a set of parts of a finite
set, and both take an ordinary set, which the provers can instantiate. From them
`FoldExists` has the function of any fold over the parts of a finite set, whatever
element is taken next, `SumExists` and `SumOut` make it a sum that does not depend on
that order, `SumGrows` compares the sums of a set and a part of it, and `SumCarries`
carries a sum along a bijection.

`InventoryProofs`, for any ids, spellings, capacities, list lengths and page limit:
`TypeCorrect`, `OneRowEach`, `ColumnsOfTheEnds`, `CapacityOfTheLink`. The
invariant says what the lists look like (`Shapes`), that a leg brought a list whose
objects lie between those held `always` and `ever` during the request (`LegsInv`,
`HistoryInv`), and that the table is the reconciliation of the two legs (`ShownInv`);
`RowsRight` is the same for all kinds of rows. Two theorems divide finding 2.
`StableWithinThePage`: in every state whose subscriptions fit one page,
`StableObjectsRight` and `DdsOnlyIsUnsubscribed` hold. `TruncationOnlyHides`: in the
others too the page invents nothing (`NeverInvented`); each row is of an object some
source held, and what is missing from it was hidden by the limit.

`SpectrumProofs`, for any paths, SDPs, bandwidths, query limits and bounds: `OnlyOpenCircuits`,
`VlansRight`, `CircuitsPlaced`, `EachCircuitCountedOnce` (`ReservedOnce`),
`FullLinksReadFull` (`FullLinkReadsFull`). The invariant adds to this pattern that
lists number their items and that no connection is of two circuits (`SourcesInv`),
which is why an index by connection id loses no circuit; it holds since a retried circuit
gets an id of its own. For the capacities it adds `GrownInv`: a circuit that was read
is still there with the bandwidth it had, since a subscription is never removed and
its bandwidth never changes, so that what a row reserved can be said of the
orchestrator after the fact. An answer is a part of its list with places of its own
(`CircuitsOK`, `SdpsOK` are about any such part), and `HistoryInv` has what a page may
count on: whatever was there `always` and is `Certain` is in the list that was read.
The two sums, over the joined pairs in the code and over
subscriptions in the property, are one sum carried along `BackedBySub`: a subscription
is joined with one path only. `FullLinksReadFull` needs besides that the rounded
percentage of a full link is not below 100 (`FullIsHundred`).

`OnlyTheLastHasItsPage` is the extent of finding 4. Of the rows for one pair of STPs
the one with a page is that of the last subscription (`LastHasPage`); therefore
`RowsHaveTheirPage` holds exactly if no two subscriptions shown are of one pair.

`DashboardProofs`, for any history, paths, documents and limits: `OneSnapshot`,
`CardsMatch`, `PathAgreesWithSdps`, `PathLinked`. What is right of a list stays right of
the part of it a limited query answers (`PartRight`), so the invariant holds of the
legs whatever they missed. The counts are compared by injections: each pair that was
joined is of one open circuit (`JoinedCounted`), each row of the SDP card with a
subscription is a row of the spectrum (`LinksCounted`).

`LinksProofs`, for any providers, STPs, networks, tries, query limits and bounds: `ReservationsLinked`,
`TabsComplete`, `EndsLinked`, `CircuitsListed`, `ProviderLinked`. The invariant keeps
every answer a part of a list its source held since the request (`seen`), and the
whole of one if none of those exceeds the limit (`AnswersInv`, `ListsSeen`), so that a
property about a row becomes one about a lookup in a part of a list of `seen`. `LastByName` is
the one ordering: the provider a network ends up with is the last by name and
place.

`FailuresProofs`, for any workflows, subscriptions, page limit and number of
processes: `OneRowEachProblem` (`OneRowPerProblem`), `FailuresSurface`
(`NewFailuresSurface`), `NewFailuresAbove` (`NewProblemsAbove`). `Collapsed(dict, rows,
places)` says what the dict of `dedupe_failures` holds once the rows at `places` were
written, from the last to the first: each key once, with the row of its first place,
keys in the order of their last places. `PutCollapses` is one write, and the lemmas
on folds make it the whole loop. The invariant is short (`TypeOK` and that the panel is
that of the present processes); the work is in what the panel is computed from.
`NewestFirstUnlessRepeated` is the extent of finding 3: on a page where no problem
repeats, the rows are newest first.

Of `AuthReload` (whose specification is `BrowserSpec`), `ClientProofs` proves `NoReloadLoop` (`ReloadsSpaced`) and
`SwallowedOnlyBeforeReload` (`SwallowedWhileReloading`), for any `GUARD_MS`, `Fetch`,
`MaxStep` and `MaxSteps`. The key of its invariant is `age <= since`: the page may
believe the last reload more recent than it is, when the clock was set back, but
never longer ago.

Every theorem assumes no more than the named assumptions of its module
(`VersionAssumption`, `InventoryAssumption`, `DashboardAssumption`, `LinksAssumption`,
...): the types of the constants, that identifiers are not the number that stands for
none, and that the history a source starts with is one it can have.

Every invariant and action property the passing runs check, and both refinements, is
stated by a theorem. Only model-checked are `RequestAnswered`, `FetchEnds` and
`SessionRenewed`: liveness under fairness is out of the prover's reach, and so are the
`ENABLED` conditions it rests on.

## 6. Not modelled, and the plan

Not modelled, since it keeps no state and takes no decision a property tells apart:
the layout of tables and forms (the tabs are modelled), the order rows are sorted in,
settings, logging, the Helm chart, and the mapping of display fields (`_created_by`,
`_format_ts`, the labels of endpoints and the like).

Not modelled, since it is not in this code: the thread pool of the web server, which
pages and the health probe share. The handlers are synchronous, so a page that waits
for a slow upstream holds a thread, and enough of them starve the probe; but the size
of the pool and the queue in front of it are the server's, and nothing in the
repository sets, reads or bounds them. The hazard is listed at its line, without a
property.

The limits of the queries are modelled where a property is about what a list holds:
`Inventory` (STPs, SDPs, named objects), `Spectrum` (circuits, SDPs), `Links` (circuits,
STPs), `Dashboard` (circuits), `Failures` (processes). In `Dashboard` the SDP and STP
lists of a request fit theirs; its properties compare what two sections make of the
same answer, or look an STP up in the list that came. The proxies' lists have no limit.

What would come next: the sort order of the tables, with the sort key a request may
choose.
