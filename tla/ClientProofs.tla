---------------------------- MODULE ClientProofs ----------------------------
(***************************************************************************)
(* Proofs about the two clients: HttpFetch of the backend, and AuthReload  *)
(* of the browser, for any guard, fetches and clock adjustments.           *)
(***************************************************************************)
EXTENDS HttpFetch, AuthReload, TLAPS

-----------------------------------------------------------------------------

\* A request that reached the upstream is under way, was its last, or is among
\* the failed attempts, and of a POST there is no second.
IInv ==
  /\ kind \in Kind
  /\ phase \in {"idle", "connecting", "sent", "done"}
  /\ connects \in Nat /\ failures \in Nat /\ deliveries \in Nat
  /\ connects <= MaxConnect + 1
  /\ phase \in {"idle", "connecting", "sent"} => failures <= MaxTotal /\ connects <= MaxConnect
  /\ phase \in {"idle", "connecting"} => deliveries + connects <= failures
  /\ deliveries + connects <= failures + 1
  /\ phase = "done" => deliveries <= MaxTotal + 1
  /\ phase \in {"idle", "connecting"} /\ kind = "wfo" => deliveries = 0
  /\ kind = "wfo" => deliveries <= 1

LEMMA IInvInit == Init => IInv
BY DEF Init, IInv, MaxConnect, MaxTotal

LEMMA IInvNext == IInv /\ [Next]_vars => IInv'
<1> SUFFICES ASSUME IInv, [Next]_vars PROVE IInv'
  OBVIOUS
<1> USE DEF IInv, MaxConnect, MaxTotal, End, Again
<1>1. CASE UNCHANGED vars
  BY <1>1 DEF vars
<1>2. CASE Start
  BY <1>2 DEF Start
<1>3. CASE ConnectFails
  BY <1>3 DEF ConnectFails
<1>4. CASE Connect
  BY <1>4 DEF Connect
<1>5. CASE ReadFails
  BY <1>5 DEF ReadFails, Method, Kind
<1>6. CASE Busy
  BY <1>6 DEF Busy, Method, Kind
<1>7. CASE BodyCut
  BY <1>7 DEF BodyCut
<1>8. CASE Respond
  BY <1>8 DEF Respond
<1> QED BY <1>1, <1>2, <1>3, <1>4, <1>5, <1>6, <1>7, <1>8 DEF Next

-----------------------------------------------------------------------------
\* What an answer comes to.

Outcome == {"answered", None, "refused", "raised"}

LEMMA ResultType == ASSUME NEW k \in Kind, NEW r \in Response PROVE Result(k, r) \in Outcome
BY DEF Result, Kind, QueryWfo, ParseList, GetAggProxyList, Outcome

\* Of the proxies' answers none is a refusal, and what is answered is all data.
LEMMA ProxyResult ==
  ASSUME NEW k \in {"dds", "agg"}, NEW r \in Response
  PROVE  /\ Result(k, r) # "refused"
         /\ Result(k, r) = "answered" =>
              r.status = 200 /\ r.content \in {"objects", "envelope", "envelope_strays"}
<1>1. CASE k = "dds"
  <2>1. Result(k, r) = ParseList(NsiUtilGetJson(r))
    BY <1>1 DEF Result
  <2>2. ParseList(NsiUtilGetJson(r)) # "refused"
    BY DEF ParseList, None
  <2>3. ASSUME ParseList(NsiUtilGetJson(r)) = "answered"
        PROVE  r.status = 200 /\ r.content = "objects"
    BY <2>3 DEF ParseList, NsiUtilGetJson, None
  <2> QED BY <2>1, <2>2, <2>3
<1>2. CASE k = "agg"
  <2>1. Result(k, r) = GetAggProxyList(NsiUtilGetJson(r))
    BY <1>2 DEF Result
  <2>2. GetAggProxyList(NsiUtilGetJson(r)) # "refused"
    BY DEF GetAggProxyList, None
  <2>3. ASSUME GetAggProxyList(NsiUtilGetJson(r)) = "answered"
        PROVE  r.status = 200 /\ r.content \in {"envelope", "envelope_strays"}
    BY <2>3 DEF GetAggProxyList, NsiUtilGetJson, None
  <2> QED BY <2>1, <2>2, <2>3
<1> QED BY <1>1, <1>2

\* A fetch that ended without a complete response was neither answered nor refused.
AnswerInv ==
  /\ kind \in Kind
  /\ phase \in {"idle", "connecting", "sent", "done"}
  /\ phase = "done" => outcome \in Outcome
  /\ phase # "done" => outcome = "pending" /\ response = NoResponse
  /\ OutcomeRight

LEMMA AnswerInvInit == Init => AnswerInv
BY DEF Init, AnswerInv, OutcomeRight

\* Every way to end but Respond.
LEMMA EndedUnanswered ==
  ASSUME AnswerInv, phase # "done", UNCHANGED <<kind, response>>,
         \/ Again
         \/ End(None)
         \/ End("raised")
  PROVE  AnswerInv'
BY DEF AnswerInv, OutcomeRight, Again, End, NoResponse, Outcome, None

LEMMA RespondRight == AnswerInv /\ Respond => AnswerInv'
<1> SUFFICES ASSUME AnswerInv, Respond PROVE AnswerInv'
  OBVIOUS
<1>1. PICK r \in Response : response' = r /\ End(Result(kind, r))
  BY DEF Respond
<1>2. kind' = kind /\ kind \in Kind /\ phase' = "done" /\ outcome' = Result(kind, r) /\ response' = r
  BY <1>1 DEF Respond, AnswerInv, End
<1>3. outcome' \in Outcome
  BY <1>2, ResultType
<1>4. OutcomeRight'
  <2>1. CASE kind = "wfo"
    <3>1. Result(kind, r) = QueryWfo(r)
      BY <2>1 DEF Result
    <3>2. QueryWfo(r) = "answered" => r.status = 200 /\ r.content = "data"
      BY DEF QueryWfo, None
    <3>3. QueryWfo(r) = "refused" <=>
            r.status \in {401, 403} \/ (r.status = 200 /\ r.content = "refusal")
      BY DEF QueryWfo, IsAuthzError, None
    <3> QED BY <1>2, <2>1, <3>1, <3>2, <3>3 DEF OutcomeRight
  <2>2. CASE kind \in {"dds", "agg"}
    BY <1>2, <2>2, ProxyResult DEF OutcomeRight
  <2> QED BY <1>2, <2>1, <2>2 DEF Kind
<1> QED BY <1>2, <1>3, <1>4 DEF AnswerInv

LEMMA AnswerInvNext == AnswerInv /\ [Next]_vars => AnswerInv'
<1> SUFFICES ASSUME AnswerInv, [Next]_vars PROVE AnswerInv'
  OBVIOUS
<1>1. CASE UNCHANGED vars
  BY <1>1 DEF vars, AnswerInv, OutcomeRight
<1>2. CASE Start
  BY <1>2, EndedUnanswered DEF Start
<1>3. CASE ConnectFails
  BY <1>3, EndedUnanswered DEF ConnectFails
<1>4. CASE Connect
  BY <1>4 DEF Connect, AnswerInv, OutcomeRight
<1>5. CASE ReadFails
  BY <1>5, EndedUnanswered DEF ReadFails
<1>6. CASE Busy
  BY <1>6, EndedUnanswered DEF Busy
<1>7. CASE BodyCut
  BY <1>7, EndedUnanswered DEF BodyCut
<1>8. CASE Respond
  BY <1>8, RespondRight
<1> QED BY <1>1, <1>2, <1>3, <1>4, <1>5, <1>6, <1>7, <1>8 DEF Next

-----------------------------------------------------------------------------
\* The session's retries give an upstream up after four failed connections or
\* eleven requests: nsi.py's adapter, for any sequence of failures.
THEOREM RetriesBounded == Spec => []AttemptsBounded
<1>1. IInv => AttemptsBounded
  BY DEF IInv, AttemptsBounded, MaxConnect, MaxTotal
<1> QED BY <1>1, IInvInit, IInvNext, PTL DEF Spec

\* No retry of the session repeats a query the orchestrator may have received.
THEOREM QueriesPostedOnce == Spec => []PostedOnce
<1>1. IInv => PostedOnce
  BY DEF IInv, PostedOnce, Method
<1> QED BY <1>1, IInvInit, IInvNext, PTL DEF Spec

\* query_wfo and the proxies' fetches read rows only out of a complete answer, and
\* a refusal only out of the orchestrator's.
THEOREM AnswersReadRight == Spec => []OutcomeRight
<1>1. AnswerInv => OutcomeRight
  BY DEF AnswerInv
<1> QED BY <1>1, AnswerInvInit, AnswerInvNext, PTL DEF Spec

\* Every step of a fetch is a step of Leg or a stutter: pages need know no more.
THEOREM FetchesAreLegs == Spec => ImplementsLeg
<1>1. Init => AsLeg!Init
  BY DEF Init, AsLeg!Init
<1>2. ASSUME AnswerInv, AnswerInv', [Next]_vars
      PROVE  [AsLeg!Next]_AsLeg!vars
  <2>1. CASE UNCHANGED vars
    BY <2>1 DEF vars, AsLeg!vars
  <2>2. CASE Next
    <3>1. kind' = kind /\ phase # "done"
      BY <2>2 DEF Next, Start, ConnectFails, Connect, ReadFails, Busy, BodyCut, Respond
    <3>2. outcome = "pending"
      BY <1>2, <3>1 DEF AnswerInv
    <3>3. CASE phase' = "done"
      <4>1. outcome' \in AsLeg!Settled
        BY <1>2, <3>3 DEF AnswerInv, Outcome, None, AsLeg!Settled
      <4>2. outcome' = "refused" => (kind = "wfo")
        BY <1>2, <3>1, <3>3 DEF AnswerInv, OutcomeRight
      <4> QED BY <3>1, <3>2, <4>1, <4>2 DEF AsLeg!Next, AsLeg!Settle
    <3>4. CASE phase' # "done"
      <4>1. outcome' = outcome
        BY <1>2, <3>2, <3>4 DEF AnswerInv
      <4> QED BY <3>1, <4>1 DEF AsLeg!vars
    <3> QED BY <3>3, <3>4
  <2> QED BY <1>2, <2>1, <2>2
<1> QED BY <1>1, <1>2, AnswerInvInit, AnswerInvNext, PTL DEF Spec, ImplementsLeg, AsLeg!Spec

-----------------------------------------------------------------------------
\* The browser.

\* By its own clock the page never believes the last reload to be longer ago
\* than it is: setting the clock back only makes it wait longer.
PageInv ==
  /\ fetches \in [Fetch -> {"none", "pending", "settled", "swallowed"}]
  /\ reloading \in BOOLEAN
  /\ age \in Int /\ since \in Int
  /\ age <= since
  /\ ~early
  /\ SwallowedWhileReloading

LEMMA PageInvInit == BrowserInit => PageInv
<1> SUFFICES ASSUME BrowserInit PROVE PageInv
  OBVIOUS
<1>1. fetches \in [Fetch -> {"none", "pending", "settled", "swallowed"}] /\ SwallowedWhileReloading
  BY DEF BrowserInit, SwallowedWhileReloading
<1>2. reloading \in BOOLEAN /\ ~early
  BY DEF BrowserInit
<1>3. age \in Int /\ since \in Int /\ age <= since
  BY AuthReloadAssumption DEF BrowserInit
<1> QED BY <1>1, <1>2, <1>3 DEF PageInv

LEMMA PageInvNext == PageInv /\ [BrowserNext]_browserVars => PageInv'
<1> SUFFICES ASSUME PageInv, [BrowserNext]_browserVars PROVE PageInv'
  OBVIOUS
<1> USE DEF PageInv, SwallowedWhileReloading
<1>1. CASE UNCHANGED browserVars
  BY <1>1 DEF browserVars
<1>2. ASSUME NEW f \in Fetch, Send(f) \/ Answer(f) \/ Unauthorized(f) \/ Fails(f) \/ Abort(f)
      PROVE  PageInv'
  <2>1. CASE Send(f)
    BY <2>1 DEF Send
  <2>2. CASE Settle(f)
    BY <2>2 DEF Settle
  <2>3. ASSUME NEW reloads \in {"settled", "swallowed"}, Reauth(f, reloads, "settled")
        PROVE  PageInv'
    <3>1. CASE age < GUARD_MS
      BY <2>3, <3>1 DEF Reauth
    <3>2. CASE ~(age < GUARD_MS)
      <4>1. ~(since < GUARD_MS)
        BY <3>2, AuthReloadAssumption
      <4>2. /\ fetches' = [fetches EXCEPT ![f] = reloads]
            /\ reloading' = TRUE /\ age' = 0 /\ since' = 0
            /\ early' = (early \/ since < GUARD_MS)
        BY <2>3, <3>2 DEF Reauth
      <4>3. ~early'
        BY <4>1, <4>2
      <4>4. age' \in Int /\ since' \in Int /\ age' <= since'
        BY <4>2
      <4> QED BY <4>2, <4>3, <4>4
    <3> QED BY <3>1, <3>2
  <2>4. CASE Fails(f) \/ Unauthorized(f)
    BY <2>2, <2>3, <2>4 DEF Fails, Unauthorized
  <2> QED BY <1>2, <2>1, <2>2, <2>4 DEF Answer, Abort
<1>3. CASE Expire
  BY <1>3 DEF Expire
<1>4. CASE Reloaded
  BY <1>4 DEF Reloaded
<1>5. CASE Tick
  BY <1>5, AuthReloadAssumption DEF Tick, UpToGuard
<1>6. ASSUME NEW n \in -MaxStep..MaxStep, StepClock(n)
      PROVE  PageInv'
  BY <1>6, AuthReloadAssumption DEF StepClock, UpToGuard
<1> QED BY <1>1, <1>2, <1>3, <1>4, <1>5, <1>6 DEF BrowserNext

\* Two reloads are GUARD_MS apart: reauth() in static/auth-reload.js, for any
\* number of fetches failing together.
THEOREM NoReloadLoop == BrowserSpec => []ReloadsSpaced
<1>1. PageInv => ReloadsSpaced
  BY DEF PageInv, ReloadsSpaced
<1> QED BY <1>1, PageInvInit, PageInvNext, PTL DEF BrowserSpec

\* Only a page about to go leaves a fetch unsettled: the promise that
\* auth-reload.js never resolves is on a page that reloads.
THEOREM SwallowedOnlyBeforeReload == BrowserSpec => []SwallowedWhileReloading
<1>1. PageInv => SwallowedWhileReloading
  BY DEF PageInv
<1> QED BY <1>1, PageInvInit, PageInvNext, PTL DEF BrowserSpec
=============================================================================
