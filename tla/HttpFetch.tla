----------------------------- MODULE HttpFetch -----------------------------
(***************************************************************************)
(* One fetch of an upstream: the attempts the shared requests session      *)
(* makes under Retry(connect=3) and REQUEST_TIMEOUT (amiss/nsi.py), and    *)
(* what the answer comes to for the caller: a list, None, a refusal, or an *)
(* exception that is neither (amiss/sources/wfo.py, dds_topology.py and    *)
(* aggregator.py).  These are the outcomes Pages' Answer chooses from.     *)
(*                                                                         *)
(* The session retries failed connections for any method, and what went    *)
(* wrong after the request was sent for GET only, up to the total of       *)
(* urllib3's Retry.                                                        *)
(***************************************************************************)
EXTENDS Naturals

Kind == {"wfo", "dds", "agg"}  \* the orchestrator (POST) and the proxies (GET)
Method(kind) == IF kind = "wfo" THEN "POST" ELSE "GET"

MaxConnect == 3   \* Retry(connect=3)
MaxTotal == 10    \* and the default of its total

\* What a body says, once complete: not JSON, JSON of no expected shape, a list
\* of objects, a list with something else in it, the aggregator's envelope of
\* either, and GraphQL data, errors, both, or a refusal, in its extension.
Content == {"garbled", "scalar", "objects", "strays", "envelope", "envelope_strays",
            "data", "errors", "data_and_errors", "refusal"}
Response == [status : {200, 401, 403, 500}, json : BOOLEAN, content : Content]

None == "none"
NoResponse == [status |-> 0, json |-> FALSE, content |-> "garbled"]

-----------------------------------------------------------------------------
\* nsi_util_get_json: the body, or None.
NsiUtilGetJson(r) == IF r.status = 200 /\ r.json THEN r.content ELSE None
\* The DDS lists are parsed without a look at their items.
ParseList(raw) ==
  CASE raw = "objects" -> "answered"
    [] raw = "strays"  -> "raised"
    [] OTHER           -> None
\* The aggregator's items are kept if they are objects.
GetAggProxyList(raw) == IF raw \in {"envelope", "envelope_strays"} THEN "answered" ELSE None

IsAuthzError(content) == content = "refusal"
\* Mutant: a refusal by status is a non-200 like any other.
QueryWfoNon200First(r) ==
  CASE r.status # 200 -> None
    [] r.status = 200 /\ IsAuthzError(r.content) -> "refused"
    [] r.status = 200 /\ r.content = "data"      -> "answered"
    [] OTHER -> None
\* query_wfo does not look at the media type.
QueryWfo(r) ==
  CASE r.status \in {401, 403} -> "refused"
    [] r.status = 200 /\ IsAuthzError(r.content) -> "refused"
    [] r.status = 200 /\ r.content = "data"      -> "answered"
    [] OTHER -> None

\* Mutant: AMISS's own identity refused by a proxy is the user's refusal.
ResultByStatus(kind, r) ==
  IF r.status \in {401, 403} THEN "refused"
  ELSE IF kind = "wfo" THEN QueryWfo(r)
  ELSE IF kind = "dds" THEN ParseList(NsiUtilGetJson(r)) ELSE GetAggProxyList(NsiUtilGetJson(r))
Result(kind, r) ==
  CASE kind = "wfo" -> QueryWfo(r)
    [] kind = "dds" -> ParseList(NsiUtilGetJson(r))
    [] kind = "agg" -> GetAggProxyList(NsiUtilGetJson(r))

-----------------------------------------------------------------------------
VARIABLES
  kind,       \* the upstream of this fetch
  phase,      \* "idle", "connecting", "sent" or "done"
  connects,   \* failed attempts to connect
  failures,   \* failed attempts of any sort
  deliveries, \* history: requests that reached the upstream
  response,   \* history: the complete response, or NoResponse
  outcome     \* "answered", None, "refused", "raised"; "pending" before

vars == <<kind, phase, connects, failures, deliveries, response, outcome>>

End(result) == phase' = "done" /\ outcome' = result
Again == phase' = "connecting" /\ UNCHANGED outcome

Init ==
  /\ kind \in Kind
  /\ phase = "idle"
  /\ connects = 0 /\ failures = 0 /\ deliveries = 0
  /\ response = NoResponse
  /\ outcome = "pending"

\* A client certificate that is not configured raises before anything is sent.
Start ==
  /\ phase = "idle"
  /\ \/ Again
     \/ kind # "wfo" /\ End("raised")
  /\ UNCHANGED <<kind, connects, failures, deliveries, response>>

\* Mutant: Retry(total=10), no limit of its own to connect.
ConnectFailsToTotal ==
  /\ phase = "connecting"
  /\ connects' = connects + 1
  /\ failures' = failures + 1
  /\ IF failures' > MaxTotal THEN End(None) ELSE Again
  /\ UNCHANGED <<kind, deliveries, response>>
\* Refused or not accepted within the connect timeout: requests'
\* ConnectionError or Timeout when the retries are used up.
ConnectFails ==
  /\ phase = "connecting"
  /\ connects' = connects + 1
  /\ failures' = failures + 1
  /\ IF connects' > MaxConnect \/ failures' > MaxTotal THEN End(None) ELSE Again
  /\ UNCHANGED <<kind, deliveries, response>>

Connect ==
  /\ phase = "connecting"
  /\ phase' = "sent"
  /\ deliveries' = deliveries + 1
  /\ UNCHANGED <<kind, connects, failures, response, outcome>>

\* Mutant: Retry(allowed_methods=None).
ReadFailsAnyMethod ==
  /\ phase = "sent"
  /\ failures' = failures + 1
  /\ IF failures' > MaxTotal THEN End(None) ELSE Again
  /\ UNCHANGED <<kind, connects, deliveries, response>>
\* The connection is reset, or nothing comes within the read timeout.
ReadFails ==
  /\ phase = "sent"
  /\ failures' = failures + 1
  /\ IF Method(kind) = "POST" \/ failures' > MaxTotal THEN End(None) ELSE Again
  /\ UNCHANGED <<kind, connects, deliveries, response>>

\* A 413, 429 or 503 with a Retry-After header: a POST gets it as its answer, a
\* GET waits and tries again, and RetryError is neither exception caught here.
Busy ==
  /\ phase = "sent"
  /\ failures' = failures + 1
  /\ IF Method(kind) = "POST" THEN End(None)
     ELSE IF failures' > MaxTotal THEN End("raised") ELSE Again
  /\ UNCHANGED <<kind, connects, deliveries, response>>

\* The body breaks off (ChunkedEncodingError) or does not decode
\* (ContentDecodingError): neither is a ConnectionError.
BodyCut ==
  /\ phase = "sent"
  /\ End("raised")
  /\ UNCHANGED <<kind, connects, failures, deliveries, response>>

Respond ==
  /\ phase = "sent"
  /\ \E r \in Response :
       /\ response' = r
       /\ End(Result(kind, r))
  /\ UNCHANGED <<kind, connects, failures, deliveries>>

Next == Start \/ ConnectFails \/ Connect \/ ReadFails \/ Busy \/ BodyCut \/ Respond

\* Mutant: no timeout, a request that was sent may wait for ever.
AttemptEndsIfConnecting == ConnectFails \/ Connect
\* REQUEST_TIMEOUT ends every attempt, one way or another.
AttemptEnds == ConnectFails \/ Connect \/ ReadFails \/ Busy \/ BodyCut \/ Respond
Fairness == WF_vars(AttemptEnds)
Spec == Init /\ [][Next]_vars /\ Fairness

-----------------------------------------------------------------------------
\* A list comes from a complete answer that is all data, and a refusal of the
\* caller's credentials is reported as one, of the orchestrator's alone: a
\* proxy's 401 concerns AMISS's own identity.
OutcomeRight ==
  phase = "done" =>
    /\ outcome = "answered" =>
         /\ response.status = 200
         /\ response.content \notin {"garbled", "scalar", "errors", "data_and_errors", "refusal"}
    /\ outcome = "refused" <=>
         /\ kind = "wfo"
         /\ response.status \in {401, 403} \/ (response.status = 200 /\ response.content = "refusal")

\* A query the orchestrator may have received is not sent to it again.
PostedOnce == Method(kind) = "POST" => deliveries <= 1

\* An upstream that cannot be reached is given up after four attempts, and any
\* other after eleven: each takes at most REQUEST_TIMEOUT.
AttemptsBounded == connects <= 4 /\ deliveries <= 11

\* A fetch that was started ends: what a page's pool waits for.
FetchEnds == phase # "idle" ~> phase = "done"

\* A page may take a fetch for one step with one outcome: whatever was retried,
\* it settles once, and only the fetch with the user's token is ever refused.
AsLeg == INSTANCE Leg WITH delegated <- (kind = "wfo"), outcome <- outcome
ImplementsLeg == AsLeg!Spec
=============================================================================
