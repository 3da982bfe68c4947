----------------------------- MODULE AuthReload -----------------------------
(***************************************************************************)
(* The wrapper around window.fetch that re-authenticates by reloading the  *)
(* page (static/auth-reload.js): several fetches in flight, a session that *)
(* expires, outages that look the same, and a clock that may be adjusted.  *)
(*                                                                         *)
(* Of the clock and the time of the last reload in sessionStorage only the *)
(* difference matters, and it is kept up to GUARD_MS, past which nothing   *)
(* depends on it.                                                          *)
(***************************************************************************)
EXTENDS Integers

CONSTANTS
  Fetch,       \* fetches the page may have in flight
  SameOrigin,  \* those to its own origin
  GUARD_MS,    \* in ticks of the clock
  MaxStep,     \* the furthest the clock is set back or forward
  MaxSteps     \* how often

ASSUME AuthReloadAssumption ==
  /\ SameOrigin \subseteq Fetch
  /\ GUARD_MS \in Nat \ {0} /\ MaxStep \in Nat /\ MaxSteps \in Nat

VARIABLES
  session,    \* whether oauth2-proxy still accepts the session
  fetches,    \* "none", "pending", "settled", or "swallowed": never to settle
  reloading,  \* whether the page is being reloaded
  age,        \* Date.now() minus "amiss:reauth-at", at most GUARD_MS
  steps,      \* how often the clock was adjusted
  since,      \* history: the time since the last reload, a forward step included
  early       \* history: whether a reload came less than GUARD_MS after another

browserVars == <<session, fetches, reloading, age, steps, since, early>>
UpToGuard(n) == IF n > GUARD_MS THEN GUARD_MS ELSE n

BrowserInit ==
  /\ session = TRUE
  /\ fetches = [f \in Fetch |-> "none"]
  /\ reloading = FALSE
  /\ age = GUARD_MS      \* nothing stored: the age of the epoch
  /\ steps = 0
  /\ since = GUARD_MS
  /\ early = FALSE

\* Mutant: the time is stored before the guard is looked at.
ReauthStoringFirst(f, reloads, otherwise) ==
  IF age < GUARD_MS
  THEN /\ fetches' = [fetches EXCEPT ![f] = otherwise]
       /\ age' = 0
       /\ UNCHANGED <<reloading, since, early>>
  ELSE /\ fetches' = [fetches EXCEPT ![f] = reloads]
       /\ reloading' = TRUE
       /\ age' = 0 /\ since' = 0
       /\ early' = (early \/ since < GUARD_MS)
\* Mutant: the time is not stored.
ReauthForgetting(f, reloads, otherwise) ==
  /\ fetches' = [fetches EXCEPT ![f] = reloads]
  /\ reloading' = TRUE
  /\ since' = 0
  /\ early' = (early \/ since < GUARD_MS)
  /\ UNCHANGED age
\* reauth(), and what becomes of the fetch whether it reloads or not.
Reauth(f, reloads, otherwise) ==
  IF age < GUARD_MS
  THEN /\ fetches' = [fetches EXCEPT ![f] = otherwise]
       /\ UNCHANGED <<reloading, age, since, early>>
  ELSE /\ fetches' = [fetches EXCEPT ![f] = reloads]
       /\ reloading' = TRUE
       /\ age' = 0 /\ since' = 0
       /\ early' = (early \/ since < GUARD_MS)

Settle(f) ==
  /\ fetches' = [fetches EXCEPT ![f] = "settled"]
  /\ UNCHANGED <<reloading, age, since, early>>

Send(f) ==
  /\ fetches[f] \in {"none", "settled"}
  /\ fetches' = [fetches EXCEPT ![f] = "pending"]
  /\ UNCHANGED <<session, reloading, age, steps, since, early>>
Answer(f) ==
  /\ fetches[f] = "pending"
  /\ f \in SameOrigin => session
  /\ Settle(f)
  /\ UNCHANGED <<session, steps>>
\* The caller gets the 401, whether or not the page reloads.
Unauthorized(f) ==
  /\ fetches[f] = "pending"
  /\ IF f \in SameOrigin THEN ~session /\ Reauth(f, "settled", "settled") ELSE Settle(f)
  /\ UNCHANGED <<session, steps>>
\* Mutant: the failure is swallowed whether or not the page reloads.
FailsSilently(f) ==
  /\ fetches[f] = "pending"
  /\ IF f \in SameOrigin THEN Reauth(f, "swallowed", "swallowed") ELSE Settle(f)
  /\ UNCHANGED <<session, steps>>
\* A TypeError: the redirect of an expired session, or an outage.
Fails(f) ==
  /\ fetches[f] = "pending"
  /\ IF f \in SameOrigin THEN Reauth(f, "swallowed", "settled") ELSE Settle(f)
  /\ UNCHANGED <<session, steps>>
\* An AbortError, or any other rejection, is passed on.
Abort(f) ==
  /\ fetches[f] = "pending"
  /\ Settle(f)
  /\ UNCHANGED <<session, steps>>

Expire ==
  /\ session
  /\ session' = FALSE
  /\ UNCHANGED <<fetches, reloading, age, steps, since, early>>
\* The browser follows the redirect to the login, if there is one, and starts
\* the page anew; sessionStorage survives.
Reloaded ==
  /\ reloading
  /\ reloading' = FALSE
  /\ session' = TRUE
  /\ fetches' = [f \in Fetch |-> "none"]
  /\ UNCHANGED <<age, steps, since, early>>
Tick ==
  /\ age < GUARD_MS \/ since < GUARD_MS
  /\ age' = UpToGuard(age + 1)
  /\ since' = UpToGuard(since + 1)
  /\ UNCHANGED <<session, fetches, reloading, steps, early>>
StepClock(n) ==
  /\ steps < MaxSteps
  /\ steps' = steps + 1
  /\ age' = UpToGuard(age + n)
  /\ since' = UpToGuard(IF n > 0 THEN since + n ELSE since)
  /\ UNCHANGED <<session, fetches, reloading, early>>

BrowserNext ==
  \/ \E f \in Fetch : Send(f) \/ Answer(f) \/ Unauthorized(f) \/ Fails(f) \/ Abort(f)
  \/ Expire \/ Reloaded \/ Tick
  \/ \E n \in -MaxStep..MaxStep : StepClock(n)

\* The user goes on browsing, an expired session is turned down now and then, time
\* passes, and a reload ends.
BrowserFairness ==
  /\ \A f \in SameOrigin : WF_browserVars(Send(f)) /\ SF_browserVars(~session /\ Fails(f))
  /\ WF_browserVars(Tick) /\ WF_browserVars(Reloaded)
BrowserSpec == BrowserInit /\ [][BrowserNext]_browserVars /\ BrowserFairness

-----------------------------------------------------------------------------
\* "Avoid reload loops on a genuine outage": two reloads are GUARD_MS apart,
\* however many fetches fail at once and whatever their reason, unless the
\* clock was set forward in between.
ReloadsSpaced == ~early

\* A fetch is left unsettled only on a page that is about to go: no caller on
\* a page that stays waits for ever.
SwallowedWhileReloading == (\E f \in Fetch : fetches[f] = "swallowed") => reloading

\* An expired session is noticed and renewed, also within GUARD_MS of the last
\* reload, under a stream of failures, and after the clock was set back.
SessionRenewed == ~session ~> session
=============================================================================
