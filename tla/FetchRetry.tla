------------------------------ MODULE FetchRetry ----------------------------
(***************************************************************************)
(* FetchRequest.send (utils/fetch.ts): the attempts of #send with their    *)
(* deadline, delays, gateways, preflight, redirects, throttling and        *)
(* post-processing, the copies that clone and redirect make, and cancel.   *)
(* An attempt is made by a copy of the request; what a copy keeps decides  *)
(* the attempts after it.                                                  *)
(***************************************************************************)
EXTENDS Integers

CONSTANTS
  MaxAttempts,     \* MAX_ATTEMPTS, the default of maxAttempts (12)
  OwnAttempts,     \* the values setThrottleParams may set it to
  Timeout,         \* the timeout
  Delays,          \* the delays between attempts (the back-off is random)
  MaxNow           \* bound: the time

ASSUME FetchAssumption ==
  /\ MaxAttempts \in Nat \ {0} /\ OwnAttempts \subseteq Nat \ {0}
  /\ Timeout \in Nat /\ Delays \subseteq Nat /\ MaxNow \in Nat

VARIABLES
  now,
  stage,           \* where #send is: "new", "begin", "delay", "prepare", "get",
                   \* "retry" (retryFunc), "process" (processFunc), "done"
  outcome,         \* how it ended
  attempt, expires,
  wake,            \* when its delay ends; before that the delay
  request,         \* the copy in use: its maxAttempts, hooks and scheme
  cancelled,
  gets,            \* the number of requests sent
  started          \* the time the attempt began

fetchVars == <<now, stage, outcome, attempt, expires, wake, request, cancelled, gets, started>>

\* hooks: preflightFunc, processFunc and retryFunc are set.  A registered
\* gateway answers in the place of the network (scheme "gateway"), or with
\* another request to send ("ipfs").
FetchInit ==
  /\ now = 0 /\ stage = "new" /\ outcome = "none"
  /\ attempt = 0 /\ expires = 0 /\ wake = 0
  /\ request \in [limit : OwnAttempts \cup {MaxAttempts}, hooks : BOOLEAN,
                  scheme : {"http", "https", "gateway", "ipfs"}, get : BOOLEAN]
  /\ cancelled = FALSE
  /\ gets = 0
  /\ started = 0

setting == <<expires, request, cancelled, now>>

Done(how) ==
  /\ stage' = "done"
  /\ outcome' = how
  /\ UNCHANGED <<attempt, wake, gets, started, setting>>

Goto(place) ==
  /\ stage' = place
  /\ UNCHANGED <<outcome, attempt, wake, gets, started, setting>>

-----------------------------------------------------------------------------
Send ==
  /\ stage = "new"
  /\ stage' = "begin"
  /\ expires' = now + Timeout
  /\ UNCHANGED <<outcome, attempt, wake, request, cancelled, gets, started, now>>

\* cancel: the rest of #send finds out when it checks the signal.
Cancel ==
  /\ stage # "new" /\ ~cancelled
  /\ cancelled' = TRUE
  /\ UNCHANGED <<now, stage, outcome, attempt, expires, wake, request, gets, started>>

\* Mutant: a retry does not count as an attempt.
AgainFree(copy, delay) ==
  /\ stage' = "begin"
  /\ attempt' = attempt
  /\ wake' = delay
  /\ request' = copy
  /\ UNCHANGED <<outcome, gets, started, expires, cancelled, now>>

\* The next attempt, by another request and after a delay.
Again(copy, delay) ==
  /\ stage' = "begin"
  /\ attempt' = attempt + 1
  /\ wake' = delay
  /\ request' = copy
  /\ UNCHANGED <<outcome, gets, started, expires, cancelled, now>>

\* req: the copy that is sent, or the gateway's request.
Req == IF request.scheme = "ipfs"
       THEN [limit |-> MaxAttempts, hooks |-> FALSE, scheme |-> "https", get |-> TRUE]
       ELSE request

\* clone keeps all but the throttle parameters, redirect drops the hooks too.
Clone == [Req EXCEPT !.limit = MaxAttempts]
Redirected(scheme) == [Req EXCEPT !.limit = MaxAttempts, !.hooks = FALSE, !.scheme = scheme]

-----------------------------------------------------------------------------
(* An attempt *)

Begin ==
  /\ stage = "begin"
  /\ IF attempt >= request.limit THEN Done("exceeded")
     ELSE IF now > expires THEN Done("timeout")
     ELSE /\ stage' = IF wake > 0 THEN "delay" ELSE "prepare"
          /\ wake' = now + wake
          /\ started' = now
          /\ UNCHANGED <<outcome, attempt, gets, setting>>

Delayed ==
  /\ stage = "delay"
  /\ now >= wake \/ now = MaxNow
  /\ Goto("prepare")

\* The gateway or, after the preflight, getUrlFunc: both with the signal checked.
Prepared ==
  /\ stage = "prepare"
  /\ IF cancelled THEN Done("cancelled")
     ELSE IF request.scheme = "gateway"
     THEN IF request.hooks THEN Goto("process") ELSE Done("response")
     ELSE /\ stage' = "get"
          /\ gets' = gets + 1
          /\ UNCHANGED <<outcome, attempt, wake, started, setting>>

\* The gateway, the preflight or the request fails, or is aborted by the signal.
FetchFails ==
  /\ stage \in {"prepare", "get"}
  /\ Done(IF cancelled THEN "cancelled" ELSE "error")

PostProcess ==
  IF ~request.hooks THEN Done("response")
  ELSE IF cancelled THEN Done("cancelled")
  ELSE Goto("process")

\* 301 or 302: followed by GET requests, and never from https to http.
Redirect(scheme) ==
  /\ stage = "get"
  /\ IF Req.get /\ ~(Req.scheme = "https" /\ scheme = "http") /\ scheme # "other"
     THEN Again(Redirected(scheme), 0)
     ELSE Done("response")

\* 429: retry, or ask retryFunc whether to.
Throttled(delay) ==
  /\ stage = "get"
  /\ IF request.hooks THEN delay = 0 /\ Goto("retry") ELSE Again(Clone, delay)

RetryDecided(delay) ==
  /\ stage = "retry"
  /\ \/ Again(Clone, delay)
     \/ delay = 0 /\ PostProcess
     \/ delay = 0 /\ Done("error")

Responded ==
  /\ stage = "get"
  /\ PostProcess

\* processFunc returns, throws, or throws to stall.
Processed(delay) ==
  /\ stage = "process"
  /\ \/ delay = 0 /\ Done("response")
     \/ delay = 0 /\ Done("error")
     \/ request.scheme # "gateway" /\ Again(Clone, delay)

Tick ==
  /\ now < MaxNow
  /\ now' = now + 1
  /\ UNCHANGED <<stage, outcome, attempt, expires, wake, request, cancelled, gets, started>>

-----------------------------------------------------------------------------
FetchStep ==
  \/ Begin \/ Delayed \/ Prepared \/ FetchFails \/ Responded
  \/ \E scheme \in {"http", "https", "other"} : Redirect(scheme)
  \/ \E delay \in Delays \cup {0} : Throttled(delay) \/ RetryDecided(delay) \/ Processed(delay)

FetchNext == Send \/ Cancel \/ Tick \/ FetchStep

FetchSpec == FetchInit /\ [][FetchNext]_fetchVars

-----------------------------------------------------------------------------
(* Properties *)

(***************************************************************************)
(* Redirects, throttling and stalls share one count of attempts and one    *)
(* deadline, whatever copies of the request make them: no more requests    *)
(* are sent than attempts are made, nor than the default allows although   *)
(* the copies lose the request's own limit, and no attempt begins after    *)
(* the deadline.                                                           *)
(***************************************************************************)
FetchWithinLimits ==
  /\ gets <= MaxAttempts
  /\ gets <= attempt + 1
  /\ stage \notin {"new", "begin"} => started <= expires
=============================================================================
