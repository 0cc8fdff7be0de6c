-------------------------- MODULE FilterSubscriber --------------------------
(***************************************************************************)
(* FilterIdSubscriber (providers/subscriber-filterid.ts): start, stop,     *)
(* pause, resume and #poll with its downgrade to polling                   *)
(* (_recoverSubscriber), against a node that installs a filter on request  *)
(* and may refuse, fail or not support filters.  The steps of the          *)
(* provider's once and off of "block" are in ProviderEvents and atomic     *)
(* here.                                                                   *)
(***************************************************************************)
EXTENDS Integers, FiniteSets, FiniteSetsExt

CONSTANTS
  Filters,          \* bound: the filters the node may be asked for
  MaxFilterPauses   \* bound: the calls of pause

ASSUME FilterAssumption == Filters \subseteq Nat \ {0} /\ MaxFilterPauses \in Nat

NoFilter == 0       \* null

VARIABLES
  running,          \* #running
  hault,            \* #hault
  filterPromise,    \* #filterIdPromise: NoFilter or the filter it is for
  filter,           \* filter[k]: "none", "asked", "open", "closing", "failed",
                    \* or "unsupported"
  teardown,         \* the filters whose promise a teardown waits for
  onBlock,          \* once("block", #poller) is registered
  poll,             \* the await #poll is in: "none", "filter", "network",
                    \* "changes"
  awaited,          \* the filter it has awaited
  recovered,        \* the provider uses a PollingEventSubscriber instead
  providerPaused,
  filterPausesLeft,
  cut               \* history: stop found a poll in flight

filterVars == <<running, hault, filterPromise, filter, teardown, onBlock, poll, awaited,
                recovered, providerPaused, filterPausesLeft, cut>>

FilterInit ==
  /\ running = FALSE /\ hault = FALSE
  /\ filterPromise = NoFilter
  /\ filter = [k \in Filters |-> "none"]
  /\ teardown = {}
  /\ onBlock = FALSE
  /\ poll = "none"
  /\ awaited = NoFilter
  /\ recovered = FALSE
  /\ providerPaused = FALSE
  /\ filterPausesLeft = MaxFilterPauses
  /\ cut = FALSE

pauseVars == <<providerPaused, filterPausesLeft>>

-----------------------------------------------------------------------------
\* #poll up to its first await; _subscribe asks for a filter if there is none.
PollBegins ==
  /\ poll' = "filter"
  /\ IF filterPromise # NoFilter
     THEN awaited' = filterPromise /\ UNCHANGED <<filterPromise, filter>>
     ELSE /\ \E k \in Filters : filter[k] = "none"
          /\ LET k == Min({j \in Filters : filter[j] = "none"})
             IN  /\ filterPromise' = k
                 /\ awaited' = k
                 /\ filter' = [filter EXCEPT ![k] = "asked"]

FilterStart ==
  /\ ~running /\ ~hault
  /\ running' = TRUE
  /\ PollBegins
  /\ UNCHANGED <<hault, teardown, onBlock, recovered, pauseVars, cut>>

\* A block: the poller registered with once runs.
BlockEvent ==
  /\ onBlock /\ ~providerPaused
  /\ onBlock' = FALSE
  /\ PollBegins
  /\ UNCHANGED <<running, hault, teardown, recovered, pauseVars, cut>>

\* Mutant: a filter that is not open yet is not uninstalled.
TeardownOpen ==
  /\ filterPromise' = NoFilter
  /\ filter' = [k \in Filters |-> IF k = filterPromise /\ filter[k] = "open" THEN "closing"
                                  ELSE filter[k]]
  /\ UNCHANGED teardown

\* #teardown: xcb_uninstallFilter is sent when the promise resolves.
Teardown ==
  /\ filterPromise' = NoFilter
  /\ filter' = [k \in Filters |-> IF k = filterPromise /\ filter[k] = "open" THEN "closing"
                                  ELSE filter[k]]
  /\ teardown' = teardown \cup ({filterPromise} \cap {k \in Filters : filter[k] = "asked"})

FilterStop ==
  /\ running
  /\ running' = FALSE
  /\ hault' = TRUE
  /\ Teardown
  /\ onBlock' = FALSE
  /\ cut' = (poll # "none")
  /\ UNCHANGED <<poll, awaited, recovered, pauseVars>>

FilterPause(drop) ==
  /\ running /\ ~providerPaused /\ filterPausesLeft > 0
  /\ providerPaused' = TRUE
  /\ filterPausesLeft' = filterPausesLeft - 1
  /\ IF drop THEN Teardown ELSE UNCHANGED <<filterPromise, filter, teardown>>
  /\ onBlock' = FALSE
  /\ UNCHANGED <<running, hault, poll, awaited, recovered, cut>>

\* resume calls start, which returns since the subscriber is #running.
FilterResume ==
  /\ providerPaused
  /\ providerPaused' = FALSE
  /\ UNCHANGED <<running, hault, filterPromise, filter, teardown, onBlock, poll, awaited,
                 recovered, filterPausesLeft, cut>>

-----------------------------------------------------------------------------
(* The node answers xcb_newFilter *)

NodeInstalls(k) ==
  /\ filter[k] = "asked"
  /\ filter' = [filter EXCEPT ![k] = IF k \in teardown THEN "closing" ELSE "open"]
  /\ teardown' = teardown \ {k}
  /\ UNCHANGED <<running, hault, filterPromise, onBlock, poll, awaited, recovered, pauseVars, cut>>

NodeRejects(k, how) ==
  /\ filter[k] = "asked"
  /\ filter' = [filter EXCEPT ![k] = how]
  /\ teardown' = teardown \ {k}
  /\ UNCHANGED <<running, hault, filterPromise, onBlock, poll, awaited, recovered, pauseVars, cut>>

-----------------------------------------------------------------------------
(* The continuations of #poll *)

\* The end of #poll, after an error too.
PollAgain ==
  /\ poll' = "none"
  /\ awaited' = NoFilter
  /\ onBlock' = TRUE

PollEnds ==
  /\ poll' = "none"
  /\ awaited' = NoFilter
  /\ UNCHANGED onBlock

PollGetsFilter ==
  /\ poll = "filter"
  /\ filter[awaited] \in {"open", "closing"}
  /\ poll' = "network"
  /\ UNCHANGED <<running, hault, filterPromise, filter, teardown, onBlock, awaited, recovered,
                 pauseVars, cut>>

\* The rejected promise is kept: every later poll fails with it.
PollFilterFails ==
  /\ poll = "filter"
  /\ filter[awaited] = "failed"
  /\ PollAgain
  /\ UNCHANGED <<running, hault, filterPromise, filter, teardown, recovered, pauseVars, cut>>

\* xcb_newFilter is not supported: _recoverSubscriber stops this subscriber,
\* if it is still the subscription's, and starts a polling one.
PollRecovers ==
  /\ poll = "filter"
  /\ filter[awaited] = "unsupported"
  /\ filterPromise' = NoFilter
  /\ poll' = "none" /\ awaited' = NoFilter
  /\ recovered' = running
  /\ running' = FALSE
  /\ hault' = TRUE
  /\ onBlock' = FALSE
  /\ UNCHANGED <<filter, teardown, pauseVars, cut>>

PollGetsNetwork ==
  /\ poll = "network"
  /\ IF hault THEN PollEnds
     ELSE poll' = "changes" /\ UNCHANGED <<awaited, onBlock>>
  /\ UNCHANGED <<running, hault, filterPromise, filter, teardown, recovered, pauseVars, cut>>

\* The network changed or is unknown, or the changes came or did not: emitted
\* or logged, the next poll is due at the next block.
PollFinishes ==
  /\ poll \in {"network", "changes"}
  /\ PollAgain
  /\ UNCHANGED <<running, hault, filterPromise, filter, teardown, recovered, pauseVars, cut>>

-----------------------------------------------------------------------------
FilterNext ==
  \/ FilterStart \/ BlockEvent \/ FilterStop \/ FilterResume
  \/ \E drop \in BOOLEAN : FilterPause(drop)
  \/ \E k \in Filters : NodeInstalls(k) \/ NodeRejects(k, "failed") \/ NodeRejects(k, "unsupported")
  \/ PollGetsFilter \/ PollFilterFails \/ PollRecovers \/ PollGetsNetwork \/ PollFinishes

FilterSpec == FilterInit /\ [][FilterNext]_filterVars

-----------------------------------------------------------------------------
(* Properties *)

(***************************************************************************)
(* Filters take up resources of the node.  Whatever the order of polls,    *)
(* answers, pauses and stops, at most one filter is installed, or about to *)
(* be, that is not being uninstalled; it is #filterIdPromise's.  After     *)
(* stop there is none, except one that a poll cut short by stop may have   *)
(* asked for at the next block, which nothing uninstalls.                  *)
(***************************************************************************)
Live == {k \in Filters : filter[k] \in {"asked", "open"} /\ k \notin teardown}
FiltersAccountedFor ==
  /\ Live \subseteq {filterPromise}
  /\ hault /\ ~cut => Live = {}
=============================================================================
