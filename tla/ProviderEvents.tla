---------------------------- MODULE ProviderEvents --------------------------
(***************************************************************************)
(* The events of AbstractProvider (providers/abstract-provider.ts): on,    *)
(* once, emit, off and removeAllListeners, which look the subscription up  *)
(* and continue a microtask later, with pause, resume and destroy, the     *)
(* provider's timers and the subscribers of the "block" event.  Events     *)
(* share nothing but the pause state and the timers, so there is one.      *)
(***************************************************************************)
EXTENDS PollingBlocks, Sequences

CONSTANTS
  Listeners,    \* the application's listeners
  NoSub,        \* null
  MaxHeight,    \* bound: the blocks of the chain
  MaxCalls,     \* bound: the application's event calls
  MaxPauses     \* bound: its calls of pause, resume and destroy

ASSUME EventAssumption ==
  /\ NoSub \notin Subs /\ Subs \subseteq Nat \ {0}
  /\ MaxHeight \in Nat /\ MaxCalls \in Nat /\ MaxPauses \in Nat

VARIABLES
  current,      \* #subs.get("block")
  listeners,    \* listeners[s]: the listeners of subscription s
  started,      \* started[s]
  calls,        \* the calls that have looked up and not continued, in order
  pausedState,  \* #pausedState: "no", "keep" or "drop"
  polling,      \* the subscribers, their polls and the timers
  budget,       \* what the application may still call, see the bounds
  passed,       \* history: the blocks each subscriber has begun after or has
                \* called emit for
  loose         \* history: the subscriptions that were not under the tag when
                \* their on or once continued, or were resumed before that

vars == <<current, listeners, started, calls, pausedState, polling, budget, passed,
          loose>>

Init ==
  /\ current = NoSub
  /\ listeners = [s \in Subs |-> <<>>]
  /\ started = [s \in Subs |-> FALSE]
  /\ calls = <<>>
  /\ pausedState = "no"
  /\ polling = NoPolling
  /\ budget = [calls |-> MaxCalls, pauses |-> MaxPauses]
  /\ passed = [s \in Subs |-> {}]
  /\ loose = {}

paused == pausedState # "no"
history == <<passed, loose>>

\* No microtask is due: timers fire and answers arrive only then.
Quiescent ==
  /\ calls = <<>>
  /\ \A i \in PollIds : polling.polls[i].at \in {"idle", "fetch"}

-----------------------------------------------------------------------------
(* Calls of the application *)

\* A subscription object that does not exist yet.
Fresh(s) ==
  /\ s # current /\ listeners[s] = <<>> /\ ~started[s] /\ s \notin loose
  /\ \A i \in DOMAIN calls : calls[i].sub # s

Spend(what) ==
  /\ budget[what] > 0
  /\ budget' = [budget EXCEPT ![what] = @ - 1]

Enqueue(op, l, s) ==
  calls' = Append(calls, [op |-> op, listener |-> l, sub |-> s])

\* on, once and removeAllListeners("block") create the subscription (#getSub).
LookUp(op, l) ==
  /\ Spend("calls")
  /\ op \in {"on", "once", "removeAll"}
  /\ \E s \in Subs :
       /\ IF current # NoSub THEN s = current ELSE Fresh(s) /\ \A t \in Subs : Fresh(t) => s <= t
       /\ current' = s
       /\ Enqueue(op, l, s)
  /\ UNCHANGED <<listeners, started, pausedState, polling, history>>

\* off, with or without a listener, does not (#hasSub).
LookUpOnly(op, l) ==
  /\ Spend("calls")
  /\ op \in {"off", "offAll"}
  /\ Enqueue(op, l, current)
  /\ UNCHANGED <<current, listeners, started, pausedState, polling, history>>

\* emit of a poll, which also only looks up.
LookUpEmit(i) ==
  LET poll == polling.polls[i]
  IN  /\ poll.at = "call"
      /\ polling' = [polling EXCEPT !.polls[i].at = "emit"]
      /\ Enqueue("emit", i, current)
      /\ passed' = [passed EXCEPT ![poll.sub] = @ \cup {poll.next}]
      /\ UNCHANGED <<current, listeners, started, pausedState, budget, loose>>

-----------------------------------------------------------------------------
(* Their continuations *)

Call == Head(calls)
Continue(ops) ==
  /\ calls # <<>>
  /\ Call.op \in ops
  /\ calls' = Tail(calls)

StopIfStarted(s) == IF started[s] THEN Stop(polling, s) ELSE polling

\* on, once: add the listener; the first one starts the subscriber, and
\* pauses it again if the provider is paused.
Register ==
  LET s == Call.sub
      running == Start(polling, s, paused)
  IN  /\ Continue({"on", "once"})
      /\ listeners' = [listeners EXCEPT ![s] = Append(@, [listener |-> Call.listener, once |-> Call.op = "once"])]
      /\ IF started[s] THEN UNCHANGED <<started, polling>>
         ELSE /\ polling.poller[s] = NoTimer => Room(polling)
              /\ started' = [started EXCEPT ![s] = TRUE]
              /\ polling' = IF paused THEN Pause(running, s, pausedState = "drop") ELSE running
      /\ loose' = IF s = current THEN loose ELSE loose \cup {s}
      /\ UNCHANGED <<current, pausedState, budget, passed>>

\* Mutant: the subscriber is not stopped.
DropRunning(s, p) ==
  /\ polling' = p
  /\ current' = NoSub

\* Stop the subscriber and delete the tag, whatever is under it by now.
Drop(s, p) ==
  /\ polling' = IF started[s] THEN Stop(p, s) ELSE p
  /\ current' = NoSub

\* emit: call the listeners, keep those that are not once.  The poll goes on.
Emit ==
  LET s    == Call.sub
      kept == SelectSeq(listeners[s], LAMBDA x : ~x.once)
      p    == [polling EXCEPT !.polls[Call.listener].at = "check"]
  IN  /\ Continue({"emit"})
      /\ IF s = NoSub \/ listeners[s] = <<>>
         THEN polling' = p /\ UNCHANGED <<current, listeners>>
         ELSE /\ listeners' = [listeners EXCEPT ![s] = kept]
              /\ IF kept = <<>> THEN Drop(s, p) ELSE polling' = p /\ UNCHANGED current
      /\ UNCHANGED <<started, pausedState, budget, history>>

\* The listeners without the first entry of l.
Without(seq, l) ==
  LET at == {k \in DOMAIN seq : seq[k].listener = l}
  IN  IF at = {} THEN seq
      ELSE SubSeq(seq, 1, Min(at) - 1) \o SubSeq(seq, Min(at) + 1, Len(seq))

Off ==
  LET s    == Call.sub
      left == Without(listeners[s], Call.listener)
  IN  /\ Continue({"off"})
      /\ IF s = NoSub THEN UNCHANGED <<current, listeners, polling>>
         ELSE /\ listeners' = [listeners EXCEPT ![s] = left]
              /\ IF left = <<>> THEN Drop(s, polling) ELSE UNCHANGED <<current, polling>>
      /\ UNCHANGED <<started, pausedState, budget, history>>

\* off and removeAllListeners of the event leave the listeners in place.
OffAll ==
  /\ Continue({"offAll", "removeAll"})
  /\ IF Call.sub = NoSub THEN UNCHANGED <<current, polling>> ELSE Drop(Call.sub, polling)
  /\ UNCHANGED <<listeners, started, pausedState, budget, history>>

-----------------------------------------------------------------------------
(* Calls that do all their work at once *)

\* removeAllListeners()
RemoveAll ==
  /\ Spend("calls")
  /\ current # NoSub
  /\ Drop(current, polling)
  /\ UNCHANGED <<listeners, started, calls, pausedState, history>>

\* destroy removes all listeners and clears all timers.
Destroy ==
  /\ Spend("pauses")
  /\ LET p == IF current # NoSub THEN StopIfStarted(current) ELSE polling
     IN  polling' = [p EXCEPT !.timers = ClearAll(@)]
  /\ current' = NoSub
  /\ UNCHANGED <<listeners, started, calls, pausedState, history>>

\* pause; a second one has no effect, or throws if of the other type.
PauseProvider(state) ==
  /\ Spend("pauses")
  /\ ~paused
  /\ LET p == IF current # NoSub THEN Pause(polling, current, state = "drop") ELSE polling
     IN  polling' = [p EXCEPT !.timers = PauseTimers(@)]
  /\ pausedState' = state
  /\ UNCHANGED <<current, listeners, started, calls, history>>

\* resume: the subscribers first, whether started or not, then the timers.
Resume ==
  /\ paused
  /\ current # NoSub => polling.poller[current] # NoTimer \/ Room(polling)
  /\ LET p == IF current # NoSub THEN Start(polling, current, TRUE) ELSE polling
     IN  polling' = [p EXCEPT !.timers = ResumeTimers(@)]
  /\ pausedState' = "no"
  /\ loose' = IF current # NoSub /\ ~started[current] THEN loose \cup {current} ELSE loose
  /\ UNCHANGED <<current, listeners, started, calls, budget, passed>>

-----------------------------------------------------------------------------
(* Timers and the network *)

Fire(id) ==
  /\ Quiescent
  /\ Pending(polling.timers[id])
  /\ FreePolls(polling) # {}
  /\ polling' = TimerFires(polling, id)
  /\ UNCHANGED <<current, listeners, started, calls, pausedState, budget, history>>

\* The nodes lag behind the chain and may differ: any height may be reported.
Answer(i, n) ==
  LET s == polling.polls[i].sub
  IN  /\ Quiescent
      /\ polling.polls[i].at = "fetch"
      /\ FreeTimers(polling) # {}
      /\ polling' = Answered(polling, i, n, paused)
      /\ passed' = [passed EXCEPT ![s] = IF polling.number[s] = Unknown THEN @ \cup 1 .. n ELSE @]
      /\ UNCHANGED <<current, listeners, started, calls, pausedState, budget, loose>>

\* Mutant: a poll that failed is the last one.
FailForGood(i) ==
  /\ Quiescent
  /\ polling.polls[i].at = "fetch"
  /\ polling' = EndPoll(polling, i)
  /\ UNCHANGED <<current, listeners, started, calls, pausedState, budget, history>>

\* getBlockNumber rejects: "//console.log(error)".
Fail(i) ==
  /\ Quiescent
  /\ polling.polls[i].at = "fetch"
  /\ FreeTimers(polling) # {}
  /\ polling' = Reschedule(polling, i, paused)
  /\ UNCHANGED <<current, listeners, started, calls, pausedState, budget, history>>

\* A poll goes on after its emit.
NextBlock(i) ==
  LET poll == polling.polls[i]
  IN  /\ poll.at = "check"
      /\ FreeTimers(polling) # {}
      /\ polling' = Loop(polling, i, poll.next + 1, poll.last, paused)
      /\ UNCHANGED <<current, listeners, started, calls, pausedState, budget, history>>

-----------------------------------------------------------------------------
Next ==
  \/ \E l \in Listeners : LookUp("on", l) \/ LookUp("once", l) \/ LookUpOnly("off", l)
  \/ \E l \in Listeners : LookUp("removeAll", l) \/ LookUpOnly("offAll", l)
  \/ Register \/ Emit \/ Off \/ OffAll
  \/ RemoveAll \/ Destroy \/ Resume
  \/ \E state \in {"keep", "drop"} : PauseProvider(state)
  \/ \E id \in TimerIds : Fire(id)
  \/ \E i \in PollIds : LookUpEmit(i) \/ NextBlock(i) \/ Fail(i)
  \/ \E i \in PollIds, n \in 0 .. MaxHeight : Answer(i, n)

Spec == Init /\ [][Next]_vars

-----------------------------------------------------------------------------
(* Properties *)

(***************************************************************************)
(* A listener that is registered is served: its subscriber runs unless the *)
(* provider is paused, and nothing else runs but what a call that raced    *)
(* with the registration has left behind.  And it cannot be undone by a    *)
(* call that looked up an older subscription, although every call deletes  *)
(* by tag: those that are still to continue are about the current one.     *)
(***************************************************************************)
ListenersAreServed ==
  /\ current # NoSub /\ started[current] =>
       \A i \in DOMAIN calls : calls[i].sub \in {current, NoSub}
  /\ current # NoSub /\ listeners[current] # <<>> =>
       started[current] /\ (paused \/ polling.poller[current] # NoTimer)
  /\ \A s \in Subs : polling.poller[s] # NoTimer => s = current \/ s \in loose

(***************************************************************************)
(* Polling never dies: a poll that bootstraps sets no timer, one that was  *)
(* stopped sets none, and polls overlap, yet a subscriber that runs always *)
(* has a poll or a timer that leads to the next one, a second one if the   *)
(* first is used up by the bootstrap.                                      *)
(***************************************************************************)
TimersOf(p, s) == {id \in TimerIds : p.timers[id].func = s /\ Alive(p.timers[id])}
PollsOf(p, s) == {i \in PollIds : p.polls[i].sub = s}
Fed(p, s) ==
  p.poller[s] # NoTimer =>
    Cardinality(TimersOf(p, s)) + Cardinality(PollsOf(p, s)) > (IF p.number[s] = Unknown THEN 1 ELSE 0)
PollingNeverDies == current # NoSub => Fed(polling, current)

(***************************************************************************)
(* No block is skipped, however many polls overlap: every block up to the  *)
(* subscriber's #blockNumber has been emitted, unless the subscriber began *)
(* after it.                                                               *)
(***************************************************************************)
NoBlockSkipped ==
  \A s \in Subs : 1 .. polling.number[s] \subseteq passed[s]
=============================================================================
