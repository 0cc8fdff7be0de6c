--------------------------- MODULE PollingBlocks ----------------------------
(***************************************************************************)
(* The timers of AbstractProvider (providers/abstract-provider.ts):        *)
(* _setTimeout and _clearTimeout, and what pause and resume do to them, as *)
(* operators on the table of the timers.  A row outlives its entry in      *)
(* #timers while a native timer that would still run it is pending.  When  *)
(* a timer fires is left open, so the times are not modelled.              *)
(*                                                                         *)
(* PollingBlockSubscriber (providers/subscriber-polling.ts), which polls by*)
(* them: start, stop, pause, resume and #poll, as operators on             *)
(*   p.timers   the provider's timers,                                     *)
(*   p.poller   #poller of each subscriber,                                *)
(*   p.number   its #blockNumber,                                          *)
(*   p.polls    the calls of #poll that run, each between two awaits.      *)
(* Several polls of a subscriber may run at a time.                        *)
(***************************************************************************)
EXTENDS Integers, FiniteSetsExt

CONSTANT TimerIds     \* bound: the timers that may exist at a time

ASSUME TimerAssumption == TimerIds \subseteq Nat \ {0} /\ IsFiniteSet(TimerIds)

NoTimer == 0          \* null; #nextTimer starts at 1

\* func: whom the timer calls; listed: it is in #timers; armed: the native
\* timer its entry holds is pending; loose: pending native timers that no
\* entry holds.
NoRow == [func |-> NoTimer, listed |-> FALSE, armed |-> FALSE, loose |-> 0]

NoTimers == [id \in TimerIds |-> NoRow]

Pending(row) == row.armed \/ row.loose > 0
Alive(row) == row.listed \/ Pending(row)

SetTimer(timers, id, func, paused) ==
  [timers EXCEPT ![id] = [func |-> func, listed |-> TRUE, armed |-> ~paused, loose |-> 0]]

ClearTimer(timers, id) ==
  [timers EXCEPT ![id] = IF @.loose = 0 THEN NoRow
                         ELSE [@ EXCEPT !.listed = FALSE, !.armed = FALSE]]

\* pause: the native timers are cleared, the entries stay.
PauseTimers(timers) == [id \in TimerIds |-> [timers[id] EXCEPT !.armed = FALSE]]

\* resume: every entry gets a native timer, which it does not hold.
ResumeTimers(timers) ==
  [id \in TimerIds |-> IF timers[id].listed THEN [timers[id] EXCEPT !.loose = @ + 1]
                       ELSE timers[id]]

\* A native timer fires: func deletes the entry before it calls on.
FireTimer(timers, id) ==
  LET loose == IF timers[id].armed THEN timers[id].loose ELSE timers[id].loose - 1
  IN  [timers EXCEPT ![id] = IF loose = 0 THEN NoRow
                             ELSE [@ EXCEPT !.listed = FALSE, !.armed = FALSE, !.loose = loose]]

\* destroy clears every timer in #timers.
ClearAll(timers) ==
  [id \in TimerIds |-> IF timers[id].listed THEN ClearTimer(timers, id)[id] ELSE timers[id]]

-----------------------------------------------------------------------------
CONSTANTS
  Subs,        \* the subscribers that may be created
  PollIds      \* bound: the polls that may run at a time

ASSUME PollAssumption == PollIds \subseteq Nat \ {0} /\ IsFiniteSet(PollIds)

Unknown == -2  \* "we still need to fetch an initial block number"

\* at: the await the poll is in: for the block number ("fetch"), before the
\* lookup of emit ("call"), in emit ("emit") or just after it ("check").
Idle == [sub |-> NoTimer, at |-> "idle", next |-> 0, last |-> 0]

NoPolling ==
  [timers |-> NoTimers,
   poller |-> [s \in Subs |-> NoTimer],
   number |-> [s \in Subs |-> Unknown],
   polls  |-> [i \in PollIds |-> Idle]]

FreeTimers(p) == {id \in TimerIds : ~Alive(p.timers[id]) /\ \A s \in Subs : p.poller[s] # id}
FreePolls(p) == {i \in PollIds : p.polls[i] = Idle}
Room(p) == FreeTimers(p) # {} /\ FreePolls(p) # {}

\* #poller = _setTimeout(#poll)
SetPoller(p, s, paused) ==
  LET id == Min(FreeTimers(p))
  IN  [p EXCEPT !.timers = SetTimer(@, id, s, paused), !.poller[s] = id]

\* #poll up to its first await.
BeginPoll(p, s) ==
  [p EXCEPT !.polls[Min(FreePolls(p))] = [sub |-> s, at |-> "fetch", next |-> 0, last |-> 0]]

Start(p, s, paused) ==
  IF p.poller[s] # NoTimer THEN p ELSE BeginPoll(SetPoller(p, s, paused), s)

Stop(p, s) ==
  IF p.poller[s] = NoTimer THEN p
  ELSE [p EXCEPT !.timers = ClearTimer(@, p.poller[s]), !.poller[s] = NoTimer]

Pause(p, s, drop) ==
  LET stopped == Stop(p, s)
  IN  IF drop THEN [stopped EXCEPT !.number[s] = Unknown] ELSE stopped

EndPoll(p, i) == [p EXCEPT !.polls[i] = Idle]

\* The end of #poll: the next one is due after the interval, unless stopped.
Reschedule(p, i, paused) ==
  LET s == p.polls[i].sub
  IN  IF p.poller[s] = NoTimer THEN EndPoll(p, i) ELSE SetPoller(EndPoll(p, i), s, paused)

\* Mutant: a poll that was stopped on its way has seen all blocks.
LoopJumps(p, i, b, last, paused) ==
  LET s == p.polls[i].sub
  IN  IF b > last THEN Reschedule([p EXCEPT !.number[s] = last], i, paused)
      ELSE IF p.poller[s] = NoTimer THEN EndPoll([p EXCEPT !.number[s] = last], i)
      ELSE [p EXCEPT !.polls[i] = [sub |-> s, at |-> "call", next |-> b, last |-> last]]

\* The loop over the new blocks, at block b.
Loop(p, i, b, last, paused) ==
  LET s == p.polls[i].sub
  IN  IF b > last THEN Reschedule([p EXCEPT !.number[s] = last], i, paused)
      ELSE IF p.poller[s] = NoTimer THEN EndPoll(p, i)
      ELSE [p EXCEPT !.polls[i] = [sub |-> s, at |-> "call", next |-> b, last |-> last]]

\* getBlockNumber returned n: the first one only sets #blockNumber.
Answered(p, i, n, paused) ==
  LET s == p.polls[i].sub
  IN  IF p.number[s] = Unknown THEN EndPoll([p EXCEPT !.number[s] = n], i)
      ELSE Loop(p, i, p.number[s] + 1, n, paused)

\* A timer of s fires.
TimerFires(p, id) ==
  BeginPoll([p EXCEPT !.timers = FireTimer(@, id)], p.timers[id].func)
=============================================================================
