----------------------------- MODULE EventsProofs ----------------------------
(***************************************************************************)
(* Proofs about the "block" event of AbstractProvider and the subscribers  *)
(* that poll for it, for any numbers of subscriptions, timers, polls and   *)
(* calls.                                                                  *)
(***************************************************************************)
EXTENDS ProviderEvents, ProofLemmas, SequenceTheorems, FiniteSetTheorems

TimerRows == [func : Subs \cup {NoTimer}, listed : BOOLEAN, armed : BOOLEAN, loose : Nat]
PollRows ==
  [sub : Subs \cup {NoTimer}, at : {"idle", "fetch", "call", "emit", "check"}, next : Int, last : Int]
Pollings ==
  [timers : [TimerIds -> TimerRows], poller : [Subs -> TimerIds \cup {NoTimer}],
   number : [Subs -> Int], polls : [PollIds -> PollRows]]

\* What holds of the subscribers, their polls and the timers in every state:
\* a timer that is alive and every poll belong to a subscriber, and the timer
\* that a subscriber holds is its own or dead.
Sound(p) ==
  /\ p \in Pollings
  /\ \A id \in TimerIds :
       /\ p.timers[id].armed => p.timers[id].listed
       /\ Alive(p.timers[id]) => p.timers[id].func # NoTimer
  /\ \A s \in Subs : p.poller[s] # NoTimer => p.timers[p.poller[s]].func \in {s, NoTimer}
  /\ \A i \in PollIds :
       /\ p.polls[i].at = "idle" <=> p.polls[i] = Idle
       /\ p.polls[i].at # "idle" => p.polls[i].sub # NoTimer
       /\ p.polls[i].last >= 0

\* The blocks that are behind a subscriber and behind its polls.
Behind(p, seen) ==
  /\ \A s \in Subs : 1 .. p.number[s] \subseteq seen[s]
  /\ \A i \in PollIds :
       /\ p.polls[i].at = "call" => 1 .. (p.polls[i].next - 1) \subseteq seen[p.polls[i].sub]
       /\ p.polls[i].at \in {"emit", "check"} => 1 .. p.polls[i].next \subseteq seen[p.polls[i].sub]

CallRows ==
  [op : {"on", "once", "off", "removeAll", "offAll", "emit"}, listener : Listeners \cup PollIds,
   sub : Subs \cup {NoSub}]

\* The calls that have looked up; each emit is of a poll that waits for it.
CallsInv ==
  /\ calls \in Seq(CallRows)
  /\ \A i \in DOMAIN calls :
       /\ calls[i].op \in {"on", "once"} => calls[i].sub \in Subs
       /\ calls[i].op = "emit" =>
            /\ calls[i].listener \in PollIds
            /\ polling.polls[calls[i].listener].at = "emit"
            /\ \A j \in DOMAIN calls : calls[j].op = "emit" /\ calls[j].listener = calls[i].listener => i = j

TagTypes ==
  /\ current \in Subs \cup {NoSub}
  /\ started \in [Subs -> BOOLEAN]
  /\ DOMAIN listeners = Subs
  /\ passed \in [Subs -> SUBSET Int]

\* A call about the current subscription is followed by none about an older one.
QueueInv ==
  current # NoSub =>
    /\ \A i, j \in DOMAIN calls : calls[i].sub = current /\ i < j => calls[j].sub \in {current, NoSub}
    /\ started[current] => \A i \in DOMAIN calls : calls[i].sub \in {current, NoSub}

\* A subscriber that has listeners was started, and one that was started runs;
\* one that runs was started by a listener or is loose.
ServedInv ==
  /\ current # NoSub =>
       /\ started[current] => paused \/ polling.poller[current] # NoTimer
       /\ listeners[current] # <<>> => started[current]
  /\ \A s \in Subs : polling.poller[s] # NoTimer =>
       (started[s] \/ s \in loose) /\ (s = current \/ s \in loose)

EventsInv ==
  /\ Sound(polling)
  /\ Behind(polling, passed)
  /\ CallsInv
  /\ TagTypes
  /\ QueueInv /\ ServedInv
  /\ PollingNeverDies

-----------------------------------------------------------------------------
(* What the operators of PollingBlocks do *)

\* The subscribers other than s are as they were.
Apart(p, q, s) ==
  \A t \in Subs \ {s} :
    /\ TimersOf(q, t) = TimersOf(p, t) /\ PollsOf(q, t) = PollsOf(p, t)
    /\ q.poller[t] = p.poller[t] /\ q.number[t] = p.number[t]

LEMMA Numbers ==
  /\ NoTimer \notin Subs /\ NoTimer \notin TimerIds
  /\ Subs \subseteq Nat /\ TimerIds \subseteq Nat /\ PollIds \subseteq Nat
BY EventAssumption, TimerAssumption, PollAssumption DEF NoTimer

\* The chains of a subscriber can be counted.
LEMMA Countable ==
  ASSUME NEW p, NEW s
  PROVE  /\ IsFiniteSet(TimersOf(p, s)) /\ Cardinality(TimersOf(p, s)) \in Nat
         /\ IsFiniteSet(PollsOf(p, s)) /\ Cardinality(PollsOf(p, s)) \in Nat
<1>1. IsFiniteSet(TimersOf(p, s)) /\ IsFiniteSet(PollsOf(p, s))
  BY FS_Subset, TimerAssumption, PollAssumption DEF TimersOf, PollsOf
<1> QED BY <1>1, FS_CardinalityType

\* _setTimeout finds an id that no timer and no subscriber has.
LEMMA SetPollerDoes ==
  ASSUME NEW p, Sound(p), NEW s \in Subs, NEW b \in BOOLEAN, FreeTimers(p) # {},
         NEW q, q = SetPoller(p, s, b)
  PROVE  /\ Sound(q) /\ Apart(p, q, s)
         /\ q.polls = p.polls /\ q.number = p.number
         /\ q.poller[s] # NoTimer /\ \A t \in Subs \ {s} : q.poller[t] = p.poller[t]
         /\ \E id \in TimerIds : id \notin TimersOf(p, s) /\ TimersOf(q, s) = TimersOf(p, s) \cup {id}
<1> DEFINE id == Min(FreeTimers(p))
<1>0. id \in FreeTimers(p)
  BY MinOfNats, Numbers DEF FreeTimers
<1>1. id \in TimerIds /\ ~Alive(p.timers[id]) /\ \A t \in Subs : p.poller[t] # id
  BY <1>0 DEF FreeTimers
<1>2. p \in Pollings
  BY DEF Sound
<1> DEFINE row == [func |-> s, listed |-> TRUE, armed |-> ~b, loose |-> 0]
<1>3. q = [p EXCEPT !.timers = [p.timers EXCEPT ![id] = row], !.poller[s] = id]
  BY DEF SetPoller, SetTimer
<1>4. row \in TimerRows /\ Alive(row) /\ row.func = s /\ row.listed
  BY DEF TimerRows, Alive
<1> HIDE DEF id, row
<1> DEFINE timers == [p.timers EXCEPT ![id] = row]
           poller == [p.poller EXCEPT ![s] = id]
<1>a. timers \in [TimerIds -> TimerRows] /\ poller \in [Subs -> TimerIds \cup {NoTimer}]
  BY <1>1, <1>2, <1>4 DEF Pollings
<1>b. q = [timers |-> timers, poller |-> poller, number |-> p.number, polls |-> p.polls]
  BY <1>2, <1>3 DEF Pollings
<1>5. q.timers = timers /\ q.poller = poller /\ q.polls = p.polls /\ q.number = p.number /\ q \in Pollings
  <2> HIDE DEF timers, poller
  <2> QED BY <1>2, <1>a, <1>b DEF Pollings
<1>6. /\ \A j \in TimerIds : q.timers[j] = IF j = id THEN row ELSE p.timers[j]
      /\ \A t \in Subs : q.poller[t] = IF t = s THEN id ELSE p.poller[t]
  BY <1>2, <1>5 DEF Pollings
<1>7. Sound(q)
  BY <1>1, <1>4, <1>5, <1>6, Numbers DEF Sound
<1>8. TimersOf(q, s) = TimersOf(p, s) \cup {id} /\ id \notin TimersOf(p, s)
  BY <1>1, <1>4, <1>6 DEF TimersOf
<1>9. \A t \in Subs \ {s} : TimersOf(q, t) = TimersOf(p, t) /\ PollsOf(q, t) = PollsOf(p, t)
  BY <1>1, <1>4, <1>5, <1>6 DEF TimersOf, PollsOf
<1> QED BY <1>1, <1>5, <1>6, <1>7, <1>8, <1>9, Numbers DEF Apart

\* A poll begins.
LEMMA BeginPollDoes ==
  ASSUME NEW p, Sound(p), NEW s \in Subs, FreePolls(p) # {}, NEW q, q = BeginPoll(p, s)
  PROVE  /\ Sound(q) /\ Apart(p, q, s)
         /\ q.timers = p.timers /\ q.poller = p.poller /\ q.number = p.number
         /\ \E i \in PollIds :
              /\ p.polls[i] = Idle /\ q.polls[i].at = "fetch"
              /\ \A j \in PollIds \ {i} : q.polls[j] = p.polls[j]
              /\ i \notin PollsOf(p, s) /\ PollsOf(q, s) = PollsOf(p, s) \cup {i}
<1> DEFINE i == Min(FreePolls(p))
<1>0. i \in FreePolls(p)
  BY MinOfNats, Numbers DEF FreePolls
<1>1. i \in PollIds /\ p.polls[i] = Idle
  BY <1>0 DEF FreePolls
<1>2. p \in Pollings
  BY DEF Sound
<1> DEFINE poll == [sub |-> s, at |-> "fetch", next |-> 0, last |-> 0]
<1>3. q = [p EXCEPT !.polls[i] = poll]
  BY DEF BeginPoll
<1>4. poll \in PollRows /\ poll.at = "fetch" /\ poll.sub = s /\ poll.last = 0 /\ poll # Idle
  <2>1. Idle.at = "idle"
    BY DEF Idle
  <2> QED BY <2>1 DEF PollRows
<1> HIDE DEF i, poll
<1>5. /\ q.polls = [p.polls EXCEPT ![i] = poll]
      /\ q.timers = p.timers /\ q.poller = p.poller /\ q.number = p.number /\ q \in Pollings
  BY <1>1, <1>2, <1>3, <1>4 DEF Pollings
<1>6. \A j \in PollIds : q.polls[j] = IF j = i THEN poll ELSE p.polls[j]
  BY <1>2, <1>5 DEF Pollings
<1>7. Sound(q)
  BY <1>1, <1>4, <1>5, <1>6, Numbers DEF Sound
<1>8. Idle.sub = NoTimer
  BY DEF Idle
<1>9. TimersOf(q, s) = TimersOf(p, s) /\ PollsOf(q, s) = PollsOf(p, s) \cup {i} /\ i \notin PollsOf(p, s)
  BY <1>1, <1>4, <1>5, <1>6, <1>8, Numbers DEF TimersOf, PollsOf
<1>10. \A t \in Subs \ {s} : TimersOf(q, t) = TimersOf(p, t) /\ PollsOf(q, t) = PollsOf(p, t)
  BY <1>1, <1>4, <1>5, <1>6, <1>8, Numbers DEF TimersOf, PollsOf
<1> QED BY <1>1, <1>4, <1>5, <1>6, <1>7, <1>9, <1>10 DEF Apart

\* A poll ends.
LEMMA EndPollDoes ==
  ASSUME NEW p, Sound(p), NEW i \in PollIds, NEW s \in Subs, p.polls[i].sub = s,
         NEW q, q = EndPoll(p, i)
  PROVE  /\ Sound(q) /\ Apart(p, q, s)
         /\ q.timers = p.timers /\ q.poller = p.poller /\ q.number = p.number
         /\ q.polls[i] = Idle /\ \A j \in PollIds \ {i} : q.polls[j] = p.polls[j]
         /\ i \in PollsOf(p, s) /\ PollsOf(q, s) = PollsOf(p, s) \ {i}
<1>2. p \in Pollings
  BY DEF Sound
<1>3. Idle \in PollRows /\ Idle.at = "idle" /\ Idle.sub = NoTimer /\ Idle.last = 0
  BY DEF PollRows, Idle
<1>4. q = [p EXCEPT !.polls[i] = Idle]
  BY DEF EndPoll
<1>5. /\ q.polls = [p.polls EXCEPT ![i] = Idle]
      /\ q.timers = p.timers /\ q.poller = p.poller /\ q.number = p.number /\ q \in Pollings
  BY <1>2, <1>3, <1>4 DEF Pollings
<1>6. \A j \in PollIds : q.polls[j] = IF j = i THEN Idle ELSE p.polls[j]
  BY <1>2, <1>5 DEF Pollings
<1>7. Sound(q)
  BY <1>3, <1>5, <1>6 DEF Sound
<1>8. PollsOf(q, s) = PollsOf(p, s) \ {i} /\ i \in PollsOf(p, s)
  BY <1>3, <1>6, Numbers DEF PollsOf
<1>9. \A t \in Subs \ {s} : TimersOf(q, t) = TimersOf(p, t) /\ PollsOf(q, t) = PollsOf(p, t)
  BY <1>3, <1>5, <1>6, Numbers DEF TimersOf, PollsOf
<1> QED BY <1>5, <1>6, <1>7, <1>8, <1>9 DEF Apart

\* stop clears the timer the subscriber holds, which is nobody else's.
LEMMA StopDoes ==
  ASSUME NEW p, Sound(p), NEW s \in Subs, NEW q, q = Stop(p, s)
  PROVE  /\ Sound(q) /\ Apart(p, q, s)
         /\ q.polls = p.polls /\ q.number = p.number
         /\ q.poller[s] = NoTimer /\ \A t \in Subs \ {s} : q.poller[t] = p.poller[t]
<1>1. CASE p.poller[s] = NoTimer
  BY <1>1 DEF Stop, Apart
<1>2. CASE p.poller[s] # NoTimer
  <2> DEFINE id == p.poller[s]
             row == IF p.timers[id].loose = 0 THEN NoRow
                    ELSE [p.timers[id] EXCEPT !.listed = FALSE, !.armed = FALSE]
  <2>0. p \in Pollings
    BY DEF Sound
  <2>1. id \in TimerIds /\ p.timers[id] \in TimerRows /\ p.timers[id].func \in {s, NoTimer}
    BY <1>2, <2>0 DEF Sound, Pollings
  <2>2. q = [p EXCEPT !.timers = [p.timers EXCEPT ![id] = row], !.poller[s] = NoTimer]
    BY <1>2, <2>0 DEF Stop, ClearTimer, Pollings
  <2>3. /\ row \in TimerRows /\ ~row.armed /\ row.func \in {s, NoTimer}
        /\ Alive(row) => Alive(p.timers[id]) /\ row.func = p.timers[id].func
    <3>1. NoRow \in TimerRows /\ ~NoRow.armed /\ NoRow.func = NoTimer /\ ~Alive(NoRow)
      BY DEF TimerRows, NoRow, Alive, Pending
    <3>2. CASE p.timers[id].loose = 0
      BY <3>1, <3>2
    <3>3. CASE p.timers[id].loose # 0
      <4>1. row = [p.timers[id] EXCEPT !.listed = FALSE, !.armed = FALSE]
        BY <3>3
      <4>2. row \in TimerRows
        BY <2>1, <4>1 DEF TimerRows
      <4>3. ~row.armed /\ row.func = p.timers[id].func /\ Alive(p.timers[id])
        BY <2>1, <3>3, <4>1 DEF TimerRows, Alive, Pending
      <4> QED BY <2>1, <4>2, <4>3
    <3> QED BY <3>2, <3>3
  <2>4. Alive(row) => row.func # NoTimer
    BY <2>1, <2>3 DEF Sound
  <2> HIDE DEF row
  <2> DEFINE timers == [p.timers EXCEPT ![id] = row]
             poller == [p.poller EXCEPT ![s] = NoTimer]
  <2>a. timers \in [TimerIds -> TimerRows] /\ poller \in [Subs -> TimerIds \cup {NoTimer}]
    BY <2>0, <2>1, <2>3 DEF Pollings
  <2>b. q = [timers |-> timers, poller |-> poller, number |-> p.number, polls |-> p.polls]
    BY <2>0, <2>2 DEF Pollings
  <2>5. q.timers = timers /\ q.poller = poller /\ q.polls = p.polls /\ q.number = p.number /\ q \in Pollings
    <3> HIDE DEF timers, poller
    <3> QED BY <2>0, <2>a, <2>b DEF Pollings
  <2>6. /\ \A j \in TimerIds : q.timers[j] = IF j = id THEN row ELSE p.timers[j]
        /\ \A t \in Subs : q.poller[t] = IF t = s THEN NoTimer ELSE p.poller[t]
    BY <2>0, <2>5 DEF Pollings
  <2>7. \A t \in Subs : p.poller[t] = id => p.timers[id].func \in {t, NoTimer}
    BY <1>2 DEF Sound
  <2>8. row.func = NoTimer \/ row.func = p.timers[id].func
    BY <2>1 DEF row, NoRow, TimerRows
  <2>9. Sound(q)
    BY <2>3, <2>4, <2>5, <2>6, <2>7, <2>8 DEF Sound
  <2>10. \A t \in Subs \ {s} : TimersOf(q, t) = TimersOf(p, t) /\ PollsOf(q, t) = PollsOf(p, t)
    BY <2>1, <2>3, <2>5, <2>6, Numbers DEF TimersOf, PollsOf
  <2> QED BY <2>5, <2>6, <2>9, <2>10 DEF Apart
<1> QED BY <1>1, <1>2

\* A timer of a live row fires: its subscriber loses a timer and gains a poll.
LEMMA TimerFiresDoes ==
  ASSUME NEW p, Sound(p), NEW id \in TimerIds, Pending(p.timers[id]), FreePolls(p) # {},
         NEW s, s = p.timers[id].func, NEW q, q = TimerFires(p, id)
  PROVE  /\ s \in Subs /\ Sound(q) /\ Apart(p, q, s)
         /\ q.poller = p.poller /\ q.number = p.number
         /\ TimersOf(p, s) \ {id} \subseteq TimersOf(q, s)
         /\ \E i \in PollIds :
              /\ p.polls[i] = Idle /\ q.polls[i].at = "fetch"
              /\ \A j \in PollIds \ {i} : q.polls[j] = p.polls[j]
              /\ i \notin PollsOf(p, s) /\ PollsOf(q, s) = PollsOf(p, s) \cup {i}
<1>0. p \in Pollings /\ p.timers[id] \in TimerRows
  BY DEF Sound, Pollings
<1>1. s \in Subs
  BY <1>0 DEF Sound, Alive, TimerRows
<1> DEFINE old  == p.timers[id]
           left == IF old.armed THEN old.loose ELSE old.loose - 1
           row  == IF left = 0 THEN NoRow ELSE [old EXCEPT !.listed = FALSE, !.armed = FALSE, !.loose = left]
           r    == [p EXCEPT !.timers = [p.timers EXCEPT ![id] = row]]
<1>2. q = BeginPoll(r, s)
  BY <1>0 DEF TimerFires, FireTimer, Pollings
<1>3. left \in Nat
  <2>1. CASE old.armed
    BY <1>0, <2>1 DEF TimerRows
  <2>2. CASE ~old.armed
    BY <1>0, <2>2 DEF TimerRows, Pending
  <2> QED BY <2>1, <2>2
<1>4. row \in TimerRows /\ ~row.armed /\ row.func \in {s, NoTimer} /\ (Alive(row) => row.func = s)
  <2>1. NoRow \in TimerRows /\ ~NoRow.armed /\ NoRow.func = NoTimer /\ ~Alive(NoRow)
    BY DEF TimerRows, NoRow, Alive, Pending
  <2>2. CASE left = 0
    BY <2>1, <2>2
  <2>3. CASE left # 0
    <3> HIDE DEF left
    <3>1. row = [old EXCEPT !.listed = FALSE, !.armed = FALSE, !.loose = left]
      BY <2>3
    <3>2. row \in TimerRows
      BY <1>0, <1>3, <3>1 DEF TimerRows
    <3>3. ~row.armed /\ row.func = s
      BY <1>0, <3>1 DEF TimerRows
    <3> QED BY <3>2, <3>3
  <2> QED BY <2>2, <2>3
<1> HIDE DEF row
<1>5. /\ r.timers = [p.timers EXCEPT ![id] = row]
      /\ r.polls = p.polls /\ r.number = p.number /\ r.poller = p.poller /\ r \in Pollings
  BY <1>0, <1>4 DEF Pollings
<1> HIDE DEF r
<1>6. \A j \in TimerIds : r.timers[j] = IF j = id THEN row ELSE p.timers[j]
  BY <1>0, <1>5 DEF Pollings
<1>7. Sound(r)
  BY <1>1, <1>4, <1>5, <1>6, Numbers DEF Sound
<1>8. Apart(p, r, s) /\ TimersOf(p, s) \ {id} \subseteq TimersOf(r, s) /\ PollsOf(r, s) = PollsOf(p, s)
  BY <1>1, <1>4, <1>5, <1>6, Numbers DEF Apart, TimersOf, PollsOf
<1>9. FreePolls(r) # {}
  BY <1>5 DEF FreePolls
<1>10. /\ Sound(q) /\ Apart(r, q, s)
       /\ q.timers = r.timers /\ q.poller = r.poller /\ q.number = r.number
       /\ \E i \in PollIds :
            /\ r.polls[i] = Idle /\ q.polls[i].at = "fetch"
            /\ \A j \in PollIds \ {i} : q.polls[j] = r.polls[j]
            /\ i \notin PollsOf(r, s) /\ PollsOf(q, s) = PollsOf(r, s) \cup {i}
  BY <1>1, <1>2, <1>7, <1>9, BeginPollDoes
<1>11. TimersOf(q, s) = TimersOf(r, s)
  BY <1>10 DEF TimersOf
<1>12. Apart(p, q, s)
  BY <1>8, <1>10 DEF Apart
<1> QED BY <1>1, <1>5, <1>8, <1>10, <1>11, <1>12

\* pause and resume keep every timer alive; destroy clears those that are listed.
LEMMA TimersPaused ==
  ASSUME NEW p, Sound(p), NEW q, q = [p EXCEPT !.timers = PauseTimers(@)]
  PROVE  /\ Sound(q) /\ q.poller = p.poller /\ q.number = p.number /\ q.polls = p.polls
         /\ \A s \in Subs : TimersOf(q, s) = TimersOf(p, s)
<1>0. p \in Pollings
  BY DEF Sound
<1>1. ASSUME NEW id \in TimerIds
      PROVE  /\ [p.timers[id] EXCEPT !.armed = FALSE] \in TimerRows
             /\ [p.timers[id] EXCEPT !.armed = FALSE].func = p.timers[id].func
             /\ ~[p.timers[id] EXCEPT !.armed = FALSE].armed
             /\ Alive([p.timers[id] EXCEPT !.armed = FALSE]) <=> Alive(p.timers[id])
  <2> DEFINE row == [p.timers[id] EXCEPT !.armed = FALSE]
  <2>1. p.timers[id] \in TimerRows
    BY <1>0 DEF Pollings
  <2>2. row \in TimerRows
    BY <2>1 DEF TimerRows
  <2>3. /\ row.func = p.timers[id].func /\ ~row.armed
        /\ row.loose = p.timers[id].loose /\ row.listed = p.timers[id].listed
    BY <2>1 DEF TimerRows
  <2>4. p.timers[id].armed => p.timers[id].listed
    BY DEF Sound
  <2>5. Alive(row) <=> Alive(p.timers[id])
    BY <2>3, <2>4 DEF Alive, Pending
  <2> QED BY <2>2, <2>3, <2>5
<1>2. /\ q.timers = PauseTimers(p.timers)
      /\ q.poller = p.poller /\ q.number = p.number /\ q.polls = p.polls /\ q \in Pollings
  BY <1>0, <1>1 DEF Pollings, PauseTimers
<1>3. \A id \in TimerIds : q.timers[id] = [p.timers[id] EXCEPT !.armed = FALSE]
  BY <1>2 DEF PauseTimers
<1>4. \A id \in TimerIds : /\ q.timers[id].func = p.timers[id].func /\ ~q.timers[id].armed
                           /\ Alive(q.timers[id]) <=> Alive(p.timers[id])
  BY <1>1, <1>3
<1>5. \A s \in Subs : p.poller[s] # NoTimer => p.poller[s] \in TimerIds
  BY <1>0 DEF Pollings
<1>6. Sound(q)
  BY <1>2, <1>4, <1>5 DEF Sound
<1>7. \A s \in Subs : TimersOf(q, s) = TimersOf(p, s)
  BY <1>4 DEF TimersOf
<1> QED BY <1>2, <1>6, <1>7

LEMMA TimersResumed ==
  ASSUME NEW p, Sound(p), NEW q, q = [p EXCEPT !.timers = ResumeTimers(@)]
  PROVE  /\ Sound(q) /\ q.poller = p.poller /\ q.number = p.number /\ q.polls = p.polls
         /\ \A s \in Subs : TimersOf(q, s) = TimersOf(p, s)
<1>0. p \in Pollings
  BY DEF Sound
<1> DEFINE row(id) == IF p.timers[id].listed THEN [p.timers[id] EXCEPT !.loose = @ + 1] ELSE p.timers[id]
<1>1. ASSUME NEW id \in TimerIds
      PROVE  /\ row(id) \in TimerRows /\ row(id).func = p.timers[id].func
             /\ row(id).armed => row(id).listed
             /\ Alive(row(id)) <=> Alive(p.timers[id])
  <2>1. p.timers[id] \in TimerRows
    BY <1>0 DEF Pollings
  <2>2. p.timers[id].armed => p.timers[id].listed
    BY DEF Sound
  <2>3. CASE ~p.timers[id].listed
    BY <2>1, <2>2, <2>3
  <2>4. CASE p.timers[id].listed
    <3>1. row(id) = [p.timers[id] EXCEPT !.loose = p.timers[id].loose + 1]
      BY <2>4
    <3>2. row(id) \in TimerRows
      BY <2>1, <3>1 DEF TimerRows
    <3>3. row(id).func = p.timers[id].func /\ row(id).listed
      BY <2>1, <2>4, <3>1 DEF TimerRows
    <3> QED BY <2>4, <3>2, <3>3 DEF Alive
  <2> QED BY <2>3, <2>4
<1>2. q.timers = [id \in TimerIds |-> row(id)]
  BY <1>0 DEF Pollings, ResumeTimers
<1> HIDE DEF row
<1>3. /\ q.poller = p.poller /\ q.number = p.number /\ q.polls = p.polls
      /\ q = [timers |-> q.timers, poller |-> p.poller, number |-> p.number, polls |-> p.polls]
  BY <1>0 DEF Pollings
<1>4. q \in Pollings
  BY <1>0, <1>1, <1>2, <1>3 DEF Pollings
<1>5. \A id \in TimerIds : q.timers[id] = row(id)
  BY <1>2
<1>6. \A s \in Subs : p.poller[s] # NoTimer => p.poller[s] \in TimerIds
  BY <1>0 DEF Pollings
<1>7. Sound(q)
  BY <1>1, <1>3, <1>4, <1>5, <1>6 DEF Sound
<1>8. \A s \in Subs : TimersOf(q, s) = TimersOf(p, s)
  BY <1>1, <1>5 DEF TimersOf
<1> QED BY <1>3, <1>7, <1>8

LEMMA TimersCleared ==
  ASSUME NEW p, Sound(p), NEW q, q = [p EXCEPT !.timers = ClearAll(@)]
  PROVE  Sound(q) /\ q.poller = p.poller /\ q.number = p.number /\ q.polls = p.polls
<1>0. p \in Pollings
  BY DEF Sound
<1> DEFINE old(id) == p.timers[id]
           row(id) == IF ~old(id).listed THEN old(id) ELSE IF old(id).loose = 0 THEN NoRow
                      ELSE [old(id) EXCEPT !.listed = FALSE, !.armed = FALSE]
<1>1. ASSUME NEW id \in TimerIds
      PROVE  /\ row(id) \in TimerRows
             /\ row(id).armed => row(id).listed
             /\ Alive(row(id)) => row(id).func # NoTimer
             /\ row(id).func \in {old(id).func, NoTimer}
  <2>1. old(id) \in TimerRows
    BY <1>0 DEF Pollings
  <2>2. (old(id).armed => old(id).listed) /\ (Alive(old(id)) => old(id).func # NoTimer)
    BY DEF Sound
  <2>3. CASE ~old(id).listed
    BY <2>1, <2>2, <2>3
  <2>4. CASE old(id).listed /\ old(id).loose = 0
    <3>1. NoRow \in TimerRows /\ ~NoRow.armed /\ NoRow.func = NoTimer /\ ~Alive(NoRow)
      BY DEF TimerRows, NoRow, Alive, Pending
    <3> QED BY <2>4, <3>1
  <2>5. CASE old(id).listed /\ old(id).loose # 0
    <3>1. row(id) = [old(id) EXCEPT !.listed = FALSE, !.armed = FALSE]
      BY <2>5
    <3>2. row(id) \in TimerRows
      BY <2>1, <3>1 DEF TimerRows
    <3>3. row(id).func = old(id).func /\ ~row(id).armed /\ Alive(old(id))
      BY <2>1, <2>5, <3>1 DEF TimerRows, Alive
    <3> QED BY <2>2, <3>2, <3>3
  <2> QED BY <2>3, <2>4, <2>5
<1>2. q.timers = [id \in TimerIds |-> row(id)]
  BY <1>0 DEF Pollings, ClearAll, ClearTimer
<1> HIDE DEF row
<1>3. /\ q.poller = p.poller /\ q.number = p.number /\ q.polls = p.polls
      /\ q = [timers |-> q.timers, poller |-> p.poller, number |-> p.number, polls |-> p.polls]
  BY <1>0 DEF Pollings
<1>4. q \in Pollings
  BY <1>0, <1>1, <1>2, <1>3 DEF Pollings
<1>5. \A id \in TimerIds : q.timers[id] = row(id)
  BY <1>2
<1>6. \A s \in Subs : p.poller[s] # NoTimer => p.poller[s] \in TimerIds
  BY <1>0 DEF Pollings
<1>7. Sound(q)
  BY <1>1, <1>3, <1>4, <1>5, <1>6 DEF Sound
<1> QED BY <1>3, <1>7

-----------------------------------------------------------------------------
(* What start, stop, pause and the steps of a poll do *)

\* The polls that are in an emit are left alone.
Kept(p, q) == \A i \in PollIds : p.polls[i].at = "emit" => q.polls[i] = p.polls[i]

\* Nothing that a subscriber or a poll has behind it grows.
NoFurther(p, q) == \A seen : Behind(p, seen) => Behind(q, seen)

LEMMA StillFed ==
  ASSUME NEW p, NEW q, NEW s, Apart(p, q, s)
  PROVE  \A t \in Subs \ {s} : Fed(p, t) => Fed(q, t)
BY DEF Apart, Fed

LEMMA StartDoes ==
  ASSUME NEW p, Sound(p), NEW s \in Subs, NEW b \in BOOLEAN, p.poller[s] # NoTimer \/ Room(p),
         NEW q, q = Start(p, s, b)
  PROVE  /\ Sound(q) /\ Apart(p, q, s) /\ Kept(p, q) /\ NoFurther(p, q)
         /\ q.poller[s] # NoTimer /\ (Fed(p, s) => Fed(q, s))
<1>1. CASE p.poller[s] # NoTimer
  BY <1>1 DEF Start, Apart, Kept, NoFurther
<1>2. CASE p.poller[s] = NoTimer
  <2> DEFINE r == SetPoller(p, s, b)
  <2>1. q = BeginPoll(r, s) /\ FreeTimers(p) # {} /\ FreePolls(p) # {}
    BY <1>2 DEF Start, Room
  <2> HIDE DEF r
  <2>2. /\ Sound(r) /\ Apart(p, r, s) /\ r.polls = p.polls /\ r.number = p.number /\ r.poller[s] # NoTimer
        /\ \E id \in TimerIds : id \notin TimersOf(p, s) /\ TimersOf(r, s) = TimersOf(p, s) \cup {id}
    BY <2>1, SetPollerDoes DEF r
  <2>3. FreePolls(r) # {}
    BY <2>1, <2>2 DEF FreePolls
  <2>4. /\ Sound(q) /\ Apart(r, q, s)
        /\ q.timers = r.timers /\ q.poller = r.poller /\ q.number = r.number
        /\ \E i \in PollIds :
             /\ r.polls[i] = Idle /\ q.polls[i].at = "fetch"
             /\ \A j \in PollIds \ {i} : q.polls[j] = r.polls[j]
             /\ i \notin PollsOf(r, s) /\ PollsOf(q, s) = PollsOf(r, s) \cup {i}
    BY <2>1, <2>2, <2>3, BeginPollDoes
  <2>5. Apart(p, q, s)
    BY <2>2, <2>4 DEF Apart
  <2>6. Idle.at = "idle"
    BY DEF Idle
  <2>7. Kept(p, q)
    BY <2>2, <2>4, <2>6 DEF Kept
  <2>8. NoFurther(p, q)
    BY <2>2, <2>4, <2>6 DEF NoFurther, Behind
  <2>9. Fed(q, s)
    <3>1. TimersOf(q, s) # {} /\ PollsOf(q, s) # {}
      BY <2>2, <2>4 DEF TimersOf
    <3>2. Cardinality(TimersOf(q, s)) # 0 /\ Cardinality(PollsOf(q, s)) # 0
      BY <3>1, Countable, FS_EmptySet
    <3>3. Cardinality(TimersOf(q, s)) \in Nat /\ Cardinality(PollsOf(q, s)) \in Nat
      BY Countable
    <3> QED BY <3>2, <3>3 DEF Fed
  <2> QED BY <2>2, <2>4, <2>5, <2>7, <2>8, <2>9
<1> QED BY <1>1, <1>2

LEMMA PauseDoes ==
  ASSUME NEW p, Sound(p), NEW s \in Subs, NEW drop \in BOOLEAN, NEW q, q = Pause(p, s, drop)
  PROVE  /\ Sound(q) /\ Apart(p, q, s) /\ Kept(p, q) /\ NoFurther(p, q) /\ q.poller[s] = NoTimer
<1> DEFINE r == Stop(p, s)
<1>1. /\ Sound(r) /\ Apart(p, r, s)
      /\ r.polls = p.polls /\ r.number = p.number /\ r.poller[s] = NoTimer
  BY StopDoes
<1> HIDE DEF r
<1>2. q = IF drop THEN [r EXCEPT !.number = [r.number EXCEPT ![s] = Unknown]] ELSE r
  <2>1. r \in Pollings
    BY <1>1 DEF Sound
  <2>2. q = IF drop THEN [r EXCEPT !.number[s] = Unknown] ELSE r
    BY DEF Pause, r
  <2> QED BY <2>1, <2>2 DEF Pollings
<1>3. CASE ~drop
  BY <1>1, <1>2, <1>3 DEF Kept, NoFurther, Behind
<1>4. CASE drop
  <2>0. r \in Pollings
    BY <1>1 DEF Sound
  <2>1. Unknown \in Int
    BY DEF Unknown
  <2>2. /\ q.timers = r.timers /\ q.poller = r.poller /\ q.polls = r.polls
        /\ q.number = [r.number EXCEPT ![s] = Unknown] /\ q \in Pollings
    BY <1>2, <1>4, <2>0, <2>1 DEF Pollings
  <2>3. \A t \in Subs : q.number[t] = IF t = s THEN Unknown ELSE r.number[t]
    BY <2>0, <2>2 DEF Pollings
  <2>4. Sound(q)
    BY <1>1, <2>2 DEF Sound
  <2>5. Apart(p, q, s)
    BY <1>1, <2>2, <2>3 DEF Apart, TimersOf, PollsOf
  <2>6. NoFurther(p, q)
    <3>1. 1 .. Unknown = {}
      BY DEF Unknown
    <3> QED BY <1>1, <2>2, <2>3, <3>1 DEF NoFurther, Behind
  <2> QED BY <1>1, <2>2, <2>4, <2>5, <2>6 DEF Kept
<1> QED BY <1>3, <1>4

LEMMA StopQuietly ==
  ASSUME NEW p, Sound(p), NEW s \in Subs, NEW q, q = Stop(p, s)
  PROVE  /\ Sound(q) /\ Apart(p, q, s) /\ Kept(p, q) /\ NoFurther(p, q) /\ q.poller[s] = NoTimer
<1>1. /\ Sound(q) /\ Apart(p, q, s)
      /\ q.polls = p.polls /\ q.number = p.number /\ q.poller[s] = NoTimer
  BY StopDoes
<1> QED BY <1>1 DEF Kept, NoFurther, Behind

\* The end of a poll: another timer makes up for it, unless the subscriber was stopped.
LEMMA RescheduleDoes ==
  ASSUME NEW p, Sound(p), NEW i \in PollIds, NEW s \in Subs, p.polls[i].sub = s, NEW b \in BOOLEAN,
         FreeTimers(p) # {}, p.polls[i].at # "emit", NEW q, q = Reschedule(p, i, b)
  PROVE  /\ Sound(q) /\ Apart(p, q, s) /\ Kept(p, q) /\ NoFurther(p, q)
         /\ (q.poller[s] = NoTimer <=> p.poller[s] = NoTimer) /\ (Fed(p, s) => Fed(q, s))
         /\ q.polls[i] = Idle
<1> DEFINE r == EndPoll(p, i)
<1>0. r = EndPoll(p, i)
  OBVIOUS
<1> HIDE DEF r
<1>1. /\ Sound(r) /\ Apart(p, r, s)
      /\ r.timers = p.timers /\ r.poller = p.poller /\ r.number = p.number
      /\ r.polls[i] = Idle /\ \A j \in PollIds \ {i} : r.polls[j] = p.polls[j]
      /\ i \in PollsOf(p, s) /\ PollsOf(r, s) = PollsOf(p, s) \ {i}
  BY <1>0, EndPollDoes
<1>2. q = IF p.poller[s] = NoTimer THEN r ELSE SetPoller(r, s, b)
  BY DEF Reschedule, r
<1>3. Idle.at = "idle"
  BY DEF Idle
<1>4. Kept(p, r) /\ NoFurther(p, r)
  BY <1>1, <1>3 DEF Kept, NoFurther, Behind
<1>5. CASE p.poller[s] = NoTimer
  BY <1>1, <1>2, <1>4, <1>5 DEF Fed
<1>6. CASE p.poller[s] # NoTimer
  <2>1. FreeTimers(r) # {}
    BY <1>1 DEF FreeTimers
  <2>2. /\ Sound(q) /\ Apart(r, q, s) /\ q.polls = r.polls /\ q.number = r.number /\ q.poller[s] # NoTimer
        /\ \A t \in Subs \ {s} : q.poller[t] = r.poller[t]
    BY <1>1, <1>2, <1>6, <2>1, SetPollerDoes
  <2>3. \E id \in TimerIds : id \notin TimersOf(r, s) /\ TimersOf(q, s) = TimersOf(r, s) \cup {id}
    BY <1>1, <1>2, <1>6, <2>1, SetPollerDoes
  <2>4. PICK id \in TimerIds : id \notin TimersOf(r, s) /\ TimersOf(q, s) = TimersOf(r, s) \cup {id}
    BY <2>3
  <2>5. TimersOf(r, s) = TimersOf(p, s) /\ PollsOf(q, s) = PollsOf(p, s) \ {i}
    BY <1>1, <2>2 DEF TimersOf, PollsOf
  <2>a. Cardinality(TimersOf(q, s)) = Cardinality(TimersOf(p, s)) + 1
    <3>1. IsFiniteSet(TimersOf(p, s))
      BY Countable
    <3>2. Cardinality(TimersOf(p, s) \cup {id}) = Cardinality(TimersOf(p, s)) + 1
      BY <2>4, <2>5, <3>1, FS_AddElement
    <3> QED BY <2>4, <2>5, <3>2
  <2>b. Cardinality(PollsOf(q, s)) = Cardinality(PollsOf(p, s)) - 1
    <3>1. IsFiniteSet(PollsOf(p, s))
      BY Countable
    <3>2. Cardinality(PollsOf(p, s) \ {i}) = Cardinality(PollsOf(p, s)) - 1
      BY <1>1, <3>1, FS_RemoveElement
    <3> QED BY <2>5, <3>2
  <2>7. Cardinality(TimersOf(p, s)) \in Nat /\ Cardinality(PollsOf(p, s)) \in Nat
    BY Countable
  <2>8. Fed(p, s) => Fed(q, s)
    BY <1>1, <1>6, <2>2, <2>a, <2>b, <2>7 DEF Fed
  <2>9. Apart(p, q, s)
    BY <1>1, <2>2 DEF Apart
  <2>10. Kept(p, q) /\ NoFurther(p, q)
    BY <1>4, <2>2 DEF Kept, NoFurther, Behind
  <2> QED BY <1>1, <1>6, <2>2, <2>8, <2>9, <2>10
<1> QED BY <1>5, <1>6

\* A step of the loop over the new blocks; all below b are behind the poll.
LEMMA LoopDoes ==
  ASSUME NEW p, Sound(p), NEW i \in PollIds, NEW s \in Subs, p.polls[i].sub = s, NEW paus \in BOOLEAN,
         FreeTimers(p) # {}, p.polls[i].at \in {"fetch", "check"},
         NEW b \in Int, NEW last \in Nat, NEW q, q = Loop(p, i, b, last, paus)
  PROVE  /\ Sound(q) /\ Apart(p, q, s) /\ Kept(p, q)
         /\ (q.poller[s] = NoTimer <=> p.poller[s] = NoTimer) /\ (Fed(p, s) => Fed(q, s))
         /\ \A seen : Behind(p, seen) /\ 1 .. (b - 1) \subseteq seen[s] => Behind(q, seen)
<1>0. p \in Pollings
  BY DEF Sound
<1>1. CASE b > last
  <2> DEFINE r == [p EXCEPT !.number = [p.number EXCEPT ![s] = last]]
  <2>1. q = Reschedule(r, i, paus)
    BY <1>0, <1>1 DEF Loop, Pollings
  <2>2. /\ r.timers = p.timers /\ r.poller = p.poller /\ r.polls = p.polls
        /\ r.number = [p.number EXCEPT ![s] = last] /\ r \in Pollings
    BY <1>0 DEF Pollings
  <2> HIDE DEF r
  <2>3. \A t \in Subs : r.number[t] = IF t = s THEN last ELSE p.number[t]
    BY <1>0, <2>2 DEF Pollings
  <2>4. Sound(r) /\ FreeTimers(r) # {} /\ r.polls[i].sub = s /\ r.polls[i].at # "emit"
    BY <2>2 DEF Sound, FreeTimers
  <2>5. /\ Sound(q) /\ Apart(r, q, s) /\ Kept(r, q) /\ NoFurther(r, q)
        /\ (q.poller[s] = NoTimer <=> r.poller[s] = NoTimer) /\ (Fed(r, s) => Fed(q, s))
    BY <2>1, <2>4, RescheduleDoes
  <2>6. Apart(p, r, s) /\ TimersOf(r, s) = TimersOf(p, s) /\ PollsOf(r, s) = PollsOf(p, s)
    BY <2>2, <2>3 DEF Apart, TimersOf, PollsOf
  <2>7. Apart(p, q, s)
    BY <2>5, <2>6 DEF Apart
  <2>8. Fed(p, s) => Fed(r, s)
    <3>1. r.number[s] # Unknown
      BY <2>3 DEF Unknown
    <3>2. Cardinality(TimersOf(p, s)) \in Nat /\ Cardinality(PollsOf(p, s)) \in Nat
      BY Countable
    <3> QED BY <2>2, <2>6, <3>1, <3>2 DEF Fed
  <2>9. \A seen : Behind(p, seen) /\ 1 .. (b - 1) \subseteq seen[s] => Behind(r, seen)
    <3>1. 1 .. last \subseteq 1 .. (b - 1)
      BY <1>1
    <3> QED BY <2>2, <2>3, <3>1 DEF Behind
  <2> QED BY <2>2, <2>5, <2>7, <2>8, <2>9 DEF Kept, NoFurther
<1>2. CASE ~(b > last) /\ p.poller[s] = NoTimer
  <2>1. q = EndPoll(p, i)
    BY <1>2 DEF Loop
  <2>2. /\ Sound(q) /\ Apart(p, q, s)
        /\ q.timers = p.timers /\ q.poller = p.poller /\ q.number = p.number
        /\ q.polls[i] = Idle /\ \A j \in PollIds \ {i} : q.polls[j] = p.polls[j]
    BY <2>1, EndPollDoes
  <2>3. Idle.at = "idle"
    BY DEF Idle
  <2> QED BY <1>2, <2>2, <2>3 DEF Kept, Behind, Fed
<1>3. CASE ~(b > last) /\ p.poller[s] # NoTimer
  <2> DEFINE poll == [sub |-> s, at |-> "call", next |-> b, last |-> last]
  <2>1. q = [p EXCEPT !.polls = [p.polls EXCEPT ![i] = poll]]
    BY <1>0, <1>3 DEF Loop, Pollings
  <2>3. poll \in PollRows /\ poll.at = "call" /\ poll.next = b /\ poll.last = last /\ poll.sub = s
    BY DEF PollRows
  <2> HIDE DEF poll
  <2>4. /\ q.timers = p.timers /\ q.poller = p.poller /\ q.number = p.number
        /\ q.polls = [p.polls EXCEPT ![i] = poll] /\ q \in Pollings
    BY <1>0, <2>1, <2>3 DEF Pollings
  <2>5. \A j \in PollIds : q.polls[j] = IF j = i THEN poll ELSE p.polls[j]
    BY <1>0, <2>4 DEF Pollings
  <2>6. Idle.at = "idle"
    BY DEF Idle
  <2>7. Sound(q)
    BY <2>3, <2>4, <2>5, <2>6, Numbers DEF Sound
  <2>8. \A t \in Subs : TimersOf(q, t) = TimersOf(p, t) /\ PollsOf(q, t) = PollsOf(p, t)
    BY <2>3, <2>4, <2>5 DEF TimersOf, PollsOf
  <2>9. Apart(p, q, s) /\ (Fed(p, s) => Fed(q, s))
    BY <2>4, <2>8 DEF Apart, Fed
  <2>10. Kept(p, q)
    BY <2>5 DEF Kept
  <2>11. \A seen : Behind(p, seen) /\ 1 .. (b - 1) \subseteq seen[s] => Behind(q, seen)
    BY <2>3, <2>4, <2>5 DEF Behind
  <2> QED BY <2>4, <2>7, <2>9, <2>10, <2>11
<1> QED BY <1>1, <1>2, <1>3

\* An answer with the block number n: the first only says where to begin.
LEMMA AnsweredDoes ==
  ASSUME NEW p, Sound(p), NEW i \in PollIds, NEW s \in Subs, p.polls[i].sub = s, NEW paus \in BOOLEAN,
         FreeTimers(p) # {}, p.polls[i].at = "fetch",
         NEW n \in Nat, NEW q, q = Answered(p, i, n, paus)
  PROVE  /\ Sound(q) /\ Apart(p, q, s) /\ Kept(p, q)
         /\ (q.poller[s] = NoTimer <=> p.poller[s] = NoTimer) /\ (Fed(p, s) => Fed(q, s))
         /\ \A seen : Behind(p, seen) /\ (p.number[s] = Unknown => 1 .. n \subseteq seen[s]) => Behind(q, seen)
<1>0. p \in Pollings
  BY DEF Sound
<1>1. CASE p.number[s] # Unknown
  <2>1. q = Loop(p, i, p.number[s] + 1, n, paus) /\ p.number[s] \in Int
    BY <1>0, <1>1 DEF Answered, Pollings
  <2>2. \A seen : Behind(p, seen) => 1 .. ((p.number[s] + 1) - 1) \subseteq seen[s]
    <3>1. (p.number[s] + 1) - 1 = p.number[s]
      BY <2>1
    <3> QED BY <3>1 DEF Behind
  <2>3. /\ Sound(q) /\ Apart(p, q, s) /\ Kept(p, q)
        /\ (q.poller[s] = NoTimer <=> p.poller[s] = NoTimer) /\ (Fed(p, s) => Fed(q, s))
        /\ \A seen : Behind(p, seen) /\ 1 .. ((p.number[s] + 1) - 1) \subseteq seen[s] => Behind(q, seen)
    <3>1. p.number[s] + 1 \in Int
      BY <2>1
    <3> QED BY <2>1, <3>1, LoopDoes
  <2> QED BY <1>1, <2>2, <2>3
<1>2. CASE p.number[s] = Unknown
  <2> DEFINE r == [p EXCEPT !.number = [p.number EXCEPT ![s] = n]]
  <2>1. q = EndPoll(r, i)
    BY <1>0, <1>2 DEF Answered, Pollings
  <2>2. /\ r.timers = p.timers /\ r.poller = p.poller /\ r.polls = p.polls
        /\ r.number = [p.number EXCEPT ![s] = n] /\ r \in Pollings
    BY <1>0 DEF Pollings
  <2> HIDE DEF r
  <2>3. \A t \in Subs : r.number[t] = IF t = s THEN n ELSE p.number[t]
    BY <1>0, <2>2 DEF Pollings
  <2>4. Sound(r) /\ r.polls[i].sub = s
    BY <2>2 DEF Sound
  <2>5. /\ Sound(q) /\ Apart(r, q, s)
        /\ q.timers = r.timers /\ q.poller = r.poller /\ q.number = r.number
        /\ q.polls[i] = Idle /\ \A j \in PollIds \ {i} : q.polls[j] = r.polls[j]
        /\ i \in PollsOf(r, s) /\ PollsOf(q, s) = PollsOf(r, s) \ {i}
    <3>1. Sound(r) /\ r.polls[i].sub = s /\ q = EndPoll(r, i)
      BY <2>1, <2>4
    <3>2. Sound(q) /\ Apart(r, q, s)
      BY <3>1, EndPollDoes
    <3>3. /\ q.timers = r.timers /\ q.poller = r.poller /\ q.number = r.number
          /\ q.polls[i] = Idle /\ \A j \in PollIds \ {i} : q.polls[j] = r.polls[j]
      BY <3>1, EndPollDoes
    <3>4. i \in PollsOf(r, s) /\ PollsOf(q, s) = PollsOf(r, s) \ {i}
      <4>1. Idle.sub # s
        BY Numbers DEF Idle
      <4> QED BY <3>1, <3>3, <4>1 DEF PollsOf
    <3> QED BY <3>2, <3>3, <3>4
  <2>6. Apart(p, r, s) /\ TimersOf(q, s) = TimersOf(p, s) /\ PollsOf(r, s) = PollsOf(p, s)
    BY <2>2, <2>3, <2>5 DEF Apart, TimersOf, PollsOf
  <2>7. Apart(p, q, s)
    BY <2>5, <2>6 DEF Apart
  <2>8. Idle.at = "idle"
    BY DEF Idle
  <2>9. Kept(p, q)
    BY <2>2, <2>5, <2>8 DEF Kept
  <2>10. \A seen : Behind(p, seen) /\ 1 .. n \subseteq seen[s] => Behind(q, seen)
    BY <2>2, <2>3, <2>5, <2>8 DEF Behind
  <2>11. Fed(p, s) => Fed(q, s)
    <3>1. q.number[s] # Unknown
      BY <2>3, <2>5 DEF Unknown
    <3>2. IsFiniteSet(PollsOf(p, s)) /\ i \in PollsOf(p, s)
      BY <2>5, <2>6, Countable
    <3>3. Cardinality(PollsOf(p, s) \ {i}) = Cardinality(PollsOf(p, s)) - 1
      BY <3>2, FS_RemoveElement
    <3>4. Cardinality(TimersOf(p, s)) \in Nat /\ Cardinality(PollsOf(p, s)) \in Nat
      BY Countable
    <3> QED BY <1>2, <2>2, <2>5, <2>6, <3>1, <3>3, <3>4 DEF Fed
  <2> QED BY <1>2, <2>2, <2>5, <2>7, <2>9, <2>10, <2>11
<1> QED BY <1>1, <1>2

\* A timer makes room for the poll it begins.
LEMMA FiredDoes ==
  ASSUME NEW p, Sound(p), NEW id \in TimerIds, Pending(p.timers[id]), FreePolls(p) # {},
         NEW q, q = TimerFires(p, id)
  PROVE  /\ Sound(q) /\ Kept(p, q) /\ NoFurther(p, q) /\ q.poller = p.poller
         /\ \A t \in Subs : Fed(p, t) => Fed(q, t)
<1> DEFINE s == p.timers[id].func
<1>0. s = p.timers[id].func
  OBVIOUS
<1> HIDE DEF s
<1>1. /\ s \in Subs /\ Sound(q) /\ Apart(p, q, s)
      /\ q.poller = p.poller /\ q.number = p.number
      /\ TimersOf(p, s) \ {id} \subseteq TimersOf(q, s)
  BY <1>0, TimerFiresDoes
<1>2. \E i \in PollIds :
        /\ p.polls[i] = Idle /\ q.polls[i].at = "fetch"
        /\ \A j \in PollIds \ {i} : q.polls[j] = p.polls[j]
        /\ i \notin PollsOf(p, s) /\ PollsOf(q, s) = PollsOf(p, s) \cup {i}
  BY <1>0, TimerFiresDoes
<1>3. PICK i \in PollIds :
        /\ p.polls[i] = Idle /\ q.polls[i].at = "fetch"
        /\ \A j \in PollIds \ {i} : q.polls[j] = p.polls[j]
        /\ i \notin PollsOf(p, s) /\ PollsOf(q, s) = PollsOf(p, s) \cup {i}
  BY <1>2
<1>4. Idle.at = "idle"
  BY DEF Idle
<1>5. Kept(p, q) /\ NoFurther(p, q)
  BY <1>1, <1>3, <1>4 DEF Kept, NoFurther, Behind
<1>6. Fed(p, s) => Fed(q, s)
  <2>1. Cardinality(PollsOf(q, s)) = Cardinality(PollsOf(p, s)) + 1
    <3>1. IsFiniteSet(PollsOf(p, s))
      BY Countable
    <3>2. Cardinality(PollsOf(p, s) \cup {i}) = Cardinality(PollsOf(p, s)) + 1
      BY <1>3, <3>1, FS_AddElement
    <3> QED BY <1>3, <3>2
  <2>2. Cardinality(TimersOf(q, s)) >= Cardinality(TimersOf(p, s)) - 1
    <3>1. IsFiniteSet(TimersOf(p, s)) /\ IsFiniteSet(TimersOf(q, s))
      BY Countable
    <3>2. Cardinality(TimersOf(p, s) \ {id}) >= Cardinality(TimersOf(p, s)) - 1
      <4>1. Cardinality(TimersOf(p, s)) \in Nat
        BY <3>1, FS_CardinalityType
      <4>2. CASE id \in TimersOf(p, s)
        <5>1. Cardinality(TimersOf(p, s) \ {id}) = Cardinality(TimersOf(p, s)) - 1
          BY <3>1, <4>2, FS_RemoveElement
        <5> QED BY <4>1, <5>1
      <4>3. CASE id \notin TimersOf(p, s)
        <5>1. TimersOf(p, s) \ {id} = TimersOf(p, s)
          BY <4>3
        <5> QED BY <4>1, <5>1
      <4> QED BY <4>2, <4>3
    <3>3. Cardinality(TimersOf(p, s) \ {id}) <= Cardinality(TimersOf(q, s))
      BY <1>1, <3>1, FS_Subset
    <3>4. /\ IsFiniteSet(TimersOf(p, s) \ {id}) /\ Cardinality(TimersOf(p, s) \ {id}) \in Nat
          /\ Cardinality(TimersOf(p, s)) \in Nat /\ Cardinality(TimersOf(q, s)) \in Nat
      BY <3>1, FS_Subset, FS_CardinalityType
    <3> QED BY <3>2, <3>3, <3>4
  <2>3. /\ Cardinality(TimersOf(p, s)) \in Nat /\ Cardinality(PollsOf(p, s)) \in Nat
        /\ Cardinality(TimersOf(q, s)) \in Nat
    BY Countable
  <2> QED BY <1>1, <2>1, <2>2, <2>3 DEF Fed
<1>7. \A t \in Subs \ {s} : Fed(p, t) => Fed(q, t)
  BY <1>1, StillFed
<1> QED BY <1>1, <1>5, <1>6, <1>7

-----------------------------------------------------------------------------
(* The calls that wait and the subscription they are about *)

LEMMA HeadAndTail ==
  ASSUME NEW S, NEW seq \in Seq(S), seq # <<>>
  PROVE  /\ 1 \in DOMAIN seq /\ Head(seq) = seq[1] /\ seq[1] \in S
         /\ Tail(seq) \in Seq(S)
         /\ \A i \in DOMAIN Tail(seq) : i \in Nat /\ i + 1 \in DOMAIN seq /\ Tail(seq)[i] = seq[i + 1]
<1>1. Len(seq) \in Nat /\ Len(seq) >= 1 /\ DOMAIN seq = 1 .. Len(seq) /\ seq[1] \in S
  BY EmptySeq, LenProperties
<1>2. Tail(seq) \in Seq(S) /\ DOMAIN Tail(seq) = 1 .. (Len(seq) - 1)
  BY <1>1, HeadTailProperties
<1>3. \A i \in 1 .. (Len(seq) - 1) : Tail(seq)[i] = seq[i + 1]
  BY <1>1, HeadTailProperties
<1> QED BY <1>1, <1>2, <1>3

LEMMA Appended ==
  ASSUME NEW S, NEW seq \in Seq(S), NEW x \in S
  PROVE  /\ Append(seq, x) \in Seq(S) /\ DOMAIN seq = 1 .. Len(seq) /\ Len(seq) \in Nat
         /\ DOMAIN Append(seq, x) = 1 .. (Len(seq) + 1)
         /\ \A i \in DOMAIN seq : Append(seq, x)[i] = seq[i]
         /\ Append(seq, x)[Len(seq) + 1] = x
BY AppendProperties, LenProperties

\* The calls keep to CallsInv while the polls they wait for stay in their emit.
LEMMA CallsSame ==
  ASSUME CallsInv, calls' = calls, Kept(polling, polling')
  PROVE  CallsInv'
BY DEF CallsInv, Kept

LEMMA CallsContinue ==
  ASSUME CallsInv, calls # <<>>, calls' = Tail(calls),
         \A i \in PollIds : polling.polls[i].at = "emit" /\ ~(Call.op = "emit" /\ Call.listener = i)
                              => polling'.polls[i].at = "emit"
  PROVE  CallsInv'
<1>1. /\ 1 \in DOMAIN calls /\ Call = calls[1] /\ Tail(calls) \in Seq(CallRows)
      /\ \A i \in DOMAIN Tail(calls) : i \in Nat /\ i + 1 \in DOMAIN calls /\ Tail(calls)[i] = calls[i + 1]
  <2>1. calls \in Seq(CallRows)
    BY DEF CallsInv
  <2> QED BY <2>1, HeadAndTail DEF Call
<1>2. ASSUME NEW i \in DOMAIN calls'
      PROVE  /\ calls'[i].op \in {"on", "once"} => calls'[i].sub \in Subs
             /\ calls'[i].op = "emit" =>
                  /\ calls'[i].listener \in PollIds
                  /\ polling'.polls[calls'[i].listener].at = "emit"
                  /\ \A j \in DOMAIN calls' :
                       calls'[j].op = "emit" /\ calls'[j].listener = calls'[i].listener => i = j
  <2>1. i \in Nat /\ i + 1 \in DOMAIN calls /\ calls'[i] = calls[i + 1] /\ i + 1 # 1
    <3>1. i \in DOMAIN Tail(calls)
      OBVIOUS
    <3>2. i \in Nat /\ i + 1 \in DOMAIN calls /\ calls'[i] = calls[i + 1]
      BY <1>1, <3>1
    <3>3. i # 0
      BY <3>2, <1>1 DEF CallsInv
    <3> QED BY <3>2, <3>3
  <2>2. calls[i + 1].op = "emit" => ~(calls[1].op = "emit" /\ calls[1].listener = calls[i + 1].listener)
    BY <1>1, <2>1 DEF CallsInv
  <2>3. calls'[i].op = "emit" => calls'[i].listener \in PollIds /\ polling'.polls[calls'[i].listener].at = "emit"
    BY <1>1, <2>1, <2>2 DEF CallsInv
  <2>4. ASSUME calls'[i].op = "emit", NEW j \in DOMAIN calls',
               calls'[j].op = "emit", calls'[j].listener = calls'[i].listener
        PROVE  i = j
    <3>1. j \in DOMAIN Tail(calls)
      OBVIOUS
    <3>2. j \in Nat /\ j + 1 \in DOMAIN calls /\ calls'[j] = calls[j + 1]
      BY <1>1, <3>1
    <3>3. i + 1 = j + 1
      BY <2>1, <2>4, <3>2 DEF CallsInv
    <3> QED BY <2>1, <3>2, <3>3
  <2> QED BY <2>1, <2>3, <2>4 DEF CallsInv
<1> QED BY <1>1, <1>2 DEF CallsInv

LEMMA CallsAppend ==
  ASSUME CallsInv, NEW row \in CallRows, calls' = Append(calls, row),
         row.op \in {"on", "once"} => row.sub \in Subs,
         row.op = "emit" =>
           /\ row.listener \in PollIds /\ polling.polls[row.listener].at # "emit"
           /\ polling'.polls[row.listener].at = "emit",
         \A i \in PollIds : polling.polls[i].at = "emit" => polling'.polls[i].at = "emit"
  PROVE  CallsInv'
<1> DEFINE n == Len(calls) + 1
<1>1. /\ calls' \in Seq(CallRows) /\ DOMAIN calls = 1 .. Len(calls) /\ Len(calls) \in Nat
      /\ DOMAIN calls' = 1 .. n /\ calls'[n] = row
      /\ \A i \in DOMAIN calls : calls'[i] = calls[i]
  <2>1. calls \in Seq(CallRows)
    BY DEF CallsInv
  <2> QED BY <2>1, Appended
<1>2. \A i \in DOMAIN calls' : i \in DOMAIN calls \/ i = n
  BY <1>1
<1>3. \A i \in DOMAIN calls : n # i
  BY <1>1
<1> HIDE DEF n
<1>4. \A i \in DOMAIN calls' : calls'[i].op \in {"on", "once"} => calls'[i].sub \in Subs
  BY <1>1, <1>2 DEF CallsInv
<1>5. \A i \in DOMAIN calls' : calls'[i].op = "emit" =>
        calls'[i].listener \in PollIds /\ polling'.polls[calls'[i].listener].at = "emit"
  BY <1>1, <1>2 DEF CallsInv
<1>6. \A i, j \in DOMAIN calls' :
        calls'[i].op = "emit" /\ calls'[j].op = "emit" /\ calls'[j].listener = calls'[i].listener => i = j
  BY <1>1, <1>2, <1>3 DEF CallsInv
<1> QED BY <1>1, <1>4, <1>5, <1>6 DEF CallsInv

LEMMA QueueAppend ==
  ASSUME CallsInv, QueueInv, NEW row \in CallRows, calls' = Append(calls, row), row.sub \in {current, NoSub},
         UNCHANGED <<current, started>>
  PROVE  QueueInv'
<1>1. /\ DOMAIN calls = 1 .. Len(calls) /\ Len(calls) \in Nat
      /\ DOMAIN calls' = 1 .. Len(calls) + 1 /\ calls'[Len(calls) + 1] = row
      /\ \A i \in DOMAIN calls : calls'[i] = calls[i]
  <2>1. calls \in Seq(CallRows)
    BY DEF CallsInv
  <2> QED BY <2>1, Appended
<1>2. \A i, j \in DOMAIN calls' : i < j => i \in DOMAIN calls /\ (j \in DOMAIN calls \/ calls'[j] = row)
  BY <1>1
<1>3. \A i \in DOMAIN calls' : i \in DOMAIN calls \/ calls'[i] = row
  BY <1>1
<1> QED BY <1>1, <1>2, <1>3 DEF QueueInv

LEMMA QueueContinue ==
  ASSUME CallsInv, QueueInv, calls # <<>>, calls' = Tail(calls), current' \in {current, NoSub},
         \A s \in Subs : started'[s] => started[s] \/ s = Call.sub, current \in Subs \cup {NoSub}
  PROVE  QueueInv'
<1>1. /\ 1 \in DOMAIN calls /\ Call = calls[1] /\ DOMAIN calls \subseteq Nat
      /\ \A i \in DOMAIN calls' : i \in Nat /\ i + 1 \in DOMAIN calls /\ calls'[i] = calls[i + 1]
  <2>1. calls \in Seq(CallRows)
    BY DEF CallsInv
  <2> QED BY <2>1, HeadAndTail, LenProperties DEF Call
<1>2. \A i, j \in DOMAIN calls' : i < j => i + 1 < j + 1
  BY <1>1
<1>3. \A i \in DOMAIN calls' : 1 < i + 1
  <2>1. \A i \in DOMAIN calls' : i # 0
    <3>1. Tail(calls) \in Seq(CallRows)
      BY HeadAndTail DEF CallsInv
    <3> QED BY <3>1, LenProperties
  <2> QED BY <1>1, <2>1
<1>4. CASE current' # NoSub
  <2>1. current' = current /\ current \in Subs
    BY <1>4
  <2>2. \A i, j \in DOMAIN calls' : calls'[i].sub = current /\ i < j => calls'[j].sub \in {current, NoSub}
    BY <1>1, <1>2, <2>1, <1>4 DEF QueueInv
  <2>3. started'[current] => \A i \in DOMAIN calls' : calls'[i].sub \in {current, NoSub}
    <3>1. CASE started[current]
      BY <1>1, <1>4, <2>1, <3>1 DEF QueueInv
    <3>2. CASE current = Call.sub
      BY <1>1, <1>3, <1>4, <2>1, <3>2 DEF QueueInv
    <3> QED BY <2>1, <3>1, <3>2
  <2> QED BY <2>1, <2>2, <2>3 DEF QueueInv
<1> QED BY <1>4 DEF QueueInv

-----------------------------------------------------------------------------
(* Each step *)

LEMMA InitHolds == Init => EventsInv
<1> SUFFICES ASSUME Init PROVE EventsInv
  OBVIOUS
<1>1. NoRow \in TimerRows /\ ~NoRow.armed /\ ~Alive(NoRow)
  BY DEF NoRow, TimerRows, Alive, Pending
<1>2. Idle \in PollRows /\ Idle.at = "idle" /\ Idle.last = 0
  BY DEF Idle, PollRows
<1>3. /\ polling.timers = [id \in TimerIds |-> NoRow] /\ polling.poller = [s \in Subs |-> NoTimer]
      /\ polling.number = [s \in Subs |-> Unknown] /\ polling.polls = [i \in PollIds |-> Idle]
      /\ polling \in Pollings
  BY <1>1, <1>2 DEF Init, NoPolling, NoTimers, Pollings, Unknown
<1>4. Sound(polling)
  BY <1>1, <1>2, <1>3 DEF Sound
<1>5. 1 .. Unknown = {}
  BY DEF Unknown
<1>6. Behind(polling, passed)
  BY <1>2, <1>3, <1>5 DEF Behind
<1>7. CallsInv
  BY DEF Init, CallsInv
<1>8. TagTypes
  BY DEF Init, TagTypes
<1>9. QueueInv /\ ServedInv
  BY <1>3, EventAssumption DEF Init, QueueInv, ServedInv
<1>10. PollingNeverDies
  BY DEF Init, PollingNeverDies
<1> QED BY <1>4, <1>6, <1>7, <1>8, <1>9, <1>10 DEF EventsInv

LEMMA LookUpStep ==
  ASSUME EventsInv, NEW op, NEW l \in Listeners, LookUp(op, l)
  PROVE  EventsInv'
<1>0. /\ Sound(polling) /\ Behind(polling, passed) /\ CallsInv /\ TagTypes /\ QueueInv /\ ServedInv
      /\ PollingNeverDies
  BY DEF EventsInv
<1>1. PICK s \in Subs :
        /\ IF current # NoSub THEN s = current ELSE Fresh(s)
        /\ current' = s /\ calls' = Append(calls, [op |-> op, listener |-> l, sub |-> s])
        /\ op \in {"on", "once", "removeAll"}
        /\ UNCHANGED <<listeners, started, pausedState, polling, history>>
  BY DEF LookUp, Enqueue
<1> DEFINE row == [op |-> op, listener |-> l, sub |-> s]
<1>2. row \in CallRows /\ row.op # "emit" /\ row.sub = s
  BY <1>1 DEF CallRows
<1>3. UNCHANGED <<listeners, started, pausedState, polling, passed, loose>> /\ calls' = Append(calls, row)
  BY <1>1 DEF history
<1> HIDE DEF row
<1>4. CallsInv'
  BY <1>0, <1>1, <1>2, <1>3, CallsAppend
<1>5. Sound(polling)' /\ Behind(polling, passed)'
  BY <1>0, <1>3
<1>6. TagTypes'
  BY <1>0, <1>1, <1>3 DEF TagTypes
<1>7. CASE current # NoSub
  <2>1. current' = current /\ row.sub = current
    BY <1>1, <1>2, <1>7
  <2>2. QueueInv'
    BY <1>0, <1>2, <1>3, <2>1, QueueAppend
  <2>3. ServedInv' /\ PollingNeverDies'
    BY <1>0, <1>3, <2>1 DEF ServedInv, PollingNeverDies, paused
  <2> QED BY <1>4, <1>5, <1>6, <2>2, <2>3 DEF EventsInv
<1>8. CASE current = NoSub
  <2>1. Fresh(s) /\ current' = s
    BY <1>1, <1>8
  <2>2. listeners[s] = <<>> /\ ~started[s] /\ s \notin loose /\ \A i \in DOMAIN calls : calls[i].sub # s
    BY <2>1 DEF Fresh
  <2>3. polling.poller[s] = NoTimer
    BY <1>0, <2>2 DEF ServedInv
  <2>4. QueueInv'
    <3>1. /\ DOMAIN calls = 1 .. Len(calls) /\ Len(calls) \in Nat
          /\ DOMAIN calls' = 1 .. Len(calls) + 1
          /\ \A i \in DOMAIN calls : calls'[i] = calls[i]
      <4>1. calls \in Seq(CallRows)
        BY <1>0 DEF CallsInv
      <4> QED BY <1>2, <1>3, <4>1, Appended
    <3>2. \A i, j \in DOMAIN calls' : i < j => i \in DOMAIN calls
      BY <3>1
    <3>3. \A i, j \in DOMAIN calls' : calls'[i].sub = current' /\ i < j => FALSE
      BY <2>1, <2>2, <3>1, <3>2
    <3>4. ~started'[current']
      BY <1>3, <2>1, <2>2
    <3> QED BY <3>3, <3>4 DEF QueueInv
  <2>5. ServedInv'
    <3>1. \A t \in Subs : polling.poller[t] # NoTimer => t \in loose
      BY <1>0, <1>8, EventAssumption DEF ServedInv
    <3> QED BY <1>3, <2>1, <2>2, <3>1 DEF ServedInv
  <2>6. PollingNeverDies'
    BY <1>3, <2>1, <2>3 DEF PollingNeverDies, Fed
  <2> QED BY <1>4, <1>5, <1>6, <2>4, <2>5, <2>6 DEF EventsInv
<1> QED BY <1>7, <1>8

LEMMA LookUpOnlyStep ==
  ASSUME EventsInv, NEW op, NEW l \in Listeners, LookUpOnly(op, l)
  PROVE  EventsInv'
<1>0. /\ Sound(polling) /\ Behind(polling, passed) /\ CallsInv /\ TagTypes /\ QueueInv /\ ServedInv
      /\ PollingNeverDies
  BY DEF EventsInv
<1> DEFINE row == [op |-> op, listener |-> l, sub |-> current]
<1>1. /\ UNCHANGED <<current, listeners, started, pausedState, polling, passed, loose>>
      /\ op \in {"off", "offAll"} /\ calls' = Append(calls, row)
  BY DEF LookUpOnly, Enqueue, history
<1>2. row \in CallRows /\ row.op \notin {"on", "once", "emit"} /\ row.sub = current
  BY <1>0, <1>1 DEF CallRows, TagTypes
<1> HIDE DEF row
<1>3. CallsInv'
  BY <1>0, <1>1, <1>2, CallsAppend
<1>4. QueueInv'
  BY <1>0, <1>1, <1>2, QueueAppend
<1>5. Sound(polling)' /\ Behind(polling, passed)' /\ TagTypes'
  BY <1>0, <1>1 DEF TagTypes
<1>6. ServedInv' /\ PollingNeverDies'
  BY <1>0, <1>1 DEF ServedInv, PollingNeverDies, paused
<1> QED BY <1>3, <1>4, <1>5, <1>6 DEF EventsInv

\* The await of a poll moves on.
LEMMA MoveDoes ==
  ASSUME NEW p, Sound(p), NEW i \in PollIds, p.polls[i].at # "idle", NEW at \in {"emit", "check"},
         NEW q, q = [p EXCEPT !.polls[i].at = at]
  PROVE  /\ Sound(q) /\ q.poller = p.poller /\ q.number = p.number
         /\ q.polls[i].at = at /\ q.polls[i].sub = p.polls[i].sub /\ q.polls[i].next = p.polls[i].next
         /\ \A j \in PollIds \ {i} : q.polls[j] = p.polls[j]
         /\ \A s : Fed(p, s) => Fed(q, s)
<1>0. p \in Pollings
  BY DEF Sound
<1> DEFINE poll == [p.polls[i] EXCEPT !.at = at]
<1>1. p.polls[i] \in PollRows
  BY <1>0 DEF Pollings
<1>2. /\ poll \in PollRows /\ poll.at = at /\ poll.sub = p.polls[i].sub
      /\ poll.next = p.polls[i].next /\ poll.last = p.polls[i].last
  BY <1>1 DEF PollRows
<1>3. q = [p EXCEPT !.polls = [p.polls EXCEPT ![i] = poll]]
  BY <1>0 DEF Pollings
<1> HIDE DEF poll
<1>4. /\ q.timers = p.timers /\ q.poller = p.poller /\ q.number = p.number
      /\ q.polls = [p.polls EXCEPT ![i] = poll] /\ q \in Pollings
  BY <1>0, <1>2, <1>3 DEF Pollings
<1>5. \A j \in PollIds : q.polls[j] = IF j = i THEN poll ELSE p.polls[j]
  BY <1>0, <1>4 DEF Pollings
<1>6. Idle.at = "idle"
  BY DEF Idle
<1>7. Sound(q)
  BY <1>2, <1>4, <1>5, <1>6 DEF Sound
<1>8. \A s : TimersOf(q, s) = TimersOf(p, s) /\ PollsOf(q, s) = PollsOf(p, s)
  BY <1>2, <1>4, <1>5 DEF TimersOf, PollsOf
<1> QED BY <1>2, <1>4, <1>5, <1>7, <1>8 DEF Fed

LEMMA LookUpEmitStep ==
  ASSUME EventsInv, NEW i \in PollIds, LookUpEmit(i)
  PROVE  EventsInv'
<1>0. /\ Sound(polling) /\ Behind(polling, passed) /\ CallsInv /\ TagTypes /\ QueueInv /\ ServedInv
      /\ PollingNeverDies
  BY DEF EventsInv
<1> DEFINE poll == polling.polls[i]
           row == [op |-> "emit", listener |-> i, sub |-> current]
<1>1. /\ poll.at = "call" /\ polling' = [polling EXCEPT !.polls[i].at = "emit"]
      /\ calls' = Append(calls, row)
      /\ passed' = [passed EXCEPT ![poll.sub] = passed[poll.sub] \cup {poll.next}]
      /\ UNCHANGED <<current, listeners, started, pausedState, loose>>
  BY DEF LookUpEmit, Enqueue
<1>2. row \in CallRows /\ row.op = "emit" /\ row.listener = i /\ row.sub = current
  BY <1>0 DEF CallRows, TagTypes
<1> HIDE DEF row
<1>3. /\ Sound(polling') /\ polling'.poller = polling.poller /\ polling'.number = polling.number
      /\ polling'.polls[i].at = "emit" /\ polling'.polls[i].sub = poll.sub /\ polling'.polls[i].next = poll.next
      /\ \A j \in PollIds \ {i} : polling'.polls[j] = polling.polls[j]
      /\ \A s : Fed(polling, s) => Fed(polling', s)
  BY <1>0, <1>1, MoveDoes
<1>4. poll.sub \in Subs /\ poll.next \in Int
  BY <1>0, <1>1 DEF Sound, Pollings, PollRows
<1>5. /\ passed' \in [Subs -> SUBSET Int]
      /\ \A s \in Subs : passed'[s] = IF s = poll.sub THEN passed[s] \cup {poll.next} ELSE passed[s]
  BY <1>0, <1>1, <1>4 DEF TagTypes
<1>6. Behind(polling', passed')
  <2>1. 1 .. (poll.next - 1) \subseteq passed[poll.sub]
    BY <1>0, <1>1 DEF Behind
  <2>2. 1 .. poll.next \subseteq passed'[poll.sub]
    BY <1>4, <1>5, <2>1
  <2>3. \A s \in Subs : passed[s] \subseteq passed'[s]
    BY <1>5
  <2>4. \A j \in PollIds : polling.polls[j].at # "idle" => polling.polls[j].sub \in Subs
    BY <1>0 DEF Sound, Pollings, PollRows
  <2>5. \A s \in Subs : 1 .. polling'.number[s] \subseteq passed'[s]
    BY <1>0, <1>3, <2>3 DEF Behind
  <2>6. ASSUME NEW j \in PollIds
        PROVE  /\ polling'.polls[j].at = "call" =>
                    1 .. (polling'.polls[j].next - 1) \subseteq passed'[polling'.polls[j].sub]
               /\ polling'.polls[j].at \in {"emit", "check"} =>
                    1 .. polling'.polls[j].next \subseteq passed'[polling'.polls[j].sub]
    <3>1. CASE j = i
      BY <1>3, <2>2, <3>1
    <3>2. CASE j # i
      BY <1>0, <1>3, <2>3, <2>4, <3>2 DEF Behind
    <3> QED BY <3>1, <3>2
  <2> QED BY <2>5, <2>6 DEF Behind
<1>7. CallsInv'
  <2>1. polling.polls[row.listener].at # "emit" /\ polling'.polls[row.listener].at = "emit"
    BY <1>1, <1>2, <1>3
  <2>2. \A j \in PollIds : polling.polls[j].at = "emit" => polling'.polls[j].at = "emit"
    BY <1>3
  <2> QED BY <1>0, <1>1, <1>2, <2>1, <2>2, CallsAppend
<1>8. QueueInv'
  BY <1>0, <1>1, <1>2, QueueAppend
<1>9. TagTypes' /\ ServedInv' /\ PollingNeverDies'
  BY <1>0, <1>1, <1>3, <1>5 DEF TagTypes, ServedInv, PollingNeverDies, paused
<1> QED BY <1>3, <1>6, <1>7, <1>8, <1>9 DEF EventsInv

LEMMA RegisterStep ==
  ASSUME EventsInv, Register
  PROVE  EventsInv'
<1>0. /\ Sound(polling) /\ Behind(polling, passed) /\ CallsInv /\ TagTypes /\ QueueInv /\ ServedInv
      /\ PollingNeverDies
  BY DEF EventsInv
<1> DEFINE s == Call.sub
           entry == [listener |-> Call.listener, once |-> Call.op = "once"]
           running == Start(polling, s, paused)
<1>1. /\ calls # <<>> /\ Call.op \in {"on", "once"} /\ calls' = Tail(calls)
      /\ listeners' = [listeners EXCEPT ![s] = Append(listeners[s], entry)]
      /\ loose' = IF s = current THEN loose ELSE loose \cup {s}
      /\ UNCHANGED <<current, pausedState, budget, passed>>
  BY DEF Register, Continue
<1>2. IF started[s] THEN UNCHANGED <<started, polling>>
      ELSE /\ polling.poller[s] = NoTimer => Room(polling)
           /\ started' = [started EXCEPT ![s] = TRUE]
           /\ polling' = IF paused THEN Pause(running, s, pausedState = "drop") ELSE running
  BY DEF Register
<1>3. s \in Subs
  <2>1. 1 \in DOMAIN calls /\ Call = calls[1]
    BY <1>0, <1>1, HeadAndTail DEF CallsInv, Call
  <2> QED BY <1>0, <1>1, <2>1 DEF CallsInv
<1> HIDE DEF s, entry
<1>4. /\ Sound(polling') /\ Apart(polling, polling', s) /\ Kept(polling, polling') /\ NoFurther(polling, polling')
      /\ ~started[s] /\ ~paused => polling'.poller[s] # NoTimer
      /\ Fed(polling, s) => Fed(polling', s)
  <2>1. CASE started[s]
    BY <1>0, <1>2, <2>1 DEF Apart, Kept, NoFurther
  <2>2. CASE ~started[s]
    <3>1. paused \in BOOLEAN /\ (pausedState = "drop") \in BOOLEAN
      BY DEF paused
    <3>2. /\ Sound(running) /\ Apart(polling, running, s) /\ Kept(polling, running) /\ NoFurther(polling, running)
          /\ running.poller[s] # NoTimer /\ (Fed(polling, s) => Fed(running, s))
      BY <1>0, <1>2, <1>3, <2>2, <3>1, StartDoes
    <3>3. CASE ~paused
      BY <1>2, <2>2, <3>2, <3>3
    <3>4. CASE paused
      <4> HIDE DEF running
      <4>1. polling' = Pause(running, s, pausedState = "drop")
        BY <1>2, <2>2, <3>4 DEF running
      <4>2. /\ Sound(polling') /\ Apart(running, polling', s) /\ Kept(running, polling')
            /\ NoFurther(running, polling') /\ polling'.poller[s] = NoTimer
        BY <1>3, <3>1, <3>2, <4>1, PauseDoes
      <4>3. Apart(polling, polling', s)
        BY <3>2, <4>2 DEF Apart
      <4>4. Kept(polling, polling') /\ NoFurther(polling, polling')
        BY <3>2, <4>2 DEF Kept, NoFurther
      <4> QED BY <3>4, <4>2, <4>3, <4>4 DEF Fed
    <3> QED BY <3>3, <3>4
  <2> QED BY <2>1, <2>2
<1>5. started' \in [Subs -> BOOLEAN] /\ started'[s] /\ \A t \in Subs \ {s} : started'[t] = started[t]
  BY <1>0, <1>2, <1>3 DEF TagTypes
<1>6. CallsInv'
  BY <1>0, <1>1, <1>4, CallsContinue DEF Kept
<1>7. QueueInv'
  <2>1. \A t \in Subs : started'[t] => started[t] \/ t = Call.sub
    BY <1>5 DEF s
  <2> QED BY <1>0, <1>1, <2>1, QueueContinue DEF TagTypes
<1>8. TagTypes'
  BY <1>0, <1>1, <1>5 DEF TagTypes
<1>9. ServedInv'
  <2>1. ASSUME current # NoSub
        PROVE  /\ started'[current] => paused \/ polling'.poller[current] # NoTimer
               /\ listeners'[current] # <<>> => started'[current]
    <3>1. CASE current = s
      <4>1. started[s] => polling' = polling
        BY <1>2 DEF s
      <4> QED BY <1>0, <1>4, <1>5, <2>1, <3>1, <4>1 DEF ServedInv
    <3>2. CASE current # s
      <4>1. current \in Subs \ {s} /\ listeners'[current] = listeners[current]
        BY <1>0, <1>1, <2>1, <3>2 DEF TagTypes
      <4>2. polling'.poller[current] = polling.poller[current] /\ started'[current] = started[current]
        BY <1>4, <1>5, <4>1 DEF Apart
      <4> QED BY <1>0, <2>1, <4>1, <4>2 DEF ServedInv
    <3> QED BY <3>1, <3>2
  <2>2. ASSUME NEW t \in Subs, polling'.poller[t] # NoTimer
        PROVE  (started'[t] \/ t \in loose') /\ (t = current \/ t \in loose')
    <3>1. CASE t = s
      BY <1>1, <1>5, <3>1
    <3>2. CASE t # s
      <4>1. polling.poller[t] # NoTimer
        BY <1>4, <2>2, <3>2 DEF Apart
      <4> QED BY <1>0, <1>1, <1>5, <3>2, <4>1 DEF ServedInv
    <3> QED BY <3>1, <3>2
  <2> QED BY <1>1, <2>1, <2>2 DEF ServedInv, paused
<1>10. PollingNeverDies'
  <2>1. ASSUME current # NoSub PROVE Fed(polling', current)
    <3>1. current \in Subs /\ Fed(polling, current)
      BY <1>0, <2>1 DEF TagTypes, PollingNeverDies
    <3> QED BY <1>4, <3>1, StillFed
  <2> QED BY <1>1, <2>1 DEF PollingNeverDies
<1>11. Behind(polling, passed)'
  BY <1>0, <1>1, <1>4 DEF NoFurther
<1> QED BY <1>4, <1>6, <1>7, <1>8, <1>9, <1>10, <1>11 DEF EventsInv

\* Dropping a subscription stops the current one if that is another that was started.
LEMMA DropDoes ==
  ASSUME Sound(polling), ServedInv, NEW p, Sound(p), p.poller = polling.poller, NEW s \in Subs,
         current # NoSub /\ started[current] => s = current, Drop(s, p)
  PROVE  /\ current' = NoSub /\ Sound(polling') /\ Kept(p, polling') /\ NoFurther(p, polling')
         /\ \A t \in Subs : polling'.poller[t] # NoTimer => t \in loose
<1>1. current' = NoSub /\ polling' = IF started[s] THEN Stop(p, s) ELSE p
  BY DEF Drop
<1>2. \A t \in Subs : polling.poller[t] # NoTimer /\ t \notin loose => t = s /\ started[s]
  BY EventAssumption DEF ServedInv
<1>3. CASE started[s]
  <2>1. /\ Sound(polling') /\ Apart(p, polling', s) /\ Kept(p, polling') /\ NoFurther(p, polling')
        /\ polling'.poller[s] = NoTimer
    BY <1>1, <1>3, StopQuietly
  <2>2. \A t \in Subs : polling'.poller[t] # NoTimer => polling.poller[t] # NoTimer /\ t # s
    BY <2>1 DEF Apart
  <2> QED BY <1>1, <1>2, <2>1, <2>2
<1>4. CASE ~started[s]
  BY <1>1, <1>2, <1>4 DEF Kept, NoFurther
<1> QED BY <1>3, <1>4

\* With nothing under the tag, what runs must be loose.
LEMMA Untagged ==
  ASSUME current' = NoSub, \A t \in Subs : polling'.poller[t] # NoTimer => t \in loose, loose' = loose
  PROVE  QueueInv' /\ ServedInv' /\ PollingNeverDies'
BY DEF QueueInv, ServedInv, PollingNeverDies

\* A call drops what it looked up, or finds that nothing was there.
LEMMA AboutCurrent ==
  ASSUME CallsInv, QueueInv, calls # <<>>, Call.sub # NoSub, current # NoSub /\ started[current]
  PROVE  Call.sub = current
<1>1. 1 \in DOMAIN calls /\ Call = calls[1]
  BY HeadAndTail DEF CallsInv, Call
<1> QED BY <1>1 DEF QueueInv

LEMMA CallTypes ==
  ASSUME CallsInv, calls # <<>>
  PROVE  /\ Call.sub \in Subs \cup {NoSub}
         /\ Call.op = "emit" => Call.listener \in PollIds /\ polling.polls[Call.listener].at = "emit"
<1>1. 1 \in DOMAIN calls /\ Call = calls[1] /\ calls[1] \in CallRows
  BY HeadAndTail DEF CallsInv, Call
<1> QED BY <1>1 DEF CallsInv, CallRows

LEMMA EmitStep ==
  ASSUME EventsInv, Emit
  PROVE  EventsInv'
<1>0. /\ Sound(polling) /\ Behind(polling, passed) /\ CallsInv /\ TagTypes /\ QueueInv /\ ServedInv
      /\ PollingNeverDies
  BY DEF EventsInv
<1> DEFINE s == Call.sub
           i == Call.listener
           kept == SelectSeq(listeners[s], LAMBDA x : ~x.once)
           p == [polling EXCEPT !.polls[i].at = "check"]
<1>1. /\ calls # <<>> /\ Call.op = "emit" /\ calls' = Tail(calls)
      /\ UNCHANGED <<started, pausedState, budget, passed, loose>>
  BY DEF Emit, Continue, history
<1>2. IF s = NoSub \/ listeners[s] = <<>>
      THEN polling' = p /\ UNCHANGED <<current, listeners>>
      ELSE /\ listeners' = [listeners EXCEPT ![s] = kept]
           /\ IF kept = <<>> THEN Drop(s, p) ELSE polling' = p /\ UNCHANGED current
  BY DEF Emit
<1>3. s \in Subs \cup {NoSub} /\ i \in PollIds /\ polling.polls[i].at = "emit"
  BY <1>0, <1>1, CallTypes
<1>4. current # NoSub /\ started[current] /\ s # NoSub => s = current
  BY <1>0, <1>1, AboutCurrent
<1> HIDE DEF p, kept
<1>5. /\ Sound(p) /\ p.poller = polling.poller /\ p.number = polling.number
      /\ p.polls[i].at = "check" /\ p.polls[i].sub = polling.polls[i].sub /\ p.polls[i].next = polling.polls[i].next
      /\ \A j \in PollIds \ {i} : p.polls[j] = polling.polls[j]
      /\ \A t : Fed(polling, t) => Fed(p, t)
  BY <1>0, <1>3, MoveDoes DEF p
<1>6. Behind(p, passed)
  BY <1>0, <1>3, <1>5 DEF Behind
<1>7. DOMAIN listeners' = Subs
  BY <1>0, <1>2 DEF TagTypes
<1>8. CASE polling' = p /\ UNCHANGED current
  <2>1. CallsInv'
    BY <1>0, <1>1, <1>5, <1>8, CallsContinue
  <2>2. QueueInv'
    BY <1>0, <1>1, <1>8, QueueContinue DEF TagTypes
  <2>3. TagTypes'
    BY <1>0, <1>1, <1>7, <1>8 DEF TagTypes
  <2>4. current # NoSub /\ listeners'[current] # <<>> => listeners[current] # <<>>
    BY <1>0, <1>2 DEF TagTypes, Drop
  <2>5. ServedInv' /\ PollingNeverDies'
    BY <1>0, <1>1, <1>5, <1>8, <2>4 DEF ServedInv, PollingNeverDies, paused
  <2> QED BY <1>1, <1>5, <1>6, <1>8, <2>1, <2>2, <2>3, <2>5 DEF EventsInv
<1>9. CASE s \in Subs /\ Drop(s, p)
  <2>1. /\ current' = NoSub /\ Sound(polling') /\ Kept(p, polling') /\ NoFurther(p, polling')
        /\ \A t \in Subs : polling'.poller[t] # NoTimer => t \in loose
    <3>1. current # NoSub /\ started[current] => s = current
      BY <1>4, <1>9, EventAssumption
    <3> QED BY <1>0, <1>5, <1>9, <3>1, DropDoes
  <2>2. CallsInv'
    <3>1. \A j \in PollIds \ {i} : polling.polls[j].at = "emit" => polling'.polls[j].at = "emit"
      BY <1>5, <2>1 DEF Kept
    <3> QED BY <1>0, <1>1, <3>1, CallsContinue
  <2>3. QueueInv' /\ ServedInv' /\ PollingNeverDies'
    BY <1>1, <2>1, Untagged
  <2>4. TagTypes'
    BY <1>0, <1>1, <1>7, <2>1 DEF TagTypes
  <2>5. Behind(polling', passed')
    BY <1>1, <1>6, <2>1 DEF NoFurther
  <2> QED BY <2>1, <2>2, <2>3, <2>4, <2>5 DEF EventsInv
<1> QED BY <1>2, <1>3, <1>8, <1>9

LEMMA OffStep ==
  ASSUME EventsInv, Off \/ OffAll \/ RemoveAll
  PROVE  EventsInv'
<1>0. /\ Sound(polling) /\ Behind(polling, passed) /\ CallsInv /\ TagTypes /\ QueueInv /\ ServedInv
      /\ PollingNeverDies
  BY DEF EventsInv
<1>1. UNCHANGED <<started, pausedState, passed, loose>>
  BY DEF Off, OffAll, RemoveAll, history
<1>2. DOMAIN listeners' = Subs /\ (current # NoSub /\ current' # NoSub /\ listeners'[current] # <<>> => listeners[current] # <<>>)
  <2>1. CASE Off
    <3>1. UNCHANGED listeners \/ listeners' = [listeners EXCEPT ![Call.sub] = Without(listeners[Call.sub], Call.listener)]
      BY <2>1 DEF Off
    <3>2. Without(<<>>, Call.listener) = <<>>
      BY DEF Without
    <3> QED BY <1>0, <3>1, <3>2 DEF TagTypes
  <2>2. CASE OffAll \/ RemoveAll
    BY <1>0, <2>2 DEF OffAll, RemoveAll, TagTypes
  <2> QED BY <2>1, <2>2
<1>3. \/ UNCHANGED <<current, polling>> /\ calls # <<>> /\ calls' = Tail(calls)
      \/ \E s \in Subs : /\ Drop(s, polling) /\ (current # NoSub /\ started[current] => s = current)
                         /\ calls' = calls \/ (calls # <<>> /\ calls' = Tail(calls) /\ Call.op # "emit")
  <2>1. CASE RemoveAll
    BY <1>0, <2>1 DEF RemoveAll, TagTypes
  <2>2. CASE Off \/ OffAll
    <3>1. calls # <<>> /\ calls' = Tail(calls) /\ Call.op # "emit"
      BY <2>2 DEF Off, OffAll, Continue
    <3>2. UNCHANGED <<current, polling>> \/ (Call.sub # NoSub /\ Drop(Call.sub, polling))
      BY <2>2 DEF Off, OffAll
    <3>3. Call.sub \in Subs \cup {NoSub}
      BY <1>0, <3>1, CallTypes
    <3>4. current # NoSub /\ started[current] /\ Call.sub # NoSub => Call.sub = current
      BY <1>0, <3>1, AboutCurrent
    <3> QED BY <3>1, <3>2, <3>3, <3>4
  <2> QED BY <2>1, <2>2
<1>4. CASE UNCHANGED <<current, polling>> /\ calls # <<>> /\ calls' = Tail(calls)
  <2>1. CallsInv'
    BY <1>0, <1>4, CallsContinue
  <2>2. QueueInv'
    BY <1>0, <1>1, <1>4, QueueContinue DEF TagTypes
  <2>3. TagTypes'
    BY <1>0, <1>1, <1>2, <1>4 DEF TagTypes
  <2>4. ServedInv' /\ PollingNeverDies'
    BY <1>0, <1>1, <1>2, <1>4 DEF ServedInv, PollingNeverDies, paused
  <2> QED BY <1>0, <1>1, <1>4, <2>1, <2>2, <2>3, <2>4 DEF EventsInv
<1>5. ASSUME NEW s \in Subs, Drop(s, polling), current # NoSub /\ started[current] => s = current,
             calls' = calls \/ (calls # <<>> /\ calls' = Tail(calls) /\ Call.op # "emit")
      PROVE  EventsInv'
  <2>1. /\ current' = NoSub /\ Sound(polling') /\ Kept(polling, polling') /\ NoFurther(polling, polling')
        /\ \A t \in Subs : polling'.poller[t] # NoTimer => t \in loose
    BY <1>0, <1>5, DropDoes
  <2>2. CallsInv'
    BY <1>0, <1>5, <2>1, CallsSame, CallsContinue DEF Kept
  <2>3. QueueInv' /\ ServedInv' /\ PollingNeverDies'
    BY <1>1, <2>1, Untagged
  <2>4. TagTypes'
    BY <1>0, <1>1, <1>2, <2>1 DEF TagTypes
  <2>5. Behind(polling', passed')
    BY <1>0, <1>1, <2>1 DEF NoFurther
  <2> QED BY <2>1, <2>2, <2>3, <2>4, <2>5 DEF EventsInv
<1> QED BY <1>3, <1>4, <1>5

LEMMA DestroyStep ==
  ASSUME EventsInv, Destroy
  PROVE  EventsInv'
<1>0. /\ Sound(polling) /\ Behind(polling, passed) /\ CallsInv /\ TagTypes /\ QueueInv /\ ServedInv
  BY DEF EventsInv
<1> DEFINE p == IF current # NoSub THEN StopIfStarted(current) ELSE polling
<1>1. /\ polling' = [p EXCEPT !.timers = ClearAll(@)] /\ current' = NoSub
      /\ UNCHANGED <<listeners, started, calls, pausedState, passed, loose>>
  BY DEF Destroy, history
<1>2. p = polling \/ (current \in Subs /\ started[current] /\ p = Stop(polling, current))
  BY <1>0 DEF StopIfStarted, TagTypes
<1>3. current # NoSub /\ started[current] => p = Stop(polling, current)
  BY DEF StopIfStarted
<1> HIDE DEF p
<1>4. /\ Sound(p) /\ Kept(polling, p) /\ NoFurther(polling, p)
      /\ \A t \in Subs : p.poller[t] # NoTimer => t \in loose
  <2>1. \A t \in Subs : polling.poller[t] # NoTimer /\ t \notin loose => t = current /\ started[current]
    BY <1>0 DEF ServedInv
  <2>2. CASE current # NoSub /\ started[current]
    <3>1. current \in Subs
      BY <1>0, <2>2 DEF TagTypes
    <3>2. /\ Sound(p) /\ Apart(polling, p, current) /\ Kept(polling, p) /\ NoFurther(polling, p)
          /\ p.poller[current] = NoTimer
      BY <1>0, <1>3, <2>2, <3>1, StopQuietly
    <3>3. \A t \in Subs : p.poller[t] # NoTimer => polling.poller[t] # NoTimer /\ t # current
      BY <3>2 DEF Apart
    <3> QED BY <2>1, <3>2, <3>3
  <2>3. CASE ~(current # NoSub /\ started[current])
    <3>1. p = polling
      BY <1>2, <2>3, EventAssumption
    <3>2. \A t \in Subs : t # NoSub
      BY EventAssumption
    <3> QED BY <1>0, <2>1, <2>3, <3>1, <3>2 DEF Kept, NoFurther
  <2> QED BY <2>2, <2>3
<1>5. Sound(polling') /\ polling'.poller = p.poller /\ polling'.number = p.number /\ polling'.polls = p.polls
  BY <1>1, <1>4, TimersCleared
<1>6. Kept(polling, polling') /\ Behind(polling', passed')
  BY <1>0, <1>1, <1>4, <1>5 DEF Kept, NoFurther, Behind
<1>7. CallsInv'
  BY <1>0, <1>1, <1>6, CallsSame
<1>8. QueueInv' /\ ServedInv' /\ PollingNeverDies'
  BY <1>1, <1>4, <1>5, Untagged
<1>9. TagTypes'
  BY <1>0, <1>1 DEF TagTypes
<1> QED BY <1>5, <1>6, <1>7, <1>8, <1>9 DEF EventsInv

LEMMA PauseStep ==
  ASSUME EventsInv, NEW state \in {"keep", "drop"}, PauseProvider(state)
  PROVE  EventsInv'
<1>0. /\ Sound(polling) /\ Behind(polling, passed) /\ CallsInv /\ TagTypes /\ QueueInv /\ ServedInv
      /\ PollingNeverDies
  BY DEF EventsInv
<1> DEFINE p == IF current # NoSub THEN Pause(polling, current, state = "drop") ELSE polling
<1>1. /\ polling' = [p EXCEPT !.timers = PauseTimers(@)] /\ pausedState' = state
      /\ UNCHANGED <<current, listeners, started, calls, passed, loose>>
  BY DEF PauseProvider, history
<1>2. /\ Sound(p) /\ Kept(polling, p) /\ NoFurther(polling, p)
      /\ current # NoSub => p.poller[current] = NoTimer
      /\ \A t \in Subs : p.poller[t] # NoTimer => polling.poller[t] # NoTimer
  <2>1. CASE current = NoSub
    BY <1>0, <2>1 DEF Kept, NoFurther
  <2>2. CASE current # NoSub
    <3>1. current \in Subs /\ (state = "drop") \in BOOLEAN /\ p = Pause(polling, current, state = "drop")
      BY <1>0, <2>2 DEF TagTypes
    <3> HIDE DEF p
    <3>2. /\ Sound(p) /\ Apart(polling, p, current) /\ Kept(polling, p) /\ NoFurther(polling, p)
          /\ p.poller[current] = NoTimer
      BY <1>0, <3>1, PauseDoes
    <3> QED BY <3>1, <3>2 DEF Apart
  <2> QED BY <2>1, <2>2
<1> HIDE DEF p
<1>3. Sound(polling') /\ polling'.poller = p.poller /\ polling'.number = p.number /\ polling'.polls = p.polls
  BY <1>1, <1>2, TimersPaused
<1>4. Kept(polling, polling') /\ Behind(polling', passed')
  BY <1>0, <1>1, <1>2, <1>3 DEF Kept, NoFurther, Behind
<1>5. CallsInv'
  BY <1>0, <1>1, <1>4, CallsSame
<1>6. QueueInv' /\ TagTypes'
  BY <1>0, <1>1 DEF QueueInv, TagTypes
<1>7. ServedInv'
  <2>1. paused'
    BY <1>1 DEF paused
  <2> QED BY <1>0, <1>1, <1>2, <1>3, <2>1 DEF ServedInv
<1>8. PollingNeverDies'
  BY <1>1, <1>2, <1>3 DEF PollingNeverDies, Fed
<1> QED BY <1>3, <1>4, <1>5, <1>6, <1>7, <1>8 DEF EventsInv

LEMMA ResumeStep ==
  ASSUME EventsInv, Resume
  PROVE  EventsInv'
<1>0. /\ Sound(polling) /\ Behind(polling, passed) /\ CallsInv /\ TagTypes /\ QueueInv /\ ServedInv
      /\ PollingNeverDies
  BY DEF EventsInv
<1> DEFINE p == IF current # NoSub THEN Start(polling, current, TRUE) ELSE polling
<1>1. /\ polling' = [p EXCEPT !.timers = ResumeTimers(@)]
      /\ loose' = IF current # NoSub /\ ~started[current] THEN loose \cup {current} ELSE loose
      /\ UNCHANGED <<current, listeners, started, calls, passed>>
      /\ current # NoSub => polling.poller[current] # NoTimer \/ Room(polling)
  BY DEF Resume
<1>2. /\ Sound(p) /\ Kept(polling, p) /\ NoFurther(polling, p)
      /\ current # NoSub => p.poller[current] # NoTimer /\ Fed(p, current)
      /\ \A t \in Subs : p.poller[t] # NoTimer => polling.poller[t] # NoTimer \/ t = current
  <2>1. CASE current = NoSub
    BY <1>0, <2>1 DEF Kept, NoFurther
  <2>2. CASE current # NoSub
    <3>1. current \in Subs /\ p = Start(polling, current, TRUE) /\ Fed(polling, current)
      BY <1>0, <2>2 DEF TagTypes, PollingNeverDies
    <3> HIDE DEF p
    <3>2. /\ Sound(p) /\ Apart(polling, p, current) /\ Kept(polling, p) /\ NoFurther(polling, p)
          /\ p.poller[current] # NoTimer /\ (Fed(polling, current) => Fed(p, current))
      BY <1>0, <1>1, <2>2, <3>1, StartDoes
    <3> QED BY <3>1, <3>2 DEF Apart
  <2> QED BY <2>1, <2>2
<1> HIDE DEF p
<1>3. /\ Sound(polling') /\ polling'.poller = p.poller /\ polling'.number = p.number /\ polling'.polls = p.polls
      /\ \A t \in Subs : TimersOf(polling', t) = TimersOf(p, t)
  BY <1>1, <1>2, TimersResumed
<1>4. Kept(polling, polling') /\ Behind(polling', passed')
  BY <1>0, <1>1, <1>2, <1>3 DEF Kept, NoFurther, Behind
<1>5. CallsInv'
  BY <1>0, <1>1, <1>4, CallsSame
<1>6. QueueInv' /\ TagTypes'
  BY <1>0, <1>1 DEF QueueInv, TagTypes
<1>7. ServedInv'
  <2>1. current # NoSub => /\ polling'.poller[current] # NoTimer
                           /\ listeners'[current] # <<>> => started'[current]
    BY <1>0, <1>1, <1>2, <1>3 DEF ServedInv
  <2>2. ASSUME NEW t \in Subs, polling'.poller[t] # NoTimer
        PROVE  (started'[t] \/ t \in loose') /\ (t = current \/ t \in loose')
    <3>1. t # NoSub
      BY EventAssumption
    <3>2. CASE t = current
      BY <1>1, <3>1, <3>2
    <3>3. CASE t # current
      BY <1>0, <1>1, <1>2, <1>3, <2>2, <3>3 DEF ServedInv
    <3> QED BY <3>2, <3>3
  <2> QED BY <1>1, <2>1, <2>2 DEF ServedInv
<1>8. PollingNeverDies'
  <2>1. \A t \in Subs : Fed(p, t) => Fed(polling', t)
    BY <1>3 DEF Fed, PollsOf
  <2> QED BY <1>0, <1>1, <1>2, <2>1 DEF PollingNeverDies, TagTypes
<1> QED BY <1>3, <1>4, <1>5, <1>6, <1>7, <1>8 DEF EventsInv

\* A step of the timers and the polls that leaves everyone fed.
LEMMA PollingStep ==
  ASSUME EventsInv, UNCHANGED <<current, listeners, started, calls, pausedState, loose>>,
         Sound(polling'), Kept(polling, polling'), Behind(polling', passed'),
         \A t \in Subs : polling'.poller[t] = NoTimer <=> polling.poller[t] = NoTimer,
         \A t \in Subs : Fed(polling, t) => Fed(polling', t), passed' \in [Subs -> SUBSET Int]
  PROVE  EventsInv'
<1>0. CallsInv /\ TagTypes /\ QueueInv /\ ServedInv /\ PollingNeverDies
  BY DEF EventsInv
<1>1. CallsInv'
  BY <1>0, CallsSame
<1>2. QueueInv' /\ TagTypes'
  BY <1>0 DEF QueueInv, TagTypes
<1>3. ServedInv' /\ PollingNeverDies'
  BY <1>0 DEF ServedInv, PollingNeverDies, TagTypes, paused
<1> QED BY <1>1, <1>2, <1>3 DEF EventsInv

\* The polls and the timers that a step can be about belong to a subscriber.
LEMMA PollTypes ==
  ASSUME EventsInv, NEW i \in PollIds, polling.polls[i].at # "idle"
  PROVE  /\ polling.polls[i].sub \in Subs /\ polling.polls[i].next \in Int /\ polling.polls[i].last \in Nat
         /\ paused \in BOOLEAN /\ passed \in [Subs -> SUBSET Int]
BY DEF EventsInv, Sound, Pollings, PollRows, TagTypes, paused

LEMMA FireStep ==
  ASSUME EventsInv, NEW id \in TimerIds, Fire(id)
  PROVE  EventsInv'
<1>1. /\ Pending(polling.timers[id]) /\ FreePolls(polling) # {} /\ polling' = TimerFires(polling, id)
      /\ UNCHANGED <<current, listeners, started, calls, pausedState, passed, loose>>
  BY DEF Fire, history
<1>2. /\ Sound(polling') /\ Kept(polling, polling') /\ NoFurther(polling, polling')
      /\ polling'.poller = polling.poller /\ \A t \in Subs : Fed(polling, t) => Fed(polling', t)
  BY <1>1, FiredDoes DEF EventsInv
<1>3. Behind(polling', passed') /\ passed' \in [Subs -> SUBSET Int]
  BY <1>1, <1>2 DEF EventsInv, NoFurther, TagTypes
<1> QED BY <1>1, <1>2, <1>3, PollingStep

LEMMA AnswerStep ==
  ASSUME EventsInv, NEW i \in PollIds, NEW n \in 0 .. MaxHeight, Answer(i, n)
  PROVE  EventsInv'
<1> DEFINE s == polling.polls[i].sub
<1>1. /\ polling.polls[i].at = "fetch" /\ FreeTimers(polling) # {}
      /\ polling' = Answered(polling, i, n, paused)
      /\ passed' = [passed EXCEPT ![s] = IF polling.number[s] = Unknown THEN passed[s] \cup 1 .. n ELSE passed[s]]
      /\ UNCHANGED <<current, listeners, started, calls, pausedState, loose>>
  BY DEF Answer
<1>2. s \in Subs /\ n \in Nat /\ paused \in BOOLEAN /\ passed \in [Subs -> SUBSET Int] /\ s = polling.polls[i].sub
  BY <1>1, PollTypes, EventAssumption
<1> HIDE DEF s
<1>3. /\ Sound(polling') /\ Apart(polling, polling', s) /\ Kept(polling, polling')
      /\ (polling'.poller[s] = NoTimer <=> polling.poller[s] = NoTimer) /\ (Fed(polling, s) => Fed(polling', s))
  BY <1>1, <1>2, AnsweredDoes DEF EventsInv
<1>4. \A seen : Behind(polling, seen) /\ (polling.number[s] = Unknown => 1 .. n \subseteq seen[s]) => Behind(polling', seen)
  BY <1>1, <1>2, AnsweredDoes DEF EventsInv
<1>5. /\ passed' \in [Subs -> SUBSET Int]
      /\ \A t \in Subs : passed[t] \subseteq passed'[t]
      /\ polling.number[s] = Unknown => 1 .. n \subseteq passed'[s]
  <2>1. 1 .. n \in SUBSET Int
    BY <1>2
  <2> QED BY <1>1, <1>2, <2>1
<1>6. Behind(polling, passed')
  <2>1. Sound(polling) /\ Behind(polling, passed)
    BY DEF EventsInv
  <2>2. \A j \in PollIds : polling.polls[j].at # "idle" => polling.polls[j].sub \in Subs
    BY <2>1 DEF Sound, Pollings, PollRows
  <2> QED BY <1>5, <2>1, <2>2 DEF Behind
<1>7. \A t \in Subs \ {s} : (Fed(polling, t) => Fed(polling', t)) /\ polling'.poller[t] = polling.poller[t]
  BY <1>3, StillFed DEF Apart
<1> QED BY <1>1, <1>3, <1>4, <1>5, <1>6, <1>7, PollingStep

LEMMA FailStep ==
  ASSUME EventsInv, NEW i \in PollIds, Fail(i)
  PROVE  EventsInv'
<1> DEFINE s == polling.polls[i].sub
<1>1. /\ polling.polls[i].at = "fetch" /\ FreeTimers(polling) # {}
      /\ polling' = Reschedule(polling, i, paused)
      /\ UNCHANGED <<current, listeners, started, calls, pausedState, passed, loose>>
  BY DEF Fail, history
<1>2. s \in Subs /\ paused \in BOOLEAN /\ passed \in [Subs -> SUBSET Int] /\ s = polling.polls[i].sub
  BY <1>1, PollTypes
<1> HIDE DEF s
<1>3. /\ Sound(polling') /\ Apart(polling, polling', s) /\ Kept(polling, polling') /\ NoFurther(polling, polling')
      /\ (polling'.poller[s] = NoTimer <=> polling.poller[s] = NoTimer) /\ (Fed(polling, s) => Fed(polling', s))
  BY <1>1, <1>2, RescheduleDoes DEF EventsInv
<1>4. Behind(polling', passed')
  BY <1>1, <1>3 DEF EventsInv, NoFurther
<1>5. \A t \in Subs \ {s} : (Fed(polling, t) => Fed(polling', t)) /\ polling'.poller[t] = polling.poller[t]
  BY <1>3, StillFed DEF Apart
<1> QED BY <1>1, <1>2, <1>3, <1>4, <1>5, PollingStep

LEMMA NextBlockStep ==
  ASSUME EventsInv, NEW i \in PollIds, NextBlock(i)
  PROVE  EventsInv'
<1> DEFINE poll == polling.polls[i]
           s == poll.sub
<1>1. /\ poll.at = "check" /\ FreeTimers(polling) # {}
      /\ polling' = Loop(polling, i, poll.next + 1, poll.last, paused)
      /\ UNCHANGED <<current, listeners, started, calls, pausedState, passed, loose>>
  BY DEF NextBlock, history
<1>2. /\ s \in Subs /\ paused \in BOOLEAN /\ passed \in [Subs -> SUBSET Int] /\ s = polling.polls[i].sub
      /\ poll.next + 1 \in Int /\ poll.last \in Nat
  BY <1>1, PollTypes
<1>3. 1 .. ((poll.next + 1) - 1) \subseteq passed[s]
  <2>1. (poll.next + 1) - 1 = poll.next
    BY <1>1, PollTypes
  <2> QED BY <1>1, <2>1 DEF EventsInv, Behind
<1> HIDE DEF s
<1>4. /\ Sound(polling') /\ Apart(polling, polling', s) /\ Kept(polling, polling')
      /\ (polling'.poller[s] = NoTimer <=> polling.poller[s] = NoTimer) /\ (Fed(polling, s) => Fed(polling', s))
  BY <1>1, <1>2, LoopDoes DEF EventsInv
<1>5. \A seen : Behind(polling, seen) /\ 1 .. ((poll.next + 1) - 1) \subseteq seen[s] => Behind(polling', seen)
  BY <1>1, <1>2, LoopDoes DEF EventsInv
<1>6. Behind(polling', passed')
  BY <1>1, <1>3, <1>5 DEF EventsInv
<1>7. \A t \in Subs \ {s} : (Fed(polling, t) => Fed(polling', t)) /\ polling'.poller[t] = polling.poller[t]
  BY <1>4, StillFed DEF Apart
<1> QED BY <1>1, <1>2, <1>4, <1>6, <1>7, PollingStep

LEMMA NextHolds == EventsInv /\ [Next]_vars => EventsInv'
<1> SUFFICES ASSUME EventsInv, [Next]_vars PROVE EventsInv'
  OBVIOUS
<1>1. CASE UNCHANGED vars
  <2>1. UNCHANGED <<current, listeners, started, calls, pausedState, polling, passed, loose>>
    BY <1>1 DEF vars
  <2> QED BY <2>1 DEF EventsInv, CallsInv, TagTypes, QueueInv, ServedInv, PollingNeverDies, paused
<1>2. CASE \E l \in Listeners :
             LookUp("on", l) \/ LookUp("once", l) \/ LookUp("removeAll", l) \/ LookUpOnly("off", l) \/ LookUpOnly("offAll", l)
  BY <1>2, LookUpStep, LookUpOnlyStep
<1>3. CASE Register \/ Emit \/ Off \/ OffAll \/ RemoveAll
  BY <1>3, RegisterStep, EmitStep, OffStep
<1>4. CASE Destroy \/ Resume \/ \E state \in {"keep", "drop"} : PauseProvider(state)
  BY <1>4, DestroyStep, ResumeStep, PauseStep
<1>5. CASE \E id \in TimerIds : Fire(id)
  BY <1>5, FireStep
<1>6. CASE \E i \in PollIds : LookUpEmit(i) \/ NextBlock(i) \/ Fail(i) \/ \E n \in 0 .. MaxHeight : Answer(i, n)
  BY <1>6, LookUpEmitStep, NextBlockStep, FailStep, AnswerStep
<1> QED BY <1>1, <1>2, <1>3, <1>4, <1>5, <1>6 DEF Next

LEMMA EventsInvHolds == Spec => []EventsInv
BY InitHolds, NextHolds, PTL DEF Spec

(***************************************************************************)
(* No block is skipped: a poll moves #blockNumber only past blocks it has  *)
(* called emit for, however many polls of the subscriber overlap and       *)
(* whatever stops, pauses and starts it in between.                        *)
(***************************************************************************)
THEOREM NoBlockIsSkipped == Spec => []NoBlockSkipped
<1>1. EventsInv => NoBlockSkipped
  BY DEF EventsInv, Behind, NoBlockSkipped
<1> QED BY <1>1, EventsInvHolds, PTL

(***************************************************************************)
(* A registered listener is served, and what still runs without being      *)
(* under the tag was left behind by a call that raced with another: the    *)
(* calls that wait are about the current subscription as soon as it is     *)
(* started.                                                                *)
(***************************************************************************)
THEOREM ListenersStayServed == Spec => []ListenersAreServed
<1>1. EventsInv => ListenersAreServed
  BY DEF EventsInv, QueueInv, ServedInv, ListenersAreServed
<1> QED BY <1>1, EventsInvHolds, PTL

(***************************************************************************)
(* A subscriber that runs has a poll or a timer left, and two while its    *)
(* first poll, which sets no timer, may still be on its way.               *)
(***************************************************************************)
THEOREM PollingGoesOn == Spec => []PollingNeverDies
<1>1. EventsInv => PollingNeverDies
  BY DEF EventsInv
<1> QED BY <1>1, EventsInvHolds, PTL
=============================================================================
