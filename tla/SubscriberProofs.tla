--------------------------- MODULE SubscriberProofs --------------------------
(***************************************************************************)
(* Proofs about those who subscribe: PollingEventSubscriber,               *)
(* FilterIdSubscriber, SocketSubscriber and contracts, for chains,         *)
(* windows, filters and numbers of messages and of calls of any size.      *)
(***************************************************************************)
EXTENDS EventPolling, FilterSubscriber, SocketSubscriptions, ContractEvents, ProofLemmas,
        SequenceTheorems

-----------------------------------------------------------------------------
(* PollingEventSubscriber *)

\* The blocks below n whose log has neither been emitted nor is excused.
Owed(n) == {b \in logsIn : b < n} \ (reported \cup excused)

EventTypes ==
  /\ logsIn \subseteq 1 .. MaxChain
  /\ chainTip \in Nat
  /\ eventNumber \in Int /\ eventNumber >= NotFetched
  /\ ranges \subseteq [from : Int, to : Nat]
  /\ reported \subseteq logsIn

Undisturbed ==
  /\ ~twice
  /\ \A r, q \in ranges : r = q
  /\ eventNumber = NotFetched => ranges = {}
  /\ eventNumber # NotFetched => \A b \in reported : b <= eventNumber
  /\ \A r \in ranges, b \in reported : b < r.from

\* Nothing is owed before #blockNumber, nor before a range that was asked for;
\* and polls that are undisturbed ask for blocks beyond all that were emitted.
EventInv ==
  /\ EventTypes
  /\ Owed(eventNumber + 1) = {}
  /\ \A r \in ranges : Owed(r.from) = {}
  /\ ~disturbed => Undisturbed

LEMMA EventInvStep == EventInv /\ [EventNext]_eventVars => EventInv'
<1> SUFFICES ASSUME EventInv, [EventNext]_eventVars PROVE EventInv'
  OBVIOUS
<1> USE DEF NotFetched
<1>0. /\ EventTypes /\ Owed(eventNumber + 1) = {} /\ \A r \in ranges : Owed(r.from) = {}
      /\ ~disturbed => Undisturbed
  BY DEF EventInv
<1>1. CASE EventStart \/ BaselineFails \/ UNCHANGED eventVars
  <2>1. UNCHANGED <<logsIn, chainTip, eventNumber, ranges, reported, excused, twice, disturbed>>
    BY <1>1 DEF EventStart, BaselineFails, eventVars, eventHistory
  <2>2. EventTypes' /\ (Undisturbed <=> Undisturbed') /\ \A n : Owed(n)' = Owed(n)
    BY <1>0, <2>1 DEF EventTypes, Undisturbed, Owed
  <2> QED BY <1>0, <2>1, <2>2 DEF EventInv
<1>2. ASSUME NEW drop \in BOOLEAN, EventStop(drop) PROVE EventInv'
  <2>1. /\ UNCHANGED <<logsIn, chainTip, ranges, reported, excused, twice>>
        /\ eventNumber' = NotFetched \/ eventNumber' = eventNumber
        /\ ~disturbed' => ~disturbed /\ (eventNumber' = eventNumber \/ ranges = {})
    BY <1>2 DEF EventStop, eventHistory
  <2>2. EventTypes'
    BY <1>0, <2>1 DEF EventTypes
  <2>3. Owed(eventNumber + 1)' = {}
    <3>1. CASE eventNumber' = NotFetched
      <4>1. eventNumber' + 1 = -1 /\ \A b \in logsIn : b \in Int /\ b >= 1
        BY <1>0, <3>1, EventPollingAssumption DEF EventTypes
      <4> QED BY <2>1, <4>1 DEF Owed
    <3>2. CASE eventNumber' = eventNumber
      BY <1>0, <2>1, <3>2 DEF Owed
    <3> QED BY <2>1, <3>1, <3>2
  <2>4. \A r \in ranges' : Owed(r.from)' = {}
    BY <1>0, <2>1 DEF Owed
  <2>5. ~disturbed' => Undisturbed'
    BY <1>0, <2>1 DEF Undisturbed
  <2> QED BY <2>2, <2>3, <2>4, <2>5 DEF EventInv
<1>3. ASSUME NEW n \in 0 .. chainTip, Baseline(n) PROVE EventInv'
  <2>1. /\ UNCHANGED <<logsIn, chainTip, ranges, reported, twice>>
        /\ eventNumber' = n /\ excused' = excused \cup 1 .. n
        /\ ~disturbed' => ~disturbed /\ reported = {} /\ ranges = {}
    BY <1>3 DEF Baseline
  <2>2. n \in Nat
    BY <1>0 DEF EventTypes
  <2>3. EventTypes'
    BY <1>0, <2>1, <2>2 DEF EventTypes
  <2>4. \A b \in logsIn : b < n + 1 => b \in 1 .. n
    BY <1>0, <2>2, EventPollingAssumption DEF EventTypes
  <2>5. Owed(eventNumber + 1)' = {}
    BY <2>1, <2>4 DEF Owed
  <2>6. \A r \in ranges' : Owed(r.from)' = {}
    BY <1>0, <2>1 DEF Owed
  <2>7. ~disturbed' => Undisturbed'
    BY <1>0, <2>1 DEF Undisturbed
  <2> QED BY <2>3, <2>5, <2>6, <2>7 DEF EventInv
<1>4. CASE EventBlock
  <2>1. /\ UNCHANGED <<logsIn, eventNumber, reported, excused, twice>> /\ chainTip' = chainTip + 1
        /\ \/ UNCHANGED <<ranges, disturbed>>
           \/ /\ ranges' = ranges \cup {[from |-> eventNumber + 1, to |-> chainTip']}
              /\ eventNumber # NotFetched
              /\ ~disturbed' => ~disturbed /\ ranges = {}
    BY <1>4 DEF EventBlock, eventHistory
  <2>2. EventTypes'
    BY <1>0, <2>1 DEF EventTypes
  <2>3. Owed(eventNumber + 1)' = {}
    BY <1>0, <2>1 DEF Owed
  <2>4. \A r \in ranges' : Owed(r.from)' = {}
    BY <1>0, <2>1 DEF Owed
  <2>5. \A b \in reported : b \in Int
    BY <1>0, EventPollingAssumption DEF EventTypes
  <2>6. ~disturbed' => Undisturbed'
    BY <1>0, <2>1, <2>5 DEF Undisturbed, EventTypes
  <2> QED BY <2>2, <2>3, <2>4, <2>6 DEF EventInv
<1>5. ASSUME NEW r \in ranges, EventLogsFail(r) PROVE EventInv'
  <2>1. /\ UNCHANGED <<logsIn, chainTip, eventNumber, reported, excused, twice, disturbed>>
        /\ ranges' = ranges \ {r}
    BY <1>5 DEF EventLogsFail, eventHistory
  <2>2. EventTypes' /\ (Undisturbed => Undisturbed') /\ \A n : Owed(n)' = Owed(n)
    BY <1>0, <2>1 DEF EventTypes, Undisturbed, Owed
  <2> QED BY <1>0, <2>1, <2>2 DEF EventInv
<1>6. ASSUME NEW r \in ranges, NEW height \in 0 .. chainTip, EventLogs(r, height) PROVE EventInv'
  <2> DEFINE logs == {b \in r.from .. r.to : b \in logsIn /\ b <= height}
             upTo == IF logs # {} THEN r.to ELSE r.to - Window
  <2>1. /\ UNCHANGED <<logsIn, chainTip, disturbed>>
        /\ ranges' = ranges \ {r} /\ reported' = reported \cup logs
        /\ twice' = (twice \/ logs \cap reported # {})
    BY <1>6 DEF EventLogs
  <2>2. \/ /\ logs # {} \/ eventNumber < upTo
           /\ eventNumber' = upTo /\ excused' = excused \cup {b \in r.from .. upTo : b > height}
        \/ logs = {} /\ UNCHANGED <<eventNumber, excused>>
    BY <1>6 DEF EventLogs
  <2>3. r.from \in Int /\ r.to \in Nat /\ height \in Nat /\ eventNumber \in Int /\ eventNumber >= -2
        /\ \A b \in logsIn : b \in Int
    BY <1>0, EventPollingAssumption DEF EventTypes
  <2>4. upTo \in Int /\ upTo <= r.to /\ (logs # {} => upTo = r.to)
    BY <2>3, EventPollingAssumption
  <2>5. logs \subseteq logsIn /\ \A b \in logs : b \in Int /\ r.from <= b /\ b <= r.to
    BY <2>3
  <2>6. \A b \in logsIn : r.from <= b /\ b <= upTo =>
          b \in logs \/ b \in {c \in r.from .. upTo : c > height}
    BY <2>3, <2>4
  <2> HIDE DEF logs, upTo
  <2>7. EventTypes'
    BY <1>0, <2>1, <2>2, <2>3, <2>4, <2>5 DEF EventTypes
  <2>8. Owed(eventNumber + 1)' = {}
    <3>1. CASE /\ eventNumber' = upTo
               /\ excused' = excused \cup {b \in r.from .. upTo : b > height}
      <4>1. ASSUME NEW b \in logsIn, b < upTo + 1 PROVE b \in reported' \cup excused'
        <5>1. CASE b < r.from
          BY <1>0, <2>1, <3>1, <4>1, <5>1 DEF Owed
        <5>2. CASE r.from <= b
          BY <2>1, <2>3, <2>4, <2>6, <3>1, <4>1, <5>2
        <5> QED BY <2>3, <5>1, <5>2
      <4> QED BY <2>1, <3>1, <4>1 DEF Owed
    <3>2. CASE logs = {} /\ UNCHANGED <<eventNumber, excused>>
      BY <1>0, <2>1, <3>2 DEF Owed
    <3> QED BY <2>2, <3>1, <3>2
  <2>9. \A q \in ranges' : Owed(q.from)' = {}
    <3>1. reported \subseteq reported' /\ excused \subseteq excused' /\ ranges' \subseteq ranges
      BY <2>1, <2>2
    <3> QED BY <1>0, <2>1, <3>1 DEF Owed
  <2>10. ASSUME ~disturbed' PROVE Undisturbed'
    <3>1. Undisturbed /\ ranges' = {}
      BY <1>0, <2>1, <2>10 DEF Undisturbed
    <3>2. logs \cap reported = {}
      BY <2>3, <2>5, <3>1, <1>0 DEF Undisturbed, EventTypes
    <3>3. ~twice'
      BY <2>1, <3>1, <3>2 DEF Undisturbed
    <3>4. eventNumber # NotFetched /\ \A b \in reported : b <= eventNumber
      BY <3>1 DEF Undisturbed
    <3>5. \A b \in reported' : b <= eventNumber'
      <4>1. CASE logs # {}
        <5>1. eventNumber' = r.to
          BY <2>2, <2>4, <4>1
        <5>2. PICK c \in logs : TRUE
          BY <4>1
        <5>3. \A b \in reported : b < r.from /\ b \in Int
          BY <1>0, <2>3, <3>1 DEF Undisturbed, EventTypes
        <5>4. r.from <= r.to
          BY <2>3, <2>5, <5>2
        <5> QED BY <2>1, <2>3, <2>5, <5>1, <5>3, <5>4
      <4>2. CASE logs = {}
        <5>1. reported' = reported /\ (eventNumber' = eventNumber \/ eventNumber < eventNumber')
          BY <2>1, <2>2, <4>2
        <5>2. \A b \in reported : b \in Int
          BY <1>0, <2>3 DEF EventTypes
        <5>3. eventNumber' \in Int
          BY <2>7 DEF EventTypes
        <5> QED BY <2>3, <3>4, <5>1, <5>2, <5>3
      <4> QED BY <4>1, <4>2
    <3> QED BY <3>1, <3>3, <3>5 DEF Undisturbed
  <2> QED BY <2>7, <2>8, <2>9, <2>10 DEF EventInv
<1> QED BY <1>1, <1>2, <1>3, <1>4, <1>5, <1>6 DEF EventNext

\* The log of every block up to #blockNumber was emitted, unless the subscriber
\* was told to begin after it or the node left it out; and once, unless the
\* polls were disturbed.
THEOREM NoLogIsSkipped == EventSpec => []NoLogSkipped
<1>1. EventInit => EventInv
  <2> SUFFICES ASSUME EventInit PROVE EventInv
    OBVIOUS
  <2>1. \A b \in logsIn : b \in Int /\ b >= 1
    BY EventPollingAssumption DEF EventInit
  <2>2. EventTypes /\ Undisturbed
    BY DEF EventInit, EventTypes, Undisturbed, NotFetched
  <2>3. Owed(eventNumber + 1) = {} /\ ranges = {}
    <3>1. eventNumber + 1 = -1 /\ ranges = {}
      BY DEF EventInit, NotFetched
    <3> QED BY <2>1, <3>1 DEF Owed
  <2> QED BY <2>2, <2>3 DEF EventInv
<1>2. EventInv => NoLogSkipped
  <2> SUFFICES ASSUME EventInv PROVE NoLogSkipped
    OBVIOUS
  <2>1. \A b \in logsIn : b \in Int /\ (b <= eventNumber => b < eventNumber + 1)
    BY EventPollingAssumption DEF EventInv, EventTypes
  <2> QED BY <2>1 DEF EventInv, Owed, Undisturbed, NoLogSkipped
<1> QED BY <1>1, <1>2, EventInvStep, PTL DEF EventSpec

-----------------------------------------------------------------------------
(* FilterIdSubscriber *)

\* At most one poll runs and it is about #filterIdPromise's filter, or that one
\* has been torn down; a poll that stop did not cut short is not followed by
\* another.
FilterInv ==
  /\ filterPromise \in Filters \cup {NoFilter}
  /\ filter \in [Filters -> {"none", "asked", "open", "closing", "failed", "unsupported"}]
  /\ poll \in {"none", "filter", "network", "changes"}
  /\ running => ~hault
  /\ onBlock => poll = "none"
  /\ ~running /\ ~hault => poll = "none" /\ ~onBlock
  /\ poll # "none" => awaited \in Filters /\ filterPromise \in {awaited, NoFilter}
  /\ hault /\ ~cut => poll = "none" /\ ~onBlock
  /\ FiltersAccountedFor

\* A poll begins with the promised filter, or with the first one not asked for.
LEMMA PollBeginsWell ==
  ASSUME FilterInv, PollBegins
  PROVE  /\ poll' = "filter"
         /\ awaited' = filterPromise' /\ awaited' \in Filters
         /\ \/ filterPromise' = filterPromise /\ filter' = filter
            \/ /\ filterPromise = NoFilter
               /\ filter' = [filter EXCEPT ![filterPromise'] = "asked"]
<1>1. CASE filterPromise # NoFilter
  BY <1>1 DEF PollBegins, FilterInv
<1>2. CASE filterPromise = NoFilter
  <2> DEFINE unasked == {j \in Filters : filter[j] = "none"}
  <2>1. unasked \in SUBSET Nat /\ unasked # {}
    BY <1>2, FilterAssumption DEF PollBegins
  <2>2. /\ poll' = "filter" /\ filterPromise' = Min(unasked) /\ awaited' = Min(unasked)
        /\ filter' = [filter EXCEPT ![Min(unasked)] = "asked"]
    BY <1>2 DEF PollBegins
  <2>3. unasked \subseteq Filters
    OBVIOUS
  <2> HIDE DEF unasked
  <2>4. Min(unasked) \in unasked
    BY <2>1, MinOfNats
  <2> QED BY <1>2, <2>2, <2>3, <2>4
<1> QED BY <1>1, <1>2

LEMMA FilterInvStep == FilterInv /\ [FilterNext]_filterVars => FilterInv'
<1> SUFFICES ASSUME FilterInv, [FilterNext]_filterVars PROVE FilterInv'
  OBVIOUS
<1>0. NoFilter \notin Filters
  BY FilterAssumption DEF NoFilter
<1>1. CASE FilterStart \/ BlockEvent
  <2>1. PollBegins
    BY <1>1 DEF FilterStart, BlockEvent
  <2>2. /\ poll' = "filter"
        /\ awaited' = filterPromise' /\ awaited' \in Filters
        /\ \/ filterPromise' = filterPromise /\ filter' = filter
           \/ /\ filterPromise = NoFilter
              /\ filter' = [filter EXCEPT ![filterPromise'] = "asked"]
    BY <2>1, PollBeginsWell
  <2>3. Live' \subseteq {filterPromise'}
    BY <1>0, <1>1, <2>2 DEF FilterStart, BlockEvent, FilterInv, FiltersAccountedFor, Live
  <2>4. filter' \in [Filters -> {"none", "asked", "open", "closing", "failed", "unsupported"}]
    BY <2>2 DEF FilterInv
  <2>5. /\ ~onBlock' /\ (running' => ~hault') /\ (running' \/ hault')
        /\ (hault' => cut')
    BY <1>1 DEF FilterStart, BlockEvent, FilterInv
  <2> QED BY <2>2, <2>3, <2>4, <2>5 DEF FilterInv, FiltersAccountedFor
<1>2. ASSUME Teardown
      PROVE  /\ Live' = {} /\ filterPromise' = NoFilter
             /\ filter' \in [Filters -> {"none", "asked", "open", "closing", "failed", "unsupported"}]
  BY <1>2 DEF Teardown, FilterInv, FiltersAccountedFor, Live
<1>3. CASE FilterStop
  BY <1>2, <1>3 DEF FilterStop, FilterInv, FiltersAccountedFor
<1>4. ASSUME NEW drop \in BOOLEAN, FilterPause(drop) PROVE FilterInv'
  <2>1. CASE drop
    BY <1>2, <1>4, <2>1 DEF FilterPause, FilterInv, FiltersAccountedFor
  <2>2. CASE ~drop
    BY <1>4, <2>2 DEF FilterPause, FilterInv, FiltersAccountedFor, Live
  <2> QED BY <2>1, <2>2
<1>5. CASE FilterResume \/ UNCHANGED filterVars
  BY <1>5 DEF FilterResume, filterVars, pauseVars, FilterInv, FiltersAccountedFor, Live
<1>6. ASSUME NEW k \in Filters, NEW how \in {"open", "closing", "failed", "unsupported"},
             filter[k] = "asked", filter' = [filter EXCEPT ![k] = how],
             how = "open" => k \notin teardown, teardown' = teardown \ {k},
             UNCHANGED <<running, hault, filterPromise, onBlock, poll, awaited, cut>>
      PROVE  FilterInv'
  <2>1. Live' \subseteq Live
    BY <1>6 DEF FilterInv, Live
  <2> QED BY <1>6, <2>1 DEF FilterInv, FiltersAccountedFor
<1>7. ASSUME NEW k \in Filters, NodeInstalls(k) PROVE FilterInv'
  BY <1>6, <1>7 DEF NodeInstalls
<1>8. ASSUME NEW k \in Filters, NEW how \in {"failed", "unsupported"}, NodeRejects(k, how)
      PROVE  FilterInv'
  BY <1>6, <1>8 DEF NodeRejects
<1>9. CASE PollGetsFilter \/ PollFilterFails \/ PollGetsNetwork \/ PollFinishes
  <2>1. UNCHANGED <<running, hault, filterPromise, filter, teardown, cut>> /\ poll # "none"
    BY <1>9 DEF PollGetsFilter, PollFilterFails, PollGetsNetwork, PollFinishes
  <2>2. Live' = Live
    BY <2>1 DEF Live
  <2>3. \/ poll' \in {"network", "changes"} /\ UNCHANGED <<awaited, onBlock>>
        \/ poll' = "none" /\ (onBlock' = onBlock \/ onBlock')
    BY <1>9 DEF PollGetsFilter, PollFilterFails, PollGetsNetwork, PollFinishes, PollAgain, PollEnds
  <2> QED BY <2>1, <2>2, <2>3 DEF FilterInv, FiltersAccountedFor
<1>10. CASE PollRecovers
  <2>1. /\ UNCHANGED <<filter, teardown, cut>> /\ filterPromise' = NoFilter
        /\ poll = "filter" /\ poll' = "none" /\ ~running' /\ hault' /\ ~onBlock'
        /\ filter[awaited] = "unsupported"
    BY <1>10 DEF PollRecovers
  <2>2. Live' = {}
    BY <1>0, <2>1 DEF Live, FilterInv, FiltersAccountedFor
  <2> QED BY <2>1, <2>2 DEF FilterInv, FiltersAccountedFor
<1> QED BY <1>1, <1>3, <1>4, <1>5, <1>7, <1>8, <1>9, <1>10 DEF FilterNext

\* At most one filter is installed or about to be that is not being uninstalled,
\* and after a stop that found no poll in flight there is none.
THEOREM FiltersAreAccountedFor == FilterSpec => []FiltersAccountedFor
<1>1. FilterInit => FilterInv
  BY DEF FilterInit, FilterInv, FiltersAccountedFor, Live
<1>2. FilterInv => FiltersAccountedFor
  BY DEF FilterInv
<1> QED BY <1>1, <1>2, FilterInvStep, PTL DEF FilterSpec

-----------------------------------------------------------------------------
(* Queues that ascend *)

\* A queue holds nothing twice, and what is above n ascends.  (The calls above n
\* of a contract's emit have not entered _emit; with n = 0 all of it ascends.)
Ascends(q, n) ==
  \A i, j \in 1 .. Len(q) : i < j =>
    q[i] # q[j] /\ (q[i] > n /\ q[j] > n => q[i] < q[j])

LEMMA RangeOfConcat ==
  ASSUME NEW q \in Seq(Nat), NEW r \in Seq(Nat)
  PROVE  Range(q \o r) = Range(q) \cup Range(r)
<1>1. /\ q \o r \in Seq(Nat) /\ Len(q \o r) = Len(q) + Len(r)
      /\ \A i \in 1 .. Len(q) + Len(r) :
           (q \o r)[i] = IF i <= Len(q) THEN q[i] ELSE r[i - Len(q)]
  BY ConcatProperties
<1>2. ASSUME NEW i \in 1 .. Len(r) PROVE (q \o r)[Len(q) + i] = r[i]
  BY <1>1
<1>3. ASSUME NEW i \in 1 .. Len(q) PROVE (q \o r)[i] = q[i]
  BY <1>1
<1>4. ASSUME NEW i \in 1 .. Len(q \o r) PROVE (q \o r)[i] \in Range(q) \cup Range(r)
  <2>1. CASE i <= Len(q)
    BY <1>1, <1>3, <2>1 DEF Range
  <2>2. CASE i > Len(q)
    <3>1. i - Len(q) \in 1 .. Len(r) /\ (q \o r)[i] = r[i - Len(q)]
      BY <1>1, <2>2
    <3> QED BY <3>1 DEF Range
  <2> QED BY <1>1, <2>1, <2>2
<1>5. Range(q) \subseteq Range(q \o r)
  <2>1. ASSUME NEW i \in 1 .. Len(q) PROVE i \in 1 .. Len(q \o r)
    BY <1>1
  <2> QED BY <1>1, <1>3, <2>1 DEF Range
<1>6. Range(r) \subseteq Range(q \o r)
  <2>1. ASSUME NEW i \in 1 .. Len(r) PROVE r[i] \in Range(q \o r)
    <3>1. Len(q) + i \in DOMAIN (q \o r) /\ (q \o r)[Len(q) + i] = r[i]
      BY <1>1, <1>2
    <3> QED BY <3>1 DEF Range
  <2>2. ASSUME NEW x \in Range(r) PROVE x \in Range(q \o r)
    <3>1. PICK i \in DOMAIN r : x = r[i]
      BY DEF Range
    <3>2. i \in 1 .. Len(r)
      BY <3>1, LenProperties
    <3> QED BY <2>1, <3>1, <3>2
  <2> QED BY <2>2
<1>7. Range(q \o r) \subseteq Range(q) \cup Range(r)
  BY <1>1, <1>4 DEF Range
<1> QED BY <1>5, <1>6, <1>7

LEMMA AscendsConcat ==
  ASSUME NEW q \in Seq(Nat), NEW r \in Seq(Nat), NEW n \in Nat, Ascends(q, n), Ascends(r, n),
         \A x \in Range(q), y \in Range(r) : x # y /\ (x > n /\ y > n => x < y)
  PROVE  Ascends(q \o r, n)
<1> DEFINE s == q \o r
<1>1. /\ s \in Seq(Nat) /\ Len(s) = Len(q) + Len(r)
      /\ \A i \in 1 .. Len(q) + Len(r) : s[i] = IF i <= Len(q) THEN q[i] ELSE r[i - Len(q)]
  BY ConcatProperties
<1> HIDE DEF s
<1>2. ASSUME NEW i \in 1 .. Len(s), NEW j \in 1 .. Len(s), i < j
      PROVE  s[i] # s[j] /\ (s[i] > n /\ s[j] > n => s[i] < s[j])
  <2>1. CASE j <= Len(q)
    <3>1. s[i] = q[i] /\ s[j] = q[j] /\ i \in 1 .. Len(q) /\ j \in 1 .. Len(q)
      BY <1>1, <1>2, <2>1
    <3> QED BY <1>2, <3>1 DEF Ascends
  <2>2. CASE i <= Len(q) /\ j > Len(q)
    <3>1. s[i] = q[i] /\ s[j] = r[j - Len(q)] /\ i \in 1 .. Len(q) /\ j - Len(q) \in 1 .. Len(r)
      BY <1>1, <2>2
    <3>2. s[i] \in Range(q) /\ s[j] \in Range(r)
      BY <3>1 DEF Range
    <3> QED BY <3>2
  <2>3. CASE i > Len(q)
    <3>1. Len(q) \in Nat /\ Len(r) \in Nat /\ j > Len(q)
      BY <1>2, <2>3
    <3>2. s[i] = r[i - Len(q)] /\ s[j] = r[j - Len(q)]
      BY <1>1, <2>3, <3>1
    <3>3. i - Len(q) \in 1 .. Len(r) /\ j - Len(q) \in 1 .. Len(r) /\ i - Len(q) < j - Len(q)
      BY <1>1, <1>2, <2>3, <3>1
    <3> QED BY <3>2, <3>3 DEF Ascends
  <2> QED BY <1>1, <2>1, <2>2, <2>3
<1> QED BY <1>2 DEF Ascends, s

LEMMA AscendsTail ==
  ASSUME NEW q \in Seq(Nat), q # <<>>, NEW n \in Nat, Ascends(q, n)
  PROVE  /\ Tail(q) \in Seq(Nat) /\ Head(q) \in Nat /\ Head(q) \in Range(q)
         /\ Ascends(Tail(q), n) /\ Range(Tail(q)) = Range(q) \ {Head(q)}
         /\ Head(q) > n => \A x \in Range(q) : x > n => Head(q) <= x
<1>1. /\ Tail(q) \in Seq(Nat) /\ Len(Tail(q)) = Len(q) - 1 /\ Head(q) = q[1] /\ Head(q) \in Nat
      /\ \A i \in 1 .. Len(Tail(q)) : Tail(q)[i] = q[i + 1]
      /\ Len(q) \in Nat /\ Len(q) >= 1 /\ \A i \in 1 .. Len(q) : q[i] \in Nat
  BY HeadTailProperties, EmptySeq
<1>2. Ascends(Tail(q), n)
  BY <1>1 DEF Ascends
<1>3. \A i \in 2 .. Len(q) : q[i] # q[1] /\ (q[1] > n /\ q[i] > n => q[1] < q[i])
  BY <1>1 DEF Ascends
<1>4. Range(Tail(q)) = Range(q) \ {Head(q)}
  <2>1. ASSUME NEW i \in 1 .. Len(Tail(q)) PROVE Tail(q)[i] \in Range(q) \ {Head(q)}
    <3>1. i + 1 \in 2 .. Len(q) /\ i + 1 \in DOMAIN q
      BY <1>1
    <3> QED BY <1>1, <1>3, <3>1 DEF Range
  <2>2. ASSUME NEW i \in 1 .. Len(q), q[i] # Head(q) PROVE q[i] \in Range(Tail(q))
    <3>1. i - 1 \in 1 .. Len(Tail(q))
      BY <1>1, <2>2
    <3>2. Tail(q)[i - 1] = q[i] /\ i - 1 \in DOMAIN Tail(q)
      BY <1>1, <3>1
    <3> QED BY <3>2 DEF Range
  <2> QED BY <1>1, <2>1, <2>2 DEF Range
<1>5. Head(q) \in Range(q)
  BY <1>1 DEF Range
<1>6. ASSUME NEW i \in 1 .. Len(q), Head(q) > n, q[i] > n PROVE Head(q) <= q[i]
  <2>1. CASE i = 1
    BY <1>1, <2>1
  <2>2. CASE i # 1
    BY <1>1, <1>3, <1>6, <2>2
  <2> QED BY <2>1, <2>2
<1>7. Head(q) > n => \A x \in Range(q) : x > n => Head(q) <= x
  BY <1>6 DEF Range
<1> QED BY <1>1, <1>2, <1>4, <1>5, <1>7

LEMMA AscendsOne ==
  ASSUME NEW e \in Nat, NEW n \in Nat
  PROVE  <<e>> \in Seq(Nat) /\ Ascends(<<e>>, n) /\ Range(<<e>>) = {e}
<1>1. <<e>> \in Seq(Nat) /\ Len(<<e>>) = 1 /\ <<e>>[1] = e /\ DOMAIN <<e>> = 1 .. 1
  OBVIOUS
<1> QED BY <1>1 DEF Ascends, Range

LEMMA AscendsNone == <<>> \in Seq(Nat) /\ Range(<<>>) = {} /\ \A n : Ascends(<<>>, n)
  BY EmptySeq DEF Ascends, Range

\* An interval, as a queue.
LEMMA AscendsUp ==
  ASSUME NEW m \in Nat, NEW k \in Nat, NEW n \in Nat
  PROVE  /\ [i \in 1 .. k |-> m + i] \in Seq(Nat)
         /\ Ascends([i \in 1 .. k |-> m + i], n)
         /\ Range([i \in 1 .. k |-> m + i]) = m + 1 .. m + k
<1> DEFINE q == [i \in 1 .. k |-> m + i]
<1>1. q \in Seq(Nat) /\ Len(q) = k /\ \A i \in 1 .. k : q[i] = m + i
  OBVIOUS
<1>2. Range(q) = m + 1 .. m + k
  <2>1. ASSUME NEW x \in m + 1 .. m + k PROVE x \in Range(q)
    <3>1. x - m \in 1 .. k /\ m + (x - m) = x
      OBVIOUS
    <3> QED BY <3>1 DEF Range
  <2> QED BY <2>1 DEF Range
<1>3. Ascends(q, n)
  BY <1>1 DEF Ascends
<1> QED BY <1>1, <1>2, <1>3

LEMMA AscendsLater ==
  ASSUME NEW q \in Seq(Nat), NEW n \in Nat, NEW m \in Nat, n <= m, Ascends(q, n)
  PROVE  Ascends(q, m)
<1>1. \A i \in 1 .. Len(q) : q[i] \in Nat
  BY ElementOfSeq
<1> QED BY <1>1 DEF Ascends

-----------------------------------------------------------------------------
(* SocketSubscriber *)

\* Runs of messages can be appended to, begun and put together.
LEMMA RunIsSeq ==
  ASSUME NEW m \in Int, NEW n \in Int, m <= n
  PROVE  Run(m, n) \in Seq(Int) /\ Len(Run(m, n)) = n - m /\ \A i \in 1 .. n - m : Run(m, n)[i] = m + i
BY DEF Run

LEMMA RunOfNone ==
  ASSUME NEW n \in Int
  PROVE  Run(n, n) = <<>>
<1>1. Run(n, n) \in Seq(Int) /\ Len(Run(n, n)) = 0
  BY RunIsSeq
<1> QED BY <1>1, EmptySeq

LEMMA RunAppend ==
  ASSUME NEW m \in Int, NEW n \in Int, m <= n
  PROVE  Append(Run(m, n), n + 1) = Run(m, n + 1)
<1>1. /\ Run(m, n) \in Seq(Int) /\ Len(Run(m, n)) = n - m
      /\ Run(m, n + 1) \in Seq(Int) /\ Len(Run(m, n + 1)) = n - m + 1
      /\ \A i \in 1 .. n - m : Run(m, n)[i] = m + i
      /\ \A i \in 1 .. n - m + 1 : Run(m, n + 1)[i] = m + i
  <2>1. n + 1 \in Int /\ m <= n + 1 /\ (n + 1) - m = n - m + 1
    OBVIOUS
  <2>2. /\ Run(m, n + 1) \in Seq(Int) /\ Len(Run(m, n + 1)) = (n + 1) - m
        /\ \A i \in 1 .. (n + 1) - m : Run(m, n + 1)[i] = m + i
    BY <2>1, RunIsSeq
  <2> QED BY <2>1, <2>2, RunIsSeq
<1> HIDE DEF Run
<1> DEFINE longer == Append(Run(m, n), n + 1)
<1>2. /\ longer \in Seq(Int) /\ Len(longer) = n - m + 1
      /\ \A i \in 1 .. n - m : longer[i] = m + i
      /\ longer[n - m + 1] = n + 1
  BY <1>1, AppendProperties
<1> HIDE DEF longer
<1>3. \A i \in 1 .. Len(longer) : longer[i] = Run(m, n + 1)[i]
  <2> SUFFICES ASSUME NEW i \in 1 .. n - m + 1 PROVE longer[i] = m + i
    BY <1>1, <1>2
  <2>1. CASE i = n - m + 1
    BY <1>2, <2>1
  <2>2. CASE i # n - m + 1
    BY <1>2, <2>2
  <2> QED BY <2>1, <2>2
<1>4. longer = Run(m, n + 1)
  BY <1>1, <1>2, <1>3, SeqEqual
<1> QED BY <1>4 DEF longer

LEMMA RunHeadTail ==
  ASSUME NEW m \in Int, NEW n \in Int, m < n
  PROVE  Run(m, n) # <<>> /\ Head(Run(m, n)) = m + 1 /\ Tail(Run(m, n)) = Run(m + 1, n)
<1>1. /\ Run(m, n) \in Seq(Int) /\ Len(Run(m, n)) = n - m
      /\ Run(m + 1, n) \in Seq(Int) /\ Len(Run(m + 1, n)) = n - m - 1
      /\ \A i \in 1 .. n - m : Run(m, n)[i] = m + i
      /\ \A i \in 1 .. n - m - 1 : Run(m + 1, n)[i] = m + 1 + i
  <2>1. m + 1 \in Int /\ m + 1 <= n /\ m <= n /\ n - (m + 1) = n - m - 1
    OBVIOUS
  <2>2. /\ Run(m + 1, n) \in Seq(Int) /\ Len(Run(m + 1, n)) = n - (m + 1)
        /\ \A i \in 1 .. n - (m + 1) : Run(m + 1, n)[i] = m + 1 + i
    BY <2>1, RunIsSeq
  <2> QED BY <2>1, <2>2, RunIsSeq
<1>2. Run(m, n) # <<>>
  BY <1>1, EmptySeq
<1>3. /\ Tail(Run(m, n)) \in Seq(Int) /\ Len(Tail(Run(m, n))) = n - m - 1
      /\ \A i \in 1 .. n - m - 1 : Tail(Run(m, n))[i] = Run(m, n)[i + 1]
  BY <1>1, <1>2, HeadTailProperties
<1>4. \A i \in 1 .. n - m - 1 : Tail(Run(m, n))[i] = Run(m + 1, n)[i]
  BY <1>1, <1>3
<1>5. Tail(Run(m, n)) = Run(m + 1, n)
  BY <1>1, <1>3, <1>4, SeqEqual
<1>6. Head(Run(m, n)) = m + 1
  BY <1>1, <1>2
<1> QED BY <1>2, <1>5, <1>6

\* The head of a concatenation is that of its first part.
LEMMA HeadTailConcat ==
  ASSUME NEW s \in Seq(Int), NEW t \in Seq(Int), s # <<>>
  PROVE  Head(s \o t) = Head(s) /\ Tail(s \o t) = Tail(s) \o t
<1> DEFINE w == s \o t
<1>1. Len(s) \in Nat \ {0} /\ Len(t) \in Nat
  BY EmptySeq, LenProperties
<1>2. /\ w \in Seq(Int) /\ Len(w) = Len(s) + Len(t)
      /\ \A i \in 1 .. Len(s) + Len(t) : w[i] = IF i <= Len(s) THEN s[i] ELSE t[i - Len(s)]
  BY ConcatProperties
<1> HIDE DEF w
<1>3. w # <<>>
  BY <1>1, <1>2, EmptySeq
<1>4. Head(w) = w[1] /\ Head(s) = s[1] /\ w[1] = s[1]
  BY <1>1, <1>2
<1>5. /\ Tail(w) \in Seq(Int) /\ Len(Tail(w)) = Len(w) - 1
      /\ \A i \in 1 .. Len(Tail(w)) : Tail(w)[i] = w[i + 1]
  BY <1>2, <1>3, HeadTailProperties
<1>6. /\ Tail(s) \in Seq(Int) /\ Len(Tail(s)) = Len(s) - 1
      /\ \A i \in 1 .. Len(Tail(s)) : Tail(s)[i] = s[i + 1]
  BY HeadTailProperties
<1> DEFINE u == Tail(s) \o t
<1>7. /\ u \in Seq(Int) /\ Len(u) = Len(Tail(s)) + Len(t)
      /\ \A i \in 1 .. Len(Tail(s)) + Len(t) :
           u[i] = IF i <= Len(Tail(s)) THEN Tail(s)[i] ELSE t[i - Len(Tail(s))]
  BY <1>6, ConcatProperties
<1> HIDE DEF u
<1>8. ASSUME NEW i \in 1 .. Len(s) + Len(t) - 1 PROVE Tail(w)[i] = u[i]
  <2>1. Tail(w)[i] = w[i + 1] /\ w[i + 1] = IF i + 1 <= Len(s) THEN s[i + 1] ELSE t[i + 1 - Len(s)]
    BY <1>1, <1>2, <1>5
  <2>2. CASE i + 1 <= Len(s)
    <3>1. Tail(w)[i] = s[i + 1]
      BY <2>1, <2>2
    <3>2. u[i] = Tail(s)[i] /\ Tail(s)[i] = s[i + 1]
      BY <1>1, <1>6, <1>7, <2>2
    <3> QED BY <3>1, <3>2
  <2>3. CASE ~ (i + 1 <= Len(s))
    <3>1. u[i] = t[i - (Len(s) - 1)] /\ i - (Len(s) - 1) = i + 1 - Len(s)
      BY <1>1, <1>6, <1>7, <2>3
    <3> QED BY <2>1, <2>3, <3>1
  <2> QED BY <2>2, <2>3
<1>9. Tail(w) = u
  <2>1. Len(Tail(w)) = Len(s) + Len(t) - 1 /\ Len(u) = Len(s) + Len(t) - 1
    BY <1>1, <1>2, <1>5, <1>6, <1>7
  <2>2. \A i \in 1 .. Len(Tail(w)) : Tail(w)[i] = u[i]
    BY <1>8, <2>1
  <2> QED BY <1>5, <1>7, <2>1, <2>2, SeqEqual
<1> QED BY <1>4, <1>9 DEF w, u

LEMMA HeadAndTail ==
  ASSUME NEW s \in Seq(Int), s # <<>>
  PROVE  <<Head(s)>> \o Tail(s) = s
<1>1. SubSeq(s, 1, Len(s)) = s /\ Len(s) \in Nat \ {0} /\ Tail(s) = SubSeq(s, 2, Len(s))
  BY SubSeqFull, EmptySeq, TailIsSubSeq
<1>2. SubSeq(s, 1, Len(s)) = <<s[1]>> \o SubSeq(s, 2, Len(s))
  <2>1. 1 \in 1 .. Len(s) /\ Len(s) \in 1 .. Len(s) /\ 1 + 1 = 2
    BY <1>1
  <2>2. SubSeq(s, 1, Len(s)) = <<s[1]>> \o SubSeq(s, 1 + 1, Len(s))
    BY <2>1, SubSeqRecursiveFirst
  <2> QED BY <2>1, <2>2
<1>3. Head(s) = s[1]
  BY <1>1
<1> QED BY <1>1, <1>2, <1>3

\* A message that is sent goes to the end of the wire.
LEMMA WireAppend ==
  ASSUME NEW k \in Int, NEW r \in Int, NEW n \in Int, k <= r, r <= n
  PROVE  Append(Run(k, r) \o <<0>> \o Run(r, n), n + 1) = Run(k, r) \o <<0>> \o Run(r, n + 1)
<1>1. Run(k, r) \in Seq(Int) /\ Run(r, n) \in Seq(Int) /\ <<0>> \in Seq(Int) /\ n + 1 \in Int
  BY RunIsSeq
<1> DEFINE front == Run(k, r) \o <<0>>
<1>2. front \in Seq(Int)
  BY <1>1, ConcatProperties
<1>3. Append(Run(r, n), n + 1) = Run(r, n + 1)
  BY RunAppend
<1> HIDE DEF front
<1>4. Append(front \o Run(r, n), n + 1) = front \o Append(Run(r, n), n + 1)
  <2> DEFINE last == Run(r, n)
  <2>1. last \in Seq(Int) /\ front \o last \in Seq(Int) /\ <<n + 1>> \in Seq(Int)
    BY <1>1, <1>2, ConcatProperties
  <2> HIDE DEF last
  <2>2. Append(front \o last, n + 1) = (front \o last) \o <<n + 1>> /\ Append(last, n + 1) = last \o <<n + 1>>
    BY <1>1, <2>1, AppendIsConcat
  <2>3. (front \o last) \o <<n + 1>> = front \o (last \o <<n + 1>>)
    BY <1>2, <2>1, ConcatAssociative
  <2>4. Append(front \o last, n + 1) = front \o Append(last, n + 1)
    BY <2>2, <2>3
  <2> QED BY <2>4 DEF last
<1> QED BY <1>3, <1>4 DEF front

\* What is first in the wire is the next message or the reply.
LEMMA WireHeadTail ==
  ASSUME NEW k \in Int, NEW r \in Int, NEW n \in Int, k <= r, r <= n
  PROVE  \A w : w = Run(k, r) \o <<0>> \o Run(r, n) =>
           /\ k = r => Head(w) = 0 /\ Tail(w) = Run(k, n)
           /\ k < r => Head(w) = k + 1 /\ Tail(w) = Run(k + 1, r) \o <<0>> \o Run(r, n)
<1> DEFINE first == Run(k, r)
           rest == <<0>> \o Run(r, n)
           w == first \o <<0>> \o Run(r, n)
<1>1. first \in Seq(Int) /\ Run(r, n) \in Seq(Int) /\ <<0>> \in Seq(Int) /\ rest \in Seq(Int)
  BY RunIsSeq, ConcatProperties
<1>2. w = first \o rest
  BY <1>1, ConcatAssociative
<1>3. CASE k = r
  <2>1. w = rest
    BY <1>1, <1>2, <1>3, RunOfNone, ConcatEmptySeq
  <2>2. Head(rest) = 0 /\ Tail(rest) = Run(r, n)
    BY <1>1, HeadTailConcat, EmptySeq
  <2> QED BY <1>3, <2>1, <2>2
<1>4. CASE k < r
  <2>1. first # <<>> /\ Head(first) = k + 1 /\ Tail(first) = Run(k + 1, r)
    BY <1>4, RunHeadTail
  <2>2. Head(first \o rest) = Head(first) /\ Tail(first \o rest) = Tail(first) \o rest
    <3> HIDE DEF first, rest
    <3> QED BY <1>1, <2>1, HeadTailConcat
  <2>3. Head(w) = k + 1 /\ Tail(w) = Run(k + 1, r) \o rest
    BY <1>2, <2>1, <2>2
  <2>4. k + 1 \in Int /\ k + 1 <= r
    BY <1>4
  <2>5. Run(k + 1, r) \in Seq(Int)
    BY <2>4, RunIsSeq
  <2>6. (Run(k + 1, r) \o <<0>>) \o Run(r, n) = Run(k + 1, r) \o rest
    BY <1>1, <2>5, ConcatAssociative
  <2>7. k # r
    BY <1>4
  <2>8. Tail(w) = (Run(k + 1, r) \o <<0>>) \o Run(r, n)
    <3> HIDE DEF w, rest
    <3> QED BY <2>3, <2>6
  <2> QED BY <2>3, <2>7, <2>8, Zenon
<1> QED BY <1>3, <1>4

\* The client holds the first messages that were sent and the wire the others,
\* as long as none was missed; what comes after the registration is not queued.
SocketTypes(s) ==
  /\ sent[s] \in Nat
  /\ delivered[s] \in Seq(Int) /\ emitChain[s] \in Seq(Int) /\ pending[s] \in Seq(Int)
  /\ registered[s] => pending[s] = <<>>
  /\ life[s] = "new" => node[s] = "none"

Quiet(s) ==
  /\ sent[s] = 0
  /\ wire[s] = <<>> /\ delivered[s] = <<>> /\ emitChain[s] = <<>> /\ pending[s] = <<>>

InOrder(s) ==
  \E k \in 0 .. sent[s] :
    /\ OnTheWire(s, k)
    /\ missed[s] = {} /\ ~broken[s] => delivered[s] \o emitChain[s] \o pending[s] = Run(0, k)

SocketDomains ==
  /\ node \in [SocketSubs -> {"none", "asked", "open", "closing", "closed", "refused"}]
  /\ DOMAIN life = SocketSubs /\ DOMAIN sent = SocketSubs /\ DOMAIN wire = SocketSubs
  /\ DOMAIN registered = SocketSubs /\ DOMAIN pending = SocketSubs
  /\ DOMAIN emitChain = SocketSubs /\ DOMAIN broken = SocketSubs
  /\ DOMAIN delivered = SocketSubs /\ DOMAIN missed = SocketSubs

SubscriberInv(s) ==
  /\ SocketTypes(s)
  /\ InOrder(s)
  /\ node[s] \in {"none", "asked", "refused"} => Quiet(s)

SocketInv == SocketDomains /\ \A s \in SocketSubs : SubscriberInv(s)

\* What the invariant says of a subscriber depends on its own state only.
Part(s) == <<life[s], node[s], sent[s], wire[s], registered[s], pending[s], emitChain[s],
             broken[s], delivered[s], missed[s]>>

LEMMA SamePart ==
  ASSUME NEW s, UNCHANGED Part(s), SubscriberInv(s)
  PROVE  SubscriberInv(s)'
<1>1. /\ life'[s] = life[s] /\ node'[s] = node[s] /\ sent'[s] = sent[s] /\ wire'[s] = wire[s]
      /\ registered'[s] = registered[s] /\ pending'[s] = pending[s]
      /\ emitChain'[s] = emitChain[s] /\ broken'[s] = broken[s]
      /\ delivered'[s] = delivered[s] /\ missed'[s] = missed[s]
  BY DEF Part
<1>2. SocketTypes(s)' /\ (Quiet(s)' <=> Quiet(s))
  BY <1>1 DEF SubscriberInv, SocketTypes, Quiet
<1>3. \A k : OnTheWire(s, k) => OnTheWire(s, k)'
  BY <1>1 DEF OnTheWire
<1>4. InOrder(s)'
  BY <1>1, <1>3 DEF SubscriberInv, InOrder
<1> QED BY <1>1, <1>2, <1>4 DEF SubscriberInv

LEMMA OneSubscriber ==
  ASSUME SocketInv, NEW s \in SocketSubs, SocketDomains',
         \A t \in SocketSubs \ {s} : UNCHANGED Part(t), SubscriberInv(s)'
  PROVE  SocketInv'
BY SamePart DEF SocketInv

\* What starts, stops, is registered, emits or is closed leaves the wire alone.
LEMMA SameWire ==
  ASSUME NEW s, SubscriberInv(s), sent'[s] = sent[s], wire'[s] = wire[s],
         missed'[s] = {} /\ ~broken'[s] =>
           /\ missed[s] = {} /\ ~broken[s]
           /\ delivered'[s] \o emitChain'[s] \o pending'[s] = delivered[s] \o emitChain[s] \o pending[s]
  PROVE  InOrder(s)'
<1>1. \A k : OnTheWire(s, k) => OnTheWire(s, k)'
  BY DEF OnTheWire
<1> QED BY <1>1 DEF SubscriberInv, InOrder

LEMMA HandleKeepsOrder ==
  ASSUME SocketInv, NEW s \in SocketSubs, NEW messages \in Seq(Int), Handle(s, messages),
         UNCHANGED <<broken, delivered>>
  PROVE  /\ emitChain'[s] \in Seq(Int)
         /\ messages = <<>> => emitChain'[s] = emitChain[s]
         /\ missed'[s] = {} => missed[s] = {} /\ emitChain'[s] = emitChain[s] \o messages
         /\ DOMAIN emitChain' = SocketSubs /\ DOMAIN missed' = SocketSubs
         /\ \A t \in SocketSubs \ {s} : emitChain'[t] = emitChain[t] /\ missed'[t] = missed[t]
<1>1. emitChain[s] \in Seq(Int) /\ DOMAIN emitChain = SocketSubs /\ DOMAIN missed = SocketSubs
  BY DEF SocketInv, SubscriberInv, SocketTypes, SocketDomains
<1>2. emitChain[s] \o messages \in Seq(Int) /\ emitChain[s] \o <<>> = emitChain[s]
  BY <1>1, ConcatProperties, ConcatEmptySeq
<1>3. CASE filterId[s] = "null" \/ muted
  <2>1. missed' = [missed EXCEPT ![s] = @ \cup Range(messages)] /\ emitChain' = emitChain
    BY <1>3 DEF Handle
  <2>2. Range(messages) = {} => messages = <<>>
    <3>1. messages # <<>> => 1 \in DOMAIN messages
      BY EmptySeq, LenProperties
    <3> QED BY <3>1 DEF Range
  <2> QED BY <1>1, <1>2, <2>1, <2>2
<1>4. CASE ~ (filterId[s] = "null" \/ muted)
  <2>1. emitChain' = [emitChain EXCEPT ![s] = @ \o messages] /\ missed' = missed
    BY <1>4 DEF Handle
  <2> QED BY <1>1, <1>2, <2>1
<1> QED BY <1>3, <1>4

LEMMA StartKeepsOrder ==
  ASSUME SocketInv, NEW s \in SocketSubs, SocketStart(s) PROVE SocketInv'
<1>1. SocketDomains' /\ \A t \in SocketSubs \ {s} : UNCHANGED Part(t)
  BY DEF SocketStart, SocketInv, SocketDomains, Part, deliveryVars
<1>2. /\ life'[s] = "started" /\ node'[s] = "asked" /\ life[s] = "new"
      /\ UNCHANGED <<sent, wire, registered, pending, emitChain, broken, delivered, missed>>
  BY DEF SocketStart, SocketInv, SocketDomains, deliveryVars
<1>3. SubscriberInv(s)
  BY DEF SocketInv
<1>4. SocketTypes(s)' /\ Quiet(s)'
  BY <1>2, <1>3 DEF SubscriberInv, SocketTypes, Quiet
<1>5. InOrder(s)'
  BY <1>2, <1>3, SameWire
<1>6. SubscriberInv(s)'
  BY <1>4, <1>5 DEF SubscriberInv
<1> QED BY <1>1, <1>6, OneSubscriber

LEMMA StopAndCloseKeepOrder ==
  ASSUME SocketInv, NEW s \in SocketSubs,
         SocketStop(s) \/ NodeCloses(s) \/ NodeRefuses(s)
  PROVE  SocketInv'
<1>1. SocketDomains' /\ \A t \in SocketSubs \ {s} : UNCHANGED Part(t)
  BY DEF SocketStop, NodeCloses, NodeRefuses, SocketInv, SocketDomains, Part, clientVars, deliveryVars
<1>2. /\ UNCHANGED <<sent, wire, registered, pending, emitChain, broken, delivered, missed>>
      /\ life'[s] # "new" \/ (life'[s] = life[s] /\ node[s] \in {"closing", "asked"})
      /\ node'[s] \in {"none", "asked", "refused"} => node[s] \in {"none", "asked", "refused"}
  BY DEF SocketStop, NodeCloses, NodeRefuses, SocketInv, SocketDomains, clientVars, deliveryVars
<1>3. SubscriberInv(s)
  BY DEF SocketInv
<1>4. SocketTypes(s)' /\ (Quiet(s) <=> Quiet(s)')
  BY <1>2, <1>3 DEF SubscriberInv, SocketTypes, Quiet
<1>5. InOrder(s)'
  BY <1>2, <1>3, SameWire
<1>6. SubscriberInv(s)'
  BY <1>2, <1>3, <1>4, <1>5 DEF SubscriberInv
<1> QED BY <1>1, <1>6, OneSubscriber

LEMMA RegisterKeepsOrder ==
  ASSUME SocketInv, NEW s \in SocketSubs, Register(s) PROVE SocketInv'
<1>1. SubscriberInv(s) /\ SocketTypes(s) /\ SocketDomains
  BY DEF SocketInv, SubscriberInv
<1>2. /\ UNCHANGED <<life, sent, wire, broken, delivered>>
      /\ registered' = [registered EXCEPT ![s] = TRUE]
      /\ pending' = [pending EXCEPT ![s] = <<>>]
      /\ node' = IF life[s] = "stopped" THEN [node EXCEPT ![s] = "closing"] ELSE node
      /\ Handle(s, pending[s])
  BY DEF Register
<1>3. /\ emitChain'[s] \in Seq(Int)
      /\ pending[s] = <<>> => emitChain'[s] = emitChain[s]
      /\ missed'[s] = {} => missed[s] = {} /\ emitChain'[s] = emitChain[s] \o pending[s]
      /\ DOMAIN emitChain' = SocketSubs /\ DOMAIN missed' = SocketSubs
      /\ \A t \in SocketSubs \ {s} : emitChain'[t] = emitChain[t] /\ missed'[t] = missed[t]
  BY <1>1, <1>2, HandleKeepsOrder DEF SocketTypes
<1>4. SocketDomains' /\ \A t \in SocketSubs \ {s} : UNCHANGED Part(t)
  BY <1>1, <1>2, <1>3 DEF SocketDomains, Part
<1>5. /\ pending'[s] = <<>>
      /\ node'[s] = node[s] \/ (node'[s] = "closing" /\ life[s] = "stopped")
  BY <1>1, <1>2 DEF SocketDomains
<1>6. SocketTypes(s)'
  BY <1>1, <1>2, <1>3, <1>5, EmptySeq DEF SocketTypes
<1>7. node'[s] \in {"none", "asked", "refused"} => Quiet(s)'
  BY <1>1, <1>2, <1>3, <1>5 DEF SubscriberInv, Quiet
<1>8. ASSUME missed'[s] = {}
      PROVE  delivered'[s] \o emitChain'[s] \o pending'[s] = delivered[s] \o emitChain[s] \o pending[s]
  <2> DEFINE d == delivered[s]
             e == emitChain[s]
             p == pending[s]
  <2>1. d \in Seq(Int) /\ e \in Seq(Int) /\ p \in Seq(Int)
    BY <1>1 DEF SocketTypes
  <2>2. delivered'[s] = d /\ emitChain'[s] = e \o p /\ pending'[s] = <<>>
    BY <1>2, <1>3, <1>5, <1>8
  <2> HIDE DEF d, e, p
  <2>3. e \o p \in Seq(Int) /\ d \o (e \o p) \in Seq(Int) /\ (d \o e) \o p = d \o (e \o p)
    BY <2>1, ConcatProperties, ConcatAssociative
  <2>4. (d \o (e \o p)) \o <<>> = d \o (e \o p)
    BY <2>3, ConcatEmptySeq
  <2> QED BY <2>2, <2>3, <2>4 DEF d, e, p
<1>9. InOrder(s)'
  BY <1>1, <1>2, <1>3, <1>8, SameWire
<1>10. SubscriberInv(s)'
  BY <1>6, <1>7, <1>9 DEF SubscriberInv
<1> QED BY <1>4, <1>10, OneSubscriber

LEMMA EmitKeepsOrder ==
  ASSUME SocketInv, NEW s \in SocketSubs, NEW fails \in BOOLEAN, EmitNext(s, fails)
  PROVE  SocketInv'
<1>1. SubscriberInv(s) /\ SocketTypes(s) /\ SocketDomains
  BY DEF SocketInv, SubscriberInv
<1>2. /\ UNCHANGED <<life, node, sent, wire, registered, pending, missed>>
      /\ emitChain[s] # <<>> /\ ~broken[s]
      /\ emitChain' = [emitChain EXCEPT ![s] = Tail(@)]
      /\ broken' = [broken EXCEPT ![s] = fails]
      /\ delivered' = IF fails THEN delivered
                      ELSE [delivered EXCEPT ![s] = Append(@, Head(emitChain[s]))]
  BY DEF EmitNext, clientVars
<1>3. SocketDomains' /\ \A t \in SocketSubs \ {s} : UNCHANGED Part(t)
  BY <1>1, <1>2 DEF SocketDomains, Part
<1>4. /\ emitChain'[s] = Tail(emitChain[s]) /\ (broken'[s] <=> fails)
      /\ IF fails THEN delivered'[s] = delivered[s]
                  ELSE delivered'[s] = Append(delivered[s], Head(emitChain[s]))
  BY <1>1, <1>2 DEF SocketDomains
<1> DEFINE d == delivered[s]
           e == emitChain[s]
           p == pending[s]
<1>5. d \in Seq(Int) /\ e \in Seq(Int) /\ p \in Seq(Int) /\ e # <<>>
  BY <1>1, <1>2 DEF SocketTypes
<1>6. /\ Tail(e) \in Seq(Int) /\ Head(e) \in Int /\ Append(d, Head(e)) \in Seq(Int)
      /\ Append(d, Head(e)) \o Tail(e) = d \o e
  <2> HIDE DEF d, e
  <2>1. Tail(e) \in Seq(Int) /\ Head(e) \in Int
    BY <1>5, HeadTailProperties
  <2>2. Append(d, Head(e)) \in Seq(Int) /\ Append(d, Head(e)) = d \o <<Head(e)>>
    BY <1>5, <2>1, AppendProperties, AppendIsConcat
  <2>3. <<Head(e)>> \in Seq(Int) /\ (d \o <<Head(e)>>) \o Tail(e) = d \o (<<Head(e)>> \o Tail(e))
    BY <1>5, <2>1, ConcatAssociative
  <2>4. <<Head(e)>> \o Tail(e) = e
    BY <1>5, HeadAndTail
  <2> QED BY <2>1, <2>2, <2>3, <2>4
<1>7. SocketTypes(s)'
  BY <1>1, <1>2, <1>4, <1>6 DEF SocketTypes
<1>8. node'[s] \notin {"none", "asked", "refused"}
  BY <1>1, <1>2 DEF SubscriberInv, Quiet
<1>9. ~broken'[s] =>
        delivered'[s] \o emitChain'[s] \o pending'[s] = delivered[s] \o emitChain[s] \o pending[s]
  BY <1>2, <1>4, <1>6
<1>10. InOrder(s)'
  BY <1>1, <1>2, <1>9, SameWire
<1>11. SubscriberInv(s)'
  BY <1>7, <1>8, <1>10 DEF SubscriberInv
<1> QED BY <1>3, <1>11, OneSubscriber

\* What the socket delivers is the next message, or the reply.
LEMMA WireShrinks ==
  ASSUME NEW s, NEW k \in 0 .. sent[s], sent[s] \in Nat, OnTheWire(s, k), wire[s] # <<>>,
         wire'[s] = Tail(wire[s]), sent'[s] = sent[s]
  PROVE  \/ Head(wire[s]) = 0 /\ OnTheWire(s, k)'
         \/ k + 1 \in 0 .. sent[s] /\ Head(wire[s]) = k + 1 /\ OnTheWire(s, k + 1)'
<1> DEFINE n == sent[s]
<1>1. CASE wire[s] = Run(k, n)
  <2>1. k < n
    BY <1>1, RunOfNone
  <2>2. k \in Int /\ n \in Int /\ k + 1 \in 0 .. sent[s]
    BY <2>1
  <2>3. Head(Run(k, n)) = k + 1 /\ Tail(Run(k, n)) = Run(k + 1, n)
    BY <2>1, <2>2, RunHeadTail
  <2> QED BY <1>1, <2>2, <2>3 DEF OnTheWire
<1>2. ASSUME NEW r \in k .. n, wire[s] = Run(k, r) \o << 0 >> \o Run(r, n)
      PROVE  \/ Head(wire[s]) = 0 /\ OnTheWire(s, k)'
             \/ k + 1 \in 0 .. sent[s] /\ Head(wire[s]) = k + 1 /\ OnTheWire(s, k + 1)'
  <2>1. /\ k = r => Head(wire[s]) = 0 /\ Tail(wire[s]) = Run(k, n)
        /\ k < r => Head(wire[s]) = k + 1 /\ Tail(wire[s]) = Run(k + 1, r) \o <<0>> \o Run(r, n)
    <3>1. k \in Int /\ r \in Int /\ n \in Int /\ k <= r /\ r <= n
      OBVIOUS
    <3> DEFINE w == Run(k, r) \o <<0>> \o Run(r, n)
    <3>2. /\ k = r => Head(w) = 0 /\ Tail(w) = Run(k, n)
          /\ k < r => Head(w) = k + 1 /\ Tail(w) = Run(k + 1, r) \o <<0>> \o Run(r, n)
      <4>1. \A v : v = w =>
              /\ k = r => Head(v) = 0 /\ Tail(v) = Run(k, n)
              /\ k < r => Head(v) = k + 1 /\ Tail(v) = Run(k + 1, r) \o <<0>> \o Run(r, n)
        BY <3>1, WireHeadTail
      <4> HIDE DEF w
      <4> QED BY <4>1
    <3> QED BY <1>2, <3>2
  <2>2. CASE k = r
    BY <2>1, <2>2 DEF OnTheWire
  <2>3. CASE k < r
    <3>1. r \in k + 1 .. n /\ k + 1 \in 0 .. sent[s]
      BY <2>3
    <3> QED BY <2>1, <2>3, <3>1 DEF OnTheWire
  <2> QED BY <2>2, <2>3
<1> QED BY <1>1, <1>2 DEF OnTheWire

LEMMA DeliverKeepsOrder ==
  ASSUME SocketInv, NEW s \in SocketSubs, Deliver(s) PROVE SocketInv'
<1>1. SubscriberInv(s) /\ SocketTypes(s) /\ SocketDomains
  BY DEF SocketInv, SubscriberInv
<1>2. /\ UNCHANGED <<life, node, sent, registered, broken, delivered>>
      /\ wire[s] # <<>> /\ wire' = [wire EXCEPT ![s] = Tail(@)]
      /\ Head(wire[s]) = 0 => UNCHANGED <<pending, emitChain, missed>>
      /\ Head(wire[s]) # 0 =>
           \/ registered[s] /\ Handle(s, <<Head(wire[s])>>) /\ UNCHANGED pending
           \/ /\ ~registered[s] /\ UNCHANGED <<emitChain, missed>>
              /\ pending' = [pending EXCEPT ![s] = Append(@, Head(wire[s]))]
  BY DEF Deliver
<1>3. wire'[s] = Tail(wire[s]) /\ node[s] \notin {"none", "asked", "refused"}
  BY <1>1, <1>2 DEF SocketDomains, SubscriberInv, Quiet
<1>4. PICK k \in 0 .. sent[s] :
        /\ OnTheWire(s, k)
        /\ missed[s] = {} /\ ~broken[s] => delivered[s] \o emitChain[s] \o pending[s] = Run(0, k)
  BY <1>1 DEF SubscriberInv, InOrder
<1>5. \/ Head(wire[s]) = 0 /\ OnTheWire(s, k)'
      \/ k + 1 \in 0 .. sent[s] /\ Head(wire[s]) = k + 1 /\ OnTheWire(s, k + 1)'
  BY <1>1, <1>2, <1>3, <1>4, WireShrinks DEF SocketTypes
<1>6. CASE Head(wire[s]) = 0 /\ OnTheWire(s, k)'
  <2>1. SocketDomains' /\ \A t \in SocketSubs \ {s} : UNCHANGED Part(t)
    BY <1>1, <1>2, <1>6 DEF SocketDomains, Part
  <2>2. SocketTypes(s)'
    BY <1>1, <1>2, <1>6 DEF SocketTypes
  <2>3. InOrder(s)'
    BY <1>2, <1>4, <1>6 DEF InOrder
  <2>4. SubscriberInv(s)'
    BY <1>2, <1>3, <2>2, <2>3 DEF SubscriberInv
  <2> QED BY <2>1, <2>4, OneSubscriber
<1>7. CASE k + 1 \in 0 .. sent[s] /\ Head(wire[s]) = k + 1 /\ OnTheWire(s, k + 1)'
  <2> DEFINE d == delivered[s]
             e == emitChain[s]
             p == pending[s]
             x == k + 1
  <2>1. /\ d \in Seq(Int) /\ e \in Seq(Int) /\ p \in Seq(Int) /\ x \in Int /\ x # 0
        /\ <<x>> \in Seq(Int) /\ Head(wire[s]) = x
    BY <1>1, <1>7 DEF SocketTypes
  <2>2. Append(p, x) = p \o <<x>> /\ p \o <<x>> \in Seq(Int) /\ e \o <<x>> \in Seq(Int)
    <3> HIDE DEF p, x, e
    <3> QED BY <2>1, AppendIsConcat, ConcatProperties
  <2>3. d \o e \o (p \o <<x>>) = (d \o e \o p) \o <<x>>
    <3> HIDE DEF d, e, p, x
    <3>1. d \o e \in Seq(Int)
      BY <2>1, ConcatProperties
    <3> QED BY <2>1, <3>1, ConcatAssociative
  <2>4. p = <<>> => d \o (e \o <<x>>) \o p = (d \o e \o p) \o <<x>>
    <3> HIDE DEF d, e, p, x
    <3>1. d \o e \in Seq(Int) /\ (d \o e) \o <<x>> \in Seq(Int) /\ (d \o e) \o <<x>> = d \o (e \o <<x>>)
      BY <2>1, ConcatProperties, ConcatAssociative
    <3>2. (d \o e) \o <<>> = d \o e /\ ((d \o e) \o <<x>>) \o <<>> = (d \o e) \o <<x>>
      BY <3>1, ConcatEmptySeq
    <3> QED BY <3>1, <3>2
  <2>5. Run(0, k) \o <<x>> = Run(0, x)
    <3>1. 0 \in Int /\ k \in Int /\ 0 <= k
      BY <1>1 DEF SocketTypes
    <3>2. Run(0, k) \in Seq(Int)
      BY <3>1, RunIsSeq
    <3>3. Append(Run(0, k), x) = Run(0, x)
      BY <3>1, RunAppend
    <3>4. Append(Run(0, k), x) = Run(0, k) \o <<x>>
      BY <2>1, <3>2, AppendIsConcat
    <3> QED BY <3>3, <3>4
  <2>6. /\ SocketDomains' /\ \A t \in SocketSubs \ {s} : UNCHANGED Part(t)
        /\ emitChain'[s] \in Seq(Int) /\ pending'[s] \in Seq(Int)
        /\ registered[s] => pending'[s] = <<>>
        /\ missed'[s] = {} =>
             /\ missed[s] = {}
             /\ d \o emitChain'[s] \o pending'[s] = (d \o e \o p) \o <<x>>
    <3>1. CASE registered[s]
      <4>1. Handle(s, <<x>>) /\ UNCHANGED pending /\ p = <<>>
        BY <1>1, <1>2, <2>1, <3>1 DEF SocketTypes
      <4>2. /\ emitChain'[s] \in Seq(Int)
            /\ missed'[s] = {} => missed[s] = {} /\ emitChain'[s] = e \o <<x>>
            /\ DOMAIN emitChain' = SocketSubs /\ DOMAIN missed' = SocketSubs
            /\ \A t \in SocketSubs \ {s} : emitChain'[t] = emitChain[t] /\ missed'[t] = missed[t]
        <5> HIDE DEF x
        <5> QED BY <1>2, <2>1, <4>1, HandleKeepsOrder
      <4>3. SocketDomains' /\ \A t \in SocketSubs \ {s} : UNCHANGED Part(t)
        BY <1>1, <1>2, <4>1, <4>2 DEF SocketDomains, Part
      <4> HIDE DEF x
      <4> QED BY <2>1, <2>4, <4>1, <4>2, <4>3
    <3>2. CASE ~registered[s]
      <4>1. UNCHANGED <<emitChain, missed>> /\ pending' = [pending EXCEPT ![s] = Append(@, x)]
        BY <1>2, <2>1, <3>2
      <4>2. pending'[s] = p \o <<x>>
        BY <1>1, <2>2, <4>1 DEF SocketDomains
      <4>3. SocketDomains' /\ \A t \in SocketSubs \ {s} : UNCHANGED Part(t)
        BY <1>1, <1>2, <4>1 DEF SocketDomains, Part
      <4> HIDE DEF x
      <4> QED BY <2>1, <2>2, <2>3, <3>2, <4>1, <4>2, <4>3
    <3> QED BY <3>1, <3>2
  <2>7. SocketTypes(s)'
    BY <1>1, <1>2, <2>6 DEF SocketTypes
  <2>8. InOrder(s)'
    <3>1. missed'[s] = {} /\ ~broken'[s] =>
            delivered'[s] \o emitChain'[s] \o pending'[s] = Run(0, x)
      <4> HIDE DEF x
      <4> QED BY <1>2, <1>4, <2>5, <2>6
    <3>2. x \in 0 .. sent'[s] /\ OnTheWire(s, x)'
      BY <1>2, <1>7
    <3> HIDE DEF x
    <3> QED BY <3>1, <3>2 DEF InOrder
  <2>9. SubscriberInv(s)'
    BY <1>2, <1>3, <2>7, <2>8 DEF SubscriberInv
  <2> QED BY <2>6, <2>9, OneSubscriber
<1> QED BY <1>5, <1>6, <1>7

\* A message that is sent comes after all others.
LEMMA WireGrows ==
  ASSUME NEW s, sent[s] \in Nat, NEW k \in 0 .. sent[s], OnTheWire(s, k),
         sent'[s] = sent[s] + 1, wire'[s] = Append(wire[s], sent[s] + 1)
  PROVE  OnTheWire(s, k)'
<1> DEFINE n == sent[s]
<1>1. k \in Int /\ n \in Int /\ k <= n
  OBVIOUS
<1>2. CASE wire[s] = Run(k, n)
  <2>1. Append(Run(k, n), n + 1) = Run(k, n + 1)
    BY <1>1, RunAppend
  <2> QED BY <1>2, <2>1 DEF OnTheWire
<1>3. ASSUME NEW r \in k .. n, wire[s] = Run(k, r) \o << 0 >> \o Run(r, n) PROVE OnTheWire(s, k)'
  <2>1. r \in Int /\ k <= r /\ r <= n /\ r \in k .. n + 1
    BY <1>1
  <2>2. Append(Run(k, r) \o <<0>> \o Run(r, n), n + 1) = Run(k, r) \o <<0>> \o Run(r, n + 1)
    BY <1>1, <2>1, WireAppend
  <2> QED BY <1>3, <2>1, <2>2 DEF OnTheWire
<1> QED BY <1>2, <1>3 DEF OnTheWire

\* The first messages may come before the reply that names the filter.
LEMMA WireOpens ==
  ASSUME NEW s, NEW early \in Nat, sent'[s] = early, wire'[s] = [k \in 1 .. early |-> k] \o << 0 >>
  PROVE  OnTheWire(s, 0)'
<1>1. wire'[s] = Run(0, early) \o <<0>> \o Run(early, early)
  <2> DEFINE opening == Run(0, early) \o <<0>>
  <2>1. Run(0, early) = [k \in 1 .. early |-> k]
    BY DEF Run
  <2>2. Run(0, early) \in Seq(Int) /\ <<0>> \in Seq(Int) /\ opening \in Seq(Int)
    BY RunIsSeq, ConcatProperties
  <2> HIDE DEF opening
  <2>3. opening \o <<>> = opening
    BY <2>2, ConcatEmptySeq
  <2>4. Run(early, early) = <<>>
    BY RunOfNone
  <2>5. wire'[s] = opening
    BY <2>1 DEF opening
  <2>6. opening \o Run(early, early) = opening
    BY <2>3, <2>4
  <2>7. wire'[s] = opening \o Run(early, early)
    BY <2>5, <2>6
  <2> QED BY <2>7 DEF opening
<1>2. early \in 0 .. sent'[s]
  OBVIOUS
<1> QED BY <1>1, <1>2 DEF OnTheWire

LEMMA OpenKeepsOrder ==
  ASSUME SocketInv, NEW s \in SocketSubs, NodeOpens(s) PROVE SocketInv'
<1>1. SubscriberInv(s) /\ SocketTypes(s) /\ SocketDomains
  BY DEF SocketInv, SubscriberInv
<1>2. PICK early \in 0 .. MaxMessages :
        /\ UNCHANGED <<life, registered, pending, emitChain, broken, delivered, missed>>
        /\ node[s] = "asked" /\ node' = [node EXCEPT ![s] = "open"]
        /\ sent' = [sent EXCEPT ![s] = early]
        /\ wire' = [wire EXCEPT ![s] = [k \in 1 .. early |-> k] \o <<0>>]
  BY DEF NodeOpens, clientVars, deliveryVars
<1>3. SocketDomains' /\ \A t \in SocketSubs \ {s} : UNCHANGED Part(t)
  BY <1>1, <1>2 DEF SocketDomains, Part
<1>4. /\ node'[s] = "open" /\ sent'[s] = early /\ early \in Nat
      /\ wire'[s] = [k \in 1 .. early |-> k] \o <<0>>
  BY <1>1, <1>2, SocketAssumption DEF SocketDomains
<1>5. Quiet(s)
  BY <1>1, <1>2 DEF SubscriberInv
<1>6. OnTheWire(s, 0)'
  BY <1>4, WireOpens
<1>7. delivered'[s] \o emitChain'[s] \o pending'[s] = Run(0, 0)
  <2>1. delivered'[s] = <<>> /\ emitChain'[s] = <<>> /\ pending'[s] = <<>>
    BY <1>2, <1>5 DEF Quiet
  <2>2. <<>> \o <<>> = <<>>
    BY ConcatEmptySeq, EmptySeq
  <2>3. Run(0, 0) = <<>>
    BY RunOfNone
  <2> QED BY <2>1, <2>2, <2>3
<1>8. InOrder(s)'
  <2>1. 0 \in 0 .. sent'[s]
    BY <1>4
  <2> QED BY <1>6, <1>7, <2>1 DEF InOrder
<1>9. SocketTypes(s)'
  BY <1>1, <1>2, <1>4 DEF SocketTypes
<1>10. SubscriberInv(s)'
  BY <1>4, <1>8, <1>9 DEF SubscriberInv
<1> QED BY <1>3, <1>10, OneSubscriber

LEMMA SendKeepsOrder ==
  ASSUME SocketInv, NEW s \in SocketSubs, NodeSends(s) PROVE SocketInv'
<1>1. SubscriberInv(s) /\ SocketTypes(s) /\ SocketDomains
  BY DEF SocketInv, SubscriberInv
<1>2. /\ UNCHANGED <<life, node, registered, pending, emitChain, broken, delivered, missed>>
      /\ node[s] \in {"open", "closing"}
      /\ sent' = [sent EXCEPT ![s] = @ + 1]
      /\ wire' = [wire EXCEPT ![s] = Append(@, sent[s] + 1)]
  BY DEF NodeSends, clientVars, deliveryVars
<1>3. SocketDomains' /\ \A t \in SocketSubs \ {s} : UNCHANGED Part(t)
  BY <1>1, <1>2 DEF SocketDomains, Part
<1> DEFINE n == sent[s]
<1>4. sent'[s] = n + 1 /\ wire'[s] = Append(wire[s], n + 1) /\ n \in Nat
  BY <1>1, <1>2 DEF SocketDomains, SocketTypes
<1>5. ASSUME NEW k \in 0 .. n, OnTheWire(s, k) PROVE OnTheWire(s, k)'
  BY <1>4, <1>5, WireGrows
<1>6. InOrder(s)'
  <2>1. PICK k \in 0 .. n :
          /\ OnTheWire(s, k)
          /\ missed[s] = {} /\ ~broken[s] => delivered[s] \o emitChain[s] \o pending[s] = Run(0, k)
    BY <1>1 DEF SubscriberInv, InOrder
  <2>2. k \in 0 .. sent'[s] /\ OnTheWire(s, k)'
    BY <1>4, <1>5, <2>1
  <2> QED BY <1>2, <2>1, <2>2 DEF InOrder
<1>7. SocketTypes(s)'
  BY <1>1, <1>2, <1>4 DEF SocketTypes
<1>8. SubscriberInv(s)'
  BY <1>2, <1>6, <1>7 DEF SubscriberInv
<1> QED BY <1>3, <1>8, OneSubscriber

LEMMA SocketBegins == SocketInit => SocketInv
<1> SUFFICES ASSUME SocketInit PROVE SocketInv
  OBVIOUS
<1>1. SocketDomains
  BY DEF SocketInit, SocketDomains
<1>2. ASSUME NEW s \in SocketSubs PROVE SubscriberInv(s)
  <2>1. Quiet(s) /\ SocketTypes(s)
    BY EmptySeq DEF SocketInit, Quiet, SocketTypes
  <2>2. <<>> \o <<>> = <<>> /\ Run(0, 0) = <<>>
    BY ConcatEmptySeq, EmptySeq, RunOfNone
  <2>3. InOrder(s)
    BY <2>1, <2>2 DEF Quiet, InOrder, OnTheWire
  <2> QED BY <2>1, <2>3 DEF SubscriberInv
<1> QED BY <1>1, <1>2 DEF SocketInv

LEMMA SocketInvStep == SocketInv /\ [SocketNext]_socketVars => SocketInv'
<1> SUFFICES ASSUME SocketInv, [SocketNext]_socketVars PROVE SocketInv'
  OBVIOUS
<1>1. CASE SocketPause \/ SocketResume \/ UNCHANGED socketVars
  <2>1. UNCHANGED <<life, node, sent, wire, registered, pending, emitChain, broken, delivered, missed>>
    BY <1>1 DEF SocketPause, SocketResume, socketVars, deliveryVars
  <2>2. \A s : UNCHANGED Part(s)
    BY <2>1 DEF Part
  <2>3. SocketDomains'
    BY <2>1 DEF SocketInv, SocketDomains
  <2> QED BY <2>2, <2>3, SamePart DEF SocketInv
<1>2. ASSUME NEW s \in SocketSubs, SocketStart(s) \/ SocketStop(s) \/ SocketProgress(s) \/ NodeSends(s)
      PROVE  SocketInv'
  BY <1>2, StartKeepsOrder, StopAndCloseKeepOrder, RegisterKeepsOrder, DeliverKeepsOrder,
     EmitKeepsOrder, OpenKeepsOrder, SendKeepsOrder DEF SocketProgress
<1> QED BY <1>1, <1>2 DEF SocketNext

\* As long as a subscriber was neither stopped nor paused and has not failed,
\* nothing is lost or reordered between the node and the listeners.
THEOREM NotesArriveInOrder == SocketSpec => []NotesInOrder
<1>1. SocketInit => SocketInv
  BY SocketBegins
<1>2. SocketInv => NotesInOrder
  BY DEF SocketInv, SubscriberInv, InOrder, NotesInOrder
<1> QED BY <1>1, <1>2, SocketInvStep, PTL DEF SocketSpec

-----------------------------------------------------------------------------
(* The channel of a SocketSubscriber *)

\* What the socket has delivered of the first k messages is in the queues of the
\* client in the order in which it was sent; the others are in the wire.
Held(s, k) ==
  /\ emitChain[s] \in Seq(Nat) /\ pending[s] \in Seq(Nat)
  /\ Ascends(emitChain[s], 0) /\ Ascends(pending[s], 0)
  /\ Range(emitChain[s]) \cup Range(pending[s]) \subseteq 1 .. k
  /\ \A m \in Range(emitChain[s]), n \in Range(pending[s]) : m < n

ChannelPart(s) ==
  /\ life[s] \in {"new", "started", "stopped"}
  /\ filterId[s] = "null" <=> life[s] # "started"
  /\ \E k \in 0 .. sent[s] : OnTheWire(s, k) /\ Held(s, k)

ChannelDomains ==
  DOMAIN filterId = SocketSubs /\ broken \in [SocketSubs -> BOOLEAN] /\ sent \in [SocketSubs -> Nat]
ChannelInv == SocketInv /\ ChannelDomains /\ \A s \in SocketSubs : ChannelPart(s)

\* What else a subscriber's part depends on.
Own(s) == <<Part(s), filterId[s]>>

LEMMA SameChannelPart ==
  ASSUME NEW s, UNCHANGED Own(s), ChannelPart(s)
  PROVE  ChannelPart(s)'
<1>1. /\ life'[s] = life[s] /\ filterId'[s] = filterId[s] /\ sent'[s] = sent[s] /\ wire'[s] = wire[s]
      /\ pending'[s] = pending[s] /\ emitChain'[s] = emitChain[s]
  BY DEF Own, Part
<1>2. \A k : OnTheWire(s, k) /\ Held(s, k) => OnTheWire(s, k)' /\ Held(s, k)'
  BY <1>1 DEF OnTheWire, Held
<1> QED BY <1>1, <1>2 DEF ChannelPart

LEMMA OneChannel ==
  ASSUME ChannelInv, SocketInv', ChannelDomains', NEW s \in SocketSubs,
         \A t \in SocketSubs \ {s} : UNCHANGED Own(t), ChannelPart(s)'
  PROVE  ChannelInv'
BY SameChannelPart DEF ChannelInv

\* A step of one subscriber changes its place in the channel only.
LEMMA OnePlace ==
  ASSUME NEW s \in SocketSubs, \A t \in SocketSubs \ {s} : UNCHANGED Own(t)
  PROVE  /\ Waiting' = [Waiting EXCEPT ![s] = Range(pending'[s]) \cup (Range(wire'[s]) \ {0})]
         /\ Accepted' = [Accepted EXCEPT ![s] = Range(emitChain'[s])]
<1>1. \A t \in SocketSubs \ {s} :
        pending'[t] = pending[t] /\ wire'[t] = wire[t] /\ emitChain'[t] = emitChain[t]
  BY DEF Own, Part
<1>2. Waiting' = [Waiting EXCEPT ![s] = Range(pending'[s]) \cup (Range(wire'[s]) \ {0})]
  BY <1>1 DEF Waiting
<1>3. Accepted' = [Accepted EXCEPT ![s] = Range(emitChain'[s])]
  BY <1>1 DEF Accepted
<1> QED BY <1>2, <1>3

LEMMA RangeOfRun ==
  ASSUME NEW m \in Nat, NEW n \in Nat, m <= n
  PROVE  Run(m, n) \in Seq(Nat) /\ Range(Run(m, n)) = m + 1 .. n
<1>1. Run(m, n) = [i \in 1 .. n - m |-> m + i] /\ n - m \in Nat /\ m + (n - m) = n
  BY DEF Run
<1>2. /\ [i \in 1 .. n - m |-> m + i] \in Seq(Nat)
      /\ Range([i \in 1 .. n - m |-> m + i]) = m + 1 .. m + (n - m)
  BY <1>1, AscendsUp
<1> QED BY <1>1, <1>2

\* A wire that has delivered the first k of n messages holds the others.
LEMMA WireHolds ==
  ASSUME NEW n \in Nat, NEW k \in 0 .. n, NEW w,
         w = Run(k, n) \/ \E r \in k .. n : w = Run(k, r) \o << 0 >> \o Run(r, n)
  PROVE  Range(w) \ {0} = k + 1 .. n
<1>1. CASE w = Run(k, n)
  <2>1. k \in Nat /\ n \in Nat /\ k <= n
    OBVIOUS
  <2>2. Range(Run(k, n)) = k + 1 .. n
    BY <2>1, RangeOfRun
  <2> QED BY <1>1, <2>2
<1>2. ASSUME NEW r \in k .. n, w = Run(k, r) \o << 0 >> \o Run(r, n)
      PROVE  Range(w) \ {0} = k + 1 .. n
  <2> DEFINE first == Run(k, r)
             reply == << 0 >>
             last  == Run(r, n)
  <2>1. k \in Nat /\ r \in Nat /\ n \in Nat /\ k <= r /\ r <= n
    OBVIOUS
  <2>2. first \in Seq(Nat) /\ Range(first) = k + 1 .. r /\ last \in Seq(Nat) /\ Range(last) = r + 1 .. n
    BY <2>1, RangeOfRun
  <2>3. reply \in Seq(Nat) /\ Range(reply) = {0}
    BY AscendsOne
  <2> DEFINE front == first \o reply
  <2> HIDE DEF first, reply, last
  <2>4. front \in Seq(Nat) /\ Range(front) = Range(first) \cup Range(reply)
    BY <2>2, <2>3, RangeOfConcat, ConcatProperties
  <2> HIDE DEF front
  <2>5. Range(front \o last) = Range(front) \cup Range(last)
    BY <2>2, <2>4, RangeOfConcat
  <2>6. w = front \o last
    BY <1>2 DEF front, first, reply, last
  <2>7. Range(w) = (k + 1 .. r) \cup {0} \cup (r + 1 .. n)
    BY <2>2, <2>3, <2>4, <2>5, <2>6
  <2> QED BY <2>1, <2>7
<1> QED BY <1>1, <1>2

LEMMA RangeInNat ==
  ASSUME NEW q \in Seq(Nat)
  PROVE  Range(q) \subseteq Nat
BY LenProperties DEF Range

\* The last one of a queue is the greatest.
LEMMA LastIsGreatest ==
  ASSUME NEW q \in Seq(Nat), q # <<>>, Ascends(q, 0), \A x \in Range(q) : x > 0
  PROVE  \E last \in Range(q) : \A x \in Range(q) : x <= last
<1> DEFINE n == Len(q)
<1>1. n \in Nat /\ n >= 1 /\ DOMAIN q = 1 .. n /\ Len(q) = n
  BY EmptySeq, LenProperties
<1> HIDE DEF n
<1>2. ASSUME NEW i \in 1 .. n PROVE q[i] <= q[n]
  <2>1. i \in 1 .. n /\ n \in 1 .. n /\ i \in Nat
    BY <1>1
  <2>2. q[i] \in Nat /\ q[n] \in Nat /\ q[i] > 0 /\ q[n] > 0
    BY <1>1, <2>1 DEF Range
  <2>3. CASE i = n
    BY <2>2, <2>3
  <2>4. CASE i # n
    <3>1. i < n
      BY <1>1, <2>1, <2>4
    <3>2. q[i] < q[n]
      BY <1>1, <2>1, <2>2, <3>1 DEF Ascends
    <3> QED BY <2>2, <3>2
  <2> QED BY <2>3, <2>4
<1>3. q[n] \in Range(q)
  BY <1>1 DEF Range
<1> QED BY <1>1, <1>2, <1>3 DEF Range

\* What starts, stops, is paused or resumed turns the channel.
LEMMA TurnsChannel ==
  ASSUME \A s \in SocketSubs : life[s] = "stopped" => life'[s] = "stopped",
         UNCHANGED <<sent, wire, pending, emitChain, delivered, broken>>
  PROVE  Channel!Turn
<1>1. Mode' \in [SocketSubs -> {"deaf", "listening", "over"}]
  BY DEF Mode
<1>2. \A s \in SocketSubs : Mode[s] = "over" => Mode'[s] = "over"
  BY DEF Mode
<1>3. UNCHANGED <<Waiting, Accepted>>
  BY DEF Waiting, Accepted
<1> QED BY <1>1, <1>2, <1>3 DEF Channel!Turn

LEMMA StartTurns ==
  ASSUME ChannelInv, NEW s \in SocketSubs, SocketStart(s)
  PROVE  ChannelInv' /\ Channel!Turn
<1>1. /\ life[s] = "new" /\ life' = [life EXCEPT ![s] = "started"]
      /\ filterId' = [filterId EXCEPT ![s] = "pending"]
      /\ UNCHANGED <<sent, wire, pending, emitChain, delivered, broken, registered, missed>>
      /\ node' = [node EXCEPT ![s] = "asked"]
  BY DEF SocketStart, deliveryVars
<1>2. SocketInv' /\ SocketDomains
  BY StartKeepsOrder DEF ChannelInv, SocketInv
<1>3. \A t \in SocketSubs \ {s} : UNCHANGED Own(t)
  BY <1>1, <1>2 DEF ChannelInv, ChannelDomains, SocketDomains, Own, Part
<1>4. ChannelPart(s)'
  <2>1. \A k : OnTheWire(s, k) /\ Held(s, k) => OnTheWire(s, k)' /\ Held(s, k)'
    BY <1>1 DEF OnTheWire, Held
  <2>2. life'[s] = "started" /\ filterId'[s] = "pending" /\ sent'[s] = sent[s]
    BY <1>1, <1>2 DEF ChannelInv, ChannelDomains, SocketDomains
  <2> QED BY <2>1, <2>2 DEF ChannelInv, ChannelPart
<1>5. Channel!Turn
  BY <1>1, <1>2, TurnsChannel DEF SocketDomains
<1> QED BY <1>1, <1>2, <1>3, <1>4, <1>5, OneChannel DEF ChannelInv, ChannelDomains

LEMMA StopTurns ==
  ASSUME ChannelInv, NEW s \in SocketSubs, SocketStop(s)
  PROVE  ChannelInv' /\ Channel!Turn
<1>1. /\ life[s] = "started" /\ life' = [life EXCEPT ![s] = "stopped"]
      /\ filterId' = [filterId EXCEPT ![s] = "null"]
      /\ UNCHANGED <<sent, wire, pending, emitChain, delivered, broken, registered, missed>>
      /\ node' = IF registered[s] THEN [node EXCEPT ![s] = "closing"] ELSE node
  BY DEF SocketStop, deliveryVars
<1>2. SocketInv' /\ SocketDomains
  BY StopAndCloseKeepOrder DEF ChannelInv, SocketInv
<1>3. \A t \in SocketSubs \ {s} : UNCHANGED Own(t)
  BY <1>1, <1>2 DEF ChannelInv, ChannelDomains, SocketDomains, Own, Part
<1>4. ChannelPart(s)'
  <2>1. \A k : OnTheWire(s, k) /\ Held(s, k) => OnTheWire(s, k)' /\ Held(s, k)'
    BY <1>1 DEF OnTheWire, Held
  <2>2. life'[s] = "stopped" /\ filterId'[s] = "null" /\ sent'[s] = sent[s]
    BY <1>1, <1>2 DEF ChannelInv, ChannelDomains, SocketDomains
  <2> QED BY <2>1, <2>2 DEF ChannelInv, ChannelPart
<1>5. Channel!Turn
  BY <1>1, <1>2, TurnsChannel DEF SocketDomains
<1> QED BY <1>1, <1>2, <1>3, <1>4, <1>5, OneChannel DEF ChannelInv, ChannelDomains

LEMMA PausesTurn ==
  ASSUME ChannelInv, SocketPause \/ SocketResume
  PROVE  ChannelInv' /\ Channel!Turn
<1>1. UNCHANGED <<filterId, life, node, sent, wire, registered, pending, emitChain, broken,
                  delivered, missed>>
  BY DEF SocketPause, SocketResume, deliveryVars
<1>2. SocketInv'
  <2>1. SocketNext
    BY DEF SocketNext
  <2> QED BY <2>1, SocketInvStep DEF ChannelInv
<1>3. \A s : UNCHANGED Own(s)
  BY <1>1 DEF Own, Part
<1>4. ChannelInv'
  BY <1>1, <1>2, <1>3, SameChannelPart DEF ChannelInv, ChannelDomains
<1>5. Channel!Turn
  BY <1>1, TurnsChannel
<1> QED BY <1>4, <1>5

\* What the node does but sending leaves the channel alone.
LEMMA NodeIsNoChannel ==
  ASSUME ChannelInv, NEW s \in SocketSubs, NodeRefuses(s) \/ NodeCloses(s)
  PROVE  ChannelInv' /\ UNCHANGED Channel!vars
<1>1. /\ UNCHANGED <<filterId, life, muted, sent, wire, registered, pending, emitChain, broken,
                     delivered, missed>>
      /\ \A t \in SocketSubs \ {s} : node'[t] = node[t]
  BY DEF NodeRefuses, NodeCloses, clientVars, deliveryVars, ChannelInv, SocketInv, SocketDomains
<1>2. SocketInv'
  BY StopAndCloseKeepOrder DEF ChannelInv
<1>3. \A t \in SocketSubs \ {s} : UNCHANGED Own(t)
  BY <1>1 DEF Own, Part
<1>4. ChannelPart(s)'
  <2>1. \A k : OnTheWire(s, k) /\ Held(s, k) => OnTheWire(s, k)' /\ Held(s, k)'
    BY <1>1 DEF OnTheWire, Held
  <2> QED BY <1>1, <2>1 DEF ChannelInv, ChannelPart
<1>5. UNCHANGED Channel!vars
  BY <1>1 DEF Channel!vars, Mode, Waiting, Accepted
<1> QED BY <1>1, <1>2, <1>3, <1>4, <1>5, OneChannel DEF ChannelInv, ChannelDomains

LEMMA EmitHandsOn ==
  ASSUME ChannelInv, NEW s \in SocketSubs, NEW fails \in BOOLEAN, EmitNext(s, fails)
  PROVE  ChannelInv' /\ Channel!HandOn(s)
<1>1. /\ UNCHANGED <<filterId, life, muted, node, sent, wire, registered, pending, missed>>
      /\ emitChain[s] # <<>> /\ ~broken[s]
      /\ emitChain' = [emitChain EXCEPT ![s] = Tail(@)]
      /\ broken' = [broken EXCEPT ![s] = fails]
      /\ delivered' = IF fails THEN delivered
                      ELSE [delivered EXCEPT ![s] = Append(@, Head(emitChain[s]))]
  BY DEF EmitNext, clientVars
<1>2. SocketInv' /\ SocketDomains
  BY EmitKeepsOrder DEF ChannelInv, SocketInv
<1>3. \A t \in SocketSubs \ {s} : UNCHANGED Own(t)
  BY <1>1, <1>2 DEF SocketDomains, Own, Part
<1>4. emitChain'[s] = Tail(emitChain[s])
  BY <1>1, <1>2 DEF SocketDomains
<1>5. PICK k \in 0 .. sent[s] : OnTheWire(s, k) /\ Held(s, k)
  BY DEF ChannelInv, ChannelPart
<1> DEFINE q == emitChain[s]
           m == Head(q)
<1>6. /\ Tail(q) \in Seq(Nat) /\ Head(q) \in Range(q) /\ Ascends(Tail(q), 0)
      /\ Range(Tail(q)) = Range(q) \ {Head(q)}
      /\ Head(q) > 0 => \A x \in Range(q) : x > 0 => Head(q) <= x
  <2>1. q \in Seq(Nat) /\ q # <<>> /\ Ascends(q, 0) /\ 0 \in Nat
    BY <1>1, <1>5 DEF Held
  <2> HIDE DEF q
  <2> QED BY <2>1, AscendsTail
<1>7. \A x \in Range(q) : x \in 1 .. k
  BY <1>5 DEF Held
<1>8. m \in Range(q) /\ \A x \in Range(q) : m <= x
  <2>1. k \in Int
    BY <1>2, <1>5
  <2> QED BY <1>6, <1>7
<1>9. Held(s, k)' /\ OnTheWire(s, k)'
  BY <1>1, <1>4, <1>5, <1>6 DEF Held, OnTheWire
<1>10. ChannelPart(s)'
  BY <1>1, <1>5, <1>9 DEF ChannelInv, ChannelPart
<1>11. Channel!HandOn(s)
  <2>1. Mode' = Mode /\ Waiting' = Waiting
    BY <1>1 DEF Mode, Waiting
  <2>2. Accepted' = [Accepted EXCEPT ![s] = @ \ {m}] /\ Accepted[s] = Range(q)
    <3>1. Accepted' = [Accepted EXCEPT ![s] = Range(emitChain'[s])]
      BY <1>3, OnePlace
    <3> QED BY <1>4, <1>6, <3>1 DEF Accepted
  <2>3. \/ delivered' = [delivered EXCEPT ![s] = Append(@, m)] /\ broken' = broken
        \/ broken' = [broken EXCEPT ![s] = TRUE] /\ delivered' = delivered
    <3>1. CASE fails = TRUE
      BY <1>1, <3>1
    <3>2. CASE fails = FALSE
      <4>1. broken[s] = FALSE /\ broken' = [broken EXCEPT ![s] = FALSE] /\ broken \in [SocketSubs -> BOOLEAN]
        BY <1>1, <3>2 DEF ChannelInv, ChannelDomains
      <4>2. broken' = broken
        BY <4>1
      <4> QED BY <1>1, <3>2, <4>2
    <3> QED BY <3>1, <3>2
  <2> QED BY <1>1, <1>8, <2>1, <2>2, <2>3 DEF Channel!HandOn
<1> QED BY <1>1, <1>2, <1>3, <1>10, <1>11, OneChannel DEF ChannelInv, ChannelDomains

LEMMA SendSends ==
  ASSUME ChannelInv, NEW s \in SocketSubs, NodeSends(s)
  PROVE  ChannelInv' /\ Channel!Send(s)
<1>1. /\ UNCHANGED <<filterId, life, muted, node, registered, pending, emitChain, broken, delivered, missed>>
      /\ sent[s] < MaxMessages
      /\ sent' = [sent EXCEPT ![s] = @ + 1]
      /\ wire' = [wire EXCEPT ![s] = Append(@, sent[s] + 1)]
  BY DEF NodeSends, clientVars, deliveryVars
<1>2. SocketInv' /\ SocketDomains
  BY SendKeepsOrder DEF ChannelInv, SocketInv
<1>3. \A t \in SocketSubs \ {s} : UNCHANGED Own(t)
  BY <1>1, <1>2 DEF SocketDomains, Own, Part
<1> DEFINE n == sent[s]
<1>4. n \in Nat /\ sent'[s] = n + 1 /\ wire'[s] = Append(wire[s], n + 1)
  BY <1>1, <1>2 DEF SocketDomains, ChannelInv, SocketInv, SubscriberInv, SocketTypes
<1>5. PICK k \in 0 .. n : OnTheWire(s, k) /\ Held(s, k)
  BY DEF ChannelInv, ChannelPart
<1>6. OnTheWire(s, k)' /\ Held(s, k)'
  BY <1>1, <1>4, <1>5, WireGrows DEF Held
<1>7. k \in 0 .. n + 1
  BY <1>4
<1>8. ChannelPart(s)'
  BY <1>1, <1>4, <1>6, <1>7 DEF ChannelInv, ChannelPart
<1>9. Range(wire[s]) \ {0} = k + 1 .. n
  BY <1>4, <1>5, WireHolds DEF OnTheWire
<1>10. Range(wire'[s]) \ {0} = k + 1 .. n + 1
  <2>1. n + 1 \in Nat /\ k \in 0 .. n + 1
    BY <1>4, <1>7
  <2>2. wire'[s] = Run(k, n + 1) \/ \E r \in k .. n + 1 : wire'[s] = Run(k, r) \o << 0 >> \o Run(r, n + 1)
    BY <1>4, <1>6 DEF OnTheWire
  <2> QED BY <2>1, <2>2, WireHolds
<1>11. Channel!Send(s)
  <2>1. Mode' = Mode /\ Accepted' = Accepted
    BY <1>1 DEF Mode, Accepted
  <2>2. Waiting' = [Waiting EXCEPT ![s] = @ \cup (n + 1 .. n + 1)]
    <3>1. Waiting' = [Waiting EXCEPT ![s] = Range(pending'[s]) \cup (Range(wire'[s]) \ {0})]
      BY <1>3, OnePlace
    <3>2. (k + 1 .. n + 1) = (k + 1 .. n) \cup (n + 1 .. n + 1)
      BY <1>4
    <3>3. Range(pending'[s]) \cup (Range(wire'[s]) \ {0}) = Waiting[s] \cup (n + 1 .. n + 1)
      BY <1>1, <1>9, <1>10, <3>2 DEF Waiting
    <3> QED BY <3>1, <3>3
  <2>3. 1 \in 1 .. MaxMessages
    BY <1>1, <1>4, SocketAssumption
  <2> QED BY <1>1, <2>1, <2>2, <2>3 DEF Channel!Send
<1> QED BY <1>1, <1>2, <1>3, <1>8, <1>11, OneChannel DEF ChannelInv, ChannelDomains

LEMMA OpenSends ==
  ASSUME ChannelInv, NEW s \in SocketSubs, NodeOpens(s)
  PROVE  ChannelInv' /\ (Channel!Send(s) \/ UNCHANGED Channel!vars)
<1>1. PICK early \in 0 .. MaxMessages :
        /\ UNCHANGED <<filterId, life, muted, registered, pending, emitChain, broken, delivered, missed>>
        /\ node[s] = "asked" /\ node' = [node EXCEPT ![s] = "open"]
        /\ sent' = [sent EXCEPT ![s] = early]
        /\ wire' = [wire EXCEPT ![s] = [k \in 1 .. early |-> k] \o <<0>>]
  BY DEF NodeOpens, clientVars, deliveryVars
<1>2. SocketInv' /\ SocketDomains
  BY OpenKeepsOrder DEF ChannelInv, SocketInv
<1>3. \A t \in SocketSubs \ {s} : UNCHANGED Own(t)
  BY <1>1, <1>2 DEF SocketDomains, Own, Part
<1>4. /\ early \in Nat /\ sent'[s] = early /\ wire'[s] = [k \in 1 .. early |-> k] \o <<0>>
      /\ sent[s] = 0 /\ wire[s] = <<>> /\ emitChain[s] = <<>> /\ pending[s] = <<>>
  BY <1>1, <1>2, SocketAssumption DEF SocketDomains, ChannelInv, SocketInv, SubscriberInv, Quiet
<1>5. OnTheWire(s, 0)'
  BY <1>4, WireOpens
<1>6. Held(s, 0)'
  BY <1>1, <1>4, AscendsNone DEF Held
<1>7. ChannelPart(s)'
  <2>1. 0 \in 0 .. sent'[s]
    BY <1>4
  <2> QED BY <1>1, <1>5, <1>6, <2>1 DEF ChannelInv, ChannelPart
<1>8. Range(wire[s]) = {} /\ Range(pending'[s]) = {} /\ Range(wire'[s]) \ {0} = 1 .. early
  <2>1. 0 \in 0 .. early /\ 0 + 1 = 1
    BY <1>4
  <2> DEFINE w == wire'[s]
  <2>2. w = Run(0, early) \/ \E r \in 0 .. early : w = Run(0, r) \o << 0 >> \o Run(r, early)
    BY <1>4, <1>5 DEF OnTheWire
  <2> DEFINE z == 0
  <2>3. Range(w) \ {0} = z + 1 .. early
    <3>1. /\ z \in 0 .. early
          /\ w = Run(z, early) \/ \E r \in z .. early : w = Run(z, r) \o << 0 >> \o Run(r, early)
      BY <2>1, <2>2
    <3> HIDE DEF w, z
    <3> QED BY <1>4, <3>1, WireHolds
  <2> QED BY <1>1, <1>4, <2>1, <2>3, AscendsNone
<1>9. Mode' = Mode /\ Accepted' = Accepted
  BY <1>1 DEF Mode, Accepted
<1>10. Waiting' = [Waiting EXCEPT ![s] = 1 .. early] /\ Waiting[s] = {}
  <2>1. Waiting' = [Waiting EXCEPT ![s] = Range(pending'[s]) \cup (Range(wire'[s]) \ {0})]
    BY <1>3, OnePlace
  <2> QED BY <1>1, <1>4, <1>8, <2>1 DEF Waiting
<1>11. CASE early = 0
  <2>1. Waiting' = Waiting /\ sent' = sent
    <3>1. Waiting = [t \in SocketSubs |-> Waiting[t]] /\ (1 .. early) = {}
      BY <1>11 DEF Waiting
    <3>2. Waiting' = Waiting
      BY <1>10, <3>1
    <3>3. sent' = [sent EXCEPT ![s] = sent[s]] /\ sent \in [SocketSubs -> Nat]
      BY <1>1, <1>4, <1>11 DEF ChannelInv, ChannelDomains
    <3> QED BY <3>2, <3>3
  <2>2. UNCHANGED Channel!vars
    BY <1>1, <1>9, <2>1 DEF Channel!vars
  <2> QED BY <1>1, <1>2, <1>3, <1>7, <2>2, OneChannel DEF ChannelInv, ChannelDomains
<1>12. CASE early # 0
  <2>1. early \in 1 .. MaxMessages
    BY <1>4, <1>12
  <2>2. /\ sent' = [sent EXCEPT ![s] = @ + early]
        /\ Waiting' = [Waiting EXCEPT ![s] = @ \cup (sent[s] + 1 .. sent[s] + early)]
    BY <1>1, <1>4, <1>10
  <2>3. Channel!Send(s)
    BY <1>1, <1>9, <2>1, <2>2 DEF Channel!Send
  <2> QED BY <1>1, <1>2, <1>3, <1>7, <2>3, OneChannel DEF ChannelInv, ChannelDomains
<1> QED BY <1>11, <1>12

\* What is handled is accepted, if the subscriber listens.
LEMMA HandleAccepts ==
  ASSUME ChannelInv, NEW s \in SocketSubs, NEW messages \in Seq(Nat), Ascends(messages, 0),
         Ascends(emitChain[s], 0), emitChain[s] \in Seq(Nat),
         \A m \in Range(emitChain[s]), n \in Range(messages) : m < n,
         Handle(s, messages), UNCHANGED <<life, muted, broken, delivered>>
  PROVE  /\ emitChain'[s] \in Seq(Nat) /\ Ascends(emitChain'[s], 0)
         /\ Range(emitChain'[s]) = IF Mode[s] = "listening" THEN Range(emitChain[s]) \cup Range(messages)
                                   ELSE Range(emitChain[s])
         /\ \A t \in SocketSubs \ {s} : emitChain'[t] = emitChain[t]
<1>1. DOMAIN emitChain = SocketSubs /\ DOMAIN missed = SocketSubs
  BY DEF ChannelInv, SocketInv, SocketDomains
<1>2. life[s] \in {"new", "started", "stopped"} /\ (filterId[s] = "null" <=> life[s] # "started")
  BY DEF ChannelInv, ChannelPart
<1>3. CASE filterId[s] = "null" \/ muted
  <2>1. Mode[s] # "listening"
    BY <1>2, <1>3 DEF Mode
  <2>2. emitChain' = emitChain
    BY <1>3 DEF Handle
  <2> QED BY <2>1, <2>2
<1>4. CASE ~ (filterId[s] = "null" \/ muted)
  <2>1. Mode[s] = "listening"
    BY <1>2, <1>4 DEF Mode
  <2>2. emitChain' = [emitChain EXCEPT ![s] = @ \o messages]
    BY <1>4 DEF Handle
  <2>3. emitChain'[s] = emitChain[s] \o messages /\ \A t \in SocketSubs \ {s} : emitChain'[t] = emitChain[t]
    BY <1>1, <2>2
  <2> DEFINE q == emitChain[s]
  <2>4. /\ q \o messages \in Seq(Nat) /\ Ascends(q \o messages, 0)
        /\ Range(q \o messages) = Range(q) \cup Range(messages)
    <3>1. q \in Seq(Nat) /\ Ascends(q, 0) /\ 0 \in Nat
      OBVIOUS
    <3>2. Range(q) \subseteq Nat /\ Range(messages) \subseteq Nat
      BY <3>1, RangeInNat
    <3>3. \A m \in Range(q), n \in Range(messages) : m # n /\ (m > 0 /\ n > 0 => m < n)
      BY <3>2
    <3> HIDE DEF q
    <3> QED BY <3>1, <3>3, RangeOfConcat, AscendsConcat, ConcatProperties
  <2> QED BY <2>1, <2>3, <2>4
<1> QED BY <1>3, <1>4

LEMMA DeliverComes ==
  ASSUME ChannelInv, NEW s \in SocketSubs, Deliver(s)
  PROVE  ChannelInv' /\ (Channel!Come(s) \/ UNCHANGED Channel!vars)
<1>1. /\ UNCHANGED <<filterId, life, muted, node, sent, registered, broken, delivered>>
      /\ wire[s] # <<>> /\ wire' = [wire EXCEPT ![s] = Tail(@)]
      /\ Head(wire[s]) = 0 => UNCHANGED <<pending, emitChain, missed>>
      /\ Head(wire[s]) # 0 =>
           \/ registered[s] /\ Handle(s, <<Head(wire[s])>>) /\ UNCHANGED pending
           \/ /\ ~registered[s] /\ UNCHANGED <<emitChain, missed>>
              /\ pending' = [pending EXCEPT ![s] = Append(@, Head(wire[s]))]
  BY DEF Deliver
<1>2. SocketInv' /\ SocketDomains /\ SocketTypes(s)
  BY DeliverKeepsOrder DEF ChannelInv, SocketInv, SubscriberInv
<1> DEFINE n == sent[s]
<1>3. PICK k \in 0 .. n : OnTheWire(s, k) /\ Held(s, k)
  BY DEF ChannelInv, ChannelPart
<1>4. n \in Nat /\ sent'[s] = n /\ wire'[s] = Tail(wire[s])
  BY <1>1, <1>2 DEF SocketTypes, SocketDomains
<1>5. \/ Head(wire[s]) = 0 /\ OnTheWire(s, k)'
      \/ k + 1 \in 0 .. n /\ Head(wire[s]) = k + 1 /\ OnTheWire(s, k + 1)'
  BY <1>1, <1>3, <1>4, WireShrinks
<1>6. Range(wire[s]) \ {0} = k + 1 .. n
  BY <1>3, <1>4, WireHolds DEF OnTheWire
<1>7. \A t \in SocketSubs \ {s} : UNCHANGED Own(t)
  <2>1. \A t \in SocketSubs \ {s} : emitChain'[t] = emitChain[t] /\ missed'[t] = missed[t]
    BY <1>1, <1>2 DEF Handle, SocketDomains
  <2> QED BY <1>1, <1>2, <2>1 DEF SocketDomains, Own, Part
<1>8. Mode' = Mode
  BY <1>1 DEF Mode
<1>9. ASSUME NEW j \in 0 .. n, OnTheWire(s, j)'
      PROVE  Range(wire'[s]) \ {0} = j + 1 .. n
  <2> DEFINE w == wire'[s]
  <2>1. w = Run(j, n) \/ \E r \in j .. n : w = Run(j, r) \o << 0 >> \o Run(r, n)
    BY <1>4, <1>9 DEF OnTheWire
  <2> HIDE DEF w, n
  <2>2. Range(w) \ {0} = j + 1 .. n
    BY <1>4, <2>1, WireHolds
  <2> QED BY <2>2 DEF w
<1>10. CASE Head(wire[s]) = 0 /\ OnTheWire(s, k)'
  <2>1. Held(s, k)'
    BY <1>1, <1>3, <1>10 DEF Held
  <2>2. ChannelPart(s)'
    BY <1>1, <1>3, <1>10, <2>1 DEF ChannelInv, ChannelPart
  <2>3. Range(wire'[s]) \ {0} = Range(wire[s]) \ {0}
    BY <1>6, <1>9, <1>10
  <2>4. Waiting' = Waiting /\ Accepted' = Accepted
    <3>1. Waiting' = [Waiting EXCEPT ![s] = Range(pending'[s]) \cup (Range(wire'[s]) \ {0})]
      BY <1>7, OnePlace
    <3>2. Waiting' = [Waiting EXCEPT ![s] = Waiting[s]]
      BY <1>1, <1>10, <2>3, <3>1 DEF Waiting
    <3> QED BY <1>1, <1>10, <3>2 DEF Waiting, Accepted
  <2>5. UNCHANGED Channel!vars
    BY <1>1, <1>8, <2>4 DEF Channel!vars
  <2> QED BY <1>1, <1>2, <1>7, <2>2, <2>5, OneChannel DEF ChannelInv, ChannelDomains
<1>11. CASE k + 1 \in 0 .. n /\ Head(wire[s]) = k + 1 /\ OnTheWire(s, k + 1)'
  <2> DEFINE x == k + 1
             q == emitChain[s]
             p == pending[s]
  <2>1. x \in 1 .. n /\ x \in Nat /\ Head(wire[s]) = x /\ x # 0 /\ Range(wire'[s]) \ {0} = x + 1 .. n
    BY <1>3, <1>4, <1>9, <1>11
  <2>2. <<x>> \in Seq(Nat) /\ Ascends(<<x>>, 0) /\ Range(<<x>>) = {x}
    <3> HIDE DEF x
    <3> QED BY <2>1, AscendsOne
  <2>3. /\ q \in Seq(Nat) /\ Ascends(q, 0) /\ p \in Seq(Nat) /\ Ascends(p, 0)
        /\ \A m \in Range(q) \cup Range(p) : m \in 1 .. k
        /\ \A m \in Range(q), l \in Range(p) : m < l
    BY <1>3 DEF Held
  <2>4. /\ \A m \in Range(q) \cup Range(p) : m < x /\ m \in 1 .. x
        /\ (k + 1 .. n) = {x} \cup (x + 1 .. n)
    BY <1>3, <1>4, <2>1, <2>3
  <2>5. CASE registered[s]
    <3>1. p = <<>> /\ Handle(s, <<x>>) /\ UNCHANGED pending
      BY <1>1, <1>2, <2>1, <2>5 DEF SocketTypes
    <3> DEFINE messages == <<x>>
    <3>2. /\ emitChain'[s] \in Seq(Nat) /\ Ascends(emitChain'[s], 0)
          /\ Range(emitChain'[s]) = IF Mode[s] = "listening" THEN Range(q) \cup {x} ELSE Range(q)
      <4>1. \A m \in Range(emitChain[s]), l \in Range(messages) : m < l
        BY <2>2, <2>4
      <4>2. Range(messages) = {x} /\ Ascends(messages, 0) /\ messages \in Seq(Nat) /\ Handle(s, messages)
        BY <2>2, <3>1
      <4> HIDE DEF messages, x
      <4> QED BY <1>1, <2>3, <4>1, <4>2, HandleAccepts
    <3>3. Held(s, x)'
      <4>1. Range(emitChain'[s]) \subseteq 1 .. x
        BY <2>1, <2>4, <3>2
      <4>2. pending'[s] = <<>> /\ Range(<<>>) = {} /\ <<>> \in Seq(Nat) /\ Ascends(<<>>, 0)
        BY <3>1, AscendsNone
      <4> QED BY <3>2, <4>1, <4>2 DEF Held
    <3>4. ChannelPart(s)'
      <4>1. x \in 0 .. sent'[s] /\ OnTheWire(s, x)'
        BY <1>4, <1>11
      <4> HIDE DEF x
      <4> QED BY <1>1, <3>3, <4>1 DEF ChannelInv, ChannelPart
    <3>5. Waiting[s] = k + 1 .. n /\ Waiting' = [Waiting EXCEPT ![s] = x + 1 .. n]
      <4>1. Range(pending[s]) = {} /\ Range(pending'[s]) = {}
        BY <3>1, AscendsNone
      <4>2. Waiting' = [Waiting EXCEPT ![s] = Range(pending'[s]) \cup (Range(wire'[s]) \ {0})]
        BY <1>7, OnePlace
      <4>3. Waiting[s] = Range(pending[s]) \cup (Range(wire[s]) \ {0})
        BY DEF Waiting
      <4> QED BY <1>6, <2>1, <4>1, <4>2, <4>3
    <3>6. x \in Waiting[s] /\ Channel!UpTo(s, x) = {x} /\ Waiting[s] \ {x} = x + 1 .. n
      BY <1>3, <1>4, <2>1, <3>5 DEF Channel!UpTo
    <3>7. Accepted' = IF Mode[s] = "listening" THEN [Accepted EXCEPT ![s] = @ \cup {x}] ELSE Accepted
      <4>1. Accepted' = [Accepted EXCEPT ![s] = Range(emitChain'[s])] /\ Accepted[s] = Range(q)
        BY <1>7, OnePlace DEF Accepted
      <4>2. [Accepted EXCEPT ![s] = Range(q)] = Accepted
        BY DEF Accepted
      <4> QED BY <3>2, <4>1, <4>2
    <3>8. Channel!Come(s)
      <4>1. Waiting' = [Waiting EXCEPT ![s] = @ \ Channel!UpTo(s, x)]
        BY <3>5, <3>6
      <4> HIDE DEF x
      <4> QED BY <1>1, <1>8, <3>6, <3>7, <4>1 DEF Channel!Come
    <3> QED BY <1>1, <1>2, <1>7, <3>4, <3>8, OneChannel DEF ChannelInv, ChannelDomains
  <2>6. CASE ~registered[s]
    <3>1. UNCHANGED <<emitChain, missed>> /\ pending'[s] = Append(p, x)
      BY <1>1, <1>2, <2>1, <2>6 DEF SocketDomains
    <3>2. /\ Append(p, x) \in Seq(Nat) /\ Ascends(Append(p, x), 0)
          /\ Range(Append(p, x)) = Range(p) \cup {x}
      <4> DEFINE messages == <<x>>
      <4>1. Append(p, x) = p \o messages
        <5> HIDE DEF p, x
        <5> QED BY <2>1, <2>3, AppendIsConcat
      <4>2. messages \in Seq(Nat) /\ Ascends(messages, 0) /\ Range(messages) = {x}
        BY <2>2
      <4>3. \A m \in Range(p), l \in Range(messages) : m # l /\ (m > 0 /\ l > 0 => m < l)
        BY <2>1, <2>3, <2>4, <4>2
      <4> HIDE DEF p, x, messages
      <4>4. 0 \in Nat
        OBVIOUS
      <4> QED BY <2>3, <4>1, <4>2, <4>3, <4>4, RangeOfConcat, AscendsConcat, ConcatProperties
    <3>3. Held(s, x)'
      <4>1. Range(q) \cup Range(pending'[s]) \subseteq 1 .. x
        BY <2>1, <2>4, <3>1, <3>2
      <4>2. \A m \in Range(q), l \in Range(pending'[s]) : m < l
        BY <2>3, <2>4, <3>1, <3>2
      <4> QED BY <2>3, <3>1, <3>2, <4>1, <4>2 DEF Held
    <3>4. ChannelPart(s)'
      <4>1. x \in 0 .. sent'[s] /\ OnTheWire(s, x)'
        BY <1>4, <1>11
      <4> HIDE DEF x
      <4> QED BY <1>1, <3>3, <4>1 DEF ChannelInv, ChannelPart
    <3>5. Waiting' = Waiting /\ Accepted' = Accepted
      <4>1. Waiting' = [Waiting EXCEPT ![s] = Range(pending'[s]) \cup (Range(wire'[s]) \ {0})]
        BY <1>7, OnePlace
      <4>2. Range(pending'[s]) \cup (Range(wire'[s]) \ {0}) = Range(p) \cup (k + 1 .. n)
        BY <2>1, <2>4, <3>1, <3>2
      <4>3. Waiting[s] = Range(p) \cup (k + 1 .. n)
        BY <1>6 DEF Waiting
      <4>4. Waiting' = [Waiting EXCEPT ![s] = Waiting[s]]
        BY <4>1, <4>2, <4>3
      <4> QED BY <3>1, <4>4 DEF Waiting, Accepted
    <3>6. UNCHANGED Channel!vars
      BY <1>1, <1>8, <3>5 DEF Channel!vars
    <3> QED BY <1>1, <1>2, <1>7, <3>4, <3>6, OneChannel DEF ChannelInv, ChannelDomains
  <2> QED BY <2>5, <2>6
<1> QED BY <1>5, <1>10, <1>11

LEMMA RegisterComes ==
  ASSUME ChannelInv, NEW s \in SocketSubs, Register(s)
  PROVE  ChannelInv' /\ (Channel!Come(s) \/ UNCHANGED Channel!vars)
<1>1. /\ UNCHANGED <<life, muted, sent, wire, broken, delivered>>
      /\ registered' = [registered EXCEPT ![s] = TRUE]
      /\ pending' = [pending EXCEPT ![s] = <<>>]
      /\ filterId' = [filterId EXCEPT ![s] = IF @ = "pending" THEN "known" ELSE @]
      /\ node' = IF life[s] = "stopped" THEN [node EXCEPT ![s] = "closing"] ELSE node
      /\ Handle(s, pending[s])
  BY DEF Register
<1>2. SocketInv' /\ SocketDomains
  BY RegisterKeepsOrder DEF ChannelInv, SocketInv
<1> DEFINE n == sent[s]
           q == emitChain[s]
           p == pending[s]
<1>3. PICK k \in 0 .. n : OnTheWire(s, k) /\ Held(s, k)
  BY DEF ChannelInv, ChannelPart
<1>4. n \in Nat /\ pending'[s] = <<>> /\ wire'[s] = wire[s] /\ sent'[s] = n
  BY <1>1, <1>2 DEF SocketDomains, ChannelInv, SocketInv, SubscriberInv, SocketTypes
<1>5. Range(wire[s]) \ {0} = k + 1 .. n
  BY <1>3, <1>4, WireHolds DEF OnTheWire
<1>6. \A t \in SocketSubs \ {s} : UNCHANGED Own(t)
  <2>1. \A t \in SocketSubs \ {s} : emitChain'[t] = emitChain[t] /\ missed'[t] = missed[t]
    BY <1>1, <1>2 DEF Handle, SocketDomains
  <2> QED BY <1>1, <1>2, <2>1 DEF SocketDomains, Own, Part, ChannelInv, ChannelDomains
<1>7. Mode' = Mode
  BY <1>1 DEF Mode
<1>8. /\ q \in Seq(Nat) /\ Ascends(q, 0) /\ p \in Seq(Nat) /\ Ascends(p, 0)
      /\ Range(q) \cup Range(p) \subseteq 1 .. k
      /\ \A m \in Range(q), l \in Range(p) : m < l
  BY <1>3 DEF Held
<1>9. /\ emitChain'[s] \in Seq(Nat) /\ Ascends(emitChain'[s], 0)
      /\ Range(emitChain'[s]) = IF Mode[s] = "listening" THEN Range(q) \cup Range(p) ELSE Range(q)
  BY <1>1, <1>8, HandleAccepts
<1>10. ChannelPart(s)'
  <2>1. Held(s, k)' /\ OnTheWire(s, k)'
    BY <1>1, <1>3, <1>4, <1>8, <1>9, AscendsNone DEF Held, OnTheWire
  <2>2. life'[s] \in {"new", "started", "stopped"} /\ (filterId'[s] = "null" <=> life'[s] # "started")
    BY <1>1 DEF ChannelInv, ChannelPart, ChannelDomains
  <2> QED BY <1>3, <1>4, <2>1, <2>2 DEF ChannelPart
<1>11. ChannelInv'
  <2>1. ChannelDomains'
    BY <1>1 DEF ChannelInv, ChannelDomains
  <2> QED BY <1>2, <1>6, <1>10, <2>1, OneChannel
<1>12. Waiting[s] = Range(p) \cup (k + 1 .. n) /\ Waiting' = [Waiting EXCEPT ![s] = k + 1 .. n]
  <2>1. Waiting' = [Waiting EXCEPT ![s] = Range(pending'[s]) \cup (Range(wire'[s]) \ {0})]
    BY <1>6, OnePlace
  <2>2. Range(pending'[s]) = {}
    BY <1>4, AscendsNone
  <2> QED BY <1>4, <1>5, <2>1, <2>2 DEF Waiting
<1>13. Accepted' = IF Mode[s] = "listening" THEN [Accepted EXCEPT ![s] = @ \cup Range(p)] ELSE Accepted
  <2>1. Accepted' = [Accepted EXCEPT ![s] = Range(emitChain'[s])] /\ Accepted[s] = Range(q)
    BY <1>6, OnePlace DEF Accepted
  <2>2. [Accepted EXCEPT ![s] = Range(q)] = Accepted
    BY DEF Accepted
  <2> QED BY <1>9, <2>1, <2>2
<1>14. CASE p = <<>>
  <2>1. Range(p) = {}
    BY <1>14, AscendsNone
  <2>2. Waiting' = Waiting
    <3>1. Waiting' = [Waiting EXCEPT ![s] = Waiting[s]]
      BY <1>12, <2>1
    <3> QED BY <3>1 DEF Waiting
  <2>3. Accepted' = Accepted
    <3>1. [Accepted EXCEPT ![s] = Accepted[s] \cup {}] = Accepted
      BY DEF Accepted
    <3> QED BY <1>13, <2>1, <3>1
  <2> QED BY <1>1, <1>7, <1>11, <2>2, <2>3 DEF Channel!vars
<1>15. CASE p # <<>>
  <2>1. PICK last \in Range(p) : \A m \in Range(p) : m <= last
    <3>1. \A m \in Range(p) : m > 0
      BY <1>3, <1>8
    <3> HIDE DEF p
    <3> QED BY <1>8, <1>15, <3>1, LastIsGreatest
  <2>2. Channel!UpTo(s, last) = Range(p) /\ last \in Waiting[s] /\ Waiting[s] \ Range(p) = k + 1 .. n
    <3>1. \A m \in Range(p) : m \in 1 .. k
      BY <1>8
    <3>2. last \in Nat /\ last <= k
      BY <1>3, <2>1, <3>1
    <3>3. \A m \in k + 1 .. n : ~ (m <= last) /\ m \notin Range(p)
      BY <1>3, <1>4, <3>1, <3>2
    <3> QED BY <1>12, <2>1, <3>3 DEF Channel!UpTo
  <2>3. Waiting' = [Waiting EXCEPT ![s] = @ \ Channel!UpTo(s, last)]
    BY <1>12, <2>2
  <2>4. Accepted' = IF Mode[s] = "listening"
                    THEN [Accepted EXCEPT ![s] = @ \cup Channel!UpTo(s, last)] ELSE Accepted
    BY <1>13, <2>2
  <2>5. Channel!Come(s)
    BY <1>1, <1>7, <2>2, <2>3, <2>4 DEF Channel!Come
  <2> QED BY <1>11, <2>5
<1> QED BY <1>14, <1>15

\* Every step of sockets and nodes is a step of the channel or leaves it alone.
LEMMA StepOfChannel ==
  ChannelInv /\ [SocketNext]_socketVars => ChannelInv' /\ [Channel!Next]_(Channel!vars)
<1> SUFFICES ASSUME ChannelInv, [SocketNext]_socketVars PROVE ChannelInv' /\ [Channel!Next]_(Channel!vars)
  OBVIOUS
<1>1. CASE UNCHANGED socketVars
  <2>1. SocketInv'
    BY <1>1, SocketInvStep DEF ChannelInv
  <2>2. \A s : UNCHANGED Own(s)
    BY <1>1 DEF socketVars, Own, Part
  <2>3. ChannelInv'
    BY <1>1, <2>1, <2>2, SameChannelPart DEF socketVars, ChannelInv, ChannelDomains
  <2>4. UNCHANGED Channel!vars
    BY <1>1 DEF socketVars, Channel!vars, Mode, Waiting, Accepted
  <2> QED BY <2>3, <2>4
<1>2. CASE SocketPause \/ SocketResume
  BY <1>2, PausesTurn DEF Channel!Next
<1>3. ASSUME NEW s \in SocketSubs, SocketStart(s) \/ SocketStop(s)
      PROVE  ChannelInv' /\ [Channel!Next]_(Channel!vars)
  BY <1>3, StartTurns, StopTurns DEF Channel!Next
<1>4. ASSUME NEW s \in SocketSubs, NodeSends(s) \/ NodeOpens(s) \/ NodeRefuses(s) \/ NodeCloses(s)
      PROVE  ChannelInv' /\ [Channel!Next]_(Channel!vars)
  BY <1>4, SendSends, OpenSends, NodeIsNoChannel DEF Channel!Next
<1>5. ASSUME NEW s \in SocketSubs, Register(s) \/ Deliver(s) \/ \E fails \in BOOLEAN : EmitNext(s, fails)
      PROVE  ChannelInv' /\ [Channel!Next]_(Channel!vars)
  BY <1>5, RegisterComes, DeliverComes, EmitHandsOn DEF Channel!Next
<1> QED BY <1>1, <1>2, <1>3, <1>4, <1>5 DEF SocketNext, SocketProgress

LEMMA ChannelBegins == SocketInit => ChannelInv /\ Channel!Init
<1> SUFFICES ASSUME SocketInit PROVE ChannelInv /\ Channel!Init
  OBVIOUS
<1>1. SocketInv
  BY SocketBegins
<1>2. ASSUME NEW s \in SocketSubs PROVE ChannelPart(s)
  <2>1. /\ life[s] = "new" /\ filterId[s] = "null" /\ sent[s] = 0 /\ wire[s] = <<>>
        /\ emitChain[s] = <<>> /\ pending[s] = <<>>
    BY DEF SocketInit
  <2>2. OnTheWire(s, 0) /\ Held(s, 0)
    BY <2>1, RunOfNone, AscendsNone DEF OnTheWire, Held
  <2> QED BY <2>1, <2>2 DEF ChannelPart
<1>3. ChannelDomains
  BY DEF SocketInit, ChannelDomains
<1>4. Channel!Init
  BY AscendsNone DEF SocketInit, Channel!Init, Mode, Waiting, Accepted
<1> QED BY <1>1, <1>2, <1>3, <1>4 DEF ChannelInv

\* However pauses, stops, failures and the node's messages meet, a subscription
\* implements the channel it promises to be.
THEOREM SocketIsAChannel == SocketSpec => SubscriptionIsAChannel
<1>1. SocketInit => ChannelInv /\ Channel!Init
  BY ChannelBegins
<1>2. ChannelInv /\ [SocketNext]_socketVars => ChannelInv' /\ [Channel!Next]_(Channel!vars)
  BY StepOfChannel
<1>3. SocketSpec => Channel!Spec
  BY <1>1, <1>2, PTL DEF SocketSpec, Channel!Spec
<1> QED BY <1>3 DEF SubscriptionIsAChannel

\* In a channel, what was handed on comes before what was accepted, that before
\* what waits, and all of it was sent.
PlacesInOrder(s) ==
  /\ delivered[s] \in Seq(Nat) /\ Ascends(delivered[s], 0) /\ sent[s] \in Nat
  /\ Range(delivered[s]) \cup Accepted[s] \cup Waiting[s] \subseteq 1 .. sent[s]
  /\ \A l \in Range(delivered[s]), m \in Accepted[s] \cup Waiting[s] : l < m
  /\ \A l \in Accepted[s], m \in Waiting[s] : l < m

PlacesInv ==
  /\ DOMAIN sent = SocketSubs /\ DOMAIN delivered = SocketSubs
  /\ DOMAIN Waiting = SocketSubs /\ DOMAIN Accepted = SocketSubs
  /\ \A s \in SocketSubs : PlacesInOrder(s)

Places(s) == <<delivered[s], sent[s], Accepted[s], Waiting[s]>>

LEMMA SamePlaces ==
  ASSUME NEW s, UNCHANGED Places(s), PlacesInOrder(s)
  PROVE  PlacesInOrder(s)'
<1>1. /\ delivered'[s] = delivered[s] /\ sent'[s] = sent[s]
      /\ Accepted'[s] = Accepted[s] /\ Waiting'[s] = Waiting[s]
  BY DEF Places
<1> QED BY <1>1 DEF PlacesInOrder

LEMMA MessagesAscend ==
  ASSUME NEW s \in SocketSubs, PlacesInv, Channel!Send(s)
  PROVE  PlacesInv'
<1>1. PICK n \in 1 .. MaxMessages :
        /\ sent' = [sent EXCEPT ![s] = @ + n]
        /\ Waiting' = [Waiting EXCEPT ![s] = @ \cup (sent[s] + 1 .. sent[s] + n)]
  BY DEF Channel!Send
<1>2. Accepted' = Accepted /\ delivered' = delivered
  BY DEF Channel!Send
<1>3. \A t \in SocketSubs \ {s} : UNCHANGED Places(t)
  BY <1>1, <1>2 DEF PlacesInv, Places
<1>4. PlacesInOrder(s)
  BY DEF PlacesInv
<1>5. n \in Nat /\ sent[s] \in Nat
  BY <1>4, SocketAssumption DEF PlacesInOrder
<1>6. sent'[s] = sent[s] + n /\ Waiting'[s] = Waiting[s] \cup (sent[s] + 1 .. sent[s] + n)
  BY <1>1 DEF PlacesInv
<1>7. \A x \in 1 .. sent[s] : x \in 1 .. sent'[s] /\ \A y \in sent[s] + 1 .. sent[s] + n : x < y
  BY <1>5, <1>6
<1>8. \A y \in sent[s] + 1 .. sent[s] + n : y \in 1 .. sent'[s]
  BY <1>5, <1>6
<1>9. sent'[s] \in Nat
  BY <1>5, <1>6
<1>10. PlacesInOrder(s)'
  BY <1>2, <1>4, <1>6, <1>7, <1>8, <1>9 DEF PlacesInOrder
<1> QED BY <1>1, <1>2, <1>3, <1>10, SamePlaces DEF PlacesInv

LEMMA ComingKeepsPlaces ==
  ASSUME NEW s \in SocketSubs, PlacesInv, Channel!Come(s)
  PROVE  PlacesInv'
<1>1. PICK last \in Waiting[s] :
        /\ Waiting' = [Waiting EXCEPT ![s] = @ \ Channel!UpTo(s, last)]
        /\ Accepted' = IF Mode[s] = "listening"
                       THEN [Accepted EXCEPT ![s] = @ \cup Channel!UpTo(s, last)]
                       ELSE Accepted
  BY DEF Channel!Come
<1>2. sent' = sent /\ delivered' = delivered
  BY DEF Channel!Come
<1>3. \A t \in SocketSubs \ {s} : UNCHANGED Places(t)
  BY <1>1, <1>2 DEF PlacesInv, Places
<1>4. PlacesInOrder(s)
  BY DEF PlacesInv
<1> DEFINE come == Channel!UpTo(s, last)
<1>5. come = {m \in Waiting[s] : m <= last}
  BY DEF Channel!UpTo
<1> HIDE DEF come
<1>6. /\ Waiting'[s] = Waiting[s] \ come
      /\ Accepted'[s] = Accepted[s] \cup come \/ Accepted'[s] = Accepted[s]
  BY <1>1 DEF PlacesInv, come
<1>7. \A l \in come, m \in Waiting'[s] : l < m
  <2>1. sent[s] \in Nat /\ Waiting[s] \subseteq 1 .. sent[s]
    BY <1>4 DEF PlacesInOrder
  <2>2. \A x \in Waiting[s] : x \in Int
    BY <2>1
  <2> QED BY <1>5, <1>6, <2>2
<1>8. PlacesInOrder(s)'
  BY <1>2, <1>4, <1>5, <1>6, <1>7 DEF PlacesInOrder
<1> QED BY <1>1, <1>2, <1>3, <1>8, SamePlaces DEF PlacesInv

LEMMA HandingOnKeepsPlaces ==
  ASSUME NEW s \in SocketSubs, PlacesInv, Channel!HandOn(s)
  PROVE  PlacesInv'
<1>1. PICK m \in Accepted[s] :
        /\ \A n \in Accepted[s] : m <= n
        /\ Accepted' = [Accepted EXCEPT ![s] = @ \ {m}]
        /\ delivered' = [delivered EXCEPT ![s] = Append(@, m)] \/ delivered' = delivered
  BY DEF Channel!HandOn
<1>2. sent' = sent /\ Waiting' = Waiting
  BY DEF Channel!HandOn
<1>3. \A t \in SocketSubs \ {s} : UNCHANGED Places(t)
  BY <1>1, <1>2 DEF PlacesInv, Places
<1>4. PlacesInOrder(s) /\ Accepted'[s] = Accepted[s] \ {m}
  BY <1>1 DEF PlacesInv
<1>5. CASE delivered' = delivered
  <2>1. PlacesInOrder(s)'
    BY <1>2, <1>4, <1>5 DEF PlacesInOrder
  <2> QED BY <1>1, <1>2, <1>3, <1>5, <2>1, SamePlaces DEF PlacesInv
<1>6. CASE delivered' = [delivered EXCEPT ![s] = Append(@, m)]
  <2> DEFINE d == delivered[s]
             one == << m >>
  <2>1. /\ d \in Seq(Nat) /\ Ascends(d, 0) /\ delivered'[s] = Append(d, m)
        /\ sent[s] \in Nat /\ m \in 1 .. sent[s] /\ m \in Nat
        /\ \A l \in Range(d) : l < m /\ l \in 1 .. sent[s]
    BY <1>4, <1>6 DEF PlacesInv, PlacesInOrder
  <2>2. one \in Seq(Nat) /\ Ascends(one, 0) /\ Range(one) = {m}
    BY <2>1, AscendsOne
  <2>3. delivered'[s] = d \o one
    <3> HIDE DEF d
    <3> QED BY <2>1, AppendIsConcat
  <2> HIDE DEF one, d
  <2>4. \A l \in Range(d), n \in Range(one) : l # n /\ (l > 0 /\ n > 0 => l < n)
    BY <2>1, <2>2
  <2>5. d \o one \in Seq(Nat) /\ Ascends(d \o one, 0) /\ Range(d \o one) = Range(d) \cup Range(one)
    <3>1. 0 \in Nat
      OBVIOUS
    <3> QED BY <2>1, <2>2, <2>4, <3>1, RangeOfConcat, AscendsConcat, ConcatProperties
  <2>6. \A n \in Accepted'[s] : m < n
    <3>1. \A n \in Accepted'[s] : n \in Accepted[s] /\ n # m /\ m <= n /\ n \in 1 .. sent[s]
      BY <1>1, <1>4 DEF PlacesInOrder
    <3> QED BY <2>1, <3>1
  <2>7. PlacesInOrder(s)'
    BY <1>2, <1>4, <2>1, <2>2, <2>3, <2>5, <2>6 DEF PlacesInOrder, d
  <2> QED BY <1>1, <1>2, <1>3, <1>6, <2>7, SamePlaces DEF PlacesInv
<1> QED BY <1>1, <1>5, <1>6

LEMMA PlacesBegin == Channel!Init => PlacesInv
<1> SUFFICES ASSUME Channel!Init PROVE PlacesInv
  OBVIOUS
<1>1. /\ DOMAIN sent = SocketSubs /\ DOMAIN delivered = SocketSubs
      /\ DOMAIN Waiting = SocketSubs /\ DOMAIN Accepted = SocketSubs
  BY DEF Channel!Init
<1>2. ASSUME NEW s \in SocketSubs PROVE PlacesInOrder(s)
  <2>1. delivered[s] = <<>> /\ sent[s] = 0 /\ Accepted[s] = {} /\ Waiting[s] = {}
    BY DEF Channel!Init
  <2> QED BY <2>1, AscendsNone DEF PlacesInOrder
<1> QED BY <1>1, <1>2 DEF PlacesInv

LEMMA PlacesInvStep == PlacesInv /\ [Channel!Next]_(Channel!vars) => PlacesInv'
<1> SUFFICES ASSUME PlacesInv, [Channel!Next]_(Channel!vars) PROVE PlacesInv'
  OBVIOUS
<1>1. CASE Channel!Turn \/ UNCHANGED Channel!vars
  <2>1. UNCHANGED <<sent, delivered, Waiting, Accepted>>
    BY <1>1 DEF Channel!Turn, Channel!vars
  <2>2. \A s : UNCHANGED Places(s)
    BY <2>1 DEF Places
  <2> QED BY <2>1, <2>2, SamePlaces DEF PlacesInv
<1>2. CASE \E s \in SocketSubs : Channel!Send(s) \/ Channel!Come(s) \/ Channel!HandOn(s)
  BY <1>2, MessagesAscend, ComingKeepsPlaces, HandingOnKeepsPlaces
<1> QED BY <1>1, <1>2 DEF Channel!Next

\* Whatever is paused, stopped or fails, the listeners of a subscription see no
\* message twice and none after a later one: any channel promises as much.
THEOREM NotesComeInTurn == SocketSpec => []NotesNeverRepeat
<1>1. PlacesInv => NotesNeverRepeat
  <2> SUFFICES ASSUME PlacesInv, NEW s \in SocketSubs, NEW i \in 1 .. Len(delivered[s]),
                      NEW j \in 1 .. Len(delivered[s]), i < j
               PROVE  delivered[s][i] < delivered[s][j]
    BY DEF NotesNeverRepeat, Channel!ReceivedInOrder
  <2> DEFINE d == delivered[s]
  <2>1. d \in Seq(Nat) /\ Ascends(d, 0) /\ \A x \in Range(d) : x \in 1 .. sent[s]
    BY DEF PlacesInv, PlacesInOrder
  <2> HIDE DEF d
  <2>2. i \in 1 .. Len(d) /\ j \in 1 .. Len(d)
    BY DEF d
  <2>3. DOMAIN d = 1 .. Len(d)
    BY <2>1, LenProperties
  <2>4. d[i] \in 1 .. sent[s] /\ d[j] \in 1 .. sent[s]
    BY <2>1, <2>2, <2>3 DEF Range
  <2>5. d[i] > 0 /\ d[j] > 0
    BY <2>4
  <2>6. d[i] < d[j]
    BY <2>1, <2>2, <2>5 DEF Ascends
  <2> QED BY <2>6 DEF d
<1>2. Channel!Spec => []PlacesInv
  BY PlacesBegin, PlacesInvStep, PTL DEF Channel!Spec
<1>3. SocketSpec => Channel!Spec
  BY SocketIsAChannel DEF SubscriptionIsAChannel
<1> QED BY <1>1, <1>2, <1>3, PTL

-----------------------------------------------------------------------------
(* Contract events *)

\* A call of emit: what it has been given and which promise it awaits.
EmitRecords ==
  [log : Nat, at : {"emit", "enter", "find", "deliver", "resolved", "rejected"}, on : Nat,
   sub : ContractSubs \cup {NoContractSub}]

EmitTypes ==
  /\ tagged \in ContractSubs \cup {NoContractSub}
  /\ emits \in Seq(EmitRecords) /\ Len(emits) <= MaxEmits
  /\ lastEmit \in 0 .. Len(emits)
  /\ tasks \in Seq(Nat) /\ waiters \in [1 .. MaxEmits -> Seq(Nat)]

\* The calls enter _emit in the order in which they were made, so that each
\* waits for the one before it; those that have not entered wait for one that has.
Chained ==
  \A e \in 1 .. Len(emits) :
    IF e > lastEmit THEN emits[e].at = "emit" /\ emits[e].on <= lastEmit
    ELSE emits[e].at # "emit" /\ emits[e].on = e - 1

\* A call looks its subscription up when all before it have settled.
AfterTheOthers ==
  \A e \in 1 .. Len(emits) :
    emits[e].at \notin {"emit", "enter"} => \A d \in 1 .. e - 1 : Settled(d)

\* Tasks are the calls that what they wait for has settled ...
TasksMayRun ==
  /\ Ascends(tasks, lastEmit)
  /\ \A e \in Range(tasks) : e \in 1 .. Len(emits) /\ ~Settled(e) /\ Settled(emits[e].on)

\* ... and those that wait for p are kept with it until it settles.
WaitersWait ==
  \A p \in 1 .. MaxEmits :
    /\ Ascends(waiters[p], lastEmit)
    /\ \A e \in Range(waiters[p]) :
         /\ e \in 1 .. Len(emits) /\ ~Settled(e) /\ emits[e].on = p
         /\ p \in 1 .. Len(emits) /\ ~Settled(p)

\* Every call that has not entered is in one of these places, and those made
\* later wait for later promises.
NoneIsMissing ==
  /\ \A e \in lastEmit + 1 .. Len(emits) :
       IF Settled(emits[e].on) THEN e \in Range(tasks) ELSE e \in Range(waiters[emits[e].on])
  /\ \A d, e \in lastEmit + 1 .. Len(emits) : d < e => emits[d].on <= emits[e].on

ChainInv ==
  EmitTypes /\ Chained /\ AfterTheOthers /\ TasksMayRun /\ WaitersWait /\ NoneIsMissing

\* A promise settles after those before it.
LEMMA SettledInOrder ==
  ASSUME ChainInv, NEW e \in 0 .. Len(emits), Settled(e), NEW d \in 0 .. e
  PROVE  Settled(d)
  BY DEF ChainInv, EmitTypes, AfterTheOthers, Settled

LEMMA ChainTypes ==
  ASSUME EmitTypes
  PROVE  /\ Len(emits) \in Nat /\ DOMAIN emits = 1 .. Len(emits) /\ Len(emits) <= MaxEmits
         /\ MaxEmits \in Nat /\ lastEmit \in 0 .. Len(emits)
         /\ \A e \in 1 .. Len(emits) : emits[e] \in EmitRecords /\ emits[e].on \in Nat
<1>1. emits \in Seq(EmitRecords) /\ lastEmit \in 0 .. Len(emits) /\ Len(emits) <= MaxEmits
  BY DEF EmitTypes
<1>2. Len(emits) \in Nat /\ DOMAIN emits = 1 .. Len(emits)
  BY <1>1, LenProperties
<1>3. \A e \in 1 .. Len(emits) : emits[e] \in EmitRecords
  BY <1>1, ElementOfSeq
<1>4. \A r \in EmitRecords : r.on \in Nat
  BY DEF EmitRecords
<1> QED BY <1>1, <1>2, <1>3, <1>4, ContractAssumption

LEMMA ChainOn ==
  ASSUME EmitTypes, Chained, NEW e \in 1 .. Len(emits)
  PROVE  emits[e].on \in 0 .. Len(emits)
<1>1. Len(emits) \in Nat /\ lastEmit \in 0 .. Len(emits) /\ emits[e].on \in Nat
  BY ChainTypes
<1> QED BY <1>1 DEF Chained

LEMMA TheTask ==
  ASSUME ChainInv, tasks # <<>>
  PROVE  /\ Task \in 1 .. Len(emits) /\ ~Settled(Task) /\ emits[Task].on \in 0 .. Task - 1
         /\ Settled(emits[Task].on)
         /\ Tail(tasks) \in Seq(Nat) /\ Ascends(Tail(tasks), lastEmit)
         /\ Range(Tail(tasks)) = Range(tasks) \ {Task}
         /\ emits[Task].at = "emit" => Task = lastEmit + 1
         /\ emits[Task].at # "emit" => Task <= lastEmit /\ \A d \in 0 .. Task - 1 : Settled(d)
<1>0. /\ lastEmit \in 0 .. Len(emits) /\ Len(emits) \in Nat /\ tasks \in Seq(Nat)
      /\ \A e \in 1 .. Len(emits) : emits[e].on \in Nat
  BY ChainTypes DEF ChainInv, EmitTypes
<1>1. /\ Tail(tasks) \in Seq(Nat) /\ Task \in Nat /\ Task \in Range(tasks)
      /\ Ascends(Tail(tasks), lastEmit) /\ Range(Tail(tasks)) = Range(tasks) \ {Task}
      /\ Task > lastEmit => \A x \in Range(tasks) : x > lastEmit => Task <= x
  BY <1>0, AscendsTail DEF ChainInv, TasksMayRun, Task
<1>2. Task \in 1 .. Len(emits) /\ ~Settled(Task) /\ Settled(emits[Task].on)
  BY <1>1 DEF ChainInv, TasksMayRun
<1>3. emits[Task].on \in 0 .. Task - 1
  BY <1>0, <1>2 DEF ChainInv, Chained
<1>4. ASSUME emits[Task].at = "emit" PROVE Task = lastEmit + 1
  <2> DEFINE f == lastEmit + 1
  <2>1. Task > lastEmit
    BY <1>0, <1>2, <1>4 DEF ChainInv, Chained
  <2>2. SUFFICES ASSUME f < Task PROVE FALSE
    BY <1>0, <1>2, <2>1
  <2>3. f \in lastEmit + 1 .. Len(emits) /\ Task \in lastEmit + 1 .. Len(emits)
    BY <1>0, <1>2, <2>1, <2>2
  <2>4. emits[f].on <= emits[Task].on /\ emits[f].on \in Nat
    BY <1>0, <2>2, <2>3 DEF ChainInv, NoneIsMissing
  <2>5. emits[f].on \in 0 .. emits[Task].on /\ emits[Task].on \in 0 .. Len(emits)
    BY <1>0, <1>2, <1>3, <2>4
  <2>6. Settled(emits[f].on)
    BY <1>2, <2>5, SettledInOrder
  <2>7. f \in Range(tasks)
    BY <2>3, <2>6 DEF ChainInv, NoneIsMissing
  <2> QED BY <1>0, <1>1, <2>1, <2>2, <2>7
<1>5. ASSUME emits[Task].at # "emit"
      PROVE  Task <= lastEmit /\ \A d \in 0 .. Task - 1 : Settled(d)
  <2>1. Task <= lastEmit /\ emits[Task].on = Task - 1
    BY <1>0, <1>2, <1>5 DEF ChainInv, Chained
  <2>2. Task - 1 \in 0 .. Len(emits)
    BY <1>0, <1>2
  <2> QED BY <1>2, <2>1, <2>2, SettledInOrder
<1> QED BY <1>1, <1>2, <1>3, <1>4, <1>5

\* One call of emit changes.
LEMMA OneEmit ==
  ASSUME EmitTypes, NEW T \in 1 .. Len(emits), NEW r \in EmitRecords,
         emits' = [emits EXCEPT ![T] = r]
  PROVE  /\ emits' \in Seq(EmitRecords) /\ Len(emits') = Len(emits) /\ emits'[T] = r
         /\ \A d \in 1 .. Len(emits) : d # T => emits'[d] = emits[d]
<1>1. emits \in Seq(EmitRecords) /\ Len(emits) \in Nat /\ DOMAIN emits = 1 .. Len(emits)
  BY ChainTypes DEF EmitTypes
<1> QED BY <1>1, ExceptSeq

\* The task's promise settles, and those that wait for it become tasks.
LEMMA SettleKeepsChain ==
  ASSUME ChainInv, tasks # <<>>, emits[Task].at # "emit",
         NEW how \in {"resolved", "rejected"}, Settle(Task, how),
         UNCHANGED <<tagged, lastEmit>>
  PROVE  /\ ChainInv' /\ Len(emits') = Len(emits)
         /\ emits'[Task].at = how /\ emits'[Task].log = emits[Task].log
         /\ emits'[Task].on = emits[Task].on
         /\ \A d \in 1 .. Len(emits) : d # Task => emits'[d] = emits[d]
<1> DEFINE T == Task
           n == Len(emits)
<1>0. /\ T \in 1 .. n /\ ~Settled(T) /\ emits[T].on \in 0 .. T - 1 /\ Settled(emits[T].on)
      /\ T <= lastEmit /\ \A d \in 0 .. T - 1 : Settled(d)
      /\ Tail(tasks) \in Seq(Nat) /\ Ascends(Tail(tasks), lastEmit)
      /\ Range(Tail(tasks)) = Range(tasks) \ {T}
  BY TheTask
<1>1. /\ n \in Nat /\ n <= MaxEmits /\ MaxEmits \in Nat /\ lastEmit \in 0 .. n /\ EmitTypes
      /\ \A e \in 1 .. n : emits[e] \in EmitRecords /\ emits[e].on \in 0 .. n
  BY ChainTypes, ChainOn DEF ChainInv
<1>2. /\ Chained /\ AfterTheOthers /\ TasksMayRun /\ WaitersWait /\ NoneIsMissing
      /\ waiters \in [1 .. MaxEmits -> Seq(Nat)]
  BY DEF ChainInv, EmitTypes
<1> HIDE DEF n, T
<1>3. /\ emits' = [emits EXCEPT ![T].at = how]
      /\ tasks' = Tail(tasks) \o waiters[T]
      /\ waiters' = [waiters EXCEPT ![T] = <<>>]
  BY DEF Settle, T
<1>4. [emits[T] EXCEPT !.at = how] \in EmitRecords
  BY <1>0, <1>1 DEF EmitRecords
<1>5. emits' = [emits EXCEPT ![T] = [emits[T] EXCEPT !.at = how]]
  BY <1>3
<1>6. /\ emits' \in Seq(EmitRecords) /\ Len(emits') = n
      /\ emits'[T] = [emits[T] EXCEPT !.at = how]
      /\ \A d \in 1 .. n : d # T => emits'[d] = emits[d]
  BY <1>0, <1>1, <1>4, <1>5, OneEmit DEF n
<1>7. emits'[T].at = how /\ emits'[T].log = emits[T].log /\ emits'[T].on = emits[T].on
  BY <1>0, <1>1, <1>6 DEF EmitRecords
<1>8. \A e \in 0 .. n : Settled(e)' <=> Settled(e) \/ e = T
  <2>1. ASSUME NEW e \in 1 .. n, e # T PROVE Settled(e)' <=> Settled(e)
    BY <1>6, <2>1 DEF Settled
  <2>2. ASSUME NEW e \in 1 .. n, e = T PROVE Settled(e)'
    BY <1>7, <2>2 DEF Settled
  <2>3. Settled(0)' /\ Settled(0)
    BY DEF Settled
  <2>4. \A e \in 0 .. n : e = 0 \/ e \in 1 .. n
    BY <1>1
  <2> QED BY <1>0, <2>1, <2>2, <2>3, <2>4
<1>9. \A e \in 1 .. n : /\ emits'[e].on = emits[e].on
                        /\ e # T => emits'[e].at = emits[e].at
  BY <1>6, <1>7
<1>10. lastEmit' = lastEmit /\ tagged' = tagged
  OBVIOUS
<1> DEFINE W == waiters[T]
<1>11. W \in Seq(Nat) /\ Ascends(W, lastEmit)
       /\ \A e \in Range(W) : e \in 1 .. n /\ ~Settled(e) /\ emits[e].on = T
  BY <1>0, <1>1, <1>2 DEF WaitersWait, n
<1>12. waiters' \in [1 .. MaxEmits -> Seq(Nat)] /\ waiters'[T] = <<>>
       /\ \A p \in 1 .. MaxEmits : p # T => waiters'[p] = waiters[p]
  BY <1>0, <1>1, <1>2, <1>3, AscendsNone
<1>13. tasks' = Tail(tasks) \o W
  BY <1>3
<1> HIDE DEF W
<1>14. tasks' \in Seq(Nat) /\ Range(tasks') = (Range(tasks) \ {T}) \cup Range(W)
  BY <1>0, <1>11, <1>13, RangeOfConcat, ConcatProperties
<1>15. EmitTypes'
  BY <1>1, <1>6, <1>10, <1>12, <1>14 DEF EmitTypes, n
<1>16. Chained'
  <2>1. ASSUME NEW e \in 1 .. n
        PROVE  IF e > lastEmit THEN emits'[e].at = "emit" /\ emits'[e].on <= lastEmit
               ELSE emits'[e].at # "emit" /\ emits'[e].on = e - 1
    <3>1. CASE e = T
      BY <1>0, <1>1, <1>2, <1>7, <3>1 DEF Chained, n
    <3>2. CASE e # T
      BY <1>2, <1>6, <3>2 DEF Chained, n
    <3> QED BY <3>1, <3>2
  <2> QED BY <1>6, <1>10, <2>1 DEF Chained
<1>17. AfterTheOthers'
  <2>1. ASSUME NEW e \in 1 .. n, emits'[e].at \notin {"emit", "enter"}, NEW d \in 1 .. e - 1
        PROVE  Settled(d)
    <3>1. CASE e = T
      BY <1>0, <1>1, <2>1, <3>1
    <3>2. CASE e # T
      BY <1>2, <1>9, <2>1, <3>2 DEF AfterTheOthers, n
    <3> QED BY <3>1, <3>2
  <2> QED BY <1>1, <1>6, <1>8, <2>1 DEF AfterTheOthers
<1>18. TasksMayRun'
  <2>1. ASSUME NEW x \in Range(Tail(tasks)), NEW y \in Range(W)
        PROVE  x # y /\ (x > lastEmit /\ y > lastEmit => x < y)
    <3>1. /\ x \in 1 .. n /\ Settled(emits[x].on) /\ y \in 1 .. n /\ emits[y].on = T
      BY <1>0, <1>2, <1>11 DEF TasksMayRun, n
    <3>2. ASSUME x > lastEmit, y > lastEmit, y < x PROVE FALSE
      <4>1. x \in lastEmit + 1 .. n /\ y \in lastEmit + 1 .. n
        BY <1>1, <3>1, <3>2
      <4>2. T <= emits[x].on /\ emits[x].on <= lastEmit
        BY <1>2, <3>1, <3>2, <4>1 DEF NoneIsMissing, Chained, n
      <4>3. emits[x].on \in 0 .. Len(emits) /\ T \in 0 .. emits[x].on
        BY <1>0, <1>1, <3>1, <4>2 DEF n
      <4> QED BY <1>0, <3>1, <4>3, SettledInOrder
    <3> QED BY <1>0, <1>1, <3>1, <3>2
  <2>2. Ascends(tasks', lastEmit)
    <3>1. lastEmit \in Nat
      BY <1>1
    <3> QED BY <1>0, <1>11, <1>13, <2>1, <3>1, AscendsConcat
  <2>3. ASSUME NEW e \in Range(tasks')
        PROVE  e \in 1 .. n /\ ~Settled(e)' /\ (Settled(emits[e].on))'
    <3>1. CASE e \in Range(tasks) \ {T}
      <4>1. e \in 1 .. n /\ ~Settled(e) /\ Settled(emits[e].on)
        BY <1>2, <3>1 DEF TasksMayRun, n
      <4>2. emits[e].on \in 0 .. n
        BY <1>1, <4>1
      <4> QED BY <1>8, <1>9, <3>1, <4>1, <4>2
    <3>2. CASE e \in Range(W)
      <4>1. e \in 1 .. n /\ ~Settled(e) /\ emits[e].on = T
        BY <1>11, <3>2
      <4>2. e # T
        BY <1>0, <1>1, <4>1
      <4> QED BY <1>0, <1>1, <1>8, <1>9, <4>1, <4>2
    <3> QED BY <1>14, <2>3, <3>1, <3>2
  <2> QED BY <1>6, <1>10, <2>2, <2>3 DEF TasksMayRun
<1>19. WaitersWait'
  <2>1. ASSUME NEW p \in 1 .. MaxEmits, p # T
        PROVE  /\ Ascends(waiters'[p], lastEmit)
               /\ \A e \in Range(waiters'[p]) :
                    /\ e \in 1 .. n /\ ~Settled(e)' /\ emits'[e].on = p
                    /\ p \in 1 .. n /\ ~Settled(p)'
    <3>1. ASSUME NEW e \in Range(waiters[p])
          PROVE  e \in 1 .. n /\ ~Settled(e)' /\ emits'[e].on = p /\ p \in 1 .. n /\ ~Settled(p)'
      <4>1. e \in 1 .. n /\ ~Settled(e) /\ emits[e].on = p /\ p \in 1 .. n /\ ~Settled(p)
        BY <1>2, <3>1 DEF WaitersWait, n
      <4>2. e # T
        BY <1>0, <4>1
      <4> QED BY <1>8, <1>9, <2>1, <4>1, <4>2
    <3> QED BY <1>2, <1>12, <2>1, <3>1 DEF WaitersWait
  <2> QED BY <1>6, <1>10, <1>12, <2>1, AscendsNone DEF WaitersWait
<1>20. NoneIsMissing'
  <2>1. ASSUME NEW e \in lastEmit + 1 .. n
        PROVE  IF (Settled(emits[e].on))' THEN e \in Range(tasks')
               ELSE e \in Range(waiters'[emits'[e].on])
    <3>1. e \in 1 .. n /\ e # T
      BY <1>0, <1>1
    <3>4. emits[e].on \in 0 .. n
      BY <1>1, <3>1
    <3>2. CASE Settled(emits[e].on)
      BY <1>2, <1>8, <1>9, <1>14, <3>1, <3>2, <3>4 DEF NoneIsMissing, n
    <3>3. CASE ~Settled(emits[e].on)
      <4>1. e \in Range(waiters[emits[e].on]) /\ emits[e].on \in 1 .. MaxEmits
        <5>1. emits[e].on # 0 /\ e \in lastEmit + 1 .. Len(emits)
          BY <3>3 DEF Settled, n
        <5>2. emits[e].on \in 1 .. MaxEmits
          BY <1>1, <3>4, <5>1
        <5>3. e \in Range(waiters[emits[e].on])
          BY <1>2, <3>3, <5>1 DEF NoneIsMissing
        <5> QED BY <5>2, <5>3
      <4> QED BY <1>8, <1>9, <1>12, <1>14, <3>1, <3>3, <3>4, <4>1 DEF W
    <3> QED BY <3>2, <3>3
  <2>2. \A d, e \in lastEmit + 1 .. n : d < e => emits'[d].on <= emits'[e].on
    BY <1>1, <1>2, <1>9 DEF NoneIsMissing, n
  <2> QED BY <1>6, <1>10, <2>1, <2>2 DEF NoneIsMissing
<1> QED BY <1>6, <1>7, <1>15, <1>16, <1>17, <1>18, <1>19, <1>20 DEF ChainInv, n, T

\* The task goes on to another await: it stays a task, at the end of the queue.
LEMMA AdvanceKeepsChain ==
  ASSUME ChainInv, tasks # <<>>, emits[Task].at # "emit",
         NEW where \in {"find", "deliver"}, NEW r \in EmitRecords,
         r.at = where, r.log = emits[Task].log, r.on = emits[Task].on,
         emits' = [emits EXCEPT ![Task] = r],
         tasks' = Append(Tail(tasks), Task), waiters' = waiters,
         UNCHANGED <<tagged, lastEmit>>
  PROVE  /\ ChainInv' /\ Len(emits') = Len(emits)
         /\ emits'[Task].at = where /\ emits'[Task].log = emits[Task].log
         /\ emits'[Task].on = emits[Task].on
         /\ \A d \in 1 .. Len(emits) : d # Task => emits'[d] = emits[d]
<1> DEFINE T == Task
           n == Len(emits)
<1>0. /\ T \in 1 .. n /\ ~Settled(T) /\ emits[T].on \in 0 .. T - 1 /\ Settled(emits[T].on)
      /\ T <= lastEmit /\ \A d \in 0 .. T - 1 : Settled(d)
      /\ Tail(tasks) \in Seq(Nat) /\ Ascends(Tail(tasks), lastEmit)
      /\ Range(Tail(tasks)) = Range(tasks) \ {T}
  BY TheTask
<1>1. /\ n \in Nat /\ n <= MaxEmits /\ MaxEmits \in Nat /\ lastEmit \in 0 .. n /\ EmitTypes
      /\ \A e \in 1 .. n : emits[e] \in EmitRecords /\ emits[e].on \in 0 .. n
  BY ChainTypes, ChainOn DEF ChainInv
<1>2. /\ Chained /\ AfterTheOthers /\ TasksMayRun /\ WaitersWait /\ NoneIsMissing
      /\ waiters \in [1 .. MaxEmits -> Seq(Nat)]
  BY DEF ChainInv, EmitTypes
<1>3. emits' = [emits EXCEPT ![T] = r] /\ tasks' = Append(Tail(tasks), T)
  OBVIOUS
<1>5. r \in EmitRecords /\ r.at = where /\ r.log = emits[T].log /\ r.on = emits[T].on
  OBVIOUS
<1> HIDE DEF n, T
<1>6. /\ emits' \in Seq(EmitRecords) /\ Len(emits') = n /\ emits'[T] = r
      /\ \A d \in 1 .. n : d # T => emits'[d] = emits[d]
  BY <1>0, <1>1, <1>3, <1>5, OneEmit DEF n
<1>7. \A e \in 0 .. n : Settled(e)' <=> Settled(e)
  <2>1. ASSUME NEW e \in 1 .. n, e # T PROVE Settled(e)' <=> Settled(e)
    BY <1>6, <2>1 DEF Settled
  <2>2. ASSUME NEW e \in 1 .. n, e = T PROVE ~Settled(e)'
    BY <1>1, <1>5, <1>6, <2>2 DEF Settled
  <2>3. Settled(0)' /\ Settled(0)
    BY DEF Settled
  <2>4. \A e \in 0 .. n : e = 0 \/ e \in 1 .. n
    BY <1>1
  <2> QED BY <1>0, <2>1, <2>2, <2>3, <2>4
<1>8. \A e \in 1 .. n : /\ emits'[e].on = emits[e].on
                        /\ e # T => emits'[e].at = emits[e].at
  BY <1>5, <1>6
<1>9. lastEmit' = lastEmit /\ tagged' = tagged /\ waiters' = waiters /\ T \in Nat /\ lastEmit \in Nat
  BY <1>0, <1>1
<1>10. <<T>> \in Seq(Nat) /\ Ascends(<<T>>, lastEmit) /\ Range(<<T>>) = {T}
  BY <1>9, AscendsOne
<1>11. tasks' = Tail(tasks) \o <<T>>
  BY <1>0, <1>3, <1>9
<1>12. tasks' \in Seq(Nat) /\ Range(tasks') = Range(tasks) \cup {T}
  <2>1. Tail(tasks) \in Seq(Nat) /\ <<T>> \in Seq(Nat)
    BY <1>0, <1>10
  <2>2. Tail(tasks) \o <<T>> \in Seq(Nat)
    BY <2>1, ConcatProperties
  <2>3. Range(Tail(tasks) \o <<T>>) = Range(Tail(tasks)) \cup Range(<<T>>)
    BY <2>1, RangeOfConcat
  <2> QED BY <1>0, <1>10, <1>11, <2>2, <2>3
<1>13. EmitTypes'
  BY <1>1, <1>2, <1>6, <1>9, <1>12 DEF EmitTypes, n
<1>14. Chained'
  <2>1. ASSUME NEW e \in 1 .. n
        PROVE  IF e > lastEmit THEN emits'[e].at = "emit" /\ emits'[e].on <= lastEmit
               ELSE emits'[e].at # "emit" /\ emits'[e].on = e - 1
    <3>1. CASE e = T
      BY <1>0, <1>1, <1>2, <1>5, <1>6, <3>1 DEF Chained, n
    <3>2. CASE e # T
      BY <1>2, <1>6, <3>2 DEF Chained, n
    <3> QED BY <3>1, <3>2
  <2> QED BY <1>6, <1>9, <2>1 DEF Chained
<1>15. AfterTheOthers'
  <2>1. ASSUME NEW e \in 1 .. n, emits'[e].at \notin {"emit", "enter"}, NEW d \in 1 .. e - 1
        PROVE  Settled(d) /\ d \in 0 .. n
    <3>1. CASE e = T
      BY <1>0, <1>1, <2>1, <3>1
    <3>2. CASE e # T
      BY <1>1, <1>2, <1>8, <2>1, <3>2 DEF AfterTheOthers, n
    <3> QED BY <3>1, <3>2
  <2> QED BY <1>6, <1>7, <2>1 DEF AfterTheOthers
<1>16. TasksMayRun'
  <2>1. \A x \in Range(Tail(tasks)), y \in Range(<<T>>) :
          x # y /\ (x > lastEmit /\ y > lastEmit => x < y)
    BY <1>0, <1>9, <1>10
  <2>2. Ascends(tasks', lastEmit)
    BY <1>0, <1>9, <1>10, <1>11, <2>1, AscendsConcat
  <2>3. ASSUME NEW e \in Range(tasks')
        PROVE  e \in 1 .. n /\ ~Settled(e)' /\ (Settled(emits[e].on))'
    <3>1. e \in 1 .. n /\ ~Settled(e) /\ Settled(emits[e].on)
      BY <1>0, <1>2, <1>12, <2>3 DEF TasksMayRun, n
    <3>2. emits[e].on \in 0 .. n /\ e \in 0 .. n
      BY <1>1, <3>1
    <3> QED BY <1>7, <1>8, <3>1, <3>2
  <2> QED BY <1>6, <1>9, <2>2, <2>3 DEF TasksMayRun
<1>17. WaitersWait'
  <2>1. ASSUME NEW p \in 1 .. MaxEmits, NEW e \in Range(waiters[p])
        PROVE  e \in 1 .. n /\ ~Settled(e)' /\ emits'[e].on = p /\ p \in 1 .. n /\ ~Settled(p)'
    <3>1. e \in 1 .. n /\ ~Settled(e) /\ emits[e].on = p /\ p \in 1 .. n /\ ~Settled(p)
      BY <1>2, <2>1 DEF WaitersWait, n
    <3> QED BY <1>1, <1>7, <1>8, <3>1
  <2> QED BY <1>2, <1>6, <1>9, <2>1 DEF WaitersWait
<1>18. NoneIsMissing'
  <2>1. ASSUME NEW e \in lastEmit + 1 .. n
        PROVE  /\ e \in 1 .. n /\ emits'[e].on = emits[e].on
               /\ (Settled(emits[e].on))' <=> Settled(emits[e].on)
    BY <1>1, <1>7, <1>8, <2>1
  <2>2. \A d, e \in lastEmit + 1 .. n : d < e => emits'[d].on <= emits'[e].on
    BY <1>2, <2>1 DEF NoneIsMissing, n
  <2> QED BY <1>2, <1>6, <1>9, <1>12, <2>1, <2>2 DEF NoneIsMissing, n
<1> QED BY <1>5, <1>6, <1>13, <1>14, <1>15, <1>16, <1>17, <1>18 DEF ChainInv, n, T

\* The task enters _emit: it is the first that had not.
LEMMA EnterKeepsChain ==
  ASSUME ChainInv, EmitEnters
  PROVE  /\ ChainInv' /\ Len(emits') = Len(emits) /\ Task \in 1 .. Len(emits)
         /\ emits'[Task].at = "enter" /\ emits'[Task].log = emits[Task].log
         /\ \A d \in 1 .. Len(emits) : d # Task => emits'[d] = emits[d]
<1> DEFINE T == Task
           n == Len(emits)
<1>0. /\ T \in 1 .. n /\ ~Settled(T) /\ emits[T].on \in 0 .. T - 1 /\ Settled(emits[T].on)
      /\ T = lastEmit + 1
      /\ Tail(tasks) \in Seq(Nat) /\ Ascends(Tail(tasks), lastEmit)
      /\ Range(Tail(tasks)) = Range(tasks) \ {T}
  BY TheTask DEF EmitEnters, Runs
<1>1. /\ n \in Nat /\ n <= MaxEmits /\ MaxEmits \in Nat /\ lastEmit \in 0 .. n /\ EmitTypes
      /\ \A e \in 1 .. n : emits[e] \in EmitRecords /\ emits[e].on \in 0 .. n
  BY ChainTypes, ChainOn DEF ChainInv
<1>2. /\ Chained /\ AfterTheOthers /\ TasksMayRun /\ WaitersWait /\ NoneIsMissing
      /\ waiters \in [1 .. MaxEmits -> Seq(Nat)]
  BY DEF ChainInv, EmitTypes
<1> DEFINE r == [emits[T] EXCEPT !.at = "enter", !.on = lastEmit]
<1>3. /\ emits' = [emits EXCEPT ![T] = r] /\ lastEmit' = T /\ tagged' = tagged
      /\ Await(<<T>>, lastEmit, Tail(tasks), waiters)
  BY DEF EmitEnters, registry
<1> HIDE DEF n, T
<1>4. emits[T] \in EmitRecords /\ lastEmit \in Nat
  BY <1>0, <1>1
<1>5. r \in EmitRecords /\ r.at = "enter" /\ r.log = emits[T].log /\ r.on = lastEmit
  BY <1>4 DEF EmitRecords
<1> HIDE DEF r
<1>6. /\ emits' \in Seq(EmitRecords) /\ Len(emits') = n /\ emits'[T] = r
      /\ \A d \in 1 .. n : d # T => emits'[d] = emits[d]
  BY <1>0, <1>1, <1>3, <1>5, OneEmit DEF n
<1>7. \A e \in 0 .. n : Settled(e)' <=> Settled(e)
  <2>1. ASSUME NEW e \in 1 .. n, e # T PROVE Settled(e)' <=> Settled(e)
    BY <1>6, <2>1 DEF Settled
  <2>2. ASSUME NEW e \in 1 .. n, e = T PROVE ~Settled(e)'
    BY <1>1, <1>5, <1>6, <2>2 DEF Settled
  <2>3. Settled(0)' /\ Settled(0)
    BY DEF Settled
  <2>4. \A e \in 0 .. n : e = 0 \/ e \in 1 .. n
    BY <1>1
  <2> QED BY <1>0, <2>1, <2>2, <2>3, <2>4
<1>8. \A e \in 1 .. n : e # T => emits'[e].on = emits[e].on /\ emits'[e].at = emits[e].at
  BY <1>6
<1>9. T \in Nat /\ lastEmit \in Nat /\ lastEmit <= T /\ lastEmit < T
  BY <1>0, <1>1
<1>10. <<T>> \in Seq(Nat) /\ Ascends(<<T>>, T) /\ Range(<<T>>) = {T}
  BY <1>9, AscendsOne
<1>11. Ascends(Tail(tasks), T)
  BY <1>0, <1>9, AscendsLater
<1>12. \A p \in 1 .. MaxEmits : waiters[p] \in Seq(Nat) /\ Ascends(waiters[p], T)
  BY <1>2, <1>9, AscendsLater DEF WaitersWait
<1>13. \A p \in 1 .. MaxEmits : \A e \in Range(waiters[p]) :
         /\ e \in 1 .. n /\ e # T /\ ~Settled(e)' /\ emits'[e].on = p /\ p \in 1 .. n /\ ~Settled(p)'
  <2>1. ASSUME NEW p \in 1 .. MaxEmits, NEW e \in Range(waiters[p])
        PROVE  /\ e \in 1 .. n /\ e # T /\ ~Settled(e)' /\ emits'[e].on = p
               /\ p \in 1 .. n /\ ~Settled(p)'
    <3>1. e \in 1 .. n /\ ~Settled(e) /\ emits[e].on = p /\ p \in 1 .. n /\ ~Settled(p)
      BY <1>2, <2>1 DEF WaitersWait, n
    <3>2. e # T
      BY <1>0, <3>1
    <3> QED BY <1>1, <1>7, <1>8, <3>1, <3>2
  <2> QED BY <2>1
<1>14. \A e \in Range(Tail(tasks)) :
         e \in 1 .. n /\ e # T /\ ~Settled(e)' /\ (Settled(emits[e].on))'
  <2>1. ASSUME NEW e \in Range(Tail(tasks))
        PROVE  e \in 1 .. n /\ e # T /\ ~Settled(e)' /\ (Settled(emits[e].on))'
    <3>1. e \in 1 .. n /\ ~Settled(e) /\ Settled(emits[e].on) /\ e # T
      BY <1>0, <1>2 DEF TasksMayRun, n
    <3>2. emits[e].on \in 0 .. n /\ e \in 0 .. n
      BY <1>1, <3>1
    <3> QED BY <1>7, <1>8, <3>1, <3>2
  <2> QED BY <2>1
<1>15. Chained'
  <2>1. ASSUME NEW e \in 1 .. n
        PROVE  IF e > T THEN emits'[e].at = "emit" /\ emits'[e].on <= T
               ELSE emits'[e].at # "emit" /\ emits'[e].on = e - 1
    <3>1. CASE e = T
      BY <1>0, <1>1, <1>5, <1>6, <3>1
    <3>2. CASE e # T
      <4>1. emits'[e] = emits[e] /\ emits[e].on \in 0 .. n
        BY <1>1, <1>6, <3>2
      <4>2. CASE e > T
        BY <1>0, <1>1, <1>2, <4>1, <4>2 DEF Chained, n
      <4>3. CASE e < T
        BY <1>0, <1>1, <1>2, <4>1, <4>3 DEF Chained, n
      <4> QED BY <1>9, <3>2, <4>2, <4>3
    <3> QED BY <3>1, <3>2
  <2> QED BY <1>3, <1>6, <2>1 DEF Chained
<1>16. AfterTheOthers'
  <2>1. ASSUME NEW e \in 1 .. n, emits'[e].at \notin {"emit", "enter"}, NEW d \in 1 .. e - 1
        PROVE  Settled(d) /\ d \in 0 .. n
    <3>1. e # T
      BY <1>5, <1>6, <2>1
    <3>2. emits[e].at \notin {"emit", "enter"}
      BY <1>6, <2>1, <3>1
    <3> QED BY <1>1, <1>2, <2>1, <3>2 DEF AfterTheOthers, n
  <2> QED BY <1>6, <1>7, <2>1 DEF AfterTheOthers
<1>17. \A d, e \in T + 1 .. n : d < e => emits'[d].on <= emits'[e].on
  <2>1. ASSUME NEW d \in T + 1 .. n, NEW e \in T + 1 .. n, d < e
        PROVE  emits'[d].on <= emits'[e].on
    <3>1. d \in lastEmit + 1 .. n /\ e \in lastEmit + 1 .. n /\ d \in 1 .. n /\ e \in 1 .. n
          /\ d # T /\ e # T
      BY <1>0, <1>1
    <3> QED BY <1>2, <1>8, <2>1, <3>1 DEF NoneIsMissing, n
  <2> QED BY <2>1
<1>18. ASSUME NEW e \in T + 1 .. n
       PROVE  /\ e \in 1 .. n /\ e # T /\ emits'[e].on = emits[e].on /\ emits[e].on \in 0 .. n
              /\ (Settled(emits[e].on))' <=> Settled(emits[e].on)
              /\ IF Settled(emits[e].on) THEN e \in Range(Tail(tasks))
                 ELSE emits[e].on \in 1 .. MaxEmits /\ e \in Range(waiters[emits[e].on])
  <2>1. e \in lastEmit + 1 .. n /\ e \in 1 .. n /\ e # T
    BY <1>0, <1>1
  <2>2. emits'[e].on = emits[e].on /\ emits[e].on \in 0 .. n
    BY <1>1, <1>8, <2>1
  <2>3. (Settled(emits[e].on))' <=> Settled(emits[e].on)
    BY <1>7, <2>2
  <2>4. ~Settled(emits[e].on) => emits[e].on \in 1 .. MaxEmits
    BY <1>1, <2>2 DEF Settled
  <2> QED BY <1>0, <1>2, <2>1, <2>2, <2>3, <2>4 DEF NoneIsMissing, n
<1>19. CASE Settled(lastEmit)
  <2>1. tasks' = Tail(tasks) \o <<T>> /\ waiters' = waiters
    BY <1>3, <1>19 DEF Await
  <2>2. tasks' \in Seq(Nat) /\ Range(tasks') = Range(Tail(tasks)) \cup {T}
    BY <1>0, <1>10, <2>1, RangeOfConcat, ConcatProperties
  <2>3. \A x \in Range(Tail(tasks)), y \in Range(<<T>>) : x # y /\ (x > T /\ y > T => x < y)
    BY <1>9, <1>10, <1>14
  <2>4. Ascends(tasks', T)
    BY <1>0, <1>9, <1>10, <1>11, <2>1, <2>3, AscendsConcat
  <2>5. EmitTypes'
    BY <1>0, <1>1, <1>2, <1>3, <1>6, <2>1, <2>2 DEF EmitTypes
  <2>6. TasksMayRun'
    <3>1. ASSUME NEW e \in Range(tasks')
          PROVE  e \in 1 .. n /\ ~Settled(e)' /\ (Settled(emits[e].on))'
      <4>1. CASE e = T
        <5>1. e \in 0 .. n /\ ~Settled(e) /\ emits'[e].on = lastEmit
          BY <1>0, <1>1, <1>5, <1>6, <4>1
        <5>2. ASSUME NEW l \in 0 .. n, Settled(l) PROVE Settled(l)'
          BY <1>7, <5>2
        <5>3. ASSUME NEW l \in 0 .. n, l = lastEmit PROVE Settled(l)'
          BY <1>19, <5>2, <5>3
        <5>4. (Settled(emits[e].on))'
          BY <1>1, <5>1, <5>3
        <5> QED BY <1>0, <1>7, <4>1, <5>1, <5>4
      <4>2. CASE e # T
        BY <1>14, <2>2, <4>2
      <4> QED BY <4>1, <4>2
    <3> QED BY <1>3, <1>6, <2>4, <3>1 DEF TasksMayRun
  <2>7. WaitersWait'
    BY <1>3, <1>6, <1>12, <1>13, <2>1 DEF WaitersWait
  <2>8. NoneIsMissing'
    BY <1>3, <1>6, <1>17, <1>18, <2>1, <2>2 DEF NoneIsMissing
  <2> QED BY <1>0, <1>5, <1>6, <1>15, <1>16, <2>5, <2>6, <2>7, <2>8 DEF ChainInv, n, T
<1>20. CASE ~Settled(lastEmit)
  <2> DEFINE l == lastEmit
             W == waiters[l]
  <2>1. l \in 1 .. n /\ l \in 1 .. MaxEmits /\ W \in Seq(Nat) /\ Ascends(W, T)
    <3>1. l # 0
      BY <1>20 DEF Settled
    <3> QED BY <1>1, <1>12, <3>1
  <2>2. tasks' = Tail(tasks) /\ waiters' = [waiters EXCEPT ![l] = W \o <<T>>]
    BY <1>3, <1>20 DEF Await
  <2>3. /\ W \o <<T>> \in Seq(Nat) /\ Range(W \o <<T>>) = Range(W) \cup {T}
        /\ Ascends(W \o <<T>>, T)
    <3>4. \A x \in Range(W) : x # T
      BY <1>13, <2>1
    <3> HIDE DEF W
    <3>1. \A x \in Range(W), y \in Range(<<T>>) : x # y /\ (x > T /\ y > T => x < y)
      BY <1>9, <1>10, <3>4
    <3>2. Ascends(W \o <<T>>, T)
      BY <1>9, <1>10, <2>1, <3>1, AscendsConcat
    <3>3. Range(W \o <<T>>) = Range(W) \cup {T}
      BY <1>10, <2>1, RangeOfConcat
    <3> QED BY <1>10, <2>1, <3>2, <3>3, ConcatProperties
  <2>4. /\ waiters' \in [1 .. MaxEmits -> Seq(Nat)] /\ waiters'[l] = W \o <<T>>
        /\ \A p \in 1 .. MaxEmits : p # l => waiters'[p] = waiters[p]
    BY <1>2, <2>1, <2>2, <2>3
  <2>5. EmitTypes'
    BY <1>0, <1>1, <1>3, <1>6, <2>2, <2>4 DEF EmitTypes
  <2>6. TasksMayRun'
    BY <1>3, <1>6, <1>11, <1>14, <2>2 DEF TasksMayRun
  <2>7. WaitersWait'
    <3>1. ASSUME NEW p \in 1 .. MaxEmits
          PROVE  /\ Ascends(waiters'[p], T)
                 /\ \A e \in Range(waiters'[p]) :
                      /\ e \in 1 .. n /\ ~Settled(e)' /\ emits'[e].on = p
                      /\ p \in 1 .. n /\ ~Settled(p)'
      <4>1. CASE p # l
        BY <1>12, <1>13, <2>4, <4>1
      <4>2. CASE p = l
        <5>1. ~Settled(p)' /\ p \in 1 .. n
          BY <1>1, <1>7, <1>20, <2>1, <4>2
        <5>2. ASSUME NEW e \in Range(waiters'[p]), e = T
              PROVE  e \in 1 .. n /\ ~Settled(e)' /\ emits'[e].on = p
          BY <1>0, <1>1, <1>5, <1>6, <1>7, <4>2, <5>2
        <5>3. ASSUME NEW e \in Range(waiters'[p]), e # T
              PROVE  e \in 1 .. n /\ ~Settled(e)' /\ emits'[e].on = p
          BY <1>13, <2>1, <2>3, <2>4, <4>2, <5>3
        <5>4. Ascends(waiters'[p], T)
          BY <2>3, <2>4, <4>2
        <5> QED BY <5>1, <5>2, <5>3, <5>4
      <4> QED BY <4>1, <4>2
    <3> QED BY <1>3, <1>6, <3>1 DEF WaitersWait
  <2>8. NoneIsMissing'
    <3>1. ASSUME NEW e \in T + 1 .. n
          PROVE  IF (Settled(emits[e].on))' THEN e \in Range(tasks')
                 ELSE e \in Range(waiters'[emits'[e].on])
      BY <1>18, <2>2, <2>3, <2>4
    <3> QED BY <1>3, <1>6, <1>17, <3>1 DEF NoneIsMissing
  <2> QED BY <1>0, <1>5, <1>6, <1>15, <1>16, <2>5, <2>6, <2>7, <2>8 DEF ChainInv, n, T
<1> QED BY <1>19, <1>20

\* New calls of emit await the promise that is lastEmit.
LEMMA CallKeepsChain ==
  ASSUME ChainInv, NEW what \in Nat, NEW k \in Nat, CallEmit(what, k), tagged' = tagged
  PROVE  /\ ChainInv' /\ Len(emits') = Len(emits) + k
         /\ \A d \in 1 .. Len(emits) : emits'[d] = emits[d]
         /\ \A d \in Len(emits) + 1 .. Len(emits) + k :
              emits'[d].at = "emit" /\ emits'[d].log = what
<1> DEFINE n == Len(emits)
           call == [log |-> what, at |-> "emit", on |-> lastEmit, sub |-> NoContractSub]
           calls == [i \in 1 .. k |-> call]
           more == [i \in 1 .. k |-> n + i]
<1>1. /\ n \in Nat /\ n <= MaxEmits /\ MaxEmits \in Nat /\ lastEmit \in 0 .. n /\ EmitTypes
      /\ lastEmit \in Nat
      /\ \A e \in 1 .. n : emits[e] \in EmitRecords /\ emits[e].on \in 0 .. n
  BY ChainTypes, ChainOn DEF ChainInv
<1>2. /\ Chained /\ AfterTheOthers /\ TasksMayRun /\ WaitersWait /\ NoneIsMissing
      /\ waiters \in [1 .. MaxEmits -> Seq(Nat)] /\ tasks \in Seq(Nat)
      /\ emits \in Seq(EmitRecords)
  BY DEF ChainInv, EmitTypes
<1>3. /\ n + k <= MaxEmits /\ emits' = emits \o calls /\ lastEmit' = lastEmit
      /\ Await(more, lastEmit, tasks, waiters)
  BY DEF CallEmit
<1>4. /\ call \in EmitRecords /\ call.at = "emit" /\ call.log = what /\ call.on = lastEmit
      /\ calls \in Seq(EmitRecords) /\ Len(calls) = k /\ \A i \in 1 .. k : calls[i] = call
  <2>1. call \in EmitRecords
    BY <1>1 DEF EmitRecords
  <2> HIDE DEF call
  <2>2. calls \in Seq(EmitRecords) /\ Len(calls) = k /\ \A i \in 1 .. k : calls[i] = call
    BY <2>1
  <2> QED BY <2>1, <2>2 DEF call
<1>5. more \in Seq(Nat) /\ Ascends(more, lastEmit) /\ Range(more) = n + 1 .. n + k
  BY <1>1, AscendsUp
<1> HIDE DEF n, call, calls, more
<1>6. /\ emits' \in Seq(EmitRecords) /\ Len(emits') = n + k
      /\ \A d \in 1 .. n : emits'[d] = emits[d]
      /\ \A d \in n + 1 .. n + k : emits'[d] = call
  <2>1. /\ emits \o calls \in Seq(EmitRecords) /\ Len(emits \o calls) = n + k
        /\ \A i \in 1 .. n + k :
             (emits \o calls)[i] = IF i <= n THEN emits[i] ELSE calls[i - n]
    BY <1>2, <1>4, ConcatProperties DEF n
  <2>2. ASSUME NEW d \in n + 1 .. n + k PROVE emits'[d] = call
    <3>1. d \in 1 .. n + k /\ ~(d <= n) /\ d - n \in 1 .. k
      BY <1>1
    <3> QED BY <1>3, <1>4, <2>1, <3>1
  <2>3. ASSUME NEW d \in 1 .. n PROVE emits'[d] = emits[d]
    <3>1. d \in 1 .. n + k /\ d <= n
      BY <1>1
    <3> QED BY <1>3, <2>1, <3>1
  <2> QED BY <1>3, <2>1, <2>2, <2>3
<1>7. \A e \in 0 .. n : Settled(e)' <=> Settled(e)
  BY <1>1, <1>6 DEF Settled
<1>8. \A e \in n + 1 .. n + k : ~Settled(e)' /\ emits'[e].on = lastEmit /\ emits'[e].at = "emit"
  BY <1>1, <1>4, <1>6 DEF Settled
<1>9. \A e \in 1 .. n + k : e \in 1 .. n \/ e \in n + 1 .. n + k
  BY <1>1
<1>10. Chained'
  BY <1>1, <1>2, <1>3, <1>6, <1>8, <1>9 DEF Chained, n
<1>11. AfterTheOthers'
  <2>1. ASSUME NEW e \in 1 .. n, emits[e].at \notin {"emit", "enter"}, NEW d \in 1 .. e - 1
        PROVE  Settled(d)'
    <3>1. Settled(d) /\ d \in 0 .. n
      BY <1>1, <1>2, <2>1 DEF AfterTheOthers, n
    <3> QED BY <1>7, <3>1
  <2> QED BY <1>6, <1>8, <1>9, <2>1 DEF AfterTheOthers
<1>12. \A e \in Range(tasks) :
         e \in 1 .. n /\ emits'[e].on = emits[e].on /\ ~Settled(e)' /\ (Settled(emits[e].on))'
  <2>1. ASSUME NEW e \in Range(tasks)
        PROVE  /\ e \in 1 .. n /\ emits'[e].on = emits[e].on
               /\ ~Settled(e)' /\ (Settled(emits[e].on))'
    <3>1. e \in 1 .. n /\ ~Settled(e) /\ Settled(emits[e].on)
      BY <1>2 DEF TasksMayRun, n
    <3>2. emits[e].on \in 0 .. n /\ e \in 0 .. n /\ emits'[e] = emits[e]
      BY <1>1, <1>6, <3>1
    <3> QED BY <1>7, <3>1, <3>2
  <2> QED BY <2>1
<1>13. \A p \in 1 .. MaxEmits : \A e \in Range(waiters[p]) :
         /\ e \in 1 .. n /\ ~Settled(e)' /\ emits'[e].on = p
         /\ p \in 1 .. n /\ ~Settled(p)'
  <2>1. ASSUME NEW p \in 1 .. MaxEmits, NEW e \in Range(waiters[p])
        PROVE  e \in 1 .. n /\ ~Settled(e)' /\ emits'[e].on = p /\ p \in 1 .. n /\ ~Settled(p)'
    <3>1. e \in 1 .. n /\ ~Settled(e) /\ emits[e].on = p /\ p \in 1 .. n /\ ~Settled(p)
      BY <1>2, <2>1 DEF WaitersWait, n
    <3> QED BY <1>1, <1>6, <1>7, <3>1
  <2> QED BY <2>1
<1>14. \A d, e \in lastEmit + 1 .. n + k : d < e => emits'[d].on <= emits'[e].on
  <2>1. ASSUME NEW d \in lastEmit + 1 .. n + k, NEW e \in lastEmit + 1 .. n + k, d < e
        PROVE  emits'[d].on <= emits'[e].on
    <3>1. CASE e \in 1 .. n
      <4>1. d \in lastEmit + 1 .. n /\ e \in lastEmit + 1 .. n /\ d \in 1 .. n
        BY <1>1, <2>1, <3>1
      <4> QED BY <1>2, <1>6, <2>1, <3>1, <4>1 DEF NoneIsMissing, n
    <3>2. CASE e \in n + 1 .. n + k /\ d \in 1 .. n
      <4>1. emits[d].on <= lastEmit
        <5>1. d > lastEmit
          BY <1>1
        <5> QED BY <1>2, <3>2, <5>1 DEF Chained, n
      <4> QED BY <1>6, <1>8, <3>2, <4>1
    <3>3. CASE e \in n + 1 .. n + k /\ d \in n + 1 .. n + k
      BY <1>1, <1>8, <3>3
    <3> QED BY <1>1, <1>9, <2>1, <3>1, <3>2, <3>3
  <2> QED BY <2>1
<1>15. ASSUME NEW e \in lastEmit + 1 .. n
       PROVE  /\ e \in 1 .. n /\ emits'[e].on = emits[e].on /\ emits[e].on \in 0 .. n
              /\ (Settled(emits[e].on))' <=> Settled(emits[e].on)
              /\ IF Settled(emits[e].on) THEN e \in Range(tasks)
                 ELSE emits[e].on \in 1 .. MaxEmits /\ e \in Range(waiters[emits[e].on])
  <2>1. e \in 1 .. n
    BY <1>1
  <2>2. emits'[e].on = emits[e].on /\ emits[e].on \in 0 .. n
    BY <1>1, <1>6, <2>1
  <2>3. (Settled(emits[e].on))' <=> Settled(emits[e].on)
    BY <1>7, <2>2
  <2>4. ~Settled(emits[e].on) => emits[e].on \in 1 .. MaxEmits
    BY <1>1, <2>2 DEF Settled
  <2> QED BY <1>2, <2>1, <2>2, <2>3, <2>4 DEF NoneIsMissing, n
<1>16. \A e \in n + 1 .. n + k : (Settled(emits[e].on))' <=> Settled(lastEmit)
  <2>1. Settled(lastEmit)' <=> Settled(lastEmit)
    <3>1. ASSUME NEW l \in 0 .. n, l = lastEmit PROVE Settled(l)' <=> Settled(l)
      BY <1>7
    <3> QED BY <1>1, <1>3, <3>1
  <2> QED BY <1>3, <1>8, <2>1
<1>17. CASE Settled(lastEmit)
  <2>1. tasks' = tasks \o more /\ waiters' = waiters
    BY <1>3, <1>17 DEF Await
  <2>2. tasks' \in Seq(Nat) /\ Range(tasks') = Range(tasks) \cup (n + 1 .. n + k)
    BY <1>2, <1>5, <2>1, RangeOfConcat, ConcatProperties
  <2>3. \A x \in Range(tasks), y \in Range(more) :
          x # y /\ (x > lastEmit /\ y > lastEmit => x < y)
    BY <1>1, <1>5, <1>12
  <2>4. Ascends(tasks', lastEmit)
    BY <1>1, <1>2, <1>5, <2>1, <2>3, AscendsConcat DEF TasksMayRun
  <2>5. EmitTypes'
    BY <1>1, <1>2, <1>3, <1>6, <2>1, <2>2 DEF EmitTypes
  <2>6. TasksMayRun'
    <3>1. ASSUME NEW e \in Range(tasks')
          PROVE  e \in 1 .. n + k /\ ~Settled(e)' /\ (Settled(emits[e].on))'
      <4>1. CASE e \in n + 1 .. n + k
        BY <1>1, <1>8, <1>16, <1>17, <4>1
      <4>2. CASE e \in Range(tasks)
        BY <1>1, <1>12, <4>2
      <4> QED BY <2>2, <4>1, <4>2
    <3> QED BY <1>3, <1>6, <2>4, <3>1 DEF TasksMayRun
  <2>7. WaitersWait'
    BY <1>1, <1>2, <1>3, <1>6, <1>13, <2>1 DEF WaitersWait
  <2>8. NoneIsMissing'
    <3>1. ASSUME NEW e \in lastEmit + 1 .. n + k
          PROVE  IF (Settled(emits[e].on))' THEN e \in Range(tasks')
                 ELSE e \in Range(waiters'[emits'[e].on])
      <4>1. CASE e \in n + 1 .. n + k
        BY <1>16, <1>17, <2>2, <4>1
      <4>2. CASE e \in lastEmit + 1 .. n
        BY <1>15, <2>1, <2>2, <4>2
      <4> QED BY <1>1, <4>1, <4>2
    <3> QED BY <1>3, <1>6, <1>14, <3>1 DEF NoneIsMissing
  <2> QED BY <1>4, <1>6, <1>10, <1>11, <2>5, <2>6, <2>7, <2>8 DEF ChainInv, n
<1>18. CASE ~Settled(lastEmit)
  <2> DEFINE l == lastEmit
             W == waiters[l]
  <2>1. l \in 1 .. n /\ l \in 1 .. MaxEmits /\ W \in Seq(Nat) /\ Ascends(W, lastEmit)
    <3>1. l # 0
      BY <1>18 DEF Settled
    <3>2. l \in 1 .. n /\ l \in 1 .. MaxEmits
      BY <1>1, <3>1
    <3> QED BY <1>2, <3>2 DEF WaitersWait
  <2>2. tasks' = tasks /\ waiters' = [waiters EXCEPT ![l] = W \o more]
    BY <1>3, <1>18 DEF Await
  <2>3. /\ W \o more \in Seq(Nat) /\ Range(W \o more) = Range(W) \cup (n + 1 .. n + k)
        /\ Ascends(W \o more, lastEmit)
    <3>4. \A x \in Range(W) : x \in 1 .. n
      BY <1>13, <2>1
    <3> HIDE DEF W
    <3>1. \A x \in Range(W), y \in Range(more) :
            x # y /\ (x > lastEmit /\ y > lastEmit => x < y)
      BY <1>1, <1>5, <3>4
    <3>2. Ascends(W \o more, lastEmit)
      BY <1>1, <1>5, <2>1, <3>1, AscendsConcat
    <3>3. Range(W \o more) = Range(W) \cup (n + 1 .. n + k)
      BY <1>5, <2>1, RangeOfConcat
    <3> QED BY <1>5, <2>1, <3>2, <3>3, ConcatProperties
  <2>4. /\ waiters' \in [1 .. MaxEmits -> Seq(Nat)] /\ waiters'[l] = W \o more
        /\ \A p \in 1 .. MaxEmits : p # l => waiters'[p] = waiters[p]
    BY <1>2, <2>1, <2>2, <2>3
  <2>5. EmitTypes'
    BY <1>1, <1>2, <1>3, <1>6, <2>2, <2>4 DEF EmitTypes
  <2>6. TasksMayRun'
    BY <1>1, <1>2, <1>3, <1>6, <1>12, <2>2 DEF TasksMayRun
  <2>7. WaitersWait'
    <3>1. ASSUME NEW p \in 1 .. MaxEmits
          PROVE  /\ Ascends(waiters'[p], lastEmit)
                 /\ \A e \in Range(waiters'[p]) :
                      /\ e \in 1 .. n + k /\ ~Settled(e)' /\ emits'[e].on = p
                      /\ p \in 1 .. n + k /\ ~Settled(p)'
      <4>1. CASE p # l
        BY <1>1, <1>2, <1>13, <2>4, <4>1 DEF WaitersWait
      <4>2. CASE p = l
        <5>1. ~Settled(p)' /\ p \in 1 .. n + k
          BY <1>1, <1>7, <1>18, <2>1, <4>2
        <5>2. ASSUME NEW e \in n + 1 .. n + k
              PROVE  e \in 1 .. n + k /\ ~Settled(e)' /\ emits'[e].on = p
          BY <1>1, <1>8, <4>2
        <5>3. ASSUME NEW e \in Range(W)
              PROVE  e \in 1 .. n + k /\ ~Settled(e)' /\ emits'[e].on = p
          <6>1. e \in 1 .. n /\ ~Settled(e)' /\ emits'[e].on = l
            BY <1>13, <2>1
          <6> QED BY <1>1, <4>2, <6>1
        <5>4. Ascends(waiters'[p], lastEmit) /\ Range(waiters'[p]) = Range(W) \cup (n + 1 .. n + k)
          BY <2>3, <2>4, <4>2
        <5> QED BY <5>1, <5>2, <5>3, <5>4
      <4> QED BY <4>1, <4>2
    <3> QED BY <1>3, <1>6, <3>1 DEF WaitersWait
  <2>8. NoneIsMissing'
    <3>1. ASSUME NEW e \in lastEmit + 1 .. n + k
          PROVE  IF (Settled(emits[e].on))' THEN e \in Range(tasks')
                 ELSE e \in Range(waiters'[emits'[e].on])
      <4>1. CASE e \in n + 1 .. n + k
        BY <1>8, <1>16, <1>18, <2>3, <2>4, <4>1
      <4>2. CASE e \in lastEmit + 1 .. n
        BY <1>15, <2>2, <2>3, <2>4, <4>2
      <4> QED BY <1>1, <4>1, <4>2
    <3> QED BY <1>3, <1>6, <1>14, <3>1 DEF NoneIsMissing
  <2> QED BY <1>4, <1>6, <1>10, <1>11, <2>5, <2>6, <2>7, <2>8 DEF ChainInv, n
<1> QED BY <1>17, <1>18

\* The logs are given to emit in the order of the provider, those delivered are
\* of calls that have settled.
LogsInv ==
  /\ log \in Nat /\ heard \in Seq(Nat) /\ doubled \in BOOLEAN
  /\ \A e \in 1 .. Len(emits) :
       emits[e].log <= log /\ (emits[e].at = "deliver" => emits[e].log # 0)
  /\ \A d, e \in 1 .. Len(emits) : d < e /\ emits[d].log # 0 /\ emits[e].log # 0 =>
       emits[d].log < emits[e].log \/ (emits[d].log = emits[e].log /\ doubled)
  /\ \A i \in 1 .. Len(heard) : \E d \in 1 .. Len(emits) :
       emits[d].at = "resolved" /\ emits[d].log = heard[i] /\ heard[i] # 0
  /\ \A i, j \in 1 .. Len(heard) : i < j =>
       heard[i] < heard[j] \/ (heard[i] = heard[j] /\ doubled)
  /\ \A e \in 1 .. Len(emits) : emits[e].at = "rejected" /\ emits[e].log # 0 =>
       \E u \in 1 .. e - 1 : emits[u].log = 0

DeliveryInv == ChainInv /\ LogsInv

\* What settles a task or moves it on keeps the logs, if it delivers no other.
LEMMA MovesKeepLogs ==
  ASSUME ChainInv, LogsInv, NEW T \in 1 .. Len(emits), Len(emits') = Len(emits),
         emits'[T].log = emits[T].log, emits[T].at # "resolved",
         \A d \in 1 .. Len(emits) : d # T => emits'[d] = emits[d],
         emits'[T].at = "deliver" => emits[T].log # 0,
         emits'[T].at = "rejected" =>
           emits[T].log = 0 \/ \E u \in 1 .. T - 1 : emits[u].log = 0,
         UNCHANGED <<log, doubled>>,
         \/ heard' = heard
         \/ /\ heard' = Append(heard, emits[T].log) /\ emits[T].at = "deliver"
            /\ emits'[T].at = "resolved"
  PROVE  LogsInv'
<1> DEFINE n == Len(emits)
<1>1. /\ n \in Nat /\ \A e \in 1 .. n : emits[e].log \in Nat
      /\ log \in Nat /\ heard \in Seq(Nat) /\ doubled \in BOOLEAN
      /\ Len(heard) \in Nat /\ \A i \in 1 .. Len(heard) : heard[i] \in Nat
  <2>1. \A r \in EmitRecords : r.log \in Nat
    BY DEF EmitRecords
  <2>2. heard \in Seq(Nat)
    BY DEF LogsInv
  <2>3. Len(heard) \in Nat /\ \A i \in 1 .. Len(heard) : heard[i] \in Nat
    BY <2>2, LenProperties, ElementOfSeq
  <2> QED BY <2>1, <2>2, <2>3, ChainTypes DEF ChainInv, LogsInv
<1> HIDE DEF n
<1>2. \A e \in 1 .. n : emits'[e].log = emits[e].log
  BY DEF n
<1>3. \A e \in 1 .. n : emits'[e].log <= log /\ (emits'[e].at = "deliver" => emits'[e].log # 0)
  BY DEF LogsInv, n
<1>4. \A d, e \in 1 .. n : d < e /\ emits'[d].log # 0 /\ emits'[e].log # 0 =>
        emits'[d].log < emits'[e].log \/ (emits'[d].log = emits'[e].log /\ doubled)
  BY <1>2 DEF LogsInv, n
<1>5. \A e \in 1 .. n : emits'[e].at = "rejected" /\ emits'[e].log # 0 =>
        \E u \in 1 .. e - 1 : emits'[u].log = 0
  <2>1. ASSUME NEW e \in 1 .. n, emits'[e].at = "rejected", emits'[e].log # 0
        PROVE  \E u \in 1 .. e - 1 : emits[u].log = 0
    <3>1. CASE e = T
      BY <1>2, <2>1, <3>1
    <3>2. CASE e # T
      BY <2>1, <3>2 DEF LogsInv, n
    <3> QED BY <3>1, <3>2
  <2>2. \A e \in 1 .. n : 1 .. e - 1 \subseteq 1 .. n
    BY <1>1
  <2> QED BY <1>2, <2>1, <2>2
<1>6. ASSUME NEW i \in 1 .. Len(heard)
      PROVE  \E d \in 1 .. n : /\ d # T /\ emits[d].at = "resolved"
                               /\ emits[d].log = heard[i] /\ heard[i] # 0
  BY DEF LogsInv, n
<1>7. CASE heard' = heard
  <2>1. \A i \in 1 .. Len(heard') : \E d \in 1 .. n :
          emits'[d].at = "resolved" /\ emits'[d].log = heard'[i] /\ heard'[i] # 0
    BY <1>6, <1>7 DEF n
  <2>2. \A i, j \in 1 .. Len(heard') : i < j =>
          heard'[i] < heard'[j] \/ (heard'[i] = heard'[j] /\ doubled)
    BY <1>7 DEF LogsInv
  <2> QED BY <1>1, <1>3, <1>4, <1>5, <1>7, <2>1, <2>2 DEF LogsInv, n
<1>8. CASE /\ heard' = Append(heard, emits[T].log) /\ emits[T].at = "deliver"
           /\ emits'[T].at = "resolved"
  <2> DEFINE h == Len(heard) + 1
  <2>1. T \in 1 .. n /\ emits[T].log \in Nat /\ emits[T].log # 0
    BY <1>1, <1>8 DEF LogsInv, n
  <2>2. /\ heard' \in Seq(Nat) /\ Len(heard') = h /\ heard'[h] = emits[T].log
        /\ \A i \in 1 .. Len(heard) : heard'[i] = heard[i]
    BY <1>1, <1>8, <2>1
  <2> HIDE DEF h
  <2>3. \A i \in 1 .. h : i \in 1 .. Len(heard) \/ i = h
    BY <1>1 DEF h
  <2>4. ASSUME NEW i \in 1 .. h
        PROVE  \E d \in 1 .. n :
                 emits'[d].at = "resolved" /\ emits'[d].log = heard'[i] /\ heard'[i] # 0
    <3>1. CASE i = h
      BY <1>2, <1>8, <2>1, <2>2, <3>1
    <3>2. CASE i \in 1 .. Len(heard)
      BY <1>6, <2>2, <3>2 DEF n
    <3> QED BY <2>3, <3>1, <3>2
  <2>5. ASSUME NEW i \in 1 .. Len(heard)
        PROVE  heard[i] < emits[T].log \/ (heard[i] = emits[T].log /\ doubled)
    <3>1. PICK d \in 1 .. n : /\ d # T /\ emits[d].at = "resolved"
                              /\ emits[d].log = heard[i] /\ heard[i] # 0
      BY <1>6
    <3>2. d < T
      <4>1. SUFFICES ASSUME T < d PROVE FALSE
        BY <1>1, <2>1, <3>1
      <4>2. T \in 1 .. d - 1
        BY <1>1, <2>1, <4>1
      <4>3. Settled(T)
        BY <3>1, <4>2 DEF ChainInv, AfterTheOthers, n
      <4> QED BY <1>1, <1>8, <2>1, <4>3 DEF Settled
    <3> QED BY <2>1, <3>1, <3>2 DEF LogsInv, n
  <2>6. \A i, j \in 1 .. h : i < j =>
          heard'[i] < heard'[j] \/ (heard'[i] = heard'[j] /\ doubled)
    <3>1. ASSUME NEW i \in 1 .. h, NEW j \in 1 .. h, i < j
          PROVE  heard'[i] < heard'[j] \/ (heard'[i] = heard'[j] /\ doubled)
      <4>1. i \in 1 .. Len(heard)
        BY <1>1, <3>1 DEF h
      <4>2. CASE j = h
        BY <2>2, <2>5, <4>1, <4>2
      <4>3. CASE j \in 1 .. Len(heard)
        BY <2>2, <3>1, <4>1, <4>3 DEF LogsInv
      <4> QED BY <2>3, <4>2, <4>3
    <3> QED BY <3>1
  <2> QED BY <1>1, <1>3, <1>4, <1>5, <2>2, <2>4, <2>6 DEF LogsInv, n
<1> QED BY <1>7, <1>8

\* One call of emit moves on.
LEMMA EmitStepKeeps ==
  ASSUME DeliveryInv, EmitStep PROVE DeliveryInv'
<1> DEFINE T == Task
<1>0. ChainInv /\ LogsInv /\ tasks # <<>>
  BY DEF DeliveryInv, EmitStep, EmitEnters, EmitGoesOn, EmitFinds, EmitDelivers, Runs
<1>1. /\ T \in 1 .. Len(emits) /\ Len(emits) \in Nat /\ ~Settled(T) /\ Settled(emits[T].on)
      /\ emits[T] \in EmitRecords
  BY <1>0, TheTask, ChainTypes DEF ChainInv
<1>2. emits[T].at # "resolved" /\ emits[T].at # "rejected"
  BY <1>1 DEF Settled
<1> HIDE DEF T
<1>3. CASE EmitEnters
  <2>1. /\ ChainInv' /\ Len(emits') = Len(emits)
        /\ emits'[T].at = "enter" /\ emits'[T].log = emits[T].log
        /\ \A d \in 1 .. Len(emits) : d # T => emits'[d] = emits[d]
    BY <1>0, <1>3, EnterKeepsChain DEF T
  <2>2. UNCHANGED <<log, doubled, heard>>
    BY <1>3 DEF EmitEnters
  <2>3. LogsInv'
    BY <1>0, <1>1, <1>2, <2>1, <2>2, MovesKeepLogs
  <2> QED BY <2>1, <2>3 DEF DeliveryInv
<1>4. CASE EmitGoesOn
  <2>0. /\ emits[T].at = "enter" /\ UNCHANGED <<registry, log, lastEmit, heard, callsLeft, doubled>>
        /\ tagged' = tagged
    BY <1>4 DEF EmitGoesOn, Runs, registry, T
  <2>1. CASE emits[T].on # 0 /\ emits[emits[T].on].at = "rejected"
    <3>1. Settle(Task, "rejected")
      BY <1>4, <2>1 DEF EmitGoesOn, T
    <3>2. /\ ChainInv' /\ Len(emits') = Len(emits)
          /\ emits'[T].at = "rejected" /\ emits'[T].log = emits[T].log
          /\ \A d \in 1 .. Len(emits) : d # T => emits'[d] = emits[d]
      BY <1>0, <2>0, <3>1, SettleKeepsChain DEF T
    <3>3. emits[T].on = T - 1 /\ T - 1 \in 1 .. Len(emits)
      <4>1. lastEmit \in 0 .. Len(emits) /\ ~(T > lastEmit)
        BY <1>0, <1>1, <2>0, ChainTypes DEF ChainInv, Chained
      <4>2. emits[T].on = T - 1
        BY <1>0, <1>1, <4>1 DEF ChainInv, Chained
      <4> QED BY <1>1, <2>1, <4>2
    <3>4. \E u \in 1 .. T - 1 : emits[u].log = 0
      <4>1. CASE emits[T - 1].log = 0
        BY <1>1, <3>3, <4>1
      <4>2. CASE emits[T - 1].log # 0
        <5>1. \E u \in 1 .. T - 1 - 1 : emits[u].log = 0
          BY <1>0, <2>1, <3>3, <4>2 DEF LogsInv
        <5> QED BY <1>1, <3>3, <5>1
      <4> QED BY <4>1, <4>2
    <3>5. LogsInv'
      BY <1>0, <1>1, <1>2, <2>0, <3>2, <3>4, MovesKeepLogs
    <3> QED BY <3>2, <3>5 DEF DeliveryInv
  <2>2. CASE ~(emits[T].on # 0 /\ emits[emits[T].on].at = "rejected")
    <3> DEFINE r == [emits[T] EXCEPT !.at = "find"]
    <3>1. /\ emits' = [emits EXCEPT ![T] = r] /\ tasks' = Append(Tail(tasks), Task)
          /\ waiters' = waiters
      BY <1>4, <2>2 DEF EmitGoesOn, T
    <3>2. r \in EmitRecords /\ r.at = "find" /\ r.log = emits[T].log /\ r.on = emits[T].on
      BY <1>1 DEF EmitRecords
    <3> HIDE DEF r
    <3>3. /\ ChainInv' /\ Len(emits') = Len(emits)
          /\ emits'[T].at = "find" /\ emits'[T].log = emits[T].log
          /\ \A d \in 1 .. Len(emits) : d # T => emits'[d] = emits[d]
      BY <1>0, <2>0, <3>1, <3>2, AdvanceKeepsChain DEF T
    <3>4. LogsInv'
      BY <1>0, <1>1, <1>2, <2>0, <3>3, MovesKeepLogs
    <3> QED BY <3>3, <3>4 DEF DeliveryInv
  <2> QED BY <2>1, <2>2
<1>5. CASE EmitFinds
  <2>0. /\ emits[T].at = "find" /\ UNCHANGED <<registry, log, lastEmit, heard, callsLeft, doubled>>
        /\ tagged' = tagged
    BY <1>5 DEF EmitFinds, Runs, registry, T
  <2>1. CASE emits[T].log = 0
    <3>1. Settle(Task, "rejected")
      BY <1>5, <2>1 DEF EmitFinds, T
    <3>2. /\ ChainInv' /\ Len(emits') = Len(emits)
          /\ emits'[T].at = "rejected" /\ emits'[T].log = emits[T].log
          /\ \A d \in 1 .. Len(emits) : d # T => emits'[d] = emits[d]
      BY <1>0, <2>0, <3>1, SettleKeepsChain DEF T
    <3>3. LogsInv'
      BY <1>0, <1>1, <1>2, <2>0, <2>1, <3>2, MovesKeepLogs
    <3> QED BY <3>2, <3>3 DEF DeliveryInv
  <2>2. CASE emits[T].log # 0
    <3> DEFINE r == [emits[T] EXCEPT !.at = "deliver", !.sub = tagged]
    <3>1. /\ emits' = [emits EXCEPT ![T] = r] /\ tasks' = Append(Tail(tasks), Task)
          /\ waiters' = waiters
      BY <1>5, <2>2 DEF EmitFinds, T
    <3>2. r \in EmitRecords /\ r.at = "deliver" /\ r.log = emits[T].log /\ r.on = emits[T].on
      <4>1. tagged \in ContractSubs \cup {NoContractSub}
        BY <1>0 DEF ChainInv, EmitTypes
      <4> QED BY <1>1, <4>1 DEF EmitRecords
    <3> HIDE DEF r
    <3>3. /\ ChainInv' /\ Len(emits') = Len(emits)
          /\ emits'[T].at = "deliver" /\ emits'[T].log = emits[T].log
          /\ \A d \in 1 .. Len(emits) : d # T => emits'[d] = emits[d]
      BY <1>0, <2>0, <3>1, <3>2, AdvanceKeepsChain DEF T
    <3>4. LogsInv'
      BY <1>0, <1>1, <1>2, <2>0, <2>2, <3>3, MovesKeepLogs
    <3> QED BY <3>3, <3>4 DEF DeliveryInv
  <2> QED BY <2>1, <2>2
<1>6. CASE EmitDelivers
  <2>0. /\ emits[T].at = "deliver" /\ UNCHANGED <<tagged, log, lastEmit, doubled>>
        /\ heard' = heard \/ heard' = Append(heard, emits[T].log)
        /\ Settle(Task, "resolved")
    BY <1>6 DEF EmitDelivers, Runs, T
  <2>1. /\ ChainInv' /\ Len(emits') = Len(emits)
        /\ emits'[T].at = "resolved" /\ emits'[T].log = emits[T].log
        /\ \A d \in 1 .. Len(emits) : d # T => emits'[d] = emits[d]
    BY <1>0, <2>0, SettleKeepsChain DEF T
  <2>2. LogsInv'
    BY <1>0, <1>1, <1>2, <2>0, <2>1, MovesKeepLogs
  <2> QED BY <2>1, <2>2 DEF DeliveryInv
<1> QED BY <1>3, <1>4, <1>5, <1>6 DEF EmitStep

\* New calls carry the provider's next log, or none.
LEMMA CallsKeepLogs ==
  ASSUME DeliveryInv, NEW what \in Nat, NEW k \in Nat, CallEmit(what, k), tagged' = tagged,
         \/ what = 0 /\ log' = log /\ doubled' = doubled
         \/ what = log + 1 /\ log' = log + 1 /\ doubled' = (doubled \/ k > 1)
  PROVE  DeliveryInv'
<1> DEFINE n == Len(emits)
<1>1. /\ ChainInv' /\ Len(emits') = n + k /\ \A d \in 1 .. n : emits'[d] = emits[d]
      /\ \A d \in n + 1 .. n + k : emits'[d].at = "emit" /\ emits'[d].log = what
      /\ heard' = heard
  BY CallKeepsChain DEF DeliveryInv, CallEmit
<1>2. /\ n \in Nat /\ \A e \in 1 .. n : emits[e].log \in Nat
      /\ log \in Nat /\ heard \in Seq(Nat) /\ doubled \in BOOLEAN /\ LogsInv
  <2>1. \A r \in EmitRecords : r.log \in Nat
    BY DEF EmitRecords
  <2> QED BY <2>1, ChainTypes DEF DeliveryInv, ChainInv, LogsInv
<1> HIDE DEF n
<1>3. log' \in Nat /\ log <= log' /\ doubled' \in BOOLEAN /\ (doubled => doubled') /\ what <= log'
  <2>1. log' \in Nat /\ log <= log' /\ what <= log'
    BY <1>2
  <2>2. doubled' = doubled \/ doubled' = (doubled \/ k > 1)
    OBVIOUS
  <2>3. doubled' \in BOOLEAN /\ (doubled => doubled')
    BY <1>2, <2>2, Zenon
  <2> QED BY <2>1, <2>3
<1>4. \A e \in 1 .. n + k : e \in 1 .. n \/ e \in n + 1 .. n + k
  BY <1>2
<1>5. \A e \in 1 .. n + k : emits'[e].log <= log' /\ (emits'[e].at = "deliver" => emits'[e].log # 0)
  <2>1. ASSUME NEW e \in 1 .. n
        PROVE  emits[e].log <= log' /\ (emits[e].at = "deliver" => emits[e].log # 0)
    BY <1>2, <1>3 DEF LogsInv, n
  <2> QED BY <1>1, <1>3, <1>4, <2>1
<1>6. ASSUME NEW d \in 1 .. n + k, NEW e \in 1 .. n + k,
             d < e, emits'[d].log # 0, emits'[e].log # 0
      PROVE  emits'[d].log < emits'[e].log \/ (emits'[d].log = emits'[e].log /\ doubled')
  <2>1. CASE e \in 1 .. n
    <3>1. d \in 1 .. n
      BY <1>2, <1>6, <2>1
    <3>2. emits'[d] = emits[d] /\ emits'[e] = emits[e]
      BY <1>1, <2>1, <3>1
    <3>3. emits[d].log < emits[e].log \/ (emits[d].log = emits[e].log /\ doubled)
      BY <1>2, <1>6, <2>1, <3>1, <3>2 DEF LogsInv, n
    <3> QED BY <1>3, <3>2, <3>3
  <2>2. CASE e \in n + 1 .. n + k
    <3>1. emits'[e].log = log + 1 /\ what = log + 1 /\ doubled' = (doubled \/ k > 1)
      BY <1>1, <1>6, <2>2
    <3>2. CASE d \in 1 .. n
      <4>1. emits'[d].log <= log /\ emits'[d].log \in Nat
        BY <1>1, <1>2, <3>2 DEF LogsInv, n
      <4> QED BY <1>2, <3>1, <4>1
    <3>3. CASE d \in n + 1 .. n + k
      <4>1. emits'[d].log = emits'[e].log /\ k > 1
        BY <1>1, <1>2, <1>6, <2>2, <3>1, <3>3
      <4> QED BY <3>1, <4>1
    <3> QED BY <1>4, <3>2, <3>3
  <2> QED BY <1>4, <2>1, <2>2
<1>7. ASSUME NEW i \in 1 .. Len(heard)
      PROVE  \E d \in 1 .. n + k :
               emits'[d].at = "resolved" /\ emits'[d].log = heard[i] /\ heard[i] # 0
  <2>1. PICK d \in 1 .. n : emits[d].at = "resolved" /\ emits[d].log = heard[i] /\ heard[i] # 0
    BY <1>2 DEF LogsInv, n
  <2>2. d \in 1 .. n + k /\ emits'[d] = emits[d]
    BY <1>1, <1>2
  <2> QED BY <2>1, <2>2
<1>8. \A i, j \in 1 .. Len(heard) : i < j =>
        heard[i] < heard[j] \/ (heard[i] = heard[j] /\ doubled')
  BY <1>2, <1>3 DEF LogsInv
<1>9. ASSUME NEW e \in 1 .. n + k, emits'[e].at = "rejected", emits'[e].log # 0
      PROVE  \E u \in 1 .. e - 1 : emits'[u].log = 0
  <2>1. e \in 1 .. n
    BY <1>1, <1>4, <1>9
  <2>2. PICK u \in 1 .. e - 1 : emits[u].log = 0
    BY <1>1, <1>2, <1>9, <2>1 DEF LogsInv, n
  <2>3. u \in 1 .. n
    BY <1>2, <2>1
  <2> QED BY <1>1, <2>2, <2>3
<1>10. LogsInv'
  BY <1>1, <1>2, <1>3, <1>5, <1>6, <1>7, <1>8, <1>9 DEF LogsInv
<1> QED BY <1>1, <1>10 DEF DeliveryInv

LEMMA DeliveryInvStep == DeliveryInv /\ [ContractNext]_contractVars => DeliveryInv'
<1> SUFFICES ASSUME DeliveryInv, [ContractNext]_contractVars PROVE DeliveryInv'
  OBVIOUS
<1>0. /\ tagged \in ContractSubs \cup {NoContractSub} /\ log \in Nat
      /\ MaxEmits \in Nat
  BY ContractAssumption DEF DeliveryInv, ChainInv, EmitTypes, LogsInv
<1>1. ASSUME UNCHANGED delivery, tagged' \in ContractSubs \cup {NoContractSub}
      PROVE  DeliveryInv'
  <2>1. UNCHANGED <<log, emits, lastEmit, tasks, waiters, heard, doubled>>
    BY <1>1 DEF delivery
  <2>2. ChainInv'
    BY <1>1, <2>1 DEF DeliveryInv, ChainInv, EmitTypes, Chained, AfterTheOthers, TasksMayRun,
                      WaitersWait, NoneIsMissing, Settled
  <2>3. LogsInv'
    BY <2>1 DEF DeliveryInv, LogsInv
  <2> QED BY <2>2, <2>3 DEF DeliveryInv
<1>2. ASSUME NEW op, ContractLookUp(op) PROVE DeliveryInv'
  BY <1>1, <1>2 DEF ContractLookUp
<1>3. ASSUME NEW op, ContractLookUpOnly(op) PROVE DeliveryInv'
  BY <1>0, <1>1, <1>3 DEF ContractLookUpOnly
<1>4. CASE ContractRegister
  BY <1>0, <1>1, <1>4 DEF ContractRegister
<1>5. CASE ContractOff
  BY <1>0, <1>1, <1>5 DEF ContractOff
<1>6. ASSUME NEW s \in ContractSubs, Detach(s) PROVE DeliveryInv'
  BY <1>0, <1>1, <1>6 DEF Detach
<1>7. CASE UNCHANGED contractVars
  BY <1>0, <1>1, <1>7 DEF contractVars, delivery
<1>8. CASE ProviderLog
  <2>1. PICK k \in 1 .. MaxEmits : /\ log' = log + 1 /\ doubled' = (doubled \/ k > 1)
                                   /\ CallEmit(log + 1, k) /\ UNCHANGED registry
    BY <1>8 DEF ProviderLog
  <2>2. k \in Nat /\ log + 1 \in Nat /\ tagged' = tagged
    BY <1>0, <2>1 DEF registry
  <2> QED BY <2>1, <2>2, CallsKeepLogs
<1>9. CASE EmitUnknown
  <2>1. CallEmit(0, 1) /\ log' = log /\ doubled' = doubled /\ tagged' = tagged
    BY <1>9 DEF EmitUnknown, registry
  <2> QED BY <2>1, CallsKeepLogs
<1>10. CASE EmitStep
  BY <1>10, EmitStepKeeps
<1> QED BY <1>2, <1>3, <1>4, <1>5, <1>6, <1>7, <1>8, <1>9, <1>10 DEF ContractNext

\* The logs of a contract reach its listeners in the order of the provider and
\* once, no call of emit waits for itself or a later one, and a log is lost only
\* behind a call for an unknown event.
THEOREM LogsComeInOrder == ContractSpec => []LogsInOrder
<1>1. ContractInit => DeliveryInv
  <2> SUFFICES ASSUME ContractInit PROVE DeliveryInv
    OBVIOUS
  <2>1. /\ tagged = NoContractSub /\ emits = <<>> /\ lastEmit = 0 /\ tasks = <<>>
        /\ waiters = [e \in 1 .. MaxEmits |-> <<>>] /\ log = 0 /\ heard = <<>> /\ doubled = FALSE
    BY DEF ContractInit
  <2>2. Len(emits) = 0 /\ emits \in Seq(EmitRecords) /\ MaxEmits \in Nat
    BY <2>1, ContractAssumption
  <2>3. EmitTypes
    BY <2>1, <2>2, AscendsNone DEF EmitTypes
  <2>4. Chained /\ AfterTheOthers /\ NoneIsMissing
    BY <2>1, <2>2 DEF Chained, AfterTheOthers, NoneIsMissing
  <2>5. TasksMayRun /\ WaitersWait
    BY <2>1, AscendsNone DEF TasksMayRun, WaitersWait
  <2>6. LogsInv
    <3>1. Len(heard) = 0 /\ heard \in Seq(Nat) /\ 1 .. Len(heard) = {} /\ 1 .. Len(emits) = {}
      BY <2>1, <2>2
    <3>2. doubled \in BOOLEAN /\ log \in Nat
      BY <2>1
    <3> QED BY <3>1, <3>2 DEF LogsInv
  <2> QED BY <2>3, <2>4, <2>5, <2>6 DEF DeliveryInv, ChainInv
<1>2. DeliveryInv => LogsInOrder
  <2> SUFFICES ASSUME DeliveryInv PROVE LogsInOrder
    OBVIOUS
  <2>1. /\ DOMAIN emits = 1 .. Len(emits) /\ lastEmit \in 0 .. Len(emits) /\ Len(emits) \in Nat
        /\ \A e \in 1 .. Len(emits) : emits[e].on \in Nat
    BY ChainTypes DEF DeliveryInv, ChainInv
  <2>2. \A e \in DOMAIN emits : emits[e].on < e
    BY <2>1 DEF DeliveryInv, ChainInv, Chained
  <2>3. DOMAIN heard = 1 .. Len(heard)
    BY LenProperties DEF DeliveryInv, LogsInv
  <2> QED BY <2>1, <2>2, <2>3 DEF DeliveryInv, LogsInv, LogsInOrder
<1> QED BY <1>1, <1>2, DeliveryInvStep, PTL DEF ContractSpec
=============================================================================
