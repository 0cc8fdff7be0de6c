-------------------------- MODULE JsonRpcBatchProofs --------------------------
(***************************************************************************)
(* Proofs about the request queue of JsonRpcApiProvider, for every set of  *)
(* requests, every batching option and every behaviour of the server.      *)
(***************************************************************************)
EXTENDS JsonRpcBatch, ProofLemmas, SequenceTheorems

\* A step that queues or drains keeps the promise to drain: nothing clears the
\* timer without emptying the queue.
THEOREM QueueAlwaysDrains == Spec => []QueuedWillDrain
<1>1. Init => QueuedWillDrain
  BY DEF Init, QueuedWillDrain
<1>2. QueuedWillDrain /\ [Next]_vars => QueuedWillDrain'
  <2> SUFFICES ASSUME QueuedWillDrain, [Next]_vars PROVE QueuedWillDrain'
    OBVIOUS
  <2>1. ASSUME NEW r \in Requests, Enqueue(r) PROVE QueuedWillDrain'
    BY <2>1 DEF Enqueue, QueuedWillDrain
  <2>2. CASE \E r \in Calls : Send(r)
    BY <2>1, <2>2 DEF Send, Requests
  <2>3. CASE \E r \in Probes : Probe(r)
    BY <2>3 DEF Probe, QueuedWillDrain
  <2>4. CASE Start
    <3>1. CASE network
      BY <2>4, <3>1 DEF Start, QueuedWillDrain
    <3>2. CASE ~network
      BY <2>1, <2>4, <3>2 DEF Start, Requests
    <3> QED BY <3>1, <3>2
  <2>5. CASE NetworkDetected \/ NetworkFailed
    BY <2>5 DEF NetworkDetected, NetworkFailed, QueuedWillDrain
  <2>6. CASE RetryStart
    BY <2>1, <2>6 DEF RetryStart, Requests
  <2>7. CASE Drain
    BY <2>7 DEF Drain, QueuedWillDrain
  <2>8. CASE Answer
    BY <2>8 DEF Answer, Receive, Fail, QueuedWillDrain
  <2>9. CASE UNCHANGED vars
    BY <2>9 DEF vars, QueuedWillDrain
  <2> QED BY <2>2, <2>3, <2>4, <2>5, <2>6, <2>7, <2>8, <2>9 DEF Next, Bootstrap
<1> QED BY <1>1, <1>2, PTL DEF Spec

-----------------------------------------------------------------------------
(* Ids *)

\* Every id in use is behind #nextId, so the next one is fresh.
IdsBehind ==
  /\ id \in [Requests -> Nat]
  /\ nextId \in Nat
  /\ \A r \in Requests : id[r] < nextId

\* Issuing an id keeps them unique.
LEMMA IssueKeepsUnique ==
  ASSUME IdsBehind, IdsUnique, NEW r \in Requests, Issue(r)
  PROVE  IdsBehind' /\ IdsUnique'
<1>1. id' = [id EXCEPT ![r] = nextId] /\ nextId' = nextId + 1
  BY DEF Issue
<1>2. \A q \in Requests : id'[q] = IF q = r THEN nextId ELSE id[q]
  BY <1>1 DEF IdsBehind
<1>3. IdsBehind'
  BY <1>1, <1>2 DEF IdsBehind
<1>4. IdsUnique'
  BY <1>2 DEF IdsBehind, IdsUnique
<1> QED BY <1>3, <1>4

\* No two requests ever get the same id, be they queued, probes that bypass
\* the queue or the bootstrap's own.
THEOREM IdsStayUnique == Spec => []IdsUnique
<1>1. Init => IdsBehind /\ IdsUnique
  BY DEF Init, IdsBehind, IdsUnique
<1>2. IdsBehind /\ IdsUnique /\ [Next]_vars => IdsBehind' /\ IdsUnique'
  <2> SUFFICES ASSUME IdsBehind, IdsUnique, [Next]_vars PROVE IdsBehind' /\ IdsUnique'
    OBVIOUS
  <2>1. ASSUME UNCHANGED <<id, nextId>> PROVE IdsBehind' /\ IdsUnique'
    BY <2>1 DEF IdsBehind, IdsUnique
  <2>2. CASE \E r \in Calls : Send(r)
    BY <2>2, IssueKeepsUnique DEF Send, Enqueue, Requests
  <2>3. CASE \E r \in Probes : Probe(r)
    BY <2>3, IssueKeepsUnique DEF Probe, Requests
  <2>4. CASE Start
    <3>1. CASE network
      BY <2>1, <2>4, <3>1 DEF Start
    <3>2. CASE ~network
      BY <2>4, <3>2, IssueKeepsUnique DEF Start, Enqueue, Requests
    <3> QED BY <3>1, <3>2
  <2>5. CASE RetryStart
    BY <2>5, IssueKeepsUnique DEF RetryStart, Enqueue, Requests
  <2>6. CASE NetworkDetected \/ NetworkFailed \/ Drain \/ Answer \/ UNCHANGED vars
    BY <2>1, <2>6 DEF NetworkDetected, NetworkFailed, Drain, Answer, Receive, Fail, vars
  <2> QED BY <2>2, <2>3, <2>4, <2>5, <2>6 DEF Next, Bootstrap
<1> QED BY <1>1, <1>2, PTL DEF Spec

-----------------------------------------------------------------------------
(* Draining *)

\* A batch ends within the queue, and unless it is a single payload is within
\* the limits.
LEMMA BatchEnds ==
  ASSUME NEW queue \in Seq(Requests), NEW s \in DOMAIN queue
  PROVE  /\ BatchEnd(queue, s) \in s .. Len(queue)
         /\ \/ BatchEnd(queue, s) = s
            \/ /\ BatchEnd(queue, s) - s + 1 <= batchMaxCount
               /\ JsonLength(SubSeq(queue, s, BatchEnd(queue, s))) <= BatchMaxSize
<1> DEFINE ends == {e \in s .. Len(queue) :
                      \/ e = s
                      \/ /\ e - s + 1 <= batchMaxCount
                         /\ JsonLength(SubSeq(queue, s, e)) <= BatchMaxSize}
<1>1. s \in 1 .. Len(queue) /\ Len(queue) \in Nat
  OBVIOUS
<1>2. s \in ends /\ ends \in SUBSET Nat /\ \A e \in ends : e <= Len(queue)
  BY <1>1
<1>3. Max(ends) \in ends
  <2> HIDE DEF ends
  <2> QED BY <1>1, <1>2, MaxOfNats
<1> QED BY <1>3 DEF BatchEnd

\* The batches of a drain do not overlap.
LEMMA BatchesApart ==
  ASSUME NEW queue \in Seq(Requests), NEW starts, AreStarts(starts, queue),
         NEW a \in starts, NEW b \in starts, a < b
  PROVE  BatchEnd(queue, a) < b
<1> DEFINE overlaps(t) == \E s \in starts : s < t /\ t <= BatchEnd(queue, s)
           bad == {t \in starts : overlaps(t)}
<1>1. starts \subseteq DOMAIN queue /\ DOMAIN queue = 1 .. Len(queue) /\ Len(queue) \in Nat
  BY DEF AreStarts
<1>2. \A s \in starts : BatchEnd(queue, s) \in Nat /\ s <= BatchEnd(queue, s)
  BY <1>1, BatchEnds
<1>3. ASSUME bad # {} PROVE FALSE
  <2>1. bad \in SUBSET Nat
    BY <1>1
  <2>2. PICK t \in bad : \A u \in bad : t <= u
    <3> HIDE DEF bad
    <3> QED BY <1>3, <2>1, LeastNat
  <2>3. PICK s \in starts : s < t /\ t <= BatchEnd(queue, s)
    BY <2>2
  <2>4. PICK u \in starts : t = BatchEnd(queue, u) + 1
    <3>1. t # 1 /\ t \in starts
      BY <1>1, <2>2, <2>3
    <3> QED BY <3>1 DEF AreStarts
  <2>5. u < t /\ u # s
    BY <1>1, <1>2, <2>3, <2>4
  <2>6. CASE s < u
    <3>1. u \in bad
      BY <1>1, <1>2, <2>3, <2>4, <2>5, <2>6
    <3> QED BY <1>1, <2>2, <2>5, <3>1
  <2>7. CASE u < s
    <3>1. s \in bad
      BY <1>1, <1>2, <2>3, <2>4, <2>7
    <3> QED BY <1>1, <2>2, <2>3, <3>1
  <2> QED BY <1>1, <2>5, <2>6, <2>7
<1>4. ~ overlaps(b)
  BY <1>3
<1> QED BY <1>1, <1>2, <1>4

\* Every payload of the queue is in a batch of the drain.
LEMMA BatchesCover ==
  ASSUME NEW queue \in Seq(Requests), NEW starts, AreStarts(starts, queue),
         NEW i \in DOMAIN queue
  PROVE  \E s \in starts : i \in s .. BatchEnd(queue, s)
<1> DEFINE before == {s \in starts : s <= i}
<1>1. starts \subseteq DOMAIN queue /\ DOMAIN queue = 1 .. Len(queue) /\ Len(queue) \in Nat
  BY DEF AreStarts
<1>2. 1 \in starts
  BY <1>1 DEF AreStarts
<1>3. PICK s \in before : \A t \in before : t <= s
  <2>1. 1 \in before /\ before \in SUBSET Nat /\ i \in Nat /\ \A t \in before : t <= i
    BY <1>1, <1>2
  <2> HIDE DEF before
  <2> QED BY <2>1, GreatestNat
<1>4. BatchEnd(queue, s) \in s .. Len(queue)
  BY <1>1, BatchEnds
<1>5. ASSUME BatchEnd(queue, s) < i PROVE FALSE
  <2>1. BatchEnd(queue, s) + 1 \in DOMAIN queue
    BY <1>1, <1>4, <1>5
  <2>2. BatchEnd(queue, s) + 1 \in starts
    BY <2>1 DEF AreStarts
  <2> QED BY <1>1, <1>3, <1>4, <1>5, <2>2
<1> QED BY <1>1, <1>3, <1>4, <1>5

\* Batches are made of the queue's payloads, and none is empty.
LEMMA BatchesOfQueue ==
  ASSUME NEW S, NEW queue \in Seq(S), S \subseteq Requests, NEW starts, AreStarts(starts, queue),
         NEW s \in starts
  PROVE  LET batch == SubSeq(queue, s, BatchEnd(queue, s))
         IN  /\ batch \in Seq(S) /\ batch # <<>>
             /\ s \in DOMAIN queue
             /\ Len(batch) = BatchEnd(queue, s) - s + 1
             /\ \A i \in DOMAIN batch : s + i - 1 \in s .. BatchEnd(queue, s) /\ batch[i] = queue[s + i - 1]
<1> DEFINE e == BatchEnd(queue, s)
           batch == SubSeq(queue, s, e)
<1>1. queue \in Seq(Requests)
  BY SeqMonotonic
<1>2. s \in DOMAIN queue /\ DOMAIN queue = 1 .. Len(queue) /\ Len(queue) \in Nat
  BY DEF AreStarts
<1>3. e \in s .. Len(queue)
  BY <1>1, <1>2, BatchEnds
<1> HIDE DEF e
<1>4. \A i \in s .. e : queue[i] \in S
  BY <1>2, <1>3
<1>5. /\ batch \in Seq(S) /\ Len(batch) = e - s + 1
      /\ \A i \in 1 .. e - s + 1 : batch[i] = queue[s + i - 1]
  BY <1>2, <1>3, <1>4, SubSeqProperties
<1>6. DOMAIN batch = 1 .. e - s + 1 /\ batch # <<>>
  BY <1>2, <1>3, <1>5
<1> QED BY <1>2, <1>3, <1>5, <1>6 DEF e

-----------------------------------------------------------------------------
(* Types *)

LEMMA EnqueueKeepsTypes ==
  ASSUME TypeOK, NEW r \in Requests, Enqueue(r),
         ready' \in BOOLEAN, network' \in BOOLEAN, boot' \in Boots \cup {"off", "stalled", "done"}
  PROVE  TypeOK'
BY DEF TypeOK, Enqueue, Issue

\* The queue, the batches in flight and the promises are well formed; no empty
\* batch is ever sent.
THEOREM TypeCorrect == Spec => []TypeOK
<1>1. Init => TypeOK
  <2> SUFFICES ASSUME Init PROVE TypeOK
    OBVIOUS
  <2>1. payloads = <<>> /\ <<>> \in Seq(Requests) /\ flights = {}
    BY DEF Init
  <2>2. network \in BOOLEAN /\ ready \in BOOLEAN /\ drainTimer \in BOOLEAN
    BY BatchAssumption DEF Init
  <2>3. /\ batchMaxCount \in BatchMaxCounts /\ nextId \in Nat \ {0} /\ boot = "off"
        /\ promise \in [Requests -> {"none", "pending", "resolved", "rejected"}]
        /\ id \in [Requests -> Nat]
    BY DEF Init
  <2> QED BY <2>1, <2>2, <2>3 DEF TypeOK
<1>2. TypeOK /\ [Next]_vars => TypeOK'
  <2> SUFFICES ASSUME TypeOK, [Next]_vars PROVE TypeOK'
    OBVIOUS
  <2>1. CASE \E r \in Calls : Send(r)
    BY <2>1, EnqueueKeepsTypes DEF Send, Requests, TypeOK
  <2>2. CASE \E r \in Probes : Probe(r)
    <3>1. PICK r \in Requests : Probe(r)
      BY <2>2 DEF Requests
    <3>2. <<r>> \in Seq(Requests) /\ <<r>> # <<>>
      OBVIOUS
    <3>3. \A batch \in flights' : batch \in Seq(Requests) /\ batch # <<>>
      BY <3>1, <3>2 DEF Probe, TypeOK
    <3>4. promise' \in [Requests -> {"none", "pending", "resolved", "rejected"}] /\ id' \in [Requests -> Nat]
      BY <3>1 DEF Probe, Issue, TypeOK
    <3>5. nextId' \in Nat \ {0} /\ UNCHANGED <<batchMaxCount, payloads, drainTimer, ready, network, boot>>
      BY <3>1 DEF Probe, Issue, TypeOK
    <3> QED BY <3>3, <3>4, <3>5 DEF TypeOK
  <2>3. CASE Start
    <3>1. CASE network
      BY <2>3, <3>1 DEF Start, TypeOK
    <3>2. CASE ~network
      BY <2>3, <3>2, EnqueueKeepsTypes DEF Start, Requests, TypeOK
    <3> QED BY <3>1, <3>2
  <2>4. CASE NetworkDetected \/ NetworkFailed
    BY <2>4 DEF NetworkDetected, NetworkFailed, TypeOK
  <2>5. CASE RetryStart
    BY <2>5, EnqueueKeepsTypes DEF RetryStart, Requests, TypeOK
  <2>6. CASE Drain
    <3>1. PICK starts : /\ AreStarts(starts, payloads)
                        /\ flights' = flights \cup {SubSeq(payloads, s, BatchEnd(payloads, s)) : s \in starts}
      BY <2>6 DEF Drain
    <3>2. \A s \in starts : LET batch == SubSeq(payloads, s, BatchEnd(payloads, s))
                            IN  batch \in Seq(Requests) /\ batch # <<>>
      BY <3>1, BatchesOfQueue DEF TypeOK
    <3>3. \A batch \in flights' : batch \in Seq(Requests) /\ batch # <<>>
      BY <3>1, <3>2 DEF TypeOK
    <3>4. payloads' = <<>> /\ <<>> \in Seq(Requests)
      BY <2>6 DEF Drain
    <3>5. UNCHANGED <<batchMaxCount, promise, id, nextId, ready, network, boot>> /\ drainTimer' = FALSE
      BY <2>6 DEF Drain
    <3> QED BY <3>3, <3>4, <3>5 DEF TypeOK
  <2>7. CASE Answer
    BY <2>7 DEF Answer, Receive, Fail, Settle, TypeOK
  <2>8. CASE UNCHANGED vars
    BY <2>8 DEF vars, TypeOK
  <2> QED BY <2>1, <2>2, <2>3, <2>4, <2>5, <2>6, <2>7, <2>8 DEF Next, Bootstrap
<1> QED BY <1>1, <1>2, PTL DEF Spec

-----------------------------------------------------------------------------
(* The order of requests *)

(***************************************************************************)
(* What the three properties below rest on: a request has an id from the   *)
(* moment it is made; it is pending while it is queued or in flight, which *)
(* it never is at once; and a probe is never queued.                       *)
(***************************************************************************)
IssuedHaveIds == \A r \in Requests : id[r] = 0 <=> promise[r] = "none"
HeldArePending == \A r \in Range(payloads) \cup InFlight : promise[r] = "pending"
HeldOnce == Range(payloads) \cap (InFlight \cup Probes) = {}

QueueInv ==
  /\ IdsBehind
  /\ IssuedHaveIds
  /\ HeldArePending
  /\ HeldOnce
  /\ SentInOrder
  /\ BatchesWithinLimits
  /\ OrphansFollowARejection

\* A request that is issued was neither queued nor in flight, and its id is
\* later than all others.
LEMMA IssueIsFresh ==
  ASSUME TypeOK, QueueInv, NEW r \in Requests, Issue(r)
  PROVE  /\ r \notin Range(payloads) \cup InFlight
         /\ \A q \in Requests : /\ id'[q] = IF q = r THEN nextId ELSE id[q]
                                /\ promise'[q] = IF q = r THEN "pending" ELSE promise[q]
                                /\ id[q] < nextId
         /\ IdsBehind' /\ IssuedHaveIds'
<1>1. /\ promise[r] = "none"
      /\ \A q \in Requests : /\ id'[q] = IF q = r THEN nextId ELSE id[q]
                             /\ promise'[q] = IF q = r THEN "pending" ELSE promise[q]
                             /\ id[q] < nextId /\ id[q] \in Nat
      /\ nextId' = nextId + 1 /\ nextId \in Nat \ {0}
      /\ id' \in [Requests -> Nat]
  BY DEF TypeOK, QueueInv, IdsBehind, Issue
<1>2. r \notin Range(payloads) \cup InFlight
  BY <1>1 DEF QueueInv, HeldArePending
<1>3. IdsBehind' /\ IssuedHaveIds'
  BY <1>1 DEF QueueInv, IdsBehind, IssuedHaveIds
<1> QED BY <1>1, <1>2, <1>3

\* Whatever is queued or in flight is a request.
LEMMA HeldAreRequests ==
  ASSUME TypeOK
  PROVE  /\ Range(payloads) \subseteq Requests
         /\ InFlight \subseteq Requests
         /\ \A batch \in flights : Range(batch) \subseteq InFlight
         /\ \A r : r \in InFlight <=> \E batch \in flights : r \in Range(batch)
<1>1. ASSUME NEW s \in Seq(Requests) PROVE Range(s) \subseteq Requests
  BY <1>1 DEF Range
<1> QED BY <1>1 DEF TypeOK, InFlight

\* Sending through the queue keeps the order: the new payload is the youngest
\* and goes behind the others.
LEMMA EnqueueKeepsOrder ==
  ASSUME TypeOK, QueueInv, NEW r \in Requests \ Probes, Enqueue(r)
  PROVE  QueueInv'
<1>1. Issue(r) /\ payloads' = Append(payloads, r) /\ flights' = flights /\ batchMaxCount' = batchMaxCount
  BY DEF Enqueue, Issue
<1>2. /\ r \notin Range(payloads) \cup InFlight
      /\ \A q \in Requests : /\ id'[q] = IF q = r THEN nextId ELSE id[q]
                             /\ promise'[q] = IF q = r THEN "pending" ELSE promise[q]
                             /\ id[q] < nextId
      /\ IdsBehind' /\ IssuedHaveIds'
  BY <1>1, IssueIsFresh
<1>3. InFlight' = InFlight
  BY <1>1 DEF InFlight
<1>4. /\ payloads \in Seq(Requests) /\ Len(payloads') = Len(payloads) + 1 /\ Len(payloads) \in Nat
      /\ DOMAIN payloads = 1 .. Len(payloads) /\ DOMAIN payloads' = 1 .. Len(payloads) + 1
      /\ \A i \in DOMAIN payloads : payloads'[i] = payloads[i] /\ payloads[i] \in Range(payloads)
      /\ payloads'[Len(payloads) + 1] = r
  BY <1>1 DEF TypeOK, Range
<1>5. Range(payloads') = Range(payloads) \cup {r}
  BY <1>4 DEF Range
<1>6. HeldArePending' /\ HeldOnce'
  BY <1>2, <1>3, <1>5, HeldAreRequests DEF QueueInv, HeldArePending, HeldOnce
<1>7. SentInOrder'
  <2>1. InOrder(payloads)'
    <3> SUFFICES ASSUME NEW i \in DOMAIN payloads', NEW j \in DOMAIN payloads', i < j
                 PROVE  id'[payloads'[i]] < id'[payloads'[j]]
      BY DEF InOrder
    <3>1. i \in DOMAIN payloads /\ payloads[i] \in Requests /\ payloads[i] # r
      BY <1>2, <1>4, HeldAreRequests
    <3>2. CASE j \in DOMAIN payloads
      <4>1. payloads[j] \in Requests /\ payloads[j] # r
        BY <1>2, <1>4, <3>2, HeldAreRequests
      <4>2. id[payloads[i]] < id[payloads[j]]
        BY <3>1, <3>2 DEF QueueInv, SentInOrder, InOrder
      <4> QED BY <1>2, <1>4, <3>1, <3>2, <4>1, <4>2
    <3>3. CASE j = Len(payloads) + 1
      BY <1>2, <1>4, <3>1, <3>3
    <3> QED BY <1>4, <3>2, <3>3
  <2>2. \A batch \in flights' : InOrder(batch)'
    <3> SUFFICES ASSUME NEW batch \in flights, NEW i \in DOMAIN batch, NEW j \in DOMAIN batch, i < j
                 PROVE  id'[batch[i]] < id'[batch[j]]
      BY <1>1 DEF InOrder
    <3>1. /\ batch[i] \in Requests /\ batch[i] # r
          /\ batch[j] \in Requests /\ batch[j] # r
      BY <1>2, HeldAreRequests DEF Range
    <3> QED BY <1>2, <3>1 DEF QueueInv, SentInOrder, InOrder
  <2>3. ASSUME NEW p \in Range(payloads'), NEW q \in InFlight' \ Probes PROVE id'[q] < id'[p]
    BY <1>2, <1>3, <1>5, HeldAreRequests DEF QueueInv, SentInOrder
  <2> QED BY <1>1, <2>1, <2>2, <2>3 DEF QueueInv, SentInOrder
<1>8. BatchesWithinLimits'
  BY <1>1 DEF QueueInv, BatchesWithinLimits
<1>9. OrphansFollowARejection'
  <2> SUFFICES ASSUME NEW q \in Requests, Orphan(q)'
               PROVE  /\ batchMaxCount > 1
                      /\ \E p \in Requests : promise'[p] = "rejected" /\ 0 < id'[p] /\ id'[p] < id'[q]
    BY <1>1 DEF OrphansFollowARejection
  <2>1. q # r /\ Orphan(q)
    BY <1>2, <1>3, <1>5 DEF Orphan
  <2>2. /\ batchMaxCount > 1
        /\ \E p \in Requests : promise[p] = "rejected" /\ 0 < id[p] /\ id[p] < id[q]
    BY <2>1 DEF QueueInv, OrphansFollowARejection
  <2>3. promise[r] = "none"
    BY <1>1 DEF Issue
  <2> QED BY <1>2, <2>1, <2>2, <2>3
<1> QED BY <1>2, <1>6, <1>7, <1>8, <1>9 DEF QueueInv

\* A probe goes straight into flight, as a batch of its own.
LEMMA ProbeKeepsOrder ==
  ASSUME TypeOK, QueueInv, NEW r \in Probes, Probe(r)
  PROVE  QueueInv'
<1>1. /\ Issue(r) /\ payloads' = payloads /\ flights' = flights \cup {<<r>>} /\ r \in Requests
      /\ batchMaxCount' = batchMaxCount
  BY DEF Probe, Issue, Requests
<1>2. /\ r \notin Range(payloads) \cup InFlight
      /\ \A q \in Requests : /\ id'[q] = IF q = r THEN nextId ELSE id[q]
                             /\ promise'[q] = IF q = r THEN "pending" ELSE promise[q]
                             /\ id[q] < nextId
      /\ IdsBehind' /\ IssuedHaveIds'
  BY <1>1, IssueIsFresh
<1>3. DOMAIN <<r>> = {1} /\ Len(<<r>>) = 1 /\ Range(<<r>>) = {r}
  BY DEF Range
<1>4. InFlight' = InFlight \cup {r}
  BY <1>1, <1>3 DEF InFlight
<1>5. HeldArePending' /\ HeldOnce'
  BY <1>1, <1>2, <1>4, HeldAreRequests DEF QueueInv, HeldArePending, HeldOnce
<1>6. SentInOrder'
  <2>1. ASSUME NEW s \in Seq(Requests), r \notin Range(s), InOrder(s)
        PROVE  InOrder(s)'
    <3> SUFFICES ASSUME NEW i \in DOMAIN s, NEW j \in DOMAIN s, i < j
                 PROVE  id'[s[i]] < id'[s[j]]
      BY DEF InOrder
    <3>1. s[i] \in Requests \ {r} /\ s[j] \in Requests \ {r}
      BY <2>1 DEF Range
    <3> QED BY <1>2, <2>1, <3>1 DEF InOrder
  <2>2. InOrder(payloads)'
    BY <1>1, <1>2, <2>1 DEF QueueInv, SentInOrder, TypeOK, InOrder
  <2>3. ASSUME NEW batch \in flights' PROVE InOrder(batch)'
    <3>1. CASE batch = <<r>>
      BY <1>3, <3>1 DEF InOrder
    <3>2. CASE batch \in flights
      BY <1>2, <2>1, <3>2, HeldAreRequests DEF QueueInv, SentInOrder, TypeOK
    <3> QED BY <1>1, <3>1, <3>2
  <2>4. ASSUME NEW p \in Range(payloads'), NEW q \in InFlight' \ Probes PROVE id'[q] < id'[p]
    <3>1. p \in Range(payloads) /\ q \in InFlight \ Probes /\ p # r /\ q # r
      BY <1>1, <1>2, <1>4
    <3> QED BY <1>2, <3>1, HeldAreRequests DEF QueueInv, SentInOrder
  <2>5. ASSUME NEW b \in flights', NEW c \in flights', b # c PROVE Range(b) \cap Range(c) = {}
    BY <1>1, <1>2, <1>3, <2>5, HeldAreRequests DEF QueueInv, SentInOrder
  <2> QED BY <2>2, <2>3, <2>4, <2>5 DEF SentInOrder
<1>7. BatchesWithinLimits'
  <2>1. batchMaxCount \in Nat \ {0}
    BY BatchAssumption DEF TypeOK
  <2>2. ASSUME NEW batch \in flights'
        PROVE  Len(batch) <= batchMaxCount' /\ (Len(batch) > 1 => JsonLength(batch) <= BatchMaxSize)
    <3>1. CASE batch = <<r>>
      BY <1>1, <1>3, <2>1, <3>1
    <3>2. CASE batch \in flights
      BY <1>1, <3>2 DEF QueueInv, BatchesWithinLimits
    <3> QED BY <1>1, <3>1, <3>2
  <2> QED BY <2>2 DEF BatchesWithinLimits
<1>8. OrphansFollowARejection'
  <2> SUFFICES ASSUME NEW q \in Requests, Orphan(q)'
               PROVE  /\ batchMaxCount > 1
                      /\ \E p \in Requests : promise'[p] = "rejected" /\ 0 < id'[p] /\ id'[p] < id'[q]
    BY <1>1 DEF OrphansFollowARejection
  <2>1. q # r /\ Orphan(q)
    BY <1>1, <1>2, <1>4 DEF Orphan
  <2>2. /\ batchMaxCount > 1
        /\ \E p \in Requests : promise[p] = "rejected" /\ 0 < id[p] /\ id[p] < id[q]
    BY <2>1 DEF QueueInv, OrphansFollowARejection
  <2>3. promise[r] = "none"
    BY <1>1 DEF Issue
  <2> QED BY <1>2, <2>1, <2>2, <2>3
<1> QED BY <1>2, <1>5, <1>6, <1>7, <1>8 DEF QueueInv

\* Draining keeps the order: the batches cut the queue into consecutive pieces.
LEMMA DrainKeepsOrder ==
  ASSUME TypeOK, QueueInv, Drain
  PROVE  QueueInv'
<1> DEFINE Batch(s) == SubSeq(payloads, s, BatchEnd(payloads, s))
<1>1. PICK starts : /\ AreStarts(starts, payloads)
                    /\ flights' = flights \cup {Batch(s) : s \in starts}
  BY DEF Drain
<1>2. /\ payloads' = <<>> /\ Range(payloads') = {}
      /\ UNCHANGED <<batchMaxCount, promise, id, nextId>>
  BY DEF Drain, Range
<1>3. payloads \in Seq(Requests) /\ DOMAIN payloads = 1 .. Len(payloads) /\ Len(payloads) \in Nat
  BY DEF TypeOK
<1>4. \A s \in starts : /\ Batch(s) \in Seq(Requests) /\ Batch(s) # <<>>
                        /\ s \in DOMAIN payloads
                        /\ Len(Batch(s)) = BatchEnd(payloads, s) - s + 1
                        /\ \A i \in DOMAIN Batch(s) : /\ s + i - 1 \in s .. BatchEnd(payloads, s)
                                                      /\ Batch(s)[i] = payloads[s + i - 1]
  BY <1>1, <1>3, BatchesOfQueue
<1>5. \A s \in starts : /\ BatchEnd(payloads, s) \in s .. Len(payloads)
                        /\ \/ BatchEnd(payloads, s) = s
                           \/ /\ BatchEnd(payloads, s) - s + 1 <= batchMaxCount
                              /\ JsonLength(Batch(s)) <= BatchMaxSize
  BY <1>3, <1>4, BatchEnds
<1>6. \A s, t \in starts : s < t => BatchEnd(payloads, s) < t
  BY <1>1, <1>3, BatchesApart
<1>7. \A i \in DOMAIN payloads : \E s \in starts : i \in s .. BatchEnd(payloads, s)
  BY <1>1, <1>3, BatchesCover
<1> HIDE DEF Batch
<1>8. UNION {Range(Batch(s)) : s \in starts} = Range(payloads)
  <2>1. ASSUME NEW s \in starts PROVE Range(Batch(s)) \subseteq Range(payloads)
    BY <1>3, <1>4, <1>5 DEF Range
  <2>2. ASSUME NEW i \in DOMAIN payloads PROVE \E s \in starts : payloads[i] \in Range(Batch(s))
    <3>1. PICK s \in starts : i \in s .. BatchEnd(payloads, s)
      BY <1>7
    <3>2. i - s + 1 \in DOMAIN Batch(s) /\ s + (i - s + 1) - 1 = i
      BY <1>3, <1>4, <1>5, <3>1
    <3>3. Batch(s)[i - s + 1] = payloads[i]
      BY <1>4, <3>2
    <3> QED BY <3>2, <3>3 DEF Range
  <2> QED BY <2>1, <2>2 DEF Range
<1>9. InFlight' = InFlight \cup Range(payloads)
  BY <1>1, <1>8 DEF InFlight
<1>10. IdsBehind' /\ IssuedHaveIds' /\ HeldArePending' /\ HeldOnce'
  BY <1>2, <1>9 DEF QueueInv, IdsBehind, IssuedHaveIds, HeldArePending, HeldOnce
<1>11. SentInOrder'
  <2>1. InOrder(payloads)'
    BY <1>2 DEF InOrder
  <2>2. ASSUME NEW s \in starts, NEW i \in DOMAIN Batch(s), NEW j \in DOMAIN Batch(s), i < j
        PROVE  id[Batch(s)[i]] < id[Batch(s)[j]]
    <3>1. s + i - 1 \in DOMAIN payloads /\ s + j - 1 \in DOMAIN payloads /\ s + i - 1 < s + j - 1
      BY <1>3, <1>4, <1>5, <2>2
    <3>2. id[payloads[s + i - 1]] < id[payloads[s + j - 1]]
      BY <3>1 DEF QueueInv, SentInOrder, InOrder
    <3> QED BY <1>4, <3>2
  <2>3. ASSUME NEW batch \in flights' PROVE InOrder(batch)'
    <3>1. CASE batch \in flights
      BY <1>2, <3>1 DEF QueueInv, SentInOrder, InOrder
    <3>2. ASSUME NEW s \in starts, batch = Batch(s) PROVE InOrder(batch)'
      BY <1>2, <2>2, <3>2 DEF InOrder
    <3> QED BY <1>1, <3>1, <3>2
  <2>4. ASSUME NEW s \in starts, NEW t \in starts, s < t PROVE Range(Batch(s)) \cap Range(Batch(t)) = {}
    <3> SUFFICES ASSUME NEW i \in DOMAIN Batch(s), NEW j \in DOMAIN Batch(t), Batch(s)[i] = Batch(t)[j]
                 PROVE  FALSE
      BY DEF Range
    <3>1. s + i - 1 \in s .. BatchEnd(payloads, s) /\ t + j - 1 \in t .. BatchEnd(payloads, t)
      BY <1>4
    <3>2. s + i - 1 \in DOMAIN payloads /\ t + j - 1 \in DOMAIN payloads /\ s + i - 1 < t + j - 1
      <4>1. BatchEnd(payloads, s) < t /\ s \in Nat \ {0} /\ t \in Nat \ {0} /\ i \in Nat /\ j \in Nat
        BY <1>3, <1>4, <1>6, <2>4
      <4>2. BatchEnd(payloads, s) \in 1 .. Len(payloads) /\ BatchEnd(payloads, t) \in 1 .. Len(payloads)
        BY <1>3, <1>5, <4>1
      <4> QED BY <1>3, <3>1, <4>1, <4>2
    <3>3. id[payloads[s + i - 1]] < id[payloads[t + j - 1]]
      BY <3>2 DEF QueueInv, SentInOrder, InOrder
    <3>4. payloads[s + i - 1] = payloads[t + j - 1] /\ payloads[s + i - 1] \in Requests
      BY <1>4, <3>2, HeldAreRequests DEF Range
    <3> QED BY <3>3, <3>4 DEF TypeOK
  <2>5. ASSUME NEW b \in flights, NEW s \in starts PROVE Range(b) \cap Range(Batch(s)) = {}
    BY <1>8, HeldAreRequests DEF QueueInv, HeldOnce
  <2>6. ASSUME NEW b \in flights', NEW c \in flights', b # c PROVE Range(b) \cap Range(c) = {}
    <3>1. CASE b \in flights /\ c \in flights
      BY <2>6, <3>1 DEF QueueInv, SentInOrder
    <3>2. CASE b \in flights /\ c \notin flights
      BY <1>1, <2>5, <3>2
    <3>3. CASE b \notin flights /\ c \in flights
      BY <1>1, <2>5, <3>3
    <3>4. CASE b \notin flights /\ c \notin flights
      <4>1. PICK s \in starts, t \in starts : b = Batch(s) /\ c = Batch(t)
        BY <1>1, <3>4
      <4>2. s < t \/ t < s
        BY <1>3, <1>4, <2>6, <4>1
      <4> QED BY <2>4, <4>1, <4>2
    <3> QED BY <3>1, <3>2, <3>3, <3>4
  <2> QED BY <1>2, <2>1, <2>3, <2>6 DEF SentInOrder
<1>12. BatchesWithinLimits'
  <2>1. batchMaxCount \in Nat \ {0}
    BY BatchAssumption DEF TypeOK
  <2>2. ASSUME NEW s \in starts
        PROVE  Len(Batch(s)) <= batchMaxCount /\ (Len(Batch(s)) > 1 => JsonLength(Batch(s)) <= BatchMaxSize)
    BY <1>3, <1>4, <1>5, <2>1
  <2> QED BY <1>1, <1>2, <2>2 DEF QueueInv, BatchesWithinLimits
<1>13. OrphansFollowARejection'
  <2>1. ASSUME NEW q \in Requests, Orphan(q)' PROVE Orphan(q)
    BY <1>2, <1>9, <2>1 DEF Orphan
  <2> QED BY <1>2, <2>1 DEF QueueInv, OrphansFollowARejection
<1> QED BY <1>10, <1>11, <1>12, <1>13 DEF QueueInv

\* Settling a batch keeps the order.  Whoever is not settled although its batch
\* is gone is behind a request of the batch that was rejected.
LEMMA AnswerKeepsOrder ==
  ASSUME TypeOK, QueueInv, Answer
  PROVE  QueueInv'
<1>1. PICK batch \in flights :
           \/ \E reply \in [DOMAIN batch -> Replies] : Receive(batch, reply)
           \/ Fail(batch)
  BY DEF Answer
<1>2. flights' = flights \ {batch} /\ UNCHANGED <<batchMaxCount, id, nextId, payloads>>
  BY <1>1 DEF Receive, Fail
<1>3. /\ batch \in Seq(Requests) /\ DOMAIN batch = 1 .. Len(batch) /\ Len(batch) \in Nat
      /\ Range(batch) \subseteq InFlight /\ Range(batch) \subseteq Requests
      /\ \A i \in DOMAIN batch : batch[i] \in Range(batch)
      /\ Len(batch) <= batchMaxCount
  BY HeldAreRequests DEF TypeOK, Range, QueueInv, BatchesWithinLimits
<1>4. InFlight' = InFlight \ Range(batch)
  BY <1>2 DEF InFlight, QueueInv, SentInOrder
(***************************************************************************)
(* All that matters of the promises: only those of the batch change, to a  *)
(* settled state, and one that does not is behind a rejected one.          *)
(***************************************************************************)
<1>5. /\ \A r \in Requests \ Range(batch) : promise'[r] = promise[r]
      /\ \A r \in Range(batch) : promise'[r] # "none"
      /\ \A r \in Range(batch) : promise'[r] = "pending" =>
           \E i, j \in DOMAIN batch : i < j /\ batch[j] = r /\ promise'[batch[i]] = "rejected"
  <2>1. \A r \in Range(batch) : promise[r] = "pending"
    BY <1>3 DEF QueueInv, HeldArePending
  <2>2. CASE Fail(batch)
    BY <1>3, <2>1, <2>2 DEF Fail, Settle
  <2>3. ASSUME NEW reply \in [DOMAIN batch -> Replies], Receive(batch, reply)
        PROVE  /\ \A r \in Requests \ Range(batch) : promise'[r] = promise[r]
               /\ \A r \in Range(batch) : promise'[r] # "none"
               /\ \A r \in Range(batch) : promise'[r] = "pending" =>
                    \E i, j \in DOMAIN batch : i < j /\ batch[j] = r /\ promise'[batch[i]] = "rejected"
    <3> DEFINE failed == {i \in DOMAIN batch : reply[i] # "result"}
               stop   == IF failed = {} THEN Len(batch) + 1 ELSE Min(failed)
    <3>1. promise' = [r \in Requests |->
            IF \E i \in DOMAIN batch : i < stop /\ batch[i] = r THEN "resolved"
            ELSE IF stop \in DOMAIN batch /\ batch[stop] = r THEN "rejected"
            ELSE promise[r]]
      BY <2>3 DEF Receive
    <3>2. stop \in 1 .. Len(batch) + 1
      <4>1. failed \in SUBSET Nat /\ failed \subseteq 1 .. Len(batch)
        BY <1>3
      <4>2. CASE failed # {}
        <5>1. Min(failed) \in failed
          <6> HIDE DEF failed
          <6> QED BY <4>1, <4>2, MinOfNats
        <5> QED BY <1>3, <4>2, <5>1
      <4> QED BY <1>3, <4>2
    <3> HIDE DEF stop
    <3>3. \A r \in Requests \ Range(batch) : promise'[r] = promise[r]
      BY <1>3, <3>1
    <3>4. \A r \in Range(batch) : promise'[r] # "none"
      BY <1>3, <2>1, <3>1
    <3>5. ASSUME NEW r \in Range(batch), promise'[r] = "pending"
          PROVE  \E i, j \in DOMAIN batch : i < j /\ batch[j] = r /\ promise'[batch[i]] = "rejected"
      <4>1. PICK j \in DOMAIN batch : batch[j] = r
        BY DEF Range
      <4>2. ~ (\E i \in DOMAIN batch : i < stop /\ batch[i] = r) /\ ~ (stop \in DOMAIN batch /\ batch[stop] = r)
        BY <1>3, <3>1, <3>5
      <4>3. stop < j /\ stop \in DOMAIN batch
        BY <1>3, <3>2, <4>1, <4>2
      <4>4. \A i \in DOMAIN batch : i < stop => batch[i] # batch[stop]
        <5>1. \A i \in DOMAIN batch : i < stop => id[batch[i]] < id[batch[stop]]
          BY <4>3 DEF QueueInv, SentInOrder, InOrder
        <5> QED BY <1>3, <4>3, <5>1 DEF TypeOK
      <4>5. promise'[batch[stop]] = "rejected"
        BY <1>3, <3>1, <4>3, <4>4
      <4> QED BY <4>1, <4>3, <4>5
    <3> QED BY <3>3, <3>4, <3>5
  <2> QED BY <1>1, <2>2, <2>3
<1>6. \A r \in Requests : promise[r] # "none" <=> promise'[r] # "none"
  BY <1>3, <1>5 DEF QueueInv, HeldArePending
<1>7. IdsBehind' /\ IssuedHaveIds'
  BY <1>2, <1>6 DEF QueueInv, IdsBehind, IssuedHaveIds
<1>8. HeldArePending' /\ HeldOnce'
  <2>1. ASSUME NEW r \in Range(payloads) \cup InFlight' PROVE promise'[r] = "pending"
    <3>1. r \in Requests \ Range(batch) /\ promise[r] = "pending"
      BY <1>3, <1>4, HeldAreRequests DEF QueueInv, HeldArePending, HeldOnce
    <3> QED BY <1>5, <3>1
  <2> QED BY <1>2, <1>4, <2>1 DEF QueueInv, HeldArePending, HeldOnce
<1>9. SentInOrder' /\ BatchesWithinLimits'
  <2>1. InOrder(payloads)' /\ \A b \in flights' : InOrder(b)'
    BY <1>2 DEF QueueInv, SentInOrder, InOrder
  <2> QED BY <1>2, <1>4, <2>1 DEF QueueInv, SentInOrder, BatchesWithinLimits
<1>10. OrphansFollowARejection'
  <2> SUFFICES ASSUME NEW r \in Requests, Orphan(r)'
               PROVE  /\ batchMaxCount > 1
                      /\ \E q \in Requests : promise'[q] = "rejected" /\ 0 < id[q] /\ id[q] < id[r]
    BY <1>2 DEF OrphansFollowARejection
  <2>1. CASE r \in Range(batch)
    <3>1. PICK i \in DOMAIN batch, j \in DOMAIN batch :
                 i < j /\ batch[j] = r /\ promise'[batch[i]] = "rejected"
      BY <1>5, <2>1 DEF Orphan
    <3>2. id[batch[i]] < id[r]
      BY <3>1 DEF QueueInv, SentInOrder, InOrder
    <3>3. 0 < id[batch[i]]
      <4>1. promise[batch[i]] = "pending" /\ batch[i] \in Requests
        BY <1>3 DEF QueueInv, HeldArePending
      <4> QED BY <4>1 DEF QueueInv, IssuedHaveIds, TypeOK
    <3>4. batchMaxCount > 1
      BY <1>3, <3>1, BatchAssumption DEF TypeOK
    <3> QED BY <1>3, <3>1, <3>2, <3>3, <3>4
  <2>2. CASE r \notin Range(batch)
    <3>1. Orphan(r)
      BY <1>2, <1>4, <1>5, <2>2 DEF Orphan
    <3>2. /\ batchMaxCount > 1
          /\ \E q \in Requests : promise[q] = "rejected" /\ 0 < id[q] /\ id[q] < id[r]
      BY <3>1 DEF QueueInv, OrphansFollowARejection
    <3>3. \A q \in Requests : promise[q] = "rejected" => q \notin Range(batch)
      BY <1>3 DEF QueueInv, HeldArePending
    <3> QED BY <1>5, <3>2, <3>3
  <2> QED BY <2>1, <2>2
<1> QED BY <1>7, <1>8, <1>9, <1>10 DEF QueueInv

\* The invariant holds of the whole program.
LEMMA QueueInvariant == Spec => []QueueInv
<1>1. Init => QueueInv
  <2> SUFFICES ASSUME Init PROVE QueueInv
    OBVIOUS
  <2>1. /\ payloads = <<>> /\ Range(payloads) = {} /\ flights = {} /\ InFlight = {}
        /\ \A r \in Requests : id[r] = 0 /\ promise[r] = "none"
        /\ id \in [Requests -> Nat] /\ nextId = 1
    BY DEF Init, InFlight, Range
  <2>2. InOrder(payloads)
    BY <2>1 DEF InOrder
  <2>3. IdsBehind /\ IssuedHaveIds /\ HeldArePending /\ HeldOnce
    BY <2>1 DEF IdsBehind, IssuedHaveIds, HeldArePending, HeldOnce
  <2>4. SentInOrder /\ BatchesWithinLimits /\ OrphansFollowARejection
    BY <2>1, <2>2 DEF SentInOrder, BatchesWithinLimits, OrphansFollowARejection, Orphan
  <2> QED BY <2>3, <2>4 DEF QueueInv
<1>2. TypeOK /\ QueueInv /\ [Next]_vars => QueueInv'
  <2> SUFFICES ASSUME TypeOK, QueueInv, [Next]_vars PROVE QueueInv'
    OBVIOUS
  <2>1. ASSUME UNCHANGED <<batchMaxCount, promise, id, nextId, payloads, flights>> PROVE QueueInv'
    BY <2>1 DEF QueueInv, IdsBehind, IssuedHaveIds, HeldArePending, HeldOnce, SentInOrder, InOrder, InFlight,
                BatchesWithinLimits, OrphansFollowARejection, Orphan
  <2>2. Calls \subseteq Requests \ Probes /\ Boots \subseteq Requests \ Probes
    BY BatchAssumption DEF Requests
  <2>3. CASE \E r \in Calls : Send(r)
    BY <2>2, <2>3, EnqueueKeepsOrder DEF Send
  <2>4. CASE \E r \in Probes : Probe(r)
    BY <2>4, ProbeKeepsOrder
  <2>5. CASE Start
    <3>1. CASE network
      BY <2>1, <2>5, <3>1 DEF Start
    <3>2. CASE ~network
      BY <2>2, <2>5, <3>2, EnqueueKeepsOrder DEF Start
    <3> QED BY <3>1, <3>2
  <2>6. CASE RetryStart
    BY <2>2, <2>6, EnqueueKeepsOrder DEF RetryStart
  <2>7. CASE NetworkDetected \/ NetworkFailed \/ UNCHANGED vars
    BY <2>1, <2>7 DEF NetworkDetected, NetworkFailed, vars
  <2>8. CASE Drain
    BY <2>8, DrainKeepsOrder
  <2>9. CASE Answer
    BY <2>9, AnswerKeepsOrder
  <2> QED BY <2>3, <2>4, <2>5, <2>6, <2>7, <2>8, <2>9 DEF Next, Bootstrap
<1> QED BY <1>1, <1>2, TypeCorrect, PTL DEF Spec

\* Requests leave in the order they were made, each in one batch.
THEOREM RequestsLeaveInOrder == Spec => []SentInOrder
<1>1. QueueInv => SentInOrder
  BY DEF QueueInv
<1> QED BY <1>1, QueueInvariant, PTL

\* No batch exceeds the count, nor the size unless it is a single payload.
THEOREM BatchesStayWithinLimits == Spec => []BatchesWithinLimits
<1>1. QueueInv => BatchesWithinLimits
  BY DEF QueueInv
<1> QED BY <1>1, QueueInvariant, PTL

\* A promise is left pending for good only behind a rejected payload of its
\* batch, and never if the provider does not batch.
THEOREM OnlyBatchErrorsOrphan == Spec => []OrphansFollowARejection
<1>1. QueueInv => OrphansFollowARejection
  BY DEF QueueInv
<1> QED BY <1>1, QueueInvariant, PTL
=============================================================================
