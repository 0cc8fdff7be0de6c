---------------------------- MODULE JsonRpcBatch ----------------------------
(***************************************************************************)
(* The request queue of JsonRpcApiProvider (providers/provider-jsonrpc.ts): *)
(* send, #scheduleDrain and its drain timer, the batches handed to _send   *)
(* and the settlement of their promises, _start and the bootstrap of the   *)
(* network, and _detectNetwork before and after the provider is ready.     *)
(***************************************************************************)
EXTENDS Integers, FiniteSets, Sequences, FiniteSetsExt, SequencesExt

CONSTANTS
  Calls,          \* the calls to send the application makes
  Boots,          \* bound: the xcb_networkId requests the bootstrap may need
  Probes,         \* _detectNetwork calls made before the provider is ready
  Bytes,          \* Bytes[r]: the length of r's serialised payload
  BatchMaxCounts, \* the values the batchMaxCount option may have
  BatchMaxSize,   \* the batchMaxSize option
  StaticNetwork,  \* whether the network is given by the staticNetwork option
  AutoStart,      \* JsonRpcProvider, whose send calls _start first
  Replies         \* what the server may reply to one payload

Requests == Calls \cup Boots \cup Probes

ASSUME BatchAssumption ==
  /\ Calls \cap Boots = {} /\ Calls \cap Probes = {} /\ Boots \cap Probes = {}
  /\ Bytes \in [Requests -> Nat]
  /\ BatchMaxCounts \subseteq Nat \ {0}
  /\ BatchMaxSize \in Nat
  /\ StaticNetwork \in BOOLEAN /\ AutoStart \in BOOLEAN
  /\ Replies \subseteq {"result", "error", "missing"}

VARIABLES
  batchMaxCount,  \* the batchMaxCount option, fixed by the constructor
  promise,        \* promise[r]: the promise returned for r
  id,             \* id[r]: its JSON-RPC id, 0 if not sent
  nextId,         \* #nextId
  payloads,       \* #payloads
  drainTimer,     \* whether #drainTimer is set
  flights,        \* the batches _send has not come back with
  ready,          \* #notReady is null
  network,        \* #network is known
  boot            \* the bootstrap loop: "off", "stalled", "done", or the
                  \* request it is waiting for

vars == <<batchMaxCount, promise, id, nextId, payloads, drainTimer, flights, ready,
          network, boot>>

Init ==
  /\ batchMaxCount \in BatchMaxCounts
  /\ promise = [r \in Requests |-> "none"]
  /\ id = [r \in Requests |-> 0]
  /\ nextId = 1
  /\ payloads = <<>>
  /\ drainTimer = FALSE
  /\ flights = {}
  /\ ready = FALSE
  /\ network = StaticNetwork
  /\ boot = "off"

-----------------------------------------------------------------------------
(* Queueing *)

\* Mutant: the id is used but not advanced.
IssueSameId(r) ==
  /\ promise[r] = "none"
  /\ promise' = [promise EXCEPT ![r] = "pending"]
  /\ id' = [id EXCEPT ![r] = nextId]
  /\ UNCHANGED <<batchMaxCount, nextId>>

\* r gets the next id and a pending promise.
Issue(r) ==
  /\ promise[r] = "none"
  /\ promise' = [promise EXCEPT ![r] = "pending"]
  /\ id' = [id EXCEPT ![r] = nextId]
  /\ nextId' = nextId + 1
  /\ UNCHANGED batchMaxCount

\* Mutants: the drain is scheduled only once ready, and the queue is a stack.
EnqueueIfReady(r) ==
  /\ Issue(r)
  /\ payloads' = Append(payloads, r)
  /\ drainTimer' = (drainTimer \/ ready)
  /\ UNCHANGED flights
EnqueueFront(r) ==
  /\ Issue(r)
  /\ payloads' = <<r>> \o payloads
  /\ drainTimer' = TRUE
  /\ UNCHANGED flights

\* send: queue the payload; #scheduleDrain sets the timer unless one is set.
Enqueue(r) ==
  /\ Issue(r)
  /\ payloads' = Append(payloads, r)
  /\ drainTimer' = TRUE
  /\ UNCHANGED flights

\* The application calls send (JsonRpcProvider starts itself first).
Send(r) ==
  /\ AutoStart => ready
  /\ Enqueue(r)
  /\ UNCHANGED <<ready, network, boot>>

\* _detectNetwork while not ready bypasses the queue.
Probe(r) ==
  /\ ~StaticNetwork
  /\ ~ready
  /\ Issue(r)
  /\ flights' = flights \cup {<<r>>}
  /\ UNCHANGED <<payloads, drainTimer, ready, network, boot>>

-----------------------------------------------------------------------------
(* Starting *)

\* _start: the provider is ready at once; the network is then requested
\* through send like any other request.  Further calls have no effect.
Start ==
  /\ ~ready
  /\ ready' = TRUE
  /\ UNCHANGED network
  /\ IF network
     THEN /\ boot' = "done"
          /\ drainTimer' = TRUE
          /\ UNCHANGED <<batchMaxCount, promise, id, nextId, payloads, flights>>
     ELSE \E r \in Boots : Enqueue(r) /\ boot' = r

\* The bootstrap request came back.
NetworkDetected ==
  /\ boot \in Boots
  /\ promise[boot] = "resolved"
  /\ network' = TRUE
  /\ boot' = "done"
  /\ drainTimer' = TRUE
  /\ UNCHANGED <<batchMaxCount, promise, id, nextId, payloads, flights, ready>>

\* Mutant: no retry.
NetworkFailedForGood ==
  /\ boot \in Boots
  /\ promise[boot] = "rejected"
  /\ boot' = "done"
  /\ UNCHANGED <<batchMaxCount, promise, id, nextId, payloads, drainTimer, flights, ready,
                 network>>

NetworkFailed ==
  /\ boot \in Boots
  /\ promise[boot] = "rejected"
  /\ boot' = "stalled"
  /\ UNCHANGED <<batchMaxCount, promise, id, nextId, payloads, drainTimer, flights, ready,
                 network>>

\* "retry in 1s".
RetryStart ==
  /\ boot = "stalled"
  /\ \E r \in Boots : Enqueue(r) /\ boot' = r
  /\ UNCHANGED <<ready, network>>

-----------------------------------------------------------------------------
(* Draining *)

\* The length of JSON.stringify of an array of payloads.
JsonLength(s) == FoldLeft(LAMBDA n, r : n + Bytes[r] + 1, 1, s)

\* Mutant: the count is checked after the push.
BatchEndLate(queue, s) ==
  Max({e \in s .. Len(queue) :
         \/ e = s
         \/ /\ e - s <= batchMaxCount
            /\ JsonLength(SubSeq(queue, s, e)) <= BatchMaxSize})

\* Where the batch starting at position s ends: pushing stops at the count,
\* and at the payload that makes it too long, which goes back to the front.
BatchEnd(queue, s) ==
  Max({e \in s .. Len(queue) :
         \/ e = s
         \/ /\ e - s + 1 <= batchMaxCount
            /\ JsonLength(SubSeq(queue, s, e)) <= BatchMaxSize})

\* The positions of the queue at which the batches start: the first, and the
\* one after the end of each.
AreStarts(starts, queue) ==
  starts = {s \in DOMAIN queue : s = 1 \/ \E t \in starts : s = BatchEnd(queue, t) + 1}

\* Mutant: the queue is sent as it is, even when it is empty.
DrainWhole ==
  /\ drainTimer
  /\ drainTimer' = FALSE
  /\ payloads' = <<>>
  /\ flights' = flights \cup {payloads}
  /\ UNCHANGED <<batchMaxCount, promise, id, nextId, ready, network, boot>>

\* The drain timer fires.
Drain ==
  /\ drainTimer
  /\ drainTimer' = FALSE
  /\ payloads' = <<>>
  /\ \E starts \in SUBSET DOMAIN payloads :
       /\ AreStarts(starts, payloads)
       /\ flights' = flights \cup {SubSeq(payloads, s, BatchEnd(payloads, s)) : s \in starts}
  /\ UNCHANGED <<batchMaxCount, promise, id, nextId, ready, network, boot>>

Settle(S, state) ==
  [r \in Requests |-> IF r \in S /\ promise[r] = "pending" THEN state ELSE promise[r]]

\* Mutant: payloads without a result are skipped.
ReceiveSkipping(batch, reply) ==
  /\ batch \in flights
  /\ flights' = flights \ {batch}
  /\ promise' = [r \in Requests |->
       IF \E i \in DOMAIN batch : reply[i] = "result" /\ batch[i] = r THEN "resolved"
       ELSE IF \E i \in DOMAIN batch : reply[i] = "error" /\ batch[i] = r THEN "rejected"
       ELSE promise[r]]
  /\ UNCHANGED <<batchMaxCount, id, nextId, payloads, drainTimer, ready, network, boot>>

\* _send resolved: results are matched by id and handled in batch order.  The
\* first payload without a result ends the loop: its `return reject(...)'
\* leaves the async function.
Receive(batch, reply) ==
  LET failed == {i \in DOMAIN batch : reply[i] # "result"}
      stop   == IF failed = {} THEN Len(batch) + 1 ELSE Min(failed)
  IN  /\ batch \in flights
      /\ flights' = flights \ {batch}
      /\ promise' = [r \in Requests |->
           IF \E i \in DOMAIN batch : i < stop /\ batch[i] = r THEN "resolved"
           ELSE IF stop \in DOMAIN batch /\ batch[stop] = r THEN "rejected"
           ELSE promise[r]]
      /\ UNCHANGED <<batchMaxCount, id, nextId, payloads, drainTimer, ready, network, boot>>

\* _send threw: every promise of the batch is rejected.
Fail(batch) ==
  /\ batch \in flights
  /\ flights' = flights \ {batch}
  /\ promise' = Settle(Range(batch), "rejected")
  /\ UNCHANGED <<batchMaxCount, id, nextId, payloads, drainTimer, ready, network, boot>>

-----------------------------------------------------------------------------
Answer ==
  \E batch \in flights :
    \/ \E reply \in [DOMAIN batch -> Replies] : Receive(batch, reply)
    \/ Fail(batch)

Bootstrap == NetworkDetected \/ NetworkFailed \/ RetryStart

Next ==
  \/ \E r \in Calls : Send(r)
  \/ \E r \in Probes : Probe(r)
  \/ Start
  \/ Bootstrap
  \/ Drain
  \/ Answer

Spec == Init /\ [][Next]_vars

(***************************************************************************)
(* Timers fire, the bootstrap loop runs, and every batch sent is answered  *)
(* or fails.  Nobody has to send or to start.                              *)
(***************************************************************************)
FairSpec ==
  /\ Spec
  /\ WF_vars(Bootstrap) /\ WF_vars(Drain)
  /\ \A r \in Requests :
       WF_vars(\E batch \in flights :
                 /\ r \in Range(batch)
                 /\ \/ \E reply \in [DOMAIN batch -> Replies] : Receive(batch, reply)
                    \/ Fail(batch))

-----------------------------------------------------------------------------
(* Properties *)

TypeOK ==
  /\ batchMaxCount \in BatchMaxCounts
  /\ promise \in [Requests -> {"none", "pending", "resolved", "rejected"}]
  /\ id \in [Requests -> Nat]
  /\ nextId \in Nat \ {0}
  /\ payloads \in Seq(Requests)
  /\ drainTimer \in BOOLEAN
  /\ \A batch \in flights : batch \in Seq(Requests) /\ batch # <<>>
  /\ ready \in BOOLEAN /\ network \in BOOLEAN
  /\ boot \in Boots \cup {"off", "stalled", "done"}

InFlight == UNION {Range(batch) : batch \in flights}

(***************************************************************************)
(* No queued payload is forgotten: while there are any, a drain is due.    *)
(***************************************************************************)
QueuedWillDrain == payloads # <<>> => drainTimer

(***************************************************************************)
(* No two requests ever get the same id, also across the queue, the probes *)
(* that bypass it and the bootstrap's own requests: results are matched by *)
(* id alone.                                                               *)
(***************************************************************************)
IdsUnique ==
  \A r, q \in Requests : id[r] = id[q] /\ id[r] # 0 => r = q

(***************************************************************************)
(* Requests leave in the order they were made: every batch is in id order, *)
(* nothing queued is older than something already sent, and a request is   *)
(* queued or in flight in one place only.                                  *)
(***************************************************************************)
InOrder(s) == \A i, j \in DOMAIN s : i < j => id[s[i]] < id[s[j]]
SentInOrder ==
  /\ InOrder(payloads)
  /\ \A batch \in flights : InOrder(batch)
  /\ \A r \in Range(payloads), q \in InFlight \ Probes : id[q] < id[r]
  /\ \A b, c \in flights : b # c => Range(b) \cap Range(c) = {}

(***************************************************************************)
(* Every batch satisfies batchMaxCount, and batchMaxSize too unless it is  *)
(* a single payload that exceeds it alone.                                 *)
(***************************************************************************)
BatchesWithinLimits ==
  \A batch \in flights :
    /\ Len(batch) <= batchMaxCount
    /\ Len(batch) > 1 => JsonLength(batch) <= BatchMaxSize

(***************************************************************************)
(* A promise whose payload is gone while it is still pending can only be   *)
(* one behind a rejected payload of the same batch; none is lost when the  *)
(* provider does not batch.                                                *)
(***************************************************************************)
Orphan(r) == promise[r] = "pending" /\ r \notin Range(payloads) /\ r \notin InFlight
OrphansFollowARejection ==
  \A r \in Requests : Orphan(r) =>
    /\ batchMaxCount > 1
    /\ \E q \in Requests : promise[q] = "rejected" /\ 0 < id[q] /\ id[q] < id[r]

(***************************************************************************)
(* "Process the result to each payload": a promise stays pending only      *)
(* while its payload is queued or in flight.  Not so when batching: the    *)
(* payloads behind an error response are never settled.                    *)
(***************************************************************************)
NoOrphans == \A r \in Requests : ~Orphan(r)

(***************************************************************************)
(* Every request made is eventually answered or has failed, whatever fails *)
(* before it, unless it is orphaned.                                       *)
(***************************************************************************)
EveryRequestSettles ==
  \A r \in Requests : promise[r] = "pending" ~> (promise[r] # "pending" \/ Orphan(r))

(***************************************************************************)
(* "Until _start has been called, no calls will be passed to _send from    *)
(* send".  They are: the drain does not look at #notReady.                 *)
(***************************************************************************)
NothingSentBeforeStart == ~ready => InFlight \cap Calls = {}

(***************************************************************************)
(* Once started, the network is eventually known, whatever fails on the    *)
(* way: the bootstrap retries after each failure.  The exceptions are the  *)
(* bound on its attempts and an attempt orphaned by the error of a call it *)
(* shared a batch with, which nothing retries.                             *)
(***************************************************************************)
BootstrapCompletes ==
  ready ~> \/ network
           \/ \A r \in Boots : promise[r] \in {"resolved", "rejected"}
           \/ \E r \in Boots : Orphan(r)
=============================================================================
