------------------------- MODULE SocketSubscriptions ------------------------
(***************************************************************************)
(* SocketProvider and its subscribers (providers/provider-socket.ts):      *)
(* start, stop, pause, resume, _register, _processMessage and              *)
(* _handleMessage, against a node that opens a filter per request and      *)
(* sends the filter's messages, numbered 1, 2, .. per filter.  Socket and  *)
(* node keep the order of each filter.  A subscriber is started once: the  *)
(* provider makes a new one after off.                                     *)
(***************************************************************************)
EXTENDS Integers, Sequences, SequencesExt

CONSTANTS
  SocketSubs,       \* the subscribers
  MaxMessages,      \* bound: the messages per filter
  MaxSocketPauses,  \* bound: the calls of pause
  Malformed         \* whether _emit may fail (a log that cannot be wrapped)

ASSUME SocketAssumption ==
  MaxMessages \in Nat /\ MaxSocketPauses \in Nat /\ Malformed \in BOOLEAN

VARIABLES
  filterId,     \* #filterId: "null", "pending", "known"
  life,         \* life[s]: "new", "started", "stopped"
  muted,        \* #paused is true: pause(true) and resume are the provider's,
                \* and a subscriber started in between is paused too
  node,         \* node[s]: the filter at the node: "none", "asked", "open",
                \* "closing", "closed", or "refused"
  sent,         \* the messages the node has sent
  wire,         \* wire[s]: what it has sent and the socket not delivered:
                \* messages, and 0 for the reply to xcb_subscribe
  replied,      \* replied[s]: the reply has been delivered, _register not run
  registered,   \* registered[s]: #subs has the filter
  pending,      \* #pending of the filter
  emitChain,    \* what the #emitPromise chain has still to emit
  broken,       \* broken[s]: #emitPromise is rejected
  delivered,    \* the messages that were emitted
  missed,       \* history: the messages ignored while paused or when stopped
  pausesLeft

socketVars == <<filterId, life, muted, node, sent, wire, replied, registered, pending, emitChain,
                broken, delivered, missed, pausesLeft>>

SocketInit ==
  /\ filterId = [s \in SocketSubs |-> "null"]
  /\ life = [s \in SocketSubs |-> "new"]
  /\ muted = FALSE
  /\ node = [s \in SocketSubs |-> "none"]
  /\ sent = [s \in SocketSubs |-> 0]
  /\ wire = [s \in SocketSubs |-> <<>>]
  /\ replied = [s \in SocketSubs |-> FALSE]
  /\ registered = [s \in SocketSubs |-> FALSE]
  /\ pending = [s \in SocketSubs |-> <<>>]
  /\ emitChain = [s \in SocketSubs |-> <<>>]
  /\ broken = [s \in SocketSubs |-> FALSE]
  /\ delivered = [s \in SocketSubs |-> <<>>]
  /\ missed = [s \in SocketSubs |-> {}]
  /\ pausesLeft = MaxSocketPauses

clientVars == <<filterId, life, muted, replied, registered>>
deliveryVars == <<emitChain, broken, delivered, missed>>

-----------------------------------------------------------------------------
(* The provider's side *)

SocketStart(s) ==
  /\ life[s] = "new"
  /\ life' = [life EXCEPT ![s] = "started"]
  /\ filterId' = [filterId EXCEPT ![s] = "pending"]
  /\ node' = [node EXCEPT ![s] = "asked"]
  /\ UNCHANGED <<muted, sent, wire, replied, registered, pending, deliveryVars, pausesLeft>>

\* Mutant: the filter is still known after stop.
SocketStopKnowing(s) ==
  /\ life[s] = "started"
  /\ life' = [life EXCEPT ![s] = "stopped"]
  /\ node' = IF registered[s] THEN [node EXCEPT ![s] = "closing"] ELSE node
  /\ UNCHANGED <<filterId, muted, sent, wire, replied, registered, pending, deliveryVars, pausesLeft>>

\* stop: xcb_unsubscribe is sent at once if the filter is known, else when
\* its promise resolves (Register).
SocketStop(s) ==
  /\ life[s] = "started"
  /\ life' = [life EXCEPT ![s] = "stopped"]
  /\ filterId' = [filterId EXCEPT ![s] = "null"]
  /\ node' = IF registered[s] THEN [node EXCEPT ![s] = "closing"] ELSE node
  /\ UNCHANGED <<muted, sent, wire, replied, registered, pending, deliveryVars, pausesLeft>>

\* pause(true); pause(false) throws.
SocketPause ==
  /\ pausesLeft > 0 /\ ~muted
  /\ pausesLeft' = pausesLeft - 1
  /\ muted' = TRUE
  /\ UNCHANGED <<filterId, life, node, sent, wire, replied, registered, pending, deliveryVars>>

SocketResume ==
  /\ muted
  /\ muted' = FALSE
  /\ UNCHANGED <<filterId, life, node, sent, wire, replied, registered, pending, deliveryVars,
                 pausesLeft>>

\* _handleMessage of each of the messages: the first one of a chain is
\* emitted at once, the others one after the other.
Handle(s, messages) ==
  IF filterId[s] = "null" \/ muted
  THEN /\ missed' = [missed EXCEPT ![s] = @ \cup Range(messages)]
       /\ UNCHANGED emitChain
  ELSE /\ emitChain' = [emitChain EXCEPT ![s] = @ \o messages]
       /\ UNCHANGED missed

\* Mutant: what came before the reply is not replayed.
RegisterForgetting(s) ==
  /\ replied[s]
  /\ replied' = [replied EXCEPT ![s] = FALSE]
  /\ registered' = [registered EXCEPT ![s] = TRUE]
  /\ filterId' = [filterId EXCEPT ![s] = IF @ = "pending" THEN "known" ELSE @]
  /\ pending' = [pending EXCEPT ![s] = <<>>]
  /\ node' = IF life[s] = "stopped" THEN [node EXCEPT ![s] = "closing"] ELSE node
  /\ UNCHANGED <<life, muted, sent, wire, emitChain, broken, delivered, missed, pausesLeft>>

\* Mutant: a subscription that was not known when it was stopped stays open.
RegisterKeeping(s) ==
  /\ replied[s]
  /\ replied' = [replied EXCEPT ![s] = FALSE]
  /\ registered' = [registered EXCEPT ![s] = TRUE]
  /\ filterId' = [filterId EXCEPT ![s] = IF @ = "pending" THEN "known" ELSE @]
  /\ Handle(s, pending[s])
  /\ pending' = [pending EXCEPT ![s] = <<>>]
  /\ UNCHANGED <<life, muted, node, sent, wire, broken, delivered, pausesLeft>>

\* The reply's promise resolves: _register replays what came before it; then
\* a stop that waits for the filter unsubscribes.
Register(s) ==
  /\ replied[s]
  /\ replied' = [replied EXCEPT ![s] = FALSE]
  /\ registered' = [registered EXCEPT ![s] = TRUE]
  /\ filterId' = [filterId EXCEPT ![s] = IF @ = "pending" THEN "known" ELSE @]
  /\ Handle(s, pending[s])
  /\ pending' = [pending EXCEPT ![s] = <<>>]
  /\ node' = IF life[s] = "stopped" THEN [node EXCEPT ![s] = "closing"] ELSE node
  /\ UNCHANGED <<life, muted, sent, wire, broken, delivered, pausesLeft>>

\* The socket delivers what is first in the wire.
Deliver(s) ==
  /\ wire[s] # <<>>
  /\ wire' = [wire EXCEPT ![s] = Tail(@)]
  /\ IF Head(wire[s]) = 0
     THEN replied' = [replied EXCEPT ![s] = TRUE] /\ UNCHANGED <<pending, emitChain, missed>>
     ELSE /\ UNCHANGED replied
          /\ IF registered[s] THEN Handle(s, <<Head(wire[s])>>) /\ UNCHANGED pending
             ELSE pending' = [pending EXCEPT ![s] = Append(@, Head(wire[s]))] /\ UNCHANGED <<emitChain, missed>>
  /\ UNCHANGED <<filterId, life, muted, node, sent, registered, broken, delivered, pausesLeft>>

\* The next link of the chain; once one is rejected the rest never runs, and
\* nothing resets the chain.
EmitNext(s, fails) ==
  /\ emitChain[s] # <<>> /\ ~broken[s]
  /\ emitChain' = [emitChain EXCEPT ![s] = Tail(@)]
  /\ broken' = [broken EXCEPT ![s] = fails]
  /\ delivered' = IF fails THEN delivered ELSE [delivered EXCEPT ![s] = Append(@, Head(emitChain[s]))]
  /\ UNCHANGED <<clientVars, node, sent, wire, pending, missed, pausesLeft>>

-----------------------------------------------------------------------------
(* The node *)

\* A message of a filter may be sent before the reply that names it.
NodeOpens(s) ==
  /\ node[s] = "asked"
  /\ node' = [node EXCEPT ![s] = "open"]
  /\ \E early \in 0 .. MaxMessages :
       /\ sent' = [sent EXCEPT ![s] = early]
       /\ wire' = [wire EXCEPT ![s] = [k \in 1 .. early |-> k] \o <<0>>]
  /\ UNCHANGED <<clientVars, pending, deliveryVars, pausesLeft>>

NodeRefuses(s) ==
  /\ node[s] = "asked"
  /\ node' = [node EXCEPT ![s] = "refused"]
  /\ UNCHANGED <<clientVars, sent, wire, pending, deliveryVars, pausesLeft>>

NodeSends(s) ==
  /\ node[s] \in {"open", "closing"}
  /\ sent[s] < MaxMessages
  /\ sent' = [sent EXCEPT ![s] = @ + 1]
  /\ wire' = [wire EXCEPT ![s] = Append(@, sent[s] + 1)]
  /\ UNCHANGED <<clientVars, node, pending, deliveryVars, pausesLeft>>

NodeCloses(s) ==
  /\ node[s] = "closing"
  /\ node' = [node EXCEPT ![s] = "closed"]
  /\ UNCHANGED <<clientVars, sent, wire, pending, deliveryVars, pausesLeft>>

-----------------------------------------------------------------------------
SocketProgress(s) ==
  \/ Register(s) \/ Deliver(s) \/ NodeOpens(s) \/ NodeRefuses(s) \/ NodeCloses(s)
  \/ EmitNext(s, FALSE) \/ (Malformed /\ EmitNext(s, TRUE))

SocketNext ==
  \/ \E s \in SocketSubs : SocketStart(s) \/ SocketStop(s) \/ SocketProgress(s) \/ NodeSends(s)
  \/ SocketPause \/ SocketResume

SocketSpec == SocketInit /\ [][SocketNext]_socketVars

-----------------------------------------------------------------------------
(* Properties *)

\* The messages m + 1 .. n, in order.
Run(m, n) == [k \in 1 .. n - m |-> m + k]

\* The wire holds the messages sent after the k-th, around the reply.
OnTheWire(s, k) ==
  \/ wire[s] = Run(k, sent[s])
  \/ \E r \in k .. sent[s] : wire[s] = Run(k, r) \o <<0>> \o Run(r, sent[s])

(***************************************************************************)
(* Nothing is lost or reordered on the way from the node to the listeners: *)
(* while a subscriber was neither stopped nor paused nor has failed, what  *)
(* was emitted, what the chain holds and what waits for the registration   *)
(* make up the first messages sent, in order, and the wire holds the rest. *)
(***************************************************************************)
NotesInOrder ==
  \A s \in SocketSubs :
    missed[s] = {} /\ ~broken[s] =>
      \E k \in 0 .. sent[s] :
        delivered[s] \o emitChain[s] \o pending[s] = Run(0, k) /\ OnTheWire(s, k)

(***************************************************************************)
(* Whatever happens, a subscription behaves like a SubscriptionChannel,    *)
(* deaf while paused and over once stopped: what waits is what the socket  *)
(* has not delivered and what came before the filter was known, and the    *)
(* chain holds what was accepted.                                          *)
(***************************************************************************)
Mode == [s \in SocketSubs |-> CASE life[s] = "stopped"            -> "over"
                                [] life[s] = "started" /\ ~muted -> "listening"
                                [] OTHER                         -> "deaf"]
Waiting == [s \in SocketSubs |-> Range(pending[s]) \cup (Range(wire[s]) \ {0})]
Accepted == [s \in SocketSubs |-> Range(emitChain[s])]

Channel == INSTANCE SubscriptionChannel WITH
  Subs <- SocketSubs, MaxBurst <- MaxMessages,
  mode <- Mode, waiting <- Waiting, accepted <- Accepted, received <- delivered, failed <- broken
SubscriptionIsAChannel == Channel!Spec

(***************************************************************************)
(* Also while a subscriber is paused, after it was stopped or has failed,  *)
(* the listeners see no message twice and none after a later one.          *)
(***************************************************************************)
NotesNeverRepeat == Channel!ReceivedInOrder

(***************************************************************************)
(* The node is asked to close the filter of a subscriber that was stopped, *)
(* also when it was stopped before the filter was known.                   *)
(***************************************************************************)
StoppedFiltersClose ==
  \A s \in SocketSubs : life[s] = "stopped" ~> node[s] \in {"closed", "refused"}
=============================================================================
