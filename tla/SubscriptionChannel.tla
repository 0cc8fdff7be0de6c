------------------------- MODULE SubscriptionChannel -------------------------
(***************************************************************************)
(* What a subscription over a socket promises its listeners: they receive  *)
(* the messages of the node in the order in which these were sent, none of *)
(* them twice; one is lost only if it comes while the subscriber does not  *)
(* listen, which it never does again once it is over; and what it has      *)
(* accepted it hands on, until handing one on has failed.                  *)
(***************************************************************************)
EXTENDS Integers, Sequences

CONSTANTS
  Subs,       \* the subscriptions
  MaxBurst    \* bound: the messages that are sent at once

VARIABLES
  mode,       \* mode[s]: "deaf", "listening" or "over"
  sent,       \* sent[s]: how many messages were sent, numbered from 1
  waiting,    \* waiting[s]: those that have not come to the subscriber
  accepted,   \* accepted[s]: those that it is to hand to the listeners
  received,   \* received[s]: those that they were handed, in this order
  failed      \* failed[s]: one could not be handed to them

vars == <<mode, sent, waiting, accepted, received, failed>>

Init ==
  /\ mode = [s \in Subs |-> "deaf"]
  /\ sent = [s \in Subs |-> 0]
  /\ waiting = [s \in Subs |-> {}]
  /\ accepted = [s \in Subs |-> {}]
  /\ received = [s \in Subs |-> <<>>]
  /\ failed = [s \in Subs |-> FALSE]

\* Subscriptions begin to listen, cease to or end.
Turn ==
  /\ mode' \in [Subs -> {"deaf", "listening", "over"}]
  /\ \A s \in Subs : mode[s] = "over" => mode'[s] = "over"
  /\ UNCHANGED <<sent, waiting, accepted, received, failed>>

Send(s) ==
  /\ \E n \in 1 .. MaxBurst :
       /\ sent' = [sent EXCEPT ![s] = @ + n]
       /\ waiting' = [waiting EXCEPT ![s] = @ \cup (sent[s] + 1 .. sent[s] + n)]
  /\ UNCHANGED <<mode, accepted, received, failed>>

\* The first messages come, up to one of them.
UpTo(s, last) == {m \in waiting[s] : m <= last}
Come(s) ==
  /\ \E last \in waiting[s] :
       /\ waiting' = [waiting EXCEPT ![s] = @ \ UpTo(s, last)]
       /\ accepted' = IF mode[s] = "listening" THEN [accepted EXCEPT ![s] = @ \cup UpTo(s, last)]
                      ELSE accepted
  /\ UNCHANGED <<mode, sent, received, failed>>

\* The first message that was accepted is handed on, or that fails.
HandOn(s) ==
  /\ ~failed[s]
  /\ \E m \in accepted[s] :
       /\ \A n \in accepted[s] : m <= n
       /\ accepted' = [accepted EXCEPT ![s] = @ \ {m}]
       /\ \/ received' = [received EXCEPT ![s] = Append(@, m)] /\ UNCHANGED failed
          \/ failed' = [failed EXCEPT ![s] = TRUE] /\ UNCHANGED received
  /\ UNCHANGED <<mode, sent, waiting>>

Next == Turn \/ \E s \in Subs : Send(s) \/ Come(s) \/ HandOn(s)

Spec == Init /\ [][Next]_vars

-----------------------------------------------------------------------------
(***************************************************************************)
(* The listeners receive no message twice and none after a later one.      *)
(***************************************************************************)
ReceivedInOrder ==
  \A s \in Subs : \A i, j \in 1 .. Len(received[s]) : i < j => received[s][i] < received[s][j]
=============================================================================
