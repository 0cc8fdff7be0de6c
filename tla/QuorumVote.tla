----------------------------- MODULE QuorumVote -----------------------------
(***************************************************************************)
(* What a request to a FallbackProvider promises its caller: providers     *)
(* cast at most one answer each, and the request settles at most once,     *)
(* with an answer given by providers of quorum weight, or not at all when  *)
(* no answer has that weight.                                              *)
(***************************************************************************)
EXTENDS Integers, FiniteSets

CONSTANTS Configs, Weight, Quorum, MayAnswer, Tag, NoAnswer

VARIABLES votes, status, decision

vars == <<votes, status, decision>>

Init ==
  /\ votes = [c \in Configs |-> NoAnswer]
  /\ status = "open"
  /\ decision = NoAnswer

Supporters(t) == {c \in Configs : votes[c] # NoAnswer /\ Tag[votes[c]] = t}
WeightOf(S) == Cardinality(UNION {{c} \X (1 .. Weight[c]) : c \in S})
Agreed(v) == WeightOf(Supporters(Tag[v])) >= Quorum

\* A provider answers, perhaps too late to matter.
Cast(c, a) ==
  /\ votes[c] = NoAnswer
  /\ votes' = [votes EXCEPT ![c] = a]
  /\ UNCHANGED <<status, decision>>

\* The request settles with an answer that was given and agreed on.
Decide(c) ==
  /\ status = "open"
  /\ votes[c] # NoAnswer
  /\ Agreed(votes[c])
  /\ status' = "closed"
  /\ decision' = votes[c]
  /\ UNCHANGED votes

\* The request fails, if no answer given so far is agreed on.
GiveUp ==
  /\ status = "open"
  /\ \A c \in Configs : votes[c] # NoAnswer => ~Agreed(votes[c])
  /\ status' = "closed"
  /\ UNCHANGED <<votes, decision>>

Next ==
  \/ \E c \in Configs : \E a \in MayAnswer[c] : Cast(c, a)
  \/ \E c \in Configs : Decide(c)
  \/ GiveUp

Spec == Init /\ [][Next]_vars
=============================================================================
