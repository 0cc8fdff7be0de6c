----------------------------- MODULE NonceManager -----------------------------
(***************************************************************************)
(* NonceManager (providers/signer-noncemanager.ts): overlapping calls of   *)
(* sendTransaction share one read of the account's pending count and tell  *)
(* their nonces apart by #delta.  The network that reads the count, holds  *)
(* transactions and answers or fails is external.                          *)
(*                                                                         *)
(* #noncePromise is modelled as read[epoch], where the epoch is the number *)
(* of resets so far: a call keeps the promise of the epoch it began in.    *)
(***************************************************************************)
EXTENDS Integers, FiniteSets

CONSTANTS
  Sends,        \* the calls of sendTransaction
  Nobody,       \* not a call
  MaxResets,    \* bound: calls of reset
  MaxSkips      \* bound: calls of increment by the application

ASSUME NonceAssumption ==
  /\ IsFiniteSet(Sends) /\ Nobody \notin Sends
  /\ MaxResets \in Nat /\ MaxSkips \in Nat

NotAsked == -3
Pending == -2
Failed == -1

Epochs == 0 .. MaxResets
Slots == Epochs \X Nat

VARIABLES
  epoch,    \* how often reset was called
  read,     \* read[e]: the getTransactionCount behind epoch e's #noncePromise
  delta,    \* #delta
  stage,    \* stage[s]: where call s is
  slot,     \* slot[s]: the epoch and the delta s captured
  skipped,  \* the slots the application skipped with increment
  nonce,    \* nonce[s]: tx.nonce, or -1
  holder,   \* holder[n]: the call whose transaction the network holds for nonce n
  hasty     \* history: reset was called while a call was unsettled

vars == <<epoch, read, delta, stage, slot, skipped, nonce, holder, hasty>>

\* Calls that no longer run, and those that have a place among the nonces.
Settled == {s \in Sends : stage[s] \in {"new", "sent", "failed"}}
Issued == {s \in Sends : stage[s] # "new"}

\* The nonces the network holds, without a gap from 0.
MaxNonce == Cardinality(Sends) * (MaxResets + 1) + MaxSkips
Nonces == 0 .. MaxNonce
PendingCount == CHOOSE n \in 0 .. MaxNonce + 1 :
                  /\ \A k \in 0 .. n - 1 : holder[k] # Nobody
                  /\ n \in Nonces => holder[n] = Nobody

Init ==
  /\ epoch = 0
  /\ read = [e \in Epochs |-> NotAsked]
  /\ delta = 0
  /\ stage = [s \in Sends |-> "new"]
  /\ slot = [s \in Sends |-> <<0, 0>>]
  /\ skipped = {}
  /\ nonce = [s \in Sends |-> -1]
  /\ holder = [n \in Nonces |-> Nobody]
  /\ hasty = FALSE

-----------------------------------------------------------------------------
(* NonceManager *)

\* getNonce("pending") up to its await: ask for the count unless it was.
AskOnce == read' = [read EXCEPT ![epoch] = IF @ = NotAsked THEN Pending ELSE @]

\* The application's own getNonce("pending").
GetNonce ==
  /\ AskOnce
  /\ UNCHANGED <<epoch, delta, stage, slot, skipped, nonce, holder, hasty>>

\* Mutant: the increment comes first.
SendIncrementFirst(s) ==
  /\ stage[s] = "new"
  /\ AskOnce
  /\ slot' = [slot EXCEPT ![s] = <<epoch, delta + 1>>]
  /\ delta' = delta + 1
  /\ stage' = [stage EXCEPT ![s] = "populating"]
  /\ UNCHANGED <<epoch, skipped, nonce, holder, hasty>>

\* sendTransaction up to its first await: getNonce captures the promise and
\* #delta, increment() moves #delta on.
SendTransaction(s) ==
  /\ stage[s] = "new"
  /\ AskOnce
  /\ slot' = [slot EXCEPT ![s] = <<epoch, delta>>]
  /\ delta' = delta + 1
  /\ stage' = [stage EXCEPT ![s] = "populating"]
  /\ UNCHANGED <<epoch, skipped, nonce, holder, hasty>>

Increment ==
  /\ Cardinality(skipped) < MaxSkips
  /\ skipped' = skipped \cup {<<epoch, delta>>}
  /\ delta' = delta + 1
  /\ UNCHANGED <<epoch, read, stage, slot, nonce, holder, hasty>>

\* Mutant: the promise is dropped for the calls that hold it, too.
ResetDropping ==
  /\ epoch < MaxResets
  /\ epoch' = epoch + 1
  /\ delta' = 0
  /\ read' = [read EXCEPT ![epoch] = NotAsked]
  /\ hasty' = (hasty \/ Settled # Sends)
  /\ UNCHANGED <<stage, slot, skipped, nonce, holder>>

Reset ==
  /\ epoch < MaxResets
  /\ epoch' = epoch + 1
  /\ delta' = 0
  /\ hasty' = (hasty \/ Settled # Sends)
  /\ UNCHANGED <<read, stage, slot, skipped, nonce, holder>>

\* signer.populateTransaction came back or failed.
Populate(s) ==
  /\ stage[s] = "populating"
  /\ \E next \in {"numbering", "failed"} : stage' = [stage EXCEPT ![s] = next]
  /\ UNCHANGED <<epoch, read, delta, slot, skipped, nonce, holder, hasty>>

\* Mutants: #delta is read after the await, and a failed read is not noticed.
TakeNonceLate(s) ==
  /\ stage[s] = "numbering"
  /\ read[slot[s][1]] \notin {Pending, Failed}
  /\ nonce' = [nonce EXCEPT ![s] = read[slot[s][1]] + delta]
  /\ stage' = [stage EXCEPT ![s] = "sending"]
  /\ UNCHANGED <<epoch, read, delta, slot, skipped, holder, hasty>>
TakeNonceOnSuccess(s) ==
  /\ stage[s] = "numbering"
  /\ read[slot[s][1]] \notin {Pending, Failed}
  /\ nonce' = [nonce EXCEPT ![s] = read[slot[s][1]] + slot[s][2]]
  /\ stage' = [stage EXCEPT ![s] = "sending"]
  /\ UNCHANGED <<epoch, read, delta, slot, skipped, holder, hasty>>

\* The await of the captured noncePromise.
TakeNonce(s) ==
  LET count == read[slot[s][1]]
  IN  /\ stage[s] = "numbering"
      /\ count # Pending
      /\ IF count = Failed
         THEN /\ stage' = [stage EXCEPT ![s] = "failed"]
              /\ UNCHANGED nonce
         ELSE /\ nonce' = [nonce EXCEPT ![s] = count + slot[s][2]]
              /\ stage' = [stage EXCEPT ![s] = "sending"]
      /\ UNCHANGED <<epoch, read, delta, slot, skipped, holder, hasty>>

-----------------------------------------------------------------------------
(* The network *)

\* getTransactionCount comes back with the pending count, or fails.
AnswerCount(e) ==
  /\ read[e] = Pending
  /\ \E count \in {PendingCount, Failed} : read' = [read EXCEPT ![e] = count]
  /\ UNCHANGED <<epoch, delta, stage, slot, skipped, nonce, holder, hasty>>

\* signer.sendTransaction is refused, or the network takes the transaction
\* (replacing one it holds but has not reached) and its answer may be lost.
Refuse(s) ==
  /\ stage[s] = "sending"
  /\ stage' = [stage EXCEPT ![s] = "failed"]
  /\ UNCHANGED <<epoch, read, delta, slot, skipped, nonce, holder, hasty>>

Accept(s) ==
  /\ stage[s] = "sending"
  /\ nonce[s] >= PendingCount
  /\ holder' = [holder EXCEPT ![nonce[s]] = s]
  /\ \E next \in {"sent", "failed"} : stage' = [stage EXCEPT ![s] = next]
  /\ UNCHANGED <<epoch, read, delta, slot, skipped, nonce, hasty>>

Next ==
  \/ GetNonce \/ Increment \/ Reset
  \/ \E s \in Sends : SendTransaction(s) \/ Populate(s) \/ TakeNonce(s)
  \/ \E s \in Sends : Refuse(s) \/ Accept(s)
  \/ \E e \in Epochs : AnswerCount(e)

Spec == Init /\ [][Next]_vars

(***************************************************************************)
(* Promises run, and the network answers every request or fails it.        *)
(***************************************************************************)
FairSpec ==
  /\ Spec
  /\ \A s \in Sends : /\ WF_vars(Populate(s)) /\ WF_vars(TakeNonce(s))
                      /\ WF_vars(Refuse(s) \/ Accept(s))
  /\ \A e \in Epochs : WF_vars(AnswerCount(e))

-----------------------------------------------------------------------------
(* Properties *)

\* The shape of the state; a call that has begun awaits a count asked for.
Stages == {"new", "populating", "numbering", "sending", "sent", "failed"}
TypeOK ==
  /\ epoch \in Epochs
  /\ read \in [Epochs -> {NotAsked, Pending, Failed} \cup Nat]
  /\ delta \in Nat
  /\ stage \in [Sends -> Stages]
  /\ slot \in [Sends -> Slots]
  /\ \A s \in Issued : read[slot[s][1]] # NotAsked
  /\ skipped \subseteq Slots
  /\ nonce \in [Sends -> Nat \cup {-1}]
  /\ hasty \in BOOLEAN

(***************************************************************************)
(* Two calls that began between the same resets never use the same nonce,  *)
(* however their awaits interleave and whatever resets happen meanwhile.   *)
(***************************************************************************)
Numbered(s) == nonce[s] # -1
NoncesDistinct ==
  \A s, t \in Sends :
    Numbered(s) /\ Numbered(t) /\ s # t /\ slot[s][1] = slot[t][1] => nonce[s] # nonce[t]

(***************************************************************************)
(* Every nonce below one that was used since the same reset was given to   *)
(* another call or skipped by the application: a gap the network waits for *)
(* is always the trace of a call still running or failed, or of increment. *)
(***************************************************************************)
Taken == {slot[s] : s \in Issued} \cup skipped
GapsExplained ==
  \A s \in Issued : \A d \in 0 .. slot[s][2] - 1 : <<slot[s][1], d>> \in Taken

(***************************************************************************)
(* If no call failed, nothing was skipped and reset was only called while  *)
(* no call was running, then once the calls have settled the network holds *)
(* exactly their transactions, without a gap, and none replaced another.   *)
(***************************************************************************)
CleanRunIsGapless ==
  (/\ ~hasty /\ skipped = {} /\ Settled = Sends
   /\ \A s \in Sends : stage[s] # "failed") =>
    /\ \A s \in Issued : holder[nonce[s]] = s
    /\ PendingCount = Cardinality(Issued)

\* Every call of sendTransaction settles, also when the shared read fails.
EverySendSettles == \A s \in Sends : s \in Issued ~> s \in Settled
=============================================================================
