---------------------------- MODULE ContractEvents --------------------------
(***************************************************************************)
(* The events of contracts (contract/contract.ts): on, once, off and       *)
(* removeAllListeners, the start and stop of a subscription at the         *)
(* provider, and emit, whose deliveries are chained through the promise    *)
(* lastEmit that all contracts share.  tasks is the microtask queue, as    *)
(* far as emit is concerned: its order decides the order of deliveries.    *)
(* One event of one contract; the provider adds and removes a listener at  *)
(* once (ProviderEvents has the steps).                                    *)
(***************************************************************************)
EXTENDS Integers, Sequences, Functions, SequencesExt

CONSTANTS
  ContractSubs,      \* the subscriptions that may be created
  NoContractSub,     \* null
  MaxEmits,          \* bound: the calls of emit
  MaxContractCalls   \* bound: the application's calls

ASSUME ContractAssumption ==
  /\ ContractSubs \subseteq Nat /\ NoContractSub \notin ContractSubs
  /\ MaxEmits \in Nat /\ MaxContractCalls \in Nat

VARIABLES
  tagged,      \* subs.get(tag)
  hears,       \* hears[s]: the once flags of its listeners
  starting,    \* starting[s]: whether its starting is not empty
  attached,    \* attached[s]: how often the provider has its listener
  stopping,    \* stopping[s]: the calls of stop that wait for the start
  lookups,     \* the calls that have looked up and not continued
  log,         \* the logs the provider has emitted
  emits,       \* the calls of emit, in order
  lastEmit,    \* the call whose promise lastEmit is; 0 is resolved
  tasks,       \* the calls of emit that may go on, in order
  waiters,     \* waiters[e]: those that wait for the promise of e, in order
  heard,       \* the logs that were delivered, in order
  callsLeft,
  doubled      \* history: a log found two provider listeners

contractVars == <<tagged, hears, starting, attached, stopping, lookups, log, emits, lastEmit,
                  tasks, waiters, heard, callsLeft, doubled>>

ContractInit ==
  /\ tagged = NoContractSub
  /\ hears = [s \in ContractSubs |-> <<>>]
  /\ starting = [s \in ContractSubs |-> FALSE]
  /\ attached = [s \in ContractSubs |-> 0]
  /\ stopping = [s \in ContractSubs |-> 0]
  /\ lookups = <<>>
  /\ log = 0
  /\ emits = <<>>
  /\ lastEmit = 0
  /\ tasks = <<>>
  /\ waiters = [e \in 1 .. MaxEmits |-> <<>>]
  /\ heard = <<>>
  /\ callsLeft = MaxContractCalls
  /\ doubled = FALSE

registry == <<tagged, hears, starting, attached, stopping, lookups>>
delivery == <<log, emits, lastEmit, tasks, waiters, heard, doubled>>

-----------------------------------------------------------------------------
(* Registration *)

\* Nothing refers to a subscription s yet, or any more.
New(s) ==
  /\ s # tagged /\ hears[s] = <<>> /\ attached[s] = 0
  /\ \A i \in DOMAIN lookups : lookups[i].sub # s
  /\ \A e \in DOMAIN emits : emits[e].at = "deliver" => emits[e].sub # s

\* on and once (getSub) create the subscription if there is none.
ContractLookUp(op) ==
  /\ callsLeft > 0
  /\ callsLeft' = callsLeft - 1
  /\ \E s \in ContractSubs :
       /\ IF tagged # NoContractSub THEN s = tagged
          ELSE New(s) /\ \A t \in ContractSubs : New(t) => s <= t
       /\ tagged' = s
       /\ lookups' = Append(lookups, [op |-> op, sub |-> s])
  /\ UNCHANGED <<hears, starting, attached, stopping, delivery>>

\* off and removeAllListeners (hasSub) do not.
ContractLookUpOnly(op) ==
  /\ callsLeft > 0 /\ tagged # NoContractSub
  /\ callsLeft' = callsLeft - 1
  /\ lookups' = Append(lookups, [op |-> op, sub |-> tagged])
  /\ UNCHANGED <<tagged, hears, starting, attached, stopping, delivery>>

\* Add the listener; start unless starting.
ContractRegister ==
  LET call == Head(lookups)
      s    == call.sub
  IN  /\ lookups # <<>> /\ call.op \in {"on", "once"}
      /\ lookups' = Tail(lookups)
      /\ hears' = [hears EXCEPT ![s] = Append(@, call.op = "once")]
      /\ starting' = [starting EXCEPT ![s] = TRUE]
      /\ attached' = IF starting[s] THEN attached ELSE [attached EXCEPT ![s] = @ + 1]
      /\ UNCHANGED <<tagged, stopping, delivery, callsLeft>>

\* Remove the first listener, or none when called without one ("offAll");
\* without listeners left, or without one given, stop and delete the tag.
ContractOff ==
  LET call == Head(lookups)
      s    == call.sub
      left == IF call.op = "off" /\ hears[s] # <<>> THEN Tail(hears[s]) ELSE hears[s]
  IN  /\ lookups # <<>> /\ call.op \in {"off", "offAll"}
      /\ lookups' = Tail(lookups)
      /\ hears' = [hears EXCEPT ![s] = left]
      /\ IF call.op = "off" /\ left # <<>> THEN UNCHANGED <<tagged, starting, stopping>>
         ELSE /\ tagged' = NoContractSub
              /\ starting' = [starting EXCEPT ![s] = FALSE]
              /\ stopping' = IF starting[s] THEN [stopping EXCEPT ![s] = @ + 1] ELSE stopping
      /\ UNCHANGED <<attached, delivery, callsLeft>>

\* The end of stop: provider.off, of one listener.
Detach(s) ==
  /\ stopping[s] > 0
  /\ stopping' = [stopping EXCEPT ![s] = @ - 1]
  /\ attached' = [attached EXCEPT ![s] = @ - 1]
  /\ UNCHANGED <<tagged, hears, starting, lookups, delivery, callsLeft>>

-----------------------------------------------------------------------------
(* Delivery *)

Settled(e) == e = 0 \/ emits[e].at \in {"resolved", "rejected"}

\* Calls await the promise of p: a settled one continues in the next microtask.
Await(calls, p, queue, waiting) ==
  IF Settled(p) THEN tasks' = queue \o calls /\ waiters' = waiting
  ELSE tasks' = queue /\ waiters' = [waiting EXCEPT ![p] = @ \o calls]

\* emit(contract, event, ..) is called n times, up to "await lastEmit".
CallEmit(what, n) ==
  LET call == [log |-> what, at |-> "emit", on |-> lastEmit, sub |-> NoContractSub]
  IN  /\ Len(emits) + n <= MaxEmits
      /\ emits' = emits \o [i \in 1 .. n |-> call]
      /\ Await([i \in 1 .. n |-> Len(emits) + i], lastEmit, tasks, waiters)
      /\ UNCHANGED <<lastEmit, heard>>

\* The provider emits the next log: each listener that is attached calls emit.
ProviderLog ==
  \E n \in 1 .. MaxEmits :
    /\ n = FoldFunctionOnSet(+, 0, attached, ContractSubs)
    /\ log' = log + 1
    /\ doubled' = (doubled \/ n > 1)
    /\ CallEmit(log + 1, n)
    /\ UNCHANGED <<registry, callsLeft>>

\* contract.emit of an event the contract does not have.
EmitUnknown ==
  /\ callsLeft > 0
  /\ callsLeft' = callsLeft - 1
  /\ CallEmit(0, 1)
  /\ UNCHANGED <<registry, log, doubled>>

Task == Head(tasks)
Runs(at) == tasks # <<>> /\ emits[Task].at = at

\* emit calls _emit, which awaits lastEmit again before it becomes lastEmit;
\* a rejection is caught the first time.
\* Mutant: _emit does not wait.
EmitEntersAtOnce ==
  /\ Runs("emit")
  /\ emits' = [emits EXCEPT ![Task].at = "find"]
  /\ tasks' = Append(Tail(tasks), Task)
  /\ lastEmit' = Task
  /\ UNCHANGED <<registry, log, waiters, heard, callsLeft, doubled>>

EmitEnters ==
  /\ Runs("emit")
  /\ emits' = [emits EXCEPT ![Task].at = "enter", ![Task].on = lastEmit]
  /\ Await(<<Task>>, lastEmit, Tail(tasks), waiters)
  /\ lastEmit' = Task
  /\ UNCHANGED <<registry, log, heard, callsLeft, doubled>>

\* e's promise settles: those that wait for it may go on.
Settle(e, how) ==
  /\ emits' = [emits EXCEPT ![e].at = how]
  /\ tasks' = Tail(tasks) \o waiters[e]
  /\ waiters' = [waiters EXCEPT ![e] = <<>>]

\* The second await: rejected if the awaited call was, else hasSub begins.
EmitGoesOn ==
  /\ Runs("enter")
  /\ IF emits[Task].on # 0 /\ emits[emits[Task].on].at = "rejected"
     THEN Settle(Task, "rejected")
     ELSE /\ emits' = [emits EXCEPT ![Task].at = "find"]
          /\ tasks' = Append(Tail(tasks), Task)
          /\ UNCHANGED waiters
  /\ UNCHANGED <<registry, log, lastEmit, heard, callsLeft, doubled>>

\* hasSub looks up, or throws for an unknown event.
EmitFinds ==
  /\ Runs("find")
  /\ IF emits[Task].log = 0 THEN Settle(Task, "rejected")
     ELSE /\ emits' = [emits EXCEPT ![Task].at = "deliver", ![Task].sub = tagged]
          /\ tasks' = Append(Tail(tasks), Task)
          /\ UNCHANGED waiters
  /\ UNCHANGED <<registry, log, lastEmit, heard, callsLeft, doubled>>

\* Call the listeners, once each.  The subscription is not stopped when none
\* is left.
EmitDelivers ==
  LET s == emits[Task].sub
  IN  /\ Runs("deliver")
      /\ Settle(Task, "resolved")
      /\ IF s = NoContractSub \/ hears[s] = <<>> THEN UNCHANGED <<hears, heard>>
         ELSE /\ hears' = [hears EXCEPT ![s] = SelectSeq(@, LAMBDA once : ~once)]
              /\ heard' = Append(heard, emits[Task].log)
      /\ UNCHANGED <<tagged, starting, attached, stopping, lookups, log, lastEmit, callsLeft, doubled>>

-----------------------------------------------------------------------------
EmitStep == EmitEnters \/ EmitGoesOn \/ EmitFinds \/ EmitDelivers

ContractNext ==
  \/ \E op \in {"on", "once"} : ContractLookUp(op)
  \/ \E op \in {"off", "offAll"} : ContractLookUpOnly(op)
  \/ ContractRegister \/ ContractOff \/ \E s \in ContractSubs : Detach(s)
  \/ ProviderLog \/ EmitUnknown
  \/ EmitStep

ContractSpec == ContractInit /\ [][ContractNext]_contractVars

-----------------------------------------------------------------------------
(* Properties *)

(***************************************************************************)
(* "We use this to ensure one emit resolves before firing the next to      *)
(* ensure correct ordering": logs reach the listeners in the order the     *)
(* provider emitted them, and each once unless two subscriptions were      *)
(* attached at a time; no call of emit is left waiting for itself or for a *)
(* later one; and no log is lost, "note this cannot throw", except behind  *)
(* a call for an unknown event, from which on every one is.                *)
(***************************************************************************)
LogsInOrder ==
  /\ \A i, j \in DOMAIN heard : i < j =>
       heard[i] < heard[j] \/ (heard[i] = heard[j] /\ doubled)
  /\ \A e \in DOMAIN emits :
       /\ emits[e].on < e
       /\ emits[e].at = "rejected" /\ emits[e].log # 0 =>
            \E u \in 1 .. e - 1 : emits[u].log = 0
=============================================================================
