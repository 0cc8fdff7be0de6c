----------------------------- MODULE RequestProofs ---------------------------
(***************************************************************************)
(* Proofs about what a provider asks the network: FetchRequest.send,       *)
(* getNetwork, the waits for a transaction and the FallbackProvider's      *)
(* block number, for limits, calls, networks, confirmations and chains of  *)
(* any size.                                                               *)
(***************************************************************************)
EXTENDS FetchRetry, NetworkDetection, TransactionWait, FallbackHeight, ProofLemmas,
        FiniteSetTheorems, SequenceTheorems

-----------------------------------------------------------------------------
(* FetchRequest.send *)

IsCopy(req) == "limit" \in DOMAIN req /\ req.limit \in Nat

\* The copies made for later attempts have the default limit, so an attempt
\* beyond the request's own limit is still one within the default.
FetchInv ==
  /\ now \in Nat /\ attempt \in Nat /\ gets \in Nat /\ expires \in Nat /\ started \in Nat
  /\ IsCopy(request)
  /\ attempt > 0 => request.limit = MaxAttempts
  /\ stage = "new" => gets = 0 /\ attempt = 0 /\ started = 0
  /\ stage # "new" => started <= expires
  /\ gets <= MaxAttempts
  /\ gets <= attempt + 1
  /\ stage \in {"begin", "delay", "prepare"} => gets <= attempt
  /\ stage \in {"delay", "prepare"} => attempt < MaxAttempts

\* Whatever copy the next attempt is made by, it has the default limit.
LEMMA CopiesHaveDefaultLimit ==
  ASSUME FetchInv
  PROVE  /\ IsCopy(Clone) /\ Clone.limit = MaxAttempts
         /\ \A scheme : IsCopy(Redirected(scheme)) /\ Redirected(scheme).limit = MaxAttempts
<1>1. IsCopy(Req)
  BY FetchAssumption DEF FetchInv, Req, IsCopy
<1> QED BY <1>1, FetchAssumption DEF Clone, Redirected, IsCopy

LEMMA FetchInvStep == FetchInv /\ [FetchNext]_fetchVars => FetchInv'
<1> SUFFICES ASSUME FetchInv, [FetchNext]_fetchVars PROVE FetchInv'
  OBVIOUS
<1>0. /\ IsCopy(Clone) /\ Clone.limit = MaxAttempts
      /\ \A scheme : IsCopy(Redirected(scheme)) /\ Redirected(scheme).limit = MaxAttempts
  BY CopiesHaveDefaultLimit
<1>1. CASE Send
  BY <1>1, FetchAssumption DEF Send, FetchInv
<1>2. CASE Cancel \/ Tick \/ UNCHANGED fetchVars
  BY <1>2 DEF Cancel, Tick, fetchVars, FetchInv
<1>3. ASSUME NEW how, Done(how), stage # "new" PROVE FetchInv'
  BY <1>3 DEF Done, setting, FetchInv
<1>4. ASSUME NEW place, Goto(place),
             \/ stage = "delay" /\ place = "prepare"
             \/ stage # "new" /\ place \in {"retry", "process"}
      PROVE  FetchInv'
  BY <1>4 DEF Goto, setting, FetchInv
<1>5. ASSUME NEW copy, IsCopy(copy), NEW delay, Again(copy, delay),
             copy.limit = MaxAttempts, stage # "new"
      PROVE  FetchInv'
  BY <1>5 DEF Again, FetchInv
<1>6. CASE Begin
  <2>1. CASE attempt < request.limit /\ ~ (now > expires)
    <3>1. attempt < MaxAttempts
      BY <2>1, FetchAssumption DEF FetchInv
    <3>2. /\ stage' \in {"delay", "prepare"} /\ stage = "begin" /\ started' = now
          /\ UNCHANGED <<attempt, gets, expires, request, now>>
      BY <1>6, <2>1 DEF Begin, setting, FetchInv, IsCopy
    <3> QED BY <2>1, <3>1, <3>2 DEF FetchInv
  <2>2. CASE attempt >= request.limit \/ now > expires
    BY <1>3, <1>6, <2>2 DEF Begin
  <2> QED BY <2>1, <2>2 DEF FetchInv, IsCopy
<1>7. CASE Delayed
  BY <1>4, <1>7 DEF Delayed
<1>8. CASE Prepared
  <2>1. CASE cancelled \/ request.scheme = "gateway"
    BY <1>3, <1>4, <1>8, <2>1 DEF Prepared
  <2>2. CASE ~ (cancelled \/ request.scheme = "gateway")
    <3>1. /\ stage = "prepare" /\ stage' = "get" /\ gets' = gets + 1
          /\ UNCHANGED <<attempt, started, expires, request, now>>
      BY <1>8, <2>2 DEF Prepared, setting
    <3> QED BY <3>1, FetchAssumption DEF FetchInv
  <2> QED BY <2>1, <2>2
<1>9. CASE FetchFails
  BY <1>3, <1>9 DEF FetchFails
<1>10. CASE Responded
  BY <1>3, <1>4, <1>10 DEF Responded, PostProcess
<1>11. ASSUME NEW scheme \in {"http", "https", "other"}, Redirect(scheme) PROVE FetchInv'
  <2>1. CASE Again(Redirected(scheme), 0)
    BY <1>0, <1>5, <1>11, <2>1 DEF Redirect
  <2>2. CASE Done("response")
    BY <1>3, <1>11, <2>2 DEF Redirect
  <2> QED BY <1>11, <2>1, <2>2 DEF Redirect
<1>12. ASSUME NEW delay \in Delays \cup {0}, Throttled(delay) PROVE FetchInv'
  <2>1. CASE Again(Clone, delay)
    BY <1>0, <1>5, <1>12, <2>1 DEF Throttled
  <2>2. CASE Goto("retry")
    BY <1>4, <1>12, <2>2 DEF Throttled
  <2> QED BY <1>12, <2>1, <2>2 DEF Throttled
<1>13. ASSUME NEW delay \in Delays \cup {0}, RetryDecided(delay) PROVE FetchInv'
  <2>1. stage = "retry" /\ (Again(Clone, delay) \/ PostProcess \/ Done("error"))
    BY <1>13 DEF RetryDecided
  <2>2. CASE Again(Clone, delay)
    BY <1>0, <1>5, <2>1, <2>2
  <2>3. CASE PostProcess \/ Done("error")
    BY <1>3, <1>4, <2>1, <2>3 DEF PostProcess
  <2> QED BY <2>1, <2>2, <2>3
<1>14. ASSUME NEW delay \in Delays \cup {0}, Processed(delay) PROVE FetchInv'
  <2>1. stage = "process" /\ (Again(Clone, delay) \/ Done("response") \/ Done("error"))
    BY <1>14 DEF Processed
  <2>2. CASE Again(Clone, delay)
    BY <1>0, <1>5, <2>1, <2>2
  <2>3. CASE Done("response") \/ Done("error")
    BY <1>3, <2>1, <2>3
  <2> QED BY <2>1, <2>2, <2>3
<1> QED BY <1>1, <1>2, <1>6, <1>7, <1>8, <1>9, <1>10, <1>11, <1>12, <1>13, <1>14 DEF FetchNext, FetchStep

\* No more requests are sent than attempts are made, nor than the default
\* allows, and no attempt begins after the deadline.
THEOREM SendsStayWithinLimits == FetchSpec => []FetchWithinLimits
<1>1. FetchInit => FetchInv
  <2> SUFFICES ASSUME FetchInit PROVE FetchInv
    OBVIOUS
  <2>1. IsCopy(request)
    BY FetchAssumption DEF FetchInit, IsCopy
  <2> QED BY <2>1, FetchAssumption DEF FetchInit, FetchInv
<1>2. FetchInv => FetchWithinLimits
  BY DEF FetchInv, FetchWithinLimits
<1> QED BY <1>1, <1>2, FetchInvStep, PTL DEF FetchSpec

-----------------------------------------------------------------------------
(* getNetwork of AbstractProvider *)

NetworkTypes ==
  /\ given \in Networks \cup {NoNetwork}
  /\ networkPromise \in NetworkCalls \cup {NoPromise, Explicit}
  /\ promised \in [NetworkCalls \cup {Explicit} -> Networks \cup {NoNetwork, "pending", "failed"}]
  /\ promised[Explicit] = given
  /\ \A c \in NetworkCalls : promised[c] # NoNetwork
  /\ callAt \in [NetworkCalls -> {"new", "first", "both", "done"}]
  /\ saw \in [NetworkCalls -> NetworkCalls \cup {NoPromise, Explicit}]
  /\ found \in [NetworkCalls -> Networks \cup {"pending", "failed"}]
  /\ answered \in [NetworkCalls -> Networks \cup {NoNetwork}]

\* The promise of a call is pending until the call returns; what a promise came
\* to was announced or given; and #networkPromise has not failed.
PromisesInv ==
  /\ networkPromise = Explicit => given # NoNetwork
  /\ \A c \in NetworkCalls :
       /\ callAt[c] # "done" => promised[c] = "pending"
       /\ callAt[c] = "both" => saw[c] # NoPromise
       /\ saw[c] = Explicit => given # NoNetwork
       /\ answered[c] # NoNetwork => answered[c] \in announced \cup {given}
  /\ \A p \in NetworkCalls \cup {Explicit} : promised[p] \in Networks => promised[p] \in announced \cup {given}
  /\ networkPromise # NoPromise => promised[networkPromise] # "failed"

\* Unless any network is allowed, #networkPromise is the only promise that may
\* come or has come to a network.
AgreementInv ==
  ~anyNetwork =>
    /\ given # NoNetwork => networkPromise = Explicit
    /\ \A c \in NetworkCalls :
         /\ callAt[c] = "first" => networkPromise = c
         /\ answered[c] # NoNetwork =>
              networkPromise # NoPromise /\ promised[networkPromise] = answered[c]
    /\ \A p \in NetworkCalls \cup {Explicit} : promised[p] \in Networks => p = networkPromise

NetworkInv == NetworkTypes /\ PromisesInv /\ AgreementInv

LEMMA NetworkInvStep == NetworkInv /\ [NetworkNext]_networkVars => NetworkInv'
<1> SUFFICES ASSUME NetworkInv, [NetworkNext]_networkVars PROVE NetworkInv'
  OBVIOUS
<1>0. NetworkTypes /\ PromisesInv /\ AgreementInv
  BY DEF NetworkInv
<1>1. CASE AnnounceGiven \/ UNCHANGED networkVars
  <2>1. /\ UNCHANGED <<anyNetwork, given, networkPromise, promised, callAt, saw, found, answered>>
        /\ announced \subseteq announced'
    BY <1>1 DEF AnnounceGiven, networkVars
  <2>2. NetworkTypes'
    BY <1>0, <2>1 DEF NetworkTypes
  <2>3. PromisesInv'
    BY <1>0, <2>1 DEF PromisesInv
  <2>4. AgreementInv'
    BY <1>0, <2>1 DEF AgreementInv
  <2> QED BY <2>2, <2>3, <2>4 DEF NetworkInv
<1>2. ASSUME NEW c \in NetworkCalls, GetNetwork(c) PROVE NetworkInv'
  <2>1. /\ UNCHANGED <<anyNetwork, given, promised, found, answered, announced>>
        /\ callAt[c] = "new"
        /\ callAt' = [callAt EXCEPT ![c] = IF networkPromise = NoPromise THEN "first" ELSE "both"]
        /\ networkPromise' = IF networkPromise = NoPromise THEN c ELSE networkPromise
        /\ saw' = [saw EXCEPT ![c] = networkPromise']
    BY <1>2 DEF GetNetwork
  <2>2. NetworkTypes'
    BY <1>0, <2>1 DEF NetworkTypes
  <2>3. c # NoPromise /\ c # Explicit /\ promised[c] = "pending"
    BY <1>0, <2>1, NetworkAssumption DEF PromisesInv
  <2>4. PromisesInv'
    BY <1>0, <2>1, <2>3, NetworkAssumption DEF NetworkTypes, PromisesInv
  <2>5. AgreementInv'
    BY <1>0, <2>1, <2>3, NetworkAssumption DEF NetworkTypes, AgreementInv
  <2> QED BY <2>2, <2>4, <2>5 DEF NetworkInv
<1>3. ASSUME NEW c \in NetworkCalls, NEW what \in Networks \cup {"failed"}, FirstDetected(c, what)
      PROVE  NetworkInv'
  <2>1. /\ UNCHANGED <<anyNetwork, given, saw, found>>
        /\ callAt[c] = "first" /\ callAt' = [callAt EXCEPT ![c] = "done"]
        /\ promised' = [promised EXCEPT ![c] = what]
    BY <1>3 DEF FirstDetected
  <2>2. c # NoPromise /\ c # Explicit /\ promised[c] = "pending"
    BY <1>0, <2>1, NetworkAssumption DEF PromisesInv
  <2>3. CASE what = "failed"
    <3>1. /\ networkPromise' = IF networkPromise = c THEN NoPromise ELSE networkPromise
          /\ UNCHANGED <<answered, announced>>
      BY <1>3, <2>3 DEF FirstDetected
    <3>2. NetworkTypes'
      BY <1>0, <2>1, <2>2, <2>3, <3>1, NetworkAssumption DEF NetworkTypes
    <3>3. PromisesInv'
      BY <1>0, <2>1, <2>2, <2>3, <3>1, NetworkAssumption DEF NetworkTypes, PromisesInv
    <3>4. AgreementInv'
      BY <1>0, <2>1, <2>2, <2>3, <3>1, NetworkAssumption DEF NetworkTypes, AgreementInv
    <3> QED BY <3>2, <3>3, <3>4 DEF NetworkInv
  <2>4. CASE what # "failed"
    <3>1. /\ networkPromise' = networkPromise
          /\ answered' = [answered EXCEPT ![c] = what]
          /\ announced' = announced \cup {what}
          /\ what \in Networks
      BY <1>3, <2>4 DEF FirstDetected
    <3>2. NetworkTypes'
      BY <1>0, <2>1, <2>2, <3>1, NetworkAssumption DEF NetworkTypes
    <3>3. PromisesInv'
      BY <1>0, <2>1, <2>2, <2>4, <3>1, NetworkAssumption DEF NetworkTypes, PromisesInv
    <3>4. AgreementInv'
      BY <1>0, <2>1, <2>2, <3>1, NetworkAssumption DEF NetworkTypes, AgreementInv
    <3> QED BY <3>2, <3>3, <3>4 DEF NetworkInv
  <2> QED BY <2>3, <2>4
<1>4. ASSUME NEW c \in NetworkCalls, NEW what \in Networks \cup {"failed"}, Detected(c, what)
      PROVE  NetworkInv'
  <2>1. /\ UNCHANGED <<anyNetwork, given, networkPromise, promised, callAt, saw, answered, announced>>
        /\ found' = [found EXCEPT ![c] = what]
    BY <1>4 DEF Detected
  <2>2. NetworkTypes'
    BY <1>0, <2>1 DEF NetworkTypes
  <2>3. PromisesInv'
    BY <1>0, <2>1 DEF PromisesInv
  <2>4. AgreementInv'
    BY <1>0, <2>1 DEF AgreementInv
  <2> QED BY <2>2, <2>3, <2>4 DEF NetworkInv
<1>5. ASSUME NEW c \in NetworkCalls, Returns(c) PROVE NetworkInv'
  <2> DEFINE expected == promised[saw[c]]
             changed == expected # found[c]
  <2>1. /\ UNCHANGED <<anyNetwork, given, saw, found>>
        /\ callAt[c] = "both" /\ callAt' = [callAt EXCEPT ![c] = "done"]
        /\ "failed" \in {expected, found[c]} \/ "pending" \notin {expected, found[c]}
    BY <1>5 DEF Returns, Due
  <2>2. c # NoPromise /\ c # Explicit /\ promised[c] = "pending"
    BY <1>0, <2>1, NetworkAssumption DEF PromisesInv
  <2>3. CASE "failed" \in {expected, found[c]} \/ (changed /\ ~anyNetwork)
    <3>1. UNCHANGED <<networkPromise, promised, answered, announced>>
      BY <1>5, <2>3 DEF Returns
    <3>2. NetworkTypes'
      BY <1>0, <2>1, <3>1 DEF NetworkTypes
    <3>3. PromisesInv'
      BY <1>0, <2>1, <3>1 DEF NetworkTypes, PromisesInv
    <3>4. AgreementInv'
      BY <1>0, <2>1, <3>1 DEF NetworkTypes, AgreementInv
    <3> QED BY <3>2, <3>3, <3>4 DEF NetworkInv
  <2>4. CASE ~ ("failed" \in {expected, found[c]} \/ (changed /\ ~anyNetwork))
    <3>1. /\ answered' = [answered EXCEPT ![c] = expected]
          /\ announced' = IF changed THEN announced \cup {found[c]} ELSE announced
          /\ \/ /\ changed /\ networkPromise = saw[c]
                /\ networkPromise' = c /\ promised' = [promised EXCEPT ![c] = found[c]]
             \/ UNCHANGED <<networkPromise, promised>>
          /\ changed => anyNetwork
      BY <1>5, <2>4 DEF Returns
    <3>2. found[c] \in Networks
      BY <1>0, <2>1, <2>4 DEF NetworkTypes
    <3>3. saw[c] \in NetworkCalls \cup {Explicit} /\ expected \in Networks
      BY <1>0, <2>1, <2>4 DEF NetworkTypes, PromisesInv
    <3> HIDE DEF expected, changed
    <3>4. NetworkTypes'
      BY <1>0, <2>1, <2>2, <3>1, <3>2, <3>3, NetworkAssumption DEF NetworkTypes
    <3>5. expected \in announced \cup {given}
      BY <1>0, <3>3 DEF PromisesInv, expected
    <3>6. PromisesInv'
      BY <1>0, <2>1, <2>2, <3>1, <3>2, <3>5, NetworkAssumption DEF NetworkTypes, PromisesInv, changed
    <3>7. AgreementInv'
      <4>1. CASE anyNetwork
        BY <2>1, <4>1 DEF AgreementInv
      <4>2. CASE ~anyNetwork
        <5>1. UNCHANGED <<networkPromise, promised>>
          BY <3>1, <4>2
        <5>2. saw[c] = networkPromise /\ promised[networkPromise] = expected /\ saw[c] # NoPromise
          BY <1>0, <2>1, <3>3, <4>2 DEF AgreementInv, PromisesInv, expected
        <5> QED BY <1>0, <2>1, <3>1, <4>2, <5>1, <5>2 DEF NetworkTypes, AgreementInv
      <4> QED BY <4>1, <4>2
    <3> QED BY <3>4, <3>6, <3>7 DEF NetworkInv
  <2> QED BY <2>3, <2>4
<1> QED BY <1>1, <1>2, <1>3, <1>4, <1>5 DEF NetworkNext

\* Unless any network is allowed all calls that return agree; a network that is
\* returned was given or announced before; #networkPromise is never left failed.
THEOREM NetworkIsFollowed == NetworkSpec => []NetworkFollowed
<1>1. NetworkInit => NetworkInv
  <2> SUFFICES ASSUME NetworkInit PROVE NetworkInv
    OBVIOUS
  <2>1. NetworkTypes
    BY NetworkAssumption DEF NetworkInit, NetworkTypes
  <2>2. PromisesInv
    BY NetworkAssumption DEF NetworkInit, PromisesInv
  <2>3. AgreementInv
    BY NetworkAssumption DEF NetworkInit, AgreementInv
  <2> QED BY <2>1, <2>2, <2>3 DEF NetworkInv
<1>2. NetworkInv => NetworkFollowed
  <2> SUFFICES ASSUME NetworkInv PROVE NetworkFollowed
    OBVIOUS
  <2> DEFINE returned == {answered[c] : c \in NetworkCalls} \ {NoNetwork}
             all == returned \cup ({given} \ {NoNetwork})
  <2>1. ASSUME ~anyNetwork PROVE Cardinality(all) <= 1
    <3>1. all \subseteq {promised[networkPromise]}
      BY <2>1 DEF NetworkInv, NetworkTypes, AgreementInv
    <3> HIDE DEF all
    <3>2. IsFiniteSet({promised[networkPromise]}) /\ Cardinality({promised[networkPromise]}) = 1
      BY FS_Singleton
    <3>3. Cardinality(all) <= Cardinality({promised[networkPromise]})
      BY <3>1, <3>2, FS_Subset
    <3> QED BY <3>2, <3>3
  <2>2. returned \subseteq announced \cup {given}
    BY DEF NetworkInv, PromisesInv
  <2>3. networkPromise # NoPromise => promised[networkPromise] # "failed"
    BY DEF NetworkInv, PromisesInv
  <2> QED BY <2>1, <2>2, <2>3 DEF NetworkFollowed
<1> QED BY <1>1, <1>2, NetworkInvStep, PTL DEF NetworkSpec

-----------------------------------------------------------------------------
(* TransactionResponse.wait and waitForTransaction *)

WaitTypes ==
  /\ fate \in {"none", "ours", "other"}
  /\ tip \in Nat /\ minedAt \in Nat /\ confirms \in Nat
  /\ scanTo \in Nat /\ scanTo <= tip
  /\ looking \in Int /\ looking <= tip
  /\ fate # "none" => minedAt <= tip

\* What each await of the waits was entered with still holds when it returns.
AwaitsInv ==
  /\ phase = "confirm" => fate = "ours" /\ api = "wait"
  /\ phase = "receipt" /\ api # "wait" => confirms = 0
  /\ txCheck => fate = "ours"
  /\ scan = "tx" => fate # "none"
  /\ scan \in {"block", "receipt"} => fate = "other"
  /\ api = "wait" => looking = -1
  /\ api = "wait" /\ phase = "settled" => stopScanning

WaitInv == WaitTypes /\ AwaitsInv /\ WaitTellsTheTruth

\* Confirmations are not lost: the chain only grows.
LEMMA ConfirmedStays ==
  ASSUME WaitTypes, NEW low \in Int, NEW high \in Int, low <= high, Confirmed(low)
  PROVE  Confirmed(high)
BY DEF WaitTypes, Confirmed

LEMMA WaitInvStep == WaitInv /\ [WaitNext]_waitVars => WaitInv'
<1> SUFFICES ASSUME WaitInv, [WaitNext]_waitVars PROVE WaitInv'
  OBVIOUS
<1>0. WaitTypes /\ AwaitsInv /\ WaitTellsTheTruth
  BY DEF WaitInv
<1> USE DEF chainVars, arguments, scanVars
<1>2. ASSUME NEW what \in {"none", "ours", "other"}, WaitBlock(what) PROVE WaitInv'
  <2>1. /\ tip' \in Nat /\ tip <= tip' /\ fate' \in {"none", "ours", "other"}
        /\ UNCHANGED <<api, confirms, hasTimeout, phase, result, onHash, txCheck, stopScanning>>
        /\ \/ UNCHANGED <<fate, minedAt>>
           \/ fate = "none" /\ fate' # "none" /\ minedAt' = tip'
    BY <1>0, <1>2 DEF WaitBlock, WaitTypes
  <2>2. /\ ~onNextBlock'
        /\ \/ UNCHANGED <<scan, scanTo>>
           \/ scan' = "counts" /\ scanTo' = tip'
        /\ \/ looking' = looking
           \/ api # "wait" /\ looking' = tip'
    BY <1>2 DEF WaitBlock
  <2>3. WaitTypes'
    BY <1>0, <2>1, <2>2 DEF WaitTypes
  <2>4. AwaitsInv'
    BY <1>0, <2>1, <2>2 DEF AwaitsInv
  <2>5. ASSUME UNCHANGED <<fate, minedAt>>, Confirmed(tip) PROVE Confirmed(tip)'
    <3>1. tip \in Int /\ tip' \in Int /\ tip <= tip'
      BY <1>0, <2>1 DEF WaitTypes
    <3>2. Confirmed(tip')
      BY <1>0, <2>5, <3>1, ConfirmedStays
    <3> QED BY <2>1, <2>5, <3>2 DEF Confirmed
  <2>6. fate # "none" => UNCHANGED <<fate, minedAt>>
    BY <2>1
  <2>7. WaitTellsTheTruth'
    BY <1>0, <2>1, <2>2, <2>5, <2>6 DEF WaitTellsTheTruth
  <2> QED BY <2>3, <2>4, <2>7 DEF WaitInv
<1>3. ASSUME NEW how, Finish(how), UNCHANGED <<tip, fate, minedAt, api, confirms, hasTimeout>>,
             UNCHANGED <<scanTo, looking>>,
             scan' \in {scan, "none"}, txCheck' => txCheck,
             \/ how = "error"
             \/ how = "receipt" /\ fate = "ours" /\ Confirmed(tip)
             \/ how = "replaced" /\ fate = "other" /\ Confirmed(tip)
             \/ how = "null" /\ confirms = 0
             \/ how = "timeout" /\ hasTimeout
      PROVE  WaitInv'
  <2>1. phase' = "settled" /\ stopScanning' /\ ~onHash' /\ ~onNextBlock' /\ result' \in {result, how}
    BY <1>3 DEF Finish
  <2>2. WaitTypes'
    BY <1>0, <1>3 DEF WaitTypes
  <2>3. AwaitsInv'
    BY <1>0, <1>3, <2>1 DEF AwaitsInv
  <2>4. Confirmed(tip)' <=> Confirmed(tip)
    BY <1>3 DEF Confirmed
  <2>5. WaitTellsTheTruth'
    BY <1>0, <1>3, <2>1, <2>4 DEF WaitTellsTheTruth
  <2> QED BY <2>2, <2>3, <2>5 DEF WaitInv
<1>4. ASSUME UNCHANGED <<tip, fate, minedAt, api, confirms, hasTimeout, result>>,
             scanTo' \in Nat, scanTo' <= tip, looking' \in Int, looking' <= tip,
             AwaitsInv', api = "wait" /\ phase' = "settled" => ~onHash' /\ ~onNextBlock'
      PROVE  WaitInv'
  <2>1. Confirmed(tip)' <=> Confirmed(tip)
    BY <1>4 DEF Confirmed
  <2>2. WaitTypes' /\ WaitTellsTheTruth'
    BY <1>0, <1>4, <2>1 DEF WaitTypes, WaitTellsTheTruth
  <2> QED BY <1>4, <2>2 DEF WaitInv
<1>5. CASE TimeOut
  BY <1>3, <1>5 DEF TimeOut
<1>6. CASE FirstReceipt
  BY <1>0, <1>4, <1>6 DEF FirstReceipt, WaitTypes, AwaitsInv
<1>7. CASE FirstConfirm
  <2>1. CASE Confirmed(tip)
    BY <1>0, <1>3, <1>7, <2>1 DEF FirstConfirm, AwaitsInv
  <2>2. CASE ~Confirmed(tip)
    BY <1>0, <1>4, <1>7, <2>2 DEF FirstConfirm, Listen, WaitTypes, AwaitsInv
  <2> QED BY <2>1, <2>2
<1>8. CASE AfterFirst
  <2>1. CASE confirms = 0
    BY <1>3, <1>8, <2>1 DEF AfterFirst
  <2>2. CASE confirms # 0
    BY <1>0, <1>4, <1>8, <2>2 DEF AfterFirst, Listen, WaitTypes, AwaitsInv
  <2> QED BY <2>1, <2>2
<1>9. CASE TxPollReturns
  BY <1>0, <1>4, <1>9 DEF TxPollReturns, WaitTypes, AwaitsInv, WaitTellsTheTruth
<1>10. CASE TxCheckReturns
  <2>1. CASE Confirmed(tip)
    BY <1>0, <1>3, <1>10, <2>1 DEF TxCheckReturns, AwaitsInv
  <2>2. CASE ~Confirmed(tip)
    BY <1>0, <1>4, <1>10, <2>2 DEF TxCheckReturns, WaitTypes, AwaitsInv, WaitTellsTheTruth
  <2> QED BY <2>1, <2>2
\* The awaits of checkReplacement: EndScan registers for the next block only
\* while the scan goes on.
<1>11. ASSUME EndScan
       PROVE  /\ UNCHANGED <<phase, result, onHash, stopScanning>> /\ scan' = "none"
              /\ api = "wait" /\ phase = "settled" => ~onHash' /\ ~onNextBlock'
  BY <1>0, <1>11 DEF EndScan, AwaitsInv, WaitTellsTheTruth
<1>12. ASSUME NEW at, ScanOn(at)
       PROVE  /\ UNCHANGED <<phase, result, onHash, stopScanning>> /\ scan' \in {"none", at}
              /\ api = "wait" /\ phase = "settled" => ~onHash' /\ ~onNextBlock'
  BY <1>0, <1>11, <1>12 DEF ScanOn, WaitTellsTheTruth
<1>13. ASSUME NEW h \in scanTo .. tip, NEW n \in scanTo .. tip, ReadCounts(h, n) PROVE WaitInv'
  <2>1. /\ UNCHANGED <<tip, fate, minedAt, api, confirms, hasTimeout, looking, txCheck>>
        /\ scanTo' = h
        /\ EndScan \/ (fate # "none" /\ ScanOn("tx"))
    BY <1>13 DEF ReadCounts
  <2>2. /\ UNCHANGED <<phase, result, onHash, stopScanning>>
        /\ scan' = "none" \/ (scan' = "tx" /\ fate # "none")
        /\ api = "wait" /\ phase = "settled" => ~onHash' /\ ~onNextBlock'
    BY <1>11, <1>12, <2>1
  <2>3. AwaitsInv'
    BY <1>0, <2>1, <2>2 DEF AwaitsInv
  <2>4. scanTo' \in Nat /\ scanTo' <= tip /\ looking' \in Int /\ looking' <= tip
    BY <1>0, <2>1 DEF WaitTypes
  <2> QED BY <1>4, <2>1, <2>2, <2>3, <2>4
<1>14. CASE ReadTx \/ ReadBlock
  <2>1. /\ UNCHANGED <<tip, fate, minedAt, api, confirms, hasTimeout, looking, txCheck, scanTo>>
        /\ EndScan \/ (fate = "other" /\ (ScanOn("block") \/ ScanOn("receipt")))
    <3>1. CASE ReadTx
      <4>1. /\ fate \in {"ours", "other"}
            /\ UNCHANGED <<tip, fate, minedAt, api, confirms, hasTimeout, looking, txCheck, scanTo>>
        BY <1>0, <3>1 DEF ReadTx, AwaitsInv, WaitTypes
      <4>2. EndScan \/ (fate # "ours" /\ ScanOn("block"))
        BY <3>1 DEF ReadTx
      <4> QED BY <4>1, <4>2
    <3>2. CASE ReadBlock
      BY <1>0, <3>2 DEF ReadBlock, AwaitsInv
    <3> QED BY <1>14, <3>1, <3>2
  <2>2. /\ UNCHANGED <<phase, result, onHash, stopScanning>>
        /\ scan' = "none" \/ (scan' \in {"block", "receipt"} /\ fate = "other")
        /\ api = "wait" /\ phase = "settled" => ~onHash' /\ ~onNextBlock'
    BY <1>11, <1>12, <2>1
  <2>3. AwaitsInv'
    BY <1>0, <2>1, <2>2 DEF AwaitsInv
  <2> QED BY <1>0, <1>4, <2>1, <2>2, <2>3 DEF WaitTypes
<1>15. CASE ReadReplacement
  <2>1. fate = "other" /\ UNCHANGED <<tip, fate, minedAt, api, confirms, hasTimeout, looking, txCheck, scanTo>>
    BY <1>0, <1>15 DEF ReadReplacement, AwaitsInv
  <2>2. CASE Confirmed(scanTo)
    <3>1. Confirmed(tip)
      BY <1>0, <2>2, ConfirmedStays DEF WaitTypes
    <3>2. Finish("replaced") /\ scan' = "none"
      BY <1>15, <2>2 DEF ReadReplacement
    <3> QED BY <1>3, <2>1, <3>1, <3>2
  <2>3. CASE ~Confirmed(scanTo)
    <3>1. EndScan
      BY <1>15, <2>3 DEF ReadReplacement
    <3>2. AwaitsInv'
      BY <1>0, <1>11, <2>1, <3>1 DEF AwaitsInv
    <3> QED BY <1>0, <1>4, <1>11, <2>1, <3>1, <3>2 DEF WaitTypes
  <2> QED BY <2>2, <2>3
<1>16. ASSUME UNCHANGED <<tip, fate, minedAt, api, confirms, hasTimeout, scanTo, scan, txCheck>>,
              looking' \in Int, looking' <= tip, api # "wait",
              phase' \in {phase, "settled", "stuck", "waiting"},
              \/ result' = result
              \/ result' = "timeout" /\ hasTimeout
              \/ result' = "null" /\ confirms = 0
              \/ result' = "receipt" /\ fate = "ours" /\ Confirmed(tip)
       PROVE  WaitInv'
  <2>1. WaitTypes'
    BY <1>0, <1>16 DEF WaitTypes
  <2>2. AwaitsInv'
    BY <1>0, <1>16 DEF AwaitsInv
  <2>3. Confirmed(tip)' <=> Confirmed(tip)
    BY <1>16 DEF Confirmed
  <2>4. WaitTellsTheTruth'
    BY <1>0, <1>16, <2>3 DEF WaitTellsTheTruth
  <2> QED BY <2>1, <2>2, <2>4 DEF WaitInv
<1>17. CASE ReceiptOnly
  <2>1. confirms = 0
    BY <1>0, <1>17 DEF ReceiptOnly, AwaitsInv
  <2>2. fate = "ours" => Confirmed(tip)
    BY <1>0, <2>1 DEF WaitTypes, Confirmed
  <2> QED BY <1>0, <1>16, <1>17, <2>1, <2>2 DEF ReceiptOnly, WaitTypes
<1>18. ASSUME NEW fails \in BOOLEAN, FirstLook(fails) PROVE WaitInv'
  <2>1. api # "wait"
    BY <1>0, <1>18 DEF FirstLook, AwaitsInv
  <2>2. phase' \in {phase, "stuck", "waiting"} /\ looking' \in {-1, tip} /\ result' = result
    BY <1>18 DEF FirstLook
  <2>3. UNCHANGED <<tip, fate, minedAt, api, confirms, hasTimeout, scanTo, scan, txCheck>>
    BY <1>18 DEF FirstLook
  <2> QED BY <1>0, <1>16, <2>1, <2>2, <2>3 DEF WaitTypes
<1>19. ASSUME NEW fails \in BOOLEAN, Look(fails) PROVE WaitInv'
  <2>1. api # "wait" /\ looking' = -1
    BY <1>0, <1>19 DEF Look, AwaitsInv
  <2>2. UNCHANGED <<tip, fate, minedAt, api, confirms, hasTimeout, scanTo, scan, txCheck>>
    BY <1>19 DEF Look
  <2>3. \/ phase' = "settled" /\ fate = "ours" /\ Confirmed(looking) /\ result' \in {result, "receipt"}
        \/ UNCHANGED <<phase, result>>
    BY <1>19 DEF Look
  <2>4. Confirmed(looking) => Confirmed(tip)
    BY <1>0, ConfirmedStays DEF WaitTypes
  <2> QED BY <1>0, <1>16, <2>1, <2>2, <2>3, <2>4 DEF WaitTypes
<1>20. CASE ReceiptTimeOut
  BY <1>0, <1>16, <1>20 DEF ReceiptTimeOut, WaitTypes
<1>21. CASE Fault
  <2>1. UNCHANGED <<tip, fate, minedAt, api, confirms, hasTimeout, looking, scanTo>>
    BY <1>21 DEF Fault
  <2>2. CASE Finish("error") /\ scan' = "none" /\ UNCHANGED txCheck
    BY <1>3, <2>1, <2>2
  <2>3. CASE EndScan /\ UNCHANGED txCheck
    <3>1. AwaitsInv'
      BY <1>0, <1>11, <2>1, <2>3 DEF AwaitsInv
    <3> QED BY <1>0, <1>4, <1>11, <2>1, <2>3, <3>1 DEF WaitTypes
  <2>4. CASE txCheck' = FALSE /\ UNCHANGED <<phase, result, onHash, onNextBlock, stopScanning, scan>>
    <3>1. AwaitsInv'
      BY <1>0, <2>1, <2>4 DEF AwaitsInv
    <3> QED BY <1>0, <1>4, <2>1, <2>4, <3>1 DEF WaitTypes, WaitTellsTheTruth
  <2> QED BY <1>21, <2>2, <2>3, <2>4 DEF Fault
<1>22. CASE UNCHANGED waitVars
  <2>1. AwaitsInv'
    BY <1>0, <1>22 DEF waitVars, AwaitsInv
  <2> QED BY <1>0, <1>4, <1>22, <2>1 DEF waitVars, WaitTypes, WaitTellsTheTruth
<1> QED BY <1>2, <1>5, <1>6, <1>7, <1>8, <1>9, <1>10, <1>13, <1>14, <1>15, <1>17, <1>18, <1>19, <1>20, <1>21, <1>22
        DEF WaitNext, WaitStep

\* A receipt and a replacement have the confirmations asked for, null is only
\* returned when none were; and wait, once settled, listens to nothing.
THEOREM WaitsTellTheTruth == WaitSpec => []WaitTellsTheTruth
<1>1. WaitInit => WaitInv
  <2> SUFFICES ASSUME WaitInit PROVE WaitInv
    OBVIOUS
  <2>1. WaitTypes
    BY WaitAssumption DEF WaitInit, WaitTypes
  <2>2. AwaitsInv
    BY DEF WaitInit, AwaitsInv
  <2>3. WaitTellsTheTruth
    BY DEF WaitInit, WaitTellsTheTruth
  <2> QED BY <2>1, <2>2, <2>3 DEF WaitInv
<1>2. WaitInv => WaitTellsTheTruth
  BY DEF WaitInv
<1> QED BY <1>1, <1>2, WaitInvStep, PTL DEF WaitSpec

-----------------------------------------------------------------------------
(* FallbackProvider.getBlockNumber: votes and the fuzzy mode *)

\* Votes of finitely many rows can be counted ...
LEMMA VotesAreFinite ==
  ASSUME NEW results, NEW T, IsFiniteSet(T), \A i \in T : results[i].weight \in Nat
  PROVE  IsFiniteSet(Votes(results, T))
<1> DEFINE w == [i \in T |-> results[i].weight]
<1>1. IsFiniteSet(UNION {{i} \X (1 .. w[i]) : i \in T})
  <2>1. \A i \in T : w[i] \in Nat
    OBVIOUS
  <2> HIDE DEF w
  <2> QED BY <2>1, FiniteVotes
<1>2. Votes(results, T) = UNION {{i} \X (1 .. w[i]) : i \in T}
  BY DEF Votes
<1> QED BY <1>1, <1>2

\* ... and more rows have no fewer.
LEMMA WeighGrows ==
  ASSUME NEW results, NEW T, IsFiniteSet(T), \A i \in T : results[i].weight \in Nat,
         NEW S \in SUBSET T
  PROVE  Weigh(results, S) \in Nat /\ Weigh(results, T) \in Nat
         /\ Weigh(results, S) <= Weigh(results, T)
<1>1. Votes(results, S) \subseteq Votes(results, T)
  BY DEF Votes
<1>2. IsFiniteSet(Votes(results, T))
  BY VotesAreFinite
<1> QED BY <1>1, <1>2, FS_Subset, FS_CardinalityType DEF Weigh

\* The fuzzy mode is a number that answers worth a quorum are next to.
LEMMA FuzzyModeHasQuorum ==
  ASSUME NEW results, IsFiniteSet(DOMAIN results), NEW n \in Nat,
         \A i \in DOMAIN results : results[i].value \in 0 .. n /\ results[i].weight \in Nat,
         NEW order, NEW quorum, quorum # 1, GetFuzzyMode(order, quorum, results).decided
  PROVE  /\ GetFuzzyMode(order, quorum, results).value \in Int
         /\ Weigh(results, Near(results, GetFuzzyMode(order, quorum, results).value)) >= quorum
<1> DEFINE D == DOMAIN results
           candidates == UNION {Around(results[i].value) : i \in D}
           weight == [r \in candidates |-> Weigh(results, Near(results, r))]
           met == {r \in candidates : weight[r] >= quorum}
           heaviest == {r \in met : \A s \in met : weight[s] <= weight[r]}
<1>1. met # {} /\ GetFuzzyMode(order, quorum, results).value = Max(heaviest)
  <2>1. GetFuzzyMode(order, quorum, results) =
          IF met = {} THEN Undefined ELSE Decided(Max(heaviest))
    BY DEF GetFuzzyMode
  <2> HIDE DEF met, heaviest
  <2> QED BY <2>1 DEF Undefined, Decided
<1>2. \A r \in candidates : r \in Int /\ r <= n + 1
  <2>1. ASSUME NEW i \in D, NEW r \in Around(results[i].value) PROVE r \in Int /\ r <= n + 1
    <3>1. results[i].value \in Int /\ results[i].value <= n
      OBVIOUS
    <3> QED BY <3>1 DEF Around
  <2> QED BY <2>1
<1>3. \A r \in candidates : weight[r] \in Nat /\ weight[r] <= Weigh(results, D)
                            /\ weight[r] = Weigh(results, Near(results, r))
  <2>1. ASSUME NEW r
        PROVE  /\ Weigh(results, Near(results, r)) \in Nat
               /\ Weigh(results, Near(results, r)) <= Weigh(results, D)
    <3>1. Near(results, r) \in SUBSET D
      BY DEF Near
    <3> QED BY <3>1, WeighGrows
  <2> QED BY <2>1
<1>4. Weigh(results, D) \in Nat
  BY WeighGrows
<1> HIDE DEF D, candidates, weight
<1> DEFINE weights == {weight[r] : r \in met}
<1>5. weights \in SUBSET Nat /\ weights # {} /\ \A w \in weights : w <= Weigh(results, D)
  BY <1>1, <1>3
<1>6. PICK w \in weights : \A v \in weights : v <= w
  <2> HIDE DEF weights
  <2> QED BY <1>4, <1>5, GreatestNat
<1>7. heaviest # {}
  BY <1>6
<1>8. heaviest \in SUBSET Int /\ n + 1 \in Int /\ \A r \in heaviest : r <= n + 1
  BY <1>2
<1>9. Max(heaviest) \in heaviest
  <2> HIDE DEF heaviest
  <2> QED BY <1>7, <1>8, MaxOfInts
<1>10. Max(heaviest) \in candidates /\ weight[Max(heaviest)] >= quorum
  BY <1>9
<1> QED BY <1>1, <1>2, <1>3, <1>10

-----------------------------------------------------------------------------
(* Sorting, and the median *)

\* What inserting an item does to a list.
LEMMA InsertAtKeeps ==
  ASSUME NEW s \in Seq(Nat), NEW k \in 1 .. Len(s) + 1, NEW item \in Nat
  PROVE  /\ InsertAt(s, k, item) \in Seq(Nat) /\ Len(InsertAt(s, k, item)) = Len(s) + 1
         /\ \A j \in 1 .. Len(s) + 1 :
              InsertAt(s, k, item)[j] = IF j < k THEN s[j] ELSE IF j = k THEN item ELSE s[j - 1]
<1>1. InsertAt(s, k, item) = (SubSeq(s, 1, k - 1) \o <<item>>) \o SubSeq(s, k, Len(s))
  BY SMT DEF InsertAt
<1> DEFINE front == SubSeq(s, 1, k - 1)
           back == SubSeq(s, k, Len(s))
<1>0. Len(s) \in Nat /\ k \in Int
  OBVIOUS
<1>2. front \in Seq(Nat) /\ Len(front) = k - 1 /\ \A j \in 1 .. k - 1 : front[j] = s[j]
  OBVIOUS
<1>3. /\ back \in Seq(Nat) /\ Len(back) = Len(s) - k + 1
      /\ \A j \in 1 .. Len(s) - k + 1 : back[j] = s[k + j - 1]
  OBVIOUS
<1> HIDE DEF front, back
<1> DEFINE start == front \o <<item>>
<1>4. start \in Seq(Nat) /\ Len(start) = k
      /\ \A j \in 1 .. k : start[j] = IF j < k THEN front[j] ELSE item
  BY <1>0, <1>2
<1>5. /\ start \o back \in Seq(Nat) /\ Len(start \o back) = Len(s) + 1
      /\ \A j \in 1 .. Len(s) + 1 : (start \o back)[j] = IF j <= k THEN start[j] ELSE back[j - k]
  <2> HIDE DEF start
  <2>1. /\ start \o back \in Seq(Nat) /\ Len(start \o back) = Len(start) + Len(back)
        /\ \A j \in 1 .. Len(start) + Len(back) :
             (start \o back)[j] = IF j <= Len(start) THEN start[j] ELSE back[j - Len(start)]
    BY <1>3, <1>4, ConcatProperties
  <2>2. Len(start) + Len(back) = Len(s) + 1
    BY <1>0, <1>3, <1>4
  <2> QED BY <1>4, <2>1, <2>2
<1>6. ASSUME NEW j \in 1 .. Len(s) + 1
      PROVE  (start \o back)[j] = IF j < k THEN s[j] ELSE IF j = k THEN item ELSE s[j - 1]
  <2> HIDE DEF start
  <2>1. CASE j < k
    <3>1. j \in 1 .. k - 1 /\ j \in 1 .. k /\ j <= k
      BY <1>0, <2>1
    <3> QED BY <1>2, <1>4, <1>5, <2>1, <3>1
  <2>2. CASE j = k
    <3>1. j \in 1 .. k /\ j <= k /\ ~(j < k)
      BY <1>0, <2>2
    <3> QED BY <1>4, <1>5, <2>2, <3>1
  <2>3. CASE j > k
    <3>1. j - k \in 1 .. Len(s) - k + 1 /\ ~(j <= k) /\ ~(j < k) /\ j # k /\ k + (j - k) - 1 = j - 1
      BY <1>0, <2>3
    <3>2. back[j - k] = s[j - 1]
      BY <1>3, <3>1
    <3> QED BY <1>5, <3>1, <3>2
  <2>4. j < k \/ j = k \/ j > k
    BY <1>0
  <2> QED BY <2>1, <2>2, <2>3, <2>4, Zenon
<1> QED BY <1>1, <1>5, <1>6 DEF front, back

\* Whatever the comparator says, the item goes somewhere into the list.
LEMMA InsertsSomewhere ==
  ASSUME NEW order, NEW item \in Nat, NEW s \in Seq(Nat)
  PROVE  \E k \in 1 .. Len(s) + 1 : InsertInto(order, item, s) = InsertAt(s, k, item)
<1> DEFINE stay == {0} \cup {j \in DOMAIN s : ~MovesBefore(order, item, s[j])}
           keep == Max(stay)
<1>1. stay \in SUBSET Nat /\ stay # {} /\ Len(s) \in Nat /\ \A j \in stay : j <= Len(s)
  OBVIOUS
<1>2. keep \in Nat /\ keep <= Len(s)
  <2> HIDE DEF stay
  <2> QED BY <1>1, MaxOfNats
<1>3. InsertInto(order, item, s) = InsertAt(s, keep + 1, item)
  BY DEF InsertInto
<1> HIDE DEF keep
<1>4. keep + 1 \in 1 .. Len(s) + 1
  BY <1>1, <1>2
<1> QED BY <1>3, <1>4

Ascending(s) == \A i, j \in 1 .. Len(s) : i < j => s[i] <= s[j]

\* An item goes behind those that it does not precede.
LEMMA InsertAscends ==
  ASSUME NEW item \in Nat, NEW s \in Seq(Nat), Ascending(s)
  PROVE  Ascending(InsertInto("item first", item, s))
<1> DEFINE stay == {0} \cup {j \in DOMAIN s : ~MovesBefore("item first", item, s[j])}
           keep == Max(stay)
           t == InsertInto("item first", item, s)
<1>1. stay \in SUBSET Nat /\ stay # {} /\ Len(s) \in Nat /\ \A j \in stay : j <= Len(s)
  <2>1. stay \subseteq {0} \cup DOMAIN s /\ 0 \in stay
    OBVIOUS
  <2> HIDE DEF stay
  <2>2. Len(s) \in Nat /\ \A j \in {0} \cup DOMAIN s : j \in Nat /\ j <= Len(s)
    OBVIOUS
  <2> QED BY <2>1, <2>2
<1>2. keep \in stay /\ keep \in Nat /\ keep <= Len(s) /\ \A j \in stay : j <= keep
  <2> HIDE DEF stay
  <2> QED BY <1>1, MaxOfNats
<1>3. t = InsertAt(s, keep + 1, item)
  BY DEF InsertInto
<1> HIDE DEF keep, t
<1>4. \A j \in 1 .. Len(s) : s[j] \in Nat /\ (j \in stay <=> s[j] <= item)
  <2>1. \A j \in 1 .. Len(s) : s[j] \in Nat /\ j \in DOMAIN s /\ j # 0
    OBVIOUS
  <2> QED BY <2>1 DEF MovesBefore, Compare
<1> HIDE DEF stay
<1>5. ASSUME NEW j \in 1 .. Len(s)
      PROVE  s[j] \in Nat /\ (j <= keep => s[j] <= item) /\ (j > keep => item < s[j])
  <2>1. CASE j <= keep
    <3>1. keep \in 1 .. Len(s) /\ s[keep] <= item /\ s[keep] \in Nat
      BY <1>2, <1>4, <2>1
    <3>2. s[j] <= s[keep]
      BY <1>4, <2>1, <3>1 DEF Ascending
    <3> QED BY <1>4, <2>1, <3>1, <3>2
  <2>2. CASE j > keep
    BY <1>2, <1>4, <2>2
  <2> QED BY <1>2, <2>1, <2>2
<1>6. keep + 1 \in 1 .. Len(s) + 1
  BY <1>1, <1>2
<1>7. /\ Len(t) = Len(s) + 1
      /\ \A j \in 1 .. Len(s) + 1 :
           t[j] = IF j < keep + 1 THEN s[j] ELSE IF j = keep + 1 THEN item ELSE s[j - 1]
  <2> DEFINE at == keep + 1
             Inserted(u, k) ==
               /\ Len(u) = Len(s) + 1
               /\ \A j \in 1 .. Len(s) + 1 :
                    u[j] = IF j < k THEN s[j] ELSE IF j = k THEN item ELSE s[j - 1]
  <2>1. t = InsertAt(s, at, item) /\ at \in 1 .. Len(s) + 1
    BY <1>3, <1>6
  <2>2. \A k \in 1 .. Len(s) + 1 : Inserted(InsertAt(s, k, item), k)
    BY InsertAtKeeps, SMTT(30)
  <2> HIDE DEF at, Inserted
  <2>3. Inserted(t, at)
    BY <2>1, <2>2, Zenon
  <2> QED BY <2>3, Zenon DEF at, Inserted
<1>8. ASSUME NEW i \in 1 .. Len(s) + 1, NEW j \in 1 .. Len(s) + 1, i < j PROVE t[i] <= t[j]
  <2>0. i \in Nat /\ j \in Nat /\ keep \in Nat /\ Len(s) \in Nat
    BY <1>1, <1>2
  <2>1. CASE j < keep + 1
    <3>1. i \in 1 .. Len(s) /\ j \in 1 .. Len(s) /\ i < keep + 1
      BY <1>2, <1>8, <2>0, <2>1
    <3>2. t[i] = s[i] /\ t[j] = s[j]
      BY <1>7, <2>1, <3>1
    <3> QED BY <1>8, <3>1, <3>2 DEF Ascending
  <2>2. CASE j = keep + 1
    <3>1. i \in 1 .. Len(s) /\ i < keep + 1 /\ i <= keep
      BY <1>2, <1>8, <2>0, <2>2
    <3>2. t[i] = s[i] /\ t[j] = item
      BY <1>7, <2>2, <3>1
    <3> QED BY <1>5, <3>1, <3>2
  <2>3. CASE j > keep + 1
    <3>1. j - 1 \in 1 .. Len(s) /\ j - 1 > keep /\ ~(j < keep + 1) /\ j # keep + 1
      BY <2>0, <2>3
    <3>2. t[j] = s[j - 1] /\ item < s[j - 1] /\ s[j - 1] \in Nat
      BY <1>5, <1>7, <3>1
    <3>3. CASE i < keep + 1
      <4>1. i \in 1 .. Len(s) /\ i < j - 1
        BY <1>2, <2>0, <2>3, <3>3
      <4>2. t[i] = s[i]
        BY <1>7, <3>3
      <4> QED BY <3>1, <3>2, <4>1, <4>2 DEF Ascending
    <3>4. CASE i = keep + 1
      <4>1. t[i] = item
        BY <1>7, <2>0, <3>4
      <4> QED BY <3>2, <4>1
    <3>5. CASE i > keep + 1
      <4>1. i - 1 \in 1 .. Len(s) /\ i - 1 < j - 1 /\ ~(i < keep + 1) /\ i # keep + 1
        BY <1>8, <2>0, <3>5
      <4>2. t[i] = s[i - 1]
        BY <1>7, <4>1
      <4> QED BY <3>1, <3>2, <4>1, <4>2 DEF Ascending
    <3> QED BY <2>0, <3>3, <3>4, <3>5
  <2> QED BY <2>0, <2>1, <2>2, <2>3
<1> QED BY <1>7, <1>8 DEF Ascending, t

\* The recursion of Sort has a solution.
LEMMA SortSteps ==
  ASSUME NEW order, NEW values \in Seq(Nat)
  PROVE  \E f : /\ f[0] = <<>> /\ f[Len(values)] = Sort(order, values)
                 /\ \A k \in 1 .. Len(values) : f[k] = InsertInto(order, values[k], f[k - 1])
<1> DEFINE n == Len(values)
           after(f, k) == IF k = 0 THEN <<>> ELSE InsertInto(order, values[k], f[k - 1])
           Sorts(f, k) == f = [j \in 0 .. k |-> after(f, j)]
           failing == {k \in 0 .. n : \A f : ~Sorts(f, k)}
<1>1. n \in Nat
  OBVIOUS
<1>2. failing = {}
  <2> SUFFICES ASSUME failing # {} PROVE FALSE
    OBVIOUS
  <2>1. PICK k \in failing : \A j \in failing : k <= j
    <3>1. failing \in SUBSET Nat
      BY <1>1
    <3> HIDE DEF failing
    <3> QED BY <3>1, LeastNat
  <2>2. k \in 0 .. n /\ k \in Nat
    BY <1>1
  <2>3. CASE k = 0
    <3> DEFINE g == [j \in 0 .. k |-> <<>>]
    <3>1. Sorts(g, k)
      BY <2>3
    <3> QED BY <2>1, <3>1
  <2>4. CASE k # 0
    <3>1. k - 1 \in 0 .. n /\ ~(k <= k - 1)
      BY <1>1, <2>2, <2>4
    <3>2. PICK f : Sorts(f, k - 1)
      <4>1. k - 1 \notin failing
        <5> HIDE DEF failing
        <5> QED BY <2>1, <3>1
      <4> HIDE DEF Sorts
      <4> QED BY <3>1, <4>1
    <3> DEFINE g == [j \in 0 .. k |-> IF j = k THEN after(f, k) ELSE f[j]]
    <3>3. ASSUME NEW j \in 0 .. k PROVE g[j] = after(g, j)
      <4>1. CASE j = k
        <5>1. k - 1 \in 0 .. k /\ k - 1 # k
          BY <2>2, <2>4
        <5>2. g[k - 1] = f[k - 1]
          BY <5>1
        <5> QED BY <4>1, <5>2
      <4>2. CASE j # k
        <5>1. j \in 0 .. k - 1 /\ (j # 0 => j - 1 \in 0 .. k /\ j - 1 # k)
          BY <2>2, <4>2
        <5>2. f[j] = after(f, j)
          BY <3>2, <5>1
        <5>3. j # 0 => g[j - 1] = f[j - 1]
          BY <5>1
        <5> QED BY <4>2, <5>2, <5>3
      <4> QED BY <4>1, <4>2
    <3>4. Sorts(g, k)
      <4>1. g = [j \in 0 .. k |-> g[j]]
        OBVIOUS
      <4> HIDE DEF g, after
      <4> QED BY <3>3, <4>1
    <3> QED BY <2>1, <3>4
  <2> QED BY <2>3, <2>4
<1> DEFINE sorted == CHOOSE f : Sorts(f, n)
<1>3. Sorts(sorted, n)
  <2>1. n \in 0 .. n
    BY <1>1
  <2>2. \E f : Sorts(f, n)
    BY <1>2, <2>1
  <2> HIDE DEF Sorts
  <2> QED BY <2>2
<1>4. Sort(order, values) = sorted[n]
  BY DEF Sort
<1> HIDE DEF sorted, failing
<1>5. \A k \in 0 .. n : sorted[k] = after(sorted, k)
  <2> HIDE DEF after
  <2> QED BY <1>3
<1>6. 0 \in 0 .. n /\ \A k \in 1 .. n : k \in 0 .. n /\ k # 0
  BY <1>1
<1> QED BY <1>4, <1>5, <1>6

\* Sorting returns what it is given in another order, whatever the comparator;
\* in ascending order if the engine asks whether the new item comes first.
Arranges(s, values, k) ==
  /\ s \in Seq(Nat) /\ Len(s) = k
  /\ \E p \in [1 .. k -> 1 .. k] :
       /\ \A i, j \in 1 .. k : p[i] = p[j] => i = j
       /\ \A j \in 1 .. k : s[j] = values[p[j]]

\* Inserting the next value keeps it so.
LEMMA InsertArranges ==
  ASSUME NEW values \in Seq(Nat), NEW k \in Nat, k + 1 \in 1 .. Len(values),
         NEW s, Arranges(s, values, k), NEW m \in 1 .. k + 1
  PROVE  Arranges(InsertAt(s, m, values[k + 1]), values, k + 1)
<1> DEFINE t == InsertAt(s, m, values[k + 1])
<1>1. PICK p \in [1 .. k -> 1 .. k] : /\ \A i, j \in 1 .. k : p[i] = p[j] => i = j
                                     /\ \A j \in 1 .. k : s[j] = values[p[j]]
  BY DEF Arranges
<1>2. s \in Seq(Nat) /\ Len(s) = k /\ values[k + 1] \in Nat
  BY DEF Arranges
<1>3. t \in Seq(Nat) /\ Len(t) = k + 1
  BY <1>2, InsertAtKeeps
<1> DEFINE e == k + 1
<1>4. \A j \in 1 .. e : t[j] = IF j < m THEN s[j] ELSE IF j = m THEN values[e] ELSE s[j - 1]
  <2>0. s \in Seq(Nat)
    BY <1>2
  <2>1. m \in 1 .. Len(s) + 1
    BY <1>2
  <2>4. Len(s) + 1 = e
    BY <1>2
  <2> DEFINE item == values[k + 1]
  <2>2. item \in Nat
    BY <1>2
  <2> HIDE DEF item
  <2>3. \A j \in 1 .. Len(s) + 1 :
          InsertAt(s, m, item)[j] = IF j < m THEN s[j] ELSE IF j = m THEN item ELSE s[j - 1]
    BY <2>0, <2>1, <2>2, InsertAtKeeps
  <2> QED BY <2>3, <2>4 DEF item
<1> DEFINE q == [j \in 1 .. e |-> IF j < m THEN p[j] ELSE IF j = m THEN e ELSE p[j - 1]]
<1>5. ASSUME NEW j \in 1 .. e
      PROVE  /\ j < m => j \in 1 .. k
             /\ j > m => j - 1 \in 1 .. k
             /\ j \in Int /\ m \in Int /\ e \in Int /\ (j < m \/ j = m \/ j > m)
  OBVIOUS
<1>6. \A j \in 1 .. k : p[j] \in 1 .. e /\ p[j] # e
  <2>1. \A x \in 1 .. k : x \in 1 .. e /\ x # e
    OBVIOUS
  <2> QED BY <2>1
<1>e. e \in 1 .. e
  OBVIOUS
<1> HIDE DEF t, e
<1>7. ASSUME NEW j \in 1 .. e
      PROVE  /\ j < m => q[j] = p[j] /\ t[j] = s[j]
             /\ j = m => q[j] = e /\ t[j] = values[e]
             /\ j > m => q[j] = p[j - 1] /\ t[j] = s[j - 1]
  BY <1>4, <1>5
<1> HIDE DEF q
<1>8. q \in [1 .. e -> 1 .. e]
  <2>1. ASSUME NEW j \in 1 .. e PROVE q[j] \in 1 .. e
    <3>1. CASE j < m
      BY <1>5, <1>6, <1>7, <3>1
    <3>2. CASE j = m
      BY <1>7, <1>e, <3>2
    <3>3. CASE j > m
      BY <1>5, <1>6, <1>7, <3>3
    <3> QED BY <1>5, <3>1, <3>2, <3>3
  <2>2. q = [j \in 1 .. e |-> q[j]]
    BY DEF q
  <2> QED BY <2>1, <2>2
<1>a. ASSUME NEW j \in 1 .. e, q[j] = e PROVE j = m
  <2>1. CASE j < m
    BY <1>5, <1>6, <1>7, <1>a, <2>1
  <2>2. CASE j > m
    BY <1>5, <1>6, <1>7, <1>a, <2>2
  <2> QED BY <1>5, <2>1, <2>2
<1>9. ASSUME NEW i \in 1 .. e, NEW j \in 1 .. e, q[i] = q[j] PROVE i = j
  <2>1. CASE i = m \/ j = m
    BY <1>7, <1>9, <1>a, <2>1
  <2>3. CASE i < m /\ j < m
    BY <1>1, <1>5, <1>7, <1>9, <2>3
  <2>4. CASE i > m /\ j > m
    <3>1. i - 1 \in 1 .. k /\ j - 1 \in 1 .. k
      BY <1>5, <2>4
    <3>2. p[i - 1] = p[j - 1]
      BY <1>7, <1>9, <2>4
    <3>3. i - 1 = j - 1
      BY <1>1, <3>1, <3>2
    <3> QED BY <1>5, <3>3
  <2>5. CASE i < m /\ j > m
    <3>1. i \in 1 .. k /\ j - 1 \in 1 .. k
      BY <1>5, <2>5
    <3>2. p[i] = p[j - 1]
      BY <1>7, <1>9, <2>5
    <3>3. i = j - 1
      BY <1>1, <3>1, <3>2
    <3> QED BY <1>5, <2>5, <3>3
  <2>6. CASE i > m /\ j < m
    <3>1. i - 1 \in 1 .. k /\ j \in 1 .. k
      BY <1>5, <2>6
    <3>2. p[i - 1] = p[j]
      BY <1>7, <1>9, <2>6
    <3>3. i - 1 = j
      BY <1>1, <3>1, <3>2
    <3> QED BY <1>5, <2>6, <3>3
  <2> QED BY <1>5, <2>1, <2>3, <2>4, <2>5, <2>6
<1>10. ASSUME NEW j \in 1 .. e PROVE t[j] = values[q[j]]
  <2>1. CASE j < m
    BY <1>1, <1>5, <1>7, <2>1
  <2>2. CASE j = m
    BY <1>7, <2>2
  <2>3. CASE j > m
    <3>1. j - 1 \in 1 .. k
      BY <1>5, <2>3
    <3>2. s[j - 1] = values[p[j - 1]]
      BY <1>1, <3>1
    <3> QED BY <1>7, <2>3, <3>2
  <2> QED BY <1>5, <2>1, <2>2, <2>3
<1>11. t \in Seq(Nat) /\ Len(t) = e
  BY <1>3 DEF e
<1>12. Arranges(t, values, e)
  BY <1>8, <1>9, <1>10, <1>11 DEF Arranges
<1> QED BY <1>12 DEF t, e

LEMMA SortArranges ==
  ASSUME NEW order, NEW values \in Seq(Nat)
  PROVE  /\ Arranges(Sort(order, values), values, Len(values))
         /\ order = "item first" => Ascending(Sort(order, values))
<1> DEFINE n == Len(values)
<1>1. n \in Nat
  OBVIOUS
<1>2. PICK f : /\ f[0] = <<>> /\ f[n] = Sort(order, values)
              /\ \A k \in 1 .. n : f[k] = InsertInto(order, values[k], f[k - 1])
  BY SortSteps
<1> DEFINE good(k) == Arranges(f[k], values, k) /\ (order = "item first" => Ascending(f[k]))
<1> HIDE DEF good
<1> DEFINE wrong == {k \in 0 .. n : ~good(k)}
<1>3. wrong = {}
  <2> SUFFICES ASSUME wrong # {} PROVE FALSE
    OBVIOUS
  <2>1. PICK k \in wrong : \A j \in wrong : k <= j
    <3>1. wrong \in SUBSET Nat
      BY <1>1
    <3> HIDE DEF wrong
    <3> QED BY <3>1, LeastNat
  <2>2. k \in 0 .. n /\ k \in Nat /\ ~good(k)
    BY <1>1
  <2>3. CASE k = 0
    <3>1. f[k] = <<>>
      BY <1>2, <2>3
    <3>2. <<>> \in Seq(Nat) /\ Len(<<>>) = 0 /\ \A i \in 1 .. 0 : FALSE
      OBVIOUS
    <3>3. [j \in 1 .. 0 |-> j] \in [1 .. 0 -> 1 .. 0]
      OBVIOUS
    <3>4. Arranges(<<>>, values, 0)
      BY <3>2, <3>3 DEF Arranges
    <3>5. Ascending(<<>>)
      BY <3>2 DEF Ascending
    <3> QED BY <2>2, <2>3, <3>1, <3>4, <3>5 DEF good
  <2>4. CASE k # 0
    <3> DEFINE j == k - 1
    <3>1. j \in 0 .. n /\ j \in Nat /\ ~(k <= j) /\ k \in 1 .. n /\ j + 1 = k /\ values[k] \in Nat
      BY <1>1, <2>2, <2>4
    <3>2. good(j)
      <4>1. j \notin wrong
        <5> HIDE DEF wrong
        <5> QED BY <2>1, <3>1
      <4> QED BY <3>1, <4>1
    <3>3. f[k] = InsertInto(order, values[k], f[j])
      BY <1>2, <3>1
    <3> HIDE DEF j, wrong
    <3>4. f[j] \in Seq(Nat) /\ Len(f[j]) = j
      BY <3>2 DEF good, Arranges
    <3>5. PICK m \in 1 .. j + 1 : f[k] = InsertAt(f[j], m, values[k])
      BY <3>1, <3>3, <3>4, InsertsSomewhere
    <3>6. Arranges(InsertAt(f[j], m, values[j + 1]), values, j + 1)
      BY <3>1, <3>2, InsertArranges DEF good
    <3>7. Arranges(f[k], values, k)
      BY <3>1, <3>5, <3>6
    <3>8. ASSUME order = "item first" PROVE Ascending(f[k])
      <4>1. Ascending(InsertInto("item first", values[k], f[j]))
        BY <3>1, <3>2, <3>4, <3>8, InsertAscends DEF good
      <4> QED BY <3>3, <3>8, <4>1
    <3> QED BY <2>2, <3>7, <3>8 DEF good
  <2> QED BY <2>3, <2>4
<1>4. good(n)
  <2>1. n \in 0 .. n
    BY <1>1
  <2> QED BY <1>3, <2>1
<1> QED BY <1>2, <1>4 DEF good

\* The positions of a finite set of naturals can be counted off.
LEMMA PlacesExist ==
  ASSUME NEW S \in SUBSET Nat, IsFiniteSet(S), NEW k \in 1 .. Cardinality(S)
  PROVE  Place(S, k) \in S /\ Cardinality({j \in S : j <= Place(S, k)}) = k
<1> DEFINE n == Cardinality(S)
           upTo(i) == {j \in S : j <= i}
           rank == [i \in S |-> Cardinality(upTo(i))]
<1>1. n \in Nat
  BY FS_CardinalityType
<1>2. ASSUME NEW i \in S
      PROVE  IsFiniteSet(upTo(i)) /\ Cardinality(upTo(i)) \in 1 .. n
  <2>1. upTo(i) \in SUBSET S /\ i \in upTo(i)
    OBVIOUS
  <2> HIDE DEF upTo
  <2>2. IsFiniteSet(upTo(i)) /\ Cardinality(upTo(i)) <= n
    BY <2>1, FS_Subset
  <2>3. Cardinality(upTo(i)) \in Nat /\ Cardinality(upTo(i)) # 0
    BY <2>1, <2>2, FS_CardinalityType, FS_EmptySet
  <2> QED BY <1>1, <2>2, <2>3
<1>3. ASSUME NEW i \in S, NEW j \in S, i < j PROVE rank[i] # rank[j]
  <2>0. i \in Nat /\ j \in Nat /\ \A x \in S : x \in Nat
    OBVIOUS
  <2>1. upTo(i) \in SUBSET upTo(j) /\ j \notin upTo(i) /\ j \in upTo(j)
    <3>1. (\A x \in S : x <= i => x <= j) /\ ~(j <= i) /\ j <= j
      BY <1>3, <2>0
    <3> QED BY <3>1
  <2>2. rank[i] = Cardinality(upTo(i)) /\ rank[j] = Cardinality(upTo(j))
    OBVIOUS
  <2> HIDE DEF upTo, rank
  <2> QED BY <1>2, <2>1, <2>2, FS_Subset
<1>4. rank \in Injection(S, 1 .. n)
  <2>1. rank \in [S -> 1 .. n]
    <3> HIDE DEF upTo, n
    <3> QED BY <1>2
  <2>2. \A i, j \in S : i # j => i < j \/ j < i
    OBVIOUS
  <2> HIDE DEF rank
  <2>3. \A i, j \in S : rank[i] = rank[j] => i = j
    BY <1>3, <2>2
  <2> QED BY <2>1, <2>3 DEF Injection, IsInjective
<1>5. IsFiniteSet(1 .. n) /\ Cardinality(1 .. n) = n
  BY <1>1, FS_Interval
<1> HIDE DEF rank
<1>6. rank \in Surjection(S, 1 .. n)
  BY <1>4, <1>5, FS_Injection
<1>7. PICK i \in S : rank[i] = k
  BY <1>6 DEF Surjection
<1>8. \E x \in S : Cardinality({j \in S : j <= x}) = k
  BY <1>7 DEF rank
<1> QED BY <1>8 DEF Place

\* The positions that succeeded have the votes for a median.
MedianDue(results, quorum) ==
  /\ DOMAIN results \in SUBSET Nat /\ IsFiniteSet(DOMAIN results)
  /\ \A i \in DOMAIN results : results[i].weight \in Nat
  /\ \A i \in Succeeded(results) : results[i].value \in Nat
  /\ Weigh(results, Succeeded(results)) >= quorum

Middle(t) ==
  LET n == Len(t)
  IN  IF n % 2 = 1 THEN t[n \div 2 + 1] ELSE (t[n \div 2] + t[n \div 2 + 1] + 1) \div 2

\* Half of a list, rounded up, starts at its middle.
LEMMA UpperHalf ==
  ASSUME NEW n \in Nat, n # 0, NEW mid, mid = n \div 2
  PROVE  /\ mid \in Nat /\ mid + 1 \in 1 .. n
         /\ n % 2 # 1 => mid \in 1 .. n /\ mid < mid + 1
         /\ IsFiniteSet(mid + 1 .. n)
         /\ n <= 2 * Cardinality(mid + 1 .. n)
<1>1. n \div 2 \in Nat /\ n \div 2 + 1 <= n /\ n <= 2 * (n - n \div 2)
  OBVIOUS
<1>2. n % 2 # 1 => 1 <= n \div 2
  OBVIOUS
<1>3. mid \in Nat /\ mid + 1 <= n /\ n <= 2 * (n - mid) /\ (n % 2 # 1 => 1 <= mid)
  BY <1>1, <1>2
<1>4. mid + 1 \in Int /\ n \in Int
  BY <1>3
<1>5. /\ IsFiniteSet(mid + 1 .. n)
      /\ Cardinality(mid + 1 .. n) = IF mid + 1 > n THEN 0 ELSE n - (mid + 1) + 1
  BY <1>4, FS_Interval
<1>6. n <= 2 * Cardinality(mid + 1 .. n)
  BY <1>3, <1>5
<1>7. mid + 1 \in 1 .. n /\ (n % 2 # 1 => mid \in 1 .. n /\ mid < mid + 1)
  BY <1>3
<1> QED BY <1>3, <1>5, <1>6, <1>7

\* The middle of a list of numbers is a number; half of an ascending list,
\* rounded up, is at least the middle.
LEMMA MiddleIs ==
  ASSUME NEW t \in Seq(Nat), Len(t) # 0
  PROVE  /\ Middle(t) \in Nat
         /\ Ascending(t) =>
              \E mid \in Nat : /\ IsFiniteSet(mid + 1 .. Len(t))
                               /\ Len(t) <= 2 * Cardinality(mid + 1 .. Len(t))
                               /\ \A j \in mid + 1 .. Len(t) : j \in 1 .. Len(t) /\ t[j] >= Middle(t)
<1> DEFINE n == Len(t)
<1>0. n \in Nat /\ n # 0 /\ \A j \in 1 .. n : t[j] \in Nat
  OBVIOUS
<1>1. Middle(t) = IF n % 2 = 1 THEN t[n \div 2 + 1] ELSE (t[n \div 2] + t[n \div 2 + 1] + 1) \div 2
  BY Zenon DEF Middle
<1>2. \A i, j \in 1 .. n : Ascending(t) /\ i < j => t[i] <= t[j]
  BY DEF Ascending
<1> DEFINE mid == n \div 2
<1>a. mid = n \div 2
  OBVIOUS
<1> HIDE DEF n, mid
<1>3. mid \in Nat /\ IsFiniteSet(mid + 1 .. n) /\ n <= 2 * Cardinality(mid + 1 .. n)
  BY <1>0, <1>a, UpperHalf
<1>b. mid + 1 \in 1 .. n
  BY <1>0, <1>a, UpperHalf
<1>c. n % 2 # 1 => mid \in 1 .. n /\ mid < mid + 1
  BY <1>0, <1>a, UpperHalf
<1>d. \A j \in 1 .. n : t[j] \in Nat
  BY <1>0
<1>4. Middle(t) = IF n % 2 = 1 THEN t[mid + 1] ELSE (t[mid] + t[mid + 1] + 1) \div 2
  BY <1>1, <1>a, Zenon
<1>5. PICK b \in Nat : b = t[mid + 1]
  BY <1>b, <1>d, Zenon
<1>6. Middle(t) \in Nat /\ (Ascending(t) => Middle(t) <= b)
  <2>1. CASE n % 2 = 1
    <3>1. Middle(t) = b
      BY <1>4, <1>5, <2>1, Zenon
    <3> QED BY <3>1
  <2>2. CASE n % 2 # 1
    <3>0. mid \in 1 .. n /\ mid < mid + 1
      BY <1>c, <2>2, Zenon
    <3>1. PICK a \in Nat : a = t[mid]
      BY <1>d, <3>0, Zenon
    <3>2. Middle(t) = (a + b + 1) \div 2
      BY <1>4, <1>5, <2>2, <3>1, Zenon
    <3>3. Ascending(t) => a <= b
      BY <1>2, <1>b, <1>5, <3>0, <3>1, Zenon
    <3>4. (a + b + 1) \div 2 \in Nat /\ (a <= b => (a + b + 1) \div 2 <= b)
      OBVIOUS
    <3> QED BY <3>2, <3>3, <3>4
  <2> QED BY <2>1, <2>2
<1>7. ASSUME Ascending(t), NEW j \in mid + 1 .. n PROVE j \in 1 .. n /\ t[j] >= Middle(t)
  <2>1. j \in 1 .. n /\ (j = mid + 1 \/ mid + 1 < j)
    BY <1>0, <1>3
  <2>2. t[j] \in Nat /\ t[j] >= b
    BY <1>0, <1>2, <1>3, <1>5, <1>7, <2>1
  <2> QED BY <1>6, <1>7, <2>1, <2>2
<1>8. Ascending(t) =>
        \E k \in Nat : /\ IsFiniteSet(k + 1 .. n) /\ n <= 2 * Cardinality(k + 1 .. n)
                       /\ \A j \in k + 1 .. n : j \in 1 .. n /\ t[j] >= Middle(t)
  <2>2. Ascending(t) => \A j \in mid + 1 .. n : j \in 1 .. n /\ t[j] >= Middle(t)
    BY <1>7, Zenon
  <2> QED BY <1>3, <2>2, Zenon
<1> QED BY <1>6, <1>8, Zenon DEF n

\* The median is taken of their sorted values.
LEMMA MedianIs ==
  ASSUME NEW order, NEW quorum \in Nat \ {0}, NEW results,
         MedianDue(results, quorum),
         NEW n, n = Cardinality(Succeeded(results)),
         NEW t, t = Sort(order, Values(results))
  PROVE  /\ Succeeded(results) \in SUBSET Nat /\ IsFiniteSet(Succeeded(results))
         /\ n \in Nat /\ n # 0
         /\ Values(results) \in Seq(Nat) /\ Len(Values(results)) = n
         /\ \A k \in 1 .. n : Values(results)[k] = results[Place(Succeeded(results), k)].value
         /\ t \in Seq(Nat) /\ Len(t) = n
         /\ GetMedian(order, quorum, results) = Decided(Middle(t))
<1> DEFINE at == Succeeded(results)
<1>0. /\ DOMAIN results \in SUBSET Nat /\ IsFiniteSet(DOMAIN results)
      /\ \A i \in DOMAIN results : results[i].weight \in Nat
      /\ \A i \in at : results[i].value \in Nat
      /\ Weigh(results, at) >= quorum
  BY DEF MedianDue
<1>1. at \in SUBSET Nat /\ IsFiniteSet(at)
  BY <1>0, FS_Subset DEF Succeeded
<1>2. n \in Nat /\ n # 0
  <2>1. at # {}
    <3>1. SUFFICES ASSUME at = {} PROVE FALSE
      OBVIOUS
    <3>2. Votes(results, at) = {}
      BY <3>1 DEF Votes
    <3>3. Weigh(results, at) = 0
      BY <3>2, FS_EmptySet DEF Weigh
    <3> QED BY <1>0, <3>3
  <2> HIDE DEF at
  <2> QED BY <1>1, <2>1, FS_CardinalityType, FS_EmptySet DEF at
<1>3. /\ Values(results) \in Seq(Nat) /\ Len(Values(results)) = n
      /\ \A k \in 1 .. n : Values(results)[k] = results[Place(at, k)].value
  <2>1. \A k \in 1 .. n : results[Place(at, k)].value \in Nat
    <3>1. \A k \in 1 .. n : Place(at, k) \in at
      <4>1. n = Cardinality(at)
        OBVIOUS
      <4> HIDE DEF at
      <4> QED BY <1>1, <4>1, PlacesExist
    <3> QED BY <1>0, <3>1
  <2>2. Values(results) = [k \in 1 .. n |-> results[Place(at, k)].value]
    BY DEF Values
  <2> HIDE DEF at
  <2> QED BY <1>2, <2>1, <2>2
<1>4. t \in Seq(Nat) /\ Len(t) = n
  BY <1>3, SortArranges DEF Arranges
<1>5. GetMedian(order, quorum, results) = Decided(Middle(t))
  <2>1. Succeeded(results) \in SUBSET DOMAIN results
    BY DEF Succeeded
  <2>2. Weigh(results, Succeeded(results)) \in Nat
    BY <1>0, <2>1, WeighGrows
  <2>3. ~(Weigh(results, Succeeded(results)) < quorum)
    BY <1>0, <2>2
  <2>4. GetMedian(order, quorum, results) =
          IF Len(t) % 2 = 1 THEN Decided(t[Len(t) \div 2 + 1])
          ELSE Decided((t[Len(t) \div 2] + t[Len(t) \div 2 + 1] + 1) \div 2)
    BY <2>3 DEF GetMedian
  <2> QED BY <2>4, Zenon DEF Middle
<1> QED BY <1>1, <1>2, <1>3, <1>4, <1>5

\* The same, without names for the positions and the list.
LEMMA MedianValue ==
  ASSUME NEW order, NEW quorum \in Nat \ {0}, NEW results, MedianDue(results, quorum)
  PROVE  /\ Cardinality(Succeeded(results)) \in Nat /\ Cardinality(Succeeded(results)) # 0
         /\ Values(results) \in Seq(Nat) /\ Len(Values(results)) = Cardinality(Succeeded(results))
         /\ Sort(order, Values(results)) \in Seq(Nat)
         /\ Len(Sort(order, Values(results))) = Cardinality(Succeeded(results))
         /\ GetMedian(order, quorum, results) = Decided(Middle(Sort(order, Values(results))))
<1> DEFINE n == Cardinality(Succeeded(results))
           t == Sort(order, Values(results))
<1>1. n = Cardinality(Succeeded(results)) /\ t = Sort(order, Values(results))
  OBVIOUS
<1> HIDE DEF n, t
<1>2. GetMedian(order, quorum, results) = Decided(Middle(t))
  BY <1>1, MedianIs
<1>3. n \in Nat /\ n # 0 /\ t \in Seq(Nat) /\ Len(t) = n
  BY <1>1, MedianIs
<1>4. Values(results) \in Seq(Nat) /\ Len(Values(results)) = n
  BY <1>1, MedianIs
<1> QED BY <1>2, <1>3, <1>4, Zenon DEF n, t

\* A median of numbers is a number.
LEMMA MedianIsNat ==
  ASSUME NEW order, NEW quorum \in Nat \ {0}, NEW results, MedianDue(results, quorum)
  PROVE  /\ GetMedian(order, quorum, results).decided
         /\ GetMedian(order, quorum, results).value \in Nat
<1> DEFINE t == Sort(order, Values(results))
<1>1. t \in Seq(Nat) /\ Len(t) # 0
  BY MedianValue, Zenon
<1>2. GetMedian(order, quorum, results) = Decided(Middle(t))
  BY MedianValue, Zenon
<1> HIDE DEF t
<1>3. Middle(t) \in Nat
  BY <1>1, MiddleIs
<1> QED BY <1>2, <1>3 DEF Decided

\* Two facts about naturals.
LEMMA Doubled ==
  ASSUME NEW a \in Nat, NEW b \in Nat, NEW c \in Nat, NEW d \in Nat,
         a <= 2 * b, b <= c, c <= d
  PROVE  a <= 2 * d
OBVIOUS

LEMMA OneOf ==
  ASSUME NEW w \in Nat, w # 0
  PROVE  1 \in 1 .. w
OBVIOUS

\* When the values are sorted, half of those that succeeded, rounded up, have at
\* least the median.
LEMMA MedianIsBacked ==
  ASSUME NEW quorum \in Nat \ {0}, NEW results, MedianDue(results, quorum),
         \A i \in DOMAIN results : results[i].weight # 0,
         NEW m, GetMedian("item first", quorum, results) = Decided(m),
         NEW near, near = {i \in Succeeded(results) : results[i].value >= m}
  PROVE  Cardinality(Succeeded(results)) <= 2 * Weigh(results, near)
<1> DEFINE at == Succeeded(results)
           n == Cardinality(at)
           values == Values(results)
           t == Sort("item first", values)
<1>1. at = Succeeded(results) /\ n = Cardinality(at) /\ values = Values(results)
      /\ t = Sort("item first", values)
  OBVIOUS
<1>2. /\ IsFiniteSet(at) /\ at \in SUBSET DOMAIN results
      /\ \A i \in DOMAIN results : results[i].weight \in Nat
  BY FS_Subset DEF MedianDue, Succeeded
<1> HIDE DEF at, n, values, t
<1>3. /\ at \in SUBSET Nat
      /\ n \in Nat /\ n # 0 /\ t \in Seq(Nat) /\ Len(t) = n
      /\ values \in Seq(Nat) /\ Len(values) = n
  <2>1. n = Cardinality(Succeeded(results)) /\ t = Sort("item first", Values(results))
    BY <1>1
  <2>2. Succeeded(results) \in SUBSET Nat
    BY DEF MedianDue, Succeeded
  <2>3. n \in Nat /\ n # 0 /\ t \in Seq(Nat) /\ Len(t) = n
    BY <2>1, MedianValue, Zenon
  <2>4. Values(results) \in Seq(Nat) /\ Len(Values(results)) = n
    BY <2>1, MedianValue, Zenon
  <2> QED BY <1>1, <2>2, <2>3, <2>4, Zenon
<1>4. /\ \A k \in 1 .. n : values[k] = results[Place(at, k)].value
      /\ GetMedian("item first", quorum, results) = Decided(Middle(t))
  <2>1. n = Cardinality(Succeeded(results)) /\ t = Sort("item first", Values(results))
    BY <1>1
  <2>2. \A k \in 1 .. n : Values(results)[k] = results[Place(Succeeded(results), k)].value
    BY <2>1, MedianIs
  <2>3. GetMedian("item first", quorum, results) = Decided(Middle(t))
    BY <2>1, MedianValue, Zenon
  <2> QED BY <1>1, <2>2, <2>3, Zenon
<1>5. m = Middle(t)
  <2>1. Decided(m) = Decided(Middle(t))
    BY <1>4, Zenon
  <2> QED BY <2>1 DEF Decided
<1>6. Arranges(t, values, n) /\ Ascending(t)
  BY <1>1, <1>3, SortArranges
<1>7. PICK p \in [1 .. n -> 1 .. n] : /\ \A i, j \in 1 .. n : p[i] = p[j] => i = j
                                     /\ \A j \in 1 .. n : t[j] = values[p[j]]
  BY <1>6 DEF Arranges
<1>8. \A k \in 1 .. n : Place(at, k) \in at /\ Cardinality({j \in at : j <= Place(at, k)}) = k
  BY <1>1, <1>2, <1>3, PlacesExist
<1>9. near \in SUBSET at /\ IsFiniteSet(near) /\ \A i \in at : results[i].value >= m => i \in near
  <2>1. near \in SUBSET at /\ \A i \in at : results[i].value >= m => i \in near
    BY <1>1
  <2> QED BY <1>2, <2>1, FS_Subset
<1>10. PICK mid \in Nat : /\ IsFiniteSet(mid + 1 .. n) /\ n <= 2 * Cardinality(mid + 1 .. n)
                         /\ \A j \in mid + 1 .. n : j \in 1 .. n /\ t[j] >= m
  <2>1. Len(t) # 0
    BY <1>3
  <2>2. \E mid \in Nat : /\ IsFiniteSet(mid + 1 .. Len(t))
                         /\ Len(t) <= 2 * Cardinality(mid + 1 .. Len(t))
                         /\ \A j \in mid + 1 .. Len(t) : j \in 1 .. Len(t) /\ t[j] >= Middle(t)
    BY <1>3, <1>6, <2>1, MiddleIs
  <2> QED BY <1>3, <1>5, <2>2, Zenon
<1> DEFINE upper == mid + 1 .. n
           f == [j \in upper |-> Place(at, p[j])]
           g == [i \in near |-> <<i, 1>>]
           votes == Votes(results, near)
<1>11. IsFiniteSet(upper) /\ n <= 2 * Cardinality(upper)
       /\ \A j \in upper : j \in 1 .. n /\ p[j] \in 1 .. n /\ t[j] >= m
  BY <1>7, <1>10
<1>12. f \in Injection(upper, near)
  <2> HIDE DEF upper
  <2>1. ASSUME NEW j \in upper
        PROVE  f[j] \in near /\ Cardinality({i \in at : i <= f[j]}) = p[j]
    <3>1. f[j] = Place(at, p[j])
      OBVIOUS
    <3> HIDE DEF f
    <3>2. f[j] \in at /\ Cardinality({i \in at : i <= f[j]}) = p[j]
      BY <1>8, <1>11, <3>1
    <3>3. results[f[j]].value = t[j]
      BY <1>4, <1>7, <1>11, <3>1, Zenon
    <3> QED BY <1>9, <1>11, <3>2, <3>3
  <2>2. f = [j \in upper |-> f[j]]
    OBVIOUS
  <2> HIDE DEF f
  <2>3. f \in [upper -> near]
    BY <2>1, <2>2
  <2>4. \A i, j \in upper : f[i] = f[j] => i = j
    <3>1. \A i, j \in upper : f[i] = f[j] => p[i] = p[j]
      BY <2>1
    <3>2. \A i, j \in 1 .. n : p[i] = p[j] => i = j
      BY <1>7
    <3>3. \A j \in upper : j \in 1 .. n
      BY <1>11
    <3> QED BY <3>1, <3>2, <3>3, Zenon
  <2> QED BY <2>3, <2>4 DEF Injection, IsInjective
<1>13. \A i \in near : results[i].weight \in Nat
  BY <1>2, <1>9
<1>14. g \in Injection(near, votes)
  <2>1. ASSUME NEW i \in near PROVE <<i, 1>> \in votes
    <3>1. results[i].weight \in Nat /\ results[i].weight # 0
      BY <1>2, <1>9
    <3>2. 1 \in 1 .. results[i].weight
      BY <3>1, OneOf
    <3>3. <<i, 1>> \in {i} \X (1 .. results[i].weight)
      BY <3>2
    <3> QED BY <3>3 DEF Votes
  <2> HIDE DEF votes
  <2> QED BY <2>1 DEF Injection, IsInjective
<1>15. IsFiniteSet(votes)
  BY <1>9, <1>13, VotesAreFinite
<1> HIDE DEF upper, f, g, votes
<1>16. Cardinality(upper) <= Cardinality(near)
  BY <1>9, <1>12, FS_Injection
<1>17. Cardinality(near) <= Cardinality(votes)
  BY <1>14, <1>15, FS_Injection
<1>18. Cardinality(upper) \in Nat /\ Cardinality(near) \in Nat /\ Cardinality(votes) \in Nat
  BY <1>9, <1>11, <1>15, FS_CardinalityType
<1>19. n <= 2 * Cardinality(votes)
  <2>1. n \in Nat /\ n <= 2 * Cardinality(upper)
    BY <1>3, <1>11
  <2> QED BY <1>16, <1>17, <1>18, <2>1, Doubled, Zenon
<1> QED BY <1>1, <1>19 DEF votes, Weigh

-----------------------------------------------------------------------------
(* The block number *)

\* The providers are numbered, and some votes make a quorum.
LEMMA ConfigsAreNats ==
  /\ Configs \in SUBSET Nat /\ IsFiniteSet(Configs)
  /\ Quorum \in Nat \ {0}
  /\ Weigh([c \in Configs |-> [weight |-> Weight[c]]], Configs) \in Nat
  /\ Weigh([c \in Configs |-> [weight |-> Weight[c]]], Configs) >= Quorum
<1> DEFINE rows == [c \in Configs |-> [weight |-> Weight[c]]]
<1>1. Cardinality(Configs) \in Nat /\ IsFiniteSet(Configs)
  BY HeightAssumption, FS_CardinalityType
<1>2. Configs \in SUBSET Nat
  BY <1>1, HeightAssumption
<1>3. \A c \in Configs : rows[c].weight \in Nat
  BY HeightAssumption
<1>4. Weigh(rows, Configs) \in Nat
  <2> HIDE DEF rows
  <2> QED BY <1>1, <1>3, WeighGrows
<1>5. Quorum \in 1 .. Weigh(rows, Configs)
  BY HeightAssumption DEF Weigh
<1> HIDE DEF rows
<1>6. Quorum \in Nat \ {0} /\ Weigh(rows, Configs) >= Quorum
  BY <1>4, <1>5
<1> QED BY <1>1, <1>2, <1>4, <1>6 DEF rows

Reach(v) == {c \in Configs : head[c] >= v - 1}
Backed(v) == Weigh([c \in Configs |-> [weight |-> Weight[c]]], Reach(v)) >= Quorum

\* #height is the median of the initial synchronisation until answers worth a
\* quorum raise it.
HeightInv ==
  /\ head \in [Configs -> 0 .. MaxHead]
  /\ blockNumber \in [Configs -> Int]
  /\ height = Unset => answer = Unset
  /\ height # Unset => Synced /\ (height = BootstrapHeight \/ (height \in Int /\ Backed(height)))
  /\ answer # Unset => answer = BootstrapHeight \/ (answer \in Int /\ Backed(answer))

\* Heads only grow.
LEMMA BackedStays ==
  ASSUME head \in [Configs -> 0 .. MaxHead], head' \in [Configs -> 0 .. MaxHead],
         \A c \in Configs : head[c] <= head'[c], NEW v \in Int, Backed(v)
  PROVE  Backed(v)'
<1> DEFINE rows == [c \in Configs |-> [weight |-> Weight[c]]]
<1>1. Reach(v) \subseteq Reach(v)'
  BY DEF Reach
<1>2. Reach(v)' \in SUBSET Configs /\ IsFiniteSet(Configs)
  BY HeightAssumption DEF Reach
<1>3. IsFiniteSet(Reach(v)') /\ \A c \in Reach(v)' : rows[c].weight \in Nat
  BY <1>2, HeightAssumption, FS_Subset
<1> DEFINE S == Reach(v)
           T == Reach(v)'
<1> HIDE DEF rows
<1>4. /\ Weigh(rows, Reach(v)) \in Nat /\ Weigh(rows, Reach(v)') \in Nat
      /\ Weigh(rows, Reach(v)) <= Weigh(rows, Reach(v)')
  BY <1>1, <1>3, WeighGrows
<1>5. Quorum \in Int
  BY HeightAssumption
<1> QED BY <1>4, <1>5 DEF Backed, rows

\* What a request decides on is backed, unless the quorum is 1: then its median is
\* if the engine sorts and every provider has a vote.
MedianSound == SortOrder = "item first" /\ \A c \in Configs : Weight[c] # 0

LEMMA ModeIsBacked ==
  ASSUME head \in [Configs -> 0 .. MaxHead], Quorum # 1 \/ MedianSound,
         NEW S \in SUBSET Configs \ {{}}, NEW answers \in Collected(S),
         NEW results, results = [c \in DOMAIN answers |-> Row(c, answers[c])],
         ~Unreadable(results), NEW mode, mode = GetFuzzyMode(SortOrder, Quorum, results),
         mode.decided
  PROVE  mode.value \in Int /\ Backed(mode.value)
<1>1. DOMAIN results = S /\ S \in SUBSET Configs
      /\ \A c \in S : answers[c] \in (0 .. head[c]) \cup {Failed} /\ head[c] \in 0 .. MaxHead
  BY DEF Collected, Reported
<1>2. S \in SUBSET Nat /\ IsFiniteSet(S) /\ Quorum \in Nat \ {0} /\ MaxHead \in Nat
  BY <1>1, ConfigsAreNats, FS_Subset, HeightAssumption
<1>3. \A c \in S : /\ results[c].weight = Weight[c] /\ Weight[c] \in Nat
                   /\ results[c].value = answers[c] /\ results[c].error = (answers[c] = Failed)
  BY <1>1, HeightAssumption DEF Row
<1>4. Succeeded(results) \in SUBSET S
      /\ \A c \in Succeeded(results) : results[c].value \in 0 .. head[c]
  BY <1>1, <1>3 DEF Succeeded
<1>5. \A c \in Succeeded(results) : results[c].value \in 0 .. MaxHead
  <2>1. \A m \in 0 .. MaxHead : \A k \in 0 .. m : k \in 0 .. MaxHead
    BY <1>2
  <2> QED BY <1>1, <1>4, <2>1
<1>6. ASSUME NEW near \in SUBSET S, NEW m \in Int, near \subseteq Reach(m), Weigh(results, near) >= Quorum
      PROVE  Backed(m)
  <2> DEFINE rows == [c \in Configs |-> [weight |-> Weight[c]]]
             reach == Reach(m)
  <2>1. Weigh(results, near) = Weigh(rows, near)
    <3>1. \A c \in near : results[c].weight = rows[c].weight
      BY <1>1, <1>3
    <3> HIDE DEF rows
    <3>2. Votes(results, near) = Votes(rows, near)
      BY <3>1 DEF Votes
    <3> QED BY <3>2 DEF Weigh
  <2>2. IsFiniteSet(reach) /\ \A c \in reach : rows[c].weight \in Nat
    <3>1. reach \in SUBSET Configs
      BY DEF Reach
    <3> QED BY <3>1, HeightAssumption, FS_Subset
  <2>3. near \in SUBSET reach
    BY <1>6
  <2> HIDE DEF rows, reach
  <2>4. /\ Weigh(rows, near) \in Nat /\ Weigh(rows, reach) \in Nat
        /\ Weigh(rows, near) <= Weigh(rows, reach)
    BY <2>2, <2>3, WeighGrows
  <2>5. Weigh(rows, reach) >= Quorum
    BY <1>2, <1>6, <2>1, <2>4
  <2> QED BY <2>5 DEF Backed, rows, reach
<1>7. CASE Quorum # 1
  <2>1. Succeeded(results) = S
    BY <1>1, <1>7 DEF Unreadable
  <2>2. \A c \in S : results[c].value \in 0 .. MaxHead /\ results[c].weight \in Nat
    BY <1>3, <1>5, <2>1
  <2>3. mode.value \in Int /\ Weigh(results, Near(results, mode.value)) >= Quorum
    BY <1>1, <1>2, <1>7, <2>2, FuzzyModeHasQuorum
  <2> DEFINE near == Near(results, mode.value)
  <2>4. near \in SUBSET S /\ \A c \in near : results[c].value \in mode.value - 1 .. mode.value + 1
    BY <1>1 DEF Near, Around
  <2>5. near \subseteq Reach(mode.value)
    BY <1>1, <1>4, <2>1, <2>3, <2>4 DEF Reach
  <2> HIDE DEF near
  <2> QED BY <1>6, <2>3, <2>4, <2>5 DEF near
<1>8. CASE Quorum = 1 /\ MedianSound
  <2>1. mode = GetMedian("item first", Quorum, results)
    BY <1>8 DEF GetFuzzyMode, MedianSound
  <2>2. MedianDue(results, Quorum)
    <3>1. \A c \in S : results[c].weight \in Nat
      BY <1>3
    <3>2. Weigh(results, Succeeded(results)) \in Nat
      BY <1>2, <1>4, <3>1, WeighGrows
    <3>3. Weigh(results, Succeeded(results)) >= Quorum
      BY <1>2, <1>8, <3>2 DEF Unreadable
    <3>4. \A c \in Succeeded(results) : results[c].value \in Nat
      BY <1>5
    <3> QED BY <1>1, <1>2, <3>1, <3>3, <3>4 DEF MedianDue
  <2>3. GetMedian("item first", Quorum, results).value \in Nat
    BY <1>2, <2>2, MedianIsNat
  <2>4. PICK m \in Nat : m = mode.value
    BY <2>1, <2>3
  <2> DEFINE near == {c \in Succeeded(results) : results[c].value >= m}
             n == Cardinality(Succeeded(results))
  <2>5. n <= 2 * Weigh(results, near)
    <3>1. \A c \in DOMAIN results : results[c].weight # 0
      <4>1. \A c \in Configs : Weight[c] # 0
        BY <1>8, Zenon DEF MedianSound
      <4> QED BY <1>1, <1>3, <4>1
    <3>2. GetMedian("item first", Quorum, results) = Decided(m)
      <4>1. \E t : GetMedian("item first", Quorum, results) = Decided(t)
        BY <1>2, <2>2, MedianValue
      <4> QED BY <2>1, <2>4, <4>1 DEF Decided
    <3>3. near = {c \in Succeeded(results) : results[c].value >= m}
      OBVIOUS
    <3> HIDE DEF near
    <3> QED BY <1>2, <2>2, <3>1, <3>2, <3>3, MedianIsBacked
  <2>6. n \in Nat /\ n # 0
    BY <1>2, <2>2, MedianValue, Zenon
  <2>7. near \in SUBSET S /\ near \subseteq Reach(m)
    <3>1. \A c \in near : c \in S /\ results[c].value >= m /\ results[c].value \in 0 .. head[c]
      BY <1>4
    <3> QED BY <1>1, <3>1 DEF Reach
  <2>8. Weigh(results, near) >= Quorum
    <3>1. Weigh(results, near) \in Nat
      <4>1. \A c \in S : results[c].weight \in Nat
        BY <1>3
      <4> HIDE DEF near
      <4> QED BY <1>2, <2>7, <4>1, WeighGrows
    <3> HIDE DEF near, n
    <3> QED BY <1>8, <2>5, <2>6, <3>1
  <2> HIDE DEF near
  <2>9. Backed(m)
    BY <1>6, <2>4, <2>7, <2>8
  <2> QED BY <2>4, <2>9
<1> QED BY <1>7, <1>8

\* Every step keeps HeightInv.
LEMMA HeightInvStep == Quorum # 1 /\ HeightInv /\ [Next]_vars => HeightInv'
<1> SUFFICES ASSUME Quorum # 1, HeightInv, [Next]_vars PROVE HeightInv'
  OBVIOUS
<1>1. ASSUME NEW c \in Configs, Mine(c) PROVE HeightInv'
  <2>1. /\ head' = [head EXCEPT ![c] = head[c] + 1] /\ head[c] < MaxHead
        /\ UNCHANGED <<blockNumber, height, answer>>
    BY <1>1 DEF Mine
  <2>2. head' \in [Configs -> 0 .. MaxHead] /\ \A d \in Configs : head[d] <= head'[d]
    BY <2>1, HeightAssumption DEF HeightInv
  <2>3. \A v \in Int : Backed(v) => Backed(v)'
    BY <2>2, BackedStays DEF HeightInv
  <2>4. BootstrapHeight' = BootstrapHeight /\ (Synced' <=> Synced)
    BY <2>1 DEF BootstrapHeight, Synced, Row
  <2>5. \A h : (h = height \/ h = answer) /\ h \in Int /\ Backed(h) => Backed(h)'
    BY <2>3
  <2>6. height \in Int /\ Backed(height) => Backed(height)'
    BY <2>1, <2>5
  <2>7. answer \in Int /\ Backed(answer) => Backed(answer)'
    BY <2>1, <2>5
  <2> QED BY <2>1, <2>2, <2>4, <2>6, <2>7 DEF HeightInv
<1>2. ASSUME NEW c \in Configs, WaitForSync(c) PROVE HeightInv'
  <2>1. PICK b \in Reported(c) : blockNumber' = [blockNumber EXCEPT ![c] = b]
    BY <1>2 DEF WaitForSync
  <2>2. b \in Int /\ blockNumber' \in [Configs -> Int]
    BY <2>1 DEF HeightInv, Reported
  <2>3. UNCHANGED <<head, height, answer>> /\ blockNumber[c] < 0
    BY <1>2 DEF WaitForSync
  <2>4. height = Unset /\ answer = Unset
    BY <2>3 DEF HeightInv, Synced
  <2> QED BY <2>2, <2>3, <2>4 DEF HeightInv
<1>3. ASSUME NEW S \in SUBSET Configs \ {{}}, NEW answers \in Collected(S),
             GetBlockNumber(answers)
      PROVE  HeightInv'
  <2> DEFINE results == [c \in DOMAIN answers |-> Row(c, answers[c])]
             base == IF height = Unset THEN BootstrapHeight ELSE height
             mode == GetFuzzyMode(SortOrder, Quorum, results)
             settled == ~Unreadable(results) /\ mode.decided
  <2>1. /\ Synced /\ UNCHANGED <<head, blockNumber>>
        /\ IF settled THEN height' = Raise(base, mode.value) /\ answer' = height'
           ELSE height' = base /\ answer' = answer
    BY <1>3 DEF GetBlockNumber
  <2>3. settled => mode.value \in Int /\ Backed(mode.value)
    <3>1. head \in [Configs -> 0 .. MaxHead]
      BY DEF HeightInv
    <3>2. results = [c \in DOMAIN answers |-> Row(c, answers[c])]
      OBVIOUS
    <3>3. mode = GetFuzzyMode(SortOrder, Quorum, results) /\ (settled => ~Unreadable(results) /\ mode.decided)
      OBVIOUS
    <3> HIDE DEF results, mode
    <3> QED BY <3>1, <3>2, <3>3, ModeIsBacked
  <2> HIDE DEF results, mode
  <2>4. base = BootstrapHeight \/ (base \in Int /\ Backed(base))
    BY DEF HeightInv
  <2>5. settled => height' = base \/ height' = mode.value
    BY <2>1 DEF Raise
  <2>6. height' = BootstrapHeight \/ (height' \in Int /\ Backed(height'))
    BY <2>1, <2>3, <2>4, <2>5
  <2>7. BootstrapHeight' = BootstrapHeight /\ Synced' /\ head' = head
    BY <2>1 DEF BootstrapHeight, Synced, Row
  <2>8. \A v : Reach(v)' = Reach(v)
    BY <2>7 DEF Reach
  <2>9. \A v \in Int : Backed(v) => Backed(v)'
    BY <2>8 DEF Backed
  <2>10. height' = Unset => answer' = Unset
    BY <2>1 DEF HeightInv
  <2> QED BY <2>1, <2>6, <2>7, <2>8, <2>10 DEF HeightInv, Backed
<1>4. CASE UNCHANGED vars
  BY <1>4 DEF vars, HeightInv, BootstrapHeight, Synced, Row, Backed, Reach
<1> QED BY <1>1, <1>2, <1>3, <1>4 DEF Next

\* With a quorum of more than one, whatever the weights and the way the engine
\* sorts: a number getBlockNumber returns is the median of the initial
\* synchronisation, or answers worth a quorum were within a block of it.
THEOREM HeightRaisedByQuorum ==
  ASSUME Quorum # 1
  PROVE  Spec => [](AnswerBackedByQuorum \/ answer = BootstrapHeight)
<1>1. Init => HeightInv
  BY HeightAssumption DEF Init, HeightInv, Unset
<1>2. HeightInv => AnswerBackedByQuorum \/ answer = BootstrapHeight
  BY HeightAssumption DEF HeightInv, AnswerBackedByQuorum, Heights, Unset, Backed, Reach
<1> QED BY <1>1, <1>2, HeightInvStep, PTL DEF Spec

-----------------------------------------------------------------------------
(* The block number never goes back *)

\* #height is a number once it is set, and answers do not exceed it.
RiseInv ==
  /\ head \in [Configs -> Nat]
  /\ blockNumber \in [Configs -> Int]
  /\ height \in Int /\ answer \in Int /\ answer <= height /\ Unset <= height
  /\ height # Unset => Synced

\* The first #height is a number ...
LEMMA BootstrapIsNat ==
  ASSUME RiseInv, Synced
  PROVE  BootstrapHeight \in Nat
<1> DEFINE rows == [c \in Configs |-> Row(c, blockNumber[c])]
<1>1. Configs \in SUBSET Nat /\ IsFiniteSet(Configs) /\ Quorum \in Nat \ {0} /\ DOMAIN rows = Configs
  BY ConfigsAreNats
<1>2. \A c \in Configs : /\ rows[c].weight = Weight[c] /\ Weight[c] \in Nat
                         /\ rows[c].value = blockNumber[c] /\ blockNumber[c] \in Nat
                         /\ ~rows[c].error
  <2>1. \A c \in Configs : blockNumber[c] \in Nat /\ blockNumber[c] # Failed /\ Weight[c] \in Nat
    BY HeightAssumption DEF RiseInv, Synced
  <2> QED BY <2>1 DEF Row
<1>3. Succeeded(rows) = Configs
  BY <1>2 DEF Succeeded
<1>4. Weigh(rows, Succeeded(rows)) >= Quorum
  <2>1. Votes(rows, Configs) = Votes([c \in Configs |-> [weight |-> Weight[c]]], Configs)
    BY <1>2 DEF Votes
  <2>2. Weigh(rows, Configs) = Weigh([c \in Configs |-> [weight |-> Weight[c]]], Configs)
    BY <2>1 DEF Weigh
  <2> QED BY <1>3, <2>2, ConfigsAreNats
<1>5. GetMedian(SortOrder, Quorum, rows).value \in Nat
  <2> HIDE DEF rows
  <2>1. MedianDue(rows, Quorum)
    BY <1>1, <1>2, <1>3, <1>4 DEF MedianDue
  <2> QED BY <1>1, <2>1, MedianIsNat
<1> QED BY <1>5 DEF BootstrapHeight

\* ... and so is what a request decides on.
LEMMA ModeIsInt ==
  ASSUME RiseInv, NEW S \in SUBSET Configs \ {{}}, NEW answers \in Collected(S),
         ~Unreadable([c \in DOMAIN answers |-> Row(c, answers[c])]),
         GetFuzzyMode(SortOrder, Quorum, [c \in DOMAIN answers |-> Row(c, answers[c])]).decided
  PROVE  GetFuzzyMode(SortOrder, Quorum, [c \in DOMAIN answers |-> Row(c, answers[c])]).value \in Int
<1> DEFINE rows == [c \in DOMAIN answers |-> Row(c, answers[c])]
<1>1. /\ S \subseteq Configs /\ DOMAIN answers = S /\ DOMAIN rows = S /\ S \in SUBSET Nat /\ IsFiniteSet(S)
      /\ Quorum \in Nat \ {0} /\ MaxHead \in Nat
  <2>1. DOMAIN answers = S /\ S \in SUBSET Configs /\ MaxHead \in Nat
    BY HeightAssumption DEF Collected
  <2>2. S \in SUBSET Nat /\ IsFiniteSet(S) /\ Quorum \in Nat \ {0}
    BY <2>1, ConfigsAreNats, FS_Subset
  <2> QED BY <2>1, <2>2
<1>2. \A c \in S : /\ rows[c].weight = Weight[c] /\ Weight[c] \in Nat
                   /\ rows[c].value = answers[c] /\ rows[c].error = (answers[c] = Failed)
                   /\ answers[c] \in (0 .. MaxHead) \cup {Failed}
  BY <1>1, HeightAssumption DEF Row, Collected
<1>3. \A c \in Succeeded(rows) : c \in S /\ rows[c].value \in 0 .. MaxHead
  BY <1>1, <1>2 DEF Succeeded
<1>4. ~Unreadable(rows) /\ GetFuzzyMode(SortOrder, Quorum, rows).decided
  OBVIOUS
<1> HIDE DEF rows
<1>5. CASE Quorum = 1
  <2>1. Weigh(rows, Succeeded(rows)) # 0
    BY <1>4, <1>5 DEF Unreadable
  <2>2. Weigh(rows, Succeeded(rows)) \in Nat
    BY <1>1, <1>2, <1>3, WeighGrows
  <2>3. GetMedian(SortOrder, Quorum, rows).value \in Nat
    <3>1. \A c \in Succeeded(rows) : rows[c].value \in Nat
      BY <1>3
    <3>2. \A c \in S : rows[c].weight \in Nat
      BY <1>2
    <3>3. Weigh(rows, Succeeded(rows)) >= Quorum
      BY <1>5, <2>1, <2>2
    <3>4. MedianDue(rows, Quorum)
      BY <1>1, <3>1, <3>2, <3>3 DEF MedianDue
    <3> QED BY <1>1, <3>4, MedianIsNat
  <2>4. GetFuzzyMode(SortOrder, Quorum, rows) = GetMedian(SortOrder, Quorum, rows)
    BY <1>5 DEF GetFuzzyMode
  <2> QED BY <2>3, <2>4 DEF rows
<1>6. CASE Quorum # 1
  <2>1. Succeeded(rows) = S
    BY <1>1, <1>4, <1>6 DEF Unreadable
  <2>2. \A c \in S : rows[c].value \in 0 .. MaxHead /\ rows[c].weight \in Nat
    BY <1>2, <1>3, <2>1
  <2>3. GetFuzzyMode(SortOrder, Quorum, rows).value \in Int
    BY <1>1, <1>4, <1>6, <2>2, FuzzyModeHasQuorum
  <2> QED BY <2>3 DEF rows
<1> QED BY <1>5, <1>6

\* No step lowers the answer.
LEMMA RiseStep == RiseInv /\ [Next]_vars => RiseInv' /\ [answer' >= answer]_vars
<1> SUFFICES ASSUME RiseInv, [Next]_vars PROVE RiseInv' /\ answer' >= answer
  OBVIOUS
<1>1. ASSUME NEW c \in Configs, Mine(c) PROVE RiseInv' /\ answer' >= answer
  <2>1. head' = [head EXCEPT ![c] = head[c] + 1] /\ UNCHANGED <<blockNumber, height, answer>>
    BY <1>1 DEF Mine
  <2>2. head' \in [Configs -> Nat]
    BY <2>1 DEF RiseInv
  <2>3. Synced' = Synced
    BY <2>1 DEF Synced
  <2> QED BY <2>1, <2>2, <2>3 DEF RiseInv, Unset
<1>2. ASSUME NEW c \in Configs, WaitForSync(c) PROVE RiseInv' /\ answer' >= answer
  <2>1. PICK b \in Reported(c) : blockNumber' = [blockNumber EXCEPT ![c] = b]
    BY <1>2 DEF WaitForSync
  <2>2. b \in Int /\ blockNumber' \in [Configs -> Int]
    BY <2>1 DEF RiseInv, Reported
  <2>3. UNCHANGED <<head, height, answer>> /\ blockNumber[c] < 0
    BY <1>2 DEF WaitForSync
  <2>4. height = Unset
    BY <2>3 DEF RiseInv, Synced
  <2> QED BY <2>2, <2>3, <2>4 DEF RiseInv
<1>3. ASSUME NEW S \in SUBSET Configs \ {{}}, NEW answers \in Collected(S),
             GetBlockNumber(answers)
      PROVE  RiseInv' /\ answer' >= answer
  <2> DEFINE results == [c \in DOMAIN answers |-> Row(c, answers[c])]
             base == IF height = Unset THEN BootstrapHeight ELSE height
             mode == GetFuzzyMode(SortOrder, Quorum, results)
             settled == ~Unreadable(results) /\ mode.decided
  <2>1. /\ Synced /\ UNCHANGED <<head, blockNumber>>
        /\ IF settled THEN height' = Raise(base, mode.value) /\ answer' = height'
           ELSE height' = base /\ answer' = answer
    BY <1>3 DEF GetBlockNumber
  <2>2. base \in Int /\ base >= height
    <3>1. BootstrapHeight \in Nat
      BY <2>1, BootstrapIsNat
    <3> QED BY <3>1 DEF RiseInv, Unset
  <2>3. settled => mode.value \in Int
    BY ModeIsInt
  <2>4. Synced' = Synced
    BY <2>1 DEF Synced
  <2> HIDE DEF results, base, mode, settled
  <2>5. height' \in Int /\ height' >= base /\ (answer' = height' \/ answer' = answer)
    BY <2>1, <2>2, <2>3 DEF Raise
  <2>6. height \in Int /\ answer \in Int /\ answer <= height /\ -2 <= height
    BY DEF RiseInv, Unset
  <2>7. answer' \in Int /\ answer' <= height' /\ -2 <= height' /\ answer' >= answer
    BY <2>2, <2>5, <2>6
  <2> QED BY <2>1, <2>4, <2>5, <2>7 DEF RiseInv, Unset
<1>4. CASE UNCHANGED vars
  BY <1>4 DEF vars, RiseInv, Synced
<1> QED BY <1>1, <1>2, <1>3, <1>4 DEF Next

\* For any providers, weights and quorum and whichever way the engine sorts: the
\* block number returned never goes back from one fulfilled call to the next.
THEOREM AnswersOnlyRise == Spec => AnswersNeverGoBack
<1>1. Init => RiseInv
  BY HeightAssumption DEF Init, RiseInv, Unset
<1>2. Spec => [][answer' >= answer]_vars
  BY <1>1, RiseStep, PTL DEF Spec
<1> QED BY <1>2 DEF AnswersNeverGoBack

-----------------------------------------------------------------------------
(* The median of a majority *)

MajorityInv ==
  /\ head \in [Configs -> 0 .. MaxHead]
  /\ blockNumber \in [Configs -> Int] /\ \A c \in Configs : blockNumber[c] <= head[c]
  /\ height # Unset => height \in Int /\ Backed(height)
  /\ answer # Unset => answer \in Int /\ Backed(answer)

\* Half of the providers, rounded up, are a quorum: so are those that are at or
\* beyond the median of the initial synchronisation.
QuorumIsMinority == 2 * Quorum <= Cardinality(Configs) + 1

\* The first #height has a quorum behind it.
LEMMA BootstrapIsBacked ==
  ASSUME MajorityInv, Synced, MedianSound, QuorumIsMinority
  PROVE  BootstrapHeight \in Int /\ Backed(BootstrapHeight)
<1> DEFINE results == [c \in Configs |-> Row(c, blockNumber[c])]
           rows == [c \in Configs |-> [weight |-> Weight[c]]]
<1>1. Configs \in SUBSET Nat /\ IsFiniteSet(Configs) /\ Quorum \in Nat \ {0} /\ DOMAIN results = Configs
  BY ConfigsAreNats
<1>2. \A c \in Configs : /\ results[c].weight = Weight[c] /\ Weight[c] \in Nat /\ Weight[c] # 0
                         /\ results[c].value = blockNumber[c] /\ blockNumber[c] \in Nat
                         /\ ~results[c].error /\ rows[c].weight = Weight[c]
  <2>1. \A c \in Configs : blockNumber[c] \in Nat /\ blockNumber[c] # Failed /\ Weight[c] \in Nat
    BY HeightAssumption DEF MajorityInv, Synced
  <2>2. \A c \in Configs : Weight[c] # 0
    BY Zenon DEF MedianSound
  <2> QED BY <2>1, <2>2 DEF Row
<1>3. Succeeded(results) = Configs
  BY <1>2 DEF Succeeded
<1>4. \A T \in SUBSET Configs : Weigh(results, T) = Weigh(rows, T)
  <2> SUFFICES ASSUME NEW T \in SUBSET Configs PROVE Weigh(results, T) = Weigh(rows, T)
    OBVIOUS
  <2>1. \A c \in T : results[c].weight = rows[c].weight
    BY <1>2
  <2> HIDE DEF results, rows
  <2>2. Votes(results, T) = Votes(rows, T)
    BY <2>1 DEF Votes
  <2> QED BY <2>2 DEF Weigh
<1>5. Weigh(rows, Configs) >= Quorum
  BY ConfigsAreNats
<1>6. BootstrapHeight = GetMedian("item first", Quorum, results).value
  BY DEF BootstrapHeight, MedianSound
<1> HIDE DEF results, rows
<1>7. MedianDue(results, Quorum)
  <2>1. Weigh(results, Succeeded(results)) >= Quorum
    BY <1>3, <1>4, <1>5
  <2> QED BY <1>1, <1>2, <1>3, <2>1 DEF MedianDue
<1>8. GetMedian("item first", Quorum, results).value \in Nat
  BY <1>1, <1>7, MedianIsNat
<1>9. PICK m \in Nat : m = BootstrapHeight
  BY <1>6, <1>8
<1> DEFINE near == {c \in Succeeded(results) : results[c].value >= m}
<1>10. near = {c \in Succeeded(results) : results[c].value >= m}
  OBVIOUS
<1>11. near \in SUBSET Configs /\ \A c \in near : blockNumber[c] >= m
  BY <1>2, <1>3
<1> HIDE DEF near
<1>12. Cardinality(Configs) <= 2 * Weigh(results, near)
  <2>1. \A c \in DOMAIN results : results[c].weight # 0
    BY <1>1, <1>2
  <2>2. GetMedian("item first", Quorum, results) = Decided(m)
    <3>1. \E t : GetMedian("item first", Quorum, results) = Decided(t)
      BY <1>1, <1>7, MedianValue
    <3>2. PICK t : GetMedian("item first", Quorum, results) = Decided(t)
      BY <3>1
    <3>3. t = BootstrapHeight
      <4>1. GetMedian("item first", Quorum, results).value = Decided(t).value
        BY <3>2, Zenon
      <4>2. Decided(t).value = t
        BY DEF Decided
      <4> QED BY <1>6, <4>1, <4>2, Zenon
    <3> QED BY <1>9, <3>2, <3>3, Zenon
  <2>3. Cardinality(Succeeded(results)) <= 2 * Weigh(results, near)
    BY <1>1, <1>7, <1>10, <2>1, <2>2, MedianIsBacked
  <2> QED BY <1>3, <2>3
<1> DEFINE reach == Reach(m)
<1>13. near \in SUBSET reach /\ reach \in SUBSET Configs
  <2>1. \A c \in near : c \in Configs /\ head[c] \in 0 .. MaxHead /\ blockNumber[c] \in Int
                        /\ blockNumber[c] <= head[c] /\ blockNumber[c] >= m
    BY <1>11 DEF MajorityInv
  <2>2. \A c \in near : c \in Configs /\ head[c] >= m - 1
    BY <2>1, HeightAssumption
  <2> QED BY <2>2 DEF Reach
<1> HIDE DEF reach
<1>14. /\ Weigh(rows, near) \in Nat /\ Weigh(rows, reach) \in Nat
       /\ Weigh(rows, near) <= Weigh(rows, reach)
  <2>1. IsFiniteSet(reach) /\ \A c \in reach : rows[c].weight \in Nat
    BY <1>1, <1>2, <1>13, FS_Subset
  <2> QED BY <1>13, <2>1, WeighGrows
<1>15. Weigh(rows, reach) >= Quorum
  <2>1. Cardinality(Configs) \in Nat
    BY <1>1, FS_CardinalityType
  <2>2. Weigh(results, near) = Weigh(rows, near)
    BY <1>4, <1>11
  <2>3. 2 * Quorum <= Cardinality(Configs) + 1
    BY DEF QuorumIsMinority
  <2> QED BY <1>1, <1>12, <1>14, <2>1, <2>2, <2>3
<1>16. Backed(m)
  BY <1>15 DEF Backed, rows, reach
<1> QED BY <1>9, <1>16

\* Every step keeps what is answered backed.
LEMMA MajorityStep ==
  ASSUME MedianSound, QuorumIsMinority, MajorityInv, [Next]_vars
  PROVE  MajorityInv'
<1>1. ASSUME NEW c \in Configs, Mine(c) PROVE MajorityInv'
  <2>1. /\ head' = [head EXCEPT ![c] = head[c] + 1] /\ head[c] < MaxHead
        /\ UNCHANGED <<blockNumber, height, answer>>
    BY <1>1 DEF Mine
  <2>2. head' \in [Configs -> 0 .. MaxHead] /\ \A d \in Configs : head[d] <= head'[d]
    BY <2>1, HeightAssumption DEF MajorityInv
  <2>3. \A v \in Int : Backed(v) => Backed(v)'
    BY <2>2, BackedStays DEF MajorityInv
  <2>4. height \in Int /\ Backed(height) => Backed(height)'
    <3>1. \A h : h = height /\ h \in Int /\ Backed(h) => Backed(h)'
      BY <2>3
    <3> QED BY <2>1, <3>1
  <2>5. answer \in Int /\ Backed(answer) => Backed(answer)'
    <3>1. \A h : h = answer /\ h \in Int /\ Backed(h) => Backed(h)'
      BY <2>3
    <3> QED BY <2>1, <3>1
  <2>6. \A d \in Configs : blockNumber'[d] <= head'[d]
    <3>1. \A d \in Configs : /\ blockNumber[d] \in Int /\ head[d] \in Int /\ head'[d] \in Int
                             /\ blockNumber[d] <= head[d] /\ head[d] <= head'[d]
                             /\ blockNumber'[d] = blockNumber[d]
      BY <2>1, <2>2 DEF MajorityInv
    <3> QED BY <3>1
  <2> QED BY <2>1, <2>2, <2>4, <2>5, <2>6 DEF MajorityInv
<1>2. ASSUME NEW c \in Configs, WaitForSync(c) PROVE MajorityInv'
  <2>1. PICK b \in Reported(c) : blockNumber' = [blockNumber EXCEPT ![c] = b]
    BY <1>2 DEF WaitForSync
  <2>2. UNCHANGED <<head, height, answer>>
    BY <1>2 DEF WaitForSync
  <2>3. b \in Int /\ b <= head[c]
    BY <2>1 DEF MajorityInv, Reported
  <2>4. blockNumber' \in [Configs -> Int] /\ \A d \in Configs : blockNumber'[d] <= head[d]
    BY <2>1, <2>3 DEF MajorityInv
  <2>5. \A v : Reach(v)' = Reach(v)
    BY <2>2 DEF Reach
  <2> QED BY <2>2, <2>4, <2>5 DEF MajorityInv, Backed
<1>3. ASSUME NEW S \in SUBSET Configs \ {{}}, NEW answers \in Collected(S),
             GetBlockNumber(answers)
      PROVE  MajorityInv'
  <2> DEFINE results == [c \in DOMAIN answers |-> Row(c, answers[c])]
             base == IF height = Unset THEN BootstrapHeight ELSE height
             mode == GetFuzzyMode(SortOrder, Quorum, results)
             settled == ~Unreadable(results) /\ mode.decided
  <2>1. /\ Synced /\ UNCHANGED <<head, blockNumber>>
        /\ IF settled THEN height' = Raise(base, mode.value) /\ answer' = height'
           ELSE height' = base /\ answer' = answer
    BY <1>3 DEF GetBlockNumber
  <2>2. settled => mode.value \in Int /\ Backed(mode.value)
    <3>1. head \in [Configs -> 0 .. MaxHead]
      BY DEF MajorityInv
    <3>2. results = [c \in DOMAIN answers |-> Row(c, answers[c])]
      OBVIOUS
    <3>3. mode = GetFuzzyMode(SortOrder, Quorum, results) /\ (settled => ~Unreadable(results) /\ mode.decided)
      OBVIOUS
    <3> HIDE DEF results, mode
    <3> QED BY <3>1, <3>2, <3>3, ModeIsBacked
  <2>3. base \in Int /\ Backed(base)
    BY <2>1, BootstrapIsBacked DEF MajorityInv
  <2> HIDE DEF results, mode, base, settled
  <2>4. height' \in Int /\ Backed(height') /\ (answer' = height' \/ answer' = answer)
    BY <2>1, <2>2, <2>3 DEF Raise
  <2>5. answer' # Unset => answer' \in Int /\ Backed(answer')
    BY <2>4 DEF MajorityInv
  <2>7. \A v : Reach(v)' = Reach(v)
    BY <2>1 DEF Reach
  <2> QED BY <2>1, <2>4, <2>5, <2>7 DEF MajorityInv, Backed
<1>4. CASE UNCHANGED vars
  BY <1>4 DEF vars, MajorityInv, Backed, Reach
<1> QED BY <1>1, <1>2, <1>3, <1>4 DEF Next

\* It holds at first, and gives what is promised of the answer.
LEMMA MajorityStarts == (Init => MajorityInv) /\ (MajorityInv => AnswerBackedByQuorum)
<1>1. Init => MajorityInv
  BY HeightAssumption DEF Init, MajorityInv, Unset
<1>2. MajorityInv => AnswerBackedByQuorum
  BY HeightAssumption DEF MajorityInv, AnswerBackedByQuorum, Heights, Unset, Backed, Reach
<1> QED BY <1>1, <1>2

\* For any providers that each have a vote, any weights and any quorum of at most
\* half as many votes as there are providers, rounded up: a number getBlockNumber
\* returns is at most one block past what providers worth a quorum have reached.
\* The engine is one whose sort asks whether the new item comes first.
THEOREM AnswersAreBacked ==
  ASSUME SortOrder = "item first",
         \A c \in Configs : Weight[c] # 0,
         2 * Quorum <= Cardinality(Configs) + 1
  PROVE  Spec => []AnswerBackedByQuorum
<1>1. MedianSound /\ QuorumIsMinority
  BY DEF MedianSound, QuorumIsMinority
<1>2. MajorityInv /\ [Next]_vars => MajorityInv'
  BY <1>1, MajorityStep
<1> QED BY <1>2, MajorityStarts, PTL DEF Spec
=============================================================================
