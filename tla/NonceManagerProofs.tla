-------------------------- MODULE NonceManagerProofs --------------------------
(***************************************************************************)
(* Proofs about NonceManager, for every number of calls, resets and skips, *)
(* and whatever the network answers.                                       *)
(***************************************************************************)
EXTENDS NonceManager, ProofLemmas, FiniteSetTheorems

-----------------------------------------------------------------------------
(* The pending count *)

\* The network always has a pending count to answer with.
LEMMA PendingCountIsNat == PendingCount \in Nat
<1> DEFINE free == {n \in Nat : n \in Nonces => holder[n] = Nobody}
<1>1. MaxNonce \in Nat
  <2>1. Cardinality(Sends) \in Nat /\ MaxResets \in Nat /\ MaxSkips \in Nat
    BY NonceAssumption, FS_CardinalityType
  <2> QED BY <2>1 DEF MaxNonce
<1>2. MaxNonce + 1 \in free
  BY <1>1 DEF Nonces
<1>3. PICK n \in free : \A y \in free : n <= y
  <2> HIDE DEF free
  <2>1. free \in SUBSET Nat
    BY DEF free
  <2> QED BY <1>2, <2>1, LeastNat
<1>4. /\ n \in 0 .. MaxNonce + 1
      /\ \A k \in 0 .. n - 1 : holder[k] # Nobody
      /\ n \in Nonces => holder[n] = Nobody
  <2>1. n \in Nat /\ n <= MaxNonce + 1
    BY <1>1, <1>2, <1>3
  <2>2. ASSUME NEW k \in 0 .. n - 1 PROVE holder[k] # Nobody
    <3>1. k \in Nat /\ ~(n <= k)
      BY <2>1, <2>2
    <3>2. k \notin free
      BY <1>3, <3>1
    <3> QED BY <3>1, <3>2
  <2> QED BY <1>1, <2>1, <2>2
<1>5. PendingCount \in 0 .. MaxNonce + 1
  BY <1>4 DEF PendingCount
<1> QED BY <1>1, <1>5

-----------------------------------------------------------------------------
(* Type correctness *)

\* Asking for the count leaves the reads well-typed, keeps every answer, and
\* leaves the current epoch with a count asked for.
LEMMA AskKeepsAnswers ==
  ASSUME TypeOK, AskOnce
  PROVE  /\ read' \in [Epochs -> {NotAsked, Pending, Failed} \cup Nat]
         /\ \A e \in Epochs : read[e] # NotAsked => read'[e] = read[e]
         /\ read'[epoch] # NotAsked
<1>1. /\ read \in [Epochs -> {NotAsked, Pending, Failed} \cup Nat] /\ epoch \in Epochs
      /\ read' = [read EXCEPT ![epoch] = IF read[epoch] = NotAsked THEN Pending ELSE read[epoch]]
  BY DEF TypeOK, AskOnce
<1>2. NotAsked # Pending
  BY DEF NotAsked, Pending
<1>3. DOMAIN read' = Epochs /\ read' = [e \in Epochs |-> read'[e]]
  BY <1>1
<1>4. ASSUME NEW e \in Epochs
      PROVE  read'[e] = IF e = epoch /\ read[e] = NotAsked THEN Pending ELSE read[e]
  BY <1>1
<1>5. ASSUME NEW e \in Epochs PROVE read'[e] \in {NotAsked, Pending, Failed} \cup Nat
  BY <1>1, <1>4
<1> QED BY <1>1, <1>2, <1>3, <1>4, <1>5

\* Every reachable state is well-typed: in particular every nonce handed out
\* is a natural number.
THEOREM TypeCorrect == Spec => []TypeOK
<1>1. Init => TypeOK
  <2> SUFFICES ASSUME Init PROVE TypeOK
    OBVIOUS
  <2>1. 0 \in Epochs /\ <<0, 0>> \in Slots /\ Issued = {}
    BY NonceAssumption DEF Init, Epochs, Slots, Issued
  <2> QED BY <2>1 DEF Init, TypeOK, Stages
<1>2. TypeOK /\ [Next]_vars => TypeOK'
  <2> SUFFICES ASSUME TypeOK, [Next]_vars PROVE TypeOK'
    OBVIOUS
  <2>a. ASSUME UNCHANGED <<slot, stage, read>> PROVE (\A s \in Issued : read[slot[s][1]] # NotAsked)'
    BY <2>a DEF TypeOK, Issued
  <2>1. CASE GetNonce
    <3>1. \A s \in Issued : slot[s][1] \in Epochs /\ read[slot[s][1]] # NotAsked
      BY DEF TypeOK, Slots, Issued
    <3>2. AskOnce /\ UNCHANGED <<epoch, delta, stage, slot, skipped, nonce, hasty, Issued>>
      BY <2>1 DEF GetNonce, Issued
    <3> QED BY <3>1, <3>2, AskKeepsAnswers DEF TypeOK
  <2>2. CASE Increment
    BY <2>2, <2>a DEF Increment, Slots, TypeOK
  <2>3. CASE Reset
    <3>1. epoch' \in Epochs
      BY <2>3, NonceAssumption DEF Reset, Epochs, TypeOK
    <3> QED BY <2>3, <2>a, <3>1 DEF Reset, TypeOK
  <2>4. ASSUME NEW s \in Sends, SendTransaction(s) PROVE TypeOK'
    <3>1. \A r \in Issued : slot[r][1] \in Epochs /\ read[slot[r][1]] # NotAsked
      BY DEF TypeOK, Slots, Issued
    <3>2. /\ AskOnce /\ slot' = [slot EXCEPT ![s] = <<epoch, delta>>]
          /\ delta' = delta + 1 /\ stage' = [stage EXCEPT ![s] = "populating"]
          /\ UNCHANGED <<epoch, skipped, nonce, hasty>>
      BY <2>4 DEF SendTransaction
    <3>3. <<epoch, delta>> \in Slots /\ slot' \in [Sends -> Slots]
      BY <3>2 DEF TypeOK, Slots
    <3>4. stage' \in [Sends -> Stages] /\ delta' \in Nat
      BY <3>2 DEF TypeOK, Stages
    <3>5. ASSUME NEW r \in Issued' PROVE read'[slot'[r][1]] # NotAsked
      <4>1. CASE r = s
        BY <3>2, <4>1, AskKeepsAnswers DEF TypeOK
      <4>2. CASE r # s
        <5>1. r \in Issued /\ slot'[r] = slot[r]
          BY <3>2, <4>2 DEF Issued, TypeOK
        <5> QED BY <3>1, <3>2, <5>1, AskKeepsAnswers
      <4> QED BY <4>1, <4>2
    <3> QED BY <3>2, <3>3, <3>4, <3>5, AskKeepsAnswers DEF TypeOK
  <2>5. ASSUME NEW s \in Sends, Populate(s) PROVE TypeOK'
    <3>1. /\ stage' \in [Sends -> Stages] /\ Issued' = Issued
          /\ UNCHANGED <<epoch, read, delta, slot, skipped, nonce, hasty>>
      BY <2>5 DEF Populate, Stages, TypeOK, Issued
    <3> QED BY <3>1 DEF TypeOK
  <2>6. ASSUME NEW s \in Sends, TakeNonce(s) PROVE TypeOK'
    <3>1. s \in Issued /\ slot[s][1] \in Epochs /\ slot[s][2] \in Nat
      BY <2>6 DEF Slots, TakeNonce, Issued, TypeOK
    <3>2. CASE read[slot[s][1]] = Failed
      <4>1. /\ stage' \in [Sends -> Stages] /\ Issued' = Issued
            /\ UNCHANGED <<epoch, read, delta, slot, skipped, nonce, hasty>>
        BY <2>6, <3>2 DEF TakeNonce, Stages, TypeOK, Issued
      <4> QED BY <4>1 DEF TypeOK
    <3>3. CASE read[slot[s][1]] # Failed
      <4>1. read[slot[s][1]] \in Nat
        BY <2>6, <3>1, <3>3 DEF TakeNonce, TypeOK
      <4>2. /\ stage' \in [Sends -> Stages] /\ Issued' = Issued
            /\ nonce' = [nonce EXCEPT ![s] = read[slot[s][1]] + slot[s][2]]
            /\ UNCHANGED <<epoch, read, delta, slot, skipped, hasty>>
        BY <2>6, <3>3 DEF TakeNonce, Stages, TypeOK, Issued
      <4>3. nonce' \in [Sends -> Nat \cup {-1}]
        BY <3>1, <4>1, <4>2 DEF TypeOK
      <4> QED BY <4>2, <4>3 DEF TypeOK
    <3> QED BY <3>2, <3>3
  <2>7. ASSUME NEW s \in Sends, Refuse(s) \/ Accept(s) PROVE TypeOK'
    <3>1. /\ stage' \in [Sends -> Stages] /\ Issued' = Issued
          /\ UNCHANGED <<epoch, read, delta, slot, skipped, nonce, hasty>>
      BY <2>7 DEF Refuse, Accept, Stages, TypeOK, Issued
    <3> QED BY <3>1 DEF TypeOK
  <2>8. ASSUME NEW e \in Epochs, AnswerCount(e) PROVE TypeOK'
    <3>1. /\ UNCHANGED <<epoch, delta, stage, slot, skipped, nonce, hasty, Issued>>
          /\ \E count \in {PendingCount, Failed} : read' = [read EXCEPT ![e] = count]
      BY <2>8 DEF AnswerCount, Issued
    <3>2. NotAsked \notin Nat /\ NotAsked # Failed
      BY DEF NotAsked, Failed
    <3> QED BY <3>1, <3>2, PendingCountIsNat DEF TypeOK
  <2>9. CASE UNCHANGED vars
    BY <2>9 DEF vars, TypeOK, Issued
  <2> QED BY <2>1, <2>2, <2>3, <2>4, <2>5, <2>6, <2>7, <2>8, <2>9 DEF Next
<1> QED BY <1>1, <1>2, PTL DEF Spec

-----------------------------------------------------------------------------
(* Slots: the places of calls and skips among the nonces of an epoch *)

\* What makes the slots of an epoch an unbroken row of distinct places: those
\* below #delta are taken, none at or above it is, and no two calls share one.
SlotsInRow ==
  /\ \A d \in 0 .. delta - 1 : <<epoch, d>> \in Taken
  /\ \A s \in Issued : slot[s][1] <= epoch /\ (slot[s][1] = epoch => slot[s][2] < delta)
  /\ \A s, t \in Issued : s # t => slot[s] # slot[t]
  /\ GapsExplained

\* A step keeps the row: a call or a skip takes the next place, reset starts
\* a new row and keeps the old ones.
LEMMA SlotsStep == TypeOK /\ SlotsInRow /\ [Next]_vars => SlotsInRow'
<1> SUFFICES ASSUME TypeOK, SlotsInRow, [Next]_vars PROVE SlotsInRow'
  OBVIOUS
<1>1. /\ epoch \in Nat /\ delta \in Nat
      /\ \A s \in Issued : slot[s] = <<slot[s][1], slot[s][2]>>
                           /\ slot[s][1] \in Nat /\ slot[s][2] \in Nat
  BY NonceAssumption DEF TypeOK, Epochs, Slots, Issued
<1>2. ASSUME UNCHANGED <<epoch, delta, slot, skipped, Issued>> PROVE SlotsInRow'
  BY <1>2 DEF SlotsInRow, GapsExplained, Taken
<1>3. CASE Increment
  <2>1. /\ Taken' = Taken \cup {<<epoch, delta>>} /\ delta' = delta + 1
        /\ UNCHANGED <<epoch, slot, Issued>>
    BY <1>3 DEF Increment, Taken, Issued
  <2>2. \A d \in 0 .. delta' - 1 : <<epoch, d>> \in Taken'
    BY <1>1, <2>1 DEF SlotsInRow
  <2>3. GapsExplained'
    BY <2>1 DEF SlotsInRow, GapsExplained
  <2>4. \A s \in Issued : slot[s][1] = epoch => slot[s][2] < delta'
    BY <1>1, <2>1 DEF SlotsInRow
  <2> QED BY <2>1, <2>2, <2>3, <2>4 DEF SlotsInRow
<1>4. CASE Reset
  <2>1. /\ epoch' = epoch + 1 /\ delta' = 0
        /\ UNCHANGED <<slot, Issued, Taken>>
    BY <1>4 DEF Reset, Taken, Issued
  <2>2. \A d \in 0 .. delta' - 1 : FALSE
    BY <2>1
  <2>3. \A s \in Issued : slot[s][1] <= epoch' /\ slot[s][1] # epoch'
    BY <1>1, <2>1 DEF SlotsInRow
  <2>4. GapsExplained'
    BY <2>1 DEF SlotsInRow, GapsExplained
  <2> QED BY <2>1, <2>2, <2>3, <2>4 DEF SlotsInRow
<1>5. ASSUME NEW s \in Sends, SendTransaction(s) PROVE SlotsInRow'
  <2>1. /\ s \notin Issued /\ Issued' = Issued \cup {s}
        /\ \A t \in Issued : slot'[t] = slot[t]
        /\ slot'[s] = <<epoch, delta>>
        /\ epoch' = epoch /\ delta' = delta + 1 /\ skipped' = skipped
    BY <1>5 DEF SendTransaction, Issued, TypeOK
  <2>2. Taken' = Taken \cup {<<epoch, delta>>}
    BY <2>1 DEF Taken
  <2>3. \A d \in 0 .. delta' - 1 : <<epoch', d>> \in Taken'
    BY <1>1, <2>1, <2>2 DEF SlotsInRow
  <2>4. \A t \in Issued' : slot'[t][1] <= epoch' /\ (slot'[t][1] = epoch' => slot'[t][2] < delta')
    BY <1>1, <2>1 DEF SlotsInRow
  <2>5. ASSUME NEW t \in Issued PROVE slot[t] # <<epoch, delta>>
    BY <1>1 DEF SlotsInRow
  <2>6. \A r, t \in Issued' : r # t => slot'[r] # slot'[t]
    BY <2>1, <2>5 DEF SlotsInRow
  <2>7. GapsExplained'
    <3> SUFFICES ASSUME NEW t \in Issued', NEW d \in 0 .. slot'[t][2] - 1
                 PROVE  <<slot'[t][1], d>> \in Taken'
      BY DEF GapsExplained
    <3>1. CASE t = s
      BY <2>1, <2>2, <3>1 DEF SlotsInRow
    <3>2. CASE t # s
      BY <2>1, <2>2, <3>2 DEF SlotsInRow, GapsExplained
    <3> QED BY <3>1, <3>2
  <2> QED BY <2>3, <2>4, <2>6, <2>7 DEF SlotsInRow
<1>6. CASE GetNonce \/ UNCHANGED vars
  BY <1>2, <1>6 DEF GetNonce, vars, Issued
<1>7. ASSUME NEW s \in Sends, Populate(s) \/ TakeNonce(s) \/ Refuse(s) \/ Accept(s)
      PROVE  SlotsInRow'
  <2>1. UNCHANGED <<epoch, delta, slot, skipped, Issued>>
    BY <1>7 DEF Populate, TakeNonce, Refuse, Accept, Issued, TypeOK
  <2> QED BY <1>2, <2>1
<1>8. ASSUME NEW e \in Epochs, AnswerCount(e) PROVE SlotsInRow'
  <2>1. UNCHANGED <<epoch, delta, slot, skipped, Issued>>
    BY <1>8 DEF AnswerCount, Issued
  <2> QED BY <1>2, <2>1
<1> QED BY <1>3, <1>4, <1>5, <1>6, <1>7, <1>8 DEF Next

\* The slots stay an unbroken row of distinct places in every reachable state.
LEMMA SlotsAlwaysInRow == Spec => []SlotsInRow
<1>1. Init => SlotsInRow
  <2> SUFFICES ASSUME Init PROVE SlotsInRow
    OBVIOUS
  <2>1. Issued = {} /\ \A d \in 0 .. delta - 1 : FALSE
    BY DEF Init, Issued
  <2> QED BY <2>1 DEF SlotsInRow, GapsExplained
<1>2. TypeOK /\ SlotsInRow /\ [Next]_vars => SlotsInRow'
  BY SlotsStep
<1> QED BY <1>1, <1>2, TypeCorrect, PTL DEF Spec

\* A nonce missing below one that was used since the same reset belongs to
\* another call or was skipped by the application.
THEOREM EveryGapExplained == Spec => []GapsExplained
<1>1. SlotsInRow => GapsExplained
  BY DEF SlotsInRow
<1> QED BY <1>1, SlotsAlwaysInRow, PTL

-----------------------------------------------------------------------------
(* Distinct nonces *)

\* A nonce is the count its call captured plus the call's place.
NonceIsSum ==
  \A s \in Sends : Numbered(s) =>
    /\ s \in Issued
    /\ read[slot[s][1]] \in Nat
    /\ nonce[s] = read[slot[s][1]] + slot[s][2]

\* Neither the count nor the place changes once a nonce was computed.
LEMMA NonceIsSumStep == TypeOK /\ NonceIsSum /\ [Next]_vars => NonceIsSum'
<1> SUFFICES ASSUME TypeOK, NonceIsSum, [Next]_vars,
                    NEW s \in Sends, Numbered(s)'
             PROVE  /\ s \in Issued'
                    /\ read'[slot'[s][1]] \in Nat
                    /\ nonce'[s] = read'[slot'[s][1]] + slot'[s][2]
  BY DEF NonceIsSum
<1>1. slot[s][1] \in Epochs /\ slot[s][2] \in Nat
  BY DEF TypeOK, Slots
<1>2. NotAsked \notin Nat /\ Pending \notin Nat /\ Failed \notin Nat
  BY DEF NotAsked, Pending, Failed
<1>3. ASSUME UNCHANGED <<nonce, Issued>>, slot'[s] = slot[s],
             \A e \in Epochs : read[e] \in Nat => read'[e] = read[e]
      PROVE  /\ s \in Issued'
             /\ read'[slot'[s][1]] \in Nat
             /\ nonce'[s] = read'[slot'[s][1]] + slot'[s][2]
  BY <1>1, <1>3 DEF NonceIsSum, Numbered
<1>4. CASE GetNonce
  BY <1>2, <1>3, <1>4, AskKeepsAnswers DEF GetNonce, Issued
<1>5. CASE Increment \/ Reset \/ UNCHANGED vars
  BY <1>3, <1>5 DEF Increment, Reset, vars, Issued
<1>6. ASSUME NEW t \in Sends, SendTransaction(t)
      PROVE  /\ s \in Issued'
             /\ read'[slot'[s][1]] \in Nat
             /\ nonce'[s] = read'[slot'[s][1]] + slot'[s][2]
  <2>1. /\ s \in Issued /\ t \notin Issued
        /\ nonce'[s] = nonce[s] /\ slot'[s] = slot[s] /\ s \in Issued'
    BY <1>6 DEF SendTransaction, NonceIsSum, Numbered, Issued, TypeOK
  <2>2. \A e \in Epochs : read[e] \in Nat => read'[e] = read[e]
    BY <1>2, <1>6, AskKeepsAnswers DEF SendTransaction
  <2>3. Numbered(s)
    BY <2>1 DEF Numbered
  <2> QED BY <1>1, <2>1, <2>2, <2>3 DEF NonceIsSum
<1>7. ASSUME NEW t \in Sends, Populate(t) \/ Refuse(t) \/ Accept(t)
      PROVE  UNCHANGED <<nonce, slot, read, Issued>>
  BY <1>7 DEF Populate, Refuse, Accept, Issued, TypeOK
<1>8. ASSUME NEW t \in Sends, TakeNonce(t)
      PROVE  /\ s \in Issued'
             /\ read'[slot'[s][1]] \in Nat
             /\ nonce'[s] = read'[slot'[s][1]] + slot'[s][2]
  <2>1. UNCHANGED <<read, slot, Issued>> /\ t \in Issued
    BY <1>8 DEF TakeNonce, Issued, TypeOK
  <2>2. CASE UNCHANGED nonce
    BY <1>3, <2>1, <2>2
  <2>3. CASE nonce' = [nonce EXCEPT ![t] = read[slot[t][1]] + slot[t][2]]
             /\ read[slot[t][1]] \notin {Pending, Failed}
    <3>1. CASE s = t
      <4>1. read[slot[s][1]] \in Nat
        BY <1>1, <2>1, <2>3, <3>1 DEF TypeOK
      <4> QED BY <2>1, <2>3, <3>1, <4>1 DEF TypeOK
    <3>2. CASE s # t
      <4>1. nonce'[s] = nonce[s] /\ Numbered(s)
        BY <2>3, <3>2 DEF Numbered, TypeOK
      <4> QED BY <2>1, <4>1 DEF NonceIsSum
    <3> QED BY <3>1, <3>2
  <2> QED BY <1>8, <2>2, <2>3 DEF TakeNonce
<1>9. ASSUME NEW e \in Epochs, AnswerCount(e)
      PROVE  /\ UNCHANGED <<nonce, slot, Issued>>
             /\ \A d \in Epochs : read[d] \in Nat => read'[d] = read[d]
  BY <1>2, <1>9 DEF AnswerCount, Issued, TypeOK
<1> QED BY <1>3, <1>4, <1>5, <1>6, <1>7, <1>8, <1>9 DEF Next

\* Two calls that began between the same resets never use the same nonce.
THEOREM NoncesStayDistinct == Spec => []NoncesDistinct
<1>1. Init => NonceIsSum
  BY DEF Init, NonceIsSum, Numbered
<1>2. TypeOK /\ NonceIsSum /\ [Next]_vars => NonceIsSum'
  BY NonceIsSumStep
<1>3. TypeOK /\ SlotsInRow /\ NonceIsSum => NoncesDistinct
  <2> SUFFICES ASSUME TypeOK, SlotsInRow, NonceIsSum, NEW s \in Sends, NEW t \in Sends,
                      Numbered(s), Numbered(t), s # t, slot[s][1] = slot[t][1]
               PROVE  nonce[s] # nonce[t]
    BY DEF NoncesDistinct
  <2>1. s \in Issued /\ t \in Issued /\ slot[s] # slot[t]
    BY DEF NonceIsSum, SlotsInRow
  <2>2. /\ slot[s] = <<slot[s][1], slot[s][2]>> /\ slot[t] = <<slot[t][1], slot[t][2]>>
        /\ slot[s][2] \in Nat /\ slot[t][2] \in Nat
    BY DEF TypeOK, Slots
  <2>3. slot[s][2] # slot[t][2]
    BY <2>1, <2>2
  <2>4. /\ read[slot[s][1]] \in Nat
        /\ nonce[s] = read[slot[s][1]] + slot[s][2]
        /\ nonce[t] = read[slot[s][1]] + slot[t][2]
    BY DEF NonceIsSum
  <2> QED BY <2>2, <2>3, <2>4
<1> QED BY <1>1, <1>2, <1>3, TypeCorrect, SlotsAlwaysInRow, PTL DEF Spec

-----------------------------------------------------------------------------
(* Clean runs *)

Clean == ~hasty /\ skipped = {} /\ \A s \in Sends : stage[s] # "failed"

\* The nonces used up before the last reset.
Base == Cardinality(Issued) - delta

(***************************************************************************)
(* What a run without failures, skips and hasty resets keeps: the network  *)
(* holds the nonces used up before the last reset and those sent since,    *)
(* each for the call it was given to; the count read since then is the     *)
(* number of the former; and all calls from before have been sent.         *)
(***************************************************************************)
CleanInv ==
  /\ holder \in [Nonces -> Sends \cup {Nobody}]
  /\ \A e \in Epochs : e > epoch => read[e] = NotAsked
  /\ skipped = {} => delta <= Cardinality(Issued)
  /\ Clean =>
       /\ read[epoch] \in Nat => read[epoch] = Base
       /\ \A s \in Sends : stage[s] \in {"sending", "sent"} => Numbered(s)
       /\ \A s \in Issued : slot[s][1] < epoch => stage[s] = "sent" /\ nonce[s] < Base
       /\ \A s \in Sends : stage[s] = "sent" => nonce[s] \in Nonces /\ holder[nonce[s]] = s
       /\ \A n \in Nonces :
            holder[n] # Nobody <=> \/ n < Base
                                   \/ \E s \in Sends : stage[s] = "sent" /\ slot[s][1] = epoch /\ nonce[s] = n

\* The network's count, when it holds the nonces below k and no k.
LEMMA PendingCountIs ==
  ASSUME NEW k \in 0 .. MaxNonce + 1, MaxNonce \in Nat,
         \A n \in 0 .. k - 1 : holder[n] # Nobody, k \in Nonces => holder[k] = Nobody
  PROVE  PendingCount = k
<1> DEFINE Is(n) == /\ \A j \in 0 .. n - 1 : holder[j] # Nobody
                    /\ n \in Nonces => holder[n] = Nobody
<1>1. Is(k)
  OBVIOUS
<1>2. ASSUME NEW n \in 0 .. MaxNonce + 1, Is(n) PROVE n = k
  <2>1. ~ (n < k)
    <3>1. n < k => n \in Nonces /\ n \in 0 .. k - 1
      BY DEF Nonces
    <3> QED BY <1>2, <3>1
  <2>2. ~ (k < n)
    <3>1. k < n => k \in Nonces /\ k \in 0 .. n - 1
      BY DEF Nonces
    <3> QED BY <1>2, <3>1
  <2> QED BY <2>1, <2>2
<1>3. PendingCount = CHOOSE n \in 0 .. MaxNonce + 1 : Is(n)
  BY DEF PendingCount
<1> HIDE DEF Is
<1> QED BY <1>1, <1>2, <1>3

\* In a clean run the calls that are being sent or were sent since the last
\* reset have the nonces behind those used up before.
LEMMA CleanFacts ==
  ASSUME TypeOK, SlotsInRow, NonceIsSum, CleanInv, Clean
  PROVE  /\ IsFiniteSet(Issued) /\ Cardinality(Issued) \in Nat /\ Base \in Nat /\ MaxNonce \in Nat
         /\ Base + delta = Cardinality(Issued) /\ Base + delta <= MaxNonce
         /\ \A s \in Sends : stage[s] \in {"sending", "sent"} /\ slot[s][1] = epoch =>
              /\ s \in Issued /\ slot[s][2] \in 0 .. delta - 1
              /\ nonce[s] = Base + slot[s][2] /\ nonce[s] \in Nonces
         /\ \A s \in Sends : stage[s] = "sending" => slot[s][1] = epoch
<1>1. /\ IsFiniteSet(Issued) /\ Cardinality(Issued) \in Nat
      /\ Cardinality(Sends) \in Nat /\ Cardinality(Issued) <= Cardinality(Sends)
  BY NonceAssumption, FS_Subset, FS_CardinalityType DEF Issued
<1>2. delta \in Nat /\ delta <= Cardinality(Issued) /\ Base = Cardinality(Issued) - delta
  BY DEF TypeOK, CleanInv, Clean, Base
<1>3. MaxNonce \in Nat /\ Cardinality(Sends) <= MaxNonce
  <2>1. /\ Cardinality(Sends) * (MaxResets + 1) \in Nat /\ MaxSkips \in Nat
        /\ Cardinality(Sends) <= Cardinality(Sends) * (MaxResets + 1)
    BY <1>1, NonceAssumption
  <2> QED BY <1>1, <2>1 DEF MaxNonce
<1>4. ASSUME NEW s \in Sends, stage[s] \in {"sending", "sent"}, slot[s][1] = epoch
      PROVE  /\ s \in Issued /\ slot[s][2] \in 0 .. delta - 1
             /\ nonce[s] = Base + slot[s][2] /\ nonce[s] \in Nonces
  <2>1. s \in Issued /\ slot[s][2] \in Nat /\ slot[s][2] < delta
    BY <1>4 DEF Issued, SlotsInRow, TypeOK, Slots
  <2>2. nonce[s] = Base + slot[s][2]
    BY <1>4 DEF CleanInv, NonceIsSum
  <2> QED BY <1>1, <1>2, <1>3, <2>1, <2>2 DEF Nonces
<1>5. ASSUME NEW s \in Sends, stage[s] = "sending" PROVE slot[s][1] = epoch
  <2>1. s \in Issued /\ epoch \in Nat /\ slot[s][1] \in Nat /\ slot[s][1] <= epoch
    BY <1>5, NonceAssumption DEF Issued, SlotsInRow, TypeOK, Slots, Epochs
  <2> QED BY <1>5, <2>1 DEF CleanInv
<1> QED BY <1>1, <1>2, <1>3, <1>4, <1>5

\* A clean run stays on its books with every step.
LEMMA CleanStep == TypeOK /\ SlotsInRow /\ NonceIsSum /\ CleanInv /\ [Next]_vars => CleanInv'
<1> SUFFICES ASSUME TypeOK, SlotsInRow, NonceIsSum, CleanInv, [Next]_vars PROVE CleanInv'
  OBVIOUS
<1>1. NotAsked \notin Nat /\ Pending \notin Nat /\ Failed \notin Nat /\ NotAsked # Pending /\ NotAsked # Failed
  BY DEF NotAsked, Pending, Failed
<1>2. epoch \in Nat /\ epoch \in Epochs /\ delta \in Nat /\ Cardinality(Issued) \in Nat /\ IsFiniteSet(Issued)
  BY NonceAssumption, FS_Subset, FS_CardinalityType DEF Issued, TypeOK, Epochs
<1>3. ASSUME UNCHANGED <<epoch, delta, stage, slot, skipped, nonce, holder, hasty>>,
             \A e \in Epochs : e > epoch => read'[e] = NotAsked,
             Clean /\ read'[epoch] \in Nat => read'[epoch] = Base
      PROVE  CleanInv'
  <2>1. Clean' = Clean /\ Issued' = Issued /\ Base' = Base
    BY <1>3 DEF Clean, Issued, Base
  <2> QED BY <1>3, <2>1 DEF CleanInv, Numbered
<1>4. CASE GetNonce
  <2>1. \A e \in Epochs : read'[e] = IF e = epoch /\ read[e] = NotAsked THEN Pending ELSE read[e]
    BY <1>2, <1>4 DEF GetNonce, AskOnce, TypeOK
  <2>2. \A e \in Epochs : e > epoch => read'[e] = NotAsked
    BY <1>2, <2>1 DEF CleanInv
  <2>3. Clean /\ read'[epoch] \in Nat => read'[epoch] = Base
    BY <1>1, <1>2, <2>1 DEF CleanInv
  <2> QED BY <1>3, <1>4, <2>2, <2>3 DEF GetNonce
<1>5. CASE Increment
  <2>1. /\ skipped' # {} /\ ~Clean'
        /\ UNCHANGED <<epoch, read, holder>>
    BY <1>5 DEF Increment, Clean
  <2> QED BY <2>1 DEF CleanInv
<1>6. CASE Reset
  <2>1. /\ epoch' = epoch + 1 /\ delta' = 0
        /\ UNCHANGED <<read, stage, slot, skipped, nonce, holder, Issued>>
        /\ Base' = Cardinality(Issued)
        /\ epoch' \in Epochs
    BY <1>2, <1>6, NonceAssumption DEF Reset, Issued, Base, Epochs
  <2>2. /\ \A e \in Epochs : e > epoch' => read'[e] = NotAsked
        /\ delta' <= Cardinality(Issued')
        /\ holder' \in [Nonces -> Sends \cup {Nobody}]
    BY <1>2, <2>1 DEF CleanInv, Epochs
  <2>3. ASSUME Clean'
        PROVE  /\ read'[epoch'] \in Nat => read'[epoch'] = Base'
               /\ \A s \in Sends : stage'[s] \in {"sending", "sent"} => Numbered(s)'
               /\ \A s \in Issued' : slot'[s][1] < epoch' => stage'[s] = "sent" /\ nonce'[s] < Base'
               /\ \A s \in Sends : stage'[s] = "sent" => nonce'[s] \in Nonces /\ holder'[nonce'[s]] = s
               /\ \A n \in Nonces :
                    holder'[n] # Nobody <=>
                      \/ n < Base'
                      \/ \E s \in Sends : stage'[s] = "sent" /\ slot'[s][1] = epoch' /\ nonce'[s] = n
    <3>1. Clean /\ Settled = Sends
      BY <1>6, <2>3 DEF Reset, Clean
    <3>2. \A s \in Issued : stage[s] = "sent"
      BY <3>1 DEF Settled, Issued, Clean
    <3>3. /\ Base \in Nat /\ MaxNonce \in Nat /\ Base + delta = Cardinality(Issued)
          /\ \A s \in Issued : slot[s][1] = epoch => nonce[s] = Base + slot[s][2] /\ slot[s][2] \in 0 .. delta - 1
      BY <3>1, <3>2, CleanFacts DEF Issued
    <3>4. \A s \in Issued : slot[s][1] <= epoch /\ slot[s][1] \in Nat
      BY NonceAssumption DEF SlotsInRow, TypeOK, Slots, Epochs, Issued
    <3>5. read'[epoch'] \notin Nat
      BY <1>1, <1>2, <2>1 DEF CleanInv
    <3>6. ASSUME NEW s \in Issued PROVE stage[s] = "sent" /\ nonce[s] < Base'
      <4>1. CASE slot[s][1] = epoch
        BY <1>2, <2>1, <3>2, <3>3, <4>1
      <4>2. CASE slot[s][1] < epoch
        BY <1>2, <2>1, <3>1, <3>2, <3>3, <4>2, NonceAssumption DEF CleanInv, TypeOK, Issued
      <4> QED BY <1>2, <3>4, <4>1, <4>2
    <3>7. ASSUME NEW n \in Nonces PROVE holder[n] # Nobody <=> n < Base'
      <4>1. n \in Nat
        BY <3>3 DEF Nonces
      <4>2. ASSUME NEW s \in Sends, stage[s] = "sent", slot[s][1] = epoch, nonce[s] = n PROVE n < Base'
        BY <3>6, <4>2 DEF Issued
      <4>3. ASSUME n < Base', ~ (n < Base)
            PROVE  \E s \in Sends : stage[s] = "sent" /\ slot[s][1] = epoch /\ nonce[s] = n
        <5>1. n - Base \in 0 .. delta - 1
          BY <1>2, <2>1, <3>3, <4>1, <4>3
        <5>2. <<epoch, n - Base>> \in Taken /\ skipped = {}
          BY <3>1, <5>1 DEF SlotsInRow, Clean
        <5>3. PICK s \in Issued : slot[s] = <<epoch, n - Base>>
          BY <5>2 DEF Taken
        <5>4. nonce[s] = n
          BY <3>3, <4>1, <5>3
        <5> QED BY <3>2, <5>3, <5>4 DEF Issued
      <4>4. n < Base => n < Base'
        BY <1>2, <2>1, <3>3, <4>1
      <4> QED BY <3>1, <4>2, <4>3, <4>4 DEF CleanInv
    <3>8. ASSUME NEW s \in Sends PROVE ~ (stage'[s] = "sent" /\ slot'[s][1] = epoch')
      BY <1>2, <2>1, <3>4 DEF Issued
    <3>9. \A n \in Nonces :
            holder'[n] # Nobody <=>
              \/ n < Base'
              \/ \E s \in Sends : stage'[s] = "sent" /\ slot'[s][1] = epoch' /\ nonce'[s] = n
      BY <2>1, <3>7, <3>8
    <3> QED BY <2>1, <3>1, <3>5, <3>6, <3>9 DEF CleanInv, Numbered
  <2> QED BY <2>2, <2>3 DEF CleanInv
<1>7. ASSUME NEW s \in Sends, SendTransaction(s) PROVE CleanInv'
  <2>1. /\ s \notin Issued /\ Issued' = Issued \cup {s} /\ stage[s] = "new"
        /\ \A t \in Sends : t # s => slot'[t] = slot[t] /\ stage'[t] = stage[t]
        /\ slot'[s] = <<epoch, delta>> /\ stage'[s] = "populating"
        /\ UNCHANGED <<epoch, skipped, nonce, holder, hasty>> /\ delta' = delta + 1
    BY <1>7 DEF SendTransaction, Issued, TypeOK
  <2>2. Cardinality(Issued') = Cardinality(Issued) + 1
    BY <1>2, <2>1, FS_AddElement
  <2>3. Base' = Base
    BY <1>2, <2>1, <2>2 DEF Base
  <2>4. Clean' => Clean
    BY <2>1 DEF Clean
  <2>5. \A e \in Epochs : read'[e] = IF e = epoch /\ read[e] = NotAsked THEN Pending ELSE read[e]
    BY <1>2, <1>7 DEF SendTransaction, AskOnce, TypeOK
  <2>6. /\ \A e \in Epochs : e > epoch => read'[e] = NotAsked
        /\ Clean /\ read'[epoch] \in Nat => read'[epoch] = Base
    BY <1>1, <1>2, <2>5 DEF CleanInv
  <2>7. \A t \in Sends : /\ stage'[t] = "sent" <=> stage[t] = "sent"
                         /\ stage'[t] \in {"sending", "sent"} <=> stage[t] \in {"sending", "sent"}
                         /\ stage[t] = "sent" => slot'[t] = slot[t]
    BY <2>1
  <2>8. skipped' = {} => delta' <= Cardinality(Issued')
    BY <1>2, <2>1, <2>2 DEF CleanInv
  <2>9. Clean => \A t \in Issued' : slot'[t][1] < epoch => stage'[t] = "sent" /\ nonce[t] < Base
    <3>1. s \in Sends /\ Issued \subseteq Sends
      BY DEF Issued
    <3> QED BY <1>2, <2>1, <3>1 DEF CleanInv
  <2> QED BY <2>1, <2>3, <2>4, <2>6, <2>7, <2>8, <2>9 DEF CleanInv, Numbered
<1>8. ASSUME NEW s \in Sends, Populate(s) \/ Refuse(s) PROVE CleanInv'
  <2>1. /\ s \in Issued /\ Issued' = Issued /\ stage[s] # "sent"
        /\ \A t \in Sends : t # s => stage'[t] = stage[t]
        /\ stage'[s] \in {"numbering", "failed"}
        /\ UNCHANGED <<epoch, read, delta, slot, skipped, nonce, holder, hasty>>
    BY <1>8 DEF Populate, Refuse, Issued, TypeOK
  <2>2. Base' = Base
    BY <2>1 DEF Base
  <2>3. Clean' => Clean
    <3>1. stage[s] # "failed"
      BY <1>8 DEF Populate, Refuse
    <3> QED BY <2>1, <3>1 DEF Clean
  <2>4. \A t \in Sends : /\ stage'[t] = "sent" <=> stage[t] = "sent"
                         /\ stage'[t] \in {"sending", "sent"} => stage[t] \in {"sending", "sent"}
    BY <2>1
  <2>5. Clean => \A t \in Issued : slot[t][1] < epoch => stage'[t] = "sent" /\ nonce[t] < Base
    BY <2>1, <2>4 DEF CleanInv, Issued
  <2> QED BY <2>1, <2>2, <2>3, <2>4, <2>5 DEF CleanInv, Numbered
<1>9. ASSUME NEW s \in Sends, TakeNonce(s) PROVE CleanInv'
  <2>1. /\ s \in Issued /\ Issued' = Issued /\ stage[s] = "numbering"
        /\ \A t \in Sends : t # s => stage'[t] = stage[t] /\ nonce'[t] = nonce[t]
        /\ UNCHANGED <<epoch, read, delta, slot, skipped, holder, hasty>>
    BY <1>9 DEF TakeNonce, Issued, TypeOK
  <2>2. Base' = Base
    BY <2>1 DEF Base
  <2>3. CASE stage'[s] = "failed"
    <3>1. ~Clean'
      BY <2>3 DEF Clean
    <3> QED BY <2>1, <3>1 DEF CleanInv
  <2>4. CASE stage'[s] # "failed"
    <3>1. /\ stage'[s] = "sending" /\ nonce'[s] = read[slot[s][1]] + slot[s][2]
          /\ read[slot[s][1]] \in Nat /\ slot[s][2] \in Nat
      BY <1>9, <2>1, <2>4 DEF TakeNonce, TypeOK, Slots
    <3>2. nonce'[s] # -1
      BY <3>1
    <3>3. Clean' => Clean
      BY <2>1 DEF Clean
    <3>4. \A t \in Sends : /\ stage'[t] = "sent" <=> stage[t] = "sent"
                           /\ stage[t] = "sent" => nonce'[t] = nonce[t]
      BY <2>1, <3>1
    <3>5. Clean => \A t \in Sends : stage'[t] \in {"sending", "sent"} => nonce'[t] # -1
      BY <2>1, <3>2 DEF CleanInv, Numbered
    <3>6. Clean => \A t \in Issued : slot[t][1] < epoch => stage'[t] = "sent" /\ nonce'[t] < Base
      BY <3>4 DEF CleanInv, Issued
    <3> QED BY <2>1, <2>2, <3>3, <3>4, <3>5, <3>6 DEF CleanInv, Numbered
  <2> QED BY <2>3, <2>4
<1>10. ASSUME NEW s \in Sends, Accept(s) PROVE CleanInv'
  <2>1. /\ s \in Issued /\ Issued' = Issued /\ stage[s] = "sending"
        /\ \A t \in Sends : t # s => stage'[t] = stage[t]
        /\ stage'[s] \in {"sent", "failed"} /\ holder' = [holder EXCEPT ![nonce[s]] = s]
        /\ UNCHANGED <<epoch, read, delta, slot, skipped, nonce, hasty>>
    BY <1>10 DEF Accept, Issued, TypeOK
  <2>2. Base' = Base /\ holder' \in [Nonces -> Sends \cup {Nobody}]
    BY <2>1 DEF Base, CleanInv
  <2>3. CASE stage'[s] = "failed"
    <3>1. ~Clean'
      BY <2>3 DEF Clean
    <3> QED BY <2>1, <2>2, <3>1 DEF CleanInv
  <2>4. ASSUME stage'[s] = "sent", Clean
        PROVE  /\ \A t \in Sends : stage'[t] = "sent" => nonce[t] \in Nonces /\ holder'[nonce[t]] = t
               /\ \A n \in Nonces :
                    holder'[n] # Nobody <=>
                      \/ n < Base
                      \/ \E t \in Sends : stage'[t] = "sent" /\ slot[t][1] = epoch /\ nonce[t] = n
    <3>1. /\ slot[s][1] = epoch /\ nonce[s] = Base + slot[s][2] /\ nonce[s] \in Nonces
          /\ slot[s][2] \in Nat /\ Base \in Nat /\ delta \in Nat
      BY <2>1, <2>4, CleanFacts, NonceAssumption DEF TypeOK, Slots
    <3>2. \A n \in Nonces : holder'[n] = IF n = nonce[s] THEN s ELSE holder[n]
      BY <2>1, <3>1 DEF CleanInv
    <3>3. ASSUME NEW t \in Sends, t # s, stage[t] = "sent" PROVE nonce[t] # nonce[s]
      <4>1. t \in Issued /\ slot[t][1] <= epoch /\ slot[t][1] \in Nat
        BY <3>3, NonceAssumption DEF Issued, SlotsInRow, TypeOK, Slots, Epochs
      <4>2. CASE slot[t][1] = epoch
        <5>1. nonce[t] = Base + slot[t][2] /\ slot[t][2] \in Nat
          BY <2>4, <3>3, <4>2, CleanFacts DEF TypeOK, Slots
        <5>2. slot[t] # slot[s]
          BY <2>1, <3>3, <4>1 DEF SlotsInRow
        <5>3. slot[t][2] # slot[s][2]
          BY <3>1, <4>2, <5>2 DEF TypeOK, Slots
        <5> QED BY <3>1, <5>1, <5>3
      <4>3. CASE slot[t][1] < epoch
        <5>1. nonce[t] < Base /\ nonce[t] \in Nonces
          BY <2>4, <3>3, <4>1, <4>3 DEF CleanInv
        <5>2. nonce[t] \in Int
          BY DEF TypeOK
        <5> QED BY <3>1, <5>1, <5>2
      <4> QED BY <1>2, <4>1, <4>2, <4>3
    <3>4. \A t \in Sends : stage'[t] = "sent" => nonce[t] \in Nonces /\ holder'[nonce[t]] = t
      BY <2>1, <2>4, <3>1, <3>2, <3>3 DEF CleanInv
    <3>5. ASSUME NEW n \in Nonces
          PROVE  holder'[n] # Nobody <=>
                   \/ n < Base
                   \/ \E t \in Sends : stage'[t] = "sent" /\ slot[t][1] = epoch /\ nonce[t] = n
      <4>1. CASE n = nonce[s]
        BY <2>4, <3>1, <3>2, <4>1, NonceAssumption
      <4>2. CASE n # nonce[s]
        <5>1. holder'[n] = holder[n]
          BY <3>2, <4>2
        <5>2. \A t \in Sends : nonce[t] = n => (stage'[t] = "sent" <=> stage[t] = "sent")
          BY <2>1, <4>2
        <5> QED BY <2>4, <5>1, <5>2 DEF CleanInv
      <4> QED BY <4>1, <4>2
    <3> QED BY <3>4, <3>5
  <2>5. CASE stage'[s] = "sent"
    <3>1. Clean' => Clean
      BY <2>1 DEF Clean
    <3>2. Clean => \A t \in Sends : stage'[t] \in {"sending", "sent"} => Numbered(t)
      BY <2>1 DEF CleanInv
    <3>3. Clean => \A t \in Issued : slot[t][1] < epoch => stage'[t] = "sent" /\ nonce[t] < Base
      BY <2>1, <2>5 DEF CleanInv, Issued
    <3> QED BY <2>1, <2>2, <2>4, <2>5, <3>1, <3>2, <3>3 DEF CleanInv, Numbered
  <2> QED BY <2>1, <2>3, <2>5
<1>11. ASSUME NEW e \in Epochs, AnswerCount(e) PROVE CleanInv'
  <2>1. /\ read[e] = Pending
        /\ \E count \in {PendingCount, Failed} : read' = [read EXCEPT ![e] = count]
        /\ UNCHANGED <<epoch, delta, stage, slot, skipped, nonce, holder, hasty>>
    BY <1>11 DEF AnswerCount
  <2>2. \A d \in Epochs : d > epoch => read'[d] = NotAsked
    BY <1>1, <2>1 DEF CleanInv, TypeOK
  <2>3. ASSUME Clean, read'[epoch] \in Nat PROVE read'[epoch] = Base
    <3>1. CASE e # epoch
      BY <1>2, <2>1, <2>3, <3>1 DEF CleanInv, TypeOK
    <3>2. CASE e = epoch
      <4>1. read'[epoch] = PendingCount
        BY <1>1, <1>2, <2>1, <2>3, <3>2 DEF TypeOK
      <4>2. \A s \in Sends : ~ (stage[s] = "sent" /\ slot[s][1] = epoch)
        BY <1>1, <2>1, <2>3, <3>2 DEF CleanInv, NonceIsSum
      <4>3. /\ Base \in Nat /\ MaxNonce \in Nat /\ Base <= MaxNonce
        BY <1>2, <2>3, CleanFacts
      <4>4. \A n \in Nonces : holder[n] # Nobody <=> n < Base
        BY <2>3, <4>2 DEF CleanInv
      <4>5. PendingCount = Base
        <5>1. Base \in 0 .. MaxNonce + 1
          BY <4>3
        <5>2. \A n \in 0 .. Base - 1 : holder[n] # Nobody
          BY <4>3, <4>4 DEF Nonces
        <5>3. Base \in Nonces => holder[Base] = Nobody
          BY <4>3, <4>4
        <5> QED BY <4>3, <5>1, <5>2, <5>3, PendingCountIs
      <4> QED BY <4>1, <4>5
    <3> QED BY <3>1, <3>2
  <2> QED BY <1>3, <2>1, <2>2, <2>3
<1>12. CASE UNCHANGED vars
  <2>1. UNCHANGED <<epoch, delta, stage, slot, skipped, nonce, holder, hasty, read>>
    BY <1>12 DEF vars
  <2> QED BY <1>3, <2>1 DEF CleanInv
<1> QED BY <1>4, <1>5, <1>6, <1>7, <1>8, <1>9, <1>10, <1>11, <1>12 DEF Next

\* If nothing fails, nothing is skipped and reset waits for the calls, the
\* network ends up with every transaction and no gap.
THEOREM CleanRunsAreGapless == Spec => []CleanRunIsGapless
<1>1. Init => CleanInv
  <2> SUFFICES ASSUME Init PROVE CleanInv
    OBVIOUS
  <2>1. /\ Issued = {} /\ Cardinality(Issued) = 0 /\ delta = 0 /\ Base = 0 /\ epoch = 0
        /\ \A s \in Sends : stage[s] = "new"
    BY FS_EmptySet DEF Init, Issued, Base
  <2>2. \A e \in Epochs : read[e] = NotAsked
    BY DEF Init
  <2>3. NotAsked \notin Nat /\ 0 \in Epochs
    BY NonceAssumption DEF NotAsked, Epochs
  <2>4. holder = [n \in Nonces |-> Nobody] /\ \A n \in Nonces : ~ (n < 0)
    BY DEF Init, Nonces
  <2> QED BY <2>1, <2>2, <2>3, <2>4 DEF CleanInv
<1>2. TypeOK /\ SlotsInRow /\ NonceIsSum /\ CleanInv /\ [Next]_vars => CleanInv'
  BY CleanStep
<1>3. TypeOK /\ SlotsInRow /\ NonceIsSum /\ CleanInv => CleanRunIsGapless
  <2> SUFFICES ASSUME TypeOK, SlotsInRow, NonceIsSum, CleanInv, ~hasty, skipped = {}, Settled = Sends,
                      \A s \in Sends : stage[s] # "failed"
               PROVE  /\ \A s \in Issued : holder[nonce[s]] = s
                      /\ PendingCount = Cardinality(Issued)
    BY DEF CleanRunIsGapless
  <2>1. Clean /\ \A s \in Issued : stage[s] = "sent"
    BY DEF Clean, Settled, Issued
  <2>2. \A s \in Issued : holder[nonce[s]] = s
    BY <2>1 DEF CleanInv, Issued
  <2>3. /\ Cardinality(Issued) \in Nat /\ Base \in Nat /\ MaxNonce \in Nat /\ delta \in Nat
        /\ Base + delta = Cardinality(Issued) /\ Base + delta <= MaxNonce
        /\ \A s \in Issued : slot[s][1] = epoch => nonce[s] = Base + slot[s][2] /\ slot[s][2] \in 0 .. delta - 1
    BY <2>1, CleanFacts DEF Issued, TypeOK
  <2>4. ASSUME NEW n \in 0 .. Cardinality(Issued) - 1 PROVE holder[n] # Nobody
    <3>1. n \in Nonces
      BY <2>3 DEF Nonces
    <3>2. CASE n < Base
      BY <2>1, <3>1, <3>2 DEF CleanInv
    <3>3. CASE n >= Base
      <4>1. n - Base \in 0 .. delta - 1
        BY <2>3, <3>3
      <4>2. PICK s \in Issued : slot[s] = <<epoch, n - Base>>
        BY <4>1 DEF SlotsInRow, Taken
      <4>3. nonce[s] = n /\ stage[s] = "sent" /\ s \in Sends
        BY <2>1, <2>3, <4>2 DEF Issued
      <4> QED BY <2>1, <3>1, <4>2, <4>3 DEF CleanInv
    <3> QED BY <2>3, <3>2, <3>3
  <2>5. Cardinality(Issued) \in Nonces => holder[Cardinality(Issued)] = Nobody
    <3>1. \A s \in Sends : ~ (stage[s] = "sent" /\ slot[s][1] = epoch /\ nonce[s] = Cardinality(Issued))
      BY <2>3 DEF Issued
    <3> QED BY <2>1, <2>3, <3>1 DEF CleanInv
  <2> QED BY <2>2, <2>3, <2>4, <2>5, PendingCountIs
<1>4. Spec => []NonceIsSum
  <2>1. Init => NonceIsSum
    BY DEF Init, NonceIsSum, Numbered
  <2> QED BY <2>1, NonceIsSumStep, TypeCorrect, PTL DEF Spec
<1> QED BY <1>1, <1>2, <1>3, <1>4, TypeCorrect, SlotsAlwaysInRow, PTL DEF Spec
=============================================================================
