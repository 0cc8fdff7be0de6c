------------------------ MODULE FallbackRequestProofs ------------------------
(***************************************************************************)
(* Proofs about one request to a FallbackProvider, for every set of        *)
(* providers, weights, priorities, quorum and answers.                     *)
(***************************************************************************)
EXTENDS FallbackRequest, ProofLemmas, FiniteSetTheorems, SequenceTheorems

-----------------------------------------------------------------------------
(* Sequences without repetitions *)

\* A function on 1 .. k is a sequence.
LEMMA IsSeqOf ==
  ASSUME NEW S, NEW k \in Nat, NEW s \in [1 .. k -> S]
  PROVE  s \in Seq(S)
OBVIOUS

\* Appending a disjoint sequence keeps the entries apart and in place.
LEMMA ConcatInjective ==
  ASSUME NEW S, NEW s \in Seq(S), NEW t \in Seq(S),
         IsInjective(s), IsInjective(t), Range(s) \cap Range(t) = {}
  PROVE  /\ s \o t \in Seq(S)
         /\ IsInjective(s \o t)
         /\ Range(s \o t) = Range(s) \cup Range(t)
         /\ DOMAIN s \subseteq DOMAIN (s \o t)
         /\ \A i \in DOMAIN s : (s \o t)[i] = s[i]
<1> DEFINE u == s \o t
<1>1. /\ u \in Seq(S)
      /\ Len(u) = Len(s) + Len(t)
      /\ \A i \in 1 .. Len(s) + Len(t) : u[i] = IF i <= Len(s) THEN s[i] ELSE t[i - Len(s)]
  BY ConcatProperties
<1>2. /\ Len(s) \in Nat /\ Len(t) \in Nat
      /\ DOMAIN s = 1 .. Len(s) /\ DOMAIN t = 1 .. Len(t) /\ DOMAIN u = 1 .. Len(u)
  BY <1>1, LenProperties
<1> HIDE DEF u
<1>3. \A i \in DOMAIN u : \/ i \in DOMAIN s /\ u[i] = s[i]
                          \/ i - Len(s) \in DOMAIN t /\ u[i] = t[i - Len(s)]
  BY <1>1, <1>2
<1>4. IsInjective(u)
  <2> SUFFICES ASSUME NEW i \in DOMAIN u, NEW j \in DOMAIN u, u[i] = u[j]
               PROVE  i = j
    BY DEF IsInjective
  <2>1. CASE i <= Len(s) /\ j <= Len(s)
    BY <2>1, <1>1, <1>2 DEF IsInjective
  <2>2. CASE i > Len(s) /\ j > Len(s)
    <3>1. i - Len(s) \in DOMAIN t /\ j - Len(s) \in DOMAIN t
      BY <2>2, <1>1, <1>2
    <3>2. t[i - Len(s)] = t[j - Len(s)]
      BY <2>2, <1>1, <1>2
    <3>3. i - Len(s) = j - Len(s)
      BY <3>1, <3>2 DEF IsInjective
    <3> QED BY <3>3, <1>1, <1>2
  <2>3. CASE i <= Len(s) /\ j > Len(s)
    <3>1. s[i] \in Range(s) /\ t[j - Len(s)] \in Range(t)
      BY <2>3, <1>1, <1>2 DEF Range
    <3>2. u[i] = s[i] /\ u[j] = t[j - Len(s)]
      BY <2>3, <1>1, <1>2
    <3> QED BY <3>1, <3>2
  <2>4. CASE i > Len(s) /\ j <= Len(s)
    <3>1. s[j] \in Range(s) /\ t[i - Len(s)] \in Range(t)
      BY <2>4, <1>1, <1>2 DEF Range
    <3>2. u[j] = s[j] /\ u[i] = t[i - Len(s)]
      BY <2>4, <1>1, <1>2
    <3> QED BY <3>1, <3>2
  <2> QED BY <2>1, <2>2, <2>3, <2>4, <1>1, <1>2
<1>5. Range(u) = Range(s) \cup Range(t)
  <2>1. Range(u) \subseteq Range(s) \cup Range(t)
    BY <1>3 DEF Range
  <2>2. \A i \in DOMAIN s : i \in DOMAIN u /\ u[i] = s[i]
    BY <1>1, <1>2
  <2>3. \A i \in DOMAIN t : i + Len(s) \in DOMAIN u /\ u[i + Len(s)] = t[i]
    BY <1>1, <1>2
  <2>4. Range(s) \subseteq Range(u)
    BY <2>2 DEF Range
  <2>5. ASSUME NEW x \in Range(t) PROVE x \in Range(u)
    <3>1. PICK i \in DOMAIN t : x = t[i]
      BY DEF Range
    <3>2. i + Len(s) \in DOMAIN u /\ x = u[i + Len(s)]
      BY <2>3, <3>1
    <3> QED BY <3>2 DEF Range
  <2> QED BY <2>1, <2>4, <2>5
<1>6. DOMAIN s \subseteq DOMAIN u /\ \A i \in DOMAIN s : u[i] = s[i]
  BY <1>1, <1>2
<1> QED BY <1>1, <1>4, <1>5, <1>6 DEF u

-----------------------------------------------------------------------------
(* Votes *)

\* The earliest of a nonempty set of positions is one of them.
LEMMA EarliestIsMember ==
  ASSUME NEW S \in SUBSET Nat, S # {}
  PROVE  Earliest(S) \in S /\ \A j \in S : Earliest(S) <= j
BY LeastNat DEF Earliest

\* What checkQuorum decides is the value of a row whose tag meets the quorum
\* and outweighs every other tag.
LEMMA CheckQuorumSound ==
  ASSUME NEW quorum \in Nat, NEW results,
         DOMAIN results \subseteq Nat,
         \A t : TagWeight(results, t) \in Nat,
         CheckQuorum(quorum, results).decided
  PROVE  \E i \in DOMAIN results :
           /\ CheckQuorum(quorum, results).value = results[i].value
           /\ TagWeight(results, results[i].tag) >= quorum
           /\ \A t \in TagsOf(results) :
                TagWeight(results, t) <= TagWeight(results, results[i].tag)
<1> DEFINE best == BestPositions(quorum, results)
<1>1. best # {}
  BY DEF CheckQuorum, Undefined
<1>2. best \subseteq DOMAIN results
  BY DEF BestPositions
<1>3. Earliest(best) \in best
  BY <1>1, <1>2, EarliestIsMember
<1>4. CheckQuorum(quorum, results).value = results[Earliest(best)].value
  BY <1>1 DEF CheckQuorum, Decided
<1>5. results[Earliest(best)].tag \in MeetingQuorum(quorum, results)
  BY <1>3 DEF BestPositions
<1>6. TagWeight(results, results[Earliest(best)].tag) >= quorum
  BY <1>5 DEF MeetingQuorum
<1>7. ASSUME NEW t \in TagsOf(results)
      PROVE  TagWeight(results, t) <= TagWeight(results, results[Earliest(best)].tag)
  <2>1. CASE t \in MeetingQuorum(quorum, results)
    BY <2>1, <1>3 DEF BestPositions
  <2>2. CASE t \notin MeetingQuorum(quorum, results)
    <3>1. ~(TagWeight(results, t) >= quorum)
      BY <2>2 DEF MeetingQuorum
    <3> QED BY <3>1, <1>6
  <2> QED BY <2>1, <2>2
<1> QED BY <1>2, <1>3, <1>4, <1>6, <1>7

-----------------------------------------------------------------------------
(* Dispatching *)

\* #getNextConfig never picks a config that is already running, and the
\* configs added in one go differ from each other.
LEMMA DispatchFresh ==
  ASSUME TypeOK, NEW n \in Nat, NEW s \in DispatchOrders(n), AddRunners(s)
  PROVE  /\ running' \in Seq(Configs) /\ IsInjective(running')
         /\ Range(s) \subseteq Configs /\ Range(s) \cap Running = {}
         /\ Running' = Running \cup Range(s)
         /\ DOMAIN running \subseteq DOMAIN running'
         /\ \A i \in DOMAIN running : running'[i] = running[i]
<1> DEFINE unused == Configs \ Running
           k == IF n < Cardinality(unused) THEN n ELSE Cardinality(unused)
<1>1. IsFiniteSet(unused) /\ Cardinality(unused) \in Nat
  BY RequestAssumption, FS_Difference, FS_CardinalityType
<1>2. k \in Nat
  BY <1>1
<1>3. s \in [1 .. k -> unused] /\ IsInjective(s)
  BY DEF DispatchOrders
<1>4. s \in Seq(Configs)
  <2>1. s \in [1 .. k -> Configs]
    BY <1>3
  <2> HIDE DEF k
  <2> QED BY <1>2, <2>1, IsSeqOf
<1>5. Range(s) \subseteq unused
  BY <1>3 DEF Range
<1>6. running \in Seq(Configs) /\ IsInjective(running) /\ Range(running) \cap Range(s) = {}
  BY <1>5 DEF TypeOK, Running
<1>7. running' = running \o s
  BY DEF AddRunners
<1> QED BY <1>3, <1>4, <1>5, <1>6, <1>7, ConcatInjective DEF Running

-----------------------------------------------------------------------------
(* Type correctness *)

\* The rows #checkQuorum builds: one per runner with a result.
LEMMA ResultsTyped ==
  ASSUME TypeOK
  PROVE  /\ DOMAIN Results \subseteq DOMAIN running
         /\ \A i \in DOMAIN Results :
              /\ Results[i] \in ResultRows
              /\ running[i] \in Configs
              /\ result[running[i]] # NoAnswer
              /\ Results[i].value = result[running[i]]
              /\ Results[i].tag = Tag[result[running[i]]]
              /\ Results[i].weight = Weight[running[i]]
<1>1. \A i \in DOMAIN running : running[i] \in Configs
  BY ElementOfSeq, LenProperties DEF TypeOK
<1>2. DOMAIN Results = {j \in DOMAIN running : result[running[j]] # NoAnswer}
  BY DEF Results
<1>3. ASSUME NEW i \in DOMAIN Results
      PROVE  Results[i] = [tag |-> Tag[result[running[i]]], value |-> result[running[i]],
                           weight |-> Weight[running[i]]]
  BY <1>2 DEF Results
<1>4. ASSUME NEW i \in DOMAIN Results
      PROVE  result[running[i]] \in Answers /\ Weight[running[i]] \in Nat
  BY <1>1, <1>2, RequestAssumption DEF TypeOK
<1>5. ASSUME NEW i \in DOMAIN Results PROVE Results[i] \in ResultRows
  BY <1>3, <1>4 DEF ResultRows
<1>6. ASSUME NEW i \in DOMAIN Results
      PROVE  /\ Results[i].value = result[running[i]]
             /\ Results[i].tag = Tag[result[running[i]]]
             /\ Results[i].weight = Weight[running[i]]
  BY <1>3
<1>7. ASSUME NEW i \in DOMAIN Results
      PROVE  running[i] \in Configs /\ result[running[i]] # NoAnswer
  BY <1>1, <1>2
<1> QED BY <1>2, <1>5, <1>6, <1>7

\* The runners a pass bumps are finitely many.
LEMMA BumpsCounted == TypeOK => Cardinality(ToBump) \in Nat
<1> SUFFICES ASSUME TypeOK PROVE Cardinality(ToBump) \in Nat
  OBVIOUS
<1>1. ToBump \subseteq Configs
  BY ElementOfSeq, LenProperties DEF ToBump, TypeOK, Running, Range
<1> QED BY <1>1, RequestAssumption, FS_Subset, FS_CardinalityType

\* Tables of rows for runners have finitely many positions, and every tag a
\* natural weight in them.
LEMMA RowsFinite ==
  ASSUME TypeOK, NEW rows, DOMAIN rows \subseteq DOMAIN running,
         \A i \in DOMAIN rows : rows[i] \in ResultRows
  PROVE  /\ DOMAIN rows \subseteq Nat /\ IsFiniteSet(DOMAIN rows)
         /\ \A t : TagWeight(rows, t) \in Nat
<1>1. DOMAIN running = 1 .. Len(running) /\ Len(running) \in Nat
  BY LenProperties DEF TypeOK
<1>2. DOMAIN running \subseteq Nat /\ IsFiniteSet(DOMAIN running)
  BY <1>1, FS_Interval
<1>3. DOMAIN rows \subseteq Nat /\ IsFiniteSet(DOMAIN rows)
  BY <1>2, FS_Subset
<1>4. ASSUME NEW t PROVE TagWeight(rows, t) \in Nat
  <2> DEFINE S == TagPositions(rows, t)
             w == [i \in DOMAIN rows |-> rows[i].weight]
  <2>1. S \subseteq DOMAIN rows /\ IsFiniteSet(S)
    BY <1>3, FS_Subset DEF TagPositions
  <2>2. \A i \in S : w[i] \in Nat /\ w[i] = rows[i].weight
    BY <2>1 DEF ResultRows
  <2> HIDE DEF S, w
  <2>3. IsFiniteSet(UNION {{i} \X (1 .. w[i]) : i \in S})
    BY <2>1, <2>2, FiniteVotes
  <2>4. Votes(rows, S) = UNION {{i} \X (1 .. w[i]) : i \in S}
    BY <2>2 DEF Votes
  <2>5. Cardinality(Votes(rows, S)) \in Nat
    BY <2>3, <2>4, FS_CardinalityType
  <2> QED BY <2>5 DEF TagWeight, Weigh, S
<1> QED BY <1>3, <1>4

\* The value of a decision was given by one of the rows.
LEMMA DecisionIsAnswer ==
  ASSUME TypeOK, NEW rows, DOMAIN rows \subseteq DOMAIN running,
         \A i \in DOMAIN rows : rows[i] \in ResultRows,
         Decision(rows).decided
  PROVE  \E i \in DOMAIN rows : Decision(rows).value = rows[i].value
<1>1. DOMAIN rows \subseteq Nat /\ \A t : TagWeight(rows, t) \in Nat
  BY RowsFinite
<1>2. CASE CheckQuorum(Quorum, rows).decided /\ Decision(rows) = CheckQuorum(Quorum, rows)
  <2>1. Quorum \in Nat
    BY RequestAssumption
  <2> QED BY <1>1, <1>2, <2>1, CheckQuorumSound
<1>3. CASE /\ Decision(rows) = GetAnyResult(Quorum, rows, Falsy)
           /\ ~CheckQuorum(Quorum, rows).decided
  <2> DEFINE usable == {i \in DOMAIN rows : rows[i].value \notin Falsy}
  <2>1. usable # {} /\ Decision(rows) = Decided(rows[Earliest(usable)].value)
    BY <1>3 DEF GetAnyResult, Undefined
  <2>2. Earliest(usable) \in usable
    <3>1. usable \subseteq Nat
      BY <1>1
    <3> HIDE DEF usable
    <3> QED BY <2>1, <3>1, EarliestIsMember
  <2>3. Earliest(usable) \in DOMAIN rows
    BY <2>2
  <2> HIDE DEF usable
  <2>4. Decision(rows).value = rows[Earliest(usable)].value
    BY <2>1 DEF Decided
  <2> QED BY <2>3, <2>4
<1> QED BY <1>2, <1>3 DEF Decision, GetAnyResult, Undefined

\* The state the constructor leaves is well-typed.
LEMMA InitType == Init => TypeOK
<1> SUFFICES ASSUME Init PROVE TypeOK
  OBVIOUS
<1>1. running \in Seq(Configs) /\ IsInjective(running) /\ Running = {}
  BY EmptySeq DEF Init, IsInjective, Running, Range
<1> QED BY <1>1 DEF Init, TypeOK, Phases

\* Every step keeps the state well-typed.
LEMMA NextType == TypeOK /\ [Next]_vars => TypeOK'
<1> SUFFICES ASSUME TypeOK, [Next]_vars PROVE TypeOK'
  OBVIOUS
<1>1. CASE Perform
  <2>1. PICK s \in DispatchOrders(Quorum) : AddRunners(s)
    BY <1>1 DEF Perform
  <2>2. Quorum \in Nat
    BY RequestAssumption
  <2>3. /\ running' \in Seq(Configs) /\ IsInjective(running')
        /\ Range(s) \cap Running = {} /\ Running' = Running \cup Range(s)
        /\ DOMAIN running \subseteq DOMAIN running'
    BY <2>1, <2>2, DispatchFresh
  <2> QED BY <1>1, <2>1, <2>3 DEF TypeOK, Perform, AddRunners, Phases
<1>2. CASE Broadcast
  <2>1. /\ running' \in [1 .. Cardinality(Configs) -> Configs]
        /\ IsInjective(running')
        /\ \A c \in Configs : \E i \in 1 .. Cardinality(Configs) : running'[i] = c
    BY <1>2 DEF Broadcast, Bijection, Injection, Surjection
  <2>2. Running' = Configs
    BY <2>1 DEF Running, Range
  <2>3. Cardinality(Configs) \in Nat
    BY RequestAssumption, FS_CardinalityType
  <2>4. running' \in Seq(Configs)
    BY <2>1, <2>3, IsSeqOf
  <2>5. Running = {} /\ DOMAIN counted = {}
    <3>1. running = <<>> /\ DOMAIN counted \subseteq DOMAIN running
      BY <1>2 DEF TypeOK, Broadcast
    <3>2. DOMAIN running = {}
      BY <3>1
    <3> QED BY <3>1, <3>2 DEF Running, Range
  <2>6. /\ phase' = "broadcasting" /\ strategy' = "broadcast"
        /\ performing' = Configs /\ performing = {} /\ stalling = {} /\ bumped = {} /\ late = {}
        /\ UNCHANGED <<strategy, stalling, bumped, result, awaited, newRunners, counted,
                       outcome, late>>
    BY <1>2, <2>5 DEF TypeOK, Broadcast
  <2>7. {c \in Configs : result'[c] # NoAnswer} = Running' \ performing'
    BY <2>2, <2>5, <2>6 DEF TypeOK
  <2> QED BY <2>1, <2>2, <2>4, <2>5, <2>6, <2>7 DEF TypeOK, Phases
<1>3. CASE FinishBroadcast
  <2>1. DOMAIN Results \subseteq DOMAIN running /\ \A i \in DOMAIN Results : Results[i] \in ResultRows
    BY ResultsTyped
  <2>2. /\ phase' \in {"returned", "threw", "not met"}
        /\ outcome' \in Answers \cup {NoAnswer}
    <3>1. CASE Decision(Results).decided
      <4>1. Decision(Results).value \in Answers
        BY <2>1, <3>1, DecisionIsAnswer DEF ResultRows
      <4> QED BY <1>3, <3>1, <4>1 DEF FinishBroadcast
    <3>2. CASE ~Decision(Results).decided
      BY <1>3, <3>2 DEF FinishBroadcast, TypeOK
    <3> QED BY <3>1, <3>2
  <2>3. /\ UNCHANGED <<strategy, running, performing, stalling, bumped, result, awaited,
                       newRunners, late, Running>>
        /\ counted' = Results
    BY <1>3 DEF FinishBroadcast, Running
  <2> QED BY <2>1, <2>2, <2>3 DEF TypeOK, Phases
<1>4. ASSUME NEW c \in Configs, NEW a \in MayAnswer[c], Respond(c, a) PROVE TypeOK'
  <2>1. a \in Answers /\ a # NoAnswer
    BY RequestAssumption DEF Answers
  <2>2. /\ result' = [result EXCEPT ![c] = a] /\ performing' = performing \ {c}
        /\ c \in Running
        /\ phase' \in {phase, "pass"} /\ phase # "idle"
        /\ UNCHANGED <<strategy, running, stalling, bumped, awaited, newRunners, counted,
                       outcome, late, Running>>
    BY <1>4 DEF Respond, Wake, Running, TypeOK, Range
  <2>3. result' \in [Configs -> Answers \cup {NoAnswer}]
    BY <2>1, <2>2 DEF TypeOK
  <2>4. {d \in Configs : result'[d] # NoAnswer} = Running' \ performing'
    BY <2>1, <2>2 DEF TypeOK
  <2>5. phase' # "idle" /\ phase' \in Phases
    BY <2>2 DEF TypeOK, Phases
  <2>6. /\ performing' \subseteq Running' /\ stalling' \subseteq Running'
        /\ bumped' \subseteq Running' /\ late' \subseteq Running'
    BY <2>2 DEF TypeOK
  <2> QED BY <2>2, <2>3, <2>4, <2>5, <2>6 DEF TypeOK
<1>5. ASSUME NEW c \in Configs, Stall(c) PROVE TypeOK'
  <2>1. /\ stalling' = stalling \ {c} /\ c \in Running
        /\ phase' \in {phase, "pass"} /\ phase # "idle"
        /\ UNCHANGED <<strategy, running, performing, bumped, result, awaited, newRunners,
                       counted, outcome, late, Running>>
    BY <1>5 DEF Stall, Wake, Running, TypeOK, Range
  <2> QED BY <2>1 DEF TypeOK, Phases
<1>6. CASE StartPass
  <2>1. Cardinality(ToBump) \in Nat
    BY BumpsCounted
  <2>2. ToBump \subseteq Running /\ Interesting \subseteq Promises
    <3>1. Running \subseteq Configs
      BY ElementOfSeq, LenProperties DEF TypeOK, Running, Range
    <3> QED BY <3>1 DEF ToBump, Interesting, Promises, TypeOK
  <2>3. /\ phase' = "tallied" /\ counted' = Results /\ newRunners' = Cardinality(ToBump)
        /\ bumped' = bumped \cup ToBump /\ awaited' = Interesting
        /\ UNCHANGED <<strategy, running, performing, stalling, result, outcome, late, Running>>
    BY <1>6 DEF StartPass, Running
  <2> QED BY <2>1, <2>2, <2>3, ResultsTyped DEF TypeOK, Phases
<1>7. CASE PassDecides
  <2>1. Decision(counted).value \in Answers
    BY <1>7, DecisionIsAnswer DEF ResultRows, PassDecides, TypeOK
  <2>2. /\ phase' \in {"returning", "threw"} /\ outcome' \in Answers
        /\ UNCHANGED <<strategy, running, performing, stalling, bumped, result, awaited,
                       newRunners, counted, late, Running>>
    BY <1>7, <2>1 DEF PassDecides, Running
  <2> QED BY <2>2 DEF TypeOK, Phases
<1>8. CASE PassWaits \/ PassGivesUp
  <2>1. PICK s \in DispatchOrders(newRunners) : AddRunners(s)
    BY <1>8 DEF PassWaits, PassGivesUp
  <2>2. newRunners \in Nat
    BY DEF TypeOK
  <2>3. /\ running' \in Seq(Configs) /\ IsInjective(running')
        /\ Range(s) \cap Running = {} /\ Running' = Running \cup Range(s)
        /\ DOMAIN running \subseteq DOMAIN running'
    BY <2>1, <2>2, DispatchFresh
  <2>4. /\ phase' \in {"waiting", "pass", "not met"}
        /\ UNCHANGED <<strategy, bumped, result, awaited, newRunners, counted, outcome, late>>
    BY <1>8 DEF PassWaits, PassGivesUp
  <2> QED BY <2>1, <2>3, <2>4 DEF TypeOK, AddRunners, Phases
<1>9. CASE CountLate
  BY <1>9 DEF CountLate, TypeOK, Phases, Running
<1>10. CASE UNCHANGED vars
  BY <1>10 DEF vars, TypeOK, Running
<1> QED BY <1>1, <1>2, <1>3, <1>4, <1>5, <1>6, <1>7, <1>8, <1>9, <1>10 DEF Next, Turn

\* Every reachable state is well-typed: no config runs twice in a request, and
\* a runner has its result exactly when its sub-request has come back.
THEOREM TypeCorrect == Spec => []TypeOK
<1>1. Init => TypeOK
  BY InitType
<1>2. TypeOK /\ [Next]_vars => TypeOK'
  BY NextType
<1> QED BY <1>1, <1>2, PTL DEF Spec

-----------------------------------------------------------------------------
(* No completion is overlooked *)

\* A step neither loses a promise a pass watches nor leaves a waiting request
\* with one that has resolved.
LEMMA NoMissedWakeupStep == TypeOK /\ NoMissedWakeup /\ [Next]_vars => NoMissedWakeup'
<1> SUFFICES ASSUME TypeOK, NoMissedWakeup, [Next]_vars PROVE NoMissedWakeup'
  OBVIOUS
<1>1. CASE Perform \/ Broadcast \/ FinishBroadcast \/ PassDecides \/ PassGivesUp \/ CountLate
  BY <1>1 DEF Perform, Broadcast, FinishBroadcast, PassDecides, PassGivesUp, CountLate,
     NoMissedWakeup
<1>2. CASE StartPass
  <2>1. ASSUME NEW i \in DOMAIN running \ DOMAIN Results
        PROVE  <<"perform", running[i]>> \in Interesting
    <3>1. result[running[i]] = NoAnswer
      BY DEF Results
    <3>2. running[i] \in Running /\ running[i] \in Configs
      BY ElementOfSeq, LenProperties DEF Running, Range, TypeOK
    <3>3. running[i] \in performing
      BY <3>1, <3>2 DEF TypeOK
    <3> QED BY <3>3 DEF Interesting
  <2> QED BY <1>2, <2>1 DEF StartPass, NoMissedWakeup
<1>3. CASE PassWaits
  <2>1. PICK s \in DispatchOrders(newRunners) : AddRunners(s)
    BY <1>3 DEF PassWaits
  <2>2. Interesting \subseteq Interesting'
    BY <2>1 DEF AddRunners, Interesting
  <2> QED BY <1>3, <2>2 DEF PassWaits, NoMissedWakeup
<1>4. ASSUME NEW c \in Configs, NEW a \in MayAnswer[c], Respond(c, a) PROVE NoMissedWakeup'
  BY <1>4 DEF Respond, Wake, NoMissedWakeup, Interesting
<1>5. ASSUME NEW c \in Configs, Stall(c) PROVE NoMissedWakeup'
  BY <1>5 DEF Stall, Wake, NoMissedWakeup, Interesting
<1>6. CASE UNCHANGED vars
  BY <1>6 DEF vars, NoMissedWakeup, Interesting
<1> QED BY <1>1, <1>2, <1>3, <1>4, <1>5, <1>6 DEF Next, Turn

\* A request never waits for a promise that has already resolved, and every
\* runner is counted or watched by the pass that awaits its decision.
THEOREM NoWakeupLost == Spec => []NoMissedWakeup
<1>1. Init => NoMissedWakeup
  BY DEF Init, NoMissedWakeup
<1>2. TypeOK /\ NoMissedWakeup /\ [Next]_vars => NoMissedWakeup'
  BY NoMissedWakeupStep
<1> QED BY <1>1, <1>2, TypeCorrect, PTL DEF Spec

-----------------------------------------------------------------------------
(* Answers are never retracted *)

\* Rows are own if each is what the runner at its position answered.
Own(rows, order, answer) ==
  \A i \in DOMAIN rows :
    /\ answer[order[i]] # NoAnswer
    /\ rows[i].value = answer[order[i]]
    /\ rows[i].tag = Tag[answer[order[i]]]
    /\ rows[i].weight = Weight[order[i]]

\* A step attributes no answer to a provider but its own, and changes none
\* that a pass has counted.
LEMMA AnswersAreOwnStep ==
  TypeOK /\ AnswersAreOwn /\ [Next]_vars => AnswersAreOwn'
<1> SUFFICES ASSUME TypeOK, AnswersAreOwn, [Next]_vars PROVE AnswersAreOwn'
  OBVIOUS
<1>1. Own(Results, running, result) /\ Own(counted, running, result)
  BY ResultsTyped DEF AnswersAreOwn, Own
<1>2. DOMAIN counted \subseteq DOMAIN running
  BY DEF TypeOK
<1>3. ASSUME counted' \in {counted, Results}, UNCHANGED <<running, result>>
      PROVE  AnswersAreOwn'
  BY <1>1, <1>3 DEF AnswersAreOwn, Own
<1>4. CASE StartPass \/ PassDecides \/ CountLate \/ FinishBroadcast
  BY <1>3, <1>4 DEF StartPass, PassDecides, CountLate, FinishBroadcast
<1>5. ASSUME NEW n \in Nat, NEW s \in DispatchOrders(n), AddRunners(s),
             UNCHANGED <<counted, result>>
      PROVE  AnswersAreOwn'
  <2>1. \A i \in DOMAIN running : running'[i] = running[i]
    BY <1>5, DispatchFresh
  <2>2. Own(counted', running', result')
    BY <1>1, <1>2, <1>5, <2>1 DEF Own
  <2> QED BY <1>5, <2>2 DEF AnswersAreOwn, Own
<1>6. CASE Perform
  <2>1. Quorum \in Nat
    BY RequestAssumption
  <2> QED BY <1>5, <1>6, <2>1 DEF Perform
<1>7. CASE PassWaits \/ PassGivesUp
  <2>1. newRunners \in Nat
    BY DEF TypeOK
  <2> QED BY <1>5, <1>7, <2>1 DEF PassWaits, PassGivesUp
<1>8. CASE Broadcast
  <2>1. DOMAIN counted = {}
    <3>1. running = <<>>
      BY <1>8 DEF Broadcast, TypeOK
    <3>2. DOMAIN running = {}
      BY <3>1
    <3> QED BY <1>2, <3>2
  <2> QED BY <1>8, <2>1 DEF Broadcast, AnswersAreOwn
<1>9. ASSUME NEW c \in Configs, NEW a \in MayAnswer[c], Respond(c, a) PROVE AnswersAreOwn'
  <2>1. result' = [result EXCEPT ![c] = a] /\ UNCHANGED <<running, counted>>
    BY <1>9 DEF Respond
  <2>2. result[c] = NoAnswer
    BY <1>9 DEF Respond, TypeOK
  <2>3. ASSUME NEW i \in DOMAIN counted PROVE running[i] # c
    BY <2>2 DEF AnswersAreOwn
  <2>4. Own(counted', running', result')
    BY <1>1, <2>1, <2>3 DEF Own
  <2> QED BY <2>1, <2>4 DEF AnswersAreOwn, Own, TypeOK
<1>10. ASSUME NEW c \in Configs, Stall(c) PROVE AnswersAreOwn'
  BY <1>10 DEF Stall, AnswersAreOwn
<1>11. CASE UNCHANGED vars
  BY <1>11 DEF vars, AnswersAreOwn
<1> QED BY <1>4, <1>6, <1>7, <1>8, <1>9, <1>10, <1>11 DEF Next, Turn

\* Whatever a pass counts is a provider's own answer and remains so while the
\* decision is awaited and afterwards.
THEOREM AnswersStayOwn == Spec => []AnswersAreOwn
<1>1. Init => AnswersAreOwn
  BY DEF Init, AnswersAreOwn
<1>2. TypeOK /\ AnswersAreOwn /\ [Next]_vars => AnswersAreOwn'
  BY AnswersAreOwnStep
<1> QED BY <1>1, <1>2, TypeCorrect, PTL DEF Spec

-----------------------------------------------------------------------------
(* The quorum behind every outcome *)

\* Deciding is the only step that gives a request that needs agreement an
\* outcome; afterwards neither the outcome nor what was counted changes.
LEMMA QuorumBackedStep ==
  TypeOK /\ AnswersAreOwn /\ QuorumBacked /\ [Next]_vars => QuorumBacked'
<1> SUFFICES ASSUME TypeOK, AnswersAreOwn, QuorumBacked, [Next]_vars,
                    strategy' = "checkQuorum", phase' \in Answered
             PROVE  /\ TagWeight(counted, Tag[outcome])' >= Quorum
                    /\ \A t \in TagsOf(counted') :
                         TagWeight(counted', t) <= TagWeight(counted', Tag[outcome'])
  BY DEF QuorumBacked
<1>1. CASE PassDecides
  <2>1. Decision(counted) = CheckQuorum(Quorum, counted) /\ Decision(counted).decided
    BY <1>1 DEF PassDecides, Decision, Undefined
  <2>2. Quorum \in Nat
    BY RequestAssumption
  <2>3. DOMAIN counted \subseteq Nat /\ \A t : TagWeight(counted, t) \in Nat
    BY RowsFinite DEF TypeOK
  <2>4. PICK i \in DOMAIN counted :
          /\ Decision(counted).value = counted[i].value
          /\ TagWeight(counted, counted[i].tag) >= Quorum
          /\ \A t \in TagsOf(counted) :
               TagWeight(counted, t) <= TagWeight(counted, counted[i].tag)
    BY <2>1, <2>2, <2>3, CheckQuorumSound
  <2>5. counted[i].tag = Tag[counted[i].value]
    BY DEF AnswersAreOwn
  <2>6. counted' = counted /\ outcome' = Decision(counted).value
    BY <1>1 DEF PassDecides
  <2> QED BY <2>4, <2>5, <2>6
<1>2. ASSUME phase \in Answered, UNCHANGED <<strategy, counted, outcome>>
      PROVE  /\ TagWeight(counted, Tag[outcome])' >= Quorum
             /\ \A t \in TagsOf(counted') :
                  TagWeight(counted', t) <= TagWeight(counted', Tag[outcome'])
  BY <1>2 DEF QuorumBacked
<1>3. CASE Perform \/ Broadcast \/ FinishBroadcast \/ StartPass \/ PassWaits \/ PassGivesUp
  BY <1>3, RequestAssumption DEF Perform, Broadcast, FinishBroadcast, StartPass, PassWaits,
     PassGivesUp, TypeOK, Answered
<1>4. CASE CountLate
  BY <1>2, <1>4 DEF CountLate, Answered
<1>5. ASSUME NEW c \in Configs, NEW a \in MayAnswer[c], Respond(c, a)
      PROVE  phase \in Answered /\ UNCHANGED <<strategy, counted, outcome>>
  BY <1>5 DEF Respond, Wake, Answered
<1>6. ASSUME NEW c \in Configs, Stall(c)
      PROVE  phase \in Answered /\ UNCHANGED <<strategy, counted, outcome>>
  BY <1>6 DEF Stall, Wake, Answered
<1>7. CASE UNCHANGED vars
  BY <1>2, <1>7 DEF vars
<1> QED BY <1>1, <1>2, <1>3, <1>4, <1>5, <1>6, <1>7 DEF Next, Turn

\* Under checkQuorum every outcome, value or error, was given by providers
\* whose weights reach the quorum, and no other answer outweighed it.
THEOREM OutcomeHasQuorum == Spec => []QuorumBacked
<1>1. Init => QuorumBacked
  BY DEF Init, QuorumBacked, Answered
<1>2. TypeOK /\ AnswersAreOwn /\ QuorumBacked /\ [Next]_vars => QuorumBacked'
  BY QuorumBackedStep
<1> QED BY <1>1, <1>2, TypeCorrect, AnswersStayOwn, PTL DEF Spec

-----------------------------------------------------------------------------
(* A minority cannot decide *)

\* The votes a set of runners' rows hold are the votes of their configs.
LEMMA VotesByConfig ==
  ASSUME TypeOK, NEW rows, NEW P \in SUBSET DOMAIN running,
         \A i \in P : rows[i].weight = Weight[running[i]]
  PROVE  LET S == {running[i] : i \in P}
         IN  /\ S \subseteq Configs
             /\ IsFiniteSet(ConfigVotes(S))
             /\ Weigh(rows, P) = Cardinality(ConfigVotes(S))
<1> DEFINE S == {running[i] : i \in P}
           V == Votes(rows, P)
           C == ConfigVotes(S)
           f == [v \in V |-> <<running[v[1]], v[2]>>]
<1>1. S \subseteq Configs
  BY ElementOfSeq, LenProperties DEF TypeOK
<1>2. IsFiniteSet(C)
  <2>1. IsFiniteSet(S) /\ \A c \in S : Weight[c] \in Nat
    BY <1>1, RequestAssumption, FS_Subset
  <2> HIDE DEF S
  <2> QED BY <2>1, FiniteVotes DEF ConfigVotes
<1>3. \A v : v \in V <=> /\ v = <<v[1], v[2]>>
                         /\ v[1] \in P /\ v[2] \in 1 .. Weight[running[v[1]]]
  BY DEF Votes
<1>4. \A v : v \in C <=> /\ v = <<v[1], v[2]>>
                         /\ v[1] \in S /\ v[2] \in 1 .. Weight[v[1]]
  BY DEF ConfigVotes
<1>5. f \in [V -> C]
  <2> SUFFICES ASSUME NEW v \in V PROVE <<running[v[1]], v[2]>> \in C
    OBVIOUS
  <2>1. v[1] \in P /\ v[2] \in 1 .. Weight[running[v[1]]]
    BY <1>3
  <2> QED BY <1>4, <2>1
<1>6. \A v, w \in V : f[v] = f[w] => v = w
  <2> SUFFICES ASSUME NEW v \in V, NEW w \in V, f[v] = f[w] PROVE v = w
    OBVIOUS
  <2>1. running[v[1]] = running[w[1]] /\ v[2] = w[2]
    OBVIOUS
  <2>2. v[1] \in DOMAIN running /\ w[1] \in DOMAIN running
    BY <1>3
  <2>3. v[1] = w[1]
    BY <2>1, <2>2 DEF TypeOK, IsInjective
  <2> QED BY <1>3, <2>1, <2>3
<1>7. \A c \in C : \E v \in V : f[v] = c
  <2> SUFFICES ASSUME NEW c \in C PROVE \E v \in V : f[v] = c
    OBVIOUS
  <2>1. PICK i \in P : c[1] = running[i]
    BY <1>4
  <2>2. c = <<running[i], c[2]>> /\ c[2] \in 1 .. Weight[running[i]]
    BY <1>4, <2>1
  <2>3. <<i, c[2]>> \in V
    BY <1>3, <2>2
  <2>4. f[<<i, c[2]>>] = c
    BY <2>2, <2>3
  <2> QED BY <2>3, <2>4
<1>8. Cardinality(V) = Cardinality(C)
  <2> HIDE DEF V, C, f
  <2>1. f \in Injection(V, C) /\ f \in Surjection(V, C)
    BY <1>5, <1>6, <1>7 DEF Injection, Surjection, IsInjective
  <2> QED BY <1>2, <2>1, FS_Injection
<1> QED BY <1>1, <1>2, <1>8 DEF Weigh

\* The providers that could give the outcome weigh at least a quorum: however
\* the events are ordered, providers of less weight cannot decide a request.
THEOREM NoMinorityDecision == Spec => []MinorityCannotDecide
<1>1. TypeOK /\ AnswersAreOwn /\ QuorumBacked => MinorityCannotDecide
  <2> SUFFICES ASSUME TypeOK, AnswersAreOwn, QuorumBacked,
                      phase \in Answered, strategy = "checkQuorum"
               PROVE  Cardinality(ConfigVotes(AbleToAnswer(Tag[outcome]))) >= Quorum
    BY DEF MinorityCannotDecide
  <2> DEFINE t == Tag[outcome]
             P == TagPositions(counted, t)
             S == {running[i] : i \in P}
             A == AbleToAnswer(t)
  <2>1. P \subseteq DOMAIN running /\ \A i \in P : counted[i].weight = Weight[running[i]]
    BY DEF TagPositions, TypeOK, AnswersAreOwn
  <2>2. Weigh(counted, P) = Cardinality(ConfigVotes(S))
    BY <2>1, VotesByConfig
  <2>3. Weigh(counted, P) >= Quorum
    BY DEF QuorumBacked, TagWeight
  <2>4. S \subseteq A
    <3> SUFFICES ASSUME NEW i \in P PROVE running[i] \in A
      OBVIOUS
    <3>1. running[i] \in Configs
      BY <2>1, ElementOfSeq, LenProperties DEF TypeOK
    <3>2. result[running[i]] \in MayAnswer[running[i]] /\ Tag[result[running[i]]] = t
      <4>1. i \in DOMAIN counted /\ counted[i].tag = t
        BY DEF TagPositions
      <4> QED BY <3>1, <4>1 DEF AnswersAreOwn
    <3> QED BY <3>1, <3>2 DEF AbleToAnswer
  <2>5. IsFiniteSet(ConfigVotes(A))
    <3>1. IsFiniteSet(A) /\ \A c \in A : Weight[c] \in Nat
      BY RequestAssumption, FS_Subset DEF AbleToAnswer
    <3> HIDE DEF A
    <3> QED BY <3>1, FiniteVotes DEF ConfigVotes
  <2>6. ConfigVotes(S) \subseteq ConfigVotes(A)
    <3> HIDE DEF S, A
    <3> QED BY <2>4 DEF ConfigVotes
  <2>7. /\ Cardinality(ConfigVotes(S)) <= Cardinality(ConfigVotes(A))
        /\ Cardinality(ConfigVotes(S)) \in Nat /\ Cardinality(ConfigVotes(A)) \in Nat
    <3> HIDE DEF S, A
    <3> QED BY <2>5, <2>6, FS_Subset, FS_CardinalityType
  <2>8. Quorum \in Nat
    BY RequestAssumption
  <2> QED BY <2>2, <2>3, <2>7, <2>8
<1> QED BY <1>1, TypeCorrect, AnswersStayOwn, OutcomeHasQuorum, PTL

-----------------------------------------------------------------------------
(* The request implements a vote *)

\* A table holds at most the votes cast for a tag, and all of them if it has a
\* row for every answer that has come in.
Complete(rows) == \A i \in DOMAIN running : result[running[i]] # NoAnswer => i \in DOMAIN rows

\* When no runner's answer is missing from the rows, a tag weighs in them what
\* its supporters weigh in the vote.
LEMMA TallyIsVote ==
  ASSUME TypeOK, NEW rows, DOMAIN rows \subseteq DOMAIN running, Own(rows, running, result),
         NEW t
  PROVE  /\ Vote!WeightOf(Vote!Supporters(t)) \in Nat
         /\ TagWeight(rows, t) \in Nat
         /\ TagWeight(rows, t) <= Vote!WeightOf(Vote!Supporters(t))
         /\ Complete(rows) => TagWeight(rows, t) = Vote!WeightOf(Vote!Supporters(t))
<1> DEFINE P == TagPositions(rows, t)
           S == {running[i] : i \in P}
           supporters == Vote!Supporters(t)
<1>1. P \subseteq DOMAIN running /\ \A i \in P : rows[i].weight = Weight[running[i]]
  BY DEF TagPositions, Own
<1>2. S \subseteq supporters
  <2> SUFFICES ASSUME NEW i \in P PROVE running[i] \in Vote!Supporters(t)
    OBVIOUS
  <2>1. running[i] \in Configs
    BY <1>1, ElementOfSeq, LenProperties DEF TypeOK
  <2> QED BY <2>1 DEF TagPositions, Own, Vote!Supporters
<1>3. ASSUME Complete(rows) PROVE supporters \subseteq S
  <2> SUFFICES ASSUME NEW c \in Vote!Supporters(t) PROVE c \in S
    OBVIOUS
  <2>1. c \in Configs /\ result[c] # NoAnswer /\ Tag[result[c]] = t
    BY DEF Vote!Supporters
  <2>2. c \in Running
    BY <2>1 DEF TypeOK
  <2>3. PICK i \in DOMAIN running : c = running[i]
    BY <2>2 DEF Running, Range
  <2>4. i \in DOMAIN rows
    BY <1>3, <2>1, <2>3 DEF Complete
  <2>5. i \in P
    BY <2>1, <2>3, <2>4 DEF TagPositions, Own
  <2> QED BY <2>3, <2>5
<1>4. Weigh(rows, P) = Cardinality(ConfigVotes(S)) /\ IsFiniteSet(ConfigVotes(S))
  BY <1>1, VotesByConfig
<1>5. TagWeight(rows, t) = Cardinality(ConfigVotes(S))
  BY <1>4 DEF TagWeight
<1>6. ASSUME NEW T PROVE Vote!WeightOf(T) = Cardinality(ConfigVotes(T))
  <2>1. UNION {{c} \X (1 .. Weight[c]) : c \in T} = ConfigVotes(T)
    BY DEF ConfigVotes
  <2> QED BY <2>1 DEF Vote!WeightOf, Vote!Cardinality, Cardinality
<1>7. IsFiniteSet(ConfigVotes(supporters))
  <2>1. IsFiniteSet(supporters) /\ \A c \in supporters : Weight[c] \in Nat
    BY RequestAssumption, FS_Subset DEF Vote!Supporters
  <2> HIDE DEF supporters
  <2> QED BY <2>1, FiniteVotes DEF ConfigVotes
<1> HIDE DEF S, supporters
<1>8. ConfigVotes(S) \subseteq ConfigVotes(supporters)
  BY <1>2 DEF ConfigVotes
<1>9. /\ Cardinality(ConfigVotes(S)) \in Nat /\ Cardinality(ConfigVotes(supporters)) \in Nat
      /\ Cardinality(ConfigVotes(S)) <= Cardinality(ConfigVotes(supporters))
  BY <1>4, <1>7, <1>8, FS_Subset, FS_CardinalityType
<1>10. ASSUME Complete(rows) PROVE S = supporters
  BY <1>2, <1>3, <1>10
<1> QED BY <1>5, <1>6, <1>9, <1>10 DEF supporters

\* If checkQuorum does not decide, no tag meets the quorum.
LEMMA CheckQuorumComplete ==
  ASSUME NEW quorum \in Nat, NEW results, NEW total \in Nat,
         \A t : TagWeight(results, t) \in 0 .. total,
         ~CheckQuorum(quorum, results).decided
  PROVE  \A t \in TagsOf(results) : TagWeight(results, t) < quorum
<1> DEFINE met == MeetingQuorum(quorum, results)
           slack == {n \in Nat : \E t \in met : n = total - TagWeight(results, t)}
<1>1. BestPositions(quorum, results) = {}
  BY DEF CheckQuorum, Decided
<1> SUFFICES ASSUME met # {} PROVE FALSE
  BY DEF MeetingQuorum
<1>2. slack # {} /\ slack \subseteq Nat
  OBVIOUS
<1>3. PICK n \in slack : \A k \in slack : n <= k
  <2> HIDE DEF slack
  <2> QED BY <1>2, EarliestIsMember
<1>4. PICK t \in met : n = total - TagWeight(results, t)
  BY <1>3
<1>5. ASSUME NEW u \in met PROVE TagWeight(results, u) <= TagWeight(results, t)
  <2>1. total - TagWeight(results, u) \in slack
    OBVIOUS
  <2>2. n <= total - TagWeight(results, u)
    BY <1>3, <2>1
  <2> QED BY <1>4, <2>2
<1>6. PICK i \in DOMAIN results : results[i].tag = t
  BY DEF MeetingQuorum, TagsOf
<1>7. i \in BestPositions(quorum, results)
  BY <1>5, <1>6 DEF BestPositions
<1> QED BY <1>1, <1>7

\* No tag outweighs all rows together.
LEMMA TagWeightBounded ==
  ASSUME TypeOK, NEW rows, DOMAIN rows \subseteq DOMAIN running, Own(rows, running, result)
  PROVE  /\ Weigh(rows, DOMAIN rows) \in Nat
         /\ \A t : TagWeight(rows, t) \in 0 .. Weigh(rows, DOMAIN rows)
<1>1. \A i \in DOMAIN rows : rows[i].weight = Weight[running[i]]
  BY DEF Own
<1> DEFINE all == {running[i] : i \in DOMAIN rows}
<1>2. /\ IsFiniteSet(ConfigVotes(all))
      /\ Weigh(rows, DOMAIN rows) = Cardinality(ConfigVotes(all))
  BY <1>1, VotesByConfig
<1>3. ASSUME NEW t PROVE TagWeight(rows, t) <= Weigh(rows, DOMAIN rows)
  <2> DEFINE P == TagPositions(rows, t)
             S == {running[i] : i \in P}
  <2>1. P \subseteq DOMAIN rows /\ P \subseteq DOMAIN running
    BY DEF TagPositions
  <2>2. Weigh(rows, P) = Cardinality(ConfigVotes(S))
    BY <1>1, <2>1, VotesByConfig
  <2>3. ConfigVotes(S) \subseteq ConfigVotes(all)
    BY <2>1 DEF ConfigVotes
  <2> HIDE DEF S, all
  <2> QED BY <1>2, <2>2, <2>3, FS_Subset DEF TagWeight
<1>4. Weigh(rows, DOMAIN rows) \in Nat
  <2> HIDE DEF all
  <2> QED BY <1>2, FS_CardinalityType
<1>5. ASSUME NEW t PROVE TagWeight(rows, t) \in Nat
  BY TallyIsVote
<1> QED BY <1>3, <1>4, <1>5

\* When a pass that has seen every answer does not decide, none is agreed on.
LEMMA UndecidedMeansNoAgreement ==
  ASSUME TypeOK, strategy = "checkQuorum", NEW rows, DOMAIN rows \subseteq DOMAIN running,
         Own(rows, running, result), Complete(rows), ~Decision(rows).decided,
         NEW c \in Configs, result[c] # NoAnswer
  PROVE  ~Vote!Agreed(result[c])
<1> DEFINE t == Tag[result[c]]
<1>1. Quorum \in Nat
  BY RequestAssumption
<1>2. t \in TagsOf(rows)
  <2>1. c \in Running
    BY DEF TypeOK
  <2>2. PICK i \in DOMAIN running : c = running[i]
    BY <2>1 DEF Running, Range
  <2>3. i \in DOMAIN rows
    BY <2>2 DEF Complete
  <2> QED BY <2>2, <2>3 DEF TagsOf, Own
<1>3. TagWeight(rows, t) < Quorum
  <2>1. CASE Weigh(rows, DOMAIN rows) < Quorum
    BY <1>1, <2>1, TagWeightBounded
  <2>2. CASE ~(Weigh(rows, DOMAIN rows) < Quorum)
    <3>1. ~CheckQuorum(Quorum, rows).decided
      BY <2>2 DEF Decision
    <3> QED BY <1>1, <1>2, <3>1, TagWeightBounded, CheckQuorumComplete
  <2> QED BY <2>1, <2>2
<1>4. TagWeight(rows, t) \in Nat /\ TagWeight(rows, t) = Vote!WeightOf(Vote!Supporters(t))
  BY TallyIsVote
<1> QED BY <1>1, <1>3, <1>4 DEF Vote!Agreed

\* A request that gives up has counted every answer that has come in.
LEMMA GivesUpOnEverything ==
  ASSUME TypeOK, NoMissedWakeup, phase = "tallied", awaited = {}
  PROVE  Complete(counted)
BY DEF NoMissedWakeup, Complete

\* Every step of the request is a step of the vote or leaves the vote alone.
LEMMA StepIsVote ==
  ASSUME Strategies = {"checkQuorum"}, TypeOK, AnswersAreOwn, NoMissedWakeup, [Next]_vars,
         phase \notin Closed => outcome = NoAnswer
  PROVE  [Vote!Next]_(Vote!vars)
<1> USE DEF Vote!vars
<1>1. strategy = "checkQuorum"
  BY DEF TypeOK
<1>2. DOMAIN counted \subseteq DOMAIN running /\ Own(counted, running, result)
  BY DEF TypeOK, AnswersAreOwn, Own
<1>3. CASE Perform \/ StartPass \/ PassWaits \/ CountLate
  BY <1>3 DEF Perform, StartPass, PassWaits, CountLate, Closed, Answered
<1>4. ASSUME NEW c \in Configs, NEW a \in MayAnswer[c], Respond(c, a)
      PROVE  Vote!Cast(c, a)
  <2>1. c \in Running \ {d \in Configs : result[d] # NoAnswer}
    BY <1>4 DEF Respond, TypeOK
  <2>2. result[c] = NoAnswer
    BY <2>1
  <2>3. phase' \in Closed <=> phase \in Closed
    BY <1>4 DEF Respond, Wake, Closed, Answered
  <2> QED BY <1>4, <2>2, <2>3 DEF Respond, Vote!Cast
<1>5. ASSUME NEW c \in Configs, Stall(c)
      PROVE  UNCHANGED Vote!vars
  BY <1>5 DEF Stall, Wake, Closed, Answered
<1>6. CASE PassDecides
  <2>1. Decision(counted).decided /\ Decision(counted) = CheckQuorum(Quorum, counted)
    BY <1>1, <1>6 DEF PassDecides, Decision, Undefined
  <2>2. Quorum \in Nat
    BY RequestAssumption
  <2>3. DOMAIN counted \subseteq Nat /\ \A t : TagWeight(counted, t) \in Nat
    BY RowsFinite DEF TypeOK
  <2>4. PICK i \in DOMAIN counted :
          /\ Decision(counted).value = counted[i].value
          /\ TagWeight(counted, counted[i].tag) >= Quorum
    BY <2>1, <2>2, <2>3, CheckQuorumSound
  <2>5. /\ running[i] \in Configs /\ result[running[i]] # NoAnswer
        /\ Decision(counted).value = result[running[i]]
        /\ counted[i].tag = Tag[result[running[i]]]
    BY <1>2, <2>4, ElementOfSeq, LenProperties DEF Own, TypeOK
  <2>6. Vote!Agreed(result[running[i]])
    <3> DEFINE t == Tag[result[running[i]]]
    <3>1. /\ TagWeight(counted, t) >= Quorum
          /\ TagWeight(counted, t) <= Vote!WeightOf(Vote!Supporters(t))
          /\ TagWeight(counted, t) \in Nat /\ Vote!WeightOf(Vote!Supporters(t)) \in Nat
      BY <1>2, <2>4, <2>5, TallyIsVote
    <3> QED BY <2>2, <3>1 DEF Vote!Agreed
  <2>7. /\ phase = "tallied" /\ phase' \in {"returning", "threw"}
        /\ outcome' = Decision(counted).value /\ UNCHANGED result
    BY <1>6 DEF PassDecides
  <2>8. Vote!Decide(running[i])
    BY <2>5, <2>6, <2>7 DEF Vote!Decide, Closed, Answered
  <2> QED BY <2>5, <2>8 DEF Vote!Next
<1>7. CASE PassGivesUp
  <2>1. /\ ~Decision(counted).decided /\ phase = "tallied" /\ phase' = "not met"
        /\ awaited = {} /\ UNCHANGED <<result, outcome>>
    BY <1>7 DEF PassGivesUp
  <2>2. Complete(counted)
    BY <2>1, GivesUpOnEverything
  <2>3. \A c \in Configs : result[c] # NoAnswer => ~Vote!Agreed(result[c])
    BY <1>1, <1>2, <2>1, <2>2, UndecidedMeansNoAgreement
  <2>4. Vote!GiveUp
    BY <2>1, <2>3 DEF Vote!GiveUp, Closed, Answered
  <2> QED BY <2>4 DEF Vote!Next
<1>8. CASE Broadcast \/ FinishBroadcast
  BY <1>1, <1>8 DEF Broadcast, FinishBroadcast, TypeOK
<1>9. CASE UNCHANGED vars
  BY <1>9 DEF vars
<1> QED BY <1>3, <1>4, <1>5, <1>6, <1>7, <1>8, <1>9 DEF Next, Turn, Vote!Next

\* A request that needs agreement promises its caller exactly what QuorumVote
\* says: one outcome, agreed on by a quorum of votes cast, or a failure that
\* is announced only while nothing is agreed on.
THEOREM Refinement ==
  ASSUME Strategies = {"checkQuorum"}
  PROVE  Spec => RequestImplementsVote
<1> DEFINE Unsettled == phase \notin Closed => outcome = NoAnswer
<1>1. Init => Vote!Init
  BY DEF Init, Vote!Init, Closed, Answered
<1>2. Init => Unsettled
  BY DEF Init
<1>3. Unsettled /\ TypeOK /\ [Next]_vars => Unsettled'
  BY DEF Next, Turn, Perform, Broadcast, FinishBroadcast, Respond, Stall, Wake, StartPass,
     PassDecides, PassWaits, PassGivesUp, CountLate, Closed, Answered, vars
<1>4. TypeOK /\ AnswersAreOwn /\ NoMissedWakeup /\ Unsettled /\ [Next]_vars
        => [Vote!Next]_(Vote!vars)
  BY StepIsVote
<1> HIDE DEF Unsettled
<1> QED BY <1>1, <1>2, <1>3, <1>4, TypeCorrect, AnswersStayOwn, NoWakeupLost, PTL
        DEF Spec, RequestImplementsVote, Vote!Spec

-----------------------------------------------------------------------------
(* Requests that take any answer, and requests that fail *)

\* When no decision can be taken on what was counted, no answer weighs a
\* quorum, and under getAnyResult there was no usable one.
LEMMA UndecidedIsHopeless ==
  ASSUME TypeOK, NEW rows, DOMAIN rows \subseteq DOMAIN running,
         Own(rows, running, result), ~Decision(rows).decided
  PROVE  /\ \A t \in TagsOf(rows) : TagWeight(rows, t) < Quorum
         /\ strategy # "checkQuorum" =>
              \/ \A i \in DOMAIN rows : rows[i].value \in Falsy
              \/ Weigh(rows, DOMAIN rows) < Quorum
<1>1. Quorum \in Nat
  BY RequestAssumption
<1>2. /\ Weigh(rows, DOMAIN rows) \in Nat
      /\ \A t : TagWeight(rows, t) \in 0 .. Weigh(rows, DOMAIN rows)
  BY TagWeightBounded
<1>3. CASE Weigh(rows, DOMAIN rows) < Quorum
  BY <1>1, <1>2, <1>3
<1>4. CASE ~(Weigh(rows, DOMAIN rows) < Quorum)
  <2>1. ~CheckQuorum(Quorum, rows).decided
    BY <1>4 DEF Decision, GetAnyResult
  <2>2. \A t \in TagsOf(rows) : TagWeight(rows, t) < Quorum
    BY <1>1, <1>2, <2>1, CheckQuorumComplete
  <2>3. ASSUME strategy # "checkQuorum"
        PROVE  {i \in DOMAIN rows : rows[i].value \notin Falsy} = {}
    BY <1>4, <2>1, <2>3 DEF Decision, GetAnyResult, Decided
  <2> QED BY <2>2, <2>3
<1> QED BY <1>3, <1>4

\* When any answer will do, one that a quorum agrees on is taken if there is
\* one, and a request that counts weights has counted a quorum's.
LEMMA AnyAnswerPrefersAgreement ==
  ASSUME TypeOK, NEW rows, DOMAIN rows \subseteq DOMAIN running,
         \A i \in DOMAIN rows : rows[i] \in ResultRows,
         Own(rows, running, result), strategy # "checkQuorum", Decision(rows).decided
  PROVE  /\ \A t \in TagsOf(rows) :
              TagWeight(rows, t) >= Quorum => TagWeight(rows, Tag[Decision(rows).value]) >= Quorum
         /\ strategy = "getAnyResult" => Weigh(rows, DOMAIN rows) >= Quorum
<1>1. Quorum \in Nat
  BY RequestAssumption
<1>2. /\ Weigh(rows, DOMAIN rows) \in Nat
      /\ \A t : TagWeight(rows, t) \in 0 .. Weigh(rows, DOMAIN rows)
  BY TagWeightBounded
<1>3. Decision(rows) = GetAnyResult(Quorum, rows, Falsy)
  BY DEF Decision, Undefined
<1> DEFINE Wins(value) == \A t \in TagsOf(rows) :
             TagWeight(rows, t) >= Quorum => TagWeight(rows, Tag[value]) >= Quorum
<1>4. ASSUME CheckQuorum(Quorum, rows).decided PROVE Wins(Decision(rows).value)
  <2>1. DOMAIN rows \subseteq Nat /\ \A t : TagWeight(rows, t) \in Nat
    BY RowsFinite
  <2>2. PICK i \in DOMAIN rows : /\ CheckQuorum(Quorum, rows).value = rows[i].value
                                 /\ TagWeight(rows, rows[i].tag) >= Quorum
    BY <1>1, <1>4, <2>1, CheckQuorumSound
  <2>3. Decision(rows).value = rows[i].value
    BY <1>3, <1>4, <2>2 DEF GetAnyResult
  <2>4. rows[i].tag = Tag[Decision(rows).value]
    BY <2>3 DEF Own
  <2> QED BY <2>2, <2>4
<1>5. ASSUME ~CheckQuorum(Quorum, rows).decided PROVE Wins(Decision(rows).value)
  <2>1. \A t \in TagsOf(rows) : TagWeight(rows, t) < Quorum
    BY <1>1, <1>2, <1>5, CheckQuorumComplete
  <2>2. \A t \in TagsOf(rows) : ~(TagWeight(rows, t) >= Quorum)
    BY <1>1, <1>2, <2>1
  <2> QED BY <2>2
<1>6. ASSUME strategy = "getAnyResult" PROVE Weigh(rows, DOMAIN rows) >= Quorum
  <2>1. ~(Weigh(rows, DOMAIN rows) < Quorum)
    BY <1>6 DEF Decision, Undefined
  <2> QED BY <1>1, <1>2, <2>1
<1> QED BY <1>4, <1>5, <1>6

\* Only deciding gives a request that takes any answer an outcome.
LEMMA AgreementPreferredStep ==
  TypeOK /\ AnswersAreOwn /\ AgreementPreferred /\ [Next]_vars => AgreementPreferred'
<1> SUFFICES ASSUME TypeOK, AnswersAreOwn, AgreementPreferred, [Next]_vars
             PROVE  AgreementPreferred'
  OBVIOUS
<1> DEFINE Preferred(rows, value) ==
             /\ \A t \in TagsOf(rows) :
                  TagWeight(rows, t) >= Quorum => TagWeight(rows, Tag[value]) >= Quorum
             /\ strategy = "getAnyResult" => Weigh(rows, DOMAIN rows) >= Quorum
<1>1. ASSUME NEW rows, DOMAIN rows \subseteq DOMAIN running,
             \A i \in DOMAIN rows : rows[i] \in ResultRows,
             Own(rows, running, result), strategy # "checkQuorum", Decision(rows).decided
      PROVE  Preferred(rows, Decision(rows).value)
  BY <1>1, AnyAnswerPrefersAgreement
<1>2. ASSUME Preferred(counted', outcome'), UNCHANGED strategy
      PROVE  AgreementPreferred'
  BY <1>2 DEF AgreementPreferred
<1> HIDE DEF Preferred
<1>3. CASE PassDecides
  <2>1. /\ DOMAIN counted \subseteq DOMAIN running /\ Own(counted, running, result)
        /\ \A i \in DOMAIN counted : counted[i] \in ResultRows
    BY DEF TypeOK, AnswersAreOwn, Own
  <2>2. CASE strategy # "checkQuorum"
    BY <1>1, <1>2, <1>3, <2>1, <2>2 DEF PassDecides
  <2>3. CASE strategy = "checkQuorum"
    BY <1>3, <2>3 DEF PassDecides, AgreementPreferred
  <2> QED BY <2>2, <2>3
<1>4. CASE FinishBroadcast
  <2>1. strategy = "broadcast" /\ UNCHANGED strategy
    BY <1>4 DEF FinishBroadcast, TypeOK
  <2>2. CASE Decision(Results).decided
    <3>1. outcome' = Decision(Results).value /\ counted' = Results
      BY <1>4, <2>2 DEF FinishBroadcast
    <3>2. Own(Results, running, result)
      BY ResultsTyped DEF Own
    <3>3. Preferred(Results, Decision(Results).value)
      BY <1>1, <2>1, <2>2, <3>2, ResultsTyped
    <3> QED BY <1>2, <2>1, <3>1, <3>3
  <2>3. CASE ~Decision(Results).decided
    BY <1>4, <2>3 DEF FinishBroadcast, AgreementPreferred, Answered
  <2> QED BY <2>2, <2>3
<1>5. CASE Perform \/ Broadcast \/ StartPass \/ PassWaits \/ PassGivesUp
  BY <1>5 DEF Perform, Broadcast, StartPass, PassWaits, PassGivesUp, AgreementPreferred, Answered
<1>6. CASE CountLate
  BY <1>6 DEF CountLate, AgreementPreferred, Answered
<1>7. ASSUME NEW c \in Configs, NEW a \in MayAnswer[c], Respond(c, a) PROVE AgreementPreferred'
  BY <1>7 DEF Respond, Wake, AgreementPreferred, Answered
<1>8. ASSUME NEW c \in Configs, Stall(c) PROVE AgreementPreferred'
  BY <1>8 DEF Stall, Wake, AgreementPreferred, Answered
<1>9. CASE UNCHANGED vars
  BY <1>9 DEF vars, AgreementPreferred
<1> QED BY <1>3, <1>4, <1>5, <1>6, <1>7, <1>8, <1>9 DEF Next, Turn

\* Pending blocks and broadcasts take any answer, but never one that fewer
\* than a quorum gave while a quorum agreed on another.
THEOREM AgreementComesFirst == Spec => []AgreementPreferred
<1>1. Init => AgreementPreferred
  BY DEF Init, AgreementPreferred, Answered
<1> QED BY <1>1, AgreementPreferredStep, TypeCorrect, AnswersStayOwn, PTL DEF Spec

\* Timers do not run while a pass awaits its decision: a runner it counted
\* that still stalls is one whose staller it watches.  Broadcasts have no
\* stallers.
StallersWatched ==
  /\ strategy = "broadcast" => stalling = {}
  /\ phase = "tallied" =>
       \A i \in DOMAIN counted : running[i] \in stalling => <<"staller", running[i]>> \in awaited
  /\ strategy = "broadcast" => phase \in {"idle", "broadcasting", "returned", "threw", "not met"}

LEMMA StallersWatchedStep ==
  TypeOK /\ StallersWatched /\ [Next]_vars => StallersWatched'
<1> SUFFICES ASSUME TypeOK, StallersWatched, [Next]_vars PROVE StallersWatched'
  OBVIOUS
<1>1. CASE StartPass
  BY <1>1 DEF StartPass, Interesting, StallersWatched
<1>2. CASE Perform \/ PassDecides \/ PassWaits \/ PassGivesUp \/ CountLate
  BY <1>2 DEF Perform, PassDecides, PassWaits, PassGivesUp, CountLate, StallersWatched
<1>3. CASE Broadcast \/ FinishBroadcast
  BY <1>3 DEF Broadcast, FinishBroadcast, StallersWatched, TypeOK
<1>4. ASSUME NEW c \in Configs, NEW a \in MayAnswer[c], Respond(c, a) PROVE StallersWatched'
  BY <1>4 DEF Respond, Wake, StallersWatched
<1>5. ASSUME NEW c \in Configs, Stall(c) PROVE StallersWatched'
  BY <1>5 DEF Stall, Wake, StallersWatched
<1>6. CASE UNCHANGED vars
  BY <1>6 DEF vars, StallersWatched
<1> QED BY <1>1, <1>2, <1>3, <1>4, <1>5, <1>6 DEF Next, Turn

\* A request gives up only by finding nothing to decide on and nothing to wait
\* for; afterwards what it counted stays as it is.
LEMMA NotMetIsHonestStep ==
  TypeOK /\ AnswersAreOwn /\ StallersWatched /\ NotMetIsHonest /\ [Next]_vars => NotMetIsHonest'
<1> SUFFICES ASSUME TypeOK, AnswersAreOwn, StallersWatched, NotMetIsHonest, [Next]_vars
             PROVE  NotMetIsHonest'
  OBVIOUS
<1> DEFINE Hopeless(rows) ==
             /\ \A t \in TagsOf(rows) : TagWeight(rows, t) < Quorum
             /\ strategy # "checkQuorum" =>
                  \/ \A i \in DOMAIN rows : rows[i].value \in Falsy
                  \/ Weigh(rows, DOMAIN rows) < Quorum
<1>1. ASSUME Hopeless(counted'), UNCHANGED strategy,
             {running'[i] : i \in DOMAIN counted'} \cap stalling' = {}
      PROVE  NotMetIsHonest'
  BY <1>1 DEF NotMetIsHonest
<1>2. ASSUME NEW rows, DOMAIN rows \subseteq DOMAIN running,
             Own(rows, running, result), ~Decision(rows).decided
      PROVE  Hopeless(rows)
  BY <1>2, UndecidedIsHopeless
<1>3. ASSUME phase = "not met" PROVE Hopeless(counted)
  BY <1>3 DEF NotMetIsHonest
<1> HIDE DEF Hopeless
<1>4. CASE PassGivesUp
  <2>1. DOMAIN counted \subseteq DOMAIN running /\ Own(counted, running, result)
    BY DEF TypeOK, AnswersAreOwn, Own
  <2>2. PICK s \in DispatchOrders(newRunners) : AddRunners(s)
    BY <1>4 DEF PassGivesUp
  <2>3. /\ Range(s) \cap Running = {}
        /\ \A i \in DOMAIN running : running'[i] = running[i]
    BY <2>2, DispatchFresh DEF TypeOK
  <2>4. ASSUME NEW i \in DOMAIN counted PROVE running'[i] \notin stalling'
    <3>1. running'[i] = running[i] /\ running[i] \in Running
      BY <2>1, <2>3 DEF Running, Range
    <3>2. running[i] \notin stalling
      BY <1>4 DEF PassGivesUp, StallersWatched
    <3> QED BY <2>2, <2>3, <3>1, <3>2 DEF AddRunners
  <2>5. Hopeless(counted)
    BY <1>2, <1>4, <2>1 DEF PassGivesUp
  <2> QED BY <1>1, <1>4, <2>4, <2>5 DEF PassGivesUp
<1>5. CASE FinishBroadcast
  <2>1. CASE Decision(Results).decided
    BY <1>5, <2>1 DEF FinishBroadcast, NotMetIsHonest
  <2>2. CASE ~Decision(Results).decided
    <3>1. Own(Results, running, result) /\ DOMAIN Results \subseteq DOMAIN running
      BY ResultsTyped DEF Own
    <3>2. Hopeless(Results)
      BY <1>2, <2>2, <3>1
    <3>3. stalling' = {} /\ counted' = Results /\ UNCHANGED strategy
      BY <1>5 DEF FinishBroadcast, StallersWatched, TypeOK
    <3> QED BY <1>1, <3>2, <3>3
  <2> QED BY <2>1, <2>2
<1>6. CASE Perform \/ Broadcast \/ StartPass \/ PassWaits \/ PassDecides \/ CountLate
  BY <1>6 DEF Perform, Broadcast, StartPass, PassWaits, PassDecides, CountLate, NotMetIsHonest
<1>7. ASSUME NEW c \in Configs, NEW a \in MayAnswer[c], Respond(c, a) PROVE NotMetIsHonest'
  BY <1>7 DEF Respond, Wake, NotMetIsHonest
<1>8. ASSUME NEW c \in Configs, Stall(c) PROVE NotMetIsHonest'
  BY <1>8 DEF Stall, Wake, NotMetIsHonest
<1>9. CASE UNCHANGED vars
  BY <1>9 DEF vars, NotMetIsHonest
<1> QED BY <1>4, <1>5, <1>6, <1>7, <1>8, <1>9 DEF Next, Turn

\* "quorum not met" is never said while an answer that was counted has a
\* quorum, or while a runner that was counted still stalls.
THEOREM FailuresAreHonest == Spec => []NotMetIsHonest
<1>1. Init => NotMetIsHonest /\ StallersWatched
  BY DEF Init, NotMetIsHonest, StallersWatched
<1> QED BY <1>1, NotMetIsHonestStep, StallersWatchedStep, TypeCorrect, AnswersStayOwn, PTL
        DEF Spec

-----------------------------------------------------------------------------
(* One replacement per bump *)

\* The runners a request should have dispatched: the quorum's, and one for
\* each bump but those of the pass that is due to dispatch them.
Due == Quorum + Cardinality(bumped) - (IF phase = "tallied" THEN newRunners ELSE 0)
Replaced ==
  phase \in {"pass", "tallied", "waiting"} =>
    Len(running) = IF Due < Cardinality(Configs) THEN Due ELSE Cardinality(Configs)

\* #addRunner adds as many runners as asked for while there are providers.
LEMMA DispatchLength ==
  ASSUME TypeOK, NEW n \in Nat, NEW s \in DispatchOrders(n), AddRunners(s)
  PROVE  /\ Len(running) \in Nat /\ Len(running) <= Cardinality(Configs)
         /\ Len(running') = IF Len(running) + n < Cardinality(Configs)
                            THEN Len(running) + n ELSE Cardinality(Configs)
<1> DEFINE unused == Configs \ Running
           k == IF n < Cardinality(unused) THEN n ELSE Cardinality(unused)
<1>1. Running \subseteq Configs
  BY ElementOfSeq, LenProperties DEF TypeOK, Running, Range
<1>2. /\ IsFiniteSet(Configs) /\ Cardinality(Configs) \in Nat
      /\ IsFiniteSet(Running) /\ Cardinality(Running) \in Nat
  BY <1>1, RequestAssumption, FS_Subset, FS_CardinalityType
<1>3. Len(running) \in Nat /\ DOMAIN running = 1 .. Len(running) /\ running \in Seq(Configs)
  BY LenProperties DEF TypeOK
<1>4. Cardinality(1 .. Len(running)) = Len(running)
  <2>1. 1 \in Int /\ Len(running) \in Int
    BY <1>3
  <2>2. Cardinality(1 .. Len(running)) = IF 1 > Len(running) THEN 0 ELSE Len(running) - 1 + 1
    BY <2>1, FS_Interval
  <2> QED BY <1>3, <2>2
<1>5. Cardinality(Running) = Len(running)
  <2>1. running \in [1 .. Len(running) -> Running]
    BY <1>3 DEF Running, Range
  <2>2. \A i, j \in 1 .. Len(running) : running[i] = running[j] => i = j
    BY <1>3 DEF TypeOK, IsInjective
  <2>3. \A c \in Running : \E i \in 1 .. Len(running) : running[i] = c
    BY <1>3 DEF Running, Range
  <2>4. running \in Injection(1 .. Len(running), Running)
    BY <2>1, <2>2 DEF Injection, IsInjective
  <2>5. running \in Surjection(1 .. Len(running), Running)
    BY <2>1, <2>3 DEF Surjection
  <2> QED BY <1>2, <1>4, <2>4, <2>5, FS_Injection
<1>6. Cardinality(unused) = Cardinality(Configs) - Len(running) /\ Cardinality(unused) \in Nat
  <2>1. Configs \cap Running = Running
    BY <1>1
  <2>2. /\ Cardinality(unused) = Cardinality(Configs) - Cardinality(Running)
        /\ Cardinality(unused) \in Nat
    BY <1>2, <2>1, FS_Difference, FS_CardinalityType
  <2> QED BY <1>5, <2>2
<1>7. k \in Nat /\ s \in [1 .. k -> unused]
  BY <1>6 DEF DispatchOrders
<1> HIDE DEF k
<1>8. s \in Seq(Configs) /\ Len(s) = k
  <2>1. s \in [1 .. k -> Configs]
    BY <1>7
  <2>2. s \in Seq(Configs) /\ DOMAIN s = 1 .. k
    BY <1>7, <2>1, IsSeqOf
  <2> QED BY <1>7, <2>2, LenProperties
<1>9. Len(running') = Len(running) + k
  BY <1>3, <1>8, ConcatProperties DEF AddRunners
<1> QED BY <1>2, <1>3, <1>6, <1>9 DEF k

LEMMA ReplacedStep == TypeOK /\ Replaced /\ [Next]_vars => Replaced'
<1> SUFFICES ASSUME TypeOK, Replaced, [Next]_vars PROVE Replaced'
  OBVIOUS
<1>1. /\ Quorum \in Nat /\ newRunners \in Nat /\ newRunners' \in Nat
      /\ Cardinality(Configs) \in Nat
  BY NextType, RequestAssumption, FS_CardinalityType DEF TypeOK
<1>2. IsFiniteSet(bumped) /\ Cardinality(bumped) \in Nat
  <2>1. bumped \subseteq Configs
    BY ElementOfSeq, LenProperties DEF TypeOK, Running, Range
  <2> QED BY <2>1, RequestAssumption, FS_Subset, FS_CardinalityType
<1>3. CASE Perform
  <2>1. PICK s \in DispatchOrders(Quorum) : AddRunners(s)
    BY <1>3 DEF Perform
  <2>2. running = <<>> /\ bumped = {} /\ bumped' = {} /\ phase' = "pass"
    BY <1>3 DEF Perform, TypeOK, Running, Range
  <2>3. Len(running) = 0 /\ Cardinality(bumped') = 0
    BY <2>2, FS_EmptySet
  <2> QED BY <1>1, <2>1, <2>2, <2>3, DispatchLength DEF Replaced, Due
<1>4. CASE StartPass
  <2>1. ToBump \subseteq Configs
    BY ElementOfSeq, LenProperties DEF ToBump, TypeOK, Running, Range
  <2>2. IsFiniteSet(ToBump) /\ Cardinality(ToBump) \in Nat
    BY <2>1, RequestAssumption, FS_Subset, FS_CardinalityType
  <2>3. bumped \cap ToBump = {}
    BY DEF ToBump
  <2>4. Cardinality(bumped \cup ToBump) = Cardinality(bumped) + Cardinality(ToBump)
    <3>1. Cardinality(bumped \cup ToBump)
            = Cardinality(bumped) + Cardinality(ToBump) - Cardinality(bumped \cap ToBump)
      BY <1>2, <2>2, FS_Union
    <3>2. Cardinality(bumped \cap ToBump) = 0
      BY <2>3, FS_EmptySet
    <3> QED BY <1>2, <2>2, <3>1, <3>2
  <2>5. /\ phase = "pass" /\ phase' = "tallied" /\ running' = running
        /\ newRunners' = Cardinality(ToBump) /\ bumped' = bumped \cup ToBump
    BY <1>4 DEF StartPass
  <2>6. Due' = Due
    BY <1>1, <1>2, <2>2, <2>4, <2>5 DEF Due
  <2> QED BY <2>5, <2>6 DEF Replaced
<1>5. CASE PassWaits
  <2>1. PICK s \in DispatchOrders(newRunners) : AddRunners(s)
    BY <1>5 DEF PassWaits
  <2>2. phase = "tallied" /\ phase' \in {"waiting", "pass"} /\ bumped' = bumped
    BY <1>5 DEF PassWaits
  <2>3. Due' = Due + newRunners
    BY <1>1, <1>2, <2>2 DEF Due
  <2>4. Due \in Int
    BY <1>1, <1>2 DEF Due
  <2>5. Len(running) = IF Due < Cardinality(Configs) THEN Due ELSE Cardinality(Configs)
    BY <2>2 DEF Replaced
  <2>6. Len(running') = IF Len(running) + newRunners < Cardinality(Configs)
                        THEN Len(running) + newRunners ELSE Cardinality(Configs)
    BY <1>1, <2>1, DispatchLength
  <2>7. Len(running') = IF Due' < Cardinality(Configs) THEN Due' ELSE Cardinality(Configs)
    BY <1>1, <2>3, <2>4, <2>5, <2>6
  <2> QED BY <2>7 DEF Replaced
<1>6. CASE Broadcast \/ FinishBroadcast \/ PassDecides \/ PassGivesUp \/ CountLate
  BY <1>6 DEF Broadcast, FinishBroadcast, PassDecides, PassGivesUp, CountLate, Replaced
<1>7. ASSUME phase' \in {phase, "pass"}, phase' # phase => phase = "waiting",
             UNCHANGED <<running, bumped, newRunners>>
      PROVE  Replaced'
  BY <1>7 DEF Replaced, Due
<1>8. ASSUME NEW c \in Configs, NEW a \in MayAnswer[c], Respond(c, a) PROVE Replaced'
  BY <1>7, <1>8 DEF Respond, Wake
<1>9. ASSUME NEW c \in Configs, Stall(c) PROVE Replaced'
  BY <1>7, <1>9 DEF Stall, Wake
<1>10. CASE UNCHANGED vars
  BY <1>7, <1>10 DEF vars
<1> QED BY <1>3, <1>4, <1>5, <1>6, <1>8, <1>9, <1>10 DEF Next, Turn

\* A provider that is slow and then fails is replaced once, not twice, and
\* while a request waits no replacement that was due is missing.
THEOREM ReplacedOnce == Spec => []OneReplacementPerBump
<1>1. Init => Replaced
  BY DEF Init, Replaced
<1>2. TypeOK /\ Replaced => OneReplacementPerBump
  <2> SUFFICES ASSUME TypeOK, Replaced, phase = "waiting" PROVE OneReplacementPerBump
    BY DEF OneReplacementPerBump
  <2>1. bumped \subseteq Configs
    BY ElementOfSeq, LenProperties DEF TypeOK, Running, Range
  <2>2. Cardinality(bumped) \in Nat /\ Quorum \in Nat
    BY <2>1, RequestAssumption, FS_Subset, FS_CardinalityType
  <2>3. Due = Quorum + Cardinality(bumped)
    BY <2>2 DEF Due
  <2> QED BY <2>3 DEF Replaced, OneReplacementPerBump
<1> QED BY <1>1, <1>2, ReplacedStep, TypeCorrect, PTL DEF Spec
=============================================================================
