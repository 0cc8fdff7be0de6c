----------------------------- MODULE DataProofs ------------------------------
(***************************************************************************)
(* Proofs about the components that compute: the constructor of            *)
(* TypedDataEncoder, for any struct types, and FixedNumber, for any        *)
(* formats and numbers.                                                    *)
(***************************************************************************)
EXTENDS TypedDataTypes, FixedNumber, SequenceTheorems, ProofLemmas

\* A type that is done: the types it reaches are marked, itself not among them.
Complete(t) == subtypes[t] = Reach(t) /\ t \notin Reach(t)

\* The children of the k-th call whose own calls have returned.
Returned(k) ==
  {c \in fieldTypes[visiting[k]] \ toVisit[k] : k < Calls => c # visiting[k + 1]}

TypedTypes ==
  /\ fieldTypes \in [StructTypes -> SUBSET StructTypes]
  /\ subtypes \in [StructTypes -> SUBSET StructTypes]
  /\ visiting \in Seq(StructTypes)
  /\ toVisit \in Seq(SUBSET StructTypes)
  /\ Len(toVisit) = Calls

\* The calls that run are a path from the primary type, and what has returned
\* below one of them is complete and marked on the path down to it.
PathInv ==
  /\ visiting # <<>> => visiting[1] = primaryType
  /\ \A k \in 1 .. Calls : toVisit[k] \subseteq fieldTypes[visiting[k]]
  /\ \A j, k \in 1 .. Calls : j < k => visiting[k] \in Reach(visiting[j])
  /\ \A k \in 1 .. Calls : \A c \in Returned(k) : \A u \in {c} \cup Reach(c) :
       Complete(u) /\ \A j \in 1 .. k : u \in subtypes[visiting[j]]

TypedInv ==
  /\ TypedTypes
  /\ \A t \in StructTypes : subtypes[t] \subseteq Reach(t)
  /\ PathInv
  /\ verdict = "accepted" => \A t \in {primaryType} \cup Reach(primaryType) : Complete(t)
  /\ verdict = "circular" => \E t \in StructTypes : t \in Reach(t)

-----------------------------------------------------------------------------
(* What a type reaches *)

LEMMA ReachHolds ==
  ASSUME fieldTypes \in [StructTypes -> SUBSET StructTypes], NEW t \in StructTypes
  PROVE  Reach(t) \subseteq StructTypes /\ fieldTypes[t] \subseteq Reach(t) /\ Closed(Reach(t))
<1>1. Reach(t) \subseteq StructTypes /\ fieldTypes[t] \subseteq Reach(t)
  BY DEF Reach
<1>2. ASSUME NEW v \in Reach(t), NEW u \in fieldTypes[v] PROVE u \in Reach(t)
  <2>1. ASSUME NEW S \in SUBSET StructTypes, fieldTypes[t] \subseteq S, Closed(S) PROVE u \in S
    <3>1. v \in S
      BY <2>1 DEF Reach
    <3> QED BY <2>1, <3>1 DEF Closed
  <2>2. u \in StructTypes
    BY <1>1
  <2> QED BY <2>1, <2>2 DEF Reach
<1> QED BY <1>1, <1>2 DEF Closed

LEMMA ReachIsLeast ==
  ASSUME NEW t \in StructTypes, NEW S \in SUBSET StructTypes, fieldTypes[t] \subseteq S, Closed(S)
  PROVE  Reach(t) \subseteq S
BY DEF Reach

LEMMA ReachOfReached ==
  ASSUME fieldTypes \in [StructTypes -> SUBSET StructTypes], NEW t \in StructTypes, NEW v \in Reach(t)
  PROVE  v \in StructTypes /\ Reach(v) \subseteq Reach(t)
<1>1. Reach(t) \subseteq StructTypes /\ Closed(Reach(t))
  BY ReachHolds
<1>2. v \in StructTypes /\ fieldTypes[v] \subseteq Reach(t)
  BY <1>1 DEF Closed
<1> QED BY <1>1, <1>2, ReachIsLeast

\* A type reaches its children and what they reach.
LEMMA ReachByChildren ==
  ASSUME fieldTypes \in [StructTypes -> SUBSET StructTypes], NEW t \in StructTypes
  PROVE  Reach(t) = UNION {{c} \cup Reach(c) : c \in fieldTypes[t]}
<1> DEFINE U == UNION {{c} \cup Reach(c) : c \in fieldTypes[t]}
<1>0. \A c \in fieldTypes[t] : c \in StructTypes
  OBVIOUS
<1>1. \A c \in fieldTypes[t] :
        Reach(c) \subseteq StructTypes /\ fieldTypes[c] \subseteq Reach(c) /\ Closed(Reach(c))
  BY <1>0, ReachHolds
<1>2. \A u : u \in U <=> \E c \in fieldTypes[t] : u = c \/ u \in Reach(c)
  OBVIOUS
<1> HIDE DEF U
<1>3. U \subseteq StructTypes /\ fieldTypes[t] \subseteq U
  BY <1>0, <1>1, <1>2
<1>4. Closed(U)
  BY <1>1, <1>2 DEF Closed
<1>5. Reach(t) \subseteq U
  BY <1>3, <1>4, ReachIsLeast
<1>6. U \subseteq Reach(t)
  <2>1. fieldTypes[t] \subseteq Reach(t)
    BY ReachHolds
  <2>2. \A c \in fieldTypes[t] : Reach(c) \subseteq Reach(t)
    BY <2>1, ReachOfReached
  <2> QED BY <1>2, <2>1, <2>2
<1> QED BY <1>5, <1>6 DEF U

-----------------------------------------------------------------------------
(* Each step *)

LEMMA FrontDoes ==
  ASSUME NEW S, NEW seq \in Seq(S), seq # <<>>
  PROVE  /\ Len(seq) \in Nat /\ Len(seq) >= 1
         /\ Front(seq) \in Seq(S) /\ Len(Front(seq)) = Len(seq) - 1
         /\ DOMAIN Front(seq) = 1 .. (Len(seq) - 1)
         /\ \A k \in 1 .. (Len(seq) - 1) : Front(seq)[k] = seq[k]
<1>1. Len(seq) \in Nat /\ Len(seq) >= 1 /\ DOMAIN seq = 1 .. Len(seq)
  BY EmptySeq, LenProperties
<1>2. /\ Front(seq) = SubSeq(seq, 1, Len(seq) - 1)
      /\ 1 \in 1 .. Len(seq) + 1 /\ Len(seq) - 1 \in 0 .. Len(seq)
  BY <1>1 DEF Front
<1>3. \A k \in 1 .. Len(seq) : seq[k] \in S
  BY <1>1, ElementOfSeq
<1>4. SubSeq(seq, 1, Len(seq) - 1) = [k \in 1 .. (Len(seq) - 1) |-> seq[k]]
  BY <1>1, <1>2
<1>5. /\ SubSeq(seq, 1, Len(seq) - 1) \in Seq(S)
      /\ Len(SubSeq(seq, 1, Len(seq) - 1)) = Len(seq) - 1
  BY <1>1, <1>3, <1>4, IsASeq
<1> QED BY <1>1, <1>2, <1>4, <1>5

LEMMA TypedInitHolds == TypedInit => TypedInv
<1> SUFFICES ASSUME TypedInit PROVE TypedInv
  OBVIOUS
<1>1. visiting = <<>> /\ toVisit = <<>> /\ Calls = 0 /\ 1 .. Calls = {}
  BY DEF TypedInit, Calls
<1>2. TypedTypes
  BY <1>1 DEF TypedInit, TypedTypes, Calls
<1>3. PathInv
  BY <1>1 DEF PathInv
<1> QED BY <1>2, <1>3 DEF TypedInit, TypedInv

\* While the fields stay, so does what they reach.
LEMMA SameReach ==
  ASSUME fieldTypes' = fieldTypes
  PROVE  \A t : Reach(t)' = Reach(t)
BY DEF Reach, Closed

LEMMA SamePath ==
  ASSUME TypedTypes, PathInv, UNCHANGED <<fieldTypes, primaryType, visiting, toVisit, subtypes>>
  PROVE  TypedTypes' /\ PathInv' /\ \A t : Reach(t)' = Reach(t) /\ (Complete(t)' <=> Complete(t))
<1>1. \A t : Reach(t)' = Reach(t)
  BY SameReach
<1>2. \A t : Complete(t)' <=> Complete(t)
  BY <1>1 DEF Complete
<1>3. Calls' = Calls
  BY DEF Calls
<1>4. \A k : Returned(k)' = Returned(k)
  BY <1>3 DEF Returned
<1>5. PathInv'
  BY <1>1, <1>2, <1>3, <1>4 DEF PathInv
<1>6. TypedTypes'
  BY <1>3 DEF TypedTypes
<1> QED BY <1>1, <1>2, <1>5, <1>6

\* A conclusion that is no call's changes the verdict only.
LEMMA ConcludeStep ==
  ASSUME TypedInv, NEW what, Conclude(what), what # "accepted",
         what = "circular" => \E t \in StructTypes : t \in Reach(t)
  PROVE  TypedInv'
<1>1. UNCHANGED <<fieldTypes, primaryType, visiting, toVisit, subtypes>> /\ verdict' = what
  BY DEF Conclude
<1>2. TypedTypes' /\ PathInv' /\ \A t : Reach(t)' = Reach(t)
  BY <1>1, SamePath DEF TypedInv
<1>3. (\A t \in StructTypes : subtypes[t] \subseteq Reach(t))'
  BY <1>1, <1>2 DEF TypedInv
<1> QED BY <1>1, <1>2, <1>3 DEF TypedInv

LEMMA LinkStep ==
  ASSUME TypedInv, Link
  PROVE  TypedInv'
<1>0. TypedTypes /\ \A t \in StructTypes : subtypes[t] \subseteq Reach(t)
  BY DEF TypedInv
<1>1. CASE SelfReferring # {} /\ Conclude("circular")
  <2>1. PICK t \in StructTypes : t \in fieldTypes[t]
    BY <1>1 DEF SelfReferring
  <2>2. t \in Reach(t)
    BY <1>0, <2>1, ReachHolds DEF TypedTypes
  <2> QED BY <1>1, <2>2, ConcludeStep
<1>2. CASE Conclude("missing") \/ Conclude("ambiguous")
  BY <1>2, ConcludeStep
<1>3. CASE /\ PrimaryTypes # {} /\ verdict = "none"
           /\ primaryType' = CHOOSE t \in StructTypes : t \in PrimaryTypes
           /\ visiting' = <<primaryType'>> /\ toVisit' = <<fieldTypes[primaryType']>>
           /\ UNCHANGED <<fieldTypes, verdict, subtypes>>
  <2> DEFINE p == primaryType'
  <2>1. p \in StructTypes /\ fieldTypes[p] \in SUBSET StructTypes
    BY <1>0, <1>3 DEF PrimaryTypes, TypedTypes
  <2> HIDE DEF p
  <2>2. /\ visiting' \in Seq(StructTypes) /\ toVisit' \in Seq(SUBSET StructTypes)
        /\ Len(visiting') = 1 /\ Len(toVisit') = 1 /\ visiting'[1] = p /\ toVisit'[1] = fieldTypes[p]
    BY <1>3, <2>1 DEF p
  <2>3. Calls' = 1 /\ 1 .. Calls' = {1}
    BY <2>2 DEF Calls
  <2>4. TypedTypes'
    BY <1>0, <1>3, <2>2, <2>3 DEF TypedTypes, Calls
  <2>5. PathInv'
    <3>1. Returned(1)' = {}
      BY <1>3, <2>2 DEF Returned
    <3>2. \A k \in (1 .. Calls)' : k = 1
      BY <2>3
    <3>3. \A k \in (1 .. Calls)' : Returned(k)' = {}
      BY <3>1, <3>2
    <3>4. \A j, k \in (1 .. Calls)' : ~(j < k)
      BY <3>2
    <3>5. visiting'[1] = primaryType' /\ \A k \in (1 .. Calls)' : toVisit'[k] \subseteq fieldTypes'[visiting'[k]]
      BY <1>3, <2>2, <3>2 DEF p
    <3> QED BY <3>3, <3>4, <3>5 DEF PathInv
  <2>6. (\A t \in StructTypes : subtypes[t] \subseteq Reach(t))'
    BY <1>0, <1>3, SameReach
  <2> QED BY <1>3, <2>4, <2>5, <2>6 DEF TypedInv
<1> QED BY <1>1, <1>2, <1>3 DEF Link

LEMMA VisitStep ==
  ASSUME TypedInv, NEW child \in StructTypes, VisitChild(child)
  PROVE  TypedInv'
<1>0. TypedTypes /\ PathInv /\ \A t \in StructTypes : subtypes[t] \subseteq Reach(t)
  BY DEF TypedInv
<1> DEFINE n == Calls
<1>1. /\ verdict = "none" /\ visiting # <<>> /\ child \in toVisit[n]
      /\ \/ child \in Range(visiting) /\ Conclude("circular")
         \/ /\ visiting' = Append(visiting, child)
            /\ toVisit' = Append([toVisit EXCEPT ![n] = toVisit[n] \ {child}], fieldTypes[child])
            /\ UNCHANGED <<fieldTypes, verdict, primaryType, subtypes>>
  BY DEF VisitChild
<1>2. /\ n \in Nat /\ n >= 1 /\ DOMAIN visiting = 1 .. n /\ DOMAIN toVisit = 1 .. n
      /\ \A k \in 1 .. n : visiting[k] \in StructTypes /\ toVisit[k] \in SUBSET StructTypes
  <2>1. visiting \in Seq(StructTypes) /\ toVisit \in Seq(SUBSET StructTypes) /\ Len(toVisit) = Len(visiting)
    BY <1>0 DEF TypedTypes, Calls
  <2> QED BY <1>1, <2>1, EmptySeq, LenProperties, ElementOfSeq DEF Calls
<1> HIDE DEF n
<1>3. fieldTypes \in [StructTypes -> SUBSET StructTypes] /\ n = Calls
  BY <1>0 DEF TypedTypes, n
<1>4. child \in fieldTypes[visiting[n]]
  BY <1>0, <1>1, <1>2, <1>3 DEF PathInv
<1>5. \A k \in 1 .. n : child \in Reach(visiting[k])
  <2>1. child \in Reach(visiting[n])
    BY <1>2, <1>3, <1>4, ReachHolds
  <2>2. ASSUME NEW k \in 1 .. n, k < n PROVE child \in Reach(visiting[k])
    <3>1. visiting[n] \in Reach(visiting[k])
      BY <1>0, <1>2, <1>3, <2>2 DEF PathInv
    <3>2. Closed(Reach(visiting[k]))
      BY <1>2, <1>3, ReachHolds
    <3> QED BY <1>4, <3>1, <3>2 DEF Closed
  <2> QED BY <1>2, <2>1, <2>2
<1>6. CASE child \in Range(visiting) /\ Conclude("circular")
  <2>1. PICK k \in 1 .. n : child = visiting[k]
    BY <1>2, <1>6 DEF Range
  <2>2. child \in Reach(child)
    BY <1>5, <2>1
  <2> QED BY <1>6, <2>2, ConcludeStep
<1>7. CASE /\ visiting' = Append(visiting, child)
           /\ toVisit' = Append([toVisit EXCEPT ![n] = toVisit[n] \ {child}], fieldTypes[child])
           /\ UNCHANGED <<fieldTypes, verdict, primaryType, subtypes>>
  <2> DEFINE left == [toVisit EXCEPT ![n] = toVisit[n] \ {child}]
  <2>1. left \in Seq(SUBSET StructTypes) /\ Len(left) = n
    BY <1>0, <1>2, <1>3, ExceptSeq DEF TypedTypes
  <2>2. \A k \in 1 .. n : left[k] = IF k = n THEN toVisit[n] \ {child} ELSE toVisit[k]
    BY <1>2
  <2> HIDE DEF left
  <2>3. /\ visiting' \in Seq(StructTypes) /\ Len(visiting') = n + 1
        /\ visiting'[n + 1] = child /\ \A k \in 1 .. n : visiting'[k] = visiting[k]
    BY <1>0, <1>2, <1>3, <1>7, AppendProperties DEF TypedTypes, Calls
  <2>4. toVisit' = Append(left, fieldTypes[child])
    BY <1>7 DEF left
  <2>5. /\ toVisit' \in Seq(SUBSET StructTypes) /\ Len(toVisit') = n + 1
        /\ toVisit'[n + 1] = fieldTypes[child] /\ \A k \in 1 .. n : toVisit'[k] = left[k]
    <3>1. fieldTypes[child] \in SUBSET StructTypes
      BY <1>3
    <3> QED BY <1>2, <2>1, <2>4, <3>1, AppendProperties
  <2>6. Calls' = n + 1 /\ \A k \in 1 .. n + 1 : k \in 1 .. n \/ k = n + 1
    BY <1>2, <2>3 DEF Calls
  <2>7. TypedTypes'
    BY <1>0, <1>7, <2>3, <2>5, <2>6 DEF TypedTypes
  <2>8. (\A t \in StructTypes : subtypes[t] \subseteq Reach(t))'
    BY <1>0, <1>7, SameReach
  <2>9. PathInv'
    <3>1. visiting'[1] = primaryType' /\ visiting # <<>>
      BY <1>0, <1>1, <1>2, <1>7, <2>3 DEF PathInv
    <3>2. ASSUME NEW k \in 1 .. n + 1 PROVE toVisit'[k] \subseteq fieldTypes'[visiting'[k]]
      <4>1. CASE k = n + 1
        BY <1>7, <2>3, <2>5, <4>1
      <4>2. CASE k \in 1 .. n
        <5>1. toVisit[k] \subseteq fieldTypes[visiting[k]]
          BY <1>0, <1>3, <4>2 DEF PathInv
        <5> QED BY <1>7, <2>2, <2>3, <2>5, <4>2, <5>1
      <4> QED BY <2>6, <4>1, <4>2
    <3>3. ASSUME NEW j \in 1 .. n + 1, NEW k \in 1 .. n + 1, j < k
          PROVE  visiting'[k] \in Reach(visiting'[j])
      <4>1. j \in 1 .. n
        BY <1>2, <3>3
      <4>2. CASE k = n + 1
        BY <1>5, <2>3, <4>1, <4>2
      <4>3. CASE k \in 1 .. n
        BY <1>0, <1>3, <2>3, <3>3, <4>1, <4>3 DEF PathInv
      <4> QED BY <2>6, <4>2, <4>3
    <3>4. ASSUME NEW k \in 1 .. n + 1, NEW c, c \in Returned(k)' PROVE k \in 1 .. n /\ c \in Returned(k)
      <4>1. /\ c \in fieldTypes[visiting'[k]] \ toVisit'[k]
            /\ k < n + 1 => c # visiting'[k + 1]
        BY <1>7, <2>6, <3>4 DEF Returned
      <4>2. k # n + 1
        BY <2>3, <2>5, <4>1
      <4>3. k \in 1 .. n
        BY <2>6, <4>2
      <4>4. CASE k = n
        <5>1. c # child /\ c \notin toVisit[n]
          BY <1>2, <2>2, <2>3, <2>5, <4>1, <4>3, <4>4
        <5> QED BY <1>2, <1>3, <2>3, <4>1, <4>3, <4>4, <5>1 DEF Returned
      <4>5. CASE k # n
        <5>1. k + 1 \in 1 .. n /\ k < n /\ k < n + 1
          BY <1>2, <4>3, <4>5
        <5> QED BY <1>3, <2>2, <2>3, <2>5, <4>1, <4>3, <4>5, <5>1 DEF Returned
      <4> QED BY <4>4, <4>5
    <3>5. ASSUME NEW k \in 1 .. n + 1, NEW c, c \in Returned(k)', NEW u \in {c} \cup Reach(c)
          PROVE  Complete(u) /\ \A j \in 1 .. k : u \in subtypes[visiting'[j]]
      <4>1. k \in 1 .. n /\ c \in Returned(k)
        BY <3>4, <3>5
      <4>2. Complete(u) /\ \A j \in 1 .. k : u \in subtypes[visiting[j]]
        BY <1>0, <1>3, <4>1 DEF PathInv
      <4>3. \A j \in 1 .. k : j \in 1 .. n
        BY <1>2, <4>1
      <4> QED BY <2>3, <4>2, <4>3
    <3>6. \A t : Reach(t)' = Reach(t)
      BY <1>7, SameReach
    <3>7. \A u : Complete(u)' <=> Complete(u)
      BY <1>7, <3>6 DEF Complete
    <3>8. \A k \in 1 .. n + 1 : \A c \in Returned(k)' : \A u \in {c} \cup Reach(c) :
            Complete(u)' /\ \A j \in 1 .. k : u \in subtypes'[visiting'[j]]
      BY <1>7, <3>5, <3>7
    <3> QED BY <2>6, <3>1, <3>2, <3>3, <3>6, <3>8 DEF PathInv
  <2> QED BY <1>1, <1>7, <2>7, <2>8, <2>9 DEF TypedInv
<1> QED BY <1>1, <1>6, <1>7

LEMMA ReturnStep ==
  ASSUME TypedInv, Return
  PROVE  TypedInv'
<1>0. TypedTypes /\ PathInv /\ \A t \in StructTypes : subtypes[t] \subseteq Reach(t)
  BY DEF TypedInv
<1> DEFINE n == Calls
           top == Last(visiting)
           front == Front(visiting)
<1>1. /\ verdict = "none" /\ visiting # <<>> /\ toVisit[n] = {}
      /\ visiting' = front /\ toVisit' = Front(toVisit)
      /\ subtypes' = [t \in StructTypes |-> IF t \in Range(front) THEN subtypes[t] \cup {top} ELSE subtypes[t]]
      /\ verdict' = (IF n = 1 THEN "accepted" ELSE verdict)
      /\ UNCHANGED <<fieldTypes, primaryType>>
  BY DEF Return
<1>2. /\ n \in Nat /\ n >= 1
      /\ front \in Seq(StructTypes) /\ Len(front) = n - 1 /\ DOMAIN front = 1 .. n - 1
      /\ \A k \in 1 .. n - 1 : front[k] = visiting[k]
  BY <1>0, <1>1, FrontDoes DEF TypedTypes, Calls
<1>3. /\ Front(toVisit) \in Seq(SUBSET StructTypes) /\ Len(Front(toVisit)) = n - 1
      /\ \A k \in 1 .. n - 1 : Front(toVisit)[k] = toVisit[k]
  <2>1. toVisit # <<>> /\ Len(toVisit) = n /\ toVisit \in Seq(SUBSET StructTypes)
    BY <1>0, <1>2 DEF TypedTypes
  <2> QED BY <2>1, FrontDoes
<1>4. top = visiting[n] /\ n = Calls /\ \A k \in 1 .. n : visiting[k] \in StructTypes
  <2>1. visiting \in Seq(StructTypes) /\ n = Len(visiting)
    BY <1>0 DEF TypedTypes, Calls
  <2> QED BY <2>1, ElementOfSeq, LenProperties DEF Last
<1>5. n \in 1 .. n /\ top \in StructTypes
  BY <1>2, <1>4
<1> HIDE DEF n, top, front
<1>6. /\ \A k \in 1 .. n - 1 : visiting'[k] = visiting[k] /\ toVisit'[k] = toVisit[k]
      /\ Calls' = n - 1 /\ \A k \in 1 .. n - 1 : k \in 1 .. n /\ k < n
  BY <1>1, <1>2, <1>3 DEF Calls
<1>7. fieldTypes \in [StructTypes -> SUBSET StructTypes] /\ subtypes \in [StructTypes -> SUBSET StructTypes]
  BY <1>0 DEF TypedTypes
\* All children of the call that returns have returned.
<1>8. \A c \in fieldTypes[top] : c \in Returned(n)
  BY <1>1, <1>2, <1>4 DEF Returned
<1>9. \A u \in Reach(top) : \E c \in fieldTypes[top] : u \in {c} \cup Reach(c)
  BY <1>5, <1>7, ReachByChildren
<1>10. \A u \in Reach(top) : Complete(u) /\ \A j \in 1 .. n : u \in subtypes[visiting[j]]
  BY <1>0, <1>4, <1>5, <1>8, <1>9 DEF PathInv
<1>11. Complete(top)
  <2>1. subtypes[top] = Reach(top)
    BY <1>0, <1>4, <1>5, <1>10
  <2>2. top \notin Reach(top)
    BY <1>10 DEF Complete
  <2> QED BY <2>1, <2>2 DEF Complete
\* Marking it adds nothing to a type that is complete.
<1>12. \A k \in 1 .. n - 1 : top \in Reach(visiting[k])
  BY <1>0, <1>4, <1>5, <1>6 DEF PathInv
<1>13. \A t \in Range(front) : top \in Reach(t) /\ t \in StructTypes
  BY <1>2, <1>4, <1>6, <1>12 DEF Range
<1>14. /\ subtypes' \in [StructTypes -> SUBSET StructTypes]
       /\ \A t \in StructTypes : subtypes'[t] = IF t \in Range(front) THEN subtypes[t] \cup {top} ELSE subtypes[t]
  BY <1>1, <1>5, <1>7
<1>15. \A t : Reach(t)' = Reach(t)
  BY <1>1, SameReach
<1>16. (\A t \in StructTypes : subtypes[t] \subseteq Reach(t))'
  BY <1>0, <1>13, <1>14, <1>15
<1>17. \A t \in StructTypes : Complete(t) => Complete(t)'
  BY <1>13, <1>14, <1>15 DEF Complete
<1>18. \A u \in Reach(top) : u \in StructTypes
  BY <1>5, <1>7, ReachHolds
<1>19. TypedTypes'
  BY <1>1, <1>2, <1>3, <1>6, <1>7, <1>14 DEF TypedTypes
<1>20. \A t \in StructTypes : subtypes[t] \subseteq subtypes'[t]
  BY <1>14
<1>21. PathInv'
  <2>1. visiting' # <<>> => visiting'[1] = primaryType'
    <3>1. visiting' # <<>> => 1 \in 1 .. n - 1
      BY <1>1, <1>2, EmptySeq
    <3> QED BY <1>0, <1>1, <1>6, <3>1 DEF PathInv
  <2>2. \A k \in 1 .. n - 1 : toVisit'[k] \subseteq fieldTypes'[visiting'[k]]
    BY <1>0, <1>1, <1>4, <1>6 DEF PathInv
  <2>3. \A j, k \in 1 .. n - 1 : j < k => visiting'[k] \in Reach(visiting'[j])
    BY <1>0, <1>4, <1>6 DEF PathInv
  <2>4. ASSUME NEW k \in 1 .. n - 1, NEW c, c \in Returned(k)', NEW u \in {c} \cup Reach(c)
        PROVE  Complete(u)' /\ \A j \in 1 .. k : u \in subtypes'[visiting'[j]]
    <3>1. c \in fieldTypes[visiting[k]] \ toVisit[k] /\ (k < n - 1 => c # visiting'[k + 1])
      BY <1>1, <1>6, <2>4 DEF Returned
    <3>2. c \in Returned(k) \/ (k = n - 1 /\ c = top)
      <4>1. CASE k = n - 1
        <5>1. k + 1 = n
          BY <1>2, <4>1
        <5> QED BY <1>4, <3>1, <4>1, <5>1 DEF Returned
      <4>2. CASE k # n - 1
        <5>1. k < n - 1 /\ k + 1 \in 1 .. n - 1
          BY <1>2, <4>2
        <5> QED BY <1>6, <3>1, <5>1 DEF Returned
      <4> QED BY <4>1, <4>2
    <3>3. \A j \in 1 .. k : j \in 1 .. n - 1 /\ j \in 1 .. n
      BY <1>2
    <3>4. c \in StructTypes /\ u \in StructTypes
      <4>1. c \in StructTypes
        BY <1>4, <1>6, <1>7, <3>1
      <4> QED BY <1>7, <4>1, ReachHolds
    <3>5. CASE c \in Returned(k)
      <4>1. Complete(u) /\ \A j \in 1 .. k : u \in subtypes[visiting[j]]
        BY <1>0, <1>4, <1>6, <3>5 DEF PathInv
      <4> QED BY <1>4, <1>6, <1>17, <1>20, <3>3, <3>4, <4>1
    <3>6. CASE k = n - 1 /\ c = top
      <4>1. Complete(u)
        BY <1>10, <1>11, <3>6
      <4>2. CASE u = top
        <5>1. \A j \in 1 .. k : visiting'[j] \in Range(front) /\ visiting'[j] \in StructTypes
          BY <1>2, <1>4, <1>6, <3>3 DEF Range
        <5> QED BY <1>14, <1>17, <3>4, <4>1, <4>2, <5>1
      <4>3. CASE u \in Reach(top)
        BY <1>4, <1>6, <1>10, <1>17, <1>20, <3>3, <3>4, <4>1, <4>3
      <4> QED BY <3>6, <4>2, <4>3
    <3> QED BY <3>2, <3>5, <3>6
  <2> QED BY <1>6, <1>15, <2>1, <2>2, <2>3, <2>4 DEF PathInv
<1>22. verdict' = "accepted" => \A t \in {primaryType'} \cup Reach(primaryType') : Complete(t)'
  <2>1. CASE n = 1
    <3>1. top = primaryType
      BY <1>0, <1>1, <1>4, <2>1 DEF PathInv
    <3>2. \A t \in {primaryType} \cup Reach(primaryType) : Complete(t) /\ t \in StructTypes
      BY <1>5, <1>10, <1>11, <1>18, <3>1
    <3> QED BY <1>1, <1>17, <3>2
  <2>2. CASE n # 1
    BY <1>1, <2>2
  <2> QED BY <2>1, <2>2
<1>23. verdict' # "circular"
  BY <1>1
<1> QED BY <1>15, <1>16, <1>19, <1>21, <1>22, <1>23 DEF TypedInv

LEMMA TypedNextHolds == TypedInv /\ [TypedNext]_typedVars => TypedInv'
<1>1. ASSUME TypedInv, UNCHANGED typedVars PROVE TypedInv'
  <2>1. UNCHANGED <<fieldTypes, verdict, primaryType, visiting, toVisit, subtypes>>
    BY <1>1 DEF typedVars
  <2>2. TypedTypes' /\ PathInv' /\ \A t : Reach(t)' = Reach(t) /\ (Complete(t)' <=> Complete(t))
    BY <1>1, <2>1, SamePath DEF TypedInv
  <2> QED BY <1>1, <2>1, <2>2 DEF TypedInv
<1> QED BY <1>1, LinkStep, VisitStep, ReturnStep DEF TypedNext

(***************************************************************************)
(* The full type of each type that the primary one reaches names exactly   *)
(* the types it reaches, and a refusal as circular has its reason: marking *)
(* the whole path on each return is enough, for each call returns with     *)
(* children that are complete and marked on the path.                      *)
(***************************************************************************)
THEOREM FullTypesAreComplete == TypedSpec => []FullTypesComplete
<1>1. TypedInv => FullTypesComplete
  BY DEF TypedInv, FullTypesComplete, Complete
<1> QED BY <1>1, TypedInitHolds, TypedNextHolds, PTL DEF TypedSpec

-----------------------------------------------------------------------------
(* Powers, which FixedNumber counts in *)

\* The recursion of Power has a solution.
LEMMA PowerExists ==
  ASSUME NEW base
  PROVE  \E f : f = [k \in Nat |-> IF k = 0 THEN 1 ELSE base * f[k - 1]]
<1> DEFINE UpTo(f, n) == f = [k \in 0 .. n |-> IF k = 0 THEN 1 ELSE base * f[k - 1]]
           some == {n \in Nat : \E f : UpTo(f, n)}
<1>1. some = Nat
  <2>1. 0 \in some
    <3>1. UpTo([k \in 0 .. 0 |-> 1], 0)
      OBVIOUS
    <3> QED BY <3>1
  <2>2. ASSUME NEW n \in some PROVE n + 1 \in some
    <3>1. PICK f : UpTo(f, n)
      OBVIOUS
    <3> DEFINE g == [k \in 0 .. n + 1 |-> IF k = n + 1 THEN base * f[n] ELSE f[k]]
    <3>2. ASSUME NEW k \in 0 .. n + 1 PROVE g[k] = IF k = 0 THEN 1 ELSE base * g[k - 1]
      <4>1. CASE k = n + 1
        <5>1. k # 0 /\ k - 1 = n /\ n \in 0 .. n + 1 /\ n # n + 1
          BY <4>1
        <5>2. g[k] = base * f[n] /\ g[n] = f[n]
          BY <4>1, <5>1
        <5> QED BY <5>1, <5>2
      <4>2. CASE k # n + 1
        <5>1. k \in 0 .. n /\ g[k] = f[k] /\ (k # 0 => k - 1 \in 0 .. n + 1 /\ k - 1 # n + 1)
          BY <4>2
        <5>2. f[k] = IF k = 0 THEN 1 ELSE base * f[k - 1]
          BY <3>1, <5>1
        <5>3. k # 0 => g[k - 1] = f[k - 1]
          BY <5>1
        <5> QED BY <5>1, <5>2, <5>3
      <4> QED BY <4>1, <4>2
    <3>3. g = [k \in 0 .. n + 1 |-> g[k]]
      OBVIOUS
    <3> HIDE DEF g
    <3>4. UpTo(g, n + 1)
      BY <3>2, <3>3
    <3> QED BY <3>4
  <2> HIDE DEF UpTo
  <2> QED BY <2>1, <2>2, AllNaturals
<1> DEFINE partial(n) == CHOOSE f : UpTo(f, n)
<1>2. ASSUME NEW n \in Nat PROVE UpTo(partial(n), n)
  BY <1>1
<1>3. ASSUME NEW n \in Nat, NEW k \in 0 .. n
      PROVE  partial(n)[k] = IF k = 0 THEN 1 ELSE base * partial(n)[k - 1]
  <2> DEFINE f == partial(n)
  <2>1. UpTo(f, n)
    BY <1>2
  <2> HIDE DEF f
  <2>2. f[k] = IF k = 0 THEN 1 ELSE base * f[k - 1]
    BY <2>1
  <2> QED BY <2>2 DEF f
<1> HIDE DEF partial
<1> DEFINE agree == {k \in Nat : \A m, n \in Nat : k <= m /\ k <= n => partial(m)[k] = partial(n)[k]}
<1>4. agree = Nat
  <2>1. 0 \in agree
    BY <1>3
  <2>2. ASSUME NEW k \in agree PROVE k + 1 \in agree
    <3> SUFFICES ASSUME NEW m \in Nat, NEW n \in Nat, k + 1 <= m, k + 1 <= n
                 PROVE  partial(m)[k + 1] = partial(n)[k + 1]
      OBVIOUS
    <3>1. k + 1 \in 0 .. m /\ k + 1 \in 0 .. n /\ k + 1 # 0 /\ (k + 1) - 1 = k /\ k <= m /\ k <= n
      OBVIOUS
    <3>2. partial(m)[k + 1] = base * partial(m)[k] /\ partial(n)[k + 1] = base * partial(n)[k]
      BY <1>3, <3>1
    <3> QED BY <3>1, <3>2
  <2> HIDE DEF agree
  <2>3. agree \in SUBSET Nat
    BY DEF agree
  <2> QED BY <2>1, <2>2, <2>3, AllNaturals
<1> DEFINE g == [k \in Nat |-> partial(k)[k]]
<1>5. ASSUME NEW k \in Nat PROVE g[k] = IF k = 0 THEN 1 ELSE base * g[k - 1]
  <2>1. partial(k)[k] = IF k = 0 THEN 1 ELSE base * partial(k)[k - 1]
    BY <1>3
  <2>2. CASE k = 0
    BY <2>1, <2>2
  <2>3. CASE k # 0
    <3>1. k - 1 \in Nat /\ k - 1 <= k - 1 /\ k - 1 <= k
      BY <2>3
    <3>2. k - 1 \in agree
      BY <1>4, <3>1
    <3>3. partial(k)[k - 1] = partial(k - 1)[k - 1]
      BY <3>1, <3>2
    <3> QED BY <2>1, <2>3, <3>1, <3>3
  <2> QED BY <2>2, <2>3
<1>6. g = [k \in Nat |-> g[k]]
  OBVIOUS
<1> HIDE DEF g
<1>7. g = [k \in Nat |-> IF k = 0 THEN 1 ELSE base * g[k - 1]]
  BY <1>5, <1>6
<1> QED BY <1>7

LEMMA PowerSteps ==
  ASSUME NEW base
  PROVE  Power(base, 0) = 1 /\ \A n \in Nat : Power(base, n + 1) = base * Power(base, n)
<1> DEFINE Solves(f) == f = [k \in Nat |-> IF k = 0 THEN 1 ELSE base * f[k - 1]]
           power == CHOOSE f : Solves(f)
<1>1. Solves(power)
  BY PowerExists
<1>2. \A n : Power(base, n) = power[n]
  BY DEF Power
<1> HIDE DEF power
<1>3. power[0] = 1
  BY <1>1
<1>4. ASSUME NEW n \in Nat PROVE power[n + 1] = base * power[n]
  <2>1. n + 1 \in Nat /\ n + 1 # 0 /\ (n + 1) - 1 = n
    OBVIOUS
  <2> QED BY <1>1, <2>1
<1> QED BY <1>2, <1>3, <1>4

LEMMA PowerIsPositive ==
  ASSUME NEW base \in Nat \ {0}, NEW n \in Nat
  PROVE  Power(base, n) \in Nat \ {0}
<1> DEFINE good == {k \in Nat : Power(base, k) \in Nat \ {0}}
<1>1. 0 \in good
  BY PowerSteps
<1>2. ASSUME NEW k \in good PROVE k + 1 \in good
  <2>1. Power(base, k + 1) = base * Power(base, k)
    BY PowerSteps
  <2>2. \A x \in Nat \ {0} : base * x \in Nat \ {0}
    OBVIOUS
  <2> QED BY <2>1, <2>2
<1>3. good \in SUBSET Nat
  OBVIOUS
<1> HIDE DEF good
<1>4. good = Nat
  BY <1>1, <1>2, <1>3, AllNaturals
<1> QED BY <1>4 DEF good

LEMMA PowerOfSum ==
  ASSUME NEW base \in Nat \ {0}, NEW m \in Nat, NEW n \in Nat
  PROVE  Power(base, m + n) = Power(base, m) * Power(base, n)
<1> DEFINE good == {k \in Nat : Power(base, m + k) = Power(base, m) * Power(base, k)}
<1>1. 0 \in good
  <2>1. m + 0 = m /\ Power(base, 0) = 1 /\ Power(base, m) \in Nat
    BY PowerSteps, PowerIsPositive
  <2>2. Power(base, m) * 1 = Power(base, m)
    BY <2>1
  <2> QED BY <2>1, <2>2
<1>2. ASSUME NEW k \in good PROVE k + 1 \in good
  <2>1. m + k \in Nat /\ m + (k + 1) = (m + k) + 1
    OBVIOUS
  <2>2. Power(base, m + (k + 1)) = base * Power(base, m + k) /\ Power(base, k + 1) = base * Power(base, k)
    BY <2>1, PowerSteps
  <2>3. Power(base, m) \in Nat /\ Power(base, k) \in Nat
    BY PowerIsPositive
  <2>4. \A x, y \in Nat : base * (x * y) = x * (base * y)
    OBVIOUS
  <2>5. base * (Power(base, m) * Power(base, k)) = Power(base, m) * (base * Power(base, k))
    BY <2>3, <2>4
  <2> QED BY <2>2, <2>5
<1>3. good \in SUBSET Nat
  OBVIOUS
<1> HIDE DEF good
<1>4. good = Nat
  BY <1>1, <1>2, <1>3, AllNaturals
<1> QED BY <1>4 DEF good

-----------------------------------------------------------------------------
(* Arithmetic *)

LEMMA DivisionWithRest ==
  ASSUME NEW a \in Int, NEW d \in Nat \ {0}
  PROVE  /\ a \div d \in Int /\ a % d \in 0 .. d - 1 /\ a = d * (a \div d) + (a % d)
         /\ a >= 0 => a \div d >= 0
OBVIOUS

LEMMA OneQuotient ==
  ASSUME NEW a \in Int, NEW d \in Nat \ {0}, NEW q \in Int, NEW r \in 0 .. d - 1, a = d * q + r
  PROVE  a \div d = q /\ a % d = r
OBVIOUS

\* What divides exactly leaves nothing.
LEMMA Multiples ==
  ASSUME NEW q \in Int, NEW d \in Nat \ {0}
  PROVE  (q * d) % d = 0 /\ (q * d) \div d = q
<1>1. q * d \in Int /\ q * d = d * q + 0 /\ 0 \in 0 .. d - 1
  OBVIOUS
<1> QED BY <1>1, OneQuotient

LEMMA Products ==
  ASSUME NEW a \in Int, NEW b \in Int
  PROVE  /\ a * b \in Int /\ a * b = b * a /\ (-a) * b = -(a * b) /\ a * (-b) = -(a * b)
         /\ a >= 0 /\ b >= 0 => a * b >= 0
         /\ a > 0 /\ b > 0 => a * b > 0
         /\ a # 0 /\ b # 0 => a * b # 0
OBVIOUS

\* The division of BigInt, by a positive number.
LEMMA Truncates ==
  ASSUME NEW num \in Int, NEW den \in Nat \ {0}
  PROVE  /\ Quotient(num, den) \in Int
         /\ num >= 0 => /\ Quotient(num, den) = num \div den
                        /\ Quotient(num, den) * den <= num /\ num < Quotient(num, den) * den + den
                        /\ Quotient(num, den) >= 0 /\ Quotient(num, den) * den >= 0
         /\ num < 0 => /\ Quotient(num, den) = -((-num) \div den)
                       /\ num <= Quotient(num, den) * den /\ Quotient(num, den) * den - den < num
                       /\ Quotient(num, den) <= 0 /\ Quotient(num, den) * den <= 0
<1>1. Abs(den) = den /\ ~(den < 0) /\ -num \in Int
  BY DEF Abs
<1>2. CASE num >= 0
  <2>1. Quotient(num, den) = num \div den
    BY <1>1, <1>2 DEF Quotient, Abs
  <2> DEFINE q == num \div den
             r == num % den
  <2>2. q \in Int /\ r \in 0 .. den - 1 /\ num = den * q + r /\ q >= 0
    BY <1>2, DivisionWithRest
  <2> HIDE DEF q, r
  <2>3. q * den = den * q /\ q * den \in Int /\ q * den >= 0
    BY <2>2, Products
  <2> QED BY <1>2, <2>1, <2>2, <2>3 DEF q
<1>3. CASE num < 0
  <2>1. Quotient(num, den) = -((-num) \div den)
    BY <1>1, <1>3 DEF Quotient, Abs
  <2> DEFINE neg == -num
  <2> DEFINE q == neg \div den
             r == neg % den
  <2>2. neg \in Int /\ neg >= 0
    BY <1>3
  <2>3. q \in Int /\ r \in 0 .. den - 1 /\ neg = den * q + r /\ q >= 0
    <3> HIDE DEF neg
    <3> QED BY <2>2, DivisionWithRest
  <2> HIDE DEF q, r
  <2>4. q * den = den * q /\ q * den \in Int /\ q * den >= 0 /\ (-q) * den = -(q * den)
    BY <2>3, Products
  <2> QED BY <1>3, <2>1, <2>3, <2>4 DEF q
<1> QED BY <1>2, <1>3

\* So it goes to the nearest number on the side of zero.
LEMMA QuotientIsNearest ==
  ASSUME NEW num \in Int, NEW den \in Nat \ {0}
  PROVE  Nearest(Quotient(num, den), num, den)
<1> DEFINE q == Quotient(num, den)
           m == q * den
<1>1. q \in Int /\ m \in Int
  BY Truncates, Products
<1>2. /\ num >= 0 => m <= num /\ num < m + den /\ m >= 0
      /\ num < 0 => num <= m /\ m - den < num /\ m <= 0
  BY Truncates
<1> HIDE DEF m
<1>3. Abs(m - num) < den /\ Abs(m) <= Abs(num)
  BY <1>1, <1>2 DEF Abs
<1> QED BY <1>3 DEF Nearest, m

LEMMA SignsCancel ==
  ASSUME NEW a \in Int, NEW b \in Int \ {0}
  PROVE  Quotient(-a, -b) = Quotient(a, b)
<1>1. Abs(-a) = Abs(a) /\ Abs(-b) = Abs(b) /\ Abs(b) \in Nat \ {0} /\ Abs(a) \in Int
  BY DEF Abs
<1>2. CASE a = 0
  <2>1. Abs(a) = 0 /\ Abs(a) \div Abs(b) = 0
    BY <1>1, <1>2 DEF Abs
  <2> QED BY <1>1, <2>1 DEF Quotient
<1>3. CASE a # 0
  <2>1. ((-a < 0) = (-b < 0)) <=> ((a < 0) = (b < 0))
    BY <1>3
  <2> QED BY <1>1, <2>1 DEF Quotient
<1> QED BY <1>2, <1>3

\* What has no remainder is a multiple of the quotient.
LEMMA NoRemainder ==
  ASSUME NEW num \in Int, NEW den \in Int \ {0}
  PROVE  /\ Quotient(num, den) \in Int
         /\ Remainder(num, den) = 0 <=> Quotient(num, den) * den = num
         /\ Remainder(-num, -den) = -Remainder(num, den)
<1> DEFINE q == Quotient(num, den)
<1>1. q \in Int
  <2>1. CASE den > 0
    BY <2>1, Truncates
  <2>2. CASE den < 0
    <3>1. -den \in Nat \ {0} /\ -num \in Int
      BY <2>2
    <3>2. Quotient(-num, -den) \in Int
      BY <3>1, Truncates
    <3> QED BY <3>2, SignsCancel
  <2> QED BY <2>1, <2>2
<1>2. Remainder(num, den) = num - den * q /\ Quotient(-num, -den) = q
  BY SignsCancel DEF Remainder
<1>3. Remainder(-num, -den) = (-num) - (-den) * q
  BY <1>2 DEF Remainder
<1> HIDE DEF q
<1>4. den * q \in Int /\ q * den = den * q /\ (-den) * q = -(den * q)
  BY <1>1, Products
<1> QED BY <1>1, <1>2, <1>3, <1>4 DEF q

-----------------------------------------------------------------------------
(* The field of a format *)

LEMMA FormatNumbers ==
  ASSUME NEW f \in FixedFormats
  PROVE  /\ f.signed \in BOOLEAN /\ f.decimals \in Nat
         /\ Power(2, f.width - 1) \in Nat \ {0}
         /\ Power(2, f.width) \in Nat \ {0} /\ Power(2, f.width) = 2 * Power(2, f.width - 1)
         /\ getTens(f.decimals) \in Nat \ {0}
<1>1. f.signed \in BOOLEAN /\ f.decimals \in Nat /\ f.width \in Nat \ {0}
  BY FixedAssumption
<1> DEFINE w == f.width - 1
<1>2. w \in Nat /\ w + 1 = f.width
  BY <1>1
<1> HIDE DEF w
<1>3. Power(2, w) \in Nat \ {0} /\ Power(2, w + 1) = 2 * Power(2, w)
  BY <1>2, PowerIsPositive, PowerSteps
<1>4. getTens(f.decimals) \in Nat \ {0}
  BY <1>1, PowerIsPositive DEF getTens
<1> QED BY <1>1, <1>2, <1>3, <1>4 DEF w

\* A number in a field of f, wrapped.
Wrapped(n, f) ==
  IF ~f.signed THEN n % Limit(f)
  ELSE IF n > 0 THEN fromTwos(mask(n, f.width), f.width)
  ELSE -fromTwos(mask(-n, f.width), f.width)

LEMMA checkValueWraps ==
  ASSUME NEW n, NEW f, NEW safe
  PROVE  checkValue(n, f, safe) =
           IF safe /\ ~Fits(n, f) THEN FixedFault("overflow") ELSE Value(Wrapped(n, f))
BY DEF checkValue, Wrapped

\* fromTwos of mask is right modulo the field, and right in the lower half.
LEMMA MaskedTwos ==
  ASSUME NEW f \in FixedFormats, NEW n \in Nat
  PROVE  LET v == fromTwos(mask(n, f.width), f.width) IN
         /\ v \in Int
         /\ \E k \in Int : v = n + k * Power(2, f.width)
         /\ n < Power(2, f.width - 1) => v = n
         /\ n = Power(2, f.width - 1) => v = -n
<1> DEFINE h == Power(2, f.width - 1)
           w == Power(2, f.width)
           q == n \div w
           r == n % w
           v == fromTwos(mask(n, f.width), f.width)
<1>1. h \in Nat \ {0} /\ w \in Nat \ {0} /\ w = 2 * h
  BY FormatNumbers
<1>2. v = IF r >= h THEN r - w ELSE r
  BY DEF fromTwos, mask
<1> HIDE DEF v, h, w
<1>3. q \in Int /\ r \in 0 .. w - 1 /\ n = w * q + r
  <2>1. n \in Int
    OBVIOUS
  <2> QED BY <1>1, <2>1, DivisionWithRest
<1>4. n <= h => r = n
  <2>1. n <= h => n \in 0 .. w - 1 /\ 0 \in Int /\ n = w * 0 + n
    BY <1>1
  <2> QED BY <1>1, <2>1, OneQuotient
<1> HIDE DEF r, q
<1>5. v \in Int
  BY <1>1, <1>2, <1>3
<1>6. \E k \in Int : v = n + k * w
  <2>1. (-q) * w = -(q * w) /\ (-q - 1) * w = -(q * w) - w /\ w * q = q * w /\ q * w \in Int
    BY <1>1, <1>3
  <2>2. CASE r >= h
    <3>1. v = n + (-q - 1) * w /\ -q - 1 \in Int
      BY <1>1, <1>2, <1>3, <2>1, <2>2
    <3> QED BY <3>1
  <2>3. CASE ~ (r >= h)
    <3>1. v = n + (-q) * w /\ -q \in Int
      BY <1>1, <1>2, <1>3, <2>1, <2>3
    <3> QED BY <3>1
  <2> QED BY <2>2, <2>3
<1>7. (n < h => v = n) /\ (n = h => v = -n)
  BY <1>1, <1>2, <1>4
<1> QED BY <1>5, <1>6, <1>7 DEF v, h, w

LEMMA WrappedModulo ==
  ASSUME NEW f \in FixedFormats, NEW n \in Int
  PROVE  Wrapped(n, f) \in Int /\ (Wrapped(n, f) - n) % Power(2, f.width) = 0
<1> DEFINE w == Power(2, f.width)
           v == Wrapped(n, f)
<1>1. w \in Nat \ {0} /\ f.signed \in BOOLEAN
  BY FormatNumbers
<1>2. v \in Int /\ \E k \in Int : v = n + k * w
  <2>1. CASE ~f.signed
    <3>1. v = n % w
      BY <2>1 DEF Wrapped, Limit
    <3> HIDE DEF v, w
    <3>2. n \div w \in Int /\ n % w \in Int /\ n = w * (n \div w) + (n % w)
      BY <1>1, DivisionWithRest
    <3> DEFINE k == -(n \div w)
    <3>3. k \in Int /\ v = n + k * w
      BY <1>1, <3>1, <3>2
    <3> QED BY <1>1, <3>1, <3>2, <3>3
  <2>2. CASE f.signed /\ n > 0
    <3>1. n \in Nat /\ v = fromTwos(mask(n, f.width), f.width)
      BY <2>2 DEF Wrapped
    <3> QED BY <3>1, MaskedTwos
  <2>3. CASE f.signed /\ ~ (n > 0)
    <3> DEFINE m == -n
               u == fromTwos(mask(m, f.width), f.width)
    <3>1. m \in Nat /\ v = -u
      BY <2>3 DEF Wrapped
    <3> HIDE DEF m, v
    <3>2. u \in Int /\ \E k \in Int : u = m + k * w
      BY <3>1, MaskedTwos
    <3> HIDE DEF u, w
    <3>3. PICK k \in Int : u = m + k * w
      BY <3>2
    <3>4. v = n + (-k) * w /\ -k \in Int
      BY <1>1, <3>1, <3>2, <3>3 DEF m
    <3> QED BY <3>1, <3>2, <3>4
  <2> QED BY <1>1, <2>1, <2>2, <2>3
<1> HIDE DEF v, w
<1>3. PICK k \in Int : v = n + k * w
  BY <1>2
<1>4. v - n = k * w
  BY <1>1, <1>2, <1>3
<1>5. (v - n) % w = 0
  BY <1>1, <1>4, Multiples
<1> QED BY <1>2, <1>5 DEF v, w

\* What fits is kept, but for the lowest number of a signed field.
LEMMA WrappedFits ==
  ASSUME NEW f \in FixedFormats, NEW n \in Int, Fits(n, f)
  PROVE  Wrapped(n, f) = n \/ Reflected(Wrapped(n, f), f)
<1> DEFINE h == Power(2, f.width - 1)
           w == Power(2, f.width)
           v == Wrapped(n, f)
<1>1. h \in Nat \ {0} /\ w \in Nat \ {0} /\ w = 2 * h /\ f.signed \in BOOLEAN
  BY FormatNumbers
<1>2. CASE ~f.signed
  <2>1. v = n % w /\ n \in 0 .. w - 1
    BY <1>1, <1>2 DEF Wrapped, Limit, Lowest, Fits
  <2> HIDE DEF v, w
  <2>2. n = w * 0 + n /\ 0 \in Int
    BY <1>1
  <2>3. n % w = n
    BY <1>1, <2>1, <2>2, OneQuotient
  <2> QED BY <2>1, <2>3 DEF v
<1>3. CASE f.signed /\ n > 0
  <2>1. n \in Nat /\ n < h /\ v = fromTwos(mask(n, f.width), f.width)
    BY <1>1, <1>3 DEF Wrapped, Limit, Lowest, Fits
  <2>2. v = n
    BY <2>1, MaskedTwos
  <2> QED BY <2>2
<1>4. CASE f.signed /\ ~ (n > 0)
  <2> DEFINE m == -n
             u == fromTwos(mask(m, f.width), f.width)
  <2>1. m \in Nat /\ m <= h /\ v = -u /\ Limit(f) = h
    BY <1>1, <1>4 DEF Wrapped, Limit, Lowest, Fits
  <2> HIDE DEF m
  <2>2. (m < h => u = m) /\ (m = h => u = -m)
    BY <2>1, MaskedTwos
  <2> HIDE DEF u, h, v
  <2>3. v = -m \/ v = h
    BY <1>1, <2>1, <2>2
  <2> QED BY <1>4, <2>1, <2>3 DEF m, v, Reflected
<1> QED BY <1>1, <1>2, <1>3, <1>4

\* What a safe operation makes of its exact result.
LEMMA SafelyChecked ==
  ASSUME NEW f \in FixedFormats, NEW n \in Int, NEW r, r = checkValue(n, f, TRUE)
  PROVE  \/ r.fault = "overflow" /\ ~Fits(n, f)
         \/ r.fault = "none" /\ Fits(n, f) /\ (r.value = n \/ Reflected(r.value, f))
BY checkValueWraps, WrappedFits DEF Value, FixedFault

LEMMA Unchecked ==
  ASSUME NEW f \in FixedFormats, NEW n \in Int, NEW r, r = checkValue(n, f, FALSE)
  PROVE  r.fault = "none" /\ r.value \in Int /\ (r.value - n) % Power(2, f.width) = 0
BY checkValueWraps, WrappedModulo DEF Value, FixedFault

-----------------------------------------------------------------------------
(* The operations of FixedNumber *)

\* A call and what it returns, and that this is what FixedNumberExact wants.
CallOf(op, a, b, f, g, r) == [op |-> op, a |-> a, b |-> b, f |-> f, g |-> g, returned |-> r]
Right(call) ==
  IF call.returned.fault = "none" THEN ExactValue(call, call.returned.value)
  ELSE JustFault(call, call.returned.fault)

LEMMA QuotientByOne ==
  ASSUME NEW n \in Int
  PROVE  Quotient(n, 1) = n
<1>1. Quotient(n, 1) * 1 = Quotient(n, 1) /\ 1 \in Nat \ {0}
  BY Truncates
<1>2. Nearest(Quotient(n, 1), n, 1) /\ Quotient(n, 1) \in Int
  BY QuotientIsNearest, Truncates
<1> QED BY <1>1, <1>2 DEF Nearest, Abs

\* A call of each kind, with what it returns.
IsCall(call, ops) ==
  call.op \in ops /\ call.f \in FixedFormats /\ Exact(call)[1] \in Int /\ Exact(call)[2] \in Nat \ {0}
SafeCall(call) ==
  /\ IsCall(call, {"add", "sub", "mul", "div"})
  /\ call.returned = checkValue(Quotient(Exact(call)[1], Exact(call)[2]), call.f, TRUE)
UnsafeCall(call) ==
  /\ IsCall(call, {"addUnsafe", "subUnsafe", "mulUnsafe", "divUnsafe"})
  /\ call.returned = checkValue(Quotient(Exact(call)[1], Exact(call)[2]), call.f, FALSE)
SignalCall(call) ==
  /\ IsCall(call, {"mulSignal", "divSignal"})
  /\ call.returned = IF Remainder(Exact(call)[1], Exact(call)[2]) # 0 THEN FixedFault("underflow")
                      ELSE checkValue(Quotient(Exact(call)[1], Exact(call)[2]), call.f, TRUE)

\* A safe operation keeps the quotient of its exact result, if that fits.
LEMMA SafeIsRight ==
  ASSUME NEW call, SafeCall(call)
  PROVE  Right(call)
<1> DEFINE num == Exact(call)[1]
           den == Exact(call)[2]
           q == Quotient(num, den)
           r == call.returned
<1>1. num \in Int /\ den \in Nat \ {0} /\ call.f \in FixedFormats
  BY DEF SafeCall, IsCall
<1>2. Exact(call)[1] = num /\ Exact(call)[2] = den
  OBVIOUS
<1> HIDE DEF num, den
<1>3. q \in Int /\ Nearest(q, num, den)
  BY <1>1, Truncates, QuotientIsNearest
<1>4. \/ r.fault = "overflow" /\ ~Fits(q, call.f)
      \/ r.fault = "none" /\ Fits(q, call.f) /\ (r.value = q \/ Reflected(r.value, call.f))
  <2> HIDE DEF q, r
  <2>1. r = checkValue(q, call.f, TRUE)
    BY DEF q, r, num, den, SafeCall
  <2> QED BY <1>1, <1>3, <2>1, SafelyChecked
<1>5. CASE r.fault = "overflow" /\ ~Fits(q, call.f)
  <2>1. JustFault(call, "overflow")
    BY <1>2, <1>5 DEF JustFault, SafeCall, IsCall
  <2> QED BY <1>5, <2>1 DEF Right
<1>6. CASE r.fault = "none" /\ Fits(q, call.f) /\ (r.value = q \/ Reflected(r.value, call.f))
  <2>1. Reflected(r.value, call.f) \/ (Fits(r.value, call.f) /\ Nearest(r.value, num, den))
    BY <1>3, <1>6
  <2>2. ExactValue(call, r.value)
    BY <1>2, <2>1 DEF ExactValue, SafeCall, IsCall
  <2> QED BY <1>6, <2>2 DEF Right
<1> QED BY <1>4, <1>5, <1>6

\* An unsafe one is right modulo the field.
LEMMA UnsafeIsRight ==
  ASSUME NEW call, UnsafeCall(call)
  PROVE  Right(call)
<1> DEFINE num == Exact(call)[1]
           den == Exact(call)[2]
           q == Quotient(num, den)
           r == call.returned
<1>1. num \in Int /\ den \in Nat \ {0} /\ call.f \in FixedFormats
  BY DEF UnsafeCall, IsCall
<1>2. Exact(call)[1] = num /\ Exact(call)[2] = den
  OBVIOUS
<1> HIDE DEF num, den
<1>3. q \in Int
  BY <1>1, Truncates
<1>4. r.fault = "none" /\ (r.value - q) % Power(2, call.f.width) = 0
  <2> HIDE DEF q, r
  <2>1. r = checkValue(q, call.f, FALSE)
    BY DEF q, r, num, den, UnsafeCall
  <2> QED BY <1>1, <1>3, <2>1, Unchecked
<1>5. ExactValue(call, r.value)
  BY <1>2, <1>4 DEF ExactValue, UnsafeCall, IsCall
<1> QED BY <1>4, <1>5 DEF Right

\* A signalling one loses nothing.
LEMMA SignalIsRight ==
  ASSUME NEW call, SignalCall(call)
  PROVE  Right(call)
<1> DEFINE num == Exact(call)[1]
           den == Exact(call)[2]
           q == Quotient(num, den)
           r == call.returned
<1>1. num \in Int /\ den \in Nat \ {0} /\ call.f \in FixedFormats
  BY DEF SignalCall, IsCall
<1>2. Exact(call)[1] = num /\ Exact(call)[2] = den
  OBVIOUS
<1> HIDE DEF num, den
<1>3. q \in Int /\ (Remainder(num, den) = 0 <=> q * den = num)
  <2>1. den \in Int \ {0}
    BY <1>1
  <2> QED BY <1>1, <2>1, NoRemainder
<1>4. CASE Remainder(num, den) # 0
  <2>1. r.fault = "underflow"
    BY <1>4 DEF FixedFault, num, den, SignalCall
  <2>2. JustFault(call, "underflow")
    BY <1>2, <1>4 DEF JustFault, SignalCall, IsCall
  <2> QED BY <2>1, <2>2 DEF Right
<1>5. CASE Remainder(num, den) = 0
  <2>1. \/ r.fault = "overflow" /\ ~Fits(q, call.f)
        \/ r.fault = "none" /\ Fits(q, call.f) /\ (r.value = q \/ Reflected(r.value, call.f))
    <3> HIDE DEF q, r
    <3>1. r = checkValue(q, call.f, TRUE)
      BY <1>5 DEF q, r, num, den, SignalCall
    <3> QED BY <1>1, <1>3, <3>1, SafelyChecked
  <2>2. CASE r.fault = "overflow" /\ ~Fits(q, call.f)
    <3>1. JustFault(call, "overflow")
      BY <1>2, <2>2 DEF JustFault, SignalCall, IsCall
    <3> QED BY <2>2, <3>1 DEF Right
  <2>3. CASE r.fault = "none" /\ (r.value = q \/ Reflected(r.value, call.f))
    <3>1. Reflected(r.value, call.f) \/ r.value * den = num
      BY <1>3, <1>5, <2>3
    <3>2. ExactValue(call, r.value)
      BY <1>2, <3>1 DEF ExactValue, SignalCall, IsCall
    <3> QED BY <2>3, <3>2 DEF Right
  <2> QED BY <2>1, <2>2, <2>3
<1> QED BY <1>4, <1>5

LEMMA SumsAreRight ==
  ASSUME NEW f \in FixedFormats, NEW a \in Int, NEW b \in Int
  PROVE  /\ Right(CallOf("add", a, b, f, f, Add(a, b, f, TRUE)))
         /\ Right(CallOf("addUnsafe", a, b, f, f, Add(a, b, f, FALSE)))
         /\ Right(CallOf("sub", a, b, f, f, Sub(a, b, f, TRUE)))
         /\ Right(CallOf("subUnsafe", a, b, f, f, Sub(a, b, f, FALSE)))
<1> DEFINE sum == a + b
           difference == a - b
           call1 == CallOf("add", a, b, f, f, Add(a, b, f, TRUE))
           call2 == CallOf("addUnsafe", a, b, f, f, Add(a, b, f, FALSE))
           call3 == CallOf("sub", a, b, f, f, Sub(a, b, f, TRUE))
           call4 == CallOf("subUnsafe", a, b, f, f, Sub(a, b, f, FALSE))
<1>1. sum \in Int /\ difference \in Int /\ Quotient(sum, 1) = sum /\ Quotient(difference, 1) = difference
  <2>1. sum \in Int /\ difference \in Int
    OBVIOUS
  <2> HIDE DEF sum, difference
  <2> QED BY <2>1, QuotientByOne
<1>2. /\ Exact(call1) = <<sum, 1>> /\ Exact(call2) = <<sum, 1>>
      /\ Exact(call3) = <<difference, 1>> /\ Exact(call4) = <<difference, 1>>
  BY DEF CallOf, Exact
<1>3. SafeCall(call1) /\ UnsafeCall(call2)
  <2>1. /\ call1.op = "add" /\ call1.f = f /\ call1.returned = checkValue(Quotient(sum, 1), f, TRUE)
        /\ call2.op = "addUnsafe" /\ call2.f = f /\ call2.returned = checkValue(Quotient(sum, 1), f, FALSE)
    BY <1>1 DEF CallOf, Add
  <2> HIDE DEF sum, call1, call2
  <2> QED BY <1>1, <1>2, <2>1 DEF SafeCall, UnsafeCall, IsCall
<1>4. SafeCall(call3) /\ UnsafeCall(call4)
  <2>1. /\ call3.op = "sub" /\ call3.f = f /\ call3.returned = checkValue(Quotient(difference, 1), f, TRUE)
        /\ call4.op = "subUnsafe" /\ call4.f = f /\ call4.returned = checkValue(Quotient(difference, 1), f, FALSE)
    BY <1>1 DEF CallOf, Sub
  <2> HIDE DEF difference, call3, call4
  <2> QED BY <1>1, <1>2, <2>1 DEF SafeCall, UnsafeCall, IsCall
<1> QED BY <1>3, <1>4, SafeIsRight, UnsafeIsRight

LEMMA ProductsAreRight ==
  ASSUME NEW f \in FixedFormats, NEW a \in Int, NEW b \in Int
  PROVE  /\ Right(CallOf("mul", a, b, f, f, Mul(a, b, f, TRUE)))
         /\ Right(CallOf("mulUnsafe", a, b, f, f, Mul(a, b, f, FALSE)))
         /\ Right(CallOf("mulSignal", a, b, f, f, mulSignal(a, b, f)))
<1> DEFINE num == a * b
           tens == getTens(f.decimals)
           call1 == CallOf("mul", a, b, f, f, Mul(a, b, f, TRUE))
           call2 == CallOf("mulUnsafe", a, b, f, f, Mul(a, b, f, FALSE))
           call3 == CallOf("mulSignal", a, b, f, f, mulSignal(a, b, f))
<1>1. num \in Int /\ tens \in Nat \ {0}
  BY FormatNumbers
<1>2. Exact(call1) = <<num, tens>> /\ Exact(call2) = <<num, tens>> /\ Exact(call3) = <<num, tens>>
  BY DEF CallOf, Exact
<1>3. /\ call1.op = "mul" /\ call1.f = f /\ call1.returned = checkValue(Quotient(num, tens), f, TRUE)
      /\ call2.op = "mulUnsafe" /\ call2.f = f /\ call2.returned = checkValue(Quotient(num, tens), f, FALSE)
      /\ call3.op = "mulSignal" /\ call3.f = f
      /\ call3.returned = IF Remainder(num, tens) # 0 THEN FixedFault("underflow")
                          ELSE checkValue(Quotient(num, tens), f, TRUE)
  BY DEF CallOf, Mul, mulSignal
<1>4. SafeCall(call1) /\ UnsafeCall(call2) /\ SignalCall(call3)
  <2> HIDE DEF num, tens, call1, call2, call3
  <2> QED BY <1>1, <1>2, <1>3 DEF SafeCall, UnsafeCall, SignalCall, IsCall
<1> QED BY <1>4, SafeIsRight, UnsafeIsRight, SignalIsRight

LEMMA DivisionsAreRight ==
  ASSUME NEW f \in FixedFormats, NEW a \in Int, NEW b \in Int
  PROVE  /\ Right(CallOf("div", a, b, f, f, Div(a, b, f, TRUE)))
         /\ Right(CallOf("divUnsafe", a, b, f, f, Div(a, b, f, FALSE)))
         /\ Right(CallOf("divSignal", a, b, f, f, divSignal(a, b, f)))
<1> DEFINE tens == getTens(f.decimals)
           call1 == CallOf("div", a, b, f, f, Div(a, b, f, TRUE))
           call2 == CallOf("divUnsafe", a, b, f, f, Div(a, b, f, FALSE))
           call3 == CallOf("divSignal", a, b, f, f, divSignal(a, b, f))
<1>1. CASE b = 0
  <2>1. ASSUME NEW call, call.returned.fault = "divide-by-zero", call.b = 0 PROVE Right(call)
    <3>1. JustFault(call, "divide-by-zero")
      BY <2>1 DEF JustFault
    <3> QED BY <2>1, <3>1 DEF Right
  <2>2. /\ call1.returned.fault = "divide-by-zero" /\ call1.b = 0
        /\ call2.returned.fault = "divide-by-zero" /\ call2.b = 0
        /\ call3.returned.fault = "divide-by-zero" /\ call3.b = 0
    BY <1>1 DEF CallOf, Div, divSignal, FixedFault
  <2> HIDE DEF call1, call2, call3
  <2>3. Right(call1) /\ Right(call2) /\ Right(call3)
    BY <2>1, <2>2
  <2> QED BY <2>3 DEF call1, call2, call3
<1>2. CASE b # 0
  <2> DEFINE product == a * tens
             num == IF b < 0 THEN -product ELSE product
             den == IF b < 0 THEN -b ELSE b
  <2>1. product \in Int /\ (-a) * tens = -product /\ tens \in Nat \ {0}
    <3>1. tens \in Nat \ {0}
      BY FormatNumbers
    <3> HIDE DEF tens
    <3> QED BY <3>1, Products
  <2>2. num \in Int /\ den \in Nat \ {0} /\ b \in Int \ {0}
    BY <1>2, <2>1
  <2>3. Quotient(num, den) = Quotient(product, b) /\ (Remainder(num, den) # 0 <=> Remainder(product, b) # 0)
    <3> HIDE DEF product
    <3>1. Quotient(product, b) \in Int /\ Remainder(product, b) \in Int
      <4>1. Quotient(product, b) \in Int
        BY <2>1, <2>2, NoRemainder
      <4> QED BY <2>1, <2>2, <4>1 DEF Remainder
    <3>2. CASE b < 0
      <4>1. Quotient(-product, -b) = Quotient(product, b) /\ Remainder(-product, -b) = -Remainder(product, b)
        BY <2>1, <2>2, SignsCancel, NoRemainder
      <4> QED BY <3>1, <3>2, <4>1
    <3>3. CASE ~ (b < 0)
      BY <3>3
    <3> QED BY <3>2, <3>3
  <2>4. Exact(call1) = <<num, den>> /\ Exact(call2) = <<num, den>> /\ Exact(call3) = <<num, den>>
    BY <2>1 DEF CallOf, Exact
  <2>5. /\ call1.op = "div" /\ call1.f = f /\ call1.returned = checkValue(Quotient(num, den), f, TRUE)
        /\ call2.op = "divUnsafe" /\ call2.f = f /\ call2.returned = checkValue(Quotient(num, den), f, FALSE)
        /\ call3.op = "divSignal" /\ call3.f = f
        /\ call3.returned = IF Remainder(num, den) # 0 THEN FixedFault("underflow")
                            ELSE checkValue(Quotient(num, den), f, TRUE)
    <3> HIDE DEF num, den
    <3> QED BY <1>2, <2>3 DEF CallOf, Div, divSignal
  <2>6. SafeCall(call1) /\ UnsafeCall(call2) /\ SignalCall(call3)
    <3> HIDE DEF num, den, call1, call2, call3
    <3> QED BY <2>2, <2>4, <2>5 DEF SafeCall, UnsafeCall, SignalCall, IsCall
  <2> QED BY <2>6, SafeIsRight, UnsafeIsRight, SignalIsRight
<1> QED BY <1>1, <1>2

LEMMA Associates ==
  ASSUME NEW a \in Int, NEW b \in Int, NEW c \in Int
  PROVE  /\ (a * b) * c = a * (b * c) /\ (a * b) * c = (a * c) * b /\ a * b = b * a
         /\ a * b \in Int /\ (a * b) * c \in Int
OBVIOUS

LEMMA Cancels ==
  ASSUME NEW a \in Int, NEW b \in Int, NEW d \in Nat \ {0}
  PROVE  a = b <=> a * d = b * d
<1>1. (a * d) \div d = a /\ (b * d) \div d = b
  BY Multiples
<1> QED BY <1>1

\* The units of two formats differ by a power of ten.
LEMMA TensOfFormats ==
  ASSUME NEW f \in FixedFormats, NEW g \in FixedFormats, f.decimals <= g.decimals
  PROVE  /\ getTens(f.decimals) \in Nat \ {0} /\ getTens(g.decimals) \in Nat \ {0}
         /\ getTens(g.decimals - f.decimals) \in Nat \ {0}
         /\ getTens(g.decimals) = getTens(f.decimals) * getTens(g.decimals - f.decimals)
<1> DEFINE m == f.decimals
           n == g.decimals
           k == n - m
<1>1. m \in Nat /\ n \in Nat /\ k \in Nat /\ m + k = n
  BY FormatNumbers
<1> HIDE DEF m, n, k
<1>2. Power(10, m) \in Nat \ {0} /\ Power(10, n) \in Nat \ {0} /\ Power(10, k) \in Nat \ {0}
  BY <1>1, PowerIsPositive
<1>3. Power(10, m + k) = Power(10, m) * Power(10, k)
  BY <1>1, PowerOfSum
<1> QED BY <1>1, <1>2, <1>3 DEF getTens, m, n, k

LEMMA FieldHoldsZero ==
  ASSUME NEW f \in FixedFormats
  PROVE  Lowest(f) \in Int /\ Limit(f) \in Int /\ Fits(0, f)
         /\ \A a \in Int : Fits(a, f) <=> Lowest(f) <= a /\ a < Limit(f)
<1>1. Lowest(f) \in Int /\ Limit(f) \in Int /\ Lowest(f) <= 0 /\ 0 < Limit(f)
  BY FormatNumbers DEF Lowest, Limit
<1> QED BY <1>1 DEF Fits

LEMMA WholeIsRight ==
  ASSUME NEW f \in FixedFormats, NEW a \in Int, Fits(a, f)
  PROVE  Right(CallOf("whole", a, 0, f, f, Whole(a, f)))
<1> DEFINE tens == getTens(f.decimals)
           q == Quotient(a, tens)
           n == q * tens
           r == Whole(a, f)
<1>1. tens \in Nat \ {0} /\ r = checkValue(n, f, TRUE)
  BY FormatNumbers DEF Whole
<1> HIDE DEF tens, r
<1>2. q \in Int /\ n \in Int /\ n % tens = 0 /\ n \div tens = q /\ Nearest(q, a, tens)
  <2>1. q \in Int /\ Nearest(q, a, tens)
    BY <1>1, Truncates, QuotientIsNearest
  <2> HIDE DEF q
  <2> QED BY <1>1, <2>1, Products, Multiples
<1>3. (a >= 0 => 0 <= n /\ n <= a) /\ (a < 0 => a <= n /\ n <= 0)
  BY <1>1, Truncates
<1> HIDE DEF q, n
<1>4. Fits(n, f)
  BY <1>2, <1>3, FieldHoldsZero
<1>5. r.fault = "none" /\ (r.value = n \/ Reflected(r.value, f))
  BY <1>1, <1>2, <1>4, SafelyChecked
<1>6. Reflected(r.value, f) \/ (r.value % tens = 0 /\ Nearest(r.value \div tens, a, tens))
  BY <1>2, <1>5
<1> DEFINE call == CallOf("whole", a, 0, f, f, r)
<1>7. call.op = "whole" /\ call.a = a /\ call.f = f /\ call.returned = r
  BY DEF CallOf
<1>8. ExactValue(call, r.value)
  <2> HIDE DEF call
  <2> QED BY <1>6, <1>7 DEF ExactValue, tens
<1>9. Right(call)
  <2> HIDE DEF call
  <2> QED BY <1>5, <1>7, <1>8 DEF Right
<1> QED BY <1>9 DEF r

\* The bytes of a number are the number again.
LEMMA BytesAreRight ==
  ASSUME NEW f \in FixedFormats, NEW a \in Int, Fits(a, f)
  PROVE  Right(CallOf("bytes", a, 0, f, f, fromBytes(toTwos(a, f.width), f)))
<1> DEFINE h == Power(2, f.width - 1)
           w == Power(2, f.width)
           n == toTwos(a, f.width)
           r == fromBytes(n, f)
           call == CallOf("bytes", a, 0, f, f, r)
<1>1. f.signed \in BOOLEAN /\ h \in Nat \ {0} /\ w \in Nat \ {0} /\ w = 2 * h
  BY FormatNumbers
<1>2. n = IF a < 0 THEN a + w ELSE a
  BY DEF toTwos
<1>3. IF f.signed THEN -h <= a /\ a < h ELSE 0 <= a /\ a < w
  <2>1. Lowest(f) <= a /\ a < Limit(f)
    BY FieldHoldsZero
  <2> QED BY <1>1, <2>1 DEF Lowest, Limit
<1>4. f.signed => ~(n >= w) /\ fromTwos(n, f.width) = a
  BY <1>1, <1>2, <1>3 DEF fromTwos
<1>5. ~f.signed => n = a
  BY <1>1, <1>2, <1>3
<1> HIDE DEF n, h, w
<1>6. r = Value(a)
  BY <1>1, <1>4, <1>5 DEF fromBytes, Checked, w
<1>7. call.op = "bytes" /\ call.a = a /\ call.returned = r /\ r.fault = "none" /\ r.value = a
  BY <1>6 DEF CallOf, Value
<1> HIDE DEF r, call
<1>8. ExactValue(call, r.value)
  BY <1>7 DEF ExactValue
<1>9. Right(call)
  BY <1>7, <1>8 DEF Right
<1> QED BY <1>9 DEF call, r, n

\* What a call checks it keeps, or refuses, and 0 it does not refuse.
LEMMA CheckedValues ==
  ASSUME NEW f \in FixedFormats, NEW n \in Int, NEW r, r = Checked(n, f)
  PROVE  \/ r.fault = "none" /\ r.value = n
         \/ r.fault = "overflow" /\ n # 0
<1>1. Fits(0, f)
  BY FieldHoldsZero
<1> QED BY <1>1 DEF Checked, Value, FixedFault

LEMMA ConvertIsRight ==
  ASSUME NEW f \in FixedFormats, NEW g \in FixedFormats, NEW a \in Int
  PROVE  Right(CallOf("convert", a, 0, f, g, Convert(a, f.decimals, g)))
<1> DEFINE tens == getTens(f.decimals)
           units == getTens(g.decimals)
           r == Convert(a, f.decimals, g)
           call == CallOf("convert", a, 0, f, g, r)
<1>1. f.decimals \in Nat /\ g.decimals \in Nat
  BY FormatNumbers
<1>2. \/ r.fault = "none" /\ r.value * tens = a * units
      \/ r.fault = "overflow" /\ a # 0
      \/ r.fault = "underflow" /\ a # 0
  <2>1. CASE f.decimals <= g.decimals
    <3> DEFINE p == getTens(g.decimals - f.decimals)
               n == a * p
    <3>1. tens \in Nat \ {0} /\ p \in Nat \ {0} /\ units = tens * p
      BY <2>1, TensOfFormats
    <3>2. r = Checked(n, g)
      <4>1. f.decimals - g.decimals <= 0 /\ -(f.decimals - g.decimals) = g.decimals - f.decimals
        BY <1>1, <2>1
      <4> QED BY <4>1 DEF Convert
    <3> HIDE DEF tens, units, p, r
    <3>3. n \in Int /\ n * tens = a * units /\ (n # 0 => a # 0)
      <4>1. (a * p) * tens = a * (p * tens) /\ p * tens = tens * p /\ a * p \in Int
        BY <3>1, Associates
      <4>2. a = 0 => a * p = 0
        BY <3>1
      <4> QED BY <3>1, <4>1, <4>2
    <3> HIDE DEF n
    <3> QED BY <3>2, <3>3, CheckedValues
  <2>2. CASE ~ (f.decimals <= g.decimals)
    <3> DEFINE p == getTens(f.decimals - g.decimals)
               q == Quotient(a, p)
    <3>1. units \in Nat \ {0} /\ p \in Nat \ {0} /\ tens = units * p
      <4>1. g.decimals <= f.decimals
        BY <1>1, <2>2
      <4> QED BY <4>1, TensOfFormats
    <3>2. r = IF Remainder(a, p) # 0 THEN FixedFault("underflow") ELSE Checked(q, g)
      <4>1. ~(f.decimals - g.decimals <= 0)
        BY <1>1, <2>2
      <4> QED BY <4>1 DEF Convert
    <3> HIDE DEF tens, units, p, r
    <3>3. q \in Int /\ (Remainder(a, p) = 0 <=> q * p = a) /\ (a = 0 => q = 0)
      <4>1. q \in Int /\ (Remainder(a, p) = 0 <=> q * p = a)
        BY <3>1, NoRemainder
      <4>2. a = 0 => q * p >= 0 /\ q * p <= 0 /\ q * p \in Int
        BY <3>1, <4>1, Truncates
      <4> HIDE DEF q
      <4> QED BY <3>1, <4>1, <4>2, Products
    <3> HIDE DEF q
    <3>4. CASE Remainder(a, p) # 0
      <4>1. a = 0 => q * p = 0
        BY <3>1, <3>3
      <4>2. a # 0
        BY <3>3, <3>4, <4>1
      <4> QED BY <3>2, <3>4, <4>2 DEF FixedFault
    <3>5. CASE Remainder(a, p) = 0
      <4>1. r = Checked(q, g)
        BY <3>2, <3>5
      <4>2. q * tens = a * units
        <5>1. (q * p) * units = q * (p * units) /\ p * units = units * p
          BY <3>1, <3>3, Associates
        <5> QED BY <3>1, <3>3, <3>5, <5>1
      <4> QED BY <3>3, <4>1, <4>2, CheckedValues
    <3> QED BY <3>4, <3>5
  <2> QED BY <2>1, <2>2
<1>3. call.op = "convert" /\ call.a = a /\ call.f = f /\ call.g = g /\ call.returned = r
  BY DEF CallOf
<1> SUFFICES Right(call)
  OBVIOUS
<1> HIDE DEF call, r
<1>4. CASE r.fault = "none" /\ r.value * tens = a * units
  <2>1. ExactValue(call, r.value)
    BY <1>3, <1>4 DEF ExactValue
  <2> QED BY <1>3, <1>4, <2>1 DEF Right
<1>5. CASE r.fault \in {"overflow", "underflow"} /\ a # 0
  <2>1. JustFault(call, r.fault)
    BY <1>3, <1>5 DEF JustFault
  <2> QED BY <1>3, <1>5, <2>1 DEF Right
<1> HIDE DEF tens, units
<1> QED BY <1>2, <1>4, <1>5

\* round adds half of the last place it keeps.
LEMMA RoundIsRight ==
  ASSUME NEW f \in FixedFormats, NEW g \in FixedFormats, NEW a \in Int
  PROVE  Right(CallOf("round", a, 0, f, g, round(a, f, g.decimals)))
<1> DEFINE tens == getTens(f.decimals)
           units == getTens(g.decimals)
           scale == tens \div units
           r == round(a, f, g.decimals)
           call == CallOf("round", a, 0, f, g, r)
<1>1. f.decimals \in Nat /\ g.decimals \in Nat
  BY FormatNumbers
<1>2. \/ r.fault = "none" /\ scale <= 1
      \/ r.fault = "none" /\ (a < 0 \/ (r.value % scale = 0 /\ 2 * Abs(r.value - a) <= scale))
      \/ r.fault = "overflow" /\ a # 0
  <2>1. CASE f.decimals <= g.decimals
    <3> DEFINE p == getTens(g.decimals - f.decimals)
    <3>1. tens \in Nat \ {0} /\ units \in Nat \ {0} /\ p \in Nat \ {0} /\ units = tens * p
      BY <2>1, TensOfFormats
    <3>2. r.fault = "none"
      BY <1>1, <2>1 DEF round, Value
    <3> HIDE DEF tens, units, p
    <3>3. tens <= units
      <4>1. tens * (p - 1) >= 0 /\ tens * p = tens * (p - 1) + tens
        BY <3>1
      <4> QED BY <3>1, <4>1
    <3>4. CASE tens = units
      <4>1. tens = units * 1 + 0 /\ 1 \in Int /\ 0 \in 0 .. units - 1 /\ tens \in Int
        BY <3>1, <3>4
      <4>2. scale = 1
        BY <3>1, <4>1, OneQuotient
      <4> QED BY <3>2, <4>2
    <3>5. CASE tens < units
      <4>1. tens = units * 0 + tens /\ 0 \in Int /\ tens \in 0 .. units - 1 /\ tens \in Int
        BY <3>1, <3>5
      <4>2. scale = 0
        BY <3>1, <4>1, OneQuotient
      <4> QED BY <3>2, <4>2
    <3> QED BY <3>1, <3>3, <3>4, <3>5
  <2>2. CASE ~ (f.decimals <= g.decimals)
    <3> DEFINE t == getTens(f.decimals - g.decimals)
               u == t \div 10
               m == a + 5 * u
               q == Quotient(m, t)
               n == q * t
    <3>1. units \in Nat \ {0} /\ t \in Nat \ {0} /\ tens = t * units
      <4>1. g.decimals <= f.decimals
        BY <1>1, <2>2
      <4>2. units \in Nat \ {0} /\ t \in Nat \ {0} /\ tens = units * t
        BY <4>1, TensOfFormats
      <4> HIDE DEF units, tens, t
      <4> QED BY <4>2, Products
    <3>2. scale = t
      <4> HIDE DEF units, tens, t
      <4>1. t \in Int
        BY <3>1
      <4> QED BY <3>1, <4>1, Multiples
    <3>3. u \in Nat /\ t = 10 * u
      <4> DEFINE k == f.decimals - g.decimals - 1
      <4>1. k \in Nat /\ k + 1 = f.decimals - g.decimals
        BY <1>1, <2>2
      <4> HIDE DEF k
      <4> DEFINE v == Power(10, k)
      <4>2. v \in Nat \ {0} /\ Power(10, k + 1) = 10 * v
        <5>1. v \in Nat \ {0}
          BY <4>1, PowerIsPositive
        <5>2. Power(10, k + 1) = 10 * v
          BY <4>1, PowerSteps
        <5> QED BY <5>1, <5>2
      <4>3. t = 10 * v
        BY <4>1, <4>2 DEF getTens
      <4> HIDE DEF v, t
      <4>4. u = v
        BY <4>2, <4>3
      <4> QED BY <4>2, <4>3, <4>4
    <3>4. r = Checked(n, f)
      BY <1>1, <2>2 DEF round
    <3> HIDE DEF tens, units, scale, t, u, r
    <3>5. m \in Int
      BY <3>3
    <3> HIDE DEF m
    <3>6. q \in Int /\ (m >= 0 => n <= m /\ m < n + t /\ n >= 0)
      BY <3>1, <3>5, Truncates
    <3> HIDE DEF q
    <3>7. n \in Int /\ n % t = 0
      BY <3>1, <3>6, Products, Multiples
    <3>8. a >= 0 => 2 * Abs(n - a) <= t
      <4> HIDE DEF n
      <4> QED BY <3>1, <3>3, <3>6, <3>7 DEF m, Abs
    <3>9. a = 0 => n = 0
      <4>1. a = 0 => n < t /\ n >= 0
        <5> HIDE DEF n
        <5> QED BY <3>1, <3>3, <3>6, <3>7 DEF m
      <4>2. a = 0 => n = t * 0 + n /\ n \in 0 .. t - 1
        <5> HIDE DEF n
        <5> QED BY <3>1, <3>7, <4>1
      <4>3. a = 0 => n % t = n
        <5> HIDE DEF n
        <5> QED BY <3>1, <3>7, <4>2, OneQuotient
      <4> QED BY <3>7, <4>3
    <3> HIDE DEF n
    <3>10. \/ r.fault = "none" /\ r.value = n
           \/ r.fault = "overflow" /\ n # 0
      BY <3>4, <3>7, CheckedValues
    <3> QED BY <3>2, <3>7, <3>8, <3>9, <3>10
  <2> QED BY <2>1, <2>2
<1>3. call.op = "round" /\ call.a = a /\ call.f = f /\ call.g = g /\ call.returned = r
  BY DEF CallOf
<1> SUFFICES Right(call)
  OBVIOUS
<1> HIDE DEF call, r
<1>4. CASE r.fault = "none" /\ (a < 0 \/ scale <= 1 \/ (r.value % scale = 0 /\ 2 * Abs(r.value - a) <= scale))
  <2>1. ExactValue(call, r.value)
    BY <1>3, <1>4 DEF ExactValue
  <2> QED BY <1>3, <1>4, <2>1 DEF Right
<1>5. CASE r.fault = "overflow" /\ a # 0
  <2>1. JustFault(call, r.fault)
    BY <1>3, <1>5 DEF JustFault
  <2> QED BY <1>3, <1>5, <2>1 DEF Right
<1> HIDE DEF scale
<1> QED BY <1>2, <1>4, <1>5

LEMMA CompareIsRight ==
  ASSUME NEW f \in FixedFormats, NEW g \in FixedFormats, NEW a \in Int, NEW b \in Int
  PROVE  Right(CallOf("cmp", a, b, f, g, Value(cmp(a, f, b, g))))
<1> DEFINE tens == getTens(f.decimals)
           units == getTens(g.decimals)
           n == cmp(a, f, b, g)
           call == CallOf("cmp", a, b, f, g, Value(n))
<1>1. f.decimals \in Nat /\ g.decimals \in Nat
  BY FormatNumbers
<1>2. (n = 0) <=> (a * units = b * tens)
  <2>1. CASE f.decimals < g.decimals
    <3> DEFINE p == getTens(g.decimals - f.decimals)
               left == a * p
    <3>1. tens \in Nat \ {0} /\ p \in Nat \ {0} /\ units = tens * p
      BY <1>1, <2>1, TensOfFormats
    <3>2. n = IF left = b THEN 0 ELSE -1
      BY <1>1, <2>1 DEF cmp
    <3> HIDE DEF tens, units, p, n
    <3>3. left \in Int /\ left * tens = a * units
      <4>1. (a * p) * tens = a * (p * tens) /\ p * tens = tens * p /\ a * p \in Int
        BY <3>1, Associates
      <4> QED BY <3>1, <4>1
    <3> HIDE DEF left
    <3>4. left = b <=> left * tens = b * tens
      BY <3>1, <3>3, Cancels
    <3> QED BY <3>2, <3>3, <3>4
  <2>2. CASE g.decimals < f.decimals
    <3> DEFINE p == getTens(f.decimals - g.decimals)
               right == b * p
    <3>1. units \in Nat \ {0} /\ p \in Nat \ {0} /\ tens = units * p
      BY <1>1, <2>2, TensOfFormats
    <3>2. n = IF a = right THEN 0 ELSE -1
      BY <1>1, <2>2 DEF cmp
    <3> HIDE DEF tens, units, p, n
    <3>3. right \in Int /\ right * units = b * tens
      <4>1. (b * p) * units = b * (p * units) /\ p * units = units * p /\ b * p \in Int
        BY <3>1, Associates
      <4> QED BY <3>1, <4>1
    <3> HIDE DEF right
    <3>4. a = right <=> a * units = right * units
      BY <3>1, <3>3, Cancels
    <3> QED BY <3>2, <3>3, <3>4
  <2>3. CASE f.decimals = g.decimals
    <3>1. n = (IF a = b THEN 0 ELSE -1) /\ units = tens
      BY <1>1, <2>3 DEF cmp
    <3>2. tens \in Nat \ {0}
      BY FormatNumbers
    <3> HIDE DEF tens, units, n
    <3>3. a = b <=> a * tens = b * tens
      BY <3>2, Cancels
    <3> QED BY <3>1, <3>3
  <2> QED BY <1>1, <2>1, <2>2, <2>3
<1>3. /\ call.op = "cmp" /\ call.a = a /\ call.b = b /\ call.f = f /\ call.g = g
      /\ call.returned.fault = "none" /\ call.returned.value = n
  BY DEF CallOf, Value
<1> SUFFICES Right(call)
  OBVIOUS
<1> HIDE DEF call, n
<1>4. ExactValue(call, n)
  BY <1>2, <1>3 DEF ExactValue
<1> HIDE DEF tens, units
<1> QED BY <1>3, <1>4 DEF Right

-----------------------------------------------------------------------------
(***************************************************************************)
(* An operation of FixedNumber returns the exact value but for the digits  *)
(* that do not fit, or refuses, and refuses only what does not fit, for    *)
(* every format and all numbers.                                           *)
(***************************************************************************)
THEOREM FixedNumbersAreExact == FixedSpec => []FixedNumberExact
<1>1. FixedInit => FixedNumberExact
  BY DEF FixedInit, FixedNumberExact
<1>2. FixedNumberExact /\ [FixedNext]_fixedVars => FixedNumberExact'
  <2> SUFFICES ASSUME FixedNumberExact, [FixedNext]_fixedVars PROVE FixedNumberExact'
    OBVIOUS
  <2>1. ASSUME NEW call, fixedCall' = call, Right(call) PROVE FixedNumberExact'
    BY <2>1 DEF FixedNumberExact, Right
  <2>2. ASSUME NEW op, NEW a, NEW b, NEW f, NEW g, NEW r,
               FixedReturn(op, a, b, f, g, r), Right(CallOf(op, a, b, f, g, r))
        PROVE  FixedNumberExact'
    BY <2>1, <2>2 DEF FixedReturn, CallOf
  <2>3. ASSUME NEW f \in FixedFormats, NEW a \in FixedValues, NEW b \in FixedValues, FixedBinary(f, a, b)
        PROVE  FixedNumberExact'
    <3>1. a \in Int /\ b \in Int
      BY <2>3, FieldHoldsZero DEF FixedBinary
    <3>2. CASE \/ FixedReturn("add", a, b, f, f, Add(a, b, f, TRUE))
               \/ FixedReturn("addUnsafe", a, b, f, f, Add(a, b, f, FALSE))
               \/ FixedReturn("sub", a, b, f, f, Sub(a, b, f, TRUE))
               \/ FixedReturn("subUnsafe", a, b, f, f, Sub(a, b, f, FALSE))
      BY <2>2, <3>1, <3>2, SumsAreRight
    <3>3. CASE \/ FixedReturn("mul", a, b, f, f, Mul(a, b, f, TRUE))
               \/ FixedReturn("mulUnsafe", a, b, f, f, Mul(a, b, f, FALSE))
               \/ FixedReturn("mulSignal", a, b, f, f, mulSignal(a, b, f))
      BY <2>2, <3>1, <3>3, ProductsAreRight
    <3>4. CASE \/ FixedReturn("div", a, b, f, f, Div(a, b, f, TRUE))
               \/ FixedReturn("divUnsafe", a, b, f, f, Div(a, b, f, FALSE))
               \/ FixedReturn("divSignal", a, b, f, f, divSignal(a, b, f))
      BY <2>2, <3>1, <3>4, DivisionsAreRight
    <3> QED BY <2>3, <3>2, <3>3, <3>4 DEF FixedBinary
  <2>4. ASSUME NEW f \in FixedFormats, NEW g \in FixedFormats, NEW a \in FixedValues, FixedUnary(f, g, a)
        PROVE  FixedNumberExact'
    <3>1. a \in Int /\ Fits(a, f)
      BY <2>4, FieldHoldsZero DEF FixedUnary, Fits
    <3>2. CASE FixedReturn("whole", a, 0, f, f, Whole(a, f))
      BY <2>2, <3>1, <3>2, WholeIsRight
    <3>3. CASE FixedReturn("round", a, 0, f, g, round(a, f, g.decimals))
      BY <2>2, <3>1, <3>3, RoundIsRight
    <3>4. CASE FixedReturn("convert", a, 0, f, g, Convert(a, f.decimals, g))
      BY <2>2, <3>1, <3>4, ConvertIsRight
    <3>5. CASE FixedReturn("bytes", a, 0, f, f, fromBytes(toTwos(a, f.width), f))
      BY <2>2, <3>1, <3>5, BytesAreRight
    <3> QED BY <2>4, <3>2, <3>3, <3>4, <3>5 DEF FixedUnary
  <2>5. ASSUME NEW f \in FixedFormats, NEW g \in FixedFormats, NEW a \in FixedValues, NEW b \in FixedValues,
               FixedCompare(f, g, a, b)
        PROVE  FixedNumberExact'
    <3>1. a \in Int /\ b \in Int
      BY <2>5, FieldHoldsZero DEF FixedCompare, Fits
    <3>2. FixedReturn("cmp", a, b, f, g, Value(cmp(a, f, b, g)))
      BY <2>5 DEF FixedCompare
    <3> QED BY <2>2, <3>1, <3>2, CompareIsRight
  <2>6. CASE UNCHANGED fixedVars
    BY <2>6 DEF fixedVars, FixedNumberExact
  <2> QED BY <2>3, <2>4, <2>5, <2>6 DEF FixedNext
<1> QED BY <1>1, <1>2, PTL DEF FixedSpec
=============================================================================
