---------------------------- MODULE FallbackTally ----------------------------
(***************************************************************************)
(* How FallbackProvider turns the answers of several backends into one:   *)
(* checkQuorum, getMedian, getAnyResult and getFuzzyMode of               *)
(* providers/provider-fallback.ts.                                         *)
(*                                                                         *)
(* `results' is a function from positions (finitely many naturals, in the  *)
(* order the backends were dispatched) to records [tag, value, weight]     *)
(* where `tag' is the normalised form two answers are compared by and the  *)
(* weight a natural.  Rows for the numeric strategies also say in `error'  *)
(* whether the value is an Error.                                          *)
(***************************************************************************)
EXTENDS Integers, FiniteSets, Sequences, FiniteSetsExt, SequencesExt

\* What a decision function returns when it cannot decide yet.
Undefined == [decided |-> FALSE]
Decided(v) == [decided |-> TRUE, value |-> v]

(***************************************************************************)
(* The sum of the weights of the positions S, as the number of votes they  *)
(* hold: position i holds the votes <<i, 1>> .. <<i, weight>>.             *)
(***************************************************************************)
Votes(results, S) == UNION {{i} \X (1 .. results[i].weight) : i \in S}
Weigh(results, S) == Cardinality(Votes(results, S))

TagPositions(results, t) == {i \in DOMAIN results : results[i].tag = t}
TagWeight(results, t) == Weigh(results, TagPositions(results, t))
TagsOf(results) == {results[i].tag : i \in DOMAIN results}

(***************************************************************************)
(* The value of the heaviest tag that meets quorum.  Among equally heavy   *)
(* tags the Map iterates in insertion order and `>' keeps the first; the   *)
(* value kept for a tag is that of its first result.                       *)
(***************************************************************************)
\* Mutants: no threshold, and a threshold one vote too high.
EveryTag(quorum, results) == TagsOf(results)
ExceedingQuorum(quorum, results) ==
  {t \in TagsOf(results) : TagWeight(results, t) > quorum}

MeetingQuorum(quorum, results) ==
  {t \in TagsOf(results) : TagWeight(results, t) >= quorum}

BestPositions(quorum, results) ==
  LET met == MeetingQuorum(quorum, results)
  IN  {i \in DOMAIN results :
         /\ results[i].tag \in met
         /\ \A t \in met : TagWeight(results, t) <= TagWeight(results, results[i].tag)}

Earliest(S) == CHOOSE i \in S : \A j \in S : i <= j

CheckQuorum(quorum, results) ==
  LET best == BestPositions(quorum, results)
  IN  IF best = {} THEN Undefined ELSE Decided(results[Earliest(best)].value)

(***************************************************************************)
(* checkQuorum's answer if there is one, else the first truthy answer.     *)
(***************************************************************************)
GetAnyResult(quorum, results, falsy) ==
  LET agreed == CheckQuorum(quorum, results)
      usable == {i \in DOMAIN results : results[i].value \notin falsy}
  IN  IF agreed.decided THEN agreed
      ELSE IF usable = {} THEN Undefined
      ELSE Decided(results[Earliest(usable)].value)

-----------------------------------------------------------------------------
(* The numeric strategies: values are integers. *)

(***************************************************************************)
(* The comparator passed to values.sort.  It never returns 1: its second   *)
(* test repeats the first with the operands swapped.                       *)
(***************************************************************************)
Compare(a, b) == IF a < b THEN -1 ELSE IF b > a THEN 1 ELSE 0

(***************************************************************************)
(* Array.prototype.sort with an inconsistent comparator is implementation- *)
(* defined.  Both insertion sorts in use are modelled: one asks whether    *)
(* the new item precedes an element ("item first"), the other whether an   *)
(* element must follow the new item ("element first").                     *)
(***************************************************************************)
SortOrders == {"item first", "element first"}
MovesBefore(order, item, element) ==
  IF order = "item first" THEN Compare(item, element) < 0
                          ELSE Compare(element, item) > 0

InsertInto(order, item, s) ==
  LET keep == Max({0} \cup {j \in DOMAIN s : ~MovesBefore(order, item, s[j])})
  IN  InsertAt(s, keep + 1, item)

Sort(order, values) ==
  LET sorted[k \in 0 .. Len(values)] ==
        IF k = 0 THEN <<>> ELSE InsertInto(order, values[k], sorted[k - 1])
  IN  sorted[Len(values)]

Succeeded(results) == {i \in DOMAIN results : ~results[i].error}
\* The k-th of the positions S.
Place(S, k) == CHOOSE i \in S : Cardinality({j \in S : j <= i}) = k
Values(results) ==
  LET at == Succeeded(results)
  IN  [k \in 1 .. Cardinality(at) |-> results[Place(at, k)].value]

(***************************************************************************)
(* The heaviest error.  bestError moves only to a strictly heavier one, so *)
(* of equally heavy errors the one that reached that weight first is kept. *)
(***************************************************************************)
BestError(quorum, results) ==
  LET errors  == [i \in DOMAIN results \ Succeeded(results) |-> results[i]]
      met     == MeetingQuorum(quorum, errors)
      reached == {Max({i \in TagPositions(errors, t) : errors[i].weight > 0}) :
                    t \in {t \in met : \A u \in met : TagWeight(errors, u) <= TagWeight(errors, t)}}
      tag     == errors[Min(reached)].tag
  IN  IF met = {} THEN Undefined
      ELSE Decided(errors[Min(TagPositions(errors, tag))].value)

GetMedian(order, quorum, results) ==
  LET sorted == Sort(order, Values(results))
      mid    == Len(sorted) \div 2
  IN  IF Weigh(results, Succeeded(results)) < quorum THEN BestError(quorum, results)
      ELSE IF Len(sorted) % 2 = 1 THEN Decided(sorted[mid + 1])
      ELSE Decided((sorted[mid] + sorted[mid + 1] + 1) \div 2)

(***************************************************************************)
(* Each height votes for itself and its two neighbours; the heaviest       *)
(* candidate that meets quorum wins, the largest one on a tie.             *)
(***************************************************************************)
\* Mutant: drift of two blocks.
AroundTwo(r) == (r - 2) .. (r + 2)

Around(r) == (r - 1) .. (r + 1)
Near(results, r) == {i \in DOMAIN results : results[i].value \in Around(r)}

GetFuzzyMode(order, quorum, results) ==
  LET candidates == UNION {Around(results[i].value) : i \in DOMAIN results}
      weight     == [r \in candidates |-> Weigh(results, Near(results, r))]
      met        == {r \in candidates : weight[r] >= quorum}
      heaviest   == {r \in met : \A s \in met : weight[s] <= weight[r]}
  IN  IF quorum = 1 THEN GetMedian(order, quorum, results)
      ELSE IF met = {} THEN Undefined
      ELSE Decided(Max(heaviest))
=============================================================================
