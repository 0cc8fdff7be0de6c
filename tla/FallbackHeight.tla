--------------------------- MODULE FallbackHeight ---------------------------
(***************************************************************************)
(* FallbackProvider.getBlockNumber: the provider-wide #height, taken from  *)
(* the block numbers of the initial synchronisation the first time it is   *)
(* needed and then raised to the fuzzy mode of every request's results     *)
(* (the "getBlockNumber" case of #checkQuorum).                            *)
(***************************************************************************)
EXTENDS FallbackTally

CONSTANTS
  Configs,      \* the providers, numbered in the order they were configured
  Weight,       \* Weight[c]: what c contributes to the quorum
  Quorum,       \* the provider's quorum
  SortOrder,    \* how the engine's sort uses its comparator
  MaxHead,      \* bound: the highest block any provider ever reports
  Failed        \* the answer of a provider whose sub-request failed

ASSUME HeightAssumption ==
  /\ IsFiniteSet(Configs) /\ Configs = 1 .. Cardinality(Configs)
  /\ Weight \in [Configs -> Nat]
  /\ Quorum \in 1 .. Cardinality(Votes([c \in Configs |-> [weight |-> Weight[c]]], Configs))
  /\ SortOrder \in SortOrders
  /\ MaxHead \in Nat
  /\ Failed \notin Int

VARIABLES
  head,         \* head[c]: the latest block a node behind provider c has
  blockNumber,  \* config.blockNumber: -2 until the initial synchronisation
  height,       \* #height
  answer,       \* the number the last fulfilled getBlockNumber returned, or -2
  failures      \* the weight of the failed answers the last call rejected on,
                \* 0 if it did not reject

vars == <<head, blockNumber, height, answer, failures>>

Unset == -2
Synced == \A c \in Configs : blockNumber[c] >= 0

Init ==
  /\ head = [c \in Configs |-> 0]
  /\ blockNumber = [c \in Configs |-> Unset]
  /\ height = Unset
  /\ answer = Unset
  /\ failures = 0

\* A provider sees a new block (bounded by MaxHead).
Mine(c) ==
  /\ head[c] < MaxHead
  /\ head' = [head EXCEPT ![c] = @ + 1]
  /\ UNCHANGED <<blockNumber, height, answer, failures>>

\* What provider c may have answered: its nodes lag, and an answer may be old
\* by the time it is counted.
Reported(c) == 0 .. head[c]

\* waitForSync(config, 0) learns a provider's block number; later calls find
\* it set and never refresh it.
WaitForSync(c) ==
  /\ blockNumber[c] < 0
  /\ \E b \in Reported(c) : blockNumber' = [blockNumber EXCEPT ![c] = b]
  /\ UNCHANGED <<head, height, answer, failures>>

Row(c, v) == [tag |-> v, value |-> v, error |-> v = Failed, weight |-> Weight[c]]

BootstrapHeight ==
  GetMedian(SortOrder, Quorum, [c \in Configs |-> Row(c, blockNumber[c])]).value

\* The answers a request may have collected when it is decided, by provider.
\* The order they were dispatched in does not matter to the fuzzy mode.
Collected(S) == {f \in [S -> 0 .. MaxHead \cup {Failed}] :
                   \A c \in S : f[c] \in Reported(c) \cup {Failed}}

\* Mutant: the latest mode replaces the height.
Replace(base, mode) == mode

\* #height only ever rises.
Raise(base, mode) == IF mode > base THEN mode ELSE base

\* getFuzzyMode reads every result as a number, which throws for an Error; with
\* a quorum of 1 only the median has to be a number.
Unreadable(results) ==
  IF Quorum = 1 THEN Weigh(results, Succeeded(results)) = 0
                ELSE Succeeded(results) # DOMAIN results

(***************************************************************************)
(* #checkQuorum(running, {method: "getBlockNumber"}).  The bootstrap is    *)
(* kept even when a failed answer then makes getFuzzyMode throw.           *)
(***************************************************************************)
GetBlockNumber(answers) ==
  LET results == [c \in DOMAIN answers |-> Row(c, answers[c])]
      base    == IF height = Unset THEN BootstrapHeight ELSE height
      mode    == GetFuzzyMode(SortOrder, Quorum, results)
      settled == ~Unreadable(results) /\ mode.decided
  IN  /\ Synced
      /\ Weigh(results, DOMAIN results) >= Quorum
      /\ failures' = IF Unreadable(results)
                     THEN Weigh(results, DOMAIN results \ Succeeded(results)) ELSE 0
      /\ IF settled
         THEN height' = Raise(base, mode.value) /\ answer' = height'
         ELSE height' = base /\ UNCHANGED answer
      /\ UNCHANGED <<head, blockNumber>>

Next ==
  \/ \E c \in Configs : Mine(c) \/ WaitForSync(c)
  \/ \E S \in SUBSET Configs \ {{}} : \E answers \in Collected(S) : GetBlockNumber(answers)

Spec == Init /\ [][Next]_vars

-----------------------------------------------------------------------------
Heights == 0 .. MaxHead + 1

(***************************************************************************)
(* A number getBlockNumber returned is at most one block past what         *)
(* providers worth a quorum have reached: neither the bootstrap median nor *)
(* a lone provider can push the answer further.                            *)
(***************************************************************************)
AnswerBackedByQuorum ==
  answer \in Heights =>
    LET near == {c \in Configs : head[c] >= answer - 1}
    IN  Weigh([c \in Configs |-> [weight |-> Weight[c]]], near) >= Quorum

(***************************************************************************)
(* The block number never goes back from one fulfilled call to the next,   *)
(* although the second may be answered by providers that lag behind.       *)
(***************************************************************************)
AnswersNeverGoBack == [][answer' >= answer]_vars

(***************************************************************************)
(* "Check if we have reached quorum on a result (or error)": a call        *)
(* rejects only if failed answers worth a quorum were counted.  It does    *)
(* not: getFuzzyMode throws on the first Error among the results.          *)
(***************************************************************************)
RejectsOnlyOnErrorQuorum ==
  failures > 0 => failures >= Quorum
=============================================================================
