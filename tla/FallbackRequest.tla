--------------------------- MODULE FallbackRequest ---------------------------
(***************************************************************************)
(* One request to a FallbackProvider: _perform, #addRunner, #waitForQuorum *)
(* and #checkQuorum of providers/provider-fallback.ts.                     *)
(*                                                                         *)
(* The request starts as many runners as the quorum, then runs "passes" of *)
(* #waitForQuorum.  A pass collects the promises to wait for, bumps the    *)
(* runners that answered or stalled and decides on the results; it then    *)
(* awaits that decision, so answers may come in before it continues by     *)
(* returning, throwing, or dispatching one more runner per bump and racing *)
(* the promises it collected at its START.                                 *)
(*                                                                         *)
(* A runner is identified with its config, which #getNextConfig never      *)
(* picks twice in one request.  Time is abstracted: the stallTimeouts are  *)
(* arbitrary, so the stallers of running providers expire in any order.    *)
(***************************************************************************)
EXTENDS FallbackTally

CONSTANTS
  Configs,      \* the configured providers
  Weight,       \* Weight[c]: what c contributes to the quorum
  Priority,     \* Priority[c]: the configured priority
  Quorum,       \* this.quorum
  MayAnswer,    \* MayAnswer[c]: what c's sub-request may come back with
  Tag,          \* Tag[a]: the normalised form of answer a
  Errors,       \* the answers that are Errors
  Falsy,        \* the answers that are falsy
  Strategies,   \* the tallies the request's method may use
  NoAnswer      \* not an answer

Answers == UNION {MayAnswer[c] : c \in Configs}

ASSUME RequestAssumption ==
  /\ IsFiniteSet(Configs)
  /\ Weight \in [Configs -> Nat]
  /\ Priority \in [Configs -> Int]
  /\ Quorum \in Nat \ {0}
  /\ DOMAIN MayAnswer = Configs
  /\ DOMAIN Tag = Answers
  /\ NoAnswer \notin Answers
  /\ Strategies \subseteq {"checkQuorum", "getAnyResult", "broadcast"}

VARIABLES
  strategy,     \* the tally of the request's method
  running,      \* the runners' configs in the order they were dispatched
  performing,   \* the configs whose runner.perform is pending
  stalling,     \* the configs whose runner.staller is pending
  bumped,       \* the configs whose runner has triggered another runner
  result,       \* result[c]: runner.result, or NoAnswer
  awaited,      \* the promises the current pass found interesting
  newRunners,   \* the runners the current pass will dispatch
  counted,      \* the results the last #checkQuorum decided on
  phase,        \* where _perform is
  outcome,      \* what it settled with
  late          \* the configs whose lateResponses it incremented

vars == <<strategy, running, performing, stalling, bumped, result, awaited,
          newRunners, counted, phase, outcome, late>>

Phases == {"idle", "broadcasting", "pass", "tallied", "waiting", "returning",
           "returned", "threw", "not met"}
Answered == {"returning", "returned", "threw"}
Settled == {"returned", "threw", "not met"}
Closed == Answered \cup {"not met"}

Running == Range(running)
Promises == {"perform", "staller"} \X Configs

Init ==
  /\ strategy \in Strategies
  /\ running = <<>>
  /\ performing = {} /\ stalling = {} /\ bumped = {} /\ awaited = {} /\ late = {}
  /\ result = [c \in Configs |-> NoAnswer]
  /\ newRunners = 0
  /\ counted = <<>>
  /\ phase = "idle"
  /\ outcome = NoAnswer

-----------------------------------------------------------------------------
(* Dispatching runners *)

(***************************************************************************)
(* The sequences of configs that n calls of #addRunner may add: unused     *)
(* ones while there are any, by descending priority, shuffled within one   *)
(* priority.                                                               *)
(***************************************************************************)
Before(c, d) == Priority[c] > Priority[d]
\* Mutant: a config may be picked again.
DispatchAgain(n) == {s \in [1 .. n -> Configs] : IsInjective(s)}

DispatchOrders(n) ==
  LET unused == Configs \ Running
      k == IF n < Cardinality(unused) THEN n ELSE Cardinality(unused)
  IN  {s \in [1 .. k -> unused] :
         /\ IsInjective(s)
         /\ \A i \in 1 .. k : \A c \in unused :
              Before(c, s[i]) => \E j \in 1 .. (i - 1) : s[j] = c}

\* #addRunner for every config of s: the sub-request and the staller start.
AddRunners(s) ==
  /\ running' = running \o s
  /\ performing' = performing \cup Range(s)
  /\ stalling' = stalling \cup Range(s)

\* _perform, once #initialSync is done: enough runners to meet quorum, then
\* #waitForQuorum at once.
Perform ==
  /\ phase = "idle"
  /\ strategy # "broadcast"
  /\ \E s \in DispatchOrders(Quorum) : AddRunners(s)
  /\ phase' = "pass"
  /\ UNCHANGED <<strategy, bumped, result, awaited, newRunners, counted, outcome, late>>

\* _perform of broadcastTransaction: every provider at once, no stallers.
Broadcast ==
  /\ phase = "idle"
  /\ strategy = "broadcast"
  /\ running' \in Bijection(1 .. Cardinality(Configs), Configs)
  /\ performing' = Configs
  /\ phase' = "broadcasting"
  /\ UNCHANGED <<strategy, stalling, bumped, result, awaited, newRunners, counted,
                 outcome, late>>

-----------------------------------------------------------------------------
(* What happens to a runner, also after the request has settled *)

Wake(promise) ==
  phase' = IF phase = "waiting" /\ promise \in awaited THEN "pass" ELSE phase

\* Mutant: a second answer of c replaces the first.
RespondAgain(c, a) ==
  /\ c \in Running
  /\ result' = [result EXCEPT ![c] = a]
  /\ performing' = performing \ {c}
  /\ Wake(<<"perform", c>>)
  /\ UNCHANGED <<strategy, running, stalling, bumped, awaited, newRunners, counted,
                 outcome, late>>

\* The sub-request of c comes back with a; errors are results like others.
Respond(c, a) ==
  /\ c \in performing
  /\ result' = [result EXCEPT ![c] = a]
  /\ performing' = performing \ {c}
  /\ Wake(<<"perform", c>>)
  /\ UNCHANGED <<strategy, running, stalling, bumped, awaited, newRunners, counted,
                 outcome, late>>

\* The staller of c times out.  Timers do not run while a pass is due.
Stall(c) ==
  /\ c \in stalling
  /\ phase \notin {"pass", "tallied"}
  /\ stalling' = stalling \ {c}
  /\ Wake(<<"staller", c>>)
  /\ UNCHANGED <<strategy, running, performing, bumped, result, awaited, newRunners,
                 counted, outcome, late>>

-----------------------------------------------------------------------------
(* One pass of #waitForQuorum *)

\* Mutants: a stalling runner is not watched for its answer, and a runner bumps
\* in every pass.
InterestingStallers ==
  ({"perform"} \X (performing \ stalling)) \cup ({"staller"} \X stalling)
ToBumpAgain == Running \ stalling

\* The promises worth waiting for, and the runners that kick off another one.
Interesting == ({"perform"} \X performing) \cup ({"staller"} \X stalling)
ToBump == (Running \ stalling) \ bumped

Results ==
  [i \in {j \in DOMAIN running : result[running[j]] # NoAnswer} |->
     LET a == result[running[i]]
     IN  [tag |-> Tag[a], value |-> a, weight |-> Weight[running[i]]]]

\* #checkQuorum for the methods that choose one of the answers: FallbackHeight
\* has the getBlockNumber case, and the medians of getEnergyPrice and
\* estimateEnergy are FallbackTally's GetMedian of the same rows.
Decision(rows) ==
  IF Weigh(rows, DOMAIN rows) < Quorum /\ strategy # "broadcast" THEN Undefined
  ELSE IF strategy = "checkQuorum" THEN CheckQuorum(Quorum, rows)
  ELSE GetAnyResult(Quorum, rows, Falsy)

\* The pass looks at every runner and calls #checkQuorum, which reads the
\* results at once but is awaited.
StartPass ==
  /\ phase = "pass"
  /\ awaited' = Interesting
  /\ newRunners' = Cardinality(ToBump)
  /\ bumped' = bumped \cup ToBump
  /\ counted' = Results
  /\ phase' = "tallied"
  /\ UNCHANGED <<strategy, running, performing, stalling, result, outcome, late>>

\* #checkQuorum came back with a value: an Error is thrown, and with it
\* _perform's, any other value returned.
PassDecides ==
  /\ phase = "tallied"
  /\ Decision(counted).decided
  /\ outcome' = Decision(counted).value
  /\ phase' = IF outcome' \in Errors THEN "threw" ELSE "returning"
  /\ UNCHANGED <<strategy, running, performing, stalling, bumped, result, awaited,
                 newRunners, counted, late>>

\* The value reaches _perform, which counts the runners still outstanding.
CountLate ==
  /\ phase = "returning"
  /\ late' = performing
  /\ phase' = "returned"
  /\ UNCHANGED <<strategy, running, performing, stalling, bumped, result, awaited,
                 newRunners, counted, outcome>>

\* Mutant: the race misses a promise that has already resolved.
PassWaitsBlindly ==
  /\ phase = "tallied"
  /\ ~Decision(counted).decided
  /\ awaited # {}
  /\ \E s \in DispatchOrders(newRunners) : AddRunners(s)
  /\ phase' = "waiting"
  /\ UNCHANGED <<strategy, bumped, result, awaited, newRunners, counted, outcome, late>>

\* No value: dispatch the new runners, then race the promises collected when
\* the pass began, which ends at once if one of them has resolved since.
PassWaits ==
  /\ phase = "tallied"
  /\ ~Decision(counted).decided
  /\ awaited # {}
  /\ \E s \in DispatchOrders(newRunners) : AddRunners(s)
  /\ phase' = IF awaited \subseteq Interesting THEN "waiting" ELSE "pass"
  /\ UNCHANGED <<strategy, bumped, result, awaited, newRunners, counted, outcome, late>>

\* No value and nothing collected to wait for: "quorum not met", after the new
\* runners are dispatched all the same.
PassGivesUp ==
  /\ phase = "tallied"
  /\ ~Decision(counted).decided
  /\ awaited = {}
  /\ \E s \in DispatchOrders(newRunners) : AddRunners(s)
  /\ phase' = "not met"
  /\ UNCHANGED <<strategy, bumped, result, awaited, newRunners, counted, outcome, late>>

-----------------------------------------------------------------------------
\* The broadcast's Promise.all resolved: any result will do.
FinishBroadcast ==
  /\ phase = "broadcasting"
  /\ performing = {}
  /\ counted' = Results
  /\ IF Decision(Results).decided
     THEN /\ outcome' = Decision(Results).value
          /\ phase' = IF outcome' \in Errors THEN "threw" ELSE "returned"
     ELSE phase' = "not met" /\ UNCHANGED outcome
  /\ UNCHANGED <<strategy, running, performing, stalling, bumped, result, awaited,
                 newRunners, late>>

Turn == StartPass \/ PassDecides \/ PassWaits \/ PassGivesUp \/ CountLate

Next ==
  \/ Perform \/ Broadcast \/ FinishBroadcast
  \/ \E c \in Configs : \E a \in MayAnswer[c] : Respond(c, a)
  \/ \E c \in Configs : Stall(c)
  \/ Turn

Spec == Init /\ [][Next]_vars

(***************************************************************************)
(* Timers and microtasks run; every provider eventually answers the        *)
(* sub-request it was given, be it with an error.                          *)
(***************************************************************************)
FairSpec ==
  /\ Spec
  /\ WF_vars(Perform) /\ WF_vars(Turn)
  /\ WF_vars(Broadcast) /\ WF_vars(FinishBroadcast)
  /\ \A c \in Configs : WF_vars(Stall(c))
  /\ \A c \in Configs : WF_vars(\E a \in MayAnswer[c] : Respond(c, a))

-----------------------------------------------------------------------------
(* Properties *)

ResultRows == [tag : {Tag[a] : a \in Answers}, value : Answers, weight : Nat]

\* The shape of the state, that runners never share a config, and that a
\* runner has a result exactly when its sub-request has come back.
TypeOK ==
  /\ strategy \in Strategies
  /\ running \in Seq(Configs)
  /\ IsInjective(running)
  /\ phase = "idle" => running = <<>>
  /\ phase = "broadcasting" => strategy = "broadcast"
  /\ performing \subseteq Running /\ stalling \subseteq Running /\ bumped \subseteq Running
  /\ late \subseteq Running
  /\ result \in [Configs -> Answers \cup {NoAnswer}]
  /\ {c \in Configs : result[c] # NoAnswer} = Running \ performing
  /\ awaited \subseteq Promises
  /\ newRunners \in Nat
  /\ DOMAIN counted \subseteq DOMAIN running
  /\ \A i \in DOMAIN counted : counted[i] \in ResultRows
  /\ phase \in Phases
  /\ outcome \in Answers \cup {NoAnswer}

(***************************************************************************)
(* Under checkQuorum, whatever a request settles with, a value or an       *)
(* error, was given by providers whose weights reach the quorum, all       *)
(* counted in the deciding pass, and no other answer had more weight.      *)
(***************************************************************************)
QuorumBacked ==
  phase \in Answered /\ strategy = "checkQuorum" =>
    /\ TagWeight(counted, Tag[outcome]) >= Quorum
    /\ \A t \in TagsOf(counted) : TagWeight(counted, t) <= TagWeight(counted, Tag[outcome])

(***************************************************************************)
(* Nothing is attributed to a provider that it did not answer, and a pass  *)
(* that continues after awaiting its decision decides on answers that are  *)
(* still the providers': the rows counted are results of the runners.      *)
(***************************************************************************)
AnswersAreOwn ==
  /\ \A c \in Configs : result[c] \in MayAnswer[c] \cup {NoAnswer}
  /\ \A i \in DOMAIN counted :
       LET c == running[i]
       IN  /\ result[c] # NoAnswer
           /\ counted[i].value = result[c]
           /\ counted[i].tag = Tag[result[c]]
           /\ counted[i].weight = Weight[c]

(***************************************************************************)
(* Providers that together weigh less than the quorum cannot make a        *)
(* request settle with an answer only they would give: the providers able  *)
(* to give the outcome weigh a quorum, whatever the order of events.       *)
(***************************************************************************)
AbleToAnswer(t) == {c \in Configs : \E a \in MayAnswer[c] : Tag[a] = t}
ConfigVotes(S) == UNION {{c} \X (1 .. Weight[c]) : c \in S}
MinorityCannotDecide ==
  phase \in Answered /\ strategy = "checkQuorum" =>
    Cardinality(ConfigVotes(AbleToAnswer(Tag[outcome]))) >= Quorum

(***************************************************************************)
(* A request that needs agreement behaves like a vote: see QuorumVote.     *)
(***************************************************************************)
Vote == INSTANCE QuorumVote WITH
  votes    <- result,
  status   <- IF phase \in Closed THEN "closed" ELSE "open",
  decision <- outcome
RequestImplementsVote == Vote!Spec

(***************************************************************************)
(* "quorum not met" is the truth about the results it was decided on: no   *)
(* answer among them weighs a quorum, under getAnyResult none was usable   *)
(* either, and every runner counted has answered and stalled.              *)
(***************************************************************************)
NotMetIsHonest ==
  phase = "not met" =>
    /\ \A t \in TagsOf(counted) : TagWeight(counted, t) < Quorum
    /\ {running[i] : i \in DOMAIN counted} \cap stalling = {}
    /\ strategy # "checkQuorum" =>
         \/ \A i \in DOMAIN counted : counted[i].value \in Falsy
         \/ Weigh(counted, DOMAIN counted) < Quorum

(***************************************************************************)
(* With getAnyResult, for pending blocks and broadcasts, an answer agreed  *)
(* on by a quorum still beats an earlier one, and a request for a pending  *)
(* block settles only once answers worth a quorum are in.                  *)
(***************************************************************************)
AgreementPreferred ==
  phase \in Answered /\ strategy # "checkQuorum" =>
    /\ \A t \in TagsOf(counted) :
         TagWeight(counted, t) >= Quorum => TagWeight(counted, Tag[outcome]) >= Quorum
    /\ strategy = "getAnyResult" => Weigh(counted, DOMAIN counted) >= Quorum

(***************************************************************************)
(* While a request waits, it has dispatched exactly one provider per bump  *)
(* beyond the initial ones, unless it ran out of providers: a provider     *)
(* that is slow AND then fails is replaced once, not twice.                *)
(***************************************************************************)
OneReplacementPerBump ==
  phase = "waiting" =>
    LET due == Quorum + Cardinality(bumped)
    IN  Len(running) = IF due < Cardinality(Configs) THEN due ELSE Cardinality(Configs)

(***************************************************************************)
(* No completion is overlooked: a pass that awaits its decision counts or  *)
(* watches every runner, and a waiting request waits for promises that are *)
(* all still pending, none having resolved between the start of the pass   *)
(* and the race.                                                           *)
(***************************************************************************)
NoMissedWakeup ==
  /\ phase = "tallied" =>
       \A i \in DOMAIN running \ DOMAIN counted : <<"perform", running[i]>> \in awaited
  /\ phase = "waiting" => awaited # {} /\ awaited \subseteq Interesting

\* If every provider eventually answers, the request eventually settles.
EventuallySettles == <>(phase \in Settled)

(***************************************************************************)
(* "All providers have returned, and we have no result": the request gives *)
(* up only when no sub-request is outstanding and no provider is unused.   *)
(* It does not: the runners just dispatched are not in `interesting'.      *)
(***************************************************************************)
GivesUpOnlyWhenAllReturned ==
  [][phase' = "not met" /\ phase # "not met" => performing' = {}]_vars
=============================================================================
