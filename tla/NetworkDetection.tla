--------------------------- MODULE NetworkDetection -------------------------
(***************************************************************************)
(* getNetwork of AbstractProvider (providers/abstract-provider.ts): calls  *)
(* that overlap share #networkPromise, each detects the network again, and *)
(* under "any" the promise follows the network.  The nodes behind the      *)
(* provider may be switched at any time, so a detection may return any     *)
(* network.  What is due continues before the next detection returns, in   *)
(* any order.                                                              *)
(***************************************************************************)
EXTENDS Integers, FiniteSets

CONSTANTS
  NetworkCalls,   \* bound: the calls of getNetwork
  Networks,       \* the networks of the nodes
  NoNetwork,      \* no network, or no network given
  NoPromise,      \* null
  Explicit        \* the promise of a network given to the constructor

ASSUME NetworkAssumption ==
  /\ NoNetwork \notin Networks /\ {"pending", "failed"} \cap (Networks \cup {NoNetwork}) = {}
  /\ NoPromise # Explicit /\ {NoPromise, Explicit} \cap NetworkCalls = {}

VARIABLES
  anyNetwork,       \* #anyNetwork
  given,            \* the network given to the constructor
  networkPromise,   \* #networkPromise: Explicit or the call that made it
  promised,         \* what each promise came to: "pending", "failed" or a network
  callAt,           \* each call: "new", "first", "both" (Promise.all), "done"
  saw,              \* the promise it saw
  found,            \* what its own detection came to
  answered,         \* what it returned, NoNetwork if it rejected
  announced         \* the networks announced by a "network" event

networkVars == <<anyNetwork, given, networkPromise, promised, callAt, saw, found, answered,
                 announced>>

NetworkInit ==
  /\ anyNetwork \in BOOLEAN
  /\ given \in IF anyNetwork THEN {NoNetwork} ELSE Networks \cup {NoNetwork}
  /\ networkPromise = IF given = NoNetwork THEN NoPromise ELSE Explicit
  /\ promised = [p \in NetworkCalls \cup {Explicit} |-> IF p = Explicit THEN given ELSE "pending"]
  /\ callAt = [c \in NetworkCalls |-> "new"]
  /\ saw = [c \in NetworkCalls |-> NoPromise]
  /\ found = [c \in NetworkCalls |-> "pending"]
  /\ answered = [c \in NetworkCalls |-> NoNetwork]
  /\ announced = {}

-----------------------------------------------------------------------------
\* setTimeout(.., 0) of the constructor.
AnnounceGiven ==
  /\ given # NoNetwork /\ given \notin announced
  /\ announced' = announced \cup {given}
  /\ UNCHANGED <<anyNetwork, given, networkPromise, promised, callAt, saw, found, answered>>

\* A call up to its first await, either of the promise it makes or of the one
\* it finds and a detection of its own.
GetNetwork(c) ==
  /\ callAt[c] = "new"
  /\ callAt' = [callAt EXCEPT ![c] = IF networkPromise = NoPromise THEN "first" ELSE "both"]
  /\ networkPromise' = IF networkPromise = NoPromise THEN c ELSE networkPromise
  /\ saw' = [saw EXCEPT ![c] = networkPromise']
  /\ UNCHANGED <<anyNetwork, given, promised, found, answered, announced>>

\* Promise.all settles when both have come, or one has failed.
Due(c) ==
  /\ callAt[c] = "both"
  /\ LET both == {promised[saw[c]], found[c]}
     IN  "failed" \in both \/ "pending" \notin both

NothingDue == \A c \in NetworkCalls : ~Due(c)

\* The detection of the call that made the promise; a failed one resets
\* #networkPromise if it is still the call's.
FirstDetected(c, what) ==
  /\ callAt[c] = "first" /\ NothingDue
  /\ promised' = [promised EXCEPT ![c] = what]
  /\ callAt' = [callAt EXCEPT ![c] = "done"]
  /\ IF what = "failed"
     THEN /\ networkPromise' = IF networkPromise = c THEN NoPromise ELSE networkPromise
          /\ UNCHANGED <<answered, announced>>
     ELSE /\ answered' = [answered EXCEPT ![c] = what]
          /\ announced' = announced \cup {what}
          /\ UNCHANGED networkPromise
  /\ UNCHANGED <<anyNetwork, given, saw, found>>

\* The detection of any other call.
Detected(c, what) ==
  /\ callAt[c] = "both" /\ NothingDue
  /\ found[c] = "pending"
  /\ found' = [found EXCEPT ![c] = what]
  /\ UNCHANGED <<anyNetwork, given, networkPromise, promised, callAt, saw, answered, announced>>

\* Mutant: the network is followed whether or not any is allowed.
ReturnsAlways(c) ==
  LET expected == promised[saw[c]]
  IN  /\ Due(c)
      /\ callAt' = [callAt EXCEPT ![c] = "done"]
      /\ IF "failed" \in {expected, found[c]}
         THEN UNCHANGED <<networkPromise, promised, answered, announced>>
         ELSE /\ answered' = [answered EXCEPT ![c] = expected]
              /\ announced' = IF expected = found[c] THEN announced ELSE announced \cup {found[c]}
              /\ IF expected # found[c] /\ networkPromise = saw[c]
                 THEN networkPromise' = c /\ promised' = [promised EXCEPT ![c] = found[c]]
                 ELSE UNCHANGED <<networkPromise, promised>>
      /\ UNCHANGED <<anyNetwork, given, saw, found>>

\* The call goes on: it returns the network of the promise it saw, and if it
\* has found another one fails, or announces it and replaces the promise if
\* nothing else has.
Returns(c) ==
  LET expected == promised[saw[c]]
      changed  == expected # found[c]
  IN  /\ Due(c)
      /\ callAt' = [callAt EXCEPT ![c] = "done"]
      /\ IF "failed" \in {expected, found[c]} \/ (changed /\ ~anyNetwork)
         THEN UNCHANGED <<networkPromise, promised, answered, announced>>
         ELSE /\ answered' = [answered EXCEPT ![c] = expected]
              /\ announced' = IF changed THEN announced \cup {found[c]} ELSE announced
              /\ IF changed /\ networkPromise = saw[c]
                 THEN networkPromise' = c /\ promised' = [promised EXCEPT ![c] = found[c]]
                 ELSE UNCHANGED <<networkPromise, promised>>
      /\ UNCHANGED <<anyNetwork, given, saw, found>>

NetworkNext ==
  \/ AnnounceGiven
  \/ \E c \in NetworkCalls : GetNetwork(c) \/ Returns(c)
  \/ \E c \in NetworkCalls, what \in Networks \cup {"failed"} : FirstDetected(c, what) \/ Detected(c, what)

NetworkSpec == NetworkInit /\ [][NetworkNext]_networkVars

-----------------------------------------------------------------------------
(***************************************************************************)
(* Unless any network is allowed all calls that return agree, however they *)
(* overlap with failures and with the nodes being switched; a network that *)
(* is returned was given or announced before; and #networkPromise is never *)
(* left failed, so a failed detection is tried again.                      *)
(***************************************************************************)
NetworkFollowed ==
  LET returned == {answered[c] : c \in NetworkCalls} \ {NoNetwork}
  IN  /\ ~anyNetwork => Cardinality(returned \cup ({given} \ {NoNetwork})) <= 1
      /\ returned \subseteq announced \cup {given}
      /\ networkPromise # NoPromise => promised[networkPromise] # "failed"
=============================================================================
