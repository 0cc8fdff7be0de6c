----------------------------- MODULE EventPolling ---------------------------
(***************************************************************************)
(* PollingEventSubscriber (providers/subscriber-polling.ts): start, stop,  *)
(* pause, resume and #poll, against nodes that have indexed the chain up   *)
(* to any height and may fail.  A poll asks for the logs of a range of     *)
(* blocks and moves #blockNumber when they come; several may be on their   *)
(* way.                                                                    *)
(***************************************************************************)
EXTENDS Integers

CONSTANTS
  MaxChain,        \* bound: the blocks of the chain
  Window,          \* the blocks without logs that are scanned again (60)
  MaxEventPauses   \* bound: the calls of pause and stop

ASSUME EventPollingAssumption ==
  MaxChain \in Nat /\ Window \in Nat /\ MaxEventPauses \in Nat

NotFetched == -2   \* "we still need to fetch an initial block number"

VARIABLES
  logsIn,          \* the blocks that have a log
  chainTip,        \* the height of the chain
  eventRunning,    \* #running
  eventNumber,     \* #blockNumber
  baselines,       \* the calls of getBlockNumber of start on their way
  ranges,          \* the polls on their way: the ranges they asked for
  reported,        \* the blocks whose log was emitted
  eventPausesLeft,
  excused,         \* history: the blocks that were never asked for or that the
                   \* node left out of an answer that was taken
  twice,         \* history: a log was emitted twice,
  disturbed        \* history: polls overlapped, one was on its way when the
                   \* progress was dropped, or a second baseline came

eventVars == <<logsIn, chainTip, eventRunning, eventNumber, baselines, ranges, reported,
               eventPausesLeft, excused, twice, disturbed>>

EventInit ==
  /\ logsIn \in SUBSET (1 .. MaxChain)
  /\ chainTip = 0
  /\ eventRunning = FALSE
  /\ eventNumber = NotFetched
  /\ baselines = 0
  /\ ranges = {}
  /\ reported = {}
  /\ eventPausesLeft = MaxEventPauses
  /\ excused = {} /\ twice = FALSE /\ disturbed = FALSE

eventHistory == <<reported, excused, twice>>

-----------------------------------------------------------------------------
\* start, also of resume.
EventStart ==
  /\ ~eventRunning
  /\ eventRunning' = TRUE
  /\ baselines' = IF eventNumber = NotFetched THEN baselines + 1 ELSE baselines
  /\ UNCHANGED <<logsIn, chainTip, eventNumber, ranges, eventPausesLeft, disturbed, eventHistory>>

\* stop, pause and pause(true); the polls go on.
EventStop(drop) ==
  /\ eventRunning /\ eventPausesLeft > 0
  /\ eventPausesLeft' = eventPausesLeft - 1
  /\ eventRunning' = FALSE
  /\ eventNumber' = IF drop THEN NotFetched ELSE eventNumber
  /\ disturbed' = (disturbed \/ (drop /\ ranges # {}))
  /\ UNCHANGED <<logsIn, chainTip, baselines, ranges, eventHistory>>

\* getBlockNumber of start; a failure is not handled.
Baseline(n) ==
  /\ baselines > 0
  /\ baselines' = baselines - 1
  /\ eventNumber' = n
  /\ excused' = excused \cup 1 .. n
  /\ disturbed' = (disturbed \/ reported # {} \/ ranges # {})
  /\ UNCHANGED <<logsIn, chainTip, eventRunning, ranges, eventPausesLeft, reported, twice>>

BaselineFails ==
  /\ baselines > 0
  /\ baselines' = baselines - 1
  /\ UNCHANGED <<logsIn, chainTip, eventRunning, eventNumber, ranges, eventPausesLeft, disturbed,
                 eventHistory>>

\* Mutant: #blockNumber is moved before the logs have come.
EventBlockMoves ==
  /\ chainTip < MaxChain
  /\ chainTip' = chainTip + 1
  /\ IF eventRunning /\ eventNumber # NotFetched
     THEN /\ ranges' = ranges \cup {[from |-> eventNumber + 1, to |-> chainTip']}
          /\ disturbed' = (disturbed \/ ranges # {})
          /\ eventNumber' = chainTip'
     ELSE UNCHANGED <<ranges, disturbed, eventNumber>>
  /\ UNCHANGED <<logsIn, eventRunning, baselines, eventPausesLeft, eventHistory>>

\* A block: #poll asks for the logs from #blockNumber + 1 to it.
EventBlock ==
  /\ chainTip < MaxChain
  /\ chainTip' = chainTip + 1
  /\ IF eventRunning /\ eventNumber # NotFetched
     THEN /\ ranges' = ranges \cup {[from |-> eventNumber + 1, to |-> chainTip']}
          /\ disturbed' = (disturbed \/ ranges # {})
     ELSE UNCHANGED <<ranges, disturbed>>
  /\ UNCHANGED <<logsIn, eventRunning, eventNumber, baselines, eventPausesLeft, eventHistory>>

\* The logs come from a node that has indexed the blocks up to `height'.
\* None could mean that it has not indexed them, so only those further back
\* than the window are given up.
EventLogs(r, height) ==
  LET logs == {b \in r.from .. r.to : b \in logsIn /\ b <= height}
      upTo == IF logs # {} THEN r.to ELSE r.to - Window
  IN  /\ ranges' = ranges \ {r}
      /\ reported' = reported \cup logs
      /\ twice' = (twice \/ logs \cap reported # {})
      /\ IF logs # {} \/ eventNumber < upTo
         THEN /\ eventNumber' = upTo
              /\ excused' = excused \cup {b \in r.from .. upTo : b > height}
         ELSE UNCHANGED <<eventNumber, excused>>
      /\ UNCHANGED <<logsIn, chainTip, eventRunning, baselines, eventPausesLeft, disturbed>>

\* getLogs rejects: the next poll asks for the blocks again.
EventLogsFail(r) ==
  /\ ranges' = ranges \ {r}
  /\ UNCHANGED <<logsIn, chainTip, eventRunning, eventNumber, baselines, eventPausesLeft,
                 disturbed, eventHistory>>

EventNext ==
  \/ EventStart \/ EventBlock \/ BaselineFails
  \/ \E drop \in BOOLEAN : EventStop(drop)
  \/ \E n \in 0 .. chainTip : Baseline(n)
  \/ \E r \in ranges : EventLogsFail(r) \/ \E height \in 0 .. chainTip : EventLogs(r, height)

EventSpec == EventInit /\ [][EventNext]_eventVars

-----------------------------------------------------------------------------
(***************************************************************************)
(* However polls overlap with each other, with failures and with stops and *)
(* pauses: the log of every block up to #blockNumber was emitted, unless   *)
(* the subscriber was told to begin after it or the node left it out; and  *)
(* it was emitted once, unless polls overlapped, one was on its way when   *)
(* the progress was dropped, or a second baseline came.                    *)
(***************************************************************************)
NoLogSkipped ==
  /\ {b \in logsIn : b <= eventNumber} \subseteq reported \cup excused
  /\ twice => disturbed
=============================================================================
