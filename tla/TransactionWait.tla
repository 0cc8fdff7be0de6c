--------------------------- MODULE TransactionWait --------------------------
(***************************************************************************)
(* TransactionResponse.wait (providers/provider.ts) with its search for a  *)
(* replacement and the PollingTransactionSubscriber it listens to          *)
(* (providers/subscriber-polling.ts), and waitForTransaction               *)
(* (providers/abstract-provider.ts), against a chain that mines the        *)
(* transaction, or another one with its nonce, at some height.  There are  *)
(* no reorganisations.  Blocks go on for ever, but after MaxTip they bring *)
(* nothing new.                                                            *)
(***************************************************************************)
EXTENDS Integers, FiniteSetsExt

CONSTANTS
  MaxTip,          \* bound: the height at which the chain stops growing
  ConfirmsOptions, \* the values of the confirms argument
  MaxSkew,         \* bound: the blocks mined while checkReplacement reads the
                   \* height and the nonce
  MaxFaults        \* bound: the requests that fail

ASSUME WaitAssumption ==
  MaxTip \in Nat /\ ConfirmsOptions \subseteq Nat /\ MaxSkew \in Nat /\ MaxFaults \in Nat

VARIABLES
  tip,             \* the chain: its height,
  fate,            \* what has been mined with the nonce: "none", "ours", "other",
  minedAt,         \* and where
  api,             \* "wait" or "waitForTransaction"
  confirms,        \* the arguments: confirms,
  hasTimeout,      \* whether there is a timeout,
  sentAt,          \* #startBlock; -1: no replacement detection
  phase,           \* wait: "receipt", "confirm", "first" (checkReplacement),
                   \* "waiting", "settled"; waitForTransaction: "height",
                   \* "waiting", "settled", "stuck"
  result,          \* "none", "receipt", "null", "replaced", "timeout", "error"
  onHash,          \* txListener is registered
  onNextBlock,     \* replaceListener (waitForTransaction's listener) is registered
  looking,         \* the height waitForTransaction's listener was called with
                   \* while it waits for the receipt, -2 before that, or -1
  txPoll,          \* the subscriber waits for a receipt
  txCheck,         \* txListener waits for the height
  scan,            \* the await checkReplacement is in: "none", "counts", "tx",
                   \* "block", "receipt"
  scanTo,          \* the height it has read, or before that the chain's
                   \* when it began to
  startBlock, nextScan, stopScanning,
  faultsLeft

waitVars == <<tip, fate, minedAt, api, confirms, hasTimeout, sentAt, phase, result, onHash,
              onNextBlock, looking, txPoll, txCheck, scan, scanTo, startBlock, nextScan,
              stopScanning, faultsLeft>>

WaitInit ==
  /\ tip = 0 /\ fate = "none" /\ minedAt = 0
  /\ confirms \in ConfirmsOptions
  /\ hasTimeout \in BOOLEAN
  /\ sentAt \in {-1, 0}
  /\ api \in {"wait", "waitForTransaction"}
  /\ phase = IF api = "wait" \/ confirms = 0 THEN "receipt" ELSE "height"
  /\ result = "none"
  /\ looking = IF phase = "height" THEN -2 ELSE -1
  /\ onHash = FALSE /\ onNextBlock = FALSE
  /\ txPoll = FALSE /\ txCheck = FALSE
  /\ scan = "none" /\ scanTo = 0
  /\ startBlock = sentAt /\ nextScan = -1
  /\ stopScanning = (sentAt = -1)
  /\ faultsLeft = MaxFaults

chainVars == <<tip, fate, minedAt>>
arguments == <<api, confirms, hasTimeout, sentAt>>
scanVars == <<scan, scanTo, startBlock, nextScan>>

Confirmed(height) == height - minedAt + 1 >= confirms

-----------------------------------------------------------------------------
\* A block, which may contain the transaction or its replacement.  The
\* listeners of "block" run: replaceListener and the transaction's subscriber.
WaitBlock(what) ==
  /\ IF tip < MaxTip /\ fate = "none" /\ what # "none"
     THEN fate' = what /\ minedAt' = tip + 1
     ELSE what = "none" /\ UNCHANGED <<fate, minedAt>>
  /\ tip' = IF tip < MaxTip THEN tip + 1 ELSE tip
  /\ txPoll' = (txPoll \/ onHash)
  /\ IF onNextBlock /\ api = "wait" THEN scan' = "counts" /\ scanTo' = tip'
     ELSE UNCHANGED <<scan, scanTo>>
  /\ looking' = IF onNextBlock /\ api # "wait" THEN tip' ELSE looking
  /\ scan = "counts" => tip' - scanTo <= MaxSkew
  /\ onNextBlock' = FALSE
  /\ UNCHANGED <<arguments, phase, result, onHash, txCheck, startBlock, nextScan,
                 stopScanning, faultsLeft>>

-----------------------------------------------------------------------------
(* Settling *)

\* cancel() and the promise of wait; a second settlement has no effect.
\* Mutant: the scan goes on.
FinishScanning(how) ==
  /\ phase' = "settled"
  /\ result' = IF phase = "settled" THEN result ELSE how
  /\ onHash' = FALSE /\ onNextBlock' = FALSE
  /\ UNCHANGED stopScanning

Finish(how) ==
  /\ phase' = "settled"
  /\ result' = IF phase = "settled" THEN result ELSE how
  /\ stopScanning' = TRUE
  /\ onHash' = FALSE /\ onNextBlock' = FALSE

\* The waiter: on(hash) starts the subscriber, which polls at once.
Listen ==
  /\ phase' = "waiting"
  /\ onHash' = TRUE /\ txPoll' = TRUE
  /\ onNextBlock' = (startBlock >= 0)

TimeOut ==
  /\ phase = "waiting" /\ hasTimeout /\ api = "wait"
  /\ Finish("timeout")
  /\ UNCHANGED <<chainVars, arguments, looking, txPoll, txCheck, scanVars, faultsLeft>>

-----------------------------------------------------------------------------
(* wait, before the waiter *)

FirstReceipt ==
  /\ phase = "receipt" /\ api = "wait"
  /\ phase' = IF fate = "ours" THEN "confirm" ELSE "first"
  /\ IF fate # "ours" /\ ~stopScanning THEN scan' = "counts" /\ scanTo' = tip
     ELSE UNCHANGED <<scan, scanTo>>
  /\ UNCHANGED <<chainVars, arguments, looking, result, onHash, onNextBlock, txPoll, txCheck, startBlock,
                  nextScan, stopScanning, faultsLeft>>

FirstConfirm ==
  /\ phase = "confirm"
  /\ IF Confirmed(tip) THEN Finish("receipt") /\ UNCHANGED txPoll
     ELSE Listen /\ UNCHANGED <<result, stopScanning>>
  /\ UNCHANGED <<chainVars, arguments, looking, txCheck, scanVars, faultsLeft>>

\* checkReplacement came back without a replacement.
AfterFirst ==
  /\ phase = "first" /\ scan = "none"
  /\ IF confirms = 0 THEN Finish("null") /\ UNCHANGED txPoll
     ELSE Listen /\ UNCHANGED <<result, stopScanning>>
  /\ UNCHANGED <<chainVars, arguments, looking, txCheck, scanVars, faultsLeft>>

-----------------------------------------------------------------------------
(* The transaction's subscriber and txListener *)

\* emit(hash) calls txListener if it is still registered.
TxPollReturns ==
  /\ txPoll
  /\ txPoll' = FALSE
  /\ txCheck' = (txCheck \/ (onHash /\ fate = "ours"))
  /\ UNCHANGED <<chainVars, arguments, looking, phase, result, onHash, onNextBlock, scanVars,
                 stopScanning, faultsLeft>>

TxCheckReturns ==
  /\ txCheck
  /\ txCheck' = FALSE
  /\ IF Confirmed(tip) THEN Finish("receipt")
     ELSE UNCHANGED <<phase, result, onHash, onNextBlock, stopScanning>>
  /\ UNCHANGED <<chainVars, arguments, looking, txPoll, scanVars, faultsLeft>>

-----------------------------------------------------------------------------
(* checkReplacement *)

LookBack == 3   \* "look back a few extra blocks for safety"

\* checkReplacement returns; replaceListener runs again at the next block.
EndScan ==
  /\ scan' = "none"
  /\ onNextBlock' = (onNextBlock \/ (phase # "first" /\ ~stopScanning))
  /\ UNCHANGED <<phase, result, onHash, stopScanning>>

\* The next await, unless a result has been found meanwhile.
ScanOn(at) ==
  IF stopScanning THEN EndScan
  ELSE scan' = at /\ UNCHANGED <<phase, result, onHash, onNextBlock, stopScanning>>

\* The height and the nonce were read by two requests, at any two moments.
ReadCounts(height, nonceAt) ==
  /\ scan = "counts"
  /\ scanTo' = height
  /\ IF fate = "none" \/ minedAt > nonceAt
     THEN startBlock' = height /\ EndScan
     ELSE UNCHANGED startBlock /\ ScanOn("tx")
  /\ UNCHANGED <<chainVars, arguments, looking, txPoll, txCheck, nextScan, faultsLeft>>

\* Mutant: no blocks are looked back to.
ReadTxNoLookBack ==
  /\ scan = "tx"
  /\ IF fate = "ours" THEN EndScan /\ UNCHANGED nextScan
     ELSE /\ nextScan' = IF nextScan = -1 THEN startBlock ELSE nextScan
          /\ IF nextScan' <= scanTo THEN ScanOn("block") ELSE EndScan
  /\ UNCHANGED <<chainVars, arguments, looking, txPoll, txCheck, scanTo, startBlock, faultsLeft>>

\* We were mined, or the scan starts.
ReadTx ==
  /\ scan = "tx"
  /\ IF fate = "ours" THEN EndScan /\ UNCHANGED nextScan
     ELSE /\ nextScan' = IF nextScan = -1 THEN Max({startBlock - LookBack, sentAt}) ELSE nextScan
          /\ IF nextScan' <= scanTo THEN ScanOn("block") ELSE EndScan
  /\ UNCHANGED <<chainVars, arguments, looking, txPoll, txCheck, scanTo, startBlock, faultsLeft>>

\* Is the replacement in the block nextScan?
ReadBlock ==
  /\ scan = "block"
  /\ IF minedAt = nextScan THEN ScanOn("receipt") /\ UNCHANGED nextScan
     ELSE /\ nextScan' = nextScan + 1
          /\ IF nextScan' <= scanTo THEN ScanOn("block") ELSE EndScan
  /\ UNCHANGED <<chainVars, arguments, looking, txPoll, txCheck, scanTo, startBlock, faultsLeft>>

\* "We will retry this on the next block", unless it is confirmed.
ReadReplacement ==
  /\ scan = "receipt"
  /\ IF Confirmed(scanTo) THEN Finish("replaced") /\ scan' = "none" ELSE EndScan
  /\ UNCHANGED <<chainVars, arguments, looking, txPoll, txCheck, scanTo, startBlock, nextScan, faultsLeft>>

-----------------------------------------------------------------------------
(* waitForTransaction *)

\* Without confirmations to wait for: what getTransactionReceipt says.
ReceiptOnly ==
  /\ phase = "receipt" /\ api # "wait"
  /\ phase' = "settled"
  /\ result' = IF fate = "ours" THEN "receipt" ELSE "null"
  /\ UNCHANGED <<chainVars, arguments, onHash, onNextBlock, looking, txPoll, txCheck, scanVars,
                 stopScanning, faultsLeft>>

\* listener(await this.getBlockNumber()): if that fails the executor rejects,
\* which nobody sees.
FirstLook(fails) ==
  /\ looking = -2
  /\ fails => faultsLeft > 0
  /\ phase' = IF phase = "settled" THEN phase ELSE IF fails THEN "stuck" ELSE "waiting"
  /\ looking' = IF fails THEN -1 ELSE tip
  /\ faultsLeft' = IF fails THEN faultsLeft - 1 ELSE faultsLeft
  /\ UNCHANGED <<chainVars, arguments, result, onHash, onNextBlock, txPoll, txCheck, scanVars,
                 stopScanning>>

\* The receipt: done, or look again at the next block, also when the wait has
\* timed out meanwhile.
Look(fails) ==
  /\ looking >= 0
  /\ fails => faultsLeft > 0
  /\ looking' = -1
  /\ faultsLeft' = IF fails THEN faultsLeft - 1 ELSE faultsLeft
  /\ IF ~fails /\ fate = "ours" /\ Confirmed(looking)
     THEN /\ phase' = "settled"
          /\ result' = IF result = "none" THEN "receipt" ELSE result
          /\ UNCHANGED onNextBlock
     ELSE onNextBlock' = TRUE /\ UNCHANGED <<phase, result>>
  /\ UNCHANGED <<chainVars, arguments, onHash, txPoll, txCheck, scanVars, stopScanning>>

ReceiptTimeOut ==
  /\ api # "wait" /\ hasTimeout /\ confirms > 0
  /\ result = "none"
  /\ result' = "timeout"
  /\ phase' = "settled"
  /\ onNextBlock' = FALSE
  /\ UNCHANGED <<chainVars, arguments, onHash, looking, txPoll, txCheck, scanVars, stopScanning,
                 faultsLeft>>

-----------------------------------------------------------------------------
\* A request fails: wait rejects before it listens; the listeners swallow it,
\* and replaceListener runs again at the next block.
Fault ==
  /\ faultsLeft > 0
  /\ faultsLeft' = faultsLeft - 1
  /\ \/ /\ phase \in {"receipt", "confirm"} \/ (phase = "first" /\ scan # "none")
        /\ scan' = "none"
        /\ Finish("error")
        /\ UNCHANGED <<txPoll, txCheck>>
     \/ /\ phase \in {"waiting", "settled"} /\ scan # "none"
        /\ EndScan
        /\ UNCHANGED <<txPoll, txCheck>>
     \/ /\ txPoll \/ txCheck
        /\ txPoll' = (txPoll /\ txCheck)
        /\ txCheck' = FALSE
        /\ UNCHANGED <<phase, result, onHash, onNextBlock, stopScanning, scan>>
  /\ UNCHANGED <<chainVars, arguments, looking, scanTo, startBlock, nextScan>>

WaitStep ==
  \/ FirstReceipt \/ FirstConfirm \/ AfterFirst
  \/ TxPollReturns \/ TxCheckReturns
  \/ \E h, n \in scanTo .. tip : ReadCounts(h, n)
  \/ ReadTx \/ ReadBlock \/ ReadReplacement
  \/ ReceiptOnly \/ FirstLook(FALSE) \/ Look(FALSE)

WaitNext ==
  \/ \E what \in {"none", "ours", "other"} : WaitBlock(what)
  \/ TimeOut \/ ReceiptTimeOut
  \/ WaitStep
  \/ FirstLook(TRUE) \/ Look(TRUE)
  \/ Fault

WaitSpec == WaitInit /\ [][WaitNext]_waitVars

-----------------------------------------------------------------------------
(* Properties *)

(***************************************************************************)
(* A receipt is returned only when the transaction has the confirmations   *)
(* asked for, a replacement is reported only if there is one with as many, *)
(* null is returned only when no confirmations were asked for, whatever    *)
(* the order of the reads; and wait, once it has settled, listens to       *)
(* nothing.  (waitForTransaction may, see Look.)                           *)
(***************************************************************************)
WaitTellsTheTruth ==
  /\ result = "receipt" => fate = "ours" /\ Confirmed(tip)
  /\ result = "replaced" => fate = "other" /\ Confirmed(tip)
  /\ result = "null" => confirms = 0
  /\ result = "timeout" => hasTimeout
  /\ api = "wait" /\ phase = "settled" => ~onHash /\ ~onNextBlock

(***************************************************************************)
(* A transaction that was mined settles once it is confirmed, a replaced   *)
(* one too if replacement detection is on: the search starts before the    *)
(* block of the replacement although height and nonce are read apart, if   *)
(* they are at most LookBack blocks apart.  waitForTransaction is stuck if *)
(* its first request fails, and does not look for replacements.            *)
(***************************************************************************)
Settleable == minedAt + confirms <= MaxTip + 1   \* within the bound
WaitSettles ==
  fate = "ours" \/ (fate = "other" /\ sentAt >= 0 /\ api = "wait")
    ~> phase \in {"settled", "stuck"} \/ ~Settleable
=============================================================================
