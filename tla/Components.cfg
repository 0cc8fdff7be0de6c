SPECIFICATION Spec
CONSTANTS
  SocketSubs <- OneSub
  MaxMessages = 3
  MaxSocketPauses = 1
  Malformed = TRUE
  Filters <- UpTo3
  MaxFilterPauses = 2
  ContractSubs <- UpTo2
  NoContractSub = NoContractSub
  MaxEmits = 4
  MaxContractCalls = 3
  MaxTip = 5
  ConfirmsOptions = {0, 1, 2}
  MaxSkew = 3
  MaxFaults = 1
  MaxAttempts = 3
  OwnAttempts = {1, 2}
  Timeout = 2
  Delays = {1}
  MaxNow = 4
  NetworkCalls <- UpTo3
  Networks = {"main", "devin"}
  NoNetwork = "none"
  NoPromise = 0
  Explicit = 9
  MaxChain = 3
  Window = 1
  MaxEventPauses = 2
  WordSize = 2
  RlpObjects <- Rlps
  TextBytes <- Bytes
  TextUnits <- Units
  AbiValues <- AbiIn
  AbiWords <- DataIn
  TypedInputs <- StructsIn
  KnownNames <- NamesKnown
  ContractCalls <- SomeCalls
  LoggedEvents <- Logs
  Reverts <- ManyReverts
  HexInputs <- HexInputsOf
  ByteInputs <- BytesOfLength
  StringInputs <- StringsOfSize
  AddressInputs <- AddressesOf
  AmountInputs <- AmountsOf
  ExponentInputs <- ExponentsOf
  BigInputs <- BigPairs
  Entropies <- EntropiesOf
  SortedWords <- WordsOf
  BitInputs <- BitsIn
  HanPairs <- HanOf
  Substitutions = 2
  HDPaths <- PathsIn
  Keystores <- KeystoresOf
  OtherKeystores <- OtherKeystoresOf
  ResultInputs <- ResultsIn
  MaxSafe = 1000
  RequestInputs <- RequestsIn
  FilterInputs <- FiltersIn
  CallAnswers <- AnswersIn
  TransactionAnswers <- TransactionsRead
  LogAnswers <- LogsRead
  ReceiptAnswers <- ReceiptsRead
  BlockAnswers <- BlocksRead
  FilterPairs <- FiltersPaired
  LogPairs <- LogsIn
  TransactionPairs <- TransactionsIn
  BlockPairs <- BlocksPaired
  ContractTargets <- ContractsIn
  MethodCalls <- MethodsIn
  FallbackCalls <- FallbacksIn
  Deployments <- DeploymentsIn
  ContractEventPairs <- ContractEventsIn
  LogQueries <- QueriesIn
  NetworkInputs <- NetworksIn
  FragmentTexts <- FragmentWords
  FragmentJsons <- FragmentObjects
  AddressLength = 2
  MaxLength = 2
  Transactions <- Txs
  Signatures <- Sigs
  FixedFormats <- Formats8
  FixedValues <- Values8
  StructTypes = {"A", "B", "C"}
CHECK_DEADLOCK FALSE
INVARIANTS NotesInOrder FiltersAccountedFor  WaitTellsTheTruth FetchWithinLimits NetworkFollowed NoLogSkipped   FullTypesComplete
PROPERTIES SubscriptionIsAChannel StoppedFiltersClose WaitSettles
