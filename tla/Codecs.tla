------------------------------- MODULE Codecs -------------------------------
(***************************************************************************)
(* The pure functions on the data that leaves and enters the program, each *)
(* called with one input: encodings, texts, keys, requests, answers, tags  *)
(* of events and the calls of contracts.                                   *)
(***************************************************************************)
EXTENDS TransactionCoding, AbiInterface, Fragments, BigNumbers, Wordlists, Wallets,
        TypedDataValues, Networks, Results, Contracts

CONSTANTS RlpObjects,   \* objects to encode
          TextBytes,    \* byte strings to read as UTF-8
          TextUnits,    \* strings to write as UTF-8
          AbiValues,    \* pairs of types and the values to encode
          TypedInputs,  \* a domain, and two structs with their values
          KnownNames,   \* the addresses of each name
          AbiWords,     \* pairs of types and the data to decode as these
          HexInputs,    \* what is made hex, and the padding of an odd length
          ByteInputs,   \* bytes, and the length to pad them to
          StringInputs, \* texts, and the number of bytes to write them in
          AddressInputs, \* prefixes and values of addresses
          AmountInputs, \* decimal texts and units
          ExponentInputs, \* texts with an exponent, and units
          BigInputs,    \* pairs of numbers
          Entropies,    \* bytes to spell, and words to put in their phrase
          SortedWords,  \* lists of words to pack
          BitInputs,    \* numbers to pack, and the width to pack them in
          HanPairs,     \* lists of simplified characters and their traditional ones
          HDPaths,      \* a seed's wallet, a path below it and a place on it
          Keystores,    \* wallets, two passwords, the cost of a key and a change of a field
          OtherKeystores, \* wallets, two passwords and a hash
          RequestInputs, \* a signer, a request and a node
          FilterInputs, \* filters of logs
          TransactionAnswers, \* transactions as a node has them
          LogAnswers,   \* logs
          ReceiptAnswers, \* receipts, and their transaction
          BlockAnswers, \* blocks
          FilterPairs,  \* two filters to listen to, and a name
          LogPairs,     \* two logs, and a filter
          TransactionPairs, \* two transactions
          BlockPairs,   \* two blocks
          ContractTargets, \* a target and two runners
          MethodCalls,  \* a method of a contract, its arguments twice and options
          FallbackCalls, \* a contract, what its fallback takes and options
          Deployments,  \* a factory, its sender, arguments, and the code as blocks go by
          ContractEventPairs, \* two events of a contract
          LogQueries,   \* a contract, an event, blocks, and the logs of the node
          CallAnswers,  \* what a contract answers, one after the other
          ResultInputs, \* items and their names
          NetworkInputs, \* a network, a transaction and the keys of the services
          FragmentTexts, \* texts to read as a fragment
          FragmentJsons, \* objects to read as a fragment
          ContractCalls, \* functions, a key and the arguments of a call
          LoggedEvents,    \* events, one of them with its values, a key and patterns
          Reverts,      \* errors, one that is encoded, and its values
          Transactions, \* transactions to serialize
          Signatures    \* signatures, and <<>> for none

VARIABLES codec,        \* the codec called, or "none"
          input

codecVars == <<codec, input>>

CodecInit == codec = "none" /\ input = <<>>

Calling(name, inputs) == codec = "none" /\ codec' = name /\ \E in \in inputs : input' = <<name, in>>

CodecNext ==
  \/ Calling("rlp", RlpObjects)
  \/ Calling("bytes", TextBytes)
  \/ Calling("units", TextUnits)
  \/ Calling("abi", AbiValues)
  \/ Calling("packed", AbiValues)
  \/ Calling("data", AbiWords)
  \/ Calling("struct", TypedInputs)
  \/ Calling("hex", HexInputs)
  \/ Calling("padding", ByteInputs)
  \/ Calling("string", StringInputs)
  \/ Calling("address", AddressInputs)
  \/ Calling("amount", AmountInputs)
  \/ Calling("exponent", ExponentInputs)
  \/ Calling("bignumber", BigInputs)
  \/ Calling("mnemonic", Entropies)
  \/ Calling("words", SortedWords)
  \/ Calling("bits", BitInputs)
  \/ Calling("characters", HanPairs)
  \/ Calling("path", HDPaths)
  \/ Calling("keystore", Keystores)
  \/ Calling("pbkdf2", OtherKeystores)
  \/ Calling("request", RequestInputs)
  \/ Calling("filter", FilterInputs)
  \/ Calling("lookup", CallAnswers)
  \/ Calling("response", TransactionAnswers)
  \/ Calling("logged", LogAnswers)
  \/ Calling("receipt", ReceiptAnswers)
  \/ Calling("block", BlockAnswers)
  \/ Calling("event", FilterPairs)
  \/ Calling("removal", LogPairs)
  \/ Calling("mined", TransactionPairs)
  \/ Calling("orphan", BlockPairs)
  \/ Calling("contract", ContractTargets)
  \/ Calling("method", MethodCalls)
  \/ Calling("fallback", FallbackCalls)
  \/ Calling("deploy", Deployments)
  \/ Calling("named", ContractEventPairs)
  \/ Calling("query", LogQueries)
  \/ Calling("result", ResultInputs)
  \/ Calling("network", NetworkInputs)
  \/ Calling("text", FragmentTexts)
  \/ Calling("json", FragmentJsons)
  \/ Calling("call", ContractCalls)
  \/ Calling("log", LoggedEvents)
  \/ Calling("revert", Reverts)
  \/ Calling("transaction", [tx : Transactions, signature : Signatures])

CodecSpec == CodecInit /\ [][CodecNext]_codecVars

-----------------------------------------------------------------------------
Prefix(bytes, n) == SubSeq(bytes, 1, n)

\* Every object comes back from its encoding, and no beginning of it is taken.
RlpInverts ==
  LET bytes == RlpEncode(input[2])
  IN  /\ RlpDecode(bytes) = RlpDecoded(input[2], Len(bytes))
      /\ \A n \in 0 .. Len(bytes) - 1 : ~RlpDecode(Prefix(bytes, n)).ok

\* What "error" takes is the one encoding of what it returns; the lenient modes
\* agree with it there and take everything else.
BytesAreCanonical ==
  LET strict == Utf8Decode(input[2], "error")
  IN  /\ strict.ok => Utf8Encode(strict.units, 1) = Utf8Ok(input[2])
      /\ \A mode \in {"ignore", "replace"} :
           /\ Utf8Decode(input[2], mode).ok
           /\ strict.ok => Utf8Decode(input[2], mode) = strict

\* A string that is written comes back, unless it has a low surrogate alone.
LowAlone(str) == \E i \in DOMAIN str : Low(str[i]) /\ (i = 1 \/ ~High(str[i - 1]))
UnitsComeBack ==
  LET bytes == Utf8Encode(input[2], 1)
  IN  bytes.ok => (Utf8Decode(bytes.units, "error") = IF LowAlone(input[2]) THEN Utf8Fault ELSE Utf8Ok(input[2]))

\* Values come back from their encoding; a beginning of it is refused, or gives
\* the same values when only padding is missing and the decoder is loose.
ComesBack(got, values, whole, loose) ==
  /\ whole => got.ok
  /\ got.ok => (whole \/ loose) /\ got.value = Items(values)
EveryBeginning(types, values, encoded) ==
  encoded.ok => \A n \in 0 .. Len(encoded.bytes), loose \in BOOLEAN :
    ComesBack(AbiDecode(types, Prefix(encoded.bytes, n), loose), values, n = Len(encoded.bytes), loose)
AbiInverts == EveryBeginning(input[2].types, input[2].values, AbiEncode(input[2].types, input[2].values))

\* Values read from any data can be written, and come back as they are.
WritesBack(types, got, again, loose) ==
  got.ok /\ ~HasError(got.value) => again.ok /\ AbiDecode(types, again.bytes, loose).value = got.value
ReadsBack(types, got, loose) == WritesBack(types, got, AbiEncode(types, got.value.items), loose)
AbiReadsWhatItWrites ==
  \A loose \in BOOLEAN :
    ReadsBack(input[2].types, AbiDecode(input[2].types, input[2].data, loose), loose)

\* A transaction comes back from the bytes that are sent, with the hash of these
\* bytes and the signer of the bytes that were signed.
SameTransaction(back, raw, tx, signature) ==
  IF signature # <<>> /\ networkIdToPrefix(tx.networkId) = "bad networkId" THEN ~back.ok
  ELSE /\ back.ok
       /\ back.tx = tx
       /\ back.signature = signature
       /\ signature # <<>> =>
            /\ back.hash = raw
            /\ back.from = recoverAddress(serialize(tx, <<>>), signature, networkIdToPrefix(tx.networkId))
SentComesBack(tx, signature, raw) == SameTransaction(parse(raw), raw, tx, signature)
TransactionComesBack ==
  Serializable(input[2].tx) =>
    SentComesBack(input[2].tx, input[2].signature, serialize(input[2].tx, input[2].signature))

\* Whatever a fragment is read from, what it is written to reads as the same one.
WrittenComesBack(fragments) == \A f \in fragments : FragmentComesBack(f)

\* The data that a method sends is parsed as the function called, with the values
\* that were passed; and when only one function takes the arguments it is called,
\* unless an argument that is no option stands where one of another might.
Takes(f, args) ==
  /\ \/ Len(args) = Len(f.inputs)
     \/ Len(args) = Len(f.inputs) + 1 /\ Last(args).is \in AnOption
  /\ \A j \in DOMAIN args : IsTyped(args[j]) =>
       IF args[j].is = "typed" THEN j <= Len(f.inputs) /\ args[j].type = f.inputs[j].type ELSE j > Len(f.inputs)
Clear(named, f, args) ==
  /\ {g \in named : Takes(g, args)} = {f}
  /\ args # <<>> /\ Last(args).is = "value" => ~\E g \in named : Len(g.inputs) = Len(args) - 1
Passed(type, value) == IF type.kind = "bool" THEN Num(IF value.num = 0 THEN 0 ELSE 1) ELSE value
SentAs(call, tx, parsed) ==
  /\ parsed.args.ok
  /\ IF call.key.is = "name" THEN parsed.member.name = call.key.name ELSE parsed.member.signature = call.key.signature
  /\ tx.options = (Len(call.args) > Len(parsed.member.inputs))
  /\ \A i \in DOMAIN parsed.member.inputs :
       LET arg == call.args[i]
           type == parsed.member.inputs[i].type
       IN  arg.is \in {"value", "typed"} =>
             parsed.args.value.items[i] = Passed(type, arg.value) /\ (arg.is = "typed" => arg.type = type)
CallComesBack(call, named) ==
  LET sent == populateTransaction(call.functions, call.key, call.args)
  IN  /\ Cardinality(sent) <= 1
      /\ \A tx \in sent : LET parsed == parseTransaction(call.functions, tx.data)
                           IN  Cardinality(parsed) = 1 /\ \A p \in parsed : SentAs(call, tx, p)
      /\ call.key.is = "name" =>
           \A f \in named : Clear(named, f, call.args) => sent = Populated(f, call.args)

\* A log is decoded to the values of the event, or their hashes; the log of an
\* anonymous event is not found by its topics; and a filter finds exactly the logs
\* whose values it asks for, but for bytes of a fixed number, which are padded on the
\* other side.
Logged(type, value) == IF HashedType(type) THEN Data(LogTopic(type, value).bytes) ELSE value
AsksFor(type, pattern, value) ==
  \/ pattern.is = "null"
  \/ value \in pattern.values /\ (type.kind = "fixed" => value.data = Zeros(type.size))
LogComesBack(events, event, key, values, patterns) ==
  \A log \in encodeEventLog(event, values) :
    LET args == [i \in DOMAIN values |->
                   IF event.inputs[i].indexed THEN Logged(event.inputs[i].type, values[i]) ELSE values[i]]
    IN  /\ decodeEventLog(event, log) = {args}
        /\ log.topics # <<>> =>
             parseLog(events, log) = IF event.anonymous THEN {} ELSE {[event |-> event, args |-> args]}
        /\ \A e \in getEvent(events, key, patterns) : \A topics \in encodeFilterTopics(e, patterns) :
             LogMatches(topics, log) <=>
               e = event /\ \A i \in DOMAIN patterns : AsksFor(e.inputs[i].type, patterns[i], values[i])

\* A call that reverts is explained by the error encoded, if the interface has it,
\* and data that was cut off by no error.
RevertComesBack(errors, error, values) ==
  \A data \in encodeData(error, values), n \in 0 .. WordSize :
    \A why \in {makeError(errors, Prefix(data, Len(data) - n))} :
      IF n = 0 /\ (error.signature \in BuiltinSelectors \/ \E i \in DOMAIN errors : errors[i].signature = error.signature)
      THEN why.revert = {Parsing(error, data)} /\ \A r \in why.revert : r.args.value = Items(values)
      ELSE why.revert = {} \/ error.inputs = <<>>

\* The decoders undo the encoders, take no truncated data, and give back what can
\* be encoded again: decodeRlp, toUtf8String, AbiCoder.decode, Fragment.from,
\* Interface, Transaction.from, Mnemonic, the keystores, Result and the word lists.
\* What is asked of a provider, a signer or a contract reaches the node with what the
\* caller gave, what the node answers reaches the caller (copyRequest,
\* getRpcRequest, formatTransactionResponse, populateTransaction), and two events have
\* one tag only if they ask for the same (getSubscription, getSubInfo).
DecodersUndoEncoders ==
  CASE codec = "rlp"   -> RlpInverts
    [] codec = "bytes" -> BytesAreCanonical
    [] codec = "units" -> UnitsComeBack
    [] codec = "abi"   -> AbiInverts
    [] codec = "packed" -> PackedComesBack(input[2].types, input[2].values) /\ NetworkComesBack(0 .. 12)
    [] codec = "data"  -> AbiReadsWhatItWrites
    [] codec = "struct" -> TypedDataComesBack(input[2].domain, Simple("address", 1), input[2].type, input[2].value,
                                              input[2].otherType, input[2].other, KnownNames)
    [] codec = "hex"   -> HexComesBack(input[2].value, input[2].hexPad)
    [] codec = "padding"  -> BytesComeBack(input[2].bytes, input[2].length)
    [] codec = "string"   -> BytesStringComesBack(input[2].text, input[2].size)
    [] codec = "address"  -> AddressComesBack(input[2].prefix, input[2].value)
    [] codec = "amount"   -> AmountComesBack(input[2].text, input[2].unit)
    [] codec = "exponent" -> ScientificComesBack(input[2].text, input[2].unit)
    [] codec = "bignumber" -> BigNumbersFit(input[2].n, input[2].m)
    [] codec = "mnemonic" -> MnemonicComesBack(input[2].entropy, input[2].otherWords)
    [] codec = "words" -> WordsComeBack(input[2])
    [] codec = "bits"  -> BitsComeBack(input[2].width, input[2].values)
    [] codec = "characters" -> ZhComesBack(input[2]) /\ CodesAreCharacters(KanaBytes, 0 .. 90) /\ CodesAreCharacters(getHangul, 0 .. 69)
    [] codec = "path"  -> PathComesBack(input[2].root, input[2].path, input[2].place)
    [] codec = "keystore" ->
         KeystoreComesBack(input[2].wallet, input[2].password, input[2].other, input[2].options, input[2].change[1], input[2].change[2])
    [] codec = "pbkdf2" -> OtherKeystoreOpens(input[2].wallet, input[2].password, input[2].other, input[2].hash)
    [] codec = "request" -> /\ RequestArrives(input[2].request, input[2].node)
                           /\ SignerSends(input[2].signer, input[2].request, input[2].node)
                           /\ SentIsSeen(input[2].signer, input[2].request, input[2].node)
    [] codec = "filter" -> FilterArrives(input[2].filter, input[2].node)
    [] codec = "lookup" -> CallFollowed(input[2])
    [] codec = "response" -> TransactionRead(input[2]) /\ ContractWaits(input[2])
    [] codec = "logged" -> LogRead(input[2])
    [] codec = "receipt" -> ReceiptRead(input[2].receipt, input[2].txs)
    [] codec = "block" -> BlockRead(input[2])
    [] codec = "event" -> /\ FiltersTagged(input[2].filter, input[2].other)
                          /\ \A event \in {<<"filter", input[2].filter>>, <<"name", input[2].name>>, <<"hash", 1>>} : EventServed(event)
    [] codec = "removal" -> RemovalOfALog(input[2].log, input[2].other, <<"filter", input[2].filter>>)
    [] codec = "mined" -> RemovalOfMined(input[2].tx, input[2].other)
    [] codec = "contract" -> ContractMade(input[2].target, input[2].runners, input[2].others)
    [] codec = "method" ->
         CallArrives(input[2].target, input[2].runners, input[2].method, input[2].call.args, input[2].call.same, input[2].options)
    [] codec = "fallback" -> FallbackArrives(input[2].target, input[2].runners, input[2].takes, input[2].options)
    [] codec = "deploy" -> Deployed(input[2].factory, input[2].sender, input[2].args, input[2].options, input[2].codes)
    [] codec = "named" -> EventsTagged(input[2].events, input[2].event, input[2].other)
    [] codec = "query" -> LogsFound(input[2].contract, input[2].events, input[2].event, input[2].from, input[2].to, input[2].logs)
    [] codec = "orphan" -> RemovalOfBlock(input[2].block, input[2].other)
    [] codec = "result" -> ResultComesBack(input[2].items, input[2].keys) /\ (input[2].items = <<>> => TypedComesBack(Num(3)))
    [] codec = "network" -> ConnectsTo(input[2].network, input[2].tx, input[2].options)
    [] codec \in {"text", "json"} ->
         WrittenComesBack(IF codec = "text" THEN FragmentFromText(input[2]) ELSE FragmentFromJson(input[2]))
    [] codec = "call"  -> CallComesBack(input[2], Lookup(input[2].functions, LAMBDA f : f.name = input[2].key.name))
    [] codec = "log"   -> LogComesBack(input[2].events, input[2].event, input[2].key, input[2].values, input[2].patterns)
    [] codec = "revert" -> RevertComesBack(input[2].errors, input[2].error, input[2].values)
    [] codec = "transaction" -> TransactionComesBack
    [] OTHER -> TRUE
=============================================================================
