------------------------------ MODULE Requests ------------------------------
(***************************************************************************)
(* From what is asked of a provider or a signer to what a node is sent     *)
(* (providers/provider.ts, abstract-provider.ts, abstract-signer.ts,       *)
(* provider-jsonrpc.ts, wallet/base-wallet.ts).  A value is a tuple of what*)
(* it is and what it holds; a request or a filter is a function on the     *)
(* fields it has.                                                          *)
(*                                                                         *)
(* And from what a node answers to the blocks, transactions, receipts and  *)
(* logs that a provider gives (providers/format.ts, provider.ts).  An      *)
(* answer is a function on the fields it has; access lists are left out.   *)
(*                                                                         *)
(* An operator returns the set of what its function returns, empty when it *)
(* throws.                                                                 *)
(***************************************************************************)
EXTENDS Integers, Sequences, SequencesExt, FiniteSets

CONSTANT MaxSafe   \* the largest number that is safe

NullValue == <<"null">>
NoText == <<"text", "">>
Numerals == {"number", "bigint", "digits", "hex"}
Safe(v) == v[2] \in -MaxSafe .. MaxSafe
AsBigInt(v) == IF v[1] \notin Numerals \/ (v[1] = "number" /\ ~Safe(v)) THEN {} ELSE {<<"bigint", v[2]>>}
AsNumber(v) == IF v[1] \notin Numerals \/ ~Safe(v) THEN {} ELSE {<<"number", v[2]>>}
AsQuantity(v) == {<<"quantity", n[2]>> : n \in {n \in AsBigInt(v) : n[2] >= 0}}

\* An address or bytes, in a letter case; "odd" has no whole number of bytes.
Lower(v) == <<v[1], v[2], "lower">>
Hexlified(v) == IF v[1] \in {"address", "data"} /\ v[3] # "odd" THEN {Lower(v)} ELSE {}
NoAddress == 0   \* what an addressable without one resolves to
checkAddress(v) == IF v[2] = NoAddress THEN {} ELSE {<<"address", v[2], v[3]>>}
resolveAddress(v) == CASE v[1] = "address" -> {v} [] v[1] = "addressable" -> checkAddress(v) [] OTHER -> {}

Gives(request, key) == key \in DOMAIN request /\ request[key] # NullValue
GivesValue(request, key) == Gives(request, key) /\ request[key] # NoText
\* A request with these fields, if each of them can be had.
Each(keys, Of(_)) == IF \E k \in keys : Of(k) = {} THEN {} ELSE {[k \in keys |-> CHOOSE v \in Of(k) : TRUE]}
With(request, key, v) == [k \in DOMAIN request \cup {key} |-> IF k = key THEN v ELSE request[k]]
Dropping(request, key) == [k \in DOMAIN request \ {key} |-> request[k]]

BigIntKeys == {"networkId", "energyLimit", "energyPrice", "value"}
NumberKeys == {"type", "nonce"}
copyRequest(request) ==
  LET keys == {k \in {"to", "from", "data"} : GivesValue(request, k)} \cup {k \in BigIntKeys \cup NumberKeys : Gives(request, k)}
              \cup ({"blockTag", "customData"} \cap DOMAIN request)
      Copied(k) == CASE k = "data"       -> Hexlified(request[k])
                     [] k \in BigIntKeys -> AsBigInt(request[k])
                     [] k \in NumberKeys -> AsNumber(request[k])
                     [] OTHER            -> {request[k]}
  IN  Each(keys, Copied)

-----------------------------------------------------------------------------
\* The provider.  A node has a height, a network, the nonce of an account, the energy
\* of a transaction and its price, NullValue if it has none.
Tags == {"latest", "pending", "safe", "finalized"}
getBlockTag(tag, node) ==
  CASE tag = NullValue -> {<<"tag", "latest">>}
    [] tag = <<"tag", "earliest">> -> {<<"quantity", 0>>}
    [] tag[1] = "tag" /\ tag[2] \in Tags -> {tag}
    [] tag[1] = "hash" -> {tag}
    [] tag[1] \in {"hex", "number"} \/ (tag[1] = "bigint" /\ Safe(tag)) ->
         AsQuantity(<<"bigint", IF tag[2] < 0 THEN node.height + tag[2] ELSE tag[2]>>)
    [] OTHER -> {}
BlockTagOf(request, node) == getBlockTag(IF "blockTag" \in DOMAIN request THEN request.blockTag ELSE NullValue, node)

getTransactionRequest(request, node) ==
  LET Resolved(copy) == Each(DOMAIN copy, LAMBDA k : CASE k \in {"to", "from"} -> resolveAddress(copy[k])
                                                       [] k = "blockTag" /\ copy[k] # NullValue -> getBlockTag(copy[k], node)
                                                       [] OTHER -> {copy[k]})
  IN  UNION {Resolved(copy) : copy \in copyRequest(request)}

\* What JSON-RPC calls a field.
RpcName(key) == IF key = "energyLimit" THEN "energy" ELSE key
getRpcTransaction(tx) ==
  LET keys == {k \in BigIntKeys \cup NumberKeys \cup {"from", "to", "data"} : Gives(tx, k)}
  IN  {[name \in {RpcName(k) : k \in keys} |-> rpc[CHOOSE k \in keys : RpcName(k) = name]] :
         rpc \in Each(keys, LAMBDA k : IF k \in {"from", "to", "data"} THEN Hexlified(tx[k]) ELSE AsQuantity(tx[k]))}

\* getRpcRequest for what has the fields of the method.
getRpcRequest(method, req) ==
  CASE method \in {"networkId", "getBlockNumber", "getEnergyPrice"} -> {<<method>>}
    [] method \in {"getTransaction", "getTransactionReceipt", "broadcastTransaction"} -> {<<method, req.hash>>}
    [] method = "getStorage"     -> {<<method, Lower(req.address), req.position[2], req.blockTag>>}
    [] method \in {"getBalance", "getTransactionCount", "getCode"} -> {<<method, Lower(req.address), req.blockTag>>}
    [] method = "getBlock" -> {IF "blockTag" \in DOMAIN req THEN <<"getBlockByNumber", req.blockTag>> ELSE <<"getBlockByHash", req.blockHash>>}
    [] method = "call"           -> {<<method, rpc, req.blockTag>> : rpc \in getRpcTransaction(req.transaction)}
    [] method = "estimateEnergy" -> {<<method, rpc>> : rpc \in getRpcTransaction(req.transaction)}
    [] method = "getLogs"        -> {<<method, IF "address" \in DOMAIN req.filter
                                               THEN [req.filter EXCEPT !.address = [i \in DOMAIN @ |-> Lower(@[i])]] ELSE req.filter>>}
    [] OTHER -> {}

getAccountValue(method, address, tag, node) ==
  UNION {getRpcRequest(method, [address |-> a, blockTag |-> t]) : a \in resolveAddress(address), t \in getBlockTag(tag, node)}
getBlock(block, node) ==
  IF block[1] = "hash" THEN getRpcRequest("getBlock", [blockHash |-> block])
  ELSE UNION {getRpcRequest("getBlock", [blockTag |-> t]) : t \in getBlockTag(block, node)}
providerCall(request, node) ==
  UNION {getRpcRequest("call", [transaction |-> copy, blockTag |-> t]) :
           t \in BlockTagOf(request, node), copy \in UNION {copyRequest(tx) : tx \in getTransactionRequest(request, node)}}
providerEstimate(request, node) ==
  IF \E tx \in getTransactionRequest(request, node) : getRpcRequest("estimateEnergy", [transaction |-> tx]) # {} THEN {node.energy} ELSE {}

\* Lists of addresses and topics are sorted, upper case first, those of topics without
\* what is in them twice; topics are made lower case.
SortsBefore(v, w) == IF v[3] = w[3] THEN v[2] < w[2] ELSE v[3] = "upper"
concisify(topics) == SetToSortSeq({Lower(topics[i]) : i \in DOMAIN topics}, SortsBefore)
CanonicalTopic(t) ==
  CASE t = NullValue   -> t
    [] t[1] = "many"   -> <<"many", concisify(t[2])>>
    [] OTHER           -> Lower(t)
getFilter(filter, node) ==
  LET blocks    == {"fromBlock", "toBlock"} \cap DOMAIN filter
      addresses == IF Gives(filter, "address") THEN filter.address ELSE <<>>
      topics    == IF Gives(filter, "topics") THEN filter.topics ELSE <<>>
      Built(k)  == CASE k \in blocks   -> getBlockTag(filter[k], node)
                     [] k = "address"  -> IF \E i \in DOMAIN addresses : resolveAddress(addresses[i]) = {} THEN {}
                                          ELSE {SortSeq([i \in DOMAIN addresses |-> CHOOSE a \in resolveAddress(addresses[i]) : TRUE], SortsBefore)}
                     [] k = "topics"   -> {[i \in DOMAIN topics |-> CanonicalTopic(topics[i])]}
                     [] OTHER          -> {filter[k]}
  IN  IF Gives(filter, "blockHash") /\ blocks # {} THEN {}
      ELSE Each(blocks \cup {k \in {"blockHash"} : Gives(filter, k)} \cup {k \in {"address"} : addresses # <<>>}
                \cup {k \in {"topics"} : topics # <<>>}, Built)
getLogs(filter, node) == UNION {getRpcRequest("getLogs", [filter |-> f]) : f \in getFilter(filter, node)}

-----------------------------------------------------------------------------
\* A signer has one address.  populate takes a request only from there.
IsSigner(signer, from) == \E a \in resolveAddress(from) : Lower(a) = Lower(signer)
populateCall(signer, request) ==
  LET Own(copy)  == With(copy, "from", signer)
      Resolved(copy) == Each(DOMAIN copy, LAMBDA k : IF k = "to" THEN resolveAddress(copy.to) ELSE {copy[k]})
  IN  UNION {Resolved(Own(copy)) : copy \in {c \in copyRequest(request) : "from" \in DOMAIN c => IsSigner(signer, c.from)}}

\* What a request lacks is asked of the node; the network may not be another.
Completed(pop, node) ==
  [k \in DOMAIN pop \cup {"nonce", "energyLimit", "networkId", "energyPrice"} |->
     IF k \in DOMAIN pop THEN pop[k]
     ELSE CASE k = "nonce" -> node.nonce [] k = "energyLimit" -> node.energy [] k = "networkId" -> node.network [] OTHER -> node.price]
PopulatedWith(signer, pop, node) ==
  LET asked == populateCall(signer, With(pop, "nonce", Completed(pop, node).nonce))
  IN  IF \/ "energyLimit" \notin DOMAIN pop /\ UNION {providerEstimate(again, node) : again \in asked} = {}
         \/ "networkId" \in DOMAIN pop /\ pop.networkId # node.network
         \/ node.price = NullValue
      THEN {} ELSE {Completed(pop, node)}
populatedRequest(signer, request, node) == UNION {PopulatedWith(signer, pop, node) : pop \in populateCall(signer, request)}

\* Transaction.from, which leaves alone what is no field of a transaction.
EmptyTransaction == [to |-> NullValue, nonce |-> <<"number", 0>>, energyLimit |-> <<"bigint", 0>>, energyPrice |-> NullValue,
                     data |-> <<"data", 0, "lower">>, value |-> <<"bigint", 0>>, networkId |-> <<"bigint", 0>>]
TransactionOf(tx) == [k \in DOMAIN EmptyTransaction |-> IF k \in DOMAIN tx THEN tx[k] ELSE EmptyTransaction[k]]
Signable(tx) == \A k \in {"nonce", "energyLimit", "energyPrice", "value", "networkId"} : tx[k][2] >= 0
sendTransaction(signer, request, node) ==
  {tx \in {TransactionOf(Dropping(pop, "from")) : pop \in populatedRequest(signer, request, node)} : Signable(tx)}

\* JsonRpcSigner leaves more to the node: of the request it checks the sender alone.
WithSender(signer, request) ==
  IF ~GivesValue(request, "from") THEN {With(request, "from", signer)}
  ELSE IF IsSigner(signer, request.from) THEN {With(request, "from", a) : a \in resolveAddress(request.from)} ELSE {}
sendUncheckedTransaction(signer, request, node) ==
  LET Limits(tx) == IF Gives(tx, "energyLimit") THEN {tx.energyLimit} ELSE providerEstimate(With(tx, "from", signer), node)
      Targets(tx) == IF Gives(tx, "to") THEN resolveAddress(tx.to) ELSE {NullValue}
  IN  UNION {getRpcTransaction(With(With(tx, "energyLimit", limit), "to", to)) :
               <<tx, limit, to>> \in UNION {{tx} \X Limits(tx) \X Targets(tx) : tx \in WithSender(signer, request)}}
signUncheckedTransaction(signer, request) == UNION {getRpcTransaction(tx) : tx \in WithSender(signer, request)}

-----------------------------------------------------------------------------
\* A call whose contract asks for data from outside: each answer of the contract is a
\* "result", an "error", or a "lookup" at the servers it lists, which is corrupt, has
\* another sender, or can be followed.  A server gives data, has none, has none of it
\* (4xx), or fails (5xx).
MaxRedirects == 10
ccipReadFetch(servers) ==
  LET stops == {i \in DOMAIN servers : servers[i] \in {"data", "4xx"}}
      first == CHOOSE i \in stops : \A j \in stops : i <= j
  IN  IF stops = {} \/ servers[first] = "4xx" THEN {} ELSE {first}
RECURSIVE followCall(_, _, _)
followCall(answers, latest, attempt) ==
  LET answer == answers[IF attempt + 1 > Len(answers) THEN Len(answers) ELSE IF attempt = -1 THEN 1 ELSE attempt + 1]
  IN  IF attempt >= MaxRedirects THEN {}
      ELSE CASE answer.is = "result" -> {attempt}
             [] answer.is = "lookup" /\ attempt >= 0 /\ latest /\ answer.good /\ ccipReadFetch(answer.servers) # {} ->
                  followCall(answers, latest, attempt + 1)
             [] OTHER -> {}

-----------------------------------------------------------------------------
\* What is asked for reaches the node: a request is refused if one of its fields is,
\* and what is sent has the fields it gives, with their worth, and no others.
SameWorth(v, w) == v[2] = w[2]
Sendable == BigIntKeys \cup NumberKeys \cup {"from", "to", "data"}
RequestArrives(request, node) ==
  /\ (providerCall(request, node) = {}) = \E k \in DOMAIN request : providerCall([f \in {k} |-> request[k]], node) = {}
  /\ \A tx \in getTransactionRequest(request, node) : copyRequest(tx) = {tx}
  /\ \A sent \in providerCall(request, node) :
       LET asked == {k \in Sendable : IF k \in {"from", "to", "data"} THEN GivesValue(request, k) ELSE Gives(request, k)}
       IN  /\ DOMAIN sent[2] = {RpcName(k) : k \in asked}
           /\ \A k \in asked : SameWorth(sent[2][RpcName(k)], request[k])
           /\ IF ~Gives(request, "blockTag") THEN sent[3] = <<"tag", "latest">>
              ELSE request.blockTag[1] \in Numerals =>
                     SameWorth(sent[3], <<"number", IF request.blockTag[2] < 0 THEN node.height + request.blockTag[2] ELSE request.blockTag[2]>>)
           /\ "blockTag" \in DOMAIN request =>
                /\ {block[2] : block \in getBlock(request.blockTag, node)} = {sent[3]}
                /\ Gives(request, "to") => \A value \in getAccountValue("getBalance", request.to, request.blockTag, node) :
                     value = <<"getBalance", sent[2].to, sent[3]>>

\* A signer only sends in its own name and on the network of its provider; what the
\* request leaves open is filled in, and a signer whose key the node keeps says the same.
SignerSends(signer, request, node) ==
  LET sent      == sendTransaction(signer, request, node)
      unchecked == sendUncheckedTransaction(signer, request, node)
  IN  /\ \A tx \in sent :
           /\ \A k \in DOMAIN tx :
                IF GivesValue(request, k) THEN SameWorth(tx[k], request[k])
                ELSE tx[k] = CASE k = "nonce" -> node.nonce [] k = "energyLimit" -> node.energy
                               [] k = "energyPrice" -> node.price [] k = "networkId" -> node.network [] OTHER -> EmptyTransaction[k]
           /\ tx.networkId = node.network
           /\ TransactionOf(tx) = tx
           /\ (\A k \in DOMAIN request : request[k] # NoText /\ (k = "type" /\ Gives(request, k) => request[k][2] >= 0)) => unchecked # {}
      /\ \A rpc \in unchecked \cup signUncheckedTransaction(signer, request) : rpc.from = Lower(signer)
      /\ \A rpc \in unchecked, tx \in sent : \A k \in DOMAIN tx :
           RpcName(k) \in DOMAIN rpc => SameWorth(rpc[RpcName(k)], tx[k])

\* A filter reaches the node with its addresses and topics, in one letter case; one of a
\* block by its hash has no other blocks.  It is the same filter again, unless addresses
\* in both letter cases were sorted before they were made lower case.
FilterArrives(filter, node) ==
  \A sent \in getLogs(filter, node) :
    LET got == sent[2]
    IN  /\ ("address" \in DOMAIN got) = (Gives(filter, "address") /\ filter.address # <<>>)
        /\ "address" \in DOMAIN got =>
             /\ ToSet(got.address) = {Lower(<<"address", filter.address[i][2], "lower">>) : i \in DOMAIN filter.address}
             /\ Len(got.address) = Len(filter.address)
        /\ "topics" \in DOMAIN got => \A i \in DOMAIN filter.topics :
             IF filter.topics[i][1] = "many"
             THEN /\ {t[2] : t \in ToSet(got.topics[i][2])} = {t[2] : t \in ToSet(filter.topics[i][2])}
                  /\ \A j, k \in DOMAIN got.topics[i][2] : j < k => got.topics[i][2][j][2] < got.topics[i][2][k][2]
             ELSE got.topics[i] = NullValue \/ SameWorth(got.topics[i], filter.topics[i])
        /\ "blockHash" \in DOMAIN got => {"fromBlock", "toBlock"} \cap DOMAIN got = {}
        /\ LET again   == [k \in DOMAIN got \ {"fromBlock", "toBlock"} |-> got[k]]
               OneCase == Gives(filter, "address") => \A i, j \in DOMAIN filter.address : filter.address[i][3] = filter.address[j][3]
           IN  OneCase => getFilter(again, node) = {again}

\* A call is answered by the first answer that is no lookup, if each lookup before it
\* was served and there were few enough.
CallFollowed(answers) ==
  LET At(n)     == answers[IF n > Len(answers) THEN Len(answers) ELSE n]
      Served(n) == /\ At(n).is = "lookup" /\ At(n).good
                   /\ \E i \in DOMAIN At(n).servers : At(n).servers[i] = "data" /\ \A j \in 1 .. i : At(n).servers[j] # "4xx"
  IN  /\ followCall(answers, TRUE, 0) = {n \in 0 .. MaxRedirects - 1 : At(n + 1).is = "result" /\ \A i \in 1 .. n : Served(i)}
      /\ \A latest \in BOOLEAN : followCall(answers, latest, -1) = {n \in {-1} : At(1).is = "result"}
      /\ followCall(answers, FALSE, 0) = {n \in {0} : At(1).is = "result"}

-----------------------------------------------------------------------------
NoField == <<"undefined">>
At(answer, key) == IF key \in DOMAIN answer THEN answer[key] ELSE NoField
IsNone(v) == v \in {NullValue, NoField}

\* A format and what it makes of nothing, if it takes nothing.
Must(is) == [is |-> is, none |-> {}]
May(is, none) == [is |-> is, none |-> {none}]
Listed(v, FormatItem(_)) ==
  IF v[1] # "list" \/ \E i \in DOMAIN v[2] : FormatItem(v[2][i]) = {} THEN {}
  ELSE {<<"list", [i \in DOMAIN v[2] |-> CHOOSE item \in FormatItem(v[2][i]) : TRUE]>>}
Formatting(is, v) ==
  CASE is = "hash"    -> {h \in {v} : h[1] = "hash"}
    [] is = "hashes"  -> Listed(v, LAMBDA h : {i \in {h} : i[1] = "hash"})
    [] is = "data"    -> {d \in {v} : d[1] = "data" /\ d[3] # "odd"}
    [] is = "hexlify" -> Hexlified(v)
    [] is = "number"  -> AsNumber(v)
    [] is = "bigint"  -> AsBigInt(v)
    [] is = "address" -> {a \in {v} : a[1] = "address"}
    [] is = "boolean" -> {<<"boolean", b>> : b \in {b \in BOOLEAN : v \in {<<"boolean", b>>, <<"text", ToString(b)>>}}}
    [] is = "type"    -> IF v \in {<<"text", "0x">>, NullValue, NoField} THEN {<<"number", 0>>} ELSE AsNumber(v)

\* object: a field may have another name in the answer; what is undefined is left out.
NameOf(key, names, answer) ==
  IF key \in DOMAIN names /\ key \notin DOMAIN answer /\ names[key] \in DOMAIN answer THEN names[key] ELSE key
Formatted(formats, names, answer) ==
  LET FormatOf(k) == LET v == At(answer, NameOf(k, names, answer))
                     IN  IF IsNone(v) /\ formats[k].none # {} THEN formats[k].none ELSE Formatting(formats[k].is, v)
      Kept(got)   == [k \in {k \in DOMAIN got : got[k] # NoField} |-> got[k]]
  IN  {Kept(got) : got \in Each(DOMAIN formats, FormatOf)}

ReceiptLogFormats == [transactionIndex |-> Must("number"), blockNumber |-> Must("number"), transactionHash |-> Must("hash"),
  address |-> Must("address"), topics |-> Must("hashes"), data |-> Must("data"), index |-> Must("number"), blockHash |-> Must("hash")]
LogFormats == [removed |-> May("boolean", <<"boolean", FALSE>>)] @@ ReceiptLogFormats
LogNames == [index |-> "logIndex"]
formatLog(answer) == Formatted(LogFormats, LogNames, answer)
formatReceiptLog(answer) == Formatted(ReceiptLogFormats, LogNames, answer)

ReceiptFormats == [to |-> May("address", NullValue), from |-> May("address", NullValue), contractAddress |-> May("address", NullValue),
  index |-> Must("number"), root |-> May("hexlify", NoField), energyUsed |-> Must("bigint"), logsBloom |-> May("data", NoField),
  blockHash |-> Must("hash"), hash |-> Must("hash"), blockNumber |-> Must("number"), cumulativeEnergyUsed |-> Must("bigint"),
  effectiveEnergyPrice |-> May("bigint", NoField), status |-> May("number", NoField), type |-> May("number", <<"number", 0>>)]
ReceiptNames == [effectiveEnergyPrice |-> "energyPrice", hash |-> "transactionHash", index |-> "transactionIndex"]
formatTransactionReceipt(answer) ==
  {[logs |-> logs[2]] @@ receipt : receipt \in Formatted(ReceiptFormats, ReceiptNames, answer),
                                   logs \in Listed(At(answer, "logs"), formatReceiptLog)}

TransactionFormats == [hash |-> Must("hash"), type |-> Must("type"), blockHash |-> May("hash", NullValue),
  blockNumber |-> May("number", NullValue), transactionIndex |-> May("number", NullValue), from |-> Must("address"),
  maxFeePerEnergy |-> May("bigint", NoField), energyLimit |-> Must("bigint"), to |-> May("address", NullValue), value |-> Must("bigint"),
  nonce |-> Must("number"), data |-> Must("data"), creates |-> May("address", NullValue), networkId |-> May("bigint", NullValue)]
TransactionNames == [data |-> "input", energyLimit |-> "energy"]
ZeroHash == <<"hash", 0>>
\* getCreateAddress gives the sender; without a signature the answer stands for it.
formatTransactionResponse(answer) ==
  {[signature |-> IF IsNone(At(answer, "signature")) THEN <<"answer">> ELSE answer.signature] @@
   [tx EXCEPT !.creates = IF tx.to = NullValue /\ @ = NullValue THEN tx.from ELSE @,
              !.networkId = IF @ = NullValue /\ IsNone(At(answer, "signature")) /\ ~IsNone(At(answer, "legacynetworkId"))
                            THEN answer.legacynetworkId ELSE @,
              !.blockHash = IF @ = ZeroHash THEN NullValue ELSE @] : tx \in Formatted(TransactionFormats, TransactionNames, answer)}

BlockFormats == [hash |-> May("hash", NoField), parentHash |-> Must("hash"), number |-> Must("number"), timestamp |-> Must("number"),
  nonce |-> May("data", NoField), difficulty |-> Must("bigint"), energyLimit |-> Must("bigint"), energyUsed |-> Must("bigint"),
  miner |-> May("address", NoField), extraData |-> Must("data"), baseFeePerEnergy |-> May("bigint", NoField)]
\* The transactions of an answer are hashes, or answers themselves.
formatBlock(answer) ==
  LET FormatEach(tx) == IF tx[1] = "hash" THEN {tx} ELSE {<<"tx", got>> : got \in formatTransactionResponse(tx[2])}
  IN  {[transactions |-> txs[2]] @@ block : block \in Formatted(BlockFormats, <<>>, answer), txs \in Listed(At(answer, "transactions"), FormatEach)}

-----------------------------------------------------------------------------
\* What is given: a field that was not read is undefined, or null.
OrNull(v) == IF v = NoField THEN NullValue ELSE v
NoStart == -1
TransactionResponse(tx) ==
  [k \in {"hash", "index", "from", "energyLimit", "nonce", "data", "value", "energyPrice", "networkId", "signature"} |-> At(tx, k)] @@
  [k \in {"blockNumber", "blockHash", "to"} |-> OrNull(At(tx, k))] @@ [startBlock |-> NoStart]
replaceableTransaction(tx, startBlock) == IF startBlock < 0 THEN {} ELSE {[TransactionResponse(tx) EXCEPT !.startBlock = startBlock]}
isMined(tx) == tx.blockHash # NullValue

ProvidedLog(log) == [k \in DOMAIN LogFormats |-> At(log, k)]
\* A price of zero is as good as none.
TransactionReceipt(receipt) ==
  [k \in {"to", "from", "contractAddress", "hash", "index", "blockHash", "blockNumber", "logsBloom", "energyUsed", "cumulativeEnergyUsed",
          "status", "root"} |-> At(receipt, k)] @@
  [logs |-> [i \in DOMAIN receipt.logs |-> ProvidedLog(receipt.logs[i])],
   energyPrice |-> IF At(receipt, "effectiveEnergyPrice") \in {NoField, <<"bigint", 0>>} THEN NoField ELSE receipt.effectiveEnergyPrice]
fee(receipt) == IF receipt.energyPrice = NoField THEN {} ELSE {receipt.energyUsed[2] * receipt.energyPrice[2]}

\* getTransactionReceipt looks the price up in the transaction where the receipt has none.
receiptOf(answer, txAnswers) ==
  LET priced == IF ~IsNone(At(answer, "energyPrice")) \/ ~IsNone(At(answer, "effectiveEnergyPrice")) THEN {answer}
                ELSE {With(answer, "effectiveEnergyPrice", At(tx, "energyPrice")) : tx \in txAnswers}
  IN  {TransactionReceipt(r) : r \in UNION {formatTransactionReceipt(a) : a \in priced}}

Block(block) ==
  [k \in {"number", "timestamp", "parentHash", "nonce", "difficulty", "energyLimit", "energyUsed", "miner", "extraData"} |-> At(block, k)] @@
  [k \in {"hash", "baseFeePerEnergy"} |-> OrNull(At(block, k))] @@
  [txs |-> [i \in DOMAIN block.transactions |->
     IF block.transactions[i][1] = "hash" THEN block.transactions[i] ELSE <<"tx", TransactionResponse(block.transactions[i][2])>>]]
HashOf(tx) == IF tx[1] = "hash" THEN tx ELSE tx[2].hash
transactions(block) == [i \in DOMAIN block.txs |-> HashOf(block.txs[i])]
\* An index counts from 0.  A hash finds itself, or a transaction that has another.
blockTransaction(block, asked) ==
  LET Matches(tx) == IF tx[1] = "hash" THEN tx = asked ELSE tx[2].hash # asked
      found == IF asked[1] = "number" THEN DOMAIN block.txs \cap {asked[2] + 1} ELSE {i \in DOMAIN block.txs : Matches(block.txs[i])}
  IN  {block.txs[i] : i \in {i \in found : \A j \in found : i <= j}}
prefetchedTransactions(block) == IF block.txs # <<>> /\ block.txs[1][1] = "hash" THEN {} ELSE {block.txs}
getPrefetchedTransaction(block, hash) ==
  UNION {{txs[i] : i \in {i \in DOMAIN txs : HashOf(txs[i]) = hash /\ \A j \in 1 .. i - 1 : HashOf(txs[j]) # hash}} : txs \in prefetchedTransactions(block)}

-----------------------------------------------------------------------------
\* A field is given with the worth it has in the answer, under whichever name.
GivenAs(seenTx, answer, key, names) ==
  LET v == At(answer, NameOf(key, names, answer)) IN ~IsNone(v) => SameWorth(seenTx[key], v)

\* A transaction is read as it is, whatever its fields are called, but for its index and
\* its price; what was read reads as the same again, and so does one to wait for.
TransactionRead(answer) ==
  LET Renamed(key, name) == [k \in (DOMAIN answer \ {key}) \cup {name} |-> IF k = name THEN answer[key] ELSE answer[k]]
  IN  \A tx \in formatTransactionResponse(answer) :
        LET seenTx == TransactionResponse(tx)
        IN  /\ \A k \in DOMAIN seenTx \ {"index", "energyPrice", "startBlock", "signature", "blockHash"} : GivenAs(seenTx, answer, k, TransactionNames)
            /\ {k \in DOMAIN seenTx \ {"startBlock"} : seenTx[k] = NoField} = {"index", "energyPrice"}
            /\ isMined(seenTx) = (At(answer, "blockHash") \notin {NullValue, NoField, ZeroHash})
            /\ GivenAs(tx, answer, "creates", <<>>) /\ (tx.creates # NullValue) = (seenTx.to = NullValue \/ ~IsNone(At(answer, "creates")))
            /\ formatTransactionResponse(tx) # {}
            /\ \A again \in formatTransactionResponse(tx) : (again.networkId = tx.networkId \/ SameWorth(again.networkId, tx.networkId)) /\ again = [tx EXCEPT !.networkId = again.networkId]
            /\ {"data", "energyLimit"} \subseteq DOMAIN answer =>
                 {formatTransactionResponse(Renamed("data", "input")), formatTransactionResponse(Renamed("energyLimit", "energy"))} = {{tx}}
            /\ \A start \in 0 .. 1 : replaceableTransaction(seenTx, start) = {[seenTx EXCEPT !.startBlock = start]}

\* A transaction that was sent is what its signer is given.
SentIsSeen(signer, request, node) ==
  \A tx \in sendTransaction(signer, request, node) :
    LET seen == formatTransactionResponse([hash |-> <<"hash", 1>>, from |-> signer] @@ tx)
    IN  /\ seen # {}
        /\ \A got \in seen : \A k \in DOMAIN tx \ {"energyPrice"} : TransactionResponse(got)[k] = tx[k]

\* A log is read as it is; one of a receipt is never known to be removed.
LogRead(answer) ==
  /\ (formatLog(answer) = {}) = (formatReceiptLog(answer) = {} \/ ~(At(answer, "removed") \in {<<"text", "TRUE">>, <<"text", "FALSE">>} \/ IsNone(At(answer, "removed"))
                                                                      \/ At(answer, "removed")[1] = "boolean"))
  /\ \A log \in formatLog(answer) :
       /\ formatLog(log) = {log} /\ formatReceiptLog(answer) = {[k \in DOMAIN log \ {"removed"} |-> log[k]]}
       /\ \A k \in DOMAIN log \ {"removed"} : GivenAs(log, answer, k, LogNames)
       /\ log.removed[2] = (~IsNone(At(answer, "removed")) /\ answer.removed \in {<<"boolean", TRUE>>, <<"text", "TRUE">>})
  /\ \A log \in formatReceiptLog(answer) : ProvidedLog(log).removed = NoField

\* A receipt has the price of the answer, or of the transaction; it has none, and no fee,
\* where that is zero or is missing under the one name and is there under the other.
ReceiptRead(answer, txAnswers) ==
  LET effective == At(answer, "effectiveEnergyPrice")
      price     == At(answer, "energyPrice")
      ofTx      == {At(tx, "energyPrice") : tx \in txAnswers}
      unknown   == effective = NullValue /\ "effectiveEnergyPrice" \in DOMAIN answer /\ ~IsNone(price)
      expected  == IF ~IsNone(effective) THEN {effective} ELSE IF ~IsNone(price) THEN {price} ELSE ofTx
  IN  /\ expected = {} => receiptOf(answer, txAnswers) = {}
      /\ \A receipt \in receiptOf(answer, txAnswers) :
           /\ (fee(receipt) = {}) = (unknown \/ \E p \in expected : IsNone(p) \/ p[2] = 0)
           /\ \A f \in fee(receipt) : \E p \in expected : f = p[2] * answer.energyUsed[2]
           /\ \A k \in DOMAIN receipt \ {"logs", "energyPrice"} : GivenAs(receipt, answer, k, ReceiptNames)
           /\ \A i \in DOMAIN answer.logs[2] : \A k \in DOMAIN ReceiptLogFormats \ {"topics"} : GivenAs(receipt.logs[i], answer.logs[2][i], k, LogNames)

\* The transactions of a block are found by their index, and by their hash if they are
\* hashes or are asked for as prefetched; else another one is found.
BlockRead(answer) ==
  \A read \in formatBlock(answer) :
    LET block    == Block(read)
        hashes   == transactions(block)
        prefetched == \A i \in DOMAIN block.txs : block.txs[i][1] = "tx"
        others(i) == {j \in DOMAIN hashes : hashes[j] # hashes[i]}
    IN  /\ \A k \in DOMAIN block \ {"txs"} : GivenAs(block, answer, k, <<>>)
        /\ hashes = [i \in DOMAIN answer.transactions[2] |-> LET tx == answer.transactions[2][i] IN IF tx[1] = "hash" THEN tx ELSE tx[2].hash]
        /\ \A i \in 0 .. Len(hashes) : blockTransaction(block, <<"number", i>>) = {block.txs[j] : j \in {i + 1} \cap DOMAIN hashes}
        /\ prefetched => \A i \in DOMAIN hashes :
             /\ getPrefetchedTransaction(block, hashes[i]) = {block.txs[CHOOSE j \in 1 .. i : hashes[j] = hashes[i] /\ \A k \in 1 .. j - 1 : hashes[k] # hashes[i]]}
             /\ blockTransaction(block, hashes[i]) = {block.txs[j] : j \in {j \in others(i) : \A k \in others(i) : j <= k}}
        /\ (hashes # <<>> /\ ~\E i \in DOMAIN hashes : block.txs[i][1] = "tx") => \A i \in DOMAIN hashes :
             prefetchedTransactions(block) = {} /\ blockTransaction(block, hashes[i]) = {hashes[i]}
=============================================================================
