----------------------------- MODULE EventTags ------------------------------
(***************************************************************************)
(* Which subscription an event is for (getSubscription, getTag and         *)
(* #hasSub of providers/abstract-provider.ts), who serves it, and the      *)
(* events that blocks, transactions and logs name for their removal        *)
(* (providers/provider.ts).  Subscriptions are told apart by their tags.   *)
(* An event is a tuple of what it is and what it holds; an operator        *)
(* returns the set of what its function returns, empty when it throws.     *)
(***************************************************************************)
EXTENDS Requests

\* What JSON.stringify is given: a big integer is text, undefined is null.
toJson(v) == IF IsNone(v) THEN NullValue ELSE <<"decimal", v[2]>>
JsonWith(object, class, bigints) ==
  [k \in DOMAIN object |-> IF k \in bigints THEN toJson(object[k]) ELSE object[k]] @@ [_type |-> <<"text", class>>]
BlockJson(block) ==
  [transactions |-> transactions(block)] @@
  Dropping(JsonWith(block, "Block", {"baseFeePerEnergy", "difficulty", "energyLimit", "energyUsed"}), "txs")
LogJson(log) == JsonWith(log, "log", {})
TransactionJson(tx) ==
  LET json == JsonWith(tx, "TransactionReceipt", {"networkId", "energyLimit", "energyPrice", "value"})
  IN  [k \in (DOMAIN json \ {"blockNumber", "blockHash", "startBlock"}) \cup {"type"} |-> At(json, k)]

\* The events for what is removed; what has not been mined cannot be.
Orphan(is, parts) == <<"orphan", [orphan |-> is, parts |-> parts]>>
Inner(json) == <<"object", json>>
orphanedEvent(block) == {Orphan("drop-block", [k \in {"hash", "number"} |-> block[k]]) : h \in {block.hash} \ {NullValue}}
RemovedLogFields == {"transactionHash", "blockHash", "blockNumber", "address", "data", "topics", "index"}
removedEvent(log) == Orphan("drop-log", [log |-> Inner([k \in RemovedLogFields |-> log[k]])])
removedTransaction(tx) == IF isMined(tx) THEN {Orphan("drop-transaction", [tx |-> Inner(TransactionJson(tx))])} ELSE {}
reorderedEvent(tx, other) ==
  IF ~isMined(tx) \/ (other # NoField /\ ~isMined(other[2])) THEN {}
  ELSE {Orphan("reorder-transaction", [tx |-> Inner(TransactionJson(tx)), other |-> IF other = NoField THEN other ELSE Inner(TransactionJson(other[2]))])}

-----------------------------------------------------------------------------
EventNames == {"block", "pending", "debug", "error", "network"}
\* The tag spells null and undefined alike, and letters in lower case.
Tagged(v) == CASE v \in {NullValue, NoField} -> <<"text", "null">> [] v[1] \in {"address", "data"} -> Lower(v) [] OTHER -> v
getTag(parts) ==
  [k \in DOMAIN parts |-> IF parts[k][1] = "object" THEN Inner([field \in DOMAIN parts[k][2] |-> Tagged(parts[k][2][field])]) ELSE Tagged(parts[k])]
eventFilter(event) ==
  LET addresses == IF event.address = NullValue THEN {} ELSE {event.address[2][i] : i \in DOMAIN event.address[2]}
      topics    == IF event.topics = NullValue THEN <<>> ELSE event.topics[2]
  IN  IF \E a \in addresses : resolveAddress(a) = {} THEN {}
      ELSE {[topics |-> [i \in DOMAIN topics |-> CanonicalTopic(topics[i])]] @@
            [k \in {"address"} \ {k \in {"address"} : event.address = NullValue} |->
               SetToSortSeq({Lower(a) : a \in UNION {resolveAddress(a) : a \in addresses}}, SortsBefore)]}
Subscribed(type, tag, v) == [type |-> type, tag |-> <<type, tag>>, of |-> v]
getSubscription(event) ==
  CASE event[1] = "name"   -> IF event[2] \in EventNames THEN {Subscribed(event[2], "", "")} ELSE {}
    [] event[1] = "hash"   -> {Subscribed("transaction", event[2], event[2])}
    [] event[1] = "orphan" -> {Subscribed("orphan", <<event[2].orphan, getTag(event[2].parts)>>, event[2])}
    [] event[1] = "filter" -> IF event[2].address = NullValue /\ event[2].topics = NullValue THEN {}
                              ELSE {Subscribed("event", f, f) : f \in eventFilter(event[2])}
    [] OTHER               -> {}
RemovalOf(log) == Orphan("drop-log", [log |-> Inner(LogJson(log))])
\* A log that is removed is emitted for its removal instead.
emittedFor(event, log) ==
  UNION {IF sub.type = "event" /\ log.removed = <<"boolean", TRUE>> THEN getSubscription(RemovalOf(log)) ELSE {sub}
           : sub \in getSubscription(event)}

\* Who serves a subscription: an AbstractProvider, one over JSON-RPC, and one over a socket.
AbstractSubscriber(sub) ==
  CASE sub.type \in {"debug", "error", "network"} -> {<<"unmanaged">>}
    [] sub.type \in {"block", "event", "transaction", "orphan"} -> {<<"polling", sub.type>>}
    [] OTHER -> {}
DropsLog(sub) == sub.type = "orphan" /\ sub.of.orphan = "drop-log"
JsonRpcSubscriber(sub, polling) ==
  CASE sub.type = "pending" -> {<<"filter", "pending">>}
    [] sub.type = "event" /\ ~polling -> {<<"filter", "event">>}
    [] DropsLog(sub) -> {<<"unmanaged">>}
    [] OTHER -> AbstractSubscriber(sub)
SocketSubscriber(sub) ==
  CASE sub.type \in {"block", "pending", "event"} -> {<<"socket", sub.type>>}
    [] OTHER -> JsonRpcSubscriber(sub, FALSE)

-----------------------------------------------------------------------------
AddressesMeant(event) == IF event.address = NullValue THEN {NullValue}
                      ELSE {Lower(a) : a \in UNION {resolveAddress(event.address[2][i]) : i \in DOMAIN event.address[2]}}
TopicOf(t) == CASE t = NullValue -> {} [] t[1] = "many" -> {<<"one of", Lower(t[2][i])>> : i \in DOMAIN t[2]} \cup {<<"one of">>} [] OTHER -> {Lower(t)}
MeantBy(event) == <<AddressesMeant(event), IF event.topics = NullValue THEN <<>> ELSE [i \in DOMAIN event.topics[2] |-> TopicOf(event.topics[2][i])]>>

\* Two filters are one subscription when they mean the same, whatever the order, the
\* letters and the repetition of their addresses and alternatives; the filter of a
\* subscription is for that subscription.
FiltersTagged(a, b) ==
  /\ \A s \in getSubscription(<<"filter", a>>), t \in getSubscription(<<"filter", b>>) : (s.tag = t.tag) = (MeantBy(a) = MeantBy(b))
  /\ \A s \in getSubscription(<<"filter", a>>) :
       getSubscription(<<"filter", [topics |-> <<"list", s.of.topics>>,
                                    address |-> IF "address" \in DOMAIN s.of THEN <<"list", s.of.address>> ELSE NullValue]>>) = {s}
  /\ (getSubscription(<<"filter", a>>) = {}) =
       (a = [topics |-> NullValue, address |-> NullValue] \/ (a.address # NullValue /\ \E i \in DOMAIN a.address[2] : resolveAddress(a.address[2][i]) = {}))

\* Every event but that of pending transactions is served by every provider; one over
\* JSON-RPC polls no more than an AbstractProvider does.
EventServed(event) ==
  \A sub \in getSubscription(event) :
    /\ (AbstractSubscriber(sub) = {}) = (sub.type = "pending")
    /\ \A served \in {JsonRpcSubscriber(sub, polling) : polling \in BOOLEAN} \cup {SocketSubscriber(sub)} :
         served # {} /\ ((\E s \in served : s[1] = "polling") => served = AbstractSubscriber(sub))

\* The removal of a log is emitted for the log as it was emitted, with whatever filter,
\* and never for what removedEvent of that log, or of any other, subscribes to.
RemovalOfALog(a, b, event) ==
  \A log \in {ProvidedLog(l) : l \in formatLog(a)}, other \in {ProvidedLog(l) : l \in formatLog(b) \cup formatReceiptLog(b)} :
    getSubscription(event) # {} =>
      LET removal(l) == {s.tag : s \in emittedFor(event, l)}
          named(l)   == {s.tag : s \in getSubscription(removedEvent(l))}
      IN  IF log.removed # <<"boolean", TRUE>> THEN emittedFor(event, log) = getSubscription(event)
          ELSE /\ removal(log) = {s.tag : s \in getSubscription(RemovalOf(log))}
               /\ other.removed = log.removed => (removal(log) = removal(other)) = (getTag([log |-> Inner(log)]) = getTag([log |-> Inner(other)]))
               /\ removal(log) \cap (named(log) \cup named(other)) = {}

\* The events of transactions and blocks are those of what was mined, one for each.
RemovalOfMined(a, b) ==
  \A x \in formatTransactionResponse(a), y \in formatTransactionResponse(b) :
    LET tx == TransactionResponse(x)
        other == TransactionResponse(y)
        tags(events) == {s.tag : s \in UNION {getSubscription(e) : e \in events}}
        same  == getTag([tx |-> Inner(TransactionJson(tx))]) = getTag([tx |-> Inner(TransactionJson(other))])
    IN  /\ isMined(tx) = (removedTransaction(tx) # {}) /\ (isMined(tx) /\ isMined(other)) = (reorderedEvent(tx, <<"tx", other>>) # {})
        /\ isMined(tx) /\ isMined(other) =>
             /\ same = (tags(removedTransaction(tx)) = tags(removedTransaction(other)))
             /\ same = (tags(reorderedEvent(tx, <<"tx", other>>)) = tags(reorderedEvent(other, <<"tx", tx>>)))
             /\ tags(reorderedEvent(tx, <<"tx", other>>)) \cap tags(reorderedEvent(tx, NoField)) = {}
        /\ \A k \in {"hash", "from", "to", "nonce", "data", "signature"} : TransactionJson(tx)[k] = tx[k]
        /\ \A k \in {"value", "energyLimit"} : TransactionJson(tx)[k] = <<"decimal", tx[k][2]>>

\* A block can be orphaned once it has a hash, and that event is for its hash and number.
RemovalOfBlock(a, b) ==
  \A block \in {Block(read) : read \in formatBlock(a)}, other \in {Block(read) : read \in formatBlock(b)} :
    LET tags(x) == {s.tag : s \in UNION {getSubscription(e) : e \in orphanedEvent(x)}}
    IN  /\ (orphanedEvent(block) = {}) = IsNone(At(a, "hash"))
        /\ tags(block) = tags(other) <=> (block.hash = other.hash /\ (block.hash = NullValue \/ block.number = other.number))
        /\ BlockJson(block).transactions = transactions(block)
        /\ \A k \in {"difficulty", "energyLimit", "energyUsed", "baseFeePerEnergy"} :
             BlockJson(block)[k] = IF IsNone(At(a, k)) THEN NullValue ELSE <<"decimal", a[k][2]>>
=============================================================================
