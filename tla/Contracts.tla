----------------------------- MODULE Contracts ------------------------------
(***************************************************************************)
(* What a contract and a factory ask of their runner, and the logs they    *)
(* read (contract/contract.ts, factory.ts, wrappers.ts, ParamType's        *)
(* walkAsync).  AbiInterface has the coding of data; here data is what it  *)
(* is of: a function and its values.  A runner is a set, empty for null,   *)
(* of what it can do and of what its provider, if it has one, can.         *)
(***************************************************************************)
EXTENDS EventTags

Runner(can, providers) == [can |-> can, providers |-> providers]
getRunner(runners, feature) ==
  LET own == {<<"runner">> : r \in {r \in runners : feature \in r.can}}
  IN  IF own # {} THEN own ELSE {<<"provider">> : p \in {p \in UNION {r.providers : r \in runners} : feature \in p}}
getProvider(runners) == UNION {r.providers : r \in runners}
canSend(runners) == \E r \in runners : "sendTransaction" \in r.can

\* A contract with its address, if it has one: text that begins with 0x is not resolved,
\* any other has to be.  No contract is made where nobody can.
BaseContract(target, runners, deployTx) ==
  LET address == CASE target[1] \in {"hex", "address"} -> {target}
                   [] target[1] = "addressable" -> {<<"address", target[2], target[3]>> : n \in {target[2]} \ {NoAddress}}
                   [] OTHER -> {}
  IN  IF target[1] \in {"address", "text"} /\ getRunner(runners, "resolveName") = {} THEN {}
      ELSE {[target |-> target, address |-> address, runners |-> runners, deployTx |-> deployTx]}
connect(contract, runners) == BaseContract(contract.target, runners, {})

-----------------------------------------------------------------------------
\* Parameters: of a kind, an array of a length or of any (AnyCount), a tuple.
AnyCount == -1
Leaf(kind) == [is |-> "leaf", kind |-> kind]
Listing(length, child) == [is |-> "array", length |-> length, child |-> child]
Tupled(names, components) == [is |-> "tuple", names |-> names, components |-> components]

\* A leaf that is null or undefined has no `then'; a Typed one is only read at a leaf.
WalkLeaf(kind, value) ==
  LET v == IF value[1] = "typed" THEN value[3] ELSE value
  IN  IF IsNone(v) \/ (value[1] = "typed" /\ value[2] # kind) THEN {} ELSE IF kind = "address" THEN resolveAddress(v) ELSE {v}
\* A tuple may be given by its names, if it has them all.
ItemsOf(type, value) ==
  CASE value[1] = "list" -> {value[2]}
    [] type.is = "tuple" /\ value[1] = "object" /\ \A i \in DOMAIN type.names : type.names[i] # "" /\ type.names[i] \in DOMAIN value[2] ->
         {[i \in DOMAIN type.names |-> value[2][type.names[i]]]}
    [] OTHER -> {}
RECURSIVE walkAsync(_, _)
walkAsync(type, value) ==
  LET Child(i) == IF type.is = "array" THEN type.child ELSE type.components[i]
      Fits(items) == \/ type.is = "array" /\ type.length \in {AnyCount, Len(items)}
                     \/ type.is = "tuple" /\ Len(type.components) = Len(items)
  IN  IF type.is = "leaf" THEN WalkLeaf(type.kind, value)
      ELSE {<<"list", got>> : got \in UNION {Each(DOMAIN items, LAMBDA i : walkAsync(Child(i), items[i])) : items \in {items \in ItemsOf(type, value) : Fits(items)}}}
resolveArgs(inputs, args) == Each(DOMAIN inputs, LAMBDA i : walkAsync(inputs[i], args[i]))

\* Options may not be missing here, and may set `to' and `data' only where allowed.
copyOverrides(options, allowed) ==
  IF options = NoField THEN {}
  ELSE {IF "from" \in DOMAIN o THEN With(o, "from", CHOOSE a \in resolveAddress(o.from) : TRUE) ELSE o :
          o \in {o \in copyRequest(options[2]) : {"to", "data"} \cap DOMAIN o \subseteq allowed /\ ("from" \in DOMAIN o => resolveAddress(o.from) # {})}}

\* A method's transaction; args are followed by options, or by NoField for none.
OptionsOf(options) == IF options = NoField THEN {<<>>} ELSE copyOverrides(options, {})
methodTransaction(contract, method, args, options) ==
  IF Len(args) # Len(method.inputs) THEN {}
  ELSE {With(With(o, "to", to), "data", <<"call", method.name, values>>) :
          o \in OptionsOf(options), to \in contract.address, values \in resolveArgs(method.inputs, args)}
\* The fallback's: what it cannot be paid or told is refused.
NoData == <<"data", 0, "lower">>
Holds(tx, key, nothing) == key \in DOMAIN tx /\ tx[key] # nothing
fallbackTransaction(contract, takes, options) ==
  {With(o, "to", to) : to \in contract.address,
     o \in {o \in copyOverrides(options, {"data"}) :
              /\ Holds(o, "value", <<"bigint", 0>>) => takes.receive \/ takes.fallback = "payable"
              /\ Holds(o, "data", NoData) => takes.fallback # "none"}}

\* What is asked, and of whom; only the runner itself is asked to send.
Asked(runners, operation, txs) ==
  LET whom == IF operation # "sendTransaction" THEN getRunner(runners, operation) ELSE IF canSend(runners) THEN {<<"runner">>} ELSE {}
  IN  {[whom |-> w, operation |-> operation, tx |-> tx] : w \in whom, tx \in txs}
wrappedMethod(contract, method, args, options) ==
  Asked(contract.runners, IF method.constant THEN "call" ELSE "sendTransaction", methodTransaction(contract, method, args, options))
\* A transaction sent by a contract: who waits for it cannot say for how many blocks,
\* and is not told of a replacement.
ContractTransactionResponse(tx) == TransactionResponse(tx)
contractWait(tx, confirms) == [confirms |-> 1, startBlock |-> ContractTransactionResponse(tx).startBlock]

-----------------------------------------------------------------------------
\* Deployment: the address is that of getCreateAddress, the sender's.
deployTransaction(factory, args, options) ==
  IF Len(args) # Len(factory.inputs) THEN {}
  ELSE {With(o, "data", <<"deploy", factory.bytecode, values>>) : o \in OptionsOf(options), values \in resolveArgs(factory.inputs, args)}
deploySent(factory, args, options) == Asked(factory.runners, "sendTransaction", deployTransaction(factory, args, options))
deploy(factory, sender, args, options) ==
  UNION {BaseContract(sender, factory.runners, {asked.tx}) : asked \in deploySent(factory, args, options)}

\* Code at the address as blocks go by: "none", "code", or "fails".  waitForDeployment looks
\* at once and then after each block.
getDeployedCode(contract, code) == IF getProvider(contract.runners) = {} \/ contract.address = {} \/ code = "fails" THEN {} ELSE {code}
waitForDeployment(contract, codes) ==
  LET ends == {i \in DOMAIN codes : getDeployedCode(contract, codes[i]) # {"none"}}
  IN  IF contract.deployTx # {} THEN <<"waits for", contract.deployTx>>
      ELSE IF ends = {} THEN <<"waits">>
      ELSE LET first == CHOOSE i \in ends : \A j \in ends : i <= j
           IN  IF getDeployedCode(contract, codes[first]) = {} THEN <<"rejects", first>> ELSE <<"resolves", first>>

-----------------------------------------------------------------------------
\* The events of a contract: each has a topic and a number of indexed inputs.
EventNamed(events, name) == {e \in events : <<"event", e.topic>> = name}
EventHashed(events, topic) == {e \in events : <<"topic", e.topic, "lower">> = Lower(topic)}
TopicOfEvent(e) == <<"topic", e.topic, "lower">>
topicHashify(events, t) == IF t[1] = "topic" THEN {t} ELSE {TopicOfEvent(e) : e \in EventNamed(events, t)}
HashifyEntry(events, t) ==
  CASE t = NullValue -> {t}
    [] t[1] = "many" -> {<<"many", ts>> : ts \in Each(DOMAIN t[2], LAMBDA i : topicHashify(events, t[2][i]))}
    [] OTHER -> topicHashify(events, t)
NormalTopic(t) ==
  CASE t = NullValue -> t
    [] t[1] = "many" -> LET items == concisify(t[2]) IN IF Len(items) = 1 THEN items[1] ELSE <<"many", items>>
    [] OTHER -> Lower(t)
Interspersed(parts, token) == IF parts = <<>> THEN <<>> ELSE Tail(FlattenSeq([i \in DOMAIN parts |-> <<token>> \o parts[i]]))
SubTag(topics) ==
  LET Spelt(t) == IF t[1] = "many" THEN Interspersed([i \in DOMAIN t[2] |-> <<t[2][i]>>], <<"|">>) ELSE <<t>>
  IN  Interspersed([i \in DOMAIN topics |-> Spelt(topics[i])], <<"&">>)
\* getSubInfo: the event's fragment, its topics and its tag.
TopicsAsked(events, event) ==
  CASE event[1] = "topics"   -> Each(DOMAIN event[2], LAMBDA i : HashifyEntry(events, event[2][i]))
    [] event[1] = "all"      -> {<<NullValue>>}
    [] event[1] = "topic"    -> {<<event>>}
    [] event[1] = "deferred" -> {event[2]}
    [] event[1] = "event"    -> {<<TopicOfEvent(e)>> : e \in EventNamed(events, event)}
getSubInfo(events, event) ==
  LET Normal(topics) == [i \in DOMAIN topics |-> NormalTopic(topics[i])]
  IN  {[fragment |-> IF event[1] = "event" THEN EventNamed(events, event) ELSE {}, topics |-> Normal(topics), tag |-> SubTag(Normal(topics))] :
         topics \in TopicsAsked(events, event)}

\* An EventLog is made where a fragment is known; it throws when it cannot be decoded.
EventLog(fragments, log) ==
  IF fragments = {} THEN {<<"log", log>>}
  ELSE {<<"event log", log, e>> : e \in {e \in fragments : log.topics # <<>> /\ log.topics[1] = TopicOfEvent(e) /\ Len(log.topics) = e.indexed + 1}}
FragmentOf(events, log) == IF log.topics = <<>> THEN {} ELSE EventHashed(events, log.topics[1])
ReadLogs(logs, FragmentsOf(_)) == Each(DOMAIN logs, LAMBDA i : EventLog(FragmentsOf(logs[i]), logs[i]))
receiptLogs(events, logs) == ReadLogs(logs, LAMBDA log : FragmentOf(events, log))
queryRange(from, to) == [fromBlock |-> IF from = NullValue THEN <<"number", 0>> ELSE from, toBlock |-> IF to = NullValue THEN <<"tag", "latest">> ELSE to]
queryFilter(contract, events, event, from, to, logs) ==
  IF getProvider(contract.runners) = {} THEN {}
  ELSE UNION {{[filter |-> queryRange(from, to) @@ [address |-> address, topics |-> info.topics], logs |-> read] :
                 read \in ReadLogs(logs, LAMBDA log : IF info.fragment # {} THEN info.fragment ELSE FragmentOf(events, log))} :
               address \in contract.address, info \in getSubInfo(events, event)}

-----------------------------------------------------------------------------
\* A contract has the address its target resolves to, with whatever runner; where
\* nobody resolves names there is none for an address, and one for any text that is 0x-hex.
ContractMade(target, runners, others) ==
  LET made == BaseContract(target, runners, {})
  IN  /\ (made = {}) = (target[1] \in {"address", "text"} /\ getRunner(runners, "resolveName") = {})
      /\ \A c \in made : /\ target[1] # "hex" => c.address = resolveAddress(target)
                        /\ \A d \in connect(c, others) : d = [c EXCEPT !.runners = others]

\* A value can be encoded as its type.
RECURSIVE Encodable(_, _)
Encodable(type, value) ==
  CASE type.is = "leaf" -> value[1] \in (IF type.kind = "address" THEN {"address"} ELSE {"bigint"})
    [] type.is = "array" -> type.length \in {AnyCount, Len(value[2])} /\ \A i \in DOMAIN value[2] : Encodable(type.child, value[2][i])
    [] type.is = "tuple" -> Len(value[2]) = Len(type.components) /\ \A i \in DOMAIN value[2] : Encodable(type.components[i], value[2][i])
\* A call goes to the contract with the method's values and what else the options say;
\* a constant method never sends, and any other is sent by the runner itself.
CallArrives(target, runners, method, args, same, options) ==
  \A c \in BaseContract(target, runners, {}) :
    LET txs   == methodTransaction(c, method, args, options)
        asked == wrappedMethod(c, method, args, options)
        able  == IF method.constant THEN runners # {} /\ \E who \in {r.can : r \in runners} \cup getProvider(runners) : "call" \in who
                 ELSE \E r \in runners : "sendTransaction" \in r.can
    IN  /\ (asked = {}) = (txs = {} \/ ~able)
        /\ options # NoField /\ {k \in {"to", "data"} : GivesValue(options[2], k)} # {} => txs = {}
        /\ \A a \in asked :
             /\ a.tx \in txs /\ (a.operation = "sendTransaction") = ~method.constant
             /\ (a.whom = <<"provider">>) = ~(\E r \in runners : a.operation \in r.can)
        /\ \A tx \in txs :
             /\ {tx.to} = resolveAddress(target) \/ tx.to = target
             /\ tx.data[2] = method.name /\ Len(tx.data[3]) = Len(method.inputs)
             /\ resolveArgs(method.inputs, tx.data[3]) = {tx.data[3]}
             /\ \A i \in DOMAIN method.inputs : Encodable(method.inputs[i], tx.data[3][i])
             /\ \A k \in DOMAIN tx \ {"to", "data"} : options # NoField /\ (tx[k] = options[2][k] \/ SameWorth(tx[k], options[2][k]))
             /\ options # NoField => \A k \in Sendable \ {"to", "data"} : GivesValue(options[2], k) => k \in DOMAIN tx
        /\ methodTransaction(c, method, same, options) = txs

\* The fallback is only sent what the contract takes; without options it cannot be used.
FallbackArrives(target, runners, takes, options) ==
  \A c \in BaseContract(target, runners, {}) :
    /\ fallbackTransaction(c, takes, NoField) = {}
    /\ \A tx \in fallbackTransaction(c, takes, options) :
         /\ {tx.to} = c.address
         /\ ("value" \in DOMAIN tx /\ tx.value[2] # 0) => (takes.receive \/ takes.fallback = "payable")
         /\ ("data" \in DOMAIN tx /\ tx.data[2] # 0) => takes.fallback # "none"
         /\ fallbackTransaction(c, [receive |-> TRUE, fallback |-> "payable"], options) = {tx}

\* What is deployed has the sender's address, and its transaction to wait for; it is sent
\* even if the contract cannot then be made.  Without a transaction the code decides.
Deployed(factory, sender, args, options, codes) ==
  /\ \A c \in deploy(factory, sender, args, options) :
       /\ deploySent(factory, args, options) # {} /\ c.address = {sender}
       /\ waitForDeployment(c, codes)[1] = "waits for"
       /\ \A tx \in c.deployTx : /\ tx.data[2] = factory.bytecode /\ "to" \notin DOMAIN tx /\ Len(args) = Len(factory.inputs)
                                /\ \A i \in DOMAIN args : Encodable(factory.inputs[i], tx.data[3][i])
       /\ \A d \in connect(c, factory.runners) :
            LET waited == waitForDeployment(d, codes)
                unable == getProvider(factory.runners) = {}
            IN  /\ waited[1] = "rejects" <=> codes # <<>> /\ (unable \/ \E i \in DOMAIN codes : codes[i] = "fails" /\ \A j \in 1 .. i : codes[j] # "code")
                /\ waited[1] = "resolves" => codes[waited[2]] = "code" /\ \A j \in 1 .. waited[2] - 1 : codes[j] = "none"
                /\ waited[1] = "waits" => \A i \in DOMAIN codes : codes[i] = "none"
  /\ deploySent(factory, args, options) # {} => (deploy(factory, sender, args, options) = {}) = (getRunner(factory.runners, "resolveName") = {})

\* Two events of a contract are one subscription when they ask for the same topics, or for
\* none and for one of none; a topic alone is one in a list, however often.
TopicsMeant(topics) == [i \in DOMAIN topics |-> CASE topics[i] = NullValue -> {NullValue} [] topics[i][1] = "many" -> {Lower(topics[i][2][j]) : j \in DOMAIN topics[i][2]}
                                                 [] OTHER -> {Lower(topics[i])}]
EventsTagged(events, a, b) ==
  \A s \in getSubInfo(events, a), t \in getSubInfo(events, b) :
    /\ (s.tag = t.tag) = (TopicsMeant(s.topics) = TopicsMeant(t.topics) \/ {TopicsMeant(s.topics), TopicsMeant(t.topics)} = {<<>>, <<{}>>})
    /\ getSubInfo(events, <<"topics", s.topics>>) = {[s EXCEPT !.fragment = {}]}
    /\ a[1] \in {"topic", "event"} => \A one \in {<<"topics", <<a>>>>, <<"topics", <<<<"many", <<a, a>>>>>>>>} :
         getSubInfo(events, one) = {[s EXCEPT !.fragment = {}]}

\* The logs that are found come in order, those of known events decoded; one that cannot
\* be decoded hides them all, from a query as in a receipt.
LogsFound(contract, events, event, from, to, logs) ==
  LET known(log) == {e \in events : log.topics # <<>> /\ log.topics[1] = TopicOfEvent(e)}
      good(log)  == \A e \in known(log) : Len(log.topics) = e.indexed + 1
      all        == \A i \in DOMAIN logs : good(logs[i])
  IN  /\ (receiptLogs(events, logs) = {}) = ~all
      /\ \A query \in queryFilter(contract, events, event, from, to, logs) :
           /\ all /\ {query.filter.address} = contract.address
           /\ (query.filter.fromBlock = from \/ from = NullValue) /\ (query.filter.toBlock = to \/ to = NullValue)
           /\ receiptLogs(events, logs) = {query.logs}
           /\ \A i \in DOMAIN logs : query.logs[i][2] = logs[i] /\ (query.logs[i][1] = "log") = (known(logs[i]) = {})
      /\ all /\ getProvider(contract.runners) # {} /\ contract.address # {} /\ event[1] # "event" /\ getSubInfo(events, event) # {} =>
           queryFilter(contract, events, event, from, to, logs) # {}

\* Whoever waits for a contract's transaction waits for one block, and for no replacement.
ContractWaits(answer) ==
  \A tx \in formatTransactionResponse(answer), start \in 0 .. 1, confirms \in 0 .. 2 :
    \A sent \in replaceableTransaction(tx, start) : contractWait(sent, confirms) = [confirms |-> 1, startBlock |-> NoStart]
=============================================================================
