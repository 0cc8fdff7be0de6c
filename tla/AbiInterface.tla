---------------------------- MODULE AbiInterface -----------------------------
(***************************************************************************)
(* Interface (abi/interface.ts) and the methods and filters that a         *)
(* contract makes of it (contract/contract.ts).  A member of an interface  *)
(* carries a number in place of the hash of its signature; hashes do not   *)
(* collide, and a hash or a selector is no byte that data contains.        *)
(***************************************************************************)
EXTENDS AbiCoding, FiniteSetsExt

Input(type, indexed) == [type |-> type, indexed |-> indexed]
Member(name, inputs, signature, anonymous) ==
  [name |-> name, inputs |-> inputs, signature |-> signature, anonymous |-> anonymous]
TypesOf(inputs) == [i \in DOMAIN inputs |-> inputs[i].type]

Hash(bytes) == 100000 + FoldLeft(LAMBDA n, b : n * 257 + b + 1, 0, bytes)
HashWord(hash) == <<hash>> \o Zeros(WordSize - 1)

\* What is looked up: a name, a signature or a selector.
Key(is, name, signature) == [is |-> is, name |-> name, signature |-> signature]

\* An argument: a value, a Typed one, or options, which may be Typed too or set
\* what they must not.
Arg(is, type, value) == [is |-> is, type |-> type, value |-> value]
AnOption == {"options", "typed options", "bad options"}
IsTyped(arg) == arg.is \in {"typed", "typed options"}

\* The constructor keeps the first member of a signature.
Bucket(members) ==
  FoldLeft(LAMBDA kept, m : IF \E i \in DOMAIN kept : kept[i].signature = m.signature THEN kept ELSE Append(kept, m),
           <<>>, members)
Lookup(members, Matches(_)) == {Bucket(members)[i] : i \in {j \in DOMAIN Bucket(members) : Matches(Bucket(members)[j])}}
BySignature(members, signature) == Lookup(members, LAMBDA m : m.signature = signature)
Only(matching) == IF Cardinality(matching) = 1 THEN matching ELSE {}

\* #getFunction with the arguments, as the set of what it returns: nothing when
\* there is none or the name is ambiguous.
LengthFits(f, args) ==
  IF args # <<>> /\ Last(args).is = "typed options" THEN Len(f.inputs) = Len(args) - 1
  ELSE Len(f.inputs) \in {Len(args), Len(args) - 1}
TypesFit(f, args) ==
  \A j \in DOMAIN args : IsTyped(args[j]) =>
    IF j > Len(f.inputs) THEN args[j].is = "typed options"
    ELSE args[j].is = "typed" /\ args[j].type = f.inputs[j].type
LastMayBeOptions(f, args) == Len(args) # Len(f.inputs) => Last(args).is # "value"

getFunction(functions, key, args) ==
  LET named == Lookup(functions, LAMBDA f : f.name = key.name /\ LengthFits(f, args) /\ TypesFit(f, args))
  IN  IF key.is # "name" THEN BySignature(functions, key.signature)
      ELSE {f \in Only(named) : LastMayBeOptions(f, args)}

\* #getEvent, whose arguments may be fewer than the inputs; no topic can be made
\* of a Typed one.
getEvent(events, key, patterns) ==
  IF key.is # "name" THEN BySignature(events, key.signature)
  ELSE Only(Lookup(events, LAMBDA e : e.name = key.name /\ Len(e.inputs) >= Len(patterns)))

-----------------------------------------------------------------------------
\* resolveArgs and copyOverrides: what an argument is worth to a coder; any object
\* is true.
ValueOf(arg, type) ==
  CASE arg.is = "value" -> {arg.value}
    [] arg.is = "typed" -> IF arg.type = type THEN {arg.value} ELSE {}
    [] OTHER -> IF type.kind = "bool" /\ arg.is # "typed options" THEN {Num(1)} ELSE {}

Resolved(f, args) ==
  IF \E i \in DOMAIN f.inputs : ValueOf(args[i], f.inputs[i].type) = {} THEN {}
  ELSE {[i \in DOMAIN f.inputs |-> CHOOSE v \in ValueOf(args[i], f.inputs[i].type) : TRUE]}

\* A function's or an error's selector and the encoding of its values.
encodeData(member, values) ==
  LET encoded == AbiEncode(TypesOf(member.inputs), values)
  IN  IF encoded.ok THEN {<<member.signature>> \o encoded.bytes} ELSE {}

\* populateTransaction of a contract's method, as the set of what it returns.
Populated(f, args) ==
  LET n == Len(f.inputs)
  IN  IF Len(args) \notin {n, n + 1} \/ (Len(args) = n + 1 /\ Last(args).is \notin {"options", "typed options"}) THEN {}
      ELSE {[data |-> data, options |-> Len(args) = n + 1] :
              data \in UNION {encodeData(f, values) : values \in Resolved(f, args)}}
populateTransaction(functions, key, args) ==
  UNION {Populated(f, args) : f \in getFunction(functions, key, args)}

\* parseTransaction and parseError: the member that the selector names, and values.
Parsing(member, data) == [member |-> member, args |-> AbiDecode(TypesOf(member.inputs), Tail(data), FALSE)]
parseTransaction(functions, data) == {Parsing(f, data) : f \in BySignature(functions, data[1])}

BuiltinSelectors == 1 .. 2
ErrorString == Member("Error", <<Input(Simple("string", 0), FALSE)>>, 1, FALSE)
Panic == Member("Panic", <<Input(Simple("uint", WordSize), FALSE)>>, 2, FALSE)
getError(errors, selector) ==
  IF selector \in BuiltinSelectors THEN {IF selector = 1 THEN ErrorString ELSE Panic} ELSE BySignature(errors, selector)
parseError(errors, data) == {Parsing(e, data) : e \in getError(errors, data[1])}

\* makeError: why a call was reverted; anything that is neither built in nor of a
\* known selector stays unknown.
Explained(message, revert) == [message |-> message, revert |-> revert]
getBuiltinCallException(data) ==
  LET builtin == Parsing(CHOOSE e \in getError(<<>>, data[1]) : TRUE, data)
  IN  IF data = <<>> THEN Explained("no data", {})
      ELSE IF Len(data) % WordSize # 1 THEN Explained("invalid length", {})
      ELSE IF data[1] \notin BuiltinSelectors THEN Explained("unknown", {})
      ELSE IF builtin.args.ok /\ Deferred \notin {builtin.args.value.items[1]} THEN Explained("builtin", {builtin})
      ELSE Explained("undecodable", {})
makeError(errors, data) ==
  LET first == getBuiltinCallException(data)
      found == parseError(errors, data)
  IN  IF first.message # "unknown" \/ found = {} THEN first
      ELSE IF \A p \in found : p.args.ok THEN Explained("custom", found) ELSE Explained("undecodable", {})

-----------------------------------------------------------------------------
\* encodeEventLog: hashes stand for indexed strings and bytes, arrays and tuples
\* cannot be indexed.
HashedType(type) == type.kind \in {"string", "bytes"}
HashedValue(type, value) ==
  IF type.kind = "bytes" THEN Written(value.data)
  ELSE LET text == Utf8Encode(value.data, 1) IN IF text.ok THEN Written(text.units) ELSE WriteFault
LogTopic(type, value) ==
  LET hashed == HashedValue(type, value)
  IN  CASE HashedType(type) -> IF hashed.ok THEN Written(HashWord(Hash(hashed.bytes))) ELSE WriteFault
        [] type.kind \in {"array", "tuple"} -> WriteFault
        [] OTHER -> AbiEncode(<<type>>, <<value>>)

Positions(event, indexed) == SetToSortSeq({i \in DOMAIN event.inputs : event.inputs[i].indexed = indexed}, <)
Picked(positions, items) == [i \in DOMAIN positions |-> items[positions[i]]]
Signed(event) == IF event.anonymous THEN <<>> ELSE <<HashWord(event.signature)>>

encodeEventLog(event, values) ==
  LET indexed == Positions(event, TRUE)
      plain   == Positions(event, FALSE)
      topics  == [i \in DOMAIN indexed |-> LogTopic(event.inputs[indexed[i]].type, values[indexed[i]])]
      data    == AbiEncode(TypesOf(Picked(plain, event.inputs)), Picked(plain, values))
  IN  IF Len(values) # Len(event.inputs) \/ ~data.ok \/ \E i \in DOMAIN topics : ~topics[i].ok THEN {}
      ELSE {[topics |-> Signed(event) \o [i \in DOMAIN topics |-> topics[i].bytes], data |-> data.bytes]}

\* decodeEventLog, as the set of what it returns.
TopicType(type) ==
  IF HashedType(type) \/ type.kind \in {"array", "tuple"} THEN Simple("fixed", WordSize) ELSE type
decodeEventLog(event, log) ==
  LET indexed == Positions(event, TRUE)
      plain   == Positions(event, FALSE)
      topics  == IF event.anonymous THEN log.topics ELSE Tail(log.topics)
      fromTopics == AbiDecode([i \in DOMAIN indexed |-> TopicType(event.inputs[indexed[i]].type)], FlattenSeq(topics), FALSE)
      fromData   == AbiDecode(TypesOf(Picked(plain, event.inputs)), log.data, TRUE)
      At(positions, i) == CHOOSE k \in DOMAIN positions : positions[k] = i
  IN  IF (~event.anonymous /\ log.topics[1] # HashWord(event.signature)) \/ ~fromTopics.ok \/ ~fromData.ok THEN {}
      ELSE {[i \in DOMAIN event.inputs |->
               IF event.inputs[i].indexed THEN fromTopics.value.items[At(indexed, i)] ELSE fromData.value.items[At(plain, i)]]}

\* parseLog of a log with topics: the event that the first one names.
parseLog(events, log) ==
  UNION {{[event |-> e, args |-> args] : args \in decodeEventLog(e, log)} :
           e \in {e \in BySignature(events, log.topics[1][1]) : ~e.anonymous}}

-----------------------------------------------------------------------------
\* A pattern of a filter: nothing, or the values any of which will do.
Pattern(is, values) == [is |-> is, values |-> values]

\* encodeTopic: bytes of a fixed number are padded like a number.
Padded(bytes) == IF Len(bytes) <= WordSize THEN Written(Zeros(WordSize - Len(bytes)) \o bytes) ELSE WriteFault
encodeTopic(type, value) ==
  CASE HashedType(type)            -> LogTopic(type, value)
    [] type.kind = "fixed"         -> Padded(value.data)
    [] type.kind = "address"       -> AbiEncode(<<type>>, <<value>>)
    [] type.kind = "bool"          -> writeValue(value.num)
    [] type.kind \in {"int", "uint"} -> IF value.num >= 0 THEN writeValue(value.num) ELSE WriteFault

\* What an indexed input adds: a set of topics; several addresses are not resolved.
TopicSet(type, pattern) ==
  LET topics == {encodeTopic(type, v) : v \in pattern.values}
  IN  IF type.kind \in {"array", "tuple"} \/ (type.kind = "address" /\ pattern.is = "many") \/ \E t \in topics : ~t.ok THEN {}
      ELSE {{t.bytes : t \in topics}}

\* PreparedTopicFilter and encodeFilterTopics; {} stands for null.
TopicsOf(event, patterns) ==
  [i \in DOMAIN patterns |->
     IF patterns[i].is = "null" THEN {{}} ELSE IF event.inputs[i].indexed THEN TopicSet(event.inputs[i].type, patterns[i]) ELSE {}]
Trimmed(topics) == SubSeq(topics, 1, Max({0} \cup {i \in DOMAIN topics : topics[i] # {}}))
encodeFilterTopics(event, patterns) ==
  LET topics  == TopicsOf(event, patterns)
      indexed == SelectSeq([i \in DOMAIN patterns |-> i], LAMBDA i : event.inputs[i].indexed)
      first   == IF event.anonymous THEN <<>> ELSE <<{HashWord(event.signature)}>>
  IN  IF Len(patterns) > Len(event.inputs) \/ \E i \in DOMAIN patterns : topics[i] = {} THEN {}
      ELSE {Trimmed(first \o [k \in DOMAIN indexed |-> CHOOSE t \in topics[indexed[k]] : TRUE])}

\* The node's: each topic that is asked for is among those of its place.
LogMatches(topics, log) ==
  /\ Len(topics) <= Len(log.topics)
  /\ \A i \in DOMAIN topics : topics[i] = {} \/ log.topics[i] \in topics[i]
=============================================================================
