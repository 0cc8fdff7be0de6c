--------------------------- MODULE TypedDataValues ---------------------------
(***************************************************************************)
(* What TypedDataEncoder makes of values (hash/typed-data.ts): the hash    *)
(* that is signed, the payload that a node is asked to sign, and the names *)
(* that are looked up for both.  A struct is a tuple whose size stands for *)
(* its name; a hash is the term of what is hashed.  An operator returns    *)
(* the set of what its function returns, empty when it throws.             *)
(***************************************************************************)
EXTENDS AbiCoding, FiniteSets

Struct(name, fields) == [AbiTuple(fields) EXCEPT !.size = name]
sha256(term) == <<"sha256", term>>
BytesTerm(bytes) == <<"bytes", bytes>>
TypedWord(written) == IF written.ok THEN {<<"word", written.bytes>>} ELSE {}
Concat(terms) == <<"words", terms>>

getBaseEncoder(type, value) ==
  CASE type.kind \in {"uint", "int"} -> TypedWord(EncodeNumber(type, value.num))
    [] type.kind = "fixed" -> TypedWord(IF Len(value.data) = type.size THEN writeBytes(value.data) ELSE WriteFault)
    [] type.kind = "address" -> IF value.is = "number" THEN TypedWord(EncodeNumber(type, value.num)) ELSE {}
    [] type.kind = "bool"   -> TypedWord(writeValue(IF value.num = 0 THEN 0 ELSE 1))
    [] type.kind = "bytes"  -> {sha256(BytesTerm(value.data))}
    [] type.kind = "string" -> LET text == Utf8Encode(value.data, 1) IN IF text.ok THEN {sha256(BytesTerm(text.units))} ELSE {}

\* A struct in an array or in a struct is hashed.
HashedStruct(type, term) == IF type.kind = "tuple" THEN sha256(term) ELSE term
Lengths(type, value) == type.kind = "array" /\ type.size # AnyLength => Len(value.items) = type.size
Childs(type, value) == [i \in DOMAIN value.items |-> IF type.kind = "array" THEN type.of[1] ELSE type.of[i]]

RECURSIVE encodeTyped(_, _)
encodeTyped(type, value) ==
  LET of    == Childs(type, value)
      each  == [i \in DOMAIN of |-> encodeTyped(of[i], value.items[i])]
      terms == [i \in DOMAIN of |-> HashedStruct(of[i], CHOOSE term \in each[i] : TRUE)]
  IN  IF type.kind \notin {"array", "tuple"} THEN getBaseEncoder(type, value)
      ELSE IF ~Lengths(type, value) \/ \E i \in DOMAIN of : each[i] = {} THEN {}
      ELSE IF type.kind = "array" THEN {sha256(Concat(terms))}
      ELSE {Concat(<<sha256(<<"type", type>>)>> \o terms)}
hashStruct(type, value) == {sha256(term) : term \in encodeTyped(type, value)}

-----------------------------------------------------------------------------
\* A domain is a sequence of keys, each with a value; an unknown key has no type.
Null == Deferred
Domain32 == Simple("fixed", WordSize)
domainFieldTypes(address) ==
  [name |-> Simple("string", 0), version |-> Simple("string", 0), networkId |-> Simple("uint", WordSize),
   verifyingContract |-> address, salt |-> Domain32]
domainFieldNames == <<"name", "version", "networkId", "verifyingContract", "salt">>
KnownKeys == ToSet(domainFieldNames)

GivenFields(domain) == SelectSeq(domain, LAMBDA field : field.value # Null)
FieldOf(domain, name) == domain[CHOOSE i \in DOMAIN domain : domain[i].key = name].value
Keys(domain) == {domain[i].key : i \in DOMAIN domain}
domainFields(domain) == SelectSeq(domainFieldNames, LAMBDA name : name \in Keys(GivenFields(domain)))
hashDomain(domain, address) ==
  IF ~(Keys(GivenFields(domain)) \subseteq KnownKeys) THEN {}
  ELSE LET fields == domainFields(domain)
       IN  hashStruct(Struct("EIP712Domain", [i \in DOMAIN fields |-> domainFieldTypes(address)[fields[i]]]),
                      Items([i \in DOMAIN fields |-> FieldOf(domain, fields[i])]))

TypedHash(domain, address, type, value) ==
  {sha256(<<"1901", d, v>>) : d \in hashDomain(domain, address), v \in hashStruct(type, value)}

-----------------------------------------------------------------------------
\* _visit: what the callback makes of the values that have no components.
RECURSIVE _visit(_, _, _)
_visit(type, value, callback) ==
  LET of   == Childs(type, value)
      each == [i \in DOMAIN of |-> _visit(of[i], value.items[i], callback)]
  IN  IF type.kind \notin {"array", "tuple"} THEN IF type.kind \in DOMAIN callback THEN callback[type.kind][value] ELSE {value}
      ELSE IF ~Lengths(type, value) \/ \E i \in DOMAIN of : each[i] = {} THEN {}
      ELSE {Items([i \in DOMAIN of |-> CHOOSE v \in each[i] : TRUE])}

\* Every address is looked up, for one has more bytes than the twenty that would spare it.
RECURSIVE AddressesIn(_, _)
AddressesIn(type, value) ==
  IF type.kind = "address" THEN {value}
  ELSE UNION {AddressesIn(Childs(type, value)[i], value.items[i]) : i \in DOMAIN value.items}
Contracts(domain) == {FieldOf(domain, key) : key \in {"verifyingContract"} \cap Keys(domain)}
ensCache(domain, type, value) == Contracts(GivenFields(domain)) \cup AddressesIn(type, value)

resolveNames(domain, type, value, names) ==
  IF \E name \in ensCache(domain, type, value) : names[name] = {} THEN {}
  ELSE {[domain |-> [i \in DOMAIN GivenFields(domain) |->
                       IF GivenFields(domain)[i].key # "verifyingContract" THEN GivenFields(domain)[i]
                       ELSE [key |-> "verifyingContract", value |-> CHOOSE a \in names[GivenFields(domain)[i].value] : TRUE]],
         value  |-> v] : v \in _visit(type, value, [address |-> names])}

\* A wallet only takes addresses, and only if it has a provider.
WalletNames(values, connected) ==
  [v \in values |-> IF connected /\ v.is = "number" THEN {v} ELSE {}]
signTypedData(domain, address, type, value, connected) ==
  UNION {TypedHash(resolved.domain, address, type, resolved.value) :
           resolved \in resolveNames(domain, type, value, WalletNames(ensCache(domain, type, value), connected))}

domainChecks(key, value, address) ==
  CASE key \in {"name", "version"} -> value.is = "data"
    [] key = "networkId" -> value.num >= 0
    [] key = "verifyingContract" -> value.is = "number" /\ EncodeNumber(address, value.num).ok
    [] key = "salt" -> Len(value.data) = WordSize
    [] OTHER -> TRUE

getPayload(domain, address, type, value) ==
  IF hashDomain(domain, address) = {} \/ encodeTyped(type, value) = {} THEN {}
  ELSE {[domain |-> [i \in DOMAIN domainFields(domain) |->
                       [key |-> domainFields(domain)[i], value |-> FieldOf(domain, domainFields(domain)[i])]],
         message |-> message] :
          message \in {v \in _visit(type, value, [bool |-> [v \in {Num(n) : n \in 0 .. 2} |-> {Num(IF v.num = 0 THEN 0 ELSE 1)}]]) :
                         \A key \in Keys(GivenFields(domain)) : domainChecks(key, FieldOf(domain, key), address)}}

-----------------------------------------------------------------------------
\* Two values are signed alike only if the ABI writes them alike, under types of the same
\* name; the payload says what is signed; the order of the domain does not matter, and its
\* nulls are as nothing; and with the names known, what is signed is their addresses.
SignedAlike(domain, address, type, value, otherType, other) ==
  LET this == TypedHash(domain, address, type, value)
      that == TypedHash(domain, address, otherType, other)
      Plainly(v) == IF \A a \in AddressesIn(type, v) : a.is = "number" THEN AbiEncoded(type, v) ELSE WriteFault
  IN  /\ (encodeTyped(type, value) # {}) = Plainly(value).ok
      /\ this # {} /\ this = that => type = otherType /\ Plainly(value) = Plainly(other)
      /\ type = otherType /\ Plainly(value) = Plainly(other) => this = that
PayloadSays(domain, address, type, value) ==
  LET payload == getPayload(domain, address, type, value)
  IN  /\ (payload = {}) = (TypedHash(domain, address, type, value) = {})
      /\ \A p \in payload : TypedHash(p.domain, address, type, p.message) = TypedHash(domain, address, type, value)
NamesResolved(domain, address, type, value, names) ==
  \A resolved \in resolveNames(domain, type, value, names) :
    /\ \A a \in ensCache(resolved.domain, type, resolved.value) : a.is = "number"
    /\ ensCache(domain, type, value) \subseteq {Num(n) : n \in 0 .. 255} =>
         TypedHash(resolved.domain, address, type, resolved.value) = TypedHash(domain, address, type, value)
TypedDataComesBack(domain, address, type, value, otherType, other, names) ==
  /\ SignedAlike(domain, address, type, value, otherType, other)
  /\ PayloadSays(domain, address, type, value)
  /\ NamesResolved(domain, address, type, value, names)
  /\ hashDomain(Reverse(domain), address) = hashDomain(domain, address)
  /\ hashDomain(GivenFields(domain), address) = hashDomain(domain, address)
  /\ \A connected \in BOOLEAN :
       signTypedData(domain, address, type, value, connected) =
         IF ~connected /\ ensCache(domain, type, value) # {} THEN {} ELSE TypedHash(domain, address, type, value)
=============================================================================
