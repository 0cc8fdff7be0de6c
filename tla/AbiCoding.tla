----------------------------- MODULE AbiCoding ------------------------------
(***************************************************************************)
(* The ABI coders (abi/coders/*.ts) and AbiCoder.encode and decode.  A     *)
(* word has WordSize bytes (32 in the code), bytes are numbers.  A decoder *)
(* that overruns its data throws; any other error becomes the value of the *)
(* item it struck and is thrown when that item is looked at.               *)
(*                                                                         *)
(* On the same types and values: solidityPacked (hash/solidity.ts), which  *)
(* has no padding but in arrays, and the v of a signature, which has a     *)
(* network packed with its parity (crypto/signature.ts).                   *)
(***************************************************************************)
EXTENDS Integers, Sequences, SequencesExt, HexData

CONSTANT WordSize

\* A parameter type: of has the components of a tuple or the child of an array.
Simple(kind, size) == [kind |-> kind, size |-> size, of |-> <<>>]
AbiArray(child, length) == [kind |-> "array", size |-> length, of |-> <<child>>]
AbiTuple(components) == [kind |-> "tuple", size |-> 0, of |-> components]
AnyLength == -1

\* A value: a number, a string of bytes or code units, items, or an error.
Num(n) == [is |-> "number", num |-> n, data |-> <<>>, items |-> <<>>]
Data(data) == [is |-> "data", num |-> 0, data |-> data, items |-> <<>>]
Items(items) == [is |-> "items", num |-> 0, data |-> <<>>, items |-> items]
Deferred == [is |-> "error", num |-> 0, data |-> <<>>, items |-> <<>>]

RECURSIVE Dynamic(_)
Dynamic(type) ==
  \/ type.kind \in {"bytes", "string"}
  \/ type.kind = "array" /\ type.size = AnyLength
  \/ \E i \in DOMAIN type.of : Dynamic(type.of[i])

Written(bytes) == [ok |-> TRUE, bytes |-> bytes]
WriteFault == [ok |-> FALSE, bytes |-> <<>>]

Big(n) == [i \in 1 .. WordSize |-> (n \div 256 ^ (WordSize - i)) % 256]
writeValue(n) == IF n < 256 ^ WordSize THEN Written(Big(n)) ELSE WriteFault
writeBytes(bytes) == Written(bytes \o Zeros((- Len(bytes)) % WordSize))

\* NumberCoder.encode: a signed number fills the word with its sign.
EncodeNumber(type, n) ==
  LET limit == 256 ^ type.size
  IN  IF type.kind = "int"
      THEN IF 2 * n \in (- limit) .. limit - 1 THEN writeValue(n % 256 ^ WordSize) ELSE WriteFault
      ELSE IF n \in 0 .. limit - 1 THEN writeValue(n) ELSE WriteFault

Flat(parts) == FlattenSeq([i \in DOMAIN parts |-> parts[i].bytes])

\* pack: the static parts and the offsets of the dynamic ones, which follow.
Pack(dynamic, parts) ==
  LET heads     == [i \in DOMAIN parts |-> IF dynamic[i] THEN Written(Big(0)) ELSE parts[i]]
      tails     == [i \in DOMAIN parts |-> IF dynamic[i] THEN parts[i] ELSE Written(<<>>)]
      offset(i) == Len(Flat(heads)) + Len(Flat(SubSeq(tails, 1, i - 1)))
      filled    == [i \in DOMAIN parts |-> IF dynamic[i] THEN writeValue(offset(i)) ELSE parts[i]]
  IN  IF \A i \in DOMAIN parts : parts[i].ok /\ filled[i].ok
      THEN Written(Flat(filled) \o Flat(tails))
      ELSE WriteFault

Prepended(n, written) == IF written.ok THEN Written(writeValue(n).bytes \o written.bytes) ELSE WriteFault

RECURSIVE AbiEncoded(_, _)
AbiEncoded(type, value) ==
  LET units == Utf8Encode(value.data, 1)
      count == Len(value.items)
      of    == IF type.kind = "array" THEN [i \in 1 .. count |-> type.of[1]] ELSE type.of
      all   == Pack([i \in 1 .. count |-> Dynamic(of[i])],
                    [i \in 1 .. count |-> AbiEncoded(of[i], value.items[i])])
  IN  CASE type.kind \in {"uint", "int", "address"} -> EncodeNumber(type, value.num)
        [] type.kind = "bool"   -> writeValue(IF value.num = 0 THEN 0 ELSE 1)
        [] type.kind = "fixed"  -> IF Len(value.data) = type.size THEN writeBytes(value.data) ELSE WriteFault
        [] type.kind = "bytes"  -> Prepended(Len(value.data), writeBytes(value.data))
        [] type.kind = "string" -> IF units.ok THEN Prepended(Len(units.units), writeBytes(units.units))
                                   ELSE WriteFault
        [] type.kind = "array"  -> IF type.size = AnyLength THEN Prepended(count, all)
                                   ELSE IF type.size = count THEN all ELSE WriteFault
        [] type.kind = "tuple"  -> IF Len(of) = count THEN all ELSE WriteFault

AbiEncode(types, values) == AbiEncoded(AbiTuple(types), Items(values))

-----------------------------------------------------------------------------
Read(value, next) == [ok |-> TRUE, value |-> value, next |-> next]
Overrun(value) == [ok |-> FALSE, value |-> value, next |-> 0]

\* Reader.readBytes with `at' bytes consumed: whole words, unless loose.
readBytes(data, at, length, loose) ==
  LET aligned == ((length + WordSize - 1) \div WordSize) * WordSize
      bytes   == SubSeq(data, at + 1, at + length)
  IN  IF at + aligned <= Len(data) THEN Read(Data(bytes), at + aligned)
      ELSE IF loose /\ at + length <= Len(data) THEN Read(Data(bytes), at + length)
      ELSE Overrun(Data(<<>>))

readValue(data, at) ==
  LET word == readBytes(data, at, WordSize, FALSE)
  IN  [word EXCEPT !.value = Num(FoldLeft(LAMBDA n, b : n * 256 + b, 0, @.data))]

\* mask and fromTwos, getAddress, and the truth of a word.
Number(type, n) ==
  LET low == n % 256 ^ type.size
  IN  CASE type.kind = "uint"    -> Num(low)
        [] type.kind = "int"     -> Num(IF 2 * low < 256 ^ type.size THEN low ELSE low - 256 ^ type.size)
        [] type.kind = "bool"    -> Num(IF n = 0 THEN 0 ELSE 1)
        [] type.kind = "address" -> IF n = low THEN Num(n) ELSE Deferred

AsData(text) == IF text.ok THEN Data(text.units) ELSE Deferred
Text(bytes) == AsData(Utf8Decode(bytes, "error"))

\* A value without components; word is what stands where it begins.
DecodedLeaf(type, from, start, loose, word) ==
  CASE type.kind \in {"uint", "int", "bool", "address"} -> [word EXCEPT !.value = Number(type, @.num)]
    [] type.kind = "fixed"  -> readBytes(from, start, type.size, FALSE)
    [] type.kind = "bytes"  -> IF word.ok THEN readBytes(from, word.next, word.value.num, loose) ELSE word
    [] type.kind = "string" ->
         IF word.ok THEN [readBytes(from, word.next, word.value.num, loose) EXCEPT !.value = Text(@.data)] ELSE word

Counted(type) == type.kind = "array" /\ type.size = AnyLength

Children(type, count) ==
  IF type.kind = "tuple" THEN type.of
  ELSE [i \in 1 .. IF Counted(type) THEN count ELSE type.size |-> type.of[1]]

\* Where an item is: behind the index that stands for it, which counts from the
\* beginning of the tuple or the array (at), or here.
Place(type, data, at, here, index) ==
  IF Dynamic(type)
  THEN [ok |-> index.ok, from |-> SubSeq(data, at + index.value.num + 1, Len(data)), start |-> 0, next |-> index.next]
  ELSE [ok |-> TRUE, from |-> data, start |-> here, next |-> here]

\* The items so far and one more.
Grown(so, item) ==
  IF so.ok /\ item.ok THEN Read(Items(Append(so.value.items, item.value)), item.next) ELSE Overrun(so.value)

After(place, type, item) ==
  [item EXCEPT !.ok = @ /\ place.ok, !.next = IF Dynamic(type) THEN place.next ELSE @]

RECURSIVE Unpack(_, _, _, _), Item(_, _, _, _)
\* The decode of a coder.
Item(type, place, word, loose) ==
  IF type.kind \notin {"array", "tuple"} THEN DecodedLeaf(type, place.from, place.start, loose, word)
  ELSE IF Counted(type) /\ (~word.ok \/ word.value.num * WordSize > Len(place.from)) THEN Overrun(Items(<<>>))
  ELSE Unpack(Children(type, word.value.num), place.from, IF Counted(type) THEN word.next ELSE place.start, loose)

Placed(type, place, loose) == After(place, type, Item(type, place, readValue(place.from, place.start), loose))

Unpack(types, data, at, loose) ==
  FoldLeft(LAMBDA so, type :
             Grown(so, Placed(type, Place(type, data, at, so.next, readValue(data, so.next)), loose)),
           Read(Items(<<>>), at), types)

AbiDecode(types, data, loose) == Unpack(types, data, 0, loose)

-----------------------------------------------------------------------------
InBytes(n, size) == IF n \in 0 .. 256 ^ size - 1 THEN Written(SubSeq(Big(n), WordSize - size + 1, WordSize)) ELSE WriteFault
toTwosOf(n, size) == IF 2 * n \in (- (256 ^ size)) .. 256 ^ size - 1 THEN n % 256 ^ size ELSE -1

\* What an array holds is as wide as a word, and only that is checked.
RECURSIVE _pack(_, _, _)
_pack(type, value, isArray) ==
  LET size == IF isArray THEN WordSize ELSE type.size
      text == Utf8Encode(value.data, 1)
      each == [i \in DOMAIN value.items |-> _pack(type.of[1], value.items[i], TRUE)]
  IN  CASE type.kind \in {"address", "uint"} -> InBytes(value.num, size)
        [] type.kind = "int"    -> InBytes(toTwosOf(value.num, size), size)
        [] type.kind = "bool"   -> InBytes(IF value.num = 0 THEN 0 ELSE 1, IF isArray THEN WordSize ELSE 1)
        [] type.kind = "bytes"  -> Written(value.data)
        [] type.kind = "string" -> IF text.ok THEN Written(text.units) ELSE WriteFault
        [] type.kind = "fixed"  -> IF Len(value.data) # type.size THEN WriteFault
                                   ELSE Written(IF isArray THEN value.data \o Zeros(WordSize - type.size) ELSE value.data)
        [] type.kind = "array"  -> IF (type.size # AnyLength /\ type.size # Len(each)) \/ \E i \in DOMAIN each : ~each[i].ok
                                   THEN WriteFault ELSE Written(Flat(each))
        [] OTHER -> WriteFault

solidityPacked(types, values) ==
  LET tight == [i \in DOMAIN types |-> _pack(types[i], values[i], FALSE)]
  IN  IF Len(types) # Len(values) \/ \E i \in DOMAIN tight : ~tight[i].ok THEN WriteFault ELSE Written(Flat(tight))

-----------------------------------------------------------------------------
\* The network of a v, and the v that is 27 or 28: an operator returns the set of what its
\* function returns, empty when it throws.
getnetworkIdV(networkId, v) == networkId * 2 + 35 + v - 27
getnetworkId(v) ==
  IF v \in {27, 28} THEN {0} ELSE IF v < 35 THEN {} ELSE {(v - 35) \div 2}
getNormalizedV(v) ==
  CASE v \in {0, 27} -> {27}
    [] v \in {1, 28} -> {28}
    [] OTHER -> IF v < 35 THEN {} ELSE {IF v % 2 = 1 THEN 27 ELSE 28}

-----------------------------------------------------------------------------
\* What is packed is what the ABI coder writes without the padding and the lengths, and a
\* value alone is refused by both or by none.  An array of words is packed as it is written.
Words1 == {"uint", "int", "address", "fixed", "bool"}
PackedAgrees(type, value) ==
  LET packed == _pack(type, value, FALSE)
      abi    == AbiEncoded(type, value)
      n      == Len(packed.bytes)
      first  == CASE type.kind \in {"bytes", "string"} -> WordSize + 1
                  [] type.kind = "fixed" -> 1
                  [] OTHER -> WordSize - n + 1
  IN  IF type.kind \notin {"array", "tuple"}
      THEN packed.ok = abi.ok /\ (packed.ok => packed.bytes = SubSeq(abi.bytes, first, first + n - 1))
      ELSE /\ type.kind = "tuple" => ~packed.ok
           /\ type.kind = "array" /\ type.of[1].kind \in Words1 /\ abi.ok =>
                packed = Written(IF Counted(type) THEN SubSeq(abi.bytes, WordSize + 1, Len(abi.bytes)) ELSE abi.bytes)
PackedComesBack(types, values) ==
  LET packed == solidityPacked(types, values)
  IN  /\ \A i \in DOMAIN types : PackedAgrees(types[i], values[i])
      /\ packed.ok => \A n \in 0 .. Len(types) :
           packed.bytes = solidityPacked(SubSeq(types, 1, n), SubSeq(values, 1, n)).bytes
                            \o solidityPacked(SubSeq(types, n + 1, Len(types)), SubSeq(values, n + 1, Len(types))).bytes

\* The network and the parity come back from the v, and no two of them share one.
NetworkComesBack(networkIds) ==
  \A networkId \in networkIds, v \in {27, 28} :
    LET networkV == getnetworkIdV(networkId, v)
    IN  getnetworkId(networkV) = {networkId} /\ getNormalizedV(networkV) = {v} /\ getNormalizedV(v) = {v}
=============================================================================
