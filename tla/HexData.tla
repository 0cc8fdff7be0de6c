------------------------------ MODULE HexData -------------------------------
(***************************************************************************)
(* The forms that texts, numbers and bytes take outside the program        *)
(* (utils/utf8.ts, utils/data.ts, utils/maths.ts, utils/base58.ts,         *)
(* abi/bytes32.ts), and addresses.  A string is the sequence of its UTF-16 *)
(* code units, the text of a number or of bytes that of its digits, after  *)
(* its prefix; positions count from 1.  An operator returns the set of     *)
(* what its function returns, empty when it throws.                        *)
(***************************************************************************)
EXTENDS Integers, Sequences, SequencesExt, FiniteSetsExt

Fffd == 65533                       \* the replacement character
Continues(b) == b \div 64 = 2       \* 10xx xxxx

Utf8Fault == [ok |-> FALSE, units |-> <<>>]
Utf8Ok(units) == [ok |-> TRUE, units |-> units]

\* n in `bytes' continuation bytes of six bits, behind the prefix.
SixBits(prefix, n, bytes) ==
  <<prefix + (n \div 64 ^ bytes)>> \o [j \in 1 .. bytes |-> 128 + ((n \div 64 ^ (bytes - j)) % 64)]

High(u) == u \div 1024 = 54   \* 0xd800 .. 0xdbff
Low(u) == u \div 1024 = 55    \* 0xdc00 .. 0xdfff
Pair(c, c2) == 65536 + ((c % 1024) * 1024) + (c2 % 1024)

\* toUtf8Bytes from position i on: a low surrogate without a high one is not
\* refused.
RECURSIVE Utf8Encode(_, _)
Utf8Encode(str, i) ==
  IF i > Len(str) THEN Utf8Ok(<<>>)
  ELSE LET c     == str[i]
           paired == i < Len(str) /\ Low(str[i + 1])
           width == IF High(c) THEN 2 ELSE 1
           bytes == IF c < 128 THEN <<c>>
                    ELSE IF c < 2048 THEN SixBits(192, c, 1)
                    ELSE IF High(c) THEN SixBits(240, Pair(c, str[i + 1]), 3)
                    ELSE SixBits(224, c, 2)
           rest  == Utf8Encode(str, i + width)
       IN  IF (High(c) /\ ~paired) \/ ~rest.ok THEN Utf8Fault ELSE Utf8Ok(bytes \o rest.units)

-----------------------------------------------------------------------------
\* The bytes a prefix announces, or 0.
ExtraLength(c) ==
  IF c \div 32 = 6 THEN 1 ELSE IF c \div 16 = 14 THEN 2 ELSE IF c \div 8 = 30 THEN 3 ELSE 0

\* Mutant: the mask of three bytes is that of two.
OverlongMaskCopied(extra) == CASE extra = 1 -> 127 [] extra = 2 -> 127 [] extra = 3 -> 65535

\* The largest code point that takes fewer bytes.
OverlongMask(extra) == CASE extra = 1 -> 127 [] extra = 2 -> 2047 [] extra = 3 -> 65535

\* The continuation bytes at i, until one is missing.
RunFrom(bytes, i) ==
  LET ends == {o \in i .. Len(bytes) : ~Continues(bytes[o])}
  IN  (IF ends = {} THEN Len(bytes) + 1 ELSE Min(ends)) - i

\* onError: what the error function adds to the output and where it goes on,
\* or a fault under "error".
Recover(mode, reason, offset, next, bytes, bad) ==
  LET skipped == CASE reason \in {"BAD_PREFIX", "UNEXPECTED_CONTINUE"} -> RunFrom(bytes, offset + 1)
                   [] reason = "OVERRUN" -> Len(bytes) - offset
                   [] OTHER -> 0
  IN  IF mode = "error" THEN [ok |-> FALSE, push |-> <<>>, next |-> next]
      ELSE IF mode = "replace" /\ reason = "OVERLONG" THEN [ok |-> TRUE, push |-> <<bad>>, next |-> next]
      ELSE [ok |-> TRUE, push |-> IF mode = "replace" THEN <<Fffd>> ELSE <<>>, next |-> next + skipped]

\* What is wrong with the character at i of extra more bytes, which is worth res.
Reason(bytes, i, extra, missing, res) ==
  IF bytes[i] < 128 THEN "none"
  ELSE IF extra = 0 THEN IF Continues(bytes[i]) THEN "UNEXPECTED_CONTINUE" ELSE "BAD_PREFIX"
  ELSE IF i + extra > Len(bytes) THEN "OVERRUN"
  ELSE IF missing # {} THEN "MISSING_CONTINUE"
  ELSE IF res > 1114111 THEN "OUT_OF_RANGE"
  ELSE IF res \in 55296 .. 57343 THEN "UTF16_SURROGATE"
  ELSE IF res <= OverlongMask(extra) THEN "OVERLONG"
  ELSE "none"

\* One pass of the loop of getUtf8CodePoints at position i.
Resume(bytes, i, mode, extra, missing, res, reason) ==
  CASE reason = "none" -> [ok |-> TRUE, push |-> <<res>>, next |-> i + extra + 1]
    [] reason = "MISSING_CONTINUE" -> Recover(mode, reason, Min(missing), Min(missing), bytes, 0)
    [] OTHER -> Recover(mode, reason, i, i + 1 + (IF reason = "OVERRUN" THEN 0 ELSE extra), bytes, res)
Step(bytes, i, mode) ==
  LET extra   == ExtraLength(bytes[i])
      missing == {o \in i + 1 .. i + extra : ~Continues(bytes[o])}
      res     == FoldLeft(LAMBDA n, b : n * 64 + (b % 64), bytes[i] % (2 ^ (7 - extra)), SubSeq(bytes, i + 1, i + extra))
  IN  Resume(bytes, i, mode, extra, missing, res, Reason(bytes, i, extra, missing, res))

Behind(step, rest) == IF ~step.ok \/ ~rest.ok THEN Utf8Fault ELSE Utf8Ok(step.push \o rest.units)

RECURSIVE CodePoints(_, _, _)
CodePoints(bytes, i, mode) ==
  IF i > Len(bytes) THEN Utf8Ok(<<>>)
  ELSE LET step == Step(bytes, i, mode)
       IN  Behind(step, CodePoints(bytes, step.next, mode))

\* _toUtf8String.
ToUnits(points) ==
  FlattenSeq([k \in DOMAIN points |->
    IF points[k] <= 65535 THEN <<points[k]>>
    ELSE <<55296 + ((points[k] - 65536) \div 1024), 56320 + (points[k] % 1024)>>])

InUnits(points) == IF points.ok THEN Utf8Ok(ToUnits(points.units)) ELSE Utf8Fault
Utf8Decode(bytes, mode) == InUnits(CodePoints(bytes, 1, mode))

-----------------------------------------------------------------------------
\* The digits of n from the first that is not zero, and what digits are worth.
Digits(n, base) ==
  FoldLeft(LAMBDA so, i : IF so.left = 0 THEN so ELSE [left |-> so.left \div base, got |-> <<so.left % base>> \o so.got],
           [left |-> n, got |-> <<>>], [i \in 1 .. 31 |-> i]).got
toBigInt(digits, base) == FoldLeft(LAMBDA n, d : n * base + d, 0, digits)

HexOf(bytes) == FlattenSeq([i \in DOMAIN bytes |-> <<bytes[i] \div 16, bytes[i] % 16>>])
BytesOf(hex) == [i \in 1 .. Len(hex) \div 2 |-> 16 * hex[2 * i - 1] + hex[2 * i]]
Even(hex) == IF Len(hex) % 2 = 1 THEN <<0>> \o hex ELSE hex

Zeros(n) == [i \in 1 .. Max({0, n}) |-> 0]
LeadingZeros(digits) == Max({n \in 0 .. Len(digits) : \A i \in 1 .. n : digits[i] = 0})
Stripped(digits) == SubSeq(digits, LeadingZeros(digits) + 1, Len(digits))

-----------------------------------------------------------------------------
\* What may be made hex: a number, bytes, or a hex string already.
HexInput(is, n, data) == [is |-> is, num |-> n, data |-> data]

hexlify(value, hexPad) ==
  CASE value.is = "number" -> {IF value.num = 0 THEN <<0, 0>> ELSE Even(Digits(value.num, 16))}
    [] value.is = "bytes"  -> {HexOf(value.data)}
    [] Len(value.data) % 2 = 0 -> {value.data}
    [] hexPad = "left"     -> {<<0>> \o value.data}
    [] hexPad = "right"    -> {value.data \o <<0>>}
    [] OTHER               -> {}

\* getBytes takes no number and no odd length; arrayify takes both.  Padding on the
\* left overwrites the first digit with a second prefix, whose x is read as no digit.
getBytes(value) ==
  CASE value.is = "bytes" -> {value.data}
    [] value.is = "hex" /\ Len(value.data) % 2 = 0 -> {BytesOf(value.data)}
    [] OTHER -> {}
LeftOverwritten(hex) == <<0>> \o (IF Len(hex) = 1 THEN <<0>> ELSE BytesOf(<<0>> \o SubSeq(hex, 3, Len(hex))))
arrayify(value, hexPad) ==
  CASE value.is = "number" -> {IF value.num = 0 THEN <<0>> ELSE Digits(value.num, 256)}
    [] value.is = "bytes" \/ Len(value.data) % 2 = 0 -> getBytes(value)
    [] hexPad = "left"     -> {LeftOverwritten(value.data)}
    [] hexPad = "right"    -> {BytesOf(value.data \o <<0>>)}
    [] OTHER               -> {}

dataLength(hex) == Len(hex) \div 2
concat(hex, more) == hex \o more

dataSlice(bytes, start, end) == IF end > Len(bytes) THEN {} ELSE {HexOf(SubSeq(bytes, start + 1, end))}
hexDataSlice(hex, offset, end) == IF Len(hex) % 2 = 1 THEN {} ELSE {SubSeq(hex, 2 * offset + 1, Min({2 * end, Len(hex)}))}

zeroPadValue(bytes, length) == IF length < Len(bytes) THEN {} ELSE {HexOf(Zeros(length - Len(bytes)) \o bytes)}
zeroPadBytes(bytes, length) == IF length < Len(bytes) THEN {} ELSE {HexOf(bytes \o Zeros(length - Len(bytes)))}
stripZeros(bytes) == Stripped(bytes)
stripZerosLeft(hex) == HexOf(Stripped(BytesOf(hex)))

-----------------------------------------------------------------------------
Shortest(n) == IF n = 0 THEN <<0>> ELSE Digits(n, 16)
toBeHex(n, width) == IF 2 * width < Len(Shortest(n)) THEN {} ELSE {Zeros(2 * width - Len(Shortest(n))) \o Shortest(n)}
toBeArray(n) == BytesOf(Even(Digits(n, 16)))

\* What is no bytes, like a hex string of odd length, is a number.
toQuantity(value) ==
  LET bytes == CASE value.is = "number" -> toBeArray(value.num)
                 [] Len(value.data) % 2 = 1 /\ value.is = "hex" -> toBeArray(toBigInt(value.data, 16))
                 [] OTHER -> CHOOSE b \in getBytes(value) : TRUE
      left  == Stripped(HexOf(bytes))
  IN  IF left = <<>> THEN <<0>> ELSE left

encodeBase58(bytes) == Digits(toBigInt(bytes, 256), 58)
decodeBase58(letters) == toBigInt(letters, 58)

\* encodeBytes32String and decodeBytes32String, of size bytes.
encodeBytesString(text, size) ==
  LET bytes == Utf8Encode(text, 1)
  IN  IF ~bytes.ok \/ Len(bytes.units) > size - 1 THEN {} ELSE zeroPadBytes(bytes.units, size)
TextLength(bytes) == Max({0} \cup {i \in DOMAIN bytes : bytes[i] # 0})
decodeBytesString(bytes, size) ==
  LET text == Utf8Decode(SubSeq(bytes, 1, TextLength(bytes)), "error")
  IN  IF Len(bytes) # size \/ Last(bytes) # 0 \/ ~text.ok THEN {} ELSE {text.units}

-----------------------------------------------------------------------------
\* What was made hex is read as the bytes and the number that it was, but for the
\* left padding of arrayify; its quantity has its worth and no zero in front.
Worth(value) == IF value.is = "number" THEN value.num ELSE toBigInt(value.data, IF value.is = "hex" THEN 16 ELSE 256)
HexComesBack(value, hexPad) ==
  /\ \A hex \in hexlify(value, hexPad) :
       /\ value.is = "bytes" => getBytes(HexInput("hex", 0, hex)) = {value.data}
       /\ toBigInt(hex, 16) = Worth(value) * (IF hexPad = "right" /\ Len(value.data) % 2 = 1 /\ value.is = "hex" THEN 16 ELSE 1)
  /\ (hexlify(value, hexPad) = {}) = (arrayify(value, hexPad) = {})
  /\ hexPad # "left" => \A hex \in hexlify(value, hexPad) : arrayify(value, hexPad) = getBytes(HexInput("hex", 0, hex))
  /\ toBigInt(toQuantity(value), 16) = Worth(value)
  /\ Head(toQuantity(value)) = 0 => toQuantity(value) = <<0>>

\* Bytes are found again in what they were padded to, put together or written in
\* another base; a width that is too small for a number is refused.
BytesComeBack(bytes, length) ==
  /\ \A padded \in zeroPadValue(bytes, length) :
       /\ dataLength(padded) = length
       /\ dataSlice(BytesOf(padded), length - Len(bytes), length) = {HexOf(bytes)}
       /\ stripZerosLeft(padded) = HexOf(stripZeros(bytes))
       /\ toBeHex(toBigInt(bytes, 256), length) = (IF length = 0 THEN {} ELSE {padded})
  /\ \A padded \in zeroPadBytes(bytes, length) : hexDataSlice(padded, 0, Len(bytes)) = {HexOf(bytes)}
  /\ \A k \in DOMAIN bytes : \A head \in dataSlice(bytes, 0, k), tail \in dataSlice(bytes, k, Len(bytes)) :
       concat(head, tail) = HexOf(bytes)
  /\ decodeBase58(encodeBase58(bytes)) = toBigInt(bytes, 256)
  /\ toBeArray(decodeBase58(encodeBase58(bytes))) = stripZeros(bytes)

\* A text that fits comes back, unless its end reads as padding or it has half a pair.
BytesStringComesBack(text, size) ==
  \A hex \in encodeBytesString(text, size) :
    decodeBytesString(BytesOf(hex), size) =
      IF \E i \in DOMAIN text : Low(text[i]) /\ (i = 1 \/ ~High(text[i - 1])) THEN {} ELSE {SubSeq(text, 1, TextLength(text))}

-----------------------------------------------------------------------------
(* Addresses and their check digits (address/index.ts and the modules that *)
(* make addresses).  An address is the sequence of the hex digits of its   *)
(* prefix, its two check digits and its value.                             *)

\* What is left by 97 of the number whose digits are the characters, those above 9
\* taking two.
Mod97(characters) == FoldLeft(LAMBDA r, c : (r * (IF c > 9 THEN 100 ELSE 10) + c) % 97, 0, characters)
TwoDigits(n) == <<n \div 10, n % 10>>

calculateCheckSum(value, prefix) == TwoDigits(98 - Mod97(value \o prefix \o <<0, 0>>))
withCheckSum(prefix, value) == prefix \o calculateCheckSum(value, prefix) \o value

getAddress(address) ==
  LET prefix == SubSeq(address, 1, 2)
      value  == SubSeq(address, 5, Len(address))
  IN  IF calculateCheckSum(value, prefix) # SubSeq(address, 3, 4) THEN {} ELSE {withCheckSum(prefix, value)}

\* getIcapAddress: the address in base 36 after XE and the check digits of an IBAN.
XE == <<33, 14>>
InBase36(hex) ==
  LET Carried(digits, d) == FoldRight(LAMBDA digit, so : [carry |-> (digit * 16 + so.carry) \div 36,
                                                          got |-> <<(digit * 16 + so.carry) % 36>> \o so.got],
                                      digits, [carry |-> d, got |-> <<>>])
      Next36(digits, d)  == LET so == Carried(digits, d) IN IF so.carry = 0 THEN so.got ELSE <<so.carry>> \o so.got
  IN  FoldLeft(Next36, <<>>, hex)
ibanChecksum(characters) == TwoDigits(98 - Mod97(SubSeq(characters, 5, Len(characters)) \o SubSeq(characters, 1, 2) \o <<0, 0>>))
getIcapAddress(address) ==
  {LET base36 == Zeros(30 - Len(InBase36(good))) \o InBase36(good)
   IN  XE \o ibanChecksum(XE \o <<0, 0>> \o base36) \o base36 : good \in getAddress(address)}

\* An address is taken, its check digits are those that an IBAN would have, and no
\* other is taken that one wrong digit or two that changed places would make of it, as
\* long as a letter stays a letter and a number a number; nor is its IBAN a wrong one.
IsLetter(digit) == digit > 9
Misread(address, i, d) == [address EXCEPT ![i] = d]
Swapped(address, i) == [address EXCEPT ![i] = address[i + 1], ![i + 1] = address[i]]
AddressComesBack(prefix, value) ==
  LET address == withCheckSum(prefix, value)
  IN  /\ getAddress(address) = {address}
      /\ Mod97(value \o prefix \o SubSeq(address, 3, 4)) = 1
      /\ \A i \in DOMAIN address, d \in 0 .. 15 :
           d # address[i] /\ IsLetter(d) = IsLetter(address[i]) => getAddress(Misread(address, i, d)) = {}
      /\ \A i \in {i \in 1 .. Len(address) - 1 : address[i] # address[i + 1]} :
           i \notin {2, 4} /\ IsLetter(address[i]) = IsLetter(address[i + 1]) => getAddress(Swapped(address, i)) = {}
      /\ \A iban \in getIcapAddress(address) : Mod97(SubSeq(iban, 5, Len(iban)) \o SubSeq(iban, 1, 4)) = 1
=============================================================================
