----------------------------- MODULE BigNumbers -----------------------------
(***************************************************************************)
(* Amounts as decimal texts (utils/units.ts, and the texts of FixedNumber  *)
(* in utils/fixednumber.ts): a number is its sign and the sequence of its  *)
(* decimal digits, which may be more than a machine integer holds.         *)
(*                                                                         *)
(* BigNumber (bigNumber/bigNumber.ts): a number kept as a hex text, over   *)
(* the arithmetic of BN.js.  An operator returns the set of what its method*)
(* returns, empty when it throws.                                          *)
(***************************************************************************)
EXTENDS HexData, Bitwise

Amount(neg, digits) == [neg |-> neg /\ Stripped(digits) # <<>>, digits |-> Stripped(digits)]

\* A decimal text: a sign, what is before and after the point, and whether there is one.
DecimalText(neg, whole, point, decimals) == [neg |-> neg, whole |-> whole, point |-> point, decimals |-> decimals]

\* checkValue of the 128 bits that are the default.
LimitDigits == <<1,7,0,1,4,1,1,8,3,4,6,0,4,6,9,2,3,1,7,3,1,6,8,7,3,0,3,7,1,5,8,8,4,1,0,5,7,2,8>>
Below(a, b) ==
  \/ Len(a) < Len(b)
  \/ Len(a) = Len(b) /\ \E i \in DOMAIN a : a[i] < b[i] /\ SubSeq(a, 1, i - 1) = SubSeq(b, 1, i - 1)
In128Bits(amount) == Below(amount.digits, LimitDigits) \/ (amount.neg /\ amount.digits = LimitDigits)

fromString(text, decimals) ==
  LET padded == text.decimals \o Zeros(decimals - Len(text.decimals))
      amount == Amount(text.neg, text.whole \o SubSeq(padded, 1, decimals))
  IN  IF text.whole \o text.decimals = <<>> \/ Stripped(SubSeq(padded, decimals + 1, Len(padded))) # <<>> \/ ~In128Bits(amount)
      THEN {} ELSE {amount}

\* toString: one digit at least on each side of the point, and no other zeros there.
Trailed(digits) == SubSeq(digits, 1, Max({1} \cup {i \in DOMAIN digits : digits[i] # 0}))
toString(amount, decimals) ==
  LET str   == Zeros((IF decimals = 0 THEN 1 ELSE decimals + 1) - Len(amount.digits)) \o amount.digits
      index == Len(str) - decimals
  IN  IF decimals = 0 THEN DecimalText(amount.neg, str, FALSE, <<>>)
      ELSE DecimalText(amount.neg, SubSeq(str, 1, index), TRUE, Trailed(SubSeq(str, index + 1, Len(str))))

formatUnits(amount, decimals) == IF In128Bits(amount) THEN {toString(amount, decimals)} ELSE {}

\* A text with an exponent: its digits, of which the first is before the point and,
\* unless it is 0, not 0, and as few as they can be.  It is read as a number, which
\* prints it without exponent when that is from -6 to 20.
Scientific(neg, digits, exponent) == [neg |-> neg, digits |-> digits, exponent |-> exponent]
scientificToDecimal(text) ==
  LET places == Len(text.digits) - 1
      point  == text.exponent + 1
  IN  IF text.digits = <<0>> THEN DecimalText(FALSE, <<0>>, FALSE, <<>>)
      ELSE IF text.exponent < 0 THEN DecimalText(text.neg, <<0>>, TRUE, Zeros(-point) \o text.digits)
      ELSE IF places <= text.exponent THEN DecimalText(text.neg, text.digits \o Zeros(text.exponent - places), FALSE, <<>>)
      ELSE DecimalText(text.neg, SubSeq(text.digits, 1, point), TRUE, SubSeq(text.digits, point + 1, Len(text.digits)))

trimDecimals(text, decimals) == [text EXCEPT !.decimals = SubSeq(@, 1, Min({decimals, Len(@)}))]

\* parseUnits; without a unit, the 18 decimals are not trimmed.
parseUnits(text, unit) == fromString(IF unit.given THEN trimDecimals(text, unit.decimals) ELSE text, unit.decimals)

\* An amount is formatted as the text it was parsed from, as far as the unit goes and
\* without zeros that do not count, and that is parsed as the same amount.
NoZeroToSpare(text) ==
  /\ text.whole # <<>> /\ (Len(text.whole) > 1 => Head(text.whole) # 0)
  /\ text.point = (text.decimals # <<>>) /\ (Len(text.decimals) > 1 => Last(text.decimals) # 0)
AmountComesBack(text, unit) ==
  /\ \A amount \in parseUnits(text, unit) :
       \E shown \in formatUnits(amount, unit.decimals) :
         /\ NoZeroToSpare(shown)
         /\ Stripped(shown.whole) = Stripped(text.whole)
         /\ IsPrefix(shown.decimals, text.decimals \o Zeros(unit.decimals))
         /\ parseUnits(shown, unit) = {amount}
  /\ unit.given /\ text.whole # <<>> /\ Len(Stripped(text.whole)) + unit.decimals < Len(LimitDigits) => parseUnits(text, unit) # {}

\* An exponent only moves the point.
ScientificComesBack(text, unit) ==
  LET plain == scientificToDecimal(text)
      moved == text.exponent + unit.decimals - (Len(text.digits) - 1)
  IN  /\ AmountComesBack(plain, unit)
      /\ \A amount \in parseUnits(plain, unit) :
           amount = Amount(text.neg, SubSeq(text.digits \o Zeros(moved), 1, Max({0, Len(text.digits) + moved})))

-----------------------------------------------------------------------------
\* A number as a hex text: its sign and digits.
Signed16(neg, digits) == [neg |-> neg, digits |-> digits]

\* toHex: whole bytes, one at least and no more than it takes, and no negative zero.
toHex(text) ==
  LET bytes == Stripped(BytesOf(Even(text.digits)))
  IN  IF bytes = <<>> THEN Signed16(FALSE, <<0, 0>>) ELSE Signed16(text.neg, HexOf(bytes))

toBN(hex) == (IF hex.neg THEN -1 ELSE 1) * toBigInt(hex.digits, 16)
toBigNumber(n) == toHex(Signed16(n < 0, Digits(IF n < 0 THEN -n ELSE n, 16)))

\* from a text in either base, bytes or a number.
from(value) ==
  CASE value.is = "hex"     -> IF value.digits = <<>> THEN {} ELSE {toHex(Signed16(value.neg, value.digits))}
    [] value.is = "decimal" -> IF value.digits = <<>> THEN {}
                               ELSE {toBigNumber((IF value.neg THEN -1 ELSE 1) * toBigInt(value.digits, 10))}
    [] value.is = "bytes"   -> IF value.digits = <<>> THEN {} ELSE {toHex(Signed16(FALSE, HexOf(value.digits)))}

BnDiv(a, b) == LET q == (IF a < 0 THEN -a ELSE a) \div (IF b < 0 THEN -b ELSE b) IN IF (a < 0) = (b < 0) THEN q ELSE -q
BnFromTwos(n, width) == IF (n \div 2 ^ (width - 1)) % 2 = 1 THEN n - 2 ^ width ELSE n
BnToTwos(n, width) == IF n < 0 THEN 2 ^ width + n ELSE n

BigResult(op, a, b) ==
  CASE op = "add" -> a + b
    [] op = "sub" -> a - b
    [] op = "mul" -> a * b
    [] op = "div" -> BnDiv(a, b)
    [] op = "mod" -> a % b
    [] op = "pow" -> a ^ b
    [] op = "and" -> a & b
    [] op = "or"  -> a | b
    [] op = "xor" -> a ^^ b
    [] op = "mask" -> a % 2 ^ b
    [] op = "shl" -> a * 2 ^ b
    [] op = "shr" -> a \div 2 ^ b
    [] op = "toTwos" -> BnToTwos(a, b)
    [] op = "fromTwos" -> BnFromTwos(a, b)

\* What throwFault refuses, and BN.js a modulus of zero.
BigFault(op, a, b) ==
  \/ op \in {"div", "mod"} /\ b = 0
  \/ op \in {"mod", "pow"} /\ b < 0
  \/ op \in {"and", "or", "xor", "mask", "shl", "shr"} /\ (a < 0 \/ b < 0)
Operate(op, a, b) ==
  IF BigFault(op, toBN(a), toBN(b)) THEN {} ELSE {toBigNumber(BigResult(op, toBN(a), toBN(b)))}
absolute(a) == IF a.neg THEN from([is |-> "hex", neg |-> FALSE, digits |-> a.digits]) ELSE {a}

\* What the texts of one number are read as is the same, whatever zeros are in front,
\* and the operations fit together as those on numbers do.
InBits(n, width) == n >= -(2 ^ (width - 1)) /\ n < 2 ^ (width - 1)
All(op, a, b, Holds(_)) == \A r \in Operate(op, a, b) : Holds(toBN(r))
BigNumbersFit(n, m) ==
  LET a == toBigNumber(n)
      b == toBigNumber(m)
      size == IF n < 0 THEN -n ELSE n
  IN  /\ toBN(a) = n
      /\ \A zeros \in 0 .. 3 :
           /\ from([is |-> "hex", neg |-> n <= 0, digits |-> Zeros(zeros) \o Shortest(size)]) = {a}
           /\ from([is |-> "decimal", neg |-> n <= 0, digits |-> Zeros(zeros + 1) \o Digits(size, 10)]) = {a}
      /\ absolute(a) = {toBigNumber(size)}
      /\ All("add", a, b, LAMBDA s : Operate("sub", toBigNumber(s), b) = {a})
      /\ All("div", a, b, LAMBDA q : All("mul", toBigNumber(q), b, LAMBDA p : (n - p) * n >= 0 /\ (n - p) ^ 2 < m ^ 2))
      /\ All("mod", a, b, LAMBDA r : r \in 0 .. m - 1 /\ (n - r) % m = 0)
      /\ All("and", a, b, LAMBDA r : All("or", a, b, LAMBDA s : r + s = n + m /\ Operate("xor", a, b) = {toBigNumber(s - r)}))
      /\ m \in 0 .. 8 => /\ All("shl", a, b, LAMBDA r : Operate("shr", toBigNumber(r), b) = {a})
                         /\ All("mask", a, b, LAMBDA r : All("shr", a, b, LAMBDA s : r + s * 2 ^ m = n))
      /\ m \in 1 .. 16 /\ InBits(n, m) => All("toTwos", a, b, LAMBDA r : Operate("fromTwos", toBigNumber(r), b) = {a})
=============================================================================
