----------------------------- MODULE FixedNumber ----------------------------
(***************************************************************************)
(* FixedNumber (utils/fixednumber.ts) with fromTwos, toTwos and mask       *)
(* (utils/maths.ts): decimals kept as an integer times a power of ten in   *)
(* a field of some width.  A behaviour makes one call.                     *)
(***************************************************************************)
EXTENDS Integers

CONSTANTS
  FixedFormats,   \* the formats: [signed, width, decimals]
  FixedValues     \* the integers that are tried as values

ASSUME FixedAssumption == FixedFormats \subseteq [signed : BOOLEAN, width : Nat \ {0}, decimals : Nat]

Abs(n) == IF n < 0 THEN -n ELSE n

\* The division and the remainder of BigInt truncate.
Quotient(a, b) == LET q == Abs(a) \div Abs(b) IN IF (a < 0) = (b < 0) THEN q ELSE -q
Remainder(a, b) == a - b * Quotient(a, b)

Power(base, n) == LET power[k \in Nat] == IF k = 0 THEN 1 ELSE base * power[k - 1] IN power[n]
getTens(decimals) == Power(10, decimals)

Value(n) == [fault |-> "none", value |-> n]
FixedFault(what) == [fault |-> what, value |-> 0]

mask(value, width) == value % Power(2, width)
fromTwos(value, width) == IF value >= Power(2, width - 1) THEN value - Power(2, width) ELSE value

Lowest(f) == IF f.signed THEN -(Power(2, f.width - 1)) ELSE 0
Limit(f) == IF f.signed THEN Power(2, f.width - 1) ELSE Power(2, f.width)
Fits(n, f) == n \in Lowest(f) .. Limit(f) - 1

\* Mutant: the overflow check forgets that the limit itself is too high.
checkValueHigh(n, f, safe) ==
  IF safe /\ ~(n >= Lowest(f) /\ n <= Limit(f)) THEN FixedFault("overflow")
  ELSE Value(IF ~f.signed THEN n % Limit(f)
             ELSE IF n > 0 THEN fromTwos(mask(n, f.width), f.width)
             ELSE -fromTwos(mask(-n, f.width), f.width))

\* Wrapped to the field, or refused by the safe operations.
checkValue(n, f, safe) ==
  IF safe /\ ~Fits(n, f) THEN FixedFault("overflow")
  ELSE Value(IF ~f.signed THEN n % Limit(f)
             ELSE IF n > 0 THEN fromTwos(mask(n, f.width), f.width)
             ELSE -fromTwos(mask(-n, f.width), f.width))

\* The callers that check a value and keep it as it is.
Checked(n, f) == IF Fits(n, f) THEN Value(n) ELSE FixedFault("overflow")

-----------------------------------------------------------------------------
(* The operations on two numbers of a format *)

Add(a, b, f, safe) == checkValue(a + b, f, safe)
Sub(a, b, f, safe) == checkValue(a - b, f, safe)
Mul(a, b, f, safe) == checkValue(Quotient(a * b, getTens(f.decimals)), f, safe)

mulSignal(a, b, f) ==
  IF Remainder(a * b, getTens(f.decimals)) # 0 THEN FixedFault("underflow")
  ELSE checkValue(Quotient(a * b, getTens(f.decimals)), f, TRUE)

Div(a, b, f, safe) ==
  IF b = 0 THEN FixedFault("divide-by-zero")
  ELSE checkValue(Quotient(a * getTens(f.decimals), b), f, safe)

divSignal(a, b, f) ==
  IF b = 0 THEN FixedFault("divide-by-zero")
  ELSE IF Remainder(a * getTens(f.decimals), b) # 0 THEN FixedFault("underflow")
  ELSE checkValue(Quotient(a * getTens(f.decimals), b), f, TRUE)

\* Never 1, on which lt, lte, gt and gte are built.
cmp(a, f, b, g) ==
  LET left  == IF f.decimals < g.decimals THEN a * getTens(g.decimals - f.decimals) ELSE a
      right == IF g.decimals < f.decimals THEN b * getTens(f.decimals - g.decimals) ELSE b
  IN  IF left = right THEN 0 ELSE -1

\* floor and ceiling both divide #val itself, not the value moved for it.
Whole(a, f) == checkValue(Quotient(a, getTens(f.decimals)) * getTens(f.decimals), f, TRUE)

round(a, f, decimals) ==
  IF decimals >= f.decimals THEN Value(a)
  ELSE LET tens == getTens(f.decimals - decimals)
       IN  Checked(Quotient(a + 5 * (tens \div 10), tens) * tens, f)

\* fromValue, and toFormat by way of fromString and toString.
Convert(n, decimals, f) ==
  LET delta == decimals - f.decimals
  IN  IF delta <= 0 THEN Checked(n * getTens(-delta), f)
      ELSE IF Remainder(n, getTens(delta)) # 0 THEN FixedFault("underflow")
      ELSE Checked(Quotient(n, getTens(delta)), f)

\* fromBytes of a big-endian number.
fromBytes(n, f) ==
  IF f.signed /\ n >= Power(2, f.width) THEN FixedFault("overflow")
  ELSE Checked(IF f.signed THEN fromTwos(n, f.width) ELSE n, f)

toTwos(n, width) == IF n < 0 THEN n + Power(2, width) ELSE n

-----------------------------------------------------------------------------
VARIABLE
  fixedCall       \* the call: its name, numbers, formats and what it returned

fixedVars == <<fixedCall>>

NoFixedCall == [op |-> "none"]

FixedInit == fixedCall = NoFixedCall

FixedReturn(op, a, b, f, g, returned) ==
  fixedCall' = [op |-> op, a |-> a, b |-> b, f |-> f, g |-> g, returned |-> returned]

\* An operation on two numbers of one format.
FixedBinary(f, a, b) ==
  /\ {a, b} \subseteq Lowest(f) .. Limit(f) - 1
  /\ \/ FixedReturn("add", a, b, f, f, Add(a, b, f, TRUE))
     \/ FixedReturn("addUnsafe", a, b, f, f, Add(a, b, f, FALSE))
     \/ FixedReturn("sub", a, b, f, f, Sub(a, b, f, TRUE))
     \/ FixedReturn("subUnsafe", a, b, f, f, Sub(a, b, f, FALSE))
     \/ FixedReturn("mul", a, b, f, f, Mul(a, b, f, TRUE))
     \/ FixedReturn("mulUnsafe", a, b, f, f, Mul(a, b, f, FALSE))
     \/ FixedReturn("mulSignal", a, b, f, f, mulSignal(a, b, f))
     \/ FixedReturn("div", a, b, f, f, Div(a, b, f, TRUE))
     \/ FixedReturn("divUnsafe", a, b, f, f, Div(a, b, f, FALSE))
     \/ FixedReturn("divSignal", a, b, f, f, divSignal(a, b, f))

\* A call on one number, into or with another format.
FixedUnary(f, g, a) ==
  /\ Fits(a, f)
  /\ \/ FixedReturn("whole", a, 0, f, f, Whole(a, f))
     \/ FixedReturn("round", a, 0, f, g, round(a, f, g.decimals))
     \/ FixedReturn("convert", a, 0, f, g, Convert(a, f.decimals, g))
     \/ FixedReturn("bytes", a, 0, f, f, fromBytes(toTwos(a, f.width), f))

FixedCompare(f, g, a, b) ==
  /\ Fits(a, f) /\ Fits(b, g)
  /\ FixedReturn("cmp", a, b, f, g, Value(cmp(a, f, b, g)))

FixedNext ==
  /\ fixedCall = NoFixedCall
  /\ \/ \E f \in FixedFormats, a, b \in FixedValues : FixedBinary(f, a, b)
     \/ \E f, g \in FixedFormats, a \in FixedValues : FixedUnary(f, g, a)
     \/ \E f, g \in FixedFormats, a, b \in FixedValues : FixedCompare(f, g, a, b)

FixedSpec == FixedInit /\ [][FixedNext]_fixedVars

-----------------------------------------------------------------------------
(***************************************************************************)
(* What the operations mean: n is the answer in units of the last place,   *)
(* num and den the exact value; truncated is the exact value without what  *)
(* the field cannot hold.                                                  *)
(***************************************************************************)
Exact(call) ==
  LET tens == getTens(call.f.decimals)
  IN  CASE call.op \in {"add", "addUnsafe"} -> <<call.a + call.b, 1>>
        [] call.op \in {"sub", "subUnsafe"} -> <<call.a - call.b, 1>>
        [] call.op \in {"mul", "mulUnsafe", "mulSignal"} -> <<call.a * call.b, tens>>
        [] call.op \in {"div", "divUnsafe", "divSignal"} ->
             IF call.b < 0 THEN <<-call.a * tens, -call.b>> ELSE <<call.a * tens, call.b>>

Nearest(n, num, den) == Abs(n * den - num) < den /\ Abs(n * den) <= Abs(num)

Reflected(n, f) == f.signed /\ n = Limit(f)

\* What a call may return: n, or a fault.
ExactValue(call, n) ==
  LET num   == Exact(call)[1]
      den   == Exact(call)[2]
      tens  == getTens(call.f.decimals)
      units == getTens(call.g.decimals)
      scale == tens \div units
  IN  CASE call.op = "cmp" -> (n = 0) = (call.a * units = call.b * tens)
        [] call.op = "whole" -> Reflected(n, call.f) \/ (n % tens = 0 /\ Nearest(n \div tens, call.a, tens))
        [] call.op = "round" ->
             call.a < 0 \/ scale <= 1 \/ (n % scale = 0 /\ 2 * Abs(n - call.a) <= scale)
        [] call.op = "convert" -> n * tens = call.a * units
        [] call.op = "bytes" -> n = call.a
        [] call.op \in {"mulSignal", "divSignal"} -> Reflected(n, call.f) \/ n * den = num
        [] call.op \in {"add", "sub", "mul", "div"} ->
             Reflected(n, call.f) \/ (Fits(n, call.f) /\ Nearest(n, num, den))
        [] OTHER -> (n - Quotient(num, den)) % Power(2, call.f.width) = 0

JustFault(call, fault) ==
  CASE fault = "divide-by-zero" -> call.b = 0
    [] fault = "underflow" /\ call.op # "convert" -> Remainder(Exact(call)[1], Exact(call)[2]) # 0
    [] fault = "overflow" /\ call.op \in {"add", "sub", "mul", "div", "mulSignal", "divSignal"} ->
         ~Fits(Quotient(Exact(call)[1], Exact(call)[2]), call.f)
    [] OTHER -> call.op \in {"convert", "round"} /\ call.a # 0

(***************************************************************************)
(* An operation returns what the exact value is but for the digits that    *)
(* do not fit, or refuses, and refuses only what does not fit; unsafe ones *)
(* are right modulo the field; signalling ones lose nothing; conversions   *)
(* keep the value; round goes to the nearest.  Exceptions: the lowest      *)
(* number of a signed field, see FixedNumberInRange, and round of a        *)
(* negative number.                                                        *)
(***************************************************************************)
FixedNumberExact ==
  fixedCall # NoFixedCall =>
    IF fixedCall.returned.fault = "none" THEN ExactValue(fixedCall, fixedCall.returned.value)
    ELSE JustFault(fixedCall, fixedCall.returned.fault)

(***************************************************************************)
(* "An 8-bit signed value, with 0 decimals may only be within the range    *)
(* -128 to 127": a number that a checked operation returns is in its       *)
(* field.                                                                  *)
(***************************************************************************)
FixedNumberInRange ==
  /\ fixedCall # NoFixedCall
  /\ fixedCall.op \in {"add", "sub", "mul", "div"}
  /\ fixedCall.returned.fault = "none"
  => Fits(fixedCall.returned.value, fixedCall.f)
=============================================================================
