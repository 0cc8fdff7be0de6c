----------------------------- MODULE Fragments ------------------------------
(***************************************************************************)
(* The fragments of an ABI (abi/fragments.ts): what they are read from and *)
(* written to, as text and in JSON.  A structure cannot be written.        *)
(*                                                                         *)
(* ParamType and the reading of its texts come first.  A text is a sequence*)
(* of words: a name, a keyword, a basic type with its size (n), a bracket  *)
(* pair with its length, a number, or a sign.                              *)
(***************************************************************************)
EXTENDS Integers, Sequences, SequencesExt, FiniteSetsExt

NoNumber == -1
Sized(text, n) == [text |-> text, n |-> n]
Word(text) == Sized(text, NoNumber)
Texts(words) == [i \in DOMAIN words |-> Word(words[i])]

KwVisib == {"constant", "external", "internal", "payable", "private", "public", "pure", "view"}
KwTypes == {"constructor", "error", "event", "fallback", "function", "receive", "struct"}
KwModifiers == {"calldata", "memory", "storage", "payable", "indexed"}
Keywords == KwVisib \cup KwTypes \cup KwModifiers \cup {"tuple", "returns"}
BasicTypes == {"address", "bool", "string", "bytes", "int", "uint"}

\* The type of the token that lex makes of a word.
Kind(word) ==
  CASE word.text \in {"(", ")", ",", "@", "[", "number"} -> word.text
    [] word.text \in Keywords   -> "KEYWORD"
    [] word.text \in BasicTypes -> "TYPE"
    [] OTHER -> "ID"
Top(words) == IF words = <<>> THEN "nothing" ELSE Kind(words[1])
Beyond(words, n) == SubSeq(words, n + 1, Len(words))

\* What was consumed, and the words that are left.
Consumed(got, rest) == [ok |-> TRUE, got |-> got, rest |-> rest]
Unexpected == [ok |-> FALSE, got |-> <<>>, rest |-> <<>>]

-----------------------------------------------------------------------------
\* A parameter: of holds the components of a tuple or the child of an array.
Param(name, type, base, indexed, of, length) ==
  [name |-> name, type |-> type, base |-> base, indexed |-> indexed, of |-> of, length |-> length]

Joined(parts) ==
  FlattenSeq([i \in DOMAIN parts |-> IF i = 1 THEN parts[i] ELSE <<Word(",")>> \o parts[i]])
Parens(parts) == <<Word("(")>> \o Joined(parts) \o <<Word(")")>>

\* ParamType.format: an array is its child and its length, a tuple its type (in
\* "sighash" not) and its components.
RECURSIVE FormatParam(_, _)
FormatParam(param, format) ==
  LET of   == [i \in DOMAIN param.of |-> FormatParam(param.of[i], format)]
      bare == CASE param.base = "array" -> Append(of[1], Sized("[", param.length))
                [] param.base = "tuple" -> (IF format = "sighash" THEN <<>> ELSE param.type) \o Parens(of)
                [] OTHER -> param.type
  IN  bare
      \o (IF format # "sighash" /\ param.indexed = "true" THEN <<Word("indexed")>> ELSE <<>>)
      \o (IF format = "full" /\ param.name # "" THEN <<Word(param.name)>> ELSE <<>>)
joinParams(format, params) == Parens([i \in DOMAIN params |-> FormatParam(params[i], format)])

\* verifyBasicType, as the set of what it returns: nothing when it throws.
verifyBasicType(word) ==
  LET valid == CASE word.n = NoNumber -> TRUE
                 [] word.text = "bytes" -> word.n \in 1 .. 32
                 [] OTHER -> word.n \in 1 .. 256 /\ word.n % 8 = 0
  IN  IF Kind(word) # "TYPE" \/ ~valid THEN {}
      ELSE IF word.text \in {"int", "uint"} /\ word.n = NoNumber THEN {Sized(word.text, 256)} ELSE {word}

-----------------------------------------------------------------------------
\* consumeKeywords: the allowed ones in front, none of them twice.
consumeKeywords(words, allowed) ==
  LET others == {i \in DOMAIN words : words[i].text \notin allowed}
      n      == (IF others = {} THEN Len(words) + 1 ELSE Min(others)) - 1
      got    == {words[i].text : i \in 1 .. n}
  IN  IF Cardinality(got) < n THEN [Unexpected EXCEPT !.got = {}] ELSE Consumed(got, Beyond(words, n))

\* popParams: the items between a parenthesis, its commas and its match; nothing
\* after the last comma is no item.
Depth(words, i) ==
  Cardinality({j \in 1 .. i : words[j].text = "("}) - Cardinality({j \in 1 .. i : words[j].text = ")"})
ItemsUpTo(words, match) ==
  LET commas == {i \in 2 .. match : words[i].text = "," /\ Depth(words, i) = 1}
      bounds == SetToSortSeq({1, match} \cup commas, <)
      items  == [k \in 1 .. Len(bounds) - 1 |-> SubSeq(words, bounds[k] + 1, bounds[k + 1] - 1)]
  IN  Consumed(IF Last(items) = <<>> THEN Front(items) ELSE items, Beyond(words, match))
popParams(words) ==
  LET closed == {i \in DOMAIN words : Depth(words, i) = 0}
  IN  IF Top(words) = "(" /\ closed # {} THEN ItemsUpTo(words, Min(closed)) ELSE Unexpected

AllConsumed(parts, rest) ==
  IF \A i \in DOMAIN parts : parts[i].ok THEN Consumed([i \in DOMAIN parts |-> parts[i].got], rest) ELSE Unexpected

RECURSIVE ParamFromText(_, _)
ParamsFromText(items, allowIndexed) ==
  IF items.ok THEN AllConsumed([i \in DOMAIN items.got |-> ParamFromText(items.got[i], allowIndexed)], items.rest)
  ELSE Unexpected
consumeParams(words, allowIndexed) == ParamsFromText(popParams(words), allowIndexed)

\* The type of a parameter without its brackets.
BasicElement(words, types) ==
  IF types = {} THEN Unexpected
  ELSE LET type == CHOOSE t \in types : TRUE
       IN  Consumed(Param("", <<type>>, type.text, "null", <<>>, NoNumber), Tail(words))
TupleElement(comps) ==
  IF ~comps.ok THEN Unexpected
  ELSE Consumed(Param("", <<Word("tuple")>> \o joinParams("sighash", comps.got), "tuple", "null", comps.got, NoNumber),
                comps.rest)
Element(words, tuple) ==
  IF ~tuple.ok THEN Unexpected
  ELSE IF "tuple" \in tuple.got \/ Top(tuple.rest) = "(" THEN TupleElement(consumeParams(tuple.rest, FALSE))
  ELSE BasicElement(words, IF words = <<>> THEN {} ELSE verifyBasicType(words[1]))
ElementFromText(words) == Element(words, consumeKeywords(words, {"tuple"}))

Arrays(element, brackets) ==
  FoldLeft(LAMBDA param, b : Param("", Append(param.type, b), "array", "null", <<param>>, b.n), element, brackets)

\* ParamType.from a text: type, brackets, modifiers and the name, no more.
Modified(param, modifiers, allowIndexed) ==
  LET named == Top(modifiers.rest) = "ID"
  IN  IF /\ modifiers.ok
         /\ "indexed" \in modifiers.got => allowIndexed
         /\ Len(modifiers.rest) = IF named THEN 1 ELSE 0
      THEN Consumed([param EXCEPT !.name = IF named THEN modifiers.rest[1].text ELSE "",
                                  !.indexed = IF "indexed" \in modifiers.got THEN "true" ELSE "null"], <<>>)
      ELSE Unexpected
Bracketed(element, allowIndexed) ==
  LET others == {i \in DOMAIN element.rest : element.rest[i].text # "["}
      n      == (IF others = {} THEN Len(element.rest) + 1 ELSE Min(others)) - 1
  IN  IF ~element.ok THEN Unexpected
      ELSE Modified(Arrays(element.got, SubSeq(element.rest, 1, n)),
                    consumeKeywords(Beyond(element.rest, n), KwModifiers), allowIndexed)
ParamFromText(words, allowIndexed) == Bracketed(ElementFromText(words), allowIndexed)

-----------------------------------------------------------------------------
\* A parameter in JSON; not every one has components.
Json(type, name, indexed, given, components) ==
  [type |-> type, name |-> name, indexed |-> indexed, given |-> given, components |-> components]

\* ParamType.format("json"): the components of an array's child are not written.
RECURSIVE ParamToJson(_)
ParamToJson(param) ==
  LET tuple == param.base = "tuple"
  IN  Json(IF tuple THEN <<Word("tuple")>> ELSE param.type, param.name, param.indexed, tuple,
           IF tuple THEN [i \in DOMAIN param.of |-> ParamToJson(param.of[i])] ELSE <<>>)

\* ParamType.from an object.
RECURSIVE ParamFromJson(_, _)
ParamFromJson(obj, allowIndexed) ==
  LET last  == Last(obj.type)
      child == ParamFromJson(Json(Front(obj.type), "", "null", obj.given, obj.components), FALSE)
      comps == [i \in DOMAIN obj.components |-> ParamFromJson(obj.components[i], FALSE)]
      Made(type, base, of, length) == Consumed(Param(obj.name, type, base, obj.indexed, of, length), <<>>)
  IN  IF obj.indexed # "null" /\ ~allowIndexed THEN Unexpected
      ELSE IF last.text = "["
      THEN IF child.ok THEN Made(obj.type, "array", <<child.got>>, last.n) ELSE Unexpected
      ELSE IF obj.type[1].text \in {"tuple", "("}
      THEN IF obj.given /\ \A i \in DOMAIN comps : comps[i].ok
           THEN Made(obj.type, "tuple", [i \in DOMAIN comps |-> comps[i].got], NoNumber)
           ELSE Unexpected
      ELSE IF verifyBasicType(last) = {} THEN Unexpected
      ELSE LET type == CHOOSE t \in verifyBasicType(last) : TRUE
           IN  Made(<<type>>, type.text, <<>>, NoNumber)

-----------------------------------------------------------------------------
Blank == [kind |-> "", name |-> "", inputs |-> <<>>, outputs |-> <<>>, mutability |-> "nonpayable",
          payable |-> FALSE, anonymous |-> FALSE, energy |-> NoNumber, big |-> FALSE]
Named == {"error", "event", "function"}

\* Fragment.format, but for JSON.
Energy(fragment) ==
  IF fragment.energy = NoNumber THEN <<>> ELSE <<Word("@"), Sized("number", fragment.energy)>>
NamedInputs(f, format) == <<Word(f.name)>> \o joinParams(format, f.inputs)

FormatError(f, format) == <<Word("error")>> \o NamedInputs(f, format)

FormatEvent(f, format) ==
  <<Word("event")>> \o NamedInputs(f, format) \o (IF f.anonymous THEN <<Word("anonymous")>> ELSE <<>>)

FormatConstructor(f, format) ==
  <<Word("constructor")>> \o joinParams(format, f.inputs)
  \o <<Word(IF f.payable THEN "payable" ELSE "nonpayable")>> \o Energy(f)

FormatFallback(f) ==
  Texts(<<IF f.inputs = <<>> THEN "receive" ELSE "fallback", "(", ")">>)
  \o (IF f.payable THEN <<Word("payable")>> ELSE <<>>)

FormatFunction(f, format) ==
  <<Word("function")>> \o NamedInputs(f, format)
  \o (IF f.mutability = "nonpayable" THEN <<>> ELSE <<Word(f.mutability)>>)
  \o (IF f.outputs = <<>> THEN <<>> ELSE <<Word("returns")>> \o joinParams(format, f.outputs))
  \o Energy(f)

FormatFragment(f, format) ==
  CASE f.kind \in Named /\ format = "sighash" -> NamedInputs(f, format)
    [] f.kind = "error"       -> FormatError(f, format)
    [] f.kind = "event"       -> FormatEvent(f, format)
    [] f.kind = "constructor" -> FormatConstructor(f, format)
    [] f.kind = "fallback"    -> FormatFallback(f)
    [] f.kind = "function"    -> FormatFunction(f, format)

-----------------------------------------------------------------------------
\* consumeName: the name, behind its keyword or without any.
consumeName(kind, words) ==
  LET rest == IF words # <<>> /\ words[1].text \in KwTypes THEN Tail(words) ELSE words
  IN  IF Top(rest) = "ID" /\ (rest = words \/ words[1].text = kind)
      THEN Consumed(rest[1].text, Tail(rest)) ELSE Unexpected

\* consumeMutability; conflicts are not noticed, since allowSingle looks at none.
MutabilityOf(keywords) ==
  CASE "view" \in keywords     -> "view"
    [] "pure" \in keywords     -> "pure"
    [] "payable" \in keywords  -> "payable"
    [] "constant" \in keywords -> "view"
    [] OTHER                   -> "nonpayable"
consumeMutability(words) ==
  LET keywords == consumeKeywords(words, KwVisib) IN [keywords EXCEPT !.got = MutabilityOf(@)]

\* consumeEnergy.
consumeEnergy(words) ==
  IF Top(words) # "@" THEN Consumed(NoNumber, words)
  ELSE IF Top(Tail(words)) = "number" THEN Consumed(words[2].n, Beyond(words, 2)) ELSE Unexpected

OnlyBytes == <<Param("", <<Word("bytes")>>, "bytes", "null", <<>>, NoNumber)>>
IsBytes(params) == Len(params) = 1 /\ params[1].type = <<Word("bytes")>>
Demanded(part, condition(_)) == [part EXCEPT !.ok = @ /\ condition(part.got)]

\* What stands behind "returns", or nothing; a fallback returns bytes.
Returned(keywords, kind) ==
  IF "returns" \notin keywords.got THEN [keywords EXCEPT !.got = <<>>]
  ELSE IF kind = "fallback" THEN Demanded(consumeParams(keywords.rest, FALSE), IsBytes)
  ELSE consumeParams(keywords.rest, FALSE)
consumeReturns(words, kind) == Returned(consumeKeywords(words, {"returns"}), kind)

-----------------------------------------------------------------------------
\* What the text of a fragment consists of, in this order.
PartsOf(kind) ==
  CASE kind = "function"    -> <<"name", "inputs", "mutability", "outputs", "energy">>
    [] kind \in {"event", "error"} -> <<"name", "inputs">>
    [] kind = "constructor" -> <<"kind", "inputs", "payable", "energy">>
    [] kind = "fallback"    -> <<"kind", "inputs", "mutability", "outputs">>
    [] kind = "receive"     -> <<"kind", "inputs", "payable">>
AnyPart == {"kind", "name", "inputs", "mutability", "payable", "outputs", "energy"}

\* An event whose text says so is not anonymous: lex makes a name of the word.
consumePart(part, kind, words) ==
  CASE part = "kind"       -> consumeKeywords(words, {kind})
    [] part = "name"       -> consumeName(kind, words)
    [] part = "inputs"     -> consumeParams(words, kind = "event")
    [] part = "mutability" -> consumeMutability(words)
    [] part = "payable"    -> consumeKeywords(words, {"payable"})
    [] part = "outputs"    -> consumeReturns(words, kind)
    [] part = "energy"     -> consumeEnergy(words)

\* What each part got, as the set of what is read: nothing when a part is not
\* there, or something is left behind the last one (consumeEoi).
RECURSIVE ReadParts(_, _, _)
ReadOn(part, one, kind, parts) ==
  IF ~one.ok THEN {} ELSE {[got EXCEPT ![part] = one.got] : got \in ReadParts(kind, parts, one.rest)}
ReadParts(kind, parts, words) ==
  IF parts = <<>> THEN IF words = <<>> THEN {[part \in AnyPart |-> {}]} ELSE {}
  ELSE ReadOn(parts[1], consumePart(parts[1], kind, words), kind, Tail(parts))

Headed(kind, got) == [Blank EXCEPT !.kind = kind, !.name = got.name, !.inputs = got.inputs]

FunctionFromText(got) ==
  {[Headed("function", got) EXCEPT !.mutability = got.mutability, !.outputs = got.outputs,
                                   !.energy = got.energy, !.big = TRUE]}

ConstructorFromText(got) ==
  {[Blank EXCEPT !.kind = "constructor", !.inputs = got.inputs, !.payable = "payable" \in got.payable,
                 !.energy = got.energy, !.big = TRUE]}

\* receive takes nothing, a fallback nothing or bytes.
ReceiveFromText(got) == IF got.inputs = <<>> THEN {[Blank EXCEPT !.kind = "fallback", !.payable = TRUE]} ELSE {}
FallbackFromText(got) ==
  IF got.mutability \notin {"payable", "nonpayable"} \/ (got.inputs # <<>> /\ ~IsBytes(got.inputs)) THEN {}
  ELSE {[Blank EXCEPT !.kind = "fallback", !.payable = got.mutability = "payable",
                      !.inputs = IF got.inputs = <<>> THEN OnlyBytes ELSE got.inputs]}

\* Fragment.from a text, as the set of what it returns; a named one may lack its
\* keyword when its kind is asked for.
FromParts(kind, got) ==
  CASE kind = "function"    -> FunctionFromText(got)
    [] kind \in {"event", "error"} -> {Headed(kind, got)}
    [] kind = "constructor" -> ConstructorFromText(got)
    [] kind = "receive"     -> ReceiveFromText(got)
    [] kind = "fallback"    -> FallbackFromText(got)
NamedFromText(kind, words) == UNION {FromParts(kind, got) : got \in ReadParts(kind, PartsOf(kind), words)}
FragmentFromText(words) ==
  IF words = <<>> \/ words[1].text \notin KwTypes \ {"struct"} THEN {} ELSE NamedFromText(words[1].text, words)

-----------------------------------------------------------------------------
\* A fragment in JSON; a member that is not there is "none".
JsonFragment(type, name, inputs) ==
  [type |-> type, name |-> name, inputs |-> inputs, outputs |-> <<>>, stateMutability |-> "none",
   constant |-> "none", payable |-> "none", anonymous |-> FALSE, energy |-> NoNumber]
YesNo(condition) == IF condition THEN "yes" ELSE "no"

\* Fragment.format("json").
AllToJson(params) == [i \in DOMAIN params |-> ParamToJson(params[i])]
ErrorToJson(f) == JsonFragment("error", f.name, AllToJson(f.inputs))
EventToJson(f) == [JsonFragment("event", f.name, AllToJson(f.inputs)) EXCEPT !.anonymous = f.anonymous]

ConstructorToJson(f) ==
  [JsonFragment("constructor", "", AllToJson(f.inputs)) EXCEPT
     !.stateMutability = IF f.payable THEN "payable" ELSE "undefined",
     !.payable = YesNo(f.payable), !.energy = f.energy]

FallbackToJson(f) ==
  [JsonFragment(IF f.inputs = <<>> THEN "receive" ELSE "fallback", "", <<>>) EXCEPT
     !.stateMutability = IF f.payable THEN "payable" ELSE "nonpayable"]

FunctionToJson(f) ==
  [JsonFragment("function", f.name, AllToJson(f.inputs)) EXCEPT
     !.outputs = AllToJson(f.outputs), !.energy = f.energy,
     !.stateMutability = IF f.mutability = "nonpayable" THEN "none" ELSE f.mutability,
     !.constant = YesNo(f.mutability \in {"view", "pure"}), !.payable = YesNo(f.mutability = "payable")]

\* As the set of what it returns: an energy that was read from a text is a bigint,
\* which JSON.stringify refuses.
FragmentToJson(f) ==
  CASE f.energy # NoNumber /\ f.big -> {}
    [] f.kind = "error"       -> {ErrorToJson(f)}
    [] f.kind = "event"       -> {EventToJson(f)}
    [] f.kind = "constructor" -> {ConstructorToJson(f)}
    [] f.kind = "fallback"    -> {FallbackToJson(f)}
    [] f.kind = "function"    -> {FunctionToJson(f)}

\* The mutability of an older ABI, which does not name it.
Legacy(obj) ==
  CASE obj.stateMutability # "none" -> obj.stateMutability
    [] obj.constant = "yes" -> "view"
    [] obj.payable = "no"   -> "nonpayable"
    [] OTHER                -> "payable"

\* inputs.map(ParamType.from) passes the index of a parameter as allowIndexed.
AllFromJson(objs, isEvent) == AllConsumed([i \in DOMAIN objs |-> ParamFromJson(objs[i], isEvent \/ i > 1)], <<>>)

AllOk(parts, fragment) == IF \A i \in DOMAIN parts : parts[i].ok THEN {fragment} ELSE {}
Made(kind, obj, inputs) == [Blank EXCEPT !.kind = kind, !.name = obj.name, !.inputs = inputs.got]

ErrorFromJson(obj) ==
  LET inputs == AllFromJson(obj.inputs, FALSE) IN AllOk(<<inputs>>, Made("error", obj, inputs))

EventFromJson(obj) ==
  LET inputs == AllFromJson(obj.inputs, TRUE)
  IN  AllOk(<<inputs>>, [Made("event", obj, inputs) EXCEPT !.anonymous = obj.anonymous])

ConstructorFromJson(obj) ==
  LET inputs == AllFromJson(obj.inputs, FALSE)
  IN  AllOk(<<inputs>>, [Made("constructor", obj, inputs) EXCEPT
                             !.name = "", !.payable = obj.payable = "yes", !.energy = obj.energy])

FallbackFromJson(obj) ==
  IF obj.type = "receive" THEN [Blank EXCEPT !.kind = "fallback", !.payable = TRUE]
  ELSE [Blank EXCEPT !.kind = "fallback", !.inputs = OnlyBytes, !.payable = obj.stateMutability = "payable"]

FunctionFromJson(obj) ==
  LET inputs  == AllFromJson(obj.inputs, FALSE)
      outputs == AllFromJson(obj.outputs, FALSE)
  IN  AllOk(<<inputs, outputs>>, [Made("function", obj, inputs) EXCEPT
                                      !.outputs = outputs.got, !.mutability = Legacy(obj), !.energy = obj.energy])

\* Fragment.from an object, as the set of what it returns.
FragmentFromJson(obj) ==
  CASE obj.type = "error"       -> ErrorFromJson(obj)
    [] obj.type = "event"       -> EventFromJson(obj)
    [] obj.type = "constructor" -> ConstructorFromJson(obj)
    [] obj.type = "function"    -> FunctionFromJson(obj)
    [] obj.type \in {"fallback", "receive"} -> {FallbackFromJson(obj)}

-----------------------------------------------------------------------------
\* The same but for the spelling of a tuple's type and, in "minimal", the names.
RECURSIVE SameParam(_, _, _)
SameParam(p, q, names) ==
  /\ names => p.name = q.name
  /\ p.base = q.base /\ p.length = q.length /\ (p.indexed = "true") = (q.indexed = "true")
  /\ p.base \notin {"array", "tuple"} => p.type = q.type
  /\ Len(p.of) = Len(q.of) /\ \A i \in DOMAIN p.of : SameParam(p.of[i], q.of[i], names)
SameParams(ps, qs, names) == Len(ps) = Len(qs) /\ \A i \in DOMAIN ps : SameParam(ps[i], qs[i], names)
\* The name of a fallback's input is never written.
SameFragment(f, g, names) ==
  /\ [f EXCEPT !.inputs = <<>>, !.outputs = <<>>, !.big = FALSE] = [g EXCEPT !.inputs = <<>>, !.outputs = <<>>, !.big = FALSE]
  /\ SameParams(f.inputs, g.inputs, names /\ f.kind # "fallback") /\ SameParams(f.outputs, g.outputs, names)

\* The parameters of a fragment and those inside of them.
RECURSIVE Within(_)
Within(params) == UNION {{params[i]} \cup Within(params[i].of) : i \in DOMAIN params}
SomeOf(Like(_), f) == \E p \in Within(f.inputs \o f.outputs) : Like(p)

\* A tuple read from a text spells its components in its type and again behind it.
SpeltTwice(p) == p.base = "tuple" /\ Len(p.type) > 1
KeywordNamed(p) == p.name \in Keywords \cup BasicTypes
IsIndexed(p) == p.indexed = "true"
TupleArray(p) == p.base = "array" /\ p.of[1].base = "tuple"

\* The texts that cannot be read back are those of tuples spelt twice, anonymous
\* events, constructors that are not payable, names that are keywords, and indexed
\* parameters of anything but an event.
ReadableText(f, format) ==
  /\ ~SomeOf(SpeltTwice, f) /\ (SomeOf(IsIndexed, f) => f.kind = "event")
  /\ ~f.anonymous /\ (f.kind = "constructor" => f.payable)
  /\ (f.kind \in Named) => f.name \notin Keywords \cup BasicTypes
  /\ format = "full" => ~SomeOf(KeywordNamed, f)
TextComesBack(f, format) ==
  \A text \in {FormatFragment(f, format)} : \A back \in {FragmentFromText(text)} :
    /\ ReadableText(f, format) <=> back # {}
    /\ \A g \in back : SameFragment(f, g, format = "full")

\* The signature, which selectors and topics are hashes of, is that of the
\* fragment read from it; this is how one is looked up.
SignatureComesBack(f) ==
  \A signature \in {FormatFragment(f, "sighash")} : \A back \in {NamedFromText(f.kind, signature)} :
    /\ (f.name \notin Keywords \cup BasicTypes) <=> back # {}
    /\ \A g \in back : FormatFragment(g, "sighash") = signature

\* JSON comes back unless an array of tuples lost their components.
JsonComesBack(f) ==
  \A obj \in FragmentToJson(f) :
    \A back \in {FragmentFromJson(obj)} :
      /\ ~SomeOf(TupleArray, f) <=> back # {}
      /\ \A g \in back : SameFragment(f, g, TRUE)

FragmentComesBack(f) ==
  /\ \A format \in {"minimal", "full"} : TextComesBack(f, format)
  /\ f.kind \in Named => SignatureComesBack(f)
  /\ JsonComesBack(f)
=============================================================================
