---------------------------- MODULE MCComponents ----------------------------
(***************************************************************************)
(* The components that follow the chain and the network through a          *)
(* provider, and the codecs and numbers.  They share no state, so each     *)
(* behaviour is of one of them and the others rest in one initial state.   *)
(***************************************************************************)
EXTENDS SocketSubscriptions, FilterSubscriber, ContractEvents, TransactionWait, FetchRetry,
        NetworkDetection, EventPolling, Codecs, FixedNumber, TypedDataTypes

VARIABLE active

vars == <<active, socketVars, filterVars, contractVars, waitVars, fetchVars, networkVars, eventVars,
          codecVars, fixedVars, typedVars>>

Parts == {"socket", "filter", "contract", "wait", "fetch", "network", "events", "codec", "fixed", "typed"}

Init ==
  /\ active \in Parts
  /\ SocketInit /\ FilterInit /\ ContractInit
  /\ WaitInit
  /\ active # "wait" => api = "wait" /\ confirms = 1 /\ ~hasTimeout /\ sentAt = 0
  /\ FetchInit
  /\ active # "fetch" => request.limit = MaxAttempts /\ ~request.hooks /\ request.scheme = "https" /\ request.get
  /\ NetworkInit
  /\ active # "network" => ~anyNetwork /\ given = NoNetwork
  /\ EventInit
  /\ active # "events" => logsIn = {}
  /\ CodecInit /\ FixedInit
  /\ IF active = "typed" THEN TypedInit ELSE TypedInit /\ fieldTypes = [t \in StructTypes |-> {}]

Socket(A) == active = "socket" /\ A /\ UNCHANGED <<active, filterVars, contractVars, waitVars, fetchVars, networkVars, eventVars, codecVars, fixedVars, typedVars>>
Filter(A) == active = "filter" /\ A /\ UNCHANGED <<active, socketVars, contractVars, waitVars, fetchVars, networkVars, eventVars, codecVars, fixedVars, typedVars>>
Contract(A) == active = "contract" /\ A /\ UNCHANGED <<active, socketVars, filterVars, waitVars, fetchVars, networkVars, eventVars, codecVars, fixedVars, typedVars>>
Wait(A) == active = "wait" /\ A /\ UNCHANGED <<active, socketVars, filterVars, contractVars, fetchVars, networkVars, eventVars, codecVars, fixedVars, typedVars>>
Fetch(A) == active = "fetch" /\ A /\ UNCHANGED <<active, socketVars, filterVars, contractVars, waitVars, networkVars, eventVars, codecVars, fixedVars, typedVars>>
Network(A) == active = "network" /\ A /\ UNCHANGED <<active, socketVars, filterVars, contractVars, waitVars, fetchVars, eventVars, codecVars, fixedVars, typedVars>>
Events(A) == active = "events" /\ A /\ UNCHANGED <<active, socketVars, filterVars, contractVars, waitVars, fetchVars, networkVars, codecVars, fixedVars, typedVars>>
Codec(A) == active = "codec" /\ A /\ UNCHANGED <<active, socketVars, filterVars, contractVars, waitVars, fetchVars, networkVars, eventVars, fixedVars, typedVars>>
Fixed(A) == active = "fixed" /\ A /\ UNCHANGED <<active, socketVars, filterVars, contractVars, waitVars, fetchVars, networkVars, eventVars, codecVars, typedVars>>
Typed(A) == active = "typed" /\ A /\ UNCHANGED <<active, socketVars, filterVars, contractVars, waitVars, fetchVars, networkVars, eventVars, codecVars, fixedVars>>

Next ==
  \/ Socket(SocketNext) \/ Filter(FilterNext) \/ Contract(ContractNext) \/ Wait(WaitNext)
  \/ Fetch(FetchNext) \/ Network(NetworkNext) \/ Events(EventNext)
  \/ Codec(CodecNext) \/ Fixed(FixedNext) \/ Typed(TypedNext)

\* Blocks keep coming and requests that were sent are answered.
Fairness ==
  /\ \A s \in SocketSubs : WF_vars(Socket(SocketProgress(s)))
  /\ WF_vars(Wait(WaitBlock("none")))
  /\ WF_vars(Wait(FirstReceipt)) /\ WF_vars(Wait(FirstConfirm)) /\ WF_vars(Wait(AfterFirst))
  /\ WF_vars(Wait(TxPollReturns)) /\ WF_vars(Wait(TxCheckReturns))
  /\ WF_vars(Wait(ReceiptOnly \/ FirstLook(FALSE) \/ Look(FALSE)))
  /\ WF_vars(Wait(scan # "none" /\ WaitStep /\ scanVars' # scanVars))

Spec == Init /\ [][Next]_vars /\ Fairness

-----------------------------------------------------------------------------
OneSub == {1}
UpTo3 == 1 .. 3
UpTo2 == 1 .. 2

Formats8 == {[signed |-> s, width |-> 8, decimals |-> d] : s \in BOOLEAN, d \in {0, 1, 2}}
Values8 == {-128, -127, -64, -15, -10, -1, 0, 1, 5, 10, 15, 49, 100, 127, 128, 255}
SeqsUpTo(n, S) == UNION {[1 .. k -> S] : k \in 0 .. n}

Repeated(b, n) == [i \in 1 .. n |-> b]
Strings == {RlpBytes(s) : s \in {<<>>, <<0>>, <<127>>, <<128>>, <<5, 200>>, Repeated(129, 55), Repeated(7, 56), Repeated(192, 256)}}
Short == {RlpBytes(<<>>), RlpBytes(<<0>>), RlpBytes(<<200>>), RlpBytes(Repeated(9, 53))}
Nested == {RlpList(items) : items \in SeqsUpTo(2, Short)}
Rlps == Strings \cup Nested \cup {RlpList(items) : items \in SeqsUpTo(2, Nested \cup Strings)}

Bytes == SeqsUpTo(4, {65, 128, 191, 193, 195, 224, 237, 160, 240, 144, 244})
Units == SeqsUpTo(3, {65, 127, 128, 2047, 2048, 55295, 55296, 56319, 56320, 57343, 57344, 65535})

U1 == Simple("uint", 1) 
I1 == Simple("int", 1)
I2 == Simple("int", 2)
A1 == Simple("address", 1)
B == Simple("bool", 0)
F == Simple("fixed", 1)
D == Simple("bytes", 0)
S == Simple("string", 0)
Values(t) ==
  CASE t \in {U1, A1} -> {Num(0), Num(255), Num(256)}
    [] t = I1 -> {Num(-128), Num(127), Num(-1), Num(128), Num(-129)}
    [] t = I2 -> {Num(-32768), Num(5)}
    [] t = B -> {Num(0), Num(1)}
    [] t = F -> {Data(<<7>>), Data(<<>>)}
    [] t = D -> {Data(<<>>), Data(<<1>>), Data(<<1, 2>>), Data(<<1, 2, 3>>)}
    [] t = S -> {Data(<<65>>), Data(<<233>>), Data(<<55296>>)}
RECURSIVE ValuesOf(_)
ValuesOf(t) ==
  CASE t.kind = "array" -> {Items(items) : items \in IF t.size = AnyLength THEN SeqsUpTo(2, ValuesOf(t.of[1])) ELSE [1 .. t.size -> ValuesOf(t.of[1])]}
    [] t.kind = "tuple" -> {Items(<<a, b>>) : a \in ValuesOf(t.of[1]), b \in ValuesOf(t.of[2])}
    [] OTHER -> Values(t)

Leaves == {U1, I1, I2, A1, B, F, D, S}
Compound == {AbiArray(t, n) : t \in {U1, D, S}, n \in {AnyLength, 0, 2}} \cup {AbiTuple(<<a, b>>) : a, b \in {B, D, S}}
Deep == {AbiArray(AbiArray(D, AnyLength), AnyLength), AbiArray(AbiTuple(<<B, D>>), AnyLength), AbiTuple(<<D, AbiTuple(<<B, D>>)>>), AbiTuple(<<AbiArray(B, 2), S>>)}
AbiIn == UNION {{[types |-> <<a, b>>, values |-> <<v, w>>] : v \in ValuesOf(a), w \in ValuesOf(b)} :
      a \in Leaves , b \in Leaves \cup Compound} \cup
   UNION {{[types |-> <<a, U1>>, values |-> <<v, Num(3)>>] : v \in ValuesOf(a)} : a \in Compound \cup Deep}
Words == {<<0, 0>>, <<0, 1>>, <<0, 2>>, <<0, 3>>, <<0, 4>>, <<255, 255>>, <<65, 0>>}
DataIn == {[types |-> <<t>>, data |-> FlattenSeq(ws) \o tail] : t \in Leaves \cup Compound \cup Deep, ws \in SeqsUpTo(3, Words), tail \in {<<>>, <<65>>}}

UintAndBool == Struct(1, <<U1, B>>)
StructsOf == {UintAndBool, Struct(3, <<AbiArray(A1, AnyLength), S>>), Struct(4, <<AbiArray(UintAndBool, 2), F>>), Struct(5, <<UintAndBool, D>>), Struct(6, <<A1, A1>>)}
ByName == Data(<<65>>)
UnknownName == Data(<<66>>)
StructValues(t) ==
  CASE t.size = 6 -> {Items(addresses) : addresses \in [1 .. 2 -> {Num(7), Num(256), ByName, UnknownName}]}
    [] t.size = 4 -> {Items(<<Items(pair), last>>) : pair \in UNION {[1 .. k -> {Items(<<n, Num(0)>>) : n \in Values(U1)}] : k \in 1 .. 2}, last \in Values(F)}
    [] OTHER -> ValuesOf(t)
Domain(values) == LET named == SelectSeq(<<"salt", "networkId", "name", "chain", "verifyingContract">>, LAMBDA key : key \in DOMAIN values)
                  IN  [i \in DOMAIN named |-> [key |-> named[i], value |-> values[named[i]]]]
Domains == {Domain(values) : values \in [name : {Data(<<65>>), Deferred}, verifyingContract : {Num(7), Num(256), ByName, Deferred}]
              \cup [salt : {Data(<<1, 2>>), Data(<<1>>)}, networkId : {Num(1), Num(-1)}] \cup [name : {Data(<<65>>)}, chain : {Num(1), Deferred}]}
NamesKnown == [v \in {Num(n) : n \in {0, 7, 255, 256}} \cup {ByName, UnknownName} |->
                IF v = ByName THEN {Num(7)} ELSE IF v = UnknownName THEN {} ELSE {v}]
Alike(type, value) ==
  {[otherType |-> Struct(2, <<U1, B>>), other |-> Items(<<Num(255), Num(1)>>)]} \cup
  {[otherType |-> type, other |-> other] : other \in {v \in StructValues(type) : v.items[2] = value.items[2]}}
StructsIn ==
  UNION {UNION {UNION {{[domain |-> d, type |-> type, value |-> value, otherType |-> that.otherType, other |-> that.other] :
                          d \in IF that.other = value \/ that.otherType # type THEN Domains ELSE {<<>>}} : that \in Alike(type, value)} :
                value \in StructValues(type)} : type \in StructsOf}

NetworkNames == {"mainnet", "homestead", "goerli", "sepolia", "matic", "xdai", "other"}
NetworksIn ==
  [network : {Networkish(is, name, NoId) : is \in {"null", "name", "object", "http", "ws"}, name \in NetworkNames}
               \cup {Networkish(is, NoName, id) : is \in {"number", "digits", "object"}, id \in {0, 1, 5, 42, 137}}
               \cup {Networkish(is, name, id) : is \in {"network", "object", "json"}, name \in NetworkNames, id \in {1, 137}},
   tx : {[create |-> TRUE, data |-> <<0, 1>>]},
   options : [infura : {NoName, "-", "own"}, secret : {NoName, "word"}, alchemy : {NoName, "-"}, ankr : {NoName, "-", "own"},
              cloudflare : {"-"}, quicknode : {"-"}]
      \cup [infura : {"-"}, secret : {NoName}, alchemy : {"-"}, ankr : {"-"}, cloudflare : {NoName, "-"}, quicknode : {NoName, "-", "own"}]]

SomeItems == {Num(1), Deferred, Items(<<Num(2)>>), Items(<<Items(<<Deferred>>), Num(2)>>)}
ResultsIn == [items : SeqsUpTo(3, SomeItems), keys : SeqsUpTo(3, {"null", "a", "length", "toString", "then"}) \cup {<<"a", "b", "c", "a">>}]

TypeTexts == {Texts(<<"address">>), <<Sized("uint", 8)>>, Texts(<<"uint">>), <<Sized("int", 7)>>, <<Sized("bytes", 33)>>,
  Texts(<<"tuple", "(", "uint", "a", ",", "string", ")">>), Texts(<<"(", "(", "bool", ")", "b", ",", "address", "c", ")">>)}
BracketTexts == {<<>>, <<Sized("[", 3)>>, <<Word("["), Sized("[", 3)>>}
ModifierTexts == {<<>>, Texts(<<"indexed">>), Texts(<<"memory", "indexed">>), Texts(<<"memory", "memory">>)}
ParamTexts == {type \o brackets \o modifiers \o name :
  type \in TypeTexts, brackets \in BracketTexts, modifiers \in ModifierTexts, name \in {<<>>, Texts(<<"x">>), Texts(<<"error">>)}}
SomeParams == {Texts(<<"uint">>), Texts(<<"address", "indexed", "to">>), Texts(<<"(", "bool", "b", ")", "[", "t">>)}
At5 == <<Word("@"), Sized("number", 5)>>
Endings == {<<>>, Texts(<<"view">>), Texts(<<"payable">>), Texts(<<"view", "payable", "external">>), Texts(<<"nonpayable">>),
  Texts(<<"anonymous">>), Texts(<<"returns", "(", "bytes", ")">>), At5, Texts(<<"@">>),
  Texts(<<"pure", "returns", "(", "uint", "a", ",", "bool", ")">>) \o At5}
Beginnings == {Texts(<<k, "foo">>) : k \in Named} \cup {<<Word(k)>> : k \in {"constructor", "fallback", "receive"}}
FragmentWords ==
  {b \o Parens(ps) : b \in Beginnings, ps \in [1 .. 1 -> ParamTexts] \cup SeqsUpTo(2, SomeParams)} \cup
  {b \o Parens(ps) \o ending : b \in Beginnings, ps \in {<<>>, <<Texts(<<"bytes">>)>>, <<Texts(<<"bool">>)>>}, ending \in Endings}

Plain(type, name, indexed) == Json(type, name, indexed, FALSE, <<>>)
BoolJson == Plain(Texts(<<"bool">>), "b", "null")
ParamJsons == {Plain(Texts(<<"address">>), "", "null"), Plain(Texts(<<"uint">>), "x", "false"), Plain(Texts(<<"bytes", "[">>), "x", "true"),
  Plain(Texts(<<"bool">>), "error", "null"), Json(Texts(<<"tuple", "[">>), "t", "null", TRUE, <<BoolJson>>),
  Json(Texts(<<"tuple">>), "t", "false", TRUE, <<BoolJson, Plain(<<Sized("int", 8), Word("[")>>, "", "null")>>)}
FragmentKinds == Named \cup {"constructor", "fallback", "receive"}
FragmentObjects ==
  {[JsonFragment(k, n, ins) EXCEPT !.outputs = outs, !.payable = p] : k \in FragmentKinds, n \in {"foo", "event"},
     ins \in SeqsUpTo(2, ParamJsons), outs \in SeqsUpTo(1, {BoolJson}), p \in {"none", "yes"}} \cup
  {[JsonFragment(k, "foo", <<>>) EXCEPT !.outputs = outs, !.stateMutability = m, !.constant = c, !.payable = p, !.anonymous = a, !.energy = e] :
     k \in FragmentKinds, outs \in SeqsUpTo(1, {BoolJson}), m \in {"none", "view", "pure", "payable"},
     c \in {"none", "yes", "no"}, p \in {"none", "yes", "no"}, a \in BOOLEAN, e \in {NoNumber, 5}}

HexInputsOf == [value : {HexInput("number", n, <<>>) : n \in {0, 1, 15, 16, 255, 256, 4096, 65535}} \cup
                        {HexInput(is, 0, data) : is \in {"bytes", "hex"}, data \in SeqsUpTo(3, {0, 1, 15})},
                hexPad : {"none", "left", "right"}]
BytesOfLength == [bytes : SeqsUpTo(3, {0, 1, 58, 255}), length : 0 .. 4]
StringsOfSize == [text : SeqsUpTo(3, {0, 65, 233, 55296, 56320}), size : {3, 4, 8}]
AddressesOf == {[prefix |-> <<12, 11>>, value |-> Repeated(0, 40)], [prefix |-> <<10, 11>>, value |-> [i \in 1 .. 40 |-> (i * 7) % 16]],
                [prefix |-> <<12, 14>>, value |-> [i \in 1 .. 40 |-> (i * 11) % 16]]}
SomeUnits == [given : {TRUE}, decimals : {0, 3, 18}] \cup [given : {FALSE}, decimals : {18}]
AmountsOf == [text : [neg : BOOLEAN, whole : SeqsUpTo(2, {0, 1, 9}) \cup {Repeated(1, 21), LimitDigits}, point : {TRUE}, decimals : SeqsUpTo(4, {0, 5})]
                     \cup [neg : BOOLEAN, whole : SeqsUpTo(2, {0, 1, 9}) \cup {LimitDigits}, point : {FALSE}, decimals : {<<>>}], unit : SomeUnits]
ExponentsOf == [text : {Scientific(neg, digits, e) : neg \in BOOLEAN, digits \in {<<0>>, <<1>>, <<7, 5>>, <<1, 0, 3>>}, e \in {-19, -7, -1, 0, 1, 2, 19, 20, 21}},
                unit : SomeUnits]

BigPairs == [n : {-256, -17, -16, -1, 0, 1, 7, 15, 16, 200, 255, 256}, m : {-3, -1, 0, 1, 3, 8, 16}]

EntropiesOf == {[entropy |-> [i \in 1 .. n |-> (a * i + i * i) % 256], otherWords |-> {Unlisted, 0, 5, 1023, 2047} \cup 100 .. 112] :
                   n \in {15, 16, 20, 24, 28, 32, 36}, a \in {0, 37}}
LatinWords == <<<<1, 2, 3>>, <<1, 2, 5, 769, 3>>, <<1, 11, 3>>, <<1, 23, 5, 771>>, <<3, 1, 769, 14, 1>>, <<3, 26, 3>>, <<26, 1, 769, 3, 5>>>>
WordsOf == {SetToSortSeq({LatinWords[i] : i \in I}, LAMBDA v, w : \E j, k \in I : j < k /\ LatinWords[j] = v /\ LatinWords[k] = w) :
              I \in {I \in SUBSET (1 .. Len(LatinWords)) : Cardinality(I) \in {4, 7}}}
BitsIn == [width : 2 .. 6, values : SeqsUpTo(3, {1, 3, 4, 63, 200})]
HanOf == LET Han == {[cn |-> <<228, 184, 128>>, tw |-> <<228, 184, 128>>], [cn |-> <<228, 186, 142>>, tw |-> <<230, 150, 188>>],
                     [cn |-> <<232, 191, 153>>, tw |-> <<233, 128, 153>>], [cn |-> <<228, 184, 186>>, tw |-> <<228, 184, 187>>],
                     [cn |-> <<229, 141, 151>>, tw |-> <<229, 142, 151>>]}
         IN  SeqsUpTo(3, Han)

SomeMnemonic(locale, password) == [entropy |-> <<"entropy">>, locale |-> locale, password |-> password]
ComponentsOf == {Hardened(0), Component(0, FALSE), Component(1, FALSE), NoComponent}
RootOf(mnemonic) == FromSeed(mnemonicToSeed(mnemonic), <<mnemonic>>, "cb", RootPath)
PathsIn == UNION {[root : {RootOf(SomeMnemonic("en", "")), fromSeed(<<"own">>, "ab", <<Hardened(1)>>)},
                   path : [1 .. n -> ComponentsOf], place : 0 .. n] : n \in 0 .. 3}
WalletsOf == UNION {Wallet(PrivateKey(<<"own">>, 57), "cb"), {fromSeed(<<"own">>, "ab", <<Hardened(1)>>)},
                    UNION {fromMnemonic(SomeMnemonic(locale, password), "cb", path) :
                             locale \in {"en", "fr"}, password \in {"", "word"}, path \in {<<>>, <<Hardened(1)>>, DefaultJsonPath}}}
Passwords == [text : BOOLEAN, normal : {"fi", "fl"}, form : {"composed", "ligature"}]
ChangesOf ==
  LET Another == Has(<<"aes", <<"other">>, "iv", <<"other">>>>)
      Changed == [version |-> {Has("2")}, encseed |-> {Has("seed")}, cipher |-> {Has("aes-128-cbc")}, iv |-> {Has("other")},
                  address |-> {Has([prefix |-> prefix, value |-> value, valid |-> valid]) :
                                 prefix \in {"cb", "ab"}, valid \in BOOLEAN,
                                 value \in {computePublicKey(PrivateKey(<<"own">>, 57)), computePublicKey(PrivateKey(<<"other">>, 57))}},
                  ciphertext |-> {Another}, mac |-> {Has(<<"sha256", <<"mac", <<"other">>>>, <<"other">>>>)}, kdf |-> {Has("pbkdf2"), Has("none")},
                  salt |-> {Has("other")}, n |-> {Has(4096), Has(3)}, r |-> {Has(16), Has(0)}, p |-> {Has(2), Has(0)}, dklen |-> {Has(16)},
                  own |-> {Has("0.1"), Has("0.2")}, counter |-> {Has("other")}, path |-> {Has(<<Hardened(2)>>), Has(<<NoComponent>>)},
                  locale |-> {Has("fr"), Has("en")}, mnemonic |-> {Another, Has(<<"short", <<"other">>, "iv", <<"other">>>>)}]
  IN  UNION {{field} \X (Changed[field] \cup {Missing, Mistyped}) : field \in DOMAIN Changed}
KeystoresOf ==
  LET Given(wallets, passwords, options, changes) ==
        [wallet : wallets, password : passwords, other : Passwords, options : options, change : changes]
      unchanged == {<<"own", Missing>>}
      default   == <<0, 0, 0>>
      composed  == [text |-> TRUE, normal |-> "fi", form |-> "composed"]
  IN  Given(WalletsOf, {composed}, {default}, ChangesOf) \cup Given(WalletsOf, Passwords, {default}, unchanged)
      \cup Given(Wallet(PrivateKey(<<"own">>, 57), "cb"), {composed}, [1 .. 3 -> {0, 2, 3, 2 ^ 18}], unchanged)
OtherKeystoresOf == [wallet : WalletsOf, password : Passwords, other : Passwords, hash : {"sha3-256", "sha256", "sha512"}]

InputOf(type) == Input(type, FALSE)
Foos == {Member("foo", <<>>, 1000, FALSE), Member("foo", <<InputOf(U1)>>, 1001, FALSE), Member("foo", <<InputOf(B)>>, 1002, FALSE),
         Member("foo", <<InputOf(U1), InputOf(B)>>, 1003, FALSE)}
Bar == Member("bar", <<InputOf(U1)>>, 1004, FALSE)
SomeArgs == {Arg("value", B, Num(1)), Arg("value", U1, Num(300)), Arg("typed", U1, Num(7)), Arg("typed", B, Num(0)),
             Arg("options", B, Num(0)), Arg("typed options", B, Num(0)), Arg("bad options", B, Num(0))}
SomeCalls == {[functions |-> Append(SetToSeq(fs), Bar), key |-> key, args |-> args] : fs \in SUBSET Foos,
  key \in {Key("name", "foo", 0), Key("signature", "foo", 1001), Key("selector", "foo", 1003)},
  args \in SeqsUpTo(2, SomeArgs) \cup {<<a, b, Arg("options", B, Num(0))>> : a, b \in SomeArgs}}

EventInputs(indexed, types) == [i \in DOMAIN types |-> Input(types[i], indexed[i])]
SomeEvents ==
  {Member("log", EventInputs(indexed, <<a, b>>), 2000, FALSE) : indexed \in {<<TRUE, TRUE>>, <<TRUE, FALSE>>, <<FALSE, TRUE>>},
     a \in {U1, I1, S}, b \in {A1, B, F, D, AbiArray(U1, 1)}} \cup
  {Member("log", EventInputs(<<TRUE, TRUE>>, <<a, b>>), 2000, TRUE) : a \in {I1, S}, b \in {A1, D}}
TwoOf(type) ==
  CASE type.kind \in {"uint", "address"} -> {Num(5), Num(255)}
    [] type.kind = "int"   -> {Num(-1), Num(127)}
    [] type.kind = "array" -> {Items(<<Num(5)>>), Items(<<Num(7)>>)}
    [] type.kind = "fixed" -> {Data(<<0>>), Data(<<7>>)}
    [] OTHER -> ValuesOf(type) \ {Data(<<>>)}
Patterns(type) == {Pattern("null", {}), Pattern("many", TwoOf(type))} \cup {Pattern("one", {v}) : v \in TwoOf(type)}
OtherEvent(name) == Member(name, <<InputOf(U1)>>, 2001, FALSE)
PatternsOf(event) ==
  {<<>>} \cup {<<p>> : p \in Patterns(event.inputs[1].type)}
    \cup {<<p, q>> : p \in {Pattern("null", {}), Pattern("many", TwoOf(event.inputs[1].type))}, q \in Patterns(event.inputs[2].type)}
LogsOf(event, name, key, manyPatterns) ==
  {[events |-> <<OtherEvent(name), event>>, event |-> event, key |-> key, values |-> values, patterns |-> patterns] :
     values \in {<<v, w>> : v \in TwoOf(event.inputs[1].type), w \in TwoOf(event.inputs[2].type)}, patterns \in manyPatterns}
Logs == UNION {LogsOf(event, "other", Key("name", "log", 0), PatternsOf(event))
                 \cup LogsOf(event, "log", Key("name", "log", 0), {<<Pattern("null", {})>>})
                 \cup LogsOf(event, "log", Key("signature", "log", 2001), {<<Pattern("null", {})>>}) : event \in SomeEvents}

SomeErrors == {Member("Low", <<>>, 3000, FALSE), Member("Low", <<InputOf(U1), InputOf(S)>>, 3001, FALSE),
               Member("Error", <<InputOf(S)>>, 3002, FALSE)}
RevertsOf(error) == {[errors |-> SetToSeq(errors), error |-> error, values |-> values] :
  errors \in SUBSET SomeErrors,
  values \in IF error.inputs = <<>> THEN {<<>>} ELSE {[i \in DOMAIN error.inputs |-> IF error.inputs[i].type = S THEN s ELSE Num(9)] : s \in Values(S)}}
ManyReverts == UNION {RevertsOf(error) : error \in SomeErrors \cup {ErrorString}}

Txs == [nonce : {0, 1, 128, 256}, energyPrice : {0, 5}, energyLimit : {0, 300}, to : {<<>>, <<0, 7>>, <<0, 0>>},
        value : {0, 65535, 65536, -1}, data : {<<>>, <<0>>, Repeated(9, 60)}, networkId : {0, 1, 2, 3, 10, 11}]
Sigs == {<<>>, <<0>>, Repeated(171, 171)}

AnAddress(n, case) == <<"address", n, case>>
SomeNode(price) == [height |-> 7, network |-> <<"bigint", 1>>, nonce |-> <<"number", 4>>, energy |-> <<"bigint", 50>>, price |-> price]
AddressValues == {NullValue, NoText, AnAddress(1, "lower"), AnAddress(1, "upper"), AnAddress(2, "lower"),
                  <<"addressable", 1, "upper">>, <<"addressable", 0, "lower">>, <<"text", "name">>}
NumberValues == {NullValue, <<"number", 5>>, <<"hex", 1>>, <<"digits", -3>>, <<"number", 2000>>, <<"bigint", 2000>>, <<"text", "five">>}
RequestFields ==
  [to |-> AddressValues, from |-> AddressValues,
   data |-> {NullValue, NoText, <<"data", 3, "upper">>, <<"data", 3, "bytes">>, <<"data", 3, "odd">>},
   networkId |-> {<<"number", 1>>, <<"number", 2>>, NullValue}, energyLimit |-> NumberValues, energyPrice |-> NumberValues, value |-> NumberValues,
   type |-> NumberValues, nonce |-> NumberValues,
   blockTag |-> {NullValue, <<"tag", "earliest">>, <<"tag", "pending">>, <<"tag", "next">>, <<"hash", 1>>, <<"hex", 3>>, <<"number", -2>>,
                 <<"number", -8>>, <<"bigint", 6>>, <<"bigint", 2000>>},
   customData |-> {<<"data", 9, "lower">>}]
FullRequest == [to |-> AnAddress(2, "upper"), from |-> AnAddress(1, "upper"), data |-> <<"data", 3, "lower">>, networkId |-> <<"hex", 1>>,
                energyLimit |-> <<"number", 21>>, energyPrice |-> <<"digits", 2>>, value |-> <<"number", 8>>, type |-> <<"number", 0>>,
                nonce |-> <<"number", 0>>, blockTag |-> NullValue, customData |-> NullValue]
RequestsIn ==
  LET keys   == DOMAIN RequestFields
      Single(k) == {[f \in {k} |-> v] : v \in RequestFields[k]}
      single == UNION {Single(k) : k \in keys}
      Of(requests) == [signer : {AnAddress(1, "lower")}, request : requests, node : {SomeNode(<<"bigint", 9>>)}]
  IN  Of({<<>>} \cup {r @@ s : r, s \in single} \cup {s @@ FullRequest : s \in single}
         \cup {[k \in keys \ {without} |-> FullRequest[k]] : without \in keys})
      \cup [signer : {AnAddress(1, "lower")}, request : single, node : {SomeNode(NullValue)}]

TopicsIn == {<<"topic", t, case>> : t \in 1 .. 2, case \in {"lower", "upper"}}
BlocksIn == {NullValue, <<"number", 3>>, <<"number", -2>>, <<"tag", "next">>}
FiltersIn == [node : {SomeNode(NullValue)}, filter :
  [topics : {NullValue} \cup SeqsUpTo(1, TopicsIn \cup {NullValue} \cup {<<"many", ts>> : ts \in SeqsUpTo(3, TopicsIn)}),
   address : {NullValue} \cup SeqsUpTo(2, AddressValues \ {NullValue, NoText})]
  \cup [address : SeqsUpTo(3, {AnAddress(n, case) : n \in 1 .. 2, case \in {"lower", "upper"}}), fromBlock : BlocksIn, blockHash : {NullValue, <<"hash", 1>>}]
  \cup [blockHash : {<<"hash", 1>>}] \cup [fromBlock : BlocksIn, toBlock : BlocksIn]]

Answered(is, good, servers) == [is |-> is, good |-> good, servers |-> servers]
LookupsIn == {Answered("lookup", good, servers) : good \in BOOLEAN, servers \in SeqsUpTo(3, {"data", "none", "4xx", "5xx"})}
AnswersIn == LET last == {Answered("result", TRUE, <<>>), Answered("error", TRUE, <<>>), Answered("lookup", TRUE, <<"5xx", "data">>)}
             IN  {<<l, a>> : l \in LookupsIn, a \in last} \cup {<<a>> : a \in last}
                 \cup {Append(Repeated(Answered("lookup", TRUE, <<"data">>), n), a) : n \in 8 .. 11, a \in last}

AHash(n) == <<"hash", n>>
Quantity(n) == <<"hex", n>>
ATransaction(n) == [hash |-> AHash(n), type |-> <<"text", "0x">>, blockHash |-> AHash(3), blockNumber |-> Quantity(5), transactionIndex |-> Quantity(1),
  from |-> AnAddress(1, "lower"), to |-> AnAddress(2, "upper"), energyLimit |-> Quantity(50), energyPrice |-> Quantity(9), value |-> Quantity(8),
  nonce |-> Quantity(4), data |-> <<"data", 3, "upper">>, networkId |-> Quantity(1), signature |-> <<"data", 6, "lower">>]
\* One field missing, or another; at most two of those that matter to each other.
Varied(answer, fields) ==
  {answer} \cup {[k \in DOMAIN answer \ {key} |-> answer[k]] : key \in DOMAIN answer}
    \cup UNION {{[k \in DOMAIN answer \cup {key} |-> IF k = key THEN v ELSE answer[k]] : v \in fields[key]} : key \in DOMAIN fields}
OddOf(key) == {NullValue, Quantity(0), <<"number", 2000>>, <<"text", "what">>}
  \cup (IF key \in {"hash", "blockHash", "parentHash", "transactionHash"} THEN {AHash(0), <<"data", 3, "odd">>} ELSE {})
  \cup (IF key \in {"data", "extraData", "root"} THEN {<<"data", 3, "odd">>} ELSE {})
TransactionsRead ==
  LET Nil == {NullValue}
      changes == [to : Nil \cup {AnAddress(2, "lower")}, creates : Nil \cup {AnAddress(2, "lower")}, signature : Nil \cup {<<"data", 6, "lower">>},
                  networkId : Nil \cup {<<"number", 3>>}, legacynetworkId : Nil \cup {<<"number", 3>>}, blockHash : Nil \cup {AHash(0), AHash(3)}]
  IN  {change @@ ATransaction(1) : change \in changes}
      \cup Varied(ATransaction(1), [k \in DOMAIN ATransaction(1) \cup {"creates", "maxFeePerEnergy"} |-> OddOf(k)])
ALog == [removed |-> NullValue, transactionIndex |-> Quantity(1), blockNumber |-> Quantity(5), transactionHash |-> AHash(1), address |-> AnAddress(2, "upper"),
         topics |-> <<"list", <<AHash(7), AHash(8)>>>>, data |-> <<"data", 3, "lower">>, logIndex |-> Quantity(2), blockHash |-> AHash(3)]
LogsRead == Varied(ALog, [k \in DOMAIN ALog \cup {"index"} |-> OddOf(k) \cup IF k = "removed" THEN {<<"boolean", TRUE>>, <<"text", "FALSE">>, <<"text", "TRUE">>}
                                                                   ELSE IF k = "topics" THEN {<<"list", <<>>>>, <<"list", <<Quantity(1)>>>>} ELSE {}])
AReceipt == [to |-> AnAddress(2, "lower"), from |-> AnAddress(1, "lower"), transactionIndex |-> Quantity(1), energyUsed |-> Quantity(21),
  cumulativeEnergyUsed |-> Quantity(30), blockHash |-> AHash(3), transactionHash |-> AHash(1), blockNumber |-> Quantity(5), status |-> Quantity(1),
  logs |-> <<"list", <<ALog>>>>, root |-> <<"data", 3, "upper">>]
NoPrice == <<"none">>
Prices == {NoPrice, NullValue, Quantity(0), Quantity(9)}
ReceiptsRead ==
  LET Priced(p, e) == [k \in {"energyPrice"} |-> p] @@ [k \in {"effectiveEnergyPrice"} |-> e]
      priced == {[k \in DOMAIN AReceipt \cup {k \in DOMAIN Priced(p, e) : Priced(p, e)[k] # NoPrice} |->
                    IF k \in DOMAIN AReceipt THEN AReceipt[k] ELSE Priced(p, e)[k]] : p, e \in Prices}
      varied == Varied([energyPrice |-> Quantity(7)] @@ AReceipt,
                       [k \in DOMAIN AReceipt \ {"logs"} |-> OddOf(k)] @@ [logs |-> {<<"list", <<>>>>, <<"list", <<ALog, [ALog EXCEPT !.data = Quantity(1)]>>>>}])
  IN  [receipt : priced, txs : {{}, {ATransaction(1)}, {[ATransaction(1) EXCEPT !.energyPrice = NullValue]}}] \cup [receipt : varied, txs : {{}}]
ABlock == [hash |-> AHash(3), parentHash |-> AHash(2), number |-> Quantity(5), timestamp |-> Quantity(100), nonce |-> NullValue, difficulty |-> Quantity(1),
  energyLimit |-> Quantity(60), energyUsed |-> Quantity(21), miner |-> AnAddress(2, "lower"), extraData |-> <<"data", 3, "lower">>]
BlocksRead ==
  LET Txs2(is) == {<<"list", [i \in DOMAIN s |-> IF is = "hash" THEN AHash(s[i]) ELSE <<"tx", ATransaction(s[i])>>]>> : s \in SeqsUpTo(3, 1 .. 3)}
  IN  {[transactions |-> txs] @@ ABlock : txs \in Txs2("hash") \cup Txs2("tx")}
      \cup Varied([transactions |-> <<"list", <<AHash(1)>>>>] @@ ABlock, [k \in DOMAIN ABlock |-> OddOf(k)])

\* All the filters of few topics and addresses with a few of them.
Filtered(topics, address) == [topics |-> topics, address |-> address]
ListOf(items, n) == {NullValue} \cup {<<"list", s>> : s \in SeqsUpTo(n, items)}
EventFilters == [topics : ListOf(TopicsIn \cup {NullValue} \cup {<<"many", ts>> : ts \in SeqsUpTo(2, TopicsIn)}, 1),
                 address : ListOf({AnAddress(n, case) : n \in 1 .. 2, case \in {"lower", "upper"}} \cup {<<"addressable", n, "upper">> : n \in 0 .. 1}, 2)]
ATopic(t) == <<"topic", t, "lower">>
AFewFilters == {Filtered(<<"list", <<ATopic(1)>>>>, NullValue), Filtered(<<"list", <<NullValue, ATopic(2)>>>>, <<"list", <<AnAddress(1, "lower")>>>>),
                Filtered(<<"list", <<<<"many", <<ATopic(2), ATopic(1)>>>>>>>>, <<"list", <<AnAddress(2, "upper"), AnAddress(1, "lower")>>>>)}
FiltersPaired == [filter : EventFilters, other : AFewFilters, name : {"block"}]
            \cup [filter : AFewFilters, other : AFewFilters, name : {"pending", "debug", "error", "network", "close", "block"}]
RemovedLog == [ALog EXCEPT !.removed = <<"boolean", TRUE>>]
LogsIn == [log : LogsRead, other : {ALog, RemovedLog}, filter : {Filtered(NullValue, NullValue)} \cup AFewFilters]
          \cup [log : {RemovedLog}, other : LogsRead \cup {[change @@ RemovedLog EXCEPT !.logIndex = Quantity(3)] : change \in {[index |-> Quantity(2)], [data |-> <<"data", 3, "upper">>]}}, filter : AFewFilters]
TransactionsIn == [tx : TransactionsRead, other : {ATransaction(1), ATransaction(2), [ATransaction(1) EXCEPT !.data = <<"data", 3, "lower">>]}]
BlocksPaired == [block : BlocksRead, other : {[transactions |-> <<"list", <<>>>>] @@ b : b \in {ABlock, [ABlock EXCEPT !.number = Quantity(6)], [ABlock EXCEPT !.hash = NullValue]}}]

\* Contracts of every kind of target, with the runners that matter.
Features == {"call", "estimateEnergy", "resolveName", "sendTransaction"}
TargetsIn == {<<"hex", 2>>, AnAddress(2, "upper"), <<"addressable", 2, "lower">>, <<"addressable", NoAddress, "lower">>, <<"text", "name">>}
AllRunners == {{}} \cup {{Runner(can, providers)} : can \in SUBSET Features, providers \in {{}} \cup {{p} : p \in SUBSET {"call", "resolveName"}}}
SomeRunners == {{}, {Runner({"call", "estimateEnergy", "resolveName", "sendTransaction"}, {})}, {Runner({}, {{"call", "resolveName"}})},
                {Runner({"sendTransaction", "resolveName"}, {{"call"}})}}
ContractsIn == [target : TargetsIn, runners : AllRunners, others : SomeRunners]
Wei(n) == <<"bigint", n>>
OptionsIn == {<<"options", o>> : o \in {<<>>, [nonce |-> <<"number", 2>>], [value |-> <<"digits", 3>>, customData |-> <<"data", 9, "lower">>],
                                        [from |-> <<"addressable", 1, "upper">>, value |-> Wei(0)], [from |-> <<"text", "name">>],
                                        [to |-> AnAddress(1, "lower")], [to |-> NullValue, data |-> NoText], [data |-> <<"data", 3, "upper">>],
                                        [data |-> NoData, value |-> NullValue], [energyLimit |-> <<"number", 2000>>]}}
NoArguments == [inputs |-> <<>>, calls |-> {[args |-> <<>>, same |-> <<>>], [args |-> <<Wei(1)>>, same |-> <<Wei(1)>>]}]
Taking(type, values) == [inputs |-> <<Leaf("number"), type>>, calls |-> {[args |-> <<Wei(1), v>>, same |-> <<Wei(1), v>>] : v \in values}]
Same(type, v, w) == [inputs |-> <<type>>, calls |-> {[args |-> <<v>>, same |-> <<w>>]}]
Addresses2 == {AnAddress(1, "upper"), <<"addressable", 1, "upper">>, <<"addressable", NoAddress, "lower">>, <<"text", "name">>, NullValue}
AddressAndMore(a, b) == Tupled(<<a, b>>, <<Leaf("address"), Listing(1, Leaf("number"))>>)
PairOf(v, w) == <<"list", <<v, <<"list", <<w>>>>>>>>
Parameters ==
  {NoArguments, Taking(Leaf("number"), {Wei(5), NullValue, <<"typed", "number", Wei(5)>>, <<"typed", "bool", Wei(5)>>, <<"typed", "number", NullValue>>}),
   Taking(Leaf("address"), Addresses2 \cup {<<"typed", "address", v>> : v \in Addresses2})}
  \cup {Taking(Listing(n, Leaf("address")), {<<"list", s>> : s \in SeqsUpTo(2, Addresses2)} \cup {AnAddress(1, "lower"), NullValue}) : n \in {AnyCount, 0, 2}}
  \cup {Taking(AddressAndMore("a", "b"), {PairOf(v, w) : v \in Addresses2, w \in {Wei(1), NullValue}} \cup {<<"list", <<>>>>, <<"list", <<AnAddress(1, "lower")>>>>, NullValue, <<"object", [a |-> AnAddress(1, "lower")]>>}),
        Same(AddressAndMore("a", "b"), PairOf(AnAddress(1, "upper"), Wei(7)), <<"object", [a |-> <<"addressable", 1, "upper">>, b |-> <<"list", <<Wei(7)>>>>]>>),
        Taking(AddressAndMore("a", ""), {<<"object", [a |-> AnAddress(1, "lower"), b |-> <<"list", <<Wei(7)>>>>]>>})}
CallsOf(parameters, targets, runners, constants, options) ==
  [target : targets, runners : runners, method : [inputs : {parameters.inputs}, name : {"f"}, constant : constants], call : parameters.calls, options : options]
MethodsIn == UNION {CallsOf(p, TargetsIn, {{Runner(Features, {})}}, {TRUE}, {NoField, CHOOSE o \in OptionsIn : DOMAIN o[2] = {"nonce"}}) : p \in Parameters}
        \cup CallsOf(Taking(Leaf("address"), {AnAddress(1, "upper")}), {<<"hex", 2>>, AnAddress(2, "upper")}, AllRunners, BOOLEAN, OptionsIn)
FallbacksIn == [target : TargetsIn, runners : SomeRunners, takes : [receive : BOOLEAN, fallback : {"none", "plain", "payable"}], options : OptionsIn]
DeploymentsIn ==
  LET Of(p, runners, args, options, codes) ==
        [factory : [inputs : {p.inputs}, bytecode : {"code"}, runners : runners], sender : {AnAddress(1, "upper")}, args : args, options : options, codes : codes]
  IN  UNION {Of(p, {{Runner(Features, {{}})}}, {c.args : c \in p.calls}, {NoField}, {<<>>}) : p \in Parameters}
      \cup Of(NoArguments, AllRunners, {<<>>}, {NoField} \cup OptionsIn, {<<>>, <<"none", "code">>})
      \cup Of(NoArguments, SomeRunners, {<<>>}, {NoField}, SeqsUpTo(3, {"none", "code", "fails"}))
EventsIn == {[topic |-> 1, indexed |-> 0], [topic |-> 2, indexed |-> 1]}
NamedEvents == {<<"event", 1>>, <<"event", 2>>, <<"event", 3>>}
ContractTopics == NamedEvents \cup TopicsIn
AFewTopics == {<<"event", 1>>, <<"topic", 1, "upper">>, <<"topic", 2, "lower">>, NullValue, <<"many", <<<<"topic", 2, "upper">>, <<"event", 1>>>>>>, <<"many", <<>>>>}
ContractNames == {<<"all">>, <<"deferred", <<<<"topic", 1, "upper">>, NullValue>>>>} \cup NamedEvents \cup TopicsIn
EventsAsked == ContractNames
  \cup {<<"topics", s>> : s \in SeqsUpTo(2, AFewTopics) \cup SeqsUpTo(1, {<<"many", ts>> : ts \in SeqsUpTo(2, ContractTopics)})}
ContractEventsIn == [events : SUBSET EventsIn, event : ContractNames, other : EventsAsked]
               \cup [events : {EventsIn}, event : {<<"topics", s>> : s \in SeqsUpTo(2, AFewTopics)}, other : EventsAsked]
LoggedTopics == {<<>>} \cup {<<ATopic(n)>> : n \in 1 .. 3} \cup {<<ATopic(n), ATopic(1)>> : n \in 1 .. 2}
QueriesIn ==
  LET ContractsOf(targets, runners) == UNION {BaseContract(t, r, {}) : t \in targets, r \in runners}
      LoggedUpTo(n) == {[i \in DOMAIN s |-> [topics |-> s[i]]] : s \in SeqsUpTo(n, LoggedTopics)}
      Of(contracts, events, first, last, logs) == [contract : contracts, events : {EventsIn}, event : events, from : first, to : last, logs : logs]
      one == ContractsOf({AnAddress(2, "upper")}, {{Runner({}, {{"call", "resolveName"}})}})
  IN  Of(one, {<<"all">>, <<"event", 2>>, <<"event", 1>>, <<"topics", <<>>>>, <<"topic", 1, "lower">>}, {NullValue, <<"number", 3>>}, {NullValue, <<"tag", "pending">>}, LoggedUpTo(2))
      \cup Of(ContractsOf(TargetsIn, SomeRunners), ContractNames, {NullValue}, {NullValue}, LoggedUpTo(1))
=============================================================================
