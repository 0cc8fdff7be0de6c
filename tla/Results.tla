------------------------------- MODULE Results ------------------------------
(***************************************************************************)
(* What decoding returns: Result (abi/coders/abstract-coder.ts), an array  *)
(* whose items may be errors that are thrown when they are looked at and   *)
(* which has names for some of them.  And Typed (abi/typed.ts), a value    *)
(* with the type it is for.  An operator returns the set of what its       *)
(* function returns, empty when it throws.                                 *)
(***************************************************************************)
EXTENDS AbiCoding, FiniteSets

NoKey == "null"
Undefined == [Deferred EXCEPT !.is = "undefined"]
Method == [Deferred EXCEPT !.is = "method"]
Members == {"length", "toArray", "toObject", "map", "getValue"}   \* what every Result has
Inherited == {"toString"}                                        \* what every object has

\* The constructor: a name is kept if it is of one item only.
fromItems(items, keys) ==
  [items |-> items,
   names |-> [i \in DOMAIN items |->
     IF i \in DOMAIN keys /\ {j \in DOMAIN keys : keys[j] = keys[i]} = {i} THEN keys[i] ELSE NoKey]]

getValue(result, name) ==
  LET found == {i \in DOMAIN result.names : name # NoKey /\ result.names[i] = name}
  IN  IF found = {} THEN {Undefined} ELSE {result.items[i] : i \in found} \ {Deferred}

\* The get of the proxy: an index counts from 0.
ByIndex(result, index) == IF index + 1 \notin DOMAIN result.items THEN {} ELSE {result.items[index + 1]} \ {Deferred}
ByProperty(result, name) ==
  CASE name = "then"   -> {Undefined}
    [] name = "length" -> {Num(Len(result.items))}
    [] name # "length" /\ name \in Members \cup Inherited -> {Method}
    [] OTHER -> getValue(result, name)

ItemsFail(result) == \E i \in DOMAIN result.items : result.items[i] = Deferred
toArray(result) == IF ItemsFail(result) THEN {} ELSE {result.items}

\* An object already has what it inherits.
toObject(result) ==
  LET added == SelectSeq(result.names, LAMBDA name : name \notin Inherited)
  IN  IF NoKey \in ToSet(result.names) \/ \E name \in ToSet(added) : getValue(result, name) = {} THEN {}
      ELSE {[name \in ToSet(added) |-> CHOOSE v \in getValue(result, name) : TRUE]}

CountedFrom(at, length) == IF at >= 0 THEN at ELSE IF at + length < 0 THEN 0 ELSE at + length
sliceResult(result, start, end) ==
  LET length == Len(result.items)
      from   == CountedFrom(start, length)
      to     == IF end > length THEN length ELSE CountedFrom(end, length)
  IN  fromItems(SubSeq(result.items, from + 1, to), SubSeq(result.names, from + 1, to))

filterResult(result, callback(_)) ==
  LET kept == SelectSeq([i \in DOMAIN result.items |-> i], LAMBDA i : callback(result.items[i]))
  IN  IF ItemsFail(result) THEN {}
      ELSE {fromItems([i \in DOMAIN kept |-> result.items[kept[i]]], [i \in DOMAIN kept |-> result.names[kept[i]]])}

\* map, which is the array's own, makes its array by the constructor, given the length alone.
mapResult(result, callback(_)) ==
  fromItems(IF result.items = <<>> THEN <<Num(0)>> ELSE [i \in DOMAIN result.items |-> callback(result.items[i])], <<>>)

\* checkResultErrors: the path of every error.
RECURSIVE checkErrors(_, _)
checkErrors(path, items) ==
  {Append(path, i - 1) : i \in {i \in DOMAIN items : items[i] = Deferred}}
    \cup UNION {checkErrors(Append(path, i - 1), items[i].items) : i \in DOMAIN items}
checkResultErrors(result) == checkErrors(<<>>, result.items)

-----------------------------------------------------------------------------
\* n and b, and the factories: a width has bits, a size bytes.
TypedValue(kind, size, value) == [kind |-> kind, size |-> size, value |-> value]
typedNumber(value, width) == IF width < 0 THEN TypedValue("int", - width, value) ELSE TypedValue("uint", width, value)
typedBytes(value, size) == TypedValue(IF size = 0 THEN "bytes" ELSE "fixed", size, value)
uint(width, value) == typedNumber(value, width)
int(width, value) == typedNumber(value, - width)
bytesOf(size, value) == typedBytes(value, size)
Others(kind, value) == TypedValue(kind, 0, IF kind = "bool" THEN Num(IF value.num = 0 THEN 0 ELSE 1) ELSE value)
Factories(value) ==
  {uint(8 * k, value) : k \in 1 .. 32} \cup {int(8 * k, value) : k \in 1 .. 32} \cup {bytesOf(k, value) : k \in 1 .. 32}
    \cup {Others(kind, value) : kind \in {"address", "bool", "bytes", "string", "overrides"}}
TypeOf(typed) == <<typed.kind, typed.size>>
dereference(typed, type) == IF TypeOf(typed) = type THEN {typed.value} ELSE {}

-----------------------------------------------------------------------------
RECURSIVE HasError(_)
HasError(value) == value = Deferred \/ \E i \in DOMAIN value.items : HasError(value.items[i])

\* An item is found by its index, and by its name if no other has it; a name that every
\* Result has is of a method, and getValue still finds the item.
ItemsFound(result, keys) ==
  /\ \A i \in -1 .. Len(result.items) : (ByIndex(result, i) = {}) = (i \notin 0 .. Len(result.items) - 1 \/ <<i>> \in checkResultErrors(result))
  /\ \A i \in DOMAIN keys : i \in DOMAIN result.items =>
       LET same == {j \in DOMAIN keys : keys[j] = keys[i]}
       IN  /\ getValue(result, keys[i]) = IF same = {i} /\ keys[i] # NoKey THEN ByIndex(result, i - 1) ELSE {Undefined}
           /\ keys[i] \notin Members \cup Inherited \cup {"then"} => ByProperty(result, keys[i]) = getValue(result, keys[i])
  /\ \A object \in toObject(result) :
       /\ \A name \in DOMAIN object : name # NoKey /\ {object[name]} = getValue(result, name)
       /\ \A i \in DOMAIN result.items : result.names[i] \in DOMAIN object \cup Inherited

\* Parts of a result have the items and the names of that part, in order, and make it up.
PartsFound(result) ==
  LET length == Len(result.items)
  IN  /\ \A k \in 0 .. length :
           /\ sliceResult(result, 0, k).items \o sliceResult(result, k, length + 1).items = result.items
           /\ sliceResult(result, 0, k).names \o sliceResult(result, k, length).names = result.names
           /\ sliceResult(result, k - length - 1, length) = sliceResult(result, IF k = 0 THEN 0 ELSE k - 1, length)
      /\ sliceResult(result, 0, length) = result
      /\ \A kept \in filterResult(result, LAMBDA v : v.is = "number") :
           /\ toArray(result) # {} /\ kept.items = SelectSeq(result.items, LAMBDA v : v.is = "number")
           /\ \A name \in ToSet(kept.names) \ {NoKey} : getValue(kept, name) = getValue(result, name)
      /\ mapResult(result, LAMBDA v : v).items = IF length = 0 THEN <<Num(0)>> ELSE result.items

\* A result without errors anywhere is an array; a typed value is only taken for its type.
ResultComesBack(items, keys) ==
  LET result == fromItems(items, keys)
  IN  /\ ItemsFound(result, keys)
      /\ PartsFound(result)
      /\ (checkResultErrors(result) = {}) = ~HasError(Items(items))
      /\ checkResultErrors(result) = {} => toArray(result) = {items}
TypedComesBack(value) ==
  /\ \A k \in 1 .. 32 : TypeOf(int(8 * k, value)) = <<"int", 8 * k>> /\ TypeOf(uint(8 * k, value)) = <<"uint", 8 * k>>
  /\ \A typed, other \in Factories(value) :
       dereference(typed, TypeOf(other)) = IF typed = other THEN {IF typed.kind = "bool" THEN Num(IF value.num = 0 THEN 0 ELSE 1) ELSE value} ELSE {}
=============================================================================
