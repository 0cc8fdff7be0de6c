------------------------- MODULE TransactionCoding --------------------------
(***************************************************************************)
(* encodeRlp and decodeRlp (utils/rlp-encode.ts, utils/rlp-decode.ts; the  *)
(* older crypto/rlp.ts encodes alike): bytes are numbers, an object is a   *)
(* list of objects or bytes, positions count from 1.                       *)
(*                                                                         *)
(* serialize, parse and Transaction.from (transaction/transaction.ts) over *)
(* this encoding: sha256 and the recovery of the signer are the terms of   *)
(* what they are called with; addresses are bytes, their checksum is left  *)
(* out.  No signature is <<>>.                                             *)
(***************************************************************************)
EXTENDS Integers, Sequences, SequencesExt

RlpBytes(bytes) == [list |-> FALSE, bytes |-> bytes, items |-> <<>>]
RlpList(items) == [list |-> TRUE, bytes |-> <<>>, items |-> items]

RECURSIVE arrayifyInteger(_)
arrayifyInteger(n) == IF n = 0 THEN <<>> ELSE Append(arrayifyInteger(n \div 256), n % 256)

unarrayifyInteger(data, offset, length) ==
  FoldLeft(LAMBDA n, b : n * 256 + b, 0, SubSeq(data, offset, offset + length - 1))

\* Short ones have their length in the first byte, long ones behind it.
Prefixed(payload, short, long) ==
  LET length == arrayifyInteger(Len(payload))
  IN  IF Len(payload) <= 55 THEN <<short + Len(payload)>> \o payload
      ELSE <<long + Len(length)>> \o length \o payload

RECURSIVE RlpEncode(_)
RlpEncode(object) ==
  IF object.list
  THEN Prefixed(FlattenSeq([i \in DOMAIN object.items |-> RlpEncode(object.items[i])]), 192, 247)
  ELSE IF Len(object.bytes) = 1 /\ object.bytes[1] <= 127 THEN object.bytes
  ELSE Prefixed(object.bytes, 128, 183)

RlpFault == [ok |-> FALSE, object |-> RlpBytes(<<>>), consumed |-> 0]
RlpDecoded(object, consumed) == [ok |-> TRUE, object |-> object, consumed |-> consumed]

RECURSIVE RlpDecodeAt(_, _), DecodeChildren(_, _, _, _)

\* The children from `next' up to the end of the list, after those in items.
DecodeChildren(data, next, end, items) ==
  IF next >= end THEN RlpDecoded(RlpList(items), 0)
  ELSE LET child == RlpDecodeAt(data, next)
       IN  IF ~child.ok \/ next + child.consumed > end THEN RlpFault
           ELSE DecodeChildren(data, next + child.consumed, end, Append(items, child.object))

\* A prefix of `head' bytes and a payload of `length' bytes, or a fault.
DecodePayload(data, offset, list, head, length) ==
  LET start == offset + head
      end   == start + length
      items == DecodeChildren(data, start, end, <<>>)
  IN  IF end > Len(data) + 1 THEN RlpFault
      ELSE IF ~list THEN RlpDecoded(RlpBytes(SubSeq(data, start, end - 1)), head + length)
      ELSE IF ~items.ok THEN RlpFault
      ELSE RlpDecoded(items.object, head + length)

DecodeLong(data, offset, list, lengthLength) ==
  IF offset + lengthLength > Len(data) THEN RlpFault
  ELSE DecodePayload(data, offset, list, 1 + lengthLength,
                     unarrayifyInteger(data, offset + 1, lengthLength))

RlpDecodeAt(data, offset) ==
  LET first == data[offset]
  IN  IF first >= 248 THEN DecodeLong(data, offset, TRUE, first - 247)
      ELSE IF first >= 192 THEN DecodePayload(data, offset, TRUE, 1, first - 192)
      ELSE IF first >= 184 THEN DecodeLong(data, offset, FALSE, first - 183)
      ELSE IF first >= 128 THEN DecodePayload(data, offset, FALSE, 1, first - 128)
      ELSE RlpDecoded(RlpBytes(<<first>>), 1)

\* decodeRlp: all of the data must be consumed.
RlpDecode(data) ==
  IF data = <<>> THEN RlpFault
  ELSE LET decoded == RlpDecodeAt(data, 1)
       IN  IF decoded.consumed = Len(data) THEN decoded ELSE RlpFault

-----------------------------------------------------------------------------
CONSTANTS
  AddressLength,  \* bytes of an address
  MaxLength       \* bytes of the largest number

Numeric == {"nonce", "energyPrice", "energyLimit", "value", "networkId"}
unsignedTransactionFields == <<"nonce", "energyPrice", "energyLimit", "to", "value", "data", "networkId">>
transactionFields == <<"nonce", "energyPrice", "energyLimit", "networkId", "to", "value", "data">>

TxFault == [ok |-> FALSE]

networkIdToPrefix(id) ==
  CASE id = 1 -> "cb" [] id \in {3, 4} -> "ab" [] id = 0 \/ id > 10 -> "ce" [] OTHER -> "bad networkId"

Fields(signature) == IF signature = <<>> THEN unsignedTransactionFields ELSE transactionFields

\* A number without its leading zeros; zero is empty.
FieldBytes(tx, name) == IF name \in Numeric THEN arrayifyInteger(tx[name]) ELSE tx[name]

Serializable(tx) ==
  /\ \A name \in Numeric : tx[name] \in 0 .. 256 ^ MaxLength - 1
  /\ Len(tx.to) \in {0, AddressLength}

\* The format of RLP, which crypto/rlp.ts writes again for transactions.
encode(object) == RlpEncode(object)
decode(data) == RlpDecode(data)

serialize(tx, signature) ==
  LET fields == Fields(signature)
      raw    == [i \in DOMAIN fields |-> RlpBytes(FieldBytes(tx, fields[i]))]
  IN  encode(RlpList(IF signature = <<>> THEN raw ELSE Append(raw, RlpBytes(signature))))

recoverAddress(digest, signature, prefix) == [signed |-> digest, by |-> signature, on |-> prefix]

\* The eighth item, if there is one.
SignatureOf(items) == IF Len(items) = 8 THEN items[8].bytes ELSE <<>>

\* The transaction whose fields stand in these items.
Parsed(items) ==
  LET fields  == IF Len(items) = 8 THEN transactionFields ELSE unsignedTransactionFields
      At(name) == items[CHOOSE i \in DOMAIN fields : fields[i] = name].bytes
  IN  [name \in Numeric \cup {"to", "data"} |->
         IF name \in Numeric THEN unarrayifyInteger(At(name), 1, Len(At(name))) ELSE At(name)]

\* The rest of parse: the hash and the sender of a signed transaction.
Recovered(tx, signature) ==
  LET prefix == networkIdToPrefix(tx.networkId)
  IN  IF Len(tx.to) \notin {0, AddressLength} THEN TxFault
      ELSE IF signature = <<>>
      THEN [ok |-> TRUE, tx |-> tx, signature |-> <<>>, hash |-> <<>>, from |-> "nobody"]
      ELSE IF prefix = "bad networkId" THEN TxFault
      ELSE [ok |-> TRUE, tx |-> tx, signature |-> signature, hash |-> serialize(tx, signature),
            from |-> recoverAddress(serialize(tx, <<>>), signature, prefix)]

ParsedItems(decoded) ==
  IF decoded.ok /\ Len(decoded.object.items) \in {7, 8}
  THEN Recovered(Parsed(decoded.object.items), SignatureOf(decoded.object.items))
  ELSE TxFault

\* Transaction.from of raw data; it compares the hash and the sender with those
\* that the setters lead to, which are the same terms.
parse(data) == ParsedItems(decode(data))
=============================================================================
