----------------------------- MODULE Wordlists ------------------------------
(***************************************************************************)
(* The wordlists and the phrases of words that spell the entropy of a      *)
(* wallet (wallet/mnemonic.ts): there a word is its index in the wordlist, *)
(* and one that is not in it Unlisted.                                     *)
(*                                                                         *)
(* The wordlists' data: the script that packs sorted Latin words           *)
(* (wordlists/generation/encode-latin.ts), the readers that the program    *)
(* unpacks them with (decode-owl.ts, decode-owla.ts, bit-reader.ts) and the*)
(* characters of lang-ja.ts, lang-ko.ts and lang-zh.ts.  A character of the*)
(* packed data is a number: the letters, the capitals, the digits, two     *)
(* marks and the symbols that stand for pairs; an accent is a character    *)
(* after the letter it is on.                                              *)
(*                                                                         *)
(* An operator returns the set of what its function may return, empty when *)
(* it throws.                                                              *)
(***************************************************************************)
EXTENDS HexData

Unlisted == -1

\* The first byte of legacySha256; any function of the bytes does.
HashByte(bytes) == FoldLeft(LAMBDA h, b : (31 * h + b + 7) % 256, 17, bytes)

\* The upper n bits of a byte, as a number.
Upper(byte, n) == byte \div 2 ^ (8 - n)

\* Bytes are consumed whole while the index of a word lacks more than eight bits.
Spell(so, byte) ==
  IF so.remaining > 8
  THEN [so EXCEPT !.index = @ * 256 + byte, !.remaining = @ - 8]
  ELSE [indices   |-> Append(so.indices, so.index * 2 ^ so.remaining + Upper(byte, so.remaining)),
        index     |-> byte % 2 ^ (8 - so.remaining),
        remaining |-> so.remaining + 3]

entropyToMnemonic(entropy) ==
  IF Len(entropy) % 4 # 0 \/ Len(entropy) \notin 16 .. 32 THEN {}
  ELSE LET spelt == FoldLeft(Spell, [indices |-> <<>>, index |-> 0, remaining |-> 11], entropy)
           checksumBits == Len(entropy) \div 4
       IN  {Append(spelt.indices, spelt.index * 2 ^ checksumBits + Upper(HashByte(entropy), checksumBits))}

BitsOf(n, width) == [i \in 1 .. width |-> (n \div 2 ^ (width - i)) % 2]
NumberOf(bits) == FoldLeft(LAMBDA n, b : 2 * n + b, 0, bits)
InGroups(bits, width) == [i \in 1 .. Len(bits) \div width |-> NumberOf(SubSeq(bits, (i - 1) * width + 1, i * width))]

mnemonicToEntropy(words) ==
  IF Len(words) % 3 # 0 \/ Len(words) \notin 12 .. 24 \/ \E i \in DOMAIN words : words[i] = Unlisted THEN {}
  ELSE LET bits         == FlattenSeq([i \in DOMAIN words |-> BitsOf(words[i], 11)])
           entropyBits  == (32 * Len(words)) \div 3
           checksumBits == Len(words) \div 3
           entropy      == InGroups(SubSeq(bits, 1, entropyBits), 8)
       IN  IF Upper(HashByte(entropy), checksumBits) # NumberOf(SubSeq(bits, entropyBits + 1, Len(bits))) THEN {}
           ELSE {entropy}

\* Entropy comes back from its phrase, and whatever phrase is accepted is the one
\* that its entropy is spelt with.
MnemonicComesBack(entropy, otherWords) ==
  LET phrases == entropyToMnemonic(entropy)
  IN  /\ phrases = {} <=> Len(entropy) \notin {16, 20, 24, 28, 32}
      /\ \A words \in phrases :
           /\ mnemonicToEntropy(words) = {entropy}
           /\ \A i \in DOMAIN words, word \in otherWords :
                LET other == [words EXCEPT ![i] = word]
                IN  \A read \in mnemonicToEntropy(other) : entropyToMnemonic(read) = {other}
           /\ \A n \in 0 .. Len(words) - 1 : \A read \in mnemonicToEntropy(SubSeq(words, 1, n)) :
                entropyToMnemonic(read) = {SubSeq(words, 1, n)}

-----------------------------------------------------------------------------
CONSTANT Substitutions   \* how many pairs get a symbol (29 in the program)

Letters  == 1 .. 26
Capital(letter) == 26 + letter
Capitals == {Capital(letter) : letter \in Letters}
Colon    == 60
Semicolon == 61
Digit(n) == 70 + n
DigitChars == {Digit(n) : n \in 0 .. 9}
Symbol(i) == 80 + i
Comma    == 99
Accents  == {768, 769, 771}

IsWord(clump) == \A i \in DOMAIN clump : clump[i] \in Letters
WithoutFirst(clump) == SubSeq(clump, 2, Len(clump))

-----------------------------------------------------------------------------
\* Words drop their first letter, and sep stands where the next one begins.
Fold1(sep, so, word) ==
  IF ~IsWord(word) THEN [initial |-> 1, output |-> Append(so.output, word)]
  ELSE LET steps == IF word = <<>> THEN 0 ELSE Max({0, word[1] - so.initial})
       IN  [initial |-> so.initial + steps,
            output  |-> so.output \o [i \in 1 .. steps |-> <<sep>>] \o <<WithoutFirst(word)>>]
fold(words, sep) == FoldLeft(LAMBDA so, word : Fold1(sep, so, word), [initial |-> 1, output |-> <<>>], words).output

camelcase(clumps) ==
  IF \E i \in DOMAIN clumps : clumps[i] = <<>> THEN {}
  ELSE {FlattenSeq([i \in DOMAIN clumps |->
          IF IsWord(clumps[i]) THEN <<Capital(clumps[i][1])>> \o WithoutFirst(clumps[i]) ELSE clumps[i]])}

\* A run of semicolons becomes digits, each one less than the number of them it is for.
Count(data, char) ==
  CASE char # Semicolon -> Append(data, char)
    [] data # <<>> /\ Last(data) \in DigitChars \ {Digit(9)} -> Append(Front(data), Last(data) + 1)
    [] OTHER -> Append(data, Digit(0))
SemisCounted(data) == FoldLeft(Count, <<>>, data)

\* findBest never counts the last pair; of several that are as frequent, any.
TwoAt(data, i) == <<data[i], data[i + 1]>>
Tally(data, pair) == Cardinality({i \in 1 .. Len(data) - 2 : TwoAt(data, i) = pair})
findBest(data) ==
  LET pairs == {TwoAt(data, i) : i \in 1 .. Len(data) - 2}
  IN  {p \in pairs : \A q \in pairs : Tally(data, q) <= Tally(data, p)}
Substitute(data, pair, symbol) ==
  FoldLeft(LAMBDA so, c : IF so # <<>> /\ <<Last(so), c>> = pair THEN Append(Front(so), symbol) ELSE Append(so, c), <<>>, data)

Substituted(packed, i) ==
  UNION {{[data |-> Substitute(p.data, pair, Symbol(i)), subs |-> Append(p.subs, pair)] : pair \in findBest(p.data)} : p \in packed}
encodeOwl(words) ==
  FoldLeft(Substituted, {[data |-> SemisCounted(data), subs |-> <<>>] : data \in camelcase(fold(fold(words, Colon), Semicolon))},
           [i \in 1 .. Substitutions |-> i])

-----------------------------------------------------------------------------
Expand(data, symbol, pair) == FlattenSeq([i \in DOMAIN data |-> IF data[i] = symbol THEN pair ELSE <<data[i]>>])
Expanded(packed) == FoldRight(LAMBDA i, data : Expand(data, Symbol(i), packed.subs[i]), [i \in DOMAIN packed.subs |-> i], packed.data)

\* What no clump begins with is left over.
Clumps(data) ==
  LET Clump(sofar, c) ==
        CASE c \in Capitals   -> {Append(clumps, <<c - 26>>) : clumps \in sofar}
          [] c = Colon        -> {Append(clumps, <<c>>) : clumps \in sofar}
          [] c \in DigitChars -> {clumps \o [i \in 1 .. c - Digit(0) + 1 |-> <<Semicolon>>] : clumps \in sofar}
          [] OTHER -> {Append(Front(clumps), Append(Last(clumps), c)) :
                         clumps \in {cs \in sofar : c \in Letters /\ cs # <<>> /\ IsWord(Last(cs))}}
  IN  FoldLeft(Clump, {<<>>}, data)

Unfold1(sep, so, word) ==
  CASE word = <<sep>> -> [so EXCEPT !.initial = @ + 1]
    [] IsWord(word)   -> [so EXCEPT !.output = Append(@, <<so.initial>> \o word)]
    [] OTHER          -> [initial |-> 1, output |-> Append(so.output, word)]
unfold(words, sep) == FoldLeft(LAMBDA so, word : Unfold1(sep, so, word), [initial |-> 1, output |-> <<>>], words).output

decodeOwl(packed) == {unfold(unfold(clumps, Semicolon), Colon) : clumps \in Clumps(Expanded(packed))}

-----------------------------------------------------------------------------
\* BitWriter: a value above what width bits hold is a zero and what is left of it; the
\* bits are filled up to a whole number of sixes.
Flooded(value, width) ==
  LET maxValue == 2 ^ width - 1
      zeros    == (value - 1) \div maxValue
  IN  Append(Zeros(zeros), value - zeros * maxValue)
WriteBits(values, width) ==
  LET written == FlattenSeq([i \in DOMAIN values |-> Flooded(values[i], width)])
      bits    == FlattenSeq([i \in DOMAIN written |-> BitsOf(written[i], width)])
  IN  InGroups(bits \o Zeros((6 - (Len(bits) % 6)) % 6), 6)

decodeBits(width, data) ==
  LET Read(so, value) == IF value = 0 THEN [so EXCEPT !.flood = @ + (2 ^ width - 1)]
                         ELSE [flood |-> 0, result |-> Append(so.result, value + so.flood)]
  IN  FoldLeft(Read, [flood |-> 0, result |-> <<>>],
               InGroups(FlattenSeq([i \in DOMAIN data |-> BitsOf(data[i], 6)]), width)).result

\* Each accent is kept with the letters it follows and how many of these lie between
\* one place of it and the next, in as few bits as 2 to 6 of them allow.
Followed(text, accent) == {text[i - 1] : i \in {j \in DOMAIN text : text[j] = accent}}
AccentPositions(text, accent) ==
  LET follows == Followed(text, accent)
      Walk(so, c) == CASE c \in follows -> [so EXCEPT !.since = @ + 1]
                       [] c = accent    -> [since |-> 0, positions |-> Append(so.positions, so.since)]
                       [] OTHER         -> so
  IN  FoldLeft(Walk, [since |-> 0, positions |-> <<>>], text).positions
InFewestBits(positions) ==
  LET Size(width) == Len(WriteBits(positions, width))
      best == CHOOSE w \in 2 .. 6 : \A v \in 2 .. 6 : Size(w) < Size(v) \/ (Size(w) = Size(v) /\ w <= v)
  IN  [width |-> best, data |-> WriteBits(positions, best)]
extractAccents(words) ==
  LET text  == FlattenSeq(words)
      found == FoldLeft(LAMBDA so, c : IF c \in Letters \/ Contains(so, c) THEN so ELSE Append(so, c), <<>>, text)
  IN  IF \E i \in DOMAIN words : words[i] # <<>> /\ words[i][1] \notin Letters THEN {}
      ELSE {[words   |-> [i \in DOMAIN words |-> SelectSeq(words[i], LAMBDA c : c \in Letters)],
             accents |-> [i \in DOMAIN found |->
                            [accent |-> found[i], follows |-> Followed(text, found[i]), at |-> InFewestBits(AccentPositions(text, found[i]))]]]}

encodeWords(words) ==
  UNION {{[packed |-> packed, accents |-> extracted.accents] : packed \in encodeOwl(extracted.words)} : extracted \in extractAccents(words)}

\* An accent returns after the letter whose turn it is; no accent may follow another.
Inject(text, set) ==
  LET Walk(so, c) ==
        IF c \notin set.follows \/ so.left = <<>> THEN [so EXCEPT !.text = Append(@, c)]
        ELSE IF so.left[1] = 1 THEN [text |-> so.text \o <<c, set.accent>>, left |-> WithoutFirst(so.left)]
        ELSE [text |-> Append(so.text, c), left |-> [so.left EXCEPT ![1] = @ - 1]]
  IN  FoldLeft(Walk, [text |-> <<>>, left |-> decodeBits(set.at.width, set.at.data)], text).text
JoinedWords(words) == WithoutFirst(FlattenSeq([i \in DOMAIN words |-> <<Comma>> \o words[i]]))
SplitWords(text) ==
  FoldLeft(LAMBDA so, c : IF c = Comma THEN Append(so, <<>>) ELSE Append(Front(so), Append(Last(so), c)), <<<<>>>>, text)
decodeOwlA(packed, accents) ==
  IF \E i \in DOMAIN accents : ~(accents[i].follows \subseteq Letters) THEN {}
  ELSE {SplitWords(FoldLeft(Inject, JoinedWords(words), accents)) : words \in decodeOwl(packed)}

-----------------------------------------------------------------------------
\* The bytes of the characters that a code stands for.
KanaBytes(k) == <<227, IF (k \div 64) % 2 = 1 THEN 130 ELSE 129, 128 + (k % 64)>>
getHangul(code) ==
  LET jamo == CASE code >= 40 -> code + 168 - 40
                [] code \in 19 .. 39 -> code + 97 - 19
                [] OTHER -> code
  IN  <<225, jamo \div 64 + 132, 128 + (jamo % 64)>>

\* A Chinese character has a style, the upper bits of its first byte and how many bytes
\* the traditional one shares with it; the others are read from the deltas.
ZhBytes(entry) == <<228 + entry.style \div 4, 128 + entry.codes[1], 128 + entry.codes[2]>>
LoadZh(data, deltas, locale) ==
  LET Load(so, entry) ==
        LET common == IF locale = "zh_tw" THEN entry.style % 4 ELSE 3
            Delta(i) == deltas[so.offset + i - common]
            bytes  == [i \in 1 .. 3 |-> IF i <= common THEN ZhBytes(entry)[i] ELSE Delta(i) + (IF i = 1 THEN 228 ELSE 128)]
        IN  [offset |-> so.offset + 3 - common, words |-> Append(so.words, bytes)]
  IN  FoldLeft(Load, [offset |-> 0, words |-> <<>>], data).words

-----------------------------------------------------------------------------
\* Words that are sorted and long enough are packed, and come back with their accents.
WordsComeBack(words) ==
  /\ encodeWords(words) # {}
  /\ \A e \in encodeWords(words) :
       (IF e.accents = <<>> THEN decodeOwl(e.packed) ELSE decodeOwlA(e.packed, e.accents)) = {words}

BitsComeBack(width, values) == decodeBits(width, WriteBits(values, width)) = values

\* Codes stand for different characters, each a single one.
OneCharacter(bytes) == LET text == Utf8Decode(bytes, "error") IN text.ok /\ Len(text.units) = 1
CodesAreCharacters(Bytes(_), codes) ==
  /\ \A c \in codes : OneCharacter(Bytes(c))
  /\ \A c, d \in codes : Bytes(c) = Bytes(d) => c = d

\* Simplified and traditional characters come back from the data kept for both.
SharedBytes(cn, tw) == Max({n \in 0 .. 3 : SubSeq(cn, 1, n) = SubSeq(tw, 1, n)})
ZhComesBack(pairs) ==
  LET data   == [i \in DOMAIN pairs |-> [style |-> 4 * (pairs[i].cn[1] - 228) + SharedBytes(pairs[i].cn, pairs[i].tw),
                                         codes |-> <<pairs[i].cn[2] - 128, pairs[i].cn[3] - 128>>]]
      deltas == FlattenSeq([i \in DOMAIN pairs |->
                  LET shared == SharedBytes(pairs[i].cn, pairs[i].tw)
                  IN  [j \in 1 .. 3 - shared |-> pairs[i].tw[shared + j] - IF shared + j = 1 THEN 228 ELSE 128]])
  IN  /\ LoadZh(data, deltas, "zh_cn") = [i \in DOMAIN pairs |-> pairs[i].cn]
      /\ LoadZh(data, deltas, "zh_tw") = [i \in DOMAIN pairs |-> pairs[i].tw]
=============================================================================
