------------------------------- MODULE Wallets -------------------------------
(***************************************************************************)
(* Wallets: the keys derived from a seed (wallet/hdwallet.ts), the JSON    *)
(* they are encrypted in (wallet/json-keystore.ts, json-crowdsale.ts) and  *)
(* what is opened from it (wallet/wallet.ts).  What cryptography returns   *)
(* is a term that names the function and its arguments: it is known only   *)
(* to who has these.  An operator returns the set of what its function     *)
(* returns, empty when it throws.                                          *)
(***************************************************************************)
EXTENDS Integers, Sequences, SequencesExt

\* A component of a path: an index below the hardened bit, and whether it is hardened;
\* a text that is none has a negative index.
Component(index, hardened) == [index |-> index, hardened |-> hardened]
NoComponent == Component(-1, FALSE)
Hardened(index) == Component(index, TRUE)
RootPath == <<>>
DefaultJsonPath == <<Hardened(44), Hardened(60), Hardened(0), Component(0, FALSE), Component(0, FALSE)>>

\* A private key has 57 bytes, but for those of crowdsale wallets.
PrivateKey(term, size) == [term |-> term, size |-> size]

-----------------------------------------------------------------------------
\* Keys: every one of a seed is a child of the same account, whatever its depth.
childPrivateToPrivate(parent, component) == <<"child", parent, component>>
Account == <<Hardened(44), Hardened(654), Hardened(0), Hardened(0)>>
HDWalletGenerateKeyFromSeed(seed, component) ==
  PrivateKey(FoldLeft(childPrivateToPrivate, <<"extended", seed>>, Append(Account, component)), 57)

computePublicKey(key) == <<"public", key.term>>
computeAddress(key, prefix) == [prefix |-> prefix, value |-> computePublicKey(key), valid |-> TRUE]
goodAddress(address) == IF address.valid THEN {address} ELSE {}

sign(key, digest) == <<"signature", digest, computePublicKey(key)>>
recoverPublicKey(digest, signature) == IF signature[2] = digest THEN {signature[3]} ELSE {}

\* A wallet of a key alone, and one of a seed.  A wallet that a path was derived for
\* has it, and the mnemonic of its seed.
SigningKey(key) == IF key.size = 57 THEN {key} ELSE {}
BaseWallet(key, prefix) ==
  [key |-> key, prefix |-> prefix, address |-> computeAddress(key, prefix), hd |-> <<>>]
Wallet(key, prefix) == {BaseWallet(k, prefix) : k \in SigningKey(key)}
HDNodeWallet(key, prefix, hd) == [BaseWallet(key, prefix) EXCEPT !.hd = <<hd>>]

mnemonicToSeed(mnemonic) == <<"seed", mnemonic.entropy, mnemonic.locale, mnemonic.password>>
fingerprint(wallet) == computePublicKey(wallet.key)
FromSeed(seed, mnemonic, prefix, path) ==
  HDNodeWallet(HDWalletGenerateKeyFromSeed(seed, Component(0, FALSE)), prefix,
               [seed |-> seed, mnemonic |-> mnemonic, path |-> path, index |-> Component(0, FALSE), depth |-> 0,
                parentFingerprint |-> <<"none">>])

deriveChild(wallet, component) ==
  LET hd == wallet.hd[1]
  IN  HDNodeWallet(HDWalletGenerateKeyFromSeed(hd.seed, component), wallet.prefix,
                   [hd EXCEPT !.path = Append(@, component), !.index = component, !.depth = @ + 1,
                              !.parentFingerprint = fingerprint(wallet)])

\* A path that does not begin at the root is followed only from below it.
derivePath(wallet, fromRoot, path) ==
  IF (~fromRoot /\ wallet.hd[1].depth = 0) \/ (\E i \in DOMAIN path : path[i].index < 0) THEN {}
  ELSE {FoldLeft(deriveChild, wallet, path)}

fromMnemonic(mnemonic, prefix, path) ==
  derivePath(FromSeed(mnemonicToSeed(mnemonic), <<mnemonic>>, prefix, RootPath), TRUE, path)
\* A path given with a seed is kept but not derived.
fromSeed(seed, prefix, path) == FromSeed(seed, <<>>, prefix, path)

-----------------------------------------------------------------------------
\* A field of the JSON holds a value, holds one of another type, or is missing.
Has(value) == <<"value", value>>
Missing    == <<"missing">>
Mistyped   == <<"mistyped">>

\* spelunk: a value that is required, and one that may be missing.
Required(json, field) == IF json[field][1] = "value" THEN {json[field][2]} ELSE {}
Optional(json, field) == IF json[field] = Mistyped THEN {} ELSE {json[field]}
OrElse(optional, default) == IF optional = Missing THEN default ELSE optional[2]

\* A password that is text is normalized, one that is bytes is taken as it is.
getPassword(password) == IF password.text THEN <<"nfkc", password.normal>> ELSE <<"bytes", password.normal, password.form>>

\* The key is derived in 64 bytes with scrypt and in 32 with PBKDF2: the third part, of
\* the mnemonic, is of the former only.
DerivedKey(algorithm, password, salt, cost) == <<algorithm, password, salt, cost>>
Part(key, part) == <<part, key>>
sha256Mac(key, ciphertext) == <<"sha256", Part(key, "mac"), ciphertext>>
AesEncrypt(key, iv, text) == <<"aes", key, iv, text>>
AesDecrypt(key, iv, ciphertext) ==
  IF SubSeq(ciphertext, 1, 3) = <<"aes", key, iv>> THEN ciphertext[4] ELSE <<"wrong", key, iv, ciphertext>>

MaxWork == 2 ^ 21
validateScrypt(cost) ==
  LET N == cost[1] r == cost[2] p == cost[3]
  IN  /\ N \in {2 ^ i : i \in 1 .. 20}
      /\ r > 0 /\ p > 0 /\ r <= 2 ^ 20 \div p
      /\ N <= MaxWork \div (r * p)
      /\ N + p + 1 <= MaxWork \div r

Defaults == <<2 ^ 17, 8, 1>>
getEncryptKdfParams(options) == {cost \in {[i \in 1 .. 3 |-> IF options[i] = 0 THEN Defaults[i] ELSE options[i]]} : validateScrypt(cost)}

\* _encryptKeystore: the key in the parts every keystore has, and the mnemonic in one of
\* this program's own.
Keystore(account, password, cost) ==
  LET key == DerivedKey("scrypt", getPassword(password), "salt", cost)
      ciphertext == AesEncrypt(Part(key, "cipher"), "iv", account.privateKey.term)
      stored(value) == IF account.mnemonic = <<>> THEN Missing ELSE Has(value)
  IN  [version |-> Has("3"), encseed |-> Missing, address |-> Has(account.address),
       cipher |-> Has("aes-128-ctr"), iv |-> Has("iv"), ciphertext |-> Has(ciphertext), mac |-> Has(sha256Mac(key, ciphertext)),
       kdf |-> Has("scrypt"), salt |-> Has("salt"), n |-> Has(cost[1]), r |-> Has(cost[2]), p |-> Has(cost[3]),
       dklen |-> Has(32), prf |-> Missing, c |-> Missing,
       own |-> stored("0.1"), counter |-> stored("counter"),
       path |-> IF account.mnemonic = <<>> THEN Missing ELSE Has(account.mnemonic[1].path),
       locale |-> IF account.mnemonic = <<>> THEN Missing ELSE Has(account.mnemonic[1].locale),
       mnemonic |-> IF account.mnemonic = <<>> THEN Missing
                    ELSE Has(AesEncrypt(Part(key, "mnemonic"), "counter", account.mnemonic[1].entropy))]
encryptKeystoreJson(account, password, options) ==
  {Keystore(account, password, cost) : cost \in getEncryptKdfParams(options)}

\* Only a mnemonic that opens without its password is kept.
Accounted(wallet) ==
  LET kept == wallet.hd # <<>> /\ \E m \in ToSet(wallet.hd[1].mnemonic) : m.locale = "en" /\ m.password = "" 
  IN  [address |-> wallet.address, privateKey |-> wallet.key,
       mnemonic |-> IF ~kept THEN <<>>
                    ELSE <<[path |-> wallet.hd[1].path, locale |-> "en", entropy |-> wallet.hd[1].mnemonic[1].entropy]>>]
encrypt(wallet, password, options) == encryptKeystoreJson(Accounted(wallet), password, options)

-----------------------------------------------------------------------------
getDecryptKdfParams(json) ==
  CASE json.kdf = Has("scrypt") ->
         {[algorithm |-> "scrypt", salt |-> salt, cost |-> cost] :
            salt \in Required(json, "salt"),
            cost \in {cost \in Required(json, "n") \X Required(json, "r") \X Required(json, "p") :
                        validateScrypt(cost) /\ json.dklen = Has(32)}}
    [] json.kdf = Has("pbkdf2") ->
         {[algorithm |-> prf, salt |-> salt, cost |-> <<c>>] :
            salt \in Required(json, "salt"), prf \in Required(json, "prf") \cap {"hmac-sha256", "hmac-sha512"},
            c \in {c \in Required(json, "c") : c > 0 /\ c <= 10000000 /\ json.dklen = Has(32)}}
    [] OTHER -> {}

hasValidMac(json, key) ==
  {mac = sha256Mac(key, ciphertext) : mac \in Required(json, "mac"), ciphertext \in Required(json, "ciphertext")}

\* A keystore that says SHA-256 means SHA-3, unless only SHA-2 explains its code.
getPbkdf2Key(json, password, params) ==
  LET KeyOf(algorithm) == DerivedKey(algorithm, password, params.salt, params.cost)
  IN  IF params.algorithm = "hmac-sha512" THEN {KeyOf("sha512")}
      ELSE {KeyOf(IF valid THEN "sha3-256" ELSE "sha256") : valid \in hasValidMac(json, KeyOf("sha3-256"))}

decrypt(json, key, ciphertext) ==
  {AesDecrypt(key, iv, ciphertext) : iv \in IF Optional(json, "cipher") = {Has("aes-128-ctr")} THEN Required(json, "iv") ELSE {}}

\* What a key of 32 bytes leaves for the mnemonic is no AES key.
DecryptMnemonic(json, key) ==
  {AesDecrypt(Part(key, "mnemonic"), counter, ciphertext) :
     ciphertext \in Required(json, "mnemonic"),
     counter \in IF key[1] = "scrypt" THEN Required(json, "counter") ELSE {}}
getMnemonic(json, key) ==
  CASE json.own = Mistyped   -> {}
    [] json.own = Has("0.1") ->
         {<<[path |-> OrElse(path, DefaultJsonPath), locale |-> OrElse(locale, "en"), entropy |-> entropy]>> :
            entropy \in DecryptMnemonic(json, key), path \in Optional(json, "path"), locale \in Optional(json, "locale")}
    [] OTHER -> {<<>>}

getAccount(json, key) ==
  IF hasValidMac(json, key) # {TRUE} THEN {}
  ELSE {account \in {[address |-> address, privateKey |-> PrivateKey(term, 57), mnemonic |-> mnemonic] :
                       address \in UNION {goodAddress(a) : a \in Required(json, "address")},
                       term \in UNION {decrypt(json, Part(key, "cipher"), c) : c \in Required(json, "ciphertext")},
                       mnemonic \in getMnemonic(json, key)} :
          computeAddress(account.privateKey, account.address.prefix) = account.address}

decryptKeystoreJson(json, password) ==
  UNION {getAccount(json, key) :
    key \in UNION {IF params.algorithm = "scrypt"
                   THEN {DerivedKey("scrypt", getPassword(password), params.salt, params.cost)}
                   ELSE getPbkdf2Key(json, getPassword(password), params) : params \in getDecryptKdfParams(json)}}

\* The key of a crowdsale wallet is a hash, too short to be one.
decryptCrowdsaleJson(json, password) ==
  {[address |-> address, privateKey |-> PrivateKey(<<"hash", seed, getPassword(password)>>, 32), mnemonic |-> <<>>] :
     address \in UNION {goodAddress(a) : a \in Required(json, "address")}, seed \in Required(json, "encseed")}

\* Entropy of a wrong size has no phrase.
fromEntropy(entropy) ==
  IF entropy[1] = "wrong" /\ entropy[4][1] = "short" THEN {} ELSE {[entropy |-> entropy, locale |-> "en", password |-> ""]}

\* A mnemonic that gives another key is left aside.
FromAccount(account) ==
  LET english == {m \in ToSet(account.mnemonic) : m.locale = "en"}
      phrased == UNION {fromEntropy(m.entropy) : m \in english}
      derived == UNION {fromMnemonic(p, account.address.prefix, m.path) : m \in english, p \in phrased}
      same    == {w \in derived : w.address = account.address /\ w.key = account.privateKey}
  IN  CASE english # {} /\ derived = {} -> {}
        [] same # {} -> same
        [] OTHER     -> {w \in Wallet(account.privateKey, account.address.prefix) : w.address = account.address}

isKeystoreJson(json)  == json.version = Has("3")
isCrowdsaleJson(json) == json.encseed # Missing
fromEncryptedJson(json, password) ==
  CASE isKeystoreJson(json)  -> UNION {FromAccount(a) : a \in decryptKeystoreJson(json, password)}
    [] isCrowdsaleJson(json) -> UNION {FromAccount(a) : a \in decryptCrowdsaleJson(json, password)}
    [] OTHER                 -> {}

\* The transaction's sender, if it names one, must be the wallet.
signTransaction(wallet, tx) ==
  IF tx.from # <<>> /\ UNION {goodAddress(a) : a \in ToSet(tx.from)} # {wallet.address} THEN {}
  ELSE {[digest |-> <<"unsigned", tx.rest>>, signature |-> sign(wallet.key, <<"unsigned", tx.rest>>)]}

-----------------------------------------------------------------------------
\* Every wallet under a root is the one its path leads to, in one go or in two, and knows
\* its depth and its parent; what it signs is recovered as its own, and nothing else is.
PathComesBack(root, path, index) ==
  \A child \in derivePath(root, TRUE, path) :
    LET Above(n) == CHOOSE w \in derivePath(root, TRUE, SubSeq(path, 1, n)) : TRUE
        part     == SubSeq(path, index + 1, Len(path))
        signed   == sign(child.key, index)
    IN  /\ child.hd[1].path = root.hd[1].path \o path /\ child.hd[1].depth = Len(path) /\ child.hd[1].seed = root.hd[1].seed
        /\ path # <<>> => child = deriveChild(Above(Len(path) - 1), Last(path))
        /\ path # <<>> => child.hd[1].parentFingerprint = fingerprint(Above(Len(path) - 1))
        /\ derivePath(Above(index), FALSE, part) = IF index = 0 THEN {} ELSE {child}
        /\ recoverPublicKey(index, signed) = {computePublicKey(child.key)} /\ recoverPublicKey(index + 1, signed) = {}
        /\ \A from \in {<<>>, <<root.address>>, <<child.address>>} :
             LET tx == signTransaction(child, [from |-> from, rest |-> path])
             IN  /\ (tx = {}) = (from # <<>> /\ from[1] # child.address)
                 /\ \A t \in tx : recoverPublicKey(t.digest, t.signature) = {child.address.value}

\* A wallet comes back from its keystore, with its path if the mnemonic alone leads there,
\* to who has the password, however that is composed.  Whatever one field becomes, what
\* opens still has the key that was put there, and the address but for its prefix.
Kept(wallet) == IF Accounted(wallet).mnemonic = <<>> THEN BaseWallet(wallet.key, wallet.prefix) ELSE wallet
SamePassword(one, other) == one = other \/ (one.text /\ other.text /\ one.normal = other.normal)
KeystoreComesBack(wallet, password, other, options, field, value) ==
  LET jsons == encrypt(wallet, password, options)
  IN  /\ options = <<0, 0, 0>> => jsons # {}
      /\ \A json \in jsons :
           /\ fromEncryptedJson(json, password) = {Kept(wallet)}
           /\ fromEncryptedJson(json, other) = IF SamePassword(password, other) THEN {Kept(wallet)} ELSE {}
           /\ \A w \in fromEncryptedJson([json EXCEPT ![field] = value], password) :
                w.key = wallet.key /\ (field # "address" => w.address = wallet.address)

\* So does a keystore of another program that derives its key with PBKDF2, whichever hash
\* it calls SHA-256; none of these can hold a mnemonic, and no crowdsale wallet opens.
OtherKeystore(wallet, password, hash) ==
  LET key == DerivedKey(hash, getPassword(password), "salt", <<2000>>)
      ciphertext == AesEncrypt(Part(key, "cipher"), "iv", wallet.key.term)
  IN  [Keystore(Accounted(BaseWallet(wallet.key, wallet.prefix)), password, Defaults) EXCEPT
         !.kdf = Has("pbkdf2"), !.c = Has(2000), !.n = Missing, !.r = Missing, !.p = Missing,
         !.prf = Has(IF hash = "sha512" THEN "hmac-sha512" ELSE "hmac-sha256"),
         !.ciphertext = Has(ciphertext), !.mac = Has(sha256Mac(key, ciphertext))]
OtherKeystoreOpens(wallet, password, other, hash) ==
  LET json == OtherKeystore(wallet, password, hash)
      own  == Keystore([Accounted(wallet) EXCEPT !.mnemonic = <<[path |-> <<>>, locale |-> "en", entropy |-> <<"entropy">>]>>],
                       password, Defaults)
  IN  /\ fromEncryptedJson(json, password) = {BaseWallet(wallet.key, wallet.prefix)}
      /\ fromEncryptedJson(json, other) # {} => SamePassword(password, other)
      /\ fromEncryptedJson([json EXCEPT !.own = own.own, !.counter = own.counter, !.mnemonic = own.mnemonic], password) = {}
      /\ fromEncryptedJson([json EXCEPT !.version = Missing, !.encseed = Has("seed")], password) = {}
=============================================================================
