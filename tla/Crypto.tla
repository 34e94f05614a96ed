------------------------------- MODULE Crypto -------------------------------
(***************************************************************************)
(* The encryption, digests and signatures of the CRYPTO plugin             *)
(* (crypto_impl.c, on libcrypto) and of the SP plugin (sp_crypto.c and     *)
(* sp_hash.c, on the openssl command).  Neither keeps state between calls: *)
(* a caller seals a message, by encrypting or signing it, and somebody     *)
(* opens it later with what was given to them, the same or altered.        *)
(*                                                                         *)
(* Failures of allocations, of files and of the openssl command end a call *)
(* with an error and nothing else; they are left out.  So are messages of  *)
(* more than 1 MiB, which SP refuses, and SP's encryption without an iv.   *)
(*                                                                         *)
(* Data is symbolic: a ciphertext, a tag or a signature is the tuple of    *)
(* what it was computed from, so a different input gives a different one.  *)
(* SP authenticates the bytes of the associated data, of the iv and of the *)
(* ciphertext one after the other, without their lengths: these are        *)
(* sequences of blocks of 16 bytes.                                        *)
(* Lengths are numbers of bytes, with the width of uint32_t.               *)
(***************************************************************************)
EXTENDS Integers, Sequences

CONSTANTS Word,       \* 2^32: lengths are taken modulo Word
          Lengths,    \* lengths of messages
          Caps        \* capacities of output buffers

ASSUME CryptoAssumption ==
  /\ Word \in Nat /\ Word > 128 /\ Word % 16 = 0
  /\ Lengths \subseteq 0 .. Word - 1 /\ Caps \subseteq 0 .. Word - 1

VARIABLES sealed,     \* the last call that sealed: its request and its answer
          opened      \* the last call that opened what it gave

cryptoVars == <<sealed, opened>>

Cbc == {"aes-128-cbc", "aes-256-cbc"}
Gcm == {"aes-128-gcm", "aes-256-gcm"}
Digests == {"hash", "sp-hash"}
Suites == Cbc \cup Gcm \cup Digests \cup {"sp", "rsa"}
Authenticated == Gcm \cup {"sp", "sp-hash"}

\* cipher_lookup.
KeyLen(c) == IF c \in {"aes-128-cbc", "aes-128-gcm"} THEN 16 ELSE 32
IvLen(c) == IF c \in Gcm THEN 12 ELSE 16
TAG == 16             \* HW_CRYPTO_GCM_TAG_LEN
MAC == 32             \* SP_HMAC_LEN
SIGNATURE == 64       \* bytes of a signature: a constant of the key

\* What a call answers: its code, the bytes it wrote and, when OK, the result.
NoData == <<"nothing">>
Refused(ret) == [ret |-> ret, written |-> 0, out |-> NoData, tag |-> NoData]
None == [suite |-> "none"]

Negative(n) == n >= Word \div 2          \* as the int that libcrypto takes
Padded(n) == (n \div 16 + 1) * 16        \* PKCS#7, always at least one byte

CryptoInit == sealed = None /\ opened = None

-----------------------------------------------------------------------------
(* CRYPTO: crypto_encrypt_impl and crypto_decrypt_impl.                    *)

Cipher(r) == <<r.suite, r.key, r.iv, r.text>>
Tag(r, ct) == <<r.key, r.iv, r.aad, ct>>

\* For GCM the tag is given out when the caller has room for it, and the call
\* succeeds when not.
GcmEncrypt(r) ==
  IF r.cap < r.len THEN Refused("ENOMEM")
  ELSE IF Negative(r.len) THEN Refused("EINVAL")
  ELSE [ret |-> "OK", written |-> r.len, out |-> Cipher(r),
        tag |-> IF r.tagCap >= TAG THEN Tag(r, Cipher(r)) ELSE NoData]

CbcEncrypt(r) ==
  IF r.cap < (r.len + 16) % Word THEN Refused("ENOMEM")
  ELSE IF Negative(r.len) THEN Refused("EINVAL")
  ELSE [ret |-> "OK", written |-> Padded(r.len), out |-> Cipher(r), tag |-> NoData]

Encrypt(r) ==
  IF r.keyLen # KeyLen(r.suite) \/ r.ivLen # IvLen(r.suite) THEN Refused("EINVAL")
  ELSE IF r.suite \in Gcm THEN GcmEncrypt(r) ELSE CbcEncrypt(r)

\* Decryption with the right key and iv gives the text, with others something else.
Plain(r) == IF r.ct = Cipher(r) THEN r.text ELSE <<"garbage">>

\* The text is written before the tag is checked.
GcmDecrypt(r) ==
  IF r.tag = NoData THEN {Refused("EINVAL")}
  ELSE IF r.cap < r.len THEN {Refused("ENOMEM")}
  ELSE IF Negative(r.len) THEN {Refused("EINVAL")}
  ELSE IF r.tag # Tag(r, r.ct)
    THEN {[ret |-> "EILSEQ", written |-> r.len, out |-> NoData, tag |-> NoData]}
  ELSE {[ret |-> "OK", written |-> r.len, out |-> Plain(r), tag |-> NoData]}

\* Padding is all that is checked: it is right for the text, and by chance for
\* something else.
CbcDecrypt(r) ==
  LET Bad(n) == [ret |-> "EILSEQ", written |-> n, out |-> NoData, tag |-> NoData]
      Good(n) == [ret |-> "OK", written |-> n, out |-> Plain(r), tag |-> NoData]
  IN IF r.cap < r.len THEN {Refused("ENOMEM")}
     ELSE IF Negative(r.len) THEN {Refused("EINVAL")}
     ELSE IF r.len % 16 # 0 \/ r.len = 0 THEN {Bad((r.len \div 16) * 16)}
     ELSE IF r.ct = Cipher(r) THEN {Good(r.textLen)}
     ELSE {Bad(r.len - 16), Good(r.len - 1), Good(r.len - 16)}

Decrypt(r) ==
  IF r.keyLen # KeyLen(r.suite) \/ r.ivLen # IvLen(r.suite) THEN {Refused("EINVAL")}
  ELSE IF r.suite \in Gcm THEN GcmDecrypt(r) ELSE CbcDecrypt(r)

-----------------------------------------------------------------------------
(* SP: sp_encrypt and sp_decrypt, AES-256-CBC with an HMAC over the        *)
(* associated data, the iv and the ciphertext.                             *)

SubKey(key, tag) == <<key, tag>>                        \* sp_derive_sub
\* The blocks of the ciphertext of n bytes.
SpCipher(r, n) ==
  [i \in 1 .. Padded(n) \div 16 |-> <<SubKey(r.key, 0), r.iv, r.text, i>>]
Hmac(key, data) == <<key, data>>                        \* sp_hmac_sha256
\* Mutant: the iv is not part of what is authenticated.
SpMacWithoutIv(r, ct) == Hmac(SubKey(r.key, 1), r.aad \o ct)
\* Where one part ends and the next begins is not authenticated.
SpMac(r, ct) == Hmac(SubKey(r.key, 1), r.aad \o <<r.iv>> \o ct)

\* A ciphertext that does not fit is not copied; one that fits is, also when
\* the room for the tag then proves too small.
SpEncrypt(r) ==
  IF r.keyLen = 0 \/ r.len = 0 \/ r.ivLen # 16 THEN Refused("EINVAL")
  ELSE IF Padded(r.len) > r.cap THEN Refused("ENOMEM")
  ELSE IF r.tagCap < MAC
    THEN [ret |-> "ENOMEM", written |-> Padded(r.len), out |-> NoData, tag |-> NoData]
  ELSE [ret |-> "OK", written |-> Padded(r.len), out |-> SpCipher(r, r.len),
        tag |-> SpMac(r, SpCipher(r, r.len))]

\* The tag is compared before anything is decrypted.  When it agrees, the last block and
\* what came before it are the sender's, and so is the padding that is taken off.
SpUnpadded(r) == r.len - (Padded(r.textLen) - r.textLen)
SpDecrypt(r) ==
  IF r.keyLen = 0 \/ r.len = 0 \/ r.ivLen # 16 \/ r.tag = NoData THEN Refused("EINVAL")
  ELSE IF r.tag # SpMac(r, r.ct) THEN Refused("EAUTH")
  ELSE IF SpUnpadded(r) > r.cap THEN Refused("ENOMEM")
  ELSE [ret |-> "OK", written |-> SpUnpadded(r), tag |-> NoData,
        out |-> IF r.ct = SpCipher(r, r.textLen) THEN r.text ELSE <<"garbage">>]

-----------------------------------------------------------------------------
(* CRYPTO: crypto_sign_impl and crypto_verify_impl.                        *)

Mds == {"sha256", "sha512", "sha1", "sha384"}
Md(name) == IF name = "none" THEN "sha256" ELSE name    \* rsa_md; no name is given

Sign(r) ==
  IF Md(r.md) \notin Mds THEN Refused("ENOTSUP")
  ELSE IF SIGNATURE > r.cap THEN Refused("ENOMEM")
  ELSE [ret |-> "OK", written |-> SIGNATURE, out |-> <<r.key, Md(r.md), r.text>>,
        tag |-> NoData]

\* The answer says whether the signature is valid; the public key may come as
\* SubjectPublicKeyInfo or PKCS#1.
Verify(r) ==
  IF Md(r.md) \notin Mds THEN Refused("ENOTSUP")
  ELSE [ret |-> "OK", written |-> 0, tag |-> NoData,
        out |-> IF r.ct = <<r.key, Md(r.md), r.text>> THEN <<"valid">> ELSE <<"invalid">>]

-----------------------------------------------------------------------------
(* crypto_hash_impl, and sp_hash_compute with ops_verify_hash.             *)

HashLen(name) == CASE name \in {"sha512", "sha3-512"} -> 64
                   [] name \in {"sha256", "sha3-256"} -> 32
                   [] name = "sha1" -> 20 [] name = "md5" -> 16
\* hash_md and sp_hash_flag.
HashAlgos(suite) == IF suite = "hash" THEN {"sha256", "sha512", "md5"}
                ELSE {"sha1", "sha256", "sha512", "sha3-256", "sha3-512"}

Digest(r) ==
  IF r.suite = "sp-hash" /\ r.len = 0 THEN Refused("EINVAL")
  ELSE IF r.md \notin HashAlgos(r.suite) THEN Refused("ENOTSUP")
  ELSE IF r.cap < HashLen(r.md) THEN Refused("ENOMEM")
  ELSE [ret |-> "OK", written |-> HashLen(r.md), out |-> <<r.md, r.text>>, tag |-> NoData]

\* Computed again and compared.
VerifyHash(r) ==
  IF r.ct = <<r.md, r.text>>
  THEN [ret |-> "OK", written |-> 0, out |-> r.text, tag |-> NoData]
  ELSE Refused("EAUTH")

-----------------------------------------------------------------------------
Requests ==
  [suite : Suites, key : {"k"}, keyLen : {0, 16, 32}, iv : {<<"v">>}, ivLen : {12, 16},
   aad : {<<<<"a">>>>}, text : {<<"text">>}, len : Lengths, cap : Caps, tagCap : {0, 16, 32},
   md : {"none", "sha1", "sha512", "md5"}]

Answer(r) ==
  CASE r.suite = "sp" -> SpEncrypt(r)
    [] r.suite = "rsa" -> Sign(r)
    [] r.suite \in Digests -> Digest(r)
    [] OTHER -> Encrypt(r)

\* The fields a suite does not use are fixed.
Meaningful(r) ==
  /\ r.suite \in Digests \cup {"rsa"} => r.keyLen = 16 /\ r.ivLen = 16 /\ r.tagCap = 0
  /\ r.suite \notin Digests \cup {"rsa"} => r.md = "none"
  /\ r.suite \in Cbc => r.tagCap = 0

Seal(r) ==
  /\ Meaningful(r)
  /\ sealed' = [suite |-> r.suite, request |-> r, answer |-> Answer(r)]
  /\ UNCHANGED opened

Opened(r) ==
  CASE r.suite = "sp" -> {SpDecrypt(r)}
    [] r.suite = "rsa" -> {Verify(r)}
    [] r.suite = "sp-hash" -> {VerifyHash(r)}
    [] OTHER -> Decrypt(r)

\* SP's bytes, with one block more or less taken for the ciphertext.
Divisions == {"longer", "shorter"}
Alterations == {"none", "key", "iv", "aad", "text", "out", "tag"} \cup Divisions

\* What the receiver has: everything as it was sent, or one thing different, or all the
\* bytes as they were sent but divided in another way.
Received(sent, what, cap) ==
  LET r == sent.request  IN LET a == sent.answer
  IN [suite |-> r.suite, keyLen |-> r.keyLen, ivLen |-> r.ivLen, md |-> r.md,
      key |-> IF what = "key" THEN "k2" ELSE r.key,
      iv |-> CASE what = "iv" -> <<"v2">>
               [] what = "longer" -> r.aad[1]
               [] what = "shorter" -> a.out[1]
               [] OTHER -> r.iv,
      aad |-> CASE what = "aad" -> <<<<"a2">>>>
                [] what = "longer" -> <<>>
                [] what = "shorter" -> r.aad \o <<r.iv>>
                [] OTHER -> r.aad,
      text |-> IF what = "text" THEN <<"text2">> ELSE r.text,
      ct |-> CASE what = "out" -> <<<<"ct2">>>>
               [] what = "longer" -> <<r.iv>> \o a.out
               [] what = "shorter" -> Tail(a.out)
               [] OTHER -> a.out,
      tag |-> IF what = "tag" THEN <<"tag2">> ELSE a.tag,
      len |-> CASE what = "longer" -> a.written + 16
                [] what = "shorter" -> a.written - 16
                [] OTHER -> a.written,
      textLen |-> r.len, cap |-> cap]

Open(what, cap) ==
  /\ sealed # None /\ opened = None /\ sealed.answer.ret = "OK"
  /\ sealed.suite # "hash"      \* CRYPTO has no call that checks a digest
  /\ what = "text" => sealed.suite \in {"rsa", "sp-hash"}
  /\ what \in {"key", "iv", "aad", "tag"} => sealed.suite # "sp-hash"
  /\ what \in Divisions => sealed.suite = "sp"
  /\ what = "longer" => sealed.answer.written + 16 < Word
  /\ what = "shorter" => sealed.answer.written >= 32
  /\ \E a \in Opened(Received(sealed, what, cap)) :
       opened' = [suite |-> sealed.suite, altered |-> what, cap |-> cap, answer |-> a]
  /\ UNCHANGED sealed

\* A new exchange: nothing of the last one is kept.
Forget == sealed # None /\ sealed' = None /\ opened' = None

CryptoNext ==
  \/ sealed = None /\ \E r \in Requests : Seal(r)
  \/ \E what \in Alterations, cap \in Caps : Open(what, cap)
  \/ Forget

CryptoSpec == CryptoInit /\ [][CryptoNext]_cryptoVars

-----------------------------------------------------------------------------
CryptoTypeOK ==
  /\ sealed # None => sealed.request \in Requests
  /\ opened # None => sealed # None /\ opened.altered \in Alterations

\* No call writes more bytes than the buffer it was given has, in success or in
\* failure and for lengths near the end of uint32_t: the checks of out_cap are
\* made with the padding counted.
OutputFits ==
  /\ sealed # None => sealed.answer.written <= sealed.request.cap
  /\ opened # None => opened.answer.written <= opened.cap

\* A message whose sealing succeeded can be opened with what the sealer gave,
\* and opens as the text that was sealed, into a buffer of the size of what was
\* given; for GCM, if there was room for the tag.  CRYPTO does not open what has
\* 2^31 bytes or more, though a text of 2^31 - 1 bytes is sealed.
OpensAsSealed ==
  (opened # None /\ opened.altered = "none") =>
    \/ Negative(sealed.answer.written)
    \/ opened.cap < sealed.answer.written /\ opened.answer.ret = "ENOMEM"
    \/ opened.suite \in Gcm /\ sealed.request.tagCap < TAG /\ opened.answer.ret = "EINVAL"
    \/ /\ opened.answer.ret = "OK"
       /\ opened.answer.out = IF opened.suite = "rsa" THEN <<"valid">> ELSE <<"text">>

\* Another key, iv, associated data, ciphertext or tag is noticed by GCM and by SP, and
\* another key, text or signature by the check of a signature: nothing is given out as
\* the message.  SP does not notice when the receiver divides the authenticated bytes in
\* another way than the sender; what it then gives out is not the message.
AlterationNoticed ==
  (opened # None /\ opened.altered # "none") =>
    /\ opened.suite \in Authenticated =>
         IF opened.altered \in Divisions THEN opened.answer.out # <<"text">>
         ELSE opened.answer.ret # "OK"
    /\ (opened.suite = "rsa" /\ opened.altered \in {"key", "text", "out"}) =>
         opened.answer.out # <<"valid">>

\* Sealing and opening: within the buffers given, inverse to each other, and what
\* was altered in between is noticed.
SealingSound == CryptoTypeOK /\ OutputFits /\ OpensAsSealed /\ AlterationNoticed
=============================================================================
