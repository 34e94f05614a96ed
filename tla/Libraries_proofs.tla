-------------------------- MODULE Libraries_proofs --------------------------
(***************************************************************************)
(* What the plugins that serve one call at a time keep: the history and    *)
(* the aliases of the shell, what is sealed and opened, what a console     *)
(* gives out, what the audit log finds again, and what is compressed and   *)
(* decompressed.                                                           *)
(***************************************************************************)
EXTENDS Interpreter, Crypto, Console, AuditLog, Compress, ListFacts, TLAPS

-----------------------------------------------------------------------------
(* The shell: its ring of lines and its table of aliases.                    *)

\* The slot that was written so many lines before the next one; 1 is the last.
SlotOf(next, ago) == IF ago <= next THEN next - ago ELSE next - ago + HistoryMax

\* The ring holds the newest lines, counted back from where the next will go.
RingNewest ==
  \A k \in 1 .. history_count : history[SlotOf(history_write, k)] = typed[Len(typed) + 1 - k]

\* The inductive invariant: the lines by their slots, the aliases as a list of
\* what was meant.
ShellInv ==
  /\ history_write \in 0 .. HistoryMax - 1
  /\ history \in [0 .. HistoryMax - 1 -> Lines \cup {<<>>}]
  /\ typed \in Seq(Lines)
  /\ history_count = IF Len(typed) < HistoryMax THEN Len(typed) ELSE HistoryMax
  /\ RingNewest
  /\ aliases \in Seq(meant) /\ Len(aliases) <= AliasMax
  /\ {aliases[k] : k \in DOMAIN aliases} = meant
  /\ \A j, k \in DOMAIN aliases : aliases[j][1] = aliases[k][1] => j = k

\* The remainder of what is already below the size of the ring.
LEMMA InRing ==
  ASSUME NEW n \in 0 .. HistoryMax - 1
  PROVE  n % HistoryMax = n
  BY InterpreterAssumption

\* The write position goes round (history_append).
LEMMA AroundRing ==
  ASSUME NEW n \in 0 .. HistoryMax - 1
  PROVE  (n + 1) % HistoryMax = IF n + 1 = HistoryMax THEN 0 ELSE n + 1
  BY InterpreterAssumption

\* With one line more, a line is one further back in the same slot.
LEMMA SlotMoves ==
  ASSUME NEW w \in 0 .. HistoryMax - 1, NEW ago \in 1 .. HistoryMax - 1
  PROVE  SlotOf(IF w + 1 = HistoryMax THEN 0 ELSE w + 1, ago + 1) = SlotOf(w, ago)
  BY InterpreterAssumption DEF SlotOf

\* An older line is in another slot than the one that is written next.
LEMMA SlotElsewhere ==
  ASSUME NEW w \in 0 .. HistoryMax - 1, NEW ago \in 1 .. HistoryMax - 1
  PROVE  SlotOf(w, ago) # w /\ SlotOf(w, ago) \in 0 .. HistoryMax - 1
  BY InterpreterAssumption DEF SlotOf

\* A shell that has just started has no lines and no aliases.
LEMMA ShellStarts == InterpreterInit => ShellInv
  BY InterpreterAssumption DEF InterpreterInit, ShellInv, RingNewest

\* A line more in the history: all but the oldest of a full ring stay where they are.
LEMMA LineRemembered ==
  ASSUME ShellInv, NEW words \in Lines, history_append(words)
  PROVE  /\ history_write' \in 0 .. HistoryMax - 1
         /\ history' \in [0 .. HistoryMax - 1 -> Lines \cup {<<>>}]
         /\ typed' \in Seq(Lines)
         /\ history_count' = IF Len(typed') < HistoryMax THEN Len(typed') ELSE HistoryMax
         /\ RingNewest'
<1> USE InterpreterAssumption DEF ShellInv, history_append
<1>1. /\ typed' \in Seq(Lines) /\ Len(typed') = Len(typed) + 1 /\ Len(typed) \in Nat
      /\ typed'[Len(typed) + 1] = words
      /\ \A k \in 1 .. Len(typed) : typed'[k] = typed[k]
  OBVIOUS
<1>2. history_write' = IF history_write + 1 = HistoryMax THEN 0 ELSE history_write + 1
  BY AroundRing
<1>3. history_count' = IF Len(typed') < HistoryMax THEN Len(typed') ELSE HistoryMax
  BY <1>1
<1>4. ASSUME NEW k \in 1 .. history_count'
      PROVE  history'[SlotOf(history_write', k)] = typed'[Len(typed') + 1 - k]
  <2>1. CASE k = 1
    <3>1. SlotOf(history_write', k) = history_write
      BY <1>2, <2>1 DEF SlotOf
    <3>2. QED
      BY <1>1, <2>1, <3>1
  <2>2. CASE k # 1
    <3>1. k - 1 \in 1 .. history_count /\ k - 1 \in 1 .. HistoryMax - 1 /\ k - 1 <= Len(typed)
      BY <1>1, <1>3, <2>2
    <3>2. SlotOf(history_write', k) = SlotOf(history_write, k - 1)
      <4>1. SlotOf(IF history_write + 1 = HistoryMax THEN 0 ELSE history_write + 1, (k - 1) + 1)
              = SlotOf(history_write, k - 1)
        BY <3>1, SlotMoves
      <4>2. (k - 1) + 1 = k
        OBVIOUS
      <4>3. QED
        BY <1>2, <4>1, <4>2
    <3>3. SlotOf(history_write, k - 1) # history_write /\ SlotOf(history_write, k - 1) \in 0 .. HistoryMax - 1
      BY <3>1, SlotElsewhere
    <3>4. history[SlotOf(history_write, k - 1)] = typed[Len(typed) + 1 - (k - 1)]
      BY <3>1 DEF RingNewest
    <3>5. history'[SlotOf(history_write, k - 1)] = history[SlotOf(history_write, k - 1)]
      BY <3>3
    <3>6. Len(typed') + 1 - k = Len(typed) + 1 - (k - 1) /\ Len(typed') + 1 - k \in 1 .. Len(typed)
      BY <1>1, <3>1
    <3>7. QED
      BY <1>1, <3>2, <3>4, <3>5, <3>6
  <2>3. QED
    BY <2>1, <2>2
<1>5. RingNewest'
  BY <1>4 DEF RingNewest
<1>6. history_write' \in 0 .. HistoryMax - 1
  BY <1>2
<1>7. QED
  BY <1>1, <1>3, <1>5, <1>6

\* A name that has a value gets another, a new one is put at the end of the table.
LEMMA AliasRemembered ==
  ASSUME ShellInv, NEW name, NEW value, alias_set(name, value)
  PROVE  /\ aliases' \in Seq(meant') /\ Len(aliases') <= AliasMax
         /\ {aliases'[k] : k \in DOMAIN aliases'} = meant'
         /\ \A j, k \in DOMAIN aliases' : aliases'[j][1] = aliases'[k][1] => j = k
<1> DEFINE pair == <<name, value>>
<1>0. /\ aliases \in Seq(meant) /\ Len(aliases) \in Nat /\ Len(aliases) <= AliasMax
      /\ DOMAIN aliases = 1 .. Len(aliases)
      /\ {aliases[k] : k \in DOMAIN aliases} = meant
      /\ \A j, k \in DOMAIN aliases : aliases[j][1] = aliases[k][1] => j = k
      /\ pair[1] = name
  BY DEF ShellInv
<1>1. CASE /\ alias_find(name) # {}
           /\ aliases' = [k \in DOMAIN aliases |-> IF k \in alias_find(name) THEN pair ELSE aliases[k]]
           /\ meant' = {m \in meant : m[1] # name} \cup {pair}
  <2>1. DOMAIN aliases' = DOMAIN aliases
    BY <1>1
  <2>2. \A k \in DOMAIN aliases : aliases'[k] = IF aliases[k][1] = name THEN pair ELSE aliases[k]
    BY <1>1 DEF alias_find
  <2>3. PICK at \in DOMAIN aliases : aliases[at][1] = name
    BY <1>1 DEF alias_find
  <2>4. \A k \in DOMAIN aliases' : aliases'[k] \in meant'
    BY <1>0, <1>1, <2>1, <2>2
  <2>5. ASSUME NEW m \in meant' PROVE \E k \in DOMAIN aliases' : aliases'[k] = m
    <3>1. CASE m = pair
      BY <2>1, <2>2, <2>3, <3>1
    <3>2. CASE m # pair
      <4>1. m \in meant /\ m[1] # name
        BY <1>1, <3>2
      <4>2. PICK k \in DOMAIN aliases : aliases[k] = m
        BY <1>0, <4>1
      <4>3. QED
        BY <2>1, <2>2, <4>1, <4>2
    <3>3. QED
      BY <3>1, <3>2
  <2>6. \A k \in DOMAIN aliases : aliases'[k][1] = aliases[k][1]
    BY <1>0, <2>2
  <2>7. aliases' \in Seq(meant') /\ Len(aliases') = Len(aliases)
    <3>1. aliases' \in [1 .. Len(aliases) -> meant']
      BY <1>0, <1>1, <2>1, <2>4
    <3>2. QED
      BY <1>0, <3>1, SMTT(60)
  <2>8. {aliases'[k] : k \in DOMAIN aliases'} = meant'
    BY <2>4, <2>5
  <2>9. \A j, k \in DOMAIN aliases' : aliases'[j][1] = aliases'[k][1] => j = k
    BY <1>0, <2>1, <2>6
  <2>10. QED
    BY <1>0, <2>7, <2>8, <2>9
<1>2. CASE /\ alias_find(name) = {} /\ Len(aliases) < AliasMax
           /\ aliases' = Append(aliases, pair)
           /\ meant' = meant \cup {pair}
  <2>1. \A k \in DOMAIN aliases : aliases[k][1] # name
    BY <1>2 DEF alias_find
  <2>2. aliases \in Seq(meant')
    BY <1>0, <1>2
  <2>3. /\ aliases' \in Seq(meant') /\ Len(aliases') = Len(aliases) + 1
        /\ \A k \in 1 .. Len(aliases) : aliases'[k] = aliases[k]
        /\ aliases'[Len(aliases) + 1] = pair
        /\ DOMAIN aliases' = 1 .. Len(aliases) + 1
    BY <1>0, <1>2, <2>2
  <2>4. \A k \in DOMAIN aliases' : k \in DOMAIN aliases \/ k = Len(aliases) + 1
    BY <1>0, <2>3
  <2>5. \A k \in DOMAIN aliases : k \in DOMAIN aliases' /\ aliases'[k] = aliases[k]
    BY <1>0, <2>3
  <2>6. {aliases'[k] : k \in DOMAIN aliases'} = meant'
    <3>1. ASSUME NEW m \in meant' PROVE \E k \in DOMAIN aliases' : aliases'[k] = m
      <4>1. CASE m = pair
        BY <1>0, <2>3, <4>1
      <4>2. CASE m # pair
        BY <1>0, <1>2, <2>5, <4>2
      <4>3. QED
        BY <4>1, <4>2
    <3>2. \A k \in DOMAIN aliases' : aliases'[k] \in meant'
      BY <2>3
    <3>3. QED
      BY <3>1, <3>2
  <2>7. \A j, k \in DOMAIN aliases' : aliases'[j][1] = aliases'[k][1] => j = k
    BY <1>0, <2>1, <2>3, <2>4, <2>5
  <2>8. Len(aliases') <= AliasMax
    BY <1>0, <1>2, <2>3, InterpreterAssumption
  <2>9. QED
    BY <2>3, <2>6, <2>7, <2>8
<1>3. QED
  BY <1>1, <1>2 DEF alias_set

\* A command touches the aliases only by setting one.
LEMMA CommandRemembered ==
  ASSUME ShellInv, NEW argv, exec_tokens(argv)
  PROVE  /\ aliases' \in Seq(meant') /\ Len(aliases') <= AliasMax
         /\ {aliases'[k] : k \in DOMAIN aliases'} = meant'
         /\ \A j, k \in DOMAIN aliases' : aliases'[j][1] = aliases'[k][1] => j = k
<1>1. CASE alias_set(Settings[argv[2]][1], Settings[argv[2]][2])
  BY <1>1, AliasRemembered
<1>2. CASE UNCHANGED <<aliases, meant>>
  BY <1>2 DEF ShellInv
<1>3. QED
  BY <1>1, <1>2 DEF exec_tokens

\* Every operation of the shell keeps it.
LEMMA ShellStep == ShellInv /\ [InterpreterNext]_shellVars => ShellInv'
<1> SUFFICES ASSUME ShellInv, [InterpreterNext]_shellVars PROVE ShellInv'
  OBVIOUS
<1> DEFINE HistoryKept == UNCHANGED <<history, history_count, history_write, typed>>
<1>0. HistoryKept =>
        /\ history_write' \in 0 .. HistoryMax - 1
        /\ history' \in [0 .. HistoryMax - 1 -> Lines \cup {<<>>}]
        /\ typed' \in Seq(Lines)
        /\ history_count' = IF Len(typed') < HistoryMax THEN Len(typed') ELSE HistoryMax
        /\ RingNewest'
  BY DEF ShellInv, RingNewest
<1>1. ASSUME NEW words \in Lines, ops_eval(words) PROVE ShellInv'
  <2>1. history_append(words) /\ exec_tokens(Expanded(words))
    BY <1>1 DEF ops_eval
  <2>2. QED
    BY <2>1, LineRemembered, CommandRemembered DEF ShellInv
<1>2. ASSUME NEW words \in Lines, ops_run(words) PROVE ShellInv'
  <2>1. exec_tokens(Expanded(words)) /\ HistoryKept
    BY <1>2 DEF ops_run
  <2>2. QED
    BY <1>0, <2>1, CommandRemembered DEF ShellInv
<1>3. ASSUME NEW def \in Definitions, AliasSet(def) PROVE ShellInv'
  <2>1. alias_set(def[1], def[2]) /\ HistoryKept
    BY <1>3 DEF AliasSet
  <2>2. QED
    BY <1>0, <2>1, AliasRemembered DEF ShellInv
<1>4. CASE history_clear
  BY <1>4, InterpreterAssumption DEF history_clear, ShellInv, RingNewest
<1>5. CASE alias_clear
  <2>1. HistoryKept /\ aliases' = <<>> /\ meant' = {}
    BY <1>5 DEF alias_clear
  <2>2. QED
    BY <1>0, <2>1, InterpreterAssumption DEF ShellInv
<1>6. CASE UNCHANGED shellVars
  BY <1>0, <1>6 DEF ShellInv, shellVars
<1>7. QED
  BY <1>1, <1>2, <1>3, <1>4, <1>5, <1>6 DEF InterpreterNext

\* What history_get and the table answer, from where the lines and aliases are.
LEMMA ShellAnswers == ShellInv => ShellRemembers
<1> SUFFICES ASSUME ShellInv PROVE ShellRemembers
  OBVIOUS
<1> USE InterpreterAssumption
<1>1. /\ history_write \in 0 .. HistoryMax - 1 /\ history_count \in 0 .. HistoryMax
      /\ Len(typed) \in Nat /\ history_count <= Len(typed)
  BY DEF ShellInv
<1>2. ASSUME NEW idx \in 0 .. history_count - 1
      PROVE  history_get(idx) = typed[Len(typed) - history_count + idx + 1]
  <2> DEFINE slot == history_write - history_count + idx
             ago == history_count - idx
  <2>1. ago \in 1 .. history_count /\ slot = history_write - ago
    BY <1>1
  <2>2. SlotOf(history_write, ago) = IF slot < 0 THEN slot + HistoryMax ELSE slot
    BY <1>1, <2>1 DEF SlotOf
  <2>3. slot >= 0 => slot % HistoryMax = slot
    BY <1>1, <2>1, InRing
  <2>4. history_get(idx) = history[IF slot < 0 THEN slot + HistoryMax ELSE slot % HistoryMax]
    BY DEF history_get
  <2> HIDE DEF slot, ago
  <2>8. history_get(idx) = history[SlotOf(history_write, ago)]
    <3>1. CASE slot < 0
      BY <2>2, <2>4, <3>1
    <3>2. CASE slot >= 0
      BY <1>1, <2>1, <2>2, <2>3, <2>4, <3>2
    <3>3. QED
      BY <1>1, <2>1, <3>1, <3>2
  <2> USE DEF ago
  <2>5. history[SlotOf(history_write, ago)] = typed[Len(typed) + 1 - ago]
    BY <2>1 DEF ShellInv, RingNewest
  <2>6. Len(typed) + 1 - ago = Len(typed) - history_count + idx + 1
    BY <1>1
  <2>7. QED
    BY <2>8, <2>5, <2>6
<1>3. InterpreterTypeOK
  BY <1>1 DEF ShellInv, InterpreterTypeOK
<1>4. QED
  BY <1>2, <1>3 DEF ShellInv, ShellRemembers

\* The history lists the newest lines in the order typed, over every wrap of the
\* ring, and the table has the last value of every name once, for any sizes of
\* the two (shell_impl.c, history_append, history_get, alias_set).
THEOREM ShellIsSound == InterpreterSpec => []ShellRemembers
  BY ShellStarts, ShellStep, ShellAnswers, PTL DEF InterpreterSpec

-----------------------------------------------------------------------------
(* Cryptography: one exchange between two sides.                             *)

\* The last exchange: what was sealed is answered for its request, and what was
\* opened is what the other side received.
CryptoInv ==
  /\ sealed # None =>
       /\ sealed.request \in Requests /\ Meaningful(sealed.request)
       /\ sealed.suite = sealed.request.suite /\ sealed.answer = Answer(sealed.request)
  /\ opened # None =>
       /\ sealed # None /\ sealed.answer.ret = "OK" /\ sealed.suite # "hash"
       /\ opened.suite = sealed.suite /\ opened.altered \in Alterations /\ opened.cap \in Caps
       /\ opened.altered = "text" => sealed.suite \in {"rsa", "sp-hash"}
       /\ opened.altered \in {"key", "iv", "aad", "tag"} => sealed.suite # "sp-hash"
       /\ opened.altered \in Divisions => sealed.suite = "sp"
       /\ opened.altered = "shorter" => sealed.answer.written >= 32
       /\ opened.answer \in Opened(Received(sealed, opened.altered, opened.cap))

\* No exchange has begun.
LEMMA CryptoStarts == CryptoInit => CryptoInv
  BY DEF CryptoInit, CryptoInv

\* Sealing, opening and forgetting keep it.
LEMMA CryptoStep == CryptoInv /\ [CryptoNext]_cryptoVars => CryptoInv'
<1> SUFFICES ASSUME CryptoInv, [CryptoNext]_cryptoVars PROVE CryptoInv'
  OBVIOUS
<1>1. ASSUME NEW r \in Requests, sealed = None, Seal(r) PROVE CryptoInv'
  <2>1. opened = None
    BY <1>1 DEF CryptoInv
  <2>2. /\ sealed'.request = r /\ sealed'.suite = r.suite /\ sealed'.answer = Answer(r)
        /\ opened' = None /\ Meaningful(r)
    BY <1>1, <2>1 DEF Seal
  <2>3. QED
    BY <2>2 DEF CryptoInv
<1>2. ASSUME NEW what \in Alterations, NEW cap \in Caps, Open(what, cap) PROVE CryptoInv'
  <2>1. PICK a \in Opened(Received(sealed, what, cap)) :
          opened' = [suite |-> sealed.suite, altered |-> what, cap |-> cap, answer |-> a]
    BY <1>2 DEF Open
  <2>2. /\ opened'.suite = sealed.suite /\ opened'.altered = what /\ opened'.cap = cap
        /\ opened'.answer = a
    BY <2>1
  <2>3. /\ sealed' = sealed /\ sealed # None /\ sealed.answer.ret = "OK"
        /\ sealed.suite # "hash"
        /\ what = "text" => sealed.suite \in {"rsa", "sp-hash"}
        /\ what \in {"key", "iv", "aad", "tag"} => sealed.suite # "sp-hash"
        /\ what \in Divisions => sealed.suite = "sp"
        /\ what = "shorter" => sealed.answer.written >= 32
    BY <1>2 DEF Open
  <2>4. QED
    BY <2>2, <2>3 DEF CryptoInv
<1>3. CASE Forget
  BY <1>3 DEF Forget, CryptoInv
<1>4. CASE UNCHANGED cryptoVars
  BY <1>4 DEF cryptoVars, CryptoInv
<1>5. QED
  BY <1>1, <1>2, <1>3, <1>4 DEF CryptoNext

\* Padding adds at least one byte and at most a block.
LEMMA PaddedBounds ==
  ASSUME NEW n \in Nat
  PROVE  Padded(n) \in Nat /\ n < Padded(n) /\ Padded(n) <= n + 16 /\ Padded(n) % 16 = 0
  BY DEF Padded

\* The fields of a request.
LEMMA RequestFields ==
  ASSUME NEW r \in Requests
  PROVE  /\ r.suite \in Suites /\ r.len \in Nat /\ r.cap \in Nat
         /\ r.len < Word /\ r.cap < Word /\ r.tagCap \in Nat
         /\ r.key = "k" /\ r.iv = <<"v">> /\ r.aad = <<<<"a">>>> /\ r.text = <<"text">>
<1>1. /\ r.suite \in Suites /\ r.len \in Lengths /\ r.cap \in Caps
      /\ r.key = "k" /\ r.tagCap \in {0, 16, 32}
  BY DEF Requests
<1>2. r.text \in {<<"text">>} /\ r.iv \in {<<"v">>} /\ r.aad \in {<<<<"a">>>>}
  BY DEF Requests
<1>3. r.len \in 0 .. Word - 1 /\ r.cap \in 0 .. Word - 1 /\ Word \in Nat
  BY <1>1, CryptoAssumption
<1>4. QED
  BY <1>1, <1>2, <1>3

\* What a CBC cipher of CRYPTO answers.
LEMMA CbcSealed ==
  ASSUME NEW r \in Requests, r.suite \in Cbc
  PROVE  LET a == Answer(r) IN
         /\ a.written \in Nat /\ a.written <= r.cap
         /\ a.ret = "OK" => /\ a.written = Padded(r.len) /\ a.out = Cipher(r) /\ a.tag = NoData
                            /\ r.keyLen = KeyLen(r.suite) /\ r.ivLen = IvLen(r.suite)
<1>1. Answer(r) = Encrypt(r)
  BY DEF Answer, Cbc, Digests
<1>2. r.suite \notin Gcm
  BY DEF Cbc, Gcm
<1>3. r.len \in Nat /\ r.cap \in Nat /\ r.len < Word /\ r.cap < Word
  BY RequestFields
<1>4. CASE r.keyLen # KeyLen(r.suite) \/ r.ivLen # IvLen(r.suite) \/ r.cap < (r.len + 16) % Word
           \/ Negative(r.len)
  <2>1. Answer(r) = Refused("EINVAL") \/ Answer(r) = Refused("ENOMEM")
    BY <1>1, <1>2, <1>4 DEF Encrypt, CbcEncrypt
  <2>2. QED
    BY <1>3, <2>1 DEF Refused
<1>5. CASE ~ (r.keyLen # KeyLen(r.suite) \/ r.ivLen # IvLen(r.suite) \/ r.cap < (r.len + 16) % Word
           \/ Negative(r.len))
  <2>1. Answer(r) = [ret |-> "OK", written |-> Padded(r.len), out |-> Cipher(r), tag |-> NoData]
    BY <1>1, <1>2, <1>5 DEF Encrypt, CbcEncrypt
  <2>2. r.len < Word \div 2
    BY <1>3, <1>5, CryptoAssumption DEF Negative
  <2>3. r.len + 16 < Word
    BY <1>3, <2>2, CryptoAssumption
  <2>4. (r.len + 16) % Word = r.len + 16
    BY <1>3, <2>3, CryptoAssumption
  <2>5. r.len + 16 <= r.cap
    BY <1>3, <1>5, <2>4
  <2>6. Padded(r.len) \in Nat /\ Padded(r.len) <= r.cap
    BY <1>3, <2>5, PaddedBounds
  <2>7. QED
    BY <1>5, <2>1, <2>6
<1>6. QED
  BY <1>4, <1>5

\* What a GCM cipher of CRYPTO answers.
LEMMA GcmSealed ==
  ASSUME NEW r \in Requests, r.suite \in Gcm
  PROVE  LET a == Answer(r) IN
         /\ a.written \in Nat /\ a.written <= r.cap
         /\ a.ret = "OK" => /\ a.written = r.len /\ a.out = Cipher(r)
                            /\ a.tag = IF r.tagCap >= TAG THEN Tag(r, Cipher(r)) ELSE NoData
                            /\ r.keyLen = KeyLen(r.suite) /\ r.ivLen = IvLen(r.suite)
<1>1. Answer(r) = Encrypt(r)
  BY DEF Answer, Gcm, Digests
<1>2. r.len \in Nat /\ r.cap \in Nat
  BY RequestFields
<1>3. CASE r.keyLen # KeyLen(r.suite) \/ r.ivLen # IvLen(r.suite) \/ r.cap < r.len
           \/ Negative(r.len)
  <2>1. Answer(r) = Refused("EINVAL") \/ Answer(r) = Refused("ENOMEM")
    BY <1>1, <1>3 DEF Encrypt, GcmEncrypt
  <2>2. QED
    BY <1>2, <2>1 DEF Refused
<1>4. CASE ~ (r.keyLen # KeyLen(r.suite) \/ r.ivLen # IvLen(r.suite) \/ r.cap < r.len
              \/ Negative(r.len))
  <2>1. Answer(r) = [ret |-> "OK", written |-> r.len, out |-> Cipher(r),
                     tag |-> IF r.tagCap >= TAG THEN Tag(r, Cipher(r)) ELSE NoData]
    BY <1>1, <1>4 DEF Encrypt, GcmEncrypt
  <2>2. QED
    BY <1>2, <1>4, <2>1
<1>5. QED
  BY <1>3, <1>4

\* What SP's encryption answers.
LEMMA SpSealed ==
  ASSUME NEW r \in Requests, r.suite = "sp"
  PROVE  LET a == Answer(r) IN
         /\ a.written \in Nat /\ a.written <= r.cap
         /\ a.ret = "OK" => /\ a.written = Padded(r.len) /\ a.out = SpCipher(r, r.len)
                            /\ a.tag = SpMac(r, SpCipher(r, r.len))
                            /\ r.keyLen # 0 /\ r.ivLen = 16
<1>1. Answer(r) = SpEncrypt(r)
  BY DEF Answer, Digests
<1>2. r.len \in Nat /\ r.cap \in Nat /\ Padded(r.len) \in Nat
  <2>1. r.len \in Nat /\ r.cap \in Nat
    BY RequestFields
  <2>2. QED
    BY <2>1, PaddedBounds
<1>3. CASE r.keyLen = 0 \/ r.len = 0 \/ r.ivLen # 16 \/ Padded(r.len) > r.cap
  <2>1. Answer(r) = Refused("EINVAL") \/ Answer(r) = Refused("ENOMEM")
    BY <1>1, <1>3 DEF SpEncrypt
  <2>2. QED
    BY <1>2, <2>1 DEF Refused
<1>4. CASE ~ (r.keyLen = 0 \/ r.len = 0 \/ r.ivLen # 16 \/ Padded(r.len) > r.cap)
  <2>1. CASE r.tagCap < MAC
    <3>1. Answer(r) = [ret |-> "ENOMEM", written |-> Padded(r.len), out |-> NoData, tag |-> NoData]
      BY <1>1, <1>4, <2>1 DEF SpEncrypt
    <3>2. QED
      BY <1>2, <1>4, <3>1
  <2>2. CASE ~ (r.tagCap < MAC)
    <3>1. Answer(r) = [ret |-> "OK", written |-> Padded(r.len), out |-> SpCipher(r, r.len),
                       tag |-> SpMac(r, SpCipher(r, r.len))]
      BY <1>1, <1>4, <2>2 DEF SpEncrypt
    <3>2. QED
      BY <1>2, <1>4, <3>1
  <2>3. QED
    BY <2>1, <2>2
<1>5. QED
  BY <1>3, <1>4

\* What signing answers.
LEMMA RsaSealed ==
  ASSUME NEW r \in Requests, r.suite = "rsa"
  PROVE  LET a == Answer(r) IN
         /\ a.written \in Nat /\ a.written <= r.cap
         /\ a.ret = "OK" => a.out = <<r.key, Md(r.md), r.text>> /\ Md(r.md) \in Mds
<1>1. Answer(r) = Sign(r)
  BY DEF Answer, Digests
<1>2. r.cap \in Nat
  BY RequestFields
<1>3. CASE Md(r.md) \notin Mds \/ SIGNATURE > r.cap
  <2>1. Answer(r) = Refused("ENOTSUP") \/ Answer(r) = Refused("ENOMEM")
    BY <1>1, <1>3 DEF Sign
  <2>2. QED
    BY <1>2, <2>1 DEF Refused
<1>4. CASE ~ (Md(r.md) \notin Mds \/ SIGNATURE > r.cap)
  <2>1. Answer(r) = [ret |-> "OK", written |-> SIGNATURE, out |-> <<r.key, Md(r.md), r.text>>,
                     tag |-> NoData]
    BY <1>1, <1>4 DEF Sign
  <2>2. QED
    BY <1>2, <1>4, <2>1 DEF SIGNATURE
<1>5. QED
  BY <1>3, <1>4

\* What the digests answer.
LEMMA DigestSealed ==
  ASSUME NEW r \in Requests, r.suite \in Digests
  PROVE  LET a == Answer(r) IN
         /\ a.written \in Nat /\ a.written <= r.cap
         /\ a.ret = "OK" => a.out = <<r.md, r.text>>
<1>1. Answer(r) = Digest(r)
  BY DEF Answer, Digests
<1>2. r.cap \in Nat
  BY RequestFields
<1>3. CASE (r.suite = "sp-hash" /\ r.len = 0) \/ r.md \notin HashAlgos(r.suite)
           \/ r.cap < HashLen(r.md)
  <2>1. \/ Answer(r) = Refused("EINVAL") \/ Answer(r) = Refused("ENOTSUP")
        \/ Answer(r) = Refused("ENOMEM")
    BY <1>1, <1>3 DEF Digest
  <2>2. QED
    BY <1>2, <2>1 DEF Refused
<1>4. CASE ~ ((r.suite = "sp-hash" /\ r.len = 0) \/ r.md \notin HashAlgos(r.suite)
              \/ r.cap < HashLen(r.md))
  <2>1. Answer(r) = [ret |-> "OK", written |-> HashLen(r.md), out |-> <<r.md, r.text>>,
                     tag |-> NoData]
    BY <1>1, <1>4 DEF Digest
  <2>2. HashLen(r.md) \in Nat
    BY <1>4 DEF HashAlgos, HashLen
  <2>3. QED
    BY <1>2, <1>4, <2>1, <2>2
<1>5. QED
  BY <1>3, <1>4

\* Every call that seals stays in its buffer.
LEMMA SealedFits ==
  ASSUME NEW r \in Requests
  PROVE  Answer(r).written \in Nat /\ Answer(r).written <= r.cap
<1>1. r.suite \in Cbc \/ r.suite \in Gcm \/ r.suite = "sp" \/ r.suite = "rsa" \/ r.suite \in Digests
  BY RequestFields DEF Suites
<1>2. QED
  BY <1>1, CbcSealed, GcmSealed, SpSealed, RsaSealed, DigestSealed

\* What the other side has, field by field.
LEMMA ReceivedFields ==
  ASSUME NEW sent, NEW what, NEW cap, what \notin Divisions
  PROVE  LET q == Received(sent, what, cap)  r == sent.request  a == sent.answer IN
         /\ q.suite = r.suite /\ q.keyLen = r.keyLen /\ q.ivLen = r.ivLen /\ q.md = r.md
         /\ q.key = IF what = "key" THEN "k2" ELSE r.key
         /\ q.iv = IF what = "iv" THEN <<"v2">> ELSE r.iv
         /\ q.aad = IF what = "aad" THEN <<<<"a2">>>> ELSE r.aad
         /\ q.text = IF what = "text" THEN <<"text2">> ELSE r.text
         /\ q.ct = IF what = "out" THEN <<<<"ct2">>>> ELSE a.out
         /\ q.tag = IF what = "tag" THEN <<"tag2">> ELSE a.tag
         /\ q.len = a.written /\ q.textLen = r.len /\ q.cap = cap
<1>1. what # "longer" /\ what # "shorter"
  BY DEF Divisions
<1> DEFINE q == Received(sent, what, cap)
           r == sent.request
           a == sent.answer
<1>2. /\ q.suite = r.suite /\ q.keyLen = r.keyLen /\ q.ivLen = r.ivLen /\ q.md = r.md
      /\ q.key = IF what = "key" THEN "k2" ELSE r.key
      /\ q.text = IF what = "text" THEN <<"text2">> ELSE r.text
      /\ q.tag = IF what = "tag" THEN <<"tag2">> ELSE a.tag
      /\ q.textLen = r.len /\ q.cap = cap
  BY DEF Received
<1>3. q.iv = IF what = "iv" THEN <<"v2">> ELSE r.iv
  BY <1>1 DEF Received
<1>4. q.aad = IF what = "aad" THEN <<<<"a2">>>> ELSE r.aad
  BY <1>1 DEF Received
<1>5. q.ct = IF what = "out" THEN <<<<"ct2">>>> ELSE a.out
  BY <1>1 DEF Received
<1>6. q.len = a.written
  BY <1>1 DEF Received
<1>7. QED
  BY <1>2, <1>3, <1>4, <1>5, <1>6

\* Opening what CBC has sealed: nothing is authenticated, but unaltered it opens.
LEMMA CbcOpened ==
  ASSUME NEW sent, sent.request \in Requests, sent.request.suite \in Cbc,
         sent.answer = Answer(sent.request), sent.answer.ret = "OK",
         NEW what \in Alterations \ Divisions, what # "text", NEW cap \in Caps,
         NEW b \in Opened(Received(sent, what, cap))
  PROVE  /\ b.written <= cap
         /\ what = "none" => \/ Negative(sent.answer.written)
                             \/ cap < sent.answer.written /\ b.ret = "ENOMEM"
                             \/ b.ret = "OK" /\ b.out = <<"text">>
<1> DEFINE r == sent.request
           a == sent.answer
           q == Received(sent, what, cap)
<1>1. /\ a.written = Padded(r.len) /\ a.out = Cipher(r)
      /\ r.keyLen = KeyLen(r.suite) /\ r.ivLen = IvLen(r.suite)
  BY CbcSealed
<1>2. /\ q.suite = r.suite /\ q.keyLen = r.keyLen /\ q.ivLen = r.ivLen
      /\ q.len = Padded(r.len) /\ q.textLen = r.len /\ q.cap = cap /\ q.text = r.text
      /\ what = "none" => q.key = r.key /\ q.iv = r.iv /\ q.ct = Cipher(r)
  BY <1>1, ReceivedFields
<1>3. b \in CbcDecrypt(q)
  <2>1. b \in Decrypt(q)
    BY <1>2 DEF Opened, Cbc, Digests
  <2>2. r.suite \notin Gcm
    BY DEF Cbc, Gcm
  <2>3. QED
    BY <1>1, <1>2, <2>1, <2>2 DEF Decrypt
<1>4. /\ r.len \in Nat /\ Padded(r.len) \in Nat /\ r.len < Padded(r.len)
      /\ Padded(r.len) % 16 = 0 /\ r.text = <<"text">> /\ cap \in Nat
  <2>1. r.len \in Nat /\ r.text = <<"text">>
    BY RequestFields
  <2>2. Padded(r.len) \in Nat /\ r.len < Padded(r.len) /\ Padded(r.len) % 16 = 0
    BY <2>1, PaddedBounds
  <2>3. cap \in Nat
    BY CryptoAssumption
  <2>4. QED
    BY <2>1, <2>2, <2>3
<1>5. Padded(r.len) >= 16
  BY <1>4
<1> HIDE DEF q, r, a
<1> DEFINE Bad(n) == [ret |-> "EILSEQ", written |-> n, out |-> NoData, tag |-> NoData]
           Good(n) == [ret |-> "OK", written |-> n, out |-> Plain(q), tag |-> NoData]
<1>6. CASE cap < Padded(r.len)
  <2>1. b = Refused("ENOMEM")
    BY <1>2, <1>3, <1>6 DEF CbcDecrypt
  <2>2. QED
    BY <1>1, <1>4, <1>6, <2>1 DEF Refused, a
<1>7. CASE ~ (cap < Padded(r.len)) /\ Negative(Padded(r.len))
  <2>1. b = Refused("EINVAL")
    BY <1>2, <1>3, <1>7 DEF CbcDecrypt
  <2>2. QED
    BY <1>1, <1>4, <1>7, <2>1 DEF Refused, a
<1>8. CASE ~ (cap < Padded(r.len)) /\ ~ Negative(Padded(r.len))
  <2>1. b \in IF q.ct = Cipher(q) THEN {Good(q.textLen)}
              ELSE {Bad(q.len - 16), Good(q.len - 1), Good(q.len - 16)}
    BY <1>2, <1>3, <1>4, <1>5, <1>8 DEF CbcDecrypt
  <2>2. CASE q.ct = Cipher(q)
    <3>1. b = Good(r.len)
      BY <1>2, <2>1, <2>2
    <3>2. b.written = r.len /\ b.ret = "OK" /\ b.out = <<"text">>
      BY <1>2, <1>4, <2>2, <3>1 DEF Plain
    <3>3. QED
      BY <1>4, <1>8, <3>2
  <2>3. CASE q.ct # Cipher(q)
    <3>1. b.written \in {Padded(r.len) - 16, Padded(r.len) - 1}
      BY <1>2, <2>1, <2>3
    <3>2. what # "none"
      BY <1>2, <2>3 DEF Cipher
    <3>3. QED
      BY <1>4, <1>5, <1>8, <3>1, <3>2
  <2>4. QED
    BY <2>2, <2>3
<1>9. QED
  BY <1>6, <1>7, <1>8

\* A symbol is none of the tuples of what was computed.
LEMMA SymbolsApart ==
  ASSUME NEW x, NEW u, NEW v, NEW w, NEW y
  PROVE  <<x>> # <<u, v, w, y>> /\ <<x>> # <<u, v, w>> /\ <<x>> # <<u, v>>
<1>1. Len(<<x>>) = 1 /\ Len(<<u, v, w, y>>) = 4 /\ Len(<<u, v, w>>) = 3 /\ Len(<<u, v>>) = 2
  OBVIOUS
<1>2. QED
  BY <1>1

\* Opening what GCM has sealed: the tag covers the key, the iv, the associated
\* data and the ciphertext.
LEMMA GcmOpened ==
  ASSUME NEW sent, sent.request \in Requests, sent.request.suite \in Gcm,
         sent.answer = Answer(sent.request), sent.answer.ret = "OK",
         NEW what \in Alterations \ Divisions, what # "text", NEW cap \in Caps,
         NEW b \in Opened(Received(sent, what, cap))
  PROVE  /\ b.written <= cap
         /\ what = "none" => \/ Negative(sent.answer.written)
                             \/ cap < sent.answer.written /\ b.ret = "ENOMEM"
                             \/ sent.request.tagCap < TAG /\ b.ret = "EINVAL"
                             \/ b.ret = "OK" /\ b.out = <<"text">>
         /\ what # "none" => b.ret # "OK"
<1> DEFINE r == sent.request
           a == sent.answer
           q == Received(sent, what, cap)
<1>1. /\ a.written = r.len /\ a.out = Cipher(r)
      /\ a.tag = IF r.tagCap >= TAG THEN Tag(r, Cipher(r)) ELSE NoData
      /\ r.keyLen = KeyLen(r.suite) /\ r.ivLen = IvLen(r.suite)
  BY GcmSealed
<1>2. /\ q.suite = r.suite /\ q.keyLen = r.keyLen /\ q.ivLen = r.ivLen
      /\ q.len = r.len /\ q.cap = cap /\ q.text = r.text
      /\ q.key = IF what = "key" THEN "k2" ELSE r.key
      /\ q.iv = IF what = "iv" THEN <<"v2">> ELSE r.iv
      /\ q.aad = IF what = "aad" THEN <<<<"a2">>>> ELSE r.aad
      /\ q.ct = IF what = "out" THEN <<<<"ct2">>>> ELSE Cipher(r)
      /\ q.tag = IF what = "tag" THEN <<"tag2">> ELSE a.tag
  BY <1>1, ReceivedFields
<1>3. b \in GcmDecrypt(q)
  <2>1. b \in Decrypt(q)
    BY <1>2 DEF Opened, Gcm, Digests
  <2>2. QED
    BY <1>1, <1>2, <2>1 DEF Decrypt
<1>4. /\ r.len \in Nat /\ r.text = <<"text">> /\ cap \in Nat /\ r.tagCap \in Nat
      /\ r.key = "k" /\ r.iv = <<"v">> /\ r.aad = <<<<"a">>>>
  <2>1. /\ r.len \in Nat /\ r.text = <<"text">> /\ r.tagCap \in Nat
        /\ r.key = "k" /\ r.iv = <<"v">> /\ r.aad = <<<<"a">>>>
    BY RequestFields
  <2>2. cap \in Nat
    BY CryptoAssumption
  <2>3. QED
    BY <2>1, <2>2
<1> HIDE DEF q, r
<1>5. CASE q.tag = NoData
  <2>1. b = Refused("EINVAL")
    BY <1>3, <1>5 DEF GcmDecrypt
  <2>2. what # "tag"
    BY <1>2, <1>5 DEF NoData
  <2>3. what = "none" => r.tagCap < TAG
    <3>1. Tag(r, Cipher(r)) # NoData
      BY SymbolsApart DEF Tag, NoData
    <3>2. QED
      BY <1>1, <1>2, <1>4, <1>5, <2>2, <3>1 DEF TAG
  <2>4. QED
    BY <1>4, <2>1, <2>3 DEF Refused, r
<1>6. CASE q.tag # NoData /\ cap < r.len
  <2>1. b = Refused("ENOMEM")
    BY <1>2, <1>3, <1>6 DEF GcmDecrypt
  <2>2. QED
    BY <1>1, <1>4, <1>6, <2>1 DEF Refused, r
<1>7. CASE q.tag # NoData /\ ~ (cap < r.len) /\ Negative(r.len)
  <2>1. b = Refused("EINVAL")
    BY <1>2, <1>3, <1>7 DEF GcmDecrypt
  <2>2. QED
    BY <1>1, <1>4, <1>7, <2>1 DEF Refused, r
<1>8. CASE q.tag # NoData /\ ~ (cap < r.len) /\ ~ Negative(r.len)
  <2>1. CASE q.tag # Tag(q, q.ct)
    <3>1. b = [ret |-> "EILSEQ", written |-> r.len, out |-> NoData, tag |-> NoData]
      BY <1>2, <1>3, <1>8, <2>1 DEF GcmDecrypt
    <3>2. what # "none"
      <4>1. what = "none" => q.tag = Tag(r, Cipher(r))
        BY <1>1, <1>2, <1>8
      <4>2. what = "none" => Tag(q, q.ct) = Tag(r, Cipher(r))
        BY <1>2 DEF Tag
      <4>3. QED
        BY <2>1, <4>1, <4>2
    <3>3. QED
      BY <1>4, <1>8, <3>1, <3>2
  <2>2. CASE q.tag = Tag(q, q.ct)
    <3>1. b = [ret |-> "OK", written |-> r.len, out |-> Plain(q), tag |-> NoData]
      BY <1>2, <1>3, <1>8, <2>2 DEF GcmDecrypt
    <3>2. what # "tag"
      BY <1>2, <2>2, SymbolsApart DEF Tag
    <3>3. Tag(q, q.ct) = Tag(r, Cipher(r))
      BY <1>1, <1>2, <1>8, <2>2, <3>2
    <3>4. q.key = r.key /\ q.iv = r.iv /\ q.aad = r.aad /\ q.ct = Cipher(r)
      BY <3>3 DEF Tag
    <3>5. what # "out"
      <4>1. <<<<"ct2">>>> # Cipher(r)
        BY SymbolsApart DEF Cipher
      <4>2. QED
        BY <1>2, <3>4, <4>1
    <3>6. what = "none"
      BY <1>2, <1>4, <3>2, <3>4, <3>5 DEF Alterations
    <3>7. Cipher(q) = Cipher(r)
      BY <1>2, <3>4 DEF Cipher
    <3>8. Plain(q) = <<"text">>
      BY <1>2, <1>4, <3>4, <3>7 DEF Plain
    <3>9. QED
      BY <1>4, <1>8, <3>1, <3>6, <3>8
  <2>3. QED
    BY <2>1, <2>2
<1>9. QED
  BY <1>5, <1>6, <1>7, <1>8

\* The blocks of a ciphertext.
Blocks(r, n) == {SpCipher(r, n)[j] : j \in DOMAIN SpCipher(r, n)}
LEMMA SpBlocks ==
  ASSUME NEW r, NEW n \in Nat
  PROVE  LET c == SpCipher(r, n) IN
         /\ c \in Seq(Blocks(r, n)) /\ Len(c) = Padded(n) \div 16 /\ Len(c) \in Nat /\ Len(c) >= 1
         /\ \A j \in 1 .. Len(c) : c[j] = <<SubKey(r.key, 0), r.iv, r.text, j>>
<1> DEFINE m == Padded(n) \div 16
<1>1. m \in Nat /\ m >= 1
  BY DEF Padded
<1>2. SpCipher(r, n) = [j \in 1 .. m |-> <<SubKey(r.key, 0), r.iv, r.text, j>>]
  BY DEF SpCipher
<1> HIDE DEF m
<1>3. DOMAIN SpCipher(r, n) = 1 .. m
  BY <1>2
<1>4. SpCipher(r, n) \in [1 .. m -> Blocks(r, n)]
  BY <1>2, <1>3 DEF Blocks
<1>5. SpCipher(r, n) \in Seq(Blocks(r, n)) /\ Len(SpCipher(r, n)) = m
  BY <1>1, <1>4
<1>6. QED
  BY <1>1, <1>2, <1>5 DEF m

\* Opening what SP has sealed: its authentication code covers the same.
LEMMA SpOpened ==
  ASSUME NEW sent, sent.request \in Requests, sent.request.suite = "sp",
         sent.answer = Answer(sent.request), sent.answer.ret = "OK",
         NEW what \in Alterations \ Divisions, what # "text", NEW cap \in Caps,
         NEW b \in Opened(Received(sent, what, cap))
  PROVE  /\ b.written <= cap
         /\ what = "none" => \/ cap < sent.answer.written /\ b.ret = "ENOMEM"
                             \/ b.ret = "OK" /\ b.out = <<"text">>
         /\ what # "none" => b.ret # "OK"
<1> DEFINE r == sent.request
           a == sent.answer
           q == Received(sent, what, cap)
<1>1. /\ a.written = Padded(r.len) /\ a.out = SpCipher(r, r.len) /\ a.tag = SpMac(r, SpCipher(r, r.len))
      /\ r.keyLen # 0 /\ r.ivLen = 16
  BY SpSealed
<1>2. /\ q.keyLen = r.keyLen /\ q.ivLen = r.ivLen /\ q.text = r.text
      /\ q.len = Padded(r.len) /\ q.textLen = r.len /\ q.cap = cap
      /\ q.key = IF what = "key" THEN "k2" ELSE r.key
      /\ q.iv = IF what = "iv" THEN <<"v2">> ELSE r.iv
      /\ q.aad = IF what = "aad" THEN <<<<"a2">>>> ELSE r.aad
      /\ q.ct = IF what = "out" THEN <<<<"ct2">>>> ELSE SpCipher(r, r.len)
      /\ q.tag = IF what = "tag" THEN <<"tag2">> ELSE SpMac(r, SpCipher(r, r.len))
  BY <1>1, ReceivedFields
<1>3. b = SpDecrypt(q)
  BY ReceivedFields DEF Opened
<1>4. /\ r.len \in Nat /\ Padded(r.len) \in Nat /\ r.len < Padded(r.len) /\ cap \in Nat
      /\ r.key = "k" /\ r.iv = <<"v">> /\ r.aad = <<<<"a">>>> /\ r.text = <<"text">>
  <2>1. r.len \in Nat /\ r.key = "k" /\ r.iv = <<"v">> /\ r.aad = <<<<"a">>>> /\ r.text = <<"text">>
    BY RequestFields
  <2>2. Padded(r.len) \in Nat /\ r.len < Padded(r.len)
    BY <2>1, PaddedBounds
  <2>3. cap \in Nat
    BY CryptoAssumption
  <2>4. QED
    BY <2>1, <2>2, <2>3
<1> HIDE DEF q, r
<1>5. q.tag # NoData
  <2>1. SpMac(r, SpCipher(r, r.len)) # NoData
    BY SymbolsApart DEF SpMac, Hmac, NoData
  <2>2. <<"tag2">> # NoData
    BY DEF NoData
  <2>3. QED
    BY <1>2, <2>1, <2>2
<1>6. ~ (q.keyLen = 0 \/ q.len = 0 \/ q.ivLen # 16 \/ q.tag = NoData)
  BY <1>1, <1>2, <1>4, <1>5
<1>7. CASE q.tag # SpMac(q, q.ct)
  <2>1. b = Refused("EAUTH")
    BY <1>3, <1>6, <1>7 DEF SpDecrypt
  <2>2. what # "none"
    BY <1>2, <1>7 DEF SpMac
  <2>3. QED
    BY <1>4, <2>1, <2>2 DEF Refused
<1>8. CASE q.tag = SpMac(q, q.ct)
  <2>1. what # "tag"
    BY <1>2, <1>8, SymbolsApart DEF SpMac, Hmac
  <2>2. SpMac(q, q.ct) = SpMac(r, SpCipher(r, r.len))
    BY <1>2, <1>8, <2>1
  <2>3. /\ SubKey(q.key, 1) = SubKey(r.key, 1)
        /\ q.aad \o <<q.iv>> \o q.ct = r.aad \o <<r.iv>> \o SpCipher(r, r.len)
    BY <2>2 DEF SpMac, Hmac
  <2>4. q.key = r.key
    BY <2>3 DEF SubKey
  <2>11. q.iv = r.iv /\ q.aad = r.aad /\ q.ct = SpCipher(r, r.len)
    <3> DEFINE S == {<<"a">>, <<"a2">>, <<"v">>, <<"v2">>, <<"ct2">>} \cup Blocks(r, r.len)
    <3>1. SpCipher(r, r.len) \in Seq(S)
      <4>1. SpCipher(r, r.len) \in Seq(Blocks(r, r.len))
        BY <1>4, SpBlocks
      <4>2. QED
        BY <4>1
    <3>2. PICK aq \in S : q.aad = <<aq>>
      BY <1>2, <1>4
    <3>3. PICK ar \in S : r.aad = <<ar>>
      BY <1>4
    <3>4. q.iv \in S /\ r.iv \in S
      BY <1>2, <1>4
    <3>5. q.ct \in Seq(S)
      <4>1. <<<<"ct2">>>> \in Seq(S)
        OBVIOUS
      <4>2. QED
        BY <1>2, <3>1, <4>1
    <3>6. <<aq>> \o <<q.iv>> \o q.ct = <<ar>> \o <<r.iv>> \o SpCipher(r, r.len)
      BY <2>3, <3>2, <3>3
    <3> HIDE DEF S
    <3>7. PICK v \in S, w \in S, c \in Seq(S), d \in Seq(S) :
            v = q.iv /\ w = r.iv /\ c = q.ct /\ d = SpCipher(r, r.len)
      BY <3>1, <3>4, <3>5
    <3>9. aq = ar /\ v = w /\ c = d
      <4> DEFINE D == <<aq>> \o <<v>> \o c
                 E == <<ar>> \o <<w>> \o d
      <4>1. D = E
        BY <3>6, <3>7
      <4>2. Len(D) = Len(c) + 2 /\ Len(E) = Len(d) + 2 /\ Len(c) \in Nat /\ Len(d) \in Nat
        OBVIOUS
      <4>3. D[1] = aq /\ D[2] = v /\ E[1] = ar /\ E[2] = w
        OBVIOUS
      <4>4. \A j \in 1 .. Len(c) : D[j + 2] = c[j]
        OBVIOUS
      <4>5. \A j \in 1 .. Len(d) : E[j + 2] = d[j]
        OBVIOUS
      <4> HIDE DEF D, E
      <4>6. Len(c) = Len(d) /\ aq = ar /\ v = w
        BY <4>1, <4>2, <4>3
      <4>7. \A j \in 1 .. Len(c) : c[j] = d[j]
        BY <4>1, <4>4, <4>5, <4>6
      <4>8. c = d
        BY <4>6, <4>7
      <4>9. QED
        BY <4>6, <4>8
    <3>8. QED
      BY <3>2, <3>3, <3>7, <3>9
  <2>5. what # "out"
    <3>1. Len(SpCipher(r, r.len)) >= 1
          /\ SpCipher(r, r.len)[1] = <<SubKey(r.key, 0), r.iv, r.text, 1>>
      BY <1>4, SpBlocks
    <3>2. \A x : \A u, v, w, y : <<x>> # <<u, v, w, y>>
      BY SymbolsApart
    <3>5. <<"ct2">> # <<SubKey(r.key, 0), r.iv, r.text, 1>>
      BY <3>2
    <3>3. <<<<"ct2">>>> # SpCipher(r, r.len)
      <4>1. <<<<"ct2">>>>[1] = <<"ct2">>
        OBVIOUS
      <4>2. QED
        BY <3>1, <3>5, <4>1
    <3>4. QED
      BY <1>2, <2>11, <3>3
  <2>6. what = "none"
    <3>1. what # "key"
      BY <1>2, <1>4, <2>4
    <3>2. what # "iv" /\ what # "aad"
      BY <1>2, <1>4, <2>11
    <3>3. QED
      BY <2>1, <2>5, <3>1, <3>2 DEF Alterations
  <2>7. q.ct = SpCipher(q, q.textLen) /\ SpUnpadded(q) = r.len
    <3>1. q.ct = SpCipher(q, q.textLen)
      BY <1>2, <2>11, <2>4 DEF SpCipher
    <3>2. SpUnpadded(q) = r.len
      BY <1>2, <1>4 DEF SpUnpadded
    <3>3. QED
      BY <3>1, <3>2
  <2>8. CASE r.len > cap
    <3>1. b = Refused("ENOMEM")
      BY <1>2, <1>3, <1>6, <1>8, <2>7, <2>8 DEF SpDecrypt
    <3>2. QED
      BY <1>1, <1>4, <2>6, <2>8, <3>1 DEF Refused, r
  <2>9. CASE ~ (r.len > cap)
    <3>1. b = [ret |-> "OK", written |-> r.len, tag |-> NoData, out |-> q.text]
      BY <1>2, <1>3, <1>6, <1>8, <2>7, <2>9 DEF SpDecrypt
    <3>2. QED
      BY <1>2, <1>4, <2>6, <2>9, <3>1
  <2>10. QED
    BY <2>8, <2>9
<1>9. QED
  BY <1>7, <1>8

\* The same bytes, divided in another way: SP may not notice, but gives out something else.
LEMMA SpDivided ==
  ASSUME NEW sent, sent.request \in Requests, sent.request.suite = "sp",
         sent.answer = Answer(sent.request), sent.answer.ret = "OK",
         NEW what \in Divisions, what = "shorter" => sent.answer.written >= 32, NEW cap \in Caps,
         NEW b \in Opened(Received(sent, what, cap))
  PROVE  b.written <= cap /\ b.out # <<"text">>
<1> DEFINE r == sent.request
           a == sent.answer
           q == Received(sent, what, cap)
           c == SpCipher(r, r.len)
<1>1. /\ a.written = Padded(r.len) /\ a.out = c
      /\ r.keyLen # 0 /\ r.ivLen = 16
  BY SpSealed
<1>2. /\ r.len \in Nat /\ Padded(r.len) \in Nat /\ Padded(r.len) % 16 = 0 /\ cap \in Nat
      /\ r.iv = <<"v">> /\ r.text = <<"text">>
  <2>1. r.len \in Nat /\ r.iv = <<"v">> /\ r.text = <<"text">>
    BY RequestFields
  <2>2. Padded(r.len) \in Nat /\ Padded(r.len) % 16 = 0
    BY <2>1, PaddedBounds
  <2>3. cap \in Nat
    BY CryptoAssumption
  <2>4. QED
    BY <2>1, <2>2, <2>3
<1>3. /\ q.suite = "sp" /\ q.cap = cap /\ q.textLen = r.len /\ q.text = r.text
      /\ q.ct = IF what = "longer" THEN <<r.iv>> \o c ELSE Tail(c)
      /\ q.len = IF what = "longer" THEN Padded(r.len) + 16 ELSE Padded(r.len) - 16
  <2>1. /\ q.suite = "sp" /\ q.cap = cap /\ q.textLen = r.len
        /\ q.text = IF what = "text" THEN <<"text2">> ELSE r.text
    BY DEF Received
  <2>2. what # "text"
    BY DEF Divisions
  <2>3. CASE what = "longer"
    <3>1. q.ct = <<r.iv>> \o a.out
      BY <2>3 DEF Received
    <3>2. q.len = a.written + 16
      BY <2>3 DEF Received
    <3>3. QED
      BY <1>1, <2>1, <2>2, <2>3, <3>1, <3>2
  <2>4. CASE what = "shorter"
    <3>1. q.ct = Tail(a.out)
      BY <2>4 DEF Received
    <3>2. q.len = a.written - 16
      BY <2>4 DEF Received
    <3>3. QED
      BY <1>1, <2>1, <2>2, <2>4, <3>1, <3>2
  <2>5. QED
    BY <2>3, <2>4 DEF Divisions
<1>4. b = SpDecrypt(q)
  BY <1>3 DEF Opened
<1>5. Len(q.ct) # Padded(r.len) \div 16
  <2>1. c \in Seq(Blocks(r, r.len)) /\ Len(c) = Padded(r.len) \div 16 /\ Len(c) \in Nat /\ Len(c) >= 1
    BY <1>2, SpBlocks
  <2>2. PICK n \in Nat : n = Padded(r.len) \div 16
    BY <2>1
  <2>3. CASE what = "longer"
    <3>1. c \in Seq(Blocks(r, r.len) \cup {r.iv}) /\ <<r.iv>> \in Seq(Blocks(r, r.len) \cup {r.iv})
      BY <2>1
    <3>2. Len(<<r.iv>> \o c) = Len(c) + 1
      BY <3>1
    <3>3. QED
      BY <1>3, <2>1, <2>2, <2>3, <3>2
  <2>4. CASE what = "shorter"
    <3>1. Len(Tail(c)) = Len(c) - 1
      BY <2>1
    <3>2. QED
      BY <1>3, <2>1, <2>2, <2>4, <3>1 DEF Divisions
  <2>5. QED
    BY <2>3, <2>4 DEF Divisions
<1>6. Len(SpCipher(q, q.textLen)) = Padded(r.len) \div 16
  BY <1>2, <1>3, SpBlocks
<1>7. SpUnpadded(q) \in Int
  BY <1>2, <1>3 DEF SpUnpadded, Divisions
<1> HIDE DEF q, r, c, a
<1>8. q.ct # SpCipher(q, q.textLen)
  BY <1>5, <1>6
<1>9. \/ b = Refused("EINVAL") \/ b = Refused("EAUTH") \/ b = Refused("ENOMEM")
      \/ /\ ~ (SpUnpadded(q) > cap)
         /\ b = [ret |-> "OK", written |-> SpUnpadded(q), tag |-> NoData, out |-> <<"garbage">>]
  BY <1>3, <1>4, <1>8 DEF SpDecrypt
<1>10. <<"garbage">> # <<"text">> /\ NoData # <<"text">>
  BY DEF NoData
<1>11. QED
  BY <1>2, <1>7, <1>9, <1>10 DEF Refused

\* Checking a signature answers whether it is one of this text by this key.
LEMMA RsaOpened ==
  ASSUME NEW sent, sent.request \in Requests, sent.request.suite = "rsa",
         sent.answer = Answer(sent.request), sent.answer.ret = "OK",
         NEW what \in Alterations \ Divisions, NEW cap \in Caps,
         NEW b \in Opened(Received(sent, what, cap))
  PROVE  /\ b.written <= cap
         /\ what = "none" => b.ret = "OK" /\ b.out = <<"valid">>
         /\ what \in {"key", "text", "out"} => b.out # <<"valid">>
<1> DEFINE r == sent.request
           q == Received(sent, what, cap)
<1>1. sent.answer.out = <<r.key, Md(r.md), r.text>> /\ Md(r.md) \in Mds
  BY RsaSealed
<1>2. /\ q.md = r.md
      /\ q.key = IF what = "key" THEN "k2" ELSE r.key
      /\ q.text = IF what = "text" THEN <<"text2">> ELSE r.text
      /\ q.ct = IF what = "out" THEN <<<<"ct2">>>> ELSE <<r.key, Md(r.md), r.text>>
  BY <1>1, ReceivedFields
<1>3. b = Verify(q)
  BY ReceivedFields DEF Opened, Digests
<1>4. cap \in Nat /\ r.key = "k" /\ r.text = <<"text">>
  <2>1. r.key = "k" /\ r.text = <<"text">>
    BY RequestFields
  <2>2. cap \in Nat
    BY CryptoAssumption
  <2>3. QED
    BY <2>1, <2>2
<1> HIDE DEF q, r
<1>5. b = [ret |-> "OK", written |-> 0, tag |-> NoData,
           out |-> IF q.ct = <<q.key, Md(q.md), q.text>> THEN <<"valid">> ELSE <<"invalid">>]
  BY <1>1, <1>2, <1>3 DEF Verify
<1>6. what = "none" => q.ct = <<q.key, Md(q.md), q.text>>
  BY <1>2
<1>7. what \in {"key", "text", "out"} => q.ct # <<q.key, Md(q.md), q.text>>
  <2>1. CASE what = "key"
    BY <1>2, <1>4, <2>1
  <2>2. CASE what = "text"
    <3>1. <<"text">> # <<"text2">>
      OBVIOUS
    <3>2. QED
      BY <1>2, <1>4, <2>2, <3>1
  <2>3. CASE what = "out"
    BY <1>2, <2>3, SymbolsApart
  <2>4. QED
    BY <2>1, <2>2, <2>3
<1>8. <<"valid">> # <<"invalid">>
  OBVIOUS
<1>9. QED
  BY <1>4, <1>5, <1>6, <1>7, <1>8

\* A digest is right for its text only.
LEMMA DigestOpened ==
  ASSUME NEW sent, sent.request \in Requests, sent.request.suite = "sp-hash",
         sent.answer = Answer(sent.request), sent.answer.ret = "OK",
         NEW what \in {"none", "text", "out"}, what \notin Divisions, NEW cap \in Caps,
         NEW b \in Opened(Received(sent, what, cap))
  PROVE  /\ b.written <= cap
         /\ what = "none" => b.ret = "OK" /\ b.out = <<"text">>
         /\ what # "none" => b.ret # "OK"
<1> DEFINE r == sent.request
           q == Received(sent, what, cap)
<1>1. sent.answer.out = <<r.md, r.text>>
  BY DigestSealed DEF Digests
<1>2. /\ q.md = r.md
      /\ q.text = IF what = "text" THEN <<"text2">> ELSE r.text
      /\ q.ct = IF what = "out" THEN <<<<"ct2">>>> ELSE <<r.md, r.text>>
  BY <1>1, ReceivedFields
<1>3. b = VerifyHash(q)
  BY ReceivedFields DEF Opened
<1>4. cap \in Nat /\ r.text = <<"text">>
  <2>1. r.text = <<"text">>
    BY RequestFields
  <2>2. cap \in Nat
    BY CryptoAssumption
  <2>3. QED
    BY <2>1, <2>2
<1> HIDE DEF q, r
<1>5. what # "none" => q.ct # <<q.md, q.text>>
  <2>1. CASE what = "text"
    <3>1. <<"text">> # <<"text2">>
      OBVIOUS
    <3>2. QED
      BY <1>2, <1>4, <2>1, <3>1
  <2>2. CASE what = "out"
    BY <1>2, <2>2, SymbolsApart
  <2>3. QED
    BY <2>1, <2>2
<1>6. what = "none" => q.ct = <<q.md, q.text>> /\ q.text = <<"text">>
  BY <1>2, <1>4
<1>7. QED
  BY <1>3, <1>4, <1>5, <1>6 DEF VerifyHash, Refused

\* What CryptoInv says of the last exchange gives the three promises.
LEMMA CryptoPromises == CryptoInv => SealingSound
<1> SUFFICES ASSUME CryptoInv PROVE SealingSound
  OBVIOUS
<1>1. CryptoTypeOK
  BY DEF CryptoInv, CryptoTypeOK
<1>2. ASSUME sealed # None PROVE sealed.answer.written <= sealed.request.cap
  BY <1>2, SealedFits DEF CryptoInv
<1>3. ASSUME opened # None
      PROVE  /\ opened.answer.written <= opened.cap
             /\ opened.altered = "none" =>
                  \/ Negative(sealed.answer.written)
                  \/ opened.cap < sealed.answer.written /\ opened.answer.ret = "ENOMEM"
                  \/ /\ opened.suite \in Gcm /\ sealed.request.tagCap < TAG
                     /\ opened.answer.ret = "EINVAL"
                  \/ /\ opened.answer.ret = "OK"
                     /\ opened.answer.out = IF opened.suite = "rsa" THEN <<"valid">> ELSE <<"text">>
             /\ opened.altered # "none" =>
                  /\ opened.suite \in Authenticated =>
                       IF opened.altered \in Divisions THEN opened.answer.out # <<"text">>
                       ELSE opened.answer.ret # "OK"
                  /\ (opened.suite = "rsa" /\ opened.altered \in {"key", "text", "out"}) =>
                       opened.answer.out # <<"valid">>
  <2> DEFINE r == sealed.request
  <2>1. /\ r \in Requests /\ sealed.answer = Answer(r) /\ sealed.answer.ret = "OK"
        /\ opened.suite = r.suite /\ r.suite # "hash" /\ r.suite \in Suites
        /\ opened.altered \in Alterations /\ opened.cap \in Caps
        /\ opened.altered = "text" => r.suite \in {"rsa", "sp-hash"}
        /\ opened.altered \in {"key", "iv", "aad", "tag"} => r.suite # "sp-hash"
        /\ opened.altered \in Divisions => r.suite = "sp"
        /\ opened.altered = "shorter" => sealed.answer.written >= 32
        /\ opened.answer \in Opened(Received(sealed, opened.altered, opened.cap))
    BY <1>3, RequestFields DEF CryptoInv
  <2>8. ASSUME r.suite # "sp" PROVE opened.altered \in Alterations \ Divisions
    BY <2>1, <2>8
  <2>2. CASE r.suite \in Cbc
    <3>1. /\ opened.altered # "text" /\ r.suite \notin Authenticated /\ r.suite # "rsa"
          /\ r.suite # "sp"
      BY <2>1, <2>2 DEF Cbc, Gcm, Authenticated
    <3>2. opened.altered \in Alterations \ Divisions
      BY <2>8, <3>1
    <3>3. QED
      BY <2>1, <2>2, <3>1, <3>2, CbcOpened
  <2>3. CASE r.suite \in Gcm
    <3>1. opened.altered # "text" /\ r.suite # "rsa" /\ r.suite # "sp"
      BY <2>1, <2>3 DEF Gcm
    <3>2. opened.altered \in Alterations \ Divisions
      BY <2>8, <3>1
    <3>3. QED
      BY <2>1, <2>3, <3>1, <3>2, GcmOpened
  <2>4. CASE r.suite = "sp"
    <3>1. opened.altered # "text" /\ r.suite # "rsa" /\ r.suite \notin Gcm
      BY <2>1, <2>4 DEF Gcm
    <3>2. CASE opened.altered \in Divisions
      <4>1. opened.altered # "none"
        BY <3>2 DEF Divisions
      <4>2. opened.answer.written <= opened.cap /\ opened.answer.out # <<"text">>
        BY <2>1, <2>4, <3>2, SpDivided
      <4>3. QED
        BY <2>1, <3>1, <3>2, <4>1, <4>2
    <3>3. CASE opened.altered \notin Divisions
      <4>1. opened.altered \in Alterations \ Divisions
        BY <2>1, <3>3
      <4>2. /\ opened.answer.written <= opened.cap
            /\ opened.altered = "none" =>
                 \/ opened.cap < sealed.answer.written /\ opened.answer.ret = "ENOMEM"
                 \/ opened.answer.ret = "OK" /\ opened.answer.out = <<"text">>
            /\ opened.altered # "none" => opened.answer.ret # "OK"
        BY <2>1, <2>4, <3>1, <4>1, SpOpened
      <4>3. QED
        BY <2>1, <3>1, <3>3, <4>2
    <3>4. QED
      BY <3>2, <3>3
  <2>5. CASE r.suite = "rsa"
    <3>1. r.suite \notin Authenticated /\ r.suite # "sp"
      BY <2>5 DEF Gcm, Authenticated
    <3>2. opened.altered \in Alterations \ Divisions
      BY <2>8, <3>1
    <3>3. QED
      BY <2>1, <2>5, <3>1, <3>2, RsaOpened
  <2>6. CASE r.suite = "sp-hash"
    <3>1. /\ opened.altered \in {"none", "text", "out"} /\ r.suite # "rsa"
          /\ opened.altered \notin Divisions
      BY <2>1, <2>6 DEF Alterations
    <3>2. QED
      BY <2>1, <2>6, <3>1, DigestOpened
  <2>7. QED
    BY <2>1, <2>2, <2>3, <2>4, <2>5, <2>6 DEF Suites, Digests
<1>4. QED
  BY <1>1, <1>2, <1>3 DEF SealingSound, OutputFits, OpensAsSealed, AlterationNoticed

\* Sealing and opening stay in their buffers for every length and capacity, are
\* inverse, and notice what was altered (crypto_impl.c, sp_crypto.c, sp_hash.c).
THEOREM SealingIsSound == CryptoSpec => []SealingSound
  BY CryptoStarts, CryptoStep, CryptoPromises, PTL DEF CryptoSpec

-----------------------------------------------------------------------------
(* Consoles.                                                                 *)

\* A session of the driver.
Session == [name : Names, id : Nat, active : BOOLEAN, buf : Seq(Chars), written : Nat]

\* Lines as they stood in the text, each with its newline.
Ended(given) == [j \in DOMAIN given |-> Append(given[j], "\n")]

\* What is so of the list of sessions, the ids given, what was put in and what
\* was given out: ids count the sessions from the end of the list, what a session
\* has given out and still holds is what was put in, and an open name is the only
\* one.
Orderly(list, ids, put, given) ==
  /\ ids \in 0 .. MaxSessions
  /\ list \in Seq(Session) /\ Len(list) = ids
  /\ put \in Seq(Seq(Chars)) /\ Len(put) = ids
  /\ given \in Seq(Seq(Seq(Chars))) /\ Len(given) = ids
  /\ \A k \in 1 .. ids :
       /\ list[k].id = ids + 1 - k
       /\ FlattenSeq(Ended(given[ids + 1 - k])) \o list[k].buf = put[ids + 1 - k]
       /\ \A j \in DOMAIN given[ids + 1 - k] : NewLines(given[ids + 1 - k][j]) = {}
  /\ \A j, k \in 1 .. ids :
       list[j].active /\ list[k].active /\ list[j].name = list[k].name => j = k

\* The inductive invariant.
ConsoleInv == Orderly(g_sessions, sess_seq, inputs, taken)

\* A newline is a character.
LEMMA NewlineIsChar == "\n" \in Chars /\ "\\n" \in Chars
  BY DEF Chars

\* A line more that was given out stands behind the others.
LEMMA LineTaken ==
  ASSUME NEW given \in Seq(Seq(Chars)), NEW text \in Seq(Chars)
  PROVE  /\ FlattenSeq(Ended(given)) \in Seq(Chars)
         /\ FlattenSeq(Ended(<<>>)) = <<>>
         /\ FlattenSeq(Ended(Append(given, text)))
              = FlattenSeq(Ended(given)) \o Append(text, "\n")
<1>1. ASSUME NEW g \in Seq(Seq(Chars)) PROVE Ended(g) \in Seq(Seq(Chars)) /\ Len(Ended(g)) = Len(g)
  <2>1. \A j \in 1 .. Len(g) : Append(g[j], "\n") \in Seq(Chars)
    BY NewlineIsChar
  <2>2. PICK n \in Nat : n = Len(g)
    OBVIOUS
  <2>3. PICK e : e = Ended(g)
    OBVIOUS
  <2>4. e \in [1 .. n -> Seq(Chars)]
    BY <2>1, <2>2, <2>3 DEF Ended
  <2>5. e \in Seq(Seq(Chars)) /\ Len(e) = n
    BY <2>4
  <2>6. QED
    BY <2>2, <2>3, <2>5
<1>2. Ended(<<>>) = <<>>
  <2>1. <<>> \in Seq(Seq(Chars))
    OBVIOUS
  <2>2. Ended(<<>>) \in Seq(Seq(Chars)) /\ Len(Ended(<<>>)) = 0
    BY <1>1, <2>1
  <2>3. QED
    BY <2>2
<1>3. Ended(Append(given, text)) = Append(Ended(given), Append(text, "\n"))
  <2>1. PICK g : g = Append(given, text)
    OBVIOUS
  <2>2. g \in Seq(Seq(Chars)) /\ Len(g) = Len(given) + 1 /\ Len(given) \in Nat
    BY <2>1
  <2>3. PICK a : a = Ended(g)
    OBVIOUS
  <2>4. PICK b : b = Append(Ended(given), Append(text, "\n"))
    OBVIOUS
  <2>5. a \in Seq(Seq(Chars)) /\ Len(a) = Len(given) + 1
    BY <1>1, <2>2, <2>3
  <2>6. Append(text, "\n") \in Seq(Chars)
    BY NewlineIsChar
  <2>7. b \in Seq(Seq(Chars)) /\ Len(b) = Len(given) + 1
    BY <1>1, <2>4, <2>6
  <2>8. ASSUME NEW j \in 1 .. Len(given) + 1 PROVE a[j] = b[j]
    <3>1. a[j] = Append(g[j], "\n")
      BY <2>2, <2>3 DEF Ended
    <3>2. CASE j \in 1 .. Len(given)
      <4>1. g[j] = given[j] /\ Ended(given)[j] = Append(given[j], "\n")
        BY <2>1, <3>2 DEF Ended
      <4>2. b[j] = Ended(given)[j]
        BY <1>1, <2>4, <2>6, <3>2
      <4>3. QED
        BY <3>1, <4>1, <4>2
    <3>3. CASE j = Len(given) + 1
      <4>1. g[j] = text
        BY <2>1, <3>3
      <4>2. b[j] = Append(text, "\n")
        BY <1>1, <2>4, <2>6, <3>3
      <4>3. QED
        BY <3>1, <4>1, <4>2
    <3>4. QED
      BY <2>2, <3>2, <3>3
  <2>9. a = b
    BY <2>2, <2>5, <2>7, <2>8, SMTT(60)
  <2>10. QED
    BY <2>1, <2>3, <2>4, <2>9
<1>4. Append(text, "\n") \in Seq(Chars)
  BY NewlineIsChar
<1>5. FlattenSeq(<<>>) = <<>>
  <2>1. <<>> \in Seq(Seq(Chars))
    OBVIOUS
  <2>2. QED
    BY <2>1, Flattened
<1>6. /\ FlattenSeq(Ended(given)) \in Seq(Chars)
      /\ FlattenSeq(Append(Ended(given), Append(text, "\n"))) = FlattenSeq(Ended(given)) \o Append(text, "\n")
  BY <1>1, <1>4, Flattened
<1>7. QED
  BY <1>2, <1>3, <1>5, <1>6

\* A text is its first line, the newline and the rest.
LEMMA LineSplit ==
  ASSUME NEW buf \in Seq(Chars), NEW pos \in 1 .. Len(buf), buf[pos] = "\n"
  PROVE  /\ SubSeq(buf, 1, pos - 1) \in Seq(Chars) /\ SubSeq(buf, pos + 1, Len(buf)) \in Seq(Chars)
         /\ Append(SubSeq(buf, 1, pos - 1), "\n") \o SubSeq(buf, pos + 1, Len(buf)) = buf
<1>1. PICK a : a = SubSeq(buf, 1, pos - 1)
  OBVIOUS
<1>2. PICK b : b = SubSeq(buf, pos + 1, Len(buf))
  OBVIOUS
<1>3. /\ a \in Seq(Chars) /\ Len(a) = pos - 1 /\ \A k \in 1 .. pos - 1 : a[k] = buf[k]
      /\ pos \in Nat /\ Len(buf) \in Nat /\ pos <= Len(buf)
  BY <1>1
<1>4. /\ b \in Seq(Chars) /\ Len(b) = Len(buf) - pos
      /\ \A k \in 1 .. Len(buf) - pos : b[k] = buf[pos + k]
  BY <1>2
<1>5. PICK c : c = Append(a, "\n") \o b
  OBVIOUS
<1>6. /\ c \in Seq(Chars) /\ Len(c) = Len(buf)
      /\ \A k \in 1 .. pos - 1 : c[k] = a[k]
      /\ c[pos] = "\n"
      /\ \A k \in 1 .. Len(buf) - pos : c[pos + k] = b[k]
  <2>1. PICK e : e = Append(a, "\n")
    OBVIOUS
  <2>2. /\ e \in Seq(Chars) /\ Len(e) = pos /\ e[pos] = "\n"
        /\ \A k \in 1 .. pos - 1 : e[k] = a[k]
    BY <1>3, <2>1, NewlineIsChar
  <2>3. c = e \o b
    BY <1>5, <2>1
  <2>4. c \in Seq(Chars) /\ Len(c) = Len(e) + Len(b)
    <3>1. e \in Seq(Chars) /\ b \in Seq(Chars)
      BY <1>4, <2>2
    <3>2. e \o b \in Seq(Chars) /\ Len(e \o b) = Len(e) + Len(b)
      BY <3>1
    <3>3. QED
      BY <2>3, <3>2
  <2>5. Len(e) + Len(b) = Len(buf)
    BY <1>3, <1>4, <2>2
  <2>6. \A k \in 1 .. Len(e) : c[k] = e[k]
    BY <1>4, <2>2, <2>3
  <2>7. \A k \in 1 .. Len(b) : c[Len(e) + k] = b[k]
    BY <1>4, <2>2, <2>3
  <2>8. QED
    BY <1>3, <1>4, <2>2, <2>4, <2>5, <2>6, <2>7
<1>7. ASSUME NEW k \in 1 .. Len(buf) PROVE c[k] = buf[k]
  <2>1. CASE k < pos
    BY <1>3, <1>6, <2>1
  <2>2. CASE k = pos
    BY <1>6, <2>2
  <2>3. CASE k > pos
    <3>1. k - pos \in 1 .. Len(buf) - pos /\ pos + (k - pos) = k
      BY <1>3, <2>3
    <3>2. QED
      BY <1>4, <1>6, <3>1
  <2>4. QED
    BY <1>3, <2>1, <2>2, <2>3
<1>8. c = buf
  BY <1>6, <1>7
<1>9. QED
  BY <1>1, <1>2, <1>3, <1>4, <1>5, <1>8

\* Putting lists together, from the left or from the right.
LEMMA Joined3 ==
  ASSUME NEW a \in Seq(Chars), NEW b \in Seq(Chars), NEW c \in Seq(Chars)
  PROVE  a \o (b \o c) = (a \o b) \o c /\ a \o b \in Seq(Chars)
  OBVIOUS

\* No session has been opened.
LEMMA ConsoleStarts == ConsoleInit => ConsoleInv
  BY ConsoleAssumption DEF ConsoleInit, ConsoleInv, Orderly

\* An operation on one open session that leaves its name and its id.
LEMMA OneSession ==
  ASSUME ConsoleInv, NEW k \in Active, NEW new \in Session,
         new.name = g_sessions[k].name, new.id = g_sessions[k].id,
         new.active => g_sessions[k].active,
         NEW given \in Seq(Seq(Chars)), NEW text \in Seq(Chars),
         g_sessions' = [g_sessions EXCEPT ![k] = new], sess_seq' = sess_seq,
         taken' = [taken EXCEPT ![IdOf(k)] = given],
         inputs' = [inputs EXCEPT ![IdOf(k)] = text],
         FlattenSeq(Ended(given)) \o new.buf = text,
         \A j \in DOMAIN given : NewLines(given[j]) = {}
  PROVE  ConsoleInv'
<1>0. Orderly(g_sessions, sess_seq, inputs, taken)
  BY DEF ConsoleInv
<1>1. /\ DOMAIN g_sessions = 1 .. sess_seq /\ sess_seq \in Nat
      /\ DOMAIN taken = 1 .. sess_seq /\ DOMAIN inputs = 1 .. sess_seq
      /\ k \in 1 .. sess_seq /\ g_sessions[k].active
      /\ IdOf(k) = sess_seq + 1 - k
  <2>1. /\ DOMAIN g_sessions = 1 .. sess_seq /\ sess_seq \in Nat
        /\ DOMAIN taken = 1 .. sess_seq /\ DOMAIN inputs = 1 .. sess_seq
    BY <1>0, ConsoleAssumption DEF Orderly
  <2>2. k \in 1 .. sess_seq /\ g_sessions[k].active
    BY <2>1 DEF Active
  <2>3. g_sessions[k].id = sess_seq + 1 - k
    BY <1>0, <2>2 DEF Orderly
  <2>4. QED
    BY <2>1, <2>2, <2>3 DEF IdOf
<1>2. /\ g_sessions' \in Seq(Session) /\ Len(g_sessions') = sess_seq
      /\ g_sessions'[k] = new
      /\ \A m \in 1 .. sess_seq : m # k => g_sessions'[m] = g_sessions[m]
  BY <1>0, <1>1 DEF Orderly
<1>3. /\ taken' \in Seq(Seq(Seq(Chars))) /\ Len(taken') = sess_seq
      /\ inputs' \in Seq(Seq(Chars)) /\ Len(inputs') = sess_seq
      /\ taken'[sess_seq + 1 - k] = given /\ inputs'[sess_seq + 1 - k] = text
      /\ \A m \in 1 .. sess_seq :
           m # sess_seq + 1 - k => taken'[m] = taken[m] /\ inputs'[m] = inputs[m]
  BY <1>0, <1>1 DEF Orderly
<1>4. ASSUME NEW m \in 1 .. sess_seq
      PROVE  /\ g_sessions'[m].id = sess_seq + 1 - m
             /\ FlattenSeq(Ended(taken'[sess_seq + 1 - m])) \o g_sessions'[m].buf
                  = inputs'[sess_seq + 1 - m]
             /\ \A j \in DOMAIN taken'[sess_seq + 1 - m] :
                  NewLines(taken'[sess_seq + 1 - m][j]) = {}
  <2>1. CASE m = k
    <3>1. g_sessions'[m].id = sess_seq + 1 - m
      BY <1>1, <1>2, <2>1 DEF IdOf
    <3>2. /\ g_sessions'[m] = new /\ taken'[sess_seq + 1 - m] = given
          /\ inputs'[sess_seq + 1 - m] = text
      BY <1>2, <1>3, <2>1
    <3>3. FlattenSeq(Ended(taken'[sess_seq + 1 - m])) \o g_sessions'[m].buf
            = inputs'[sess_seq + 1 - m]
      BY <3>2, Zenon
    <3>4. \A j \in DOMAIN taken'[sess_seq + 1 - m] :
            NewLines(taken'[sess_seq + 1 - m][j]) = {}
      BY <3>2, Zenon
    <3>5. QED
      BY <3>1, <3>3, <3>4, Zenon
  <2>2. CASE m # k
    <3>1. sess_seq + 1 - m \in 1 .. sess_seq /\ sess_seq + 1 - m # sess_seq + 1 - k
      BY <1>1, <2>2
    <3>2. /\ taken'[sess_seq + 1 - m] = taken[sess_seq + 1 - m]
          /\ inputs'[sess_seq + 1 - m] = inputs[sess_seq + 1 - m]
          /\ g_sessions'[m] = g_sessions[m]
      BY <1>2, <1>3, <2>2, <3>1
    <3>3. /\ g_sessions[m].id = sess_seq + 1 - m
          /\ FlattenSeq(Ended(taken[sess_seq + 1 - m])) \o g_sessions[m].buf
               = inputs[sess_seq + 1 - m]
          /\ \A j \in DOMAIN taken[sess_seq + 1 - m] :
               NewLines(taken[sess_seq + 1 - m][j]) = {}
      BY <1>0 DEF Orderly
    <3>4. QED
      BY <3>2, <3>3
  <2>3. QED
    BY <2>1, <2>2
<1>5. ASSUME NEW j \in 1 .. sess_seq, NEW m \in 1 .. sess_seq,
             g_sessions'[j].active, g_sessions'[m].active,
             g_sessions'[j].name = g_sessions'[m].name
      PROVE  j = m
  <2>1. \A x \in 1 .. sess_seq : /\ g_sessions'[x].active => g_sessions[x].active
                                 /\ g_sessions'[x].name = g_sessions[x].name
    BY <1>1, <1>2
  <2>2. QED
    BY <1>0, <1>5, <2>1 DEF Orderly
<1>6. Orderly(g_sessions', sess_seq', inputs', taken')
  <2>1. PICK list, ids, put, held :
          list = g_sessions' /\ ids = sess_seq' /\ put = inputs' /\ held = taken'
    OBVIOUS
  <2>2. \A j, m \in 1 .. ids :
          list[j].active /\ list[m].active /\ list[j].name = list[m].name => j = m
    BY <1>1, <1>2, <1>5, <2>1
  <2>3. \A m \in 1 .. ids :
          /\ list[m].id = ids + 1 - m
          /\ FlattenSeq(Ended(held[ids + 1 - m])) \o list[m].buf = put[ids + 1 - m]
          /\ \A j \in DOMAIN held[ids + 1 - m] : NewLines(held[ids + 1 - m][j]) = {}
    BY <1>4, <2>1
  <2>4. /\ ids \in 0 .. MaxSessions /\ list \in Seq(Session) /\ Len(list) = ids
        /\ put \in Seq(Seq(Chars)) /\ Len(put) = ids
        /\ held \in Seq(Seq(Seq(Chars))) /\ Len(held) = ids
    BY <1>0, <1>2, <1>3, <2>1 DEF Orderly
  <2>5. Orderly(list, ids, put, held)
    BY <2>2, <2>3, <2>4 DEF Orderly
  <2>6. QED
    BY <2>1, <2>5
<1>7. QED
  BY <1>6 DEF ConsoleInv

\* A session is put before the others.
LEMMA SessionOpened ==
  ASSUME ConsoleInv, NEW name \in Names, console_open(name)
  PROVE  ConsoleInv'
<1>1. PICK n \in Nat : n = sess_seq
  BY ConsoleAssumption DEF ConsoleInv, Orderly
<1>2. PICK new : new = [name |-> name, id |-> n + 1, active |-> TRUE, buf |-> <<>>, written |-> 0]
  OBVIOUS
<1>3. new \in Session /\ new.id = n + 1 /\ new.buf = <<>> /\ new.name = name
  BY <1>1, <1>2 DEF Session
<1>4. /\ g_sessions \in Seq(Session) /\ Len(g_sessions) = n
      /\ inputs \in Seq(Seq(Chars)) /\ Len(inputs) = n
      /\ taken \in Seq(Seq(Seq(Chars))) /\ Len(taken) = n
      /\ n + 1 \in 0 .. MaxSessions
  BY <1>1, ConsoleAssumption DEF ConsoleInv, Orderly, console_open
<1>5. /\ sess_seq' = n + 1 /\ g_sessions' = <<new>> \o g_sessions
      /\ inputs' = Append(inputs, <<>>) /\ taken' = Append(taken, <<>>)
  BY <1>1, <1>2 DEF console_open
<1>6. /\ g_sessions' \in Seq(Session) /\ Len(g_sessions') = n + 1
      /\ g_sessions'[1] = new
      /\ \A k \in 1 .. n : g_sessions'[k + 1] = g_sessions[k]
  <2>1. <<new>> \in Seq(Session) /\ Len(<<new>>) = 1 /\ <<new>>[1] = new
    BY <1>3
  <2>2. QED
    BY <1>4, <1>5, <2>1
<1>7. /\ inputs' \in Seq(Seq(Chars)) /\ Len(inputs') = n + 1 /\ inputs'[n + 1] = <<>>
      /\ \A k \in 1 .. n : inputs'[k] = inputs[k]
  BY <1>4, <1>5
<1>8. /\ taken' \in Seq(Seq(Seq(Chars))) /\ Len(taken') = n + 1 /\ taken'[n + 1] = <<>>
      /\ \A k \in 1 .. n : taken'[k] = taken[k]
  BY <1>4, <1>5
<1>9. ASSUME NEW k \in 1 .. n + 1
      PROVE  /\ g_sessions'[k].id = (n + 1) + 1 - k
             /\ FlattenSeq(Ended(taken'[(n + 1) + 1 - k])) \o g_sessions'[k].buf
                  = inputs'[(n + 1) + 1 - k]
             /\ \A j \in DOMAIN taken'[(n + 1) + 1 - k] :
                  NewLines(taken'[(n + 1) + 1 - k][j]) = {}
  <2>1. CASE k = 1
    <3>1. (n + 1) + 1 - k = n + 1
      BY <2>1
    <3>2. <<>> \in Seq(Seq(Chars)) /\ <<>> \in Seq(Chars)
      OBVIOUS
    <3>3. FlattenSeq(Ended(<<>>)) = <<>>
      BY <3>2, LineTaken
    <3>4. FlattenSeq(Ended(<<>>)) \o <<>> = <<>>
      BY <3>3
    <3>5. DOMAIN taken'[(n + 1) + 1 - k] = {}
      BY <1>8, <3>1
    <3>6. g_sessions'[k] = new
      BY <1>6, <2>1
    <3>7. QED
      BY <1>3, <1>7, <1>8, <3>1, <3>4, <3>5, <3>6
  <2>2. CASE k # 1
    <3>1. PICK m \in 1 .. n : k = m + 1
      <4>1. k - 1 \in 1 .. n /\ k = (k - 1) + 1
        BY <2>2
      <4>2. QED
        BY <4>1
    <3>2. (n + 1) + 1 - k = n + 1 - m /\ n + 1 - m \in 1 .. n
      BY <3>1
    <3>3. /\ g_sessions'[k] = g_sessions[m]
          /\ taken'[n + 1 - m] = taken[n + 1 - m] /\ inputs'[n + 1 - m] = inputs[n + 1 - m]
      BY <1>6, <1>7, <1>8, <3>1, <3>2
    <3>4. /\ g_sessions[m].id = n + 1 - m
          /\ FlattenSeq(Ended(taken[n + 1 - m])) \o g_sessions[m].buf = inputs[n + 1 - m]
          /\ \A j \in DOMAIN taken[n + 1 - m] : NewLines(taken[n + 1 - m][j]) = {}
      BY <1>1 DEF ConsoleInv, Orderly
    <3>5. QED
      BY <3>2, <3>3, <3>4
  <2>3. QED
    BY <2>1, <2>2
<1>10. ASSUME NEW j \in 1 .. n + 1, NEW k \in 1 .. n + 1,
              g_sessions'[j].active, g_sessions'[k].active,
              g_sessions'[j].name = g_sessions'[k].name
       PROVE  j = k
  <2>1. \A x \in 1 .. n : g_sessions[x].active => g_sessions[x].name # name
    <3>1. \A x \in 1 .. n : g_sessions[x].active => x \in Active
      BY <1>4 DEF Active
    <3>2. QED
      BY <3>1 DEF console_open
  <2>2. \A x \in 1 .. n + 1 : x # 1 =>
          /\ x - 1 \in 1 .. n /\ g_sessions'[x] = g_sessions[x - 1]
    <3>1. ASSUME NEW x \in 1 .. n + 1, x # 1 PROVE x - 1 \in 1 .. n /\ x = (x - 1) + 1
      BY <3>1
    <3>2. QED
      BY <1>6, <3>1
  <2>3. \A x, y \in 1 .. n : g_sessions[x].active /\ g_sessions[y].active
           /\ g_sessions[x].name = g_sessions[y].name => x = y
    BY <1>1 DEF ConsoleInv, Orderly
  <2>4. g_sessions'[1].name = name
    BY <1>3, <1>6
  <2>5. CASE j = 1 /\ k # 1
    BY <1>10, <2>1, <2>2, <2>4, <2>5
  <2>6. CASE j # 1 /\ k = 1
    BY <1>10, <2>1, <2>2, <2>4, <2>6
  <2>7. CASE j # 1 /\ k # 1
    <3>1. j - 1 = k - 1
      BY <1>10, <2>2, <2>3, <2>7
    <3>2. QED
      BY <3>1
  <2>8. QED
    BY <2>5, <2>6, <2>7
<1>11. Orderly(g_sessions', n + 1, inputs', taken')
  BY <1>4, <1>6, <1>7, <1>8, <1>9, <1>10 DEF Orderly
<1>12. QED
  BY <1>5, <1>11 DEF ConsoleInv

\* What is so of an open session.
LEMMA OpenSession ==
  ASSUME ConsoleInv, NEW k \in Active
  PROVE  /\ g_sessions[k] \in Session /\ k \in DOMAIN g_sessions
         /\ IdOf(k) \in DOMAIN taken /\ IdOf(k) \in DOMAIN inputs
         /\ taken[IdOf(k)] \in Seq(Seq(Chars)) /\ inputs[IdOf(k)] \in Seq(Chars)
         /\ FlattenSeq(Ended(taken[IdOf(k)])) \o g_sessions[k].buf = inputs[IdOf(k)]
         /\ \A j \in DOMAIN taken[IdOf(k)] : NewLines(taken[IdOf(k)][j]) = {}
<1>1. PICK n \in Nat : n = sess_seq
  BY ConsoleAssumption DEF ConsoleInv, Orderly
<1>2. /\ g_sessions \in Seq(Session) /\ Len(g_sessions) = n
      /\ inputs \in Seq(Seq(Chars)) /\ Len(inputs) = n
      /\ taken \in Seq(Seq(Seq(Chars))) /\ Len(taken) = n
  BY <1>1 DEF ConsoleInv, Orderly
<1>3. k \in 1 .. n
  BY <1>2 DEF Active
<1>4. IdOf(k) = n + 1 - k /\ IdOf(k) \in 1 .. n
  <2>1. g_sessions[k].id = n + 1 - k
    BY <1>1, <1>3 DEF ConsoleInv, Orderly
  <2>2. QED
    BY <1>3, <2>1 DEF IdOf
<1>5. /\ FlattenSeq(Ended(taken[n + 1 - k])) \o g_sessions[k].buf = inputs[n + 1 - k]
      /\ \A j \in DOMAIN taken[n + 1 - k] : NewLines(taken[n + 1 - k][j]) = {}
  BY <1>1, <1>3 DEF ConsoleInv, Orderly
<1>6. QED
  BY <1>2, <1>3, <1>4, <1>5

\* What an operation that empties the buffer leaves.
LEMMA BufferEmptied ==
  ASSUME ConsoleInv, NEW k \in Active, NEW new \in Session,
         new.name = g_sessions[k].name, new.id = g_sessions[k].id,
         new.active = g_sessions[k].active,
         g_sessions' = [g_sessions EXCEPT ![k] = new], Emptied(k, new.buf)
  PROVE  ConsoleInv'
<1>1. <<>> \in Seq(Seq(Chars)) /\ <<>> \in Seq(Chars) /\ DOMAIN <<>> = {}
  OBVIOUS
<1>2. new.buf \in Seq(Chars)
  BY DEF Session
<1>3. FlattenSeq(Ended(<<>>)) \o new.buf = new.buf
  <2>1. FlattenSeq(Ended(<<>>)) = <<>>
    BY <1>1, LineTaken
  <2>2. QED
    BY <1>2, <2>1
<1>4. /\ sess_seq' = sess_seq /\ taken' = [taken EXCEPT ![IdOf(k)] = <<>>]
      /\ inputs' = [inputs EXCEPT ![IdOf(k)] = new.buf]
  BY DEF Emptied
<1>5. QED
  BY <1>1, <1>2, <1>3, <1>4, OneSession

\* Nothing is put in, and nothing given out.
LEMMA Unread ==
  ASSUME ConsoleInv, NEW k \in Active, NEW new \in Session,
         new.name = g_sessions[k].name, new.id = g_sessions[k].id,
         new.active => g_sessions[k].active, new.buf = g_sessions[k].buf,
         g_sessions' = [g_sessions EXCEPT ![k] = new],
         UNCHANGED <<sess_seq, inputs, taken>>
  PROVE  ConsoleInv'
<1>1. PICK id : id = IdOf(k)
  OBVIOUS
<1>2. /\ id \in DOMAIN taken /\ id \in DOMAIN inputs
      /\ taken[id] \in Seq(Seq(Chars)) /\ inputs[id] \in Seq(Chars)
      /\ FlattenSeq(Ended(taken[id])) \o new.buf = inputs[id]
      /\ \A j \in DOMAIN taken[id] : NewLines(taken[id][j]) = {}
  BY <1>1, OpenSession
<1>3. taken \in Seq(Seq(Seq(Chars))) /\ inputs \in Seq(Seq(Chars))
  BY DEF ConsoleInv, Orderly
<1>4. /\ taken' = [taken EXCEPT ![IdOf(k)] = taken[id]]
      /\ inputs' = [inputs EXCEPT ![IdOf(k)] = inputs[id]]
  BY <1>1, <1>2, <1>3
<1>5. sess_seq' = sess_seq
  OBVIOUS
<1>6. QED
  BY <1>2, <1>4, <1>5, OneSession

\* A text is put in.
LEMMA TextPutIn ==
  ASSUME ConsoleInv, NEW k \in Active, NEW text \in Written, console_write(k, text)
  PROVE  ConsoleInv'
<1>1. PICK old : old = g_sessions[k]
  OBVIOUS
<1>2. PICK given : given = taken[IdOf(k)]
  OBVIOUS
<1>3. /\ old \in Session /\ k \in DOMAIN g_sessions /\ IdOf(k) \in DOMAIN inputs
      /\ IdOf(k) \in DOMAIN taken
      /\ given \in Seq(Seq(Chars)) /\ inputs[IdOf(k)] \in Seq(Chars)
      /\ FlattenSeq(Ended(given)) \o old.buf = inputs[IdOf(k)]
      /\ \A j \in DOMAIN given : NewLines(given[j]) = {}
  BY <1>1, <1>2, OpenSession
<1>4. text \in Seq(Chars) /\ old.buf \in Seq(Chars) /\ old.written \in Nat
  BY <1>3, ConsoleAssumption DEF Session
<1>5. PICK new : new = [old EXCEPT !.buf = old.buf \o text, !.written = old.written + Len(text)]
  OBVIOUS
<1>6. /\ new \in Session /\ new.name = old.name /\ new.id = old.id /\ new.active = old.active
      /\ new.buf = old.buf \o text
  <2>1. old.buf \o text \in Seq(Chars) /\ old.written + Len(text) \in Nat
    BY <1>4
  <2>2. QED
    BY <1>3, <1>5, <2>1 DEF Session
<1>7. g_sessions \in Seq(Session) /\ taken \in Seq(Seq(Seq(Chars)))
  BY DEF ConsoleInv, Orderly
<1>8. g_sessions' = [g_sessions EXCEPT ![k] = new]
  BY <1>1, <1>3, <1>5, <1>7 DEF console_write
<1>9. PICK put : put = inputs[IdOf(k)] \o text
  OBVIOUS
<1>10. /\ put \in Seq(Chars) /\ inputs' = [inputs EXCEPT ![IdOf(k)] = put]
       /\ sess_seq' = sess_seq /\ taken' = taken
  BY <1>3, <1>4, <1>9 DEF console_write
<1>11. taken' = [taken EXCEPT ![IdOf(k)] = given]
  BY <1>2, <1>3, <1>7, <1>10
<1>12. FlattenSeq(Ended(given)) \o new.buf = put
  <2>1. FlattenSeq(Ended(given)) \in Seq(Chars)
    BY <1>3, <1>4, LineTaken
  <2>2. FlattenSeq(Ended(given)) \o (old.buf \o text) = (FlattenSeq(Ended(given)) \o old.buf) \o text
    BY <1>4, <2>1, Joined3, ZenonT(60)
  <2>3. QED
    BY <1>3, <1>6, <1>9, <2>2
<1>13. QED
  BY <1>1, <1>3, <1>6, <1>8, <1>10, <1>11, <1>12, OneSession

\* The first line is given out and leaves the buffer.
LEMMA LineRead ==
  ASSUME ConsoleInv, NEW k \in Active, NEW cap, console_read_line(k, cap)
  PROVE  ConsoleInv'
<1>1. PICK old : old = g_sessions[k]
  OBVIOUS
<1>2. PICK given : given = taken[IdOf(k)]
  OBVIOUS
<1>3. /\ old \in Session /\ k \in DOMAIN g_sessions /\ IdOf(k) \in DOMAIN inputs
      /\ IdOf(k) \in DOMAIN taken
      /\ given \in Seq(Seq(Chars)) /\ inputs[IdOf(k)] \in Seq(Chars)
      /\ FlattenSeq(Ended(given)) \o old.buf = inputs[IdOf(k)]
      /\ \A j \in DOMAIN given : NewLines(given[j]) = {}
  BY <1>1, <1>2, OpenSession
<1>4. PICK buf \in Seq(Chars) : buf = old.buf
  BY <1>3 DEF Session
<1>5. PICK pos : pos = CHOOSE p \in NewLines(buf) : \A q \in NewLines(buf) : p <= q
  OBVIOUS
<1>6. NewLines(buf) \subseteq Nat /\ NewLines(buf) # {}
  <2>1. NewLines(g_sessions[k].buf) # {}
    BY DEF console_read_line
  <2>2. NewLines(buf) \subseteq Nat
    BY <1>4 DEF NewLines
  <2>3. QED
    BY <1>1, <1>4, <2>1, <2>2
<1>7. pos \in NewLines(buf) /\ \A q \in NewLines(buf) : pos <= q
  <2>1. \E p \in NewLines(buf) : \A q \in NewLines(buf) : p <= q
    BY <1>6, LeastNumber
  <2>2. QED
    BY <1>5, <2>1
<1>8. pos \in 1 .. Len(buf) /\ buf[pos] = "\n"
  BY <1>4, <1>7 DEF NewLines
<1>9. PICK line : line = SubSeq(buf, 1, pos - 1)
  OBVIOUS
<1>10. PICK left : left = SubSeq(buf, pos + 1, Len(buf))
  OBVIOUS
<1>11. line \in Seq(Chars) /\ left \in Seq(Chars) /\ Append(line, "\n") \o left = buf
  BY <1>4, <1>8, <1>9, <1>10, LineSplit
<1>12. NewLines(line) = {}
  <2>1. SUFFICES ASSUME NEW q \in NewLines(line) PROVE FALSE
    OBVIOUS
  <2>2. q \in 1 .. pos - 1 /\ line[q] = "\n" /\ line[q] = buf[q]
    BY <1>4, <1>8, <1>9, <2>1 DEF NewLines
  <2>3. q \in NewLines(buf)
    BY <1>4, <1>8, <2>2 DEF NewLines
  <2>4. QED
    BY <1>7, <1>8, <2>2, <2>3
<1>13. PICK new : new = [old EXCEPT !.buf = left]
  OBVIOUS
<1>14. /\ new \in Session /\ new.name = old.name /\ new.id = old.id /\ new.active = old.active
       /\ new.buf = left
  BY <1>3, <1>11, <1>13 DEF Session
<1>15. g_sessions \in Seq(Session) /\ inputs \in Seq(Seq(Chars))
  BY DEF ConsoleInv, Orderly
<1>16. g_sessions' = [g_sessions EXCEPT ![k] = new]
  BY <1>1, <1>3, <1>4, <1>5, <1>10, <1>13, <1>15 DEF console_read_line
<1>17. PICK more : more = Append(given, line)
  OBVIOUS
<1>18. /\ taken' = [taken EXCEPT ![IdOf(k)] = more]
       /\ sess_seq' = sess_seq /\ inputs' = inputs
  BY <1>1, <1>2, <1>3, <1>4, <1>5, <1>9, <1>17 DEF console_read_line
<1>19. inputs' = [inputs EXCEPT ![IdOf(k)] = inputs[IdOf(k)]]
  BY <1>3, <1>15, <1>18
<1>20. more \in Seq(Seq(Chars)) /\ \A j \in DOMAIN more : NewLines(more[j]) = {}
  BY <1>3, <1>11, <1>12, <1>17, SMTT(60)
<1>21. FlattenSeq(Ended(more)) \o left = inputs[IdOf(k)]
  <2>1. /\ FlattenSeq(Ended(given)) \in Seq(Chars)
        /\ FlattenSeq(Ended(more)) = FlattenSeq(Ended(given)) \o Append(line, "\n")
    BY <1>3, <1>11, <1>17, LineTaken
  <2>2. Append(line, "\n") \in Seq(Chars)
    BY <1>11, NewlineIsChar
  <2>3. PICK first \in Seq(Chars) : first = FlattenSeq(Ended(given))
    BY <2>1
  <2>4. PICK next \in Seq(Chars) : next = Append(line, "\n")
    BY <2>2
  <2>5. left \in Seq(Chars)
    BY <1>11
  <2>6. first \o (next \o left) = (first \o next) \o left
    BY <2>5, Joined3, SMTT(60)
  <2>7. FlattenSeq(Ended(more)) \o left = first \o (next \o left)
    BY <2>1, <2>3, <2>4, <2>6
  <2>8. QED
    BY <1>3, <1>4, <1>11, <2>3, <2>4, <2>7
<1>22. QED
  BY <1>1, <1>3, <1>14, <1>16, <1>18, <1>19, <1>20, <1>21, OneSession

\* An escaped text has characters only.
LEMMA EscapedIsText ==
  ASSUME NEW text \in Seq(Chars)
  PROVE  Escaped(text) \in Seq(Chars)
<1>1. PICK n \in Nat : n = Len(text)
  OBVIOUS
<1>2. PICK e : e = Escaped(text)
  OBVIOUS
<1>3. e \in [1 .. n -> Chars]
  BY <1>1, <1>2, NewlineIsChar DEF Escaped
<1>4. e \in Seq(Chars)
  BY <1>1, <1>3
<1>5. QED
  BY <1>2, <1>4

\* banner: whatever stands in the buffer afterwards was put in.
LEMMA BannerPut ==
  ASSUME ConsoleInv, NEW k \in Active, NEW text \in Written, console_banner(k, text)
  PROVE  ConsoleInv'
<1>1. Escaped(text) \in Seq(Chars) /\ <<"\n">> \in Seq(Chars) /\ <<>> \in Seq(Chars)
  BY ConsoleAssumption, EscapedIsText, NewlineIsChar
<1>2. Escaped(text) \o <<"\n">> \in Seq(Chars)
  BY <1>1
<1>3. PICK buf \in {Escaped(text) \o <<"\n">>} \cup IF Faults THEN {<<>>, Escaped(text)} ELSE {} :
        /\ g_sessions' = [g_sessions EXCEPT ![k].buf = buf,
                            ![k].written = IF buf = <<>> THEN 0 ELSE Len(buf)]
        /\ Emptied(k, buf)
  BY DEF console_banner
<1>4. buf \in Seq(Chars)
  BY <1>1, <1>2, <1>3
<1>5. PICK count : count = IF buf = <<>> THEN 0 ELSE Len(buf)
  OBVIOUS
<1>6. count \in Nat
  BY <1>4, <1>5
<1>7. PICK new : new = [g_sessions[k] EXCEPT !.buf = buf, !.written = count]
  OBVIOUS
<1>8. g_sessions[k] \in Session /\ k \in DOMAIN g_sessions
  BY OpenSession
<1>9. /\ new \in Session /\ new.name = g_sessions[k].name /\ new.id = g_sessions[k].id
      /\ new.active = g_sessions[k].active /\ new.buf = buf
  BY <1>4, <1>6, <1>7, <1>8 DEF Session
<1>10. g_sessions \in Seq(Session)
  BY DEF ConsoleInv, Orderly
<1>11. g_sessions' = [g_sessions EXCEPT ![k] = new]
  BY <1>3, <1>5, <1>7, <1>8, <1>10
<1>12. QED
  BY <1>3, <1>9, <1>11, BufferEmptied

\* Every step of the driver keeps the invariant.
LEMMA ConsoleStep == ConsoleInv /\ [ConsoleNext]_consoleVars => ConsoleInv'
<1> SUFFICES ASSUME ConsoleInv, [ConsoleNext]_consoleVars PROVE ConsoleInv'
  OBVIOUS
<1>0. g_sessions \in Seq(Session)
  BY DEF ConsoleInv, Orderly
<1>1. ASSUME NEW name \in Names, console_open(name) PROVE ConsoleInv'
  BY <1>1, SessionOpened
<1>2. ASSUME NEW k \in Active, console_close(k) PROVE ConsoleInv'
  <2>1. g_sessions[k] \in Session /\ k \in DOMAIN g_sessions /\ g_sessions[k].active
    BY OpenSession DEF Active
  <2>2. PICK new : new = [g_sessions[k] EXCEPT !.active = FALSE]
    OBVIOUS
  <2>3. /\ new \in Session /\ new.name = g_sessions[k].name /\ new.id = g_sessions[k].id
        /\ new.buf = g_sessions[k].buf
    BY <2>1, <2>2 DEF Session
  <2>4. g_sessions' = [g_sessions EXCEPT ![k] = new]
    BY <1>0, <1>2, <2>1, <2>2 DEF console_close
  <2>5. UNCHANGED <<sess_seq, inputs, taken>>
    BY <1>2 DEF console_close
  <2>6. QED
    BY <2>1, <2>3, <2>4, <2>5, Unread
<1>3. ASSUME NEW k \in Active, console_clear(k) PROVE ConsoleInv'
  <2>1. g_sessions[k] \in Session /\ k \in DOMAIN g_sessions
    BY OpenSession
  <2>2. PICK new : new = [g_sessions[k] EXCEPT !.buf = <<>>]
    OBVIOUS
  <2>3. /\ new \in Session /\ new.name = g_sessions[k].name /\ new.id = g_sessions[k].id
        /\ new.active = g_sessions[k].active /\ new.buf = <<>>
    <3>1. <<>> \in Seq(Chars)
      OBVIOUS
    <3>2. QED
      BY <2>1, <2>2, <3>1 DEF Session
  <2>4. g_sessions' = [g_sessions EXCEPT ![k] = new]
    BY <1>0, <1>3, <2>1, <2>2 DEF console_clear
  <2>5. Emptied(k, new.buf)
    BY <1>3, <2>3 DEF console_clear
  <2>6. QED
    BY <2>3, <2>4, <2>5, BufferEmptied
<1>4. ASSUME NEW k \in Active, NEW text \in Written, console_write(k, text) PROVE ConsoleInv'
  BY <1>4, TextPutIn
<1>5. ASSUME NEW k \in Active, NEW text \in Written, console_banner(k, text) PROVE ConsoleInv'
  BY <1>5, BannerPut
<1>6. ASSUME NEW k \in Active, NEW cap \in {1, 2, 3}, console_read_line(k, cap) PROVE ConsoleInv'
  BY <1>6, LineRead
<1>7. ASSUME hw_console_cleanup PROVE ConsoleInv'
  BY <1>7, ConsoleAssumption DEF hw_console_cleanup, ConsoleInv, Orderly
<1>8. ASSUME UNCHANGED consoleVars PROVE ConsoleInv'
  BY <1>8 DEF consoleVars, ConsoleInv
<1>9. QED
  BY <1>1, <1>2, <1>3, <1>4, <1>5, <1>6, <1>7, <1>8 DEF ConsoleNext

\* What the property says, from the invariant.
LEMMA ConsoleMeans == ConsoleInv => LinesInOrder
<1> SUFFICES ASSUME ConsoleInv PROVE LinesInOrder
  OBVIOUS
<1>1. PICK n \in Nat : n = sess_seq
  BY ConsoleAssumption DEF ConsoleInv, Orderly
<1>2. /\ DOMAIN g_sessions = 1 .. n
      /\ \A k \in 1 .. n : g_sessions[k] \in Session /\ g_sessions[k].id = n + 1 - k
  <2>1. g_sessions \in Seq(Session) /\ Len(g_sessions) = n
    BY <1>1 DEF ConsoleInv, Orderly
  <2>2. \A k \in 1 .. n : g_sessions[k].id = n + 1 - k
    BY <1>1 DEF ConsoleInv, Orderly
  <2>3. QED
    BY <2>1, <2>2
<1>3. ConsoleTypeOK
  <2>1. n \in 0 .. MaxSessions
    BY <1>1 DEF ConsoleInv, Orderly
  <2>2. \A k \in 1 .. n : g_sessions[k].id \in 1 .. n /\ g_sessions[k].active \in BOOLEAN
    BY <1>2 DEF Session
  <2>3. QED
    BY <1>1, <1>2, <2>1, <2>2 DEF ConsoleTypeOK
<1>4. ASSUME NEW k \in DOMAIN g_sessions
      PROVE  /\ FlattenSeq([j \in DOMAIN taken[IdOf(k)] |-> Append(taken[IdOf(k)][j], "\n")])
                  \o g_sessions[k].buf = inputs[IdOf(k)]
             /\ \A j \in DOMAIN taken[IdOf(k)] : NewLines(taken[IdOf(k)][j]) = {}
  <2>1. IdOf(k) = n + 1 - k
    BY <1>2 DEF IdOf
  <2>2. /\ FlattenSeq(Ended(taken[n + 1 - k])) \o g_sessions[k].buf = inputs[n + 1 - k]
        /\ \A j \in DOMAIN taken[n + 1 - k] : NewLines(taken[n + 1 - k][j]) = {}
    BY <1>1, <1>2 DEF ConsoleInv, Orderly
  <2>3. QED
    BY <2>1, <2>2 DEF Ended
<1>5. \A j, k \in Active : g_sessions[j].name = g_sessions[k].name => j = k
  BY <1>1, <1>2 DEF ConsoleInv, Orderly, Active
<1>6. QED
  BY <1>3, <1>4, <1>5 DEF LinesInOrder

\* The lines read from a session, with what it still holds, are what was put in.
THEOREM LinesKeepOrder == ConsoleSpec => []LinesInOrder
<1>1. ConsoleInit => ConsoleInv
  BY ConsoleStarts
<1>2. ConsoleInv /\ [ConsoleNext]_consoleVars => ConsoleInv'
  BY ConsoleStep
<1>3. ConsoleInv => LinesInOrder
  BY ConsoleMeans
<1>4. QED
  BY <1>1, <1>2, <1>3, PTL DEF ConsoleSpec

-----------------------------------------------------------------------------
(* The audit log: its files, its numbers and what a query finds.             *)

\* Circumstances in which the log keeps its promises: no restart and no change of
\* configuration with a full disk; with a single file, which is truncated, a call
\* is not cut off; and while the configuration changes no call is either.
SafeWorld(w) ==
  /\ w.full => ~ w.crash /\ ~ w.reconf
  /\ w.crash \/ w.reconf \/ (w.io /\ ~ w.full) => 1 \notin w.files
  /\ w.reconf => ~ w.crash /\ ~ w.io

SeqNos == 1 .. SeqMax + 1
\* A line with this number is in the list, in one of the first n segments.
Has(list, s) == \E a \in DOMAIN list : list[a].seq = s
Holds(f, n, s) == \E k \in Idx : k < n /\ Has(f[k], s)

\* The numbers of a list rise, and what is in an older segment has smaller ones.
Rising(list) == \A a, b \in DOMAIN list : a < b => list[a].seq < list[b].seq
Ordered(f) ==
  /\ \A k \in Idx : Rising(f[k])
  /\ \A k, m \in Idx : k < m =>
       \A s, t \in SeqNos : Has(f[m], s) /\ Has(f[k], t) => s < t

\* A number that was given, and is not older than one that is there, is there.
NoGap(f, n, given) ==
  \A b \in DOMAIN given : \A s \in SeqNos :
    Holds(f, n, s) /\ s <= given[b] => Holds(f, n, given[b])
\* The last number that was given, or a later one, is there.
Newest(f, given) ==
  given # <<>> => \E s \in SeqNos : Holds(f, SegMax, s) /\ s >= given[Len(given)]

\* Numbers stay below the bound and are given in order.
InTurn ==
  \A u \in Dirs :
    /\ \A s \in SeqNos : Holds(segs[u], SegMax, s) => s <= SeqMax
    /\ \A a, b \in DOMAIN acked[u] : a < b => acked[u][a] < acked[u][b]

\* The next number is above those in the directory, and above those given; it is
\* forgotten by a restart and a change of directory only.
Ahead ==
  /\ pc # "idle" => next_seq # 0
  /\ pc \in {"rotate", "clean", "write"} => next_seq <= SeqMax
  /\ pc = "return" =>
       /\ next_seq - 1 \in 1 .. SeqMax
       /\ \A b \in DOMAIN acked[dir] : acked[dir][b] < next_seq - 1
  /\ next_seq # 0 =>
       /\ \A s \in SeqNos : Holds(Log, SegMax, s) => s < next_seq
       /\ \A b \in DOMAIN acked[dir] : acked[dir][b] < next_seq
  /\ next_seq = 0 /\ ~ world.crash /\ ~ world.reconf =>
       acked[dir] = <<>> /\ \A k \in Idx : Log[k] = <<>>

\* Where the rotation of the current directory is.
Turning ==
  /\ pc = "rotate" =>
       /\ Log[0] # <<>>
       /\ max_files = 1 => i = 0
       /\ max_files > 1 => i \in 1 .. max_files - 1 /\ (i < max_files - 1 => Log[i] = <<>>)
  /\ pc = "clean" => max_files > 1 /\ Log[0] = <<>> /\ Log[1] # <<>>
  /\ pc = "write" => Len(Log[0]) < MaxBytes

\* While the disk is not full, lines are whole ...
Unbroken ==
  ~ world.full =>
    /\ \A u \in Dirs : \A k \in Idx : \A a \in DOMAIN segs[u][k] : segs[u][k][a].kind = "good"
    /\ pc = "return" => Holds(Log, 1, next_seq - 1)
\* ... none is missing between others (while a rotation goes on, in the files that
\* stay) ...
Gapless ==
  ~ world.full => \A u \in Dirs :
    NoGap(segs[u], IF u = dir /\ pc \in {"rotate", "clean"} THEN max_files ELSE SegMax, acked[u])
\* ... and the newest is kept, until a single file is truncated.
Latest ==
  ~ world.full => \A u \in Dirs :
    ~ (u = dir /\ pc = "write" /\ max_files = 1) => Newest(segs[u], acked[u])

\* After a restart or a change of directory the newest line is found in the first
\* two files.
TopFilled ==
  world.crash \/ world.reconf => \A u \in Dirs :
    (\E k \in Idx : segs[u][k] # <<>>) => segs[u][0] # <<>> \/ segs[u][1] # <<>>
\* Behind the last file there is none while the configuration stays.
Trimmed == ~ world.reconf => \A u \in Dirs : \A k \in Idx : k >= max_files => segs[u][k] = <<>>

AuditInv ==
  /\ AuditTypeOK /\ SafeWorld(world)
  /\ \A u \in Dirs : Ordered(segs[u])
  /\ InTurn /\ Ahead /\ Turning /\ Unbroken /\ Gapless /\ Latest /\ TopFilled /\ Trimmed

\* Lists one after the other.
LEMMA Concatenated ==
  ASSUME NEW X, NEW s \in Seq(X), NEW t \in Seq(X)
  PROVE  /\ s \o t \in Seq(X) /\ Len(s \o t) = Len(s) + Len(t)
         /\ \A a \in DOMAIN s : (s \o t)[a] = s[a]
         /\ \A a \in DOMAIN t : (s \o t)[Len(s) + a] = t[a]
         /\ \A a \in DOMAIN (s \o t) : a \in DOMAIN s \/ (a - Len(s) \in DOMAIN t /\ a > Len(s))
         /\ ToSet(s \o t) = ToSet(s) \cup ToSet(t)
<1>1. PICK n \in Nat : n = Len(s)
  OBVIOUS
<1>2. PICK m \in Nat : m = Len(t)
  OBVIOUS
<1>3. PICK u : u = s \o t
  OBVIOUS
<1>4. /\ u \in Seq(X) /\ Len(u) = n + m
      /\ \A a \in 1 .. n : u[a] = s[a]
      /\ \A a \in 1 .. m : u[n + a] = t[a]
  BY <1>1, <1>2, <1>3
<1>5. DOMAIN s = 1 .. n /\ DOMAIN t = 1 .. m /\ DOMAIN u = 1 .. n + m
  BY <1>1, <1>2, <1>4
<1>6. \A a \in 1 .. n + m : a \in 1 .. n \/ (a - n \in 1 .. m /\ a > n)
  OBVIOUS
<1>7. ToSet(u) = ToSet(s) \cup ToSet(t)
  <2>1. ASSUME NEW x \in ToSet(u) PROVE x \in ToSet(s) \cup ToSet(t)
    <3>1. PICK a \in 1 .. n + m : x = u[a]
      BY <1>5 DEF ToSet
    <3>2. CASE a \in 1 .. n
      BY <1>4, <1>5, <3>1, <3>2 DEF ToSet
    <3>3. CASE a - n \in 1 .. m
      <4>1. n + (a - n) = a
        OBVIOUS
      <4>2. x = t[a - n]
        BY <1>4, <3>1, <3>3, <4>1
      <4>3. QED
        BY <1>5, <3>3, <4>2 DEF ToSet
    <3>4. QED
      BY <1>6, <3>2, <3>3
  <2>2. ASSUME NEW x \in ToSet(s) PROVE x \in ToSet(u)
    <3>1. PICK a \in 1 .. n : x = s[a]
      BY <1>5 DEF ToSet
    <3>2. a \in 1 .. n + m /\ x = u[a]
      BY <1>4, <3>1
    <3>3. QED
      BY <1>5, <3>2 DEF ToSet
  <2>3. ASSUME NEW x \in ToSet(t) PROVE x \in ToSet(u)
    <3>1. PICK a \in 1 .. m : x = t[a]
      BY <1>5 DEF ToSet
    <3>2. n + a \in 1 .. n + m /\ x = u[n + a]
      BY <1>4, <3>1
    <3>3. QED
      BY <1>5, <3>2 DEF ToSet
  <2>4. QED
    BY <2>1, <2>2, <2>3
<1>8. QED
  BY <1>1, <1>2, <1>3, <1>4, <1>5, <1>6, <1>7

\* A list that is not empty is its front and its last member.
LEMMA FrontAndLast ==
  ASSUME NEW X, NEW n \in Nat, NEW s \in Seq(X), Len(s) = n + 1
  PROVE  \E f \in Seq(X), last \in X :
           s = Append(f, last) /\ Len(f) = n /\ last = s[n + 1] /\ \A a \in 1 .. n : f[a] = s[a]
<1>1. PICK f : f = SubSeq(s, 1, n)
  OBVIOUS
<1>2. f \in Seq(X) /\ Len(f) = n /\ \A a \in 1 .. n : f[a] = s[a]
  BY <1>1
<1>3. PICK last \in X : last = s[n + 1]
  OBVIOUS
<1>4. PICK t : t = Append(f, last)
  OBVIOUS
<1>5. t \in Seq(X) /\ Len(t) = n + 1 /\ t[n + 1] = last /\ \A a \in 1 .. n : t[a] = f[a]
  BY <1>2, <1>4
<1>6. \A a \in 1 .. n + 1 : t[a] = s[a]
  BY <1>2, <1>3, <1>5
<1>7. t = s
  BY <1>5, <1>6
<1>8. QED
  BY <1>2, <1>3, <1>4, <1>7

\* What is in a list of lists.
LEMMA FlatMembers ==
  ASSUME NEW X, NEW s \in Seq(Seq(X))
  PROVE  \A x : x \in ToSet(FlattenSeq(s)) <=> \E k \in DOMAIN s : x \in ToSet(s[k])
<1> DEFINE T == {n \in Nat : \A t \in Seq(Seq(X)) : Len(t) = n =>
             \A x : x \in ToSet(FlattenSeq(t)) <=> \E k \in DOMAIN t : x \in ToSet(t[k])}
<1>1. 0 \in T
  <2>1. SUFFICES ASSUME NEW t \in Seq(Seq(X)), Len(t) = 0, NEW x
                 PROVE  x \in ToSet(FlattenSeq(t)) <=> \E k \in DOMAIN t : x \in ToSet(t[k])
    OBVIOUS
  <2>2. t = <<>>
    BY <2>1
  <2>3. FlattenSeq(t) = <<>>
    BY <2>2, Flattened
  <2>4. ToSet(<<>>) = {} /\ DOMAIN t = {}
    BY <2>2 DEF ToSet
  <2>5. QED
    BY <2>3, <2>4
<1>2. ASSUME NEW n \in Nat, n \in T PROVE n + 1 \in T
  <2>1. SUFFICES ASSUME NEW t \in Seq(Seq(X)), Len(t) = n + 1, NEW x
                 PROVE  x \in ToSet(FlattenSeq(t)) <=> \E k \in DOMAIN t : x \in ToSet(t[k])
    OBVIOUS
  <2>2. PICK f \in Seq(Seq(X)), last \in Seq(X) :
          t = Append(f, last) /\ Len(f) = n /\ last = t[n + 1] /\ \A a \in 1 .. n : f[a] = t[a]
    BY <2>1, FrontAndLast
  <2>3. FlattenSeq(f) \in Seq(X) /\ FlattenSeq(t) = FlattenSeq(f) \o last
    BY <2>2, Flattened
  <2>4. ToSet(FlattenSeq(t)) = ToSet(FlattenSeq(f)) \cup ToSet(last)
    BY <2>3, Concatenated
  <2>5. x \in ToSet(FlattenSeq(f)) <=> \E k \in DOMAIN f : x \in ToSet(f[k])
    BY <1>2, <2>2
  <2>6. DOMAIN t = 1 .. n + 1 /\ DOMAIN f = 1 .. n
    BY <2>1, <2>2
  <2>7. (\E k \in DOMAIN t : x \in ToSet(t[k]))
          <=> (\E k \in DOMAIN f : x \in ToSet(f[k])) \/ x \in ToSet(last)
    <3>1. \A k \in 1 .. n : k \in 1 .. n + 1 /\ f[k] = t[k]
      BY <2>2
    <3>2. \A k \in 1 .. n + 1 : k \in 1 .. n \/ k = n + 1
      OBVIOUS
    <3>3. n + 1 \in 1 .. n + 1 /\ t[n + 1] = last
      BY <2>2
    <3>4. QED
      BY <2>6, <3>1, <3>2, <3>3, Zenon
  <2>8. QED
    BY <2>4, <2>5, <2>7
<1>3. Len(s) \in T
  <2> HIDE DEF T
  <2>1. Len(s) \in Nat
    OBVIOUS
  <2>2. QED
    BY <1>1, <1>2, <2>1, ByInduction
<1>4. QED
  BY <1>3

\* Two lists of lines, all of the first with smaller numbers.
LEMMA RisingOn ==
  ASSUME NEW s \in Seq(Line), NEW t \in Seq(Line), Rising(s), Rising(t),
         \A x \in ToSet(s), y \in ToSet(t) : x.seq < y.seq
  PROVE  Rising(s \o t)
<1>1. PICK u : u = s \o t
  OBVIOUS
<1>2. PICK n \in Nat : n = Len(s)
  OBVIOUS
<1>3. /\ \A a \in DOMAIN s : u[a] = s[a] /\ s[a] \in ToSet(s)
      /\ \A a \in DOMAIN t : u[n + a] = t[a] /\ t[a] \in ToSet(t)
      /\ \A a \in DOMAIN u : a \in DOMAIN s \/ (a - n \in DOMAIN t /\ a > n)
      /\ DOMAIN u \subseteq Nat /\ DOMAIN s = 1 .. n /\ DOMAIN t \subseteq Nat
  <2>1. u \in Seq(Line)
    BY <1>1
  <2>2. \A a \in DOMAIN s : s[a] \in ToSet(s)
    BY DEF ToSet
  <2>3. \A a \in DOMAIN t : t[a] \in ToSet(t)
    BY DEF ToSet
  <2>4. DOMAIN u \subseteq Nat /\ DOMAIN s = 1 .. n /\ DOMAIN t \subseteq Nat
    BY <1>2, <2>1
  <2>5. QED
    BY <1>1, <1>2, <2>2, <2>3, <2>4, Concatenated
<1>4. ASSUME NEW a \in DOMAIN u, NEW b \in DOMAIN u, a < b PROVE u[a].seq < u[b].seq
  <2>1. a \in Nat /\ b \in Nat
    BY <1>3
  <2>2. CASE b \in DOMAIN s
    <3>1. a \in DOMAIN s
      BY <1>3, <1>4, <2>1, <2>2
    <3>2. QED
      BY <1>3, <1>4, <2>2, <3>1 DEF Rising
  <2>3. CASE b - n \in DOMAIN t /\ b > n
    <3>1. n + (b - n) = b
      BY <2>1
    <3>2. u[b] = t[b - n] /\ t[b - n] \in ToSet(t)
      BY <1>3, <2>3, <3>1
    <3>3. CASE a \in DOMAIN s
      BY <1>3, <3>2, <3>3
    <3>4. CASE a - n \in DOMAIN t
      <4>1. n + (a - n) = a /\ a - n < b - n
        BY <1>4, <2>1
      <4>2. u[a] = t[a - n]
        BY <1>3, <3>4, <4>1
      <4>3. QED
        BY <2>3, <3>2, <3>4, <4>1, <4>2 DEF Rising
    <3>5. QED
      BY <1>3, <3>3, <3>4
  <2>4. QED
    BY <1>3, <2>2, <2>3
<1>5. QED
  BY <1>1, <1>4 DEF Rising

\* A list of rising lists, each below the next.
LEMMA FlatRising ==
  ASSUME NEW s \in Seq(Seq(Line)), \A k \in DOMAIN s : Rising(s[k]),
         \A j, k \in DOMAIN s : j < k => \A x \in ToSet(s[j]), y \in ToSet(s[k]) : x.seq < y.seq
  PROVE  Rising(FlattenSeq(s))
<1> DEFINE Rises(t) == /\ \A k \in DOMAIN t : Rising(t[k])
                       /\ \A j, k \in DOMAIN t : j < k =>
                            \A x \in ToSet(t[j]), y \in ToSet(t[k]) : x.seq < y.seq
           T == {n \in Nat : \A t \in Seq(Seq(Line)) :
                   Len(t) = n /\ Rises(t) => Rising(FlattenSeq(t))}
<1>1. 0 \in T
  <2>1. SUFFICES ASSUME NEW t \in Seq(Seq(Line)), Len(t) = 0 PROVE Rising(FlattenSeq(t))
    OBVIOUS
  <2>2. t = <<>>
    BY <2>1
  <2>3. FlattenSeq(t) = <<>>
    BY <2>2, Flattened
  <2>4. QED
    BY <2>3 DEF Rising
<1>2. ASSUME NEW n \in Nat, n \in T PROVE n + 1 \in T
  <2>1. SUFFICES ASSUME NEW t \in Seq(Seq(Line)), Len(t) = n + 1, Rises(t)
                 PROVE  Rising(FlattenSeq(t))
    OBVIOUS
  <2>2. PICK f \in Seq(Seq(Line)), last \in Seq(Line) :
          t = Append(f, last) /\ Len(f) = n /\ last = t[n + 1] /\ \A a \in 1 .. n : f[a] = t[a]
    BY <2>1, FrontAndLast
  <2>3. FlattenSeq(f) \in Seq(Line) /\ FlattenSeq(t) = FlattenSeq(f) \o last
    BY <2>2, Flattened
  <2>4. DOMAIN t = 1 .. n + 1 /\ DOMAIN f = 1 .. n
    BY <2>1, <2>2
  <2>5. Rises(f)
    <3>1. \A k \in DOMAIN f : k \in DOMAIN t /\ f[k] = t[k]
      BY <2>2, <2>4
    <3>2. QED
      BY <2>1, <3>1, Zenon
  <2>6. Rising(FlattenSeq(f))
    BY <1>2, <2>2, <2>5
  <2>7. Rising(last)
    <3>1. n + 1 \in DOMAIN t /\ t[n + 1] = last
      BY <2>2, <2>4
    <3>2. QED
      BY <2>1, <3>1
  <2>8. ASSUME NEW x \in ToSet(FlattenSeq(f)), NEW y \in ToSet(last) PROVE x.seq < y.seq
    <3>1. PICK k \in DOMAIN f : x \in ToSet(f[k])
      BY FlatMembers
    <3>2. k \in DOMAIN t /\ n + 1 \in DOMAIN t /\ k < n + 1 /\ t[k] = f[k] /\ t[n + 1] = last
      BY <2>2, <2>4, <3>1
    <3>3. QED
      BY <2>1, <2>8, <3>1, <3>2
  <2>9. QED
    BY <2>3, <2>6, <2>7, <2>8, RisingOn
<1>3. Len(s) \in T
  <2> HIDE DEF T
  <2>1. Len(s) \in Nat
    OBVIOUS
  <2>2. QED
    BY <1>1, <1>2, <2>1, ByInduction
<1>4. QED
  BY <1>3

\* The events of a segment.
LEMMA SegmentRead ==
  ASSUME NEW s \in Seq(Line), Rising(s)
  PROVE  /\ EventsOf(s) \in Seq(Line) /\ Rising(EventsOf(s))
         /\ \A x : x \in ToSet(EventsOf(s)) <=> x \in ToSet(s) /\ Parses(x)
<1>1. PICK n \in Nat : n = Len(s)
  OBVIOUS
<1>2. PICK t : t = [k \in DOMAIN s |-> IF Parses(s[k]) THEN <<s[k]>> ELSE <<>>]
  OBVIOUS
<1>3. DOMAIN s = 1 .. n /\ \A k \in 1 .. n : s[k] \in Line
  BY <1>1
<1>4. ASSUME NEW k \in 1 .. n
      PROVE  /\ t[k] \in Seq(Line) /\ Rising(t[k])
             /\ \A x : x \in ToSet(t[k]) <=> x = s[k] /\ Parses(x)
  <2>1. t[k] = IF Parses(s[k]) THEN <<s[k]>> ELSE <<>>
    BY <1>2, <1>3
  <2>2. CASE Parses(s[k])
    <3>1. <<s[k]>> \in Seq(Line) /\ DOMAIN <<s[k]>> = {1} /\ <<s[k]>>[1] = s[k]
      BY <1>3
    <3>2. QED
      BY <2>1, <2>2, <3>1 DEF ToSet, Rising
  <2>3. CASE ~ Parses(s[k])
    BY <2>1, <2>3 DEF ToSet, Rising
  <2>4. QED
    BY <2>2, <2>3
<1>5. t \in Seq(Seq(Line)) /\ DOMAIN t = 1 .. n
  <2>1. t \in [1 .. n -> Seq(Line)]
    BY <1>2, <1>3, <1>4
  <2>2. QED
    BY <2>1
<1>6. EventsOf(s) = FlattenSeq(t)
  BY <1>2 DEF EventsOf
<1>7. Rising(FlattenSeq(t))
  <2>1. \A j, k \in DOMAIN t : j < k => \A x \in ToSet(t[j]), y \in ToSet(t[k]) : x.seq < y.seq
    BY <1>3, <1>4, <1>5 DEF Rising
  <2>2. QED
    BY <1>4, <1>5, <2>1, FlatRising
<1>8. FlattenSeq(t) \in Seq(Line)
  BY <1>5, Flattened
<1>9. \A x : x \in ToSet(FlattenSeq(t)) <=> x \in ToSet(s) /\ Parses(x)
  <2>1. \A x : x \in ToSet(FlattenSeq(t)) <=> \E k \in DOMAIN t : x \in ToSet(t[k])
    BY <1>5, FlatMembers
  <2>2. \A x : x \in ToSet(s) <=> \E k \in 1 .. n : x = s[k]
    BY <1>3 DEF ToSet
  <2>3. QED
    BY <1>4, <1>5, <2>1, <2>2, ZenonT(60)
<1>10. QED
  BY <1>6, <1>7, <1>8, <1>9

\* What a query finds: what parses in the files there are, the oldest first.
LEMMA Collected ==
  ASSUME AuditAssumption, NEW u \in Dirs, segs[u] \in [Idx -> Seq(Line)], Ordered(segs[u]),
         max_files \in 1 .. SegMax
  PROVE  /\ collect_locked(u, ASC, 0) \in Seq(Line) /\ Rising(collect_locked(u, ASC, 0))
         /\ \A x : x \in ToSet(collect_locked(u, ASC, 0)) <=>
              Parses(x) /\ \E k \in Idx : k < max_files /\ x \in ToSet(segs[u][k])
<1>1. PICK n \in Nat : n = max_files
  BY AuditAssumption
<1>2. PICK f \in [Idx -> Seq(Line)] : f = segs[u]
  OBVIOUS
<1>3. PICK t : t = [k \in 1 .. n |-> EventsOf(f[n - k])]
  OBVIOUS
<1>4. \A k \in 1 .. n : n - k \in Idx /\ n - k < n
  BY <1>1, AuditAssumption DEF Idx
<1>5. ASSUME NEW k \in Idx, k < n PROVE n - k \in 1 .. n /\ n - (n - k) = k
  BY <1>1, <1>5, AuditAssumption DEF Idx
<1>6. Ordered(f)
  BY <1>2
<1>7. ASSUME NEW k \in 1 .. n
      PROVE  /\ t[k] \in Seq(Line) /\ Rising(t[k])
             /\ \A x : x \in ToSet(t[k]) <=> x \in ToSet(f[n - k]) /\ Parses(x)
  <2>1. PICK s \in Seq(Line) : s = f[n - k]
    BY <1>2, <1>4
  <2>2. Rising(s)
    BY <1>4, <1>6, <2>1 DEF Ordered
  <2>3. t[k] = EventsOf(s)
    BY <1>3, <2>1
  <2>4. QED
    BY <2>1, <2>2, <2>3, SegmentRead
<1>8. t \in Seq(Seq(Line)) /\ DOMAIN t = 1 .. n
  <2>1. t \in [1 .. n -> Seq(Line)]
    BY <1>3, <1>7
  <2>2. QED
    BY <2>1
<1>9. collect_locked(u, ASC, 0) = FlattenSeq(t)
  BY <1>1, <1>2, <1>3 DEF collect_locked, ASC, DESC
<1>10. Rising(FlattenSeq(t))
  <2>1. ASSUME NEW j \in 1 .. n, NEW k \in 1 .. n, j < k,
               NEW x \in ToSet(t[j]), NEW y \in ToSet(t[k])
        PROVE  x.seq < y.seq
    <3>1. n - j \in Idx /\ n - k \in Idx /\ n - k < n - j
      BY <1>4, <2>1
    <3>0. x \in ToSet(f[n - j]) /\ y \in ToSet(f[n - k])
      BY <1>7, <2>1
    <3>2. PICK a \in DOMAIN f[n - j] : x = f[n - j][a]
      BY <3>0 DEF ToSet
    <3>3. PICK b \in DOMAIN f[n - k] : y = f[n - k][b]
      BY <3>0 DEF ToSet
    <3>4. Has(f[n - j], x.seq) /\ Has(f[n - k], y.seq)
      BY <3>2, <3>3 DEF Has
    <3>5. x \in Line /\ y \in Line
      BY <1>2, <3>1, <3>2, <3>3
    <3>6. x.seq \in SeqNos /\ y.seq \in SeqNos
      BY <3>5 DEF Line, SeqNos
    <3>7. QED
      BY <1>6, <3>1, <3>4, <3>6 DEF Ordered
  <2>2. QED
    BY <1>7, <1>8, <2>1, FlatRising
<1>11. FlattenSeq(t) \in Seq(Line)
  BY <1>8, Flattened
<1>12. ASSUME NEW x
       PROVE  x \in ToSet(FlattenSeq(t)) <=>
                Parses(x) /\ \E k \in Idx : k < n /\ x \in ToSet(f[k])
  <2>1. x \in ToSet(FlattenSeq(t)) <=> \E k \in 1 .. n : x \in ToSet(t[k])
    BY <1>8, FlatMembers
  <2>2. (\E k \in 1 .. n : x \in ToSet(t[k])) => Parses(x) /\ \E k \in Idx : k < n /\ x \in ToSet(f[k])
    BY <1>4, <1>7
  <2>3. ASSUME Parses(x), NEW k \in Idx, k < n, x \in ToSet(f[k])
        PROVE  \E m \in 1 .. n : x \in ToSet(t[m])
    <3>1. n - k \in 1 .. n /\ f[n - (n - k)] = f[k]
      BY <1>5, <2>3
    <3>2. x \in ToSet(t[n - k])
      BY <1>7, <2>3, <3>1
    <3>3. QED
      BY <3>1, <3>2
  <2>4. QED
    BY <2>1, <2>2, <2>3
<1>13. QED
  BY <1>1, <1>2, <1>9, <1>10, <1>11, <1>12

\* Cutting behind the first events, of the list or of the list turned round.
LEMMA CutOff ==
  ASSUME NEW u \in Dirs, NEW all \in Seq(Line), all = collect_locked(u, ASC, 0), Rising(all),
         \A x \in ToSet(all) : Parses(x), NEW limit \in 1 .. Len(all), NEW order \in {ASC, DESC}
  PROVE  /\ Len(collect_locked(u, order, limit)) = limit
         /\ \A s \in Seqs(collect_locked(u, order, limit)), l \in ToSet(all) :
              l.seq \notin Seqs(collect_locked(u, order, limit)) =>
                IF order = DESC THEN s > l.seq ELSE s < l.seq
<1>a. PICK cut : cut = collect_locked(u, order, limit)
  OBVIOUS
<1>b. PICK sorted : sorted = IF order = DESC THEN Reverse(all) ELSE all
  OBVIOUS
<1>c. cut = IF Len(sorted) > limit THEN SubSeq(sorted, 1, limit) ELSE sorted
  <2>1. all = FlattenSeq([k \in 1 .. max_files |-> EventsOf(segs[u][max_files - k])])
    BY DEF collect_locked, ASC, DESC
  <2>2. limit > 0
    OBVIOUS
  <2>3. QED
    BY <1>a, <1>b, <2>1, <2>2 DEF collect_locked
<1>1. PICK n \in Nat : n = Len(all)
  OBVIOUS
<1>2. limit \in 1 .. n
  BY <1>1
<1>3. DOMAIN all = 1 .. n /\ \A a \in 1 .. n : all[a] \in Line /\ Parses(all[a])
  BY <1>1 DEF ToSet
<1> DEFINE At(a) == IF order = DESC THEN n - a + 1 ELSE a
<1>4. \A a \in 1 .. n : At(a) \in 1 .. n /\ At(At(a)) = a
  OBVIOUS
<1>5. sorted \in Seq(Line) /\ Len(sorted) = n /\ \A a \in 1 .. n : sorted[a] = all[At(a)]
  <2>1. CASE order = DESC
    <3>1. sorted = [a \in 1 .. n |-> all[(n - a) + 1]]
      BY <1>1, <1>b, <2>1 DEF Reverse
    <3>2. \A a \in 1 .. n : (n - a) + 1 \in 1 .. n
      OBVIOUS
    <3>3. sorted \in [1 .. n -> Line]
      BY <1>3, <3>1, <3>2
    <3>4. sorted \in Seq(Line) /\ Len(sorted) = n
      BY <3>3
    <3>5. QED
      BY <2>1, <3>1, <3>4
  <2>2. CASE order # DESC
    BY <1>1, <1>b, <2>2
  <2>3. QED
    BY <2>1, <2>2
<1>6. cut \in Seq(Line) /\ Len(cut) = limit /\ \A a \in 1 .. limit : cut[a] = sorted[a]
  <2>1. CASE n > limit
    <3>1. cut = SubSeq(sorted, 1, limit)
      BY <1>5, <1>c, <2>1
    <3>2. limit \in Nat /\ limit <= Len(sorted)
      BY <1>2, <1>5
    <3>3. QED
      BY <1>5, <3>1, <3>2
  <2>2. CASE ~ (n > limit)
    <3>1. cut = sorted /\ n = limit
      BY <1>2, <1>5, <1>c, <2>2
    <3>2. QED
      BY <1>5, <3>1
  <2>3. QED
    BY <2>1, <2>2
<1>7. DOMAIN cut = 1 .. limit /\ \A a \in 1 .. limit : a \in 1 .. n /\ cut[a] = all[At(a)]
  BY <1>2, <1>5, <1>6
<1> HIDE DEF At
<1>8. ASSUME NEW s \in Seqs(cut), NEW l \in ToSet(all), l.seq \notin Seqs(cut)
      PROVE  IF order = DESC THEN s > l.seq ELSE s < l.seq
  <2>1. PICK a \in 1 .. limit : s = cut[a].seq
    BY <1>7 DEF Seqs
  <2>2. PICK b \in 1 .. n : l = all[b]
    BY <1>3 DEF ToSet
  <2>3. At(b) \notin 1 .. limit
    <3>1. SUFFICES ASSUME At(b) \in 1 .. limit PROVE FALSE
      OBVIOUS
    <3>2. cut[At(b)] = all[b]
      BY <1>4, <1>7, <3>1
    <3>3. l.seq \in Seqs(cut)
      BY <1>3, <1>7, <2>2, <3>1, <3>2 DEF Seqs
    <3>4. QED
      BY <1>8, <3>3
  <2>4. At(b) \in 1 .. n /\ At(b) > limit /\ a <= limit /\ a \in 1 .. n /\ limit \in Nat
    BY <1>2, <1>4, <2>3
  <2>5. s = all[At(a)].seq /\ At(a) \in 1 .. n
    BY <1>4, <1>7, <2>1, <2>4
  <2>6. IF order = DESC THEN At(a) > b ELSE At(a) < b
    BY <2>4 DEF At
  <2>7. all[b].seq \in Nat /\ all[At(a)].seq \in Nat
    BY <1>3, <2>5 DEF Line
  <2>8. QED
    BY <1>3, <2>2, <2>5, <2>6, <2>7 DEF Rising
<1>9. QED
  BY <1>a, <1>6, <1>8

\* Queries are answered in order.
LEMMA QueriesOrdered ==
  ASSUME AuditAssumption, AuditTypeOK, \A u \in Dirs : Ordered(segs[u])
  PROVE  QueryOrdered
<1> SUFFICES ASSUME NEW u \in Dirs
             PROVE  LET all == collect_locked(u, ASC, 0) IN
                    /\ \A k \in 1 .. Len(all) - 1 : all[k].seq < all[k + 1].seq
                    /\ \A limit \in 1 .. Len(all) :
                         LET oldest == collect_locked(u, ASC, limit)
                             newest == collect_locked(u, DESC, limit) IN
                         /\ Len(oldest) = limit /\ Len(newest) = limit
                         /\ \A s \in Seqs(oldest), other \in Found(u) \ Seqs(oldest) : s < other
                         /\ \A s \in Seqs(newest), other \in Found(u) \ Seqs(newest) : s > other
  BY DEF QueryOrdered
<1>0. max_files \in 1 .. SegMax /\ segs[u] \in [Idx -> Seq(Line)]
  BY AuditAssumption DEF AuditTypeOK, World
<1>1. PICK all : all = collect_locked(u, ASC, 0)
  OBVIOUS
<1>2. all \in Seq(Line) /\ Rising(all) /\ \A x \in ToSet(all) : Parses(x)
  BY <1>0, <1>1, Collected
<1>3. Found(u) = {l.seq : l \in ToSet(all)}
  BY <1>1 DEF Found
<1>4. \A k \in 1 .. Len(all) - 1 : all[k].seq < all[k + 1].seq
  <2>1. \A k \in 1 .. Len(all) - 1 : k \in DOMAIN all /\ k + 1 \in DOMAIN all /\ k < k + 1
    BY <1>2
  <2>2. QED
    BY <1>2, <2>1 DEF Rising
<1>5. ASSUME NEW limit \in 1 .. Len(all)
      PROVE  LET oldest == collect_locked(u, ASC, limit)
                 newest == collect_locked(u, DESC, limit) IN
             /\ Len(oldest) = limit /\ Len(newest) = limit
             /\ \A s \in Seqs(oldest), other \in Found(u) \ Seqs(oldest) : s < other
             /\ \A s \in Seqs(newest), other \in Found(u) \ Seqs(newest) : s > other
  <2>1. ASC \in {ASC, DESC} /\ DESC \in {ASC, DESC} /\ ASC # DESC
    BY DEF ASC, DESC
  <2>2. PICK oldest : oldest = collect_locked(u, ASC, limit)
    OBVIOUS
  <2>3. /\ Len(oldest) = limit
        /\ \A s \in Seqs(oldest), l \in ToSet(all) : l.seq \notin Seqs(oldest) => s < l.seq
    BY <1>1, <1>2, <2>1, <2>2, CutOff
  <2>4. PICK newest : newest = collect_locked(u, DESC, limit)
    OBVIOUS
  <2>5. /\ Len(newest) = limit
        /\ \A s \in Seqs(newest), l \in ToSet(all) : l.seq \notin Seqs(newest) => s > l.seq
    BY <1>1, <1>2, <2>1, <2>4, CutOff
  <2>6. QED
    BY <1>3, <2>2, <2>3, <2>4, <2>5
<1>6. QED
  BY <1>1, <1>4, <1>5

\* What the types say of the files.
LEMMA AuditBasics ==
  ASSUME AuditAssumption, AuditTypeOK
  PROVE  /\ max_files \in 1 .. SegMax /\ SegMax \in Nat /\ SegMax > 0 /\ SeqMax \in Nat
         /\ 0 \in Idx /\ (max_files > 1 => 1 \in Idx) /\ Idx \subseteq Nat
         /\ \A u \in Dirs : segs[u] \in [Idx -> Seq(Line)] /\ acked[u] \in Seq(1 .. SeqMax)
         /\ \A u \in Dirs : \A k \in Idx : segs[u][k] \in Seq(Line) /\ Len(segs[u][k]) <= MaxBytes
         /\ MaxBytes \in Nat /\ MaxBytes > 0 /\ dir \in Dirs
<1>1. max_files \in 1 .. SegMax /\ SegMax \in Nat /\ SeqMax \in Nat /\ MaxBytes \in Nat /\ MaxBytes > 0
  BY AuditAssumption DEF AuditTypeOK, World
<1>2. 0 \in Idx /\ (max_files > 1 => 1 \in Idx) /\ Idx \subseteq Nat /\ SegMax > 0
  BY <1>1 DEF Idx
<1>3. QED
  BY <1>1, <1>2 DEF AuditTypeOK

\* Lines have numbers, and a list that is not empty has one.
LEMMA Numbers ==
  ASSUME AuditAssumption, NEW list \in Seq(Line)
  PROVE  /\ \A s : Has(list, s) => s \in SeqNos /\ s \in Nat /\ list # <<>>
         /\ list # <<>> => \E s \in SeqNos : Has(list, s)
 <1>1. \A a \in DOMAIN list : list[a] \in Line
  OBVIOUS
<1>2. \A a \in DOMAIN list : list[a].seq \in SeqNos /\ list[a].seq \in Nat
  BY <1>1, AuditAssumption DEF Line, SeqNos
<1>3. list # <<>> => 1 \in DOMAIN list
  OBVIOUS
<1>4. list = <<>> => DOMAIN list = {}
  OBVIOUS
<1>5. QED
  BY <1>2, <1>3, <1>4 DEF Has

\* A file that is younger has a larger number.
LEMMA Younger ==
  ASSUME AuditAssumption, NEW f \in [Idx -> Seq(Line)], Ordered(f), NEW k \in Idx, NEW m \in Idx,
         k < m, f[k] # <<>>, NEW s, Has(f[m], s)
  PROVE  \E t \in SeqNos : Has(f[k], t) /\ s < t
<1>1. s \in SeqNos
  BY Numbers
<1>2. PICK t \in SeqNos : Has(f[k], t)
  BY Numbers
<1>3. QED
  BY <1>1, <1>2 DEF Ordered

\* In the younger files nothing is missing either.
LEMMA NoGapBelow ==
  ASSUME AuditAssumption, NEW f \in [Idx -> Seq(Line)], Ordered(f), NEW given \in Seq(1 .. SeqMax),
         NEW n \in Nat, NEW m \in Nat, m <= n, NoGap(f, n, given)
  PROVE  NoGap(f, m, given)
<1>1. SUFFICES ASSUME NEW b \in DOMAIN given, NEW s \in SeqNos, Holds(f, m, s), s <= given[b]
               PROVE  Holds(f, m, given[b])
  BY DEF NoGap
<1>2. PICK j \in Idx : j < m /\ Has(f[j], s)
  BY <1>1 DEF Holds
<1>3. j \in Nat /\ given[b] \in 1 .. SeqMax /\ given[b] \in SeqNos
  BY AuditAssumption DEF Idx, SeqNos
<1>4. j < n
  BY <1>2, <1>3
<1>5. Holds(f, n, s)
  BY <1>2, <1>4 DEF Holds
<1>6. Holds(f, n, given[b])
  BY <1>1, <1>5 DEF NoGap
<1>7. PICK k \in Idx : k < n /\ Has(f[k], given[b])
  BY <1>6 DEF Holds
<1>8. CASE k < m
  BY <1>7, <1>8 DEF Holds
<1>9. CASE ~ (k < m)
  <2>1. j < k
    BY <1>2, <1>9 DEF Idx
  <2>2. given[b] < s
    BY <1>2, <1>3, <1>7, <2>1 DEF Ordered
  <2>3. QED
    BY <1>1, <1>3, <2>2, AuditAssumption DEF SeqNos
<1>10. QED
  BY <1>8, <1>9

\* Nothing is lost when only empty files are left out, and it is found there then.
LEMMA HoldsBelow ==
  ASSUME NEW f, NEW n \in Nat, NEW m \in Nat, m <= n, AuditAssumption,
         \A k \in Idx : k >= m => f[k] = <<>>, NEW s
  PROVE  Holds(f, n, s) <=> Holds(f, m, s)
<1>1. \A t : ~ Has(<<>>, t)
  BY DEF Has
<1>2. \A k \in Idx : k \in Nat
  BY AuditAssumption DEF Idx
<1>3. QED
  BY <1>1, <1>2 DEF Holds

\* When files become empty the rest stays in order.
LEMMA FilesEmptied ==
  ASSUME AuditAssumption, NEW f \in [Idx -> Seq(Line)], NEW g \in [Idx -> Seq(Line)], Ordered(f),
         \A k \in Idx : g[k] = f[k] \/ g[k] = <<>>
  PROVE  Ordered(g) /\ \A n, s : Holds(g, n, s) => Holds(f, n, s)
<1>1. \A t : ~ Has(<<>>, t)
  BY DEF Has
<1>2. \A k \in Idx : \A s : Has(g[k], s) => Has(f[k], s)
  BY <1>1
<1>3. Rising(<<>>)
  BY DEF Rising
<1>4. \A k \in Idx : Rising(g[k])
  BY <1>3 DEF Ordered
<1>5. \A k, m \in Idx : k < m => \A s, t \in SeqNos : Has(g[m], s) /\ Has(g[k], t) => s < t
  BY <1>2 DEF Ordered
<1>6. QED
  BY <1>2, <1>4, <1>5 DEF Ordered, Holds

\* The files after one rename.
Renamed(f, j) == [f EXCEPT ![j] = f[j - 1], ![j - 1] = <<>>]

\* When a file is renamed to the next older one, the files stay in order.
LEMMA MovedOn ==
  ASSUME AuditAssumption, NEW f \in [Idx -> Seq(Line)], Ordered(f), NEW j \in Idx, j > 0
  PROVE  LET g == Renamed(f, j) IN
         /\ g \in [Idx -> Seq(Line)] /\ j - 1 \in Idx
         /\ g[j] = f[j - 1] /\ g[j - 1] = <<>>
         /\ \A k \in Idx : k # j /\ k # j - 1 => g[k] = f[k]
         /\ Ordered(g)
         /\ \A n \in Nat : \A s : Holds(g, n, s) => Holds(f, n, s)
<1>0. PICK g : g = Renamed(f, j)
  OBVIOUS
<1>1. j \in Nat /\ j - 1 \in Nat /\ j - 1 \in Idx /\ j # j - 1 /\ Idx \subseteq Nat
  BY AuditAssumption DEF Idx
<1>2. /\ g[j] = f[j - 1] /\ g[j - 1] = <<>>
      /\ \A k \in Idx : k # j /\ k # j - 1 => g[k] = f[k]
  BY <1>0, <1>1 DEF Renamed
<1>3. g \in [Idx -> Seq(Line)]
  BY <1>0, <1>1 DEF Renamed
<1>4. \A t : ~ Has(<<>>, t)
  BY DEF Has
<1>5. ASSUME NEW k \in Idx, NEW s, Has(g[k], s)
      PROVE  k # j - 1 /\ IF k = j THEN Has(f[j - 1], s) ELSE Has(f[k], s)
  BY <1>2, <1>4, <1>5
<1>6. \A k \in Idx : Rising(g[k])
  <2>1. Rising(<<>>)
    BY DEF Rising
  <2>2. QED
    BY <1>1, <1>2, <2>1 DEF Ordered
<1>7. ASSUME NEW k \in Idx, NEW m \in Idx, k < m, NEW s \in SeqNos, NEW t \in SeqNos,
             Has(g[m], s), Has(g[k], t)
      PROVE  s < t
  <2>1. PICK p \in Idx : p = IF k = j THEN j - 1 ELSE k
    BY <1>1
  <2>2. PICK q \in Idx : q = IF m = j THEN j - 1 ELSE m
    BY <1>1
  <2>3. Has(f[p], t) /\ Has(f[q], s) /\ k # j - 1 /\ m # j - 1
    BY <1>5, <1>7, <2>1, <2>2
  <2>4. p < q
    BY <1>1, <1>7, <2>1, <2>2, <2>3
  <2>5. QED
    BY <2>3, <2>4 DEF Ordered
<1>8. ASSUME NEW n \in Nat, NEW s, Holds(g, n, s) PROVE Holds(f, n, s)
  <2>1. PICK k \in Idx : k < n /\ Has(g[k], s)
    BY <1>8 DEF Holds
  <2>2. PICK p \in Idx : p = IF k = j THEN j - 1 ELSE k
    BY <1>1
  <2>3. p < n /\ Has(f[p], s)
    BY <1>1, <1>5, <2>1, <2>2
  <2>4. QED
    BY <2>3 DEF Holds
<1>9. QED
  BY <1>0, <1>1, <1>2, <1>3, <1>6, <1>7, <1>8 DEF Ordered

\* A line is written: it becomes the last, or swallows an unfinished one.
LEMMA LineWritten ==
  ASSUME AuditAssumption, NEW list \in Seq(Line), Rising(list), NEW kind \in Kinds,
         next_seq \in 1 .. SeqMax, \A s \in SeqNos : Has(list, s) => s < next_seq,
         Len(list) < MaxBytes, NEW new, new = WithLine(list, kind)
  PROVE  /\ new \in Seq(Line) /\ Len(new) <= MaxBytes /\ new # <<>> /\ Rising(new)
         /\ Has(new, next_seq) /\ \A s : Has(new, s) => s = next_seq \/ Has(list, s)
         /\ (\A a \in DOMAIN list : list[a].kind = "good") =>
              /\ \A s : Has(list, s) => Has(new, s)
              /\ kind = "good" => \A a \in DOMAIN new : new[a].kind = "good"
<1>1. PICK n \in Nat : n = Len(list)
  OBVIOUS
<1>2. PICK m \in 1 .. SeqMax : m = next_seq
  OBVIOUS
<1>3. /\ DOMAIN list = 1 .. n
      /\ \A a \in 1 .. n : list[a] \in Line /\ list[a].seq \in SeqNos /\ list[a].seq < m
  <2>1. DOMAIN list = 1 .. n /\ \A a \in 1 .. n : list[a] \in Line
    BY <1>1
  <2>2. \A a \in 1 .. n : list[a].seq \in SeqNos /\ Has(list, list[a].seq)
    BY <2>1 DEF Line, SeqNos, Has
  <2>3. QED
    BY <1>2, <2>1, <2>2
<1>4. ASSUME NEW c \in Kinds, NEW q \in Seq(Line), NEW o \in Nat, o <= n, Len(q) = o,
             \A a \in 1 .. o : q[a] = list[a], new = Append(q, [seq |-> m, kind |-> c])
      PROVE  /\ new \in Seq(Line) /\ Len(new) = o + 1 /\ Rising(new) /\ Has(new, m)
             /\ new[o + 1].kind = c
             /\ \A a \in 1 .. o : new[a] = list[a]
             /\ \A s : Has(new, s) => s = m \/ Has(list, s)
  <2>1. PICK l : l = [seq |-> m, kind |-> c]
    OBVIOUS
  <2>2. l \in Line /\ l.seq = m /\ l.kind = c
    BY <1>2, <2>1, AuditAssumption DEF Line
  <2>3. new \in Seq(Line) /\ Len(new) = o + 1 /\ new[o + 1] = l
        /\ \A a \in 1 .. o : new[a] = q[a]
    BY <1>4, <2>1, <2>2
  <2>4. DOMAIN new = 1 .. o + 1 /\ \A a \in 1 .. o + 1 : a \in 1 .. o \/ a = o + 1
    BY <2>3
  <2>5. \A a \in 1 .. o : a \in 1 .. n /\ new[a] = list[a]
    BY <1>4, <2>3
  <2>6. Rising(new)
    <3>1. ASSUME NEW a \in 1 .. o + 1, NEW b \in 1 .. o + 1, a < b PROVE new[a].seq < new[b].seq
      <4>1. a \in 1 .. o
        BY <3>1
      <4>2. CASE b = o + 1
        BY <1>3, <2>2, <2>3, <2>5, <4>1, <4>2
      <4>3. CASE b \in 1 .. o
        BY <1>3, <2>5, <3>1, <4>1, <4>3 DEF Rising
      <4>4. QED
        BY <2>4, <4>2, <4>3
    <3>2. QED
      BY <2>4, <3>1 DEF Rising
  <2>7. Has(new, m)
    BY <2>2, <2>3, <2>4 DEF Has
  <2>8. ASSUME NEW s, Has(new, s) PROVE s = m \/ Has(list, s)
    <3>1. PICK a \in 1 .. o + 1 : new[a].seq = s
      BY <2>4, <2>8 DEF Has
    <3>2. CASE a \in 1 .. o
      BY <1>3, <2>5, <3>1, <3>2 DEF Has
    <3>3. CASE a = o + 1
      BY <2>2, <2>3, <3>1, <3>3
    <3>4. QED
      BY <2>4, <3>2, <3>3
  <2>9. QED
    BY <2>2, <2>3, <2>5, <2>6, <2>7, <2>8
<1>5. CASE list # <<>> /\ Last(list).kind \in {"cut", "short"}
  <2>1. n \in Nat /\ n > 0 /\ n - 1 \in Nat /\ Last(list) = list[n]
    BY <1>1, <1>5 DEF Last
  <2>2. PICK q : q = Front(list)
    OBVIOUS
  <2>3. q \in Seq(Line) /\ Len(q) = n - 1 /\ \A a \in 1 .. n - 1 : q[a] = list[a]
    BY <1>1, <2>1, <2>2 DEF Front
  <2>4. new = q \o <<[seq |-> m, kind |-> "bad"]>>
    BY <1>2, <1>5, <2>2 DEF WithLine
  <2>5. PICK l : l = [seq |-> m, kind |-> "bad"]
    OBVIOUS
  <2>6. l \in Line
    BY <1>2, <2>5, AuditAssumption DEF Line, Kinds
  <2>7. q \o <<l>> = Append(q, l)
    BY <2>3, <2>6
  <2>8. "bad" \in Kinds /\ n - 1 <= n /\ new = Append(q, [seq |-> m, kind |-> "bad"])
    BY <2>1, <2>4, <2>5, <2>7 DEF Kinds
  <2>9. /\ new \in Seq(Line) /\ Len(new) = (n - 1) + 1 /\ Rising(new) /\ Has(new, m)
        /\ \A s : Has(new, s) => s = m \/ Has(list, s)
    BY <1>4, <2>1, <2>3, <2>8, SMTT(60)
  <2>10. n \in DOMAIN list /\ list[n].kind # "good"
    BY <1>3, <1>5, <2>1
  <2>11. Len(new) <= MaxBytes /\ new # <<>>
    BY <1>1, <2>1, <2>9, AuditAssumption
  <2>12. QED
    BY <1>2, <2>9, <2>10, <2>11
<1>6. CASE ~ (list # <<>> /\ Last(list).kind \in {"cut", "short"})
  <2>1. new = Append(list, [seq |-> m, kind |-> kind])
    BY <1>2, <1>6 DEF WithLine
  <2>2. /\ new \in Seq(Line) /\ Len(new) = n + 1 /\ Rising(new) /\ Has(new, m)
        /\ \A a \in 1 .. n : new[a] = list[a]
        /\ \A s : Has(new, s) => s = m \/ Has(list, s)
    BY <1>1, <1>4, <2>1
  <2>3. new[n + 1].kind = kind
    BY <1>1, <1>4, <2>1
  <2>4. DOMAIN new = 1 .. n + 1 /\ \A a \in 1 .. n + 1 : a \in 1 .. n \/ a = n + 1
    BY <2>2
  <2>5. \A a \in 1 .. n : a \in 1 .. n + 1
    OBVIOUS
  <2>6. \A s : Has(list, s) => Has(new, s)
    BY <1>3, <2>2, <2>4, <2>5 DEF Has
  <2>7. (\A a \in DOMAIN list : list[a].kind = "good") /\ kind = "good" =>
           \A a \in DOMAIN new : new[a].kind = "good"
    BY <1>3, <2>2, <2>3, <2>4
  <2>8. Len(new) <= MaxBytes /\ new # <<>>
    BY <1>1, <2>2, AuditAssumption
  <2>9. QED
    BY <1>2, <2>2, <2>6, <2>7, <2>8
<1>7. QED
  BY <1>5, <1>6

\* The largest number of a list is that of its last line.
LEMMA LargestLast ==
  ASSUME AuditAssumption, NEW list \in Seq(Line), Rising(list), list # <<>>,
         \A a \in DOMAIN list : list[a].kind = "good"
  PROVE  /\ Seqs(list) # {} /\ Max(Seqs(list)) \in SeqNos /\ Has(list, Max(Seqs(list)))
         /\ \A s : Has(list, s) => s <= Max(Seqs(list))
<1>1. PICK n \in Nat : n = Len(list)
  OBVIOUS
<1>2. /\ n > 0 /\ DOMAIN list = 1 .. n
      /\ \A a \in 1 .. n : list[a].seq \in SeqNos /\ list[a].seq \in Nat
  <2>1. n > 0 /\ DOMAIN list = 1 .. n
    BY <1>1
  <2>2. \A a \in 1 .. n : list[a] \in Line
    BY <1>1
  <2>3. QED
    BY <2>1, <2>2, AuditAssumption DEF Line, SeqNos
<1>3. PICK top : top = list[n].seq
  OBVIOUS
<1>4. n \in 1 .. n /\ top \in Nat /\ top \in SeqNos
  BY <1>2, <1>3
<1>5. \A a \in 1 .. n : list[a].seq <= top
  <2>1. ASSUME NEW a \in 1 .. n PROVE list[a].seq <= top
    <3>1. CASE a = n
      BY <1>2, <1>3, <3>1
    <3>2. CASE a # n
      <4>1. a < n
        BY <3>2
      <4>2. list[a].seq < list[n].seq
        BY <1>2, <1>4, <4>1 DEF Rising
      <4>3. QED
        BY <1>2, <1>3, <1>4, <4>2
    <3>3. QED
      BY <3>1, <3>2
  <2>2. QED
    BY <2>1
<1>6. Seqs(list) = {list[a].seq : a \in 1 .. n}
  BY <1>2 DEF Seqs, Parses
<1>7. top \in Seqs(list) /\ \A y \in Seqs(list) : top >= y /\ y \in Nat
  BY <1>2, <1>3, <1>4, <1>5, <1>6
<1>8. Max(Seqs(list)) = top
  <2>1. PICK S : S = Seqs(list)
    OBVIOUS
  <2>2. PICK largest : largest = Max(S)
    OBVIOUS
  <2>3. largest \in S /\ \A y \in S : largest >= y
    BY <1>7, <2>1, <2>2 DEF Max
  <2>4. largest \in Nat /\ largest >= top /\ top >= largest
    BY <1>7, <2>1, <2>3
  <2>5. QED
    BY <1>4, <2>1, <2>2, <2>4
<1>9. QED
  BY <1>2, <1>3, <1>4, <1>5, <1>7, <1>8 DEF Has

\* A number that append or status takes is above all that were given and are there.
LEMMA SeedFresh ==
  ASSUME AuditAssumption, AuditInv, pc = "idle"
  PROVE  /\ seed_seq_locked \in 1 .. SeqMax + 1
         /\ \A s \in SeqNos : Holds(Log, SegMax, s) => s < seed_seq_locked
         /\ \A b \in DOMAIN acked[dir] : acked[dir][b] < seed_seq_locked
<1>1. AuditTypeOK
  BY DEF AuditInv
<1>2. /\ max_files \in 1 .. SegMax /\ SegMax \in Nat /\ SegMax > 0 /\ SeqMax \in Nat /\ dir \in Dirs
      /\ 0 \in Idx /\ (max_files > 1 => 1 \in Idx) /\ Idx \subseteq Nat
      /\ \A u \in Dirs : segs[u] \in [Idx -> Seq(Line)] /\ acked[u] \in Seq(1 .. SeqMax)
  BY <1>1, AuditBasics
<1>3. PICK f \in [Idx -> Seq(Line)] : f = Log
  BY <1>2 DEF Log
<1>4. PICK given \in Seq(1 .. SeqMax) : given = acked[dir]
  BY <1>2
<1>5. PICK used : used = {k \in 0 .. max_files - 1 : f[k] # <<>>}
  OBVIOUS
<1>6. seed_seq_locked = IF next_seq # 0 THEN next_seq
                        ELSE IF used = {} \/ Seqs(f[Min(used)]) = {} THEN 1
                        ELSE Max(Seqs(f[Min(used)])) + 1
  BY <1>3, <1>5 DEF seed_seq_locked
<1>7. CASE next_seq # 0
  <2>1. seed_seq_locked = next_seq
    BY <1>6, <1>7
  <2>2. next_seq \in 1 .. SeqMax + 1
    BY <1>1, <1>2, <1>7 DEF AuditTypeOK
  <2>3. QED
    BY <1>7, <2>1, <2>2 DEF AuditInv, Ahead
<1>8. CASE next_seq = 0 /\ ~ world.crash /\ ~ world.reconf
  <2>1. acked[dir] = <<>> /\ \A k \in Idx : Log[k] = <<>>
    BY <1>8 DEF AuditInv, Ahead
  <2>2. used = {}
    BY <1>2, <1>3, <1>5, <2>1 DEF Idx
  <2>3. seed_seq_locked = 1
    BY <1>6, <1>8, <2>2
  <2>4. \A s : ~ Holds(Log, SegMax, s)
    BY <2>1 DEF Holds, Has
  <2>5. DOMAIN acked[dir] = {}
    BY <2>1
  <2>6. QED
    BY <1>2, <2>3, <2>4, <2>5
<1>9. CASE next_seq = 0 /\ (world.crash \/ world.reconf)
  <2>1. ~ world.full /\ 1 \notin world.files
    BY <1>9 DEF AuditInv, SafeWorld
  <2>2. max_files > 1 /\ 1 \in Idx
    BY <1>1, <1>2, <2>1 DEF AuditTypeOK
  <2>3. Ordered(f) /\ \A k \in Idx : \A a \in DOMAIN f[k] : f[k][a].kind = "good"
    BY <1>2, <1>3, <2>1 DEF AuditInv, Unbroken, Log
  <2>4. (\E k \in Idx : f[k] # <<>>) => f[0] # <<>> \/ f[1] # <<>>
    BY <1>2, <1>3, <1>9 DEF AuditInv, TopFilled, Log
  <2>5. given # <<>> => \E s \in SeqNos : Holds(f, SegMax, s) /\ s >= given[Len(given)]
    BY <1>2, <1>3, <1>4, <2>1 DEF AuditInv, Latest, Newest, Log
  <2>6. \A s \in SeqNos : Holds(f, SegMax, s) => s <= SeqMax
    BY <1>2, <1>3 DEF AuditInv, InTurn, Log
  <2>7. \A a, b \in DOMAIN given : a < b => given[a] < given[b]
    BY <1>2, <1>4 DEF AuditInv, InTurn
  <2>8. \A a \in DOMAIN given : given[a] <= given[Len(given)] /\ given # <<>> /\ given[a] \in Nat
                                /\ given[Len(given)] \in Nat
    <3>1. PICK n \in Nat : n = Len(given)
      OBVIOUS
    <3>2. DOMAIN given = 1 .. n /\ \A a \in 1 .. n : given[a] \in Nat /\ n \in 1 .. n
      BY <1>2, <3>1
    <3>3. ASSUME NEW a \in 1 .. n PROVE given[a] <= given[n]
      <4>1. CASE a = n
        BY <3>2, <4>1
      <4>2. CASE a < n
        BY <2>7, <3>2, <4>2, SMTT(60)
      <4>3. QED
        BY <4>1, <4>2
    <3>4. \A a \in 1 .. n : given # <<>>
      BY <3>1
    <3>5. QED
      BY <3>1, <3>2, <3>3, <3>4
  <2>9. CASE used = {}
    <3>1. f[0] = <<>> /\ f[1] = <<>>
      BY <1>2, <1>5, <2>2, <2>9
    <3>2. \A k \in Idx : f[k] = <<>>
      BY <2>4, <3>1
    <3>3. \A s : ~ Holds(f, SegMax, s)
      BY <3>2 DEF Holds, Has
    <3>4. given = <<>> /\ DOMAIN given = {}
      BY <2>5, <3>3
    <3>5. seed_seq_locked = 1
      BY <1>6, <1>9, <2>9
    <3>6. QED
      BY <1>2, <1>3, <1>4, <3>3, <3>4, <3>5
  <2>10. CASE used # {}
    <3>1. used \subseteq Nat
      BY <1>2, <1>5
    <3>2. PICK m : m = Min(used)
      OBVIOUS
    <3>3. m \in used /\ \A k \in used : m <= k
      <4>1. \E p \in used : \A q \in used : p <= q
        BY <2>10, <3>1, LeastNumber
      <4>2. QED
        BY <3>2, <4>1 DEF Min
    <3>4. m \in Idx /\ f[m] # <<>> /\ m \in Nat /\ m < max_files
      BY <1>2, <1>5, <3>3 DEF Idx
    <3>5. \A k \in Idx : f[k] # <<>> => m <= k
      BY <1>2, <1>5, <3>3, <3>4 DEF Idx
    <3>6. Rising(f[m]) /\ f[m] \in Seq(Line)
      BY <2>3, <3>4 DEF Ordered
    <3>7. PICK top : top = Max(Seqs(f[m]))
      OBVIOUS
    <3>8. /\ Seqs(f[m]) # {} /\ top \in SeqNos /\ Has(f[m], top)
          /\ \A s : Has(f[m], s) => s <= top
      BY <2>3, <3>4, <3>6, <3>7, LargestLast
    <3>9. seed_seq_locked = top + 1
      BY <1>6, <1>9, <2>10, <3>2, <3>7, <3>8
    <3>10. Holds(f, SegMax, top)
      BY <1>2, <3>4, <3>8 DEF Holds, Idx
    <3>11. top \in 1 .. SeqMax
      BY <1>2, <2>6, <3>8, <3>10 DEF SeqNos
    <3>12. ASSUME NEW s \in SeqNos, Holds(f, SegMax, s) PROVE s <= top
      <4>1. PICK k \in Idx : Has(f[k], s)
        BY <3>12 DEF Holds
      <4>2. f[k] # <<>>
        BY <4>1 DEF Has
      <4>3. m <= k /\ k \in Nat
        BY <1>2, <3>5, <4>2
      <4>4. CASE m = k
        BY <3>8, <4>1, <4>4
      <4>5. CASE m # k
        <5>1. m < k
          BY <3>4, <4>3, <4>5
        <5>2. s < top
          BY <2>3, <3>4, <3>8, <4>1, <5>1 DEF Ordered
        <5>3. QED
          BY <1>2, <5>2, <3>11 DEF SeqNos
      <4>6. QED
        BY <4>4, <4>5
    <3>13. \A s \in SeqNos : Holds(f, SegMax, s) => s < top + 1
      BY <1>2, <3>11, <3>12 DEF SeqNos
    <3>14. ASSUME NEW b \in DOMAIN given PROVE given[b] < top + 1
      <4>1. given[b] <= given[Len(given)] /\ given # <<>> /\ given[b] \in Nat
            /\ given[Len(given)] \in Nat
        BY <2>8
      <4>2. PICK s \in SeqNos : Holds(f, SegMax, s) /\ s >= given[Len(given)]
        BY <2>5, <4>1
      <4>3. s <= top /\ s \in Nat
        BY <1>2, <3>12, <4>2 DEF SeqNos
      <4>4. QED
        BY <3>11, <4>1, <4>2, <4>3
    <3>15. top + 1 \in 1 .. SeqMax + 1
      BY <1>2, <3>11
    <3>16. QED
      BY <1>3, <1>4, <3>9, <3>13, <3>14, <3>15
  <2>11. QED
    BY <2>9, <2>10
<1>10. QED
  BY <1>7, <1>8, <1>9

\* Nothing has been written.
LEMMA AuditStarts ==
  ASSUME AuditAssumption, \A w \in Worlds : SafeWorld(w), AuditInit
  PROVE  AuditInv
<1>1. /\ segs = [u \in Dirs |-> [k \in Idx |-> <<>>]] /\ world \in Worlds /\ dir \in Dirs
      /\ max_files \in world.files /\ next_seq = 0 /\ pc = "idle" /\ i = 0
      /\ acked = [u \in Dirs |-> <<>>]
  BY DEF AuditInit
<1>2. SegMax \in Nat /\ SeqMax \in Nat /\ MaxBytes \in Nat
  BY AuditAssumption
<1>3. /\ \A u \in Dirs : \A k \in Idx : segs[u][k] = <<>>
      /\ \A u \in Dirs : acked[u] = <<>>
  BY <1>1
<1>4. \A u \in Dirs : \A n, s : ~ Holds(segs[u], n, s)
  BY <1>3 DEF Holds, Has
<1>5. AuditTypeOK
  BY <1>1, <1>2, <1>3 DEF AuditTypeOK, Idx
<1>6. SafeWorld(world)
  BY <1>1
<1>7. \A u \in Dirs : Ordered(segs[u])
  BY <1>3 DEF Ordered, Rising, Has
<1>8. InTurn
  BY <1>3, <1>4 DEF InTurn
<1>9. Ahead
  BY <1>1, <1>3 DEF Ahead, Log
<1>10. Turning
  BY <1>1 DEF Turning
<1>11. Unbroken
  BY <1>1, <1>3 DEF Unbroken
<1>12. Gapless
  BY <1>3, <1>4 DEF Gapless, NoGap
<1>13. Latest
  BY <1>3 DEF Latest, Newest
<1>14. TopFilled /\ Trimmed
  BY <1>3 DEF TopFilled, Trimmed
<1>15. QED
  BY <1>5, <1>6, <1>7, <1>8, <1>9, <1>10, <1>11, <1>12, <1>13, <1>14 DEF AuditInv

\* What is left to show where the files, what was given and the circumstances stay.
LEMMA FilesStay ==
  ASSUME AuditInv, UNCHANGED <<segs, acked, world>>, max_files' = max_files \/ world.reconf
  PROVE  /\ SafeWorld(world)' /\ (\A u \in Dirs : Ordered(segs[u]))' /\ InTurn'
         /\ TopFilled' /\ Trimmed'
<1>1. SafeWorld(world)'
  BY DEF AuditInv
<1>2. (\A u \in Dirs : Ordered(segs[u]))'
  BY DEF AuditInv
<1>3. InTurn' /\ TopFilled'
  BY DEF AuditInv, InTurn, TopFilled
<1>4. Trimmed'
  BY DEF AuditInv, Trimmed
<1>5. QED
  BY <1>1, <1>2, <1>3, <1>4

\* Append takes the next number.
LEMMA AppendStarts ==
  ASSUME AuditAssumption, AuditInv, ops_append
  PROVE  AuditInv'
<1>1. /\ pc = "idle" /\ seed_seq_locked <= SeqMax /\ next_seq' = seed_seq_locked
      /\ UNCHANGED <<segs, dir, max_files, acked, world>>
      /\ \/ /\ Log[0] # <<>>
            /\ pc' = "rotate" /\ i' = max_files - 1
         \/ /\ Log[0] = <<>> \/ Len(Log[0]) + 1 <= MaxBytes
            /\ pc' = "write" /\ i' = i
  BY DEF ops_append
<1>2. AuditTypeOK
  BY DEF AuditInv
<1>3. /\ max_files \in 1 .. SegMax /\ SegMax \in Nat /\ SegMax > 0 /\ SeqMax \in Nat /\ dir \in Dirs
      /\ 0 \in Idx /\ MaxBytes \in Nat /\ MaxBytes > 0
      /\ \A u \in Dirs : segs[u] \in [Idx -> Seq(Line)] /\ acked[u] \in Seq(1 .. SeqMax)
  BY <1>2, AuditBasics
<1>4. /\ next_seq' \in 1 .. SeqMax
      /\ \A s \in SeqNos : Holds(Log, SegMax, s) => s < next_seq'
      /\ \A b \in DOMAIN acked[dir] : acked[dir][b] < next_seq'
  BY <1>1, <1>3, SeedFresh
<1>5. AuditTypeOK'
  <2>1. next_seq' \in 0 .. SeqMax + 1 /\ i' \in 0 .. SegMax
    BY <1>1, <1>2, <1>3, <1>4 DEF AuditTypeOK
  <2>2. QED
    BY <1>1, <1>2, <2>1 DEF AuditTypeOK
<1>6. Ahead'
  BY <1>1, <1>3, <1>4 DEF Ahead, Log
<1>7. Turning'
  <2>1. pc' = "rotate" => Log[0] # <<>> /\ i' = max_files - 1
    BY <1>1
  <2>2. pc' = "write" => Len(Log[0]) < MaxBytes
    <3>1. Len(Log[0]) \in Nat /\ (Log[0] = <<>> => Len(Log[0]) = 0)
      BY <1>3 DEF Log
    <3>2. QED
      BY <1>1, <1>3, <3>1
  <2>3. pc' # "clean" /\ Log' = Log /\ max_files' = max_files
    BY <1>1 DEF Log
  <2>4. QED
    BY <1>3, <2>1, <2>2, <2>3 DEF Turning
<1>8. Unbroken'
  BY <1>1 DEF AuditInv, Unbroken
<1>9. Gapless'
  <2>1. SUFFICES ASSUME ~ world.full, NEW u \in Dirs
                 PROVE  NoGap(segs[u], IF u = dir /\ pc' \in {"rotate", "clean"} THEN max_files
                                       ELSE SegMax, acked[u])
    BY <1>1 DEF Gapless
  <2>2. NoGap(segs[u], SegMax, acked[u])
    BY <1>1, <2>1 DEF AuditInv, Gapless
  <2>3. NoGap(segs[u], max_files, acked[u])
    <3>1. PICK f \in [Idx -> Seq(Line)] : f = segs[u]
      BY <1>3
    <3>2. PICK given \in Seq(1 .. SeqMax) : given = acked[u]
      BY <1>3
    <3>3. Ordered(f) /\ NoGap(f, SegMax, given)
      BY <2>1, <2>2, <3>1, <3>2 DEF AuditInv
    <3>4. max_files \in Nat /\ max_files <= SegMax
      BY <1>3
    <3>5. QED
      BY <1>3, <3>1, <3>2, <3>3, <3>4, NoGapBelow
  <2>4. QED
    BY <2>2, <2>3
<1>10. Latest'
  BY <1>1 DEF AuditInv, Latest
<1>11. QED
  BY <1>1, <1>5, <1>6, <1>7, <1>8, <1>9, <1>10, FilesStay DEF AuditInv

\* Append reports its number.
LEMMA AppendReports ==
  ASSUME AuditAssumption, AuditInv, AppendReturn
  PROVE  AuditInv'
<1>1. /\ pc = "return" /\ pc' = "idle"
      /\ acked' = [acked EXCEPT ![dir] = Append(acked[dir], next_seq - 1)]
      /\ UNCHANGED <<segs, dir, max_files, next_seq, i, world>>
  BY DEF AppendReturn
<1>2. AuditTypeOK
  BY DEF AuditInv
<1>3. /\ SegMax \in Nat /\ SegMax > 0 /\ SeqMax \in Nat /\ dir \in Dirs
      /\ \A u \in Dirs : acked[u] \in Seq(1 .. SeqMax)
  BY <1>2, AuditBasics
<1>4. PICK given \in Seq(1 .. SeqMax) : given = acked[dir]
  BY <1>3
<1>5. PICK n : n = next_seq - 1
  OBVIOUS
<1>6. n \in 1 .. SeqMax /\ \A b \in DOMAIN given : given[b] < n
  BY <1>1, <1>4, <1>5 DEF AuditInv, Ahead
<1>7. PICK m \in Nat : m = Len(given)
  OBVIOUS
<1>8. PICK more : more = Append(given, n)
  OBVIOUS
<1>9. /\ more \in Seq(1 .. SeqMax) /\ Len(more) = m + 1 /\ DOMAIN more = 1 .. m + 1
      /\ more[m + 1] = n /\ DOMAIN given = 1 .. m /\ \A b \in 1 .. m : more[b] = given[b]
  BY <1>6, <1>7, <1>8
<1>10. \A b \in 1 .. m + 1 : b \in 1 .. m \/ b = m + 1
  BY <1>7
<1>11. /\ acked' = [acked EXCEPT ![dir] = more]
       /\ acked'[dir] = more /\ \A u \in Dirs : u # dir => acked'[u] = acked[u]
  BY <1>1, <1>2, <1>3, <1>4, <1>5, <1>8 DEF AuditTypeOK
<1>12. AuditTypeOK'
  <2>1. acked' \in [Dirs -> Seq(1 .. SeqMax)]
    BY <1>2, <1>3, <1>9, <1>11 DEF AuditTypeOK
  <2>2. QED
    BY <1>1, <1>2, <2>1 DEF AuditTypeOK
<1>13. InTurn'
  <2>1. ASSUME NEW a \in 1 .. m + 1, NEW b \in 1 .. m + 1, a < b PROVE more[a] < more[b]
    <3>1. a \in 1 .. m
      BY <1>7, <2>1
    <3>2. CASE b = m + 1
      BY <1>6, <1>9, <3>1, <3>2
    <3>3. CASE b \in 1 .. m
      <4>1. given[a] < given[b]
        BY <1>3, <1>4, <1>9, <2>1, <3>1, <3>3 DEF AuditInv, InTurn
      <4>2. QED
        BY <1>9, <3>1, <3>3, <4>1
    <3>4. QED
      BY <1>10, <3>2, <3>3
  <2>2. ASSUME NEW u \in Dirs
        PROVE  \A a, b \in DOMAIN acked'[u] : a < b => acked'[u][a] < acked'[u][b]
    <3>1. CASE u = dir
      BY <1>9, <1>11, <2>1, <3>1
    <3>2. CASE u # dir
      BY <1>11, <3>2 DEF AuditInv, InTurn
    <3>3. QED
      BY <3>1, <3>2
  <2>3. \A u \in Dirs : \A s \in SeqNos : Holds(segs'[u], SegMax, s) => s <= SeqMax
    BY <1>1 DEF AuditInv, InTurn
  <2>4. QED
    BY <2>2, <2>3 DEF InTurn
<1>14. Ahead'
  <2>1. next_seq \in 1 .. SeqMax + 1 /\ next_seq # 0 /\ n < next_seq
    BY <1>2, <1>3, <1>5, <1>6 DEF AuditTypeOK
  <2>2. \A b \in 1 .. m : given[b] < next_seq /\ given[b] \in Nat
    <3>1. SUFFICES ASSUME NEW b \in 1 .. m PROVE given[b] < next_seq /\ given[b] \in Nat
      OBVIOUS
    <3>2. given[b] \in 1 .. SeqMax
      BY <1>7
    <3>3. given[b] < n
      BY <1>6, <1>9
    <3>4. QED
      BY <1>3, <1>6, <2>1, <3>2, <3>3
  <2>3. \A b \in DOMAIN more : more[b] < next_seq
    BY <1>9, <1>10, <2>1, <2>2
  <2>4. QED
    BY <1>1, <1>11, <2>1, <2>3 DEF AuditInv, Ahead, Log
<1>15. Turning'
  BY <1>1 DEF Turning
<1>16. Unbroken'
  BY <1>1 DEF AuditInv, Unbroken
<1>17. SUFFICES Gapless' /\ Latest'
  <2>1. SafeWorld(world)' /\ (\A u \in Dirs : Ordered(segs[u]))'
    BY <1>1 DEF AuditInv
  <2>2. TopFilled' /\ Trimmed'
    BY <1>1 DEF AuditInv, TopFilled, Trimmed
  <2>3. QED
    BY <1>12, <1>13, <1>14, <1>15, <1>16, <2>1, <2>2 DEF AuditInv
<1>18. SUFFICES ASSUME ~ world.full, NEW u \in Dirs
                PROVE  NoGap(segs[u], SegMax, acked'[u]) /\ Newest(segs[u], acked'[u])
  BY <1>1 DEF Gapless, Latest
<1>19. NoGap(segs[u], SegMax, acked[u]) /\ Newest(segs[u], acked[u])
  BY <1>1, <1>18 DEF AuditInv, Gapless, Latest
<1>20. CASE u # dir
  BY <1>11, <1>19, <1>20
<1>21. CASE u = dir
  <2>1. Holds(Log, 1, n)
    BY <1>1, <1>5, <1>18 DEF AuditInv, Unbroken
  <2>2. n \in SeqNos /\ Holds(segs[u], SegMax, n)
    <3>1. \A k \in Idx : k < 1 => k < SegMax
      BY <1>3 DEF Idx
    <3>2. n \in SeqNos
      BY <1>3, <1>6 DEF SeqNos
    <3>3. QED
      BY <1>21, <2>1, <3>1, <3>2 DEF Holds, Log
  <2>3. NoGap(segs[u], SegMax, more)
    <3>1. ASSUME NEW b \in 1 .. m + 1, NEW s \in SeqNos, Holds(segs[u], SegMax, s), s <= more[b]
          PROVE  Holds(segs[u], SegMax, more[b])
      <4>1. CASE b = m + 1
        BY <1>9, <2>2, <4>1
      <4>2. CASE b \in 1 .. m
        BY <1>4, <1>9, <1>19, <1>21, <3>1, <4>2 DEF NoGap
      <4>3. QED
        BY <1>10, <4>1, <4>2
    <3>2. QED
      BY <1>9, <3>1 DEF NoGap
  <2>4. Newest(segs[u], more)
    <3>1. more[Len(more)] = n /\ n >= n
      BY <1>6, <1>9
    <3>2. QED
      BY <2>2, <3>1 DEF Newest
  <2>5. QED
    BY <1>11, <1>21, <2>3, <2>4
<1>22. QED
  BY <1>20, <1>21

\* When a call is cut off, by an error or a restart, the older files that are left
\* out of a rotation are empty, and nothing has been truncated.
LEMMA CutShort ==
  ASSUME AuditAssumption, AuditInv, world.io \/ world.crash
  PROVE  ~ world.full =>
           \A u \in Dirs : NoGap(segs[u], SegMax, acked[u]) /\ Newest(segs[u], acked[u])
<1>1. AuditTypeOK
  BY DEF AuditInv
<1>2. /\ max_files \in 1 .. SegMax /\ SegMax \in Nat
      /\ \A u \in Dirs : acked[u] \in Seq(1 .. SeqMax)
  BY <1>1, AuditBasics
<1>3. SUFFICES ASSUME ~ world.full, NEW u \in Dirs
               PROVE  NoGap(segs[u], SegMax, acked[u]) /\ Newest(segs[u], acked[u])
  OBVIOUS
<1>4. ~ world.reconf /\ 1 \notin world.files
  BY <1>3 DEF AuditInv, SafeWorld
<1>5. max_files # 1 /\ \A k \in Idx : k >= max_files => segs[u][k] = <<>>
  BY <1>1, <1>4 DEF AuditInv, AuditTypeOK, Trimmed
<1>6. Newest(segs[u], acked[u])
  BY <1>3, <1>5 DEF AuditInv, Latest
<1>7. NoGap(segs[u], SegMax, acked[u]) \/ NoGap(segs[u], max_files, acked[u])
  BY <1>3 DEF AuditInv, Gapless
<1>8. max_files \in Nat /\ max_files <= SegMax
  BY <1>2
<1>9. \A s : Holds(segs[u], SegMax, s) <=> Holds(segs[u], max_files, s)
  BY <1>2, <1>5, <1>8, HoldsBelow
<1>10. NoGap(segs[u], SegMax, acked[u])
  BY <1>7, <1>9 DEF NoGap
<1>11. QED
  BY <1>6, <1>10

\* Append returns an error.
LEMMA AppendFails ==
  ASSUME AuditAssumption, AuditInv, AppendError
  PROVE  AuditInv'
<1>1. /\ world.io /\ pc # "idle" /\ pc' = "idle"
      /\ UNCHANGED <<segs, dir, max_files, next_seq, i, acked, world>>
  BY DEF AppendError
<1>2. AuditTypeOK'
  BY <1>1 DEF AuditInv, AuditTypeOK
<1>3. Ahead'
  BY <1>1 DEF AuditInv, Ahead, Log
<1>4. Turning' /\ Unbroken'
  BY <1>1 DEF AuditInv, Turning, Unbroken
<1>5. Gapless' /\ Latest'
  BY <1>1, CutShort DEF Gapless, Latest
<1>6. QED
  BY <1>1, <1>2, <1>3, <1>4, <1>5, FilesStay DEF AuditInv

\* The process is started again.
LEMMA AuditRestarts ==
  ASSUME AuditAssumption, AuditInv, AuditCrash
  PROVE  AuditInv'
<1>1. /\ world.crash /\ next_seq' = 0 /\ pc' = "idle"
      /\ UNCHANGED <<segs, dir, max_files, i, acked, world>>
  BY DEF AuditCrash
<1>2. AuditTypeOK'
  BY <1>1, AuditAssumption DEF AuditInv, AuditTypeOK
<1>3. Ahead'
  BY <1>1 DEF Ahead
<1>4. Turning' /\ Unbroken'
  BY <1>1 DEF AuditInv, Turning, Unbroken
<1>5. Gapless' /\ Latest'
  BY <1>1, CutShort DEF Gapless, Latest
<1>6. QED
  BY <1>1, <1>2, <1>3, <1>4, <1>5, FilesStay DEF AuditInv

\* Status takes the next number.
LEMMA StatusAsked ==
  ASSUME AuditAssumption, AuditInv, ops_status
  PROVE  AuditInv'
<1>1. /\ pc = "idle" /\ next_seq' = seed_seq_locked
      /\ UNCHANGED <<segs, dir, max_files, pc, i, acked, world>>
  BY DEF ops_status
<1>2. /\ next_seq' \in 1 .. SeqMax + 1
      /\ \A s \in SeqNos : Holds(Log, SegMax, s) => s < next_seq'
      /\ \A b \in DOMAIN acked[dir] : acked[dir][b] < next_seq'
  BY <1>1, SeedFresh
<1>3. AuditTypeOK'
  <2>1. next_seq' \in 0 .. SeqMax + 1
    BY <1>2, AuditAssumption
  <2>2. QED
    BY <1>1, <2>1 DEF AuditInv, AuditTypeOK
<1>4. Ahead'
  <2>1. next_seq' # 0
    BY <1>2, AuditAssumption
  <2>2. QED
    BY <1>1, <1>2, <2>1 DEF Ahead, Log
<1>5. Turning' /\ Unbroken'
  BY <1>1 DEF AuditInv, Turning, Unbroken
<1>6. Gapless' /\ Latest'
  BY <1>1 DEF AuditInv, Gapless, Latest
<1>7. QED
  BY <1>1, <1>3, <1>4, <1>5, <1>6, FilesStay DEF AuditInv

\* The number of files changes.
LEMMA FilesConfigured ==
  ASSUME AuditAssumption, AuditInv, ConfigureFiles
  PROVE  AuditInv'
<1>1. /\ pc = "idle" /\ world.reconf /\ max_files' \in world.files
      /\ UNCHANGED <<segs, dir, next_seq, pc, i, acked, world>>
  BY DEF ConfigureFiles
<1>2. AuditTypeOK'
  BY <1>1 DEF AuditInv, AuditTypeOK
<1>3. Ahead'
  BY <1>1 DEF AuditInv, Ahead, Log
<1>4. Turning' /\ Unbroken'
  BY <1>1 DEF AuditInv, Turning, Unbroken
<1>5. Gapless' /\ Latest'
  BY <1>1 DEF AuditInv, Gapless, Latest
<1>6. QED
  BY <1>1, <1>2, <1>3, <1>4, <1>5, FilesStay DEF AuditInv

\* The directory changes.
LEMMA PathConfigured ==
  ASSUME AuditAssumption, AuditInv, ConfigurePath
  PROVE  AuditInv'
<1>1. /\ pc = "idle" /\ world.reconf /\ dir' \in Dirs /\ next_seq' = 0
      /\ UNCHANGED <<segs, max_files, pc, i, acked, world>>
  BY DEF ConfigurePath
<1>2. AuditTypeOK'
  BY <1>1, AuditAssumption DEF AuditInv, AuditTypeOK
<1>3. Ahead'
  BY <1>1 DEF Ahead
<1>4. Turning' /\ Unbroken'
  BY <1>1 DEF AuditInv, Turning, Unbroken
<1>5. Gapless' /\ Latest'
  BY <1>1 DEF AuditInv, Gapless, Latest
<1>6. QED
  BY <1>1, <1>2, <1>3, <1>4, <1>5, FilesStay DEF AuditInv

\* The files of one directory change.
LEMMA FilesOf ==
  ASSUME AuditAssumption, AuditTypeOK, NEW g \in [Idx -> Seq(Line)],
         \A k \in Idx : Len(g[k]) <= MaxBytes, segs' = [segs EXCEPT ![dir] = g]
  PROVE  /\ segs' \in [Dirs -> [Idx -> Seq(Line)]]
         /\ \A u \in Dirs, k \in Idx : Len(segs'[u][k]) <= MaxBytes
         /\ segs'[dir] = g /\ \A u \in Dirs : u # dir => segs'[u] = segs[u]
<1>1. dir \in Dirs /\ segs \in [Dirs -> [Idx -> Seq(Line)]]
  BY DEF AuditTypeOK
<1>2. segs'[dir] = g /\ \A u \in Dirs : u # dir => segs'[u] = segs[u]
  BY <1>1
<1>3. segs' \in [Dirs -> [Idx -> Seq(Line)]]
  BY <1>1
<1>4. \A u \in Dirs, k \in Idx : Len(segs'[u][k]) <= MaxBytes
  BY <1>2 DEF AuditTypeOK
<1>5. QED
  BY <1>2, <1>3, <1>4

\* The line is lost on a full disk.
LEMMA LineLost ==
  ASSUME AuditAssumption, AuditInv, AppendWrite, UNCHANGED segs, world.full
  PROVE  AuditInv'
<1>1. /\ pc = "write" /\ pc' = "return" /\ next_seq' = next_seq + 1
      /\ UNCHANGED <<segs, dir, max_files, i, acked, world>>
  BY DEF AppendWrite
<1>2. AuditTypeOK
  BY DEF AuditInv
<1>3. /\ SeqMax \in Nat /\ dir \in Dirs /\ acked[dir] \in Seq(1 .. SeqMax)
      /\ next_seq \in 1 .. SeqMax
  BY <1>1, <1>2, AuditBasics DEF AuditInv, Ahead, AuditTypeOK
<1>4. AuditTypeOK'
  BY <1>1, <1>2, <1>3 DEF AuditTypeOK
<1>5. Ahead'
  <2>1. /\ \A s \in SeqNos : Holds(Log, SegMax, s) => s < next_seq /\ s \in Nat
        /\ \A b \in DOMAIN acked[dir] : acked[dir][b] < next_seq /\ acked[dir][b] \in Nat
    BY <1>3 DEF AuditInv, Ahead, SeqNos
  <2>2. PICK n \in 1 .. SeqMax : n = next_seq
    BY <1>3
  <2>3. next_seq' = n + 1 /\ next_seq' - 1 = n /\ Log' = Log
    BY <1>1, <2>2 DEF Log
  <2>4. /\ \A s \in SeqNos : Holds(Log, SegMax, s) => s < n + 1
        /\ \A b \in DOMAIN acked[dir] : acked[dir][b] < n + 1 /\ acked[dir][b] < n
    BY <1>3, <2>1, <2>2
  <2>5. n + 1 # 0
    OBVIOUS
  <2>6. QED
    BY <1>1, <2>3, <2>4, <2>5 DEF Ahead
<1>6. Turning'
  BY <1>1 DEF Turning
<1>7. Unbroken' /\ Gapless' /\ Latest'
  BY <1>1 DEF Unbroken, Gapless, Latest
<1>8. QED
  BY <1>1, <1>4, <1>5, <1>6, <1>7, FilesStay DEF AuditInv

\* The line reaches the main file, whole or in part.
LEMMA LineKept ==
  ASSUME AuditAssumption, AuditInv, AppendWrite, NEW kind \in Kinds, kind = "good" \/ world.full,
         segs' = [segs EXCEPT ![dir][0] = WithLine(segs[dir][0], kind)]
  PROVE  AuditInv'
<1>1. /\ pc = "write" /\ pc' = "return" /\ next_seq' = next_seq + 1
      /\ UNCHANGED <<dir, max_files, i, acked, world>>
  BY DEF AppendWrite
<1>2. AuditTypeOK
  BY DEF AuditInv
<1>3. /\ SeqMax \in Nat /\ dir \in Dirs /\ SegMax \in Nat /\ SegMax > 0 /\ 0 \in Idx
      /\ Idx \subseteq Nat /\ max_files \in 1 .. SegMax
      /\ \A u \in Dirs : segs[u] \in [Idx -> Seq(Line)] /\ acked[u] \in Seq(1 .. SeqMax)
      /\ \A k \in Idx : Len(segs[dir][k]) <= MaxBytes
  BY <1>2, AuditBasics
<1>4. PICK n \in 1 .. SeqMax : n = next_seq
  BY <1>1, <1>2 DEF AuditInv, Ahead, AuditTypeOK
<1>5. PICK f \in [Idx -> Seq(Line)] : f = segs[dir]
  BY <1>3
<1>6. PICK given \in Seq(1 .. SeqMax) : given = acked[dir]
  BY <1>3
<1>7. /\ Ordered(f) /\ Len(f[0]) < MaxBytes
      /\ \A s \in SeqNos : Holds(f, SegMax, s) => s < n
      /\ \A b \in DOMAIN given : given[b] < n /\ given[b] \in Nat /\ given[b] \in SeqNos
  <2>1. Ordered(f)
    BY <1>3, <1>5 DEF AuditInv
  <2>2. Len(f[0]) < MaxBytes
    BY <1>1, <1>5 DEF AuditInv, Turning, Log
  <2>3. \A s \in SeqNos : Holds(f, SegMax, s) => s < n
    BY <1>4, <1>5 DEF AuditInv, Ahead, Log
  <2>4. \A b \in DOMAIN given : given[b] < n
    BY <1>4, <1>6 DEF AuditInv, Ahead
  <2>5. \A b \in DOMAIN given : given[b] \in Nat /\ given[b] \in SeqNos
    BY <1>3, SMTT(60) DEF SeqNos
  <2>6. QED
    BY <2>1, <2>2, <2>3, <2>4, <2>5
<1>8. PICK new : new = WithLine(f[0], kind)
  OBVIOUS
<1>9. /\ new \in Seq(Line) /\ Len(new) <= MaxBytes /\ new # <<>> /\ Rising(new)
      /\ Has(new, n) /\ \A s : Has(new, s) => s = n \/ Has(f[0], s)
      /\ (\A a \in DOMAIN f[0] : f[0][a].kind = "good") =>
           /\ \A s : Has(f[0], s) => Has(new, s)
           /\ kind = "good" => \A a \in DOMAIN new : new[a].kind = "good"
  <2>1. PICK list \in Seq(Line) : list = f[0]
    BY <1>3
  <2>2. Rising(list) /\ \A s \in SeqNos : Has(list, s) => s < next_seq
    BY <1>3, <1>4, <1>7, <2>1 DEF Ordered, Holds
  <2>3. next_seq \in 1 .. SeqMax /\ new = WithLine(list, kind) /\ Len(list) < MaxBytes
    BY <1>4, <1>7, <1>8, <2>1
  <2>4. QED
    BY <1>4, <2>1, <2>2, <2>3, LineWritten, SMTT(60)
<1>10. PICK g : g = [f EXCEPT ![0] = new]
  OBVIOUS
<1>11. /\ g \in [Idx -> Seq(Line)] /\ g[0] = new /\ \A k \in Idx : k # 0 => g[k] = f[k]
       /\ segs' = [segs EXCEPT ![dir] = g]
  <2>1. g \in [Idx -> Seq(Line)] /\ g[0] = new /\ \A k \in Idx : k # 0 => g[k] = f[k]
    BY <1>3, <1>9, <1>10
  <2>2. segs' = [segs EXCEPT ![dir] = g]
    BY <1>5, <1>8, <1>10
  <2>3. QED
    BY <2>1, <2>2
<1>12. \A k \in Idx : Len(g[k]) <= MaxBytes
  BY <1>3, <1>5, <1>9, <1>11
<1>13. /\ segs' \in [Dirs -> [Idx -> Seq(Line)]]
       /\ \A u \in Dirs, k \in Idx : Len(segs'[u][k]) <= MaxBytes
       /\ segs'[dir] = g /\ \A u \in Dirs : u # dir => segs'[u] = segs[u]
  BY <1>2, <1>11, <1>12, FilesOf
<1>14. /\ \A s : \A k \in Idx : Has(g[k], s) => (k = 0 /\ s = n) \/ Has(f[k], s)
       /\ \A m, s : Holds(g, m, s) => s = n \/ Holds(f, m, s)
       /\ n \in SeqNos /\ n \in Nat /\ Holds(g, 1, n) /\ Holds(g, SegMax, n)
  <2>1. \A s : \A k \in Idx : Has(g[k], s) => (k = 0 /\ s = n) \/ Has(f[k], s)
    BY <1>9, <1>11
  <2>2. \A m, s : Holds(g, m, s) => s = n \/ Holds(f, m, s)
    BY <2>1 DEF Holds
  <2>3. n \in SeqNos /\ n \in Nat
    BY <1>3 DEF SeqNos
  <2>4. Holds(g, 1, n) /\ Holds(g, SegMax, n)
    <3>1. 0 \in Idx /\ 0 < 1 /\ 0 < SegMax
      BY <1>3
    <3>2. Has(g[0], n)
      BY <1>9, <1>11
    <3>3. QED
      BY <3>1, <3>2, Zenon DEF Holds
  <2>5. QED
    BY <2>1, <2>2, <2>3, <2>4
<1>15. AuditTypeOK'
  <2>1. next_seq' \in 0 .. SeqMax + 1
    BY <1>1, <1>3, <1>4, SMTT(60)
  <2>2. QED
    BY <1>1, <1>2, <1>13, <2>1 DEF AuditTypeOK
<1>16. Ordered(g)
  <2>1. \A k \in Idx : Rising(g[k])
    BY <1>7, <1>9, <1>11 DEF Ordered
  <2>2. ASSUME NEW k \in Idx, NEW m \in Idx, k < m, NEW s \in SeqNos, NEW t \in SeqNos,
               Has(g[m], s), Has(g[k], t)
        PROVE  s < t
    <3>1. m # 0 /\ m \in Nat /\ k \in Nat
      BY <1>3, <2>2
    <3>2. Has(f[m], s)
      BY <1>14, <2>2, <3>1
    <3>3. CASE t = n
      <4>1. m < SegMax
        BY <1>3 DEF Idx
      <4>2. Holds(f, SegMax, s)
        BY <3>2, <4>1 DEF Holds
      <4>3. QED
        BY <1>7, <3>3, <4>2
    <3>4. CASE t # n
      <4>1. Has(f[k], t)
        BY <1>14, <2>2, <3>4
      <4>2. QED
        BY <1>7, <2>2, <3>2, <4>1 DEF Ordered
    <3>5. QED
      BY <3>3, <3>4
  <2>3. QED
    BY <2>1, <2>2 DEF Ordered
<1>17. (\A u \in Dirs : Ordered(segs[u]))'
  BY <1>13, <1>16 DEF AuditInv
<1>18. InTurn'
  <2>1. ASSUME NEW u \in Dirs, NEW s \in SeqNos, Holds(segs'[u], SegMax, s) PROVE s <= SeqMax
    <3>1. CASE u = dir
      <4>1. s = n \/ Holds(f, SegMax, s)
        BY <1>13, <1>14, <2>1, <3>1
      <4>2. Holds(f, SegMax, s) => s <= SeqMax
        BY <1>3, <1>5 DEF AuditInv, InTurn
      <4>3. n <= SeqMax
        BY <1>3
      <4>4. QED
        BY <4>1, <4>2, <4>3
    <3>2. CASE u # dir
      BY <1>13, <2>1, <3>2 DEF AuditInv, InTurn
    <3>3. QED
      BY <3>1, <3>2
  <2>2. \A u \in Dirs : \A a, b \in DOMAIN acked[u] : a < b => acked[u][a] < acked[u][b]
    BY DEF AuditInv, InTurn
  <2>3. QED
    BY <1>1, <2>1, <2>2 DEF InTurn
<1>19. Ahead'
  <2>1. Log' = g /\ next_seq' = n + 1 /\ next_seq' - 1 = n /\ n + 1 # 0
    BY <1>1, <1>4, <1>13 DEF Log
  <2>2. \A s \in SeqNos : Holds(g, SegMax, s) => s < n + 1
    <3>1. ASSUME NEW s \in SeqNos, Holds(g, SegMax, s) PROVE s < n + 1
      <4>1. s = n \/ s < n
        BY <1>7, <1>14, <3>1
      <4>2. s \in Nat
        BY <1>3 DEF SeqNos
      <4>3. QED
        BY <1>14, <4>1, <4>2
    <3>2. QED
      BY <3>1
  <2>3. \A b \in DOMAIN given : given[b] < n + 1
    BY <1>7, <1>14
  <2>4. QED
    BY <1>1, <1>6, <1>7, <2>1, <2>2, <2>3 DEF Ahead
<1>20. Turning'
  BY <1>1 DEF Turning
<1>21. Unbroken'
  <2>1. SUFFICES ASSUME ~ world.full
                 PROVE  /\ \A u \in Dirs : \A k \in Idx : \A a \in DOMAIN segs'[u][k] :
                             segs'[u][k][a].kind = "good"
                        /\ Holds(g, 1, n)
    <3>1. Log' = g /\ next_seq' - 1 = n
      BY <1>1, <1>4, <1>13 DEF Log
    <3>2. QED
      BY <1>1, <3>1 DEF Unbroken
  <2>2. \A k \in Idx : \A a \in DOMAIN f[k] : f[k][a].kind = "good"
    BY <1>3, <1>5, <2>1 DEF AuditInv, Unbroken
  <2>3. \A a \in DOMAIN new : new[a].kind = "good"
    BY <1>3, <1>9, <2>1, <2>2
  <2>4. ASSUME NEW k \in Idx PROVE \A a \in DOMAIN g[k] : g[k][a].kind = "good"
    <3>1. g[k] = new \/ g[k] = f[k]
      BY <1>11
    <3>2. QED
      BY <2>2, <2>3, <3>1
  <2>5. ASSUME NEW u \in Dirs, NEW k \in Idx, NEW a \in DOMAIN segs'[u][k]
        PROVE  segs'[u][k][a].kind = "good"
    <3>1. CASE u = dir
      BY <1>13, <2>4, <2>5, <3>1
    <3>2. CASE u # dir
      BY <1>13, <2>1, <2>5, <3>2 DEF AuditInv, Unbroken
    <3>3. QED
      BY <3>1, <3>2
  <2>6. QED
    BY <1>14, <2>5
<1>22. ASSUME ~ world.full PROVE \A s : Holds(f, SegMax, s) => Holds(g, SegMax, s)
  <2>1. \A a \in DOMAIN f[0] : f[0][a].kind = "good"
    BY <1>3, <1>5, <1>22 DEF AuditInv, Unbroken
  <2>2. \A s : \A k \in Idx : Has(f[k], s) => Has(g[k], s)
    BY <1>9, <1>11, <2>1
  <2>3. QED
    BY <2>2 DEF Holds
<1>23. Gapless'
  <2>1. SUFFICES ASSUME ~ world.full, NEW u \in Dirs
                 PROVE  NoGap(segs'[u], SegMax, acked[u])
    BY <1>1 DEF Gapless
  <2>2. NoGap(segs[u], SegMax, acked[u])
    BY <1>1, <2>1 DEF AuditInv, Gapless
  <2>3. CASE u # dir
    BY <1>13, <2>2, <2>3
  <2>4. CASE u = dir
    <3>1. ASSUME NEW b \in DOMAIN given, NEW s \in SeqNos, Holds(g, SegMax, s), s <= given[b]
          PROVE  Holds(g, SegMax, given[b])
      <4>1. s # n
        BY <1>7, <1>14, <3>1
      <4>2. Holds(f, SegMax, s)
        BY <1>14, <3>1, <4>1
      <4>3. Holds(f, SegMax, given[b])
        BY <1>5, <1>6, <2>2, <2>4, <3>1, <4>2 DEF NoGap
      <4>4. QED
        BY <1>22, <2>1, <4>3
    <3>2. QED
      BY <1>6, <1>13, <2>4, <3>1 DEF NoGap
  <2>5. QED
    BY <2>3, <2>4
<1>24. Latest'
  <2>1. SUFFICES ASSUME ~ world.full, NEW u \in Dirs
                 PROVE  Newest(segs'[u], acked[u])
    BY <1>1 DEF Latest
  <2>2. CASE u # dir
    BY <1>13, <2>1, <2>2 DEF AuditInv, Latest
  <2>3. CASE u = dir
    <3>1. ASSUME given # <<>> PROVE n >= given[Len(given)]
      <4>1. Len(given) \in DOMAIN given
        BY <3>1
      <4>2. QED
        BY <1>7, <1>14, <4>1
    <3>2. QED
      BY <1>6, <1>13, <1>14, <2>3, <3>1 DEF Newest
  <2>4. QED
    BY <2>2, <2>3
<1>25. TopFilled'
  <2>1. g[0] # <<>>
    BY <1>9, <1>11
  <2>2. QED
    BY <1>1, <1>13, <2>1 DEF AuditInv, TopFilled
<1>26. Trimmed'
  <2>1. SUFFICES ASSUME ~ world.reconf, NEW u \in Dirs, NEW k \in Idx, k >= max_files
                 PROVE  segs'[u][k] = <<>>
    BY <1>1 DEF Trimmed
  <2>2. segs[u][k] = <<>> /\ k # 0
    BY <1>3, <2>1 DEF AuditInv, Trimmed
  <2>3. QED
    BY <1>5, <1>11, <1>13, <2>1, <2>2
<1>27. SafeWorld(world)'
  BY <1>1 DEF AuditInv
<1>28. QED
  BY <1>15, <1>17, <1>18, <1>19, <1>20, <1>21, <1>23, <1>24, <1>25, <1>26, <1>27 DEF AuditInv

\* The only file is emptied.
LEMMA OneFileEmptied ==
  ASSUME AuditAssumption, AuditInv, rotate_locked, max_files = 1
  PROVE  AuditInv'
<1>1. /\ pc = "rotate" /\ pc' = "write" /\ i' = 0
      /\ segs' = [segs EXCEPT ![dir][0] = <<>>]
      /\ UNCHANGED <<dir, max_files, next_seq, acked, world>>
  BY DEF rotate_locked
<1>2. AuditTypeOK
  BY DEF AuditInv
<1>3. /\ SegMax \in Nat /\ SegMax > 0 /\ 0 \in Idx /\ dir \in Dirs /\ MaxBytes \in Nat /\ MaxBytes > 0
      /\ \A u \in Dirs : segs[u] \in [Idx -> Seq(Line)]
  BY <1>2, AuditBasics
<1>4. ~ world.crash /\ ~ world.reconf
  BY <1>2 DEF AuditInv, SafeWorld, AuditTypeOK
<1>5. \A k \in Idx : k # 0 => segs[dir][k] = <<>>
  <2>1. \A k \in Idx : k # 0 => k >= 1
    BY <1>3 DEF Idx
  <2>2. QED
    BY <1>3, <1>4, <2>1 DEF AuditInv, Trimmed
<1>6. PICK g : g = [k \in Idx |-> <<>>]
  OBVIOUS
<1>7. /\ g \in [Idx -> Seq(Line)] /\ \A k \in Idx : g[k] = <<>> /\ Len(g[k]) <= MaxBytes
      /\ segs' = [segs EXCEPT ![dir] = g]
  <2>1. \A k \in Idx : g[k] = <<>>
    BY <1>6
  <2>2. [segs[dir] EXCEPT ![0] = <<>>] = g
    BY <1>3, <1>5, <1>6
  <2>3. g \in [Idx -> Seq(Line)] /\ \A k \in Idx : Len(g[k]) <= MaxBytes
    BY <1>3, <1>6
  <2>4. QED
    BY <1>1, <2>1, <2>2, <2>3
<1>8. /\ segs' \in [Dirs -> [Idx -> Seq(Line)]]
      /\ \A u \in Dirs, k \in Idx : Len(segs'[u][k]) <= MaxBytes
      /\ segs'[dir] = g /\ \A u \in Dirs : u # dir => segs'[u] = segs[u]
  BY <1>2, <1>7, FilesOf
<1>9. \A m, s : ~ Holds(g, m, s)
  BY <1>7 DEF Holds, Has
<1>10. AuditTypeOK'
  <2>1. i' \in 0 .. SegMax
    BY <1>1, <1>3
  <2>2. QED
    BY <1>1, <1>2, <1>8, <2>1 DEF AuditTypeOK
<1>11. (\A u \in Dirs : Ordered(segs[u]))'
  <2>1. Ordered(g)
    BY <1>7 DEF Ordered, Rising, Has
  <2>2. QED
    BY <1>8, <2>1 DEF AuditInv
<1>12. InTurn'
  <2>1. ASSUME NEW u \in Dirs, NEW s \in SeqNos, Holds(segs'[u], SegMax, s) PROVE s <= SeqMax
    <3>1. CASE u = dir
      BY <1>8, <1>9, <2>1, <3>1
    <3>2. CASE u # dir
      BY <1>8, <2>1, <3>2 DEF AuditInv, InTurn
    <3>3. QED
      BY <3>1, <3>2
  <2>2. \A u \in Dirs : \A a, b \in DOMAIN acked[u] : a < b => acked[u][a] < acked[u][b]
    BY DEF AuditInv, InTurn
  <2>3. QED
    BY <1>1, <2>1, <2>2 DEF InTurn
<1>13. Ahead'
  <2>1. Log' = g
    BY <1>1, <1>8 DEF Log
  <2>2. QED
    BY <1>1, <1>9, <2>1 DEF AuditInv, Ahead
<1>14. Turning'
  <2>1. Log' = g /\ g[0] = <<>>
    BY <1>1, <1>3, <1>7, <1>8 DEF Log
  <2>2. Len(g[0]) < MaxBytes
    BY <1>3, <2>1
  <2>3. QED
    BY <1>1, <2>1, <2>2 DEF Turning
<1>15. Unbroken'
  <2>1. ASSUME ~ world.full, NEW u \in Dirs, NEW k \in Idx, NEW a \in DOMAIN segs'[u][k]
        PROVE  segs'[u][k][a].kind = "good"
    <3>1. CASE u = dir
      BY <1>7, <1>8, <2>1, <3>1
    <3>2. CASE u # dir
      BY <1>8, <2>1, <3>2 DEF AuditInv, Unbroken
    <3>3. QED
      BY <3>1, <3>2
  <2>2. QED
    BY <1>1, <2>1 DEF Unbroken
<1>16. Gapless'
  <2>1. SUFFICES ASSUME ~ world.full, NEW u \in Dirs
                 PROVE  NoGap(segs'[u], SegMax, acked[u])
    BY <1>1 DEF Gapless
  <2>2. CASE u = dir
    BY <1>8, <1>9, <2>2 DEF NoGap
  <2>3. CASE u # dir
    BY <1>8, <2>1, <2>3 DEF AuditInv, Gapless
  <2>4. QED
    BY <2>2, <2>3
<1>17. Latest'
  BY <1>1, <1>8 DEF AuditInv, Latest
<1>18. TopFilled'
  BY <1>1, <1>4 DEF TopFilled
<1>19. Trimmed'
  <2>1. SUFFICES ASSUME NEW u \in Dirs, NEW k \in Idx, k >= max_files
                 PROVE  segs'[u][k] = <<>>
    BY <1>1 DEF Trimmed
  <2>2. CASE u = dir
    BY <1>7, <1>8, <2>2
  <2>3. CASE u # dir
    BY <1>4, <1>8, <2>1, <2>3 DEF AuditInv, Trimmed
  <2>4. QED
    BY <2>2, <2>3
<1>20. SafeWorld(world)'
  BY <1>1 DEF AuditInv
<1>21. QED
  BY <1>10, <1>11, <1>12, <1>13, <1>14, <1>15, <1>16, <1>17, <1>18, <1>19, <1>20 DEF AuditInv

\* What rotating and cleaning have in common: the files g of the directory hold no
\* number the old ones did not hold.
LEMMA FilesTurn ==
  ASSUME AuditAssumption, AuditInv, NEW g \in [Idx -> Seq(Line)],
         \A k \in Idx : g[k] = <<>> \/ \E j \in Idx : g[k] = segs[dir][j],
         segs' = [segs EXCEPT ![dir] = g], Ordered(g),
         \A s : Holds(g, SegMax, s) => Holds(segs[dir], SegMax, s),
         pc \in {"rotate", "clean"}, pc' \in {"rotate", "clean", "write"}, max_files > 1,
         UNCHANGED <<dir, max_files, next_seq, acked, world>>, i' \in 0 .. SegMax,
         \A k \in Idx : k >= max_files /\ segs[dir][k] = <<>> => g[k] = <<>>,
         g[0] # <<>> \/ g[1] # <<>>,
         ~ world.full =>
           /\ NoGap(g, IF pc' = "write" THEN SegMax ELSE max_files, acked[dir])
           /\ Newest(g, acked[dir]),
         Turning'
  PROVE  AuditInv'
<1>1. AuditTypeOK
  BY DEF AuditInv
<1>2. /\ MaxBytes \in Nat /\ dir \in Dirs /\ segs[dir] \in [Idx -> Seq(Line)]
      /\ \A k \in Idx : Len(segs[dir][k]) <= MaxBytes
  BY <1>1, AuditBasics
<1>3. \A k \in Idx : Len(g[k]) <= MaxBytes
  <2>1. Len(<<>>) = 0
    OBVIOUS
  <2>2. QED
    BY <1>2, <2>1
<1>4. /\ segs' \in [Dirs -> [Idx -> Seq(Line)]]
      /\ \A u \in Dirs, k \in Idx : Len(segs'[u][k]) <= MaxBytes
      /\ segs'[dir] = g /\ \A u \in Dirs : u # dir => segs'[u] = segs[u]
  BY <1>1, <1>3, FilesOf
<1>5. AuditTypeOK'
  <2>1. pc' \in {"idle", "rotate", "clean", "write", "return"}
    OBVIOUS
  <2>2. QED
    BY <1>1, <1>4, <2>1 DEF AuditTypeOK
<1>6. (\A u \in Dirs : Ordered(segs[u]))'
  BY <1>4 DEF AuditInv
<1>7. InTurn'
  <2>1. ASSUME NEW u \in Dirs, NEW s \in SeqNos, Holds(segs'[u], SegMax, s) PROVE s <= SeqMax
    <3>1. Holds(segs[u], SegMax, s)
      BY <1>4, <2>1
    <3>2. QED
      BY <2>1, <3>1 DEF AuditInv, InTurn
  <2>2. \A u \in Dirs : \A a, b \in DOMAIN acked[u] : a < b => acked[u][a] < acked[u][b]
    BY DEF AuditInv, InTurn
  <2>3. QED
    BY <2>1, <2>2 DEF InTurn
<1>8. Ahead'
  <2>1. Log' = g
    BY <1>4 DEF Log
  <2>2. pc # "idle" /\ pc \in {"rotate", "clean", "write"}
    OBVIOUS
  <2>3. next_seq # 0 /\ next_seq <= SeqMax
    BY <2>2 DEF AuditInv, Ahead
  <2>4. /\ \A s \in SeqNos : Holds(g, SegMax, s) => s < next_seq
        /\ \A b \in DOMAIN acked[dir] : acked[dir][b] < next_seq
    BY <2>3 DEF AuditInv, Ahead, Log
  <2>5. pc' # "return"
    OBVIOUS
  <2>6. QED
    BY <2>1, <2>3, <2>4, <2>5 DEF Ahead
<1>9. Unbroken'
  <2>1. ASSUME ~ world.full, NEW u \in Dirs, NEW k \in Idx, NEW a \in DOMAIN segs'[u][k]
        PROVE  segs'[u][k][a].kind = "good"
    <3>1. CASE u = dir
      <4>1. g[k] # <<>>
        BY <1>4, <2>1, <3>1
      <4>2. PICK j \in Idx : g[k] = segs[dir][j]
        BY <4>1
      <4>3. QED
        BY <1>2, <1>4, <2>1, <3>1, <4>2 DEF AuditInv, Unbroken
    <3>2. CASE u # dir
      BY <1>4, <2>1, <3>2 DEF AuditInv, Unbroken
    <3>3. QED
      BY <3>1, <3>2
  <2>2. pc' # "return"
    OBVIOUS
  <2>3. QED
    BY <2>1, <2>2 DEF Unbroken
<1>10. Gapless'
  <2>1. SUFFICES ASSUME ~ world.full, NEW u \in Dirs
                 PROVE  NoGap(segs'[u], IF u = dir /\ pc' \in {"rotate", "clean"} THEN max_files
                                        ELSE SegMax, acked[u])
    BY DEF Gapless
  <2>2. CASE u = dir
    <3>1. pc' = "write" <=> pc' \notin {"rotate", "clean"}
      OBVIOUS
    <3>2. QED
      BY <1>4, <2>1, <2>2, <3>1
  <2>3. CASE u # dir
    <3>1. NoGap(segs[u], SegMax, acked[u])
      BY <2>1, <2>3 DEF AuditInv, Gapless
    <3>2. QED
      BY <1>4, <2>3, <3>1
  <2>4. QED
    BY <2>2, <2>3
<1>11. Latest'
  <2>1. SUFFICES ASSUME ~ world.full, NEW u \in Dirs PROVE Newest(segs'[u], acked[u])
    BY DEF Latest
  <2>2. CASE u = dir
    BY <1>4, <2>1, <2>2
  <2>3. CASE u # dir
    BY <1>4, <2>1, <2>3 DEF AuditInv, Latest
  <2>4. QED
    BY <2>2, <2>3
<1>12. TopFilled'
  BY <1>4 DEF AuditInv, TopFilled
<1>13. Trimmed'
  BY <1>4 DEF AuditInv, Trimmed
<1>14. SafeWorld(world)'
  BY DEF AuditInv
<1>15. QED
  BY <1>5, <1>6, <1>7, <1>8, <1>9, <1>10, <1>11, <1>12, <1>13, <1>14 DEF AuditInv

\* The files above the last are removed.
LEMMA FilesCleaned ==
  ASSUME AuditAssumption, AuditInv, RotateClean
  PROVE  AuditInv'
<1>1. /\ pc = "clean" /\ pc' = "write"
      /\ segs' = [segs EXCEPT ![dir] =
                    [k \in Idx |-> IF k < max_files THEN segs[dir][k] ELSE <<>>]]
      /\ UNCHANGED <<dir, max_files, next_seq, i, acked, world>>
  BY DEF RotateClean, AuditInv, AuditTypeOK
<1>2. AuditTypeOK
  BY DEF AuditInv
<1>3. /\ SegMax \in Nat /\ SegMax > 0 /\ dir \in Dirs /\ MaxBytes \in Nat /\ MaxBytes > 0
      /\ max_files \in 1 .. SegMax /\ Idx \subseteq Nat /\ SeqMax \in Nat
      /\ \A u \in Dirs : segs[u] \in [Idx -> Seq(Line)] /\ acked[u] \in Seq(1 .. SeqMax)
  BY <1>2, AuditBasics
<1>4. PICK f \in [Idx -> Seq(Line)] : f = segs[dir]
  BY <1>3
<1>5. PICK given \in Seq(1 .. SeqMax) : given = acked[dir]
  BY <1>3
<1>6. max_files > 1 /\ f[0] = <<>> /\ f[1] # <<>> /\ Ordered(f)
  BY <1>1, <1>3, <1>4 DEF AuditInv, Turning, Log
<1>7. 0 \in Idx /\ 1 \in Idx
  BY <1>3, <1>6 DEF Idx
<1>8. PICK g : g = [k \in Idx |-> IF k < max_files THEN f[k] ELSE <<>>]
  OBVIOUS
<1>9. /\ g \in [Idx -> Seq(Line)] /\ segs' = [segs EXCEPT ![dir] = g]
      /\ \A k \in Idx : g[k] = IF k < max_files THEN f[k] ELSE <<>>
  <2>1. \A k \in Idx : g[k] = IF k < max_files THEN f[k] ELSE <<>>
    BY <1>8
  <2>2. g \in [Idx -> Seq(Line)]
    BY <1>8
  <2>3. QED
    BY <1>1, <1>4, <1>8, <2>1, <2>2
<1>10. Ordered(g) /\ \A n, s : Holds(g, n, s) => Holds(f, n, s)
  <2>1. \A k \in Idx : g[k] = f[k] \/ g[k] = <<>>
    BY <1>9
  <2>2. QED
    BY <1>6, <1>9, <2>1, FilesEmptied
<1>11. \A s : Holds(g, SegMax, s) <=> Holds(f, max_files, s)
  <2>1. \A t : ~ Has(<<>>, t)
    BY DEF Has
  <2>2. \A k \in Idx : k < SegMax
    BY <1>3 DEF Idx
  <2>3. QED
    BY <1>9, <2>1, <2>2 DEF Holds
<1>12. ASSUME ~ world.full PROVE NoGap(g, SegMax, given) /\ Newest(g, given)
  <2>1. NoGap(f, max_files, given)
    BY <1>1, <1>3, <1>4, <1>5, <1>12 DEF AuditInv, Gapless
  <2>2. NoGap(g, SegMax, given)
    BY <1>11, <2>1 DEF NoGap
  <2>3. Newest(f, given)
    BY <1>1, <1>3, <1>4, <1>5, <1>12 DEF AuditInv, Latest
  <2>4. ASSUME given # <<>> PROVE \E s \in SeqNos : Holds(g, SegMax, s) /\ s >= given[Len(given)]
    <3>1. PICK s \in SeqNos : Holds(f, SegMax, s) /\ s >= given[Len(given)]
      BY <2>3, <2>4 DEF Newest
    <3>2. PICK k \in Idx : Has(f[k], s)
      BY <3>1 DEF Holds
    <3>3. CASE k < max_files
      BY <1>11, <3>1, <3>2, <3>3 DEF Holds
    <3>4. CASE ~ (k < max_files)
      <4>1. 1 < k
        BY <1>3, <1>6, <3>4
      <4>2. PICK t \in SeqNos : Has(f[1], t) /\ s < t
        BY <1>6, <1>7, <3>2, <4>1, Younger
      <4>3. Holds(g, SegMax, t)
        BY <1>6, <1>7, <1>11, <4>2 DEF Holds
      <4>4. given[Len(given)] \in Nat /\ s \in Nat /\ t \in Nat
        <5>1. Len(given) \in DOMAIN given
          BY <2>4
        <5>2. QED
          BY <1>3, <5>1 DEF SeqNos
      <4>5. t >= given[Len(given)]
        BY <3>1, <4>2, <4>4
      <4>6. QED
        BY <4>3, <4>5
    <3>5. QED
      BY <3>3, <3>4
  <2>5. QED
    BY <2>2, <2>4 DEF Newest
<1>13. Turning'
  <2>1. segs'[dir] = g /\ g[0] = <<>>
    BY <1>2, <1>3, <1>6, <1>7, <1>9 DEF AuditTypeOK
  <2>2. Len(g[0]) < MaxBytes
    BY <1>3, <2>1
  <2>3. QED
    BY <1>1, <2>1, <2>2 DEF Turning, Log
<1>14. QED
  <2>1. \A k \in Idx : g[k] = <<>> \/ \E j \in Idx : g[k] = segs[dir][j]
    BY <1>4, <1>9
  <2>2. \A s : Holds(g, SegMax, s) => Holds(segs[dir], SegMax, s)
    BY <1>4, <1>10
  <2>3. pc \in {"rotate", "clean"} /\ pc' \in {"rotate", "clean", "write"} /\ i' \in 0 .. SegMax
    BY <1>1, <1>2 DEF AuditTypeOK
  <2>4. \A k \in Idx : k >= max_files /\ segs[dir][k] = <<>> => g[k] = <<>>
    BY <1>4, <1>9
  <2>5. g[0] # <<>> \/ g[1] # <<>>
    BY <1>6, <1>7, <1>9
  <2>6. ~ world.full =>
           /\ NoGap(g, IF pc' = "write" THEN SegMax ELSE max_files, acked[dir])
           /\ Newest(g, acked[dir])
    BY <1>1, <1>5, <1>12
  <2>7. QED
    BY <1>1, <1>6, <1>9, <1>10, <1>13, <2>1, <2>2, <2>3, <2>4, <2>5, <2>6, FilesTurn

\* One file is renamed to the next older one.
LEMMA FileRenamed ==
  ASSUME AuditAssumption, AuditInv, rotate_locked, max_files # 1
  PROVE  AuditInv'
<1>1. /\ pc = "rotate" /\ max_files > 1 /\ i' = i - 1
      /\ pc' = IF i = 1 THEN "clean" ELSE "rotate"
      /\ segs' = IF Log[i - 1] = <<>> THEN segs
                 ELSE [segs EXCEPT ![dir][i] = Log[i - 1], ![dir][i - 1] = <<>>]
      /\ UNCHANGED <<dir, max_files, next_seq, acked, world>>
  BY DEF rotate_locked
<1>2. AuditTypeOK
  BY DEF AuditInv
<1>3. /\ SegMax \in Nat /\ SegMax > 0 /\ dir \in Dirs /\ MaxBytes \in Nat /\ SeqMax \in Nat
      /\ max_files \in 1 .. SegMax /\ Idx \subseteq Nat /\ 0 \in Idx
      /\ \A u \in Dirs : segs[u] \in [Idx -> Seq(Line)] /\ acked[u] \in Seq(1 .. SeqMax)
  BY <1>2, AuditBasics
<1>4. PICK f \in [Idx -> Seq(Line)] : f = segs[dir]
  BY <1>3
<1>5. PICK given \in Seq(1 .. SeqMax) : given = acked[dir]
  BY <1>3
<1>6. /\ Ordered(f) /\ f[0] # <<>>
      /\ i \in 1 .. max_files - 1 /\ (i < max_files - 1 => f[i] = <<>>)
  BY <1>1, <1>3, <1>4 DEF AuditInv, Turning, Log
<1>7. /\ i \in Idx /\ i > 0 /\ i - 1 \in Idx /\ i \in Nat /\ i - 1 \in Nat /\ i # i - 1
      /\ max_files - 1 \in Idx /\ 1 \in Idx
  BY <1>3, <1>6, SMTT(60) DEF Idx
<1>8. PICK g : g = IF f[i - 1] = <<>> THEN f ELSE [f EXCEPT ![i] = f[i - 1], ![i - 1] = <<>>]
  OBVIOUS
<1>9. /\ g \in [Idx -> Seq(Line)] /\ Ordered(g)
      /\ \A n \in Nat : \A s : Holds(g, n, s) => Holds(f, n, s)
      /\ \A k \in Idx : k # i /\ k # i - 1 => g[k] = f[k]
      /\ g[i - 1] = <<>> /\ (f[i - 1] # <<>> => g[i] = f[i - 1]) /\ (f[i - 1] = <<>> => g = f)
  <2>1. CASE f[i - 1] = <<>>
    BY <1>6, <1>8, <2>1
  <2>2. CASE f[i - 1] # <<>>
    <3>1. PICK j \in Idx : j = i
      BY <1>7
    <3>2. j > 0 /\ g = Renamed(f, j)
      BY <1>7, <1>8, <2>2, <3>1 DEF Renamed
    <3>3. /\ g \in [Idx -> Seq(Line)] /\ Ordered(g) /\ g[j] = f[j - 1] /\ g[j - 1] = <<>>
          /\ \A k \in Idx : k # j /\ k # j - 1 => g[k] = f[k]
          /\ \A n \in Nat : \A s : Holds(g, n, s) => Holds(f, n, s)
      BY <1>6, <3>2, MovedOn
    <3>4. QED
      BY <2>2, <3>1, <3>3
  <2>3. QED
    BY <2>1, <2>2
<1>10. segs' = [segs EXCEPT ![dir] = g]
  <2>1. CASE f[i - 1] = <<>>
    <3>1. segs' = segs /\ g = segs[dir]
      BY <1>1, <1>4, <1>8, <2>1 DEF Log
    <3>2. QED
      BY <1>2, <3>1 DEF AuditTypeOK
  <2>2. CASE f[i - 1] # <<>>
    <3>1. segs' = [segs EXCEPT ![dir][i] = f[i - 1], ![dir][i - 1] = <<>>]
      BY <1>1, <1>4, <2>2 DEF Log
    <3>2. g = [segs[dir] EXCEPT ![i] = f[i - 1], ![i - 1] = <<>>]
      BY <1>4, <1>8, <2>2
    <3>3. QED
      BY <1>2, <1>3, <3>1, <3>2 DEF AuditTypeOK
  <2>3. QED
    BY <2>1, <2>2
<1>11. segs'[dir] = g
  BY <1>2, <1>3, <1>10 DEF AuditTypeOK
\* What is dropped is the oldest file.
<1>12. ASSUME NEW n \in Nat, NEW s, Holds(f, n, s), ~ Holds(g, n, s), max_files <= n
       PROVE  i = max_files - 1 /\ Has(f[i], s) /\ f[i - 1] # <<>>
  <2>1. PICK k \in Idx : k < n /\ Has(f[k], s)
    BY <1>12 DEF Holds
  <2>2. ~ Has(g[k], s)
    BY <1>12, <2>1 DEF Holds
  <2>3. f[k] # <<>>
    BY <2>1 DEF Has
  <2>4. k = i \/ k = i - 1
    BY <1>9, <2>1, <2>2
  <2>5. f[i - 1] # <<>>
    BY <1>9, <2>1, <2>2
  <2>6. k # i - 1
    <3>1. SUFFICES ASSUME k = i - 1 PROVE FALSE
      OBVIOUS
    <3>2. Has(g[i], s)
      BY <1>9, <2>1, <2>5, <3>1
    <3>3. i < n
      BY <1>3, <1>6, <1>12
    <3>4. QED
      BY <1>7, <1>12, <3>2, <3>3 DEF Holds
  <2>7. k = i
    BY <2>4, <2>6
  <2>8. i = max_files - 1
    BY <1>3, <1>6, <2>3, <2>7
  <2>9. QED
    BY <2>1, <2>5, <2>7, <2>8
<1>13. ASSUME ~ world.full PROVE NoGap(g, max_files, given) /\ Newest(g, given)
  <2>1. NoGap(f, max_files, given)
    BY <1>1, <1>3, <1>4, <1>5, <1>13 DEF AuditInv, Gapless
  <2>2. Newest(f, given)
    BY <1>1, <1>3, <1>4, <1>5, <1>13 DEF AuditInv, Latest
  <2>3. ASSUME NEW b \in DOMAIN given, NEW s \in SeqNos, Holds(g, max_files, s), s <= given[b]
        PROVE  Holds(g, max_files, given[b])
    <3>1. SUFFICES ASSUME ~ Holds(g, max_files, given[b]) PROVE FALSE
      OBVIOUS
    <3>2. max_files \in Nat /\ max_files <= max_files
      BY <1>3
    <3>3. Holds(f, max_files, s)
      BY <1>9, <2>3, <3>2
    <3>4. Holds(f, max_files, given[b])
      BY <2>1, <2>3, <3>3 DEF NoGap
    <3>5. i = max_files - 1 /\ Has(f[i], given[b]) /\ f[i - 1] # <<>>
      BY <1>12, <3>1, <3>2, <3>4
    <3>6. PICK k \in Idx : k < max_files /\ Has(g[k], s)
      BY <2>3 DEF Holds
    <3>7. PICK j \in Idx : j < i /\ Has(f[j], s)
      <4>1. CASE k = i
        <5>1. Has(f[i - 1], s)
          BY <1>9, <3>5, <3>6, <4>1
        <5>2. i - 1 < i
          BY <1>7
        <5>3. QED
          BY <1>7, <5>1, <5>2
      <4>2. CASE k # i
        <5>1. k # i - 1
          BY <1>9, <3>6 DEF Has
        <5>2. Has(f[k], s)
          BY <1>9, <3>6, <4>2, <5>1
        <5>3. k < i
          <6>1. k \in Nat /\ i \in Nat /\ max_files \in Nat
            BY <1>3, <1>7, <3>2, <3>6
          <6>2. i = max_files - 1 /\ k < max_files /\ k # i
            BY <3>5, <3>6, <4>2
          <6>3. QED
            BY <6>1, <6>2
        <5>4. QED
          BY <5>2, <5>3
      <4>3. QED
        BY <4>1, <4>2
    <3>8. given[b] \in SeqNos /\ given[b] \in Nat /\ s \in Nat
      BY <1>3, SMTT(60) DEF SeqNos
    <3>9. given[b] < s
      BY <1>6, <1>7, <3>5, <3>7, <3>8 DEF Ordered
    <3>10. QED
      BY <2>3, <3>8, <3>9
  <2>4. ASSUME given # <<>> PROVE \E s \in SeqNos : Holds(g, SegMax, s) /\ s >= given[Len(given)]
    <3>1. PICK s \in SeqNos : Holds(f, SegMax, s) /\ s >= given[Len(given)]
      BY <2>2, <2>4 DEF Newest
    <3>2. CASE Holds(g, SegMax, s)
      BY <3>1, <3>2
    <3>3. CASE ~ Holds(g, SegMax, s)
      <4>1. i = max_files - 1 /\ Has(f[i], s) /\ f[i - 1] # <<>>
        BY <1>3, <1>12, <3>1, <3>3
      <4>2. i - 1 < i
        BY <1>7
      <4>3. PICK t \in SeqNos : Has(f[i - 1], t) /\ s < t
        BY <1>6, <1>7, <4>1, <4>2, Younger
      <4>4. i < SegMax
        BY <1>3, <1>6
      <4>5. Holds(g, SegMax, t)
        BY <1>7, <1>9, <4>1, <4>3, <4>4 DEF Holds
      <4>6. given[Len(given)] \in Nat /\ s \in Nat /\ t \in Nat
        <5>1. Len(given) \in DOMAIN given
          BY <2>4
        <5>2. QED
          BY <1>3, <5>1 DEF SeqNos
      <4>7. t >= given[Len(given)]
        BY <3>1, <4>3, <4>6
      <4>8. QED
        BY <4>5, <4>7
    <3>4. QED
      BY <3>2, <3>3
  <2>5. QED
    BY <2>3, <2>4 DEF NoGap, Newest
<1>14. IF i = 1 THEN g[0] = <<>> /\ g[1] # <<>> ELSE g[0] # <<>>
  <2>1. CASE i = 1
    <3>1. i - 1 = 0
      BY <2>1
    <3>2. QED
      BY <1>6, <1>9, <2>1, <3>1
  <2>2. CASE i # 1
    <3>1. 0 # i /\ 0 # i - 1
      BY <1>6, <2>2
    <3>2. g[0] = f[0]
      BY <1>3, <1>9, <3>1
    <3>3. QED
      BY <1>6, <2>2, <3>2
  <2>3. QED
    BY <2>1, <2>2
<1>15. Turning'
  <2>1. CASE i = 1
    <3>1. pc' = "clean" /\ Log' = g /\ g[0] = <<>> /\ g[1] # <<>>
      BY <1>1, <1>11, <1>14, <2>1 DEF Log
    <3>2. QED
      BY <1>1, <3>1 DEF Turning
  <2>2. CASE i # 1
    <3>1. pc' = "rotate" /\ Log' = g /\ g[0] # <<>>
      BY <1>1, <1>11, <1>14, <2>2 DEF Log
    <3>2. i - 1 \in 1 .. max_files - 1
      BY <1>3, <1>6, <2>2
    <3>3. g[i - 1] = <<>>
      BY <1>9
    <3>4. QED
      BY <1>1, <3>1, <3>2, <3>3 DEF Turning
  <2>3. QED
    BY <2>1, <2>2
<1>16. QED
  <2>1. \A k \in Idx : g[k] = <<>> \/ \E j \in Idx : g[k] = segs[dir][j]
    <3>1. \A k \in Idx : k = i \/ k = i - 1 \/ g[k] = f[k]
      BY <1>9
    <3>2. g[i] = f[i - 1] \/ g[i] = f[i]
      BY <1>9
    <3>3. QED
      BY <1>4, <1>7, <1>9, <3>1, <3>2
  <2>2. \A s : Holds(g, SegMax, s) => Holds(segs[dir], SegMax, s)
    BY <1>3, <1>4, <1>9
  <2>3. pc \in {"rotate", "clean"} /\ pc' \in {"rotate", "clean", "write"} /\ i' \in 0 .. SegMax
    BY <1>1, <1>3, <1>6, SMTT(60)
  <2>4. \A k \in Idx : k >= max_files /\ segs[dir][k] = <<>> => g[k] = <<>>
    <3>1. \A k \in Idx : k >= max_files => k # i /\ k # i - 1
      BY <1>3, <1>6
    <3>2. QED
      BY <1>4, <1>9, <3>1
  <2>5. g[0] # <<>> \/ g[1] # <<>>
    BY <1>14
  <2>6. ~ world.full =>
           /\ NoGap(g, IF pc' = "write" THEN SegMax ELSE max_files, acked[dir])
           /\ Newest(g, acked[dir])
    BY <1>1, <1>5, <1>13
  <2>7. QED
    BY <1>1, <1>9, <1>10, <1>15, <2>1, <2>2, <2>3, <2>4, <2>5, <2>6, FilesTurn

\* The invariant is kept by every step.
LEMMA AuditSteps ==
  ASSUME AuditAssumption, AuditInv, [AuditNext]_auditVars
  PROVE  AuditInv'
<1>1. CASE ops_append
  BY <1>1, AppendStarts
<1>2. CASE rotate_locked
  BY <1>2, OneFileEmptied, FileRenamed
<1>3. CASE RotateClean
  BY <1>3, FilesCleaned
<1>4. CASE AppendWrite
  <2>1. CASE segs' = [segs EXCEPT ![dir][0] = WithLine(segs[dir][0], "good")]
    <3>1. "good" \in Kinds
      BY DEF Kinds
    <3>2. QED
      BY <1>4, <2>1, <3>1, LineKept
  <2>2. CASE world.full /\ UNCHANGED segs
    BY <1>4, <2>2, LineLost
  <2>3. ASSUME world.full, NEW kind \in {"cut", "short"},
               segs' = [segs EXCEPT ![dir][0] = WithLine(segs[dir][0], kind)]
        PROVE  AuditInv'
    <3>1. kind \in Kinds
      BY <2>3 DEF Kinds
    <3>2. QED
      BY <1>4, <2>3, <3>1, LineKept
  <2>4. QED
    <3>1. AuditTypeOK
      BY DEF AuditInv
    <3>2. dir \in Dirs /\ 0 \in Idx /\ segs \in [Dirs -> [Idx -> Seq(Line)]]
      BY <3>1, AuditBasics DEF AuditTypeOK
    <3>3. QED
      BY <1>4, <2>1, <2>2, <2>3, <3>2 DEF AppendWrite
<1>5. CASE AppendReturn
  BY <1>5, AppendReports
<1>6. CASE AppendError
  BY <1>6, AppendFails
<1>7. CASE ops_status
  BY <1>7, StatusAsked
<1>8. CASE ConfigureFiles
  BY <1>8, FilesConfigured
<1>9. CASE ConfigurePath
  BY <1>9, PathConfigured
<1>10. CASE AuditCrash
  BY <1>10, AuditRestarts
<1>11. CASE UNCHANGED auditVars
  <2>1. UNCHANGED <<segs, dir, max_files, next_seq, pc, i, acked, world>>
    BY <1>11 DEF auditVars
  <2>2. AuditTypeOK'
    BY <2>1 DEF AuditInv, AuditTypeOK
  <2>3. Ahead' /\ Turning'
    BY <2>1 DEF AuditInv, Ahead, Turning, Log
  <2>4. Unbroken' /\ Gapless' /\ Latest'
    BY <2>1 DEF AuditInv, Unbroken, Gapless, Latest, Log
  <2>5. QED
    BY <2>1, <2>2, <2>3, <2>4, FilesStay DEF AuditInv
<1>12. QED
  BY <1>1, <1>2, <1>3, <1>4, <1>5, <1>6, <1>7, <1>8, <1>9, <1>10, <1>11 DEF AuditNext

\* What a query finds while the disk is not full: every number in the files there are.
LEMMA FoundInFiles ==
  ASSUME AuditAssumption, AuditInv, ~ world.full, NEW u \in Dirs
  PROVE  \A s : s \in Found(u) <=> Holds(segs[u], max_files, s)
<1>1. AuditTypeOK
  BY DEF AuditInv
<1>2. max_files \in 1 .. SegMax /\ segs[u] \in [Idx -> Seq(Line)]
  BY <1>1, AuditBasics
<1>3. PICK all : all = collect_locked(u, ASC, 0)
  OBVIOUS
<1>4. \A x : x \in ToSet(all) <=> Parses(x) /\ \E k \in Idx : k < max_files /\ x \in ToSet(segs[u][k])
  BY <1>2, <1>3, Collected DEF AuditInv
<1>5. \A k \in Idx : \A x \in ToSet(segs[u][k]) : Parses(x)
  <2>1. \A k \in Idx : \A a \in DOMAIN segs[u][k] : segs[u][k][a].kind = "good"
    BY DEF AuditInv, Unbroken
  <2>2. QED
    BY <2>1 DEF Parses, ToSet
<1>6. Found(u) = {l.seq : l \in ToSet(all)}
  BY <1>3 DEF Found
<1>7. \A s : \A k \in Idx : Has(segs[u][k], s) <=> \E x \in ToSet(segs[u][k]) : x.seq = s
  BY DEF Has, ToSet
<1>8. ASSUME NEW s \in Found(u) PROVE Holds(segs[u], max_files, s)
  <2>1. PICK x \in ToSet(all) : x.seq = s
    BY <1>6
  <2>2. PICK k \in Idx : k < max_files /\ x \in ToSet(segs[u][k])
    BY <1>4, <2>1
  <2>3. QED
    BY <1>7, <2>1, <2>2 DEF Holds
<1>9. ASSUME NEW s, Holds(segs[u], max_files, s) PROVE s \in Found(u)
  <2>1. PICK k \in Idx : k < max_files /\ Has(segs[u][k], s)
    BY <1>9 DEF Holds
  <2>2. PICK x \in ToSet(segs[u][k]) : x.seq = s
    BY <1>7, <2>1
  <2>3. x \in ToSet(all)
    BY <1>4, <1>5, <2>1, <2>2
  <2>4. QED
    BY <1>6, <2>2, <2>3
<1>10. QED
  BY <1>8, <1>9

\* Between calls the newest events are there.
LEMMA NewestKept ==
  ASSUME AuditAssumption, AuditInv
  PROVE  KeepsNewest
<1>1. AuditTypeOK
  BY DEF AuditInv
<1>2. SUFFICES ASSUME pc = "idle", ~ world.full, NEW u \in Dirs
               PROVE  /\ acked[u] # <<>> => \E n \in Found(u) : n >= Last(acked[u])
                      /\ \A s \in ToSet(acked[u]) : (\E n \in Found(u) : n <= s) => s \in Found(u)
  BY DEF KeepsNewest
<1>3. /\ max_files \in 1 .. SegMax /\ SegMax \in Nat /\ Idx \subseteq Nat /\ SeqMax \in Nat
      /\ 0 \in Idx /\ (max_files > 1 => 1 \in Idx)
      /\ segs[u] \in [Idx -> Seq(Line)] /\ acked[u] \in Seq(1 .. SeqMax)
  BY <1>1, AuditBasics
<1>4. PICK f \in [Idx -> Seq(Line)] : f = segs[u]
  BY <1>3
<1>5. PICK given \in Seq(1 .. SeqMax) : given = acked[u]
  BY <1>3
<1>6. \A s : s \in Found(u) <=> Holds(f, max_files, s)
  BY <1>2, <1>4, FoundInFiles
<1>7. Ordered(f) /\ NoGap(f, SegMax, given) /\ Newest(f, given)
  BY <1>2, <1>4, <1>5 DEF AuditInv, Gapless, Latest
<1>8. ASSUME given # <<>> PROVE \E n \in Found(u) : n >= Last(given)
  <2>1. PICK s \in SeqNos : Holds(f, SegMax, s) /\ s >= given[Len(given)]
    BY <1>7, <1>8 DEF Newest
  <2>2. Last(given) = given[Len(given)] /\ given[Len(given)] \in Nat /\ s \in Nat
    <3>1. Len(given) \in DOMAIN given
      BY <1>8
    <3>2. QED
      BY <1>3, <3>1 DEF Last, SeqNos
  <2>3. PICK k \in Idx : Has(f[k], s)
    BY <2>1 DEF Holds
  <2>4. CASE k < max_files
    <3>1. s \in Found(u)
      BY <1>6, <2>3, <2>4 DEF Holds
    <3>2. QED
      BY <2>1, <2>2, <3>1
  <2>5. CASE ~ (k < max_files)
    <3>1. f[k] # <<>>
      BY <2>3 DEF Has
    <3>2. world.reconf
      BY <1>3, <1>4, <2>5, <3>1 DEF AuditInv, Trimmed
    <3>3. 1 \notin world.files
      BY <3>2 DEF AuditInv, SafeWorld
    <3>4. max_files > 1 /\ 1 \in Idx
      BY <1>1, <1>3, <3>3, SMTT(60) DEF AuditTypeOK
    <3>5. f[0] # <<>> \/ f[1] # <<>>
      BY <1>4, <3>1, <3>2 DEF AuditInv, TopFilled
    <3>6. PICK j \in {0, 1} : f[j] # <<>>
      BY <3>5
    <3>7. j \in Idx /\ j < max_files /\ j < k
      BY <1>3, <2>5, <3>4
    <3>8. PICK t \in SeqNos : Has(f[j], t) /\ s < t
      BY <1>7, <2>3, <3>6, <3>7, Younger
    <3>9. t \in Found(u) /\ t \in Nat
      BY <1>3, <1>6, <3>7, <3>8 DEF Holds, SeqNos
    <3>10. t >= Last(given)
      BY <2>1, <2>2, <3>8, <3>9
    <3>11. QED
      BY <3>9, <3>10
  <2>6. QED
    BY <2>4, <2>5
<1>9. ASSUME NEW s \in ToSet(given), NEW n \in Found(u), n <= s PROVE s \in Found(u)
  <2>1. PICK b \in DOMAIN given : s = given[b]
    BY DEF ToSet
  <2>2. Holds(f, max_files, n)
    BY <1>6, <1>9
  <2>3. n \in SeqNos
    <3>1. PICK k \in Idx : Has(f[k], n)
      BY <2>2 DEF Holds
    <3>2. QED
      BY <3>1, Numbers
  <2>4. NoGap(f, max_files, given)
    <3>1. max_files \in Nat /\ max_files <= SegMax
      BY <1>3
    <3>2. QED
      BY <1>3, <1>7, <3>1, NoGapBelow
  <2>5. Holds(f, max_files, given[b])
    BY <1>9, <2>1, <2>2, <2>3, <2>4 DEF NoGap
  <2>6. QED
    BY <1>6, <2>1, <2>5
<1>10. QED
  BY <1>5, <1>8, <1>9

\* No number is given twice.
LEMMA NumbersOnce ==
  ASSUME AuditAssumption, AuditInv
  PROVE  SeqNeverReused
<1>1. SUFFICES ASSUME NEW u \in Dirs, NEW a \in DOMAIN acked[u], NEW b \in DOMAIN acked[u],
                      acked[u][a] = acked[u][b]
               PROVE  a = b
  BY DEF SeqNeverReused, IsInjective
<1>2. acked[u] \in Seq(1 .. SeqMax) /\ SeqMax \in Nat
  BY AuditBasics DEF AuditInv
<1>3. a \in Nat /\ b \in Nat /\ acked[u][a] \in Nat
  BY <1>2
<1>4. ~ (a < b) /\ ~ (b < a)
  BY <1>1, <1>3 DEF AuditInv, InTurn
<1>5. QED
  BY <1>3, <1>4

\* In the circumstances named, queries answer in order, no number is given twice and
\* rotation drops the oldest events only: for every number of files, directories and
\* lines, through every error, restart and change of configuration (audit_impl.c,
\* seed_seq_locked, rotate_locked, ops_append, collect_locked).
THEOREM AuditIsSound ==
  (\A w \in Worlds : SafeWorld(w)) => (AuditSpec => []AuditSound)
<1>1. SUFFICES ASSUME \A w \in Worlds : SafeWorld(w) PROVE AuditSpec => []AuditSound
  OBVIOUS
<1>2. AuditInit => AuditInv
  BY <1>1, AuditAssumption, AuditStarts
<1>3. AuditInv /\ [AuditNext]_auditVars => AuditInv'
  BY AuditAssumption, AuditSteps
<1>4. AuditInv => AuditSound
  BY AuditAssumption, QueriesOrdered, NumbersOnce, NewestKept DEF AuditSound, AuditInv
<1>5. QED
  BY <1>2, <1>3, <1>4, PTL DEF AuditSpec

-----------------------------------------------------------------------------
(* Compression: nothing is lost on its way through an encoder or a decoder.  *)

\* The bytes of the texts, and what streams are made of.
Byte == UNION {ToSet(t) : t \in Texts}
\* Heads and tails.
Marks == {Header(k) : k \in Supported} \cup {Trailer(k) : k \in Supported \cup {"bad"}}
\* What a stream or a text is a list of.
Cell == Byte \cup Marks \cup {"data"} \X Seq(Byte)

\* What a unit gives.
Part(u) == IF u[1] = "data" THEN u[2] ELSE <<>>

\* What the kinds of cells are, and that each gives bytes.
LEMMA Cells ==
  /\ \A b \in Byte : b[1] = "byte"
  /\ \A m \in Marks : m[1] \in {"head", "tail"}
  /\ \A c \in Cell : Part(c) \in Seq(Byte)
<1>1. \A b \in Byte : b[1] = "byte"
  BY CompressAssumption DEF Byte
<1>2. \A m \in Marks : m[1] \in {"head", "tail"}
  BY DEF Marks, Header, Trailer
<1>3. \A c \in {"data"} \X Seq(Byte) : c[2] \in Seq(Byte)
  OBVIOUS
<1>4. <<>> \in Seq(Byte)
  OBVIOUS
<1>5. QED
  BY <1>1, <1>2, <1>3, <1>4 DEF Cell, Part

\* The function behind Bytes.
BytesUpto(f, us) ==
  f = [n \in 0 .. Len(us) |-> IF n = 0 THEN <<>>
         ELSE f[n - 1] \o (IF us[n][1] = "data" THEN us[n][2] ELSE <<>>)]

\* Bytes takes the last of what it has added up.
LEMMA BytesBy ==
  ASSUME NEW us
  PROVE  Bytes(us) = (CHOOSE f : BytesUpto(f, us))[Len(us)]
  BY Zenon DEF Bytes, BytesUpto

\* What Bytes adds up can be added up.
LEMMA BytesExist ==
  ASSUME NEW us \in Seq(Cell)
  PROVE  \E f : BytesUpto(f, us)
<1>0. PICK V : V = Seq(Byte)
  OBVIOUS
<1>1. PICK n \in Nat : n = Len(us) /\ \A k \in 1 .. n : Part(us[k]) \in V
  BY <1>0, Cells
<1>2. <<>> \in V /\ \A a, b \in V : a \o b \in V
  BY <1>0
<1>3. PICK g : g = [k \in 1 .. n |-> [s \in V |-> s \o Part(us[k])]]
  OBVIOUS
<1>4. g \in [1 .. n -> [V -> V]]
  BY <1>1, <1>2, <1>3
<1>5. PICK b \in V : b = <<>>
  BY <1>2
<1>6. PICK f \in [0 .. n -> V] : f[0] = b /\ \A k \in 1 .. n : f[k] = g[k][f[k - 1]]
  <2>1. n \in Nat /\ b \in V
    BY <1>1, <1>5
  <2>2. \E f \in [0 .. n -> V] : f[0] = b /\ \A k \in 1 .. n : f[k] = g[k][f[k - 1]]
    BY <1>4, <2>1, Unrolled, SMTT(60)
  <2>3. QED
    BY <2>2
<1>7. \A k \in 1 .. n : f[k] = f[k - 1] \o Part(us[k])
  <2>1. \A k \in 1 .. n : f[k - 1] \in V
    BY <1>6
  <2>2. QED
    BY <1>3, <1>6, <2>1
<1>8. f = [k \in 0 .. n |-> IF k = 0 THEN b ELSE f[k - 1] \o Part(us[k])]
  <2>1. \A k \in 0 .. n : f[k] = IF k = 0 THEN b ELSE f[k - 1] \o Part(us[k])
    <3>1. \A k \in 0 .. n : k = 0 \/ k \in 1 .. n
      OBVIOUS
    <3>2. QED
      BY <1>6, <1>7, <3>1
  <2>2. QED
    BY <1>6, <2>1
<1>9. BytesUpto(f, us)
  BY <1>1, <1>5, <1>8 DEF BytesUpto, Part
<1>10. QED
  BY <1>9

\* One cell more, step by step.
LEMMA BytesSteps ==
  ASSUME NEW us, NEW f, BytesUpto(f, us), Len(us) \in Nat
  PROVE  f[0] = <<>> /\ \A k \in 1 .. Len(us) : f[k] = f[k - 1] \o Part(us[k])
<1>1. f = [k \in 0 .. Len(us) |-> IF k = 0 THEN <<>> ELSE f[k - 1] \o Part(us[k])]
  BY Zenon DEF BytesUpto, Part
<1>2. \A k \in 0 .. Len(us) : f[k] = IF k = 0 THEN <<>> ELSE f[k - 1] \o Part(us[k])
  BY <1>1, Zenon
<1>3. 0 \in 0 .. Len(us) /\ \A k \in 1 .. Len(us) : k \in 0 .. Len(us) /\ k # 0
  OBVIOUS
<1>4. QED
  BY <1>2, <1>3, Zenon

\* Lists that begin alike give alike as far as they do.
LEMMA BytesAgree ==
  ASSUME NEW us, NEW vs, NEW f, NEW g, BytesUpto(f, us), BytesUpto(g, vs),
         NEW n \in Nat, Len(us) \in Nat, Len(vs) \in Nat, n <= Len(us), n <= Len(vs),
         \A k \in 1 .. n : us[k] = vs[k]
  PROVE  f[n] = g[n]
<1> DEFINE T == {k \in Nat : k <= n => f[k] = g[k]}
<1>1. 0 \in T
  BY BytesSteps
<1>2. ASSUME NEW k \in Nat, k \in T PROVE k + 1 \in T
  <2>1. SUFFICES ASSUME k + 1 <= n PROVE f[k + 1] = g[k + 1]
    OBVIOUS
  <2>2. f[k] = g[k] /\ k + 1 \in 1 .. Len(us) /\ k + 1 \in 1 .. Len(vs) /\ us[k + 1] = vs[k + 1] /\ (k + 1) - 1 = k
    BY <1>2, <2>1
  <2>3. f[k + 1] = f[(k + 1) - 1] \o Part(us[k + 1])
    BY <2>2, BytesSteps
  <2>4. g[k + 1] = g[(k + 1) - 1] \o Part(vs[k + 1])
    BY <2>2, BytesSteps
  <2>5. QED
    BY <2>2, <2>3, <2>4
<1>3. n \in T
  <2> HIDE DEF T
  <2>1. QED
    BY <1>1, <1>2, ByInduction
<1>4. QED
  BY <1>3

\* Bytes, one unit after the other.
LEMMA BytesGrow ==
  ASSUME NEW us \in Seq(Cell)
  PROVE  /\ Bytes(<<>>) = <<>>
         /\ \A u \in Cell : Bytes(Append(us, u)) = Bytes(us) \o Part(u)
<1> DEFINE F(t) == CHOOSE f : BytesUpto(f, t)
<1>1. ASSUME NEW t \in Seq(Cell) PROVE BytesUpto(F(t), t) /\ Bytes(t) = F(t)[Len(t)]
  BY BytesExist, BytesBy
<1> HIDE DEF F
<1>2. Bytes(<<>>) = <<>>
  <2>1. <<>> \in Seq(Cell) /\ Len(<<>>) = 0
    OBVIOUS
  <2>2. PICK e : e = <<>> /\ e \in Seq(Cell) /\ Len(e) = 0
    BY <2>1
  <2>3. F(e)[0] = <<>>
    <3>1. BytesUpto(F(e), e) /\ Len(e) \in Nat
      BY <1>1, <2>2
    <3>2. QED
      BY <3>1, BytesSteps
  <2>4. QED
    BY <1>1, <2>2, <2>3
<1>3. ASSUME NEW u \in Cell PROVE Bytes(Append(us, u)) = Bytes(us) \o Part(u)
  <2>1. PICK vs : vs = Append(us, u)
    OBVIOUS
  <2>2. PICK n \in Nat : n = Len(us) /\ Len(vs) = n + 1 /\ vs \in Seq(Cell) /\ vs[n + 1] = u /\ \A k \in 1 .. n : us[k] = vs[k]
    BY <2>1
  <2>3. F(us)[n] = F(vs)[n]
    <3>1. BytesUpto(F(us), us) /\ BytesUpto(F(vs), vs)
      BY <1>1, <2>2
    <3>2. QED
      BY <3>1, <2>2, BytesAgree
  <2>4. F(vs)[n + 1] = F(vs)[(n + 1) - 1] \o Part(vs[n + 1])
    <3>1. BytesUpto(F(vs), vs) /\ n + 1 \in 1 .. Len(vs) /\ Len(vs) \in Nat
      BY <1>1, <2>2
    <3>2. QED
      BY <3>1, BytesSteps
  <2>5. (n + 1) - 1 = n
    OBVIOUS
  <2>6. QED
    BY <1>1, <2>1, <2>2, <2>3, <2>4, <2>5
<1>4. QED
  BY <1>2, <1>3

\* What two lists of cells give, put together.
LEMMA BytesJoined ==
  ASSUME NEW a \in Seq(Cell), NEW b \in Seq(Cell)
  PROVE  Bytes(a) \in Seq(Byte) /\ Bytes(a \o b) = Bytes(a) \o Bytes(b)
<1>1. ASSUME NEW t \in Seq(Cell) PROVE Bytes(t) \in Seq(Byte)
  <2> DEFINE T == {n \in Nat : n <= Len(t) => Bytes(SubSeq(t, 1, n)) \in Seq(Byte)}
  <2>1. 0 \in T
    <3>1. SubSeq(t, 1, 0) = <<>> /\ <<>> \in Seq(Byte)
      BY WholeList
    <3>2. QED
      BY <3>1, BytesGrow
  <2>2. ASSUME NEW n \in Nat, n \in T PROVE n + 1 \in T
    <3>1. SUFFICES ASSUME n + 1 <= Len(t) PROVE Bytes(SubSeq(t, 1, n + 1)) \in Seq(Byte)
      OBVIOUS
    <3>2. /\ SubSeq(t, 1, n) \in Seq(Cell) /\ t[n + 1] \in Cell
          /\ SubSeq(t, 1, n + 1) = Append(SubSeq(t, 1, n), t[n + 1])
      BY <3>1, OneLonger
    <3>3. Bytes(SubSeq(t, 1, n)) \in Seq(Byte)
      BY <3>1, <2>2
    <3>4. Part(t[n + 1]) \in Seq(Byte)
      BY <3>2, Cells
    <3>5. Bytes(SubSeq(t, 1, n + 1)) = Bytes(SubSeq(t, 1, n)) \o Part(t[n + 1])
      BY <3>2, BytesGrow
    <3>6. \A p, q \in Seq(Byte) : p \o q \in Seq(Byte)
      OBVIOUS
    <3>7. QED
      BY <3>3, <3>4, <3>5, <3>6
  <2>3. Len(t) \in Nat
    OBVIOUS
  <2>4. Len(t) \in T
    <3> HIDE DEF T
    <3>1. QED
      BY <2>1, <2>2, <2>3, ByInduction
  <2>5. Bytes(SubSeq(t, 1, Len(t))) \in Seq(Byte)
    BY <2>3, <2>4
  <2>6. SubSeq(t, 1, Len(t)) = t
    BY WholeList
  <2>7. QED
    BY <2>5, <2>6
<1>2. Bytes(a \o b) = Bytes(a) \o Bytes(b)
  <2> DEFINE T == {n \in Nat : n <= Len(b) => Bytes(a \o SubSeq(b, 1, n)) = Bytes(a) \o Bytes(SubSeq(b, 1, n))}
  <2>1. 0 \in T
    <3>1. SubSeq(b, 1, 0) = <<>> /\ a \o <<>> = a
      BY WholeList
    <3>2. Bytes(a) \o <<>> = Bytes(a)
      BY <1>1, WholeList
    <3>3. QED
      BY <3>1, <3>2, BytesGrow
  <2>2. ASSUME NEW n \in Nat, n \in T PROVE n + 1 \in T
    <3>1. SUFFICES ASSUME n + 1 <= Len(b)
                   PROVE  Bytes(a \o SubSeq(b, 1, n + 1)) = Bytes(a) \o Bytes(SubSeq(b, 1, n + 1))
      OBVIOUS
    <3>2. PICK s, u : s = SubSeq(b, 1, n) /\ u = b[n + 1] /\ s \in Seq(Cell) /\ u \in Cell /\ SubSeq(b, 1, n + 1) = Append(s, u)
      <4>1. SubSeq(b, 1, n) \in Seq(Cell) /\ b[n + 1] \in Cell /\ SubSeq(b, 1, n + 1) = Append(SubSeq(b, 1, n), b[n + 1])
        BY <3>1, OneLonger
      <4>2. QED
        BY <4>1
    <3>3. a \o Append(s, u) = Append(a \o s, u) /\ a \o s \in Seq(Cell)
      BY <3>2, SMTT(60)
    <3>4. Bytes(a \o s) = Bytes(a) \o Bytes(s)
      BY <2>2, <3>1, <3>2
    <3>5. Bytes(Append(a \o s, u)) = Bytes(a \o s) \o Part(u) /\ Bytes(Append(s, u)) = Bytes(s) \o Part(u)
      BY <3>2, <3>3, BytesGrow
    <3>6. Bytes(a) \in Seq(Byte) /\ Bytes(s) \in Seq(Byte) /\ Part(u) \in Seq(Byte)
      BY <1>1, <3>2, Cells
    <3>7. (Bytes(a) \o Bytes(s)) \o Part(u) = Bytes(a) \o (Bytes(s) \o Part(u))
      BY <3>6, Associated, SMTT(60)
    <3>8. QED
      BY <3>2, <3>3, <3>4, <3>5, <3>7
  <2>3. Len(b) \in Nat
    OBVIOUS
  <2>4. Len(b) \in T
    <3> HIDE DEF T
    <3>1. QED
      BY <2>1, <2>2, <2>3, ByInduction
  <2>5. Bytes(a \o SubSeq(b, 1, Len(b))) = Bytes(a) \o Bytes(SubSeq(b, 1, Len(b)))
    BY <2>3, <2>4
  <2>6. SubSeq(b, 1, Len(b)) = b
    BY WholeList
  <2>7. QED
    BY <2>5, <2>6
<1>3. QED
  BY <1>1, <1>2

\* The units that carry bytes.
Datum == {"data"} \X Seq(Byte)

\* Where the n-th unit of a text ends.
UnitEnd(text, n) == IF n * Ratio <= Len(text) THEN n * Ratio ELSE Len(text)

\* The units of a text: how many, and what each carries.
LEMMA UnitShape ==
  ASSUME NEW text \in Seq(Byte)
  PROVE  /\ Units(text) \in Seq(Datum)
         /\ Len(Units(text)) * Ratio < Len(text) + Ratio
         /\ Len(text) <= Len(Units(text)) * Ratio
         /\ \A n \in 1 .. Len(Units(text)) :
              Units(text)[n] = <<"data", SubSeq(text, (n - 1) * Ratio + 1, UnitEnd(text, n))>>
<1>1. PICK l \in Nat, r \in Nat \ {0} : l = Len(text) /\ r = Ratio
  BY CompressAssumption
<1>2. PICK m : m = (l + r - 1) \div r
  OBVIOUS
<1>3. m \in Nat /\ m * r < l + r /\ l <= m * r
  <2>1. l + r - 1 \in Nat
    BY <1>1
  <2>2. m \in Nat /\ m * r <= l + r - 1 /\ l + r - 1 < m * r + r
    BY <1>1, <1>2, <2>1, Quotient
  <2>3. PICK p \in Nat : p = m * r
    BY <1>1, <2>2, Multiples
  <2>4. QED
    BY <1>1, <2>2, <2>3
<1>4. \A n \in 1 .. m : Min({n * r, l}) = UnitEnd(text, n) /\ UnitEnd(text, n) \in Nat
  <2> SUFFICES ASSUME NEW n \in 1 .. m PROVE Min({n * r, l}) = UnitEnd(text, n) /\ UnitEnd(text, n) \in Nat
    OBVIOUS
  <2>1. n * r \in Nat
    BY <1>1, <1>3, Multiples
  <2>2. QED
    BY <1>1, <2>1, TheSmaller DEF UnitEnd
<1>5. PICK us : us = Units(text)
  OBVIOUS
<1>6. us = [n \in 1 .. m |-> <<"data", SubSeq(text, (n - 1) * r + 1, UnitEnd(text, n))>>]
  BY <1>1, <1>2, <1>4, <1>5 DEF Units
<1>7. \A n \in 1 .. m : SubSeq(text, (n - 1) * r + 1, UnitEnd(text, n)) \in Seq(Byte)
  <2> SUFFICES ASSUME NEW n \in 1 .. m PROVE SubSeq(text, (n - 1) * r + 1, UnitEnd(text, n)) \in Seq(Byte)
    OBVIOUS
  <2>1. (n - 1) * r \in Nat
    BY <1>1, <1>3, Multiples
  <2>2. PICK x \in Nat, y \in Nat : x = (n - 1) * r /\ y = UnitEnd(text, n)
    BY <1>4, <2>1
  <2>3. y <= l
    BY <1>1, <2>2 DEF UnitEnd
  <2>4. QED
    BY <1>1, <2>2, <2>3
<1>8. \A n \in 1 .. m : us[n] \in Datum
  <2> SUFFICES ASSUME NEW n \in 1 .. m PROVE us[n] \in Datum
    OBVIOUS
  <2>1. PICK s \in Seq(Byte) : s = SubSeq(text, (n - 1) * r + 1, UnitEnd(text, n))
    BY <1>7
  <2>2. us[n] = <<"data", s>>
    BY <1>6, <2>1
  <2>3. QED
    BY <2>2 DEF Datum
<1>9. us \in Seq(Datum) /\ Len(us) = m
  <2>1. us \in [1 .. m -> Datum]
    BY <1>6, <1>8
  <2>2. QED
    BY <1>3, <2>1
<1>10. QED
  BY <1>1, <1>3, <1>5, <1>6, <1>9

\* The number of units depends on the length only.
LEMMA OneCount ==
  ASSUME NEW l \in Nat, NEW r \in Nat \ {0}, NEW m \in Nat, NEW n \in Nat,
         m * r < l + r, l <= m * r, n * r < l + r, l <= n * r
  PROVE  m = n
<1>1. ASSUME NEW a \in Nat, NEW b \in Nat, a < b PROVE a * r + r <= b * r
  <2>1. (a + 1) * r <= b * r
    BY <1>1, Multiples
  <2>2. (a + 1) * r = a * r + r
    OBVIOUS
  <2>3. QED
    BY <2>1, <2>2
<1>2. m * r \in Nat /\ n * r \in Nat
  BY Multiples
<1>3. ~ m < n
  BY <1>1, <1>2
<1>4. ~ n < m
  BY <1>1, <1>2
<1>5. QED
  BY <1>3, <1>4

\* A text that is cut at a multiple of Ratio has the units of its two parts.
LEMMA UnitsApart ==
  ASSUME NEW a \in Seq(Byte), NEW b \in Seq(Byte), NEW m \in Nat, Len(a) = m * Ratio
  PROVE  Units(a \o b) = Units(a) \o Units(b)
<1>1. PICK r \in Nat \ {0}, p \in Nat, q \in Nat : r = Ratio /\ p = Len(a) /\ q = Len(b) /\ p = m * r
  BY CompressAssumption, SMTT(60)
<1>2. PICK c : c = a \o b
  OBVIOUS
<1>3. c \in Seq(Byte) /\ Len(c) = p + q
  BY <1>1, <1>2
<1>4. PICK ua, ub, uc : ua = Units(a) /\ ub = Units(b) /\ uc = Units(c)
  OBVIOUS
<1>5. PICK nb \in Nat : nb = Len(ub) /\ ub \in Seq(Datum) /\ nb * r < q + r /\ q <= nb * r
  BY <1>1, <1>4, UnitShape
<1>6. ua \in Seq(Datum) /\ Len(ua) = m
  <2>1. PICK n \in Nat : n = Len(ua) /\ ua \in Seq(Datum) /\ n * r < p + r /\ p <= n * r
    <3>1. Units(a) \in Seq(Datum) /\ Len(Units(a)) * Ratio < Len(a) + Ratio /\ Len(a) <= Len(Units(a)) * Ratio
      BY UnitShape
    <3>2. Len(Units(a)) \in Nat
      BY <3>1
    <3>3. QED
      BY <1>1, <1>4, <3>1, <3>2
  <2>2. m * r < p + r /\ p <= m * r
    BY <1>1
  <2>3. n = m
    BY <1>1, <2>1, <2>2, OneCount
  <2>4. QED
    BY <2>1, <2>3
<1>7. uc \in Seq(Datum) /\ Len(uc) = m + nb
  <2>1. PICK n \in Nat : n = Len(uc) /\ uc \in Seq(Datum) /\ n * r < p + q + r /\ p + q <= n * r
    BY <1>1, <1>3, <1>4, UnitShape, SMTT(60)
  <2>2. PICK x \in Nat : x = nb * r
    BY Multiples, <1>1, <1>5
  <2>3. (m + nb) * r = p + x
    BY <1>1, <1>5, <2>2
  <2>4. (m + nb) * r < p + q + r /\ p + q <= (m + nb) * r
    BY <1>1, <1>5, <2>2, <2>3
  <2>5. n = m + nb
    <3>1. p + q \in Nat /\ m + nb \in Nat
      BY <1>1, <1>5
    <3>2. QED
      BY <1>1, <2>1, <2>4, <3>1, OneCount
  <2>6. QED
    BY <2>1, <2>5
<1>8. ASSUME NEW n \in 1 .. m PROVE uc[n] = ua[n]
  <2>1. PICK x \in Nat, y \in Nat : x = (n - 1) * r /\ y = n * r /\ y <= p
    BY <1>1, Multiples
  <2>2. uc[n] = <<"data", SubSeq(c, x + 1, UnitEnd(c, n))>> /\ ua[n] = <<"data", SubSeq(a, x + 1, UnitEnd(a, n))>>
    <3>1. n \in 1 .. Len(ua) /\ n \in 1 .. Len(uc)
      BY <1>5, <1>6, <1>7
    <3>2. uc[n] = <<"data", SubSeq(c, (n - 1) * Ratio + 1, UnitEnd(c, n))>>
      BY <1>3, <1>4, <3>1, UnitShape
    <3>3. ua[n] = <<"data", SubSeq(a, (n - 1) * Ratio + 1, UnitEnd(a, n))>>
      BY <1>4, <3>1, UnitShape
    <3>4. QED
      BY <1>1, <2>1, <3>2, <3>3
  <2>3. UnitEnd(c, n) = y /\ UnitEnd(a, n) = y
    BY <1>1, <1>3, <2>1, SMTT(60) DEF UnitEnd
  <2>4. SubSeq(a \o b, x + 1, y) = SubSeq(a, x + 1, y)
    BY <1>1, <2>1, LeftPart, SMTT(60)
  <2>5. QED
    BY <1>2, <2>2, <2>3, <2>4
<1>9. ASSUME NEW n \in 1 .. nb PROVE uc[m + n] = ub[n]
  <2>1. PICK x \in Nat, y \in Nat : x = (n - 1) * r /\ y = n * r
    BY <1>1, Multiples
  <2>2. ((m + n) - 1) * r = p + x /\ (m + n) * r = p + y /\ m + n \in 1 .. m + nb
    BY <1>1, <2>1
  <2>3. uc[m + n] = <<"data", SubSeq(c, (p + x) + 1, UnitEnd(c, m + n))>> /\ ub[n] = <<"data", SubSeq(b, x + 1, UnitEnd(b, n))>>
    <3>1. uc[m + n] = <<"data", SubSeq(c, ((m + n) - 1) * r + 1, UnitEnd(c, m + n))>>
      BY <1>1, <1>3, <1>4, <1>7, <2>2, UnitShape
    <3>2. ub[n] = <<"data", SubSeq(b, x + 1, UnitEnd(b, n))>>
      BY <1>1, <1>4, <1>5, <2>1, UnitShape
    <3>3. QED
      BY <2>2, <3>1, <3>2
  <2>4. PICK e \in Nat : e = UnitEnd(b, n) /\ e <= q
    BY <1>1, <2>1 DEF UnitEnd
  <2>5. UnitEnd(c, m + n) = p + e
    <3>1. UnitEnd(c, m + n) = IF p + y <= p + q THEN p + y ELSE p + q
      BY <1>1, <1>3, <2>2 DEF UnitEnd
    <3>2. e = IF y <= q THEN y ELSE q
      BY <1>1, <2>1, <2>4 DEF UnitEnd
    <3>3. \A u, v, w \in Nat : (IF u + v <= u + w THEN u + v ELSE u + w) = u + (IF v <= w THEN v ELSE w)
      OBVIOUS
    <3>4. p \in Nat /\ q \in Nat /\ y \in Nat
      OBVIOUS
    <3>5. QED
      BY <3>1, <3>2, <3>3, <3>4
  <2>6. SubSeq(a \o b, p + (x + 1), p + e) = SubSeq(b, x + 1, e)
    <3>1. PICK at \in Nat \ {0} : at = x + 1 /\ e <= Len(b)
      BY <1>1, <2>4
    <3>2. SubSeq(a \o b, Len(a) + at, Len(a) + e) = SubSeq(b, at, e)
      <4>1. \A j \in Nat : j <= Len(b) => SubSeq(a \o b, Len(a) + at, Len(a) + j) = SubSeq(b, at, j)
        BY RightPart, SMTT(60)
      <4>2. QED
        BY <3>1, <4>1, Zenon
    <3>3. QED
      BY <1>1, <3>1, <3>2
  <2>7. (p + x) + 1 = p + (x + 1)
    OBVIOUS
  <2>8. QED
    BY <1>2, <2>3, <2>4, <2>5, <2>6, <2>7
<1>10. ua \o ub = uc
  BY <1>5, <1>6, <1>7, <1>8, <1>9, PutTogether, ZenonT(60)
<1>11. QED
  BY <1>2, <1>4, <1>10

\* A text with no bytes has no units.
LEMMA NoUnits ==
  Units(<<>>) = <<>>
<1>0. <<>> \in Seq(Byte) /\ Len(<<>>) = 0
  OBVIOUS
<1>1. PICK e \in Seq(Byte) : e = <<>> /\ Len(e) = 0
  BY <1>0
<1>2. PICK r \in Nat \ {0}, n \in Nat : r = Ratio /\ n = Len(Units(e)) /\ Units(e) \in Seq(Datum) /\ n * r < 0 + r
  <2>1. Units(e) \in Seq(Datum) /\ Len(Units(e)) * Ratio < Len(e) + Ratio
    BY UnitShape
  <2>2. QED
    BY <1>1, <2>1, CompressAssumption
<1>3. n = 0
  <2> SUFFICES ASSUME 1 <= n PROVE FALSE
    BY <1>2
  <2>1. 1 * r <= n * r
    BY <1>2, Multiples
  <2>2. n * r \in Nat
    BY <1>2, Multiples
  <2>3. QED
    BY <1>2, <2>1, <2>2
<1>4. QED
  BY <1>1, <1>2, <1>3

\* The units of a text give the text back.
LEMMA UnitsGive ==
  ASSUME NEW t \in Seq(Byte)
  PROVE  Bytes(Units(t)) = t
<1>1. PICK us : us = Units(t)
  OBVIOUS
<1>2. PICK r \in Nat \ {0}, l \in Nat, m \in Nat :
        r = Ratio /\ l = Len(t) /\ m = Len(us) /\ us \in Seq(Datum) /\ m * r < l + r /\ l <= m * r
  <2>1. Units(t) \in Seq(Datum) /\ Len(Units(t)) * Ratio < Len(t) + Ratio /\ Len(t) <= Len(Units(t)) * Ratio
    BY UnitShape
  <2>2. QED
    BY <1>1, <2>1, CompressAssumption
<1>3. us \in Seq(Cell)
  <2>1. Datum \subseteq Cell
    BY DEF Datum, Cell
  <2>2. QED
    BY <1>2, <2>1
<1> DEFINE T == {n \in Nat : n <= m => Bytes(SubSeq(us, 1, n)) = SubSeq(t, 1, UnitEnd(t, n))}
<1>4. 0 \in T
  <2>1. 0 * r = 0
    BY <1>2
  <2>2. UnitEnd(t, 0) = 0
    BY <1>2, <2>1 DEF UnitEnd
  <2>3. SubSeq(us, 1, 0) = <<>> /\ SubSeq(t, 1, 0) = <<>>
    BY <1>3, WholeList
  <2>4. Bytes(<<>>) = <<>>
    BY <1>3, BytesGrow
  <2>5. QED
    BY <2>2, <2>3, <2>4
<1>5. ASSUME NEW n \in Nat, n \in T PROVE n + 1 \in T
  <2>1. SUFFICES ASSUME n + 1 <= m PROVE Bytes(SubSeq(us, 1, n + 1)) = SubSeq(t, 1, UnitEnd(t, n + 1))
    OBVIOUS
  <2>2. PICK x \in Nat, y \in Nat : x = n * r /\ y = m * r /\ x + r <= y
    <3>1. (n + 1) * r = n * r + r
      BY <1>2
    <3>2. (n + 1) * r <= m * r
      BY <1>2, <2>1, Multiples
    <3>3. n * r \in Nat /\ m * r \in Nat
      BY <1>2, Multiples
    <3>4. QED
      BY <3>1, <3>2, <3>3
  <2>3. x <= l /\ UnitEnd(t, n) = x
    BY <1>2, <2>2 DEF UnitEnd
  <2>4. PICK e \in Nat : e = UnitEnd(t, n + 1) /\ x <= e /\ e <= l
    <3>1. (n + 1) * r = x + r
      BY <1>2, <2>2
    <3>2. QED
      BY <1>2, <2>2, <2>3, <3>1 DEF UnitEnd
  <2>5. /\ SubSeq(us, 1, n) \in Seq(Cell) /\ us[n + 1] \in Cell
        /\ SubSeq(us, 1, n + 1) = Append(SubSeq(us, 1, n), us[n + 1])
    BY <1>2, <1>3, <2>1, OneLonger
  <2>6. us[n + 1] = <<"data", SubSeq(t, x + 1, e)>>
    <3>1. (n + 1) - 1 = n /\ n + 1 \in 1 .. m
      BY <2>1
    <3>2. us[n + 1] = <<"data", SubSeq(t, ((n + 1) - 1) * r + 1, UnitEnd(t, n + 1))>>
      BY <1>1, <1>2, <3>1, UnitShape
    <3>3. QED
      BY <2>2, <2>4, <3>1, <3>2
  <2>7. Part(us[n + 1]) = SubSeq(t, x + 1, e)
    BY <2>6 DEF Part
  <2>8. Bytes(SubSeq(us, 1, n + 1)) = Bytes(SubSeq(us, 1, n)) \o Part(us[n + 1])
    BY <2>5, BytesGrow
  <2>9. Bytes(SubSeq(us, 1, n)) = SubSeq(t, 0 + 1, x)
    BY <1>5, <2>1, <2>3
  <2>10. SubSeq(t, 0 + 1, x) \o SubSeq(t, x + 1, e) = SubSeq(t, 0 + 1, e)
    <3>1. PICK z \in Nat : z = 0
      OBVIOUS
    <3>2. z <= x /\ x <= e /\ e <= Len(t)
      BY <1>2, <2>4, <3>1
    <3>3. SubSeq(t, z + 1, x) \o SubSeq(t, x + 1, e) = SubSeq(t, z + 1, e)
      BY <3>2, CutApart
    <3>4. QED
      BY <3>1, <3>3
  <2>11. 0 + 1 = 1
    OBVIOUS
  <2>12. QED
    BY <2>4, <2>7, <2>8, <2>9, <2>10, <2>11
<1>6. m \in T
  <2> HIDE DEF T
  <2>1. QED
    BY <1>2, <1>4, <1>5, ByInduction
<1>7. UnitEnd(t, m) = l
  BY <1>2 DEF UnitEnd
<1>8. SubSeq(us, 1, m) = us /\ SubSeq(t, 1, l) = t
  <2>1. SubSeq(us, 1, Len(us)) = us
    BY <1>3, WholeList
  <2>2. SubSeq(t, 1, Len(t)) = t
    BY WholeList
  <2>3. QED
    BY <1>2, <2>1, <2>2
<1>9. Bytes(SubSeq(us, 1, m)) = SubSeq(t, 1, UnitEnd(t, m))
  BY <1>2, <1>6
<1>10. QED
  BY <1>1, <1>7, <1>8, <1>9

\* A text.
Textual(c) == c \in Seq(Byte)
\* A stream, whole, cut short or with a tail that does not check.
Streaming(c) ==
  \E k \in Supported, t \in Seq(Byte) :
    \/ \E n \in 0 .. Len(Frame(k, t)) : c = SubSeq(Frame(k, t), 1, n)
    \/ c = [Frame(k, t) EXCEPT ![Len(Frame(k, t))] = Trailer("bad")]
\* What a file may hold.
Content(c) == c = Absent \/ Textual(c) \/ Streaming(c)

\* A whole stream begins with its head, ends with its only tail, and gives its text.
LEMMA FrameShape ==
  ASSUME NEW k \in Supported, NEW t \in Seq(Byte)
  PROVE  /\ Frame(k, t) \in Seq(Cell) /\ Len(Frame(k, t)) = Len(Units(t)) + 2
         /\ Frame(k, t)[1] = Header(k) /\ Frame(k, t)[Len(Frame(k, t))] = Trailer(k)
         /\ \A n \in 1 .. Len(Frame(k, t)) : Frame(k, t)[n][1] = "tail" => n = Len(Frame(k, t))
         /\ Bytes(Frame(k, t)) = t
<1>1. Header(k) \in Cell /\ Trailer(k) \in Cell /\ Datum \subseteq Cell
  BY DEF Cell, Marks, Datum
<1>2. PICK h \in Cell, e \in Cell : h = Header(k) /\ e = Trailer(k) /\ h[1] = "head" /\ e[1] = "tail"
  BY <1>1 DEF Header, Trailer
<1>3. PICK us : us = Units(t) /\ us \in Seq(Datum) /\ us \in Seq(Cell)
  <2>1. Units(t) \in Seq(Datum)
    BY UnitShape
  <2>2. Units(t) \in Seq(Cell)
    BY <2>1, <1>1
  <2>3. QED
    BY <2>1, <2>2
<1>4. PICK m \in Nat : m = Len(us) /\ \A n \in 1 .. m : us[n] \in Datum
  BY <1>3
<1>5. PICK f : f = Frame(k, t)
  OBVIOUS
<1>6. f = <<h>> \o us \o <<e>>
  BY <1>2, <1>3, <1>5 DEF Frame
<1>7. f \in Seq(Cell) /\ Len(f) = m + 2 /\ f[1] = h /\ \A n \in 1 .. m : f[n + 1] = us[n]
  BY <1>2, <1>3, <1>4, <1>6, Between
<1>8. f[m + 2] = e
  <2>1. PICK g : g = <<h>> \o us
    OBVIOUS
  <2>2. g \in Seq(Cell) /\ Len(g) = m + 1
    BY <1>2, <1>3, <1>4, <2>1
  <2>3. QED
    BY <1>2, <1>6, <2>1, <2>2
<1>9. ASSUME NEW n \in 1 .. m + 2, f[n][1] = "tail" PROVE n = m + 2
  <2>1. n # 1
    BY <1>2, <1>7, <1>9
  <2>2. ASSUME n \in 2 .. m + 1 PROVE FALSE
    <3>1. n - 1 \in 1 .. m /\ (n - 1) + 1 = n
      BY <2>2
    <3>2. f[n] \in Datum
      BY <1>4, <1>7, <3>1
    <3>3. QED
      BY <1>9, <3>2 DEF Datum
  <2>3. QED
    BY <1>9, <2>1, <2>2
<1>10. Bytes(f) = t
  <2>1. <<h>> \in Seq(Cell) /\ <<e>> \in Seq(Cell) /\ <<h>> \o us \in Seq(Cell)
    BY <1>2, <1>3
  <2>2. Bytes(<<h>>) = <<>> /\ Bytes(<<e>>) = <<>>
    <3>1. <<>> \in Seq(Cell) /\ Append(<<>>, h) = <<h>> /\ Append(<<>>, e) = <<e>>
      OBVIOUS
    <3>2. Bytes(<<>>) = <<>> /\ Bytes(Append(<<>>, h)) = Bytes(<<>>) \o Part(h) /\ Bytes(Append(<<>>, e)) = Bytes(<<>>) \o Part(e)
      BY <3>1, <1>2, BytesGrow
    <3>3. Part(h) = <<>> /\ Part(e) = <<>>
      BY <1>2 DEF Part
    <3>4. <<>> \o <<>> = <<>>
      OBVIOUS
    <3>5. QED
      BY <3>1, <3>2, <3>3, <3>4
  <2>3. Bytes(f) = Bytes(<<h>> \o us) \o Bytes(<<e>>)
    BY <1>6, <2>1, BytesJoined
  <2>4. Bytes(<<h>> \o us) = Bytes(<<h>>) \o Bytes(us)
    BY <1>3, <2>1, BytesJoined
  <2>5. Bytes(us) = t
    BY <1>3, UnitsGive
  <2>6. <<>> \o t = t /\ t \o <<>> = t
    OBVIOUS
  <2>7. QED
    BY <2>2, <2>3, <2>4, <2>5, <2>6
<1>11. QED
  BY <1>2, <1>3, <1>4, <1>5, <1>7, <1>8, <1>9, <1>10

\* A stream begins with a head; a tail is its last cell, and a good one makes it whole.
LEMMA StreamShape ==
  ASSUME NEW c, Streaming(c)
  PROVE  /\ c \in Seq(Cell)
         /\ c # <<>> => \E k \in Supported : c[1] = Header(k)
         /\ \A n \in 1 .. Len(c) : c[n][1] = "tail" => n = Len(c)
         /\ \A n \in 1 .. Len(c) : c[n][1] = "tail" /\ c[n] # Trailer("bad") =>
              \E k \in Supported : c = Frame(k, Bytes(c))
<1>1. PICK k \in Supported, t \in Seq(Byte) :
        \/ \E n \in 0 .. Len(Frame(k, t)) : c = SubSeq(Frame(k, t), 1, n)
        \/ c = [Frame(k, t) EXCEPT ![Len(Frame(k, t))] = Trailer("bad")]
  BY DEF Streaming
<1>2. PICK f : f = Frame(k, t)
  OBVIOUS
<1>3. PICK l \in Nat : l = Len(f) /\ f \in Seq(Cell) /\ l >= 2 /\ f[1] = Header(k) /\ f[l] = Trailer(k)
                       /\ \A n \in 1 .. l : f[n][1] = "tail" => n = l
  <2>1. Len(Units(t)) \in Nat
    BY UnitShape
  <2>2. Frame(k, t) \in Seq(Cell) /\ Len(Frame(k, t)) = Len(Units(t)) + 2
        /\ Frame(k, t)[1] = Header(k) /\ Frame(k, t)[Len(Frame(k, t))] = Trailer(k)
        /\ \A n \in 1 .. Len(Frame(k, t)) : Frame(k, t)[n][1] = "tail" => n = Len(Frame(k, t))
    BY FrameShape
  <2>3. QED
    BY <1>2, <2>1, <2>2
<1>4. Bytes(f) = t
  BY <1>2, FrameShape
<1>5. CASE c = f
  BY <1>2, <1>3, <1>4, <1>5
<1>6. ASSUME NEW n \in 0 .. l, n # l, c = SubSeq(f, 1, n) PROVE
         /\ c \in Seq(Cell)
         /\ c # <<>> => c[1] = Header(k)
         /\ \A at \in 1 .. Len(c) : c[at][1] # "tail"
  <2>1. c \in Seq(Cell) /\ Len(c) = n /\ \A at \in 1 .. n : c[at] = f[at]
    BY <1>3, <1>6
  <2>2. c # <<>> => n # 0
    BY <2>1
  <2>3. n # 0 => c[1] = f[1]
    BY <2>1
  <2>4. \A at \in 1 .. n : at \in 1 .. l /\ at # l
    BY <1>6
  <2>5. QED
    BY <1>3, <2>1, <2>2, <2>3, <2>4
<1>7. CASE c = [f EXCEPT ![l] = Trailer("bad")]
  <2>1. PICK e \in Cell : e = Trailer("bad")
    BY DEF Cell, Marks
  <2>2. c \in Seq(Cell) /\ Len(c) = l /\ c[1] = f[1] /\ \A at \in 1 .. l : c[at] = IF at = l THEN e ELSE f[at]
    BY <1>3, <1>7, <2>1
  <2>3. QED
    BY <1>3, <2>1, <2>2
<1>8. \A n \in 0 .. l : c = SubSeq(f, 1, n) => n # l \/ c = f
  BY <1>3, WholeList
<1>9. CASE \E n \in 0 .. l : c = SubSeq(f, 1, n)
  <2>1. PICK n \in 0 .. l : c = SubSeq(f, 1, n)
    BY <1>9
  <2>2. CASE n # l
    BY <1>6, <2>1, <2>2
  <2>3. CASE n = l
    BY <1>5, <1>8, <2>1, <2>3
  <2>4. QED
    BY <2>2, <2>3
<1>10. QED
  BY <1>1, <1>2, <1>3, <1>7, <1>9

\* What a file holds is made of cells, and what has bytes in it is a text.
LEMMA ContentShape ==
  ASSUME NEW c, Content(c), c # Absent
  PROVE  /\ c \in Seq(Cell)
         /\ Textual(c) => \A n \in 1 .. Len(c) : c[n][1] = "byte"
         /\ c # <<>> /\ (\A n \in 1 .. Len(c) : c[n][1] = "byte") => Textual(c)
         /\ c # <<>> /\ (\E k \in Supported \cup {"bad"} : c[1] = Header(k)) => Streaming(c)
<1>1. CASE Textual(c)
  <2>1. Byte \subseteq Cell
    BY DEF Cell
  <2>2. c \in Seq(Cell)
    BY <1>1, <2>1 DEF Textual
  <2>3. \A n \in 1 .. Len(c) : c[n][1] = "byte"
    BY <1>1, Cells DEF Textual
  <2>4. c # <<>> => c[1][1] = "byte"
    BY <2>2, <2>3
  <2>5. QED
    BY <1>1, <2>2, <2>3, <2>4 DEF Header
<1>2. CASE Streaming(c) /\ ~Textual(c)
  <2>1. c \in Seq(Cell) /\ (c # <<>> => \E k \in Supported : c[1] = Header(k))
    BY <1>2, StreamShape
  <2>2. c # <<>> => 1 \in 1 .. Len(c) /\ c[1][1] = "head"
    BY <2>1 DEF Header
  <2>3. QED
    BY <1>2, <2>1, <2>2
<1>3. QED
  BY <1>1, <1>2 DEF Content

\* What the decoder has to give out when it has taken n units of us.
Have(pend, us, n) == pend \o Bytes(SubSeq(us, 1, n))
\* How many units the decoder takes.
TakenOf(pend, us, room) ==
  IF Len(Have(pend, us, Len(us))) <= room THEN Len(us)
  ELSE Min({n \in 0 .. Len(us) : Len(Have(pend, us, n)) > room})
\* The heads that the decoder of a kind takes.
Heads(kind) == {Header(k) : k \in IF kind \in Zlibs THEN Zlibs ELSE {"zstd"}}
\* A stream that begins with a head of another kind.
Wrong == ~call.inside /\ call.ibuf # <<>> /\ call.ibuf[1] \notin Heads(call.kind)

\* With one unit more, what it gives is added.
LEMMA HaveGrows ==
  ASSUME NEW pend \in Seq(Byte), NEW us \in Seq(Cell)
  PROVE  /\ \A n \in 0 .. Len(us) : Have(pend, us, n) \in Seq(Byte)
         /\ Have(pend, us, 0) = pend
         /\ \A n \in 1 .. Len(us) : Have(pend, us, n) = Have(pend, us, n - 1) \o Part(us[n])
<1>1. PICK l \in Nat : l = Len(us)
  OBVIOUS
<1>2. ASSUME NEW n \in 0 .. l PROVE SubSeq(us, 1, n) \in Seq(Cell) /\ Bytes(SubSeq(us, 1, n)) \in Seq(Byte)
  <2>1. SubSeq(us, 1, n) \in Seq(Cell)
    BY <1>1
  <2>2. QED
    BY <2>1, BytesJoined
<1>3. ASSUME NEW n \in 0 .. l PROVE Have(pend, us, n) \in Seq(Byte)
  <2>1. PICK b \in Seq(Byte) : b = Bytes(SubSeq(us, 1, n))
    BY <1>2
  <2>2. pend \o b \in Seq(Byte)
    OBVIOUS
  <2>3. QED
    BY <2>1, <2>2 DEF Have
<1>4. Have(pend, us, 0) = pend
  <2>1. SubSeq(us, 1, 0) = <<>> /\ pend \o <<>> = pend
    BY WholeList
  <2>2. Bytes(<<>>) = <<>>
    BY BytesGrow
  <2>3. QED
    BY <2>1, <2>2 DEF Have
<1>5. ASSUME NEW n \in 1 .. l PROVE Have(pend, us, n) = Have(pend, us, n - 1) \o Part(us[n])
  <2>1. PICK m \in Nat : m = n - 1 /\ m + 1 = n /\ m + 1 <= Len(us)
    BY <1>1
  <2>2. /\ SubSeq(us, 1, m) \in Seq(Cell) /\ us[m + 1] \in Cell
        /\ SubSeq(us, 1, m + 1) = Append(SubSeq(us, 1, m), us[m + 1])
    BY <2>1, OneLonger
  <2>3. Bytes(SubSeq(us, 1, m + 1)) = Bytes(SubSeq(us, 1, m)) \o Part(us[m + 1])
    BY <2>2, BytesGrow
  <2>4. Bytes(SubSeq(us, 1, m)) \in Seq(Byte) /\ Part(us[m + 1]) \in Seq(Byte)
    BY <2>2, BytesJoined, Cells
  <2>5. (pend \o Bytes(SubSeq(us, 1, m))) \o Part(us[m + 1]) = pend \o (Bytes(SubSeq(us, 1, m)) \o Part(us[m + 1]))
    BY <2>4, Associated, SMTT(60)
  <2>6. QED
    BY <2>1, <2>3, <2>5 DEF Have
<1>6. QED
  BY <1>1, <1>3, <1>4, <1>5

\* What the decoder takes; a tail only when everything before it fits.
LEMMA TakenShape ==
  ASSUME NEW pend \in Seq(Byte), NEW us \in Seq(Cell), NEW room \in Nat, NEW took,
         took = TakenOf(pend, us, room)
  PROVE  /\ took \in 0 .. Len(us)
         /\ took # 0 /\ us[took][1] = "tail" => Len(Have(pend, us, took)) <= room
         /\ Len(Have(pend, us, took)) > room \/ took = Len(us)
<1>1. PICK l \in Nat : l = Len(us)
  OBVIOUS
<1>2. CASE Len(Have(pend, us, l)) <= room
  BY <1>1, <1>2 DEF TakenOf
<1>3. CASE ~(Len(Have(pend, us, l)) <= room)
  <2>1. PICK S : S = {n \in 0 .. l : Len(Have(pend, us, n)) > room}
    OBVIOUS
  <2>2. \A n \in 0 .. l : Len(Have(pend, us, n)) \in Nat
    BY <1>1, HaveGrows
  <2>3. l \in S /\ S \subseteq Nat
    BY <1>3, <2>1, <2>2
  <2>4. PICK m \in S : \A n \in S : m <= n
    BY <2>3, LeastNumber
  <2>5. Min(S) = m
    <3>1. \A x \in S : (\A y \in S : x <= y) => x = m
      BY <2>3, <2>4
    <3>2. QED
      BY <2>4, <3>1 DEF Min
  <2>6. took = m
    BY <1>1, <1>3, <2>1, <2>5 DEF TakenOf
  <2>7. m \in 0 .. l /\ Len(Have(pend, us, m)) > room
    BY <2>1
  <2>8. ASSUME m # 0, us[m][1] = "tail" PROVE FALSE
    <3>1. m - 1 \in 0 .. l /\ m - 1 \notin S
      BY <2>3, <2>4, <2>7, <2>8
    <3>2. Len(Have(pend, us, m - 1)) <= room
      BY <2>1, <2>2, <3>1
    <3>3. Part(us[m]) = <<>>
      BY <2>8 DEF Part
    <3>4. Have(pend, us, m - 1) \in Seq(Byte) /\ Have(pend, us, m) = Have(pend, us, m - 1) \o Part(us[m])
      <4>1. m \in 1 .. Len(us) /\ m - 1 \in 0 .. Len(us)
        BY <1>1, <2>7, <2>8, <3>1
      <4>2. QED
        BY <4>1, HaveGrows
    <3>5. Have(pend, us, m) = Have(pend, us, m - 1)
      BY <3>3, <3>4, WholeList
    <3>6. QED
      BY <2>2, <2>7, <3>1, <3>2, <3>5
  <2>9. QED
    BY <1>1, <2>6, <2>7, <2>8
<1>4. QED
  BY <1>2, <1>3

\* What a round of the decoder does with its input.
DecodedWell(round, room) ==
  /\ round.says \in {"ok", "end", "error"} /\ (round.inside <=> call.inside \/ call.ibuf # <<>>)
  /\ round.says = "error" => Wrong \/ \E n \in 1 .. Len(call.ibuf) : call.ibuf[n] = Trailer("bad")
  /\ round.says # "error" => ~Wrong /\
       \E took \in 0 .. Len(call.ibuf) :
         /\ round.ibuf = SubSeq(call.ibuf, took + 1, Len(call.ibuf))
         /\ round.pend \in Seq(Byte) /\ round.out \in Seq(Byte) /\ Len(round.out) <= room
         /\ round.out \o round.pend = call.pend \o Bytes(SubSeq(call.ibuf, 1, took))
         /\ round.says = "end" => /\ took # 0 /\ call.ibuf[took][1] = "tail"
                              /\ call.ibuf[took] # Trailer("bad") /\ round.pend = <<>>
         /\ round.says = "ok" => took = 0 \/ call.ibuf[took][1] # "tail"
         /\ room # 0 /\ round.out = <<>> /\ took = 0 => call.ibuf = <<>>

\* A round does so, whatever the room.
LEMMA DecodedDoes ==
  ASSUME call.ibuf \in Seq(Cell), call.pend \in Seq(Byte), NEW room \in Nat
  PROVE  DecodedWell(Decoded(room), room)
<1>1. PICK us \in Seq(Cell), pend \in Seq(Byte), l \in Nat : us = call.ibuf /\ pend = call.pend /\ l = Len(us)
  OBVIOUS
<1>2. PICK took : took = TakenOf(pend, us, room)
  OBVIOUS
<1>3. /\ took \in 0 .. l
      /\ took # 0 /\ us[took][1] = "tail" => Len(Have(pend, us, took)) <= room
      /\ Len(Have(pend, us, took)) > room \/ took = l
  BY <1>1, <1>2, TakenShape
<1>4. PICK h \in Seq(Byte), m \in Nat : h = Have(pend, us, took) /\ m = Len(h)
  <2>1. Have(pend, us, took) \in Seq(Byte)
    BY <1>1, <1>3, HaveGrows
  <2>2. QED
    BY <2>1
<1>5. PICK round : round = Decoded(room)
  OBVIOUS
<1>6. PICK last : last = IF took = 0 THEN <<"none", "none">> ELSE us[took]
  OBVIOUS
<1>7. PICK o \in Nat : o = Min({room, m}) /\ o <= room /\ o <= m /\ (m <= room => o = m) /\ (o = room \/ o = m)
  <2>1. Min({room, m}) = IF room <= m THEN room ELSE m
    BY TheSmaller
  <2>2. QED
    BY <2>1
<1>8. PICK out : out = SubSeq(h, 1, o)
  OBVIOUS
<1>9. out \in Seq(Byte) /\ Len(out) = o /\ SubSeq(h, o + 1, m) \in Seq(Byte) /\ out \o SubSeq(h, o + 1, m) = h
      /\ (o = m => SubSeq(h, o + 1, m) = <<>>)
  <2>1. SubSeq(h, 1, m) = h
    BY <1>4, WholeList
  <2>2. SubSeq(h, 0 + 1, o) \o SubSeq(h, o + 1, m) = SubSeq(h, 0 + 1, m)
    <3>1. 0 \in Nat /\ 0 <= o /\ o <= m /\ m <= Len(h)
      BY <1>4, <1>7
    <3>2. PICK z \in Nat : z = 0
      OBVIOUS
    <3>3. z <= o /\ o <= m /\ m <= Len(h)
      BY <3>1, <3>2
    <3>4. SubSeq(h, z + 1, o) \o SubSeq(h, o + 1, m) = SubSeq(h, z + 1, m)
      BY <3>3, CutApart
    <3>5. QED
      BY <3>2, <3>4
  <2>3. 0 + 1 = 1
    OBVIOUS
  <2>4. SubSeq(h, 1, o) \in Seq(Byte) /\ Len(SubSeq(h, 1, o)) = o /\ SubSeq(h, o + 1, m) \in Seq(Byte)
    <3>1. 0 <= o /\ o <= m /\ m <= Len(h) /\ o - 0 = o /\ 0 + 1 = 1
      BY <1>4, <1>7
    <3>2. SubSeq(h, 0 + 1, o) \in Seq(Byte) /\ Len(SubSeq(h, 0 + 1, o)) = o - 0
      BY <3>1, Piece
    <3>3. SubSeq(h, o + 1, m) \in Seq(Byte)
      BY <3>1, Piece
    <3>4. QED
      BY <3>1, <3>2, <3>3
  <2>5. o = m => SubSeq(h, o + 1, m) = <<>>
    BY <1>4, <1>7
  <2>6. QED
    BY <1>8, <2>1, <2>2, <2>3, <2>4, <2>5
<1>10. round = [out |-> IF Wrong THEN <<>> ELSE out, pend |-> SubSeq(h, o + 1, m),
            ibuf |-> SubSeq(us, took + 1, l), inside |-> call.inside \/ us # <<>>,
            says |-> IF Wrong \/ last = Trailer("bad") THEN "error"
                     ELSE IF last[1] = "tail" THEN "end" ELSE "ok"]
  <2>1. out = SubSeq(Have(pend, us, took), 1, Min({room, Len(Have(pend, us, took))}))
    BY <1>4, <1>7, <1>8
  <2>2. Len(out) = o /\ m = Len(Have(pend, us, took)) /\ h = Have(pend, us, took)
    BY <1>4, <1>9
  <2>3. Decoded(room) =
          [out |-> IF Wrong THEN <<>>
                   ELSE SubSeq(Have(pend, us, took), 1, Min({room, Len(Have(pend, us, took))})),
           pend |-> SubSeq(Have(pend, us, took),
                           Len(SubSeq(Have(pend, us, took), 1, Min({room, Len(Have(pend, us, took))}))) + 1,
                           Len(Have(pend, us, took))),
           ibuf |-> SubSeq(us, took + 1, Len(us)), inside |-> call.inside \/ us # <<>>,
           says |-> IF Wrong \/ (IF took = 0 THEN <<"none", "none">> ELSE us[took]) = Trailer("bad")
                    THEN "error"
                    ELSE IF (IF took = 0 THEN <<"none", "none">> ELSE us[took])[1] = "tail" THEN "end"
                    ELSE "ok"]
    BY <1>1, <1>2, SMTT(60) DEF Decoded, TakenOf, Have, Wrong, Heads
  <2>4. QED
    BY <1>1, <1>5, <1>6, <2>1, <2>2, <2>3, Zenon
<1>11. PICK w \in {TRUE, FALSE}, at \in {TRUE, FALSE} : (w <=> Wrong) /\ (at <=> call.inside \/ us # <<>>)
  OBVIOUS
<1>12. round.says \in {"ok", "end", "error"} /\ (round.inside <=> call.inside \/ us # <<>>)
       /\ (round.says = "error" <=> Wrong \/ last = Trailer("bad"))
       /\ (round.says = "end" => last[1] = "tail") /\ (round.says = "ok" => last[1] # "tail")
       /\ (~Wrong => round.out = out) /\ round.pend = SubSeq(h, o + 1, m) /\ round.ibuf = SubSeq(us, took + 1, l)
  BY <1>10, Zenon
<1>13. last = Trailer("bad") => took \in 1 .. l /\ us[took] = Trailer("bad")
  BY <1>3, <1>6 DEF Trailer
<1>14. last[1] = "tail" => took # 0 /\ last = us[took]
  BY <1>6
<1>15. took # 0 => last = us[took]
  BY <1>6
<1>16. ASSUME round.says # "error" PROVE ~Wrong /\ last # Trailer("bad") /\ round.out = out
  BY <1>12, <1>16
<1>17. ASSUME round.says = "end" PROVE took # 0 /\ us[took][1] = "tail" /\ us[took] # Trailer("bad") /\ round.pend = <<>>
  <2>1. took # 0 /\ us[took][1] = "tail" /\ last = us[took] /\ last # Trailer("bad")
    BY <1>12, <1>14, <1>16, <1>17
  <2>2. m <= room
    BY <1>3, <1>4, <2>1
  <2>3. o = m
    BY <1>7, <2>2
  <2>4. QED
    BY <1>9, <1>12, <2>1, <2>3
<1>18. ASSUME room # 0, out = <<>>, took = 0 PROVE us = <<>>
  <2>1. o = 0
    BY <1>9, <1>18
  <2>2. m = 0
    BY <1>7, <1>18, <2>1
  <2>3. l = 0
    <3>1. ~(m > room) /\ m = Len(Have(pend, us, took))
      BY <1>4, <2>2
    <3>2. took = l
      BY <1>3, <3>1
    <3>3. QED
      BY <1>18, <3>2
  <2>4. us \in Seq(Cell) /\ Len(us) = 0
    BY <1>1, <2>3
  <2>5. \A x \in Seq(Cell) : Len(x) = 0 => x = <<>>
    OBVIOUS
  <2>6. QED
    BY <2>4, <2>5
<1>19. h = pend \o Bytes(SubSeq(us, 1, took))
  BY <1>4 DEF Have
<1>20. ASSUME round.says # "error" PROVE
         /\ round.ibuf = SubSeq(us, took + 1, l)
         /\ round.pend \in Seq(Byte) /\ round.out \in Seq(Byte) /\ Len(round.out) <= room
         /\ round.out \o round.pend = pend \o Bytes(SubSeq(us, 1, took))
         /\ round.says = "end" => took # 0 /\ us[took][1] = "tail" /\ us[took] # Trailer("bad") /\ round.pend = <<>>
         /\ round.says = "ok" => took = 0 \/ us[took][1] # "tail"
         /\ room # 0 /\ round.out = <<>> /\ took = 0 => us = <<>>
  BY <1>7, <1>9, <1>12, <1>15, <1>16, <1>17, <1>18, <1>19, <1>20
<1>21. round.says = "error" => Wrong \/ \E n \in 1 .. l : us[n] = Trailer("bad")
  BY <1>12, <1>13
<1> HIDE DEF Wrong
<1>22. DecodedWell(round, room)
  BY <1>1, <1>3, <1>12, <1>16, <1>20, <1>21 DEF DecodedWell
<1>23. QED
  BY <1>5, <1>22

\* What a call is made of.
CallFields == {"pc", "op", "kind", "in", "out", "keep", "held", "was", "pos", "ibuf", "last", "pend",
               "queue", "inside", "buffered", "cap", "given", "ret", "fault"}

\* The calls on files.
OnFiles(c) == c.op \in {"compress", "decompress"}

\* Why a call may fail, and what it answers when it does not.
Excused(c) ==
  \/ c.fault \/ c.kind \notin Supported
  \/ c.op \in {"decompress", "decompress_buffer"} /\ (~Whole(c.was) \/ ~Fits(c.kind, c.was))
\* What a call answers when it does not fail.
Exact(c, out) ==
  IF c.op \in {"compress", "compress_buffer"} THEN out = Frame(c.kind, c.was)
  ELSE \E k \in Supported : c.was = Frame(k, out)

\* A call is where its operation passes, and the input of files is untouched.
InPlace(c, f) ==
  /\ c.pc \in {"read", "deflate", "inflate", "close", "remove_out", "remove_in"} =>
       OnFiles(c) /\ c.in # c.out /\ f[c.in] = c.held /\ {c.in, c.out} \subseteq Paths
  /\ c.pc = "deflate" => c.op = "compress"
  /\ c.pc = "inflate" => c.op = "decompress"
  /\ c.pc = "grow" => c.op = "decompress_buffer"

\* What the encoder has not made yet of the stream.
StillAhead(c) ==
  IF c.inside THEN <<>>
  ELSE Units(c.pend \o c.ibuf \o SubSeq(c.was, c.pos + 1, Len(c.was))) \o <<Trailer(c.kind)>>

\* The output, what waits in the encoder and what is ahead are the whole stream.
EncodesWell(c, f) ==
  /\ c.kind \in Supported /\ Textual(c.was) /\ c.pos \in 0 .. Len(c.was)
  /\ Textual(c.ibuf) /\ Textual(c.pend) /\ c.queue \in Seq(Cell)
  /\ f[c.out] \in Seq(Cell) /\ c.buffered \in Seq(Cell)
  /\ c.last => c.pos = Len(c.was)
  /\ c.inside => c.pend = <<>> /\ c.ibuf = <<>> /\ c.last
  /\ f[c.out] \o (c.buffered \o (c.queue \o StillAhead(c))) = Frame(c.kind, c.was)
  /\ c.pc = "close" => c.inside /\ c.queue = <<>>
  /\ c.pc = "read" => c.ibuf = <<>> /\ ~c.inside
\* While it compresses.
Encoding(c, f) ==
  c.op = "compress" /\ c.pc \in {"read", "deflate", "close"} => EncodesWell(c, f)

\* Where the decoder is: what it has not taken, what it has given out and keeps, of n cells of the stream.
AtCell(n, was, came, ibuf, given, pend, inside) ==
  /\ n \in 0 .. came /\ ibuf = SubSeq(was, n + 1, came)
  /\ given \o pend = Bytes(SubSeq(was, 1, n))
  /\ (inside => Streaming(was)) /\ (~inside => n = 0)
  /\ \A at \in 1 .. n : was[at][1] # "tail"

\* What was given out and what waits in the decoder are the bytes of what it has taken.
Given(c, f) == IF OnFiles(c) THEN f[c.out] \o c.buffered ELSE c.given
\* What has been read of the stream.
Came(c) == IF OnFiles(c) THEN c.pos ELSE Len(c.was)
\* While it decodes, what was given out and is kept are the bytes of the cells taken.
DecodesWell(c, f) ==
  /\ c.kind \in Supported /\ Came(c) \in 0 .. Len(c.was)
  /\ OnFiles(c) => f[c.out] \in Seq(Byte) /\ c.buffered \in Seq(Byte)
  /\ Given(c, f) \in Seq(Byte) /\ c.pend \in Seq(Byte)
  /\ c.last => Came(c) = Len(c.was)
  /\ c.pc = "read" => c.ibuf = <<>>
  /\ c.pc = "grow" => c.cap \in Nat /\ Len(c.given) <= c.cap
  /\ IF c.pc = "close" THEN Exact(c, Given(c, f))
     ELSE \E n : AtCell(n, c.was, Came(c), c.ibuf, Given(c, f), c.pend, c.inside)
\* While it decompresses.
Decoding(c, f) ==
  c.op \in {"decompress", "decompress_buffer"} /\ c.pc \in {"read", "inflate", "grow", "close"} =>
    DecodesWell(c, f)

\* What a call answers, or is going to answer.
Answered(c, f) ==
  /\ c.pc = "remove_in" => c.ret = "OK" /\ Exact(c, f[c.out])
  /\ c.pc = "remove_out" => c.ret # "OK" /\ Excused(c)
  /\ c.pc = "returned" =>
       IF c.ret = "OK" THEN IF OnFiles(c) THEN Exact(c, f[c.out]) ELSE Exact(c, c.given)
       ELSE Excused(c) /\ (OnFiles(c) => f[c.in] = c.held /\ (c.out # c.in => f[c.out] = Absent))

\* A stream without its tail.
NoTail(s) == \A n \in 1 .. Len(s) : s[n][1] # "tail"
\* What was read is the input, unless a read has failed: then no tail was read.
HeldWell(c) ==
  OnFiles(c) => c.out \in Paths /\ (c.was = c.held \/ c.op = "compress" \/ NoTail(c.was))

\* A call that runs or has returned.
LiveCall(c, f) ==
  /\ DOMAIN c = CallFields
  /\ c.pc \in {"read", "deflate", "inflate", "close", "remove_out", "remove_in", "grow", "returned"}
  /\ c.op \in {"compress", "decompress", "compress_buffer", "decompress_buffer"}
  /\ Content(c.was) /\ c.was # Absent /\ HeldWell(c)
  /\ InPlace(c, f) /\ Encoding(c, f) /\ Decoding(c, f) /\ Answered(c, f)
\* What the files hold.
LiveFiles(f) == DOMAIN f = Paths /\ \A p \in Paths : Content(f[p])
\* The inductive invariant.
LiveInv == LiveFiles(files) /\ (call = Idle \/ LiveCall(call, files))

\* The texts are made of bytes, and contents are what the system may start from.
LEMMA TextsTextual ==
  \A t \in Texts : t \in Seq(Byte)
<1> SUFFICES ASSUME NEW t \in Texts PROVE t \in Seq(Byte)
  OBVIOUS
<1>1. t \in Seq(ToSet(t))
  BY CompressAssumption
<1>2. ToSet(t) \subseteq Byte
  BY DEF Byte
<1>3. QED
  BY <1>1, <1>2

\* A tail is the last of what it is in; a stream that is whole ends in one.
LEMMA TailsLast ==
  ASSUME NEW c, Content(c), c # Absent
  PROVE  /\ c \in Seq(Cell)
         /\ \A n \in 1 .. Len(c) : c[n][1] = "tail" => n = Len(c) /\ Streaming(c)
         /\ Whole(c) => Len(c) # 0 /\ c[Len(c)][1] = "tail" /\ c[Len(c)] # Trailer("bad")
         /\ Whole(c) => \A n \in 1 .. Len(c) : c[n] # Trailer("bad")
         /\ Whole(c) => \E k \in Supported : c[1] = Header(k) /\ Detect(c) = k
<1>1. c \in Seq(Cell)
  BY ContentShape
<1>2. ASSUME NEW n \in 1 .. Len(c), c[n][1] = "tail" PROVE n = Len(c) /\ Streaming(c)
  <2>1. ~Textual(c)
    <3>1. Textual(c) => \A at \in 1 .. Len(c) : c[at][1] = "byte"
      BY ContentShape
    <3>2. QED
      BY <1>2, <3>1
  <2>2. Streaming(c)
    BY <2>1 DEF Content
  <2>3. \A at \in 1 .. Len(c) : c[at][1] = "tail" => at = Len(c)
    BY <2>2, StreamShape
  <2>4. QED
    BY <1>2, <2>2, <2>3
<1>3. ASSUME Whole(c) PROVE
        /\ Len(c) # 0 /\ c[Len(c)][1] = "tail" /\ c[Len(c)] # Trailer("bad")
        /\ \A n \in 1 .. Len(c) : c[n] # Trailer("bad")
        /\ \E k \in Supported : c[1] = Header(k) /\ Detect(c) = k
  <2>1. PICK k \in Supported, t \in Texts : c = Frame(k, t)
    BY <1>3 DEF Whole
  <2>2. t \in Seq(Byte)
    BY TextsTextual
  <2>3. PICK u \in Nat : u = Len(Units(t))
    BY <2>2, UnitShape
  <2>4. /\ Len(c) = u + 2 /\ c[1] = Header(k) /\ c[Len(c)] = Trailer(k)
        /\ \A n \in 1 .. Len(c) : c[n][1] = "tail" => n = Len(c)
    BY <2>1, <2>2, <2>3, FrameShape
  <2>5. Trailer(k)[1] = "tail" /\ Trailer("bad")[1] = "tail" /\ Trailer(k) # Trailer("bad")
    BY DEF Trailer, Supported
  <2>6. \A n \in 1 .. Len(c) : c[n] # Trailer("bad")
    BY <2>4, <2>5
  <2>7. c # <<>> /\ Header(k)[1] = "head" /\ Header(k)[2] = k
    BY <1>1, <2>4 DEF Header
  <2>8. Detect(c) = k
    BY <2>4, <2>7 DEF Detect
  <2>9. QED
    BY <2>4, <2>5, <2>6, <2>8
<1>4. QED
  BY <1>1, <1>2, <1>3

\* A head that the decoder refuses does not fit.
LEMMA WrongUnfit ==
  ASSUME NEW c, Content(c), c # Absent, NEW kind \in Supported, c # <<>>, c[1] \notin Heads(kind)
  PROVE  ~Whole(c) \/ ~Fits(kind, c)
<1> SUFFICES ASSUME Whole(c), Fits(kind, c) PROVE FALSE
  OBVIOUS
<1>1. PICK k \in Supported : c[1] = Header(k) /\ Detect(c) = k
  BY TailsLast
<1>2. k = kind \/ (k \in Zlibs /\ kind \in Zlibs)
  BY <1>1 DEF Fits
<1>3. kind \notin Zlibs => kind = "zstd"
  BY DEF Zlibs, Supported
<1>4. Header(k) \in Heads(kind)
  BY <1>2, <1>3 DEF Heads
<1>5. QED
  BY <1>1, <1>4

\* A head that the decoder takes is that of a stream.
LEMMA HeadsStream ==
  ASSUME NEW c, Content(c), c # Absent, NEW kind \in Supported, c # <<>>, c[1] \in Heads(kind)
  PROVE  Streaming(c)
<1>1. \E k \in Supported : c[1] = Header(k)
  BY DEF Heads, Zlibs, Supported
<1>2. QED
  BY <1>1, ContentShape

\* What a call is when it has changed only its buffer.
SameCall(n, c) ==
  /\ DOMAIN n = CallFields
  /\ n.pc = c.pc /\ n.op = c.op /\ n.kind = c.kind /\ n.in = c.in /\ n.out = c.out
  /\ n.was = c.was /\ n.held = c.held /\ n.pos = c.pos /\ n.ibuf = c.ibuf /\ (n.last <=> c.last) /\ n.pend = c.pend
  /\ n.queue = c.queue /\ (n.inside <=> c.inside) /\ n.cap = c.cap /\ n.given = c.given
  /\ n.ret = c.ret /\ (n.fault <=> c.fault)

\* A call that has failed, and removes its output next.
Failing(n, c) ==
  /\ DOMAIN n = CallFields /\ n.pc = "remove_out" /\ n.ret # "OK"
  /\ n.op = c.op /\ n.kind = c.kind /\ n.in = c.in /\ n.out = c.out /\ n.was = c.was /\ n.held = c.held

\* What fwrite does: the output grows by the data, or the call fails.
LEMMA WriteDoes ==
  ASSUME DOMAIN call = CallFields, NEW c, NEW data \in Seq(Cell), Write(c, data),
         DOMAIN c = CallFields, c.out = call.out, c.buffered = call.buffered,
         DOMAIN files = Paths, call.out \in Paths, files[call.out] \in Seq(Cell), call.buffered \in Seq(Cell)
  PROVE  \/ Failing(call', call) /\ call'.fault /\ files' = files
         \/ /\ SameCall(call', c)
            /\ DOMAIN files' = Paths /\ \A p \in Paths \ {call.out} : files'[p] = files[p]
            /\ \/ files'[call.out] = files[call.out] /\ call'.buffered = call.buffered \o data
               \/ files'[call.out] = files[call.out] \o call.buffered /\ call'.buffered = data
<1>1. CASE data = <<>>
  <2>1. call' = c /\ files' = files
    BY <1>1 DEF Write
  <2>2. call.buffered \o <<>> = call.buffered
    BY WholeList
  <2>3. SameCall(c, c)
    BY DEF SameCall
  <2>4. QED
    BY <1>1, <2>1, <2>2, <2>3
<1>2. CASE data # <<>> /\ files' = [files EXCEPT ![call.out] = @ \o call.buffered] /\ call' = [c EXCEPT !.buffered = data]
  <2>1. PICK n : n = [c EXCEPT !.buffered = data]
    OBVIOUS
  <2>2. SameCall(n, c) /\ n.buffered = data
    BY <2>1 DEF SameCall, CallFields
  <2>3. QED
    BY <1>2, <2>1, <2>2
<1>3. CASE data # <<>> /\ call' = Fault(Give("EIO")) /\ UNCHANGED files
  <2>1. PICK n : n = Fault(Give("EIO"))
    OBVIOUS
  <2>2. Failing(n, call) /\ n.fault
    BY <2>1 DEF Failing, Fault, Give, CallFields
  <2>3. QED
    BY <1>3, <2>1, <2>2
<1>4. QED
  BY <1>1, <1>2, <1>3 DEF Write

\* The same for cells, as a plain formula.
LEMMA CellsAssociated ==
  \A p, q, r \in Seq(Cell) : (p \o q) \o r = p \o (q \o r)
  OBVIOUS

\* The same for bytes.
LEMMA BytesAssociated ==
  \A p, q, r \in Seq(Byte) : (p \o q) \o r = p \o (q \o r)
  OBVIOUS

\* What has been written, waits, is made now, is left and is ahead, in two groupings.
Regroups(g, b, m, l, a) ==
  /\ g \o ((b \o m) \o (l \o a)) = g \o (b \o ((m \o l) \o a))
  /\ (g \o b) \o (m \o (l \o a)) = g \o (b \o ((m \o l) \o a))

\* The two are one list.
LEMMA Regrouped ==
  ASSUME NEW g \in Seq(Cell), NEW b \in Seq(Cell), NEW m \in Seq(Cell), NEW l \in Seq(Cell),
         NEW a \in Seq(Cell)
  PROVE  Regroups(g, b, m, l, a)
<1> SUFFICES
         /\ g \o ((b \o m) \o (l \o a)) = g \o (b \o ((m \o l) \o a))
         /\ (g \o b) \o (m \o (l \o a)) = g \o (b \o ((m \o l) \o a))
  BY DEF Regroups
<1>1. \A p, q, r \in Seq(Cell) : (p \o q) \o r = p \o (q \o r)
  BY CellsAssociated, Zenon
<1>2. \A p, q \in Seq(Cell) : p \o q \in Seq(Cell)
  OBVIOUS
<1>3. (m \o l) \o a = m \o (l \o a)
  BY <1>1, SMTT(60)
<1>4. PICK y \in Seq(Cell), z \in Seq(Cell) : y = l \o a /\ z = m \o (l \o a)
  BY <1>2
<1>5. (b \o m) \o (l \o a) = b \o (m \o (l \o a))
  <2>1. (b \o m) \o y = b \o (m \o y)
    <3>1. \A q, r \in Seq(Cell) : (b \o q) \o r = b \o (q \o r)
      BY <1>1, Zenon
    <3>2. \A r \in Seq(Cell) : (b \o m) \o r = b \o (m \o r)
      BY <3>1, Zenon
    <3>3. QED
      BY <3>2, Zenon
  <2>2. QED
    BY <1>4, <2>1, Zenon
<1>6. (g \o b) \o (m \o (l \o a)) = g \o (b \o (m \o (l \o a)))
  <2>1. (g \o b) \o z = g \o (b \o z)
    <3>1. \A q, r \in Seq(Cell) : (g \o q) \o r = g \o (q \o r)
      BY <1>1, Zenon
    <3>2. \A r \in Seq(Cell) : (g \o b) \o r = g \o (b \o r)
      BY <3>1, Zenon
    <3>3. QED
      BY <3>2, Zenon
  <2>2. QED
    BY <1>4, <2>1, Zenon
<1>7. QED
  BY <1>3, <1>5, <1>6, Zenon

\* A beginning of a stream is what a file may hold.
LEMMA BeginningLives ==
  ASSUME NEW k \in Supported, NEW t \in Seq(Byte), NEW g \in Seq(Cell), NEW x \in Seq(Cell),
         g \o x = Frame(k, t)
  PROVE  Content(g)
<1>1. PICK n \in Nat, l \in Nat : n = Len(g) /\ l = Len(x)
  OBVIOUS
<1>2. Len(g \o x) = n + l /\ n \in 0 .. n + l
  BY <1>1
<1>3. SubSeq(g \o x, 1, n) = SubSeq(g, 1, n)
  <2>1. 1 \in Nat \ {0} /\ n \in Nat /\ n <= Len(g)
    BY <1>1
  <2>2. QED
    BY <2>1, LeftPart
<1>4. SubSeq(g, 1, n) = g
  BY <1>1, WholeList
<1>5. n \in 0 .. Len(Frame(k, t)) /\ g = SubSeq(Frame(k, t), 1, n)
  BY <1>2, <1>3, <1>4
<1>6. QED
  BY <1>5 DEF Content, Streaming

\* How much of a text are whole units.
WholeUnits(text) == (Len(text) \div Ratio) * Ratio

\* The units that are whole go, and the rest is cut with what comes later.
LEMMA UnitsOff ==
  ASSUME NEW text \in Seq(Byte), NEW onward \in Seq(Byte), NEW whole,
         whole = (Len(text) \div Ratio) * Ratio
  PROVE  /\ whole \in 0 .. Len(text)
         /\ SubSeq(text, 1, whole) \in Seq(Byte) /\ SubSeq(text, whole + 1, Len(text)) \in Seq(Byte)
         /\ Units(text \o onward) = Units(SubSeq(text, 1, whole)) \o Units(SubSeq(text, whole + 1, Len(text)) \o onward)
<1>1. PICK l \in Nat, r \in Nat \ {0}, m \in Nat : l = Len(text) /\ r = Ratio /\ m = l \div r /\ m * r <= l
  <2>1. PICK l \in Nat, r \in Nat \ {0} : l = Len(text) /\ r = Ratio
    BY CompressAssumption
  <2>2. QED
    BY <2>1, Quotient
<1>2. PICK w \in Nat : w = m * r
  BY <1>1, Multiples
<1>3. whole = w /\ w <= l
  BY <1>1, <1>2
<1>4. PICK a \in Seq(Byte), b \in Seq(Byte) : a = SubSeq(text, 0 + 1, w) /\ b = SubSeq(text, w + 1, l) /\ Len(a) = w - 0
  <2>1. 0 <= w /\ w <= l /\ l <= Len(text)
    BY <1>1, <1>3
  <2>2. SubSeq(text, 0 + 1, w) \in Seq(Byte) /\ Len(SubSeq(text, 0 + 1, w)) = w - 0
    BY <2>1, Piece
  <2>3. SubSeq(text, w + 1, l) \in Seq(Byte)
    BY <2>1, Piece
  <2>4. QED
    BY <2>2, <2>3
<1>5. a \o b = text
  <2>1. 0 <= w /\ w <= l /\ l <= Len(text) /\ 0 + 1 = 1
    BY <1>1, <1>3
  <2>2. SubSeq(text, 0 + 1, w) \o SubSeq(text, w + 1, l) = SubSeq(text, 0 + 1, l)
    <3>1. PICK z \in Nat : z = 0
      OBVIOUS
    <3>2. z <= w /\ w <= l /\ l <= Len(text)
      BY <1>1, <1>3, <2>1, <3>1
    <3>3. SubSeq(text, z + 1, w) \o SubSeq(text, w + 1, l) = SubSeq(text, z + 1, l)
      BY <2>1, <3>2, CutApart
    <3>4. QED
      BY <3>1, <3>3
  <2>3. SubSeq(text, 1, l) = text
    BY <1>1, WholeList
  <2>4. QED
    BY <1>4, <2>1, <2>2, <2>3
<1>6. Units(a \o (b \o onward)) = Units(a) \o Units(b \o onward)
  <2>1. Len(a) = m * Ratio
    BY <1>1, <1>2, <1>4
  <2>2. PICK x \in Seq(Byte) : x = b \o onward
    <3>1. b \o onward \in Seq(Byte)
      BY <1>4
    <3>2. QED
      BY <3>1
  <2>3. Units(a \o x) = Units(a) \o Units(x)
    BY <1>1, <1>4, <2>1, <2>2, UnitsApart, ZenonT(60)
  <2>4. QED
    BY <2>2, <2>3
<1>7. (a \o b) \o onward = a \o (b \o onward)
  <2>1. \A p, q, s \in Seq(Byte) : (p \o q) \o s = p \o (q \o s)
    BY BytesAssociated, Zenon
  <2>2. QED
    BY <1>4, <2>1, ZenonT(60)
<1>8. Units(text \o onward) = Units(a) \o Units(b \o onward)
  BY <1>5, <1>6, <1>7
<1>9. whole \in 0 .. Len(text) /\ a = SubSeq(text, 1, whole) /\ b = SubSeq(text, whole + 1, Len(text))
  BY <1>1, <1>3, <1>4, SMTT(60)
<1>10. QED
  BY <1>4, <1>8, <1>9

\* What an encoder that goes on makes, and what is ahead of it then.
GoesOn(q, text, onward, e) ==
  /\ (q \o Units(SubSeq(text, 1, WholeUnits(text)))) \o <<>> \in Seq(Cell)
  /\ Units(SubSeq(text, WholeUnits(text) + 1, Len(text)) \o onward) \o <<e>> \in Seq(Cell)
  /\ ((q \o Units(SubSeq(text, 1, WholeUnits(text)))) \o <<>>)
       \o (Units(SubSeq(text, WholeUnits(text) + 1, Len(text)) \o onward) \o <<e>>)
     = q \o (Units(text \o onward) \o <<e>>)

\* The encoder that goes on loses nothing.
LEMMA AheadGoesOn ==
  ASSUME NEW q \in Seq(Cell), NEW text \in Seq(Byte), NEW onward \in Seq(Byte), NEW e \in Cell
  PROVE  GoesOn(q, text, onward, e)
<1>0. PICK whole : whole = WholeUnits(text)
  OBVIOUS
<1>1. PICK a \in Seq(Byte), b \in Seq(Byte) :
        /\ a = SubSeq(text, 1, whole) /\ b = SubSeq(text, whole + 1, Len(text))
        /\ Units(text \o onward) = Units(a) \o Units(b \o onward)
  <2>1. /\ SubSeq(text, 1, whole) \in Seq(Byte) /\ SubSeq(text, whole + 1, Len(text)) \in Seq(Byte)
        /\ Units(text \o onward) = Units(SubSeq(text, 1, whole)) \o Units(SubSeq(text, whole + 1, Len(text)) \o onward)
    BY <1>0, UnitsOff, ZenonT(60) DEF WholeUnits
  <2>2. QED
    BY <2>1
<1>2. Datum \subseteq Cell
  BY DEF Datum, Cell
<1>3. PICK ua \in Seq(Cell), ub \in Seq(Cell), t \in Seq(Cell) : ua = Units(a) /\ ub = Units(b \o onward) /\ t = <<e>>
  <2>1. b \o onward \in Seq(Byte)
    BY <1>1
  <2>2. Units(a) \in Seq(Datum) /\ Units(b \o onward) \in Seq(Datum)
    BY <1>1, <2>1, UnitShape
  <2>3. Units(a) \in Seq(Cell) /\ Units(b \o onward) \in Seq(Cell)
    BY <1>2, <2>2
  <2>4. <<e>> \in Seq(Cell)
    OBVIOUS
  <2>5. QED
    BY <2>3, <2>4
<1>4. (q \o ua) \o <<>> = q \o ua /\ q \o ua \in Seq(Cell) /\ ub \o t \in Seq(Cell)
  <2>1. q \o ua \in Seq(Cell) /\ ub \o t \in Seq(Cell)
    BY <1>3
  <2>2. QED
    BY <2>1, WholeList
<1>5. (q \o ua) \o (ub \o t) = q \o (ua \o (ub \o t))
  <2>1. PICK x \in Seq(Cell) : x = ub \o t
    BY <1>4
  <2>2. (q \o ua) \o x = q \o (ua \o x)
    <3>1. \A p, s, y \in Seq(Cell) : (p \o s) \o y = p \o (s \o y)
      BY CellsAssociated, Zenon
    <3>2. q \in Seq(Cell) /\ ua \in Seq(Cell) /\ x \in Seq(Cell)
      BY <1>3, <2>1
    <3>3. QED
      BY <3>1, <3>2, ZenonT(60)
  <2>3. QED
    BY <2>1, <2>2
<1>6. (ua \o ub) \o t = ua \o (ub \o t)
  <2>1. ua \in Seq(Cell) /\ ub \in Seq(Cell) /\ t \in Seq(Cell)
    BY <1>3
  <2>2. QED
    BY <2>1, CellsAssociated, ZenonT(60)
<1>7. QED
  BY <1>0, <1>1, <1>3, <1>4, <1>5, <1>6 DEF GoesOn

\* What an encoder that ends makes, with nothing ahead of it then.
LEMMA AheadEnds ==
  ASSUME NEW q \in Seq(Cell), NEW text \in Seq(Byte), NEW e \in Cell
  PROVE  /\ (q \o Units(SubSeq(text, 1, Len(text)))) \o <<e>> \in Seq(Cell)
         /\ SubSeq(text, Len(text) + 1, Len(text)) = <<>>
         /\ ((q \o Units(SubSeq(text, 1, Len(text)))) \o <<e>>) \o <<>> = q \o (Units(text) \o <<e>>)
<1>1. SubSeq(text, 1, Len(text)) = text
  BY WholeList
<1>2. Datum \subseteq Cell
  BY DEF Datum, Cell
<1>3. PICK u \in Seq(Cell), t \in Seq(Cell) : u = Units(text) /\ t = <<e>>
  <2>1. Units(text) \in Seq(Cell)
    BY <1>2, UnitShape
  <2>2. <<e>> \in Seq(Cell)
    OBVIOUS
  <2>3. QED
    BY <2>1, <2>2
<1>4. (q \o u) \o t = q \o (u \o t) /\ (q \o u) \o t \in Seq(Cell)
  BY <1>3, Associated, SMTT(60)
<1>5. ((q \o u) \o t) \o <<>> = (q \o u) \o t
  BY <1>4, WholeList
<1>6. SubSeq(text, Len(text) + 1, Len(text)) = <<>>
  OBVIOUS
<1>7. QED
  BY <1>1, <1>3, <1>4, <1>5, <1>6

\* What is given out of what is ready, and what is left of it.
MadeOf(ready, room) == SubSeq(ready, 1, Min({room, Len(ready)}))
\* What is left when so much is made.
LeftOf(ready, made) == SubSeq(ready, Len(made) + 1, Len(ready))
\* The two are all there was.
Divides(ready, made, left) == made \in Seq(Cell) /\ left \in Seq(Cell) /\ made \o left = ready

\* Nothing is lost between the two.
LEMMA MadeLeft ==
  ASSUME NEW ready \in Seq(Cell), NEW room \in Nat, NEW made, NEW left,
         made = MadeOf(ready, room), left = LeftOf(ready, made)
  PROVE  Divides(ready, made, left)
<1>1. PICK l \in Nat : l = Len(ready)
  OBVIOUS
<1>2. PICK o \in Nat : o = IF room <= l THEN room ELSE l
  OBVIOUS
<1>3. o = Min({room, Len(ready)})
  BY <1>1, <1>2, TheSmaller
<1>4. 0 <= o /\ o <= Len(ready) /\ 0 + 1 = 1 /\ o - 0 = o
  BY <1>1, <1>2
<1>5. SubSeq(ready, 0 + 1, o) \in Seq(Cell) /\ Len(SubSeq(ready, 0 + 1, o)) = o - 0
  BY <1>4, Piece
<1>6. SubSeq(ready, o + 1, Len(ready)) \in Seq(Cell)
  BY <1>4, Piece
<1>7. SubSeq(ready, 0 + 1, o) \o SubSeq(ready, o + 1, Len(ready)) = SubSeq(ready, 0 + 1, Len(ready))
  <2>1. PICK z \in Nat : z = 0
    OBVIOUS
  <2>2. z <= o /\ o <= Len(ready) /\ Len(ready) <= Len(ready) /\ Len(ready) \in Nat
    BY <1>4, <2>1
  <2>3. SubSeq(ready, z + 1, o) \o SubSeq(ready, o + 1, Len(ready)) = SubSeq(ready, z + 1, Len(ready))
    BY <2>1, <2>2, CutApart, ZenonT(60)
  <2>4. QED
    BY <2>1, <2>3
<1>8. SubSeq(ready, 1, Len(ready)) = ready
  BY WholeList
<1>9. made = SubSeq(ready, 1, o) /\ Len(made) = o
  BY <1>3, <1>4, <1>5 DEF MadeOf
<1>10. left = SubSeq(ready, o + 1, Len(ready))
  BY <1>9 DEF LeftOf
<1>11. QED
  BY <1>4, <1>5, <1>6, <1>7, <1>8, <1>9, <1>10, Zenon DEF Divides

\* One step of the encoder, as values: takes, text, whole, ready, made, left.
DeflateBy(n, text, ends, ready, made, left) ==
  /\ text = IF Len(call.queue) <= Chunk THEN call.pend \o call.ibuf ELSE call.pend
  /\ ends <=> call.last /\ Len(call.queue) <= Chunk
  /\ \E whole :
       /\ whole = IF ends THEN Len(text) ELSE (Len(text) \div Ratio) * Ratio
       /\ ready = call.queue \o Units(SubSeq(text, 1, whole))
                    \o (IF ends /\ ~call.inside THEN <<Trailer(call.kind)>> ELSE <<>>)
       /\ n.pend = SubSeq(text, whole + 1, Len(text))
  /\ made = SubSeq(ready, 1, Min({Chunk, Len(ready)}))
  /\ left = SubSeq(ready, Len(made) + 1, Len(ready))
  /\ DOMAIN n = CallFields /\ n.op = call.op /\ n.kind = call.kind /\ n.in = call.in /\ n.out = call.out
  /\ n.was = call.was /\ n.held = call.held /\ n.pos = call.pos /\ (n.last <=> call.last) /\ n.buffered = call.buffered
  /\ n.ibuf = IF Len(call.queue) <= Chunk THEN <<>> ELSE call.ibuf
  /\ n.queue = left /\ (n.inside <=> call.inside \/ ends)
  /\ n.pc = IF n.inside /\ left = <<>> THEN "close" ELSE IF ~call.last /\ n.ibuf = <<>> THEN "read" ELSE "deflate"

\* The encoder takes such a step, and writes what it made.
LEMMA DeflateDoes ==
  ASSUME DOMAIN call = CallFields, Deflate
  PROVE  \E n, text, ends, ready, made, left : DeflateBy(n, text, ends, ready, made, left) /\ Write(n, made)
<1> DEFINE takes == Len(call.queue) <= Chunk
           text == IF takes THEN call.pend \o call.ibuf ELSE call.pend
           ends == call.last /\ takes
           whole == IF ends THEN Len(text) ELSE (Len(text) \div Ratio) * Ratio
           ready == call.queue \o Units(SubSeq(text, 1, whole))
                      \o (IF ends /\ ~call.inside THEN <<Trailer(call.kind)>> ELSE <<>>)
           made == SubSeq(ready, 1, Min({Chunk, Len(ready)}))
           left == SubSeq(ready, Len(made) + 1, Len(ready))
           c == [call EXCEPT !.ibuf = IF takes THEN <<>> ELSE @, !.inside = @ \/ ends,
                   !.pend = SubSeq(text, whole + 1, Len(text)), !.queue = left]
           n == [c EXCEPT !.pc = IF c.inside /\ left = <<>> THEN "close"
                               ELSE IF ~call.last /\ c.ibuf = <<>> THEN "read" ELSE "deflate"]
<1>1. Write(n, made)
  BY DEF Deflate
<1>2. PICK t, w, e, r, m, l : t = text /\ w = whole /\ e = ends /\ r = ready /\ m = made /\ l = left
  BY Zenon
<1>3. PICK round : round = [call EXCEPT !.ibuf = IF takes THEN <<>> ELSE @, !.inside = @ \/ e,
                   !.pend = SubSeq(t, w + 1, Len(t)), !.queue = l]
  OBVIOUS
<1>4. round = c
  BY <1>2, <1>3, ZenonT(60)
<1>5. PICK v : v = [round EXCEPT !.pc = IF round.inside /\ l = <<>> THEN "close"
                               ELSE IF ~call.last /\ round.ibuf = <<>> THEN "read" ELSE "deflate"]
  OBVIOUS
<1>6. v = n
  <2>1. l = left
    BY <1>2
  <2> HIDE DEF c, left
  <2>2. n = [round EXCEPT !.pc = IF round.inside /\ l = <<>> THEN "close"
                             ELSE IF ~call.last /\ round.ibuf = <<>> THEN "read" ELSE "deflate"]
    BY <1>4, <2>1, Zenon
  <2>3. QED
    BY <1>5, <2>2, Zenon
<1>7. /\ t = IF Len(call.queue) <= Chunk THEN call.pend \o call.ibuf ELSE call.pend
      /\ w = IF e THEN Len(t) ELSE (Len(t) \div Ratio) * Ratio
      /\ r = call.queue \o Units(SubSeq(t, 1, w)) \o (IF e /\ ~call.inside THEN <<Trailer(call.kind)>> ELSE <<>>)
      /\ m = SubSeq(r, 1, Min({Chunk, Len(r)}))
      /\ l = SubSeq(r, Len(m) + 1, Len(r))
  BY <1>2, Zenon
<1>8. e <=> call.last /\ Len(call.queue) <= Chunk
  BY <1>2, Zenon
<1>9. /\ DOMAIN v = CallFields /\ v.op = call.op /\ v.kind = call.kind /\ v.in = call.in /\ v.out = call.out
      /\ v.was = call.was /\ v.held = call.held /\ v.pos = call.pos /\ v.last = call.last /\ v.buffered = call.buffered
      /\ v.pend = SubSeq(t, w + 1, Len(t))
      /\ v.ibuf = IF Len(call.queue) <= Chunk THEN <<>> ELSE call.ibuf
      /\ v.queue = l /\ (v.inside <=> call.inside \/ e)
      /\ v.pc = IF v.inside /\ l = <<>> THEN "close" ELSE IF ~call.last /\ v.ibuf = <<>> THEN "read" ELSE "deflate"
  BY <1>3, <1>5 DEF CallFields
<1>10. DeflateBy(v, t, e, r, m, l)
  BY <1>7, <1>8, <1>9, Zenon DEF DeflateBy
<1>11. Write(v, m)
  BY <1>1, <1>2, <1>6, ZenonT(60)
<1>12. QED
  BY <1>10, <1>11

\* A step of the encoder keeps what is ready and what is ahead together.
LEMMA AheadKept ==
  ASSUME EncodesWell(call, files), NEW n, NEW text, NEW ends, NEW ready, NEW made, NEW left,
         DeflateBy(n, text, ends, ready, made, left)
  PROVE  /\ ready \in Seq(Cell) /\ StillAhead(n) \in Seq(Cell)
         /\ ready \o StillAhead(n) = call.queue \o StillAhead(call)
         /\ Textual(n.ibuf) /\ Textual(n.pend)
         /\ n.inside => n.pend = <<>> /\ n.ibuf = <<>> /\ n.last
<1>0. PICK k, was, l, pos, ibuf, pend, q :
        k = call.kind /\ was = call.was /\ l = Len(was) /\ pos = call.pos /\ ibuf = call.ibuf /\ pend = call.pend /\ q = call.queue
  OBVIOUS
<1>1. /\ k = call.kind /\ was = call.was /\ l = Len(was) /\ pos = call.pos
      /\ ibuf = call.ibuf /\ pend = call.pend /\ q = call.queue
      /\ k \in Supported /\ was \in Seq(Byte) /\ l \in Nat /\ pos \in Nat /\ pos <= l
      /\ ibuf \in Seq(Byte) /\ pend \in Seq(Byte) /\ q \in Seq(Cell)
      /\ call.last => pos = l
      /\ call.inside => pend = <<>> /\ ibuf = <<>> /\ call.last
  <2>1. /\ call.kind \in Supported /\ call.was \in Seq(Byte) /\ call.pos \in 0 .. Len(call.was) /\ Len(call.was) \in Nat
        /\ call.ibuf \in Seq(Byte) /\ call.pend \in Seq(Byte) /\ call.queue \in Seq(Cell)
        /\ call.last => call.pos = Len(call.was)
        /\ call.inside => call.pend = <<>> /\ call.ibuf = <<>> /\ call.last
    BY DEF EncodesWell, Textual
  <2>2. QED
    BY <1>0, <2>1
<1>2. PICK onward \in Seq(Byte) : onward = SubSeq(was, pos + 1, l) /\ (pos = l => onward = <<>>)
  <2>1. SubSeq(was, pos + 1, l) \in Seq(Byte) /\ (pos = l => SubSeq(was, pos + 1, l) = <<>>)
    BY <1>1
  <2>2. QED
    BY <2>1
<1>3. PICK e \in Cell : e = Trailer(k)
  BY <1>1 DEF Cell, Marks
<1>4. PICK whole, p :
        /\ text = IF Len(q) <= Chunk THEN pend \o ibuf ELSE pend
        /\ ends <=> call.last /\ Len(q) <= Chunk
        /\ whole = IF ends THEN Len(text) ELSE (Len(text) \div Ratio) * Ratio
        /\ ready = q \o Units(SubSeq(text, 1, whole)) \o (IF ends /\ ~call.inside THEN <<e>> ELSE <<>>)
        /\ p = SubSeq(text, whole + 1, Len(text)) /\ n.pend = p
        /\ n.ibuf = IF Len(q) <= Chunk THEN <<>> ELSE ibuf
        /\ n.was = was /\ n.pos = pos /\ n.kind = k /\ (n.last <=> call.last) /\ (n.inside <=> call.inside \/ ends)
  BY <1>1, <1>3, Zenon DEF DeflateBy
<1>5. pend \o ibuf \in Seq(Byte) /\ text \in Seq(Byte)
  <2>1. pend \in Seq(Byte) /\ ibuf \in Seq(Byte)
    BY <1>1, Zenon
  <2>2. pend \o ibuf \in Seq(Byte)
    BY <2>1
  <2>3. text = pend \o ibuf \/ text = pend
    BY <1>4, Zenon
  <2>4. QED
    BY <2>1, <2>2, <2>3, Zenon
<1>6. StillAhead(call) = IF call.inside THEN <<>> ELSE Units((pend \o ibuf) \o onward) \o <<e>>
  BY <1>1, <1>2, <1>3 DEF StillAhead
<1>7. StillAhead(n) = IF n.inside THEN <<>> ELSE Units((p \o n.ibuf) \o onward) \o <<e>>
  BY <1>1, <1>2, <1>3, <1>4 DEF StillAhead
<1>8. <<>> \in Seq(Byte) /\ <<>> \in Seq(Cell)
  OBVIOUS
<1>9. CASE call.inside
  <2>1. text = <<>> /\ pend = <<>> /\ ibuf = <<>>
    <3>1. pend = <<>> /\ ibuf = <<>>
      BY <1>1, <1>9, Zenon
    <3>2. text = pend \o ibuf \/ text = pend
      BY <1>4, Zenon
    <3>3. <<>> \o <<>> = <<>>
      OBVIOUS
    <3>4. QED
      BY <3>1, <3>2, <3>3, Zenon
  <2>2. Len(text) = 0 /\ (Len(text) \div Ratio) * Ratio = 0
    <3>1. \A r \in Nat \ {0} : (0 \div r) * r = 0
      OBVIOUS
    <3>2. Len(<<>>) = 0
      OBVIOUS
    <3>3. QED
      BY <2>1, <3>1, <3>2, CompressAssumption
  <2>3. whole = 0
    BY <1>4, <2>2
  <2>4. SubSeq(text, 1, whole) = <<>> /\ p = <<>>
    <3>1. SubSeq(<<>>, 1, 0) = <<>> /\ SubSeq(<<>>, 0 + 1, 0) = <<>>
      OBVIOUS
    <3>2. QED
      BY <1>4, <2>1, <2>2, <2>3, <3>1
  <2>5. ready = q
    <3>1. q \o <<>> = q
      BY <1>1, WholeList
    <3>2. QED
      BY <1>4, <1>9, <2>4, <3>1, NoUnits
  <2>6. n.inside /\ StillAhead(n) = <<>> /\ StillAhead(call) = <<>> /\ n.ibuf = <<>>
    BY <1>4, <1>6, <1>7, <1>9, <2>1
  <2>7. QED
    BY <1>1, <1>4, <1>8, <1>9, <2>4, <2>5, <2>6 DEF Textual
<1>10. CASE ~call.inside /\ ends
  <2>1. call.last /\ Len(q) <= Chunk /\ pos = l /\ onward = <<>> /\ text = pend \o ibuf /\ whole = Len(text) /\ n.ibuf = <<>>
    BY <1>1, <1>2, <1>4, <1>10
  <2>2. ready = (q \o Units(SubSeq(text, 1, Len(text)))) \o <<e>> /\ p = SubSeq(text, Len(text) + 1, Len(text))
    BY <1>4, <1>10, <2>1
  <2>3. /\ ready \in Seq(Cell) /\ p = <<>> /\ ready \o <<>> = q \o (Units(text) \o <<e>>)
    BY <1>1, <1>3, <1>5, <2>2, AheadEnds, ZenonT(60)
  <2>4. StillAhead(n) = <<>> /\ n.inside
    BY <1>4, <1>7, <1>10
  <2>5. StillAhead(call) = Units(text) \o <<e>>
    <3>1. text \o <<>> = text
      BY <1>5, WholeList
    <3>2. QED
      BY <1>6, <1>10, <2>1, <3>1
  <2>6. QED
    BY <1>1, <1>4, <1>8, <2>1, <2>3, <2>4, <2>5 DEF Textual
<1>11. CASE ~call.inside /\ ~ends
  <2>1. whole = (Len(text) \div Ratio) * Ratio /\ ready = (q \o Units(SubSeq(text, 1, whole))) \o <<>>
        /\ p = SubSeq(text, whole + 1, Len(text)) /\ ~n.inside
    BY <1>4, <1>11
  <2>2. PICK r \in Seq(Byte) : /\ r = IF Len(q) <= Chunk THEN onward ELSE ibuf \o onward
                               /\ (pend \o ibuf) \o onward = text \o r
                               /\ p \in Seq(Byte) /\ (p \o n.ibuf) \o onward = p \o r
    <3>1. p \in Seq(Byte)
      BY <1>5, <2>1, UnitsOff
    <3>2. CASE Len(q) <= Chunk
      <4>1. n.ibuf = <<>> /\ text = pend \o ibuf
        BY <1>4, <3>2
      <4>2. p \o <<>> = p
        BY <3>1, WholeList
      <4>3. QED
        BY <1>2, <3>1, <3>2, <4>1, <4>2
    <3>3. CASE ~(Len(q) <= Chunk)
      <4>1. n.ibuf = ibuf /\ text = pend
        BY <1>4, <3>3
      <4>2. (pend \o ibuf) \o onward = pend \o (ibuf \o onward) /\ (p \o ibuf) \o onward = p \o (ibuf \o onward)
        <5>1. pend \in Seq(Byte) /\ ibuf \in Seq(Byte) /\ onward \in Seq(Byte)
          BY <1>1, <1>2
        <5>2. QED
          BY <3>1, <5>1, BytesAssociated, ZenonT(60)
      <4>3. ibuf \o onward \in Seq(Byte)
        BY <1>1, <1>2
      <4>4. QED
        BY <3>1, <3>3, <4>1, <4>2, <4>3
    <3>4. QED
      BY <3>2, <3>3
  <2>3. /\ (q \o Units(SubSeq(text, 1, whole))) \o <<>> \in Seq(Cell)
        /\ Units(SubSeq(text, whole + 1, Len(text)) \o r) \o <<e>> \in Seq(Cell)
        /\ ((q \o Units(SubSeq(text, 1, whole))) \o <<>>) \o (Units(SubSeq(text, whole + 1, Len(text)) \o r) \o <<e>>)
              = q \o (Units(text \o r) \o <<e>>)
    <3>1. q \in Seq(Cell) /\ text \in Seq(Byte) /\ r \in Seq(Byte) /\ e \in Cell
      BY <1>1, <1>3, <1>5, <2>2
    <3>2. whole = WholeUnits(text)
      BY <2>1 DEF WholeUnits
    <3>3. GoesOn(q, text, r, e)
      BY <3>1, AheadGoesOn
    <3>4. QED
      BY <3>2, <3>3 DEF GoesOn
  <2>4. StillAhead(n) = Units(p \o r) \o <<e>> /\ StillAhead(call) = Units(text \o r) \o <<e>>
    BY <1>6, <1>7, <1>11, <2>1, <2>2
  <2>5. ready \in Seq(Cell) /\ StillAhead(n) \in Seq(Cell) /\ ready \o StillAhead(n) = q \o StillAhead(call)
    BY <2>1, <2>3, <2>4
  <2>6. n.ibuf \in Seq(Byte)
    BY <1>1, <1>4, <1>8
  <2>7. QED
    BY <1>1, <1>4, <2>1, <2>2, <2>5, <2>6, Zenon DEF Textual
<1>12. QED
  BY <1>9, <1>10, <1>11

\* A call that fails with a reason is on its way to remove its output.
LEMMA FailingLive ==
  ASSUME NEW c, NEW f, LiveCall(c, f), c.pc \in {"read", "deflate", "inflate", "close"},
         NEW n, Failing(n, c), Excused(n), NEW g, g[c.in] = f[c.in]
  PROVE  LiveCall(n, g)
<1>1. InPlace(n, g)
  BY DEF LiveCall, InPlace, Failing, OnFiles
<1>2. Encoding(n, g) /\ Decoding(n, g) /\ Answered(n, g)
  BY DEF Failing, Encoding, Decoding, Answered
<1>3. DOMAIN n = CallFields /\ n.pc = "remove_out" /\ n.op = c.op /\ n.was = c.was /\ n.held = c.held
  BY DEF Failing
<1>held. HeldWell(n)
  BY <1>3 DEF LiveCall, HeldWell, OnFiles, Failing
<1>4. QED
  BY <1>1, <1>2, <1>3, <1>held DEF LiveCall

\* What the encoder works on.
LEMMA EncoderWorks ==
  ASSUME LiveFiles(files), LiveCall(call, files), call.pc = "deflate"
  PROVE  /\ DOMAIN call = CallFields /\ DOMAIN files = Paths /\ call.op = "compress"
         /\ call.in # call.out /\ files[call.in] = call.held /\ call.in \in Paths /\ call.out \in Paths
         /\ EncodesWell(call, files)
         /\ files[call.out] \in Seq(Cell) /\ call.buffered \in Seq(Cell) /\ call.queue \in Seq(Cell)
         /\ call.kind \in Supported /\ call.was \in Seq(Byte)
         /\ Content(call.was) /\ call.was # Absent
<1>1. InPlace(call, files) /\ Encoding(call, files) /\ DOMAIN call = CallFields /\ DOMAIN files = Paths
      /\ Content(call.was) /\ call.was # Absent
  BY DEF LiveCall, LiveFiles
<1>2. call.op = "compress" /\ call.in # call.out /\ files[call.in] = call.held /\ call.in \in Paths /\ call.out \in Paths
  BY <1>1 DEF InPlace
<1>3. EncodesWell(call, files)
  BY <1>1, <1>2 DEF Encoding
<1>4. files[call.out] \in Seq(Cell) /\ call.buffered \in Seq(Cell) /\ call.queue \in Seq(Cell)
      /\ call.kind \in Supported /\ call.was \in Seq(Byte)
  BY <1>3 DEF EncodesWell, Textual
<1>5. QED
  BY <1>1, <1>2, <1>3, <1>4

\* A step of the encoder keeps the output and what is ahead together.
LEMMA DeflateLive ==
  ASSUME LiveFiles(files), LiveCall(call, files), Deflate
  PROVE  LiveFiles(files') /\ LiveCall(call', files')
<1>0. call.pc = "deflate"
  BY DEF Deflate
<1>1. /\ DOMAIN call = CallFields /\ DOMAIN files = Paths /\ call.op = "compress"
      /\ call.in # call.out /\ files[call.in] = call.held /\ call.in \in Paths /\ call.out \in Paths
      /\ EncodesWell(call, files)
      /\ files[call.out] \in Seq(Cell) /\ call.buffered \in Seq(Cell) /\ call.queue \in Seq(Cell)
      /\ call.kind \in Supported /\ call.was \in Seq(Byte)
      /\ Content(call.was) /\ call.was # Absent
  BY <1>0, EncoderWorks
<1>2. PICK n, text, ends, ready, made, left : DeflateBy(n, text, ends, ready, made, left) /\ Write(n, made)
  BY <1>1, DeflateDoes
<1>3. /\ ready \in Seq(Cell) /\ StillAhead(n) \in Seq(Cell)
      /\ ready \o StillAhead(n) = call.queue \o StillAhead(call)
      /\ Textual(n.ibuf) /\ Textual(n.pend)
      /\ n.inside => n.pend = <<>> /\ n.ibuf = <<>> /\ n.last
  BY <1>1, <1>2, AheadKept, SMTT(60)
<1>4. made \in Seq(Cell) /\ left \in Seq(Cell) /\ made \o left = ready
  <2>1. Chunk \in Nat /\ made = MadeOf(ready, Chunk) /\ left = LeftOf(ready, made)
    BY <1>2, CompressAssumption, Zenon DEF DeflateBy, MadeOf, LeftOf
  <2>2. Divides(ready, made, left)
    BY <1>3, <2>1, MadeLeft, SMTT(60)
  <2>3. QED
    BY <2>2 DEF Divides
<1>5. /\ DOMAIN n = CallFields /\ n.op = call.op /\ n.kind = call.kind /\ n.in = call.in /\ n.out = call.out
      /\ n.was = call.was /\ n.held = call.held /\ n.pos = call.pos /\ (n.last <=> call.last) /\ n.buffered = call.buffered
      /\ n.queue = left
      /\ n.pc = IF n.inside /\ left = <<>> THEN "close" ELSE IF ~call.last /\ n.ibuf = <<>> THEN "read" ELSE "deflate"
  BY <1>2 DEF DeflateBy
<1>6. PICK round, g : round = call' /\ g = files'
  OBVIOUS
<1>7. \/ Failing(round, call) /\ round.fault /\ g = files
      \/ /\ SameCall(round, n)
         /\ DOMAIN g = Paths /\ \A p \in Paths \ {call.out} : g[p] = files[p]
         /\ \/ g[call.out] = files[call.out] /\ round.buffered = call.buffered \o made
            \/ g[call.out] = files[call.out] \o call.buffered /\ round.buffered = made
  BY <1>1, <1>2, <1>4, <1>5, <1>6, WriteDoes
<1>8. CASE Failing(round, call) /\ round.fault /\ g = files
  <2>1. Excused(round)
    BY <1>8 DEF Excused
  <2>2. QED
    BY <1>0, <1>6, <1>8, <2>1, FailingLive
<1>9. ASSUME SameCall(round, n), DOMAIN g = Paths, \A p \in Paths \ {call.out} : g[p] = files[p],
             \/ g[call.out] = files[call.out] /\ round.buffered = call.buffered \o made
             \/ g[call.out] = files[call.out] \o call.buffered /\ round.buffered = made
      PROVE LiveFiles(g) /\ LiveCall(round, g)
  <2>1. PICK o, b, a, fo : o = g[call.out] /\ b = round.buffered /\ a = StillAhead(n) /\ fo = files[call.out]
    OBVIOUS
  <2>2. o \in Seq(Cell) /\ b \in Seq(Cell) /\ o \o (b \o (left \o a)) = Frame(call.kind, call.was)
    <3>1. PICK u, w, q : u = call.buffered /\ w = Frame(call.kind, call.was) /\ q = call.queue \o StillAhead(call)
      OBVIOUS
    <3>2. fo \in Seq(Cell) /\ u \in Seq(Cell) /\ made \in Seq(Cell) /\ left \in Seq(Cell) /\ a \in Seq(Cell)
      BY <1>1, <1>3, <1>4, <2>1, <3>1
    <3>3. (made \o left) \o a = q
      BY <1>3, <1>4, <2>1, <3>1
    <3>4. fo \o (u \o q) = w
      BY <1>1, <2>1, <3>1 DEF EncodesWell
    <3>5. /\ fo \o ((u \o made) \o (left \o a)) = fo \o (u \o ((made \o left) \o a))
          /\ (fo \o u) \o (made \o (left \o a)) = fo \o (u \o ((made \o left) \o a))
      <4>1. Regroups(fo, u, made, left, a)
        BY <3>2, Regrouped
      <4>2. QED
        BY <4>1 DEF Regroups
    <3>6. u \o made \in Seq(Cell) /\ fo \o u \in Seq(Cell)
      BY <3>2
    <3>7. (o = fo /\ b = u \o made) \/ (o = fo \o u /\ b = made)
      BY <1>9, <2>1, <3>1
    <3>8. QED
      BY <3>1, <3>2, <3>3, <3>4, <3>5, <3>6, <3>7, Zenon
  <2>3. Content(o)
    <3>1. b \o (left \o a) \in Seq(Cell)
      BY <1>3, <1>4, <2>1, <2>2
    <3>2. QED
      BY <1>1, <2>2, <3>1, BeginningLives
  <2>4. LiveFiles(g)
    <3>1. \A p \in Paths : Content(files[p])
      BY DEF LiveFiles
    <3>2. QED
      BY <1>1, <1>9, <2>1, <2>3, <3>1 DEF LiveFiles
  <2>5. /\ DOMAIN round = CallFields /\ round.op = "compress" /\ round.kind = call.kind /\ round.in = call.in /\ round.out = call.out
        /\ round.was = call.was /\ round.held = call.held /\ round.pos = call.pos /\ (round.last <=> call.last) /\ round.queue = left
        /\ round.pc = n.pc /\ round.ibuf = n.ibuf /\ round.pend = n.pend /\ (round.inside <=> n.inside)
    BY <1>1, <1>5, <1>9 DEF SameCall
  <2>6. StillAhead(round) = a
    BY <1>5, <2>1, <2>5 DEF StillAhead
  <2>7. round.pc \in {"close", "read", "deflate"}
        /\ (round.pc = "close" => n.inside /\ left = <<>>)
        /\ (round.pc = "read" => ~call.last /\ n.ibuf = <<>>)
    BY <1>5, <2>5
  <2>8. EncodesWell(round, g)
    <3>1. call.pos \in 0 .. Len(call.was) /\ (call.last => call.pos = Len(call.was))
      BY <1>1 DEF EncodesWell
    <3>2. round.inside => round.pend = <<>> /\ round.ibuf = <<>> /\ round.last
      BY <1>3, <1>5, <2>5
    <3>3. round.pc = "close" => round.inside /\ round.queue = <<>>
      BY <2>5, <2>7
    <3>4. round.pc = "read" => round.ibuf = <<>> /\ ~round.inside
      BY <2>5, <2>7, <3>2
    <3>5. Textual(round.was) /\ Textual(round.ibuf) /\ Textual(round.pend) /\ round.queue \in Seq(Cell) /\ round.kind \in Supported
      BY <1>1, <1>3, <1>4, <2>5 DEF Textual
    <3>6. g[round.out] = o /\ round.buffered = b
      BY <2>1, <2>5
    <3>7. g[round.out] \o (round.buffered \o (round.queue \o StillAhead(round))) = Frame(round.kind, round.was)
      BY <2>2, <2>5, <2>6, <3>6, Zenon
    <3>8. round.pos \in 0 .. Len(round.was) /\ (round.last => round.pos = Len(round.was))
      BY <2>5, <3>1
    <3>9. g[round.out] \in Seq(Cell) /\ round.buffered \in Seq(Cell)
      BY <2>2, <3>6
    <3>10. QED
      BY <3>2, <3>3, <3>4, <3>5, <3>7, <3>8, <3>9, Zenon DEF EncodesWell
  <2>9. InPlace(round, g)
    <3>1. g[call.in] = call.held
      BY <1>1, <1>9
    <3>2. QED
      BY <1>1, <2>5, <2>7, <3>1 DEF InPlace, OnFiles
  <2>10. Encoding(round, g) /\ Decoding(round, g) /\ Answered(round, g)
    BY <2>5, <2>7, <2>8 DEF Encoding, Decoding, Answered
  <2>held. HeldWell(round)
    BY <1>1, <2>5 DEF HeldWell
  <2>11. QED
    BY <1>1, <2>4, <2>5, <2>7, <2>9, <2>10, <2>held DEF LiveCall
<1>10. QED
  BY <1>6, <1>7, <1>8, <1>9

\* What a round of the decoder comes to.
RoundOf(round, was, came, ibuf, given, room) ==
  /\ round.says \in {"ok", "end", "error"}
  /\ round.says = "error" => ~Whole(was) \/ ~Fits(call.kind, was)
  /\ round.says # "error" => round.out \in Seq(Byte) /\ round.pend \in Seq(Byte) /\ Len(round.out) <= room
  /\ round.says = "end" => (\E k \in Supported : was = Frame(k, given \o round.out)) /\ round.ibuf # ibuf
  /\ round.says = "ok" => \E m : AtCell(m, was, came, round.ibuf, given \o round.out, round.pend, round.inside)
  /\ round.says = "ok" /\ room # 0 /\ round.out = <<>> /\ round.ibuf = ibuf => ibuf = <<>>

\* A stream with no tail is not whole, and when all has come there is none in what was taken.
LEMMA Unfinished ==
  ASSUME NEW was, Content(was), was # Absent, NEW n, NEW given, NEW pend, NEW inside,
         AtCell(n, was, Len(was), <<>>, given, pend, inside)
  PROVE  ~Whole(was)
<1>1. was \in Seq(Cell) /\ (Whole(was) => Len(was) # 0 /\ was[Len(was)][1] = "tail")
  BY TailsLast
<1>2. PICK l \in Nat : l = Len(was)
  BY <1>1
<1>3. n \in 0 .. l /\ <<>> = SubSeq(was, n + 1, l) /\ \A at \in 1 .. n : was[at][1] # "tail"
  BY <1>2 DEF AtCell
<1>4. n = l
  <2>1. Len(SubSeq(was, n + 1, l)) = l - n
    BY <1>1, <1>2, <1>3, Piece
  <2>2. PICK e : e = SubSeq(was, n + 1, l)
    OBVIOUS
  <2>3. e = <<>> /\ Len(e) = l - n
    BY <1>3, <2>1, <2>2
  <2>4. Len(e) = 0
    BY <2>3
  <2>5. l - n = 0 /\ n \in Nat
    BY <1>2, <1>3, <2>3, <2>4
  <2>6. QED
    BY <1>2, <2>5
<1>5. QED
  BY <1>1, <1>2, <1>3, <1>4

\* Bytes of the cells taken, before and after.
LEMMA BytesOn ==
  ASSUME NEW was \in Seq(Cell), NEW n \in Nat, NEW m \in Nat, n <= m, m <= Len(was)
  PROVE  /\ Bytes(SubSeq(was, 1, m)) = Bytes(SubSeq(was, 1, n)) \o Bytes(SubSeq(was, n + 1, m))
         /\ Bytes(SubSeq(was, 1, n)) \in Seq(Byte) /\ Bytes(SubSeq(was, n + 1, m)) \in Seq(Byte)
<1>1. PICK z \in Nat : z = 0 /\ z + 1 = 1 /\ z <= n /\ z <= m /\ n <= Len(was)
  OBVIOUS
<1>2. SubSeq(was, z + 1, n) \o SubSeq(was, n + 1, m) = SubSeq(was, z + 1, m)
  BY <1>1, CutApart
<1>3. SubSeq(was, z + 1, n) \in Seq(Cell)
  BY <1>1, Piece
<1>4. SubSeq(was, n + 1, m) \in Seq(Cell)
  BY Piece
<1>5. PICK a \in Seq(Cell), b \in Seq(Cell) : a = SubSeq(was, 1, n) /\ b = SubSeq(was, n + 1, m) /\ a \o b = SubSeq(was, 1, m)
  BY <1>1, <1>2, <1>3, <1>4
<1>6. Bytes(a \o b) = Bytes(a) \o Bytes(b) /\ Bytes(a) \in Seq(Byte) /\ Bytes(b) \in Seq(Byte)
  BY <1>5, BytesJoined
<1>7. QED
  BY <1>5, <1>6

\* A round of the decoder goes on from one cell to another.
LEMMA DecoderRound ==
  ASSUME NEW was, was = call.was, Content(was), was # Absent, NEW came \in 0 .. Len(was),
         call.kind \in Supported,
         NEW given \in Seq(Byte), call.pend \in Seq(Byte), NEW n,
         AtCell(n, was, came, call.ibuf, given, call.pend, call.inside), NEW room \in Nat, NEW round, round = Decoded(room)
  PROVE  RoundOf(round, was, came, call.ibuf, given, room)
<1>1. /\ was \in Seq(Cell)
      /\ \A at \in 1 .. Len(was) : was[at][1] = "tail" => at = Len(was) /\ Streaming(was)
      /\ Whole(was) => \A at \in 1 .. Len(was) : was[at] # Trailer("bad")
  BY TailsLast
<1>2. PICK us, pend, l : us = call.ibuf /\ pend = call.pend /\ l = Len(was)
  OBVIOUS
<1>3. l \in Nat /\ came \in 0 .. l /\ n \in 0 .. came /\ pend \in Seq(Byte)
  BY <1>1, <1>2 DEF AtCell
<1>4. /\ us = SubSeq(was, n + 1, came) /\ given \o pend = Bytes(SubSeq(was, 1, n))
      /\ (call.inside => Streaming(was)) /\ (~call.inside => n = 0)
      /\ \A at \in 1 .. n : was[at][1] # "tail"
  BY <1>2 DEF AtCell
<1>5. us \in Seq(Cell) /\ Len(us) = came - n /\ \A at \in 1 .. came - n : us[at] = was[n + at]
  <2>1. n \in Nat /\ came \in Nat /\ n <= came /\ came <= Len(was)
    BY <1>2, <1>3
  <2>2. /\ SubSeq(was, n + 1, came) \in Seq(Cell) /\ Len(SubSeq(was, n + 1, came)) = came - n
        /\ \A at \in 1 .. came - n : SubSeq(was, n + 1, came)[at] = was[n + at]
    BY <1>1, <2>1, Piece, SMTT(60)
  <2>3. QED
    BY <1>4, <2>2
<1>6. DecodedWell(round, room)
  BY <1>2, <1>3, <1>5, DecodedDoes
<1>7. /\ round.says \in {"ok", "end", "error"} /\ (round.inside <=> call.inside \/ us # <<>>)
      /\ round.says = "error" => Wrong \/ \E at \in 1 .. Len(us) : us[at] = Trailer("bad")
      /\ round.says # "error" => ~Wrong
  BY <1>2, <1>6 DEF DecodedWell
<1>8. us # <<>> => Len(us) # 0
  BY <1>5
<1>9. ~call.inside /\ us # <<>> => us[1] = was[1] /\ was # <<>>
  <2> SUFFICES ASSUME ~call.inside, us # <<>> PROVE us[1] = was[1] /\ was # <<>>
    OBVIOUS
  <2>1. n = 0 /\ 1 \in 1 .. came - n /\ n + 1 = 1 /\ l # 0
    BY <1>3, <1>4, <1>5, <1>8
  <2>2. QED
    BY <1>1, <1>2, <1>5, <2>1
<1>10. ASSUME round.says = "error" PROVE ~Whole(was) \/ ~Fits(call.kind, was)
  <2>1. CASE Wrong
    <3>1. ~call.inside /\ us # <<>> /\ us[1] \notin Heads(call.kind)
      BY <1>2, <2>1 DEF Wrong
    <3>2. was # <<>> /\ was[1] \notin Heads(call.kind)
      BY <1>9, <3>1
    <3>3. QED
      BY <3>2, WrongUnfit
  <2>2. ASSUME NEW at \in 1 .. Len(us), us[at] = Trailer("bad") PROVE ~Whole(was)
    <3>1. n + at \in 1 .. Len(was) /\ was[n + at] = us[at]
      BY <1>2, <1>3, <1>5, SMTT(60)
    <3>2. QED
      BY <1>1, <2>2, <3>1
  <2>3. QED
    BY <1>7, <1>10, <2>1, <2>2
<1>11. ASSUME round.says # "error", round.inside PROVE Streaming(was)
  <2>1. CASE call.inside
    BY <1>4, <2>1
  <2>2. CASE ~call.inside
    <3>1. us # <<>> /\ us[1] \in Heads(call.kind)
      BY <1>2, <1>7, <1>11, <2>2 DEF Wrong
    <3>2. QED
      BY <1>9, <2>2, <3>1, HeadsStream
  <2>3. QED
    BY <2>1, <2>2
<1>12. ASSUME round.says # "error"
       PROVE  /\ round.out \in Seq(Byte) /\ round.pend \in Seq(Byte) /\ Len(round.out) <= room
              /\ round.says = "end" => (\E k \in Supported : was = Frame(k, given \o round.out)) /\ round.ibuf # us
              /\ round.says = "ok" => \E m : AtCell(m, was, came, round.ibuf, given \o round.out, round.pend, round.inside)
              /\ round.says = "ok" /\ room # 0 /\ round.out = <<>> /\ round.ibuf = us => us = <<>>
  <2>1. PICK took \in 0 .. Len(us) :
          /\ round.ibuf = SubSeq(us, took + 1, Len(us))
          /\ round.pend \in Seq(Byte) /\ round.out \in Seq(Byte) /\ Len(round.out) <= room
          /\ round.out \o round.pend = pend \o Bytes(SubSeq(us, 1, took))
          /\ round.says = "end" => took # 0 /\ us[took][1] = "tail" /\ us[took] # Trailer("bad") /\ round.pend = <<>>
          /\ round.says = "ok" => took = 0 \/ us[took][1] # "tail"
          /\ room # 0 /\ round.out = <<>> /\ took = 0 => us = <<>>
    BY <1>2, <1>6, <1>12 DEF DecodedWell
  <2>2. PICK m \in Nat : m = n + took /\ m <= came /\ m <= Len(was) /\ took \in Nat /\ took <= came - n /\ n \in Nat /\ came \in Nat
    BY <1>2, <1>3, <1>5, <2>1
  <2>3. SubSeq(us, took + 1, Len(us)) = SubSeq(was, m + 1, came) /\ SubSeq(us, 1, took) = SubSeq(was, n + 1, m)
    <3>1. n \in Nat /\ came \in Nat /\ n <= came /\ came <= Len(was) /\ came - n \in Nat /\ came - n <= came - n
      BY <1>2, <1>3
    <3>2. SubSeq(SubSeq(was, n + 1, came), took + 1, came - n) = SubSeq(was, n + took + 1, n + (came - n))
      <4>1. PICK v \in Nat : v = came - n /\ v <= came - n
        BY <3>1
      <4>2. SubSeq(SubSeq(was, n + 1, came), took + 1, v) = SubSeq(was, n + took + 1, n + v)
        <5>1. PICK b \in Nat, e \in Nat, x \in Nat :
                b = n /\ e = came /\ x = took /\ b <= e /\ e <= Len(was) /\ v <= e - b
          BY <2>2, <3>1, <4>1
        <5>2. ASSUME NEW a \in Seq(Cell), e <= Len(a)
              PROVE  SubSeq(SubSeq(a, b + 1, e), x + 1, v) = SubSeq(a, b + x + 1, b + v)
          BY <5>1, <5>2, SubPart
        <5>3. SubSeq(SubSeq(was, b + 1, e), x + 1, v) = SubSeq(was, b + x + 1, b + v)
          BY <1>1, <5>1, <5>2
        <5>4. QED
          BY <5>1, <5>3
      <4>3. QED
        BY <4>1, <4>2
    <3>3. SubSeq(SubSeq(was, n + 1, came), 0 + 1, took) = SubSeq(was, n + 0 + 1, n + took)
      BY <1>1, <2>2, <3>1, SubPart
    <3>4. n + (came - n) = came /\ n + 0 + 1 = n + 1 /\ 0 + 1 = 1
      BY <3>1
    <3>5. QED
      BY <1>4, <1>5, <2>2, <3>2, <3>3, <3>4
  <2>4. PICK b, p, o : b = Bytes(SubSeq(was, n + 1, m)) /\ p = round.pend /\ o = round.out
    OBVIOUS
  <2>5. (given \o o) \o p = Bytes(SubSeq(was, 1, m))
    <3>1. b \in Seq(Byte) /\ Bytes(SubSeq(was, 1, m)) = Bytes(SubSeq(was, 1, n)) \o b
      <4>1. n \in Nat /\ n <= m /\ m <= Len(was)
        BY <2>2
      <4>2. /\ Bytes(SubSeq(was, 1, m)) = Bytes(SubSeq(was, 1, n)) \o Bytes(SubSeq(was, n + 1, m))
            /\ Bytes(SubSeq(was, n + 1, m)) \in Seq(Byte)
        BY <1>1, <2>2, <4>1, BytesOn
      <4>3. QED
        BY <2>4, <4>2
    <3>2. given \in Seq(Byte) /\ o \in Seq(Byte) /\ p \in Seq(Byte) /\ pend \in Seq(Byte)
      BY <1>3, <2>1, <2>4
    <3>3. o \o p = pend \o b
      BY <2>1, <2>3, <2>4
    <3>4. (given \o o) \o p = given \o (o \o p) /\ (given \o pend) \o b = given \o (pend \o b)
      BY <3>1, <3>2, BytesAssociated, ZenonT(60)
    <3>5. QED
      BY <1>4, <3>1, <3>3, <3>4, Zenon
  <2>6. took # 0 => us[took] = was[m] /\ m \in 1 .. Len(was)
    <3> SUFFICES ASSUME took # 0 PROVE us[took] = was[m] /\ m \in 1 .. Len(was)
      OBVIOUS
    <3>1. took \in 1 .. came - n
      BY <2>2
    <3>2. us[took] = was[n + took]
      BY <1>5, <3>1
    <3>3. QED
      BY <1>2, <1>3, <2>2, <3>1, <3>2
  <2>7. took # 0 => round.ibuf # us
    <3> SUFFICES ASSUME took # 0 PROVE Len(round.ibuf) # Len(us)
      OBVIOUS
    <3>1. PICK u \in Nat : u = Len(us) /\ took <= u /\ u <= Len(us)
      BY <1>5, <2>1
    <3>2. us \in Seq(Cell) /\ took \in Nat
      BY <1>5, <2>2
    <3>3. Len(SubSeq(us, took + 1, u)) = u - took
      BY <3>1, <3>2, Piece
    <3>4. Len(round.ibuf) = u - took
      BY <2>1, <3>1, <3>3
    <3>5. QED
      BY <3>1, <3>2, <3>4
  <2>8. ASSUME round.says = "end" PROVE (\E k \in Supported : was = Frame(k, given \o round.out)) /\ round.ibuf # us
    <3>1. took # 0 /\ was[m][1] = "tail" /\ was[m] # Trailer("bad") /\ p = <<>> /\ m \in 1 .. Len(was)
      BY <2>1, <2>4, <2>6, <2>8
    <3>2. m = Len(was) /\ Streaming(was)
      BY <1>1, <3>1
    <3>3. PICK k \in Supported : was = Frame(k, Bytes(was))
      BY <3>1, <3>2, StreamShape
    <3>4. SubSeq(was, 1, m) = was
      BY <1>1, <3>2, WholeList
    <3>5. given \o o \in Seq(Byte)
      BY <2>1, <2>4
    <3>6. (given \o o) \o p = given \o o
      BY <3>1, <3>5, WholeList
    <3>7. QED
      BY <2>4, <2>5, <2>7, <3>1, <3>3, <3>4, <3>6
  <2>9. ASSUME round.says = "ok" PROVE AtCell(m, was, came, round.ibuf, given \o round.out, round.pend, round.inside)
    <3>1. ~round.inside => m = 0
      <4> SUFFICES ASSUME ~round.inside PROVE m = 0
        OBVIOUS
      <4>1. ~call.inside /\ us = <<>>
        BY <1>7
      <4>2. n = 0 /\ Len(us) = 0
        BY <1>4, <4>1
      <4>3. QED
        BY <2>1, <2>2, <4>2
    <3>2. ASSUME NEW at \in 1 .. m, was[at][1] = "tail" PROVE FALSE
      <4>1. at = Len(was) /\ at = m
        BY <1>1, <2>2, <3>2
      <4>2. took = 0 => m = n
        BY <2>2
      <4>3. QED
        BY <1>4, <2>1, <2>6, <2>9, <3>2, <4>1, <4>2
    <3>3. m \in 0 .. came
      BY <2>2
    <3>4. round.ibuf = SubSeq(was, m + 1, came)
      BY <2>1, <2>3
    <3>5. QED
      BY <1>11, <1>12, <2>4, <2>5, <3>1, <3>2, <3>3, <3>4 DEF AtCell
  <2>10. round.says = "ok" /\ room # 0 /\ round.out = <<>> /\ round.ibuf = us => us = <<>>
    BY <2>1, <2>7
  <2>11. QED
    BY <2>1, <2>8, <2>9, <2>10
<1>13. QED
  BY <1>2, <1>7, <1>10, <1>12 DEF RoundOf

\* A call as a round of the decoder leaves it.
DecoderMoves(n, round) ==
  /\ DOMAIN n = CallFields /\ n.op = call.op /\ n.kind = call.kind /\ n.in = call.in /\ n.out = call.out
  /\ n.was = call.was /\ n.held = call.held /\ n.pos = call.pos /\ (n.last <=> call.last) /\ n.buffered = call.buffered
  /\ n.ibuf = round.ibuf /\ n.pend = round.pend /\ (n.inside <=> round.inside)

\* A round of the decoder of files, as its outcomes.
LEMMA InflateDoes ==
  ASSUME DOMAIN call = CallFields, Inflate, NEW round, round = Decoded(Chunk)
  PROVE  \/ round.says = "end" /\ \E n : DecoderMoves(n, round) /\ n.pc = "close" /\ Write(n, round.out)
         \/ round.says = "error" /\ Failing(call', call) /\ files' = files
         \/ /\ round.says = "ok" /\ round.ibuf = <<>> /\ (call.last \/ call.pos = Len(call.was))
            /\ \E n : DecoderMoves(n, round) /\ n.pc = "remove_out" /\ n.ret = "EILSEQ" /\ Write(n, round.out)
         \/ /\ round.says = "ok"
            /\ \E n : /\ DecoderMoves(n, round) /\ n.pc \in {"read", "inflate"} /\ (n.pc = "read" => round.ibuf = <<>>)
                      /\ Write(n, round.out)
<1> DEFINE c == [call EXCEPT !.ibuf = round.ibuf, !.pend = round.pend, !.inside = round.inside]
           cut == round.ibuf = <<>> /\ (IF call.kind \in Zlibs THEN call.last ELSE call.pos = Len(call.was))
           closes == [c EXCEPT !.pc = "close"]
           fails == [c EXCEPT !.pc = "remove_out", !.ret = "EILSEQ"]
           goes == [c EXCEPT !.pc = IF round.ibuf = <<>> THEN "read" ELSE "inflate"]
<1>1. \/ round.says = "end" /\ Write(closes, round.out)
      \/ round.says = "error" /\ call' = Give("EILSEQ") /\ files' = files
      \/ round.says = "ok" /\ Write(IF cut THEN fails ELSE goes, round.out)
  BY DEF Inflate
<1>2. DecoderMoves(closes, round) /\ closes.pc = "close"
  BY DEF DecoderMoves, CallFields
<1>3. DecoderMoves(fails, round) /\ fails.pc = "remove_out" /\ fails.ret = "EILSEQ"
  BY DEF DecoderMoves, CallFields
<1>4. DecoderMoves(goes, round) /\ goes.pc \in {"read", "inflate"} /\ (goes.pc = "read" => round.ibuf = <<>>)
  BY DEF DecoderMoves, CallFields
<1>5. ASSUME call' = Give("EILSEQ") PROVE Failing(call', call)
  <2>1. PICK n : n = Give("EILSEQ")
    OBVIOUS
  <2>2. Failing(n, call)
    BY <2>1 DEF Failing, Give, CallFields
  <2>3. QED
    BY <1>5, <2>1, <2>2
<1>6. cut => round.ibuf = <<>> /\ (call.last \/ call.pos = Len(call.was))
  OBVIOUS
<1> HIDE DEF c, cut, closes, fails, goes
<1>7. QED
  BY <1>1, <1>2, <1>3, <1>4, <1>5, <1>6

\* What the decoder of files works on.
LEMMA InflaterWorks ==
  ASSUME LiveFiles(files), LiveCall(call, files), call.pc = "inflate"
  PROVE  /\ DOMAIN call = CallFields /\ DOMAIN files = Paths /\ call.op = "decompress"
         /\ call.in # call.out /\ files[call.in] = call.held /\ call.in \in Paths /\ call.out \in Paths
         /\ Content(call.was) /\ call.was # Absent /\ call.kind \in Supported
         /\ files[call.out] \in Seq(Byte) /\ call.buffered \in Seq(Byte) /\ call.pend \in Seq(Byte)
         /\ files[call.out] \o call.buffered \in Seq(Byte)
         /\ call.pos \in 0 .. Len(call.was) /\ (call.last => call.pos = Len(call.was))
         /\ \E n : AtCell(n, call.was, call.pos, call.ibuf, files[call.out] \o call.buffered, call.pend, call.inside)
<1>1. InPlace(call, files) /\ Decoding(call, files) /\ DOMAIN call = CallFields /\ DOMAIN files = Paths
      /\ Content(call.was) /\ call.was # Absent
  BY DEF LiveCall, LiveFiles
<1>2. call.op = "decompress" /\ call.in # call.out /\ files[call.in] = call.held /\ call.in \in Paths /\ call.out \in Paths
  BY <1>1 DEF InPlace
<1>3. DecodesWell(call, files) /\ OnFiles(call)
  BY <1>1, <1>2 DEF Decoding, OnFiles
<1>4. Came(call) = call.pos /\ Given(call, files) = files[call.out] \o call.buffered
  BY <1>3 DEF Came, Given
<1> HIDE DEF AtCell
<1>5. /\ call.kind \in Supported /\ files[call.out] \in Seq(Byte) /\ call.buffered \in Seq(Byte) /\ call.pend \in Seq(Byte)
      /\ files[call.out] \o call.buffered \in Seq(Byte)
      /\ call.pos \in 0 .. Len(call.was) /\ (call.last => call.pos = Len(call.was))
      /\ \E n : AtCell(n, call.was, call.pos, call.ibuf, files[call.out] \o call.buffered, call.pend, call.inside)
  BY <1>3, <1>4 DEF DecodesWell
<1>6. QED
  BY <1>1, <1>2, <1>5

\* A file and its buffer before and after data is written.
Writes(fo, u, data, o, b) == (o = fo /\ b = u \o data) \/ (o = fo \o u /\ b = data)
\* What they are then: bytes, and together what there was and the data.
Wrote(fo, u, data, o, b) ==
  o \in Seq(Byte) /\ b \in Seq(Byte) /\ o \o b \in Seq(Byte) /\ o \o b = (fo \o u) \o data

\* Bytes that are written join what was given out.
LEMMA BytesWritten ==
  ASSUME NEW fo \in Seq(Byte), NEW u \in Seq(Byte), NEW data \in Seq(Byte), NEW o, NEW b,
         Writes(fo, u, data, o, b)
  PROVE  Wrote(fo, u, data, o, b)
<1>1. u \o data \in Seq(Byte) /\ fo \o u \in Seq(Byte) /\ fo \o (u \o data) = (fo \o u) \o data
  OBVIOUS
<1>2. (fo \o u) \o data \in Seq(Byte)
  BY <1>1
<1>3. QED
  BY <1>1, <1>2, Zenon DEF Writes, Wrote

\* A round of the decoder of files keeps what was given out the bytes of what was taken.
LEMMA InflateLive ==
  ASSUME LiveFiles(files), LiveCall(call, files), Inflate
  PROVE  LiveFiles(files') /\ LiveCall(call', files')
<1>0. call.pc = "inflate"
  BY DEF Inflate
<1>1. /\ DOMAIN call = CallFields /\ DOMAIN files = Paths /\ call.op = "decompress"
      /\ call.in # call.out /\ files[call.in] = call.held /\ call.in \in Paths /\ call.out \in Paths
      /\ Content(call.was) /\ call.was # Absent /\ call.kind \in Supported
      /\ files[call.out] \in Seq(Byte) /\ call.buffered \in Seq(Byte) /\ call.pend \in Seq(Byte)
      /\ files[call.out] \o call.buffered \in Seq(Byte)
      /\ call.pos \in 0 .. Len(call.was) /\ (call.last => call.pos = Len(call.was))
      /\ \E n : AtCell(n, call.was, call.pos, call.ibuf, files[call.out] \o call.buffered, call.pend, call.inside)
  BY <1>0, InflaterWorks
<1>2. PICK round : round = Decoded(Chunk)
  OBVIOUS
<1>3. PICK fo, u, was, given : fo = files[call.out] /\ u = call.buffered /\ was = call.was /\ given = fo \o u
  OBVIOUS
<1>4. RoundOf(round, was, call.pos, call.ibuf, given, Chunk)
  <2>1. PICK n : AtCell(n, was, call.pos, call.ibuf, given, call.pend, call.inside)
    BY <1>1, <1>3
  <2>2. given \in Seq(Byte) /\ Chunk \in Nat /\ Content(was) /\ was # Absent /\ call.pos \in 0 .. Len(was) /\ was = call.was
    BY <1>1, <1>3, CompressAssumption
  <2>3. QED
    BY <1>1, <1>2, <2>1, <2>2, DecoderRound
<1>5. PICK v, g : v = call' /\ g = files'
  OBVIOUS
<1>6. Byte \subseteq Cell
  BY SMTT(60) DEF Cell
<1>7. ASSUME round.says # "error", NEW n, DecoderMoves(n, round), Write(n, round.out)
      PROVE  \/ Failing(v, call) /\ v.fault /\ g = files
             \/ /\ SameCall(v, n)
                /\ DOMAIN g = Paths /\ \A p \in Paths \ {call.out} : g[p] = files[p]
                /\ g[call.out] \in Seq(Byte) /\ v.buffered \in Seq(Byte)
                /\ g[call.out] \o v.buffered \in Seq(Byte) /\ g[call.out] \o v.buffered = given \o round.out
  <2>1. round.out \in Seq(Byte)
    BY <1>4, <1>7 DEF RoundOf
  <2>2. round.out \in Seq(Cell) /\ files[call.out] \in Seq(Cell) /\ call.buffered \in Seq(Cell)
    BY <1>1, <1>6, <2>1
  <2>3. DOMAIN n = CallFields /\ n.out = call.out /\ n.buffered = call.buffered
    BY <1>7 DEF DecoderMoves
  <2>4. \/ Failing(v, call) /\ v.fault /\ g = files
        \/ /\ SameCall(v, n)
           /\ DOMAIN g = Paths /\ \A p \in Paths \ {call.out} : g[p] = files[p]
           /\ \/ g[call.out] = files[call.out] /\ v.buffered = call.buffered \o round.out
              \/ g[call.out] = files[call.out] \o call.buffered /\ v.buffered = round.out
    BY <1>1, <1>5, <1>7, <2>2, <2>3, WriteDoes
  <2>5. PICK o, b, data : o = g[call.out] /\ b = v.buffered /\ data = round.out
    OBVIOUS
  <2>6. fo \in Seq(Byte) /\ u \in Seq(Byte) /\ data \in Seq(Byte)
    BY <1>1, <1>3, <2>1, <2>5
  <2>7. ASSUME (o = fo /\ b = u \o data) \/ (o = fo \o u /\ b = data)
        PROVE  o \in Seq(Byte) /\ b \in Seq(Byte) /\ o \o b \in Seq(Byte) /\ o \o b = (fo \o u) \o data
    <3>1. Writes(fo, u, data, o, b)
      BY <2>7 DEF Writes
    <3>2. Wrote(fo, u, data, o, b)
      BY <2>6, <3>1, BytesWritten
    <3>3. QED
      BY <3>2 DEF Wrote
  <2>8. QED
    BY <1>3, <2>4, <2>5, <2>7
<1>8. ASSUME Failing(v, call), Excused(v), g[call.in] = files[call.in],
             LiveFiles(g) PROVE LiveFiles(g) /\ LiveCall(v, g)
  BY <1>0, <1>8, FailingLive
<1>9. ASSUME v.fault PROVE Excused(v)
  BY <1>9 DEF Excused
<1>10. ASSUME Failing(v, call), ~Whole(was) \/ ~Fits(call.kind, was) PROVE Excused(v)
  BY <1>1, <1>3, <1>10 DEF Excused, Failing
<1>11. ASSUME DOMAIN g = Paths, \A p \in Paths \ {call.out} : g[p] = files[p],
              g[call.out] \in Seq(Byte)
       PROVE  LiveFiles(g) /\ g[call.in] = files[call.in]
  BY <1>1, <1>11 DEF LiveFiles, Content, Textual
<1>12. ASSUME round.says # "error", NEW n, DecoderMoves(n, round), SameCall(v, n),
              n.pc \in {"close", "read", "inflate"},
              DOMAIN g = Paths, \A p \in Paths \ {call.out} : g[p] = files[p],
              g[call.out] \in Seq(Byte), v.buffered \in Seq(Byte),
              g[call.out] \o v.buffered \in Seq(Byte), g[call.out] \o v.buffered = given \o round.out,
              n.pc = "close" <=> round.says = "end", n.pc = "read" => round.ibuf = <<>>
       PROVE  LiveFiles(g) /\ LiveCall(v, g)
  <2>1. /\ DOMAIN v = CallFields /\ v.op = "decompress" /\ v.kind = call.kind /\ v.in = call.in /\ v.out = call.out
        /\ v.was = was /\ v.held = call.held /\ v.pos = call.pos /\ (v.last <=> call.last) /\ v.pc = n.pc
        /\ v.ibuf = round.ibuf /\ v.pend = round.pend /\ (v.inside <=> round.inside)
    BY <1>1, <1>3, <1>12 DEF SameCall, DecoderMoves
  <2>2. LiveFiles(g) /\ g[call.in] = files[call.in]
    BY <1>11, <1>12
  <2>3. OnFiles(v)
    BY <2>1 DEF OnFiles
  <2>4. Given(v, g) = given \o round.out /\ Came(v) = call.pos /\ Given(v, g) \in Seq(Byte)
    BY <1>12, <2>1, <2>3 DEF Given, Came
  <2>5. v.pc = "close" => Exact(v, Given(v, g))
    <3>1. round.says = "end" => \E k \in Supported : was = Frame(k, given \o round.out)
      BY <1>4 DEF RoundOf
    <3>2. QED
      BY <1>12, <2>1, <2>4, <3>1 DEF Exact
  <2>6. v.pc # "close" => \E m : AtCell(m, v.was, Came(v), v.ibuf, Given(v, g), v.pend, v.inside)
    <3>1. round.says \in {"ok", "end", "error"} /\ (round.says = "ok" => \E m : AtCell(m, was, call.pos, round.ibuf, given \o round.out, round.pend, round.inside))
      BY <1>4 DEF RoundOf
    <3>2. v.pc # "close" => round.says = "ok"
      BY <1>12, <2>1, <3>1
    <3>3. ASSUME NEW m,
                 AtCell(m, was, call.pos, round.ibuf, given \o round.out, round.pend, round.inside)
          PROVE  AtCell(m, v.was, Came(v), v.ibuf, Given(v, g), v.pend, v.inside)
      BY <2>1, <2>4, <3>3 DEF AtCell
    <3>4. QED
      BY <3>1, <3>2, <3>3
  <2>7. round.pend \in Seq(Byte)
    BY <1>4, <1>12 DEF RoundOf
  <2>8. DecodesWell(v, g)
    <3>1. g[v.out] \in Seq(Byte) /\ v.buffered \in Seq(Byte) /\ v.pend \in Seq(Byte)
      BY <1>12, <2>1, <2>7
    <3>2. v.kind \in Supported /\ Came(v) \in 0 .. Len(v.was) /\ (v.last => Came(v) = Len(v.was))
      BY <1>1, <1>3, <2>1, <2>4
    <3>3. (v.pc = "read" => v.ibuf = <<>>) /\ v.pc # "grow"
      BY <1>12, <2>1
    <3>4. QED
      BY <2>4, <2>5, <2>6, <3>1, <3>2, <3>3 DEF DecodesWell
  <2>9. InPlace(v, g)
    BY <1>1, <1>3, <1>12, <2>1, <2>2, <2>3 DEF InPlace
  <2>10. Encoding(v, g) /\ Decoding(v, g) /\ Answered(v, g)
    BY <1>12, <2>1, <2>8 DEF Encoding, Decoding, Answered
  <2>held. HeldWell(v)
    BY <1>1, <1>3, <2>1, <2>3 DEF LiveCall, HeldWell, OnFiles
  <2>11. QED
    BY <1>1, <1>3, <1>12, <2>1, <2>2, <2>9, <2>10, <2>held DEF LiveCall
<1>13. LiveFiles(files)
  OBVIOUS
<1>14. ASSUME NEW n, SameCall(v, n), DecoderMoves(n, round), n.pc = "remove_out",
              n.ret = "EILSEQ" PROVE Failing(v, call)
  BY <1>14 DEF SameCall, DecoderMoves, Failing
<1>15. CASE round.says = "end" /\ \E n : DecoderMoves(n, round) /\ n.pc = "close" /\ Write(n, round.out)
  <2>1. PICK n : DecoderMoves(n, round) /\ n.pc = "close" /\ Write(n, round.out)
    BY <1>15
  <2> HIDE DEF DecoderMoves, Write, SameCall, Failing
  <2>2. QED
    BY <1>7, <1>8, <1>9, <1>12, <1>13, <1>15, <2>1, <1>5
<1>16. CASE round.says = "error" /\ Failing(v, call) /\ g = files
  <2>1. ~Whole(was) \/ ~Fits(call.kind, was)
    BY <1>4, <1>16 DEF RoundOf
  <2>2. QED
    BY <1>5, <1>8, <1>10, <1>13, <1>16, <2>1
<1>17. CASE /\ round.says = "ok" /\ round.ibuf = <<>> /\ (call.last \/ call.pos = Len(call.was))
            /\ \E n : DecoderMoves(n, round) /\ n.pc = "remove_out" /\ n.ret = "EILSEQ" /\ Write(n, round.out)
  <2>1. PICK n : DecoderMoves(n, round) /\ n.pc = "remove_out" /\ n.ret = "EILSEQ" /\ Write(n, round.out)
    BY <1>17
  <2>2. ~Whole(was)
    <3>1. PICK m : AtCell(m, was, Len(was), <<>>, given \o round.out, round.pend, round.inside)
      BY <1>1, <1>3, <1>4, <1>17 DEF RoundOf
    <3>2. QED
      BY <1>1, <1>3, <3>1, Unfinished
  <2>3. QED
    BY <1>5, <1>7, <1>8, <1>9, <1>10, <1>11, <1>13, <1>14, <1>17, <2>1, <2>2
<1>18. CASE /\ round.says = "ok"
            /\ \E n : /\ DecoderMoves(n, round) /\ n.pc \in {"read", "inflate"} /\ (n.pc = "read" => round.ibuf = <<>>)
                      /\ Write(n, round.out)
  <2>1. PICK n : DecoderMoves(n, round) /\ n.pc \in {"read", "inflate"} /\ (n.pc = "read" => round.ibuf = <<>>) /\ Write(n, round.out)
    BY <1>18
  <2>2. QED
    BY <1>5, <1>7, <1>8, <1>9, <1>12, <1>13, <1>18, <2>1
<1>19. QED
  BY <1>1, <1>2, <1>5, <1>15, <1>16, <1>17, <1>18, InflateDoes

\* A round of the loops of the buffer decoders, as its outcomes.
LEMMA GrowDoes ==
  ASSUME DOMAIN call = CallFields, Grow, NEW round, round = Decoded(call.cap - Len(call.given))
  PROVE  \/ call' = [call EXCEPT !.cap = 2 * @]
         \/ call' = Fault(Return("ENOMEM"))
         \/ round.says = "end" /\ \E n : call' = n /\ DecoderMoves(n, round) /\ n.pc = "returned" /\ n.ret = "OK"
                                      /\ n.given = call.given \o round.out
         \/ round.says = "error" /\ call' = Return("EILSEQ")
         \/ round.says = "ok" /\ Len(call.given) < call.cap /\ round.out = <<>> /\ round.ibuf = call.ibuf /\ call' = Return("EILSEQ")
         \/ round.says = "end" /\ round.ibuf = call.ibuf
         \/ round.says \notin {"ok", "end", "error"}
         \/ round.says = "ok" /\ \E n : call' = n /\ DecoderMoves(n, round) /\ n.pc = call.pc
                                      /\ n.given = call.given \o round.out /\ n.cap = call.cap
<1> DEFINE c == [call EXCEPT !.ibuf = round.ibuf, !.pend = round.pend, !.inside = round.inside, !.given = @ \o round.out]
           stalled == call.kind = "zstd" /\ round.out = <<>> /\ round.ibuf = call.ibuf
           ends == [c EXCEPT !.pc = "returned", !.ret = "OK"]
<1>1. \/ call' = [call EXCEPT !.cap = 2 * @]
      \/ call' = Fault(Return("ENOMEM"))
      \/ /\ Len(call.given) < call.cap \/ round.says # "ok"
         /\ call' = CASE round.says = "end" -> ends
                      [] round.says = "error" \/ stalled -> Return("EILSEQ")
                      [] OTHER -> c
  BY DEF Grow
<1>2. DecoderMoves(ends, round) /\ ends.pc = "returned" /\ ends.ret = "OK" /\ ends.given = call.given \o round.out
  BY DEF DecoderMoves, CallFields
<1>3. DecoderMoves(c, round) /\ c.pc = call.pc /\ c.given = call.given \o round.out /\ c.cap = call.cap
  BY DEF DecoderMoves, CallFields
<1>4. stalled => round.out = <<>> /\ round.ibuf = call.ibuf
  OBVIOUS
<1> HIDE DEF c, stalled, ends
<1>5. CASE round.says = "end" /\ ~stalled
  BY <1>1, <1>2, <1>5
<1>6. CASE round.says = "error"
  BY <1>1, <1>6
<1>7. CASE round.says = "ok" /\ stalled
  BY <1>1, <1>4, <1>7
<1>8. CASE round.says = "ok" /\ ~stalled
  BY <1>1, <1>3, <1>8
<1>9. QED
  BY <1>1, <1>4, <1>5, <1>6, <1>7, <1>8

\* What the decoder of buffers works on.
LEMMA GrowerWorks ==
  ASSUME LiveFiles(files), LiveCall(call, files), call.pc = "grow"
  PROVE  /\ DOMAIN call = CallFields /\ call.op = "decompress_buffer"
         /\ Content(call.was) /\ call.was # Absent /\ call.kind \in Supported
         /\ call.given \in Seq(Byte) /\ call.pend \in Seq(Byte)
         /\ call.cap \in Nat /\ Len(call.given) <= call.cap
         /\ \E n : AtCell(n, call.was, Len(call.was), call.ibuf, call.given, call.pend, call.inside)
<1>1. InPlace(call, files) /\ Decoding(call, files) /\ DOMAIN call = CallFields
      /\ Content(call.was) /\ call.was # Absent
  BY DEF LiveCall
<1>2. call.op = "decompress_buffer"
  BY <1>1 DEF InPlace
<1>3. DecodesWell(call, files) /\ ~OnFiles(call)
  BY <1>1, <1>2 DEF Decoding, OnFiles
<1>4. Came(call) = Len(call.was) /\ Given(call, files) = call.given
  BY <1>3 DEF Came, Given
<1>5. /\ call.kind \in Supported /\ call.given \in Seq(Byte) /\ call.pend \in Seq(Byte)
      /\ call.cap \in Nat /\ Len(call.given) <= call.cap
      /\ \E n : AtCell(n, call.was, Len(call.was), call.ibuf, call.given, call.pend, call.inside)
  BY <1>3, <1>4 DEF DecodesWell
<1>6. QED
  BY <1>1, <1>2, <1>5

\* A buffer call that has returned owes nothing to files.
LEMMA BufferReturned ==
  ASSUME NEW n, NEW f, DOMAIN n = CallFields, n.pc = "returned",
         n.op \in {"compress_buffer", "decompress_buffer"},
         Content(n.was), n.was # Absent, n.ret = "OK" => Exact(n, n.given), n.ret # "OK" => Excused(n)
  PROVE  LiveCall(n, f)
<1>1. ~OnFiles(n)
  BY DEF OnFiles
<1>2. InPlace(n, f) /\ Encoding(n, f) /\ Decoding(n, f) /\ Answered(n, f)
  BY <1>1 DEF InPlace, Encoding, Decoding, Answered
<1>held. HeldWell(n)
  BY <1>1 DEF HeldWell
<1>3. QED
  BY <1>2, <1>held DEF LiveCall

\* A round of the decoder of buffers keeps what was given out the bytes of what was taken.
LEMMA GrowLive ==
  ASSUME LiveFiles(files), LiveCall(call, files), Grow
  PROVE  LiveFiles(files') /\ LiveCall(call', files')
<1>0. call.pc = "grow" /\ files' = files
  BY DEF Grow
<1>1. /\ DOMAIN call = CallFields /\ call.op = "decompress_buffer"
      /\ Content(call.was) /\ call.was # Absent /\ call.kind \in Supported
      /\ call.given \in Seq(Byte) /\ call.pend \in Seq(Byte)
      /\ call.cap \in Nat /\ Len(call.given) <= call.cap
      /\ \E n : AtCell(n, call.was, Len(call.was), call.ibuf, call.given, call.pend, call.inside)
  BY <1>0, GrowerWorks
<1>2. PICK room \in Nat : room = call.cap - Len(call.given) /\ (Len(call.given) < call.cap => room # 0)
  <2>1. Len(call.given) \in Nat
    BY <1>1
  <2>2. QED
    BY <1>1, <2>1
<1>3. PICK round : round = Decoded(room)
  OBVIOUS
<1>4. PICK was, given, came : was = call.was /\ given = call.given /\ came = Len(was)
  OBVIOUS
<1>5. RoundOf(round, was, came, call.ibuf, given, room)
  <2>1. PICK n : AtCell(n, was, came, call.ibuf, given, call.pend, call.inside)
    BY <1>1, <1>4
  <2>2. came \in Nat
    <3>1. was \in Seq(Cell)
      BY <1>1, <1>4, TailsLast
    <3>2. QED
      BY <1>4, <3>1
  <2>3. given \in Seq(Byte) /\ Content(was) /\ was # Absent /\ came \in 0 .. Len(was) /\ was = call.was
    BY <1>1, <1>4, <2>2
  <2>4. QED
    BY <1>1, <1>2, <1>3, <2>1, <2>3, DecoderRound
<1>6. PICK v : v = call'
  OBVIOUS
<1>7. ASSUME NEW e, e = Return("EILSEQ") \/ e = Fault(Return("ENOMEM"))
      PROVE  /\ DOMAIN e = CallFields /\ e.pc = "returned" /\ e.op = call.op /\ e.was = call.was /\ e.ret # "OK"
             /\ e.kind = call.kind
  <2>1. CASE e = Return("EILSEQ")
    BY <1>1, <2>1 DEF Return, CallFields
  <2>2. CASE e = Fault(Return("ENOMEM"))
    BY <1>1, <2>2 DEF Return, Fault, CallFields
  <2>3. QED
    BY <1>7, <2>1, <2>2
<1>8. CASE v = [call EXCEPT !.cap = 2 * @]
  <2>1. /\ DOMAIN v = CallFields /\ v.op = "decompress_buffer" /\ v.kind = call.kind /\ v.was = call.was /\ v.held = call.held /\ v.pc = "grow"
        /\ v.ibuf = call.ibuf /\ v.pend = call.pend /\ v.inside = call.inside /\ v.given = call.given /\ v.cap = 2 * call.cap
    BY <1>0, <1>1, <1>8 DEF CallFields
  <2>2. v.last = call.last
    BY <1>1, <1>8 DEF CallFields
  <2>3. ~OnFiles(v) /\ ~OnFiles(call)
    BY <1>1, <2>1 DEF OnFiles
  <2>4. DecodesWell(call, files)
    BY <1>0, <1>1 DEF LiveCall, Decoding
  <2>5. Given(v, files) = Given(call, files) /\ Came(v) = Came(call)
    BY <2>1, <2>3 DEF Given, Came
  <2>6. v.cap \in Nat /\ Len(v.given) <= v.cap
    <3>1. \A at, j \in Nat : at <= j => at <= 2 * j /\ 2 * j \in Nat
      OBVIOUS
    <3>2. Len(call.given) \in Nat
      BY <1>1
    <3>3. QED
      BY <1>1, <2>1, <3>1, <3>2
  <2>7. DecodesWell(v, files)
    BY <1>0, <2>1, <2>2, <2>3, <2>4, <2>5, <2>6 DEF DecodesWell
  <2>8. InPlace(v, files) /\ Encoding(v, files) /\ Decoding(v, files) /\ Answered(v, files)
    BY <2>1, <2>7 DEF InPlace, Encoding, Decoding, Answered
  <2>held. HeldWell(v)
    BY <2>3 DEF HeldWell
  <2>9. LiveCall(v, files)
    BY <1>1, <2>1, <2>8, <2>held DEF LiveCall
  <2>10. QED
    BY <1>0, <1>6, <2>9
<1>9. CASE v = Fault(Return("ENOMEM"))
  <2>1. v.fault
    BY <1>1, <1>9 DEF Return, Fault, CallFields
  <2>2. Excused(v)
    BY <2>1 DEF Excused
  <2>3. LiveCall(v, files)
    BY <1>1, <1>7, <1>9, <2>2, BufferReturned
  <2>4. QED
    BY <1>0, <1>6, <2>3
<1>10. ASSUME v = Return("EILSEQ"), ~Whole(was) \/ ~Fits(call.kind, was) PROVE LiveCall(v, files)
  <2>1. Excused(v)
    BY <1>1, <1>4, <1>7, <1>10 DEF Excused
  <2>2. QED
    BY <1>1, <1>7, <1>10, <2>1, BufferReturned
<1>11. CASE round.says = "error" /\ v = Return("EILSEQ")
  <2>1. ~Whole(was) \/ ~Fits(call.kind, was)
    BY <1>5, <1>11 DEF RoundOf
  <2>2. QED
    BY <1>0, <1>6, <1>10, <1>11, <2>1
<1>12. CASE round.says = "ok" /\ Len(call.given) < call.cap /\ round.out = <<>> /\ round.ibuf = call.ibuf /\ v = Return("EILSEQ")
  <2>1. call.ibuf = <<>>
    BY <1>2, <1>5, <1>12 DEF RoundOf
  <2>2. PICK n : AtCell(n, was, Len(was), <<>>, call.given, call.pend, call.inside)
    BY <1>1, <1>4, <2>1
  <2>3. ~Whole(was)
    BY <1>1, <1>4, <2>2, Unfinished
  <2>4. QED
    BY <1>0, <1>6, <1>10, <1>12, <2>3
<1>13. ASSUME round.says \in {"ok", "end"}, DecoderMoves(v, round),
              v.given = call.given \o round.out
       PROVE  /\ DOMAIN v = CallFields /\ v.op = "decompress_buffer" /\ v.kind = call.kind /\ v.was = was /\ v.held = call.held
              /\ v.ibuf = round.ibuf /\ v.pend = round.pend /\ (v.inside <=> round.inside) /\ (v.last <=> call.last)
              /\ v.given = given \o round.out
  BY <1>1, <1>4, <1>13 DEF DecoderMoves
<1>14. CASE round.says = "end" /\ DecoderMoves(v, round) /\ v.pc = "returned" /\ v.ret = "OK" /\ v.given = call.given \o round.out
  <2>1. v.op = "decompress_buffer" /\ v.was = was /\ v.held = call.held /\ v.given = given \o round.out /\ DOMAIN v = CallFields
    BY <1>13, <1>14
  <2>2. \E k \in Supported : was = Frame(k, given \o round.out)
    BY <1>5, <1>14 DEF RoundOf
  <2>3. Exact(v, v.given)
    BY <2>1, <2>2 DEF Exact
  <2>4. LiveCall(v, files)
    BY <1>1, <1>4, <1>14, <2>1, <2>3, BufferReturned
  <2>5. QED
    BY <1>0, <1>6, <2>4
<1>15. CASE round.says = "ok" /\ DecoderMoves(v, round) /\ v.pc = call.pc /\ v.given = call.given \o round.out /\ v.cap = call.cap
  <2>1. /\ DOMAIN v = CallFields /\ v.op = "decompress_buffer" /\ v.kind = call.kind /\ v.was = was /\ v.held = call.held
        /\ v.ibuf = round.ibuf /\ v.pend = round.pend /\ (v.inside <=> round.inside) /\ (v.last <=> call.last)
        /\ v.given = given \o round.out /\ v.pc = "grow"
    BY <1>0, <1>13, <1>15
  <2>2. ~OnFiles(v) /\ ~OnFiles(call)
    BY <1>1, <2>1 DEF OnFiles
  <2>3. Came(v) = came /\ Given(v, files) = given \o round.out
    BY <1>4, <2>1, <2>2 DEF Came, Given
  <2>4. round.out \in Seq(Byte) /\ round.pend \in Seq(Byte) /\ Len(round.out) <= room
        /\ \E m : AtCell(m, was, came, round.ibuf, given \o round.out, round.pend, round.inside)
    BY <1>5, <1>15 DEF RoundOf
  <2>5. given \o round.out \in Seq(Byte) /\ Len(given \o round.out) <= call.cap
    <3>1. PICK o, at, j : o = round.out /\ at = Len(given) /\ j = Len(o)
      OBVIOUS
    <3>2. given \in Seq(Byte) /\ o \in Seq(Byte)
      BY <1>1, <1>4, <2>4, <3>1
    <3>3. given \o o \in Seq(Byte) /\ Len(given \o o) = at + j /\ at \in Nat /\ j \in Nat
      BY <3>1, <3>2
    <3>4. j <= call.cap - at
      BY <1>2, <1>4, <2>4, <3>1
    <3>5. at + j <= call.cap
      BY <1>1, <3>3, <3>4
    <3>6. QED
      BY <3>1, <3>3, <3>5
  <2>6. \E m : AtCell(m, v.was, Came(v), v.ibuf, Given(v, files), v.pend, v.inside)
    <3>1. ASSUME NEW m,
                 AtCell(m, was, came, round.ibuf, given \o round.out, round.pend, round.inside)
          PROVE  AtCell(m, v.was, Came(v), v.ibuf, Given(v, files), v.pend, v.inside)
      BY <2>1, <2>3, <3>1 DEF AtCell
    <3>2. QED
      BY <2>4, <3>1
  <2>7. DecodesWell(v, files)
    <3>1. came \in 0 .. Len(was)
      <4>1. was \in Seq(Cell)
        BY <1>1, <1>4, TailsLast
      <4>2. QED
        BY <1>4, <4>1
    <3>2. v.kind \in Supported /\ Came(v) \in 0 .. Len(v.was) /\ Came(v) = Len(v.was) /\ v.pend \in Seq(Byte)
      BY <1>1, <1>4, <2>1, <2>3, <2>4, <3>1
    <3>3. v.cap \in Nat /\ Len(v.given) <= v.cap
      BY <1>1, <1>15, <2>1, <2>5
    <3>4. Given(v, files) \in Seq(Byte)
      BY <2>3, <2>5
    <3>5. QED
      BY <2>1, <2>2, <2>6, <3>2, <3>3, <3>4 DEF DecodesWell
  <2>8. InPlace(v, files) /\ Encoding(v, files) /\ Decoding(v, files) /\ Answered(v, files)
    BY <2>1, <2>7 DEF InPlace, Encoding, Decoding, Answered
  <2>held. HeldWell(v)
    BY <2>2 DEF HeldWell
  <2>9. LiveCall(v, files)
    BY <1>1, <1>4, <2>1, <2>8, <2>held DEF LiveCall
  <2>10. QED
    BY <1>0, <1>6, <2>9
<1>16. round.says \in {"ok", "end", "error"} /\ (round.says = "end" => round.ibuf # call.ibuf)
  BY <1>5 DEF RoundOf
<1>17. \/ v = [call EXCEPT !.cap = 2 * @]
       \/ v = Fault(Return("ENOMEM"))
       \/ round.says = "end" /\ \E n : v = n /\ DecoderMoves(n, round) /\ n.pc = "returned" /\ n.ret = "OK"
                                    /\ n.given = call.given \o round.out
       \/ round.says = "error" /\ v = Return("EILSEQ")
       \/ round.says = "ok" /\ Len(call.given) < call.cap /\ round.out = <<>> /\ round.ibuf = call.ibuf /\ v = Return("EILSEQ")
       \/ round.says = "ok" /\ \E n : v = n /\ DecoderMoves(n, round) /\ n.pc = call.pc
                                    /\ n.given = call.given \o round.out /\ n.cap = call.cap
  BY <1>1, <1>2, <1>3, <1>6, <1>16, GrowDoes
<1> HIDE DEF DecoderMoves
<1>18. QED
  BY <1>8, <1>9, <1>11, <1>12, <1>14, <1>15, <1>17

\* What a stream begins with is all ahead of an encoder that starts.
LEMMA StartAhead ==
  ASSUME NEW k \in Supported, NEW was \in Seq(Byte)
  PROVE  /\ <<>> \o (<<>> \o (<<Header(k)>> \o (Units((<<>> \o <<>>) \o SubSeq(was, 1, Len(was))) \o <<Trailer(k)>>)))
              = Frame(k, was)
         /\ <<Header(k)>> \in Seq(Cell)
<1>1. SubSeq(was, 1, Len(was)) = was
  BY WholeList
<1>2. (<<>> \o <<>>) \o was = was
  OBVIOUS
<1>3. Header(k) \in Cell /\ Trailer(k) \in Cell /\ Datum \subseteq Cell
  BY DEF Cell, Marks, Datum
<1>4. PICK h, u, t : h = <<Header(k)>> /\ u = Units(was) /\ t = <<Trailer(k)>>
  OBVIOUS
<1>5. h \in Seq(Cell) /\ u \in Seq(Cell) /\ t \in Seq(Cell)
  <2>1. u \in Seq(Datum)
    BY <1>4, UnitShape
  <2>2. QED
    BY <1>3, <1>4, <2>1
<1>6. (h \o u) \o t = h \o (u \o t)
  BY <1>5, CellsAssociated, Zenon
<1>7. <<>> \o (<<>> \o (h \o (u \o t))) = h \o (u \o t)
  <2>1. \A x \in Seq(Cell) : <<>> \o (<<>> \o x) = x
    OBVIOUS
  <2>2. h \o (u \o t) \in Seq(Cell)
    BY <1>5
  <2>3. QED
    BY <2>1, <2>2, Zenon
<1>8. Frame(k, was) = (h \o u) \o t
  BY <1>4, Zenon DEF Frame
<1>9. QED
  BY <1>1, <1>2, <1>4, <1>5, <1>6, <1>7, <1>8, Zenon

\* A call that is opened, as values.
LEMMA OpenDoes ==
  ASSUME NEW op, NEW algo, NEW p, NEW q, NEW keep, OpenFiles(op, algo, p, q, keep)
  PROVE  /\ p # q /\ files[p] # Absent /\ (op = "compress" => Texty(files[p]))
         /\ \E n : /\ call' = n /\ DOMAIN n = CallFields /\ n.op = op /\ n.in = p /\ n.held = files[p] /\ n.was = files[p]
                   /\ \/ /\ files' = [files EXCEPT ![q] = <<>>] /\ n.out = q /\ n.pc = "read" /\ n.kind \in Supported
                         /\ n.pos = 0 /\ n.ibuf = <<>> /\ ~n.last /\ n.pend = <<>> /\ ~n.inside /\ n.buffered = <<>>
                         /\ (op = "compress" => n.queue = <<Header(n.kind)>>)
                      \/ /\ files' = [files EXCEPT ![q] = <<>>] /\ n.out = q /\ n.pc = "remove_out"
                         /\ n.kind \notin Supported /\ n.ret = "ENOTSUP"
                      \/ files' = files /\ n.out = p /\ n.pc = "returned" /\ n.ret = "errno" /\ n.fault
<1> DEFINE kind == IF algo # "auto" THEN algo ELSE IF op = "compress" THEN "zstd" ELSE Detect(files[p])
           c == [Start(op, kind, p) EXCEPT !.out = q, !.keep = keep, !.held = files[p], !.was = files[p],
                   !.queue = IF op = "compress" THEN <<Header(kind)>> ELSE <<>>]
           reads == [c EXCEPT !.pc = "read"]
           fails == [c EXCEPT !.pc = "remove_out", !.ret = "ENOTSUP"]
           ends == Fault([c EXCEPT !.pc = "returned", !.ret = "errno", !.out = p])
<1>1. /\ p # q /\ files[p] # Absent /\ (op = "compress" => Texty(files[p]))
      /\ \/ files' = [files EXCEPT ![q] = <<>>] /\ call' = IF kind \in Supported THEN reads ELSE fails
         \/ files' = files /\ call' = ends
  BY DEF OpenFiles, Missing
<1>2. PICK k : k = kind
  OBVIOUS
<1>3. PICK round : round = [Start(op, k, p) EXCEPT !.out = q, !.keep = keep, !.held = files[p], !.was = files[p],
                   !.queue = IF op = "compress" THEN <<Header(k)>> ELSE <<>>]
  OBVIOUS
<1>4. round = c
  <2> HIDE DEF kind
  <2>1. QED
    BY <1>2, <1>3, Zenon
<1>5. /\ DOMAIN round = CallFields /\ round.op = op /\ round.kind = k /\ round.in = p /\ round.out = q /\ round.held = files[p] /\ round.was = files[p] /\ round.pos = 0
      /\ round.ibuf = <<>> /\ ~round.last /\ round.pend = <<>> /\ ~round.inside /\ round.buffered = <<>>
      /\ (op = "compress" => round.queue = <<Header(k)>>)
  BY <1>3 DEF Start, CallFields
<1> HIDE DEF c, kind
<1>6. PICK r, f, e : /\ r = [round EXCEPT !.pc = "read"] /\ f = [round EXCEPT !.pc = "remove_out", !.ret = "ENOTSUP"]
                     /\ e = Fault([round EXCEPT !.pc = "returned", !.ret = "errno", !.out = p])
  OBVIOUS
<1>7. r = reads /\ f = fails /\ e = ends
  BY <1>4, <1>6, Zenon
<1>8. /\ DOMAIN r = CallFields /\ r.op = op /\ r.kind = k /\ r.in = p /\ r.out = q /\ r.held = files[p] /\ r.was = files[p] /\ r.pos = 0
      /\ r.ibuf = <<>> /\ ~r.last /\ r.pend = <<>> /\ ~r.inside /\ r.buffered = <<>> /\ r.pc = "read"
      /\ (op = "compress" => r.queue = <<Header(k)>>)
  BY <1>5, <1>6 DEF CallFields
<1>9. /\ DOMAIN f = CallFields /\ f.op = op /\ f.kind = k /\ f.in = p /\ f.out = q /\ f.held = files[p] /\ f.was = files[p]
      /\ f.pc = "remove_out" /\ f.ret = "ENOTSUP"
  BY <1>5, <1>6 DEF CallFields
<1>10. /\ DOMAIN e = CallFields /\ e.op = op /\ e.in = p /\ e.out = p /\ e.held = files[p] /\ e.was = files[p]
       /\ e.pc = "returned" /\ e.ret = "errno" /\ e.fault
  BY <1>5, <1>6 DEF Fault, CallFields
<1>11. \/ files' = [files EXCEPT ![q] = <<>>] /\ call' = r /\ k \in Supported
       \/ files' = [files EXCEPT ![q] = <<>>] /\ call' = f /\ k \notin Supported
       \/ files' = files /\ call' = e
  <2> HIDE DEF reads, fails, ends
  <2>1. QED
    BY <1>1, <1>2, <1>7
<1>12. QED
  BY <1>1, <1>8, <1>9, <1>10, <1>11

\* A call on files begins with all of its input ahead.
LEMMA OpenLive ==
  ASSUME LiveFiles(files), NEW op \in {"compress", "decompress"}, NEW algo, NEW p \in Paths,
         NEW q \in Paths, NEW keep,
         OpenFiles(op, algo, p, q, keep)
  PROVE  LiveFiles(files') /\ LiveCall(call', files')
<1>1. p # q /\ files[p] # Absent /\ (op = "compress" => Texty(files[p]))
  BY OpenDoes
<1>2. PICK n : /\ call' = n /\ DOMAIN n = CallFields /\ n.op = op /\ n.in = p /\ n.held = files[p] /\ n.was = files[p]
               /\ \/ /\ files' = [files EXCEPT ![q] = <<>>] /\ n.out = q /\ n.pc = "read" /\ n.kind \in Supported
                     /\ n.pos = 0 /\ n.ibuf = <<>> /\ ~n.last /\ n.pend = <<>> /\ ~n.inside /\ n.buffered = <<>>
                     /\ (op = "compress" => n.queue = <<Header(n.kind)>>)
                  \/ /\ files' = [files EXCEPT ![q] = <<>>] /\ n.out = q /\ n.pc = "remove_out"
                     /\ n.kind \notin Supported /\ n.ret = "ENOTSUP"
                  \/ files' = files /\ n.out = p /\ n.pc = "returned" /\ n.ret = "errno" /\ n.fault
  BY OpenDoes
<1>3. PICK was, g : was = files[p] /\ g = files'
  OBVIOUS
<1>4. Content(was) /\ was # Absent /\ DOMAIN files = Paths
  BY <1>1, <1>3 DEF LiveFiles
<1>5. was \in Seq(Cell)
  BY <1>4, ContentShape
<1>6. op = "compress" => was \in Seq(Byte)
  <2> SUFFICES ASSUME op = "compress" PROVE was \in Seq(Byte)
    OBVIOUS
  <2>1. \A at \in DOMAIN was : was[at][1] = "byte"
    BY <1>1, <1>3 DEF Texty
  <2>2. DOMAIN was = 1 .. Len(was)
    BY <1>5
  <2>3. CASE was = <<>>
    BY <2>3
  <2>4. CASE was # <<>>
    BY <1>4, <2>1, <2>2, <2>4, ContentShape DEF Textual
  <2>5. QED
    BY <2>3, <2>4
<1>7. n.was = was /\ OnFiles(n)
  BY <1>2, <1>3 DEF OnFiles
<1>8. CASE g = files /\ n.out = p /\ n.pc = "returned" /\ n.ret = "errno" /\ n.fault
  <2>1. InPlace(n, g) /\ Encoding(n, g) /\ Decoding(n, g)
    BY <1>8 DEF InPlace, Encoding, Decoding
  <2>2. Excused(n)
    BY <1>8 DEF Excused
  <2>3. Answered(n, g)
    BY <1>2, <1>3, <1>7, <1>8, <2>2 DEF Answered
  <2>held. HeldWell(n)
    BY <1>2 DEF HeldWell
  <2>4. QED
    BY <1>2, <1>3, <1>4, <1>7, <1>8, <2>1, <2>3, <2>held DEF LiveCall
<1>9. ASSUME g = [files EXCEPT ![q] = <<>>]
      PROVE  LiveFiles(g) /\ g[p] = was /\ g[q] = <<>> /\ DOMAIN g = Paths
  <2>1. Content(<<>>)
    <3>1. <<>> \in Seq(Byte)
      OBVIOUS
    <3>2. QED
      BY <3>1 DEF Content, Textual
  <2>2. DOMAIN g = Paths /\ g[q] = <<>> /\ \A x \in Paths : x # q => g[x] = files[x]
    BY <1>4, <1>9
  <2>3. QED
    BY <1>1, <1>3, <2>1, <2>2 DEF LiveFiles
<1>10. CASE g = [files EXCEPT ![q] = <<>>] /\ n.out = q /\ n.pc = "remove_out" /\ n.kind \notin Supported /\ n.ret = "ENOTSUP"
  <2>1. LiveFiles(g) /\ g[p] = was /\ g[q] = <<>>
    BY <1>9, <1>10
  <2>2. InPlace(n, g)
    BY <1>1, <1>2, <1>7, <1>10, <2>1 DEF InPlace
  <2>3. Excused(n)
    BY <1>10 DEF Excused
  <2>4. Encoding(n, g) /\ Decoding(n, g) /\ Answered(n, g)
    BY <1>10, <2>3 DEF Encoding, Decoding, Answered
  <2>held. HeldWell(n)
    BY <1>2 DEF HeldWell
  <2>5. QED
    BY <1>2, <1>3, <1>4, <1>7, <1>10, <2>1, <2>2, <2>4, <2>held DEF LiveCall
<1>11. CASE /\ g = [files EXCEPT ![q] = <<>>] /\ n.out = q /\ n.pc = "read" /\ n.kind \in Supported
            /\ n.pos = 0 /\ n.ibuf = <<>> /\ ~n.last /\ n.pend = <<>> /\ ~n.inside /\ n.buffered = <<>>
            /\ (op = "compress" => n.queue = <<Header(n.kind)>>)
  <2>1. LiveFiles(g) /\ g[p] = was /\ g[q] = <<>>
    BY <1>9, <1>11
  <2>2. InPlace(n, g)
    BY <1>1, <1>2, <1>7, <1>11, <2>1 DEF InPlace
  <2>3. Len(was) \in Nat /\ 0 \in 0 .. Len(was)
    BY <1>5
  <2>4. <<>> \in Seq(Byte) /\ <<>> \in Seq(Cell)
    OBVIOUS
  <2>5. ASSUME op = "compress" PROVE EncodesWell(n, g)
    <3>1. PICK k : k = n.kind /\ k \in Supported /\ n.queue = <<Header(k)>>
      BY <1>11, <2>5
    <3>2. StillAhead(n) = Units((<<>> \o <<>>) \o SubSeq(was, 1, Len(was))) \o <<Trailer(k)>>
      <4>1. 0 + 1 = 1
        OBVIOUS
      <4>2. StillAhead(n) = Units((n.pend \o n.ibuf) \o SubSeq(n.was, n.pos + 1, Len(n.was))) \o <<Trailer(n.kind)>>
        BY <1>11 DEF StillAhead
      <4>3. QED
        BY <1>7, <1>11, <3>1, <4>1, <4>2
    <3>3. /\ <<>> \o (<<>> \o (<<Header(k)>> \o (Units((<<>> \o <<>>) \o SubSeq(was, 1, Len(was))) \o <<Trailer(k)>>)))
                = Frame(k, was)
          /\ <<Header(k)>> \in Seq(Cell)
      BY <1>6, <2>5, <3>1, StartAhead
    <3>4. g[n.out] = <<>> /\ n.buffered = <<>> /\ n.was = was
      BY <1>7, <1>11, <2>1
    <3>5. g[n.out] \o (n.buffered \o (n.queue \o StillAhead(n))) = Frame(n.kind, n.was)
      BY <3>1, <3>2, <3>3, <3>4, Zenon
    <3>6. QED
      BY <1>6, <1>7, <1>11, <2>3, <2>4, <2>5, <3>1, <3>3, <3>4, <3>5 DEF EncodesWell, Textual
  <2>6. ASSUME op = "decompress" PROVE DecodesWell(n, g)
    <3>1. Came(n) = 0 /\ Given(n, g) = <<>>
      <4>1. <<>> \o <<>> = <<>>
        OBVIOUS
      <4>2. QED
        BY <1>7, <1>11, <2>1, <4>1 DEF Came, Given
    <3>2. AtCell(0, was, 0, <<>>, <<>>, <<>>, n.inside)
      <4>1. SubSeq(was, 0 + 1, 0) = <<>> /\ SubSeq(was, 1, 0) = <<>> /\ <<>> \o <<>> = <<>>
        BY <1>5
      <4>2. Bytes(<<>>) = <<>>
        BY <1>5, BytesGrow
      <4>3. 0 \in 0 .. 0 /\ \A at \in 1 .. 0 : FALSE
        OBVIOUS
      <4>4. Bytes(SubSeq(was, 1, 0)) = <<>>
        BY <4>1, <4>2
      <4>5. ~n.inside
        BY <1>11
      <4>6. QED
        BY <4>1, <4>3, <4>4, <4>5, Zenon DEF AtCell
    <3>3. \E m : AtCell(m, n.was, Came(n), n.ibuf, Given(n, g), n.pend, n.inside)
      BY <1>7, <1>11, <3>1, <3>2
    <3>4. QED
      BY <1>7, <1>11, <2>1, <2>3, <2>4, <3>1, <3>3 DEF DecodesWell
  <2>7. Encoding(n, g) /\ Decoding(n, g) /\ Answered(n, g)
    BY <1>2, <1>11, <2>5, <2>6 DEF Encoding, Decoding, Answered
  <2>held. HeldWell(n)
    BY <1>2 DEF HeldWell
  <2>8. QED
    BY <1>2, <1>3, <1>4, <1>7, <1>11, <2>1, <2>2, <2>7, <2>held DEF LiveCall
<1>12. QED
  BY <1>2, <1>3, <1>8, <1>10, <1>11

\* The next chunk, as values: where it ends.
ChunkEnds(was, pos, e) ==
  /\ e \in Nat /\ pos <= e /\ e <= Len(was) /\ Chunked = SubSeq(was, pos + 1, e)
  /\ pos + Len(Chunked) = e /\ (Len(Chunked) < Chunk => e = Len(was))

\* A chunk is what follows, and a short one is the last.
LEMMA ChunkRead ==
  ASSUME NEW was \in Seq(Cell), was = call.was, NEW pos \in Nat, pos = call.pos, pos <= Len(was)
  PROVE  \E e : ChunkEnds(was, pos, e)
<1>1. PICK l \in Nat, ch \in Nat : l = Len(was) /\ ch = Chunk
  BY CompressAssumption
<1>2. Min({pos + ch, l}) = IF pos + ch <= l THEN pos + ch ELSE l
  BY <1>1, TheSmaller
<1>3. PICK e \in Nat : e = (IF pos + ch <= l THEN pos + ch ELSE l) /\ pos <= e /\ e <= l
  BY <1>1
<1>4. Chunked = SubSeq(was, pos + 1, e)
  BY <1>1, <1>2, <1>3 DEF Chunked
<1>5. Len(SubSeq(was, pos + 1, e)) = e - pos
  <2>1. pos <= e /\ e <= Len(was) /\ e \in Nat
    BY <1>1, <1>3
  <2>2. QED
    BY <2>1, Piece
<1>6. PICK len \in Nat : len = e - pos
  BY <1>3
<1>7. pos + len = e /\ (len < ch => e = l)
  <2>1. \A at, j, k, m, o \in Nat : k = (IF at + j <= m THEN at + j ELSE m) /\ at <= k /\ o = k - at => at + o = k /\ (o < j => k = m)
    OBVIOUS
  <2>2. pos \in Nat /\ ch \in Nat /\ e \in Nat /\ l \in Nat /\ len \in Nat
    BY <1>1, <1>3, <1>6
  <2>3. QED
    BY <1>3, <1>6, <2>1, <2>2
<1>8. Len(Chunked) = len
  BY <1>4, <1>5, <1>6
<1>9. ChunkEnds(was, pos, e)
  BY <1>1, <1>3, <1>4, <1>7, <1>8 DEF ChunkEnds
<1>10. QED
  BY <1>9

\* A chunk that is read is still to be taken.
LEMMA ReadLive ==
  ASSUME LiveFiles(files), LiveCall(call, files), ReadChunk
  PROVE  LiveFiles(files') /\ LiveCall(call', files')
<1>1. PICK n : n = call'
  OBVIOUS
<1>2. /\ files' = files /\ call.pc = "read"
      /\ n = [call EXCEPT !.ibuf = Chunked, !.pos = @ + Len(Chunked), !.last = Len(Chunked) < Chunk,
                !.pc = IF call.op = "compress" THEN "deflate" ELSE "inflate"]
  BY <1>1 DEF ReadChunk
<1>3. DOMAIN call = CallFields /\ Content(call.was) /\ call.was # Absent
      /\ InPlace(call, files) /\ Encoding(call, files) /\ Decoding(call, files)
  BY DEF LiveCall
<1>4. /\ DOMAIN n = CallFields /\ n.op = call.op /\ n.kind = call.kind /\ n.in = call.in /\ n.out = call.out
      /\ n.was = call.was /\ n.held = call.held /\ n.buffered = call.buffered /\ n.queue = call.queue /\ n.pend = call.pend
      /\ n.inside = call.inside /\ n.ibuf = Chunked /\ n.pos = call.pos + Len(Chunked)
      /\ (n.last <=> Len(Chunked) < Chunk)
      /\ n.pc = IF call.op = "compress" THEN "deflate" ELSE "inflate"
  BY <1>2, <1>3 DEF CallFields
<1>5. OnFiles(call) /\ OnFiles(n) /\ call.op \in {"compress", "decompress"}
      /\ call.in # call.out /\ files[call.in] = call.held /\ {call.in, call.out} \subseteq Paths
  BY <1>2, <1>3, <1>4 DEF InPlace, OnFiles
<1>6. PICK was, pos, l : was = call.was /\ pos = call.pos /\ l = Len(was)
  OBVIOUS
<1>7. was \in Seq(Cell) /\ l \in Nat
  BY <1>3, <1>6, ContentShape
<1>8. pos \in 0 .. l /\ (call.op = "compress" => EncodesWell(call, files)) /\ (call.op = "decompress" => DecodesWell(call, files))
  <2>1. (call.op = "compress" => EncodesWell(call, files)) /\ (call.op = "decompress" => DecodesWell(call, files))
    BY <1>2, <1>3 DEF Encoding, Decoding
  <2>2. call.op = "compress" => pos \in 0 .. l
    BY <1>6, <2>1 DEF EncodesWell
  <2>3. call.op = "decompress" => pos \in 0 .. l
    BY <1>5, <1>6, <2>1 DEF DecodesWell, Came
  <2>4. QED
    BY <1>5, <2>1, <2>2, <2>3
<1>9. PICK e \in Nat : /\ pos <= e /\ e <= l /\ Chunked = SubSeq(was, pos + 1, e) /\ pos + Len(Chunked) = e
                       /\ (Len(Chunked) < Chunk => e = l)
  <2>1. was = call.was /\ pos \in Nat /\ pos = call.pos /\ pos <= Len(was)
    BY <1>6, <1>7, <1>8
  <2>2. PICK e : ChunkEnds(was, pos, e)
    BY <1>7, <2>1, ChunkRead
  <2>3. QED
    BY <1>6, <2>2 DEF ChunkEnds
<1>10. n.pos = e /\ (n.last => e = l) /\ n.ibuf = SubSeq(was, pos + 1, e) /\ n.was = was
  BY <1>4, <1>6, <1>9
<1>11. CASE call.op = "compress"
  <2>1. EncodesWell(call, files) /\ call.ibuf = <<>> /\ ~call.inside /\ call.pend \in Seq(Byte) /\ was \in Seq(Byte)
    BY <1>2, <1>6, <1>8, <1>11 DEF EncodesWell, Textual
  <2>2. PICK pend, onward, chunk, later : /\ pend = call.pend /\ onward = SubSeq(was, pos + 1, l)
                                        /\ chunk = SubSeq(was, pos + 1, e) /\ later = SubSeq(was, e + 1, l)
    OBVIOUS
  <2>3. chunk \in Seq(Byte) /\ later \in Seq(Byte) /\ chunk \o later = onward
    <3>1. pos \in Nat /\ pos <= e /\ e <= l /\ l <= Len(was) /\ e <= Len(was)
      BY <1>6, <1>7, <1>8, <1>9
    <3>2. SubSeq(was, pos + 1, e) \o SubSeq(was, e + 1, l) = SubSeq(was, pos + 1, l)
      BY <1>7, <1>9, <3>1, CutApart
    <3>3. SubSeq(was, pos + 1, e) \in Seq(Byte)
      BY <1>9, <2>1, <3>1, Piece
    <3>4. SubSeq(was, e + 1, l) \in Seq(Byte)
      BY <1>7, <1>9, <2>1, <3>1, Piece
    <3>5. QED
      BY <2>2, <3>2, <3>3, <3>4
  <2>4. (pend \o <<>>) \o onward = (pend \o chunk) \o later
    <3>1. pend \in Seq(Byte)
      BY <2>1, <2>2
    <3>2. pend \o <<>> = pend
      BY <3>1, WholeList
    <3>3. (pend \o chunk) \o later = pend \o (chunk \o later)
      BY <2>3, <3>1, BytesAssociated, Zenon
    <3>4. QED
      BY <2>3, <3>2, <3>3
  <2>5. StillAhead(n) = StillAhead(call)
    <3>1. StillAhead(call) = Units((pend \o <<>>) \o onward) \o <<Trailer(call.kind)>>
      BY <1>6, <2>1, <2>2 DEF StillAhead
    <3>2. ~n.inside /\ n.pend = pend /\ n.ibuf = chunk /\ n.kind = call.kind /\ n.was = was /\ n.pos = e
      BY <1>4, <1>10, <2>1, <2>2
    <3>3. StillAhead(n) = Units((pend \o chunk) \o later) \o <<Trailer(call.kind)>>
      BY <1>6, <2>2, <3>2 DEF StillAhead
    <3>4. QED
      BY <2>4, <3>1, <3>3
  <2>6. EncodesWell(n, files)
    <3>1. n.pos \in 0 .. Len(n.was) /\ (n.last => n.pos = Len(n.was))
      BY <1>6, <1>9, <1>10
    <3>2. n.ibuf \in Seq(Byte) /\ ~n.inside /\ n.pc = "deflate"
      BY <1>4, <1>10, <1>11, <2>1, <2>2, <2>3
    <3>3. QED
      BY <1>4, <1>11, <2>1, <2>5, <3>1, <3>2 DEF EncodesWell, Textual
  <2>7. InPlace(n, files)
    BY <1>4, <1>5, <1>11 DEF InPlace
  <2>8. Encoding(n, files) /\ Decoding(n, files) /\ Answered(n, files)
    BY <1>4, <1>11, <2>6 DEF Encoding, Decoding, Answered
  <2>held. HeldWell(n)
    <3>1. n.out = call.out /\ n.op = "compress"
      BY <1>4, <1>11
    <3>2. call.out \in Paths
      BY <1>5
    <3>3. QED
      BY <3>1, <3>2 DEF HeldWell
  <2>9. LiveCall(n, files)
    BY <1>3, <1>4, <1>5, <1>11, <2>7, <2>8, <2>held DEF LiveCall
  <2>10. QED
    BY <1>1, <1>2, <2>9
<1>12. CASE call.op = "decompress"
  <2>1. DecodesWell(call, files) /\ call.ibuf = <<>> /\ call.pc = "read"
    BY <1>2, <1>8, <1>12 DEF DecodesWell
  <2>2. Given(n, files) = Given(call, files) /\ Came(n) = e /\ Came(call) = pos
    BY <1>4, <1>5, <1>6, <1>10 DEF Given, Came
  <2>3. PICK m : AtCell(m, was, pos, <<>>, Given(call, files), call.pend, call.inside)
    BY <1>2, <1>6, <2>1, <2>2 DEF DecodesWell
  <2>4. m = pos
    <3>1. m \in 0 .. pos /\ <<>> = SubSeq(was, m + 1, pos)
      BY <2>3 DEF AtCell
    <3>2. PICK c : c = SubSeq(was, m + 1, pos)
      OBVIOUS
    <3>3. Len(c) = pos - m
      <4>1. m \in Nat /\ pos \in Nat /\ m <= pos /\ pos <= Len(was)
        BY <1>6, <1>7, <1>8, <3>1
      <4>2. QED
        BY <1>7, <3>2, <4>1, Piece
    <3>4. Len(c) = 0
      BY <3>1, <3>2
    <3>5. QED
      BY <1>7, <1>8, <3>1, <3>3, <3>4
  <2>5. AtCell(pos, was, e, SubSeq(was, pos + 1, e), Given(call, files), call.pend, call.inside)
    <3>1. pos \in 0 .. e
      BY <1>7, <1>8, <1>9
    <3>2. QED
      BY <2>3, <2>4, <3>1 DEF AtCell
  <2>6. \E at : AtCell(at, n.was, Came(n), n.ibuf, Given(n, files), n.pend, n.inside)
    <3>1. AtCell(pos, n.was, Came(n), n.ibuf, Given(n, files), n.pend, n.inside)
      BY <1>4, <1>10, <2>2, <2>5
    <3>2. QED
      BY <3>1
  <2>7. DecodesWell(n, files)
    <3>1. Came(n) \in 0 .. Len(n.was) /\ (n.last => Came(n) = Len(n.was))
      BY <1>6, <1>9, <1>10, <2>2
    <3>2. n.pc = "inflate"
      BY <1>4, <1>12
    <3>3. QED
      BY <1>4, <1>5, <2>1, <2>2, <2>6, <3>1, <3>2 DEF DecodesWell
  <2>8. InPlace(n, files)
    BY <1>4, <1>5, <1>12 DEF InPlace
  <2>9. Encoding(n, files) /\ Decoding(n, files) /\ Answered(n, files)
    BY <1>4, <1>12, <2>7 DEF Encoding, Decoding, Answered
  <2>held. HeldWell(n)
    BY <1>4, <1>5 DEF LiveCall, HeldWell
  <2>10. LiveCall(n, files)
    BY <1>3, <1>4, <1>5, <1>12, <2>8, <2>9, <2>held DEF LiveCall
  <2>11. QED
    BY <1>1, <1>2, <2>10
<1>13. QED
  BY <1>5, <1>11, <1>12

\* What is left of a file's contents when it is cut is contents, without a tail.
LEMMA CutContent ==
  ASSUME NEW c, Content(c), c # Absent, NEW e \in Nat, e < Len(c)
  PROVE  /\ SubSeq(c, 1, e) \in Seq(Cell) /\ Len(SubSeq(c, 1, e)) = e
         /\ Content(SubSeq(c, 1, e)) /\ SubSeq(c, 1, e) # Absent /\ NoTail(SubSeq(c, 1, e))
         /\ Textual(c) => Textual(SubSeq(c, 1, e))
         /\ Streaming(c) => Streaming(SubSeq(c, 1, e))
<1>1. c \in Seq(Cell) /\ \A n \in 1 .. Len(c) : c[n][1] = "tail" => n = Len(c)
  BY TailsLast
<1>0. PICK p, l : p = SubSeq(c, 1, e) /\ l = Len(c)
  OBVIOUS
<1>2. p = SubSeq(c, 1, e) /\ l = Len(c) /\ l \in Nat /\ e < l
  BY <1>0, <1>1
<1>3. p \in Seq(Cell) /\ Len(p) = e /\ \A n \in 1 .. e : p[n] = c[n]
  BY <1>1, <1>2
<1>4. NoTail(p)
  BY <1>1, <1>2, <1>3 DEF NoTail
<1>5. p # Absent
  <2> SUFFICES ASSUME p = Absent PROVE FALSE
    OBVIOUS
  <2>1. Len(p) = 1 /\ p[1] = <<"absent", "none">>
    BY DEF Absent
  <2>2. p[1] \in Cell
    <3>1. 1 \in 1 .. Len(p)
      BY <2>1
    <3>2. \A s \in Seq(Cell) : 1 \in 1 .. Len(s) => s[1] \in Cell
      OBVIOUS
    <3>3. QED
      BY <1>3, <3>1, <3>2
  <2>3. PICK u : u = p[1]
    OBVIOUS
  <2>4. u \in Cell /\ u[1] = "absent"
    <3>1. u \in Cell
      BY <2>2, <2>3
    <3>2. u = <<"absent", "none">>
      BY <2>1, <2>3
    <3>3. u[1] = "absent"
      BY <3>2
    <3>4. QED
      BY <3>1, <3>3
  <2>5. \A j \in {"data"} \X Seq(Byte) : j[1] = "data"
    OBVIOUS
  <2>6. QED
    BY <2>4, <2>5, Cells DEF Cell
<1>6. Textual(c) => Textual(p)
  <2>1. ASSUME c \in Seq(Byte) PROVE p \in Seq(Byte)
    BY <1>2, <2>1
  <2>2. QED
    BY <2>1 DEF Textual
<1>7. ASSUME Streaming(c) PROVE Streaming(p)
  <2>1. PICK k \in Supported, t \in Seq(Byte) :
          \/ \E n \in 0 .. Len(Frame(k, t)) : c = SubSeq(Frame(k, t), 1, n)
          \/ c = [Frame(k, t) EXCEPT ![Len(Frame(k, t))] = Trailer("bad")]
    BY <1>7 DEF Streaming
  <2>2. PICK f \in Seq(Cell), m \in Nat : f = Frame(k, t) /\ m = Len(f)
    BY FrameShape
  <2>3. l <= m /\ \A n \in 1 .. e : c[n] = f[n]
    <3>1. CASE \E n \in 0 .. m : c = SubSeq(f, 1, n)
      BY <1>2, <2>2, <3>1
    <3>2. CASE c = [f EXCEPT ![m] = Trailer("bad")]
      <4>1. DOMAIN c = 1 .. m /\ DOMAIN c = 1 .. l
        BY <1>1, <1>2, <2>2, <3>2
      <4>2. l = m
        BY <1>1, <1>2, <2>2, <3>2, <4>1
      <4>3. \A n \in 1 .. e : n \in 1 .. m /\ n # m
        BY <1>2, <4>2
      <4>4. \A n \in 1 .. e : c[n] = f[n]
        BY <2>2, <3>2, <4>3
      <4>5. QED
        BY <4>2, <4>4
    <3>3. QED
      BY <2>1, <2>2, <3>1, <3>2
  <2>4. PICK q : q = SubSeq(f, 1, e) /\ q \in Seq(Cell) /\ Len(q) = e /\ \A n \in 1 .. e : q[n] = f[n]
    BY <1>2, <2>2, <2>3
  <2>5. p = q
    BY <1>3, <2>3, <2>4, SameMembers
  <2>6. e \in 0 .. Len(Frame(k, t)) /\ p = SubSeq(Frame(k, t), 1, e)
    BY <1>2, <2>2, <2>3, <2>4, <2>5
  <2>7. QED
    BY <2>6 DEF Streaming
<1>8. QED
  BY <1>2, <1>3, <1>4, <1>5, <1>6, <1>7 DEF Content

\* What is out and what the encoder makes of the rest of the text are the stream of was.
WithRest(out, rest, k, was) == out \o (Units(rest) \o <<Trailer(k)>>) = Frame(k, was)

\* The same with what is left of a text from pos on, and where it ends early.
Cutting(k, was, pos, e, x, out) ==
  /\ k \in Supported /\ was \in Seq(Byte) /\ x \in Seq(Byte) /\ out \in Seq(Cell)
  /\ pos \in Nat /\ e \in Nat /\ pos <= e /\ e <= Len(was) /\ pos < Len(was)
  /\ WithRest(out, x \o SubSeq(was, pos + 1, Len(was)), k, was)

\* A text in two, where the first is whole units.
Parted(was, z, a, f) ==
  /\ f \in Seq(Byte) /\ was = f \o z /\ Len(f) = a * Ratio /\ Units(f) = SubSeq(Units(was), 1, a)

\* The units of one text are those of another from the a-th on.
UnitsFrom(was, z, a) ==
  a < Len(Units(was)) /\ Units(z) = SubSeq(Units(was), a + 1, Len(Units(was)))

\* The last units of a text are the units of its end.
LEMMA UnitsBack ==
  ASSUME NEW was \in Seq(Byte), NEW z \in Seq(Byte), NEW a \in Nat, UnitsFrom(was, z, a)
  PROVE  \E f : Parted(was, z, a, f)
<1>1. PICK r \in Nat \ {0}, l \in Nat : r = Ratio /\ l = Len(was)
  <2>1. Ratio \in Nat \ {0}
    BY CompressAssumption
  <2>2. Len(was) \in Nat
    OBVIOUS
  <2>3. QED
    BY <2>1, <2>2
<1>2. PICK us \in Seq(Datum), m \in Nat : us = Units(was) /\ m = Len(us)
  <2>1. Units(was) \in Seq(Datum)
    BY UnitShape
  <2>2. \A u \in Seq(Datum) : Len(u) \in Nat
    OBVIOUS
  <2>3. QED
    BY <2>1, <2>2
<1>3. us \in Seq(Datum) /\ m \in Nat /\ m * r < l + r /\ l <= m * r /\ a < m
  <2>1. /\ Units(was) \in Seq(Datum) /\ Len(Units(was)) * Ratio < Len(was) + Ratio
        /\ Len(was) <= Len(Units(was)) * Ratio
    BY UnitShape
  <2>2. us \in Seq(Datum)
    BY <1>2, <2>1
  <2>3. Len(us) \in Nat
    BY <2>2
  <2>4. m * r < l + r /\ l <= m * r /\ a < m
    BY <1>1, <1>2, <2>1 DEF UnitsFrom
  <2>5. QED
    BY <1>2, <2>2, <2>3, <2>4
<1>4. PICK b \in Nat : b = a * r /\ b < l
  <2>1. (a + 1) * r = a * r + r /\ a * r \in Nat
    <3>1. \A j \in Nat : (j + 1) * r = j * r + r /\ j * r \in Nat
      OBVIOUS
    <3>2. QED
      BY <3>1
  <2>2. (a + 1) * r <= m * r
    <3>1. a + 1 <= m /\ a + 1 \in Nat
      BY <1>3
    <3>2. QED
      BY <1>3, <3>1, Multiples
  <2>3. m * r \in Nat
    BY <1>3, Multiples
  <2>4. PICK x \in Nat, y \in Nat : x = a * r /\ y = m * r /\ x + r <= y /\ y < l + r
    BY <1>3, <2>1, <2>2, <2>3
  <2>5. QED
    BY <2>4
<1>5. PICK f, s : f = SubSeq(was, 1, b) /\ s = SubSeq(was, b + 1, l)
  OBVIOUS
<1>6. f \in Seq(Byte) /\ s \in Seq(Byte) /\ f \o s = was /\ Len(f) = b
  <2>1. PICK n \in Nat : n = 0
    OBVIOUS
  <2>2. n <= b /\ b <= l /\ l <= Len(was) /\ b <= Len(was) /\ n + 1 = 1 /\ b - n = b
    BY <1>1, <1>4, <2>1
  <2>3. SubSeq(was, n + 1, b) \in Seq(Byte) /\ Len(SubSeq(was, n + 1, b)) = b - n
    BY <2>2, Piece
  <2>4. SubSeq(was, b + 1, l) \in Seq(Byte)
    BY <2>2, Piece
  <2>5. SubSeq(was, n + 1, b) \o SubSeq(was, b + 1, l) = SubSeq(was, n + 1, l)
    BY <2>2, CutApart
  <2>6. SubSeq(was, 1, l) = was
    BY <1>1, WholeList
  <2>7. QED
    BY <1>5, <2>2, <2>3, <2>4, <2>5, <2>6
<1>7. PICK uf, u2 : uf = Units(f) /\ u2 = Units(s)
  OBVIOUS
<1>8. uf \in Seq(Datum) /\ u2 \in Seq(Datum) /\ Len(uf) * Ratio < Len(f) + Ratio /\ Len(f) <= Len(uf) * Ratio
  BY <1>6, <1>7, UnitShape
<1>9. Len(uf) = a
  <2>1. PICK n : n = Len(uf)
    OBVIOUS
  <2>2. n \in Nat
    BY <1>8, <2>1
  <2>3. n * r < b + r /\ b <= n * r
    BY <1>1, <1>6, <1>8, <2>1
  <2>4. a * r < b + r /\ b <= a * r
    BY <1>4
  <2>5. n = a
    BY <2>2, <2>3, <2>4, OneCount
  <2>6. QED
    BY <2>1, <2>5
<1>10. us = uf \o u2
  <2>1. Len(f) = a * Ratio
    BY <1>1, <1>4, <1>6
  <2>2. Units(f \o s) = Units(f) \o Units(s)
    BY <1>6, <2>1, UnitsApart
  <2>3. QED
    BY <1>2, <1>6, <1>7, <2>2
<1>11. SubSeq(us, 1, a) = uf
  <2>1. a <= Len(uf) /\ 1 \in Nat \ {0}
    BY <1>9
  <2>2. SubSeq(uf \o u2, 1, a) = SubSeq(uf, 1, a)
    BY <1>8, <2>1, LeftPart
  <2>3. SubSeq(uf, 1, Len(uf)) = uf
    BY <1>8, WholeList
  <2>4. QED
    BY <1>9, <1>10, <2>2, <2>3
<1>12. SubSeq(us, a + 1, m) = u2
  <2>1. PICK v \in Nat : v = Len(u2)
    BY <1>8
  <2>2. Len(uf \o u2) = Len(uf) + Len(u2)
    BY <1>8, JoinedAs DEF Join
  <2>3. m = a + v
    BY <1>2, <1>9, <1>10, <2>1, <2>2
  <2>4. 1 \in Nat \ {0} /\ v <= Len(u2)
    BY <2>1
  <2>5. SubSeq(uf \o u2, Len(uf) + 1, Len(uf) + v) = SubSeq(u2, 1, v)
    BY <1>8, <2>4, RightPart
  <2>6. SubSeq(u2, 1, v) = u2
    BY <1>8, <2>1, WholeList
  <2>7. QED
    BY <1>9, <1>10, <2>3, <2>5, <2>6
<1>13. Units(z) = Units(s)
  BY <1>2, <1>7, <1>12 DEF UnitsFrom
<1>14. Bytes(Units(z)) = z /\ Bytes(Units(s)) = s
  BY <1>6, UnitsGive
<1>15. s = z
  BY <1>13, <1>14
<1>16. Parted(was, z, a, f)
  BY <1>1, <1>2, <1>4, <1>6, <1>7, <1>11, <1>15 DEF Parted
<1>17. QED
  BY <1>16

\* A text in three, the last from pos on.
InThree(was, f, x, pos) ==
  /\ was \in Seq(Byte) /\ f \in Seq(Byte) /\ x \in Seq(Byte) /\ pos \in Nat
  /\ was = f \o (x \o SubSeq(was, pos + 1, Len(was)))
\* Its beginning, in three as well.
CutInThree(was, f, x, pos, e) ==
  /\ SubSeq(was, pos + 1, e) \in Seq(Byte) /\ x \o SubSeq(was, pos + 1, e) \in Seq(Byte)
  /\ SubSeq(was, 1, e) = f \o (x \o SubSeq(was, pos + 1, e))

\* When the end of a text that is in three is cut, its beginning is in three.
LEMMA EndCut ==
  ASSUME NEW was, NEW f, NEW x, NEW pos, InThree(was, f, x, pos),
         NEW e \in Nat, pos <= e, e <= Len(was)
  PROVE  CutInThree(was, f, x, pos, e)
<1>0. /\ was \in Seq(Byte) /\ f \in Seq(Byte) /\ x \in Seq(Byte) /\ pos \in Nat
      /\ was = f \o (x \o SubSeq(was, pos + 1, Len(was)))
  BY DEF InThree
<1>1. PICK l \in Nat, n \in Nat : l = Len(was) /\ n = 0
  BY <1>0
<1>2. n <= pos /\ pos <= l /\ l <= Len(was) /\ n + 1 = 1 /\ pos <= Len(was)
  BY <1>0, <1>1
<1>3. PICK y, w, g : y = SubSeq(was, pos + 1, l) /\ w = SubSeq(was, pos + 1, e) /\ g = f \o x
  OBVIOUS
<1>4. y \in Seq(Byte) /\ Len(y) = l - pos
  BY <1>0, <1>2, <1>3, Piece
<1>5. w \in Seq(Byte)
  BY <1>0, <1>3, Piece
<1>6. g \in Seq(Byte)
  BY <1>0, <1>3, JoinedAs
<1>7. was = g \o y
  <2>1. (f \o x) \o y = f \o (x \o y)
    BY <1>0, <1>4, BytesAssociated, Zenon
  <2>2. QED
    BY <1>0, <1>1, <1>3, <2>1
<1>8. Len(g) = pos
  <2>1. Join(g, y, g \o y)
    BY <1>0, <1>4, <1>6, JoinedAs
  <2>2. Len(was) = Len(g) + Len(y)
    BY <1>0, <1>7, <2>1 DEF Join
  <2>3. PICK q \in Nat : q = Len(g)
    BY <1>0, <1>6
  <2>4. l = q + (l - pos)
    BY <1>0, <1>1, <1>4, <2>2, <2>3
  <2>5. q = pos
    BY <1>0, <1>1, <2>3, <2>4
  <2>6. QED
    BY <1>0, <2>3, <2>5
<1>9. SubSeq(was, 1, pos) = g
  <2>1. 1 \in Nat \ {0} /\ pos <= Len(g)
    BY <1>0, <1>8
  <2>2. SubSeq(g \o y, 1, pos) = SubSeq(g, 1, pos)
    BY <1>0, <1>4, <1>6, <2>1, LeftPart
  <2>3. SubSeq(g, 1, Len(g)) = g
    BY <1>0, <1>6, WholeList
  <2>4. QED
    BY <1>0, <1>7, <1>8, <2>2, <2>3
<1>10. SubSeq(was, 1, pos) \o w = SubSeq(was, 1, e)
  <2>1. SubSeq(was, n + 1, pos) \o SubSeq(was, pos + 1, e) = SubSeq(was, n + 1, e)
    BY <1>0, <1>2, CutApart
  <2>2. QED
    BY <1>0, <1>2, <1>3, <2>1
<1>11. (f \o x) \o w = f \o (x \o w)
  BY <1>0, <1>5, BytesAssociated, Zenon
<1>12. x \o w \in Seq(Byte)
  BY <1>0, <1>5, JoinedAs
<1>13. QED
  BY <1>3, <1>5, <1>9, <1>10, <1>11, <1>12 DEF CutInThree

\* What the encoder has ahead, as units of the text.
LEMMA AheadParted ==
  ASSUME NEW k \in Supported, NEW was \in Seq(Byte), NEW z \in Seq(Byte), NEW out \in Seq(Cell),
         Len(z) # 0, WithRest(out, z, k, was)
  PROVE  \E a, f : a \in Nat /\ Parted(was, z, a, f) /\ out = <<Header(k)>> \o Units(f)
<1>1. PICK h, t, us, vs : h = Header(k) /\ t = Trailer(k) /\ us = Units(was) /\ vs = Units(z)
  OBVIOUS
<1>2. h \in Cell /\ t \in Cell /\ Datum \subseteq Cell
  BY <1>1 DEF Cell, Marks, Datum
<1>3. us \in Seq(Datum) /\ vs \in Seq(Datum) /\ Len(z) <= Len(vs) * Ratio
  BY <1>1, UnitShape
<1>4. us \in Seq(Cell) /\ vs \in Seq(Cell)
  BY <1>2, <1>3
<1>5. Len(vs) # 0
  <2>1. PICK r \in Nat, lz \in Nat : r = Ratio /\ lz = Len(z)
    BY CompressAssumption
  <2>2. 0 * r = 0
    BY <2>1
  <2>3. QED
    BY <1>3, <2>1, <2>2
<1>6. vs[1] # h
  <2>1. vs[1] \in Datum
    <3>1. 1 \in 1 .. Len(vs)
      BY <1>3, <1>5
    <3>2. QED
      BY <1>3, <3>1
  <2>2. vs[1][1] = "data"
    BY <2>1 DEF Datum
  <2>3. h[1] = "head"
    BY <1>1 DEF Header
  <2>4. QED
    BY <2>2, <2>3
<1>7. Framed(h, us, t, out, vs)
  BY <1>1 DEF Framed, WithRest, Frame
<1>8. PICK a \in Nat : a < Len(us) /\ out = <<h>> \o SubSeq(us, 1, a) /\ vs = SubSeq(us, a + 1, Len(us))
  <2>1. \E a \in Nat : Headed(h, us, out, vs, a)
    BY <1>2, <1>4, <1>5, <1>6, <1>7, HeadOff, SMTT(60)
  <2>2. QED
    BY <2>1 DEF Headed
<1>9. PICK f : Parted(was, z, a, f)
  <2>1. UnitsFrom(was, z, a)
    BY <1>1, <1>8 DEF UnitsFrom
  <2>2. QED
    BY <2>1, UnitsBack
<1>10. out = <<Header(k)>> \o Units(f)
  BY <1>1, <1>8, <1>9 DEF Parted
<1>11. QED
  BY <1>9, <1>10

\* When the input ends early, what the encoder has ahead is the stream of what was read.
LEMMA PrefixAhead ==
  ASSUME NEW k, NEW was, NEW pos, NEW e, NEW x, NEW out, Cutting(k, was, pos, e, x, out)
  PROVE  WithRest(out, x \o SubSeq(was, pos + 1, e), k, SubSeq(was, 1, e))
<1>1. /\ k \in Supported /\ was \in Seq(Byte) /\ x \in Seq(Byte) /\ out \in Seq(Cell)
      /\ pos \in Nat /\ e \in Nat /\ pos <= e /\ e <= Len(was) /\ pos < Len(was)
      /\ WithRest(out, x \o SubSeq(was, pos + 1, Len(was)), k, was)
  BY DEF Cutting
<1>2. PICK l, y, z : l = Len(was) /\ y = SubSeq(was, pos + 1, l) /\ z = x \o y
  OBVIOUS
<1>3. y \in Seq(Byte) /\ Len(y) = l - pos /\ l \in Nat
  <2>1. l \in Nat /\ pos <= l /\ l <= Len(was)
    BY <1>1, <1>2
  <2>2. QED
    BY <1>1, <1>2, <2>1, Piece
<1>4. z \in Seq(Byte) /\ Len(z) # 0
  <2>1. x \o y \in Seq(Byte) /\ Join(x, y, x \o y)
    BY <1>1, <1>3, JoinedAs
  <2>2. Len(z) = Len(x) + Len(y)
    BY <1>2, <2>1 DEF Join
  <2>3. PICK lx \in Nat : lx = Len(x)
    BY <1>1
  <2>4. l - pos > 0
    BY <1>1, <1>2, <1>3
  <2>5. Len(z) = lx + (l - pos)
    BY <1>3, <2>2, <2>3
  <2>6. QED
    BY <1>1, <1>2, <1>3, <2>1, <2>3, <2>4, <2>5
<1>5. WithRest(out, z, k, was)
  BY <1>1, <1>2
<1>6. PICK a, f : a \in Nat /\ Parted(was, z, a, f) /\ out = <<Header(k)>> \o Units(f)
  BY <1>1, <1>4, <1>5, AheadParted
<1>7. a \in Nat /\ f \in Seq(Byte) /\ was = f \o z /\ Len(f) = a * Ratio
  BY <1>6 DEF Parted
<1>8. PICK w, d : w = SubSeq(was, pos + 1, e) /\ d = x \o w
  OBVIOUS
<1>9. d \in Seq(Byte) /\ SubSeq(was, 1, e) = f \o d
  <2>1. was = f \o (x \o SubSeq(was, pos + 1, Len(was)))
    BY <1>2, <1>7
  <2>2. InThree(was, f, x, pos)
    BY <1>1, <1>7, <2>1 DEF InThree
  <2>3. CutInThree(was, f, x, pos, e)
    BY <1>1, <2>2, EndCut
  <2>4. QED
    BY <1>8, <2>3 DEF CutInThree
<1>10. Units(f \o d) = Units(f) \o Units(d)
  BY <1>7, <1>9, UnitsApart
<1>11. PICK uf, ud, hs, ts : uf = Units(f) /\ ud = Units(d) /\ hs = <<Header(k)>> /\ ts = <<Trailer(k)>>
  OBVIOUS
<1>12. uf \in Seq(Cell) /\ ud \in Seq(Cell) /\ hs \in Seq(Cell) /\ ts \in Seq(Cell)
  <2>1. Header(k) \in Cell /\ Trailer(k) \in Cell /\ Datum \subseteq Cell
    BY <1>1 DEF Cell, Marks, Datum
  <2>2. Units(f) \in Seq(Datum) /\ Units(d) \in Seq(Datum)
    BY <1>7, <1>9, UnitShape
  <2>3. QED
    BY <1>11, <2>1, <2>2
<1>13. (hs \o uf) \o (ud \o ts) = (hs \o (uf \o ud)) \o ts
  <2>1. PICK p \in Seq(Cell) : p = hs \o uf
    BY <1>12, JoinedAs
  <2>2. (p \o ud) \o ts = p \o (ud \o ts)
    BY <1>12, <2>1, CellsAssociated, Zenon
  <2>3. (hs \o uf) \o ud = hs \o (uf \o ud)
    BY <1>12, CellsAssociated, Zenon
  <2>4. QED
    BY <2>1, <2>2, <2>3
<1>14. Frame(k, f \o d) = (hs \o (uf \o ud)) \o ts
  BY <1>10, <1>11 DEF Frame
<1>15. out \o (Units(d) \o <<Trailer(k)>>) = Frame(k, f \o d)
  BY <1>6, <1>11, <1>13, <1>14
<1>16. QED
  BY <1>8, <1>9, <1>15 DEF WithRest

\* A failed read: how much it gave, and what the call makes of it.
ReadFailing(n, e, was) ==
  /\ e \in Nat /\ call.pos <= e /\ e < Len(was)
  /\ DOMAIN n = CallFields /\ n.op = call.op /\ n.kind = call.kind /\ n.in = call.in /\ n.out = call.out
  /\ n.held = call.held /\ n.buffered = call.buffered /\ n.queue = call.queue /\ n.pend = call.pend
  /\ (n.inside <=> call.inside) /\ n.ibuf = SubSeq(was, call.pos + 1, e) /\ n.pos = e
  /\ \/ /\ call.op # "compress" /\ n.pc = "inflate" /\ n.was = was /\ (n.last <=> call.last)
     \/ /\ n.was = SubSeq(was, 1, e) /\ n.last
        /\ n.pc = IF call.op = "compress" THEN "deflate" ELSE "inflate"

\* It fails the call, or ends the chunk before the input ends.
LEMMA ReadFailsDoes ==
  ASSUME DOMAIN call = CallFields, ReadFails, NEW was \in Seq(Cell), was = call.was, call.pos \in 0 .. Len(was)
  PROVE  /\ call.pc = "read" /\ files' = files
         /\ \/ Failing(call', call) /\ call'.fault
            \/ \E n, e : call' = n /\ ReadFailing(n, e, was)
<1>1. PICK pos \in Nat, l \in Nat : pos = call.pos /\ l = Len(was) /\ pos <= l
  OBVIOUS
<1>2. PICK top : ChunkEnds(was, pos, top)
  BY <1>1, ChunkRead
<1>3. PICK ch : ch = Chunked /\ ch = SubSeq(was, pos + 1, top) /\ top \in Nat /\ pos <= top /\ top <= l
  BY <1>1, <1>2 DEF ChunkEnds
<1>4. ch \in Seq(Cell) /\ Len(ch) = top - pos
  BY <1>1, <1>3, Piece
<1>5. PICK by, c :
        /\ by \in 0 .. Len(ch) - 1
        /\ c = [call EXCEPT !.ibuf = SubSeq(ch, 1, by), !.pos = @ + by]
        /\ IF call.op = "decompress" /\ call.kind \notin Zlibs
           THEN IF by = 0 THEN call' = Fault(Give("EILSEQ")) ELSE call' = [c EXCEPT !.pc = "inflate"]
           ELSE call' = [c EXCEPT !.was = SubSeq(@, 1, call.pos + by), !.last = TRUE,
                           !.pc = IF call.op = "compress" THEN "deflate" ELSE "inflate"]
  BY <1>3 DEF ReadFails
<1>6. PICK e \in Nat : e = pos + by /\ pos <= e /\ e < l /\ SubSeq(ch, 1, by) = SubSeq(was, pos + 1, e)
  <2>1. by \in Nat /\ by < top - pos
    <3>1. PICK m \in Nat : m = top - pos
      BY <1>1, <1>3
    <3>2. by \in 0 .. m - 1
      BY <1>4, <1>5, <3>1
    <3>3. by \in Nat /\ by < m
      BY <3>1, <3>2
    <3>4. QED
      BY <3>1, <3>3
  <2>2. PICK e \in Nat : e = pos + by
    BY <1>1, <2>1
  <2>3. pos <= e /\ e < l
    BY <1>1, <1>3, <2>1, <2>2
  <2>4. by <= top - pos /\ top <= Len(was)
    <3>1. by <= top - pos
      BY <1>3, <2>1
    <3>2. top <= Len(was)
      BY <1>1, <1>3
    <3>3. QED
      BY <3>1, <3>2
  <2>5. SubSeq(SubSeq(was, pos + 1, top), 1, by) = SubSeq(was, pos + 1, pos + by)
    <3>1. PICK m \in Nat : m = by /\ m <= top - pos
      BY <2>1, <2>4
    <3>2. SubSeq(SubSeq(was, pos + 1, top), 1, m) = SubSeq(was, pos + 1, pos + m)
      BY <1>3, <2>4, <3>1, PartsHead
    <3>3. QED
      BY <3>1, <3>2
  <2>6. SubSeq(ch, 1, by) = SubSeq(was, pos + 1, e)
    BY <1>3, <2>2, <2>5
  <2>7. QED
    BY <2>2, <2>3, <2>6
<1>7. /\ DOMAIN c = CallFields /\ c.op = call.op /\ c.kind = call.kind /\ c.in = call.in /\ c.out = call.out
      /\ c.held = call.held /\ c.was = was /\ c.buffered = call.buffered /\ c.queue = call.queue /\ c.pend = call.pend
      /\ c.inside = call.inside /\ c.last = call.last /\ c.ibuf = SubSeq(was, pos + 1, e) /\ c.pos = e
  BY <1>1, <1>5, <1>6 DEF CallFields
<1>8. PICK n : n = call'
  OBVIOUS
<1>9. CASE n = Fault(Give("EILSEQ"))
  <2>1. Failing(n, call) /\ n.fault
    BY <1>9 DEF Failing, Fault, Give, CallFields
  <2>2. QED
    BY <1>8, <2>1 DEF ReadFails
<1>10. CASE call.op = "decompress" /\ n = [c EXCEPT !.pc = "inflate"]
  <2>1. ReadFailing(n, e, was)
    BY <1>1, <1>6, <1>7, <1>10 DEF ReadFailing, CallFields
  <2>2. QED
    BY <1>8, <2>1 DEF ReadFails
<1>11. CASE n = [c EXCEPT !.was = SubSeq(@, 1, call.pos + by), !.last = TRUE,
                    !.pc = IF call.op = "compress" THEN "deflate" ELSE "inflate"]
  <2>1. ReadFailing(n, e, was)
    BY <1>1, <1>6, <1>7, <1>11 DEF ReadFailing, CallFields
  <2>2. QED
    BY <1>8, <2>1 DEF ReadFails
<1>12. QED
  BY <1>5, <1>8, <1>9, <1>10, <1>11

\* A decoder that is given less of a stream is at the same cell of it.
LEMMA AtShorter ==
  ASSUME NEW was, Content(was), was # Absent, NEW e \in Nat, e < Len(was), NEW pos \in Nat, pos <= e,
         NEW given, NEW pend, NEW inside, AtCell(pos, was, pos, <<>>, given, pend, inside)
  PROVE  /\ AtCell(pos, was, e, SubSeq(was, pos + 1, e), given, pend, inside)
         /\ AtCell(pos, SubSeq(was, 1, e), e, SubSeq(was, pos + 1, e), given, pend, inside)
<1>1. was \in Seq(Cell) /\ pos \in 0 .. e
  BY TailsLast
<1>2. PICK p : p = SubSeq(was, 1, e) /\ p \in Seq(Cell) /\ Len(p) = e /\ (Streaming(was) => Streaming(p))
  BY CutContent
<1>3. /\ given \o pend = Bytes(SubSeq(was, 1, pos)) /\ (inside => Streaming(was)) /\ (~inside => pos = 0)
      /\ \A at \in 1 .. pos : was[at][1] # "tail"
  BY DEF AtCell
<1>4. AtCell(pos, was, e, SubSeq(was, pos + 1, e), given, pend, inside)
  BY <1>1, <1>3 DEF AtCell
<1>5. PICK z \in Nat : z = 0
  OBVIOUS
<1>6. SubSeq(p, 1, pos) = SubSeq(was, 1, pos)
  <2>1. SubSeq(SubSeq(was, z + 1, e), z + 1, pos) = SubSeq(was, z + z + 1, z + pos)
    <3>1. z <= e /\ e <= Len(was) /\ pos <= e - z
      BY <1>1, <1>5
    <3>2. QED
      BY <1>1, <3>1, SubPart
  <2>2. z + 1 = 1 /\ z + z + 1 = 1 /\ z + pos = pos
    BY <1>5
  <2>3. QED
    BY <1>2, <2>1, <2>2
<1>7. SubSeq(p, pos + 1, e) = SubSeq(was, pos + 1, e)
  <2>1. SubSeq(SubSeq(was, z + 1, e), pos + 1, e) = SubSeq(was, z + pos + 1, z + e)
    <3>1. z <= e /\ e <= Len(was) /\ e <= e - z
      BY <1>1, <1>5
    <3>2. QED
      BY <1>1, <3>1, SubPart
  <2>2. z + 1 = 1 /\ z + pos + 1 = pos + 1 /\ z + e = e
    BY <1>5
  <2>3. QED
    BY <1>2, <2>1, <2>2
<1>8. \A at \in 1 .. pos : p[at] = was[at]
  BY <1>1, <1>2
<1>9. AtCell(pos, p, e, SubSeq(was, pos + 1, e), given, pend, inside)
  BY <1>1, <1>2, <1>3, <1>6, <1>7, <1>8 DEF AtCell
<1>10. QED
  BY <1>2, <1>4, <1>9

\* The output, what waits and is queued and what is ahead are the stream of was.
Waiting(g, b, q, rest, k, was) ==
  g \o (b \o (q \o (Units(rest) \o <<Trailer(k)>>))) = Frame(k, was)

\* The first three are what is out.
LEMMA WaitingAhead ==
  ASSUME NEW k \in Supported, NEW was, NEW g \in Seq(Cell), NEW b \in Seq(Cell), NEW q \in Seq(Cell),
         NEW rest \in Seq(Byte)
  PROVE  /\ g \o (b \o q) \in Seq(Cell)
         /\ Waiting(g, b, q, rest, k, was) <=> WithRest(g \o (b \o q), rest, k, was)
<1>1. PICK a : a = Units(rest) \o <<Trailer(k)>>
  OBVIOUS
<1>2. a \in Seq(Cell)
  <2>1. Units(rest) \in Seq(Datum)
    BY UnitShape
  <2>2. Trailer(k) \in Cell /\ Datum \subseteq Cell
    BY DEF Cell, Marks, Datum
  <2>3. Units(rest) \in Seq(Cell) /\ <<Trailer(k)>> \in Seq(Cell)
    BY <2>1, <2>2
  <2>4. QED
    BY <1>1, <2>3, JoinedAs
<1>3. PICK w \in Seq(Cell) : w = b \o q
  BY JoinedAs
<1>4. w \o a = b \o (q \o a)
  BY <1>2, <1>3, CellsAssociated, Zenon
<1>5. (g \o w) \o a = g \o (w \o a)
  BY <1>2, CellsAssociated, Zenon
<1>6. g \o w \in Seq(Cell)
  BY JoinedAs
<1>7. QED
  BY <1>1, <1>3, <1>4, <1>5, <1>6 DEF Waiting, WithRest

\* When a read ends the input of the encoder early, what it still makes is the stream
\* of what was read.
LEMMA EncoderCut ==
  ASSUME EncodesWell(call, files), call.pc = "read", NEW n, NEW e, ReadFailing(n, e, call.was),
         call.op = "compress"
  PROVE  EncodesWell(n, files)
<1>1. PICK was, pos, l, k, x : was = call.was /\ pos = call.pos /\ l = Len(was) /\ k = call.kind /\ x = call.pend
  OBVIOUS
<1>2. PICK g, b, q : g = files[call.out] /\ b = call.buffered /\ q = call.queue
  OBVIOUS
<1>3. /\ k \in Supported /\ was \in Seq(Byte) /\ pos \in 0 .. l /\ x \in Seq(Byte)
      /\ g \in Seq(Cell) /\ b \in Seq(Cell) /\ q \in Seq(Cell) /\ call.ibuf = <<>> /\ ~call.inside
  BY <1>1, <1>2 DEF EncodesWell, Textual
<1>4. /\ e \in Nat /\ pos <= e /\ e < l /\ l \in Nat /\ pos \in Nat
      /\ n.kind = k /\ n.out = call.out /\ n.buffered = b /\ n.queue = q /\ n.pend = x
      /\ ~n.inside /\ n.ibuf = SubSeq(was, pos + 1, e) /\ n.pos = e
      /\ n.was = SubSeq(was, 1, e) /\ n.last /\ n.pc = "deflate"
  BY <1>1, <1>2, <1>3 DEF ReadFailing
<1>5. PICK y, w : y = SubSeq(was, pos + 1, l) /\ w = SubSeq(was, pos + 1, e)
  OBVIOUS
<1>6. y \in Seq(Byte) /\ w \in Seq(Byte)
  <2>1. pos <= l /\ l <= Len(was) /\ e <= Len(was)
    BY <1>1, <1>4
  <2>2. SubSeq(was, pos + 1, l) \in Seq(Byte)
    BY <1>3, <1>4, <2>1, Piece
  <2>3. SubSeq(was, pos + 1, e) \in Seq(Byte)
    BY <1>3, <1>4, <2>1, Piece
  <2>4. QED
    BY <1>5, <2>2, <2>3
<1>7. Waiting(g, b, q, x \o y, k, was)
  <2>1. StillAhead(call) = Units((x \o <<>>) \o y) \o <<Trailer(k)>>
    BY <1>1, <1>3, <1>5 DEF StillAhead
  <2>2. x \o <<>> = x
    BY <1>3, WholeList
  <2>3. g \o (b \o (q \o StillAhead(call))) = Frame(k, was)
    BY <1>1, <1>2 DEF EncodesWell
  <2>4. QED
    BY <2>1, <2>2, <2>3 DEF Waiting
<1>8. x \o y \in Seq(Byte) /\ x \o w \in Seq(Byte)
  BY <1>3, <1>6, JoinedAs
<1>9. PICK out \in Seq(Cell) : out = g \o (b \o q)
  BY <1>3, <1>8, WaitingAhead
<1>10. WithRest(out, x \o y, k, was)
  BY <1>3, <1>7, <1>8, <1>9, WaitingAhead
<1>11. Cutting(k, was, pos, e, x, out)
  <2>1. pos <= e /\ e <= Len(was) /\ pos < Len(was)
    BY <1>1, <1>4
  <2>2. WithRest(out, x \o SubSeq(was, pos + 1, Len(was)), k, was)
    BY <1>1, <1>5, <1>10
  <2>3. QED
    BY <1>3, <1>4, <2>1, <2>2 DEF Cutting
<1>12. WithRest(out, x \o w, k, SubSeq(was, 1, e))
  BY <1>5, <1>11, PrefixAhead
<1>13. Waiting(g, b, q, x \o w, k, SubSeq(was, 1, e))
  BY <1>3, <1>8, <1>9, <1>12, WaitingAhead
<1>14. PICK p : p = SubSeq(was, 1, e)
  OBVIOUS
<1>15. p \in Seq(Byte) /\ Len(p) = e
  <2>1. \A s \in Seq(Byte), j \in Nat : j <= Len(s) => SubSeq(s, 1, j) \in Seq(Byte) /\ Len(SubSeq(s, 1, j)) = j
    OBVIOUS
  <2>2. e <= Len(was)
    BY <1>1, <1>4
  <2>3. QED
    BY <1>3, <1>4, <1>14, <2>1, <2>2
<1>16. StillAhead(n) = Units(x \o w) \o <<Trailer(k)>>
  <2>1. SubSeq(p, e + 1, e) = <<>>
    <3>1. \A j \in Nat : SubSeq(p, j + 1, j) = <<>>
      BY <1>15
    <3>2. QED
      BY <1>4, <3>1
  <2>2. StillAhead(n) = Units((x \o w) \o SubSeq(p, e + 1, Len(p))) \o <<Trailer(k)>>
    BY <1>4, <1>5, <1>14 DEF StillAhead
  <2>3. (x \o w) \o <<>> = x \o w
    BY <1>8, WholeList
  <2>4. QED
    BY <1>15, <2>1, <2>2, <2>3
<1>17. files[n.out] \o (n.buffered \o (n.queue \o StillAhead(n))) = Frame(n.kind, n.was)
  BY <1>2, <1>4, <1>13, <1>14, <1>16 DEF Waiting
<1>18. n.pos \in 0 .. Len(n.was) /\ n.pos = Len(n.was)
  BY <1>4, <1>14, <1>15
<1>19. n.was \in Seq(Byte) /\ n.ibuf \in Seq(Byte) /\ n.pend \in Seq(Byte)
  BY <1>3, <1>4, <1>5, <1>6, <1>14, <1>15
<1>20. QED
  BY <1>2, <1>3, <1>4, <1>17, <1>18, <1>19 DEF EncodesWell, Textual

\* A read that fails gives a decoder less of the stream, at the same cell.
LEMMA DecoderCut ==
  ASSUME DecodesWell(call, files), OnFiles(call), call.pc = "read", NEW n, NEW e,
         ReadFailing(n, e, call.was), call.op = "decompress", Content(call.was), call.was # Absent
  PROVE  DecodesWell(n, files)
<1>1. PICK was, pos, l : was = call.was /\ pos = call.pos /\ l = Len(was)
  OBVIOUS
<1>2. was \in Seq(Cell) /\ l \in Nat /\ Content(was) /\ was # Absent
  BY <1>1, ContentShape
<1>3. /\ pos \in 0 .. l /\ call.ibuf = <<>> /\ (call.last => pos = l)
      /\ call.kind \in Supported /\ files[call.out] \in Seq(Byte) /\ call.buffered \in Seq(Byte)
      /\ Given(call, files) \in Seq(Byte) /\ call.pend \in Seq(Byte)
  BY <1>1 DEF DecodesWell, Came
<1>4. /\ e \in Nat /\ pos <= e /\ e < l /\ pos \in Nat
      /\ n.op = call.op /\ n.kind = call.kind /\ n.out = call.out /\ n.buffered = call.buffered
      /\ n.pend = call.pend /\ (n.inside <=> call.inside) /\ n.ibuf = SubSeq(was, pos + 1, e) /\ n.pos = e
      /\ n.pc = "inflate"
      /\ \/ n.was = was /\ (n.last <=> call.last)
         \/ n.was = SubSeq(was, 1, e)
  BY <1>1, <1>3 DEF ReadFailing
<1>5. OnFiles(n) /\ Given(n, files) = Given(call, files) /\ Came(n) = e /\ Came(call) = pos
  BY <1>1, <1>4 DEF OnFiles, Given, Came
<1>6. PICK m : AtCell(m, was, pos, <<>>, Given(call, files), call.pend, call.inside)
  BY <1>1, <1>3, <1>5 DEF DecodesWell
<1>7. m = pos
  <2>1. m \in 0 .. pos /\ <<>> = SubSeq(was, m + 1, pos)
    BY <1>6 DEF AtCell
  <2>2. PICK c : c = SubSeq(was, m + 1, pos)
    OBVIOUS
  <2>3. Len(c) = pos - m
    <3>1. m \in Nat /\ pos \in Nat /\ m <= pos /\ pos <= Len(was)
      BY <1>1, <1>2, <1>3, <2>1
    <3>2. QED
      BY <1>2, <2>2, <3>1, Piece
  <2>4. Len(c) = 0
    BY <2>1, <2>2
  <2>5. QED
    BY <1>2, <1>3, <2>1, <2>3, <2>4
<1>8. PICK given, pend, inside : given = Given(call, files) /\ pend = call.pend /\ inside = call.inside
  OBVIOUS
<1>9. /\ AtCell(pos, was, e, SubSeq(was, pos + 1, e), given, pend, inside)
      /\ AtCell(pos, SubSeq(was, 1, e), e, SubSeq(was, pos + 1, e), given, pend, inside)
  <2>1. AtCell(pos, was, pos, <<>>, given, pend, inside)
    BY <1>6, <1>7, <1>8
  <2>2. e < Len(was)
    BY <1>1, <1>4
  <2>3. QED
    BY <1>2, <1>4, <2>1, <2>2, AtShorter
<1>10. AtCell(pos, n.was, e, SubSeq(was, pos + 1, e), given, pend, inside)
  BY <1>4, <1>9
<1>11. AtCell(pos, n.was, e, n.ibuf, given, n.pend, n.inside)
  BY <1>4, <1>8, <1>10 DEF AtCell
<1>12. \E at : AtCell(at, n.was, Came(n), n.ibuf, Given(n, files), n.pend, n.inside)
  BY <1>5, <1>8, <1>11
<1>13. e \in 0 .. Len(n.was) /\ (n.last => e = Len(n.was))
  <2>1. CASE n.was = was /\ (n.last <=> call.last)
    <3>1. ~call.last
      BY <1>3, <1>4
    <3>2. e \in 0 .. l
      BY <1>2, <1>4
    <3>3. QED
      BY <1>1, <2>1, <3>1, <3>2
  <2>2. CASE n.was = SubSeq(was, 1, e)
    <3>1. Len(SubSeq(was, 1, e)) = e
      <4>1. e < Len(was)
        BY <1>1, <1>4
      <4>2. QED
        BY <1>2, <1>4, <4>1, CutContent
    <3>2. e \in 0 .. e
      BY <1>4
    <3>3. QED
      BY <2>2, <3>1, <3>2
  <2>3. QED
    BY <1>4, <2>1, <2>2
<1>14. Came(n) \in 0 .. Len(n.was) /\ (n.last => Came(n) = Len(n.was))
  BY <1>5, <1>13
<1>15. QED
  BY <1>3, <1>4, <1>5, <1>12, <1>14 DEF DecodesWell

\* A read that fails ends the call, or ends what is read of the input.
LEMMA ReadFailsLive ==
  ASSUME LiveFiles(files), LiveCall(call, files), ReadFails
  PROVE  LiveFiles(files') /\ LiveCall(call', files')
<1>1. call.pc = "read"
  BY DEF ReadFails
<1>2. /\ DOMAIN call = CallFields /\ Content(call.was) /\ call.was # Absent /\ HeldWell(call)
      /\ InPlace(call, files) /\ Encoding(call, files) /\ Decoding(call, files)
  BY DEF LiveCall
<1>3. OnFiles(call) /\ call.op \in {"compress", "decompress"} /\ call.in # call.out
      /\ files[call.in] = call.held /\ {call.in, call.out} \subseteq Paths
  BY <1>1, <1>2 DEF InPlace, OnFiles
<1>4. (call.op = "compress" => EncodesWell(call, files)) /\ (call.op = "decompress" => DecodesWell(call, files))
  BY <1>1, <1>2 DEF Encoding, Decoding
<1>5. PICK was : was = call.was /\ was \in Seq(Cell)
  BY <1>2, ContentShape
<1>6. call.pos \in 0 .. Len(was)
  <2>1. call.op = "compress" => call.pos \in 0 .. Len(was)
    BY <1>4, <1>5 DEF EncodesWell
  <2>2. call.op = "decompress" => call.pos \in 0 .. Len(was)
    BY <1>3, <1>4, <1>5 DEF DecodesWell, Came
  <2>3. QED
    BY <1>3, <2>1, <2>2
<1>7. /\ files' = files
      /\ \/ Failing(call', call) /\ call'.fault
         \/ \E n, e : call' = n /\ ReadFailing(n, e, was)
  BY <1>2, <1>5, <1>6, ReadFailsDoes
<1>8. CASE Failing(call', call) /\ call'.fault
  <2>1. PICK n : n = call' /\ Failing(n, call) /\ n.fault
    BY <1>8
  <2>2. Excused(n)
    BY <2>1 DEF Excused
  <2>3. LiveCall(n, files)
    BY <1>1, <2>1, <2>2, FailingLive
  <2>4. QED
    BY <1>7, <2>1, <2>3
<1>9. CASE \E n, e : call' = n /\ ReadFailing(n, e, was)
  <2>1. PICK n, e : call' = n /\ ReadFailing(n, e, was)
    BY <1>9
  <2>2. /\ e \in Nat /\ e < Len(was) /\ DOMAIN n = CallFields /\ n.op = call.op /\ n.in = call.in
        /\ n.out = call.out /\ n.held = call.held
        /\ n.pc = IF call.op = "compress" THEN "deflate" ELSE "inflate"
        /\ (n.was = was \/ n.was = SubSeq(was, 1, e))
    BY <1>3, <2>1 DEF ReadFailing
  <2>3. Content(n.was) /\ n.was # Absent /\ (n.was = was \/ NoTail(n.was))
    <3>1. CASE n.was = was
      BY <1>2, <1>5, <3>1
    <3>2. CASE n.was = SubSeq(was, 1, e)
      <4>1. Content(was) /\ was # Absent
        BY <1>2, <1>5
      <4>2. Content(SubSeq(was, 1, e)) /\ SubSeq(was, 1, e) # Absent /\ NoTail(SubSeq(was, 1, e))
        BY <2>2, <4>1, CutContent
      <4>3. QED
        BY <3>2, <4>2
    <3>3. QED
      BY <2>2, <3>1, <3>2
  <2>4. HeldWell(n)
    BY <1>2, <1>3, <1>5, <2>2, <2>3 DEF HeldWell, OnFiles
  <2>5. InPlace(n, files)
    BY <1>3, <2>2 DEF InPlace, OnFiles
  <2>6. CASE call.op = "compress"
    <3>1. ReadFailing(n, e, call.was)
      BY <1>5, <2>1
    <3>2. EncodesWell(n, files)
      BY <1>1, <1>4, <2>6, <3>1, EncoderCut
    <3>3. Encoding(n, files) /\ Decoding(n, files) /\ Answered(n, files)
      BY <2>2, <2>6, <3>2 DEF Encoding, Decoding, Answered
    <3>4. LiveCall(n, files)
      BY <2>2, <2>3, <2>4, <2>5, <2>6, <3>3 DEF LiveCall
    <3>5. QED
      BY <1>7, <2>1, <3>4
  <2>7. CASE call.op = "decompress"
    <3>1. ReadFailing(n, e, call.was)
      BY <1>5, <2>1
    <3>2. DecodesWell(n, files)
      BY <1>1, <1>2, <1>3, <1>4, <2>7, <3>1, DecoderCut
    <3>3. Encoding(n, files) /\ Decoding(n, files) /\ Answered(n, files)
      BY <2>2, <2>7, <3>2 DEF Encoding, Decoding, Answered
    <3>4. LiveCall(n, files)
      BY <2>2, <2>3, <2>4, <2>5, <2>7, <3>3 DEF LiveCall
    <3>5. QED
      BY <1>7, <2>1, <3>4
  <2>8. QED
    BY <1>3, <2>6, <2>7
<1>10. QED
  BY <1>7, <1>8, <1>9

\* What is closed is complete: the stream that was made, or the text that was given.
LEMMA ClosedExact ==
  ASSUME LiveFiles(files), LiveCall(call, files), call.pc = "close"
  PROVE  /\ DOMAIN call = CallFields /\ DOMAIN files = Paths /\ OnFiles(call)
         /\ call.in # call.out /\ files[call.in] = call.held /\ call.in \in Paths /\ call.out \in Paths
         /\ Content(call.was) /\ call.was # Absent
         /\ Exact(call, files[call.out] \o call.buffered) /\ Content(files[call.out] \o call.buffered)
<1>1. InPlace(call, files) /\ Encoding(call, files) /\ Decoding(call, files) /\ DOMAIN call = CallFields /\ DOMAIN files = Paths
      /\ Content(call.was) /\ call.was # Absent
  BY DEF LiveCall, LiveFiles
<1>2. OnFiles(call) /\ call.in # call.out /\ files[call.in] = call.held /\ call.in \in Paths /\ call.out \in Paths
  BY <1>1 DEF InPlace
<1>3. call.op \in {"compress", "decompress"}
  BY <1>2 DEF OnFiles
<1>4. CASE call.op = "compress"
  <2>1. EncodesWell(call, files)
    BY <1>1, <1>4 DEF Encoding
  <2>2. PICK fo, u : fo = files[call.out] /\ u = call.buffered
    OBVIOUS
  <2>3. /\ call.kind \in Supported /\ call.was \in Seq(Byte) /\ fo \in Seq(Cell) /\ u \in Seq(Cell)
        /\ call.inside /\ call.queue = <<>>
        /\ fo \o (u \o (call.queue \o StillAhead(call))) = Frame(call.kind, call.was)
    BY <2>1, <2>2 DEF EncodesWell, Textual
  <2>4. StillAhead(call) = <<>>
    BY <2>3 DEF StillAhead
  <2>5. u \o (<<>> \o <<>>) = u
    BY <2>3, WholeList
  <2>6. fo \o u = Frame(call.kind, call.was)
    BY <2>3, <2>4, <2>5
  <2>7. fo \o u \in Seq(Cell) /\ <<>> \in Seq(Cell)
    BY <2>3
  <2>8. (fo \o u) \o <<>> = fo \o u
    BY <2>7, WholeList
  <2>9. Content(fo \o u)
    <3>1. PICK x : x = fo \o u
      OBVIOUS
    <3>2. x \in Seq(Cell) /\ x \o <<>> = Frame(call.kind, call.was) /\ <<>> \in Seq(Cell)
      BY <2>6, <2>7, <2>8, <3>1
    <3>3. Content(x)
      BY <2>3, <3>2, BeginningLives
    <3>4. QED
      BY <3>1, <3>3
  <2>10. Exact(call, fo \o u)
    BY <1>4, <2>6 DEF Exact
  <2>11. QED
    BY <1>1, <1>2, <2>2, <2>9, <2>10
<1>5. CASE call.op = "decompress"
  <2>1. DecodesWell(call, files)
    BY <1>1, <1>5 DEF Decoding
  <2>2. Given(call, files) = files[call.out] \o call.buffered
    BY <1>2 DEF Given
  <2>3. Given(call, files) \in Seq(Byte) /\ Exact(call, Given(call, files))
    BY <2>1 DEF DecodesWell
  <2>4. Content(Given(call, files))
    BY <2>3 DEF Content, Textual
  <2>5. QED
    BY <1>1, <1>2, <2>2, <2>3, <2>4
<1>6. QED
  BY <1>3, <1>4, <1>5

\* Closing the output completes it, or the call fails.
LEMMA CloseOutLive ==
  ASSUME LiveFiles(files), LiveCall(call, files), CloseOut
  PROVE  LiveFiles(files') /\ LiveCall(call', files')
<1>1. PICK n, g, o : n = call' /\ g = files' /\ o = files[call.out] \o call.buffered
  OBVIOUS
<1>2. call.pc = "close"
  BY DEF CloseOut
<1>3. /\ DOMAIN call = CallFields /\ DOMAIN files = Paths /\ OnFiles(call)
      /\ call.in # call.out /\ files[call.in] = call.held /\ call.in \in Paths /\ call.out \in Paths
      /\ Content(call.was) /\ call.was # Absent
      /\ Exact(call, o) /\ Content(o)
  BY <1>1, <1>2, ClosedExact
<1>4. CASE /\ g = [files EXCEPT ![call.out] = @ \o call.buffered]
           /\ n = [call EXCEPT !.buffered = <<>>, !.pc = "remove_in", !.ret = "OK"]
  <2>1. /\ DOMAIN n = CallFields /\ n.op = call.op /\ n.kind = call.kind /\ n.in = call.in /\ n.out = call.out
        /\ n.was = call.was /\ n.held = call.held /\ n.pc = "remove_in" /\ n.ret = "OK"
    BY <1>3, <1>4 DEF CallFields
  <2>2. DOMAIN g = Paths /\ g[call.out] = o /\ \A p \in Paths : p # call.out => g[p] = files[p]
    BY <1>1, <1>3, <1>4
  <2>3. LiveFiles(g)
    BY <1>3, <2>2 DEF LiveFiles
  <2>4. Exact(n, g[n.out])
    BY <1>3, <2>1, <2>2 DEF Exact
  <2>5. OnFiles(n)
    BY <1>3, <2>1 DEF OnFiles
  <2>6. InPlace(n, g)
    BY <1>3, <2>1, <2>2, <2>5 DEF InPlace
  <2>7. Encoding(n, g) /\ Decoding(n, g) /\ Answered(n, g)
    BY <2>1, <2>4 DEF Encoding, Decoding, Answered
  <2>held. HeldWell(n)
    BY <1>3, <2>1, <2>5 DEF LiveCall, HeldWell
  <2>8. QED
    BY <1>1, <1>3, <2>1, <2>3, <2>5, <2>6, <2>7, <2>held DEF LiveCall, OnFiles
<1>5. CASE n = Fault(Give("EIO")) /\ g = files
  <2>1. Failing(n, call) /\ n.fault
    BY <1>3, <1>5 DEF Failing, Fault, Give, CallFields
  <2>2. Excused(n)
    BY <2>1 DEF Excused
  <2>3. LiveCall(n, g)
    BY <1>2, <1>5, <2>1, <2>2, FailingLive
  <2>4. QED
    BY <1>1, <1>5, <2>3
<1>6. QED
  BY <1>1, <1>4, <1>5 DEF CloseOut

\* A call that fails removes its output.
LEMMA RemoveOutLive ==
  ASSUME LiveFiles(files), LiveCall(call, files), RemoveOut
  PROVE  LiveFiles(files') /\ LiveCall(call', files')
<1>1. PICK n, g : n = call' /\ g = files'
  OBVIOUS
<1>2. call.pc = "remove_out" /\ g = [files EXCEPT ![call.out] = Absent] /\ n = [call EXCEPT !.pc = "returned"]
  BY <1>1 DEF RemoveOut, Goto
<1>3. /\ DOMAIN call = CallFields /\ DOMAIN files = Paths /\ Content(call.was) /\ call.was # Absent
      /\ call.op \in {"compress", "decompress", "compress_buffer", "decompress_buffer"}
      /\ OnFiles(call) /\ call.in # call.out /\ files[call.in] = call.held /\ call.in \in Paths /\ call.out \in Paths
      /\ call.ret # "OK" /\ Excused(call)
  BY <1>2 DEF LiveCall, LiveFiles, InPlace, Answered
<1>4. /\ DOMAIN n = CallFields /\ n.op = call.op /\ n.kind = call.kind /\ n.in = call.in /\ n.out = call.out
      /\ n.was = call.was /\ n.held = call.held /\ n.pc = "returned" /\ n.ret = call.ret /\ n.fault = call.fault
  BY <1>2, <1>3 DEF CallFields
<1>5. DOMAIN g = Paths /\ g[call.out] = Absent /\ \A p \in Paths : p # call.out => g[p] = files[p]
  BY <1>2, <1>3
<1>6. LiveFiles(g)
  BY <1>5 DEF LiveFiles, Content
<1>7. Excused(n)
  BY <1>3, <1>4 DEF Excused
<1>8. InPlace(n, g) /\ Encoding(n, g) /\ Decoding(n, g)
  BY <1>4 DEF InPlace, Encoding, Decoding
<1>9. Answered(n, g)
  BY <1>3, <1>4, <1>5, <1>7 DEF Answered
<1>held. HeldWell(n)
  BY <1>3, <1>4 DEF LiveCall, HeldWell, OnFiles
<1>10. QED
  BY <1>1, <1>3, <1>4, <1>6, <1>8, <1>9, <1>held DEF LiveCall

\* A call that succeeds removes its input, unless it is to be kept.
LEMMA RemoveInLive ==
  ASSUME LiveFiles(files), LiveCall(call, files), RemoveIn
  PROVE  LiveFiles(files') /\ LiveCall(call', files')
<1>1. PICK n, g : n = call' /\ g = files'
  OBVIOUS
<1>2. /\ call.pc = "remove_in" /\ n = [call EXCEPT !.pc = "returned"]
      /\ g = IF call.keep THEN files ELSE [files EXCEPT ![call.in] = Absent]
  BY <1>1 DEF RemoveIn, Goto
<1>3. /\ DOMAIN call = CallFields /\ DOMAIN files = Paths /\ Content(call.was) /\ call.was # Absent
      /\ call.op \in {"compress", "decompress", "compress_buffer", "decompress_buffer"}
      /\ OnFiles(call) /\ call.in # call.out /\ call.in \in Paths /\ call.out \in Paths
      /\ call.ret = "OK" /\ Exact(call, files[call.out])
  BY <1>2 DEF LiveCall, LiveFiles, InPlace, Answered
<1>4. /\ DOMAIN n = CallFields /\ n.op = call.op /\ n.kind = call.kind /\ n.in = call.in /\ n.out = call.out
      /\ n.was = call.was /\ n.held = call.held /\ n.pc = "returned" /\ n.ret = "OK"
  BY <1>2, <1>3 DEF CallFields
<1>5. DOMAIN g = Paths /\ g[call.out] = files[call.out] /\ \A p \in Paths : g[p] = files[p] \/ g[p] = Absent
  BY <1>2, <1>3
<1>6. LiveFiles(g)
  BY <1>5 DEF LiveFiles, Content
<1>7. Exact(n, g[n.out]) /\ OnFiles(n)
  BY <1>3, <1>4, <1>5 DEF Exact, OnFiles
<1>8. InPlace(n, g) /\ Encoding(n, g) /\ Decoding(n, g) /\ Answered(n, g)
  BY <1>4, <1>7 DEF InPlace, Encoding, Decoding, Answered
<1>held. HeldWell(n)
  BY <1>3, <1>4 DEF LiveCall, HeldWell, OnFiles
<1>9. QED
  BY <1>1, <1>3, <1>4, <1>6, <1>8, <1>held DEF LiveCall

\* Buffers are compressed at once.
LEMMA CompressBufferLive ==
  ASSUME LiveFiles(files), NEW algo, NEW p \in Paths, CompressBuffer(algo, files[p])
  PROVE  LiveFiles(files') /\ LiveCall(call', files')
<1>1. PICK n, k, was : n = call' /\ k = (IF algo = "auto" THEN "zstd" ELSE algo) /\ was = files[p]
  OBVIOUS
<1>2. PICK c : c = [Start("compress_buffer", k, "none") EXCEPT !.pc = "returned", !.was = was]
  OBVIOUS
<1>3. /\ Texty(was) /\ files' = files
      /\ \/ n = IF k \in Supported THEN [c EXCEPT !.ret = "OK", !.given = Frame(k, was)] ELSE [c EXCEPT !.ret = "ENOTSUP"]
         \/ n = Fault([c EXCEPT !.ret = "ENOMEM"])
  BY <1>1, <1>2 DEF CompressBuffer
<1>4. DOMAIN c = CallFields /\ c.pc = "returned" /\ c.op = "compress_buffer" /\ c.kind = k /\ c.was = was
  BY <1>2 DEF Start, CallFields
<1>5. Content(was) /\ was # Absent
  BY <1>1, <1>3 DEF LiveFiles, Texty
<1>6. CASE k \in Supported /\ n = [c EXCEPT !.ret = "OK", !.given = Frame(k, was)]
  <2>1. DOMAIN n = CallFields /\ n.pc = "returned" /\ n.op = "compress_buffer" /\ n.kind = k /\ n.was = was
        /\ n.ret = "OK" /\ n.given = Frame(k, was)
    BY <1>4, <1>6 DEF CallFields
  <2>2. Exact(n, n.given)
    BY <2>1 DEF Exact
  <2>3. LiveCall(n, files)
    BY <1>5, <2>1, <2>2, BufferReturned
  <2>4. QED
    BY <1>1, <1>3, <2>3
<1>7. CASE k \notin Supported /\ n = [c EXCEPT !.ret = "ENOTSUP"]
  <2>1. DOMAIN n = CallFields /\ n.pc = "returned" /\ n.op = "compress_buffer" /\ n.kind = k /\ n.was = was /\ n.ret = "ENOTSUP"
    BY <1>4, <1>7 DEF CallFields
  <2>2. Excused(n)
    BY <1>7, <2>1 DEF Excused
  <2>3. LiveCall(n, files)
    BY <1>5, <2>1, <2>2, BufferReturned
  <2>4. QED
    BY <1>1, <1>3, <2>3
<1>8. CASE n = Fault([c EXCEPT !.ret = "ENOMEM"])
  <2>1. DOMAIN n = CallFields /\ n.pc = "returned" /\ n.op = "compress_buffer" /\ n.was = was /\ n.ret = "ENOMEM" /\ n.fault
    BY <1>4, <1>8 DEF Fault, CallFields
  <2>2. Excused(n)
    BY <2>1 DEF Excused
  <2>3. LiveCall(n, files)
    BY <1>5, <2>1, <2>2, BufferReturned
  <2>4. QED
    BY <1>1, <1>3, <2>3
<1>9. QED
  BY <1>3, <1>6, <1>7, <1>8

\* A buffer that is to be decompressed is all there.
LEMMA DecompressBufferLive ==
  ASSUME LiveFiles(files), NEW algo, NEW p \in Paths, DecompressBuffer(algo, files[p])
  PROVE  LiveFiles(files') /\ LiveCall(call', files')
<1>1. PICK n, k, was, size : n = call' /\ k = (IF algo = "auto" THEN Detect(files[p]) ELSE algo) /\ was = files[p]
                             /\ size = Len(Bytes(was))
  OBVIOUS
<1>2. PICK c : c = [Start("decompress_buffer", k, "none") EXCEPT !.was = was, !.ibuf = was, !.cap = FirstCap, !.last = TRUE]
  OBVIOUS
<1>3. /\ was # Absent /\ files' = files
      /\ \/ k \in Supported /\ n = [c EXCEPT !.pc = "grow"]
         \/ k \in Supported /\ size > 0 /\ n = [c EXCEPT !.pc = "grow", !.cap = size]
         \/ k \notin Supported /\ n = [c EXCEPT !.pc = "returned", !.ret = IF k = "xz" THEN "ENOTSUP" ELSE "EILSEQ"]
         \/ n = Fault([c EXCEPT !.pc = "returned", !.ret = "ENOMEM"])
  BY <1>1, <1>2 DEF DecompressBuffer
<1>4. /\ DOMAIN c = CallFields /\ c.op = "decompress_buffer" /\ c.kind = k /\ c.was = was /\ c.ibuf = was /\ c.pend = <<>>
      /\ c.last /\ ~c.inside /\ c.given = <<>> /\ c.cap = FirstCap
  BY <1>2 DEF Start, CallFields
<1>5. Content(was)
  BY <1>1 DEF LiveFiles
<1>6. was \in Seq(Cell)
  BY <1>3, <1>5, ContentShape
<1>7. size \in Nat /\ FirstCap \in Nat
  <2>1. Bytes(was) \in Seq(Byte)
    BY <1>6, BytesJoined
  <2>2. QED
    BY <1>1, <2>1, CompressAssumption
<1>8. ASSUME k \in Supported, NEW cap \in Nat, DOMAIN n = CallFields, n.op = "decompress_buffer",
             n.kind = k,
             n.was = was, n.ibuf = was, n.pend = <<>>, n.last, ~n.inside, n.given = <<>>, n.cap = cap, n.pc = "grow"
      PROVE  LiveCall(n, files)
  <2>1. ~OnFiles(n)
    BY <1>8 DEF OnFiles
  <2>2. Came(n) = Len(was) /\ Given(n, files) = <<>> /\ Len(was) \in Nat
    BY <1>6, <1>8, <2>1 DEF Came, Given
  <2>3. AtCell(0, was, Len(was), was, <<>>, <<>>, n.inside)
    <3>1. SubSeq(was, 0 + 1, Len(was)) = was /\ SubSeq(was, 1, 0) = <<>> /\ <<>> \o <<>> = <<>>
      <4>1. SubSeq(was, 1, Len(was)) = was /\ 0 + 1 = 1
        BY <1>6, WholeList
      <4>2. SubSeq(was, 1, 0) = <<>> /\ <<>> \o <<>> = <<>>
        BY <1>6
      <4>3. QED
        BY <4>1, <4>2
    <3>2. Bytes(SubSeq(was, 1, 0)) = <<>>
      BY <1>6, <3>1, BytesGrow
    <3>3. 0 \in 0 .. Len(was) /\ \A at \in 1 .. 0 : FALSE
      BY <2>2
    <3>4. ~n.inside
      BY <1>8
    <3>5. QED
      BY <3>1, <3>2, <3>3, <3>4, Zenon DEF AtCell
  <2>4. \E m : AtCell(m, n.was, Came(n), n.ibuf, Given(n, files), n.pend, n.inside)
    BY <1>8, <2>2, <2>3
  <2>5. Came(n) \in 0 .. Len(n.was) /\ Came(n) = Len(n.was) /\ <<>> \in Seq(Byte) /\ Len(<<>>) <= cap
    BY <1>8, <2>2
  <2>6. DecodesWell(n, files)
    BY <1>8, <2>1, <2>2, <2>4, <2>5 DEF DecodesWell
  <2>7. InPlace(n, files) /\ Encoding(n, files) /\ Decoding(n, files) /\ Answered(n, files)
    BY <1>8, <2>6 DEF InPlace, Encoding, Decoding, Answered
  <2>held. HeldWell(n)
    BY <2>1 DEF HeldWell
  <2>8. QED
    BY <1>3, <1>5, <1>8, <2>7, <2>held DEF LiveCall
<1>9. CASE k \in Supported /\ n = [c EXCEPT !.pc = "grow"]
  <2>1. /\ DOMAIN n = CallFields /\ n.op = "decompress_buffer" /\ n.kind = k /\ n.was = was /\ n.ibuf = was /\ n.pend = <<>>
        /\ n.last /\ ~n.inside /\ n.given = <<>> /\ n.cap = FirstCap /\ n.pc = "grow"
    BY <1>4, <1>9 DEF CallFields
  <2>2. LiveCall(n, files)
    BY <1>7, <1>8, <1>9, <2>1
  <2>3. QED
    BY <1>1, <1>3, <2>2
<1>10. CASE k \in Supported /\ size > 0 /\ n = [c EXCEPT !.pc = "grow", !.cap = size]
  <2>1. /\ DOMAIN n = CallFields /\ n.op = "decompress_buffer" /\ n.kind = k /\ n.was = was /\ n.ibuf = was /\ n.pend = <<>>
        /\ n.last /\ ~n.inside /\ n.given = <<>> /\ n.cap = size /\ n.pc = "grow"
    BY <1>4, <1>10 DEF CallFields
  <2>2. LiveCall(n, files)
    BY <1>7, <1>8, <1>10, <2>1
  <2>3. QED
    BY <1>1, <1>3, <2>2
<1>11. CASE k \notin Supported /\ n = [c EXCEPT !.pc = "returned", !.ret = IF k = "xz" THEN "ENOTSUP" ELSE "EILSEQ"]
  <2>1. DOMAIN n = CallFields /\ n.pc = "returned" /\ n.op = "decompress_buffer" /\ n.kind = k /\ n.was = was /\ n.ret # "OK"
    BY <1>4, <1>11 DEF CallFields
  <2>2. Excused(n)
    BY <1>11, <2>1 DEF Excused
  <2>3. LiveCall(n, files)
    BY <1>3, <1>5, <2>1, <2>2, BufferReturned
  <2>4. QED
    BY <1>1, <1>3, <2>3
<1>12. CASE n = Fault([c EXCEPT !.pc = "returned", !.ret = "ENOMEM"])
  <2>1. DOMAIN n = CallFields /\ n.pc = "returned" /\ n.op = "decompress_buffer" /\ n.was = was /\ n.ret = "ENOMEM" /\ n.fault
    BY <1>4, <1>12 DEF Fault, CallFields
  <2>2. Excused(n)
    BY <2>1 DEF Excused
  <2>3. LiveCall(n, files)
    BY <1>3, <1>5, <2>1, <2>2, BufferReturned
  <2>4. QED
    BY <1>1, <1>3, <2>3
<1>13. QED
  BY <1>3, <1>9, <1>10, <1>11, <1>12

\* What the system starts from.
LEMMA InitLive ==
  CompressInit => LiveInv
<1> SUFFICES ASSUME CompressInit PROVE LiveInv
  OBVIOUS
<1>1. files \in [Paths -> Texts \cup Streams \cup {Absent}] /\ call = Idle
  BY DEF CompressInit
<1>2. ASSUME NEW c \in Streams PROVE Content(c)
  <2>1. PICK k \in Supported, t \in Texts :
          \/ \E n \in 0 .. Len(Frame(k, t)) : c = SubSeq(Frame(k, t), 1, n)
          \/ c = [Frame(k, t) EXCEPT ![Len(Frame(k, t))] = Trailer("bad")]
    BY <1>2 DEF Streams
  <2>2. t \in Seq(Byte)
    BY TextsTextual
  <2>3. QED
    BY <2>1, <2>2 DEF Content, Streaming
<1>3. ASSUME NEW c \in Texts PROVE Content(c)
  BY TextsTextual DEF Content, Textual
<1>4. Content(Absent)
  BY DEF Content
<1>5. LiveFiles(files)
  BY <1>1, <1>2, <1>3, <1>4 DEF LiveFiles
<1>6. QED
  BY <1>1, <1>5 DEF LiveInv

\* Each operation leaves the call and the files as the invariant has them.
LEMMA StepLive ==
  LiveInv /\ [CompressNext]_compressVars => LiveInv'
<1> SUFFICES ASSUME LiveInv, [CompressNext]_compressVars PROVE LiveInv'
  OBVIOUS
<1>1. LiveFiles(files) /\ (call = Idle \/ LiveCall(call, files))
  BY DEF LiveInv
<1>2. call.pc # "idle" => LiveCall(call, files)
  BY <1>1 DEF Idle
<1>3. ASSUME LiveFiles(files') /\ LiveCall(call', files') PROVE LiveInv'
  BY <1>3 DEF LiveInv
<1>4. ASSUME call' = Idle, files' = files PROVE LiveInv'
  BY <1>1, <1>4 DEF LiveInv
<1>5. ASSUME NEW op \in {"compress", "decompress"}, NEW algo, NEW p \in Paths, NEW q \in Paths,
             NEW keep,
             OpenFiles(op, algo, p, q, keep)
      PROVE  LiveInv'
  BY <1>1, <1>3, <1>5, OpenLive
<1>6. ASSUME NEW algo, NEW p \in Paths, CompressBuffer(algo, files[p]) PROVE LiveInv'
  BY <1>1, <1>3, <1>6, CompressBufferLive
<1>7. ASSUME NEW algo, NEW p \in Paths, DecompressBuffer(algo, files[p]) PROVE LiveInv'
  BY <1>1, <1>3, <1>7, DecompressBufferLive
<1>8. CASE ReadChunk
  BY <1>1, <1>2, <1>3, <1>8, ReadLive DEF ReadChunk
<1>fails. CASE ReadFails
  <2>1. call.pc = "read"
    BY <1>fails DEF ReadFails
  <2>2. QED
    BY <1>1, <1>2, <1>3, <1>fails, <2>1, ReadFailsLive
<1>9. CASE Deflate
  <2>1. call.pc = "deflate"
    BY <1>9 DEF Deflate
  <2>2. QED
    BY <1>1, <1>2, <1>3, <1>9, <2>1, DeflateLive
<1>10. CASE Inflate
  <2>1. call.pc = "inflate"
    BY <1>10 DEF Inflate
  <2>2. QED
    BY <1>1, <1>2, <1>3, <1>10, <2>1, InflateLive
<1>11. CASE CloseOut
  <2>1. call.pc = "close"
    BY <1>11 DEF CloseOut
  <2>2. QED
    BY <1>1, <1>2, <1>3, <1>11, <2>1, CloseOutLive
<1>12. CASE RemoveOut
  <2>1. call.pc = "remove_out"
    BY <1>12 DEF RemoveOut
  <2>2. QED
    BY <1>1, <1>2, <1>3, <1>12, <2>1, RemoveOutLive
<1>13. CASE RemoveIn
  <2>1. call.pc = "remove_in"
    BY <1>13 DEF RemoveIn
  <2>2. QED
    BY <1>1, <1>2, <1>3, <1>13, <2>1, RemoveInLive
<1>14. CASE Grow
  <2>1. call.pc = "grow"
    BY <1>14 DEF Grow
  <2>2. QED
    BY <1>1, <1>2, <1>3, <1>14, <2>1, GrowLive
<1>15. CASE Done
  BY <1>4, <1>15 DEF Done
<1>16. CASE Crash
  BY <1>4, <1>16 DEF Crash
<1>17. CASE UNCHANGED compressVars
  <2>1. call' = call /\ files' = files
    BY <1>17 DEF compressVars
  <2>2. CASE call = Idle
    BY <1>4, <2>1, <2>2
  <2>3. CASE LiveCall(call, files)
    BY <1>1, <1>3, <2>1, <2>3
  <2>4. QED
    BY <1>1, <2>2, <2>3
<1>18. QED
  BY <1>5, <1>6, <1>7, <1>8, <1>fails, <1>9, <1>10, <1>11, <1>12, <1>13, <1>14, <1>15, <1>16, <1>17
        DEF CompressNext, CompressStep

\* What a file holds has a length.
LEMMA HeldLong ==
  ASSUME NEW c, Content(c)
  PROVE  Len(c) \in Nat
<1>1. CASE c = Absent
  BY <1>1 DEF Absent
<1>2. CASE c # Absent
  <2>1. c \in Seq(Cell)
    BY <1>2, ContentShape
  <2>2. QED
    BY <2>1
<1>3. QED
  BY <1>1, <1>2

\* A whole stream ends in its tail, whatever it is made of.
LEMMA FrameEnds ==
  ASSUME NEW k \in Supported, NEW out, Len(out) \in Nat
  PROVE  Len(Frame(k, out)) \in Nat \ {0} /\ Frame(k, out)[Len(Frame(k, out))][1] = "tail"
<1>1. PICK r, l, m : r \in Nat \ {0} /\ l \in Nat /\ r = Ratio /\ l = Len(out) /\ m = (l + r - 1) \div r
  BY CompressAssumption
<1>2. m \in Nat
  <2>1. l + r - 1 \in Nat
    BY <1>1
  <2>2. QED
    BY <1>1, <2>1, Quotient
<1>3. PICK C, us, t, h : /\ us = Units(out) /\ t = Trailer(k) /\ h = Header(k)
                         /\ us \in Seq(C) /\ t \in C /\ h \in C
  <2>1. PICK us : us = Units(out)
    OBVIOUS
  <2>2. PICK D : D = {us[n] : n \in 1 .. m} \cup {Trailer(k), Header(k)}
    OBVIOUS
  <2>3. us = [n \in 1 .. m |-> us[n]]
    BY <1>1, <2>1 DEF Units
  <2>4. us \in Seq(D)
    BY <1>2, <2>2, <2>3
  <2>5. QED
    BY <2>1, <2>2, <2>4
<1>4. PICK f : f = (<<h>> \o us) \o <<t>> /\ f = Frame(k, out)
  BY <1>3 DEF Frame
<1>5. Len(f) = Len(us) + 2 /\ f[Len(us) + 2] = t /\ Len(us) \in Nat
  <2>1. PICK fr : fr = <<h>> \o us \o <<t>>
    OBVIOUS
  <2>2. us \in Seq(C) /\ h \in C /\ t \in C
    BY <1>3
  <2>3. EndsIn(us, t, fr)
    BY <2>1, <2>2, EndsWith
  <2>4. f = fr
    BY <1>4, <2>1
  <2>5. Len(us) \in Nat
    BY <2>2
  <2>6. QED
    BY <2>3, <2>4, <2>5 DEF EndsIn
<1>6. t[1] = "tail"
  BY <1>3 DEF Trailer
<1>7. QED
  BY <1>4, <1>5, <1>6

\* Then no input is lost, and no answer is wrong.
LEMMA LiveExact ==
  LiveInv => ResultExact
<1> SUFFICES ASSUME LiveInv PROVE ResultExact
  OBVIOUS
<1>1. LiveFiles(files) /\ (call.pc # "idle" => LiveCall(call, files)) /\ (call = Idle => call.pc = "idle")
  BY DEF LiveInv, Idle
<1>2. CompressTypeOK
  <2>1. ASSUME NEW p \in Paths PROVE Missing(p) \/ Texty(files[p]) \/ Detect(files[p]) \in Supported
    <3>1. PICK c : c = files[p]
      OBVIOUS
    <3>2. Content(c)
      BY <1>1, <3>1 DEF LiveFiles
    <3>3. SUFFICES ASSUME c # Absent PROVE Texty(c) \/ Detect(c) \in Supported
      BY <3>1 DEF Missing
    <3>4. CASE Textual(c)
      <4>1. c \in Seq(Cell) /\ \A n \in 1 .. Len(c) : c[n][1] = "byte"
        BY <3>2, <3>3, <3>4, ContentShape
      <4>2. QED
        BY <3>3, <4>1 DEF Texty
    <3>5. CASE Streaming(c) /\ c # <<>>
      <4>1. \E k \in Supported : c[1] = Header(k)
        BY <3>5, StreamShape
      <4>2. QED
        BY <3>5, <4>1 DEF Detect, Header
    <3>6. CASE c = <<>>
      BY <3>3, <3>6 DEF Texty
    <3>7. QED
      BY <3>2, <3>3, <3>4, <3>5, <3>6 DEF Content
  <2>2. call.pc \in {"idle", "read", "deflate", "inflate", "close", "remove_out", "remove_in", "grow", "returned"}
    BY <1>1 DEF LiveCall
  <2>3. QED
    BY <2>1, <2>2 DEF CompressTypeOK
<1>3. ASSUME call.pc # "idle", call.op \in {"compress", "decompress"}
      PROVE  files[call.in] = call.held \/ Exact(call, files[call.out])
  <2>1. LiveCall(call, files) /\ OnFiles(call)
    BY <1>1, <1>3 DEF OnFiles
  <2>2. call.pc \in {"read", "deflate", "inflate", "close", "remove_out", "remove_in"} => files[call.in] = call.held
    BY <2>1 DEF LiveCall, InPlace
  <2>3. call.pc = "grow" => call.op = "decompress_buffer"
    BY <2>1 DEF LiveCall, InPlace
  <2>4. call.pc = "returned" => files[call.in] = call.held \/ Exact(call, files[call.out])
    BY <2>1 DEF LiveCall, Answered
  <2>5. QED
    BY <1>3, <2>1, <2>2, <2>3, <2>4 DEF LiveCall
<1>held. ASSUME call.pc # "idle", call.op = "decompress", Exact(call, files[call.out])
         PROVE  \E k \in Supported : call.held = Frame(k, files[call.out])
  <2>1. LiveCall(call, files) /\ OnFiles(call)
    BY <1>1, <1>held DEF OnFiles
  <2>0. PICK was, out : was = call.was /\ out = files[call.out]
    OBVIOUS
  <2>2. PICK k \in Supported : was = call.was /\ out = files[call.out] /\ was = Frame(k, out)
    BY <1>held, <2>0 DEF Exact
  <2>3. call.out \in Paths
    BY <2>1 DEF LiveCall, HeldWell
  <2>4. Len(out) \in Nat
    BY <1>1, <2>2, <2>3, HeldLong DEF LiveFiles
  <2>5. Len(was) \in Nat \ {0} /\ was[Len(was)][1] = "tail"
    BY <2>2, <2>4, FrameEnds
  <2>6. ~NoTail(was)
    BY <2>5 DEF NoTail
  <2>7. call.held = was
    BY <1>held, <2>1, <2>2, <2>6 DEF LiveCall, HeldWell
  <2>8. QED
    BY <2>2, <2>7
<1>4. OriginalRecoverable
  <2>1. Compressing => files[call.in] = call.held \/ files[call.out] = Frame(call.kind, call.was)
    BY <1>3 DEF Compressing, Exact
  <2>2. Decompressing => files[call.in] = call.held \/ \E k \in Supported : call.held = Frame(k, files[call.out])
    BY <1>3, <1>held DEF Decompressing, Exact
  <2>3. QED
    BY <2>1, <2>2 DEF OriginalRecoverable, AllRead
<1>5. call.pc = "returned" => Answered(call, files)
  BY <1>1 DEF LiveCall
<1>6. FileResultExact
  <2> SUFFICES ASSUME call.pc = "returned", call.op \in {"compress", "decompress"}
               PROVE  /\ call.ret = "OK" =>
                           IF call.op = "compress" THEN files[call.out] = Frame(call.kind, call.was)
                           ELSE \E k \in Supported : call.held = Frame(k, files[call.out])
                      /\ call.ret # "OK" =>
                           /\ files[call.in] = call.held
                           /\ call.out # call.in => Missing(call.out)
                           /\ \/ call.fault \/ ~AllRead \/ call.kind \notin Supported
                              \/ call.op = "decompress" /\ (~Whole(call.held) \/ ~Fits(call.kind, call.held))
    BY DEF FileResultExact
  <2>1. OnFiles(call)
    BY DEF OnFiles
  <2>2. call.ret = "OK" => Exact(call, files[call.out])
    BY <1>5, <2>1 DEF Answered
  <2>3. call.ret # "OK" => Excused(call) /\ files[call.in] = call.held /\ (call.out # call.in => files[call.out] = Absent)
    BY <1>5, <2>1 DEF Answered
  <2>4. Excused(call) => \/ call.fault \/ ~AllRead \/ call.kind \notin Supported
                         \/ call.op = "decompress" /\ (~Whole(call.held) \/ ~Fits(call.kind, call.held))
    BY DEF Excused, AllRead
  <2>5. QED
    BY <1>held, <2>2, <2>3, <2>4 DEF Exact, Missing
<1>7. BufferResultExact
  <2> SUFFICES ASSUME call.pc = "returned", call.op \in {"compress_buffer", "decompress_buffer"}
               PROVE  /\ call.ret = "OK" =>
                           IF call.op = "compress_buffer" THEN call.given = Frame(call.kind, call.was)
                           ELSE \E k \in Supported : call.was = Frame(k, call.given)
                      /\ call.ret # "OK" =>
                           \/ call.fault \/ call.kind \notin Supported
                           \/ call.op = "decompress_buffer"
                                /\ (~Whole(call.was) \/ ~Fits(call.kind, call.was))
    BY DEF BufferResultExact
  <2>1. ~OnFiles(call)
    BY DEF OnFiles
  <2>2. call.ret = "OK" => Exact(call, call.given)
    BY <1>5, <2>1 DEF Answered
  <2>3. call.ret # "OK" => Excused(call)
    BY <1>5 DEF Answered
  <2>4. QED
    BY <2>2, <2>3 DEF Exact, Excused
<1>8. QED
  BY <1>2, <1>4, <1>6, <1>7 DEF ResultExact

\* Whatever faults and crashes come, a result is exact or an error, and no input is lost.
THEOREM ResultsAreExact ==
  CompressSpec => []ResultExact
<1>1. CompressInit => LiveInv
  BY InitLive
<1>2. LiveInv /\ [CompressNext]_compressVars => LiveInv'
  BY StepLive
<1>3. LiveInv => ResultExact
  BY LiveExact
<1>4. QED
  BY <1>1, <1>2, <1>3, PTL DEF CompressSpec
=============================================================================
