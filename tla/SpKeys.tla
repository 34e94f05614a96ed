------------------------------- MODULE SpKeys -------------------------------
(***************************************************************************)
(* sp_key.c: key pairs held in memory under increasing ids, and the        *)
(* signatures made with them by running openssl on temporary files.  The   *)
(* table is read and changed in sections under g_sp_ctx.lock; files and    *)
(* commands come before or after the section.                              *)
(*                                                                         *)
(* A pair is a number: a generated pair is new, an imported one may be in  *)
(* the table already.  A signature is the pair and the data it was made    *)
(* of.  Names of temporary files are random and taken not to repeat, so a  *)
(* file is known by the thread that asked for its name and its purpose.    *)
(***************************************************************************)
EXTENDS Callers, Naturals, Sequences, SequencesExt

CONSTANTS KeyAlgos, Data,
          MaxKeys     \* bound: ids given out between two starts

ASSUME SpKeysAssumption == MaxKeys \in Nat \ {0}

VARIABLES keys,       \* g_sp_ctx.keys, the head first
          nextKeyId,  \* g_sp_ctx.next_key_id
          files,      \* temporary files of the call in progress
          work,       \* per thread: the call in progress
          lost,       \* kinds of file that finished calls have left behind
          owner,      \* history: the pair of every id given out
          signatures  \* history: the signatures returned, with the id asked for

keyHistory == <<owner, signatures>>
keyVars == <<keys, nextKeyId, files, work, lost, owner, signatures>>

Ids == 1 .. MaxKeys
Foreign == MaxKeys + 1      \* a pair made elsewhere; the one generated for id n is n
NOTHING == 0
Free == [pc |-> "idle", id |-> NOTHING, pair |-> NOTHING, algo |-> NOTHING, data |-> NOTHING, sig |-> <<>>]

Ready(t) == work[t].pc = "idle"
Step(t, from, to) == work[t].pc = from /\ work' = [work EXCEPT ![t].pc = to]

\* The call of t returns; of its files those in `left` stay.
EndWork(t, left) ==
  /\ work' = [work EXCEPT ![t] = Free]
  /\ files' = [files EXCEPT ![t] = {}]
  /\ lost' = lost \cup left

\* sp_key_find: the entry with that id.
FindKey(id) == {i \in DOMAIN keys : keys[i].id = id}
Usable(id) == \E i \in FindKey(id) : ~keys[i].revoked

KeysInit ==
  /\ keys = <<>> /\ nextKeyId = 1
  /\ files = [t \in Threads |-> {}] /\ work = [t \in Threads |-> Free]
  /\ lost = {} /\ owner = <<>> /\ signatures = {}

-----------------------------------------------------------------------------
(* sp_gen_key_pair and sp_import_key_pair.                                 *)

\* genpkey writes both files; a command that fails has its files removed.
Generate(t, algo) ==
  /\ Ready(t)
  /\ work' = [work EXCEPT ![t].pc = "read", ![t].algo = algo, ![t].pair = NOTHING]
  /\ files' = [files EXCEPT ![t] = {"priv", "pub"}]
  /\ UNCHANGED <<keys, nextKeyId, lost, keyHistory>>

\* The PEM given is written to a file, from which openssl derives the public
\* key; it may be a pair the table has (sp_export_private_key).
Import(t, algo, pair) ==
  /\ Ready(t) /\ pair \in 1 .. nextKeyId - 1 \cup {Foreign}
  /\ work' = [work EXCEPT ![t].pc = "read", ![t].algo = algo, ![t].pair = pair]
  /\ files' = [files EXCEPT ![t] = {"priv", "pub"}]
  /\ UNCHANGED <<keys, nextKeyId, lost, keyHistory>>

\* The files are read and removed, or removed after any of the failures.
ReadPair(t) ==
  /\ work[t].pc = "read"
  /\ \/ Step(t, "read", "enter") /\ files' = [files EXCEPT ![t] = {}] /\ UNCHANGED lost
     \/ Faults /\ EndWork(t, {})
  /\ UNCHANGED <<keys, nextKeyId, keyHistory>>

\* Mutant: the id is one more than the newest one in the table.
NewEntryReusesIds(t) ==
  LET id == IF keys = <<>> THEN 1 ELSE keys[1].id + 1
      pair == IF work[t].pair = NOTHING THEN id ELSE work[t].pair
  IN /\ work[t].pc = "enter" /\ id <= MaxKeys
     /\ nextKeyId' = IF id < nextKeyId THEN nextKeyId ELSE id + 1
     /\ keys' = <<[id |-> id, algo |-> work[t].algo, pair |-> pair, revoked |-> FALSE]>> \o keys
     /\ owner' = IF id <= Len(owner) THEN [owner EXCEPT ![id] = pair] ELSE Append(owner, pair)
     /\ work' = [work EXCEPT ![t].pc = "answer", ![t].id = id, ![t].pair = pair]
     /\ UNCHANGED <<files, lost, signatures>>

\* sp_key_new_entry, under the lock.  The id is used up even when there is no
\* memory for the copies of the PEM texts.
NewEntry(t) ==
  LET pair == IF work[t].pair = NOTHING THEN nextKeyId ELSE work[t].pair
  IN /\ work[t].pc = "enter" /\ nextKeyId <= MaxKeys
     /\ nextKeyId' = nextKeyId + 1
     /\ \/ /\ keys' = <<[id |-> nextKeyId, algo |-> work[t].algo, pair |-> pair,
                         revoked |-> FALSE]>> \o keys
           /\ owner' = Append(owner, pair)
           /\ work' = [work EXCEPT ![t].pc = "answer", ![t].id = nextKeyId, ![t].pair = pair]
           /\ UNCHANGED <<files, lost>>
        \/ Faults /\ EndWork(t, {}) /\ owner' = Append(owner, NOTHING) /\ UNCHANGED keys
     /\ UNCHANGED signatures

\* The id is read from the entry after the unlock; sp_destroy_key may have
\* freed the entry meanwhile, and then any number is returned.
Answer(t) ==
  /\ work[t].pc = "answer"
  /\ EndWork(t, {})
  /\ UNCHANGED <<keys, nextKeyId, keyHistory>>

-----------------------------------------------------------------------------
(* sp_revoke_key and sp_destroy_key.                                       *)

Revoke(t, id) ==
  /\ Ready(t) /\ FindKey(id) # {}
  /\ keys' = [i \in DOMAIN keys |-> IF i \in FindKey(id) THEN [keys[i] EXCEPT !.revoked = TRUE]
                                    ELSE keys[i]]
  /\ UNCHANGED <<nextKeyId, files, work, lost, keyHistory>>

\* The first entry with that id is unlinked and freed.
Destroy(t, id) ==
  /\ Ready(t)
  /\ \E i \in FindKey(id) : /\ \A j \in FindKey(id) : i <= j
                            /\ keys' = RemoveAt(keys, i)
  /\ UNCHANGED <<nextKeyId, files, work, lost, keyHistory>>

-----------------------------------------------------------------------------
(* sp_sign.                                                                *)

\* Under the lock: a copy of the private key of an entry that is not revoked.
SignFind(t, id, d) ==
  /\ Ready(t) /\ Usable(id)
  /\ \E i \in FindKey(id) :
       work' = [work EXCEPT ![t] = [Free EXCEPT !.pc = "sign", !.id = id, !.data = d,
                                                !.pair = keys[i].pair]]
  /\ UNCHANGED <<keys, nextKeyId, files, lost, keyHistory>>

\* The data and the private key are written; a write that fails, with or
\* without a file to show for it, returns EIO and removes nothing.
SignWrite(t) ==
  /\ work[t].pc = "sign"
  /\ \/ Step(t, "sign", "run") /\ files' = [files EXCEPT ![t] = {"in", "key"}] /\ UNCHANGED lost
     \/ Faults /\ \E left \in {{}, {"in"}, {"in", "key"}} : EndWork(t, left)
  /\ UNCHANGED <<keys, nextKeyId, keyHistory>>

\* openssl dgst -sign, then the three files are removed whatever it did.
SignRun(t) ==
  /\ work[t].pc = "run"
  /\ \/ Step(t, "run", "encode") /\ files' = [files EXCEPT ![t] = {}] /\ UNCHANGED lost
     \/ Faults /\ EndWork(t, {})
  /\ UNCHANGED <<keys, nextKeyId, keyHistory>>

\* sp_b64_encode: a failed write leaves its input, a failed command its output.
SignEncode(t) ==
  /\ work[t].pc = "encode"
  /\ \/ /\ EndWork(t, {})
        /\ signatures' = signatures \cup {[id |-> work[t].id, pair |-> work[t].pair,
                                           data |-> work[t].data]}
     \/ Faults /\ \E left \in {{}, {"b64"}} : EndWork(t, left) /\ UNCHANGED signatures
  /\ UNCHANGED <<keys, nextKeyId, owner>>

-----------------------------------------------------------------------------
(* sp_verify.                                                              *)

\* Under the lock: a copy of the public key.
VerifyFind(t, id, d, sig) ==
  /\ Ready(t) /\ Usable(id)
  /\ \E i \in FindKey(id) :
       work' = [work EXCEPT ![t] = [Free EXCEPT !.pc = "verify", !.id = id, !.data = d,
                                                !.pair = keys[i].pair, !.sig = sig]]
  /\ UNCHANGED <<keys, nextKeyId, files, lost, keyHistory>>

\* The data and the key are written, the signature decoded and written.  A
\* failure of the first two leaves files, so does one inside sp_b64_decode; any
\* other failure removes all five.
VerifyWrite(t) ==
  /\ work[t].pc = "verify"
  /\ \/ /\ Step(t, "verify", "judge")
        /\ files' = [files EXCEPT ![t] = {"in", "pubkey", "sig", "out", "err"}]
        /\ UNCHANGED lost
     \/ Faults /\ \E left \in {{}, {"in"}, {"in", "pubkey"}, {"b64"}} : EndWork(t, left)
  /\ UNCHANGED <<keys, nextKeyId, keyHistory>>

\* What openssl dgst -verify answers: the signature is that pair's for the data.
Valid(call) == call.sig.pair = call.pair /\ call.sig.data = call.data

\* Whatever openssl says, and also when it could not run, the call succeeds.
VerifyRun(t) ==
  /\ work[t].pc = "judge"
  /\ EndWork(t, {})
  /\ UNCHANGED <<keys, nextKeyId, keyHistory>>

-----------------------------------------------------------------------------
\* sp_destroy (sp_keys_cleanup) and sp_init: the table is empty and ids begin
\* at 1 again.  No call may be in progress: the mutex is destroyed.
Reset ==
  /\ \A t \in Threads : Ready(t)
  /\ keys' = <<>> /\ nextKeyId' = 1 /\ owner' = <<>> /\ signatures' = {}
  /\ UNCHANGED <<files, work, lost>>

KeysNext ==
  \/ \E t \in Threads :
       \/ \E a \in KeyAlgos : Generate(t, a) \/ \E p \in 1 .. Foreign : Import(t, a, p)
       \/ ReadPair(t) \/ NewEntry(t) \/ Answer(t)
       \/ \E id \in Ids : \/ Revoke(t, id) \/ Destroy(t, id)
                          \/ \E d \in Data : \/ SignFind(t, id, d)
                                             \/ \E s \in signatures : VerifyFind(t, id, d, s)
       \/ SignWrite(t) \/ SignRun(t) \/ SignEncode(t)
       \/ VerifyWrite(t) \/ VerifyRun(t)
  \/ Reset

KeysSpec == KeysInit /\ [][KeysNext]_keyVars

-----------------------------------------------------------------------------
KeysTypeOK ==
  /\ \A i \in DOMAIN keys : keys[i].id \in Ids /\ keys[i].algo \in KeyAlgos
                           /\ keys[i].pair \in 1 .. Foreign /\ keys[i].revoked \in BOOLEAN
  /\ nextKeyId \in 1 .. MaxKeys + 1 /\ Len(owner) = nextKeyId - 1
  /\ \A t \in Threads : Ready(t) => files[t] = {}
  /\ lost \subseteq {"in", "key", "pubkey", "b64"}

\* sp_sign and sp_verify: a signature returned for an id was made with the pair
\* that id was given to, and is judged valid for its data under that id as long
\* as the id can be used, whatever keys were generated, imported, revoked or
\* destroyed in between: an id never comes to mean another pair.
SignaturesVerify ==
  /\ KeysTypeOK
  /\ \A s \in signatures : owner[s.id] = s.pair
  /\ \A t \in Threads :
       (work[t].pc \in {"verify", "judge"} /\ work[t].id = work[t].sig.id
          /\ work[t].data = work[t].sig.data) => Valid(work[t])

\* sp_key.c:13: private keys are kept in memory and in temporary files that are
\* removed as soon as the operation is over.
KeyFilesRemoved == "key" \notin lost
=============================================================================
