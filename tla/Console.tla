------------------------------ MODULE Console ------------------------------
(***************************************************************************)
(* console_impl.c: sessions with a growing buffer of lines.  A closed      *)
(* session stays on the list, and its handle stays valid, until cleanup;   *)
(* one thread uses the driver.                                             *)
(*                                                                         *)
(* A character is "a", "\n" or, made from it by banner, "\\n"; a read      *)
(* buffer of cap characters has room for cap - 1 and the NUL.              *)
(***************************************************************************)
EXTENDS Callers, Integers, SequencesExt

CONSTANTS Names,
          Written,      \* texts given to write and banner
          MaxSessions, MaxBuf   \* bounds: sessions made, characters

Chars == {"a", "\n", "\\n"}

ASSUME ConsoleAssumption == MaxSessions \in Nat /\ Written \subseteq Seq(Chars)

VARIABLES g_sessions,   \* the list, newest first
          sess_seq,     \* ids given
          inputs,       \* per id, what has been put in since the buffer was emptied
          taken         \* per id, what has been read since then

consoleVars == <<g_sessions, sess_seq, inputs, taken>>

ConsoleInit == g_sessions = <<>> /\ sess_seq = 0 /\ inputs = <<>> /\ taken = <<>>

Active == {k \in DOMAIN g_sessions : g_sessions[k].active}
\* The i-th session of the list keeps its place from the end.
IdOf(k) == g_sessions[k].id
Escaped(text) == [k \in DOMAIN text |-> IF text[k] = "\n" THEN "\\n" ELSE text[k]]
NewLines(buf) == {k \in DOMAIN buf : buf[k] = "\n"}

console_open(name) ==
  /\ sess_seq < MaxSessions
  /\ \A k \in Active : g_sessions[k].name # name
  /\ sess_seq' = sess_seq + 1
  /\ g_sessions' = <<[name |-> name, id |-> sess_seq', active |-> TRUE, buf |-> <<>>,
                      written |-> 0]>> \o g_sessions
  /\ inputs' = Append(inputs, <<>>) /\ taken' = Append(taken, <<>>)

console_close(k) ==
  /\ g_sessions' = [g_sessions EXCEPT ![k].active = FALSE]
  /\ UNCHANGED <<sess_seq, inputs, taken>>

\* sess_append: memory for the whole text, or nothing is written.
console_write(k, text) ==
  /\ Len(g_sessions[k].buf) + Len(text) <= MaxBuf /\ g_sessions[k].written < MaxBuf
  /\ g_sessions' = [g_sessions EXCEPT ![k].buf = @ \o text, ![k].written = @ + Len(text)]
  /\ inputs' = [inputs EXCEPT ![IdOf(k)] = @ \o text]
  /\ UNCHANGED <<sess_seq, taken>>

\* Mutant: a line that is too long is cut.
ReadLineCut(k, cap) ==
  LET buf == g_sessions[k].buf
      pos == CHOOSE p \in NewLines(buf) : \A q \in NewLines(buf) : p <= q IN
  /\ NewLines(buf) # {}
  /\ g_sessions' = [g_sessions EXCEPT ![k].buf = SubSeq(@, pos + 1, Len(@))]
  /\ taken' = [taken EXCEPT ![IdOf(k)] =
                 Append(@, SubSeq(buf, 1, IF pos - 1 < cap THEN pos - 1 ELSE cap - 1))]
  /\ UNCHANGED <<sess_seq, inputs>>

\* Without a whole line -EAGAIN, with a line too long for the caller -ENOBUFS,
\* and nothing is consumed.
console_read_line(k, cap) ==
  LET buf == g_sessions[k].buf
      pos == CHOOSE p \in NewLines(buf) : \A q \in NewLines(buf) : p <= q IN
  /\ NewLines(buf) # {} /\ pos - 1 < cap
  /\ g_sessions' = [g_sessions EXCEPT ![k].buf = SubSeq(@, pos + 1, Len(@))]
  /\ taken' = [taken EXCEPT ![IdOf(k)] = Append(@, SubSeq(buf, 1, pos - 1))]
  /\ UNCHANGED <<sess_seq, inputs>>

Emptied(k, buf) ==
  /\ inputs' = [inputs EXCEPT ![IdOf(k)] = buf] /\ taken' = [taken EXCEPT ![IdOf(k)] = <<>>]
  /\ UNCHANGED sess_seq

\* banner empties the buffer before it asks for memory, and puts the line in
\* with two calls of sess_append.
console_banner(k, text) ==
  \E buf \in {Escaped(text) \o <<"\n">>} \cup IF Faults THEN {<<>>, Escaped(text)} ELSE {} :
    /\ g_sessions' = [g_sessions EXCEPT ![k].buf = buf,
                        ![k].written = IF buf = <<>> THEN 0 ELSE Len(buf)]
    /\ Emptied(k, buf)

\* clear keeps the count of bytes written.
console_clear(k) ==
  /\ g_sessions' = [g_sessions EXCEPT ![k].buf = <<>>]
  /\ Emptied(k, <<>>)

hw_console_cleanup == g_sessions # <<>> /\ g_sessions' = <<>> /\ sess_seq' = 0
                        /\ inputs' = <<>> /\ taken' = <<>>

ConsoleNext ==
  \/ \E name \in Names : console_open(name)
  \/ \E k \in Active :
       \/ console_close(k) \/ console_clear(k)
       \/ \E text \in Written : console_write(k, text) \/ console_banner(k, text)
       \/ \E cap \in {1, 2, 3} : console_read_line(k, cap)
  \/ hw_console_cleanup

ConsoleSpec == ConsoleInit /\ [][ConsoleNext]_consoleVars

-----------------------------------------------------------------------------
ConsoleTypeOK ==
  /\ sess_seq \in 0 .. MaxSessions
  /\ \A k \in DOMAIN g_sessions : g_sessions[k].id \in 1 .. sess_seq /\ g_sessions[k].active \in BOOLEAN

\* The lines a session has given, each ended by a newline, followed by what it
\* still holds are exactly what was written since the buffer was last emptied:
\* no line is lost, split, given twice or out of order, a call that fails takes
\* nothing; and an open session is the only one with its name.
LinesInOrder ==
  /\ ConsoleTypeOK
  /\ \A k \in DOMAIN g_sessions :
       LET given == taken[IdOf(k)] IN
       /\ FlattenSeq([j \in DOMAIN given |-> Append(given[j], "\n")]) \o g_sessions[k].buf
            = inputs[IdOf(k)]
       /\ \A j \in DOMAIN given : NewLines(given[j]) = {}
  /\ \A j, k \in Active : g_sessions[j].name = g_sessions[k].name => j = k
=============================================================================
