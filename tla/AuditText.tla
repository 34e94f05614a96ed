------------------------------ MODULE AuditText ------------------------------
(***************************************************************************)
(* The text of an audit line (audit_impl.c): fmt_line writes the seven     *)
(* fields of an event with what separates them escaped, parse_event reads  *)
(* them back and refuses a line that cannot be one.  AuditLog takes from   *)
(* here what lines that are not whole can become.                          *)
(*                                                                         *)
(* Texts are sequences of characters, numbers too; they fit their fields.  *)
(***************************************************************************)
EXTENDS Integers, SequencesExt

CONSTANTS Events        \* events as append is given them, with number and time

Digits == {"0", "1", "2", "3", "4", "5", "6", "7", "8", "9"}
FieldNames == <<"seq", "ts", "subject", "action", "target", "result", "detail">>
NumberFields == {"seq", "ts", "result"}

Unsigned(s) == s # <<>> /\ ToSet(s) \subseteq Digits
Number(s) == Unsigned(s) \/ (s # <<>> /\ s[1] = "-" /\ Unsigned(Tail(s)))

ASSUME AuditTextAssumption ==
  \A e \in Events :
    /\ e = [f \in ToSet(FieldNames) |-> e[f]] /\ \A f \in ToSet(FieldNames) : e[f] \in Seq(ToSet(e[f]))
    /\ Unsigned(e.seq) /\ ToSet(e.seq) # {"0"} /\ Number(e.ts) /\ Number(e.result)

VARIABLES event, line   \* an event and, once it is written, its line
textVars == <<event, line>>

-----------------------------------------------------------------------------
\* fmt_esc: two characters for one that separates.
Escapes == [c \in {"\\", "|", "\n", "\r"} |->
  CASE c = "\\" -> "\\" [] c = "|" -> "|" [] c = "\n" -> "n" [] c = "\r" -> "r"]

\* Mutant: the backslash itself is not escaped.
EscapeSeparators(s) ==
  FlattenSeq([i \in DOMAIN s |-> IF s[i] \in DOMAIN Escapes \ {"\\"} THEN <<"\\", Escapes[s[i]]>> ELSE <<s[i]>>])

fmt_esc(s) ==
  FlattenSeq([i \in DOMAIN s |-> IF s[i] \in DOMAIN Escapes THEN <<"\\", Escapes[s[i]]>> ELSE <<s[i]>>])

fmt_line(ev) ==
  LET text(f) == IF f \in NumberFields THEN ev[f] ELSE fmt_esc(ev[f]) IN
  FlattenSeq([i \in 1 .. 7 |-> text(FieldNames[i]) \o <<IF i = 7 THEN "\n" ELSE "|">>])

NotAnEvent == [seq |-> <<>>]
NoField == [ok |-> FALSE, out |-> <<>>, next |-> 1]

\* esc_field: the field that begins at pos, and where the next one does.  A
\* backslash at the end, or before anything that is not escaped, is refused.
esc_field(text, pos) ==
  LET f[k \in 1 .. Len(text) + 2] ==
        IF k > Len(text) THEN [ok |-> TRUE, out |-> <<>>, next |-> Len(text) + 1]
        ELSE IF text[k] = "|" THEN [ok |-> TRUE, out |-> <<>>, next |-> k + 1]
        ELSE IF text[k] # "\\" THEN [f[k + 1] EXCEPT !.out = <<text[k]>> \o @]
        ELSE IF k = Len(text) \/ \A c \in DOMAIN Escapes : Escapes[c] # text[k + 1] THEN NoField
        ELSE [f[k + 2] EXCEPT !.out = <<CHOOSE c \in DOMAIN Escapes : Escapes[c] = text[k + 1]>> \o @]
  IN f[pos]

\* parse_event: line ends are taken off, then the fields are read in order; the
\* numbers must be numbers, the first one not 0, and nothing may be left.
parse_event(text) ==
  LET body == {k \in DOMAIN text : text[k] \notin {"\n", "\r"}}
      bare == SubSeq(text, 1, IF body = {} THEN 0 ELSE CHOOSE k \in body : \A j \in body : j <= k)
      read[n \in 0 .. 7] ==
        IF n = 0 THEN [ok |-> bare # <<>>, out |-> <<>>, next |-> 1]
        ELSE LET before == read[n - 1]
                 field == esc_field(bare, before.next) IN
             IF ~before.ok \/ ~field.ok THEN NoField
             ELSE IF FieldNames[n] \in NumberFields /\ ~Number(field.out) THEN NoField
             ELSE IF n = 1 /\ (~Unsigned(field.out) \/ ToSet(field.out) = {"0"}) THEN NoField
             ELSE [field EXCEPT !.out = Append(before.out, @)]
      all == read[7]
  IN IF all.ok /\ all.next = Len(bare) + 1
     THEN [f \in ToSet(FieldNames) |-> all.out[CHOOSE i \in 1 .. 7 : FieldNames[i] = f]]
     ELSE NotAnEvent

-----------------------------------------------------------------------------
AuditTextInit == event \in Events /\ line = <<>>
WriteLine == line = <<>> /\ line' = fmt_line(event) /\ UNCHANGED event
AuditTextNext == WriteLine
AuditTextSpec == AuditTextInit /\ [][AuditTextNext]_textVars

-----------------------------------------------------------------------------
\* An event is read back as it was written, whatever its texts hold.  What is
\* left of a line that was cut is refused, or is an event with the same number,
\* time, subject, action and target, and a part of the result and the detail.  A
\* line glued to such a rest is refused, if the rest is more than a part of the
\* number and the event has not a number for its target and nothing for detail
\* (an empty field after the last is not noticed).
LinesReadBack ==
  line # <<>> =>
    /\ parse_event(line) = event
    /\ \A n \in 0 .. Len(line) - 1 :
         LET rest == SubSeq(line, 1, n)
             part == parse_event(rest) IN
         /\ part # NotAnEvent =>
              /\ \A f \in {"seq", "ts", "subject", "action", "target"} : part[f] = event[f]
              /\ IsPrefix(part.result, event.result) /\ IsPrefix(part.detail, event.detail)
         /\ n > Len(event.seq) /\ ~(Number(event.target) /\ event.detail = <<>>) =>
              parse_event(rest \o line) = NotAnEvent
=============================================================================
