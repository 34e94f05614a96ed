------------------------------ MODULE Matching ------------------------------
(***************************************************************************)
(* The rules by which names are compared: glob_match of the permission     *)
(* plugin, sp_perm_match of SP and the version rule of METAPROTO.  They    *)
(* are pure functions; a behaviour asks one question and has it answered.  *)
(*                                                                         *)
(* A text is the sequence of its characters, a version the sequence of its *)
(* segments: a number, or Junk for anything else.                          *)
(***************************************************************************)
EXTENDS Integers, SequencesExt

CONSTANTS GlobPatterns, GlobTexts,  \* sequences of characters
          Versions                  \* sequences of segments

Junk == -1

ASSUME MatchingAssumption ==
  /\ \A t \in GlobPatterns \cup GlobTexts : t \in Seq(STRING)
  /\ \A v \in Versions : v \in Seq(Nat \cup {Junk})

VARIABLES question, answer
matchVars == <<question, answer>>

-----------------------------------------------------------------------------
\* glob_match: rests[i] are the places from where on the text matches the pattern
\* from its i-th character on.
glob_match(pat, s) ==
  LET rests[i \in 1 .. Len(pat) + 1] ==
        IF i > Len(pat) THEN {Len(s) + 1}
        ELSE IF pat[i] = "*" THEN {j \in 1 .. Len(s) + 1 : \E k \in rests[i + 1] : j <= k}
        ELSE {j \in 1 .. Len(s) : pat[i] \in {"?", s[j]} /\ j + 1 \in rests[i + 1]}
  IN 1 \in rests[1]

\* sp_perm_match: only a star at the end is more than itself.
sp_perm_match(perm, action) ==
  IF perm # <<>> /\ Last(perm) = "*" THEN IsPrefix(Front(perm), action) ELSE perm = action

\* version_segments: the first segment must be a number; what follows a segment
\* that is none is not read, and what is not there is 0.
Readable(v) == v # <<>> /\ v[1] # Junk
version_segments(v) ==
  LET Read(i) == Len(v) >= i /\ \A k \in 1 .. i : v[k] # Junk IN
  <<v[1], IF Read(2) THEN v[2] ELSE 0, IF Read(3) THEN v[3] ELSE 0>>

\* Mutant: the patch counts where the minor version is newer, too.
PatchAlways(h, r) == h[1] = r[1] /\ h[2] >= r[2] /\ h[3] >= r[3]

CoversVersion(h, r) == h[1] = r[1] /\ h[2] >= r[2] /\ (h[2] = r[2] => h[3] >= r[3])
hw_proto_version_compat(have, req) ==
  Readable(have) /\ Readable(req) /\ CoversVersion(version_segments(have), version_segments(req))

\* hw_proto_version_cmp: the first numbers that differ, whatever is between them.
NumbersIn(v) == FlattenSeq([i \in DOMAIN v |-> IF v[i] = Junk THEN <<>> ELSE <<v[i]>>])
hw_proto_version_cmp(a, b) ==
  LET x == NumbersIn(a)
      y == NumbersIn(b)
      differ == {i \in DOMAIN x \cap DOMAIN y : x[i] # y[i]} IN
  IF differ = {} THEN 0
  ELSE LET i == CHOOSE i \in differ : \A j \in differ : i <= j IN IF x[i] < y[i] THEN -1 ELSE 1

-----------------------------------------------------------------------------
Questions ==
  [rule : {"glob"}, pat : GlobPatterns, text : GlobTexts]
    \cup [rule : {"version"}, have : Versions, mid : Versions, req : Versions]

MatchingInit == question \in Questions /\ answer = <<>>

AskGlob ==
  /\ question.rule = "glob" /\ answer = <<>>
  /\ answer' = <<glob_match(question.pat, question.text), sp_perm_match(question.pat, question.text)>>
  /\ UNCHANGED question
AskVersion ==
  /\ question.rule = "version" /\ answer = <<>>
  /\ answer' = <<hw_proto_version_compat(question.have, question.req),
                 hw_proto_version_cmp(question.have, question.req)>>
  /\ UNCHANGED question
MatchingNext == AskGlob \/ AskVersion
MatchingSpec == MatchingInit /\ [][MatchingNext]_matchVars

-----------------------------------------------------------------------------
\* What a pattern means: its characters can be laid over the text, one after
\* the other and without a gap, a star over any number of characters.
Matches(pat, s) ==
  \E cut \in [0 .. Len(pat) -> 0 .. Len(s)] :
    /\ cut[0] = 0 /\ cut[Len(pat)] = Len(s)
    /\ \A i \in 1 .. Len(pat) :
         IF pat[i] = "*" THEN cut[i] >= cut[i - 1]
         ELSE cut[i] = cut[i - 1] + 1 /\ (pat[i] = "?" \/ pat[i] = s[cut[i]])

\* A pattern in which only a star at the end is special.
PrefixPattern(pat) == \A i \in DOMAIN pat : pat[i] # "?" /\ (pat[i] = "*" => i = Len(pat))

\* A version that meets a requirement is met by every version that is as new.
CompatThrough(a, b, c) ==
  hw_proto_version_compat(a, b) /\ hw_proto_version_compat(b, c) => hw_proto_version_compat(a, c)

\* A version of up to three numbers.
Proper(v) == Len(v) <= 3 /\ \A i \in DOMAIN v : v[i] # Junk

\* Minor version and patch as one number.
NoOlder(a, b) ==
  LET m == version_segments(a)
      n == version_segments(b)
      base == 1 + m[3] + n[3]
  IN base * m[2] + m[3] >= base * n[2] + n[3]

\* The rules answer what they are meant to: glob_match finds a way to lay the
\* pattern over the text whenever there is one, SP decides as the permission
\* plugin does on the patterns both know, and a provider is accepted exactly if
\* its major version is the one asked for and the rest no older; the comparison
\* never calls an accepted version older, and acceptance goes through a version
\* between two others.
MatchersExact ==
  answer # <<>> =>
    IF question.rule = "glob"
    THEN /\ answer[1] = Matches(question.pat, question.text)
         /\ PrefixPattern(question.pat) => answer[2] = answer[1]
    ELSE LET have == question.have  req == question.req IN
         /\ answer[1] = (Readable(have) /\ Readable(req) /\ have[1] = req[1]
                           /\ NoOlder(have, req))
         /\ answer[1] /\ Proper(have) /\ Proper(req) => answer[2] >= 0
         /\ CompatThrough(have, question.mid, req)
=============================================================================
