------------------------------ MODULE ListFacts ------------------------------
(* What the operations on linked lists that the C code keeps doing (insert  *)
(* at the head, take the head, unlink an entry) do to a sequence.           *)
EXTENDS Integers, SequencesExt, Snapshots, FiniteSetTheorems, TLAPS

\* A new entry at the head, as in r->next = reg->routes; reg->routes = r.
LEMMA Prepended ==
  ASSUME NEW S, NEW x \in S, NEW s \in Seq(S)
  PROVE  /\ <<x>> \o s \in Seq(S)
         /\ ToSet(<<x>> \o s) = {x} \cup ToSet(s)
         /\ x \notin ToSet(s) /\ IsInjective(s) => IsInjective(<<x>> \o s)
<1> DEFINE t == <<x>> \o s
<1>1. t \in Seq(S) /\ DOMAIN t = 1 .. Len(s) + 1 /\ t[1] = x /\ DOMAIN s = 1 .. Len(s)
  OBVIOUS
<1>2. \A i \in 2 .. Len(s) + 1 : t[i] = s[i - 1] /\ i - 1 \in 1 .. Len(s)
  OBVIOUS
<1>3. \A i \in 1 .. Len(s) : t[i + 1] = s[i] /\ i + 1 \in 1 .. Len(s) + 1
  OBVIOUS
<1> HIDE DEF t
<1>4. ToSet(t) = {x} \cup ToSet(s)
  BY <1>1, <1>2, <1>3, SMTT(60) DEF ToSet
<1>5. ASSUME x \notin ToSet(s), IsInjective(s), NEW a \in DOMAIN t, NEW b \in DOMAIN t, t[a] = t[b]
      PROVE a = b
  <2>1. Len(s) \in Nat /\ \A i \in 1 .. Len(s) : s[i] # x
    BY <1>1, <1>5 DEF ToSet
  <2>2. \A i, j \in 1 .. Len(s) : s[i] = s[j] => i = j
    BY <1>1, <1>5 DEF IsInjective
  <2>3. a \in 1 .. Len(s) + 1 /\ b \in 1 .. Len(s) + 1
    BY <1>1
  <2>4. CASE a = 1 \/ b = 1
    BY <1>1, <1>2, <1>5, <2>1, <2>3, <2>4
  <2>5. CASE a # 1 /\ b # 1
    <3>1. a - 1 \in 1 .. Len(s) /\ b - 1 \in 1 .. Len(s) /\ s[a - 1] = s[b - 1]
      BY <1>2, <1>5, <2>1, <2>3, <2>5
    <3> QED BY <2>1, <2>2, <2>3, <3>1
  <2> QED BY <2>4, <2>5
<1> QED BY <1>1, <1>4, <1>5 DEF IsInjective, t

\* The first entry of a list that is worked off from its head.
LEMMA WorkedOff ==
  ASSUME NEW S, NEW s \in Seq(S), s # <<>>
  PROVE  Head(s) \in S /\ Tail(s) \in Seq(S) /\ ToSet(s) = {Head(s)} \cup ToSet(Tail(s))
<1>1. /\ Len(s) \in Nat \ {0} /\ DOMAIN s = 1 .. Len(s) /\ Head(s) = s[1]
      /\ Tail(s) \in Seq(S) /\ DOMAIN Tail(s) = 1 .. Len(s) - 1
  OBVIOUS
<1>2. \A i \in 1 .. Len(s) - 1 : Tail(s)[i] = s[i + 1]
  OBVIOUS
<1>3. \A i \in 2 .. Len(s) : i - 1 \in 1 .. Len(s) - 1 /\ s[i] = Tail(s)[i - 1]
  BY <1>1, <1>2
<1>4. ASSUME NEW x \in ToSet(s) PROVE x = Head(s) \/ x \in ToSet(Tail(s))
  <2>1. PICK i \in 1 .. Len(s) : x = s[i]
    BY <1>1 DEF ToSet
  <2>2. CASE i = 1
    BY <1>1, <2>1, <2>2
  <2>3. CASE i # 1
    <3>1. i \in 2 .. Len(s)
      BY <1>1, <2>1, <2>3
    <3>2. i - 1 \in DOMAIN Tail(s) /\ x = Tail(s)[i - 1]
      BY <1>1, <1>3, <2>1, <3>1
    <3> QED BY <3>2 DEF ToSet
  <2> QED BY <2>2, <2>3
<1>5. ASSUME NEW x \in ToSet(Tail(s)) PROVE x \in ToSet(s)
  <2>1. PICK i \in 1 .. Len(s) - 1 : x = Tail(s)[i]
    BY <1>1 DEF ToSet
  <2> QED BY <1>1, <1>2, <2>1 DEF ToSet
<1>6. Head(s) \in S /\ Head(s) \in ToSet(s)
  BY <1>1 DEF ToSet
<1> QED BY <1>1, <1>4, <1>5, <1>6

\* An entry that is unlinked: those behind it move up, the others stay.
LEMMA Unlinked ==
  ASSUME NEW S, NEW s \in Seq(S), NEW i \in DOMAIN s
  PROVE  /\ RemoveAt(s, i) \in Seq(S)
         /\ Len(RemoveAt(s, i)) = Len(s) - 1
         /\ \A j \in 1 .. Len(s) - 1 :
              RemoveAt(s, i)[j] = IF j < i THEN s[j] ELSE s[j + 1]
<1> DEFINE a == SubSeq(s, 1, i - 1)
           b == SubSeq(s, i + 1, Len(s))
<1>1. Len(s) \in Nat /\ i \in 1 .. Len(s)
  OBVIOUS
<1>2. /\ a \in Seq(S) /\ Len(a) = i - 1 /\ \A j \in 1 .. i - 1 : a[j] = s[j]
  BY <1>1
<1>3. b \in Seq(S) /\ Len(b) = Len(s) - i /\ \A j \in 1 .. Len(s) - i : b[j] = s[i + j]
  BY <1>1
<1>4. RemoveAt(s, i) = a \o b
  BY DEF RemoveAt
<1> HIDE DEF a, b
<1>5. /\ a \o b \in Seq(S) /\ Len(a \o b) = Len(s) - 1
      /\ \A j \in 1 .. Len(s) - 1 : (a \o b)[j] = IF j < i THEN a[j] ELSE b[j - i + 1]
  BY <1>1, <1>2, <1>3, SMTT(60)
<1>6. ASSUME NEW j \in 1 .. Len(s) - 1 PROVE (a \o b)[j] = IF j < i THEN s[j] ELSE s[j + 1]
  <2>1. CASE j < i
    BY <1>1, <1>2, <1>5, <2>1
  <2>2. CASE ~(j < i)
    <3>1. j - i + 1 \in 1 .. Len(s) - i /\ i + (j - i + 1) = j + 1
      BY <1>1, <2>2
    <3> QED BY <1>3, <1>5, <2>2, <3>1
  <2> QED BY <2>1, <2>2
<1> QED BY <1>4, <1>5, <1>6

\* The same for lists without duplicates: the entry is gone, all others are still there.
LEMMA UnlinkedOnce ==
  ASSUME NEW S, NEW s \in Seq(S), NEW i \in DOMAIN s, IsInjective(s)
  PROVE  IsInjective(RemoveAt(s, i)) /\ ToSet(RemoveAt(s, i)) = ToSet(s) \ {s[i]}
<1> DEFINE t == RemoveAt(s, i)
<1>1. /\ t \in Seq(S) /\ Len(t) = Len(s) - 1 /\ Len(s) \in Nat /\ i \in 1 .. Len(s)
      /\ DOMAIN s = 1 .. Len(s) /\ DOMAIN t = 1 .. Len(s) - 1
      /\ \A j \in 1 .. Len(s) - 1 : t[j] = IF j < i THEN s[j] ELSE s[j + 1]
  <2>1. /\ t \in Seq(S) /\ Len(t) = Len(s) - 1
        /\ \A j \in 1 .. Len(s) - 1 : t[j] = IF j < i THEN s[j] ELSE s[j + 1]
    BY Unlinked
  <2> HIDE DEF t
  <2> QED BY <2>1
<1> HIDE DEF t
<1>2. \A j \in DOMAIN t : \E m \in DOMAIN s \ {i} :
        t[j] = s[m] /\ m = IF j < i THEN j ELSE j + 1
  BY <1>1
<1>3. \A m \in DOMAIN s \ {i} : \E j \in DOMAIN t : t[j] = s[m]
  <2> TAKE m \in DOMAIN s \ {i}
  <2>1. CASE m < i
    BY <1>1, <2>1
  <2>2. CASE m > i
    <3>1. m - 1 \in DOMAIN t /\ t[m - 1] = s[m]
      BY <1>1, <2>2
    <3> QED BY <3>1
  <2> QED BY <1>1, <2>1, <2>2
<1>4. IsInjective(t)
  BY <1>1, <1>2 DEF IsInjective
<1>5. ASSUME NEW x \in ToSet(t) PROVE x \in ToSet(s) /\ x # s[i]
  BY <1>1, <1>2 DEF ToSet, IsInjective
<1>6. ASSUME NEW x \in ToSet(s), x # s[i] PROVE x \in ToSet(t)
  BY <1>3, <1>6 DEF ToSet
<1> QED BY <1>4, <1>5, <1>6 DEF t

\* A list that is written head first and read back to the head comes back reversed.
LEMMA Reversed ==
  ASSUME NEW S, NEW s \in Seq(S)
  PROVE  /\ Reverse(s) \in Seq(S) /\ ToSet(Reverse(s)) = ToSet(s)
         /\ IsInjective(s) => IsInjective(Reverse(s))
<1> DEFINE t == Reverse(s)
<1>1. /\ Len(s) \in Nat /\ DOMAIN s = 1 .. Len(s) /\ DOMAIN t = 1 .. Len(s) /\ t \in Seq(S)
      /\ \A i \in 1 .. Len(s) : t[i] = s[Len(s) - i + 1] /\ Len(s) - i + 1 \in 1 .. Len(s)
  BY DEF Reverse
<1> HIDE DEF t
<1>2. \A i \in 1 .. Len(s) : s[i] = t[Len(s) - i + 1] /\ Len(s) - i + 1 \in 1 .. Len(s)
  BY <1>1
<1>3. ToSet(t) = ToSet(s)
  <2>1. ASSUME NEW x \in ToSet(t) PROVE x \in ToSet(s)
    <3>1. PICK i \in 1 .. Len(s) : x = t[i]
      BY <1>1 DEF ToSet
    <3> QED BY <1>1, <3>1 DEF ToSet
  <2>2. ASSUME NEW x \in ToSet(s) PROVE x \in ToSet(t)
    <3>1. PICK i \in 1 .. Len(s) : x = s[i]
      BY <1>1 DEF ToSet
    <3> QED BY <1>1, <1>2, <3>1 DEF ToSet
  <2> QED BY <2>1, <2>2
<1>4. IsInjective(s) => IsInjective(t)
  BY <1>1 DEF IsInjective
<1> QED BY <1>1, <1>3, <1>4 DEF t

\* An array that is as large as the list cuts nothing off.
LEMMA NothingCut ==
  ASSUME NEW n \in Nat, NEW m \in Nat, m <= n, NEW ps \in SUBSET (1 .. m),
         NEW f \in FirstOf(ps, n)
  PROVE  \A p \in ps : \E i \in DOMAIN f : f[i] = p
<1> SUFFICES ASSUME NEW p \in ps, DOMAIN f = 1 .. n, \A i \in DOMAIN f : f[i] < p PROVE FALSE
  BY DEF FirstOf
<1>1. p \in 1 .. m
  OBVIOUS
<1>2. f \in [1 .. n -> 1 .. p - 1]
  <2>1. \A i \in DOMAIN f : f[i] \in ps
    BY DEF FirstOf
  <2>2. f = [i \in 1 .. n |-> f[i]]
    BY DEF FirstOf
  <2>3. \A i \in 1 .. n : f[i] \in 1 .. m /\ f[i] < p
    BY <2>1
  <2> QED BY <1>1, <2>2, <2>3
<1>3. /\ IsFiniteSet(1 .. n) /\ Cardinality(1 .. n) = n
      /\ IsFiniteSet(1 .. p - 1) /\ Cardinality(1 .. p - 1) = p - 1
  <2>1. \A b \in Nat : IsFiniteSet(1 .. b) /\ Cardinality(1 .. b) = b
    <3> TAKE b \in Nat
    <3>1. IsFiniteSet(1 .. b) /\ Cardinality(1 .. b) = IF 1 > b THEN 0 ELSE b - 1 + 1
      BY FS_Interval
    <3> QED BY <3>1
  <2> QED BY <1>1, <2>1
<1>4. PICK i \in 1 .. n, j \in 1 .. n : i # j /\ f[i] = f[j]
  <2>1. Cardinality(1 .. p - 1) < Cardinality(1 .. n)
    BY <1>1, <1>3
  <2> QED BY <1>2, <1>3, <2>1, FS_PigeonHole
<1>5. \A a, b \in DOMAIN f : a < b => f[a] < f[b]
  BY DEF FirstOf
<1>6. f[i] \in Nat
  BY <1>1, <1>2
<1> QED BY <1>4, <1>5, <1>6

\* Lists with the same members.
LEMMA SameMembers ==
  ASSUME NEW C, NEW a \in Seq(C), NEW b \in Seq(C), Len(a) = Len(b),
         \A q \in 1 .. Len(a) : a[q] = b[q]
  PROVE  a = b
  OBVIOUS

\* A list is its beginning and the next member.
LEMMA OneLonger ==
  ASSUME NEW C, NEW t \in Seq(C), NEW n \in Nat, n + 1 <= Len(t)
  PROVE  /\ SubSeq(t, 1, n) \in Seq(C) /\ Len(SubSeq(t, 1, n)) = n /\ t[n + 1] \in C
         /\ SubSeq(t, 1, n + 1) = Append(SubSeq(t, 1, n), t[n + 1])
<1>1. n + 1 \in 1 .. Len(t) /\ n <= Len(t) /\ Len(t) \in Nat
  OBVIOUS
<1>2. PICK a : a = SubSeq(t, 1, n)
  OBVIOUS
<1>3. PICK b : b = SubSeq(t, 1, n + 1)
  OBVIOUS
<1>4. a \in Seq(C) /\ Len(a) = n /\ \A h \in 1 .. n : a[h] = t[h]
  BY <1>1, <1>2
<1>5. b \in Seq(C) /\ Len(b) = n + 1 /\ \A h \in 1 .. n + 1 : b[h] = t[h]
  BY <1>1, <1>3
<1>6. t[n + 1] \in C
  BY <1>1
<1>7. b = Append(a, t[n + 1])
  BY <1>4, <1>5, <1>6
<1>8. QED
  BY <1>2, <1>3, <1>4, <1>6, <1>7

\* The whole of a list, and what is put behind nothing.
LEMMA WholeList ==
  ASSUME NEW C, NEW t \in Seq(C)
  PROVE  SubSeq(t, 1, Len(t)) = t /\ SubSeq(t, 1, 0) = <<>> /\ t \o <<>> = t
  OBVIOUS

-----------------------------------------------------------------------------
(* Induction over the numbers, and FlattenSeq, which is defined by a          *)
(* recursive function.                                                      *)

\* The least of a set of numbers: of the intervals from 1 to one of them, one is
\* the smallest set.
LEMMA LeastNumber ==
  ASSUME NEW T, T \subseteq Nat, T # {}
  PROVE  \E n \in T : \A m \in T : n <= m
<1> DEFINE W == {1 .. n : n \in T}
           R == StrictSubsetOrdering(Nat)
<1>1. W \subseteq FiniteSubsetsOf(Nat) /\ W # {}
  <2>1. \A n \in T : IsFiniteSet(1 .. n) /\ 1 .. n \subseteq Nat
    BY FS_Interval
  <2>2. QED
    BY <2>1 DEF FiniteSubsetsOf
<1>2. IsWellFoundedOn(R, FiniteSubsetsOf(Nat))
  BY FS_StrictSubsetOrderingWellFounded
<1>3. PICK x \in W : \A y \in W : <<y, x>> \notin R
  <2> HIDE DEF R, W
  <2>1. QED
    BY <1>1, <1>2, WFMin
<1>4. PICK n \in T : x = 1 .. n
  OBVIOUS
<1>5. ASSUME NEW m \in T, m < n PROVE FALSE
  <2>1. 1 .. m \in W /\ 1 .. m \in SUBSET Nat /\ 1 .. n \in SUBSET Nat
    OBVIOUS
  <2>2. 1 .. m \subseteq 1 .. n /\ 1 .. m # 1 .. n
    <3>1. n \in 1 .. n /\ n \notin 1 .. m
      BY <1>5
    <3>2. QED
      BY <1>5, <3>1
  <2>3. <<1 .. m, 1 .. n>> \in R
    BY <2>1, <2>2 DEF StrictSubsetOrdering
  <2>4. QED
    BY <1>3, <1>4, <2>1, <2>3
<1>6. QED
  BY <1>5

\* Induction, for the numbers in a set.
LEMMA ByInduction ==
  ASSUME NEW T, 0 \in T, \A n \in Nat : n \in T => n + 1 \in T
  PROVE  Nat \subseteq T
<1> SUFFICES ASSUME Nat \ T # {} PROVE FALSE
  OBVIOUS
<1>1. PICK n \in Nat \ T : \A m \in Nat \ T : n <= m
  BY LeastNumber
<1>2. n # 0 /\ n - 1 \in Nat
  OBVIOUS
<1>3. n - 1 \in T
  BY <1>1, <1>2
<1>4. (n - 1) + 1 \in T
  BY <1>2, <1>3
<1>5. QED
  BY <1>4

\* How FlattenSeq goes on from one member to the next.
Flattens(f, s) == f = [k \in 1 .. Len(s) |-> IF k = 1 THEN s[k] ELSE f[k - 1] \o s[k]]

\* FlattenSeq, by the function of its definition.
LEMMA FlattenBy ==
  ASSUME NEW s, Len(s) # 0
  PROVE  FlattenSeq(s) = (CHOOSE f : Flattens(f, s))[Len(s)]
  BY DEF FlattenSeq, Flattens
\* The same up to the n-th member.
FlattensUpTo(f, s, X, n) ==
  /\ f \in [1 .. n -> Seq(X)]
  /\ \A k \in 1 .. n : f[k] = IF k = 1 THEN s[k] ELSE f[k - 1] \o s[k]

\* There is such a function for every list of lists.
LEMMA FlattenExists ==
  ASSUME NEW X, NEW s \in Seq(Seq(X))
  PROVE  \E f : Flattens(f, s) /\ f \in [1 .. Len(s) -> Seq(X)]
<1> DEFINE T == {n \in Nat : n <= Len(s) => \E f : FlattensUpTo(f, s, X, n)}
<1>0. Len(s) \in Nat /\ \A k \in 1 .. Len(s) : s[k] \in Seq(X)
  OBVIOUS
<1>1. 0 \in T
  <2>1. FlattensUpTo([k \in 1 .. 0 |-> <<>>], s, X, 0)
    BY DEF FlattensUpTo
  <2>2. QED
    BY <2>1 DEF T
<1>2. ASSUME NEW n \in Nat, n \in T PROVE n + 1 \in T
  <2>1. SUFFICES ASSUME n + 1 <= Len(s) PROVE \E f : FlattensUpTo(f, s, X, n + 1)
    OBVIOUS
  <2>2. PICK f : FlattensUpTo(f, s, X, n)
    BY <1>0, <1>2, <2>1
  <2> DEFINE last == IF n = 0 THEN s[1] ELSE f[n] \o s[n + 1]
             g == [k \in 1 .. n + 1 |-> IF k <= n THEN f[k] ELSE last]
  <2>3. last \in Seq(X)
    BY <1>0, <2>1, <2>2 DEF FlattensUpTo
  <2>4. g \in [1 .. n + 1 -> Seq(X)]
    BY <2>2, <2>3 DEF FlattensUpTo
  <2>5. ASSUME NEW k \in 1 .. n + 1
        PROVE  g[k] = IF k = 1 THEN s[k] ELSE g[k - 1] \o s[k]
    <3>1. CASE k <= n
      <4>1. g[k] = f[k] /\ (k # 1 => g[k - 1] = f[k - 1])
        BY <3>1
      <4>2. f[k] = IF k = 1 THEN s[k] ELSE f[k - 1] \o s[k]
        <5>1. k \in 1 .. n
          BY <3>1
        <5>2. QED
          BY <2>2, <5>1 DEF FlattensUpTo
      <4>3. QED
        BY <4>1, <4>2
    <3>2. CASE k = n + 1
      <4>1. g[k] = last /\ (n # 0 => g[k - 1] = f[n])
        BY <3>2
      <4>2. QED
        BY <3>2, <4>1
    <3>3. QED
      BY <3>1, <3>2
  <2>6. FlattensUpTo(g, s, X, n + 1)
    BY <2>4, <2>5 DEF FlattensUpTo
  <2>7. QED
    BY <2>6
<1>3. Len(s) \in T
  <2> HIDE DEF T
  <2>1. QED
    BY <1>0, <1>1, <1>2, ByInduction
<1>4. PICK f : FlattensUpTo(f, s, X, Len(s))
  BY <1>0, <1>3
<1>5. Flattens(f, s) /\ f \in [1 .. Len(s) -> Seq(X)]
  BY <1>4 DEF Flattens, FlattensUpTo
<1>6. QED
  BY <1>5

\* The values of two such functions agree as far as their lists do.
LEMMA FlattenAgree ==
  ASSUME NEW s, NEW t, NEW f, NEW g, Flattens(f, s), Flattens(g, t),
         NEW n \in Nat, Len(s) \in Nat, Len(t) \in Nat, n <= Len(s), n <= Len(t),
         \A k \in 1 .. n : s[k] = t[k]
  PROVE  \A k \in 1 .. n : f[k] = g[k]
<1> DEFINE T == {k \in Nat : k \in 1 .. n => f[k] = g[k]}
<1>1. 0 \in T
  OBVIOUS
<1>2. ASSUME NEW k \in Nat, k \in T PROVE k + 1 \in T
  <2>1. SUFFICES ASSUME k + 1 \in 1 .. n PROVE f[k + 1] = g[k + 1]
    OBVIOUS
  <2>2. /\ k + 1 \in 1 .. Len(s) /\ k + 1 \in 1 .. Len(t) /\ s[k + 1] = t[k + 1]
        /\ (k + 1) - 1 = k
    BY <2>1
  <2>3. /\ f[k + 1] = IF k + 1 = 1 THEN s[k + 1] ELSE f[k] \o s[k + 1]
        /\ g[k + 1] = IF k + 1 = 1 THEN t[k + 1] ELSE g[k] \o t[k + 1]
    BY <2>2, ZenonT(60) DEF Flattens
  <2>4. CASE k = 0
    BY <2>2, <2>3, <2>4
  <2>5. CASE k # 0
    <3>1. f[k] = g[k]
      BY <1>2, <2>1, <2>5
    <3>2. QED
      BY <2>2, <2>3, <3>1
  <2>6. QED
    BY <2>4, <2>5
<1>3. Nat \subseteq T
  <2> HIDE DEF T
  <2>1. QED
    BY <1>1, <1>2, ByInduction
<1>4. QED
  BY <1>3

\* What FlattenSeq gives: a list, and with a member more at the end, the same
\* list and that member.
LEMMA Flattened ==
  ASSUME NEW X, NEW s \in Seq(Seq(X))
  PROVE  /\ FlattenSeq(s) \in Seq(X)
         /\ s = <<>> => FlattenSeq(s) = <<>>
         /\ \A last \in Seq(X) : FlattenSeq(Append(s, last)) = FlattenSeq(s) \o last
<1> DEFINE F(t) == CHOOSE f : Flattens(f, t)
<1>1. ASSUME NEW t \in Seq(Seq(X)), t # <<>>
      PROVE  /\ Flattens(F(t), t) /\ F(t) \in [1 .. Len(t) -> Seq(X)]
             /\ FlattenSeq(t) = F(t)[Len(t)] /\ FlattenSeq(t) \in Seq(X)
  <2>1. PICK f : Flattens(f, t) /\ f \in [1 .. Len(t) -> Seq(X)]
    BY FlattenExists
  <2>2. Flattens(F(t), t)
    BY <2>1
  <2> HIDE DEF F
  <2>3. Len(t) \in Nat /\ Len(t) # 0
    BY <1>1
  <2>4. \A k \in 1 .. Len(t) : F(t)[k] = f[k]
    BY <2>1, <2>2, <2>3, FlattenAgree
  <2>5. F(t) \in [1 .. Len(t) -> Seq(X)]
    <3>1. F(t) = [k \in 1 .. Len(t) |-> F(t)[k]]
      BY <2>2 DEF Flattens
    <3>2. QED
      BY <2>1, <2>4, <3>1
  <2>6. FlattenSeq(t) = F(t)[Len(t)]
    BY <2>3, FlattenBy DEF F
  <2>7. F(t)[Len(t)] \in Seq(X)
    <3>1. Len(t) \in 1 .. Len(t)
      BY <2>3
    <3>2. QED
      BY <2>5, <3>1
  <2>8. QED
    BY <2>2, <2>5, <2>6, <2>7
<1> HIDE DEF F
<1>2. s = <<>> => FlattenSeq(s) = <<>>
  BY DEF FlattenSeq
<1>3. FlattenSeq(s) \in Seq(X)
  BY <1>1, <1>2
<1>4. ASSUME NEW last \in Seq(X)
      PROVE  FlattenSeq(Append(s, last)) = FlattenSeq(s) \o last
  <2>0. PICK n \in Nat : n = Len(s)
    OBVIOUS
  <2>1. PICK t : t = Append(s, last)
    OBVIOUS
  <2>2. /\ t \in Seq(Seq(X)) /\ Len(t) = n + 1 /\ t[n + 1] = last
        /\ \A k \in 1 .. n : t[k] = s[k]
    BY <2>0, <2>1
  <2>3. t # <<>>
    BY <2>2
  <2>4. /\ Flattens(F(t), t) /\ FlattenSeq(t) = F(t)[n + 1]
    BY <1>1, <2>2, <2>3
  <2>5. F(t)[n + 1] = IF n + 1 = 1 THEN t[n + 1] ELSE F(t)[(n + 1) - 1] \o t[n + 1]
    <3>1. n + 1 \in 1 .. Len(t)
      BY <2>2
    <3>2. QED
      BY <2>4, <3>1 DEF Flattens
  <2>6. CASE n = 0
    <3>1. F(t)[n + 1] = t[n + 1]
      BY <2>5, <2>6
    <3>2. s = <<>>
      <4>1. Len(s) = 0
        BY <2>0, <2>6
      <4>2. QED
        BY <4>1
    <3>3. FlattenSeq(s) \o last = last
      BY <1>2, <3>2
    <3>4. QED
      BY <2>1, <2>2, <2>4, <3>1, <3>3
  <2>7. CASE n # 0
    <3>1. /\ Flattens(F(s), s) /\ FlattenSeq(s) = F(s)[n]
      BY <1>1, <2>0, <2>7
    <3>2. \A k \in 1 .. n : F(t)[k] = F(s)[k]
      <4>1. PICK f : f = F(t)
        OBVIOUS
      <4>2. PICK g : g = F(s)
        OBVIOUS
      <4>3. /\ Flattens(f, t) /\ Flattens(g, s) /\ Len(s) \in Nat /\ Len(t) \in Nat
            /\ n <= Len(s) /\ n <= Len(t)
        BY <2>0, <2>2, <2>4, <3>1, <4>1, <4>2
      <4>4. \A k \in 1 .. n : f[k] = g[k]
        <5>1. \A k \in 1 .. n : t[k] = s[k]
          BY <2>2
        <5>2. QED
          BY <4>3, <5>1, FlattenAgree, SMTT(60)
      <4>5. QED
        BY <4>1, <4>2, <4>4
    <3>3. F(t)[n] = F(s)[n] /\ (n + 1) - 1 = n
      BY <2>7, <3>2
    <3>4. F(t)[n + 1] = F(t)[n] \o last
      <4>1. n + 1 # 1
        BY <2>7
      <4>2. F(t)[n + 1] = F(t)[(n + 1) - 1] \o t[n + 1]
        BY <2>5, <4>1
      <4>3. QED
        BY <2>2, <3>3, <4>2
    <3>5. QED
      BY <2>1, <2>4, <3>1, <3>3, <3>4
  <2>8. QED
    BY <2>6, <2>7
<1>5. QED
  BY <1>2, <1>3, <1>4

\* A recursive function exists whose steps stay in a set.
LEMMA Unrolled ==
  ASSUME NEW V, NEW b \in V, NEW n \in Nat, NEW g \in [1 .. n -> [V -> V]]
  PROVE  \E f \in [0 .. n -> V] : f[0] = b /\ \A k \in 1 .. n : f[k] = g[k][f[k - 1]]
<1> DEFINE T == {m \in Nat : m <= n => \E f \in [0 .. n -> V] :
                                         f[0] = b /\ \A k \in 1 .. m : f[k] = g[k][f[k - 1]]}
<1>1. 0 \in T
  <2>1. PICK f : f = [k \in 0 .. n |-> b]
    OBVIOUS
  <2>2. f \in [0 .. n -> V] /\ f[0] = b
    BY <2>1
  <2>3. QED
    BY <2>2
<1>2. ASSUME NEW m \in Nat, m \in T PROVE m + 1 \in T
  <2>1. SUFFICES ASSUME m + 1 <= n
                 PROVE  \E f \in [0 .. n -> V] :
                          f[0] = b /\ \A k \in 1 .. m + 1 : f[k] = g[k][f[k - 1]]
    OBVIOUS
  <2>2. PICK f \in [0 .. n -> V] : f[0] = b /\ \A k \in 1 .. m : f[k] = g[k][f[k - 1]]
    BY <1>2, <2>1
  <2>3. PICK x : x = g[m + 1][f[m]]
    OBVIOUS
  <2>4. x \in V
    <3>1. m + 1 \in 1 .. n /\ m \in 0 .. n
      BY <2>1
    <3>2. g[m + 1] \in [V -> V] /\ f[m] \in V
      BY <3>1
    <3>3. QED
      BY <2>3, <3>2
  <2>5. PICK h : h = [k \in 0 .. n |-> IF k = m + 1 THEN x ELSE f[k]]
    OBVIOUS
  <2>6. h \in [0 .. n -> V] /\ h[0] = b
    BY <2>2, <2>4, <2>5
  <2>7. ASSUME NEW k \in 1 .. m + 1 PROVE h[k] = g[k][h[k - 1]]
    <3>1. h[k - 1] = f[k - 1]
      BY <2>1, <2>5
    <3>2. CASE k = m + 1
      BY <2>1, <2>3, <2>5, <3>1, <3>2
    <3>3. CASE k # m + 1
      <4>1. k \in 1 .. m /\ h[k] = f[k]
        BY <2>1, <2>5, <3>3
      <4>2. QED
        BY <2>2, <3>1, <4>1
    <3>4. QED
      BY <3>2, <3>3
  <2>8. QED
    BY <2>6, <2>7
<1>3. n \in T
  <2> HIDE DEF T
  <2>1. QED
    BY <1>1, <1>2, ByInduction
<1>4. QED
  BY <1>3

\* The smaller of two numbers.
LEMMA TheSmaller ==
  ASSUME NEW a \in Nat, NEW b \in Nat
  PROVE  Min({a, b}) = IF a <= b THEN a ELSE b
<1>1. CASE a <= b
  <2>1. a \in {a, b} /\ \A y \in {a, b} : a <= y
    BY <1>1
  <2>2. \A x \in {a, b} : (\A y \in {a, b} : x <= y) => x = a
    BY <1>1
  <2>3. QED
    BY <1>1, <2>1, <2>2 DEF Min
<1>2. CASE ~(a <= b)
  <2>1. b \in {a, b} /\ \A y \in {a, b} : b <= y
    BY <1>2
  <2>2. \A x \in {a, b} : (\A y \in {a, b} : x <= y) => x = b
    BY <1>2
  <2>3. QED
    BY <1>2, <2>1, <2>2 DEF Min
<1>3. QED
  BY <1>1, <1>2

\* A list between two more members.
LEMMA Between ==
  ASSUME NEW C, NEW t \in Seq(C), NEW x \in C, NEW y \in C
  PROVE  /\ <<x>> \o t \o <<y>> \in Seq(C)
         /\ Len(<<x>> \o t \o <<y>>) = Len(t) + 2
         /\ (<<x>> \o t \o <<y>>)[1] = x
         /\ \A k \in 1 .. Len(t) : (<<x>> \o t \o <<y>>)[k + 1] = t[k]
<1>1. PICK n \in Nat : n = Len(t)
  OBVIOUS
<1>2. PICK a : a = <<x>> \o t
  OBVIOUS
<1>3. a \in Seq(C) /\ Len(a) = n + 1 /\ a[1] = x /\ \A k \in 1 .. n : a[k + 1] = t[k]
  BY <1>1, <1>2
<1>4. PICK b : b = a \o <<y>>
  OBVIOUS
<1>5. b \in Seq(C) /\ Len(b) = n + 2 /\ \A k \in 1 .. n + 1 : b[k] = a[k]
  BY <1>3, <1>4
<1>6. b[1] = x /\ \A k \in 1 .. n : b[k + 1] = t[k]
  BY <1>3, <1>5
<1>7. QED
  BY <1>1, <1>2, <1>4, <1>5, <1>6

-----------------------------------------------------------------------------
(* Lists put together and cut, and the numbers that say where.               *)

\* What a quotient is.
LEMMA Quotient ==
  ASSUME NEW a \in Nat, NEW r \in Nat \ {0}
  PROVE  a \div r \in Nat /\ (a \div r) * r <= a /\ a < (a \div r) * r + r
  OBVIOUS

\* The same number of times less is not more.
LEMMA Multiples ==
  ASSUME NEW a \in Nat, NEW b \in Nat, NEW r \in Nat, a <= b
  PROVE  a * r \in Nat /\ a * r <= b * r
<1>1. PICK c \in Nat : b = a + c
  OBVIOUS
<1>2. b * r = a * r + c * r
  BY <1>1
<1>3. c * r \in Nat /\ a * r \in Nat
  OBVIOUS
<1>4. QED
  BY <1>2, <1>3

\* Parts of two lists put together.
LEMMA LeftPart ==
  ASSUME NEW C, NEW a \in Seq(C), NEW b \in Seq(C), NEW at \in Nat \ {0}, NEW j \in Nat,
         j <= Len(a)
  PROVE  SubSeq(a \o b, at, j) = SubSeq(a, at, j)
  OBVIOUS

\* The part that lies in the second.
LEMMA RightPart ==
  ASSUME NEW C, NEW a \in Seq(C), NEW b \in Seq(C), NEW at \in Nat \ {0}, NEW j \in Nat,
         j <= Len(b)
  PROVE  SubSeq(a \o b, Len(a) + at, Len(a) + j) = SubSeq(b, at, j)
  OBVIOUS

\* Two lists put together are the list that has the members of both in order.
LEMMA PutTogether ==
  ASSUME NEW C, NEW a \in Seq(C), NEW b \in Seq(C), NEW t \in Seq(C), Len(t) = Len(a) + Len(b),
         \A k \in 1 .. Len(a) : t[k] = a[k], \A k \in 1 .. Len(b) : t[Len(a) + k] = b[k]
  PROVE  a \o b = t
<1>1. PICK m \in Nat, n \in Nat : m = Len(a) /\ n = Len(b)
  OBVIOUS
<1>2. PICK w : w = a \o b
  OBVIOUS
<1>3. w \in Seq(C) /\ Len(w) = m + n /\ (\A k \in 1 .. m : w[k] = a[k]) /\ \A k \in m + 1 .. m + n : w[k] = b[k - m]
  BY <1>1, <1>2
<1>4. ASSUME NEW k \in 1 .. m + n PROVE w[k] = t[k]
  <2>1. CASE k <= m
    BY <1>1, <1>3, <2>1
  <2>2. CASE ~(k <= m)
    <3>1. k \in m + 1 .. m + n /\ k - m \in 1 .. n /\ m + (k - m) = k
      BY <2>2, <1>4
    <3>2. w[k] = b[k - m] /\ t[m + (k - m)] = b[k - m]
      BY <3>1, <1>1, <1>3
    <3>3. QED
      BY <3>1, <3>2
  <2>3. QED
    BY <2>1, <2>2
<1>5. w = t
  BY <1>1, <1>3, <1>4, SameMembers
<1>6. QED
  BY <1>2, <1>5

\* A part of a list, member by member.
LEMMA Piece ==
  ASSUME NEW C, NEW a \in Seq(C), NEW at \in Nat, NEW j \in Nat, at <= j, j <= Len(a)
  PROVE  /\ SubSeq(a, at + 1, j) \in Seq(C) /\ Len(SubSeq(a, at + 1, j)) = j - at
         /\ \A k \in 1 .. j - at : SubSeq(a, at + 1, j)[k] = a[at + k]
  OBVIOUS

\* Two parts that follow each other, put together.
LEMMA CutApart ==
  ASSUME NEW C, NEW a \in Seq(C), NEW at \in Nat, NEW j \in Nat, NEW l \in Nat, at <= j, j <= l,
         l <= Len(a)
  PROVE  SubSeq(a, at + 1, j) \o SubSeq(a, j + 1, l) = SubSeq(a, at + 1, l)
<1>1. PICK u, v, w : u = SubSeq(a, at + 1, j) /\ v = SubSeq(a, j + 1, l) /\ w = SubSeq(a, at + 1, l)
  OBVIOUS
<1>2. u \in Seq(C) /\ Len(u) = j - at /\ \A k \in 1 .. j - at : u[k] = a[at + k]
  BY <1>1, Piece
<1>3. v \in Seq(C) /\ Len(v) = l - j /\ \A k \in 1 .. l - j : v[k] = a[j + k]
  <2>1. j <= l /\ l <= Len(a)
    OBVIOUS
  <2>2. QED
    BY <1>1, <2>1, Piece
<1>4. w \in Seq(C) /\ Len(w) = l - at /\ \A k \in 1 .. l - at : w[k] = a[at + k]
  <2>1. at <= l
    OBVIOUS
  <2>2. QED
    BY <1>1, <2>1, Piece
<1>5. \A k \in 1 .. Len(u) : w[k] = u[k]
  BY <1>2, <1>4
<1>6. \A k \in 1 .. Len(v) : w[Len(u) + k] = v[k]
  <2> SUFFICES ASSUME NEW k \in 1 .. l - j PROVE w[Len(u) + k] = v[k]
    BY <1>3
  <2>1. (j - at) + k \in 1 .. l - at /\ at + ((j - at) + k) = j + k
    OBVIOUS
  <2>2. w[(j - at) + k] = a[at + ((j - at) + k)]
    BY <1>4, <2>1
  <2>3. QED
    BY <1>2, <1>3, <2>1, <2>2
<1>7. Len(w) = Len(u) + Len(v)
  BY <1>2, <1>3, <1>4
<1>8. u \o v = w
  BY <1>2, <1>3, <1>4, <1>5, <1>6, <1>7, PutTogether
<1>9. QED
  BY <1>1, <1>8

\* Lists put together from either side.
LEMMA Associated ==
  ASSUME NEW C, NEW a \in Seq(C), NEW b \in Seq(C), NEW c \in Seq(C)
  PROVE  (a \o b) \o c = a \o (b \o c)
  BY SMTT(60)

\* A part of a part.
LEMMA SubPart ==
  ASSUME NEW C, NEW a \in Seq(C), NEW at \in Nat, NEW j \in Nat, at <= j, j <= Len(a),
         NEW k \in Nat, NEW l \in Nat, l <= j - at
  PROVE  SubSeq(SubSeq(a, at + 1, j), k + 1, l) = SubSeq(a, at + k + 1, at + l)
  OBVIOUS

\* The first of a part.
LEMMA PartsHead ==
  ASSUME NEW C, NEW a \in Seq(C), NEW at \in Nat, NEW j \in Nat, at <= j, j <= Len(a),
         NEW m \in Nat, m <= j - at
  PROVE  SubSeq(SubSeq(a, at + 1, j), 1, m) = SubSeq(a, at + 1, at + m)
  OBVIOUS

\* Two lists put together, member by member.
LEMMA ListsJoined ==
  ASSUME NEW C, NEW a \in Seq(C), NEW b \in Seq(C)
  PROVE  /\ a \o b \in Seq(C) /\ Len(a \o b) = Len(a) + Len(b)
         /\ \A n \in 1 .. Len(a) : (a \o b)[n] = a[n]
         /\ \A n \in 1 .. Len(b) : (a \o b)[Len(a) + n] = b[n]
  OBVIOUS

\* w is a, then b.
Join(a, b, w) ==
  /\ Len(w) = Len(a) + Len(b)
  /\ \A n \in 1 .. Len(a) : w[n] = a[n]
  /\ \A n \in 1 .. Len(b) : w[Len(a) + n] = b[n]

\* The same, under a name.
LEMMA JoinedAs ==
  ASSUME NEW C, NEW a \in Seq(C), NEW b \in Seq(C)
  PROVE  a \o b \in Seq(C) /\ Join(a, b, a \o b)
  BY ListsJoined DEF Join

\* A list that is two longer ends with t.
EndsIn(us, t, fr) == Len(fr) = Len(us) + 2 /\ fr[Len(us) + 2] = t

\* A list between two more members ends with the second.
LEMMA EndsWith ==
  ASSUME NEW C, NEW us \in Seq(C), NEW h \in C, NEW t \in C
  PROVE  EndsIn(us, t, <<h>> \o us \o <<t>>)
<1>1. PICK g, z : g = <<h>> \o us /\ z = <<t>>
  OBVIOUS
<1>2. g \in Seq(C) /\ Len(g) = Len(us) + 1
  BY <1>1
<1>3. z \in Seq(C) /\ Len(z) = 1 /\ z[1] = t
  BY <1>1
<1>4. Join(g, z, g \o z)
  BY <1>2, <1>3, JoinedAs
<1>5. PICK n \in Nat : n = Len(us)
  OBVIOUS
<1>6. PICK w : w = g \o z
  OBVIOUS
<1>7. Len(w) = (n + 1) + 1 /\ w[(n + 1) + 1] = t
  BY <1>2, <1>3, <1>4, <1>5, <1>6 DEF Join
<1>8. (n + 1) + 1 = n + 2
  BY <1>5
<1>9. w = <<h>> \o us \o <<t>>
  BY <1>1, <1>6
<1>10. QED
  BY <1>5, <1>7, <1>8, <1>9 DEF EndsIn

\* What is out, then what is left and an end, are a head, members and the end.
Framed(h, us, t, out, vs) == out \o (vs \o <<t>>) = <<h>> \o us \o <<t>>

\* What is out are the head and the first a of the members, and what is left the others.
Headed(h, us, out, vs, a) ==
  a < Len(us) /\ out = <<h>> \o SubSeq(us, 1, a) /\ vs = SubSeq(us, a + 1, Len(us))

\* Then what is out is the head and the first members, and what is left the others.
LEMMA HeadOff ==
  ASSUME NEW C, NEW h \in C, NEW t \in C, NEW us \in Seq(C), NEW vs \in Seq(C), NEW out \in Seq(C),
         Len(vs) # 0, vs[1] # h, Framed(h, us, t, out, vs)
  PROVE  \E a \in Nat : Headed(h, us, out, vs, a)
<1> SUFFICES \E a \in Nat : /\ a < Len(us) /\ out = <<h>> \o SubSeq(us, 1, a)
                            /\ vs = SubSeq(us, a + 1, Len(us))
  BY DEF Headed
<1>1. PICK m \in Nat, v \in Nat, o \in Nat : m = Len(us) /\ v = Len(vs) /\ o = Len(out)
  OBVIOUS
<1>2. PICK fr : fr = <<h>> \o us \o <<t>>
  OBVIOUS
<1>3. fr \in Seq(C) /\ Len(fr) = m + 2 /\ fr[1] = h /\ \A n \in 1 .. m : fr[n + 1] = us[n]
  BY <1>1, <1>2, Between
<1>4. PICK w : w = vs \o <<t>>
  OBVIOUS
<1>5. <<t>> \in Seq(C) /\ Len(<<t>>) = 1
  OBVIOUS
<1>6. w \in Seq(C) /\ Len(w) = v + 1 /\ \A n \in 1 .. v : w[n] = vs[n]
  <2>1. PICK e : e = <<t>>
    OBVIOUS
  <2>2. e \in Seq(C) /\ Len(e) = 1
    BY <1>5, <2>1
  <2>3. vs \o e \in Seq(C) /\ Join(vs, e, vs \o e)
    BY <2>2, JoinedAs
  <2>4. w = vs \o e
    BY <1>4, <2>1
  <2>5. w \in Seq(C) /\ Join(vs, e, w)
    BY <2>3, <2>4
  <2>6. QED
    BY <1>1, <2>2, <2>5 DEF Join
<1>7. fr = out \o w
  BY <1>2, <1>4 DEF Framed
<1>8. Len(fr) = o + (v + 1) /\ (\A n \in 1 .. o : fr[n] = out[n]) /\ \A n \in 1 .. v + 1 : fr[o + n] = w[n]
  <2>1. w \in Seq(C)
    BY <1>6
  <2>2. Join(out, w, out \o w)
    BY <2>1, JoinedAs
  <2>3. Join(out, w, fr)
    BY <1>7, <2>2
  <2>4. Len(out) = o /\ Len(w) = v + 1
    BY <1>1, <1>6
  <2>5. QED
    BY <2>3, <2>4 DEF Join
<1>9. o # 0 /\ o + v = m + 1
  <2>1. o + v = m + 1 /\ 1 \in 1 .. v /\ 1 \in 1 .. v + 1
    <3>1. m + 2 = o + (v + 1)
      BY <1>3, <1>8
    <3>2. v # 0
      BY <1>1
    <3>3. 1 \in 1 .. v /\ 1 \in 1 .. v + 1
      BY <3>2
    <3>4. QED
      BY <3>1, <3>3
  <2>2. ASSUME o = 0 PROVE FALSE
    <3>1. o + 1 = 1
      BY <2>2
    <3>2. fr[o + 1] = w[1] /\ w[1] = vs[1]
      BY <1>6, <1>8, <2>1
    <3>3. QED
      BY <1>3, <3>1, <3>2
  <2>3. QED
    BY <2>1, <2>2
<1>10. PICK a \in Nat : a + 1 = o /\ a + v = m /\ a < m
  <2>1. o - 1 \in Nat
    BY <1>9
  <2>2. v # 0
    BY <1>1
  <2>3. QED
    BY <1>9, <2>1, <2>2
<1>11. PICK p : p = SubSeq(us, 1, a)
  OBVIOUS
<1>12. p \in Seq(C) /\ Len(p) = a /\ \A n \in 1 .. a : p[n] = us[n]
  BY <1>1, <1>10, <1>11
<1>13. PICK g : g = <<h>> \o p
  OBVIOUS
<1>14. g \in Seq(C) /\ Len(g) = a + 1 /\ g[1] = h /\ \A n \in 1 .. a : g[1 + n] = p[n]
  <2>1. <<h>> \in Seq(C) /\ Len(<<h>>) = 1 /\ <<h>>[1] = h /\ 1 \in 1 .. 1
    OBVIOUS
  <2>2. PICK q : q = <<h>>
    OBVIOUS
  <2>3. q \in Seq(C) /\ Len(q) = 1 /\ q[1] = h /\ g = q \o p
    BY <1>13, <2>1, <2>2
  <2>4. p \in Seq(C) /\ q \in Seq(C)
    BY <1>12, <2>3
  <2>5. q \o p \in Seq(C) /\ Join(q, p, q \o p)
    BY <2>4, JoinedAs
  <2>6. g \in Seq(C) /\ Join(q, p, g)
    BY <2>3, <2>5
  <2>7. Len(q) = 1 /\ Len(p) = a /\ q[1] = h
    BY <1>12, <2>3
  <2>8. QED
    BY <2>6, <2>7 DEF Join
<1>15. ASSUME NEW n \in 1 .. o PROVE out[n] = g[n]
  <2>1. CASE n = 1
    BY <1>3, <1>8, <1>14, <2>1
  <2>2. CASE n # 1
    <3>1. n - 1 \in 1 .. a /\ n - 1 \in 1 .. m /\ n = (n - 1) + 1 /\ n = 1 + (n - 1)
      BY <1>10, <2>2
    <3>2. fr[n] = us[n - 1] /\ g[n] = p[n - 1] /\ p[n - 1] = us[n - 1]
      BY <1>3, <1>12, <1>14, <3>1
    <3>3. QED
      BY <1>8, <3>2
  <2>3. QED
    BY <2>1, <2>2
<1>16. out = g
  BY <1>1, <1>10, <1>14, <1>15, SameMembers
<1>17. PICK q : q = SubSeq(us, a + 1, m)
  OBVIOUS
<1>18. q \in Seq(C) /\ Len(q) = m - a /\ \A n \in 1 .. m - a : q[n] = us[a + n]
  <2>1. a <= m /\ m <= Len(us)
    BY <1>1, <1>10
  <2>2. QED
    BY <1>1, <1>17, <2>1, Piece
<1>19. ASSUME NEW n \in 1 .. v PROVE vs[n] = q[n]
  <2>1. n \in 1 .. m - a /\ a + n \in 1 .. m /\ n \in 1 .. v + 1 /\ o + n = (a + n) + 1
    BY <1>10
  <2>2. fr[(a + n) + 1] = us[a + n]
    BY <1>3, <2>1
  <2>3. fr[o + n] = w[n] /\ w[n] = vs[n]
    BY <1>6, <1>8, <2>1
  <2>4. q[n] = us[a + n]
    BY <1>18, <2>1
  <2>5. fr[o + n] = fr[(a + n) + 1]
    BY <2>1
  <2>6. QED
    BY <2>2, <2>3, <2>4, <2>5
<1>20. vs = q
  <2>1. Len(vs) = Len(q)
    <3>1. m - a = v
      BY <1>10
    <3>2. Len(vs) = v
      BY <1>1
    <3>3. Len(q) = m - a
      BY <1>18
    <3>4. QED
      BY <3>1, <3>2, <3>3
  <2>2. QED
    BY <1>1, <1>18, <1>19, <2>1, SameMembers
<1>21. QED
  BY <1>1, <1>10, <1>11, <1>13, <1>16, <1>17, <1>20
=============================================================================
