------------------------------ MODULE Snapshots ------------------------------
(* The guarded half of the notifications of metaproto.c and param.c: the     *)
(* callbacks of a list that match are copied into an array, to be called     *)
(* after the lock is released.                                              *)
EXTENDS Naturals

\* Of the positions ps of a list the first ones, in list order, cut at the capacity n
\* of the array (the array, as the one member of a set).
FirstOf(ps, n) ==
  {f \in UNION {[1 .. k -> ps] : k \in 0 .. n} :
     /\ \A i, j \in DOMAIN f : i < j => f[i] < f[j]
     /\ \A p \in ps :
          \/ \E i \in DOMAIN f : f[i] = p
          \/ DOMAIN f = 1 .. n /\ \A i \in DOMAIN f : f[i] < p}
=============================================================================
