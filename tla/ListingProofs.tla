---------------------------- MODULE ListingProofs ----------------------------
(***************************************************************************)
(* What the sort of the ls programs does to any list, and from it the two  *)
(* invariants of Listing, for any directories, names, flags and operands,  *)
(* whatever other processes create, delete and remove meanwhile.           *)
(***************************************************************************)
EXTENDS Listing, FiniteSetTheorems, FunctionTheorems, SequenceTheorems, WellFoundedInduction, TLAPS

---------------------------------------------------------------------------
(* Induction up to n.                                                      *)

LEMMA SomeLeast ==
  ASSUME NEW T \in SUBSET Nat, T # {}
  PROVE  \E x \in T : \A y \in T : x <= y
<1>1. PICK x \in T : \A y \in T : ~(<<y, x>> \in OpToRel(<, Nat))
  BY NatLessThanWellFounded, WFMin
<1>2. \A y \in T : y \in Nat /\ x \in Nat /\ ~(y < x)  BY <1>1 DEF OpToRel
<1> QED  BY <1>2

LEMMA Upward ==
  ASSUME NEW m \in Nat, NEW n \in Nat, m <= n, NEW G,
         m \in G, \A k \in m .. n - 1 : k \in G => k + 1 \in G
  PROVE  \A k \in m .. n : k \in G
<1> DEFINE T == {k \in m .. n : k \notin G}
<1> SUFFICES ASSUME T # {} PROVE FALSE  OBVIOUS
<1>1. PICK x \in T : \A y \in T : x <= y
  <2>1. T \in SUBSET Nat  OBVIOUS
  <2> HIDE DEF T
  <2> QED  BY <2>1, SomeLeast
<1>2. x \in m .. n /\ x # m /\ x \notin G  BY <1>1
<1>3. x - 1 \in m .. n - 1 /\ x - 1 \in m .. n /\ ~(x <= x - 1) /\ (x - 1) + 1 = x  BY <1>2
<1>4. x - 1 \in G  BY <1>1, <1>3
<1> QED  BY <1>2, <1>3, <1>4

---------------------------------------------------------------------------
(* The sort.  Its result has the elements of its argument, each as often,  *)
(* and no pair that ought to be swapped, if no comparison has failed.      *)

Permuted(s, t) ==
  /\ Len(t) = Len(s)
  /\ \E f \in Bijection(1 .. Len(s), 1 .. Len(s)) : \A i \in 1 .. Len(s) : t[i] = s[f[i]]

Orders(swap, V) ==
  \A x, y, z \in V :
    /\ <<x, y>> \in swap => <<y, x>> \notin swap
    /\ <<x, y>> \notin swap /\ <<y, z>> \notin swap => <<x, z>> \notin swap

NoFailure(s, fail) == \A x, y \in ToSet(s) : <<x, y>> \notin fail

(* The pairs compared before p is with what is behind q are in order.      *)
Done(t, p, q, swap) ==
  \A i, m \in 1 .. Len(t) :
    i < m /\ (i < p \/ (i = p /\ m <= q)) => <<t[i], t[m]>> \notin swap

SortedTo(a, s, V, p, q, swap, fail) ==
  /\ a = [arr |-> a.arr, stop |-> a.stop] /\ a.arr \in Seq(V) /\ Permuted(s, a.arr)
  /\ Orders(swap, V) /\ NoFailure(s, fail) => ~a.stop /\ Done(a.arr, p, q, swap)

Turned(t, p, q) == [t EXCEPT ![p] = t[q], ![q] = t[p]]

LEMMA TurnedIs ==
  ASSUME NEW V, NEW t \in Seq(V), NEW p \in 1 .. Len(t), NEW q \in 1 .. Len(t), p # q
  PROVE  /\ Turned(t, p, q) \in Seq(V) /\ Len(Turned(t, p, q)) = Len(t)
         /\ Turned(t, p, q)[p] = t[q] /\ Turned(t, p, q)[q] = t[p]
         /\ \A i \in 1 .. Len(t) : i # p /\ i # q => Turned(t, p, q)[i] = t[i]
<1>1. DOMAIN t = 1 .. Len(t) /\ Len(t) \in Nat /\ t \in [1 .. Len(t) -> V]  BY LenProperties
<1>2. Turned(t, p, q) \in [1 .. Len(t) -> V]  BY <1>1 DEF Turned
<1>3. Turned(t, p, q) \in Seq(V) /\ Len(Turned(t, p, q)) = Len(t)
  BY <1>1, <1>2, IsASeq, LenProperties
<1> QED  BY <1>1, <1>3 DEF Turned

LEMMA TurnedPermuted ==
  ASSUME NEW V, NEW s \in Seq(V), NEW t \in Seq(V), Permuted(s, t),
         NEW p \in 1 .. Len(t), NEW q \in 1 .. Len(t), p # q
  PROVE  Permuted(s, Turned(t, p, q))
<1> DEFINE n == Len(s)
<1>1. Len(t) = n /\ n \in Nat  BY LenProperties DEF Permuted
<1>2. PICK f \in Bijection(1 .. n, 1 .. n) : \A i \in 1 .. n : t[i] = s[f[i]]  BY DEF Permuted
<1> DEFINE g == [i \in 1 .. n |-> IF i = p THEN f[q] ELSE IF i = q THEN f[p] ELSE f[i]]
<1>3. f \in [1 .. n -> 1 .. n] /\ (\A i, m \in 1 .. n : f[i] = f[m] => i = m)
      /\ (\A v \in 1 .. n : \E i \in 1 .. n : f[i] = v)
  BY <1>2 DEF Bijection, Injection, Surjection, IsInjective
<1>4. g \in [1 .. n -> 1 .. n]  BY <1>1, <1>3
<1>5. ASSUME NEW i \in 1 .. n, NEW m \in 1 .. n, g[i] = g[m] PROVE i = m
  BY <1>1, <1>3, <1>5
<1>6. ASSUME NEW v \in 1 .. n PROVE \E i \in 1 .. n : g[i] = v
  <2>1. PICK i \in 1 .. n : f[i] = v  BY <1>3
  <2>2. CASE i = p  BY <1>1, <2>1, <2>2
  <2>3. CASE i = q  BY <1>1, <2>1, <2>3
  <2>4. CASE i # p /\ i # q  BY <2>1, <2>4
  <2> QED  BY <2>2, <2>3, <2>4
<1>7. g \in Bijection(1 .. n, 1 .. n)
  <2> HIDE DEF g
  <2> QED  BY <1>4, <1>5, <1>6 DEF Bijection, Injection, Surjection, IsInjective
<1>8. \A i \in 1 .. n : Turned(t, p, q)[i] = s[g[i]]
  <2>1. p \in 1 .. n /\ q \in 1 .. n  BY <1>1
  <2>2. /\ Turned(t, p, q)[p] = t[q] /\ Turned(t, p, q)[q] = t[p]
        /\ \A i \in 1 .. n : i # p /\ i # q => Turned(t, p, q)[i] = t[i]
    BY <1>1, TurnedIs
  <2> QED  BY <1>2, <2>1, <2>2
<1>9. Len(Turned(t, p, q)) = n  BY <1>1, TurnedIs
<1> HIDE DEF g
<1> QED  BY <1>7, <1>8, <1>9 DEF Permuted

LEMMA FromTheList ==
  ASSUME NEW V, NEW s \in Seq(V), NEW t \in Seq(V), Permuted(s, t)
  PROVE  ToSet(t) = ToSet(s) /\ \A i \in 1 .. Len(s) : t[i] \in ToSet(s)
<1>1. PICK f \in Bijection(1 .. Len(s), 1 .. Len(s)) : \A i \in 1 .. Len(s) : t[i] = s[f[i]]
  BY DEF Permuted
<1>2. f \in [1 .. Len(s) -> 1 .. Len(s)] /\ \A v \in 1 .. Len(s) : \E i \in 1 .. Len(s) : f[i] = v
  BY <1>1 DEF Bijection, Injection, Surjection
<1>3. DOMAIN s = 1 .. Len(s) /\ DOMAIN t = 1 .. Len(s)  BY LenProperties DEF Permuted
<1>4. \A i \in 1 .. Len(s) : t[i] \in ToSet(s)
  <2> SUFFICES ASSUME NEW i \in 1 .. Len(s) PROVE t[i] \in ToSet(s)  OBVIOUS
  <2>1. f[i] \in 1 .. Len(s) /\ t[i] = s[f[i]]  BY <1>1, <1>2
  <2> QED  BY <1>3, <2>1 DEF ToSet
<1>5. \A v \in 1 .. Len(s) : s[v] \in ToSet(t)
  <2> SUFFICES ASSUME NEW v \in 1 .. Len(s) PROVE s[v] \in ToSet(t)  OBVIOUS
  <2>1. PICK i \in 1 .. Len(s) : f[i] = v  BY <1>2
  <2>2. t[i] = s[v]  BY <1>1, <2>1
  <2> QED  BY <1>3, <2>1, <2>2 DEF ToSet
<1> QED  BY <1>3, <1>4, <1>5 DEF ToSet

LEMMA TurnedDone ==
  ASSUME NEW V, NEW t \in Seq(V), NEW swap, Orders(swap, V),
         NEW p \in 1 .. Len(t), NEW q \in 1 .. Len(t), p < q,
         Done(t, p, q - 1, swap), <<t[p], t[q]>> \in swap
  PROVE  Done(Turned(t, p, q), p, q, swap)
<1> DEFINE u == Turned(t, p, q)
<1>1. /\ Len(u) = Len(t) /\ u[p] = t[q] /\ u[q] = t[p]
      /\ \A i \in 1 .. Len(t) : i # p /\ i # q => u[i] = t[i]
  BY TurnedIs
<1>2. \A i \in 1 .. Len(t) : t[i] \in V  BY LenProperties
<1>3. <<t[q], t[p]>> \notin swap  BY <1>2 DEF Orders
<1> SUFFICES ASSUME NEW i \in 1 .. Len(t), NEW m \in 1 .. Len(t), i < m, i < p \/ (i = p /\ m <= q)
             PROVE  <<u[i], u[m]>> \notin swap
  BY <1>1 DEF Done
<1>4. CASE i < p
  <2>1. u[i] = t[i]  BY <1>1, <1>4
  <2>2. <<t[i], t[p]>> \notin swap /\ <<t[i], t[q]>> \notin swap  BY <1>4 DEF Done
  <2>3. m # p /\ m # q => <<t[i], t[m]>> \notin swap  BY <1>4 DEF Done
  <2> QED  BY <1>1, <2>1, <2>2, <2>3
<1>5. CASE i = p /\ m = q  BY <1>1, <1>3, <1>5
<1>6. CASE i = p /\ m < q
  <2>1. <<t[p], t[m]>> \notin swap  BY <1>6 DEF Done
  <2>2. <<t[q], t[m]>> \notin swap  BY <1>2, <1>3, <2>1 DEF Orders
  <2>3. u[i] = t[q] /\ u[m] = t[m]  BY <1>1, <1>6
  <2> QED  BY <2>2, <2>3
<1> QED  BY <1>4, <1>5, <1>6

LEMMA CompareStep ==
  ASSUME NEW V, NEW s \in Seq(V), NEW swap, NEW fail,
         NEW p \in 1 .. Len(s), NEW q \in 1 .. Len(s), p < q,
         NEW a, SortedTo(a, s, V, p, q - 1, swap, fail)
  PROVE  SortedTo(Compare(a, p, q, swap, fail), s, V, p, q, swap, fail)
<1> DEFINE t == a.arr
           b == Compare(a, p, q, swap, fail)
<1>1. t \in Seq(V) /\ Permuted(s, t) /\ Len(t) = Len(s)  BY DEF SortedTo, Permuted
<1>2. Orders(swap, V) /\ NoFailure(s, fail) => ~a.stop /\ Done(t, p, q - 1, swap)  BY DEF SortedTo
<1>3. CASE a.stop \/ <<t[p], t[q]>> \in fail
  <2>1. b = [arr |-> t, stop |-> TRUE]  BY <1>3 DEF Compare
  <2>2. NoFailure(s, fail) => <<t[p], t[q]>> \notin fail  BY <1>1, FromTheList DEF NoFailure
  <2> QED  BY <1>1, <1>2, <1>3, <2>1, <2>2 DEF SortedTo
<1>4. CASE ~(a.stop \/ <<t[p], t[q]>> \in fail) /\ <<t[p], t[q]>> \in swap
  <2>1. b = [arr |-> Turned(t, p, q), stop |-> FALSE]  BY <1>4 DEF Compare, Turned
  <2>2. Turned(t, p, q) \in Seq(V)  BY <1>1, TurnedIs
  <2>3. Permuted(s, Turned(t, p, q))  BY <1>1, TurnedPermuted
  <2>4. Orders(swap, V) /\ NoFailure(s, fail) => Done(Turned(t, p, q), p, q, swap)
    BY <1>1, <1>2, <1>4, TurnedDone
  <2> QED  BY <2>1, <2>2, <2>3, <2>4 DEF SortedTo
<1>5. CASE ~(a.stop \/ <<t[p], t[q]>> \in fail) /\ <<t[p], t[q]>> \notin swap
  <2>1. b = [arr |-> t, stop |-> FALSE]  BY <1>5 DEF Compare
  <2>2. Done(t, p, q - 1, swap) => Done(t, p, q, swap)
    <3> SUFFICES ASSUME Done(t, p, q - 1, swap), NEW i \in 1 .. Len(t), NEW m \in 1 .. Len(t),
                        i < m, i < p \/ (i = p /\ m <= q)
                 PROVE  <<t[i], t[m]>> \notin swap
      BY DEF Done
    <3>1. CASE i = p /\ m = q  BY <1>5, <3>1
    <3>2. CASE ~(i = p /\ m = q)
      <4>1. i < p \/ (i = p /\ m <= q - 1)  BY <1>1, <3>2
      <4> QED  BY <4>1 DEF Done
    <3> QED  BY <3>1, <3>2
  <2> QED  BY <1>1, <1>2, <2>1, <2>2 DEF SortedTo
<1> QED  BY <1>3, <1>4, <1>5

(* The loops as functions of their counters.                               *)
PassBy(b, a, p, m, swap, fail) ==
  b = [q \in p .. m |-> IF q = p THEN a ELSE Compare(b[q - 1], p, q, swap, fail)]

LEMMA SomePass ==
  ASSUME NEW n \in Nat, NEW p \in 1 .. n, NEW a, NEW swap, NEW fail
  PROVE  \E b : PassBy(b, a, p, n, swap, fail)
<1> DEFINE G == {m \in p .. n : \E b : PassBy(b, a, p, m, swap, fail)}
<1>1. p \in G
  <2> DEFINE b == [q \in p .. p |-> a]
  <2>1. b = [q \in p .. p |-> IF q = p THEN a ELSE Compare(b[q - 1], p, q, swap, fail)]  OBVIOUS
  <2>2. PassBy(b, a, p, p, swap, fail)
    <3> HIDE DEF b
    <3> QED  BY <2>1, Zenon DEF PassBy
  <2> QED  BY <2>2
<1>2. ASSUME NEW m \in p .. n - 1, m \in G PROVE m + 1 \in G
  <2>1. PICK b : PassBy(b, a, p, m, swap, fail)  BY <1>2
  <2> DEFINE c == [q \in p .. m + 1 |-> IF q = m + 1 THEN Compare(b[m], p, m + 1, swap, fail)
                                        ELSE b[q]]
  <2>2. \A q \in p .. m : c[q] = b[q]  OBVIOUS
  <2>3. ASSUME NEW q \in p .. m + 1
        PROVE  c[q] = IF q = p THEN a ELSE Compare(c[q - 1], p, q, swap, fail)
    <3>1. CASE q = m + 1
      <4>1. q # p /\ q - 1 = m /\ m \in p .. m  BY <3>1
      <4>2. c[q] = Compare(b[m], p, q, swap, fail)  BY <3>1
      <4> HIDE DEF c
      <4> QED  BY <2>2, <4>1, <4>2
    <3>2. CASE q # m + 1
      <4>1. q \in p .. m /\ (q # p => q - 1 \in p .. m)  BY <3>2
      <4>2. b[q] = IF q = p THEN a ELSE Compare(b[q - 1], p, q, swap, fail)
        BY <2>1, <4>1, Zenon DEF PassBy
      <4> HIDE DEF c
      <4> QED  BY <2>2, <4>1, <4>2
    <3> QED  BY <3>1, <3>2
  <2>4. c = [q \in p .. m + 1 |-> c[q]]  OBVIOUS
  <2>5. PassBy(c, a, p, m + 1, swap, fail)
    <3> HIDE DEF c
    <3> QED  BY <2>3, <2>4, Zenon DEF PassBy
  <2>6. m + 1 \in p .. n  OBVIOUS
  <2> HIDE DEF c
  <2> QED  BY <2>5, <2>6
<1>3. \A m \in p .. n : m \in G
  <2> HIDE DEF G
  <2> QED  BY <1>1, <1>2, Upward
<1>4. n \in G  BY <1>3
<1> QED  BY <1>4

LEMMA PassStep ==
  ASSUME NEW V, NEW s \in Seq(V), NEW swap, NEW fail, NEW p \in 1 .. Len(s),
         NEW a, SortedTo(a, s, V, p, p, swap, fail)
  PROVE  SortedTo(Pass(a, p, Len(s), swap, fail), s, V, p, Len(s), swap, fail)
<1> DEFINE n == Len(s)
           b == CHOOSE b : PassBy(b, a, p, n, swap, fail)
<1>1. n \in Nat  BY LenProperties
<1>2. Pass(a, p, n, swap, fail) = b[n]  BY DEF Pass, PassBy
<1>3. PassBy(b, a, p, n, swap, fail)  BY <1>1, SomePass
<1> HIDE DEF b
<1>4. \A q \in p .. n : b[q] = IF q = p THEN a ELSE Compare(b[q - 1], p, q, swap, fail)
  BY <1>3, Zenon DEF PassBy
<1> DEFINE G == {q \in p .. n : SortedTo(b[q], s, V, p, q, swap, fail)}
<1>5. p \in G
  <2>1. p \in p .. n  BY <1>1
  <2> QED  BY <1>4, <2>1
<1>6. ASSUME NEW q \in p .. n - 1, q \in G PROVE q + 1 \in G
  <2>1. q + 1 \in p .. n /\ q + 1 # p /\ (q + 1) - 1 = q /\ q + 1 \in 1 .. n /\ p < q + 1
    BY <1>1
  <2>2. b[q + 1] = Compare(b[q], p, q + 1, swap, fail)  BY <1>4, <2>1
  <2>3. SortedTo(b[q], s, V, p, (q + 1) - 1, swap, fail)  BY <1>6, <2>1
  <2>4. SortedTo(Compare(b[q], p, q + 1, swap, fail), s, V, p, q + 1, swap, fail)
    BY <2>1, <2>3, CompareStep
  <2> QED  BY <2>1, <2>2, <2>4
<1>7. \A q \in p .. n : q \in G
  <2> HIDE DEF G
  <2>1. p \in Nat /\ p <= n  BY <1>1
  <2> QED  BY <1>1, <1>5, <1>6, <2>1, Upward
<1>8. n \in G  BY <1>1, <1>7
<1> QED  BY <1>2, <1>8

LoopBy(b, s, n, m, swap, fail) ==
  b = [p \in 0 .. m |-> IF p = 0 THEN [arr |-> s, stop |-> FALSE]
                        ELSE Pass(b[p - 1], p, n, swap, fail)]

LEMMA SomeLoop ==
  ASSUME NEW s, NEW n \in Nat, NEW swap, NEW fail
  PROVE  \E b : LoopBy(b, s, n, n, swap, fail)
<1> DEFINE G == {m \in 0 .. n : \E b : LoopBy(b, s, n, m, swap, fail)}
           a == [arr |-> s, stop |-> FALSE]
<1>1. 0 \in G
  <2> DEFINE b == [p \in 0 .. 0 |-> a]
  <2>1. b = [p \in 0 .. 0 |-> IF p = 0 THEN a ELSE Pass(b[p - 1], p, n, swap, fail)]  OBVIOUS
  <2>2. LoopBy(b, s, n, 0, swap, fail)
    <3> HIDE DEF b
    <3> QED  BY <2>1, Zenon DEF LoopBy
  <2> QED  BY <2>2
<1>2. ASSUME NEW m \in 0 .. n - 1, m \in G PROVE m + 1 \in G
  <2>1. PICK b : LoopBy(b, s, n, m, swap, fail)  BY <1>2
  <2> DEFINE c == [p \in 0 .. m + 1 |-> IF p = m + 1 THEN Pass(b[m], m + 1, n, swap, fail)
                                        ELSE b[p]]
  <2>2. \A p \in 0 .. m : c[p] = b[p]  OBVIOUS
  <2>3. ASSUME NEW p \in 0 .. m + 1
        PROVE  c[p] = IF p = 0 THEN a ELSE Pass(c[p - 1], p, n, swap, fail)
    <3>1. CASE p = m + 1
      <4>1. p # 0 /\ p - 1 = m /\ m \in 0 .. m  BY <3>1
      <4>2. c[p] = Pass(b[m], p, n, swap, fail)  BY <3>1
      <4> HIDE DEF c, a
      <4> QED  BY <2>2, <4>1, <4>2
    <3>2. CASE p # m + 1
      <4>1. p \in 0 .. m /\ (p # 0 => p - 1 \in 0 .. m)  BY <3>2
      <4>2. b[p] = IF p = 0 THEN a ELSE Pass(b[p - 1], p, n, swap, fail)
        BY <2>1, <4>1, Zenon DEF LoopBy
      <4> HIDE DEF c, a
      <4> QED  BY <2>2, <4>1, <4>2
    <3> QED  BY <3>1, <3>2
  <2>4. c = [p \in 0 .. m + 1 |-> c[p]]  OBVIOUS
  <2>5. LoopBy(c, s, n, m + 1, swap, fail)
    <3> HIDE DEF c
    <3> QED  BY <2>3, <2>4, Zenon DEF LoopBy
  <2>6. m + 1 \in 0 .. n  OBVIOUS
  <2> HIDE DEF c
  <2> QED  BY <2>5, <2>6
<1>3. \A m \in 0 .. n : m \in G
  <2> HIDE DEF G
  <2>1. 0 \in Nat /\ 0 <= n  OBVIOUS
  <2> QED  BY <1>1, <1>2, <2>1, Upward
<1>4. n \in G  BY <1>3
<1> QED  BY <1>4

LEMMA SamePermuted == ASSUME NEW V, NEW s \in Seq(V) PROVE Permuted(s, s)
<1> DEFINE f == [i \in 1 .. Len(s) |-> i]
<1>1. f \in Bijection(1 .. Len(s), 1 .. Len(s))
  BY DEF Bijection, Injection, Surjection, IsInjective
<1>2. \A i \in 1 .. Len(s) : s[i] = s[f[i]]  OBVIOUS
<1> HIDE DEF f
<1> QED  BY <1>1, <1>2 DEF Permuted

(* What Exchange returns.                                                  *)
LEMMA Exchanged ==
  ASSUME NEW V, NEW s \in Seq(V), NEW swap, NEW fail
  PROVE  /\ Exchange(s, swap, fail) \in Seq(V) /\ Permuted(s, Exchange(s, swap, fail))
         /\ Orders(swap, V) /\ NoFailure(s, fail) =>
              \A i, m \in 1 .. Len(s) :
                i < m => <<Exchange(s, swap, fail)[i], Exchange(s, swap, fail)[m]>> \notin swap
<1> DEFINE n == Len(s)
           a == [arr |-> s, stop |-> FALSE]
           b == CHOOSE b : LoopBy(b, s, n, n, swap, fail)
<1>1. n \in Nat  BY LenProperties
<1>2. Exchange(s, swap, fail) = b[n].arr  BY DEF Exchange, LoopBy
<1>3. LoopBy(b, s, n, n, swap, fail)  BY <1>1, SomeLoop
<1> HIDE DEF b
<1>4. \A p \in 0 .. n : b[p] = IF p = 0 THEN a ELSE Pass(b[p - 1], p, n, swap, fail)
  BY <1>3, Zenon DEF LoopBy
<1> DEFINE G == {p \in 0 .. n : SortedTo(b[p], s, V, p, n, swap, fail)}
<1>5. 0 \in G
  <2>1. 0 \in 0 .. n  BY <1>1
  <2>2. b[0] = a  BY <1>4, <2>1
  <2>3. Done(s, 0, n, swap)  BY DEF Done
  <2>4. SortedTo(a, s, V, 0, n, swap, fail)  BY <2>3, SamePermuted DEF SortedTo
  <2> QED  BY <2>1, <2>2, <2>4
<1>6. ASSUME NEW p \in 0 .. n - 1, p \in G PROVE p + 1 \in G
  <2>1. p + 1 \in 0 .. n /\ p + 1 # 0 /\ (p + 1) - 1 = p /\ p + 1 \in 1 .. n  BY <1>1
  <2>2. b[p + 1] = Pass(b[p], p + 1, n, swap, fail)  BY <1>4, <2>1
  <2>3. SortedTo(b[p], s, V, p, n, swap, fail)  BY <1>6
  <2>4. Done(b[p].arr, p, n, swap) => Done(b[p].arr, p + 1, p + 1, swap)
    <3>1. Len(b[p].arr) = n  BY <2>3 DEF SortedTo, Permuted
    <3> SUFFICES ASSUME Done(b[p].arr, p, n, swap), NEW i \in 1 .. n, NEW m \in 1 .. n,
                        i < m, i < p + 1 \/ (i = p + 1 /\ m <= p + 1)
                 PROVE  <<b[p].arr[i], b[p].arr[m]>> \notin swap
      BY <3>1 DEF Done
    <3>2. i < p \/ (i = p /\ m <= n)  BY <1>1
    <3> QED  BY <3>1, <3>2 DEF Done
  <2>5. SortedTo(b[p], s, V, p + 1, p + 1, swap, fail)  BY <2>3, <2>4 DEF SortedTo
  <2> QED  BY <2>1, <2>2, <2>5, PassStep
<1>7. \A p \in 0 .. n : p \in G
  <2> HIDE DEF G
  <2>1. 0 \in Nat /\ 0 <= n  BY <1>1
  <2> QED  BY <1>1, <1>5, <1>6, <2>1, Upward
<1>8. SortedTo(b[n], s, V, n, n, swap, fail)
  <2>1. n \in 0 .. n  BY <1>1
  <2> QED  BY <1>7, <2>1
<1>9. Len(b[n].arr) = n  BY <1>8 DEF SortedTo, Permuted
<1>10. ASSUME Done(b[n].arr, n, n, swap), NEW i \in 1 .. n, NEW m \in 1 .. n, i < m
       PROVE  <<b[n].arr[i], b[n].arr[m]>> \notin swap
  <2>1. i < n  BY <1>10, <1>1
  <2> QED  BY <1>9, <1>10, <2>1 DEF Done
<1> QED  BY <1>2, <1>8, <1>10 DEF SortedTo

---------------------------------------------------------------------------
(* What a permutation keeps.                                               *)

LEMMA SameElements ==
  ASSUME NEW V, NEW s \in Seq(V), NEW t \in Seq(V), Permuted(s, t)
  PROVE  /\ Len(t) = Len(s) /\ ToSet(t) = ToSet(s)
         /\ IsInjective(s) => IsInjective(t)
<1>1. PICK f \in Bijection(1 .. Len(s), 1 .. Len(s)) : \A i \in 1 .. Len(s) : t[i] = s[f[i]]
  BY DEF Permuted
<1>2. f \in [1 .. Len(s) -> 1 .. Len(s)] /\ \A i, m \in 1 .. Len(s) : f[i] = f[m] => i = m
  BY <1>1 DEF Bijection, Injection, IsInjective
<1>3. DOMAIN s = 1 .. Len(s) /\ DOMAIN t = 1 .. Len(s) /\ Len(t) = Len(s)
  BY LenProperties DEF Permuted
<1>4. ASSUME IsInjective(s), NEW i \in 1 .. Len(s), NEW m \in 1 .. Len(s), t[i] = t[m] PROVE i = m
  <2>1. s[f[i]] = s[f[m]] /\ f[i] \in 1 .. Len(s) /\ f[m] \in 1 .. Len(s)  BY <1>1, <1>2, <1>4
  <2>2. f[i] = f[m]  BY <1>3, <1>4, <2>1 DEF IsInjective
  <2> QED  BY <1>2, <2>2
<1>5. IsInjective(s) => IsInjective(t)  BY <1>3, <1>4 DEF IsInjective
<1> QED  BY <1>3, <1>5, FromTheList

Where(d, s) == {i \in 1 .. Len(s) : s[i] = d}

LEMMA TimesIs ==
  ASSUME NEW V, NEW s \in Seq(V), NEW d
  PROVE  IsFiniteSet(Where(d, s)) /\ Times(d, s) = Cardinality(Where(d, s))
<1>1. IsFiniteSet(1 .. Len(s)) /\ DOMAIN s = 1 .. Len(s)  BY FS_Interval, LenProperties
<1>2. Where(d, s) \subseteq 1 .. Len(s)  BY DEF Where
<1>3. IsFiniteSet(Where(d, s))  BY <1>1, <1>2, FS_Subset
<1> QED  BY <1>1, <1>3 DEF Times, Where

(* g maps the places of d in one list to those in the other.               *)
Maps(g, T, S) ==
  /\ g \in [T -> S] /\ \A i, m \in T : g[i] = g[m] => i = m
  /\ \A v \in S : \E i \in T : g[i] = v

LEMMA TimesMapped ==
  ASSUME NEW V, NEW s \in Seq(V), NEW t \in Seq(V), NEW d,
         NEW g, Maps(g, Where(d, t), Where(d, s))
  PROVE  Times(d, t) = Times(d, s)
<1>1. g \in Bijection(Where(d, t), Where(d, s))
  BY DEF Maps, Bijection, Injection, Surjection, IsInjective
<1>2. ExistsBijection(Where(d, t), Where(d, s))  BY <1>1 DEF ExistsBijection
<1>3. Cardinality(Where(d, s)) = Cardinality(Where(d, t))  BY <1>2, TimesIs, FS_Bijection
<1> QED  BY <1>3, TimesIs

LEMMA SameTimes ==
  ASSUME NEW V, NEW s \in Seq(V), NEW t \in Seq(V), Permuted(s, t), NEW d
  PROVE  Times(d, t) = Times(d, s)
<1> DEFINE n == Len(s)
           S == Where(d, s)
           T == Where(d, t)
<1>1. PICK f \in Bijection(1 .. n, 1 .. n) : \A i \in 1 .. n : t[i] = s[f[i]]
  BY DEF Permuted
<1>2. /\ f \in [1 .. n -> 1 .. n] /\ (\A i, m \in 1 .. n : f[i] = f[m] => i = m)
      /\ \A v \in 1 .. n : \E i \in 1 .. n : f[i] = v
  BY <1>1 DEF Bijection, Injection, Surjection, IsInjective
<1>3. Len(t) = n  BY DEF Permuted
<1> DEFINE g == [i \in T |-> f[i]]
<1>4. \A i \in T : g[i] = f[i] /\ f[i] \in S /\ i \in 1 .. n  BY <1>1, <1>2, <1>3 DEF Where
<1>5. g \in [T -> S]  BY <1>4
<1>6. \A i, m \in T : g[i] = g[m] => i = m  BY <1>2, <1>4
<1>7. ASSUME NEW v \in S PROVE \E i \in T : g[i] = v
  <2>1. v \in 1 .. n /\ s[v] = d  BY DEF Where
  <2>2. PICK i \in 1 .. n : f[i] = v  BY <1>2, <2>1
  <2>3. i \in T  BY <1>1, <1>3, <2>1, <2>2 DEF Where
  <2> QED  BY <1>4, <2>2, <2>3
<1>8. Maps(g, T, S)
  <2> HIDE DEF g, S, T
  <2> QED  BY <1>5, <1>6, <1>7 DEF Maps
<1> QED  BY <1>8, TimesMapped

LEMMA ReversePermuted ==
  ASSUME NEW V, NEW s \in Seq(V)
  PROVE  /\ Reverse(s) \in Seq(V) /\ Permuted(s, Reverse(s))
         /\ \A i \in 1 .. Len(s) : Reverse(s)[i] = s[Len(s) + 1 - i]
<1> DEFINE n == Len(s)
           f == [i \in 1 .. n |-> n + 1 - i]
<1>1. n \in Nat /\ DOMAIN s = 1 .. n /\ s \in [1 .. n -> V]  BY LenProperties
<1>2. Reverse(s) = [i \in 1 .. n |-> s[(n - i) + 1]]  BY DEF Reverse
<1>3. \A i \in 1 .. n : (n - i) + 1 = n + 1 - i /\ n + 1 - i \in 1 .. n  BY <1>1
<1>4. Reverse(s) \in [1 .. n -> V] /\ \A i \in 1 .. n : Reverse(s)[i] = s[n + 1 - i]
  BY <1>1, <1>2, <1>3
<1>5. Reverse(s) \in Seq(V)  BY <1>1, <1>4, IsASeq
<1>6. Len(Reverse(s)) = n  BY <1>1, <1>4, <1>5, LenProperties
<1>7. f \in [1 .. n -> 1 .. n]  BY <1>3
<1>8. \A i, m \in 1 .. n : f[i] = f[m] => i = m  BY <1>1
<1>9. ASSUME NEW v \in 1 .. n PROVE \E i \in 1 .. n : f[i] = v
  <2>1. n + 1 - v \in 1 .. n /\ n + 1 - (n + 1 - v) = v  BY <1>1
  <2> QED  BY <2>1
<1>10. f \in Bijection(1 .. n, 1 .. n)
  <2> HIDE DEF f
  <2> QED  BY <1>7, <1>8, <1>9 DEF Bijection, Injection, Surjection, IsInjective
<1>11. \A i \in 1 .. n : Reverse(s)[i] = s[f[i]]  BY <1>4
<1> HIDE DEF f
<1> QED  BY <1>4, <1>5, <1>6, <1>10, <1>11 DEF Permuted

(* A listing of a set has each element once.                               *)
LEMMA Enumerates ==
  ASSUME NEW S, IsFiniteSet(S), NEW s \in SetToSeqs(S)
  PROVE  s \in Seq(S) /\ Len(s) = Cardinality(S) /\ ToSet(s) = S /\ IsInjective(s)
<1> DEFINE n == Cardinality(S)
<1>1. n \in Nat  BY FS_CardinalityType
<1>2. s \in [1 .. n -> S] /\ \A i, m \in 1 .. n : i # m => s[i] # s[m]  BY DEF SetToSeqs
<1>3. s \in Seq(S) /\ Len(s) = n  BY <1>1, <1>2, IsASeq, LenProperties
<1>4. IsInjective(s) /\ s \in Injection(1 .. n, S)  BY <1>2 DEF IsInjective, Injection
<1>5. IsFiniteSet(1 .. n) /\ Cardinality(1 .. n) = n  BY <1>1, FS_Interval
<1>6. s \in Surjection(1 .. n, S)  BY <1>4, <1>5, FS_Injection
<1>7. ToSet(s) = S  BY <1>2, <1>6 DEF Surjection, ToSet
<1> QED  BY <1>3, <1>4, <1>7

---------------------------------------------------------------------------
(* What is behind what.                                                    *)

LEMMA BehindOrders ==
  /\ \A V \in SUBSET (Names \cup Dirs) : Orders(Behind, V)
  /\ \A x, y \in Names \cup Dirs : <<x, y>> \notin Behind <=> Key[x] <= Key[y]
<1>1. \A x \in Names \cup Dirs : Key[x] \in Nat  BY ListingAssumption
<1>2. \A x, y \in Names \cup Dirs : <<x, y>> \in Behind <=> Key[x] > Key[y]  BY DEF Behind
<1>3. \A x, y \in Names \cup Dirs : <<x, y>> \notin Behind <=> Key[x] <= Key[y]
  <2> SUFFICES ASSUME NEW x \in Names \cup Dirs, NEW y \in Names \cup Dirs
               PROVE  <<x, y>> \notin Behind <=> Key[x] <= Key[y]
    OBVIOUS
  <2>1. Key[x] \in Nat /\ Key[y] \in Nat /\ (<<x, y>> \in Behind <=> Key[x] > Key[y])  BY <1>1, <1>2
  <2> QED  BY <2>1
<1>4. ASSUME NEW V \in SUBSET (Names \cup Dirs) PROVE Orders(Behind, V)
  <2> SUFFICES ASSUME NEW x \in V, NEW y \in V, NEW z \in V
               PROVE  /\ <<x, y>> \in Behind => <<y, x>> \notin Behind
                      /\ <<x, y>> \notin Behind /\ <<y, z>> \notin Behind => <<x, z>> \notin Behind
    BY DEF Orders
  <2>1. Key[x] \in Nat /\ Key[y] \in Nat /\ Key[z] \in Nat  BY <1>1
  <2>2. x \in Names \cup Dirs /\ y \in Names \cup Dirs /\ z \in Names \cup Dirs  OBVIOUS
  <2>3. /\ <<x, y>> \in Behind <=> Key[x] > Key[y]
        /\ <<y, x>> \in Behind <=> Key[y] > Key[x]
        /\ <<y, z>> \in Behind <=> Key[y] > Key[z]
        /\ <<x, z>> \in Behind <=> Key[x] > Key[z]
    BY <1>2, <2>2
  <2> QED  BY <2>1, <2>3
<1> QED  BY <1>3, <1>4

Smaller == {x \in Names \X Names : \/ Size[x[1]] < Size[x[2]]
                                   \/ Size[x[1]] = Size[x[2]] /\ x \in Behind}

LEMMA SmallerOrders ==
  /\ Orders(Smaller, Names)
  /\ \A x, y \in Names : <<x, y>> \notin Smaller <=>
       \/ Size[x] > Size[y]
       \/ Size[x] = Size[y] /\ Key[x] <= Key[y]
<1>1. \A x \in Names : Key[x] \in Nat /\ Size[x] \in Nat  BY ListingAssumption
<1>2. \A x, y \in Names : <<x, y>> \in Behind <=> Key[x] > Key[y]  BY DEF Behind
<1>3. \A x, y \in Names : <<x, y>> \in Smaller <=>
        \/ Size[x] < Size[y]
        \/ Size[x] = Size[y] /\ Key[x] > Key[y]
  BY <1>2 DEF Smaller
<1>4. ASSUME NEW x \in Names, NEW y \in Names
      PROVE  <<x, y>> \notin Smaller <=> \/ Size[x] > Size[y]
                                         \/ Size[x] = Size[y] /\ Key[x] <= Key[y]
  <2>1. Key[x] \in Nat /\ Key[y] \in Nat /\ Size[x] \in Nat /\ Size[y] \in Nat  BY <1>1
  <2>2. <<x, y>> \in Smaller <=> \/ Size[x] < Size[y]
                                 \/ Size[x] = Size[y] /\ Key[x] > Key[y]
    BY <1>3
  <2> QED  BY <2>1, <2>2
<1>5. Orders(Smaller, Names)
  <2> SUFFICES ASSUME NEW x \in Names, NEW y \in Names, NEW z \in Names
               PROVE  /\ <<x, y>> \in Smaller => <<y, x>> \notin Smaller
                      /\ <<x, y>> \notin Smaller /\ <<y, z>> \notin Smaller => <<x, z>> \notin Smaller
    BY DEF Orders
  <2>1. /\ Key[x] \in Nat /\ Key[y] \in Nat /\ Key[z] \in Nat
        /\ Size[x] \in Nat /\ Size[y] \in Nat /\ Size[z] \in Nat
    BY <1>1
  <2>2. /\ <<x, y>> \in Smaller <=> Size[x] < Size[y] \/ (Size[x] = Size[y] /\ Key[x] > Key[y])
        /\ <<y, x>> \in Smaller <=> Size[y] < Size[x] \/ (Size[y] = Size[x] /\ Key[y] > Key[x])
        /\ <<y, z>> \in Smaller <=> Size[y] < Size[z] \/ (Size[y] = Size[z] /\ Key[y] > Key[z])
        /\ <<x, z>> \in Smaller <=> Size[x] < Size[z] \/ (Size[x] = Size[z] /\ Key[x] > Key[z])
    BY <1>3
  <2> QED  BY <2>1, <2>2
<1> QED  BY <1>4, <1>5

KeyOrder(s) == \A i, m \in DOMAIN s : i < m => Key[s[i]] <= Key[s[m]]

LEMMA SortHiddenIs ==
  ASSUME NEW V \in SUBSET (Names \cup Dirs), NEW s \in Seq(V)
  PROVE  SortHidden(s) \in Seq(V) /\ Permuted(s, SortHidden(s)) /\ KeyOrder(SortHidden(s))
<1> DEFINE t == SortHidden(s)
<1>1. t = Exchange(s, Behind, {})  BY DEF SortHidden
<1>2. Orders(Behind, V) /\ NoFailure(s, {})  BY BehindOrders DEF NoFailure
<1>3. t \in Seq(V) /\ Permuted(s, t)  BY <1>1, Exchanged
<1>4. \A i, m \in 1 .. Len(s) : i < m => <<t[i], t[m]>> \notin Behind
  <2> HIDE DEF t
  <2> QED  BY <1>1, <1>2, Exchanged
<1>5. DOMAIN t = 1 .. Len(s) /\ \A i \in 1 .. Len(s) : t[i] \in Names \cup Dirs
  <2>1. Len(t) = Len(s)  BY <1>3 DEF Permuted
  <2> HIDE DEF t
  <2> QED  BY <1>3, <2>1, LenProperties
<1>6. KeyOrder(t)
  <2> HIDE DEF t
  <2> QED  BY <1>4, <1>5, BehindOrders DEF KeyOrder
<1> QED  BY <1>3, <1>6

BySize(s) ==
  \A i, m \in DOMAIN s : i < m => \/ Size[s[i]] > Size[s[m]]
                                  \/ Size[s[i]] = Size[s[m]] /\ Key[s[i]] <= Key[s[m]]

LEMMA SortBySizeIs ==
  ASSUME NEW s \in Seq(Names), NEW there
  PROVE  /\ SortBySize(s, there) \in Seq(Names) /\ Permuted(s, SortBySize(s, there))
         /\ ToSet(s) = there => BySize(SortBySize(s, there))
<1> DEFINE t == SortBySize(s, there)
           F == (Names \X Names) \ (there \X there)
<1>1. t = Exchange(s, Smaller, F)  BY DEF SortBySize, Smaller
<1>2. t \in Seq(Names) /\ Permuted(s, t)
  <2> HIDE DEF t, F
  <2> QED  BY <1>1, Exchanged
<1>3. ASSUME ToSet(s) = there PROVE BySize(t)
  <2>1. NoFailure(s, F)  BY <1>3 DEF NoFailure
  <2>2. \A i, m \in 1 .. Len(s) : i < m => <<t[i], t[m]>> \notin Smaller
    <3> HIDE DEF t, F
    <3> QED  BY <1>1, <2>1, SmallerOrders, Exchanged
  <2>3. DOMAIN t = 1 .. Len(s) /\ \A i \in 1 .. Len(s) : t[i] \in Names
    <3>1. Len(t) = Len(s)  BY <1>2 DEF Permuted
    <3> HIDE DEF t
    <3> QED  BY <1>2, <3>1, LenProperties
  <2> HIDE DEF t
  <2> QED  BY <2>2, <2>3, SmallerOrders DEF BySize
<1> QED  BY <1>2, <1>3

---------------------------------------------------------------------------
(* A loop that prints names of a, from the last one if turned: what o      *)
(* holds after c of them, if it prints what is in V, and all of it if calm.*)

NthOf(a, turned, i) == a[IF turned THEN Len(a) + 1 - i ELSE i]

Prints(o, a, V, turned, c, calm) ==
  /\ o \in Seq(Names)
  /\ \A k \in 1 .. Len(o) : o[k] \in V /\ \E i \in 1 .. c : o[k] = NthOf(a, turned, i)
  /\ \A k, m \in 1 .. Len(o) : k < m =>
       \E i, l \in 1 .. c : i < l /\ o[k] = NthOf(a, turned, i) /\ o[m] = NthOf(a, turned, l)
  /\ calm => \A i \in 1 .. c : NthOf(a, turned, i) \in V =>
               \E k \in 1 .. Len(o) : o[k] = NthOf(a, turned, i)

LEMMA PrintsNothing ==
  ASSUME NEW a, NEW V, NEW turned, NEW calm
  PROVE  Prints(<<>>, a, V, turned, 0, calm)
BY DEF Prints

LEMMA PrintsCalm ==
  ASSUME NEW o, NEW a, NEW V, NEW turned, NEW c, NEW calm, Prints(o, a, V, turned, c, calm),
         NEW still, still => calm
  PROVE  Prints(o, a, V, turned, c, still)
BY DEF Prints

LEMMA PrintsOne ==
  ASSUME NEW o, NEW a, NEW V, NEW turned, NEW c \in Nat, NEW calm, Prints(o, a, V, turned, c, calm),
         NEW x \in Names, x = NthOf(a, turned, c + 1), x \in V
  PROVE  Prints(Append(o, x), a, V, turned, c + 1, calm)
<1> DEFINE p == Append(o, x)
           n == Len(o)
<1>1. o \in Seq(Names) /\ n \in Nat  BY LenProperties DEF Prints
<1>2. p \in Seq(Names) /\ Len(p) = n + 1 /\ p[n + 1] = x /\ \A k \in 1 .. n : p[k] = o[k]
  BY <1>1, AppendProperties
<1> HIDE DEF p
<1>3. c + 1 \in 1 .. c + 1 /\ \A i \in 1 .. c : i \in 1 .. c + 1 /\ i < c + 1  OBVIOUS
<1>4. ASSUME NEW k \in 1 .. n + 1
      PROVE  p[k] \in V /\ \E i \in 1 .. c + 1 : p[k] = NthOf(a, turned, i)
  <2>1. CASE k = n + 1  BY <1>2, <1>3, <2>1
  <2>2. CASE k # n + 1
    <3>1. k \in 1 .. n  BY <1>1, <2>2
    <3>2. o[k] \in V  BY <3>1 DEF Prints
    <3>3. PICK i \in 1 .. c : o[k] = NthOf(a, turned, i)  BY <3>1 DEF Prints
    <3> QED  BY <1>2, <1>3, <3>1, <3>2, <3>3
  <2> QED  BY <2>1, <2>2
<1>5. ASSUME NEW k \in 1 .. n + 1, NEW m \in 1 .. n + 1, k < m
      PROVE  \E i, l \in 1 .. c + 1 : i < l /\ p[k] = NthOf(a, turned, i) /\ p[m] = NthOf(a, turned, l)
  <2>1. k \in 1 .. n  BY <1>1, <1>5
  <2>2. CASE m = n + 1
    <3>1. PICK i \in 1 .. c : o[k] = NthOf(a, turned, i)  BY <2>1 DEF Prints
    <3> QED  BY <1>2, <1>3, <2>1, <2>2, <3>1
  <2>3. CASE m # n + 1
    <3>1. m \in 1 .. n  BY <1>1, <2>3
    <3>2. PICK i \in 1 .. c, l \in 1 .. c :
            i < l /\ o[k] = NthOf(a, turned, i) /\ o[m] = NthOf(a, turned, l)
      BY <1>5, <2>1, <3>1 DEF Prints
    <3> QED  BY <1>2, <1>3, <2>1, <3>1, <3>2
  <2> QED  BY <2>2, <2>3
<1>6. ASSUME calm, NEW i \in 1 .. c + 1, NthOf(a, turned, i) \in V
      PROVE  \E k \in 1 .. n + 1 : p[k] = NthOf(a, turned, i)
  <2>1. CASE i = c + 1
    <3>1. n + 1 \in 1 .. n + 1  BY <1>1
    <3> QED  BY <1>2, <2>1, <3>1
  <2>2. CASE i # c + 1
    <3>1. i \in 1 .. c  BY <2>2
    <3>2. PICK k \in 1 .. n : o[k] = NthOf(a, turned, i)  BY <1>6, <3>1 DEF Prints
    <3>3. k \in 1 .. n + 1  BY <1>1
    <3> QED  BY <1>2, <3>2, <3>3
  <2> QED  BY <2>1, <2>2
<1>7. \A k \in 1 .. Len(p) : p[k] \in V /\ \E i \in 1 .. c + 1 : p[k] = NthOf(a, turned, i)
  BY <1>2, <1>4
<1>8. \A k, m \in 1 .. Len(p) : k < m =>
        \E i, l \in 1 .. c + 1 : i < l /\ p[k] = NthOf(a, turned, i) /\ p[m] = NthOf(a, turned, l)
  BY <1>2, <1>5
<1>9. calm => \A i \in 1 .. c + 1 : NthOf(a, turned, i) \in V =>
                \E k \in 1 .. Len(p) : p[k] = NthOf(a, turned, i)
  BY <1>2, <1>6
<1>10. Prints(p, a, V, turned, c + 1, calm)  BY <1>2, <1>7, <1>8, <1>9 DEF Prints
<1> QED  BY <1>10 DEF p

LEMMA PrintsNone ==
  ASSUME NEW o, NEW a, NEW V, NEW turned, NEW c \in Nat, NEW calm, Prints(o, a, V, turned, c, calm),
         calm => NthOf(a, turned, c + 1) \notin V
  PROVE  Prints(o, a, V, turned, c + 1, calm)
<1>1. \A i \in 1 .. c : i \in 1 .. c + 1  OBVIOUS
<1>2. ASSUME NEW k \in 1 .. Len(o) PROVE \E i \in 1 .. c + 1 : o[k] = NthOf(a, turned, i)
  <2>1. PICK i \in 1 .. c : o[k] = NthOf(a, turned, i)  BY DEF Prints
  <2> QED  BY <1>1, <2>1
<1>3. ASSUME NEW k \in 1 .. Len(o), NEW m \in 1 .. Len(o), k < m
      PROVE  \E i, l \in 1 .. c + 1 : i < l /\ o[k] = NthOf(a, turned, i) /\ o[m] = NthOf(a, turned, l)
  <2>1. PICK i \in 1 .. c, l \in 1 .. c :
          i < l /\ o[k] = NthOf(a, turned, i) /\ o[m] = NthOf(a, turned, l)
    BY <1>3 DEF Prints
  <2> QED  BY <1>1, <2>1
<1>4. ASSUME calm, NEW i \in 1 .. c + 1, NthOf(a, turned, i) \in V
      PROVE  \E k \in 1 .. Len(o) : o[k] = NthOf(a, turned, i)
  <2>1. i \in 1 .. c  BY <1>4
  <2> QED  BY <1>4, <2>1 DEF Prints
<1> QED  BY <1>2, <1>3, <1>4 DEF Prints

(* When all of a has been printed.                                         *)
Shows(o, a, V, turned, calm) ==
  /\ IsInjective(o) /\ ToSet(o) \subseteq V /\ (calm => ToSet(o) = V)
  /\ \A k, m \in DOMAIN o : k < m =>
       \E i, l \in DOMAIN a : /\ i < l
                              /\ IF turned THEN o[m] = a[i] /\ o[k] = a[l]
                                 ELSE o[k] = a[i] /\ o[m] = a[l]

LEMMA PrintsAll ==
  ASSUME NEW o, NEW a \in Seq(Names), NEW V \in SUBSET ToSet(a), NEW turned \in BOOLEAN, NEW calm,
         Prints(o, a, V, turned, Len(a), calm), IsInjective(a)
  PROVE  Shows(o, a, V, turned, calm)
<1> DEFINE n == Len(a)
           At(i) == IF turned THEN n + 1 - i ELSE i
<1>1. n \in Nat /\ DOMAIN a = 1 .. n  BY LenProperties
<1>2. o \in Seq(Names) /\ DOMAIN o = 1 .. Len(o) /\ Len(o) \in Nat  BY LenProperties DEF Prints
<1>3. \A i \in 1 .. n : At(i) \in 1 .. n /\ NthOf(a, turned, i) = a[At(i)]  BY <1>1 DEF NthOf
<1>4. \A i, l \in 1 .. n : i < l => IF turned THEN At(l) < At(i) ELSE At(i) < At(l)  BY <1>1
<1> HIDE DEF At
<1>5. ASSUME NEW k \in DOMAIN o, NEW m \in DOMAIN o, k < m
      PROVE  \E i, l \in DOMAIN a : /\ i < l
                                    /\ IF turned THEN o[m] = a[i] /\ o[k] = a[l]
                                       ELSE o[k] = a[i] /\ o[m] = a[l]
  <2>1. PICK i \in 1 .. n, l \in 1 .. n :
          i < l /\ o[k] = NthOf(a, turned, i) /\ o[m] = NthOf(a, turned, l)
    BY <1>2, <1>5 DEF Prints
  <2>2. At(i) \in 1 .. n /\ At(l) \in 1 .. n /\ o[k] = a[At(i)] /\ o[m] = a[At(l)]  BY <1>3, <2>1
  <2>3. IF turned THEN At(l) < At(i) ELSE At(i) < At(l)  BY <1>4, <2>1
  <2> QED  BY <1>1, <2>2, <2>3
<1>6. ASSUME NEW k \in DOMAIN o, NEW m \in DOMAIN o, k < m PROVE o[k] # o[m]
  <2>1. PICK i \in DOMAIN a, l \in DOMAIN a :
          /\ i < l
          /\ IF turned THEN o[m] = a[i] /\ o[k] = a[l] ELSE o[k] = a[i] /\ o[m] = a[l]
    BY <1>5, <1>6
  <2>2. a[i] # a[l]  BY <1>1, <2>1 DEF IsInjective
  <2> QED  BY <2>1, <2>2
<1>7. IsInjective(o)
  <2> SUFFICES ASSUME NEW k \in DOMAIN o, NEW m \in DOMAIN o, o[k] = o[m] PROVE k = m
    BY DEF IsInjective
  <2>1. k < m \/ m < k \/ k = m  BY <1>2
  <2> QED  BY <1>6, <2>1
<1>8. ToSet(o) \subseteq V  BY <1>2 DEF Prints, ToSet
<1>9. ASSUME calm, NEW x \in V PROVE x \in ToSet(o)
  <2>1. PICK w \in 1 .. n : x = a[w]  BY <1>1 DEF ToSet
  <2>2. PICK i \in 1 .. n : At(i) = w
    <3>1. CASE turned
      <4>1. n + 1 - w \in 1 .. n /\ n + 1 - (n + 1 - w) = w  BY <1>1
      <4> QED  BY <3>1, <4>1 DEF At
    <3>2. CASE ~turned  BY <3>2 DEF At
    <3> QED  BY <3>1, <3>2
  <2>3. NthOf(a, turned, i) = x  BY <1>3, <2>1, <2>2
  <2>4. PICK k \in 1 .. Len(o) : o[k] = x  BY <1>9, <2>3 DEF Prints
  <2> QED  BY <1>2, <2>4 DEF ToSet
<1> QED  BY <1>5, <1>7, <1>8, <1>9 DEF Shows

---------------------------------------------------------------------------
(* The invariant.  A directory is being listed from open to print; what is *)
(* listed, that one, and what is still to be listed are the operands, and  *)
(* no operation but the last leaves the directory ls was started in.       *)

Places == Dirs \cup {Home}
Looking == pc \in {"open", "count", "store", "total", "size", "print"}
Filled == pc \in {"total", "size", "print"}

Types ==
  /\ cmd \in Commands /\ disturbed \in BOOLEAN /\ seen \subseteq Names
  /\ Looking \/ pc \in {"start", "next", "done", "undefined"}
  /\ entries \in [Places -> SUBSET Names] /\ \A d \in Places : Dots \subseteq entries[d]
  /\ gone \subseteq Dirs /\ dir \in Places /\ prev_dir = Home
  /\ dirs \in Seq(Places) /\ listed \in Seq(Places)

ListOrder(s, sized) == IF sized THEN BySize(s) ELSE KeyOrder(s)
Sized == Long /\ Flag("S")

Stored ==
  Filled =>
    /\ arr \in Seq(Names) /\ Len(arr) = dir_num /\ j \in 1 .. dir_num
    /\ IsInjective(arr) /\ ToSet(arr) = seen
    /\ ~disturbed => entries[dir] = seen
    /\ pc # "print" => Long
    /\ pc = "size" => Flag("S") /\ j = 1
    /\ pc = "total" => KeyOrder(arr)
    /\ pc = "print" /\ ~disturbed => ListOrder(arr, Sized)

Printing ==
  /\ Looking /\ pc # "print" => out = <<>>
  /\ pc = "print" => Prints(out, arr, Visible, Flag("r"), j - 1, ~disturbed)

AtHome == (Filled /\ Long) \/ pc = "undefined" \/ cwd = Home

Current == IF Looking THEN <<dir>> ELSE <<>>
AllOf == (listed \o Current) \o dirs

KeysOrdered(s, turned) ==
  \A k, m \in DOMAIN s : k < m => IF turned THEN Key[s[k]] >= Key[s[m]]
                                  ELSE Key[s[k]] <= Key[s[m]]

Asked(c, lost, s) ==
  /\ c.operands = <<>> /\ c.argc <= 2 => s = <<Home>>
  /\ \A d \in Dirs \ lost : Times(d, s) = Times(d, c.operands)

Operands ==
  /\ pc = "start" => listed = <<>> /\ gone = {}
  /\ pc \notin {"start", "undefined"} =>
       /\ Handled => Asked(cmd, gone, AllOf)
       /\ ~Short => KeysOrdered(AllOf, Flag("r"))
  /\ pc = "done" => dirs = <<>>

ListInv == Types /\ Stored /\ Printing /\ SortedListing /\ AtHome /\ Operands

LEMMA InitInv == Init => ListInv
<1> SUFFICES ASSUME Init PROVE ListInv  OBVIOUS
<1>1. Types
  <2>1. entries \in [Places -> SUBSET Names] /\ \A d \in Places : Dots \subseteq entries[d]
    <3>1. \A c \in Contents : Dots \cup c \subseteq Names  BY ListingAssumption
    <3>2. \A d \in Places : \E c \in Contents : entries[d] = Dots \cup c  BY DEF Init, Places
    <3>3. DOMAIN entries = Places /\ entries = [d \in Places |-> entries[d]]  BY DEF Init, Places
    <3>4. \A d \in Places : entries[d] \in SUBSET Names /\ Dots \subseteq entries[d]  BY <3>1, <3>2
    <3> QED  BY <3>3, <3>4
  <2>2. <<>> \in Seq(Places) /\ Home \in Places  BY EmptySeq DEF Places
  <2> QED  BY <2>1, <2>2 DEF Init, Types, Looking
<1>2. Stored /\ Printing /\ SortedListing /\ AtHome
  BY DEF Init, Stored, Printing, SortedListing, AtHome, Filled, Looking
<1>3. Operands  BY DEF Init, Operands
<1> QED  BY <1>1, <1>2, <1>3 DEF ListInv

LEMMA Same == ASSUME [Next]_vars
              PROVE  cmd' = cmd
BY DEF Next, Ls, vars, Start, Access, CannotAccess, Open, Finish, CountPass, StorePass, StoreFails,
       Total, SizeOrder, PrintLong, PrintName, NextPrinted, Change, RemoveDir, fs, place

LEMMA TypesStep ==
  ASSUME Types, AtHome, [Next]_vars PROVE Types'
<1> USE DEF Types, Looking
<1>1. CASE UNCHANGED vars  BY <1>1 DEF vars
<1>2. CASE Start
  <2>1. cmd.operands \in Seq(Places) /\ <<Home>> \in Seq(Places) /\ <<>> \in Seq(Places)
    <3>1. cmd.operands \in Seq(Dirs)  BY ListingAssumption
    <3>2. Home \in Places /\ Dirs \subseteq Places  BY DEF Places
    <3> QED  BY <3>1, <3>2, SeqMonotonic, EmptySeq
  <2>2. SortHidden(cmd.operands) \in Seq(Places) /\ Reverse(SortHidden(cmd.operands)) \in Seq(Places)
    <3>1. cmd.operands \in Seq(Dirs)  BY ListingAssumption
    <3>2. SortHidden(cmd.operands) \in Seq(Dirs)  BY <3>1, SortHiddenIs
    <3>3. Reverse(SortHidden(cmd.operands)) \in Seq(Dirs)  BY <3>2, ReversePermuted
    <3>4. Dirs \subseteq Places  BY DEF Places
    <3> QED  BY <3>2, <3>3, <3>4, SeqMonotonic
  <2>3. dirs' \in Seq(Places)  BY <1>2, <2>1, <2>2 DEF Start
  <2>4. pc' = "next" /\ UNCHANGED <<entries, gone, disturbed, cmd, dir, prev_dir, listed, seen>>
    BY <1>2 DEF Start, fs
  <2> QED  BY <2>3, <2>4
<1>3. CASE Access
  <2>1. Head(dirs) \in Places /\ Tail(dirs) \in Seq(Places)  BY <1>3, HeadTailProperties DEF Access
  <2>2. cwd = Home  BY <1>3 DEF Access, AtHome, Filled
  <2> QED  BY <1>3, <2>1, <2>2 DEF Access
<1>4. CASE CannotAccess
  <2>1. Tail(dirs) \in Seq(Places)  BY <1>4, HeadTailProperties DEF CannotAccess
  <2> QED  BY <1>4, <2>1 DEF CannotAccess, fs
<1>5. CASE Open  BY <1>5 DEF Open, fs, place
<1>6. CASE Finish  BY <1>6 DEF Finish, fs, place
<1>7. CASE CountPass  BY <1>7 DEF CountPass, fs, place
<1>8. CASE StorePass
  <2>1. entries[dir] \subseteq Names  OBVIOUS
  <2> QED  BY <1>8, <2>1 DEF StorePass, fs, place
<1>9. CASE StoreFails  BY <1>9 DEF StoreFails, fs, place
<1>10. CASE Total  BY <1>10 DEF Total, fs, place
<1>11. CASE SizeOrder  BY <1>11 DEF SizeOrder, fs, place
<1>12. CASE PrintLong \/ PrintName
  <2>1. Append(listed, dir) \in Seq(Places)  BY AppendProperties
  <2> QED  BY <1>12, <2>1 DEF PrintLong, PrintName, NextPrinted, fs
<1>13. CASE Change
  <2>1. PICK n \in Names \ Dots :
          entries' = [entries EXCEPT ![dir] = IF n \in @ THEN @ \ {n} ELSE @ \cup {n}]
    BY <1>13 DEF Change
  <2>2. entries' \in [Places -> SUBSET Names] /\ \A d \in Places : Dots \subseteq entries'[d]  BY <2>1
  <2> QED  BY <1>13, <2>2 DEF Change, place
<1>14. CASE RemoveDir  BY <1>14 DEF RemoveDir, place
<1> QED  BY <1>1, <1>2, <1>3, <1>4, <1>5, <1>6, <1>7, <1>8, <1>9, <1>10, <1>11, <1>12, <1>13, <1>14
         DEF Next, Ls

LEMMA StoredStep ==
  ASSUME ListInv, [Next]_vars PROVE Stored'
<1> USE DEF Filled
<1>1. CASE UNCHANGED vars
  BY <1>1 DEF ListInv, vars, Stored, Sized, Long, Short, Flag
<1>2. cmd' = cmd  BY Same
<1>3. Types /\ Stored  BY DEF ListInv
<1>4. CASE Start \/ Access \/ CannotAccess \/ Open \/ Finish \/ CountPass \/ StoreFails \/ RemoveDir
  <2>1. ~Filled'
    BY <1>4 DEF Start, Access, CannotAccess, Open, Finish, CountPass, StoreFails, RemoveDir
  <2> QED  BY <2>1 DEF Stored
<1>5. CASE StorePass
  <2>1. PICK s \in SetToSeqs(entries[dir]) : arr' = SortHidden(s)  BY <1>5 DEF StorePass
  <2>2. entries[dir] \subseteq Names /\ IsFiniteSet(entries[dir]) /\ entries[dir] # {}
    <3>1. entries[dir] \subseteq Names /\ Dots \subseteq entries[dir]  BY <1>3 DEF Types
    <3>2. IsFiniteSet(Names) /\ Dots # {}  BY ListingAssumption
    <3> QED  BY <3>1, <3>2, FS_Subset
  <2>3. s \in Seq(entries[dir]) /\ Len(s) = Cardinality(entries[dir]) /\ ToSet(s) = entries[dir]
        /\ IsInjective(s)
    BY <2>1, <2>2, Enumerates
  <2>4. s \in Seq(Names) /\ Names \subseteq Names \cup Dirs  BY <2>2, <2>3, SeqMonotonic
  <2>5. arr' \in Seq(Names) /\ Permuted(s, arr') /\ KeyOrder(arr')  BY <2>1, <2>4, SortHiddenIs
  <2>6. Len(arr') = Len(s) /\ ToSet(arr') = entries[dir] /\ IsInjective(arr')
    BY <2>3, <2>4, <2>5, SameElements
  <2>7. /\ UNCHANGED <<entries, dir, dir_num, disturbed>>
        /\ Cardinality(entries[dir]) = dir_num /\ j' = 1 /\ seen' = entries[dir]
        /\ pc' = IF Long THEN "total" ELSE "print"
    BY <1>5 DEF StorePass, Outgrown, fs, place
  <2>8. dir_num \in Nat /\ dir_num # 0  BY <2>2, <2>7, FS_CardinalityType, FS_EmptySet
  <2>9. j' \in 1 .. dir_num'  BY <2>7, <2>8
  <2>10. Long' = Long /\ Sized' = Sized  BY <1>2 DEF Long, Short, Flag, Sized
  <2>11. ~Long => ListOrder(arr', Sized)  BY <2>5 DEF ListOrder, Sized
  <2>12. /\ arr' \in Seq(Names) /\ Len(arr') = dir_num' /\ j' \in 1 .. dir_num'
         /\ IsInjective(arr') /\ ToSet(arr') = seen' /\ entries'[dir'] = seen'
    BY <2>3, <2>5, <2>6, <2>7, <2>9
  <2>13. (pc' = "total" /\ Long) \/ (pc' = "print" /\ ~Long)  BY <2>7
  <2> QED  BY <2>5, <2>10, <2>11, <2>12, <2>13 DEF Stored
<1>6. CASE Total
  <2>1. /\ UNCHANGED <<entries, dir, dir_num, disturbed, arr, seen>> /\ pc = "total"
        /\ IF j < dir_num THEN j' = j + 1 /\ pc' = pc
           ELSE j' = 1 /\ pc' = IF Flag("S") THEN "size" ELSE "print"
    BY <1>6 DEF Total, fs, place
  <2>2. Long' = Long /\ Sized' = Sized /\ Flag("S")' = Flag("S")  BY <1>2 DEF Long, Short, Flag, Sized
  <2>3. /\ arr \in Seq(Names) /\ Len(arr) = dir_num /\ j \in 1 .. dir_num
        /\ IsInjective(arr) /\ ToSet(arr) = seen /\ (~disturbed => entries[dir] = seen)
        /\ Long /\ KeyOrder(arr)
    BY <1>3, <2>1 DEF Stored
  <2>4. dir_num \in Nat /\ 1 \in 1 .. dir_num  BY <2>3, LenProperties
  <2>5. j' \in 1 .. dir_num  BY <2>1, <2>3, <2>4
  <2>6. pc' = "print" => ListOrder(arr, Sized)
    <3>1. pc' = "print" => ~Flag("S")  BY <2>1
    <3> QED  BY <2>3, <3>1 DEF ListOrder, Sized
  <2>7. pc' = "size" => Flag("S") /\ j' = 1  BY <2>1
  <2>8. pc' \in {"total", "size", "print"}  BY <2>1
  <2> QED  BY <2>1, <2>2, <2>3, <2>5, <2>6, <2>7, <2>8 DEF Stored
<1>7. CASE SizeOrder
  <2>1. /\ UNCHANGED <<entries, dir, dir_num, disturbed, seen, j>> /\ pc = "size" /\ pc' = "print"
        /\ arr' = SortBySize(arr, entries[dir])
    BY <1>7 DEF SizeOrder, fs, place
  <2>2. Sized' = Sized  BY <1>2 DEF Long, Short, Flag, Sized
  <2>3. /\ arr \in Seq(Names) /\ Len(arr) = dir_num /\ j \in 1 .. dir_num
        /\ IsInjective(arr) /\ ToSet(arr) = seen /\ (~disturbed => entries[dir] = seen)
        /\ Sized
    BY <1>3, <2>1 DEF Stored, Sized
  <2>4. arr' \in Seq(Names) /\ Permuted(arr, arr') /\ (~disturbed => BySize(arr'))
    BY <2>1, <2>3, SortBySizeIs
  <2>5. Len(arr') = dir_num /\ IsInjective(arr') /\ ToSet(arr') = seen
    BY <2>3, <2>4, SameElements
  <2>6. ~disturbed => ListOrder(arr', Sized)  BY <2>3, <2>4 DEF ListOrder
  <2> QED  BY <2>1, <2>2, <2>3, <2>4, <2>5, <2>6 DEF Stored
<1>8. CASE PrintLong \/ PrintName
  <2>1. /\ UNCHANGED <<entries, dir, dir_num, disturbed, seen, arr>> /\ pc = "print"
        /\ IF j < dir_num THEN j' = j + 1 /\ pc' = pc ELSE pc' = "next"
    BY <1>8 DEF PrintLong, PrintName, NextPrinted, fs
  <2>2. Sized' = Sized  BY <1>2 DEF Long, Short, Flag, Sized
  <2>3. CASE pc' = "next"  BY <2>3 DEF Stored
  <2>4. CASE j < dir_num /\ j' = j + 1 /\ pc' = pc
    <3>1. /\ arr \in Seq(Names) /\ Len(arr) = dir_num /\ j \in 1 .. dir_num
          /\ IsInjective(arr) /\ ToSet(arr) = seen /\ (~disturbed => entries[dir] = seen)
          /\ ~disturbed => ListOrder(arr, Sized)
      BY <1>3, <2>1 DEF Stored
    <3>2. dir_num \in Nat  BY <3>1, LenProperties
    <3>3. j' \in 1 .. dir_num  BY <2>4, <3>1, <3>2
    <3> QED  BY <2>1, <2>2, <2>4, <3>1, <3>3 DEF Stored
  <2> QED  BY <2>1, <2>3, <2>4
<1>9. CASE Change
  <2>1. disturbed' = TRUE /\ UNCHANGED <<pc, dir, dir_num, seen, arr, j>>  BY <1>9 DEF Change, place
  <2>2. Long' = Long /\ Flag("S")' = Flag("S")  BY <1>2 DEF Long, Short, Flag
  <2> QED  BY <1>3, <2>1, <2>2 DEF Stored
<1> QED  BY <1>1, <1>4, <1>5, <1>6, <1>7, <1>8, <1>9 DEF Next, Ls

(* One turn of the loops that print.                                       *)
LEMMA PrintStep ==
  ASSUME ListInv, PrintLong \/ PrintName
  PROVE  /\ UNCHANGED <<arr, seen, cmd, disturbed, dir, dirs, entries>>
         /\ arr \in Seq(Names) /\ IsInjective(arr) /\ ToSet(arr) = seen /\ j \in 1 .. Len(arr)
         /\ Visible \in SUBSET seen /\ (~disturbed => ListOrder(arr, Sized))
         /\ Prints(out', arr, Visible, Flag("r"), j, ~disturbed)
         /\ \/ j < Len(arr) /\ j' = j + 1 /\ pc' = "print" /\ listed' = listed
            \/ j = Len(arr) /\ pc' = "next" /\ listed' = Append(listed, dir)
<1> DEFINE x == NthOf(arr, Flag("r"), j)
<1>1. pc = "print"  BY DEF PrintLong, PrintName
<1>2. /\ UNCHANGED <<arr, seen, cmd, disturbed, dir, dirs, entries>>
      /\ IF j < dir_num THEN j' = j + 1 /\ UNCHANGED <<pc, listed>>
         ELSE j' = 1 /\ pc' = "next" /\ listed' = Append(listed, dir)
  BY DEF PrintLong, PrintName, NextPrinted, fs
<1>3. /\ arr \in Seq(Names) /\ Len(arr) = dir_num /\ j \in 1 .. dir_num
      /\ IsInjective(arr) /\ ToSet(arr) = seen /\ (~disturbed => entries[dir] = seen)
      /\ ~disturbed => ListOrder(arr, Sized)
  BY <1>1 DEF ListInv, Stored, Filled
<1>4. dir_num \in Nat /\ DOMAIN arr = 1 .. dir_num  BY <1>3, LenProperties
<1>5. Prints(out, arr, Visible, Flag("r"), j - 1, ~disturbed)  BY <1>1 DEF ListInv, Printing
<1>6. j - 1 \in Nat /\ (j - 1) + 1 = j  BY <1>3, <1>4
<1>7. Visible \in SUBSET seen  BY DEF Visible
<1>8. Printed = x  BY <1>3 DEF Printed, NthOf
<1>9. x \in seen /\ x \in Names
  <2>1. (IF Flag("r") THEN Len(arr) + 1 - j ELSE j) \in 1 .. dir_num  BY <1>3, <1>4
  <2>2. x \in ToSet(arr)  BY <1>4, <2>1 DEF ToSet, NthOf
  <2> QED  BY <1>3, <2>2, <1>4, LenProperties DEF ToSet
<1>10. x \in Visible <=> (x \in Hidden => All) /\ (x \in Nameless => ~Long)  BY <1>9 DEF Visible
<1> HIDE DEF x
<1>11. \/ out' = Append(out, x) /\ x \in Visible
       \/ out' = out /\ (~disturbed => x \notin Visible)
  <2>1. CASE PrintName
    <3>1. ~Long /\ out' = IF x \in Hidden /\ ~All THEN out ELSE Append(out, x)
      BY <1>8, <2>1 DEF PrintName
    <3> QED  BY <1>10, <3>1
  <2>2. CASE PrintLong
    <3>1. /\ Long
          /\ out' = IF x \in entries[dir] /\ (x \in Hidden => All) /\ x \notin Nameless
                      THEN Append(out, x) ELSE out
      BY <1>8, <2>2 DEF PrintLong, OptionL, OptionLPrints
    <3> QED  BY <1>3, <1>9, <1>10, <3>1
  <2> QED  BY <2>1, <2>2
<1>12. Prints(out', arr, Visible, Flag("r"), j, ~disturbed)
  <2>1. x = NthOf(arr, Flag("r"), (j - 1) + 1)  BY <1>6 DEF x
  <2>2. CASE out' = Append(out, x) /\ x \in Visible
    <3>1. Prints(Append(out, x), arr, Visible, Flag("r"), (j - 1) + 1, ~disturbed)
      BY <1>5, <1>6, <1>9, <2>1, <2>2, PrintsOne
    <3> QED  BY <1>6, <2>2, <3>1
  <2>3. CASE out' = out /\ (~disturbed => x \notin Visible)
    <3>1. Prints(out, arr, Visible, Flag("r"), (j - 1) + 1, ~disturbed)
      BY <1>5, <1>6, <2>1, <2>3, PrintsNone
    <3> QED  BY <1>6, <2>3, <3>1
  <2> QED  BY <1>11, <2>2, <2>3
<1>13. \/ j < Len(arr) /\ j' = j + 1 /\ pc' = "print" /\ listed' = listed
       \/ j = Len(arr) /\ pc' = "next" /\ listed' = Append(listed, dir)
  BY <1>1, <1>2, <1>3, <1>4
<1> QED  BY <1>2, <1>3, <1>7, <1>12, <1>13

LEMMA PrintingStep ==
  ASSUME ListInv, [Next]_vars PROVE Printing'
<1>1. CASE UNCHANGED vars
  BY <1>1 DEF ListInv, vars, Printing, Looking, Visible, Long, All, Short, Flag
<1>2. cmd' = cmd  BY Same
<1>3. Types /\ Stored /\ Printing  BY DEF ListInv
<1>4. CASE Start \/ CannotAccess \/ Finish \/ StoreFails
  BY <1>4 DEF Start, CannotAccess, Finish, StoreFails, Printing, Looking
<1>5. CASE Access  BY <1>5 DEF Access, Printing, Looking
<1>6. CASE Open \/ CountPass  BY <1>3, <1>6 DEF Open, CountPass, place, Printing, Looking
<1>7. CASE StorePass \/ Total \/ SizeOrder
  <2>1. /\ pc \in {"store", "total", "size"} /\ out' = out
        /\ pc' \in {"total", "size", "print"} /\ (pc' = "print" => j' = 1)
    BY <1>3, <1>7 DEF StorePass, Total, SizeOrder, place, Stored, Filled
  <2>2. out' = <<>>  BY <1>3, <2>1 DEF Printing, Looking
  <2>3. pc' = "print" => j' - 1 = 0  BY <2>1
  <2>4. Prints(<<>>, arr', Visible', Flag("r")', 0, ~disturbed')  BY PrintsNothing
  <2> QED  BY <2>1, <2>2, <2>3, <2>4 DEF Printing
<1>8. CASE PrintLong \/ PrintName
  <2>1. Visible' = Visible /\ Flag("r")' = Flag("r")
    BY <1>8, PrintStep DEF Visible, Long, All, Short, Flag
  <2>2. CASE pc' = "next"  BY <2>2 DEF Printing, Looking
  <2>3. CASE j' = j + 1 /\ pc' = "print"
    <3>1. j' - 1 = j /\ UNCHANGED <<arr, disturbed>>
      <4>1. j \in 1 .. Len(arr) /\ arr \in Seq(Names)  BY <1>8, PrintStep
      <4>2. Len(arr) \in Nat  BY <4>1, LenProperties
      <4> QED  BY <1>8, <2>3, <4>1, <4>2, PrintStep
    <3>2. Prints(out', arr, Visible, Flag("r"), j, ~disturbed)  BY <1>8, PrintStep
    <3> QED  BY <2>1, <2>3, <3>1, <3>2 DEF Printing
  <2> QED  BY <1>8, <2>2, <2>3, PrintStep
<1>9. CASE Change \/ RemoveDir
  <2>1. UNCHANGED <<pc, out, arr, seen, j>> /\ (disturbed' = TRUE \/ disturbed' = disturbed)
    BY <1>9 DEF Change, RemoveDir, place
  <2>2. Visible' = Visible /\ Flag("r")' = Flag("r")  BY <1>2, <2>1 DEF Visible, Long, All, Short, Flag
  <2>3. pc = "print" => Prints(out, arr, Visible, Flag("r"), j - 1, ~disturbed')
    <3>1. ~disturbed' => ~disturbed  BY <2>1
    <3>2. pc = "print" => Prints(out, arr, Visible, Flag("r"), j - 1, ~disturbed)  BY <1>3 DEF Printing
    <3> QED  BY <3>1, <3>2, PrintsCalm
  <2>4. Looking' = Looking  BY <2>1 DEF Looking
  <2> QED  BY <1>3, <2>1, <2>2, <2>3, <2>4 DEF Printing
<1> QED  BY <1>1, <1>4, <1>5, <1>6, <1>7, <1>8, <1>9 DEF Next, Ls

LEMMA SortedStep ==
  ASSUME ListInv, [Next]_vars PROVE SortedListing'
<1>1. CASE UNCHANGED vars
  BY <1>1 DEF ListInv, vars, SortedListing, Visible, Long, All, Short, Flag, InOrder
<1>2. cmd' = cmd  BY Same
<1>3. SortedListing  BY DEF ListInv
<1>4. CASE CannotAccess \/ RemoveDir
  <2>1. UNCHANGED <<pc, listed, out, seen, disturbed>>
    BY <1>4 DEF CannotAccess, RemoveDir, place, fs
  <2> QED  BY <1>2, <1>3, <2>1 DEF SortedListing, Visible, Long, All, Short, Flag, InOrder
<1>5. CASE Start
  <2>1. listed' = <<>>  BY <1>5 DEF Start, ListInv, Operands
  <2> QED  BY <2>1 DEF SortedListing
<1>6. CASE PrintLong \/ PrintName
  <2> SUFFICES ASSUME pc' = "next" PROVE SortedListing'  BY DEF SortedListing
  <2>1. j = Len(arr)  BY <1>6, PrintStep
  <2>2. /\ arr \in Seq(Names) /\ IsInjective(arr) /\ Visible \in SUBSET ToSet(arr)
        /\ Prints(out', arr, Visible, Flag("r"), Len(arr), ~disturbed)
        /\ ~disturbed => ListOrder(arr, Sized)
    BY <1>6, <2>1, PrintStep
  <2>3. Flag("r") \in BOOLEAN  BY DEF Flag
  <2>4. Shows(out', arr, Visible, Flag("r"), ~disturbed)  BY <2>2, <2>3, PrintsAll
  <2>5. ~disturbed => \A i, l \in DOMAIN arr : i < l => InOrder(arr[i], arr[l])
    BY <2>2 DEF ListOrder, KeyOrder, BySize, InOrder, Sized
  <2>6. Visible' = Visible /\ Flag("r")' = Flag("r") /\ disturbed' = disturbed /\ Sized' = Sized
    BY <1>6, PrintStep DEF Visible, Sized, Long, All, Short, Flag
  <2>7. ASSUME ~disturbed, NEW k \in DOMAIN out', NEW m \in DOMAIN out', k < m
        PROVE  IF Flag("r") THEN InOrder(out'[m], out'[k]) ELSE InOrder(out'[k], out'[m])
    <3>1. PICK i \in DOMAIN arr, l \in DOMAIN arr :
            /\ i < l
            /\ IF Flag("r") THEN out'[m] = arr[i] /\ out'[k] = arr[l]
               ELSE out'[k] = arr[i] /\ out'[m] = arr[l]
      BY <2>4, <2>7 DEF Shows
    <3> QED  BY <2>5, <2>7, <3>1
  <2>8. \A v, w : (InOrder(v, w))' <=> InOrder(v, w)
    BY <2>6 DEF InOrder, Sized
  <2> QED  BY <2>4, <2>6, <2>7, <2>8 DEF SortedListing, Shows
<1>7. CASE Access \/ Open \/ Finish \/ CountPass \/ StorePass \/ StoreFails \/ Total \/ SizeOrder \/ Change
  <2>1. pc' # "next"
    BY <1>7 DEF Access, Open, Finish, CountPass, StorePass, StoreFails, Total, SizeOrder, Change
  <2> QED  BY <2>1 DEF SortedListing
<1> QED  BY <1>1, <1>4, <1>5, <1>6, <1>7 DEF Next, Ls

LEMMA HomeStep ==
  ASSUME ListInv, [Next]_vars PROVE AtHome'
<1>1. CASE UNCHANGED vars  BY <1>1 DEF ListInv, vars, AtHome, Filled, Long, Short, Flag
<1>2. cmd' = cmd /\ Long' = Long  BY Same DEF Long, Short, Flag
<1>3. AtHome /\ prev_dir = Home  BY DEF ListInv, Types
<1>4. CASE Start \/ Access \/ CannotAccess \/ Open \/ Finish \/ CountPass \/ StoreFails
  BY <1>3, <1>4
     DEF AtHome, Filled, Start, Access, CannotAccess, Open, Finish, CountPass, StoreFails, place
<1>5. CASE StorePass  BY <1>3, <1>5 DEF AtHome, Filled, StorePass
<1>6. CASE Total
  <2>1. Long  BY <1>6 DEF Total, ListInv, Stored, Filled
  <2>2. Filled'  BY <1>6 DEF Total, Filled
  <2> QED  BY <1>2, <2>1, <2>2 DEF AtHome
<1>7. CASE SizeOrder  BY <1>3, <1>7 DEF SizeOrder, AtHome
<1>8. CASE PrintLong  BY <1>3, <1>8 DEF PrintLong, OptionL, AtHome
<1>9. CASE PrintName
  <2>1. cwd = Home  BY <1>3, <1>9 DEF PrintName, AtHome, Filled
  <2> QED  BY <1>9, <2>1 DEF PrintName, AtHome
<1>10. CASE Change \/ RemoveDir
  <2>1. UNCHANGED <<pc, cwd>>  BY <1>10 DEF Change, RemoveDir
  <2> QED  BY <1>2, <1>3, <2>1 DEF AtHome, Filled
<1> QED  BY <1>1, <1>4, <1>5, <1>6, <1>7, <1>8, <1>9, <1>10 DEF Next, Ls

---------------------------------------------------------------------------
(* The operands.                                                           *)

LEMMA WithoutHead ==
  ASSUME NEW V, NEW A \in Seq(V), NEW D \in Seq(V), D # <<>>
  PROVE  /\ \A d : d # Head(D) => Times(d, A \o Tail(D)) = Times(d, A \o D)
         /\ \A turned \in BOOLEAN : KeysOrdered(A \o D, turned) => KeysOrdered(A \o Tail(D), turned)
<1> DEFINE S == A \o D
           T == A \o Tail(D)
           n == Len(A)
           l == Len(D)
           Up(i) == IF i <= n THEN i ELSE i + 1
<1>1. n \in Nat /\ l \in Nat /\ l # 0  BY LenProperties, EmptySeq
<1>2. Tail(D) \in Seq(V) /\ Len(Tail(D)) = l - 1 /\ \A i \in 1 .. l - 1 : Tail(D)[i] = D[i + 1]
  BY HeadTailProperties
<1>3. /\ S \in Seq(V) /\ Len(S) = n + l
      /\ \A i \in 1 .. n + l : S[i] = IF i <= n THEN A[i] ELSE D[i - n]
  BY ConcatProperties
<1>4. /\ T \in Seq(V) /\ Len(T) = n + (l - 1)
      /\ \A i \in 1 .. n + (l - 1) : T[i] = IF i <= n THEN A[i] ELSE Tail(D)[i - n]
  BY <1>2, ConcatProperties
<1>5. DOMAIN S = 1 .. n + l /\ DOMAIN T = 1 .. n + (l - 1)  BY <1>3, <1>4, LenProperties
<1>6. S[n + 1] = Head(D)
  <2>1. n + 1 \in 1 .. n + l /\ ~(n + 1 <= n) /\ (n + 1) - n = 1  BY <1>1
  <2> QED  BY <1>3, <2>1
<1> HIDE DEF S, T
<1>7. ASSUME NEW i \in 1 .. n + (l - 1)
      PROVE  Up(i) \in 1 .. n + l /\ Up(i) # n + 1 /\ T[i] = S[Up(i)]
  <2>1. Up(i) \in 1 .. n + l /\ Up(i) # n + 1  BY <1>1
  <2>2. CASE i <= n
    <3>1. i \in 1 .. n + l /\ Up(i) = i  BY <1>1, <2>2
    <3>2. T[i] = A[i]  BY <1>4, <2>2
    <3>3. S[i] = A[i]  BY <1>3, <2>2, <3>1
    <3> QED  BY <2>1, <3>1, <3>2, <3>3
  <2>3. CASE ~(i <= n)
    <3>1. i - n \in 1 .. l - 1 /\ i + 1 \in 1 .. n + l /\ ~(i + 1 <= n) /\ (i + 1) - n = (i - n) + 1
      BY <1>1, <2>3
    <3>2. T[i] = Tail(D)[i - n]  BY <1>4, <2>3
    <3>3. S[i + 1] = D[(i - n) + 1]  BY <1>3, <3>1
    <3>4. Tail(D)[i - n] = D[(i - n) + 1]  BY <1>2, <3>1
    <3> QED  BY <2>1, <2>3, <3>2, <3>3, <3>4
  <2> QED  BY <2>1, <2>2, <2>3
<1>8. \A i, m \in 1 .. n + (l - 1) : (i < m => Up(i) < Up(m)) /\ (Up(i) = Up(m) => i = m)  BY <1>1
<1>9. ASSUME NEW v \in 1 .. n + l, v # n + 1 PROVE \E i \in 1 .. n + (l - 1) : Up(i) = v
  <2>1. CASE v <= n
    <3>1. v \in 1 .. n + (l - 1)  BY <1>1, <2>1
    <3> QED  BY <2>1, <3>1
  <2>2. CASE v > n + 1
    <3>1. v - 1 \in 1 .. n + (l - 1) /\ ~(v - 1 <= n) /\ (v - 1) + 1 = v  BY <1>1, <2>2
    <3> QED  BY <3>1
  <2> QED  BY <1>1, <1>9, <2>1, <2>2
<1> HIDE DEF Up
<1>10. ASSUME NEW d, d # Head(D) PROVE Times(d, T) = Times(d, S)
  <2> DEFINE g == [i \in Where(d, T) |-> Up(i)]
  <2>1. \A i \in Where(d, T) : g[i] = Up(i) /\ i \in 1 .. n + (l - 1) /\ Up(i) \in Where(d, S)
    BY <1>3, <1>4, <1>7 DEF Where
  <2>2. g \in [Where(d, T) -> Where(d, S)]  BY <2>1
  <2>3. \A i, m \in Where(d, T) : g[i] = g[m] => i = m  BY <1>8, <2>1
  <2>4. ASSUME NEW v \in Where(d, S) PROVE \E i \in Where(d, T) : g[i] = v
    <3>1. v \in 1 .. n + l /\ S[v] = d  BY <1>3 DEF Where
    <3>2. PICK i \in 1 .. n + (l - 1) : Up(i) = v  BY <1>6, <1>9, <1>10, <3>1
    <3>3. i \in Where(d, T)  BY <1>4, <1>7, <3>1, <3>2 DEF Where
    <3> QED  BY <2>1, <3>2, <3>3
  <2>5. Maps(g, Where(d, T), Where(d, S))
    <3> HIDE DEF g
    <3> QED  BY <2>2, <2>3, <2>4 DEF Maps
  <2> HIDE DEF g
  <2> QED  BY <1>3, <1>4, <2>5, TimesMapped
<1>11. ASSUME NEW turned \in BOOLEAN, KeysOrdered(S, turned) PROVE KeysOrdered(T, turned)
  <2> SUFFICES ASSUME NEW k \in DOMAIN T, NEW m \in DOMAIN T, k < m
               PROVE  IF turned THEN Key[T[k]] >= Key[T[m]] ELSE Key[T[k]] <= Key[T[m]]
    BY DEF KeysOrdered
  <2>1. /\ Up(k) \in DOMAIN S /\ Up(m) \in DOMAIN S /\ Up(k) < Up(m)
        /\ T[k] = S[Up(k)] /\ T[m] = S[Up(m)]
    BY <1>5, <1>7, <1>8
  <2> QED  BY <1>11, <2>1 DEF KeysOrdered
<1> QED  BY <1>10, <1>11 DEF S, T

LEMMA JustHome ==
  /\ \A d \in Dirs : Times(d, <<Home>>) = Times(d, <<>>)
  /\ \A turned \in BOOLEAN : KeysOrdered(<<Home>>, turned) /\ KeysOrdered(<<>>, turned)
<1>1. <<Home>> \in Seq({Home}) /\ <<>> \in Seq({Home})  OBVIOUS
<1>2. ASSUME NEW d \in Dirs PROVE Times(d, <<Home>>) = Times(d, <<>>)
  <2>1. d # Home  BY ListingAssumption
  <2>2. Where(d, <<Home>>) = {} /\ Where(d, <<>>) = {}  BY <2>1 DEF Where
  <2> QED  BY <1>1, <2>2, TimesIs
<1>3. DOMAIN <<Home>> = 1 .. 1 /\ DOMAIN <<>> = 1 .. 0  OBVIOUS
<1>4. \A k, m \in 1 .. 1 : ~(k < m)  OBVIOUS
<1> QED  BY <1>2, <1>3, <1>4 DEF KeysOrdered

(* What main makes of the command line.                                    *)
LEMMA StartRight ==
  ASSUME Types, Start
  PROVE  /\ Handled => Asked(cmd, {}, dirs')
         /\ ~Short => KeysOrdered(dirs', Flag("r"))
<1> DEFINE c == cmd
           s == c.operands
           t == SortHidden(s)
<1>1. /\ c.flags \subseteq {"a", "l", "r", "S", "h"} /\ s \in Seq(Dirs) /\ c.argc \in Nat
      /\ c.argc > Len(s) + (IF c.flags = {} THEN 0 ELSE 1)
  BY ListingAssumption DEF Types
<1>2. Len(s) \in Nat /\ c.argc >= 1 /\ (c.flags # {} => c.argc > Len(s) + 1)
  <2>1. Len(s) \in Nat /\ c.argc \in Nat  BY <1>1, LenProperties
  <2>2. CASE c.flags = {}
    <3>1. c.argc > Len(s) + 0  BY <1>1, <2>2
    <3>2. c.argc >= 1  BY <2>1, <3>1
    <3> QED  BY <2>1, <2>2, <3>2
  <2>3. CASE c.flags # {}
    <3>1. c.argc > Len(s) + 1  BY <1>1, <2>3
    <3>2. c.argc >= 1  BY <2>1, <3>1
    <3> QED  BY <2>1, <3>1, <3>2
  <2> QED  BY <2>2, <2>3
<1>3. Flag("r") \in BOOLEAN /\ (Flag("r") => c.flags # {}) /\ (Flag("a") \/ Flag("l") => c.flags # {})
  BY DEF Flag
<1>4. dirs' = IF Short /\ s # <<>> THEN s
              ELSE IF Short \/ Here THEN <<Home>>
              ELSE IF ~Handled THEN <<>>
              ELSE IF Flag("r") /\ c.flags # {} THEN Reverse(t)
              ELSE t
  BY DEF Start
<1>5. Here => s = <<>>
  <2>1. Here => c.argc = 2 /\ c.flags # {}  BY <1>3 DEF Here
  <2>2. Here => Len(s) = 0  BY <1>2, <2>1
  <2> QED  BY <1>1, <2>2, EmptySeq
<1>6. c.argc <= 2 => Short \/ Here
  <2>1. c.argc <= 2 => c.argc = 1 \/ c.argc = 2  BY <1>1, <1>2
  <2> QED  BY <2>1 DEF Short, Here
<1>7. t \in Seq(Dirs) /\ Permuted(s, t) /\ KeyOrder(t)
  <2>1. Dirs \in SUBSET (Names \cup Dirs)  OBVIOUS
  <2> QED  BY <1>1, <2>1, SortHiddenIs
<1>8. \A d : Times(d, t) = Times(d, s)  BY <1>1, <1>7, SameTimes
<1> HIDE DEF s, t
<1>9. /\ Reverse(t) \in Seq(Dirs) /\ Permuted(t, Reverse(t)) /\ Len(Reverse(t)) = Len(t)
      /\ \A i \in 1 .. Len(t) : Reverse(t)[i] = t[Len(t) + 1 - i]
  <2>1. t \in Seq(Dirs)  BY <1>7
  <2>2. /\ Reverse(t) \in Seq(Dirs) /\ Permuted(t, Reverse(t))
        /\ \A i \in 1 .. Len(t) : Reverse(t)[i] = t[Len(t) + 1 - i]
    BY <2>1, ReversePermuted
  <2> QED  BY <2>2 DEF Permuted
<1>10. \A d : Times(d, Reverse(t)) = Times(d, s)  BY <1>7, <1>8, <1>9, SameTimes
<1>11. Len(t) \in Nat /\ DOMAIN t = 1 .. Len(t) /\ DOMAIN Reverse(t) = 1 .. Len(t)
       /\ \A i \in 1 .. Len(t) : t[i] \in Dirs /\ Key[t[i]] \in Nat
  <2>1. \A d \in Dirs : Key[d] \in Nat  BY ListingAssumption
  <2> QED  BY <1>7, <1>9, <2>1, LenProperties
<1>12. CASE Short /\ s # <<>>
  BY <1>4, <1>12 DEF Asked, s
<1>13. CASE (Short \/ Here) /\ s = <<>>
  <2>1. dirs' = <<Home>>  BY <1>4, <1>13
  <2> QED  BY <1>3, <1>13, <2>1, JustHome DEF Asked, s
<1>14. CASE ~Short /\ ~Here /\ ~Handled
  BY <1>3, <1>4, <1>14, JustHome
<1>15. CASE ~Short /\ ~Here /\ Handled /\ Flag("r")
  <2>1. dirs' = Reverse(t)  BY <1>3, <1>4, <1>15
  <2>2. Asked(cmd, {}, Reverse(t))  BY <1>6, <1>10, <1>15 DEF Asked, s
  <2>3. ASSUME NEW k \in 1 .. Len(t), NEW m \in 1 .. Len(t), k < m
        PROVE  Key[Reverse(t)[k]] >= Key[Reverse(t)[m]]
    <3>1. PICK v \in 1 .. Len(t), w \in 1 .. Len(t) :
            v = Len(t) + 1 - k /\ w = Len(t) + 1 - m /\ w < v
      <4>1. Len(t) + 1 - k \in 1 .. Len(t) /\ Len(t) + 1 - m \in 1 .. Len(t)
            /\ Len(t) + 1 - m < Len(t) + 1 - k
        BY <1>11, <2>3
      <4> QED  BY <4>1
    <3>2. Reverse(t)[k] = t[v] /\ Reverse(t)[m] = t[w]  BY <1>9, <3>1
    <3>3. Key[t[w]] <= Key[t[v]]  BY <1>7, <1>11, <3>1 DEF KeyOrder
    <3>4. Key[t[w]] \in Nat /\ Key[t[v]] \in Nat  BY <1>11
    <3>5. Key[t[v]] >= Key[t[w]]  BY <3>3, <3>4
    <3> QED  BY <3>2, <3>5
  <2>4. KeysOrdered(Reverse(t), Flag("r"))  BY <1>11, <1>15, <2>3 DEF KeysOrdered
  <2> QED  BY <2>1, <2>2, <2>4
<1>16. CASE ~Short /\ ~Here /\ Handled /\ ~Flag("r")
  <2>1. dirs' = t  BY <1>4, <1>16
  <2>2. Asked(cmd, {}, t)  BY <1>6, <1>8, <1>16 DEF Asked, s
  <2>3. KeysOrdered(t, Flag("r"))  BY <1>7, <1>16 DEF KeysOrdered, KeyOrder
  <2> QED  BY <2>1, <2>2, <2>3
<1> QED  BY <1>5, <1>12, <1>13, <1>14, <1>15, <1>16

(* A step that neither asks for a directory nor drops one.                 *)
LEMMA OperandsKept ==
  ASSUME Operands, cmd' = cmd, AllOf' = AllOf, gone \subseteq gone',
         pc \notin {"start", "undefined"}, pc' # "start", pc' = "done" => dirs' = <<>>
  PROVE  Operands'
<1>1. Handled' = Handled /\ Short' = Short /\ Flag("r")' = Flag("r")
  BY DEF Handled, Short, Here, Flag
<1>2. Handled => Asked(cmd, gone', AllOf)  BY DEF Operands, Asked
<1>3. ~Short => KeysOrdered(AllOf, Flag("r"))  BY DEF Operands
<1>4. /\ Handled' => Asked(cmd', gone', AllOf')
      /\ ~Short' => KeysOrdered(AllOf', Flag("r")')
  BY <1>1, <1>2, <1>3
<1> QED  BY <1>4 DEF Operands

LEMMA OperandsStep ==
  ASSUME ListInv, [Next]_vars PROVE Operands'
<1>1. CASE UNCHANGED vars
  BY <1>1 DEF ListInv, vars, Operands, AllOf, Current, Looking, Handled, Short, Here, Flag
<1>2. cmd' = cmd  BY Same
<1>3. Types /\ AtHome /\ Operands  BY DEF ListInv
<1>4. /\ listed \in Seq(Places) /\ dirs \in Seq(Places) /\ <<dir>> \in Seq(Places)
      /\ listed \o <<>> = listed
  BY <1>3, ConcatEmptySeq DEF Types
<1>5. CASE Start
  <2>1. listed = <<>> /\ gone = {}  BY <1>3, <1>5 DEF Start, Operands
  <2>2. pc' = "next" /\ UNCHANGED <<listed, gone>>  BY <1>5 DEF Start, fs
  <2>3. dirs' \in Seq(Places)  BY <1>3, TypesStep DEF Types
  <2>4. AllOf' = dirs'
    <3>1. (<<>> \o <<>>) \o dirs' = dirs'  BY <2>3, ConcatEmptySeq, EmptySeq
    <3> QED  BY <2>1, <2>2, <3>1 DEF AllOf, Current, Looking
  <2>5. Handled' = Handled /\ Short' = Short /\ Flag("r")' = Flag("r")
    BY <1>2 DEF Handled, Short, Here, Flag
  <2>6. /\ Handled => Asked(cmd, {}, dirs')
        /\ ~Short => KeysOrdered(dirs', Flag("r"))
    BY <1>3, <1>5, StartRight
  <2>7. gone' = {}  BY <2>1, <2>2
  <2>8. /\ Handled' => Asked(cmd', gone', AllOf')
        /\ ~Short' => KeysOrdered(AllOf', Flag("r")')
    BY <1>2, <2>4, <2>5, <2>6, <2>7
  <2> QED  BY <2>2, <2>8 DEF Operands
<1>6. CASE Access
  <2>1. /\ pc = "next" /\ pc' = "open" /\ dirs # <<>> /\ dir' = Head(dirs) /\ dirs' = Tail(dirs)
        /\ UNCHANGED <<listed, gone>>
    BY <1>6 DEF Access
  <2>2. Head(dirs) \in Places /\ Tail(dirs) \in Seq(Places)  BY <1>4, <2>1, HeadTailProperties
  <2>3. <<Head(dirs)>> \o Tail(dirs) = dirs  BY <1>4, <2>1
  <2>4. <<Head(dirs)>> \in Seq(Places)  BY <2>2
  <2>5. (listed \o <<Head(dirs)>>) \o Tail(dirs) = listed \o dirs
    BY <1>4, <2>2, <2>3, <2>4, ConcatAssociative
  <2>6. AllOf = listed \o dirs /\ AllOf' = (listed \o <<Head(dirs)>>) \o Tail(dirs)
    BY <1>4, <2>1 DEF AllOf, Current, Looking
  <2> QED  BY <1>2, <1>3, <2>1, <2>5, <2>6, OperandsKept
<1>7. CASE CannotAccess
  <2>1. /\ pc = "next" /\ dirs # <<>> /\ dirs' = Tail(dirs) /\ ~Found(Head(dirs))
        /\ UNCHANGED <<pc, listed, gone>>
    BY <1>7 DEF CannotAccess, fs
  <2>2. cwd = Home  BY <1>3, <2>1 DEF AtHome, Filled
  <2>3. Head(dirs) \in gone /\ Home \notin gone  
    <3>1. Head(dirs) \in gone  BY <2>1, <2>2 DEF Found
    <3>2. gone \subseteq Dirs /\ Home \notin Dirs  BY <1>3, ListingAssumption DEF Types
    <3> QED  BY <3>1, <3>2
  <2>4. AllOf = listed \o dirs /\ AllOf' = listed \o Tail(dirs)
    <3>1. Current = <<>> /\ Current' = <<>>  BY <2>1 DEF Current, Looking
    <3> QED  BY <1>4, <2>1, <3>1 DEF AllOf
  <2>5. /\ \A d : d # Head(dirs) => Times(d, listed \o Tail(dirs)) = Times(d, listed \o dirs)
        /\ \A turned \in BOOLEAN :
             KeysOrdered(listed \o dirs, turned) => KeysOrdered(listed \o Tail(dirs), turned)
    BY <1>4, <2>1, WithoutHead
  <2>6. listed \o dirs # <<Home>>
    <3>1. Len(listed) \in Nat /\ Len(dirs) \in Nat /\ Len(dirs) # 0  BY <1>4, <2>1, LenProperties, EmptySeq
    <3>2. Len(listed) + 1 \in 1 .. Len(listed) + Len(dirs) /\ ~(Len(listed) + 1 <= Len(listed))
          /\ (Len(listed) + 1) - Len(listed) = 1
      BY <3>1
    <3>3. /\ (listed \o dirs)[Len(listed) + 1] = dirs[1]
          /\ Len(listed \o dirs) = Len(listed) + Len(dirs)
      BY <1>4, <3>2, ConcatProperties
    <3>4. ASSUME listed \o dirs = <<Home>> PROVE FALSE
      <4>1. Len(listed) + Len(dirs) = 1  BY <3>3, <3>4
      <4>2. Len(listed) = 0  BY <3>1, <4>1
      <4>3. dirs[1] = Home  BY <3>3, <3>4, <4>2
      <4>4. Head(dirs) = dirs[1]  OBVIOUS
      <4> QED  BY <2>3, <4>3, <4>4
    <3> QED  BY <3>4
  <2>7. Handled' = Handled /\ Short' = Short /\ Flag("r")' = Flag("r") /\ Flag("r") \in BOOLEAN
    BY <1>2 DEF Handled, Short, Here, Flag
  <2>8. /\ Handled => Asked(cmd, gone, AllOf)
        /\ ~Short => KeysOrdered(AllOf, Flag("r"))
    BY <1>3, <2>1 DEF Operands
  <2>9. Handled => Asked(cmd, gone, AllOf')
    <3> SUFFICES ASSUME Handled PROVE Asked(cmd, gone, AllOf')  OBVIOUS
    <3>1. ~(cmd.operands = <<>> /\ cmd.argc <= 2)  BY <2>4, <2>6, <2>8 DEF Asked
    <3>2. ASSUME NEW d \in Dirs \ gone PROVE Times(d, AllOf') = Times(d, cmd.operands)
      <4>1. d # Head(dirs)  BY <2>3
      <4> QED  BY <2>4, <2>5, <2>8, <4>1 DEF Asked
    <3> QED  BY <3>1, <3>2 DEF Asked
  <2>10. ~Short => KeysOrdered(AllOf', Flag("r"))  BY <2>4, <2>5, <2>7, <2>8
  <2>11. /\ Handled' => Asked(cmd', gone', AllOf')
         /\ ~Short' => KeysOrdered(AllOf', Flag("r")')
    BY <1>2, <2>1, <2>7, <2>9, <2>10
  <2> QED  BY <2>1, <2>11 DEF Operands
<1>8. CASE Open \/ CountPass \/ StorePass \/ StoreFails \/ Total \/ SizeOrder
  <2>1. Looking /\ UNCHANGED <<gone, listed, dirs, dir>> /\ pc # "undefined" /\ (Looking' \/ pc' = "undefined")
    BY <1>3, <1>8
       DEF Open, CountPass, StorePass, StoreFails, Total, SizeOrder, fs, place, Looking
  <2>2. CASE pc' = "undefined"  BY <2>2 DEF Operands
  <2>3. CASE Looking'
    <3>1. AllOf' = AllOf  BY <2>1, <2>3 DEF AllOf, Current
    <3> QED  BY <1>2, <1>3, <2>1, <2>3, <3>1, OperandsKept DEF Looking
  <2> QED  BY <2>1, <2>2, <2>3
<1>9. CASE Finish
  <2>1. pc = "next" /\ pc' = "done" /\ dirs = <<>> /\ UNCHANGED <<gone, listed, dirs, dir>>
    BY <1>9 DEF Finish, fs, place
  <2>2. AllOf' = AllOf  BY <2>1 DEF AllOf, Current, Looking
  <2> QED  BY <1>2, <1>3, <2>1, <2>2, OperandsKept
<1>10. CASE PrintLong \/ PrintName
  <2>1. pc = "print" /\ UNCHANGED <<gone, dirs, dir>>
    BY <1>10 DEF PrintLong, PrintName, NextPrinted, fs
  <2>2. CASE pc' = "print" /\ listed' = listed
    <3>1. AllOf' = AllOf  BY <2>1, <2>2 DEF AllOf, Current, Looking
    <3> QED  BY <1>2, <1>3, <2>1, <2>2, <3>1, OperandsKept
  <2>3. CASE pc' = "next" /\ listed' = Append(listed, dir)
    <3>1. Append(listed, dir) = listed \o <<dir>> /\ Append(listed, dir) \in Seq(Places)
      BY <1>3, <1>4, AppendIsConcat, AppendProperties DEF Types
    <3>2. Append(listed, dir) \o <<>> = Append(listed, dir)  BY <3>1, ConcatEmptySeq
    <3>3. AllOf' = AllOf  BY <2>1, <2>3, <3>1, <3>2 DEF AllOf, Current, Looking
    <3> QED  BY <1>2, <1>3, <2>1, <2>3, <3>3, OperandsKept
  <2> QED  BY <1>10, <2>2, <2>3, PrintStep
<1>11. CASE Change \/ RemoveDir
  <2>1. UNCHANGED <<pc, listed, dirs, dir>> /\ gone \subseteq gone'
        /\ pc \in {"store", "total", "size", "print", "next", "open"}
    BY <1>11 DEF Change, RemoveDir, place
  <2>2. AllOf' = AllOf  BY <2>1 DEF AllOf, Current, Looking
  <2> QED  BY <1>2, <1>3, <2>1, <2>2, OperandsKept
<1> QED  BY <1>1, <1>5, <1>6, <1>7, <1>8, <1>9, <1>10, <1>11 DEF Next, Ls

LEMMA InvStep == ListInv /\ [Next]_vars => ListInv'
<1> SUFFICES ASSUME ListInv, [Next]_vars PROVE ListInv'  OBVIOUS
<1>1. Types /\ AtHome  BY DEF ListInv
<1>2. Types'  BY <1>1, TypesStep
<1>3. Stored' /\ Printing' /\ SortedListing'  BY StoredStep, PrintingStep, SortedStep
<1>4. AtHome' /\ Operands'  BY HomeStep, OperandsStep
<1> QED  BY <1>2, <1>3, <1>4 DEF ListInv

LEMMA InvKept == Spec => []ListInv
BY InitInv, InvStep, PTL DEF Spec

(* For any directory, names and flags, and whatever other processes create *)
(* and delete meanwhile: a listing has no name twice and none that the     *)
(* flags hide, and if nobody has changed the directory it has all the      *)
(* others in the order of sort_hidden or option_s, with -l bar those whose *)
(* owner or group has no name.                                             *)
THEOREM ListingsSorted == Spec => []SortedListing
<1>1. ListInv => SortedListing  BY DEF ListInv
<1> QED  BY <1>1, InvKept, PTL

(* For any command line that main handles: ls ends where it has been       *)
(* started and has listed every operand that was not removed, as often as  *)
(* it was named, sorted if there are options.                              *)
THEOREM AllListed == Spec => []OperandsListed
<1>1. ASSUME ListInv PROVE OperandsListed
  <2> SUFFICES ASSUME pc = "done", Handled
               PROVE  /\ cwd = Home
                      /\ cmd.operands = <<>> /\ cmd.argc <= 2 => listed = <<Home>>
                      /\ \A d \in ToSet(cmd.operands) \ gone : Times(d, listed) = Times(d, cmd.operands)
                      /\ ~Short => KeysOrdered(listed, Flag("r"))
    BY DEF OperandsListed, KeysOrdered
  <2>1. cwd = Home  BY <1>1 DEF ListInv, AtHome, Filled
  <2>2. AllOf = listed
    <3>1. dirs = <<>> /\ Current = <<>>  BY <1>1 DEF ListInv, Operands, Current, Looking
    <3>2. listed \in Seq(Places)  BY <1>1 DEF ListInv, Types
    <3>3. (listed \o <<>>) \o <<>> = listed  BY <3>2, ConcatEmptySeq
    <3> QED  BY <3>1, <3>3 DEF AllOf
  <2>3. Asked(cmd, gone, listed) /\ (~Short => KeysOrdered(listed, Flag("r")))
    BY <1>1, <2>2 DEF ListInv, Operands
  <2>4. ToSet(cmd.operands) \subseteq Dirs
    <3>1. cmd.operands \in Seq(Dirs)  BY <1>1, ListingAssumption DEF ListInv, Types
    <3> QED  BY <3>1, LenProperties DEF ToSet
  <2> QED  BY <2>1, <2>3, <2>4 DEF Asked
<1>2. ListInv => OperandsListed  BY <1>1
<1> QED  BY <1>2, InvKept, PTL

=============================================================================
