-------------------------- MODULE HtmlListingProofs --------------------------
(***************************************************************************)
(* The links, the rows and the streams of the HTML ls, for any file        *)
(* system, names, patterns, options and operands.                          *)
(***************************************************************************)
EXTENDS HtmlListing, FiniteSetTheorems, FunctionTheorems, SequenceTheorems, WellFoundedInduction, TLAPS

---------------------------------------------------------------------------
(* Induction up to n.                                                      *)

LEMMA SomeLeast ==
  ASSUME NEW T \in SUBSET Nat, T # {}
  PROVE  \E x \in T : \A y \in T : x <= y
<1>1. PICK x \in T : \A y \in T : ~(<<y, x>> \in OpToRel(<, Nat))
  BY NatLessThanWellFounded, WFMin
<1>2. \A y \in T : y \in Nat /\ x \in Nat /\ ~(y < x)  BY <1>1 DEF OpToRel
<1> QED  BY <1>2

LEMMA Upward ==
  ASSUME NEW n \in Nat, NEW G, 0 \in G, \A k \in 0 .. n - 1 : k \in G => k + 1 \in G
  PROVE  \A k \in 0 .. n : k \in G
<1> DEFINE T == {k \in 0 .. n : k \notin G}
<1> SUFFICES ASSUME T # {} PROVE FALSE  OBVIOUS
<1>1. PICK x \in T : \A y \in T : x <= y
  <2>1. T \in SUBSET Nat  OBVIOUS
  <2> HIDE DEF T
  <2> QED  BY <2>1, SomeLeast
<1>2. x \in 0 .. n /\ x # 0 /\ x \notin G  BY <1>1
<1>3. x - 1 \in 0 .. n - 1 /\ x - 1 \in 0 .. n /\ ~(x <= x - 1) /\ (x - 1) + 1 = x  BY <1>2
<1>4. x - 1 \in G  BY <1>1, <1>3
<1> QED  BY <1>2, <1>3, <1>4

---------------------------------------------------------------------------
(* Lists.                                                                  *)

LEMMA ToSetIs ==
  ASSUME NEW V, NEW s \in Seq(V)
  PROVE  /\ DOMAIN s = 1 .. Len(s) /\ Len(s) \in Nat
         /\ \A x : x \in ToSet(s) <=> \E i \in 1 .. Len(s) : s[i] = x
         /\ ToSet(s) \subseteq V
<1>1. DOMAIN s = 1 .. Len(s) /\ Len(s) \in Nat /\ \A i \in 1 .. Len(s) : s[i] \in V
  BY LenProperties, ElementOfSeq
<1> QED  BY <1>1 DEF ToSet

LEMMA NoElements == <<>> \in Seq({}) /\ ToSet(<<>>) = {} /\ IsInjective(<<>>) /\ Names(<<>>) = <<>>
  BY EmptySeq DEF ToSet, IsInjective, Names

LEMMA OneMore ==
  ASSUME NEW V, NEW s \in Seq(V), NEW x \in V
  PROVE  /\ Append(s, x) \in Seq(V) /\ Len(Append(s, x)) = Len(s) + 1
         /\ ToSet(Append(s, x)) = ToSet(s) \cup {x}
         /\ IsInjective(s) /\ x \notin ToSet(s) => IsInjective(Append(s, x))
<1> DEFINE t == Append(s, x)
           n == Len(s)
<1>1. t \in Seq(V) /\ Len(t) = n + 1 /\ (\A i \in 1 .. n : t[i] = s[i]) /\ t[n + 1] = x
  BY AppendProperties
<1> HIDE DEF t
<1>2. DOMAIN s = 1 .. n /\ n \in Nat /\ DOMAIN t = 1 .. n + 1
      /\ (\A y : y \in ToSet(s) <=> \E i \in 1 .. n : s[i] = y)
      /\ (\A y : y \in ToSet(t) <=> \E i \in 1 .. n + 1 : t[i] = y)
  BY <1>1, ToSetIs
<1>3. \A i : i \in 1 .. n + 1 <=> i \in 1 .. n \/ i = n + 1  BY <1>2
<1>4. ToSet(t) = ToSet(s) \cup {x}
  <2> SUFFICES ASSUME NEW y PROVE y \in ToSet(t) <=> y \in ToSet(s) \/ y = x  OBVIOUS
  <2> QED  BY <1>1, <1>2, <1>3
<1>5. ASSUME IsInjective(s), x \notin ToSet(s) PROVE IsInjective(t)
  <2> SUFFICES ASSUME NEW i \in 1 .. n + 1, NEW k \in 1 .. n + 1, t[i] = t[k] PROVE i = k
    BY <1>2 DEF IsInjective
  <2>1. CASE i \in 1 .. n /\ k \in 1 .. n
    BY <1>1, <1>2, <1>5, <2>1 DEF IsInjective
  <2>2. CASE i = n + 1 /\ k \in 1 .. n  BY <1>1, <1>2, <1>5, <2>2
  <2>3. CASE k = n + 1 /\ i \in 1 .. n  BY <1>1, <1>2, <1>5, <2>3
  <2> QED  BY <1>3, <2>1, <2>2, <2>3
<1> QED  BY <1>1, <1>4, <1>5 DEF t

LEMMA OneLess ==
  ASSUME NEW V, NEW s \in Seq(V), s # <<>>
  PROVE  /\ Tail(s) \in Seq(V) /\ Head(s) \in ToSet(s) /\ Head(s) \in V
         /\ Len(Tail(s)) = Len(s) - 1 /\ Len(s) \in Nat \ {0} /\ Head(s) = s[1]
         /\ \A i \in 1 .. Len(s) - 1 : Tail(s)[i] = s[i + 1]
         /\ ToSet(Tail(s)) \subseteq ToSet(s)
         /\ IsInjective(s) => IsInjective(Tail(s)) /\ ToSet(Tail(s)) = ToSet(s) \ {Head(s)}
<1> DEFINE t == Tail(s)
           n == Len(s)
<1>1. n \in Nat \ {0} /\ DOMAIN s = 1 .. n  BY LenProperties, EmptySeq
<1>2. t \in Seq(V) /\ Len(t) = n - 1 /\ (\A i \in 1 .. n - 1 : t[i] = s[i + 1])
  BY HeadTailProperties
<1>3. Head(s) = s[1] /\ 1 \in 1 .. n  BY <1>1
<1> HIDE DEF t
<1>4. /\ \A y : y \in ToSet(s) <=> \E i \in 1 .. n : s[i] = y
      /\ \A y : y \in ToSet(t) <=> \E i \in 1 .. n - 1 : t[i] = y
      /\ ToSet(s) \subseteq V /\ DOMAIN t = 1 .. n - 1
  BY <1>2, ToSetIs
<1>5. \A i \in 1 .. n - 1 : i + 1 \in 1 .. n /\ i + 1 # 1  BY <1>1
<1>6. \A i \in 1 .. n : i = 1 \/ (i - 1 \in 1 .. n - 1 /\ (i - 1) + 1 = i)  BY <1>1
<1>7. ToSet(t) \subseteq ToSet(s)
  <2> SUFFICES ASSUME NEW y \in ToSet(t) PROVE y \in ToSet(s)  OBVIOUS
  <2> QED  BY <1>2, <1>4, <1>5
<1>8. ASSUME IsInjective(s) PROVE IsInjective(t) /\ ToSet(t) = ToSet(s) \ {Head(s)}
  <2>1. \A i, k \in 1 .. n : s[i] = s[k] => i = k  BY <1>1, <1>8 DEF IsInjective
  <2>2. ASSUME NEW i \in 1 .. n - 1, NEW k \in 1 .. n - 1, t[i] = t[k] PROVE i = k
    <3>1. i + 1 = k + 1  BY <1>2, <1>5, <2>1, <2>2
    <3> QED  BY <1>1, <3>1
  <2>3. \A y \in ToSet(t) : y # Head(s)
    <3> SUFFICES ASSUME NEW i \in 1 .. n - 1 PROVE t[i] # s[1]  BY <1>3, <1>4
    <3> QED  BY <1>2, <1>3, <1>5, <2>1
  <2>4. \A y \in ToSet(s) : y # Head(s) => y \in ToSet(t)
    <3> SUFFICES ASSUME NEW i \in 1 .. n, i # 1 PROVE s[i] \in ToSet(t)  BY <1>3, <1>4
    <3>1. i - 1 \in 1 .. n - 1 /\ t[i - 1] = s[i]  BY <1>2, <1>6
    <3> QED  BY <1>4, <3>1
  <2>5. IsInjective(t)  BY <1>4, <2>2 DEF IsInjective
  <2> QED  BY <1>7, <2>3, <2>4, <2>5
<1> QED  BY <1>1, <1>2, <1>3, <1>4, <1>7, <1>8 DEF t

LEMMA LastName ==
  ASSUME NEW V, NEW u \in Seq(V), NEW n \in V
  PROVE  /\ Front(Append(u, n)) = u /\ Last(Append(u, n)) = n /\ Append(u, n) \in Seq(V)
         /\ Append(u, n) # <<>>
<1>1. /\ Append(u, n) \in Seq(V) /\ Len(Append(u, n)) = Len(u) + 1 /\ Len(u) \in Nat
      /\ \A i \in 1 .. Len(u) : Append(u, n)[i] = u[i]
      /\ Append(u, n)[Len(u) + 1] = n
  BY AppendProperties, LenProperties
<1>2. Front(Append(u, n)) = SubSeq(Append(u, n), 1, Len(u))  BY <1>1 DEF Front
<1>3. SubSeq(Append(u, n), 1, Len(u)) = u
  <2>1. \A i \in 1 .. Len(u) : Append(u, n)[i] \in V  BY <1>1, ElementOfSeq
  <2>2. /\ SubSeq(Append(u, n), 1, Len(u)) \in Seq(V)
        /\ Len(SubSeq(Append(u, n), 1, Len(u))) = Len(u)
        /\ \A i \in 1 .. Len(u) : SubSeq(Append(u, n), 1, Len(u))[i] = Append(u, n)[1 + i - 1]
    BY <1>1, <2>1, SubSeqProperties
  <2>3. \A i \in 1 .. Len(u) : SubSeq(Append(u, n), 1, Len(u))[i] = u[i]  BY <1>1, <2>2
  <2> QED  BY <2>2, <2>3, SeqEqual
<1>4. Append(u, n) # <<>>  BY <1>1, EmptySeq
<1> QED  BY <1>1, <1>2, <1>3, <1>4 DEF Last

LEMMA FrontAndLast ==
  ASSUME NEW V, NEW s \in Seq(V), s # <<>>
  PROVE  /\ Front(s) \in Seq(V) /\ Last(s) \in V /\ s = Append(Front(s), Last(s))
         /\ Len(Front(s)) = Len(s) - 1
<1>1. PICK u \in Seq(V), n \in V : s = Append(u, n)  BY SequenceEmptyOrAppend
<1>2. Front(s) = u /\ Last(s) = n  BY <1>1, LastName
<1>3. Len(s) = Len(u) + 1 /\ Len(u) \in Nat  BY <1>1, AppendProperties, LenProperties
<1> QED  BY <1>1, <1>2, <1>3

LEMMA TurnedIs ==
  ASSUME NEW V, NEW s \in Seq(V)
  PROVE  /\ Turned(s) \in Seq(V) /\ Len(Turned(s)) = Len(s) /\ ToSet(Turned(s)) = ToSet(s)
         /\ IsInjective(s) => IsInjective(Turned(s))
<1> DEFINE n == Len(s)
           t == Reverse(s)
<1>1. n \in Nat /\ DOMAIN s = 1 .. n /\ s \in [1 .. n -> V]  BY LenProperties
<1>2. t = [i \in 1 .. n |-> s[(n - i) + 1]]  BY DEF Reverse
<1>3. \A i \in 1 .. n : (n - i) + 1 \in 1 .. n /\ (n - ((n - i) + 1)) + 1 = i  BY <1>1
<1>4. t \in [1 .. n -> V] /\ (\A i \in 1 .. n : t[i] = s[(n - i) + 1])  BY <1>1, <1>2, <1>3
<1> HIDE DEF t
<1>5. t \in Seq(V) /\ Len(t) = n /\ DOMAIN t = 1 .. n  BY <1>1, <1>4, IsASeq, LenProperties
<1>6. /\ \A y : y \in ToSet(s) <=> \E i \in 1 .. n : s[i] = y
      /\ \A y : y \in ToSet(t) <=> \E i \in 1 .. n : t[i] = y
  BY <1>5, ToSetIs
<1>7. \A i \in 1 .. n : s[i] = t[(n - i) + 1]  BY <1>3, <1>4
<1>8. ToSet(t) = ToSet(s)
  <2> SUFFICES ASSUME NEW y PROVE y \in ToSet(t) <=> y \in ToSet(s)  OBVIOUS
  <2> QED  BY <1>3, <1>4, <1>6, <1>7
<1>9. ASSUME IsInjective(s), NEW i \in 1 .. n, NEW k \in 1 .. n, t[i] = t[k] PROVE i = k
  <2>1. (n - i) + 1 = (n - k) + 1  BY <1>1, <1>3, <1>4, <1>9, SMTT(30) DEF IsInjective
  <2> QED  BY <1>1, <2>1
<1>10. IsInjective(s) => IsInjective(t)  BY <1>5, <1>9 DEF IsInjective
<1> QED  BY <1>5, <1>8, <1>10 DEF Turned, t

---------------------------------------------------------------------------
(* Loops over lists, as functions of their counters.                       *)

WalkBy(b, D, p, m) == b = [k \in 0 .. m |-> IF k = 0 THEN <<>> ELSE Go(D, b[k - 1], p[k])]
KeptBy(b, s, S, m) ==
  b = [k \in 0 .. m |-> IF k = 0 THEN <<>> ELSE IF s[k] \in S THEN Append(b[k - 1], s[k])
                        ELSE b[k - 1]]

LEMMA SomeWalk ==
  ASSUME NEW n \in Nat, NEW D, NEW p
  PROVE  \E b : WalkBy(b, D, p, n)
<1> DEFINE G == {m \in 0 .. n : \E b : WalkBy(b, D, p, m)}
<1>1. 0 \in G
  <2> DEFINE b == [k \in 0 .. 0 |-> <<>>]
  <2>1. b = [k \in 0 .. 0 |-> IF k = 0 THEN <<>> ELSE Go(D, b[k - 1], p[k])]  OBVIOUS
  <2>2. WalkBy(b, D, p, 0)
    <3> HIDE DEF b
    <3> QED  BY <2>1, Zenon DEF WalkBy
  <2> QED  BY <2>2
<1>2. ASSUME NEW m \in 0 .. n - 1, m \in G PROVE m + 1 \in G
  <2>1. PICK b : WalkBy(b, D, p, m)  BY <1>2
  <2> DEFINE c == [k \in 0 .. m + 1 |-> IF k = m + 1 THEN Go(D, b[m], p[m + 1]) ELSE b[k]]
  <2>2. \A k \in 0 .. m : c[k] = b[k]  OBVIOUS
  <2>3. ASSUME NEW k \in 0 .. m + 1
        PROVE  c[k] = IF k = 0 THEN <<>> ELSE Go(D, c[k - 1], p[k])
    <3>1. CASE k = m + 1
      <4>1. k # 0 /\ k - 1 = m /\ m \in 0 .. m  BY <3>1
      <4>2. c[k] = Go(D, b[m], p[k])  BY <3>1
      <4> HIDE DEF c
      <4> QED  BY <2>2, <4>1, <4>2
    <3>2. CASE k # m + 1
      <4>1. k \in 0 .. m /\ (k # 0 => k - 1 \in 0 .. m)  BY <3>2
      <4>2. b[k] = IF k = 0 THEN <<>> ELSE Go(D, b[k - 1], p[k])  BY <2>1, <4>1, Zenon DEF WalkBy
      <4> HIDE DEF c
      <4> QED  BY <2>2, <4>1, <4>2
    <3> QED  BY <3>1, <3>2
  <2>4. c = [k \in 0 .. m + 1 |-> c[k]]  OBVIOUS
  <2>5. WalkBy(c, D, p, m + 1)
    <3> HIDE DEF c
    <3> QED  BY <2>3, <2>4, Zenon DEF WalkBy
  <2>6. m + 1 \in 0 .. n  OBVIOUS
  <2> HIDE DEF c
  <2> QED  BY <2>5, <2>6
<1>3. \A m \in 0 .. n : m \in G
  <2> HIDE DEF G
  <2> QED  BY <1>1, <1>2, Upward
<1>4. n \in G  BY <1>3
<1> QED  BY <1>4

Walks(b, D, p) == /\ ResolveIn(D, p) = b[Len(p)] /\ b[0] = <<>>
                  /\ \A k \in 1 .. Len(p) : b[k] = Go(D, b[k - 1], p[k])

LEMMA ResolveWalks ==
  ASSUME NEW V, NEW D, NEW p \in Seq(V)
  PROVE  \E b : Walks(b, D, p)
<1> DEFINE n == Len(p)
           b == CHOOSE b : WalkBy(b, D, p, n)
<1>1. n \in Nat  BY LenProperties
<1>2. ResolveIn(D, p) = b[n]  BY DEF ResolveIn, WalkBy
<1>3. WalkBy(b, D, p, n)  BY <1>1, SomeWalk
<1> HIDE DEF b
<1>4. \A k \in 0 .. n : b[k] = IF k = 0 THEN <<>> ELSE Go(D, b[k - 1], p[k])
  BY <1>3, Zenon DEF WalkBy
<1>5. \A k \in 1 .. n : k \in 0 .. n /\ k # 0  BY <1>1
<1>6. 0 \in 0 .. n  BY <1>1
<1>7. b[0] = <<>> /\ \A k \in 1 .. n : b[k] = Go(D, b[k - 1], p[k])  BY <1>4, <1>5, <1>6
<1> QED  BY <1>2, <1>7 DEF Walks

LEMMA SomeKept ==
  ASSUME NEW n \in Nat, NEW s, NEW S
  PROVE  \E b : KeptBy(b, s, S, n)
<1> DEFINE G == {m \in 0 .. n : \E b : KeptBy(b, s, S, m)}
           More(t, k) == IF s[k] \in S THEN Append(t, s[k]) ELSE t
<1>1. 0 \in G
  <2> DEFINE b == [k \in 0 .. 0 |-> <<>>]
  <2>1. b = [k \in 0 .. 0 |-> IF k = 0 THEN <<>> ELSE IF s[k] \in S THEN Append(b[k - 1], s[k])
                              ELSE b[k - 1]]
    OBVIOUS
  <2>2. KeptBy(b, s, S, 0)
    <3> HIDE DEF b
    <3> QED  BY <2>1, Zenon DEF KeptBy
  <2> QED  BY <2>2
<1>2. ASSUME NEW m \in 0 .. n - 1, m \in G PROVE m + 1 \in G
  <2>1. PICK b : KeptBy(b, s, S, m)  BY <1>2
  <2> DEFINE c == [k \in 0 .. m + 1 |-> IF k = m + 1 THEN More(b[m], m + 1) ELSE b[k]]
  <2>2. \A k \in 0 .. m : c[k] = b[k]  OBVIOUS
  <2>3. ASSUME NEW k \in 0 .. m + 1
        PROVE  c[k] = IF k = 0 THEN <<>> ELSE IF s[k] \in S THEN Append(c[k - 1], s[k])
                      ELSE c[k - 1]
    <3>1. CASE k = m + 1
      <4>1. k # 0 /\ k - 1 = m /\ m \in 0 .. m  BY <3>1
      <4>2. c[k] = More(b[m], k)  BY <3>1
      <4> HIDE DEF c
      <4> QED  BY <2>2, <4>1, <4>2
    <3>2. CASE k # m + 1
      <4>1. k \in 0 .. m /\ (k # 0 => k - 1 \in 0 .. m)  BY <3>2
      <4>2. b[k] = IF k = 0 THEN <<>> ELSE IF s[k] \in S THEN Append(b[k - 1], s[k]) ELSE b[k - 1]
        BY <2>1, <4>1, Zenon DEF KeptBy
      <4> HIDE DEF c
      <4> QED  BY <2>2, <4>1, <4>2
    <3> QED  BY <3>1, <3>2
  <2>4. c = [k \in 0 .. m + 1 |-> c[k]]  OBVIOUS
  <2>5. KeptBy(c, s, S, m + 1)
    <3> HIDE DEF c
    <3> QED  BY <2>3, <2>4, Zenon DEF KeptBy
  <2>6. m + 1 \in 0 .. n  OBVIOUS
  <2> HIDE DEF c
  <2> QED  BY <2>5, <2>6
<1>3. \A m \in 0 .. n : m \in G
  <2> HIDE DEF G
  <2> QED  BY <1>1, <1>2, Upward
<1>4. n \in G  BY <1>3
<1> QED  BY <1>4

LEMMA KeptIs ==
  ASSUME NEW V, NEW s \in Seq(V), NEW S
  PROVE  /\ Kept(s, S) \in Seq(V) /\ ToSet(Kept(s, S)) = ToSet(s) \cap S
         /\ IsInjective(s) => IsInjective(Kept(s, S))
         /\ s = <<>> => Kept(s, S) = <<>>
         /\ Len(s) = 1 => Kept(s, S) = IF s[1] \in S THEN <<s[1]>> ELSE <<>>
<1> DEFINE n == Len(s)
           b == CHOOSE b : KeptBy(b, s, S, n)
<1>1. n \in Nat /\ DOMAIN s = 1 .. n /\ \A i \in 1 .. n : s[i] \in V  BY LenProperties, ElementOfSeq
<1>2. Kept(s, S) = b[n]  BY DEF Kept, KeptBy
<1>3. KeptBy(b, s, S, n)  BY <1>1, SomeKept
<1> HIDE DEF b
<1>4. \A k \in 0 .. n : b[k] = IF k = 0 THEN <<>> ELSE IF s[k] \in S THEN Append(b[k - 1], s[k])
                               ELSE b[k - 1]
  BY <1>3, Zenon DEF KeptBy
<1>5. b[0] = <<>>  BY <1>1, <1>4
<1> DEFINE Good(k) == /\ b[k] \in Seq(V) /\ ToSet(b[k]) = {s[i] : i \in 1 .. k} \cap S
                      /\ IsInjective(s) => IsInjective(b[k])
           G == {k \in 0 .. n : Good(k)}
<1>6. 0 \in G
  <2>1. <<>> \in Seq(V)  BY EmptySeq
  <2>2. {s[i] : i \in 1 .. 0} = {}  OBVIOUS
  <2>3. Good(0)  BY <1>5, <2>1, <2>2, NoElements
  <2> HIDE DEF Good
  <2> QED  BY <1>1, <2>3
<1>7. ASSUME NEW k \in 0 .. n - 1, k \in G PROVE k + 1 \in G
  <2>1. k + 1 \in 1 .. n /\ k + 1 \in 0 .. n /\ k + 1 # 0 /\ (k + 1) - 1 = k  BY <1>1
  <2>2. b[k + 1] = IF s[k + 1] \in S THEN Append(b[k], s[k + 1]) ELSE b[k]  BY <1>4, <2>1
  <2>3. {s[i] : i \in 1 .. k + 1} = {s[i] : i \in 1 .. k} \cup {s[k + 1]}
    <3>1. \A i : i \in 1 .. k + 1 <=> i \in 1 .. k \/ i = k + 1  OBVIOUS
    <3> QED  BY <3>1
  <2>4. IsInjective(s) => s[k + 1] \notin {s[i] : i \in 1 .. k}
    <3>1. \A i \in 1 .. k : i \in 1 .. n /\ i # k + 1  BY <1>1
    <3> QED  BY <1>1, <2>1, <3>1 DEF IsInjective
  <2>5. Good(k)  BY <1>7
  <2>6. s[k + 1] \in V  BY <1>1, <2>1
  <2>7. CASE s[k + 1] \in S
    <3>1. b[k + 1] = Append(b[k], s[k + 1])  BY <2>2, <2>7
    <3>2. /\ b[k + 1] \in Seq(V) /\ ToSet(b[k + 1]) = ToSet(b[k]) \cup {s[k + 1]}
          /\ IsInjective(b[k]) /\ s[k + 1] \notin ToSet(b[k]) => IsInjective(b[k + 1])
      BY <2>5, <2>6, <3>1, OneMore
    <3>3. Good(k + 1)  BY <2>3, <2>4, <2>5, <2>7, <3>2
    <3> QED  BY <2>1, <3>3
  <2>8. CASE s[k + 1] \notin S
    <3>1. b[k + 1] = b[k]  BY <2>2, <2>8
    <3>2. Good(k + 1)  BY <2>3, <2>5, <2>8, <3>1
    <3> QED  BY <2>1, <3>2
  <2> QED  BY <2>7, <2>8
<1>8. \A k \in 0 .. n : k \in G
  <2> HIDE DEF G
  <2> QED  BY <1>1, <1>6, <1>7, Upward
<1>9. Good(n)
  <2>1. n \in 0 .. n  BY <1>1
  <2>2. n \in G
    <3> HIDE DEF G
    <3> QED  BY <1>8, <2>1
  <2> QED  BY <2>2
<1>10. ToSet(s) = {s[i] : i \in 1 .. n}  BY <1>1 DEF ToSet
<1>11. n = 1 => b[n] = IF s[1] \in S THEN <<s[1]>> ELSE <<>>
  <2> SUFFICES ASSUME n = 1 PROVE b[1] = IF s[1] \in S THEN <<s[1]>> ELSE <<>>  OBVIOUS
  <2>1. 1 \in 0 .. n /\ 1 # 0 /\ 1 - 1 = 0  OBVIOUS
  <2>2. b[1] = IF s[1] \in S THEN Append(b[0], s[1]) ELSE b[0]  BY <1>4, <2>1
  <2>3. Append(<<>>, s[1]) = <<s[1]>>  OBVIOUS
  <2> QED  BY <1>5, <2>2, <2>3
<1>12. s = <<>> => n = 0  BY EmptySeq
<1> QED  BY <1>2, <1>5, <1>9, <1>10, <1>11, <1>12

LEMMA KeptSame ==
  ASSUME NEW V, NEW s \in Seq(V), NEW S, NEW T, ToSet(s) \cap S = ToSet(s) \cap T
  PROVE  Kept(s, S) = Kept(s, T)
<1> DEFINE n == Len(s)
           b == CHOOSE b : KeptBy(b, s, S, n)
           c == CHOOSE c : KeptBy(c, s, T, n)
<1>1. n \in Nat /\ \A i \in 1 .. n : s[i] \in ToSet(s)  BY ToSetIs
<1>2. Kept(s, S) = b[n] /\ Kept(s, T) = c[n]  BY DEF Kept, KeptBy
<1>3. KeptBy(b, s, S, n) /\ KeptBy(c, s, T, n)  BY <1>1, SomeKept
<1> HIDE DEF b, c
<1>4. \A k \in 0 .. n :
        /\ b[k] = IF k = 0 THEN <<>> ELSE IF s[k] \in S THEN Append(b[k - 1], s[k]) ELSE b[k - 1]
        /\ c[k] = IF k = 0 THEN <<>> ELSE IF s[k] \in T THEN Append(c[k - 1], s[k]) ELSE c[k - 1]
  BY <1>3, Zenon DEF KeptBy
<1> DEFINE G == {k \in 0 .. n : b[k] = c[k]}
<1>5. 0 \in G
  <2>1. 0 \in 0 .. n  BY <1>1
  <2> QED  BY <1>4, <2>1
<1>6. ASSUME NEW k \in 0 .. n - 1, k \in G PROVE k + 1 \in G
  <2>1. k + 1 \in 1 .. n /\ k + 1 \in 0 .. n /\ k + 1 # 0 /\ (k + 1) - 1 = k  BY <1>1
  <2>2. s[k + 1] \in S <=> s[k + 1] \in T  BY <1>1, <2>1
  <2>3. b[k] = c[k]  BY <1>6
  <2> QED  BY <1>4, <2>1, <2>2, <2>3
<1>7. \A k \in 0 .. n : k \in G
  <2> HIDE DEF G
  <2> QED  BY <1>1, <1>5, <1>6, Upward
<1>8. n \in 0 .. n  BY <1>1
<1> QED  BY <1>2, <1>7, <1>8

---------------------------------------------------------------------------
(* Paths.  D is closed under going up.                                     *)

LEMMA ResolveEmpty == ASSUME NEW D PROVE ResolveIn(D, <<>>) = <<>>
<1>1. PICK b : Walks(b, D, <<>>)  BY NoElements, ResolveWalks
<1>2. Len(<<>>) = 0  BY EmptySeq
<1> QED  BY <1>1, <1>2 DEF Walks

LEMMA ResolveMore ==
  ASSUME NEW V, NEW D, NEW p \in Seq(V), NEW n \in V
  PROVE  ResolveIn(D, Append(p, n)) = Go(D, ResolveIn(D, p), n)
<1> DEFINE q == Append(p, n)
           l == Len(p)
<1>1. q \in Seq(V) /\ Len(q) = l + 1 /\ (\A i \in 1 .. l : q[i] = p[i]) /\ q[l + 1] = n /\ l \in Nat
  BY AppendProperties, LenProperties
<1> HIDE DEF q
<1>2. PICK b : Walks(b, D, p)  BY ResolveWalks
<1>3. PICK c : Walks(c, D, q)  BY <1>1, ResolveWalks
<1> DEFINE G == {k \in 0 .. l : b[k] = c[k]}
<1>4. 0 \in G  BY <1>1, <1>2, <1>3 DEF Walks
<1>5. ASSUME NEW k \in 0 .. l - 1, k \in G PROVE k + 1 \in G
  <2>1. k + 1 \in 1 .. l /\ k + 1 \in 1 .. l + 1 /\ (k + 1) - 1 = k /\ k + 1 \in 0 .. l  BY <1>1
  <2>2. b[k + 1] = Go(D, b[k], p[k + 1])  BY <1>2, <2>1 DEF Walks
  <2>3. c[k + 1] = Go(D, c[k], q[k + 1])  BY <1>1, <1>3, <2>1 DEF Walks
  <2>4. q[k + 1] = p[k + 1] /\ b[k] = c[k]  BY <1>1, <1>5, <2>1
  <2> QED  BY <2>1, <2>2, <2>3, <2>4
<1>6. \A k \in 0 .. l : k \in G
  <2> HIDE DEF G
  <2> QED  BY <1>1, <1>4, <1>5, Upward
<1>7. b[l] = c[l]  BY <1>1, <1>6
<1>8. c[l + 1] = Go(D, c[l], n)
  <2>1. l + 1 \in 1 .. l + 1 /\ (l + 1) - 1 = l  BY <1>1
  <2> QED  BY <1>1, <1>3, <2>1 DEF Walks
<1> QED  BY <1>1, <1>2, <1>3, <1>7, <1>8 DEF Walks, q

Closed(D) ==
  /\ <<>> \in D /\ NoDir \notin D /\ D \subseteq Seq(Entry)
  /\ \A e \in D \ {<<>>} : Front(e) \in D /\ Last(e) \notin Dots

LEMMA GoStays ==
  ASSUME NEW D, Closed(D), NEW d \in D \cup {NoDir}, NEW n
  PROVE  Go(D, d, n) \in D \cup {NoDir}
  BY DEF Closed, Go

LEMMA ResolveStays ==
  ASSUME NEW D, Closed(D), NEW V, NEW p \in Seq(V)
  PROVE  ResolveIn(D, p) \in D \cup {NoDir}
<1> DEFINE n == Len(p)
<1>1. PICK b : Walks(b, D, p)  BY ResolveWalks
<1>2. n \in Nat  BY LenProperties
<1> DEFINE G == {k \in 0 .. n : b[k] \in D \cup {NoDir}}
<1>3. 0 \in G  BY <1>1, <1>2 DEF Closed, Walks
<1>4. ASSUME NEW k \in 0 .. n - 1, k \in G PROVE k + 1 \in G
  <2>1. k + 1 \in 1 .. n /\ (k + 1) - 1 = k /\ k + 1 \in 0 .. n  BY <1>2
  <2>2. b[k + 1] = Go(D, b[k], p[k + 1])  BY <1>1, <2>1 DEF Walks
  <2>3. Go(D, b[k], p[k + 1]) \in D \cup {NoDir}  BY <1>4, GoStays
  <2> QED  BY <2>1, <2>2, <2>3
<1>5. \A k \in 0 .. n : k \in G
  <2> HIDE DEF G
  <2> QED  BY <1>2, <1>3, <1>4, Upward
<1> QED  BY <1>1, <1>2, <1>5 DEF Walks

LEMMA ResolveFixed ==
  ASSUME NEW D, Closed(D), NEW d \in D
  PROVE  ResolveIn(D, d) = d
<1> DEFINE n == Len(d)
           G == {k \in 0 .. n : \A e \in D : Len(e) = k => ResolveIn(D, e) = e}
<1>1. n \in Nat  BY LenProperties DEF Closed
<1>2. 0 \in G
  <2>1. \A e \in D : Len(e) = 0 => e = <<>>  BY EmptySeq DEF Closed
  <2> QED  BY <1>1, <2>1, ResolveEmpty
<1>3. ASSUME NEW k \in 0 .. n - 1, k \in G PROVE k + 1 \in G
  <2> SUFFICES ASSUME NEW e \in D, Len(e) = k + 1 PROVE ResolveIn(D, e) = e  BY <1>1
  <2>1. e \in Seq(Entry) /\ e # <<>>
    <3>1. Len(<<>>) = 0 /\ k + 1 # 0  BY EmptySeq
    <3> QED  BY <3>1 DEF Closed
  <2>2. /\ Front(e) \in Seq(Entry) /\ Last(e) \in Entry /\ e = Append(Front(e), Last(e))
        /\ Len(Front(e)) = k
    BY <2>1, FrontAndLast
  <2>3. Front(e) \in D /\ Last(e) \notin Dots  BY <2>1 DEF Closed
  <2>4. ResolveIn(D, Front(e)) = Front(e)  BY <1>3, <2>2, <2>3
  <2>5. ResolveIn(D, Append(Front(e), Last(e))) = Go(D, ResolveIn(D, Front(e)), Last(e))
    BY <2>2, ResolveMore
  <2>6. Front(e) # NoDir  BY <2>3 DEF Closed
  <2> QED  BY <2>2, <2>3, <2>4, <2>5, <2>6 DEF Go, Dots
<1>4. \A k \in 0 .. n : k \in G
  <2> HIDE DEF G
  <2> QED  BY <1>1, <1>2, <1>3, Upward
<1>5. n \in G  BY <1>1, <1>4
<1> QED  BY <1>5

LEMMA FileSystemClosed == ASSUME NEW t, FileSystem(t) PROVE Closed(DOMAIN t)
  BY DEF FileSystem, Closed

---------------------------------------------------------------------------
(* Sorting: the number of the names before it is the place of a name; it   *)
(* is different for each name, so there is a name for each place.          *)

Orders(before, S) ==
  /\ \A m \in S : <<m, m>> \notin before
  /\ \A m, n \in S : m # n => <<m, n>> \in before \/ <<n, m>> \in before
  /\ \A k, m, n \in S : <<k, m>> \in before /\ <<m, n>> \in before => <<k, n>> \in before

(* s lists the members of S, each once.                                    *)
Lists(s, S) == s \in Seq(Entry) /\ IsInjective(s) /\ ToSet(s) = S

LEMMA OrderedLists ==
  ASSUME NEW S \in SUBSET Entry, NEW before, Orders(before, S)
  PROVE  Lists(Ordered(S, before), S)
<1> DEFINE below(n) == {m \in S : <<m, n>> \in before}
           c == Cardinality(S)
           r == [n \in S |-> Cardinality(below(n))]
           s == Ordered(S, before)
<1>1. IsFiniteSet(S) /\ c \in Nat
  BY HtmlListingAssumption, FS_Subset, FS_CardinalityType
<1>2. ASSUME NEW n \in S
      PROVE  IsFiniteSet(below(n)) /\ Cardinality(below(n)) \in Nat /\ Cardinality(below(n)) < c
  <2>1. below(n) \in SUBSET S /\ n \notin below(n)  BY DEF Orders
  <2>2. /\ IsFiniteSet(below(n)) /\ Cardinality(below(n)) <= c
        /\ c = Cardinality(below(n)) => S = below(n)
    BY <1>1, <2>1, FS_Subset
  <2>3. Cardinality(below(n)) \in Nat  BY <2>2, FS_CardinalityType
  <2> HIDE DEF below
  <2> QED  BY <1>1, <2>1, <2>2, <2>3
<1>3. ASSUME NEW m \in S, NEW n \in S, <<m, n>> \in before
      PROVE  Cardinality(below(m)) < Cardinality(below(n))
  <2>1. below(m) \in SUBSET below(n)  BY <1>3 DEF Orders
  <2>2. m \in below(n) /\ m \notin below(m)  BY <1>3 DEF Orders
  <2>3. /\ Cardinality(below(m)) <= Cardinality(below(n))
        /\ Cardinality(below(n)) = Cardinality(below(m)) => below(n) = below(m)
    BY <1>2, <2>1, FS_Subset
  <2> HIDE DEF below
  <2> QED  BY <1>2, <2>2, <2>3
<1>4. r \in [S -> 0 .. c - 1]
  <2> HIDE DEF below
  <2> QED  BY <1>1, <1>2
<1>5. \A m, n \in S : r[m] = r[n] => m = n
  <2> SUFFICES ASSUME NEW m \in S, NEW n \in S, m # n PROVE r[m] # r[n]  OBVIOUS
  <2>1. r[m] = Cardinality(below(m)) /\ r[n] = Cardinality(below(n))  OBVIOUS
  <2>2. r[m] \in Nat /\ r[n] \in Nat  BY <1>2, <2>1
  <2>3. <<m, n>> \in before => r[m] < r[n]  BY <1>3, <2>1
  <2>4. <<n, m>> \in before => r[n] < r[m]  BY <1>3, <2>1
  <2> HIDE DEF r
  <2> QED  BY <2>2, <2>3, <2>4 DEF Orders
<1> HIDE DEF r
<1>6. ASSUME NEW k \in 1 .. c PROVE \E n \in S : r[n] = k - 1
  <2>1. IsFiniteSet(0 .. c - 1) /\ Cardinality(0 .. c - 1) = c
    <3>1. 0 \in Int /\ c - 1 \in Int /\ (0 > c - 1 <=> c = 0) /\ (c - 1) - 0 + 1 = c  BY <1>1
    <3>2. /\ IsFiniteSet(0 .. c - 1)
          /\ Cardinality(0 .. c - 1) = IF 0 > c - 1 THEN 0 ELSE (c - 1) - 0 + 1
      BY <3>1, FS_Interval
    <3> QED  BY <3>1, <3>2
  <2>2. r \in Injection(S, 0 .. c - 1)  BY <1>4, <1>5 DEF Injection, IsInjective
  <2>3. r \in Surjection(S, 0 .. c - 1)  BY <1>1, <2>1, <2>2, FS_Injection
  <2>4. k - 1 \in 0 .. c - 1  BY <1>1
  <2> QED  BY <2>3, <2>4 DEF Surjection
<1>7. ASSUME NEW k \in 1 .. c PROVE s[k] \in S /\ r[s[k]] = k - 1
  <2>1. s[k] = CHOOSE n \in S : Cardinality(below(n)) = k - 1  BY DEF Ordered
  <2>2. \E n \in S : Cardinality(below(n)) = k - 1  BY <1>6 DEF r
  <2>3. s[k] \in S /\ Cardinality(below(s[k])) = k - 1
    <3> HIDE DEF below
    <3> QED  BY <2>1, <2>2
  <2> QED  BY <2>3 DEF r
<1>8. s \in [1 .. c -> S]  BY <1>7 DEF Ordered
<1> HIDE DEF s
<1>9. s \in Seq(S) /\ Len(s) = c /\ s \in Seq(Entry)
  <2>1. s \in [1 .. c -> Entry]  BY <1>8
  <2> QED  BY <1>1, <1>8, <2>1, IsASeq, LenProperties
<1>10. \A y : y \in ToSet(s) <=> \E k \in 1 .. c : s[k] = y  BY <1>9, ToSetIs
<1>11. ASSUME NEW n \in S PROVE \E k \in 1 .. c : s[k] = n
  <2>1. r[n] + 1 \in 1 .. c /\ (r[n] + 1) - 1 = r[n]  BY <1>1, <1>4
  <2>2. r[s[r[n] + 1]] = r[n] /\ s[r[n] + 1] \in S  BY <1>7, <2>1
  <2>3. s[r[n] + 1] = n  BY <1>5, <2>2
  <2> QED  BY <2>1, <2>3
<1>12. ToSet(s) = S  BY <1>7, <1>10, <1>11
<1>13. IsInjective(s)
  <2>1. ASSUME NEW i \in 1 .. c, NEW k \in 1 .. c, s[i] = s[k] PROVE i = k
    <3>1. i - 1 = k - 1  BY <1>7, <2>1
    <3> QED  BY <1>1, <3>1
  <2> QED  BY <1>8, <2>1 DEF IsInjective
<1> QED  BY <1>9, <1>12, <1>13 DEF Lists, s

LEMMA SortsList ==
  ASSUME NEW S \in SUBSET Entry
  PROVE  Lists(SortHidden(S), S) /\ Lists(OptionS(S), S)
<1>1. /\ \A n \in Entry : Key[n] \in Nat /\ Size[n] \in Nat
      /\ \A m, n \in Entry : Key[m] = Key[n] => m = n
  BY HtmlListingAssumption DEF IsInjective, Entry
<1>2. \A m, n \in Entry : <<m, n>> \in ByKey <=> Key[m] < Key[n]  BY DEF ByKey
<1> DEFINE b == {x \in Entry \X Entry : \/ Size[x[1]] > Size[x[2]]
                                        \/ Size[x[1]] = Size[x[2]] /\ x \in ByKey}
<1>3. \A m, n \in Entry : <<m, n>> \in b <=> \/ Size[m] > Size[n]
                                             \/ Size[m] = Size[n] /\ Key[m] < Key[n]
  BY <1>2
<1> HIDE DEF b
<1>4. Orders(ByKey, S)  BY <1>1, <1>2 DEF Orders
<1>5. Orders(b, S)
  <2>1. \A m \in S : <<m, m>> \notin b  BY <1>1, <1>3
  <2>2. \A m, n \in S : m # n => <<m, n>> \in b \/ <<n, m>> \in b  BY <1>1, <1>3
  <2>3. ASSUME NEW k \in S, NEW m \in S, NEW n \in S, <<k, m>> \in b, <<m, n>> \in b
        PROVE  <<k, n>> \in b
    <3>1. k \in Entry /\ m \in Entry /\ n \in Entry  OBVIOUS
    <3> QED  BY <1>1, <1>3, <2>3, <3>1
  <2> QED  BY <2>1, <2>2, <2>3 DEF Orders
<1> QED  BY <1>4, <1>5, OrderedLists DEF SortHidden, OptionS, b

LEMMA TurnedLists ==
  ASSUME NEW s, NEW S, Lists(s, S)
  PROVE  Lists(Turned(s), S)
  BY TurnedIs DEF Lists

---------------------------------------------------------------------------
(* Sequences of whatever they hold.                                        *)

Sequence(s) == s \in Seq(ToSet(s))

LEMMA IsSequence ==
  ASSUME NEW V, NEW s \in Seq(V), NEW W, ToSet(s) \subseteq W
  PROVE  s \in Seq(W) /\ Sequence(s)
<1>1. Len(s) \in Nat /\ DOMAIN s = 1 .. Len(s) /\ s = [i \in 1 .. Len(s) |-> s[i]]
  BY LenProperties
<1>2. \A i \in 1 .. Len(s) : s[i] \in ToSet(s)  BY ToSetIs
<1>3. ASSUME NEW X, ToSet(s) \subseteq X PROVE s \in Seq(X)
  <2>1. s \in [1 .. Len(s) -> X]  BY <1>1, <1>2, <1>3
  <2> QED  BY <1>1, <2>1, IsASeq
<1> QED  BY <1>3 DEF Sequence

LEMMA SequenceMore ==
  ASSUME NEW s, Sequence(s), NEW x
  PROVE  /\ Sequence(Append(s, x)) /\ Append(s, x) # <<>>
         /\ ToSet(Append(s, x)) = ToSet(s) \cup {x}
         /\ Front(Append(s, x)) = s /\ Last(Append(s, x)) = x
<1> DEFINE V == ToSet(s) \cup {x}
<1>1. s \in Seq(V)
  <2>1. ToSet(s) \subseteq V  OBVIOUS
  <2> HIDE DEF V
  <2> QED  BY <2>1, IsSequence DEF Sequence
<1>2. x \in V  OBVIOUS
<1>3. ToSet(Append(s, x)) = V
  <2> HIDE DEF V
  <2>1. ToSet(Append(s, x)) = ToSet(s) \cup {x}  BY <1>1, <1>2, OneMore
  <2> QED  BY <2>1 DEF V
<1> HIDE DEF V
<1>4. Append(s, x) \in Seq(V)  BY <1>1, <1>2, OneMore
<1>5. Sequence(Append(s, x))  BY <1>3, <1>4, IsSequence
<1> QED  BY <1>1, <1>2, <1>3, <1>5, LastName DEF V

LEMMA SequenceLess ==
  ASSUME NEW s, Sequence(s), s # <<>>
  PROVE  /\ Sequence(Tail(s)) /\ Len(Tail(s)) = Len(s) - 1 /\ ToSet(Tail(s)) \subseteq ToSet(s)
         /\ Head(s) = s[1] /\ Head(s) \in ToSet(s) /\ Len(s) \in Nat \ {0}
         /\ \A i \in 1 .. Len(s) - 1 : Tail(s)[i] = s[i + 1]
         /\ Sequence(Front(s)) /\ s = Append(Front(s), Last(s))
<1>1. Tail(s) \in Seq(ToSet(s)) /\ ToSet(Tail(s)) \subseteq ToSet(s)  BY OneLess DEF Sequence
<1>2. Sequence(Tail(s))  BY <1>1, IsSequence
<1>3. Front(s) \in Seq(ToSet(s)) /\ s = Append(Front(s), Last(s))  BY FrontAndLast DEF Sequence
<1>4. Sequence(Front(s))
  <2>1. ToSet(Front(s)) \subseteq ToSet(s)  BY <1>3, ToSetIs
  <2> QED  BY <1>3, <2>1, IsSequence
<1> QED  BY <1>1, <1>2, <1>3, <1>4, OneLess DEF Sequence

LEMMA SequencesJoined ==
  ASSUME NEW s, Sequence(s), NEW t, Sequence(t)
  PROVE  /\ Sequence(s \o t) /\ ToSet(s \o t) = ToSet(s) \cup ToSet(t)
         /\ Len(s \o t) = Len(s) + Len(t) /\ Len(s) \in Nat /\ Len(t) \in Nat
         /\ \A i \in 1 .. Len(s) + Len(t) :
              (s \o t)[i] = IF i <= Len(s) THEN s[i] ELSE t[i - Len(s)]
<1> DEFINE V == ToSet(s) \cup ToSet(t)
           u == s \o t
<1>1. s \in Seq(V) /\ t \in Seq(V)
  <2>1. ToSet(s) \subseteq V /\ ToSet(t) \subseteq V  OBVIOUS
  <2> HIDE DEF V
  <2> QED  BY <2>1, IsSequence DEF Sequence
<1> HIDE DEF V
<1>2. /\ u \in Seq(V) /\ Len(u) = Len(s) + Len(t) /\ Len(s) \in Nat /\ Len(t) \in Nat
      /\ \A i \in 1 .. Len(s) + Len(t) : u[i] = IF i <= Len(s) THEN s[i] ELSE t[i - Len(s)]
  BY <1>1, ConcatProperties, LenProperties
<1> HIDE DEF u
<1>3. Sequence(u)
  <2>1. ToSet(u) \subseteq V  BY <1>2, ToSetIs
  <2> QED  BY <1>2, <2>1, IsSequence
<1>4. /\ \A y : y \in ToSet(u) <=> \E i \in 1 .. Len(s) + Len(t) : u[i] = y
      /\ \A y : y \in ToSet(s) <=> \E i \in 1 .. Len(s) : s[i] = y
      /\ \A y : y \in ToSet(t) <=> \E i \in 1 .. Len(t) : t[i] = y
  BY <1>1, <1>2, ToSetIs
<1>5. ASSUME NEW y \in ToSet(u) PROVE y \in ToSet(s) \/ y \in ToSet(t)
  <2>1. PICK i \in 1 .. Len(s) + Len(t) : u[i] = y  BY <1>4
  <2>2. CASE i <= Len(s)
    <3>1. i \in 1 .. Len(s) /\ s[i] = y  BY <1>2, <2>1, <2>2
    <3> QED  BY <1>4, <3>1
  <2>3. CASE ~(i <= Len(s))
    <3>1. i - Len(s) \in 1 .. Len(t) /\ t[i - Len(s)] = y  BY <1>2, <2>1, <2>3
    <3> QED  BY <1>4, <3>1
  <2> QED  BY <2>2, <2>3
<1>6. ASSUME NEW y \in ToSet(s) PROVE y \in ToSet(u)
  <2>1. PICK i \in 1 .. Len(s) : s[i] = y  BY <1>4
  <2>2. i \in 1 .. Len(s) + Len(t) /\ u[i] = y  BY <1>2, <2>1
  <2> QED  BY <1>4, <2>2
<1>7. ASSUME NEW y \in ToSet(t) PROVE y \in ToSet(u)
  <2>1. PICK i \in 1 .. Len(t) : t[i] = y  BY <1>4
  <2> DEFINE k == i + Len(s)
  <2>2. k \in 1 .. Len(s) + Len(t) /\ ~(k <= Len(s)) /\ k - Len(s) = i  BY <1>2
  <2> HIDE DEF k
  <2>3. u[k] = y  BY <1>2, <2>1, <2>2
  <2> QED  BY <1>4, <2>2, <2>3
<1> QED  BY <1>2, <1>3, <1>5, <1>6, <1>7 DEF u

LEMMA ResolveAppend ==
  ASSUME NEW D, NEW p, Sequence(p), NEW n
  PROVE  ResolveIn(D, Append(p, n)) = Go(D, ResolveIn(D, p), n)
<1> DEFINE V == ToSet(p) \cup {n}
<1>1. ToSet(p) \subseteq V /\ n \in V  OBVIOUS
<1> HIDE DEF V
<1>2. p \in Seq(V)  BY <1>1, IsSequence DEF Sequence
<1> QED  BY <1>1, <1>2, ResolveMore

(* The directories of a file system, and the names in them.                *)
LEMMA Directories ==
  ASSUME NEW t, FileSystem(t)
  PROVE  /\ Home \in DOMAIN t /\ <<>> \in DOMAIN t /\ NoDir \notin DOMAIN t
         /\ \A d \in DOMAIN t : /\ Sequence(d) /\ d # NoDir /\ ResolveIn(DOMAIN t, d) = d
                                /\ t[d] \subseteq Entry /\ Dots \subseteq t[d]
         /\ \A p : Sequence(p) => ResolveIn(DOMAIN t, p) \in (DOMAIN t) \cup {NoDir}
         /\ \A d \in DOMAIN t : d # <<>> => Front(d) \in DOMAIN t /\ Last(d) \notin Dots
<1>1. Closed(DOMAIN t)  BY FileSystemClosed
<1>2. \A d \in DOMAIN t : Sequence(d)
  <2>1. \A d \in DOMAIN t : d \in Seq(Entry)  BY DEF FileSystem
  <2>2. \A d \in DOMAIN t : ToSet(d) \subseteq Entry  BY <2>1, ToSetIs
  <2> QED  BY <2>1, <2>2, IsSequence
<1>3. \A p : Sequence(p) => ResolveIn(DOMAIN t, p) \in (DOMAIN t) \cup {NoDir}
  BY <1>1, ResolveStays DEF Sequence
<1>4. \A d \in DOMAIN t : ResolveIn(DOMAIN t, d) = d  BY <1>1, ResolveFixed
<1> QED  BY <1>2, <1>3, <1>4 DEF FileSystem

(* The directory, of those a process is in, that a name is that of.        *)
LEMMA NamesHere ==
  ASSUME NEW t, FileSystem(t), NEW n \in Entry, n \notin Hidden
  PROVE  LET d == ResolveIn(DOMAIN t, Append(Home, n)) IN
         /\ d # NoDir => d = Append(Home, n) /\ d \in DOMAIN t
         /\ n = Page => d = NoDir
<1>1. Sequence(Home) /\ ResolveIn(DOMAIN t, Home) = Home /\ Home # NoDir  BY Directories
<1>2. ResolveIn(DOMAIN t, Append(Home, n)) = Go(DOMAIN t, Home, n)  BY <1>1, ResolveAppend
<1>3. n # "." /\ n # ".."  BY HtmlListingAssumption DEF Dots
<1>4. Append(Home, Page) \notin DOMAIN t  BY DEF FileSystem
<1> QED  BY <1>1, <1>2, <1>3, <1>4 DEF Go

---------------------------------------------------------------------------
(* The invariant.                                                          *)

Tables == {"short", "all", "long", "dir", "plain"}
Wilds == {"wild1", "wild2"}
Matching == {"files", "dirs"} \cup Wilds
Between == {"main", "ls", "next", "file", "done"}

Relative == \A o \in ToSet(cmd.ops) : ~o.abs

(* An operand is stored as a directory if it is one, and as a pattern only *)
(* if there are no options.                                                *)
JobRight(x) ==
  /\ x.op \in ToSet(cmd.ops)
  /\ x.kind \in {"file", "dir", "pattern"}
  /\ x.kind = "dir" => Resolve(From(x.op, Home)) \in DOMAIN tree
  /\ x.kind = "pattern" => cmd.flags = {} /\ x.op.bracketed

Types ==
  /\ FileSystem(tree) /\ cmd \in Commands /\ full \in BOOLEAN
  /\ cwd \in DOMAIN tree /\ streams \in Int /\ streams <= MAX_DIR
  /\ Sequence(jobs) /\ (at \in {"main", "ls", "short"} \/ Argc = 2 => jobs = <<>>)
  /\ \A x \in ToSet(jobs) : JobRight(x)

(* Only a pattern that is absolute takes the process elsewhere.            *)
AtHome ==
  /\ at \in (Between \ {"done"}) \cup Tables => cwd = Home
  /\ at \in Tables => prev = Home
  /\ at \in Matching => /\ Sequence(base) /\ (base = Home => cwd = Home) /\ (Relative => base = Home)
                        /\ Argc = 2 \/ jobs # <<>>
  /\ at \in Wilds => prev = base

(* Where a row may lead astray.                                            *)
Astray == (at = "short" /\ ~IsDir(path)) \/ (at = "dir" /\ Op.abs)

Reading ==
  /\ at = "file" => jobs # <<>> /\ Head(jobs).kind = "file"
  /\ at \in Tables \cup Wilds =>
    /\ dir \in DOMAIN tree
    /\ arr \in Seq(Entry) /\ IsInjective(arr) /\ ToSet(arr) \subseteq tree[dir]
    /\ Sequence(path) /\ (Astray \/ Resolve(path) = dir)
    /\ at \in Tables => jobs = <<>> \/ Head(jobs).kind = "dir"
    /\ at = "dir" => jobs # <<>>

Linked == at \in Tables \cup Wilds \cup {"file"} => \A r \in ToSet(rows) : Leads(r)

(* The entries that have a row: of a match, first those that no directory  *)
(* where the process is has the name of, then the others.                  *)
Looked == tree[dir] \ ToSet(arr)
ToShow ==
  IF at = "wild1" THEN {n \in Looked : Plainly(n) /\ ~IsDir(Append(Home, n))}
  ELSE IF at = "wild2"
    THEN {n \in tree[dir] : Plainly(n) /\ (IsDir(Append(Home, n)) => n \in Looked)}
  ELSE {n \in Looked : Shown(n) /\ (at = "long" => n \notin Nameless)}
RowsSoFar ==
  at \in Tables \cup Wilds =>
    /\ Sequence(rows)
    /\ ~full /\ (at \in Wilds => base = Home) =>
         IsInjective(Names(rows)) /\ ToSet(Names(rows)) = ToShow

(* d of the patterns have been expanded.                                   *)
Remaining(d) ==
  LET rest == Len(Patterns) - d IN
  /\ rest <= Len(jobs)
  /\ \A i \in 1 .. Len(jobs) :
       /\ jobs[i].kind = "pattern" <=> i <= rest
       /\ i <= rest => jobs[i].op = Patterns[d + i]

(* The one behind them is being expanded.                                  *)
Expanding(d) ==
  /\ d < Len(Patterns)
  /\ IF Argc = 2 THEN d = 0 /\ Len(Patterns) = 1 ELSE Remaining(d)
  /\ found \in Seq(Entry) /\ IsInjective(found)
  /\ todo \in Seq(Entry) /\ IsInjective(todo) /\ ToSet(todo) \subseteq ToSet(found)
  /\ Matches(Patterns[d + 1]) \subseteq ToSet(found)
  /\ ToSet(found) \subseteq (Patterns[d + 1].match \ Hidden) \cap tree[Home]
  /\ at \in Wilds =>
       /\ path = Append(Home, Last(path)) /\ Last(path) \in ToSet(found) \ ToSet(todo)
       /\ IsDir(path)

(* What the loops have left open by then.                                  *)
Walked(d, x) ==
  LET n == x[2]  m == x[3]  loop == x[4] IN
  \/ x[1] <= d
  \/ /\ x[1] = d + 1 /\ at \in Matching
     /\ IF loop = "match" THEN at = "files" => n \notin ToSet(todo)
        ELSE /\ at # "files" /\ n \notin ToSet(todo)
             /\ at \in Wilds /\ n = Last(path) =>
                  IF loop = "files" THEN at = "wild1" => m \notin ToSet(arr)
                  ELSE at = "wild2" /\ m \notin ToSet(arr)
Left(d) == {x \in LeftOpen : Walked(d, x)}

Own == IF at \in Tables \cup {"files", "dirs"} THEN 1 ELSE IF at \in Wilds THEN 3 ELSE 0
Open(d) ==
  /\ streams = Own + Cardinality(Left(d))
  /\ IF at \in {"main", "ls"} THEN d = 0 /\ jobs = <<>>
     ELSE IF at \in Matching THEN Expanding(d)
     ELSE Remaining(d) /\ (at = "done" => jobs = <<>>)
Streams ==
  ~full /\ Relative /\ at # "undefined" => \E d \in 0 .. Len(Patterns) : Open(d)

HtmlInv == Types /\ AtHome /\ Reading /\ Linked /\ RowsSoFar /\ Streams

LEMMA HtmlStart == Init => HtmlInv
<1> SUFFICES ASSUME Init PROVE HtmlInv  OBVIOUS
<1>1. FileSystem(tree) /\ Home \in DOMAIN tree  BY HtmlListingAssumption DEF Init, FileSystem
<1>2. Types
  <2>1. Sequence(jobs) /\ ToSet(jobs) = {}  BY NoElements DEF Init, Sequence
  <2>2. MAX_DIR \in Nat  BY HtmlListingAssumption
  <2>3. streams \in Int /\ streams <= MAX_DIR
    <3>1. streams = 0  BY DEF Init
    <3> QED  BY <2>2, <3>1
  <2>4. cmd \in Commands /\ cwd \in DOMAIN tree /\ full \in BOOLEAN  BY <1>1 DEF Init
  <2>5. jobs = <<>>  BY DEF Init
  <2> QED  BY <1>1, <2>1, <2>3, <2>4, <2>5 DEF Types
<1>3. AtHome  BY DEF Init, AtHome, Tables, Matching, Wilds
<1>4. Reading /\ Linked /\ RowsSoFar  BY DEF Init, Reading, Linked, RowsSoFar, Tables, Wilds
<1>5. Streams
  <2>1. Left(0) = {}
    <3>1. \A x \in LeftOpen : x[1] \in DOMAIN Patterns  BY DEF LeftOpen
    <3>2. \A x \in DOMAIN Patterns : ~(x <= 0)
      <4>1. Patterns \in Seq(Operands)
        <5>1. cmd.ops \in Seq(Operands)  BY HtmlListingAssumption DEF Init
        <5>2. <<>> \in Seq(Operands)  BY EmptySeq
        <5> QED  BY <5>1, <5>2, KeptIs DEF Patterns
      <4> QED  BY <4>1, LenProperties
    <3> QED  BY <3>1, <3>2 DEF Left, Walked, Init, Matching, Wilds
  <2>2. Cardinality(Left(0)) = 0  BY <2>1, FS_EmptySet
  <2>3. Open(0)  BY <2>2 DEF Init, Open, Own, Tables, Wilds
  <2>4. Len(Patterns) \in Nat
    <3>1. cmd.ops \in Seq(Operands)  BY HtmlListingAssumption DEF Init
    <3>2. <<>> \in Seq(Operands)  BY EmptySeq
    <3> QED  BY <3>1, <3>2, KeptIs, LenProperties DEF Patterns
  <2>5. 0 \in 0 .. Len(Patterns)  BY <2>4
  <2> QED  BY <2>3, <2>5 DEF Streams
<1> QED  BY <1>2, <1>3, <1>4, <1>5 DEF HtmlInv

---------------------------------------------------------------------------
(* What all the steps have in common.                                      *)

LEMMA PatternsAre ==
  ASSUME cmd \in Commands
  PROVE  /\ cmd.ops \in Seq(Operands) /\ Patterns \in Seq(Operands)
         /\ DOMAIN Patterns = 1 .. Len(Patterns) /\ Len(Patterns) \in Nat
         /\ ToSet(Patterns) \subseteq ToSet(cmd.ops)
         /\ cmd.flags = {} => ToSet(Patterns) = {o \in ToSet(cmd.ops) : IsPattern(o)}
         /\ cmd.flags # {} \/ cmd.ops = <<>> => Patterns = <<>>
         /\ \A o \in ToSet(cmd.ops) : o \in Operands
<1>1. cmd.ops \in Seq(Operands)  BY HtmlListingAssumption
<1>2. ToSet(cmd.ops) \subseteq Operands  BY <1>1, ToSetIs
<1>3. <<>> \in Seq(Operands) /\ ToSet(<<>>) = {}  BY EmptySeq, NoElements
<1>4. CASE cmd.flags = {}
  <2> DEFINE W == {o \in Operands : IsPattern(o)}
  <2>1. Patterns = Kept(cmd.ops, W)  BY <1>4 DEF Patterns
  <2>2. W = {o \in Operands : IsPattern(o)}  OBVIOUS
  <2> HIDE DEF W
  <2>3. /\ Patterns \in Seq(Operands) /\ ToSet(Patterns) = ToSet(cmd.ops) \cap W
        /\ cmd.ops = <<>> => Patterns = <<>>
    BY <1>1, <2>1, KeptIs
  <2> QED  BY <1>1, <1>2, <1>4, <2>2, <2>3, LenProperties
<1>5. CASE cmd.flags # {}
  <2>1. Patterns = <<>>  BY <1>5 DEF Patterns
  <2> QED  BY <1>1, <1>2, <1>3, <1>5, <2>1, LenProperties
<1> QED  BY <1>4, <1>5

LEMMA LeftIsFinite ==
  ASSUME cmd \in Commands, NEW d
  PROVE  IsFiniteSet(Left(d)) /\ Cardinality(Left(d)) \in Nat
<1> DEFINE L == {"match", "files", "dirs"}
           A == (DOMAIN Patterns) \X Entry \X Entry \X L
<1>1. IsFiniteSet(DOMAIN Patterns)
  <2>1. DOMAIN Patterns = 1 .. Len(Patterns) /\ 1 \in Int /\ Len(Patterns) \in Int  BY PatternsAre
  <2> QED  BY <2>1, FS_Interval
<1>2. IsFiniteSet(L)
  <2>1. IsFiniteSet({}) /\ IsFiniteSet({} \cup {"match"})  BY FS_EmptySet, FS_AddElement
  <2>2. IsFiniteSet(({} \cup {"match"}) \cup {"files"})  BY <2>1, FS_AddElement
  <2>3. IsFiniteSet((({} \cup {"match"}) \cup {"files"}) \cup {"dirs"})  BY <2>2, FS_AddElement
  <2>4. L = (({} \cup {"match"}) \cup {"files"}) \cup {"dirs"}  OBVIOUS
  <2> QED  BY <2>3, <2>4
<1>3. IsFiniteSet(A)
  <2> HIDE DEF L
  <2> DEFINE P == DOMAIN Patterns
  <2>1. IsFiniteSet(Entry) /\ IsFiniteSet(P)  BY <1>1, HtmlListingAssumption
  <2> HIDE DEF P
  <2> DEFINE B == P \X (Entry \X (Entry \X L))
             flat == [y \in B |-> <<y[1], y[2][1], y[2][2][1], y[2][2][2]>>]
  <2>2. IsFiniteSet(Entry \X L)  BY <1>2, <2>1, FS_Product
  <2>3. IsFiniteSet(Entry \X (Entry \X L))  BY <2>1, <2>2, FS_Product
  <2>4. IsFiniteSet(B)  BY <2>1, <2>3, FS_Product
  <2>5. A = {flat[y] : y \in B}
    <3>1. A = P \X Entry \X Entry \X L  BY DEF P
    <3>2. ASSUME NEW x \in A PROVE \E y \in B : flat[y] = x
      <4>1. <<x[1], <<x[2], <<x[3], x[4]>>>>>> \in B  BY <3>1
      <4>2. flat[<<x[1], <<x[2], <<x[3], x[4]>>>>>>] = <<x[1], x[2], x[3], x[4]>>  BY <4>1
      <4>3. x = <<x[1], x[2], x[3], x[4]>>  BY <3>1
      <4> QED  BY <4>1, <4>2, <4>3
    <3>3. ASSUME NEW y \in B PROVE flat[y] \in A  BY <3>1
    <3> QED  BY <3>2, <3>3
  <2>6. \A y \in B : flat[y] \in A  BY <2>5
  <2> HIDE DEF B, A
  <2>7. flat \in Surjection(B, A)
    <3>1. flat \in [B -> A]  BY <2>6
    <3> HIDE DEF flat
    <3> QED  BY <2>5, <3>1 DEF Surjection
  <2> QED  BY <2>4, <2>7, FS_Surjection
<1>4. Left(d) \in SUBSET A  BY DEF Left, LeftOpen
<1> HIDE DEF A
<1> QED  BY <1>3, <1>4, FS_Subset, FS_CardinalityType

LEMMA SameFiles ==
  ASSUME UNCHANGED <<tree, cmd>>
  PROVE  /\ Patterns' = Patterns /\ LeftOpen' = LeftOpen /\ (Relative' <=> Relative) /\ Argc' = Argc
         /\ \A x : JobRight(x)' <=> JobRight(x)
         /\ \A x : Matches(x)' = Matches(x)
<1>1. tree' = tree /\ cmd' = cmd  OBVIOUS
<1>2. Patterns' = Patterns /\ (Relative' <=> Relative) /\ Argc' = Argc
  BY <1>1 DEF Patterns, IsPattern, Relative, Argc
<1>3. \A x : IsDir(x)' <=> IsDir(x)  BY <1>1 DEF IsDir, Resolve
<1>4. \A x : Matches(x)' = Matches(x)  BY <1>1, <1>3 DEF Matches
<1>5. \A x : JobRight(x)' <=> JobRight(x)  BY <1>1 DEF JobRight, Resolve, From
<1>6. LeftOpen' = LeftOpen
  <2> SUFFICES ASSUME NEW x PROVE x \in LeftOpen' <=> x \in LeftOpen
    BY DEF LeftOpen
  <2>1. IsDir(Append(Home, x[3]))' <=> IsDir(Append(Home, x[3]))  BY <1>3
  <2>2. Matches(Patterns[x[1]])' = Matches(Patterns[x[1]])
    <3>1. \A k : Patterns[k]' = Patterns[k]  BY <1>2
    <3> QED  BY <1>1, <3>1 DEF Matches, IsDir, Resolve
  <2> QED  BY <1>1, <1>2, <2>1, <2>2 DEF LeftOpen
<1> QED  BY <1>2, <1>4, <1>5, <1>6

LEMMA SameLeft ==
  ASSUME UNCHANGED <<tree, cmd>>, at \notin Matching, at' \notin Matching, NEW d
  PROVE  Left(d)' = Left(d)
<1>1. LeftOpen' = LeftOpen  BY SameFiles
<1>2. \A x : Walked(d, x)' <=> Walked(d, x)  BY DEF Walked
<1> QED  BY <1>1, <1>2 DEF Left

(* Nothing is said of a listing where there is none.                       *)
LEMMA NoListing ==
  ASSUME at' \notin Tables \cup Wilds \cup {"file"}
  PROVE  Reading' /\ Linked' /\ RowsSoFar'
  BY DEF Reading, Linked, RowsSoFar

LEMMA MainKept == HtmlInv /\ Main => HtmlInv'
<1> SUFFICES ASSUME HtmlInv, Main PROVE HtmlInv'  OBVIOUS
<1>1. /\ at = "main" /\ at' = "ls" /\ tree' = [tree EXCEPT ![Home] = @ \cup {Page}]
      /\ UNCHANGED <<cmd, cwd, streams, jobs, full>>
  BY DEF Main
<1>2. Types /\ FileSystem(tree)  BY DEF HtmlInv, Types
<1>3. /\ DOMAIN tree' = DOMAIN tree
      /\ \A d \in DOMAIN tree : tree[d] \subseteq tree'[d] /\ tree'[d] \subseteq tree[d] \cup {Page}
  BY <1>1, <1>2 DEF FileSystem
<1>4. FileSystem(tree')
  <2>1. Page \in Entry  BY HtmlListingAssumption
  <2> QED  BY <1>2, <1>3, <2>1 DEF FileSystem
<1>5. Types'
  <2>1. \A x : JobRight(x) => JobRight(x)'
    BY <1>1, <1>3 DEF JobRight, Resolve, From
  <2>2. FileSystem(tree)' /\ jobs = <<>>  BY <1>1, <1>2, <1>4 DEF FileSystem, Types
  <2> QED  BY <1>1, <1>2, <1>3, <2>1, <2>2 DEF Types
<1>6. AtHome'  BY <1>1 DEF HtmlInv, AtHome, Tables, Between, Matching, Wilds
<1>7. Reading' /\ Linked' /\ RowsSoFar'  BY <1>1, NoListing DEF Tables, Wilds
<1>8. Streams'
  <2> SUFFICES ASSUME ~full, Relative PROVE \E d \in 0 .. Len(Patterns') : Open(d)'
    BY <1>1 DEF Streams, Relative
  <2>1. PICK d \in 0 .. Len(Patterns) : Open(d)  BY <1>1 DEF HtmlInv, Streams
  <2>2. Patterns' = Patterns  BY <1>1 DEF Patterns, IsPattern, Argc
  <2>3. d = 0 /\ jobs = <<>> /\ streams = Own + Cardinality(Left(0))  BY <1>1, <2>1 DEF Open
  <2>4. \A x \in DOMAIN Patterns : ~(x <= 0)  BY <1>2, PatternsAre DEF Types
  <2>5. Left(0) = {}  BY <1>1, <2>4 DEF Left, LeftOpen, Walked, Matching, Wilds
  <2>6. Left(0)' = {}  BY <1>1, <2>2, <2>4 DEF Left, LeftOpen, Walked, Matching, Wilds
  <2>7. Own' = Own  BY <1>1 DEF Own, Tables, Wilds
  <2>8. Open(0)'  BY <1>1, <2>3, <2>5, <2>6, <2>7 DEF Open
  <2> QED  BY <2>1, <2>2, <2>3, <2>8
<1> QED  BY <1>5, <1>6, <1>7, <1>8 DEF HtmlInv

LEMMA Undefined ==
  ASSUME HtmlInv, at' = "undefined", full' \in BOOLEAN, UNCHANGED <<tree, cmd, cwd, streams, jobs>>
  PROVE  HtmlInv'
<1>1. Types'
  <2>1. Types  BY DEF HtmlInv
  <2>2. tree' = tree /\ cmd' = cmd /\ cwd' = cwd /\ streams' = streams /\ jobs' = jobs  OBVIOUS
  <2>3. \A x : JobRight(x)' <=> JobRight(x)  BY SameFiles
  <2>4. FileSystem(tree)'  BY <2>1, <2>2 DEF Types, FileSystem
  <2>5. at' \notin {"main", "ls", "short"} /\ Argc' = Argc  BY SameFiles
  <2> QED  BY <2>1, <2>2, <2>3, <2>4, <2>5, Zenon DEF Types
<1>2. AtHome'  BY DEF AtHome, Tables, Between, Matching, Wilds
<1>3. Reading' /\ Linked' /\ RowsSoFar'  BY NoListing DEF Tables, Wilds
<1>4. Streams'  BY DEF Streams
<1> QED  BY <1>1, <1>2, <1>3, <1>4 DEF HtmlInv

LEMMA CrashKept == HtmlInv /\ Crash => HtmlInv'
<1> SUFFICES ASSUME HtmlInv, Crash PROVE HtmlInv'  OBVIOUS
<1>1. at' = "undefined" /\ full' \in BOOLEAN /\ UNCHANGED <<tree, cmd, cwd, streams, jobs>>
  BY DEF Crash
<1> QED  BY <1>1, Undefined

---------------------------------------------------------------------------
(* A listing begins, proceeds by a row and ends.                           *)

BeginsWith(style, d, p, sorted) ==
  /\ at \in {"ls", "next"} /\ at' = style /\ style \in Tables
  /\ d \in DOMAIN tree /\ Lists(sorted, tree[d]) /\ Sequence(p)
  /\ \/ Resolve(p) = d
     \/ style = "short" /\ ~IsDir(p)
     \/ style = "dir" /\ jobs # <<>> /\ Op.abs
  /\ streams' \in Int /\ streams' <= MAX_DIR /\ (Relative => streams' = streams + 1)
  /\ dir' = d /\ path' = p /\ prev' = cwd /\ arr' = sorted /\ rows' = <<>>
  /\ UNCHANGED <<tree, cmd, cwd, jobs, full>>
  /\ jobs = <<>> \/ Head(jobs).kind = "dir"
  /\ style = "dir" => jobs # <<>>
  /\ style = "short" => at = "ls"
  /\ at = "ls" => Patterns = <<>>

LEMMA Opened ==
  ASSUME HtmlInv, NEW style, NEW d, NEW p, NEW sorted, BeginsWith(style, d, p, sorted)
  PROVE  HtmlInv'
<1>1. Types /\ AtHome  BY DEF HtmlInv
<1>2. at \in {"ls", "next"} /\ at \notin Matching /\ at \notin Tables \cup Wilds
  BY DEF BeginsWith, Matching, Wilds, Tables
<1>3. at' \in Tables /\ at' = style /\ at' \notin Wilds /\ at' \notin Matching
  BY DEF BeginsWith, Tables, Matching, Wilds
<1>4. /\ dir' = d /\ path' = p /\ prev' = cwd /\ arr' = sorted /\ rows' = <<>>
      /\ tree' = tree /\ cmd' = cmd /\ cwd' = cwd /\ jobs' = jobs /\ full' = full
      /\ d \in DOMAIN tree /\ Lists(sorted, tree[d]) /\ Sequence(p)
  BY DEF BeginsWith
<1>5. cwd = Home  BY <1>1, <1>2 DEF AtHome, Between
<1>6. Types'
  <2>1. \A x : JobRight(x)' <=> JobRight(x)  BY <1>4, SameFiles
  <2>2. streams' \in Int /\ streams' <= MAX_DIR  BY DEF BeginsWith
  <2>3. FileSystem(tree)'  BY <1>1, <1>4 DEF Types, FileSystem
  <2>4. at' \in {"main", "ls", "short"} => jobs = <<>>
    BY <1>1, <1>3 DEF BeginsWith, Tables, Types
  <2>5. Argc' = Argc  BY <1>4, SameFiles
  <2> QED  BY <1>1, <1>4, <2>1, <2>2, <2>3, <2>4, <2>5, Zenon DEF Types
<1>7. AtHome'
  <2>1. at' \in (Between \ {"done"}) \cup Tables  BY <1>3
  <2> QED  BY <1>3, <1>4, <1>5 DEF AtHome
<1>8. Reading'
  <2>1. sorted \in Seq(Entry) /\ IsInjective(sorted) /\ ToSet(sorted) \subseteq tree[d]
    BY <1>4 DEF Lists
  <2>2. /\ jobs = <<>> \/ Head(jobs).kind = "dir"
        /\ at' = "dir" => jobs # <<>>
    BY <1>3 DEF BeginsWith
  <2>3. \/ ResolveIn(DOMAIN tree, p) = d
        \/ at' = "short" /\ ~(ResolveIn(DOMAIN tree, p) # NoDir)
        \/ at' = "dir" /\ Head(jobs).op.abs
    BY <1>3 DEF BeginsWith, Resolve, IsDir, Op
  <2>4. Astray' \/ Resolve(path)' = dir'
    BY <1>4, <2>3 DEF Astray, Resolve, IsDir, Op
  <2>5. at' # "file"  BY <1>3 DEF Tables
  <2> QED  BY <1>4, <2>1, <2>2, <2>4, <2>5 DEF Reading
<1>9. Linked'  BY <1>4, NoElements DEF Linked
<1>10. RowsSoFar'
  <2>1. Looked' = {}  BY <1>4 DEF Looked, Lists
  <2>2. ToShow' = {}  BY <1>3, <2>1 DEF ToShow, Wilds
  <2>3. Sequence(<<>>)  BY NoElements DEF Sequence
  <2>4. Names(rows)' = <<>>  BY <1>4, NoElements DEF Names
  <2> QED  BY <1>4, <2>2, <2>3, <2>4, NoElements DEF RowsSoFar
<1>11. Streams'
  <2>1. Patterns' = Patterns /\ (Relative' <=> Relative)  BY <1>4, SameFiles
  <2> SUFFICES ASSUME ~full, Relative PROVE \E e \in 0 .. Len(Patterns) : Open(e)'
    BY <1>4, <2>1 DEF Streams
  <2>2. PICK e \in 0 .. Len(Patterns) : Open(e)  BY <1>2 DEF HtmlInv, Streams
  <2>3. Left(e)' = Left(e)  BY <1>2, <1>3, <1>4, SameLeft
  <2>4. Own = 0 /\ Own' = 1  BY <1>2, <1>3 DEF Own, Tables, Wilds
  <2>5. streams' = streams + 1  BY DEF BeginsWith
  <2>6. Cardinality(Left(e)) \in Nat  BY <1>1, LeftIsFinite DEF Types
  <2>7. streams' = Own' + Cardinality(Left(e)')  BY <2>2, <2>3, <2>4, <2>5, <2>6 DEF Open
  <2>8. Remaining(e)
    <3>1. CASE at = "next"  BY <1>2, <2>2, <3>1 DEF Open
    <3>2. CASE at = "ls"
      <4>1. e = 0 /\ jobs = <<>> /\ Patterns = <<>>  BY <2>2, <3>2 DEF Open, BeginsWith
      <4>2. Len(<<>>) = 0  BY EmptySeq
      <4> QED  BY <4>1, <4>2 DEF Remaining
    <3> QED  BY <1>2, <3>1, <3>2
  <2>9. Remaining(e)'  BY <1>4, <2>1, <2>8 DEF Remaining
  <2>10. at' \notin {"main", "ls", "done"}  BY <1>3 DEF Tables
  <2> QED  BY <1>3, <2>7, <2>9, <2>10 DEF Open
<1> QED  BY <1>6, <1>7, <1>8, <1>9, <1>10, <1>11 DEF HtmlInv

LEMMA BeginKept ==
  ASSUME HtmlInv, NEW style, NEW d, NEW p, NEW sorted, Begin(style, d, p, sorted),
         at \in {"ls", "next"}, style \in Tables, Sequence(p),
         d # NoDir => d \in DOMAIN tree /\ Lists(sorted, tree[d]),
         \/ Resolve(p) = d
         \/ style = "short" /\ ~IsDir(p)
         \/ style = "dir" /\ jobs # <<>> /\ Op.abs,
         jobs = <<>> \/ Head(jobs).kind = "dir", style = "dir" => jobs # <<>>,
         style = "short" => at = "ls",
         at = "ls" => Patterns = <<>>
  PROVE  HtmlInv'
<1>1. CASE ReadNull(d)  BY <1>1, CrashKept DEF Begin
<1>2. CASE ~ReadNull(d)
  <2>1. streams \in Int /\ streams <= MAX_DIR /\ streams # MAX_DIR /\ MAX_DIR \in Int
    BY <1>2, HtmlListingAssumption DEF HtmlInv, Types, ReadNull
  <2>2. streams' = streams + 1  BY <1>2 DEF Begin
  <2>3. streams' \in Int /\ streams' <= MAX_DIR  BY <2>1, <2>2
  <2>4. BeginsWith(style, d, p, sorted)
    BY <1>2, <2>2, <2>3 DEF Begin, BeginsWith, ReadNull
  <2> QED  BY <2>4, Opened
<1> QED  BY <1>1, <1>2

LEMMA OneArgument ==
  ASSUME cmd \in Commands, Argc = 2
  PROVE  /\ Sequence(Arg1.names)
         /\ \/ cmd.args = 1 /\ Patterns = <<>> /\ ~Arg1.wild /\ ~Arg1.abs
            \/ /\ cmd.args = 0 /\ Arg1 \in Operands /\ Arg1 \in ToSet(cmd.ops)
               /\ Patterns = IF Arg1.wild THEN <<Arg1>> ELSE <<>>
<1>1. /\ cmd.flags \subseteq {"a", "l", "r", "S", "h"} /\ cmd.args \in Nat
      /\ (cmd.args = 0) = (cmd.flags = {}) /\ cmd.ops \in Seq(Operands)
  BY HtmlListingAssumption
<1>2. Len(cmd.ops) \in Nat /\ 1 + cmd.args + Len(cmd.ops) = 2  BY <1>1, LenProperties DEF Argc
<1>3. CASE cmd.args = 1
  <2>1. cmd.flags # {}  BY <1>1, <1>3
  <2>2. Patterns = <<>>  BY <2>1, PatternsAre
  <2>3. Arg1 = [abs |-> FALSE, names |-> <<OptionArg>>, wild |-> FALSE]  BY <1>3 DEF Arg1
  <2>4. <<OptionArg>> = Append(<<>>, OptionArg)  OBVIOUS
  <2>5. Sequence(<<>>)  BY NoElements DEF Sequence
  <2>6. Sequence(<<OptionArg>>)  BY <2>4, <2>5, SequenceMore
  <2> QED  BY <1>3, <2>2, <2>3, <2>6
<1>4. CASE cmd.args # 1
  <2>1. cmd.args = 0 /\ cmd.flags = {} /\ Len(cmd.ops) = 1
    <3>1. cmd.args \in Nat  BY <1>1
    <3>2. \A a, l \in Nat : 1 + a + l = 2 /\ a # 1 => a = 0 /\ l = 1  OBVIOUS
    <3>3. cmd.args = 0 /\ Len(cmd.ops) = 1  BY <1>2, <1>4, <3>1, <3>2
    <3> QED  BY <1>1, <3>3
  <2>2. Arg1 = cmd.ops[1]  BY <2>1 DEF Arg1
  <2>3. Arg1 \in ToSet(cmd.ops) /\ Arg1 \in Operands
    <3>1. 1 \in 1 .. Len(cmd.ops)  BY <2>1
    <3> QED  BY <1>1, <2>2, <3>1, ToSetIs
  <2>4. Sequence(Arg1.names)  BY <2>3, HtmlListingAssumption DEF Sequence
  <2> DEFINE W == {o \in Operands : IsPattern(o)}
  <2>5. Patterns = Kept(cmd.ops, W)  BY <2>1 DEF Patterns
  <2>6. Arg1 \in W <=> Arg1.wild  BY <2>3 DEF IsPattern
  <2> HIDE DEF W
  <2>7. Patterns = IF Arg1 \in W THEN <<Arg1>> ELSE <<>>
    <3>1. cmd.ops \in Seq(Operands) /\ Len(cmd.ops) = 1  BY <1>1, <2>1
    <3>2. Kept(cmd.ops, W) = IF cmd.ops[1] \in W THEN <<cmd.ops[1]>> ELSE <<>>  BY <3>1, KeptIs
    <3> QED  BY <2>2, <2>5, <3>2
  <2> QED  BY <2>1, <2>3, <2>4, <2>6, <2>7
<1> QED  BY <1>3, <1>4

LEMMA ListsHere ==
  ASSUME FileSystem(tree), NEW d \in DOMAIN tree
  PROVE  /\ Lists(SortHidden(tree[d]), tree[d]) /\ Lists(BySize(d), tree[d])
         /\ Lists(Turned(SortHidden(tree[d])), tree[d]) /\ Lists(Turned(BySize(d)), tree[d])
<1>1. tree[d] \in SUBSET Entry /\ d # NoDir  BY Directories
<1>2. BySize(d) = IF Has("S") THEN OptionS(tree[d]) ELSE SortHidden(tree[d])  BY <1>1 DEF BySize
<1>3. Lists(SortHidden(tree[d]), tree[d]) /\ Lists(OptionS(tree[d]), tree[d])  BY <1>1, SortsList
<1>4. Lists(BySize(d), tree[d])  BY <1>2, <1>3
<1> QED  BY <1>3, <1>4, TurnedLists

(* A directory that is to be listed.                                       *)
LEMMA DirJob ==
  ASSUME HtmlInv, Job("dir")
  PROVE  /\ at = "next" /\ jobs # <<>> /\ Head(jobs).kind = "dir"
         /\ OpDir \in DOMAIN tree /\ OpDir = Resolve(From(Op, cwd))
         /\ Sequence(From(Op, cwd)) /\ Sequence(cwd \o Op.names) /\ (~Op.abs => From(Op, cwd) = cwd \o Op.names)
<1>1. at = "next" /\ jobs # <<>> /\ Head(jobs).kind = "dir"  BY DEF Job
<1>2. Types /\ AtHome /\ FileSystem(tree)  BY DEF HtmlInv, Types
<1>3. cwd = Home /\ Sequence(Home)  BY <1>1, <1>2, Directories DEF AtHome, Between
<1>4. Op \in ToSet(cmd.ops) /\ Resolve(From(Op, Home)) \in DOMAIN tree
  <2>1. Head(jobs) \in ToSet(jobs)  BY <1>1, <1>2, SequenceLess DEF Types
  <2> QED  BY <1>1, <1>2, <2>1 DEF Types, JobRight, Op
<1>5. Op \in Operands /\ Sequence(Op.names)
  <2>1. Op \in Operands  BY <1>2, <1>4, PatternsAre DEF Types
  <2> QED  BY <2>1, HtmlListingAssumption DEF Sequence
<1>6. Sequence(cwd \o Op.names)  BY <1>3, <1>5, SequencesJoined
<1> QED  BY <1>1, <1>3, <1>4, <1>5, <1>6 DEF OpDir, From

LEMMA BeginnersKept ==
  ASSUME HtmlInv, \/ ShortHere \/ ShortRelative \/ AllHere \/ LongHere
                  \/ AllDir \/ LongDir \/ LongDirReversed \/ PlainDir
  PROVE  HtmlInv'
<1>1. Types /\ AtHome /\ FileSystem(tree) /\ cmd \in Commands  BY DEF HtmlInv, Types
<1>2. at = "ls" => /\ cwd = Home /\ jobs = <<>> /\ cwd \in DOMAIN tree
                   /\ Sequence(cwd) /\ Resolve(cwd) = cwd
  BY <1>1, Directories DEF Types, AtHome, Between, Resolve
<1>3. {"short", "all", "long", "dir", "plain"} = Tables  BY DEF Tables
<1>4. CASE ShortHere
  <2>1. at = "ls" /\ Argc = 1 /\ Begin("short", cwd, cwd, SortHidden(tree[cwd]))
    BY <1>4 DEF ShortHere, Short
  <2>2. Patterns = <<>>
    <3>1. cmd.args \in Nat /\ cmd.ops \in Seq(Operands)  BY <1>1, HtmlListingAssumption
    <3>2. Len(cmd.ops) = 0  BY <2>1, <3>1, LenProperties DEF Argc
    <3>3. cmd.ops = <<>>  BY <3>1, <3>2, EmptySeq
    <3> QED  BY <1>1, <3>3, PatternsAre
  <2>3. Lists(SortHidden(tree[cwd]), tree[cwd])  BY <1>1, <1>2, <2>1, ListsHere
  <2> QED  BY <1>2, <1>3, <2>1, <2>2, <2>3, BeginKept
<1>5. CASE ShortRelative
  <2> DEFINE p == cwd \o Arg1.names
             d == IF IsDir(p) THEN Resolve(p) ELSE cwd
  <2>1. /\ at = "ls" /\ Argc = 2 /\ ~Arg1.wild
        /\ Begin("short", d, p, Turned(BySize(d)))
    BY <1>5 DEF ShortRelative, Short
  <2>2. Sequence(p)  BY <1>1, <1>2, <2>1, OneArgument, SequencesJoined
  <2>3. Patterns = <<>>  BY <1>1, <2>1, OneArgument
  <2>4. d \in DOMAIN tree /\ (Resolve(p) = d \/ ~IsDir(p))
    <3>1. Resolve(p) \in (DOMAIN tree) \cup {NoDir}  BY <1>1, <2>2, Directories DEF Resolve
    <3> QED  BY <1>2, <2>1, <3>1 DEF IsDir
  <2> HIDE DEF d, p
  <2>5. Lists(Turned(BySize(d)), tree[d])  BY <1>1, <2>4, ListsHere
  <2> QED  BY <1>2, <1>3, <2>1, <2>2, <2>3, <2>4, <2>5, BeginKept
<1>6. ASSUME Alone PROVE at = "ls" /\ Patterns = <<>>
  <2>1. cmd.args = 1 /\ at = "ls"  BY <1>6 DEF Alone
  <2>2. cmd.flags # {}  BY <1>1, <2>1, HtmlListingAssumption
  <2> QED  BY <1>1, <2>1, <2>2, PatternsAre
<1>7. CASE AllHere
  <2>1. Alone /\ Begin("all", cwd, cwd, Turned(SortHidden(tree[cwd])))  BY <1>7 DEF AllHere
  <2>2. Lists(Turned(SortHidden(tree[cwd])), tree[cwd])  BY <1>1, <1>2, <1>6, <2>1, ListsHere
  <2> QED  BY <1>2, <1>3, <1>6, <2>1, <2>2, BeginKept
<1>8. CASE LongHere
  <2>1. Alone /\ Begin("long", cwd, cwd, Turned(BySize(cwd)))  BY <1>8 DEF LongHere
  <2>2. Lists(Turned(BySize(cwd)), tree[cwd])  BY <1>1, <1>2, <1>6, <2>1, ListsHere
  <2> QED  BY <1>2, <1>3, <1>6, <2>1, <2>2, BeginKept
<1>9. CASE AllDir
  <2>1. Job("dir") /\ Begin("dir", OpDir, cwd \o Op.names, Turned(SortHidden(tree[OpDir])))
    BY <1>9 DEF AllDir
  <2>2. /\ at = "next" /\ jobs # <<>> /\ Head(jobs).kind = "dir" /\ OpDir \in DOMAIN tree
        /\ Sequence(cwd \o Op.names) /\ (Resolve(cwd \o Op.names) = OpDir \/ Op.abs)
    BY <2>1, DirJob
  <2>3. Lists(Turned(SortHidden(tree[OpDir])), tree[OpDir])  BY <1>1, <2>2, ListsHere
  <2> QED  BY <1>3, <2>1, <2>2, <2>3, BeginKept
<1>10. CASE LongDir \/ LongDirReversed \/ PlainDir
  <2>1. PICK style \in {"long", "plain"}, sorted \in {BySize(OpDir), Turned(BySize(OpDir)),
                                                     SortHidden(tree[OpDir])} :
          Job("dir") /\ Begin(style, OpDir, From(Op, cwd), sorted)
    BY <1>10 DEF LongDir, LongDirReversed, PlainDir, Turned
  <2>2. /\ at = "next" /\ jobs # <<>> /\ Head(jobs).kind = "dir" /\ OpDir \in DOMAIN tree
        /\ Sequence(From(Op, cwd)) /\ Resolve(From(Op, cwd)) = OpDir
    BY <2>1, DirJob
  <2>3. Lists(sorted, tree[OpDir])  BY <1>1, <2>2, ListsHere
  <2> QED  BY <1>3, <2>1, <2>2, <2>3, BeginKept
<1> QED  BY <1>4, <1>5, <1>7, <1>8, <1>9, <1>10

LEMMA ShortAbsoluteKept == HtmlInv /\ ShortAbsolute => HtmlInv'
<1> SUFFICES ASSUME HtmlInv, ShortAbsolute PROVE HtmlInv'  OBVIOUS
<1>1. Types /\ FileSystem(tree) /\ cmd \in Commands  BY DEF HtmlInv, Types
<1>2. at = "ls" /\ Argc = 2 /\ ~Arg1.wild /\ Arg1.abs  BY DEF ShortAbsolute, Short
<1> DEFINE p == Arg1.names
           d == Resolve(p)
<1>3. Sequence(p) /\ Patterns = <<>> /\ Arg1 \in ToSet(cmd.ops)  BY <1>1, <1>2, OneArgument
<1>4. CASE d = NoDir \/ streams + 1 >= MAX_DIR  BY <1>4, CrashKept DEF ShortAbsolute
<1>5. CASE ~(d = NoDir \/ streams + 1 >= MAX_DIR)
  <2>1. streams \in Int /\ MAX_DIR \in Int  BY <1>1, HtmlListingAssumption DEF Types
  <2>2. streams' = streams + 2  BY <1>5 DEF ShortAbsolute
  <2>3. streams' \in Int /\ streams' <= MAX_DIR  BY <1>5, <2>1, <2>2
  <2>4. d \in DOMAIN tree
    <3>1. d \in (DOMAIN tree) \cup {NoDir}  BY <1>1, <1>3, Directories DEF Resolve
    <3> QED  BY <1>5, <3>1
  <2>5. Lists(SortHidden(tree[d]), tree[d])
    <3> HIDE DEF d
    <3> QED  BY <1>1, <2>4, ListsHere
  <2>6. ~Relative  BY <1>2, <1>3 DEF Relative
  <2>7. jobs = <<>>  BY <1>1, <1>2 DEF Types
  <2>8. BeginsWith("short", d, p, SortHidden(tree[d]))
    BY <1>2, <1>3, <1>5, <2>3, <2>4, <2>5, <2>6, <2>7 DEF ShortAbsolute, BeginsWith, Tables
  <2> HIDE DEF d, p
  <2> QED  BY <2>8, Opened
<1> QED  BY <1>4, <1>5

LEMMA NamesMore ==
  ASSUME NEW s, Sequence(s), NEW r
  PROVE  /\ Sequence(Names(s)) /\ Names(Append(s, r)) = Append(Names(s), r.name)
<1> DEFINE n == Len(s)
           t == Append(s, r)
           V == ToSet(s) \cup {r}
           N == {x.name : x \in V}
           u == Append(Names(s), r.name)
<1>1. s \in Seq(V) /\ r \in V
  <2>1. ToSet(s) \subseteq V /\ r \in V  OBVIOUS
  <2> HIDE DEF V
  <2> QED  BY <2>1, IsSequence DEF Sequence
<1>2. /\ n \in Nat /\ DOMAIN s = 1 .. n /\ DOMAIN t = 1 .. n + 1
      /\ (\A i \in 1 .. n : t[i] = s[i] /\ s[i] \in V) /\ t[n + 1] = r
  <2> HIDE DEF V
  <2>1. t \in Seq(V) /\ Len(t) = n + 1 /\ (\A i \in 1 .. n : t[i] = s[i]) /\ t[n + 1] = r
    BY <1>1, AppendProperties
  <2> HIDE DEF t
  <2>2. DOMAIN s = 1 .. n /\ n \in Nat /\ DOMAIN t = 1 .. n + 1 /\ \A i \in 1 .. n : s[i] \in V
    BY <1>1, <2>1, LenProperties, ElementOfSeq
  <2> QED  BY <2>1, <2>2
<1>3. Names(s) = [k \in 1 .. n |-> s[k].name] /\ Names(t) = [k \in 1 .. n + 1 |-> t[k].name]
  BY <1>2 DEF Names
<1>4. Names(s) \in [1 .. n -> N]  BY <1>2, <1>3
<1>5. r.name \in N  BY <1>1
<1> HIDE DEF N
<1>6. Names(s) \in Seq(N) /\ Len(Names(s)) = n  BY <1>2, <1>4, IsASeq, LenProperties
<1>7. Sequence(Names(s))
  <2>1. ToSet(Names(s)) \subseteq N  BY <1>6, ToSetIs
  <2> QED  BY <1>6, <2>1, IsSequence
<1>8. /\ u \in Seq(N) /\ Len(u) = n + 1 /\ (\A i \in 1 .. n : u[i] = Names(s)[i]) /\ u[n + 1] = r.name
  BY <1>5, <1>6, AppendProperties
<1> HIDE DEF u, t, V
<1>9. \A i \in 1 .. n : i \in 1 .. n + 1 /\ i # n + 1  BY <1>2
<1>10. \A i \in 1 .. n + 1 : i \in 1 .. n \/ i = n + 1  BY <1>2
<1>11. DOMAIN u = 1 .. n + 1 /\ u = [k \in 1 .. n + 1 |-> u[k]]  BY <1>2, <1>8, LenProperties
<1>12. \A i \in 1 .. n + 1 : u[i] = t[i].name  BY <1>2, <1>3, <1>8, <1>10
<1> QED  BY <1>3, <1>7, <1>11, <1>12 DEF u, t

LEMMA NamedOnce ==
  ASSUME NEW s, Sequence(s), IsInjective(Names(s)), NEW r, r.name \notin ToSet(Names(s))
  PROVE  /\ IsInjective(Names(Append(s, r)))
         /\ ToSet(Names(Append(s, r))) = ToSet(Names(s)) \cup {r.name}
<1> DEFINE n == r.name
           V == ToSet(Names(s)) \cup {n}
<1>1. Sequence(Names(s)) /\ Names(Append(s, r)) = Append(Names(s), n)  BY NamesMore
<1>2. ToSet(Names(s)) \subseteq V /\ n \in V  OBVIOUS
<1> HIDE DEF V, n
<1>3. Names(s) \in Seq(V)  BY <1>1, <1>2, IsSequence DEF Sequence
<1> QED  BY <1>1, <1>2, <1>3, OneMore DEF n

LEMMA SameLeads ==
  ASSUME UNCHANGED <<tree, cmd, at, jobs, path, dir>>, NEW r
  PROVE  Leads(r)' <=> Leads(r)
  BY DEF Leads, Node, Resolve, IsDir, Has, Op

(* A row of the directory that is read.                                    *)
LEMMA RowLeads ==
  ASSUME HtmlInv, at \in Tables \cup Wilds, NEW n \in ToSet(arr), Resolve(path) = dir
  PROVE  WhatColor(path, n) = dir /\ dir # NoDir /\ Node(Append(path, n)) = Node(Append(dir, n))
<1>1. /\ FileSystem(tree) /\ dir \in DOMAIN tree /\ n \in tree[dir] /\ Sequence(path)
  BY DEF HtmlInv, Types, Reading
<1>2. Sequence(dir) /\ dir # NoDir /\ Resolve(dir) = dir  BY <1>1, Directories DEF Resolve
<1>3. WhatColor(path, n) = dir  BY <1>1, <1>2 DEF WhatColor, Chdir, IsDir
<1>4. /\ Append(path, n) # <<>> /\ Front(Append(path, n)) = path /\ Last(Append(path, n)) = n
      /\ Append(dir, n) # <<>> /\ Front(Append(dir, n)) = dir /\ Last(Append(dir, n)) = n
  BY <1>1, <1>2, SequenceMore
<1>5. Resolve(Append(path, n)) = Resolve(Append(dir, n))  BY <1>1, <1>2, ResolveAppend DEF Resolve
<1> QED  BY <1>2, <1>3, <1>4, <1>5 DEF Node

LEMMA BackAgain ==
  ASSUME HtmlInv, at \in Tables \cup Wilds, NEW here
  PROVE  /\ at \in Tables \/ base = Home => Chdir(prev, here) = Home /\ cwd = Home
         /\ here \in DOMAIN tree => Chdir(prev, here) \in DOMAIN tree
         /\ Chdir(path, cwd) \in DOMAIN tree /\ Sequence(prev)
<1>1. Types /\ AtHome /\ FileSystem(tree) /\ cwd \in DOMAIN tree  BY DEF HtmlInv, Types
<1>2. Home \in DOMAIN tree /\ Resolve(Home) = Home /\ Home # NoDir /\ Sequence(Home)
  BY <1>1, Directories DEF Resolve
<1>3. Sequence(path)  BY DEF HtmlInv, Reading
<1>4. at \in Wilds => at \in Matching  BY DEF Matching
<1>5. Sequence(prev) /\ (at \in Tables \/ base = Home => prev = Home /\ cwd = Home)
  BY <1>1, <1>2, <1>4 DEF AtHome
<1>6. \A p : Sequence(p) => Resolve(p) \in (DOMAIN tree) \cup {NoDir}
  BY <1>1, Directories DEF Resolve
<1> QED  BY <1>1, <1>2, <1>3, <1>5, <1>6 DEF Chdir, IsDir

(* The next name of a table, with its row if it has one.                   *)
ToBeShown(n) == Shown(n) /\ (at = "long" => n \notin Nameless)
NextRow(r) ==
  /\ at \in Tables /\ arr # <<>> /\ NextName /\ streams' = streams /\ cwd' = cwd
  /\ IF ToBeShown(Head(arr)) THEN rows' = Append(rows, r) ELSE rows' = rows
  /\ r.name = Head(arr) /\ (ToBeShown(Head(arr)) => Leads(r))

LEMMA TableRow ==
  ASSUME HtmlInv, NEW r, NextRow(r)
  PROVE  HtmlInv'
<1> DEFINE n == Head(arr)
<1>1. Types /\ AtHome /\ Reading /\ Linked /\ RowsSoFar  BY DEF HtmlInv
<1>2. /\ at \in Tables /\ arr # <<>> /\ arr' = Tail(arr)
      /\ tree' = tree /\ cmd' = cmd /\ at' = at /\ jobs' = jobs /\ base' = base /\ path' = path
      /\ prev' = prev /\ dir' = dir /\ full' = full /\ streams' = streams /\ cwd' = cwd
  BY DEF NextRow, NextName, operand
<1>3. at \notin Wilds /\ at \notin Matching /\ at \notin {"main", "ls", "next", "done"}
  BY <1>2 DEF Tables, Wilds, Matching
<1>4. /\ dir \in DOMAIN tree /\ arr \in Seq(Entry) /\ IsInjective(arr) /\ ToSet(arr) \subseteq tree[dir]
      /\ Sequence(rows)
  BY <1>1, <1>2 DEF Reading, RowsSoFar
<1>5. /\ n \in ToSet(arr) /\ Tail(arr) \in Seq(Entry) /\ IsInjective(Tail(arr))
      /\ ToSet(Tail(arr)) = ToSet(arr) \ {n}
  BY <1>2, <1>4, OneLess
<1>6. Types'
  <2>1. \A x : JobRight(x)' <=> JobRight(x)  BY <1>2, SameFiles
  <2>2. FileSystem(tree)' /\ Argc' = Argc  BY <1>1, <1>2, SameFiles DEF Types, FileSystem
  <2> QED  BY <1>1, <1>2, <2>1, <2>2, Zenon DEF Types
<1>7. AtHome'  BY <1>1, <1>2, <1>3 DEF AtHome
<1>8. Reading'
  <2>1. Astray' <=> Astray  BY <1>2 DEF Astray, IsDir, Resolve, Op
  <2>2. Resolve(path)' = Resolve(path)  BY <1>2 DEF Resolve
  <2> QED  BY <1>1, <1>2, <1>4, <1>5, <2>1, <2>2 DEF Reading
<1>9. Linked'
  <2>1. \A x : Leads(x)' <=> Leads(x)  BY <1>2, SameLeads
  <2>2. \A x \in ToSet(rows) : Leads(x)  BY <1>1, <1>2 DEF Linked
  <2>3. \A x \in ToSet(rows') : Leads(x)
    <3>1. CASE ToBeShown(n)
      <4>1. rows' = Append(rows, r) /\ Leads(r)  BY <3>1 DEF NextRow
      <4>2. ToSet(rows') = ToSet(rows) \cup {r}  BY <1>4, <4>1, SequenceMore
      <4> QED  BY <2>2, <4>1, <4>2
    <3>2. CASE ~ToBeShown(n)
      <4>1. rows' = rows  BY <3>2 DEF NextRow
      <4> QED  BY <2>2, <4>1
    <3> QED  BY <3>1, <3>2
  <2> QED  BY <2>1, <2>3 DEF Linked
<1>10. RowsSoFar'
  <2>1. Looked' = Looked \cup {n} /\ n \notin Looked
    <3>1. Looked' = tree[dir] \ (ToSet(arr) \ {n})  BY <1>2, <1>5 DEF Looked
    <3> QED  BY <1>4, <1>5, <3>1 DEF Looked
  <2>2. ToShow = {m \in Looked : ToBeShown(m)}  BY <1>2 DEF ToShow, ToBeShown, Tables
  <2>3. ToShow' = {m \in Looked' : ToBeShown(m)}
    BY <1>2 DEF ToShow, ToBeShown, Tables, Shown, Has
  <2>4. CASE ToBeShown(n)
    <3>1. rows' = Append(rows, r) /\ r.name = n  BY <2>4 DEF NextRow
    <3>2. Sequence(rows')  BY <1>4, <3>1, SequenceMore
    <3>3. ToShow' = ToShow \cup {n} /\ n \notin ToShow  BY <2>1, <2>2, <2>3, <2>4
    <3> SUFFICES ASSUME ~full PROVE IsInjective(Names(rows)') /\ ToSet(Names(rows)') = ToShow'
      BY <1>2, <3>2 DEF RowsSoFar
    <3>4. IsInjective(Names(rows)) /\ ToSet(Names(rows)) = ToShow  BY <1>1, <1>2, <1>3 DEF RowsSoFar
    <3>5. Names(rows)' = Names(Append(rows, r))  BY <3>1 DEF Names
    <3> QED  BY <1>4, <3>1, <3>3, <3>4, <3>5, NamedOnce
  <2>5. CASE ~ToBeShown(n)
    <3>1. rows' = rows  BY <2>5 DEF NextRow
    <3>2. Names(rows)' = Names(rows)  BY <3>1 DEF Names
    <3>3. ToShow' = ToShow  BY <2>1, <2>2, <2>3, <2>5
    <3> QED  BY <1>1, <1>2, <3>1, <3>2, <3>3 DEF RowsSoFar
  <2> QED  BY <2>4, <2>5
<1>11. Streams'
  <2>1. Patterns' = Patterns /\ (Relative' <=> Relative)  BY <1>2, SameFiles
  <2> SUFFICES ASSUME ~full, Relative PROVE \E e \in 0 .. Len(Patterns) : Open(e)'
    BY <1>2, <2>1 DEF Streams
  <2>2. PICK e \in 0 .. Len(Patterns) : Open(e)  BY <1>2, <1>3 DEF HtmlInv, Streams, Tables
  <2>3. Left(e)' = Left(e)  BY <1>2, <1>3, SameLeft
  <2>4. Own' = Own  BY <1>2 DEF Own
  <2>5. Remaining(e)' <=> Remaining(e)  BY <1>2, <2>1 DEF Remaining
  <2>6. Open(e)'  BY <1>2, <1>3, <2>2, <2>3, <2>4, <2>5 DEF Open
  <2> QED  BY <2>6
<1> QED  BY <1>6, <1>7, <1>8, <1>9, <1>10, <1>11 DEF HtmlInv

LEMMA TableRowsKept ==
  ASSUME HtmlInv, ShortRow \/ AllRow \/ LongRow \/ AllDirRow \/ PlainRow
  PROVE  HtmlInv'
<1> DEFINE n == Head(arr)
           r(link) == [name |-> n, link |-> link, looked |-> WhatColor(path, n)]
<1>1. /\ at \in Tables /\ arr # <<>> /\ NextName /\ streams' = streams
      /\ at \in {"short", "all", "long", "dir", "plain"}
  BY DEF ShortRow, AllRow, LongRow, AllDirRow, PlainRow, Tables
<1>2. n \in ToSet(arr) /\ n \in Entry
  <2>1. arr \in Seq(Entry)  BY <1>1 DEF HtmlInv, Reading
  <2> QED  BY <1>1, <2>1, OneLess
<1>3. Chdir(prev, Chdir(path, cwd)) = cwd  BY <1>1, BackAgain
<1>4. ASSUME NEW link, Row(n, link) PROVE rows' = Append(rows, r(link)) /\ cwd' = cwd
  BY <1>3, <1>4 DEF Row
<1>5. ~Astray => Resolve(path) = dir  BY <1>1 DEF HtmlInv, Reading
<1>6. ASSUME NEW link, Node(link) = Node(Append(path, n)), ~Astray PROVE Leads(r(link))
  <2>1. WhatColor(path, n) = dir /\ Node(link) = Node(Append(dir, n))  BY <1>1, <1>2, <1>5, <1>6, RowLeads
  <2> QED  BY <2>1 DEF Leads
<1>7. ASSUME NEW link, ToBeShown(n) => Row(n, link), ~ToBeShown(n) => rows' = rows /\ cwd' = cwd,
             ToBeShown(n) => Leads(r(link))
      PROVE  HtmlInv'
  <2>1. r(link).name = n  OBVIOUS
  <2>2. NextRow(r(link))
    <3> HIDE DEF r
    <3> QED  BY <1>1, <1>4, <1>7, <2>1 DEF NextRow
  <2> HIDE DEF r
  <2> QED  BY <2>2, TableRow
<1> HIDE DEF r
<1>8. CASE ShortRow
  <2> DEFINE link == IF Has("r") THEN path ELSE Append(path, n)
  <2>1. at = "short" /\ (IF Shown(n) THEN Row(n, link) ELSE NoRow)  BY <1>8 DEF ShortRow
  <2>2. ToBeShown(n) <=> Shown(n)  BY <2>1 DEF ToBeShown
  <2>3. Leads(r(link))
    <3>1. CASE Has("r") \/ ~IsDir(path)  BY <2>1, <3>1 DEF Leads
    <3>2. CASE ~Has("r") /\ IsDir(path)
      <4>1. ~Astray /\ link = Append(path, n)  BY <2>1, <3>2 DEF Astray
      <4> QED  BY <1>6, <4>1
    <3> QED  BY <3>1, <3>2
  <2> HIDE DEF link
  <2> QED  BY <1>7, <2>1, <2>2, <2>3 DEF NoRow
<1>9. CASE AllRow \/ PlainRow
  <2>1. at \in {"all", "plain"} /\ (IF Shown(n) THEN Row(n, Append(path, n)) ELSE NoRow)
    BY <1>9 DEF AllRow, PlainRow
  <2>2. (ToBeShown(n) <=> Shown(n)) /\ ~Astray  BY <2>1 DEF ToBeShown, Astray
  <2>3. Leads(r(Append(path, n)))  BY <1>6, <2>2
  <2> QED  BY <1>7, <2>1, <2>2, <2>3 DEF NoRow
<1>10. CASE LongRow
  <2>1. at = "long" /\ OptionL(n)  BY <1>10 DEF LongRow
  <2>2. ~Astray  BY <2>1 DEF Astray
  <2>3. WhatColor(path, n) # NoDir  BY <1>1, <1>2, <1>5, <2>2, RowLeads
  <2>4. ToBeShown(n) <=> Shown(n) /\ n \notin Nameless  BY <2>1 DEF ToBeShown
  <2>5. /\ ToBeShown(n) => Row(n, Append(path, n))
        /\ ~ToBeShown(n) => rows' = rows /\ cwd' = cwd
    BY <1>3, <2>1, <2>3, <2>4 DEF OptionL
  <2>6. Leads(r(Append(path, n)))  BY <1>6, <2>2
  <2> QED  BY <1>7, <2>5, <2>6
<1>11. CASE AllDirRow
  <2> DEFINE link == IF n = ".." THEN prev ELSE Append(path, n)
  <2>1. at = "dir" /\ (IF Shown(n) THEN Row(n, link) ELSE NoRow)  BY <1>11 DEF AllDirRow
  <2>2. ToBeShown(n) <=> Shown(n)  BY <2>1 DEF ToBeShown
  <2>3. Leads(r(link))
    <3>1. CASE Op.abs  BY <2>1, <3>1 DEF Leads
    <3>2. CASE ~Op.abs /\ n # ".."
      <4>1. ~Astray /\ link = Append(path, n)  BY <2>1, <3>2 DEF Astray
      <4> QED  BY <1>6, <4>1
    <3>3. CASE ~Op.abs /\ n = ".." /\ Resolve(Append(dir, "..")) = Home
      <4>1. ~Astray  BY <2>1, <3>3 DEF Astray
      <4>2. FileSystem(tree) /\ dir \in DOMAIN tree /\ prev = Home
        BY <1>1 DEF HtmlInv, Types, Reading, AtHome
      <4>3. Sequence(dir) /\ Home \in DOMAIN tree /\ Resolve(Home) = Home
            /\ (Home # <<>> => /\ Front(Home) \in DOMAIN tree /\ Last(Home) \notin Dots
                               /\ Resolve(Front(Home)) = Front(Home) /\ Home = Append(Front(Home), Last(Home)))
        BY <4>2, Directories, SequenceLess DEF Resolve
      <4>4. Node(Home) = Home  BY <4>3 DEF Node
      <4>5. Node(Append(dir, "..")) = Home  BY <3>3, <4>3, SequenceMore DEF Node, Dots
      <4>6. Node(link) = Node(Append(dir, n))  BY <3>3, <4>2, <4>4, <4>5
      <4>7. WhatColor(path, n) = dir  BY <1>1, <1>2, <1>5, <4>1, RowLeads
      <4> QED  BY <4>6, <4>7 DEF Leads, r
    <3>4. CASE n = ".." /\ Resolve(Append(dir, "..")) # Home  BY <2>1, <3>4 DEF Leads, r
    <3> QED  BY <3>1, <3>2, <3>3, <3>4
  <2> HIDE DEF link
  <2> QED  BY <1>7, <2>1, <2>2, <2>3 DEF NoRow
<1> QED  BY <1>8, <1>9, <1>10, <1>11

(* The patterns are the first jobs.                                        *)
LEMMA NextJobRemaining ==
  ASSUME Types, NEW e \in 0 .. Len(Patterns), Remaining(e), jobs # <<>>, jobs' = Tail(jobs),
         UNCHANGED <<tree, cmd>>
  PROVE  /\ Head(jobs).kind # "pattern" => Remaining(e)'
         /\ Head(jobs).kind = "pattern" =>
              /\ e < Len(Patterns) /\ Head(jobs).op = Patterns[e + 1]
              /\ e + 1 \in 0 .. Len(Patterns) /\ Remaining(e + 1)'
<1> DEFINE rest == Len(Patterns) - e
<1>1. Len(Patterns) \in Nat /\ rest \in Nat /\ e \in Nat /\ Patterns' = Patterns
  BY PatternsAre, SameFiles DEF Types
<1>2. /\ Len(jobs) \in Nat \ {0} /\ Head(jobs) = jobs[1] /\ Len(jobs') = Len(jobs) - 1
      /\ \A i \in 1 .. Len(jobs) - 1 : jobs'[i] = jobs[i + 1]
  BY SequenceLess DEF Types
<1>3. 1 \in 1 .. Len(jobs) /\ \A i \in 1 .. Len(jobs) - 1 : i + 1 \in 1 .. Len(jobs) /\ i \in Nat
  BY <1>2
<1>4. /\ rest <= Len(jobs)
      /\ \A i \in 1 .. Len(jobs) : /\ jobs[i].kind = "pattern" <=> i <= rest
                                   /\ i <= rest => jobs[i].op = Patterns[e + i]
  BY DEF Remaining
<1>5. ASSUME Head(jobs).kind # "pattern" PROVE Remaining(e)'
  <2>1. rest = 0  BY <1>1, <1>2, <1>3, <1>4, <1>5
  <2>2. \A i \in 1 .. Len(jobs) - 1 : jobs'[i].kind # "pattern" /\ ~(i <= 0)
    BY <1>2, <1>3, <1>4, <2>1
  <2> QED  BY <1>1, <1>2, <2>1, <2>2 DEF Remaining
<1>6. ASSUME Head(jobs).kind = "pattern"
      PROVE  /\ e < Len(Patterns) /\ Head(jobs).op = Patterns[e + 1]
             /\ e + 1 \in 0 .. Len(Patterns) /\ Remaining(e + 1)'
  <2>1. 1 <= rest /\ Head(jobs).op = Patterns[e + 1]  BY <1>2, <1>3, <1>4, <1>6
  <2>2. e < Len(Patterns) /\ e + 1 \in 0 .. Len(Patterns)  BY <1>1, <2>1
  <2>3. ASSUME NEW i \in 1 .. Len(jobs) - 1
        PROVE  /\ jobs'[i].kind = "pattern" <=> i <= Len(Patterns) - (e + 1)
               /\ i <= Len(Patterns) - (e + 1) => jobs'[i].op = Patterns[(e + 1) + i]
    <3>1. i + 1 \in 1 .. Len(jobs) /\ jobs'[i] = jobs[i + 1] /\ (e + 1) + i = e + (i + 1)
      BY <1>1, <1>2, <1>3
    <3>2. i + 1 <= rest <=> i <= Len(Patterns) - (e + 1)  BY <1>1
    <3> QED  BY <1>4, <3>1, <3>2
  <2>4. Len(Patterns) - (e + 1) <= Len(jobs) - 1  BY <1>1, <1>2, <1>4
  <2> QED  BY <1>1, <1>2, <2>1, <2>2, <2>3, <2>4 DEF Remaining
<1> QED  BY <1>5, <1>6

(* Between the jobs, and at the end.                                       *)
LEMMA Rested ==
  ASSUME HtmlInv, at' \in {"next", "done"}, UNCHANGED <<tree, cmd, full>>,
         cwd' \in DOMAIN tree, at' = "next" => cwd' = Home,
         streams' \in Int, streams' <= MAX_DIR,
         Sequence(jobs'), \A x \in ToSet(jobs') : JobRight(x),
         at # "undefined", at' = "done" \/ Argc = 2 => jobs' = <<>>,
         ~full /\ Relative =>
           \E e \in 0 .. Len(Patterns) : streams' = Cardinality(Left(e)') /\ Remaining(e)'
  PROVE  HtmlInv'
<1>1. /\ Types /\ tree' = tree /\ cmd' = cmd /\ full' = full
      /\ Patterns' = Patterns /\ (Relative' <=> Relative) /\ Argc' = Argc /\ \A x : JobRight(x)' <=> JobRight(x)
  BY SameFiles DEF HtmlInv
<1>2. /\ at' \notin Tables /\ at' \notin Wilds /\ at' \notin Matching
      /\ at' \notin {"main", "ls", "short", "files", "dirs"}
  BY DEF Tables, Wilds, Matching
<1>3. Types'
  <2>1. FileSystem(tree)'  BY <1>1 DEF Types, FileSystem
  <2>2. cmd' \in Commands /\ full' \in BOOLEAN /\ cwd' \in DOMAIN tree'  BY <1>1 DEF Types
  <2>3. \A x \in ToSet(jobs)' : JobRight(x)'
    <3>1. ToSet(jobs)' = ToSet(jobs')  BY DEF ToSet
    <3> QED  BY <1>1, <3>1
  <2>4. Sequence(jobs)'
    <3>1. Sequence(jobs)' <=> Sequence(jobs')  BY DEF Sequence, ToSet
    <3> QED  BY <3>1
  <2> QED  BY <1>1, <1>2, <2>1, <2>2, <2>3, <2>4 DEF Types
<1>4. AtHome'  BY <1>2 DEF AtHome, Between
<1>5. Reading' /\ Linked' /\ RowsSoFar'  BY <1>2, NoListing
<1>6. Streams'
  <2> SUFFICES ASSUME ~full, Relative PROVE \E e \in 0 .. Len(Patterns) : Open(e)'
    BY <1>1 DEF Streams
  <2>1. PICK e \in 0 .. Len(Patterns) : streams' = Cardinality(Left(e)') /\ Remaining(e)'
    OBVIOUS
  <2>2. Own' = 0  BY <1>2 DEF Own
  <2>3. Cardinality(Left(e)') \in Nat
    <3>1. \A x \in LeftOpen : x[1] <= Len(Patterns)  BY <1>1, PatternsAre DEF LeftOpen, Types
    <3>2. LeftOpen = Left(Len(Patterns))  BY <3>1 DEF Left, Walked
    <3>3. IsFiniteSet(LeftOpen)  BY <1>1, <3>2, LeftIsFinite DEF Types
    <3>4. Left(e)' \subseteq LeftOpen  BY <1>1, SameFiles DEF Left
    <3> QED  BY <3>3, <3>4, FS_Subset, FS_CardinalityType
  <2>4. streams' = Own' + Cardinality(Left(e)')  BY <2>1, <2>2, <2>3
  <2>5. at' = "done" => jobs' = <<>>  OBVIOUS
  <2> QED  BY <1>2, <2>1, <2>4, <2>5 DEF Open
<1> QED  BY <1>3, <1>4, <1>5, <1>6 DEF HtmlInv

LEMMA EndsKept ==
  ASSUME HtmlInv, ShortEnd \/ End \/ Finish \/ FileEnd
  PROVE  HtmlInv'
<1>1. Types /\ AtHome /\ Reading  BY DEF HtmlInv
<1>2. /\ UNCHANGED <<tree, cmd, full, cwd>> /\ at' \in {"next", "done"}
      /\ at \in Tables \cup {"next", "file"} /\ at # "done"
      /\ jobs' = IF at \in {"short", "next"} \/ jobs = <<>> THEN jobs ELSE Tail(jobs)
      /\ streams' = IF at \in {"next", "file"} THEN streams ELSE streams - 1
      /\ at' = "next" => at \in Tables \cup {"file"}
      /\ at' = "done" => at \in {"short", "next"}
      /\ at = "next" => jobs = <<>>
  <2>1. at = "file" => jobs # <<>>  BY <1>1 DEF Reading
  <2> QED  BY <2>1 DEF ShortEnd, End, Finish, FileEnd, Tables
<1>3. cwd' = Home /\ cwd' \in DOMAIN tree
  BY <1>1, <1>2 DEF AtHome, Between, Types
<1>4. streams' \in Int /\ streams' <= MAX_DIR /\ streams \in Int
  <2>1. streams \in Int /\ streams <= MAX_DIR /\ MAX_DIR \in Int  BY <1>1, HtmlListingAssumption DEF Types
  <2> QED  BY <1>2, <2>1
<1>5. Sequence(jobs') /\ \A x \in ToSet(jobs') : JobRight(x)
  <2>1. jobs # <<>> => Sequence(Tail(jobs)) /\ ToSet(Tail(jobs)) \subseteq ToSet(jobs)
    BY <1>1, SequenceLess DEF Types
  <2>2. Sequence(jobs) /\ \A x \in ToSet(jobs) : JobRight(x)  BY <1>1 DEF Types
  <2> QED  BY <1>2, <2>1, <2>2
<1>6. at' = "done" \/ Argc = 2 => jobs' = <<>>
  BY <1>1, <1>2 DEF Types
<1>7. at # "undefined" /\ at \notin Matching /\ at' \notin Matching /\ at \notin {"main", "ls"}
      /\ at \notin Wilds
  BY <1>2 DEF Tables, Matching, Wilds
<1>8. ASSUME ~full, Relative
      PROVE  \E e \in 0 .. Len(Patterns) : streams' = Cardinality(Left(e)') /\ Remaining(e)'
  <2>1. PICK e \in 0 .. Len(Patterns) : Open(e)  BY <1>7, <1>8 DEF HtmlInv, Streams
  <2>2. streams = Own + Cardinality(Left(e)) /\ Remaining(e)  BY <1>7, <2>1 DEF Open
  <2>3. Left(e)' = Left(e)  BY <1>2, <1>7, SameLeft
  <2>4. Cardinality(Left(e)) \in Nat  BY <1>1, LeftIsFinite DEF Types
  <2>5. Own = IF at \in {"next", "file"} THEN 0 ELSE 1  BY <1>2 DEF Own, Tables, Wilds
  <2>6. streams' = Cardinality(Left(e)')  BY <1>2, <2>2, <2>3, <2>4, <2>5
  <2>7. Remaining(e)'
    <3>1. Patterns' = Patterns  BY <1>2, SameFiles
    <3>2. CASE jobs' = jobs  BY <2>2, <3>1, <3>2 DEF Remaining
    <3>3. CASE jobs' = Tail(jobs) /\ jobs # <<>> /\ at \in Tables \cup {"file"}
      <4>1. Head(jobs).kind \in {"dir", "file"}  BY <1>1, <3>3 DEF Reading
      <4> QED  BY <1>1, <1>2, <2>2, <3>3, <4>1, NextJobRemaining
    <3> QED  BY <1>2, <3>2, <3>3
  <2> QED  BY <2>6, <2>7
<1> QED  BY <1>2, <1>3, <1>4, <1>5, <1>6, <1>7, <1>8, Rested

(* What a path that exists leads to, seen from the directory it is in.     *)
LEMMA ExistsLeads ==
  ASSUME FileSystem(tree), NEW f, Sequence(f), f # <<>>, Exists(f)
  PROVE  Node(f) = Node(Append(Resolve(Front(f)), Last(f)))
<1> DEFINE d == Resolve(Front(f))
           n == Last(f)
<1>1. Sequence(Front(f)) /\ f = Append(Front(f), n)  BY SequenceLess
<1>2. Resolve(f) = Go(DOMAIN tree, d, n)
  <2>1. Resolve(Append(Front(f), n)) = Go(DOMAIN tree, d, n)  BY <1>1, ResolveAppend DEF Resolve
  <2> QED  BY <1>1, <2>1
<1>3. d \in DOMAIN tree
  <2>1. d \in (DOMAIN tree) \cup {NoDir}  BY <1>1, Directories DEF Resolve
  <2>2. d # NoDir
    <3>1. IsDir(f) \/ IsDir(Front(f))  BY DEF Exists
    <3> QED  BY <1>2, <3>1 DEF IsDir, Go
  <2> QED  BY <2>1, <2>2
<1> HIDE DEF d, n
<1>4. Sequence(d) /\ Resolve(d) = d  BY <1>3, Directories DEF Resolve
<1>5. Append(d, n) # <<>> /\ Front(Append(d, n)) = d /\ Last(Append(d, n)) = n
  BY <1>4, SequenceMore
<1>6. Resolve(Append(d, n)) = Resolve(f)  BY <1>2, <1>4, ResolveAppend DEF Resolve
<1>7. Node(f) = IF n \in Dots THEN Resolve(f) ELSE Append(d, n)  BY DEF Node, d, n
<1>8. Node(Append(d, n)) = IF n \in Dots THEN Resolve(f) ELSE Append(d, n)
  BY <1>4, <1>5, <1>6 DEF Node
<1> QED  BY <1>7, <1>8 DEF d, n

(* The table of an operand that is a file.                                 *)
LEMMA FileTableKept ==
  ASSUME HtmlInv, Job("file"), Exists(From(Op, cwd)), NEW h, NEW row, FileTable(h, row),
         ~Op.abs => h = cwd
  PROVE  HtmlInv'
<1>1. Types /\ AtHome /\ FileSystem(tree) /\ cmd \in Commands  BY DEF HtmlInv, Types
<1>2. /\ at = "next" /\ jobs # <<>> /\ Head(jobs).kind = "file" /\ at' = "file"
      /\ tree' = tree /\ cmd' = cmd /\ cwd' = cwd /\ streams' = streams /\ jobs' = jobs /\ full' = full
  BY DEF Job, FileTable
<1>3. /\ at \notin Matching /\ at' \notin Matching /\ at' \notin Tables \cup Wilds
      /\ at \notin Tables \cup Wilds
      /\ at' \in Between \ {"done"} /\ at' \notin {"main", "ls", "short"}
  BY <1>2 DEF Tables, Matching, Wilds, Between
<1>4. Types'
  <2>1. \A x : JobRight(x)' <=> JobRight(x)  BY <1>2, SameFiles
  <2>2. Argc' = Argc  BY <1>2, SameFiles
  <2>3. FileSystem(tree)'  BY <1>1, <1>2 DEF FileSystem
  <2> QED  BY <1>1, <1>2, <1>3, <2>1, <2>2, <2>3, Zenon DEF Types
<1>5. AtHome'
  <2>1. cwd = Home  BY <1>1, <1>2 DEF AtHome, Between
  <2> QED  BY <1>2, <1>3, <2>1 DEF AtHome
<1>6. Reading' /\ RowsSoFar'  BY <1>2, <1>3 DEF Reading, RowsSoFar
<1>7. Linked'
  <2> SUFFICES ASSUME NEW r \in ToSet(rows') PROVE Leads(r)'  BY DEF Linked, ToSet
  <2> DEFINE f == From(Op, cwd)
  <2>1. rows' # <<>>  BY NoElements
  <2>2. rows' = <<[name |-> Last(f), link |-> h \o Op.names, looked |-> dir']>> /\ dir' = Resolve(Front(f))
    BY <2>1 DEF FileTable
  <2>3. r.name = Last(f) /\ r.link = h \o Op.names /\ r.looked = dir'
    <3> HIDE DEF f
    <3>1. PICK q : q = [name |-> Last(f), link |-> h \o Op.names, looked |-> dir']  OBVIOUS
    <3>2. rows' = Append(<<>>, q)  BY <2>2, <3>1
    <3>3. Sequence(<<>>) /\ ToSet(<<>>) = {}  BY NoElements DEF Sequence
    <3>4. ToSet(Append(<<>>, q)) = ToSet(<<>>) \cup {q}  BY <3>3, SequenceMore
    <3>5. ToSet(rows') = {q}  BY <3>2, <3>3, <3>4, Zenon
    <3>6. r = q  BY <3>5
    <3> QED  BY <3>1, <3>6
  <2>4. CASE Op.abs  BY <1>2, <2>4 DEF Leads, Op
  <2>5. CASE ~Op.abs
    <3>1. f = cwd \o Op.names /\ r.link = f  BY <2>3, <2>5 DEF From
    <3>2. Head(jobs) \in ToSet(jobs)  BY <1>1, <1>2, SequenceLess DEF Types
    <3>3. Op \in Operands  BY <1>1, <3>2, PatternsAre DEF Types, JobRight, Op
    <3>4. Sequence(Op.names) /\ Op.names # <<>>
      BY <2>5, <3>3, HtmlListingAssumption DEF Sequence
    <3>5. Sequence(cwd)  BY <1>1, Directories DEF Types
    <3>6. Sequence(f) /\ f # <<>>
      <4>1. /\ Sequence(cwd \o Op.names) /\ Len(cwd \o Op.names) = Len(cwd) + Len(Op.names)
            /\ Len(cwd) \in Nat
        BY <3>4, <3>5, SequencesJoined
      <4>2. Len(Op.names) \in Nat \ {0}  BY <3>4, SequenceLess
      <4>3. Len(cwd \o Op.names) # 0 /\ Len(<<>>) = 0  BY <4>1, <4>2, EmptySeq
      <4>4. cwd \o Op.names # <<>>  BY <4>3
      <4> QED  BY <3>1, <4>1, <4>4
    <3>7. Exists(f)  OBVIOUS
    <3> HIDE DEF f
    <3>8. Node(f) = Node(Append(Resolve(Front(f)), Last(f)))  BY <1>1, <3>6, <3>7, ExistsLeads
    <3> DEFINE p == r.link
               q == r.name
    <3>9. Node(p)' = Node(Append(dir, q))'
      <4>1. Node(p)' = Node(p)  BY <1>2 DEF Node, Resolve
      <4>2. Node(Append(dir, q))' = Node(Append(Resolve(Front(f)), q))
        BY <1>2, <2>2 DEF Node, Resolve
      <4>3. p = f /\ q = Last(f)  BY <2>3, <3>1
      <4> QED  BY <3>8, <4>1, <4>2, <4>3
    <3> QED  BY <2>3, <3>9 DEF Leads
  <2> QED  BY <2>4, <2>5
<1>8. Streams'
  <2>1. Patterns' = Patterns /\ (Relative' <=> Relative)  BY <1>2, SameFiles
  <2> SUFFICES ASSUME ~full, Relative PROVE \E e \in 0 .. Len(Patterns) : Open(e)'
    BY <1>2, <2>1 DEF Streams
  <2>2. PICK e \in 0 .. Len(Patterns) : Open(e)  BY <1>2 DEF HtmlInv, Streams
  <2>3. Left(e)' = Left(e)  BY <1>2, <1>3, SameLeft
  <2>4. Own' = Own  BY <1>2, <1>3 DEF Own
  <2>5. Remaining(e)'  BY <1>2, <1>3, <2>1, <2>2 DEF Open, Remaining
  <2>6. streams' = Own' + Cardinality(Left(e)')  BY <1>2, <2>2, <2>3, <2>4 DEF Open
  <2> QED  BY <1>2, <1>3, <2>5, <2>6 DEF Open
<1> QED  BY <1>4, <1>5, <1>6, <1>7, <1>8 DEF HtmlInv

LEMMA FilesKept ==
  ASSUME HtmlInv, CannotAccess \/ AllFile \/ LongFile \/ LongFileReversed \/ PlainFile
  PROVE  HtmlInv'
<1>1. Types /\ AtHome  BY DEF HtmlInv
<1> SUFFICES ASSUME Job("file"), NextJob, cwd' = cwd PROVE HtmlInv'
  <2>1. CASE \E h, row : FileTable(h, row) /\ (~Op.abs => h = cwd) /\ Exists(From(Op, cwd))
    BY <2>1, FileTableKept DEF CannotAccess, AllFile, LongFile, LongFileReversed, PlainFile
  <2>2. CASE ~\E h, row : FileTable(h, row) /\ (~Op.abs => h = cwd) /\ Exists(From(Op, cwd))
    <3>1. Job("file")  BY DEF CannotAccess, AllFile, LongFile, LongFileReversed, PlainFile
    <3>2. NextJob /\ cwd' = cwd
      <4>1. ASSUME AllFile \/ LongFile \/ LongFileReversed
            PROVE  Exists(From(Op, cwd)) /\ \E h, row : (FileTable(h, row) \/ PageItself(h, 1)) /\ h = cwd
        BY <4>1 DEF AllFile, LongFile, LongFileReversed
      <4>2. CASE AllFile \/ LongFile \/ LongFileReversed  BY <2>2, <4>1, <4>2 DEF PageItself
      <4>3. CASE PlainFile  BY <2>2, <4>3 DEF PlainFile, PageItself
      <4>4. CASE CannotAccess  BY <4>4 DEF CannotAccess
      <4> QED  BY <4>2, <4>3, <4>4
    <3> QED  BY <3>1, <3>2
  <2> QED  BY <2>1, <2>2
<1>2. Job("file") /\ NextJob /\ cwd' = cwd  OBVIOUS
<1>3. /\ at = "next" /\ jobs # <<>> /\ Head(jobs).kind = "file" /\ at' = "next"
      /\ jobs' = Tail(jobs) /\ UNCHANGED <<tree, cmd, full>> /\ streams' = streams
  BY <1>2 DEF Job, NextJob
<1>4. cwd' = Home /\ cwd' \in DOMAIN tree  BY <1>1, <1>2, <1>3 DEF AtHome, Between, Types
<1>5. Sequence(jobs') /\ \A x \in ToSet(jobs') : JobRight(x)
  <2>1. Sequence(Tail(jobs)) /\ ToSet(Tail(jobs)) \subseteq ToSet(jobs)
    BY <1>1, <1>3, SequenceLess DEF Types
  <2> QED  BY <1>1, <1>3, <2>1 DEF Types
<1>6. at \notin Matching /\ at' \notin Matching /\ at \notin Tables /\ at \notin Wilds
  BY <1>3 DEF Tables, Matching, Wilds
<1>7. ASSUME ~full, Relative
      PROVE  \E e \in 0 .. Len(Patterns) : streams' = Cardinality(Left(e)') /\ Remaining(e)'
  <2>1. PICK e \in 0 .. Len(Patterns) : Open(e)  BY <1>3, <1>7 DEF HtmlInv, Streams
  <2>2. streams = Own + Cardinality(Left(e)) /\ Remaining(e) /\ Own = 0
    BY <1>3, <1>6, <2>1 DEF Open, Own
  <2>3. Left(e)' = Left(e)  BY <1>3, <1>6, SameLeft
  <2>4. Cardinality(Left(e)) \in Nat  BY <1>1, LeftIsFinite DEF Types
  <2>5. streams' = Cardinality(Left(e)')  BY <1>3, <2>2, <2>3, <2>4
  <2>6. Remaining(e)'  BY <1>1, <1>3, <2>2, NextJobRemaining
  <2> QED  BY <2>5, <2>6
<1>8. streams' \in Int /\ streams' <= MAX_DIR  BY <1>1, <1>3 DEF Types
<1>9. Argc # 2  BY <1>1, <1>3 DEF Types
<1> QED  BY <1>3, <1>4, <1>5, <1>7, <1>8, <1>9, Rested

LEMMA JobsAre ==
  ASSUME NEW kind, NEW s \in Seq(Operands)
  PROVE  /\ Sequence(Jobs(kind, s)) /\ Len(Jobs(kind, s)) = Len(s)
         /\ \A i \in 1 .. Len(s) : Jobs(kind, s)[i] = [kind |-> kind, op |-> s[i]]
         /\ ToSet(Jobs(kind, s)) \subseteq {[kind |-> kind, op |-> o] : o \in ToSet(s)}
<1> DEFINE V == {[kind |-> kind, op |-> o] : o \in ToSet(s)}
           j == Jobs(kind, s)
<1>1. Len(s) \in Nat /\ DOMAIN s = 1 .. Len(s) /\ \A i \in 1 .. Len(s) : s[i] \in ToSet(s)
  BY ToSetIs
<1>2. j = [i \in 1 .. Len(s) |-> [kind |-> kind, op |-> s[i]]]  BY <1>1 DEF Jobs
<1>3. j \in [1 .. Len(s) -> V]  BY <1>1, <1>2
<1> HIDE DEF V
<1>4. j \in Seq(V) /\ Len(j) = Len(s)  BY <1>1, <1>3, IsASeq, LenProperties
<1>5. ToSet(j) \subseteq V  BY <1>4, ToSetIs
<1>6. Sequence(j)  BY <1>4, <1>5, IsSequence
<1> QED  BY <1>2, <1>4, <1>5, <1>6 DEF V

LEMMA TurnedSequence ==
  ASSUME NEW s, Sequence(s)
  PROVE  Sequence(Turned(s)) /\ ToSet(Turned(s)) = ToSet(s)
<1>1. Turned(s) \in Seq(ToSet(s)) /\ ToSet(Turned(s)) = ToSet(s)  BY TurnedIs DEF Sequence
<1> QED  BY <1>1, IsSequence

LEMMA NotAlone ==
  ASSUME cmd \in Commands, at = "ls", ~Short, ~Alone
  PROVE  Argc # 2
<1> SUFFICES ASSUME Argc = 2 PROVE FALSE  OBVIOUS
<1>1. cmd.args = 1 \/ (cmd.args = 0 /\ cmd.flags = {})  BY OneArgument, HtmlListingAssumption
<1> QED  BY <1>1 DEF Short, Alone, Has

LEMMA ClassifyKept == HtmlInv /\ Classify => HtmlInv'
<1> SUFFICES ASSUME HtmlInv, Classify PROVE HtmlInv'  OBVIOUS
<1>1. Types /\ AtHome /\ FileSystem(tree) /\ cmd \in Commands  BY DEF HtmlInv, Types
<1>2. at = "ls" /\ UNCHANGED <<tree, cmd, cwd, streams, full>>  BY DEF Classify
<1>3. cwd = Home /\ cwd \in DOMAIN tree /\ Sequence(Home) /\ jobs = <<>>
  BY <1>1, <1>2, Directories DEF AtHome, Between, Types
<1> DEFINE uncounted == \E k \in DOMAIN cmd.ops : Uncounted(cmd.ops[k])
           all   == {o \in Operands : IsDir(From(o, cwd))}
           wild  == {o \in Operands : o.bracketed}
           dirs  == Kept(cmd.ops, all)
           files == Kept(cmd.ops, Operands \ (all \cup wild))
           pats  == Kept(cmd.ops, wild \ all)
           J1 == Jobs("pattern", pats)
           J2 == Jobs("file", files)
           J3 == Jobs("dir", dirs)
<1>4. CASE uncounted
  <2>1. at' = "undefined" /\ jobs' = jobs /\ full' \in BOOLEAN
    BY <1>1, <1>2, <1>4 DEF Classify, Types
  <2> QED  BY <1>2, <2>1, Undefined
<1>5. CASE ~uncounted
  <2>1. /\ at' = "next"
        /\ jobs' = IF Has("a") \/ Has("l") THEN Turned(J2) \o Turned(J3)
                   ELSE IF cmd.flags = {} THEN J1 \o J2 \o J3 ELSE <<>>
    BY <1>5 DEF Classify
  <2>2. /\ cmd.ops \in Seq(Operands) /\ DOMAIN cmd.ops = 1 .. Len(cmd.ops)
        /\ \A o \in ToSet(cmd.ops) : o \in Operands /\ \E i \in 1 .. Len(cmd.ops) : cmd.ops[i] = o
    BY <1>1, PatternsAre, ToSetIs
  <2>3. /\ dirs \in Seq(Operands) /\ ToSet(dirs) = ToSet(cmd.ops) \cap all
        /\ files \in Seq(Operands) /\ ToSet(files) \subseteq ToSet(cmd.ops)
        /\ pats \in Seq(Operands) /\ ToSet(pats) \subseteq ToSet(cmd.ops) \cap wild
    <3> HIDE DEF all, wild
    <3> QED  BY <2>2, KeptIs
  <2>4. ASSUME NEW o \in ToSet(cmd.ops) PROVE o \in wild => o \notin all
    <3>1. PICK i \in DOMAIN cmd.ops : cmd.ops[i] = o  BY <2>2
    <3>2. ~Uncounted(o)  BY <1>5, <3>1
    <3> QED  BY <3>2 DEF Uncounted
  <2>5. cmd.flags = {} => Patterns = pats
    <3>2. Argc # 2  BY <1>1, <1>2, NotAlone DEF Classify
    <3> SUFFICES ASSUME cmd.flags = {} PROVE Kept(cmd.ops, wild) = Kept(cmd.ops, wild \ all)
      BY <3>2 DEF Patterns, IsPattern
    <3>1. ToSet(cmd.ops) \cap wild = ToSet(cmd.ops) \cap (wild \ all)  BY <2>4
    <3> HIDE DEF wild, all
    <3> QED  BY <2>2, <3>1, KeptSame
  <2>6. \A o \in all : o \in ToSet(cmd.ops) => Resolve(From(o, Home)) \in DOMAIN tree
    <3> SUFFICES ASSUME NEW o \in Operands, IsDir(From(o, Home))
                 PROVE  Resolve(From(o, Home)) \in DOMAIN tree
      BY <1>3
    <3>1. Sequence(o.names)  BY HtmlListingAssumption DEF Sequence
    <3>2. Sequence(From(o, Home))  BY <1>3, <3>1, SequencesJoined DEF From
    <3> QED  BY <1>1, <3>2, Directories DEF IsDir, Resolve
  <2>7. \A o \in ToSet(pats) : o.bracketed  BY <2>3
  <2>8. \A o \in ToSet(dirs) : o \in ToSet(cmd.ops) /\ Resolve(From(o, Home)) \in DOMAIN tree
    BY <2>3, <2>6
  <2>9. \A o \in ToSet(files) \cup ToSet(pats) : o \in ToSet(cmd.ops)  BY <2>3
  <2>10. pats \in Seq(Operands) /\ files \in Seq(Operands) /\ dirs \in Seq(Operands)  BY <2>3
  <2> HIDE DEF all, wild, pats, files, dirs
  <2>11. /\ Sequence(J1) /\ Len(J1) = Len(pats)
         /\ \A i \in 1 .. Len(pats) : J1[i] = [kind |-> "pattern", op |-> pats[i]]
         /\ ToSet(J1) \subseteq {[kind |-> "pattern", op |-> o] : o \in ToSet(pats)}
    BY <2>10, JobsAre
  <2>12. Sequence(J2) /\ ToSet(J2) \subseteq {[kind |-> "file", op |-> o] : o \in ToSet(files)}
    BY <2>10, JobsAre
  <2>13. Sequence(J3) /\ ToSet(J3) \subseteq {[kind |-> "dir", op |-> o] : o \in ToSet(dirs)}
    BY <2>10, JobsAre
  <2>14. /\ cmd.flags = {} => \A x \in ToSet(J1) : JobRight(x) /\ x.kind = "pattern"
         /\ \A x \in ToSet(J2) : JobRight(x) /\ x.kind = "file"
         /\ \A x \in ToSet(J3) : JobRight(x) /\ x.kind = "dir"
    BY <2>7, <2>8, <2>9, <2>11, <2>12, <2>13 DEF JobRight
  <2> HIDE DEF J1, J2, J3
  <2>15. Sequence(jobs') /\ (\A x \in ToSet(jobs') : JobRight(x)) /\ Remaining(0)'
    <3>1. CASE Has("a") \/ Has("l")
      <4>1. jobs' = Turned(J2) \o Turned(J3)  BY <2>1, <3>1
      <4>2. /\ Sequence(Turned(J2)) /\ Sequence(Turned(J3))
            /\ ToSet(Turned(J2)) = ToSet(J2) /\ ToSet(Turned(J3)) = ToSet(J3)
        BY <2>12, <2>13, TurnedSequence
      <4> DEFINE A == Turned(J2)
                 B == Turned(J3)
      <4>3. Sequence(jobs') /\ ToSet(jobs') = ToSet(J2) \cup ToSet(J3)
        <5>1. Sequence(A) /\ Sequence(B)  BY <4>2
        <5>2. Sequence(A \o B) /\ ToSet(A \o B) = ToSet(A) \cup ToSet(B)
          <6> HIDE DEF A, B
          <6> QED  BY <5>1, SequencesJoined
        <5> QED  BY <4>1, <4>2, <5>2
      <4>4. Patterns' = Patterns /\ Patterns = <<>> /\ Len(<<>>) = 0
        <5>1. cmd.flags # {}  BY <3>1 DEF Has
        <5> QED  BY <1>1, <1>2, <5>1, PatternsAre, SameFiles, EmptySeq
      <4>5. Len(jobs') \in Nat /\ \A i \in 1 .. Len(jobs') : jobs'[i] \in ToSet(jobs')
        BY <4>3, ToSetIs DEF Sequence
      <4>6. \A i \in 1 .. Len(jobs') : jobs'[i].kind # "pattern" /\ ~(i <= 0)
        BY <2>14, <4>3, <4>5
      <4>7. Remaining(0)'  BY <4>4, <4>5, <4>6 DEF Remaining
      <4> QED  BY <2>14, <4>3, <4>7
    <3>2. CASE ~(Has("a") \/ Has("l")) /\ cmd.flags = {}
      <4>1. jobs' = (J1 \o J2) \o J3  BY <2>1, <3>2
      <4>2. Patterns' = Patterns /\ Patterns = pats  BY <1>2, <2>5, <3>2, SameFiles
      <4>3. /\ Sequence(J1 \o J2) /\ ToSet(J1 \o J2) = ToSet(J1) \cup ToSet(J2)
            /\ Len(J1 \o J2) = Len(J1) + Len(J2)
            /\ Len(J1) \in Nat /\ Len(J2) \in Nat
            /\ \A i \in 1 .. Len(J1) + Len(J2) :
                 (J1 \o J2)[i] = IF i <= Len(J1) THEN J1[i] ELSE J2[i - Len(J1)]
        BY <2>11, <2>12, SequencesJoined
      <4> DEFINE A == J1 \o J2
      <4>4. /\ Sequence(A \o J3) /\ ToSet(A \o J3) = ToSet(A) \cup ToSet(J3)
            /\ Len(A \o J3) = Len(A) + Len(J3) /\ Len(J3) \in Nat
            /\ \A i \in 1 .. Len(A) + Len(J3) :
                 (A \o J3)[i] = IF i <= Len(A) THEN A[i] ELSE J3[i - Len(A)]
        <5>1. Sequence(A)  BY <4>3
        <5> HIDE DEF A
        <5> QED  BY <2>13, <5>1, SequencesJoined
      <4>5. /\ \A i \in 1 .. Len(J2) : J2[i] \in ToSet(J2)
            /\ \A i \in 1 .. Len(J3) : J3[i] \in ToSet(J3)
        BY <2>12, <2>13, ToSetIs DEF Sequence
      <4>6. Sequence(jobs') /\ (\A x \in ToSet(jobs') : JobRight(x))
        BY <2>14, <3>2, <4>1, <4>3, <4>4
      <4>7. Len(jobs') = (Len(J1) + Len(J2)) + Len(J3)  BY <4>1, <4>3, <4>4
      <4>8. ASSUME NEW i \in 1 .. Len(jobs')
            PROVE  /\ jobs'[i].kind = "pattern" <=> i <= Len(pats)
                   /\ i <= Len(pats) => jobs'[i].op = pats[i]
        <5>1. CASE i <= Len(J1)
          <6>1. jobs'[i] = J1[i] /\ i \in 1 .. Len(pats)  BY <2>11, <4>1, <4>3, <4>4, <4>7, <5>1
          <6>2. jobs'[i] = [kind |-> "pattern", op |-> pats[i]]  BY <2>11, <6>1
          <6>3. jobs'[i].kind = "pattern" /\ jobs'[i].op = pats[i]  BY <6>2
          <6>4. i <= Len(pats)  BY <2>11, <5>1
          <6> QED  BY <6>3, <6>4
        <5>2. CASE ~(i <= Len(J1)) /\ i <= Len(A)
          <6>1. jobs'[i] = J2[i - Len(J1)] /\ i - Len(J1) \in 1 .. Len(J2)
            BY <4>1, <4>3, <4>4, <4>7, <5>2
          <6>2. jobs'[i].kind = "file"  BY <2>14, <4>5, <6>1
          <6> QED  BY <2>11, <5>2, <6>2
        <5>3. CASE ~(i <= Len(A))
          <6>1. jobs'[i] = J3[i - Len(A)] /\ i - Len(A) \in 1 .. Len(J3) /\ ~(i <= Len(J1))
            BY <4>1, <4>3, <4>4, <4>7, <5>3
          <6>2. jobs'[i].kind = "dir"  BY <2>14, <4>5, <6>1
          <6> QED  BY <2>11, <6>1, <6>2
        <5> QED  BY <5>1, <5>2, <5>3
      <4>9. Remaining(0)'
        <5>1. Len(pats) \in Nat /\ Len(pats) <= Len(jobs')  BY <2>11, <4>3, <4>4, <4>7
        <5>2. Len(pats) - 0 = Len(pats) /\ \A i \in 1 .. Len(jobs') : 0 + i = i  BY <5>1
        <5> QED  BY <4>2, <4>8, <5>1, <5>2 DEF Remaining
      <4> QED  BY <4>6, <4>9
    <3>3. CASE ~(Has("a") \/ Has("l")) /\ cmd.flags # {}
      <4>1. jobs' = <<>>  BY <2>1, <3>3
      <4>2. Sequence(<<>>) /\ ToSet(<<>>) = {} /\ Len(<<>>) = 0  BY NoElements, EmptySeq DEF Sequence
      <4>3. Patterns' = <<>>  BY <1>1, <1>2, <3>3, PatternsAre, SameFiles
      <4>4. Remaining(0)'  BY <4>1, <4>2, <4>3 DEF Remaining
      <4> QED  BY <4>1, <4>2, <4>4
    <3> QED  BY <3>1, <3>2, <3>3
  <2>16. ASSUME ~full, Relative
         PROVE  \E e \in 0 .. Len(Patterns) : streams' = Cardinality(Left(e)') /\ Remaining(e)'
    <3>1. PICK e \in 0 .. Len(Patterns) : Open(e)  BY <1>2, <2>16 DEF HtmlInv, Streams
    <3>2. e = 0 /\ streams = Own + Cardinality(Left(0))  BY <1>2, <3>1 DEF Open
    <3>3. at \notin Tables /\ at \notin Wilds /\ at \notin Matching /\ at' \notin Matching
          /\ at \notin {"files", "dirs"}
      BY <1>2, <2>1 DEF Tables, Wilds, Matching
    <3>4. Own = 0  BY <3>3 DEF Own
    <3>5. Left(0)' = Left(0)  BY <1>2, <3>3, SameLeft
    <3>6. Cardinality(Left(0)) \in Nat  BY <1>1, LeftIsFinite
    <3>7. streams' = Cardinality(Left(0)')  BY <1>2, <3>2, <3>4, <3>5, <3>6
    <3> QED  BY <2>15, <3>1, <3>2, <3>7
  <2>17. streams' \in Int /\ streams' <= MAX_DIR /\ cwd' \in DOMAIN tree /\ cwd' = Home
    BY <1>1, <1>2, <1>3 DEF Types
  <2>18. Argc # 2  BY <1>1, <1>2, NotAlone DEF Classify
  <2> QED  BY <1>2, <2>1, <2>15, <2>16, <2>17, <2>18, Rested
<1> QED  BY <1>4, <1>5

---------------------------------------------------------------------------
(* The patterns.                                                           *)

LEMMA LeftOpenIs ==
  ASSUME NEW x
  PROVE  x \in LeftOpen <=>
           /\ x = <<x[1], x[2], x[3], x[4]>>
           /\ x[1] \in DOMAIN Patterns /\ x[2] \in Entry /\ x[3] \in Entry
           /\ x[4] \in {"match", "files", "dirs"}
           /\ x[2] \in Matches(Patterns[x[1]])
           /\ IF x[4] = "match" THEN x[3] = x[2]
              ELSE /\ x[3] \in tree[Append(Home, x[2])] /\ IsDir(Append(Home, x[3]))
                   /\ x[4] = "dirs" => x[3] \in Hidden
  BY DEF LeftOpen

LEMMA NoneMore ==
  ASSUME UNCHANGED <<tree, cmd>>, NEW e, \A x \in LeftOpen : Walked(e, x)' <=> Walked(e, x)
  PROVE  Left(e)' = Left(e)
  BY SameFiles DEF Left

LEMMA OneMoreOpen ==
  ASSUME cmd \in Commands, UNCHANGED <<tree, cmd>>, NEW e, NEW y \in LeftOpen, ~Walked(e, y),
         \A x \in LeftOpen : Walked(e, x)' <=> Walked(e, x) \/ x = y
  PROVE  Cardinality(Left(e)') = Cardinality(Left(e)) + 1
<1>1. LeftOpen' = LeftOpen  BY SameFiles
<1>2. Left(e)' = Left(e) \cup {y} /\ y \notin Left(e)  BY <1>1 DEF Left
<1>3. IsFiniteSet(Left(e))  BY LeftIsFinite
<1> QED  BY <1>2, <1>3, FS_AddElement

(* From one match to the next.                                             *)
LEMMA BetweenMatches ==
  ASSUME HtmlInv, at # "undefined", at' \in {"files", "dirs"}, UNCHANGED <<tree, cmd, cwd, jobs>>,
         streams' \in Int, streams' <= MAX_DIR, full' \in BOOLEAN, ~full' => ~full,
         Sequence(base'), base' = Home => cwd = Home, Relative => base' = Home,
         Argc = 2 \/ jobs # <<>>,
         ~full' /\ Relative =>
           \E e \in 0 .. Len(Patterns) :
             streams' = 1 + Cardinality(Left(e)') /\ Expanding(e)'
  PROVE  HtmlInv'
<1>1. /\ Types /\ tree' = tree /\ cmd' = cmd /\ cwd' = cwd /\ jobs' = jobs /\ Argc' = Argc
      /\ Patterns' = Patterns /\ (Relative' <=> Relative) /\ \A x : JobRight(x)' <=> JobRight(x)
  BY SameFiles DEF HtmlInv
<1>2. /\ at' \in Matching /\ at' \notin Tables /\ at' \notin Wilds
      /\ at' \notin {"main", "ls", "short"}
      /\ at' \notin (Between \ {"done"}) \cup Tables
  BY DEF Tables, Wilds, Matching, Between
<1>3. Types'
  <2>1. FileSystem(tree)'  BY <1>1 DEF Types, FileSystem
  <2> QED  BY <1>1, <1>2, <2>1, Zenon DEF Types
<1>4. AtHome'
  <2>1. Sequence(base)' <=> Sequence(base')  BY DEF Sequence, ToSet
  <2> QED  BY <1>1, <1>2, <2>1 DEF AtHome
<1>5. Reading' /\ Linked' /\ RowsSoFar'  BY <1>2, NoListing
<1>6. Streams'
  <2> SUFFICES ASSUME ~full', Relative PROVE \E e \in 0 .. Len(Patterns) : Open(e)'
    BY <1>1 DEF Streams
  <2>1. PICK e \in 0 .. Len(Patterns) : streams' = 1 + Cardinality(Left(e)') /\ Expanding(e)'
    OBVIOUS
  <2>2. Own' = 1  BY DEF Own
  <2> QED  BY <1>2, <2>1, <2>2 DEF Open
<1> QED  BY <1>3, <1>4, <1>5, <1>6 DEF HtmlInv

(* The matches of a pattern, in order.                                     *)
LEMMA PatternBegins ==
  ASSUME HtmlInv, NEW b, NEW names, BeginPattern(b, names), at \in {"ls", "next"},
         Sequence(b), Relative => b = Home, Argc = 2 \/ jobs # <<>>,
         ~full /\ Relative =>
           \E e \in 0 .. Len(Patterns) :
             /\ Open(e) /\ e < Len(Patterns)
             /\ IF Argc = 2 THEN e = 0 /\ Len(Patterns) = 1 ELSE Remaining(e)
             /\ names \subseteq Patterns[e + 1].match \ Hidden
             /\ Matches(Patterns[e + 1]) \subseteq names
  PROVE  HtmlInv'
<1>1. Types /\ AtHome /\ FileSystem(tree) /\ cmd \in Commands  BY DEF HtmlInv, Types
<1>2. CASE ReadNull(Resolve(b))  BY <1>2, CrashKept DEF BeginPattern
<1>3. CASE ~ReadNull(Resolve(b))
  <2> DEFINE S == names \cap tree[Resolve(b)]
  <2>1. /\ at' = "files" /\ streams' = streams + 1 /\ base' = b /\ found' = SortHidden(S)
        /\ todo' = found' /\ UNCHANGED <<tree, cmd, cwd, jobs, full>>
    BY <1>3 DEF BeginPattern
  <2>2. streams \in Int /\ streams <= MAX_DIR /\ streams # MAX_DIR /\ MAX_DIR \in Int
    BY <1>1, <1>3, HtmlListingAssumption DEF Types, ReadNull
  <2>3. streams' \in Int /\ streams' <= MAX_DIR  BY <2>1, <2>2
  <2>4. cwd = Home  BY <1>1 DEF AtHome, Between
  <2>5. full' \in BOOLEAN /\ (~full' => ~full)  BY <1>1, <2>1 DEF Types
  <2>6. ASSUME ~full', Relative
        PROVE  \E e \in 0 .. Len(Patterns) :
                 streams' = 1 + Cardinality(Left(e)') /\ Expanding(e)'
    <3>1. PICK e \in 0 .. Len(Patterns) :
             /\ Open(e) /\ e < Len(Patterns)
             /\ IF Argc = 2 THEN e = 0 /\ Len(Patterns) = 1 ELSE Remaining(e)
             /\ names \subseteq Patterns[e + 1].match \ Hidden
             /\ Matches(Patterns[e + 1]) \subseteq names
      BY <2>5, <2>6
    <3>2. b = Home /\ Resolve(b) = Home /\ Home \in DOMAIN tree /\ tree[Home] \subseteq Entry
      BY <1>1, <2>6, Directories DEF Resolve
    <3>3. S = names \cap tree[Home] /\ S \subseteq Entry  BY <3>2
    <3> HIDE DEF S
    <3>4. Lists(found', S) /\ todo' = found'  BY <2>1, <3>3, SortsList
    <3>5. Matches(Patterns[e + 1]) \subseteq S /\ S \subseteq (Patterns[e + 1].match \ Hidden) \cap tree[Home]
      BY <3>1, <3>3 DEF Matches
    <3>6. at' \notin Wilds /\ at' \in Matching  BY <2>1 DEF Wilds, Matching
    <3>7. /\ Patterns' = Patterns /\ Argc' = Argc /\ LeftOpen' = LeftOpen
          /\ Matches(Patterns[e + 1])' = Matches(Patterns[e + 1])
      <4>1. Patterns' = Patterns /\ Argc' = Argc /\ LeftOpen' = LeftOpen  BY <2>1, SameFiles
      <4> QED  BY <2>1, <4>1 DEF Matches, IsDir, Resolve
    <3>8. Remaining(e)' <=> Remaining(e)  BY <2>1, <3>7 DEF Remaining
    <3>9. Expanding(e)'
      BY <2>1, <3>1, <3>4, <3>5, <3>6, <3>7, <3>8 DEF Expanding, Lists
    <3>10. Left(e)' = Left(e)
      <4> SUFFICES ASSUME NEW x \in LeftOpen PROVE Walked(e, x)' <=> Walked(e, x)
        BY <2>1, NoneMore
      <4>1. at \notin Matching  BY DEF Matching, Wilds
      <4>2. x[1] = e + 1 => x[2] \in ToSet(todo')
        BY <3>4, <3>5, LeftOpenIs DEF Lists
      <4> QED  BY <2>1, <4>1, <4>2 DEF Walked
    <3>11. streams = Own + Cardinality(Left(e)) /\ Own = 0
      BY <3>1 DEF Open, Own, Tables, Wilds
    <3>12. Cardinality(Left(e)) \in Nat  BY <1>1, LeftIsFinite
    <3>13. streams' = 1 + Cardinality(Left(e)')  BY <2>1, <3>10, <3>11, <3>12
    <3> QED  BY <3>9, <3>13
  <2> HIDE DEF S
  <2> QED  BY <2>1, <2>3, <2>4, <2>5, <2>6, BetweenMatches
<1> QED  BY <1>2, <1>3

LEMMA PatternsKept ==
  ASSUME HtmlInv, ShortPattern \/ Pattern
  PROVE  HtmlInv'
<1>1. Types /\ AtHome /\ FileSystem(tree) /\ cmd \in Commands  BY DEF HtmlInv, Types
<1>2. at \in {"ls", "next"}  BY DEF ShortPattern, Pattern, Short, Job
<1>3. cwd = Home /\ Sequence(Home)  BY <1>1, <1>2, Directories DEF AtHome, Between
<1>4. ASSUME NEW o PROVE Page \notin Matches(o)
  <2>1. Page \in Entry \ Hidden  BY HtmlListingAssumption
  <2> QED  BY <1>1, <2>1, NamesHere DEF Matches, IsDir, Resolve
<1>5. \A e : ~full /\ Relative /\ Open(e) => Own = 0
  BY <1>2 DEF Own, Tables, Wilds
<1>6. CASE ShortPattern
  <2>1. at = "ls" /\ Argc = 2 /\ Arg1.wild  BY <1>6 DEF ShortPattern, Short
  <2>2. /\ Arg1 \in Operands /\ Arg1 \in ToSet(cmd.ops) /\ Patterns = <<Arg1>>
    BY <1>1, <2>1, OneArgument
  <2>3. Len(Patterns) = 1 /\ Patterns[1] = Arg1  BY <2>2
  <2>4. CASE Arg1.abs
    <3>1. BeginPattern(Arg1.cut, Arg1.tail \ Hidden)  BY <1>6, <2>4 DEF ShortPattern
    <3>2. Sequence(Arg1.cut)  BY <2>1, <2>2, <2>4, HtmlListingAssumption DEF Sequence
    <3>3. ~Relative  BY <2>2, <2>4 DEF Relative
    <3> QED  BY <1>2, <2>1, <3>1, <3>2, <3>3, PatternBegins
  <2>5. CASE ~Arg1.abs
    <3> DEFINE names == Arg1.match \ (Hidden \cup {Page})
    <3>1. BeginPattern(cwd, names)  BY <1>6, <2>5 DEF ShortPattern
    <3>2. names \subseteq Arg1.match \ Hidden /\ Matches(Arg1) \subseteq names
      BY <1>4 DEF Matches
    <3> HIDE DEF names
    <3>3. ASSUME ~full, Relative PROVE Open(0)
      <4>1. PICK e \in 0 .. Len(Patterns) : Open(e)  BY <2>1, <3>3 DEF HtmlInv, Streams
      <4> QED  BY <2>1, <4>1 DEF Open
    <3>4. ASSUME ~full, Relative
          PROVE  \E e \in 0 .. Len(Patterns) :
                   /\ Open(e) /\ e < Len(Patterns)
                   /\ IF Argc = 2 THEN e = 0 /\ Len(Patterns) = 1 ELSE Remaining(e)
                   /\ names \subseteq Patterns[e + 1].match \ Hidden
                   /\ Matches(Patterns[e + 1]) \subseteq names
      <4>1. 0 \in 0 .. Len(Patterns) /\ 0 < Len(Patterns) /\ 0 + 1 = 1  BY <2>3
      <4>2. Patterns[0 + 1] = Arg1  BY <2>3, <4>1
      <4>3. /\ Open(0) /\ 0 < Len(Patterns)
            /\ IF Argc = 2 THEN 0 = 0 /\ Len(Patterns) = 1 ELSE Remaining(0)
            /\ names \subseteq Patterns[0 + 1].match \ Hidden
            /\ Matches(Patterns[0 + 1]) \subseteq names
        BY <2>1, <2>3, <3>2, <3>3, <3>4, <4>1, <4>2
      <4> QED  BY <4>1, <4>3
    <3> QED  BY <1>2, <1>3, <2>1, <3>1, <3>4, PatternBegins
  <2> QED  BY <2>4, <2>5
<1>7. CASE Pattern
  <2> DEFINE b == IF ~Op.abs THEN cwd ELSE IF Len(Op.names) = 1 THEN NoDir ELSE Front(Op.names)
             names == Op.match \ Hidden
  <2>1. /\ at = "next" /\ jobs # <<>> /\ Head(jobs).kind = "pattern" /\ BeginPattern(b, names)
    BY <1>7 DEF Pattern, Job
  <2>2. Head(jobs) \in ToSet(jobs)  BY <1>1, <2>1, SequenceLess DEF Types
  <2>3. Op \in ToSet(cmd.ops) /\ Op \in Operands /\ Op.bracketed
    BY <1>1, <2>1, <2>2, PatternsAre DEF Types, JobRight, Op
  <2>4. Sequence(Op.names) /\ Op.names # <<>>  BY <2>3, HtmlListingAssumption DEF Sequence
  <2>5. Sequence(b) /\ (Relative => b = Home)
    <3>1. Sequence(<<>>) /\ NoDir = Append(<<>>, "no directory")  BY NoElements DEF Sequence, NoDir
    <3>2. Sequence(NoDir)  BY <3>1, SequenceMore
    <3> QED  BY <1>3, <2>3, <2>4, <3>2, SequenceLess DEF Relative
  <2>6. Argc # 2  BY <1>1, <2>1 DEF Types
  <2>7. Matches(Op) \subseteq names  BY DEF Matches
  <2> HIDE DEF names, b
  <2>8. ASSUME ~full, Relative
        PROVE  \E e \in 0 .. Len(Patterns) :
                 /\ Open(e) /\ e < Len(Patterns)
                 /\ IF Argc = 2 THEN e = 0 /\ Len(Patterns) = 1 ELSE Remaining(e)
                 /\ names \subseteq Patterns[e + 1].match \ Hidden
                 /\ Matches(Patterns[e + 1]) \subseteq names
    <3>1. PICK e \in 0 .. Len(Patterns) : Open(e)  BY <2>1, <2>8 DEF HtmlInv, Streams
    <3>2. at \notin Matching  BY <2>1 DEF Matching, Wilds
    <3>3. Remaining(e)  BY <2>1, <3>1, <3>2 DEF Open
    <3>4. e < Len(Patterns) /\ Op = Patterns[e + 1]
      <4> DEFINE rest == Len(Patterns) - e
      <4>1. Len(Patterns) \in Nat /\ e \in Nat  BY <1>1, PatternsAre
      <4>2. Head(jobs) = jobs[1] /\ Len(jobs) \in Nat \ {0}  BY <1>1, <2>1, SequenceLess DEF Types
      <4>3. 1 \in 1 .. Len(jobs)  BY <4>2
      <4>4. 1 <= rest /\ jobs[1].op = Patterns[e + 1]  BY <2>1, <3>3, <4>2, <4>3 DEF Remaining
      <4> QED  BY <4>1, <4>2, <4>4 DEF Op
    <3> QED  BY <2>6, <2>7, <3>1, <3>3, <3>4 DEF names
  <2> QED  BY <1>2, <2>1, <2>5, <2>8, PatternBegins
<1> QED  BY <1>6, <1>7

(* A match, while the pattern behind e is expanded and all is at Home.     *)
Within(e) ==
  /\ e \in 0 .. Len(Patterns) /\ Expanding(e) /\ streams = Own + Cardinality(Left(e))
  /\ cwd = Home /\ base = Home /\ e + 1 \in DOMAIN Patterns
  /\ \A n \in ToSet(found) :
       /\ n \in Entry \ Hidden
       /\ IsDir(Append(Home, n)) <=> n \in Matches(Patterns[e + 1])
       /\ IsDir(Append(Home, n)) => Resolve(Append(Home, n)) = Append(Home, n)

LEMMA WithinOne ==
  ASSUME HtmlInv, at \in Matching, ~full, Relative
  PROVE  \E e : Within(e)
<1>1. Types /\ AtHome /\ FileSystem(tree) /\ cmd \in Commands  BY DEF HtmlInv, Types
<1>2. at \notin {"main", "ls", "undefined"}  BY DEF Matching, Wilds
<1>3. PICK e \in 0 .. Len(Patterns) : Open(e)  BY <1>2 DEF HtmlInv, Streams
<1>4. Expanding(e) /\ streams = Own + Cardinality(Left(e))  BY <1>2, <1>3 DEF Open
<1>5. base = Home /\ cwd = Home  BY <1>1 DEF AtHome
<1>6. e + 1 \in DOMAIN Patterns
  <2>1. Len(Patterns) \in Nat /\ DOMAIN Patterns = 1 .. Len(Patterns) /\ e < Len(Patterns)
    BY <1>1, <1>4, PatternsAre DEF Expanding
  <2> QED  BY <2>1
<1>7. ASSUME NEW n \in ToSet(found)
      PROVE  /\ n \in Entry \ Hidden
             /\ IsDir(Append(Home, n)) <=> n \in Matches(Patterns[e + 1])
             /\ IsDir(Append(Home, n)) => Resolve(Append(Home, n)) = Append(Home, n)
  <2>1. n \in Patterns[e + 1].match \ Hidden /\ n \in tree[Home]  BY <1>4 DEF Expanding
  <2>2. n \in Entry  BY <1>1, <2>1, Directories
  <2>3. IsDir(Append(Home, n)) <=> n \in Matches(Patterns[e + 1])  BY <2>1 DEF Matches
  <2>4. IsDir(Append(Home, n)) => Resolve(Append(Home, n)) = Append(Home, n)
    BY <1>1, <2>1, <2>2, NamesHere DEF IsDir, Resolve
  <2> QED  BY <2>1, <2>2, <2>3, <2>4
<1> QED  BY <1>3, <1>4, <1>5, <1>6, <1>7 DEF Within

(* What a step leaves as it is while a pattern is expanded.                *)
LEMMA StillExpanding ==
  ASSUME UNCHANGED <<tree, cmd, jobs, found>>, NEW e, Expanding(e),
         todo' \in Seq(Entry), IsInjective(todo'), ToSet(todo') \subseteq ToSet(found),
         at' \in Wilds => /\ path' = Append(Home, Last(path'))
                          /\ Last(path') \in ToSet(found) \ ToSet(todo')
                          /\ IsDir(path)'
  PROVE  Expanding(e)'
<1>1. /\ tree' = tree /\ cmd' = cmd /\ jobs' = jobs /\ found' = found
      /\ Patterns' = Patterns /\ Argc' = Argc
  BY SameFiles
<1>2. Matches(Patterns[e + 1])' = Matches(Patterns[e + 1])
  BY <1>1 DEF Matches, IsDir, Resolve
<1>3. Remaining(e)' <=> Remaining(e)  BY <1>1 DEF Remaining
<1> QED  BY <1>1, <1>2, <1>3 DEF Expanding

LEMMA MatchFileKept == HtmlInv /\ MatchFile => HtmlInv'
<1> SUFFICES ASSUME HtmlInv, MatchFile PROVE HtmlInv'  OBVIOUS
<1> DEFINE n == Head(todo)
           p == Append(base, n)
<1>1. Types /\ AtHome /\ FileSystem(tree) /\ cmd \in Commands  BY DEF HtmlInv, Types
<1>2. /\ at = "files" /\ todo # <<>> /\ todo' = Tail(todo) /\ at' = at
      /\ tree' = tree /\ cmd' = cmd /\ cwd' = cwd /\ jobs' = jobs /\ base' = base /\ found' = found
      /\ full' = (full \/ (IsDir(p) /\ streams = MAX_DIR))
      /\ streams' = IF Opens(p) THEN streams + 1 ELSE streams
  BY DEF MatchFile, FullIf
<1>3. at \in Matching /\ at \notin Wilds  BY <1>2 DEF Matching, Wilds
<1>4. streams' \in Int /\ streams' <= MAX_DIR /\ full' \in BOOLEAN /\ (~full' => ~full)
  <2>1. streams \in Int /\ streams <= MAX_DIR /\ MAX_DIR \in Int  BY <1>1, HtmlListingAssumption DEF Types
  <2>2. streams' \in Int /\ streams' <= MAX_DIR  BY <1>2, <2>1 DEF Opens
  <2>3. full' \in BOOLEAN /\ (~full' => ~full)  BY <1>2
  <2> QED  BY <2>2, <2>3
<1>5. Sequence(base') /\ (base' = Home => cwd = Home) /\ (Relative => base' = Home) /\ (Argc = 2 \/ jobs # <<>>)
  BY <1>1, <1>2, <1>3 DEF AtHome
<1>6. ASSUME ~full', Relative
      PROVE  \E e \in 0 .. Len(Patterns) :
               streams' = 1 + Cardinality(Left(e)') /\ Expanding(e)'
  <2>1. PICK e : Within(e)  BY <1>3, <1>4, <1>6, WithinOne
  <2>2. /\ todo \in Seq(Entry) /\ IsInjective(todo) /\ ToSet(todo) \subseteq ToSet(found)
        /\ e \in 0 .. Len(Patterns) /\ Expanding(e)
    BY <2>1 DEF Within, Expanding
  <2>3. /\ Tail(todo) \in Seq(Entry) /\ IsInjective(Tail(todo))
        /\ ToSet(Tail(todo)) = ToSet(todo) \ {n} /\ n \in ToSet(todo) /\ n \in Entry
    BY <1>2, <2>2, OneLess
  <2>4. Expanding(e)'  BY <1>2, <1>3, <2>2, <2>3, StillExpanding
  <2>5. /\ n \in ToSet(found) /\ base = Home /\ e + 1 \in DOMAIN Patterns
        /\ IsDir(p) <=> n \in Matches(Patterns[e + 1])
    BY <2>1, <2>2, <2>3 DEF Within
  <2>6. Opens(p) <=> IsDir(p)
    <3>1. streams \in Int /\ streams <= MAX_DIR /\ MAX_DIR \in Int  BY <1>1, HtmlListingAssumption DEF Types
    <3>2. IsDir(p) => streams # MAX_DIR  BY <1>2, <1>6
    <3> QED  BY <3>1, <3>2 DEF Opens
  <2>7. streams = 1 + Cardinality(Left(e))  BY <1>2, <2>1 DEF Within, Own
  <2>8. Cardinality(Left(e)) \in Nat  BY <1>1, LeftIsFinite
  <2> DEFINE y == <<e + 1, n, n, "match">>
  <2>9. \A x \in LeftOpen : Walked(e, x)' <=> Walked(e, x) \/ x = y
    <3> SUFFICES ASSUME NEW x \in LeftOpen PROVE Walked(e, x)' <=> Walked(e, x) \/ x = y  OBVIOUS
    <3>1. /\ x = <<x[1], x[2], x[3], x[4]>> /\ (x[4] = "match" => x[3] = x[2])
      BY LeftOpenIs
    <3>2. x = y <=> x[1] = e + 1 /\ x[4] = "match" /\ x[2] = n  BY <3>1
    <3>3. Walked(e, x) <=> x[1] <= e \/ (x[1] = e + 1 /\ x[4] = "match" /\ x[2] \notin ToSet(todo))
      BY <1>2, <1>3 DEF Walked
    <3>4. Walked(e, x)' <=> x[1] <= e \/ (x[1] = e + 1 /\ x[4] = "match" /\ x[2] \notin ToSet(todo'))
      BY <1>2, <1>3 DEF Walked
    <3> QED  BY <1>2, <2>3, <3>2, <3>3, <3>4
  <2>10. CASE IsDir(p)
    <3>1. y \in LeftOpen
      <4>1. y[1] = e + 1 /\ y[2] = n /\ y[3] = n /\ y[4] = "match"  OBVIOUS
      <4> HIDE DEF y
      <4>2. y = <<y[1], y[2], y[3], y[4]>>  BY <4>1 DEF y
      <4> QED  BY <2>3, <2>5, <2>10, <4>1, <4>2, LeftOpenIs
    <3>2. ~Walked(e, y)
      <4>1. ~(e + 1 <= e)
        <5>1. e \in Int  BY <1>1, <2>2, PatternsAre
        <5> QED  BY <5>1
      <4> QED  BY <1>2, <2>3, <4>1 DEF Walked
    <3> HIDE DEF y
    <3>3. Cardinality(Left(e)') = Cardinality(Left(e)) + 1  BY <1>1, <1>2, <2>9, <3>1, <3>2, OneMoreOpen
    <3>4. streams' = streams + 1  BY <1>2, <2>6, <2>10
    <3> QED  BY <2>2, <2>4, <2>7, <2>8, <3>3, <3>4
  <2>11. CASE ~IsDir(p)
    <3>1. y \notin LeftOpen  BY <2>5, <2>11, LeftOpenIs
    <3>2. Left(e)' = Left(e)  BY <1>2, <2>9, <3>1, NoneMore
    <3>3. streams' = streams  BY <1>2, <2>6, <2>11
    <3> QED  BY <2>2, <2>4, <2>7, <3>2, <3>3
  <2> QED  BY <2>10, <2>11
<1> QED  BY <1>2, <1>4, <1>5, <1>6, BetweenMatches

LEMMA MatchFilesDoneKept == HtmlInv /\ MatchFilesDone => HtmlInv'
<1> SUFFICES ASSUME HtmlInv, MatchFilesDone PROVE HtmlInv'  OBVIOUS
<1>1. Types /\ AtHome /\ FileSystem(tree) /\ cmd \in Commands  BY DEF HtmlInv, Types
<1>2. /\ at = "files" /\ todo = <<>> /\ at' = "dirs"
      /\ todo' = IF Argc = 2 THEN Kept(found, Entry \ {Page}) ELSE found
      /\ tree' = tree /\ cmd' = cmd /\ cwd' = cwd /\ jobs' = jobs /\ base' = base /\ found' = found
      /\ full' = full /\ streams' = streams
  BY DEF MatchFilesDone
<1>3. at \in Matching /\ at \notin Wilds /\ at' \notin Wilds /\ at' \in Matching
  BY <1>2 DEF Matching, Wilds
<1>4. streams' \in Int /\ streams' <= MAX_DIR /\ full' \in BOOLEAN  BY <1>1, <1>2 DEF Types
<1>5. Sequence(base') /\ (base' = Home => cwd = Home) /\ (Relative => base' = Home) /\ (Argc = 2 \/ jobs # <<>>)
  BY <1>1, <1>2, <1>3 DEF AtHome
<1>6. ASSUME ~full, Relative
      PROVE  \E e \in 0 .. Len(Patterns) :
               streams' = 1 + Cardinality(Left(e)') /\ Expanding(e)'
  <2>1. PICK e : Within(e)  BY <1>3, <1>6, WithinOne
  <2>2. /\ found \in Seq(Entry) /\ IsInjective(found) /\ Matches(Patterns[e + 1]) \subseteq ToSet(found)
        /\ e \in 0 .. Len(Patterns) /\ Expanding(e)
    BY <2>1 DEF Within, Expanding
  <2>3. /\ todo' \in Seq(Entry) /\ IsInjective(todo')
        /\ ToSet(todo') = IF Argc = 2 THEN ToSet(found) \cap (Entry \ {Page}) ELSE ToSet(found)
    <3> DEFINE S == Entry \ {Page}
    <3>1. todo' = IF Argc = 2 THEN Kept(found, S) ELSE found  BY <1>2
    <3> HIDE DEF S
    <3>2. Kept(found, S) \in Seq(Entry) /\ IsInjective(Kept(found, S))
          /\ ToSet(Kept(found, S)) = ToSet(found) \cap S
      BY <2>2, KeptIs
    <3> QED  BY <2>2, <3>1, <3>2 DEF S
  <2>4. Expanding(e)'  BY <1>2, <1>3, <2>2, <2>3, StillExpanding
  <2>5. Page \notin Matches(Patterns[e + 1])
    <3>1. Page \in Entry \ Hidden  BY HtmlListingAssumption
    <3> QED  BY <1>1, <3>1, NamesHere DEF Matches, IsDir, Resolve
  <2>6. \A n \in Matches(Patterns[e + 1]) : n \in ToSet(todo')
    <3>1. \A n \in Matches(Patterns[e + 1]) : n \in ToSet(found) /\ n \in Entry /\ n # Page
      BY <2>1, <2>2, <2>5 DEF Within
    <3> QED  BY <2>3, <3>1
  <2>7. Left(e)' = Left(e)
    <3> SUFFICES ASSUME NEW x \in LeftOpen PROVE Walked(e, x)' <=> Walked(e, x)  BY <1>2, NoneMore
    <3>1. x[1] = e + 1 => x[2] \in ToSet(todo')  BY <2>6, LeftOpenIs
    <3>2. x[2] \notin ToSet(todo)  BY <1>2, NoElements
    <3>3. Walked(e, x) <=> x[1] <= e \/ (x[1] = e + 1 /\ x[4] = "match")
      BY <1>2, <1>3, <3>2 DEF Walked
    <3>4. Walked(e, x)' <=> x[1] <= e \/ (x[1] = e + 1 /\ x[4] = "match")
      BY <1>2, <1>3, <3>1 DEF Walked
    <3> QED  BY <3>3, <3>4
  <2>8. streams' = 1 + Cardinality(Left(e)')  BY <1>2, <2>1, <2>7 DEF Within, Own
  <2> QED  BY <2>2, <2>4, <2>8
<1> QED  BY <1>2, <1>4, <1>5, <1>6, BetweenMatches

(* In a match.                                                             *)
LEMMA InMatch ==
  ASSUME HtmlInv, at \in Matching, at' \in Wilds, UNCHANGED <<tree, cmd, jobs, base>>,
         cwd' \in DOMAIN tree, base = Home => cwd' = Home,
         streams' \in Int, streams' <= MAX_DIR, full' \in BOOLEAN, ~full' => ~full,
         prev' = base, dir' \in DOMAIN tree,
         arr' \in Seq(Entry), IsInjective(arr'), ToSet(arr') \subseteq tree[dir'],
         Sequence(path'), Resolve(path)' = dir', Linked', RowsSoFar',
         ~full' /\ Relative =>
           \E e \in 0 .. Len(Patterns) :
             streams' = 3 + Cardinality(Left(e)') /\ Expanding(e)'
  PROVE  HtmlInv'
<1>1. /\ Types /\ AtHome /\ tree' = tree /\ cmd' = cmd /\ jobs' = jobs /\ base' = base /\ Argc' = Argc
      /\ Patterns' = Patterns /\ (Relative' <=> Relative) /\ \A x : JobRight(x)' <=> JobRight(x)
  BY SameFiles DEF HtmlInv
<1>2. /\ at' \in Matching /\ at' \notin Tables /\ at' \notin {"main", "ls", "short", "files", "dirs"}
      /\ at' \notin (Between \ {"done"}) \cup Tables
  BY DEF Tables, Wilds, Matching, Between
<1>3. Types'
  <2>1. FileSystem(tree)'  BY <1>1 DEF Types, FileSystem
  <2> QED  BY <1>1, <1>2, <2>1, Zenon DEF Types
<1>4. AtHome'  BY <1>1, <1>2 DEF AtHome
<1>5. Reading'
  <2>1. Sequence(path)' <=> Sequence(path')  BY DEF Sequence, ToSet
  <2>2. ToSet(arr)' = ToSet(arr')  BY DEF ToSet
  <2>3. IsInjective(arr)' <=> IsInjective(arr')  BY DEF IsInjective
  <2>4. at' # "dir" /\ at' # "file"  BY <1>2 DEF Tables, Between
  <2> QED  BY <1>1, <1>2, <2>1, <2>2, <2>3, <2>4 DEF Reading
<1>6. Streams'
  <2> SUFFICES ASSUME ~full', Relative PROVE \E e \in 0 .. Len(Patterns) : Open(e)'
    BY <1>1 DEF Streams
  <2>1. PICK e \in 0 .. Len(Patterns) : streams' = 3 + Cardinality(Left(e)') /\ Expanding(e)'
    OBVIOUS
  <2>2. Own' = 3  BY <1>2 DEF Own
  <2> QED  BY <1>2, <2>1, <2>2 DEF Open
<1> QED  BY <1>3, <1>4, <1>5, <1>6 DEF HtmlInv

LEMMA MatchDirKept == HtmlInv /\ MatchDir => HtmlInv'
<1> SUFFICES ASSUME HtmlInv, MatchDir PROVE HtmlInv'  OBVIOUS
<1> DEFINE n == Head(todo)
           p == Append(base, n)
<1>1. Types /\ AtHome /\ FileSystem(tree) /\ cmd \in Commands  BY DEF HtmlInv, Types
<1>2. /\ at = "dirs" /\ todo # <<>> /\ todo' = Tail(todo)
      /\ UNCHANGED <<tree, cmd, cwd, jobs, base, found>>
  BY DEF MatchDir
<1>3. at \in Matching /\ at \notin Wilds  BY <1>2 DEF Matching, Wilds
<1>4. streams \in Int /\ streams <= MAX_DIR /\ MAX_DIR \in Int  BY <1>1, HtmlListingAssumption DEF Types
<1>5. /\ Sequence(base) /\ (base = Home => cwd = Home) /\ (Relative => base = Home)
      /\ Argc = 2 \/ jobs # <<>>
  BY <1>1, <1>3 DEF AtHome
<1>6. ASSUME NEW e, Within(e)
      PROVE  /\ todo \in Seq(Entry) /\ IsInjective(todo) /\ ToSet(todo) \subseteq ToSet(found)
             /\ Tail(todo) \in Seq(Entry) /\ IsInjective(Tail(todo))
             /\ ToSet(Tail(todo)) = ToSet(todo) \ {n} /\ n \in ToSet(todo) /\ n \in ToSet(found)
             /\ e \in 0 .. Len(Patterns) /\ Expanding(e) /\ base = Home
             /\ IsDir(p) <=> n \in Matches(Patterns[e + 1])
             /\ IsDir(p) => Resolve(p) = p
             /\ streams = 1 + Cardinality(Left(e))
             /\ ToSet(Tail(todo)) \subseteq ToSet(found)
  <2>1. /\ todo \in Seq(Entry) /\ IsInjective(todo) /\ ToSet(todo) \subseteq ToSet(found)
        /\ e \in 0 .. Len(Patterns) /\ Expanding(e) /\ base = Home
    BY <1>6 DEF Within, Expanding
  <2>2. /\ Tail(todo) \in Seq(Entry) /\ IsInjective(Tail(todo))
        /\ ToSet(Tail(todo)) = ToSet(todo) \ {n} /\ n \in ToSet(todo)
    BY <1>2, <2>1, OneLess
  <2>3. Own = 1  BY <1>2 DEF Own
  <2> QED  BY <1>6, <2>1, <2>2, <2>3 DEF Within
<1>7. CASE ~Opens(p) \/ streams + 1 = MAX_DIR
  <2>1. at' = "dirs" /\ streams' = streams /\ full' \in BOOLEAN /\ (~full' => ~full /\ ~IsDir(p))
    <3>1. CASE ~Opens(p)
      <4>1. at' = at /\ streams' = streams /\ full' = (full \/ (IsDir(p) /\ streams = MAX_DIR))
        BY <3>1 DEF MatchDir, FullIf
      <4>2. IsDir(p) => streams = MAX_DIR  BY <1>4, <3>1 DEF Opens
      <4> QED  BY <1>2, <4>1, <4>2
    <3>2. CASE Opens(p) /\ streams + 1 = MAX_DIR
      <4>1. at' = at /\ streams' = streams /\ full' = TRUE  BY <3>2 DEF MatchDir
      <4> QED  BY <1>2, <4>1
    <3> QED  BY <1>7, <3>1, <3>2
  <2>2. ASSUME ~full', Relative
        PROVE  \E e \in 0 .. Len(Patterns) :
                 streams' = 1 + Cardinality(Left(e)') /\ Expanding(e)'
    <3>1. PICK e : Within(e)  BY <1>3, <2>1, <2>2, WithinOne
    <3>2. at' \notin Wilds /\ at' \in Matching  BY <2>1 DEF Wilds, Matching
    <3>3. Expanding(e)'  BY <1>2, <1>6, <3>1, <3>2, StillExpanding
    <3>4. Left(e)' = Left(e)
      <4> SUFFICES ASSUME NEW x \in LeftOpen PROVE Walked(e, x)' <=> Walked(e, x)  BY <1>2, NoneMore
      <4>1. x[1] = e + 1 => x[2] # n  BY <1>6, <2>1, <2>2, <3>1, LeftOpenIs
      <4>2. ToSet(todo') = ToSet(todo) \ {n}  BY <1>2, <1>6, <3>1
      <4>3. Walked(e, x) <=> x[1] <= e \/ (x[1] = e + 1 /\ (x[4] = "match" \/ x[2] \notin ToSet(todo)))
        BY <1>2, <1>3 DEF Walked
      <4>4. Walked(e, x)' <=> x[1] <= e \/ (x[1] = e + 1 /\ (x[4] = "match" \/ x[2] \notin ToSet(todo')))
        BY <2>1, <3>2 DEF Walked
      <4> QED  BY <4>1, <4>2, <4>3, <4>4
    <3> QED  BY <1>6, <2>1, <3>1, <3>3, <3>4
  <2> QED  BY <1>2, <1>4, <1>5, <2>1, <2>2, BetweenMatches
<1>8. CASE Opens(p) /\ streams + 1 # MAX_DIR
  <2>1. /\ at' = "wild1" /\ streams' = streams + 2 /\ path' = p /\ prev' = base
        /\ dir' = Resolve(p) /\ arr' = SortHidden(tree[dir']) /\ rows' = <<>> /\ full' = full
    BY <1>8 DEF MatchDir
  <2>2. IsDir(p) /\ streams < MAX_DIR  BY <1>8 DEF Opens
  <2>3. streams' \in Int /\ streams' <= MAX_DIR  BY <1>4, <1>8, <2>1, <2>2
  <2>4. at' \in Wilds /\ at' \in Matching /\ at' \notin Tables  BY <2>1 DEF Wilds, Matching, Tables
  <2>5. Sequence(p) /\ Last(p) = n  BY <1>5, SequenceMore
  <2>6. dir' \in DOMAIN tree
    <3>1. Resolve(p) \in (DOMAIN tree) \cup {NoDir}  BY <1>1, <2>5, Directories DEF Resolve
    <3> QED  BY <2>1, <2>2, <3>1 DEF IsDir
  <2>7. Lists(arr', tree[dir'])
    <3>1. \A d \in DOMAIN tree : Lists(SortHidden(tree[d]), tree[d])  BY <1>1, ListsHere
    <3> QED  BY <2>1, <2>6, <3>1
  <2>8. arr' \in Seq(Entry) /\ IsInjective(arr') /\ ToSet(arr') = tree[dir']  BY <2>7 DEF Lists
  <2>9. Resolve(path)' = dir'  BY <1>2, <2>1 DEF Resolve
  <2>10. Linked'  BY <2>1, NoElements DEF Linked
  <2>11. RowsSoFar'
    <3>1. ToSet(arr)' = ToSet(arr')  BY DEF ToSet
    <3>2. Looked' = {}  BY <1>2, <2>8, <3>1 DEF Looked
    <3>3. ToShow' = {}  BY <2>1, <3>2 DEF ToShow
    <3>4. Sequence(rows)' /\ Names(rows)' = <<>>  BY <2>1, NoElements DEF Sequence, Names
    <3> QED  BY <3>3, <3>4, NoElements DEF RowsSoFar
  <2>12. ASSUME ~full', Relative
         PROVE  \E e \in 0 .. Len(Patterns) :
                  streams' = 3 + Cardinality(Left(e)') /\ Expanding(e)'
    <3>1. PICK e : Within(e)  BY <1>3, <2>1, <2>12, WithinOne
    <3>2. /\ path' = Append(Home, Last(path')) /\ Last(path') \in ToSet(found) \ ToSet(todo')
          /\ IsDir(path)' /\ Last(path') = n
      <4>1. IsDir(path)'  BY <1>2, <2>1, <2>2 DEF IsDir, Resolve
      <4> QED  BY <1>2, <1>6, <2>1, <2>5, <3>1, <4>1
    <3>3. Expanding(e)'  BY <1>2, <1>6, <3>1, <3>2, StillExpanding
    <3>4. dir' = Append(Home, n)  BY <1>6, <2>1, <2>2, <3>1
    <3>5. Left(e)' = Left(e)
      <4> SUFFICES ASSUME NEW x \in LeftOpen PROVE Walked(e, x)' <=> Walked(e, x)  BY <1>2, NoneMore
      <4>1. x[4] # "match" /\ x[2] = n => x[3] \in ToSet(arr')  BY <2>8, <3>4, LeftOpenIs
      <4>2. ToSet(todo') = ToSet(todo) \ {n} /\ n \in ToSet(todo)  BY <1>2, <1>6, <3>1
      <4>3. Walked(e, x) <=> x[1] <= e \/ (x[1] = e + 1 /\ (x[4] = "match" \/ x[2] \notin ToSet(todo)))
        BY <1>2, <1>3 DEF Walked
      <4>4. Walked(e, x)' <=> x[1] <= e \/ (x[1] = e + 1 /\
                (x[4] = "match" \/ (x[2] \notin ToSet(todo') /\ x[2] # n)))
        <5>1. ToSet(arr)' = ToSet(arr')  BY DEF ToSet
        <5> QED  BY <2>1, <2>4, <3>2, <4>1, <5>1 DEF Walked
      <4> QED  BY <4>2, <4>3, <4>4
    <3>6. Cardinality(Left(e)) \in Nat  BY <1>1, LeftIsFinite
    <3>7. streams' = 3 + Cardinality(Left(e)')  BY <1>6, <2>1, <3>1, <3>5, <3>6
    <3> QED  BY <1>6, <3>1, <3>3, <3>7
  <2> QED
    BY <1>1, <1>2, <1>3, <1>5, <2>1, <2>3, <2>4, <2>5, <2>6, <2>8, <2>9, <2>10, <2>11, <2>12, InMatch
       DEF Types
<1> QED  BY <1>7, <1>8

LEMMA WildStepKept ==
  ASSUME HtmlInv, at \in Wilds, arr # <<>>, NEW closes \in BOOLEAN, closes <=> at = "wild2",
         WildStep(Opens(Append(cwd, Head(arr))), closes)
  PROVE  HtmlInv'
<1> DEFINE n == Head(arr)
           p == Append(cwd, n)
           r == [name |-> n, link |-> Append(path, n), looked |-> WhatColor(path, n)]
<1>1. Types /\ AtHome /\ Reading /\ Linked /\ RowsSoFar /\ FileSystem(tree) /\ cmd \in Commands
  BY DEF HtmlInv, Types
<1>2. /\ full' = (full \/ (IsDir(p) /\ streams = MAX_DIR)) /\ arr' = Tail(arr)
      /\ streams' = IF Opens(p) /\ ~(closes /\ Plainly(n)) THEN streams + 1 ELSE streams
      /\ tree' = tree /\ cmd' = cmd /\ at' = at /\ jobs' = jobs /\ base' = base /\ found' = found
      /\ todo' = todo /\ path' = path /\ prev' = prev /\ dir' = dir
  BY DEF WildStep, FullIf, operand
<1>3. at \in Matching /\ at \notin Tables /\ at \in {"wild1", "wild2"}  BY DEF Matching, Wilds, Tables
<1>4. /\ prev = base /\ Sequence(base) /\ (base = Home => cwd = Home) /\ (Relative => base = Home)
  BY <1>1, <1>3 DEF AtHome
<1>5. /\ dir \in DOMAIN tree /\ arr \in Seq(Entry) /\ IsInjective(arr) /\ ToSet(arr) \subseteq tree[dir]
      /\ Sequence(path) /\ Resolve(path) = dir /\ Sequence(rows)
  <2>1. ~Astray  BY <1>3 DEF Astray
  <2> QED  BY <1>1, <2>1 DEF Reading, RowsSoFar
<1>6. /\ n \in ToSet(arr) /\ n \in Entry /\ Tail(arr) \in Seq(Entry) /\ IsInjective(Tail(arr))
      /\ ToSet(Tail(arr)) = ToSet(arr) \ {n}
  BY <1>5, OneLess
<1>7. streams \in Int /\ streams <= MAX_DIR /\ MAX_DIR \in Int  BY <1>1, HtmlListingAssumption DEF Types
<1>8. streams' \in Int /\ streams' <= MAX_DIR  BY <1>2, <1>7 DEF Opens
<1>9. full' \in BOOLEAN /\ (~full' => ~full /\ (Opens(p) <=> IsDir(p)))
  <2>1. full' \in BOOLEAN /\ (~full' => ~full /\ (IsDir(p) => streams # MAX_DIR))  BY <1>2
  <2> QED  BY <1>7, <2>1 DEF Opens
<1> DEFINE shows == Plainly(n) /\ (Opens(p) <=> closes)
<1>10. IF shows THEN rows' = Append(rows, r) /\ cwd' = Chdir(prev, Chdir(path, cwd))
       ELSE rows' = rows /\ cwd' = cwd
  BY DEF WildStep, Row, NoRow
<1>11. cwd' \in DOMAIN tree /\ (base = Home => cwd' = Home)
  <2>1. cwd \in DOMAIN tree  BY <1>1 DEF Types
  <2> DEFINE here == Chdir(path, cwd)
  <2>2. here \in DOMAIN tree  BY BackAgain
  <2> HIDE DEF here
  <2>3. Chdir(prev, here) \in DOMAIN tree /\ (base = Home => Chdir(prev, here) = Home)
    BY <2>2, BackAgain
  <2> QED  BY <1>4, <1>10, <2>1, <2>3 DEF here
<1>12. Leads(r) /\ r.name = n
  <2>1. WhatColor(path, n) = dir /\ Node(Append(path, n)) = Node(Append(dir, n))
    BY <1>5, <1>6, RowLeads
  <2> QED  BY <2>1 DEF Leads
<1>13. /\ Sequence(rows') /\ ToSet(rows') \subseteq ToSet(rows) \cup {r}
  <2> HIDE DEF r
  <2>1. Sequence(Append(rows, r)) /\ ToSet(Append(rows, r)) = ToSet(rows) \cup {r}
    BY <1>5, SequenceMore
  <2>2. CASE rows' = Append(rows, r)  BY <2>1, <2>2
  <2>3. CASE rows' = rows  BY <1>5, <2>3
  <2> QED  BY <1>10, <2>2, <2>3 DEF r
<1> HIDE DEF r
<1>14. Linked'
  <2>1. \A x : Leads(x)' <=> Leads(x)  BY <1>2, SameLeads
  <2> QED  BY <1>1, <1>12, <1>13, <2>1 DEF Linked
<1>15. RowsSoFar'
  <2>1. Sequence(rows)'  BY <1>13 DEF Sequence, ToSet
  <2> SUFFICES ASSUME ~full', base = Home
               PROVE  IsInjective(Names(rows)') /\ ToSet(Names(rows)') = ToShow'
    BY <1>2, <1>3, <2>1 DEF RowsSoFar
  <2>2. IsInjective(Names(rows)) /\ ToSet(Names(rows)) = ToShow
    BY <1>1, <1>9 DEF RowsSoFar
  <2>3. p = Append(Home, n) /\ (Opens(p) <=> IsDir(Append(Home, n)))  BY <1>4, <1>9
  <2>4. Looked' = Looked \cup {n} /\ n \notin Looked /\ n \in tree[dir]
    <3>1. Looked' = tree[dir] \ (ToSet(arr) \ {n})  BY <1>2, <1>6 DEF Looked
    <3> QED  BY <1>5, <1>6, <3>1 DEF Looked
  <2>5. \A m : IsDir(Append(Home, m))' <=> IsDir(Append(Home, m))  BY <1>2 DEF IsDir, Resolve
  <2>6. IF shows THEN ToShow' = ToShow \cup {n} /\ n \notin ToShow ELSE ToShow' = ToShow
    <3>1. CASE at = "wild1"
      <4>1. ToShow = {m \in Looked : Plainly(m) /\ ~IsDir(Append(Home, m))}  BY <3>1 DEF ToShow
      <4>2. ToShow' = {m \in Looked' : Plainly(m) /\ ~IsDir(Append(Home, m))}
        BY <1>2, <2>5, <3>1 DEF ToShow
      <4>3. shows <=> Plainly(n) /\ ~IsDir(Append(Home, n))  BY <2>3, <3>1
      <4> HIDE DEF shows
      <4> QED  BY <2>4, <4>1, <4>2, <4>3
    <3>2. CASE at = "wild2"
      <4>1. ToShow = {m \in tree[dir] : Plainly(m) /\ (IsDir(Append(Home, m)) => m \in Looked)}
        BY <3>2 DEF ToShow
      <4>2. ToShow' = {m \in tree[dir] : Plainly(m) /\ (IsDir(Append(Home, m)) => m \in Looked')}
        BY <1>2, <2>5, <3>2 DEF ToShow
      <4>3. shows <=> Plainly(n) /\ IsDir(Append(Home, n))  BY <2>3, <3>2
      <4> HIDE DEF shows
      <4> QED  BY <2>4, <4>1, <4>2, <4>3
    <3> QED  BY <1>3, <3>1, <3>2
  <2> HIDE DEF shows
  <2>7. CASE shows
    <3>1. Names(rows)' = Names(Append(rows, r))  BY <1>10, <2>7 DEF Names
    <3>2. ToShow' = ToShow \cup {n} /\ n \notin ToShow  BY <2>6, <2>7
    <3> QED  BY <1>5, <1>12, <2>2, <3>1, <3>2, NamedOnce
  <2>8. CASE ~shows
    <3>1. Names(rows)' = Names(rows)  BY <1>10, <2>8 DEF Names
    <3> QED  BY <2>2, <2>6, <2>8, <3>1
  <2> QED  BY <2>7, <2>8
<1>16. ASSUME ~full', Relative
       PROVE  \E e \in 0 .. Len(Patterns) :
                streams' = 3 + Cardinality(Left(e)') /\ Expanding(e)'
  <2>1. PICK e : Within(e)  BY <1>3, <1>9, <1>16, WithinOne
  <2>2. /\ e \in 0 .. Len(Patterns) /\ Expanding(e) /\ cwd = Home /\ e + 1 \in DOMAIN Patterns
        /\ streams = 3 + Cardinality(Left(e))
    <3>1. Own = 3  BY <1>3 DEF Own
    <3> QED  BY <2>1, <3>1 DEF Within
  <2>3. /\ todo \in Seq(Entry) /\ IsInjective(todo) /\ ToSet(todo) \subseteq ToSet(found)
        /\ path = Append(Home, Last(path)) /\ Last(path) \in ToSet(found) \ ToSet(todo) /\ IsDir(path)
    BY <2>2 DEF Expanding
  <2>4. Expanding(e)'
    <3>1. IsDir(path)' <=> IsDir(path)  BY <1>2 DEF IsDir, Resolve
    <3> QED  BY <1>2, <2>2, <2>3, <3>1, StillExpanding
  <2> DEFINE l == Last(path)
             loop == IF closes THEN "dirs" ELSE "files"
             y == <<e + 1, l, n, loop>>
  <2>5. /\ l \in Matches(Patterns[e + 1]) /\ l \in Entry /\ dir = Append(Home, l)
    <3>1. /\ l \in Entry \ Hidden
          /\ IsDir(Append(Home, l)) <=> l \in Matches(Patterns[e + 1])
          /\ IsDir(Append(Home, l)) => Resolve(Append(Home, l)) = Append(Home, l)
      BY <2>1, <2>3 DEF Within
    <3>2. Append(Home, l) = path  BY <2>3
    <3> HIDE DEF l
    <3> QED  BY <1>5, <2>3, <3>1, <3>2
  <2>6. p = Append(Home, n) /\ (Opens(p) <=> IsDir(Append(Home, n)))  BY <1>9, <1>16, <2>2
  <2>7. y \in LeftOpen <=> IsDir(Append(Home, n)) /\ (closes => n \in Hidden)
    <3>1. y[1] = e + 1 /\ y[2] = l /\ y[3] = n /\ y[4] = loop  OBVIOUS
    <3> HIDE DEF y, l
    <3>2. y = <<y[1], y[2], y[3], y[4]>>  BY <3>1 DEF y
    <3>3. n \in tree[Append(Home, l)]  BY <1>5, <1>6, <2>5
    <3> QED  BY <1>6, <2>2, <2>5, <3>1, <3>2, <3>3, LeftOpenIs
  <2>8. streams' = IF y \in LeftOpen THEN streams + 1 ELSE streams
    <3>1. IsDir(Append(Home, n)) /\ n \notin Hidden => n # Page
      BY <1>1, <1>6, NamesHere DEF IsDir, Resolve
    <3>2. y \in LeftOpen <=> Opens(p) /\ ~(closes /\ Plainly(n))
      BY <2>6, <2>7, <3>1 DEF Plainly
    <3> HIDE DEF y, p
    <3> QED  BY <1>2, <3>2
  <2>9. ~(e + 1 <= e)
    <3>1. e \in Int  BY <1>1, <2>2, PatternsAre
    <3> QED  BY <3>1
  <2>10. ToSet(arr') = ToSet(arr) \ {n} /\ ToSet(arr)' = ToSet(arr')
    BY <1>2, <1>6 DEF ToSet
  <2>11. ~Walked(e, y) /\ \A x \in LeftOpen : Walked(e, x)' <=> Walked(e, x) \/ x = y
    <3>1. ~Walked(e, y)  BY <1>3, <1>6, <2>3, <2>9 DEF Walked
    <3>2. ASSUME NEW x \in LeftOpen PROVE Walked(e, x)' <=> Walked(e, x) \/ x = y
      <4>1. x = <<x[1], x[2], x[3], x[4]>> /\ x[4] \in {"match", "files", "dirs"}  BY LeftOpenIs
      <4>2. x = y <=> x[1] = e + 1 /\ x[2] = l /\ x[3] = n /\ x[4] = loop  BY <4>1
      <4> HIDE DEF l, loop, y
      <4>3. Walked(e, x) <=>
              \/ x[1] <= e
              \/ /\ x[1] = e + 1
                 /\ \/ x[4] = "match"
                    \/ /\ x[4] # "match" /\ x[2] \notin ToSet(todo)
                       /\ x[2] = l => IF x[4] = "files" THEN at = "wild1" => x[3] \notin ToSet(arr)
                                      ELSE at = "wild2" /\ x[3] \notin ToSet(arr)
        BY <1>3 DEF Walked, l, Wilds
      <4>4. Walked(e, x)' <=>
              \/ x[1] <= e
              \/ /\ x[1] = e + 1
                 /\ \/ x[4] = "match"
                    \/ /\ x[4] # "match" /\ x[2] \notin ToSet(todo)
                       /\ x[2] = l => IF x[4] = "files" THEN at = "wild1" => x[3] \notin ToSet(arr')
                                      ELSE at = "wild2" /\ x[3] \notin ToSet(arr')
        BY <1>2, <1>3, <2>10 DEF Walked, l, Wilds
      <4>5. l \notin ToSet(todo)  BY <2>3 DEF l
      <4>6. CASE closes
        <5>1. loop = "dirs" /\ at = "wild2"  BY <4>6 DEF loop
        <5> QED  BY <2>10, <4>1, <4>2, <4>3, <4>4, <4>5, <5>1
      <4>7. CASE ~closes
        <5>1. loop = "files" /\ at = "wild1"  BY <1>3, <4>7 DEF loop
        <5> QED  BY <2>10, <4>1, <4>2, <4>3, <4>4, <4>5, <5>1
      <4> QED  BY <4>6, <4>7
    <3> QED  BY <3>1, <3>2
  <2>12. Cardinality(Left(e)) \in Nat  BY <1>1, LeftIsFinite
  <2> HIDE DEF y
  <2>13. CASE y \in LeftOpen
    <3>1. Cardinality(Left(e)') = Cardinality(Left(e)) + 1
      BY <1>1, <1>2, <2>11, <2>13, OneMoreOpen
    <3> QED  BY <2>2, <2>4, <2>8, <2>12, <2>13, <3>1
  <2>14. CASE y \notin LeftOpen
    <3>1. Left(e)' = Left(e)  BY <1>2, <2>11, <2>14, NoneMore
    <3> QED  BY <2>2, <2>4, <2>8, <2>14, <3>1
  <2> QED  BY <2>13, <2>14
<1>17. Sequence(path') /\ Resolve(path)' = dir'
  BY <1>2, <1>5 DEF Resolve
<1>18. arr' \in Seq(Entry) /\ IsInjective(arr') /\ ToSet(arr') \subseteq tree[dir']
  BY <1>2, <1>5, <1>6
<1> QED
  BY <1>2, <1>3, <1>4, <1>5, <1>8, <1>9, <1>11, <1>15, <1>16, <1>17, <1>18, <1>14, InMatch

LEMMA WildFilesDoneKept == HtmlInv /\ WildFilesDone => HtmlInv'
<1> SUFFICES ASSUME HtmlInv, WildFilesDone PROVE HtmlInv'  OBVIOUS
<1>1. Types /\ AtHome /\ Reading /\ Linked /\ RowsSoFar /\ FileSystem(tree) /\ cmd \in Commands
  BY DEF HtmlInv, Types
<1>2. /\ at = "wild1" /\ arr = <<>> /\ at' = "wild2" /\ arr' = SortHidden(tree[dir])
      /\ tree' = tree /\ cmd' = cmd /\ cwd' = cwd /\ streams' = streams /\ jobs' = jobs
      /\ base' = base /\ found' = found /\ todo' = todo /\ path' = path /\ prev' = prev
      /\ dir' = dir /\ rows' = rows /\ full' = full
  BY DEF WildFilesDone, operand
<1>3. /\ at \in Wilds /\ at \in Matching /\ at \notin Tables
      /\ at' \in Wilds /\ at' \in Matching /\ at' \notin Tables
  BY <1>2 DEF Wilds, Matching, Tables
<1>4. /\ prev = base /\ Sequence(base) /\ (base = Home => cwd = Home) /\ (Relative => base = Home)
  BY <1>1, <1>3 DEF AtHome
<1>5. dir \in DOMAIN tree /\ Sequence(path) /\ Resolve(path) = dir /\ Sequence(rows)
  <2>1. ~Astray  BY <1>2 DEF Astray
  <2> QED  BY <1>1, <1>3, <2>1 DEF Reading, RowsSoFar
<1>6. arr' \in Seq(Entry) /\ IsInjective(arr') /\ ToSet(arr') = tree[dir]
  BY <1>1, <1>2, <1>5, ListsHere DEF Lists
<1>7. ToSet(arr)' = ToSet(arr') /\ ToSet(arr) = {}  BY <1>2, NoElements DEF ToSet
<1>8. Linked'
  <2>1. \A x : Leads(x)' <=> Leads(x)  BY <1>2 DEF Leads, Node, Resolve, IsDir
  <2>2. \A x \in ToSet(rows) : Leads(x)  BY <1>1, <1>3 DEF Linked
  <2>3. ToSet(rows)' = ToSet(rows)  BY <1>2 DEF ToSet
  <2> QED  BY <2>1, <2>2, <2>3 DEF Linked
<1>9. RowsSoFar'
  <2>1. Sequence(rows)' /\ Names(rows)' = Names(rows)  BY <1>2, <1>5 DEF Names, Sequence, ToSet
  <2> SUFFICES ASSUME ~full, base = Home
               PROVE  IsInjective(Names(rows)) /\ ToSet(Names(rows)) = ToShow'
    BY <1>2, <1>3, <2>1 DEF RowsSoFar
  <2>2. IsInjective(Names(rows)) /\ ToSet(Names(rows)) = ToShow  BY <1>1, <1>3 DEF RowsSoFar
  <2>3. \A m : IsDir(Append(Home, m))' <=> IsDir(Append(Home, m))  BY <1>2 DEF IsDir, Resolve
  <2>4. ToShow = {m \in tree[dir] : Plainly(m) /\ ~IsDir(Append(Home, m))}
    BY <1>2, <1>7 DEF ToShow, Looked
  <2>5. ToShow' = {m \in tree[dir] : Plainly(m) /\ ~IsDir(Append(Home, m))}
    BY <1>2, <1>6, <1>7, <2>3 DEF ToShow, Looked
  <2> QED  BY <2>2, <2>4, <2>5
<1>10. ASSUME ~full', Relative
       PROVE  \E e \in 0 .. Len(Patterns) :
                streams' = 3 + Cardinality(Left(e)') /\ Expanding(e)'
  <2>1. PICK e : Within(e)  BY <1>2, <1>3, <1>10, WithinOne
  <2>2. e \in 0 .. Len(Patterns) /\ Expanding(e) /\ streams = 3 + Cardinality(Left(e))
    <3>1. Own = 3  BY <1>2 DEF Own, Tables, Wilds
    <3> QED  BY <2>1, <3>1 DEF Within
  <2>3. /\ todo \in Seq(Entry) /\ IsInjective(todo) /\ ToSet(todo) \subseteq ToSet(found)
        /\ path = Append(Home, Last(path)) /\ Last(path) \in ToSet(found) \ ToSet(todo) /\ IsDir(path)
    BY <1>3, <2>2 DEF Expanding
  <2>4. Expanding(e)'
    <3>1. IsDir(path)' <=> IsDir(path)  BY <1>2 DEF IsDir, Resolve
    <3> QED  BY <1>2, <2>2, <2>3, <3>1, StillExpanding
  <2> DEFINE l == Last(path)
  <2>5. dir = Append(Home, l)
    <3>1. IsDir(Append(Home, l)) => Resolve(Append(Home, l)) = Append(Home, l)  BY <2>1, <2>3 DEF Within
    <3>2. Append(Home, l) = path  BY <2>3
    <3> HIDE DEF l
    <3> QED  BY <1>5, <2>3, <3>1, <3>2
  <2>6. Left(e)' = Left(e)
    <3> SUFFICES ASSUME NEW x \in LeftOpen PROVE Walked(e, x)' <=> Walked(e, x)  BY <1>2, NoneMore
    <3>1. x[4] # "match" /\ x[2] = l => x[3] \in ToSet(arr')  BY <1>6, <2>5, LeftOpenIs
    <3>2. x[4] \in {"match", "files", "dirs"}  BY LeftOpenIs
    <3> HIDE DEF l
    <3>3. Walked(e, x) <=>
            \/ x[1] <= e
            \/ /\ x[1] = e + 1
               /\ \/ x[4] = "match"
                  \/ x[4] # "match" /\ x[2] \notin ToSet(todo) /\ (x[2] = l => x[4] = "files")
      BY <1>2, <1>3, <1>7 DEF Walked, l
    <3>4. Walked(e, x)' <=>
            \/ x[1] <= e
            \/ /\ x[1] = e + 1
               /\ \/ x[4] = "match"
                  \/ x[4] # "match" /\ x[2] \notin ToSet(todo) /\ (x[2] = l => x[4] = "files")
      BY <1>2, <1>3, <1>7, <3>1 DEF Walked, l
    <3> QED  BY <3>3, <3>4
  <2> QED  BY <1>2, <2>2, <2>4, <2>6
<1>11. streams' \in Int /\ streams' <= MAX_DIR /\ full' \in BOOLEAN /\ cwd' \in DOMAIN tree
  BY <1>1, <1>2 DEF Types
<1>12. Sequence(path') /\ Resolve(path)' = dir' /\ ToSet(arr') \subseteq tree[dir']
  BY <1>2, <1>5, <1>6 DEF Resolve
<1> QED
  BY <1>2, <1>3, <1>4, <1>5, <1>6, <1>8, <1>9, <1>10, <1>11, <1>12, InMatch

LEMMA WildEndKept == HtmlInv /\ WildEnd => HtmlInv'
<1> SUFFICES ASSUME HtmlInv, WildEnd PROVE HtmlInv'  OBVIOUS
<1>1. Types /\ AtHome /\ cmd \in Commands  BY DEF HtmlInv, Types
<1>2. /\ at = "wild2" /\ arr = <<>> /\ at' = "dirs" /\ streams' = streams - 2
      /\ tree' = tree /\ cmd' = cmd /\ cwd' = cwd /\ jobs' = jobs
      /\ base' = base /\ found' = found /\ todo' = todo /\ full' = full
  BY DEF WildEnd, operand
<1>3. at \in Wilds /\ at \in Matching /\ at' \notin Wilds /\ at' \in Matching /\ at \notin Tables
  BY <1>2 DEF Wilds, Matching, Tables
<1>4. /\ Sequence(base) /\ (base = Home => cwd = Home) /\ (Relative => base = Home)
      /\ Argc = 2 \/ jobs # <<>>
  BY <1>1, <1>3 DEF AtHome
<1>5. streams' \in Int /\ streams' <= MAX_DIR /\ streams \in Int /\ full' \in BOOLEAN
  <2>1. streams \in Int /\ streams <= MAX_DIR /\ MAX_DIR \in Int  BY <1>1, HtmlListingAssumption DEF Types
  <2>2. streams' \in Int /\ streams' <= MAX_DIR  BY <1>2, <2>1
  <2>3. full' \in BOOLEAN  BY <1>1, <1>2 DEF Types
  <2> QED  BY <2>1, <2>2, <2>3
<1>6. ASSUME ~full', Relative
      PROVE  \E e \in 0 .. Len(Patterns) :
               streams' = 1 + Cardinality(Left(e)') /\ Expanding(e)'
  <2>1. PICK e : Within(e)  BY <1>2, <1>3, <1>6, WithinOne
  <2>2. e \in 0 .. Len(Patterns) /\ Expanding(e) /\ streams = 3 + Cardinality(Left(e))
    <3>1. Own = 3  BY <1>2 DEF Own, Tables, Wilds
    <3> QED  BY <2>1, <3>1 DEF Within
  <2>3. /\ todo \in Seq(Entry) /\ IsInjective(todo) /\ ToSet(todo) \subseteq ToSet(found)
        /\ Last(path) \in ToSet(found) \ ToSet(todo)
    BY <1>3, <2>2 DEF Expanding
  <2>4. Expanding(e)'  BY <1>2, <1>3, <2>2, <2>3, StillExpanding
  <2>5. Left(e)' = Left(e)
    <3> SUFFICES ASSUME NEW x \in LeftOpen PROVE Walked(e, x)' <=> Walked(e, x)  BY <1>2, NoneMore
    <3>1. x[3] \notin ToSet(arr)  BY <1>2, NoElements
    <3>2. Walked(e, x) <=> x[1] <= e \/ (x[1] = e + 1 /\ (x[4] = "match" \/ x[2] \notin ToSet(todo)))
      BY <1>2, <1>3, <3>1 DEF Walked
    <3>3. Walked(e, x)' <=> x[1] <= e \/ (x[1] = e + 1 /\ (x[4] = "match" \/ x[2] \notin ToSet(todo)))
      BY <1>2, <1>3 DEF Walked
    <3> QED  BY <3>2, <3>3
  <2>6. Cardinality(Left(e)) \in Nat  BY <1>1, LeftIsFinite
  <2>7. streams' = 1 + Cardinality(Left(e)')  BY <1>2, <2>2, <2>5, <2>6
  <2> QED  BY <2>2, <2>4, <2>7
<1> QED  BY <1>2, <1>4, <1>5, <1>6, BetweenMatches

LEMMA PatternsDoneKept ==
  ASSUME HtmlInv, ShortPatternDone \/ PatternDone
  PROVE  HtmlInv'
<1>1. Types /\ AtHome /\ FileSystem(tree) /\ cmd \in Commands  BY DEF HtmlInv, Types
<1>2. /\ at = "dirs" /\ todo = <<>> /\ at' = (IF Argc = 2 THEN "done" ELSE "next")
      /\ streams' = streams - 1 /\ tree' = tree /\ cmd' = cmd /\ full' = full
      /\ jobs' = (IF Argc = 2 THEN jobs ELSE Tail(jobs))
      /\ cwd' = (IF Argc = 2 THEN cwd ELSE Chdir(Home, cwd))
  <2>1. CASE ShortPatternDone  BY <2>1 DEF ShortPatternDone
  <2>2. CASE PatternDone
    <3>1. Argc # 2
      <4>1. Argc > 2  BY <2>2 DEF PatternDone
      <4>2. cmd.args \in Nat /\ Len(cmd.ops) \in Nat
        BY <1>1, PatternsAre, HtmlListingAssumption, LenProperties
      <4>3. Argc \in Int  BY <4>2 DEF Argc
      <4> HIDE DEF Argc
      <4> QED  BY <4>1, <4>3
    <3> QED  BY <2>2, <3>1 DEF PatternDone
  <2> QED  BY <2>1, <2>2
<1>3. at \in Matching /\ at \notin Wilds /\ at' \notin Matching /\ at \notin Tables
  BY <1>2 DEF Matching, Wilds, Tables
<1>4. cwd' \in DOMAIN tree /\ (at' = "next" => cwd' = Home)
  <2>1. Resolve(Home) = Home /\ Home \in DOMAIN tree /\ Home # NoDir
    BY <1>1, Directories DEF Resolve
  <2> QED  BY <1>1, <1>2, <2>1 DEF Chdir, IsDir, Types
<1>5. streams' \in Int /\ streams' <= MAX_DIR /\ streams \in Int
  <2>1. streams \in Int /\ streams <= MAX_DIR /\ MAX_DIR \in Int  BY <1>1, HtmlListingAssumption DEF Types
  <2> QED  BY <1>2, <2>1
<1>6. (Argc = 2 => jobs = <<>>) /\ (Argc # 2 => jobs # <<>>)
  BY <1>1, <1>3 DEF Types, AtHome
<1>7. Sequence(jobs') /\ \A x \in ToSet(jobs') : JobRight(x)
  <2>1. jobs # <<>> => Sequence(Tail(jobs)) /\ ToSet(Tail(jobs)) \subseteq ToSet(jobs)
    BY <1>1, SequenceLess DEF Types
  <2>2. Sequence(jobs) /\ \A x \in ToSet(jobs) : JobRight(x)  BY <1>1 DEF Types
  <2> QED  BY <1>2, <1>6, <2>1, <2>2
<1>8. ASSUME ~full, Relative
      PROVE  \E e \in 0 .. Len(Patterns) : streams' = Cardinality(Left(e)') /\ Remaining(e)'
  <2>1. PICK e : Within(e)  BY <1>3, <1>8, WithinOne
  <2>2. e \in 0 .. Len(Patterns) /\ Expanding(e) /\ streams = 1 + Cardinality(Left(e))
    <3>1. Own = 1  BY <1>2 DEF Own
    <3> QED  BY <2>1, <3>1 DEF Within
  <2>3. Len(Patterns) \in Nat /\ e \in Nat /\ Patterns' = Patterns
    BY <1>1, <1>2, <2>2, PatternsAre, SameFiles
  <2>4. Left(e + 1)' = Left(e)
    <3>1. LeftOpen' = LeftOpen  BY <1>2, SameFiles
    <3> SUFFICES ASSUME NEW x \in LeftOpen PROVE Walked(e + 1, x)' <=> Walked(e, x)
      BY <3>1 DEF Left
    <3>2. x[2] \notin ToSet(todo)  BY <1>2, NoElements
    <3>3. x[1] \in Nat
      <4>1. DOMAIN Patterns = 1 .. Len(Patterns) /\ x[1] \in DOMAIN Patterns  BY <1>1, PatternsAre, LeftOpenIs
      <4> QED  BY <2>3, <4>1
    <3>4. x[1] <= e + 1 <=> x[1] <= e \/ x[1] = e + 1  BY <2>3, <3>3
    <3>5. Walked(e, x) <=> x[1] <= e \/ x[1] = e + 1  BY <1>2, <1>3, <3>2 DEF Walked
    <3>6. Walked(e + 1, x)' <=> x[1] <= e + 1  BY <1>3 DEF Walked
    <3> QED  BY <3>4, <3>5, <3>6
  <2>5. Cardinality(Left(e)) \in Nat  BY <1>1, LeftIsFinite
  <2>6. streams' = Cardinality(Left(e + 1)')  BY <1>2, <2>2, <2>4, <2>5
  <2>7. e + 1 \in 0 .. Len(Patterns) /\ Remaining(e + 1)'
    <3>1. CASE Argc = 2
      <4>1. e = 0 /\ Len(Patterns) = 1 /\ jobs' = <<>>  BY <1>2, <1>6, <2>2, <3>1 DEF Expanding
      <4>2. Len(<<>>) = 0  BY EmptySeq
      <4> QED  BY <2>3, <4>1, <4>2 DEF Remaining
    <3>2. CASE Argc # 2
      <4>1. Remaining(e) /\ e < Len(Patterns)  BY <2>2, <3>2 DEF Expanding
      <4>2. Head(jobs).kind = "pattern"
        <5>1. Head(jobs) = jobs[1] /\ 1 \in 1 .. Len(jobs)
          <6>1. Head(jobs) = jobs[1] /\ Len(jobs) \in Nat \ {0}  BY <1>1, <1>6, <3>2, SequenceLess DEF Types
          <6> QED  BY <6>1
        <5>2. 1 <= Len(Patterns) - e  BY <2>3, <4>1
        <5> QED  BY <4>1, <5>1, <5>2 DEF Remaining
      <4> QED  BY <1>1, <1>2, <1>6, <2>2, <3>2, <4>1, <4>2, NextJobRemaining
    <3> QED  BY <3>1, <3>2
  <2> QED  BY <2>6, <2>7
<1>9. at' \in {"next", "done"} /\ (at' = "done" \/ Argc = 2 => jobs' = <<>>)
  BY <1>2, <1>6
<1> QED  BY <1>2, <1>4, <1>5, <1>7, <1>8, <1>9, Rested

---------------------------------------------------------------------------
LEMMA HtmlStep == HtmlInv /\ [Next]_vars => HtmlInv'
<1> SUFFICES ASSUME HtmlInv, [Next]_vars PROVE HtmlInv'  OBVIOUS
<1>1. CASE ShortHere \/ ShortRelative \/ AllHere \/ LongHere \/ AllDir \/ LongDir
           \/ LongDirReversed \/ PlainDir
  BY <1>1, BeginnersKept
<1>2. CASE ShortRow \/ AllRow \/ LongRow \/ AllDirRow \/ PlainRow  BY <1>2, TableRowsKept
<1>3. CASE ShortEnd \/ End \/ Finish \/ FileEnd  BY <1>3, EndsKept
<1>4. CASE CannotAccess \/ AllFile \/ LongFile \/ LongFileReversed \/ PlainFile
  BY <1>4, FilesKept
<1>5. CASE ShortPattern \/ Pattern  BY <1>5, PatternsKept
<1>6. CASE ShortPatternDone \/ PatternDone  BY <1>6, PatternsDoneKept
<1>7. CASE Main \/ Classify \/ ShortAbsolute
  BY <1>7, MainKept, ClassifyKept, ShortAbsoluteKept
<1>8. CASE MatchFile \/ MatchFilesDone \/ MatchDir \/ WildFilesDone \/ WildEnd
  BY <1>8, MatchFileKept, MatchFilesDoneKept, MatchDirKept, WildFilesDoneKept, WildEndKept
<1>9. CASE WildFile \/ WildDir
  <2>1. CASE WildFile
    <3>1. /\ at \in Wilds /\ arr # <<>> /\ at # "wild2"
          /\ WildStep(Opens(Append(cwd, Head(arr))), FALSE)
      BY <2>1 DEF WildFile, Wilds
    <3> QED  BY <3>1, WildStepKept
  <2>2. CASE WildDir
    <3>1. /\ at \in Wilds /\ arr # <<>> /\ at = "wild2"
          /\ WildStep(Opens(Append(cwd, Head(arr))), TRUE)
      BY <2>2 DEF WildDir, Wilds
    <3> QED  BY <3>1, WildStepKept
  <2> QED  BY <1>9, <2>1, <2>2
<1>10. CASE UNCHANGED vars
  <2>1. /\ tree' = tree /\ cmd' = cmd /\ cwd' = cwd /\ streams' = streams /\ at' = at /\ jobs' = jobs
        /\ base' = base /\ found' = found /\ todo' = todo /\ path' = path /\ prev' = prev
        /\ dir' = dir /\ arr' = arr /\ rows' = rows /\ full' = full
    BY <1>10 DEF vars, operand, table
  <2>2. /\ Patterns' = Patterns /\ LeftOpen' = LeftOpen /\ (Relative' <=> Relative) /\ Argc' = Argc
        /\ (\A x : JobRight(x)' <=> JobRight(x)) /\ (\A x : Matches(x)' = Matches(x))
        /\ (\A x : Leads(x)' <=> Leads(x)) /\ (\A x : IsDir(x)' <=> IsDir(x))
    BY <2>1, SameFiles, SameLeads DEF IsDir, Resolve
  <2>3. Types'  BY <2>1, <2>2, Zenon DEF HtmlInv, Types, FileSystem, Sequence, ToSet
  <2>4. AtHome'  BY <2>1, <2>2, Zenon DEF HtmlInv, AtHome, Sequence, ToSet
  <2>5. Reading'
    BY <2>1, <2>2 DEF HtmlInv, Reading, Astray, IsDir, Resolve, Op, Sequence, ToSet, IsInjective
  <2>6. Linked'  BY <2>1, <2>2 DEF HtmlInv, Linked, ToSet
  <2>7. RowsSoFar'
    <3>1. ToShow' = ToShow  BY <2>1, <2>2 DEF ToShow, Looked, Shown, Has, ToSet
    <3>2. Names(rows)' = Names(rows)  BY <2>1 DEF Names
    <3> QED  BY <2>1, <3>1, <3>2 DEF HtmlInv, RowsSoFar, Sequence, ToSet, IsInjective
  <2>8. Streams'
    <3>1. \A d : Left(d)' = Left(d)
      <4>1. \A d, x : Walked(d, x)' <=> Walked(d, x)  BY <2>1 DEF Walked, ToSet
      <4> QED  BY <2>2, <4>1 DEF Left
    <3>2. \A d : Remaining(d)' <=> Remaining(d)  BY <2>1, <2>2 DEF Remaining
    <3>3. Own' = Own  BY <2>1 DEF Own
    <3>4. \A d : Expanding(d)' <=> Expanding(d)
      <4> SUFFICES ASSUME NEW d PROVE Expanding(d)' <=> Expanding(d)  OBVIOUS
      <4>1. Matches(Patterns[d + 1])' = Matches(Patterns[d + 1])
        BY <2>1, <2>2 DEF Matches, IsDir, Resolve
      <4>2. IsDir(path)' <=> IsDir(path)  BY <2>1 DEF IsDir, Resolve
      <4> QED  BY <2>1, <2>2, <3>2, <4>1, <4>2 DEF Expanding
    <3>5. \A d : Open(d)' <=> Open(d)  BY <2>1, <3>1, <3>2, <3>3, <3>4 DEF Open
    <3> QED  BY <2>1, <2>2, <3>5 DEF HtmlInv, Streams
  <2> QED  BY <2>3, <2>4, <2>5, <2>6, <2>7, <2>8 DEF HtmlInv
<1> QED  BY <1>1, <1>2, <1>3, <1>4, <1>5, <1>6, <1>7, <1>8, <1>9, <1>10 DEF Next

LEMMA HtmlAlways == Spec => []HtmlInv
<1> QED  BY HtmlStart, HtmlStep, PTL DEF Spec

(* Every row's link leads to the entry that the row stands for, and its    *)
(* colour is that entry's, be it an entry of a directory or a file that is *)
(* an operand, but for the places that Leads names.                        *)
THEOREM LinksAlwaysLead == Spec => []LinksLead
<1>1. HtmlInv => LinksLead
  <2> SUFFICES ASSUME HtmlInv, TableDone \/ at = "file" PROVE \A r \in ToSet(rows) : Leads(r)
    BY DEF LinksLead
  <2>1. at \in Tables \cup Wilds \cup {"file"}  BY DEF TableDone, Tables, Wilds
  <2> QED  BY <2>1 DEF HtmlInv, Linked
<1> QED  BY <1>1, HtmlAlways, PTL

(* A table that is done has one row for each entry that the options show;  *)
(* that of a match too, in spite of its two parts.                         *)
THEOREM EntriesAlwaysOnce == Spec => []EntriesOnce
<1>1. HtmlInv => EntriesOnce
  <2> SUFFICES ASSUME HtmlInv, TableDone, ~full, at = "wild2" => base = Home PROVE EachOnce
    BY DEF EntriesOnce
  <2>1. /\ at \in Tables \cup Wilds /\ arr = <<>> /\ (at \in Wilds <=> at = "wild2")
        /\ at # "wild1"
    BY DEF TableDone, Tables, Wilds
  <2>2. IsInjective(Names(rows)) /\ ToSet(Names(rows)) = ToShow  BY <2>1 DEF HtmlInv, RowsSoFar
  <2>3. Looked = tree[dir]  BY <2>1, NoElements DEF Looked
  <2>4. ToShow = {n \in tree[dir] \ {Page} :
                   IF at = "wild2" THEN n \notin Hidden
                   ELSE (n \in Hidden => Has("a")) /\ (at = "long" => n \notin Nameless)}
    BY <2>1, <2>3 DEF ToShow, Plainly, Shown
  <2> QED  BY <2>2, <2>4 DEF EachOnce
<1> QED  BY <1>1, HtmlAlways, PTL

(* When the program ends, exactly the streams on the matches and on the    *)
(* entries of them that LeftOpen counts are still open.                    *)
THEOREM StreamsAlwaysLeft == Spec => []StreamsLeft
<1>1. HtmlInv => StreamsLeft
  <2> SUFFICES ASSUME HtmlInv, at = "done", ~full, Relative PROVE streams = Cardinality(LeftOpen)
    BY DEF StreamsLeft, Relative
  <2>1. Types /\ at \notin Matching /\ at \notin Tables /\ at \notin Wilds
    BY DEF HtmlInv, Matching, Tables, Wilds
  <2>2. PICK d \in 0 .. Len(Patterns) : Open(d)  BY DEF HtmlInv, Streams
  <2>3. streams = Own + Cardinality(Left(d)) /\ Remaining(d) /\ jobs = <<>> /\ Own = 0
    BY <2>1, <2>2 DEF Open, Own
  <2>4. Len(Patterns) \in Nat /\ d \in Nat /\ DOMAIN Patterns = 1 .. Len(Patterns)
    BY <2>1, PatternsAre DEF Types
  <2>5. d = Len(Patterns)
    <3>1. Len(Patterns) - d <= Len(jobs)  BY <2>3 DEF Remaining
    <3>2. Len(jobs) = 0  BY <2>3, EmptySeq
    <3>3. d <= Len(Patterns)  BY <2>4
    <3>4. \A n, m \in Nat : m <= n /\ n - m <= 0 => m = n  OBVIOUS
    <3> QED  BY <2>4, <3>1, <3>2, <3>3, <3>4
  <2>6. \A x \in LeftOpen : x[1] <= d  BY <2>4, <2>5, LeftOpenIs
  <2>7. Left(d) = LeftOpen  BY <2>6 DEF Left, Walked
  <2>8. Cardinality(Left(d)) \in Nat  BY <2>1, LeftIsFinite DEF Types
  <2> QED  BY <2>3, <2>7, <2>8
<1> QED  BY <1>1, HtmlAlways, PTL
=============================================================================
