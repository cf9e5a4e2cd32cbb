--------------------------- MODULE HistoryProofs ---------------------------
(***************************************************************************)
(* What the steps of the history of connections do, for the proofs about   *)
(* the two servers that keep one: the types, the entry that is being made, *)
(* and the report that sorts the times and yet moves none.                 *)
(***************************************************************************)
EXTENDS ConnectionHistory, FiniteSetTheorems, SequenceTheorems, TLAPS

---------------------------------------------------------------------------
(* Sorting what is sorted changes nothing.                                 *)

(* A one-to-one map of a .. b to itself sends some index from i on to i or *)
(* below ...                                                               *)
LEMMA SomeGoesDown ==
  ASSUME NEW a \in Nat, NEW b \in Nat, NEW i \in a .. b,
         NEW p \in [a .. b -> a .. b],
         \A m, n \in a .. b : m < n => p[m] # p[n]
  PROVE  \E j \in i .. b : p[j] <= i
<1>1. SUFFICES ASSUME \A j \in i .. b : p[j] > i
               PROVE  FALSE
  OBVIOUS
<1> DEFINE f == [j \in i .. b |-> p[j]]
<1>2. f \in [i .. b -> i + 1 .. b]
  BY <1>1
<1>3. /\ IsFiniteSet(i .. b) /\ IsFiniteSet(i + 1 .. b)
      /\ Cardinality(i + 1 .. b) < Cardinality(i .. b)
  <2>1. i \in Int /\ i + 1 \in Int /\ b \in Int /\ i <= b
    OBVIOUS
  <2>2. IsFiniteSet(i .. b) /\ Cardinality(i .. b) = b - i + 1
    BY <2>1, FS_Interval
  <2>3. /\ IsFiniteSet(i + 1 .. b)
        /\ Cardinality(i + 1 .. b) = IF i + 1 > b THEN 0 ELSE b - (i + 1) + 1
    BY <2>1, FS_Interval
  <2> QED
    BY <2>1, <2>2, <2>3
<1>4. \E x, y \in i .. b : x # y /\ f[x] = f[y]
  <2> HIDE DEF f
  <2> QED
    BY <1>2, <1>3, FS_PigeonHole
<1>5. PICK x \in i .. b, y \in i .. b : x # y /\ p[x] = p[y]
  BY <1>4
<1> QED
  BY <1>5

(* ... and some index up to i to i or above.                               *)
LEMMA SomeGoesUp ==
  ASSUME NEW a \in Nat, NEW b \in Nat, NEW i \in a .. b,
         NEW p \in [a .. b -> a .. b],
         \A m, n \in a .. b : m < n => p[m] # p[n]
  PROVE  \E j \in a .. i : p[j] >= i
<1>1. SUFFICES ASSUME \A j \in a .. i : p[j] < i
               PROVE  FALSE
  OBVIOUS
<1> DEFINE f == [j \in a .. i |-> p[j]]
<1>2. f \in [a .. i -> a .. i - 1]
  BY <1>1
<1>3. /\ IsFiniteSet(a .. i) /\ IsFiniteSet(a .. i - 1)
      /\ Cardinality(a .. i - 1) < Cardinality(a .. i)
  <2>1. a \in Int /\ i \in Int /\ i - 1 \in Int /\ a <= i
    OBVIOUS
  <2>2. IsFiniteSet(a .. i) /\ Cardinality(a .. i) = i - a + 1
    BY <2>1, FS_Interval
  <2>3. /\ IsFiniteSet(a .. i - 1)
        /\ Cardinality(a .. i - 1) = IF a > i - 1 THEN 0 ELSE i - 1 - a + 1
    BY <2>1, FS_Interval
  <2> QED
    BY <2>1, <2>2, <2>3
<1>4. \E x, y \in a .. i : x # y /\ f[x] = f[y]
  <2> HIDE DEF f
  <2> QED
    BY <1>2, <1>3, FS_PigeonHole
<1>5. PICK x \in a .. i, y \in a .. i : x # y /\ p[x] = p[y]
  BY <1>4
<1> QED
  BY <1>5

(* p rearranges the sorted f of a .. b so that it is sorted again.         *)
Rearranges(a, b, p, f) ==
  /\ p \in [a .. b -> a .. b] /\ f \in [a .. b -> Nat]
  /\ \A m, n \in a .. b : m < n => p[m] # p[n] /\ f[p[m]] <= f[p[n]]
  /\ \A m, n \in a .. b : m <= n => f[m] <= f[n]

Unmoved(a, b, p, f) == \A i \in a .. b : f[p[i]] = f[i]

(* Then it has changed nothing.                                            *)
LEMMA SortedStays ==
  ASSUME NEW a \in Nat, NEW b \in Nat, NEW p, NEW f, Rearranges(a, b, p, f)
  PROVE  Unmoved(a, b, p, f)
<1> SUFFICES ASSUME NEW i \in a .. b
             PROVE  f[p[i]] = f[i]
  BY DEF Unmoved
<1> USE DEF Rearranges
<1>0. \A m, n \in a .. b : m < n => p[m] # p[n]
  OBVIOUS
<1>1. PICK j \in i .. b : p[j] <= i
  BY <1>0, SomeGoesDown
<1>2. PICK k \in a .. i : p[k] >= i
  BY <1>0, SomeGoesUp
<1>3. /\ j \in a .. b /\ k \in a .. b /\ i <= j /\ k <= i
      /\ p[i] \in a .. b /\ p[j] \in a .. b /\ p[k] \in a .. b
  OBVIOUS
<1>4. f[i] \in Nat /\ f[p[i]] \in Nat /\ f[p[j]] \in Nat /\ f[p[k]] \in Nat
  BY <1>3
<1>5. f[p[i]] <= f[p[j]]
  <2>1. CASE i = j
    BY <1>4, <2>1
  <2>2. CASE i < j
    BY <1>3, <2>2
  <2> QED
    BY <1>3, <2>1, <2>2
<1>6. f[p[j]] <= f[i]
  BY <1>1, <1>3
<1>7. f[p[k]] <= f[p[i]]
  <2>1. CASE k = i
    BY <1>4, <2>1
  <2>2. CASE k < i
    BY <1>3, <2>2
  <2> QED
    BY <1>3, <2>1, <2>2
<1>8. f[i] <= f[p[k]]
  BY <1>2, <1>3
<1>9. \A w, x, y, z \in Nat : w <= x /\ x <= y /\ z <= w /\ y <= z => w = y
  BY SMTT(30)
<1> QED
  BY <1>4, <1>5, <1>6, <1>7, <1>8, <1>9

---------------------------------------------------------------------------
(* The steps.                                                              *)

LEMMA IndexRange ==
  ASSUME HistoryTypeOK
  PROVE  /\ MAX_CLIENT \in Nat /\ client_num \in Nat /\ client_num <= MAX_CLIENT - 1
         /\ client_num \in Index /\ 1 .. client_num \subseteq Index
BY HistoryAssumption DEF HistoryTypeOK, Index

LEMMA InitTyped ==
  ASSUME HistoryInit
  PROVE  HistoryTypeOK
<1>1. log \in Seq([who : Clients, at : Nat]) /\ Len(log) = 0
  BY EmptySeq DEF HistoryInit
<1>2. 0 \in Index
  BY HistoryAssumption DEF Index
<1> QED
  BY <1>1, <1>2 DEF HistoryInit, HistoryTypeOK

(* A step that leaves the history alone keeps its type.                    *)
LEMMA HistoryUnchanged ==
  ASSUME HistoryTypeOK, UNCHANGED history
  PROVE  HistoryTypeOK'
BY DEF HistoryTypeOK, history

LEMMA CountTyped ==
  ASSUME HistoryTypeOK, NEW who \in Clients, NEW t \in Nat, Count(who, t)
  PROVE  /\ HistoryTypeOK'
         /\ log' \in Seq([who : Clients, at : Nat])
         /\ log'[client_num'] = [who |-> who, at |-> t]
         /\ \A i \in 1 .. client_num : log'[i] = log[i]
<1>1. [who |-> who, at |-> t] \in [who : Clients, at : Nat]
  OBVIOUS
<1>2. /\ log' \in Seq([who : Clients, at : Nat])
      /\ Len(log') = client_num'
      /\ log'[client_num'] = [who |-> who, at |-> t]
      /\ \A i \in 1 .. client_num : log'[i] = log[i]
  BY <1>1, AppendProperties DEF HistoryTypeOK, Count, Index
<1>3. client_num' \in Index
  BY HistoryAssumption DEF HistoryTypeOK, Count, Full, Index
<1> QED
  BY <1>2, <1>3 DEF HistoryTypeOK, Count

LEMMA RecordTyped ==
  ASSUME HistoryTypeOK, NEW who \in Clients, NEW t \in Nat,
         RecordAddress(who) \/ RecordPort(who) \/ RecordTime(t) \/ RecordNumber
  PROVE  HistoryTypeOK'
<1>1. CASE RecordAddress(who)
  BY <1>1 DEF HistoryTypeOK, RecordAddress
<1>2. CASE RecordPort(who)
  BY <1>2 DEF HistoryTypeOK, RecordPort
<1>3. CASE RecordTime(t)
  BY <1>3 DEF HistoryTypeOK, RecordTime
<1>4. CASE RecordNumber
  BY <1>4 DEF HistoryTypeOK, RecordNumber
<1> QED
  BY <1>1, <1>2, <1>3, <1>4

(* A report moves no time, if the entries it sorts all have theirs and     *)
(* were made in the order of their times; in any case it shows times that  *)
(* were there.                                                             *)
LEMMA SortedReport ==
  ASSUME HistoryTypeOK, NEW first \in Nat \ {0}, SortTimes(first)
  PROVE  /\ time' \in [Index -> Nat]
         /\ \A i \in Index : i > client_num => time'[i] = time[i]
         /\ \A i \in 1 .. client_num : \E j \in 1 .. client_num : time'[i] = time[j]
         /\ (\A i, j \in 1 .. client_num : i <= j => time[i] <= time[j]) =>
              \A i \in 1 .. client_num : time'[i] = time[i]
<1>0. /\ client_num \in Nat /\ first .. client_num \subseteq 1 .. client_num
      /\ 1 .. client_num \subseteq Index
      /\ \A i \in Index : time[i] \in Nat
  BY IndexRange DEF HistoryTypeOK
<1>1. PICK p \in [first .. client_num -> first .. client_num] :
        /\ \A i, j \in first .. client_num :
             i < j => p[i] # p[j] /\ time[p[i]] <= time[p[j]]
        /\ time' = [i \in Index |-> IF i \in first .. client_num
                                    THEN time[p[i]] ELSE time[i]]
  BY DEF SortTimes
<1>2. \A i \in first .. client_num : p[i] \in 1 .. client_num
  BY <1>0
<1>3. time' \in [Index -> Nat]
  BY <1>0, <1>1, <1>2
<1>4. \A i \in 1 .. client_num : \E j \in 1 .. client_num : time'[i] = time[j]
  BY <1>0, <1>1, <1>2
<1>5. \A i \in Index : i > client_num => time'[i] = time[i]
  BY <1>0, <1>1
<1>6. ASSUME \A i, j \in 1 .. client_num : i <= j => time[i] <= time[j],
             NEW i \in 1 .. client_num
      PROVE  time'[i] = time[i]
  <2>1. CASE i \in first .. client_num
    <3>1. PICK b \in Nat : b = client_num
      BY <1>0
    <3>2. PICK f \in [first .. b -> Nat] : \A j \in first .. b : f[j] = time[j]
      <4>1. [j \in first .. b |-> time[j]] \in [first .. b -> Nat]
        BY <1>0, <3>1
      <4> QED
        BY <4>1
    <3>3. Rearranges(first, b, p, f)
      BY <1>0, <1>1, <1>6, <3>1, <3>2 DEF Rearranges
    <3>4. Unmoved(first, b, p, f)
      BY <3>1, <3>3, SortedStays
    <3>5. f[p[i]] = f[i]
      BY <2>1, <3>1, <3>4 DEF Unmoved
    <3>6. time[p[i]] = time[i]
      BY <2>1, <3>1, <3>2, <3>5
    <3> QED
      BY <1>0, <1>1, <2>1, <3>6
  <2>2. CASE i \notin first .. client_num
    BY <1>0, <1>1, <2>2
  <2> QED
    BY <2>1, <2>2
<1> QED
  BY <1>3, <1>4, <1>5, <1>6
=============================================================================
