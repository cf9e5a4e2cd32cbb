------------------------- MODULE Assignment3Proofs -------------------------
(***************************************************************************)
(* The programs of Assignment 3.                                           *)
(*                                                                         *)
(* CpuSchedulers, for any number of processes, arrivals, bursts and        *)
(* slices: the sums the policies keep are those of their chart, the queue  *)
(* of RR lets nobody wait for long, and SRTF is the best of all schedules. *)
(* A turn of any of the policies is one action Turn, which says what it    *)
(* adds to the chart.                                                      *)
(*                                                                         *)
(* Sums, for any numbers: what fork.c and thread.c print.  The processes   *)
(* form a family of nested parts, and what they hold together stays the    *)
(* sum modulo 256.                                                         *)
(***************************************************************************)
EXTENDS CpuSchedulers, Sums, FiniteSetTheorems, SequenceTheorems, WellFoundedInduction, TLAPS

---------------------------------------------------------------------------
(* Numbers and sets.                                                       *)

LEMMA SomeLeast ==
  ASSUME NEW T \in SUBSET Nat, T # {}
  PROVE  \E x \in T : \A y \in T : x <= y
<1>1. PICK x \in T : \A y \in T : ~(<<y, x>> \in OpToRel(<, Nat))
  BY NatLessThanWellFounded, WFMin
<1>2. \A y \in T : y \in Nat /\ x \in Nat /\ ~(y < x)  BY <1>1 DEF OpToRel
<1> QED  BY <1>2

LEMMA MinIs ==
  ASSUME NEW T \in SUBSET Nat, T # {}
  PROVE  Min(T) \in T /\ \A y \in T : Min(T) <= y
<1>1. PICK x \in T : \A y \in T : x <= y  BY SomeLeast
<1> QED  BY <1>1 DEF Min

LEMMA MaxIs ==
  ASSUME NEW T \in SUBSET Nat, NEW x \in T, \A y \in T : y <= x
  PROVE  Max(T) = x
<1>1. Max(T) \in T /\ \A y \in T : Max(T) >= y  BY DEF Max
<1>2. Max(T) >= x /\ Max(T) <= x /\ Max(T) \in Nat /\ x \in Nat  BY <1>1
<1> QED  BY <1>2

LEMMA MinEquals ==
  ASSUME NEW T \in SUBSET Nat, NEW x \in T, \A y \in T : x <= y
  PROVE  Min(T) = x
<1>1. Min(T) \in T /\ \A y \in T : Min(T) <= y  BY MinIs
<1>2. Min(T) >= x /\ Min(T) <= x /\ Min(T) \in Nat /\ x \in Nat  BY <1>1
<1> QED  BY <1>2

LEMMA MaxBelow ==
  ASSUME NEW c \in Nat, NEW T \in SUBSET (0 .. c), T # {}
  PROVE  Max(T) \in T /\ \A y \in T : y <= Max(T)
<1> DEFINE U == {c - x : x \in T}
<1>1. \A x \in T : x \in Nat /\ c - x \in Nat  OBVIOUS
<1>2. U \in SUBSET Nat /\ U # {}  BY <1>1
<1>3. PICK u \in U : \A y \in U : u <= y  BY <1>2, SomeLeast
<1>4. PICK x \in T : u = c - x  BY <1>3
<1>5. ASSUME NEW y \in T PROVE x >= y
  <2>1. u <= c - y  BY <1>3
  <2> QED  BY <2>1, <1>1, <1>4
<1>6. Max(T) \in T /\ \A y \in T : Max(T) >= y
  <2>1. \E z \in T : \A y \in T : z >= y  BY <1>5
  <2> QED  BY <2>1, Zenon DEF Max
<1> QED  BY <1>1, <1>6

(* Induction up to n.                                                      *)
LEMMA Upward ==
  ASSUME NEW n \in Nat, NEW G, 0 \in G, \A k \in 0 .. n - 1 : k \in G => k + 1 \in G
  PROVE  \A k \in 0 .. n : k \in G
<1> DEFINE T == {m \in 0 .. n : m \notin G}
<1> SUFFICES ASSUME T # {} PROVE FALSE  OBVIOUS
<1>1. PICK x \in T : \A y \in T : x <= y
  <2>1. T \in SUBSET Nat  OBVIOUS
  <2> HIDE DEF T
  <2> QED  BY <2>1, SomeLeast
<1>2. x \in 0 .. n /\ x # 0 /\ x \notin G  BY <1>1
<1>3. x - 1 \in 0 .. n - 1 /\ x - 1 \in 0 .. n /\ ~(x <= x - 1) /\ (x - 1) + 1 = x  BY <1>2
<1>4. x - 1 \in G  BY <1>1, <1>3
<1> QED  BY <1>2, <1>3, <1>4

(* Induction down from n to 0.                                             *)
LEMMA Backward ==
  ASSUME NEW n \in Nat, NEW G, n \in G, \A k \in 0 .. n - 1 : k + 1 \in G => k \in G
  PROVE  \A k \in 0 .. n : k \in G
<1> DEFINE H == {m \in 0 .. n : n - m \in G}
<1>1. 0 \in H  OBVIOUS
<1>2. ASSUME NEW k \in 0 .. n - 1, k \in H PROVE k + 1 \in H
  <2>1. PICK m \in 0 .. n - 1 : m = n - (k + 1)  OBVIOUS
  <2>2. m + 1 = n - k /\ m + 1 \in G  BY <1>2, <2>1
  <2>3. m \in G  BY <2>2
  <2> QED  BY <2>1, <2>3
<1>3. \A k \in 0 .. n : k \in H
  <2> HIDE DEF H
  <2> QED  BY <1>1, <1>2, Upward
<1>4. ASSUME NEW k \in 0 .. n PROVE k \in G
  <2>1. n - k \in 0 .. n /\ n - (n - k) = k  OBVIOUS
  <2>2. n - k \in H  BY <1>3, <2>1
  <2> QED  BY <2>1, <2>2
<1> QED  BY <1>4

(* Counting with one more process.                                         *)
Extends(g, f, S, x) ==
  /\ IsFiniteSet(S) /\ x \notin S /\ DOMAIN f = S /\ DOMAIN g = S \cup {x}
  /\ \A j \in S : IsFiniteSet(f[j]) /\ g[j] = f[j]
  /\ IsFiniteSet(g[x])

UnitsAdd(g, f, x) == Units(g) = Units(f) + Cardinality(g[x])

LEMMA UnitsMore ==
  ASSUME NEW f, NEW S, NEW x, NEW g, Extends(g, f, S, x)
  PROVE  UnitsAdd(g, f, x)
<1>0. /\ IsFiniteSet(DOMAIN f) /\ (\A j \in DOMAIN f : IsFiniteSet(f[j])) /\ x \notin DOMAIN f
      /\ DOMAIN g = DOMAIN f \cup {x} /\ (\A j \in DOMAIN f : g[j] = f[j]) /\ IsFiniteSet(g[x])
  BY DEF Extends
<1> DEFINE T == {{i} \X f[i] : i \in DOMAIN f}
           A == UNION T
           B == {x} \X g[x]
<1>1. IsFiniteSet({x}) /\ Cardinality({x}) = 1  BY FS_Singleton
<1>2. IsFiniteSet(B) /\ Cardinality(B) = Cardinality(g[x])
  <2>1. Cardinality(g[x]) \in Nat  BY <1>0, FS_CardinalityType
  <2>2. IsFiniteSet(B) /\ Cardinality(B) = 1 * Cardinality(g[x])  BY <1>0, <1>1, FS_Product
  <2> QED  BY <2>1, <2>2
<1>3. IsFiniteSet(T)
  <2> DEFINE h == [i \in DOMAIN f |-> {i} \X f[i]]
  <2>0. IsFiniteSet(DOMAIN f)  BY <1>0
  <2>1. h \in Surjection(DOMAIN f, T)  BY DEF Surjection
  <2> HIDE DEF h, T
  <2> QED  BY <2>0, <2>1, FS_Surjection
<1>4. \A t \in T : IsFiniteSet(t)
  <2> SUFFICES ASSUME NEW i \in DOMAIN f PROVE IsFiniteSet({i} \X f[i])  OBVIOUS
  <2>1. IsFiniteSet({i})  BY FS_Singleton
  <2> QED  BY <1>0, <2>1, FS_Product
<1>5. IsFiniteSet(A)
  <2> HIDE DEF T
  <2> QED  BY <1>3, <1>4, FS_UNION
<1>6. A \cap B = {}
  <2> SUFFICES ASSUME NEW i \in DOMAIN f, NEW p \in {i} \X f[i], p \in B PROVE FALSE  OBVIOUS
  <2>1. p[1] = i /\ p[1] = x  OBVIOUS
  <2> QED  BY <1>0, <2>1
<1>7. UNION {{i} \X g[i] : i \in DOMAIN g} = A \cup B
  <2>1. ASSUME NEW p \in UNION {{i} \X g[i] : i \in DOMAIN g} PROVE p \in A \cup B
    <3>1. PICK i \in DOMAIN g : p \in {i} \X g[i]  OBVIOUS
    <3>2. CASE i = x  BY <3>1, <3>2
    <3>3. CASE i \in DOMAIN f  BY <1>0, <3>1, <3>3
    <3> QED  BY <1>0, <3>2, <3>3
  <2>2. ASSUME NEW p \in A PROVE p \in UNION {{i} \X g[i] : i \in DOMAIN g}
    <3>1. PICK i \in DOMAIN f : p \in {i} \X f[i]  OBVIOUS
    <3>2. i \in DOMAIN g /\ p \in {i} \X g[i]  BY <1>0, <3>1
    <3> QED  BY <3>2
  <2>3. B \subseteq UNION {{i} \X g[i] : i \in DOMAIN g}  BY <1>0
  <2> HIDE DEF A, B
  <2> QED  BY <2>1, <2>2, <2>3
<1>8. Cardinality(A \cup B) = Cardinality(A) + Cardinality(B)
  <2> HIDE DEF A, B
  <2>1. Cardinality(A) \in Nat /\ Cardinality(B) \in Nat  BY <1>2, <1>5, FS_CardinalityType
  <2>2. Cardinality(A \cap B) = 0  BY <1>6, FS_EmptySet
  <2>3. Cardinality(A \cup B) = Cardinality(A) + Cardinality(B) - Cardinality(A \cap B)
    BY <1>2, <1>5, FS_Union
  <2> QED  BY <2>1, <2>2, <2>3
<1>9. Units(f) = Cardinality(A)  BY DEF Units
<1>10. Units(g) = Cardinality(A \cup B)
  <2> HIDE DEF A, B
  <2> QED  BY <1>7 DEF Units
<1> HIDE DEF A, B
<1> QED  BY <1>2, <1>8, <1>9, <1>10 DEF UnitsAdd

---------------------------------------------------------------------------
(* The chart.                                                              *)

TypeOK ==
  /\ policy \in Policies /\ (policy = "RR" => slice \in Nat \ {0})
  /\ arrival \in [Proc -> Nat] /\ job \in [Proc -> Nat \ {0}]
  /\ burst \in [Proc -> Nat] /\ remaining \in [Proc -> Nat] /\ start \in [Proc -> Nat]
  /\ ready \in Seq(Proc) /\ ready_start \in Nat \ {0}
  /\ current_time \in Nat /\ completed \in 0 .. N
  /\ pc_queue \in Seq(Proc) /\ at \in Seq(Nat) /\ Len(at) = Len(pc_queue)

(* What each process still needs, by the count its policy keeps.           *)
Rest ==
  [i \in Proc |-> IF policy = "FCFS" THEN (IF i < completed THEN 0 ELSE job[i])
                  ELSE IF policy = "SJF" THEN burst[i] ELSE remaining[i]]

(* The counts, the starts and the units of the chart agree.                *)
Chart ==
  /\ \A i \in Proc : \A u \in Ticks(i) : u \in Nat /\ arrival[i] <= u /\ u < current_time
  /\ \A i \in Proc : Rest[i] + Cardinality(Ticks(i)) = job[i]
  /\ \A i \in Proc : Ticks(i) # {} => start[i] = Min(Ticks(i))

(* Only SJF changes the bursts, and that to zero.                          *)
Bursts01 ==
  /\ policy = "SJF" => \A i \in Proc : burst[i] \in {0, job[i]}
  /\ policy # "SJF" => burst = job

LEMMA ProcIs == N \in Nat \ {0} /\ IsFiniteSet(Proc) /\ Cardinality(Proc) = N /\ Proc \subseteq Nat
<1>1. N \in Nat \ {0} /\ 0 \in Int /\ N - 1 \in Int  BY CpuAssumption
<1>2. IsFiniteSet(0 .. N - 1) /\ Cardinality(0 .. N - 1) = IF 0 > N - 1 THEN 0 ELSE N - 1 - 0 + 1
  BY <1>1, FS_Interval
<1> QED  BY <1>1, <1>2 DEF Proc

IsJoin(r, p, n, q, d, S) ==
  /\ r \in Seq(S) /\ Len(r) = n + d
  /\ \A k \in 1 .. n + d : r[k] = IF k <= n THEN p[k] ELSE q[k - n]

LEMMA Joined ==
  ASSUME NEW S, NEW p \in Seq(S), NEW q \in Seq(S)
  PROVE  IsJoin(p \o q, p, Len(p), q, Len(q), S)
BY ConcatProperties DEF IsJoin

(* Units that are added to the chart are units of their process.           *)
LEMMA ChartMore ==
  ASSUME TypeOK, NEW i \in Proc, NEW t \in Nat, NEW d \in Nat, Execute(i, t, d)
  PROVE  /\ pc_queue' \in Seq(Proc) /\ at' \in Seq(Nat) /\ Len(at') = Len(pc_queue')
         /\ \A j \in Proc : Ticks(j)' = IF j = i THEN Ticks(j) \cup (t .. t + d - 1) ELSE Ticks(j)
<1> DEFINE P == [u \in 1 .. d |-> i]
           A == [u \in 1 .. d |-> t + u - 1]
<1>1. P \in Seq(Proc) /\ A \in Seq(Nat) /\ Len(P) = d /\ Len(A) = d  OBVIOUS
<1>2. \A u \in 1 .. d : P[u] = i /\ A[u] = t + u - 1  OBVIOUS
<1>3. pc_queue' = pc_queue \o P /\ at' = at \o A  BY DEF Execute
<1> HIDE DEF P, A
<1>4. PICK n \in Nat : n = Len(pc_queue) /\ n = Len(at)  BY DEF TypeOK
<1>5. /\ pc_queue' \in Seq(Proc) /\ Len(pc_queue') = n + d
      /\ \A k \in 1 .. n + d : pc_queue'[k] = IF k <= n THEN pc_queue[k] ELSE P[k - n]
  <2>1. pc_queue \in Seq(Proc)  BY DEF TypeOK
  <2>2. IsJoin(pc_queue', pc_queue, n, P, d, Proc)  BY <1>1, <1>3, <1>4, <2>1, Joined
  <2> QED  BY <2>2 DEF IsJoin
<1>6. /\ at' \in Seq(Nat) /\ Len(at') = n + d
      /\ \A k \in 1 .. n + d : at'[k] = IF k <= n THEN at[k] ELSE A[k - n]
  <2>1. at \in Seq(Nat)  BY DEF TypeOK
  <2>2. IsJoin(at', at, n, A, d, Nat)  BY <1>1, <1>3, <1>4, <2>1, Joined
  <2> QED  BY <2>2 DEF IsJoin
<1>7. ASSUME NEW j \in Proc, NEW u \in Ticks(j)'
      PROVE  u \in IF j = i THEN Ticks(j) \cup (t .. t + d - 1) ELSE Ticks(j)
  <2>1. PICK k \in 1 .. n + d : pc_queue'[k] = j /\ u = at'[k]  BY <1>6 DEF Ticks
  <2>2. CASE k <= n
    <3>1. pc_queue[k] = j /\ u = at[k] /\ k \in 1 .. n  BY <1>5, <1>6, <2>1, <2>2
    <3>2. u \in Ticks(j)  BY <1>4, <3>1 DEF Ticks
    <3> QED  BY <3>2
  <2>3. CASE ~(k <= n)
    <3>1. k - n \in 1 .. d  BY <2>3
    <3>2. j = i /\ u = t + (k - n) - 1  BY <1>2, <1>5, <1>6, <2>1, <2>3, <3>1
    <3> QED  BY <3>1, <3>2
  <2> QED  BY <2>2, <2>3
<1>8. ASSUME NEW j \in Proc, NEW u, u \in IF j = i THEN Ticks(j) \cup (t .. t + d - 1) ELSE Ticks(j)
      PROVE  u \in Ticks(j)'
  <2>1. CASE u \in Ticks(j)
    <3>1. PICK k \in 1 .. n : pc_queue[k] = j /\ u = at[k]  BY <1>4, <2>1 DEF Ticks
    <3>2. k \in 1 .. n + d /\ k <= n  OBVIOUS
    <3>3. pc_queue'[k] = j /\ u = at'[k]  BY <1>5, <1>6, <3>1, <3>2
    <3> QED  BY <1>6, <3>2, <3>3 DEF Ticks
  <2>2. CASE j = i /\ u \in t .. t + d - 1
    <3>1. PICK k \in 1 .. n + d : k = n + (u - t) + 1  BY <2>2
    <3>2. ~(k <= n) /\ k - n \in 1 .. d /\ t + (k - n) - 1 = u  BY <2>2, <3>1
    <3>3. pc_queue'[k] = j /\ u = at'[k]  BY <1>2, <1>5, <1>6, <2>2, <3>2
    <3> QED  BY <1>6, <3>3 DEF Ticks
  <2> QED  BY <1>8, <2>1, <2>2
<1>9. ASSUME NEW j \in Proc
      PROVE  Ticks(j)' = IF j = i THEN Ticks(j) \cup (t .. t + d - 1) ELSE Ticks(j)
  <2>1. PICK B : B = IF j = i THEN Ticks(j) \cup (t .. t + d - 1) ELSE Ticks(j)  OBVIOUS
  <2>2. \A u \in Ticks(j)' : u \in B  BY <1>7, <2>1
  <2>3. \A u \in B : u \in Ticks(j)'  BY <1>8, <2>1
  <2> QED  BY <2>1, <2>2, <2>3
<1> QED  BY <1>5, <1>6, <1>9

---------------------------------------------------------------------------
(* A turn.                                                                 *)

(* Process i runs from t for d units, none before now or its arrival.      *)
Turn(i, t, d) ==
  /\ t \in Nat /\ t >= current_time /\ t >= arrival[i]
  /\ d \in Nat /\ 0 < d /\ d <= Rest[i]
  /\ Execute(i, t, d)
  /\ Rest' = [Rest EXCEPT ![i] = @ - d]
  /\ start' = IF Rest[i] = job[i] THEN [start EXCEPT ![i] = t] ELSE start
  /\ IF Rest[i] = d
     THEN /\ completed' = completed + 1
          /\ wait_time' = wait_time + (t + d - arrival[i] - job[i])
          /\ turnaround_time' = turnaround_time + ((t + d) - arrival[i])
          /\ response_time' = response_time + (start'[i] - arrival[i])
          /\ busy_time' = busy_time + job[i]
     ELSE UNCHANGED <<completed, sums>>
  /\ UNCHANGED file

LEMMA Cut ==
  ASSUME NEW c, NEW T, \A u \in T : u < c
  PROVE  {u \in T : u < c} = T
OBVIOUS

LEMMA TickFacts ==
  ASSUME TypeOK, Chart, NEW i \in Proc
  PROVE  /\ arrival[i] \in Nat /\ job[i] \in Nat \ {0} /\ current_time \in Nat
         /\ Ticks(i) \subseteq arrival[i] .. current_time - 1
         /\ IsFiniteSet(Ticks(i)) /\ Cardinality(Ticks(i)) \in Nat
         /\ Rest[i] + Cardinality(Ticks(i)) = job[i] /\ Rest[i] \in Nat
         /\ Left(i, current_time) = Rest[i]
         /\ Ticks(i) # {} <=> Rest[i] # job[i]
<1>1. arrival[i] \in Nat /\ job[i] \in Nat \ {0} /\ current_time \in Nat  BY DEF TypeOK
<1>2. /\ \A u \in Ticks(i) : u \in Nat /\ arrival[i] <= u /\ u < current_time
      /\ Ticks(i) \subseteq arrival[i] .. current_time - 1
  BY <1>1 DEF Chart
<1>3. IsFiniteSet(arrival[i] .. current_time - 1)
  <2>1. arrival[i] \in Int /\ current_time - 1 \in Int  BY <1>1
  <2> QED  BY <2>1, FS_Interval
<1>4. IsFiniteSet(Ticks(i))  BY <1>2, <1>3, FS_Subset
<1>5. Cardinality(Ticks(i)) \in Nat  BY <1>4, FS_CardinalityType
<1>6. Rest[i] + Cardinality(Ticks(i)) = job[i] /\ Rest[i] \in Nat
  <2>1. Rest[i] + Cardinality(Ticks(i)) = job[i]  BY DEF Chart
  <2>2. Rest[i] \in Nat  BY <1>1 DEF Rest, TypeOK
  <2> QED  BY <2>1, <2>2
<1>7. {u \in Ticks(i) : u < current_time} = Ticks(i)  BY <1>2, Cut
<1>8. Left(i, current_time) = Rest[i]
  <2>1. Left(i, current_time) = job[i] - Cardinality(Ticks(i))  BY <1>7, Zenon DEF Left
  <2> QED  BY <1>1, <1>5, <1>6, <2>1
<1>9. Cardinality(Ticks(i)) = 0 <=> Ticks(i) = {}  BY <1>4, FS_EmptySet
<1> QED  BY <1>1, <1>2, <1>4, <1>5, <1>6, <1>8, <1>9

LEMMA DoneFacts ==
  ASSUME TypeOK, Chart
  PROVE  /\ Done = {i \in Proc : Rest[i] = 0} /\ IsFiniteSet(Done)
         /\ \A i \in Done : LastTick(i) \in Ticks(i) /\ \A u \in Ticks(i) : u <= LastTick(i)
<1>1. Done = {i \in Proc : Rest[i] = 0}  BY TickFacts DEF Done
<1>2. IsFiniteSet(Done)  BY <1>1, ProcIs, FS_Subset
<1>3. ASSUME NEW i \in Done
      PROVE  LastTick(i) \in Ticks(i) /\ \A u \in Ticks(i) : u <= LastTick(i)
  <2>1. Ticks(i) # {} /\ Ticks(i) \subseteq 0 .. current_time /\ current_time \in Nat
    BY <1>1, <1>3, TickFacts
  <2> QED  BY <2>1, MaxBelow DEF LastTick
<1> QED  BY <1>1, <1>2, <1>3

(* What a turn does to the chart.                                          *)
LEMMA TurnChart ==
  ASSUME TypeOK, Chart, NEW i \in Proc, NEW t, NEW d, Turn(i, t, d)
  PROVE  /\ Chart' /\ arrival' = arrival /\ job' = job
         /\ Rest'[i] = Rest[i] - d /\ \A j \in Proc : j # i => Rest'[j] = Rest[j]
         /\ \A j \in Proc : Ticks(j)' = IF j = i THEN Ticks(j) \cup (t .. t + d - 1) ELSE Ticks(j)
         /\ Cardinality(Ticks(i)') = Cardinality(Ticks(i)) + d
         /\ start'[i] = Min(Ticks(i)')
         /\ current_time' = t + d
<1>1. /\ t \in Nat /\ t >= current_time /\ t >= arrival[i]
      /\ d \in Nat /\ 0 < d /\ d <= Rest[i] /\ Execute(i, t, d)
      /\ Rest' = [Rest EXCEPT ![i] = @ - d] /\ arrival' = arrival /\ job' = job
      /\ start' = IF Rest[i] = job[i] THEN [start EXCEPT ![i] = t] ELSE start
      /\ current_time' = t + d
  BY DEF Turn, file, Execute
<1>2. Rest'[i] = Rest[i] - d /\ \A j \in Proc : j # i => Rest'[j] = Rest[j]
  <2>1. DOMAIN Rest = Proc  BY DEF Rest
  <2> QED  BY <1>1, <2>1
<1>3. \A j \in Proc : Ticks(j)' = IF j = i THEN Ticks(j) \cup (t .. t + d - 1) ELSE Ticks(j)
  BY <1>1, ChartMore
<1>4. Cardinality(Ticks(i)') = Cardinality(Ticks(i)) + d
  <2> DEFINE B == t .. t + d - 1
  <2>1. IsFiniteSet(B) /\ Cardinality(B) = d
    <3>1. t \in Int /\ t + d - 1 \in Int /\ ~(t > t + d - 1) /\ (t + d - 1) - t + 1 = d  BY <1>1
    <3> QED  BY <3>1, FS_Interval
  <2>2. Ticks(i) \cap B = {} /\ IsFiniteSet(Ticks(i)) /\ Cardinality(Ticks(i)) \in Nat
    BY <1>1, TickFacts
  <2>3. Cardinality(Ticks(i) \cap B) = 0  BY <2>2, FS_EmptySet
  <2>4. Cardinality(Ticks(i) \cup B) = Cardinality(Ticks(i)) + Cardinality(B) - Cardinality(Ticks(i) \cap B)
    BY <2>1, <2>2, FS_Union
  <2>5. Ticks(i)' = Ticks(i) \cup B  BY <1>3
  <2> QED  BY <1>1, <2>1, <2>2, <2>3, <2>4, <2>5
<1>5. ASSUME NEW j \in Proc, NEW u \in Ticks(j)'
      PROVE  u \in Nat /\ arrival'[j] <= u /\ u < current_time'
  <2>1. CASE u \in Ticks(j)  BY <1>1, <1>5, <2>1, TickFacts
  <2>2. CASE j = i /\ u \in t .. t + d - 1  BY <1>1, <2>2, TickFacts
  <2> QED  BY <1>3, <1>5, <2>1, <2>2
<1>6. ASSUME NEW j \in Proc PROVE Rest'[j] + Cardinality(Ticks(j)') = job'[j]
  <2>1. Rest[j] + Cardinality(Ticks(j)) = job[j] /\ Rest[j] \in Nat /\ Cardinality(Ticks(j)) \in Nat
    BY TickFacts
  <2>2. CASE j = i  BY <1>1, <1>2, <1>4, <2>1, <2>2
  <2>3. CASE j # i  BY <1>1, <1>2, <1>3, <2>1, <2>3
  <2> QED  BY <2>2, <2>3
<1>7. start'[i] = Min(Ticks(i)')
  <2>1. start \in [Proc -> Nat] /\ current_time \in Nat /\ arrival[i] \in Nat  BY DEF TypeOK
  <2>2. CASE Rest[i] = job[i]
    <3>1. Ticks(i)' = t .. t + d - 1 /\ start'[i] = t  BY <1>1, <1>3, <2>1, <2>2, TickFacts
    <3>2. Ticks(i)' \in SUBSET Nat /\ t \in (Ticks(i)') /\ \A u \in (Ticks(i)') : t <= u
      BY <1>1, <3>1
    <3> QED  BY <3>1, <3>2, MinEquals
  <2>3. CASE Rest[i] # job[i]
    <3>1. Ticks(i) # {} /\ Ticks(i) \in SUBSET Nat /\ \A u \in Ticks(i) : u < current_time
      BY <2>1, <2>3, TickFacts
    <3>2. Min(Ticks(i)) \in Ticks(i) /\ \A u \in Ticks(i) : Min(Ticks(i)) <= u  BY <3>1, MinIs
    <3>3. start'[i] = Min(Ticks(i))  BY <1>1, <2>3, <3>1 DEF Chart
    <3>4. Min(Ticks(i)) \in (Ticks(i)') /\ Ticks(i)' \in SUBSET Nat
      BY <1>1, <1>3, <3>1, <3>2
    <3>5. \A u \in (Ticks(i)') : Min(Ticks(i)) <= u  BY <1>1, <1>3, <2>1, <3>1, <3>2
    <3> QED  BY <3>3, <3>4, <3>5, MinEquals
  <2> QED  BY <2>2, <2>3
<1>8. ASSUME NEW j \in Proc, Ticks(j)' # {} PROVE start'[j] = Min(Ticks(j)')
  <2>1. CASE j = i  BY <1>7, <2>1
  <2>2. CASE j # i
    <3>1. Ticks(j)' = Ticks(j) /\ start'[j] = start[j]  BY <1>1, <1>3, <2>2 DEF TypeOK
    <3> QED  BY <1>8, <3>1 DEF Chart
  <2> QED  BY <2>1, <2>2
<1>9. Chart'  BY <1>5, <1>6, <1>8 DEF Chart
<1> QED  BY <1>1, <1>2, <1>3, <1>4, <1>7, <1>9

LEMMA TurnDone ==
  ASSUME TypeOK, Chart, NEW i \in Proc, NEW t, NEW d, Turn(i, t, d)
  PROVE  /\ i \notin Done /\ Done' = IF Rest[i] = d THEN Done \cup {i} ELSE Done
         /\ \A j \in Proc : Left(j, current_time)' = Rest'[j]
<1>1. ASSUME NEW j \in Proc PROVE Left(j, current_time)' = Rest'[j]
  <2>1. Chart' /\ arrival' = arrival /\ job' = job /\ current_time' = t + d
    BY TurnChart
  <2>2. arrival[j] \in Nat /\ job[j] \in Nat /\ t \in Nat /\ d \in Nat  BY DEF TypeOK, Turn
  <2>3. /\ \A u \in Ticks(j)' : u \in Nat /\ arrival[j] <= u /\ u < t + d
        /\ Rest'[j] + Cardinality(Ticks(j)') = job[j]
    BY <2>1 DEF Chart
  <2>4. PICK T : T = Ticks(j)'  OBVIOUS
  <2>5. T \subseteq arrival[j] .. t + d - 1 /\ {u \in T : u < t + d} = T
    <3>1. \A u \in T : u \in Nat /\ arrival[j] <= u /\ u < t + d  BY <2>3, <2>4
    <3> QED  BY <2>2, <3>1
  <2>6. Left(j, current_time)' = job[j] - Cardinality(T)  BY <2>1, <2>4, <2>5, Zenon DEF Left
  <2>7. Cardinality(T) \in Nat /\ Rest'[j] \in Nat
    <3>1. Cardinality(T) \in Nat
      <4>1. arrival[j] \in Int /\ t + d - 1 \in Int  BY <2>2
      <4>2. IsFiniteSet(arrival[j] .. t + d - 1)  BY <4>1, FS_Interval
      <4> QED  BY <2>5, <4>2, FS_Subset, FS_CardinalityType
    <3>2. Rest[j] \in Nat /\ Rest[i] \in Nat  BY TickFacts
    <3>3. Rest'[j] = IF j = i THEN Rest[i] - d ELSE Rest[j]  BY TurnChart
    <3> QED  BY <3>1, <3>2, <3>3 DEF Turn
  <2> QED  BY <2>2, <2>3, <2>4, <2>6, <2>7
<1>2. /\ Done' = {j \in Proc : Rest'[j] = 0} /\ Done = {j \in Proc : Rest[j] = 0}
  BY <1>1, DoneFacts DEF Done
<1>3. Rest[i] \in Nat /\ d \in Nat /\ 0 < d /\ d <= Rest[i]  BY TickFacts DEF Turn
<1>4. Rest'[i] = Rest[i] - d /\ \A j \in Proc : j # i => Rest'[j] = Rest[j]  BY TurnChart
<1>5. CASE Rest[i] = d
  <2>1. Rest'[i] = 0 /\ Rest[i] # 0  BY <1>3, <1>4, <1>5
  <2>2. \A j \in Proc : Rest'[j] = 0 <=> (Rest[j] = 0 \/ j = i)  BY <1>4, <2>1
  <2> QED  BY <1>1, <1>2, <1>5, <2>1, <2>2
<1>6. CASE Rest[i] # d
  <2>1. Rest'[i] # 0 /\ Rest[i] # 0  BY <1>3, <1>4, <1>6
  <2>2. \A j \in Proc : Rest'[j] = 0 <=> Rest[j] = 0  BY <1>4, <2>1
  <2> QED  BY <1>1, <1>2, <1>6, <2>1, <2>2
<1> QED  BY <1>1, <1>5, <1>6

(* The sums stay those of the chart.                                       *)
LEMMA TurnAccounts ==
  ASSUME TypeOK, Chart, Accounts, NEW i \in Proc, NEW t, NEW d, Turn(i, t, d)
  PROVE  Accounts'
<1>0. Chart' /\ arrival' = arrival /\ job' = job /\ current_time' = t + d  BY TurnChart
<1>1. \A j \in Done : j \in Proc /\ j # i /\ Ticks(j)' = Ticks(j)
  BY TurnChart, TurnDone DEF Done
<1>2. \A j \in Done : LastTick(j)' = LastTick(j)  BY <1>1 DEF LastTick
<1> DEFINE W == [j \in Done |-> (arrival[j] .. LastTick(j)) \ Ticks(j)]
           U == [j \in Done |-> arrival[j] .. LastTick(j)]
           R == [j \in Done |-> arrival[j] .. Min(Ticks(j)) - 1]
           B == [j \in Done |-> Ticks(j)]
<1>3. completed = Cardinality(Done) /\ wait_time = Units(W) /\ turnaround_time = Units(U)
      /\ response_time = Units(R) /\ busy_time = Units(B)
  BY DEF Accounts
<1>4. CASE Rest[i] # d
  <2>1. Done' = Done /\ UNCHANGED <<completed, wait_time, turnaround_time, response_time, busy_time>>
    BY <1>4, TurnDone DEF Turn, sums
  <2>2. W' = W /\ U' = U /\ R' = R /\ B' = B  BY <1>0, <1>1, <1>2, <2>1
  <2>3. completed' = Cardinality(Done')  BY <1>3, <2>1
  <2>4. Units(W') = Units(W) /\ Units(U') = Units(U) /\ Units(R') = Units(R) /\ Units(B') = Units(B)
    <3> HIDE DEF W, U, R, B
    <3> QED  BY <2>2
  <2> QED  BY <1>3, <2>1, <2>3, <2>4 DEF Accounts
<1>5. CASE Rest[i] = d
  <2>1. /\ Done' = Done \cup {i} /\ i \notin Done /\ IsFiniteSet(Done)
        /\ completed' = completed + 1
        /\ wait_time' = wait_time + (t + d - arrival[i] - job[i])
        /\ turnaround_time' = turnaround_time + ((t + d) - arrival[i])
        /\ response_time' = response_time + (start'[i] - arrival[i])
        /\ busy_time' = busy_time + job[i]
    BY <1>5, TurnDone, DoneFacts DEF Turn
  <2>2. PICK T : T = Ticks(i)'  OBVIOUS
  <2>3. PICK a \in Nat : a = arrival[i]  BY DEF TypeOK
  <2>4. PICK l \in Nat : l = t + d - 1  BY DEF Turn
  <2>5. /\ T \subseteq a .. l /\ l \in T /\ LastTick(i)' = l
        /\ start'[i] = Min(T) /\ Min(T) \in a .. l
    <3>1. T \subseteq a .. l
      <4>1. \A u \in Ticks(i)' : u \in Nat /\ arrival[i] <= u /\ u < t + d  BY <1>0 DEF Chart
      <4>2. \A u \in T : u \in Nat /\ a <= u /\ u < t + d  BY <2>2, <2>3, <4>1
      <4>3. t \in Nat /\ d \in Nat  BY DEF Turn
      <4> QED  BY <2>4, <4>2, <4>3
    <3>5. start'[i] = Min(T)  BY <2>2, TurnChart
    <3>2. l \in T
      <4>1. l \in t .. t + d - 1  BY <2>4 DEF Turn
      <4> QED  BY <2>2, <4>1, TurnChart
    <3>3. Max(T) = l  BY <3>1, <3>2, MaxIs
    <3>4. Min(T) \in T  BY <3>1, <3>2, MinIs
    <3>6. LastTick(i)' = l  BY <2>2, <3>3 DEF LastTick
    <3> QED  BY <3>1, <3>2, <3>4, <3>5, <3>6
  <2>6. IsFiniteSet(T) /\ Cardinality(T) = job[i] /\ job[i] \in Nat
    <3>1. a \in Int /\ l \in Int  OBVIOUS
    <3>2. IsFiniteSet(T)  BY <2>5, <3>1, FS_Interval, FS_Subset
    <3>3. Cardinality(T) = Cardinality(Ticks(i)) + d  BY <2>2, TurnChart
    <3>4. Rest[i] + Cardinality(Ticks(i)) = job[i] /\ job[i] \in Nat /\ Cardinality(Ticks(i)) \in Nat
      BY TickFacts
    <3> QED  BY <1>5, <3>2, <3>3, <3>4 DEF Turn
  <2>7. IsFiniteSet(a .. l) /\ Cardinality(a .. l) = t + d - a
    <3>1. a \in Int /\ l \in Int /\ ~(a > l) /\ l - a + 1 = t + d - a  BY <2>4, <2>5 DEF Turn
    <3> QED  BY <3>1, FS_Interval
  <2>8. IsFiniteSet(a .. Min(T) - 1) /\ Cardinality(a .. Min(T) - 1) = Min(T) - a
    <3>1. PICK m \in Nat : m = Min(T) /\ m >= a  BY <2>5
    <3>2. a \in Int /\ m - 1 \in Int  OBVIOUS
    <3>3. IsFiniteSet(a .. m - 1) /\ Cardinality(a .. m - 1) = IF a > m - 1 THEN 0 ELSE m - 1 - a + 1
      BY <3>2, FS_Interval
    <3> QED  BY <3>1, <3>3
  <2>9. IsFiniteSet((a .. l) \ T) /\ Cardinality((a .. l) \ T) = t + d - a - job[i]
    <3>1. (a .. l) \cap T = T  BY <2>5
    <3>2. PICK S : S = a .. l  OBVIOUS
    <3>3. IsFiniteSet(S) /\ Cardinality(S) = t + d - a  BY <2>7, <3>2
    <3>4. IsFiniteSet(S \ T) /\ Cardinality(S \ T) = Cardinality(S) - Cardinality(S \cap T)
      BY <3>3, FS_Difference
    <3>5. S \cap T = T  BY <3>1, <3>2
    <3>6. Cardinality(S \ T) = Cardinality(S) - Cardinality(T)  BY <3>4, <3>5
    <3>7. IsFiniteSet(S \ T) /\ Cardinality(S \ T) = t + d - a - job[i]
      <4>1. t \in Nat /\ d \in Nat  BY DEF Turn
      <4> QED  BY <2>6, <3>3, <3>4, <3>6, <4>1
    <3> QED  BY <3>2, <3>7
  <2>10. \A j \in Done : /\ IsFiniteSet(W[j]) /\ IsFiniteSet(U[j]) /\ IsFiniteSet(R[j]) /\ IsFiniteSet(B[j])
    <3> SUFFICES ASSUME NEW j \in Done
                 PROVE  /\ IsFiniteSet(W[j]) /\ IsFiniteSet(U[j])
                        /\ IsFiniteSet(R[j]) /\ IsFiniteSet(B[j])
      OBVIOUS
    <3>1. /\ arrival[j] \in Nat /\ Ticks(j) \in SUBSET Nat /\ IsFiniteSet(Ticks(j))
          /\ LastTick(j) \in Ticks(j)
      BY <1>1, TickFacts, DoneFacts
    <3>2. Min(Ticks(j)) \in Ticks(j)  BY <3>1, MinIs
    <3>3. arrival[j] \in Int /\ LastTick(j) \in Int /\ Min(Ticks(j)) - 1 \in Int  BY <3>1, <3>2
    <3>4. IsFiniteSet(arrival[j] .. LastTick(j)) /\ IsFiniteSet(arrival[j] .. Min(Ticks(j)) - 1)
      BY <3>3, FS_Interval
    <3>5. IsFiniteSet((arrival[j] .. LastTick(j)) \ Ticks(j))  BY <3>4, FS_Difference
    <3> QED  BY <3>1, <3>4, <3>5
  <2>11. /\ \A j \in Done : W'[j] = W[j] /\ U'[j] = U[j] /\ R'[j] = R[j] /\ B'[j] = B[j]
         /\ W'[i] = (a .. l) \ T /\ U'[i] = a .. l /\ R'[i] = a .. Min(T) - 1 /\ B'[i] = T
    BY <1>0, <1>1, <1>2, <2>1, <2>2, <2>3, <2>5
  <2>12. /\ DOMAIN W = Done /\ DOMAIN U = Done /\ DOMAIN R = Done /\ DOMAIN B = Done
         /\ DOMAIN W' = Done \cup {i} /\ DOMAIN U' = Done \cup {i}
         /\ DOMAIN R' = Done \cup {i} /\ DOMAIN B' = Done \cup {i}
    BY <2>1
  <2>13. PICK w, u, r, b : w = W' /\ u = U' /\ r = R' /\ b = B'  OBVIOUS
  <2> HIDE DEF W, U, R, B
  <2>14. Units(w) = Units(W) + Cardinality((a .. l) \ T)
    <3>1. Extends(w, W, Done, i)  BY <2>1, <2>6, <2>7, <2>8, <2>9, <2>10, <2>11, <2>12, <2>13 DEF Extends
    <3>2. UnitsAdd(w, W, i)  BY <3>1, UnitsMore
    <3> QED  BY <2>11, <2>13, <3>2 DEF UnitsAdd
  <2>15. Units(u) = Units(U) + Cardinality(a .. l)
    <3>1. Extends(u, U, Done, i)  BY <2>1, <2>6, <2>7, <2>8, <2>9, <2>10, <2>11, <2>12, <2>13 DEF Extends
    <3>2. UnitsAdd(u, U, i)  BY <3>1, UnitsMore
    <3> QED  BY <2>11, <2>13, <3>2 DEF UnitsAdd
  <2>16. Units(r) = Units(R) + Cardinality(a .. Min(T) - 1)
    <3>1. Extends(r, R, Done, i)  BY <2>1, <2>6, <2>7, <2>8, <2>9, <2>10, <2>11, <2>12, <2>13 DEF Extends
    <3>2. UnitsAdd(r, R, i)  BY <3>1, UnitsMore
    <3> QED  BY <2>11, <2>13, <3>2 DEF UnitsAdd
  <2>17. Units(b) = Units(B) + Cardinality(T)
    <3>1. Extends(b, B, Done, i)  BY <2>1, <2>6, <2>7, <2>8, <2>9, <2>10, <2>11, <2>12, <2>13 DEF Extends
    <3>2. UnitsAdd(b, B, i)  BY <3>1, UnitsMore
    <3> QED  BY <2>11, <2>13, <3>2 DEF UnitsAdd
  <2>18. Cardinality(Done \cup {i}) = Cardinality(Done) + 1  BY <2>1, FS_AddElement
  <2>19. /\ completed' = Cardinality(Done')
         /\ wait_time' = Units(W') /\ turnaround_time' = Units(U')
         /\ response_time' = Units(R') /\ busy_time' = Units(B')
    <3>1. t \in Nat /\ d \in Nat /\ (t + d) - arrival[i] = t + d - a  BY <2>3 DEF Turn
    <3>2. completed' = Cardinality(Done')  BY <1>3, <2>1, <2>18
    <3>3. wait_time' = Units(W')  BY <1>3, <2>1, <2>3, <2>9, <2>13, <2>14
    <3>4. turnaround_time' = Units(U')  BY <1>3, <2>1, <2>7, <2>13, <2>15, <3>1
    <3>5. response_time' = Units(R')  BY <1>3, <2>1, <2>3, <2>5, <2>8, <2>13, <2>16
    <3>6. busy_time' = Units(B')  BY <1>3, <2>1, <2>6, <2>13, <2>17
    <3> QED  BY <3>2, <3>3, <3>4, <3>5, <3>6
  <2> USE DEF W, U, R, B
  <2> QED  BY <2>19 DEF Accounts
<1> QED  BY <1>4, <1>5

(* Time that passes without a turn changes neither the chart nor the sums. *)
LEMMA IdleKeeps ==
  ASSUME TypeOK, Chart, Accounts, UNCHANGED <<file, start, completed, sums, chart>>, Rest' = Rest,
         current_time' \in Nat, current_time' >= current_time
  PROVE  Chart' /\ Accounts' /\ \A i \in Proc : Ticks(i)' = Ticks(i)
<1>1. UNCHANGED <<arrival, job, start, completed, wait_time, turnaround_time, response_time,
                  busy_time, pc_queue, at>>
  BY DEF file, sums, chart
<1>2. \A i \in Proc : Ticks(i)' = Ticks(i)  BY <1>1 DEF Ticks
<1>3. Chart'
  <2>1. ASSUME NEW i \in Proc, NEW u \in Ticks(i)'
        PROVE  u \in Nat /\ arrival'[i] <= u /\ u < current_time'
    BY <1>1, <1>2, <2>1, TickFacts
  <2>2. ASSUME NEW i \in Proc PROVE Rest'[i] + Cardinality(Ticks(i)') = job'[i]
    BY <1>1, <1>2, TickFacts
  <2>3. ASSUME NEW i \in Proc, Ticks(i)' # {} PROVE start'[i] = Min(Ticks(i)')
    BY <1>1, <1>2, <2>3 DEF Chart
  <2> QED  BY <2>1, <2>2, <2>3 DEF Chart
<1>4. Done' = Done
  <2>1. ASSUME NEW i \in Proc PROVE Left(i, current_time)' = Left(i, current_time)
    <3>1. PICK T : T = Ticks(i)'  OBVIOUS
    <3>2. T = Ticks(i) /\ \A u \in T : u < current_time /\ u < current_time'
      BY <1>2, <3>1, TickFacts
    <3>3. {u \in T : u < current_time} = T /\ {u \in T : u < current_time'} = T  BY <3>2
    <3> QED  BY <1>1, <3>1, <3>2, <3>3, Zenon DEF Left
  <2> QED  BY <2>1 DEF Done
<1>5. Accounts'
  <2>1. \A j \in Done : Ticks(j)' = Ticks(j)  BY <1>2 DEF Done
  <2>2. \A j \in Done : LastTick(j)' = LastTick(j)  BY <2>1 DEF LastTick
  <2> DEFINE W == [j \in Done |-> (arrival[j] .. LastTick(j)) \ Ticks(j)]
             U == [j \in Done |-> arrival[j] .. LastTick(j)]
             R == [j \in Done |-> arrival[j] .. Min(Ticks(j)) - 1]
             B == [j \in Done |-> Ticks(j)]
  <2>3. completed = Cardinality(Done) /\ wait_time = Units(W) /\ turnaround_time = Units(U)
        /\ response_time = Units(R) /\ busy_time = Units(B)
    BY DEF Accounts
  <2>4. W' = W /\ U' = U /\ R' = R /\ B' = B  BY <1>1, <1>4, <2>1, <2>2
  <2>5. Units(W') = Units(W) /\ Units(U') = Units(U) /\ Units(R') = Units(R) /\ Units(B') = Units(B)
    <3> HIDE DEF W, U, R, B
    <3> QED  BY <2>4
  <2>6. completed' = Cardinality(Done')  BY <1>1, <1>4, <2>3
  <2> QED  BY <1>1, <2>3, <2>5, <2>6 DEF Accounts
<1> QED  BY <1>2, <1>3, <1>5

---------------------------------------------------------------------------
(* The policies take turns.                                                *)

LEMMA ShortestIs ==
  ASSUME TypeOK, NEW left \in [Proc -> Nat], Candidates(left) # {}
  PROVE  /\ Shortest(left) \in Proc /\ arrival[Shortest(left)] <= current_time
         /\ left[Shortest(left)] > 0
         /\ \A j \in Candidates(left) : left[Shortest(left)] <= left[j]
<1> DEFINE C == Candidates(left)
           V == {left[j] : j \in C}
<1>1. C \subseteq Proc /\ Proc \subseteq Nat /\ C # {}  BY ProcIs DEF Candidates
<1>2. V \in SUBSET Nat /\ V # {}  BY <1>1
<1>3. PICK v \in V : \A w \in V : v <= w  BY <1>2, SomeLeast
<1> DEFINE D == {j \in C : left[j] = v}
<1>4. D \in SUBSET Nat /\ D # {}  BY <1>1, <1>3
<1>5. PICK i \in D : \A j \in D : i <= j
  <2> HIDE DEF D
  <2> QED  BY <1>4, SomeLeast
<1>6. \E k \in C : \A j \in C : left[k] < left[j] \/ (left[k] = left[j] /\ k <= j)
  <2>1. i \in C /\ left[i] = v  BY <1>5
  <2>2. ASSUME NEW j \in C PROVE left[i] < left[j] \/ (left[i] = left[j] /\ i <= j)
    <3>1. v <= left[j] /\ v \in Nat /\ left[j] \in Nat  BY <1>1, <1>2, <1>3
    <3>2. CASE left[j] = v  BY <1>5, <2>1, <3>2
    <3>3. CASE left[j] # v  BY <2>1, <3>1, <3>3
    <3> QED  BY <3>2, <3>3
  <2> QED  BY <2>1, <2>2
<1>7. PICK k : k = Shortest(left)  OBVIOUS
<1>8. k \in C /\ \A j \in C : left[k] < left[j] \/ (left[k] = left[j] /\ k <= j)
  <2> HIDE DEF C
  <2>1. k = CHOOSE x \in C : \A j \in C : left[x] < left[j] \/ (left[x] = left[j] /\ x <= j)
    BY <1>7 DEF Shortest, C
  <2> QED  BY <1>6, <2>1
<1>9. ASSUME NEW j \in C PROVE left[k] <= left[j]
  <2>1. left[k] \in Nat /\ left[j] \in Nat  BY <1>1, <1>8
  <2>2. left[k] < left[j] \/ left[k] = left[j]  BY <1>8
  <2> QED  BY <2>1, <2>2
<1> QED  BY <1>7, <1>8, <1>9 DEF Candidates

LEMMA FCFSTurn ==
  ASSUME TypeOK, Chart, Bursts01, FCFS
  PROVE  TypeOK' /\ Bursts01' /\ \E i \in Proc : \E t, d : Turn(i, t, d)
<1>1. PICK i : i = completed  OBVIOUS
<1>2. PICK t : t = IF arrival[i] > current_time THEN arrival[i] ELSE current_time  OBVIOUS
<1>3. i \in Proc /\ policy = "FCFS" /\ completed \in Nat /\ completed < N
  BY <1>1, ProcIs DEF FCFS, TypeOK, Proc
<1>4. PICK d : d = burst[i]  OBVIOUS
<1>5. /\ Execute(i, t, d) /\ start' = [start EXCEPT ![i] = t]
      /\ Complete(i, t - arrival[i], t + d)
      /\ UNCHANGED <<file, burst, remaining, ready, ready_start>>
  BY <1>1, <1>2, <1>4 DEF FCFS
<1>6. /\ arrival[i] \in Nat /\ current_time \in Nat /\ job[i] \in Nat \ {0} /\ d = job[i]
  BY <1>3, <1>4 DEF TypeOK, Bursts01
<1>7. Rest[i] = job[i] /\ completed' = completed + 1  BY <1>1, <1>3, <1>5 DEF Rest, Complete
<1>8. t \in Nat /\ t >= current_time /\ t >= arrival[i]  BY <1>2, <1>6
<1>9. Rest' = [Rest EXCEPT ![i] = @ - d]
  <2>1. Rest' = [j \in Proc |-> IF j < completed + 1 THEN 0 ELSE job[j]]
    BY <1>3, <1>5, <1>7 DEF Rest, file
  <2>2. Rest = [j \in Proc |-> IF j < completed THEN 0 ELSE job[j]]  BY <1>3 DEF Rest
  <2>3. \A j \in Proc : j < completed + 1 <=> j < completed \/ j = i
    <3>1. \A j \in Proc : j \in Nat  BY ProcIs
    <3> QED  BY <1>1, <1>3, <3>1
  <2>4. job[i] - d = 0  BY <1>6
  <2>5. Rest' = [j \in Proc |-> IF j = i THEN Rest[i] - d ELSE Rest[j]]
    BY <1>1, <1>3, <1>7, <2>1, <2>2, <2>3, <2>4
  <2> QED  BY <2>2, <2>5
<1>10. Turn(i, t, d)
  <2>1. t + d - arrival[i] - job[i] = t - arrival[i]  BY <1>6, <1>8
  <2>2. /\ completed' = completed + 1 /\ wait_time' = wait_time + (t - arrival[i])
        /\ turnaround_time' = turnaround_time + ((t + d) - arrival[i])
        /\ response_time' = response_time + (start'[i] - arrival[i])
        /\ busy_time' = busy_time + burst[i]
    BY <1>5 DEF Complete
  <2>4. wait_time' = wait_time + (t + d - arrival[i] - job[i]) /\ busy_time' = busy_time + job[i]
    BY <1>4, <1>6, <2>1, <2>2, Zenon
  <2>3. UNCHANGED file  BY <1>5
  <2> QED  BY <1>5, <1>6, <1>7, <1>8, <1>9, <2>2, <2>3, <2>4 DEF Turn
<1>11. TypeOK'
  <2>1. pc_queue' \in Seq(Proc) /\ at' \in Seq(Nat) /\ Len(at') = Len(pc_queue')
    BY <1>3, <1>5, <1>6, <1>8, ChartMore
  <2>2. current_time' \in Nat  BY <1>5, <1>6, <1>8 DEF Execute
  <2>3. start' \in [Proc -> Nat]  BY <1>5, <1>8 DEF TypeOK
  <2>4. completed' \in 0 .. N  BY <1>3, <1>7, ProcIs
  <2> QED  BY <1>5, <2>1, <2>2, <2>3, <2>4 DEF TypeOK, file
<1>12. Bursts01'  BY <1>5 DEF Bursts01, file
<1> QED  BY <1>3, <1>10, <1>11, <1>12

LEMMA SJFTurn ==
  ASSUME TypeOK, Chart, Bursts01, policy = "SJF", completed < N, Candidates(burst) # {},
         NEW i, i = Shortest(burst),
         start' = [start EXCEPT ![i] = current_time],
         Execute(i, current_time, burst[i]),
         Complete(i, current_time - arrival[i], current_time + burst[i]),
         burst' = [burst EXCEPT ![i] = 0],
         UNCHANGED <<file, remaining, ready, ready_start>>
  PROVE  TypeOK' /\ Bursts01' /\ i \in Proc /\ \E t, d : Turn(i, t, d)
<1>1. burst \in [Proc -> Nat]  BY DEF TypeOK
<1>2. i \in Proc /\ arrival[i] <= current_time /\ burst[i] > 0  BY <1>1, ShortestIs
<1>3. PICK d : d = burst[i]  OBVIOUS
<1>4. PICK t : t = current_time  OBVIOUS
<1>5. /\ arrival[i] \in Nat /\ t \in Nat /\ job[i] \in Nat \ {0} /\ d \in Nat /\ 0 < d
      /\ d = job[i]
  BY <1>1, <1>2, <1>3, <1>4 DEF TypeOK, Bursts01
<1>6. UNCHANGED <<policy, slice, arrival, job, remaining, ready, ready_start>>  BY DEF file
<1>7. Rest = burst /\ Rest' = burst'
  <2>1. Rest = [j \in Proc |-> burst[j]] /\ Rest' = [j \in Proc |-> burst'[j]]
    BY <1>6 DEF Rest
  <2>2. burst' \in [Proc -> Nat]  BY <1>1
  <2> QED  BY <1>1, <2>1, <2>2
<1>8. Rest' = [Rest EXCEPT ![i] = @ - d]
  <2>1. burst[i] - d = 0  BY <1>3, <1>5
  <2> QED  BY <1>7, <2>1
<1>9. Turn(i, t, d)
  <2>1. t + d - arrival[i] - job[i] = t - arrival[i]  BY <1>5
  <2>2. Complete(i, t - arrival[i], t + d)  BY <1>3, <1>4
  <2>3. /\ completed' = completed + 1 /\ wait_time' = wait_time + (t - arrival[i])
        /\ turnaround_time' = turnaround_time + ((t + d) - arrival[i])
        /\ response_time' = response_time + (start'[i] - arrival[i])
        /\ busy_time' = busy_time + burst[i]
    BY <2>2 DEF Complete
  <2>4. wait_time' = wait_time + (t + d - arrival[i] - job[i]) /\ busy_time' = busy_time + job[i]
    BY <1>3, <1>5, <2>1, <2>3, Zenon
  <2>5. Execute(i, t, d) /\ start' = [start EXCEPT ![i] = t]  BY <1>3, <1>4
  <2>6. t >= current_time /\ t >= arrival[i] /\ Rest[i] = d /\ Rest[i] = job[i] /\ d <= Rest[i]
    <3>1. Rest[i] = d  BY <1>3, <1>7, Zenon
    <3>2. t >= current_time /\ t >= arrival[i]  BY <1>2, <1>4, <1>5
    <3> QED  BY <1>5, <3>1, <3>2
  <2> QED  BY <1>5, <1>8, <2>3, <2>4, <2>5, <2>6 DEF Turn
<1>10. TypeOK'
  <2>1. pc_queue' \in Seq(Proc) /\ at' \in Seq(Nat) /\ Len(at') = Len(pc_queue')
    BY <1>2, <1>3, <1>4, <1>5, ChartMore
  <2>2. current_time' \in Nat  BY <1>3, <1>4, <1>5 DEF Execute
  <2>3. start' \in [Proc -> Nat] /\ burst' \in [Proc -> Nat]  BY <1>4, <1>5 DEF TypeOK
  <2>4. completed' \in 0 .. N  BY ProcIs DEF TypeOK, Complete
  <2> QED  BY <1>6, <2>1, <2>2, <2>3, <2>4 DEF TypeOK
<1>11. Bursts01'  BY <1>1, <1>6 DEF Bursts01
<1> QED  BY <1>2, <1>9, <1>10, <1>11

(* SRTF and RR run a process for a part of what it needs.                  *)
LEMMA RunForTurn ==
  ASSUME TypeOK, Chart, Bursts01, policy \in {"SRTF", "RR"}, completed < N,
         NEW i \in Proc, NEW d \in Nat, arrival[i] <= current_time,
         0 < d, d <= remaining[i], RunFor(i, d)
  PROVE  /\ Bursts01' /\ Turn(i, current_time, d)
         /\ remaining' = [remaining EXCEPT ![i] = @ - d] /\ remaining' \in [Proc -> Nat]
         /\ current_time' = current_time + d
         /\ (ready' \in Seq(Proc) /\ ready_start' \in Nat \ {0} => TypeOK')
<1>1. PICK t : t = current_time  OBVIOUS
<1>2. /\ start' = IF remaining[i] = burst[i] THEN [start EXCEPT ![i] = t] ELSE start
      /\ remaining' = [remaining EXCEPT ![i] = @ - d]
      /\ Execute(i, t, d)
      /\ remaining[i] = d => Complete(i, t + d - arrival[i] - burst[i], t + d)
      /\ remaining[i] # d => UNCHANGED <<completed, sums>>
      /\ UNCHANGED <<file, burst>>
  BY <1>1 DEF RunFor
<1>3. UNCHANGED <<policy, slice, arrival, job, burst>>  BY <1>2 DEF file
<1>4. /\ remaining \in [Proc -> Nat] /\ burst = job /\ arrival[i] \in Nat /\ t \in Nat
      /\ job[i] \in Nat \ {0}
  BY <1>1 DEF TypeOK, Bursts01
<1>5. remaining' \in [Proc -> Nat]
  <2>1. remaining[i] \in Nat /\ remaining[i] - d \in Nat  BY <1>4
  <2> QED  BY <1>2, <1>4, <2>1
<1>6. Rest = remaining /\ Rest' = remaining'
  <2>1. Rest = [j \in Proc |-> remaining[j]] /\ Rest' = [j \in Proc |-> remaining'[j]]
    BY <1>3 DEF Rest
  <2> QED  BY <1>4, <1>5, <2>1
<1>7. Turn(i, t, d)
  <2>1. ASSUME remaining[i] = d
        PROVE  /\ completed' = completed + 1
               /\ wait_time' = wait_time + (t + d - arrival[i] - job[i])
               /\ turnaround_time' = turnaround_time + ((t + d) - arrival[i])
               /\ response_time' = response_time + (start'[i] - arrival[i])
               /\ busy_time' = busy_time + job[i]
    <3>1. Complete(i, t + d - arrival[i] - job[i], t + d) /\ burst[i] = job[i]  BY <1>2, <1>4, <2>1
    <3>2. /\ completed' = completed + 1
          /\ wait_time' = wait_time + (t + d - arrival[i] - job[i])
          /\ turnaround_time' = turnaround_time + ((t + d) - arrival[i])
          /\ response_time' = response_time + (start'[i] - arrival[i])
          /\ busy_time' = busy_time + burst[i]
      BY <3>1 DEF Complete
    <3> QED  BY <3>1, <3>2
  <2>2. Rest' = [Rest EXCEPT ![i] = @ - d]  BY <1>2, <1>6
  <2>3. start' = IF Rest[i] = job[i] THEN [start EXCEPT ![i] = t] ELSE start  BY <1>2, <1>4, <1>6
  <2>4. t >= current_time /\ t >= arrival[i] /\ d <= Rest[i]  BY <1>1, <1>4, <1>6
  <2>5. Rest[i] # d => UNCHANGED <<completed, sums>>  BY <1>2, <1>6
  <2>6. Execute(i, t, d) /\ UNCHANGED file  BY <1>2
  <2> QED  BY <1>4, <1>6, <2>1, <2>2, <2>3, <2>4, <2>5, <2>6 DEF Turn
<1>8. ASSUME ready' \in Seq(Proc), ready_start' \in Nat \ {0} PROVE TypeOK'
  <2>1. pc_queue' \in Seq(Proc) /\ at' \in Seq(Nat) /\ Len(at') = Len(pc_queue')
    BY <1>2, <1>4, ChartMore
  <2>2. current_time' \in Nat  BY <1>2, <1>4, SMTT(30) DEF Execute
  <2>3. start' \in [Proc -> Nat]  BY <1>2, <1>4 DEF TypeOK
  <2>4. completed' \in 0 .. N
    <3>1. completed' = completed \/ completed' = completed + 1  BY <1>2 DEF Complete
    <3> QED  BY <3>1, ProcIs DEF TypeOK
  <2> QED  BY <1>3, <1>5, <1>8, <2>1, <2>2, <2>3, <2>4 DEF TypeOK
<1>9. Bursts01'  BY <1>3 DEF Bursts01
<1>10. current_time' = current_time + d  BY <1>1, <1>2 DEF Execute
<1> QED  BY <1>1, <1>2, <1>5, <1>7, <1>8, <1>9, <1>10

---------------------------------------------------------------------------
(* The ready queue of RR.                                                  *)

LiveIn(q, s) == {q[k] : k \in s .. Len(q)}
Ready(i, left, time) == arrival[i] <= time /\ left[i] > 0

(* From entry s on, the queue has processes that are ready, each once, and *)
(* with them all that were ever in it and need more, except for those out. *)
GoodQueue(q, s, left, time, out) ==
  /\ q \in Seq(Proc) /\ s <= Len(q) + 1
  /\ \A k, l \in s .. Len(q) : q[k] = q[l] => k = l
  /\ \A k \in s .. Len(q) : Ready(q[k], left, time) /\ q[k] \notin out
  /\ \A k \in 1 .. Len(q) : left[q[k]] > 0 /\ q[k] \notin out => q[k] \in LiveIn(q, s)
  /\ \A i \in out : \E k \in 1 .. Len(q) : q[k] = i

Grown(Q, q, s, left, time, out, n) ==
  /\ GoodQueue(Q, s, left, time, out)
  /\ Len(q) <= Len(Q) /\ \A k \in 1 .. Len(q) : Q[k] = q[k]
  /\ \A i \in Proc : i < n /\ Ready(i, left, time) /\ i \notin out => i \in LiveIn(Q, s)

Adds(q, n, left, time) ==
  IF arrival[n] <= time /\ left[n] > 0 /\ \A j \in 1 .. Len(q) : q[j] # n
  THEN Append(q, n) ELSE q
EnqueuesTo(U, n, queue, left, time) ==
  U = [m \in 0 .. n |-> IF m = 0 THEN queue ELSE Adds(U[m - 1], m - 1, left, time)]

LEMMA EnqueueIs ==
  ASSUME NEW queue, NEW left, NEW time
  PROVE  \E U : EnqueuesTo(U, N, queue, left, time) /\ Enqueue(queue, left, time) = U[N]
<1>1. N \in Nat  BY ProcIs
<1> DEFINE G == {n \in 0 .. N : \E U : EnqueuesTo(U, n, queue, left, time)}
<1>2. 0 \in G
  <2>1. EnqueuesTo([m \in 0 .. 0 |-> queue], 0, queue, left, time)  BY DEF EnqueuesTo
  <2> QED  BY <1>1, <2>1
<1>3. ASSUME NEW n \in 0 .. N - 1, n \in G PROVE n + 1 \in G
  <2>1. PICK V : EnqueuesTo(V, n, queue, left, time)  BY <1>3
  <2> DEFINE U == [m \in 0 .. n + 1 |-> IF m = n + 1 THEN Adds(V[n], n, left, time) ELSE V[m]]
  <2>2. \A m \in 0 .. n : U[m] = V[m] /\ V[m] = IF m = 0 THEN queue ELSE Adds(V[m - 1], m - 1, left, time)
    <3>1. \A m \in 0 .. n : m \in 0 .. n + 1 /\ m # n + 1  BY <1>1
    <3>2. V = [m \in 0 .. n |-> IF m = 0 THEN queue ELSE Adds(V[m - 1], m - 1, left, time)]
      BY <2>1 DEF EnqueuesTo
    <3>3. ASSUME NEW m \in 0 .. n
          PROVE  V[m] = IF m = 0 THEN queue ELSE Adds(V[m - 1], m - 1, left, time)
      BY <3>2, Zenon
    <3> QED  BY <3>1, <3>3
  <2>3. n \in 0 .. n /\ U[n + 1] = Adds(V[n], n, left, time)  BY <1>1
  <2>4. ASSUME NEW m \in 0 .. n + 1
        PROVE  U[m] = IF m = 0 THEN queue ELSE Adds(U[m - 1], m - 1, left, time)
    <3> HIDE DEF U
    <3>1. CASE m = n + 1
      <4>1. m # 0 /\ m - 1 = n /\ U[m - 1] = V[n]  BY <1>1, <2>2, <2>3, <3>1
      <4> QED  BY <2>3, <3>1, <4>1
    <3>2. CASE m = 0
      <4>1. m \in 0 .. n  BY <1>1, <3>2
      <4> QED  BY <2>2, <3>2, <4>1
    <3>3. CASE m # n + 1 /\ m # 0
      <4>1. m \in 0 .. n /\ m - 1 \in 0 .. n  BY <1>1, <3>3
      <4>2. U[m] = V[m] /\ U[m - 1] = V[m - 1]  BY <2>2, <4>1
      <4>3. V[m] = Adds(V[m - 1], m - 1, left, time)  BY <2>2, <3>3, <4>1
      <4> QED  BY <3>3, <4>2, <4>3
    <3> QED  BY <3>1, <3>2, <3>3
  <2>5. EnqueuesTo(U, n + 1, queue, left, time)
    <3>1. U = [m \in 0 .. n + 1 |-> U[m]]  OBVIOUS
    <3> HIDE DEF U
    <3> QED  BY <2>4, <3>1 DEF EnqueuesTo
  <2> QED  BY <1>1, <2>5
<1>4. N \in G
  <2>1. N \in 0 .. N  BY <1>1
  <2> HIDE DEF G
  <2> QED  BY <1>1, <1>2, <1>3, <2>1, Upward
<1>5. PICK U : U = CHOOSE V : EnqueuesTo(V, N, queue, left, time)  OBVIOUS
<1>6. EnqueuesTo(U, N, queue, left, time)  BY <1>4, <1>5
<1>7. Enqueue(queue, left, time) = U[N]  BY <1>5 DEF Enqueue, EnqueuesTo, Adds
<1> QED  BY <1>6, <1>7

LEMMA AddsGrows ==
  ASSUME TypeOK, NEW left \in [Proc -> Nat], NEW time \in Nat, NEW s \in Nat \ {0}, NEW out,
         NEW queue, NEW q, NEW n \in Proc, Grown(q, queue, s, left, time, out, n)
  PROVE  Grown(Adds(q, n, left, time), queue, s, left, time, out, n + 1)
<1>1. PICK Q : Q = Adds(q, n, left, time)  OBVIOUS
<1>2. n \in Nat /\ \A i \in Proc : i \in Nat  BY ProcIs
<1>3. q \in Seq(Proc) /\ Len(q) \in Nat /\ arrival \in [Proc -> Nat]  BY DEF Grown, GoodQueue, TypeOK
<1>4. /\ \A k, l \in s .. Len(q) : q[k] = q[l] => k = l
      /\ \A k \in s .. Len(q) : Ready(q[k], left, time) /\ q[k] \notin out
      /\ \A k \in 1 .. Len(q) : left[q[k]] > 0 /\ q[k] \notin out => q[k] \in LiveIn(q, s)
      /\ \A i \in out : \E k \in 1 .. Len(q) : q[k] = i
      /\ s <= Len(q) + 1
  BY DEF Grown, GoodQueue
<1>5. /\ Len(queue) <= Len(q) /\ \A k \in 1 .. Len(queue) : q[k] = queue[k]
      /\ \A i \in Proc : i < n /\ Ready(i, left, time) /\ i \notin out => i \in LiveIn(q, s)
  BY DEF Grown
<1>6. CASE Ready(n, left, time) /\ \A j \in 1 .. Len(q) : q[j] # n
  <2>1. Q = Append(q, n)  BY <1>1, <1>6 DEF Adds, Ready
  <2>2. PICK m \in Nat : m = Len(q)  BY <1>3
  <2>3. Q \in Seq(Proc) /\ Len(Q) = m + 1 /\ Q[m + 1] = n /\ \A k \in 1 .. m : Q[k] = q[k]
    BY <1>3, <2>1, <2>2
  <2>4. n \notin out  BY <1>4, <1>6
  <2>5. LiveIn(Q, s) = LiveIn(q, s) \cup {n}
    <3>1. \A k : k \in s .. m + 1 <=> (k \in s .. m \/ k = m + 1)  BY <1>4, <2>2
    <3>2. \A k \in s .. m : k \in 1 .. m  OBVIOUS
    <3>3. \A k \in s .. m : Q[k] = q[k]  BY <2>3, <3>2
    <3> QED  BY <2>2, <2>3, <3>1, <3>3 DEF LiveIn
  <2>6. ASSUME NEW k \in s .. m + 1, NEW l \in s .. m + 1, Q[k] = Q[l] PROVE k = l
    <3>1. CASE k \in s .. m /\ l \in s .. m  BY <1>4, <2>2, <2>3, <2>6, <3>1
    <3>2. CASE k = m + 1 /\ l \in 1 .. m  BY <1>6, <2>2, <2>3, <2>6, <3>2
    <3>3. CASE l = m + 1 /\ k \in 1 .. m  BY <1>6, <2>2, <2>3, <2>6, <3>3
    <3> QED  BY <3>1, <3>2, <3>3
  <2>7. ASSUME NEW k \in s .. m + 1 PROVE Ready(Q[k], left, time) /\ Q[k] \notin out
    <3>1. CASE k = m + 1  BY <1>6, <2>3, <2>4, <3>1
    <3>2. CASE k # m + 1
      <4>1. k \in s .. m /\ k \in 1 .. m  BY <3>2
      <4> QED  BY <1>4, <2>2, <2>3, <4>1
    <3> QED  BY <3>1, <3>2
  <2>8. ASSUME NEW k \in 1 .. m + 1, left[Q[k]] > 0, Q[k] \notin out PROVE Q[k] \in LiveIn(Q, s)
    <3>1. CASE k = m + 1  BY <2>3, <2>5, <3>1
    <3>2. CASE k # m + 1
      <4>1. k \in 1 .. m  BY <3>2
      <4> QED  BY <1>4, <2>2, <2>3, <2>5, <2>8, <4>1
    <3> QED  BY <3>1, <3>2
  <2>9. ASSUME NEW i \in out PROVE \E k \in 1 .. m + 1 : Q[k] = i
    <3>1. PICK k \in 1 .. m : q[k] = i  BY <1>4, <2>2
    <3> QED  BY <2>3, <3>1
  <2>10. GoodQueue(Q, s, left, time, out)
    <3>1. s <= Len(Q) + 1  BY <1>4, <2>2, <2>3
    <3> QED  BY <2>3, <2>6, <2>7, <2>8, <2>9, <3>1 DEF GoodQueue
  <2>11. Len(queue) <= Len(Q) /\ \A k \in 1 .. Len(queue) : Q[k] = queue[k]
    <3>1. CASE Len(queue) \in Int  BY <1>5, <2>2, <2>3, <3>1
    <3>2. CASE Len(queue) \notin Int
      <4>1. Len(queue) <= Len(q)  BY <1>5
      <4> QED  BY <1>5, <2>2, <2>3, <3>2
    <3> QED  BY <3>1, <3>2
  <2>12. ASSUME NEW i \in Proc, i < n + 1, Ready(i, left, time), i \notin out PROVE i \in LiveIn(Q, s)
    <3>1. i < n \/ i = n  BY <1>2, <2>12
    <3> QED  BY <1>5, <2>5, <2>12, <3>1
  <2>13. Grown(Q, queue, s, left, time, out, n + 1)  BY <2>10, <2>11, <2>12 DEF Grown
  <2> QED  BY <1>1, <2>13
<1>7. CASE ~(Ready(n, left, time) /\ \A j \in 1 .. Len(q) : q[j] # n)
  <2>1. Q = q  BY <1>1, <1>7 DEF Adds, Ready
  <2>2. ASSUME NEW i \in Proc, i < n + 1, Ready(i, left, time), i \notin out PROVE i \in LiveIn(q, s)
    <3>1. CASE i < n  BY <1>5, <2>2, <3>1
    <3>2. CASE i = n
      <4>1. PICK j \in 1 .. Len(q) : q[j] = n  BY <1>7, <2>2, <3>2
      <4> QED  BY <1>4, <2>2, <3>2, <4>1 DEF Ready
    <3> QED  BY <1>2, <2>2, <3>1, <3>2
  <2>3. Grown(q, queue, s, left, time, out, n + 1)  BY <1>5, <2>2 DEF Grown
  <2> QED  BY <1>1, <2>1, <2>3
<1> QED  BY <1>6, <1>7

LEMMA EnqueueGrows ==
  ASSUME TypeOK, NEW left \in [Proc -> Nat], NEW time \in Nat, NEW s \in Nat \ {0}, NEW out,
         NEW queue, GoodQueue(queue, s, left, time, out)
  PROVE  Grown(Enqueue(queue, left, time), queue, s, left, time, out, N)
<1>1. PICK U : EnqueuesTo(U, N, queue, left, time) /\ Enqueue(queue, left, time) = U[N]
  BY EnqueueIs
<1>2. N \in Nat /\ \A i \in Proc : i \in Nat  BY ProcIs
<1> DEFINE G == {n \in 0 .. N : Grown(U[n], queue, s, left, time, out, n)}
<1>3. \A m \in 0 .. N : U[m] = IF m = 0 THEN queue ELSE Adds(U[m - 1], m - 1, left, time)
  <2>1. U = [m \in 0 .. N |-> IF m = 0 THEN queue ELSE Adds(U[m - 1], m - 1, left, time)]
    BY <1>1 DEF EnqueuesTo
  <2> QED  BY <2>1, Zenon
<1>4. 0 \in G
  <2>1. 0 \in 0 .. N /\ U[0] = queue  BY <1>2, <1>3
  <2>2. Len(queue) \in Nat  BY DEF GoodQueue
  <2>3. Len(queue) <= Len(queue) /\ \A i \in Proc : ~(i < 0)  BY <1>2, <2>2
  <2> QED  BY <2>1, <2>3 DEF Grown
<1>5. ASSUME NEW n \in 0 .. N - 1, n \in G PROVE n + 1 \in G
  <2>1. n \in Proc /\ n + 1 \in 0 .. N /\ n + 1 # 0 /\ (n + 1) - 1 = n  BY <1>2 DEF Proc
  <2>2. U[n + 1] = Adds(U[n], n, left, time)  BY <1>3, <2>1
  <2>3. Grown(U[n], queue, s, left, time, out, n)  BY <1>5
  <2>4. Grown(Adds(U[n], n, left, time), queue, s, left, time, out, n + 1)  BY <2>1, <2>3, AddsGrows
  <2> QED  BY <2>1, <2>2, <2>4
<1>6. N \in G
  <2>1. N \in 0 .. N  BY <1>2
  <2> HIDE DEF G
  <2> QED  BY <1>2, <1>4, <1>5, <2>1, Upward
<1> QED  BY <1>1, <1>6

(* No more entries are live than there are processes.                      *)
LEMMA NotMany ==
  ASSUME NEW q, NEW s \in Nat \ {0}, NEW left, NEW time, NEW out \in SUBSET Proc,
         GoodQueue(q, s, left, time, out), NEW p \in s .. Len(q)
  PROVE  p - s <= N - 1 /\ (out # {} => p - s < N - 1)
<1>1. /\ q \in Seq(Proc) /\ Len(q) \in Nat
      /\ \A k, l \in s .. Len(q) : q[k] = q[l] => k = l
      /\ \A k \in s .. Len(q) : q[k] \in Proc /\ q[k] \notin out
  BY DEF GoodQueue
<1> DEFINE I == s .. p
           T == Proc \ out
           f == [k \in I |-> q[k]]
<1>2. N \in Nat \ {0} /\ IsFiniteSet(Proc) /\ Cardinality(Proc) = N  BY ProcIs
<1>3. IsFiniteSet(I) /\ Cardinality(I) = p - s + 1
  <2>1. s \in Int /\ p \in Int /\ ~(s > p)  BY <1>1
  <2> QED  BY <2>1, FS_Interval
<1>4. I \subseteq s .. Len(q)  BY <1>1
<1>5. f \in [I -> T]  BY <1>1, <1>4
<1>6. IsFiniteSet(T) /\ Cardinality(T) \in Nat  BY <1>2, FS_Subset, FS_CardinalityType
<1>7. ~(Cardinality(I) > Cardinality(T))
  <2> SUFFICES ASSUME Cardinality(I) > Cardinality(T) PROVE FALSE  OBVIOUS
  <2>1. \E k, l \in I : k # l /\ f[k] = f[l]
    <3> HIDE DEF I, T, f
    <3> QED  BY <1>3, <1>5, <1>6, FS_PigeonHole
  <2> QED  BY <1>1, <1>4, <2>1
<1>8. Cardinality(T) <= N  BY <1>2, FS_Subset
<1>9. ASSUME out # {} PROVE Cardinality(T) < N
  <2>1. PICK i \in Proc : i \in out  BY <1>9
  <2>2. T \subseteq Proc \ {i}  BY <2>1
  <2>3. IsFiniteSet(Proc \ {i}) /\ Cardinality(Proc \ {i}) = N - 1  BY <1>2, <2>1, FS_RemoveElement
  <2>4. Cardinality(T) <= N - 1  BY <2>2, <2>3, FS_Subset
  <2> QED  BY <1>2, <1>6, <2>4
<1>10. p \in Nat /\ p - s + 1 <= Cardinality(T)
  <2>1. p \in Nat  BY <1>1
  <2> QED  BY <1>3, <1>6, <1>7, <2>1
<1> HIDE DEF T
<1> QED  BY <1>2, <1>6, <1>8, <1>9, <1>10

Queue == policy = "RR" => GoodQueue(ready, ready_start, remaining, current_time, {})

(* A turn of RR, from the queue it finds to the one it leaves.             *)
RRTurn(i, d, Q, later) ==
  /\ policy = "RR" /\ i \in Proc /\ d \in Nat /\ 0 < d /\ d <= slice
  /\ Grown(Q, ready, ready_start, remaining, current_time, {}, N)
  /\ ready_start <= Len(Q) /\ Q[ready_start] = i
  /\ Turn(i, current_time, d) /\ current_time' = current_time + d
  /\ remaining' = [remaining EXCEPT ![i] = @ - d]
  /\ Grown(later, Q, ready_start + 1, remaining', current_time', {i}, N)
  /\ ready' = IF remaining'[i] = 0 THEN later ELSE Append(later, i)
  /\ ready_start' = ready_start + 1
  /\ GoodQueue(ready', ready_start', remaining', current_time', {})

LEMMA RRTurns ==
  ASSUME TypeOK, Chart, Bursts01, Queue, RR,
         NEW Q, Q = Enqueue(ready, remaining, current_time), ready_start <= Len(Q)
  PROVE  TypeOK' /\ Bursts01' /\ Queue' /\ \E i, d, later : RRTurn(i, d, Q, later)
<1>1. PICK i : i = Q[ready_start]  OBVIOUS
<1>2. PICK d : d = Quantum(i)  OBVIOUS
<1>3. PICK left, time : left = remaining' /\ time = current_time'  OBVIOUS
<1>4. PICK later : later = Enqueue(Q, left, time)  OBVIOUS
<1>5. policy = "RR" /\ completed < N  BY DEF RR
<1>6. Grown(Q, ready, ready_start, remaining, current_time, {}, N)
  <2>1. GoodQueue(ready, ready_start, remaining, current_time, {})  BY <1>5 DEF Queue
  <2>2. remaining \in [Proc -> Nat] /\ current_time \in Nat /\ ready_start \in Nat \ {0}
    BY DEF TypeOK
  <2> QED  BY <2>1, <2>2, EnqueueGrows
<1>7. GoodQueue(Q, ready_start, remaining, current_time, {})  BY <1>6 DEF Grown
<1>8. /\ Q \in Seq(Proc) /\ Len(Q) \in Nat /\ ready_start \in Nat \ {0}
      /\ ready_start \in ready_start .. Len(Q) /\ slice \in Nat \ {0}
  BY <1>5, <1>7 DEF GoodQueue, TypeOK
<1>9. i \in Proc /\ arrival[i] <= current_time /\ remaining[i] > 0
  BY <1>1, <1>7, <1>8 DEF GoodQueue, Ready
<1>10. d \in Nat /\ 0 < d /\ d <= slice /\ d <= remaining[i]
  <2>1. remaining[i] \in Nat  BY <1>9 DEF TypeOK
  <2> QED  BY <1>2, <1>8, <1>9, <2>1 DEF Quantum
<1>11. /\ RunFor(i, d)
       /\ ready' = IF left[i] = 0 THEN later ELSE Append(later, i)
       /\ ready_start' = ready_start + 1
  <2>1. ~(ready_start > Len(Q))  BY <1>8
  <2> QED  BY <1>1, <1>2, <1>3, <1>4, <1>5, <2>1, Zenon DEF RR
<1>12. /\ Bursts01' /\ Turn(i, current_time, d)
       /\ remaining' = [remaining EXCEPT ![i] = @ - d] /\ remaining' \in [Proc -> Nat]
       /\ current_time' = current_time + d
       /\ (ready' \in Seq(Proc) /\ ready_start' \in Nat \ {0} => TypeOK')
  BY <1>5, <1>9, <1>10, <1>11, RunForTurn
<1>13. left \in [Proc -> Nat] /\ time \in Nat /\ time = current_time + d
       /\ left[i] = remaining[i] - d /\ \A j \in Proc : j # i => left[j] = remaining[j]
  BY <1>3, <1>9, <1>10, <1>12 DEF TypeOK
<1>14. PICK s : s = ready_start + 1  OBVIOUS
<1>15. s \in Nat \ {0} /\ \A k : k \in s .. Len(Q) <=> (k \in ready_start .. Len(Q) /\ k # ready_start)
  BY <1>8, <1>14
<1>16. GoodQueue(Q, s, left, time, {i})
  <2>1. s <= Len(Q) + 1  BY <1>8, <1>14
  <2>2. \A k, l \in s .. Len(Q) : Q[k] = Q[l] => k = l  BY <1>7, <1>15 DEF GoodQueue
  <2>3. ASSUME NEW k \in s .. Len(Q) PROVE Ready(Q[k], left, time) /\ Q[k] \notin {i}
    <3>1. Q[k] # i  BY <1>1, <1>7, <1>8, <1>15 DEF GoodQueue
    <3>2. Q[k] \in Proc /\ arrival[Q[k]] <= current_time /\ remaining[Q[k]] > 0
      BY <1>7, <1>8, <1>15 DEF GoodQueue, Ready
    <3>3. arrival[Q[k]] \in Nat /\ current_time \in Nat  BY <3>2 DEF TypeOK
    <3> QED  BY <1>10, <1>13, <3>1, <3>2, <3>3 DEF Ready
  <2>4. ASSUME NEW k \in 1 .. Len(Q), left[Q[k]] > 0, Q[k] \notin {i} PROVE Q[k] \in LiveIn(Q, s)
    <3>1. Q[k] \in Proc /\ remaining[Q[k]] > 0  BY <1>8, <1>13, <2>4
    <3>2. PICK l \in ready_start .. Len(Q) : Q[l] = Q[k]  BY <1>7, <3>1 DEF GoodQueue, LiveIn
    <3>3. l \in s .. Len(Q)  BY <1>1, <1>15, <2>4, <3>2
    <3> QED  BY <3>2, <3>3 DEF LiveIn
  <2>5. \A j \in {i} : \E k \in 1 .. Len(Q) : Q[k] = j  BY <1>1, <1>8
  <2> QED  BY <1>8, <2>1, <2>2, <2>3, <2>4, <2>5 DEF GoodQueue
<1>17. Grown(later, Q, s, left, time, {i}, N)  BY <1>4, <1>13, <1>15, <1>16, EnqueueGrows
<1>18. GoodQueue(later, s, left, time, {i})  BY <1>17 DEF Grown
<1>19. PICK r : r = IF left[i] = 0 THEN later ELSE Append(later, i)  OBVIOUS
<1>20. GoodQueue(r, s, left, time, {})
  <2>1. /\ later \in Seq(Proc) /\ s <= Len(later) + 1
        /\ \A k, l \in s .. Len(later) : later[k] = later[l] => k = l
        /\ \A k \in s .. Len(later) : Ready(later[k], left, time) /\ later[k] # i
        /\ \A k \in 1 .. Len(later) : left[later[k]] > 0 /\ later[k] # i => later[k] \in LiveIn(later, s)
    BY <1>18 DEF GoodQueue
  <2>2. CASE left[i] = 0
    <3>1. r = later  BY <1>19, <2>2
    <3>2. \A k \in 1 .. Len(later) : left[later[k]] > 0 => later[k] \in LiveIn(later, s)
      BY <2>1, <2>2
    <3> QED  BY <2>1, <3>1, <3>2 DEF GoodQueue
  <2>3. CASE left[i] # 0
    <3>1. PICK m \in Nat : m = Len(later)  BY <2>1
    <3>2. r \in Seq(Proc) /\ Len(r) = m + 1 /\ r[m + 1] = i /\ \A k \in 1 .. m : r[k] = later[k]
      BY <1>9, <1>19, <2>1, <2>3, <3>1
    <3>3. s <= m + 1 /\ \A k : k \in s .. m + 1 <=> (k \in s .. m \/ k = m + 1)  BY <1>15, <2>1, <3>1
    <3>4. \A k \in s .. m : k \in 1 .. m /\ r[k] = later[k] /\ r[k] # i  BY <1>15, <2>1, <3>1, <3>2
    <3>5. Ready(i, left, time)
      <4>1. arrival[i] \in Nat /\ current_time \in Nat  BY <1>9 DEF TypeOK
      <4>2. left[i] \in Nat  BY <1>9, <1>13
      <4> QED  BY <1>9, <1>10, <1>13, <2>3, <4>1, <4>2 DEF Ready
    <3>6. \A k, l \in s .. m + 1 : r[k] = r[l] => k = l  BY <2>1, <3>1, <3>2, <3>3, <3>4
    <3>7. \A k \in s .. m + 1 : Ready(r[k], left, time)  BY <2>1, <3>1, <3>2, <3>3, <3>4, <3>5
    <3>8. ASSUME NEW k \in 1 .. m + 1, left[r[k]] > 0 PROVE r[k] \in LiveIn(r, s)
      <4>1. CASE r[k] = i
        <5>1. m + 1 \in s .. Len(r)  BY <3>2, <3>3
        <5> QED  BY <3>2, <4>1, <5>1 DEF LiveIn
      <4>2. CASE r[k] # i
        <5>1. k \in 1 .. m /\ r[k] = later[k]  BY <3>2, <4>2
        <5>2. PICK l \in s .. m : later[l] = later[k]  BY <2>1, <3>1, <3>8, <4>2, <5>1 DEF LiveIn
        <5>3. r[l] = r[k] /\ l \in s .. Len(r)  BY <3>2, <3>3, <3>4, <5>1, <5>2
        <5> QED  BY <5>3 DEF LiveIn
      <4> QED  BY <4>1, <4>2
    <3>9. s <= Len(r) + 1 /\ m + 1 = Len(r)  BY <1>15, <3>1, <3>2, <3>3
    <3> HIDE DEF LiveIn
    <3> QED  BY <3>2, <3>6, <3>7, <3>8, <3>9, Zenon DEF GoodQueue
  <2> QED  BY <2>2, <2>3
<1>21. ready' = r /\ ready_start' = s  BY <1>11, <1>14, <1>19
<1>22. TypeOK'
  <2>1. r \in Seq(Proc)  BY <1>20 DEF GoodQueue
  <2> QED  BY <1>12, <1>15, <1>21, <2>1
<1>23. Queue'
  <2>1. arrival' = arrival  BY <1>12 DEF Turn, file
  <2>2. \A k : (arrival[k] <= time /\ left[k] > 0) <=> (arrival'[k] <= current_time' /\ remaining'[k] > 0)
    BY <1>3, <2>1
  <2> QED  BY <1>3, <1>20, <1>21, <2>1 DEF Queue, GoodQueue, Ready, LiveIn
<1>24. RRTurn(i, d, Q, later)
  <2>1. Grown(later, Q, ready_start + 1, remaining', current_time', {i}, N)  BY <1>3, <1>14, <1>17
  <2>2. GoodQueue(ready', ready_start', remaining', current_time', {})  BY <1>3, <1>20, <1>21
  <2>3. ready' = IF remaining'[i] = 0 THEN later ELSE Append(later, i)  BY <1>3, <1>11
  <2> QED  BY <1>1, <1>5, <1>6, <1>9, <1>10, <1>11, <1>12, <2>1, <2>2, <2>3 DEF RRTurn
<1> QED  BY <1>12, <1>22, <1>23, <1>24

---------------------------------------------------------------------------
(* The sums are those of the chart, for every policy.                      *)

Inv == TypeOK /\ Chart /\ Bursts01 /\ Queue /\ Accounts

LEMMA InitHolds == Init => Inv
<1> SUFFICES ASSUME Init PROVE Inv  OBVIOUS
<1>1. TypeOK
  <2>1. policy \in Policies /\ (policy = "RR" => slice \in Nat \ {0})  BY CpuAssumption DEF Init
  <2>2. arrival \in [Proc -> Nat] /\ job \in [Proc -> Nat \ {0}]
    <3>1. arrival \in [Proc -> Arrivals] /\ job \in [Proc -> Bursts]  BY DEF Init
    <3>2. Arrivals \subseteq Nat /\ Bursts \subseteq Nat \ {0}  BY CpuAssumption
    <3> QED  BY <3>1, <3>2
  <2>3. start \in [Proc -> Nat] /\ burst \in [Proc -> Nat] /\ remaining \in [Proc -> Nat]
    BY <2>2 DEF Init
  <2>4. /\ ready \in Seq(Proc) /\ pc_queue \in Seq(Proc) /\ at \in Seq(Nat)
        /\ Len(at) = Len(pc_queue) /\ current_time \in Nat /\ ready_start \in Nat \ {0}
    BY DEF Init
  <2>5. completed \in 0 .. N  BY ProcIs DEF Init
  <2> QED  BY <2>1, <2>2, <2>3, <2>4, <2>5 DEF TypeOK
<1>2. \A i \in Proc : Ticks(i) = {}  BY DEF Init, Ticks
<1>3. Cardinality({}) = 0  BY FS_EmptySet
<1>4. Chart
  <2>1. ASSUME NEW i \in Proc PROVE Rest[i] + Cardinality(Ticks(i)) = job[i]
    <3>1. i \in Nat /\ job[i] \in Nat  BY <1>1, ProcIs DEF TypeOK
    <3>2. Rest[i] = job[i]  BY <3>1 DEF Init, Rest
    <3> QED  BY <1>2, <1>3, <3>1, <3>2
  <2> QED  BY <1>2, <2>1 DEF Chart
<1>5. Bursts01  BY DEF Init, Bursts01
<1>6. Queue  BY <1>1 DEF Queue, GoodQueue, Init, TypeOK
<1>7. Accounts
  <2>1. Done = {}
    <3>1. ASSUME NEW i \in Proc PROVE Left(i, current_time) # 0
      <4>1. {u \in Ticks(i) : u < current_time} = {}  BY <1>2
      <4>2. Left(i, current_time) = job[i] - Cardinality({})  BY <4>1, Zenon DEF Left
      <4> QED  BY <1>1, <1>3, <4>2 DEF TypeOK
    <3> QED  BY <3>1 DEF Done
  <2>2. ASSUME NEW f, DOMAIN f = {} PROVE Units(f) = 0
    <3>1. UNION {{i} \X f[i] : i \in DOMAIN f} = {}  BY <2>2
    <3> QED  BY <1>3, <3>1, Zenon DEF Units
  <2>3. /\ Units([i \in Done |-> (arrival[i] .. LastTick(i)) \ Ticks(i)]) = 0
        /\ Units([i \in Done |-> arrival[i] .. LastTick(i)]) = 0
        /\ Units([i \in Done |-> arrival[i] .. Min(Ticks(i)) - 1]) = 0
        /\ Units([i \in Done |-> Ticks(i)]) = 0
    BY <2>1, <2>2
  <2> QED  BY <1>3, <2>1, <2>3 DEF Accounts, Init
<1> QED  BY <1>1, <1>4, <1>5, <1>6, <1>7 DEF Inv

(* A unit in which nobody runs.                                            *)
LEMMA IdleTyped ==
  ASSUME Inv, policy # "FCFS", Idle, ready' \in Seq(Proc), ready_start' = ready_start
  PROVE  /\ TypeOK' /\ Chart' /\ Bursts01' /\ Accounts' /\ Rest' = Rest
         /\ current_time' = current_time + 1 /\ UNCHANGED <<file, remaining>>
         /\ \A i \in Proc : Ticks(i)' = Ticks(i)
<1>1. TypeOK /\ Chart /\ Bursts01 /\ Accounts  BY DEF Inv
<1>2. /\ UNCHANGED <<policy, slice, arrival, job, burst, remaining, start, completed, sums, chart>>
      /\ current_time' = current_time + 1 /\ current_time \in Nat
  BY <1>1 DEF Idle, file, TypeOK
<1>3. Rest' = Rest  BY <1>2 DEF Rest
<1>4. current_time' \in Nat /\ current_time' >= current_time  BY <1>2
<1>5. UNCHANGED <<file, start, completed, sums, chart>>  BY <1>2 DEF file
<1>6. Chart' /\ Accounts' /\ \A i \in Proc : Ticks(i)' = Ticks(i)
  BY <1>1, <1>3, <1>4, <1>5, IdleKeeps
<1>7. TypeOK'  BY <1>1, <1>2, <1>4 DEF TypeOK, chart
<1>8. Bursts01'  BY <1>1, <1>2 DEF Bursts01
<1> QED  BY <1>2, <1>3, <1>5, <1>6, <1>7, <1>8

(* Which steps there are.                                                  *)
ATurn == \E i \in Proc : \E t, d : Turn(i, t, d)
RRIdle(Q) ==
  /\ policy = "RR" /\ Idle /\ ready' = Q /\ UNCHANGED <<ready_start, file>>
  /\ ready_start = Len(Q) + 1
  /\ Grown(Q, ready, ready_start, remaining, current_time, {}, N)

LEMMA FCFSKeeps == ASSUME Inv, FCFS PROVE Inv'
<1>1. TypeOK /\ Chart /\ Bursts01 /\ Accounts  BY DEF Inv
<1>2. policy = "FCFS" /\ policy' = policy  BY DEF FCFS, file
<1>3. TypeOK' /\ Bursts01' /\ ATurn  BY <1>1, FCFSTurn DEF ATurn
<1>4. Chart' /\ Accounts'  BY <1>1, <1>3, TurnChart, TurnAccounts DEF ATurn
<1>5. Queue'  BY <1>2 DEF Queue
<1> QED  BY <1>3, <1>4, <1>5 DEF Inv

LEMMA SJFKeeps == ASSUME Inv, SJF PROVE Inv'
<1>1. TypeOK /\ Chart /\ Bursts01 /\ Accounts /\ ready \in Seq(Proc)  BY DEF Inv, TypeOK
<1>2. policy = "SJF" /\ completed < N /\ ready' = ready /\ ready_start' = ready_start  BY DEF SJF
<1>3. policy' = policy  BY DEF SJF, Idle, file
<1>4. Queue'  BY <1>2, <1>3 DEF Queue
<1>5. CASE Candidates(burst) # {}
  <2>1. PICK i : i = Shortest(burst)  OBVIOUS
  <2>2. /\ start' = [start EXCEPT ![i] = current_time]
        /\ Execute(i, current_time, burst[i])
        /\ Complete(i, current_time - arrival[i], current_time + burst[i])
        /\ burst' = [burst EXCEPT ![i] = 0]
        /\ UNCHANGED <<file, remaining, ready, ready_start>>
    BY <1>5, <2>1 DEF SJF
  <2>3. TypeOK' /\ Bursts01' /\ ATurn  BY <1>1, <1>2, <1>5, <2>1, <2>2, SJFTurn DEF ATurn
  <2>4. Chart' /\ Accounts'  BY <1>1, <2>3, TurnChart, TurnAccounts DEF ATurn
  <2> QED  BY <1>4, <2>3, <2>4 DEF Inv
<1>6. CASE Candidates(burst) = {}
  <2>1. Idle  BY <1>6 DEF SJF
  <2> QED  BY <1>1, <1>2, <1>4, <2>1, IdleTyped DEF Inv
<1> QED  BY <1>5, <1>6

LEMMA SRTFKeeps == ASSUME Inv, SRTF PROVE Inv'
<1>1. TypeOK /\ Chart /\ Bursts01 /\ Accounts /\ ready \in Seq(Proc) /\ ready_start \in Nat \ {0}
      /\ remaining \in [Proc -> Nat]
  BY DEF Inv, TypeOK
<1>2. policy = "SRTF" /\ completed < N /\ ready' = ready /\ ready_start' = ready_start  BY DEF SRTF
<1>3. policy' = policy  BY DEF SRTF, Idle, RunFor, file
<1>4. Queue'  BY <1>2, <1>3 DEF Queue
<1>5. CASE Candidates(remaining) # {}
  <2>1. PICK i : i = Shortest(remaining)  OBVIOUS
  <2>2. RunFor(i, 1)  BY <1>5, <2>1 DEF SRTF
  <2>3. i \in Proc /\ arrival[i] <= current_time /\ remaining[i] > 0  BY <1>1, <1>5, <2>1, ShortestIs
  <2>4. 1 \in Nat /\ 0 < 1 /\ 1 <= remaining[i]  BY <1>1, <2>3
  <2>5. Bursts01' /\ Turn(i, current_time, 1) /\ TypeOK'  BY <1>1, <1>2, <2>2, <2>3, <2>4, RunForTurn
  <2>6. Chart' /\ Accounts'  BY <1>1, <2>3, <2>5, TurnChart, TurnAccounts
  <2> QED  BY <1>4, <2>5, <2>6 DEF Inv
<1>6. CASE Candidates(remaining) = {}
  <2>1. Idle  BY <1>6 DEF SRTF
  <2> QED  BY <1>1, <1>2, <1>4, <2>1, IdleTyped DEF Inv
<1> QED  BY <1>5, <1>6

LEMMA RRSteps ==
  ASSUME Inv, RR
  PROVE  Inv' /\ \E Q : RRIdle(Q) \/ \E i, d, later : RRTurn(i, d, Q, later)
<1>1. TypeOK /\ Chart /\ Bursts01 /\ Accounts /\ Queue  BY DEF Inv
<1>2. PICK Q : Q = Enqueue(ready, remaining, current_time)  OBVIOUS
<1>3. policy = "RR" /\ ready_start \in Nat \ {0} /\ remaining \in [Proc -> Nat] /\ current_time \in Nat
  BY <1>1 DEF RR, TypeOK
<1>4. Grown(Q, ready, ready_start, remaining, current_time, {}, N)
  BY <1>1, <1>2, <1>3, EnqueueGrows DEF Queue
<1>5. GoodQueue(Q, ready_start, remaining, current_time, {}) /\ Len(Q) \in Nat
      /\ Q \in Seq(Proc) /\ ready_start <= Len(Q) + 1
  BY <1>4 DEF Grown, GoodQueue
<1>6. CASE ready_start <= Len(Q)
  <2>1. TypeOK' /\ Bursts01' /\ Queue' /\ \E i, d, later : RRTurn(i, d, Q, later)
    BY <1>1, <1>2, <1>6, RRTurns
  <2>2. Chart' /\ Accounts'  BY <1>1, <2>1, TurnChart, TurnAccounts DEF RRTurn
  <2> QED  BY <2>1, <2>2 DEF Inv
<1>7. CASE ~(ready_start <= Len(Q))
  <2>1. Idle /\ ready' = Q /\ ready_start' = ready_start  BY <1>2, <1>7 DEF RR
  <2>2. /\ TypeOK' /\ Chart' /\ Bursts01' /\ Accounts'
        /\ current_time' = current_time + 1 /\ UNCHANGED <<file, remaining>>
    BY <1>3, <1>5, <2>1, IdleTyped
  <2>3. RRIdle(Q)
    <3>1. ready_start = Len(Q) + 1  BY <1>3, <1>5, <1>7
    <3> QED  BY <1>3, <1>4, <2>1, <2>2, <3>1 DEF RRIdle
  <2>4. Queue'
    <3>2. ASSUME NEW k \in 1 .. Len(Q), remaining[Q[k]] > 0 PROVE FALSE
      <4>1. Q[k] \in LiveIn(Q, ready_start)  BY <1>5, <3>2 DEF GoodQueue
      <4> QED  BY <1>3, <1>5, <1>7, <4>1 DEF LiveIn
    <3> QED  BY <1>3, <1>5, <1>7, <2>1, <2>2, <3>2 DEF Queue, GoodQueue
  <2> QED  BY <2>2, <2>3, <2>4 DEF Inv
<1> QED  BY <1>6, <1>7

LEMMA StepKeeps == Inv /\ [Next]_vars => Inv'
<1> SUFFICES ASSUME Inv, [Next]_vars PROVE Inv'  OBVIOUS
<1>1. CASE FCFS  BY <1>1, FCFSKeeps
<1>2. CASE SJF  BY <1>2, SJFKeeps
<1>3. CASE SRTF  BY <1>3, SRTFKeeps
<1>4. CASE RR  BY <1>4, RRSteps
<1>5. CASE UNCHANGED vars
  <2>1. UNCHANGED <<policy, slice, arrival, job, burst, remaining, start, ready, ready_start,
                    current_time, completed, wait_time, turnaround_time, response_time, busy_time,
                    pc_queue, at>>
    BY <1>5 DEF vars, file, sums, chart
  <2>2. TypeOK' /\ Bursts01'  BY <2>1 DEF Inv, TypeOK, Bursts01
  <2>3. Queue'
    <3>1. Queue  BY DEF Inv
    <3> QED  BY <2>1, <3>1 DEF Queue, GoodQueue, Ready, LiveIn
  <2>4. Rest' = Rest /\ UNCHANGED <<file, start, completed, sums, chart>>
    BY <2>1 DEF Rest, file, sums, chart
  <2>5. current_time' \in Nat /\ current_time' >= current_time  BY <2>1 DEF Inv, TypeOK
  <2>6. Chart' /\ Accounts'  BY <2>4, <2>5, IdleKeeps DEF Inv
  <2> QED  BY <2>2, <2>3, <2>6 DEF Inv
<1> QED  BY <1>1, <1>2, <1>3, <1>4, <1>5 DEF Next

(* What main prints are the sums of its chart, whichever the policy.       *)
THEOREM SumsOfTheChart == Spec => []Accounts
<1>1. Inv => Accounts  BY DEF Inv
<1> QED  BY <1>1, InitHolds, StepKeeps, PTL DEF Spec

---------------------------------------------------------------------------
(* Nobody waits for long under RR.                                         *)

RanIn(i, t, d) == \E u \in t .. t + d : u \in Ticks(i)

(* A process that was ready at t has run since, or is in the queue so near *)
(* to its front that it will have run in time.                             *)
WaitsIn(Q) ==
  \A i \in Proc, t \in 0 .. current_time : i \in ReadyAt(t) =>
    \/ RanIn(i, t, (N - 1) * slice)
    \/ \E p \in ready_start .. Len(Q) :
         Q[p] = i /\ current_time <= t + (N - 1 - (p - ready_start)) * slice

Waits ==
  policy = "RR" =>
    \A Q : Grown(Q, ready, ready_start, remaining, current_time, {}, N) => WaitsIn(Q)

(* What a process has left at a time it is ready at.                       *)
LEMMA LeftKept ==
  ASSUME TypeOK, Chart, NEW j \in Proc, NEW t \in Nat, NEW x \in Nat, NEW T,
         T = Ticks(j) \/ (T = Ticks(j) \cup (current_time .. x)), t <= current_time
  PROVE  {u \in T : u < t} = {u \in Ticks(j) : u < t}
<1>1. \A u \in current_time .. x : ~(u < t)  BY DEF TypeOK
<1> QED  BY <1>1

LEMMA LeftAfter ==
  ASSUME TypeOK, Chart, NEW j \in Proc, NEW t \in Nat, t >= current_time
  PROVE  {u \in Ticks(j) : u < t} = Ticks(j) /\ job[j] - Cardinality(Ticks(j)) = Rest[j]
<1>1. \A u \in Ticks(j) : u \in Nat /\ u < current_time /\ current_time \in Nat
  BY TickFacts
<1>2. \A u \in Ticks(j) : u < t  BY <1>1
<1>3. {u \in Ticks(j) : u < t} = Ticks(j)  BY <1>2
<1> QED  BY <1>3, TickFacts

LEMMA Times ==
  ASSUME NEW s \in Nat, NEW a \in Nat, NEW b \in Nat, a <= b
  PROVE  a * s \in Nat /\ b * s \in Nat /\ a * s <= b * s /\ (a + 1) * s = a * s + s
OBVIOUS

LEMMA InitWaits == ASSUME Init PROVE Waits
<1> SUFFICES ASSUME policy = "RR", NEW Q,
                    Grown(Q, ready, ready_start, remaining, current_time, {}, N),
                    NEW i \in Proc, NEW t \in 0 .. current_time, i \in ReadyAt(t)
             PROVE  \E p \in ready_start .. Len(Q) :
                      Q[p] = i /\ current_time <= t + (N - 1 - (p - ready_start)) * slice
  BY DEF Waits, WaitsIn
<1>1. TypeOK  BY InitHolds DEF Inv
<1>2. t = 0 /\ current_time = 0 /\ ready_start = 1 /\ at = <<>> /\ remaining = job  BY DEF Init
<1>3. arrival[i] <= 0  BY <1>2 DEF ReadyAt
<1>4. Ready(i, remaining, current_time) /\ i < N /\ ready_start \in Nat \ {0} /\ N \in Nat
  BY <1>1, <1>2, <1>3, ProcIs, SMTT(30) DEF Ready, Proc, TypeOK
<1>5. i \in LiveIn(Q, ready_start)  BY <1>4 DEF Grown
<1>6. PICK p \in ready_start .. Len(Q) : Q[p] = i  BY <1>5 DEF LiveIn
<1>7. GoodQueue(Q, ready_start, remaining, current_time, {})  BY DEF Grown
<1>8. p - ready_start <= N - 1 /\ p \in Nat /\ p >= ready_start
  <2>1. p - ready_start <= N - 1  BY <1>4, <1>7, NotMany
  <2>2. Len(Q) \in Nat  BY <1>7 DEF GoodQueue
  <2> QED  BY <1>4, <2>1, <2>2
<1>9. PICK a \in Nat : a = N - 1 - (p - ready_start)  BY <1>4, <1>8
<1>10. slice \in Nat  BY <1>1 DEF TypeOK
<1>11. a * slice \in Nat  BY <1>10, Times
<1>12. current_time <= t + a * slice  BY <1>2, <1>11
<1> QED  BY <1>6, <1>9, <1>12

LEMMA TurnWaits ==
  ASSUME Inv, Waits, NEW i, NEW d, NEW Q, NEW later, RRTurn(i, d, Q, later)
  PROVE  Waits'
<1>1. TypeOK /\ Chart /\ N \in Nat \ {0}  BY ProcIs DEF Inv
<1>2. /\ i \in Proc /\ d \in Nat /\ 0 < d /\ d <= slice /\ Turn(i, current_time, d)
      /\ Grown(Q, ready, ready_start, remaining, current_time, {}, N)
      /\ ready_start <= Len(Q) /\ Q[ready_start] = i
      /\ current_time' = current_time + d /\ ready_start' = ready_start + 1
      /\ remaining' = [remaining EXCEPT ![i] = @ - d]
      /\ ready' = IF remaining'[i] = 0 THEN later ELSE Append(later, i)
      /\ UNCHANGED <<policy, slice, arrival, job>> /\ policy = "RR"
  BY DEF RRTurn, Turn, file
<1>3. PICK c, s, c1, s1 : c = current_time /\ s = ready_start /\ c1 = current_time' /\ s1 = ready_start'
  OBVIOUS
<1>4. /\ c \in Nat /\ s \in Nat \ {0} /\ slice \in Nat \ {0} /\ c1 = c + d /\ s1 = s + 1
      /\ c1 \in Nat /\ s1 \in Nat \ {0}
  BY <1>1, <1>2, <1>3 DEF TypeOK
<1>5. Grown(later, Q, s1, remaining', c1, {i}, N) /\ GoodQueue(ready', s1, remaining', c1, {})
  BY <1>2, <1>3 DEF RRTurn
<1>6. /\ Len(Q) \in Nat /\ Len(later) \in Nat /\ later \in Seq(Proc)
      /\ Len(Q) <= Len(later) /\ \A k \in 1 .. Len(Q) : later[k] = Q[k]
      /\ \A j \in Proc : j < N /\ Ready(j, remaining', c1) /\ j # i => j \in LiveIn(later, s1)
      /\ GoodQueue(later, s1, remaining', c1, {i})
  <2>1. Q \in Seq(Proc)  BY <1>2 DEF Grown, GoodQueue
  <2>2. /\ Len(Q) <= Len(later) /\ \A k \in 1 .. Len(Q) : later[k] = Q[k]
        /\ \A j \in Proc : j < N /\ Ready(j, remaining', c1) /\ j \notin {i} => j \in LiveIn(later, s1)
        /\ GoodQueue(later, s1, remaining', c1, {i})
    BY <1>5 DEF Grown
  <2>3. later \in Seq(Proc)  BY <2>2 DEF GoodQueue
  <2> QED  BY <2>1, <2>2, <2>3
<1>7. \A k \in 1 .. Len(later) : ready'[k] = later[k]  BY <1>2, <1>6
<1>8. Len(ready') \in Nat /\ Len(later) <= Len(ready')  BY <1>2, <1>6
<1>9. \A j \in Proc : Ticks(j)' = IF j = i THEN Ticks(j) \cup (c .. c + d - 1) ELSE Ticks(j)
  BY <1>1, <1>2, <1>3, TurnChart
<1>10. \A j \in Proc : j < N /\ j \in Nat  BY ProcIs DEF Proc
<1> SUFFICES ASSUME NEW R, Grown(R, ready, ready_start, remaining, current_time, {}, N)',
                    NEW j \in Proc, NEW t \in 0 .. c1, (j \in ReadyAt(t))'
             PROVE  \/ \E u \in t .. t + (N - 1) * slice : u \in Ticks(j)'
                    \/ \E p \in s1 .. Len(R) :
                         R[p] = j /\ c1 <= t + (N - 1 - (p - s1)) * slice
  BY <1>2, <1>3 DEF Waits, WaitsIn, RanIn
<1>11. Len(ready') <= Len(R) /\ \A k \in 1 .. Len(ready') : R[k] = ready'[k]  BY DEF Grown
<1>12. Len(R) \in Nat
  <2>1. R \in Seq(Proc)  BY DEF Grown, GoodQueue
  <2> QED  BY <2>1
<1>13. t \in Nat /\ t <= c1  BY <1>4
<1>14. (N - 1) * slice \in Nat  BY <1>1, <1>4, Times
<1>15. PICK T : T = Ticks(j)'  OBVIOUS
<1>16. arrival[j] <= t /\ job[j] - Cardinality({u \in T : u < t}) > 0
  BY <1>2, <1>15 DEF ReadyAt, Left
<1>17. Ticks(j) \subseteq T /\ (j = i => \A u \in c .. c + d - 1 : u \in T)  BY <1>9, <1>15
<1>18. CASE t <= c
  <2>1. {u \in T : u < t} = {u \in Ticks(j) : u < t}
    <3>1. PICK x \in Nat : x = c + d - 1  BY <1>2, <1>4
    <3>2. T = Ticks(j) \/ T = Ticks(j) \cup (current_time .. x)  BY <1>3, <1>9, <1>15, <3>1
    <3> QED  BY <1>1, <1>3, <1>13, <1>18, <3>2, LeftKept
  <2>2. t \in 0 .. current_time /\ j \in ReadyAt(t)
    <3>1. Left(j, t) = job[j] - Cardinality({u \in T : u < t})  BY <2>1, Zenon DEF Left
    <3> QED  BY <1>3, <1>4, <1>13, <1>16, <1>18, <3>1 DEF ReadyAt
  <2>3. WaitsIn(Q)  BY <1>2 DEF Waits
  <2>4. CASE RanIn(j, t, (N - 1) * slice)  BY <1>15, <1>17, <2>4 DEF RanIn
  <2>5. CASE \E p \in s .. Len(Q) : Q[p] = j /\ c <= t + (N - 1 - (p - s)) * slice
    <3>1. PICK p \in s .. Len(Q) : Q[p] = j /\ c <= t + (N - 1 - (p - s)) * slice  BY <2>5
    <3>2. p \in Nat /\ p - s <= N - 1 /\ p >= s
      <4>1. GoodQueue(Q, s, remaining, c, {})  BY <1>2, <1>3 DEF Grown
      <4>2. p - s <= N - 1  BY <1>4, <4>1, NotMany
      <4> QED  BY <1>4, <1>6, <4>2
    <3>3. PICK a \in Nat : a = N - 1 - (p - s)  BY <1>1, <1>4, <3>2
    <3>4. c <= t + a * slice /\ a * slice \in Nat  BY <1>4, <3>1, <3>3, Times
    <3>5. CASE p = s
      <4>1. j = i  BY <1>2, <1>3, <3>1, <3>5
      <4>2. c \in T  BY <1>2, <1>4, <1>17, <4>1
      <4>3. a = N - 1  BY <1>1, <1>4, <3>3, <3>5
      <4>4. c \in t .. t + (N - 1) * slice  BY <1>4, <1>13, <1>18, <3>4, <4>3
      <4> QED  BY <1>15, <4>2, <4>4
    <3>6. CASE p # s
      <4>1. p \in s1 .. Len(R) /\ p \in 1 .. Len(Q) /\ p \in 1 .. Len(later) /\ p \in 1 .. Len(ready')
        BY <1>4, <1>6, <1>8, <1>11, <1>12, <3>2, <3>6
      <4>2. R[p] = j  BY <1>6, <1>7, <1>11, <3>1, <4>1
      <4>3. (a + 1) * slice = a * slice + slice  BY <1>4, Times
      <4>4. a + 1 = N - 1 - (p - s1)  BY <1>1, <1>4, <3>2, <3>3
      <4>5. c1 <= t + (a + 1) * slice  BY <1>2, <1>4, <1>13, <3>4, <4>3
      <4> QED  BY <4>1, <4>2, <4>4, <4>5
    <3> QED  BY <3>5, <3>6
  <2> QED  BY <1>3, <2>2, <2>3, <2>4, <2>5 DEF WaitsIn
<1>19. CASE ~(t <= c) /\ j # i
  <2>1. T = Ticks(j)  BY <1>9, <1>15, <1>19
  <2>2. t >= current_time  BY <1>3, <1>4, <1>13, <1>19
  <2>3. Rest[j] > 0  BY <1>1, <1>13, <1>16, <2>1, <2>2, LeftAfter
  <2>4. Rest[j] = remaining[j] /\ remaining'[j] = remaining[j]
    BY <1>1, <1>2, <1>19 DEF Rest, TypeOK
  <2>5. Ready(j, remaining', c1)
    <3>1. arrival[j] \in Nat  BY <1>1 DEF TypeOK
    <3>2. arrival[j] <= c1  BY <1>4, <1>13, <1>16, <3>1
    <3> QED  BY <2>3, <2>4, <3>2 DEF Ready
  <2>6. PICK p \in s1 .. Len(later) : later[p] = j  BY <1>6, <1>10, <1>19, <2>5 DEF LiveIn
  <2>7. p - s1 < N - 1 /\ p \in Nat /\ p >= s1
    <3>1. {i} \in SUBSET Proc /\ {i} # {}  BY <1>2
    <3>2. p - s1 < N - 1  BY <1>4, <1>6, <3>1, NotMany
    <3> QED  BY <1>4, <1>6, <3>2
  <2>8. PICK a \in Nat : a + 1 = N - 1 - (p - s1)
    <3>1. N - 1 - (p - s1) - 1 \in Nat  BY <1>1, <1>4, <2>7
    <3>2. PICK a \in Nat : a = N - 1 - (p - s1) - 1  BY <3>1
    <3> QED  BY <1>1, <1>4, <2>7, <3>2
  <2>9. a * slice \in Nat /\ (a + 1) * slice = a * slice + slice  BY <1>4, Times
  <2>10. c1 <= t + (a + 1) * slice  BY <1>2, <1>4, <1>13, <1>19, <2>9
  <2>11. p \in 1 .. Len(later) /\ p \in 1 .. Len(ready') /\ p \in s1 .. Len(R)
    BY <1>4, <1>6, <1>8, <1>11, <1>12, <2>7
  <2>12. R[p] = j  BY <1>7, <1>11, <2>6, <2>11
  <2> QED  BY <2>8, <2>10, <2>11, <2>12
<1>20. CASE ~(t <= c) /\ j = i /\ t < c1
  <2>1. t \in T
    <3>1. t \in c .. c + d - 1  BY <1>2, <1>4, <1>13, <1>20
    <3> QED  BY <1>17, <1>20, <3>1
  <2>2. t \in t .. t + (N - 1) * slice  BY <1>13, <1>14
  <2> QED  BY <1>15, <2>1, <2>2
<1>21. CASE j = i /\ t = c1
  <2>1. remaining'[i] # 0
    <3>1. Left(i, current_time)' = Rest'[i]  BY <1>1, <1>2, TurnDone
    <3>2. Left(i, current_time)' > 0  BY <1>2, <1>3, <1>15, <1>16, <1>21 DEF Left
    <3>3. Rest'[i] = remaining'[i]  BY <1>2 DEF Rest
    <3> QED  BY <3>1, <3>2, <3>3
  <2>2. PICK p \in Nat : p = Len(later) + 1  BY <1>6
  <2>3. p = Len(ready') /\ ready'[p] = i  BY <1>2, <1>6, <2>1, <2>2
  <2>4. p >= s1  BY <1>4, <1>6, <2>2 DEF GoodQueue
  <2>5. p - s1 <= N - 1
    <3>1. p \in s1 .. Len(ready')  BY <1>4, <2>3, <2>4
    <3>2. {} \in SUBSET Proc  OBVIOUS
    <3> QED  BY <1>4, <1>5, <3>1, <3>2, NotMany
  <2>6. PICK a \in Nat : a = N - 1 - (p - s1)  BY <1>1, <1>4, <2>4, <2>5
  <2>7. a * slice \in Nat  BY <1>4, Times
  <2>8. c1 <= t + a * slice  BY <1>4, <1>21, <2>7
  <2>9. p \in s1 .. Len(R) /\ p \in 1 .. Len(ready')  BY <1>4, <1>11, <1>12, <2>2, <2>3, <2>4
  <2>10. R[p] = j  BY <1>11, <1>21, <2>3, <2>9
  <2> QED  BY <2>6, <2>8, <2>9, <2>10
<1> QED  BY <1>4, <1>13, <1>18, <1>19, <1>20, <1>21

LEMMA IdleWaits ==
  ASSUME Inv, Waits, NEW Q, RRIdle(Q)
  PROVE  Waits'
<1>1. TypeOK /\ Chart /\ N \in Nat \ {0}  BY ProcIs DEF Inv
<1>2. /\ policy = "RR" /\ Idle /\ ready' = Q /\ ready_start' = ready_start
      /\ ready_start = Len(Q) + 1
      /\ UNCHANGED <<policy, slice, arrival, job>>
      /\ Grown(Q, ready, ready_start, remaining, current_time, {}, N)
  BY DEF RRIdle, file
<1>3. PICK c, s : c = current_time /\ s = ready_start  OBVIOUS
<1>4. c \in Nat /\ s \in Nat \ {0} /\ slice \in Nat \ {0}  BY <1>1, <1>2, <1>3 DEF TypeOK
<1>5. Q \in Seq(Proc)  BY <1>2 DEF Grown, GoodQueue
<1>6. /\ current_time' = c + 1 /\ UNCHANGED <<remaining>>
      /\ \A j \in Proc : Ticks(j)' = Ticks(j)
  BY <1>2, <1>3, <1>5, IdleTyped
<1>7. \A j \in Proc : j < N /\ j \in Nat  BY ProcIs DEF Proc
<1> SUFFICES ASSUME NEW R, Grown(R, ready, ready_start, remaining, current_time, {}, N)',
                    NEW j \in Proc, NEW t \in 0 .. c + 1, (j \in ReadyAt(t))'
             PROVE  \/ \E u \in t .. t + (N - 1) * slice : u \in Ticks(j)'
                    \/ \E p \in s .. Len(R) :
                         R[p] = j /\ c + 1 <= t + (N - 1 - (p - s)) * slice
  BY <1>2, <1>3, <1>6 DEF Waits, WaitsIn, RanIn
<1>8. t \in Nat /\ t <= c + 1  BY <1>4
<1>9. PICK T : T = Ticks(j)'  OBVIOUS
<1>10. T = Ticks(j) /\ arrival[j] <= t /\ job[j] - Cardinality({u \in T : u < t}) > 0
  BY <1>2, <1>6, <1>9 DEF ReadyAt, Left
<1>11. CASE t <= c
  <2>1. t \in 0 .. current_time /\ j \in ReadyAt(t)
    BY <1>3, <1>4, <1>8, <1>10, <1>11 DEF ReadyAt, Left
  <2>2. WaitsIn(Q)  BY <1>2 DEF Waits
  <2>3. ~(\E p \in ready_start .. Len(Q) : TRUE)
    <3>1. Len(Q) \in Nat  BY <1>5
    <3> QED  BY <1>2, <3>1
  <2>4. RanIn(j, t, (N - 1) * slice)  BY <2>1, <2>2, <2>3 DEF WaitsIn
  <2> QED  BY <1>9, <1>10, <2>4 DEF RanIn
<1>12. CASE t = c + 1
  <2>1. t >= current_time  BY <1>3, <1>4, <1>12
  <2>2. Rest[j] > 0  BY <1>1, <1>8, <1>10, <2>1, LeftAfter
  <2>3. Rest[j] = remaining[j]  BY <1>1, <1>2 DEF Rest, TypeOK
  <2>4. /\ GoodQueue(R, ready_start, remaining, current_time, {})'
        /\ \A k \in Proc : k < N /\ arrival'[k] <= current_time' /\ remaining'[k] > 0 /\ k \notin {}
             => k \in LiveIn(R, ready_start)'
    BY DEF Grown, Ready
  <2>5. arrival'[j] <= current_time' /\ remaining'[j] > 0  BY <1>2, <1>6, <1>10, <1>12, <2>2, <2>3
  <2>6. j \in LiveIn(R, ready_start)'  BY <1>7, <2>4, <2>5
  <2>7. PICK p \in s .. Len(R) : R[p] = j  BY <1>2, <1>3, <2>6 DEF LiveIn
  <2>8. GoodQueue(R, s, remaining, c + 1, {})
    BY <1>2, <1>3, <1>6, <2>4 DEF GoodQueue, Ready, LiveIn
  <2>9. p - s <= N - 1 /\ p \in Nat /\ p >= s
    <3>1. {} \in SUBSET Proc  OBVIOUS
    <3>2. p - s <= N - 1  BY <1>4, <2>8, <3>1, NotMany
    <3>3. Len(R) \in Nat  BY <2>8 DEF GoodQueue
    <3> QED  BY <1>4, <3>2, <3>3
  <2>10. PICK a \in Nat : a = N - 1 - (p - s)  BY <1>1, <1>4, <2>9
  <2>11. a * slice \in Nat  BY <1>4, Times
  <2>12. c + 1 <= t + a * slice  BY <1>4, <1>12, <2>11
  <2> QED  BY <2>7, <2>10, <2>12
<1> QED  BY <1>4, <1>8, <1>11, <1>12

LEMMA StepWaits == ASSUME Inv, Waits, [Next]_vars PROVE Waits'
<1>1. CASE RR  BY <1>1, RRSteps, TurnWaits, IdleWaits
<1>2. CASE FCFS  BY <1>2 DEF FCFS, Waits, file
<1>3. CASE SJF  BY <1>3 DEF SJF, Idle, Waits, file
<1>4. CASE SRTF  BY <1>4 DEF SRTF, RunFor, Idle, Waits, file
<1>5. CASE UNCHANGED vars
  <2>1. UNCHANGED <<policy, slice, arrival, job, remaining, ready, ready_start, current_time,
                    pc_queue, at>>
    BY <1>5 DEF vars, file, chart
  <2>2. \A i : Ticks(i)' = Ticks(i)  BY <2>1 DEF Ticks
  <2>3. \A i, t : Left(i, t)' = Left(i, t)  BY <2>1, <2>2, Zenon DEF Left
  <2>4. \A t : ReadyAt(t)' = ReadyAt(t)  BY <2>1, <2>3, Zenon DEF ReadyAt
  <2>5. ASSUME NEW Q, Grown(Q, ready, ready_start, remaining, current_time, {}, N)'
        PROVE  Grown(Q, ready, ready_start, remaining, current_time, {}, N)
    BY <2>1, <2>5 DEF Grown, GoodQueue, Ready, LiveIn
  <2>6. ASSUME NEW Q, WaitsIn(Q) PROVE WaitsIn(Q)'
    <3>1. \A i, t, d : RanIn(i, t, d)' <=> RanIn(i, t, d)  BY <2>2 DEF RanIn
    <3> QED  BY <2>1, <2>4, <2>6, <3>1 DEF WaitsIn
  <2> QED  BY <2>1, <2>5, <2>6 DEF Waits
<1> QED  BY <1>1, <1>2, <1>3, <1>4, <1>5 DEF Next

LEMMA WaitsBound == ASSUME Inv, Waits PROVE BoundedWait
<1> SUFFICES ASSUME policy = "RR", NEW i \in Proc, NEW t \in 0 .. current_time,
                    t + (N - 1) * slice < current_time, i \in ReadyAt(t)
             PROVE  \E u \in t .. t + (N - 1) * slice : u \in Ticks(i)
  BY DEF BoundedWait
<1>1. TypeOK /\ Queue  BY DEF Inv
<1>2. PICK Q : Q = Enqueue(ready, remaining, current_time)  OBVIOUS
<1>3. ready_start \in Nat \ {0} /\ remaining \in [Proc -> Nat] /\ current_time \in Nat
      /\ slice \in Nat /\ N \in Nat \ {0}
  BY <1>1, ProcIs DEF TypeOK
<1>4. Grown(Q, ready, ready_start, remaining, current_time, {}, N)
  BY <1>1, <1>2, <1>3, EnqueueGrows DEF Queue
<1>5. WaitsIn(Q)  BY <1>4 DEF Waits
<1>6. ASSUME NEW p \in ready_start .. Len(Q),
             current_time <= t + (N - 1 - (p - ready_start)) * slice
      PROVE  FALSE
  <2>1. GoodQueue(Q, ready_start, remaining, current_time, {}) /\ {} \in SUBSET Proc
    BY <1>4 DEF Grown
  <2>2. p - ready_start <= N - 1  BY <1>3, <2>1, NotMany
  <2>3. Len(Q) \in Nat  BY <2>1 DEF GoodQueue
  <2>4. PICK a \in Nat, b \in Nat : a = N - 1 - (p - ready_start) /\ b = N - 1 /\ a <= b
    BY <1>3, <2>2, <2>3
  <2>5. a * slice \in Nat /\ b * slice \in Nat /\ a * slice <= b * slice  BY <1>3, <2>4, Times
  <2>6. current_time <= t + a * slice /\ t + b * slice < current_time  BY <1>6, <2>4
  <2> QED  BY <1>3, <2>5, <2>6
<1> QED  BY <1>5, <1>6 DEF WaitsIn, RanIn

(* Under RR whoever is ready runs again within one slice of each other     *)
(* process: its place in the queue says how long it still has to wait.     *)
THEOREM RRWaits == Spec => []BoundedWait
<1>1. Init => Inv /\ Waits  BY InitHolds, InitWaits
<1>2. Inv /\ Waits /\ [Next]_vars => (Inv /\ Waits)'  BY StepKeeps, StepWaits
<1>3. Inv /\ Waits => BoundedWait  BY WaitsBound
<1> QED  BY <1>1, <1>2, <1>3, PTL DEF Spec

---------------------------------------------------------------------------
(* The best schedule: who is there, by the arrivals and the work left.     *)

There(arr, t, left) == {i \in Proc : arr[i] <= t /\ left[i] > 0}
Less(left, i) == [left EXCEPT ![i] = @ - 1]
Cost(next, arr, t, end, left) ==
  IF t = end THEN 0
  ELSE IF There(arr, t, left) = {} THEN next[left]
  ELSE Cardinality(There(arr, t, left)) + Min({next[Less(left, i)] : i \in There(arr, t, left)})
BestFrom(L, k, arr, end) ==
  L = [t \in k .. end |-> [left \in [Proc -> Nat] |-> Cost(L[t + 1], arr, t, end, left)]]
BestOf(arr, end) == CHOOSE L : BestFrom(L, 0, arr, end)

LEMMA BestIs == ASSUME NEW end PROVE Best(end) = BestOf(arrival, end)[0][job]
BY DEF Best, BestOf, BestFrom, Cost, There, Less

LEMMA BestExists ==
  ASSUME NEW arr, NEW end \in Nat
  PROVE  BestFrom(BestOf(arr, end), 0, arr, end)
<1> DEFINE G == {k \in 0 .. end : \E L : BestFrom(L, k, arr, end)}
<1>1. end \in G
  <2> DEFINE L == [t \in end .. end |-> [left \in [Proc -> Nat] |-> 0]]
  <2>1. \A t \in end .. end, left \in [Proc -> Nat] : Cost(L[t + 1], arr, t, end, left) = 0
    BY DEF Cost
  <2>2. BestFrom(L, end, arr, end)  BY <2>1 DEF BestFrom
  <2> QED  BY <2>2
<1>2. ASSUME NEW k \in 0 .. end - 1, k + 1 \in G PROVE k \in G
  <2>1. PICK K : BestFrom(K, k + 1, arr, end)  BY <1>2
  <2> DEFINE L == [t \in k .. end |->
                     IF t = k THEN [left \in [Proc -> Nat] |-> Cost(K[k + 1], arr, k, end, left)]
                     ELSE K[t]]
  <2>2. ASSUME NEW t \in k + 1 .. end
        PROVE  L[t] = K[t] /\ K[t] = [left \in [Proc -> Nat] |-> Cost(K[t + 1], arr, t, end, left)]
    <3>1. t \in k .. end /\ t # k  OBVIOUS
    <3>2. L[t] = K[t]  BY <3>1
    <3>3. K = [m \in k + 1 .. end |-> [left \in [Proc -> Nat] |-> Cost(K[m + 1], arr, m, end, left)]]
      BY <2>1 DEF BestFrom
    <3>4. K[t] = [left \in [Proc -> Nat] |-> Cost(K[t + 1], arr, t, end, left)]
      BY <3>3, Zenon
    <3> QED  BY <3>2, <3>4
  <2>3. L[k] = [left \in [Proc -> Nat] |-> Cost(L[k + 1], arr, k, end, left)]
    <3>1. k \in k .. end /\ k + 1 \in k + 1 .. end  OBVIOUS
    <3>2. L[k + 1] = K[k + 1]  BY <2>2, <3>1
    <3>3. L[k] = [left \in [Proc -> Nat] |-> Cost(K[k + 1], arr, k, end, left)]  BY <3>1
    <3> HIDE DEF L
    <3> QED  BY <3>2, <3>3
  <2>4. ASSUME NEW t \in k + 1 .. end
        PROVE  L[t] = [left \in [Proc -> Nat] |-> Cost(L[t + 1], arr, t, end, left)]
    <3>1. CASE t = end
      <4>1. \A left \in [Proc -> Nat] :
              Cost(K[t + 1], arr, t, end, left) = 0 /\ Cost(L[t + 1], arr, t, end, left) = 0
        BY <3>1 DEF Cost
      <4> HIDE DEF L
      <4>2. [left \in [Proc -> Nat] |-> Cost(K[t + 1], arr, t, end, left)]
              = [left \in [Proc -> Nat] |-> Cost(L[t + 1], arr, t, end, left)]
        BY <4>1
      <4> QED  BY <2>2, <4>2
    <3>2. CASE t # end
      <4>1. t + 1 \in k + 1 .. end  BY <2>4, <3>2
      <4>2. L[t + 1] = K[t + 1]  BY <2>2, <4>1
      <4> HIDE DEF L
      <4> QED  BY <2>2, <2>4, <4>2
    <3> QED  BY <3>1, <3>2
  <2>5. \A t \in k .. end : L[t] = [left \in [Proc -> Nat] |-> Cost(L[t + 1], arr, t, end, left)]
    <3>1. \A t \in k .. end : t = k \/ t \in k + 1 .. end  OBVIOUS
    <3> HIDE DEF L
    <3> QED  BY <2>3, <2>4, <3>1
  <2>6. BestFrom(L, k, arr, end)
    <3>1. L = [t \in k .. end |-> L[t]]  OBVIOUS
    <3> HIDE DEF L
    <3> QED  BY <2>5, <3>1 DEF BestFrom
  <2>7. k \in 0 .. end  OBVIOUS
  <2> HIDE DEF L
  <2> QED  BY <2>6, <2>7
<1>3. 0 \in G
  <2>1. 0 \in 0 .. end  OBVIOUS
  <2> HIDE DEF G
  <2> QED  BY <1>1, <1>2, <2>1, Backward
<1> QED  BY <1>3 DEF BestOf

LEMMA BestStep ==
  ASSUME NEW arr, NEW end \in Nat, NEW t \in 0 .. end, NEW left \in [Proc -> Nat]
  PROVE  BestOf(arr, end)[t][left] = Cost(BestOf(arr, end)[t + 1], arr, t, end, left)
<1>1. PICK L : L = BestOf(arr, end)  OBVIOUS
<1>2. L = [k \in 0 .. end |-> [l \in [Proc -> Nat] |-> Cost(L[k + 1], arr, k, end, l)]]
  <2>1. BestFrom(L, 0, arr, end)  BY <1>1, BestExists
  <2> QED  BY <2>1, Zenon DEF BestFrom
<1>3. L[t] = [l \in [Proc -> Nat] |-> Cost(L[t + 1], arr, t, end, l)]  BY <1>2, Zenon
<1>4. L[t][left] = Cost(L[t + 1], arr, t, end, left)  BY <1>3, Zenon
<1> QED  BY <1>1, <1>4

LEMMA ThereFacts ==
  ASSUME NEW arr, NEW t, NEW left \in [Proc -> Nat]
  PROVE  /\ IsFiniteSet(There(arr, t, left)) /\ Cardinality(There(arr, t, left)) \in Nat
         /\ \A i \in There(arr, t, left) :
              /\ i \in Proc /\ Less(left, i) \in [Proc -> Nat] /\ Less(left, i)[i] = left[i] - 1
              /\ \A j \in Proc : j # i => Less(left, i)[j] = left[j]
<1>1. There(arr, t, left) \subseteq Proc  BY DEF There
<1>2. IsFiniteSet(There(arr, t, left))  BY <1>1, ProcIs, FS_Subset
<1>3. Cardinality(There(arr, t, left)) \in Nat  BY <1>2, FS_CardinalityType
<1>4. ASSUME NEW i \in There(arr, t, left)
      PROVE  /\ i \in Proc /\ Less(left, i) \in [Proc -> Nat] /\ Less(left, i)[i] = left[i] - 1
             /\ \A j \in Proc : j # i => Less(left, i)[j] = left[j]
  <2>1. i \in Proc /\ left[i] \in Nat /\ left[i] > 0  BY DEF There
  <2>2. left[i] - 1 \in Nat  BY <2>1
  <2> QED  BY <2>1, <2>2 DEF Less
<1> QED  BY <1>2, <1>3, <1>4

(* The least value of what comes next, over who may run.                   *)
LEMMA LeastNext ==
  ASSUME NEW arr, NEW t, NEW left \in [Proc -> Nat], There(arr, t, left) # {},
         NEW next, \A l \in [Proc -> Nat] : next[l] \in Nat
  PROVE  \E k \in There(arr, t, left) :
           /\ Min({next[Less(left, i)] : i \in There(arr, t, left)}) = next[Less(left, k)]
           /\ \A i \in There(arr, t, left) : next[Less(left, k)] <= next[Less(left, i)]
<1> DEFINE V == {next[Less(left, i)] : i \in There(arr, t, left)}
<1>1. V \in SUBSET Nat /\ V # {}  BY ThereFacts
<1>2. Min(V) \in V /\ \A v \in V : Min(V) <= v
  <2> HIDE DEF V
  <2> QED  BY <1>1, MinIs
<1>3. PICK k \in There(arr, t, left) : Min(V) = next[Less(left, k)]  BY <1>2
<1>4. \A i \in There(arr, t, left) : next[Less(left, k)] <= next[Less(left, i)]  BY <1>2, <1>3
<1> QED  BY <1>3, <1>4

LEMMA BestTyped ==
  ASSUME NEW arr, NEW end \in Nat
  PROVE  \A t \in 0 .. end : \A left \in [Proc -> Nat] : BestOf(arr, end)[t][left] \in Nat
<1> DEFINE G == {t \in 0 .. end : \A left \in [Proc -> Nat] : BestOf(arr, end)[t][left] \in Nat}
<1>1. end \in G
  <2>1. end \in 0 .. end  OBVIOUS
  <2>2. \A left \in [Proc -> Nat] : BestOf(arr, end)[end][left] = 0  BY <2>1, BestStep DEF Cost
  <2> QED  BY <2>1, <2>2
<1>2. ASSUME NEW t \in 0 .. end - 1, t + 1 \in G PROVE t \in G
  <2>1. t \in 0 .. end /\ t # end  OBVIOUS
  <2>2. PICK next : next = BestOf(arr, end)[t + 1]  OBVIOUS
  <2>3. \A left \in [Proc -> Nat] : next[left] \in Nat  BY <1>2, <2>2
  <2>4. ASSUME NEW left \in [Proc -> Nat] PROVE BestOf(arr, end)[t][left] \in Nat
    <3>1. BestOf(arr, end)[t][left] = Cost(next, arr, t, end, left)  BY <2>1, <2>2, BestStep
    <3>2. CASE There(arr, t, left) = {}  BY <2>1, <2>3, <3>1, <3>2 DEF Cost
    <3>3. CASE There(arr, t, left) # {}
      <4>1. Min({next[Less(left, i)] : i \in There(arr, t, left)}) \in Nat
        BY <2>3, <3>3, LeastNext, ThereFacts
      <4>2. Cardinality(There(arr, t, left)) \in Nat  BY ThereFacts
      <4> QED  BY <2>1, <3>1, <3>3, <4>1, <4>2 DEF Cost
    <3> QED  BY <3>2, <3>3
  <2> QED  BY <2>1, <2>4
<1>3. \A t \in 0 .. end : t \in G
  <2> HIDE DEF G
  <2> QED  BY <1>1, <1>2, Backward
<1> QED  BY <1>3

(* Processes a and b need the same together in L as in R, and a needs less *)
(* in L than either of them in R.                                          *)
Uneven(L, R, a, b) ==
  /\ L \in [Proc -> Nat] /\ R \in [Proc -> Nat]
  /\ \A j \in Proc : j # a /\ j # b => L[j] = R[j]
  /\ L[a] + L[b] = R[a] + R[b] /\ L[a] <= R[a] /\ L[a] <= R[b]

LEMMA FewerThere ==
  ASSUME NEW arr, NEW t, NEW a \in Proc, NEW b \in Proc, a # b, arr[a] <= t, arr[b] <= t,
         NEW L, NEW R, Uneven(L, R, a, b)
  PROVE  /\ Cardinality(There(arr, t, L)) <= Cardinality(There(arr, t, R))
         /\ There(arr, t, L) = {} => There(arr, t, R) = {}
<1>1. /\ L \in [Proc -> Nat] /\ R \in [Proc -> Nat]
      /\ \A j \in Proc : j # a /\ j # b => L[j] = R[j]
      /\ L[a] + L[b] = R[a] + R[b] /\ L[a] <= R[a] /\ L[a] <= R[b]
      /\ L[a] \in Nat /\ L[b] \in Nat /\ R[a] \in Nat /\ R[b] \in Nat
  BY DEF Uneven
<1> DEFINE S == There(arr, t, L)
           T == There(arr, t, R)
<1>2. IsFiniteSet(S) /\ IsFiniteSet(T) /\ Cardinality(S) \in Nat /\ Cardinality(T) \in Nat
  BY <1>1, ThereFacts
<1>3. \A j \in Proc : j # a /\ j # b => (j \in S <=> j \in T)  BY <1>1 DEF There
<1>4. /\ (a \in S <=> L[a] > 0) /\ (b \in S <=> L[b] > 0)
      /\ (a \in T <=> R[a] > 0) /\ (b \in T <=> R[b] > 0)
  BY DEF There
<1>5. S \subseteq Proc /\ T \subseteq Proc  BY DEF There
<1> HIDE DEF S, T
<1>6. (a \in S \/ b \in S) <=> (a \in T \/ b \in T)  BY <1>1, <1>4
<1>7. S = {} => T = {}  BY <1>3, <1>5, <1>6
<1>8. Cardinality(S) <= Cardinality(T)
  <2>1. ASSUME S \subseteq T PROVE Cardinality(S) <= Cardinality(T)  BY <1>2, <2>1, FS_Subset
  <2>2. CASE L[a] > 0 \/ L[b] = 0 \/ R[b] > 0
    <3>1. (a \in S => a \in T) /\ (b \in S => b \in T)  BY <1>1, <1>4, <2>2
    <3>2. S \subseteq T  BY <1>3, <1>5, <3>1
    <3> QED  BY <2>1, <3>2
  <2>3. CASE ~(L[a] > 0 \/ L[b] = 0 \/ R[b] > 0)
    <3>1. a \notin S /\ b \in S /\ a \in T /\ b \notin T  BY <1>1, <1>4, <2>3
    <3> DEFINE O == S \ {b}
    <3>2. S = O \cup {b} /\ T = O \cup {a} /\ a \notin O /\ b \notin O
      BY <1>3, <1>5, <3>1
    <3>3. IsFiniteSet(O)  BY <1>2, FS_Subset
    <3> HIDE DEF O
    <3>4. Cardinality(S) = Cardinality(O) + 1 /\ Cardinality(T) = Cardinality(O) + 1
      BY <3>2, <3>3, FS_AddElement
    <3> QED  BY <1>2, <3>4
  <2> QED  BY <2>2, <2>3
<1> USE DEF S, T
<1> QED  BY <1>7, <1>8

LEMMA SameChoice ==
  ASSUME NEW arr, NEW t, NEW a \in Proc, NEW b \in Proc, a # b, arr[a] <= t, arr[b] <= t,
         NEW L, NEW R, Uneven(L, R, a, b), NEW k \in There(arr, t, R)
  PROVE  \E m \in There(arr, t, L) : Uneven(Less(L, m), Less(R, k), a, b)
<1>1. /\ L \in [Proc -> Nat] /\ R \in [Proc -> Nat]
      /\ \A j \in Proc : j # a /\ j # b => L[j] = R[j]
      /\ L[a] + L[b] = R[a] + R[b] /\ L[a] <= R[a] /\ L[a] <= R[b]
      /\ L[a] \in Nat /\ L[b] \in Nat /\ R[a] \in Nat /\ R[b] \in Nat
  BY DEF Uneven
<1>2. PICK r : r = Less(R, k)  OBVIOUS
<1>3. k \in Proc /\ arr[k] <= t /\ R[k] > 0  BY DEF There
<1>4. r \in [Proc -> Nat] /\ r[k] = R[k] - 1 /\ \A j \in Proc : j # k => r[j] = R[j]
  BY <1>1, <1>2, ThereFacts
<1>5. ASSUME NEW m \in There(arr, t, L)
      PROVE  /\ Less(L, m) \in [Proc -> Nat] /\ Less(L, m)[m] = L[m] - 1
             /\ \A j \in Proc : j # m => Less(L, m)[j] = L[j]
  BY <1>1, ThereFacts
<1>6. CASE k # a /\ k # b
  <2>1. k \in There(arr, t, L)  BY <1>1, <1>3, <1>6 DEF There
  <2>2. PICK l : l = Less(L, k)  OBVIOUS
  <2>3. l \in [Proc -> Nat] /\ l[k] = L[k] - 1 /\ \A j \in Proc : j # k => l[j] = L[j]
    BY <1>5, <2>1, <2>2
  <2>4. L[k] = R[k]  BY <1>1, <1>3, <1>6
  <2>5. \A j \in Proc : j # a /\ j # b => l[j] = r[j]  BY <1>1, <1>4, <2>3, <2>4
  <2>6. l[a] = L[a] /\ l[b] = L[b] /\ r[a] = R[a] /\ r[b] = R[b]  BY <1>4, <1>6, <2>3
  <2>7. Uneven(l, r, a, b)  BY <1>1, <1>4, <2>3, <2>5, <2>6 DEF Uneven
  <2> QED  BY <1>2, <2>1, <2>2, <2>7
<1>7. CASE k = a \/ k = b
  <2>1. PICK m \in {a, b} : m = IF L[a] > 0 THEN a ELSE b  OBVIOUS
  <2>2. R[k] \in Nat /\ L[m] > 0  BY <1>1, <1>3, <1>7, <2>1
  <2>3. m \in There(arr, t, L)  BY <2>1, <2>2 DEF There
  <2>4. PICK l : l = Less(L, m)  OBVIOUS
  <2>5. l \in [Proc -> Nat] /\ l[m] = L[m] - 1 /\ \A j \in Proc : j # m => l[j] = L[j]
    BY <1>5, <2>3, <2>4
  <2>6. \A j \in Proc : j # a /\ j # b => l[j] = r[j]  BY <1>1, <1>4, <1>7, <2>1, <2>5
  <2>7. /\ l[a] = IF m = a THEN L[a] - 1 ELSE L[a]
        /\ l[b] = IF m = b THEN L[b] - 1 ELSE L[b]
        /\ r[a] = IF k = a THEN R[a] - 1 ELSE R[a]
        /\ r[b] = IF k = b THEN R[b] - 1 ELSE R[b]
    BY <1>4, <1>7, <2>1, <2>5
  <2>8. l[a] + l[b] = r[a] + r[b] /\ l[a] <= r[a] /\ l[a] <= r[b]
    BY <1>1, <1>3, <1>7, <2>1, <2>7
  <2>9. Uneven(l, r, a, b)  BY <1>4, <2>5, <2>6, <2>8 DEF Uneven
  <2> QED  BY <1>2, <2>3, <2>4, <2>9
<1> QED  BY <1>6, <1>7

(* Work is better left where less is left already.                         *)
LEMMA Exchange ==
  ASSUME NEW arr \in [Proc -> Nat], NEW end \in Nat, NEW a \in Proc, NEW b \in Proc, a # b
  PROVE  \A t \in 0 .. end : arr[a] <= t /\ arr[b] <= t =>
           \A L, R \in [Proc -> Nat] : Uneven(L, R, a, b) =>
             BestOf(arr, end)[t][L] <= BestOf(arr, end)[t][R]
<1> DEFINE Better(t) == \A L, R \in [Proc -> Nat] : Uneven(L, R, a, b) =>
                          BestOf(arr, end)[t][L] <= BestOf(arr, end)[t][R]
           G == {t \in 0 .. end : arr[a] <= t /\ arr[b] <= t => Better(t)}
<1>1. end \in G
  <2>1. end \in 0 .. end  OBVIOUS
  <2>2. \A left \in [Proc -> Nat] : BestOf(arr, end)[end][left] = 0  BY <2>1, BestStep DEF Cost
  <2> QED  BY <2>1, <2>2
<1>2. ASSUME NEW t \in 0 .. end - 1, t + 1 \in G PROVE t \in G
  <2>1. t \in 0 .. end /\ t # end /\ t + 1 \in 0 .. end  OBVIOUS
  <2> SUFFICES ASSUME arr[a] <= t, arr[b] <= t,
                      NEW L \in [Proc -> Nat], NEW R \in [Proc -> Nat], Uneven(L, R, a, b)
               PROVE  BestOf(arr, end)[t][L] <= BestOf(arr, end)[t][R]
    BY <2>1
  <2>2. PICK next : next = BestOf(arr, end)[t + 1]  OBVIOUS
  <2>3. \A l \in [Proc -> Nat] : next[l] \in Nat  BY <2>1, <2>2, BestTyped
  <2>4. \A l, r \in [Proc -> Nat] : Uneven(l, r, a, b) => next[l] <= next[r]
    <3>1. arr[a] \in Nat /\ arr[b] \in Nat /\ arr[a] <= t + 1 /\ arr[b] <= t + 1  BY <2>1
    <3> QED  BY <1>2, <2>2, <3>1
  <2>5. PICK S, T : S = There(arr, t, L) /\ T = There(arr, t, R)  OBVIOUS
  <2>6. /\ Cardinality(S) \in Nat /\ Cardinality(T) \in Nat
        /\ Cardinality(S) <= Cardinality(T) /\ (S = {} => T = {})
    <3>1. Cardinality(S) \in Nat /\ Cardinality(T) \in Nat  BY <2>5, ThereFacts
    <3>2. Cardinality(S) <= Cardinality(T) /\ (S = {} => T = {})  BY <2>5, FewerThere
    <3> QED  BY <3>1, <3>2
  <2>7. /\ BestOf(arr, end)[t][L] = Cost(next, arr, t, end, L)
        /\ BestOf(arr, end)[t][R] = Cost(next, arr, t, end, R)
    BY <2>1, <2>2, BestStep
  <2>8. CASE T = {}
    <3>1. R[a] = 0 /\ R[b] = 0  BY <2>5, <2>8 DEF There
    <3>2. \A j \in Proc : L[j] = R[j]  BY <3>1 DEF Uneven
    <3>3. L = R  BY <3>2
    <3>4. BestOf(arr, end)[t][R] \in Nat  BY <2>1, BestTyped
    <3> QED  BY <3>3, <3>4
  <2>9. CASE T # {}
    <3>1. PICK k \in T : /\ Min({next[Less(R, i)] : i \in T}) = next[Less(R, k)]
                         /\ \A i \in T : next[Less(R, k)] <= next[Less(R, i)]
      BY <2>3, <2>5, <2>9, LeastNext
    <3>2. PICK m \in S : Uneven(Less(L, m), Less(R, k), a, b)  BY <2>5, <3>1, SameChoice
    <3>3. PICK h \in S : /\ Min({next[Less(L, i)] : i \in S}) = next[Less(L, h)]
                         /\ \A i \in S : next[Less(L, h)] <= next[Less(L, i)]
      BY <2>3, <2>5, <3>2, LeastNext
    <3>4. Less(L, m) \in [Proc -> Nat] /\ Less(R, k) \in [Proc -> Nat] /\ Less(L, h) \in [Proc -> Nat]
      BY <2>5, <3>1, <3>2, <3>3, ThereFacts
    <3>5. next[Less(L, m)] <= next[Less(R, k)] /\ next[Less(L, h)] <= next[Less(L, m)]
      BY <2>4, <3>2, <3>3, <3>4
    <3>6. /\ BestOf(arr, end)[t][L] = Cardinality(S) + next[Less(L, h)]
          /\ BestOf(arr, end)[t][R] = Cardinality(T) + next[Less(R, k)]
      BY <2>1, <2>5, <2>6, <2>7, <2>9, <3>1, <3>3 DEF Cost
    <3>7. next[Less(L, m)] \in Nat /\ next[Less(R, k)] \in Nat /\ next[Less(L, h)] \in Nat
      BY <2>3, <3>4
    <3> QED  BY <2>6, <3>5, <3>6, <3>7
  <2> QED  BY <2>8, <2>9
<1>3. \A t \in 0 .. end : t \in G
  <2> HIDE DEF G
  <2> QED  BY <1>1, <1>2, Backward
<1> QED  BY <1>3

(* So it is best to let one run that needs least.                          *)
LEMMA ShortestFirst ==
  ASSUME NEW arr \in [Proc -> Nat], NEW end \in Nat, NEW t \in 0 .. end, t # end,
         NEW left \in [Proc -> Nat], NEW m \in There(arr, t, left),
         \A j \in There(arr, t, left) : left[m] <= left[j]
  PROVE  BestOf(arr, end)[t][left]
           = Cardinality(There(arr, t, left)) + BestOf(arr, end)[t + 1][Less(left, m)]
<1>1. PICK next : next = BestOf(arr, end)[t + 1]  OBVIOUS
<1>2. PICK S : S = There(arr, t, left)  OBVIOUS
<1>3. t + 1 \in 0 .. end  OBVIOUS
<1>4. \A l \in [Proc -> Nat] : next[l] \in Nat  BY <1>1, <1>3, BestTyped
<1>5. PICK h \in S : /\ Min({next[Less(left, i)] : i \in S}) = next[Less(left, h)]
                     /\ \A i \in S : next[Less(left, h)] <= next[Less(left, i)]
  BY <1>2, <1>4, LeastNext
<1>6. BestOf(arr, end)[t][left] = Cardinality(S) + next[Less(left, h)]
  <2>1. BestOf(arr, end)[t][left] = Cost(next, arr, t, end, left)  BY <1>1, BestStep
  <2> QED  BY <1>2, <1>5, <2>1 DEF Cost
<1>7. next[Less(left, h)] = next[Less(left, m)]
  <2>1. CASE h = m  BY <2>1
  <2>2. CASE h # m
    <3>1. h \in Proc /\ m \in Proc /\ arr[h] <= t /\ arr[m] <= t /\ left[h] > 0 /\ left[m] > 0
      BY <1>2, <1>5 DEF There
    <3>2. PICK L, R : L = Less(left, m) /\ R = Less(left, h)  OBVIOUS
    <3>3. /\ L \in [Proc -> Nat] /\ L[m] = left[m] - 1 /\ \A j \in Proc : j # m => L[j] = left[j]
          /\ R \in [Proc -> Nat] /\ R[h] = left[h] - 1 /\ \A j \in Proc : j # h => R[j] = left[j]
      BY <1>2, <1>5, <3>2, ThereFacts
    <3>4. left[m] \in Nat /\ left[h] \in Nat /\ left[m] <= left[h]  BY <1>2, <1>5, <3>1
    <3>5. Uneven(L, R, m, h)
      <4>1. L[m] = left[m] - 1 /\ L[h] = left[h] /\ R[m] = left[m] /\ R[h] = left[h] - 1
        BY <2>2, <3>1, <3>3
      <4>2. L[m] + L[h] = R[m] + R[h] /\ L[m] <= R[m] /\ L[m] <= R[h]  BY <3>4, <4>1
      <4>3. \A j \in Proc : j # m /\ j # h => L[j] = R[j]  BY <3>3
      <4> QED  BY <3>3, <4>2, <4>3 DEF Uneven
    <3>6. next[L] <= next[R]
      <4>1. arr[m] \in Nat /\ arr[h] \in Nat /\ arr[m] <= t + 1 /\ arr[h] <= t + 1  BY <3>1
      <4> QED  BY <1>1, <1>3, <2>2, <3>1, <3>3, <3>5, <4>1, Exchange
    <3>7. next[R] <= next[L]  BY <1>2, <1>5, <3>2
    <3>8. next[L] \in Nat /\ next[R] \in Nat  BY <1>4, <3>3
    <3> QED  BY <3>2, <3>6, <3>7, <3>8
  <2> QED  BY <2>1, <2>2
<1> QED  BY <1>1, <1>2, <1>6, <1>7

---------------------------------------------------------------------------
(* SRTF is one of the best schedules.                                      *)

(* Who has been there, and in which unit.                                  *)
Stays == {s \in Proc \X (0 .. current_time - 1) : s[1] \in ReadyAt(s[2])}

(* What has been spent and the best that can still be done make the best.  *)
OnTheBest ==
  policy = "SRTF" => \A end \in Nat : end >= current_time =>
    BestOf(arrival, end)[0][job]
      = Cardinality(Stays) + BestOf(arrival, end)[current_time][remaining]

(* Who is there now is who may be chosen.                                  *)
LEMMA ReadyNow ==
  ASSUME TypeOK, Chart, policy = "SRTF"
  PROVE  /\ ReadyAt(current_time) = Candidates(remaining)
         /\ There(arrival, current_time, remaining) = Candidates(remaining)
<1>1. Rest = remaining  BY DEF Rest, TypeOK
<1>2. \A i \in Proc : Left(i, current_time) = remaining[i]  BY <1>1, TickFacts
<1> QED  BY <1>2 DEF ReadyAt, Candidates, There

LEMMA InitOnTheBest == ASSUME Init PROVE OnTheBest
<1>1. current_time = 0 /\ remaining = job  BY DEF Init
<1>2. job \in [Proc -> Nat]  BY InitHolds DEF Inv, TypeOK
<1>3. Stays = {}  BY <1>1 DEF Stays
<1>4. Cardinality(Stays) = 0  BY <1>3, FS_EmptySet
<1>5. ASSUME NEW end \in Nat PROVE BestOf(arrival, end)[0][job] \in Nat
  <2>1. 0 \in 0 .. end  OBVIOUS
  <2> QED  BY <1>2, <2>1, BestTyped
<1> QED  BY <1>1, <1>4, <1>5 DEF OnTheBest

LEMMA SRTFStays ==
  ASSUME Inv, SRTF
  PROVE  /\ IsFiniteSet(Stays) /\ policy' = policy /\ arrival' = arrival /\ job' = job
         /\ current_time' = current_time + 1
         /\ Cardinality(Stays') = Cardinality(Stays) + Cardinality(Candidates(remaining))
         /\ IF Candidates(remaining) = {} THEN remaining' = remaining
            ELSE remaining' = Less(remaining, Shortest(remaining))
<1>1. TypeOK /\ Chart /\ Bursts01 /\ ready \in Seq(Proc) /\ policy = "SRTF" /\ completed < N
      /\ remaining \in [Proc -> Nat]
  BY DEF Inv, TypeOK, SRTF
<1>2. PICK c \in Nat : c = current_time  BY <1>1 DEF TypeOK
<1>3. /\ UNCHANGED <<policy, arrival, job>> /\ current_time' = c + 1
      /\ \A j \in Proc : Ticks(j)' = Ticks(j) \/ Ticks(j)' = Ticks(j) \cup (current_time .. c)
      /\ IF Candidates(remaining) = {} THEN remaining' = remaining
         ELSE remaining' = Less(remaining, Shortest(remaining))
  <2>1. CASE Candidates(remaining) # {}
    <3>1. PICK i : i = Shortest(remaining)  OBVIOUS
    <3>2. RunFor(i, 1)  BY <2>1, <3>1 DEF SRTF
    <3>3. i \in Proc /\ arrival[i] <= current_time /\ remaining[i] > 0
      BY <1>1, <2>1, <3>1, ShortestIs
    <3>4. 1 \in Nat /\ 0 < 1 /\ 1 <= remaining[i]  BY <1>1, <3>3
    <3>5. Turn(i, current_time, 1) /\ remaining' = [remaining EXCEPT ![i] = @ - 1]
          /\ current_time' = current_time + 1
      BY <1>1, <3>2, <3>3, <3>4, RunForTurn
    <3>6. \A j \in Proc : Ticks(j)' = IF j = i THEN Ticks(j) \cup (current_time .. current_time + 1 - 1)
                                      ELSE Ticks(j)
      BY <1>1, <3>3, <3>5, TurnChart
    <3>7. current_time + 1 - 1 = c  BY <1>2
    <3>8. UNCHANGED <<policy, arrival, job>>  BY <3>5 DEF Turn, file
    <3>9. remaining' = Less(remaining, Shortest(remaining))  BY <3>1, <3>5 DEF Less
    <3> QED  BY <1>2, <2>1, <3>5, <3>6, <3>7, <3>8, <3>9
  <2>2. CASE Candidates(remaining) = {}
    <3>1. Idle /\ ready' = ready /\ ready_start' = ready_start  BY <2>2 DEF SRTF
    <3>2. current_time' = current_time + 1 /\ UNCHANGED <<file, remaining>>
          /\ \A i \in Proc : Ticks(i)' = Ticks(i)
      BY <1>1, <3>1, IdleTyped
    <3> QED  BY <1>2, <2>2, <3>2 DEF file
  <2> QED  BY <2>1, <2>2
<1>4. ASSUME NEW j \in Proc, NEW t \in 0 .. c PROVE Left(j, t)' = Left(j, t)
  <2>1. PICK T : T = Ticks(j)'  OBVIOUS
  <2>2. T = Ticks(j) \/ T = Ticks(j) \cup (current_time .. c)  BY <1>3, <2>1
  <2>3. {u \in T : u < t} = {u \in Ticks(j) : u < t}  BY <1>1, <1>2, <2>2, LeftKept
  <2>4. Left(j, t)' = job[j] - Cardinality({u \in T : u < t})  BY <1>3, <2>1 DEF Left
  <2>5. Left(j, t)' = job[j] - Cardinality({u \in Ticks(j) : u < t})  BY <2>3, <2>4
  <2> QED  BY <2>5 DEF Left
<1>5. \A t \in 0 .. c : ReadyAt(t)' = ReadyAt(t)  BY <1>3, <1>4 DEF ReadyAt
<1>6. PICK C : C = Candidates(remaining)  OBVIOUS
<1>7. C = ReadyAt(c) /\ C \subseteq Proc
  <2>1. C = ReadyAt(c)  BY <1>1, <1>2, <1>6, ReadyNow
  <2> QED  BY <2>1 DEF ReadyAt
<1> DEFINE B == C \X {c}
<1>8. Stays' = Stays \cup B
  <2>1. Stays' = {s \in Proc \X (0 .. c) : s[1] \in ReadyAt(s[2])'}
    <3>1. c + 1 - 1 = c  OBVIOUS
    <3> QED  BY <1>3, <3>1 DEF Stays
  <2>2. Stays = {s \in Proc \X (0 .. c - 1) : s[1] \in ReadyAt(s[2])}  BY <1>2 DEF Stays
  <2>3. \A t \in 0 .. c : t \in 0 .. c - 1 \/ t = c  OBVIOUS
  <2>4. ASSUME NEW i \in Proc, NEW t \in 0 .. c
        PROVE  <<i, t>> \in Stays' <=> <<i, t>> \in Stays \cup B
    <3>1. <<i, t>> \in Stays' <=> i \in ReadyAt(t)  BY <1>5, <2>1
    <3>2. CASE t = c
      <4>1. <<i, t>> \notin Stays  BY <2>2, <3>2
      <4> QED  BY <1>7, <3>1, <3>2, <4>1
    <3>3. CASE t # c
      <4>1. t \in 0 .. c - 1  BY <2>3, <3>3
      <4>2. <<i, t>> \in Stays <=> i \in ReadyAt(t)  BY <2>2, <4>1
      <4> QED  BY <3>1, <3>3, <4>2
    <3> QED  BY <3>2, <3>3
  <2>5. Stays' \subseteq Proc \X (0 .. c)  BY <2>1
  <2>6. Stays \cup B \subseteq Proc \X (0 .. c)
    <3>1. c \in 0 .. c /\ 0 .. c - 1 \subseteq 0 .. c  OBVIOUS
    <3> QED  BY <1>7, <2>2, <3>1
  <2> HIDE DEF B
  <2> QED  BY <2>4, <2>5, <2>6
<1>9. IsFiniteSet(Stays)
  <2>1. Stays \subseteq Proc \X (0 .. c - 1)  BY <1>2 DEF Stays
  <2>2. IsFiniteSet(0 .. c - 1)
    <3>1. 0 \in Int /\ c - 1 \in Int  OBVIOUS
    <3> QED  BY <3>1, FS_Interval
  <2>3. IsFiniteSet(Proc \X (0 .. c - 1))  BY <2>2, ProcIs, FS_Product
  <2> QED  BY <2>1, <2>3, FS_Subset
<1>10. IsFiniteSet(B) /\ Cardinality(B) = Cardinality(C)
  <2>1. IsFiniteSet(C) /\ Cardinality(C) \in Nat  BY <1>7, ProcIs, FS_Subset, FS_CardinalityType
  <2>2. IsFiniteSet({c}) /\ Cardinality({c}) = 1  BY FS_Singleton
  <2>3. IsFiniteSet(B) /\ Cardinality(B) = Cardinality(C) * 1  BY <2>1, <2>2, FS_Product
  <2> QED  BY <2>1, <2>3
<1>11. Cardinality(Stays \cup B) = Cardinality(Stays) + Cardinality(B)
  <2>1. Stays \cap B = {}
    <3>1. \A s \in Stays : s[2] \in 0 .. c - 1  BY <1>2 DEF Stays
    <3>2. \A s \in B : s[2] = c  OBVIOUS
    <3>3. c \notin 0 .. c - 1  OBVIOUS
    <3> HIDE DEF B
    <3> QED  BY <3>1, <3>2, <3>3
  <2> HIDE DEF B
  <2>2. Cardinality(Stays \cap B) = 0  BY <2>1, FS_EmptySet
  <2>3. Cardinality(Stays \cup B) = Cardinality(Stays) + Cardinality(B) - Cardinality(Stays \cap B)
    BY <1>9, <1>10, FS_Union
  <2>4. Cardinality(Stays) \in Nat /\ Cardinality(B) \in Nat  BY <1>9, <1>10, FS_CardinalityType
  <2> QED  BY <2>2, <2>3, <2>4
<1> HIDE DEF B
<1> QED  BY <1>2, <1>3, <1>6, <1>8, <1>9, <1>10, <1>11

LEMMA SRTFOnTheBest ==
  ASSUME Inv, OnTheBest, SRTF
  PROVE  OnTheBest'
<1>1. TypeOK /\ Chart /\ policy = "SRTF"  BY DEF Inv, SRTF
<1>2. PICK c \in Nat : c = current_time  BY <1>1 DEF TypeOK
<1>3. arrival \in [Proc -> Nat] /\ job \in [Proc -> Nat] /\ remaining \in [Proc -> Nat]
  BY <1>1 DEF TypeOK
<1>4. PICK C, rest : C = Candidates(remaining) /\ rest = remaining'  OBVIOUS
<1>5. /\ IsFiniteSet(Stays) /\ policy' = policy /\ arrival' = arrival /\ job' = job
      /\ current_time' = c + 1
      /\ Cardinality(Stays') = Cardinality(Stays) + Cardinality(C)
      /\ IF C = {} THEN rest = remaining ELSE rest = Less(remaining, Shortest(remaining))
  BY <1>2, <1>4, SRTFStays
<1>6. C = There(arrival, c, remaining)  BY <1>1, <1>2, <1>4, ReadyNow
<1>7. rest \in [Proc -> Nat]
  <2>1. TypeOK'  BY SRTFKeeps DEF Inv
  <2> QED  BY <1>4, <2>1 DEF TypeOK
<1>8. ASSUME NEW end \in Nat, end >= c + 1
      PROVE  BestOf(arrival, end)[0][job] = Cardinality(Stays') + BestOf(arrival, end)[c + 1][rest]
  <2>1. c \in 0 .. end /\ c # end /\ c + 1 \in 0 .. end /\ end >= c  BY <1>8
  <2>2. BestOf(arrival, end)[0][job] = Cardinality(Stays) + BestOf(arrival, end)[c][remaining]
    BY <1>1, <1>2, <2>1 DEF OnTheBest
  <2>3. BestOf(arrival, end)[c][remaining] = Cardinality(C) + BestOf(arrival, end)[c + 1][rest]
    <3>1. CASE C = {}
      <4>1. BestOf(arrival, end)[c][remaining] = BestOf(arrival, end)[c + 1][remaining]
        <5>1. BestOf(arrival, end)[c][remaining]
                = Cost(BestOf(arrival, end)[c + 1], arrival, c, end, remaining)
          BY <1>3, <2>1, BestStep
        <5> QED  BY <1>6, <2>1, <3>1, <5>1 DEF Cost
      <4>2. BestOf(arrival, end)[c + 1][remaining] \in Nat  BY <1>3, <2>1, BestTyped
      <4>3. Cardinality(C) = 0  BY <3>1, FS_EmptySet
      <4> QED  BY <1>5, <3>1, <4>1, <4>2, <4>3
    <3>2. CASE C # {}
      <4>1. PICK m : m = Shortest(remaining)  OBVIOUS
      <4>2. m \in C /\ \A j \in C : remaining[m] <= remaining[j]
        <5>1. /\ m \in Proc /\ arrival[m] <= current_time /\ remaining[m] > 0
              /\ \A j \in Candidates(remaining) : remaining[m] <= remaining[j]
          BY <1>1, <1>3, <1>4, <3>2, <4>1, ShortestIs
        <5> QED  BY <1>4, <5>1 DEF Candidates
      <4>3. BestOf(arrival, end)[c][remaining]
              = Cardinality(C) + BestOf(arrival, end)[c + 1][Less(remaining, m)]
        BY <1>3, <1>6, <2>1, <4>2, ShortestFirst
      <4> QED  BY <1>5, <3>2, <4>1, <4>3
    <3> QED  BY <3>1, <3>2
  <2>4. Cardinality(C) \in Nat /\ Cardinality(Stays) \in Nat
    BY <1>3, <1>5, <1>6, ThereFacts, FS_CardinalityType
  <2>5. BestOf(arrival, end)[c + 1][rest] \in Nat  BY <1>3, <1>7, <2>1, BestTyped
  <2> QED  BY <1>5, <2>2, <2>3, <2>4, <2>5
<1>9. \A end : BestOf(arrival', end) = BestOf(arrival, end)  BY <1>5
<1> QED  BY <1>4, <1>5, <1>8 DEF OnTheBest

(* When all are done, each has been there from its arrival to its end.     *)
LEMMA StaysAre ==
  ASSUME Inv, completed = N
  PROVE  turnaround_time = Cardinality(Stays)
<1>1. TypeOK /\ Chart /\ Accounts  BY DEF Inv
<1>2. Done = {i \in Proc : Rest[i] = 0} /\ IsFiniteSet(Done)
      /\ \A i \in Done : LastTick(i) \in Ticks(i) /\ \A u \in Ticks(i) : u <= LastTick(i)
  BY <1>1, DoneFacts
<1>3. Done = Proc
  <2>1. Cardinality(Done) = Cardinality(Proc)  BY <1>1, ProcIs DEF Accounts
  <2>2. Done \subseteq Proc  BY <1>2
  <2> QED  BY <2>1, <2>2, ProcIs, FS_Subset
<1> DEFINE U == [i \in Done |-> arrival[i] .. LastTick(i)]
<1>4. turnaround_time = Units(U)  BY <1>1 DEF Accounts
<1>5. PICK c \in Nat : c = current_time  BY <1>1 DEF TypeOK
<1>6. ASSUME NEW i \in Proc, NEW t \in 0 .. c - 1 PROVE i \in ReadyAt(t) <=> t \in U[i]
  <2>1. i \in Done /\ U[i] = arrival[i] .. LastTick(i)  BY <1>3
  <2>2. /\ LastTick(i) \in Ticks(i) /\ \A u \in Ticks(i) : u <= LastTick(i)
        /\ Rest[i] = 0
    BY <1>2, <2>1
  <2>3. /\ arrival[i] \in Nat /\ job[i] \in Nat \ {0}
        /\ IsFiniteSet(Ticks(i)) /\ Cardinality(Ticks(i)) = job[i]
        /\ Ticks(i) \subseteq arrival[i] .. current_time - 1
    <3>1. /\ arrival[i] \in Nat /\ job[i] \in Nat \ {0} /\ Cardinality(Ticks(i)) \in Nat
          /\ IsFiniteSet(Ticks(i)) /\ Rest[i] + Cardinality(Ticks(i)) = job[i]
          /\ Ticks(i) \subseteq arrival[i] .. current_time - 1
      BY <1>1, TickFacts
    <3> QED  BY <2>2, <3>1
  <2>4. PICK l \in Nat : l = LastTick(i)  BY <2>2, <2>3
  <2>5. PICK T : T = {u \in Ticks(i) : u < t}  OBVIOUS
  <2>6. Left(i, t) = job[i] - Cardinality(T)  BY <2>5, Zenon DEF Left
  <2>7. CASE t <= l
    <3>1. T \subseteq Ticks(i) \ {l}  BY <2>4, <2>5, <2>7
    <3>2. IsFiniteSet(Ticks(i) \ {l}) /\ Cardinality(Ticks(i) \ {l}) = job[i] - 1
      BY <2>2, <2>3, <2>4, FS_RemoveElement
    <3>3. IsFiniteSet(T) /\ Cardinality(T) <= job[i] - 1  BY <3>1, <3>2, FS_Subset
    <3>4. Cardinality(T) \in Nat  BY <3>3, FS_CardinalityType
    <3>5. Left(i, t) > 0  BY <2>3, <2>6, <3>3, <3>4
    <3>6. i \in ReadyAt(t) <=> arrival[i] <= t  BY <3>5 DEF ReadyAt
    <3> QED  BY <2>1, <2>3, <2>4, <2>7, <3>6
  <2>8. CASE ~(t <= l)
    <3>1. \A u \in Ticks(i) : u < t  BY <2>2, <2>3, <2>4, <2>8
    <3>2. T = Ticks(i)  BY <2>5, <3>1
    <3>3. ~(Left(i, t) > 0)  BY <2>3, <2>6, <3>2
    <3>4. i \notin ReadyAt(t)  BY <3>3 DEF ReadyAt
    <3> QED  BY <2>1, <2>3, <2>4, <2>8, <3>4
  <2> QED  BY <2>4, <2>7, <2>8
<1>7. \A i \in Proc : U[i] \subseteq 0 .. c - 1
  <2> SUFFICES ASSUME NEW i \in Proc PROVE arrival[i] .. LastTick(i) \subseteq 0 .. c - 1
    BY <1>3
  <2>1. arrival[i] \in Nat /\ LastTick(i) \in arrival[i] .. c - 1
    BY <1>1, <1>2, <1>3, <1>5, TickFacts
  <2> QED  BY <2>1
<1>8. Stays = UNION {{i} \X U[i] : i \in DOMAIN U}
  <2>1. DOMAIN U = Proc  BY <1>3
  <2> HIDE DEF U
  <2>2. Stays = {s \in Proc \X (0 .. c - 1) : s[1] \in ReadyAt(s[2])}  BY <1>5 DEF Stays
  <2>3. ASSUME NEW s \in Stays PROVE s \in UNION {{i} \X U[i] : i \in DOMAIN U}
    <3>1. PICK i \in Proc, t \in 0 .. c - 1 : s = <<i, t>>  BY <2>2
    <3>2. t \in U[i]  BY <1>6, <2>2, <3>1
    <3>3. s \in {i} \X U[i]  BY <3>1, <3>2
    <3> QED  BY <2>1, <3>3
  <2>4. ASSUME NEW i \in DOMAIN U, NEW s \in {i} \X U[i] PROVE s \in Stays
    <3>1. PICK t \in U[i] : s = <<i, t>>  OBVIOUS
    <3>2. i \in Proc /\ t \in 0 .. c - 1  BY <1>7, <2>1
    <3>3. i \in ReadyAt(t)  BY <1>6, <3>1, <3>2
    <3> QED  BY <2>2, <3>1, <3>2, <3>3
  <2> QED  BY <2>3, <2>4
<1> HIDE DEF U
<1> QED  BY <1>4, <1>8, Zenon DEF Units

LEMMA BestAtTheEnd == ASSUME Inv, OnTheBest PROVE SRTFOptimal
<1> SUFFICES ASSUME policy = "SRTF", completed = N
             PROVE  turnaround_time = Best(current_time)
  BY DEF SRTFOptimal
<1>1. TypeOK  BY DEF Inv
<1>2. PICK c \in Nat : c = current_time  BY <1>1 DEF TypeOK
<1>3. remaining \in [Proc -> Nat]  BY <1>1 DEF TypeOK
<1>4. c \in 0 .. c /\ c >= current_time  BY <1>2
<1>5. BestOf(arrival, c)[0][job] = Cardinality(Stays) + BestOf(arrival, c)[c][remaining]
  BY <1>2, <1>4 DEF OnTheBest
<1>6. BestOf(arrival, c)[c][remaining] = 0  BY <1>3, <1>4, BestStep DEF Cost
<1>7. IsFiniteSet(Stays)
  <2>1. Stays \subseteq Proc \X (0 .. c - 1)  BY <1>2 DEF Stays
  <2>2. 0 \in Int /\ c - 1 \in Int  OBVIOUS
  <2>3. IsFiniteSet(0 .. c - 1)  BY <2>2, FS_Interval
  <2>4. IsFiniteSet(Proc \X (0 .. c - 1))  BY <2>3, ProcIs, FS_Product
  <2> QED  BY <2>1, <2>4, FS_Subset
<1>8. Cardinality(Stays) \in Nat  BY <1>7, FS_CardinalityType
<1>9. turnaround_time = Cardinality(Stays)  BY StaysAre
<1> QED  BY <1>2, <1>5, <1>6, <1>8, <1>9, BestIs

LEMMA StepOnTheBest == ASSUME Inv, OnTheBest, [Next]_vars PROVE OnTheBest'
<1>1. CASE SRTF  BY <1>1, SRTFOnTheBest
<1>2. CASE FCFS  BY <1>2 DEF FCFS, OnTheBest, file
<1>3. CASE SJF  BY <1>3 DEF SJF, Idle, OnTheBest, file
<1>4. CASE RR  BY <1>4 DEF RR, RunFor, Idle, OnTheBest, file
<1>5. CASE UNCHANGED vars
  <2>1. UNCHANGED <<policy, arrival, job, remaining, current_time, pc_queue, at>>
    BY <1>5 DEF vars, file, chart
  <2>2. \A i : Ticks(i)' = Ticks(i)  BY <2>1 DEF Ticks
  <2>3. \A i, t : Left(i, t)' = Left(i, t)  BY <2>1, <2>2, Zenon DEF Left
  <2>4. \A t : ReadyAt(t)' = ReadyAt(t)  BY <2>1, <2>3, Zenon DEF ReadyAt
  <2>5. Stays' = Stays  BY <2>1, <2>4 DEF Stays
  <2> QED  BY <2>1, <2>5 DEF OnTheBest
<1> QED  BY <1>1, <1>2, <1>3, <1>4, <1>5 DEF Next

(* No schedule that never idles while somebody is there has a smaller sum  *)
(* of turnaround times than SRTF: the argument exchanges the work of two   *)
(* processes.                                                              *)
THEOREM SRTFBest == Spec => []SRTFOptimal
<1>1. Init => Inv /\ OnTheBest  BY InitHolds, InitOnTheBest
<1>2. Inv /\ OnTheBest /\ [Next]_vars => (Inv /\ OnTheBest)'  BY StepKeeps, StepOnTheBest
<1>3. Inv /\ OnTheBest => SRTFOptimal  BY BestAtTheEnd
<1> QED  BY <1>1, <1>2, <1>3, PTL DEF Spec

---------------------------------------------------------------------------
(* Sums.                                                                   *)

(* P holds the sums of the beginnings of s.                                *)
UpTo(s, P) ==
  /\ P \in [0 .. Len(s) -> Int] /\ P[0] = 0
  /\ \A k \in 1 .. Len(s) : P[k] = P[k - 1] + s[k]

UpToDef(s, P, n) == P = [k \in 0 .. n |-> IF k = 0 THEN 0 ELSE P[k - 1] + s[k]]

LEMMA UpToDefines ==
  ASSUME NEW s, Len(s) \in Nat, NEW P, UpTo(s, P) PROVE UpToDef(s, P, Len(s))
<1>1. P = [k \in 0 .. Len(s) |-> P[k]]  BY DEF UpTo
<1>2. \A k \in 0 .. Len(s) : P[k] = IF k = 0 THEN 0 ELSE P[k - 1] + s[k]  BY DEF UpTo
<1> QED  BY <1>1, <1>2 DEF UpToDef

LEMMA SumIs ==
  ASSUME NEW s, Len(s) \in Nat, NEW P, UpTo(s, P)
  PROVE  Sum(s) = P[Len(s)]
<1> DEFINE n == Len(s)
           Q == CHOOSE f : UpToDef(s, f, n)
<1>1. Sum(s) = Q[n]  BY DEF Sum, UpToDef
<1>2. UpToDef(s, Q, n)  BY UpToDefines
<1>3. \A k \in 0 .. n : Q[k] = IF k = 0 THEN 0 ELSE Q[k - 1] + s[k]
  <2> HIDE DEF Q
  <2> QED  BY <1>2, Zenon DEF UpToDef
<1> DEFINE G == {k \in 0 .. n : Q[k] = P[k]}
<1>4. 0 \in G
  <2> HIDE DEF Q
  <2> QED  BY <1>3 DEF UpTo
<1>5. ASSUME NEW k \in 0 .. n - 1, k \in G PROVE k + 1 \in G
  <2> HIDE DEF Q
  <2>1. k + 1 \in 0 .. n /\ k + 1 \in 1 .. n /\ k + 1 # 0 /\ (k + 1) - 1 = k  OBVIOUS
  <2>2. Q[k + 1] = Q[k] + s[k + 1]  BY <1>3, <2>1
  <2>3. P[k + 1] = P[k] + s[k + 1]  BY <2>1 DEF UpTo
  <2> QED  BY <1>5, <2>1, <2>2, <2>3
<1>6. \A k \in 0 .. n : k \in G
  <2> HIDE DEF G, Q
  <2> QED  BY <1>4, <1>5, Upward
<1>7. n \in 0 .. n  OBVIOUS
<1> HIDE DEF Q
<1> QED  BY <1>1, <1>6, <1>7

LEMMA SomeUpTo ==
  ASSUME NEW s \in Seq(Nat)
  PROVE  \E P \in [0 .. Len(s) -> Nat] : UpTo(s, P)
<1> DEFINE n == Len(s)
           Up(P, m) == P[0] = 0 /\ \A k \in 1 .. m : P[k] = P[k - 1] + s[k]
           G == {m \in 0 .. n : \E P \in [0 .. m -> Nat] : Up(P, m)}
<1>1. 0 \in G
  <2>1. [k \in 0 .. 0 |-> 0] \in [0 .. 0 -> Nat] /\ Up([k \in 0 .. 0 |-> 0], 0)  OBVIOUS
  <2>2. 0 \in 0 .. n  OBVIOUS
  <2> HIDE DEF Up
  <2> QED  BY <2>1, <2>2
<1>2. ASSUME NEW m \in 0 .. n - 1, m \in G PROVE m + 1 \in G
  <2>1. PICK P \in [0 .. m -> Nat] : Up(P, m)  BY <1>2
  <2> DEFINE R == [k \in 0 .. m + 1 |-> IF k = m + 1 THEN P[m] + s[m + 1] ELSE P[k]]
  <2>2. m + 1 \in 1 .. n /\ s[m + 1] \in Nat  OBVIOUS
  <2>3. R \in [0 .. m + 1 -> Nat]  BY <2>2
  <2>4. \A k \in 0 .. m : R[k] = P[k]  OBVIOUS
  <2>5. R[m + 1] = P[m] + s[m + 1]  OBVIOUS
  <2>6. ASSUME NEW k \in 1 .. m + 1 PROVE R[k] = R[k - 1] + s[k]
    <3> HIDE DEF R
    <3>1. CASE k = m + 1  BY <2>4, <2>5, <3>1
    <3>2. CASE k # m + 1
      <4>1. k \in 1 .. m /\ k \in 0 .. m /\ k - 1 \in 0 .. m  BY <3>2
      <4> QED  BY <2>1, <2>4, <4>1
    <3> QED  BY <3>1, <3>2
  <2>7. R[0] = 0  BY <2>1
  <2>8. m + 1 \in 0 .. n  OBVIOUS
  <2> HIDE DEF R
  <2> QED  BY <2>3, <2>6, <2>7, <2>8
<1>3. n \in 0 .. n /\ n \in Nat  OBVIOUS
<1>4. \A m \in 0 .. n : m \in G
  <2> HIDE DEF G
  <2> QED  BY <1>1, <1>2, <1>3, Upward
<1>5. PICK P \in [0 .. n -> Nat] : Up(P, n)  BY <1>3, <1>4
<1>6. P \in [0 .. Len(s) -> Int]  BY <1>5
<1> QED  BY <1>5, <1>6 DEF UpTo

LEMMA SumNat == ASSUME NEW s \in Seq(Nat) PROVE Sum(s) \in Nat
<1>1. PICK P \in [0 .. Len(s) -> Nat] : UpTo(s, P)  BY SomeUpTo
<1>2. Len(s) \in Nat /\ Len(s) \in 0 .. Len(s)  OBVIOUS
<1>3. Sum(s) = P[Len(s)]  BY <1>1, <1>2, SumIs
<1> QED  BY <1>1, <1>2, <1>3

LEMMA SumEmpty == Sum(<<>>) = 0
<1> DEFINE P == [k \in 0 .. 0 |-> 0]
<1>1. UpTo(<<>>, P) /\ Len(<<>>) = 0  BY DEF UpTo
<1>2. P[0] = 0  OBVIOUS
<1> HIDE DEF P
<1> QED  BY <1>1, <1>2, SumIs

LEMMA SumAppend ==
  ASSUME NEW s \in Seq(Nat), NEW x \in Nat
  PROVE  Sum(Append(s, x)) = Sum(s) + x
<1>1. PICK P \in [0 .. Len(s) -> Nat] : UpTo(s, P)  BY SomeUpTo
<1>2. PICK n \in Nat : n = Len(s)  OBVIOUS
<1>3. Sum(s) = P[n]  BY <1>1, <1>2, SumIs
<1>4. PICK r : r = Append(s, x)  OBVIOUS
<1>5. Len(r) = n + 1 /\ r[n + 1] = x /\ \A k \in 1 .. n : r[k] = s[k]  BY <1>2, <1>4
<1> DEFINE Q == [k \in 0 .. n + 1 |-> IF k = n + 1 THEN P[n] + x ELSE P[k]]
<1>6. Q \in [0 .. n + 1 -> Int]  BY <1>1, <1>2
<1>7. Q[n + 1] = P[n] + x /\ \A k \in 0 .. n : Q[k] = P[k]  OBVIOUS
<1> HIDE DEF Q
<1>8. Q[0] = 0  BY <1>1, <1>7 DEF UpTo
<1>9. ASSUME NEW k \in 1 .. n + 1 PROVE Q[k] = Q[k - 1] + r[k]
  <2>1. CASE k = n + 1  BY <1>5, <1>7, <2>1
  <2>2. CASE k # n + 1
    <3>1. k \in 1 .. n /\ k \in 0 .. n /\ k - 1 \in 0 .. n  BY <2>2
    <3> QED  BY <1>1, <1>2, <1>5, <1>7, <3>1 DEF UpTo
  <2> QED  BY <2>1, <2>2
<1>10. UpTo(r, Q) /\ Len(r) \in Nat  BY <1>5, <1>6, <1>8, <1>9 DEF UpTo
<1>11. Sum(r) = Q[n + 1]  BY <1>5, <1>10, SumIs
<1> QED  BY <1>3, <1>4, <1>7, <1>11

LEMMA SumRemove ==
  ASSUME NEW s \in Seq(Nat), NEW j \in 1 .. Len(s)
  PROVE  /\ RemoveAt(s, j) \in Seq(Nat) /\ Len(RemoveAt(s, j)) = Len(s) - 1
         /\ Sum(s) = Sum(RemoveAt(s, j)) + s[j]
<1>1. PICK P \in [0 .. Len(s) -> Nat] : UpTo(s, P)  BY SomeUpTo
<1>2. PICK n \in Nat : n = Len(s) /\ j \in 1 .. n  OBVIOUS
<1>3. Sum(s) = P[n]  BY <1>1, <1>2, SumIs
<1>4. PICK r : r = RemoveAt(s, j)  OBVIOUS
<1>5. /\ r \in Seq(Nat) /\ Len(r) = n - 1
      /\ \A k \in 1 .. n - 1 : r[k] = IF k < j THEN s[k] ELSE s[k + 1]
  <2>1. /\ SubSeq(s, 1, j - 1) \in Seq(Nat) /\ Len(SubSeq(s, 1, j - 1)) = j - 1
        /\ \A k \in 1 .. j - 1 : SubSeq(s, 1, j - 1)[k] = s[k]
    BY <1>2
  <2>2. /\ SubSeq(s, j + 1, n) \in Seq(Nat) /\ Len(SubSeq(s, j + 1, n)) = n - j
        /\ \A k \in 1 .. n - j : SubSeq(s, j + 1, n)[k] = s[j + k]
    BY <1>2
  <2>3. r = SubSeq(s, 1, j - 1) \o SubSeq(s, j + 1, n)  BY <1>2, <1>4 DEF RemoveAt
  <2>4. PICK a \in Seq(Nat), b \in Seq(Nat) : a = SubSeq(s, 1, j - 1) /\ b = SubSeq(s, j + 1, n)
    BY <2>1, <2>2
  <2>5. /\ Len(a) = j - 1 /\ (\A k \in 1 .. j - 1 : a[k] = s[k])
        /\ Len(b) = n - j /\ (\A k \in 1 .. n - j : b[k] = s[j + k]) /\ r = a \o b
    BY <2>1, <2>2, <2>3, <2>4
  <2>9. /\ a \o b \in Seq(Nat) /\ Len(a \o b) = Len(a) + Len(b)
        /\ \A k \in 1 .. Len(a) + Len(b) :
             (a \o b)[k] = IF k <= Len(a) THEN a[k] ELSE b[k - Len(a)]
    BY <2>4, ConcatProperties
  <2>6. r \in Seq(Nat) /\ Len(r) = n - 1  BY <2>5, <2>9, <1>2
  <2>7. ASSUME NEW k \in 1 .. n - 1 PROVE r[k] = IF k < j THEN s[k] ELSE s[k + 1]
    <3>1. CASE k < j  BY <2>5, <2>9, <3>1, <1>2
    <3>2. CASE ~(k < j)
      <4>1. k - (j - 1) \in 1 .. n - j /\ j + (k - (j - 1)) = k + 1  BY <3>2, <1>2
      <4>3. Len(a) = j - 1 /\ k \in 1 .. Len(a) + Len(b) /\ ~(k <= Len(a))  BY <2>5, <3>2, <1>2
      <4>4. r[k] = b[k - Len(a)]  BY <2>5, <2>9, <4>3
      <4>2. r[k] = b[k - (j - 1)]  BY <4>3, <4>4
      <4> QED  BY <2>5, <3>2, <4>1, <4>2
    <3> QED  BY <3>1, <3>2
  <2> QED  BY <2>6, <2>7
<1>6. s[j] \in Nat  OBVIOUS
<1> DEFINE Q == [k \in 0 .. n - 1 |-> IF k < j THEN P[k] ELSE P[k + 1] - s[j]]
<1>7. Q \in [0 .. n - 1 -> Int]  BY <1>1, <1>2, <1>6
<1>8. \A k \in 0 .. n - 1 : Q[k] = IF k < j THEN P[k] ELSE P[k + 1] - s[j]  OBVIOUS
<1> HIDE DEF Q
<1>9. Q[0] = 0  BY <1>1, <1>2, <1>8 DEF UpTo
<1>10. ASSUME NEW k \in 1 .. n - 1 PROVE Q[k] = Q[k - 1] + r[k]
  <2>1. /\ k \in 0 .. n - 1 /\ k - 1 \in 0 .. n - 1 /\ k \in 1 .. n /\ k + 1 \in 1 .. n /\ j \in Nat
        /\ (k + 1) - 1 = k /\ (k - 1) + 1 = k
    BY <1>2
  <2>2. /\ P[k] = P[k - 1] + s[k] /\ P[k + 1] = P[k] + s[k + 1]
        /\ P[k] \in Nat /\ P[k - 1] \in Nat /\ P[k + 1] \in Nat
    <3>1. \A l \in 1 .. n : P[l] = P[l - 1] + s[l]  BY <1>1, <1>2 DEF UpTo
    <3>2. P \in [0 .. n -> Nat] /\ k \in 0 .. n /\ k - 1 \in 0 .. n /\ k + 1 \in 0 .. n
      BY <1>1, <1>2, <2>1
    <3> QED  BY <2>1, <3>1, <3>2
  <2>3. s[k] \in Nat /\ s[k + 1] \in Nat  BY <1>2, <2>1
  <2>4. Q[k] = (IF k < j THEN P[k] ELSE P[k + 1] - s[j])
        /\ Q[k - 1] = (IF k - 1 < j THEN P[k - 1] ELSE P[k] - s[j])
        /\ r[k] = IF k < j THEN s[k] ELSE s[k + 1]
    BY <1>5, <1>8, <2>1
  <2>5. CASE k < j  BY <2>1, <2>2, <2>3, <2>4, <2>5
  <2>8. PICK p0 \in Nat, p1 \in Nat, p2 \in Nat, x1 \in Nat, x2 \in Nat, y \in Nat :
          /\ p0 = P[k - 1] /\ p1 = P[k] /\ p2 = P[k + 1] /\ x1 = s[k] /\ x2 = s[k + 1] /\ y = s[j]
    BY <1>6, <2>2, <2>3
  <2>10. p1 = p0 + x1 /\ p2 = p1 + x2  BY <2>2, <2>8, Zenon
  <2>6. CASE k = j
    <3>1. Q[k] = p2 - y /\ Q[k - 1] = p0 /\ r[k] = x2 /\ y = x1  BY <2>1, <2>4, <2>6, <2>8
    <3>2. p2 - x1 = p0 + x2  BY <2>10
    <3> QED  BY <3>1, <3>2, Zenon
  <2>7. CASE k > j
    <3>1. Q[k] = p2 - y /\ Q[k - 1] = p1 - y /\ r[k] = x2  BY <2>1, <2>4, <2>7, <2>8
    <3>2. p2 - y = (p1 - y) + x2  BY <2>10
    <3> QED  BY <3>1, <3>2, Zenon
  <2> QED  BY <2>1, <2>5, <2>6, <2>7
<1>11. UpTo(r, Q) /\ Len(r) \in Nat  BY <1>2, <1>5, <1>7, <1>9, <1>10 DEF UpTo
<1>12. Sum(r) = Q[n - 1]  BY <1>5, <1>11, SumIs
<1>13. P[n] = Q[n - 1] + s[j]
  <2>0. n - 1 \in 0 .. n - 1 /\ (n - 1) + 1 = n /\ n \in 1 .. n /\ n \in 0 .. n /\ n - 1 \in 0 .. n
    BY <1>2
  <2>1. n - 1 \in 0 .. n - 1 /\ (n - 1) + 1 = n /\ n \in 1 .. n /\ P[n] \in Nat /\ P[n - 1] \in Nat
    <3>1. P \in [0 .. n -> Nat]  BY <1>1, <1>2
    <3> QED  BY <2>0, <3>1
  <2>2. Q[n - 1] = IF n - 1 < j THEN P[n - 1] ELSE P[n] - s[j]  BY <1>8, <2>1
  <2>3. P[n] = P[n - 1] + s[n]  BY <1>1, <1>2, <2>1 DEF UpTo
  <2>4. n - 1 < j => j = n  BY <1>2
  <2> QED  BY <1>6, <2>1, <2>2, <2>3, <2>4
<1> QED  BY <1>2, <1>3, <1>4, <1>5, <1>12, <1>13

(* The sum of s between lo and hi, and how a part falls into two.          *)
LEMMA SumPart ==
  ASSUME NEW s \in Seq(Nat), NEW P, UpTo(s, P), NEW lo \in Nat, NEW hi \in lo .. Len(s)
  PROVE  SubSeq(s, lo + 1, hi) \in Seq(Nat) /\ Sum(SubSeq(s, lo + 1, hi)) = P[hi] - P[lo]
<1>1. PICK r : r = SubSeq(s, lo + 1, hi)  OBVIOUS
<1>2. PICK n \in Nat : n = hi - lo  OBVIOUS
<1>3. r \in Seq(Nat) /\ Len(r) = n /\ \A k \in 1 .. n : r[k] = s[lo + k]
  <2>1. \A k \in lo + 1 .. hi : s[k] \in Nat  OBVIOUS
  <2>2. (lo + 1) + n - 1 = hi /\ lo + 1 \in Nat  BY <1>2
  <2>3. /\ Len(r) = IF lo + 1 <= hi THEN hi - (lo + 1) + 1 ELSE 0
        /\ r \in Seq(Nat) /\ \A k \in 1 .. hi - (lo + 1) + 1 : r[k] = s[(lo + 1) + k - 1]
    BY <1>1, <2>1
  <2>4. Len(r) = n  BY <1>2, <2>3
  <2>5. \A k \in 1 .. n : r[k] = s[lo + k]
    <3> SUFFICES ASSUME NEW k \in 1 .. n PROVE r[k] = s[lo + k]  OBVIOUS
    <3>1. k \in 1 .. hi - (lo + 1) + 1 /\ (lo + 1) + k - 1 = lo + k  BY <1>2
    <3> QED  BY <2>3, <3>1
  <2> QED  BY <2>3, <2>4, <2>5
<1> DEFINE Q == [k \in 0 .. n |-> P[lo + k] - P[lo]]
<1>4. \A k \in 0 .. n : lo + k \in 0 .. Len(s) /\ P[lo + k] \in Int
  <2>1. \A k \in 0 .. n : lo + k \in 0 .. Len(s)  BY <1>2
  <2>2. \A m \in 0 .. Len(s) : P[m] \in Int  BY DEF UpTo
  <2> QED  BY <2>1, <2>2
<1>5. P[lo] \in Int
  <2>1. lo \in 0 .. Len(s)  OBVIOUS
  <2> QED  BY <2>1 DEF UpTo
<1>6. Q \in [0 .. n -> Int]
  <2>1. ASSUME NEW k \in 0 .. n PROVE P[lo + k] - P[lo] \in Int
    <3>1. PICK a \in Int, b \in Int : a = P[lo + k] /\ b = P[lo]  BY <1>4, <1>5
    <3>2. a - b \in Int  OBVIOUS
    <3> QED  BY <3>1, <3>2, Zenon
  <2> QED  BY <2>1, Zenon
<1>7. \A k \in 0 .. n : Q[k] = P[lo + k] - P[lo]  OBVIOUS
<1> HIDE DEF Q
<1>8. Q[0] = 0  BY <1>5, <1>7
<1>9. ASSUME NEW k \in 1 .. n PROVE Q[k] = Q[k - 1] + r[k]
  <2>1. k \in 0 .. n /\ k - 1 \in 0 .. n /\ lo + k \in 1 .. Len(s) /\ (lo + k) - 1 = lo + (k - 1)
    BY <1>2
  <2>2. P[lo + k] = P[lo + (k - 1)] + s[lo + k]  BY <2>1 DEF UpTo
  <2>3. s[lo + k] \in Nat  BY <2>1
  <2>4. r[k] = s[lo + k] /\ Q[k] = P[lo + k] - P[lo] /\ Q[k - 1] = P[lo + (k - 1)] - P[lo]
    BY <1>3, <1>7, <2>1
  <2>5. PICK a \in Int, b \in Int, c \in Int, d \in Nat :
          a = P[lo + k] /\ b = P[lo + (k - 1)] /\ c = P[lo] /\ d = s[lo + k]
    BY <1>4, <1>5, <2>1, <2>3
  <2>6. a = b + d  BY <2>2, <2>5, Zenon
  <2>7. a - c = (b - c) + d  BY <2>6
  <2> QED  BY <2>4, <2>5, <2>7, Zenon
<1>10. UpTo(r, Q) /\ Len(r) \in Nat  BY <1>3, <1>6, <1>8, <1>9 DEF UpTo
<1>11. Sum(r) = Q[n]  BY <1>3, <1>10, SumIs
<1>12. n \in 0 .. n /\ lo + n = hi  BY <1>2
<1> QED  BY <1>1, <1>3, <1>7, <1>11, <1>12

LEMMA SumSplit ==
  ASSUME NEW s \in Seq(Nat), NEW lo \in Nat, NEW hi \in lo .. Len(s), NEW mid \in lo .. hi
  PROVE  Sum(SubSeq(s, lo + 1, hi)) = Sum(SubSeq(s, lo + 1, mid)) + Sum(SubSeq(s, mid + 1, hi))
<1>1. PICK P \in [0 .. Len(s) -> Nat] : UpTo(s, P)  BY SomeUpTo
<1>2. mid \in Nat /\ mid \in lo .. Len(s) /\ hi \in mid .. Len(s)  OBVIOUS
<1>3. lo \in 0 .. Len(s) /\ hi \in 0 .. Len(s) /\ mid \in 0 .. Len(s)  OBVIOUS
<1>4. PICK a \in Nat, b \in Nat, c \in Nat : a = P[lo] /\ b = P[mid] /\ c = P[hi]  BY <1>3
<1>5. /\ Sum(SubSeq(s, lo + 1, hi)) = P[hi] - P[lo]
      /\ Sum(SubSeq(s, lo + 1, mid)) = P[mid] - P[lo]
      /\ Sum(SubSeq(s, mid + 1, hi)) = P[hi] - P[mid]
  BY <1>1, <1>2, SumPart
<1>6. c - a = (b - a) + (c - b)  OBVIOUS
<1> QED  BY <1>4, <1>5, <1>6, Zenon

LEMMA SumWhole == ASSUME NEW s \in Seq(Nat) PROVE Sum(SubSeq(s, 1, Len(s))) = Sum(s)
<1>1. PICK P \in [0 .. Len(s) -> Nat] : UpTo(s, P)  BY SomeUpTo
<1>2. Len(s) \in Nat /\ 0 \in Nat /\ Len(s) \in 0 .. Len(s) /\ 0 + 1 = 1  OBVIOUS
<1>3. Sum(SubSeq(s, 0 + 1, Len(s))) = P[Len(s)] - P[0]  BY <1>1, <1>2, SumPart
<1>4. Sum(s) = P[Len(s)] /\ P[Len(s)] \in Nat /\ P[0] = 0  BY <1>1, <1>2, SumIs DEF UpTo
<1> QED  BY <1>2, <1>3, <1>4

---------------------------------------------------------------------------
(* Totals: the sum of the values of a function with a finite domain.       *)

TotalOf(F) == Units([x \in DOMAIN F |-> 1 .. F[x]])

GrowsAt(S, x, F, G) ==
  /\ IsFiniteSet(S) /\ x \notin S /\ F \in [S -> Nat] /\ G \in [S \cup {x} -> Nat]
  /\ \A y \in S : G[y] = F[y]

LEMMA TotalMore ==
  ASSUME NEW S, NEW x, NEW F, NEW G, GrowsAt(S, x, F, G)
  PROVE  TotalOf(G) = TotalOf(F) + G[x]
<1> USE DEF GrowsAt
<1> DEFINE f == [y \in DOMAIN F |-> 1 .. F[y]]
           g == [y \in DOMAIN G |-> 1 .. G[y]]
<1>1. \A n \in Nat : IsFiniteSet(1 .. n) /\ Cardinality(1 .. n) = n
  <2> SUFFICES ASSUME NEW n \in Nat PROVE IsFiniteSet(1 .. n) /\ Cardinality(1 .. n) = n  OBVIOUS
  <2>1. 1 \in Int /\ n \in Int  OBVIOUS
  <2>2. IsFiniteSet(1 .. n) /\ Cardinality(1 .. n) = IF 1 > n THEN 0 ELSE n - 1 + 1
    BY <2>1, FS_Interval
  <2> QED  BY <2>2
<1>2. DOMAIN F = S /\ DOMAIN G = S \cup {x} /\ G[x] \in Nat  OBVIOUS
<1>3. DOMAIN f = S /\ DOMAIN g = S \cup {x} /\ g[x] = 1 .. G[x]  BY <1>2
<1>4. \A y \in S : IsFiniteSet(f[y]) /\ g[y] = f[y]  BY <1>1
<1>5. Extends(g, f, S, x)
  <2> HIDE DEF f, g
  <2> QED  BY <1>1, <1>2, <1>3, <1>4 DEF Extends
<1>6. Units(g) = Units(f) + Cardinality(g[x])
  <2> HIDE DEF f, g
  <2> QED  BY <1>5, UnitsMore DEF UnitsAdd
<1>7. Cardinality(g[x]) = G[x]  BY <1>1, <1>2, <1>3
<1> QED  BY <1>6, <1>7 DEF TotalOf

LEMMA TotalNone == ASSUME NEW F, DOMAIN F = {} PROVE TotalOf(F) = 0
<1>1. UNION {{i} \X (1 .. F[i]) : i \in DOMAIN F} = {}  OBVIOUS
<1>2. Units([x \in DOMAIN F |-> 1 .. F[x]]) = Cardinality(UNION {{i} \X (1 .. F[i]) : i \in DOMAIN F})
  BY DEF Units
<1> QED  BY <1>1, <1>2, FS_EmptySet DEF TotalOf

LEMMA TotalOne == ASSUME NEW x, NEW F \in [{x} -> Nat] PROVE TotalOf(F) = F[x]
<1>1. PICK E : E = [y \in {} |-> 0]  OBVIOUS
<1>2. E \in [{} -> Nat] /\ DOMAIN E = {}  BY <1>1
<1>3. F \in [{} \cup {x} -> Nat] /\ x \notin {} /\ IsFiniteSet({}) /\ F[x] \in Nat
  BY FS_EmptySet
<1>6. GrowsAt({}, x, E, F)  BY <1>2, <1>3 DEF GrowsAt
<1>4. TotalOf(F) = TotalOf(E) + F[x]  BY <1>6, TotalMore
<1>5. TotalOf(E) = 0  BY <1>2, TotalNone
<1> QED  BY <1>3, <1>4, <1>5

LEMMA TotalNat == ASSUME NEW S, IsFiniteSet(S), NEW F \in [S -> Nat] PROVE TotalOf(F) \in Nat
<1>1. PICK T : T = {{i} \X (1 .. F[i]) : i \in S}  OBVIOUS
<1> DEFINE h == [i \in S |-> {i} \X (1 .. F[i])]
<1>2. h \in Surjection(S, T)  BY <1>1 DEF Surjection
<1>3. IsFiniteSet(T)
  <2> HIDE DEF h
  <2> QED  BY <1>2, FS_Surjection
<1>4. \A t \in T : IsFiniteSet(t)
  <2> SUFFICES ASSUME NEW i \in S PROVE IsFiniteSet({i} \X (1 .. F[i]))  BY <1>1
  <2>1. 1 \in Int /\ F[i] \in Int  OBVIOUS
  <2>2. IsFiniteSet(1 .. F[i])  BY <2>1, FS_Interval
  <2>3. IsFiniteSet({i})  BY FS_Singleton
  <2> QED  BY <2>2, <2>3, FS_Product
<1>5. IsFiniteSet(UNION T)  BY <1>3, <1>4, FS_UNION
<1>6. TotalOf(F) = Cardinality(UNION T)
  <2>1. DOMAIN F = S  OBVIOUS
  <2> QED  BY <1>1, <2>1 DEF TotalOf, Units
<1> QED  BY <1>5, <1>6, FS_CardinalityType

(* One value less the rest is a total too.                                 *)
LEMMA TotalWithout ==
  ASSUME NEW S, IsFiniteSet(S), NEW x \in S, NEW F \in [S -> Nat]
  PROVE  TotalOf(F) = TotalOf([y \in S \ {x} |-> F[y]]) + F[x]
<1>1. PICK R, E : R = S \ {x} /\ E = [y \in R |-> F[y]]  OBVIOUS
<1>2. IsFiniteSet(R) /\ x \notin R /\ R \cup {x} = S  BY <1>1, FS_RemoveElement
<1>3. E \in [R -> Nat] /\ \A y \in R : F[y] = E[y]  BY <1>1
<1>4. GrowsAt(R, x, E, F)  BY <1>2, <1>3 DEF GrowsAt
<1> QED  BY <1>1, <1>4, TotalMore

ChangesAt(S, x, F, G) ==
  /\ IsFiniteSet(S) /\ x \in S /\ F \in [S -> Nat] /\ G \in [S -> Nat]
  /\ \A y \in S \ {x} : G[y] = F[y]

LEMMA TotalChange ==
  ASSUME NEW S, NEW x, NEW F, NEW G, ChangesAt(S, x, F, G)
  PROVE  TotalOf(G) + F[x] = TotalOf(F) + G[x]
<1> USE DEF ChangesAt
<1>1. [y \in S \ {x} |-> F[y]] = [y \in S \ {x} |-> G[y]]  OBVIOUS
<1>2. PICK E : E = [y \in S \ {x} |-> F[y]]  OBVIOUS
<1>3. TotalOf(F) = TotalOf(E) + F[x] /\ TotalOf(G) = TotalOf(E) + G[x]
  <2>0. IsFiniteSet(S) /\ x \in S /\ F \in [S -> Nat] /\ G \in [S -> Nat]  OBVIOUS
  <2>1. TotalOf(F) = TotalOf(E) + F[x]  BY <1>2, <2>0, TotalWithout
  <2>2. TotalOf(G) = TotalOf([y \in S \ {x} |-> G[y]]) + G[x]  BY <2>0, TotalWithout
  <2> QED  BY <1>1, <1>2, <2>1, <2>2
<1>4. TotalOf(E) \in Nat
  <2>1. IsFiniteSet(S \ {x})  BY FS_RemoveElement
  <2> QED  BY <1>2, <2>1, TotalNat
<1>5. F[x] \in Nat /\ G[x] \in Nat  OBVIOUS
<1> QED  BY <1>3, <1>4, <1>5

LEMMA TotalAbove ==
  ASSUME NEW S, IsFiniteSet(S), NEW x \in S, NEW F \in [S -> Nat]
  PROVE  F[x] <= TotalOf(F)
<1>1. PICK E : E = [y \in S \ {x} |-> F[y]]  OBVIOUS
<1>2. TotalOf(F) = TotalOf(E) + F[x]  BY <1>1, TotalWithout
<1>3. TotalOf(E) \in Nat
  <2>1. IsFiniteSet(S \ {x})  BY FS_RemoveElement
  <2> QED  BY <1>1, <2>1, TotalNat
<1>4. F[x] \in Nat  OBVIOUS
<1> QED  BY <1>2, <1>3, <1>4

---------------------------------------------------------------------------
(* Modulo 256.                                                             *)

(* T is s, or s modulo 256 if that does not fit into a status.             *)
Keeps(T, s) ==
  /\ \E k \in Int : T = s + 256 * k
  /\ s < 256 => T = s

LEMMA KeepsMod == ASSUME NEW T \in Nat, NEW s \in Nat, Keeps(T, s) PROVE T % 256 = s % 256
<1>1. PICK k \in Int : T = s + 256 * k  BY DEF Keeps
<1> QED  BY <1>1

(* The share v of T is cut to w.                                           *)
Cuts(T, U, v, w) ==
  /\ U + v = T + w /\ v <= T /\ (v < 256 => w = v) /\ \E j \in Int : v = w + 256 * j

LEMMA KeepsCut ==
  ASSUME NEW T \in Nat, NEW U \in Nat, NEW s \in Nat, NEW v \in Nat, NEW w \in Nat,
         Keeps(T, s), Cuts(T, U, v, w)
  PROVE  Keeps(U, s)
<1>0. U + v = T + w /\ v <= T /\ (v < 256 => w = v)  BY DEF Cuts
<1>1. PICK k \in Int : T = s + 256 * k  BY DEF Keeps
<1>4. PICK j \in Int : v = w + 256 * j  BY DEF Cuts
<1>2. U = s + 256 * (k - j) /\ k - j \in Int  BY <1>0, <1>1, <1>4
<1>3. s < 256 => U = s  BY <1>0 DEF Keeps
<1> QED  BY <1>2, <1>3 DEF Keeps

(* What is left of a value in an exit status, or by the test before it.    *)
LEMMA ReducedIs ==
  ASSUME NEW v \in Nat
  PROVE  /\ Reduced(v) \in Nat /\ (v < 256 => Reduced(v) = v)
         /\ \E j \in Int : v = Reduced(v) + 256 * j
<1>1. v % 256 \in 0 .. 255 /\ v \div 256 \in Int /\ v = (v % 256) + 256 * (v \div 256)  OBVIOUS
<1>2. v = v + 256 * 0 /\ 0 \in Int  OBVIOUS
<1> QED  BY <1>1, <1>2 DEF Reduced

LEMMA StatusIs ==
  ASSUME NEW v \in Nat
  PROVE  /\ Reduced(v) % 256 \in Nat /\ (v < 256 => Reduced(v) % 256 = v)
         /\ \E j \in Int : v = (Reduced(v) % 256) + 256 * j
<1>0. PICK w : w = Reduced(v)  OBVIOUS
<1>1. w \in Nat /\ (v < 256 => w = v) /\ \E j \in Int : v = w + 256 * j  BY <1>0, ReducedIs, ZenonT(30)
<1>5. PICK j \in Int : v = w + 256 * j  BY <1>1
<1>2. w % 256 \in 0 .. 255 /\ w \div 256 \in Int /\ w = (w % 256) + 256 * (w \div 256)  BY <1>1
<1>3. v = (w % 256) + 256 * ((w \div 256) + j) /\ (w \div 256) + j \in Int  BY <1>1, <1>2, <1>5
<1>4. v < 256 => w % 256 = v  BY <1>1
<1> QED  BY <1>0, <1>2, <1>3, <1>4

---------------------------------------------------------------------------
(* Families of nodes: the processes that are there at a time.              *)

Nodes(n) == {q \in Nat \X Nat : Lo(q) <= Hi(q) /\ Hi(q) <= n}

Nested(q, r) == Within(q, r) \/ Within(r, q) \/ Hi(q) <= Lo(r) \/ Hi(r) <= Lo(q)

IsParent(L, q, x) ==
  x \in L \ {q} /\ Within(q, x) /\ \A r \in L \ {q} : Within(q, r) => Within(x, r)
ParentOf(L, q) ==
  CHOOSE x \in L \ {q} : Within(q, x) /\ \A r \in L \ {q} : Within(q, r) => Within(x, r)

(* n numbers: two nodes are apart or one lies within the other, and each   *)
(* has a parent.                                                           *)
Family(L, n) ==
  /\ L \subseteq Nodes(n) /\ IsFiniteSet(L) /\ <<0, n>> \in L
  /\ \A q \in L \ {<<0, n>>} : Lo(q) < Hi(q) /\ \E x : IsParent(L, q, x)
  /\ \A q, r \in L : Nested(q, r)

KidsOf(L, n, p) == {q \in L \ {<<0, n>>} : ParentOf(L, q) = p}

(* Nobody in p has a number from m on.                                     *)
Free(L, p, m) == \A r \in L \ {p} : Within(r, p) => Hi(r) <= m

LEMMA SameNode ==
  ASSUME NEW n, NEW q \in Nodes(n), NEW r \in Nodes(n), Within(q, r), Within(r, q)
  PROVE  q = r
<1>1. PICK a \in Nat, b \in Nat : q = <<a, b>>  BY DEF Nodes
<1>2. PICK c \in Nat, d \in Nat : r = <<c, d>>  BY DEF Nodes
<1>3. c <= a /\ b <= d /\ a <= c /\ d <= b  BY <1>1, <1>2 DEF Within, Lo, Hi
<1>4. a = c /\ b = d  BY <1>3
<1> QED  BY <1>1, <1>2, <1>4

LEMMA ParentIs ==
  ASSUME NEW n, NEW L, L \subseteq Nodes(n), NEW q, NEW x, IsParent(L, q, x)
  PROVE  ParentOf(L, q) = x
<1>1. PICK y : y = ParentOf(L, q)  OBVIOUS
<1>2. IsParent(L, q, y)  BY <1>1 DEF IsParent, ParentOf
<1>3. x \in Nodes(n) /\ y \in Nodes(n) /\ Within(x, y) /\ Within(y, x)  BY <1>2 DEF IsParent
<1> QED  BY <1>1, <1>3, SameNode

LEMMA ParentThere ==
  ASSUME NEW n, NEW L, Family(L, n), NEW q \in L \ {<<0, n>>}
  PROVE  IsParent(L, q, ParentOf(L, q))
<1>1. PICK x : IsParent(L, q, x)  BY DEF Family
<1> QED  BY <1>1, ParentIs DEF Family

(* p has a child that begins where it is free.                             *)
Born(L, p, lo, mid, n) ==
  LET c == <<lo, mid>>
      M == L \cup {c}
  IN  /\ c \notin L /\ Family(M, n) /\ ParentOf(M, c) = p
      /\ \A q \in L \ {<<0, n>>} : ParentOf(M, q) = ParentOf(L, q) /\ ParentOf(L, q) \in L
      /\ Free(M, p, mid) /\ Free(M, c, lo)
      /\ \A q \in L \ {p}, m \in Nat : Free(L, q, m) => Free(M, q, m)

LEMMA BirthOf ==
  ASSUME NEW n \in Nat, NEW L, Family(L, n), NEW p \in L, NEW lo \in Nat, NEW mid \in Nat,
         Lo(p) <= lo, lo < mid, mid < Hi(p), Free(L, p, lo)
  PROVE  Born(L, p, lo, mid, n)
<1>1. PICK c : c = <<lo, mid>>  OBVIOUS
<1>2. PICK M : M = L \cup {c}  OBVIOUS
<1>3. Lo(c) = lo /\ Hi(c) = mid  BY <1>1 DEF Lo, Hi
<1>4. \A q \in L : Lo(q) \in Nat /\ Hi(q) \in Nat /\ Lo(q) <= Hi(q) /\ Hi(q) <= n
  BY DEF Family, Nodes, Lo, Hi
<1>5. \A q \in L \ {<<0, n>>} : Lo(q) < Hi(q)  BY DEF Family
<1>6. \A q \in L \ {p} : \/ Hi(q) <= lo \/ Within(p, q)
                         \/ Hi(q) <= Lo(p) \/ Hi(p) <= Lo(q)
  BY DEF Family, Nested, Free
<1>7. Within(c, p)  BY <1>3, <1>4 DEF Within
<1>8. c \notin L
  <2> SUFFICES ASSUME c \in L PROVE FALSE  OBVIOUS
  <2>1. c # p  BY <1>3, <1>4
  <2>2. Hi(c) <= lo  BY <1>7, <2>1 DEF Free
  <2> QED  BY <1>3, <2>2
<1>9. c \in Nodes(n)  BY <1>1, <1>3, <1>4 DEF Nodes
(* Nobody but the root and p and those around p holds anything of c.       *)
<1>10. ASSUME NEW q \in L \ {p} PROVE Hi(q) <= lo \/ Within(p, q) \/ mid <= Lo(q)
  BY <1>4, <1>6, <1>10
<1>11. ASSUME NEW q \in L \ {p}, Within(c, q) PROVE Within(p, q)
  BY <1>3, <1>4, <1>10, <1>11 DEF Within
<1>12. ASSUME NEW q \in L \ {<<0, n>>} PROVE ~Within(q, c)
  <2>1. Lo(q) < Hi(q)  BY <1>5, <1>12
  <2>2. CASE q = p  BY <1>3, <1>4, <2>2 DEF Within
  <2>3. CASE q # p  BY <1>3, <1>4, <1>10, <1>12, <2>1, <2>3 DEF Within
  <2> QED  BY <2>2, <2>3
<1>13. c # <<0, n>> /\ ~Within(<<0, n>>, c)
  <2>1. <<0, n>> \in L  BY DEF Family
  <2>2. Hi(<<0, n>>) = n /\ mid < n  BY <1>4 DEF Hi
  <2> QED  BY <1>3, <1>8, <2>1, <2>2, <1>4 DEF Within
<1>14. IsParent(M, c, p)
  <2>1. p \in M \ {c}  BY <1>2, <1>8
  <2>2. ASSUME NEW r \in M \ {c}, Within(c, r) PROVE Within(p, r)
    <3>1. CASE r = p  BY <1>4, <3>1 DEF Within
    <3>2. CASE r # p  BY <1>2, <1>11, <2>2, <3>2
    <3> QED  BY <3>1, <3>2
  <2> QED  BY <1>7, <2>1, <2>2 DEF IsParent
<1>15. ASSUME NEW q \in L \ {<<0, n>>} PROVE IsParent(M, q, ParentOf(L, q)) /\ ParentOf(L, q) \in L
  <2>1. IsParent(L, q, ParentOf(L, q))  BY <1>15, ParentThere
  <2>2. ~Within(q, c)  BY <1>12, <1>15
  <2> QED  BY <1>2, <2>1, <2>2 DEF IsParent
<1>16. M \subseteq Nodes(n)  BY <1>2, <1>9 DEF Family
<1>17. ParentOf(M, c) = p /\ \A q \in L \ {<<0, n>>} : ParentOf(M, q) = ParentOf(L, q) /\ ParentOf(L, q) \in L
  <2>1. ParentOf(M, c) = p  BY <1>14, <1>16, ParentIs
  <2>2. ASSUME NEW q \in L \ {<<0, n>>} PROVE ParentOf(M, q) = ParentOf(L, q) /\ ParentOf(L, q) \in L
    BY <1>15, <1>16, <2>2, ParentIs
  <2> QED  BY <2>1, <2>2
<1>18. \A q, r \in M : Nested(q, r)
  <2>1. \A q \in L : Nested(q, c) /\ Nested(c, q)
    <3> SUFFICES ASSUME NEW q \in L PROVE Nested(q, c) /\ Nested(c, q)  OBVIOUS
    <3>1. CASE q = p  BY <1>7, <3>1 DEF Nested
    <3>2. CASE q # p
      <4>1. CASE Within(p, q)
        <5>1. Within(c, q)  BY <1>3, <1>4, <4>1 DEF Within
        <5> QED  BY <5>1 DEF Nested
      <4>2. CASE Hi(q) <= lo \/ mid <= Lo(q)  BY <1>3, <4>2 DEF Nested
      <4> QED  BY <1>10, <3>2, <4>1, <4>2
    <3> QED  BY <3>1, <3>2
  <2>2. Nested(c, c)  BY <1>3 DEF Nested, Within
  <2> QED  BY <1>2, <2>1, <2>2 DEF Family
<1>19. Family(M, n)
  <2>1. IsFiniteSet(M) /\ <<0, n>> \in M  BY <1>2, FS_AddElement DEF Family
  <2>2. ASSUME NEW q \in M \ {<<0, n>>} PROVE Lo(q) < Hi(q) /\ \E x : IsParent(M, q, x)
    <3>1. CASE q = c  BY <1>3, <1>14, <3>1
    <3>2. CASE q \in L \ {<<0, n>>}  BY <1>5, <1>15, <3>2
    <3> QED  BY <1>2, <2>2, <3>1, <3>2
  <2> QED  BY <1>16, <1>18, <2>1, <2>2 DEF Family
<1>20. Free(M, p, mid)
  <2> SUFFICES ASSUME NEW r \in M \ {p}, Within(r, p) PROVE Hi(r) <= mid  BY DEF Free
  <2>1. CASE r = c  BY <1>3, <2>1
  <2>2. CASE r # c
    <3>1. r \in L \ {p}  BY <1>2, <2>2
    <3>2. Hi(r) <= lo /\ Hi(r) \in Nat  BY <1>4, <3>1 DEF Free
    <3> QED  BY <3>2
  <2> QED  BY <2>1, <2>2
<1>21. Free(M, c, lo)
  <2> SUFFICES ASSUME NEW r \in M \ {c}, Within(r, c) PROVE FALSE  BY DEF Free
  <2>1. r \in L  BY <1>2
  <2> QED  BY <1>12, <1>13, <2>1
<1>22. ASSUME NEW q \in L \ {p}, NEW m \in Nat, Free(L, q, m) PROVE Free(M, q, m)
  <2> SUFFICES ASSUME NEW r \in M \ {q}, Within(r, q) PROVE Hi(r) <= m  BY DEF Free
  <2>1. CASE r = c
    <3>1. Within(p, q) /\ p \in L \ {q}  BY <1>11, <1>22, <2>1
    <3>2. Hi(p) <= m  BY <1>22, <3>1 DEF Free
    <3> QED  BY <1>3, <1>4, <2>1, <3>2
  <2>2. CASE r # c  BY <1>2, <1>22, <2>2 DEF Free
  <2> QED  BY <2>1, <2>2
<1> QED  BY <1>1, <1>2, <1>8, <1>17, <1>19, <1>20, <1>21, <1>22 DEF Born

(* A process without children is gone.                                     *)
Leaves(L, n, p, M) ==
  Family(L, n) /\ p \in L \ {<<0, n>>} /\ KidsOf(L, n, p) = {} /\ M = L \ {p}

LEMMA DeathOf ==
  ASSUME NEW L, NEW n, NEW p, NEW M, Leaves(L, n, p, M)
  PROVE  /\ Family(M, n) /\ ParentOf(L, p) \in M
         /\ \A q \in M \ {<<0, n>>} : ParentOf(M, q) = ParentOf(L, q)
<1> USE DEF Leaves
<1>1. ASSUME NEW q \in M \ {<<0, n>>} PROVE IsParent(M, q, ParentOf(L, q))
  <2>1. IsParent(L, q, ParentOf(L, q))  BY <1>1, ParentThere
  <2>2. ParentOf(L, q) # p  BY <1>1 DEF KidsOf
  <2> QED  BY <1>1, <2>1, <2>2 DEF IsParent
<1>2. M \subseteq Nodes(n) /\ IsFiniteSet(M) /\ <<0, n>> \in M
  BY FS_RemoveElement DEF Family
<1>3. Family(M, n)  BY <1>1, <1>2 DEF Family
<1>4. \A q \in M \ {<<0, n>>} : ParentOf(M, q) = ParentOf(L, q)  BY <1>1, <1>2, ParentIs
<1>5. ParentOf(L, p) \in M
  <2>1. IsParent(L, p, ParentOf(L, p))  BY ParentThere
  <2> QED  BY <2>1 DEF IsParent
<1> QED  BY <1>3, <1>4, <1>5

(* If the root has no child it is alone: the largest of the others would   *)
(* be one.                                                                 *)
LEMMA RootAlone ==
  ASSUME NEW n \in Nat, NEW L, Family(L, n), KidsOf(L, n, <<0, n>>) = {}
  PROVE  L = {<<0, n>>}
<1> SUFFICES ASSUME L \ {<<0, n>>} # {} PROVE FALSE  BY DEF Family
<1> DEFINE W == {n - (Hi(q) - Lo(q)) : q \in L \ {<<0, n>>}}
<1>1. \A q \in L : Lo(q) \in Nat /\ Hi(q) \in Nat /\ Lo(q) <= Hi(q) /\ Hi(q) <= n
  BY DEF Family, Nodes, Lo, Hi
<1>2. W \in SUBSET Nat /\ W # {}  BY <1>1
<1>3. PICK w \in W : \A v \in W : w <= v
  <2> HIDE DEF W
  <2> QED  BY <1>2, SomeLeast
<1>4. PICK q \in L \ {<<0, n>>} : w = n - (Hi(q) - Lo(q))  BY <1>3
<1>5. \A r \in L \ {<<0, n>>} : n - (Hi(q) - Lo(q)) <= n - (Hi(r) - Lo(r))  BY <1>3, <1>4
<1>6. PICK x : IsParent(L, q, x) /\ x = ParentOf(L, q)  BY ParentThere
<1>7. x # <<0, n>>  BY <1>6 DEF KidsOf
<1>8. x \in L \ {<<0, n>>} /\ x # q /\ Within(q, x)  BY <1>6, <1>7 DEF IsParent
<1>9. n - (Hi(q) - Lo(q)) <= n - (Hi(x) - Lo(x))  BY <1>5, <1>8
<1>10. Lo(x) <= Lo(q) /\ Hi(q) <= Hi(x)  BY <1>8 DEF Within
<1>11. Lo(x) >= Lo(q) /\ Hi(q) >= Hi(x)  BY <1>1, <1>8, <1>9, <1>10
<1>12. Within(x, q)  BY <1>1, <1>8, <1>11 DEF Within
<1>13. q \in Nodes(n) /\ x \in Nodes(n)  BY <1>8 DEF Family
<1> QED  BY <1>8, <1>12, <1>13, SameNode

---------------------------------------------------------------------------
(* The processes of fork.c.  All is said of the values that the variables  *)
(* have: s for nums, c for calls, v for value, z for zombies.              *)

PartOf(s, q) == SubSeq(s, Lo(q) + 1, Hi(q))

(* What p has added or has still to add, and the statuses it may find.     *)
OwnOf(s, c, v, p) == IF v[p] = NoValue THEN Sum(PartOf(s, Last(c[p]))) ELSE v[p]
HoldsOf(s, c, v, z) == [p \in DOMAIN c |-> OwnOf(s, c, v, p) + Sum(z[p])]

(* p adds its numbers from the beginning of i on, those before are with    *)
(* its children.                                                           *)
AtWork(L, p, i) ==
  /\ i \in Nat \X Nat /\ Lo(p) <= Lo(i) /\ Lo(i) <= Hi(i) /\ Hi(i) = Hi(p)
  /\ Free(L, p, Lo(i))

Forms(s, c, v, z) ==
  /\ Family(DOMAIN c, Len(s))
  /\ c \in [DOMAIN c -> Seq(Nat \X Nat)] /\ \A p \in DOMAIN c : c[p] # <<>>
  /\ v \in [DOMAIN c -> Nat \cup {NoValue}] /\ z \in [DOMAIN c -> Seq(Nat)]
  /\ \A p \in DOMAIN c : v[p] = NoValue => AtWork(DOMAIN c, p, Last(c[p]))

(* Each call but the outermost of a process has a child to wait for.       *)
Counted(s, c, z) ==
  \A p \in DOMAIN c : Len(c[p]) = 1 + Len(z[p]) + Cardinality(KidsOf(DOMAIN c, Len(s), p))

ForkState(s, c, v, z) ==
  /\ s \in Seq(Nat) /\ Forms(s, c, v, z) /\ Counted(s, c, z)
  /\ Keeps(TotalOf(HoldsOf(s, c, v, z)), Sum(s))

LEMMA FrontIs ==
  ASSUME NEW S, NEW e \in Seq(S), Len(e) > 0
  PROVE  /\ Front(e) \in Seq(S) /\ Len(Front(e)) = Len(e) - 1
         /\ \A m \in 1 .. Len(e) - 1 : Front(e)[m] = e[m]
<1>1. PICK n \in Nat : n = Len(e) - 1  OBVIOUS
<1>2. \A m \in 1 .. n : e[m] \in S  BY <1>1
<1>3. /\ SubSeq(e, 1, n) \in Seq(S) /\ Len(SubSeq(e, 1, n)) = n
      /\ \A m \in 1 .. n : SubSeq(e, 1, n)[m] = e[m]
  BY <1>1, <1>2
<1> QED  BY <1>1, <1>3 DEF Front

LEMMA OneIs ==
  ASSUME NEW S, NEW x \in S
  PROVE  <<x>> \in Seq(S) /\ Len(<<x>>) = 1 /\ <<x>> # <<>> /\ Last(<<x>>) = x
BY DEF Last

LEMMA AppendIs ==
  ASSUME NEW S, NEW e \in Seq(S), NEW x \in S
  PROVE  /\ Append(e, x) \in Seq(S) /\ Len(Append(e, x)) = Len(e) + 1
         /\ Append(e, x) # <<>> /\ Last(Append(e, x)) = x
<1>1. /\ Append(e, x) \in Seq(S) /\ Len(Append(e, x)) = Len(e) + 1
      /\ Append(e, x)[Len(e) + 1] = x
  OBVIOUS
<1>2. Len(Append(e, x)) > 0  BY <1>1
<1> QED  BY <1>1, <1>2 DEF Last

LEMMA PartNat ==
  ASSUME NEW s \in Seq(Nat), NEW q \in Nat \X Nat, Lo(q) <= Hi(q), Hi(q) <= Len(s)
  PROVE  Sum(PartOf(s, q)) \in Nat
<1>1. PICK P \in [0 .. Len(s) -> Nat] : UpTo(s, P)  BY SomeUpTo
<1>2. PICK lo \in Nat, hi \in Nat : lo = Lo(q) /\ hi = Hi(q)  BY DEF Lo, Hi
<1>3. hi \in lo .. Len(s)  BY <1>2
<1>4. SubSeq(s, lo + 1, hi) \in Seq(Nat)  BY <1>1, <1>3, SumPart
<1> QED  BY <1>2, <1>4, SumNat DEF PartOf

LEMMA HoldsTyped ==
  ASSUME NEW s \in Seq(Nat), NEW c, NEW v, NEW z, Forms(s, c, v, z)
  PROVE  /\ HoldsOf(s, c, v, z) \in [DOMAIN c -> Nat]
         /\ \A p \in DOMAIN c : OwnOf(s, c, v, p) \in Nat /\ Sum(z[p]) \in Nat
<1>1. ASSUME NEW p \in DOMAIN c PROVE OwnOf(s, c, v, p) \in Nat /\ Sum(z[p]) \in Nat
  <2>1. Sum(z[p]) \in Nat
    <3>1. z[p] \in Seq(Nat)  BY DEF Forms
    <3> QED  BY <3>1, SumNat
  <2>2. CASE v[p] = NoValue
    <3>1. PICK i : i = Last(c[p])  OBVIOUS
    <3>2. AtWork(DOMAIN c, p, i)  BY <2>2, <3>1 DEF Forms
    <3>3. Hi(p) <= Len(s)  BY DEF Forms, Family, Nodes
    <3>4. i \in Nat \X Nat /\ Lo(i) <= Hi(i) /\ Hi(i) <= Len(s)  BY <3>2, <3>3 DEF AtWork
    <3>5. Sum(PartOf(s, i)) \in Nat  BY <3>4, PartNat
    <3> QED  BY <2>1, <2>2, <3>1, <3>5 DEF OwnOf
  <2>3. CASE v[p] # NoValue
    <3>1. v[p] \in Nat  BY <2>3 DEF Forms
    <3> QED  BY <2>1, <2>3, <3>1 DEF OwnOf
  <2> QED  BY <2>2, <2>3
<1>2. \A p \in DOMAIN c : OwnOf(s, c, v, p) + Sum(z[p]) \in Nat
  <2> SUFFICES ASSUME NEW p \in DOMAIN c PROVE OwnOf(s, c, v, p) + Sum(z[p]) \in Nat  OBVIOUS
  <2>1. PICK a \in Nat, b \in Nat : a = OwnOf(s, c, v, p) /\ b = Sum(z[p])  BY <1>1
  <2> QED  BY <2>1
<1> QED  BY <1>1, <1>2 DEF HoldsOf

(* A call that adds one number, or none, returns.                          *)
LEMMA BaseKeeps ==
  ASSUME NEW s, NEW c, NEW v, NEW z, ForkState(s, c, v, z), NEW p \in DOMAIN c,
         v[p] = NoValue, NEW w, w = [v EXCEPT ![p] = Sum(PartOf(s, Last(c[p])))]
  PROVE  ForkState(s, c, w, z)
<1>1. Forms(s, c, v, z) /\ s \in Seq(Nat)  BY DEF ForkState
<1>2. PICK x \in Nat : x = Sum(PartOf(s, Last(c[p])))  BY <1>1, HoldsTyped DEF OwnOf
<1>3. NoValue \notin Nat  BY SumsAssumption
<1>4. v \in [DOMAIN c -> Nat \cup {NoValue}]  BY <1>1 DEF Forms
<1>5. w \in [DOMAIN c -> Nat \cup {NoValue}] /\ w[p] = x /\ \A q \in DOMAIN c \ {p} : w[q] = v[q]
  BY <1>2, <1>4
<1>6. Forms(s, c, w, z)  BY <1>1, <1>3, <1>5 DEF Forms
<1>7. HoldsOf(s, c, w, z) = HoldsOf(s, c, v, z)
  <2>1. ASSUME NEW q \in DOMAIN c PROVE OwnOf(s, c, w, q) = OwnOf(s, c, v, q)
    <3>1. CASE q = p  BY <1>2, <1>3, <1>5, <3>1 DEF OwnOf
    <3>2. CASE q # p  BY <1>5, <3>2 DEF OwnOf
    <3> QED  BY <3>1, <3>2
  <2> QED  BY <2>1 DEF HoldsOf
<1> QED  BY <1>6, <1>7 DEF ForkState

Trades(A, B, x, X, Y, g, b) ==
  /\ A \in Nat /\ B \in Nat /\ x \in Nat /\ X \in Nat /\ Y \in Nat /\ g \in Nat /\ b \in Nat
  /\ B + (x + X) = A + ((g + b) + Y) /\ X = Y + g /\ x + X <= A

LEMMA Traded ==
  ASSUME NEW A, NEW B, NEW x, NEW X, NEW Y, NEW g, NEW b, Trades(A, B, x, X, Y, g, b)
  PROVE  B + x = A + b /\ x <= A
BY DEF Trades

(* A wait takes the status of some child.                                  *)
LEMMA WaitKeeps ==
  ASSUME NEW s, NEW c, NEW v, NEW z, ForkState(s, c, v, z), NEW p \in DOMAIN c,
         v[p] # NoValue, Len(c[p]) > 1, NEW k \in 1 .. Len(z[p]),
         NEW d, d = [c EXCEPT ![p] = Front(@)],
         NEW w, w = [v EXCEPT ![p] = z[p][k] + Reduced(v[p])],
         NEW y, y = [z EXCEPT ![p] = RemoveAt(@, k)]
  PROVE  ForkState(s, d, w, y)
<1>1. Forms(s, c, v, z) /\ s \in Seq(Nat)  BY DEF ForkState
<1> DEFINE L == DOMAIN c
<1>2. /\ v \in [L -> Nat \cup {NoValue}] /\ z \in [L -> Seq(Nat)] /\ c \in [L -> Seq(Nat \X Nat)]
      /\ IsFiniteSet(L)
  BY <1>1 DEF Forms, Family
<1>3. PICK x \in Nat : x = v[p]  BY <1>2
<1>4. PICK t \in Seq(Nat) : t = z[p]  BY <1>2
<1>5. k \in 1 .. Len(t) /\ t[k] \in Nat  BY <1>4
<1>6. PICK u \in Seq(Nat) : u = RemoveAt(t, k) /\ Len(u) = Len(t) - 1 /\ Sum(t) = Sum(u) + t[k]
  BY <1>5, SumRemove
<1>7. PICK r : r = Reduced(x)  OBVIOUS
<1>8. r \in Nat /\ (x < 256 => r = x) /\ \E j \in Int : x = r + 256 * j  BY <1>7, ReducedIs
<1>9. NoValue \notin Nat  BY SumsAssumption
<1>10. PICK e \in Seq(Nat \X Nat) : e = c[p] /\ Len(e) > 1  BY <1>2
<1>11. /\ Front(e) \in Seq(Nat \X Nat) /\ Len(Front(e)) = Len(e) - 1
       /\ \A m \in 1 .. Len(e) - 1 : Front(e)[m] = e[m]
  <2>1. Len(e) > 0  BY <1>10
  <2> QED  BY <2>1, FrontIs
<1>12. Front(e) # <<>>  BY <1>10, <1>11
<1>13. /\ DOMAIN d = L /\ d[p] = Front(e) /\ \A q \in L \ {p} : d[q] = c[q]
  BY <1>2, <1>10
<1>14. d \in [L -> Seq(Nat \X Nat)] /\ \A q \in L : d[q] # <<>>
  BY <1>1, <1>2, <1>10, <1>11, <1>12, <1>13 DEF Forms
<1>15. t[k] + r \in Nat  BY <1>5, <1>8, SMTT(30)
<1>16. w \in [L -> Nat \cup {NoValue}] /\ w[p] = t[k] + r /\ \A q \in L \ {p} : w[q] = v[q]
  BY <1>2, <1>3, <1>4, <1>7, <1>15
<1>17. y \in [L -> Seq(Nat)] /\ y[p] = u /\ \A q \in L \ {p} : y[q] = z[q]
  BY <1>2, <1>4, <1>6
<1> HIDE DEF L
<1>18. Forms(s, d, w, y)
  <2>1. ASSUME NEW q \in L, w[q] = NoValue PROVE AtWork(L, q, Last(d[q]))
    <3>1. q # p  BY <1>9, <1>15, <1>16, <2>1
    <3> QED  BY <1>1, <1>13, <1>16, <2>1, <3>1 DEF Forms, L
  <2>2. Family(L, Len(s))  BY <1>1 DEF Forms, L
  <2> QED  BY <1>13, <1>14, <1>16, <1>17, <2>1, <2>2 DEF Forms
<1>19. Counted(s, d, y)
  <2>1. ASSUME NEW q \in L PROVE Len(d[q]) = 1 + Len(y[q]) + Cardinality(KidsOf(L, Len(s), q))
    <3>1. Len(c[q]) = 1 + Len(z[q]) + Cardinality(KidsOf(L, Len(s), q))  BY DEF ForkState, Counted, L
    <3>2. CASE q # p  BY <1>13, <1>17, <3>1, <3>2
    <3>3. CASE q = p
      <4>1. Cardinality(KidsOf(L, Len(s), q)) \in Nat
        <5>1. KidsOf(L, Len(s), q) \subseteq L  BY DEF KidsOf
        <5> QED  BY <1>2, <5>1, FS_Subset, FS_CardinalityType DEF L
      <4>2. Len(e) = 1 + Len(t) + Cardinality(KidsOf(L, Len(s), q))  BY <1>4, <1>10, <3>1, <3>3
      <4>3. PICK a \in Nat, b \in Nat, m \in Nat :
              a = Len(e) /\ b = Len(t) /\ m = Cardinality(KidsOf(L, Len(s), q))
        <5>1. Len(e) \in Nat /\ Len(t) \in Nat  OBVIOUS
        <5> QED  BY <4>1, <5>1
      <4>4. a - 1 = 1 + (b - 1) + m  BY <4>2, <4>3
      <4>5. Len(d[q]) = a - 1 /\ Len(y[q]) = b - 1  BY <1>6, <1>11, <1>13, <1>17, <3>3, <4>3
      <4> QED  BY <4>3, <4>4, <4>5, Zenon
    <3> QED  BY <3>2, <3>3
  <2> QED  BY <1>13, <2>1 DEF Counted
<1>20. PICK H \in [L -> Nat] : H = HoldsOf(s, c, v, z)  BY <1>1, HoldsTyped DEF L
<1>21. PICK I \in [L -> Nat] : I = HoldsOf(s, d, w, y)  BY <1>1, <1>13, <1>18, HoldsTyped DEF L
<1>22. \A q \in L \ {p} : I[q] = H[q]
  BY <1>13, <1>16, <1>17, <1>20, <1>21 DEF HoldsOf, OwnOf, L
<1>23. H[p] = x + Sum(t)
  BY <1>3, <1>4, <1>20 DEF HoldsOf, OwnOf, L
<1>24. I[p] = (t[k] + r) + Sum(u)
  BY <1>9, <1>13, <1>15, <1>16, <1>17, <1>21 DEF HoldsOf, OwnOf, L
<1>25. p \in L /\ IsFiniteSet(L)  BY <1>2 DEF L
<1>35. ChangesAt(L, p, H, I)  BY <1>22, <1>25 DEF ChangesAt
<1>26. TotalOf(I) + H[p] = TotalOf(H) + I[p]  BY <1>35, TotalChange
<1>27. TotalOf(H) \in Nat /\ TotalOf(I) \in Nat /\ H[p] <= TotalOf(H)
  BY <1>25, TotalNat, TotalAbove
<1>28. Sum(t) \in Nat /\ Sum(u) \in Nat /\ Sum(s) \in Nat  BY <1>1, SumNat
<1>33. PICK A \in Nat, B \in Nat, X \in Nat, Y \in Nat, g \in Nat, S \in Nat :
         /\ A = TotalOf(H) /\ B = TotalOf(I) /\ X = Sum(t) /\ Y = Sum(u) /\ g = t[k] /\ S = Sum(s)
  BY <1>5, <1>27, <1>28
<1>29. B + x = A + r /\ x <= A
  <2>1. B + (x + X) = A + ((g + r) + Y) /\ X = Y + g /\ x + X <= A
    BY <1>6, <1>23, <1>24, <1>26, <1>27, <1>33, Zenon
  <2>2. PICK b \in Nat : b = r  BY <1>8
  <2>3. B + (x + X) = A + ((g + b) + Y) /\ X = Y + g /\ x + X <= A  BY <2>1, <2>2, Zenon
  <2>5. Trades(A, B, x, X, Y, g, b)  BY <2>3, Zenon DEF Trades
  <2>4. B + x = A + b /\ x <= A  BY <2>5, Traded, Zenon
  <2> QED  BY <2>2, <2>4, Zenon
<1>30. Keeps(A, S)  BY <1>20, <1>33 DEF ForkState
<1>31. Cuts(A, B, x, r)  BY <1>8, <1>29 DEF Cuts
<1>32. Keeps(B, S)  BY <1>8, <1>30, <1>31, KeepsCut
<1> QED  BY <1>1, <1>18, <1>19, <1>21, <1>32, <1>33 DEF ForkState

(* p forks a child for the left half and goes on with the right one.       *)
Forks(c, v, z, d, w, y, p, q, i) ==
  /\ p \in DOMAIN c /\ v[p] = NoValue /\ ~Small(i) /\ i = Last(c[p]) /\ q = LeftHalf(i)
  /\ DOMAIN d = DOMAIN c \cup {q}
  /\ d[q] = <<q>> /\ d[p] = Append(c[p], RightHalf(i)) /\ \A x \in DOMAIN c \ {p, q} : d[x] = c[x]
  /\ w \in [DOMAIN d -> Nat \cup {NoValue}] /\ w[q] = NoValue /\ \A x \in DOMAIN c \ {q} : w[x] = v[x]
  /\ y \in [DOMAIN d -> Seq(Nat)] /\ y[q] = <<>> /\ \A x \in DOMAIN c \ {q} : y[x] = z[x]
  /\ DOMAIN d = DOMAIN [x \in DOMAIN d |-> d[x]] /\ d = [x \in DOMAIN d |-> d[x]]

LEMMA KidsFinite ==
  ASSUME NEW L, IsFiniteSet(L), NEW n, NEW p
  PROVE  IsFiniteSet(KidsOf(L, n, p)) /\ Cardinality(KidsOf(L, n, p)) \in Nat
<1>1. KidsOf(L, n, p) \subseteq L  BY DEF KidsOf
<1> QED  BY <1>1, FS_Subset, FS_CardinalityType

LEMMA HalfOf ==
  ASSUME NEW i \in Nat \X Nat, ~Small(i), Lo(i) <= Hi(i)
  PROVE  /\ Mid(i) \in Nat /\ Lo(i) < Mid(i) /\ Mid(i) < Hi(i)
         /\ LeftHalf(i) = <<Lo(i), Mid(i)>> /\ RightHalf(i) = <<Mid(i), Hi(i)>>
         /\ Lo(LeftHalf(i)) = Lo(i) /\ Hi(LeftHalf(i)) = Mid(i)
         /\ Lo(RightHalf(i)) = Mid(i) /\ Hi(RightHalf(i)) = Hi(i)
         /\ LeftHalf(i) \in Nat \X Nat /\ RightHalf(i) \in Nat \X Nat
<1>1. PICK lo \in Nat, hi \in Nat : lo = Lo(i) /\ hi = Hi(i)  BY DEF Lo, Hi
<1>2. hi - lo > 1  BY <1>1 DEF Small
<1>3. (lo + hi) \div 2 \in Nat /\ lo < (lo + hi) \div 2 /\ (lo + hi) \div 2 < hi  BY <1>2
<1>4. Mid(i) = (lo + hi) \div 2  BY <1>1 DEF Mid
<1>5. PICK m \in Nat : m = Mid(i) /\ lo < m /\ m < hi  BY <1>3, <1>4
<1>6. LeftHalf(i) = <<lo, m>> /\ RightHalf(i) = <<m, hi>>  BY <1>1, <1>5 DEF LeftHalf, RightHalf
<1> QED  BY <1>1, <1>5, <1>6 DEF Lo, Hi

HandedOn(A, B, a, b, k) ==
  /\ A \in Nat /\ B \in Nat /\ a \in Nat /\ b \in Nat /\ k \in Nat
  /\ B + ((a + b) + k) = A + (b + k)

LEMMA HandedBack ==
  ASSUME NEW A, NEW B, NEW a, NEW b, NEW k, HandedOn(A, B, a, b, k) PROVE B + (a + 0) = A
BY DEF HandedOn

LEMMA ForkKeeps ==
  ASSUME NEW s, NEW c, NEW v, NEW z, ForkState(s, c, v, z),
         NEW d, NEW w, NEW y, NEW p, NEW q, NEW i, Forks(c, v, z, d, w, y, p, q, i)
  PROVE  ForkState(s, d, w, y)
<1>1. Forms(s, c, v, z) /\ s \in Seq(Nat) /\ Counted(s, c, z)  BY DEF ForkState
<1>0. PICK n \in Nat : n = Len(s)  BY <1>1
<1>2. PICK L, M : L = DOMAIN c /\ M = DOMAIN d /\ n = Len(s)  BY <1>0
<1>3. /\ v \in [L -> Nat \cup {NoValue}] /\ z \in [L -> Seq(Nat)] /\ c \in [L -> Seq(Nat \X Nat)]
      /\ IsFiniteSet(L) /\ Family(L, n) /\ p \in L
  BY <1>1, <1>2 DEF Forms, Family, Forks
<1>4. AtWork(L, p, i)  BY <1>1, <1>2 DEF Forms, Forks
<1>5. i \in Nat \X Nat /\ Lo(i) <= Hi(i) /\ ~Small(i) /\ q = LeftHalf(i)
  BY <1>4 DEF AtWork, Forks
<1>6. PICK r : r = RightHalf(i)  OBVIOUS
<1>7. PICK lo \in Nat, mid \in Nat, hi \in Nat :
        /\ lo = Lo(i) /\ mid = Mid(i) /\ hi = Hi(i) /\ lo < mid /\ mid < hi
  BY <1>5, HalfOf DEF Lo, Hi
<1>8. q = <<lo, mid>> /\ r = <<mid, hi>> /\ q \in Nat \X Nat /\ r \in Nat \X Nat
  BY <1>5, <1>6, <1>7, HalfOf
<1>9. Lo(q) = lo /\ Hi(q) = mid /\ Lo(r) = mid /\ Hi(r) = hi /\ hi = Hi(p) /\ Lo(p) <= lo
  BY <1>4, <1>7, <1>8 DEF Lo, Hi, AtWork
<1>10. Born(L, p, lo, mid, n)
  <2>1. Free(L, p, lo)  BY <1>4, <1>7 DEF AtWork
  <2> QED  BY <1>3, <1>7, <1>9, <2>1, BirthOf
<1>11. M = L \cup {q} /\ q \notin L  BY <1>2, <1>8, <1>10 DEF Born, Forks
<1>12. /\ Family(M, n) /\ ParentOf(M, q) = p /\ Free(M, p, mid) /\ Free(M, q, lo)
       /\ \A x \in L \ {<<0, n>>} : ParentOf(M, x) = ParentOf(L, x) /\ ParentOf(L, x) \in L
       /\ \A x \in L \ {p}, m \in Nat : Free(L, x, m) => Free(M, x, m)
  BY <1>8, <1>10, <1>11 DEF Born
<1>13. PICK e \in Seq(Nat \X Nat) : e = c[p]  BY <1>3
<1>14. /\ d[q] = <<q>> /\ d[p] = Append(e, r) /\ \A x \in L \ {p} : d[x] = c[x]
  BY <1>2, <1>6, <1>11, <1>13 DEF Forks
<1>15. /\ <<q>> \in Seq(Nat \X Nat) /\ Len(<<q>>) = 1 /\ <<q>> # <<>> /\ Last(<<q>>) = q
       /\ Append(e, r) \in Seq(Nat \X Nat) /\ Len(Append(e, r)) = Len(e) + 1
       /\ Append(e, r) # <<>> /\ Last(Append(e, r)) = r
  <2>0. PICK S : S = Nat \X Nat  OBVIOUS
  <2>1. q \in S /\ r \in S /\ e \in Seq(S)  BY <1>8, <1>13, <2>0
  <2>2. <<q>> \in Seq(S) /\ Len(<<q>>) = 1 /\ <<q>> # <<>> /\ Last(<<q>>) = q  BY <2>1, OneIs
  <2>3. /\ Append(e, r) \in Seq(S) /\ Len(Append(e, r)) = Len(e) + 1
        /\ Append(e, r) # <<>> /\ Last(Append(e, r)) = r
    BY <2>1, AppendIs
  <2> QED  BY <2>0, <2>2, <2>3
<1>16. /\ w \in [M -> Nat \cup {NoValue}] /\ w[q] = NoValue /\ \A x \in L : w[x] = v[x]
       /\ y \in [M -> Seq(Nat)] /\ y[q] = <<>> /\ \A x \in L : y[x] = z[x]
  BY <1>2, <1>11 DEF Forks
<1>17. d \in [M -> Seq(Nat \X Nat)] /\ \A x \in M : d[x] # <<>>
  <2>1. ASSUME NEW x \in M PROVE d[x] \in Seq(Nat \X Nat) /\ d[x] # <<>>
    <3>1. CASE x = q  BY <1>14, <1>15, <3>1
    <3>2. CASE x = p  BY <1>14, <1>15, <3>2
    <3>3. CASE x \in L \ {p}  BY <1>1, <1>2, <1>3, <1>14, <3>3 DEF Forms
    <3> QED  BY <1>11, <3>1, <3>2, <3>3
  <2>2. d = [x \in M |-> d[x]]  BY <1>2 DEF Forks
  <2> QED  BY <2>1, <2>2
<1>18. Forms(s, d, w, y)
  <2>1. ASSUME NEW x \in M, w[x] = NoValue PROVE AtWork(M, x, Last(d[x]))
    <3>1. CASE x = q
      <4>1. Last(d[x]) = q  BY <1>14, <1>15, <3>1
      <4>2. /\ q \in Nat \X Nat /\ Lo(q) <= Lo(q) /\ Lo(q) <= Hi(q) /\ Hi(q) = Hi(q)
            /\ Free(M, q, Lo(q))
        BY <1>7, <1>8, <1>9, <1>12
      <4> QED  BY <3>1, <4>1, <4>2 DEF AtWork
    <3>2. CASE x = p
      <4>1. Lo(p) <= mid
        <5>1. Lo(p) \in Nat  BY <1>3 DEF Family, Nodes, Lo
        <5> QED  BY <1>7, <1>9, <5>1
      <4>2. Last(d[x]) = r  BY <1>14, <1>15, <3>2
      <4>3. r \in Nat \X Nat /\ Lo(p) <= Lo(r) /\ Lo(r) <= Hi(r) /\ Hi(r) = Hi(p) /\ Free(M, p, Lo(r))
        BY <1>7, <1>8, <1>9, <1>12, <4>1
      <4> QED  BY <3>2, <4>2, <4>3 DEF AtWork
    <3>3. CASE x \in L \ {p}
      <4>1. AtWork(L, x, Last(c[x]))  BY <1>1, <1>2, <1>16, <2>1, <3>3 DEF Forms
      <4>2. PICK j : j = Last(c[x])  OBVIOUS
      <4>3. Lo(j) \in Nat  BY <4>1, <4>2 DEF AtWork, Lo
      <4>4. Free(M, x, Lo(j))  BY <1>12, <3>3, <4>1, <4>2, <4>3 DEF AtWork
      <4> QED  BY <1>14, <3>3, <4>1, <4>2, <4>4 DEF AtWork
    <3> QED  BY <1>11, <3>1, <3>2, <3>3
  <2> QED  BY <1>2, <1>12, <1>16, <1>17, <2>1 DEF Forms
<1>19. Counted(s, d, y)
  <2>0. q # <<0, n>>
    <3>1. <<0, n>> \in L  BY <1>3 DEF Family
    <3> QED  BY <1>11, <3>1
  <2>1. ASSUME NEW x \in L PROVE Len(c[x]) = 1 + Len(z[x]) + Cardinality(KidsOf(L, n, x))
    BY <1>1, <1>2, <2>1 DEF Counted
  <2>2. KidsOf(M, n, q) = {}  BY <1>11, <1>12, <1>3 DEF KidsOf
  <2>3. KidsOf(M, n, p) = KidsOf(L, n, p) \cup {q} /\ q \notin KidsOf(L, n, p)
    BY <1>11, <1>12, <2>0 DEF KidsOf
  <2>4. ASSUME NEW x \in L \ {p} PROVE KidsOf(M, n, x) = KidsOf(L, n, x)
    BY <1>11, <1>12, <2>0, <2>4 DEF KidsOf
  <2>5. IsFiniteSet(KidsOf(L, n, p)) /\ Cardinality(KidsOf(L, n, p)) \in Nat  BY <1>3, KidsFinite
  <2>6. Cardinality(KidsOf(M, n, p)) = Cardinality(KidsOf(L, n, p)) + 1
    BY <2>3, <2>5, FS_AddElement
  <2>7. ASSUME NEW x \in M PROVE Len(d[x]) = 1 + Len(y[x]) + Cardinality(KidsOf(M, n, x))
    <3>1. CASE x = q
      <4>1. Cardinality(KidsOf(M, n, q)) = 0  BY <2>2, FS_EmptySet
      <4>2. Len(d[q]) = 1 /\ Len(y[q]) = 0
        <5>1. y[q] = <<>> /\ Len(<<>>) = 0  BY <1>16
        <5> QED  BY <1>14, <1>15, <5>1, Zenon
      <4> QED  BY <3>1, <4>1, <4>2
    <3>2. CASE x = p
      <4>1. PICK a \in Nat, k \in Nat, b \in Nat :
              a = Len(e) /\ k = Cardinality(KidsOf(L, n, p)) /\ b = Len(z[p])
        BY <1>3, <2>5
      <4>2. a = 1 + b + k  BY <1>3, <1>13, <2>1, <4>1
      <4>3. Len(d[p]) = a + 1 /\ Len(y[p]) = b /\ Cardinality(KidsOf(M, n, p)) = k + 1
        BY <1>3, <1>14, <1>15, <1>16, <2>6, <4>1
      <4> QED  BY <3>2, <4>2, <4>3
    <3>3. CASE x \in L \ {p}  BY <1>14, <1>16, <2>1, <2>4, <3>3
    <3> QED  BY <1>11, <3>1, <3>2, <3>3
  <2> QED  BY <1>2, <2>7 DEF Counted
<1>20. PICK H \in [L -> Nat] : H = HoldsOf(s, c, v, z)  BY <1>1, <1>2, HoldsTyped
<1>21. PICK I \in [M -> Nat] : I = HoldsOf(s, d, w, y)  BY <1>1, <1>2, <1>18, HoldsTyped
<1>22. \A x \in L \ {p} : I[x] = H[x]
  BY <1>2, <1>11, <1>14, <1>16, <1>20, <1>21 DEF HoldsOf, OwnOf
<1>23. PICK E : E = [x \in L |-> I[x]]  OBVIOUS
<1>24. E \in [L -> Nat] /\ \A x \in L : E[x] = I[x]  BY <1>11, <1>23
<1>25. ChangesAt(L, p, H, E)  BY <1>3, <1>22, <1>24 DEF ChangesAt
<1>26. TotalOf(E) + H[p] = TotalOf(H) + E[p]  BY <1>25, TotalChange
<1>27. TotalOf(I) = TotalOf(E) + I[q]
  <2>1. I \in [L \cup {q} -> Nat] /\ \A x \in L : I[x] = E[x]  BY <1>11, <1>24
  <2>2. GrowsAt(L, q, E, I)  BY <1>3, <1>11, <1>24, <2>1 DEF GrowsAt
  <2> QED  BY <2>2, TotalMore
<1>28. H[p] = Sum(PartOf(s, i)) + Sum(z[p])
  <2>1. v[p] = NoValue /\ i = Last(c[p])  BY DEF Forks
  <2> QED  BY <1>2, <1>3, <1>20, <2>1 DEF HoldsOf, OwnOf
<1>29. I[p] = Sum(PartOf(s, r)) + Sum(z[p])
  <2>1. w[p] = NoValue /\ y[p] = z[p] /\ p \in M  BY <1>3, <1>11, <1>16 DEF Forks
  <2> QED  BY <1>2, <1>14, <1>15, <1>21, <2>1 DEF HoldsOf, OwnOf
<1>30. I[q] = Sum(PartOf(s, q)) + 0
  BY <1>2, <1>11, <1>14, <1>15, <1>16, <1>21, SumEmpty DEF HoldsOf, OwnOf
<1>31. Hi(p) <= n  BY <1>3 DEF Family, Nodes
<1>32. Sum(PartOf(s, i)) = Sum(PartOf(s, q)) + Sum(PartOf(s, r))
  <2>1. hi \in lo .. Len(s) /\ mid \in lo .. hi  BY <1>2, <1>7, <1>9, <1>31
  <2>2. Sum(SubSeq(s, lo + 1, hi)) = Sum(SubSeq(s, lo + 1, mid)) + Sum(SubSeq(s, mid + 1, hi))
    BY <1>1, <2>1, SumSplit
  <2> QED  BY <1>7, <1>9, <2>2 DEF PartOf
<1>33. /\ Sum(PartOf(s, q)) \in Nat /\ Sum(PartOf(s, r)) \in Nat /\ Sum(z[p]) \in Nat
       /\ TotalOf(H) \in Nat /\ TotalOf(E) \in Nat
  <2>1. Lo(q) <= Hi(q) /\ Hi(q) <= Len(s) /\ Lo(r) <= Hi(r) /\ Hi(r) <= Len(s)
    BY <1>2, <1>7, <1>9, <1>31
  <2>2. Sum(PartOf(s, q)) \in Nat /\ Sum(PartOf(s, r)) \in Nat  BY <1>1, <1>8, <2>1, PartNat
  <2>3. z[p] \in Seq(Nat)  BY <1>3
  <2>4. Sum(z[p]) \in Nat  BY <2>3, SumNat
  <2>5. TotalOf(H) \in Nat /\ TotalOf(E) \in Nat  BY <1>3, <1>24, TotalNat
  <2> QED  BY <2>2, <2>4, <2>5
<1>34. TotalOf(I) = TotalOf(H)
  <2>1. PICK a \in Nat, b \in Nat, k \in Nat, A \in Nat, B \in Nat :
          /\ a = Sum(PartOf(s, q)) /\ b = Sum(PartOf(s, r)) /\ k = Sum(z[p])
          /\ A = TotalOf(H) /\ B = TotalOf(E)
    BY <1>33
  <2>2. B + ((a + b) + k) = A + (b + k)
    BY <1>3, <1>24, <1>26, <1>28, <1>29, <1>32, <2>1, Zenon
  <2>3. TotalOf(I) = B + (a + 0)  BY <1>27, <1>30, <2>1, Zenon
  <2>5. HandedOn(A, B, a, b, k)  BY <2>2, Zenon DEF HandedOn
  <2>4. B + (a + 0) = A  BY <2>5, HandedBack, Zenon
  <2> QED  BY <2>1, <2>3, <2>4, Zenon
<1> QED  BY <1>1, <1>18, <1>19, <1>20, <1>21, <1>34 DEF ForkState

(* A process that has one call left has waited for all its children.       *)
LEMMA NoneLeft ==
  ASSUME NEW s, NEW c, NEW v, NEW z, ForkState(s, c, v, z), NEW p \in DOMAIN c, Len(c[p]) = 1
  PROVE  z[p] = <<>> /\ KidsOf(DOMAIN c, Len(s), p) = {}
<1>1. IsFiniteSet(DOMAIN c) /\ z[p] \in Seq(Nat)  BY DEF ForkState, Forms, Family
<1>2. PICK K : K = KidsOf(DOMAIN c, Len(s), p)  OBVIOUS
<1>3. IsFiniteSet(K) /\ Cardinality(K) \in Nat  BY <1>1, <1>2, KidsFinite
<1>4. 1 = 1 + Len(z[p]) + Cardinality(K)  BY <1>2 DEF ForkState, Counted
<1>5. PICK t \in Seq(Nat) : t = z[p]  BY <1>1
<1>6. Len(t) = 0 /\ Cardinality(K) = 0  BY <1>3, <1>4, <1>5
<1>7. t = <<>>  BY <1>6
<1>8. K = {}  BY <1>3, <1>6, FS_EmptySet
<1> QED  BY <1>2, <1>5, <1>7, <1>8

(* p ends, and P may find its status.                                      *)
Exits(c, v, z, d, w, y, p, P) ==
  /\ p \in DOMAIN c /\ v[p] # NoValue /\ Len(c[p]) = 1
  /\ d = [q \in DOMAIN c \ {p} |-> c[q]] /\ w = [q \in DOMAIN c \ {p} |-> v[q]]
  /\ y = [q \in DOMAIN c \ {p} |->
            IF q = P THEN Append(z[q], Reduced(v[p]) % 256) ELSE z[q]]

Passes(A, B, E, o, X, x, b) ==
  /\ A \in Nat /\ B \in Nat /\ E \in Nat /\ o \in Nat /\ X \in Nat /\ x \in Nat /\ b \in Nat
  /\ A = E + (x + 0) /\ B + (o + X) = E + (o + (X + b))

LEMMA Passed ==
  ASSUME NEW A, NEW B, NEW E, NEW o, NEW X, NEW x, NEW b, Passes(A, B, E, o, X, x, b)
  PROVE  B + x = A + b /\ x <= A
BY DEF Passes

LEMMA ExitKeeps ==
  ASSUME NEW s, NEW c, NEW v, NEW z, ForkState(s, c, v, z), NEW d, NEW w, NEW y, NEW p, NEW P,
         Exits(c, v, z, d, w, y, p, P), p # <<0, Len(s)>>, P = ParentOf(DOMAIN c, p)
  PROVE  ForkState(s, d, w, y)
<1>1. Forms(s, c, v, z) /\ s \in Seq(Nat) /\ Counted(s, c, z)  BY DEF ForkState
<1>0. PICK n \in Nat : n = Len(s)  BY <1>1
<1>2. PICK L, M : L = DOMAIN c /\ M = L \ {p}  OBVIOUS
<1>3. /\ v \in [L -> Nat \cup {NoValue}] /\ z \in [L -> Seq(Nat)] /\ c \in [L -> Seq(Nat \X Nat)]
      /\ IsFiniteSet(L) /\ Family(L, n) /\ p \in L \ {<<0, n>>}
  BY <1>0, <1>1, <1>2 DEF Forms, Family, Exits
<1>4. z[p] = <<>> /\ KidsOf(L, n, p) = {}  BY <1>0, <1>2, NoneLeft DEF Exits
<1>5. /\ Family(M, n) /\ P \in M /\ P = ParentOf(L, p)
      /\ \A q \in M \ {<<0, n>>} : ParentOf(M, q) = ParentOf(L, q)
  <2>1. P = ParentOf(L, p)  BY <1>2
  <2>2. /\ Family(M, n) /\ ParentOf(L, p) \in M
        /\ \A q \in M \ {<<0, n>>} : ParentOf(M, q) = ParentOf(L, q)
    <3>1. Leaves(L, n, p, M)  BY <1>0, <1>2, <1>3, <1>4 DEF Leaves
    <3> QED  BY <3>1, DeathOf
  <2> QED  BY <2>1, <2>2, Zenon
<1>6. NoValue \notin Nat  BY SumsAssumption
<1>7. PICK x \in Nat : x = v[p]  BY <1>3 DEF Exits
<1>8. PICK b \in Nat : b = Reduced(x) % 256 /\ (x < 256 => b = x) /\ \E j \in Int : x = b + 256 * j
  <2>1. /\ Reduced(x) % 256 \in Nat /\ (x < 256 => Reduced(x) % 256 = x)
        /\ \E j \in Int : x = (Reduced(x) % 256) + 256 * j
    BY StatusIs, ZenonT(30)
  <2> QED  BY <2>1, Zenon
<1>9. PICK t \in Seq(Nat) : t = z[P]
  <2>1. P \in L /\ z \in [L -> Seq(Nat)]  BY <1>2, <1>3, <1>5
  <2>2. z[P] \in Seq(Nat)  BY <2>1
  <2> QED  BY <2>2, Zenon
<1>10. PICK u \in Seq(Nat) : u = Append(t, b) /\ Len(u) = Len(t) + 1
  <2>1. Append(t, b) \in Seq(Nat) /\ Len(Append(t, b)) = Len(t) + 1  OBVIOUS
  <2> QED  BY <2>1, Zenon
<1>11. Sum(u) = Sum(t) + b  BY <1>10, SumAppend
<1>12. d \in [M -> Seq(Nat \X Nat)] /\ \A q \in M : d[q] = c[q]  BY <1>2, <1>3 DEF Exits
<1>13. w \in [M -> Nat \cup {NoValue}] /\ \A q \in M : w[q] = v[q]  BY <1>2, <1>3 DEF Exits
<1>14. y[P] = u /\ \A q \in M \ {P} : y[q] = z[q]
  BY <1>2, <1>5, <1>7, <1>8, <1>9, <1>10 DEF Exits
<1>15. y \in [M -> Seq(Nat)]
  <2>1. \A q \in M : y[q] \in Seq(Nat)  BY <1>2, <1>3, <1>14
  <2>2. y = [q \in M |-> y[q]]  BY <1>2 DEF Exits
  <2> QED  BY <2>1, <2>2
<1>16. Forms(s, d, w, y)
  <2>1. ASSUME NEW q \in M, w[q] = NoValue PROVE AtWork(M, q, Last(d[q]))
    <3>1. AtWork(L, q, Last(c[q]))  BY <1>1, <1>2, <1>13, <2>1 DEF Forms
    <3> QED  BY <1>2, <1>12, <3>1 DEF AtWork, Free
  <2>2. \A q \in M : d[q] # <<>>  BY <1>1, <1>2, <1>12 DEF Forms
  <2>3. DOMAIN d = M  BY <1>12
  <2> QED  BY <1>0, <1>5, <1>12, <1>13, <1>15, <2>1, <2>2, <2>3 DEF Forms
<1>17. Counted(s, d, y)
  <2>1. ASSUME NEW q \in M PROVE Len(c[q]) = 1 + Len(z[q]) + Cardinality(KidsOf(L, n, q))
    BY <1>0, <1>1, <1>2, <2>1 DEF Counted
  <2>2. p \in KidsOf(L, n, P)  BY <1>3, <1>5 DEF KidsOf
  <2>3. KidsOf(M, n, P) = KidsOf(L, n, P) \ {p}  BY <1>2, <1>5 DEF KidsOf
  <2>4. ASSUME NEW q \in M \ {P} PROVE KidsOf(M, n, q) = KidsOf(L, n, q)
    BY <1>2, <1>5, <2>4 DEF KidsOf
  <2>5. IsFiniteSet(KidsOf(L, n, P)) /\ Cardinality(KidsOf(L, n, P)) \in Nat  BY <1>3, KidsFinite
  <2>6. Cardinality(KidsOf(M, n, P)) = Cardinality(KidsOf(L, n, P)) - 1
    BY <2>2, <2>3, <2>5, FS_RemoveElement, ZenonT(30)
  <2>7. ASSUME NEW q \in M PROVE Len(d[q]) = 1 + Len(y[q]) + Cardinality(KidsOf(M, n, q))
    <3>1. CASE q = P
      <4>1. PICK a \in Nat, k \in Nat, m \in Nat :
              a = Len(c[P]) /\ k = Cardinality(KidsOf(L, n, P)) /\ m = Len(t)
        <5>1. P \in L  BY <1>2, <1>5
        <5>2. Len(c[P]) \in Nat /\ Len(t) \in Nat  BY <1>3, <5>1
        <5> QED  BY <2>5, <5>2
      <4>2. a = 1 + m + k  BY <1>5, <1>9, <2>1, <4>1, Zenon
      <4>3. Len(d[P]) = a /\ Len(y[P]) = m + 1 /\ Cardinality(KidsOf(M, n, P)) = k - 1
        BY <1>5, <1>10, <1>12, <1>14, <2>6, <4>1
      <4>4. a = 1 + (m + 1) + (k - 1)  BY <4>2
      <4> QED  BY <3>1, <4>3, <4>4, Zenon
    <3>2. CASE q # P  BY <1>12, <1>14, <2>1, <2>4, <3>2
    <3> QED  BY <3>1, <3>2
  <2>8. DOMAIN d = M  BY <1>12
  <2> QED  BY <1>0, <2>7, <2>8 DEF Counted
<1>18. PICK H \in [L -> Nat] : H = HoldsOf(s, c, v, z)  BY <1>1, <1>2, HoldsTyped
<1>28. DOMAIN d = M  BY <1>12
<1>19. PICK I \in [M -> Nat] : I = HoldsOf(s, d, w, y)  BY <1>1, <1>16, <1>28, HoldsTyped
<1>20. PICK G \in [M -> Nat] : G = [q \in M |-> H[q]]  BY <1>2
<1>21. TotalOf(H) = TotalOf(G) + H[p]  BY <1>2, <1>3, <1>20, TotalWithout
<1>22. \A q \in M : OwnOf(s, d, w, q) = OwnOf(s, c, v, q)  BY <1>12, <1>13 DEF OwnOf
<1>23. \A q \in M \ {P} : I[q] = G[q]
  BY <1>2, <1>14, <1>18, <1>19, <1>20, <1>22, <1>28 DEF HoldsOf
<1>24. IsFiniteSet(M)  BY <1>5 DEF Family
<1>25. TotalOf(I) + G[P] = TotalOf(G) + I[P]
  <2>1. ChangesAt(M, P, G, I)  BY <1>5, <1>23, <1>24 DEF ChangesAt
  <2> QED  BY <2>1, TotalChange
<1>26. PICK o \in Nat, X \in Nat : o = OwnOf(s, c, v, P) /\ X = Sum(t)
  <2>1. P \in DOMAIN c  BY <1>2, <1>5
  <2> QED  BY <1>1, <1>9, <2>1, HoldsTyped
<1>27. PICK A \in Nat, B \in Nat, E \in Nat, S \in Nat :
         A = TotalOf(H) /\ B = TotalOf(I) /\ E = TotalOf(G) /\ S = Sum(s)
  BY <1>1, <1>3, <1>24, TotalNat, SumNat
<1>29. A = E + (x + 0)
  <2>1. H[p] = OwnOf(s, c, v, p) + Sum(z[p])  BY <1>2, <1>3, <1>18 DEF HoldsOf
  <2>2. OwnOf(s, c, v, p) = x  BY <1>6, <1>7 DEF OwnOf
  <2> QED  BY <1>4, <1>21, <1>27, <2>1, <2>2, SumEmpty
<1>30. B + (o + X) = E + (o + (X + b))
  <2>1. G[P] = o + X  BY <1>2, <1>5, <1>9, <1>18, <1>20, <1>26 DEF HoldsOf
  <2>2. I[P] = o + (X + b)
    <3>1. I[P] = OwnOf(s, d, w, P) + Sum(y[P])  BY <1>5, <1>19, <1>28 DEF HoldsOf
    <3> QED  BY <1>5, <1>11, <1>14, <1>22, <1>26, <3>1, Zenon
  <2> QED  BY <1>25, <1>27, <2>1, <2>2, Zenon
<1>31. B + x = A + b /\ x <= A
  <2>1. Passes(A, B, E, o, X, x, b)  BY <1>29, <1>30, Zenon DEF Passes
  <2> QED  BY <2>1, Passed
<1>32. Keeps(A, S)  BY <1>18, <1>27 DEF ForkState
<1>33. Cuts(A, B, x, b)  BY <1>8, <1>31 DEF Cuts
<1>34. Keeps(B, S)  BY <1>32, <1>33, KeepsCut
<1> QED  BY <1>1, <1>16, <1>17, <1>19, <1>27, <1>34 DEF ForkState

(* main calls fork_sum for all the numbers.                                *)
LEMMA ForkStarts ==
  ASSUME NEW s \in Seq(Nat), NEW r, r = <<0, Len(s)>>, NEW c, c = [q \in {r} |-> <<r>>],
         NEW v, v = [q \in {r} |-> NoValue], NEW z, z = [q \in {r} |-> <<>>]
  PROVE  ForkState(s, c, v, z)
<1>1. PICK n \in Nat : n = Len(s)  OBVIOUS
<1>2. r = <<0, n>> /\ r \in Nat \X Nat /\ Lo(r) = 0 /\ Hi(r) = n  BY <1>1 DEF Lo, Hi
<1>3. /\ DOMAIN c = {r} /\ c[r] = <<r>> /\ v[r] = NoValue /\ z[r] = <<>>
      /\ c \in [{r} -> Seq(Nat \X Nat)] /\ v \in [{r} -> Nat \cup {NoValue}] /\ z \in [{r} -> Seq(Nat)]
  BY <1>2
<1>4. Family({r}, n)
  <2>1. r \in Nodes(n) /\ Nested(r, r)  BY <1>1, <1>2 DEF Nodes, Nested, Within
  <2> QED  BY <1>2, <2>1, FS_Singleton DEF Family
<1>5. <<r>> # <<>> /\ Len(<<r>>) = 1 /\ Last(<<r>>) = r  BY DEF Last
<1>6. AtWork({r}, r, r)  BY <1>2 DEF AtWork, Free
<1>7. Forms(s, c, v, z)  BY <1>1, <1>3, <1>4, <1>5, <1>6 DEF Forms
<1>8. Counted(s, c, z)
  <2>1. KidsOf({r}, n, r) = {}  BY <1>2 DEF KidsOf
  <2>2. Cardinality(KidsOf({r}, n, r)) = 0 /\ Len(<<>>) = 0  BY <2>1, FS_EmptySet
  <2> QED  BY <1>1, <1>3, <1>5, <2>2 DEF Counted
<1>9. Sum(PartOf(s, r)) = Sum(s)
  <2>1. 0 + 1 = 1  OBVIOUS
  <2> QED  BY <1>1, <1>2, <2>1, SumWhole DEF PartOf
<1>10. HoldsOf(s, c, v, z) \in [{r} -> Nat] /\ HoldsOf(s, c, v, z)[r] = Sum(s)
  <2>1. HoldsOf(s, c, v, z) \in [{r} -> Nat]  BY <1>3, <1>7, HoldsTyped
  <2>2. Sum(s) \in Nat  BY SumNat
  <2>3. OwnOf(s, c, v, r) = Sum(s)  BY <1>3, <1>5, <1>9 DEF OwnOf
  <2>4. HoldsOf(s, c, v, z)[r] = Sum(s) + 0  BY <1>3, <2>3, SumEmpty DEF HoldsOf
  <2> QED  BY <2>1, <2>2, <2>4
<1>11. TotalOf(HoldsOf(s, c, v, z)) = Sum(s)  BY <1>10, TotalOne
<1>12. Sum(s) \in Nat  BY SumNat
<1>13. Keeps(Sum(s), Sum(s))
  <2>1. PICK S \in Nat : S = Sum(s)  BY <1>12
  <2>2. S = S + 256 * 0 /\ 0 \in Int  OBVIOUS
  <2> QED  BY <2>1, <2>2 DEF Keeps
<1> QED  BY <1>7, <1>8, <1>11, <1>13 DEF ForkState

(* What the outermost call of the first process returns.                   *)
LEMMA ForkEnds ==
  ASSUME NEW s, NEW c, NEW v, NEW z, ForkState(s, c, v, z), NEW r, r = <<0, Len(s)>>,
         v[r] # NoValue, Len(c[r]) = 1
  PROVE  /\ v[r] \in Nat /\ v[r] % 256 = Sum(s) % 256
         /\ Sum(s) < 256 => v[r] = Sum(s)
<1>1. Forms(s, c, v, z) /\ s \in Seq(Nat) /\ Family(DOMAIN c, Len(s))  BY DEF ForkState, Forms
<1>2. PICK n \in Nat : n = Len(s)  BY <1>1
<1>3. r \in DOMAIN c  BY <1>1 DEF Family
<1>4. z[r] = <<>> /\ KidsOf(DOMAIN c, n, r) = {}  BY <1>2, <1>3, NoneLeft
<1>5. DOMAIN c = {r}  BY <1>1, <1>2, <1>4, RootAlone
<1>6. PICK x \in Nat : x = v[r]  BY <1>1, <1>5 DEF Forms
<1>7. PICK H \in [{r} -> Nat] : H = HoldsOf(s, c, v, z)  BY <1>1, <1>5, HoldsTyped
<1>8. H[r] = x + 0  BY <1>4, <1>5, <1>6, <1>7, SumEmpty DEF HoldsOf, OwnOf
<1>9. TotalOf(H) = H[r]  BY <1>7, TotalOne
<1>10. PICK S \in Nat : S = Sum(s)  BY <1>1, SumNat
<1>11. Keeps(x, S)
  <2>1. x + 0 = x  OBVIOUS
  <2> QED  BY <1>7, <1>8, <1>9, <1>10, <2>1 DEF ForkState
<1>12. x % 256 = S % 256  BY <1>11, KeepsMod
<1>13. S < 256 => x = S  BY <1>11 DEF Keeps
<1> QED  BY <1>6, <1>10, <1>12, <1>13

---------------------------------------------------------------------------
(* The threads of thread.c: s for nums, v for value, j for joining.        *)

Apart(q, r) == Hi(q) <= Lo(r) \/ Hi(r) <= Lo(q)
Under(j, q, r) == r \in j /\ \E h \in Halves(r) : Within(q, h)

Threads(s, v, j) ==
  LET L == DOMAIN v
  IN  /\ s \in Seq(Nat) /\ L \subseteq Nodes(Len(s)) /\ <<0, Len(s)>> \in L
      /\ v \in [L -> Nat \cup {NoValue}] /\ j \subseteq L
      /\ \A q \in L \ {<<0, Len(s)>>} : Lo(q) < Hi(q) /\ \E p \in j : q \in Halves(p)
      /\ \A p \in j : v[p] = NoValue /\ ~Small(p) /\ Halves(p) \subseteq L
      /\ \A p, q \in L : p # q => Apart(p, q) \/ Under(j, p, q) \/ Under(j, q, p)

(* What a thread has returned is the sum of its part.                      *)
ThreadState(s, v, j) ==
  Threads(s, v, j) /\ \A p \in DOMAIN v : v[p] # NoValue => v[p] = Sum(PartOf(s, p))

LEMMA NodeNat ==
  ASSUME NEW n \in Nat, NEW q \in Nodes(n)
  PROVE  Lo(q) \in Nat /\ Hi(q) \in Nat /\ Lo(q) <= Hi(q) /\ Hi(q) <= n /\ q \in Nat \X Nat
BY DEF Nodes, Lo, Hi

(* The halves of a node: nonempty, smaller, and apart.                     *)
IsHalf(n, p, h) == h \in Nodes(n) /\ Within(h, p) /\ Lo(h) < Hi(h) /\ ~Within(p, h) /\ h # p

LEMMA HalvesAre ==
  ASSUME NEW n \in Nat, NEW p \in Nodes(n), ~Small(p)
  PROVE  /\ \A h \in Halves(p) : IsHalf(n, p, h)
         /\ Hi(LeftHalf(p)) = Lo(RightHalf(p)) /\ LeftHalf(p) # RightHalf(p)
         /\ Lo(p) < Hi(p)
<1>1. p \in Nat \X Nat /\ Lo(p) <= Hi(p) /\ Hi(p) <= n  BY NodeNat
<1>2. PICK l, r : l = LeftHalf(p) /\ r = RightHalf(p)  OBVIOUS
<1>3. PICK lo \in Nat, mid \in Nat, hi \in Nat :
        /\ lo = Lo(p) /\ mid = Mid(p) /\ hi = Hi(p) /\ lo < mid /\ mid < hi
  BY <1>1, HalfOf DEF Lo, Hi
<1>4. /\ l \in Nat \X Nat /\ r \in Nat \X Nat /\ Lo(l) = lo /\ Hi(l) = mid /\ Lo(r) = mid /\ Hi(r) = hi
  BY <1>1, <1>2, <1>3, HalfOf
<1>5. IsHalf(n, p, l)  BY <1>1, <1>3, <1>4 DEF IsHalf, Nodes, Within
<1>6. IsHalf(n, p, r)  BY <1>1, <1>3, <1>4 DEF IsHalf, Nodes, Within
<1>7. l # r /\ Lo(p) < Hi(p)  BY <1>3, <1>4
<1> QED  BY <1>2, <1>4, <1>5, <1>6, <1>7 DEF Halves

(* p creates two threads.                                                  *)
Creates(v, j, w, k, p) ==
  /\ p \in DOMAIN v /\ v[p] = NoValue /\ ~Small(p) /\ p \notin j /\ k = j \cup {p}
  /\ w \in [DOMAIN v \cup Halves(p) -> Nat \cup {NoValue}]
  /\ \A q \in Halves(p) : w[q] = NoValue
  /\ \A q \in DOMAIN v \ Halves(p) : w[q] = v[q]

LEMMA CreateKeeps ==
  ASSUME NEW s, NEW v, NEW j, ThreadState(s, v, j), NEW w, NEW k, NEW p, Creates(v, j, w, k, p)
  PROVE  ThreadState(s, w, k)
<1>0. PICK n \in Nat : n = Len(s)  BY DEF ThreadState, Threads
<1>1. PICK L, H, M : L = DOMAIN v /\ H = Halves(p) /\ M = L \cup H  OBVIOUS
<1>2. /\ s \in Seq(Nat) /\ L \subseteq Nodes(n) /\ <<0, n>> \in L
      /\ v \in [L -> Nat \cup {NoValue}] /\ j \subseteq L
  BY <1>0, <1>1 DEF ThreadState, Threads
<1>3. \A q \in L \ {<<0, n>>} : Lo(q) < Hi(q) /\ \E x \in j : q \in Halves(x)
  BY <1>0, <1>1 DEF ThreadState, Threads
<1>4. \A x \in j : v[x] = NoValue /\ ~Small(x) /\ Halves(x) \subseteq L
  BY <1>1 DEF ThreadState, Threads
<1>5. \A q, r \in L : q # r => Apart(q, r) \/ Under(j, q, r) \/ Under(j, r, q)
  BY <1>1 DEF ThreadState, Threads
<1>6. p \in L /\ v[p] = NoValue /\ ~Small(p) /\ p \notin j /\ k = j \cup {p} /\ p \in Nodes(n)
  BY <1>1, <1>2 DEF Creates
<1>7. \A h \in H : IsHalf(n, p, h)  BY <1>1, <1>6, HalvesAre
<1>8. \A q \in L \cup H : Lo(q) \in Nat /\ Hi(q) \in Nat /\ Lo(q) <= Hi(q) /\ Hi(q) <= n
  BY <1>2, <1>7, NodeNat DEF IsHalf
<1>9. ASSUME NEW q \in L \ {p} PROVE Apart(p, q) \/ Under(j, p, q)
  BY <1>5, <1>6, <1>9 DEF Under
<1>10. ASSUME NEW q \in j PROVE \A g \in Halves(q) : IsHalf(n, q, g)
  BY <1>2, <1>4, <1>10, HalvesAre
(* Nobody holds a half of p: it would be apart from p or around it.        *)
<1>11. ASSUME NEW h \in H PROVE h \notin L
  <2> SUFFICES ASSUME h \in L PROVE FALSE  OBVIOUS
  <2>1. h # p /\ Within(h, p) /\ Lo(h) < Hi(h) /\ ~Within(p, h)  BY <1>7, <1>11 DEF IsHalf
  <2>2. ~Apart(p, h)  BY <1>6, <1>8, <2>1 DEF Apart, Within
  <2>3. Under(j, p, h)  BY <1>9, <2>1, <2>2
  <2>4. PICK g \in Halves(h) : Within(p, g) /\ h \in j  BY <2>3 DEF Under
  <2>5. g \in Nodes(n) /\ Within(g, h)  BY <1>10, <2>4 DEF IsHalf
  <2>6. Lo(g) \in Nat /\ Hi(g) \in Nat  BY <2>5, NodeNat
  <2>7. Within(p, h)  BY <1>6, <1>8, <2>4, <2>5, <2>6 DEF Within
  <2> QED  BY <2>1, <2>7
<1>12. /\ w \in [M -> Nat \cup {NoValue}] /\ DOMAIN w = M
       /\ (\A q \in H : w[q] = NoValue) /\ \A q \in L : w[q] = v[q]
  BY <1>1, <1>11 DEF Creates
<1>13. M \subseteq Nodes(n) /\ <<0, n>> \in M /\ k \subseteq M
  BY <1>1, <1>2, <1>6, <1>7 DEF IsHalf
<1>14. ASSUME NEW q \in M \ {<<0, n>>} PROVE Lo(q) < Hi(q) /\ \E x \in k : q \in Halves(x)
  <2>1. CASE q \in H  BY <1>1, <1>6, <1>7, <2>1 DEF IsHalf
  <2>2. CASE q \in L  BY <1>3, <1>6, <1>14, <2>2
  <2> QED  BY <1>1, <1>14, <2>1, <2>2
<1>15. \A x \in k : w[x] = NoValue /\ ~Small(x) /\ Halves(x) \subseteq M
  BY <1>1, <1>2, <1>4, <1>6, <1>12
<1>16. ASSUME NEW h \in H, NEW q \in M, h # q PROVE Apart(h, q) \/ Under(k, h, q)
  <2>1. Within(h, p) /\ h \in Nodes(n)  BY <1>7, <1>16 DEF IsHalf
  <2>2. CASE q \in H
    <3>1. PICK l, r : l = LeftHalf(p) /\ r = RightHalf(p)  OBVIOUS
    <3>2. Hi(l) = Lo(r) /\ H = {l, r}  BY <1>1, <1>6, <3>1, HalvesAre DEF Halves
    <3>3. Lo(l) \in Nat /\ Hi(l) \in Nat /\ Hi(l) <= Lo(r) /\ Lo(r) \in Nat  BY <1>8, <3>2
    <3>4. (h = l /\ q = r) \/ (h = r /\ q = l)  BY <1>16, <2>2, <3>2
    <3> QED  BY <3>3, <3>4 DEF Apart
  <2>3. CASE q = p
    <3>1. Within(h, h)  BY <1>8, <1>16 DEF Within
    <3> QED  BY <1>1, <1>6, <1>16, <2>3, <3>1 DEF Under
  <2>4. CASE q \in L \ {p}
    <3>1. CASE Apart(p, q)  BY <1>6, <1>8, <1>16, <2>1, <2>4, <3>1 DEF Apart, Within
    <3>2. CASE Under(j, p, q)
      <4>1. PICK g \in Halves(q) : Within(p, g) /\ q \in j  BY <3>2 DEF Under
      <4>2. g \in Nodes(n)  BY <1>10, <4>1 DEF IsHalf
      <4>3. Lo(g) \in Nat /\ Hi(g) \in Nat  BY <4>2, NodeNat
      <4>4. Within(h, g)  BY <1>6, <1>8, <1>16, <2>1, <4>1, <4>3 DEF Within
      <4> QED  BY <1>6, <4>1, <4>4 DEF Under
    <3> QED  BY <1>9, <2>4, <3>1, <3>2
  <2> QED  BY <1>1, <1>16, <2>2, <2>3, <2>4
<1>17. ASSUME NEW q \in M, NEW r \in M, q # r
       PROVE  Apart(q, r) \/ Under(k, q, r) \/ Under(k, r, q)
  <2>1. CASE q \in H  BY <1>16, <1>17, <2>1
  <2>2. CASE r \in H
    <3>1. Apart(r, q) \/ Under(k, r, q)  BY <1>16, <1>17, <2>2
    <3> QED  BY <3>1 DEF Apart
  <2>3. CASE q \in L /\ r \in L
    <3>1. Apart(q, r) \/ Under(j, q, r) \/ Under(j, r, q)  BY <1>5, <1>17, <2>3
    <3> QED  BY <1>6, <3>1 DEF Under
  <2> QED  BY <1>1, <1>17, <2>1, <2>2, <2>3
<1>18. Threads(s, w, k)
  BY <1>0, <1>2, <1>12, <1>13, <1>14, <1>15, <1>17 DEF Threads
<1>19. ASSUME NEW q \in M, w[q] # NoValue PROVE w[q] = Sum(PartOf(s, q))
  <2>1. q \in L /\ w[q] = v[q]  BY <1>1, <1>12, <1>19
  <2> QED  BY <1>1, <1>19, <2>1 DEF ThreadState
<1> QED  BY <1>12, <1>18, <1>19 DEF ThreadState

(* p joins its two threads.                                                *)
Joins(v, j, w, k, p) ==
  /\ p \in j /\ k = j \ {p} /\ \A h \in Halves(p) : v[h] # NoValue
  /\ w = [q \in DOMAIN v \ Halves(p) |->
            IF q = p THEN v[LeftHalf(p)] + v[RightHalf(p)] ELSE v[q]]

LEMMA JoinKeeps ==
  ASSUME NEW s, NEW v, NEW j, ThreadState(s, v, j), NEW w, NEW k, NEW p, Joins(v, j, w, k, p)
  PROVE  ThreadState(s, w, k)
<1>0. PICK n \in Nat : n = Len(s)  BY DEF ThreadState, Threads
<1>1. PICK L, H, M : L = DOMAIN v /\ H = Halves(p) /\ M = L \ H  OBVIOUS
<1>2. /\ s \in Seq(Nat) /\ L \subseteq Nodes(n) /\ <<0, n>> \in L
      /\ v \in [L -> Nat \cup {NoValue}] /\ j \subseteq L
  BY <1>0, <1>1 DEF ThreadState, Threads
<1>3. \A q \in L \ {<<0, n>>} : Lo(q) < Hi(q) /\ \E x \in j : q \in Halves(x)
  BY <1>0, <1>1 DEF ThreadState, Threads
<1>4. \A x \in j : v[x] = NoValue /\ ~Small(x) /\ Halves(x) \subseteq L
  BY <1>1 DEF ThreadState, Threads
<1>5. \A q, r \in L : q # r => Apart(q, r) \/ Under(j, q, r) \/ Under(j, r, q)
  BY <1>1 DEF ThreadState, Threads
<1>6. p \in L /\ p \in j /\ v[p] = NoValue /\ ~Small(p) /\ k = j \ {p} /\ p \in Nodes(n) /\ H \subseteq L
  BY <1>1, <1>2, <1>4 DEF Joins
<1>7. \A h \in H : IsHalf(n, p, h) /\ v[h] # NoValue /\ h \notin j
  <2>1. \A h \in H : IsHalf(n, p, h)  BY <1>1, <1>6, HalvesAre
  <2>2. \A h \in H : v[h] # NoValue  BY <1>1 DEF Joins
  <2> QED  BY <1>4, <2>1, <2>2
<1>8. \A q \in L : Lo(q) \in Nat /\ Hi(q) \in Nat /\ Lo(q) <= Hi(q) /\ Hi(q) <= n
  BY <1>2, NodeNat
<1>9. ASSUME NEW q \in j PROVE \A g \in Halves(q) : IsHalf(n, q, g) /\ g \in L
  BY <1>2, <1>4, <1>9, HalvesAre
<1>10. Lo(p) < Hi(p)  BY <1>6, HalvesAre
<1>11. \A q \in L : Lo(q) < Hi(q)
  <2>1. Lo(<<0, n>>) = 0 /\ Hi(<<0, n>>) = n  BY DEF Lo, Hi
  <2> QED  BY <1>3, <1>6, <1>8, <1>10, <2>1
(* Nobody but the two is within a half of p: both have returned.           *)
<1>12. ASSUME NEW q \in L, NEW h \in H, Within(q, h) PROVE q = h
  <2> SUFFICES ASSUME q # h PROVE FALSE  OBVIOUS
  <2>1. h \in L /\ h \notin j  BY <1>6, <1>7, <1>12
  <2>2. ~Apart(h, q)  BY <1>8, <1>11, <1>12, <2>1 DEF Apart, Within
  <2>3. Under(j, h, q)  BY <1>5, <2>1, <2>2 DEF Under, Apart
  <2>4. PICK g \in Halves(q) : Within(h, g) /\ q \in j  BY <2>3 DEF Under
  <2>5. Within(g, q) /\ ~Within(q, g) /\ g \in L  BY <1>9, <2>4 DEF IsHalf
  <2>6. Within(q, g)  BY <1>8, <1>12, <2>1, <2>4, <2>5 DEF Within
  <2> QED  BY <2>5, <2>6
<1>13. p \in M /\ <<0, n>> \in M
  <2>1. p \notin H  BY <1>7 DEF IsHalf
  <2>2. ASSUME <<0, n>> \in H PROVE FALSE
    <3>1. ~Within(p, <<0, n>>)  BY <1>7, <2>2 DEF IsHalf
    <3>2. Lo(<<0, n>>) = 0 /\ Hi(<<0, n>>) = n  BY DEF Lo, Hi
    <3> QED  BY <1>6, <1>8, <3>1, <3>2 DEF Within
  <2> QED  BY <1>1, <1>2, <1>6, <2>1, <2>2
(* The halves of two nodes that are being joined differ.                   *)
<1>14. ASSUME NEW q \in k PROVE Halves(q) \cap H = {}
  <2> SUFFICES ASSUME NEW g \in Halves(q), g \in H PROVE FALSE  OBVIOUS
  <2>1. q \in j /\ q \in L /\ q # p  BY <1>2, <1>6, <1>14
  <2>2. Within(g, q) /\ ~Within(q, g) /\ g \in L  BY <1>9, <2>1 DEF IsHalf
  <2>3. Within(g, p) /\ Lo(g) < Hi(g) /\ ~Within(p, g)  BY <1>7 DEF IsHalf
  <2>4. ~Apart(p, q)  BY <1>6, <1>8, <2>1, <2>2, <2>3 DEF Apart, Within
  <2>5. CASE Under(j, p, q)
    <3>1. PICK h \in Halves(q) : Within(p, h)  BY <2>5 DEF Under
    <3>2. h \in L /\ Within(h, q) /\ IsHalf(n, q, h)  BY <1>9, <2>1, <3>1 DEF IsHalf
    <3>3. h # g  BY <2>3, <3>1
    <3>4. Hi(LeftHalf(q)) = Lo(RightHalf(q))
      BY <1>2, <1>4, <2>1, HalvesAre
    <3>5. Hi(g) <= Lo(h) \/ Hi(h) <= Lo(g)  BY <1>8, <2>2, <3>2, <3>3, <3>4 DEF Halves
    <3> QED  BY <1>6, <1>8, <2>2, <2>3, <3>1, <3>2, <3>5 DEF Within
  <2>6. CASE Under(j, q, p)
    <3>1. PICK h \in H : Within(q, h)  BY <1>1, <2>6 DEF Under
    <3>2. q = h  BY <1>12, <2>1, <3>1
    <3> QED  BY <1>7, <2>1, <3>1, <3>2
  <2> QED  BY <1>5, <1>6, <2>1, <2>4, <2>5, <2>6
<1>15. v[LeftHalf(p)] + v[RightHalf(p)] = Sum(PartOf(s, p)) /\ Sum(PartOf(s, p)) \in Nat
  <2>1. PICK l, r : l = LeftHalf(p) /\ r = RightHalf(p)  OBVIOUS
  <2>2. v[l] = Sum(PartOf(s, l)) /\ v[r] = Sum(PartOf(s, r))
    <3>1. l \in H /\ r \in H  BY <1>1, <2>1 DEF Halves
    <3>2. l \in L /\ r \in L /\ v[l] # NoValue /\ v[r] # NoValue  BY <1>6, <1>7, <3>1
    <3> QED  BY <1>1, <3>2 DEF ThreadState
  <2>3. PICK lo \in Nat, mid \in Nat, hi \in Nat :
          /\ lo = Lo(p) /\ mid = Mid(p) /\ hi = Hi(p) /\ lo < mid /\ mid < hi
          /\ Lo(l) = lo /\ Hi(l) = mid /\ Lo(r) = mid /\ Hi(r) = hi
    <3>1. p \in Nat \X Nat /\ Lo(p) <= Hi(p)  BY <1>6, NodeNat
    <3> QED  BY <1>6, <2>1, <3>1, HalfOf DEF Lo, Hi
  <2>4. hi \in lo .. Len(s) /\ mid \in lo .. hi  BY <1>0, <1>6, <1>8, <2>3
  <2>5. Sum(SubSeq(s, lo + 1, hi)) = Sum(SubSeq(s, lo + 1, mid)) + Sum(SubSeq(s, mid + 1, hi))
    BY <1>2, <2>4, SumSplit
  <2>6. Sum(PartOf(s, p)) = Sum(PartOf(s, l)) + Sum(PartOf(s, r))  BY <2>3, <2>5 DEF PartOf
  <2>7. Sum(PartOf(s, p)) \in Nat
    <3>1. p \in Nat \X Nat /\ Lo(p) <= Hi(p) /\ Hi(p) <= Len(s)  BY <1>0, <1>6, NodeNat
    <3> QED  BY <1>2, <3>1, PartNat
  <2> QED  BY <2>1, <2>2, <2>6, <2>7
<1>16. DOMAIN w = M /\ w[p] = Sum(PartOf(s, p)) /\ \A q \in M \ {p} : w[q] = v[q]
  BY <1>1, <1>13, <1>15 DEF Joins
<1>17. w \in [M -> Nat \cup {NoValue}]
  <2>1. \A q \in M : w[q] \in Nat \cup {NoValue}  BY <1>1, <1>2, <1>15, <1>16
  <2>2. w = [q \in M |-> w[q]]  BY <1>1 DEF Joins
  <2> QED  BY <2>1, <2>2
<1>18. M \subseteq Nodes(n) /\ k \subseteq M  BY <1>1, <1>2, <1>6, <1>7
<1>19. ASSUME NEW q \in M \ {<<0, n>>} PROVE Lo(q) < Hi(q) /\ \E x \in k : q \in Halves(x)
  <2>1. q \in L /\ q \notin H  BY <1>1, <1>19
  <2>2. PICK x \in j : q \in Halves(x)  BY <1>3, <1>19, <2>1
  <2> QED  BY <1>1, <1>6, <1>11, <2>1, <2>2
<1>20. \A x \in k : w[x] = NoValue /\ ~Small(x) /\ Halves(x) \subseteq M
  BY <1>1, <1>4, <1>6, <1>14, <1>16, <1>18
<1>21. ASSUME NEW q \in M, NEW r \in M, Under(j, q, r) PROVE Under(k, q, r)
  <2>1. PICK h \in Halves(r) : Within(q, h) /\ r \in j  BY <1>21 DEF Under
  <2>2. r # p
    <3> SUFFICES ASSUME r = p PROVE FALSE  OBVIOUS
    <3>1. q = h  BY <1>1, <1>12, <1>21, <2>1
    <3> QED  BY <1>1, <1>21, <2>1, <3>1
  <2> QED  BY <1>6, <2>1, <2>2 DEF Under
<1>22. ASSUME NEW q \in M, NEW r \in M, q # r
       PROVE  Apart(q, r) \/ Under(k, q, r) \/ Under(k, r, q)
  BY <1>1, <1>5, <1>21, <1>22
<1>23. Threads(s, w, k)
  BY <1>0, <1>2, <1>13, <1>16, <1>17, <1>18, <1>19, <1>20, <1>22 DEF Threads
<1>24. ASSUME NEW q \in M, w[q] # NoValue PROVE w[q] = Sum(PartOf(s, q))
  <2>1. CASE q = p  BY <1>16, <2>1
  <2>2. CASE q # p
    <3>1. q \in L /\ w[q] = v[q]  BY <1>1, <1>16, <1>24, <2>2
    <3> QED  BY <1>1, <1>24, <3>1 DEF ThreadState
  <2> QED  BY <2>1, <2>2
<1> QED  BY <1>16, <1>23, <1>24 DEF ThreadState

LEMMA ThreadBaseKeeps ==
  ASSUME NEW s, NEW v, NEW j, ThreadState(s, v, j), NEW p \in DOMAIN v, Small(p),
         NEW w, w = [v EXCEPT ![p] = Sum(PartOf(s, p))]
  PROVE  ThreadState(s, w, j)
<1>1. /\ s \in Seq(Nat) /\ DOMAIN v \subseteq Nodes(Len(s))
      /\ v \in [DOMAIN v -> Nat \cup {NoValue}]
  BY DEF ThreadState, Threads
<1>2. PICK x \in Nat : x = Sum(PartOf(s, p))
  <2>1. Len(s) \in Nat /\ p \in Nodes(Len(s))  BY <1>1
  <2>2. p \in Nat \X Nat /\ Lo(p) <= Hi(p) /\ Hi(p) <= Len(s)  BY <2>1, NodeNat
  <2> QED  BY <1>1, <2>2, PartNat
<1>3. w \in [DOMAIN v -> Nat \cup {NoValue}] /\ w[p] = x /\ \A q \in DOMAIN v \ {p} : w[q] = v[q]
  BY <1>1, <1>2
<1>4. DOMAIN w = DOMAIN v  BY <1>3
<1>5. \A q \in j : w[q] = v[q]  BY <1>3 DEF ThreadState, Threads
<1>6. Threads(s, w, j)  BY <1>3, <1>4, <1>5 DEF ThreadState, Threads
<1> QED  BY <1>2, <1>3, <1>4, <1>6 DEF ThreadState

LEMMA ThreadsStart ==
  ASSUME NEW s \in Seq(Nat), NEW r, r = <<0, Len(s)>>, NEW v, v = [q \in {r} |-> NoValue]
  PROVE  ThreadState(s, v, {})
<1>1. PICK n \in Nat : n = Len(s)  OBVIOUS
<1>2. r \in Nodes(n) /\ DOMAIN v = {r}  BY <1>1 DEF Nodes, Lo, Hi
<1>3. v \in [{r} -> Nat \cup {NoValue}] /\ v[r] = NoValue  OBVIOUS
<1> QED  BY <1>1, <1>2, <1>3 DEF ThreadState, Threads

(* When the first thread has returned none is waiting to join: the widest  *)
(* of them would be a half of a wider one.                                 *)
LEMMA ThreadsEnd ==
  ASSUME NEW s, NEW v, NEW j, ThreadState(s, v, j), NEW r, r = <<0, Len(s)>>, v[r] # NoValue
  PROVE  v[r] = Sum(s) /\ j = {}
<1>0. PICK n \in Nat : n = Len(s)  BY DEF ThreadState, Threads
<1>1. PICK L : L = DOMAIN v  OBVIOUS
<1>2. s \in Seq(Nat) /\ L \subseteq Nodes(n) /\ r \in L /\ j \subseteq L
  BY <1>0, <1>1 DEF ThreadState, Threads
<1>3. \A q \in L \ {r} : \E x \in j : q \in Halves(x)
  BY <1>0, <1>1 DEF ThreadState, Threads
<1>4. \A x \in j : v[x] = NoValue /\ ~Small(x)  BY DEF ThreadState, Threads
<1>5. v[r] = Sum(s)
  <2>1. v[r] = Sum(PartOf(s, r))  BY <1>1, <1>2 DEF ThreadState
  <2>2. Lo(r) + 1 = 1 /\ Hi(r) = Len(s)  BY DEF Lo, Hi
  <2> QED  BY <1>2, <2>1, <2>2, SumWhole DEF PartOf
<1>6. ASSUME j # {} PROVE FALSE
  <2> DEFINE W == {n - (Hi(q) - Lo(q)) : q \in j}
  <2>1. \A q \in L : Lo(q) \in Nat /\ Hi(q) \in Nat /\ Lo(q) <= Hi(q) /\ Hi(q) <= n
    BY <1>2, NodeNat
  <2>2. W \in SUBSET Nat /\ W # {}  BY <1>2, <1>6, <2>1
  <2>3. PICK m \in W : \A x \in W : m <= x
    <3> HIDE DEF W
    <3> QED  BY <2>2, SomeLeast
  <2>4. PICK q \in j : m = n - (Hi(q) - Lo(q))  BY <2>3
  <2>5. \A x \in j : n - (Hi(q) - Lo(q)) <= n - (Hi(x) - Lo(x))  BY <2>3, <2>4
  <2>6. q \in L \ {r}  BY <1>2, <1>4, <2>4
  <2>7. PICK x \in j : q \in Halves(x)  BY <1>3, <2>6
  <2>8. Within(q, x) /\ ~Within(x, q)
    <3>1. x \in Nodes(n) /\ ~Small(x)  BY <1>2, <1>4, <2>7
    <3> QED  BY <2>7, <3>1, HalvesAre DEF IsHalf
  <2>9. n - (Hi(q) - Lo(q)) <= n - (Hi(x) - Lo(x))  BY <2>5, <2>7
  <2> HIDE DEF W
  <2> QED  BY <1>2, <2>1, <2>4, <2>7, <2>8, <2>9 DEF Within
<1> QED  BY <1>5, <1>6

---------------------------------------------------------------------------
(* The programs.                                                           *)

Printed(t, s) ==
  t # NoValue => IF t.of = "thread" \/ Sum(s) < 256 THEN t.value = Sum(s)
                 ELSE t.value % 256 = Sum(s) % 256

(* While every fork and pthread_create has succeeded.                      *)
SumsInv ==
  /\ temp \in Seq(Nat) /\ nums \in Seq(Nat)
  /\ prog = "fork" => ForkState(nums, calls, value, zombies)
  /\ prog = "thread" => ThreadState(nums, value, joining) /\ DOMAIN calls = DOMAIN value
  /\ prog # "thread" => joining = {}
  /\ Printed(total, nums)

LEMMA NumgenSums == ASSUME SumsInv, Numgen PROVE SumsInv'
<1>1. temp' \in Seq(Nat)
  <2>1. MAX \in Nat  BY SumsAssumption
  <2>2. [k \in 1 .. MAX |-> k] \in Seq(Nat)  BY <2>1
  <2> QED  BY <2>2 DEF Numgen
<1>2. Printed(total', nums)  BY DEF Numgen, Printed
<1> QED  BY <1>1, <1>2 DEF Numgen, SumsInv

LEMMA MainSums == ASSUME SumsInv, NEW p \in {"fork", "thread"}, Main(p) PROVE SumsInv'
<1>1. /\ temp' \in Seq(Nat) /\ nums' \in Seq(Nat) /\ nums' = temp /\ joining' = {}
      /\ total' = NoValue
  BY DEF Main, Starts, SumsInv
<1>2. Printed(total, nums)'  BY <1>1 DEF Printed
<1>3. CASE Len(temp) > MAX
  <2>1. prog' = "undefined"  BY <1>3 DEF Main
  <2> QED  BY <1>1, <1>2, <2>1 DEF SumsInv
<1>4. CASE ~(Len(temp) > MAX)
  <2>1. PICK r, s : r = <<0, Len(temp)>> /\ s = temp  OBVIOUS
  <2>2. /\ prog' = p /\ calls' = [q \in {r} |-> <<r>>] /\ value' = [q \in {r} |-> NoValue]
        /\ zombies' = [q \in {r} |-> <<>>]
    BY <1>4, <2>1 DEF Main
  <2>3. s \in Seq(Nat) /\ nums' = s /\ r = <<0, Len(s)>>  BY <1>1, <2>1 DEF SumsInv
  <2>4. ForkState(nums', calls', value', zombies')  BY <2>2, <2>3, ForkStarts
  <2>5. ThreadState(nums', value', joining')  BY <1>1, <2>2, <2>3, ThreadsStart
  <2>6. DOMAIN calls' = DOMAIN value'  BY <2>2
  <2> QED  BY <1>1, <1>2, <2>2, <2>4, <2>5, <2>6 DEF SumsInv
<1> QED  BY <1>3, <1>4

(* The steps of fork.c.                                                    *)
LEMMA ForkSumSums == ASSUME SumsInv, NEW p \in Live, ForkSum(p) PROVE SumsInv'
<1>1. PICK i, q : i = Inner(p) /\ q = LeftHalf(i)  OBVIOUS
<1>2. PICK s, c, v, z : s = nums /\ c = calls /\ v = value /\ z = zombies  OBVIOUS
<1>3. PICK d, w, y : d = calls' /\ w = value' /\ y = zombies'  OBVIOUS
<1>4. ForkState(s, c, v, z)  BY <1>2 DEF SumsInv, ForkSum
<1>5. /\ v \in [DOMAIN c -> Nat \cup {NoValue}] /\ z \in [DOMAIN c -> Seq(Nat)]
      /\ c \in [DOMAIN c -> Seq(Nat \X Nat)]
  BY <1>4 DEF ForkState, Forms
<1>6. p \in DOMAIN c /\ v[p] = NoValue /\ ~Small(i) /\ i = Last(c[p])
  BY <1>1, <1>2 DEF ForkSum, Live, Inner
<1>7. /\ d = With([c EXCEPT ![p] = Append(@, RightHalf(i))], q, <<q>>)
      /\ w = With(v, q, NoValue) /\ y = With(z, q, <<>>)
  BY <1>1, <1>2, <1>3 DEF ForkSum
<1>8. PICK L : L = DOMAIN c  OBVIOUS
<1>9. /\ d = [x \in L \cup {q} |-> IF x = q THEN <<q>>
                                   ELSE [c EXCEPT ![p] = Append(@, RightHalf(i))][x]]
      /\ w = [x \in L \cup {q} |-> IF x = q THEN NoValue ELSE v[x]]
      /\ y = [x \in L \cup {q} |-> IF x = q THEN <<>> ELSE z[x]]
  <2>1. DOMAIN v = L /\ DOMAIN z = L /\ DOMAIN [c EXCEPT ![p] = Append(@, RightHalf(i))] = L
    BY <1>5, <1>8
  <2> QED  BY <1>7, <2>1 DEF With
<1>10. Forks(c, v, z, d, w, y, p, q, i)
  <2>1. DOMAIN d = L \cup {q} /\ d = [x \in DOMAIN d |-> d[x]]  BY <1>9
  <2>2. q # p
    <3>1. Hi(q) = Mid(i) /\ i \in Nat \X Nat /\ Lo(i) <= Hi(i) /\ Hi(i) = Hi(p)
      BY <1>1, <1>4, <1>6 DEF ForkState, Forms, AtWork, LeftHalf, Hi
    <3>2. Mid(i) < Hi(i)  BY <1>6, <3>1, HalfOf
    <3>3. Mid(i) \in Nat  BY <1>6, <3>1, HalfOf
    <3> QED  BY <3>1, <3>2, <3>3
  <2>3. d[q] = <<q>> /\ d[p] = Append(c[p], RightHalf(i)) /\ \A x \in L \ {p, q} : d[x] = c[x]
    BY <1>6, <1>8, <1>9, <2>2
  <2>4. w \in [L \cup {q} -> Nat \cup {NoValue}] /\ w[q] = NoValue /\ \A x \in L \ {q} : w[x] = v[x]
    BY <1>5, <1>8, <1>9
  <2>5. y \in [L \cup {q} -> Seq(Nat)] /\ y[q] = <<>> /\ \A x \in L \ {q} : y[x] = z[x]
    BY <1>5, <1>8, <1>9
  <2> QED  BY <1>1, <1>6, <1>8, <2>1, <2>3, <2>4, <2>5 DEF Forks
<1>11. ForkState(s, d, w, y)  BY <1>4, <1>10, ForkKeeps
<1>12. ForkState(nums', calls', value', zombies')  BY <1>2, <1>3, <1>11 DEF ForkSum
<1> QED  BY <1>12 DEF SumsInv, ForkSum

LEMMA ForkBaseSums == ASSUME SumsInv, NEW p \in Live, ForkBase(p) PROVE SumsInv'
<1>1. ForkState(nums, calls, value, zombies)  BY DEF SumsInv, ForkBase
<1>2. p \in DOMAIN calls /\ value[p] = NoValue
      /\ value' = [value EXCEPT ![p] = Sum(PartOf(nums, Last(calls[p])))]
  BY DEF ForkBase, Live, Inner, Part, PartOf
<1>3. ForkState(nums, calls, value', zombies)
  <2>1. PICK w : w = value'  OBVIOUS
  <2> QED  BY <1>1, <1>2, <2>1, BaseKeeps
<1> QED  BY <1>3 DEF SumsInv, ForkBase

LEMMA WaitSums == ASSUME SumsInv, NEW p \in Live, Wait(p) PROVE SumsInv'
<1>1. ForkState(nums, calls, value, zombies)  BY DEF SumsInv, Wait
<1>2. PICK k \in DOMAIN zombies[p] :
        /\ temp' = Append(temp, zombies[p][k] + Reduced(value[p]))
        /\ value' = [value EXCEPT ![p] = zombies[p][k] + Reduced(value[p])]
        /\ zombies' = [zombies EXCEPT ![p] = RemoveAt(@, k)]
  BY DEF Wait
<1>3. p \in DOMAIN calls /\ value[p] # NoValue /\ Len(calls[p]) > 1
      /\ calls' = [calls EXCEPT ![p] = Front(@)]
  BY DEF Wait, Live
<1>4. zombies[p] \in Seq(Nat) /\ value[p] \in Nat
  BY <1>1, <1>3 DEF ForkState, Forms
<1>5. k \in 1 .. Len(zombies[p]) /\ zombies[p][k] \in Nat  BY <1>2, <1>4
<1>6. ForkState(nums, calls', value', zombies')
  <2>1. PICK d, w, y : d = calls' /\ w = value' /\ y = zombies'  OBVIOUS
  <2> QED  BY <1>1, <1>2, <1>3, <1>5, <2>1, WaitKeeps
<1>7. temp' \in Seq(Nat)
  <2>1. Reduced(value[p]) \in Nat  BY <1>4, ReducedIs
  <2>2. zombies[p][k] + Reduced(value[p]) \in Nat  BY <1>5, <2>1
  <2> QED  BY <1>2, <2>2 DEF SumsInv
<1> QED  BY <1>6, <1>7 DEF SumsInv, Wait

LEMMA ExitSums == ASSUME SumsInv, NEW p \in Live, Exit(p) PROVE SumsInv'
<1>1. ForkState(nums, calls, value, zombies)  BY DEF SumsInv, Exit
<1>2. PICK P : P = ParentOf(DOMAIN calls, p)  OBVIOUS
<1>3. Parent(p) = P  BY <1>2 DEF Parent, ParentOf, Live
<1>4. PICK d, w, y : d = calls' /\ w = value' /\ y = zombies'  OBVIOUS
<1>5. Exits(calls, value, zombies, d, w, y, p, P)
  BY <1>3, <1>4 DEF Exits, Exit, Ends, Live
<1>6. p # <<0, Len(nums)>>  BY DEF Exit, Root
<1>7. ForkState(nums, d, w, y)  BY <1>1, <1>2, <1>5, <1>6, ExitKeeps
<1> QED  BY <1>4, <1>7 DEF SumsInv, Exit

(* The steps of thread.c.                                                  *)
LEMMA CreateSums == ASSUME SumsInv, NEW p \in Live, Create(p) PROVE SumsInv'
<1>1. ThreadState(nums, value, joining) /\ DOMAIN calls = DOMAIN value  BY DEF SumsInv, Create
<1>2. PICK L, H : L = DOMAIN value /\ H = Halves(p)  OBVIOUS
<1>3. value \in [L -> Nat \cup {NoValue}]  BY <1>1, <1>2 DEF ThreadState, Threads
<1>0. PICK l, r : l = LeftHalf(p) /\ r = RightHalf(p) /\ H = {l, r}  BY <1>2 DEF Halves
<1>4. value' = [x \in H \cup L |-> IF x \in H THEN NoValue ELSE value[x]]
  <2>1. value' = With(With(value, l, NoValue), r, NoValue)  BY <1>0 DEF Create
  <2>2. With(value, l, NoValue) = [x \in L \cup {l} |-> IF x = l THEN NoValue ELSE value[x]]
    BY <1>2 DEF With
  <2> QED  BY <1>0, <2>1, <2>2 DEF With
<1>5. DOMAIN calls' = H \cup L
  <2>1. PICK e : e = With(calls, l, <<l>>)  OBVIOUS
  <2>2. DOMAIN e = L \cup {l}  BY <1>1, <1>2, <2>1 DEF With
  <2>3. calls' = With(e, r, <<r>>)  BY <1>0, <2>1 DEF Create
  <2>4. DOMAIN calls' = DOMAIN e \cup {r}  BY <2>3 DEF With
  <2> QED  BY <1>0, <2>2, <2>4
<1>6. PICK w, k : w = value' /\ k = joining'  OBVIOUS
<1>7. Creates(value, joining, w, k, p)
  <2>1. w \in [L \cup H -> Nat \cup {NoValue}]  BY <1>3, <1>4, <1>6
  <2>2. (\A x \in H : w[x] = NoValue) /\ \A x \in L \ H : w[x] = value[x]  BY <1>4, <1>6
  <2> QED  BY <1>1, <1>2, <1>6, <2>1, <2>2 DEF Creates, Create, Live
<1>8. ThreadState(nums, w, k)  BY <1>1, <1>7, CreateKeeps
<1>9. DOMAIN value' = H \cup L  BY <1>4
<1> QED  BY <1>5, <1>6, <1>8, <1>9 DEF SumsInv, Create

LEMMA ThreadBaseSums == ASSUME SumsInv, NEW p \in Live, ThreadBase(p) PROVE SumsInv'
<1>1. ThreadState(nums, value, joining) /\ DOMAIN calls = DOMAIN value  BY DEF SumsInv, ThreadBase
<1>2. p \in DOMAIN value /\ Small(p) /\ value' = [value EXCEPT ![p] = Sum(PartOf(nums, p))]
  BY <1>1 DEF ThreadBase, Live, Part, PartOf
<1>3. PICK w : w = value'  OBVIOUS
<1>4. ThreadState(nums, w, joining)  BY <1>1, <1>2, <1>3, ThreadBaseKeeps
<1>5. DOMAIN value' = DOMAIN value  BY <1>2
<1> QED  BY <1>1, <1>3, <1>4, <1>5 DEF SumsInv, ThreadBase

LEMMA JoinSums == ASSUME SumsInv, NEW p \in Live, Join(p) PROVE SumsInv'
<1>1. ThreadState(nums, value, joining) /\ DOMAIN calls = DOMAIN value  BY DEF SumsInv, Join
<1>2. PICK w, k : w = value' /\ k = joining'  OBVIOUS
<1>3. Joins(value, joining, w, k, p)  BY <1>1, <1>2 DEF Joins, Join, Live
<1>4. ThreadState(nums, w, k)  BY <1>1, <1>3, JoinKeeps
<1>5. DOMAIN calls' = DOMAIN value'  BY <1>1 DEF Join, Live
<1>6. temp' \in Seq(Nat)
  <2>1. PICK l, r : l = LeftHalf(p) /\ r = RightHalf(p)  OBVIOUS
  <2>2. l \in DOMAIN value /\ r \in DOMAIN value
    BY <1>1, <2>1 DEF Join, ThreadState, Threads, Halves
  <2>3. value[l] # NoValue /\ value[r] # NoValue  BY <2>1 DEF Join, Halves
  <2>4. value[l] \in Nat /\ value[r] \in Nat  BY <1>1, <2>2, <2>3 DEF ThreadState, Threads
  <2>5. value[l] + value[r] \in Nat  BY <2>4
  <2>6. temp' = Append(temp, value[l] + value[r])  BY <2>1 DEF Join
  <2> QED  BY <2>5, <2>6 DEF SumsInv
<1> QED  BY <1>2, <1>4, <1>5, <1>6 DEF SumsInv, Join

LEMMA OutputSums == ASSUME SumsInv, Output PROVE SumsInv'
<1>1. /\ prog' = "none" /\ nums' = nums /\ joining' = joining /\ temp' = temp
      /\ total' = [of |-> prog, value |-> value[Root]] /\ prog \in {"fork", "thread"}
      /\ value[Root] # NoValue /\ Len(calls[Root]) = 1 /\ Root = <<0, Len(nums)>>
  BY DEF Output, Ends, Root
<1>2. CASE prog = "fork"
  <2>1. ForkState(nums, calls, value, zombies)  BY <1>2 DEF SumsInv
  <2>2. value[Root] % 256 = Sum(nums) % 256 /\ (Sum(nums) < 256 => value[Root] = Sum(nums))
    BY <1>1, <2>1, ForkEnds
  <2>3. total'.of = "fork" /\ total'.value = value[Root]  BY <1>1, <1>2
  <2>4. Printed(total', nums)  BY <2>2, <2>3 DEF Printed
  <2> QED  BY <1>1, <1>2, <2>4 DEF SumsInv
<1>3. CASE prog = "thread"
  <2>1. ThreadState(nums, value, joining)  BY <1>3 DEF SumsInv
  <2>2. value[Root] = Sum(nums) /\ joining = {}  BY <1>1, <2>1, ThreadsEnd
  <2>3. total'.of = "thread" /\ total'.value = value[Root]  BY <1>1, <1>3
  <2>4. Printed(total', nums)  BY <2>2, <2>3 DEF Printed
  <2> QED  BY <1>1, <2>2, <2>4 DEF SumsInv
<1> QED  BY <1>1, <1>2, <1>3

(* A call that waits has a child or a status to wait for.                  *)
LEMMA AloneIs ==
  ASSUME SumsInv, prog = "fork", NEW p \in Live
  PROVE  Alone(p) <=> Len(calls[p]) = 1
<1>1. /\ ForkState(nums, calls, value, zombies) /\ p \in DOMAIN calls
      /\ zombies[p] \in Seq(Nat)
  BY DEF SumsInv, Live, ForkState, Forms
<1>2. PICK K : K = KidsOf(DOMAIN calls, Len(nums), p)  OBVIOUS
<1>3. Alone(p) <=> zombies[p] = <<>> /\ K = {}
  <2>1. \A q : Parent(q) = ParentOf(DOMAIN calls, q)  BY DEF Parent, ParentOf, Live
  <2> QED  BY <1>2, <2>1 DEF Alone, KidsOf, Live, Root
<1>4. Len(calls[p]) = 1 => Alone(p)  BY <1>1, <1>2, <1>3, NoneLeft
<1>5. ASSUME zombies[p] = <<>>, K = {} PROVE Len(calls[p]) = 1
  <2>1. Len(calls[p]) = 1 + Len(zombies[p]) + Cardinality(K)
    BY <1>1, <1>2 DEF ForkState, Counted
  <2>2. Len(zombies[p]) = 0 /\ Cardinality(K) = 0  BY <1>5, FS_EmptySet
  <2> QED  BY <2>1, <2>2
<1> QED  BY <1>3, <1>4, <1>5

LEMMA NoWaitFails == ASSUME SumsInv, NEW p, WaitFails(p) PROVE FALSE
<1>1. p \in Live /\ prog = "fork" /\ Alone(p)  BY DEF WaitFails
<1>2. Len(calls[p]) > 1  BY DEF WaitFails
<1>3. Len(calls[p]) = 1  BY <1>1, AloneIs
<1> QED  BY <1>2, <1>3

LEMMA SumsGood == failed \/ SumsInv => SumKept
<1> SUFFICES ASSUME SumsInv PROVE SumKept  BY DEF SumKept
<1>1. prog = "fork" => \A p \in Live : Alone(p) <=> Len(calls[p]) = 1  BY AloneIs
<1>2. total # NoValue =>
        IF total.of = "thread" \/ Sum(nums) < 256 THEN total.value = Sum(nums)
        ELSE total.value % 256 = Sum(nums) % 256
  BY DEF SumsInv, Printed
<1> QED  BY <1>1, <1>2 DEF SumKept

(* Whatever is in temp.txt and however the processes and threads are       *)
(* scheduled, if all that are asked for can be created: thread.c prints    *)
(* the sum, fork.c the sum if it is less than 256 and the sum modulo 256   *)
(* otherwise; no process of fork.c ends before its children or leaves a    *)
(* status behind, and none waits for a child it does not have.             *)
THEOREM SumsKept == SumsSpec => []SumKept
<1>1. SumsInit => failed \/ SumsInv
  <2> SUFFICES ASSUME SumsInit PROVE SumsInv  OBVIOUS
  <2>1. temp \in Seq(Nat) /\ nums \in Seq(Nat)  BY SumsAssumption DEF SumsInit
  <2> QED  BY <2>1 DEF SumsInit, SumsInv, Printed
<1>2. (failed \/ SumsInv) /\ [SumsNext]_sumsVars => (failed \/ SumsInv)'
  <2> SUFFICES ASSUME failed \/ SumsInv, [SumsNext]_sumsVars, ~failed' PROVE SumsInv'
    OBVIOUS
  <2>0. SumsInv
    BY DEF SumsNext, Numgen, Main, Output, Step, ForkSum, ForkFails, ForkBase, Wait, WaitFails,
           Exit, Create, CreateFails, ThreadBase, Join, sumsVars
  <2>1. CASE Numgen  BY <2>0, <2>1, NumgenSums
  <2>2. CASE Main("fork")  BY <2>0, <2>2, MainSums
  <2>3. CASE Main("thread")  BY <2>0, <2>3, MainSums
  <2>4. CASE Output  BY <2>0, <2>4, OutputSums
  <2>5. ASSUME NEW p \in Live, Step(p) PROVE SumsInv'
    <3>1. ~ForkFails(p) /\ ~CreateFails(p)  BY DEF ForkFails, CreateFails
    <3>2. ~WaitFails(p)  BY <2>0, NoWaitFails
    <3> QED
      BY <2>0, <2>5, <3>1, <3>2, ForkSumSums, ForkBaseSums, WaitSums, ExitSums, CreateSums,
         ThreadBaseSums, JoinSums
      DEF Step
  <2>6. CASE UNCHANGED sumsVars  BY <2>0, <2>6 DEF sumsVars, SumsInv
  <2> QED  BY <2>1, <2>2, <2>3, <2>4, <2>5, <2>6 DEF SumsNext
<1> QED  BY <1>1, <1>2, SumsGood, PTL DEF SumsSpec
=============================================================================
