---------------------------- MODULE PreforkProofs ----------------------------
(***************************************************************************)
(* The preforked server of 3-1, in the two views its specifications take.  *)
(*                                                                         *)
(* Prefork, the pool: for any number of workers and under all signals, as  *)
(* long as no process has fallen out of child_main.  Only the parent forks *)
(* then; the invariant ties each worker to its entry of pids, or to the    *)
(* fork that has not been stored yet, and the number of processes to the   *)
(* index of the fork loop.  So the parent has at most as many children as  *)
(* its handler waits for.                                                  *)
(*                                                                         *)
(* Worker, one of them: it keeps its descriptors in balance, serves who is *)
(* listed, and its history shows the right clients and, unless a report    *)
(* was torn, the right times: for any number of clients, descriptors and   *)
(* reports.  Three inductive invariants, each on top of the types: Held,   *)
(* for descriptors and admission, Rows and Times, for the history.         *)
(***************************************************************************)
EXTENDS Prefork, Worker, HistoryProofs

(***************************************************************************)
(* The pool.                                                               *)
(***************************************************************************)

Types ==
  /\ i \in [Proc -> Nat] /\ h \in [Proc -> 0 .. maxNchildren]
  /\ kid \in [Proc -> Proc \cup {Junk}]
  /\ pids \in [Proc -> [Slots -> Proc \cup {Junk}]]
  /\ ppid \in [Proc -> Proc \cup {InitProc}]
  /\ hnd \in [Proc -> BOOLEAN]
  /\ ended \in {"no", "exit", "signal"}

(* Workers are in child_main or in a handler, the parent is in neither     *)
(* child_main nor the handlers that it installs.                           *)
Roles ==
  /\ pc \in [Proc -> {"unborn", "boot", "fork", "assign", "pause", "setup", "ctime", "accept",
                      "stuck", "killing", "waiting", "zombie", "reaped"}]
  /\ pc[Parent] \in {"boot", "fork", "assign", "pause", "killing", "waiting", "zombie", "reaped"}
  /\ \A q \in Proc \ {Parent} : pc[q] \notin {"boot", "fork", "assign", "pause"}
  /\ ~hnd[Parent]
  /\ ppid[Parent] = InitProc
  /\ Alive(Parent) => \A q \in Workers : ppid[q] = Parent

(* The fork loop, wherever a signal has interrupted it.                    *)
ForkLoop ==
  /\ i[Parent] <= maxNchildren
  /\ kid[Parent] # Junk => i[Parent] < maxNchildren
  /\ pc[Parent] \in {"boot", "fork", "pause"} => kid[Parent] = Junk
  /\ pc[Parent] = "assign" => kid[Parent] # Junk

Known ==
  Alive(Parent) =>
    /\ \A c \in Proc : pc[c] # "unborn" => c <= (IF kid[Parent] = Junk THEN 0 ELSE 1) + i[Parent]
    /\ \A q \in Workers : \/ i[q] < i[Parent] /\ pids[Parent][i[q]] = q
                          \/ i[q] = i[Parent] /\ kid[Parent] = q

OwnIndex ==
  /\ \A q \in Workers : i[q] < maxNchildren
  /\ \A q, r \in Workers : q # r => i[q] # i[r]

(* Each wait has found a child that has ended, or there was none.          *)
Waits ==
  /\ pc[Parent] = "waiting" => Cardinality(Children(Parent)) <= maxNchildren - h[Parent]
  /\ ended = "exit" => ~Alive(Parent) /\ Workers = {}

Good == Types /\ Roles /\ ForkLoop /\ Known /\ OwnIndex /\ Waits
PInv == ~escaped => Good

---------------------------------------------------------------------------

LEMMA Procs == /\ Parent \in Proc /\ Proc \subseteq Nat /\ IsFiniteSet(Proc)
               /\ Junk \notin Proc /\ InitProc \notin Proc
  <1>1. MAX_PROCS \in Nat \ {0} /\ Proc = 0 .. MAX_PROCS - 1
    BY PreforkAssumption DEF Proc
  <1>2. IsFiniteSet(0 .. MAX_PROCS - 1)
    BY <1>1, FS_Interval
  <1> QED BY <1>1, <1>2 DEF Parent, Junk, InitProc

(* A child lost, or found dead, leaves a smaller set to wait for.          *)
LEMMA FewerChildren ==
  ASSUME Children(Parent)' \subseteq Children(Parent)
  PROVE  /\ Cardinality(Children(Parent)) \in Nat /\ Cardinality(Children(Parent)') \in Nat
         /\ Cardinality(Children(Parent)') <= Cardinality(Children(Parent))
  <1>1. IsFiniteSet(Children(Parent))
    <2>1. Children(Parent) \in SUBSET Proc
      BY DEF Children
    <2> QED BY <2>1, Procs, FS_Subset
  <1>2. IsFiniteSet(Children(Parent)')
    BY <1>1, FS_Subset
  <1> QED BY <1>1, <1>2, FS_Subset, FS_CardinalityType

LEMMA InitPInv == Init => PInv
  <1>1. maxNchildren \in Nat \ {0}
    BY PreforkAssumption
  <1> SUFFICES ASSUME Init PROVE Good
    BY DEF PInv
  <1>2. Workers = {}
    BY Procs DEF Init, Workers, Alive
  <1>3. Types
    <2>1. 0 \in 0 .. maxNchildren /\ 0 \in Nat
      BY <1>1
    <2> QED BY <2>1, Procs DEF Init, Types
  <1>4. Roles
    BY <1>2, Procs DEF Init, Roles
  <1>5. ForkLoop /\ OwnIndex /\ Waits
    <2>1. i[Parent] = 0 /\ kid[Parent] = Junk /\ pc[Parent] = "boot" /\ ended = "no"
      BY Procs DEF Init
    <2> QED BY <1>1, <1>2, <2>1 DEF ForkLoop, OwnIndex, Waits
  <1>6. Known
    <2>1. \A c \in Proc : pc[c] # "unborn" => c = 0
      BY DEF Init, Parent
    <2>2. i[Parent] = 0 /\ kid[Parent] = Junk
      BY Procs DEF Init
    <2> QED BY <1>2, <2>1, <2>2 DEF Known
  <1> QED BY <1>3, <1>4, <1>5, <1>6 DEF Good

---------------------------------------------------------------------------
(* The steps.  A worker that goes on to another place in child_main or in  *)
(* a handler, or only gets or loses a signal, leaves the pool as it is.    *)

LEMMA WorkerMoves ==
  ASSUME Good, NEW q \in Proc \ {Parent}, Alive(q),
         UNCHANGED <<i, kid, pids, ppid, ended>>,
         NEW s \in {"setup", "ctime", "accept", "stuck", "killing", "waiting"},
         pc' = [pc EXCEPT ![q] = s],
         hnd' \in [Proc -> BOOLEAN], hnd'[Parent] = hnd[Parent],
         h' \in [Proc -> 0 .. maxNchildren], h'[Parent] = h[Parent]
  PROVE  Good'
  <1> USE Procs DEF Good
  <1>1. Types'
    BY DEF Types
  <1>2. /\ pc'[Parent] = pc[Parent]
        /\ \A c \in Proc : Alive(c)' = Alive(c) /\ (pc'[c] = "unborn" <=> pc[c] = "unborn")
                                                /\ (pc'[c] = "reaped" <=> pc[c] = "reaped")
    BY DEF Alive, Roles
  <1>3. Workers' = Workers
    BY <1>2 DEF Workers
  <1>4. Children(Parent)' = Children(Parent)
    BY <1>2 DEF Children
  <1>5. Roles'
    BY <1>2, <1>3 DEF Roles
  <1>6. ForkLoop'
    BY <1>2 DEF ForkLoop
  <1>7. Known'
    BY <1>2, <1>3 DEF Known
  <1>8. OwnIndex'
    BY <1>3 DEF OwnIndex
  <1>9. Waits'
    BY <1>2, <1>3, <1>4 DEF Waits
  <1> QED BY <1>1, <1>5, <1>6, <1>7, <1>8, <1>9

LEMMA SameStep ==
  ASSUME Good, UNCHANGED <<pc, i, kid, pids, ppid, hnd, ended>>,
         h' \in [Proc -> 0 .. maxNchildren], pc[Parent] = "waiting" => h'[Parent] = h[Parent]
  PROVE  Good'
  <1> USE DEF Good
  <1>1. Workers' = Workers /\ Children(Parent)' = Children(Parent)
    BY DEF Workers, Children, Alive
  <1>2. Types' /\ ForkLoop' /\ OwnIndex'
    BY <1>1 DEF Types, ForkLoop, OwnIndex
  <1>3. Roles' /\ Known'
    BY <1>1 DEF Roles, Known, Alive
  <1>4. Waits'
    BY <1>1 DEF Waits, Alive
  <1> QED BY <1>2, <1>3, <1>4

(* The parent moves on, to wait or not.                                    *)
LEMMA ParentMoves ==
  ASSUME Good, Alive(Parent), UNCHANGED <<i, kid, pids, ppid, hnd, ended>>,
         NEW s \in {"fork", "pause", "killing", "waiting"},
         pc' = [pc EXCEPT ![Parent] = s],
         s \in {"fork", "pause"} => kid[Parent] = Junk,
         h' \in [Proc -> 0 .. maxNchildren],
         s = "waiting" => Cardinality(Children(Parent)') <= maxNchildren - h'[Parent]
  PROVE  Good'
  <1> USE Procs DEF Good
  <1>1. Types'
    BY DEF Types
  <1>2. /\ pc'[Parent] = s
        /\ \A c \in Proc : Alive(c)' = Alive(c) /\ (pc'[c] = "unborn" <=> pc[c] = "unborn")
    BY DEF Alive, Roles
  <1>3. Workers' = Workers
    BY <1>2 DEF Workers
  <1>5. Roles'
    BY <1>2, <1>3 DEF Roles
  <1>6. ForkLoop'
    BY <1>2 DEF ForkLoop
  <1>7. Known'
    BY <1>2, <1>3 DEF Known
  <1>8. OwnIndex'
    BY <1>3 DEF OwnIndex
  <1>9. Waits'
    BY <1>2, <1>3 DEF Waits
  <1> QED BY <1>1, <1>5, <1>6, <1>7, <1>8, <1>9

(* The parent has no more children than indices, so its second loop waits  *)
(* for all of them.                                                        *)
LEMMA ChildrenWithinPool ==
  ASSUME Good, Alive(Parent)
  PROVE  Cardinality(Children(Parent)) <= maxNchildren
  <1> USE Procs DEF Good
  <1>1. Children(Parent) \subseteq 1 .. maxNchildren
    <2> SUFFICES ASSUME NEW c \in Children(Parent) PROVE c \in 1 .. maxNchildren
      OBVIOUS
    <2>1. c \in Proc /\ c # Parent /\ pc[c] # "unborn"
      BY DEF Children, Roles
    <2>2. c <= (IF kid[Parent] = Junk THEN 0 ELSE 1) + i[Parent]
      BY <2>1 DEF Known
    <2>3. i[Parent] \in Nat /\ i[Parent] <= maxNchildren
          /\ (kid[Parent] # Junk => i[Parent] < maxNchildren)
      BY DEF ForkLoop, Types
    <2>4. maxNchildren \in Nat
      BY PreforkAssumption
    <2> QED BY <2>1, <2>2, <2>3, <2>4 DEF Parent
  <1>2. maxNchildren \in Nat \ {0}
    BY PreforkAssumption
  <1>3. IsFiniteSet(1 .. maxNchildren) /\ Cardinality(1 .. maxNchildren) = maxNchildren
    BY <1>2, FS_Interval
  <1> QED BY <1>1, <1>3, FS_Subset
---------------------------------------------------------------------------
(* The steps that change the pool.                                         *)

LEMMA ForkStep ==
  ASSUME Good, NEW q \in Proc, Fork(q)
  PROVE  Good'
  <1> USE Procs DEF Good
  <1>0. maxNchildren \in Nat \ {0}
    BY PreforkAssumption
  <1>1. q = Parent /\ kid[Parent] = Junk /\ i[Parent] \in Nat /\ i[Parent] < maxNchildren
    BY DEF Fork, Roles, ForkLoop, Types
  <1>2. PICK c \in Proc :
          /\ pc[c] = "unborn" /\ \A d \in Proc : d < c => pc[d] # "unborn"
          /\ pc' = [pc EXCEPT ![Parent] = "assign", ![c] = "setup"]
          /\ kid' = [kid EXCEPT ![Parent] = c]
          /\ i' = [i EXCEPT ![c] = i[Parent]]
          /\ pids' = [pids EXCEPT ![c] = pids[Parent]]
          /\ hnd' = [hnd EXCEPT ![c] = hnd[Parent]]
          /\ ppid' = [ppid EXCEPT ![c] = Parent]
    BY <1>1 DEF Fork
  <1>3. pc[Parent] = "fork" /\ c # Parent /\ UNCHANGED <<h, ended>>
    BY <1>1, <1>2 DEF Fork
  <1>4. Types'
    BY <1>1, <1>2, <1>3 DEF Types
  <1>5. Workers' = Workers \cup {c} /\ c \notin Workers
    BY <1>2, <1>3 DEF Workers, Alive, Roles
  <1>6. /\ pc'[Parent] = "assign" /\ kid'[Parent] = c /\ i'[Parent] = i[Parent] /\ i'[c] = i[Parent]
        /\ pids'[Parent] = pids[Parent]
        /\ \A d \in Proc \ {c} : i'[d] = i[d] /\ ppid'[d] = ppid[d]
    BY <1>2, <1>3 DEF Types, Roles
  <1>7. Roles'
    BY <1>2, <1>3, <1>5, <1>6 DEF Roles, Types, Alive
  <1>8. ForkLoop'
    BY <1>1, <1>6 DEF ForkLoop
  <1>9. \A d \in Workers : i[d] < i[Parent] /\ pids[Parent][i[d]] = d
    BY <1>1, <1>3 DEF Known, Alive, Workers
  <1>10. Known'
    <2>1. \A d \in Proc : pc[d] # "unborn" => d <= i[Parent]
      BY <1>1, <1>3 DEF Known, Alive
    <2>2. c <= 1 + i[Parent]
      <3>1. c \in Nat \ {0} /\ c - 1 \in Proc /\ c - 1 < c
        BY <1>3, PreforkAssumption DEF Proc, Parent
      <3> QED BY <3>1, <2>1, <1>1, <1>2
    <2>3. ASSUME NEW d \in Proc, pc'[d] # "unborn" PROVE d <= 1 + i[Parent]
      <3>1. CASE d = c
        BY <2>2, <3>1
      <3>2. CASE d # c
        <4>1. pc[d] # "unborn"
          BY <1>2, <1>3, <2>3, <3>2 DEF Roles
        <4> QED BY <1>1, <2>1, <4>1
      <3> QED BY <3>1, <3>2
    <2>4. \A d \in Workers : i'[d] = i[d]
      BY <1>5, <1>6 DEF Workers
    <2>5. \A d \in Workers' : \/ i'[d] < i'[Parent] /\ pids'[Parent][i'[d]] = d
                              \/ i'[d] = i'[Parent] /\ kid'[Parent] = d
      BY <1>5, <1>6, <1>9, <2>4
    <2>6. kid'[Parent] # Junk
      BY <1>6
    <2> QED BY <1>6, <2>3, <2>5, <2>6 DEF Known
  <1>11. OwnIndex'
    <2>1. \A d \in Workers : i[d] \in Nat /\ i[d] < i[Parent] /\ i'[d] = i[d]
      BY <1>5, <1>6, <1>9 DEF Types, Workers
    <2> QED BY <1>0, <1>1, <1>5, <1>6, <2>1 DEF OwnIndex
  <1>12. Waits'
    BY <1>3, <1>6 DEF Waits, Alive
  <1> QED BY <1>4, <1>7, <1>8, <1>10, <1>11, <1>12

LEMMA AssignStep ==
  ASSUME Good, NEW q \in Proc, Assign(q)
  PROVE  Good'
  <1> USE Procs DEF Good
  <1>0. maxNchildren \in Nat \ {0}
    BY PreforkAssumption
  <1>1. q = Parent /\ pc[Parent] = "assign" /\ kid[Parent] # Junk /\ i[Parent] \in Nat
        /\ i[Parent] < maxNchildren
    BY DEF Assign, Roles, ForkLoop, Types
  <1>2. i[Parent] \in Slots
    BY <1>0, <1>1 DEF Slots
  <1>3. /\ pids' = [pids EXCEPT ![Parent] = [@ EXCEPT ![i[Parent]] = kid[Parent]]]
        /\ kid' = [kid EXCEPT ![Parent] = Junk]
        /\ i' = [i EXCEPT ![Parent] = i[Parent] + 1]
        /\ pc' = [pc EXCEPT ![Parent] = "fork"]
        /\ UNCHANGED <<ppid, hnd, h, ended>>
    BY <1>1 DEF Assign
  <1>4. Types'
    BY <1>1, <1>2, <1>3 DEF Types
  <1>5. /\ pc'[Parent] = "fork" /\ kid'[Parent] = Junk /\ i'[Parent] = i[Parent] + 1
        /\ pids'[Parent] = [pids[Parent] EXCEPT ![i[Parent]] = kid[Parent]]
        /\ \A c \in Proc : Alive(c)' = Alive(c) /\ (pc'[c] = "unborn" <=> pc[c] = "unborn")
        /\ \A c \in Proc \ {Parent} : i'[c] = i[c]
    BY <1>1, <1>3 DEF Alive, Roles, Types
  <1>6. Workers' = Workers
    BY <1>5 DEF Workers
  <1>7. Roles'
    BY <1>3, <1>5, <1>6 DEF Roles
  <1>8. ForkLoop'
    BY <1>0, <1>1, <1>5 DEF ForkLoop
  <1>9. Known'
    <2>1. \A c \in Proc : pc'[c] # "unborn" => c <= 0 + i'[Parent]
      BY <1>1, <1>5 DEF Known, Alive
    <2>2. ASSUME NEW c \in Workers
          PROVE  i'[c] < i'[Parent] /\ pids'[Parent][i'[c]] = c
      <3>1. i'[c] = i[c] /\ i[c] \in Slots
        BY <1>0, <1>5 DEF Workers, OwnIndex, Types, Slots
      <3>2. \/ i[c] < i[Parent] /\ pids[Parent][i[c]] = c
            \/ i[c] = i[Parent] /\ kid[Parent] = c
        BY <1>1 DEF Known, Alive
      <3>3. pids[Parent] \in [Slots -> Proc \cup {Junk}] /\ i[c] \in Nat
        BY DEF Types, Workers
      <3> QED BY <1>1, <1>2, <1>5, <3>1, <3>2, <3>3
    <2> QED BY <1>5, <1>6, <2>1, <2>2 DEF Known
  <1>10. OwnIndex'
    BY <1>5, <1>6 DEF OwnIndex, Workers
  <1>11. Waits'
    BY <1>1, <1>3, <1>5 DEF Waits, Alive
  <1> QED BY <1>4, <1>7, <1>8, <1>9, <1>10, <1>11

(* One wait: a child that has ended is gone, or there was none.            *)
LEMMA WaitStep ==
  ASSUME Good, NEW q \in Proc, WaitChild(q)
  PROVE  Good'
  <1> USE Procs DEF Good
  <1>0. maxNchildren \in Nat \ {0} /\ h[q] \in 0 .. maxNchildren /\ h[q] < maxNchildren
    BY PreforkAssumption DEF WaitChild, Types
  <1>1. /\ pc[q] = "waiting" /\ h' = [h EXCEPT ![q] = h[q] + 1]
        /\ UNCHANGED <<i, kid, pids, hnd, ppid, ended>>
    BY DEF WaitChild
  <1>2. Types'
    <2>1. h[q] + 1 \in 0 .. maxNchildren
      BY <1>0
    <2> QED BY <1>1, <2>1 DEF Types
  <1>3. \/ \E c \in Children(q) : pc[c] = "zombie" /\ pc' = [pc EXCEPT ![c] = "reaped"]
        \/ Children(q) = {} /\ pc' = pc
    BY DEF WaitChild
  <1>4. /\ pc'[Parent] = pc[Parent]
        /\ \A c \in Proc : Alive(c)' = Alive(c) /\ (pc'[c] = "unborn" <=> pc[c] = "unborn")
        /\ \A c \in Proc : pc'[c] # "reaped" => pc[c] # "reaped"
    BY <1>3 DEF Children, Alive, Roles
  <1>5. Workers' = Workers
    BY <1>4 DEF Workers
  <1>6. Roles'
    <2>1. pc' \in [Proc -> {"unborn", "boot", "fork", "assign", "pause", "setup", "ctime", "accept",
                      "stuck", "killing", "waiting", "zombie", "reaped"}]
          /\ \A c \in Proc \ {Parent} : pc'[c] \notin {"boot", "fork", "assign", "pause"}
      BY <1>3 DEF Children, Roles
    <2> QED BY <1>1, <1>4, <1>5, <2>1 DEF Roles
  <1>7. ForkLoop' /\ Known' /\ OwnIndex'
    BY <1>1, <1>4, <1>5 DEF ForkLoop, Known, OwnIndex
  <1>8. Waits'
    <2>1. Children(Parent)' \subseteq Children(Parent)
      BY <1>1, <1>4 DEF Children
    <2>2. ended' = "exit" => ~Alive(Parent)' /\ Workers' = {}
      BY <1>1, <1>4, <1>5 DEF Waits
    <2>3. CASE q # Parent
      <3>1. h'[Parent] = h[Parent] /\ h[Parent] \in Nat
        BY <1>1, <2>3 DEF Types
      <3>2. pc'[Parent] = "waiting" => Cardinality(Children(Parent)') <= maxNchildren - h'[Parent]
        <4>1. pc[Parent] = "waiting" => Cardinality(Children(Parent)) <= maxNchildren - h[Parent]
          BY DEF Waits
        <4> QED BY <1>0, <1>4, <2>1, <3>1, <4>1, FewerChildren
      <3> QED BY <2>2, <3>2 DEF Waits
    <2>4. CASE q = Parent
      <3>1. h'[Parent] = h[Parent] + 1 /\ h[Parent] \in Nat /\ h[Parent] < maxNchildren
        BY <1>0, <1>1, <2>4 DEF Types
      <3>2. Cardinality(Children(Parent)) <= maxNchildren - h[Parent]
        BY <1>1, <2>4 DEF Waits
      <3>3. IsFiniteSet(Children(Parent))
        <4>1. Children(Parent) \in SUBSET Proc
          BY DEF Children
        <4> QED BY <4>1, FS_Subset
      <3>4. CASE Children(Parent) = {}
        <4>1. Children(Parent)' = {}
          BY <2>1, <3>4
        <4>2. Cardinality({}) = 0
          BY FS_EmptySet
        <4>3. Cardinality(Children(Parent)') <= maxNchildren - h'[Parent]
          BY <1>0, <3>1, <4>1, <4>2
        <4> QED BY <2>2, <4>3 DEF Waits
      <3>5. CASE Children(Parent) # {}
        <4>1. PICK c \in Children(Parent) : pc' = [pc EXCEPT ![c] = "reaped"]
          BY <1>3, <2>4, <3>5
        <4>2. Children(Parent)' = Children(Parent) \ {c}
          BY <1>1, <4>1 DEF Children, Roles
        <4>3. Cardinality(Children(Parent)') = Cardinality(Children(Parent)) - 1
          BY <3>3, <4>2, FS_RemoveElement
        <4>4. Cardinality(Children(Parent)) \in Nat
          BY <3>3, FS_CardinalityType
        <4>5. Cardinality(Children(Parent)') <= maxNchildren - h'[Parent]
          BY <1>0, <3>1, <3>2, <4>3, <4>4
        <4> QED BY <2>2, <4>5 DEF Waits
      <3> QED BY <3>4, <3>5
    <2> QED BY <2>3, <2>4
  <1> QED BY <1>2, <1>6, <1>7, <1>8

(* A process ends.  When it is the parent, by exit, it had no child left.  *)
LEMMA DieStep ==
  ASSUME Good, NEW q \in Proc, Alive(q), NEW how \in {"exit", "signal"}, Die(q, how),
         q = Parent /\ how = "exit" => Children(Parent) = {}
  PROVE  Good'
  <1> USE Procs DEF Good
  <1>1. /\ i' = [i EXCEPT ![q] = 0] /\ kid' = [kid EXCEPT ![q] = Junk]
        /\ pids' = [pids EXCEPT ![q] = [p \in Slots |-> Junk]]
        /\ hnd' = [hnd EXCEPT ![q] = FALSE] /\ h' = [h EXCEPT ![q] = 0]
        /\ ended' = IF q = Parent THEN how ELSE ended
    BY DEF Die
  <1>2. ppid' = [c \in Proc |-> IF ppid[c] = q \/ (c = q /\ ppid[q] = InitProc)
                                THEN InitProc ELSE ppid[c]]
    BY DEF Die
  <1>3. /\ pc' = [c \in Proc |-> IF ~(c = q \/ pc[c] = "zombie") THEN pc[c]
                                 ELSE IF ppid[c] = q \/ (c = q /\ ppid[q] = InitProc)
                                      THEN "reaped" ELSE "zombie"]
    BY DEF Die
  <1>4. Types'
    <2>1. maxNchildren \in Nat /\ 0 \in 0 .. maxNchildren
      BY PreforkAssumption
    <2>2. ended' \in {"no", "exit", "signal"}
      BY <1>1 DEF Types
    <2>3. ppid' \in [Proc -> Proc \cup {InitProc}]
      BY <1>2 DEF Types
    <2> QED BY <1>1, <2>1, <2>2, <2>3 DEF Types
  <1>5. /\ pc' \in [Proc -> {"unborn", "boot", "fork", "assign", "pause", "setup", "ctime", "accept",
                      "stuck", "killing", "waiting", "zombie", "reaped"}]
        /\ ~Alive(q)'
        /\ \A c \in Proc \ {q} : Alive(c)' = Alive(c) /\ (Alive(c) => pc'[c] = pc[c])
        /\ \A c \in Proc : pc'[c] \in {pc[c], "zombie", "reaped"}
        /\ \A c \in Proc : pc'[c] # "unborn" => pc[c] # "unborn"
        /\ \A c \in Proc : pc'[c] \notin {"unborn", "reaped"} => pc[c] \notin {"unborn", "reaped"}
    BY <1>3 DEF Alive, Roles
  <1>6. Workers' = Workers \ {q}
    BY <1>5 DEF Workers
  <1>7. Roles'
    <2>1. pc'[Parent] \in {"boot", "fork", "assign", "pause", "killing", "waiting", "zombie", "reaped"}
          /\ \A c \in Proc \ {Parent} : pc'[c] \notin {"boot", "fork", "assign", "pause"}
      BY <1>5 DEF Roles
    <2>2. ~hnd'[Parent] /\ ppid'[Parent] = InitProc
      BY <1>1, <1>2 DEF Roles, Types
    <2>3. Alive(Parent)' => \A c \in Workers' : ppid'[c] = Parent
      BY <1>2, <1>5, <1>6 DEF Roles, Workers
    <2> QED BY <1>5, <2>1, <2>2, <2>3 DEF Roles
  <1>8. CASE q = Parent
    <2>1. ~Alive(Parent)' /\ kid'[Parent] = Junk /\ i'[Parent] = 0
      BY <1>1, <1>5, <1>8 DEF Types
    <2>2. ForkLoop'
      <3>1. pc'[Parent] # "assign" /\ maxNchildren \in Nat
        BY <2>1, PreforkAssumption DEF Alive
      <3> QED BY <2>1, <3>1 DEF ForkLoop
    <2>3. Known' /\ (pc'[Parent] # "waiting")
      BY <2>1 DEF Known, Alive
    <2>4. OwnIndex'
      BY <1>1, <1>6, <1>8 DEF OwnIndex, Workers
    <2>5. Waits'
      <3>1. ended' = "exit" => Workers' = {}
        <4>1. how = "exit" => Workers = {}
          <5>1. Workers \subseteq Children(Parent)
            BY <1>8 DEF Workers, Children, Roles, Alive
          <5> QED BY <1>8, <5>1
        <4> QED BY <1>1, <1>6, <1>8, <4>1
      <3> QED BY <2>1, <2>3, <3>1 DEF Waits
    <2> QED BY <1>4, <1>7, <2>2, <2>3, <2>4, <2>5
  <1>9. CASE q # Parent
    <2>1. /\ i'[Parent] = i[Parent] /\ kid'[Parent] = kid[Parent] /\ pids'[Parent] = pids[Parent]
          /\ h'[Parent] = h[Parent] /\ ended' = ended
          /\ \A c \in Workers' : i'[c] = i[c]
      BY <1>1, <1>6, <1>9 DEF Types, Workers
    <2>2. Alive(Parent)' = Alive(Parent) /\ (pc'[Parent] \notin {"zombie", "reaped"} => pc'[Parent] = pc[Parent])
      BY <1>5, <1>9
    <2>3. ForkLoop'
      BY <2>1, <2>2 DEF ForkLoop
    <2>4. Known'
      BY <1>5, <1>6, <2>1, <2>2 DEF Known
    <2>5. OwnIndex'
      BY <1>6, <2>1 DEF OwnIndex
    <2>6. Waits'
      <3>1. Children(Parent)' \subseteq Children(Parent)
        BY <1>2, <1>5 DEF Children
      <3>2. pc'[Parent] = "waiting" => Cardinality(Children(Parent)') <= maxNchildren - h'[Parent]
        <4>1. pc[Parent] = "waiting" => Cardinality(Children(Parent)) <= maxNchildren - h[Parent]
          BY DEF Waits
        <4>2. maxNchildren \in Nat /\ h[Parent] \in Nat
          BY PreforkAssumption DEF Types
        <4> QED BY <2>1, <2>2, <3>1, <4>1, <4>2, FewerChildren
      <3>3. ended' = "exit" => ~Alive(Parent)' /\ Workers' = {}
        BY <1>6, <2>1, <2>2 DEF Waits
      <3> QED BY <3>2, <3>3 DEF Waits
    <2> QED BY <1>4, <1>7, <2>3, <2>4, <2>5, <2>6
  <1> QED BY <1>8, <1>9
---------------------------------------------------------------------------

LEMMA NextPInv == PInv /\ [Next]_vars => PInv'
  <1> SUFFICES ASSUME PInv, [Next]_vars, ~escaped' PROVE Good'
    BY DEF PInv
  <1> USE Procs
  <1>0. maxNchildren \in Nat \ {0} /\ 0 \in 0 .. maxNchildren /\ maxNchildren \in 0 .. maxNchildren
    BY PreforkAssumption
  <1>1. ~escaped
    <2>1. CASE UNCHANGED vars
      BY <2>1 DEF vars
    <2>2. CASE Boot \/ Tick \/ Interrupt
      BY <2>2 DEF Boot, Tick, Interrupt, hist
    <2>3. ASSUME NEW q \in Proc, Run(q) \/ Client(q) \/ HandleUsr1(q) \/ DieUsr1(q)
          PROVE  escaped => escaped'
      BY <2>3 DEF Run, Client, Fork, ForkFails, Assign, PoolDone, Setup, HandleInt, KillChild, StartWaiting,
         WaitChild, Exit, HandleTerm, DieTerm, Serve, LeaveCtime, LeaveLoop, Perish, HandleUsr1, DieUsr1, Die, hist
    <2> QED BY <2>1, <2>2, <2>3 DEF Next
  <1>2. Good /\ Types /\ Roles /\ ForkLoop
    BY <1>1 DEF PInv, Good
  <1>3. CASE UNCHANGED vars
    BY <1>2, <1>3, SameStep DEF vars, own, Types
  <1>4. CASE Boot
    <2>1. kid[Parent] = Junk /\ Alive(Parent)
      BY <1>2, <1>4 DEF Boot, ForkLoop, Alive
    <2>2. pc' = [pc EXCEPT ![Parent] = "fork"] /\ UNCHANGED <<own, ppid, ended>>
      BY <1>4 DEF Boot
    <2> QED BY <1>2, <2>1, <2>2, ParentMoves DEF own, Types
  <1>5. CASE Tick \/ Interrupt
    <2>1. UNCHANGED <<pc, own, ppid, ended>>
      BY <1>5 DEF Tick, Interrupt
    <2> QED BY <1>2, <2>1, SameStep DEF own, Types
  <1>6. ASSUME NEW q \in Proc, Fork(q) \/ Assign(q) \/ WaitChild(q)
        PROVE  Good'
    BY <1>2, <1>6, ForkStep, AssignStep, WaitStep
  <1>7. ASSUME NEW q \in Proc, ForkFails(q) \/ LeaveLoop(q)
        PROVE  FALSE
    BY <1>7 DEF ForkFails, LeaveLoop
  <1>8. ASSUME NEW q \in Proc, PoolDone(q)
        PROVE  Good'
    <2>1. q = Parent /\ Alive(Parent) /\ kid[Parent] = Junk
      BY <1>2, <1>8 DEF PoolDone, Roles, ForkLoop, Alive
    <2>2. pc' = [pc EXCEPT ![Parent] = "pause"] /\ UNCHANGED <<own, ppid, ended>>
      BY <1>8, <2>1 DEF PoolDone
    <2> QED BY <1>2, <2>1, <2>2, ParentMoves DEF own, Types
  <1>9. ASSUME NEW q \in Proc, Setup(q) \/ LeaveCtime(q) \/ Serve(q)
        PROVE  Good'
    <2>1. q \in Proc \ {Parent} /\ Alive(q)
      BY <1>2, <1>9 DEF Setup, LeaveCtime, Serve, Roles, Alive
    <2>2. UNCHANGED <<i, kid, pids, ppid, ended, h>>
      BY <1>9 DEF Setup, LeaveCtime, Serve, own
    <2>3. PICK s \in {"ctime", "accept"} : pc' = [pc EXCEPT ![q] = s]
      BY <1>9 DEF Setup, LeaveCtime, Serve
    <2>4. hnd' \in [Proc -> BOOLEAN] /\ hnd'[Parent] = hnd[Parent]
      BY <1>2, <1>9, <2>1 DEF Setup, LeaveCtime, Serve, own, Types
    <2> QED BY <1>2, <2>1, <2>2, <2>3, <2>4, WorkerMoves DEF Types
  <1>10. ASSUME NEW q \in Proc, HandleInt(q)
         PROVE  Good'
    <2>1. /\ Alive(q) /\ pc' = [pc EXCEPT ![q] = "killing"]
          /\ UNCHANGED <<i, kid, pids, hnd, ppid, ended>>
          /\ h' = [h EXCEPT ![q] = IF pc[q] = "boot" THEN maxNchildren ELSE 0]
      BY <1>10 DEF HandleInt
    <2>2. h' \in [Proc -> 0 .. maxNchildren] /\ (q # Parent => h'[Parent] = h[Parent])
      BY <1>0, <1>2, <2>1 DEF Types
    <2>3. CASE q = Parent
      BY <1>2, <2>1, <2>2, <2>3, ParentMoves
    <2>4. CASE q # Parent
      BY <1>2, <2>1, <2>2, <2>4, WorkerMoves DEF Types
    <2> QED BY <2>3, <2>4
  <1>11. ASSUME NEW q \in Proc, KillChild(q)
         PROVE  Good'
    <2>1. /\ h' = [h EXCEPT ![q] = h[q] + 1] /\ pc[q] = "killing" /\ h[q] < maxNchildren
          /\ UNCHANGED <<pc, i, kid, pids, hnd, ppid, ended>>
      BY <1>11 DEF KillChild
    <2>2. h[q] + 1 \in 0 .. maxNchildren
      BY <1>0, <1>2, <2>1 DEF Types
    <2>3. h' \in [Proc -> 0 .. maxNchildren] /\ (pc[Parent] = "waiting" => h'[Parent] = h[Parent])
      BY <1>2, <2>1, <2>2 DEF Types
    <2> QED BY <1>2, <2>1, <2>3, SameStep
  <1>12. ASSUME NEW q \in Proc, StartWaiting(q)
         PROVE  Good'
    <2>1. /\ Alive(q) /\ pc' = [pc EXCEPT ![q] = "waiting"] /\ h' = [h EXCEPT ![q] = 0]
          /\ UNCHANGED <<i, kid, pids, hnd, ppid, ended>>
      BY <1>12 DEF StartWaiting, Alive
    <2>2. h' \in [Proc -> 0 .. maxNchildren] /\ h'[q] = 0 /\ (q # Parent => h'[Parent] = h[Parent])
      BY <1>0, <1>2, <2>1 DEF Types
    <2>3. CASE q = Parent
      <3>1. Children(Parent)' = Children(Parent)
        BY <1>2, <2>1, <2>3 DEF Children, Roles, Alive
      <3>2. Cardinality(Children(Parent)) <= maxNchildren
        BY <1>2, <2>1, <2>3, ChildrenWithinPool
      <3>3. Cardinality(Children(Parent)') <= maxNchildren - h'[Parent]
        BY <1>0, <2>2, <2>3, <3>1, <3>2
      <3> QED BY <1>2, <2>1, <2>2, <2>3, <3>3, ParentMoves
    <2>4. CASE q # Parent
      BY <1>2, <2>1, <2>2, <2>4, WorkerMoves DEF Types
    <2> QED BY <2>3, <2>4
  <1>13. ASSUME NEW q \in Proc, Exit(q)
         PROVE  Good'
    <2>1. pc[q] = "waiting" /\ h[q] = maxNchildren /\ Die(q, "exit") /\ Alive(q)
      BY <1>13 DEF Exit, Alive
    <2>2. q = Parent => Children(Parent) = {}
      <3> HAVE q = Parent
      <3>1. IsFiniteSet(Children(Parent))
        <4>1. Children(Parent) \in SUBSET Proc
          BY DEF Children
        <4> QED BY <4>1, FS_Subset
      <3>2. Cardinality(Children(Parent)) <= maxNchildren - maxNchildren
        BY <1>2, <2>1 DEF Good, Waits
      <3>3. Cardinality(Children(Parent)) \in Nat
        BY <3>1, FS_CardinalityType
      <3>4. Cardinality(Children(Parent)) = 0
        BY <1>0, <3>2, <3>3
      <3> QED BY <3>1, <3>4, FS_EmptySet
    <2> QED BY <1>2, <2>1, <2>2, DieStep
  <1>14. ASSUME NEW q \in Proc, DieTerm(q) \/ DieUsr1(q) \/ Perish(q)
         PROVE  Good'
    <2>1. Alive(q) /\ Die(q, "signal")
      BY <1>14 DEF DieTerm, DieUsr1, Perish, Alive
    <2> QED BY <1>2, <2>1, DieStep
  <1>15. ASSUME NEW q \in Proc, HandleTerm(q) \/ HandleUsr1(q)
         PROVE  Good'
    <2>1. q \in Proc \ {Parent} /\ Alive(q) /\ pc[q] # "stuck" /\ hnd[q]
      BY <1>2, <1>15 DEF HandleTerm, HandleUsr1, Roles
    <2>2. CASE Die(q, "exit")
      BY <1>2, <2>1, <2>2, DieStep
    <2>3. CASE pc' = [pc EXCEPT ![q] = "stuck"] /\ UNCHANGED <<own, ppid, ended>>
      BY <1>2, <2>1, <2>3, WorkerMoves DEF own, Types
    <2>4. CASE pc' = pc /\ UNCHANGED <<own, ppid, ended>>
      BY <1>2, <2>4, SameStep DEF own, Types
    <2>5. HandleUsr1(q) => pc' = [pc EXCEPT ![q] = "stuck"] \/ pc' = pc
      BY <1>2 DEF HandleUsr1, Roles
    <2> QED BY <1>15, <2>2, <2>3, <2>4, <2>5 DEF HandleTerm, HandleUsr1
  <1> QED BY <1>3, <1>4, <1>5, <1>6, <1>7, <1>8, <1>9, <1>10, <1>11, <1>12, <1>13, <1>14, <1>15
          DEF Next, Run, Client

LEMMA PoolInductive == Spec => []PInv
  BY InitPInv, NextPInv, PTL DEF Spec

(* For every size of the pool and any number of processes: as long as no   *)
(* process falls out of child_main, the parent has at most maxNchildren    *)
(* workers, one for each index, and pids or the fork that is just being    *)
(* stored leads to each.                                                   *)
THEOREM PoolKept == Spec => []PoolIsKnown
  <1>1. PInv => PoolIsKnown
    <2> SUFFICES ASSUME Good PROVE
          /\ Cardinality(Workers) <= maxNchildren
          /\ \A q, r \in Workers : q # r => i[q] # i[r]
          /\ \A q \in Workers :
               pc[Parent] \in {"fork", "assign", "pause"} =>
                 \/ pids[Parent][i[q]] = q
                 \/ pc[Parent] = "assign" /\ kid[Parent] = q
      BY DEF PInv, PoolIsKnown
    <2>1. Types /\ OwnIndex /\ maxNchildren \in Nat \ {0}
      BY PreforkAssumption DEF Good
    <2>2. Cardinality(Workers) <= maxNchildren
      <3> DEFINE f == [q \in Workers |-> i[q]]
      <3>1. f \in [Workers -> Slots]
        BY <2>1 DEF OwnIndex, Types, Workers, Slots
      <3>2. f \in Injection(Workers, Slots)
        BY <2>1, <3>1 DEF OwnIndex, Injection, IsInjective
      <3>3. IsFiniteSet(Slots) /\ Cardinality(Slots) = maxNchildren
        <4>1. IsFiniteSet(0 .. maxNchildren - 1) /\ Cardinality(0 .. maxNchildren - 1) = maxNchildren
          BY <2>1, FS_Interval
        <4> QED BY <4>1 DEF Slots
      <3> HIDE DEF f
      <3> QED BY <3>2, <3>3, FS_Injection
    <2>3. ASSUME NEW q \in Workers, pc[Parent] \in {"fork", "assign", "pause"}
          PROVE  \/ pids[Parent][i[q]] = q
                 \/ pc[Parent] = "assign" /\ kid[Parent] = q
      <3>1. \/ pids[Parent][i[q]] = q
            \/ kid[Parent] = q
        BY <2>3 DEF Good, Known, Alive
      <3>2. q # Junk
        BY Procs DEF Workers
      <3> QED BY <2>3, <3>1, <3>2 DEF Good, ForkLoop
    <2> QED BY <2>1, <2>2, <2>3 DEF OwnIndex
  <1> QED BY <1>1, PoolInductive, PTL

(* For every size of the pool: a signalHandler that runs to its exit has   *)
(* waited for every worker, whatever the order in which the signals came   *)
(* and wherever in the fork loop it was called.                            *)
THEOREM NobodyLeft == Spec => []ShutdownLeavesNobody
  <1>1. PInv => ShutdownLeavesNobody
    BY DEF PInv, Good, Waits, ShutdownLeavesNobody
  <1> QED BY <1>1, PoolInductive, PTL

---------------------------------------------------------------------------
(***************************************************************************)
(* A worker.                                                               *)
(***************************************************************************)

Busy == place \notin {"accept"} \cup Ends

(* What a round in progress holds.                                         *)
Held ==
  /\ Busy => client \in Clients /\ fds["client"] >= 1
  /\ place \in {"check", "denying"} => fds["usr"] >= 1

Listed == lines = <<>> \/ \E n \in DOMAIN lines : client \in lines[n]

Admission ==
  /\ place = "check" /\ is_match => Listed
  /\ place = "sending" => Listed
  /\ place = "denying" => ~is_match
  /\ ServedOnlyIfListed

(* The entry that is being filled is that of the client of this round.     *)
Rows ==
  /\ place \in {"address", "port", "time", "number"} =>
       client_num >= 1 /\ log[client_num].who = client
  /\ place \in {"port", "time", "number"} => ip_addr[client_num] = client
  /\ place \in {"time", "number"} => port[client_num] = client
  /\ RowsAreClients

(* Clients are counted in the order of their times, none of which lies in  *)
(* the future, and entries that are not used yet have none.                *)
Times ==
  /\ \A k, j \in 1 .. client_num : k <= j => log[k].at <= log[j].at
  /\ \A k \in 1 .. client_num : log[k].at <= now
  /\ place = "count" =>
       cur_time <= now /\ \A k \in 1 .. client_num : log[k].at <= cur_time
  /\ place \in {"address", "port", "time"} =>
       client_num >= 1 /\ log[client_num].at = cur_time
  /\ \A k \in Index : k > client_num => time[k] = 0
  /\ TimesAreAccessTimes

---------------------------------------------------------------------------
(* Types and descriptors.                                                  *)

TypeInv == TypeOK /\ Held /\ OverrunOnlyWhenFull

LEMMA InitTypeInv ==
  ASSUME WorkerInit
  PROVE  TypeInv
<1>1. HistoryTypeOK
  BY InitTyped DEF WorkerInit
<1>2. fds \in [{"client", "usr", "dir"} -> Nat] /\ Open <= MAX_FD
  BY WorkerAssumption DEF WorkerInit, Open
<1>3. Held /\ OverrunOnlyWhenFull
  BY DEF WorkerInit, Held, Busy, Ends, OverrunOnlyWhenFull
<1> QED
  BY <1>1, <1>2, <1>3, WorkerAssumption DEF WorkerInit, TypeInv, TypeOK, Points

LEMMA MakesEntry ==
  ASSUME TypeInv, Record
  PROVE  HistoryTypeOK'
<1>1. HistoryTypeOK /\ client \in Clients /\ cur_time \in Nat
  <2>1. place \in {"count", "address", "port", "time", "number"}
    BY DEF Record, Goto
  <2>2. HistoryTypeOK /\ cur_time \in 0 .. MAX_TIME /\ MAX_TIME \in Nat
    BY WorkerAssumption DEF TypeInv, TypeOK
  <2>3. client \in Clients
    BY <2>1 DEF TypeInv, Held, Busy, Ends
  <2> QED
    BY <2>2, <2>3
<1>2. CASE Count(client, cur_time)
  BY <1>1, <1>2, CountTyped
<1>3. CASE RecordAddress(client) \/ RecordPort(client) \/ RecordTime(cur_time) \/ RecordNumber
  BY <1>1, <1>3, RecordTyped
<1> QED
  BY <1>2, <1>3 DEF Record

LEMMA ReportTyped ==
  ASSUME HistoryTypeOK, Report \/ ReportStuck
  PROVE  HistoryTypeOK'
<1>0. Move /\ torn' \in BOOLEAN
  BY DEF Report, ReportStuck, HistoryTypeOK
<1>1. PICK first : /\ start' = first
                   /\ first = IF client_num > HISTORY THEN start + 1 ELSE start
                   /\ SortTimes(first)
  BY <1>0 DEF Move
<1>2. first \in Nat \ {0}
  BY <1>1 DEF HistoryTypeOK
<1>3. time' \in [Index -> Nat]
  BY <1>1, <1>2, SortedReport
<1>4. torn' \in BOOLEAN /\ UNCHANGED <<client_num, ip_addr, port, cum_num, log>>
  BY <1>0 DEF Move
<1> QED
  BY <1>1, <1>2, <1>3, <1>4 DEF HistoryTypeOK

(* Most steps do not touch the history, and go to no place that is beyond  *)
(* the array.                                                              *)
LEMMA KeepsWithin ==
  ASSUME OverrunOnlyWhenFull, UNCHANGED log, place' # "undefined" \/ place' = place
  PROVE  OverrunOnlyWhenFull'
BY DEF OverrunOnlyWhenFull

LEMMA TypeStep ==
  ASSUME TypeInv, [WorkerNext]_workerVars
  PROVE  TypeInv'
<1>0. TypeOK /\ Held /\ HistoryTypeOK
  BY DEF TypeInv, TypeOK
<1> DEFINE Rest == /\ place \in Points
                   /\ client \in Clients \cup {NoClient} /\ cur_time \in 0 .. MAX_TIME
                   /\ now \in 1 .. MAX_TIME
                   /\ request \in {"none", "proper", "blank"}
                   /\ users \in Users \cup {NoFile}
                   /\ lines \in Users \cup {<<>>, NoFile} /\ is_match \in BOOLEAN
                   /\ fds \in [{"client", "usr", "dir"} -> Nat] /\ Open <= MAX_FD
                   /\ outcome \in {"none", "200", "403", "404", "unreadable"}
                   /\ lost \in Nat /\ Held
<1>1. HistoryTypeOK'
  <2>1. CASE UNCHANGED history
    BY <1>0, <2>1, HistoryUnchanged
  <2>2. CASE Record
    BY <2>2, MakesEntry
  <2>3. CASE Report \/ ReportStuck
    BY <1>0, <2>3, ReportTyped
  <2>4. UNCHANGED history \/ Record \/ Report \/ ReportStuck
    BY DEF WorkerNext, Main, Wait, Work, Peer, workerVars, Accept, AcceptFails, ReadNothing,
           Read, Overrun, OpenUsers, OpenUsersFails, Refuse, Admit, Crash, ServeDirectory,
           ServeFile, NotFound, Unreadable, Close, Stall, ReadOn, HangUp, ClockTick, EditUsers
  <2> QED
    BY <2>1, <2>2, <2>3, <2>4
<1>2. Rest'
  <2>0. Rest
    BY <1>0 DEF TypeOK
  <2>15. CASE Report \/ ClockTick \/ EditUsers \/ UNCHANGED workerVars
    <3>1. /\ UNCHANGED <<place, fds, client, cur_time, request, lines, is_match, outcome, lost>>
          /\ \/ now' = now
             \/ now < MAX_TIME /\ now' = now + 1
          /\ \/ users' = users
             \/ users' \in Users \cup {NoFile}
      BY <2>15 DEF Report, Move, ClockTick, EditUsers, workerVars, round
    <3>2. now' \in 1 .. MAX_TIME
      BY <2>0, <3>1, WorkerAssumption
    <3> QED
      BY <2>0, <3>1, <3>2 DEF Held, Busy, Open
  <2>5. CASE Record
    <3>1. /\ UNCHANGED <<now, users, fds, client, cur_time, request, lines, is_match, outcome, lost>>
          /\ place \in {"count", "address", "port", "time", "number"}
          /\ place' \in {"address", "port", "time", "number", "open"}
      BY <2>5 DEF Record, Goto, round
    <3>2. client \in Clients /\ fds["client"] >= 1
      BY <2>0, <3>1 DEF Held, Busy, Ends
    <3>3. place' \in Points /\ place' \notin {"check", "denying"}
      BY <3>1 DEF Points
    <3>4. Held'
      BY <3>1, <3>2, <3>3 DEF Held
    <3> QED
      BY <2>0, <3>1, <3>3, <3>4 DEF Open
  <2> USE DEF Points, Ends, Held, Busy, Open, Goto
  <2>1. CASE Accept
    BY <2>0, <2>1, WorkerAssumption DEF Accept
  <2>2. CASE AcceptFails
    BY <2>0, <2>2 DEF AcceptFails
  <2>3. CASE ReadNothing
    BY <2>0, <2>3, WorkerAssumption DEF ReadNothing, NewRound
  <2>4. CASE Read
    BY <2>0, <2>4 DEF Read
  <2>6. CASE OpenUsers
    BY <2>0, <2>6, WorkerAssumption DEF OpenUsers
  <2>7. CASE OpenUsersFails
    BY <2>0, <2>7 DEF OpenUsersFails
  <2>8. CASE Refuse
    BY <2>0, <2>8, WorkerAssumption DEF Refuse, NewRound
  <2>9. CASE Admit
    BY <2>0, <2>9, WorkerAssumption DEF Admit, round
  <2>10. CASE ServeDirectory
    BY <2>0, <2>10, WorkerAssumption DEF ServeDirectory
  <2>11. CASE ServeFile
    BY <2>0, <2>11 DEF ServeFile
  <2>12. CASE NotFound
    BY <2>0, <2>12 DEF NotFound
  <2>13. CASE Unreadable
    BY <2>0, <2>13 DEF Unreadable
  <2>14. CASE Close
    BY <2>0, <2>14, WorkerAssumption DEF Close, NewRound
  <2>16. CASE ReportStuck
    BY <2>0, <2>16 DEF ReportStuck, Move, round
  <2>19. CASE Overrun
    BY <2>0, <2>19 DEF Overrun, round
  <2>20. CASE Crash
    BY <2>0, <2>20 DEF Crash, round
  <2>21. CASE Peer
    BY <2>0, <2>21 DEF Peer, Stall, ReadOn, HangUp, round
  <2> QED
    BY <2>1, <2>2, <2>3, <2>4, <2>5, <2>6, <2>7, <2>8, <2>9, <2>10, <2>11,
       <2>12, <2>13, <2>14, <2>15, <2>16, <2>19, <2>20, <2>21
       DEF WorkerNext, Main, Wait, Work
<1>3. OverrunOnlyWhenFull'
  <2>1. CASE Overrun
    <3>1. client_num \in 0 .. MAX_CLIENT - 1 /\ MAX_CLIENT \in Nat /\ Len(log) = client_num
      BY <1>0, HistoryAssumption DEF HistoryTypeOK, Index
    <3>2. client_num + 1 >= MAX_CLIENT /\ log' = log
      BY <2>1 DEF Overrun, Full, history
    <3> QED
      BY <3>1, <3>2 DEF OverrunOnlyWhenFull
  <2>2. CASE Record
    BY <2>2 DEF Record, Goto, OverrunOnlyWhenFull
  <2>3. CASE Report \/ ReportStuck \/ ClockTick \/ EditUsers \/ UNCHANGED workerVars
    <3>1. UNCHANGED log /\ (place' = place \/ place' = "stuck")
      BY <2>3 DEF Report, ReportStuck, Move, ClockTick, EditUsers, workerVars, history
    <3> QED
      BY <3>1, KeepsWithin DEF TypeInv
  <2>4. CASE \/ Wait \/ OpenUsers \/ OpenUsersFails \/ Refuse \/ Admit \/ Crash
             \/ ServeDirectory \/ ServeFile \/ NotFound \/ Unreadable \/ Close \/ Peer
    <3>1. UNCHANGED log /\ place' # "undefined"
      BY <2>4 DEF Goto, history, Wait, Accept, AcceptFails, ReadNothing, Read, OpenUsers,
             OpenUsersFails, Refuse, Admit, Crash, ServeDirectory, ServeFile, NotFound,
             Unreadable, Close, Peer, Stall, ReadOn, HangUp
    <3> QED
      BY <3>1, KeepsWithin DEF TypeInv
  <2> QED
    BY <2>1, <2>2, <2>3, <2>4 DEF WorkerNext, Main, Work
<1> QED
  BY <1>1, <1>2, <1>3 DEF TypeInv, TypeOK

(* Every variable keeps its type, whatever the numbers of clients and      *)
(* descriptors.  The code has no check for the index of the history: it    *)
(* stays in the array up to the client whose entry would be MAX_CLIENT,    *)
(* and goes beyond it, where everything is undefined, with that client.    *)
THEOREM WorkerTypes == WorkerSpec => [](TypeOK /\ OverrunOnlyWhenFull)
<1>1. TypeInv => TypeOK /\ OverrunOnlyWhenFull
  BY DEF TypeInv
<1> QED
  BY <1>1, InitTypeInv, TypeStep, PTL DEF WorkerSpec

---------------------------------------------------------------------------
(* Descriptors.                                                            *)

(* The loop keeps the balance; the reports and the environment open and    *)
(* close nothing.                                                          *)
LEMMA BalanceStep ==
  ASSUME TypeInv, Balance, [WorkerNext]_workerVars
  PROVE  Balance'
<1>0. /\ fds \in [{"client", "usr", "dir"} -> Nat] /\ lost \in Nat
      /\ place \in Points
  BY DEF TypeInv, TypeOK
<1> USE DEF Balance, Open, Goto, Points, Ends
<1>1. CASE Accept
  BY <1>0, <1>1 DEF Accept
<1>2. CASE AcceptFails
  BY <1>0, <1>2 DEF AcceptFails
<1>3. CASE ReadNothing
  BY <1>0, <1>3 DEF ReadNothing
<1>4. CASE Read
  BY <1>0, <1>4 DEF Read
<1>5. CASE Record
  BY <1>0, <1>5 DEF Record
<1>6. CASE OpenUsers
  BY <1>0, <1>6 DEF OpenUsers
<1>7. CASE OpenUsersFails
  BY <1>0, <1>7 DEF OpenUsersFails
<1>8. CASE Refuse
  BY <1>0, <1>8 DEF Refuse
<1>9. CASE Admit
  BY <1>0, <1>9 DEF Admit
<1>10. CASE ServeDirectory
  BY <1>0, <1>10 DEF ServeDirectory
<1>11. CASE ServeFile
  BY <1>0, <1>11 DEF ServeFile
<1>12. CASE NotFound \/ Unreadable
  BY <1>0, <1>12 DEF NotFound, Unreadable
<1>13. CASE Close
  BY <1>0, <1>13 DEF Close
<1>14. CASE Report \/ ReportStuck \/ ClockTick \/ EditUsers \/ UNCHANGED workerVars
  BY <1>0, <1>14 DEF Report, ReportStuck, Move, ClockTick, EditUsers, workerVars, round
<1>15. CASE Overrun \/ Crash
  BY <1>15 DEF Overrun, Crash
<1>16. CASE Peer
  BY <1>0, <1>16 DEF Peer, Stall, ReadOn, HangUp, round
<1> QED
  BY <1>1, <1>2, <1>3, <1>4, <1>5, <1>6, <1>7, <1>8, <1>9, <1>10, <1>11,
     <1>12, <1>13, <1>14, <1>15, <1>16 DEF WorkerNext, Main, Wait, Work

(* Where the worker leaves for want of a descriptor, the balance says how  *)
(* many it has lost.                                                       *)
LEMMA LeavesStep ==
  ASSUME TypeInv, Balance, LeavesOnlyFor, [WorkerNext]_workerVars
  PROVE  LeavesOnlyFor'
<1>0. /\ fds \in [{"client", "usr", "dir"} -> Nat] /\ lost \in Nat
      /\ place \in Points /\ MAX_FD \in Nat /\ Open \in Nat
  BY WorkerAssumption DEF TypeInv, TypeOK, Open
<1> USE DEF LeavesOnlyFor, Goto
<1>1. CASE AcceptFails
  BY <1>0, <1>1 DEF AcceptFails, Balance, Ends
<1>2. CASE OpenUsersFails
  BY <1>0, <1>2 DEF OpenUsersFails, Balance, Ends
<1>3. CASE NotFound \/ Unreadable
  BY <1>3 DEF NotFound, Unreadable
<1>4. CASE Report \/ ClockTick \/ EditUsers \/ UNCHANGED workerVars
  BY <1>4 DEF Report, Move, ClockTick, EditUsers, workerVars, round
<1>6. CASE Overrun \/ Crash \/ Peer \/ ReportStuck
  BY <1>6 DEF Overrun, Crash, Peer, Stall, ReadOn, HangUp, ReportStuck
<1>5. CASE \/ Accept \/ ReadNothing \/ Read \/ Record \/ OpenUsers \/ Refuse
           \/ Admit \/ ServeDirectory \/ ServeFile \/ Close
  BY <1>5 DEF Accept, ReadNothing, Read, Record, OpenUsers, Refuse, Admit,
              ServeDirectory, ServeFile, Close
<1> QED
  BY <1>1, <1>2, <1>3, <1>4, <1>5, <1>6 DEF WorkerNext, Main, Wait, Work

LEMMA DescriptorsAlways ==
  WorkerSpec => [](TypeInv /\ Balance /\ LeavesOnlyFor)
<1>1. ASSUME WorkerInit
      PROVE  TypeInv /\ Balance /\ LeavesOnlyFor
  BY <1>1, InitTypeInv DEF WorkerInit, Balance, Open, LeavesOnlyFor, Ends
<1> QED
  BY <1>1, TypeStep, BalanceStep, LeavesStep, PTL DEF WorkerSpec

(* Every open descriptor belongs to the round or was lost in an earlier    *)
(* round, by an empty request, a refused client or a directory.            *)
THEOREM DescriptorsBalanced == WorkerSpec => []Balance
BY DescriptorsAlways, PTL

(* The worker stops only for a page or a file that cannot be opened, or    *)
(* after all but one of its descriptors were lost.                         *)
THEOREM LeavesForAReason == WorkerSpec => []LeavesOnlyFor
BY DescriptorsAlways, PTL

---------------------------------------------------------------------------
(* Admission.                                                              *)

LEMMA AdmissionStep ==
  ASSUME TypeInv, Admission, [WorkerNext]_workerVars
  PROVE  Admission'
<1> USE DEF Admission, ServedOnlyIfListed, Listed, Goto
<1>1. CASE OpenUsers
  <2>1. users \in Seq(SUBSET Clients)
    BY <1>1, WorkerAssumption DEF TypeInv, TypeOK, OpenUsers
  <2>2. is_match' => Listed'
    <3>1. CASE users = <<>>
      BY <1>1, <3>1 DEF OpenUsers
    <3>2. CASE users # <<>> /\ is_match'
      <4>1. Len(users) \in DOMAIN users
        BY <2>1, <3>2, EmptySeq, LenProperties
      <4>2. client \in users[Len(users)] /\ lines' = users /\ client' = client
        BY <1>1, <3>2 DEF OpenUsers
      <4> QED
        BY <4>1, <4>2
    <3> QED
      BY <3>1, <3>2
  <2> QED
    BY <1>1, <2>2 DEF OpenUsers
<1>2. CASE Admit
  BY <1>2 DEF Admit, round
<1>3. CASE Report \/ ReportStuck \/ ClockTick \/ EditUsers \/ UNCHANGED workerVars
  <2>1. UNCHANGED <<client, lines, is_match>> /\ (place' = place \/ place' = "stuck")
    BY <1>3 DEF Report, ReportStuck, Move, ClockTick, EditUsers, workerVars, round
  <2> QED
    BY <2>1
<1>5. CASE Peer
  <2>1. UNCHANGED <<client, lines, is_match>>
    BY <1>5 DEF Peer, Stall, ReadOn, HangUp, round
  <2>2. \/ place' = "hung up"
        \/ place' = "denying" /\ ~is_match
        \/ place = "serve" /\ place' = "sending"
        \/ place = "denying" /\ place' = "check" /\ ~is_match
        \/ place = "sending" /\ place' = "serve"
    BY <1>5 DEF Peer, Stall, ReadOn, HangUp
  <2> QED
    BY <2>1, <2>2
<1>4. CASE \/ Accept \/ AcceptFails \/ ReadNothing \/ Read \/ Record
           \/ Overrun \/ Crash \/ OpenUsersFails \/ Refuse \/ ServeDirectory \/ ServeFile
           \/ NotFound \/ Unreadable \/ Close
  BY <1>4 DEF Accept, AcceptFails, ReadNothing, Read, Record, Overrun, Crash, OpenUsersFails,
              Refuse, ServeDirectory, ServeFile, NotFound, Unreadable, Close
<1> QED
  BY <1>1, <1>2, <1>3, <1>4, <1>5 DEF WorkerNext, Main, Wait, Work

(* Nobody is served who is on no line of a file that has lines.            *)
THEOREM OnlyListedServed == WorkerSpec => []ServedOnlyIfListed
<1>1. WorkerInit => Admission
  BY DEF WorkerInit, Admission, ServedOnlyIfListed
<1>2. Admission => ServedOnlyIfListed
  BY DEF Admission
<1> QED
  BY <1>1, <1>2, InitTypeInv, TypeStep, AdmissionStep, PTL DEF WorkerSpec

---------------------------------------------------------------------------
(* The rows of the history.                                                *)

LEMMA Ranges ==
  ASSUME TypeInv
  PROVE  /\ HistoryTypeOK
         /\ MAX_CLIENT \in Nat
         /\ client_num \in Nat /\ client_num <= MAX_CLIENT - 1
         /\ client_num \in Index
         /\ cur_time \in Nat
         /\ place \in Points
         /\ Busy => client \in Clients
         /\ \A k \in 1 .. client_num : log[k].at \in Nat
<1>1. HistoryTypeOK /\ place \in Points /\ (Busy => client \in Clients)
  BY DEF TypeInv, TypeOK, Held
<1>2. MAX_CLIENT \in Nat /\ client_num \in 0 .. MAX_CLIENT - 1
  BY <1>1, HistoryAssumption DEF HistoryTypeOK, Index
<1>3. cur_time \in Nat
  <2>1. cur_time \in 0 .. MAX_TIME /\ MAX_TIME \in Nat
    BY WorkerAssumption DEF TypeInv, TypeOK
  <2> QED
    BY <2>1
<1>4. ASSUME NEW k \in 1 .. client_num
      PROVE  log[k].at \in Nat
  <2>1. log \in Seq([who : Clients, at : Nat]) /\ k \in 1 .. Len(log)
    BY <1>1 DEF HistoryTypeOK
  <2>2. log[k] \in [who : Clients, at : Nat]
    BY <2>1, ElementOfSeq
  <2> QED
    BY <2>2
<1> QED
  BY <1>1, <1>2, <1>3, <1>4 DEF Index

LEMMA RowsStep ==
  ASSUME TypeInv, Rows, [WorkerNext]_workerVars
  PROVE  Rows'
<1>0. /\ HistoryTypeOK /\ client_num \in Nat /\ client_num \in Index
      /\ (place \in {"count", "address", "port", "time", "number"} =>
             client \in Clients /\ cur_time \in Nat)
  BY Ranges DEF Busy, Ends
<1> USE DEF Rows, RowsAreClients, Recorded, Shows, Goto
<1>1. CASE place = "count" /\ place' = "address" /\ Count(client, cur_time) /\ UNCHANGED round
  <2>1. /\ log'[client_num'] = [who |-> client, at |-> cur_time]
        /\ \A k \in 1 .. client_num : log'[k] = log[k]
    BY <1>0, <1>1, CountTyped
  <2>2. /\ client_num' = client_num + 1 /\ client' = client
        /\ UNCHANGED <<ip_addr, port, cum_num>>
    BY <1>1 DEF Count, round
  <2> QED
    BY <1>0, <1>1, <2>1, <2>2
<1>2. CASE place = "address" /\ place' = "port" /\ RecordAddress(client) /\ UNCHANGED round
  BY <1>0, <1>2 DEF RecordAddress, round, HistoryTypeOK
<1>3. CASE place = "port" /\ place' = "time" /\ RecordPort(client) /\ UNCHANGED round
  BY <1>0, <1>3 DEF RecordPort, round, HistoryTypeOK
<1>4. CASE place = "time" /\ place' = "number" /\ RecordTime(cur_time) /\ UNCHANGED round
  BY <1>0, <1>4 DEF RecordTime, round, HistoryTypeOK
<1>5. CASE place = "number" /\ place' = "open" /\ RecordNumber /\ UNCHANGED round
  BY <1>0, <1>5 DEF RecordNumber, round, HistoryTypeOK
<1>6. CASE Record
  BY <1>1, <1>2, <1>3, <1>4, <1>5, <1>6 DEF Record
<1>7. CASE Report \/ ReportStuck \/ ClockTick \/ EditUsers \/ UNCHANGED workerVars
  BY <1>0, <1>7 DEF Report, ReportStuck, Move, ClockTick, EditUsers, workerVars, history, round
<1>8. CASE Accept \/ AcceptFails \/ ReadNothing \/ Read \/ Overrun \/ Crash
  BY <1>0, <1>8 DEF Accept, AcceptFails, ReadNothing, Read, Overrun, Crash, history
<1>10. CASE Peer
  BY <1>0, <1>10 DEF Peer, Stall, ReadOn, HangUp, history
<1>9. CASE \/ OpenUsers \/ OpenUsersFails \/ Refuse \/ Admit \/ ServeDirectory
           \/ ServeFile \/ NotFound \/ Unreadable \/ Close
  BY <1>0, <1>9 DEF OpenUsers, OpenUsersFails, Refuse, Admit, ServeDirectory,
                    ServeFile, NotFound, Unreadable, Close, history
<1> QED
  BY <1>6, <1>7, <1>8, <1>9, <1>10 DEF WorkerNext, Main, Wait, Work

(* Only the last row of the history may be incomplete; the others show     *)
(* their own clients, whenever a report comes.                             *)
THEOREM RowsCorrect == WorkerSpec => []RowsAreClients
<1>1. WorkerInit => Rows
  BY DEF WorkerInit, HistoryInit, Rows, RowsAreClients, Recorded
<1>2. Rows => RowsAreClients
  BY DEF Rows
<1> QED
  BY <1>1, <1>2, InitTypeInv, TypeStep, RowsStep, PTL DEF WorkerSpec

---------------------------------------------------------------------------
(* The times of the history.                                               *)

LEMMA ReportTimes ==
  ASSUME TypeInv, Times, Report \/ ReportStuck
  PROVE  Times'
<1>0. HistoryTypeOK /\ client_num \in Nat
  BY Ranges
<1>1. PICK first : /\ first = IF client_num > HISTORY THEN start + 1 ELSE start
                   /\ SortTimes(first)
  BY DEF Report, ReportStuck, Move
<1>2. first \in Nat \ {0}
  BY <1>0, <1>1 DEF HistoryTypeOK
<1>3. /\ \A k \in Index : k > client_num => time'[k] = time[k]
      /\ \A k \in 1 .. client_num : \E j \in 1 .. client_num : time'[k] = time[j]
      /\ (\A k, j \in 1 .. client_num : k <= j => time[k] <= time[j]) =>
              \A k \in 1 .. client_num : time'[k] = time[k]
  BY <1>0, <1>1, <1>2, SortedReport
<1>4. /\ torn' = (torn \/ place \in {"address", "port", "time"})
      /\ UNCHANGED <<client_num, log, now, cur_time>>
      /\ \/ place' = place
         \/ place' = "stuck" /\ place \in {"serve", "close"}
  <2>1. CASE Report
    <3>1. /\ torn' = (torn \/ place \in {"address", "port", "time"})
          /\ place' = place
      BY <2>1 DEF Report
    <3>2. UNCHANGED <<client_num, log, now, cur_time>>
      BY <2>1 DEF Report, Move, round
    <3> QED
      BY <3>1, <3>2
  <2>2. CASE ReportStuck
    <3>1. torn \in BOOLEAN
      BY <1>0 DEF HistoryTypeOK
    <3> QED
      BY <2>2, <3>1 DEF ReportStuck, Move, round
  <2> QED
    BY <2>1, <2>2
<1>5. ASSUME ~torn'
      PROVE  \A k \in 1 .. client_num : time'[k] = log[k].at
  <2>1. \A j \in 1 .. client_num : time[j] = log[j].at
    BY <1>4, <1>5 DEF Times, TimesAreAccessTimes, TimesUpTo
  <2>2. \A k, j \in 1 .. client_num : k <= j => time[k] <= time[j]
    BY <2>1 DEF Times
  <2> QED
    BY <1>3, <2>1, <2>2
<1>6. \A k \in 1 .. client_num : time'[k] \in {0} \cup {log[j].at : j \in 1 .. client_num}
  BY <1>3 DEF Times, TimesAreAccessTimes, TimesUpTo
<1>7. TimesAreAccessTimes'
  <2>1. 1 .. (IF place' \in {"address", "port", "time"}
              THEN client_num' - 1 ELSE client_num') \subseteq 1 .. client_num
    BY <1>0, <1>4
  <2> QED
    BY <1>4, <1>5, <1>6, <2>1 DEF TimesAreAccessTimes, TimesUpTo
<1>8. \A k \in Index : k > client_num => time'[k] = 0
  BY <1>3 DEF Times
<1> QED
  BY <1>4, <1>7, <1>8 DEF Times

(* A new client gets the last and latest entry, without a time yet.        *)
LEMMA CountTimes ==
  ASSUME TypeInv, Times, place = "count", place' = "address", Count(client, cur_time),
         UNCHANGED <<now, round>>
  PROVE  Times'
<1>0. /\ HistoryTypeOK /\ client_num \in Nat /\ client \in Clients /\ cur_time \in Nat
      /\ MAX_CLIENT \in Nat
  BY Ranges DEF Busy, Ends
<1>1. /\ log'[client_num'] = [who |-> client, at |-> cur_time]
      /\ \A k \in 1 .. client_num : log'[k] = log[k]
  BY <1>0, CountTyped
<1>2. /\ client_num' = client_num + 1 /\ client_num + 1 < MAX_CLIENT
      /\ UNCHANGED <<time, torn, now, cur_time>>
  BY <1>0 DEF Count, Full, round
<1>3. /\ log'[client_num + 1].at = cur_time
      /\ \A k \in 1 .. client_num : log'[k].at = log[k].at
  BY <1>1, <1>2
<1>4. /\ cur_time <= now /\ \A k \in 1 .. client_num : log[k].at <= cur_time
      /\ \A k, j \in 1 .. client_num : k <= j => log[k].at <= log[j].at
      /\ \A k \in 1 .. client_num : log[k].at <= now
  BY DEF Times
<1>5. \A k, j \in 1 .. client_num' : k <= j => log'[k].at <= log'[j].at
  <2>1. ASSUME NEW k \in 1 .. client_num', NEW j \in 1 .. client_num', k <= j
        PROVE  log'[k].at <= log'[j].at
    <3>1. CASE j \in 1 .. client_num
      BY <1>0, <1>2, <1>3, <1>4, <2>1, <3>1
    <3>2. CASE j = client_num + 1 /\ k \in 1 .. client_num
      BY <1>3, <1>4, <3>2
    <3>3. CASE j = client_num + 1 /\ k = client_num + 1
      BY <1>0, <1>3, <3>3
    <3> QED
      BY <1>0, <1>2, <3>1, <3>2, <3>3
  <2> QED
    BY <2>1
<1>6. \A k \in 1 .. client_num' : k \in 1 .. client_num \/ k = client_num + 1
  BY <1>0, <1>2
<1>7. \A k \in 1 .. client_num' : log'[k].at <= now'
  BY <1>2, <1>3, <1>4, <1>6
<1>8. /\ \A k \in Index : k > client_num => time[k] = 0
      /\ \A k \in 1 .. client_num : ~torn => time[k] = log[k].at
      /\ \A k \in 1 .. client_num :
           time[k] \in {0} \cup {log[j].at : j \in 1 .. client_num}
  BY DEF Times, TimesAreAccessTimes, TimesUpTo
<1>9. client_num + 1 \in Index
  BY <1>0, <1>2 DEF Index
<1>10. TimesAreAccessTimes'
  <2>1. \A k \in 1 .. client_num' - 1 : ~torn' => time'[k] = log'[k].at
    BY <1>0, <1>2, <1>3, <1>8
  <2>2. ASSUME NEW k \in 1 .. client_num'
        PROVE  time'[k] \in {0} \cup {log'[j].at : j \in 1 .. client_num'}
    <3>1. CASE k = client_num + 1
      BY <1>0, <1>2, <1>8, <1>9, <3>1
    <3>2. CASE k \in 1 .. client_num
      <4>1. {log[j].at : j \in 1 .. client_num} \subseteq {log'[j].at : j \in 1 .. client_num'}
        BY <1>0, <1>2, <1>3
      <4> QED
        BY <1>2, <1>8, <3>2, <4>1
    <3> QED
      BY <1>6, <3>1, <3>2
  <2> QED
    BY <2>1, <2>2 DEF TimesAreAccessTimes, TimesUpTo
<1>11. \A k \in Index : k > client_num' => time'[k] = 0
  BY <1>0, <1>2, <1>8 DEF Index
<1>12. client_num' >= 1 /\ log'[client_num'].at = cur_time'
  BY <1>0, <1>2, <1>3
<1> QED
  BY <1>5, <1>7, <1>10, <1>11, <1>12 DEF Times

(* The time that is stored is the time that was read for the client.       *)
LEMMA StoreTimes ==
  ASSUME TypeInv, Times, place = "time", place' = "number", RecordTime(cur_time),
         UNCHANGED <<now, round>>
  PROVE  Times'
<1>0. /\ HistoryTypeOK /\ client_num \in Nat /\ client_num \in Index
      /\ MAX_CLIENT \in Nat
  BY Ranges
<1>1. /\ UNCHANGED <<client_num, log, torn, now, cur_time>>
      /\ time' = [time EXCEPT ![client_num] = cur_time]
  BY DEF RecordTime, round
<1>2. /\ client_num >= 1 /\ log[client_num].at = cur_time
      /\ \A k \in 1 .. client_num - 1 : ~torn => time[k] = log[k].at
      /\ \A k \in 1 .. client_num :
           time[k] \in {0} \cup {log[j].at : j \in 1 .. client_num}
      /\ \A k \in Index : k > client_num => time[k] = 0
  BY DEF Times, TimesAreAccessTimes, TimesUpTo
<1>3. \A k \in 1 .. client_num : k \in Index
  BY <1>0 DEF Index
<1>4. /\ time'[client_num] = cur_time
      /\ \A k \in Index : k # client_num => time'[k] = time[k]
  BY <1>0, <1>1 DEF HistoryTypeOK
<1>5. \A k \in 1 .. client_num : ~torn => time'[k] = log[k].at
  BY <1>0, <1>2, <1>3, <1>4
<1>6. \A k \in 1 .. client_num :
        time'[k] \in {0} \cup {log[j].at : j \in 1 .. client_num}
  BY <1>0, <1>2, <1>3, <1>4
<1>7. TimesAreAccessTimes'
  BY <1>1, <1>5, <1>6 DEF TimesAreAccessTimes, TimesUpTo
<1>8. \A k \in Index : k > client_num => time'[k] = 0
  BY <1>0, <1>2, <1>4 DEF Index
<1> QED
  BY <1>1, <1>7, <1>8 DEF Times

(* Steps that leave the history alone.                                     *)
LEMMA KeepTimes ==
  ASSUME TypeInv, Times, UNCHANGED <<client_num, time, log, torn>>,
         now' \in Nat, now' >= now,
         place' \in {"address", "port", "time"} =>
           place \in {"address", "port", "time"} /\ cur_time' = cur_time,
         place \in {"address", "port", "time"} => place' \in {"address", "port", "time"},
         place' = "count" =>
           \/ place = "read" /\ cur_time' = now /\ now' = now
           \/ place = "count" /\ cur_time' = cur_time
  PROVE  Times'
<1>0. /\ \A k \in 1 .. client_num : log[k].at \in Nat
      /\ client_num \in Nat
      /\ now \in Nat /\ cur_time \in Nat
  <2>1. now \in 1 .. MAX_TIME /\ MAX_TIME \in Nat
    BY WorkerAssumption DEF TypeInv, TypeOK
  <2> QED
    BY <2>1, Ranges
<1>1. \A k \in 1 .. client_num : log[k].at <= now'
  BY <1>0 DEF Times
<1>2. place' = "count" =>
        cur_time' <= now' /\ \A k \in 1 .. client_num : log[k].at <= cur_time'
  BY <1>0 DEF Times
<1>3. TimesAreAccessTimes'
  BY DEF Times, TimesAreAccessTimes, TimesUpTo
<1> QED
  BY <1>1, <1>2, <1>3 DEF Times

LEMMA TimesStep ==
  ASSUME TypeInv, Times, [WorkerNext]_workerVars
  PROVE  Times'
<1>0. now \in Nat
  <2>1. now \in 1 .. MAX_TIME /\ MAX_TIME \in Nat
    BY WorkerAssumption DEF TypeInv, TypeOK
  <2> QED
    BY <2>1
<1> USE DEF Goto
<1>1. CASE place = "count" /\ place' = "address" /\ Count(client, cur_time) /\ UNCHANGED <<now, round>>
  BY <1>1, CountTimes
<1>2. CASE place = "address" /\ place' = "port" /\ RecordAddress(client) /\ UNCHANGED <<now, round>>
  BY <1>0, <1>2, KeepTimes DEF RecordAddress, round
<1>3. CASE place = "port" /\ place' = "time" /\ RecordPort(client) /\ UNCHANGED <<now, round>>
  BY <1>0, <1>3, KeepTimes DEF RecordPort, round
<1>4. CASE place = "time" /\ place' = "number" /\ RecordTime(cur_time) /\ UNCHANGED <<now, round>>
  BY <1>4, StoreTimes
<1>5. CASE place = "number" /\ place' = "open" /\ RecordNumber /\ UNCHANGED <<now, round>>
  BY <1>0, <1>5, KeepTimes DEF RecordNumber, round
<1>6. CASE Record
  BY <1>1, <1>2, <1>3, <1>4, <1>5, <1>6 DEF Record
<1>7. CASE Report \/ ReportStuck
  BY <1>7, ReportTimes
<1>8. CASE ClockTick \/ EditUsers \/ UNCHANGED workerVars
  BY <1>0, <1>8, KeepTimes DEF ClockTick, EditUsers, workerVars, history, round
<1>9. CASE Read
  BY <1>0, <1>9, KeepTimes DEF Read, history
<1>10. CASE \/ Accept \/ AcceptFails \/ ReadNothing \/ Overrun \/ OpenUsers
            \/ OpenUsersFails \/ Refuse \/ Admit \/ Crash \/ ServeDirectory
            \/ ServeFile \/ NotFound \/ Unreadable \/ Close \/ Peer
  <2>1. /\ UNCHANGED <<client_num, time, log, torn, now>>
        /\ place \notin {"address", "port", "time"}
        /\ place' \notin {"count", "address", "port", "time"}
    BY <1>10 DEF Accept, AcceptFails, ReadNothing, Overrun, OpenUsers, OpenUsersFails,
                Refuse, Admit, Crash, ServeDirectory, ServeFile, NotFound, Unreadable,
                Close, Peer, Stall, ReadOn, HangUp, history
  <2> QED
    BY <1>0, <2>1, KeepTimes
<1> QED
  BY <1>6, <1>7, <1>8, <1>9, <1>10 DEF WorkerNext, Main, Wait, Work

(* A record shows the time its client was accepted, unless a report came   *)
(* while one was being made, however often the rest has been sorted.       *)
THEOREM TimesCorrect == WorkerSpec => []TimesAreAccessTimes
<1>1. WorkerInit => Times
  BY DEF WorkerInit, HistoryInit, Times, TimesAreAccessTimes, TimesUpTo
<1>2. Times => TimesAreAccessTimes
  BY DEF Times
<1> QED
  BY <1>1, <1>2, InitTypeInv, TypeStep, TimesStep, PTL DEF WorkerSpec
==============================================================================
