---------------------------- MODULE KernelProofs ----------------------------
(***************************************************************************)
(* Proofs about what the kernel modules do: first to the table of system   *)
(* calls, then, in forks and in the walk of the tracer, to its tasks.      *)
(*                                                                         *)
(* Modules that keep out of each other's way (Separate) give the kernel    *)
(* back as they found it, whatever is loaded and unloaded meanwhile.  The  *)
(* invariant says which entries a module holds at every point of its init  *)
(* and exit, that the table consists of those and of original entries, and *)
(* that every pointer a module may still write back is original.           *)
(*                                                                         *)
(* The trace of 2-3 changes nothing for the table: each of its steps is    *)
(* one of SyscallHooks or none.  And its numbers are too large by at most  *)
(* one call, because a process is in one call at a time: once the call     *)
(* that was in the kernel when the trace began has been counted, all later *)
(* calls of the traced process have begun after it.                        *)
(*                                                                         *)
(* The reference counts and the lists of tasks, and what the tracer finds  *)
(* in them, are those of any number of tasks, with forks, exits and waits  *)
(* in any order.  A step changes what one task has taken, so a count       *)
(* changes by one with the set it counts, if the task that makes another   *)
(* is the only one to do so and nobody else points to what the new task is *)
(* given.                                                                  *)
(***************************************************************************)
EXTENDS IoTrace, TaskLists, FiniteSetTheorems, SequenceTheorems, TLAPS

Pos(m) == 1 .. Len(Hooks[m])

(* The positions of Hooks[m] whose entries m has replaced and not yet      *)
(* given back.                                                             *)
Held(m) == {i \in Pos(m) : \/ state[m] = "in"
                           \/ state[m] \in {"save", "hook"} /\ i < k[m]
                           \/ state[m] = "restore" /\ i >= k[m]}

HeldAreReplaced == \A m \in Modules : \A i \in Held(m) : table[Hooks[m][i]] = m

ReplacedAreHeld ==
  \A s \in Slots : table[s] # Original =>
    \E i \in Held(table[s]) : Hooks[table[s]][i] = s

SavedAreOriginal ==
  \A m \in Modules : \A i \in Pos(m) :
    i \in Held(m) \/ (state[m] = "hook" /\ i = k[m]) =>
      saved[m][Hooks[m][i]] = Original

(* The base is the module with make_rw; the others live within its life.   *)
Permission ==
  /\ \A b \in Flips : rw <=> state[b] \notin {"out", "rw"}
  /\ \A b \in Flips : \A m \in Modules \ {b} :
       /\ state[m] # "out" => state[b] = "in"
       /\ state[m] \notin {"rw", "ro"}
  /\ \A m \in Modules : state[m] # "dead"

FirstFirst == \A m \in Modules : state[m] = "rw" => k[m] = 1

Ownership ==
  HeldAreReplaced /\ ReplacedAreHeld /\ SavedAreOriginal /\ FirstFirst

IInv == TypeOK /\ Permission /\ Ownership

---------------------------------------------------------------------------

(* Every module hooks at least one entry, and only entries of the table.   *)
LEMMA HookedSlots ==
  ASSUME NEW m \in Modules
  PROVE  /\ Len(Hooks[m]) \in Nat
         /\ Len(Hooks[m]) >= 1
         /\ \A i \in Pos(m) : Hooks[m][i] \in Slots
<1>1. Hooks[m] \in Seq(Slots) /\ Hooks[m] # <<>>
  BY HooksAssumption
<1>2. Len(Hooks[m]) \in Nat
  BY <1>1, LenProperties
<1>3. Len(Hooks[m]) # 0
  BY <1>1, EmptySeq
<1>4. \A i \in Pos(m) : Hooks[m][i] \in Slots
  BY <1>1, ElementOfSeq DEF Pos
<1> QED
  BY <1>2, <1>3, <1>4

(* A hooked entry belongs to one place of one module.                      *)
LEMMA OneOwner ==
  Separate => \A m, n \in Modules : \A i \in Pos(m), j \in Pos(n) :
                Hooks[m][i] = Hooks[n][j] => m = n /\ i = j
<1>1. SUFFICES ASSUME Separate, NEW m \in Modules, NEW n \in Modules,
                      NEW i \in Pos(m), NEW j \in Pos(n),
                      Hooks[m][i] = Hooks[n][j]
               PROVE  m = n /\ i = j
  OBVIOUS
<1>2. m = n
  BY <1>1 DEF Separate, Pos
<1> QED
  BY <1>1, <1>2, HooksAssumption DEF Pos

(* The initial states satisfy the invariant.                               *)
LEMMA InitIInv ==
  ASSUME Init
  PROVE  IInv
<1>1. TypeOK
  <2>1. ASSUME NEW m \in Modules
        PROVE  1 \in 1 .. Len(Hooks[m])
    <3>1. Len(Hooks[m]) \in Nat /\ Len(Hooks[m]) >= 1
      BY HookedSlots
    <3> QED
      BY <3>1
  <2>2. frames \in [Callers -> Seq(Functions)]
    BY EmptySeq DEF Init
  <2>3. /\ table \in [Slots -> Functions]
        /\ saved \in [Modules -> [Slots -> Functions]]
    BY DEF Init, Functions
  <2> QED
    BY <2>1, <2>2, <2>3 DEF Init, TypeOK
<1>2. Permission
  BY HooksAssumption DEF Init, Permission
<1>3. Ownership
  BY DEF Init, Ownership, HeldAreReplaced, ReplacedAreHeld, SavedAreOriginal,
         FirstFirst, Held
<1> QED
  BY <1>1, <1>2, <1>3 DEF IInv

(* Types.                                                                  *)
LEMMA TypeStep ==
  ASSUME TypeOK, [Next]_vars
  PROVE  TypeOK'
<1> USE DEF TypeOK, Functions
<1>1. ASSUME NEW m \in Modules, Insmod(m)
      PROVE  TypeOK'
  BY <1>1, HookedSlots DEF calls, Insmod
<1>2. ASSUME NEW m \in Modules, MakeRw(m)
      PROVE  TypeOK'
  BY <1>2 DEF calls, MakeRw
<1>3. ASSUME NEW m \in Modules, Save(m)
      PROVE  TypeOK'
  BY <1>3, HookedSlots DEF calls, Save, Slot, Pos
<1>4. ASSUME NEW m \in Modules, HookSlot(m)
      PROVE  TypeOK'
  <2>1. CASE rw
    <3>1. Len(Hooks[m]) \in Nat /\ Slot(m) \in Slots
      BY HookedSlots DEF Slot, Pos
    <3>2. table' \in [Slots -> Functions]
      BY <1>4, <2>1, <3>1 DEF HookSlot
    <3>3. /\ k' \in [Modules -> Nat]
          /\ \A n \in Modules : k'[n] \in 1 .. Len(Hooks[n])
      <4>1. CASE k[m] < Len(Hooks[m])
        <5>1. k[m] + 1 \in Nat /\ k[m] + 1 \in 1 .. Len(Hooks[m])
          BY <3>1, <4>1
        <5>2. k' = [k EXCEPT ![m] = k[m] + 1]
          BY <1>4, <2>1, <4>1 DEF HookSlot
        <5> QED
          BY <5>1, <5>2
      <4>2. CASE ~(k[m] < Len(Hooks[m]))
        BY <1>4, <2>1, <4>2 DEF HookSlot
      <4> QED
        BY <4>1, <4>2
    <3>4. state' \in [Modules -> {"out", "rw", "save", "hook", "in", "restore",
                                 "ro", "dead"}]
      BY <1>4, <2>1 DEF HookSlot
    <3> QED
      BY <1>4, <2>1, <3>2, <3>3, <3>4 DEF calls, HookSlot
  <2>2. CASE ~rw
    BY <1>4, <2>2 DEF calls, HookSlot, WriteFault
  <2> QED
    BY <2>1, <2>2
<1>5. ASSUME NEW m \in Modules, Rmmod(m)
      PROVE  TypeOK'
  BY <1>5, HookedSlots DEF calls, Rmmod
<1>6. ASSUME NEW m \in Modules, Restore(m)
      PROVE  TypeOK'
  <2>1. CASE rw
    <3>1. Len(Hooks[m]) \in Nat /\ Slot(m) \in Slots
      BY HookedSlots DEF Slot, Pos
    <3>2. table' \in [Slots -> Functions]
      <4>1. saved[m][Slot(m)] \in Functions
        BY <3>1
      <4>2. table' = [table EXCEPT ![Slot(m)] = saved[m][Slot(m)]]
        BY <1>6, <2>1 DEF Restore
      <4> QED
        BY <3>1, <4>1, <4>2
    <3>3. /\ k' \in [Modules -> Nat]
          /\ \A n \in Modules : k'[n] \in 1 .. Len(Hooks[n])
      <4>1. CASE k[m] < Len(Hooks[m])
        <5>1. k[m] + 1 \in Nat /\ k[m] + 1 \in 1 .. Len(Hooks[m])
          BY <3>1, <4>1
        <5>2. k' = [k EXCEPT ![m] = k[m] + 1]
          BY <1>6, <2>1, <4>1 DEF Restore
        <5> QED
          BY <5>1, <5>2
      <4>2. CASE ~(k[m] < Len(Hooks[m]))
        BY <1>6, <2>1, <4>2 DEF Restore
      <4> QED
        BY <4>1, <4>2
    <3>4. state' \in [Modules -> {"out", "rw", "save", "hook", "in", "restore",
                                 "ro", "dead"}]
      BY <1>6, <2>1 DEF Restore
    <3> QED
      BY <1>6, <2>1, <3>2, <3>3, <3>4 DEF calls, Restore
  <2>2. CASE ~rw
    BY <1>6, <2>2 DEF calls, Restore, WriteFault
  <2> QED
    BY <2>1, <2>2
<1>7. ASSUME NEW m \in Modules, MakeRo(m)
      PROVE  TypeOK'
  BY <1>7 DEF calls, MakeRo
<1>9. ASSUME NEW c \in Callers, Enter(c)
      PROVE  TypeOK'
  BY <1>9 DEF Enter, modvars
<1>10. ASSUME NEW c \in Callers, CallOriginal(c)
       PROVE  TypeOK'
  <2>1. PICK m \in Wraps :
          frames' = [frames EXCEPT ![c] = Append(@, saved[m][nr[c]])]
    BY <1>10 DEF CallOriginal
  <2>2. saved[m][nr[c]] \in Functions /\ frames[c] \in Seq(Functions)
    BY HooksAssumption
  <2>3. Append(frames[c], saved[m][nr[c]]) \in Seq(Functions)
    BY <2>2, AppendProperties
  <2> QED
    BY <1>10, <2>1, <2>3 DEF CallOriginal, modvars
<1>11. ASSUME NEW c \in Callers, Return(c)
       PROVE  TypeOK'
  BY <1>11 DEF Inner, Return, modvars
<1>12. CASE UNCHANGED vars
  BY <1>12 DEF vars, calls
<1> QED
  BY <1>1, <1>2, <1>3, <1>4, <1>5, <1>6, <1>7, <1>9, <1>10, <1>11, <1>12
     DEF Next

(* The permission: only the base changes it, and it is there as long as    *)
(* another module is.                                                      *)
LEMMA PermissionStep ==
  ASSUME Separate, TypeOK, Permission, [Next]_vars
  PROVE  Permission'
<1>1. PICK b \in Modules : /\ Flips = {b} /\ Needs[b] = {}
                           /\ \A m \in Modules \ {b} : b \in Needs[m]
  BY DEF Separate
<1>2. /\ rw <=> state[b] \notin {"out", "rw"}
      /\ \A m \in Modules \ {b} : /\ state[m] # "out" => state[b] = "in"
                                  /\ state[m] \notin {"rw", "ro"}
      /\ \A m \in Modules : state[m] # "dead"
  BY <1>1 DEF Permission
<1> DEFINE P == /\ rw <=> state[b] \notin {"out", "rw"}
                /\ \A m \in Modules \ {b} :
                     /\ state[m] # "out" => state[b] = "in"
                     /\ state[m] \notin {"rw", "ro"}
                /\ \A m \in Modules : state[m] # "dead"
<1>3. SUFFICES P'
  BY <1>1 DEF Permission
<1> USE DEF TypeOK
<1>4. ASSUME NEW m \in Modules, Insmod(m)
      PROVE  P'
  BY <1>1, <1>2, <1>4 DEF Insmod
<1>5. ASSUME NEW m \in Modules, MakeRw(m)
      PROVE  P'
  BY <1>1, <1>2, <1>5 DEF MakeRw
<1>6. ASSUME NEW m \in Modules, Save(m)
      PROVE  P'
  BY <1>1, <1>2, <1>6 DEF Save
<1>7. ASSUME NEW m \in Modules, HookSlot(m)
      PROVE  P'
  BY <1>1, <1>2, <1>7 DEF HookSlot
<1>8. ASSUME NEW m \in Modules, Rmmod(m)
      PROVE  P'
  BY <1>1, <1>2, <1>8 DEF Rmmod
<1>9. ASSUME NEW m \in Modules, Restore(m)
      PROVE  P'
  BY <1>1, <1>2, <1>9 DEF Restore
<1>10. ASSUME NEW m \in Modules, MakeRo(m)
       PROVE  P'
  BY <1>1, <1>2, <1>10 DEF MakeRo
<1>12. CASE UNCHANGED modvars
  BY <1>2, <1>12 DEF modvars
<1> QED
  BY <1>4, <1>5, <1>6, <1>7, <1>8, <1>9, <1>10, <1>12
     DEF Next, Enter, CallOriginal, Return, vars, modvars

(* A step that leaves the table, the pointers and what is held alone       *)
(* leaves the ownership alone.                                             *)
LEMMA SameHeld ==
  ASSUME Ownership, UNCHANGED <<table, saved>>, FirstFirst',
         \A n \in Modules : Held(n)' = Held(n),
         \A n \in Modules :
           state'[n] = "hook" => state[n] = "hook" /\ k'[n] = k[n],
         table \in [Slots -> Functions]
  PROVE  Ownership'
<1>1. HeldAreReplaced'
  BY DEF Ownership, HeldAreReplaced
<1>2. ReplacedAreHeld'
  BY DEF Ownership, ReplacedAreHeld, Functions
<1>3. SavedAreOriginal'
  BY DEF Ownership, SavedAreOriginal
<1> QED
  BY <1>1, <1>2, <1>3 DEF Ownership

(* What a module finds in the entry it is about to replace: nobody but     *)
(* itself could have replaced it, and it has not yet.                      *)
LEMMA SavesOriginal ==
  ASSUME Separate, TypeOK, Ownership, NEW m \in Modules, state[m] = "save"
  PROVE  table[Slot(m)] = Original
<1>1. k[m] \in Pos(m) /\ Slot(m) \in Slots
  BY HookedSlots DEF Pos, Slot, TypeOK
<1>2. k[m] \notin Held(m)
  BY <1>1 DEF Held, TypeOK, Pos
<1>3. SUFFICES ASSUME table[Slot(m)] # Original
               PROVE  FALSE
  OBVIOUS
<1>4. /\ table[Slot(m)] \in Modules
      /\ \E i \in Held(table[Slot(m)]) : Hooks[table[Slot(m)]][i] = Slot(m)
  BY <1>1, <1>3 DEF TypeOK, Ownership, ReplacedAreHeld, Functions
<1>5. PICK i \in Held(table[Slot(m)]) : Hooks[table[Slot(m)]][i] = Hooks[m][k[m]]
  BY <1>4 DEF Slot
<1>6. i \in Pos(table[Slot(m)])
  BY DEF Held
<1>7. table[Slot(m)] = m /\ i = k[m]
  BY <1>1, <1>4, <1>5, <1>6, OneOwner
<1> QED
  BY <1>2, <1>5, <1>7

(* The entries: a step of m changes only what m holds.                     *)
LEMMA OwnershipStep ==
  ASSUME Separate, TypeOK, Permission, Ownership, [Next]_vars
  PROVE  Ownership'
<1>1. \A m \in Modules : Len(Hooks[m]) \in Nat /\ Len(Hooks[m]) >= 1
  BY HookedSlots
<1>2. \A m \in Modules : k[m] \in Pos(m) /\ Slot(m) \in Slots
  BY HookedSlots DEF Pos, Slot, TypeOK
<1>3. /\ table \in [Slots -> Functions]
      /\ saved \in [Modules -> [Slots -> Functions]]
      /\ Original \notin Modules
      /\ \A m \in Modules : state[m] \in {"hook", "restore"} => rw
  BY HooksAssumption DEF TypeOK, Permission, Separate
<1>4. ASSUME NEW m \in Modules, Insmod(m)
      PROVE  Ownership'
  <2>1. \A n \in Modules : Held(n)' = Held(n)
    BY <1>1, <1>4 DEF Insmod, Held, TypeOK, Pos
  <2>2. FirstFirst'
    BY <1>4 DEF Insmod, TypeOK, Ownership, FirstFirst
  <2> QED
    BY <1>3, <1>4, <2>1, <2>2, SameHeld DEF Insmod, TypeOK
<1>5. ASSUME NEW m \in Modules, MakeRw(m)
      PROVE  Ownership'
  <2>1. \A n \in Modules : Held(n)' = Held(n)
    BY <1>5 DEF MakeRw, Held, TypeOK, Ownership, FirstFirst, Pos
  <2>2. FirstFirst'
    BY <1>5 DEF MakeRw, TypeOK, Ownership, FirstFirst
  <2> QED
    BY <1>3, <1>5, <2>1, <2>2, SameHeld DEF MakeRw, TypeOK
<1>6. ASSUME NEW m \in Modules, Save(m)
      PROVE  Ownership'
  <2>1. \A n \in Modules : Held(n)' = Held(n)
    BY <1>6 DEF Save, Held, TypeOK
  <2>3. table[Slot(m)] = Original
    BY <1>6, SavesOriginal DEF Save
  <2>4. HeldAreReplaced' /\ ReplacedAreHeld' /\ FirstFirst'
    <3>1. UNCHANGED <<table, k>> /\ \A n \in Modules : state'[n] = "rw" => state[n] = "rw"
      BY <1>6 DEF Save, TypeOK
    <3> QED
      BY <1>3, <2>1, <3>1
         DEF Ownership, HeldAreReplaced, ReplacedAreHeld, FirstFirst, Functions
  <2>5. SavedAreOriginal'
    <3>1. SUFFICES ASSUME NEW n \in Modules, NEW i \in Pos(n),
                          \/ i \in Held(n)
                          \/ state'[n] = "hook" /\ i = k[n]
                   PROVE  saved'[n][Hooks[n][i]] = Original
      BY <1>6, <2>1 DEF SavedAreOriginal, Save
    <3>2. saved' = [saved EXCEPT ![m][Slot(m)] = Original]
      BY <1>6, <2>3 DEF Save
    <3>3. Hooks[n][i] \in Slots
      BY HookedSlots
    <3>4. CASE n = m /\ i = k[m]
      BY <1>3, <3>2, <3>3, <3>4 DEF Slot
    <3>5. CASE ~(n = m /\ i = k[m])
      <4>1. saved'[n][Hooks[n][i]] = saved[n][Hooks[n][i]]
        BY <1>2, <1>3, <3>2, <3>3, <3>5, OneOwner DEF Slot
      <4>2. i \in Held(n) \/ (state[n] = "hook" /\ i = k[n])
        BY <1>6, <3>1, <3>5 DEF Save, TypeOK
      <4> QED
        BY <4>1, <4>2 DEF Ownership, SavedAreOriginal
    <3> QED
      BY <3>4, <3>5
  <2> QED
    BY <2>4, <2>5 DEF Ownership
<1>7. ASSUME NEW m \in Modules, HookSlot(m)
      PROVE  Ownership'
  <2>1. \A n \in Modules \ {m} : Held(n)' = Held(n)
    BY <1>3, <1>7 DEF HookSlot, Held, TypeOK
  <2>2. Held(m)' = Held(m) \cup {k[m]}
    <3>1. CASE k[m] < Len(Hooks[m])
      BY <1>3, <1>1, <1>2, <1>7, <3>1 DEF HookSlot, Held, TypeOK, Pos
    <3>2. CASE ~(k[m] < Len(Hooks[m]))
      BY <1>3, <1>1, <1>2, <1>7, <3>2 DEF HookSlot, Held, TypeOK, Pos
    <3> QED
      BY <3>1, <3>2
  <2>3. table' = [table EXCEPT ![Hooks[m][k[m]]] = m]
    BY <1>3, <1>7 DEF HookSlot, Slot
  <2>4. HeldAreReplaced'
    <3>1. SUFFICES ASSUME NEW n \in Modules, NEW i \in Held(n)'
                   PROVE  table'[Hooks[n][i]] = n
      BY DEF HeldAreReplaced
    <3>2. i \in Pos(n) /\ Hooks[n][i] \in Slots
      BY HookedSlots DEF Held
    <3>3. CASE n = m /\ i = k[m]
      BY <1>3, <2>3, <3>2, <3>3
    <3>4. CASE ~(n = m /\ i = k[m])
      <4>1. i \in Held(n)
        BY <2>1, <2>2, <3>4
      <4>2. Hooks[n][i] # Hooks[m][k[m]]
        BY <1>2, <3>2, <3>4, OneOwner
      <4>3. table[Hooks[n][i]] = n
        BY <4>1 DEF Ownership, HeldAreReplaced
      <4> QED
        BY <1>3, <2>3, <3>2, <4>2, <4>3
    <3> QED
      BY <3>3, <3>4
  <2>5. ReplacedAreHeld'
    <3>1. SUFFICES ASSUME NEW s \in Slots, NEW f, f = table'[s], f # Original
                   PROVE  \E i \in Held(f)' : Hooks[f][i] = s
      BY DEF ReplacedAreHeld, Held
    <3>2. CASE s = Hooks[m][k[m]]
      <4>1. f = m
        BY <1>3, <2>3, <3>1, <3>2
      <4>2. k[m] \in Held(m)'
        BY <2>2
      <4> QED
        BY <3>2, <4>1, <4>2
    <3>3. CASE s # Hooks[m][k[m]]
      <4>1. f = table[s] /\ f \in Modules
        BY <1>3, <2>3, <3>1, <3>3 DEF Functions
      <4>2. \E i \in Held(f) : Hooks[f][i] = s
        BY <3>1, <4>1 DEF Ownership, ReplacedAreHeld
      <4> QED
        BY <2>1, <2>2, <4>1, <4>2
    <3> QED
      BY <3>2, <3>3
  <2>6. SavedAreOriginal'
    <3>1. SUFFICES ASSUME NEW n \in Modules, NEW i \in Pos(n),
                          \/ i \in Held(n)'
                          \/ state'[n] = "hook" /\ i = k'[n]
                   PROVE  saved[n][Hooks[n][i]] = Original
      BY <1>7 DEF SavedAreOriginal, HookSlot
    <3>2. i \in Held(n) \/ (state[n] = "hook" /\ i = k[n])
      <4>1. CASE n = m
        BY <1>3, <1>7, <2>2, <3>1, <4>1 DEF HookSlot, TypeOK
      <4>2. CASE n # m
        BY <1>3, <1>7, <2>1, <3>1, <4>2 DEF HookSlot, TypeOK
      <4> QED
        BY <4>1, <4>2
    <3> QED
      BY <3>2 DEF Ownership, SavedAreOriginal
  <2>7. FirstFirst'
    BY <1>3, <1>7 DEF HookSlot, TypeOK, Ownership, FirstFirst
  <2> QED
    BY <2>4, <2>5, <2>6, <2>7 DEF Ownership
<1>8. ASSUME NEW m \in Modules, Rmmod(m)
      PROVE  Ownership'
  <2>1. \A n \in Modules : Held(n)' = Held(n)
    BY <1>1, <1>8 DEF Rmmod, Held, TypeOK, Pos
  <2>2. FirstFirst'
    BY <1>8 DEF Rmmod, TypeOK, Ownership, FirstFirst
  <2> QED
    BY <1>3, <1>8, <2>1, <2>2, SameHeld DEF Rmmod, TypeOK
<1>9. ASSUME NEW m \in Modules, Restore(m)
      PROVE  Ownership'
  <2>1. \A n \in Modules \ {m} : Held(n)' = Held(n)
    BY <1>3, <1>9 DEF Restore, Held, TypeOK
  <2>2. Held(m)' = Held(m) \ {k[m]}
    <3>1. CASE k[m] < Len(Hooks[m])
      BY <1>3, <1>1, <1>2, <1>9, <3>1 DEF Restore, Held, TypeOK, Pos
    <3>2. CASE ~(k[m] < Len(Hooks[m]))
      BY <1>3, <1>1, <1>2, <1>9, <3>2 DEF Restore, Held, TypeOK, Pos
    <3> QED
      BY <3>1, <3>2
  <2>3. table' = [table EXCEPT ![Hooks[m][k[m]]] = Original]
    <3>1. k[m] \in Held(m)
      BY <1>3, <1>2, <1>9 DEF Restore, Held, Pos, TypeOK
    <3>2. saved[m][Slot(m)] = Original
      BY <1>2, <3>1 DEF Slot, Ownership, SavedAreOriginal
    <3> QED
      BY <1>3, <1>9, <3>2 DEF Restore, Slot
  <2>4. HeldAreReplaced'
    <3>1. SUFFICES ASSUME NEW n \in Modules, NEW i \in Held(n)'
                   PROVE  table'[Hooks[n][i]] = n
      BY DEF HeldAreReplaced
    <3>2. i \in Pos(n) /\ Hooks[n][i] \in Slots
      BY HookedSlots DEF Held
    <3>3. i \in Held(n) /\ ~(n = m /\ i = k[m])
      BY <2>1, <2>2
    <3>4. Hooks[n][i] # Hooks[m][k[m]]
      BY <1>2, <3>2, <3>3, OneOwner
    <3>5. table[Hooks[n][i]] = n
      BY <3>3 DEF Ownership, HeldAreReplaced
    <3> QED
      BY <1>3, <2>3, <3>2, <3>4, <3>5
  <2>5. ReplacedAreHeld'
    <3>1. SUFFICES ASSUME NEW s \in Slots, NEW f, f = table'[s], f # Original
                   PROVE  \E i \in Held(f)' : Hooks[f][i] = s
      BY DEF ReplacedAreHeld, Held
    <3>2. s # Hooks[m][k[m]] /\ f = table[s] /\ f \in Modules
      BY <1>3, <2>3, <3>1 DEF Functions
    <3>3. PICK i \in Held(f) : Hooks[f][i] = s
      BY <3>1, <3>2 DEF Ownership, ReplacedAreHeld
    <3>4. i \in Held(f)'
      BY <2>1, <2>2, <3>2, <3>3
    <3> QED
      BY <3>3, <3>4
  <2>6. SavedAreOriginal'
    <3>1. SUFFICES ASSUME NEW n \in Modules, NEW i \in Pos(n),
                          \/ i \in Held(n)'
                          \/ state'[n] = "hook" /\ i = k'[n]
                   PROVE  saved[n][Hooks[n][i]] = Original
      BY <1>9 DEF SavedAreOriginal, Restore
    <3>2. i \in Held(n) \/ (state[n] = "hook" /\ i = k[n])
      <4>1. CASE n = m
        BY <1>3, <1>9, <2>2, <3>1, <4>1 DEF Restore, TypeOK
      <4>2. CASE n # m
        BY <1>3, <1>9, <2>1, <3>1, <4>2 DEF Restore, TypeOK
      <4> QED
        BY <4>1, <4>2
    <3> QED
      BY <3>2 DEF Ownership, SavedAreOriginal
  <2>7. FirstFirst'
    BY <1>3, <1>9 DEF Restore, TypeOK, Ownership, FirstFirst
  <2> QED
    BY <2>4, <2>5, <2>6, <2>7 DEF Ownership
<1>10. ASSUME NEW m \in Modules, MakeRo(m)
       PROVE  Ownership'
  <2>1. \A n \in Modules : Held(n)' = Held(n)
    BY <1>10 DEF MakeRo, Held, TypeOK
  <2>2. FirstFirst'
    BY <1>10 DEF MakeRo, TypeOK, Ownership, FirstFirst
  <2> QED
    BY <1>3, <1>10, <2>1, <2>2, SameHeld DEF MakeRo, TypeOK
<1>12. CASE UNCHANGED modvars
  <2>1. \A n \in Modules : Held(n)' = Held(n)
    BY <1>12 DEF modvars, Held
  <2> QED
    BY <1>3, <1>12, <2>1, SameHeld DEF modvars, Ownership, FirstFirst
<1> QED
  BY <1>4, <1>5, <1>6, <1>7, <1>8, <1>9, <1>10, <1>12
     DEF Next, Enter, CallOriginal, Return, vars, modvars

---------------------------------------------------------------------------

(* The types, for all modules and whatever entries they take.              *)
THEOREM TypeCorrect == Spec => []TypeOK
<1>1. Init => TypeOK
  BY InitIInv DEF IInv
<1>2. TypeOK /\ [Next]_vars => TypeOK'
  BY TypeStep
<1> QED
  BY <1>1, <1>2, PTL DEF Spec

LEMMA Invariance == Separate => (Spec => []IInv)
<1>1. Init => IInv
  BY InitIInv
<1>2. Separate /\ IInv /\ [Next]_vars => IInv'
  BY TypeStep, PermissionStep, OwnershipStep DEF IInv
<1>3. ASSUME Separate
      PROVE  IInv /\ [Next]_vars => IInv'
  BY <1>2, <1>3
<1>4. ASSUME Separate
      PROVE  Spec => []IInv
  BY <1>1, <1>3, <1>4, PTL DEF Spec
<1> QED
  BY <1>4

(* With 2-3 iotracehooking above ftracehooking no insmod or rmmod dies.    *)
THEOREM NoFaults == Separate => (Spec => []NoWriteFaults)
<1>1. IInv => NoWriteFaults
  BY DEF IInv, Permission, NoWriteFaults
<1> QED
  BY <1>1, Invariance, PTL

(* Unloading gives every entry of the table back.                          *)
THEOREM TableGivenBack == Separate => (Spec => []TableRestored)
<1>1. IInv => TableRestored
  <2>1. SUFFICES ASSUME IInv, \A m \in Modules : state[m] = "out"
                 PROVE  table = [s \in Slots |-> Original]
    BY DEF TableRestored
  <2>2. table \in [Slots -> Functions]
    BY <2>1 DEF IInv, TypeOK
  <2>3. ASSUME NEW s \in Slots
        PROVE  table[s] = Original
    <3>1. \A m \in Modules : Held(m) = {}
      BY <2>1 DEF Held
    <3> QED
      BY <2>1, <2>2, <3>1 DEF IInv, Functions, Ownership, ReplacedAreHeld
  <2> QED
    BY <2>2, <2>3
<1> QED
  BY <1>1, Invariance, PTL

(* Unloading everything takes the permission back, for rivals as well: a   *)
(* writable page needs a module between its make_rw and its make_ro.       *)
THEOREM PermissionGivenBack == Spec => []PermissionReturned
<1> DEFINE P == /\ rw => \E b \in Flips : state[b] \notin {"out", "rw"}
                /\ \A m \in Modules : state[m] = "rw" => m \in Flips
<1>1. Init => TypeOK /\ P
  BY InitIInv DEF IInv, Init
<1>2. TypeOK /\ P /\ [Next]_vars => TypeOK' /\ P'
  <2>1. SUFFICES ASSUME TypeOK, P, [Next]_vars
                 PROVE  P'
    BY TypeStep
  <2> USE HooksAssumption DEF TypeOK
  <2>2. ASSUME NEW m \in Modules, Insmod(m)
        PROVE  P'
    BY <2>1, <2>2 DEF Insmod
  <2>3. ASSUME NEW m \in Modules, MakeRw(m)
        PROVE  P'
    BY <2>1, <2>3 DEF MakeRw
  <2>4. ASSUME NEW m \in Modules, Save(m)
        PROVE  P'
    BY <2>1, <2>4 DEF Save
  <2>5. ASSUME NEW m \in Modules, HookSlot(m)
        PROVE  P'
    <3>1. PICK new \in {"save", "in", "dead"} : state' = [state EXCEPT ![m] = new]
      BY <2>5 DEF HookSlot, WriteFault
    <3>2. \A n \in Modules : state'[n] = new \/ state'[n] = state[n]
      BY <3>1
    <3>3. rw' = rw /\ new \notin {"out", "rw"}
      BY <2>5, <3>1 DEF HookSlot
    <3>4. rw => \E b \in Flips : state'[b] \notin {"out", "rw"}
      BY <2>1, <3>2, <3>3
    <3> QED
      BY <2>1, <3>2, <3>3, <3>4
  <2>6. ASSUME NEW m \in Modules, Rmmod(m)
        PROVE  P'
    BY <2>1, <2>6 DEF Rmmod
  <2>7. ASSUME NEW m \in Modules, Restore(m)
        PROVE  P'
    <3>1. CASE ~rw
      BY <2>1, <2>7, <3>1 DEF Restore, WriteFault
    <3>2. CASE rw /\ k[m] < Len(Hooks[m])
      BY <2>1, <2>7, <3>2 DEF Restore
    <3>3. CASE rw /\ ~(k[m] < Len(Hooks[m]))
      <4>1. CASE m \in Flips
        <5>1. state' = [state EXCEPT ![m] = "ro"] /\ rw' = rw
          BY <2>7, <3>3, <4>1 DEF Restore
        <5>2. state'[m] = "ro"
          BY <2>1, <5>1
        <5>3. \E b \in Flips : state'[b] \notin {"out", "rw"}
          BY <4>1, <5>2
        <5>4. \A n \in Modules : state'[n] = "rw" => state[n] = "rw"
          BY <2>1, <5>1
        <5> QED
          BY <2>1, <5>3, <5>4
      <4>2. CASE m \notin Flips
        BY <2>1, <2>7, <3>3, <4>2 DEF Restore
      <4> QED
        BY <4>1, <4>2
    <3> QED
      BY <3>1, <3>2, <3>3
  <2>8. ASSUME NEW m \in Modules, MakeRo(m)
        PROVE  P'
    BY <2>1, <2>8 DEF MakeRo
  <2>9. CASE UNCHANGED modvars
    BY <2>1, <2>9 DEF modvars
  <2> QED
    BY <2>1, <2>2, <2>3, <2>4, <2>5, <2>6, <2>7, <2>8, <2>9
       DEF Next, Enter, CallOriginal, Return, vars, modvars
<1>3. P => PermissionReturned
  BY HooksAssumption DEF PermissionReturned
<1> QED
  BY <1>1, <1>2, <1>3, PTL DEF Spec

(* The table and the pointers of the hooks lead to code that is there.     *)
THEOREM EntriesThere == Separate => (Spec => []EntriesInMemory)
<1>1. IInv => EntriesInMemory
  <2>1. SUFFICES ASSUME IInv, NEW s \in Slots
                 PROVE  /\ InMemory(table[s])
                        /\ \A m \in Wraps : table[s] = m => InMemory(saved[m][s])
    BY DEF EntriesInMemory
  <2>2. CASE table[s] = Original
    BY <2>2, HooksAssumption DEF InMemory
  <2>3. CASE table[s] # Original
    <3>1. PICK m \in Modules : m = table[s]
      BY <2>1, <2>3 DEF IInv, TypeOK, Functions
    <3>2. PICK i \in Held(m) : Hooks[m][i] = s
      BY <2>1, <2>3, <3>1 DEF IInv, Ownership, ReplacedAreHeld
    <3>3. state[m] # "out"
      BY <3>2 DEF Held
    <3>4. saved[m][s] = Original
      BY <2>1, <3>2 DEF IInv, Ownership, SavedAreOriginal, Held
    <3> QED
      BY <3>1, <3>3, <3>4 DEF InMemory
  <2> QED
    BY <2>2, <2>3
<1> QED
  BY <1>1, Invariance, PTL

---------------------------------------------------------------------------

(* Every pointer a hook may ever call through is original, also one of a   *)
(* module that has been unloaded meanwhile.                                *)
PointersOriginal == \A m \in Modules, s \in Slots : saved[m][s] = Original

LEMMA PointersStep ==
  ASSUME Separate, IInv, PointersOriginal, [Next]_vars
  PROVE  PointersOriginal'
<1> USE DEF PointersOriginal
<1>1. ASSUME NEW m \in Modules, Save(m)
      PROVE  PointersOriginal'
  <2>1. saved' = [saved EXCEPT ![m][Slot(m)] = Original]
    BY <1>1, SavesOriginal DEF Save, IInv
  <2>2. saved \in [Modules -> [Slots -> Functions]]
    BY DEF IInv, TypeOK
  <2> QED
    BY <2>1, <2>2
<1>2. ASSUME NEW m \in Modules,
             \/ Insmod(m) \/ MakeRw(m) \/ HookSlot(m)
             \/ Rmmod(m) \/ Restore(m) \/ MakeRo(m)
      PROVE  PointersOriginal'
  BY <1>2 DEF Insmod, MakeRw, HookSlot, Rmmod, Restore, MakeRo
<1>3. CASE UNCHANGED modvars
  BY <1>3 DEF modvars
<1> QED
  BY <1>1, <1>2, <1>3 DEF Next, Enter, CallOriginal, Return, vars, modvars

LEMMA CallsStep ==
  ASSUME TypeOK, PointersOriginal, OneHookPerCall, [Next]_vars
  PROVE  OneHookPerCall'
<1>1. ASSUME UNCHANGED frames
      PROVE  OneHookPerCall'
  BY <1>1 DEF OneHookPerCall
<1>2. ASSUME NEW c \in Callers, Enter(c)
      PROVE  OneHookPerCall'
  <2>1. PICK f : frames' = [frames EXCEPT ![c] = <<f>>]
    BY <1>2 DEF Enter
  <2> QED
    BY <2>1 DEF OneHookPerCall, TypeOK
<1>3. ASSUME NEW c \in Callers, CallOriginal(c)
      PROVE  OneHookPerCall'
  <2>1. PICK m \in Wraps : /\ Inner(c) = m
                           /\ frames' = [frames EXCEPT ![c] = Append(@, saved[m][nr[c]])]
    BY <1>3 DEF CallOriginal
  <2>2. saved[m][nr[c]] = Original /\ Original \in Functions /\ m # Original
    BY HooksAssumption DEF TypeOK, PointersOriginal, Functions
  <2>3. /\ frames[c] \in Seq(Functions) /\ frames[c] # <<>>
        /\ Len(frames[c]) \in Nat \ {0}
    BY <1>3, EmptySeq DEF CallOriginal, TypeOK
  <2>4. Len(frames[c]) = 1
    <3>1. Len(frames[c]) <= 2 /\ (Len(frames[c]) = 2 => frames[c][2] = Original)
      BY DEF OneHookPerCall
    <3>2. Len(frames[c]) # 2
      <4>1. SUFFICES ASSUME Len(frames[c]) = 2
                     PROVE  FALSE
        OBVIOUS
      <4>2. Inner(c) = frames[c][2]
        BY <4>1 DEF Inner
      <4> QED
        BY <2>1, <2>2, <3>1, <4>1, <4>2
    <3>3. \A n \in Nat \ {0} : n <= 2 /\ n # 2 => n = 1
      OBVIOUS
    <3> QED
      BY <2>3, <3>1, <3>2, <3>3, Zenon
  <2>5. Len(Append(frames[c], Original)) = 2 /\ Append(frames[c], Original)[2] = Original
    BY <2>2, <2>3, <2>4, AppendProperties
  <2> QED
    BY <2>1, <2>2, <2>5 DEF OneHookPerCall, TypeOK
<1>4. ASSUME NEW c \in Callers, Return(c)
      PROVE  OneHookPerCall'
  <2>1. frames' = [frames EXCEPT ![c] = <<>>]
    BY <1>4 DEF Return
  <2> QED
    BY <2>1 DEF OneHookPerCall, TypeOK
<1>5. ASSUME NEW m \in Modules,
             \/ Insmod(m) \/ MakeRw(m) \/ Save(m) \/ HookSlot(m)
             \/ Rmmod(m) \/ Restore(m) \/ MakeRo(m)
      PROVE  UNCHANGED frames
  BY <1>5 DEF Insmod, MakeRw, Save, HookSlot, Rmmod, Restore, MakeRo, calls
<1> QED
  BY <1>1, <1>2, <1>3, <1>4, <1>5 DEF Next, vars

(* A system call runs through one hook at most and ends in the kernel's    *)
(* own function, even when the module it has entered is unloaded and       *)
(* loaded again before it calls on.                                        *)
THEOREM CallsReachOriginal == Separate => (Spec => []OneHookPerCall)
<1>1. Init => PointersOriginal /\ OneHookPerCall
  BY DEF Init, PointersOriginal, OneHookPerCall
<1>2. ASSUME Separate
      PROVE  IInv /\ PointersOriginal /\ OneHookPerCall /\ [Next]_vars
               => (PointersOriginal /\ OneHookPerCall)'
  BY <1>2, PointersStep, CallsStep DEF IInv
<1>3. ASSUME Separate
      PROVE  Spec => []IInv
  BY <1>3, Invariance
<1>4. ASSUME Separate
      PROVE  Spec => []OneHookPerCall
  BY <1>1, <1>2, <1>3, <1>4, PTL DEF Spec
<1> QED
  BY <1>4

---------------------------------------------------------------------------
(* The trace.                                                              *)

LEMMA StepIsStep ==
  ASSUME [TraceNext]_tvars
  PROVE  [Next]_vars
<1>1. CASE UNCHANGED tvars
  BY <1>1 DEF tvars
<1>2. ASSUME NEW m \in Modules,
             \/ LoadTrace(m) \/ MakeRw(m) \/ Save(m) \/ HookSlot(m)
             \/ Rmmod(m) \/ Restore(m) \/ MakeRo(m)
      PROVE  Next
  BY <1>2 DEF LoadTrace, Next
<1>3. ASSUME NEW c \in Callers,
             \/ Call(c) \/ Start(c) \/ End(c) \/ Hooked(c) \/ Unhooked(c)
             \/ CallOriginal(c)
      PROVE  Next
  BY <1>3 DEF Call, Start, End, Hooked, Unhooked, Next
<1> QED
  BY <1>1, <1>2, <1>3 DEF TraceNext

(* The modules of 2-3 with their numbers are modules of SyscallHooks, so   *)
(* all that holds for those holds for them.                                *)
THEOREM TraceImplements == TraceSpec => Spec
<1>1. TraceInit => Init
  BY DEF TraceInit
<1>2. [TraceNext]_tvars => [Next]_vars
  BY StepIsStep
<1> QED
  BY <1>1, <1>2, PTL DEF TraceSpec, Spec

(* While a trace is on, too, the table and the pointers of the hooks lead  *)
(* to code in memory, and unloading gives the table back.                  *)
THEOREM TraceKeepsTable ==
  Separate => (TraceSpec => [](EntriesInMemory /\ TableRestored))
  BY TraceImplements, EntriesThere, TableGivenBack, PTL

---------------------------------------------------------------------------

TraceType ==
  /\ num \in [Slots -> Nat] /\ base \in [Slots -> Nat] /\ whole \in [Slots -> Nat]
  /\ cur_pid \in Callers \cup {NoPid}

Surplus == {s \in Slots : num[s] # base[s] + whole[s]}

(* After the call that came too early the traced process is in none but    *)
(* such as began since.                                                    *)
EarlyIsOver ==
  Surplus # {} /\ cur_pid \in Callers /\ frames[cur_pid] # <<>> => cur_pid \in inside

TInv == TypeOK /\ TraceType /\ EarlyIsOver /\ TraceCounts

LEMMA TraceTypeStep ==
  ASSUME TypeOK, TraceType, [TraceNext]_tvars
  PROVE  TraceType'
<1> USE DEF TraceType
<1>1. CASE UNCHANGED session
  BY <1>1 DEF session
<1>2. ASSUME NEW m \in Modules, LoadTrace(m)
      PROVE  TraceType'
  BY <1>2 DEF LoadTrace, Zero, session
<1>3. ASSUME NEW c \in Callers, Call(c) \/ End(c) \/ Unhooked(c)
      PROVE  TraceType'
  BY <1>3 DEF Call, End, Unhooked
<1>4. ASSUME NEW c \in Callers, Start(c)
      PROVE  TraceType'
  BY <1>4 DEF Start, Zero
<1>5. ASSUME NEW c \in Callers, Hooked(c)
      PROVE  TraceType'
  <2>1. nr[c] \in Slots
    BY DEF TypeOK
  <2>2. PICK ok \in BOOLEAN :
          /\ num' = IF Counts(c, ok) THEN [num EXCEPT ![nr[c]] = @ + 1] ELSE num
          /\ whole' = IF c \in inside /\ cur_pid = c /\ (nr[c] = Closing => ok)
                        THEN [whole EXCEPT ![nr[c]] = @ + 1] ELSE whole
    BY <1>5 DEF Hooked
  <2> QED
    BY <1>5, <2>1, <2>2 DEF Hooked
<1> QED
  BY <1>1, <1>2, <1>3, <1>4, <1>5 DEF TraceNext, tvars, session

(* A call that ends leaves its process in none.                            *)
LEMMA ReturnedFrom ==
  ASSUME TypeOK, NEW c \in Callers, Return(c)
  PROVE  /\ frames[c] # <<>> /\ frames'[c] = <<>>
         /\ \A d \in Callers \ {c} : frames'[d] = frames[d]
  BY DEF TypeOK, Return

LEMMA CountsStep ==
  ASSUME TInv, [TraceNext]_tvars
  PROVE  EarlyIsOver' /\ TraceCounts'
<1> USE DEF TInv, EarlyIsOver, TraceCounts, Surplus
<1>1. ASSUME UNCHANGED session, UNCHANGED frames
      PROVE  EarlyIsOver' /\ TraceCounts'
  BY <1>1 DEF session
<1>2. ASSUME NEW m \in Modules, LoadTrace(m)
      PROVE  EarlyIsOver' /\ TraceCounts'
  <2>1. CASE m = Ftrace
    BY <1>2, <2>1 DEF LoadTrace, Zero
  <2>2. CASE m # Ftrace
    BY <1>1, <1>2, <2>2 DEF LoadTrace, Insmod, calls
  <2> QED
    BY <2>1, <2>2
<1>3. ASSUME NEW c \in Callers, Call(c)
      PROVE  EarlyIsOver' /\ TraceCounts'
  <2>1. UNCHANGED <<cur_pid, num, base, whole>> /\ inside' = inside \cup {c}
    BY <1>3 DEF Call
  <2>2. \A d \in Callers \ {c} : frames'[d] = frames[d]
    BY <1>3 DEF Call, Enter, TypeOK
  <2> QED
    BY <2>1, <2>2
<1>4. ASSUME NEW c \in Callers, CallOriginal(c), UNCHANGED session
      PROVE  EarlyIsOver' /\ TraceCounts'
  <2>1. /\ frames[c] # <<>>
        /\ \A d \in Callers \ {c} : frames'[d] = frames[d]
    BY <1>4 DEF CallOriginal, TypeOK
  <2> QED
    BY <1>4, <2>1 DEF session
<1>5. ASSUME NEW c \in Callers, Start(c)
      PROVE  EarlyIsOver' /\ TraceCounts'
  <2>1. \A s \in Slots : num'[s] = base'[s] + whole'[s]
    BY <1>5 DEF Start, Zero, TraceType
  <2> QED
    BY <2>1
<1>6. ASSUME NEW c \in Callers, End(c) \/ Unhooked(c)
      PROVE  EarlyIsOver' /\ TraceCounts'
  <2>1. UNCHANGED <<cur_pid, num, base, whole>> /\ inside' = inside \ {c} /\ Return(c)
    BY <1>6 DEF End, Unhooked
  <2> QED
    BY <2>1, ReturnedFrom
<1>7. ASSUME NEW c \in Callers, Hooked(c)
      PROVE  EarlyIsOver' /\ TraceCounts'
  <2>1. PICK ok \in BOOLEAN :
          /\ num' = IF Counts(c, ok) THEN [num EXCEPT ![nr[c]] = @ + 1] ELSE num
          /\ whole' = IF c \in inside /\ cur_pid = c /\ (nr[c] = Closing => ok)
                        THEN [whole EXCEPT ![nr[c]] = @ + 1] ELSE whole
    BY <1>7 DEF Hooked
  <2>2. UNCHANGED <<cur_pid, base>> /\ inside' = inside \ {c} /\ Return(c)
    BY <1>7 DEF Hooked
  <2>3. nr[c] \in Slots /\ TraceType
    BY DEF TypeOK
  <2>4. /\ frames[c] # <<>> /\ frames'[c] = <<>>
        /\ \A d \in Callers \ {c} : frames'[d] = frames[d]
    BY <2>2, ReturnedFrom
  <2>5. CASE ~Counts(c, ok)
    <3>1. UNCHANGED <<num, whole>>
      BY <2>1, <2>5 DEF Counts
    <3> QED
      BY <2>2, <2>4, <3>1
  <2>6. CASE Counts(c, ok) /\ c \in inside
    <3>1. \A s \in Slots : num'[s] = base'[s] + whole'[s] <=> num[s] = base[s] + whole[s]
      BY <2>1, <2>2, <2>3, <2>6 DEF Counts, TraceType
    <3>2. \A s \in Slots :
            num'[s] = base'[s] + whole'[s] + 1 <=> num[s] = base[s] + whole[s] + 1
      BY <2>1, <2>2, <2>3, <2>6 DEF Counts, TraceType
    <3> QED
      BY <2>2, <2>4, <3>1, <3>2
  <2>7. CASE Counts(c, ok) /\ c \notin inside
    <3>1. Surplus = {} /\ cur_pid = c
      BY <2>4, <2>7 DEF Counts
    <3>2. \A s \in Slots : num[s] = base[s] + whole[s]
      BY <3>1
    <3>3. /\ num' = [num EXCEPT ![nr[c]] = @ + 1] /\ UNCHANGED <<base, whole>>
      BY <2>1, <2>2, <2>7
    <3>4. /\ \A s \in Slots \ {nr[c]} : num'[s] = base'[s] + whole'[s]
          /\ num'[nr[c]] = base'[nr[c]] + whole'[nr[c]] + 1
      BY <2>3, <3>2, <3>3 DEF TraceType
    <3> QED
      BY <2>2, <2>4, <3>1, <3>4
  <2> QED
    BY <2>5, <2>6, <2>7
<1>8. ASSUME NEW m \in Modules,
             \/ MakeRw(m) \/ Save(m) \/ HookSlot(m) \/ Rmmod(m) \/ Restore(m) \/ MakeRo(m)
      PROVE  UNCHANGED frames
  BY <1>8 DEF MakeRw, Save, HookSlot, Rmmod, Restore, MakeRo, calls
<1>9. CASE UNCHANGED tvars
  BY <1>1, <1>9 DEF tvars, vars
<1> QED
  BY <1>1, <1>2, <1>3, <1>4, <1>5, <1>6, <1>7, <1>8, <1>9 DEF TraceNext

(* However many processes, entries and traces: of a trace at most one call *)
(* too many is counted.                                                    *)
THEOREM TraceCounted == TraceSpec => []TraceCounts
<1>1. TraceInit => TInv
  <2>1. ASSUME TraceInit PROVE TypeOK
    BY <2>1, InitIInv DEF TraceInit, IInv
  <2>2. ASSUME TraceInit PROVE TraceType /\ EarlyIsOver /\ TraceCounts
    BY <2>2 DEF TraceInit, Fresh, Zero, TraceType, EarlyIsOver, Surplus, TraceCounts
  <2> QED
    BY <2>1, <2>2 DEF TInv
<1>2. TInv /\ [TraceNext]_tvars => TInv'
  BY StepIsStep, TypeStep, TraceTypeStep, CountsStep DEF TInv
<1>3. TInv => TraceCounts
  BY DEF TInv
<1> QED
  BY <1>1, <1>2, <1>3, PTL DEF TraceSpec


Types ==
  /\ stage \in [Tasks -> {"none", "new", "running", "zombie", "dead"}]
  /\ own \in [Tasks -> [Kinds -> Tasks]]
  /\ users \in [Kinds -> [Tasks -> Int]] /\ nr_threads \in Int
  /\ at \in [Tasks -> no .. link] /\ child \in [Tasks -> Tasks]
  /\ flags \in [Tasks -> SUBSET Flags]
  /\ parent \in [Tasks -> Tasks] /\ leader \in [Tasks -> Tasks]

(* A task that is new is being made, by one task that runs.                *)
Makers ==
  /\ stage[init_task] = "running" /\ stage[Reaper] = "running" /\ leader[Reaper] = Reaper
  /\ \A t \in Tasks : at[t] # no => stage[t] = "running" /\ stage[child[t]] = "new"
  /\ \A t, u \in Tasks : at[t] # no /\ at[u] # no /\ child[t] = child[u] => t = u
  /\ \A c \in Tasks : stage[c] = "new" => \E m \in Tasks : at[m] # no /\ child[m] = c

(* Nobody else points to an object of a task before it has been linked.    *)
Owners ==
  \A t \in Tasks, w \in Kinds :
    own[t][w] = t \/ stage[own[t][w]] \in {"running", "zombie", "dead"}

Holds(t, w, o) == own[t][w] = o /\ w \in Taken(t)
Holders(w, o) == {t \in Tasks : Holds(t, w, o)}
Others == {t \in Tasks \ {init_task} : Linked(t)}

CountInv == Types /\ Makers /\ Owners /\ RefCounts

---------------------------------------------------------------------------

LEMMA KindFacts ==
  /\ Kinds = {"files", "fs", "sighand", "signal", "mm"}
  /\ no = 0 /\ limit = 1 /\ creds = 2 /\ link = 8
  /\ \A j \in 1 .. 5 : Order[j] \in Kinds
  /\ \A w \in Kinds : \E j \in 1 .. 5 : Order[j] = w
  /\ \A i, j \in 1 .. 5 : Order[i] = Order[j] => i = j
  /\ ShareFlag["signal"] = "THREAD"
<1>1. Len(Order) = 5 /\ DOMAIN Order = 1 .. 5
  BY DEF Order
<1>2. Kinds = {"files", "fs", "sighand", "signal", "mm"}
  BY <1>1 DEF Kinds, Range, Order
<1>3. \A j \in 1 .. 5 : j = 1 \/ j = 2 \/ j = 3 \/ j = 4 \/ j = 5
  OBVIOUS
<1>4. /\ Order[1] = "files" /\ Order[2] = "fs" /\ Order[3] = "sighand"
      /\ Order[4] = "signal" /\ Order[5] = "mm"
  BY DEF Order
<1>5. \A i, j \in 1 .. 5 : Order[i] = Order[j] => i = j
  BY <1>3, <1>4
<1>6. \A w \in Kinds : \E j \in 1 .. 5 : Order[j] = w
  BY <1>2, <1>4
<1> QED
  BY <1>1, <1>2, <1>3, <1>4, <1>5, <1>6 DEF no, limit, creds, link, ShareFlag

LEMMA TaskFacts ==
  /\ Tasks \subseteq Nat /\ IsFiniteSet(Tasks) /\ init_task \in Tasks /\ Reaper \in Tasks
  /\ init_task # Reaper
<1>1. MAX_PID \in Nat \ {0, 1}
  BY TaskListsAssumption
<1> QED
  BY <1>1, FS_Interval DEF Tasks, init_task, Reaper

(* What the task has taken that m makes.                                   *)
TakenBy(m) == {w \in Kinds : w \in Copied(m) /\ Counted(m, w)}

LEMMA TakenCases ==
  ASSUME Makers
  PROVE  /\ \A t \in Tasks : stage[t] = "running" => Taken(t) = Kinds
         /\ \A t \in Tasks : stage[t] = "zombie" => Taken(t) = {"signal"}
         /\ \A t \in Tasks : stage[t] \in {"none", "dead"} => Taken(t) = {}
         /\ \A m \in Tasks : at[m] # no => Taken(child[m]) = TakenBy(m)
<1>1. "signal" \in Kinds
  BY KindFacts
<1>2. ASSUME NEW m \in Tasks, at[m] # no
      PROVE  Taken(child[m]) = TakenBy(m)
  <2>1. Maker(child[m]) = m
    BY <1>2 DEF Makers, Maker
  <2>2. stage[child[m]] = "new"
    BY <1>2 DEF Makers
  <2> QED
    BY <2>1, <2>2 DEF Taken, TakenBy
<1> QED
  BY <1>1, <1>2 DEF Taken

LEMMA TakenNext ==
  ASSUME Makers', NEW m \in Tasks, NEW c \in Tasks, at'[m] # no, child'[m] = c
  PROVE  Taken(c)' = TakenBy(m)'
<1>1. Maker(c)' = m
  BY DEF Makers, Maker
<1>2. stage'[c] = "new"
  BY DEF Makers
<1> QED
  BY <1>1, <1>2 DEF Taken, TakenBy

(* The others keep what they have when c changes.                          *)
LEMMA OthersKeep ==
  ASSUME Makers, Makers', NEW c \in Tasks,
         \A u \in Tasks \ {c} : stage'[u] = stage[u],
         \A m \in Tasks : at[m] # no /\ child[m] # c =>
            at'[m] = at[m] /\ child'[m] = child[m] /\ flags'[m] = flags[m]
  PROVE  \A u \in Tasks \ {c} : Taken(u)' = Taken(u)
<1> SUFFICES ASSUME NEW u \in Tasks \ {c}
             PROVE  Taken(u)' = Taken(u)
  OBVIOUS
<1>1. CASE stage[u] = "new"
  <2>1. PICK m \in Tasks : at[m] # no /\ child[m] = u
    BY <1>1 DEF Makers
  <2>2. at'[m] = at[m] /\ child'[m] = child[m] /\ flags'[m] = flags[m]
    BY <2>1
  <2>3. Taken(u) = TakenBy(m)
    BY <2>1, TakenCases
  <2>4. Maker(u)' = m
    BY <2>1, <2>2 DEF Makers, Maker
  <2>5. Taken(u)' = TakenBy(m)'
    BY <1>1, <2>4 DEF Taken, TakenBy
  <2>6. Copied(m)' = Copied(m) /\ \A w \in Kinds : Counted(m, w)' <=> Counted(m, w)
    BY <2>2 DEF Copied, Counted, Shares
  <2> QED
    BY <2>3, <2>5, <2>6 DEF TakenBy
<1>2. CASE stage[u] # "new"
  BY <1>2 DEF Taken
<1> QED
  BY <1>1, <1>2

(* A count changes as the only task does that gets or gives.               *)
Recounted(c, w, o) ==
  \/ users'[w][o] = users[w][o] /\ (Holds(c, w, o)' <=> Holds(c, w, o))
  \/ users'[w][o] = users[w][o] + 1 /\ Holds(c, w, o)' /\ ~Holds(c, w, o)
  \/ users'[w][o] = users[w][o] - 1 /\ ~Holds(c, w, o)' /\ Holds(c, w, o)
LEMMA Recount ==
  ASSUME Types, RefCounts, NEW c \in Tasks,
         users' \in [Kinds -> [Tasks -> Int]],
         \A u \in Tasks \ {c}, w \in Kinds, o \in Tasks : Holds(u, w, o)' <=> Holds(u, w, o),
         \A w \in Kinds, o \in Tasks : Recounted(c, w, o)
  PROVE  \A w \in Kinds, o \in Tasks : users'[w][o] = Cardinality(Holders(w, o)')
<1> SUFFICES ASSUME NEW w \in Kinds, NEW o \in Tasks
             PROVE  users'[w][o] = Cardinality(Holders(w, o)')
  OBVIOUS
<1> DEFINE S == Holders(w, o)
           T == Holders(w, o)'
<1>1. /\ users[w][o] = Cardinality(S) /\ IsFiniteSet(S) /\ Cardinality(S) \in Nat
      /\ S \subseteq Tasks /\ T \subseteq Tasks /\ IsFiniteSet(T)
  <2>1. S \subseteq Tasks /\ T \subseteq Tasks
    BY DEF Holders
  <2>2. users[w][o] = Cardinality(S)
    BY DEF RefCounts, Holders, Holds
  <2>3. IsFiniteSet(S) /\ IsFiniteSet(T)
    BY <2>1, TaskFacts, FS_Subset
  <2> QED
    BY <2>1, <2>2, <2>3, FS_CardinalityType
<1>2. \A u \in Tasks : u # c => (u \in T <=> u \in S)
  BY DEF Holders
<1>3. (c \in S <=> Holds(c, w, o)) /\ (c \in T <=> Holds(c, w, o)')
  BY DEF Holders
<1> HIDE DEF S, T
<1>4. CASE users'[w][o] = users[w][o] /\ (Holds(c, w, o)' <=> Holds(c, w, o))
  <2>1. c \in T <=> c \in S
    BY <1>3, <1>4
  <2>2. T \subseteq S /\ S \subseteq T
    BY <1>1, <1>2, <2>1
  <2>3. T = S
    BY <2>2
  <2> QED
    BY <1>1, <1>4, <2>3 DEF T
<1>5. CASE users'[w][o] = users[w][o] + 1 /\ Holds(c, w, o)' /\ ~Holds(c, w, o)
  <2>1. T = S \cup {c} /\ c \notin S
    BY <1>1, <1>2, <1>3, <1>5
  <2>2. Cardinality(T) = Cardinality(S) + 1
    BY <1>1, <2>1, FS_AddElement
  <2> QED
    BY <1>1, <1>5, <2>2 DEF T
<1>6. CASE users'[w][o] = users[w][o] - 1 /\ ~Holds(c, w, o)' /\ Holds(c, w, o)
  <2>1. T = S \ {c} /\ c \in S
    BY <1>1, <1>2, <1>3, <1>6
  <2>2. Cardinality(T) = Cardinality(S) - 1
    BY <1>1, <2>1, FS_RemoveElement
  <2> QED
    BY <1>1, <1>6, <2>2 DEF T
<1> QED
  BY <1>4, <1>5, <1>6 DEF Recounted

---------------------------------------------------------------------------

LEMMA PairCounted ==
  ASSUME NEW a, NEW b, a # b
  PROVE  Cardinality({a, b}) = 2
<1>1. IsFiniteSet({a}) /\ Cardinality({a}) = 1 /\ b \notin {a}
  BY FS_Singleton
<1>2. Cardinality({a} \cup {b}) = Cardinality({a}) + 1
  BY <1>1, FS_AddElement
<1>3. {a} \cup {b} = {a, b}
  OBVIOUS
<1> QED
  BY <1>1, <1>2, <1>3

LEMMA InitCounts ==
  ASSUME TaskInit
  PROVE  CountInv
<1>1. /\ MAX_PID \in Nat \ {0, 1}
      /\ {0, 1, 2} \subseteq Tasks /\ \A t \in Tasks : t \in Nat /\ (t <= 2 <=> t \in {0, 1, 2})
  BY TaskListsAssumption DEF Tasks
<1>2. Types
  <2>1. /\ stage \in [Tasks -> {"none", "new", "running", "zombie", "dead"}]
        /\ own \in [Tasks -> [Kinds -> Tasks]]
        /\ users \in [Kinds -> [Tasks -> Int]] /\ nr_threads \in Int
    BY <1>1 DEF TaskInit
  <2>2. /\ at \in [Tasks -> no .. link] /\ child \in [Tasks -> Tasks]
        /\ flags \in [Tasks -> SUBSET Flags]
    BY <1>1, KindFacts DEF TaskInit
  <2>3. parent \in [Tasks -> Tasks] /\ leader \in [Tasks -> Tasks]
    BY <1>1 DEF TaskInit, Reaper, init_task
  <2> QED
    BY <2>1, <2>2, <2>3 DEF Types
<1>3. Makers /\ Owners
  BY <1>1, KindFacts DEF TaskInit, Makers, Owners, init_task, Reaper
<1>4. RefCounts
  <2>1. /\ \A t \in Tasks : stage[t] = IF t <= 2 THEN "running" ELSE "none"
        /\ \A t \in Tasks, w \in Kinds : own[t][w] = t
        /\ \A t \in Tasks, w \in Kinds : users[w][t] = IF t <= 2 THEN 1 ELSE 0
        /\ nr_threads = 2
    BY DEF TaskInit
  <2>2. \A w \in Kinds, o \in Tasks : {t \in Tasks : w \in Taken(t) /\ own[t][w] = o}
                                   = IF o <= 2 THEN {o} ELSE {}
    <3> SUFFICES ASSUME NEW w \in Kinds, NEW o \in Tasks
                 PROVE  {t \in Tasks : w \in Taken(t) /\ own[t][w] = o}
                        = IF o <= 2 THEN {o} ELSE {}
      OBVIOUS
    <3>1. ASSUME NEW t \in Tasks
          PROVE  w \in Taken(t) <=> t <= 2
      <4>1. /\ stage[t] = "running" => Taken(t) = Kinds
            /\ stage[t] = "none" => Taken(t) = {}
        BY DEF Taken
      <4>2. stage[t] = IF t <= 2 THEN "running" ELSE "none"
        BY <2>1
      <4>3. CASE t <= 2
        BY <4>1, <4>2, <4>3
      <4>4. CASE ~(t <= 2)
        BY <4>1, <4>2, <4>4
      <4> QED
        BY <4>3, <4>4
    <3>2. \A t \in Tasks : own[t][w] = t
      BY <2>1
    <3>3. CASE o <= 2
      BY <3>1, <3>2, <3>3
    <3>4. CASE ~(o <= 2)
      BY <3>1, <3>2, <3>4
    <3> QED
      BY <3>3, <3>4
  <2>3. Cardinality({}) = 0 /\ \A o : Cardinality({o}) = 1
    BY FS_EmptySet, FS_Singleton
  <2>4. {t \in Tasks \ {init_task} : Linked(t)} = {1, 2}
    BY <1>1, <2>1 DEF Linked, init_task
  <2>5. Cardinality({1, 2}) = 2
    <3>1. \A a, b : a # b => Cardinality({a, b}) = 2
      BY PairCounted
    <3>2. \E a, b : a = 1 /\ b = 2 /\ a # b
      OBVIOUS
    <3> QED
      BY <3>1, <3>2
  <2>6. \A w \in Kinds, o \in Tasks :
          users[w][o] = Cardinality({t \in Tasks : w \in Taken(t) /\ own[t][w] = o})
    <3> SUFFICES ASSUME NEW w \in Kinds, NEW o \in Tasks
                 PROVE  users[w][o] = Cardinality({t \in Tasks : w \in Taken(t) /\ own[t][w] = o})
      OBVIOUS
    <3>1. CASE o <= 2
      <4>1. {t \in Tasks : w \in Taken(t) /\ own[t][w] = o} = {o}
        BY <2>2, <3>1
      <4> QED
        BY <2>1, <2>3, <3>1, <4>1
    <3>2. CASE ~(o <= 2)
      <4>1. {t \in Tasks : w \in Taken(t) /\ own[t][w] = o} = {}
        BY <2>2, <3>2
      <4> QED
        BY <2>1, <2>3, <3>2, <4>1
    <3> QED
      BY <3>1, <3>2
  <2> QED
    BY <2>1, <2>4, <2>5, <2>6 DEF RefCounts
<1> QED
  BY <1>2, <1>3, <1>4 DEF CountInv

(* A step that changes nothing of this, and the first steps of a fork.     *)
LEMMA SameCounts ==
  ASSUME CountInv, UNCHANGED <<stage, own, users, nr_threads, at, child, flags, tree>>
  PROVE  CountInv'
<1>1. Types' /\ Makers' /\ Owners'
  BY DEF CountInv, Types, Makers, Owners, tree
<1>2. \A t \in Tasks : Taken(t)' = Taken(t)
  BY DEF Taken, Maker, Copied, Counted, Shares
<1>3. RefCounts'
  BY <1>2 DEF CountInv, RefCounts, Linked
<1> QED
  BY <1>1, <1>3 DEF CountInv

LEMMA NothingYet ==
  ASSUME NEW m \in Tasks, at[m] \in {limit, creds, creds + 1}
  PROVE  TakenBy(m) = {}
<1>1. Copied(m) = {}
  BY KindFacts DEF Copied
<1> QED
  BY <1>1 DEF TakenBy

LEMMA DupCounts ==
  ASSUME CountInv, NEW t \in Tasks, Dup(t)
  PROVE  CountInv'
<1> USE DEF CountInv
<1>1. PICK f \in Calls, c \in Tasks :
        /\ stage[t] = "running" /\ at[t] = no /\ stage[c] = "none"
        /\ at' = [at EXCEPT ![t] = limit] /\ child' = [child EXCEPT ![t] = c]
        /\ flags' = [flags EXCEPT ![t] = f]
        /\ stage' = [stage EXCEPT ![c] = "new"]
        /\ own' = [own EXCEPT ![c] = own[t]]
        /\ parent' = [parent EXCEPT ![c] = parent[t]] /\ leader' = [leader EXCEPT ![c] = leader[t]]
        /\ UNCHANGED <<users, nr_threads, tasks, children>>
  BY DEF Dup, Calling, counts
<1>2. f \in SUBSET Flags /\ limit # no /\ limit \in no .. link
  BY TaskListsAssumption, KindFacts
<1>3. Types'
  BY <1>1, <1>2 DEF Types
<1>4. Makers'
  <2>1. /\ \A u \in Tasks : at'[u] = (IF u = t THEN limit ELSE at[u])
        /\ \A u \in Tasks : child'[u] = (IF u = t THEN c ELSE child[u])
        /\ \A u \in Tasks : stage'[u] = (IF u = c THEN "new" ELSE stage[u])
        /\ \A u \in Tasks : leader'[u] = (IF u = c THEN leader[t] ELSE leader[u])
    BY <1>1 DEF Types
  <2>2. \A u \in Tasks : at[u] # no => child[u] # c /\ u # c /\ u # t
    BY <1>1 DEF Makers
  <2>3. /\ stage'[init_task] = "running" /\ stage'[Reaper] = "running" /\ leader'[Reaper] = Reaper
        /\ stage'[t] = "running" /\ t # c
    BY <1>1, <2>1, TaskFacts DEF Makers
  <2>4. \A u \in Tasks : at'[u] # no => stage'[u] = "running" /\ stage'[child'[u]] = "new"
    BY <1>1, <2>1, <2>2, <2>3 DEF Makers, Types
  <2>5. \A u, v \in Tasks : at'[u] # no /\ at'[v] # no /\ child'[u] = child'[v] => u = v
    BY <2>1, <2>2 DEF Makers
  <2>6. \A d \in Tasks : stage'[d] = "new" => \E m \in Tasks : at'[m] # no /\ child'[m] = d
    <3> SUFFICES ASSUME NEW d \in Tasks, stage'[d] = "new"
                 PROVE  \E m \in Tasks : at'[m] # no /\ child'[m] = d
      OBVIOUS
    <3>1. CASE d = c
      BY <1>2, <2>1, <3>1
    <3>2. CASE d # c
      <4>1. PICK m \in Tasks : at[m] # no /\ child[m] = d
        BY <2>1, <3>2 DEF Makers
      <4> QED
        BY <2>1, <2>2, <4>1
    <3> QED
      BY <3>1, <3>2
  <2> QED
    BY <2>3, <2>4, <2>5, <2>6 DEF Makers
<1>5. Owners'
  <2>1. /\ \A u \in Tasks : stage'[u] = (IF u = c THEN "new" ELSE stage[u])
        /\ \A u \in Tasks : own'[u] = (IF u = c THEN own[t] ELSE own[u])
    BY <1>1 DEF Types
  <2>2. \A u \in Tasks, w \in Kinds : own[u][w] \in Tasks
    BY DEF Types
  <2>3. \A w \in Kinds : stage'[own[t][w]] \in {"running", "zombie", "dead"}
    BY <1>1, <2>1, <2>2 DEF Owners
  <2>4. \A u \in Tasks \ {c}, w \in Kinds :
           own[u][w] = u \/ stage'[own[u][w]] \in {"running", "zombie", "dead"}
    BY <1>1, <2>1, <2>2 DEF Owners
  <2> QED
    BY <2>1, <2>3, <2>4 DEF Owners
<1>6. Taken(c)' = {} /\ Taken(c) = {}
  <2>1. at'[t] = limit /\ child'[t] = c
    BY <1>1 DEF Types
  <2>2. Taken(c)' = TakenBy(t)'
    BY <1>2, <1>4, <2>1, TakenNext
  <2>3. TakenBy(t)' = {}
    BY <2>1, KindFacts DEF TakenBy, Copied
  <2> QED
    BY <1>1, <2>2, <2>3 DEF Taken
<1>7. \A u \in Tasks \ {c} : Taken(u)' = Taken(u)
  BY <1>1, <1>4, OthersKeep DEF Types
<1>8. \A u \in Tasks \ {c} : own'[u] = own[u]
  BY <1>1 DEF Types
<1>9. \A w \in Kinds, o \in Tasks : users'[w][o] = Cardinality(Holders(w, o)')
  <2>1. \A u \in Tasks \ {c}, w \in Kinds, o \in Tasks : Holds(u, w, o)' <=> Holds(u, w, o)
    BY <1>7, <1>8 DEF Holds
  <2>2. \A w \in Kinds, o \in Tasks : Recounted(c, w, o)
    BY <1>1, <1>6 DEF Holds, Recounted
  <2>3. users' \in [Kinds -> [Tasks -> Int]]
    BY <1>3 DEF Types
  <2> QED
    BY <2>1, <2>2, <2>3, Recount
<1>10. nr_threads' = Cardinality(Others')
  <2>1. Others' = Others
    BY <1>1 DEF Types, Others, Linked
  <2> QED
    BY <1>1, <2>1 DEF RefCounts, Others
<1> QED
  BY <1>3, <1>4, <1>5, <1>9, <1>10 DEF RefCounts, Holders, Holds, Others

(* A fork that fails gives back what the new task has taken.               *)
LEMMA GiveCounts ==
  ASSUME CountInv, NEW t \in Tasks, at[t] # no, Give(t),
         users' = Undone(t, TakenBy(t)), UNCHANGED nr_threads
  PROVE  CountInv'
<1> USE DEF CountInv
<1>1. PICK c \in Tasks : c = child[t]
  BY DEF Types
<1>2. /\ at' = [at EXCEPT ![t] = no] /\ child' = [child EXCEPT ![t] = t]
      /\ flags' = [flags EXCEPT ![t] = {}]
      /\ stage' = [stage EXCEPT ![c] = "none"]
      /\ own' = [own EXCEPT ![c] = [w \in Kinds |-> c]]
      /\ parent' = [parent EXCEPT ![c] = init_task] /\ leader' = [leader EXCEPT ![c] = c]
      /\ UNCHANGED <<tasks, children>>
  BY <1>1 DEF Give
<1>3. /\ users \in [Kinds -> [Tasks -> Int]] /\ own \in [Tasks -> [Kinds -> Tasks]]
      /\ stage[c] = "new" /\ TakenBy(t) \subseteq Kinds
  BY <1>1 DEF Types, Makers, TakenBy
<1>4. \A w \in Kinds : users'[w] = IF w \in TakenBy(t) THEN Put(users[w], own[c][w])
                                  ELSE users[w]
  BY <1>1 DEF Undone
<1>5. users' \in [Kinds -> [Tasks -> Int]]
  <2>1. \A w \in Kinds : users'[w] \in [Tasks -> Int]
    <3> SUFFICES ASSUME NEW w \in Kinds
                 PROVE  users'[w] \in [Tasks -> Int]
      OBVIOUS
    <3>1. users[w] \in [Tasks -> Int] /\ own[c][w] \in Tasks
      BY <1>3
    <3>2. users[w][own[c][w]] - 1 \in Int
      BY <3>1
    <3>3. CASE w \in TakenBy(t)
      BY <1>4, <3>1, <3>2, <3>3 DEF Put
    <3>4. CASE w \notin TakenBy(t)
      BY <1>4, <3>1, <3>4
    <3> QED
      BY <3>3, <3>4
  <2>2. users' = [w \in Kinds |-> users'[w]]
    BY DEF Undone
  <2> QED
    BY <2>1, <2>2
<1>6. Types'
  <2>1. [w \in Kinds |-> c] \in [Kinds -> Tasks] /\ no \in no .. link
    BY KindFacts
  <2>2. own' \in [Tasks -> [Kinds -> Tasks]]
    BY <1>2, <1>3, <2>1
  <2>3. at' \in [Tasks -> no .. link]
    BY <1>2, <2>1 DEF Types
  <2>4. parent' \in [Tasks -> Tasks]
    BY <1>2, TaskFacts DEF Types
  <2> QED
    BY <1>2, <1>5, <2>2, <2>3, <2>4 DEF Types
<1>7. Makers'
  BY <1>1, <1>2, TaskFacts DEF Types, Makers
<1>8. Owners'
  <2>1. /\ \A u \in Tasks : stage'[u] = (IF u = c THEN "none" ELSE stage[u])
        /\ \A u \in Tasks \ {c} : own'[u] = own[u]
        /\ \A w \in Kinds : own'[c][w] = c
    BY <1>2 DEF Types
  <2>2. \A u \in Tasks, w \in Kinds : own[u][w] \in Tasks
    BY DEF Types
  <2>3. \A u \in Tasks \ {c}, w \in Kinds :
           own[u][w] = u \/ stage'[own[u][w]] \in {"running", "zombie", "dead"}
    BY <1>3, <2>1, <2>2 DEF Owners
  <2> QED
    BY <2>1, <2>3 DEF Owners
<1>9. Taken(c)' = {} /\ Taken(c) = TakenBy(t)
  <2>1. stage'[c] = "none"
    BY <1>2 DEF Types
  <2> QED
    BY <1>1, <2>1, TakenCases DEF Taken
<1>10. \A u \in Tasks \ {c} : Taken(u)' = Taken(u)
  BY <1>1, <1>2, <1>7, OthersKeep DEF Types
<1>11. \A u \in Tasks \ {c} : own'[u] = own[u]
  BY <1>2 DEF Types
<1>12. ASSUME NEW w \in Kinds, NEW o \in Tasks
       PROVE  Recounted(c, w, o)
  <2>1. ~Holds(c, w, o)' /\ (Holds(c, w, o) <=> w \in TakenBy(t) /\ own[c][w] = o)
    BY <1>9 DEF Holds
  <2>2. users'[w][o] = IF w \in TakenBy(t) /\ own[c][w] = o THEN users[w][o] - 1 ELSE users[w][o]
    BY <1>3, <1>4 DEF Put
  <2> QED
    BY <2>1, <2>2 DEF Recounted
<1>13. \A w \in Kinds, o \in Tasks : users'[w][o] = Cardinality(Holders(w, o)')
  BY <1>5, <1>10, <1>11, <1>12, Recount DEF Holds
<1>14. nr_threads' = Cardinality(Others')
  <2>1. Others' = Others
    BY <1>2, <1>3 DEF Types, Others, Linked
  <2> QED
    BY <2>1 DEF RefCounts, Others
<1> QED
  BY <1>6, <1>7, <1>8, <1>13, <1>14 DEF RefCounts, Holders, Holds, Others

(* A fork goes on, past the checks that take nothing.                      *)
LEMMA CheckCounts ==
  ASSUME CountInv, NEW t \in Tasks, at[t] \in {limit, creds}, Goto(t, at[t] + 1),
         UNCHANGED <<stage, own, users, nr_threads, tree>>
  PROVE  CountInv'
<1> USE DEF CountInv
<1>1. /\ at[t] + 1 \in {creds, creds + 1} /\ at[t] + 1 \in no .. link
      /\ at[t] # no /\ at[t] + 1 # no
  BY KindFacts
<1>2. /\ \A u \in Tasks : at'[u] = (IF u = t THEN at[t] + 1 ELSE at[u])
      /\ UNCHANGED <<stage, own, users, nr_threads, child, flags, parent, leader, tasks, children>>
  BY DEF Types, Goto, tree
<1>3. Types'
  <2>1. at' \in [Tasks -> no .. link]
    BY <1>1 DEF Types, Goto
  <2> QED
    BY <1>2, <2>1 DEF Types
<1>4. Makers' /\ Owners'
  BY <1>1, <1>2 DEF Makers, Owners
<1>5. PICK c \in Tasks : c = child[t]
  BY DEF Types
<1>6. \A u \in Tasks \ {c} : Taken(u)' = Taken(u)
  <2>1. \A m \in Tasks : at[m] # no /\ child[m] # c => at'[m] = at[m]
    BY <1>2, <1>5
  <2> QED
    BY <1>2, <1>4, <2>1, OthersKeep
<1>7. Taken(c)' = {} /\ Taken(c) = {}
  <2>1. Taken(c) = TakenBy(t) /\ TakenBy(t) = {}
    BY <1>1, <1>5, TakenCases, NothingYet
  <2>2. at'[t] \in {creds, creds + 1} /\ at'[t] # no /\ child'[t] = c
    BY <1>1, <1>2, <1>5
  <2>3. Taken(c)' = TakenBy(t)'
    BY <1>4, <2>2, TakenNext
  <2>4. TakenBy(t)' = {}
    BY <2>2, KindFacts DEF TakenBy, Copied
  <2> QED
    BY <2>1, <2>3, <2>4
<1>8. RefCounts'
  BY <1>2, <1>6, <1>7 DEF RefCounts, Linked
<1> QED
  BY <1>3, <1>4, <1>8

(* A copy: one more kind has been taken, an object is shared or a new one  *)
(* is made.                                                                *)
LEMMA CopyCounts ==
  ASSUME CountInv, NEW t \in Tasks, Copy(t)
  PROVE  CountInv'
<1> USE DEF CountInv
<1>1. PICK c \in Tasks, w \in Kinds : c = child[t] /\ w = Kind(t)
  <2>1. at[t] - creds \in 1 .. 5
    BY KindFacts DEF Types, Copy
  <2>2. Kind(t) \in Kinds
    BY <2>1, KindFacts DEF Kind
  <2>3. child[t] \in Tasks
    BY DEF Types
  <2> QED
    BY <2>2, <2>3
<1>2. /\ at[t] \in 3 .. 7 /\ at[t] # no /\ at[t] + 1 # no /\ at[t] + 1 \in no .. link
      /\ at' = [at EXCEPT ![t] = at[t] + 1]
      /\ UNCHANGED <<stage, nr_threads, child, flags, parent, leader, tasks, children>>
      /\ Shares(t, w) => UNCHANGED own
      /\ Shares(t, w) /\ Counted(t, w) =>
           users' = [users EXCEPT ![w] = Get(@, own[c][w])]
      /\ Shares(t, w) /\ ~Counted(t, w) => UNCHANGED users
      /\ ~Shares(t, w) => own' = [own EXCEPT ![c][w] = c]
      /\ ~Shares(t, w) => users' = [users EXCEPT ![w] = [@ EXCEPT ![c] = 1]]
  BY <1>1, KindFacts DEF Copy, Goto, tree
<1>3. /\ \A u \in Tasks : at'[u] = (IF u = t THEN at[t] + 1 ELSE at[u])
      /\ users \in [Kinds -> [Tasks -> Int]] /\ own \in [Tasks -> [Kinds -> Tasks]]
      /\ own[c] \in [Kinds -> Tasks] /\ own[c][w] \in Tasks /\ users[w] \in [Tasks -> Int]
      /\ stage[c] = "new"
  <2>1. \A u \in Tasks : at'[u] = (IF u = t THEN at[t] + 1 ELSE at[u])
    BY <1>2 DEF Types
  <2>2. users \in [Kinds -> [Tasks -> Int]] /\ own \in [Tasks -> [Kinds -> Tasks]]
    BY DEF Types
  <2>3. stage[c] = "new"
    BY <1>1, <1>2 DEF Makers
  <2> QED
    BY <2>1, <2>2, <2>3
<1>4. /\ \A u \in Tasks \ {c} : own'[u] = own[u]
      /\ \A l \in Kinds \ {w} : own'[c][l] = own[c][l]
      /\ own'[c][w] = IF Shares(t, w) THEN own[c][w] ELSE c
      /\ own' \in [Tasks -> [Kinds -> Tasks]]
  <2>1. CASE Shares(t, w)
    BY <1>2, <1>3, <2>1
  <2>2. CASE ~Shares(t, w)
    <3>1. own' = [own EXCEPT ![c] = [own[c] EXCEPT ![w] = c]]
      BY <1>2, <2>2
    <3>2. [own[c] EXCEPT ![w] = c] \in [Kinds -> Tasks]
      BY <1>3
    <3> QED
      BY <1>3, <2>2, <3>1, <3>2
  <2> QED
    BY <2>1, <2>2
<1>5. /\ \A l \in Kinds, o \in Tasks :
           users'[l][o] = IF l # w THEN users[l][o]
                          ELSE IF Shares(t, w)
                                 THEN IF o = own[c][w] /\ Counted(t, w) THEN users[l][o] + 1 ELSE users[l][o]
                                 ELSE IF o = c THEN 1 ELSE users[l][o]
      /\ users' \in [Kinds -> [Tasks -> Int]]
  <2>1. CASE Shares(t, w) /\ Counted(t, w)
    <3>1. users' = [users EXCEPT ![w] = Get(users[w], own[c][w])]
      BY <1>2, <2>1
    <3>2. Get(users[w], own[c][w]) \in [Tasks -> Int]
      BY <1>3 DEF Get
    <3> QED
      BY <1>3, <2>1, <3>1, <3>2 DEF Get
  <2>2. CASE Shares(t, w) /\ ~Counted(t, w)
    BY <1>2, <1>3, <2>2
  <2>3. CASE ~Shares(t, w)
    <3>1. users' = [users EXCEPT ![w] = [users[w] EXCEPT ![c] = 1]]
      BY <1>2, <2>3
    <3>2. [users[w] EXCEPT ![c] = 1] \in [Tasks -> Int]
      BY <1>3
    <3> QED
      BY <1>3, <2>3, <3>1, <3>2
  <2> QED
    BY <2>1, <2>2, <2>3
<1>6. Types'
  <2>1. at' \in [Tasks -> no .. link]
    BY <1>2 DEF Types
  <2> QED
    BY <1>2, <1>4, <1>5, <2>1 DEF Types
<1>7. Makers'
  <2>1. \A u \in Tasks : at'[u] # no <=> at[u] # no
    BY <1>2, <1>3
  <2> QED
    BY <1>2, <2>1 DEF Makers
<1>8. Owners'
  <2> SUFFICES ASSUME NEW u \in Tasks, NEW l \in Kinds
               PROVE  own'[u][l] = u \/ stage'[own'[u][l]] \in {"running", "zombie", "dead"}
    BY DEF Owners
  <2>1. own'[u][l] = own[u][l] \/ (u = c /\ own'[u][l] = c)
    BY <1>4
  <2>2. own[u][l] = u \/ stage[own[u][l]] \in {"running", "zombie", "dead"}
    BY DEF Owners
  <2> QED
    BY <1>2, <2>1, <2>2
<1>9. /\ w \notin Taken(c)
      /\ \A l \in Kinds : l \in Taken(c)' <=> l \in Taken(c) \/ (l = w /\ Counted(t, w))
  <2>1. Taken(c) = TakenBy(t)
    BY <1>1, <1>2, TakenCases
  <2>2. Taken(c)' = TakenBy(t)'
    <3>1. at'[t] # no /\ child'[t] = c
      BY <1>1, <1>2, <1>3
    <3> QED
      BY <1>7, <3>1, TakenNext
  <2>3. w = Order[at[t] - 2] /\ at[t] - 2 \in 1 .. 5
    <3>1. creds = 2 /\ w = Order[at[t] - creds]
      BY <1>1, KindFacts DEF Kind
    <3> QED
      BY <1>2, <3>1
  <2>4. Copied(t) = {Order[j] : j \in 1 .. at[t] - 3} /\ Copied(t)' = {Order[j] : j \in 1 .. at[t] - 2}
    <3>1. at[t] - creds - 1 = at[t] - 3 /\ at'[t] - creds - 1 = at[t] - 2
      BY <1>2, <1>3, KindFacts
    <3> QED
      BY <3>1 DEF Copied
  <2>5. \A j \in 1 .. at[t] - 2 : j \in 1 .. 5 /\ (j \in 1 .. at[t] - 3 \/ j = at[t] - 2)
    BY <1>2
  <2>6. w \notin Copied(t)
    <3> SUFFICES ASSUME NEW j \in 1 .. at[t] - 3, Order[j] = w
                 PROVE  FALSE
      BY <2>4
    <3>1. j \in 1 .. 5 /\ j # at[t] - 2
      BY <1>2
    <3> QED
      BY <2>3, <3>1, KindFacts
  <2>7. \A l \in Kinds : l \in Copied(t)' <=> l \in Copied(t) \/ l = w
    <3>1. \A j \in 1 .. at[t] - 3 : j \in 1 .. at[t] - 2
      BY <1>2
    <3>2. at[t] - 2 \in 1 .. at[t] - 2
      BY <1>2
    <3> QED
      BY <2>3, <2>4, <2>5, <3>1, <3>2
  <2>8. \A l \in Kinds : Counted(t, l)' <=> Counted(t, l)
    BY <1>2 DEF Counted, Shares
  <2> QED
    BY <2>1, <2>2, <2>6, <2>7, <2>8 DEF TakenBy
<1>10. \A u \in Tasks \ {c}, l \in Kinds, o \in Tasks : Holds(u, l, o)' <=> Holds(u, l, o)
  <2>1. \A m \in Tasks : at[m] # no /\ child[m] # c => at'[m] = at[m]
    BY <1>1, <1>3
  <2>2. \A u \in Tasks \ {c} : Taken(u)' = Taken(u)
    BY <1>2, <1>7, <2>1, OthersKeep
  <2> QED
    BY <1>4, <2>2 DEF Holds
<1>11. ASSUME Shares(t, w), NEW l \in Kinds, NEW o \in Tasks
       PROVE  Recounted(c, l, o)
  <2>1. own'[c][l] = own[c][l]
    BY <1>4, <1>11
  <2>2. CASE l = w /\ o = own[c][w] /\ Counted(t, w)
    BY <1>5, <1>9, <1>11, <2>1, <2>2 DEF Holds, Recounted
  <2>3. CASE ~(l = w /\ o = own[c][w] /\ Counted(t, w))
    BY <1>5, <1>9, <1>11, <2>1, <2>3 DEF Holds, Recounted
  <2> QED
    BY <2>2, <2>3
<1>12. ASSUME ~Shares(t, w), NEW l \in Kinds, NEW o \in Tasks
       PROVE  Recounted(c, l, o)
  <2>1. Counted(t, w)
    BY <1>12 DEF Counted
  <2>2. users[w][c] = 0
    <3>1. Holders(w, c) = {}
      <4>1. \A u \in Tasks : own[u][w] = c => u = c
        BY <1>3 DEF Owners
      <4> QED
        BY <1>9, <4>1 DEF Holders, Holds
    <3>2. users[w][c] = Cardinality(Holders(w, c))
      BY DEF RefCounts, Holders, Holds
    <3> QED
      BY <3>1, <3>2, FS_EmptySet
  <2>3. CASE l # w
    BY <1>4, <1>5, <1>9, <2>3 DEF Holds, Recounted
  <2>4. CASE l = w /\ o = c
    BY <1>4, <1>5, <1>9, <1>12, <2>1, <2>2, <2>4 DEF Holds, Recounted
  <2>5. CASE l = w /\ o # c
    BY <1>4, <1>5, <1>9, <1>12, <2>5 DEF Holds, Recounted
  <2> QED
    BY <2>3, <2>4, <2>5
<1>13. \A l \in Kinds, o \in Tasks : users'[l][o] = Cardinality(Holders(l, o)')
  <2>1. \A l \in Kinds, o \in Tasks : Recounted(c, l, o)
    BY <1>11, <1>12
  <2>2. users' \in [Kinds -> [Tasks -> Int]]
    BY <1>5
  <2> QED
    BY <1>10, <2>1, <2>2, Recount
<1>14. nr_threads' = Cardinality(Others')
  <2>1. Others' = Others
    BY <1>2 DEF Others, Linked
  <2> QED
    BY <1>2, <2>1 DEF RefCounts, Others
<1> QED
  BY <1>6, <1>7, <1>8, <1>13, <1>14 DEF RefCounts, Holders, Holds, Others

(* A new task becomes one that runs and has all it points to.              *)
LEMMA LinkCounts ==
  ASSUME CountInv, NEW t \in Tasks, NEW p \in Tasks, LinkTo(t, p)
  PROVE  CountInv'
<1> USE DEF CountInv
<1>1. PICK c \in Tasks : c = child[t]
  BY DEF Types
<1>2. /\ at[t] = 8 /\ at[t] # no
      /\ stage' = [stage EXCEPT ![c] = "running"]
      /\ parent' = [parent EXCEPT ![c] = p]
      /\ leader' = [leader EXCEPT ![c] = IF "THREAD" \in flags[t] THEN leader[t] ELSE c]
      /\ "THREAD" \in flags[t] =>
           /\ users' = [users EXCEPT !["signal"] = Get(@, own[c]["signal"])]
           /\ UNCHANGED <<tasks, children>>
      /\ "THREAD" \notin flags[t] =>
           /\ tasks' = Append(tasks, c)
           /\ children' = [children EXCEPT ![p] = Append(@, c)]
           /\ UNCHANGED users
      /\ nr_threads' = nr_threads + 1
      /\ at' = [at EXCEPT ![t] = no] /\ child' = [child EXCEPT ![t] = t]
      /\ flags' = [flags EXCEPT ![t] = {}]
      /\ UNCHANGED own
  BY <1>1, KindFacts DEF LinkTo
<1>3. /\ \A u \in Tasks : stage'[u] = (IF u = c THEN "running" ELSE stage[u])
      /\ \A u \in Tasks : at'[u] = (IF u = t THEN no ELSE at[u])
      /\ \A u \in Tasks \ {t} : child'[u] = child[u] /\ flags'[u] = flags[u]
      /\ stage[c] = "new" /\ c # init_task /\ c # Reaper
      /\ users \in [Kinds -> [Tasks -> Int]] /\ own \in [Tasks -> [Kinds -> Tasks]]
      /\ own[c] \in [Kinds -> Tasks] /\ "signal" \in Kinds /\ own[c]["signal"] \in Tasks
  <2>1. stage[c] = "new" /\ c # init_task /\ c # Reaper
    BY <1>1, <1>2 DEF Makers
  <2>2. /\ \A u \in Tasks : stage'[u] = (IF u = c THEN "running" ELSE stage[u])
        /\ \A u \in Tasks : at'[u] = (IF u = t THEN no ELSE at[u])
    BY <1>2 DEF Types
  <2>3. \A u \in Tasks \ {t} : child'[u] = child[u] /\ flags'[u] = flags[u]
    BY <1>2 DEF Types
  <2>4. users \in [Kinds -> [Tasks -> Int]] /\ own \in [Tasks -> [Kinds -> Tasks]]
    BY DEF Types
  <2>5. "signal" \in Kinds
    BY KindFacts
  <2>6. own[c] \in [Kinds -> Tasks] /\ own[c]["signal"] \in Tasks
    BY <2>4, <2>5
  <2> QED
    BY <2>1, <2>2, <2>3, <2>4, <2>5, <2>6
<1>4. /\ \A w \in Kinds, o \in Tasks :
           users'[w][o] = IF w = "signal" /\ "THREAD" \in flags[t] /\ o = own[c][w]
                          THEN users[w][o] + 1 ELSE users[w][o]
      /\ users' \in [Kinds -> [Tasks -> Int]]
  <2>1. CASE "THREAD" \in flags[t]
    <3>1. users' = [users EXCEPT !["signal"] = Get(users["signal"], own[c]["signal"])]
      BY <1>2, <2>1
    <3>2. Get(users["signal"], own[c]["signal"]) \in [Tasks -> Int]
      BY <1>3 DEF Get
    <3> QED
      BY <1>3, <2>1, <3>1, <3>2 DEF Get
  <2>2. CASE "THREAD" \notin flags[t]
    BY <1>2, <1>3, <2>2
  <2> QED
    BY <2>1, <2>2
<1>5. Types'
  <2>1. nr_threads' \in Int /\ no \in no .. link
    BY <1>2, KindFacts DEF Types
  <2>2. at' \in [Tasks -> no .. link]
    BY <1>2, <2>1 DEF Types
  <2>3. leader' \in [Tasks -> Tasks] /\ parent' \in [Tasks -> Tasks]
    BY <1>2 DEF Types
  <2> QED
    BY <1>2, <1>4, <2>1, <2>2, <2>3 DEF Types
<1>6. Makers'
  <2>1. ASSUME NEW u \in Tasks, at'[u] # no
        PROVE  at[u] # no /\ u # t /\ u # c /\ child[u] # c
    <3>1. u # t /\ at[u] # no
      BY <1>3, <2>1
    <3>2. child[u] # c /\ stage[u] = "running"
      BY <1>1, <1>2, <3>1 DEF Makers
    <3> QED
      BY <1>3, <3>1, <3>2
  <2>2. ASSUME NEW u \in Tasks, at'[u] # no
        PROVE  stage'[u] = "running" /\ stage'[child'[u]] = "new"
    <3>1. at[u] # no /\ u # t /\ u # c /\ child[u] # c
      BY <2>1, <2>2
    <3>2. stage[u] = "running" /\ stage[child[u]] = "new" /\ child[u] \in Tasks
      BY <3>1 DEF Makers, Types
    <3> QED
      BY <1>3, <3>1, <3>2
  <2>3. \A u, v \in Tasks : at'[u] # no /\ at'[v] # no /\ child'[u] = child'[v] => u = v
    BY <1>3, <2>1 DEF Makers
  <2>4. \A d \in Tasks : stage'[d] = "new" => \E m \in Tasks : at'[m] # no /\ child'[m] = d
    <3> SUFFICES ASSUME NEW d \in Tasks, stage'[d] = "new"
                 PROVE  \E m \in Tasks : at'[m] # no /\ child'[m] = d
      OBVIOUS
    <3>1. d # c /\ stage[d] = "new"
      BY <1>3
    <3>2. PICK m \in Tasks : at[m] # no /\ child[m] = d
      BY <3>1 DEF Makers
    <3>3. m # t
      BY <1>1, <3>1, <3>2
    <3> QED
      BY <1>3, <3>2, <3>3
  <2>5. stage'[init_task] = "running" /\ stage'[Reaper] = "running" /\ leader'[Reaper] = Reaper
    BY <1>2, <1>3, TaskFacts DEF Makers, Types
  <2> QED
    BY <2>2, <2>3, <2>4, <2>5 DEF Makers
<1>7. Owners'
  <2>1. \A u \in Tasks, w \in Kinds : own[u][w] \in Tasks
    BY <1>3
  <2>2. \A o \in Tasks : stage[o] \in {"running", "zombie", "dead"} =>
                         stage'[o] \in {"running", "zombie", "dead"}
    BY <1>3
  <2>3. own' = own
    BY <1>2
  <2> QED
    BY <2>1, <2>2, <2>3 DEF Owners
<1>8. /\ Taken(c)' = Kinds
      /\ \A w \in Kinds : w \in Taken(c) <=> ~(w = "signal" /\ "THREAD" \in flags[t])
  <2>1. Taken(c)' = Kinds
    BY <1>3 DEF Taken
  <2>2. Taken(c) = TakenBy(t)
    BY <1>1, <1>2, TakenCases
  <2>3. Copied(t) = {Order[j] : j \in 1 .. 5}
    <3>1. at[t] - creds - 1 = 5
      BY <1>2, KindFacts
    <3> QED
      BY <3>1 DEF Copied
  <2>4. \A w \in Kinds : w \in Copied(t)
    BY <2>3, KindFacts
  <2>5. \A w \in Kinds : Counted(t, w) <=> ~(w = "signal" /\ "THREAD" \in flags[t])
    BY KindFacts DEF Counted, Shares
  <2> QED
    BY <2>1, <2>2, <2>4, <2>5 DEF TakenBy
<1>9. \A u \in Tasks \ {c}, w \in Kinds, o \in Tasks : Holds(u, w, o)' <=> Holds(u, w, o)
  <2>1. \A m \in Tasks : at[m] # no /\ child[m] # c =>
           at'[m] = at[m] /\ child'[m] = child[m] /\ flags'[m] = flags[m]
    BY <1>1, <1>3
  <2>2. \A u \in Tasks \ {c} : Taken(u)' = Taken(u)
    BY <1>3, <1>6, <2>1, OthersKeep
  <2> QED
    BY <1>2, <2>2 DEF Holds
<1>10. \A w \in Kinds, o \in Tasks : Recounted(c, w, o)
  <2> SUFFICES ASSUME NEW w \in Kinds, NEW o \in Tasks
               PROVE  Recounted(c, w, o)
    OBVIOUS
  <2>1. CASE w = "signal" /\ "THREAD" \in flags[t] /\ o = own[c][w]
    BY <1>2, <1>4, <1>8, <2>1 DEF Recounted, Holds
  <2>2. CASE ~(w = "signal" /\ "THREAD" \in flags[t] /\ o = own[c][w])
    BY <1>2, <1>4, <1>8, <2>2 DEF Recounted, Holds
  <2> QED
    BY <2>1, <2>2
<1>11. \A w \in Kinds, o \in Tasks : users'[w][o] = Cardinality(Holders(w, o)')
  <2>1. users' \in [Kinds -> [Tasks -> Int]]
    BY <1>4
  <2> QED
    BY <1>9, <1>10, <2>1, Recount
<1>12. nr_threads' = Cardinality(Others')
  <2>1. Others' = Others \cup {c} /\ c \notin Others
    BY <1>3 DEF Others, Linked
  <2>2. IsFiniteSet(Others)
    BY TaskFacts, FS_Subset DEF Others
  <2>3. Cardinality(Others \cup {c}) = Cardinality(Others) + 1
    BY <2>1, <2>2, FS_AddElement
  <2> QED
    BY <1>2, <2>1, <2>3 DEF RefCounts, Others
<1> QED
  BY <1>5, <1>6, <1>7, <1>11, <1>12 DEF RefCounts, Holders, Holds, Others

(* A task ends: a thread gives up everything, a leader keeps its signals.  *)
LEMMA ExitCounts ==
  ASSUME CountInv, NEW t \in Tasks, Exit(t)
  PROVE  CountInv'
<1> USE DEF CountInv
<1> DEFINE thread == leader[t] # t
           put == Kinds \ (IF thread THEN {} ELSE {"signal"})
           S == IF thread THEN {t} ELSE {}
<1>1. PICK a \in Adopters(t) :
        /\ stage[t] = "running" /\ at[t] = no /\ t > Reaper
        /\ users' = [w \in Kinds |-> IF w \in put THEN Put(users[w], own[t][w]) ELSE users[w]]
        /\ stage' = [u \in Tasks |-> IF u \in S THEN "dead" ELSE IF u = t THEN "zombie" ELSE stage[u]]
        /\ nr_threads' = nr_threads - Cardinality(S)
        /\ parent' = [c \in Tasks |-> IF parent[c] = t /\ Linked(c) THEN a ELSE parent[c]]
        /\ children' = [children EXCEPT ![a] = @ \o children[t], ![t] = <<>>]
        /\ UNCHANGED <<own, at, child, flags, leader, tasks>>
  BY DEF Exit, Gone, call
<1>2. /\ a \in Tasks /\ t # init_task /\ t # Reaper
      /\ \A u \in Tasks \ {t} : stage'[u] = stage[u]
      /\ stage'[t] = IF thread THEN "dead" ELSE "zombie"
      /\ users \in [Kinds -> [Tasks -> Int]] /\ own \in [Tasks -> [Kinds -> Tasks]]
      /\ "signal" \in Kinds
  <2>1. a \in Tasks
    BY TaskFacts DEF Adopters, Group
  <2>2. t # init_task /\ t # Reaper
    BY <1>1, TaskFacts DEF init_task, Reaper
  <2> QED
    BY <1>1, <2>1, <2>2, KindFacts DEF Types
<1>3. \A w \in Kinds : w \in put <=> thread \/ w # "signal"
  OBVIOUS
<1>4. S = {} \/ S = {t}
  OBVIOUS
<1>5. Cardinality(S) = IF thread THEN 1 ELSE 0
  BY FS_EmptySet, FS_Singleton
<1> HIDE DEF S, put
<1>6. /\ \A w \in Kinds, o \in Tasks :
           users'[w][o] = IF (thread \/ w # "signal") /\ o = own[t][w]
                          THEN users[w][o] - 1 ELSE users[w][o]
      /\ users' \in [Kinds -> [Tasks -> Int]]
  <2>1. ASSUME NEW w \in Kinds
        PROVE  /\ \A o \in Tasks : users'[w][o] = IF (thread \/ w # "signal") /\ o = own[t][w]
                                                  THEN users[w][o] - 1 ELSE users[w][o]
               /\ users'[w] \in [Tasks -> Int]
    <3>1. users[w] \in [Tasks -> Int] /\ own[t][w] \in Tasks /\ users[w][own[t][w]] \in Int
      BY <1>2
    <3>2. CASE w \in put
      <4>1. users'[w] = [users[w] EXCEPT ![own[t][w]] = users[w][own[t][w]] - 1]
        BY <1>1, <3>2 DEF Put
      <4>2. users[w][own[t][w]] - 1 \in Int
        BY <3>1
      <4>3. /\ users'[w] \in [Tasks -> Int]
            /\ \A o \in Tasks : users'[w][o] = IF o = own[t][w] THEN users[w][o] - 1 ELSE users[w][o]
        BY <3>1, <4>1, <4>2
      <4> QED
        BY <1>3, <3>2, <4>3
    <3>3. CASE w \notin put
      <4>1. users'[w] = users[w]
        BY <1>1, <3>3
      <4> QED
        BY <1>3, <3>1, <3>3, <4>1
    <3> QED
      BY <3>2, <3>3
  <2>2. users' = [w \in Kinds |-> users'[w]]
    BY <1>1
  <2> QED
    BY <2>1, <2>2
<1>7. Types'
  <2>1. stage' \in [Tasks -> {"none", "new", "running", "zombie", "dead"}]
    BY <1>1 DEF Types
  <2>2. nr_threads' \in Int
    BY <1>1, <1>5 DEF Types
  <2>3. parent' \in [Tasks -> Tasks]
    BY <1>1, <1>2 DEF Types
  <2> QED
    BY <1>1, <1>6, <2>1, <2>2, <2>3 DEF Types
<1>8. Makers'
  <2>1. \A m \in Tasks : at[m] # no => m # t /\ child[m] # t /\ child[m] \in Tasks
    BY <1>1 DEF Makers, Types
  <2>2. stage'[init_task] = "running" /\ stage'[Reaper] = "running" /\ leader'[Reaper] = Reaper
    BY <1>1, <1>2, TaskFacts DEF Makers
  <2>3. \A m \in Tasks : at'[m] # no => stage'[m] = "running" /\ stage'[child'[m]] = "new"
    BY <1>1, <1>2, <2>1 DEF Makers
  <2>4. \A c \in Tasks : stage'[c] = "new" => \E m \in Tasks : at'[m] # no /\ child'[m] = c
    <3>1. \A c \in Tasks : stage'[c] = "new" => stage[c] = "new"
      BY <1>2
    <3> QED
      BY <1>1, <3>1 DEF Makers
  <2>5. \A m, u \in Tasks : at'[m] # no /\ at'[u] # no /\ child'[m] = child'[u] => m = u
    BY <1>1 DEF Makers
  <2> QED
    BY <2>2, <2>3, <2>4, <2>5 DEF Makers
<1>9. Owners'
  <2>1. \A u \in Tasks, w \in Kinds : own[u][w] \in Tasks
    BY <1>2
  <2>2. \A o \in Tasks : stage[o] \in {"running", "zombie", "dead"} =>
                         stage'[o] \in {"running", "zombie", "dead"}
    BY <1>2
  <2>3. own' = own
    BY <1>1
  <2> QED
    BY <2>1, <2>2, <2>3 DEF Owners
<1>10. Taken(t) = Kinds /\ Taken(t)' = IF thread THEN {} ELSE {"signal"}
  BY <1>1, <1>2 DEF Taken
<1>11. \A u \in Tasks \ {t}, w \in Kinds, o \in Tasks : Holds(u, w, o)' <=> Holds(u, w, o)
  <2>1. \A u \in Tasks \ {t} : Taken(u)' = Taken(u)
    BY <1>1, <1>2, <1>8, OthersKeep
  <2> QED
    BY <1>1, <2>1 DEF Holds
<1>12. \A w \in Kinds, o \in Tasks : Recounted(t, w, o)
  <2> SUFFICES ASSUME NEW w \in Kinds, NEW o \in Tasks
               PROVE  Recounted(t, w, o)
    OBVIOUS
  <2>1. CASE (thread \/ w # "signal") /\ o = own[t][w]
    BY <1>1, <1>6, <1>10, <2>1 DEF Recounted, Holds
  <2>2. CASE ~((thread \/ w # "signal") /\ o = own[t][w])
    BY <1>1, <1>6, <1>10, <2>2 DEF Recounted, Holds
  <2> QED
    BY <2>1, <2>2
<1>13. \A w \in Kinds, o \in Tasks : users'[w][o] = Cardinality(Holders(w, o)')
  <2>1. users' \in [Kinds -> [Tasks -> Int]]
    BY <1>6
  <2> QED
    BY <1>11, <1>12, <2>1, Recount
<1>14. nr_threads' = Cardinality(Others')
  <2>1. IsFiniteSet(Others) /\ nr_threads = Cardinality(Others) /\ nr_threads \in Int
    BY TaskFacts, FS_Subset DEF Others, RefCounts, Types
  <2>2. CASE thread
    <3>1. Others' = Others \ {t} /\ t \in Others
      BY <1>1, <1>2, <2>2 DEF Others, Linked
    <3>2. Cardinality(Others \ {t}) = Cardinality(Others) - 1
      BY <2>1, <3>1, FS_RemoveElement
    <3> QED
      BY <1>1, <1>5, <2>1, <2>2, <3>1, <3>2
  <2>3. CASE ~thread
    <3>1. Others' = Others
      BY <1>1, <1>2, <2>3 DEF Others, Linked
    <3> QED
      BY <1>1, <1>5, <2>1, <2>3, <3>1
  <2> QED
    BY <2>2, <2>3
<1> QED
  BY <1>7, <1>8, <1>9, <1>13, <1>14 DEF RefCounts, Holders, Holds, Others

(* A leader that has ended is reaped.                                      *)
LEMMA ReapCounts ==
  ASSUME CountInv, NEW t \in Tasks, Reap(t)
  PROVE  CountInv'
<1> USE DEF CountInv
<1>1. /\ stage[t] = "zombie"
      /\ users' = [users EXCEPT !["signal"] = Put(users["signal"], own[t]["signal"])]
      /\ stage' = [u \in Tasks |-> IF u \in {t} THEN "dead" ELSE IF u = t THEN "dead" ELSE stage[u]]
      /\ nr_threads' = nr_threads - Cardinality({t})
      /\ tasks' = Delete(tasks, t)
      /\ children' = [children EXCEPT ![parent[t]] = Delete(@, t)]
      /\ UNCHANGED <<own, at, child, flags, leader, parent>>
  BY DEF Reap, Gone, call
<1>2. /\ t # init_task /\ t # Reaper
      /\ \A u \in Tasks \ {t} : stage'[u] = stage[u]
      /\ stage'[t] = "dead" /\ Cardinality({t}) = 1
      /\ users \in [Kinds -> [Tasks -> Int]] /\ own \in [Tasks -> [Kinds -> Tasks]]
      /\ "signal" \in Kinds
  <2>1. t # init_task /\ t # Reaper
    BY <1>1 DEF Makers
  <2> QED
    BY <1>1, <2>1, KindFacts, FS_Singleton DEF Types
<1>3. /\ \A w \in Kinds, o \in Tasks :
           users'[w][o] = IF w = "signal" /\ o = own[t][w] THEN users[w][o] - 1 ELSE users[w][o]
      /\ users' \in [Kinds -> [Tasks -> Int]]
  <2>1. users["signal"] \in [Tasks -> Int] /\ own[t]["signal"] \in Tasks
    BY <1>2
  <2>2. Put(users["signal"], own[t]["signal"]) \in [Tasks -> Int]
    BY <2>1 DEF Put
  <2> QED
    BY <1>1, <1>2, <2>1, <2>2 DEF Put
<1>4. Types'
  <2>1. stage' \in [Tasks -> {"none", "new", "running", "zombie", "dead"}]
    BY <1>1 DEF Types
  <2>2. nr_threads' \in Int
    BY <1>1, <1>2 DEF Types
  <2> QED
    BY <1>1, <1>3, <2>1, <2>2 DEF Types
<1>5. Makers'
  <2>1. \A m \in Tasks : at[m] # no => m # t /\ child[m] # t /\ child[m] \in Tasks
    BY <1>1 DEF Makers, Types
  <2>2. stage'[init_task] = "running" /\ stage'[Reaper] = "running" /\ leader'[Reaper] = Reaper
    BY <1>1, <1>2, TaskFacts DEF Makers
  <2>3. \A m \in Tasks : at'[m] # no => stage'[m] = "running" /\ stage'[child'[m]] = "new"
    BY <1>1, <1>2, <2>1 DEF Makers
  <2>4. \A c \in Tasks : stage'[c] = "new" => stage[c] = "new"
    BY <1>2
  <2> QED
    BY <1>1, <2>2, <2>3, <2>4 DEF Makers
<1>6. Owners'
  <2>1. \A u \in Tasks, w \in Kinds : own[u][w] \in Tasks
    BY <1>2
  <2>2. \A o \in Tasks : stage[o] \in {"running", "zombie", "dead"} =>
                         stage'[o] \in {"running", "zombie", "dead"}
    BY <1>2
  <2>3. own' = own
    BY <1>1
  <2> QED
    BY <2>1, <2>2, <2>3 DEF Owners
<1>7. Taken(t) = {"signal"} /\ Taken(t)' = {}
  BY <1>1, <1>2 DEF Taken
<1>8. \A u \in Tasks \ {t}, w \in Kinds, o \in Tasks : Holds(u, w, o)' <=> Holds(u, w, o)
  <2>1. \A u \in Tasks \ {t} : Taken(u)' = Taken(u)
    BY <1>1, <1>2, <1>5, OthersKeep
  <2> QED
    BY <1>1, <2>1 DEF Holds
<1>9. \A w \in Kinds, o \in Tasks : Recounted(t, w, o)
  BY <1>1, <1>3, <1>7 DEF Recounted, Holds
<1>10. \A w \in Kinds, o \in Tasks : users'[w][o] = Cardinality(Holders(w, o)')
  <2>1. users' \in [Kinds -> [Tasks -> Int]]
    BY <1>3
  <2> QED
    BY <1>8, <1>9, <2>1, Recount
<1>11. nr_threads' = Cardinality(Others')
  <2>1. IsFiniteSet(Others) /\ nr_threads = Cardinality(Others) /\ nr_threads \in Int
    BY TaskFacts, FS_Subset DEF Others, RefCounts, Types
  <2>2. Others' = Others \ {t} /\ t \in Others
    BY <1>1, <1>2 DEF Others, Linked
  <2>3. Cardinality(Others \ {t}) = Cardinality(Others) - 1
    BY <2>1, <2>2, FS_RemoveElement
  <2> QED
    BY <1>1, <1>2, <2>1, <2>2, <2>3
<1> QED
  BY <1>4, <1>5, <1>6, <1>10, <1>11 DEF RefCounts, Holders, Holds, Others

LEMMA NextCounts ==
  ASSUME CountInv, [TaskNext]_taskVars
  PROVE  CountInv'
<1>1. ASSUME NEW t \in Tasks, Refused(t)
      PROVE  CountInv'
  BY <1>1, SameCounts DEF Refused, counts, call
<1>2. ASSUME NEW t \in Tasks, Limit(t) \/ Creds(t)
      PROVE  CountInv'
  <2>1. /\ at[t] \in {limit, creds} /\ at[t] # no
        /\ UNCHANGED <<users, nr_threads>>
        /\ Give(t) \/ (Goto(t, at[t] + 1) /\ UNCHANGED <<stage, own, tree>>)
    BY <1>2, KindFacts DEF Limit, Creds, counts
  <2>2. CASE Give(t)
    <3>1. TakenBy(t) = {}
      BY <2>1, NothingYet
    <3>2. users = Undone(t, {})
      BY DEF CountInv, Types, Undone
    <3> QED
      BY <2>1, <2>2, <3>1, <3>2, GiveCounts
  <2>3. CASE Goto(t, at[t] + 1) /\ UNCHANGED <<stage, own, tree>>
    BY <2>1, <2>3, CheckCounts
  <2> QED
    BY <2>1, <2>2, <2>3
<1>3. ASSUME NEW t \in Tasks, Undo(t)
      PROVE  CountInv'
  <2>1. at[t] # no /\ Give(t) /\ UNCHANGED nr_threads
    BY <1>3, KindFacts DEF Undo
  <2>2. {w \in Copied(t) : Counted(t, w)} = TakenBy(t)
    <3>1. at[t] \in 3 .. 8
      BY <1>3, KindFacts DEF Undo
    <3>2. Copied(t) \subseteq Kinds
      BY <3>1, KindFacts DEF Copied
    <3> QED
      BY <3>2 DEF TakenBy
  <2>3. users' = Undone(t, TakenBy(t))
    BY <1>3, <2>2 DEF Undo
  <2> QED
    BY <2>1, <2>3, GiveCounts
<1>4. ASSUME NEW t \in Tasks, Link(t)
      PROVE  CountInv'
  <2>1. parent[t] \in Tasks
    BY DEF CountInv, Types
  <2> QED
    BY <1>4, <2>1, LinkCounts DEF Link
<1>5. CASE UNCHANGED taskVars \/ process_tracer \/ \E x \in Tasks : Ask(x)
  <2>1. UNCHANGED <<stage, own, counts, fork_count, call, tree>>
    BY <1>5 DEF taskVars, process_tracer, Find, Sibling, Child, Lose, Ask, Walk
  <2> QED
    BY <2>1, SameCounts DEF counts, call
<1> QED
  BY <1>1, <1>2, <1>3, <1>4, <1>5, DupCounts, CopyCounts, ExitCounts, ReapCounts DEF TaskNext

(* For any number of tasks, any flags and any limits: each object is       *)
(* counted once for every task that points to it and has taken it, however *)
(* many forks are under way and wherever they fail.                        *)
THEOREM CountsRight == TaskSpec => []RefCounts
<1>1. CountInv => RefCounts
  BY DEF CountInv
<1> QED
  BY <1>1, InitCounts, NextCounts, PTL DEF TaskSpec

---------------------------------------------------------------------------
(* Lists without repetition.                                               *)

LEMMA AppendList ==
  ASSUME NEW S, NEW s \in Seq(S), NEW e \in S, IsInjective(s), e \notin Range(s)
  PROVE  /\ Append(s, e) \in Seq(S) /\ IsInjective(Append(s, e))
         /\ Range(Append(s, e)) = Range(s) \cup {e} /\ Append(s, e) # <<>>
<1> DEFINE z == Append(s, e)
<1>1. /\ z \in Seq(S) /\ z # <<>> /\ Len(z) = Len(s) + 1
      /\ \A i \in 1 .. Len(s) : z[i] = s[i]
      /\ z[Len(s) + 1] = e
  BY AppendProperties
<1>2. /\ Len(s) \in Nat /\ DOMAIN s = 1 .. Len(s) /\ DOMAIN z = 1 .. Len(z)
  BY <1>1, LenProperties
<1> HIDE DEF z
<1>3. \A i \in DOMAIN z : (i \in DOMAIN s /\ z[i] = s[i]) \/ (i = Len(s) + 1 /\ z[i] = e)
  BY <1>1, <1>2
<1>4. \A i \in DOMAIN s : s[i] # e
  BY DEF Range
<1>5. IsInjective(z)
  BY <1>3, <1>4 DEF IsInjective
<1>6. \A i \in DOMAIN s : i \in DOMAIN z /\ z[i] = s[i]
  BY <1>1, <1>2
<1>7. Len(s) + 1 \in DOMAIN z
  BY <1>1, <1>2
<1>8. Range(z) = Range(s) \cup {e}
  BY <1>1, <1>3, <1>6, <1>7 DEF Range
<1> QED
  BY <1>1, <1>5, <1>8 DEF z

LEMMA ConcatList ==
  ASSUME NEW S, NEW s \in Seq(S), NEW z \in Seq(S), IsInjective(s), IsInjective(z),
         Range(s) \cap Range(z) = {}
  PROVE  /\ s \o z \in Seq(S) /\ IsInjective(s \o z)
         /\ Range(s \o z) = Range(s) \cup Range(z)
         /\ s = <<>> /\ z = <<>> => s \o z = <<>>
<1> DEFINE y == s \o z
<1>1. /\ y \in Seq(S) /\ Len(y) = Len(s) + Len(z)
      /\ \A i \in 1 .. Len(s) + Len(z) : y[i] = IF i <= Len(s) THEN s[i] ELSE z[i - Len(s)]
  BY ConcatProperties
<1>2. /\ Len(s) \in Nat /\ DOMAIN s = 1 .. Len(s)
      /\ Len(z) \in Nat /\ DOMAIN z = 1 .. Len(z) /\ DOMAIN y = 1 .. Len(y)
  BY <1>1, LenProperties
<1> HIDE DEF y
<1>3. ASSUME NEW i \in DOMAIN y
      PROVE  \/ i \in DOMAIN s /\ y[i] = s[i]
             \/ i - Len(s) \in DOMAIN z /\ y[i] = z[i - Len(s)] /\ i > Len(s)
  <2>0. i \in 1 .. Len(s) + Len(z)
    BY <1>1, <1>2
  <2>1. CASE i <= Len(s)
    BY <1>1, <1>2, <2>0, <2>1
  <2>2. CASE i > Len(s)
    <3>1. i - Len(s) \in 1 .. Len(z) /\ ~(i <= Len(s))
      BY <1>2, <2>0, <2>2
    <3> QED
      BY <1>1, <1>2, <2>0, <2>2, <3>1
  <2> QED
    BY <1>2, <2>0, <2>1, <2>2
<1>4. \A i \in DOMAIN s, j \in DOMAIN z : s[i] # z[j]
  BY DEF Range
<1>5. IsInjective(y)
  <2> SUFFICES ASSUME NEW i \in DOMAIN y, NEW j \in DOMAIN y, y[i] = y[j]
               PROVE  i = j
    BY DEF IsInjective
  <2>1. i \in Nat /\ j \in Nat
    BY <1>2
  <2> QED
    BY <1>2, <1>3, <1>4, <2>1 DEF IsInjective
<1>6. Range(y) = Range(s) \cup Range(z)
  BY RangeConcatenation DEF y
<1> QED
  BY <1>1, <1>5, <1>6, ConcatEmptySeq DEF y

LEMMA DeleteList ==
  ASSUME NEW S, NEW s \in Seq(S), NEW e \in Range(s), IsInjective(s)
  PROVE  /\ Delete(s, e) \in Seq(S) /\ IsInjective(Delete(s, e))
         /\ Range(Delete(s, e)) = Range(s) \ {e}
<1>1. PICK j \in DOMAIN s : s[j] = e
  BY DEF Range
<1>2. (CHOOSE i \in DOMAIN s : s[i] = e) = j
  BY <1>1 DEF IsInjective
<1>3. Len(s) \in Nat /\ DOMAIN s = 1 .. Len(s) /\ j \in 1 .. Len(s) /\ \A i \in 1 .. Len(s) : s[i] \in S
  BY <1>1, LenProperties, ElementOfSeq
<1> DEFINE b == SubSeq(s, 1, j - 1)
           c == SubSeq(s, j + 1, Len(s))
           y == b \o c
<1>4. /\ b \in Seq(S) /\ Len(b) = j - 1 /\ \A i \in 1 .. j - 1 : b[i] = s[i]
  <2>1. /\ j - 1 \in Int /\ \A i \in 1 .. j - 1 : s[i] \in S
        /\ (IF 1 <= j - 1 THEN j - 1 - 1 + 1 ELSE 0) = j - 1 /\ j - 1 - 1 + 1 = j - 1
        /\ \A i \in 1 .. j - 1 : 1 + i - 1 = i
    BY <1>3
  <2>2. /\ b \in Seq(S) /\ Len(b) = (IF 1 <= j - 1 THEN j - 1 - 1 + 1 ELSE 0)
        /\ \A i \in 1 .. j - 1 - 1 + 1 : b[i] = s[1 + i - 1]
    BY <2>1, SubSeqProperties
  <2> QED
    BY <2>1, <2>2
<1>5. /\ c \in Seq(S) /\ Len(c) = Len(s) - j /\ \A i \in 1 .. Len(s) - j : c[i] = s[i + j]
  <2>1. /\ j + 1 \in Int /\ Len(s) \in Int /\ \A i \in j + 1 .. Len(s) : s[i] \in S
        /\ (IF j + 1 <= Len(s) THEN Len(s) - (j + 1) + 1 ELSE 0) = Len(s) - j
        /\ Len(s) - (j + 1) + 1 = Len(s) - j
        /\ \A i \in 1 .. Len(s) - j : j + 1 + i - 1 = i + j
    BY <1>3
  <2>2. /\ c \in Seq(S) /\ Len(c) = (IF j + 1 <= Len(s) THEN Len(s) - (j + 1) + 1 ELSE 0)
        /\ \A i \in 1 .. Len(s) - (j + 1) + 1 : c[i] = s[j + 1 + i - 1]
    BY <2>1, SubSeqProperties, SMTT(30)
  <2> HIDE DEF c
  <2>3. ASSUME NEW i \in 1 .. Len(s) - j PROVE c[i] = s[i + j]
    <3>1. i \in 1 .. Len(s) - (j + 1) + 1 /\ j + 1 + i - 1 = i + j  BY <2>1
    <3> QED  BY <2>2, <3>1
  <2> QED
    BY <2>1, <2>2, <2>3
<1>6. Delete(s, e) = y
  BY <1>2 DEF Delete, RemoveAt
<1>7. /\ y \in Seq(S) /\ Len(y) = Len(s) - 1 /\ DOMAIN y = 1 .. Len(s) - 1
      /\ \A i \in 1 .. Len(s) - 1 : y[i] = IF i <= j - 1 THEN s[i] ELSE s[i + 1]
  <2> HIDE DEF b, c
  <2>1. /\ y \in Seq(S) /\ Len(y) = Len(b) + Len(c)
        /\ \A i \in 1 .. Len(b) + Len(c) : y[i] = IF i <= Len(b) THEN b[i] ELSE c[i - Len(b)]
    BY <1>4, <1>5, ConcatProperties
  <2>2. DOMAIN y = 1 .. Len(y)
    BY <2>1, LenProperties
  <2> HIDE DEF y
  <2>3. Len(b) + Len(c) = Len(s) - 1
    BY <1>3, <1>4, <1>5
  <2>4. ASSUME NEW i \in 1 .. Len(s) - 1
        PROVE  y[i] = IF i <= j - 1 THEN s[i] ELSE s[i + 1]
    <3>1. CASE i <= j - 1
      BY <1>3, <1>4, <2>1, <2>3, <3>1
    <3>2. CASE i > j - 1
      <4>1. i - (j - 1) \in 1 .. Len(s) - j /\ i - (j - 1) + j = i + 1
        BY <1>3, <3>2
      <4>2. y[i] = c[i - (j - 1)]
        BY <1>3, <1>4, <2>1, <2>3, <3>2
      <4>3. c[i - (j - 1)] = s[i - (j - 1) + j]
        BY <1>5, <4>1
      <4> QED
        BY <1>3, <3>2, <4>1, <4>2, <4>3
    <3> QED
      BY <1>3, <3>1, <3>2
  <2> QED
    BY <2>1, <2>2, <2>3, <2>4
<1> HIDE DEF y
<1>8. IsInjective(y)
  <2> SUFFICES ASSUME NEW i \in 1 .. Len(s) - 1, NEW w \in 1 .. Len(s) - 1, y[i] = y[w]
               PROVE  i = w
    BY <1>7 DEF IsInjective
  <2>1. \A m, n \in 1 .. Len(s) : s[m] = s[n] => m = n
    BY <1>3 DEF IsInjective
  <2>2. /\ i \in 1 .. Len(s) /\ i + 1 \in 1 .. Len(s)
        /\ w \in 1 .. Len(s) /\ w + 1 \in 1 .. Len(s)
    BY <1>3
  <2>3. (IF i <= j - 1 THEN i ELSE i + 1) = (IF w <= j - 1 THEN w ELSE w + 1)
    BY <1>7, <2>1, <2>2
  <2> QED
    BY <1>3, <2>3
<1>9. Range(y) = Range(s) \ {e}
  <2>1. ASSUME NEW i \in 1 .. Len(s) - 1
        PROVE  y[i] \in Range(s) /\ y[i] # e
    <3>1. \A m, n \in 1 .. Len(s) : s[m] = s[n] => m = n
      BY <1>3 DEF IsInjective
    <3>2. i \in 1 .. Len(s) /\ i + 1 \in 1 .. Len(s) /\ (i <= j - 1 => i # j) /\ (~(i <= j - 1) => i + 1 # j)
      BY <1>3
    <3>3. CASE i <= j - 1
      BY <1>1, <1>3, <1>7, <3>1, <3>2, <3>3 DEF Range
    <3>4. CASE ~(i <= j - 1)
      BY <1>1, <1>3, <1>7, <3>1, <3>2, <3>4 DEF Range
    <3> QED
      BY <3>3, <3>4
  <2>2. ASSUME NEW x \in Range(s), x # e
        PROVE  x \in Range(y)
    <3>1. PICK i \in 1 .. Len(s) : s[i] = x
      BY <1>3 DEF Range
    <3>2. i # j
      BY <1>1, <2>2, <3>1
    <3>3. CASE i < j
      <4>1. i \in 1 .. Len(s) - 1 /\ i <= j - 1
        BY <1>3, <3>3
      <4> QED
        BY <1>7, <3>1, <4>1 DEF Range
    <3>4. CASE i > j
      <4>1. i - 1 \in 1 .. Len(s) - 1 /\ ~(i - 1 <= j - 1) /\ i - 1 + 1 = i
        BY <1>3, <3>4
      <4> QED
        BY <1>7, <3>1, <4>1 DEF Range
    <3> QED
      BY <1>3, <3>2, <3>3, <3>4
  <2> QED
    BY <1>7, <2>1, <2>2 DEF Range
<1> QED
  BY <1>6, <1>7, <1>8, <1>9

---------------------------------------------------------------------------
(* The lists of tasks.                                                     *)

Lists == tasks \in Seq(Tasks) /\ children \in [Tasks -> Seq(Tasks)]

(* A group has one leader, who stays until the last of them has ended.     *)
Leaders ==
  /\ at[init_task] = no /\ leader[init_task] = init_task
  /\ \A t \in Tasks : Linked(t) => leader[leader[t]] = leader[t]
  /\ \A t \in Tasks : Linked(t) /\ leader[t] = init_task => t = init_task
  /\ \A t \in Tasks : stage[t] = "zombie" => leader[t] = t

TreeInv == Lists /\ Leaders /\ TreeWhole

LEMMA InitTree ==
  ASSUME TaskInit
  PROVE  TreeInv
<1>1. /\ MAX_PID \in Nat \ {0, 1} /\ 0 \in Tasks /\ 1 \in Tasks /\ 2 \in Tasks
      /\ \A t \in Tasks : t \in Nat /\ (t <= 2 <=> t \in {0, 1, 2}) /\ (t <= 1 <=> t \in {0, 1})
  BY TaskListsAssumption DEF Tasks
<1>2. /\ \A t \in Tasks : stage[t] = IF t <= 2 THEN "running" ELSE "none"
      /\ \A t \in Tasks : at[t] = no /\ leader[t] = t
      /\ \A t \in Tasks : parent[t] = IF t = 2 THEN 1 ELSE 0
      /\ tasks = <<1, 2>>
      /\ children = [t \in Tasks |-> IF t <= 1 THEN <<t + 1>> ELSE <<>>]
  BY DEF TaskInit, init_task, Reaper
<1>3. \A t \in Tasks : Linked(t) <=> t \in {0, 1, 2}
  BY <1>1, <1>2 DEF Linked
<1>4. /\ children[0] = <<1>> /\ children[1] = <<2>>
      /\ \A t \in Tasks \ {0, 1} : children[t] = <<>>
  BY <1>1, <1>2
<1>5. Lists
  <2>1. \A t \in Tasks : children[t] \in Seq(Tasks)
    <3>1. \A x \in Tasks : <<x>> \in Seq(Tasks)
      OBVIOUS
    <3>2. <<>> \in Seq(Tasks)
      BY EmptySeq
    <3>3. <<1>> \in Seq(Tasks) /\ <<2>> \in Seq(Tasks)
      BY <1>1, <3>1
    <3> QED
      BY <1>4, <3>2, <3>3
  <2>2. tasks \in Seq(Tasks)
    BY <1>1, <1>2
  <2>3. children = [t \in Tasks |-> children[t]]
    BY <1>2
  <2> QED
    BY <2>1, <2>2, <2>3 DEF Lists
<1>6. Leaders
  BY <1>1, <1>2 DEF Leaders, init_task
<1>7. /\ \A x : IsInjective(<<x>>) /\ Range(<<x>>) = {x}
      /\ IsInjective(<<>>) /\ Range(<<>>) = {}
      /\ IsInjective(tasks) /\ Range(tasks) = {1, 2}
  BY <1>2 DEF IsInjective, Range
<1>8. Range(tasks) = {t \in Tasks \ {init_task} : Linked(t) /\ leader[t] = t}
  BY <1>1, <1>2, <1>3, <1>7 DEF init_task
<1>9. ASSUME NEW p \in Tasks
      PROVE  /\ IsInjective(children[p])
             /\ Range(children[p]) = {c \in Range(tasks) : parent[c] = p}
             /\ children[p] # <<>> => stage[p] = "running"
  <2> DEFINE ofP == {c \in Range(tasks) : parent[c] = p}
  <2>1. CASE p = 0
    <3>1. ofP = {1}  BY <1>1, <1>2, <1>7, <2>1
    <3> QED  BY <1>1, <1>2, <1>4, <1>7, <2>1, <3>1
  <2>2. CASE p = 1
    <3>1. ofP = {2}  BY <1>1, <1>2, <1>7, <2>2
    <3> QED  BY <1>1, <1>2, <1>4, <1>7, <2>2, <3>1
  <2>3. CASE p \notin {0, 1}
    <3>1. ofP = {}  BY <1>1, <1>2, <1>7, <2>3
    <3> QED  BY <1>4, <1>7, <2>3, <3>1
  <2> QED  BY <2>1, <2>2, <2>3
<1>10. \A t \in Tasks : Linked(t) => Linked(leader[t]) /\ parent[t] = parent[leader[t]]
  BY <1>2
<1> QED
  BY <1>5, <1>6, <1>7, <1>8, <1>9, <1>10 DEF TreeInv, TreeWhole

(* What happens to a task outside the lists leaves them as they are.       *)
LEMMA OutsideTree ==
  ASSUME CountInv, TreeInv, NEW c \in Tasks, ~Linked(c), ~Linked(c)', at'[init_task] = no,
         \A u \in Tasks \ {c} : stage'[u] = stage[u] /\ parent'[u] = parent[u] /\ leader'[u] = leader[u],
         UNCHANGED <<tasks, children>>
  PROVE  TreeInv'
<1> USE DEF TreeInv
<1>1. /\ \A u \in Tasks : Linked(u)' <=> Linked(u)
      /\ \A u \in Tasks : Linked(u) => u # c /\ leader[u] # c /\ leader[u] \in Tasks
  BY DEF TreeWhole, Linked, CountInv, Types
<1>2. c # init_task /\ init_task \in Tasks
  BY TaskFacts DEF CountInv, Makers, Linked
<1>3. Lists'
  BY DEF Lists
<1>4. Leaders'
  <2>1. /\ \A t \in Tasks : Linked(t)' => leader'[leader'[t]] = leader'[t]
        /\ \A t \in Tasks : Linked(t)' /\ leader'[t] = init_task => t = init_task
    BY <1>1 DEF Leaders
  <2>2. \A t \in Tasks : stage'[t] = "zombie" => leader'[t] = t
    <3>1. \A t \in Tasks : stage'[t] = "zombie" => t # c /\ stage[t] = "zombie"
      BY DEF Linked
    <3> QED
      BY <3>1 DEF Leaders
  <2> QED
    BY <1>2, <2>1, <2>2 DEF Leaders
<1>5. Range(tasks)' = {t \in Tasks \ {init_task} : Linked(t) /\ leader[t] = t}'
  BY <1>1 DEF TreeWhole
<1>6. c \notin Range(tasks)
  BY DEF TreeWhole
<1>7. ASSUME NEW p \in Tasks
      PROVE  /\ IsInjective(children[p])'
             /\ Range(children[p])' = {x \in Range(tasks) : parent[x] = p}'
             /\ children'[p] # <<>> => stage'[p] = "running"
  <2>1. \A x \in Range(tasks) : parent'[x] = parent[x]
    BY <1>6 DEF TreeWhole
  <2>2. children[p] # <<>> => p # c
    BY DEF TreeWhole, Linked
  <2> QED
    BY <2>1, <2>2 DEF TreeWhole
<1>8. \A t \in Tasks : Linked(t)' => Linked(leader[t])' /\ parent'[t] = parent'[leader'[t]]
  <2> SUFFICES ASSUME NEW t \in Tasks, Linked(t)
               PROVE  Linked(leader[t])' /\ parent'[t] = parent'[leader'[t]]
    BY <1>1
  <2>1. leader'[t] = leader[t] /\ parent'[t] = parent[t] /\ parent'[leader[t]] = parent[leader[t]]
    BY <1>1
  <2>2. stage'[leader[t]] = stage[leader[t]]
    BY <1>1
  <2> QED
    BY <2>1, <2>2 DEF TreeWhole, Linked
<1> QED
  BY <1>3, <1>4, <1>5, <1>7, <1>8 DEF TreeWhole

LEMMA LinkTree ==
  ASSUME CountInv, TreeInv, NEW t \in Tasks, Link(t)
  PROVE  TreeInv'
<1> USE DEF CountInv, TreeInv
<1>1. PICK c \in Tasks, p \in Tasks :
        /\ c = child[t] /\ LinkTo(t, p)
        /\ p = IF flags[t] \cap {"PARENT", "THREAD"} # {} THEN parent[t] ELSE t
  BY DEF Types, Link
<1>2. /\ at[t] = link /\ at[t] # no
      /\ stage' = [stage EXCEPT ![c] = "running"]
      /\ parent' = [parent EXCEPT ![c] = p]
      /\ leader' = [leader EXCEPT ![c] = IF "THREAD" \in flags[t] THEN leader[t] ELSE c]
      /\ "THREAD" \in flags[t] => UNCHANGED <<tasks, children>>
      /\ "THREAD" \notin flags[t] =>
           tasks' = Append(tasks, c) /\ children' = [children EXCEPT ![p] = Append(@, c)]
      /\ at' = [at EXCEPT ![t] = no]
  BY <1>1, KindFacts DEF LinkTo
<1>3. /\ stage[t] = "running" /\ Linked(t) /\ t # init_task
      /\ stage[c] = "new" /\ ~Linked(c) /\ c # init_task /\ c # t /\ init_task \in Tasks
      /\ leader[t] \in Tasks /\ Linked(leader[t]) /\ leader[leader[t]] = leader[t]
      /\ leader[t] # init_task /\ parent[t] = parent[leader[t]]
  <2>1. stage[t] = "running" /\ stage[c] = "new" /\ t # init_task
    BY <1>1, <1>2 DEF Makers, Leaders
  <2>2. Linked(t) /\ ~Linked(c)
    BY <2>1 DEF Linked
  <2>3. c # init_task /\ c # t /\ init_task \in Tasks
    BY <2>1, TaskFacts DEF Makers
  <2>4. leader[t] \in Tasks
    BY DEF Types
  <2>5. leader[leader[t]] = leader[t] /\ leader[t] # init_task
    BY <2>1, <2>2 DEF Leaders
  <2>6. Linked(leader[t]) /\ parent[t] = parent[leader[t]]
    BY <2>2 DEF TreeWhole
  <2> QED
    BY <2>1, <2>2, <2>3, <2>4, <2>5, <2>6
<1>4. /\ \A u \in Tasks : stage'[u] = (IF u = c THEN "running" ELSE stage[u])
      /\ \A u \in Tasks : parent'[u] = (IF u = c THEN p ELSE parent[u])
      /\ \A u \in Tasks \ {c} : leader'[u] = leader[u]
      /\ leader'[c] = IF "THREAD" \in flags[t] THEN leader[t] ELSE c
      /\ \A u \in Tasks : at[u] = no => at'[u] = no
  BY <1>2 DEF Types
<1>5. /\ \A u \in Tasks : Linked(u)' <=> Linked(u) \/ u = c
      /\ \A u \in Tasks : Linked(u) => u # c /\ leader[u] # c /\ leader[u] \in Tasks /\ Linked(leader[u])
      /\ c \notin Range(tasks) /\ \A q \in Tasks : c \notin Range(children[q])
  <2>1. \A u \in Tasks : Linked(u)' <=> Linked(u) \/ u = c
    BY <1>4 DEF Linked
  <2>2. \A u \in Tasks : Linked(u) => leader[u] \in Tasks /\ Linked(leader[u])
    BY DEF TreeWhole, Types
  <2>3. c \notin Range(tasks)
    BY <1>3 DEF TreeWhole
  <2>4. \A q \in Tasks : c \notin Range(children[q])
    BY <2>3 DEF TreeWhole
  <2> QED
    BY <1>3, <2>1, <2>2, <2>3, <2>4
<1>6. Leaders'
  <2>1. at'[init_task] = no /\ leader'[init_task] = init_task
    BY <1>3, <1>4 DEF Leaders
  <2>2. ASSUME NEW u \in Tasks, Linked(u)'
        PROVE  leader'[leader'[u]] = leader'[u] /\ (leader'[u] = init_task => u = init_task)
    <3>1. CASE u = c
      BY <1>3, <1>4, <1>5, <3>1
    <3>2. CASE u # c
      <4>1. Linked(u) /\ leader[u] # c /\ leader[u] \in Tasks
        BY <1>5, <2>2, <3>2
      <4>2. leader'[u] = leader[u] /\ leader'[leader[u]] = leader[leader[u]]
        BY <1>4, <3>2, <4>1
      <4> QED
        BY <4>1, <4>2 DEF Leaders
    <3> QED
      BY <3>1, <3>2
  <2>3. \A u \in Tasks : stage'[u] = "zombie" => leader'[u] = u
    BY <1>4 DEF Leaders
  <2> QED
    BY <2>1, <2>2, <2>3 DEF Leaders
<1>7. ASSUME NEW u \in Tasks, Linked(u)'
      PROVE  Linked(leader[u])' /\ parent'[u] = parent'[leader'[u]]
  <2>1. CASE u = c /\ "THREAD" \in flags[t]
    <3>1. leader'[u] = leader[t] /\ leader[t] # c
      BY <1>3, <1>4, <2>1
    <3>2. p = parent[t]
      BY <1>1, <2>1
    <3>3. Linked(leader[u])'
      BY <1>3, <1>4, <3>1 DEF Linked
    <3> QED
      BY <1>3, <1>4, <2>1, <3>1, <3>2, <3>3
  <2>2. CASE u = c /\ "THREAD" \notin flags[t]
    BY <1>4, <2>2 DEF Linked
  <2>3. CASE u # c
    <3>1. Linked(u) /\ leader'[u] = leader[u] /\ leader[u] # c /\ leader[u] \in Tasks /\ Linked(leader[u])
      BY <1>4, <1>5, <1>7, <2>3
    <3>2. stage'[leader[u]] = stage[leader[u]]
      BY <1>4, <3>1
    <3>3. Linked(leader[u])'
      BY <3>1, <3>2 DEF Linked
    <3> QED
      BY <1>4, <2>3, <3>1, <3>3 DEF TreeWhole
  <2> QED
    BY <2>1, <2>2, <2>3
<1>8. CASE "THREAD" \in flags[t]
  <2>1. UNCHANGED <<tasks, children>> /\ leader'[c] # c
    BY <1>2, <1>3, <1>4, <1>8
  <2>2. Range(tasks)' = {u \in Tasks \ {init_task} : Linked(u) /\ leader[u] = u}'
    BY <1>4, <1>5, <2>1 DEF TreeWhole
  <2>3. ASSUME NEW q \in Tasks
        PROVE  /\ IsInjective(children[q])'
               /\ Range(children[q])' = {x \in Range(tasks) : parent[x] = q}'
               /\ children'[q] # <<>> => stage'[q] = "running"
    <3>1. \A x \in Range(tasks) : x \in Tasks /\ parent'[x] = parent[x]
      BY <1>4, <1>5 DEF TreeWhole
    <3> QED
      BY <1>4, <2>1, <3>1 DEF TreeWhole
  <2> QED
    BY <1>6, <1>7, <2>1, <2>2, <2>3 DEF TreeWhole, Lists
<1>9. CASE "THREAD" \notin flags[t]
  <2>1. /\ tasks' = Append(tasks, c)
        /\ children'[p] = Append(children[p], c)
        /\ \A q \in Tasks \ {p} : children'[q] = children[q]
        /\ leader'[c] = c
    BY <1>2, <1>4, <1>9 DEF Lists
  <2>2. /\ tasks' \in Seq(Tasks) /\ IsInjective(tasks') /\ Range(tasks') = Range(tasks) \cup {c}
        /\ children'[p] \in Seq(Tasks) /\ IsInjective(children'[p])
        /\ Range(children'[p]) = Range(children[p]) \cup {c}
    BY <1>5, <2>1, AppendList DEF Lists, TreeWhole
  <2>3. children' \in [Tasks -> Seq(Tasks)]
    BY <1>2, <1>9, <2>1, <2>2 DEF Lists
  <2>4. stage[p] = "running"
    <3>1. CASE p = t
      BY <1>3, <3>1
    <3>2. CASE p # t
      <4>1. p = parent[leader[t]]
        BY <1>1, <1>3, <3>2
      <4>2. leader[t] \in Range(children[p])
        BY <1>3, <4>1 DEF TreeWhole
      <4>3. children[p] # <<>>
        BY <4>2 DEF Range
      <4> QED
        BY <4>3 DEF TreeWhole
    <3> QED
      BY <3>1, <3>2
  <2>5. Range(tasks)' = {u \in Tasks \ {init_task} : Linked(u) /\ leader[u] = u}'
    <3>1. \A u \in Tasks \ {init_task} : u \in Range(tasks) <=> Linked(u) /\ leader[u] = u
      BY DEF TreeWhole
    <3>2. \A u \in Tasks \ {init_task} :
             u \in Range(tasks) \cup {c} <=> Linked(u)' /\ leader'[u] = u
      BY <1>4, <1>5, <2>1, <3>1
    <3>3. Range(tasks) \cup {c} \subseteq Tasks \ {init_task}
      BY <1>3 DEF TreeWhole
    <3> QED
      BY <2>2, <3>2, <3>3
  <2>6. ASSUME NEW q \in Tasks
        PROVE  /\ IsInjective(children'[q])
               /\ Range(children'[q]) = {x \in Range(tasks') : parent'[x] = q}
               /\ children'[q] # <<>> => stage'[q] = "running"
    <3>1. \A x \in Range(tasks) : x \in Tasks /\ parent'[x] = parent[x]
      BY <1>4, <1>5 DEF TreeWhole
    <3>2. parent'[c] = p
      BY <1>4
    <3>3. Range(children[q]) = {x \in Range(tasks) : parent[x] = q}
      BY DEF TreeWhole
    <3>4. CASE q = p
      BY <1>4, <2>2, <2>4, <3>1, <3>2, <3>3, <3>4
    <3>5. CASE q # p
      <4>1. Range(children'[q]) = {x \in Range(tasks') : parent'[x] = q}
        BY <2>1, <2>2, <3>1, <3>2, <3>3, <3>5
      <4> QED
        BY <1>4, <2>1, <3>5, <4>1 DEF TreeWhole
    <3> QED
      BY <3>4, <3>5
  <2> QED
    BY <1>6, <1>7, <2>2, <2>3, <2>5, <2>6 DEF TreeWhole, Lists
<1> QED
  BY <1>8, <1>9

LEMMA ExitTree ==
  ASSUME CountInv, TreeInv, NEW t \in Tasks, Exit(t)
  PROVE  TreeInv'
<1> USE DEF CountInv, TreeInv
<1> DEFINE thread == leader[t] # t
<1>1. PICK a \in Adopters(t) :
        /\ stage[t] = "running" /\ at[t] = no /\ t > Reaper
        /\ stage' = [u \in Tasks |-> IF u \in (IF thread THEN {t} ELSE {}) THEN "dead"
                                    ELSE IF u = t THEN "zombie" ELSE stage[u]]
        /\ parent' = [c \in Tasks |-> IF parent[c] = t /\ Linked(c) THEN a ELSE parent[c]]
        /\ children' = [children EXCEPT ![a] = @ \o children[t], ![t] = <<>>]
        /\ UNCHANGED <<at, leader, tasks>>
  BY DEF Exit, Gone, call
<1>2. /\ a \in Tasks /\ stage[a] = "running" /\ a # t
      /\ t # init_task /\ t # Reaper /\ init_task \in Tasks
  <2>1. t # init_task /\ t # Reaper
    BY <1>1, TaskFacts DEF init_task, Reaper
  <2>2. \/ a \in Group(t) \ {t} /\ stage[a] = "running"
        \/ a = Reaper
    BY DEF Adopters
  <2>3. a \in Tasks /\ stage[a] = "running" /\ a # t
    BY <2>1, <2>2, TaskFacts DEF Group, Makers
  <2> QED
    BY <2>1, <2>3, TaskFacts
<1>3. /\ \A u \in Tasks \ {t} : stage'[u] = stage[u]
      /\ stage'[t] = IF thread THEN "dead" ELSE "zombie"
      /\ \A u \in Tasks : Linked(u) => parent'[u] = IF parent[u] = t THEN a ELSE parent[u]
      /\ Linked(t)
  BY <1>1 DEF Linked
<1>4. \A u \in Tasks : Linked(u)' <=> Linked(u) /\ (thread => u # t)
  BY <1>3 DEF Linked
<1>5. \A u \in Tasks : Linked(u) =>
        /\ leader[u] \in Tasks /\ Linked(leader[u])
        /\ parent[u] = parent[leader[u]]
        /\ leader[leader[u]] = leader[u]
  BY DEF Types, TreeWhole, Leaders
<1>6. Leaders'
  <2>1. \A u \in Tasks : stage'[u] = "zombie" => leader[u] = u
    BY <1>3 DEF Leaders
  <2> QED
    BY <1>1, <1>4, <2>1 DEF Leaders
<1>7. ASSUME NEW u \in Tasks, Linked(u)'
      PROVE  Linked(leader[u])' /\ parent'[u] = parent'[leader'[u]]
  <2>1. Linked(u) /\ (thread => leader[u] # t)
    BY <1>4, <1>5, <1>7
  <2> QED
    BY <1>1, <1>3, <1>4, <1>5, <2>1 DEF Linked
<1>8. Range(tasks)' = {u \in Tasks \ {init_task} : Linked(u) /\ leader[u] = u}'
  BY <1>1, <1>4 DEF TreeWhole
<1>9. /\ children \in [Tasks -> Seq(Tasks)] /\ <<>> \in Seq(Tasks)
      /\ children[a] \in Seq(Tasks) /\ children[t] \in Seq(Tasks)
      /\ IsInjective(children[a]) /\ IsInjective(children[t])
      /\ Range(children[a]) = {x \in Range(tasks) : parent[x] = a}
      /\ Range(children[t]) = {x \in Range(tasks) : parent[x] = t}
      /\ \A x \in Range(tasks) : x \in Tasks /\ Linked(x)
  BY <1>2, EmptySeq DEF Lists, TreeWhole
<1>10. Range(children[a]) \cap Range(children[t]) = {}
  BY <1>2, <1>9
<1>11. /\ children[a] \o children[t] \in Seq(Tasks)
       /\ IsInjective(children[a] \o children[t])
       /\ Range(children[a] \o children[t]) = Range(children[a]) \cup Range(children[t])
  <2>1. /\ children[a] \in Seq(Tasks) /\ children[t] \in Seq(Tasks)
        /\ IsInjective(children[a]) /\ IsInjective(children[t])
    BY <1>9
  <2> HIDE DEF thread, CountInv, TreeInv
  <2> QED
    BY ONLY <2>1, <1>10, ConcatList
<1>12. /\ children'[a] = children[a] \o children[t] /\ children'[t] = <<>>
       /\ \A q \in Tasks \ {a, t} : children'[q] = children[q]
       /\ children' \in [Tasks -> Seq(Tasks)]
  BY <1>1, <1>2, <1>9, <1>11
<1>13. ASSUME NEW q \in Tasks
       PROVE  /\ IsInjective(children'[q])
              /\ Range(children'[q]) = {x \in Range(tasks') : parent'[x] = q}
              /\ children'[q] # <<>> => stage'[q] = "running"
  <2>1. \A x \in Range(tasks) : parent'[x] = IF parent[x] = t THEN a ELSE parent[x]
    BY <1>3, <1>9
  <2>2. CASE q = a
    <3>1. Range(children'[q]) = {x \in Range(tasks) : parent[x] = a} \cup {x \in Range(tasks) : parent[x] = t}
      BY <1>9, <1>11, <1>12, <2>2
    <3>2. Range(children'[q]) = {x \in Range(tasks') : parent'[x] = q}
      BY <1>1, <1>2, <2>1, <2>2, <3>1
    <3> QED
      BY <1>2, <1>3, <1>11, <1>12, <2>2, <3>2
  <2>3. CASE q = t
    <3>1. children'[q] = <<>>
      BY <1>12, <2>3
    <3>2. IsInjective(children'[q]) /\ Range(children'[q]) = {}
      BY <3>1 DEF IsInjective, Range
    <3>3. \A x \in Range(tasks') : parent'[x] # q
      BY <1>1, <1>2, <2>1, <2>3
    <3> QED
      BY <3>1, <3>2, <3>3
  <2>4. CASE q \notin {a, t}
    <3>1. Range(children'[q]) = {x \in Range(tasks) : parent[x] = q}
      <4>1. children'[q] = children[q]
        BY <1>12, <2>4
      <4> QED
        BY <4>1 DEF TreeWhole
    <3>2. Range(children'[q]) = {x \in Range(tasks') : parent'[x] = q}
      BY <1>1, <1>2, <2>1, <2>4, <3>1
    <3> QED
      BY <1>3, <1>12, <2>4, <3>2 DEF TreeWhole
  <2> QED
    BY <2>2, <2>3, <2>4
<1> QED
  BY <1>1, <1>6, <1>7, <1>8, <1>12, <1>13 DEF TreeWhole, Lists

LEMMA ReapTree ==
  ASSUME CountInv, TreeInv, NEW t \in Tasks, Reap(t)
  PROVE  TreeInv'
<1> USE DEF CountInv, TreeInv
<1>1. PICK p \in Tasks :
        /\ p = parent[t] /\ stage[t] = "zombie" /\ Group(t) = {t} /\ stage[p] = "running"
        /\ stage' = [u \in Tasks |-> IF u \in {t} THEN "dead" ELSE IF u = t THEN "dead" ELSE stage[u]]
        /\ tasks' = Delete(tasks, t)
        /\ children' = [children EXCEPT ![p] = Delete(@, t)]
        /\ UNCHANGED <<at, leader, parent>>
  BY DEF Reap, Gone, call, Types
<1>2. /\ t # init_task /\ p # t /\ leader[t] = t /\ Linked(t)
      /\ \A u \in Tasks \ {t} : stage'[u] = stage[u]
      /\ stage'[t] = "dead"
  BY <1>1 DEF Makers, Leaders, Linked
<1>3. \A u \in Tasks : Linked(u)' <=> Linked(u) /\ u # t
  BY <1>2 DEF Linked
<1>4. \A u \in Tasks \ {t} : Linked(u) => leader[u] # t
  BY <1>1, <1>2 DEF Group
<1>5. t \in Range(tasks) /\ t \in Range(children[p])
  BY <1>1, <1>2 DEF TreeWhole
<1>6. /\ tasks' \in Seq(Tasks) /\ IsInjective(tasks') /\ Range(tasks') = Range(tasks) \ {t}
  BY <1>1, <1>5, DeleteList DEF Lists, TreeWhole
<1>7. /\ Delete(children[p], t) \in Seq(Tasks) /\ IsInjective(Delete(children[p], t))
      /\ Range(Delete(children[p], t)) = Range(children[p]) \ {t}
  BY <1>5, DeleteList DEF Lists, TreeWhole
<1>8. /\ children'[p] = Delete(children[p], t)
      /\ \A q \in Tasks \ {p} : children'[q] = children[q]
      /\ children' \in [Tasks -> Seq(Tasks)]
  BY <1>1, <1>7 DEF Lists
<1>9. Leaders'
  <2>1. \A u \in Tasks : stage'[u] = "zombie" => leader[u] = u
    BY <1>2 DEF Leaders
  <2> QED
    BY <1>1, <1>3, <2>1 DEF Leaders
<1>10. ASSUME NEW u \in Tasks, Linked(u)'
       PROVE  Linked(leader[u])' /\ parent'[u] = parent'[leader'[u]]
  <2>1. Linked(u) /\ leader[u] # t /\ leader[u] \in Tasks /\ Linked(leader[u])
    BY <1>3, <1>4, <1>10 DEF TreeWhole, Types
  <2>2. Linked(leader[u])'
    BY <1>1, <1>2, <2>1 DEF Linked
  <2> QED
    BY <1>1, <2>1, <2>2 DEF TreeWhole
<1>11. Range(tasks)' = {u \in Tasks \ {init_task} : Linked(u) /\ leader[u] = u}'
  <2>1. Range(tasks)' = {u \in Tasks \ {init_task} : Linked(u) /\ leader[u] = u} \ {t}
    BY <1>6 DEF TreeWhole
  <2> QED
    BY <1>1, <1>3, <2>1
<1>12. ASSUME NEW q \in Tasks
       PROVE  /\ IsInjective(children'[q])
              /\ Range(children'[q]) = {x \in Range(tasks') : parent'[x] = q}
              /\ children'[q] # <<>> => stage'[q] = "running"
  <2>1. Range(children[q]) = {x \in Range(tasks) : parent[x] = q}
    BY DEF TreeWhole
  <2>2. CASE q = p
    BY <1>1, <1>2, <1>6, <1>7, <1>8, <2>1, <2>2
  <2>3. CASE q # p
    <3>1. children'[q] = children[q]
      BY <1>8, <2>3
    <3>2. Range(children'[q]) = {x \in Range(tasks') : parent'[x] = q}
      BY <1>1, <1>6, <2>1, <2>3, <3>1
    <3>3. children[q] # <<>> => q # t
      BY <1>1 DEF TreeWhole
    <3> QED
      BY <1>2, <3>1, <3>2, <3>3 DEF TreeWhole
  <2> QED
    BY <2>2, <2>3
<1> QED
  BY <1>6, <1>8, <1>9, <1>10, <1>11, <1>12 DEF TreeWhole, Lists

LEMMA NextTree ==
  ASSUME CountInv, TreeInv, [TaskNext]_taskVars
  PROVE  TreeInv'
<1>1. init_task \in Tasks /\ Linked(init_task) /\ at[init_task] = no
  BY TaskFacts DEF CountInv, Makers, Linked, TreeInv, Leaders
<1>2. ASSUME UNCHANGED <<stage, tree>>, at'[init_task] = no
      PROVE  TreeInv'
  BY <1>2 DEF TreeInv, Lists, Leaders, TreeWhole, Linked, tree
<1>3. ASSUME NEW t \in Tasks, at[t] # no, Give(t)
      PROVE  TreeInv'
  <2>1. PICK c \in Tasks : c = child[t]
    BY DEF CountInv, Types
  <2>2. stage[c] = "new" /\ t # init_task /\ c # init_task
    BY <1>1, <1>3, <2>1 DEF CountInv, Makers
  <2>3. /\ stage' = [stage EXCEPT ![c] = "none"]
        /\ parent' = [parent EXCEPT ![c] = init_task]
        /\ leader' = [leader EXCEPT ![c] = c]
        /\ at' = [at EXCEPT ![t] = no]
        /\ UNCHANGED <<tasks, children>>
    BY <1>3, <2>1 DEF Give
  <2>4. /\ ~Linked(c) /\ ~Linked(c)' /\ at'[init_task] = no
        /\ \A u \in Tasks \ {c} :
             stage'[u] = stage[u] /\ parent'[u] = parent[u] /\ leader'[u] = leader[u]
    BY <1>1, <2>2, <2>3 DEF CountInv, Types, Linked
  <2> QED
    BY <2>3, <2>4, OutsideTree
<1>4. ASSUME NEW t \in Tasks, Dup(t)
      PROVE  TreeInv'
  <2>1. PICK c \in Tasks :
          /\ stage[c] = "none" /\ t # init_task
          /\ at' = [at EXCEPT ![t] = limit]
          /\ stage' = [stage EXCEPT ![c] = "new"]
          /\ parent' = [parent EXCEPT ![c] = parent[t]]
          /\ leader' = [leader EXCEPT ![c] = leader[t]]
          /\ UNCHANGED <<tasks, children>>
    BY <1>4 DEF Dup, Calling
  <2>2. /\ ~Linked(c) /\ ~Linked(c)' /\ at'[init_task] = no
        /\ \A u \in Tasks \ {c} :
             stage'[u] = stage[u] /\ parent'[u] = parent[u] /\ leader'[u] = leader[u]
    BY <1>1, <2>1 DEF CountInv, Types, Linked
  <2> QED
    BY <2>1, <2>2, OutsideTree
<1>5. ASSUME NEW t \in Tasks, at[t] # no, NEW s, Goto(t, s), UNCHANGED <<stage, tree>>
      PROVE  TreeInv'
  BY <1>1, <1>2, <1>5 DEF Goto, CountInv, Types
<1>6. ASSUME NEW t \in Tasks, Limit(t) \/ Creds(t) \/ Copy(t) \/ Undo(t)
      PROVE  TreeInv'
  <2>1. at[t] # no
    <3>1. /\ 3 \in Nat /\ no = 0 /\ limit = 1 /\ creds = 2 /\ link = 8
          /\ creds + 1 = 3 /\ link - 1 = 7
      BY KindFacts
    <3>2. at[t] \in {limit, creds} \/ at[t] \in creds + 1 .. link
      BY <1>6, <3>1 DEF Limit, Creds, Copy, Undo
    <3> QED
      BY <3>1, <3>2
  <2>2. CASE Limit(t) \/ Creds(t)
    BY <1>3, <1>5, <2>1, <2>2 DEF Limit, Creds
  <2>3. CASE Copy(t)
    BY <1>5, <2>1, <2>3 DEF Copy
  <2>4. CASE Undo(t)
    BY <1>3, <2>1, <2>4 DEF Undo
  <2> QED
    BY <1>6, <2>2, <2>3, <2>4
<1>7. ASSUME NEW t \in Tasks, Refused(t)
      PROVE  TreeInv'
  BY <1>1, <1>2, <1>7 DEF Refused, call
<1>8. ASSUME NEW x \in Tasks, Ask(x)
      PROVE  TreeInv'
  BY <1>1, <1>2, <1>8 DEF Ask, Walk, call
<1>9. CASE process_tracer
  <2>1. UNCHANGED <<stage, tree, at>>
    BY <1>9 DEF process_tracer, Find, Sibling, Child, Lose, Walk, call
  <2> QED
    BY <1>1, <1>2, <2>1
<1>10. CASE UNCHANGED taskVars
  BY <1>1, <1>2, <1>10 DEF taskVars, call
<1> QED
  BY <1>4, <1>6, <1>7, <1>8, <1>9, <1>10, LinkTree, ExitTree, ReapTree DEF TaskNext

(* Every process is once in the list of processes and once among the       *)
(* children of its parent, which runs, though that parent may have been    *)
(* made, or the former one have ended, while the fork was under way; a     *)
(* thread is in neither list, and has the parent of its group.             *)
THEOREM TreeKept == TaskSpec => []TreeWhole
<1>1. TaskInit => CountInv /\ TreeInv
  BY InitCounts, InitTree
<1>2. CountInv /\ TreeInv /\ [TaskNext]_taskVars => (CountInv /\ TreeInv)'
  BY NextCounts, NextTree
<1>3. TreeInv => TreeWhole
  BY DEF TreeInv
<1> QED
  BY <1>1, <1>2, <1>3, PTL DEF TaskSpec

---------------------------------------------------------------------------
(* The walk of the tracer.                                                 *)

(* Nobody is a child of his own group.                                     *)
Ancestry ==
  /\ parent[Reaper] = init_task
  /\ \A t \in Range(tasks) : leader[parent[t]] # t

(* The list of processes from init_task on, and the circle of p's children *)
(* with its head.                                                          *)
Nth(i) == IF i = 0 THEN init_task ELSE tasks[i]
Circle(p, j) == IF j = 0 THEN HeadOf(p) ELSE TaskAt(children[p][j])
Onward(p, j) == IF j = Len(children[p]) THEN 0 ELSE j + 1

Searching ==
  trace.at = "find" =>
    /\ trace.sibs = 0 /\ trace.kids = 0
    /\ \E i \in 0 .. Len(tasks) : /\ trace.cursor = TaskAt(Nth(i))
                                  /\ \A j \in 0 .. i - 1 : Nth(j) # trace.pid
Found == trace.at \in {"sib", "kids", "done"} => trace.pid \in Range(tasks) \cup {init_task}
Absent == trace.at = "absent" => trace.pid \notin Range(tasks) \cup {init_task}
(* From place w of the circle, where the process is, the walk has come to  *)
(* place j; past the head it may have counted one too many.                *)
SibAt(p, w, j) ==
  LET n == Len(children[p])
  IN  /\ children[p][w] = trace.pid /\ trace.cursor = Circle(p, j)
      /\ IF j > w THEN trace.sibs = j - w - 1
         ELSE IF j = 0 THEN trace.sibs = n - w
         ELSE trace.sibs \in {n - w + j - 1, n - w + j}
Circling(p) == \E w \in 1 .. Len(children[p]), j \in 0 .. Len(children[p]) : SibAt(p, w, j)
Sibs ==
  trace.at = "sib" =>
    /\ trace.kids = 0
    /\ IF trace.pid = init_task THEN trace.cursor = TaskAt(init_task) ELSE Circling(parent[trace.pid])
SibsDone ==
  trace.at \in {"kids", "done"} /\ trace.pid # init_task =>
    LET n == Len(children[parent[trace.pid]])
    IN  n > 0 /\ trace.sibs \in {n - 1, n}
Kids ==
  trace.at = "kids" =>
    \E j \in 0 .. Len(children[trace.pid]) :
      /\ trace.cursor = Circle(trace.pid, j)
      /\ trace.kids = IF j = 0 THEN Len(children[trace.pid]) ELSE j - 1
KidsDone == trace.at = "done" => trace.kids = Len(children[trace.pid])
WalkTypes ==
  /\ trace = [at |-> trace.at, pid |-> trace.pid, cursor |-> trace.cursor,
              sibs |-> trace.sibs, kids |-> trace.kids, calm |-> trace.calm]
  /\ trace.at \in {"no", "find", "sib", "kids", "done", "absent", "over"}
  /\ trace.pid \in Tasks
  /\ trace.at = "no" => trace = NoWalk("no")
Undisturbed == Searching /\ Found /\ Absent /\ Sibs /\ SibsDone /\ Kids /\ KidsDone
WalkInv == WalkTypes /\ (trace.calm => Undisturbed)

(* A list in which nothing is twice has as many members as places.         *)
LEMMA ListLength ==
  ASSUME NEW S, NEW s \in Seq(S), IsInjective(s)
  PROVE  IsFiniteSet(Range(s)) /\ Cardinality(Range(s)) = Len(s) /\ Len(s) \in Nat
<1>1. Len(s) \in Nat /\ DOMAIN s = 1 .. Len(s) /\ s \in [1 .. Len(s) -> S]
  BY LenProperties
<1>2. IsFiniteSet(1 .. Len(s)) /\ Cardinality(1 .. Len(s)) = Len(s)
  <2>1. /\ IsFiniteSet(1 .. Len(s))
        /\ Cardinality(1 .. Len(s)) = IF 1 > Len(s) THEN 0 ELSE Len(s) - 1 + 1
    BY <1>1, FS_Interval
  <2>2. (IF 1 > Len(s) THEN 0 ELSE Len(s) - 1 + 1) = Len(s)
    BY <1>1
  <2> QED
    BY <2>1, <2>2
<1>3. s \in [1 .. Len(s) -> Range(s)] /\ \A x \in Range(s) : \E i \in 1 .. Len(s) : s[i] = x
  BY <1>1 DEF Range
<1>4. s \in Surjection(1 .. Len(s), Range(s)) /\ s \in Injection(1 .. Len(s), Range(s))
  BY <1>1, <1>3 DEF Surjection, Injection, IsInjective
<1> QED
  BY <1>1, <1>2, <1>4, FS_Surjection

(* The children of a task, none twice, and no more than there are tasks.   *)
LEMMA ChildrenFacts ==
  ASSUME TreeInv, NEW p \in Tasks, NEW s, s = children[p]
  PROVE  /\ s \in Seq(Tasks) /\ IsInjective(s) /\ Len(s) \in Nat /\ DOMAIN s = 1 .. Len(s)
         /\ Range(s) = {x \in Range(tasks) : parent[x] = p}
         /\ IsFiniteSet(Range(s)) /\ Cardinality(Range(s)) = Len(s) /\ Len(s) <= MAX_PID + 1
         /\ \A j \in 1 .. Len(s) : s[j] \in Tasks /\ s[j] \in Range(tasks) /\ parent[s[j]] = p
<1>1. s \in Seq(Tasks) /\ IsInjective(s) /\ Range(s) = {x \in Range(tasks) : parent[x] = p}
  BY DEF TreeInv, Lists, TreeWhole
<1>2. Len(s) \in Nat /\ DOMAIN s = 1 .. Len(s) /\ s \in [1 .. Len(s) -> Tasks]
  BY <1>1, LenProperties
<1>3. IsFiniteSet(Range(s)) /\ Cardinality(Range(s)) = Len(s)
  BY <1>1, ListLength
<1>4. Range(s) \subseteq Tasks
  BY <1>2 DEF Range
<1>5. IsFiniteSet(Tasks) /\ Cardinality(Tasks) = MAX_PID + 1
  <2>1. MAX_PID \in Nat /\ 0 <= MAX_PID
    BY TaskListsAssumption
  <2>2. IsFiniteSet(0 .. MAX_PID) /\ Cardinality(0 .. MAX_PID) = MAX_PID - 0 + 1
    BY <2>1, FS_Interval
  <2> QED
    BY <2>1, <2>2 DEF Tasks
<1>6. Cardinality(Range(s)) <= Cardinality(Tasks)
  BY <1>4, <1>5, FS_Subset
<1>7. \A j \in 1 .. Len(s) : s[j] \in Tasks /\ s[j] \in Range(s)
  BY <1>2 DEF Range
<1> QED
  BY <1>1, <1>2, <1>3, <1>5, <1>6, <1>7

(* Behind a child of a list lies the one after it, or the head.            *)
NextIn(p, x) ==
  LET i == CHOOSE i \in DOMAIN children[p] : children[p][i] = x
  IN  IF i = Len(children[p]) THEN HeadOf(p) ELSE TaskAt(children[p][i + 1])
NextOf(x) == NextIn(CHOOSE p \in Tasks : x \in Range(children[p]), x)

(* A step along the circle.                                                *)
LEMMA CircleFollow ==
  ASSUME TreeInv, NEW p \in Tasks, NEW j \in 0 .. Len(children[p])
  PROVE  Follow(Circle(p, j)) = Circle(p, Onward(p, j)) /\ Onward(p, j) \in 0 .. Len(children[p])
<1>1. PICK s, n : s = children[p] /\ n = Len(s)
  OBVIOUS
<1>2. /\ s \in Seq(Tasks) /\ IsInjective(s) /\ n \in Nat /\ DOMAIN s = 1 .. n
      /\ \A i \in 1 .. n : s[i] \in Tasks /\ s[i] \in Range(tasks) /\ parent[s[i]] = p
  BY <1>1, ChildrenFacts
<1>3. Onward(p, j) \in 0 .. n /\ Onward(p, j) = IF j = n THEN 0 ELSE j + 1
  BY <1>1, <1>2 DEF Onward
<1>4. CASE j = 0
  <2>1. Circle(p, j) = <<"head", p>>
    BY <1>4 DEF Circle, HeadOf
  <2>2. Follow(Circle(p, j)) = IF s = <<>> THEN HeadOf(p) ELSE TaskAt(Head(s))
    BY <1>1, <2>1 DEF Follow, HeadOf
  <2>3. CASE n = 0
    <3>1. s = <<>>
      BY <1>1, <1>2, <2>3, EmptySeq
    <3> QED
      BY <1>1, <1>3, <1>4, <2>2, <2>3, <3>1 DEF Circle
  <2>4. CASE n # 0
    <3>1. s # <<>> /\ Head(s) = s[1]
      BY <1>1, <1>2, <2>4, EmptySeq
    <3>2. Onward(p, j) = 1
      BY <1>3, <1>4, <2>4
    <3> QED
      BY <1>1, <1>3, <2>2, <3>1, <3>2 DEF Circle
  <2> QED
    BY <2>3, <2>4
<1>5. CASE j # 0
  <2>1. PICK x \in Tasks : x = s[j] /\ j \in 1 .. n
    BY <1>1, <1>2, <1>5
  <2>2. Circle(p, j) = <<"task", x>> /\ Circle(p, j) = TaskAt(x)
    BY <1>1, <1>5, <2>1 DEF Circle, TaskAt
  <2>3. x \in Range(s) /\ \A q \in Tasks : x \in Range(children[q]) <=> q = p
    <3>1. \A q \in Tasks : Range(children[q]) = {y \in Range(tasks) : parent[y] = q}
      BY DEF TreeInv, TreeWhole
    <3> QED
      BY <1>1, <1>2, <2>1, <3>1
  <2>4. (CHOOSE q \in Tasks : x \in Range(children[q])) = p
    BY <2>3
  <2>5. (CHOOSE i \in DOMAIN s : s[i] = x) = j
    BY <1>2, <2>1 DEF IsInjective
  <2>6. Follow(<<"task", x>>) = IF j = n THEN HeadOf(p) ELSE TaskAt(s[j + 1])
    <3>1. PICK c : c = <<"task", x>>
      OBVIOUS
    <3>2. c[1] # "head" /\ c[2] = x
      BY <3>1
    <3>4. Follow(c) = IF c[1] = "head"
                       THEN IF children[c[2]] = <<>> THEN c ELSE TaskAt(Head(children[c[2]]))
                       ELSE IF \A q \in Tasks : c[2] \notin Range(children[q]) THEN c
                       ELSE NextOf(c[2])
      BY DEF Follow, NextOf, NextIn
    <3>5. NextOf(x) = IF j = n THEN HeadOf(p) ELSE TaskAt(s[j + 1])
      <4>1. NextOf(x) = NextIn(p, x)
        BY <2>4 DEF NextOf
      <4>2. NextIn(p, x) = LET i == CHOOSE i \in DOMAIN s : s[i] = x
                           IN  IF i = n THEN HeadOf(p) ELSE TaskAt(s[i + 1])
        BY <1>1 DEF NextIn
      <4> QED
        BY <2>5, <4>1, <4>2
    <3>3. ~\A q \in Tasks : x \notin Range(children[q])
      BY <2>3
    <3> QED
      BY <3>1, <3>2, <3>3, <3>4, <3>5
  <2> QED
    BY <1>1, <1>2, <1>3, <2>1, <2>2, <2>6 DEF Circle
<1> QED
  BY <1>1, <1>3, <1>4, <1>5

LEMMA CircleApart ==
  ASSUME TreeInv, NEW p \in Tasks, NEW j \in 0 .. Len(children[p])
  PROVE  /\ \A w \in 0 .. Len(children[p]) : Circle(p, j) = Circle(p, w) => j = w
         /\ j = 0 <=> Circle(p, j)[1] = "head"
         /\ j # 0 => Circle(p, j)[2] = children[p][j]
<1>1. PICK s, n : s = children[p] /\ n = Len(s)
  OBVIOUS
<1>2. IsInjective(s) /\ n \in Nat /\ DOMAIN s = 1 .. n
  BY <1>1, ChildrenFacts
<1>3. \A w \in 0 .. n : Circle(p, w) = IF w = 0 THEN <<"head", p>> ELSE <<"task", s[w]>>
  BY <1>1 DEF Circle, HeadOf, TaskAt
<1>4. \A x, y : <<"head", x>> # <<"task", y>>
  OBVIOUS
<1>5. \A x, y : <<"task", x>> = <<"task", y>> => x = y
  OBVIOUS
<1>6. \A x : <<"head", x>>[1] = "head" /\ <<"task", x>>[1] # "head" /\ <<"task", x>>[2] = x
  OBVIOUS
<1>7. ASSUME NEW w \in 0 .. n, Circle(p, j) = Circle(p, w)
      PROVE  j = w
  <2>1. CASE j = 0 \/ w = 0
    BY <1>1, <1>3, <1>4, <1>7, <2>1
  <2>2. CASE j # 0 /\ w # 0
    <3>1. j \in DOMAIN s /\ w \in DOMAIN s
      BY <1>1, <1>2, <2>2
    <3>2. s[j] = s[w]
      BY <1>1, <1>3, <1>5, <1>7, <2>2
    <3> QED
      BY <1>2, <3>1, <3>2 DEF IsInjective
  <2> QED
    BY <2>1, <2>2
<1> QED
  BY <1>1, <1>3, <1>6, <1>7

(* Where no walk is under way there is nothing to keep.                    *)
LEMMA NoWalkWalk ==
  ASSUME trace' \in {NoWalk("no"), NoWalk("over")}
  PROVE  WalkInv'
<1>1. init_task \in Tasks /\ 0 \in Tasks
  BY TaskFacts DEF init_task
<1>2. /\ trace'.at \in {"no", "over"} /\ trace'.pid = 0
      /\ trace' = [at |-> trace'.at, pid |-> trace'.pid, cursor |-> trace'.cursor,
                   sibs |-> trace'.sibs, kids |-> trace'.kids, calm |-> trace'.calm]
  BY DEF NoWalk
<1>3. trace'.at = "no" => trace' = NoWalk("no")
  BY DEF NoWalk
<1>4. WalkTypes'
  BY <1>1, <1>2, <1>3 DEF WalkTypes, NoWalk
<1>5. Undisturbed'
  BY <1>2 DEF Undisturbed, Searching, Found, Absent, Sibs, SibsDone, Kids, KidsDone
<1> QED
  BY <1>4, <1>5 DEF WalkInv

(* A step of a task leaves the lists alone, or the walk is not judged.     *)
LEMMA FrameWalk ==
  ASSUME WalkInv, UNCHANGED <<tasks, children, trace>>,
         \A t \in Range(tasks) : parent'[t] = parent[t]
  PROVE  WalkInv'
<1>1. WalkTypes'
  BY DEF WalkInv, WalkTypes
<1> SUFFICES ASSUME trace.calm
             PROVE  Undisturbed'
  BY <1>1 DEF WalkInv
<1>2. Searching' /\ Found' /\ Absent' /\ Kids' /\ KidsDone'
  BY DEF WalkInv, Undisturbed, Searching, Found, Absent, Kids, KidsDone, Nth, Circle
<1>3. \A p : Circling(p)' <=> Circling(p)
  BY DEF Circling, SibAt, Circle
<1>4. trace.at \in {"sib", "kids", "done"} /\ trace.pid # init_task => parent'[trace.pid] = parent[trace.pid]
  BY DEF WalkInv, Undisturbed, Found
<1>5. Sibs'
  <2> SUFFICES ASSUME trace.at = "sib"
               PROVE  Sibs'
    BY DEF Sibs
  <2>1. trace.kids = 0
    BY DEF WalkInv, Undisturbed, Sibs
  <2>2. CASE trace.pid = init_task
    BY <2>1, <2>2 DEF WalkInv, Undisturbed, Sibs
  <2>3. CASE trace.pid # init_task
    <3>1. PICK p : p = parent[trace.pid]
      OBVIOUS
    <3>2. Circling(p)
      BY <2>3, <3>1 DEF WalkInv, Undisturbed, Sibs
    <3>3. Circling(p)' /\ p = parent'[trace'.pid]
      BY <1>3, <1>4, <2>3, <3>1, <3>2
    <3> QED
      BY <2>1, <2>3, <3>3 DEF Sibs
  <2> QED
    BY <2>2, <2>3
<1>6. SibsDone'
  BY <1>4 DEF WalkInv, Undisturbed, SibsDone
<1> QED
  BY <1>2, <1>5, <1>6 DEF Undisturbed

LEMMA DisturbWalk ==
  ASSUME WalkInv, Disturb
  PROVE  WalkInv'
<1>1. CASE Walking
  <2>1. trace' = [trace EXCEPT !.calm = FALSE]
    BY <1>1 DEF Disturb
  <2>2. trace = [at |-> trace.at, pid |-> trace.pid, cursor |-> trace.cursor,
                 sibs |-> trace.sibs, kids |-> trace.kids, calm |-> trace.calm]
    BY DEF WalkInv, WalkTypes
  <2>3. trace' = [at |-> trace.at, pid |-> trace.pid, cursor |-> trace.cursor,
                  sibs |-> trace.sibs, kids |-> trace.kids, calm |-> FALSE]
    BY <2>1, <2>2
  <2>4. WalkTypes' /\ ~trace'.calm
    BY <1>1, <2>3 DEF WalkInv, WalkTypes, Walking
  <2> QED
    BY <2>4 DEF WalkInv
<1>2. CASE ~Walking
  <2>1. trace' \in {NoWalk("no"), NoWalk("over")}
    BY <1>2 DEF Disturb, WalkInv, WalkTypes
  <2> QED
    BY <2>1, NoWalkWalk
<1> QED
  BY <1>1, <1>2

(* The walk moves, and nothing else.                                       *)
Moved(a, x, c, n, w) ==
  /\ trace' = [at |-> a, pid |-> x, cursor |-> c, sibs |-> n, kids |-> w, calm |-> trace.calm]
  /\ UNCHANGED <<parent, tasks, children>>

LEMMA MoveWalk ==
  ASSUME NEW a \in {"find", "sib", "kids", "done", "absent"}, NEW x \in Tasks, NEW c, NEW n, NEW w,
         Moved(a, x, c, n, w), trace.calm => Undisturbed'
  PROVE  WalkInv'
<1>1. WalkTypes' /\ trace'.calm = trace.calm
  BY DEF Moved, WalkTypes
<1> QED
  BY <1>1 DEF WalkInv

LEMMA WalkFields ==
  ASSUME WalkInv
  PROVE  /\ trace = [at |-> trace.at, pid |-> trace.pid, cursor |-> trace.cursor,
                     sibs |-> trace.sibs, kids |-> trace.kids, calm |-> trace.calm]
         /\ trace.pid \in Tasks
BY DEF WalkInv, WalkTypes

LEMMA AskWalk ==
  ASSUME TreeInv, WalkInv, NEW x \in Tasks, Ask(x)
  PROVE  WalkInv'
<1>1. trace = NoWalk("no")
  BY DEF Ask, WalkInv, WalkTypes
<1>2. Moved("find", x, TaskAt(init_task), 0, 0)
  BY <1>1 DEF Ask, Walk, NoWalk, Moved, TaskAt, tree
<1>3. Nth(0)' = init_task
  BY DEF Nth
<1>4. Searching'
  <2>1. trace'.sibs = 0 /\ trace'.kids = 0 /\ trace'.cursor = TaskAt(init_task) /\ tasks' = tasks
    BY <1>2 DEF Moved
  <2>2. 0 \in 0 .. Len(tasks) /\ \A j \in 0 .. 0 - 1 : Nth(j)' # trace'.pid
    <3>1. Len(tasks) \in Nat
      BY LenProperties DEF TreeInv, Lists
    <3> QED
      BY <3>1
  <2> QED
    BY <1>3, <2>1, <2>2 DEF Searching
<1>5. Undisturbed'
  BY <1>2, <1>4 DEF Moved, Undisturbed, Found, Absent, Sibs, SibsDone, Kids, KidsDone
<1> QED
  BY <1>2, <1>5, MoveWalk

(* The places of the list of processes.                                    *)
LEMMA NthFacts ==
  ASSUME TreeInv
  PROVE  /\ Len(tasks) \in Nat /\ DOMAIN tasks = 1 .. Len(tasks)
         /\ init_task \notin Range(tasks) /\ Range(tasks) \subseteq Tasks
         /\ \A i \in 0 .. Len(tasks) : Nth(i) \in Range(tasks) \cup {init_task}
         /\ \A i, j \in 0 .. Len(tasks) : Nth(i) = Nth(j) => i = j
         /\ \A x \in Range(tasks) \cup {init_task} : \E i \in 0 .. Len(tasks) : Nth(i) = x
         /\ \A x \in Range(tasks) : Linked(x) /\ leader[x] = x
<1>1. Len(tasks) \in Nat /\ DOMAIN tasks = 1 .. Len(tasks)
  BY LenProperties DEF TreeInv, Lists
<1>2. IsInjective(tasks) /\ Range(tasks) = {t \in Tasks \ {init_task} : Linked(t) /\ leader[t] = t}
  BY DEF TreeInv, TreeWhole
<1>3. \A i \in 1 .. Len(tasks) : Nth(i) = tasks[i] /\ tasks[i] \in Range(tasks)
  BY <1>1 DEF Nth, Range
<1>4. Nth(0) = init_task
  BY DEF Nth
<1>5. \A i, j \in 1 .. Len(tasks) : tasks[i] = tasks[j] => i = j
  BY <1>1, <1>2 DEF IsInjective
<1>6. \A x \in Range(tasks) : \E i \in 1 .. Len(tasks) : tasks[i] = x
  BY <1>1 DEF Range
<1>7. \A i \in 0 .. Len(tasks) : i = 0 \/ i \in 1 .. Len(tasks)
  BY <1>1
<1>8. init_task \notin Range(tasks)
  BY <1>2
<1> QED
  BY <1>1, <1>2, <1>3, <1>4, <1>5, <1>6, <1>7, <1>8

LEMMA FindWalk ==
  ASSUME CountInv, TreeInv, WalkInv, Find
  PROVE  WalkInv'
<1>1. PICK x \in Tasks : x = trace.pid
  BY WalkFields
<1>2. trace.at = "find"
  BY DEF Find
<1>3. PICK c, i : /\ c = trace.cursor[2]
                  /\ i = CHOOSE m \in 0 .. Len(tasks) : IF m = 0 THEN c = init_task ELSE tasks[m] = c
  OBVIOUS
<1>4. \/ c = x /\ Moved("sib", x, Follow(TaskAt(c)), trace.sibs, trace.kids)
      \/ c # x /\ i = Len(tasks) /\ Moved("absent", x, trace.cursor, trace.sibs, trace.kids)
      \/ c # x /\ i # Len(tasks) /\ Moved("find", x, TaskAt(tasks[i + 1]), trace.sibs, trace.kids)
  <2>1. \/ c = x /\ Walk([trace EXCEPT !.at = "sib", !.cursor = Follow(TaskAt(c))])
        \/ c # x /\ i = Len(tasks) /\ Walk([trace EXCEPT !.at = "absent"])
        \/ c # x /\ i # Len(tasks) /\ Walk([trace EXCEPT !.cursor = TaskAt(tasks[i + 1])])
    BY <1>1, <1>3 DEF Find
  <2> QED
    BY <1>1, <1>2, <2>1, WalkFields DEF Walk, Moved, tree
<1> SUFFICES ASSUME trace.calm
             PROVE  Undisturbed'
  BY <1>1, <1>4, MoveWalk
<1>5. trace.sibs = 0 /\ trace.kids = 0
  BY <1>2 DEF WalkInv, Undisturbed, Searching
<1>6. PICK h \in 0 .. Len(tasks) : trace.cursor = TaskAt(Nth(h)) /\ \A j \in 0 .. h - 1 : Nth(j) # x
  BY <1>1, <1>2 DEF WalkInv, Undisturbed, Searching
<1>7. c = Nth(h)
  BY <1>3, <1>6 DEF TaskAt
<1>8. i = h
  <2>1. \A j \in 0 .. Len(tasks) : (IF j = 0 THEN c = init_task ELSE tasks[j] = c) <=> j = h
    BY <1>7, NthFacts DEF Nth
  <2> QED
    BY <1>3, <2>1
<1>9. CASE c = x /\ Moved("sib", x, Follow(TaskAt(c)), trace.sibs, trace.kids)
  <2>1. x \in Range(tasks) \cup {init_task}
    BY <1>7, <1>9, NthFacts
  <2>2. /\ trace'.at = "sib" /\ trace'.pid = x /\ trace'.cursor = Follow(TaskAt(x))
        /\ trace'.sibs = 0 /\ trace'.kids = 0 /\ tasks' = tasks /\ parent' = parent
        /\ children' = children
    BY <1>5, <1>9 DEF Moved
  <2>3. Sibs'
    <3>1. CASE x = init_task
      <4>1. \A p \in Tasks : x \notin Range(children[p])
        BY <3>1, NthFacts DEF TreeInv, TreeWhole
      <4>2. Follow(TaskAt(x)) = TaskAt(x)
        <5>1. PICK e : e = TaskAt(x)
          OBVIOUS
        <5>2. e[1] # "head" /\ e[2] = x
          BY <5>1 DEF TaskAt
        <5>3. Follow(e) = IF e[1] = "head"
                          THEN IF children[e[2]] = <<>> THEN e ELSE TaskAt(Head(children[e[2]]))
                          ELSE IF \A q \in Tasks : e[2] \notin Range(children[q]) THEN e
                          ELSE NextOf(e[2])
          BY DEF Follow, NextOf, NextIn
        <5> QED
          BY <4>1, <5>1, <5>2, <5>3
      <4> QED
        BY <2>2, <3>1, <4>2 DEF Sibs
    <3>2. CASE x # init_task
      <4>1. x \in Range(tasks)
        BY <2>1, <3>2
      <4>2. PICK p \in Tasks : p = parent[x]
        BY DEF CountInv, Types
      <4>3. PICK s, n : s = children[p] /\ n = Len(s)
        OBVIOUS
      <4>4. /\ n \in Nat /\ DOMAIN s = 1 .. n /\ Range(s) = {y \in Range(tasks) : parent[y] = p}
        BY <4>3, ChildrenFacts
      <4>5. PICK w \in 1 .. n : s[w] = x
        BY <4>1, <4>2, <4>4 DEF Range
      <4>6. TaskAt(x) = Circle(p, w)
        BY <4>3, <4>4, <4>5 DEF Circle
      <4>7. PICK j \in 0 .. n : j = Onward(p, w) /\ Follow(TaskAt(x)) = Circle(p, j)
        BY <4>3, <4>4, <4>6, CircleFollow
      <4>8. j = IF w = n THEN 0 ELSE w + 1
        BY <4>3, <4>7 DEF Onward
      <4>9. SibAt(p, w, j)'
        <5>1. Circle(p, j)' = Circle(p, j)
          BY <2>2 DEF Circle
        <5>2. IF j > w THEN 0 = j - w - 1
              ELSE IF j = 0 THEN 0 = n - w
              ELSE 0 \in {n - w + j - 1, n - w + j}
          BY <4>4, <4>8
        <5> QED
          BY <2>2, <4>3, <4>5, <4>7, <5>1, <5>2 DEF SibAt
      <4>10. Circling(p)'
        BY <2>2, <4>3, <4>9 DEF Circling
      <4>11. parent'[trace'.pid] = p
        BY <2>2, <4>2
      <4> QED
        BY <2>2, <3>2, <4>10, <4>11 DEF Sibs
    <3> QED
      BY <3>1, <3>2
  <2> QED
    BY <2>1, <2>2, <2>3 DEF Undisturbed, Searching, Found, Absent, SibsDone, Kids, KidsDone
<1>10. CASE c # x /\ i = Len(tasks) /\ Moved("absent", x, trace.cursor, trace.sibs, trace.kids)
  <2>1. /\ trace'.at = "absent" /\ trace'.pid = x /\ tasks' = tasks
    BY <1>10 DEF Moved
  <2>2. \A j \in 0 .. Len(tasks) : Nth(j) # x
    <3>1. \A j \in 0 .. Len(tasks) : j = h \/ j \in 0 .. h - 1
      BY <1>8, <1>10, NthFacts
    <3> QED
      BY <1>6, <1>7, <1>10, <3>1
  <2>3. x \notin Range(tasks) \cup {init_task}
    BY <2>2, NthFacts
  <2> QED
    BY <2>1, <2>3 DEF Undisturbed, Searching, Found, Absent, Sibs, SibsDone, Kids, KidsDone
<1>11. CASE c # x /\ i # Len(tasks) /\ Moved("find", x, TaskAt(tasks[i + 1]), trace.sibs, trace.kids)
  <2>1. /\ trace'.at = "find" /\ trace'.pid = x /\ trace'.cursor = TaskAt(tasks[h + 1])
        /\ trace'.sibs = 0 /\ trace'.kids = 0 /\ tasks' = tasks
    BY <1>5, <1>8, <1>11 DEF Moved
  <2>2. PICK g \in 0 .. Len(tasks) : g = h + 1 /\ g # 0
    <3>1. Len(tasks) \in Nat /\ h # Len(tasks)
      BY <1>8, <1>11, NthFacts
    <3>2. h + 1 \in 0 .. Len(tasks) /\ h + 1 # 0
      BY <3>1
    <3> QED
      BY <3>2
  <2>3. Nth(g) = tasks[h + 1] /\ \A j : Nth(j)' = Nth(j)
    BY <2>1, <2>2 DEF Nth
  <2>4. \A j \in 0 .. g - 1 : Nth(j) # x
    <3>1. \A j \in 0 .. g - 1 : j = h \/ j \in 0 .. h - 1
      BY <2>2, NthFacts
    <3> QED
      BY <1>6, <1>7, <1>11, <3>1
  <2>5. Searching'
    BY <2>1, <2>2, <2>3, <2>4 DEF Searching
  <2> QED
    BY <2>1, <2>5 DEF Undisturbed, Found, Absent, Sibs, SibsDone, Kids, KidsDone
<1> QED
  BY <1>4, <1>9, <1>10, <1>11

LEMMA Counting ==
  ASSUME TreeInv, NEW p \in Tasks, NEW n \in 0 .. Len(children[p])
  PROVE  More(n) = n + 1
<1>1. Len(children[p]) \in Nat /\ Len(children[p]) <= MAX_PID + 1
  BY ChildrenFacts
<1>2. MAX_PID \in Nat
  BY TaskListsAssumption
<1> QED
  BY <1>1, <1>2 DEF More

LEMMA SiblingWalk ==
  ASSUME CountInv, TreeInv, Ancestry, WalkInv, Sibling
  PROVE  WalkInv'
<1>1. PICK x \in Tasks : x = trace.pid
  BY WalkFields
<1>2. trace.at = "sib"
  BY DEF Sibling
<1>3. \/ /\ trace.cursor = TaskAt(x)
         /\ Moved("kids", x, Follow(HeadOf(x)), trace.sibs, trace.kids)
      \/ /\ trace.cursor # TaskAt(x)
         /\ \E m \in IF trace.cursor[1] = "head" THEN {trace.sibs, More(trace.sibs)}
                     ELSE IF trace.cursor[2] # parent[x] THEN {More(trace.sibs)}
                     ELSE {trace.sibs} :
              Moved("sib", x, Follow(trace.cursor), m, trace.kids)
  <2>1. \/ trace.cursor = TaskAt(x) /\ Walk([trace EXCEPT !.at = "kids", !.cursor = Follow(HeadOf(x))])
        \/ /\ trace.cursor # TaskAt(x)
           /\ \E m \in IF trace.cursor[1] = "head" THEN {trace.sibs, More(trace.sibs)}
                       ELSE IF trace.cursor[2] # parent[x] THEN {More(trace.sibs)}
                       ELSE {trace.sibs} :
                Walk([trace EXCEPT !.sibs = m, !.cursor = Follow(trace.cursor)])
    BY <1>1 DEF Sibling
  <2>2. \A m : Walk([trace EXCEPT !.sibs = m, !.cursor = Follow(trace.cursor)]) =>
                Moved("sib", x, Follow(trace.cursor), m, trace.kids)
    BY <1>1, <1>2, WalkFields DEF Walk, Moved, tree
  <2>3. Walk([trace EXCEPT !.at = "kids", !.cursor = Follow(HeadOf(x))]) =>
                Moved("kids", x, Follow(HeadOf(x)), trace.sibs, trace.kids)
    BY <1>1, <1>2, WalkFields DEF Walk, Moved, tree
  <2> QED
    BY <2>1, <2>2, <2>3
<1>4. \E a \in {"sib", "kids"} : \E c, m : Moved(a, x, c, m, trace.kids)
  BY <1>3
<1> SUFFICES ASSUME trace.calm
             PROVE  Undisturbed'
  BY <1>1, <1>4, MoveWalk
<1>5. trace.kids = 0 /\ x \in Range(tasks) \cup {init_task}
  <2>1. Sibs /\ Found
    BY DEF WalkInv, Undisturbed
  <2>2. trace.kids = 0
    BY <1>2, <2>1 DEF Sibs
  <2>3. x \in Range(tasks) \cup {init_task}
    BY <1>1, <1>2, <2>1 DEF Found
  <2> QED
    BY <2>2, <2>3
<1>6. ASSUME x # init_task
      PROVE  \E p \in Tasks, n \in Nat :
               /\ p = parent[x] /\ n = Len(children[p])
               /\ \E w \in 1 .. n, j \in 0 .. n : SibAt(p, w, j)
  <2>1. PICK p \in Tasks : p = parent[x]
    BY DEF CountInv, Types
  <2>2. PICK n \in Nat : n = Len(children[p])
    BY ChildrenFacts
  <2>3. Circling(p)
    BY <1>1, <1>2, <1>6, <2>1 DEF WalkInv, Undisturbed, Sibs
  <2> QED
    BY <2>1, <2>2, <2>3 DEF Circling
<1>7. CASE /\ trace.cursor = TaskAt(x)
           /\ Moved("kids", x, Follow(HeadOf(x)), trace.sibs, trace.kids)
  <2>1. /\ trace'.at = "kids" /\ trace'.pid = x /\ trace'.cursor = Follow(HeadOf(x))
        /\ trace'.sibs = trace.sibs /\ trace'.kids = 0 /\ tasks' = tasks /\ parent' = parent
        /\ children' = children
    BY <1>5, <1>7 DEF Moved
  <2>2. SibsDone'
    <3> SUFFICES ASSUME x # init_task
                 PROVE  Len(children[parent[x]]) > 0 /\ trace.sibs \in
                          {Len(children[parent[x]]) - 1, Len(children[parent[x]])}
      BY <2>1 DEF SibsDone
    <3>0. PICK p \in Tasks, n \in Nat :
                 /\ p = parent[x] /\ n = Len(children[p])
                 /\ \E w \in 1 .. n, j \in 0 .. n : SibAt(p, w, j)
      BY <1>6
    <3>1. PICK w \in 1 .. n, j \in 0 .. n : p = parent[x] /\ n = Len(children[p]) /\ SibAt(p, w, j)
      BY <3>0
    <3>2. trace.cursor = Circle(p, j) /\ children[p][w] = x
      BY <1>1, <3>1 DEF SibAt
    <3>3. TaskAt(x) = Circle(p, w)
      BY <3>1, <3>2 DEF Circle
    <3>4. j = w
      <4>1. Circle(p, j) = Circle(p, w) /\ j \in 0 .. Len(children[p]) /\ w \in 0 .. Len(children[p])
        <5>1. Circle(p, j) = Circle(p, w)
          BY <1>7, <3>2, <3>3
        <5> QED
          BY ONLY <3>1, <5>1, n \in Nat, w \in 1 .. n, j \in 0 .. n
      <4> QED
        BY <4>1, CircleApart
    <3>5. trace.sibs \in {n - w + w - 1, n - w + w}
      BY <3>1, <3>4 DEF SibAt
    <3> QED
      BY <3>1, <3>5
  <2>3. Kids'
    <3>1. PICK n \in Nat : n = Len(children[x])
      BY ChildrenFacts
    <3>2. PICK j \in 0 .. n : j = Onward(x, 0) /\ Follow(Circle(x, 0)) = Circle(x, j)
      BY <3>1, CircleFollow
    <3>3. Circle(x, 0) = HeadOf(x) /\ j = IF n = 0 THEN 0 ELSE 1
      BY <3>1, <3>2 DEF Circle, Onward
    <3>4. Circle(x, j)' = Circle(x, j)
      BY <2>1 DEF Circle
    <3>5. 0 = IF j = 0 THEN n ELSE j - 1
      BY <3>3
    <3> QED
      BY <2>1, <3>1, <3>2, <3>3, <3>4, <3>5 DEF Kids
  <2> QED
    BY <1>5, <2>1, <2>2, <2>3 DEF Undisturbed, Searching, Found, Absent, Sibs, KidsDone
<1>8. ASSUME trace.cursor # TaskAt(x),
             NEW m \in IF trace.cursor[1] = "head" THEN {trace.sibs, More(trace.sibs)}
                       ELSE IF trace.cursor[2] # parent[x] THEN {More(trace.sibs)}
                       ELSE {trace.sibs},
             Moved("sib", x, Follow(trace.cursor), m, trace.kids)
      PROVE  Undisturbed'
  <2>1. /\ trace'.at = "sib" /\ trace'.pid = x /\ trace'.cursor = Follow(trace.cursor)
        /\ trace'.sibs = m /\ trace'.kids = 0 /\ tasks' = tasks /\ parent' = parent
        /\ children' = children
    BY <1>5, <1>8 DEF Moved
  <2>2. x # init_task
    BY <1>1, <1>2, <1>8 DEF WalkInv, Undisturbed, Sibs
  <2>0. PICK p \in Tasks, n \in Nat :
               /\ p = parent[x] /\ n = Len(children[p])
               /\ \E w \in 1 .. n, j \in 0 .. n : SibAt(p, w, j)
    BY <1>6, <2>2
  <2>3. PICK w \in 1 .. n, j \in 0 .. n : p = parent[x] /\ n = Len(children[p]) /\ SibAt(p, w, j)
    BY <2>0
  <2>4. trace.cursor = Circle(p, j) /\ children[p][w] = x
    BY <1>1, <2>3 DEF SibAt
  <2>5. j # w
    BY <1>8, <2>3, <2>4 DEF Circle
  <2>6. PICK h \in 0 .. n : h = Onward(p, j) /\ Follow(Circle(p, j)) = Circle(p, h)
    BY <2>3, CircleFollow
  <2>7. h = IF j = n THEN 0 ELSE j + 1
    BY <2>3, <2>6 DEF Onward
  <2>8. IF j > w THEN trace.sibs = j - w - 1
        ELSE IF j = 0 THEN trace.sibs = n - w
        ELSE trace.sibs \in {n - w + j - 1, n - w + j}
    BY <2>3 DEF SibAt
  <2>9. trace.sibs \in 0 .. n
    BY <2>5, <2>8
  <2>10. More(trace.sibs) = trace.sibs + 1
    BY <2>3, <2>9, Counting
  <2>20. \/ trace.cursor[1] = "head" /\ m \in {trace.sibs, More(trace.sibs)}
         \/ trace.cursor[1] # "head" /\ trace.cursor[2] # parent[x] /\ m = More(trace.sibs)
         \/ trace.cursor[1] # "head" /\ trace.cursor[2] = parent[x]
    BY <1>8
  <2>11. m = trace.sibs + 1 \/ (j = 0 /\ m = trace.sibs)
    <3>1. CASE j = 0
      <4>1. trace.cursor[1] = "head"
        BY <2>3, <2>4, <3>1, CircleApart
      <4> QED
        BY <2>10, <2>20, <3>1, <4>1
    <3>2. CASE j # 0
      <4>1. trace.cursor[1] # "head" /\ trace.cursor[2] = children[p][j]
        BY <2>3, <2>4, <3>2, CircleApart
      <4>2. PICK y \in Range(tasks) : y = children[p][j] /\ parent[y] = p
        BY <2>3, <3>2, ChildrenFacts
      <4>3. y # p
        BY <4>2, NthFacts DEF Ancestry
      <4> QED
        BY <2>3, <2>10, <2>20, <4>1, <4>2, <4>3
    <3> QED
      BY <3>1, <3>2
  <2>12. IF h > w THEN m = h - w - 1
         ELSE IF h = 0 THEN m = n - w
         ELSE m \in {n - w + h - 1, n - w + h}
    <3>1. CASE j = 0
      BY <2>7, <2>8, <2>11, <3>1
    <3>2. CASE j > w
      BY <2>7, <2>8, <2>11, <3>2
    <3>3. CASE j # 0 /\ j < w
      <4>1. trace.sibs \in {n - w + j - 1, n - w + j} /\ m = trace.sibs + 1 /\ h = j + 1
        BY <2>7, <2>8, <2>11, <3>3
      <4> QED
        BY <3>3, <4>1
    <3> QED
      BY <2>5, <3>1, <3>2, <3>3
  <2>13. Circle(p, h)' = Circle(p, h)
    BY <2>1 DEF Circle
  <2>14. SibAt(p, w, h)'
    BY <2>1, <2>3, <2>4, <2>6, <2>12, <2>13 DEF SibAt
  <2>15. Circling(p)' /\ p = parent'[trace'.pid]
    BY <2>1, <2>3, <2>14 DEF Circling
  <2>16. Sibs'
    BY <2>1, <2>2, <2>15 DEF Sibs
  <2> QED
    BY <1>5, <2>1, <2>16 DEF Undisturbed, Searching, Found, Absent, SibsDone, Kids, KidsDone
<1> QED
  BY <1>3, <1>7, <1>8

LEMMA ChildWalk ==
  ASSUME CountInv, TreeInv, WalkInv, Child
  PROVE  WalkInv'
<1>1. PICK x \in Tasks : x = trace.pid
  BY WalkFields
<1>2. trace.at = "kids"
  BY DEF Child
<1>3. \/ trace.cursor = HeadOf(x) /\ Moved("done", x, trace.cursor, trace.sibs, trace.kids)
      \/ /\ trace.cursor # HeadOf(x)
         /\ Moved("kids", x, Follow(trace.cursor), trace.sibs, More(trace.kids))
  BY <1>1, <1>2, WalkFields DEF Child, Walk, Moved, tree
<1>4. \E a \in {"kids", "done"} : \E c, m : Moved(a, x, c, trace.sibs, m)
  BY <1>3
<1> SUFFICES ASSUME trace.calm
             PROVE  Undisturbed'
  BY <1>1, <1>4, MoveWalk
<1>5. x \in Range(tasks) \cup {init_task} /\ SibsDone /\ Kids
  BY <1>1, <1>2 DEF WalkInv, Undisturbed, Found
<1>6. PICK n \in Nat : n = Len(children[x])
  BY ChildrenFacts
<1>7. PICK j \in 0 .. n : trace.cursor = Circle(x, j) /\ trace.kids = IF j = 0 THEN n ELSE j - 1
  BY <1>1, <1>2, <1>5, <1>6 DEF Kids
<1>8. Circle(x, 0) = HeadOf(x)
  BY DEF Circle
<1>9. j = 0 <=> trace.cursor = HeadOf(x)
  BY <1>6, <1>7, <1>8, CircleApart
<1>10. CASE trace.cursor = HeadOf(x) /\ Moved("done", x, trace.cursor, trace.sibs, trace.kids)
  <2>1. /\ trace'.at = "done" /\ trace'.pid = x /\ trace'.sibs = trace.sibs
        /\ trace'.kids = n /\ tasks' = tasks /\ parent' = parent /\ children' = children
    BY <1>7, <1>9, <1>10 DEF Moved
  <2>2. SibsDone'
    BY <1>1, <1>2, <1>5, <2>1 DEF SibsDone
  <2> QED
    BY <1>5, <1>6, <2>1, <2>2 DEF Undisturbed, Searching, Found, Absent, Sibs, Kids, KidsDone
<1>11. CASE /\ trace.cursor # HeadOf(x)
            /\ Moved("kids", x, Follow(trace.cursor), trace.sibs, More(trace.kids))
  <2>1. /\ trace'.at = "kids" /\ trace'.pid = x /\ trace'.cursor = Follow(trace.cursor)
        /\ trace'.sibs = trace.sibs /\ trace'.kids = More(trace.kids)
        /\ tasks' = tasks /\ parent' = parent /\ children' = children
    BY <1>11 DEF Moved
  <2>2. SibsDone'
    BY <1>1, <1>2, <1>5, <2>1 DEF SibsDone
  <2>3. j # 0 /\ trace.kids = j - 1 /\ trace.kids \in 0 .. n
    BY <1>7, <1>9, <1>11
  <2>4. More(trace.kids) = j
    BY <1>6, <2>3, Counting
  <2>5. PICK h \in 0 .. n : h = Onward(x, j) /\ Follow(Circle(x, j)) = Circle(x, h)
    BY <1>6, CircleFollow
  <2>6. j = IF h = 0 THEN n ELSE h - 1
    BY <1>6, <2>3, <2>5 DEF Onward
  <2>7. Circle(x, h)' = Circle(x, h)
    BY <2>1 DEF Circle
  <2>8. Kids'
    BY <1>6, <1>7, <2>1, <2>4, <2>5, <2>6, <2>7 DEF Kids
  <2> QED
    BY <1>5, <2>1, <2>2, <2>8 DEF Undisturbed, Searching, Found, Absent, Sibs, KidsDone
<1> QED
  BY <1>3, <1>10, <1>11

LEMMA InitWalk ==
  ASSUME TaskInit
  PROVE  Ancestry /\ WalkInv
<1>1. NoWalk("no") = trace
  BY DEF TaskInit
<1>2. MAX_PID \in Nat \ {0, 1} /\ 0 \in Tasks /\ 1 \in Tasks /\ 2 \in Tasks
  BY TaskListsAssumption DEF Tasks
<1>3. /\ trace.at = "no" /\ trace.pid = 0
      /\ trace = [at |-> trace.at, pid |-> trace.pid, cursor |-> trace.cursor,
                  sibs |-> trace.sibs, kids |-> trace.kids, calm |-> trace.calm]
  BY <1>1 DEF NoWalk
<1>4. WalkTypes
  BY <1>1, <1>2, <1>3 DEF WalkTypes
<1>5. Undisturbed
  BY <1>3 DEF Undisturbed, Searching, Found, Absent, Sibs, SibsDone, Kids, KidsDone
<1>6. tasks = <<1, 2>> /\ Range(tasks) = {1, 2}
  BY DEF TaskInit, Range
<1>7. Ancestry
  BY <1>2, <1>6 DEF TaskInit, Ancestry, init_task, Reaper
<1> QED
  BY <1>4, <1>5, <1>7 DEF WalkInv

(* The listed tasks and their parents are not the one that changes.        *)
LEMMA ListedFacts ==
  ASSUME CountInv, TreeInv
  PROVE  /\ Reaper \in Tasks /\ Linked(Reaper)
         /\ \A u \in Range(tasks) : /\ u \in Tasks /\ Linked(u) /\ leader[u] = u
                                   /\ parent[u] \in Tasks /\ Linked(parent[u])
         /\ \A u \in Tasks : Linked(u) => Linked(leader[u]) /\ leader[u] \in Tasks
         /\ \A u \in Tasks \ {init_task} : Linked(u) => leader[u] \in Range(tasks) /\ parent[leader[u]] = parent[u]
<1>1. Reaper \in Tasks /\ Linked(Reaper)
  BY TaskFacts DEF CountInv, Makers, Linked
<1>2. \A u \in Range(tasks) : u \in Tasks /\ Linked(u) /\ leader[u] = u /\ parent[u] \in Tasks
  BY DEF CountInv, Types, TreeInv, TreeWhole
<1>3. \A u \in Range(tasks) : Linked(parent[u])
  <2> SUFFICES ASSUME NEW u \in Range(tasks)
               PROVE  Linked(parent[u])
    OBVIOUS
  <2>1. PICK p \in Tasks : p = parent[u]
    BY <1>2
  <2>2. u \in Range(children[p])
    BY <1>2, <2>1 DEF TreeInv, TreeWhole
  <2>3. children[p] # <<>>
    <3>1. Range(<<>>) = {}
      BY DEF Range
    <3> QED
      BY <2>2, <3>1
  <2>4. stage[p] = "running"
    BY <2>3 DEF TreeInv, TreeWhole
  <2> QED
    BY <2>1, <2>4 DEF Linked
<1>4. \A u \in Tasks : Linked(u) => /\ Linked(leader[u]) /\ leader[u] \in Tasks /\ parent[leader[u]] = parent[u]
                                   /\ leader[leader[u]] = leader[u]
                                   /\ (leader[u] = init_task => u = init_task)
  BY DEF CountInv, Types, TreeInv, TreeWhole, Leaders
<1>5. Range(tasks) = {u \in Tasks \ {init_task} : Linked(u) /\ leader[u] = u}
  BY DEF TreeInv, TreeWhole
<1>6. \A u \in Tasks \ {init_task} : Linked(u) => leader[u] \in Range(tasks)
  BY <1>4, <1>5
<1> QED
  BY <1>1, <1>2, <1>3, <1>4, <1>6

(* A task that is in no list may change, and may come into the list.       *)
LEMMA NewAncestry ==
  ASSUME CountInv, TreeInv, Ancestry, NEW c \in Tasks, ~Linked(c),
         \A u \in Tasks \ {c} : parent'[u] = parent[u] /\ leader'[u] = leader[u],
         \A u \in Range(tasks') : u \in Range(tasks) \/ (u = c /\ leader'[parent'[c]] # c)
  PROVE  Ancestry'
<1>1. parent'[Reaper] = init_task
  BY ListedFacts DEF Ancestry
<1>2. ASSUME NEW u \in Range(tasks)
      PROVE  leader'[parent'[u]] # u
  <2>1. u # c /\ u \in Tasks /\ parent[u] # c /\ parent[u] \in Tasks
    BY ListedFacts
  <2>2. parent'[u] = parent[u] /\ leader'[parent[u]] = leader[parent[u]]
    BY <2>1
  <2> QED
    BY <2>2 DEF Ancestry
<1> QED
  BY <1>1, <1>2 DEF Ancestry

LEMMA LinkAncestry ==
  ASSUME CountInv, TreeInv, Ancestry, NEW t \in Tasks, Link(t)
  PROVE  Ancestry'
<1>1. PICK c \in Tasks, p \in Tasks :
        /\ c = child[t] /\ LinkTo(t, p)
        /\ p = t \/ p = parent[t]
  BY DEF Link, CountInv, Types
<1>2. /\ at[t] # no
      /\ parent' = [parent EXCEPT ![c] = p]
      /\ leader' = [leader EXCEPT ![c] = IF "THREAD" \in flags[t] THEN leader[t] ELSE c]
      /\ tasks' = tasks \/ tasks' = Append(tasks, c)
  BY <1>1, KindFacts DEF LinkTo
<1>3. stage[t] = "running" /\ stage[c] = "new" /\ t # init_task
  BY <1>1, <1>2 DEF CountInv, Makers, TreeInv, Leaders
<1>4. ~Linked(c) /\ Linked(t)
  BY <1>3 DEF Linked
<1>5. Linked(p)
  BY <1>1, <1>3, <1>4, ListedFacts
<1>6. /\ \A u \in Tasks \ {c} : parent'[u] = parent[u] /\ leader'[u] = leader[u]
      /\ parent'[c] = p /\ leader'[p] = leader[p] /\ leader[p] # c
  BY <1>2, <1>4, <1>5, ListedFacts DEF CountInv, Types
<1>7. \A u \in Range(tasks') : u \in Range(tasks) \/ u = c
  <2>1. tasks \in Seq(Tasks) /\ IsInjective(tasks) /\ c \notin Range(tasks)
    BY <1>4, ListedFacts DEF TreeInv, Lists, TreeWhole
  <2>2. Range(Append(tasks, c)) = Range(tasks) \cup {c}
    BY <2>1, AppendList
  <2> QED
    BY <1>2, <2>2
<1> QED
  BY <1>4, <1>6, <1>7, NewAncestry

LEMMA ExitAncestry ==
  ASSUME CountInv, TreeInv, Ancestry, NEW t \in Tasks, Exit(t)
  PROVE  Ancestry'
<1>1. PICK a \in Adopters(t) :
        /\ parent' = [c \in Tasks |-> IF parent[c] = t /\ Linked(c) THEN a ELSE parent[c]]
        /\ leader' = leader /\ tasks' = tasks /\ t > Reaper /\ stage[t] = "running"
  BY DEF Exit
<1>2. t # init_task /\ Reaper # t /\ parent[Reaper] # t /\ leader[Reaper] = Reaper
  BY <1>1, TaskFacts DEF init_task, Reaper, Ancestry, CountInv, Makers
<1>3. a = Reaper \/ (a \in Tasks /\ leader[a] = leader[t])
  BY <1>1 DEF Adopters, Group
<1>4. ASSUME NEW u \in Range(tasks)
      PROVE  leader'[parent'[u]] # u
  <2>1. u \in Tasks /\ Linked(u) /\ leader[parent[u]] # u
    BY ListedFacts DEF Ancestry
  <2>2. CASE parent[u] = t
    <3>1. parent'[u] = a /\ u # Reaper /\ leader[t] # u
      BY <1>1, <1>2, <2>1, <2>2
    <3> QED
      BY <1>1, <1>2, <1>3, <3>1
  <2>3. CASE parent[u] # t
    BY <1>1, <2>1, <2>3
  <2> QED
    BY <2>2, <2>3
<1>5. parent'[Reaper] = init_task
  BY <1>1, <1>2, TaskFacts DEF Ancestry
<1> QED
  BY <1>1, <1>4, <1>5 DEF Ancestry

LEMMA ReapAncestry ==
  ASSUME CountInv, TreeInv, Ancestry, NEW t \in Tasks, Reap(t)
  PROVE  Ancestry'
<1>1. tasks' = Delete(tasks, t) /\ stage[t] = "zombie" /\ UNCHANGED <<leader, parent>>
  BY DEF Reap, Gone
<1>2. t \in Range(tasks)
  <2>1. t # init_task /\ Linked(t) /\ leader[t] = t
    BY <1>1 DEF CountInv, Makers, TreeInv, Leaders, Linked
  <2> QED
    BY <2>1, ListedFacts
<1>3. Range(tasks') = Range(tasks) \ {t}
  BY <1>1, <1>2, DeleteList DEF TreeInv, Lists, TreeWhole
<1> QED
  BY <1>1, <1>3 DEF Ancestry

LEMMA NextWalk ==
  ASSUME CountInv, TreeInv, Ancestry, WalkInv, [TaskNext]_taskVars
  PROVE  Ancestry' /\ WalkInv'
<1>1. ASSUME UNCHANGED <<tree, trace>>
      PROVE  Ancestry' /\ WalkInv'
  <2>1. Ancestry'
    BY <1>1 DEF Ancestry, tree
  <2> QED
    BY <1>1, <2>1, FrameWalk DEF tree
<1>2. ASSUME NEW c \in Tasks, ~Linked(c), UNCHANGED <<tasks, children, trace>>,
             \A u \in Tasks \ {c} : parent'[u] = parent[u] /\ leader'[u] = leader[u]
      PROVE  Ancestry' /\ WalkInv'
  <2>1. \A u \in Range(tasks) : u \in Tasks \ {c}
    BY <1>2, ListedFacts
  <2>2. Ancestry'
    BY <1>2, NewAncestry
  <2>3. WalkInv'
    BY <1>2, <2>1, FrameWalk
  <2> QED
    BY <2>2, <2>3
<1>3. ASSUME NEW t \in Tasks, at[t] # no, Give(t)
      PROVE  Ancestry' /\ WalkInv'
  <2>1. PICK c \in Tasks : c = child[t]
    BY DEF CountInv, Types
  <2>2. stage[c] = "new"
    BY <1>3, <2>1 DEF CountInv, Makers
  <2>3. /\ parent' = [parent EXCEPT ![c] = init_task]
        /\ leader' = [leader EXCEPT ![c] = c]
        /\ UNCHANGED <<tasks, children, trace>>
    BY <1>3, <2>1 DEF Give
  <2>4. ~Linked(c) /\ \A u \in Tasks \ {c} : parent'[u] = parent[u] /\ leader'[u] = leader[u]
    BY <2>2, <2>3 DEF CountInv, Types, Linked
  <2> QED
    BY <1>2, <2>3, <2>4
<1>4. ASSUME NEW t \in Tasks, Dup(t)
      PROVE  Ancestry' /\ WalkInv'
  <2>1. PICK c \in Tasks :
          /\ stage[c] = "none"
          /\ parent' = [parent EXCEPT ![c] = parent[t]]
          /\ leader' = [leader EXCEPT ![c] = leader[t]]
          /\ UNCHANGED <<tasks, children, trace>>
    BY <1>4 DEF Dup
  <2>2. ~Linked(c) /\ \A u \in Tasks \ {c} : parent'[u] = parent[u] /\ leader'[u] = leader[u]
    BY <2>1 DEF CountInv, Types, Linked
  <2> QED
    BY <1>2, <2>1, <2>2
<1>5. ASSUME NEW t \in Tasks, Limit(t) \/ Creds(t) \/ Copy(t) \/ Undo(t)
      PROVE  Ancestry' /\ WalkInv'
  <2>1. at[t] # no
    <3>1. /\ 3 \in Nat /\ no = 0 /\ limit = 1 /\ creds = 2 /\ link = 8
          /\ creds + 1 = 3 /\ link - 1 = 7
      BY KindFacts
    <3>2. at[t] \in {limit, creds} \/ at[t] \in creds + 1 .. link
      BY <1>5, <3>1 DEF Limit, Creds, Copy, Undo
    <3> QED
      BY <3>1, <3>2
  <2>2. CASE Limit(t) \/ Creds(t)
    BY <1>1, <1>3, <2>1, <2>2 DEF Limit, Creds, Goto
  <2>3. CASE Copy(t)
    BY <1>1, <2>3 DEF Copy, Goto
  <2>4. CASE Undo(t)
    BY <1>3, <2>1, <2>4 DEF Undo
  <2> QED
    BY <1>5, <2>2, <2>3, <2>4
<1>6. ASSUME NEW t \in Tasks, Refused(t)
      PROVE  Ancestry' /\ WalkInv'
  BY <1>1, <1>6 DEF Refused
<1>7. ASSUME NEW t \in Tasks, Link(t) \/ Exit(t) \/ Reap(t)
      PROVE  Ancestry' /\ WalkInv'
  <2>1. Disturb
    BY <1>7 DEF Link, LinkTo, Exit, Reap
  <2> QED
    BY <1>7, <2>1, DisturbWalk, LinkAncestry, ExitAncestry, ReapAncestry
<1>8. ASSUME NEW x \in Tasks, Ask(x)
      PROVE  Ancestry' /\ WalkInv'
  <2>1. UNCHANGED tree
    BY <1>8 DEF Ask, Walk
  <2>2. Ancestry'
    BY <2>1 DEF Ancestry, tree
  <2> QED
    BY <1>8, <2>2, AskWalk
<1>9. CASE process_tracer
  <2>1. UNCHANGED tree
    BY <1>9 DEF process_tracer, Find, Sibling, Child, Lose, Walk
  <2>2. Ancestry'
    BY <2>1 DEF Ancestry, tree
  <2>3. CASE Lose
    BY <2>2, <2>3, NoWalkWalk DEF Lose, Walk
  <2> QED
    BY <1>9, <2>2, <2>3, FindWalk, SiblingWalk, ChildWalk DEF process_tracer
<1>10. CASE UNCHANGED taskVars
  BY <1>1, <1>10 DEF taskVars
<1> QED
  BY <1>4, <1>5, <1>6, <1>7, <1>8, <1>9, <1>10 DEF TaskNext

LEMMA WalkJudged ==
  ASSUME CountInv, TreeInv, WalkInv
  PROVE  TracerRight
<1> SUFFICES ASSUME trace.calm
             PROVE  /\ trace.at \in {"sib", "kids", "done"} => trace.pid \in Range(tasks) \cup {init_task}
                    /\ trace.at = "absent" => trace.pid \notin Range(tasks) \cup {init_task}
                    /\ trace.at = "done" =>
                         LET siblings == {t \in Range(tasks) \ {trace.pid} : parent[t] = parent[trace.pid]}
                         IN  /\ trace.kids = Cardinality({t \in Range(tasks) : parent[t] = trace.pid})
                             /\ trace.pid # init_task =>
                                  trace.sibs - Cardinality(siblings) \in {0, 1}
  BY DEF TracerRight
<1>1. Found /\ Absent /\ SibsDone /\ KidsDone
  BY DEF WalkInv, Undisturbed
<1>2. PICK x \in Tasks : x = trace.pid
  BY WalkFields
<1>3. ASSUME trace.at = "done"
      PROVE  trace.kids = Cardinality({t \in Range(tasks) : parent[t] = x})
  <2>1. PICK s : s = children[x]
    OBVIOUS
  <2>2. Range(s) = {t \in Range(tasks) : parent[t] = x} /\ Cardinality(Range(s)) = Len(s)
    BY <2>1, ChildrenFacts
  <2>3. trace.kids = Len(s)
    BY <1>1, <1>2, <1>3, <2>1 DEF KidsDone
  <2> QED
    BY <2>2, <2>3
<1>4. ASSUME trace.at = "done", x # init_task
      PROVE  trace.sibs - Cardinality({t \in Range(tasks) \ {x} : parent[t] = parent[x]}) \in {0, 1}
  <2>1. PICK p \in Tasks : p = parent[x]
    BY DEF CountInv, Types
  <2>2. PICK S : S = {t \in Range(tasks) : parent[t] = p}
    OBVIOUS
  <2>7. PICK n \in Nat : n = Len(children[p]) /\ IsFiniteSet(S) /\ Cardinality(S) = n
    <3>1. PICK s : s = children[p]
      OBVIOUS
    <3>2. /\ Range(s) = {t \in Range(tasks) : parent[t] = p} /\ Cardinality(Range(s)) = Len(s)
          /\ IsFiniteSet(Range(s)) /\ Len(s) \in Nat
      BY <3>1, ChildrenFacts
    <3> QED
      BY <2>2, <3>1, <3>2
  <2>3. x \in S
    BY <1>1, <1>2, <1>4, <2>1, <2>2 DEF Found
  <2>4. Cardinality(S \ {x}) = n - 1
    BY <2>3, <2>7, FS_RemoveElement
  <2>5. {t \in Range(tasks) \ {x} : parent[t] = parent[x]} = S \ {x}
    BY <2>1, <2>2
  <2>6. trace.sibs \in {n - 1, n}
    BY <1>1, <1>2, <1>4, <2>1, <2>7 DEF SibsDone
  <2>8. trace.sibs - (n - 1) \in {0, 1}
    BY ONLY <2>6, n \in Nat
  <2> QED
    BY <2>4, <2>5, <2>8
<1> QED
  BY <1>1, <1>2, <1>3, <1>4 DEF Found, Absent

(* However many tasks there are and whatever happened before, a walk that  *)
(* nothing disturbs finds the process if there is one, counts its children *)
(* and of its siblings at most one too many.                               *)
THEOREM TracerCounts == TaskSpec => []TracerRight
<1>1. TaskInit => CountInv /\ TreeInv /\ Ancestry /\ WalkInv
  BY InitCounts, InitTree, InitWalk
<1>2. CountInv /\ TreeInv /\ Ancestry /\ WalkInv /\ [TaskNext]_taskVars
        => (CountInv /\ TreeInv /\ Ancestry /\ WalkInv)'
  BY NextCounts, NextTree, NextWalk
<1>3. CountInv /\ TreeInv /\ Ancestry /\ WalkInv => TracerRight
  BY WalkJudged
<1> QED
  BY <1>1, <1>2, <1>3, PTL DEF TaskSpec
=============================================================================
