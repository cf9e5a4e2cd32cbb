---------------------------- MODULE SyscallHooks ----------------------------
(***************************************************************************)
(* The kernel modules of assignments 2-2, 2-3, 3-1 and 4-1, which replace  *)
(* entries of sys_call_table: os_ftracehooking, ftracehooking,             *)
(* Process_tracer and file_varea take entry 336 and make the page of the   *)
(* table writable; iotracehooking takes the five entries of the I/O calls  *)
(* and relies on ftracehooking for the permission.  insmod and rmmod of    *)
(* different modules run concurrently, and processes make system calls in  *)
(* between: every access to the table is an action of its own.             *)
(***************************************************************************)
EXTENDS Naturals, Sequences

CONSTANTS
  Modules,    \* the modules at hand
  Slots,      \* the entries of the table they are about
  Hooks,      \* Hooks[m]: the entries m replaces, in the order of its init
  Flips,      \* the modules that call make_rw and make_ro
  Wraps,      \* the modules whose hooks call the function they replaced
  Needs,      \* Needs[m]: the modules whose exported symbols m uses
  Original,   \* the function the kernel has in every entry
  Callers     \* processes that make system calls

ASSUME HooksAssumption ==
  /\ Hooks \in [Modules -> Seq(Slots)]
  /\ \A m \in Modules : \A i, j \in 1 .. Len(Hooks[m]) :
       Hooks[m][i] = Hooks[m][j] => i = j
  /\ \A m \in Modules : Hooks[m] # <<>>
  /\ Flips \subseteq Modules /\ Wraps \subseteq Modules
  /\ Needs \in [Modules -> SUBSET Modules]
  /\ Original \notin Modules

Functions == Modules \cup {Original}   \* a hook is named by its module

VARIABLES
  table,   \* sys_call_table
  rw,      \* may its page be written?
  state,   \* how far each module is, see TypeOK
  k,       \* the entry of Hooks[m] it is at
  saved,   \* its pointers to the functions it replaced
  nr,      \* the entry of the table each caller has called
  frames   \* the functions it is in, the innermost last

modvars == <<table, rw, state, k, saved>>
calls == <<nr, frames>>
vars == <<table, rw, state, k, saved, nr, frames>>

(* out: not in memory; rw, save, hook: in its init; in: loaded; restore,   *)
(* ro: in its exit; dead: its init or exit died of a fault, it stays.      *)
TypeOK ==
  /\ table \in [Slots -> Functions]
  /\ rw \in BOOLEAN
  /\ state \in [Modules -> {"out", "rw", "save", "hook", "in", "restore",
                            "ro", "dead"}]
  /\ k \in [Modules -> Nat]
  /\ \A m \in Modules : k[m] \in 1 .. Len(Hooks[m])
  /\ saved \in [Modules -> [Slots -> Functions]]
  /\ nr \in [Callers -> Slots]
  /\ frames \in [Callers -> Seq(Functions)]

Init ==
  /\ table = [s \in Slots |-> Original]
  /\ rw = FALSE
  /\ state = [m \in Modules |-> "out"]
  /\ k = [m \in Modules |-> 1]
  /\ saved = [m \in Modules |-> [s \in Slots |-> Original]]
  /\ nr \in [Callers -> Slots]
  /\ frames = [c \in Callers |-> <<>>]

---------------------------------------------------------------------------
(* insmod and rmmod.                                                       *)

Slot(m) == Hooks[m][k[m]]

(* A write to the table while its page is read-only kills insmod or rmmod; *)
(* the module is left where it was and can no longer be unloaded.          *)
WriteFault(m) ==
  /\ state' = [state EXCEPT ![m] = "dead"]
  /\ UNCHANGED <<table, k>>

(* The kernel loads m once the modules it needs are loaded.                *)
Insmod(m) ==
  /\ state[m] = "out" /\ \A n \in Needs[m] : state[n] = "in"
  /\ state' = [state EXCEPT ![m] = IF m \in Flips THEN "rw" ELSE "save"]
  /\ k' = [k EXCEPT ![m] = 1]
  /\ UNCHANGED <<table, rw, saved, calls>>

MakeRw(m) ==
  /\ state[m] = "rw"
  /\ rw' = TRUE
  /\ state' = [state EXCEPT ![m] = "save"]
  /\ UNCHANGED <<table, k, saved, calls>>

(* Seeded fault: the entry is read after it has been replaced.             *)
SaveOwnHook(m) ==
  /\ state[m] = "save"
  /\ saved' = [saved EXCEPT ![m][Slot(m)] = m]
  /\ state' = [state EXCEPT ![m] = "hook"]
  /\ UNCHANGED <<table, rw, k, calls>>

Save(m) ==
  /\ state[m] = "save"
  /\ saved' = [saved EXCEPT ![m][Slot(m)] = table[Slot(m)]]
  /\ state' = [state EXCEPT ![m] = "hook"]
  /\ UNCHANGED <<table, rw, k, calls>>

HookSlot(m) ==
  /\ state[m] = "hook"
  /\ UNCHANGED <<rw, saved, calls>>
  /\ IF ~rw THEN WriteFault(m)
     ELSE /\ table' = [table EXCEPT ![Slot(m)] = m]
          /\ IF k[m] < Len(Hooks[m])
               THEN /\ state' = [state EXCEPT ![m] = "save"]
                    /\ k' = [k EXCEPT ![m] = @ + 1]
               ELSE state' = [state EXCEPT ![m] = "in"] /\ UNCHANGED k

(* The kernel unloads m when no module in memory needs it; system calls in *)
(* progress do not count.                                                  *)
Rmmod(m) ==
  /\ state[m] = "in"
  /\ \A n \in Modules : m \in Needs[n] => state[n] = "out"
  /\ state' = [state EXCEPT ![m] = "restore"]
  /\ k' = [k EXCEPT ![m] = 1]
  /\ UNCHANGED <<table, rw, saved, calls>>

(* Seeded fault: the last entry is not given back.                         *)
RestoreForgetsLast(m) ==
  /\ state[m] = "restore" /\ rw
  /\ table' = IF k[m] < Len(Hooks[m])
                THEN [table EXCEPT ![Slot(m)] = saved[m][Slot(m)]] ELSE table
  /\ IF k[m] < Len(Hooks[m])
       THEN k' = [k EXCEPT ![m] = @ + 1] /\ UNCHANGED state
       ELSE /\ state' = [state EXCEPT ![m] = IF m \in Flips THEN "ro"
                                                            ELSE "out"]
            /\ UNCHANGED k
  /\ UNCHANGED <<rw, saved, calls>>

Restore(m) ==
  /\ state[m] = "restore"
  /\ UNCHANGED <<rw, saved, calls>>
  /\ IF ~rw THEN WriteFault(m)
     ELSE /\ table' = [table EXCEPT ![Slot(m)] = saved[m][Slot(m)]]
          /\ IF k[m] < Len(Hooks[m])
               THEN k' = [k EXCEPT ![m] = @ + 1] /\ UNCHANGED state
               ELSE /\ state' = [state EXCEPT ![m] = IF m \in Flips THEN "ro"
                                                                     ELSE "out"]
                    /\ UNCHANGED k

MakeRo(m) ==
  /\ state[m] = "ro"
  /\ rw' = FALSE
  /\ state' = [state EXCEPT ![m] = "out"]
  /\ UNCHANGED <<table, k, saved, calls>>

---------------------------------------------------------------------------
(* System calls.                                                           *)

InMemory(f) == IF f = Original THEN TRUE ELSE state[f] # "out"
Inner(c) == frames[c][Len(frames[c])]

Enter(c) ==
  /\ frames[c] = <<>>
  /\ \E s \in Slots : /\ InMemory(table[s])
                      /\ nr' = [nr EXCEPT ![c] = s]
                      /\ frames' = [frames EXCEPT ![c] = <<table[s]>>]
  /\ UNCHANGED modvars

(* ftrace_openat and its kind call the original; they may sleep in it.     *)
CallOriginal(c) ==
  /\ frames[c] # <<>>
  /\ \E m \in Wraps :
       /\ Inner(c) = m /\ InMemory(m) /\ InMemory(saved[m][nr[c]])
       /\ frames' = [frames EXCEPT ![c] = Append(@, saved[m][nr[c]])]
  /\ UNCHANGED <<modvars, nr>>

(* The hooks of entry 336 return at once, the wrapping ones when the       *)
(* function they called has returned to them.                              *)
Return(c) ==
  /\ frames[c] # <<>> /\ Inner(c) \notin Wraps
  /\ \A j \in 1 .. Len(frames[c]) : InMemory(frames[c][j])
  /\ frames' = [frames EXCEPT ![c] = <<>>]
  /\ UNCHANGED <<modvars, nr>>

Next ==
  \/ \E m \in Modules :
       \/ Insmod(m) \/ MakeRw(m) \/ Save(m) \/ HookSlot(m)
       \/ Rmmod(m) \/ Restore(m) \/ MakeRo(m)
  \/ \E c \in Callers : Enter(c) \/ CallOriginal(c) \/ Return(c)

Spec == Init /\ [][Next]_vars

---------------------------------------------------------------------------
(* Properties.                                                             *)

(* The modules keep out of each other's way: no entry belongs to two of    *)
(* them, and one module changes the permission for all others, which need  *)
(* it.  So it is for ftracehooking with iotracehooking.                    *)
Separate ==
  /\ \A m, n \in Modules : \A i \in 1 .. Len(Hooks[m]), j \in 1 .. Len(Hooks[n]) :
       Hooks[m][i] = Hooks[n][j] => m = n
  /\ \E b \in Modules : /\ Flips = {b} /\ Needs[b] = {}
                        /\ \A m \in Modules \ {b} : b \in Needs[m]

(* No insmod or rmmod writes the table while it is read-only: the module   *)
(* without make_rw (2-3 iotracehooking) is covered by the one it needs.    *)
NoWriteFaults == \A m \in Modules : state[m] # "dead"

(* When nothing is loaded the table is as it was.                          *)
TableRestored ==
  (\A m \in Modules : state[m] = "out") =>
    table = [s \in Slots |-> Original]

(* When nothing is loaded its page is read-only, even when modules that    *)
(* take the same entry are loaded and unloaded at the same time.           *)
PermissionReturned == (\A m \in Modules : state[m] = "out") => ~rw

(* No entry of the table points into a module that is no longer there, nor *)
(* does the pointer a hook would call.                                     *)
EntriesInMemory ==
  \A s \in Slots :
    /\ InMemory(table[s])
    /\ \A m \in Wraps : table[s] = m => InMemory(saved[m][s])

(* A system call reaches the original function after at most one hook.     *)
OneHookPerCall ==
  \A c \in Callers :
    /\ Len(frames[c]) <= 2
    /\ Len(frames[c]) = 2 => frames[c][2] = Original
=============================================================================
