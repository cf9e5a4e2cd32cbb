------------------------------- MODULE IoTrace -------------------------------
(***************************************************************************)
(* What the hooks of Assignment 2-3 count.  The variables are those of     *)
(* ftracehooking, which exports them: a process that calls os_ftrace names *)
(* the one to be traced, and asks with pid 0 for the numbers.  The hooks   *)
(* of iotracehooking count a call after the original has returned to them. *)
(* Every step is a step of SyscallHooks.                                   *)
(***************************************************************************)
EXTENDS SyscallHooks

CONSTANTS
  Ftrace,     \* the module that has the numbers
  NoPid,      \* cur_pid of a module just loaded
  Closing,    \* the entry of close, which may fail
  MAX_CALLS   \* bound: calls of each kind that are counted

ASSUME IoTraceAssumption ==
  /\ Ftrace \in Modules /\ NoPid \notin Callers /\ Closing \in Slots /\ MAX_CALLS \in Nat

VARIABLES
  cur_pid,
  num,     \* open_num, read_num, write_num, lseek_num, close_num
  base,    \* history: what num was when the present trace was asked for
  whole,   \* history: the calls since then that began after it
  inside   \* history: the callers whose call began after it

session == <<cur_pid, num, base, whole, inside>>
tvars == <<vars, session>>

Zero == [s \in Slots |-> 0]

Fresh == cur_pid = NoPid /\ num = Zero /\ base = Zero /\ whole = Zero /\ inside = {}
TraceInit == Init /\ Fresh

(* The variables of a module are new when it is loaded.                    *)
LoadTrace(m) ==
  /\ Insmod(m)
  /\ IF m = Ftrace THEN cur_pid' = NoPid /\ num' = Zero /\ base' = Zero /\ whole' = Zero /\ inside' = {}
     ELSE UNCHANGED session

Call(c) ==
  /\ Enter(c)
  /\ inside' = inside \cup {c}
  /\ UNCHANGED <<cur_pid, num, base, whole>>

(* my_ftrace with the pid of a process: nothing is set back.               *)
Start(c) ==
  /\ frames[c] = <<Ftrace>> /\ Return(c)
  /\ cur_pid' \in Callers
  /\ base' = num /\ whole' = Zero /\ inside' = {}
  /\ UNCHANGED num

(* my_ftrace with pid 0, which prints the numbers, or with that of none.   *)
End(c) ==
  /\ frames[c] = <<Ftrace>> /\ Return(c)
  /\ inside' = inside \ {c}
  /\ UNCHANGED <<cur_pid, num, base, whole>>

CountsAll(c, ok) == nr[c] = Closing => ok
Counts(c, ok) == cur_pid = c /\ (nr[c] = Closing => ok)

(* The original returns to the hook, which counts the call and returns.    *)
Hooked(c) ==
  /\ Len(frames[c]) > 1 /\ Return(c) /\ num[nr[c]] < MAX_CALLS
  /\ \E ok \in BOOLEAN :
       /\ num' = IF Counts(c, ok) THEN [num EXCEPT ![nr[c]] = @ + 1] ELSE num
       /\ whole' = IF c \in inside /\ cur_pid = c /\ (nr[c] = Closing => ok)
                     THEN [whole EXCEPT ![nr[c]] = @ + 1] ELSE whole
  /\ inside' = inside \ {c}
  /\ UNCHANGED <<cur_pid, base>>

Unhooked(c) ==
  /\ Len(frames[c]) = 1 /\ frames[c] # <<Ftrace>> /\ Return(c)
  /\ inside' = inside \ {c}
  /\ UNCHANGED <<cur_pid, num, base, whole>>

TraceNext ==
  \/ \E m \in Modules :
       \/ LoadTrace(m)
       \/ (MakeRw(m) \/ Save(m) \/ HookSlot(m) \/ Rmmod(m) \/ Restore(m) \/ MakeRo(m)) /\ UNCHANGED session
  \/ \E c \in Callers :
       \/ Call(c) \/ Start(c) \/ End(c) \/ Hooked(c) \/ Unhooked(c)
       \/ CallOriginal(c) /\ UNCHANGED session

TraceSpec == TraceInit /\ [][TraceNext]_tvars

---------------------------------------------------------------------------

(* What a trace adds to the numbers are the calls of the traced process    *)
(* that began and returned since it was asked for, and at most one more,   *)
(* which was in the kernel at that time.  For the first trace after the    *)
(* module is loaded, and for no other, it is what End prints.              *)
TraceCounts ==
  LET more == {s \in Slots : num[s] # base[s] + whole[s]}
  IN  /\ \A s \in more : num[s] = base[s] + whole[s] + 1
      /\ \A s, t \in more : s = t
=============================================================================
