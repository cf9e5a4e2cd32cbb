--------------------------------- MODULE Sums ---------------------------------
(***************************************************************************)
(* The sums of Assignment 3-2: numgen.c writes the numbers to temp.txt,    *)
(* fork.c adds them with a process for each left half, whose exit status   *)
(* brings back its sum, thread.c with a thread for each half.  Both append *)
(* the sums of the parts to the file they were read from.                  *)
(*                                                                         *)
(* A node is the part [lo, hi) of the numbers that a call of fork_sum or   *)
(* thread_sum adds.                                                        *)
(***************************************************************************)
EXTENDS Naturals, Sequences, FiniteSets, SequencesExt

CONSTANTS Files,   \* what temp.txt may hold at first
          MAX,     \* numbers that temp_num has room for
          NoValue, \* of a call that has not returned
          Garbage, \* what an int that was never set may hold
          MAX_RUNS \* bound: programs run one after the other

ASSUME SumsAssumption ==
  /\ Files \subseteq Seq(Nat) /\ MAX \in Nat \ {0} /\ MAX_RUNS \in Nat
  /\ NoValue \notin Nat /\ Garbage \subseteq Nat

VARIABLES
  temp,    \* temp.txt
  prog,    \* the program that runs
  nums,    \* temp_num of it
  calls,   \* for each process or thread, named for its node: the calls it is
           \* in, outermost first
  value,   \* what its innermost call has returned, or NoValue
  zombies, \* for each process, the statuses of children not waited for
  joining, \* the threads that have created both of theirs
  total,   \* what it prints
  failed,  \* history: a process or a thread could not be created
  runs

sumsVars == <<temp, prog, nums, calls, value, zombies, joining, total, failed, runs>>

Lo(n) == n[1]
Hi(n) == n[2]
Mid(n) == (Lo(n) + Hi(n)) \div 2
LeftHalf(n) == <<Lo(n), Mid(n)>>
RightHalf(n) == <<Mid(n), Hi(n)>>
Small(n) == Hi(n) - Lo(n) <= 1
Sum(s) ==
  LET upTo[k \in 0 .. Len(s)] == IF k = 0 THEN 0 ELSE upTo[k - 1] + s[k]
  IN  upTo[Len(s)]
Part(n) == SubSeq(nums, Lo(n) + 1, Hi(n))

Root == <<0, Len(nums)>>
Live == DOMAIN calls

SumsInit ==
  /\ temp \in Files /\ prog = "none" /\ nums = <<>>
  /\ calls = <<>> /\ value = <<>> /\ zombies = <<>> /\ joining = {}
  /\ total = NoValue /\ failed = FALSE /\ runs = 0

(* Bound: no program is run after a failure, which leaves a file like any  *)
(* other that may be there at first.                                       *)
Starts == prog = "none" /\ ~failed /\ runs < MAX_RUNS /\ runs' = runs + 1

(* numgen: the numbers from 1 on, and nothing of what was there.           *)
Numgen ==
  /\ Starts
  /\ temp' = [k \in 1 .. MAX |-> k] /\ total' = NoValue
  /\ UNCHANGED <<prog, nums, calls, value, zombies, joining, failed>>

(* main: all that is in the file is read, however much the array holds.    *)
Main(p) ==
  /\ Starts
  /\ nums' = temp /\ total' = NoValue
  /\ IF Len(temp) > MAX
       THEN prog' = "undefined" /\ UNCHANGED <<calls, value, zombies>>
       ELSE /\ prog' = p
            /\ calls' = [q \in {<<0, Len(temp)>>} |-> <<q>>]
            /\ value' = [q \in {<<0, Len(temp)>>} |-> NoValue]
            /\ zombies' = [q \in {<<0, Len(temp)>>} |-> <<>>]
  /\ UNCHANGED <<temp, joining, failed>>

Inner(p) == Last(calls[p])
With(f, n, x) == [q \in DOMAIN f \cup {n} |-> IF q = n THEN x ELSE f[q]]

---------------------------------------------------------------------------
(* fork.c                                                                  *)

(* fork, after which the parent calls fork_sum for the right half.         *)
ForkSum(p) ==
  /\ prog = "fork" /\ p \in Live /\ value[p] = NoValue /\ ~Small(Inner(p))
  /\ LET left == LeftHalf(Inner(p))
     IN  /\ calls' = With([calls EXCEPT ![p] = Append(@, RightHalf(Inner(p)))], left, <<left>>)
         /\ value' = With(value, left, NoValue)
         /\ zombies' = With(zombies, left, <<>>)
  /\ UNCHANGED <<temp, prog, nums, joining, total, failed, runs>>

(* -1 is not 0: without a child the process goes on as its parent.         *)
ForkFails(p) ==
  /\ prog = "fork" /\ p \in Live /\ value[p] = NoValue /\ ~Small(Inner(p))
  /\ calls' = [calls EXCEPT ![p] = Append(@, RightHalf(Inner(p)))]
  /\ failed' = TRUE
  /\ UNCHANGED <<temp, prog, nums, value, zombies, joining, total, runs>>

ForkBase(p) ==
  /\ prog = "fork" /\ p \in Live /\ value[p] = NoValue /\ Small(Inner(p))
  /\ value' = [value EXCEPT ![p] = Sum(Part(Inner(p)))]
  /\ UNCHANGED <<temp, prog, nums, calls, zombies, joining, total, failed, runs>>

Clipped(v) == IF v > 255 THEN 255 ELSE v
Reduced(v) == IF v > 256 THEN v % 256 ELSE v

(* The call has returned to the one that made it, which waits for a child, *)
(* whichever has ended, and writes the sum.                                *)
Wait(p) ==
  /\ prog = "fork" /\ p \in Live /\ value[p] # NoValue /\ Len(calls[p]) > 1
  /\ \E k \in DOMAIN zombies[p] :
       LET sum == zombies[p][k] + Reduced(value[p])
       IN  /\ temp' = Append(temp, sum)
           /\ value' = [value EXCEPT ![p] = sum]
           /\ zombies' = [zombies EXCEPT ![p] = RemoveAt(@, k)]
  /\ calls' = [calls EXCEPT ![p] = Front(@)]
  /\ UNCHANGED <<prog, nums, joining, total, failed, runs>>

(* The process that has forked n: the innermost part around it.            *)
Within(n, p) == Lo(p) <= Lo(n) /\ Hi(n) <= Hi(p)
Parent(n) == CHOOSE p \in Live \ {n} :
  Within(n, p) /\ \A q \in Live \ {n} : Within(n, q) => Within(p, q)
Alone(p) == zombies[p] = <<>> /\ \A q \in Live \ {Root} : Parent(q) # p

WaitRetries(p) ==
  /\ prog = "fork" /\ p \in Live /\ value[p] # NoValue /\ Len(calls[p]) > 1
  /\ Alone(p)
  /\ UNCHANGED sumsVars
(* There is no child to wait for, and child_sum is what it was.            *)
WaitFails(p) ==
  /\ prog = "fork" /\ p \in Live /\ value[p] # NoValue /\ Len(calls[p]) > 1
  /\ Alone(p)
  /\ \E g \in Garbage :
       LET sum == g + Reduced(value[p])
       IN  temp' = Append(temp, sum) /\ value' = [value EXCEPT ![p] = sum]
  /\ calls' = [calls EXCEPT ![p] = Front(@)]
  /\ UNCHANGED <<prog, nums, zombies, joining, total, failed, runs>>
Ends(p) == p \in Live /\ value[p] # NoValue /\ Len(calls[p]) = 1

(* exit of a child: eight bits of its sum are left of it.                  *)
Exit(p) ==
  /\ prog = "fork" /\ Ends(p) /\ p # Root
  /\ zombies' = [q \in Live \ {p} |->
                   IF q = Parent(p) THEN Append(zombies[q], Reduced(value[p]) % 256) ELSE zombies[q]]
  /\ calls' = [q \in Live \ {p} |-> calls[q]]
  /\ value' = [q \in Live \ {p} |-> value[q]]
  /\ UNCHANGED <<temp, prog, nums, joining, total, failed, runs>>

---------------------------------------------------------------------------
(* thread.c                                                                *)

Halves(p) == {LeftHalf(p), RightHalf(p)}

(* Both threads are created before the first is joined.                    *)
Create(p) ==
  /\ prog = "thread" /\ p \in Live /\ value[p] = NoValue /\ ~Small(p) /\ p \notin joining
  /\ joining' = joining \cup {p}
  /\ LET left  == LeftHalf(p)
         right == RightHalf(p)
     IN  /\ calls' = With(With(calls, left, <<left>>), right, <<right>>)
         /\ value' = With(With(value, left, NoValue), right, NoValue)
  /\ UNCHANGED <<temp, prog, nums, zombies, total, failed, runs>>

(* A thread that could not be created is joined by a name that was never   *)
(* set.                                                                    *)
CreateFails(p) ==
  /\ prog = "thread" /\ p \in Live /\ value[p] = NoValue /\ ~Small(p) /\ p \notin joining
  /\ prog' = "undefined" /\ failed' = TRUE
  /\ UNCHANGED <<temp, nums, calls, value, zombies, joining, total, runs>>

ThreadBase(p) ==
  /\ prog = "thread" /\ p \in Live /\ value[p] = NoValue /\ Small(p)
  /\ value' = [value EXCEPT ![p] = Sum(Part(p))]
  /\ UNCHANGED <<temp, prog, nums, calls, zombies, joining, total, failed, runs>>

(* The results that both have left behind are added.                       *)
Join(p) ==
  /\ prog = "thread" /\ p \in joining
  /\ \A h \in Halves(p) : value[h] # NoValue
  /\ joining' = joining \ {p}
  /\ LET sum == value[LeftHalf(p)] + value[RightHalf(p)]
     IN  /\ value' = [q \in Live \ Halves(p) |-> IF q = p THEN sum ELSE value[q]]
         /\ temp' = Append(temp, sum)
  /\ calls' = [q \in Live \ Halves(p) |-> calls[q]]
  /\ UNCHANGED <<prog, nums, zombies, total, failed, runs>>

---------------------------------------------------------------------------

Output ==
  /\ prog \in {"fork", "thread"} /\ Ends(Root)
  /\ total' = [of |-> prog, value |-> value[Root]] /\ prog' = "none"
  /\ calls' = <<>> /\ value' = <<>> /\ zombies' = <<>>
  /\ UNCHANGED <<temp, nums, joining, failed, runs>>

Step(p) ==
  \/ ForkSum(p) \/ ForkFails(p) \/ ForkBase(p) \/ Wait(p) \/ WaitFails(p) \/ Exit(p)
  \/ Create(p) \/ CreateFails(p) \/ ThreadBase(p) \/ Join(p)
SumsNext == Numgen \/ Main("fork") \/ Main("thread") \/ Output \/ \E p \in Live : Step(p)

SumsSpec == SumsInit /\ [][SumsNext]_sumsVars /\ WF_sumsVars(Output \/ \E p \in Live : Step(p))

---------------------------------------------------------------------------

(* The sums that are printed: thread.c adds every number once.  fork.c may *)
(* wait for its children in any order, and adds a part in the wrong place  *)
(* then; what it prints is still the sum modulo 256, and the sum itself if *)
(* that fits into an exit status.  No process ends before its children,    *)
(* and none waits for more than it has.  All this as long as each fork and *)
(* pthread_create succeeds.                                                *)
SumKept == ~failed =>
  /\ total # NoValue =>
       LET sum == Sum(nums)
       IN  IF total.of = "thread" \/ sum < 256 THEN total.value = sum
           ELSE total.value % 256 = sum % 256
  /\ prog = "fork" => \A p \in Live : Alone(p) <=> Len(calls[p]) = 1

(* Every wait and every join comes back, also when forks have failed, so   *)
(* each program that does not write beyond its array ends; unless a thread *)
(* could not be created, whose join may do anything.                       *)
Finishes == prog \in {"fork", "thread"} ~> prog = "none" \/ (prog = "undefined" /\ failed)
=============================================================================
