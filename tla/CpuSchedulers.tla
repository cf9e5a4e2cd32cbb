--------------------------- MODULE CpuSchedulers ---------------------------
(***************************************************************************)
(* cpu_scheduler.c of assignment 3-3: one simulated processor, four ways   *)
(* to choose the process it runs.  A step is one iteration of the main     *)
(* loop of the policy; the clock of the simulation is a variable of it.    *)
(* The arrays of MAX entries are unbounded here, and bursts and slices     *)
(* positive: with a zero burst the loops of SJF, SRTF and RR never end.    *)
(***************************************************************************)
EXTENDS Integers, Sequences, FiniteSets, FiniteSetsExt

CONSTANTS
  N,          \* how many processes the file lists
  Arrivals,   \* arrival times that occur in it
  Bursts,     \* bursts that occur in it
  Slices      \* time slices given to RR

ASSUME CpuAssumption ==
  /\ N \in Nat \ {0}
  /\ Arrivals \subseteq Nat
  /\ Bursts \subseteq 1 .. 1000
  /\ Slices \subseteq Nat \ {0}

Proc == 0 .. N - 1
Policies == {"FCFS", "SJF", "SRTF", "RR"}

VARIABLES
  policy, slice,           \* the arguments
  arrival, job,            \* the file: arrival times and bursts
  burst, remaining,        \* pc[i].burst and pc[i].remaining
  start,                   \* pc[i].start
  ready, ready_start,      \* the ready queue of RR and its first live entry
  current_time, completed,
  wait_time, turnaround_time, response_time, busy_time,
  pc_queue,                \* the Gantt chart
  at                       \* history: when each entry of the chart ran

file == <<policy, slice, arrival, job>>
sums == <<wait_time, turnaround_time, response_time, busy_time>>
chart == <<pc_queue, at>>
vars == <<file, burst, remaining, start, ready, ready_start, current_time,
          completed, sums, chart>>

(* The file is read and the policy starts.                                 *)
Init ==
  /\ policy \in Policies
  /\ slice \in IF policy = "RR" THEN Slices ELSE {CHOOSE s \in Slices : TRUE}
  /\ arrival \in [Proc -> Arrivals] /\ job \in [Proc -> Bursts]
  /\ burst = job /\ remaining = job
  /\ start = [i \in Proc |-> 0]
  /\ ready = <<>> /\ ready_start = 1
  /\ current_time = 0 /\ completed = 0
  /\ wait_time = 0 /\ turnaround_time = 0 /\ response_time = 0 /\ busy_time = 0
  /\ pc_queue = <<>> /\ at = <<>>

---------------------------------------------------------------------------

(* The chart gets process i for d units from time t.                       *)
Execute(i, t, d) ==
  /\ pc_queue' = pc_queue \o [u \in 1 .. d |-> i]
  /\ at' = at \o [u \in 1 .. d |-> t + u - 1]
  /\ current_time' = t + d

CompleteStaleStart(i, waited, end) ==
  /\ completed' = completed + 1
  /\ wait_time' = wait_time + waited
  /\ turnaround_time' = turnaround_time + (end - arrival[i])
  /\ response_time' = response_time + (start[i] - arrival[i])
  /\ busy_time' = busy_time + burst[i]

(* i is done at time end after waiting for so long.                        *)
Complete(i, waited, end) ==
  /\ completed' = completed + 1
  /\ wait_time' = wait_time + waited
  /\ turnaround_time' = turnaround_time + (end - arrival[i])
  /\ response_time' = response_time + (start'[i] - arrival[i])
  /\ busy_time' = busy_time + burst[i]

(* No process is ready: a unit passes.                                     *)
Idle ==
  /\ current_time' = current_time + 1
  /\ UNCHANGED <<file, burst, remaining, start, completed, sums, chart>>

(* FCFS serves the lines of the file in their order.                       *)
FCFS ==
  /\ policy = "FCFS" /\ completed < N
  /\ LET i == completed
         begin == IF arrival[i] > current_time THEN arrival[i] ELSE current_time
     IN  /\ start' = [start EXCEPT ![i] = begin]
         /\ Execute(i, begin, burst[i])
         /\ Complete(i, begin - arrival[i], begin + burst[i])
  /\ UNCHANGED <<file, burst, remaining, ready, ready_start>>

(* The first of the arrived processes that need least, by the given count. *)
Candidates(left) == {i \in Proc : arrival[i] <= current_time /\ left[i] > 0}
ShortestByBurst(left) ==
  CHOOSE i \in Candidates(left) : \A j \in Candidates(left) :
    job[i] < job[j] \/ (job[i] = job[j] /\ i <= j)
Shortest(left) ==
  CHOOSE i \in Candidates(left) : \A j \in Candidates(left) :
    left[i] < left[j] \/ (left[i] = left[j] /\ i <= j)

(* SJF marks a process it has run by a burst of zero.                      *)
SJF ==
  /\ policy = "SJF" /\ completed < N
  /\ \/ /\ Candidates(burst) # {}
        /\ LET i == Shortest(burst)
           IN  /\ start' = [start EXCEPT ![i] = current_time]
               /\ Execute(i, current_time, burst[i])
               /\ Complete(i, current_time - arrival[i], current_time + burst[i])
               /\ burst' = [burst EXCEPT ![i] = 0]
        /\ UNCHANGED <<file, remaining>>
     \/ Candidates(burst) = {} /\ Idle
  /\ UNCHANGED <<ready, ready_start>>

(* Process i runs for d units: SRTF and RR, which account alike.           *)
RunFor(i, d) ==
  /\ start' = IF remaining[i] = burst[i]
              THEN [start EXCEPT ![i] = current_time] ELSE start
  /\ remaining' = [remaining EXCEPT ![i] = @ - d]
  /\ Execute(i, current_time, d)
  /\ IF remaining[i] = d
     THEN Complete(i, current_time + d - arrival[i] - burst[i], current_time + d)
     ELSE UNCHANGED <<completed, sums>>
  /\ UNCHANGED <<file, burst>>

SRTF ==
  /\ policy = "SRTF" /\ completed < N
  /\ \/ Candidates(remaining) # {} /\ RunFor(Shortest(remaining), 1)
     \/ Candidates(remaining) = {} /\ Idle
  /\ UNCHANGED <<ready, ready_start>>

(* enqueue_ready_queue: one after the other, who has arrived, is not done  *)
(* and has never been in the queue, not even in its part already served.   *)
Enqueue(queue, left, time) ==
  LET upTo[n \in 0 .. N] ==
        IF n = 0 THEN queue
        ELSE LET q == upTo[n - 1]
             IN  IF /\ arrival[n - 1] <= time /\ left[n - 1] > 0
                    /\ \A j \in 1 .. Len(q) : q[j] # n - 1
                 THEN Append(q, n - 1) ELSE q
  IN  upTo[N]

QuantumRest(i) == remaining[i]
Quantum(i) == IF remaining[i] > slice THEN slice ELSE remaining[i]

RR ==
  /\ policy = "RR" /\ completed < N
  /\ LET queue == Enqueue(ready, remaining, current_time)
         i == queue[ready_start]
     IN  \/ /\ ready_start <= Len(queue)
            /\ RunFor(i, Quantum(i))
            /\ LET later == Enqueue(queue, remaining', current_time')
               IN  ready' = IF remaining'[i] = 0 THEN later ELSE Append(later, i)
            /\ ready_start' = ready_start + 1
         \/ /\ ready_start > Len(queue)
            /\ Idle
            /\ ready' = queue /\ UNCHANGED ready_start

Next == FCFS \/ SJF \/ SRTF \/ RR

Spec == Init /\ [][Next]_vars /\ WF_vars(Next)

---------------------------------------------------------------------------
(* The schedule, read off the chart.                                       *)

Ticks(i) == {at[k] : k \in {n \in 1 .. Len(at) : pc_queue[n] = i}}
Left(i, t) == job[i] - Cardinality({u \in Ticks(i) : u < t})
Done == {i \in Proc : Left(i, current_time) = 0}
LastTick(i) == Max(Ticks(i))
ReadyAt(t) == {i \in Proc : arrival[i] <= t /\ Left(i, t) > 0}

(* How many units these are, if of[i] are those of process i.              *)
Units(of) == Cardinality(UNION {{i} \X of[i] : i \in DOMAIN of})

(* The averages that main prints are those of the chart it prints: a       *)
(* process waits in every unit between its arrival and its end in which it *)
(* does not run, and answers when it first runs.                           *)
Accounts ==
  /\ completed = Cardinality(Done)
  /\ wait_time = Units([i \in Done |-> (arrival[i] .. LastTick(i)) \ Ticks(i)])
  /\ turnaround_time = Units([i \in Done |-> arrival[i] .. LastTick(i)])
  /\ response_time = Units([i \in Done |-> arrival[i] .. Min(Ticks(i)) - 1])
  /\ busy_time = Units([i \in Done |-> Ticks(i)])

(* Under RR a process that is ready never waits for longer than one slice  *)
(* of each other process.                                                  *)
BoundedWait ==
  policy = "RR" => \A i \in Proc, t \in 0 .. current_time :
    LET wait == (N - 1) * slice
    IN  t + wait < current_time /\ i \in ReadyAt(t)
          => \E u \in t .. t + wait : u \in Ticks(i)

(* Up to time end, some number of processes is there in each unit, that is *)
(* arrived and not done: the least sum of these numbers for any schedule   *)
(* that never idles while a process is there, given the work left at t.    *)
Best(end) ==
  LET best[t \in 0 .. end] ==
        [left \in [Proc -> Nat] |->
           LET there == {i \in Proc : arrival[i] <= t /\ left[i] > 0}
           IN  IF t = end THEN 0
               ELSE IF there = {} THEN best[t + 1][left]
               ELSE Cardinality(there)
                      + Min({best[t + 1][[left EXCEPT ![i] = @ - 1]] : i \in there})]
  IN  best[0][job]

(* No schedule has a smaller average turnaround time than that of SRTF:    *)
(* before SRTF is done, more processes have been there in it already.      *)
SRTFOptimal ==
  policy = "SRTF" /\ completed = N => turnaround_time = Best(current_time)

=============================================================================
