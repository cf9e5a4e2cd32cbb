------------------------------ MODULE TaskLists ------------------------------
(***************************************************************************)
(* Assignment 3-1: the fork of the kernel (fork.c, sched.h), to which the  *)
(* assignment adds a counter of its calls, and the module that walks the   *)
(* lists fork builds and prints what it finds (Process_tracer.c).          *)
(*                                                                         *)
(* A fork is a sequence of steps that other forks, exits and the walk come *)
(* between: the new task is a copy of its parent, then gets or shares one  *)
(* object of each kind after the other, and is linked into the lists at    *)
(* last.  A step that fails gives back what the ones before have taken.    *)
(* exit and wait are not in this repository; they are here for what they   *)
(* do to the objects and the lists.                                        *)
(***************************************************************************)
EXTENDS Naturals, Sequences, FiniteSets, SequencesExt

CONSTANTS
  MAX_PID,     \* bound: pids, 0 is init_task, 1 is init
  Calls,       \* sets of CLONE_ flags that are asked for
  max_threads,
  RLIMIT,      \* RLIMIT_NPROC, which init may exceed
  MAX_FORKS    \* bound: calls of one task

Tasks == 0 .. MAX_PID
init_task == 0
Reaper == 1
Flags == {"VM", "FS", "FILES", "SIGHAND", "THREAD", "PARENT"}

(* What the steps copy, in their order, and the flag that shares it.       *)
Order == <<"files", "fs", "sighand", "signal", "mm">>
Kinds == Range(Order)
ShareFlag == [files |-> "FILES", fs |-> "FS", sighand |-> "SIGHAND",
              signal |-> "THREAD", mm |-> "VM"]

(* Where a task is in its fork: at the comparison with the limit, at the   *)
(* credentials, at a copy, at the end of it.                               *)
no == 0
limit == 1
creds == 2
link == Len(Order) + 3

ASSUME TaskListsAssumption ==
  /\ MAX_PID \in Nat \ {0, 1} /\ Calls \subseteq SUBSET Flags
  /\ max_threads \in Nat /\ RLIMIT \in Nat /\ MAX_FORKS \in Nat

VARIABLES
  stage,      \* of each task: none, new (being made), running, zombie, dead
  own,        \* the object of each kind it points to, named for its maker
  users,      \* how often each object is counted
  nr_threads,
  processes,  \* what RLIMIT_NPROC is about
  fork_count,
  at,         \* where in its fork a task is
  child,      \* and the task it makes there,
  flags,      \* with which flags
  parent,     \* real_parent and parent
  leader,     \* group_leader
  tasks,      \* the list of all processes, behind init_task
  children,   \* the list of each task's children
  trace       \* the walk of the tracer, see Walk

counts == <<users, nr_threads, processes>>
call == <<at, child, flags>>
tree == <<parent, leader, tasks, children>>
taskVars == <<stage, own, counts, fork_count, call, tree, trace>>

Linked(t) == stage[t] \in {"running", "zombie"}
Group(t) == {u \in Tasks : Linked(u) /\ leader[u] = leader[t]}

Walking == trace.at \in {"find", "sib", "kids"}
NoWalk(a) == [at |-> a, pid |-> 0, cursor |-> <<"task", init_task>>,
              sibs |-> 0, kids |-> 0, calm |-> TRUE]
(* The lists change, under a walk or after what it found.                  *)
Disturb ==
  trace' = IF Walking THEN [trace EXCEPT !.calm = FALSE]
           ELSE IF trace.at = "no" THEN trace ELSE NoWalk("over")

TaskInit ==
  /\ stage = [t \in Tasks |-> IF t <= 2 THEN "running" ELSE "none"]
  /\ own = [t \in Tasks |-> [k \in Kinds |-> t]]
  /\ users = [k \in Kinds |-> [t \in Tasks |-> IF t <= 2 THEN 1 ELSE 0]]
  /\ nr_threads = 2 /\ processes = 2
  /\ fork_count = [t \in Tasks |-> 0]
  /\ at = [t \in Tasks |-> no] /\ child = [t \in Tasks |-> t]
  /\ flags = [t \in Tasks |-> {}]
  /\ parent = [t \in Tasks |-> IF t = 2 THEN Reaper ELSE init_task]
  /\ leader = [t \in Tasks |-> t]
  /\ tasks = <<1, 2>>
  /\ children = [t \in Tasks |-> IF t <= 1 THEN <<t + 1>> ELSE <<>>]
  /\ trace = NoWalk("no")

---------------------------------------------------------------------------
(* fork                                                                    *)

Invalid(f, t) ==
  \/ "THREAD" \in f /\ "SIGHAND" \notin f
  \/ "SIGHAND" \in f /\ "VM" \notin f
  \/ "PARENT" \in f /\ t = Reaper

Calling(t) ==
  /\ stage[t] = "running" /\ at[t] = no /\ t # init_task
  /\ fork_count[t] < MAX_FORKS

(* Flags that do not go together, a signal that is pending (the call is    *)
(* made again, and counted again), no memory.                              *)
Refused(t) ==
  /\ Calling(t)
  /\ fork_count' = [fork_count EXCEPT ![t] = @ + 1]
  /\ UNCHANGED <<stage, own, counts, call, tree, trace>>

(* dup_task_struct: the new task has all the pointers of its parent.       *)
Dup(t) ==
  /\ Calling(t)
  /\ \E f \in Calls, c \in Tasks :
       /\ ~Invalid(f, t) /\ stage[c] = "none" /\ \A d \in Tasks : d < c => stage[d] # "none"
       /\ at' = [at EXCEPT ![t] = limit] /\ child' = [child EXCEPT ![t] = c]
       /\ flags' = [flags EXCEPT ![t] = f]
       /\ stage' = [stage EXCEPT ![c] = "new"]
       /\ own' = [own EXCEPT ![c] = own[t]]
       /\ parent' = [parent EXCEPT ![c] = parent[t]] /\ leader' = [leader EXCEPT ![c] = leader[t]]
       /\ fork_count' = [fork_count EXCEPT ![t] = @ + 1, ![c] = 0]
  /\ UNCHANGED <<counts, tasks, children, trace>>

(* The call returns an error; the new task is freed, and its pid.          *)
Give(t) ==
  /\ at' = [at EXCEPT ![t] = no] /\ child' = [child EXCEPT ![t] = t]
  /\ flags' = [flags EXCEPT ![t] = {}]
  /\ stage' = [stage EXCEPT ![child[t]] = "none"]
  /\ own' = [own EXCEPT ![child[t]] = [k \in Kinds |-> child[t]]]
  /\ parent' = [parent EXCEPT ![child[t]] = init_task]
  /\ leader' = [leader EXCEPT ![child[t]] = child[t]]
  /\ UNCHANGED <<fork_count, tasks, children, trace>>
Goto(t, step) == at' = [at EXCEPT ![t] = step] /\ UNCHANGED <<fork_count, child, flags, trace>>

(* The processes of the user are compared with their limit before the new  *)
(* one is counted; copy_creds may fail.                                    *)
Limit(t) ==
  /\ at[t] = limit
  /\ \/ t # Reaper /\ processes >= RLIMIT /\ Give(t)
     \/ /\ t = Reaper \/ processes < RLIMIT
        /\ Goto(t, creds) /\ UNCHANGED <<stage, own, tree>>
  /\ UNCHANGED counts

Creds(t) ==
  /\ at[t] = creds
  /\ \/ /\ nr_threads < max_threads /\ processes' = processes + 1
        /\ Goto(t, creds + 1) /\ UNCHANGED <<stage, own, tree>>
     \/ Give(t) /\ UNCHANGED processes
  /\ UNCHANGED <<users, nr_threads>>

Kind(t) == Order[at[t] - creds]
Copied(t) == {Order[j] : j \in 1 .. at[t] - creds - 1}
Shares(t, k) == ShareFlag[k] \in flags[t]
(* A thread is counted by its signal_struct only when it is linked.        *)
Counted(t, k) == ~(k = "signal" /\ Shares(t, k))

(* One more, or one less, uses an object.                                  *)
Get(n, o) == [n EXCEPT ![o] = @ + 1]
Put(n, o) == [n EXCEPT ![o] = @ - 1]

(* copy_files, copy_fs, copy_sighand, copy_signal, copy_mm.                *)
Copy(t) ==
  /\ at[t] \in creds + 1 .. link - 1
  /\ LET c == child[t]
         k == Kind(t)
     IN  IF Shares(t, k)
           THEN /\ users' = IF Counted(t, k) THEN [users EXCEPT ![k] = Get(@, own[c][k])] ELSE users
                /\ UNCHANGED own
           ELSE /\ own' = [own EXCEPT ![c][k] = c]
                /\ users' = [users EXCEPT ![k] = [@ EXCEPT ![c] = 1]]
  /\ Goto(t, at[t] + 1)
  /\ UNCHANGED <<stage, nr_threads, processes, tree>>

(* What fails is a copy that has no memory, fs in the middle of an exec,   *)
(* and behind them the pid or a fatal signal: all that was taken is put.   *)
Undone(t, K) ==
  [k \in Kinds |-> IF k \in K THEN Put(users[k], own[child[t]][k]) ELSE users[k]]
(* Seeded fault: a thread puts the signal_struct it has not counted yet.   *)
UndoCountsThreads(t) ==
  /\ at[t] \in creds + 1 .. link
  /\ at[t] < link => ~Shares(t, Kind(t)) \/ Kind(t) = "fs"
  /\ users' = Undone(t, Copied(t))
  /\ processes' = processes - 1
  /\ Give(t) /\ UNCHANGED nr_threads
Undo(t) ==
  /\ at[t] \in creds + 1 .. link
  /\ at[t] < link => ~Shares(t, Kind(t)) \/ Kind(t) = "fs"
  /\ users' = Undone(t, {k \in Copied(t) : Counted(t, k)})
  /\ processes' = processes - 1
  /\ Give(t) /\ UNCHANGED nr_threads

(* With tasklist_lock held the new task becomes part of the lists.         *)
LinkTo(t, p) ==
  LET c == child[t]
      thread == "THREAD" \in flags[t]
  IN  /\ at[t] = link
      /\ stage' = [stage EXCEPT ![c] = "running"]
      /\ parent' = [parent EXCEPT ![c] = p]
      /\ leader' = [leader EXCEPT ![c] = IF thread THEN leader[t] ELSE c]
      /\ IF thread
           THEN /\ users' = [users EXCEPT !["signal"] = Get(@, own[c]["signal"])]
                /\ UNCHANGED <<tasks, children>>
           ELSE /\ tasks' = Append(tasks, c)
                /\ children' = [children EXCEPT ![p] = Append(@, c)]
                /\ UNCHANGED users
      /\ nr_threads' = nr_threads + 1
      /\ at' = [at EXCEPT ![t] = no] /\ child' = [child EXCEPT ![t] = t]
      /\ flags' = [flags EXCEPT ![t] = {}]
      /\ Disturb /\ UNCHANGED <<own, processes, fork_count>>
(* Seeded fault: the parent that the copy was made with.                   *)
LinkStale(t) ==
  LinkTo(t, IF flags[t] \cap {"PARENT", "THREAD"} # {} THEN parent[child[t]] ELSE t)
Link(t) ==
  LinkTo(t, IF flags[t] \cap {"PARENT", "THREAD"} # {} THEN parent[t] ELSE t)

---------------------------------------------------------------------------
(* exit and wait                                                           *)

(* The children go to another thread of the group, or to init.             *)
Adopters(t) ==
  LET others == {u \in Group(t) \ {t} : stage[u] = "running"}
  IN  IF others # {} THEN others ELSE {Reaper}

Gone(t, S, s) ==
  /\ stage' = [u \in Tasks |-> IF u \in S THEN "dead" ELSE IF u = t THEN s ELSE stage[u]]
  /\ nr_threads' = nr_threads - Cardinality(S)
  /\ processes' = processes - Cardinality(S)

(* exit: what is held is given up; a thread does not wait to be reaped.    *)
Exit(t) ==
  /\ stage[t] = "running" /\ at[t] = no /\ t > Reaper
  /\ LET thread == leader[t] # t
         put == Kinds \ (IF thread THEN {} ELSE {"signal"})
     IN  /\ users' = [k \in Kinds |-> IF k \in put THEN Put(users[k], own[t][k])
                                      ELSE users[k]]
         /\ Gone(t, IF thread THEN {t} ELSE {}, "zombie")
         /\ \E a \in Adopters(t) :
              /\ parent' = [c \in Tasks |-> IF parent[c] = t /\ Linked(c) THEN a ELSE parent[c]]
              /\ children' = [children EXCEPT ![a] = @ \o children[t], ![t] = <<>>]
  /\ Disturb /\ UNCHANGED <<own, fork_count, call, leader, tasks>>

(* list_del.                                                               *)
Delete(s, e) == RemoveAt(s, CHOOSE i \in DOMAIN s : s[i] = e)

(* wait: a leader whose group has ended is taken out of the lists.         *)
Reap(t) ==
  /\ stage[t] = "zombie" /\ Group(t) = {t} /\ stage[parent[t]] = "running"
  /\ Gone(t, {t}, "dead")
  /\ users' = [users EXCEPT !["signal"] = Put(@, own[t]["signal"])]
  /\ tasks' = Delete(tasks, t)
  /\ children' = [children EXCEPT ![parent[t]] = Delete(@, t)]
  /\ Disturb /\ UNCHANGED <<own, fork_count, call, parent, leader>>

---------------------------------------------------------------------------
(* process_tracer, without a lock.  A list of siblings is a circle through *)
(* its head, the children of the parent, which the walk takes for a task.  *)

TaskAt(t) == <<"task", t>>
HeadOf(t) == <<"head", t>>
Follow(c) ==
  IF c[1] = "head" THEN IF children[c[2]] = <<>> THEN c ELSE TaskAt(Head(children[c[2]]))
  ELSE IF \A p \in Tasks : c[2] \notin Range(children[p]) THEN c
  ELSE LET p == CHOOSE p \in Tasks : c[2] \in Range(children[p])
           i == CHOOSE i \in DOMAIN children[p] : children[p][i] = c[2]
       IN  IF i = Len(children[p]) THEN HeadOf(p) ELSE TaskAt(children[p][i + 1])

(* What the walk stands on has been freed.                                 *)
Freed == stage[trace.cursor[2]] = "dead"
More(n) == IF n > MAX_PID + 1 THEN n ELSE n + 1
Walk(t) == trace' = t /\ UNCHANGED <<stage, own, counts, fork_count, call, tree>>

Ask(x) ==
  /\ trace.at = "no"
  /\ Walk([trace EXCEPT !.at = "find", !.pid = x])

Lose == Walking /\ Freed /\ Walk(NoWalk("over"))

(* Seeded fault: for_each_process, which leaves out init_task.             *)
FindFromInit ==
  /\ trace.at = "find" /\ ~Freed
  /\ LET c == trace.cursor[2]
         i == CHOOSE i \in 0 .. Len(tasks) : IF i = 0 THEN c = init_task ELSE tasks[i] = c
     IN  IF c = trace.pid /\ c # init_task
           THEN Walk([trace EXCEPT !.at = "sib", !.cursor = Follow(TaskAt(c))])
         ELSE IF i = Len(tasks) THEN Walk([trace EXCEPT !.at = "absent"])
         ELSE Walk([trace EXCEPT !.cursor = TaskAt(tasks[i + 1])])
(* All processes from init_task on, which is the head of their list.       *)
Find ==
  /\ trace.at = "find" /\ ~Freed
  /\ LET c == trace.cursor[2]
         i == CHOOSE i \in 0 .. Len(tasks) : IF i = 0 THEN c = init_task ELSE tasks[i] = c
     IN  IF c = trace.pid
           THEN Walk([trace EXCEPT !.at = "sib", !.cursor = Follow(TaskAt(c))])
         ELSE IF i = Len(tasks) THEN Walk([trace EXCEPT !.at = "absent"])
         ELSE Walk([trace EXCEPT !.cursor = TaskAt(tasks[i + 1])])

(* In front of a head lies no pid, but what the parent has 16 bytes before *)
(* its own: it may be equal to the pid of the parent or not.               *)
Sibling ==
  /\ trace.at = "sib" /\ ~Freed
  /\ IF trace.cursor = TaskAt(trace.pid)
       THEN Walk([trace EXCEPT !.at = "kids", !.cursor = Follow(HeadOf(trace.pid))])
       ELSE \E n \in IF trace.cursor[1] = "head" THEN {trace.sibs, More(trace.sibs)}
                     ELSE IF trace.cursor[2] # parent[trace.pid] THEN {More(trace.sibs)}
                     ELSE {trace.sibs} :
              Walk([trace EXCEPT !.sibs = n, !.cursor = Follow(@)])

(* Seeded fault: the circle of the children is left at the wrong place.    *)
ChildFromSibling ==
  /\ trace.at = "kids" /\ ~Freed
  /\ IF trace.cursor = TaskAt(trace.pid) THEN Walk([trace EXCEPT !.at = "done"])
     ELSE Walk([trace EXCEPT !.kids = More(@), !.cursor = Follow(@)])
Child ==
  /\ trace.at = "kids" /\ ~Freed
  /\ IF trace.cursor = HeadOf(trace.pid) THEN Walk([trace EXCEPT !.at = "done"])
     ELSE Walk([trace EXCEPT !.kids = More(@), !.cursor = Follow(@)])

process_tracer == Find \/ Sibling \/ Child \/ Lose

TaskNext ==
  \/ \E t \in Tasks :
       \/ Refused(t) \/ Dup(t) \/ Limit(t) \/ Creds(t) \/ Copy(t) \/ Undo(t) \/ Link(t)
       \/ Exit(t) \/ Reap(t)
  \/ \E x \in Tasks : Ask(x)
  \/ process_tracer

TaskSpec == TaskInit /\ [][TaskNext]_taskVars /\ WF_taskVars(process_tracer)

---------------------------------------------------------------------------

(* Each object is counted once for every task that points to it and has    *)
(* taken it, however many forks are under way and wherever they fail: none *)
(* is freed in use, none is lost.                                          *)
Maker(t) == CHOOSE m \in Tasks : at[m] # no /\ child[m] = t
Taken(t) ==
  {k \in Kinds :
     \/ stage[t] = "running"
     \/ stage[t] = "zombie" /\ k = "signal"
     \/ stage[t] = "new" /\ k \in Copied(Maker(t)) /\ Counted(Maker(t), k)}
RefCounts ==
  /\ \A k \in Kinds, o \in Tasks :
       users[k][o] = Cardinality({t \in Tasks : own[t][k] = o /\ k \in Taken(t)})
  /\ nr_threads = Cardinality({t \in Tasks \ {init_task} : Linked(t)})

(* Every process is once in the list of processes and once among the       *)
(* children of its parent, which runs, though the parent it was made with  *)
(* may have ended meanwhile; a thread is in neither, and has the parent of *)
(* its group.                                                              *)
TreeWhole ==
  /\ IsInjective(tasks) /\ Range(tasks) = {t \in Tasks \ {init_task} : Linked(t) /\ leader[t] = t}
  /\ \A p \in Tasks : /\ IsInjective(children[p])
                      /\ Range(children[p]) = {c \in Range(tasks) : parent[c] = p}
                      /\ children[p] # <<>> => stage[p] = "running"
  /\ \A t \in Tasks : Linked(t) => Linked(leader[t]) /\ parent[t] = parent[leader[t]]

(* If nothing happens meanwhile, the tracer finds a process if there is    *)
(* one, and counts its children; of its siblings it counts one too many at *)
(* most, the head it takes for one.                                        *)
TracerRight ==
  trace.calm =>
    /\ trace.at \in {"sib", "kids", "done"} => trace.pid \in Range(tasks) \cup {init_task}
    /\ trace.at = "absent" => trace.pid \notin Range(tasks) \cup {init_task}
    /\ trace.at = "done" =>
         LET siblings == {t \in Range(tasks) \ {trace.pid} : parent[t] = parent[trace.pid]}
         IN  /\ trace.kids = Cardinality({t \in Range(tasks) : parent[t] = trace.pid})
             /\ trace.pid # init_task =>
                  trace.sibs - Cardinality(siblings) \in {0, 1}

(* And it comes to an end.                                                 *)
TracerEnds == Walking ~> ~Walking \/ ~trace.calm
=============================================================================
