------------------------------ MODULE Prefork ------------------------------
(***************************************************************************)
(* The processes of Web3_1/2021202045_preforked_server.c and the signals   *)
(* between them: the pool the parent forks, a worker's way around its      *)
(* request loop, the ten-second tick (SIGALRM, passed on as SIGUSR1) and   *)
(* the shutdown (SIGINT, passed on as SIGTERM).  What a worker does for a  *)
(* client is reduced to what its fate depends on: whether it comes back to *)
(* accept, or leaves child_main and so falls back into main's fork loop.   *)
(***************************************************************************)
EXTENDS Integers, FiniteSets

CONSTANTS
  maxNchildren,   \* size of the pool (5 in the code)
  MAX_PROCS,      \* bound: the processes the system lets the server create
  PLANS           \* bound: how the user may end the server (to), kill -INT
                  \* "parent", or Ctrl-C, which the terminal sends to the whole
                  \* "group"; whether the alarm of line 151 ever goes off; how
                  \* many processes there may be then

ASSUME PreforkAssumption ==
  /\ maxNchildren \in Nat \ {0}
  /\ MAX_PROCS \in Nat \ {0}
  /\ PLANS \subseteq [to : {"parent", "group"}, alarm : BOOLEAN, procs : 1 .. MAX_PROCS]

Proc == 0 .. MAX_PROCS - 1   \* in the order of their creation
Parent == 0
InitProc == -1                  \* adopts the children of a dead process
Junk == -2                   \* a value pids was never given
Slots == 0 .. maxNchildren - 1
Signals == {"INT", "TERM", "USR1"}

VARIABLES
  pc,        \* where each process is, see below
  i,         \* its index p in the fork loop of main
  kid,       \* what its fork has returned and pids has not got yet
  pids,      \* its own copy of the array pids
  ppid,      \* its parent
  pend,      \* the signals on their way to it
  hnd,       \* has it installed the handlers of child_main (187-188)?
  h,         \* its index in the loops of signalHandler
  held,      \* was it interrupted inside ctime or localtime?
  ended,     \* how the parent ended: "no", by "exit", by a "signal"
  sent,      \* the SIGINT the user sent: "no", to the "parent", the "group"
  plan,      \* the plan, of PLANS, that this run follows
  hit,       \* where that signal found the parent
  escaped    \* history: a process has run child_main to its end, or has
             \* entered it because its fork failed

(* pc is "unborn", then "boot" before the fork loop; "fork", "assign" around *)
(* line 153; "setup", "accept" in child_main, before and after it installs  *)
(* its handlers; "ctime" inside ctime, with its lock; "pause" at line 156;  *)
(* "killing", "waiting" in the loops of signalHandler; "stuck" in a handler *)
(* whose ctime waits for the lock the process itself holds; "zombie" and    *)
(* "reaped".                                                                *)
vars == <<pc, i, kid, pids, ppid, pend, hnd, h, held, ended, sent, plan,
          hit, escaped>>
own  == <<i, kid, pids, hnd, h, held>>   \* local to a process
hist == <<sent, plan, hit, escaped>>

Alive(q) == pc[q] \notin {"unborn", "zombie", "reaped"}
InHandler(q) == pc[q] \in {"killing", "waiting"}
Children(q) == {c \in Proc : ppid[c] = q /\ pc[c] \notin {"unborn", "reaped"}}

Init ==
  /\ pc = [q \in Proc |-> IF q = Parent THEN "boot" ELSE "unborn"]
  /\ i = [q \in Proc |-> 0]
  /\ kid = [q \in Proc |-> Junk]
  /\ pids = [q \in Proc |-> [p \in Slots |-> Junk]]
  /\ ppid = [q \in Proc |-> InitProc]
  /\ pend = [q \in Proc |-> {}]
  /\ hnd = [q \in Proc |-> FALSE]
  /\ h = [q \in Proc |-> 0]
  /\ held = [q \in Proc |-> FALSE]
  /\ ended = "no"
  /\ sent = "no"
  /\ plan \in PLANS
  /\ hit = "not yet"
  /\ escaped = FALSE

---------------------------------------------------------------------------
(* The pool.                                                               *)

Boot ==
  /\ pc[Parent] = "boot"
  /\ pc' = [pc EXCEPT ![Parent] = "fork"]
  /\ UNCHANGED <<own, ppid, pend, ended, hist>>

(* child_make: the child c is a copy of q in child_main.  A fork does not  *)
(* happen while a signal is pending (the system call starts over after the *)
(* handler), and the child starts with none.                               *)
Fork(q) ==
  /\ pc[q] = "fork" /\ i[q] < maxNchildren /\ pend[q] = {}
  /\ \E c \in Proc :
       /\ pc[c] = "unborn" /\ c < plan.procs /\ \A d \in Proc : d < c => pc[d] # "unborn"
       /\ pc' = [pc EXCEPT ![q] = "assign", ![c] = "setup"]
       /\ kid' = [kid EXCEPT ![q] = c]
       /\ i' = [i EXCEPT ![c] = i[q]]
       /\ pids' = [pids EXCEPT ![c] = pids[q]]
       /\ hnd' = [hnd EXCEPT ![c] = hnd[q]]
       /\ ppid' = [ppid EXCEPT ![c] = q]
  /\ UNCHANGED <<pend, h, held, ended, hist>>

(* fork fails, at a limit of the system: the test at line 171 is for > 0,  *)
(* so the caller itself goes into child_main.                              *)
ForkFails(q) ==
  /\ pc[q] = "fork" /\ i[q] < maxNchildren /\ pend[q] = {}
  /\ pc' = [pc EXCEPT ![q] = "setup"]
  /\ escaped' = TRUE
  /\ UNCHANGED <<own, ppid, pend, ended, sent, plan, hit>>

(* Seeded fault: the pid is not stored.                                    *)
AssignForgets(q) ==
  /\ pc[q] = "assign"
  /\ kid' = [kid EXCEPT ![q] = Junk]
  /\ i' = [i EXCEPT ![q] = @ + 1]
  /\ pc' = [pc EXCEPT ![q] = "fork"]
  /\ UNCHANGED <<pids, ppid, pend, hnd, h, held, ended, hist>>

(* child_make returns and main stores the pid.                             *)
Assign(q) ==
  /\ pc[q] = "assign"
  /\ pids' = [pids EXCEPT ![q][i[q]] = kid[q]]
  /\ kid' = [kid EXCEPT ![q] = Junk]
  /\ i' = [i EXCEPT ![q] = @ + 1]
  /\ pc' = [pc EXCEPT ![q] = "fork"]
  /\ UNCHANGED <<ppid, pend, hnd, h, held, ended, hist>>

PoolDone(q) ==
  /\ pc[q] = "fork" /\ i[q] = maxNchildren
  /\ pc' = [pc EXCEPT ![q] = "pause"]
  /\ UNCHANGED <<own, ppid, pend, ended, hist>>

(* child_main installs its handlers, then prints the time (187-193).       *)
Setup(q) ==
  /\ pc[q] = "setup"
  /\ hnd' = [hnd EXCEPT ![q] = TRUE]
  /\ pc' = [pc EXCEPT ![q] = "ctime"]
  /\ UNCHANGED <<i, kid, pids, h, held, ppid, pend, ended, hist>>

LeaveCtime(q) ==
  /\ pc[q] = "ctime"
  /\ pc' = [pc EXCEPT ![q] = "accept"]
  /\ UNCHANGED <<own, ppid, pend, ended, hist>>

(* A request is accepted and served, with calls of ctime and localtime on  *)
(* the way; the empty and the refused ones (221-223, 252-261) leave no     *)
(* trace here.                                                             *)
Serve(q) ==
  /\ pc[q] = "accept"
  /\ pc' = [pc EXCEPT ![q] = "ctime"]
  /\ UNCHANGED <<own, ppid, pend, ended, hist>>

(* child_main returns (accept or accessible.usr fails, the requested name  *)
(* does not exist: 216-219, 235-239, 301-303, 342-344), child_make falls   *)
(* off its end and main goes on with p + 1.                                *)
LeaveLoop(q) ==
  /\ pc[q] = "accept"
  /\ pids' = [pids EXCEPT ![q][i[q]] = Junk]
  /\ i' = [i EXCEPT ![q] = @ + 1]
  /\ pc' = [pc EXCEPT ![q] = "fork"]
  /\ escaped' = TRUE
  /\ UNCHANGED <<kid, hnd, h, held, ppid, pend, ended, sent, plan, hit>>

---------------------------------------------------------------------------
(* Signals.                                                                *)

Live == {q \in Proc : Alive(q)}

(* The signals after s was sent to the processes of Q.                     *)
Sent(s, Q) == [q \in Proc |-> IF q \in Q /\ Alive(q) THEN pend[q] \cup {s}
                                                    ELSE pend[q]]

(* Whom kill(pids[p]) reaches: an unset entry holds whatever malloc left   *)
(* there, 0 (the whole process group) or no pid of the server.             *)
Target(p) == IF p = Junk THEN {Live, {}} ELSE {{p}}

(* q ends, and what it had in memory is gone; init adopts its children,    *)
(* and reaps them and the processes of the shell.                          *)
Die(q, how) ==
  LET orphan(c) == ppid[c] = q \/ (c = q /\ ppid[q] = InitProc)
      dead(c) == c = q \/ pc[c] = "zombie"
  IN /\ pc' = [c \in Proc |->
                 IF ~dead(c) THEN pc[c]
                 ELSE IF orphan(c) THEN "reaped" ELSE "zombie"]
     /\ ppid' = [c \in Proc |-> IF orphan(c) THEN InitProc ELSE ppid[c]]
     /\ pend' = [pend EXCEPT ![q] = {}]
     /\ i' = [i EXCEPT ![q] = 0]
     /\ kid' = [kid EXCEPT ![q] = Junk]
     /\ pids' = [pids EXCEPT ![q] = [p \in Slots |-> Junk]]
     /\ hnd' = [hnd EXCEPT ![q] = FALSE]
     /\ h' = [h EXCEPT ![q] = 0]
     /\ held' = [held EXCEPT ![q] = FALSE]
     /\ ended' = IF q = Parent THEN how ELSE ended
     /\ UNCHANGED hist

(* A client that hangs up (SIGPIPE) or sends a blank request ends the      *)
(* worker in the middle of child_main.                                     *)
Perish(q) ==
  /\ pc[q] = "accept"
  /\ Die(q, "signal")

(* The user ends the server, once.                                         *)
Interrupt ==
  /\ sent = "no" /\ Alive(Parent)
  /\ pend' = Sent("INT", IF plan.to = "group" THEN Live ELSE {Parent})
  /\ sent' = plan.to
  /\ UNCHANGED <<pc, own, ppid, ended, plan, hit, escaped>>

(* alarm_handler, in the parent, the only process that has called alarm:   *)
(* SIGUSR1 to all entries of pids; an unset one may reach everybody.  A    *)
(* worker that is not in ctime prints its history at once, which changes   *)
(* nothing here.                                                           *)
Tick ==
  /\ plan.alarm /\ Alive(Parent) /\ pc[Parent] # "boot"
  /\ \E everybody \in IF \E p \in Slots : pids[Parent][p] = Junk
                      THEN BOOLEAN ELSE {FALSE} :
       LET to == IF everybody THEN Live ELSE {pids[Parent][p] : p \in Slots}
       IN pend' = Sent("USR1", {q \in to \cap Proc :
                                  ~hnd[q] \/ pc[q] = "ctime" \/ held[q]})
  /\ UNCHANGED <<pc, own, ppid, ended, hist>>

(* child_handler prints the history and the times in it, with ctime.       *)
HandleUsr1(q) ==
  /\ Alive(q) /\ "USR1" \in pend[q] /\ hnd[q] /\ pc[q] # "stuck"
  /\ pend' = [pend EXCEPT ![q] = @ \ {"USR1"}]
  /\ pc' = [pc EXCEPT ![q] = IF pc[q] = "ctime" \/ held[q] THEN "stuck"
                                                         ELSE pc[q]]
  /\ UNCHANGED <<own, ppid, ended, hist>>

(* Before line 188 SIGUSR1 still has its default action.                   *)
DieUsr1(q) ==
  /\ Alive(q) /\ "USR1" \in pend[q] /\ ~hnd[q]
  /\ Die(q, "signal")

(* signalHandler_child: print the time, exit.                              *)
HandleTerm(q) ==
  /\ Alive(q) /\ "TERM" \in pend[q] /\ hnd[q] /\ pc[q] # "stuck"
  /\ IF pc[q] = "ctime" \/ held[q]
       THEN /\ pc' = [pc EXCEPT ![q] = "stuck"]
            /\ pend' = [pend EXCEPT ![q] = @ \ {"TERM"}]
            /\ UNCHANGED <<own, ppid, ended, hist>>
       ELSE Die(q, "exit")

DieTerm(q) ==
  /\ Alive(q) /\ "TERM" \in pend[q] /\ ~hnd[q]
  /\ Die(q, "signal")

(* signalHandler, which every process has or inherits.  Before the fork    *)
(* loop there is nobody to kill; the handler exits or faults.              *)
HandleInt(q) ==
  /\ Alive(q) /\ "INT" \in pend[q] /\ ~InHandler(q)
  /\ pc' = [pc EXCEPT ![q] = "killing"]
  /\ h' = [h EXCEPT ![q] = IF pc[q] = "boot" THEN maxNchildren ELSE 0]
  /\ held' = [held EXCEPT ![q] = @ \/ pc[q] \in {"ctime", "stuck"}]
  /\ pend' = [pend EXCEPT ![q] = @ \ {"INT"}]
  /\ hit' = IF q # Parent THEN hit
            ELSE IF pc[q] = "pause" THEN "pause" ELSE "early"
  /\ UNCHANGED <<i, kid, pids, hnd, ppid, ended, sent, plan, escaped>>

(* Seeded fault: the wrong signal.                                         *)
KillChildUsr1(q) ==
  /\ pc[q] = "killing" /\ h[q] < maxNchildren
  /\ \E to \in Target(pids[q][h[q]]) : pend' = Sent("USR1", to)
  /\ h' = [h EXCEPT ![q] = @ + 1]
  /\ UNCHANGED <<pc, i, kid, pids, hnd, held, ppid, ended, hist>>

KillChild(q) ==
  /\ pc[q] = "killing" /\ h[q] < maxNchildren
  /\ \E to \in Target(pids[q][h[q]]) : pend' = Sent("TERM", to)
  /\ h' = [h EXCEPT ![q] = @ + 1]
  /\ UNCHANGED <<pc, i, kid, pids, hnd, held, ppid, ended, hist>>

StartWaiting(q) ==
  /\ pc[q] = "killing" /\ h[q] = maxNchildren
  /\ pc' = [pc EXCEPT ![q] = "waiting"]
  /\ h' = [h EXCEPT ![q] = 0]
  /\ UNCHANGED <<i, kid, pids, hnd, held, ppid, pend, ended, hist>>

(* Seeded fault: a wait that does not block.                               *)
WaitChildNoHang(q) ==
  /\ pc[q] = "waiting" /\ h[q] < maxNchildren
  /\ UNCHANGED pc
  /\ h' = [h EXCEPT ![q] = @ + 1]
  /\ UNCHANGED <<i, kid, pids, hnd, held, ppid, pend, ended, hist>>

(* One wait of the second loop: any child that has ended, or an error when *)
(* there is no child at all; otherwise it blocks.                          *)
WaitChild(q) ==
  /\ pc[q] = "waiting" /\ h[q] < maxNchildren
  /\ \/ \E c \in Children(q) :
          /\ pc[c] = "zombie"
          /\ pc' = [pc EXCEPT ![c] = "reaped"]
     \/ Children(q) = {} /\ UNCHANGED pc
  /\ h' = [h EXCEPT ![q] = @ + 1]
  /\ UNCHANGED <<i, kid, pids, hnd, held, ppid, pend, ended, hist>>

(* Seeded fault: the handler returns instead of exiting.                   *)
ExitMissing(q) ==
  /\ pc[q] = "waiting" /\ h[q] = maxNchildren /\ ~held[q]
  /\ pc' = [pc EXCEPT ![q] = "pause"]
  /\ UNCHANGED <<own, ppid, pend, ended, hist>>

(* The handler prints the time (88-92), so it too needs the lock.          *)
Exit(q) ==
  /\ pc[q] = "waiting" /\ h[q] = maxNchildren /\ ~held[q]
  /\ Die(q, "exit")

---------------------------------------------------------------------------

(* What a process does by itself and on the signals that end it.           *)
Run(q) ==
  \/ Fork(q) \/ ForkFails(q) \/ Assign(q) \/ PoolDone(q) \/ Setup(q)
  \/ HandleInt(q) \/ KillChild(q) \/ StartWaiting(q) \/ WaitChild(q)
  \/ Exit(q) \/ HandleTerm(q) \/ DieTerm(q)

Client(q) == Serve(q) \/ LeaveCtime(q) \/ LeaveLoop(q) \/ Perish(q)

Next ==
  \/ Boot \/ Tick \/ Interrupt
  \/ \E q \in Proc : Run(q) \/ Client(q) \/ HandleUsr1(q) \/ DieUsr1(q)

Spec == Init /\ [][Next]_vars

(* A process that can run does run, and a signal that ends a process       *)
(* reaches it; clients, the clock and the user need not do anything.       *)
FairSpec == Spec /\ \A q \in Proc : WF_vars(Run(q))

---------------------------------------------------------------------------
(* Properties.                                                             *)

Workers == {q \in Proc \ {Parent} : Alive(q)}

(* The pool is what main's loop (152-154) makes it, whatever the signals:  *)
(* as long as no process has fallen out of child_main, every worker is a   *)
(* child the parent forked for an index of its own, and the parent knows   *)
(* all of them but the one it is just about to store.                      *)
PoolIsKnown ==
  ~escaped =>
    /\ Cardinality(Workers) <= maxNchildren
    /\ \A q, r \in Workers : q # r => i[q] # i[r]
    /\ \A q \in Workers :
         pc[Parent] \in {"fork", "assign", "pause"} =>
           \/ pids[Parent][i[q]] = q
           \/ pc[Parent] = "assign" /\ kid[Parent] = q

(* When signalHandler has run to its exit (80-93), none of the workers     *)
(* main forked is left, wherever in the fork loop it was called.           *)
ShutdownLeavesNobody == ~escaped /\ ended = "exit" => Workers = {}

(* A SIGINT that finds the pool complete ends the parent, even when        *)
(* processes have left child_main and forked others, unless a worker       *)
(* blocks in the ctime of a signal handler that interrupted ctime.         *)
SomeStuck == \E q \in Proc : pc[q] = "stuck" \/ held[q]
ParentEnds == hit = "pause" ~> ~Alive(Parent) \/ SomeStuck

(* Ctrl-C reaches every process of the group, and all of them end, even    *)
(* the ones the parent does not know, with the same exception.             *)
CtrlCEndsAll ==
  sent = "group" ~> (\A q \in Proc : ~Alive(q)) \/ SomeStuck
=============================================================================
