---------------------------- MODULE ServersProofs ----------------------------
(***************************************************************************)
(* The descriptors of both servers, and the reasons they end for, for any  *)
(* number of clients, requests, directories and descriptors.  The          *)
(* invariant is an account: at each point of the round a process holds the *)
(* descriptors it has lost before and those of this round.                 *)
(***************************************************************************)
EXTENDS Servers, HistoryProofs

Points == {"accept", "read", "count", "address", "port", "time", "number", "open",
           "check", "fork", "wait", "serve", "left"}

(* The descriptors of this round: the connection, and accessible.usr.      *)
Held == IF pc \in {"accept", "left"} THEN 0 ELSE IF pc = "check" THEN 2 ELSE 1

Counters ==
  /\ fds \in Nat /\ lost \in Nat /\ parent_fds \in Nat /\ client_num \in Nat
  /\ forks \in BOOLEAN /\ pc \in Points

(* Who answers: the server of 2-2 in the middle of a round, the child of   *)
(* 2-3 while its parent waits.                                             *)
Answering ==
  /\ job \in {"idle", "route", "page", "done"}
  /\ job # "idle" => pc = (IF forks THEN "wait" ELSE "serve")
  /\ pc \in {"wait", "serve"} => forks = (pc = "wait")
  /\ pc \in {"count", "address", "port", "time", "number", "open", "check", "fork"} => forks

Account ==
  /\ pc \notin {"wait", "left"} => fds = lost + Held
  /\ pc = "wait" => parent_fds = lost + 1

(* A client that is in the history has cost a descriptor, or holds one.    *)
Recorded ==
  forks => client_num <= lost + (IF pc \in {"accept", "read", "count"} THEN 0 ELSE 1)

(* A page that has not been made is still to be reported.                  *)
Failed == at = "return1" => job = "page" /\ status \in {"404", "unreadable"}

SInv == Counters /\ Answering /\ Account /\ Recorded /\ Failed /\ EndsOnlyFor

---------------------------------------------------------------------------

LEMMA InitSInv ==
  ASSUME Init
  PROVE  SInv
<1> USE DEF Init, PageInit, HistoryInit
<1>1. Counters /\ Answering /\ Failed
  BY DEF Counters, Points, Answering, Failed
<1>2. Account /\ Recorded
  BY DEF Account, Held, Recorded
<1>3. EndsOnlyFor
  BY DEF EndsOnlyFor
<1> QED
  BY <1>1, <1>2, <1>3 DEF SInv

(* What a step of the page does to the descriptors: only the one that      *)
(* opens a directory takes one, and only a page that fails returns 1.      *)
LEMMA PageStepHolds ==
  ASSUME PageStep, Failed, job = "page", UNCHANGED job
  PROVE  /\ IF at' \in {"count", "outside"} THEN fds' = fds + 1 ELSE UNCHANGED fds
         /\ Failed'
<1>1. CASE NotFound \/ CannotOpen
  BY <1>1 DEF NotFound, CannotOpen, Reply, Failed
<1>2. CASE PlainFile
  BY <1>2 DEF PlainFile, Reply, Failed
<1>3. CASE OpenDir
  BY <1>3 DEF OpenDir, Failed
<1>4. CASE CountPass
  BY <1>4 DEF CountPass, Failed
<1>5. CASE StorePass
  BY <1>5 DEF StorePass, Failed
<1>6. CASE StoreFails \/ RowsOverflow
  BY <1>6 DEF StoreFails, RowsOverflow, Reply, Failed
<1>7. CASE TotalStep
  BY <1>7 DEF TotalStep, Failed
<1>8. CASE RowStep
  BY <1>8 DEF RowStep, Failed
<1>9. CASE LeadOut \/ OutsideListed
  BY <1>9 DEF LeadOut, OutsideListed, Reply, Failed
<1> QED
  BY <1>1, <1>2, <1>3, <1>4, <1>5, <1>6, <1>7, <1>8, <1>9 DEF PageStep

(* A step that does not end the server cannot break EndsOnlyFor.           *)
LEMMA StaysStays ==
  ASSUME pc' # "left"
  PROVE  EndsOnlyFor'
BY DEF EndsOnlyFor

---------------------------------------------------------------------------

LEMMA ClientKeepsSInv ==
  ASSUME SInv, Client
  PROVE  SInv'
<1> USE DEF SInv, Goto, server, round, history
<1>0. MAX_FD \in Nat
  BY PageAssumption
<1>1. CASE Accept
  <2>1. (Counters /\ Answering /\ Failed)'
    BY <1>1 DEF Accept, SameFds, Counters, Points, Answering, Failed
  <2>2. (Account /\ Recorded)'
    BY <1>1 DEF Accept, Counters, Account, Recorded, Held
  <2> QED
    BY <1>1, <2>1, <2>2, StaysStays DEF Accept
<1>2. CASE AcceptFails
  <2>1. (Counters /\ Answering /\ Failed)'
    BY <1>2 DEF AcceptFails, Leave, SamePage, page, Counters, Points, Answering, Failed
  <2>2. (Account /\ Recorded)'
    BY <1>2 DEF AcceptFails, Leave, SamePage, page, Counters, Account, Recorded, Held
  <2>3. fds = lost
    BY <1>2 DEF AcceptFails, Leave, Counters, Account, Held
  <2>4. EndsOnlyFor'
    BY <1>0, <1>2, <2>3 DEF AcceptFails, Leave, EndsOnlyFor, Counters
  <2> QED
    BY <2>1, <2>2, <2>4
<1>3. CASE ReadNothing
  <2>1. (Counters /\ Answering /\ Failed)'
    BY <1>3 DEF ReadNothing, SamePage, page, Counters, Points, Answering, Failed
  <2>2. (Account /\ Recorded)'
    BY <1>3 DEF ReadNothing, SamePage, page, Counters, Account, Recorded, Held
  <2> QED
    BY <1>3, <2>1, <2>2, StaysStays DEF ReadNothing
<1>4. CASE Read
  <2>1. (Counters /\ Answering /\ Failed)'
    BY <1>4 DEF Read, SamePage, page, Counters, Points, Answering, Failed
  <2>2. (Account /\ Recorded)'
    BY <1>4 DEF Read, SamePage, page, Counters, Account, Recorded, Held
  <2>3. pc' # "left"
    BY <1>4 DEF Read
  <2> QED
    BY <2>1, <2>2, <2>3, StaysStays
<1> QED
  BY <1>1, <1>2, <1>3, <1>4 DEF Client

LEMMA AdmissionKeepsSInv ==
  ASSUME SInv,
         \/ Record \/ Overrun \/ OpenUsers \/ OpenUsersFails \/ Refuse \/ Admit
         \/ Fork \/ ForkFails
  PROVE  SInv'
<1> USE DEF SInv, Goto, server, round, history
<1>0. MAX_FD \in Nat
  BY PageAssumption
<1>1. CASE Record
  <2>1. /\ client_num' = IF pc = "count" THEN client_num + 1 ELSE client_num
        /\ pc \in {"count", "address", "port", "time", "number"}
        /\ pc' \in {"address", "port", "time", "number", "open"}
        /\ UNCHANGED <<fds, lost, parent_fds, forks, job, at, status>>
    BY <1>1 DEF Record, Count, RecordAddress, RecordPort, RecordTime, RecordNumber, SamePage, page
  <2>2. (Counters /\ Answering /\ Failed)'
    BY <2>1 DEF Counters, Points, Answering, Failed
  <2>3. Account'
    BY <2>1 DEF Counters, Account, Held
  <2>4. Recorded'
    BY <2>1 DEF Counters, Recorded
  <2> QED
    BY <2>1, <2>2, <2>3, <2>4, StaysStays
<1>2. CASE OpenUsers
  <2>1. (Counters /\ Answering /\ Failed)'
    BY <1>2 DEF OpenUsers, SameFds, Counters, Points, Answering, Failed
  <2>2. (Account /\ Recorded)'
    BY <1>2 DEF OpenUsers, Counters, Account, Recorded, Held
  <2> QED
    BY <1>2, <2>1, <2>2, StaysStays DEF OpenUsers
<1>3. CASE OpenUsersFails
  <2>1. (Counters /\ Answering /\ Failed)'
    BY <1>3 DEF OpenUsersFails, Leave, SamePage, page, Counters, Points, Answering, Failed
  <2>2. (Account /\ Recorded)'
    BY <1>3 DEF OpenUsersFails, Leave, SamePage, page, Counters, Account, Recorded, Held
  <2>3. fds = lost + 1 /\ forks
    BY <1>3 DEF OpenUsersFails, Counters, Account, Answering, Held
  <2>4. EndsOnlyFor'
    <3>1. CASE users = NoFile
      BY <1>3, <2>3, <3>1 DEF OpenUsersFails, Leave, EndsOnlyFor
    <3>2. CASE users # NoFile
      BY <1>0, <1>3, <2>3, <3>2 DEF OpenUsersFails, Leave, EndsOnlyFor, Counters
    <3> QED
      BY <3>1, <3>2
  <2> QED
    BY <2>1, <2>2, <2>4
<1>4. CASE Refuse
  <2>1. fds = lost + 2
    BY <1>4 DEF Refuse, Counters, Account, Held
  <2>2. (Counters /\ Answering /\ Failed)'
    BY <1>4, <2>1 DEF Refuse, SameFds, Counters, Points, Answering, Failed
  <2>3. (Account /\ Recorded)'
    BY <1>4, <2>1 DEF Refuse, Counters, Account, Recorded, Held
  <2> QED
    BY <1>4, <2>2, <2>3, StaysStays DEF Refuse
<1>5. CASE Admit
  <2>1. fds = lost + 2
    BY <1>5 DEF Admit, Counters, Account, Held
  <2>2. (Counters /\ Answering /\ Failed)'
    BY <1>5, <2>1 DEF Admit, SameFds, Counters, Points, Answering, Failed
  <2>3. (Account /\ Recorded)'
    BY <1>5, <2>1 DEF Admit, Counters, Account, Recorded, Held
  <2> QED
    BY <1>5, <2>2, <2>3, StaysStays DEF Admit
<1>6. CASE Fork
  <2>1. (Counters /\ Answering /\ Failed)'
    BY <1>6 DEF Fork, SamePage, page, Counters, Points, Answering, Failed
  <2>2. (Account /\ Recorded)'
    BY <1>6 DEF Fork, SamePage, page, Counters, Account, Recorded, Held
  <2> QED
    BY <1>6, <2>1, <2>2, StaysStays DEF Fork
<1>7. CASE ForkFails
  <2>1. (Counters /\ Answering /\ Failed)'
    BY <1>7 DEF ForkFails, Leave, SamePage, page, Counters, Points, Answering, Failed
  <2>2. (Account /\ Recorded)'
    BY <1>7 DEF ForkFails, Leave, SamePage, page, Counters, Account, Recorded, Held
  <2>3. EndsOnlyFor'
    BY <1>7 DEF ForkFails, Leave, EndsOnlyFor, Answering
  <2> QED
    BY <2>1, <2>2, <2>3
<1>8. CASE Overrun
  <2>1. (Counters /\ Answering /\ Failed)'
    BY <1>8 DEF Overrun, Leave, SamePage, page, Counters, Points, Answering, Failed
  <2>2. (Account /\ Recorded)'
    BY <1>8 DEF Overrun, Leave, SamePage, page, Counters, Account, Recorded, Held
  <2>3. EndsOnlyFor'
    BY <1>8 DEF Overrun, Leave, Full, EndsOnlyFor, Answering
  <2> QED
    BY <2>1, <2>2, <2>3
<1> QED
  BY <1>1, <1>2, <1>3, <1>4, <1>5, <1>6, <1>7, <1>8

---------------------------------------------------------------------------

(* A page in 2-2 is made while its server holds the connection, and what a *)
(* directory takes is lost; in 2-3 it is made in the child.                *)
LEMMA AnswerKeepsSInv ==
  ASSUME SInv, Answer \/ ChildDies
  PROVE  SInv'
<1> USE DEF SInv, Goto, server, round, history
<1>1. CASE RoutePage
  <2>1. (Counters /\ Answering /\ Failed)'
    BY <1>1 DEF RoutePage, PrintOption, Counters, Points, Answering, Failed
  <2>2. (Account /\ Recorded)'
    BY <1>1 DEF RoutePage, PrintOption, Counters, Account, Recorded, Held
  <2>3. pc' # "left"
    BY <1>1 DEF RoutePage, Answering
  <2> QED
    BY <2>1, <2>2, <2>3, StaysStays
<1>2. CASE RouteImage
  <2>1. (Counters /\ Answering /\ Failed)'
    BY <1>2 DEF RouteImage, SameFds, Counters, Points, Answering, Failed
  <2>2. (Account /\ Recorded)'
    BY <1>2 DEF RouteImage, Counters, Account, Recorded, Held
  <2>3. pc' # "left"
    BY <1>2 DEF RouteImage, Answering
  <2> QED
    BY <2>1, <2>2, <2>3, StaysStays
<1>3. CASE RouteNothing
  <2>1. (Counters /\ Answering /\ Failed)'
    BY <1>3 DEF RouteNothing, Leave, SameFds, Counters, Points, Answering, Failed
  <2>2. (Account /\ Recorded)'
    BY <1>3 DEF RouteNothing, Leave, Counters, Answering, Account, Recorded, Held
  <2>3. EndsOnlyFor'
    BY <1>3 DEF RouteNothing, Leave, EndsOnlyFor, Answering
  <2> QED
    BY <2>1, <2>2, <2>3
<1>4. CASE MakePage
  <2>1. UNCHANGED <<client_num, forks, parent_fds, pc, job>> /\ job = "page"
    BY <1>4 DEF MakePage
  <2>2. /\ IF at' \in {"count", "outside"} THEN fds' = fds + 1 ELSE UNCHANGED fds
        /\ Failed'
    BY <1>4, <2>1, PageStepHolds DEF MakePage
  <2>3. lost' = IF ~forks /\ at' \in {"count", "outside"} THEN lost + 1 ELSE lost
    BY <1>4 DEF MakePage
  <2>4. (Counters /\ Answering)'
    BY <2>1, <2>2, <2>3 DEF Counters, Answering
  <2>5. Account'
    BY <2>1, <2>2, <2>3 DEF Counters, Answering, Account, Held
  <2>6. Recorded'
    BY <2>1, <2>3 DEF Counters, Recorded
  <2>7. pc' # "left"
    BY <2>1 DEF Answering
  <2> QED
    BY <2>2, <2>4, <2>5, <2>6, <2>7, StaysStays
<1>5. CASE PageDone
  <2>1. (Counters /\ Answering /\ Failed)'
    BY <1>5 DEF PageDone, Return, Counters, Answering, Failed
  <2>2. (Account /\ Recorded)'
    BY <1>5 DEF PageDone, Counters, Account, Recorded, Held
  <2>3. pc' # "left"
    BY <1>5 DEF PageDone, Answering
  <2> QED
    BY <2>1, <2>2, <2>3, StaysStays
<1>6. CASE PageFails
  <2>1. (Counters /\ Answering /\ Failed)'
    BY <1>6 DEF PageFails, Leave, Return, Counters, Points, Answering, Failed
  <2>2. (Account /\ Recorded)'
    BY <1>6 DEF PageFails, Leave, Counters, Answering, Account, Recorded, Held
  <2>3. EndsOnlyFor'
    BY <1>6 DEF PageFails, Leave, EndsOnlyFor, Answering, Failed
  <2> QED
    BY <2>1, <2>2, <2>3
<1>7. CASE ChildDies
  <2>1. (Counters /\ Answering /\ Failed)'
    BY <1>7 DEF ChildDies, Return, Counters, Answering, Failed
  <2>2. (Account /\ Recorded)'
    BY <1>7 DEF ChildDies, Counters, Account, Recorded, Held
  <2>3. pc' # "left"
    BY <1>7 DEF ChildDies, Answering
  <2> QED
    BY <2>1, <2>2, <2>3, StaysStays
<1> QED
  BY <1>1, <1>2, <1>3, <1>4, <1>5, <1>6, <1>7 DEF Answer

(* A client that hangs up ends the process that writes to it.              *)
LEMMA PeerKeepsSInv ==
  ASSUME SInv, Peer
  PROVE  SInv'
<1> USE DEF SInv, Goto, server, round, history
<1>1. CASE Stall \/ ReadOn
  <2>1. UNCHANGED <<fds, lost, parent_fds, client_num, forks, pc, job, at, status, why,
                    users, request, is_match>>
    BY <1>1 DEF Stall, ReadOn, SamePage, page
  <2> QED
    BY <2>1 DEF Counters, Answering, Account, Held, Recorded, Failed, EndsOnlyFor, Full
<1>2. CASE RefusedHangsUp
  <2>1. at # "return1" /\ UNCHANGED at
    BY <1>2 DEF RefusedHangsUp, Leave, SameFds, Failed, Answering
  <2>2. (Counters /\ Answering /\ Failed)'
    BY <1>2, <2>1 DEF RefusedHangsUp, Leave, Counters, Points, Answering, Failed
  <2>3. (Account /\ Recorded)'
    BY <1>2 DEF RefusedHangsUp, Leave, Counters, Account, Recorded, Held
  <2>4. EndsOnlyFor'
    BY <1>2 DEF RefusedHangsUp, Leave, EndsOnlyFor, Answering
  <2> QED
    BY <2>2, <2>3, <2>4
<1>3. CASE AnsweredHangsUp
  <2>1. (Counters /\ Answering /\ Failed)'
    BY <1>3 DEF AnsweredHangsUp, Leave, Return, Counters, Points, Answering, Failed
  <2>2. (Account /\ Recorded)'
    BY <1>3 DEF AnsweredHangsUp, Leave, Counters, Answering, Account, Recorded, Held
  <2>3. EndsOnlyFor'
    BY <1>3 DEF AnsweredHangsUp, Leave, EndsOnlyFor, Answering
  <2> QED
    BY <2>1, <2>2, <2>3
<1> QED
  BY <1>1, <1>2, <1>3 DEF Peer

LEMMA RestKeepsSInv ==
  ASSUME SInv, Close \/ Reap \/ Alarm \/ CtrlC \/ CtrlZ \/ Disturb \/ UNCHANGED vars
  PROVE  SInv'
<1> USE DEF SInv, Goto, server, round, history
<1>1. CASE Close
  <2>1. fds = lost + 1
    BY <1>1 DEF Close, Counters, Account, Held
  <2>2. (Counters /\ Answering /\ Failed)'
    BY <1>1, <2>1 DEF Close, SameFds, Counters, Points, Answering, Failed
  <2>3. (Account /\ Recorded)'
    BY <1>1, <2>1 DEF Close, Counters, Account, Recorded, Held
  <2> QED
    BY <1>1, <2>2, <2>3, StaysStays DEF Close
<1>2. CASE Reap
  <2>1. parent_fds = lost + 1
    BY <1>2 DEF Reap, Account
  <2>2. (Counters /\ Answering /\ Failed)'
    BY <1>2, <2>1 DEF Reap, Counters, Points, Answering, Failed
  <2>3. (Account /\ Recorded)'
    BY <1>2, <2>1 DEF Reap, Counters, Account, Recorded, Held
  <2> QED
    BY <1>2, <2>2, <2>3, StaysStays DEF Reap
<1>3. CASE Alarm \/ Disturb \/ UNCHANGED vars
  <2>1. UNCHANGED <<fds, lost, parent_fds, client_num, forks, pc, job, at, status, why,
                    users, request, is_match>>
    BY <1>3 DEF Alarm, SamePage, page, Disturb, ChangeFile, RemoveDir, vars
  <2> QED
    BY <2>1 DEF Counters, Answering, Account, Held, Recorded, Failed, EndsOnlyFor, Full
<1>4. CASE CtrlC
  <2>1. (Counters /\ Answering /\ Failed)'
    BY <1>4 DEF CtrlC, Return, Counters, Points, Answering, Failed
  <2>2. (Account /\ Recorded)'
    BY <1>4 DEF CtrlC, Counters, Account, Recorded, Held
  <2>3. EndsOnlyFor'
    BY <1>4 DEF CtrlC, EndsOnlyFor
  <2> QED
    BY <2>1, <2>2, <2>3
<1>5. CASE CtrlZ
  <2>1. (Counters /\ Answering /\ Failed)'
    BY <1>5 DEF CtrlZ, Return, Counters, Answering, Failed
  <2>2. (Account /\ Recorded)'
    BY <1>5 DEF CtrlZ, Counters, Account, Recorded, Held
  <2>3. pc' # "left"
    BY <1>5 DEF CtrlZ, Answering
  <2> QED
    BY <2>1, <2>2, <2>3, StaysStays
<1> QED
  BY <1>1, <1>2, <1>3, <1>4, <1>5

LEMMA NextKeepsSInv ==
  ASSUME SInv, [Next]_vars
  PROVE  SInv'
BY ClientKeepsSInv, AdmissionKeepsSInv, AnswerKeepsSInv, PeerKeepsSInv, RestKeepsSInv
DEF Next, Work

---------------------------------------------------------------------------

THEOREM AccountKept == Spec => []SInv
BY InitSInv, NextKeepsSInv, PTL DEF Spec

(* Whatever the clients send, and whatever becomes of their pages, every   *)
(* descriptor a server holds when it accepts has been lost by a round: in  *)
(* 2-2 to a listing, in 2-3 to each client.                                *)
THEOREM DescriptorsAccounted == Spec => []Balance
<1>1. SInv => Balance
  BY DEF SInv, Counters, Account, Recorded, Held, Balance
<1> QED
  BY <1>1, AccountKept, PTL

(* No request that is admitted and no child ends the server of 2-3: of its *)
(* clients only one it refuses, that has hung up, and the first one beyond *)
(* the end of its history do.  Either server ends for want of a descriptor *)
(* only when all have been lost.  A page that cannot be made, or a request *)
(* without a method, ends the server of 2-2 only.                          *)
THEOREM EndsForAReason == Spec => []EndsOnlyFor
<1>1. SInv => EndsOnlyFor
  BY DEF SInv
<1> QED
  BY <1>1, AccountKept, PTL
---------------------------------------------------------------------------
(* The history of 2-3.  The entry of a client that has been counted is     *)
(* filled field by field; the window has moved once for every client       *)
(* beyond HISTORY that has got a pid.                                      *)

Making == pc \in {"address", "port", "time", "number"}
WithoutTime == pc \in {"address", "port", "time"}

Entries ==
  /\ pc \notin {"accept", "left"} => client \in Clients
  /\ \A i \in 1 .. client_num : log[i].who \in Clients /\ log[i].at = i
  /\ Making => client_num >= 1 /\ log[client_num].who = client
  /\ pc \in {"port", "time", "number"} => ip_addr[client_num] = client
  /\ pc \in {"time", "number"} => port[client_num] = client
  /\ pc # "left" =>
       \A i \in 1 .. (IF Making THEN client_num - 1 ELSE client_num) : Shows(i, log[i].who)

Clock ==
  /\ pc # "left" /\ ~torn =>
       \A i \in 1 .. (IF WithoutTime THEN client_num - 1 ELSE client_num) : time[i] = i
  /\ \A i \in 1 .. client_num : time[i] \in {0} \cup 1 .. client_num
  /\ \A i \in Index : i > client_num => time[i] = 0

Moved(n) == {m \in HISTORY + 1 .. n : m \in pid}
Moves ==
  /\ pid \subseteq 1 .. client_num
  /\ Making \/ pc \in {"open", "check", "fork", "wait"} => client_num >= 1 /\ client_num \notin pid
  /\ start = 1 + Cardinality(Moved(client_num))

WInv == HistoryTypeOK /\ Entries /\ Clock /\ Moves

LEMMA InitWInv ==
  ASSUME Init
  PROVE  WInv
<1>1. HistoryTypeOK
  BY InitTyped DEF Init
<1>2. client_num = 0 /\ start = 1 /\ pid = {} /\ pc = "accept" /\ \A i \in Index : time[i] = 0
  BY DEF Init, HistoryInit
<1>3. Entries /\ Clock
  BY <1>2 DEF Entries, Clock, Making, WithoutTime
<1>4. Moves
  <2>1. Moved(client_num) = {} /\ Cardinality({}) = 0
    BY <1>2, FS_EmptySet DEF Moved
  <2> QED
    BY <1>2, <2>1 DEF Moves, Making
<1> QED
  BY <1>1, <1>3, <1>4 DEF WInv

(* Steps that leave the history alone, and go on or end the server.        *)
LEMMA KeepsWInv ==
  ASSUME WInv, UNCHANGED <<history, pid>>,
         pc' \notin {"accept", "left"} => client' \in Clients,
         \/ pc' = "left"
         \/ UNCHANGED <<pc, client>>
         \/ /\ pc # "left" /\ ~Making /\ ~Making'
            /\ pc' \in {"open", "check", "fork", "wait"} => pc \in {"open", "check", "fork", "wait"}
  PROVE  WInv'
<1> USE DEF WInv, history
<1>1. HistoryTypeOK'
  BY HistoryUnchanged
<1>2. Entries'
  BY DEF Entries, Making, Shows
<1>3. Clock'
  BY DEF Clock, Making, WithoutTime
<1>4. Moves'
  <2>1. Moved(client_num)' = Moved(client_num)
    BY DEF Moved
  <2> QED
    BY <2>1 DEF Moves, Making
<1> QED
  BY <1>1, <1>2, <1>3, <1>4

LEMMA RecordWInv ==
  ASSUME SInv, WInv, Record
  PROVE  WInv'
<1> USE DEF WInv, Goto, round, server
<1>0. /\ HistoryTypeOK /\ client \in Clients /\ client_num \in Nat /\ client_num \in Index
      /\ HISTORY \in Nat \ {0} /\ 1 .. client_num \subseteq Index
      /\ UNCHANGED <<client, pid>> /\ client_num + 1 \in Nat
  BY IndexRange, HistoryAssumption DEF Record, Entries
<1>1. CASE pc = "count" /\ pc' = "address" /\ Count(client, client_num + 1)
  <2>1. /\ HistoryTypeOK'
        /\ log'[client_num'] = [who |-> client, at |-> client_num + 1]
        /\ \A i \in 1 .. client_num : log'[i] = log[i]
    BY <1>0, <1>1, CountTyped
  <2>2. /\ client_num' = client_num + 1
        /\ UNCHANGED <<start, ip_addr, port, time, cum_num, torn>>
    BY <1>1 DEF Count
  <2>3. \A i \in 1 .. client_num' : i \in 1 .. client_num \/ i = client_num'
    BY <1>0, <2>2
  <2>4. client_num' \in Index /\ client_num' > client_num
    BY <1>0, <2>1, <2>2 DEF HistoryTypeOK
  <2>5. Entries'
    <3>1. \A i \in 1 .. client_num' : log'[i].who \in Clients /\ log'[i].at = i
      BY <1>0, <2>1, <2>2, <2>3 DEF Entries
    <3>2. \A i \in 1 .. client_num : Shows(i, log[i].who)' /\ log'[i] = log[i]
      BY <1>1, <2>1, <2>2 DEF Entries, Making, Shows
    <3>3. client_num' - 1 = client_num /\ client_num' >= 1
      BY <1>0, <2>2
    <3> QED
      BY <1>0, <1>1, <2>1, <3>1, <3>2, <3>3 DEF Entries, Making
  <2>6. Clock'
    <3>1. time[client_num'] = 0
      BY <2>4 DEF Clock
    <3>2. \A i \in 1 .. client_num' : time'[i] \in {0} \cup 1 .. client_num'
      BY <1>0, <2>2, <2>3, <3>1 DEF Clock
    <3>3. client_num' - 1 = client_num
      BY <1>0, <2>2
    <3>4. \A i \in Index : i > client_num' => time'[i] = 0
      BY <1>0, <2>2 DEF Clock, Index
    <3> QED
      BY <1>1, <2>2, <3>2, <3>3, <3>4 DEF Clock, WithoutTime
  <2>7. Moves'
    <3>1. client_num' \notin pid /\ pid \subseteq 1 .. client_num' /\ client_num' >= 1
      BY <1>0, <2>2 DEF Moves
    <3>2. Moved(client_num)' = Moved(client_num)
      BY <1>0, <2>2, <3>1 DEF Moved
    <3> QED
      BY <1>0, <2>2, <3>1, <3>2 DEF Moves
  <2> QED
    BY <2>1, <2>5, <2>6, <2>7
<1>2. CASE \/ pc = "address" /\ pc' = "port" /\ RecordAddress(client)
           \/ pc = "port" /\ pc' = "time" /\ RecordPort(client)
           \/ pc = "time" /\ pc' = "number" /\ RecordTime(client_num)
           \/ pc = "number" /\ pc' = "open" /\ RecordNumber
  <2>1. HistoryTypeOK'
    BY <1>0, <1>2, RecordTyped
  <2>2. UNCHANGED <<client_num, start, log, torn>>
    BY <1>2 DEF RecordAddress, RecordPort, RecordTime, RecordNumber
  <2>3. Making /\ client_num >= 1 /\ log[client_num].who = client
    BY <1>2 DEF Entries, Making
  <2>4. Entries'
    <3>1. CASE pc = "address" /\ pc' = "port" /\ RecordAddress(client)
      BY <1>0, <2>2, <2>3, <3>1 DEF Entries, Making, Shows, RecordAddress, HistoryTypeOK
    <3>2. CASE pc = "port" /\ pc' = "time" /\ RecordPort(client)
      BY <1>0, <2>2, <2>3, <3>2 DEF Entries, Making, Shows, RecordPort, HistoryTypeOK
    <3>3. CASE pc = "time" /\ pc' = "number" /\ RecordTime(client_num)
      BY <1>0, <2>2, <2>3, <3>3 DEF Entries, Making, Shows, RecordTime, HistoryTypeOK
    <3>4. CASE pc = "number" /\ pc' = "open" /\ RecordNumber
      BY <1>0, <2>2, <2>3, <3>4 DEF Entries, Making, Shows, RecordNumber, HistoryTypeOK
    <3> QED
      BY <1>2, <3>1, <3>2, <3>3, <3>4
  <2>5. Clock'
    <3>1. CASE pc = "time" /\ pc' = "number" /\ RecordTime(client_num)
      <4>1. /\ time'[client_num] = client_num
            /\ \A i \in Index : i # client_num => time'[i] = time[i]
        BY <1>0, <3>1 DEF RecordTime, HistoryTypeOK
      <4>2. \A i \in 1 .. client_num : i \in 1 .. client_num - 1 \/ i = client_num
        BY <1>0
      <4>3. \A i \in Index : i > client_num => i # client_num
        BY <1>0 DEF Index
      <4> QED
        BY <1>0, <2>2, <2>3, <3>1, <4>1, <4>2, <4>3 DEF Clock, WithoutTime
    <3>2. CASE ~(pc = "time" /\ pc' = "number" /\ RecordTime(client_num))
      <4>1. UNCHANGED time /\ WithoutTime' = WithoutTime /\ pc # "left"
        BY <1>2, <3>2 DEF RecordAddress, RecordPort, RecordNumber, WithoutTime
      <4> QED
        BY <2>2, <4>1 DEF Clock
    <3> QED
      BY <3>1, <3>2
  <2>6. Moves'
    <3>1. Moved(client_num)' = Moved(client_num)
      BY <1>0, <2>2 DEF Moved
    <3> QED
      BY <1>0, <2>2, <2>3, <3>1 DEF Moves
  <2> QED
    BY <2>1, <2>4, <2>5, <2>6
<1> QED
  BY <1>1, <1>2 DEF Record

(* A client gets its pid: if it is beyond HISTORY the window moves.        *)
LEMMA ReapWInv ==
  ASSUME WInv, Reap
  PROVE  WInv'
<1> USE DEF WInv, Goto, round
<1>0. /\ HistoryTypeOK /\ client_num \in Nat /\ HISTORY \in Nat \ {0} /\ start \in Nat \ {0}
      /\ pc = "wait" /\ pc' = "accept" /\ pid' = pid \cup {client_num}
      /\ start' = (IF client_num > HISTORY THEN start + 1 ELSE start)
      /\ UNCHANGED <<client_num, ip_addr, port, time, cum_num, log, torn, client>>
  BY IndexRange, HistoryAssumption DEF Reap, HistoryTypeOK
<1>1. HistoryTypeOK'
  BY <1>0 DEF HistoryTypeOK
<1>2. Entries' /\ Clock'
  BY <1>0 DEF Entries, Clock, Making, WithoutTime, Shows
<1>3. Moves'
  <2>1. client_num >= 1 /\ client_num \notin pid /\ pid \subseteq 1 .. client_num
        /\ start = 1 + Cardinality(Moved(client_num))
    BY <1>0 DEF Moves
  <2>2. IsFiniteSet(Moved(client_num)) /\ Cardinality(Moved(client_num)) \in Nat
    <3>1. Moved(client_num) \in SUBSET (HISTORY + 1 .. client_num)
      BY DEF Moved
    <3>2. IsFiniteSet(HISTORY + 1 .. client_num)
      BY <1>0, FS_Interval
    <3> QED
      BY <3>1, <3>2, FS_Subset, FS_CardinalityType
  <2>3. start' = 1 + Cardinality(Moved(client_num)')
    <3>1. CASE client_num > HISTORY
      <4>1. Moved(client_num)' = Moved(client_num) \cup {client_num}
            /\ client_num \notin Moved(client_num)
        BY <1>0, <2>1, <3>1 DEF Moved
      <4>2. Cardinality(Moved(client_num)') = Cardinality(Moved(client_num)) + 1
        BY <2>2, <4>1, FS_AddElement
      <4> QED
        BY <1>0, <2>1, <2>2, <3>1, <4>2
    <3>2. CASE ~(client_num > HISTORY)
      <4>1. Moved(client_num)' = {} /\ Moved(client_num) = {}
        BY <1>0, <3>2 DEF Moved
      <4> QED
        BY <1>0, <2>1, <3>2, <4>1
    <3> QED
      BY <3>1, <3>2
  <2> QED
    BY <1>0, <2>1, <2>3 DEF Moves, Making
<1> QED
  BY <1>1, <1>2, <1>3

LEMMA AlarmWInv ==
  ASSUME WInv, Alarm
  PROVE  WInv'
<1> USE DEF WInv
<1>0. /\ HistoryTypeOK /\ client_num \in Nat /\ start \in Nat \ {0} /\ pc # "left"
      /\ SortTimes(start)
      /\ torn' = (torn \/ WithoutTime)
      /\ UNCHANGED <<client_num, start, ip_addr, port, cum_num, log, pc, client, pid>>
  BY IndexRange DEF Alarm, HistoryTypeOK, WithoutTime, round, server
<1>1. /\ time' \in [Index -> Nat]
      /\ \A i \in Index : i > client_num => time'[i] = time[i]
      /\ \A i \in 1 .. client_num : \E b \in 1 .. client_num : time'[i] = time[b]
      /\ (\A i, b \in 1 .. client_num : i <= b => time[i] <= time[b]) =>
           \A i \in 1 .. client_num : time'[i] = time[i]
  BY <1>0, SortedReport
<1>2. HistoryTypeOK'
  BY <1>0, <1>1 DEF HistoryTypeOK
<1>3. Entries'
  BY <1>0 DEF Entries, Making, Shows
<1>4. Clock'
  <2>1. ASSUME ~torn'
        PROVE  \A i \in 1 .. client_num : time'[i] = i
    <3>1. ~torn /\ ~WithoutTime
      BY <1>0, <2>1
    <3>2. \A i \in 1 .. client_num : time[i] = i
      BY <1>0, <3>1 DEF Clock
    <3> QED
      BY <1>1, <3>2
  <2>2. 1 .. (IF WithoutTime' THEN client_num' - 1 ELSE client_num') \subseteq 1 .. client_num
    BY <1>0
  <2> QED
    BY <1>0, <1>1, <2>1, <2>2 DEF Clock
<1>5. Moves'
  <2>1. Moved(client_num)' = Moved(client_num)
    BY <1>0 DEF Moved
  <2> QED
    BY <1>0, <2>1 DEF Moves, Making
<1> QED
  BY <1>2, <1>3, <1>4, <1>5

LEMMA NextKeepsWInv ==
  ASSUME SInv, WInv, [Next]_vars
  PROVE  WInv'
<1> USE DEF Goto, server, round, vars
<1>0. pc \notin {"accept", "left"} => client \in Clients
  BY DEF WInv, Entries
<1>1. CASE Client
  <2>1. UNCHANGED <<history, pid>> /\ pc \in {"accept", "read"}
        /\ pc' \in {"accept", "left", "read", "count", "serve"}
        /\ (pc' \notin {"accept", "left"} => client' \in Clients)
    BY <1>0, <1>1 DEF Client, Accept, AcceptFails, Leave, ReadNothing, Read
  <2> QED
    BY <2>1, KeepsWInv DEF Making
<1>2. CASE \/ Overrun \/ OpenUsers \/ OpenUsersFails \/ Refuse \/ RefusedHangsUp
           \/ Admit \/ Fork \/ ForkFails
  <2>1. UNCHANGED <<history, pid, client>>
        /\ \/ pc' = "left"
           \/ pc \in {"open", "check", "fork"} /\ pc' \in {"check", "accept", "fork", "wait"}
    BY <1>2 DEF Overrun, OpenUsers, OpenUsersFails, Leave, Refuse, RefusedHangsUp, Admit, Fork,
                ForkFails
  <2> QED
    BY <1>0, <2>1, KeepsWInv DEF Making
<1>3. CASE \/ Answer \/ ChildDies \/ Stall \/ ReadOn \/ AnsweredHangsUp \/ CtrlC \/ CtrlZ \/ Disturb \/ UNCHANGED vars
  <2>1. UNCHANGED <<history, pid, client>> /\ (pc' = "left" \/ pc' = pc)
    BY <1>3 DEF Answer, RoutePage, RouteImage, RouteNothing, Leave, MakePage, PageDone,
                PageFails, ChildDies, Stall, ReadOn, AnsweredHangsUp, CtrlC, CtrlZ, Disturb
  <2> QED
    BY <1>0, <2>1, KeepsWInv
<1>4. CASE Close
  <2>1. UNCHANGED <<history, pid, client>> /\ pc = "serve" /\ pc' = "accept"
    BY <1>4 DEF Close
  <2> QED
    BY <2>1, KeepsWInv DEF Making
<1> QED
  BY <1>1, <1>2, <1>3, <1>4, RecordWInv, ReapWInv, AlarmWInv DEF Next, Work, Peer

(* However clients come and are refused and alarms fall: the window of 2-3 *)
(* shows HISTORY clients and one more for each without a pid, every row    *)
(* its own client, and with its time unless an alarm came in the middle.   *)
THEOREM WindowCorrect == Spec => []Window
<1>1. WInv => Window
  <2> SUFFICES ASSUME WInv
               PROVE  Window
    OBVIOUS
  <2>0. HistoryTypeOK /\ client_num \in Nat /\ HISTORY \in Nat \ {0} /\ start \in Nat
    BY IndexRange, HistoryAssumption DEF WInv, HistoryTypeOK
  <2>1. ASSUME client_num > HISTORY
        PROVE  client_num - start + 1 =
                 HISTORY + Cardinality({n \in HISTORY + 1 .. client_num : n \notin pid})
    <3> DEFINE All == HISTORY + 1 .. client_num
               Rest == {n \in All : n \notin pid}
    <3>1. IsFiniteSet(All) /\ Cardinality(All) = client_num - HISTORY
      BY <2>0, <2>1, FS_Interval
    <3>2. Moved(client_num) \subseteq All /\ Rest = All \ Moved(client_num)
      BY DEF Moved
    <3>3. IsFiniteSet(Moved(client_num)) /\ All \cap Moved(client_num) = Moved(client_num)
      BY <3>1, <3>2, FS_Subset
    <3>4. Cardinality(Rest) = Cardinality(All) - Cardinality(All \cap Moved(client_num))
      BY <3>1, <3>2, FS_Difference
    <3>5. Cardinality(Moved(client_num)) \in Nat /\ start = 1 + Cardinality(Moved(client_num))
      BY <3>3, FS_CardinalityType DEF WInv, Moves
    <3> HIDE DEF All, Rest
    <3>6. client_num - start + 1 = HISTORY + Cardinality(Rest)
      <4>1. Cardinality(Rest) = (client_num - HISTORY) - Cardinality(Moved(client_num))
        BY <3>1, <3>3, <3>4
      <4>2. \A c, h, s, m, r \in Int : r = (c - h) - m /\ s = 1 + m => c - s + 1 = h + r
        OBVIOUS
      <4>3. Cardinality(Rest) \in Int
        BY <2>0, <3>5, <4>1
      <4> QED
        BY <2>0, <3>5, <4>1, <4>2, <4>3
    <3> QED
      BY <3>6 DEF All, Rest
  <2>2. ASSUME pc # "left"
        PROVE  /\ \A i \in 1 .. (IF Making THEN client_num - 1 ELSE client_num) : Shows(i, log[i].who)
               /\ TimesUpTo(IF Making THEN client_num - 1 ELSE client_num)
    <3>1. \A i \in 1 .. client_num : log[i].at = i
      BY DEF WInv, Entries
    <3>2. {log[b].at : b \in 1 .. client_num} = 1 .. client_num
      BY <3>1
    <3>3. 1 .. (IF Making THEN client_num - 1 ELSE client_num)
            \subseteq 1 .. (IF WithoutTime THEN client_num - 1 ELSE client_num)
      BY <2>0 DEF Making, WithoutTime
    <3>4. 1 .. (IF Making THEN client_num - 1 ELSE client_num) \subseteq 1 .. client_num
      BY <2>0
    <3> QED
      BY <2>2, <3>1, <3>2, <3>3, <3>4 DEF WInv, Entries, Clock, TimesUpTo
  <2> QED
    BY <2>1, <2>2 DEF Window, Making
<1> QED
  BY <1>1, AccountKept, InitWInv, NextKeepsWInv, PTL DEF Spec
---------------------------------------------------------------------------
(* The rows of a page.  While a directory is listed the URL leads to it,   *)
(* until it is removed, because no other one is removed meanwhile; rows    *)
(* are made in the order of the sorted array, one at most for each entry.  *)

Listing == at \in {"count", "store", "total", "rows"} \/ (at = "return0" /\ rows # <<>>)

PageTypes ==
  /\ gone \subseteq Dirs /\ entries \in [Folders -> SUBSET Names]
  /\ url \in Seq(Names) /\ request.url \in Seq(Names)
  /\ path \in Folders /\ seen \subseteq Names
  /\ at \in {"open", "outside", "count", "store", "total"} => rows = <<>>

Leads == Listing /\ path \notin gone => Resolve(url) = path

Sorted ==
  /\ Listing /\ at \notin {"count", "store"} => arr = SortHidden(seen) /\ dir_num = Cardinality(seen)
  /\ at \in {"total", "rows"} => j \in 1 .. dir_num
  /\ at \in {"total", "rows"} /\ path \notin gone /\ ~disturbed => seen = entries[path]

Wanted(n) == n \notin Nameless /\ (n \in Hidden => aflag)

(* The rows of the first n entries of the array.                           *)
RowsOf(n) ==
  /\ rows \in Seq([name : Names, of : Folders, link : Seq(Names)])
  /\ \A k \in DOMAIN rows : /\ rows[k] = Row(rows[k].name, path) /\ Wanted(rows[k].name)
                            /\ \E m \in 1 .. n : arr[m] = rows[k].name
  /\ \A k, m \in DOMAIN rows : k < m => Key[rows[k].name] < Key[rows[m].name]
  /\ ~disturbed =>
       \A m \in 1 .. n : Wanted(arr[m]) => \E k \in DOMAIN rows : rows[k].name = arr[m]

Made ==
  path \notin gone =>
    /\ at = "rows" => RowsOf(j - 1)
    /\ at = "return0" /\ rows # <<>> => RowsOf(dir_num)

RInv == PageTypes /\ Leads /\ Sorted /\ Made

(* The number of smaller names is the place of a name in the sorted array: *)
(* it is different for each name, so there is a name for each place.       *)
LEMMA SortHiddenSorts ==
  ASSUME NEW S \in SUBSET Names
  PROVE  /\ Cardinality(S) \in Nat
         /\ SortHidden(S) \in [1 .. Cardinality(S) -> S]
         /\ \A k, m \in 1 .. Cardinality(S) :
              k < m => Key[SortHidden(S)[k]] < Key[SortHidden(S)[m]]
         /\ \A n \in S : \E k \in 1 .. Cardinality(S) : SortHidden(S)[k] = n
<1> DEFINE below(n) == {m \in S : Key[m] < Key[n]}
           r == [n \in S |-> Cardinality(below(n))]
<1>1. /\ IsFiniteSet(S) /\ Cardinality(S) \in Nat
      /\ \A n \in S : Key[n] \in Nat
      /\ \A m, n \in S : Key[m] = Key[n] => m = n
  BY PageAssumption, FS_Subset, FS_CardinalityType DEF IsInjective
<1>2. ASSUME NEW n \in S
      PROVE  /\ IsFiniteSet(below(n)) /\ Cardinality(below(n)) \in Nat
             /\ Cardinality(below(n)) < Cardinality(S)
  <2>1. below(n) \in SUBSET S /\ n \notin below(n)
    BY <1>1
  <2>2. /\ IsFiniteSet(below(n)) /\ Cardinality(below(n)) <= Cardinality(S)
        /\ Cardinality(S) = Cardinality(below(n)) => S = below(n)
    BY <1>1, <2>1, FS_Subset
  <2>3. Cardinality(below(n)) \in Nat
    BY <2>2, FS_CardinalityType
  <2> HIDE DEF below
  <2> QED
    BY <1>1, <2>1, <2>2, <2>3
<1>3. ASSUME NEW m \in S, NEW n \in S, Key[m] < Key[n]
      PROVE  Cardinality(below(m)) < Cardinality(below(n))
  <2>1. below(m) \in SUBSET below(n) /\ m \in below(n) /\ m \notin below(m)
    BY <1>1, <1>3
  <2>2. /\ Cardinality(below(m)) <= Cardinality(below(n))
        /\ Cardinality(below(n)) = Cardinality(below(m)) => below(n) = below(m)
    BY <1>2, <2>1, FS_Subset
  <2> HIDE DEF below
  <2> QED
    BY <1>2, <2>1, <2>2
<1>4. r \in [S -> 0 .. Cardinality(S) - 1]
  <2> HIDE DEF below
  <2> QED
    BY <1>1, <1>2
<1>5. \A m, n \in S : /\ r[m] = r[n] => m = n
                      /\ r[m] < r[n] => Key[m] < Key[n]
  <2> SUFFICES ASSUME NEW m \in S, NEW n \in S
               PROVE  /\ r[m] = r[n] => m = n
                      /\ r[m] < r[n] => Key[m] < Key[n]
    OBVIOUS
  <2>1. r[m] = Cardinality(below(m)) /\ r[n] = Cardinality(below(n))
    OBVIOUS
  <2>2. r[m] \in Nat /\ r[n] \in Nat
    BY <1>2, <2>1
  <2>3. Key[m] < Key[n] => r[m] < r[n]
    BY <1>3, <2>1
  <2>4. Key[n] < Key[m] => r[n] < r[m]
    BY <1>3, <2>1
  <2> HIDE DEF r
  <2> QED
    BY <1>1, <2>2, <2>3, <2>4
<1> HIDE DEF r
<1>6. ASSUME NEW k \in 1 .. Cardinality(S)
      PROVE  \E n \in S : r[n] = k - 1
  <2>1. IsFiniteSet(0 .. Cardinality(S) - 1) /\ Cardinality(0 .. Cardinality(S) - 1) = Cardinality(S)
    <3>1. 0 \in Int /\ Cardinality(S) - 1 \in Int /\ (0 > Cardinality(S) - 1 <=> Cardinality(S) = 0)
          /\ (Cardinality(S) - 1) - 0 + 1 = Cardinality(S)
      BY <1>1
    <3>2. /\ IsFiniteSet(0 .. Cardinality(S) - 1)
          /\ Cardinality(0 .. Cardinality(S) - 1) =
               IF 0 > Cardinality(S) - 1 THEN 0 ELSE (Cardinality(S) - 1) - 0 + 1
      BY <3>1, FS_Interval
    <3> QED
      BY <3>1, <3>2
  <2>2. r \in Injection(S, 0 .. Cardinality(S) - 1)
    BY <1>4, <1>5 DEF Injection, IsInjective
  <2>3. r \in Surjection(S, 0 .. Cardinality(S) - 1)
    BY <2>1, <2>2, FS_Injection
  <2>4. k - 1 \in 0 .. Cardinality(S) - 1
    BY <1>1
  <2> QED
    BY <2>3, <2>4 DEF Surjection
<1>7. ASSUME NEW k \in 1 .. Cardinality(S)
      PROVE  SortHidden(S)[k] \in S /\ r[SortHidden(S)[k]] = k - 1
  <2>1. SortHidden(S)[k] = CHOOSE n \in S : Cardinality(below(n)) = k - 1
    BY DEF SortHidden
  <2>2. \E n \in S : Cardinality(below(n)) = k - 1
    BY <1>6 DEF r
  <2>3. SortHidden(S)[k] \in S /\ Cardinality(below(SortHidden(S)[k])) = k - 1
    <3> HIDE DEF below
    <3> QED
      BY <2>1, <2>2
  <2> QED
    BY <2>3 DEF r
<1>8. SortHidden(S) \in [1 .. Cardinality(S) -> S]
  BY <1>7 DEF SortHidden
<1>9. ASSUME NEW k \in 1 .. Cardinality(S), NEW m \in 1 .. Cardinality(S), k < m
      PROVE  Key[SortHidden(S)[k]] < Key[SortHidden(S)[m]]
  <2>1. r[SortHidden(S)[k]] < r[SortHidden(S)[m]]
    BY <1>7, <1>9
  <2> QED
    BY <1>5, <1>7, <2>1
<1>10. ASSUME NEW n \in S
       PROVE  \E k \in 1 .. Cardinality(S) : SortHidden(S)[k] = n
  <2>1. r[n] \in 0 .. Cardinality(S) - 1 /\ r[n] + 1 \in 1 .. Cardinality(S)
        /\ (r[n] + 1) - 1 = r[n]
    BY <1>1, <1>4
  <2>2. r[SortHidden(S)[r[n] + 1]] = r[n] /\ SortHidden(S)[r[n] + 1] \in S
    BY <1>7, <2>1
  <2>3. SortHidden(S)[r[n] + 1] = n
    BY <1>5, <2>2
  <2> QED
    BY <2>1, <2>3
<1> QED
  BY <1>1, <1>8, <1>9, <1>10

LEMMA LastOfLink ==
  ASSUME NEW u \in Seq(Names), NEW n \in Names
  PROVE  Front(Append(u, n)) = u /\ Last(Append(u, n)) = n /\ Append(u, n) \in Seq(Names)
<1>1. /\ Append(u, n) \in Seq(Names) /\ Len(Append(u, n)) = Len(u) + 1 /\ Len(u) \in Nat
      /\ \A i \in 1 .. Len(u) : Append(u, n)[i] = u[i]
      /\ Append(u, n)[Len(u) + 1] = n
  BY AppendProperties, LenProperties
<1>2. Front(Append(u, n)) = SubSeq(Append(u, n), 1, Len(u))
  BY <1>1 DEF Front
<1>3. SubSeq(Append(u, n), 1, Len(u)) = u
  <2>1. \A i \in 1 .. Len(u) : Append(u, n)[i] \in Names
    BY <1>1, ElementOfSeq
  <2>2. /\ SubSeq(Append(u, n), 1, Len(u)) \in Seq(Names)
        /\ Len(SubSeq(Append(u, n), 1, Len(u))) = Len(u)
        /\ \A i \in 1 .. Len(u) : SubSeq(Append(u, n), 1, Len(u))[i] = Append(u, n)[1 + i - 1]
    BY <1>1, <2>1, SubSeqProperties
  <2>3. \A i \in 1 .. Len(u) : SubSeq(Append(u, n), 1, Len(u))[i] = u[i]
    BY <1>1, <2>2
  <2> QED
    BY <2>2, <2>3, SeqEqual
<1> QED
  BY <1>1, <1>2, <1>3 DEF Last
---------------------------------------------------------------------------

LEMMA InitRInv ==
  ASSUME Init
  PROVE  RInv
<1>1. PageTypes
  <2>1. \A d \in Folders : entries[d] \in SUBSET Names
    <3>1. PICK c \in [Folders -> UNION {Contents[d] : d \in Folders}] :
            /\ \A d \in Folders : c[d] \in Contents[d]
            /\ entries = [d \in Folders |-> c[d] \cup Dots]
      BY DEF Init, PageInit
    <3> QED
      BY <3>1, PageAssumption
  <2>2. entries = [d \in Folders |-> entries[d]]
    BY DEF Init, PageInit
  <2>3. entries \in [Folders -> SUBSET Names]
    BY <2>1, <2>2
  <2>4. url = <<>> /\ request.url = <<>> /\ gone = {} /\ path = Home /\ seen = {} /\ at = "idle"
    BY DEF Init, PageInit, NoRequest
  <2>5. <<>> \in Seq(Names) /\ Home \in Folders
    BY EmptySeq DEF Folders
  <2> QED
    BY <2>3, <2>4, <2>5 DEF PageTypes
<1>2. Leads /\ Sorted /\ Made
  BY DEF Init, PageInit, Leads, Sorted, Made, Listing
<1> QED
  BY <1>1, <1>2 DEF RInv

(* Steps that make no page, and steps that end one.                        *)
LEMMA KeepsRInv ==
  ASSUME RInv, request'.url \in Seq(Names), UNCHANGED <<disk, call, path, rows, arr, dir_num, j, seen, at>>
  PROVE  RInv'
<1> USE DEF disk, call
<1>1. PageTypes'
  BY DEF RInv, PageTypes
<1>2. Resolve(url)' = Resolve(url)
  BY DEF Resolve
<1>3. Leads' /\ Sorted'
  BY <1>2 DEF RInv, Leads, Sorted, Listing
<1>4. Made'
  BY DEF RInv, Made, RowsOf, Row, Wanted
<1> QED
  BY <1>1, <1>3, <1>4 DEF RInv

LEMMA EndsRInv ==
  ASSUME RInv, UNCHANGED request, Return
  PROVE  RInv'
<1>1. at' = "idle" /\ UNCHANGED <<entries, gone>> /\ url' = <<>> /\ path' = Home /\ seen' = {}
  BY DEF Return
<1>2. <<>> \in Seq(Names) /\ Home \in Folders
  BY EmptySeq DEF Folders
<1> QED
  BY <1>1, <1>2 DEF RInv, PageTypes, Leads, Sorted, Made, Listing

LEMMA StartsRInv ==
  ASSUME RInv, UNCHANGED request, NEW u \in Seq(Names), NEW a, PrintOption(u, a)
  PROVE  RInv'
BY DEF RInv, PrintOption, disk, PageTypes, Leads, Sorted, Made, Listing

(* The steps of print_option up to the rows.                               *)
LEMMA PassesRInv ==
  ASSUME RInv, UNCHANGED request,
         \/ NotFound \/ CannotOpen \/ PlainFile \/ OpenDir \/ CountPass
         \/ StorePass \/ StoreFails \/ TotalStep \/ RowsOverflow \/ LeadOut \/ OutsideListed
  PROVE  RInv'
<1> USE DEF RInv, disk, call
<1>1. CASE NotFound \/ CannotOpen \/ PlainFile \/ StoreFails \/ RowsOverflow
  <2>1. /\ at' \in {"return0", "return1", "undefined"} /\ (at' = "return0" => at = "open")
        /\ UNCHANGED <<disk, call, path, dir_num, arr, j, rows, seen>>
    BY <1>1 DEF NotFound, CannotOpen, PlainFile, StoreFails, RowsOverflow, Reply
  <2> QED
    BY <2>1 DEF PageTypes, Leads, Sorted, Made, Listing
<1>2. CASE OpenDir
  <2>1. /\ at = "open" /\ at' = "count" /\ path' = Resolve(url) /\ Resolve(url) \in Folders
        /\ UNCHANGED <<entries, gone, url, rows, seen>>
    BY <1>2 DEF OpenDir, IsDir
  <2>2. Resolve(url)' = path'
    BY <2>1 DEF Resolve
  <2> QED
    BY <2>1, <2>2 DEF PageTypes, Leads, Sorted, Made, Listing
<1>3. CASE CountPass
  <2>1. /\ at = "count" /\ at' = "store" /\ UNCHANGED <<entries, gone, url, path, rows, seen>>
    BY <1>3 DEF CountPass
  <2>2. Resolve(url)' = Resolve(url)
    BY <2>1 DEF Resolve
  <2> QED
    BY <2>1, <2>2 DEF PageTypes, Leads, Sorted, Made, Listing
<1>4. CASE StorePass
  <2>1. /\ at = "store" /\ at' = (IF dir_num = 0 THEN "return0" ELSE "total") /\ rows = <<>>
        /\ arr' = SortHidden(Listed) /\ j' = 1 /\ seen' = Listed /\ dir_num = Cardinality(Listed)
        /\ UNCHANGED <<entries, gone, disturbed, url, path, rows, dir_num>>
    BY <1>4 DEF StorePass, Outgrown, PageTypes
  <2>2. Listed \subseteq Names /\ (path \notin gone => Listed = entries[path])
    BY DEF Listed, PageTypes
  <2>3. Resolve(url)' = Resolve(url)
    BY <2>1 DEF Resolve
  <2>4. PageTypes' /\ Leads' /\ Made'
    BY <2>1, <2>2, <2>3 DEF PageTypes, Leads, Made, Listing
  <2>5. Sorted'
    <3>1. dir_num # 0 => 1 \in 1 .. dir_num
      <4>1. Cardinality(Listed) \in Nat
        BY <2>2, SortHiddenSorts
      <4> QED
        BY <2>1, <4>1
    <3> QED
      BY <2>1, <2>2, <3>1 DEF Sorted, Listing
  <2> QED
    BY <2>4, <2>5
<1>5. CASE TotalStep
  <2>1. /\ at = "total" /\ rows = <<>>
        /\ IF j < dir_num THEN j' = j + 1 /\ at' = "total" ELSE j' = 1 /\ at' = "rows"
        /\ UNCHANGED <<entries, gone, disturbed, url, aflag, path, dir_num, arr, rows, seen>>
    BY <1>5 DEF TotalStep, PageTypes
  <2>2. Resolve(url)' = Resolve(url)
    BY <2>1 DEF Resolve
  <2>3. PageTypes' /\ Leads'
    BY <2>1, <2>2 DEF PageTypes, Leads, Listing
  <2>4. j \in 1 .. dir_num /\ dir_num = Cardinality(seen) /\ dir_num \in Nat
    BY <2>1, SortHiddenSorts DEF PageTypes, Sorted, Listing
  <2>5. Sorted'
    BY <2>1, <2>4 DEF Sorted, Listing
  <2>6. Made'
    <3>1. at' = "rows" => RowsOf(j - 1)'
      <4>1. <<>> \in Seq([name : Names, of : Folders, link : Seq(Names)]) /\ DOMAIN <<>> = {}
        BY EmptySeq
      <4>2. at' = "rows" => 1 .. j' - 1 = {}
        BY <2>1
      <4> QED
        BY <2>1, <4>1, <4>2 DEF RowsOf
    <3> QED
      BY <2>1, <3>1 DEF Made
  <2> QED
    BY <2>3, <2>5, <2>6
<1>6. CASE LeadOut \/ OutsideListed
  <2>1. /\ at \in {"open", "outside"} /\ at' \in {"return0", "return1", "undefined", "outside"}
        /\ UNCHANGED <<disk, call, path, dir_num, arr, j, rows, seen>>
    BY <1>6 DEF LeadOut, OutsideListed, Reply
  <2>2. rows = <<>>
    BY <2>1 DEF PageTypes
  <2> QED
    BY <2>1, <2>2 DEF PageTypes, Leads, Sorted, Made, Listing
<1> QED
  BY <1>1, <1>2, <1>3, <1>4, <1>5, <1>6

(* One more row, or none, for the name at place m of the array.            *)
LEMMA RowsGrow ==
  ASSUME RInv, at = "rows", path \notin gone, NEW m, m = j, OptionL(arr[m]),
         UNCHANGED <<disk, call, path, dir_num, arr, seen>>
  PROVE  RowsOf(m)'
<1> DEFINE n == arr[m]
<1> USE DEF RInv, disk, call
<1>1. /\ seen \in SUBSET Names /\ arr = SortHidden(seen) /\ m \in 1 .. Cardinality(seen)
      /\ url \in Seq(Names) /\ path \in Folders
      /\ ~disturbed => seen = entries[path]
  BY DEF PageTypes, Sorted, Listing
<1>2. /\ Cardinality(seen) \in Nat /\ m \in Nat /\ n \in seen /\ n \in Names
      /\ \A k \in 1 .. m - 1 : Key[arr[k]] < Key[n]
      /\ \A k \in 1 .. m : k \in 1 .. m - 1 \/ k = m
  <2>1. /\ Cardinality(seen) \in Nat /\ SortHidden(seen) \in [1 .. Cardinality(seen) -> seen]
        /\ \A k, l \in 1 .. Cardinality(seen) :
              k < l => Key[SortHidden(seen)[k]] < Key[SortHidden(seen)[l]]
    BY <1>1, SortHiddenSorts
  <2>2. \A k \in 1 .. m - 1 : k \in 1 .. Cardinality(seen) /\ k < m
    BY <1>1, <2>1
  <2> QED
    BY <1>1, <2>1, <2>2
<1>3. /\ rows \in Seq([name : Names, of : Folders, link : Seq(Names)])
      /\ \A k \in DOMAIN rows : /\ rows[k] = Row(rows[k].name, path) /\ Wanted(rows[k].name)
                                /\ \E l \in 1 .. m - 1 : arr[l] = rows[k].name
      /\ \A k, l \in DOMAIN rows : k < l => Key[rows[k].name] < Key[rows[l].name]
      /\ ~disturbed =>
           \A l \in 1 .. m - 1 : Wanted(arr[l]) => \E k \in DOMAIN rows : rows[k].name = arr[l]
  BY DEF Made, RowsOf
<1>4. IF HasRow(n, path) THEN rows' = Append(rows, Row(n, path)) ELSE UNCHANGED rows
  BY DEF OptionL, Chdir
<1>5. CASE HasRow(n, path)
  <2>1. Row(n, path) \in [name : Names, of : Folders, link : Seq(Names)] /\ Row(n, path).name = n
    BY <1>1, <1>2, LastOfLink DEF Row
  <2>2. Wanted(n)
    BY <1>5 DEF HasRow, Wanted
  <2>3. Len(rows) \in Nat /\ DOMAIN rows = 1 .. Len(rows)
    BY <1>3, LenProperties
  <2>4. /\ rows' \in Seq([name : Names, of : Folders, link : Seq(Names)])
        /\ Len(rows) \in Nat /\ DOMAIN rows = 1 .. Len(rows)
        /\ DOMAIN rows' = 1 .. Len(rows) + 1
        /\ \A k \in DOMAIN rows : rows'[k] = rows[k]
        /\ rows'[Len(rows) + 1] = Row(n, path)
    <3>1. rows' = Append(rows, Row(n, path))
      BY <1>4, <1>5
    <3> DEFINE R == [name : Names, of : Folders, link : Seq(Names)]
    <3>2. rows \in Seq(R) /\ Row(n, path) \in R
      BY <1>3, <2>1
    <3> HIDE DEF R
    <3>3. /\ rows' \in Seq(R) /\ Len(rows') = Len(rows) + 1
          /\ \A k \in 1 .. Len(rows) : rows'[k] = rows[k]
          /\ rows'[Len(rows) + 1] = Row(n, path)
      BY <3>1, <3>2, AppendProperties
    <3>4. DOMAIN rows' = 1 .. Len(rows')
      BY <3>3, LenProperties
    <3> QED
      BY <2>3, <3>3, <3>4 DEF R
  <2>5. \A k \in DOMAIN rows' : k \in DOMAIN rows \/ k = Len(rows) + 1
    BY <2>4
  <2>6. ASSUME NEW k \in DOMAIN rows'
        PROVE  /\ rows'[k] = Row(rows'[k].name, path) /\ Wanted(rows'[k].name)
               /\ \E l \in 1 .. m : arr[l] = rows'[k].name
    <3>1. CASE k \in DOMAIN rows
      BY <1>2, <1>3, <2>4, <3>1
    <3>2. CASE k = Len(rows) + 1
      <4>1. rows'[k] = Row(n, path) /\ rows'[k].name = n
        BY <2>1, <2>4, <3>2
      <4>2. m \in 1 .. m /\ arr[m] = n
        BY <1>1, <1>2
      <4> QED
        BY <2>2, <4>1, <4>2
    <3> QED
      BY <2>5, <3>1, <3>2
  <2>7. ASSUME NEW k \in DOMAIN rows', NEW l \in DOMAIN rows', k < l
        PROVE  Key[rows'[k].name] < Key[rows'[l].name]
    <3>1. k \in DOMAIN rows
      BY <2>4, <2>7
    <3>2. CASE l \in DOMAIN rows
      BY <1>3, <2>4, <2>7, <3>1, <3>2
    <3>3. CASE l = Len(rows) + 1
      <4>1. PICK i \in 1 .. m - 1 : arr[i] = rows[k].name
        BY <1>3, <3>1
      <4> QED
        BY <1>2, <2>1, <2>4, <3>1, <3>3, <4>1
    <3> QED
      BY <2>5, <3>2, <3>3
  <2>8. ASSUME ~disturbed, NEW l \in 1 .. m, Wanted(arr[l])
        PROVE  \E k \in DOMAIN rows' : rows'[k].name = arr[l]
    <3>1. CASE l \in 1 .. m - 1
      <4>1. PICK k \in DOMAIN rows : rows[k].name = arr[l]
        BY <1>3, <2>8, <3>1
      <4> QED
        BY <2>3, <2>4, <4>1
    <3>2. CASE l = m
      <4>1. Len(rows) + 1 \in DOMAIN rows'
        BY <2>3, <2>4
      <4>2. rows'[Len(rows) + 1].name = n /\ arr[l] = n
        BY <1>1, <2>1, <2>4, <3>2
      <4> QED
        BY <4>1, <4>2
    <3> QED
      BY <1>2, <3>1, <3>2
  <2> QED
    BY <2>4, <2>6, <2>7, <2>8 DEF RowsOf, Row, Wanted
<1>6. CASE ~HasRow(n, path)
  <2>1. ~disturbed => ~Wanted(n)
    BY <1>1, <1>2, <1>6 DEF HasRow, Wanted
  <2>2. \A k \in DOMAIN rows : \E l \in 1 .. m : arr[l] = rows[k].name
    BY <1>2, <1>3
  <2>3. ~disturbed => \A l \in 1 .. m : Wanted(arr[l]) => \E k \in DOMAIN rows : rows[k].name = arr[l]
    BY <1>2, <1>3, <2>1
  <2>4. UNCHANGED rows
    BY <1>4, <1>6
  <2> QED
    BY <1>3, <2>2, <2>3, <2>4 DEF RowsOf, Row, Wanted
<1> QED
  BY <1>5, <1>6

LEMMA RowRInv ==
  ASSUME RInv, UNCHANGED request, RowStep
  PROVE  RInv'
<1> USE DEF RInv, disk, call
<1>1. /\ at = "rows" /\ OptionL(arr[j])
      /\ IF j < dir_num THEN j' = j + 1 /\ at' = "rows" ELSE j' = 1 /\ at' = "return0"
      /\ UNCHANGED <<disk, call, path, dir_num, arr, seen>>
  BY DEF RowStep
<1>2. j \in 1 .. dir_num /\ dir_num = Cardinality(seen) /\ dir_num \in Nat
  BY <1>1, SortHiddenSorts DEF PageTypes, Sorted, Listing
<1>3. Resolve(url)' = Resolve(url)
  BY <1>1 DEF Resolve
<1>4. PageTypes' /\ Leads'
  BY <1>1, <1>3 DEF PageTypes, Leads, Listing
<1>5. Sorted'
  BY <1>1, <1>2 DEF Sorted, Listing
<1>6. Made'
  <2> SUFFICES ASSUME path \notin gone
               PROVE  /\ at' = "rows" => RowsOf(j - 1)'
                      /\ at' = "return0" => RowsOf(dir_num)'
    BY <1>1 DEF Made
  <2>1. PICK m : m = j
    OBVIOUS
  <2>2. RowsOf(m)'
    BY <1>1, <2>1, RowsGrow
  <2>3. at' = "rows" => j' - 1 = m
    BY <1>1, <1>2, <2>1
  <2>4. at' = "return0" => dir_num' = m
    BY <1>1, <1>2, <2>1
  <2> QED
    BY <2>2, <2>3, <2>4 DEF RowsOf
<1> QED
  BY <1>4, <1>5, <1>6

(* Others change the directory that is listed, or remove it.               *)
LEMMA DisturbRInv ==
  ASSUME RInv, UNCHANGED request, ChangeFile \/ RemoveDir
  PROVE  RInv'
<1> USE DEF RInv, call
<1>1. /\ at \in {"count", "store", "total", "rows"} /\ disturbed' = TRUE
      /\ UNCHANGED <<at, call, path, dir_num, arr, j, rows, seen>>
  BY DEF ChangeFile, RemoveDir, Changing
<1>2. CASE ChangeFile
  <2>1. PICK n \in Names :
          entries' = [entries EXCEPT ![path] = IF n \in @ THEN @ \ {n} ELSE @ \cup {n}]
    BY <1>2 DEF ChangeFile
  <2>2. PageTypes'
    BY <1>1, <1>2, <2>1 DEF PageTypes, ChangeFile
  <2>3. Resolve(url)' = Resolve(url) /\ gone' = gone
    BY <1>1, <1>2 DEF Resolve, ChangeFile
  <2>4. Leads' /\ Sorted'
    BY <1>1, <2>3 DEF Leads, Sorted, Listing
  <2>5. Made'
    BY <1>1, <2>3 DEF Made, RowsOf, Row, Wanted
  <2> QED
    BY <2>2, <2>4, <2>5
<1>3. CASE RemoveDir
  <2>1. /\ gone' = gone \cup {path} /\ path \in Dirs
        /\ entries' = [entries EXCEPT ![Home] = @ \ {path}]
    BY <1>3 DEF RemoveDir
  <2>2. PageTypes'
    BY <1>1, <2>1 DEF PageTypes, Folders
  <2>3. Leads' /\ Sorted' /\ Made'
    BY <1>1, <2>1 DEF Leads, Sorted, Made, Listing
  <2> QED
    BY <2>2, <2>3
<1> QED
  BY <1>2, <1>3

LEMMA NextKeepsRInv ==
  ASSUME RInv, [Next]_vars
  PROVE  RInv'
<1> USE DEF Goto, server, round, vars, page, SamePage, SameFds, Leave
<1>0. request.url \in Seq(Names) /\ <<>> \in Seq(Names)
  BY EmptySeq DEF RInv, PageTypes
<1>1. CASE Accept
  <2>1. request'.url \in Seq(Names)
    BY <1>1, ServersAssumption DEF Accept
  <2> QED
    BY <1>1, <2>1, KeepsRInv DEF Accept
<1>2. CASE \/ AcceptFails \/ ReadNothing \/ Read \/ Record \/ OpenUsers \/ OpenUsersFails
           \/ Overrun \/ Refuse \/ Admit \/ Fork \/ ForkFails \/ RouteImage \/ RouteNothing
           \/ Stall \/ ReadOn \/ RefusedHangsUp \/ Close \/ Reap \/ Alarm \/ UNCHANGED vars
  <2>1. UNCHANGED <<request, disk, call, path, rows, arr, dir_num, j, seen, at>>
    BY <1>2 DEF AcceptFails, ReadNothing, Read, Record, OpenUsers, OpenUsersFails, Refuse, Admit,
                Fork, ForkFails, RouteImage, RouteNothing, Overrun, Stall, ReadOn,
                RefusedHangsUp, Close, Reap, Alarm, disk, call
  <2> QED
    BY <1>0, <2>1, KeepsRInv
<1>3. CASE RoutePage
  <2>1. Asked \in Seq(Names)
    BY <1>0 DEF Asked
  <2>2. UNCHANGED request /\ \E a : PrintOption(Asked, a)
    BY <1>3 DEF RoutePage
  <2> QED
    BY <2>1, <2>2, StartsRInv
<1>4. CASE MakePage
  BY <1>4, PassesRInv, RowRInv DEF MakePage, PageStep
<1>5. CASE PageDone \/ PageFails \/ ChildDies \/ AnsweredHangsUp \/ CtrlC \/ CtrlZ
  BY <1>5, EndsRInv DEF PageDone, PageFails, ChildDies, AnsweredHangsUp, CtrlC, CtrlZ
<1>6. CASE Disturb
  BY <1>6, DisturbRInv DEF Disturb
<1> QED
  BY <1>1, <1>2, <1>3, <1>4, <1>5, <1>6 DEF Next, Client, Work, Answer, Peer

(* For any directories and names, whatever others create and delete while  *)
(* a page is made: every row describes the entry of the listed directory   *)
(* that its link leads to, none has two, they come in order, and if nobody *)
(* has changed the directory none is missing.                              *)
THEOREM RowsCorrect == Spec => []RowsLead
<1>1. RInv => RowsLead
  <2> SUFFICES ASSUME RInv, at = "return0", rows # <<>>, path \notin gone
               PROVE  /\ \A k \in DOMAIN rows :
                           /\ Resolve(Front(rows[k].link)) = rows[k].of
                           /\ Last(rows[k].link) = rows[k].name
                           /\ rows[k].name \in seen /\ (rows[k].name \in Hidden => aflag)
                      /\ \A k, m \in DOMAIN rows : k < m => Key[rows[k].name] <= Key[rows[m].name]
                      /\ IsInjective(rows)
                      /\ ~disturbed => {rows[k].name : k \in DOMAIN rows}
                                       = {n \in seen \ Nameless : n \in Hidden => aflag}
    BY DEF RowsLead
  <2>1. /\ RowsOf(dir_num) /\ dir_num = Cardinality(seen) /\ arr = SortHidden(seen)
        /\ Resolve(url) = path /\ url \in Seq(Names) /\ seen \in SUBSET Names
    BY DEF RInv, Made, Sorted, Leads, Listing, PageTypes
  <2>2. /\ arr \in [1 .. dir_num -> seen]
        /\ \A n \in seen : \E m \in 1 .. dir_num : arr[m] = n
    BY <2>1, SortHiddenSorts
  <2>3. /\ DOMAIN rows \subseteq Nat
        /\ \A k \in DOMAIN rows : rows[k].name \in Names /\ Key[rows[k].name] \in Nat
    <3>1. rows \in Seq([name : Names, of : Folders, link : Seq(Names)])
      BY <2>1 DEF RowsOf
    <3>2. DOMAIN rows = 1 .. Len(rows) /\ Len(rows) \in Nat
      BY <3>1, LenProperties
    <3>3. \A k \in DOMAIN rows : rows[k].name \in Names
      BY <2>1, <2>2 DEF RowsOf
    <3> QED
      BY <3>2, <3>3, PageAssumption
  <2>4. ASSUME NEW k \in DOMAIN rows
        PROVE  /\ Resolve(Front(rows[k].link)) = rows[k].of
               /\ Last(rows[k].link) = rows[k].name
               /\ rows[k].name \in seen /\ (rows[k].name \in Hidden => aflag)
    <3>1. rows[k] = Row(rows[k].name, path) /\ Wanted(rows[k].name) /\ rows[k].name \in seen
      BY <2>1, <2>2 DEF RowsOf
    <3>2. rows[k].of = path /\ rows[k].link = Append(url, rows[k].name)
      BY <3>1 DEF Row
    <3> QED
      BY <2>1, <2>3, <3>1, <3>2, LastOfLink DEF Wanted
  <2>5. \A k, m \in DOMAIN rows : k < m => Key[rows[k].name] < Key[rows[m].name]
    BY <2>1 DEF RowsOf
  <2>6. IsInjective(rows)
    <3> SUFFICES ASSUME NEW k \in DOMAIN rows, NEW m \in DOMAIN rows, rows[k] = rows[m]
                 PROVE  k = m
      BY DEF IsInjective
    <3>1. Key[rows[k].name] = Key[rows[m].name]
      OBVIOUS
    <3>2. ~(Key[rows[k].name] < Key[rows[m].name]) /\ ~(Key[rows[m].name] < Key[rows[k].name])
      BY <2>3, <3>1
    <3> QED
      BY <2>3, <2>5, <3>2
  <2>7. ASSUME ~disturbed
        PROVE  {rows[k].name : k \in DOMAIN rows} = {n \in seen \ Nameless : n \in Hidden => aflag}
    <3>1. \A k \in DOMAIN rows : rows[k].name \in seen \ Nameless /\ (rows[k].name \in Hidden => aflag)
      BY <2>1, <2>4 DEF RowsOf, Wanted
    <3>2. ASSUME NEW n \in seen \ Nameless, n \in Hidden => aflag
          PROVE  \E k \in DOMAIN rows : rows[k].name = n
      <4>1. PICK m \in 1 .. dir_num : arr[m] = n
        BY <2>2
      <4>2. Wanted(arr[m])
        BY <3>2, <4>1 DEF Wanted
      <4> QED
        BY <2>1, <2>7, <4>1, <4>2 DEF RowsOf
    <3> QED
      BY <3>1, <3>2
  <2> QED
    BY <2>3, <2>4, <2>5, <2>6, <2>7
<1> QED
  BY <1>1, InitRInv, NextKeepsRInv, PTL DEF Spec
=============================================================================
