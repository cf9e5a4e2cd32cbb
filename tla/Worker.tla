------------------------------- MODULE Worker -------------------------------
(***************************************************************************)
(* One worker of the preforked server of 3-1: the loop of child_main from  *)
(* accept to close, with the descriptors it takes, the file of admitted    *)
(* addresses, and child_handler, which may interrupt it anywhere.  What    *)
(* happens after child_main returns, and the shutdown, are in Prefork.     *)
(***************************************************************************)
EXTENDS ConnectionHistory

CONSTANTS
  MAX_FD,     \* descriptors the process may open besides the socket
  MAX_TIME,   \* bound: the clock stops here
  Users,      \* contents of accessible.usr, a set of clients for each line
  NoFile      \* there is no such file

ASSUME WorkerAssumption ==
  /\ MAX_FD \in Nat /\ MAX_TIME \in Nat \ {0}
  /\ Users \subseteq Seq(SUBSET Clients)
  /\ NoFile \notin Users

VARIABLES
  place,         \* where child_main is
  client,     \* client_addr of this round
  cur_time,
  request,    \* tmp: has it a method, and GET a URL?
  now,        \* the clock
  users,      \* accessible.usr on the disk
  lines,      \* history: what was read of it in this round
  is_match,
  fds,        \* open descriptors: sockets, accessible.usr, directories
  outcome,    \* history: what this round came to
  lost        \* history: rounds that have kept a descriptor

round == <<client, cur_time, request, lines, is_match, outcome>>
workerVars == <<history, place, now, users, fds, round, lost>>

(* "denying" and "sending" are writes that wait for the client to read.    *)
(* child_main ends: it has "left" its loop, is "stuck" in child_handler,   *)
(* was killed by SIGPIPE ("hung up"), "crashed", or all is "undefined".    *)
Ends == {"left", "stuck", "hung up", "crashed", "undefined"}
Points == {"accept", "read", "count", "address", "port", "time", "number",
           "open", "check", "denying", "serve", "sending", "close"} \cup Ends
Open == fds["client"] + fds["usr"] + fds["dir"]

TypeOK ==
  /\ HistoryTypeOK
  /\ place \in Points
  /\ client \in Clients \cup {NoClient} /\ cur_time \in 0 .. MAX_TIME /\ now \in 1 .. MAX_TIME
  /\ request \in {"none", "proper", "blank"}
  /\ users \in Users \cup {NoFile} /\ lines \in Users \cup {<<>>, NoFile}
  /\ is_match \in BOOLEAN
  /\ fds \in [{"client", "usr", "dir"} -> Nat] /\ Open <= MAX_FD
  /\ outcome \in {"none", "200", "403", "404", "unreadable"}
  /\ lost \in Nat

WorkerInit ==
  /\ HistoryInit
  /\ place = "accept"
  /\ client = NoClient /\ cur_time = 0 /\ now = 1 /\ request = "none"
  /\ users \in Users \cup {NoFile} /\ lines = <<>> /\ is_match = TRUE
  /\ fds = [d \in {"client", "usr", "dir"} |-> 0] /\ lost = 0
  /\ outcome = "none"

---------------------------------------------------------------------------
(* child_main                                                              *)

Goto(here, there) == place = here /\ place' = there

(* The variables of a round are declared inside the loop.                  *)
NewRound ==
  /\ client' = NoClient /\ cur_time' = 0 /\ request' = "none"
  /\ lines' = <<>> /\ is_match' = TRUE

Accept ==
  /\ Goto("accept", "read")
  /\ Open < MAX_FD
  /\ fds' = [fds EXCEPT !["client"] = @ + 1]
  /\ client' \in Clients
  /\ outcome' = "none"
  /\ UNCHANGED <<history, now, users, cur_time, request, lines, is_match, lost>>

AcceptFails ==
  /\ Goto("accept", "left")
  /\ Open = MAX_FD
  /\ outcome' = "none"
  /\ UNCHANGED <<history, now, users, fds, client, cur_time, request, lines, is_match, lost>>

(* A client that sends nothing is dropped without a close.                 *)
ReadNothing ==
  /\ Goto("read", "accept")
  /\ lost' = lost + 1
  /\ NewRound
  /\ UNCHANGED <<history, now, users, fds, outcome>>

Read ==
  /\ Goto("read", "count")
  /\ cur_time' = now
  /\ request' \in {"proper", "blank"}
  /\ UNCHANGED <<history, now, users, fds, client, lines, is_match, outcome, lost>>

Record ==
  /\ \/ Goto("count", "address") /\ Count(client, cur_time)
     \/ Goto("address", "port") /\ RecordAddress(client)
     \/ Goto("port", "time") /\ RecordPort(client)
     \/ Goto("time", "number") /\ RecordTime(cur_time)
     \/ Goto("number", "open") /\ RecordNumber
  /\ UNCHANGED <<now, users, fds, round, lost>>

(* The entry of this client would lie behind the array.                    *)
Overrun ==
  /\ Goto("count", "undefined")
  /\ Full
  /\ UNCHANGED <<history, now, users, fds, round, lost>>

OpenUsersNeverClears ==
  /\ Goto("open", "check")
  /\ users # NoFile /\ Open < MAX_FD
  /\ fds' = [fds EXCEPT !["usr"] = @ + 1]
  /\ lines' = users
  /\ is_match' = TRUE
  /\ UNCHANGED <<history, now, users, client, cur_time, request, outcome, lost>>

(* The loop overwrites is_match with every line: the last one decides.     *)
OpenUsers ==
  /\ Goto("open", "check")
  /\ users # NoFile /\ Open < MAX_FD
  /\ fds' = [fds EXCEPT !["usr"] = @ + 1]
  /\ lines' = users
  /\ is_match' = (users = <<>> \/ client \in users[Len(users)])
  /\ UNCHANGED <<history, now, users, client, cur_time, request, outcome, lost>>

OpenUsersFails ==
  /\ Goto("open", "left")
  /\ users = NoFile \/ Open = MAX_FD
  /\ lines' = users
  /\ UNCHANGED <<history, now, users, fds, client, cur_time, request, is_match, outcome, lost>>

RefuseSilently ==
  /\ Goto("check", "accept")
  /\ ~is_match
  /\ UNCHANGED outcome
  /\ fds' = [fds EXCEPT !["client"] = @ - 1]
  /\ lost' = lost + 1
  /\ NewRound
  /\ UNCHANGED <<history, now, users>>

(* 403: the file of users stays open.                                      *)
Refuse ==
  /\ Goto("check", "accept")
  /\ ~is_match
  /\ outcome' = "403"
  /\ fds' = [fds EXCEPT !["client"] = @ - 1]
  /\ lost' = lost + 1
  /\ NewRound
  /\ UNCHANGED <<history, now, users>>

AdmitKeepsFile ==
  /\ Goto("check", "serve")
  /\ is_match
  /\ UNCHANGED fds
  /\ UNCHANGED <<history, now, users, round, lost>>

Admit ==
  /\ Goto("check", "serve")
  /\ is_match
  /\ fds' = [fds EXCEPT !["usr"] = @ - 1]
  /\ UNCHANGED <<history, now, users, round, lost>>

(* strtok finds no method in a blank request, and no URL after GET: a null *)
(* pointer is copied from.                                                 *)
Crash ==
  /\ Goto("serve", "crashed")
  /\ request = "blank"
  /\ UNCHANGED <<history, now, users, fds, round, lost>>

(* print_option returns before it closes the directory it has listed.      *)
ServeDirectory ==
  /\ Goto("serve", "close") /\ request = "proper"
  /\ Open < MAX_FD
  /\ outcome' = "200"
  /\ fds' = [fds EXCEPT !["dir"] = @ + 1]
  /\ lost' = lost + 1
  /\ UNCHANGED <<history, now, users, client, cur_time, request, lines, is_match>>

(* A text file needs a descriptor; an image is answered by a header even   *)
(* if it cannot be opened.  What was opened is closed.                     *)
ServeFile ==
  /\ Goto("serve", "close") /\ request = "proper"
  /\ outcome' = "200"
  /\ UNCHANGED <<history, now, users, fds, client, cur_time, request, lines, is_match, lost>>

(* No such file, or one that may not be opened: the worker leaves its      *)
(* loop.  Descriptors do not run out here, accessible.usr has freed one.   *)
NotFound ==
  /\ Goto("serve", "left") /\ request = "proper"
  /\ outcome' = "404"
  /\ UNCHANGED <<history, now, users, fds, client, cur_time, request, lines, is_match, lost>>

Unreadable ==
  /\ Goto("serve", "left") /\ request = "proper"
  /\ outcome' = "unreadable"
  /\ UNCHANGED <<history, now, users, fds, client, cur_time, request, lines, is_match, lost>>

CloseForgets ==
  /\ Goto("close", "accept")
  /\ UNCHANGED fds
  /\ NewRound
  /\ UNCHANGED <<history, now, users, outcome, lost>>

Close ==
  /\ Goto("close", "accept")
  /\ fds' = [fds EXCEPT !["client"] = @ - 1]
  /\ NewRound
  /\ UNCHANGED <<history, now, users, outcome, lost>>

(* Steps that wait for a client, and the others.                           *)
Wait == Accept \/ AcceptFails \/ ReadNothing \/ Read
Work == \/ Record \/ Overrun
        \/ OpenUsers \/ OpenUsersFails \/ Refuse \/ Admit
        \/ Crash \/ ServeDirectory \/ ServeFile \/ NotFound
        \/ Unreadable \/ Close
Main == Wait \/ Work

---------------------------------------------------------------------------
(* The client at the other end of the writes of lines 257 to 342.          *)

(* It does not read, and the write waits; it may do so later.              *)
Stall ==
  /\ \/ Goto("check", "denying") /\ ~is_match
     \/ Goto("serve", "sending") /\ request = "proper"
  /\ UNCHANGED <<history, now, users, fds, round, lost>>

ReadOn ==
  /\ Goto("denying", "check") \/ Goto("sending", "serve")
  /\ UNCHANGED <<history, now, users, fds, round, lost>>

(* It has closed the connection.  Nobody ignores SIGPIPE.                  *)
HangUp ==
  /\ \/ Goto("check", "hung up") /\ ~is_match
     \/ Goto("serve", "hung up") /\ request = "proper"
     \/ \E here \in {"denying", "sending"} : Goto(here, "hung up")
  /\ UNCHANGED <<history, now, users, fds, round, lost>>

Peer == Stall \/ ReadOn \/ HangUp

---------------------------------------------------------------------------
(* child_handler, on a SIGUSR1 from the parent.  Once there have been more *)
(* than HISTORY clients the window moves with every report, not with every *)
(* client.  Bound: it is not moved beyond MAX_CLIENT.                      *)
Move ==
  /\ LET first == IF client_num > HISTORY THEN start + 1 ELSE start
     IN  /\ first <= MAX_CLIENT
         /\ start' = first
         /\ SortTimes(first)
  /\ UNCHANGED <<client_num, ip_addr, port, cum_num, log,
                 now, users, fds, round, lost>>

Report ==
  /\ place \notin {"stuck", "hung up", "crashed", "undefined"}
  /\ Move
  /\ torn' = (torn \/ place \in {"address", "port", "time"})
  /\ UNCHANGED place

(* It interrupts the ctime or localtime of lines 269, 351 and 716, and its *)
(* own ctime, called once it has a row to print, waits for the lock the    *)
(* worker itself holds.                                                    *)
ReportStuck ==
  /\ place \in {"serve", "close"} /\ place' = "stuck"
  /\ Move
  /\ start' <= client_num
  /\ UNCHANGED torn

(* The clock, and the administrator.                                       *)
ClockTick ==
  /\ now < MAX_TIME
  /\ now' = now + 1
  /\ UNCHANGED <<history, place, users, fds, round, lost>>

EditUsers ==
  /\ users' \in (Users \cup {NoFile}) \ {users}
  /\ UNCHANGED <<history, place, now, fds, round, lost>>

WorkerNext == Main \/ Peer \/ Report \/ ReportStuck \/ ClockTick \/ EditUsers

(* A worker that waits for nobody is scheduled like any process; nothing   *)
(* is assumed of clients, who need not connect, send or read.              *)
WorkerSpec == WorkerInit /\ [][WorkerNext]_workerVars /\ WF_workerVars(Work)

---------------------------------------------------------------------------

(* How many entries have been filled completely.                           *)
Recorded == IF place \in {"address", "port", "time", "number"}
            THEN client_num - 1 ELSE client_num

(* Wherever a report interrupts the worker, only the last row can be       *)
(* incomplete; all others show their own client.                           *)
RowsAreClients == \A i \in 1 .. Recorded : Shows(i, log[i].who)

(* The times of the history: see TimesUpTo.                                *)
TimesAreAccessTimes ==
  TimesUpTo(IF place \in {"address", "port", "time"} THEN client_num - 1 ELSE client_num)

(* Only a client of some line of the file read for it is served, unless    *)
(* the file was empty, although every line overwrites the verdict.         *)
ServedOnlyIfListed ==
  place = "serve" =>
    lines = <<>> \/ \E n \in DOMAIN lines : client \in lines[n]

(* Every descriptor open is one of this round, or was lost in an earlier   *)
(* one that got an empty request, refused its client or listed a           *)
(* directory: nothing else in the loop leaks.                              *)
Balance ==
  place \notin Ends =>
    Open = lost + CASE place = "accept" -> 0
                    [] place \in {"check", "denying"} -> 2
                    [] OTHER -> 1

(* A worker that finds every file leaves its loop only when all but one of *)
(* its descriptors have been lost.                                         *)
LeavesOnlyFor ==
  place = "left" => \/ outcome \in {"404", "unreadable"}
                 \/ lines = NoFile
                 \/ lost + 1 >= MAX_FD

(* A client that has sent a proper request, for which there was an entry   *)
(* left, is answered, unless it does not read or hangs up itself, or the   *)
(* worker leaves its loop for want of accessible.usr, of a descriptor or   *)
(* of the page, or a report has come in the middle of ctime.               *)
Answered ==
  place = "open" /\ request = "proper" ~>
    \/ outcome \in {"200", "403", "404"}
    \/ place \in {"denying", "sending", "hung up", "stuck"}
    \/ place = "left" /\ (lines = NoFile \/ outcome = "unreadable" \/ Open = MAX_FD)

(* The array is overrun by the client after the last that it has room for. *)
OverrunOnlyWhenFull == place = "undefined" => Len(log) + 1 = MAX_CLIENT
=============================================================================
