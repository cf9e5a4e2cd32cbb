------------------------------ MODULE Servers ------------------------------
(***************************************************************************)
(* The servers of 2-2 and 2-3 around the pages of module Page.  The one of *)
(* 2-2 (web_server.c) answers every client itself.  The one of 2-3         *)
(* (adv_server.c) admits it, writes it into the history, has a child       *)
(* answer it and waits for the child; an alarm prints the history every    *)
(* ten seconds, in the middle of anything the parent does.                 *)
(***************************************************************************)
EXTENDS Page, ConnectionHistory

CONSTANTS
  Requests,   \* what clients send: [method, url]
  Images,     \* names that look like an image
  Users,      \* contents of accessible.usr, a set of clients for each line
  NoFile      \* there is no such file

(* A client may send nothing, or a line in which strtok finds no method or *)
(* no URL ("blank").                                                       *)
ASSUME ServersAssumption ==
  /\ Requests \subseteq [method : {"nothing", "blank", "GET", "other"}, url : Seq(Names)]
  /\ Users \subseteq Seq(SUBSET Clients) /\ NoFile \notin Users

VARIABLES
  forks,       \* which server it is: the one of 2-3 forks
  pc,          \* of the server
  job,         \* of who answers: the server of 2-2, the child of 2-3
  client, request,
  users,       \* accessible.usr
  is_match,
  reading,     \* does the client read what it is sent?
  parent_fds,  \* descriptors of the parent while fds are those of the child
  lost,        \* history: rounds that have kept a descriptor
  pid,         \* entries of ci_array that have the pid of a child
  why          \* history: the reason the server has ended for

round == <<client, request, is_match, reading>>
server == <<forks, users, parent_fds, pid>>
vars == <<page, history, server, round, pc, job, lost, why>>

NoRequest == [method |-> "nothing", url |-> <<>>]

Init ==
  /\ PageInit /\ HistoryInit
  /\ forks \in BOOLEAN
  /\ IF forks THEN users \in Users \cup {NoFile} ELSE users = NoFile
  /\ pc = "accept" /\ job = "idle"
  /\ client = NoClient /\ request = NoRequest /\ is_match = TRUE /\ reading = TRUE
  /\ parent_fds = 0 /\ lost = 0 /\ pid = {} /\ why = "none"

Goto(here, there) == pc = here /\ pc' = there
Leave(here, reason) == Goto(here, "left") /\ why' = reason

(* What a step of the server leaves alone that is no part of the page.     *)
SamePage == UNCHANGED page
SameFds == UNCHANGED <<disk, cwd, at, call, path, dir_num, max, arr, j, rows, seen>>

---------------------------------------------------------------------------
(* accept and read: the same in both.                                      *)

Accept ==
  /\ Goto("accept", "read")
  /\ fds < MAX_FD
  /\ fds' = fds + 1 /\ status' = "none"
  /\ client' \in Clients /\ request' \in Requests
  /\ SameFds /\ UNCHANGED <<history, server, is_match, reading, job, lost, why>>

AcceptFails ==
  /\ Leave("accept", "descriptors") /\ fds = MAX_FD
  /\ SamePage /\ UNCHANGED <<history, server, round, job, lost>>

(* 2-3 ignores an empty request, and its connection stays open ...         *)
ReadNothing ==
  /\ forks /\ request.method = "nothing"
  /\ Goto("read", "accept")
  /\ lost' = lost + 1
  /\ SamePage /\ UNCHANGED <<history, server, round, job, why>>

(* ... 2-2 goes on with it.                                                *)
Read ==
  /\ forks => request.method # "nothing"
  /\ Goto("read", IF forks THEN "count" ELSE "serve")
  /\ job' = IF forks THEN "idle" ELSE "route"
  /\ SamePage /\ UNCHANGED <<history, server, round, lost, why>>

---------------------------------------------------------------------------
(* What 2-3 does before it forks.  The clock is the number of the client.  *)

Record ==
  /\ \/ Goto("count", "address") /\ Count(client, client_num + 1)
     \/ Goto("address", "port") /\ RecordAddress(client)
     \/ Goto("port", "time") /\ RecordPort(client)
     \/ Goto("time", "number") /\ RecordTime(client_num)
     \/ Goto("number", "open") /\ RecordNumber
  /\ SamePage /\ UNCHANGED <<server, round, job, lost, why>>

(* The client does not fit into ci_array: what is written beyond it may do *)
(* anything; here the server ends.                                         *)
Overrun ==
  /\ Leave("count", "overrun") /\ Full
  /\ SamePage /\ UNCHANGED <<history, server, round, job, lost>>

OpenUsers ==
  /\ Goto("open", "check") /\ users # NoFile /\ fds < MAX_FD
  /\ fds' = fds + 1
  /\ is_match' = (users = <<>> \/ client \in Last(users))
  /\ SameFds /\ UNCHANGED <<status, history, server, client, request, reading, job, lost, why>>

OpenUsersFails ==
  /\ pc = "open" /\ (users = NoFile \/ fds = MAX_FD)
  /\ Leave("open", IF users = NoFile THEN "no users" ELSE "descriptors")
  /\ SamePage /\ UNCHANGED <<history, server, round, job, lost>>

(* 403: the connection is closed and accessible.usr is not; neither is the *)
(* window of the history moved.                                            *)
Refuse ==
  /\ Goto("check", "accept") /\ ~is_match
  /\ fds' = fds - 1 /\ lost' = lost + 1
  /\ status' = "403"
  /\ SameFds /\ UNCHANGED <<history, server, round, job, why>>

AdmitKeepsFile ==
  /\ Goto("check", "fork") /\ is_match
  /\ SamePage /\ UNCHANGED <<history, server, round, job, lost, why>>
Admit ==
  /\ Goto("check", "fork") /\ is_match
  /\ fds' = fds - 1
  /\ SameFds /\ UNCHANGED <<status, history, server, round, job, lost, why>>

(* The child starts with the descriptors of its parent.                    *)
Fork ==
  /\ Goto("fork", "wait")
  /\ job' = "route" /\ parent_fds' = fds
  /\ SamePage /\ UNCHANGED <<history, forks, users, pid, round, lost, why>>

ForkFails ==
  /\ Leave("fork", "no fork")
  /\ SamePage /\ UNCHANGED <<history, server, round, job, lost>>

---------------------------------------------------------------------------
(* The answer: the same in both.                                           *)

IsImage == request.url # <<>> /\ Last(request.url) \in Images
Asked == IF request.method = "GET" THEN request.url ELSE <<>>

(* Another method leaves the URL empty, and then hidden files are shown.   *)
RoutePage ==
  /\ job = "route" /\ job' = "page"
  /\ request.method \in {"GET", "other"} /\ ~(request.method = "GET" /\ IsImage)
  /\ PrintOption(Asked, ~(request.method = "GET" /\ request.url = <<>>))
  /\ UNCHANGED <<history, server, round, pc, lost, why>>

(* A header first, and then the file, if it can be opened.                 *)
RouteImage ==
  /\ job = "route" /\ job' = "done"
  /\ request.method = "GET" /\ IsImage
  /\ status' = "200"
  /\ UNCHANGED fds /\ SameFds /\ UNCHANGED <<history, server, round, pc, lost, why>>

(* strtok finds no method or no URL, and strcpy copies from NULL: 2-2      *)
(* ends, in 2-3 the child.                                                 *)
RouteNothing ==
  /\ job = "route" /\ request.method \in {"nothing", "blank"}
  /\ IF forks THEN job' = "done" /\ UNCHANGED <<pc, why>>
     ELSE job' = "idle" /\ Leave("serve", "request")
  /\ status' = "died"
  /\ UNCHANGED fds /\ SameFds /\ UNCHANGED <<history, server, round, lost>>

MakePage ==
  /\ job = "page" /\ PageStep
  /\ lost' = IF ~forks /\ at' \in {"count", "outside"} THEN lost + 1 ELSE lost
  /\ UNCHANGED <<history, server, round, pc, job, why>>

PageDone ==
  /\ job = "page" /\ at = "return0"
  /\ job' = "done" /\ Return
  /\ UNCHANGED <<cwd, fds, status, history, server, round, pc, lost, why>>

PageFailsEndsParent ==
  /\ job = "page" /\ at = "return1"
  /\ Return
  /\ job' = "idle" /\ pc' = "left" /\ why' = "page"
  /\ UNCHANGED <<cwd, fds, status, history, server, round, lost>>
(* break: that is the end of the loop of 2-2, and of the child of 2-3.     *)
PageFails ==
  /\ job = "page" /\ at = "return1"
  /\ Return
  /\ IF forks THEN job' = "done" /\ UNCHANGED <<pc, why>>
     ELSE job' = "idle" /\ Leave("serve", "page")
  /\ UNCHANGED <<cwd, fds, status, history, server, round, lost>>

(* A child that has written beyond a buffer may do anything; here it ends. *)
ChildDies ==
  /\ forks /\ job = "page" /\ at = "undefined"
  /\ job' = "done" /\ status' = "died" /\ Return
  /\ UNCHANGED <<cwd, fds, history, server, round, pc, lost, why>>

---------------------------------------------------------------------------
(* What a client may do while it is answered, or refused: not read, so     *)
(* that write blocks when the buffers are full, or be gone, so that it     *)
(* ends the process that writes (SIGPIPE): in 2-2 the server, in 2-3 the   *)
(* child, or the server itself when it refuses a client.                   *)

Sending ==
  \/ pc = "check" /\ ~is_match
  \/ job = "route" /\ request.method = "GET" /\ IsImage
  \/ job = "page" /\ Writing

Stall ==
  /\ Sending /\ reading /\ reading' = FALSE
  /\ SamePage /\ UNCHANGED <<history, server, client, request, is_match, pc, job, lost, why>>
ReadOn ==
  /\ ~reading /\ reading' = TRUE
  /\ SamePage /\ UNCHANGED <<history, server, client, request, is_match, pc, job, lost, why>>

RefusedHangsUp ==
  /\ Leave("check", "hung up") /\ ~is_match
  /\ status' = "hung up"
  /\ UNCHANGED fds /\ SameFds /\ UNCHANGED <<history, server, round, job, lost>>
AnsweredHangsUp ==
  /\ job # "idle" /\ Sending
  /\ IF forks THEN job' = "done" /\ UNCHANGED <<pc, why>>
     ELSE job' = "idle" /\ Leave("serve", "hung up")
  /\ status' = "hung up" /\ Return /\ reading' = TRUE
  /\ UNCHANGED <<cwd, fds, history, server, client, request, is_match, lost>>

---------------------------------------------------------------------------
(* After the answer.                                                       *)

(* 2-2: what is left of a round is the directory it has listed.            *)
Close ==
  /\ ~forks /\ Goto("serve", "accept") /\ job = "done"
  /\ job' = "idle" /\ fds' = fds - 1
  /\ SameFds /\ UNCHANGED <<status, history, server, round, lost, why>>

ReapMovesWindowEarly ==
  /\ Goto("wait", "accept") /\ job = "done"
  /\ job' = "idle" /\ fds' = parent_fds /\ lost' = lost + 1
  /\ cwd' = Home /\ pid' = pid \cup {client_num}
  /\ start' = IF client_num >= HISTORY THEN start + 1 ELSE start
  /\ UNCHANGED <<disk, at, call, path, dir_num, max, arr, j, rows, seen, status,
                 client_num, ip_addr, port, time, cum_num, log, torn, forks, users, parent_fds,
                 round, why>>

(* 2-3: wait, whose parent has never closed the connection nor changed its *)
(* directory.  Now the client has a pid and the window moves.               *)
Reap ==
  /\ Goto("wait", "accept") /\ job = "done"
  /\ job' = "idle" /\ fds' = parent_fds /\ lost' = lost + 1
  /\ cwd' = Home /\ pid' = pid \cup {client_num}
  /\ start' = IF client_num > HISTORY THEN start + 1 ELSE start
  /\ UNCHANGED <<disk, at, call, path, dir_num, max, arr, j, rows, seen, status,
                 client_num, ip_addr, port, time, cum_num, log, torn, forks, users, parent_fds,
                 round, why>>

(* alarm_handler, in the parent only: an alarm is not inherited.           *)
Alarm ==
  /\ forks /\ pc # "left"
  /\ SortTimes(start)
  /\ torn' = (torn \/ pc \in {"address", "port", "time"})
  /\ SamePage
  /\ UNCHANGED <<client_num, start, ip_addr, port, cum_num, log,
                 server, round, pc, job, lost, why>>

(* Ctrl-C ends a server, and its child; Ctrl-Z ends the child and stops    *)
(* the parent, until it is continued.                                      *)
CtrlC ==
  /\ pc # "left"
  /\ pc' = "left" /\ why' = "Ctrl-C" /\ job' = "idle" /\ Return
  /\ UNCHANGED <<cwd, fds, status, history, server, round, lost>>
CtrlZ ==
  /\ forks /\ job \in {"route", "page"}
  /\ job' = "done" /\ status' = "killed" /\ Return /\ reading' = TRUE
  /\ UNCHANGED <<cwd, fds, history, server, client, request, is_match, pc, lost, why>>

(* Bound: only the directories of 2-2 are changed by others.               *)
Disturb ==
  /\ ~forks /\ (ChangeFile \/ RemoveDir)
  /\ UNCHANGED <<history, server, round, pc, job, lost, why>>

Answer == RoutePage \/ RouteImage \/ RouteNothing \/ MakePage \/ PageDone \/ PageFails
Work == \/ Record \/ Overrun \/ OpenUsers \/ OpenUsersFails \/ Refuse \/ Admit \/ Fork \/ ForkFails
        \/ Answer \/ Close \/ Reap
Client == Accept \/ AcceptFails \/ ReadNothing \/ Read
Peer == Stall \/ ReadOn \/ RefusedHangsUp \/ AnsweredHangsUp

Next == \/ Client \/ (reading /\ Work) \/ Peer
        \/ ChildDies \/ Alarm \/ CtrlC \/ CtrlZ \/ Disturb

(* A server that can go on does.  Nothing is assumed of clients: it may    *)
(* wait for ever for one to come, to send its request or to read.          *)
Spec == Init /\ [][Next]_vars /\ WF_vars(reading /\ Work)

---------------------------------------------------------------------------
(* Properties.                                                             *)

(* What stays open when a round is over is one descriptor for each listing *)
(* of 2-2, and for every client of 2-3, whatever became of it.             *)
Balance ==
  /\ pc = "accept" => fds = lost
  /\ pc = "accept" /\ forks => lost >= client_num
  /\ pc = "wait" => parent_fds = lost + 1

(* The server of 2-3 survives every request and every child: it ends for   *)
(* want of descriptors, users or processes, by Ctrl-C, at the first client *)
(* that does not fit into its history, and when a client it refuses has    *)
(* hung up.  The one of 2-2 ends with the first page it cannot make and    *)
(* the first client that hangs up.                                         *)
EndsOnlyFor ==
  pc = "left" =>
    /\ why = "descriptors" => lost + 1 >= MAX_FD
    /\ why = "no users" => users = NoFile
    /\ why = "page" => ~forks /\ status \in {"404", "unreadable"}
    /\ why = "request" => ~forks /\ request.method \in {"nothing", "blank"}
    /\ why = "overrun" => Full
    /\ why = "hung up" /\ forks => ~is_match
    /\ why \in {"descriptors", "page", "request", "hung up", "Ctrl-C"} \/ forks

(* The history of 2-3 shows the last HISTORY clients, and one more for     *)
(* each client without a pid, one that was refused, since the window began *)
(* to move; each row shows its own client, and its time unless an alarm    *)
(* came while a row was being filled.                                      *)
Window ==
  LET filled == IF pc \in {"address", "port", "time", "number"} THEN client_num - 1
                ELSE client_num
  IN  /\ pc = "accept" /\ client_num > HISTORY =>
           client_num - start + 1 = HISTORY + Cardinality({n \in HISTORY + 1 .. client_num : n \notin pid})
      /\ pc # "left" => /\ \A i \in 1 .. filled : Shows(i, log[i].who)
                        /\ TimesUpTo(filled)

(* A client whose request was read and is one gets a page, an image, 403   *)
(* or 404, and then the next client is accepted or, in 2-2 after a 404,    *)
(* the server ends.  Otherwise what it asked for could not be opened, and  *)
(* nothing is sent; or it did not read or hung up, or Ctrl-Z killed the    *)
(* child; or the server ended for another reason than this page; or it     *)
(* wrote beyond a buffer.                                                  *)
Answered ==
  pc \in {"count", "serve"} /\ request.method \in {"GET", "other"} ~>
    \/ pc \in {"accept", "left"} /\ status \in {"200", "403", "404"}
    \/ status \in {"unreadable", "hung up", "killed"} \/ ~reading
    \/ pc = "left" /\ why # "page"
    \/ at = "undefined"
=============================================================================
