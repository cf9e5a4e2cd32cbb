------------------------- MODULE ConnectionHistory -------------------------
(***************************************************************************)
(* The history of connections that the server of 2-3 and each worker of    *)
(* 3-1 keep: an array of records filled field by field in the main program *)
(* and sorted and printed by a signal handler, which may run between any   *)
(* two of those writes.  Entry 0 is not used.                              *)
(***************************************************************************)
EXTENDS Naturals, Sequences

CONSTANTS
  Clients,      \* a client stands for its address and port
  NoClient,     \* the zero an unused field holds
  MAX_CLIENT,   \* entries of ci_array
  HISTORY       \* how many entries the window should have, 10 in the code

ASSUME HistoryAssumption ==
  /\ NoClient \notin Clients
  /\ MAX_CLIENT \in Nat /\ MAX_CLIENT > 1
  /\ HISTORY \in Nat \ {0}

VARIABLES
  client_num, start,               \* the last entry and the first one shown
  ip_addr, port, time, cum_num,    \* the fields of the entries of ci_array
  log,    \* history: who was counted, and the time read for it
  torn    \* history: a report has sorted an entry that had no time yet

history == <<client_num, start, ip_addr, port, time, cum_num, log, torn>>

Index == 0 .. MAX_CLIENT - 1

HistoryTypeOK ==
  /\ client_num \in Index /\ start \in Nat \ {0}
  /\ ip_addr \in [Index -> Clients \cup {NoClient}]
  /\ port \in [Index -> Clients \cup {NoClient}]
  /\ time \in [Index -> Nat]
  /\ cum_num \in [Index -> Index]
  /\ log \in Seq([who : Clients, at : Nat]) /\ Len(log) = client_num
  /\ torn \in BOOLEAN

HistoryInit ==
  /\ client_num = 0 /\ start = 1
  /\ ip_addr = [i \in Index |-> NoClient]
  /\ port = [i \in Index |-> NoClient]
  /\ time = [i \in Index |-> 0]
  /\ cum_num = [i \in Index |-> 0]
  /\ log = <<>> /\ torn = FALSE

(* client_num++.  The code has no check: after as many clients as the array *)
(* can hold, the next one is written beyond its end.                       *)
Full == client_num + 1 >= MAX_CLIENT

Count(who, t) ==
  /\ ~Full
  /\ client_num' = client_num + 1
  /\ log' = Append(log, [who |-> who, at |-> t])
  /\ UNCHANGED <<start, ip_addr, port, time, cum_num, torn>>

RecordAddress(who) ==
  /\ ip_addr' = [ip_addr EXCEPT ![client_num] = who]
  /\ UNCHANGED <<client_num, start, port, time, cum_num, log, torn>>

RecordPort(who) ==
  /\ port' = [port EXCEPT ![client_num] = who]
  /\ UNCHANGED <<client_num, start, ip_addr, time, cum_num, log, torn>>

RecordTime(t) ==
  /\ time' = [time EXCEPT ![client_num] = t]
  /\ UNCHANGED <<client_num, start, ip_addr, port, cum_num, log, torn>>

RecordNumberInWindow ==
  /\ cum_num' = [cum_num EXCEPT ![client_num] = client_num + 1 - start]
  /\ UNCHANGED <<client_num, start, ip_addr, port, time, log, torn>>
RecordNumber ==
  /\ cum_num' = [cum_num EXCEPT ![client_num] = client_num]
  /\ UNCHANGED <<client_num, start, ip_addr, port, time, log, torn>>

SortOneMore(first) ==
  LET shown == first .. client_num + 1
  IN  \E p \in [shown -> shown] :
        /\ \A i, j \in shown : i < j => p[i] # p[j] /\ time[p[i]] <= time[p[j]]
        /\ time' = [i \in Index |-> IF i \in shown THEN time[p[i]] ELSE time[i]]

(* The handlers sort the entries from the first one shown by time, and     *)
(* swap the times only.                                                    *)
SortTimes(first) ==
  LET shown == first .. client_num
  IN  \E p \in [shown -> shown] :
        /\ \A i, j \in shown : i < j => p[i] # p[j] /\ time[p[i]] <= time[p[j]]
        /\ time' = [i \in Index |-> IF i \in shown THEN time[p[i]] ELSE time[i]]

(* Entry i shows the client it was made for.                               *)
Shows(i, who) == ip_addr[i] = who /\ port[i] = who /\ cum_num[i] = i

(* In an entry that has its time, it is the time the client was accepted,  *)
(* unless a report came in the middle of recording a client; and never a   *)
(* time at which nobody was accepted.                                      *)
TimesUpTo(n) ==
  /\ \A i \in 1 .. n : ~torn => time[i] = log[i].at
  /\ \A i \in 1 .. client_num : time[i] \in {0} \cup {log[j].at : j \in 1 .. client_num}
=============================================================================
