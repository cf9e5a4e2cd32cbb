----------------------------- MODULE MCPrefork -----------------------------
(* Small pools for TLC: kill with the alarm, and Ctrl-C without.           *)
EXTENDS Prefork
PlansDef == {[to |-> "parent", alarm |-> TRUE, procs |-> 4],
             [to |-> "group", alarm |-> FALSE, procs |-> 3]}
=============================================================================
