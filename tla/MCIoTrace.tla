------------------------------ MODULE MCIoTrace ------------------------------
(* Assignment 2-3: ftracehooking and iotracehooking, with the entries of   *)
(* two of the five I/O calls.                                              *)
EXTENDS IoTrace

CONSTANTS ftrace, iotrace, os_ftrace, openat, close

PairHooks == [m \in {ftrace, iotrace} |->
                IF m = ftrace THEN <<os_ftrace>> ELSE <<openat, close>>]
PairNeeds == [m \in {ftrace, iotrace} |->
                IF m = ftrace THEN {} ELSE {ftrace}]
=============================================================================
