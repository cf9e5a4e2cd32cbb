----------------------------- MODULE FileStore -----------------------------
(***************************************************************************)
(* What the file system of Assignment5-2/fat.c promises its user: a store  *)
(* of named files.  A file comes into being empty, grows at its end by     *)
(* bytes of its own and disappears as a whole; no operation on one file    *)
(* touches another, and there is no block, table or slot in sight.         *)
(***************************************************************************)
EXTENDS Integers, Sequences

CONSTANTS
  Names,     \* the file names
  MAX_GROW   \* the most bytes one step adds

VARIABLE files   \* [the names that exist -> the bytes a reader gets]

Init == files = [n \in {} |-> <<>>]

Create(n) ==
  /\ n \notin DOMAIN files
  /\ files' = [m \in DOMAIN files \cup {n} |->
                 IF m = n THEN <<>> ELSE files[m]]

(* Every byte is represented by the name of the file that wrote it.        *)
Grow(n, k) ==
  /\ n \in DOMAIN files
  /\ files' = [files EXCEPT ![n] = @ \o [p \in 1..k |-> n]]

Remove(n) ==
  /\ n \in DOMAIN files
  /\ files' = [m \in DOMAIN files \ {n} |-> files[m]]

Next ==
  \E n \in Names :
    \/ Create(n)
    \/ \E k \in 1..MAX_GROW : Grow(n, k)
    \/ Remove(n)

Spec == Init /\ [][Next]_files
=============================================================================
