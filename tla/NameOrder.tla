------------------------------ MODULE NameOrder ------------------------------
(***************************************************************************)
(* The sort that all the ls programs and the servers use, whatever they    *)
(* order by: compare each element with each later one and swap the two.    *)
(***************************************************************************)
LOCAL INSTANCE Naturals
LOCAL INSTANCE Sequences

(* swap and fail are sets of pairs; it stops at a pair that fails.         *)
Compare(a, p, q, swap, fail) ==
  LET pair == <<a.arr[p], a.arr[q]>>
  IN  IF a.stop \/ pair \in fail THEN [arr |-> a.arr, stop |-> TRUE]
      ELSE [arr |-> IF pair \in swap THEN [a.arr EXCEPT ![p] = pair[2], ![q] = pair[1]]
                    ELSE a.arr,
            stop |-> FALSE]

(* What is at p is compared with all that is behind it.                    *)
Pass(a, p, n, swap, fail) ==
  LET after[q \in p .. n] == IF q = p THEN a ELSE Compare(after[q - 1], p, q, swap, fail)
  IN  after[n]

Exchange(s, swap, fail) ==
  LET n == Len(s)
      after[p \in 0 .. n] == IF p = 0 THEN [arr |-> s, stop |-> FALSE]
                             ELSE Pass(after[p - 1], p, n, swap, fail)
  IN  after[n].arr
=============================================================================
