--------------------------- MODULE PageReplacement ---------------------------
(***************************************************************************)
(* Assignment4-2/page_replacement_simulator.c: a number of frames and a    *)
(* string of references are read, and four policies are run over them one  *)
(* after the other, each from empty frames, counting faults.  Frames are   *)
(* numbered from 0, as there.                                              *)
(***************************************************************************)
EXTENDS Integers, Sequences, FiniteSets, SequencesExt, FiniteSetsExt

CONSTANTS Files,  \* what the input file may hold: [frames, refs]
          MAX     \* length of the arrays

ASSUME PageReplacementAssumption ==
  /\ MAX \in Nat \ {0}
  /\ \A f \in Files : f.frames \in Nat /\ f.refs \in Seq(Nat)

VARIABLES
  file, at,       \* at: the policy that is running
  j,              \* references it has seen
  page_frame_arr,
  oldest,         \* of fifo
  use_bit, clock_hand, \* of clock
  fault,          \* faults of each policy
  loaded          \* history: the pages this policy has loaded, in that order

policy == <<page_frame_arr, oldest, use_bit, clock_hand, loaded>>
pagingVars == <<file, at, j, policy, fault>>

EMPTY == -1
Policies == <<"optimal", "fifo", "lru", "clock">>
count == file.frames
rf_string == file.refs
rf_count == Len(rf_string)
Frames == 0 .. count - 1

PagingInit ==
  /\ file \in Files /\ at = "read" /\ j = 0
  /\ page_frame_arr = <<>> /\ oldest = 0 /\ use_bit = <<>> /\ clock_hand = 0
  /\ fault = [p \in ToSet(Policies) |-> 0] /\ loaded = <<>>

Start(p) ==
  /\ at' = p /\ j' = 0 /\ loaded' = <<>> /\ oldest' = 0 /\ clock_hand' = 0
  /\ page_frame_arr' = [i \in Frames |-> EMPTY] /\ use_bit' = [i \in Frames |-> 0]

(* A reference is written before it is counted, so that one too many goes  *)
(* behind the array; the frame behind the next is cleared when there are   *)
(* fewer frames than MAX; without a frame the first page goes to the one   *)
(* before the first.                                                       *)
Outside == \/ count = 0 /\ rf_count > 0
           \/ count = MAX - 1
           \/ count > MAX
           \/ rf_count > MAX
ReadFile ==
  /\ at = "read"
  /\ IF Outside THEN at' = "undefined" /\ UNCHANGED <<j, policy>> ELSE Start(Policies[1])
  /\ UNCHANGED <<file, fault>>

---------------------------------------------------------------------------
Page == rf_string[j + 1]
IsHit == \E i \in Frames : page_frame_arr[i] = Page

Hit ==
  /\ j < rf_count /\ IsHit /\ j' = j + 1
  /\ UNCHANGED <<file, at, page_frame_arr, oldest, clock_hand, fault, loaded>>
Fault(i) ==
  /\ j < rf_count /\ ~IsHit /\ j' = j + 1
  /\ fault' = [fault EXCEPT ![at] = @ + 1]
  /\ page_frame_arr' = [page_frame_arr EXCEPT ![i] = Page]
  /\ loaded' = Append(loaded, Page)
  /\ UNCHANGED <<file, at>>

(* calculate_replacement_optimal: the page that is needed again last.      *)
NextUse ==
  [i \in Frames |->
     LET later == {k \in j + 1 .. rf_count : rf_string[k] = page_frame_arr[i]}
     IN  IF later = {} THEN MAX + 1 ELSE Min(later)]
Uses(i) == {k \in 1 .. j + 1 : rf_string[k] = page_frame_arr[i]}
LruByFirstUse == [i \in Frames |-> IF Uses(i) = {} THEN -1 ELSE Min(Uses(i))]
(* calculate_replacement_lru: the one that was used the longest time ago.  *)
PrevUse == [i \in Frames |-> IF Uses(i) = {} THEN -1 ELSE Max(Uses(i))]
FirstMax(f) == Min({i \in Frames : \A k \in Frames : f[k] <= f[i]})
FirstMin(f) == Min({i \in Frames : \A k \in Frames : f[i] <= f[k]})

OptimalSoonest ==
  /\ at = "optimal" /\ Fault(FirstMin(NextUse)) /\ UNCHANGED <<oldest, use_bit, clock_hand>>
Optimal ==
  /\ at = "optimal" /\ Fault(FirstMax(NextUse)) /\ UNCHANGED <<oldest, use_bit, clock_hand>>
Lru ==
  /\ at = "lru" /\ Fault(FirstMin(PrevUse)) /\ UNCHANGED <<oldest, use_bit, clock_hand>>
Fifo ==
  /\ at = "fifo" /\ Fault(oldest)
  /\ oldest' = (IF oldest = count - 1 THEN 0 ELSE oldest + 1)
  /\ UNCHANGED <<use_bit, clock_hand>>
PlainHit == at # "clock" /\ at \in ToSet(Policies) /\ Hit /\ UNCHANGED use_bit

(* calculate_replacement_clock: the hand passes the frames in use and      *)
(* clears their bits, and stays at the one it has chosen.                  *)
Passed ==
  LET k == Min({n \in 0 .. count : n = count \/ use_bit[(clock_hand + n) % count] = 0})
  IN  {(clock_hand + n) % count : n \in 0 .. k - 1}
Chosen ==
  IF Passed = Frames THEN clock_hand ELSE (clock_hand + Cardinality(Passed)) % count
ClockHit ==
  /\ at = "clock" /\ Hit
  /\ use_bit' = [i \in Frames |-> IF page_frame_arr[i] = Page THEN 1 ELSE use_bit[i]]
Clock ==
  /\ at = "clock" /\ Fault(Chosen)
  /\ clock_hand' = Chosen
  /\ use_bit' = [i \in Frames |-> IF i = Chosen THEN 1 ELSE IF i \in Passed THEN 0 ELSE use_bit[i]]
  /\ UNCHANGED oldest

NextPolicy ==
  /\ at \in ToSet(Policies) /\ j = rf_count
  /\ IF at = Last(Policies) THEN at' = "done" /\ UNCHANGED <<j, policy>>
     ELSE Start(Policies[1 + CHOOSE k \in DOMAIN Policies : Policies[k] = at])
  /\ UNCHANGED <<file, fault>>

PagingNext == ReadFile \/ PlainHit \/ Optimal \/ Fifo \/ Lru \/ ClockHit \/ Clock \/ NextPolicy
PagingSpec == PagingInit /\ [][PagingNext]_pagingVars

---------------------------------------------------------------------------

(* The fewest faults that any choice of pages to replace can have for the  *)
(* references from k on, with the pages S in the frames.                   *)
Pages == ToSet(rf_string)
LeastFaults ==
  LET least[k \in 1 .. rf_count + 1] ==
        LET Of(S) == IF k > rf_count THEN 0
                     ELSE LET p == rf_string[k]
                          IN  IF p \in S THEN least[k + 1][S]
                              ELSE IF Cardinality(S) < count THEN 1 + least[k + 1][S \cup {p}]
                              ELSE 1 + Min({least[k + 1][(S \ {q}) \cup {p}] : q \in S})
        IN  [S \in {T \in SUBSET Pages : Cardinality(T) <= count} |-> Of(S)]
  IN  least[1][{}]

(* The policy called optimal is: no choice of replacements has fewer       *)
(* faults, although it fills empty frames and breaks ties by position; so  *)
(* none of the other three has.                                            *)
OptimalIsLeast ==
  at = "done" => /\ fault["optimal"] = LeastFaults
                 /\ \A p \in ToSet(Policies) : fault[p] >= LeastFaults

InFrames == {page_frame_arr[i] : i \in DOMAIN page_frame_arr} \ {EMPTY}
Recent(s) == {p \in ToSet(s) :
  Cardinality({q \in ToSet(s) : \E k \in DOMAIN s : s[k] = q /\ p \notin ToSet(SubSeq(s, k, Len(s)))})
    < count}

(* Each policy keeps the pages its name promises: LRU the ones referenced  *)
(* last, FIFO the ones loaded last, and clock at least the page referenced *)
(* last, with its bit set, although its hand stays where it has loaded a   *)
(* page.  No page is in two frames, and except for optimal, which prefers  *)
(* a page that is not needed any more, none is thrown out while a frame is *)
(* empty.                                                                  *)
KeepsItsPages ==
  at \in ToSet(Policies) =>
    /\ Cardinality({i \in Frames : page_frame_arr[i] # EMPTY}) = Cardinality(InFrames)
    /\ at # "optimal" => Cardinality(InFrames) = Min({count, Cardinality(ToSet(loaded))})
    /\ at = "lru" => InFrames = Recent(SubSeq(rf_string, 1, j))
    /\ at = "fifo" => InFrames = Recent(loaded)
    /\ at = "clock" /\ j > 0 =>
         \E i \in Frames : page_frame_arr[i] = rf_string[j] /\ use_bit[i] = 1
=============================================================================
