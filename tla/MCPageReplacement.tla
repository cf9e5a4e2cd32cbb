-------------------------- MODULE MCPageReplacement --------------------------
(* Every string of up to seven references to at most four pages - the      *)
(* policies compare pages for being equal only, so they are numbered as    *)
(* they appear - and inputs on both sides of the limits of the arrays.     *)
EXTENDS PageReplacement

Numbered(s) == \A k \in DOMAIN s : s[k] <= 1 + Max({0} \cup ToSet(SubSeq(s, 1, k - 1)))
RefsDef == {s \in UNION {[1 .. n -> 1 .. 4] : n \in 0 .. 7} : Numbered(s)}
FilesDef == [frames : 1 .. 3, refs : RefsDef]
  \cup {[frames |-> 0, refs |-> <<1, 2>>]}
  \cup {[frames |-> n, refs |-> <<1, 2, 1>>] : n \in MAX - 2 .. MAX + 1}
  \cup {[frames |-> 2, refs |-> [k \in 1 .. n |-> (k % 3) + 1]] : n \in MAX - 1 .. MAX + 1}
=============================================================================
