-------------------------------- MODULE MCFat --------------------------------
(* No property says anything once an unused slot was taken for a file, so  *)
(* that what follows is not explored further.                              *)
EXTENDS Fat

Named == "unnamed" \notin taint
=============================================================================
