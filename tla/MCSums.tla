------------------------------- MODULE MCSums -------------------------------
(* Files with sums below, at and above what an exit status holds.          *)
EXTENDS Sums
FilesDef == {<<>>, <<3>>, <<1, 255>>, <<200, 100, 7, 200>>, <<255, 1, 255, 2, 255>>,
             <<1, 2, 3, 4, 5, 6>>}
=============================================================================
