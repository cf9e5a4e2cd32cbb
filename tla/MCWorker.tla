------------------------------ MODULE MCWorker ------------------------------
EXTENDS Worker

CONSTANTS c1, c2

SomeUsers == {<<>>, <<{c1}>>, <<{c1}, {c2}>>}
=============================================================================
