----------------------------- MODULE MCJobQueue -----------------------------
(* JobQueue with Gets that name one queue, or both. *)
EXTENDS JobQueue

CONSTANTS q1, q2

OneQueue == {<<q1>>}
BothQueues == {<<q1, q2>>}
=============================================================================
