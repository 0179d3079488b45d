-------------------------- MODULE MCTicketDispatch --------------------------
(* TicketDispatch with two tickets of one road. *)
EXTENDS TicketDispatch, TLC

CONSTANTS A, t1, t2

OneRoad == (t1 :> A) @@ (t2 :> A)
=============================================================================
