--------------------------- MODULE MCPestControl ---------------------------
(* PestControl with one or two sites and species. *)
EXTENDS PestControl, TLC

CONSTANTS A, B, rat, dog

(* Counts 0, 1 and 2 ask for conserve, nothing and cull. *)
One == [min |-> 1, max |-> 1]
OneSite == A :> (rat :> One @@ dog :> One)
TwoSites == A :> (rat :> One) @@ B :> (rat :> One)
Symmetry == Permutations(Client)
=============================================================================
