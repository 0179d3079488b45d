----------------------------- MODULE MCChatRoom -----------------------------
(* ChatRoom with a few clients. *)
EXTENDS ChatRoom, TLC

Symmetry == Permutations(Client)
=============================================================================
