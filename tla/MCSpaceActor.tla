---------------------------- MODULE MCSpaceActor ----------------------------
(* The Space on a small instance: clients and values may be exchanged. *)
EXTENDS SpaceActor, TLC

Symmetry == Permutations(Client) \union Permutations(Value)
=============================================================================
