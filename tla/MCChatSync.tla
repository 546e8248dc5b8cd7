------------------------------- MODULE MCChatSync -------------------------------
(***************************************************************************)
(* ChatSync on small instances.                                            *)
(***************************************************************************)
EXTENDS ChatSync, TLC

Symmetry == Permutations(Jobs)
=============================================================================
