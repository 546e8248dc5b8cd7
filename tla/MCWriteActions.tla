----------------------------- MODULE MCWriteActions -----------------------------
(***************************************************************************)
(* WriteActions on a small instance: one account, and either no protected  *)
(* chat or one.                                                            *)
(***************************************************************************)
EXTENDS WriteActions, TLC

CONSTANTS c1, c2

MCAccountOf == [c \in Chats |-> "account"]
MCProtectedSets == {{}, {c1}}
MCUnprotected == {{}}

Symmetry == Permutations(Actions) \cup Permutations(Txs)
ChatSymmetry == Permutations(Actions) \cup Permutations(Chats)
=============================================================================
