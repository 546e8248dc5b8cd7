------------------------------- MODULE MCSyncJobs -------------------------------
(***************************************************************************)
(* SyncJobs on small instances: one account and two chats.                 *)
(***************************************************************************)
EXTENDS SyncJobs, TLC

Symmetry == Permutations(Chats)
=============================================================================
