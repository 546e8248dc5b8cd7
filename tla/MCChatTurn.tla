------------------------------- MODULE MCChatTurn -------------------------------
(***************************************************************************)
(* ChatTurn on a small instance.                                           *)
(***************************************************************************)
EXTENDS ChatTurn
=============================================================================
