------------------------------ MODULE MCAutoReply ------------------------------
(***************************************************************************)
(* AutoReply on a small instance: hours 2 and 0 of a day of three are      *)
(* quiet, two runs overlap; one thing goes wrong or is edited.             *)
(***************************************************************************)
EXTENDS AutoReply
=============================================================================
