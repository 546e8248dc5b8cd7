----------------------------- MODULE MCClientPool -----------------------------
(***************************************************************************)
(* ClientPool on a small instance: two coroutines, two logins and one      *)
(* lost connection.                                                        *)
(***************************************************************************)
EXTENDS ClientPool
=============================================================================
