------------------------------- MODULE MCAuthFlow -------------------------------
(***************************************************************************)
(* AuthFlow on small instances.                                            *)
(***************************************************************************)
EXTENDS AuthFlow, TLC

CONSTANTS p1, p2, p3

AllLogins == People \X (People \cup {None})
OneOwner  == {<<p1, None>>, <<p2, p1>>, <<p3, p1>>}

Symmetry == Permutations(Flows) \cup Permutations(Handlers)
=============================================================================
