-------------------------------- MODULE MCGold --------------------------------
(* Instances of Gold: a library with two members that is searched for and  *)
(* may be followed by another one, and an object after it.                 *)
EXTENDS Gold

MCFileOf  == (1 :> 1) @@ (2 :> 1) @@ (3 :> 1) @@ (4 :> 2)
MCRoundOf == (1 :> 1) @@ (2 :> 1) @@ (3 :> 2) @@ (4 :> 1)
=============================================================================
