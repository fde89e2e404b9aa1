------------------------- MODULE MCAccountDocument -------------------------
(***************************************************************************)
(* AccountDocument for an account that starts with two categories.         *)
(***************************************************************************)
EXTENDS AccountDocument

DefaultTwo == <<1, 2>>

=============================================================================
