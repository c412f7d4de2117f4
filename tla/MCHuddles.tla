----------------------------- MODULE MCHuddles -----------------------------
(* Small instances of Huddles.                                             *)
EXTENDS Huddles
CONSTANTS keeper, passer, player, shop
MCKeeper == [s \in Structures |-> keeper]
=============================================================================
