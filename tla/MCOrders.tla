------------------------------ MODULE MCOrders ------------------------------
(* Small instances of Orders.                                              *)
EXTENDS Orders, TLC

BuyerSymmetry == Permutations(Buyers)
=============================================================================
