------------------------------ MODULE MCCheckout ------------------------------
(***************************************************************************)
(* An instance of Checkout for TLC: two purchases of one plan, or two of   *)
(* coins.                                                                  *)
(***************************************************************************)
EXTENDS Checkout

CONSTANTS premium, coins

TwoPurchases == {<<premium, premium>>, <<coins, coins>>}
=============================================================================
