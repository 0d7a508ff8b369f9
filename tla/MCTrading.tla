------------------------------ MODULE MCTrading ------------------------------
(* The loop and one auto-buy goroutine, with two buys: enough for one to      *)
(* read a nonce that the other is about to use.                               *)
EXTENDS Trading
=============================================================================
