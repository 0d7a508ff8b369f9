----------------------------- MODULE MCDetection -----------------------------
(* A pair with WETH and one without, and a transaction of any kind that is    *)
(* handed to the callback twice; pairs may be created by others.              *)
EXTENDS Detection
=============================================================================
