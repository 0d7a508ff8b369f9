------------------------------ MODULE MCSignals ------------------------------
(* Signals with two pairs: one can be watched while the other is new, or      *)
(* takes its place.                                                           *)
EXTENDS Signals
=============================================================================
