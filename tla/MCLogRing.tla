------------------------------ MODULE MCLogRing ------------------------------
(* The ring with 4 slots, filled up to two and a half times.                 *)
EXTENDS LogRing
=============================================================================
