----------------------------- MODULE MCLifecycle -----------------------------
(* Two networks, three starts: a session can begin while another one ends    *)
(* and the goroutine of its /stop is pending.                                *)
EXTENDS LifecycleSession
=============================================================================
