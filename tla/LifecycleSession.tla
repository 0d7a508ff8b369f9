-------------------------- MODULE LifecycleSession --------------------------
(* The controller's /start and /stop implement the sessions of Session.      *)
EXTENDS Lifecycle

Promised == INSTANCE Session WITH
  Ids       <- Sessions,
  Equipment <- {h \in Nets \X Nets \X (Nets \cup {None}) : h[2] = h[1] /\ h[3] \in {h[1], None}},
  shown     <- running,
  asked     <- running /\ ctx[watcher] = "cancelled",
  calling   <- {s \in Sessions : pipeline[s] = "running"},
  over      <- {s \in Sessions : pipeline[s] = "ended"},
  used      <- handles

\* Lifecycle refines Session: a session begins only when the last one has made
\* its last call and was reported stopped, it keeps its client, registry and
\* executor to the end whatever /net, /start and /stop do meanwhile, and ends
\* only when asked, before it is reported stopped.
ImplementsSession == Promised!Spec
=============================================================================
