----------------------------- MODULE WatcherPipe -----------------------------
(* The watcher implements the lossy stream of EventPipe.                     *)
EXTENDS Watcher

Pipe == INSTANCE EventPipe WITH
  Width     <- Cardinality(Workers),
  received  <- metrics["hashesReceived"],
  delivered <- metrics["txsProcessed"],
  lost      <- metrics["droppedHashes"] + metrics["fetchErrors"] + metrics["droppedTxs"],
  active    <- Cardinality(Handling),
  quiet     <- wait = "returned"

\* Watcher refines EventPipe: at-most-once delivery, bounded parallelism of
\* OnTx, silence after Wait has returned.
ImplementsPipe == Pipe!Spec
=============================================================================
