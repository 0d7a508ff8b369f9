------------------------------ MODULE MCWatcher ------------------------------
(* A small instance of Watcher and of its refinement for TLC.                *)
EXTENDS WatcherPipe
=============================================================================
