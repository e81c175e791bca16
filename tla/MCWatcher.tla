----------------------------- MODULE MCWatcher ------------------------------
(***************************************************************************)
(* Instances of Watcher for TLC; the values are in the cfg files.          *)
(***************************************************************************)
EXTENDS WatcherInv
=============================================================================
