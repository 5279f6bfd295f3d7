----------------------------- MODULE MCWatchHub -----------------------------
(* Instances of WatchHub for TLC.                                          *)
EXTENDS WatchHub
=============================================================================
