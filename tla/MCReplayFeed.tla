---------------------------- MODULE MCReplayFeed ----------------------------
(* ReplayFeed, instantiated for TLC by the constants of the .cfg files. *)
EXTENDS ReplayFeed
=============================================================================
