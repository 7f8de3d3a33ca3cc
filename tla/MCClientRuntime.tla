--------------------------- MODULE MCClientRuntime ---------------------------
(* ClientRuntime, instantiated for TLC by the constants of the .cfg files. *)
EXTENDS ClientRuntime
=============================================================================
