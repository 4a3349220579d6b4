------------------------------- MODULE MCBridge -------------------------------
(* Constants for model checking Bridge. *)
EXTENDS Bridge

OneDiscovery == <<"discovery1">>
=============================================================================
