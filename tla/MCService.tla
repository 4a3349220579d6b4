------------------------------- MODULE MCService -------------------------------
(* Constants for model checking Service: a tick is 15 s, RestartSec.  The      *)
(* system's attempts to connect to a silent host last about two minutes.       *)
EXTENDS Service

CONSTANTS eth, usb
=============================================================================
