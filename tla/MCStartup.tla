------------------------------- MODULE MCStartup -------------------------------
(* Constants for model checking Startup. *)
EXTENDS Startup

TwoRequired == <<"source_ip", "device_name">>
TwoHomes == {"h1", "h2"}
ConfigHomeOrNone == {"", "xdg"}
UserAnswers == {"eth0", "rel", "h1", "blank"}

\* Configurations written by hand, complete or not, valid or not.
HandWritten ==
    {c \in [mode : {"", "interface", "file"}, iface : {"", "eth0", "rel"}, file : {"", "var"},
           capIface : {"", "eth0"}, realtime : BOOLEAN, mqtt : {FALSE},
           has : {{}, {"source_ip", "device_name"}}] : c.realtime => c.mode = "file"}
    \cup {[Empty EXCEPT !.mode = "other"]}

\* Command lines.
CommandLines ==
    {NoFlags}
    \cup {[NoFlags EXCEPT !.path = "etc", !.file = v, !.realtime = r] :
            v \in {"", "h1"}, r \in {"", "on"}}
    \cup {[NoFlags EXCEPT !.iface = v, !.mqtt = "on", !.realtime = r] :
            v \in {"eth0", "var"}, r \in {"", "off"}}
=============================================================================
