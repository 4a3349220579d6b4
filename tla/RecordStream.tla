----------------------------- MODULE RecordStream -----------------------------
(***************************************************************************)
(* What the capture pipeline promises (README.md: it "reconstructs the     *)
(* AlphaESS-to-cloud TCP stream, extracts JSON messages, and builds or     *)
(* publishes raw MQTT state payloads"): every published state adds one     *)
(* record that was captured whole, of a flow from the dongle to the cloud, *)
(* and the records of a flow are published in the order they were sent.    *)
(* A state holds, per field, the record that set it last.                  *)
(***************************************************************************)
EXTENDS Integers, Sequences

CONSTANTS
    Flows,      \* the TCP flows on the wire, by direction
    Reporting,  \* those that carry the dongle's reports to the cloud
    Records,    \* Records[f]: the records in the flow's bytes, [first, last] their objects
    Fields,     \* the field names
    None        \* no value yet

VARIABLES captured,   \* captured[f]: the offsets seen on the wire
          published,  \* the <<flow, record>> pairs published so far
          state       \* the retained state: per field, the pair that set it

vars == <<captured, published, state>>

Init ==
    /\ captured = [f \in Flows |-> {}]
    /\ published = <<>>
    /\ state = [x \in Fields |-> None]

Capture ==
    /\ \A f \in Flows : captured[f] \subseteq captured'[f]
    /\ UNCHANGED <<published, state>>

\* r is newer than what was published of its flow.
Newer(f, r) ==
    \A i \in DOMAIN published : published[i][1] = f => published[i][2].last < r.first

Publish(f, r) ==
    /\ r.first .. r.last \subseteq captured[f]
    /\ Newer(f, r)
    /\ published' = Append(published, <<f, r>>)
    /\ state' = [x \in Fields |-> IF x \in r.sets THEN <<f, r>> ELSE state[x]]
    /\ UNCHANGED captured

Next == Capture \/ \E f \in Reporting : \E r \in Records[f] : Publish(f, r)

Spec == Init /\ [][Next]_vars
=============================================================================
