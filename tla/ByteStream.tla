------------------------------ MODULE ByteStream ------------------------------
(***************************************************************************)
(* What a TCP stream reconstruction promises to the decoder behind it      *)
(* (docs/ARCHITECTURE.md, "TCP stream reconstruction"): per flow, the      *)
(* bytes it hands on are bytes that were captured, in the order the sender *)
(* wrote them, without a hole and without a repetition.  A byte is named   *)
(* by its offset in the sender's stream.                                   *)
(***************************************************************************)
EXTENDS Integers, Sequences

CONSTANTS Flows,    \* the flow identifiers
          Pieces    \* the runs of bytes that may be handed on

VARIABLES captured,   \* captured[f]: offsets seen on the wire so far
          delivered   \* delivered[f]: the sequence of pieces handed on

vars == <<captured, delivered>>

\* The offset just after piece p, and the offsets p covers.
End(p) == p.off + p.len
Bytes(p) == p.off .. (End(p) - 1)

\* p continues what was handed on as d; anything may come first, because a
\* capture may begin in the middle of a connection.
Continues(d, p) == d = <<>> \/ p.off = End(d[Len(d)])

Init ==
    /\ captured = [f \in Flows |-> {}]
    /\ delivered = [f \in Flows |-> <<>>]

Capture(f) ==
    /\ captured[f] \subseteq captured'[f]
    /\ \A g \in Flows \ {f} : captured'[g] = captured[g]

Deliver(f) ==
    \E p \in Pieces :
        /\ Continues(delivered[f], p)
        /\ Bytes(p) \subseteq captured'[f]
        /\ delivered' = [delivered EXCEPT ![f] = Append(@, p)]

Next == \E f \in Flows : Capture(f) /\ (Deliver(f) \/ UNCHANGED delivered)

Spec == Init /\ [][Next]_vars
=============================================================================
