----------------------------- MODULE MCReassembly -----------------------------
(* Constants for model checking Reassembly on a small sequence space. *)
EXTENDS Reassembly

CONSTANT f1

\* Every cut of a stream of n bytes into pieces of at most m bytes.
CutsOf(n, m) == {s \in [off : 0 .. n - 1, len : 1 .. m] : s.off + s.len <= n}

\* One flow, whose sequence numbers wrap in mid stream.
OneFlowISN == [f \in {f1} |-> 5]
Overlapping == {[f \in {f1} |-> CutsOf(5, 3)]}
=============================================================================
