------------------------------ MODULE MCPipeline ------------------------------
(* Constants for model checking Pipeline: a dongle with two connections to the *)
(* cloud, what the cloud answers, and a connection to another server.          *)
EXTENDS Pipeline

CONSTANTS dongle, cloud, other, soc, pbat

port == 7777
flow1 == [src |-> dongle, sport |-> 1, dst |-> cloud, dport |-> port]
flow2 == [src |-> dongle, sport |-> 2, dst |-> cloud, dport |-> port]
answers == [src |-> cloud, sport |-> port, dst |-> dongle, dport |-> 1]
elsewhere == [src |-> dongle, sport |-> 3, dst |-> other, dport |-> port]

FourFlows == {flow1, flow2, answers, elsewhere}
ToCloud == {flow1, flow2}

\* The numbers of flow1 wrap in mid stream.
WrappingISN == [f \in FourFlows |-> IF f = flow1 THEN 5 ELSE 0]

\* Every cut of a stream of n bytes into pieces of at most m bytes.
CutsOf(n, m) == {s \in [off : 0 .. n - 1, len : 1 .. m] : s.off + s.len <= n}
Halves == {[off |-> 0, len |-> 2], [off |-> 2, len |-> 2]}
Whole == {[off |-> 0, len |-> 4]}

\* flow1 recut at will; or all flows, each repeated as it was first cut.
OnTheWire(one, two, back, away) ==
    [f \in FourFlows |-> CASE f = flow1 -> one [] f = flow2 -> two
                         [] f = answers -> back [] f = elsewhere -> away]
Cuts ==
    { OnTheWire(CutsOf(5, 3), Halves, {}, {}),
      OnTheWire({[off |-> 0, len |-> 1], [off |-> 1, len |-> 1], [off |-> 2, len |-> 1], [off |-> 3, len |-> 1]},
                Halves, Whole, Whole) }

\* A frame of a header, an object and a checksum, and an object without a frame.
Frame(head, first, last, tail, sets) ==
    [head |-> head, first |-> first, last |-> last, tail |-> tail, sets |-> sets]
Bare(first, last, sets) == Frame(first, first, last, last, sets)

\* flow1 has a frame that may be cut everywhere and lose its header, and an object
\* that one segment can hold with the end of the frame; the halves of flow2 cut a
\* frame between its object and its checksum.
SomeRecords ==
    [f \in FourFlows |->
        IF f = flow1 THEN {Frame(0, 1, 2, 3, {soc}), Bare(4, 4, {soc, pbat})}
        ELSE IF f = flow2 THEN {Frame(0, 1, 1, 2, {soc}), Bare(3, 3, {pbat})}
        ELSE {Bare(0, 3, {pbat})}]
OneConnection == [f \in FourFlows |-> <<[off |-> 0, len |-> 5]>>]

\* The same addresses and ports twice, at two initial sequence numbers.
OneFlow == {flow1}
OneFlowISN == [f \in OneFlow |-> 5]
TwoConnections == [f \in OneFlow |-> <<[off |-> 0, len |-> 4], [off |-> 24, len |-> 4]>>]
TwoConnectionCuts == {[f \in OneFlow |-> Halves \cup {[off |-> 24, len |-> 2], [off |-> 26, len |-> 2]}]}
TwoConnectionRecords == [f \in OneFlow |-> {Frame(0, 1, 2, 3, {soc}), Frame(24, 25, 26, 27, {soc})}]
=============================================================================
