------------------------------ MODULE Reassembly ------------------------------
(***************************************************************************)
(* src/internal/reassembly/reassembly.go: the assembler that turns the     *)
(* captured TCP segments of a flow back into a byte stream.                *)
(*                                                                         *)
(* A payload byte is named by its offset in the stream the sender wrote;   *)
(* a segment is a run of offsets.  The code sees 32-bit sequence numbers   *)
(* only: SeqOf maps an offset to one, modulo SeqMod.  Segments are handed  *)
(* to Push in any order, any number of times, or never: the capture may    *)
(* lose, duplicate and reorder what the sender (re)transmits.  How the     *)
(* sender cuts its stream is fixed per behaviour, one of Wires.            *)
(*                                                                         *)
(* The drain loop of flowState.push runs one iteration per step.  Push     *)
(* runs to its end in the one goroutine that captures, so nothing else is  *)
(* enabled while a drain is under way.                                     *)
(***************************************************************************)
EXTENDS Integers, Sequences

CONSTANTS
    Flows,      \* flow identifiers (tcpFlowID)
    SeqMod,     \* size of the sequence number space, 2^32 in the code
    ISN,        \* ISN[f]: sequence number of offset 0 of flow f
    Wires,      \* per flow, the segments its sender may put on the wire
    None        \* no flow, no buffered data

ASSUME SeqModAssumption == SeqMod \in Nat /\ SeqMod > 0 /\ SeqMod % 2 = 0
ASSUME ISNAssumption == ISN \in [Flows -> 0 .. SeqMod - 1]
ASSUME WiresAssumption == Wires \subseteq [Flows -> SUBSET [off : Nat, len : Nat \ {0}]]
ASSUME NoneAssumption == None \notin Flows /\ None \notin [off : Nat, len : Nat \ {0}]

VARIABLES
    started,    \* flowState.started (the flow's map entry is made with it)
    nextSeq,    \* flowState.nextSeq
    buffered,   \* flowState.buffered: sequence number -> data, None if absent
    draining,   \* the flow whose Push is in its drain loop, or None
    delivered,  \* per flow, the chunks Push has returned
    captured,   \* history: per flow, the offsets Push was ever given
    wire        \* the segments of this behaviour, never changed

vars == <<started, nextSeq, buffered, draining, delivered, captured, wire>>

SeqNums == 0 .. SeqMod - 1
Pieces == [off : Nat, len : Nat \ {0}]

Segments == UNION {w[f] : w \in Wires, f \in Flows}

End(p) == p.off + p.len
Bytes(p) == p.off .. (End(p) - 1)

SeqOf(f, off) == (ISN[f] + off) % SeqMod

\* Mutant: sequence numbers compared as plain integers.
SeqBeforeUnsigned(a, b) == a < b

\* int32(a-b) < 0: the difference lies in the upper half of the space.
SeqBefore(a, b) == (a - b) % SeqMod >= SeqMod \div 2
SeqDistance(from, to) == (to - from) % SeqMod

TypeOK ==
    /\ started \in [Flows -> BOOLEAN]
    /\ nextSeq \in [Flows -> SeqNums]
    /\ buffered \in [Flows -> [SeqNums -> Pieces \cup {None}]]
    /\ draining \in Flows \cup {None}
    /\ delivered \in [Flows -> Seq(Pieces)]
    /\ captured \in [Flows -> SUBSET Nat]
    /\ wire \in Wires

Init ==
    /\ started = [f \in Flows |-> FALSE]
    /\ nextSeq = [f \in Flows |-> 0]
    /\ buffered = [f \in Flows |-> [q \in SeqNums |-> None]]
    /\ draining = None
    /\ delivered = [f \in Flows |-> <<>>]
    /\ captured = [f \in Flows |-> {}]
    /\ wire \in Wires

-----------------------------------------------------------------------------
\* The sequence number the flow waits for: the first segment sets it.
Expected(f, s) == IF started[f] THEN nextSeq[f] ELSE SeqOf(f, s.off)

\* How many leading bytes of s were handed on before.
AlreadyRead(f, s) ==
    IF SeqBefore(SeqOf(f, s.off), Expected(f, s))
    THEN SeqDistance(SeqOf(f, s.off), Expected(f, s))
    ELSE 0

\* Everything in s was read before.
Drop(f, s) ==
    /\ AlreadyRead(f, s) >= s.len
    /\ UNCHANGED <<nextSeq, buffered, draining, delivered>>

\* s starts beyond the next byte: keep it, unless its key is taken.
Hold(f, s) ==
    /\ AlreadyRead(f, s) = 0
    /\ SeqOf(f, s.off) # Expected(f, s)
    /\ buffered' = IF buffered[f][SeqOf(f, s.off)] = None
                   THEN [buffered EXCEPT ![f][SeqOf(f, s.off)] = s]
                   ELSE buffered
    /\ UNCHANGED <<nextSeq, draining, delivered>>

\* Mutant: nextSeq does not wrap.
EmitNoWrap(f, from, p) ==
    /\ delivered' = [delivered EXCEPT ![f] = Append(@, p)]
    /\ nextSeq' = [nextSeq EXCEPT ![f] = from + p.len]

\* Hand p on: p is the next chunk, the flow advances by its length.
Emit(f, from, p) ==
    /\ delivered' = [delivered EXCEPT ![f] = Append(@, p)]
    /\ nextSeq' = [nextSeq EXCEPT ![f] = (from + p.len) % SeqMod]

\* The unread rest of s.
Rest(f, s) == [off |-> s.off + AlreadyRead(f, s), len |-> s.len - AlreadyRead(f, s)]

\* Mutant: the bytes read before are handed on again.
AcceptUntrimmed(f, s) ==
    /\ AlreadyRead(f, s) < s.len
    /\ AlreadyRead(f, s) > 0 \/ SeqOf(f, s.off) = Expected(f, s)
    /\ Emit(f, Expected(f, s), s)
    /\ draining' = f
    /\ UNCHANGED buffered

\* Mutant: the flow advances from the segment's own sequence number, which the
\* trimming did not move.
AcceptFromSegment(f, s) ==
    /\ AlreadyRead(f, s) < s.len
    /\ AlreadyRead(f, s) > 0 \/ SeqOf(f, s.off) = Expected(f, s)
    /\ Emit(f, SeqOf(f, s.off), Rest(f, s))
    /\ draining' = f
    /\ UNCHANGED buffered

\* Mutant: a segment ahead of the next byte is handed on as well.
AcceptAhead(f, s) ==
    /\ AlreadyRead(f, s) < s.len
    /\ Emit(f, SeqOf(f, s.off), Rest(f, s))
    /\ draining' = f
    /\ UNCHANGED buffered

\* Mutant: the drain loop is left out.
AcceptNoDrain(f, s) ==
    /\ AlreadyRead(f, s) < s.len
    /\ AlreadyRead(f, s) > 0 \/ SeqOf(f, s.off) = Expected(f, s)
    /\ Emit(f, Expected(f, s), Rest(f, s))
    /\ UNCHANGED <<draining, buffered>>

\* s holds the next byte: its unread rest is the next chunk, then drain.
Accept(f, s) ==
    /\ AlreadyRead(f, s) < s.len
    /\ AlreadyRead(f, s) > 0 \/ SeqOf(f, s.off) = Expected(f, s)
    /\ Emit(f, Expected(f, s), Rest(f, s))
    /\ draining' = f
    /\ UNCHANGED buffered

\* Assembler.Push of a segment with data.
Push(f, s) ==
    /\ draining = None
    /\ started' = [started EXCEPT ![f] = TRUE]
    /\ captured' = [captured EXCEPT ![f] = @ \cup Bytes(s)]
    /\ Drop(f, s) \/ Hold(f, s) \/ Accept(f, s)
    /\ UNCHANGED wire

\* Mutant: one buffered segment is handed on, not all that follow.
DrainOnce(f) ==
    /\ draining = f
    /\ buffered[f][nextSeq[f]] # None
    /\ Emit(f, nextSeq[f], buffered[f][nextSeq[f]])
    /\ buffered' = [buffered EXCEPT ![f][nextSeq[f]] = None]
    /\ draining' = None
    /\ UNCHANGED <<started, captured, wire>>

\* One iteration of the drain loop, and its end.
DrainStep(f) ==
    /\ draining = f
    /\ buffered[f][nextSeq[f]] # None
    /\ Emit(f, nextSeq[f], buffered[f][nextSeq[f]])
    /\ buffered' = [buffered EXCEPT ![f][nextSeq[f]] = None]
    /\ UNCHANGED <<started, draining, captured, wire>>

DrainEnd(f) ==
    /\ draining = f
    /\ buffered[f][nextSeq[f]] = None
    /\ draining' = None
    /\ UNCHANGED <<started, nextSeq, buffered, delivered, captured, wire>>

Drain(f) == DrainStep(f) \/ DrainEnd(f)

Next == \E f \in Flows : (\E s \in wire[f] : Push(f, s)) \/ Drain(f)

\* A call of Push that has begun runs to its end.
Fairness == \A f \in Flows : WF_vars(Drain(f))

Spec == Init /\ [][Next]_vars /\ Fairness

-----------------------------------------------------------------------------
\* The streams are shorter than the sequence number space, so that no
\* sequence number stands for two bytes.
ShortStreams == \A s \in Segments : End(s) < SeqMod

\* The stream of f is shorter than half of it, so that a segment ahead of the
\* byte waited for is never taken for one behind it.
Half(f) == \A s \in wire[f] : 2 * End(s) <= SeqMod

\* The sender of f retransmits the segments it sent, cut at the same places.
Aligned(f) ==
    \A s, t \in wire[f] : s = t \/ End(s) <= t.off \/ End(t) <= s.off

\* The offset the flow waits for, and the offsets it must hand on.
NextOff(f) == End(delivered[f][Len(delivered[f])])
FirstOff(f) == delivered[f][1].off
DeliveredBytes(f) == UNION {Bytes(delivered[f][i]) : i \in DOMAIN delivered[f]}
BufferedBytes(f) ==
    UNION {Bytes(buffered[f][q]) : q \in {r \in SeqNums : buffered[f][r] # None}}

\* Property: the chunks of a flow are contiguous in the sender's stream: no
\* byte is skipped, repeated or handed on out of order, whatever the capture
\* loses, duplicates, reorders or sees cut differently (flowState.push).
InOrder ==
    \A f \in Flows : \A i \in 1 .. Len(delivered[f]) - 1 :
        delivered[f][i + 1].off = End(delivered[f][i])

\* Property: the 32-bit state agrees with the stream: nextSeq is the sequence
\* number of the byte after the last one handed on, and every buffered segment
\* sits under the sequence number of its own first byte.  It is the inductive
\* strengthening that InOrder and the completeness properties rest on.
FlowAgrees(f) ==
    /\ started[f] <=> delivered[f] # <<>>
    /\ draining = f => started[f]
    /\ started[f] => NextOff(f) < SeqMod /\ nextSeq[f] = SeqOf(f, NextOff(f))
    /\ \A q \in SeqNums : buffered[f][q] # None =>
        /\ started[f]
        /\ buffered[f][q] \in Segments
        /\ q = SeqOf(f, buffered[f][q].off)
SeqAgrees == \A f \in Flows : FlowAgrees(f)

\* Property: a captured byte at or after the first one is handed on or
\* waits in the buffer; Push never throws new data away, as long as the sender
\* does not recut its stream.
NoByteLost ==
    \A f \in Flows : Aligned(f) /\ Half(f) /\ delivered[f] # <<>> =>
        \A o \in captured[f] :
            o >= FirstOff(f) => o \in DeliveredBytes(f) \cup BufferedBytes(f)

\* f stalls: the byte it waits for was captured.
Stalls(f) == delivered[f] # <<>> /\ NextOff(f) \in captured[f]

\* Property: between two calls of Push, the byte a flow waits for has not
\* been captured; a flow whose sender does not recut its stream stalls only on
\* bytes the capture missed.
NoStall ==
    draining = None => \A f \in Flows : Aligned(f) /\ Half(f) => ~Stalls(f)

\* Property: a flow stalls only on bytes the capture missed, however the sender
\* cuts what it sends again ("reconstructs the AlphaESS-to-cloud TCP stream",
\* README.md).
NeverStalls == draining = None => \A f \in Flows : ~Stalls(f)

\* The specification the assembler implements.
Abstract == INSTANCE ByteStream
                WITH Pieces <- [off : 0 .. SeqMod, len : 1 .. SeqMod]

\* Property: the assembler implements the abstract byte stream.
ImplementsByteStream == Abstract!Spec
=============================================================================
