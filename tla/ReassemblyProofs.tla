--------------------------- MODULE ReassemblyProofs ---------------------------
(***************************************************************************)
(* Theorems about Reassembly, for every number of flows, every sequence    *)
(* number space, all initial sequence numbers and every set of segments.   *)
(***************************************************************************)
EXTENDS Reassembly, Arithmetic

-----------------------------------------------------------------------------
(* Sequence numbers. *)

LEMMA SeqModPositive == SeqMod \in Nat \ {0} /\ SeqMod \div 2 \in 1 .. SeqMod - 1
                        /\ 2 * (SeqMod \div 2) = SeqMod
    BY SeqModAssumption

LEMMA SeqOfType ==
    ASSUME NEW f \in Flows, NEW o \in Nat
    PROVE  SeqOf(f, o) \in SeqNums
    BY SeqModPositive, ISNAssumption, ModDivision DEF SeqOf, SeqNums

\* The difference of two sequence numbers is the difference of the offsets.
LEMMA SeqDifference ==
    ASSUME NEW f \in Flows, NEW a \in Nat, NEW b \in Nat
    PROVE  (SeqOf(f, a) - SeqOf(f, b)) % SeqMod = (a - b) % SeqMod
    <1> DEFINE x == ISN[f] + a
               y == ISN[f] + b
    <1>1. x \in Int /\ y \in Int /\ a - b = x - y /\ SeqMod \in Nat \ {0}
        BY ISNAssumption, SeqModPositive
    <1>2. SeqOf(f, a) - SeqOf(f, b) = (x % SeqMod) - (y % SeqMod)
        BY DEF SeqOf
    <1> HIDE DEF x, y
    <1> QED
        BY <1>1, <1>2, ModSub, Zenon

LEMMA SeqAdvance ==
    ASSUME NEW f \in Flows, NEW o \in Nat, NEW l \in Nat
    PROVE  (SeqOf(f, o) + l) % SeqMod = SeqOf(f, o + l)
    <1> DEFINE x == ISN[f] + o
    <1>1. x \in Int /\ SeqMod \in Nat \ {0} /\ ISN[f] + (o + l) = x + l
        BY ISNAssumption, SeqModPositive
    <1>2. SeqOf(f, o) + l = (x % SeqMod) + l
        BY DEF SeqOf
    <1> HIDE DEF x
    <1>3. ((x % SeqMod) + l) % SeqMod = (x + l) % SeqMod
        <2>1. l \in Int
            OBVIOUS
        <2> QED
            BY <1>1, <2>1, ModAdd, Zenon
    <1>4. SeqOf(f, o + l) = (x + l) % SeqMod
        BY <1>1 DEF SeqOf
    <1> QED
        BY <1>2, <1>3, <1>4

\* In a stream shorter than the space, a sequence number names one offset.
LEMMA SeqInjective ==
    ASSUME NEW f \in Flows, NEW a \in 0 .. SeqMod - 1, NEW b \in 0 .. SeqMod - 1,
           SeqOf(f, a) = SeqOf(f, b)
    PROVE  a = b
    <1>1. (SeqOf(f, a) - SeqOf(f, b)) % SeqMod = (a - b) % SeqMod
        BY SeqDifference, SeqModPositive
    <1>2. SeqOf(f, a) \in Int /\ SeqOf(f, a) - SeqOf(f, b) = 0
        BY SeqOfType, SeqModPositive DEF SeqNums
    <1>3. (a - b) % SeqMod = 0
        BY <1>1, <1>2, SeqModPositive, ModSmall
    <1>4. a - b \in Int /\ -SeqMod < a - b /\ a - b < SeqMod
        BY SeqModPositive
    <1>5. CASE a - b >= 0
        <2>1. (a - b) % SeqMod = a - b
            BY <1>4, <1>5, SeqModPositive, ModSmall
        <2> QED
            BY <2>1, <1>3, SeqModPositive
    <1>6. CASE a - b < 0
        <2>1. (a - b) % SeqMod = a - b + SeqMod
            BY <1>4, <1>6, SeqModPositive, ModSmall
        <2> QED
            BY <2>1, <1>3, <1>4, SeqModPositive
    <1> QED
        BY <1>4, <1>5, <1>6

\* What the comparison of sequence numbers finds out about a segment at
\* offset o and length l when the flow waits for offset n.
LEMMA TrimLemma ==
    ASSUME NEW f \in Flows, NEW o \in Nat, NEW l \in Nat, NEW n \in 0 .. SeqMod - 1,
           o + l < SeqMod,
           NEW ar,
           ar = IF SeqBefore(SeqOf(f, o), SeqOf(f, n))
                THEN SeqDistance(SeqOf(f, o), SeqOf(f, n)) ELSE 0
    PROVE  /\ ar \in Nat
           /\ ar < l /\ (ar > 0 \/ SeqOf(f, o) = SeqOf(f, n)) => o + ar = n
    <1>1. SeqBefore(SeqOf(f, o), SeqOf(f, n)) <=> (o - n) % SeqMod >= SeqMod \div 2
        <2>1. n \in Nat
            BY SeqModPositive
        <2>2. (SeqOf(f, o) - SeqOf(f, n)) % SeqMod = (o - n) % SeqMod
            BY <2>1, SeqDifference
        <2> QED
            BY <2>2 DEF SeqBefore
    <1>2. SeqDistance(SeqOf(f, o), SeqOf(f, n)) = (n - o) % SeqMod
        BY SeqDifference, SeqModPositive DEF SeqDistance
    <1>3. n \in Nat /\ o \in 0 .. SeqMod - 1
        BY SeqModPositive
    <1>4. o = n => (o - n) % SeqMod = 0
        BY <1>3, SeqModPositive, ModSmall
    <1>5. ASSUME o < n PROVE (n - o) % SeqMod = n - o
        <2>1. n - o \in Int /\ 0 <= n - o /\ n - o < SeqMod
            BY <1>3, <1>5, SeqModPositive
        <2> QED
            BY <2>1, SeqModPositive, ModSmall
    <1>6. ASSUME o > n PROVE (n - o) % SeqMod = n - o + SeqMod
        <2>1. n - o \in Int /\ -SeqMod <= n - o /\ n - o < 0
            BY <1>3, <1>6, SeqModPositive
        <2> QED
            BY <2>1, SeqModPositive, ModSmall
    <1>7. ar \in Nat
        BY <1>1, <1>2, <1>3, <1>4, <1>5, <1>6, SeqModPositive
    <1>8. SeqOf(f, o) = SeqOf(f, n) => o = n
        BY <1>3, SeqInjective
    <1>9. ASSUME ar < l, ar > 0 \/ SeqOf(f, o) = SeqOf(f, n) PROVE o + ar = n
        <2>1. CASE o = n
            BY <2>1, <1>1, <1>2, <1>4, <1>3, SeqModPositive
        <2>2. CASE o < n
            BY <2>2, <1>9, <1>8, <1>5, <1>2, <1>3
        <2>3. CASE o > n
            BY <2>3, <1>9, <1>8, <1>6, <1>2, <1>3, SeqModPositive
        <2> QED
            BY <2>1, <2>2, <2>3, <1>3
    <1> QED
        BY <1>7, <1>9

-----------------------------------------------------------------------------
(* Type correctness, which needs no assumption on the segments. *)

LEMMA SegmentsType == Segments \subseteq [off : Nat, len : Nat \ {0}]
    BY WiresAssumption DEF Segments

\* The first segment of a flow is neither behind nor ahead of itself.
LEMMA NotAheadOfItself ==
    ASSUME NEW f \in Flows, NEW s \in Segments
    PROVE  ~SeqBefore(SeqOf(f, s.off), SeqOf(f, s.off)) /\ s.len \in Nat \ {0}
    <1>1. s.len \in Nat \ {0} /\ SeqOf(f, s.off) \in SeqNums
        BY SegmentsType, SeqOfType
    <1>2. SeqOf(f, s.off) - SeqOf(f, s.off) = 0 /\ 0 % SeqMod = 0
        BY <1>1, SeqModPositive, ModSmall DEF SeqNums
    <1> QED
        BY <1>1, <1>2, SeqModPositive DEF SeqBefore

\* What a sender puts on the wire is a segment.
LEMMA WireType == TypeOK => \A f \in Flows : wire[f] \subseteq Segments
    BY DEF TypeOK, Segments

\* What Emit does to the types.
LEMMA EmitType ==
    ASSUME TypeOK, NEW f \in Flows, NEW from \in SeqNums, NEW p \in Pieces,
           Emit(f, from, p)
    PROVE  /\ delivered' \in [Flows -> Seq(Pieces)]
           /\ nextSeq' \in [Flows -> SeqNums]
    <1>1. (from + p.len) % SeqMod \in SeqNums
        <2>1. from + p.len \in Int
            BY SeqModPositive DEF SeqNums, Pieces
        <2> QED
            BY <2>1, SeqModPositive, ModDivision DEF SeqNums
    <1>2. Append(delivered[f], p) \in Seq(Pieces)
        BY DEF TypeOK
    <1> QED
        BY <1>1, <1>2 DEF Emit, TypeOK

\* The bytes Push has already read of a segment are a natural number, and the
\* sequence number it expects is one.
LEMMA AlreadyReadType ==
    ASSUME TypeOK, NEW f \in Flows, NEW s \in Segments
    PROVE  Expected(f, s) \in SeqNums /\ AlreadyRead(f, s) \in Nat
    <1>1. s.off \in Nat
        BY SegmentsType
    <1>2. Expected(f, s) \in SeqNums /\ SeqOf(f, s.off) \in SeqNums
        BY <1>1, SeqOfType DEF Expected, TypeOK
    <1>3. SeqDistance(SeqOf(f, s.off), Expected(f, s)) \in Nat
        <2>1. Expected(f, s) - SeqOf(f, s.off) \in Int
            BY <1>2, SeqModPositive DEF SeqNums
        <2> QED
            BY <2>1, SeqModPositive, ModDivision DEF SeqDistance
    <1> QED
        BY <1>2, <1>3 DEF AlreadyRead

LEMMA TypeInit == Init => TypeOK
    BY SeqModPositive DEF Init, TypeOK, SeqNums

LEMMA TypeStep == TypeOK /\ [Next]_vars => TypeOK'
    <1> SUFFICES ASSUME TypeOK, [Next]_vars PROVE TypeOK'
        OBVIOUS
    <1>0. \A f \in Flows : wire[f] \subseteq Segments
        BY WireType
    <1>1. ASSUME NEW f \in Flows, NEW s \in Segments, Push(f, s) PROVE TypeOK'
        <2>1. s \in Pieces /\ Bytes(s) \subseteq Nat
            BY SegmentsType DEF Pieces, Bytes, End
        <2>2. /\ started' \in [Flows -> BOOLEAN]
              /\ captured' \in [Flows -> SUBSET Nat]
              /\ wire' \in Wires
            BY <1>1, <2>1 DEF Push, TypeOK
        <2>3. CASE Drop(f, s)
            BY <2>2, <2>3 DEF Drop, TypeOK
        <2>4. CASE Hold(f, s)
            <3>1. SeqOf(f, s.off) \in SeqNums
                BY <2>1, SeqOfType DEF Pieces
            <3>2. buffered' \in [Flows -> [SeqNums -> Pieces \cup {None}]]
                BY <2>1, <2>4, <3>1 DEF Hold, TypeOK
            <3> QED
                BY <2>2, <2>4, <3>2 DEF Hold, TypeOK
        <2>5. CASE Accept(f, s)
            <3> DEFINE ar == AlreadyRead(f, s)
                       p == [off |-> s.off + ar, len |-> s.len - ar]
            <3>1. ar \in Nat /\ ar < s.len
                BY <2>5, AlreadyReadType DEF Accept
            <3>2. p \in Pieces
                BY <2>1, <3>1 DEF Pieces
            <3>3. Emit(f, Expected(f, s), p)
                BY <2>5 DEF Accept, Rest
            <3>4. Expected(f, s) \in SeqNums
                BY AlreadyReadType
            <3> HIDE DEF p
            <3>5. delivered' \in [Flows -> Seq(Pieces)] /\ nextSeq' \in [Flows -> SeqNums]
                BY <3>2, <3>3, <3>4, EmitType
            <3> QED
                BY <2>2, <2>5, <3>5 DEF Accept, TypeOK
        <2> QED
            BY <1>1, <2>3, <2>4, <2>5 DEF Push
    <1>2. ASSUME NEW f \in Flows, DrainStep(f) PROVE TypeOK'
        <2> DEFINE p == buffered[f][nextSeq[f]]
        <2>1. nextSeq[f] \in SeqNums /\ p \in Pieces
            BY <1>2 DEF DrainStep, TypeOK
        <2>2. Emit(f, nextSeq[f], p)
            BY <1>2 DEF DrainStep
        <2>3. delivered' \in [Flows -> Seq(Pieces)] /\ nextSeq' \in [Flows -> SeqNums]
            BY <2>1, <2>2, EmitType
        <2>4. buffered' \in [Flows -> [SeqNums -> Pieces \cup {None}]]
            BY <1>2 DEF DrainStep, TypeOK
        <2> QED
            BY <1>2, <2>3, <2>4 DEF DrainStep, TypeOK
    <1>3. ASSUME NEW f \in Flows, DrainEnd(f) PROVE TypeOK'
        BY <1>3 DEF DrainEnd, TypeOK
    <1>4. CASE UNCHANGED vars
        BY <1>4 DEF vars, TypeOK
    <1> QED
        BY <1>0, <1>1, <1>2, <1>3, <1>4 DEF Next, Drain

\* The assembler's state has its type, whatever segments it is given.
THEOREM TypeCorrect == Spec => []TypeOK
    BY TypeInit, TypeStep, PTL DEF Spec

-----------------------------------------------------------------------------
(* Order: the chunks of a flow are contiguous, when streams are short. *)

Contiguous(d) == \A i \in 1 .. Len(d) - 1 : d[i + 1].off = End(d[i])

\* Appending a piece that starts where the sequence ends.
LEMMA AppendPiece ==
    ASSUME NEW d \in Seq(Pieces), NEW p \in Pieces, Contiguous(d),
           d = <<>> \/ p.off = End(d[Len(d)])
    PROVE  /\ Contiguous(Append(d, p))
           /\ Append(d, p) # <<>>
           /\ Append(d, p)[Len(Append(d, p))] = p
    <1> DEFINE e == Append(d, p)
    <1>1. e \in Seq(Pieces) /\ Len(e) = Len(d) + 1 /\ Len(d) \in Nat
        OBVIOUS
    <1>2. \A i \in 1 .. Len(d) : e[i] = d[i]
        OBVIOUS
    <1>3. e[Len(e)] = p
        OBVIOUS
    <1> HIDE DEF e
    <1>4. ASSUME NEW i \in 1 .. Len(e) - 1 PROVE e[i + 1].off = End(e[i])
        <2>1. CASE i < Len(d)
            <3>1. i \in 1 .. Len(d) - 1 /\ i + 1 \in 1 .. Len(d) /\ i \in 1 .. Len(d)
                BY <2>1, <1>1
            <3>2. e[i] = d[i] /\ e[i + 1] = d[i + 1]
                BY <3>1, <1>2
            <3> QED
                BY <3>1, <3>2 DEF Contiguous
        <2>2. CASE i = Len(d)
            <3>1. d # <<>> /\ e[i] = d[Len(d)] /\ e[i + 1] = p
                BY <2>2, <1>1, <1>2, <1>3
            <3> QED
                BY <3>1
        <2> QED
            BY <2>1, <2>2, <1>1
    <1>5. e # <<>>
        BY <1>1
    <1>6. Contiguous(e)
        BY <1>4 DEF Contiguous
    <1> QED
        BY <1>3, <1>5, <1>6 DEF e

LEMMA AgreesInit == Init => SeqAgrees /\ InOrder
    <1> SUFFICES ASSUME Init, NEW f \in Flows
                 PROVE  FlowAgrees(f) /\ Contiguous(delivered[f])
        BY DEF SeqAgrees, InOrder, Contiguous
    <1>1. started[f] = FALSE /\ delivered[f] = <<>> /\ draining # f
        BY NoneAssumption DEF Init
    <1>2. \A q \in SeqNums : buffered[f][q] = None
        BY DEF Init
    <1> QED
        BY <1>1, <1>2 DEF FlowAgrees, Contiguous

\* A flow that hands on p, the piece at the byte it waits for, still agrees
\* with the stream afterwards.
LEMMA EmitAgrees ==
    ASSUME TypeOK, TypeOK', NEW f \in Flows, NEW from \in SeqNums, NEW p \in Pieces,
           Contiguous(delivered[f]),
           Emit(f, from, p),
           from = SeqOf(f, p.off),
           delivered[f] # <<>> => p.off = NextOff(f),
           End(p) < SeqMod
    PROVE  /\ Contiguous(delivered'[f])
           /\ delivered'[f] # <<>>
           /\ NextOff(f)' = End(p)
           /\ NextOff(f)' < SeqMod
           /\ nextSeq'[f] = SeqOf(f, NextOff(f)')
    <1> DEFINE d == delivered[f]
    <1>1. delivered'[f] = Append(d, p) /\ d \in Seq(Pieces) /\ Contiguous(d)
        BY DEF Emit, TypeOK
    <1>2. d = <<>> \/ p.off = End(d[Len(d)])
        BY DEF NextOff
    <1> HIDE DEF d
    <1>3. /\ Contiguous(Append(d, p)) /\ Append(d, p) # <<>>
          /\ Append(d, p)[Len(Append(d, p))] = p
        BY <1>1, <1>2, AppendPiece
    <1>4. NextOff(f)' = End(p)
        BY <1>1, <1>3 DEF NextOff, End
    <1>5. nextSeq'[f] = (SeqOf(f, p.off) + p.len) % SeqMod
        BY DEF Emit, TypeOK
    <1>6. p.off \in Nat /\ p.len \in Nat /\ End(p) = p.off + p.len
        BY DEF Pieces, End
    <1>7. (SeqOf(f, p.off) + p.len) % SeqMod = SeqOf(f, p.off + p.len)
        BY <1>6, SeqAdvance
    <1> QED
        BY <1>1, <1>3, <1>4, <1>5, <1>6, <1>7

LEMMA NextOffType ==
    ASSUME TypeOK, NEW f \in Flows, delivered[f] # <<>>
    PROVE  NextOff(f) \in Nat
    <1>1. delivered[f] \in Seq(Pieces)
        BY DEF TypeOK
    <1>2. Len(delivered[f]) \in 1 .. Len(delivered[f])
        BY <1>1
    <1>3. delivered[f][Len(delivered[f])] \in Pieces
        BY <1>1, <1>2
    <1> QED
        BY <1>3 DEF NextOff, End, Pieces

\* The unread rest of a segment that Push accepts starts at the byte the flow
\* waits for.
LEMMA AcceptedPiece ==
    ASSUME ShortStreams, TypeOK, NEW f \in Flows, FlowAgrees(f), NEW s \in Segments,
           AlreadyRead(f, s) < s.len,
           AlreadyRead(f, s) > 0 \/ SeqOf(f, s.off) = Expected(f, s),
           NEW p, p = [off |-> s.off + AlreadyRead(f, s),
                       len |-> s.len - AlreadyRead(f, s)]
    PROVE  /\ p \in Pieces
           /\ Expected(f, s) \in SeqNums /\ Expected(f, s) = SeqOf(f, p.off)
           /\ delivered[f] # <<>> => p.off = NextOff(f)
           /\ End(p) = End(s) /\ End(p) < SeqMod
           /\ s.off <= p.off
    <1> DEFINE n == IF started[f] THEN NextOff(f) ELSE s.off
               ar == AlreadyRead(f, s)
    <1>1. s.off \in Nat /\ s.len \in Nat \ {0} /\ End(s) = s.off + s.len
        BY SegmentsType DEF End
    <1>2. s.off + s.len < SeqMod
        BY <1>1 DEF ShortStreams
    <1>3. ar \in Nat /\ Expected(f, s) \in SeqNums
        BY AlreadyReadType
    <1>4. n \in 0 .. SeqMod - 1
        BY <1>1, <1>2, NextOffType, SeqModPositive DEF FlowAgrees
    <1>5. Expected(f, s) = SeqOf(f, n)
        BY DEF Expected, FlowAgrees
    <1>6. ar = IF SeqBefore(SeqOf(f, s.off), SeqOf(f, n))
               THEN SeqDistance(SeqOf(f, s.off), SeqOf(f, n)) ELSE 0
        BY <1>5 DEF AlreadyRead
    <1>7. ar < s.len /\ (ar > 0 \/ SeqOf(f, s.off) = SeqOf(f, n))
        BY <1>5
    <1>8. p.off = s.off + ar /\ p.len = s.len - ar /\ p \in Pieces
        BY <1>1, <1>3, <1>7 DEF Pieces
    <1>9. delivered[f] # <<>> => n = NextOff(f)
        BY DEF FlowAgrees
    <1> HIDE DEF n, ar
    <1>10. s.off + ar = n
        BY <1>1, <1>2, <1>4, <1>6, <1>7, TrimLemma
    <1> QED
        BY <1>1, <1>2, <1>3, <1>5, <1>8, <1>9, <1>10 DEF End

\* A step that does not touch a flow leaves it in agreement.
LEMMA FrameAgrees ==
    ASSUME NEW g \in Flows, FlowAgrees(g), draining' # g \/ draining = g,
           started'[g] = started[g], nextSeq'[g] = nextSeq[g],
           delivered'[g] = delivered[g], buffered'[g] = buffered[g]
    PROVE  FlowAgrees(g)'
    BY DEF FlowAgrees, NextOff, End, SeqOf

LEMMA AgreesStep ==
    ASSUME ShortStreams, TypeOK, TypeOK', SeqAgrees, InOrder, Next
    PROVE  SeqAgrees' /\ InOrder'
    <1> SUFFICES ASSUME NEW g \in Flows
                 PROVE  FlowAgrees(g)' /\ Contiguous(delivered'[g])
        BY DEF SeqAgrees, InOrder, Contiguous, End
    <1>0. \A f \in Flows : FlowAgrees(f) /\ Contiguous(delivered[f])
        BY DEF SeqAgrees, InOrder, Contiguous
    <1>a. \A f \in Flows : wire[f] \subseteq Segments
        BY WireType
    <1>1. ASSUME NEW f \in Flows, NEW s \in Segments, Push(f, s)
          PROVE  FlowAgrees(g)' /\ Contiguous(delivered'[g])
        <2>1. CASE g # f
            <3>1. /\ started'[g] = started[g] /\ nextSeq'[g] = nextSeq[g]
                  /\ delivered'[g] = delivered[g] /\ buffered'[g] = buffered[g]
                  /\ draining' # g \/ draining = g
                BY <1>1, <2>1 DEF Push, Drop, Hold, Accept, Emit, TypeOK
            <3> QED
                BY <3>1, <1>0, FrameAgrees
        <2>2. CASE g = f /\ Drop(f, s)
            <3>1. started[f]
                BY <2>2, NotAheadOfItself DEF Drop, AlreadyRead, Expected
            <3>2. /\ started'[g] = started[g] /\ nextSeq'[g] = nextSeq[g]
                  /\ delivered'[g] = delivered[g] /\ buffered'[g] = buffered[g]
                  /\ draining' # g \/ draining = g
                BY <1>1, <2>2, <3>1 DEF Push, Drop, TypeOK
            <3> QED
                BY <3>2, <1>0, FrameAgrees
        <2>3. CASE g = f /\ Hold(f, s)
            <3>1. started[f] /\ started'[f]
                BY <1>1, <2>3 DEF Push, Hold, Expected
            <3>2. SeqOf(f, s.off) \in SeqNums
                BY SegmentsType, SeqOfType
            <3>3. \A q \in SeqNums : \/ buffered'[f][q] = buffered[f][q]
                                     \/ q = SeqOf(f, s.off) /\ buffered'[f][q] = s
                BY <2>3, <3>2 DEF Hold
            <3>4. /\ nextSeq'[f] = nextSeq[f] /\ delivered'[f] = delivered[f]
                  /\ draining' = None
                BY <1>1, <2>3 DEF Hold, Push
            <3>5. g = f /\ draining' # f
                BY <2>3, <3>4, NoneAssumption
            <3>6. FlowAgrees(g)'
                BY <3>1, <3>3, <3>4, <3>5, <1>0 DEF FlowAgrees, NextOff, End, SeqOf
            <3>7. Contiguous(delivered'[g])
                BY <3>4, <3>5, <1>0 DEF Contiguous
            <3> QED
                BY <3>6, <3>7
        <2>4. CASE g = f /\ Accept(f, s)
            <3> DEFINE p == [off |-> s.off + AlreadyRead(f, s),
                             len |-> s.len - AlreadyRead(f, s)]
            <3>1. /\ p \in Pieces
                  /\ Expected(f, s) \in SeqNums /\ Expected(f, s) = SeqOf(f, p.off)
                  /\ delivered[f] # <<>> => p.off = NextOff(f)
                  /\ End(p) < SeqMod
                BY <2>4, <1>0, AcceptedPiece DEF Accept
            <3>2. Emit(f, Expected(f, s), p)
                BY <2>4 DEF Accept, Rest
            <3> HIDE DEF p
            <3>3. /\ Contiguous(delivered'[f])
                  /\ delivered'[f] # <<>>
                  /\ NextOff(f)' < SeqMod
                  /\ nextSeq'[f] = SeqOf(f, NextOff(f)')
                BY <3>1, <3>2, <1>0, EmitAgrees
            <3>4. started'[f] /\ buffered' = buffered
                BY <1>1, <2>4 DEF Push, Accept, TypeOK
            <3>5. \A q \in SeqNums : buffered'[f][q] # None =>
                    /\ buffered'[f][q] \in Segments
                    /\ q = SeqOf(f, buffered'[f][q].off)
                BY <3>4, <1>0 DEF FlowAgrees
            <3>6. FlowAgrees(f)'
                BY <3>3, <3>4, <3>5 DEF FlowAgrees, SeqOf
            <3> QED
                BY <2>4, <3>3, <3>6
        <2> QED
            BY <1>1, <2>1, <2>2, <2>3, <2>4 DEF Push
    <1>2. ASSUME NEW f \in Flows, DrainStep(f)
          PROVE  FlowAgrees(g)' /\ Contiguous(delivered'[g])
        <2>1. CASE g # f
            <3>1. /\ started'[g] = started[g] /\ nextSeq'[g] = nextSeq[g]
                  /\ delivered'[g] = delivered[g] /\ buffered'[g] = buffered[g]
                  /\ draining' # g \/ draining = g
                BY <1>2, <2>1 DEF DrainStep, Emit
            <3> QED
                BY <3>1, <1>0, FrameAgrees
        <2>2. CASE g = f
            <3> DEFINE p == buffered[f][nextSeq[f]]
            <3>1. nextSeq[f] \in SeqNums /\ p # None /\ p \in Pieces /\ started[f]
                BY <1>2, <1>0 DEF DrainStep, FlowAgrees, TypeOK
            <3>2. p \in Segments /\ nextSeq[f] = SeqOf(f, p.off)
                BY <3>1, <1>0 DEF FlowAgrees
            <3>3. /\ delivered[f] # <<>> /\ nextSeq[f] = SeqOf(f, NextOff(f))
                  /\ NextOff(f) < SeqMod
                BY <3>1, <1>0 DEF FlowAgrees
            <3>4. End(p) < SeqMod /\ p.off \in 0 .. SeqMod - 1
                BY <3>1, <3>2, SeqModPositive DEF ShortStreams, End, Pieces
            <3>5. NextOff(f) \in 0 .. SeqMod - 1
                BY <3>3, NextOffType, SeqModPositive
            <3>6. p.off = NextOff(f)
                BY <3>2, <3>3, <3>4, <3>5, SeqInjective
            <3>7. Emit(f, nextSeq[f], p)
                BY <1>2 DEF DrainStep
            <3>8. \A q \in SeqNums : buffered'[f][q] # None => buffered'[f][q] = buffered[f][q]
                BY <1>2 DEF DrainStep
            <3>9. started'[f] /\ draining' = draining
                BY <1>2, <3>1 DEF DrainStep
            <3> HIDE DEF p
            <3>10. /\ Contiguous(delivered'[f])
                   /\ delivered'[f] # <<>>
                   /\ NextOff(f)' < SeqMod
                   /\ nextSeq'[f] = SeqOf(f, NextOff(f)')
                BY <3>1, <3>2, <3>4, <3>6, <3>7, <1>0, EmitAgrees
            <3> QED
                BY <2>2, <3>8, <3>9, <3>10, <1>0 DEF FlowAgrees, SeqOf
        <2> QED
            BY <2>1, <2>2
    <1>3. ASSUME NEW f \in Flows, DrainEnd(f)
          PROVE  FlowAgrees(g)' /\ Contiguous(delivered'[g])
        <2>1. /\ started'[g] = started[g] /\ nextSeq'[g] = nextSeq[g]
              /\ delivered'[g] = delivered[g] /\ buffered'[g] = buffered[g]
              /\ draining' # g
            BY <1>3, NoneAssumption DEF DrainEnd
        <2> QED
            BY <2>1, <1>0, FrameAgrees
    <1> QED
        BY <1>a, <1>1, <1>2, <1>3 DEF Next, Drain

\* A step keeps the types, the numbers and the order.
LEMMA OrderStep ==
    ASSUME ShortStreams, TypeOK, SeqAgrees, InOrder, [Next]_vars
    PROVE  TypeOK' /\ SeqAgrees' /\ InOrder'
    <1>1. TypeOK'
        BY TypeStep
    <1>2. CASE Next
        BY <1>1, <1>2, AgreesStep
    <1>3. CASE UNCHANGED vars
        BY <1>1, <1>3 DEF vars, SeqAgrees, FlowAgrees, InOrder, NextOff, End, SeqOf
    <1> QED
        BY <1>2, <1>3

LEMMA OrderHolds == ASSUME ShortStreams PROVE Spec => [](SeqAgrees /\ InOrder)
    <1> DEFINE Inv == TypeOK /\ SeqAgrees /\ InOrder
    <1>1. Init => Inv
        BY TypeInit, AgreesInit
    <1>2. Inv /\ [Next]_vars => Inv'
        BY OrderStep
    <1> QED
        BY <1>1, <1>2, PTL DEF Spec

\* With streams shorter than the sequence number space, the 32-bit state of
\* every flow agrees with the stream its sender wrote.
THEOREM NumbersAgree == ASSUME ShortStreams PROVE Spec => []SeqAgrees
    BY OrderHolds, PTL

\* ... and the chunks of every flow are contiguous in that stream.
THEOREM OrderCorrect == ASSUME ShortStreams PROVE Spec => []InOrder
    BY OrderHolds, PTL

-----------------------------------------------------------------------------
(* Completeness: what was captured is handed on or waits, and nothing waits *)
(* that could be handed on, when streams are shorter than half the space   *)
(* and repeated as they were first cut.                                    *)

\* In half the space the comparison of sequence numbers is that of offsets.
LEMMA HalfCompare ==
    ASSUME NEW f \in Flows, NEW o \in Nat, NEW n \in Nat, 2 * o < SeqMod, 2 * n <= SeqMod
    PROVE  /\ SeqBefore(SeqOf(f, o), SeqOf(f, n)) <=> o < n
           /\ o < n => SeqDistance(SeqOf(f, o), SeqOf(f, n)) = n - o
    <1>1. SeqBefore(SeqOf(f, o), SeqOf(f, n)) <=> (o - n) % SeqMod >= SeqMod \div 2
        <2>1. (SeqOf(f, o) - SeqOf(f, n)) % SeqMod = (o - n) % SeqMod
            BY SeqDifference
        <2> QED
            BY <2>1 DEF SeqBefore
    <1>2. SeqDistance(SeqOf(f, o), SeqOf(f, n)) = (n - o) % SeqMod
        BY SeqDifference DEF SeqDistance
    <1>3. CASE o < n
        <2>1. n - o \in Int /\ 0 <= n - o /\ n - o < SeqMod
            BY <1>3, SeqModPositive
        <2>2. o - n \in Int /\ -SeqMod <= o - n /\ o - n < 0
            BY <1>3, SeqModPositive
        <2>3. (n - o) % SeqMod = n - o
            BY <2>1, SeqModPositive, ModSmall
        <2>4. (o - n) % SeqMod = o - n + SeqMod
            BY <2>2, SeqModPositive, ModSmall
        <2> QED
            BY <1>1, <1>2, <1>3, <2>3, <2>4, SeqModPositive
    <1>4. CASE o >= n
        <2>1. o - n \in Int /\ 0 <= o - n /\ o - n < SeqMod
            BY <1>4, SeqModPositive
        <2>2. (o - n) % SeqMod = o - n
            BY <2>1, SeqModPositive, ModSmall
        <2> QED
            BY <1>1, <1>4, <2>2, SeqModPositive
    <1> QED
        BY <1>3, <1>4

\* What was handed on is one run of bytes, up to the end of a segment.
HandedOn(f) ==
    /\ FirstOff(f) \in Nat /\ FirstOff(f) <= NextOff(f)
    /\ DeliveredBytes(f) = FirstOff(f) .. NextOff(f) - 1
    /\ \E s \in wire[f] : NextOff(f) = End(s)

\* What waits lies beyond the byte waited for, or at it during a drain.
Ahead(f) ==
    \A q \in SeqNums : buffered[f][q] # None =>
        /\ NextOff(f) <= buffered[f][q].off
        /\ draining # f => NextOff(f) # buffered[f][q].off

Kept(f) ==
    \A o \in captured[f] : o >= FirstOff(f) => o \in DeliveredBytes(f) \cup BufferedBytes(f)

Recovers(f) ==
    /\ captured[f] # {} => started[f]
    /\ \A q \in SeqNums : buffered[f][q] # None => buffered[f][q] \in wire[f]
    /\ started[f] => HandedOn(f)
    /\ started[f] /\ Aligned(f) /\ Half(f) => Ahead(f) /\ Kept(f)

LEMMA RecoversInit == ASSUME Init, NEW f \in Flows PROVE Recovers(f)
    <1>1. captured[f] = {} /\ ~started[f] /\ \A q \in SeqNums : buffered[f][q] = None
        BY DEF Init
    <1> QED
        BY <1>1 DEF Recovers

\* The two ends of a sequence and the bytes of it, after an Append.
LEMMA AppendBytes ==
    ASSUME NEW d \in Seq(Pieces), NEW p \in Pieces
    PROVE  LET e == Append(d, p) IN
           /\ e[Len(e)] = p
           /\ e[1] = IF d = <<>> THEN p ELSE d[1]
           /\ UNION {Bytes(e[i]) : i \in DOMAIN e}
                = (UNION {Bytes(d[i]) : i \in DOMAIN d}) \cup Bytes(p)
    <1> DEFINE e == Append(d, p)
    <1>1. /\ e \in Seq(Pieces) /\ Len(e) = Len(d) + 1 /\ e[Len(d) + 1] = p /\ Len(d) \in Nat
          /\ \A i \in 1 .. Len(d) : e[i] = d[i]
          /\ DOMAIN e = 1 .. Len(d) + 1 /\ DOMAIN d = 1 .. Len(d)
        OBVIOUS
    <1> HIDE DEF e
    <1>2. e[1] = IF d = <<>> THEN p ELSE d[1]
        <2>1. CASE d = <<>>
            BY <1>1, <2>1
        <2>2. CASE d # <<>>
            <3>1. 1 \in 1 .. Len(d)
                BY <2>2, <1>1
            <3> QED
                BY <1>1, <2>2, <3>1
        <2> QED
            BY <2>1, <2>2
    <1>3. DOMAIN e = DOMAIN d \cup {Len(d) + 1} /\ \A i \in DOMAIN d : e[i] = d[i]
        BY <1>1
    <1>4. UNION {Bytes(e[i]) : i \in DOMAIN e} = (UNION {Bytes(d[i]) : i \in DOMAIN d}) \cup Bytes(p)
        BY <1>1, <1>3
    <1> QED
        BY <1>1, <1>2, <1>4 DEF e

\* A piece that ends where a segment does and begins at the byte waited for
\* keeps what is handed on one run of bytes.
LEMMA EmitHandsOn ==
    ASSUME TypeOK, NEW f \in Flows, NEW from, NEW p \in Pieces, Emit(f, from, p),
           delivered[f] # <<>> => HandedOn(f) /\ p.off = NextOff(f),
           wire' = wire, NEW s \in wire[f], End(p) = End(s)
    PROVE  /\ HandedOn(f)' /\ NextOff(f)' = End(p)
           /\ DeliveredBytes(f)' = DeliveredBytes(f) \cup Bytes(p)
           /\ FirstOff(f)' = IF delivered[f] = <<>> THEN p.off ELSE FirstOff(f)
    <1>1. delivered'[f] = Append(delivered[f], p) /\ delivered[f] \in Seq(Pieces)
        BY DEF Emit, TypeOK
    <1>2. /\ NextOff(f)' = End(p)
          /\ FirstOff(f)' = IF delivered[f] = <<>> THEN p.off ELSE FirstOff(f)
          /\ DeliveredBytes(f)' = DeliveredBytes(f) \cup Bytes(p)
        <2> DEFINE d == delivered[f]
                   e == Append(d, p)
        <2>1. /\ e[Len(e)] = p
              /\ e[1] = IF d = <<>> THEN p ELSE d[1]
              /\ UNION {Bytes(e[i]) : i \in DOMAIN e}
                   = (UNION {Bytes(d[i]) : i \in DOMAIN d}) \cup Bytes(p)
            BY <1>1, AppendBytes
        <2>2. /\ NextOff(f)' = End(e[Len(e)]) /\ FirstOff(f)' = e[1].off
              /\ DeliveredBytes(f)' = UNION {Bytes(e[i]) : i \in DOMAIN e}
            BY <1>1 DEF NextOff, FirstOff, DeliveredBytes, Bytes, End
        <2>3. FirstOff(f) = d[1].off /\ DeliveredBytes(f) = UNION {Bytes(d[i]) : i \in DOMAIN d}
            BY DEF FirstOff, DeliveredBytes
        <2> HIDE DEF e
        <2> QED
            BY <2>1, <2>2, <2>3
    <1>3. p.off \in Nat /\ p.len \in Nat \ {0} /\ End(p) = p.off + p.len
        BY DEF Pieces, End
    <1>4. CASE delivered[f] = <<>>
        <2>1. DeliveredBytes(f) = {}
            BY <1>4 DEF DeliveredBytes
        <2>2. DeliveredBytes(f)' = FirstOff(f)' .. NextOff(f)' - 1
            BY <1>2, <1>4, <2>1 DEF Bytes
        <2> QED
            BY <1>2, <1>3, <1>4, <2>2 DEF HandedOn, End
    <1>5. CASE delivered[f] # <<>>
        <2>1. FirstOff(f) \in Nat /\ FirstOff(f) <= p.off
            BY <1>5 DEF HandedOn
        <2>2. DeliveredBytes(f) = FirstOff(f) .. p.off - 1
            BY <1>5 DEF HandedOn
        <2>3. DeliveredBytes(f)' = FirstOff(f)' .. NextOff(f)' - 1
            BY <1>2, <1>3, <1>5, <2>1, <2>2 DEF Bytes
        <2> QED
            BY <1>2, <1>3, <1>5, <2>1, <2>3 DEF HandedOn, End
    <1> QED
        BY <1>4, <1>5, <1>2

\* The buffered piece that the drain loop finds is the one at the byte the flow
\* waits for.
LEMMA DrainedPiece ==
    ASSUME ShortStreams, TypeOK, NEW f \in Flows, FlowAgrees(f),
           NEW q \in SeqNums, buffered[f][q] # None
    PROVE  /\ buffered[f][q] \in Pieces /\ delivered[f] # <<>>
           /\ q = nextSeq[f] <=> buffered[f][q].off = NextOff(f)
    <1> DEFINE p == buffered[f][q]
    <1>1. p \in Segments /\ p \in Pieces /\ started[f] /\ q = SeqOf(f, p.off)
        BY DEF FlowAgrees, TypeOK
    <1>2. delivered[f] # <<>> /\ nextSeq[f] = SeqOf(f, NextOff(f)) /\ NextOff(f) < SeqMod
        BY <1>1 DEF FlowAgrees
    <1>3. End(p) < SeqMod /\ p.off \in 0 .. SeqMod - 1
        BY <1>1, SeqModPositive DEF ShortStreams, End, Pieces
    <1>4. NextOff(f) \in 0 .. SeqMod - 1
        BY <1>2, NextOffType, SeqModPositive
    <1> HIDE DEF p
    <1>5. SeqOf(f, p.off) = SeqOf(f, NextOff(f)) => p.off = NextOff(f)
        BY <1>3, <1>4, SeqInjective
    <1> QED
        BY <1>1, <1>2, <1>5 DEF p

\* A flow that is neither pushed to nor drained.
LEMMA RecoversKept ==
    ASSUME NEW g \in Flows, Recovers(g),
           started'[g] = started[g], buffered'[g] = buffered[g], captured'[g] = captured[g],
           delivered'[g] = delivered[g], wire' = wire,
           (draining' = g) <=> (draining = g)
    PROVE  Recovers(g)'
    BY DEF Recovers, HandedOn, Ahead, Kept, Aligned, Half, NextOff, FirstOff, DeliveredBytes,
           BufferedBytes, Bytes, End

\* A segment that begins behind a byte of another one begins behind its end.
LEMMA AlignedAfter ==
    ASSUME TypeOK, NEW f \in Flows, Aligned(f), NEW s \in wire[f], NEW t \in wire[f],
           NEW n \in Nat, s.off <= n, n < End(s), n <= t.off, n # t.off
    PROVE  End(s) <= t.off
    <1>1. /\ s.off \in Nat /\ t.off \in Nat /\ s.len \in Nat \ {0} /\ t.len \in Nat \ {0}
          /\ End(s) = s.off + s.len /\ End(t) = t.off + t.len
        BY WireType, SegmentsType DEF End
    <1>2. End(s) <= t.off \/ End(t) <= s.off
        BY <1>1 DEF Aligned
    <1> QED
        BY <1>1, <1>2

LEMMA RecoversDrop ==
    ASSUME ShortStreams, TypeOK, NEW f \in Flows, FlowAgrees(f), Recovers(f), started[f],
           NEW s \in wire[f], Push(f, s), Drop(f, s)
    PROVE  Recovers(f)'
    <1>1. /\ UNCHANGED <<buffered, delivered, wire>> /\ draining = None /\ draining' = None
          /\ captured'[f] = captured[f] \cup Bytes(s) /\ started'[f]
        BY DEF Push, Drop, TypeOK
    <1>2. /\ s \in Segments /\ s.off \in Nat /\ s.len \in Nat \ {0} /\ End(s) = s.off + s.len
        BY WireType, SegmentsType DEF End
    <1>3. HandedOn(f) /\ NextOff(f) \in Nat /\ draining # f
        BY <1>1, NextOffType, NoneAssumption DEF Recovers, FlowAgrees
    <1>4. ASSUME Half(f) PROVE End(s) <= NextOff(f)
        <2>1. 2 * End(s) <= SeqMod /\ 2 * s.off < SeqMod
            BY <1>2, <1>4, SeqModPositive DEF Half
        <2>2. 2 * NextOff(f) <= SeqMod
            BY <1>3, <1>4 DEF HandedOn, Half
        <2>3. Expected(f, s) = SeqOf(f, NextOff(f))
            BY DEF Expected, FlowAgrees
        <2>4. s.off < NextOff(f) => AlreadyRead(f, s) = NextOff(f) - s.off
            BY <1>2, <1>3, <2>1, <2>2, <2>3, HalfCompare DEF AlreadyRead
        <2>5. ~(s.off < NextOff(f)) => AlreadyRead(f, s) = 0
            BY <1>2, <1>3, <2>1, <2>2, <2>3, HalfCompare DEF AlreadyRead
        <2> QED
            BY <1>2, <1>3, <2>4, <2>5 DEF Drop
    <1>5. ASSUME Aligned(f), Half(f), Ahead(f), Kept(f) PROVE Kept(f)'
        <2>1. \A o \in Bytes(s) : o >= FirstOff(f) => o \in DeliveredBytes(f)
            BY <1>2, <1>3, <1>4, <1>5 DEF HandedOn, Bytes
        <2>2. \A o \in captured'[f] : o >= FirstOff(f) => o \in DeliveredBytes(f) \cup BufferedBytes(f)
            BY <1>1, <1>5, <2>1 DEF Kept
        <2> QED
            BY <1>1, <2>2 DEF Kept, FirstOff, DeliveredBytes, BufferedBytes, Bytes, End
    <1>6. HandedOn(f)' /\ (Ahead(f) => Ahead(f)')
        BY <1>1, <1>3, NoneAssumption DEF HandedOn, Ahead, NextOff, FirstOff, DeliveredBytes, Bytes, End
    <1>7. Aligned(f)' = Aligned(f) /\ Half(f)' = Half(f)
        BY <1>1 DEF Aligned, Half, End
    <1> QED
        BY <1>1, <1>5, <1>6, <1>7 DEF Recovers

LEMMA RecoversHold ==
    ASSUME ShortStreams, TypeOK, NEW f \in Flows, FlowAgrees(f), Recovers(f), started[f],
           NEW s \in wire[f], Push(f, s), Hold(f, s)
    PROVE  Recovers(f)'
    <1> DEFINE k == SeqOf(f, s.off)
    <1>1. /\ UNCHANGED <<delivered, wire>> /\ draining = None /\ draining' = None
          /\ captured'[f] = captured[f] \cup Bytes(s) /\ started'[f]
        BY DEF Push, Hold, TypeOK
    <1>2. /\ s \in Segments /\ s.off \in Nat /\ s.len \in Nat \ {0} /\ End(s) = s.off + s.len
          /\ k \in SeqNums /\ s # None /\ End(s) < SeqMod
        <2>1. s \in Segments
            BY WireType
        <2>2. s \in [off : Nat, len : Nat \ {0}]
            BY <2>1, SegmentsType
        <2> QED
            BY <2>1, <2>2, SeqOfType, NoneAssumption DEF End, ShortStreams
    <1>3. HandedOn(f) /\ NextOff(f) \in Nat /\ draining # f /\ delivered[f] # <<>>
        BY <1>1, NextOffType, NoneAssumption DEF Recovers, FlowAgrees
    <1>4. buffered'[f] = IF buffered[f][k] = None THEN [buffered[f] EXCEPT ![k] = s] ELSE buffered[f]
        BY <1>2 DEF Hold, TypeOK
    <1>5. \A q \in SeqNums : \/ buffered'[f][q] = buffered[f][q]
                             \/ q = k /\ buffered[f][k] = None /\ buffered'[f][q] = s
        BY <1>2, <1>4 DEF TypeOK
    <1>6. \A q \in SeqNums : buffered[f][q] # None => buffered'[f][q] = buffered[f][q]
        BY <1>5
    <1>7. \A q \in SeqNums : buffered'[f][q] # None => buffered'[f][q] \in wire[f]
        BY <1>5 DEF Recovers
    <1>8. ASSUME Half(f) PROVE NextOff(f) < s.off
        <2>1. 2 * End(s) <= SeqMod /\ 2 * s.off < SeqMod
            BY <1>2, <1>8, SeqModPositive DEF Half
        <2>2. 2 * NextOff(f) <= SeqMod
            BY <1>3, <1>8 DEF HandedOn, Half
        <2>3. Expected(f, s) = SeqOf(f, NextOff(f))
            BY DEF Expected, FlowAgrees
        <2>4. s.off < NextOff(f) => AlreadyRead(f, s) = NextOff(f) - s.off
            BY <1>2, <1>3, <2>1, <2>2, <2>3, HalfCompare DEF AlreadyRead
        <2>5. s.off # NextOff(f)
            BY <2>3 DEF Hold
        <2> QED
            BY <1>2, <1>3, <2>4, <2>5 DEF Hold
    <1>9. ASSUME Aligned(f), Half(f), Ahead(f) PROVE Ahead(f)'
        <2>1. \A q \in SeqNums : buffered'[f][q] # None =>
                 NextOff(f) <= buffered'[f][q].off /\ NextOff(f) # buffered'[f][q].off
            BY <1>2, <1>3, <1>5, <1>8, <1>9 DEF Ahead
        <2> QED
            BY <1>1, <2>1 DEF Ahead, NextOff, End
    <1>10. ASSUME Aligned(f) PROVE buffered'[f][k] = s
        <2>1. CASE buffered[f][k] = None
            BY <1>2, <1>4, <2>1 DEF TypeOK
        <2>2. CASE buffered[f][k] # None
            <3> DEFINE t == buffered[f][k]
            <3>1. t \in wire[f] /\ t \in Segments /\ k = SeqOf(f, t.off)
                BY <1>2, <2>2 DEF Recovers, FlowAgrees
            <3>2. t.off \in Nat /\ t.len \in Nat \ {0} /\ End(t) = t.off + t.len /\ End(t) < SeqMod
                BY <3>1, SegmentsType DEF End, ShortStreams
            <3> HIDE DEF t
            <3>3. t.off = s.off
                BY <1>2, <3>1, <3>2, SeqInjective, SeqModPositive
            <3>4. t = s
                BY <1>2, <1>10, <3>1, <3>2, <3>3 DEF Aligned
            <3> QED
                BY <1>2, <1>6, <2>2, <3>4 DEF t
        <2> QED
            BY <2>1, <2>2
    <1>11. ASSUME Aligned(f), Half(f), Kept(f) PROVE Kept(f)'
        <2>1. BufferedBytes(f) \subseteq BufferedBytes(f)'
            <3> SUFFICES ASSUME NEW q \in SeqNums, buffered[f][q] # None, NEW o \in Bytes(buffered[f][q])
                         PROVE  o \in BufferedBytes(f)'
                BY DEF BufferedBytes
            <3>1. buffered'[f][q] # None /\ o \in Bytes(buffered'[f][q])
                BY <1>6
            <3> QED
                BY <3>1 DEF BufferedBytes, Bytes, End
        <2>2. Bytes(s) \subseteq BufferedBytes(f)'
            BY <1>2, <1>10, <1>11 DEF BufferedBytes, Bytes, End
        <2>3. \A o \in captured'[f] : o >= FirstOff(f) => o \in DeliveredBytes(f) \cup BufferedBytes(f)'
            BY <1>1, <1>11, <2>1, <2>2 DEF Kept
        <2> QED
            BY <1>1, <2>3 DEF Kept, FirstOff, DeliveredBytes, Bytes, End
    <1>12. HandedOn(f)'
        BY <1>1, <1>3 DEF HandedOn, NextOff, FirstOff, DeliveredBytes, Bytes, End
    <1>13. Aligned(f)' = Aligned(f) /\ Half(f)' = Half(f)
        BY <1>1 DEF Aligned, Half, End
    <1> QED
        BY <1>1, <1>7, <1>9, <1>11, <1>12, <1>13 DEF Recovers

LEMMA RecoversAccept ==
    ASSUME ShortStreams, TypeOK, NEW f \in Flows, FlowAgrees(f), Recovers(f),
           NEW s \in wire[f], Push(f, s), Accept(f, s)
    PROVE  Recovers(f)'
    <1> DEFINE p == Rest(f, s)
    <1>1. /\ UNCHANGED <<buffered, wire>> /\ draining = None /\ draining' = f
          /\ captured'[f] = captured[f] \cup Bytes(s) /\ started'[f]
          /\ Emit(f, Expected(f, s), p)
        BY DEF Push, Accept, TypeOK
    <1>2. /\ s \in Segments /\ s.off \in Nat /\ s.len \in Nat \ {0} /\ End(s) = s.off + s.len
        BY WireType, SegmentsType DEF End
    <1>3. /\ p \in Pieces /\ End(p) = End(s) /\ s.off <= p.off
          /\ delivered[f] # <<>> => p.off = NextOff(f)
        BY <1>2, AcceptedPiece DEF Accept, Rest
    <1>4. p.off \in Nat /\ p.off < End(p) /\ Bytes(p) = p.off .. End(s) - 1
        BY <1>3 DEF Pieces, End, Bytes
    <1>5. delivered[f] # <<>> <=> started[f]
        BY DEF FlowAgrees
    <1>6. delivered[f] # <<>> => HandedOn(f)
        BY <1>5 DEF Recovers
    <1> HIDE DEF p
    <1>7. /\ HandedOn(f)' /\ NextOff(f)' = End(s)
          /\ DeliveredBytes(f)' = DeliveredBytes(f) \cup Bytes(p)
          /\ FirstOff(f)' = IF delivered[f] = <<>> THEN p.off ELSE FirstOff(f)
        BY <1>1, <1>3, <1>6, EmitHandsOn
    <1>8. ASSUME Aligned(f), Half(f), started[f] => Ahead(f) PROVE Ahead(f)'
        <2> SUFFICES ASSUME NEW q \in SeqNums, buffered[f][q] # None
                     PROVE  End(s) <= buffered[f][q].off
            BY <1>1, <1>7 DEF Ahead
        <2> DEFINE t == buffered[f][q]
        <2>1. started[f] /\ t \in wire[f]
            BY DEF FlowAgrees, Recovers
        <2>2. p.off <= t.off /\ p.off # t.off
            BY <1>1, <1>3, <1>5, <1>8, <2>1, NoneAssumption DEF Ahead
        <2>3. t.off \in Nat
            BY <2>1, WireType, SegmentsType
        <2> HIDE DEF t
        <2>4. End(s) <= t.off
            BY <1>3, <1>4, <1>8, <2>1, <2>2, <2>3, AlignedAfter
        <2> QED
            BY <2>4 DEF t
    <1>9. ASSUME started[f] => Kept(f) PROVE Kept(f)'
        <2>1. \A o \in Bytes(s) : o >= FirstOff(f)' => o \in DeliveredBytes(f)'
            <3> SUFFICES ASSUME NEW o \in Bytes(s), o >= FirstOff(f)'
                         PROVE  o \in DeliveredBytes(f)'
                OBVIOUS
            <3>1. o \in Nat /\ o < End(s)
                BY <1>2 DEF Bytes
            <3>2. FirstOff(f)' \in Nat /\ DeliveredBytes(f)' = FirstOff(f)' .. NextOff(f)' - 1
                BY <1>7 DEF HandedOn
            <3>3. o < NextOff(f)' /\ NextOff(f)' \in Nat
                BY <1>2, <1>7, <3>1
            <3> QED
                BY <3>1, <3>2, <3>3
        <2>2. \A o \in captured[f] :
                 o >= FirstOff(f)' => o \in DeliveredBytes(f)' \cup BufferedBytes(f)
            BY <1>5, <1>7, <1>9 DEF Kept, Recovers
        <2>3. BufferedBytes(f)' = BufferedBytes(f)
            BY <1>1 DEF BufferedBytes, Bytes, End
        <2> QED
            BY <1>1, <2>1, <2>2, <2>3 DEF Kept
    <1>10. Aligned(f)' = Aligned(f) /\ Half(f)' = Half(f)
        BY <1>1 DEF Aligned, Half, End
    <1> QED
        BY <1>1, <1>7, <1>8, <1>9, <1>10 DEF Recovers

LEMMA RecoversDrainStep ==
    ASSUME ShortStreams, TypeOK, NEW f \in Flows, FlowAgrees(f), Recovers(f), DrainStep(f)
    PROVE  Recovers(f)'
    <1> DEFINE k == nextSeq[f]
               p == buffered[f][k]
    <1>1. /\ k \in SeqNums /\ p # None /\ Emit(f, k, p) /\ UNCHANGED wire
          /\ draining = f /\ draining' = f /\ captured'[f] = captured[f] /\ started'[f] = started[f]
        BY DEF DrainStep, TypeOK
    <1>2. /\ p \in Pieces /\ p.off = NextOff(f) /\ delivered[f] # <<>>
        BY <1>1, DrainedPiece
    <1>3. started[f] /\ HandedOn(f) /\ p \in wire[f]
        BY <1>1 DEF FlowAgrees, Recovers
    <1>4. \A q \in SeqNums : buffered'[f][q] = IF q = k THEN None ELSE buffered[f][q]
        BY <1>1 DEF DrainStep, TypeOK
    <1>5. p.off \in Nat /\ p.off < End(p)
        BY <1>2 DEF Pieces, End
    <1>6. \A q \in SeqNums : buffered[f][q] # None => (q = k <=> buffered[f][q].off = NextOff(f))
        BY DrainedPiece
    <1> HIDE DEF k, p
    <1>7. /\ HandedOn(f)' /\ NextOff(f)' = End(p)
          /\ DeliveredBytes(f)' = DeliveredBytes(f) \cup Bytes(p)
          /\ FirstOff(f)' = FirstOff(f)
        BY <1>1, <1>2, <1>3, EmitHandsOn
    <1>8. ASSUME Aligned(f), Ahead(f) PROVE Ahead(f)'
        <2> SUFFICES ASSUME NEW q \in SeqNums, buffered'[f][q] # None
                     PROVE  End(p) <= buffered'[f][q].off
            BY <1>1, <1>7 DEF Ahead
        <2>1. q # k /\ buffered'[f][q] = buffered[f][q] /\ buffered[f][q] # None
            BY <1>4
        <2> DEFINE t == buffered[f][q]
        <2>2. t \in wire[f] /\ t.off \in Nat
            BY <2>1, WireType, SegmentsType DEF Recovers
        <2>3. p.off <= t.off /\ p.off # t.off
            BY <1>2, <1>6, <1>8, <2>1 DEF Ahead
        <2> HIDE DEF t
        <2>4. End(p) <= t.off
            BY <1>3, <1>5, <1>8, <2>2, <2>3, AlignedAfter
        <2> QED
            BY <2>1, <2>4 DEF t
    <1>9. ASSUME Kept(f) PROVE Kept(f)'
        <2>1. BufferedBytes(f) \subseteq BufferedBytes(f)' \cup Bytes(p)
            <3> SUFFICES ASSUME NEW q \in SeqNums, buffered[f][q] # None, NEW o \in Bytes(buffered[f][q])
                         PROVE  o \in BufferedBytes(f)' \cup Bytes(p)
                BY DEF BufferedBytes
            <3>1. CASE q = k
                BY <3>1 DEF p
            <3>2. CASE q # k
                <4>1. buffered'[f][q] # None /\ o \in Bytes(buffered'[f][q])
                    BY <1>4, <3>2
                <4> QED
                    BY <4>1 DEF BufferedBytes, Bytes, End
            <3> QED
                BY <3>1, <3>2
        <2> QED
            BY <1>1, <1>7, <1>9, <2>1 DEF Kept
    <1>10. \A q \in SeqNums : buffered'[f][q] # None => buffered'[f][q] \in wire[f]
        BY <1>4 DEF Recovers
    <1>11. Aligned(f)' = Aligned(f) /\ Half(f)' = Half(f)
        BY <1>1 DEF Aligned, Half, End
    <1> QED
        BY <1>1, <1>3, <1>7, <1>8, <1>9, <1>10, <1>11 DEF Recovers

\* The drain ends when no piece waits at the byte the flow waits for.
LEMMA RecoversDrainEnd ==
    ASSUME ShortStreams, TypeOK, NEW f \in Flows, FlowAgrees(f), Recovers(f), DrainEnd(f)
    PROVE  Recovers(f)'
    <1>1. /\ UNCHANGED <<started, buffered, delivered, captured, wire>>
          /\ buffered[f][nextSeq[f]] = None
        BY DEF DrainEnd
    <1>2. ASSUME Ahead(f) PROVE Ahead(f)'
        <2>1. \A q \in SeqNums : buffered[f][q] # None => buffered[f][q].off # NextOff(f)
            BY <1>1, DrainedPiece
        <2> QED
            BY <1>1, <1>2, <2>1 DEF Ahead, NextOff, End
    <1> QED
        BY <1>1, <1>2 DEF Recovers, HandedOn, Kept, Aligned, Half, NextOff, FirstOff,
                          DeliveredBytes, BufferedBytes, Bytes, End

\* A step keeps every flow recoverable.
LEMMA RecoversStep ==
    ASSUME ShortStreams, TypeOK, SeqAgrees, Next, \A f \in Flows : Recovers(f), NEW g \in Flows
    PROVE  Recovers(g)'
    <1>0. FlowAgrees(g) /\ wire[g] \subseteq Segments
        BY WireType DEF SeqAgrees
    <1>1. ASSUME NEW f \in Flows, (\E s \in wire[f] : Push(f, s)) \/ Drain(f), g # f
          PROVE  Recovers(g)'
        <2>1. /\ started'[g] = started[g] /\ buffered'[g] = buffered[g] /\ captured'[g] = captured[g]
              /\ delivered'[g] = delivered[g] /\ wire' = wire
              /\ (draining' = g) <=> (draining = g)
            BY <1>1, NoneAssumption
               DEF Push, Drop, Hold, Accept, Drain, DrainStep, DrainEnd, Emit, TypeOK
        <2> QED
            BY <2>1, RecoversKept
    <1>2. ASSUME NEW s \in wire[g], Push(g, s), Drop(g, s) \/ Hold(g, s) PROVE Recovers(g)'
        <2>1. started[g]
            BY <1>0, <1>2, NotAheadOfItself DEF Drop, Hold, AlreadyRead, Expected
        <2> QED
            BY <1>0, <1>2, <2>1, RecoversDrop, RecoversHold
    <1>3. ASSUME NEW s \in wire[g], Push(g, s), Accept(g, s) PROVE Recovers(g)'
        BY <1>0, <1>3, RecoversAccept
    <1>4. ASSUME Drain(g) PROVE Recovers(g)'
        BY <1>0, <1>4, RecoversDrainStep, RecoversDrainEnd DEF Drain
    <1> QED
        BY <1>1, <1>2, <1>3, <1>4 DEF Next, Push

\* What the invariant says between two calls of Push, and at any time.
LEMMA RecoversShows ==
    ASSUME TypeOK, SeqAgrees, \A f \in Flows : Recovers(f)
    PROVE  NoByteLost /\ NoStall
    <1>1. NoByteLost
        BY DEF NoByteLost, Recovers, Kept, SeqAgrees, FlowAgrees
    <1>2. NoStall
        <2> SUFFICES ASSUME draining = None, NEW f \in Flows, Aligned(f), Half(f),
                            delivered[f] # <<>>, NextOff(f) \in captured[f]
                     PROVE  FALSE
            BY DEF NoStall, Stalls
        <2> DEFINE n == NextOff(f)
        <2>1. HandedOn(f) /\ Ahead(f) /\ Kept(f) /\ draining # f
            BY NoneAssumption DEF Recovers, SeqAgrees, FlowAgrees
        <2>2. n \in Nat
            BY NextOffType
        <2>3. n \in DeliveredBytes(f) \cup BufferedBytes(f)
            BY <2>1 DEF HandedOn, Kept
        <2>4. n \notin DeliveredBytes(f)
            BY <2>1, <2>2 DEF HandedOn
        <2>5. PICK q \in SeqNums : buffered[f][q] # None /\ n \in Bytes(buffered[f][q])
            BY <2>3, <2>4 DEF BufferedBytes
        <2>6. buffered[f][q].off \in Nat /\ buffered[f][q].off <= n
            BY <2>2, <2>5 DEF TypeOK, Pieces, Bytes, End
        <2>7. n <= buffered[f][q].off /\ n # buffered[f][q].off
            BY <2>1, <2>5 DEF Ahead
        <2> QED
            BY <2>2, <2>6, <2>7
    <1> QED
        BY <1>1, <1>2

\* What the assembler keeps, step by step.
AssemblerInv == TypeOK /\ SeqAgrees /\ InOrder /\ \A f \in Flows : Recovers(f)

LEMMA AssemblerInvStep == ASSUME ShortStreams, AssemblerInv, [Next]_vars PROVE AssemblerInv'
    <1>1. TypeOK' /\ SeqAgrees' /\ InOrder'
        BY OrderStep DEF AssemblerInv
    <1>2. CASE Next
        BY <1>1, <1>2, RecoversStep DEF AssemblerInv
    <1>3. CASE UNCHANGED vars
        <2>1. \A f \in Flows : Recovers(f)'
            BY <1>3 DEF vars, AssemblerInv, Recovers, HandedOn, Ahead, Kept, Aligned, Half, NextOff,
                        FirstOff, DeliveredBytes, BufferedBytes, Bytes, End
        <2> QED
            BY <1>1, <2>1 DEF AssemblerInv
    <1> QED
        BY <1>2, <1>3

LEMMA AssemblerInvHolds == ASSUME ShortStreams PROVE Init /\ [][Next]_vars => []AssemblerInv
    <1>1. Init => AssemblerInv
        BY TypeInit, AgreesInit, RecoversInit DEF AssemblerInv
    <1>2. AssemblerInv /\ [Next]_vars => AssemblerInv'
        BY AssemblerInvStep
    <1> QED
        BY <1>1, <1>2, PTL

\* Of a stream shorter than half the sequence number space and repeated as it
\* was first cut, no captured byte is thrown away: whatever is lost, repeated or
\* reordered.
THEOREM NothingLost == ASSUME ShortStreams PROVE Spec => []NoByteLost
    <1>1. AssemblerInv => NoByteLost
        BY RecoversShows DEF AssemblerInv
    <1> QED
        BY <1>1, AssemblerInvHolds, PTL DEF Spec

\* ... and between two calls of Push it waits only for a byte the capture missed.
THEOREM WaitsForMissed == ASSUME ShortStreams PROVE Spec => []NoStall
    <1>1. AssemblerInv => NoStall
        BY RecoversShows DEF AssemblerInv
    <1> QED
        BY <1>1, AssemblerInvHolds, PTL DEF Spec

-----------------------------------------------------------------------------
(* The assembler implements ByteStream. *)

\* What waits was captured.
Waits == \A f \in Flows : \A q \in SeqNums :
            buffered[f][q] # None => Bytes(buffered[f][q]) \subseteq captured[f]

StreamInv == TypeOK /\ SeqAgrees /\ InOrder /\ Waits

LEMMA WaitsStep ==
    ASSUME TypeOK, Waits, Next
    PROVE  Waits'
    <1> SUFFICES ASSUME NEW g \in Flows, NEW q \in SeqNums, buffered'[g][q] # None
                 PROVE  Bytes(buffered'[g][q]) \subseteq captured'[g]
        BY DEF Waits, Bytes, End
    <1>1. ASSUME NEW f \in Flows, NEW s \in wire[f], Push(f, s)
          PROVE  Bytes(buffered'[g][q]) \subseteq captured'[g]
        <2>1. captured[g] \subseteq captured'[g] /\ (g = f => Bytes(s) \subseteq captured'[g])
            BY <1>1 DEF Push, TypeOK
        <2>2. \/ buffered'[g][q] = buffered[g][q]
              \/ g = f /\ buffered'[g][q] = s
            BY <1>1 DEF Push, Drop, Hold, Accept, TypeOK
        <2> QED
            BY <2>1, <2>2 DEF Waits
    <1>2. ASSUME NEW f \in Flows, Drain(f)
          PROVE  Bytes(buffered'[g][q]) \subseteq captured'[g]
        <2>1. captured' = captured /\ buffered'[g][q] = buffered[g][q]
            BY <1>2 DEF Drain, DrainStep, DrainEnd, TypeOK
        <2> QED
            BY <2>1 DEF Waits
    <1> QED
        BY <1>1, <1>2 DEF Next

LEMMA StreamInvHolds == ASSUME ShortStreams PROVE Init /\ [][Next]_vars => []StreamInv
    <1>1. Init => StreamInv
        BY TypeInit, AgreesInit DEF StreamInv, Init, Waits
    <1>2. StreamInv /\ [Next]_vars => StreamInv'
        <2> SUFFICES ASSUME StreamInv, [Next]_vars PROVE StreamInv'
            OBVIOUS
        <2>1. TypeOK' /\ SeqAgrees' /\ InOrder'
            BY OrderStep DEF StreamInv
        <2>2. CASE Next
            BY <2>1, <2>2, WaitsStep DEF StreamInv
        <2>3. CASE UNCHANGED vars
            BY <2>1, <2>3 DEF StreamInv, vars, Waits, Bytes, End
        <2> QED
            BY <2>2, <2>3
    <1> QED
        BY <1>1, <1>2, PTL

\* A piece handed on by a flow, whose bytes were captured, is a delivery.
LEMMA EmitDelivers ==
    ASSUME NEW f \in Flows, NEW from, NEW p \in Pieces, Emit(f, from, p),
           delivered[f] # <<>> => p.off = NextOff(f), End(p) < SeqMod,
           Bytes(p) \subseteq captured'[f]
    PROVE  Abstract!Deliver(f)
    <1>1. p \in [off : 0 .. SeqMod, len : 1 .. SeqMod]
        BY SeqModPositive DEF Pieces, End
    <1>2. Abstract!Continues(delivered[f], p)
        BY DEF Abstract!Continues, Abstract!End, NextOff, End
    <1>3. Abstract!Bytes(p) \subseteq captured'[f]
        BY DEF Abstract!Bytes, Abstract!End, Bytes, End
    <1>4. delivered' = [delivered EXCEPT ![f] = Append(@, p)]
        BY DEF Emit
    <1> QED
        BY <1>1, <1>2, <1>3, <1>4 DEF Abstract!Deliver

LEMMA AbstractStep ==
    ASSUME ShortStreams, StreamInv, [Next]_vars
    PROVE  [Abstract!Next]_(Abstract!vars)
    <1> USE DEF StreamInv
    <1>1. ASSUME NEW f \in Flows, NEW s \in wire[f], Push(f, s) PROVE Abstract!Next
        <2>1. Abstract!Capture(f) /\ Bytes(s) \subseteq captured'[f]
            BY <1>1 DEF Push, TypeOK, Abstract!Capture
        <2>2. CASE Drop(f, s) \/ Hold(f, s)
            BY <2>1, <2>2 DEF Drop, Hold, Abstract!Next
        <2>3. CASE Accept(f, s)
            <3>1. s \in Segments /\ FlowAgrees(f) /\ s.off \in Nat /\ s.len \in Nat
                BY WireType, SegmentsType DEF SeqAgrees
            <3>2. /\ Rest(f, s) \in Pieces /\ s.off <= Rest(f, s).off
                  /\ delivered[f] # <<>> => Rest(f, s).off = NextOff(f)
                  /\ End(Rest(f, s)) = End(s) /\ End(Rest(f, s)) < SeqMod
                BY <2>3, <3>1, AcceptedPiece DEF Accept, Rest
            <3>3. Bytes(Rest(f, s)) \subseteq Bytes(s)
                BY <3>1, <3>2 DEF Bytes, Pieces
            <3>4. Abstract!Deliver(f)
                BY <2>1, <2>3, <3>2, <3>3, EmitDelivers DEF Accept
            <3> QED
                BY <2>1, <3>4 DEF Abstract!Next
        <2> QED
            BY <1>1, <2>2, <2>3 DEF Push
    <1>2. ASSUME NEW f \in Flows, DrainStep(f) PROVE Abstract!Next
        <2> DEFINE p == buffered[f][nextSeq[f]]
        <2>1. nextSeq[f] \in SeqNums /\ FlowAgrees(f) /\ p # None /\ captured' = captured
            BY <1>2 DEF DrainStep, TypeOK, SeqAgrees
        <2>2. p \in Pieces /\ p.off = NextOff(f)
            BY <2>1, DrainedPiece
        <2>3. End(p) < SeqMod /\ Bytes(p) \subseteq captured'[f]
            BY <2>1 DEF FlowAgrees, ShortStreams, Waits
        <2>4. Emit(f, nextSeq[f], p)
            BY <1>2 DEF DrainStep
        <2> HIDE DEF p
        <2>5. Abstract!Deliver(f)
            BY <2>2, <2>3, <2>4, EmitDelivers
        <2> QED
            BY <2>1, <2>5 DEF Abstract!Next, Abstract!Capture
    <1>3. ASSUME NEW f \in Flows, DrainEnd(f) PROVE UNCHANGED Abstract!vars
        BY <1>3 DEF DrainEnd, Abstract!vars
    <1>4. CASE UNCHANGED vars
        BY <1>4 DEF vars, Abstract!vars
    <1> QED
        BY <1>1, <1>2, <1>3, <1>4 DEF Next, Drain

LEMMA StreamRefines == ASSUME ShortStreams PROVE Init /\ [][Next]_vars => ImplementsByteStream
    <1>1. Init => Abstract!Init
        BY DEF Init, Abstract!Init
    <1>2. StreamInv /\ [Next]_vars => [Abstract!Next]_(Abstract!vars)
        BY AbstractStep
    <1> QED
        BY <1>1, <1>2, StreamInvHolds, PTL DEF ImplementsByteStream, Abstract!Spec

\* Every step of the assembler captures and hands on as ByteStream allows: the
\* chunks it returns are captured bytes, in the sender's order, none twice and
\* none skipped.
THEOREM AssemblerRefines == ASSUME ShortStreams PROVE Spec => ImplementsByteStream
    BY StreamRefines, PTL DEF Spec
=============================================================================
