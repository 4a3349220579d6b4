---------------------------- MODULE PipelineProofs ----------------------------
(***************************************************************************)
(* The pipeline implements RecordStream: for every set of flows, every way *)
(* their senders cut and repeat their streams, every set of records in     *)
(* them and whatever the capture misses, as long as no stream is as long   *)
(* as the sequence number space.                                           *)
(***************************************************************************)
EXTENDS Pipeline, ReassemblyProofs, FiniteSetTheorems

-----------------------------------------------------------------------------
(* The records of one chunk, in order. *)

LEMMA RecordType ==
    ASSUME NEW f \in Flows, NEW r \in Records[f]
    PROVE  /\ r.head \in Nat /\ r.first \in Nat /\ r.last \in Nat /\ r.tail \in Nat
           /\ r.head <= r.first /\ r.first <= r.last /\ r.last <= r.tail
    BY RecordsAssumption

\* Records do not overlap: one that ends later begins after the other's end.
LEMMA LaterBeginsAfter ==
    ASSUME NEW f \in Flows, NEW q \in Records[f], NEW r \in Records[f], q.last < r.last
    PROVE  q.last < r.first
    BY RecordType, RecordsAssumption

\* A record is complete with its object or with its frame.
LEMMA EndOfType ==
    ASSUME NEW f \in Flows, NEW r \in Records[f]
    PROVE  /\ EndOf(f, r) \in Nat /\ r.last <= EndOf(f, r) /\ EndOf(f, r) <= r.tail
    BY RecordType DEF EndOf

\* What is complete later begins after the other's end.
LEMMA CompletedLater ==
    ASSUME NEW f \in Flows, NEW q \in Records[f], NEW r \in Records[f], EndOf(f, q) < EndOf(f, r)
    PROVE  q.last < r.first
    <1>1. /\ EndOf(f, q) \in Nat /\ q.last <= EndOf(f, q) /\ EndOf(f, q) <= q.tail
          /\ EndOf(f, r) \in Nat /\ r.last <= EndOf(f, r) /\ EndOf(f, r) <= r.tail
        BY EndOfType
    <1>2. q # r
        BY <1>1
    <1>3. r.tail < q.head \/ q.tail < r.head
        BY <1>2, RecordsAssumption
    <1> QED
        BY <1>1, <1>3, RecordType

\* The rank of a record tells how many end no later.
LEMMA RankType ==
    ASSUME NEW f \in Flows, NEW found \in SUBSET Records[f], NEW r \in found
    PROVE  Rank(found, r) \in 1 .. Cardinality(found) /\ Rank(found, r) \in Nat
    <1> DEFINE before == {q \in found : q.last <= r.last}
    <1>1. IsFiniteSet(found)
        BY FS_Subset, RecordsAssumption
    <1>2. before \in SUBSET found /\ r \in before
        BY RecordType
    <1>3. IsFiniteSet(before) /\ Cardinality(before) <= Cardinality(found)
        BY <1>1, <1>2, FS_Subset
    <1>4. Cardinality(before) # 0
        BY <1>2, <1>3, FS_EmptySet
    <1>5. Cardinality(before) \in Nat /\ Cardinality(found) \in Nat
        BY <1>1, <1>3, FS_CardinalityType
    <1> QED
        BY <1>3, <1>4, <1>5 DEF Rank

\* It grows with the last byte.
LEMMA RankMonotone ==
    ASSUME NEW f \in Flows, NEW found \in SUBSET Records[f], NEW q \in found, NEW r \in found,
           q.last < r.last
    PROVE  Rank(found, q) < Rank(found, r)
    <1> DEFINE before(p) == {x \in found : x.last <= p.last}
    <1>1. IsFiniteSet(found)
        BY FS_Subset, RecordsAssumption
    <1>2. before(r) \in SUBSET found /\ before(q) \in SUBSET before(r)
        BY RecordType
    <1>3. r \in before(r) /\ r \notin before(q)
        BY RecordType
    <1>4. IsFiniteSet(before(r))
        BY <1>1, <1>2, FS_Subset
    <1>5. IsFiniteSet(before(q)) /\ Cardinality(before(q)) <= Cardinality(before(r))
          /\ (Cardinality(before(r)) = Cardinality(before(q)) => before(r) = before(q))
        BY <1>2, <1>4, FS_Subset
    <1>6. Cardinality(before(q)) \in Nat /\ Cardinality(before(r)) \in Nat
        BY <1>4, <1>5, FS_CardinalityType
    <1>7. Cardinality(before(q)) < Cardinality(before(r))
        BY <1>3, <1>5, <1>6
    <1> QED
        BY <1>7 DEF Rank

LEMMA RankOrder ==
    ASSUME NEW f \in Flows, NEW found \in SUBSET Records[f], NEW q \in found, NEW r \in found,
           Rank(found, q) < Rank(found, r)
    PROVE  q.last < r.last
    <1>1. q.last \in Nat /\ r.last \in Nat
        BY RecordType
    <1>2. Rank(found, q) \in Nat /\ Rank(found, r) \in Nat
        BY RankType
    <1>3. ~(r.last < q.last)
        BY <1>2, RankMonotone
    <1>4. r.last # q.last
        <2> SUFFICES ASSUME r.last = q.last PROVE FALSE
            OBVIOUS
        <2>1. Rank(found, q) = Rank(found, r)
            BY DEF Rank
        <2> QED
            BY <1>2, <2>1
    <1> QED
        BY <1>1, <1>3, <1>4

\* Every rank is taken: the records are counted through.
LEMMA RankTaken ==
    ASSUME NEW f \in Flows, NEW found \in SUBSET Records[f], NEW i \in 1 .. Cardinality(found)
    PROVE  \E r \in found : Rank(found, r) = i
    <1> DEFINE n == Cardinality(found)
               rank == [r \in found |-> Rank(found, r)]
    <1>1. IsFiniteSet(found) /\ n \in Nat
        BY FS_Subset, FS_CardinalityType, RecordsAssumption
    <1>2. IsFiniteSet(1 .. n) /\ Cardinality(1 .. n) = n
        BY <1>1, FS_Interval
    <1>3. rank \in [found -> 1 .. n]
        BY RankType
    <1>4. ASSUME NEW q \in found, NEW r \in found, q # r PROVE rank[q] # rank[r]
        <2>1. q.last \in Nat /\ r.last \in Nat
            BY RecordType
        <2>2. q.last < r.last \/ r.last < q.last
            BY <1>4, <2>1, RecordType, RecordsAssumption
        <2>3. Rank(found, q) < Rank(found, r) \/ Rank(found, r) < Rank(found, q)
            BY <2>2, RankMonotone
        <2>4. Rank(found, q) \in Nat /\ Rank(found, r) \in Nat
            BY RankType
        <2> QED
            BY <2>3, <2>4
    <1>5. rank \in Injection(found, 1 .. n)
        BY <1>3, <1>4 DEF Injection, IsInjective
    <1>6. rank \in Surjection(found, 1 .. n)
        BY <1>2, <1>5, FS_Injection
    <1> QED
        BY <1>6 DEF Surjection

\* The messages of a chunk are its records, each behind the end of the ones
\* before it.
LEMMA InOrderOfCorrect ==
    ASSUME NEW f \in Flows, NEW found \in SUBSET Records[f]
    PROVE  /\ InOrderOf(f, found) \in Seq({f} \X found)
           /\ \A j, k \in DOMAIN InOrderOf(f, found) : j < k =>
                InOrderOf(f, found)[j][2].last < InOrderOf(f, found)[k][2].first
    <1> DEFINE n == Cardinality(found)
               nth(i) == CHOOSE r \in found : Rank(found, r) = i
               list == InOrderOf(f, found)
    <1>1. n \in Nat
        BY FS_Subset, FS_CardinalityType, RecordsAssumption
    <1>2. \A i \in 1 .. n : nth(i) \in found /\ Rank(found, nth(i)) = i
        BY RankTaken
    <1>3. list = [i \in 1 .. n |-> <<f, nth(i)>>]
        BY DEF InOrderOf
    <1> HIDE DEF n, nth, list
    <1>4. list \in Seq({f} \X found) /\ DOMAIN list = 1 .. n
        BY <1>1, <1>2, <1>3
    <1>5. ASSUME NEW j \in 1 .. n, NEW k \in 1 .. n, j < k
          PROVE  list[j][2].last < list[k][2].first
        <2>1. /\ nth(j) \in found /\ Rank(found, nth(j)) = j
              /\ nth(k) \in found /\ Rank(found, nth(k)) = k
            BY <1>2
        <2>2. nth(j).last < nth(k).last
            BY <1>5, <2>1, RankOrder
        <2>3. nth(j).last < nth(k).first
            BY <2>1, <2>2, LaterBeginsAfter
        <2> QED
            BY <1>3, <2>3
    <1> QED
        BY <1>4, <1>5 DEF list

-----------------------------------------------------------------------------
(* The assembler inside the pipeline. *)

\* What a step of the pipeline is to the assembler, and to its chunks.
LEMMA AssemblerStep == PipelineNext => [Next]_vars
    <1> SUFFICES ASSUME PipelineNext PROVE [Next]_vars
        OBVIOUS
    <1>1. ASSUME NEW f \in Flows, NEW s \in wire[f], Capture(f, s) PROVE [Next]_vars
        BY <1>1 DEF Capture, Next
    <1>2. ASSUME NEW f \in Flows, Reassemble(f) PROVE [Next]_vars
        BY <1>2 DEF Reassemble, Next
    <1>3. ASSUME NEW f \in Flows, Decode(f) PROVE [Next]_vars
        BY <1>3 DEF Decode
    <1>4. CASE Process \/ ProcessFails
        BY <1>4 DEF Process, ProcessFails
    <1> QED
        BY <1>1, <1>2, <1>3, <1>4 DEF PipelineNext, Work

\* Chunks are only ever added.
Extends(d, e) == Len(d) <= Len(e) /\ \A i \in 1 .. Len(d) : e[i] = d[i]

LEMMA EmitExtends ==
    ASSUME TypeOK, NEW f \in Flows, NEW from, NEW p \in Pieces, Emit(f, from, p), NEW g \in Flows
    PROVE  Extends(delivered[g], delivered'[g])
    <1>1. delivered[g] \in Seq(Pieces) /\ delivered \in [Flows -> Seq(Pieces)]
        BY DEF TypeOK
    <1>2. delivered' = [delivered EXCEPT ![f] = Append(@, p)]
        BY DEF Emit
    <1>3. CASE g = f
        BY <1>1, <1>2, <1>3 DEF Extends
    <1>4. CASE g # f
        BY <1>1, <1>2, <1>4 DEF Extends
    <1> QED
        BY <1>3, <1>4

\* What Accept and Drain hand on is a piece.
LEMMA RestType ==
    ASSUME TypeOK, NEW f \in Flows, NEW s \in Segments, AlreadyRead(f, s) < s.len
    PROVE  Rest(f, s) \in Pieces /\ Bytes(Rest(f, s)) \subseteq Bytes(s)
    <1>1. AlreadyRead(f, s) \in Nat /\ s.off \in Nat /\ s.len \in Nat
        BY AlreadyReadType, SegmentsType
    <1>2. Rest(f, s) \in Pieces
        BY <1>1 DEF Rest, Pieces
    <1>3. Bytes(Rest(f, s)) \subseteq Bytes(s)
        BY <1>1 DEF Rest, Bytes, End
    <1> QED
        BY <1>2, <1>3

LEMMA DeliveredExtends ==
    ASSUME TypeOK, [Next]_vars, NEW g \in Flows
    PROVE  Extends(delivered[g], delivered'[g])
    <1>0. delivered[g] \in Seq(Pieces)
        BY DEF TypeOK
    <1>1. ASSUME NEW f \in Flows, NEW s \in wire[f], Push(f, s)
          PROVE  Extends(delivered[g], delivered'[g])
        <2>1. s \in Segments
            BY WireType
        <2>2. CASE Drop(f, s) \/ Hold(f, s)
            BY <1>0, <2>2 DEF Drop, Hold, Extends
        <2>3. CASE Accept(f, s)
            BY <2>1, <2>3, RestType, EmitExtends DEF Accept
        <2> QED
            BY <1>1, <2>2, <2>3 DEF Push
    <1>2. ASSUME NEW f \in Flows, DrainStep(f)
          PROVE  Extends(delivered[g], delivered'[g])
        <2>1. nextSeq[f] \in SeqNums
            BY DEF TypeOK
        <2>2. buffered[f][nextSeq[f]] \in Pieces
            BY <1>2, <2>1 DEF TypeOK, DrainStep
        <2> QED
            BY <1>2, <2>2, EmitExtends DEF DrainStep
    <1>3. CASE UNCHANGED delivered
        BY <1>0, <1>3 DEF Extends
    <1> QED
        BY <1>1, <1>2, <1>3 DEF Next, Drain, DrainEnd, vars

-----------------------------------------------------------------------------
(* What is handed on, and what waits, was seen. *)

SeenUpToEnds(d, bytes) ==
    \A i \in 1 .. Len(d) : d[1].off .. (End(d[i]) - 1) \subseteq bytes

Covers(f) ==
    /\ delivered[f] # <<>> => f \in Reporting
    /\ SeenUpToEnds(delivered[f], seen[f])
    /\ \A q \in SeqNums : buffered[f][q] # None => Bytes(buffered[f][q]) \subseteq seen[f]

\* A piece that continues what was handed on and was seen itself.
LEMMA AppendSeen ==
    ASSUME NEW d \in Seq(Pieces), NEW p \in Pieces, NEW bytes,
           SeenUpToEnds(d, bytes), Bytes(p) \subseteq bytes,
           d # <<>> => p.off = End(d[Len(d)])
    PROVE  SeenUpToEnds(Append(d, p), bytes)
    <1> DEFINE e == Append(d, p)
    <1>1. /\ e \in Seq(Pieces) /\ Len(e) = Len(d) + 1 /\ e[Len(d) + 1] = p
          /\ \A i \in 1 .. Len(d) : e[i] = d[i]
        OBVIOUS
    <1>2. \A i \in 1 .. Len(d) : d[i].off \in Nat /\ d[i].len \in Nat
        <2> TAKE i \in 1 .. Len(d)
        <2>1. d[i] \in Pieces
            OBVIOUS
        <2> QED
            BY <2>1 DEF Pieces
    <1>3. p.off \in Nat /\ p.len \in Nat
        BY DEF Pieces
    <1> HIDE DEF e
    <1>4. CASE d = <<>>
        <2>1. Len(e) = 1 /\ e[1] = p
            BY <1>1, <1>4
        <2> QED
            BY <2>1 DEF SeenUpToEnds, Bytes, e
    <1>5. CASE d # <<>>
        <2>1. Len(d) \in Nat \ {0} /\ e[1] = d[1]
            BY <1>1, <1>5
        <2>2. ASSUME NEW i \in 1 .. Len(d) PROVE e[1].off .. (End(e[i]) - 1) \subseteq bytes
            BY <1>1, <2>1 DEF SeenUpToEnds
        <2>3. e[1].off .. (End(p) - 1) \subseteq bytes
            <3> SUFFICES ASSUME NEW x \in e[1].off .. (End(p) - 1) PROVE x \in bytes
                OBVIOUS
            <3>1. CASE x < p.off
                <4>1. x \in d[1].off .. (End(d[Len(d)]) - 1)
                    BY <1>2, <1>3, <1>5, <2>1, <3>1 DEF End
                <4> QED
                    BY <2>1, <4>1 DEF SeenUpToEnds
            <3>2. CASE x >= p.off
                BY <1>3, <3>2 DEF Bytes, End
            <3> QED
                BY <1>2, <1>3, <2>1, <3>1, <3>2 DEF End
        <2> QED
            BY <1>1, <2>1, <2>2, <2>3 DEF SeenUpToEnds, e
    <1> QED
        BY <1>4, <1>5

LEMMA EmitSeen ==
    ASSUME TypeOK, InOrder', NEW f \in Flows, NEW from, NEW p \in Pieces, Emit(f, from, p),
           NEW bytes, SeenUpToEnds(delivered[f], bytes), Bytes(p) \subseteq bytes
    PROVE  SeenUpToEnds(delivered'[f], bytes)
    <1>1. delivered[f] \in Seq(Pieces) /\ delivered'[f] = Append(delivered[f], p)
        BY DEF TypeOK, Emit
    <1>2. delivered[f] # <<>> => p.off = End(delivered[f][Len(delivered[f])])
        <2> SUFFICES ASSUME delivered[f] # <<>> PROVE p.off = End(delivered[f][Len(delivered[f])])
            OBVIOUS
        <2>1. Len(delivered[f]) \in 1 .. Len(delivered'[f]) - 1
            BY <1>1
        <2>2. delivered'[f][Len(delivered[f]) + 1].off = End(delivered'[f][Len(delivered[f])])
            BY <2>1 DEF InOrder, End
        <2> QED
            BY <1>1, <2>1, <2>2
    <1> QED
        BY <1>1, <1>2, AppendSeen

LEMMA CoversInit == ASSUME PipelineInit, NEW f \in Flows PROVE Covers(f)
    <1>1. delivered[f] = <<>> /\ \A q \in SeqNums : buffered[f][q] = None
        BY DEF PipelineInit, Init
    <1>2. SeenUpToEnds(delivered[f], seen[f])
        BY <1>1 DEF SeenUpToEnds
    <1> QED
        BY <1>1, <1>2 DEF Covers

\* Nothing new is handed on, and what is new in the buffer was seen.
LEMMA CoversKept ==
    ASSUME NEW f \in Flows, Covers(f),
           delivered'[f] = delivered[f], seen[f] \subseteq seen'[f],
           \A q \in SeqNums : buffered'[f][q] # None =>
              buffered'[f][q] = buffered[f][q] \/ Bytes(buffered'[f][q]) \subseteq seen'[f]
    PROVE  Covers(f)'
    <1>1. SeenUpToEnds(delivered'[f], seen'[f])
        BY DEF Covers, SeenUpToEnds
    <1>2. \A q \in SeqNums : buffered'[f][q] # None => Bytes(buffered'[f][q]) \subseteq seen'[f]
        BY DEF Covers
    <1> QED
        BY <1>1, <1>2 DEF Covers, SeenUpToEnds, Bytes, End

\* A piece that was seen is handed on, and nothing is new in the buffer.
LEMMA CoversEmitted ==
    ASSUME TypeOK, InOrder', NEW f \in Reporting, f \in Flows, Covers(f),
           NEW from, NEW p \in Pieces, Emit(f, from, p),
           seen[f] \subseteq seen'[f], Bytes(p) \subseteq seen'[f],
           \A q \in SeqNums : buffered'[f][q] # None => buffered'[f][q] = buffered[f][q]
    PROVE  Covers(f)'
    <1>1. SeenUpToEnds(delivered[f], seen'[f])
        BY DEF Covers, SeenUpToEnds
    <1>2. SeenUpToEnds(delivered'[f], seen'[f])
        BY <1>1, EmitSeen
    <1>3. \A q \in SeqNums : buffered'[f][q] # None => Bytes(buffered'[f][q]) \subseteq seen'[f]
        BY DEF Covers
    <1> QED
        BY <1>2, <1>3 DEF Covers, SeenUpToEnds, Bytes, End

LEMMA CoversPush ==
    ASSUME TypeOK, InOrder', NEW f \in Reporting, f \in Flows, Covers(f), NEW s \in wire[f],
           Push(f, s), seen[f] \cup Bytes(s) \subseteq seen'[f]
    PROVE  Covers(f)'
    <1>1. s \in Segments
        BY WireType
    <1>2. CASE Drop(f, s)
        BY <1>2, CoversKept DEF Drop
    <1>3. CASE Hold(f, s)
        <2>1. \A q \in SeqNums : buffered'[f][q] = buffered[f][q] \/ buffered'[f][q] = s
            BY <1>3 DEF Hold, TypeOK
        <2> QED
            BY <1>3, <2>1, CoversKept DEF Hold
    <1>4. CASE Accept(f, s)
        <2>1. Rest(f, s) \in Pieces /\ Bytes(Rest(f, s)) \subseteq seen'[f]
            BY <1>1, <1>4, RestType DEF Accept
        <2> QED
            BY <1>4, <2>1, CoversEmitted DEF Accept
    <1> QED
        BY <1>2, <1>3, <1>4 DEF Push

LEMMA CoversDrain ==
    ASSUME TypeOK, SeqAgrees, InOrder', NEW f \in Flows, Covers(f), Drain(f), UNCHANGED seen
    PROVE  Covers(f)'
    <1>1. CASE DrainEnd(f)
        BY <1>1, CoversKept DEF DrainEnd
    <1>2. CASE DrainStep(f)
        <2> DEFINE p == buffered[f][nextSeq[f]]
        <2>1. nextSeq[f] \in SeqNums /\ p # None /\ p \in Pieces
            BY <1>2 DEF DrainStep, TypeOK
        <2>2. Bytes(p) \subseteq seen'[f]
            BY <2>1 DEF Covers
        <2>3. f \in Reporting
            BY <2>1 DEF SeqAgrees, FlowAgrees, Covers
        <2>4. \A q \in SeqNums : buffered'[f][q] # None => buffered'[f][q] = buffered[f][q]
            BY <1>2 DEF DrainStep, TypeOK
        <2> QED
            BY <1>2, <2>1, <2>2, <2>3, <2>4, CoversEmitted DEF DrainStep
    <1> QED
        BY <1>1, <1>2 DEF Drain

\* A step of the assembler on one flow leaves the others alone.
LEMMA OtherFlows ==
    ASSUME TypeOK, NEW f \in Flows, NEW g \in Flows, g # f,
           (\E s \in wire[f] : Push(f, s)) \/ Drain(f)
    PROVE  delivered'[g] = delivered[g] /\ buffered'[g] = buffered[g]
    <1>1. ASSUME NEW s \in wire[f], Push(f, s)
          PROVE  delivered'[g] = delivered[g] /\ buffered'[g] = buffered[g]
        BY <1>1 DEF Push, Drop, Hold, Accept, Emit, TypeOK
    <1>2. CASE Drain(f)
        BY <1>2 DEF Drain, DrainStep, DrainEnd, Emit, TypeOK
    <1> QED
        BY <1>1, <1>2

\* A step of the pipeline keeps what is covered.
LEMMA CoversStep ==
    ASSUME TypeOK, SeqAgrees, InOrder', seen \in [Flows -> SUBSET Nat], PipelineNext,
           \A h \in Flows : Covers(h), NEW g \in Flows
    PROVE  Covers(g)'
    <1>1. ASSUME NEW f \in Flows, NEW s \in wire[f], Capture(f, s) PROVE Covers(g)'
        <2>1. /\ seen' = [seen EXCEPT ![f] = @ \cup Bytes(s)]
              /\ seen[g] \subseteq seen'[g] /\ seen[f] \cup Bytes(s) \subseteq seen'[f]
            BY <1>1 DEF Capture
        <2>2. CASE Outbound(f)
            <3>1. Push(f, s) /\ f \in Reporting
                BY <1>1, <2>2, ReportingAssumption DEF Capture, Outbound
            <3>2. CASE g = f
                BY <2>1, <3>1, <3>2, CoversPush
            <3>3. CASE g # f
                BY <2>1, <3>1, <3>3, OtherFlows, CoversKept
            <3> QED
                BY <3>2, <3>3
        <2>3. CASE ~Outbound(f)
            BY <1>1, <2>1, <2>3, CoversKept DEF Capture, vars
        <2> QED
            BY <2>2, <2>3
    <1>2. ASSUME NEW f \in Flows, Reassemble(f) PROVE Covers(g)'
        <2>1. Drain(f) /\ UNCHANGED seen
            BY <1>2 DEF Reassemble
        <2>2. CASE g = f
            BY <2>1, <2>2, CoversDrain
        <2>3. CASE g # f
            BY <2>1, <2>3, OtherFlows, CoversKept
        <2> QED
            BY <2>2, <2>3
    <1>3. CASE UNCHANGED <<vars, seen>>
        BY <1>3, CoversKept DEF vars
    <1> QED
        BY <1>1, <1>2, <1>3 DEF PipelineNext, Work, Decode, Process, ProcessFails

-----------------------------------------------------------------------------
(* The messages found and not yet published, and the published ones. *)

\* All bytes of message m are seen, and its flow goes to the cloud.
Whole(m) == m[1] \in Reporting /\ m[2].first .. m[2].last \subseteq seen[m[1]]

\* It was completed in what the decoder of its flow was given.
Behind(m) ==
    /\ handled[m[1]] >= 1
    /\ EndOf(m[1], m[2]) < End(delivered[m[1]][handled[m[1]]])

\* All of its frame was seen, if the header is in the stream.
Framed(m) ==
    FirstOff(m[1]) <= m[2].head => m[2].head .. m[2].tail \subseteq seen[m[1]]

Follows(m, n) == m[1] = n[1] => m[2].last < n[2].first

Queue ==
    /\ \A i \in DOMAIN pending : Whole(pending[i]) /\ Behind(pending[i]) /\ Framed(pending[i])
    /\ \A i \in DOMAIN published : Behind(published[i]) /\ Framed(published[i])
    /\ \A i \in DOMAIN published : \A j \in DOMAIN pending : Follows(published[i], pending[j])
    /\ \A j, k \in DOMAIN pending : j < k => Follows(pending[j], pending[k])
    /\ ~stopped => fields = state

LEMMA MessageType ==
    ASSUME NEW m \in Messages
    PROVE  m[1] \in Flows /\ m[2] \in Records[m[1]] /\ m = <<m[1], m[2]>>
    BY DEF Messages

\* The packet loop and the assembler do not touch the messages.
LEMMA QueueKept ==
    ASSUME PipelineTypeOK, Queue, UNCHANGED processorVars,
           \A f \in Flows : seen[f] \subseteq seen'[f] /\ Extends(delivered[f], delivered'[f])
    PROVE  Queue'
    <1>1. /\ pending \in Seq(Messages) /\ published \in Seq(Messages)
          /\ UNCHANGED <<handled, pending, fields, published, state, stopped>>
        BY DEF PipelineTypeOK, processorVars
    <1>2. ASSUME NEW m \in Messages, Behind(m)
          PROVE  Behind(m)' /\ (Framed(m) => Framed(m)')
        <2>1. /\ m[1] \in Flows /\ handled[m[1]] \in 1 .. Len(delivered[m[1]])
              /\ 1 \in 1 .. Len(delivered[m[1]])
            BY <1>2, MessageType DEF PipelineTypeOK, TypeOK, Behind
        <2>2. /\ delivered'[m[1]][handled[m[1]]] = delivered[m[1]][handled[m[1]]]
              /\ delivered'[m[1]][1] = delivered[m[1]][1]
            BY <2>1 DEF Extends
        <2>3. Behind(m)'
            BY <1>1, <1>2, <2>2 DEF Behind, End, EndOf, FirstOff
        <2>4. Framed(m) => Framed(m)'
            BY <2>1, <2>2 DEF Framed, FirstOff
        <2> QED
            BY <2>3, <2>4
    <1>3. ASSUME NEW m \in Messages, Whole(m) PROVE Whole(m)'
        BY <1>3, MessageType DEF Whole
    <1> QED
        BY <1>1, <1>2, <1>3 DEF Queue, Follows

\* The next message of the queue is published.
LEMMA QueueProcess == ASSUME PipelineTypeOK, Queue, Process PROVE Queue'
    <1>1. /\ pending \in Seq(Messages) /\ published \in Seq(Messages) /\ pending # <<>>
          /\ pending' = Tail(pending) /\ published' = Append(published, Head(pending))
          /\ UNCHANGED <<vars, seen, handled>> /\ state' = fields'
        BY DEF PipelineTypeOK, Process
    <1>2. \A i \in DOMAIN pending' : i + 1 \in DOMAIN pending /\ pending'[i] = pending[i + 1]
        BY <1>1
    <1>3. \A i \in DOMAIN published' :
              \/ i \in DOMAIN published /\ published'[i] = published[i]
              \/ published'[i] = pending[1]
        BY <1>1
    <1>4. 1 \in DOMAIN pending
        BY <1>1
    <1>5. UNCHANGED <<delivered, seen, handled>>
        BY <1>1 DEF vars
    <1>6. (\A i \in DOMAIN pending : Whole(pending[i]) /\ Behind(pending[i]) /\ Framed(pending[i]))'
        BY <1>2, <1>5 DEF Queue, Whole, Behind, Framed, End, EndOf, FirstOff
    <1>7. (\A i \in DOMAIN published : Behind(published[i]) /\ Framed(published[i]))'
        BY <1>3, <1>4, <1>5 DEF Queue, Behind, Framed, End, EndOf, FirstOff
    <1>8. \A i \in DOMAIN published' : \A j \in DOMAIN pending' : Follows(published'[i], pending'[j])
        <2> SUFFICES ASSUME NEW i \in DOMAIN published', NEW j \in DOMAIN pending'
                     PROVE  Follows(published'[i], pending'[j])
            OBVIOUS
        <2>1. j + 1 \in DOMAIN pending /\ pending'[j] = pending[j + 1] /\ 1 < j + 1
            BY <1>1, <1>2
        <2>2. CASE i \in DOMAIN published /\ published'[i] = published[i]
            BY <2>1, <2>2 DEF Queue
        <2>3. CASE published'[i] = pending[1]
            BY <1>4, <2>1, <2>3 DEF Queue
        <2> QED
            BY <1>3, <2>2, <2>3
    <1>9. \A j, k \in DOMAIN pending' : j < k => Follows(pending'[j], pending'[k])
        <2> SUFFICES ASSUME NEW j \in DOMAIN pending', NEW k \in DOMAIN pending', j < k
                     PROVE  Follows(pending'[j], pending'[k])
            OBVIOUS
        <2>1. j + 1 < k + 1
            BY <1>1
        <2> QED
            BY <1>2, <2>1 DEF Queue
    <1> QED
        BY <1>1, <1>6, <1>7, <1>8, <1>9 DEF Queue, Follows

\* The next chunk is decoded: what is found in it ends in it, and begins after
\* all that ended in earlier ones.
LEMMA QueueDecode ==
    ASSUME PipelineTypeOK, InOrder, \A g \in Flows : Covers(g), Queue, NEW f \in Flows, Decode(f)
    PROVE  Queue' /\ pending' \in Seq(Messages)
    <1> DEFINE h == handled[f]
               c == delivered[f][h + 1]
               found == FoundIn(f, c)
               list == InOrderOf(f, found)
    <1>1. /\ pending = <<>> /\ pending' = list /\ handled' = [handled EXCEPT ![f] = h + 1]
          /\ UNCHANGED <<vars, seen, fields, published, state, stopped>>
          /\ UNCHANGED <<delivered, seen>>
        BY DEF Decode, vars
    <1>2. /\ delivered[f] \in Seq(Pieces) /\ h \in Nat /\ h + 1 \in 1 .. Len(delivered[f])
          /\ handled \in [Flows -> Nat] /\ published \in Seq(Messages)
        BY DEF PipelineTypeOK, TypeOK, Decode
    <1>3. c \in Pieces /\ c.off \in Nat /\ c.len \in Nat
        <2>1. c \in Pieces
            BY <1>2
        <2> QED
            BY <2>1 DEF Pieces
    <1>4. found \in SUBSET Records[f]
        BY DEF FoundIn
    <1>5. ASSUME NEW r \in found
          PROVE  /\ r.first \in Nat /\ r.last \in Nat /\ r.first >= FirstOff(f)
                 /\ EndOf(f, r) \in Nat /\ r.last <= EndOf(f, r)
                 /\ c.off <= EndOf(f, r) /\ EndOf(f, r) < End(c)
        <2>1. r \in Records[f] /\ EndOf(f, r) \in Bytes(c) /\ r.first >= FirstOff(f)
            BY <1>5 DEF FoundIn
        <2>2. EndOf(f, r) \in Nat /\ r.last <= EndOf(f, r)
            BY <2>1, EndOfType
        <2> QED
            BY <1>3, <2>1, <2>2, RecordType DEF Bytes, End
    <1>6. /\ list \in Seq({f} \X found)
          /\ \A j, k \in DOMAIN list : j < k => list[j][2].last < list[k][2].first
        BY <1>4, InOrderOfCorrect
    <1> HIDE DEF found, list
    <1>7. \A j \in DOMAIN list : list[j][1] = f /\ list[j][2] \in found
        BY <1>6
    <1>8. f \in Reporting /\ FirstOff(f) .. (End(c) - 1) \subseteq seen[f]
        BY <1>2 DEF Covers, SeenUpToEnds, FirstOff
    <1>9. FirstOff(f) \in Nat /\ End(c) \in Nat
        <2>1. delivered[f][1] \in Pieces
            BY <1>2
        <2> QED
            BY <1>3, <2>1 DEF FirstOff, Pieces, End
    <1>9a. \A r \in found : r.first .. r.last \subseteq seen[f]
        <2> SUFFICES ASSUME NEW r \in found, NEW x \in r.first .. r.last PROVE x \in seen[f]
            OBVIOUS
        <2>1. x \in FirstOff(f) .. (End(c) - 1)
            BY <1>5, <1>9
        <2> QED
            BY <1>8, <2>1
    <1>9b. \A r \in found : FirstOff(f) <= r.head => r.head .. r.tail \subseteq seen[f]
        <2> SUFFICES ASSUME NEW r \in found, FirstOff(f) <= r.head, NEW x \in r.head .. r.tail
                     PROVE  x \in seen[f]
            OBVIOUS
        <2>1. r.head \in Nat /\ r.tail \in Nat
            BY <1>4, RecordType
        <2>2. EndOf(f, r) = r.tail
            BY <1>9, <2>1 DEF EndOf
        <2>3. x \in FirstOff(f) .. (End(c) - 1)
            BY <1>5, <1>9, <2>1, <2>2
        <2> QED
            BY <1>8, <2>3
    <1>10. h >= 1 => End(delivered[f][h]) = c.off
        BY <1>2 DEF InOrder
    <1>11. (\A i \in DOMAIN pending : Whole(pending[i]) /\ Behind(pending[i]) /\ Framed(pending[i]))'
        <2> SUFFICES ASSUME NEW m, m[1] = f, m[2] \in found
                     PROVE  Whole(m)' /\ Behind(m)' /\ Framed(m)'
            BY <1>1, <1>7
        <2>1. Whole(m)' /\ Framed(m)'
            BY <1>1, <1>8, <1>9a, <1>9b DEF Whole, Framed, FirstOff
        <2>2. EndOf(f, m[2]) < End(c)
            BY <1>5
        <2>3. Behind(m)'
            BY <1>1, <1>2, <2>2 DEF Behind, End, EndOf, FirstOff
        <2> QED
            BY <2>1, <2>3
    <1>12. (\A i \in DOMAIN published : Behind(published[i]) /\ Framed(published[i]))'
        <2> SUFFICES ASSUME NEW m \in Messages, Behind(m), Framed(m) PROVE Behind(m)' /\ Framed(m)'
            BY <1>1, <1>2 DEF Queue
        <2>1. m[1] \in Flows /\ EndOf(m[1], m[2]) \in Nat
            BY MessageType, EndOfType
        <2>2. CASE m[1] = f
            <3>1. EndOf(m[1], m[2]) < c.off
                BY <1>10, <2>2 DEF Behind
            <3>2. EndOf(m[1], m[2]) < End(c)
                BY <1>3, <2>1, <3>1 DEF End
            <3> QED
                BY <1>1, <1>2, <2>2, <3>2 DEF Behind, Framed, End, EndOf, FirstOff
        <2>3. CASE m[1] # f
            BY <1>1, <1>2, <2>1, <2>3 DEF Behind, Framed, End, EndOf, FirstOff
        <2> QED
            BY <2>2, <2>3
    <1>13. \A i \in DOMAIN published' : \A j \in DOMAIN pending' : Follows(published'[i], pending'[j])
        <2> SUFFICES ASSUME NEW i \in DOMAIN published, NEW j \in DOMAIN list, published[i][1] = f
                     PROVE  published[i][2].last < list[j][2].first
            BY <1>1, <1>7 DEF Follows
        <2>1. published[i] \in Messages /\ Behind(published[i])
            BY <1>2 DEF Queue
        <2>2. published[i][2] \in Records[f] /\ list[j][2] \in Records[f]
            BY <1>4, <1>7, <2>1, MessageType
        <2>3. EndOf(f, published[i][2]) < c.off /\ c.off <= EndOf(f, list[j][2])
            BY <1>5, <1>7, <1>10, <2>1 DEF Behind
        <2>4. EndOf(f, published[i][2]) < EndOf(f, list[j][2])
            BY <1>3, <2>2, <2>3, EndOfType
        <2> QED
            BY <2>2, <2>4, CompletedLater
    <1>14. \A j, k \in DOMAIN pending' : j < k => Follows(pending'[j], pending'[k])
        BY <1>1, <1>6 DEF Follows
    <1>15. (~stopped => fields = state)'
        BY <1>1 DEF Queue
    <1>16. pending' \in Seq(Messages)
        <2>1. {f} \X found \subseteq Messages
            BY <1>4 DEF Messages
        <2> QED
            BY <1>1, <1>6, <2>1
    <1> QED
        BY <1>11, <1>12, <1>13, <1>14, <1>15, <1>16 DEF Queue, Follows

-----------------------------------------------------------------------------
(* The invariant. *)

IInv ==
    /\ PipelineTypeOK
    /\ SeqAgrees /\ InOrder
    /\ \A f \in Flows : Covers(f)
    /\ Queue

LEMMA IInvInit == PipelineInit => IInv
    <1> SUFFICES ASSUME PipelineInit PROVE IInv
        OBVIOUS
    <1>1. TypeOK /\ SeqAgrees /\ InOrder
        BY TypeInit, AgreesInit DEF PipelineInit
    <1>2. PipelineTypeOK
        <2>1. \A f \in Flows : handled[f] <= Len(delivered[f])
            <3> TAKE f \in Flows
            <3>1. handled[f] = 0 /\ delivered[f] = <<>>
                BY DEF PipelineInit, Init
            <3> QED
                BY <3>1
        <2>2. seen \in [Flows -> SUBSET Nat] /\ handled \in [Flows -> Nat]
            BY DEF PipelineInit
        <2>3. pending \in Seq(Messages) /\ published \in Seq(Messages)
            BY DEF PipelineInit
        <2>4. DOMAIN fields = Fields /\ DOMAIN state = Fields /\ stopped \in BOOLEAN
            BY DEF PipelineInit
        <2> QED
            BY <1>1, <2>1, <2>2, <2>3, <2>4 DEF PipelineTypeOK
    <1>3. Queue
        BY DEF PipelineInit, Queue
    <1> QED
        BY <1>1, <1>2, <1>3, CoversInit DEF IInv

LEMMA IInvStep == ASSUME ShortStreams, IInv, [PipelineNext]_pipelineVars PROVE IInv'
    <1> USE DEF IInv
    <1>1. CASE UNCHANGED pipelineVars
        <2>1. UNCHANGED vars /\ UNCHANGED seen /\ UNCHANGED processorVars
            BY <1>1 DEF pipelineVars
        <2> QED
            BY <2>1 DEF vars, processorVars, PipelineTypeOK, TypeOK, SeqAgrees, InOrder, FlowAgrees,
                        NextOff, End, SeqOf, Covers, SeenUpToEnds, Bytes, Queue, Whole, Behind,
                        Framed, EndOf, FirstOff, Follows
    <1>2. CASE PipelineNext
        <2>1. TypeOK' /\ SeqAgrees' /\ InOrder'
            BY <1>2, AssemblerStep, OrderStep DEF PipelineTypeOK
        <2>2. (\A f \in Flows : Covers(f))'
            BY <1>2, <2>1, CoversStep DEF PipelineTypeOK
        <2>3. \A f \in Flows : Extends(delivered[f], delivered'[f])
            BY <1>2, AssemblerStep, DeliveredExtends DEF PipelineTypeOK
        <2>4. \A f \in Flows : /\ delivered[f] \in Seq(Pieces) /\ delivered'[f] \in Seq(Pieces)
                               /\ Len(delivered[f]) <= Len(delivered'[f])
            BY <2>1, <2>3 DEF PipelineTypeOK, TypeOK, Extends
        <2>5. ASSUME NEW f \in Flows, (\E s \in wire[f] : Capture(f, s)) \/ Reassemble(f)
              PROVE  PipelineTypeOK' /\ Queue'
            <3>1. UNCHANGED processorVars
                BY <2>5 DEF Capture, Reassemble
            <3>2. seen' \in [Flows -> SUBSET Nat] /\ \A g \in Flows : seen[g] \subseteq seen'[g]
                <4>1. CASE Reassemble(f)
                    BY <4>1 DEF Reassemble, PipelineTypeOK
                <4>2. ASSUME NEW s \in wire[f], Capture(f, s)
                      PROVE  seen' \in [Flows -> SUBSET Nat] /\ \A g \in Flows : seen[g] \subseteq seen'[g]
                    <5>1. s \in Segments
                        BY WireType DEF PipelineTypeOK
                    <5>2. Bytes(s) \subseteq Nat
                        BY <5>1, SegmentsType DEF Bytes, End
                    <5> QED
                        BY <4>2, <5>2 DEF Capture, PipelineTypeOK
                <4> QED
                    BY <2>5, <4>1, <4>2
            <3>3. Queue'
                BY <2>3, <3>1, <3>2, QueueKept
            <3>4. \A g \in Flows : handled'[g] <= Len(delivered'[g])
                BY <2>4, <3>1 DEF PipelineTypeOK, processorVars
            <3>5. PipelineTypeOK'
                BY <2>1, <3>1, <3>2, <3>4 DEF PipelineTypeOK, processorVars
            <3> QED
                BY <3>3, <3>5
        <2>6. ASSUME NEW f \in Flows, Decode(f) PROVE PipelineTypeOK' /\ Queue'
            <3>1. Queue' /\ pending' \in Seq(Messages)
                BY <2>6, QueueDecode
            <3>2. /\ handled' = [handled EXCEPT ![f] = @ + 1] /\ handled[f] < Len(delivered[f])
                  /\ UNCHANGED <<delivered, seen, fields, published, state, stopped>>
                BY <2>6 DEF Decode, vars
            <3>3. handled' \in [Flows -> Nat] /\ \A g \in Flows : handled'[g] <= Len(delivered'[g])
                BY <2>4, <3>2 DEF PipelineTypeOK
            <3> QED
                BY <2>1, <3>1, <3>2, <3>3 DEF PipelineTypeOK
        <2>7. ASSUME Process PROVE PipelineTypeOK' /\ Queue'
            <3>1. Queue'
                BY <2>7, QueueProcess
            <3>2. pending' \in Seq(Messages) /\ published' \in Seq(Messages)
                BY <2>7 DEF Process, PipelineTypeOK
            <3>3. DOMAIN fields' = Fields /\ DOMAIN state' = Fields
                BY <2>7 DEF Process, Merge
            <3>4. UNCHANGED <<delivered, seen, handled, stopped>>
                BY <2>7 DEF Process, vars
            <3> QED
                BY <2>1, <3>1, <3>2, <3>3, <3>4 DEF PipelineTypeOK
        <2>8. ASSUME ProcessFails PROVE PipelineTypeOK' /\ Queue'
            <3>1. /\ UNCHANGED <<delivered, seen, handled, pending, published, state>>
                  /\ stopped' = TRUE /\ DOMAIN fields' = Fields
                BY <2>8 DEF ProcessFails, Merge, vars
            <3>2. Queue'
                BY <3>1 DEF Queue, Whole, Behind, Framed, Follows, End, EndOf, FirstOff
            <3> QED
                BY <2>1, <3>1, <3>2 DEF PipelineTypeOK
        <2> QED
            BY <1>2, <2>1, <2>2, <2>5, <2>6, <2>7, <2>8 DEF PipelineNext, Work
    <1> QED
        BY <1>1, <1>2

-----------------------------------------------------------------------------
(* The steps of the pipeline are steps of RecordStream. *)

LEMMA PromiseInit == PipelineInit => Promise!Init
    BY DEF PipelineInit, Promise!Init

LEMMA PromiseStep == ASSUME IInv, [PipelineNext]_pipelineVars PROVE [Promise!Next]_(Promise!vars)
    <1> USE DEF IInv
    <1>1. CASE UNCHANGED pipelineVars
        BY <1>1 DEF pipelineVars, processorVars, Promise!vars
    <1>2. ASSUME NEW f \in Flows, NEW s \in wire[f], Capture(f, s) PROVE Promise!Next
        <2>1. \A g \in Flows : seen[g] \subseteq seen'[g]
            BY <1>2 DEF Capture, PipelineTypeOK
        <2>2. UNCHANGED <<published, state>>
            BY <1>2 DEF Capture, processorVars
        <2> QED
            BY <2>1, <2>2 DEF Promise!Next, Promise!Capture
    <1>3. ASSUME NEW f \in Flows, Reassemble(f) \/ Decode(f) PROVE UNCHANGED Promise!vars
        BY <1>3 DEF Reassemble, Decode, processorVars, Promise!vars
    <1>4. CASE ProcessFails
        BY <1>4 DEF ProcessFails, Promise!vars
    <1>5. CASE Process
        <2> DEFINE m == Head(pending)
        <2>1. /\ pending \in Seq(Messages) /\ published \in Seq(Messages) /\ pending # <<>>
              /\ 1 \in DOMAIN pending /\ m = pending[1]
            BY <1>5 DEF PipelineTypeOK, Process
        <2>2. m \in Messages
            BY <2>1
        <2>3. m[1] \in Flows /\ m[2] \in Records[m[1]] /\ m = <<m[1], m[2]>>
            BY <2>2, MessageType
        <2>4. m[1] \in Reporting /\ m[2].first .. m[2].last \subseteq seen[m[1]]
            BY <2>1 DEF Queue, Whole
        <2>5. Promise!Newer(m[1], m[2])
            BY <2>1 DEF Queue, Follows, Promise!Newer
        <2>6. published' = Append(published, m) /\ UNCHANGED seen /\ fields = state
            BY <1>5 DEF Process, Queue
        <2>7. state' = [x \in Fields |-> IF x \in m[2].sets THEN m ELSE state[x]]
            BY <1>5, <2>6 DEF Process, Merge
        <2> HIDE DEF m
        <2>8. Promise!Publish(m[1], m[2])
            BY <2>3, <2>4, <2>5, <2>6, <2>7 DEF Promise!Publish
        <2> QED
            BY <2>3, <2>4, <2>8 DEF Promise!Next
    <1> QED
        BY <1>1, <1>2, <1>3, <1>4, <1>5 DEF PipelineNext, Work

LEMMA IInvHolds == ASSUME ShortStreams PROVE PipelineSpec => []IInv
    BY IInvInit, IInvStep, PTL DEF PipelineSpec

\* However packets cut a frame whose first byte was seen, it is published only
\* when the whole of it was captured, its checksum included.
THEOREM FramesAreCaptured == ASSUME ShortStreams PROVE PipelineSpec => []FramesAreWhole
    <1>1. IInv => FramesAreWhole
        BY DEF IInv, Queue, Framed, FramesAreWhole
    <1> QED
        BY <1>1, IInvHolds, PTL

\* Every variable of the pipeline stays in its set, and so does the assembler's
\* inside it.
THEOREM PipelineTypeCorrect == ASSUME ShortStreams PROVE PipelineSpec => []PipelineTypeOK
    <1>1. IInv => PipelineTypeOK
        BY DEF IInv
    <1> QED
        BY <1>1, IInvHolds, PTL

\* The order of the chunks, proved of the assembler alone, holds inside the
\* pipeline, which decides when it is called and with what.
THEOREM PipelineOrderCorrect == ASSUME ShortStreams PROVE PipelineSpec => [](SeqAgrees /\ InOrder)
    <1>1. IInv => SeqAgrees /\ InOrder
        BY DEF IInv
    <1> QED
        BY <1>1, IInvHolds, PTL

\* Whatever the capture misses and however senders cut and repeat their streams,
\* what is published is records captured whole, of flows to the cloud, each
\* once, in the order they were sent, and a state holds what each field was set
\* to last.
THEOREM PipelineRefines == ASSUME ShortStreams PROVE PipelineSpec => ImplementsRecordStream
    <1>1. IInv /\ [PipelineNext]_pipelineVars => [Promise!Next]_(Promise!vars)
        BY PromiseStep
    <1>2. PipelineInit => Promise!Init
        BY PromiseInit
    <1> QED
        BY <1>1, <1>2, IInvHolds, PTL DEF PipelineSpec, ImplementsRecordStream, Promise!Spec

-----------------------------------------------------------------------------
(* The assembler's own properties inside the pipeline. *)

LEMMA PipelineAssembles == PipelineSpec => Init /\ [][Next]_vars
    <1>1. PipelineInit => Init
        BY DEF PipelineInit
    <1>2. [PipelineNext]_pipelineVars => [Next]_vars
        BY AssemblerStep DEF pipelineVars
    <1> QED
        BY <1>1, <1>2, PTL DEF PipelineSpec

\* Called one packet at a time, with what passes the filter, the assembler
\* throws no captured byte away and waits for none that it has.
THEOREM PipelineComplete == ASSUME ShortStreams PROVE PipelineSpec => [](NoByteLost /\ NoStall)
    <1>1. AssemblerInv => NoByteLost /\ NoStall
        BY RecoversShows DEF AssemblerInv
    <1> QED
        BY <1>1, PipelineAssembles, AssemblerInvHolds, PTL

\* The assembler inside the pipeline implements the abstract byte stream.
THEOREM PipelineStreams == ASSUME ShortStreams PROVE PipelineSpec => ImplementsByteStream
    BY PipelineAssembles, StreamRefines, PTL

-----------------------------------------------------------------------------
(* Completeness: a record captured whole is published. *)

\* Every record found in a chunk is in the list made of them.
LEMMA InOrderOfAll ==
    ASSUME NEW f \in Flows, NEW found \in SUBSET Records[f], NEW r \in found
    PROVE  \E i \in DOMAIN InOrderOf(f, found) : InOrderOf(f, found)[i] = <<f, r>>
    <1> DEFINE i == Rank(found, r)
               q == CHOOSE x \in found : Rank(found, x) = i
    <1>1. i \in 1 .. Cardinality(found)
        BY RankType
    <1>2. q \in found /\ Rank(found, q) = i
        OBVIOUS
    <1>3. InOrderOf(f, found)[i] = <<f, q>> /\ i \in DOMAIN InOrderOf(f, found)
        BY <1>1 DEF InOrderOf
    <1> HIDE DEF q
    <1>4. q = r
        <2>1. Rank(found, q) = Rank(found, r) /\ Rank(found, r) \in Nat
            BY <1>2, RankType
        <2>2. ~(q.last < r.last) /\ ~(r.last < q.last)
            BY <1>2, <2>1, RankMonotone
        <2>3. q = r \/ q.tail < r.head \/ r.tail < q.head
            BY <1>2, RecordsAssumption
        <2> QED
            BY <1>2, <2>2, <2>3, RecordType
    <1> QED
        BY <1>3, <1>4

\* A message is on its way, or its state was published.
Reached(m) ==
    \/ \E i \in DOMAIN pending : pending[i] = m
    \/ \E i \in DOMAIN published : published[i] = m

\* All that is seen of a flow to the cloud reaches its assembler, and every
\* record found in a chunk the decoder was given is on its way or published.
AllSeen == \A f \in Reporting : f \in Flows /\ seen[f] = captured[f]
AllDecoded ==
    \A f \in Flows : \A i \in 1 .. handled[f] :
        \A r \in FoundIn(f, delivered[f][i]) : Reached(<<f, r>>)

LEMMA AllSeenStep == ASSUME PipelineTypeOK, AllSeen, PipelineNext PROVE AllSeen'
    <1> SUFFICES ASSUME NEW g \in Reporting, g \in Flows, seen[g] = captured[g]
                 PROVE  seen'[g] = captured'[g]
        BY DEF AllSeen
    <1>1. ASSUME NEW f \in Flows, NEW s \in wire[f], Capture(f, s) PROVE seen'[g] = captured'[g]
        <2>1. seen' = [seen EXCEPT ![f] = @ \cup Bytes(s)] /\ seen \in [Flows -> SUBSET Nat]
              /\ captured \in [Flows -> SUBSET Nat]
            BY <1>1 DEF Capture, PipelineTypeOK, TypeOK
        <2>2. CASE Outbound(f)
            <3>1. captured' = [captured EXCEPT ![f] = @ \cup Bytes(s)]
                BY <1>1, <2>2 DEF Capture, Push
            <3> QED
                BY <2>1, <3>1
        <2>3. CASE ~Outbound(f)
            <3>1. g # f /\ captured' = captured
                BY <1>1, <2>3, ReportingAssumption DEF Outbound, Capture, vars
            <3> QED
                BY <2>1, <3>1
        <2> QED
            BY <2>2, <2>3
    <1>2. ASSUME NEW f \in Flows, Reassemble(f) PROVE seen'[g] = captured'[g]
        BY <1>2 DEF Reassemble, Drain, DrainStep, DrainEnd
    <1>3. CASE UNCHANGED <<vars, seen>>
        BY <1>3 DEF vars
    <1> QED
        BY <1>1, <1>2, <1>3 DEF PipelineNext, Work, Decode, Process, ProcessFails

\* What was found in the chunks given to the decoder does not change.
LEMMA FoundKept ==
    ASSUME PipelineTypeOK, NEW f \in Flows, Extends(delivered[f], delivered'[f]),
           NEW i \in 1 .. handled[f]
    PROVE  FoundIn(f, delivered[f][i])' = FoundIn(f, delivered[f][i])
    <1>1. /\ delivered[f] \in Seq(Pieces) /\ handled[f] \in Nat /\ handled[f] <= Len(delivered[f])
        BY DEF PipelineTypeOK, TypeOK
    <1>2. i \in 1 .. Len(delivered[f]) /\ 1 \in 1 .. Len(delivered[f])
        BY <1>1
    <1>3. delivered'[f][i] = delivered[f][i] /\ delivered'[f][1] = delivered[f][1]
        BY <1>2 DEF Extends
    <1> QED
        BY <1>3 DEF FoundIn, EndOf, FirstOff, Bytes, End

LEMMA AllDecodedStep ==
    ASSUME PipelineTypeOK, AllDecoded, PipelineNext,
           \A f \in Flows : Extends(delivered[f], delivered'[f])
    PROVE  AllDecoded'
    <1>0. pending \in Seq(Messages) /\ published \in Seq(Messages)
        BY DEF PipelineTypeOK
    <1>1. ASSUME \A m \in Messages : Reached(m) => Reached(m)', handled' = handled
          PROVE  AllDecoded'
        <2> SUFFICES ASSUME NEW f \in Flows, NEW i \in 1 .. handled'[f],
                            NEW r \in FoundIn(f, delivered[f][i])'
                     PROVE  Reached(<<f, r>>)'
            BY DEF AllDecoded
        <2>1. i \in 1 .. handled[f] /\ r \in FoundIn(f, delivered[f][i])
            BY <1>1, FoundKept
        <2>2. Reached(<<f, r>>) /\ r \in Records[f]
            BY <2>1 DEF AllDecoded, FoundIn
        <2>3. <<f, r>> \in Messages
            BY <2>2 DEF Messages
        <2> QED
            BY <1>1, <2>2, <2>3
    <1>2. ASSUME UNCHANGED <<handled, pending, published>> PROVE AllDecoded'
        BY <1>1, <1>2 DEF Reached
    <1>3. CASE Process
        <2>1. /\ pending # <<>> /\ pending' = Tail(pending)
              /\ published' = Append(published, Head(pending)) /\ handled' = handled
            BY <1>3 DEF Process
        <2>2. ASSUME NEW m \in Messages, Reached(m) PROVE Reached(m)'
            <3>1. ASSUME NEW i \in DOMAIN published, published[i] = m PROVE Reached(m)'
                <4>1. i \in DOMAIN published' /\ published'[i] = m
                    BY <1>0, <2>1, <3>1
                <4> QED
                    BY <4>1 DEF Reached
            <3>2. ASSUME NEW i \in DOMAIN pending, pending[i] = m, i = 1 PROVE Reached(m)'
                <4>1. Len(published') \in DOMAIN published' /\ published'[Len(published')] = m
                    BY <1>0, <2>1, <3>2
                <4> QED
                    BY <4>1 DEF Reached
            <3>3. ASSUME NEW i \in DOMAIN pending, pending[i] = m, i # 1 PROVE Reached(m)'
                <4>1. i - 1 \in DOMAIN pending' /\ pending'[i - 1] = m
                    BY <1>0, <2>1, <3>3
                <4> QED
                    BY <4>1 DEF Reached
            <3> QED
                BY <2>2, <3>1, <3>2, <3>3 DEF Reached
        <2> QED
            BY <1>1, <2>1, <2>2
    <1>4. ASSUME NEW g \in Flows, Decode(g) PROVE AllDecoded'
        <2> DEFINE h == handled[g]
                   c == delivered[g][h + 1]
        <2>1. /\ pending = <<>> /\ pending' = InOrderOf(g, FoundIn(g, c)) /\ h < Len(delivered[g])
              /\ handled' = [handled EXCEPT ![g] = h + 1] /\ handled \in [Flows -> Nat]
              /\ UNCHANGED <<delivered, published>>
            BY <1>4 DEF Decode, vars, PipelineTypeOK
        <2> SUFFICES ASSUME NEW f \in Flows, NEW i \in 1 .. handled'[f],
                            NEW r \in FoundIn(f, delivered[f][i])'
                     PROVE  Reached(<<f, r>>)'
            BY DEF AllDecoded
        <2>2. r \in FoundIn(f, delivered[f][i])
            BY <2>1 DEF FoundIn, EndOf, FirstOff, Bytes, End
        <2>3. CASE i \in 1 .. handled[f]
            <3>1. Reached(<<f, r>>)
                BY <2>2, <2>3 DEF AllDecoded
            <3>2. ~(\E j \in DOMAIN pending : pending[j] = <<f, r>>)
                BY <2>1
            <3> QED
                BY <2>1, <3>1, <3>2 DEF Reached
        <2>4. CASE i \notin 1 .. handled[f]
            <3>1. f = g /\ i = h + 1
                BY <2>1, <2>4
            <3>2. FoundIn(g, c) \in SUBSET Records[g] /\ r \in FoundIn(g, c)
                BY <2>2, <3>1 DEF FoundIn
            <3>3. \E j \in DOMAIN pending' : pending'[j] = <<g, r>>
                BY <2>1, <3>2, InOrderOfAll
            <3> QED
                BY <3>1, <3>3 DEF Reached
        <2> QED
            BY <2>3, <2>4
    <1>5. ASSUME NEW f \in Flows, NEW s \in wire[f], Capture(f, s) PROVE AllDecoded'
        BY <1>2, <1>5 DEF Capture, processorVars
    <1>6. ASSUME NEW f \in Flows, Reassemble(f) PROVE AllDecoded'
        BY <1>2, <1>6 DEF Reassemble, processorVars
    <1>7. CASE ProcessFails
        BY <1>2, <1>7 DEF ProcessFails
    <1> QED
        BY <1>3, <1>4, <1>5, <1>6, <1>7 DEF PipelineNext, Work

CompleteInv == IInv /\ AssemblerInv /\ AllSeen /\ AllDecoded

\* Between two packets the flow waits for a byte that was not seen, so a record
\* without a gap before it ends in a chunk the decoder was given.
LEMMA CompleteShows == CompleteInv => CapturedIsPublished
    <1> SUFFICES ASSUME CompleteInv, Idle, NEW f \in Reporting, seen[f] # {}, Aligned(f), Half(f)
                 PROVE  /\ delivered[f] # <<>>
                        /\ \A r \in Records[f] : Complete(f, r) => r \in PublishedOf(f)
        BY DEF CapturedIsPublished
    <1> USE DEF CompleteInv, IInv
    <1>1. f \in Flows /\ seen[f] = captured[f] /\ TypeOK
        BY DEF AllSeen, AssemblerInv
    <1>2. delivered[f] # <<>> /\ HandedOn(f) /\ FlowAgrees(f)
        BY <1>1 DEF AssemblerInv, Recovers, SeqAgrees, FlowAgrees
    <1>3. ~Stalls(f)
        BY <1>1, RecoversShows DEF AssemblerInv, NoStall, Idle
    <1>4. NextOff(f) \in Nat /\ NextOff(f) \notin captured[f]
        BY <1>1, <1>2, <1>3, NextOffType DEF Stalls
    <1>5. ASSUME NEW r \in Records[f], Complete(f, r) PROVE r \in PublishedOf(f)
        <2> DEFINE e == EndOf(f, r)
        <2>1. FirstOff(f) \in Nat
            BY <1>1, <1>2 DEF HandedOn
        <2>2. e \in Nat /\ FirstOff(f) <= r.first /\ FirstOff(f) <= e
              /\ FirstOff(f) .. e \subseteq captured[f]
            BY <1>1, <1>5, <2>1, RecordType DEF Complete, EndOf
        <2> HIDE DEF e
        <2>3. e < NextOff(f)
            BY <1>2, <1>4, <2>1, <2>2 DEF HandedOn
        <2>4. e \in DeliveredBytes(f)
            BY <1>2, <1>4, <2>1, <2>2, <2>3 DEF HandedOn
        <2>5. PICK i \in DOMAIN delivered[f] : e \in Bytes(delivered[f][i])
            BY <2>4 DEF DeliveredBytes
        <2>6. i \in 1 .. handled[f] /\ r \in FoundIn(f, delivered[f][i])
            BY <1>1, <1>5, <2>1, <2>2, <2>5, RecordType DEF Idle, TypeOK, FoundIn, e
        <2>7. \E j \in DOMAIN published : published[j] = <<f, r>>
            <3>1. Reached(<<f, r>>)
                BY <1>1, <2>6 DEF AllDecoded
            <3>2. pending = <<>>
                BY DEF Idle
            <3> QED
                BY <3>1, <3>2 DEF Reached
        <2> QED
            BY <2>7 DEF PublishedOf
    <1> QED
        BY <1>2, <1>5

LEMMA CompleteStep == ASSUME ShortStreams, CompleteInv, [PipelineNext]_pipelineVars PROVE CompleteInv'
    <1> USE DEF CompleteInv
    <1>1. IInv'
        BY IInvStep
    <1>2. AssemblerInv'
        BY AssemblerStep, AssemblerInvStep DEF pipelineVars
    <1>3. CASE UNCHANGED pipelineVars
        <2>1. AllSeen' /\ AllDecoded'
            BY <1>3 DEF pipelineVars, processorVars, vars, AllSeen, AllDecoded, Reached, FoundIn,
                        EndOf, FirstOff, Bytes, End
        <2> QED
            BY <1>1, <1>2, <2>1
    <1>4. CASE PipelineNext
        <2>1. PipelineTypeOK /\ TypeOK
            BY DEF IInv, AssemblerInv
        <2>2. \A f \in Flows : Extends(delivered[f], delivered'[f])
            BY <1>4, <2>1, AssemblerStep, DeliveredExtends
        <2>3. AllSeen' /\ AllDecoded'
            BY <1>4, <2>1, <2>2, AllSeenStep, AllDecodedStep
        <2> QED
            BY <1>1, <1>2, <2>3
    <1> QED
        BY <1>3, <1>4

\* Every record captured without a gap before it is published by the time the
\* next packet is read, on every flow to the cloud whose sender repeats what it
\* sent as it first cut it, unless an error has ended the process.
THEOREM PublishesCaptured == ASSUME ShortStreams PROVE PipelineSpec => []CapturedIsPublished
    <1>1. PipelineInit => CompleteInv
        <2> SUFFICES ASSUME PipelineInit PROVE CompleteInv
            OBVIOUS
        <2>1. IInv /\ AssemblerInv
            BY IInvInit, TypeInit, AgreesInit, RecoversInit DEF PipelineInit, AssemblerInv
        <2>2. AllSeen
            BY ReportingAssumption DEF PipelineInit, Init, AllSeen
        <2>3. AllDecoded
            BY DEF PipelineInit, AllDecoded
        <2> QED
            BY <2>1, <2>2, <2>3 DEF CompleteInv
    <1>2. CompleteInv /\ [PipelineNext]_pipelineVars => CompleteInv'
        BY CompleteStep
    <1> QED
        BY <1>1, <1>2, CompleteShows, PTL DEF PipelineSpec
=============================================================================
