----------------------------- MODULE DecoderProofs -----------------------------
(***************************************************************************)
(* Proofs about the decoder, for every set of streams, chunk size, limit,  *)
(* checksum and JSON parser: its buffer is the tail of what was fed, it is *)
(* bounded but for one open object, the parse loop always moves on, and    *)
(* what it finds does not depend on how the stream is cut.                 *)
(*                                                                         *)
(* The first half rests on two facts about one iteration (IterationShape): *)
(* it either returns with a suffix of the buffer, or goes on with a proper *)
(* suffix.  What a suffix of a tail is (SuffixOfTail) does the rest.       *)
(*                                                                         *)
(* The second half compares the decoder with a reading of the stream as a  *)
(* whole.  The chunks to come are not known, so the invariant ReadSoFar    *)
(* speaks of every prefix the decoder may yet see: what was found, and     *)
(* then what the prefix gives from the buffer on, is what it gives as a    *)
(* whole.  That readings and scans exist, and what they have in common, is *)
(* shown by a least counterexample (Downwards, Upwards).                   *)
(***************************************************************************)
EXTENDS Decoder, Arithmetic, SequenceTheorems

(* Suffixes of a buffer. *)

\* The bytes of b from its i-th on.
LEMMA FromProperties ==
    ASSUME NEW b \in Seq(Byte), NEW i \in 1 .. Len(b) + 1
    PROVE  /\ From(b, i) \in Seq(Byte)
           /\ Len(From(b, i)) = Len(b) - i + 1
           /\ \A j \in 1 .. Len(b) - i + 1 : From(b, i)[j] = b[i + j - 1]
    <1>1. \A j \in i .. Len(b) : b[j] \in Byte
        OBVIOUS
    <1>2. i \in Int /\ Len(b) \in Int
        OBVIOUS
    <1> QED
        BY <1>1, <1>2, SubSeqProperties DEF From

\* A part of a sequence of bytes is a sequence of bytes.
LEMMA PartType ==
    ASSUME NEW b \in Seq(Byte), NEW m \in Nat, NEW n \in Nat, 1 <= m, n <= Len(b)
    PROVE  /\ SubSeq(b, m, n) \in Seq(Byte)
           /\ Len(SubSeq(b, m, n)) = IF m <= n THEN n - m + 1 ELSE 0
    <1>1. \A j \in m .. n : b[j] \in Byte
        OBVIOUS
    <1> QED
        BY <1>1, SubSeqProperties

\* A suffix of a tail of s is a tail of s.
LEMMA SuffixOfTail ==
    ASSUME NEW s \in Seq(Byte), NEW n \in 0 .. Len(s), NEW b \in Seq(Byte),
           Len(b) <= n, b = SubSeq(s, n - Len(b) + 1, n), NEW i \in 1 .. Len(b) + 1
    PROVE  From(b, i) = SubSeq(s, n - Len(From(b, i)) + 1, n)
    <1>1. Len(From(b, i)) = Len(b) - i + 1
        BY FromProperties
    <1>2. CASE i = Len(b) + 1
        <2>1. From(b, i) = <<>>
            BY <1>2, SubSeqEmpty DEF From
        <2>2. SubSeq(s, n + 1, n) = <<>>
            BY SubSeqEmpty
        <2>3. n - Len(From(b, i)) + 1 = n + 1
            BY <1>1, <1>2
        <2> QED
            BY <2>1, <2>2, <2>3
    <1>3. CASE i <= Len(b)
        <2> DEFINE k == n - Len(b)
        <2>1. k + 1 \in 1 .. Len(s) /\ n \in 1 .. Len(s)
            BY <1>3
        <2>2. i \in 1 .. n - (k + 1) + 1 /\ Len(b) \in 1 .. n - (k + 1) + 1
            BY <1>3
        <2>3. SubSeq(SubSeq(s, k + 1, n), i, Len(b)) = SubSeq(s, k + 1 + i - 1, k + 1 + Len(b) - 1)
            BY <2>1, <2>2, SubSeqOfSubSeq
        <2>4. k + 1 + Len(b) - 1 = n /\ k + 1 + i - 1 = n - (Len(b) - i + 1) + 1
            OBVIOUS
        <2> QED
            BY <1>1, <2>3, <2>4 DEF From
    <1> QED
        BY <1>2, <1>3

-----------------------------------------------------------------------------
(* One iteration. *)

\* A record starts after the first byte and before the end.
LEMMA StartsType ==
    ASSUME NEW b \in Seq(Byte)
    PROVE  Starts(b) \subseteq 2 .. Len(b)
    BY DEF Starts, FrameStarts, Opens

\* The object b begins with ends within b.
LEMMA ObjectEndType ==
    ASSUME NEW b \in Seq(Byte), Closing(b) # {}
    PROVE  ObjectEnd(b) \in 1 .. Len(b)
    <1>1. Closing(b) \subseteq 1 .. Len(b)
        BY DEF Closing
    <1> HIDE DEF Closing
    <1>2. ObjectEnd(b) \in Closing(b)
        BY <1>1, Least DEF ObjectEnd
    <1> QED
        BY <1>1, <1>2

\* The buffer limit leaves a suffix, which is within the limit or begins with
\* its only {.
LEMMA DiscardProperties ==
    ASSUME NEW b \in Seq(Byte)
    PROVE  /\ \E i \in 1 .. Len(b) + 1 : Discard(b) = From(b, i)
           /\ Len(Discard(b)) > MaxBuffered => Opens(Discard(b)) = {1}
    <1> USE LimitsAssumption
    <1>1. CASE Len(b) <= MaxBuffered
        <2>1. Discard(b) = b
            BY <1>1 DEF Discard
        <2>2. From(b, 1) = b
            BY SubSeqFull DEF From
        <2> QED
            BY <1>1, <2>1, <2>2
    <1>2. CASE Len(b) > MaxBuffered /\ Opens(b) = {}
        <2>1. Discard(b) = <<>>
            BY <1>2 DEF Discard
        <2>2. From(b, Len(b) + 1) = <<>>
            BY SubSeqEmpty DEF From
        <2> QED
            BY <2>1, <2>2
    <1>3. CASE Len(b) > MaxBuffered /\ Opens(b) # {}
        <2> DEFINE m == CHOOSE i \in Opens(b) : \A j \in Opens(b) : j <= i
        <2>0. Len(b) \in Nat
            OBVIOUS
        <2>1. Opens(b) \subseteq 0 .. Len(b) /\ Opens(b) \subseteq 1 .. Len(b)
            BY DEF Opens
        <2>2. m \in Opens(b) /\ \A j \in Opens(b) : j <= m
            BY <1>3, <2>0, <2>1, Greatest, Zenon
        <2>3. Discard(b) = From(b, m)
            BY <1>3 DEF Discard
        <2> HIDE DEF m
        <2>4. m \in 1 .. Len(b) /\ b[m] = Open
            BY <2>1, <2>2 DEF Opens
        <2>5. /\ Len(From(b, m)) = Len(b) - m + 1
              /\ \A j \in 1 .. Len(b) - m + 1 : From(b, m)[j] = b[m + j - 1]
            BY <2>4, FromProperties
        <2>6. 1 \in Opens(From(b, m))
            BY <2>4, <2>5 DEF Opens
        <2>7. ASSUME NEW j \in Opens(From(b, m)) PROVE j = 1
            <3>1. j \in 1 .. Len(b) - m + 1 /\ b[m + j - 1] = Open
                BY <2>4, <2>5, <2>7 DEF Opens
            <3>2. m + j - 1 \in Opens(b)
                BY <2>4, <3>1 DEF Opens
            <3> QED
                BY <2>2, <2>4, <3>1, <3>2
        <2>8. Opens(From(b, m)) = {1}
            BY <2>6, <2>7
        <2> QED
            BY <2>3, <2>4, <2>8
    <1> QED
        BY <1>1, <1>2, <1>3

-----------------------------------------------------------------------------
(* The shape of an iteration. *)

\* The records' lengths are numbers once the header is there.
LEMMA FrameLenType ==
    ASSUME NEW b \in Seq(Byte), Len(b) >= HeaderLen
    PROVE  /\ PayloadLen(b) \in Nat
           /\ FrameLen(b) = HeaderLen + PayloadLen(b) + ChecksumLen
    BY DEF PayloadLen, FrameLen, HeaderLen, ChecksumLen, Byte

\* An iteration returns with a suffix of the buffer, within the limit or one
\* open object, or goes on with a proper suffix.
Shape ==
    \/ /\ busy' = FALSE
       /\ \E i \in 1 .. Len(buffer) + 1 : buffer' = From(buffer, i)
       /\ Len(buffer') > MaxBuffered => Opens(buffer') = {1}
    \/ /\ busy' = busy
       /\ \E i \in 2 .. Len(buffer) + 1 : buffer' = From(buffer, i)

LEMMA IterationShape ==
    ASSUME TypeOK, Iteration
    PROVE  Shape /\ busy /\ fed' = fed /\ stream' = stream
    <1> USE LimitsAssumption
    <1>0. buffer \in Seq(Byte) /\ Len(buffer) \in Nat
        BY DEF TypeOK
    <1>1. From(buffer, 1) = buffer /\ 1 \in 1 .. Len(buffer) + 1
        BY <1>0, SubSeqFull DEF From
    <1>2. CASE WaitForHeader
        <2>1. Len(buffer) <= MaxBuffered
            BY <1>2, <1>0 DEF WaitForHeader, HeaderLen, ChecksumLen
        <2>2. /\ buffer' = buffer /\ busy' = FALSE /\ busy
              /\ fed' = fed /\ stream' = stream
            BY <1>2 DEF WaitForHeader, Return
        <2>3. ~(Len(buffer') > MaxBuffered)
            BY <1>0, <2>1, <2>2
        <2>4. \E i \in 1 .. Len(buffer) + 1 : buffer' = From(buffer, i)
            BY <1>1, <2>2, Zenon
        <2> QED
            BY <2>2, <2>3, <2>4 DEF Shape
    <1>3. CASE WaitForFrame
        <2>1. Len(buffer) <= MaxBuffered
            BY <1>3, <1>0, FrameLenType DEF WaitForFrame, HeaderLen, ChecksumLen
        <2>2. /\ buffer' = buffer /\ busy' = FALSE /\ busy
              /\ fed' = fed /\ stream' = stream
            BY <1>3 DEF WaitForFrame, Return
        <2>3. ~(Len(buffer') > MaxBuffered)
            BY <1>0, <2>1, <2>2
        <2>4. \E i \in 1 .. Len(buffer) + 1 : buffer' = From(buffer, i)
            BY <1>1, <2>2, Zenon
        <2> QED
            BY <2>2, <2>3, <2>4 DEF Shape
    <1>4. CASE RejectLength
        <2>1. 2 \in 2 .. Len(buffer) + 1
            BY <1>4, <1>0 DEF RejectLength, AtFrame
        <2> QED
            BY <1>4, <2>1 DEF RejectLength, ContinueFrom, Shape
    <1>5. CASE TakeFrame
        <2>1. FrameLen(buffer) + 1 \in 2 .. Len(buffer) + 1
            BY <1>5, <1>0, FrameLenType DEF TakeFrame, HeaderLen, ChecksumLen
        <2> QED
            BY <1>5, <2>1 DEF TakeFrame, ContinueFrom, Shape
    <1>6. CASE Align
        <2> DEFINE m == CHOOSE i \in Starts(buffer) : \A j \in Starts(buffer) : i <= j
        <2>1. Starts(buffer) \subseteq 2 .. Len(buffer) /\ Starts(buffer) # {}
            BY <1>0, <1>6, StartsType DEF Align
        <2>2. Starts(buffer) \subseteq Nat
            BY <2>1
        <2>3. m \in Starts(buffer)
            BY <2>1, <2>2, Least, Zenon
        <2>4. buffer' = From(buffer, m) /\ UNCHANGED <<stream, fed, busy>> /\ busy
            BY <1>6 DEF Align, ContinueFrom
        <2> HIDE DEF m
        <2>5. m \in 2 .. Len(buffer) + 1
            BY <1>0, <2>1, <2>3
        <2> QED
            BY <2>4, <2>5 DEF Shape
    <1>7. CASE WaitForRecord
        BY <1>7, <1>0, DiscardProperties DEF WaitForRecord, Return, Shape
    <1>8. CASE TakeObject
        <2>1. ObjectEnd(buffer) + 1 \in 2 .. Len(buffer) + 1
            BY <1>8, <1>0, ObjectEndType DEF TakeObject
        <2> QED
            BY <1>8, <2>1 DEF TakeObject, AtObject, ContinueFrom, Shape
    <1>9. CASE WaitForObject
        BY <1>9, <1>0, DiscardProperties DEF WaitForObject, AtObject, Return, Shape
    <1> QED
        BY <1>2, <1>3, <1>4, <1>5, <1>6, <1>7, <1>8, <1>9 DEF Iteration

\* What an iteration adds to the messages is a sequence of bytes.
LEMMA MessagesType ==
    ASSUME TypeOK, Iteration
    PROVE  messages' \in Seq(Seq(Byte))
    <1>0. buffer \in Seq(Byte) /\ messages \in Seq(Seq(Byte)) /\ Len(buffer) \in Nat
        BY DEF TypeOK
    <1>1. ASSUME NEW raw \in Seq(Byte), Emit(raw) PROVE messages' \in Seq(Seq(Byte))
        BY <1>0, <1>1 DEF Emit
    <1>2. CASE TakeFrame
        <2>1. /\ HeaderLen + 1 \in Nat /\ 1 <= HeaderLen + 1
              /\ HeaderLen + PayloadLen(buffer) \in Nat
              /\ HeaderLen + PayloadLen(buffer) <= Len(buffer)
            BY <1>0, <1>2, FrameLenType DEF TakeFrame, HeaderLen, ChecksumLen
        <2>2. Payload(buffer) \in Seq(Byte)
            BY <1>0, <2>1, PartType DEF Payload
        <2>3. Emit(Payload(buffer)) \/ UNCHANGED messages
            BY <1>2 DEF TakeFrame
        <2> QED
            BY <1>0, <1>1, <2>2, <2>3
    <1>3. CASE TakeObject
        <2>1. ObjectEnd(buffer) \in 1 .. Len(buffer)
            BY <1>0, <1>3, ObjectEndType DEF TakeObject
        <2>2. SubSeq(buffer, 1, ObjectEnd(buffer)) \in Seq(Byte)
            BY <1>0, <2>1, PartType
        <2> QED
            BY <1>1, <1>3, <2>2 DEF TakeObject
    <1>4. CASE ~TakeFrame /\ ~TakeObject
        BY <1>0, <1>4 DEF Iteration, WaitForHeader, WaitForFrame, RejectLength, Align,
                          WaitForRecord, WaitForObject, Return
    <1> QED
        BY <1>2, <1>3, <1>4

-----------------------------------------------------------------------------
(* The inductive invariant and the theorems. *)

Inv == TypeOK /\ BufferIsTail /\ OnlyOpenObjectOutgrows

LEMMA InvInit == Init => Inv
    <1> SUFFICES ASSUME Init PROVE Inv
        OBVIOUS
    <1>1. stream \in Seq(Byte)
        BY StreamsAssumption DEF Init
    <1>2. SubSeq(stream, 1, 0) = <<>>
        BY SubSeqEmpty
    <1>3. buffer = <<>> /\ Len(buffer) = 0 /\ fed = 0 /\ messages = <<>> /\ busy = FALSE
        BY DEF Init
    <1>4. TypeOK
        <2>1. stream \in Streams
            BY DEF Init
        <2>2. fed \in 0 .. Len(stream) /\ Len(buffer) <= fed
            BY <1>1, <1>3
        <2>3. buffer \in Seq(Byte) /\ messages \in Seq(Seq(Byte)) /\ busy \in BOOLEAN
            BY <1>1, <1>3, EmptySeq
        <2>4. limited \in BOOLEAN
            BY DEF Init
        <2> QED
            BY <2>1, <2>2, <2>3, <2>4 DEF TypeOK
    <1>5. BufferIsTail
        <2>1. fed - Len(buffer) + 1 = 1
            BY <1>3
        <2> QED
            BY <1>2, <1>3, <2>1 DEF BufferIsTail
    <1>6. OnlyOpenObjectOutgrows
        BY <1>3, LimitsAssumption DEF OnlyOpenObjectOutgrows
    <1> QED
        BY <1>4, <1>5, <1>6 DEF Inv

\* A chunk joins the tail of what was fed.
LEMMA PushStep ==
    ASSUME Inv, NEW n \in 1 .. MaxChunk, Push(n)
    PROVE  Inv'
    <1> DEFINE chunk == SubSeq(stream, fed + 1, fed + n)
    <1>0. /\ stream \in Seq(Byte) /\ stream \in Streams /\ fed \in 0 .. Len(stream)
          /\ buffer \in Seq(Byte) /\ Len(buffer) \in 0 .. fed
          /\ buffer = SubSeq(stream, fed - Len(buffer) + 1, fed)
        BY StreamsAssumption DEF Inv, TypeOK, BufferIsTail
    <1>1. n \in Nat /\ n >= 1 /\ fed + n <= Len(stream)
        BY DEF Push
    <1>2. chunk \in Seq(Byte) /\ Len(chunk) = n
        <2>1. fed + 1 \in Nat /\ fed + n \in Nat /\ 1 <= fed + 1 /\ fed + 1 <= fed + n
            BY <1>0, <1>1
        <2>2. (fed + n) - (fed + 1) + 1 = n
            BY <1>0, <1>1
        <2> QED
            BY <1>0, <1>1, <2>1, <2>2, PartType
    <1>3. buffer \o chunk = SubSeq(stream, fed - Len(buffer) + 1, fed + n)
        <2>1. /\ fed - Len(buffer) + 1 \in 1 .. Len(stream) + 1
              /\ fed \in fed - Len(buffer) + 1 - 1 .. Len(stream)
              /\ fed + n \in fed .. Len(stream)
            BY <1>0, <1>1
        <2> QED
            BY <1>0, <2>1, ConcatAdjacentSubSeq
    <1>4. buffer \o chunk \in Seq(Byte) /\ Len(buffer \o chunk) = Len(buffer) + n
        BY <1>0, <1>2, ConcatProperties
    <1>5. /\ buffer' = buffer \o chunk /\ fed' = fed + n /\ stream' = stream
          /\ busy' = TRUE /\ messages' = messages /\ limited' = limited
        BY DEF Push
    <1> HIDE DEF chunk
    <1>6. TypeOK'
        BY <1>0, <1>1, <1>4, <1>5 DEF Inv, TypeOK
    <1>7. BufferIsTail'
        <2>1. Len(buffer') = Len(buffer) + n
            BY <1>4, <1>5
        <2>2. Len(buffer) \in Nat /\ fed \in Nat
            BY <1>0
        <2>3. fed' - Len(buffer') + 1 = fed - Len(buffer) + 1
            BY <1>1, <1>5, <2>1, <2>2
        <2> QED
            BY <1>3, <1>5, <2>3 DEF BufferIsTail
    <1>8. OnlyOpenObjectOutgrows'
        BY <1>5 DEF OnlyOpenObjectOutgrows
    <1> QED
        BY <1>6, <1>7, <1>8 DEF Inv

LEMMA IterationStep ==
    ASSUME Inv, Iteration
    PROVE  Inv'
    <1>0. /\ stream \in Seq(Byte) /\ stream \in Streams /\ fed \in 0 .. Len(stream)
          /\ buffer \in Seq(Byte) /\ Len(buffer) \in Nat /\ Len(buffer) <= fed
          /\ buffer = SubSeq(stream, fed - Len(buffer) + 1, fed)
          /\ busy \in BOOLEAN
        BY StreamsAssumption DEF Inv, TypeOK, BufferIsTail
    <1>1. Shape /\ busy /\ fed' = fed /\ stream' = stream
        BY IterationShape DEF Inv
    <1>2. PICK i \in 1 .. Len(buffer) + 1 : buffer' = From(buffer, i)
        <2>1. 2 .. Len(buffer) + 1 \subseteq 1 .. Len(buffer) + 1
            BY <1>0
        <2> QED
            BY <1>1, <2>1, Zenon DEF Shape
    <1>3. buffer' \in Seq(Byte) /\ Len(buffer') = Len(buffer) - i + 1
        BY <1>0, <1>2, FromProperties
    <1>4. messages' \in Seq(Seq(Byte))
        BY MessagesType DEF Inv
    <1>5. TypeOK'
        <2>1. Len(buffer') <= fed
            BY <1>0, <1>3
        <2>2. busy' \in BOOLEAN
            BY <1>0, <1>1 DEF Shape
        <2>3. limited' \in BOOLEAN
            <3>1. limited \in BOOLEAN
                BY DEF Inv, TypeOK
            <3>2. limited' = limited \/ limited' = (limited \/ Discard(buffer) # buffer)
                BY DEF Iteration, WaitForHeader, WaitForFrame, WaitForRecord, WaitForObject,
                       RejectLength, TakeFrame, Align, TakeObject, Return, ContinueFrom
            <3> QED
                BY <3>1, <3>2
        <2> QED
            BY <1>0, <1>1, <1>3, <1>4, <2>1, <2>2, <2>3 DEF TypeOK
    <1>6. BufferIsTail'
        BY <1>0, <1>1, <1>2, SuffixOfTail DEF BufferIsTail
    <1>7. OnlyOpenObjectOutgrows'
        BY <1>1 DEF OnlyOpenObjectOutgrows, Shape
    <1> QED
        BY <1>5, <1>6, <1>7 DEF Inv

LEMMA InvStep == Inv /\ [Next]_vars => Inv'
    <1> SUFFICES ASSUME Inv, [Next]_vars PROVE Inv'
        OBVIOUS
    <1>1. ASSUME NEW n \in 1 .. MaxChunk, Push(n) PROVE Inv'
        BY <1>1, PushStep
    <1>2. CASE Iteration
        BY <1>2, IterationStep
    <1>3. CASE UNCHANGED vars
        BY <1>3 DEF vars, Inv, TypeOK, BufferIsTail, OnlyOpenObjectOutgrows
    <1> QED
        BY <1>1, <1>2, <1>3 DEF Next

LEMMA InvHolds == Spec => []Inv
    BY InvInit, InvStep, PTL DEF Spec

\* For every set of streams, limit, checksum and parser, the decoder's state has
\* its type: Push never loses count of the bytes it holds.
THEOREM DecoderTypeCorrect == Spec => []TypeOK
    <1>1. Inv => TypeOK
        BY DEF Inv
    <1> QED
        BY <1>1, InvHolds, PTL

\* ... its buffer is the tail of the bytes fed: no two bytes are joined that were
\* not neighbours.
THEOREM TailCorrect == Spec => []BufferIsTail
    <1>1. Inv => BufferIsTail
        BY DEF Inv
    <1> QED
        BY <1>1, InvHolds, PTL

\* ... and it outgrows its limit only with one open object.
THEOREM BufferCorrect == Spec => []OnlyOpenObjectOutgrows
    <1>1. Inv => OnlyOpenObjectOutgrows
        BY DEF Inv
    <1> QED
        BY <1>1, InvHolds, PTL

\* An iteration of the parse loop that changes anything returns or shortens
\* the buffer.
LEMMA ProgressStep ==
    ASSUME TypeOK, [Next]_vars
    PROVE  [busy => ~busy' \/ Len(buffer') < Len(buffer)]_vars
    <1>0. buffer \in Seq(Byte) /\ Len(buffer) \in Nat
        BY DEF TypeOK
    <1>1. CASE Iteration
        <2>1. CASE busy' = FALSE
            BY <2>1
        <2>2. CASE \E i \in 2 .. Len(buffer) + 1 : buffer' = From(buffer, i)
            BY <1>0, <2>2, FromProperties
        <2> QED
            BY <1>1, <2>1, <2>2, IterationShape DEF Shape
    <1>2. CASE \E n \in 1 .. MaxChunk : Push(n)
        BY <1>2 DEF Push
    <1> QED
        BY <1>1, <1>2 DEF Next

\* For every set of streams, limit, checksum and parser, the parse loop moves
\* on at every iteration, so that Push ends.
THEOREM LoopCorrect == Spec => LoopProgresses
    <1>1. TypeOK /\ [Next]_vars => [busy => ~busy' \/ Len(buffer') < Len(buffer)]_vars
        BY ProgressStep
    <1> QED
        BY <1>1, DecoderTypeCorrect, PTL DEF Spec, LoopProgresses

-----------------------------------------------------------------------------
(* The scan of an object. *)

NoBytes == [depth |-> 0, inString |-> FALSE, escaped |-> FALSE]

\* What the scan knows after the byte x.
Scanned(scan, x) == ScanByte[scan, x]

\* f is the scan of the first n bytes of b.
Scans(b, n, f) ==
    f = [i \in 0 .. n |-> IF i = 0 THEN NoBytes ELSE Scanned(f[i - 1], b[i])]

\* There is a scan.
LEMMA ScanExists ==
    ASSUME NEW b \in Seq(Byte)
    PROVE  Scans(b, Len(b), Scan(b))
    <1> DEFINE T == {n \in 0 .. Len(b) : \E f : Scans(b, n, f)}
    <1>0. Len(b) \in Nat
        OBVIOUS
    <1>1. ASSUME NEW n \in 0 .. Len(b), \A j \in 0 .. n - 1 : j \in T
          PROVE  \E f : Scans(b, n, f)
        <2>1. CASE n = 0
            <3> DEFINE f == [i \in 0 .. 0 |-> NoBytes]
            <3>1. f = [i \in 0 .. 0 |-> IF i = 0 THEN NoBytes ELSE Scanned(f[i - 1], b[i])]
                OBVIOUS
            <3> QED
                BY <2>1, <3>1 DEF Scans
        <2>2. CASE n # 0
            <3>1. n - 1 \in 0 .. n - 1
                BY <2>2
            <3>2. PICK g : Scans(b, n - 1, g)
                BY <1>1, <3>1
            <3> DEFINE f == [i \in 0 .. n |-> IF i = n THEN Scanned(g[n - 1], b[n]) ELSE g[i]]
            <3>3. f = [i \in 0 .. n |->
                        IF i = 0 THEN NoBytes ELSE Scanned(f[i - 1], b[i])]
                BY <2>2, <3>2 DEF Scans
            <3> QED
                BY <3>3 DEF Scans
        <2> QED
            BY <2>1, <2>2
    <1>2. T = 0 .. Len(b)
        <2>1. T \subseteq 0 .. Len(b)
            OBVIOUS
        <2>2. \A i \in 0 .. Len(b) : (\A j \in 0 .. i - 1 : j \in T) => i \in T
            BY <1>1
        <2> HIDE DEF T
        <2> QED
            BY <1>0, <2>1, <2>2, Upwards
    <1>3. \E f : Scans(b, Len(b), f)
        BY <1>0, <1>2
    <1>4. Scan(b) = CHOOSE f : Scans(b, Len(b), f)
        BY Zenon DEF Scan, Scans, Scanned, NoBytes
    <1> QED
        BY <1>3, <1>4, Zenon

\* c goes on with the bytes of b.
Extends(c, b) ==
    /\ c \in Seq(Byte) /\ b \in Seq(Byte)
    /\ Len(b) <= Len(c)
    /\ \A j \in 1 .. Len(b) : c[j] = b[j]

\* The scan does not look ahead.
LEMMA ScanAgrees ==
    ASSUME NEW b, NEW c, Extends(c, b)
    PROVE  \A i \in 0 .. Len(b) : Scan(c)[i] = Scan(b)[i]
    <1> DEFINE T == {i \in 0 .. Len(b) : Scan(c)[i] = Scan(b)[i]}
    <1>0. Len(b) \in Nat /\ Len(c) \in Nat /\ Len(b) <= Len(c)
        BY DEF Extends
    <1>1. Scans(b, Len(b), Scan(b)) /\ Scans(c, Len(c), Scan(c))
        BY ScanExists DEF Extends
    <1>2. ASSUME NEW i \in 0 .. Len(b), \A j \in 0 .. i - 1 : j \in T
          PROVE  Scan(c)[i] = Scan(b)[i]
        <2>0. i \in 0 .. Len(c)
            BY <1>0
        <2>1. CASE i = 0
            BY <1>1, <2>0, <2>1 DEF Scans
        <2>2. CASE i # 0
            <3>1. i - 1 \in 0 .. i - 1 /\ i \in 1 .. Len(b)
                BY <2>2
            <3>2. Scan(c)[i - 1] = Scan(b)[i - 1] /\ c[i] = b[i]
                BY <1>2, <3>1 DEF Extends
            <3>3. Scan(c)[i] = Scanned(Scan(c)[i - 1], c[i])
                BY <1>1, <2>0, <2>2 DEF Scans
            <3>4. Scan(b)[i] = Scanned(Scan(b)[i - 1], b[i])
                BY <1>1, <2>2 DEF Scans
            <3> QED
                BY <3>2, <3>3, <3>4
        <2> QED
            BY <2>1, <2>2
    <1>3. T = 0 .. Len(b)
        <2>1. T \subseteq 0 .. Len(b)
            OBVIOUS
        <2>2. \A i \in 0 .. Len(b) : (\A j \in 0 .. i - 1 : j \in T) => i \in T
            BY <1>2
        <2> HIDE DEF T
        <2> QED
            BY <1>0, <2>1, <2>2, Upwards
    <1> QED
        BY <1>3

\* An object that is closed ends where it ends, whatever follows.
LEMMA SameObject ==
    ASSUME NEW b, NEW c, Extends(c, b), Closing(b) # {}
    PROVE  Closing(c) # {} /\ ObjectEnd(c) = ObjectEnd(b)
    <1>0. Len(b) \in Nat /\ Len(c) \in Nat /\ Len(b) <= Len(c)
        BY DEF Extends
    <1>1. Closing(b) \subseteq 1 .. Len(b) /\ Closing(c) \subseteq 1 .. Len(c)
        BY DEF Closing
    <1>2. \A i \in 1 .. Len(b) : i \in Closing(c) <=> i \in Closing(b)
        BY <1>0, ScanAgrees DEF Closing
    <1>3. Closing(c) # {}
        BY <1>1, <1>2
    <1> HIDE DEF Closing
    <1>4. Closing(b) \subseteq Nat /\ Closing(c) \subseteq Nat
        BY <1>1
    <1>5. ObjectEnd(b) \in Closing(b) /\ \A j \in Closing(b) : ObjectEnd(b) <= j
        BY <1>4, Least DEF ObjectEnd
    <1>6. ObjectEnd(c) \in Closing(c) /\ \A j \in Closing(c) : ObjectEnd(c) <= j
        BY <1>3, <1>4, Least DEF ObjectEnd
    <1>7. ObjectEnd(c) <= ObjectEnd(b)
        BY <1>1, <1>2, <1>5, <1>6
    <1>8. ObjectEnd(c) \in Closing(b)
        BY <1>0, <1>1, <1>2, <1>5, <1>6, <1>7
    <1>9. ObjectEnd(b) <= ObjectEnd(c)
        BY <1>5, <1>8
    <1>10. ObjectEnd(b) \in Nat /\ ObjectEnd(c) \in Nat
        BY <1>4, <1>5, <1>6
    <1> QED
        BY <1>3, <1>7, <1>9, <1>10

-----------------------------------------------------------------------------
(* Reading a stream as a whole. *)

\* f is what s gives from its i-th byte on, for every i from m.
Readings(s, m, f) == f = [i \in m .. Len(s) + 1 |-> Reads(s, i, f)]

\* A record does not go beyond the end of its stream.
LEMMA RecordLength ==
    ASSUME NEW s \in Seq(Byte), NEW i \in 1 .. Len(s) + 1
    PROVE  LET b == From(s, i)
           IN  /\ b # <<>> => i + 1 \in i + 1 .. Len(s) + 1
               /\ Len(b) >= HeaderLen /\ Len(b) >= FrameLen(b)
                    => i + FrameLen(b) \in i + 1 .. Len(s) + 1
               /\ Closing(b) # {} => i + ObjectEnd(b) \in i + 1 .. Len(s) + 1
    <1> DEFINE b == From(s, i)
    <1>1. b \in Seq(Byte) /\ Len(b) = Len(s) - i + 1
        BY FromProperties
    <1>2. b # <<>> => Len(b) >= 1
        <2> HIDE DEF b
        <2> QED
            BY <1>1, EmptySeq
    <1> HIDE DEF b
    <1>3. i \in Nat /\ Len(s) \in Nat /\ Len(b) \in Nat
        BY <1>1
    <1>4. b # <<>> => i + 1 \in i + 1 .. Len(s) + 1
        BY <1>1, <1>2, <1>3
    <1>5. Len(b) >= HeaderLen /\ Len(b) >= FrameLen(b)
            => i + FrameLen(b) \in i + 1 .. Len(s) + 1
        BY <1>1, <1>3, FrameLenType DEF HeaderLen, ChecksumLen
    <1>6. Closing(b) # {} => i + ObjectEnd(b) \in i + 1 .. Len(s) + 1
        BY <1>1, <1>3, ObjectEndType
    <1> QED
        BY <1>4, <1>5, <1>6 DEF b

\* Only what comes after the i-th byte matters to what it gives.
LEMMA ReadsLocal ==
    ASSUME NEW s \in Seq(Byte), NEW i \in 1 .. Len(s) + 1, NEW f, NEW g,
           \A j \in i + 1 .. Len(s) + 1 : f[j] = g[j]
    PROVE  Reads(s, i, f) = Reads(s, i, g)
    <1> DEFINE b == From(s, i)
    <1>1. /\ b # <<>> => f[i + 1] = g[i + 1]
          /\ Len(b) >= HeaderLen /\ Len(b) >= FrameLen(b)
                => f[i + FrameLen(b)] = g[i + FrameLen(b)]
          /\ Closing(b) # {} => f[i + ObjectEnd(b)] = g[i + ObjectEnd(b)]
        BY RecordLength
    <1>2. Len(b) \in Nat
        BY FromProperties
    <1>3. Len(b) >= HeaderLen => FrameLen(b) \in Nat
        <2>1. b \in Seq(Byte)
            BY FromProperties
        <2> HIDE DEF b
        <2> QED
            BY <2>1, FrameLenType DEF HeaderLen, ChecksumLen
    <1> HIDE DEF b
    <1>4. ~(Len(b) < HeaderLen) => Len(b) >= HeaderLen
        BY <1>2 DEF HeaderLen
    <1>5. ~(Len(b) < HeaderLen) /\ ~(Len(b) < FrameLen(b)) => Len(b) >= FrameLen(b)
        BY <1>2, <1>3, <1>4
    <1> QED
        BY <1>1, <1>4, <1>5, Zenon DEF Reads, b

\* There is a reading.
LEMMA ReadingExists ==
    ASSUME NEW s \in Seq(Byte)
    PROVE  \E f : Readings(s, 1, f)
    <1> DEFINE n == Len(s) + 1
               T == {m \in 1 .. n : \E f : Readings(s, m, f)}
    <1>0. n \in Nat /\ n >= 1
        OBVIOUS
    <1>1. ASSUME NEW m \in 1 .. n, \A j \in m + 1 .. n : j \in T
          PROVE  \E f : Readings(s, m, f)
        <2>1. PICK g : m = n \/ Readings(s, m + 1, g)
            <3>1. CASE m = n
                BY <3>1
            <3>2. CASE m # n
                <4>1. m + 1 \in m + 1 .. n
                    BY <3>2
                <4> QED
                    BY <1>1, <4>1
            <3> QED
                BY <3>1, <3>2
        <2> DEFINE f == [i \in m .. n |-> IF i = m THEN Reads(s, m, g) ELSE g[i]]
        <2>2. \A i \in m + 1 .. n : f[i] = g[i]
            OBVIOUS
        <2>3. ASSUME NEW i \in m .. n PROVE f[i] = Reads(s, i, f)
            <3>1. i \in 1 .. Len(s) + 1 /\ \A j \in i + 1 .. Len(s) + 1 : f[j] = g[j]
                BY <2>2
            <3> HIDE DEF f
            <3>2. Reads(s, i, f) = Reads(s, i, g)
                BY <3>1, ReadsLocal
            <3>3. CASE i = m
                BY <3>2, <3>3 DEF f
            <3>4. CASE i # m
                <4>1. i \in m + 1 .. Len(s) + 1 /\ Readings(s, m + 1, g)
                    BY <2>1, <3>4
                <4>2. g[i] = Reads(s, i, g)
                    BY <4>1 DEF Readings
                <4> QED
                    BY <2>2, <3>2, <4>1, <4>2
            <3> QED
                BY <3>3, <3>4
        <2>4. f = [i \in m .. Len(s) + 1 |-> f[i]]
            OBVIOUS
        <2> HIDE DEF f
        <2>5. Readings(s, m, f)
            BY <2>3, <2>4 DEF Readings
        <2> QED
            BY <2>5
    <1>2. T = 1 .. n
        <2>1. T \subseteq 1 .. n
            OBVIOUS
        <2>2. \A i \in 1 .. n : (\A j \in i + 1 .. n : j \in T) => i \in T
            BY <1>1
        <2> HIDE DEF T, n
        <2> QED
            BY <1>0, <2>1, <2>2, Downwards
    <1> QED
        BY <1>0, <1>2

\* What s gives from each of its bytes on.
Reading(s) == CHOOSE f : Readings(s, 1, f)

\* The reading of a stream, one record or byte at a time.
LEMMA ReadingUnfolds ==
    ASSUME NEW s \in Seq(Byte)
    PROVE  /\ MessagesIn(s) = Reading(s)[1]
           /\ \A i \in 1 .. Len(s) + 1 : Reading(s)[i] = Reads(s, i, Reading(s))
    <1>1. Readings(s, 1, Reading(s))
        BY ReadingExists, Zenon DEF Reading
    <1>2. MessagesIn(s) = Reading(s)[1]
        BY Zenon DEF MessagesIn, Reading, Readings
    <1> QED
        BY <1>1, <1>2 DEF Readings

\* What a whole frame gives are messages.
LEMMA FramedType ==
    ASSUME NEW b \in Seq(Byte), Len(b) >= HeaderLen, Len(b) >= FrameLen(b)
    PROVE  Framed(b) \in Seq(Seq(Byte))
    <1>1. /\ HeaderLen + 1 \in Nat /\ 1 <= HeaderLen + 1
          /\ HeaderLen + PayloadLen(b) \in Nat
          /\ HeaderLen + PayloadLen(b) <= Len(b)
        BY FrameLenType DEF HeaderLen, ChecksumLen
    <1>2. Payload(b) \in Seq(Byte)
        BY <1>1, PartType DEF Payload
    <1> QED
        BY <1>2 DEF Framed, Parsed

\* ... and what a closed object gives.
LEMMA ParsedType ==
    ASSUME NEW b \in Seq(Byte), Closing(b) # {}
    PROVE  Parsed(SubSeq(b, 1, ObjectEnd(b))) \in Seq(Seq(Byte))
    <1>1. ObjectEnd(b) \in 1 .. Len(b)
        BY ObjectEndType
    <1>2. SubSeq(b, 1, ObjectEnd(b)) \in Seq(Byte)
        BY <1>1, PartType
    <1> QED
        BY <1>2 DEF Parsed

\* What a stream gives from a byte on are messages.
LEMMA ReadingType ==
    ASSUME NEW s \in Seq(Byte)
    PROVE  \A i \in 1 .. Len(s) + 1 : Reading(s)[i] \in Seq(Seq(Byte))
    <1> DEFINE n == Len(s) + 1
               T == {i \in 1 .. n : Reading(s)[i] \in Seq(Seq(Byte))}
    <1>0. n \in Nat
        OBVIOUS
    <1>1. ASSUME NEW i \in 1 .. n, \A j \in i + 1 .. n : j \in T
          PROVE  Reading(s)[i] \in Seq(Seq(Byte))
        <2> DEFINE b == From(s, i)
                   f == Reading(s)
        <2>1. f[i] = Reads(s, i, f)
            BY ReadingUnfolds
        <2>2. b \in Seq(Byte) /\ Len(b) \in Nat
            BY FromProperties
        <2>3. /\ b # <<>> => f[i + 1] \in Seq(Seq(Byte))
              /\ Len(b) >= HeaderLen /\ Len(b) >= FrameLen(b)
                    => f[i + FrameLen(b)] \in Seq(Seq(Byte))
              /\ Closing(b) # {} => f[i + ObjectEnd(b)] \in Seq(Seq(Byte))
            BY <1>1, RecordLength
        <2>4. <<>> \in Seq(Seq(Byte))
            BY EmptySeq
        <2> HIDE DEF b, f
        <2>5. /\ ~(Len(b) < HeaderLen) => Len(b) >= HeaderLen
              /\ ~(Len(b) < HeaderLen) /\ ~(Len(b) < FrameLen(b)) => Len(b) >= FrameLen(b)
            BY <2>2, FrameLenType DEF HeaderLen, ChecksumLen
        <2>6. ~(Len(b) < HeaderLen) /\ ~(Len(b) < FrameLen(b))
                => Framed(b) \o f[i + FrameLen(b)] \in Seq(Seq(Byte))
            BY <2>2, <2>3, <2>5, FramedType, ConcatProperties
        <2>7. Closing(b) # {}
                => Parsed(SubSeq(b, 1, ObjectEnd(b))) \o f[i + ObjectEnd(b)] \in Seq(Seq(Byte))
            BY <2>2, <2>3, ParsedType, ConcatProperties
        <2>8. Reads(s, i, f) \in Seq(Seq(Byte))
            BY <2>3, <2>4, <2>6, <2>7, Zenon DEF Reads, b
        <2> QED
            BY <2>1, <2>8 DEF f
    <1>2. T = 1 .. n
        <2>1. T \subseteq 1 .. n
            OBVIOUS
        <2>2. \A i \in 1 .. n : (\A j \in i + 1 .. n : j \in T) => i \in T
            BY <1>1
        <2> HIDE DEF T, n
        <2> QED
            BY <1>0, <2>1, <2>2, Downwards
    <1> QED
        BY <1>2

\* Bytes where no record starts give nothing.
LEMMA Skips ==
    ASSUME NEW s \in Seq(Byte), NEW p \in 1 .. Len(s) + 1, NEW q \in p .. Len(s) + 1,
           \A i \in p .. q - 1 : ~AtFrame(From(s, i)) /\ s[i] # Open
    PROVE  Reading(s)[p] = Reading(s)[q]
    <1> DEFINE T == {i \in 1 .. q : i >= p => Reading(s)[i] = Reading(s)[q]}
    <1>0. q \in Nat /\ p \in Nat /\ Len(s) \in Nat
        OBVIOUS
    <1>1. ASSUME NEW i \in 1 .. q, \A j \in i + 1 .. q : j \in T, i >= p
          PROVE  Reading(s)[i] = Reading(s)[q]
        <2>1. CASE i = q
            BY <2>1
        <2>2. CASE i # q
            <3>1. i \in p .. q - 1 /\ i + 1 \in i + 1 .. q /\ i + 1 >= p /\ i \in 1 .. Len(s)
                BY <1>1, <2>2
            <3>2. Reading(s)[i + 1] = Reading(s)[q]
                BY <1>1, <3>1
            <3>3. From(s, i) # <<>> /\ From(s, i)[1] = s[i]
                <4>1. i \in 1 .. Len(s) + 1 /\ 1 \in 1 .. Len(s) - i + 1 /\ i + 1 - 1 = i
                    BY <3>1
                <4>2. Len(From(s, i)) = Len(s) - i + 1 /\ From(s, i)[1] = s[i + 1 - 1]
                    BY <4>1, FromProperties
                <4>3. Len(From(s, i)) # 0
                    BY <3>1, <4>2
                <4> QED
                    BY <4>1, <4>2, <4>3, EmptySeq
            <3>4. Reading(s)[i] = Reads(s, i, Reading(s))
                BY <3>1, ReadingUnfolds
            <3>5. Reads(s, i, Reading(s)) = Reading(s)[i + 1]
                BY <3>1, <3>3, Zenon DEF Reads
            <3> QED
                BY <3>2, <3>4, <3>5
        <2> QED
            BY <2>1, <2>2
    <1>2. T = 1 .. q
        <2>1. T \subseteq 1 .. q
            OBVIOUS
        <2>2. \A i \in 1 .. q : (\A j \in i + 1 .. q : j \in T) => i \in T
            BY <1>1
        <2> HIDE DEF T
        <2> QED
            BY <1>0, <2>1, <2>2, Downwards
    <1> QED
        BY <1>0, <1>2

-----------------------------------------------------------------------------
(* What follows a record does not change it. *)

\* A part of b is the same part of what goes on after b.
LEMMA SamePart ==
    ASSUME NEW b, NEW c, Extends(c, b), NEW m \in Nat, NEW n \in Nat, 1 <= m, n <= Len(b)
    PROVE  SubSeq(c, m, n) = SubSeq(b, m, n)
    <1>1. /\ Len(b) \in Nat /\ Len(c) \in Nat /\ Len(b) <= Len(c)
          /\ b \in Seq(Byte) /\ c \in Seq(Byte)
        BY DEF Extends
    <1>2. CASE n < m
        BY <1>1, <1>2, SubSeqEmpty
    <1>3. CASE m <= n
        <2>1. m \in 1 .. Len(b) /\ n \in m .. Len(b) /\ m \in 1 .. Len(c) /\ n \in m .. Len(c)
            BY <1>1, <1>3
        <2>2. \A j \in m .. n : c[j] = b[j] /\ c[j] \in Byte /\ b[j] \in Byte
            BY <1>1, <2>1 DEF Extends
        <2>3. /\ SubSeq(c, m, n) \in Seq(Byte) /\ Len(SubSeq(c, m, n)) = n - m + 1
              /\ \A i \in 1 .. n - m + 1 : SubSeq(c, m, n)[i] = c[m + i - 1]
            BY <1>3, <2>2, SubSeqProperties
        <2>4. /\ SubSeq(b, m, n) \in Seq(Byte) /\ Len(SubSeq(b, m, n)) = n - m + 1
              /\ \A i \in 1 .. n - m + 1 : SubSeq(b, m, n)[i] = b[m + i - 1]
            BY <1>3, <2>2, SubSeqProperties
        <2>5. \A i \in 1 .. n - m + 1 : SubSeq(c, m, n)[i] = SubSeq(b, m, n)[i]
            <3> TAKE i \in 1 .. n - m + 1
            <3>1. m + i - 1 \in m .. n
                OBVIOUS
            <3> QED
                BY <2>2, <2>3, <2>4, <3>1
        <2> HIDE DEF Byte
        <2> QED
            BY <2>3, <2>4, <2>5, SeqEqual
    <1> QED
        BY <1>1, <1>2, <1>3

\* ... the header of a frame ...
LEMMA SameHeader ==
    ASSUME NEW b, NEW c, Extends(c, b), AtFrame(b)
    PROVE  /\ AtFrame(c)
           /\ Len(b) >= HeaderLen =>
                /\ Len(c) >= HeaderLen
                /\ PayloadLen(c) = PayloadLen(b) /\ FrameLen(c) = FrameLen(b)
    <1>1. /\ Len(b) \in Nat /\ Len(c) \in Nat /\ Len(b) <= Len(c)
          /\ \A j \in 1 .. Len(b) : c[j] = b[j]
        BY DEF Extends
    <1>2. AtFrame(c)
        BY <1>1 DEF AtFrame
    <1>3. ASSUME Len(b) >= HeaderLen PROVE Len(c) >= HeaderLen /\ c[HeaderLen] = b[HeaderLen]
        BY <1>1, <1>3 DEF HeaderLen
    <1> QED
        BY <1>2, <1>3 DEF PayloadLen, FrameLen

\* ... the frame, with its checksum and payload ...
LEMMA SameFrame ==
    ASSUME NEW b, NEW c, Extends(c, b), AtFrame(b),
           Len(b) >= HeaderLen, Len(b) >= FrameLen(b)
    PROVE  Len(c) >= FrameLen(c) /\ Framed(c) = Framed(b)
    <1>1. /\ Len(b) \in Nat /\ Len(c) \in Nat /\ Len(b) <= Len(c) /\ b \in Seq(Byte)
          /\ \A j \in 1 .. Len(b) : c[j] = b[j]
        BY DEF Extends
    <1>2. PayloadLen(c) = PayloadLen(b) /\ FrameLen(c) = FrameLen(b)
        BY SameHeader
    <1>3. /\ PayloadLen(b) \in Nat
          /\ FrameLen(b) \in 1 .. Len(b) /\ FrameLen(b) - ChecksumLen \in Nat
          /\ FrameLen(b) - ChecksumLen <= Len(b)
          /\ HeaderLen + 1 \in Nat /\ 1 <= HeaderLen + 1
          /\ HeaderLen + PayloadLen(b) \in Nat /\ HeaderLen + PayloadLen(b) <= Len(b)
        BY <1>1, FrameLenType DEF HeaderLen, ChecksumLen
    <1>4. ChecksumHolds(c) = ChecksumHolds(b)
        <2>1. SubSeq(c, 1, FrameLen(b) - ChecksumLen) = SubSeq(b, 1, FrameLen(b) - ChecksumLen)
            <3> DEFINE k == FrameLen(b) - ChecksumLen
            <3>1. k \in Nat /\ k <= Len(b)
                BY <1>3
            <3> HIDE DEF k
            <3>2. SubSeq(c, 1, k) = SubSeq(b, 1, k)
                BY <3>1, SamePart
            <3> QED
                BY <3>2 DEF k
        <2>2. c[FrameLen(b)] = b[FrameLen(b)]
            BY <1>1, <1>3
        <2> QED
            BY <1>2, <2>1, <2>2, Zenon DEF ChecksumHolds
    <1>5. Payload(c) = Payload(b)
        <2> DEFINE m == HeaderLen + 1
                   k == HeaderLen + PayloadLen(b)
        <2>1. m \in Nat /\ 1 <= m /\ k \in Nat /\ k <= Len(b)
            BY <1>3
        <2> HIDE DEF m, k
        <2>2. SubSeq(c, m, k) = SubSeq(b, m, k)
            BY <2>1, SamePart
        <2> QED
            BY <1>2, <2>2 DEF Payload, m, k
    <1>6. Len(c) >= FrameLen(c)
        BY <1>1, <1>2, <1>3
    <1> QED
        BY <1>4, <1>5, <1>6, Zenon DEF Framed

\* ... and the object it begins with.
LEMMA SameRecord ==
    ASSUME NEW b, NEW c, Extends(c, b), Closing(b) # {}
    PROVE  Parsed(SubSeq(c, 1, ObjectEnd(c))) = Parsed(SubSeq(b, 1, ObjectEnd(b)))
    <1>1. ObjectEnd(b) \in 1 .. Len(b)
        BY ObjectEndType DEF Extends
    <1>2. ObjectEnd(b) \in Nat /\ ObjectEnd(b) <= Len(b)
        BY <1>1
    <1>3. SubSeq(c, 1, ObjectEnd(b)) = SubSeq(b, 1, ObjectEnd(b))
        BY <1>2, SamePart
    <1> QED
        BY <1>3, SameObject

-----------------------------------------------------------------------------
(* What is left to read. *)

\* The first n bytes of the stream, and where the buffer begins in them.
Prefix(n) == SubSeq(stream, 1, n)
Position == fed - Len(buffer) + 1

\* The buffer is where the decoder stands in every prefix it may yet see.
LEMMA BufferInPrefix ==
    ASSUME TypeOK, BufferIsTail, NEW n \in fed .. Len(stream)
    PROVE  /\ Prefix(n) \in Seq(Byte) /\ Len(Prefix(n)) = n
           /\ Position \in 1 .. n + 1
           /\ Position + Len(buffer) = fed + 1
           /\ \A j \in 1 .. Len(buffer) : Prefix(n)[Position + j - 1] = buffer[j]
           /\ Extends(From(Prefix(n), Position), buffer)
           /\ n = fed => From(Prefix(n), Position) = buffer
    <1>0. /\ stream \in Seq(Byte) /\ fed \in 0 .. Len(stream) /\ Len(stream) \in Nat
          /\ buffer \in Seq(Byte) /\ Len(buffer) \in 0 .. fed
          /\ buffer = SubSeq(stream, fed - Len(buffer) + 1, fed)
        BY StreamsAssumption DEF TypeOK, BufferIsTail
    <1>1. n \in Nat /\ fed <= n /\ n <= Len(stream) /\ fed \in Nat
        BY <1>0
    <1> DEFINE s == Prefix(n)
               p == Position
               k == Len(buffer)
    <1>2. p \in 1 .. n + 1 /\ p + k = fed + 1 /\ k \in Nat
        BY <1>0, <1>1 DEF Position
    <1>3. \A j \in 1 .. n : stream[j] \in Byte
        BY <1>0, <1>1
    <1>4. /\ s \in Seq(Byte) /\ Len(s) = n
          /\ \A j \in 1 .. n : s[j] = stream[j]
        <2>1. /\ s \in Seq(Byte)
              /\ Len(s) = IF 1 <= n THEN n - 1 + 1 ELSE 0
              /\ \A j \in 1 .. n - 1 + 1 : s[j] = stream[1 + j - 1]
            BY <1>1, <1>3, SubSeqProperties DEF Prefix
        <2> HIDE DEF s
        <2>2. \A j \in 1 .. n : j \in 1 .. n - 1 + 1 /\ 1 + j - 1 = j
            BY <1>1
        <2> QED
            BY <1>1, <2>1, <2>2
    <1>5. \A j \in 1 .. k : stream[p + j - 1] = buffer[j]
        <2>1. p \in Int /\ fed \in Int /\ \A j \in p .. fed : stream[j] \in Byte
            BY <1>0, <1>1, <1>2
        <2>2. SubSeq(stream, p, fed) = buffer
            BY <1>0 DEF Position
        <2> HIDE DEF p, k
        <2>3. \A j \in 1 .. fed - p + 1 : SubSeq(stream, p, fed)[j] = stream[p + j - 1]
            BY <2>1, SubSeqProperties
        <2>4. fed - p + 1 = k
            BY <1>1, <1>2
        <2> QED
            BY <2>2, <2>3, <2>4
    <1> HIDE DEF s, p, k
    <1>6. \A j \in 1 .. k : s[p + j - 1] = buffer[j]
        <2> TAKE j \in 1 .. k
        <2>1. p + j - 1 \in 1 .. n
            BY <1>1, <1>2
        <2> QED
            BY <1>4, <1>5, <2>1
    <1>7. /\ From(s, p) \in Seq(Byte)
          /\ Len(From(s, p)) = n - p + 1
          /\ \A j \in 1 .. n - p + 1 : From(s, p)[j] = s[p + j - 1]
        BY <1>2, <1>4, FromProperties
    <1>8. k <= n - p + 1 /\ (n = fed => k = n - p + 1)
        BY <1>1, <1>2
    <1>9. \A j \in 1 .. k : From(s, p)[j] = buffer[j]
        <2> TAKE j \in 1 .. k
        <2>1. j \in 1 .. n - p + 1
            BY <1>1, <1>2, <1>8
        <2> QED
            BY <1>6, <1>7, <2>1
    <1>10. Extends(From(s, p), buffer)
        BY <1>0, <1>7, <1>8, <1>9 DEF Extends, k
    <1>11. n = fed => From(s, p) = buffer
        <2> SUFFICES ASSUME n = fed PROVE From(s, p) = buffer
            OBVIOUS
        <2>1. Len(From(s, p)) = k
            BY <1>7, <1>8
        <2> QED
            BY <1>0, <1>7, <1>9, <2>1, SeqEqual DEF k
    <1> QED
        BY <1>2, <1>4, <1>6, <1>10, <1>11 DEF s, p, k

-----------------------------------------------------------------------------
(* What was found and what is left to read are the same for every cut. *)

\* In a prefix of n bytes: the messages found, and then what the prefix gives from
\* the buffer on, are what it gives as a whole.
Found(n) ==
    Reading(Prefix(n))[1] = messages \o Reading(Prefix(n))[Position]

\* As long as the buffer limit has cost nothing, this holds of every prefix the
\* decoder may yet see, and between two chunks nothing is left to be found.
ReadSoFar ==
    ~limited =>
        /\ \A n \in fed .. Len(stream) : Found(n)
        /\ ~busy => Reading(Prefix(fed))[Position] = <<>>

\* Emit adds what the record gives.
LEMMA EmitAppends ==
    ASSUME messages \in Seq(Seq(Byte)), NEW raw \in Seq(Byte), Emit(raw)
    PROVE  messages' = messages \o Parsed(raw)
    <1>1. CASE Unmarshals(raw)
        <2>1. messages' = Append(messages, raw) /\ Parsed(raw) = <<raw>>
            BY <1>1 DEF Emit, Parsed
        <2>2. Append(messages, raw) = messages \o <<raw>>
            BY AppendIsConcat
        <2> QED
            BY <2>1, <2>2
    <1>2. CASE ~Unmarshals(raw)
        <2>1. messages' = messages /\ Parsed(raw) = <<>>
            BY <1>2 DEF Emit, Parsed
        <2> QED
            BY <2>1, ConcatEmptySeq
    <1> QED
        BY <1>1, <1>2

\* A turn of the loop that goes on moves what was left to what was found.
LEMMA GoesOn ==
    ASSUME Inv, NEW i \in 2 .. Len(buffer) + 1, ContinueFrom(i),
           NEW gives \in Seq(Seq(Byte)), messages' = messages \o gives,
           NEW n \in fed .. Len(stream), Found(n),
           Reading(Prefix(n))[Position] = gives \o Reading(Prefix(n))[Position + i - 1]
    PROVE  Found(n)'
    <1>0. /\ stream \in Seq(Byte) /\ fed \in Nat /\ Len(stream) \in Nat
          /\ buffer \in Seq(Byte) /\ Len(buffer) \in Nat /\ messages \in Seq(Seq(Byte))
        BY StreamsAssumption DEF Inv, TypeOK
    <1> DEFINE s == Prefix(n)
               p == Position
               k == Position + i - 1
    <1>1. s \in Seq(Byte) /\ Len(s) = n /\ p \in 1 .. n + 1 /\ p + Len(buffer) = fed + 1
        BY BufferInPrefix DEF Inv
    <1>2. Len(buffer') = Len(buffer) - i + 1
        <2>1. i \in 1 .. Len(buffer) + 1
            BY <1>0
        <2> QED
            BY <1>0, <2>1, FromProperties DEF ContinueFrom
    <1>3. Prefix(n)' = Prefix(n) /\ fed' = fed
        BY DEF ContinueFrom, Prefix
    <1>4. Position' = k
        BY <1>0, <1>2, <1>3 DEF Position
    <1>5. k \in 1 .. n + 1
        BY <1>0, <1>1
    <1> HIDE DEF s, p, k
    <1>6. Reading(s)[k] \in Seq(Seq(Byte))
        BY <1>1, <1>5, ReadingType
    <1>7. Reading(s)[1] = messages \o (gives \o Reading(s)[k])
        BY Zenon DEF Found, s, p, k
    <1>8. messages \o (gives \o Reading(s)[k]) = (messages \o gives) \o Reading(s)[k]
        <2> DEFINE S == Seq(Byte)
                   rest == Reading(s)[k]
        <2>1. messages \in Seq(S) /\ gives \in Seq(S) /\ rest \in Seq(S)
            BY <1>0, <1>6
        <2> HIDE DEF S, rest
        <2>2. messages \o (gives \o rest) = (messages \o gives) \o rest
            BY ONLY <2>1, SMTT(60)
        <2> QED
            BY <2>2 DEF rest
    <1> QED
        BY <1>3, <1>4, <1>7, <1>8, Zenon DEF Found, s

\* Where no record starts in the first m bytes of the buffer but perhaps at the
\* last of them, reading skips them.
LEMMA SkipsDebris ==
    ASSUME Inv, ~AtFrame(buffer), 1 \notin Opens(buffer),
           NEW n \in fed .. Len(stream), NEW m \in 1 .. Len(buffer) + 1,
           \A j \in Starts(buffer) : m <= j,
           m <= Len(buffer) \/ n = fed
    PROVE  Reading(Prefix(n))[Position] = Reading(Prefix(n))[Position + m - 1]
    <1>0. /\ stream \in Seq(Byte) /\ fed \in Nat /\ Len(stream) \in Nat
          /\ buffer \in Seq(Byte) /\ Len(buffer) \in Nat
        BY StreamsAssumption DEF Inv, TypeOK
    <1> DEFINE s == Prefix(n)
               p == Position
    <1>1. /\ s \in Seq(Byte) /\ Len(s) = n /\ p \in 1 .. n + 1
          /\ p + Len(buffer) = fed + 1
          /\ \A j \in 1 .. Len(buffer) : s[p + j - 1] = buffer[j]
        BY BufferInPrefix DEF Inv
    <1>2. n \in Nat /\ n >= fed
        BY <1>0
    <1> HIDE DEF s, p
    <1>3. p + m - 1 \in p .. Len(s) + 1 /\ p \in 1 .. Len(s) + 1
        BY <1>0, <1>1, <1>2
    <1>4. ASSUME NEW i \in p .. (p + m - 1) - 1
          PROVE  ~AtFrame(From(s, i)) /\ s[i] # Open
        <2> DEFINE j == i - p + 1
        <2>1. /\ j \in 1 .. Len(buffer) /\ j \in 1 .. m - 1 /\ p + j - 1 = i
              /\ i \in 1 .. Len(s) + 1 /\ i \in 1 .. Len(s)
            <3>1. /\ p \in Nat /\ p >= 1 /\ m \in Nat /\ m >= 1 /\ i \in Int
                  /\ p <= i /\ i <= p + m - 2
                BY <1>1
            <3>2. m <= Len(buffer) + 1 /\ p + Len(buffer) = fed + 1 /\ Len(s) = n
                BY <1>0, <1>1
            <3> QED
                BY <1>0, <1>2, <3>1, <3>2
        <2> HIDE DEF j
        <2>2. s[i] = buffer[j]
            BY <1>1, <2>1
        <2>3. j \notin Starts(buffer)
            BY <1>0, <2>1
        <2>4. buffer[j] # Open
            BY <2>1, <2>3 DEF Starts, Opens
        <2>5. ASSUME AtFrame(From(s, i)) PROVE FALSE
            <3>1. /\ Len(From(s, i)) = n - i + 1
                  /\ \A h \in 1 .. n - i + 1 : From(s, i)[h] = s[i + h - 1]
                BY <1>1, <2>1, FromProperties
            <3>2. n - i + 1 >= 2 /\ s[i] = One /\ s[i + 1] = One
                <4>1. n - i + 1 >= 2 /\ From(s, i)[1] = One /\ From(s, i)[2] = One
                    BY <2>5, <3>1 DEF AtFrame
                <4>2. /\ 1 \in 1 .. n - i + 1 /\ 2 \in 1 .. n - i + 1
                      /\ i + 1 - 1 = i /\ i + 2 - 1 = i + 1
                    BY <1>1, <1>2, <2>1, <4>1
                <4> QED
                    BY <3>1, <4>1, <4>2
            <3>3. j + 1 \in 1 .. Len(buffer)
                BY <1>0, <1>1, <1>2, <2>1, <3>2
            <3>4. p + (j + 1) - 1 = i + 1
                BY <1>1, <1>2, <2>1
            <3>5. buffer[j + 1] = One /\ buffer[j] = One
                BY <1>1, <2>2, <3>2, <3>3, <3>4
            <3>6. CASE j = 1
                BY <1>0, <3>3, <3>5, <3>6 DEF AtFrame
            <3>7. CASE j # 1
                <4>1. j \in 2 .. Len(buffer) - 1
                    BY <1>0, <2>1, <3>3, <3>7
                <4> QED
                    BY <2>3, <3>5, <4>1 DEF Starts, FrameStarts
            <3> QED
                BY <3>6, <3>7
        <2> QED
            BY <2>2, <2>4, <2>5
    <1>5. Reading(s)[p] = Reading(s)[p + m - 1]
        BY <1>1, <1>3, <1>4, Skips
    <1> QED
        BY <1>5 DEF s, p

\* The loop returns only when nothing more is to be found.
LEMMA ReturnReads ==
    ASSUME Inv, ReadSoFar, ~limited',
           WaitForHeader \/ WaitForFrame \/ WaitForRecord \/ WaitForObject
    PROVE  ReadSoFar'
    <1>0. /\ fed \in fed .. Len(stream) /\ buffer \in Seq(Byte) /\ Len(buffer) \in Nat
          /\ fed \in Nat
        BY StreamsAssumption DEF Inv, TypeOK
    <1> DEFINE s == Prefix(fed)
               p == Position
    <1>1. /\ buffer' = buffer /\ fed' = fed /\ stream' = stream /\ messages' = messages
          /\ ~limited
        BY DEF WaitForHeader, WaitForFrame, WaitForRecord, WaitForObject, AtObject, Return
    <1>2. \A n \in fed .. Len(stream) : Found(n)'
        BY <1>1 DEF ReadSoFar, Found, Prefix, Position
    <1>3. /\ s \in Seq(Byte) /\ Len(s) = fed /\ p \in 1 .. fed + 1
          /\ From(s, p) = buffer /\ p + Len(buffer) = fed + 1
        BY <1>0, BufferInPrefix DEF Inv
    <1>4. Reading(s)[p] = Reads(s, p, Reading(s))
        BY <1>3, ReadingUnfolds
    <1> HIDE DEF s, p
    <1>5. Reading(s)[p] = <<>>
        <2>1. CASE WaitForHeader
            BY <1>3, <1>4, <2>1, Zenon DEF WaitForHeader, Reads
        <2>2. CASE WaitForFrame
            <3>1. ~(Len(buffer) < HeaderLen) /\ ~(PayloadLen(buffer) > MaxPayload)
                BY <1>0, <2>2, FrameLenType, LimitsAssumption DEF WaitForFrame, HeaderLen
            <3> QED
                BY <1>3, <1>4, <2>2, <3>1, Zenon DEF WaitForFrame, Reads
        <2>3. CASE WaitForObject
            <3>1. ~AtFrame(buffer) /\ buffer[1] = Open /\ Closing(buffer) = {}
                BY <2>3 DEF WaitForObject, AtObject, Opens
            <3> QED
                BY <1>3, <1>4, <3>1, Zenon DEF Reads
        <2>4. CASE WaitForRecord
            <3>1. ~AtFrame(buffer) /\ 1 \notin Opens(buffer) /\ Starts(buffer) = {}
                BY <2>4 DEF WaitForRecord
            <3>2. Len(buffer) + 1 \in 1 .. Len(buffer) + 1
                BY <1>0
            <3>3. Reading(s)[p] = Reading(s)[p + (Len(buffer) + 1) - 1]
                BY <1>0, <3>1, <3>2, SkipsDebris DEF s, p
            <3>4. p + (Len(buffer) + 1) - 1 = fed + 1
                BY <1>0, <1>3
            <3>5. fed + 1 \in 1 .. Len(s) + 1
                BY <1>0, <1>3
            <3>6. Reading(s)[fed + 1] = Reads(s, fed + 1, Reading(s))
                BY <1>3, <3>5, ReadingUnfolds
            <3>7. From(s, fed + 1) = <<>>
                <4>1. Len(From(s, fed + 1)) = 0 /\ From(s, fed + 1) \in Seq(Byte)
                    <5>1. Len(s) - (fed + 1) + 1 = 0
                        BY <1>0, <1>3
                    <5> QED
                        BY <1>3, <3>5, <5>1, FromProperties
                <4> QED
                    BY <4>1, EmptySeq
            <3>8. Reading(s)[fed + 1] = <<>>
                BY <3>6, <3>7, Zenon DEF Reads
            <3> QED
                BY <3>3, <3>4, <3>8
        <2> QED
            BY <2>1, <2>2, <2>3, <2>4
    <1>6. (Reading(Prefix(fed))[Position] = <<>>)'
        BY <1>1, <1>5 DEF Prefix, Position, s, p
    <1> QED
        BY <1>1, <1>2, <1>6 DEF ReadSoFar

\* A turn of the loop that goes on moves a record, or nothing, from what is left
\* to what was found.
LEMMA ContinueReads ==
    ASSUME Inv, RejectLength \/ TakeFrame \/ Align \/ TakeObject,
           NEW n \in fed .. Len(stream), Found(n)
    PROVE  Found(n)'
    <1>0. /\ stream \in Seq(Byte) /\ fed \in Nat /\ Len(stream) \in Nat
          /\ buffer \in Seq(Byte) /\ Len(buffer) \in Nat /\ messages \in Seq(Seq(Byte))
        BY StreamsAssumption DEF Inv, TypeOK
    <1> DEFINE s == Prefix(n)
               p == Position
               c == From(s, p)
    <1>1. /\ s \in Seq(Byte) /\ Len(s) = n /\ p \in 1 .. n + 1
          /\ p + Len(buffer) = fed + 1 /\ Extends(c, buffer)
        BY BufferInPrefix DEF Inv
    <1>2. Reading(s)[p] = Reads(s, p, Reading(s))
        BY <1>1, ReadingUnfolds
    <1>3. /\ c \in Seq(Byte) /\ Len(c) \in Nat /\ Len(buffer) <= Len(c)
          /\ \A j \in 1 .. Len(buffer) : c[j] = buffer[j]
        BY <1>1 DEF Extends
    <1>4. \A j \in p .. n + 1 : Reading(s)[j] \in Seq(Seq(Byte))
        BY <1>0, <1>1, ReadingType
    <1> HIDE DEF s, p, c
    <1>5. CASE RejectLength
        <2>1. /\ AtFrame(buffer) /\ Len(buffer) >= HeaderLen /\ PayloadLen(buffer) > MaxPayload
              /\ ContinueFrom(2) /\ messages' = messages
            BY <1>5 DEF RejectLength
        <2>2. AtFrame(c) /\ PayloadLen(c) > MaxPayload /\ ~(Len(c) < HeaderLen) /\ c # <<>>
            <3>1. AtFrame(c) /\ PayloadLen(c) > MaxPayload /\ Len(c) >= HeaderLen
                BY <1>1, <2>1, SameHeader
            <3> QED
                BY <1>3, <3>1, EmptySeq DEF HeaderLen
        <2>3. Reading(s)[p] = Reading(s)[p + 1]
            BY <1>2, <2>2, Zenon DEF Reads, c
        <2>4. 2 \in 2 .. Len(buffer) + 1 /\ p + 1 = p + 2 - 1 /\ p + 1 \in p .. n + 1
            BY <1>0, <1>1, <2>1 DEF HeaderLen
        <2>5. Reading(s)[p] = <<>> \o Reading(s)[p + 2 - 1]
            BY <1>4, <2>3, <2>4, ConcatEmptySeq
        <2>6. messages' = messages \o <<>> /\ <<>> \in Seq(Seq(Byte))
            BY <1>0, <2>1, ConcatEmptySeq, EmptySeq
        <2> QED
            BY <2>1, <2>4, <2>5, <2>6, GoesOn DEF s, p
    <1>6. CASE TakeFrame
        <2> DEFINE len == FrameLen(buffer)
                   gives == Framed(buffer)
        <2>1. /\ AtFrame(buffer) /\ Len(buffer) >= HeaderLen /\ Len(buffer) >= len
              /\ PayloadLen(buffer) <= MaxPayload
              /\ ContinueFrom(len + 1)
              /\ IF ChecksumHolds(buffer) /\ Payload(buffer) # <<>>
                 THEN Emit(Payload(buffer)) ELSE UNCHANGED messages
            BY <1>6 DEF TakeFrame
        <2>2. len \in 1 .. Len(buffer) /\ PayloadLen(buffer) \in Nat
            BY <1>0, <2>1, FrameLenType DEF HeaderLen, ChecksumLen
        <2>3. /\ AtFrame(c) /\ ~(PayloadLen(c) > MaxPayload) /\ ~(Len(c) < HeaderLen)
              /\ c # <<>> /\ ~(Len(c) < FrameLen(c)) /\ FrameLen(c) = len /\ Framed(c) = gives
            <3>1. /\ AtFrame(c) /\ PayloadLen(c) = PayloadLen(buffer) /\ Len(c) >= HeaderLen
                  /\ FrameLen(c) = len
                BY <1>1, <2>1, SameHeader
            <3>2. Len(c) >= FrameLen(c) /\ Framed(c) = gives
                BY <1>1, <2>1, SameFrame
            <3>3. ~(PayloadLen(c) > MaxPayload)
                BY <2>1, <2>2, <3>1, LimitsAssumption
            <3>4. ~(Len(c) < HeaderLen) /\ ~(Len(c) < FrameLen(c)) /\ Len(c) # 0
                BY <1>3, <2>2, <3>1, <3>2 DEF HeaderLen
            <3> QED
                BY <1>3, <3>1, <3>2, <3>3, <3>4, EmptySeq
        <2>4. Reading(s)[p] = gives \o Reading(s)[p + len]
            BY <1>2, <2>3, Zenon DEF Reads, c
        <2>5. gives \in Seq(Seq(Byte))
            BY <1>0, <2>1, FramedType
        <2>6. messages' = messages \o gives
            <3>1. CASE ChecksumHolds(buffer) /\ Payload(buffer) # <<>>
                <4>1. /\ HeaderLen + 1 \in Nat /\ 1 <= HeaderLen + 1
                      /\ HeaderLen + PayloadLen(buffer) \in Nat
                      /\ HeaderLen + PayloadLen(buffer) <= Len(buffer)
                    BY <1>0, <2>1, FrameLenType DEF HeaderLen, ChecksumLen
                <4>2. Payload(buffer) \in Seq(Byte)
                    BY <1>0, <4>1, PartType DEF Payload
                <4>3. Emit(Payload(buffer)) /\ gives = Parsed(Payload(buffer))
                    BY <2>1, <3>1 DEF Framed
                <4> QED
                    BY <1>0, <4>2, <4>3, EmitAppends
            <3>2. CASE ~(ChecksumHolds(buffer) /\ Payload(buffer) # <<>>)
                <4>1. messages' = messages /\ gives = <<>>
                    BY <2>1, <3>2 DEF Framed
                <4> QED
                    BY <1>0, <4>1, ConcatEmptySeq
            <3> QED
                BY <3>1, <3>2
        <2> HIDE DEF gives, len
        <2>7. len + 1 \in 2 .. Len(buffer) + 1 /\ p + len = p + (len + 1) - 1
            BY <1>0, <1>1, <2>2
        <2>8. Reading(s)[p] = gives \o Reading(s)[p + (len + 1) - 1]
            BY <2>4, <2>7
        <2> QED
            BY <2>1, <2>5, <2>6, <2>7, <2>8, GoesOn DEF s, p
    <1>7. CASE Align
        <2> DEFINE m == CHOOSE i \in Starts(buffer) : \A j \in Starts(buffer) : i <= j
        <2>1. /\ Starts(buffer) \subseteq 2 .. Len(buffer) /\ Starts(buffer) # {}
              /\ ~AtFrame(buffer) /\ 1 \notin Opens(buffer)
            BY <1>0, <1>7, StartsType DEF Align
        <2>2. Starts(buffer) \subseteq Nat
            BY <2>1
        <2>3. m \in Starts(buffer) /\ \A j \in Starts(buffer) : m <= j
            BY <2>1, <2>2, Least, Zenon
        <2>4. ContinueFrom(m) /\ messages' = messages
            BY <1>7 DEF Align
        <2> HIDE DEF m
        <2>5. /\ m \in 2 .. Len(buffer) + 1 /\ m \in 1 .. Len(buffer) + 1 /\ m <= Len(buffer)
              /\ p + m - 1 \in p .. n + 1
            BY <1>0, <1>1, <2>1, <2>3
        <2>6. Reading(s)[p] = Reading(s)[p + m - 1]
            BY <2>1, <2>3, <2>5, SkipsDebris DEF s, p
        <2>7. Reading(s)[p] = <<>> \o Reading(s)[p + m - 1]
            BY <1>4, <2>5, <2>6, ConcatEmptySeq
        <2>8. messages' = messages \o <<>> /\ <<>> \in Seq(Seq(Byte))
            BY <1>0, <2>4, ConcatEmptySeq, EmptySeq
        <2> QED
            BY <2>4, <2>5, <2>7, <2>8, GoesOn DEF s, p
    <1>8. CASE TakeObject
        <2> DEFINE len == ObjectEnd(buffer)
                   gives == Parsed(SubSeq(buffer, 1, len))
        <2>1. /\ ~AtFrame(buffer) /\ 1 \in Opens(buffer) /\ Closing(buffer) # {}
              /\ ContinueFrom(len + 1) /\ Emit(SubSeq(buffer, 1, len))
            BY <1>8 DEF TakeObject, AtObject
        <2>2. len \in 1 .. Len(buffer)
            BY <1>0, <2>1, ObjectEndType
        <2>3. /\ ~AtFrame(c) /\ c[1] = Open /\ c # <<>> /\ Closing(c) # {}
              /\ ObjectEnd(c) = len /\ Parsed(SubSeq(c, 1, ObjectEnd(c))) = gives
            <3>1. 1 \in 1 .. Len(buffer) /\ buffer[1] = Open
                BY <2>1 DEF Opens
            <3>2. c[1] = Open
                BY <1>3, <3>1
            <3>3. ~AtFrame(c)
                BY <3>2 DEF AtFrame, Open, One
            <3>4. c # <<>>
                BY <1>3, <3>1, EmptySeq
            <3> QED
                BY <1>1, <2>1, <3>2, <3>3, <3>4, SameObject, SameRecord
        <2>4. Reading(s)[p] = gives \o Reading(s)[p + len]
            BY <1>2, <2>3, Zenon DEF Reads, c
        <2>5. gives \in Seq(Seq(Byte))
            BY <1>0, <2>1, ParsedType
        <2>6. messages' = messages \o gives
            <3>1. SubSeq(buffer, 1, len) \in Seq(Byte)
                BY <1>0, <2>2, PartType
            <3> QED
                BY <1>0, <2>1, <3>1, EmitAppends
        <2> HIDE DEF gives, len
        <2>7. len + 1 \in 2 .. Len(buffer) + 1 /\ p + len = p + (len + 1) - 1
            BY <1>0, <1>1, <2>2
        <2>8. Reading(s)[p] = gives \o Reading(s)[p + (len + 1) - 1]
            BY <2>4, <2>7
        <2> QED
            BY <2>1, <2>5, <2>6, <2>7, <2>8, GoesOn DEF s, p
    <1> QED
        BY <1>5, <1>6, <1>7, <1>8

-----------------------------------------------------------------------------
\* Before the first chunk, all is left to read, and the empty prefix gives nothing.
LEMMA ReadInit == Init => ReadSoFar
    <1> SUFFICES ASSUME Init PROVE ReadSoFar
        OBVIOUS
    <1>0. Inv
        BY InvInit
    <1>1. /\ stream \in Seq(Byte) /\ buffer = <<>> /\ fed = 0 /\ messages = <<>>
          /\ Len(buffer) = 0 /\ Position = 1 /\ Len(stream) \in Nat
        BY StreamsAssumption DEF Init, Position
    <1>2. ASSUME NEW n \in fed .. Len(stream) PROVE Found(n)
        <2>1. /\ Prefix(n) \in Seq(Byte) /\ 1 \in 1 .. Len(Prefix(n)) + 1
            BY <1>0, <1>1, BufferInPrefix DEF Inv
        <2>2. Reading(Prefix(n))[1] \in Seq(Seq(Byte))
            BY <2>1, ReadingType
        <2> QED
            BY <1>1, <2>2, ConcatEmptySeq DEF Found
    <1>3. Reading(Prefix(fed))[Position] = <<>>
        <2>1. Prefix(0) = <<>> /\ <<>> \in Seq(Byte) /\ Len(<<>>) = 0
            BY SubSeqEmpty, EmptySeq DEF Prefix
        <2>2. Reading(<<>>)[1] = Reads(<<>>, 1, Reading(<<>>))
            <3> DEFINE s == <<>>
            <3>1. s \in Seq(Byte) /\ 1 \in 1 .. Len(s) + 1
                BY <2>1
            <3> HIDE DEF s
            <3>2. Reading(s)[1] = Reads(s, 1, Reading(s))
                BY <3>1, ReadingUnfolds
            <3> QED
                BY <3>2 DEF s
        <2>3. From(<<>>, 1) = <<>>
            BY <2>1, SubSeqEmpty DEF From
        <2> QED
            BY <1>1, <2>1, <2>2, <2>3, Zenon DEF Reads
    <1> QED
        BY <1>2, <1>3 DEF ReadSoFar

\* A chunk adds nothing to what was found and leaves fewer prefixes to come; an
\* iteration goes on or returns.
LEMMA ReadStep ==
    ASSUME Inv, ReadSoFar, [Next]_vars
    PROVE  ReadSoFar'
    <1>0. /\ stream \in Seq(Byte) /\ fed \in Nat /\ Len(stream) \in Nat
          /\ buffer \in Seq(Byte) /\ Len(buffer) \in Nat /\ Inv'
        BY StreamsAssumption, InvStep DEF Inv, TypeOK
    <1>1. ASSUME NEW k \in 1 .. MaxChunk, Push(k) PROVE ReadSoFar'
        <2>1. k \in Nat /\ fed + k <= Len(stream)
            BY <1>1 DEF Push
        <2>2. /\ stream' = stream /\ messages' = messages /\ busy' = TRUE /\ fed' = fed + k
              /\ limited' = limited
              /\ buffer' = buffer \o SubSeq(stream, fed + 1, fed + k)
            BY <1>1 DEF Push
        <2>3. /\ SubSeq(stream, fed + 1, fed + k) \in Seq(Byte)
              /\ Len(SubSeq(stream, fed + 1, fed + k)) = k
            <3>1. fed + 1 \in Nat /\ fed + k \in Nat /\ 1 <= fed + 1 /\ fed + 1 <= fed + k
                BY <1>0, <2>1
            <3>2. (fed + k) - (fed + 1) + 1 = k
                BY <1>0, <2>1
            <3> QED
                BY <1>0, <2>1, <3>1, <3>2, PartType
        <2>4. Len(buffer') = Len(buffer) + k
            BY <1>0, <2>2, <2>3, ConcatProperties
        <2>5. Position' = Position
            BY <1>0, <2>1, <2>2, <2>4 DEF Position
        <2>6. \A n \in fed' .. Len(stream') : n \in fed .. Len(stream)
            BY <1>0, <2>1, <2>2
        <2> QED
            BY <2>2, <2>5, <2>6 DEF ReadSoFar, Found, Prefix
    <1>2. CASE RejectLength \/ TakeFrame \/ Align \/ TakeObject
        <2>1. busy' /\ fed' = fed /\ stream' = stream /\ limited' = limited
            BY <1>2 DEF RejectLength, TakeFrame, Align, TakeObject, AtObject, ContinueFrom
        <2> QED
            BY <1>2, <2>1, ContinueReads DEF ReadSoFar
    <1>3. CASE WaitForHeader \/ WaitForFrame \/ WaitForRecord \/ WaitForObject
        <2>1. CASE ~limited'
            BY <1>3, <2>1, ReturnReads
        <2>2. CASE limited'
            BY <2>2 DEF ReadSoFar
        <2> QED
            BY <2>1, <2>2
    <1>4. CASE UNCHANGED vars
        BY <1>4 DEF vars, ReadSoFar, Found, Prefix, Position
    <1> QED
        BY <1>1, <1>2, <1>3, <1>4 DEF Next, Iteration

\* For every set of streams, chunk size, limit, checksum and JSON parser: when Push
\* has returned, the messages found are those of the bytes fed read as a whole,
\* however they were cut into chunks, unless the buffer limit has cost bytes.
THEOREM ChunkingCorrect == Spec => []ChunkingInvisible
    <1>1. Inv /\ ReadSoFar => ChunkingInvisible
        <2> SUFFICES ASSUME Inv, ReadSoFar, ~busy, ~limited
                     PROVE  messages = MessagesIn(SubSeq(stream, 1, fed))
            BY DEF ChunkingInvisible
        <2>1. fed \in fed .. Len(stream) /\ messages \in Seq(Seq(Byte))
            BY StreamsAssumption DEF Inv, TypeOK
        <2>2. Prefix(fed) \in Seq(Byte)
            BY <2>1, BufferInPrefix DEF Inv
        <2>3. Reading(Prefix(fed))[1] = messages \o <<>>
            BY <2>1 DEF ReadSoFar, Found
        <2>4. messages \o <<>> = messages
            BY <2>1, ConcatEmptySeq
        <2>5. MessagesIn(Prefix(fed)) = Reading(Prefix(fed))[1]
            BY <2>2, ReadingUnfolds
        <2> QED
            BY <2>3, <2>4, <2>5 DEF Prefix
    <1>2. Inv /\ ReadSoFar /\ [Next]_vars => ReadSoFar'
        BY ReadStep
    <1> QED
        BY <1>1, <1>2, ReadInit, InvHolds, PTL DEF Spec
=============================================================================
