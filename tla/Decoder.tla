-------------------------------- MODULE Decoder --------------------------------
(***************************************************************************)
(* src/internal/alphaess/decoder.go: the decoder that finds AlphaESS       *)
(* records in the reconstructed byte stream of a flow.  A record is a      *)
(* frame (marker 01 01, header, payload, checksum) or a bare JSON object.  *)
(*                                                                         *)
(* Push appends a chunk and loops; one iteration of the loop is one step,  *)
(* and no other chunk arrives before the loop returns.  The length of the  *)
(* header and the limits are constants, the four length bytes are one.     *)
(* Checksum and JSON parsing are constants as well: what matters is that   *)
(* they are functions of the bytes.                                        *)
(***************************************************************************)
EXTENDS Integers, Sequences

CONSTANTS
    Streams,          \* the byte streams a flow may carry
    MaxChunk,         \* bound: bytes in a chunk
    MaxBuffered,      \* maxBufferedBytes
    MaxPayload,       \* maxFramePayloadBytes
    Checksum(_),      \* crc16Modbus of a sequence of bytes, as one byte
    Unmarshals(_)     \* json.Unmarshal accepts the bytes as an object

HeaderLen == 4        \* frameHeaderBytes: marker, type, length
ChecksumLen == 1      \* frameChecksumBytes

\* Bytes the code tells apart; every byte is a number, a length as well.
One == 1
Open == 2             \* {
Close == 3            \* }
Quote == 4            \* "
Backslash == 5
Byte == Nat

ASSUME StreamsAssumption == Streams \subseteq Seq(Byte)
ASSUME LimitsAssumption ==
    /\ MaxPayload \in Nat /\ MaxBuffered \in Nat
    /\ HeaderLen + MaxPayload + ChecksumLen <= MaxBuffered

VARIABLES
    stream,     \* the bytes of the flow
    fed,        \* how many of them were handed to Push
    buffer,     \* Decoder.buffer
    messages,   \* RawJSON of the messages returned so far
    busy,       \* Push is in its loop
    limited     \* history: the buffer limit has cost bytes

vars == <<stream, fed, buffer, messages, busy, limited>>

-----------------------------------------------------------------------------
\* The part of b from its i-th byte on.
From(b, i) == SubSeq(b, i, Len(b))

\* Frames.
AtFrame(b) == Len(b) >= 2 /\ b[1] = One /\ b[2] = One
PayloadLen(b) == b[HeaderLen]
FrameLen(b) == HeaderLen + PayloadLen(b) + ChecksumLen
Payload(b) == SubSeq(b, HeaderLen + 1, HeaderLen + PayloadLen(b))
ChecksumHolds(b) ==
    Checksum(SubSeq(b, 1, FrameLen(b) - ChecksumLen)) = b[FrameLen(b)]

\* Where a record may start after the first byte of b.
FrameStarts(b) == {i \in 2 .. Len(b) - 1 : b[i] = One /\ b[i + 1] = One}
Opens(b) == {i \in 1 .. Len(b) : b[i] = Open}
Starts(b) == FrameStarts(b) \cup (Opens(b) \ {1})

\* findJSONObjectEnd: what its scan knows, and how a byte x changes that.
ScanState == [depth : Int, inString : BOOLEAN, escaped : BOOLEAN]

ScanByte[s \in ScanState, x \in Byte] ==
    IF s.escaped THEN [s EXCEPT !.escaped = FALSE]
    ELSE IF x = Quote THEN [s EXCEPT !.inString = ~@]
    ELSE IF s.inString THEN [s EXCEPT !.escaped = x = Backslash]
    ELSE IF x = Open THEN [s EXCEPT !.depth = @ + 1]
    ELSE IF x = Close THEN [s EXCEPT !.depth = @ - 1]
    ELSE s

Scan(b) ==
    LET scan[i \in 0 .. Len(b)] ==
            IF i = 0 THEN [depth |-> 0, inString |-> FALSE, escaped |-> FALSE]
            ELSE ScanByte[scan[i - 1], b[i]]
    IN  scan

\* The bytes that close the object b begins with; the first one ends it.
Closing(b) == LET scan == Scan(b) IN {i \in 1 .. Len(b) : scan[i].depth = 0}
ObjectEnd(b) == CHOOSE i \in Closing(b) : \A j \in Closing(b) : i <= j

\* Mutant: the first { is kept, not the last.
DiscardToFirst(b) ==
    IF Len(b) <= MaxBuffered THEN b
    ELSE IF Opens(b) = {} THEN <<>>
    ELSE From(b, CHOOSE i \in Opens(b) : \A j \in Opens(b) : i <= j)

\* Mutant: the buffer is cut at its end.
DiscardEnd(b) == IF Len(b) <= MaxBuffered THEN b ELSE SubSeq(b, 1, MaxBuffered)

\* discardOversizedGarbage: beyond the limit, only the last { and what follows
\* is kept, or nothing.
Discard(b) ==
    IF Len(b) <= MaxBuffered THEN b
    ELSE IF Opens(b) = {} THEN <<>>
    ELSE From(b, CHOOSE i \in Opens(b) : \A j \in Opens(b) : j <= i)

-----------------------------------------------------------------------------
Init ==
    /\ stream \in Streams
    /\ fed = 0 /\ buffer = <<>> /\ messages = <<>> /\ busy = FALSE
    /\ limited = FALSE

\* Mutant: the chunk is appended twice.
PushTwice(n) ==
    /\ ~busy
    /\ fed + n <= Len(stream)
    /\ buffer' = buffer \o SubSeq(stream, fed + 1, fed + n) \o SubSeq(stream, fed + 1, fed + n)
    /\ fed' = fed + n
    /\ busy' = TRUE
    /\ UNCHANGED <<stream, messages, limited>>

Push(n) ==
    /\ ~busy
    /\ fed + n <= Len(stream)
    /\ buffer' = buffer \o SubSeq(stream, fed + 1, fed + n)
    /\ fed' = fed + n
    /\ busy' = TRUE
    /\ UNCHANGED <<stream, messages, limited>>

\* The loop returns with what is left in b.
Return(b) ==
    /\ busy' = FALSE
    /\ buffer' = b
    /\ limited' = (limited \/ Discard(buffer) # buffer)
    /\ UNCHANGED <<stream, fed, messages>>

\* The loop goes on with the buffer from its i-th byte.
ContinueFrom(i) ==
    /\ buffer' = From(buffer, i)
    /\ UNCHANGED <<stream, fed, busy, limited>>

\* raw is a record's JSON: a message if it unmarshals.
Emit(raw) == messages' = IF Unmarshals(raw) THEN Append(messages, raw) ELSE messages

\* consumeFrame: the header is incomplete, or the rest of the frame.
WaitForHeader ==
    /\ busy /\ AtFrame(buffer) /\ Len(buffer) < HeaderLen
    /\ Return(buffer)

WaitForFrame ==
    /\ busy /\ AtFrame(buffer) /\ Len(buffer) >= HeaderLen
    /\ PayloadLen(buffer) <= MaxPayload /\ Len(buffer) < FrameLen(buffer)
    /\ Return(buffer)

\* Mutant: an impossible length costs no byte.
RejectNothing ==
    /\ busy /\ AtFrame(buffer) /\ Len(buffer) >= HeaderLen
    /\ PayloadLen(buffer) > MaxPayload
    /\ UNCHANGED vars

\* consumeFrame: an impossible length costs the first marker byte.
RejectLength ==
    /\ busy /\ AtFrame(buffer) /\ Len(buffer) >= HeaderLen
    /\ PayloadLen(buffer) > MaxPayload
    /\ ContinueFrom(2)
    /\ UNCHANGED messages

\* Mutant: the frame stays in the buffer.
TakeFrameKeeps ==
    /\ busy /\ AtFrame(buffer) /\ Len(buffer) >= HeaderLen
    /\ PayloadLen(buffer) <= MaxPayload /\ Len(buffer) >= FrameLen(buffer)
    /\ ContinueFrom(1)
    /\ IF ChecksumHolds(buffer) /\ Payload(buffer) # <<>>
       THEN Emit(Payload(buffer)) ELSE UNCHANGED messages

\* consumeFrame: a whole frame is dropped, after its payload was used if the
\* checksum holds.
TakeFrame ==
    /\ busy /\ AtFrame(buffer) /\ Len(buffer) >= HeaderLen
    /\ PayloadLen(buffer) <= MaxPayload /\ Len(buffer) >= FrameLen(buffer)
    /\ ContinueFrom(FrameLen(buffer) + 1)
    /\ IF ChecksumHolds(buffer) /\ Payload(buffer) # <<>>
       THEN Emit(Payload(buffer)) ELSE UNCHANGED messages

\* alignToNextRecordStart: skip to the next record.
Align ==
    /\ busy /\ ~AtFrame(buffer) /\ 1 \notin Opens(buffer)
    /\ Starts(buffer) # {}
    /\ ContinueFrom(CHOOSE i \in Starts(buffer) : \A j \in Starts(buffer) : i <= j)
    /\ UNCHANGED messages

\* Mutant: debris is dropped at once, with the first half of a marker.
WaitForRecordClears ==
    /\ busy /\ ~AtFrame(buffer) /\ 1 \notin Opens(buffer)
    /\ Starts(buffer) = {}
    /\ Return(<<>>)

\* No record starts in the buffer.
WaitForRecord ==
    /\ busy /\ ~AtFrame(buffer) /\ 1 \notin Opens(buffer)
    /\ Starts(buffer) = {}
    /\ Return(Discard(buffer))

\* A bare object, complete or not.
AtObject == busy /\ ~AtFrame(buffer) /\ 1 \in Opens(buffer)

TakeObject ==
    /\ AtObject /\ Closing(buffer) # {}
    /\ ContinueFrom(ObjectEnd(buffer) + 1)
    /\ Emit(SubSeq(buffer, 1, ObjectEnd(buffer)))

WaitForObject ==
    /\ AtObject /\ Closing(buffer) = {}
    /\ Return(Discard(buffer))

Iteration ==
    \/ WaitForHeader \/ WaitForFrame \/ RejectLength \/ TakeFrame
    \/ Align \/ WaitForRecord \/ TakeObject \/ WaitForObject

Next == (\E n \in 1 .. MaxChunk : Push(n)) \/ Iteration

\* A call of Push that has begun runs to its end.
Spec == Init /\ [][Next]_vars /\ WF_vars(Iteration)

-----------------------------------------------------------------------------
TypeOK ==
    /\ stream \in Streams
    /\ fed \in 0 .. Len(stream)
    /\ buffer \in Seq(Byte) /\ Len(buffer) <= fed
    /\ messages \in Seq(Seq(Byte))
    /\ busy \in BOOLEAN /\ limited \in BOOLEAN

\* Property: the buffer is the last bytes fed and nothing else: neither an
\* iteration nor the buffer limit ever joins bytes that were not neighbours.
BufferIsTail == buffer = SubSeq(stream, fed - Len(buffer) + 1, fed)

\* What the payload of the frame b begins with gives, what the record raw gives.
Parsed(raw) == IF Unmarshals(raw) THEN <<raw>> ELSE <<>>
Framed(b) == IF ChecksumHolds(b) /\ Payload(b) # <<>> THEN Parsed(Payload(b)) ELSE <<>>

\* What s gives from its i-th byte on, where there is a record, or the beginning
\* of one, or a byte to skip; after is what it gives from later bytes on.
Reads(s, i, after) ==
    LET b == From(s, i)
    IN  IF b = <<>> THEN <<>>
        ELSE IF AtFrame(b) THEN
            IF Len(b) < HeaderLen THEN <<>>
            ELSE IF PayloadLen(b) > MaxPayload THEN after[i + 1]
            ELSE IF Len(b) < FrameLen(b) THEN <<>>
            ELSE Framed(b) \o after[i + FrameLen(b)]
        ELSE IF b[1] = Open THEN
            IF Closing(b) = {} THEN <<>>
            ELSE Parsed(SubSeq(b, 1, ObjectEnd(b))) \o after[i + ObjectEnd(b)]
        ELSE after[i + 1]

\* The messages in a stream, read as a whole and without a buffer limit.
MessagesIn(s) ==
    LET at[i \in 1 .. Len(s) + 1] == Reads(s, i, at)
    IN  at[1]

\* Property: as long as the buffer limit has cost nothing, what Push returns
\* depends on the bytes and never on how they are cut into chunks: a record split
\* anywhere is found all the same.
ChunkingInvisible ==
    ~busy /\ ~limited => messages = MessagesIn(SubSeq(stream, 1, fed))

\* Property: the buffer outgrows its limit only while it holds one open object
\* and no other { that it could be cut back to.
OnlyOpenObjectOutgrows ==
    ~busy /\ Len(buffer) > MaxBuffered => Opens(buffer) = {1}

\* Property: an iteration of the loop that changes anything returns or makes the
\* buffer shorter.
LoopProgresses ==
    [][busy => ~busy' \/ Len(buffer') < Len(buffer)]_vars

\* Property: Push ends, whatever bytes it is given: no iteration is without
\* effect, and the loop never waits for bytes that only a later Push brings.
PushReturns == busy ~> ~busy
=============================================================================
