------------------------------- MODULE Pipeline -------------------------------
(***************************************************************************)
(* src/internal/capture/processor.go with the packet filter of             *)
(* pcap_file.go: a captured packet goes through the filter, the assembler  *)
(* of Reassembly and the decoder of its flow, and every record found is    *)
(* merged into the fields and published, before the next packet is read.   *)
(*                                                                         *)
(* The decoder is represented by what module Decoder shows of it: what it  *)
(* finds depends on the bytes from the first one on and not on how they    *)
(* are cut (ChunkingInvisible).  A record is one JSON object with the      *)
(* frame around it, if it has one: the bytes head .. tail are the frame,   *)
(* first .. last the object in it, and for a bare object the two are the   *)
(* same.  What is between records is debris without a marker or a brace,   *)
(* and so is what is left of a record whose beginning was missed.          *)
(***************************************************************************)
EXTENDS Reassembly, FiniteSets

CONSTANTS
    SourceIP, CloudIP, CloudPort,   \* the settings of the filter
    Reporting,    \* the flows that carry reports to the cloud
    Connections,  \* Connections[f]: the runs of offsets of its TCP connections
    Records,      \* Records[f]: the records [head, first, last, tail, sets] in its bytes
    Fields        \* the field names

\* A flow is the tuple tcpFlowID prints.
ASSUME FlowsAssumption ==
    \A f \in Flows : DOMAIN f = {"src", "sport", "dst", "dport"}
ASSUME ReportingAssumption ==
    Reporting = {f \in Flows : f.src = SourceIP /\ f.dst = CloudIP /\ f.dport = CloudPort}
\* The records of a stream follow one another.
ASSUME RecordsAssumption ==
    \A f \in Flows :
        /\ IsFiniteSet(Records[f])
        /\ \A r \in Records[f] :
              /\ r.head \in Nat /\ r.first \in Nat /\ r.last \in Nat /\ r.tail \in Nat
              /\ r.head <= r.first /\ r.first <= r.last /\ r.last <= r.tail
              /\ r.sets \subseteq Fields
        /\ \A r, q \in Records[f] : r = q \/ r.tail < q.head \/ q.tail < r.head

VARIABLES
    seen,       \* history: per flow, the offsets the capture has seen
    handled,    \* per flow, how many of its chunks the decoder was given
    pending,    \* the messages decoder.Push returned, not yet processed
    fields,     \* Processor.fields: per name, the record that set it
    published,  \* history: the records whose state was published
    state,      \* the state last published
    stopped     \* an error has ended the process

processorVars == <<handled, pending, fields, published, state, stopped>>
pipelineVars == <<vars, seen, processorVars>>

\* A message and the flow it came on.
Messages == UNION {{f} \X Records[f] : f \in Flows}

PipelineTypeOK ==
    /\ TypeOK
    /\ seen \in [Flows -> SUBSET Nat]
    /\ handled \in [Flows -> Nat]
    /\ \A f \in Flows : handled[f] <= Len(delivered[f])
    /\ pending \in Seq(Messages) /\ published \in Seq(Messages)
    /\ DOMAIN fields = Fields /\ DOMAIN state = Fields
    /\ stopped \in BOOLEAN

PipelineInit ==
    /\ Init
    /\ seen = [f \in Flows |-> {}]
    /\ handled = [f \in Flows |-> 0]
    /\ pending = <<>>
    /\ fields = [x \in Fields |-> None]
    /\ published = <<>>
    /\ state = [x \in Fields |-> None]
    /\ stopped = FALSE

-----------------------------------------------------------------------------
\* Mutant: the filter looks at the two addresses, not at the direction.
EitherDirection(f) ==
    /\ {f.src, f.dst} = {SourceIP, CloudIP}
    /\ CloudPort \in {f.sport, f.dport}

\* isAlphaESSOutbound
Outbound(f) == f.src = SourceIP /\ f.dst = CloudIP /\ f.dport = CloudPort

\* The loop is about to read a packet.
Idle ==
    /\ ~stopped
    /\ draining = None
    /\ pending = <<>>
    /\ \A f \in Flows : handled[f] = Len(delivered[f])

\* A connection on the same addresses and ports follows the one before.
ConnectionOf(f, o) == CHOOSE i \in DOMAIN Connections[f] : o \in Bytes(Connections[f][i])
InTurn(f, s) == \A o \in seen[f] : ConnectionOf(f, o) <= ConnectionOf(f, s.off)

\* ProcessDecodedTCP: a packet with data is seen; the assembler is given it if
\* it goes to the cloud, in either case of the filter before it.
Capture(f, s) ==
    /\ Idle
    /\ InTurn(f, s)
    /\ seen' = [seen EXCEPT ![f] = @ \cup Bytes(s)]
    /\ IF Outbound(f) THEN Push(f, s) ELSE UNCHANGED vars
    /\ UNCHANGED processorVars

Reassemble(f) ==
    /\ Drain(f)
    /\ UNCHANGED <<seen, processorVars>>

\* Mutant: a frame is complete without the two bytes of its checksum.
EndOfObject(f, r) == r.last

\* The byte that completes r for the decoder: the last one of its checksum, or,
\* where the capture missed the header, the brace that closes a bare object.
EndOf(f, r) == IF r.head >= FirstOff(f) THEN r.tail ELSE r.last

\* The records completed in the chunk c whose object began in the stream.
FoundIn(f, c) == {r \in Records[f] : EndOf(f, r) \in Bytes(c) /\ r.first >= FirstOff(f)}

\* ... in the order of their bytes, which is the order of their last ones.
Rank(found, r) == Cardinality({q \in found : q.last <= r.last})
InOrderOf(f, found) ==
    [i \in 1 .. Cardinality(found) |-> <<f, CHOOSE r \in found : Rank(found, r) = i>>]

\* Mutant: only the first chunk of a packet is decoded.
DecodeFirst(f) ==
    /\ draining = None /\ pending = <<>> /\ ~stopped
    /\ handled[f] < Len(delivered[f])
    /\ handled' = [handled EXCEPT ![f] = Len(delivered[f])]
    /\ pending' = InOrderOf(f, FoundIn(f, delivered[f][handled[f] + 1]))
    /\ UNCHANGED <<vars, seen, fields, published, state, stopped>>

\* processOutboundPayload: the next chunk goes to the decoder of its flow.
Decode(f) ==
    /\ draining = None /\ pending = <<>> /\ ~stopped
    /\ handled[f] < Len(delivered[f])
    /\ handled' = [handled EXCEPT ![f] = @ + 1]
    /\ pending' = InOrderOf(f, FoundIn(f, delivered[f][handled[f] + 1]))
    /\ UNCHANGED <<vars, seen, fields, published, state, stopped>>

\* mergeFields
Merge(m) == fields' = [x \in Fields |-> IF x \in m[2].sets THEN m ELSE fields[x]]

\* processMessage: the fields are merged, and the state of all is published.
Process ==
    /\ pending # <<>> /\ ~stopped
    /\ Merge(Head(pending))
    /\ state' = fields'
    /\ published' = Append(published, Head(pending))
    /\ pending' = Tail(pending)
    /\ UNCHANGED <<vars, seen, handled, stopped>>

\* state.Marshal or the publish fails: the error ends the process, and with it
\* the rest of the packet.
ProcessFails ==
    /\ pending # <<>> /\ ~stopped
    /\ Merge(Head(pending))
    /\ stopped' = TRUE
    /\ UNCHANGED <<vars, seen, handled, pending, published, state>>

Work(f) == Reassemble(f) \/ Decode(f) \/ Process

PipelineNext ==
    \/ \E f \in Flows : (\E s \in wire[f] : Capture(f, s)) \/ Work(f)
    \/ ProcessFails

\* The handling of a packet runs to its end, in the one goroutine there is.
PipelineSpec ==
    /\ PipelineInit /\ [][PipelineNext]_pipelineVars
    /\ \A f \in Flows : WF_pipelineVars(Work(f))

-----------------------------------------------------------------------------
PublishedOf(f) == {published[i][2] : i \in {j \in DOMAIN published : published[j][1] = f}}

\* All bytes of f are captured from the first on to the end of record r: to the
\* last one of its frame, or to that of its object if the first is in its header.
Complete(f, r) ==
    /\ delivered[f] # <<>>
    /\ \/ FirstOff(f) <= r.head /\ FirstOff(f) .. r.tail \subseteq seen[f]
       \/ /\ r.head < FirstOff(f) /\ FirstOff(f) <= r.first
          /\ FirstOff(f) .. r.last \subseteq seen[f]

\* Property: a frame read from its first byte on is published only when all of it
\* is captured, its checksum included (decoder.go:84-95), however the packets cut
\* it; only a frame whose header was missed is taken for what is in it.
FramesAreWhole ==
    \A i \in DOMAIN published :
        LET f == published[i][1]
            r == published[i][2]
        IN  FirstOff(f) <= r.head => r.head .. r.tail \subseteq seen[f]

\* Property: what a dongle sends to the cloud is followed from the first packet
\* seen, on every flow at once, and every record captured without a gap before
\* it is published, however packets are repeated, reordered and cut, unless an
\* error has ended the process.
CapturedIsPublished ==
    Idle => \A f \in Reporting : seen[f] # {} /\ Aligned(f) /\ Half(f) =>
        /\ delivered[f] # <<>>
        /\ \A r \in Records[f] : Complete(f, r) => r \in PublishedOf(f)

\* The capture has missed nothing of f up to the end of its i-th connection.
SeenUpTo(f, i) ==
    /\ delivered[f] # <<>> /\ FirstOff(f) = Connections[f][1].off
    /\ \A j \in 1 .. i : Bytes(Connections[f][j]) \subseteq seen[f]

\* Property: if no byte of a flow is missed, every record is published, also
\* those of a connection that follows another on the same addresses and ports
\* (README.md: the program "reconstructs the AlphaESS-to-cloud TCP stream,
\* extracts JSON messages, and builds or publishes" their state).
ReconnectIsPublished ==
    Idle => \A f \in Reporting : \A i \in DOMAIN Connections[f] :
        SeenUpTo(f, i) =>
            {r \in Records[f] : r.tail \in Bytes(Connections[f][i])} \subseteq PublishedOf(f)

\* Property: a stream captured whole from its first byte seen on is published to
\* its last record: no call of Push or pass of the loops behind it hangs or
\* leaves something behind that only a further packet would bring out.
WholeIsPublished ==
    \A f \in Reporting :
        (/\ Aligned(f) /\ Half(f) /\ delivered[f] # <<>>
         /\ \A s \in wire[f] : s.off >= FirstOff(f) => Bytes(s) \subseteq seen[f])
            ~> (stopped \/ \A r \in Records[f] : Complete(f, r) => r \in PublishedOf(f))

\* Property: the pipeline publishes nothing but records captured whole, of the
\* flows to the cloud, each once, in the order of their flow, with the newest
\* value of every field.
Promise == INSTANCE RecordStream WITH captured <- seen
ImplementsRecordStream == Promise!Spec
=============================================================================
