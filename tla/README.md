# TLA+ model of passive-solar-mqtt-bridge

The program listens to the TCP traffic between an AlphaESS solar dongle and
the AlphaESS cloud, puts the segments back into a byte stream, finds JSON
records in it, merges them into one state and publishes that state to an MQTT
broker for Home Assistant. This directory holds a model of it in TLA+, the TLC
configurations that check the model on small instances, and proofs that hold
for all instances.

`PROJECT.json` names, for every definition that models code, the lines it
models; it also lists the runs, the hazards with the properties that cover
them, the findings and the theorems. Below, `R` is `src/internal/reassembly`,
`D` is `src/internal/alphaess`, `C` is `src/internal/mqtt`, `L` is `src/internal/capture/live_linux.go` and `M`
is `src/cmd/passive-solar-mqtt/main.go`.

## 1. Inventory

### Components

| Component | State | Operations | Correct when |
|---|---|---|---|
| TCP reassembly (`R/reassembly.go`) | per flow: started, nextSeq, map of buffered segments | `Assembler.Push` | chunks are contiguous bytes of the stream; nothing captured is lost; a flow waits only for bytes the capture missed |
| AlphaESS decoder (`D/decoder.go`) | buffer of undecoded bytes | `Decoder.Push` (frame, bare object, resynchronise, limit) | what it finds does not depend on how the stream is cut; the buffer stays bounded; Push returns |
| Processor (`capture/processor.go`) | assembler, decoders per flow, merged fields | `NewProcessor`, `ProcessDecodedTCP`, `processMessage` | every record captured whole is published, once, in order, with the newest value of every field, and nothing else |
| Capture loops (`L`, `capture/pcap_file.go`) | socket or file | `ReadLive`, `ReadFile` | stops on the context; a replay ends with its last state published |
| Interface detection (`L`) | candidates, deadline | `detectLiveInterface`, fallback of `ReadLive` | finds the interface that carries the dongle's connection, or ends in time for the next start |
| Raw state (`state/state.go`) | none | `Build`, `Marshal` | each field has the numeric value its record states; totals add up |
| Discovery (`homeassistant/discovery.go`) | none; retained messages at the broker | `LoadMappingFile`, `DiscoveryMessages`, `valueTemplate` | each sensor has an entity of its own, which shows the newest value of its field |
| MQTT client (`C/client.go`) | connection | `Connect`, `PublishJSON` with one retry, `Close` | a message reported as published reached the broker, or the connection was dead; old messages never replace newer ones |
| Lifecycle (`M`, systemd unit) | context, exit code, restarts of the window | `run`, signals, deferred `Close`, restart, start limit | availability at the broker tells the truth; SIGTERM ends the process; the service survives what it is meant to |
| Configuration and setup (`config/config.go`, `M`) | YAML file, settings in memory | resolve, load, override, ask, save, normalise, validate | what is saved is what was entered, is used again without questions, and is never written by a start nobody attends |
| Installer (`scripts/*.sh`) | files of the host | install, uninstall | an existing configuration survives |

### Interactions

One goroutine does everything: it receives a packet, pushes the segment into
the assembler, the chunks into the flow's decoder, the records into the merged
fields, and calls `PublishJSON` for the state after each, all before the next
packet. The exceptions are where the model is concurrent:

* `writePacket` starts a goroutine for each write and waits for it *or* for the
  context; a goroutine that was given up on keeps running and reads `c.conn`
  later (`client.go:113`);
* SIGINT and SIGTERM cancel the context at any point of the main goroutine;
* the network and the broker: packets under way, connections silently lost, the
  Last Will, keep-alive, takeover of a session by the next process, retained
  messages of processes that are gone;
* the kernel, whose interfaces come and go, and the dongle, which is quiet or
  reconnects;
* systemd, which restarts, counts and gives up, and the user, who edits the
  mapping file and the configuration between two starts;
* the senders and the capture, which decide what segments arrive, in which
  order, how often and how cut.

### What is hard here

Wrap-around of 32-bit sequence numbers; retransmissions cut differently from
the originals; records cut anywhere between two chunks; several chunks per
packet and several records per chunk; a buffer limit that must not tear records
apart; values spread over records, and totals beside their parts; entities
retained from an earlier mapping; a publish that is given up while its goroutine
is still to run; a success that the network never carried; the Last Will of a
dead session against the `online` of the next one; stopping while blocked in a
network call; an interface that goes while it is being opened; failures that
each cost one of six starts. `hazards` in `PROJECT.json` lists them at their
lines, with the ones no property covers and why.

## 2. Modules

| Module | Models | Role |
|---|---|---|
| `ByteStream` | `docs/ARCHITECTURE.md`, "TCP stream reconstruction" | abstract specification: what a reconstructed stream promises |
| `Reassembly` | `R/reassembly.go` | detailed specification; implements `ByteStream` |
| `RecordStream` | README.md, what is published | abstract specification: what the pipeline promises |
| `Pipeline` | `capture/processor.go`, the filter of `pcap_file.go` | extends `Reassembly`: filter, assembler, decoders, fields and publishes together; implements `RecordStream` |
| `MCReassembly`, `MCPipeline` | | constants for TLC |
| `Arithmetic` | | lemmas on remainders, on least and greatest members, and the inductions on numbers they give |
| `ReassemblyProofs`, `PipelineProofs` | | theorems |
| `Decoder` | `D/decoder.go` | detailed specification, and `MessagesIn`, what a whole stream means |
| `MCDecoder`, `DecoderProofs` | | streams, checksum and JSON parser for TLC; theorems |
| `RawState` | `state/state.go` | pure operators |
| `Discovery` | `homeassistant/discovery.go` | pure operators, extends `RawState` |
| `Entities` | `planDiscovery`, `processMessage`, retained messages | extends `Discovery`: what Home Assistant shows over several processes |
| `MCEntities`, `EntitiesProofs` | | constants for TLC; theorems |
| `MqttBroker` | external: TCP and broker, as `client.go` depends on them | environment |
| `MqttClient` | `C/client.go` | extends `MqttBroker` |
| `Bridge` | `M`, the capture loops, the processor's publishes | extends `MqttClient`: one process against signals, faults and the broker |
| `MCBridge`, `BridgeProofs` | | constants for TLC; proofs |
| `Service` | the unit, `detectLiveInterface`, the opening of the interface | the installed service over days, with a clock |
| `MCService`, `ServiceProofs` | | constants for TLC; theorems |
| `Startup` | `M` before `run`, `src/internal/config/config.go` | flags, setup and configuration files over several starts |
| `MCStartup`, `StartupProofs` | | constants for TLC; theorems |

Definitions marked `Mutant:` are plausible bugs of the definition that follows
them. They are used by nothing in the model; `mutants` in `PROJECT.json` says
which property each of them violates when it takes the definition's place, so
that every property is known to be able to fail.

### Reassembly

A payload byte is named by its offset in the stream the sender wrote, a segment
is a run `[off, len]` of offsets. The code sees only `SeqOf(f, off)`, the
offset plus the initial sequence number modulo `SeqMod`. `Push` is a disjunction
of the code's three outcomes: `Drop` (read before), `Hold` (out of order: kept
under its sequence number unless that key is taken) and `Accept` (trimmed and
handed on). The drain loop runs one iteration per step (`DrainStep`,
`DrainEnd`), and nothing else is enabled meanwhile, because `Push` runs in the
one capturing goroutine. Segments may be pushed in any order, any number of
times, or never. `captured` is a history variable; `wire`, chosen at the
beginning, says which segments the senders may put on the wire, so that one run
has recut streams as well as streams that are repeated as they were
(`Aligned`).

`SeqBefore` is `int32(a-b) < 0`: with `SeqMod = 2^32` the difference lies in the
upper half of the space. `seqDistance` is subtraction modulo `SeqMod`.

### Pipeline

`Capture` is `ProcessDecodedTCP` up to the assembler: a packet is seen, and is
pushed if `Outbound` lets it pass. `Reassemble` is the rest of `Push`, `Decode`
one turn of the loop over chunks, `Process` one of the loop over messages, with
the merge and the publish; `ProcessFails` is their error return. A flow is the
tuple that `tcpFlowID` prints. Its bytes contain records: `head .. tail` is the
frame, with header and checksum, and `first .. last` the JSON object in it; a bare object
has no more than that. `EndOf` is the byte that completes a record for the decoder: a frame
waits for the last byte of its checksum (`decoder.go:84`), but where the
capture missed its header, what is in it is read as a bare object, complete at
its brace (`decoder.go:53`). `Decode` finds the records completed in the chunk whose
object began in the stream: that this is what the decoder does however the stream is
cut is what `ChunkingInvisible` says of `Decoder`. Damaged records, and debris that
looks like a marker or a brace, are that run's subject. A value is represented by the record that set it.

### Decoder

`Push(n)` appends the next `n` bytes of a stream; then each iteration of the
loop is one of eight actions, named for what the code does with the head of the
buffer. Four return (`WaitForHeader`, `WaitForFrame`, `WaitForRecord`,
`WaitForObject`), four go on (`RejectLength`, `TakeFrame`, `Align`,
`TakeObject`). `Discard` is `discardOversizedGarbage`. `Scan` is the scan of
`findJSONObjectEnd`, as a recursive function, so that it can be proved about.

`limited` is a history variable: the buffer limit has cost bytes. `MessagesIn` is what a
sequence of bytes means without a limit and without chunks: `Reads` tells what it gives at a byte.

Scaled down: the header is 4 bytes instead of 7 (marker, one type byte, one
length byte for the code's four), the checksum 1 instead of 2. `Checksum` and
`Unmarshals` are constants: the control flow needs only that they are functions
of the bytes.

### RawState, Discovery, Entities

Fields are a function from names to values. A value is an integer when
`parseNumber` reads a finite number from it (up to `MaxFloat`: a sum beyond it
overflows to `NonFinite`), be it written as a number or as text, `NonFinite` for the texts `ParseFloat` takes but JSON cannot express, and
`Text` for all else. `Build` and `Accepts` are the functions of the code on these.
A mapping file is a list of sensors, with or without the built-in ones. The
identifier made from a field name is a constant function, because only its
collisions matter.

`Entities` puts them in time: a process loads the mapping (`Start`), publishes
one retained message per sensor (`Announce`), merges and publishes records
(`Message`), and ends anywhere (`End`), while the user edits the mapping
(`Edit`). `config` and `state` are what the broker retains over all processes,
and `Shown` evaluates the template of an entity on the retained state, with the
code's omission of an empty `values` (`omitempty`), on which every template fails.

### MqttBroker, MqttClient, Bridge

`phase` is where `run` is; `pc` is where the goroutine is inside the client;
`writer` is the goroutine of the write it waits for; `stray` is the message of
one that was given up on and has not yet read `c.conn`. `attempt` is 0 in
`Connect`, 1 and 2 in `PublishJSON`'s first and second write.

A write into a connection whose other end is gone (`~Deliverable`) may succeed
and be lost, fail, or block until TCP gives up: all three happen. A session
that ends without DISCONNECT publishes its will. The will and everything else
about the broker is the protocol's rule, taken as far as the client relies on it.

A captured message is a version number, and the state published for it is that
number: what the properties need to know is which message is the newer one.

### Service

`phase` is the unit's while no process runs (`waiting`, `failed`) and the
process's otherwise (`connecting`, `detecting`, `opening`, `binding`, `capturing`). Time is
discrete: `Tick` is disabled while a step is due (`Due`), so that delays and
timeouts are exact to a tick; a process that fails does so in no time. `age` and
`starts` are systemd's start-limit window, which begins with its first start.
The world (broker, links, the dongle's path) changes at any moment. `candidates`
is the snapshot of `candidateInterfaceNames`; `Detect` is a frame seen on one of
them. An interface that is gone comes back with another index, so it leaves the
snapshot. `Lookup` and `Bind` are steps of their own: an interface may go before the lookup
(`OpenGone`, with one fallback to detection), or between the two, which `linkError` remembers and
for which there is no fallback (`BindFails`). A socket bound to an interface that goes down gets one error
(`linkError` again), which ends the capture. `quiet` and `others` remember why the
runs of the window ended.

### Startup

What happens before `run`, question by question, over several starts: `disk` holds
the configuration files, `cfg` the settings in memory, `pc` the place in
`completeConfigInteractive`, one action per question and per way around it. `Asks`
says whether an answer is read now; `EndOfInput` is what a service gets there, because
its stdin is `/dev/null`. `Accept` and `Write` are the two halves of `os.WriteFile`
(truncate, write), with a crash or a full disk between them. `ForSave` and `Normalize`
are the functions of the code on values of a few kinds: an interface name, a
capture file below HOME, written with `${HOME}`, or elsewhere, and a pair of
quotes, which the code takes for nothing. A start has a HOME and may have an
XDG_CONFIG_HOME apart from it, which is a candidate before the others. Settings that are asked for in the same
way are one set; the paths of the password and the mapping file are treated like `input.file`
in the code and left out; a log level is left out.

## 3. What the runs check

| Run | Instance | Shows |
|---|---|---|
| `pipeline` | four flows (two reports, one answer, one to another server), `SeqMod = 8`; either one flow recut in all 12 ways into pieces of up to 3 of 5 bytes, or all flows as first cut; frames cut in their header, in their object and before their checksum, frames whose header was missed, bare objects; 21 022 states | chunks are contiguous (`InOrder`), the numbers agree with the stream (`SeqAgrees`), nothing captured is thrown away (`NoByteLost`), a flow waits only for what was missed (`NoStall`); every record captured without a gap is published (`CapturedIsPublished`), a frame only with its checksum (`FramesAreWhole`), and a stream captured whole to its end (`WholeIsPublished`); the assembler implements `ByteStream` and the pipeline `RecordStream` |
| `pipeline_reuse` | one flow, two connections of 4 bytes, 24 numbers apart in a space of 32 | **violated**: the records of the second connection are lost though every byte was captured |
| `reassembly_stall` | one flow, 5 bytes, all cuts of up to 3 bytes | **violated**: with recut segments a flow stalls on a byte it holds |
| `decoder` | some 400 streams of up to 33 bytes: two parts, whole or damaged, and a record or its beginning; and long debris; every cut into chunks of up to 6 bytes; limit 24, payloads up to 5 | as long as the limit has cost nothing, messages do not depend on the cut (`ChunkingInvisible`), no bytes are joined that were not neighbours (`BufferIsTail`), the buffer is bounded but for an open object (`OnlyOpenObjectOutgrows`), each iteration moves on (`LoopProgresses`), `Push` returns (`PushReturns`) |
| `entities` | six fields, six mapping files (with and without defaults, with clashing, made and missing identifiers), seven records (numbers, text, a number JSON has no form for, parts, totals and a total that overflows), two records per process, any number of processes; 34 643 states | nothing that cannot be marshalled is published (`TypeOK`), an entity shows the newest value of its own field (`ShownIsNewest`), totals equal the sum of their parts (`TotalsAgree`), no sensor overwrites another (`EveryEntityAnnounced`) |
| `service` | two interfaces, each up, down or gone, name fixed or `auto`; interfaces that go between lookup and bind; 925 942 states | a quiet dongle alone does not exhaust the start limit (`QuietAloneNeverFails`), no process captures on a dead interface (`CapturesAlive`), a world that settles ends with a capture (`EndsUpCapturing`) |
| `service_limit` | the unit's own numbers | **violated**: the broker alone, away for a minute and a half, costs the service |
| `bridge_once` | one process, live or file, 2 connections, 2 messages, links may be lost; 64 031 states | SIGTERM ends the process (`TermEndsProcess`), a process that is gone is shown offline (`OfflineAfterGone`), a finished replay that is still shown online left its last state, unless the broker restarted (`FileReplayComplete`), a nil connection is written to only after a signal (`PanicsOnlyWhenStopped`) |
| `bridge_restart` | two processes, 3 connections, 2 messages, one broker restart | the state never goes back (`StateNeverGoesBack`), what was reported as published is retained (`PublishedIsRetained`), on its first connection a process is shown online and announced (`AnnouncedOnFirstConnection`) |
| `bridge_available` | one process, 2 connections, 1 message | **violated**: after a reconnect the device stays offline |
| `bridge_shutdown` | same | **violated**: SIGTERM during a publish is not a controlled shutdown |
| `startup` | two starts, two home directories, XDG_CONFIG_HOME set or not, 97 configuration files at each of the places looked at, 9 command lines, 4 answers, two required settings; 3.8 million states | what was saved is what the next start uses (`SavedIsUsedAgain`), without questions (`NotAskedAgain`), and so is an input named in full (`NamedInputAsksNothing`); options win over file and answers (`FlagsWin`); a start without a user writes nothing (`UnattendedNeverWrites`) |

### Bounds, and why they are enough

* `SeqMod = 8`: the arithmetic has three regions (before, at and after the
  awaited byte) on both sides of the wrap; the recut stream of 5 bytes is longer than
  half of the space, where a segment ahead can look like one behind, the streams of 4 bytes
  are not (`Half`). The theorems cover every `SeqMod`.
* Five bytes in up to three-byte segments: enough for a segment to overlap two
  buffered ones, to cover one whole, and for two of the same start to differ in
  length. A frame of four bytes (header, two of its object, checksum) and a bare object behind
  it: a packet may end anywhere in the frame, the capture may begin after its header, one chunk ends
  none, one or both, and a packet releases one chunk or several.
* `MaxChunk = 6` splits every record at each of its bytes; the long streams
  cross the limit of 24 with a record before it, after it and across it.
* `MaxMessages = 2`: a field is set by one record and set again, or left, by the next;
  what a third would add is a field again. Processes are unbounded.
* `Service`: a tick is 15 s, `RestartSec`. The run scales the other numbers
  down: burst 4 instead of 6, window 27 ticks instead of 40, detection 8 (the
  code's two minutes), dial 2 instead of 8. What decides is kept: four runs without traffic
  need more than the window (4 x (8 + 1) > 27), four failed dials do not. With the real numbers
  there are 2.9 million states; the safety properties were checked on them as well, and the theorems
  hold for all numbers.
* `MaxConns`: one connection per process and one for the retry; with three and
  two processes, a process inherits whatever the first one left under way.
* `MaxVersion = 2`: an older and a newer state. `MaxRuns = 2`: a dead process
  and its successor. One broker restart.
* `MaxStarts = 2`: one start saves, the next one reads. Two required settings: one may be
  asked for after the other, and a crash may come between them.
* A dial beyond `MaxConns` can only fail, which is something a dial may do
  anyway; messages beyond `MaxVersion` are not sent, which is something a dongle
  may do anyway. Neither hides a stop, but the last connection is always seen
  to its end.

Deadlock is checked for the single assembler, `Entities` and `Service`. An
error ends the pipeline, the decoder's streams end, the process ends for good,
and the starts are bounded; those configurations turn the check off.

### Fairness

* `Reassembly`, `WF(Drain)`, `Pipeline`, `WF(Work(f))` and `Decoder`, `WF(Iteration)`: the
  handling of a packet that began goes on. It is sequential code. The arrival of
  segments and chunks is not fair: the capture may see nothing more.
* `Bridge`: `WF(Main)`, `WF(Goroutine)`: the Go scheduler runs what can run. This
  includes `ConnackFails` and `WriterGivesUp`: TCP gives up on a peer that is gone
  (Go's dialer enables keep-alive probes). `Receive` is not fair: a dongle may be
  silent for ever.
* `WF` for what the broker does on each connection and for its start: it serves
  what arrives or drops the connection. A broker that accepts a connection and then
  never answers CONNECT is *excluded* by this, and it would hold the process,
  SIGTERM included: `Connect` reads CONNACK without a deadline (`client.go:79`).
  `TermEndsProcess` is to be read with this assumption.
* `SF(EndOfFile)`: a file is finite, so that the end is reached however often the
  loop goes on with another packet.
* `Service`: `WF(Program)`, `WF(Tick)`: the program runs and time passes.
  `SF(Detect)`: a detection that is on, again and again, at the right interface
  meets a report in the end, because a dongle reports every few seconds and
  reconnects by itself. The broker, the links and the dongle's path are not fair.

## 4. Findings

1. `NeverStalls`: the drain loop looks for the exact sequence number it waits for.
   When a retransmission overlaps a buffered segment, `nextSeq` moves past its key.
   The segment is neither handed on nor freed, and the flow waits.
2. `ReconnectIsPublished`: a flow's state is never reset. When the dongle opens a new
   connection from the same port, its sequence numbers are compared with the old ones:
   they look old and are dropped, or wait for ever behind a gap.
3. `AvailableWhilePublishing`: after the loss of a connection the old session's
   will sets `offline`; `PublishJSON` reconnects, and nothing publishes `online`.
4. `ShutdownPublishesOffline`: the context that SIGTERM cancels is the context of a
   publish under way, whose failure makes `run` return an error before
   `publishOfflineStatus`.
5. `BrokerAloneNeverFails`: six starts in ten minutes, 15 s apart: a broker that
   refuses connections for a minute and a half makes systemd give the service up.

Three smaller things the model shows are kept as hazards: the deferred `Close`
sends DISCONNECT after any error and so discards the will (`OfflineAfterGone`
therefore leaves a capture error out); the setup asks whether to save when it has
copied one interface name to the other, which ends a start nobody attends
(`NamedInputAsksNothing` therefore asks for both names); and a publish goroutine
left behind by a signal may write through a nil connection.

## 5. Proofs

Nothing is assumed but the named assumptions on constants, which the runs
evaluate, and those in the statements.

* `Reassembly`: `TypeCorrect`, and, under `ShortStreams`, all it promises:
  * `NumbersAgree` and `OrderCorrect`, `Spec => []SeqAgrees` and `Spec => []InOrder`.
    `InOrder` is not inductive: it speaks of offsets, while the code decides by
    sequence numbers. `SeqAgrees` ties the two together (nextSeq is the sequence
    number of the byte after the last one handed on; a buffered segment sits under the
    number of its own first byte), and `TypeOK /\ SeqAgrees /\ InOrder` is
    inductive. `ShortStreams` (a flow carries fewer bytes than there are sequence
    numbers, 4 GiB) is needed: beyond it a sequence number stands for two bytes.
    `Half` is *not* needed: a segment far ahead that looks like one behind
    is dropped or trimmed to nothing, never handed on out of order. The heart is `TrimLemma`: if what
    the comparison finds already read is less than the segment, the rest begins at
    the very byte waited for. `Arithmetic` has the facts on remainders.
  * `NothingLost` and `WaitsForMissed`, `NoByteLost` and `NoStall`, of flows that are `Aligned` and
    within `Half` (conditions of the two properties). The invariant adds `Recovers`: what was handed on is one run
    of bytes that ends where a segment ends (`HandedOn`); what waits lies beyond the
    byte waited for, or at it while the drain runs (`Ahead`); every captured
    byte is in one of the two (`Kept`). Aligned segments have the same bytes or none in
    common, so that a key that is taken is taken by the same bytes, and `Half` makes
    the comparison of numbers the one of offsets.
  * `AssemblerRefines`, `Spec => ImplementsByteStream`: every step is a step of
    `ByteStream` or leaves it as it is. It needs that what waits was captured (`Waits`).
* `Pipeline`, under `ShortStreams`: `PipelineTypeCorrect`, `PipelineOrderCorrect`,
  `PipelineComplete` and `PipelineStreams` (the assembler's theorems hold of the
  composition: a packet that is filtered out, an error and the work on chunks
  change nothing of it), and
  * `PipelineRefines`, `PipelineSpec => ImplementsRecordStream`: nothing is published but what
    should be. The invariant adds to
    the assembler's that chunks hold only bytes that were seen (`Covers`) and that
    every message published or pending is whole, was completed in what the decoder of its flow
    was given (`Behind`) and follows those of its flow before it (`Queue`); a record is whole
    because it began in the stream and was completed in a chunk, and the chunks are contiguous.
    `Rank` orders the records of a chunk by counting.
  * `FramesAreCaptured`, `PipelineSpec => []FramesAreWhole`: no frame is published before its
    checksum, however it is cut (`Framed`, a part of `Queue`).
  * `PublishesCaptured`, `PipelineSpec => []CapturedIsPublished`: what should be published is: a frame
    once its checksum is captured, and one whose header was missed once its object is. All that is
    seen of a flow to the cloud is captured by its assembler (`AllSeen`), every record found in a
    chunk that was handled is pending or published (`AllDecoded`), and by `NoStall` a record
    without a gap before it lies in a chunk that was handed on.
* `Decoder`:
  * `DecoderTypeCorrect`, `TailCorrect` and `BufferCorrect`, for `TypeOK`, `BufferIsTail` and `OnlyOpenObjectOutgrows`,
    which are inductive together. `IterationShape` says what one iteration
    does to the buffer: it returns with a suffix or goes on with a proper suffix;
    `SuffixOfTail` says a suffix of a tail is a tail; `Least` and `Greatest` give
    the choices of `Align`, `TakeObject` and `Discard` their meaning.
  * `LoopCorrect`, `Spec => LoopProgresses`, follows from the same two facts. It is the
    measure behind `PushReturns`.
  * `ChunkingCorrect`, `Spec => []ChunkingInvisible`. The property speaks of the bytes fed; the
    next chunk changes what they mean, since a record that was open is closed. The
    invariant `ReadSoFar` therefore speaks of *every* prefix of the stream that is still to come:
    the messages found, and then what the prefix gives from the buffer on, are what
    it gives as a whole. A chunk leaves fewer such prefixes; an iteration moves one record,
    or none, from what is left to what was found, because a frame and an object mean the same
    whatever follows (`SameFrame`, `SameObject`); debris gives nothing (`SkipsDebris`).
    That the recursive functions `Scan` and `MessagesIn` exist, and unfold, is shown for
    these two by a least counterexample (`Upwards`, `Downwards`).
* `Entities`:
  * `EntitiesTypeCorrect`, with the published state always one that can be
    marshalled, and `AnnouncedCorrect`, `Spec => []EveryEntityAnnounced`. The invariant
    says that the process's sensors have different identifiers (`Distinct`: from `Accepts`, or from
    the assumption on the built-in ones) and that those announced so far are still
    what the broker retains (`Kept`).
  * `ShownCorrect` and `TotalsCorrect`, `ShownIsNewest` and `TotalsAgree`. Both follow from `History`: the fields of a
    process have each the newest value of its records (`Collects`), and the retained
    state is `Build` of some fields, which are those of the process if it has published.
    Of the sum itself only that both sides add up the same numbers is used; that no total
    is among the parts of a total is `NumberedAssumption`.
* `Service`: `TypeCorrect`, `QuietCorrect` and `AliveCorrect`, for every delay, limit and
  timeout. `QuietAloneNeverFails` rests on `Clock`: the window is at least as
  old as the restarts and the detections in it together lasted. `AliveCorrect` needs only that every change of a
  bound interface leaves an error at its socket.
* `Startup`, for every set of homes, files, command lines and answers:
  * `UnattendedCorrect`, `Spec => UnattendedNeverWrites`. The invariant
    is `WritingAttended` (a file is being written only in a start with a user at its
    input); `WritersAttended` then needs only that no step but `Accept` and `Write`
    changes a file.
  * `StartupTypeCorrect`, `SavedCorrect`, `FlagsCorrect`, `NamedInputCorrect` and `NotAskedCorrect`, for the other five properties, from
    one invariant, `SetupInv`. Its parts say what holds at each place of the setup: what
    is settled once a question was answered (`Settled`), that a save stands as it
    was made until the next one (`SaveStands`, `SavedBefore`), that nothing is asked for of
    an input that is known (`NothingAsked`), that the settings in memory have the command line in them
    (`FlagsHold`), and that a start in the environment of a save
    has read what was saved (`ReadAgain`, `SavedThisStart`). The lemmas are on
    `Normalize` and `ForSave`, with the one that matters most: what
    `Normalize` makes of the saved form is what it made of the settings themselves.
* `Bridge`, for any number of connections, messages, discovery topics, processes and
  faults:
  * `PanicCorrect`, from `Signalled`: a done context, the offline phase and an
    abandoned goroutine each owe to a signal.
  * `BridgeTypeCorrect`. `TypeOK` needs `Writing` (what is being written is a
    message) and `Calling` (the goroutine of main is inside the client only in
    the phases that call it, so no call outlives its process).
  * `StateOrderCorrect`, `Spec => StateNeverGoesBack`. The property says nothing of
    what is still on its way, so the invariant `Ordering` does: `Deliveries` (the states
    in a queue are in order, between the retained and the captured one,
    and only a session carries any), `Sessions` (one session at a time: all connections
    carry one client identifier, and CONNECT takes over), `Established` (the client
    writes only after CONNACK) and `InHand` with `Abandoned` (what a call or an
    abandoned goroutine still holds is the newest state: a call that was abandoned
    is never followed by another state).
  * `PublishedCorrect`, `Spec => []PublishedIsRetained`, from `Confirmed`: the state written
    by the goroutine that reported success is in the queue of its session until the
    broker serves it, and nothing served after it is older.
  * `AnnouncedCorrect`, `Spec => []AnnouncedOnFirstConnection`, from `Announced`: on the connection a
    process starts with (`Latest`, `Booting`) and until it is told to stop, nothing is said of the
    status but "online" (`OnlineInHand`, `OnlineSaid`), and each announcement made is
    retained, or in the queue, or its session is gone (`ToldFirst`). Since the
    first session of a process takes the old one over before its first
    publish is served, no will comes after.
  * `ReplayCorrect`, `Spec => []FileReplayComplete`, from `Replaying`: only the connection opened last carries
    messages once it is accepted (`OneSpeaker`), DISCONNECT is the last packet on any
    (`LastDisconnect`), a session that ends in another way shows the process offline (`EndedOffline`), so
    that a state reported as done is retained, or on its way, or the process
    is shown offline (`StateEnds`).

Every invariant and action property that a run checks, and both refinements, are proved. Only
model-checked are the liveness properties (`WholeIsPublished`, `PushReturns`, `EndsUpCapturing`,
`OfflineAfterGone`, `TermEndsProcess`): fairness and ENABLED are out of the provers'
reach. The five violated properties are false, and TLC shows how.

Besides types and sizes, the constants are assumed to have these properties, each a
fact of the code or of the representation: `None` is none of the values it stands
beside (an identifier of a connection, a value, a configuration, a segment); the segments of
a flow have at least one byte; records of a flow do not overlap; `MaxFloat` is a natural number; a maximal frame fits the buffer limit
(`maxBufferedBytes` is 1 MiB, `maxFramePayloadBytes` less); the built-in sensors have different
identifiers; no command line has `--file` and `--interface` (`parseFlags` refuses it); and what
follows the prefix of a total's name is no number.

## 6. Not modelled

* Wire encodings of MQTT, wording, logging, counters of the summary, YAML
  syntax, and the opening of pcap files, Ethernet, IP and TCP headers: gopacket and
  pcapgo, third-party libraries, read them.
* The installer: a script run by hand once, with copies of files and awk over
  text. The stubs for other platforms, which return an error.
* `PublishAll`, `NowPayload`, `SensorForField`, `config.Load` and
  `config.Locate`: nothing but tests calls them. The fallback of the device id to the serial
  number in `state.Build`: `Validate` requires both id and name.
* In `Service`: signals and a broker that accepts and never answers, which are
  `Bridge`'s; in `Entities`: failing publishes, likewise.
* In the bridge: how long a dial takes (the dialer has no timeout of its own; it may fail at any
  point). `Close` is one step, taken when its write of DISCONNECT returns: the code ignores the
  error, and a write that blocks holds the process until TCP gives the peer up.
* In `Pipeline`: damaged records, and debris that looks like a marker or a brace, the rest of
  a record included whose beginning was missed; `Decoder` has them.
* Signals during the setup: no prompt looks at the context.

## 7. Plan

Done: reassembly and its abstract stream, the decoder, both composed in the
pipeline and its abstract record stream, the payload, the entities, the client
with broker and process, the service, the setup and its files; the proofs above.

Left:

1. A measure for `OfflineAfterGone`, as `LoopProgresses` is one for `PushReturns`: an action
   property that shows what each step of an ending process brings nearer.
2. `RecordStream` on bytes: that `Decode` of `Pipeline` is `MessagesIn` of `Decoder` on streams
   of undamaged records, which would join `ChunkingCorrect` and `PublishesCaptured`
   in one statement.
