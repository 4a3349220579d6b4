-------------------------------- MODULE Bridge --------------------------------
(***************************************************************************)
(* The life of the bridge process with MQTT publishing enabled: run in     *)
(* cmd/passive-solar-mqtt/main.go, ReadLive and ReadFile in                *)
(* src/internal/capture, and the processor's publishes, on top of the MQTT *)
(* client.  systemd restarts the process after a failure.                  *)
(*                                                                         *)
(* A captured AlphaESS message is a version number; the state payload      *)
(* published for it is that number.                                        *)
(***************************************************************************)
EXTENDS MqttClient

CONSTANTS
    Modes,     \* input modes configured: TRUE is the live interface, FALSE a file
    MaxRuns    \* bound: processes started by systemd

ASSUME ModesAssumption == Modes \subseteq BOOLEAN /\ Modes # {}
ASSUME MaxRunsAssumption == MaxRuns \in Nat \ {0}

VARIABLES
    live,      \* cfg.Input.Mode, for good
    phase,     \* start, boot, setup, online, discovery, capture, receive,
               \* state, offline, close, exiting, down
    term,      \* SIGTERM or SIGINT arrived
    exit,      \* none, ok, error, killed, panic
    cause,     \* the phase the process left from
    runs,      \* processes started so far
    version,   \* AlphaESS messages captured so far
    announced, \* discovery messages handed to PublishJSON so far
    first      \* the connection made at the start of this process

processVars == <<live, phase, term, exit, cause, runs, version, announced, first>>
vars == <<allVars, processVars>>

Status(payload) == [topic |-> "status", payload |-> payload]
State(n) == [topic |-> "state", payload |-> n]
DiscoveryMsg(i) == [topic |-> DiscoveryTopics[i], payload |-> "config"]

Init ==
    /\ BrokerInit /\ ClientInit
    /\ live \in Modes
    /\ phase = "start" /\ term = FALSE /\ exit = "none" /\ cause = "none"
    /\ runs = 1 /\ version = 0 /\ announced = 0 /\ first = 1

Running == phase # "down" /\ ~panicked
Returned(r) == pc = "idle" /\ result = r

\* A client call starts and nothing else of the client changes.
Publish(m) ==
    /\ CallPublish(m)
    /\ UNCHANGED <<brokerVars, conn, opened, stray, panicked>>

\* run returns with outcome e: the deferred Close is next.
Leave(e) ==
    /\ phase' = "close" /\ exit' = e /\ cause' = phase
    /\ UNCHANGED <<allVars, term, live, runs, version, announced, first>>

-----------------------------------------------------------------------------
(* run, up to the capture loop. *)

Start ==
    /\ phase = "start"
    /\ phase' = "boot"
    /\ pc' = "dial" /\ attempt' = 0 /\ result' = "none"
    /\ first' = opened + 1
    /\ UNCHANGED <<brokerVars, conn, opened, msg, writer, stray, ctxDone, panicked,
                   term, exit, cause, live, runs, version, announced>>

Connected ==
    /\ phase = "boot" /\ Returned("ok")
    /\ phase' = "setup"
    /\ UNCHANGED <<allVars, term, exit, cause, live, runs, version, announced, first>>

\* run returns before it defers Close.
ConnectFailed ==
    /\ phase = "boot" /\ Returned("error")
    /\ phase' = "exiting" /\ exit' = "error" /\ cause' = "boot"
    /\ UNCHANGED <<allVars, term, live, runs, version, announced, first>>

\* Interface detection, socket, pcap file or address errors.
SetupFails == phase = "setup" /\ Leave("error")

\* planAvailability.
PublishOnline ==
    /\ phase = "setup"
    /\ phase' = "online"
    /\ Publish(Status("online"))
    /\ UNCHANGED <<ctxDone, term, exit, cause, live, runs, version, announced, first>>

\* planDiscovery: one message after the other, then the capture loop.
PublishDiscovery ==
    /\ phase \in {"online", "discovery"} /\ Returned("ok")
    /\ announced < Len(DiscoveryTopics)
    /\ phase' = "discovery"
    /\ announced' = announced + 1
    /\ Publish(DiscoveryMsg(announced + 1))
    /\ UNCHANGED <<ctxDone, term, exit, cause, live, runs, version, first>>

DiscoveryDone ==
    /\ phase \in {"online", "discovery"} /\ Returned("ok")
    /\ announced = Len(DiscoveryTopics)
    /\ phase' = "capture"
    /\ UNCHANGED <<allVars, term, exit, cause, live, runs, version, announced, first>>

PublishFailed ==
    /\ phase \in {"online", "discovery", "state"} /\ Returned("error")
    /\ Leave("error")

-----------------------------------------------------------------------------
(* The capture loop. *)

\* Mutant: ReadLive does not look at the context.
LoopTopBlind ==
    /\ phase = "capture"
    /\ phase' = "receive"
    /\ UNCHANGED <<allVars, term, exit, cause, live, runs, version, announced, first>>

\* The top of the loop: ReadLive looks at the context, ReadFile does not.
LoopTop ==
    /\ phase = "capture" /\ ~(live /\ term)
    /\ phase' = "receive"
    /\ UNCHANGED <<allVars, term, exit, cause, live, runs, version, announced, first>>

\* A packet that completes an AlphaESS message: processMessage.
Receive ==
    /\ phase = "receive" /\ version < MaxVersion
    /\ version' = version + 1
    /\ phase' = "state"
    /\ Publish(State(version + 1))
    /\ UNCHANGED <<ctxDone, term, exit, cause, live, runs, announced, first>>

\* Any other packet, a receive timeout, or an interrupted receive.
ReceiveNothing ==
    /\ phase = "receive"
    /\ phase' = "capture"
    /\ UNCHANGED <<allVars, term, exit, cause, live, runs, version, announced, first>>

\* A receive or file error, a state that cannot be marshalled, or a replay
\* wait that the context ends.
ReceiveFails == phase = "receive" /\ Leave("error")

\* The pcap file ends.
EndOfFile == phase = "receive" /\ ~live /\ Leave("ok")

\* The state is published: the packet may hold another message.
StatePublished ==
    /\ phase = "state" /\ Returned("ok")
    /\ phase' \in {"capture", "receive"}
    /\ UNCHANGED <<allVars, term, exit, cause, live, runs, version, announced, first>>

-----------------------------------------------------------------------------
(* The end of the process. *)

\* ReadLive returns no error: publishOfflineStatus, with a context of its own.
PublishOffline ==
    /\ phase = "capture" /\ live /\ term
    /\ phase' = "offline"
    /\ ctxDone' = FALSE
    /\ Publish(Status("offline"))
    /\ UNCHANGED <<term, exit, cause, live, runs, version, announced, first>>

\* The two seconds of that context are over.
OfflineTimeout ==
    /\ Running /\ phase = "offline" /\ pc # "idle" /\ ~ctxDone
    /\ ctxDone' = TRUE
    /\ UNCHANGED <<brokerVars, conn, opened, pc, attempt, msg, writer, stray, result,
                   panicked, processVars>>

\* run ignores the outcome.
OfflineDone ==
    /\ phase = "offline" /\ pc = "idle" /\ result # "none"
    /\ Leave("ok")

\* The deferred Client.Close.
CloseClient ==
    /\ phase = "close"
    /\ CloseConn
    /\ phase' = "exiting"
    /\ UNCHANGED <<server, ident, lost, ack, retained, brokerUp, crashes, opened, pc, attempt,
                   msg, writer, stray, result, ctxDone, panicked,
                   term, exit, cause, live, runs, version, announced, first>>

\* What is left of the process goes: the kernel closes its connections.
Die ==
    /\ phase' = "down"
    /\ client' = [c \in Conns |-> IF client[c] = "open" THEN "closed" ELSE client[c]]
    /\ conn' = None /\ pc' = "idle" /\ writer' = "none" /\ stray' = None
    /\ panicked' = FALSE
    /\ UNCHANGED <<server, ident, queue, ack, retained, brokerUp, crashes,
                   opened, attempt, msg, result, ctxDone, term, live, runs, version,
                   announced, first>>

Exit ==
    /\ phase = "exiting"
    /\ Die
    /\ UNCHANGED <<lost, exit, cause>>

Panic ==
    /\ phase # "down" /\ panicked
    /\ Die
    /\ exit' = "panic" /\ cause' = phase
    /\ UNCHANGED lost

\* The process is killed; if the host loses power, its connections go silent.
Kill ==
    /\ Running
    /\ Die
    /\ exit' = "killed" /\ cause' = phase
    /\ lost' \in {lost, lost \cup {c \in Conns : client[c] = "open"}}

Sigterm ==
    /\ Running /\ ~term
    /\ term' = TRUE
    /\ ctxDone' = (ctxDone \/ phase # "offline")
    /\ UNCHANGED <<brokerVars, conn, opened, pc, attempt, msg, writer, stray, result,
                   panicked, phase, exit, cause, live, runs, version, announced, first>>

\* Restart=on-failure.
Restart ==
    /\ phase = "down" /\ exit # "ok" /\ ~term /\ runs < MaxRuns
    /\ runs' = runs + 1
    /\ phase' = "start" /\ exit' = "none" /\ cause' = "none" /\ announced' = 0
    /\ attempt' = 0 /\ msg' = None /\ result' = "none" /\ ctxDone' = FALSE
    /\ UNCHANGED <<brokerVars, conn, opened, pc, writer, stray, panicked, term, live, version, first>>

-----------------------------------------------------------------------------
\* The goroutine of main; a new AlphaESS message is up to the dongle.
MainStep ==
    \/ Start \/ Connected \/ ConnectFailed \/ SetupFails
    \/ PublishOnline \/ PublishDiscovery \/ DiscoveryDone
    \/ PublishFailed \/ LoopTop \/ ReceiveNothing \/ ReceiveFails \/ EndOfFile
    \/ StatePublished \/ PublishOffline \/ OfflineDone \/ CloseClient \/ Exit

ClientStep == phase # "down" /\ (ConnectSteps \/ WriteSteps) /\ UNCHANGED processVars

Main == ~panicked /\ (MainStep \/ ClientStep)
Goroutine == ~panicked /\ phase # "down" /\ GoroutineSteps /\ UNCHANGED processVars
Stray == ~panicked /\ phase # "down" /\ StrayWrites /\ UNCHANGED processVars
Broker == BrokerNext /\ UNCHANGED <<clientVars, processVars>>

Next ==
    \/ Main \/ (~panicked /\ Receive) \/ Goroutine \/ Stray \/ Broker
    \/ Panic \/ Kill \/ Sigterm \/ OfflineTimeout \/ Restart

\* Goroutines are scheduled, TCP gives up on a peer that is gone, the broker
\* serves what arrives and drops connections that went silent, and a file ends.
Fairness ==
    /\ WF_vars(Main) /\ WF_vars(Goroutine) /\ WF_vars(Panic)
    /\ \A c \in Conns : WF_vars(BrokerServe(c) /\ UNCHANGED <<clientVars, processVars>>)
    /\ WF_vars(BrokerStart /\ UNCHANGED <<clientVars, processVars>>)
    /\ SF_vars(~panicked /\ EndOfFile)

Spec == Init /\ [][Next]_vars /\ Fairness

-----------------------------------------------------------------------------
IsMessage(m) ==
    \/ m.topic = "status" /\ m.payload \in {"online", "offline"}
    \/ m.topic = "state" /\ m.payload \in 1 .. MaxVersion
    \/ m.topic \in {DiscoveryTopics[i] : i \in DOMAIN DiscoveryTopics} /\ m.payload = "config"

Identifiers == {ClientID(c) : c \in Conns}

IsPacket(p) ==
    \/ p.type = "connect" /\ p.id \in Identifiers
    \/ p.type = "disconnect"
    \/ p.type = "publish" /\ IsMessage(p.msg)

\* A sequence of packets.
IsQueue(q) ==
    /\ Len(q) \in Nat /\ q = [i \in 1 .. Len(q) |-> q[i]]
    /\ \A i \in 1 .. Len(q) : IsPacket(q[i])

NetTypeOK ==
    /\ client \in [Conns -> {"none", "open", "closed"}]
    /\ server \in [Conns -> {"none", "open", "session", "closed"}]
    /\ ident \in [Conns -> Identifiers \cup {None}]
    /\ DOMAIN queue = Conns /\ \A c \in Conns : IsQueue(queue[c])
    /\ lost \subseteq Conns
    /\ ack \in [Conns -> {"none", "accepted"}]
    /\ DOMAIN retained = Topics
    /\ retained["status"] \in {"none", "online", "offline"}
    /\ retained["state"] \in 0 .. MaxVersion
    /\ brokerUp \in BOOLEAN /\ crashes \in {0, 1}

ClientTypeOK ==
    /\ conn \in Conns \cup {None} /\ opened \in 0 .. MaxConns
    /\ pc \in {"idle", "dial", "connack", "write"} /\ attempt \in 0 .. 2
    /\ msg = None \/ IsMessage(msg)
    /\ stray = None \/ IsMessage(stray)
    /\ writer \in {"none", "ready", "stuck", "ok", "error"}
    /\ result \in {"none", "ok", "error"}
    /\ ctxDone \in BOOLEAN /\ panicked \in BOOLEAN

Phases == {"start", "boot", "setup", "online", "discovery", "capture", "receive",
           "state", "offline", "close", "exiting", "down"}

ProcessTypeOK ==
    /\ term \in BOOLEAN /\ live \in Modes
    /\ phase \in Phases /\ exit \in {"none", "ok", "error", "killed", "panic"}
    /\ runs \in 1 .. MaxRuns /\ version \in 0 .. MaxVersion
    /\ announced \in 0 .. Len(DiscoveryTopics) /\ first \in 1 .. MaxConns + 1

TypeOK == NetTypeOK /\ ClientTypeOK /\ ProcessTypeOK

\* The broker holds a session on c and has served everything written to it.
Settled(c) == c # None /\ server[c] = "session" /\ queue[c] = <<>> /\ c \notin lost

\* Property: while the process captures on the connection it started with, the
\* broker shows it online and every entity announced, whatever is left of an
\* earlier process: the will of a session it takes over comes before, never
\* after, its own "online".
AnnouncedOnFirstConnection ==
    phase \in {"capture", "receive", "state"} /\ conn = first /\ Settled(conn) =>
        /\ retained["status"] = "online"
        /\ \A i \in DOMAIN DiscoveryTopics : retained[DiscoveryTopics[i]] = "config"

\* Property: the retained state never goes back to an older message, over
\* reconnects, retries, takeovers and restarts.
StateNeverGoesBack == [][retained'["state"] >= retained["state"]]_retained

\* Property: the retained state is one that was captured, and a publish that
\* was reported as done on a settled connection is what the broker shows.
PublishedIsRetained ==
    phase = "state" /\ Returned("ok") /\ Settled(conn) => retained["state"] = version

\* Property: a publish goroutine finds its connection nil only when a signal
\* made its caller give up before it: while none came, whatever is lost and
\* retried, nothing is written through a nil connection.
PanicsOnlyWhenStopped == panicked => term

\* Property: a process that had a session and is gone (killed, panicked,
\* stopped in live mode, or out of a failed state or discovery publish) is
\* shown offline from some point on.
Gone ==
    /\ phase = "down"
    /\ \/ exit \in {"killed", "panic"} /\ cause \notin {"start", "boot", "close", "exiting"}
       \/ exit = "ok" /\ live
       \/ exit = "error" /\ cause \in {"discovery", "state"}
OfflineAfterGone == Gone ~> [](retained["status"] = "offline")

\* Property: SIGTERM ends the process.
TermEndsProcess == term ~> phase = "down"

\* Property: a pcap replay that published a state, ended well and was never shown
\* offline has its last state at the broker, whatever earlier processes left,
\* unless the broker itself restarted: Close sends DISCONNECT after every
\* publish, on the same connection.
FileReplayComplete ==
    /\ phase = "down" /\ exit = "ok" /\ ~live /\ msg.topic = "state"
    /\ \A c \in Conns : server[c] \in {"none", "closed"}
    /\ retained["status"] = "online" /\ crashes = 0
    => retained["state"] = version

-----------------------------------------------------------------------------
(* What the documentation says, and the code does not keep. *)

\* Property: README.md:322 and :352, availability comes from the status topic,
\* which is offline when the process is gone: while the process captures with
\* a session of its own and its last state is at the broker, it is online.
AvailableWhilePublishing ==
    phase = "capture" /\ Settled(conn) /\ version > 0 /\ retained["state"] = version
        => retained["status"] = "online"

\* Property: README.md:352, a controlled shutdown of a live capture publishes
\* offline before disconnecting: SIGTERM does not end the process through a
\* failed publish while no connection was lost.
ShutdownPublishesOffline ==
    /\ live /\ term /\ phase \in {"close", "exiting"} /\ cause = "state"
    /\ \A c \in Conns : client[c] # "none" => server[c] \in {"open", "session"}
    /\ lost = {}
    => exit = "ok"
=============================================================================
