----------------------------- MODULE BridgeProofs -----------------------------
(***************************************************************************)
(* Proofs about the bridge process for any number of connections,          *)
(* messages, discovery topics and processes.                               *)
(***************************************************************************)
EXTENDS Bridge, SequenceTheorems, TLAPS

\* What a done context and an abandoned goroutine owe to a signal.  The context
\* of the offline publish is one of its own, but only a signal leads there.
Signalled ==
    /\ ctxDone => term
    /\ phase = "offline" => term
    /\ stray # None => term
    /\ panicked => term

LEMMA SignalledInit == Init => Signalled
    BY DEF Init, ClientInit, Signalled

\* The broker and the network touch none of it, and neither does Receive.
LEMMA SignalledKept ==
    ASSUME Signalled, UNCHANGED <<term, stray>>,
           ctxDone' => ctxDone, phase' = "offline" => phase = "offline",
           panicked' => panicked
    PROVE  Signalled'
    BY DEF Signalled

LEMMA SignalledBroker == ASSUME Signalled, Broker PROVE Signalled'
    BY SignalledKept DEF Broker, clientVars, processVars

\* A publish or the beginning of one.
LEMMA SignalledReceive == ASSUME Signalled, Receive PROVE Signalled'
    BY SignalledKept DEF Receive, Publish

LEMMA SignalledMain == ASSUME Signalled, MainStep PROVE Signalled'
    <1>1. CASE PublishOffline
        BY <1>1 DEF PublishOffline, Publish, Signalled
    <1>2. CASE CloseClient
        BY <1>2, SignalledKept DEF CloseClient
    <1>3. CASE Exit
        BY <1>3 DEF Exit, Die, Signalled
    <1>4. CASE Start \/ PublishOnline \/ PublishDiscovery
        BY <1>4, SignalledKept DEF Start, PublishOnline, PublishDiscovery, Publish
    <1>5. CASE Connected \/ ConnectFailed \/ DiscoveryDone \/ LoopTop \/ ReceiveNothing
                \/ StatePublished
        BY <1>5, SignalledKept
           DEF Connected, ConnectFailed, DiscoveryDone, LoopTop, ReceiveNothing, StatePublished,
               allVars, clientVars
    <1>6. CASE \E e \in {"ok", "error"} : Leave(e)
        BY <1>6, SignalledKept DEF Leave, allVars, clientVars
    <1> QED
        BY <1>1, <1>2, <1>3, <1>4, <1>5, <1>6
           DEF MainStep, SetupFails, PublishFailed, ReceiveFails, EndOfFile, OfflineDone

\* A goroutine is abandoned only when the context is done.
LEMMA SignalledClient ==
    ASSUME Signalled, ConnectSteps \/ WriteSteps \/ GoroutineSteps, UNCHANGED processVars
    PROVE  Signalled'
    <1>1. CASE WriteFails
        BY <1>1 DEF WriteFails, Signalled, processVars
    <1>2. CASE DialOk \/ DialFails \/ DialWithoutPassword \/ ConnackOk \/ ConnackFails
        BY <1>2, SignalledKept
           DEF DialOk, DialFails, DialWithoutPassword, ConnackOk, ConnackFails, processVars
    <1>3. CASE WriteOk \/ WriterWrites \/ WriterGivesUp
        BY <1>3, SignalledKept DEF WriteOk, WriterWrites, WriterGivesUp, processVars
    <1> QED
        BY <1>1, <1>2, <1>3 DEF ConnectSteps, WriteSteps, GoroutineSteps

LEMMA SignalledStray == ASSUME Signalled, Stray PROVE Signalled'
    BY DEF Stray, StrayWrites, Signalled, processVars

LEMMA SignalledStep == Signalled /\ [Next]_vars => Signalled'
    <1> SUFFICES ASSUME Signalled, [Next]_vars PROVE Signalled'
        OBVIOUS
    <1>1. CASE Main
        BY <1>1, SignalledMain, SignalledClient DEF Main, ClientStep
    <1>2. CASE Goroutine
        BY <1>2, SignalledClient DEF Goroutine
    <1>3. CASE Panic \/ Kill
        BY <1>3 DEF Panic, Kill, Die, Signalled
    <1>4. CASE Sigterm
        BY <1>4 DEF Sigterm, Signalled
    <1>5. CASE OfflineTimeout
        BY <1>5 DEF OfflineTimeout, Signalled, processVars
    <1>6. CASE Restart
        BY <1>6 DEF Restart, Signalled
    <1>7. CASE UNCHANGED vars
        BY <1>7, SignalledKept DEF vars, allVars, clientVars, processVars
    <1> QED
        BY <1>1, <1>2, <1>3, <1>4, <1>5, <1>6, <1>7,
           SignalledReceive, SignalledStray, SignalledBroker DEF Next

\* A publish goroutine writes through a nil connection only after a signal
\* (writePacket, closeConnectionOnly), whatever is lost, retried and restarted.
THEOREM PanicCorrect == Spec => []PanicsOnlyWhenStopped
    <1>1. Signalled => PanicsOnlyWhenStopped
        BY DEF Signalled, PanicsOnlyWhenStopped
    <1> QED
        BY <1>1, SignalledInit, SignalledStep, PTL DEF Spec

-----------------------------------------------------------------------------
(* Queues of packets. *)

LEMMA QueueSeq ==
    ASSUME NEW q, IsQueue(q)
    PROVE  q \in Seq({q[i] : i \in 1 .. Len(q)})
    <1> DEFINE S == {q[i] : i \in 1 .. Len(q)}
    <1>1. q \in [1 .. Len(q) -> S] /\ Len(q) \in Nat
        BY DEF IsQueue
    <1> QED
        BY <1>1, SeqDef

LEMMA QueueIs ==
    ASSUME NEW S, NEW q \in Seq(S), \A i \in 1 .. Len(q) : IsPacket(q[i])
    PROVE  IsQueue(q)
    BY LenProperties DEF IsQueue

LEMMA QueueEmpty == IsQueue(<<>>)
    <1>1. <<>> \in Seq({}) /\ \A i \in 1 .. Len(<<>>) : IsPacket(<<>>[i])
        OBVIOUS
    <1> QED
        BY <1>1, QueueIs

LEMMA QueueOne == ASSUME NEW p, IsPacket(p) PROVE IsQueue(<<p>>)
    <1>1. <<p>> \in Seq({p}) /\ Len(<<p>>) = 1 /\ <<p>>[1] = p
        OBVIOUS
    <1>2. \A i \in 1 .. Len(<<p>>) : IsPacket(<<p>>[i])
        BY <1>1
    <1> QED
        BY <1>1, <1>2, QueueIs

LEMMA AppendIndices ==
    ASSUME NEW q, IsQueue(q), NEW p
    PROVE  /\ Len(q) \in Nat /\ Len(Append(q, p)) = Len(q) + 1
           /\ \A i \in 1 .. Len(q) : Append(q, p)[i] = q[i]
           /\ Append(q, p)[Len(q) + 1] = p
           /\ Append(q, p) \in Seq({q[i] : i \in 1 .. Len(q)} \cup {p})
    <1> DEFINE S == {q[i] : i \in 1 .. Len(q)} \cup {p}
    <1>1. q \in Seq(S) /\ p \in S /\ Len(q) \in Nat
        BY QueueSeq, SeqMonotonic DEF IsQueue
    <1> QED
        BY <1>1, AppendProperties

LEMMA TailIndices ==
    ASSUME NEW q, IsQueue(q), q # <<>>
    PROVE  /\ Len(q) \in Nat /\ Len(q) > 0 /\ Head(q) = q[1] /\ Len(Tail(q)) = Len(q) - 1
           /\ \A i \in 1 .. Len(Tail(q)) : Tail(q)[i] = q[i + 1]
           /\ Tail(q) \in Seq({q[i] : i \in 1 .. Len(q)})
    <1> DEFINE S == {q[i] : i \in 1 .. Len(q)}
    <1>1. q \in Seq(S) /\ Len(q) \in Nat
        BY QueueSeq DEF IsQueue
    <1>2. /\ Tail(q) \in Seq(S) /\ Len(Tail(q)) = Len(q) - 1
          /\ \A i \in 1 .. Len(Tail(q)) : Tail(q)[i] = q[i + 1]
        BY <1>1, HeadTailProperties
    <1>3. Len(q) > 0 /\ Head(q) = q[1]
        BY <1>1
    <1> QED
        BY <1>1, <1>2, <1>3

LEMMA QueueAppend ==
    ASSUME NEW q, IsQueue(q), NEW p, IsPacket(p)
    PROVE  IsQueue(Append(q, p))
    <1>1. \A i \in 1 .. Len(Append(q, p)) : IsPacket(Append(q, p)[i])
        <2> TAKE i \in 1 .. Len(Append(q, p))
        <2>1. CASE i \in 1 .. Len(q)
            BY <2>1, AppendIndices DEF IsQueue
        <2>2. CASE i = Len(q) + 1
            BY <2>2, AppendIndices
        <2> QED
            BY <2>1, <2>2, AppendIndices
    <1> QED
        BY <1>1, AppendIndices, QueueIs

LEMMA QueueHeadTail ==
    ASSUME NEW q, IsQueue(q), q # <<>>
    PROVE  IsPacket(Head(q)) /\ IsQueue(Tail(q))
    <1>1. IsPacket(Head(q))
        BY TailIndices DEF IsQueue
    <1>2. \A i \in 1 .. Len(Tail(q)) : IsPacket(Tail(q)[i])
        BY TailIndices DEF IsQueue
    <1> QED
        BY <1>1, <1>2, TailIndices, QueueIs

LEMMA EnqueueType ==
    ASSUME NEW c, NEW p, IsPacket(p),
           DOMAIN queue = Conns, \A d \in Conns : IsQueue(queue[d])
    PROVE  LET q == Enqueue(c, p)
           IN  DOMAIN q = Conns /\ \A d \in Conns : IsQueue(q[d])
    BY QueueAppend DEF Enqueue

LEMMA OwnPackets ==
    /\ IsPacket(DisconnectPacket)
    /\ \A c \in Conns : IsPacket(ConnectPacket(ClientID(c)))
    /\ \A m : IsMessage(m) => IsPacket(PublishPacket(m))
    BY DEF IsPacket, DisconnectPacket, ConnectPacket, PublishPacket, Identifiers, ClientID

LEMMA OwnMessages ==
    /\ IsMessage(Status("online")) /\ IsMessage(Status("offline"))
    /\ \A n \in 1 .. MaxVersion : IsMessage(State(n))
    /\ \A i \in 1 .. Len(DiscoveryTopics) : IsMessage(DiscoveryMsg(i))
    BY DiscoveryTopicsAssumption DEF IsMessage, Status, State, DiscoveryMsg

-----------------------------------------------------------------------------
(* The broker. *)

LEMMA WillsType ==
    ASSUME NetTypeOK, NEW S, FireWills(S)
    PROVE  /\ DOMAIN retained' = Topics
           /\ retained'["status"] \in {"none", "online", "offline"}
           /\ retained'["state"] \in 0 .. MaxVersion
    BY DEF NetTypeOK, FireWills, Topics

LEMMA RetainedType ==
    ASSUME NetTypeOK, NEW m, IsMessage(m), retained' = [retained EXCEPT ![m.topic] = m.payload]
    PROVE  /\ DOMAIN retained' = Topics
           /\ retained'["status"] \in {"none", "online", "offline"}
           /\ retained'["state"] \in 0 .. MaxVersion
    BY DiscoveryTopicsAssumption, MaxVersionAssumption DEF NetTypeOK, IsMessage, Topics

LEMMA ShutType ==
    ASSUME NetTypeOK, NEW c \in Conns, Shut(c),
           UNCHANGED retained \/ FireWills(Will(c))
    PROVE  NetTypeOK'
    BY WillsType, QueueEmpty DEF NetTypeOK, Shut

LEMMA BrokerType == ASSUME NetTypeOK, BrokerNext PROVE NetTypeOK'
    <1>1. ASSUME NEW c \in Conns, BrokerConnect(c) PROVE NetTypeOK'
        <2>1. queue[c] # <<>> /\ Head(queue[c]).type = "connect" /\ IsQueue(queue[c])
            BY <1>1 DEF BrokerConnect, Arrived, NetTypeOK
        <2>2. Head(queue[c]).id \in Identifiers /\ IsQueue(Tail(queue[c]))
            BY <2>1, QueueHeadTail DEF IsPacket
        <2>3. PICK S : FireWills(S)
            BY <1>1 DEF BrokerConnect
        <2>4. DOMAIN queue' = Conns /\ \A d \in Conns : IsQueue(queue'[d])
            BY <1>1, <2>2, QueueEmpty DEF BrokerConnect, NetTypeOK
        <2> QED
            BY <1>1, <2>2, <2>3, <2>4, WillsType DEF BrokerConnect, NetTypeOK
    <1>2. ASSUME NEW c \in Conns, BrokerPublish(c) PROVE NetTypeOK'
        <2>1. queue[c] # <<>> /\ Head(queue[c]).type = "publish" /\ IsQueue(queue[c])
            BY <1>2 DEF BrokerPublish, Arrived, NetTypeOK
        <2>2. IsMessage(Head(queue[c]).msg) /\ IsQueue(Tail(queue[c]))
            BY <2>1, QueueHeadTail DEF IsPacket
        <2>3. /\ DOMAIN retained' = Topics
              /\ retained'["status"] \in {"none", "online", "offline"}
              /\ retained'["state"] \in 0 .. MaxVersion
            BY <1>2, <2>2, RetainedType DEF BrokerPublish
        <2> QED
            BY <1>2, <2>2, <2>3 DEF BrokerPublish, NetTypeOK
    <1>3. ASSUME NEW c \in Conns,
                 BrokerRefuse(c) \/ BrokerDisconnect(c) \/ BrokerSeesClose(c) \/ KeepAliveExpires(c)
          PROVE  NetTypeOK'
        BY <1>3, ShutType DEF BrokerRefuse, BrokerDisconnect, BrokerSeesClose, KeepAliveExpires
    <1>4. ASSUME NEW c \in Conns, LoseLink(c) PROVE NetTypeOK'
        BY <1>4 DEF LoseLink, NetTypeOK
    <1>5. CASE BrokerCrash
        BY <1>5, WillsType, QueueEmpty DEF BrokerCrash, NetTypeOK
    <1>6. CASE BrokerStart
        BY <1>6 DEF BrokerStart, netVars, NetTypeOK
    <1> QED
        BY <1>1, <1>2, <1>3, <1>4, <1>5, <1>6 DEF BrokerNext, BrokerServe

-----------------------------------------------------------------------------
(* The client. *)

\* What is being written is a message.
Writing ==
    /\ attempt # 0 => IsMessage(msg)
    /\ pc = "write" => attempt # 0

LocalOK == NetTypeOK /\ ClientTypeOK /\ Writing

LEMMA ConnectType == ASSUME LocalOK, ConnectSteps PROVE LocalOK'
    <1>1. CASE DialOk
        BY <1>1, OwnPackets, QueueOne, MaxConnsAssumption
           DEF DialOk, LocalOK, NetTypeOK, ClientTypeOK, Writing, Conns
    <1>2. CASE DialFails
        BY <1>2 DEF DialFails, Return, brokerVars, netVars, LocalOK, NetTypeOK, ClientTypeOK, Writing
    <1>3. CASE DialWithoutPassword
        BY <1>3, OwnPackets, QueueOne, MaxConnsAssumption
           DEF DialWithoutPassword, Return, LocalOK, NetTypeOK, ClientTypeOK, Writing, Conns
    <1>4. CASE ConnackOk
        BY <1>4 DEF ConnackOk, Return, brokerVars, netVars, LocalOK, NetTypeOK, ClientTypeOK, Writing
    <1>5. CASE ConnackFails
        <2>1. DOMAIN queue' = Conns /\ \A d \in Conns : IsQueue(queue'[d])
            BY <1>5, OwnPackets, EnqueueType DEF ConnackFails, CloseConn, LocalOK, NetTypeOK
        <2> QED
            BY <1>5, <2>1
               DEF ConnackFails, CloseConn, Return, LocalOK, NetTypeOK, ClientTypeOK, Writing
    <1> QED
        BY <1>1, <1>2, <1>3, <1>4, <1>5 DEF ConnectSteps

LEMMA WriteType ==
    ASSUME LocalOK, WriteSteps \/ GoroutineSteps \/ StrayWrites PROVE LocalOK'
    <1>1. CASE WriteOk
        BY <1>1 DEF WriteOk, Return, brokerVars, netVars, LocalOK, NetTypeOK, ClientTypeOK, Writing
    <1>2. CASE WriteFails
        <2>1. pc = "write" /\ IsMessage(msg)
            BY <1>2 DEF WriteFails, LocalOK, Writing
        <2>2. CASE Retry
            <3>1. NetTypeOK'
                BY <1>2, <2>2 DEF WriteFails, Retry, LocalOK, NetTypeOK
            <3>2. stray' = None \/ IsMessage(stray')
                BY <1>2, <2>1 DEF WriteFails, LocalOK, ClientTypeOK
            <3>3. ClientTypeOK' /\ Writing'
                BY <1>2, <2>1, <2>2, <3>2 DEF WriteFails, Retry, LocalOK, ClientTypeOK, Writing
            <3> QED
                BY <3>1, <3>3 DEF LocalOK
        <2>3. CASE GiveUp
            BY <1>2, <2>1, <2>3
               DEF WriteFails, GiveUp, Return, LocalOK, NetTypeOK, ClientTypeOK, Writing
        <2> QED
            BY <1>2, <2>2, <2>3 DEF WriteFails
    <1>3. CASE WriterWrites
        <2>1. IsPacket(PublishPacket(msg))
            BY <1>3, OwnPackets DEF WriterWrites, LocalOK, Writing
        <2>2. DOMAIN queue' = Conns /\ \A d \in Conns : IsQueue(queue'[d])
            BY <1>3, <2>1, EnqueueType DEF WriterWrites, LocalOK, NetTypeOK
        <2> QED
            BY <1>3, <2>2 DEF WriterWrites, LocalOK, NetTypeOK, ClientTypeOK, Writing
    <1>4. CASE WriterGivesUp
        BY <1>4 DEF WriterGivesUp, brokerVars, netVars, LocalOK, NetTypeOK, ClientTypeOK, Writing
    <1>5. CASE StrayWrites
        <2>1. IsPacket(PublishPacket(stray))
            BY <1>5, OwnPackets DEF StrayWrites, LocalOK, ClientTypeOK
        <2>2. DOMAIN queue' = Conns /\ \A d \in Conns : IsQueue(queue'[d])
            BY <1>5, <2>1, EnqueueType DEF StrayWrites, LocalOK, NetTypeOK
        <2>3. NetTypeOK'
            BY <1>5, <2>2 DEF StrayWrites, LocalOK, NetTypeOK
        <2>4. panicked' \in BOOLEAN
            BY <1>5 DEF StrayWrites, LocalOK, ClientTypeOK
        <2>5. ClientTypeOK' /\ Writing'
            BY <1>5, <2>4 DEF StrayWrites, LocalOK, ClientTypeOK, Writing
        <2> QED
            BY <2>3, <2>5 DEF LocalOK
    <1> QED
        BY <1>1, <1>2, <1>3, <1>4, <1>5 DEF WriteSteps, GoroutineSteps

LEMMA PublishType ==
    ASSUME LocalOK, NEW m, IsMessage(m), Publish(m), ctxDone' \in BOOLEAN
    PROVE  LocalOK'
    BY DEF Publish, CallPublish, brokerVars, netVars, LocalOK, NetTypeOK, ClientTypeOK, Writing

-----------------------------------------------------------------------------
(* The process. *)

\* The goroutine of main is inside the client only where run calls it.
Calling == pc # "idle" => phase \in {"boot", "online", "discovery", "state", "offline"}

TypeInv == LocalOK /\ ProcessTypeOK

LEMMA TypeInit == Init => TypeInv
    <1> SUFFICES ASSUME Init PROVE TypeInv
        OBVIOUS
    <1>1. /\ DOMAIN retained = Topics
          /\ retained["status"] = "none" /\ retained["state"] = 0
        BY DEF Init, BrokerInit, Topics
    <1>2. NetTypeOK
        BY <1>1, QueueEmpty, MaxVersionAssumption DEF Init, BrokerInit, NetTypeOK
    <1>3. opened \in 0 .. MaxConns /\ attempt = 0 /\ pc = "idle"
        BY MaxConnsAssumption DEF Init, ClientInit
    <1>4. ClientTypeOK /\ Writing
        <2>1. ctxDone \in BOOLEAN /\ panicked \in BOOLEAN
            BY Zenon DEF Init, ClientInit
        <2>2. Writing
            BY <1>3 DEF Writing
        <2> QED
            BY <1>3, <2>1, <2>2 DEF Init, ClientInit, ClientTypeOK
    <1>5. Len(DiscoveryTopics) \in Nat
        BY DiscoveryTopicsAssumption, LenProperties
    <1>6. /\ runs \in 1 .. MaxRuns /\ version \in 0 .. MaxVersion
          /\ announced \in 0 .. Len(DiscoveryTopics) /\ first \in 1 .. MaxConns + 1
        BY <1>5, MaxRunsAssumption, MaxConnsAssumption, MaxVersionAssumption DEF Init
    <1>7. ProcessTypeOK
        BY <1>6 DEF Init, ProcessTypeOK, Phases
    <1> QED
        BY <1>2, <1>4, <1>7 DEF TypeInv, LocalOK

LEMMA LocalUnchanged == ASSUME LocalOK, UNCHANGED allVars PROVE LocalOK'
    BY DEF allVars, brokerVars, netVars, clientVars, LocalOK, NetTypeOK, ClientTypeOK, Writing

LEMMA ProcessUnchanged == ASSUME ProcessTypeOK, UNCHANGED processVars PROVE ProcessTypeOK'
    BY DEF processVars, ProcessTypeOK

LEMMA DieType ==
    ASSUME LocalOK, Die, lost' \subseteq Conns PROVE LocalOK'
    BY DEF Die, LocalOK, NetTypeOK, ClientTypeOK, Writing

LEMMA MainType == ASSUME TypeInv, MainStep PROVE TypeInv'
    <1> USE DEF TypeInv
    <1>1. CASE Start
        BY <1>1, MaxConnsAssumption
           DEF Start, brokerVars, netVars, LocalOK, NetTypeOK, ClientTypeOK, Writing, ProcessTypeOK,
               Phases
    <1>2. CASE Connected \/ ConnectFailed \/ DiscoveryDone \/ LoopTop \/ ReceiveNothing
                \/ StatePublished
        BY <1>2, LocalUnchanged
           DEF Connected, ConnectFailed, DiscoveryDone, LoopTop, ReceiveNothing, StatePublished,
               ProcessTypeOK, Phases
    <1>3. CASE \E e \in {"ok", "error"} : Leave(e)
        BY <1>3, LocalUnchanged DEF Leave, ProcessTypeOK, Phases
    <1>4. CASE PublishOnline
        <2>1. LocalOK'
            BY <1>4, OwnMessages, PublishType DEF PublishOnline, LocalOK, ClientTypeOK
        <2> QED
            BY <1>4, <2>1 DEF PublishOnline, ProcessTypeOK, Phases
    <1>5. CASE PublishDiscovery
        <2>1. announced + 1 \in 1 .. Len(DiscoveryTopics)
            BY <1>5, DiscoveryTopicsAssumption, LenProperties DEF PublishDiscovery, ProcessTypeOK
        <2>2. LocalOK'
            BY <1>5, <2>1, OwnMessages, PublishType DEF PublishDiscovery, LocalOK, ClientTypeOK
        <2> QED
            BY <1>5, <2>1, <2>2 DEF PublishDiscovery, ProcessTypeOK, Phases
    <1>6. CASE PublishOffline
        <2>1. LocalOK'
            BY <1>6, OwnMessages, PublishType DEF PublishOffline
        <2> QED
            BY <1>6, <2>1 DEF PublishOffline, ProcessTypeOK, Phases
    <1>7. CASE CloseClient
        <2>1. DOMAIN queue' = Conns /\ \A d \in Conns : IsQueue(queue'[d])
            BY <1>7, OwnPackets, EnqueueType DEF CloseClient, CloseConn, LocalOK, NetTypeOK
        <2>2. LocalOK'
            BY <1>7, <2>1 DEF CloseClient, CloseConn, LocalOK, NetTypeOK, ClientTypeOK, Writing
        <2> QED
            BY <1>7, <2>2 DEF CloseClient, ProcessTypeOK, Phases
    <1>8. CASE Exit
        <2>1. LocalOK'
            BY <1>8, DieType DEF Exit, LocalOK, NetTypeOK
        <2> QED
            BY <1>8, <2>1 DEF Exit, Die, ProcessTypeOK, Phases
    <1> QED
        BY <1>1, <1>2, <1>3, <1>4, <1>5, <1>6, <1>7, <1>8
           DEF MainStep, SetupFails, PublishFailed, ReceiveFails, EndOfFile, OfflineDone

LEMMA ReceiveType == ASSUME TypeInv, Receive PROVE TypeInv'
    <1>1. version + 1 \in 1 .. MaxVersion
        BY MaxVersionAssumption DEF Receive, TypeInv, ProcessTypeOK
    <1>2. LocalOK'
        BY <1>1, OwnMessages, PublishType DEF Receive, TypeInv, LocalOK, ClientTypeOK
    <1> QED
        BY <1>1, <1>2 DEF Receive, TypeInv, ProcessTypeOK, Phases

LEMMA CallingStep == Calling /\ [Next]_vars => Calling'
    <1> SUFFICES ASSUME Calling, [Next]_vars PROVE Calling'
        OBVIOUS
    <1>1. CASE Start \/ Connected \/ ConnectFailed \/ SetupFails \/ DiscoveryDone \/ PublishFailed
                \/ LoopTop \/ ReceiveNothing \/ ReceiveFails \/ EndOfFile \/ StatePublished
                \/ OfflineDone \/ CloseClient
        BY <1>1
           DEF Start, Connected, ConnectFailed, SetupFails, DiscoveryDone, PublishFailed, LoopTop,
               ReceiveNothing, ReceiveFails, EndOfFile, StatePublished, OfflineDone, CloseClient,
               Leave, Returned, allVars, clientVars, Calling
    <1>2. CASE PublishOnline \/ PublishDiscovery \/ PublishOffline \/ Receive
        BY <1>2 DEF PublishOnline, PublishDiscovery, PublishOffline, Receive, Calling
    <1>3. CASE Exit \/ Panic \/ Kill
        BY <1>3 DEF Exit, Panic, Kill, Die, Calling
    <1>4. CASE ClientStep
        <2>1. pc # "idle" /\ phase' = phase
            BY <1>4
               DEF ClientStep, ConnectSteps, DialOk, DialFails, DialWithoutPassword, ConnackOk,
                   ConnackFails, WriteSteps, WriteOk, WriteFails, processVars
        <2> QED
            BY <2>1 DEF Calling
    <1>5. CASE Goroutine \/ Stray \/ Broker
        BY <1>5
           DEF Goroutine, GoroutineSteps, WriterWrites, WriterGivesUp, Stray, StrayWrites,
               Broker, clientVars, processVars, Calling
    <1>6. CASE Sigterm \/ OfflineTimeout \/ Restart \/ UNCHANGED vars
        BY <1>6
           DEF Sigterm, OfflineTimeout, Restart, vars, allVars, clientVars, processVars, Calling
    <1> QED
        BY <1>1, <1>2, <1>3, <1>4, <1>5, <1>6 DEF Next, Main, MainStep

LEMMA TypeStep == TypeInv /\ Calling /\ [Next]_vars => TypeInv'
    <1> SUFFICES ASSUME TypeInv, Calling, [Next]_vars PROVE TypeInv'
        OBVIOUS
    <1> USE DEF TypeInv
    <1>1. CASE Main
        BY <1>1, MainType, ConnectType, WriteType, ProcessUnchanged DEF Main, ClientStep
    <1>2. CASE Goroutine \/ Stray
        BY <1>2, WriteType, ProcessUnchanged DEF Goroutine, Stray
    <1>3. CASE Broker
        <2>1. NetTypeOK' /\ UNCHANGED clientVars
            BY <1>3, BrokerType DEF Broker, LocalOK
        <2>2. LocalOK'
            BY <2>1 DEF clientVars, LocalOK, ClientTypeOK, Writing
        <2> QED
            BY <1>3, <2>2, ProcessUnchanged DEF Broker
    <1>4. CASE Panic \/ Kill
        <2>1. LocalOK'
            BY <1>4, DieType DEF Panic, Kill, LocalOK, NetTypeOK
        <2> QED
            BY <1>4, <2>1 DEF Panic, Kill, Die, ProcessTypeOK, Phases
    <1>5. CASE Sigterm
        <2>1. LocalOK'
            BY <1>5 DEF Sigterm, brokerVars, netVars, LocalOK, NetTypeOK, ClientTypeOK, Writing
        <2> QED
            BY <1>5, <2>1 DEF Sigterm, ProcessTypeOK
    <1>6. CASE OfflineTimeout
        <2>1. LocalOK'
            BY <1>6 DEF OfflineTimeout, brokerVars, netVars, LocalOK, NetTypeOK, ClientTypeOK, Writing
        <2> QED
            BY <1>6, <2>1, ProcessUnchanged DEF OfflineTimeout
    <1>7. CASE Restart
        <2>1. LocalOK'
            <3>1. NetTypeOK'
                BY <1>7 DEF Restart, brokerVars, netVars, LocalOK, NetTypeOK
            <3>2. attempt' = 0 /\ pc' = "idle" /\ ctxDone' \in BOOLEAN
                BY <1>7 DEF Restart, Calling
            <3>3. ClientTypeOK'
                BY <1>7, <3>2 DEF Restart, LocalOK, ClientTypeOK
            <3> QED
                BY <3>1, <3>2, <3>3 DEF LocalOK, Writing
        <2> QED
            BY <1>7, <2>1, DiscoveryTopicsAssumption, LenProperties, MaxRunsAssumption
               DEF Restart, ProcessTypeOK, Phases
    <1>8. CASE UNCHANGED vars
        BY <1>8, LocalUnchanged, ProcessUnchanged DEF vars
    <1> QED
        BY <1>1, <1>2, <1>3, <1>4, <1>5, <1>6, <1>7, <1>8, ReceiveType DEF Next

\* Everything the process, its client, the network and the broker hold has its
\* type: what is on its way is a packet the client can have sent, what is
\* retained is a message of its topic.
THEOREM BridgeTypeCorrect == Spec => []TypeOK
    <1>1. TypeInv => TypeOK
        BY DEF TypeInv, LocalOK, TypeOK
    <1>2. Init => Calling
        BY DEF Init, ClientInit, Calling
    <1> QED
        BY <1>1, <1>2, TypeInit, TypeStep, CallingStep, PTL DEF Spec

-----------------------------------------------------------------------------
(* Abandoned goroutines, and what the client has in hand. *)

\* The caller of an abandoned goroutine has its error, or is about to have it.
Abandoned ==
    stray # None =>
        /\ phase \in {"boot", "online", "discovery", "state", "offline", "close", "exiting"}
        /\ \/ pc = "idle" /\ result = "error"
           \/ pc = "dial" /\ ctxDone

LEMMA AbandonedStep == Abandoned /\ Calling /\ [Next]_vars => Abandoned'
    <1> SUFFICES ASSUME Abandoned, Calling, [Next]_vars PROVE Abandoned'
        OBVIOUS
    <1>1. CASE Start \/ Connected \/ ConnectFailed \/ SetupFails \/ DiscoveryDone \/ PublishFailed
                \/ LoopTop \/ ReceiveNothing \/ ReceiveFails \/ EndOfFile \/ StatePublished
                \/ OfflineDone \/ CloseClient
        BY <1>1
           DEF Start, Connected, ConnectFailed, SetupFails, DiscoveryDone, PublishFailed, LoopTop,
               ReceiveNothing, ReceiveFails, EndOfFile, StatePublished, OfflineDone, CloseClient,
               Leave, Returned, allVars, clientVars, Abandoned
    <1>2. CASE PublishOnline \/ PublishDiscovery \/ PublishOffline \/ Receive
        BY <1>2
           DEF PublishOnline, PublishDiscovery, PublishOffline, Receive, Publish, Returned, Abandoned
    <1>3. CASE Exit \/ Panic \/ Kill
        BY <1>3 DEF Exit, Panic, Kill, Die, Abandoned
    <1>4. CASE ConnectSteps /\ UNCHANGED processVars
        BY <1>4
           DEF ConnectSteps, DialOk, DialFails, DialWithoutPassword, ConnackOk,
               ConnackFails, Return, processVars, Abandoned
    <1>5. CASE WriteOk /\ UNCHANGED processVars
        BY <1>5 DEF WriteOk, processVars, Abandoned
    <1>6. CASE WriteFails /\ UNCHANGED processVars
        <2>1. phase' \in {"boot", "online", "discovery", "state", "offline"}
            BY <1>6 DEF WriteFails, processVars, Calling
        <2>2. stray' # None => ctxDone'
            BY <1>6 DEF WriteFails, Abandoned
        <2>3. pc' = "dial" \/ (pc' = "idle" /\ result' = "error")
            BY <1>6 DEF WriteFails, Retry, GiveUp, Return
        <2> QED
            BY <2>1, <2>2, <2>3 DEF Abandoned
    <1>7. CASE Goroutine \/ Stray \/ Broker
        BY <1>7
           DEF Goroutine, GoroutineSteps, WriterWrites, WriterGivesUp, Stray, StrayWrites,
               Broker, clientVars, processVars, Abandoned
    <1>8. CASE Sigterm \/ OfflineTimeout \/ Restart \/ UNCHANGED vars
        BY <1>8
           DEF Sigterm, OfflineTimeout, Restart, vars, allVars, clientVars, processVars, Abandoned
    <1> QED
        BY <1>1, <1>2, <1>3, <1>4, <1>5, <1>6, <1>7, <1>8
           DEF Next, Main, MainStep, ClientStep, WriteSteps

\* A state message is the last one captured.
Newest(m) == m.topic = "state" => m.payload = version

\* So is what a call or an abandoned goroutine has in hand.
InHand ==
    /\ attempt # 0 => Newest(msg)
    /\ stray # None => Newest(stray)

LEMMA InHandKept ==
    ASSUME InHand, UNCHANGED <<version, attempt, msg>>, stray' = stray \/ stray' = None
    PROVE  InHand'
    BY DEF InHand, Newest

LEMMA InHandStep == InHand /\ Abandoned /\ ProcessTypeOK /\ [Next]_vars => InHand'
    <1> SUFFICES ASSUME InHand, Abandoned, ProcessTypeOK, [Next]_vars PROVE InHand'
        OBVIOUS
    <1>1. CASE Start \/ Restart
        BY <1>1 DEF Start, Restart, InHand, Newest
    <1>2. CASE Connected \/ ConnectFailed \/ SetupFails \/ DiscoveryDone \/ PublishFailed
                \/ LoopTop \/ ReceiveNothing \/ ReceiveFails \/ EndOfFile \/ StatePublished
                \/ OfflineDone \/ CloseClient
        BY <1>2, InHandKept
           DEF Connected, ConnectFailed, SetupFails, DiscoveryDone, PublishFailed, LoopTop,
               ReceiveNothing, ReceiveFails, EndOfFile, StatePublished, OfflineDone, CloseClient,
               Leave, allVars, clientVars
    <1>3. CASE PublishOnline \/ PublishOffline
        <2>1. Newest(msg)'
            BY <1>3 DEF PublishOnline, PublishOffline, Publish, CallPublish, Status, Newest
        <2> QED
            BY <1>3, <2>1 DEF PublishOnline, PublishOffline, Publish, InHand, Newest
    <1>4. CASE PublishDiscovery
        <2>1. announced + 1 \in DOMAIN DiscoveryTopics
            BY <1>4, DiscoveryTopicsAssumption, LenProperties DEF PublishDiscovery, ProcessTypeOK
        <2>2. Newest(msg)'
            BY <1>4, <2>1, DiscoveryTopicsAssumption
               DEF PublishDiscovery, Publish, CallPublish, DiscoveryMsg, Newest
        <2> QED
            BY <1>4, <2>2 DEF PublishDiscovery, Publish, InHand, Newest
    <1>5. CASE Receive
        BY <1>5 DEF Receive, Publish, CallPublish, State, Abandoned, InHand, Newest
    <1>6. CASE Exit \/ Panic \/ Kill
        BY <1>6, InHandKept DEF Exit, Panic, Kill, Die
    <1>7. CASE (ConnectSteps \/ WriteOk) /\ UNCHANGED processVars
        BY <1>7, InHandKept
           DEF ConnectSteps, DialOk, DialFails, DialWithoutPassword, ConnackOk, ConnackFails,
               WriteOk, processVars
    <1>8. CASE WriteFails /\ UNCHANGED processVars
        BY <1>8 DEF WriteFails, Retry, GiveUp, processVars, InHand, Newest
    <1>9. CASE Goroutine \/ Stray \/ Broker
        BY <1>9, InHandKept
           DEF Goroutine, GoroutineSteps, WriterWrites, WriterGivesUp, Stray, StrayWrites,
               Broker, clientVars, processVars
    <1>10. CASE Sigterm \/ OfflineTimeout \/ UNCHANGED vars
        BY <1>10, InHandKept
           DEF Sigterm, OfflineTimeout, vars, allVars, clientVars, processVars
    <1> QED
        BY <1>1, <1>2, <1>3, <1>4, <1>5, <1>6, <1>7, <1>8, <1>9, <1>10
           DEF Next, Main, MainStep, ClientStep, WriteSteps

-----------------------------------------------------------------------------
(* Sessions. *)

\* The variables a step of the client or of the process touches, when it is one
\* that opens, writes to, or closes a connection, or none of these.
LEMMA NetSteps ==
    ASSUME [Next]_vars
    PROVE  \/ /\ \/ DialOk \/ DialWithoutPassword \/ ConnackFails \/ WriterWrites
                 \/ StrayWrites \/ CloseClient \/ Broker
              /\ UNCHANGED version
           \/ /\ UNCHANGED <<server, ident, queue, ack, retained, opened>>
              /\ version' \in {version, version + 1}
    <1>1. CASE MainStep
        BY <1>1
           DEF MainStep, Start, Connected, ConnectFailed, SetupFails, PublishOnline,
               PublishDiscovery, DiscoveryDone, PublishFailed, LoopTop, ReceiveNothing,
               ReceiveFails, EndOfFile, StatePublished, PublishOffline, OfflineDone,
               CloseClient, Exit, Leave, Publish, Die, allVars, brokerVars, netVars, clientVars, processVars
    <1>2. CASE Receive \/ Panic \/ Kill \/ Sigterm \/ OfflineTimeout \/ Restart \/ UNCHANGED vars
        BY <1>2
           DEF Receive, Publish, Panic, Kill, Die, Sigterm, OfflineTimeout, Restart, vars, allVars,
               brokerVars, netVars, clientVars, processVars
    <1>3. CASE (ConnectSteps \/ WriteSteps \/ GoroutineSteps \/ StrayWrites \/ Broker)
                /\ UNCHANGED processVars
        BY <1>3
           DEF ConnectSteps, DialFails, ConnackOk, WriteSteps, WriteOk, WriteFails, Retry, GiveUp,
               GoroutineSteps, WriterGivesUp, brokerVars, netVars, processVars
    <1> QED
        BY <1>1, <1>2, <1>3 DEF Next, Main, ClientStep, Goroutine, Stray, Broker

\* There is one session at a time: every connection carries the same client
\* identifier, and CONNECT takes over.  A connection not opened yet is unused.
Sessions ==
    /\ \A c, d \in Conns : server[c] = "session" /\ server[d] = "session" => c = d
    /\ \A c \in Conns : server[c] = "session" => ident[c] = "device"
    /\ \A c \in Conns : c > opened => server[c] = "none" /\ ack[c] = "none"
    /\ \A c \in Conns : ack[c] = "accepted" => server[c] # "open"

LEMMA SessionsBroker == ASSUME Sessions, NetTypeOK, BrokerNext, opened' = opened PROVE Sessions'
    <1>1. ASSUME NEW c \in Conns, BrokerConnect(c) PROVE Sessions'
        <2>1. queue[c] # <<>> /\ Head(queue[c]).type = "connect" /\ IsQueue(queue[c])
            BY <1>1 DEF BrokerConnect, Arrived, NetTypeOK
        <2>2. Head(queue[c]).id = "device"
            BY <2>1, QueueHeadTail DEF IsPacket, Identifiers, ClientID
        <2>3. /\ server' \in [Conns -> {"none", "open", "session", "closed"}]
              /\ server'[c] = "session"
              /\ \A d \in Conns : d # c => /\ server'[d] # "session"
                                           /\ server'[d] = server[d] \/ server'[d] = "closed"
            BY <1>1, <2>2 DEF BrokerConnect, Sessions, NetTypeOK
        <2>4. /\ ident'[c] = "device" /\ ack'[c] = "accepted"
              /\ \A d \in Conns : d # c => ack'[d] = ack[d]
            BY <1>1, <2>2 DEF BrokerConnect, NetTypeOK
        <2>5. ~(c > opened)
            BY <1>1 DEF BrokerConnect, Sessions
        <2>6. \A d \in Conns : d > opened => server[d] = "none" /\ server'[d] = "none"
            BY <1>1, <2>5 DEF BrokerConnect, Sessions
        <2> QED
            BY <1>1, <2>3, <2>4, <2>5, <2>6 DEF Sessions
    <1>2. ASSUME NEW c \in Conns, Shut(c), server[c] \in {"open", "session"} PROVE Sessions'
        BY <1>2 DEF Shut, Sessions, NetTypeOK
    <1>3. ASSUME NEW c \in Conns, BrokerPublish(c) \/ LoseLink(c) PROVE Sessions'
        BY <1>3 DEF BrokerPublish, LoseLink, Sessions
    <1>4. CASE BrokerCrash
        BY <1>4 DEF BrokerCrash, Sessions
    <1>5. CASE BrokerStart
        BY <1>5 DEF BrokerStart, netVars, Sessions
    <1> QED
        BY <1>1, <1>2, <1>3, <1>4, <1>5
           DEF BrokerNext, BrokerServe, BrokerRefuse, BrokerDisconnect, BrokerSeesClose,
               KeepAliveExpires

LEMMA SessionsStep == Sessions /\ TypeInv /\ [Next]_vars => Sessions'
    <1> SUFFICES ASSUME Sessions, NetTypeOK, opened \in Nat, [Next]_vars PROVE Sessions'
        BY MaxConnsAssumption DEF TypeInv, LocalOK, ClientTypeOK
    <1>1. CASE DialOk \/ DialWithoutPassword
        <2>1. /\ opened + 1 \in Conns /\ opened' = opened + 1
              /\ server' = [server EXCEPT ![opened + 1] = "open"]
              /\ UNCHANGED <<ident, ack>>
            BY <1>1, MaxConnsAssumption DEF DialOk, DialWithoutPassword, Conns
        <2>2. \A c \in Conns : server'[c] = IF c = opened + 1 THEN "open" ELSE server[c]
            BY <2>1 DEF NetTypeOK
        <2>3. \A c \in Conns : c > opened + 1 => c > opened /\ c # opened + 1
            BY DEF Conns
        <2>4. ack[opened + 1] = "none"
            BY <2>1 DEF Sessions
        <2> QED
            BY <2>1, <2>2, <2>3, <2>4 DEF Sessions
    <1>2. CASE ConnackFails \/ WriterWrites \/ StrayWrites \/ CloseClient
        BY <1>2 DEF ConnackFails, WriterWrites, StrayWrites, CloseClient, Sessions
    <1>3. CASE Broker
        BY <1>3, SessionsBroker DEF Broker, clientVars
    <1>4. CASE UNCHANGED <<server, ident, queue, ack, retained, opened>>
        BY <1>4 DEF Sessions
    <1> QED
        BY <1>1, <1>2, <1>3, <1>4, NetSteps

\* The client writes only after CONNACK.
Established ==
    /\ conn \in Conns /\ conn # None => pc = "connack" \/ ack[conn] = "accepted"
    /\ conn \in Conns /\ pc = "write" => ack[conn] = "accepted"

LEMMA EstablishedStep == Established /\ Calling /\ NetTypeOK /\ [Next]_vars => Established'
    <1> SUFFICES ASSUME Established, Calling, NetTypeOK, [Next]_vars PROVE Established'
        OBVIOUS
    <1>1. CASE Start \/ Connected \/ ConnectFailed \/ SetupFails \/ DiscoveryDone \/ PublishFailed
                \/ LoopTop \/ ReceiveNothing \/ ReceiveFails \/ EndOfFile \/ StatePublished
                \/ OfflineDone \/ CloseClient
        BY <1>1
           DEF Start, Connected, ConnectFailed, SetupFails, DiscoveryDone, PublishFailed, LoopTop,
               ReceiveNothing, ReceiveFails, EndOfFile, StatePublished, OfflineDone, CloseClient,
               CloseConn, Leave, allVars, brokerVars, netVars, clientVars, Calling, Established
    <1>2. CASE PublishOnline \/ PublishDiscovery \/ PublishOffline \/ Receive
        BY <1>2
           DEF PublishOnline, PublishDiscovery, PublishOffline, Receive, Publish, CallPublish,
               brokerVars, netVars, Established
    <1>3. CASE Exit \/ Panic \/ Kill
        BY <1>3 DEF Exit, Panic, Kill, Die, Established
    <1>4. CASE ConnectSteps
        BY <1>4
           DEF ConnectSteps, DialOk, DialFails, DialWithoutPassword, ConnackOk, ConnackFails,
               CloseConn, Return, brokerVars, netVars, Established
    <1>5. CASE WriteSteps \/ GoroutineSteps \/ StrayWrites
        BY <1>5
           DEF WriteSteps, WriteOk, WriteFails, Retry, GiveUp, Return, GoroutineSteps,
               WriterWrites, WriterGivesUp, StrayWrites, brokerVars, netVars, Established
    <1>6. CASE Broker
        <2>1. UNCHANGED <<conn, pc>>
            BY <1>6 DEF Broker, clientVars
        <2>2. \A c \in Conns : ack[c] = "accepted" => ack'[c] = "accepted"
            BY <1>6
               DEF Broker, BrokerNext, BrokerServe, BrokerConnect, BrokerRefuse, BrokerPublish,
                   BrokerDisconnect, BrokerSeesClose, KeepAliveExpires, LoseLink, BrokerCrash,
                   BrokerStart, Shut, netVars, NetTypeOK
        <2> QED
            BY <2>1, <2>2 DEF Established
    <1>7. CASE Sigterm \/ OfflineTimeout \/ Restart \/ UNCHANGED vars
        BY <1>7
           DEF Sigterm, OfflineTimeout, Restart, vars, allVars, brokerVars, netVars, clientVars,
               Calling, Established
    <1> QED
        BY <1>1, <1>2, <1>3, <1>4, <1>5, <1>6, <1>7
           DEF Next, Main, MainStep, ClientStep, Goroutine, Stray

-----------------------------------------------------------------------------
(* The order of state messages. *)

CarriesState(p) == p.type = "publish" /\ p.msg.topic = "state"

Quiet(q) == \A i \in 1 .. Len(q) : ~CarriesState(q[i])

\* The states on their way are between lo and hi, the older ones first.
InOrder(q, lo, hi) ==
    /\ \A i \in 1 .. Len(q) :
          CarriesState(q[i]) => lo <= q[i].msg.payload /\ q[i].msg.payload <= hi
    /\ \A i, j \in 1 .. Len(q) :
          i < j /\ CarriesState(q[i]) /\ CarriesState(q[j])
              => q[i].msg.payload <= q[j].msg.payload

LEMMA QuietInOrder == ASSUME NEW q, NEW lo, NEW hi, Quiet(q) PROVE InOrder(q, lo, hi)
    BY DEF Quiet, InOrder

LEMMA EmptyQuiet == Quiet(<<>>)
    <1>1. Len(<<>>) = 0
        OBVIOUS
    <1> QED
        BY <1>1 DEF Quiet

LEMMA OneQuiet == ASSUME NEW p, ~CarriesState(p) PROVE Quiet(<<p>>)
    <1>1. Len(<<p>>) = 1 /\ <<p>>[1] = p
        OBVIOUS
    <1> QED
        BY <1>1 DEF Quiet

LEMMA OwnQuiet ==
    /\ ~CarriesState(DisconnectPacket)
    /\ \A c \in Conns : ~CarriesState(ConnectPacket(ClientID(c)))
    /\ \A m : CarriesState(PublishPacket(m)) => m.topic = "state" /\ PublishPacket(m).msg = m
    BY DEF CarriesState, DisconnectPacket, ConnectPacket, PublishPacket

\* The payload of a state is a number.
LEMMA StatePayload == ASSUME NEW p, IsPacket(p), CarriesState(p) PROVE p.msg.payload \in Nat
    <1>1. IsMessage(p.msg) /\ p.msg.topic = "state"
        BY DEF IsPacket, CarriesState
    <1> QED
        BY <1>1, DiscoveryTopicsAssumption, MaxVersionAssumption DEF IsMessage

LEMMA AppendInOrder ==
    ASSUME NEW q, IsQueue(q), NEW p, NEW lo \in Nat, NEW hi \in Nat,
           InOrder(q, lo, hi), CarriesState(p) => p.msg.payload = hi, lo <= hi
    PROVE  InOrder(Append(q, p), lo, hi)
    <1> DEFINE a == Append(q, p)
    <1>1. /\ Len(q) \in Nat /\ Len(a) = Len(q) + 1
          /\ \A i \in 1 .. Len(q) : a[i] = q[i]
          /\ a[Len(q) + 1] = p
        BY AppendIndices
    <1> HIDE DEF a
    <1>2. ASSUME NEW i \in 1 .. Len(a), CarriesState(a[i])
          PROVE  lo <= a[i].msg.payload /\ a[i].msg.payload <= hi
        <2>1. i \in 1 .. Len(q) \/ i = Len(q) + 1
            BY <1>1
        <2> QED
            BY <1>1, <1>2, <2>1 DEF InOrder
    <1>3. ASSUME NEW i \in 1 .. Len(a), NEW j \in 1 .. Len(a), i < j,
                 CarriesState(a[i]), CarriesState(a[j])
          PROVE  a[i].msg.payload <= a[j].msg.payload
        <2>1. CASE j \in 1 .. Len(q)
            <3>1. i \in 1 .. Len(q)
                BY <1>1, <1>3, <2>1
            <3> QED
                BY <1>1, <1>3, <2>1, <3>1 DEF InOrder
        <2>2. CASE j = Len(q) + 1
            BY <1>1, <1>2, <1>3, <2>2
        <2> QED
            BY <1>1, <2>1, <2>2
    <1> QED
        BY <1>2, <1>3 DEF InOrder, a

LEMMA AppendQuiet ==
    ASSUME NEW q, IsQueue(q), NEW p, Quiet(q), ~CarriesState(p)
    PROVE  Quiet(Append(q, p))
    <1> DEFINE a == Append(q, p)
    <1>1. /\ Len(q) \in Nat /\ Len(a) = Len(q) + 1
          /\ \A i \in 1 .. Len(q) : a[i] = q[i]
          /\ a[Len(q) + 1] = p
        BY AppendIndices
    <1> HIDE DEF a
    <1>2. \A i \in 1 .. Len(a) : i \in 1 .. Len(q) \/ i = Len(q) + 1
        BY <1>1
    <1>3. Quiet(a)
        BY <1>1, <1>2 DEF Quiet
    <1> QED
        BY <1>3 DEF a

\* When the head is served, the rest is not older than it.
LEMMA TailInOrder ==
    ASSUME NEW q, IsQueue(q), q # <<>>, NEW lo, NEW hi, InOrder(q, lo, hi)
    PROVE  InOrder(Tail(q), IF CarriesState(Head(q)) THEN Head(q).msg.payload ELSE lo, hi)
    <1> DEFINE a == Tail(q)
    <1>1. /\ Len(q) \in Nat /\ Len(q) > 0 /\ Head(q) = q[1] /\ Len(a) = Len(q) - 1
          /\ \A i \in 1 .. Len(a) : a[i] = q[i + 1]
        BY TailIndices
    <1> HIDE DEF a
    <1>2. \A i \in 1 .. Len(a) : i + 1 \in 1 .. Len(q) /\ 1 < i + 1
        BY <1>1
    <1>3. 1 \in 1 .. Len(q) /\ \A i, j \in 1 .. Len(a) : i < j => i + 1 < j + 1
        BY <1>1
    <1>4. \A i \in 1 .. Len(a) : CarriesState(a[i]) =>
              /\ lo <= a[i].msg.payload /\ a[i].msg.payload <= hi
              /\ CarriesState(q[1]) => q[1].msg.payload <= a[i].msg.payload
        BY <1>1, <1>2, <1>3 DEF InOrder
    <1>5. \A i, j \in 1 .. Len(a) : i < j /\ CarriesState(a[i]) /\ CarriesState(a[j])
                                       => a[i].msg.payload <= a[j].msg.payload
        BY <1>1, <1>2, <1>3 DEF InOrder
    <1> QED
        BY <1>1, <1>4, <1>5 DEF InOrder, a

LEMMA TailQuiet == ASSUME NEW q, IsQueue(q), q # <<>>, Quiet(q) PROVE Quiet(Tail(q))
    <1> DEFINE a == Tail(q)
    <1>1. /\ Len(q) \in Nat /\ Len(a) = Len(q) - 1
          /\ \A i \in 1 .. Len(a) : a[i] = q[i + 1]
        BY TailIndices
    <1> HIDE DEF a
    <1>2. \A i \in 1 .. Len(a) : i + 1 \in 1 .. Len(q)
        BY <1>1
    <1>3. Quiet(a)
        BY <1>1, <1>2 DEF Quiet
    <1> QED
        BY <1>3 DEF a

\* What the broker shows is not newer than what is on its way, which only a
\* session carries, in order, and nothing is newer than what was captured.
Deliveries ==
    /\ retained["state"] <= version
    /\ \A c \in Conns : InOrder(queue[c], retained["state"], version)
    /\ \A c \in Conns : server[c] # "session" => Quiet(queue[c])

LEMMA DeliveriesEnqueue ==
    ASSUME Deliveries, TypeInv, NEW c, NEW p,
           CarriesState(p) => p.msg.payload = version /\ (c \in Conns => server[c] # "open"),
           queue' = Enqueue(c, p), UNCHANGED <<server, retained, version>>
    PROVE  Deliveries'
    <1>1. /\ DOMAIN queue = Conns /\ \A d \in Conns : IsQueue(queue[d])
          /\ retained["state"] \in Nat /\ version \in Nat
        BY MaxVersionAssumption DEF TypeInv, LocalOK, NetTypeOK, ProcessTypeOK
    <1>2. \A d \in Conns : \/ queue'[d] = queue[d]
                           \/ /\ d = c /\ server[c] \in {"open", "session"}
                              /\ queue'[d] = Append(queue[d], p)
        BY <1>1 DEF Enqueue, Deliverable
    <1>3. \A d \in Conns : InOrder(queue'[d], retained["state"], version)
        <2> TAKE d \in Conns
        <2>1. InOrder(queue[d], retained["state"], version) /\ retained["state"] <= version
            BY DEF Deliveries
        <2>2. CASE queue'[d] = queue[d]
            BY <2>1, <2>2
        <2>3. CASE d = c /\ server[c] \in {"open", "session"} /\ queue'[d] = Append(queue[d], p)
            <3>1. CarriesState(p) => p.msg.payload = version
                OBVIOUS
            <3> QED
                BY <1>1, <2>1, <2>3, <3>1, AppendInOrder
        <2> QED
            BY <1>2, <2>2, <2>3
    <1>4. \A d \in Conns : server[d] # "session" => Quiet(queue'[d])
        BY <1>1, <1>2, AppendQuiet DEF Deliveries
    <1> QED
        BY <1>3, <1>4 DEF Deliveries

\* Queues that are dropped, and a will that fires, change no order.
LEMMA DeliveriesDrop ==
    ASSUME Deliveries, NetTypeOK, UNCHANGED version, retained'["state"] = retained["state"],
           \A c \in Conns : \/ queue'[c] = <<>>
                            \/ /\ queue'[c] = queue[c]
                               /\ server'[c] = server[c] \/ server[c] # "session"
    PROVE  Deliveries'
    <1>1. \A c \in Conns : InOrder(queue'[c], retained["state"], version)
        BY EmptyQuiet, QuietInOrder DEF Deliveries
    <1>2. \A c \in Conns : server'[c] # "session" => Quiet(queue'[c])
        BY EmptyQuiet DEF Deliveries
    <1> QED
        BY <1>1, <1>2 DEF Deliveries

LEMMA WillsKeepState ==
    ASSUME NetTypeOK, NEW S, FireWills(S) PROVE retained'["state"] = retained["state"]
    BY DEF FireWills, NetTypeOK, Topics

LEMMA DeliveriesShut ==
    ASSUME Deliveries, NetTypeOK, UNCHANGED version,
           NEW c \in Conns, Shut(c), UNCHANGED retained \/ FireWills(Will(c))
    PROVE  Deliveries'
    <1>1. retained'["state"] = retained["state"]
        BY WillsKeepState
    <1>2. \A d \in Conns : queue'[d] = <<>> \/ (queue'[d] = queue[d] /\ server'[d] = server[d])
        BY DEF Shut, NetTypeOK
    <1> QED
        BY <1>1, <1>2, DeliveriesDrop

\* A session is taken over by a connection on which nothing was published.
LEMMA DeliveriesConnect ==
    ASSUME Deliveries, NetTypeOK, UNCHANGED version, NEW c \in Conns, BrokerConnect(c)
    PROVE  Deliveries'
    <1>1. queue[c] # <<>> /\ IsQueue(queue[c]) /\ Quiet(queue[c])
        BY DEF BrokerConnect, Arrived, NetTypeOK, Deliveries
    <1>2. Quiet(queue'[c])
        BY <1>1, TailQuiet DEF BrokerConnect, NetTypeOK
    <1>3. retained'["state"] = retained["state"]
        BY WillsKeepState DEF BrokerConnect
    <1>4. \A d \in Conns : d # c =>
              queue'[d] = <<>> \/ (queue'[d] = queue[d] /\ server'[d] = server[d])
        BY DEF BrokerConnect, NetTypeOK
    <1>5. \A d \in Conns : InOrder(queue'[d], retained["state"], version)
        BY <1>2, <1>4, EmptyQuiet, QuietInOrder DEF Deliveries
    <1>6. \A d \in Conns : server'[d] # "session" => Quiet(queue'[d])
        BY <1>2, <1>4, EmptyQuiet DEF Deliveries
    <1> QED
        BY <1>3, <1>5, <1>6 DEF Deliveries

\* The broker serves the oldest packet of its only session.
LEMMA ServeOldest ==
    ASSUME Deliveries, Sessions, TypeInv, UNCHANGED version, NEW c \in Conns, BrokerPublish(c)
    PROVE  Deliveries' /\ retained'["state"] >= retained["state"]
    <1> DEFINE h == Head(queue[c])
               lo == IF CarriesState(h) THEN h.msg.payload ELSE retained["state"]
    <1>1. queue[c] # <<>> /\ IsQueue(queue[c]) /\ h.type = "publish" /\ server[c] = "session"
        BY DEF BrokerPublish, Arrived, TypeInv, LocalOK, NetTypeOK
    <1>2. IsPacket(h) /\ Len(queue[c]) > 0 /\ Len(queue[c]) \in Nat /\ h = queue[c][1]
        BY <1>1, QueueHeadTail, TailIndices
    <1>3. retained["state"] \in Nat /\ version \in Nat
        BY MaxVersionAssumption DEF TypeInv, LocalOK, NetTypeOK, ProcessTypeOK
    <1>4. retained'["state"] = lo
        BY <1>1 DEF BrokerPublish, CarriesState, TypeInv, LocalOK, NetTypeOK, Topics
    <1>5. 1 \in 1 .. Len(queue[c])
        BY <1>2
    <1>6. CarriesState(h) =>
              /\ h.msg.payload \in Nat
              /\ retained["state"] <= h.msg.payload /\ h.msg.payload <= version
        BY <1>2, <1>5, StatePayload DEF Deliveries, InOrder
    <1>7. lo \in Nat /\ retained["state"] <= lo /\ lo <= version
        BY <1>3, <1>6 DEF Deliveries
    <1>8. InOrder(queue'[c], lo, version)
        BY <1>1, TailInOrder DEF BrokerPublish, Deliveries, TypeInv, LocalOK, NetTypeOK
    <1>9. \A d \in Conns : d # c => queue'[d] = queue[d] /\ Quiet(queue[d])
        BY <1>1 DEF BrokerPublish, Sessions, Deliveries, TypeInv, LocalOK, NetTypeOK
    <1> HIDE DEF h, lo
    <1>10. \A d \in Conns : InOrder(queue'[d], lo, version)
        BY <1>8, <1>9, QuietInOrder
    <1>11. \A d \in Conns : server'[d] # "session" => Quiet(queue'[d])
        BY <1>1, <1>9 DEF BrokerPublish
    <1> QED
        BY <1>3, <1>4, <1>7, <1>10, <1>11 DEF Deliveries

LEMMA DeliveriesBroker ==
    ASSUME Deliveries, Sessions, TypeInv, BrokerNext, UNCHANGED version
    PROVE  Deliveries' /\ retained'["state"] >= retained["state"]
    <1>1. NetTypeOK /\ retained["state"] \in Nat
        BY MaxVersionAssumption DEF TypeInv, LocalOK, NetTypeOK
    <1>2. ASSUME NEW c \in Conns, BrokerConnect(c)
          PROVE  Deliveries' /\ retained'["state"] = retained["state"]
        BY <1>1, <1>2, DeliveriesConnect, WillsKeepState DEF BrokerConnect
    <1>3. ASSUME NEW c \in Conns, BrokerPublish(c)
          PROVE  Deliveries' /\ retained'["state"] >= retained["state"]
        BY <1>3, ServeOldest
    <1>4. ASSUME NEW c \in Conns,
                 BrokerRefuse(c) \/ BrokerDisconnect(c) \/ BrokerSeesClose(c) \/ KeepAliveExpires(c)
          PROVE  Deliveries' /\ retained'["state"] = retained["state"]
        BY <1>1, <1>4, DeliveriesShut, WillsKeepState
           DEF BrokerRefuse, BrokerDisconnect, BrokerSeesClose, KeepAliveExpires
    <1>5. ASSUME NEW c \in Conns, LoseLink(c)
          PROVE  Deliveries' /\ retained'["state"] = retained["state"]
        BY <1>1, <1>5, DeliveriesDrop DEF LoseLink
    <1>6. CASE BrokerCrash
        <2>1. retained'["state"] = retained["state"]
            BY <1>1, <1>6, WillsKeepState DEF BrokerCrash
        <2>2. \A c \in Conns : queue'[c] = <<>>
            BY <1>6 DEF BrokerCrash
        <2> QED
            BY <1>1, <2>1, <2>2, DeliveriesDrop
    <1>7. CASE BrokerStart
        BY <1>1, <1>7, DeliveriesDrop DEF BrokerStart, netVars
    <1> QED
        BY <1>1, <1>2, <1>3, <1>4, <1>5, <1>6, <1>7 DEF BrokerNext, BrokerServe

Ordering ==
    TypeInv /\ Calling /\ Abandoned /\ InHand /\ Sessions /\ Established /\ Deliveries

LEMMA DeliveriesClient ==
    ASSUME Ordering, UNCHANGED version,
           \/ DialOk \/ DialWithoutPassword \/ ConnackFails \/ WriterWrites \/ StrayWrites
           \/ CloseClient
    PROVE  Deliveries' /\ UNCHANGED retained
    <1>1. UNCHANGED retained
        BY DEF DialOk, DialWithoutPassword, ConnackFails, WriterWrites, StrayWrites, CloseClient
    <1>2. CASE DialOk \/ DialWithoutPassword
        <2>1. PICK p : /\ ~CarriesState(p) /\ opened + 1 \in Conns
                       /\ queue' = [queue EXCEPT ![opened + 1] = <<p>>]
                       /\ server' = [server EXCEPT ![opened + 1] = "open"]
            BY <1>2, OwnQuiet, MaxConnsAssumption
               DEF DialOk, DialWithoutPassword, Ordering, TypeInv, LocalOK, ClientTypeOK, Conns
        <2>2. Quiet(queue'[opened + 1])
            BY <2>1, OneQuiet DEF Ordering, TypeInv, LocalOK, NetTypeOK
        <2>3. \A c \in Conns : c # opened + 1 => queue'[c] = queue[c] /\ server'[c] = server[c]
            BY <2>1 DEF Ordering, TypeInv, LocalOK, NetTypeOK
        <2> QED
            BY <1>1, <2>2, <2>3, QuietInOrder DEF Ordering, Deliveries
    <1>3. CASE ConnackFails \/ CloseClient
        <2>1. CASE conn = None
            BY <1>1, <1>3, <2>1, DeliveriesDrop
               DEF ConnackFails, CloseClient, CloseConn, Ordering, TypeInv, LocalOK
        <2>2. CASE conn # None
            BY <1>1, <1>3, <2>2, OwnQuiet, DeliveriesEnqueue
               DEF ConnackFails, CloseClient, CloseConn, Ordering
        <2> QED
            BY <2>1, <2>2
    <1>4. CASE WriterWrites
        <2>1. CarriesState(PublishPacket(msg)) => PublishPacket(msg).msg.payload = version
            BY <1>4, OwnQuiet
               DEF WriterWrites, Ordering, InHand, Newest, TypeInv, LocalOK, Writing
        <2>2. conn \in Conns => server[conn] # "open"
            BY <1>4 DEF WriterWrites, Ordering, Established, Sessions
        <2> QED
            BY <1>1, <1>4, <2>1, <2>2, DeliveriesEnqueue DEF WriterWrites, Ordering
    <1>5. CASE StrayWrites
        <2>1. CarriesState(PublishPacket(stray)) => PublishPacket(stray).msg.payload = version
            BY <1>5, OwnQuiet DEF StrayWrites, Ordering, InHand, Newest
        <2>2. CASE conn = None
            BY <1>1, <1>5, <2>2, DeliveriesDrop DEF StrayWrites, Ordering, TypeInv, LocalOK
        <2>3. CASE conn # None
            <3>1. conn \in Conns => server[conn] # "open"
                BY <1>5, <2>3 DEF StrayWrites, Ordering, Abandoned, Established, Sessions
            <3> QED
                BY <1>1, <1>5, <2>1, <2>3, <3>1, DeliveriesEnqueue DEF StrayWrites, Ordering
        <2> QED
            BY <2>2, <2>3
    <1> QED
        BY <1>1, <1>2, <1>3, <1>4, <1>5

LEMMA OrderingInit == Init => Ordering
    <1> SUFFICES ASSUME Init PROVE Ordering
        OBVIOUS
    <1>1. TypeInv
        BY TypeInit
    <1>2. Calling /\ Abandoned /\ InHand /\ Established
        BY DEF Init, ClientInit, Calling, Abandoned, InHand, Established
    <1>3. Sessions
        BY DEF Init, BrokerInit, Sessions
    <1>4. retained["state"] = 0 /\ version = 0
        BY DEF Init, BrokerInit, Topics
    <1>5. \A c \in Conns : Quiet(queue[c])
        BY EmptyQuiet DEF Init, BrokerInit
    <1> QED
        BY <1>1, <1>2, <1>3, <1>4, <1>5, QuietInOrder DEF Ordering, Deliveries

LEMMA DeliveriesStep ==
    Ordering /\ [Next]_vars => Deliveries' /\ retained'["state"] >= retained["state"]
    <1> SUFFICES ASSUME Ordering, [Next]_vars
                 PROVE  Deliveries' /\ retained'["state"] >= retained["state"]
        OBVIOUS
    <1>1. /\ retained["state"] \in Nat /\ version \in Nat
          /\ DOMAIN queue = Conns /\ \A c \in Conns : IsQueue(queue[c])
        BY MaxVersionAssumption DEF Ordering, TypeInv, LocalOK, NetTypeOK, ProcessTypeOK
    <1>2. CASE /\ \/ DialOk \/ DialWithoutPassword \/ ConnackFails \/ WriterWrites
                  \/ StrayWrites \/ CloseClient
               /\ UNCHANGED version
        BY <1>1, <1>2, DeliveriesClient
    <1>3. CASE Broker /\ UNCHANGED version
        BY <1>3, DeliveriesBroker DEF Broker, Ordering
    <1>4. CASE /\ UNCHANGED <<server, ident, queue, ack, retained, opened>>
               /\ version' \in {version, version + 1}
        <2>1. \A c \in Conns : \A i \in 1 .. Len(queue[c]) :
                  CarriesState(queue[c][i]) => queue[c][i].msg.payload \in Nat
            BY <1>1, StatePayload DEF IsQueue
        <2>2. \A c \in Conns : InOrder(queue[c], retained["state"], version')
            BY <1>1, <1>4, <2>1 DEF InOrder, Ordering, Deliveries
        <2>3. retained["state"] <= version'
            BY <1>1, <1>4 DEF Ordering, Deliveries
        <2>4. \A c \in Conns : server[c] # "session" => Quiet(queue[c])
            BY DEF Ordering, Deliveries
        <2> QED
            BY <1>1, <1>4, <2>2, <2>3, <2>4 DEF Deliveries
    <1> QED
        BY <1>2, <1>3, <1>4, NetSteps

LEMMA OrderingStep == Ordering /\ [Next]_vars => Ordering'
    <1> SUFFICES ASSUME Ordering, [Next]_vars PROVE Ordering'
        OBVIOUS
    <1>1. NetTypeOK /\ ProcessTypeOK
        BY DEF Ordering, TypeInv, LocalOK
    <1>2. TypeInv' /\ Calling' /\ Abandoned' /\ InHand'
        BY <1>1, TypeStep, CallingStep, AbandonedStep, InHandStep DEF Ordering
    <1>3. Sessions' /\ Established'
        BY <1>1, SessionsStep, EstablishedStep DEF Ordering
    <1>4. Deliveries'
        BY DeliveriesStep
    <1> QED
        BY <1>2, <1>3, <1>4 DEF Ordering

\* The retained state never goes back to an older message: one session at a
\* time delivers (the shared client identifier of main.go), an abandoned write
\* holds the newest state (writePacket), and every new state is written after
\* the ones before it (PublishJSON waits for its goroutine).
THEOREM StateOrderCorrect == Spec => StateNeverGoesBack
    <1>1. Ordering /\ [Next]_vars => [retained'["state"] >= retained["state"]]_retained
        BY DeliveriesStep
    <1> QED
        BY <1>1, OrderingInit, OrderingStep, PTL DEF Spec, StateNeverGoesBack

-----------------------------------------------------------------------------
(* What was reported as published. *)

\* In the phase "state" the newest state is being published.
Publishing == phase = "state" => msg = State(version) /\ attempt # 0

LEMMA PublishingStep == Publishing /\ [Next]_vars => Publishing'
    <1> SUFFICES ASSUME Publishing, [Next]_vars PROVE Publishing'
        OBVIOUS
    <1>1. CASE MainStep
        BY <1>1
           DEF MainStep, Start, Connected, ConnectFailed, SetupFails, PublishOnline,
               PublishDiscovery, DiscoveryDone, PublishFailed, LoopTop, ReceiveNothing,
               ReceiveFails, EndOfFile, StatePublished, PublishOffline, OfflineDone,
               CloseClient, Exit, Leave, Die, Publishing
    <1>2. CASE Receive
        BY <1>2 DEF Receive, Publish, CallPublish, Publishing
    <1>3. CASE Panic \/ Kill \/ Restart
        BY <1>3 DEF Panic, Kill, Die, Restart, Publishing
    <1>4. CASE (ConnectSteps \/ WriteSteps \/ GoroutineSteps \/ StrayWrites) /\ UNCHANGED processVars
        BY <1>4
           DEF ConnectSteps, DialOk, DialFails, DialWithoutPassword, ConnackOk, ConnackFails,
               WriteSteps, WriteOk, WriteFails, Retry, GiveUp, GoroutineSteps, WriterWrites,
               WriterGivesUp, StrayWrites, processVars, Publishing, State
    <1>5. CASE Broker \/ Sigterm \/ OfflineTimeout \/ UNCHANGED vars
        BY <1>5
           DEF Broker, Sigterm, OfflineTimeout, vars, allVars, clientVars, processVars,
               Publishing, State
    <1> QED
        BY <1>1, <1>2, <1>3, <1>4, <1>5 DEF Next, Main, ClientStep, Goroutine, Stray

\* The goroutine wrote the newest state, or its caller was told so.
Reported ==
    /\ phase = "state" /\ conn \in Conns /\ conn # None
    /\ \/ pc = "write" /\ writer = "ok"
       \/ pc = "idle" /\ result = "ok"

LEMMA ReportedStep ==
    ASSUME [Next]_vars, Abandoned, Publishing, Reported'
    PROVE  /\ UNCHANGED <<conn, version>>
           /\ \/ WriterWrites
              \/ Reported /\ Broker
              \/ Reported /\ UNCHANGED <<server, ident, queue, lost, ack, retained>>
    <1>1. CASE MainStep
        BY <1>1
           DEF MainStep, Start, Connected, ConnectFailed, SetupFails, PublishOnline,
               PublishDiscovery, DiscoveryDone, PublishFailed, LoopTop, ReceiveNothing,
               ReceiveFails, EndOfFile, StatePublished, PublishOffline, OfflineDone,
               CloseClient, Exit, Leave, Die, Reported
    <1>2. CASE Receive
        BY <1>2 DEF Receive, Publish, CallPublish, Reported
    <1>3. CASE Panic \/ Kill \/ Restart
        BY <1>3 DEF Panic, Kill, Die, Restart, Reported
    <1>4. CASE (ConnectSteps \/ WriteSteps \/ GoroutineSteps \/ StrayWrites) /\ UNCHANGED processVars
        BY <1>4
           DEF ConnectSteps, DialOk, DialFails, DialWithoutPassword, ConnackOk, ConnackFails,
               WriteSteps, WriteOk, WriteFails, Retry, GiveUp, GoroutineSteps,
               WriterGivesUp, WriterWrites, StrayWrites, Return, processVars, brokerVars, netVars,
               Abandoned, Publishing, Reported
    <1>5. CASE Broker
        BY <1>5 DEF Broker, clientVars, processVars, Reported
    <1>6. CASE Sigterm \/ OfflineTimeout \/ UNCHANGED vars
        BY <1>6
           DEF Sigterm, OfflineTimeout, vars, allVars, brokerVars, netVars, clientVars,
               processVars, Reported
    <1> QED
        BY <1>1, <1>2, <1>3, <1>4, <1>5, <1>6 DEF Next, Main, ClientStep, Goroutine, Stray

\* The newest state is at the broker, or on its way on a session.
Holds(q) == \E i \in 1 .. Len(q) : CarriesState(q[i]) /\ q[i].msg.payload = version

Reaches(c) ==
    \/ c \in lost \/ server[c] # "session"
    \/ retained["state"] = version
    \/ Holds(queue[c])

Confirmed == Reported => Reaches(conn)

LEMMA ReachesWritten ==
    ASSUME Ordering, Publishing', WriterWrites, Reported', UNCHANGED version
    PROVE  Reaches(conn)'
    <1> DEFINE p == PublishPacket(msg)
    <1>1. conn \in Conns /\ conn' = conn /\ UNCHANGED <<server, lost, retained>>
        BY DEF WriterWrites, Reported
    <1>2. CarriesState(p) /\ p.msg.payload = version
        BY DEF WriterWrites, Reported, Publishing, CarriesState, PublishPacket, State
    <1>3. IsQueue(queue[conn]) /\ DOMAIN queue = Conns
        BY <1>1 DEF Ordering, TypeInv, LocalOK, NetTypeOK
    <1> HIDE DEF p
    <1>4. CASE Deliverable(conn)
        <2>1. queue'[conn] = Append(queue[conn], p)
            BY <1>1, <1>3, <1>4 DEF WriterWrites, Enqueue, p
        <2>2. /\ Len(queue[conn]) \in Nat /\ Len(queue'[conn]) = Len(queue[conn]) + 1
              /\ queue'[conn][Len(queue[conn]) + 1] = p
            BY <1>3, <2>1, AppendIndices
        <2>3. Len(queue[conn]) + 1 \in 1 .. Len(queue'[conn])
            BY <2>2
        <2>4. \E i \in 1 .. Len(queue'[conn]) :
                  CarriesState(queue'[conn][i]) /\ queue'[conn][i].msg.payload = version
            BY <1>2, <2>2, <2>3
        <2> QED
            BY <1>1, <2>4 DEF Reaches, Holds
    <1>5. CASE ~Deliverable(conn)
        BY <1>1, <1>5 DEF Deliverable, Reaches
    <1> QED
        BY <1>4, <1>5

LEMMA ReachesServed ==
    ASSUME Ordering, UNCHANGED version, NEW c \in Conns, Reaches(c), BrokerPublish(c)
    PROVE  Reaches(c)'
    <1> DEFINE h == Head(queue[c])
    <1>1. /\ queue[c] # <<>> /\ IsQueue(queue[c]) /\ h.type = "publish"
          /\ server[c] = "session" /\ c \notin lost
        BY DEF BrokerPublish, Arrived, Ordering, TypeInv, LocalOK, NetTypeOK
    <1>2. /\ retained["state"] \in Nat /\ retained'["state"] \in Nat /\ version \in Nat
          /\ retained'["state"] >= retained["state"] /\ retained'["state"] <= version
        <2>1. Deliveries' /\ retained'["state"] >= retained["state"]
            BY ServeOldest DEF Ordering
        <2>2. NetTypeOK'
            BY BrokerType DEF BrokerNext, BrokerServe, Ordering, TypeInv, LocalOK
        <2> QED
            BY <2>1, <2>2, MaxVersionAssumption
               DEF Deliveries, Ordering, TypeInv, LocalOK, NetTypeOK, ProcessTypeOK
    <1>3. CASE retained["state"] = version
        BY <1>2, <1>3 DEF Reaches
    <1>4. CASE Holds(queue[c])
        <2>1. PICK i \in 1 .. Len(queue[c]) :
                  CarriesState(queue[c][i]) /\ queue[c][i].msg.payload = version
            BY <1>4 DEF Holds
        <2>2. /\ Len(queue[c]) \in Nat /\ Len(queue[c]) > 0 /\ h = queue[c][1]
              /\ Len(Tail(queue[c])) = Len(queue[c]) - 1
              /\ \A j \in 1 .. Len(Tail(queue[c])) : Tail(queue[c])[j] = queue[c][j + 1]
            BY <1>1, TailIndices
        <2>3. CASE i = 1
            <3>1. retained'["state"] = version
                BY <2>1, <2>2, <2>3
                   DEF BrokerPublish, CarriesState, Ordering, TypeInv, LocalOK, NetTypeOK, Topics
            <3> QED
                BY <3>1 DEF Reaches
        <2>4. CASE i # 1
            <3>1. i - 1 \in 1 .. Len(Tail(queue[c])) /\ Tail(queue[c])[i - 1] = queue[c][i]
                BY <2>2, <2>4
            <3>2. queue'[c] = Tail(queue[c])
                BY DEF BrokerPublish, Ordering, TypeInv, LocalOK, NetTypeOK
            <3>3. \E j \in 1 .. Len(queue'[c]) :
                      CarriesState(queue'[c][j]) /\ queue'[c][j].msg.payload = version
                BY <2>1, <3>1, <3>2
            <3> QED
                BY <3>3 DEF Reaches, Holds
        <2> QED
            BY <2>3, <2>4
    <1> QED
        BY <1>1, <1>3, <1>4 DEF Reaches

LEMMA ReachesKept ==
    ASSUME UNCHANGED version, NEW c \in Conns, Reaches(c), retained'["state"] = retained["state"],
           c \in lost => c \in lost',
           \/ server'[c] # "session"
           \/ server'[c] = server[c] /\ queue'[c] = queue[c]
    PROVE  Reaches(c)'
    BY DEF Reaches, Holds

LEMMA ReachesBroker ==
    ASSUME Ordering, UNCHANGED version, BrokerNext,
           NEW c \in Conns, Reaches(c), server[c] # "open"
    PROVE  Reaches(c)'
    <1>1. NetTypeOK
        BY DEF Ordering, TypeInv, LocalOK
    <1>2. ASSUME NEW d \in Conns, BrokerConnect(d) PROVE Reaches(c)'
        <2>1. d # c /\ retained'["state"] = retained["state"]
            BY <1>1, <1>2, WillsKeepState DEF BrokerConnect
        <2>2. server'[c] = "closed" \/ (server'[c] = server[c] /\ queue'[c] = queue[c])
            BY <1>1, <1>2, <2>1 DEF BrokerConnect
        <2> QED
            BY <1>2, <2>1, <2>2, ReachesKept DEF BrokerConnect
    <1>3. ASSUME NEW d \in Conns, BrokerPublish(d) PROVE Reaches(c)'
        <2>1. CASE d = c
            BY <1>3, <2>1, ReachesServed
        <2>2. CASE d # c
            BY <1>3, <2>2 DEF BrokerPublish, Ordering, Sessions, Reaches
        <2> QED
            BY <2>1, <2>2
    <1>4. ASSUME NEW d \in Conns,
                 BrokerRefuse(d) \/ BrokerDisconnect(d) \/ BrokerSeesClose(d) \/ KeepAliveExpires(d)
          PROVE  Reaches(c)'
        <2>1. Shut(d) /\ retained'["state"] = retained["state"]
            BY <1>1, <1>4, WillsKeepState
               DEF BrokerRefuse, BrokerDisconnect, BrokerSeesClose, KeepAliveExpires
        <2>2. server'[c] = "closed" \/ (server'[c] = server[c] /\ queue'[c] = queue[c])
            BY <1>1, <2>1 DEF Shut, NetTypeOK
        <2> QED
            BY <2>1, <2>2, ReachesKept DEF Shut
    <1>5. CASE (\E d \in Conns : LoseLink(d)) \/ BrokerStart
        BY <1>5, ReachesKept DEF LoseLink, BrokerStart, netVars
    <1>6. CASE BrokerCrash
        BY <1>1, <1>6 DEF BrokerCrash, Reaches
    <1> QED
        BY <1>2, <1>3, <1>4, <1>5, <1>6 DEF BrokerNext, BrokerServe

LEMMA ConfirmedStep == Confirmed /\ Publishing /\ Ordering /\ [Next]_vars => Confirmed'
    <1> SUFFICES ASSUME Confirmed, Publishing, Ordering, [Next]_vars, Reported'
                 PROVE  Reaches(conn)'
        BY DEF Confirmed
    <1>1. /\ UNCHANGED <<conn, version>> /\ conn \in Conns
          /\ \/ WriterWrites
             \/ Reported /\ Broker
             \/ Reported /\ UNCHANGED <<server, ident, queue, lost, ack, retained>>
        <2>1. Abandoned
            BY DEF Ordering
        <2> QED
            BY <2>1, ReportedStep DEF Reported
    <1>2. CASE WriterWrites
        BY <1>1, <1>2, ReachesWritten, PublishingStep
    <1>3. CASE Reported /\ Broker
        <2>1. server[conn] # "open"
            BY <1>1, <1>3 DEF Reported, Ordering, Established, Sessions
        <2>2. Reaches(conn)
            BY <1>3 DEF Confirmed
        <2>3. \A c \in Conns : Reaches(c) /\ server[c] # "open" => Reaches(c)'
            BY <1>1, <1>3, ReachesBroker DEF Broker
        <2>4. conn' = conn
            BY <1>1
        <2> QED
            BY <1>1, <2>1, <2>2, <2>3, <2>4 DEF Reaches, Holds
    <1>4. CASE Reported /\ UNCHANGED <<server, ident, queue, lost, ack, retained>>
        BY <1>1, <1>4 DEF Confirmed, Reaches, Holds
    <1> QED
        BY <1>1, <1>2, <1>3, <1>4

\* A state publish that was reported as done on a settled connection is what
\* the broker shows: PublishJSON returns success only after its own write, and
\* the broker serves a session in order.
THEOREM PublishedCorrect == Spec => []PublishedIsRetained
    <1>1. Init => Publishing /\ Confirmed
        BY DEF Init, Publishing, Confirmed, Reported
    <1>2. Confirmed /\ Ordering => PublishedIsRetained
        <2> SUFFICES ASSUME Confirmed, Ordering,
                            phase = "state", Returned("ok"), Settled(conn)
                     PROVE  retained["state"] = version
            BY DEF PublishedIsRetained
        <2>1. conn \in Conns /\ Reported
            BY DEF Returned, Settled, Reported, Ordering, TypeInv, LocalOK, ClientTypeOK
        <2>2. Len(queue[conn]) = 0
            BY DEF Settled
        <2> QED
            BY <2>1, <2>2 DEF Settled, Confirmed, Reaches, Holds
    <1> QED
        BY <1>1, <1>2, OrderingInit, OrderingStep, PublishingStep, ConfirmedStep, PTL DEF Spec
-----------------------------------------------------------------------------
(* What a queue holds. *)

Packets(q) == {q[i] : i \in 1 .. Len(q)}

LEMMA EmptyPackets == Packets(<<>>) = {}
    <1>1. Len(<<>>) = 0
        OBVIOUS
    <1> QED
        BY <1>1 DEF Packets

LEMMA OnePacket == ASSUME NEW p PROVE Packets(<<p>>) = {p}
    <1>1. Len(<<p>>) = 1 /\ <<p>>[1] = p
        OBVIOUS
    <1> QED
        BY <1>1 DEF Packets

LEMMA AppendPackets ==
    ASSUME NEW q, IsQueue(q), NEW p PROVE Packets(Append(q, p)) = Packets(q) \cup {p}
    <1> DEFINE a == Append(q, p)
    <1>1. /\ Len(q) \in Nat /\ Len(a) = Len(q) + 1
          /\ \A i \in 1 .. Len(q) : a[i] = q[i]
          /\ a[Len(q) + 1] = p
        BY AppendIndices
    <1> HIDE DEF a
    <1>2. 1 .. Len(a) = 1 .. Len(q) \cup {Len(q) + 1}
        BY <1>1
    <1>3. Packets(a) = Packets(q) \cup {p}
        BY <1>1, <1>2 DEF Packets
    <1> QED
        BY <1>3 DEF a

LEMMA TailPackets ==
    ASSUME NEW q, IsQueue(q), q # <<>> PROVE Packets(q) = {Head(q)} \cup Packets(Tail(q))
    <1> DEFINE a == Tail(q)
    <1>1. /\ Len(q) \in Nat /\ Len(q) > 0 /\ Head(q) = q[1] /\ Len(a) = Len(q) - 1
          /\ \A i \in 1 .. Len(a) : a[i] = q[i + 1]
        BY TailIndices
    <1> HIDE DEF a
    <1>2. /\ \A i \in 1 .. Len(q) : i = 1 \/ (i - 1 \in 1 .. Len(a) /\ q[i] = a[i - 1])
          /\ 1 \in 1 .. Len(q)
          /\ \A i \in 1 .. Len(a) : i + 1 \in 1 .. Len(q) /\ a[i] = q[i + 1]
        <2>1. \A i \in 1 .. Len(q) : i = 1 \/ (i - 1 \in 1 .. Len(a) /\ (i - 1) + 1 = i)
            BY <1>1
        <2> QED
            BY <1>1, <2>1
    <1>3. Packets(q) = {Head(q)} \cup Packets(a)
        BY <1>1, <1>2 DEF Packets
    <1> QED
        BY <1>3 DEF a

-----------------------------------------------------------------------------
(* The connection a process starts with. *)

\* The phases from the first connection to the end of the capture.
Serving == {"setup", "online", "discovery", "capture", "receive", "state"}

\* The client dials when it has no connection, and has the one it opened last.
Latest ==
    /\ pc = "dial" => conn = None
    /\ conn \in Conns /\ conn # None => conn = opened
    /\ phase \in {"start", "down"} => conn = None

\* first is the connection that Connect opens; one opened later is another.
Booting ==
    /\ phase = "boot" => attempt = 0
    /\ phase = "boot" /\ pc = "dial" => first = opened + 1
    /\ phase = "boot" /\ (pc = "connack" \/ result = "ok") => first <= opened
    /\ phase \in Serving => first <= opened
    /\ phase \in Serving /\ pc = "connack" => conn # first

LEMMA LatestStep == Latest /\ Calling /\ TypeInv /\ [Next]_vars => Latest'
    <1> SUFFICES ASSUME Latest, Calling, TypeInv, [Next]_vars PROVE Latest'
        OBVIOUS
    <1>1. CASE Start \/ Connected \/ ConnectFailed \/ SetupFails \/ DiscoveryDone \/ PublishFailed
                \/ LoopTop \/ ReceiveNothing \/ ReceiveFails \/ EndOfFile \/ StatePublished
                \/ OfflineDone \/ CloseClient
        BY <1>1
           DEF Start, Connected, ConnectFailed, SetupFails, DiscoveryDone, PublishFailed, LoopTop,
               ReceiveNothing, ReceiveFails, EndOfFile, StatePublished, OfflineDone, CloseClient,
               CloseConn, Leave, Returned, allVars, clientVars, Calling, Latest
    <1>2. CASE PublishOnline \/ PublishDiscovery \/ PublishOffline \/ Receive
        BY <1>2
           DEF PublishOnline, PublishDiscovery, PublishOffline, Receive, Publish, CallPublish, Latest
    <1>3. CASE Exit \/ Panic \/ Kill
        BY <1>3 DEF Exit, Panic, Kill, Die, Latest
    <1>4. CASE ConnectSteps /\ UNCHANGED processVars
        BY <1>4
           DEF ConnectSteps, DialOk, DialFails, DialWithoutPassword, ConnackOk, ConnackFails,
               CloseConn, Return, processVars, Calling, Latest
    <1>5. CASE (WriteSteps \/ GoroutineSteps \/ StrayWrites) /\ UNCHANGED processVars
        BY <1>5
           DEF WriteSteps, WriteOk, WriteFails, Retry, GiveUp, Return, GoroutineSteps,
               WriterWrites, WriterGivesUp, StrayWrites, processVars, Calling, Latest
    <1>6. CASE Broker \/ Sigterm \/ OfflineTimeout \/ Restart \/ UNCHANGED vars
        BY <1>6
           DEF Broker, Sigterm, OfflineTimeout, Restart, vars, allVars, clientVars, processVars,
               Latest
    <1> QED
        BY <1>1, <1>2, <1>3, <1>4, <1>5, <1>6
           DEF Next, Main, MainStep, ClientStep, Goroutine, Stray

LEMMA BootingStep == Booting /\ Latest /\ Calling /\ TypeInv /\ [Next]_vars => Booting'
    <1> SUFFICES ASSUME Booting, Latest, Calling, opened \in Nat, first \in Nat,
                        pc = "write" => attempt # 0, [Next]_vars
                 PROVE  Booting'
        BY MaxConnsAssumption DEF TypeInv, LocalOK, ClientTypeOK, ProcessTypeOK, Writing
    <1> USE DEF Serving
    <1>1. CASE Start \/ Connected \/ ConnectFailed \/ SetupFails \/ DiscoveryDone \/ PublishFailed
                \/ LoopTop \/ ReceiveNothing \/ ReceiveFails \/ EndOfFile \/ StatePublished
                \/ OfflineDone \/ CloseClient
        BY <1>1
           DEF Start, Connected, ConnectFailed, SetupFails, DiscoveryDone, PublishFailed, LoopTop,
               ReceiveNothing, ReceiveFails, EndOfFile, StatePublished, OfflineDone, CloseClient,
               CloseConn, Leave, Returned, allVars, clientVars, Calling, Booting
    <1>2. CASE PublishOnline \/ PublishDiscovery \/ PublishOffline \/ Receive
        BY <1>2
           DEF PublishOnline, PublishDiscovery, PublishOffline, Receive, Publish, CallPublish, Booting
    <1>3. CASE Exit \/ Panic \/ Kill
        BY <1>3 DEF Exit, Panic, Kill, Die, Booting
    <1>4. CASE DialOk /\ UNCHANGED processVars
        <2>1. opened' = opened + 1 /\ conn' = opened + 1 /\ pc = "dial" /\ pc' = "connack"
              /\ UNCHANGED <<attempt, result>>
            BY <1>4 DEF DialOk
        <2> QED
            BY <1>4, <2>1 DEF processVars, Calling, Booting
    <1>5. CASE (DialFails \/ DialWithoutPassword \/ ConnackOk \/ ConnackFails) /\ UNCHANGED processVars
        BY <1>5
           DEF DialFails, DialWithoutPassword, ConnackOk, ConnackFails, Return, processVars,
               Calling, Booting
    <1>6. CASE (WriteSteps \/ GoroutineSteps \/ StrayWrites) /\ UNCHANGED processVars
        BY <1>6
           DEF WriteSteps, WriteOk, WriteFails, Retry, GiveUp, Return, GoroutineSteps,
               WriterWrites, WriterGivesUp, StrayWrites, processVars, Calling, Booting
    <1>7. CASE Broker \/ Sigterm \/ OfflineTimeout \/ Restart \/ UNCHANGED vars
        BY <1>7
           DEF Broker, Sigterm, OfflineTimeout, Restart, vars, allVars, clientVars, processVars,
               Booting
    <1> QED
        BY <1>1, <1>2, <1>3, <1>4, <1>5, <1>6, <1>7
           DEF Next, Main, MainStep, ClientStep, ConnectSteps, Goroutine, Stray

\* How far the process has announced itself, and the message it is publishing.
Announcing ==
    /\ phase = "online" => msg = Status("online") /\ attempt # 0
    /\ phase = "discovery" =>
          /\ announced \in 1 .. Len(DiscoveryTopics)
          /\ msg = DiscoveryMsg(announced) /\ attempt # 0
    /\ phase \in {"start", "boot", "setup", "online"} => announced = 0
    /\ phase \in {"capture", "receive", "state"} => announced = Len(DiscoveryTopics)

LEMMA AnnouncingStep == Announcing /\ ProcessTypeOK /\ [Next]_vars => Announcing'
    <1> SUFFICES ASSUME Announcing, announced \in Nat, Len(DiscoveryTopics) \in Nat, [Next]_vars
                 PROVE  Announcing'
        BY DiscoveryTopicsAssumption, LenProperties DEF ProcessTypeOK
    <1> USE DEF Status, DiscoveryMsg
    <1>1. CASE Start \/ Connected \/ ConnectFailed \/ SetupFails \/ DiscoveryDone \/ PublishFailed
                \/ LoopTop \/ ReceiveNothing \/ ReceiveFails \/ EndOfFile \/ StatePublished
                \/ OfflineDone \/ CloseClient
        BY <1>1
           DEF Start, Connected, ConnectFailed, SetupFails, DiscoveryDone, PublishFailed, LoopTop,
               ReceiveNothing, ReceiveFails, EndOfFile, StatePublished, OfflineDone, CloseClient,
               Leave, Announcing
    <1>2. CASE PublishOnline \/ PublishOffline \/ Receive
        BY <1>2
           DEF PublishOnline, PublishOffline, Receive, Publish, CallPublish, Announcing
    <1>3. CASE PublishDiscovery
        <2>1. /\ announced' = announced + 1 /\ announced < Len(DiscoveryTopics)
              /\ msg' = DiscoveryMsg(announced + 1) /\ attempt' = 1 /\ phase' = "discovery"
            BY <1>3 DEF PublishDiscovery, Publish, CallPublish
        <2>2. announced' \in 1 .. Len(DiscoveryTopics)
            BY <2>1
        <2> QED
            BY <2>1, <2>2 DEF Announcing
    <1>4. CASE Exit \/ Panic \/ Kill \/ Restart
        BY <1>4 DEF Exit, Panic, Kill, Die, Restart, Announcing
    <1>5. CASE (ConnectSteps \/ WriteSteps \/ GoroutineSteps \/ StrayWrites) /\ UNCHANGED processVars
        BY <1>5
           DEF ConnectSteps, DialOk, DialFails, DialWithoutPassword, ConnackOk, ConnackFails,
               WriteSteps, WriteOk, WriteFails, Retry, GiveUp, GoroutineSteps, WriterWrites,
               WriterGivesUp, StrayWrites, processVars, Announcing
    <1>6. CASE Broker \/ Sigterm \/ OfflineTimeout \/ UNCHANGED vars
        BY <1>6
           DEF Broker, Sigterm, OfflineTimeout, vars, allVars, clientVars, processVars, Announcing
    <1> QED
        BY <1>1, <1>2, <1>3, <1>4, <1>5, <1>6
           DEF Next, Main, MainStep, ClientStep, Goroutine, Stray

-----------------------------------------------------------------------------
(* What a step does to a queue. *)

LEMMA QueueSteps ==
    ASSUME NetTypeOK, opened \in Nat, [Next]_vars, NEW c \in Conns
    PROVE  \/ queue'[c] = queue[c]
           \/ queue'[c] = <<>>
           \/ queue[c] # <<>> /\ queue'[c] = Tail(queue[c])
           \/ /\ CloseClient /\ c = conn
              /\ queue'[c] = Append(queue[c], DisconnectPacket)
           \/ /\ WriterWrites /\ c = conn /\ Deliverable(c)
              /\ queue'[c] = Append(queue[c], PublishPacket(msg))
           \/ /\ StrayWrites /\ conn # None /\ c = conn /\ Deliverable(c)
              /\ queue'[c] = Append(queue[c], PublishPacket(stray))
           \/ DialOk /\ c = opened + 1 /\ queue'[c] = <<ConnectPacket(ClientID(c))>>
           \/ DialWithoutPassword /\ c = opened + 1 /\ queue'[c] = <<DisconnectPacket>>
    <1>1. DOMAIN queue = Conns /\ \A d \in Conns : IsQueue(queue[d])
        BY DEF NetTypeOK
    <1>2. CASE DialOk \/ DialWithoutPassword
        BY <1>1, <1>2 DEF DialOk, DialWithoutPassword
    <1>3. CASE ConnackFails
        BY <1>1, <1>3 DEF ConnackFails, CloseConn, Enqueue
    <1>4. CASE WriterWrites
        BY <1>1, <1>4 DEF WriterWrites, Enqueue
    <1>5. CASE StrayWrites
        BY <1>1, <1>5 DEF StrayWrites, Enqueue
    <1>6. CASE CloseClient
        BY <1>1, <1>6 DEF CloseClient, CloseConn, Enqueue
    <1>7. CASE Broker
        <2>1. CASE \E d \in Conns : BrokerConnect(d)
            BY <1>1, <2>1 DEF BrokerConnect, Arrived
        <2>2. CASE \E d \in Conns : BrokerPublish(d)
            BY <1>1, <2>2 DEF BrokerPublish, Arrived
        <2>3. CASE \E d \in Conns : Shut(d)
            BY <1>1, <2>3 DEF Shut
        <2>4. CASE (\E d \in Conns : LoseLink(d)) \/ BrokerCrash \/ BrokerStart
            BY <2>4 DEF LoseLink, BrokerCrash, BrokerStart, netVars
        <2> QED
            BY <1>7, <2>1, <2>2, <2>3, <2>4
               DEF Broker, BrokerNext, BrokerServe, BrokerRefuse, BrokerDisconnect,
                   BrokerSeesClose, KeepAliveExpires
    <1> QED
        BY <1>2, <1>3, <1>4, <1>5, <1>6, <1>7, NetSteps

LEMMA ConnSteps ==
    ASSUME [Next]_vars, conn' # None
    PROVE  \/ conn' = conn /\ ~CloseClient
           \/ DialOk /\ conn' = opened + 1
    <1>1. CASE MainStep
        BY <1>1
           DEF MainStep, Start, Connected, ConnectFailed, SetupFails, PublishOnline,
               PublishDiscovery, DiscoveryDone, PublishFailed, LoopTop, ReceiveNothing,
               ReceiveFails, EndOfFile, StatePublished, PublishOffline, OfflineDone,
               CloseClient, CloseConn, Exit, Leave, Publish, Die, allVars, clientVars
    <1>2. CASE Receive \/ Panic \/ Kill \/ Sigterm \/ OfflineTimeout \/ Restart \/ UNCHANGED vars
        BY <1>2
           DEF Receive, Publish, Panic, Kill, Die, Sigterm, OfflineTimeout, Restart, vars, allVars,
               clientVars, processVars, CloseClient
    <1>3. CASE (ConnectSteps \/ WriteSteps \/ GoroutineSteps \/ StrayWrites) /\ UNCHANGED processVars
        BY <1>3
           DEF ConnectSteps, DialOk, DialFails, DialWithoutPassword, ConnackOk, ConnackFails,
               CloseConn, WriteSteps, WriteOk, WriteFails, Retry, GiveUp, GoroutineSteps,
               WriterWrites, WriterGivesUp, StrayWrites, processVars, CloseClient
    <1>4. CASE Broker
        BY <1>4 DEF Broker, clientVars, processVars, CloseClient
    <1> QED
        BY <1>1, <1>2, <1>3, <1>4 DEF Next, Main, ClientStep, Goroutine, Stray

-----------------------------------------------------------------------------
(* Until it is stopped, a process says nothing but "online" of itself. *)

SaysOnline(m) == m.topic = "status" => m.payload = "online"
OnlineOnly(q) == \A p \in Packets(q) : p.type = "publish" => SaysOnline(p.msg)

Before == Serving \cup {"start", "boot"}

OnlineInHand ==
    phase \in Before => /\ attempt # 0 => SaysOnline(msg)
                        /\ stray # None => SaysOnline(stray)

OnlineSaid == phase \in Before /\ conn \in Conns /\ conn # None => OnlineOnly(queue[conn])

LEMMA OnlineInHandStep ==
    OnlineInHand /\ Abandoned /\ ProcessTypeOK /\ Writing /\ [Next]_vars => OnlineInHand'
    <1> SUFFICES ASSUME OnlineInHand, Abandoned, ProcessTypeOK, Writing, [Next]_vars PROVE OnlineInHand'
        OBVIOUS
    <1> USE DEF Before, Serving
    <1>1. CASE Start \/ Restart
        BY <1>1 DEF Start, Restart, Abandoned, OnlineInHand
    <1>2. CASE Connected \/ ConnectFailed \/ SetupFails \/ DiscoveryDone \/ PublishFailed
                \/ LoopTop \/ ReceiveNothing \/ ReceiveFails \/ EndOfFile \/ StatePublished
                \/ OfflineDone \/ CloseClient
        BY <1>2
           DEF Connected, ConnectFailed, SetupFails, DiscoveryDone, PublishFailed, LoopTop,
               ReceiveNothing, ReceiveFails, EndOfFile, StatePublished, OfflineDone, CloseClient,
               Leave, allVars, clientVars, OnlineInHand, SaysOnline
    <1>3. CASE PublishOnline \/ PublishOffline
        BY <1>3 DEF PublishOnline, PublishOffline, Publish, CallPublish, Status, OnlineInHand, SaysOnline
    <1>4. CASE PublishDiscovery
        <2>1. announced + 1 \in DOMAIN DiscoveryTopics
            BY <1>4, DiscoveryTopicsAssumption, LenProperties DEF PublishDiscovery, ProcessTypeOK
        <2>2. SaysOnline(msg)'
            BY <1>4, <2>1, DiscoveryTopicsAssumption
               DEF PublishDiscovery, Publish, CallPublish, DiscoveryMsg, SaysOnline
        <2> QED
            BY <1>4, <2>2 DEF PublishDiscovery, Publish, OnlineInHand, SaysOnline
    <1>5. CASE Receive
        BY <1>5 DEF Receive, Publish, CallPublish, State, OnlineInHand, SaysOnline
    <1>6. CASE Exit \/ Panic \/ Kill
        BY <1>6 DEF Exit, Panic, Kill, Die, OnlineInHand
    <1>7. CASE (ConnectSteps \/ WriteOk \/ GoroutineSteps \/ StrayWrites) /\ UNCHANGED processVars
        BY <1>7
           DEF ConnectSteps, DialOk, DialFails, DialWithoutPassword, ConnackOk, ConnackFails,
               WriteOk, GoroutineSteps, WriterWrites, WriterGivesUp, StrayWrites, processVars,
               OnlineInHand, SaysOnline
    <1>8. CASE WriteFails /\ UNCHANGED processVars
        <2>1. attempt # 0 /\ UNCHANGED <<msg, phase>> /\ (stray' = stray \/ stray' = msg)
            BY <1>8 DEF WriteFails, processVars, Writing
        <2> QED
            BY <2>1 DEF OnlineInHand, SaysOnline
    <1>9. CASE Broker \/ Sigterm \/ OfflineTimeout \/ UNCHANGED vars
        BY <1>9
           DEF Broker, Sigterm, OfflineTimeout, vars, allVars, clientVars, processVars,
               OnlineInHand, SaysOnline
    <1> QED
        BY <1>1, <1>2, <1>3, <1>4, <1>5, <1>6, <1>7, <1>8, <1>9
           DEF Next, Main, MainStep, ClientStep, Goroutine, Stray, WriteSteps

\* A phase before the end of the capture is entered from one, or from a start.
LEMMA BeforeBack ==
    ASSUME [Next]_vars, Latest, phase' \in Before, conn' # None, conn' = conn PROVE phase \in Before
    <1> USE DEF Before, Serving
    <1>1. CASE MainStep \/ Receive
        BY <1>1
           DEF MainStep, Start, Connected, ConnectFailed, SetupFails, PublishOnline,
               PublishDiscovery, DiscoveryDone, PublishFailed, LoopTop, ReceiveNothing,
               ReceiveFails, EndOfFile, StatePublished, PublishOffline, OfflineDone,
               CloseClient, Exit, Leave, Die, Receive
    <1>2. CASE Panic \/ Kill \/ Restart
        BY <1>2 DEF Panic, Kill, Die, Restart, Latest
    <1>3. CASE UNCHANGED phase
        BY <1>3
    <1> QED
        BY <1>1, <1>2, <1>3
           DEF Next, Main, ClientStep, Goroutine, Stray, Broker, Sigterm, OfflineTimeout, vars, processVars

LEMMA OnlineSaidStep ==
    ASSUME OnlineSaid, OnlineInHand, Latest, TypeInv, [Next]_vars
    PROVE  OnlineSaid'
    <1> SUFFICES ASSUME phase' \in Before, conn' \in Conns, conn' # None
                 PROVE  OnlineOnly(queue'[conn'])
        BY DEF OnlineSaid, OnlineOnly, Packets
    <1>1. NetTypeOK /\ opened \in Nat /\ IsQueue(queue[conn'])
        BY MaxConnsAssumption DEF TypeInv, LocalOK, ClientTypeOK, NetTypeOK
    <1>2. CASE DialOk
        <2>1. conn' = opened + 1 /\ queue'[conn'] = <<ConnectPacket(ClientID(opened + 1))>>
            BY <1>1, <1>2 DEF DialOk, NetTypeOK
        <2> QED
            BY <2>1, OnePacket DEF OnlineOnly, ConnectPacket
    <1>3. CASE ~DialOk
        <2>1. conn' = conn /\ ~CloseClient
            BY <1>3, ConnSteps
        <2>2. phase \in Before
            BY <2>1, BeforeBack
        <2>3. OnlineOnly(queue[conn])
            BY <2>1, <2>2 DEF OnlineSaid
        <2>4. ~DialWithoutPassword
            BY <2>1 DEF DialWithoutPassword, Latest
        <2>5. CASE queue'[conn] = queue[conn] \/ queue'[conn] = <<>>
            BY <2>1, <2>3, <2>5, EmptyPackets DEF OnlineOnly
        <2>6. CASE queue[conn] # <<>> /\ queue'[conn] = Tail(queue[conn])
            BY <1>1, <2>1, <2>3, <2>6, TailPackets DEF OnlineOnly
        <2>7. CASE WriterWrites /\ queue'[conn] = Append(queue[conn], PublishPacket(msg))
            <3>1. SaysOnline(msg)
                BY <2>2, <2>7 DEF WriterWrites, OnlineInHand, TypeInv, LocalOK, Writing
            <3>2. PublishPacket(msg).msg = msg
                BY DEF PublishPacket
            <3> QED
                BY <1>1, <2>1, <2>3, <2>7, <3>1, <3>2, AppendPackets DEF OnlineOnly
        <2>8. CASE StrayWrites /\ queue'[conn] = Append(queue[conn], PublishPacket(stray))
            <3>1. SaysOnline(stray)
                BY <2>2, <2>8 DEF StrayWrites, OnlineInHand
            <3>2. PublishPacket(stray).msg = stray
                BY DEF PublishPacket
            <3> QED
                BY <1>1, <2>1, <2>3, <2>8, <3>1, <3>2, AppendPackets DEF OnlineOnly
        <2> QED
            BY <1>1, <1>3, <2>1, <2>4, <2>5, <2>6, <2>7, <2>8, QueueSteps
    <1> QED
        BY <1>2, <1>3

-----------------------------------------------------------------------------
(* What the broker was told on the first connection. *)

Announcements == {Status("online")} \cup {DiscoveryMsg(i) : i \in 1 .. Len(DiscoveryTopics)}

\* The goroutine wrote the message, or its caller was told so.
Done == (pc = "write" /\ writer = "ok") \/ (pc = "idle" /\ result = "ok")

\* The announcements written so far.
ToldOnline ==
    phase \in {"discovery", "capture", "receive", "state"} \/ (phase = "online" /\ Done)
ToldEntity(i) ==
    /\ i <= announced
    /\ \/ phase \in {"capture", "receive", "state"}
       \/ phase = "discovery" /\ (i < announced \/ Done)
Told(m) ==
    \/ m = Status("online") /\ ToldOnline
    \/ \E i \in 1 .. Len(DiscoveryTopics) : m = DiscoveryMsg(i) /\ ToldEntity(i)

\* A message is at the broker, or on its way on a session.
Brings(c, m) ==
    \/ c \in lost \/ server[c] # "session"
    \/ retained[m.topic] = m.payload
    \/ \E p \in Packets(queue[c]) : p.type = "publish" /\ p.msg = m

ToldFirst ==
    conn \in Conns /\ conn # None /\ conn = first =>
        \A m \in Announcements : Told(m) => Brings(conn, m)

LEMMA ToldOnlineStep ==
    ASSUME [Next]_vars, Booting, Announcing, opened \in Nat, first \in Nat,
           conn' # None, conn' = first', ToldOnline'
    PROVE  conn' = conn /\ (ToldOnline \/ (WriterWrites /\ msg = Status("online")))
    <1> USE DEF Serving
    <1>1. CASE MainStep \/ Receive
        BY <1>1
           DEF MainStep, Start, Connected, ConnectFailed, SetupFails, PublishOnline,
               PublishDiscovery, DiscoveryDone, PublishFailed, LoopTop, ReceiveNothing,
               ReceiveFails, EndOfFile, StatePublished, PublishOffline, OfflineDone,
               CloseClient, Exit, Leave, Die, Receive, Publish, CallPublish, Returned, allVars,
               clientVars, ToldOnline, Done
    <1>2. CASE Panic \/ Kill \/ Restart
        BY <1>2 DEF Panic, Kill, Die, Restart, ToldOnline
    <1>3. CASE DialOk /\ UNCHANGED processVars
        <2>1. conn' = opened + 1 /\ phase' = phase /\ first' = first
            BY <1>3 DEF DialOk, processVars
        <2>2. phase \in Serving
            BY <2>1 DEF ToldOnline
        <2>3. first <= opened /\ first = opened + 1
            BY <2>1, <2>2, Zenon DEF Booting
        <2> QED
            BY <2>3
    <1>4. CASE (DialFails \/ DialWithoutPassword \/ ConnackOk \/ ConnackFails) /\ UNCHANGED processVars
        BY <1>4
           DEF DialFails, DialWithoutPassword, ConnackOk, ConnackFails, CloseConn, Return,
               processVars, Announcing, ToldOnline, Done
    <1>5. CASE (WriteSteps \/ GoroutineSteps \/ StrayWrites) /\ UNCHANGED processVars
        BY <1>5
           DEF WriteSteps, WriteOk, WriteFails, Retry, GiveUp, Return, GoroutineSteps,
               WriterGivesUp, StrayWrites, processVars, Announcing, ToldOnline, Done, WriterWrites
    <1>6. CASE Broker \/ Sigterm \/ OfflineTimeout \/ UNCHANGED vars
        BY <1>6
           DEF Broker, Sigterm, OfflineTimeout, vars, allVars, clientVars, processVars, ToldOnline, Done
    <1> QED
        BY <1>1, <1>2, <1>3, <1>4, <1>5, <1>6
           DEF Next, Main, ClientStep, ConnectSteps, Goroutine, Stray

LEMMA ToldEntityStep ==
    ASSUME [Next]_vars, Booting, Announcing, opened \in Nat, first \in Nat, announced \in Nat,
           conn' # None, conn' = first', NEW i \in Nat \ {0}, i <= Len(DiscoveryTopics),
           Len(DiscoveryTopics) \in Nat, ToldEntity(i)'
    PROVE  conn' = conn /\ (ToldEntity(i) \/ (WriterWrites /\ msg = DiscoveryMsg(i)))
    <1> USE DEF Serving
    <1>1. CASE PublishDiscovery
        <2>1. /\ announced' = announced + 1 /\ phase' = "discovery" /\ conn' = conn
              /\ phase \in {"online", "discovery"} /\ Done /\ ~Done'
            BY <1>1 DEF PublishDiscovery, Publish, CallPublish, Returned, Done
        <2>2. i <= announced
            BY <2>1 DEF ToldEntity
        <2>3. phase = "discovery"
            BY <2>1, <2>2 DEF Announcing
        <2> QED
            BY <2>1, <2>2, <2>3 DEF ToldEntity
    <1>2. CASE DiscoveryDone
        <2>1. Done /\ announced = Len(DiscoveryTopics) /\ conn' = conn /\ announced' = announced
              /\ phase \in {"online", "discovery"}
            BY <1>2 DEF DiscoveryDone, Returned, Done, allVars, clientVars
        <2>2. CASE phase = "online"
            BY <2>1, <2>2 DEF Announcing
        <2>3. CASE phase = "discovery"
            BY <2>1, <2>3 DEF ToldEntity
        <2> QED
            BY <2>1, <2>2, <2>3
    <1>3. CASE Start \/ Connected \/ ConnectFailed \/ SetupFails \/ PublishFailed
                \/ LoopTop \/ ReceiveNothing \/ ReceiveFails \/ EndOfFile \/ StatePublished
                \/ OfflineDone \/ CloseClient \/ PublishOnline \/ PublishOffline \/ Receive
        BY <1>3
           DEF Start, Connected, ConnectFailed, SetupFails, PublishOnline,
               PublishFailed, LoopTop, ReceiveNothing,
               ReceiveFails, EndOfFile, StatePublished, PublishOffline, OfflineDone,
               CloseClient, Leave, Receive, Publish, Returned, allVars, clientVars, ToldEntity
    <1>4. CASE Exit \/ Panic \/ Kill \/ Restart
        BY <1>4 DEF Exit, Panic, Kill, Die, Restart, ToldEntity
    <1>5. CASE DialOk /\ UNCHANGED processVars
        <2>1. conn' = opened + 1 /\ phase' = phase /\ first' = first
            BY <1>5 DEF DialOk, processVars
        <2>2. phase \in Serving
            BY <2>1 DEF ToldEntity
        <2>3. first <= opened /\ first = opened + 1
            BY <2>1, <2>2, Zenon DEF Booting
        <2> QED
            BY <2>3
    <1>6. CASE (DialFails \/ DialWithoutPassword \/ ConnackOk \/ ConnackFails) /\ UNCHANGED processVars
        BY <1>6
           DEF DialFails, DialWithoutPassword, ConnackOk, ConnackFails, CloseConn, Return,
               processVars, Announcing, ToldEntity, Done
    <1>7. CASE WriterWrites /\ UNCHANGED processVars
        <2>1. conn' = conn
            BY <1>7 DEF WriterWrites
        <2>2. CASE phase = "discovery" /\ i = announced
            BY <1>7, <2>1, <2>2 DEF Announcing
        <2>3. CASE phase # "discovery" \/ i # announced
            BY <1>7, <2>1, <2>3 DEF processVars, ToldEntity
        <2> QED
            BY <2>2, <2>3
    <1>8. CASE (WriteSteps \/ WriterGivesUp \/ StrayWrites) /\ UNCHANGED processVars
        BY <1>8
           DEF WriteSteps, WriteOk, WriteFails, Retry, GiveUp, Return, WriterGivesUp,
               StrayWrites, processVars, Announcing, ToldEntity, Done
    <1>9. CASE Broker \/ Sigterm \/ OfflineTimeout \/ UNCHANGED vars
        BY <1>9
           DEF Broker, Sigterm, OfflineTimeout, vars, allVars, clientVars, processVars, ToldEntity, Done
    <1> QED
        BY <1>1, <1>2, <1>3, <1>4, <1>5, <1>6, <1>7, <1>8, <1>9
           DEF Next, Main, MainStep, ClientStep, ConnectSteps, Goroutine, GoroutineSteps, Stray

\* A message of the topic of an announcement, queued before the end of the
\* capture, says the same.
LEMMA AlikeQueue ==
    ASSUME NEW q, IsQueue(q), OnlineOnly(q), NEW m \in Announcements,
           NEW p \in Packets(q), p.type = "publish", p.msg.topic = m.topic
    PROVE  p.msg.payload = m.payload
    <1>1. IsPacket(p) /\ IsMessage(p.msg) /\ SaysOnline(p.msg)
        BY DEF Packets, IsQueue, IsPacket, OnlineOnly
    <1>2. CASE m = Status("online")
        BY <1>1, <1>2 DEF Status, SaysOnline
    <1>3. ASSUME NEW i \in 1 .. Len(DiscoveryTopics), m = DiscoveryMsg(i) PROVE p.msg.payload = m.payload
        <2>1. /\ m.topic = DiscoveryTopics[i] /\ m.payload = "config"
              /\ DiscoveryTopics[i] \notin {"status", "state"}
            BY <1>3, DiscoveryTopicsAssumption DEF DiscoveryMsg
        <2> QED
            BY <1>1, <2>1 DEF IsMessage
    <1> QED
        BY <1>2, <1>3 DEF Announcements

LEMMA AnnouncementTopic == ASSUME NEW m \in Announcements PROVE m.topic \in Topics
    BY DiscoveryTopicsAssumption DEF Announcements, Status, DiscoveryMsg, Topics

LEMMA BringsServed ==
    ASSUME NetTypeOK, NEW c \in Conns, OnlineOnly(queue[c]), NEW m \in Announcements,
           Brings(c, m), BrokerPublish(c)
    PROVE  Brings(c, m)'
    <1> DEFINE h == Head(queue[c])
    <1>1. queue[c] # <<>> /\ IsQueue(queue[c]) /\ h.type = "publish"
        BY DEF BrokerPublish, Arrived, NetTypeOK
    <1>2. Packets(queue[c]) = {h} \cup Packets(queue'[c])
        BY <1>1, TailPackets DEF BrokerPublish, NetTypeOK
    <1>3. h.msg.topic = m.topic => h.msg.payload = m.payload
        BY <1>1, <1>2, AlikeQueue
    <1>4. retained'[m.topic] = IF m.topic = h.msg.topic THEN h.msg.payload ELSE retained[m.topic]
        BY AnnouncementTopic DEF BrokerPublish, NetTypeOK
    <1>5. UNCHANGED <<server, lost>>
        BY DEF BrokerPublish
    <1> HIDE DEF h
    <1>6. CASE retained[m.topic] = m.payload
        BY <1>3, <1>4, <1>6 DEF Brings
    <1>7. ASSUME NEW p \in Packets(queue[c]), p.type = "publish", p.msg = m PROVE Brings(c, m)'
        <2>1. CASE p = h
            BY <1>3, <1>4, <1>7, <2>1 DEF Brings
        <2>2. CASE p \in Packets(queue'[c])
            BY <1>7, <2>2 DEF Brings, Packets
        <2> QED
            BY <1>2, <1>7, <2>1, <2>2
    <1> QED
        BY <1>5, <1>6, <1>7 DEF Brings

\* The will of another connection fires only when this one is not the session.
LEMMA BringsBroker ==
    ASSUME Sessions, NetTypeOK, BrokerNext, NEW c \in Conns, server[c] # "open",
           OnlineOnly(queue[c]), NEW m \in Announcements, Brings(c, m)
    PROVE  Brings(c, m)'
    <1>1. ASSUME NEW d \in Conns, BrokerConnect(d) PROVE Brings(c, m)'
        <2>1. d # c /\ queue[d] # <<>> /\ Head(queue[d]).type = "connect" /\ IsQueue(queue[d])
            BY <1>1 DEF BrokerConnect, Arrived, NetTypeOK
        <2>2. Head(queue[d]).id = "device"
            BY <2>1, QueueHeadTail DEF IsPacket, Identifiers, ClientID
        <2>3. server'[c] # "session"
            BY <1>1, <2>1, <2>2 DEF BrokerConnect, Sessions
        <2> QED
            BY <2>3 DEF Brings
    <1>2. ASSUME NEW d \in Conns, BrokerPublish(d) PROVE Brings(c, m)'
        <2>1. CASE d = c
            BY <1>2, <2>1, BringsServed
        <2>2. CASE d # c
            BY <1>2, <2>2 DEF BrokerPublish, Sessions, Brings
        <2> QED
            BY <2>1, <2>2
    <1>3. ASSUME NEW d \in Conns, Shut(d), UNCHANGED retained \/ FireWills(Will(d)) PROVE Brings(c, m)'
        <2>1. CASE server[c] # "session"
            BY <1>3, <2>1 DEF Shut, Brings, NetTypeOK
        <2>2. CASE d = c
            BY <1>3, <2>2 DEF Shut, Brings, NetTypeOK
        <2>3. CASE server[c] = "session" /\ d # c
            <3>1. Will(d) = {}
                BY <2>3 DEF Will, Sessions
            <3>2. UNCHANGED retained
                BY <1>3, <3>1 DEF FireWills
            <3> QED
                BY <1>3, <2>3, <3>2 DEF Shut, Brings, Packets, NetTypeOK
        <2> QED
            BY <2>1, <2>2, <2>3
    <1>4. CASE (\E d \in Conns : LoseLink(d)) \/ BrokerStart
        BY <1>4 DEF LoseLink, BrokerStart, netVars, Brings, Packets
    <1>5. CASE BrokerCrash
        BY <1>5 DEF BrokerCrash, Brings
    <1> QED
        BY <1>1, <1>2, <1>3, <1>4, <1>5
           DEF BrokerNext, BrokerServe, BrokerRefuse, BrokerDisconnect, BrokerSeesClose,
               KeepAliveExpires

\* While the client keeps its connection, only the broker and the writes touch it.
LEMMA NetKept ==
    ASSUME [Next]_vars, Latest, conn # None, conn' = conn
    PROVE  \/ Broker \/ WriterWrites \/ StrayWrites
           \/ UNCHANGED <<server, ident, queue, lost, ack, retained, crashes>>
    <1>1. CASE MainStep \/ Receive
        BY <1>1
           DEF MainStep, Start, Connected, ConnectFailed, SetupFails, PublishOnline,
               PublishDiscovery, DiscoveryDone, PublishFailed, LoopTop, ReceiveNothing,
               ReceiveFails, EndOfFile, StatePublished, PublishOffline, OfflineDone,
               CloseClient, CloseConn, Exit, Leave, Publish, Die, Receive, allVars, brokerVars, netVars
    <1>2. CASE Panic \/ Kill \/ Sigterm \/ OfflineTimeout \/ Restart \/ UNCHANGED vars
        BY <1>2
           DEF Panic, Kill, Die, Sigterm, OfflineTimeout, Restart, vars, allVars, brokerVars, netVars
    <1>3. CASE ConnectSteps \/ WriteSteps \/ WriterGivesUp
        BY <1>3
           DEF ConnectSteps, DialOk, DialFails, DialWithoutPassword, ConnackOk, ConnackFails,
               CloseConn, WriteSteps, WriteOk, WriteFails, Retry, GiveUp, WriterGivesUp,
               brokerVars, netVars, Latest
    <1> QED
        BY <1>1, <1>2, <1>3 DEF Next, Main, ClientStep, Goroutine, GoroutineSteps, Stray, Broker

LEMMA FirstKept == ASSUME [Next]_vars, phase' # "boot" PROVE first' = first
    <1>1. CASE MainStep \/ Receive
        BY <1>1
           DEF MainStep, Start, Connected, ConnectFailed, SetupFails, PublishOnline,
               PublishDiscovery, DiscoveryDone, PublishFailed, LoopTop, ReceiveNothing,
               ReceiveFails, EndOfFile, StatePublished, PublishOffline, OfflineDone,
               CloseClient, Exit, Leave, Die, Receive
    <1>2. CASE Panic \/ Kill \/ Restart
        BY <1>2 DEF Panic, Kill, Die, Restart
    <1>3. CASE UNCHANGED first
        BY <1>3
    <1> QED
        BY <1>1, <1>2, <1>3
           DEF Next, Main, ClientStep, Goroutine, Stray, Broker, Sigterm, OfflineTimeout, vars,
               processVars

LEMMA BringsWritten ==
    ASSUME NetTypeOK, WriterWrites, conn \in Conns, NEW m, Brings(conn, m) \/ msg = m
    PROVE  Brings(conn, m)'
    <1>1. conn' = conn /\ UNCHANGED <<server, lost, retained>>
        BY DEF WriterWrites
    <1>2. CASE Deliverable(conn)
        <2>1. IsQueue(queue[conn]) /\ queue'[conn] = Append(queue[conn], PublishPacket(msg))
            BY <1>2 DEF WriterWrites, Enqueue, NetTypeOK
        <2>2. Packets(queue'[conn]) = Packets(queue[conn]) \cup {PublishPacket(msg)}
            BY <2>1, AppendPackets
        <2>3. PublishPacket(msg).type = "publish" /\ PublishPacket(msg).msg = msg
            BY DEF PublishPacket
        <2>4. Packets(queue[conn])' = Packets(queue'[conn])
            BY <1>1 DEF Packets
        <2> QED
            BY <1>1, <2>2, <2>3, <2>4 DEF Brings
    <1>3. CASE ~Deliverable(conn) /\ server[conn] # "session"
        BY <1>1, <1>3 DEF Brings
    <1>4. CASE ~Deliverable(conn) /\ server[conn] = "session"
        BY <1>1, <1>4 DEF Deliverable, Brings
    <1> QED
        BY <1>2, <1>3, <1>4

LEMMA BringsStray ==
    ASSUME NetTypeOK, StrayWrites, conn \in Conns, conn # None, NEW m, Brings(conn, m)
    PROVE  Brings(conn, m)'
    <1>1. conn' = conn /\ UNCHANGED <<server, lost, retained>>
        BY DEF StrayWrites
    <1>2. queue' = Enqueue(conn, PublishPacket(stray)) /\ DOMAIN queue = Conns /\ IsQueue(queue[conn])
        BY DEF StrayWrites, NetTypeOK
    <1>3. Packets(queue[conn]) \subseteq Packets(queue'[conn])
        <2>1. CASE Deliverable(conn)
            <3>1. queue'[conn] = Append(queue[conn], PublishPacket(stray))
                BY <1>2, <2>1 DEF Enqueue
            <3> QED
                BY <1>2, <3>1, AppendPackets
        <2>2. CASE ~Deliverable(conn)
            <3>1. queue'[conn] = queue[conn]
                BY <1>2, <2>2 DEF Enqueue
            <3> QED
                BY <3>1
        <2> QED
            BY <2>1, <2>2
    <1>4. Packets(queue[conn])' = Packets(queue'[conn])
        BY <1>1 DEF Packets
    <1> QED
        BY <1>1, <1>3, <1>4 DEF Brings

\* Announced carries everything that ToldFirst needs from one step to the next.
Announced ==
    Latest /\ Booting /\ Announcing /\ OnlineInHand /\ OnlineSaid /\ ToldFirst

LEMMA ToldFirstStep ==
    ASSUME Announced, Ordering, [Next]_vars PROVE ToldFirst'
    <1> SUFFICES ASSUME conn' \in Conns, conn' # None, conn' = first',
                        NEW m \in Announcements, Told(m)'
                 PROVE  Brings(conn, m)'
        BY DEF ToldFirst
    <1>1. /\ NetTypeOK /\ opened \in Nat /\ first \in Nat /\ announced \in Nat
          /\ Len(DiscoveryTopics) \in Nat
        BY MaxConnsAssumption, DiscoveryTopicsAssumption, LenProperties
           DEF Ordering, TypeInv, LocalOK, ClientTypeOK, ProcessTypeOK
    <1>2. conn' = conn /\ (Told(m) \/ (WriterWrites /\ msg = m))
        <2>1. CASE m = Status("online") /\ ToldOnline'
            BY <1>1, <2>1, ToldOnlineStep DEF Announced, Told
        <2>2. ASSUME NEW i \in 1 .. Len(DiscoveryTopics), m = DiscoveryMsg(i), ToldEntity(i)'
              PROVE  conn' = conn /\ (Told(m) \/ (WriterWrites /\ msg = m))
            <3>1. i \in Nat \ {0} /\ i <= Len(DiscoveryTopics)
                BY <1>1
            <3>2. conn' = conn /\ (ToldEntity(i) \/ (WriterWrites /\ msg = m))
                BY <1>1, <2>2, <3>1, ToldEntityStep DEF Announced
            <3> QED
                BY <2>2, <3>2 DEF Told
        <2> QED
            BY <2>1, <2>2 DEF Told, Status, DiscoveryMsg
    <1>3. CASE WriterWrites /\ msg = m
        BY <1>1, <1>2, <1>3, BringsWritten
    <1>4. CASE Told(m)
        <2>1. phase \in Serving /\ phase' \in Serving
            BY <1>4 DEF Told, ToldOnline, ToldEntity, Serving
        <2>2. conn \in Conns /\ conn # None /\ conn = first
            BY <1>2, <2>1, FirstKept DEF Serving
        <2>3. Brings(conn, m)
            BY <1>4, <2>2 DEF Announced, ToldFirst
        <2>4. OnlineOnly(queue[conn])
            BY <2>1, <2>2 DEF Announced, OnlineSaid, Before
        <2>5. server[conn] # "open"
            BY <2>1, <2>2 DEF Announced, Booting, Ordering, Established, Sessions
        <2>6. Brings(conn, m)'
            <3>1. CASE Broker
                <4>1. \A c \in Conns : c = conn => Brings(c, m)'
                    BY <1>1, <2>3, <2>4, <2>5, <3>1, BringsBroker DEF Broker, Ordering
                <4> QED
                    BY <1>2, <2>2, <4>1 DEF Brings
            <3>2. CASE WriterWrites
                BY <1>1, <2>2, <2>3, <3>2, BringsWritten
            <3>3. CASE StrayWrites
                BY <1>1, <2>2, <2>3, <3>3, BringsStray
            <3>4. CASE UNCHANGED <<server, ident, queue, lost, ack, retained, crashes>>
                BY <1>2, <2>3, <3>4 DEF Brings, Packets
            <3> QED
                BY <1>2, <2>2, <3>1, <3>2, <3>3, <3>4, NetKept DEF Announced
        <2> QED
            BY <2>6
    <1> QED
        BY <1>2, <1>3, <1>4

LEMMA AnnouncedInit == Init => Announced
    BY DEF Init, ClientInit, Announced, Latest, Booting, Announcing, OnlineInHand, OnlineSaid,
           ToldFirst, Serving, Before

LEMMA AnnouncedStep == Announced /\ Ordering /\ [Next]_vars => Announced'
    <1> SUFFICES ASSUME Announced, Ordering, [Next]_vars PROVE Announced'
        OBVIOUS
    <1>1. TypeInv /\ Calling /\ Abandoned /\ ProcessTypeOK /\ Writing
        BY DEF Ordering, TypeInv, LocalOK
    <1>2. Latest' /\ Booting'
        BY <1>1, LatestStep, BootingStep DEF Announced
    <1>3. Announcing' /\ OnlineInHand'
        BY <1>1, AnnouncingStep, OnlineInHandStep DEF Announced
    <1>4. OnlineSaid' /\ ToldFirst'
        BY <1>1, OnlineSaidStep, ToldFirstStep DEF Announced
    <1> QED
        BY <1>2, <1>3, <1>4 DEF Announced

\* On the connection a process started with, the broker shows it online and
\* every entity announced while it captures: the will of a session it took
\* over fires at CONNECT, before anything it says (run, PublishJSON), and from
\* then on it says nothing else on these topics until it is stopped.
THEOREM AnnouncedCorrect == Spec => []AnnouncedOnFirstConnection
    <1>1. Announced /\ Ordering => AnnouncedOnFirstConnection
        <2> SUFFICES ASSUME Announced, Ordering, phase \in {"capture", "receive", "state"},
                            conn = first, Settled(conn)
                     PROVE  /\ retained["status"] = "online"
                            /\ \A i \in DOMAIN DiscoveryTopics : retained[DiscoveryTopics[i]] = "config"
            BY DEF AnnouncedOnFirstConnection
        <2>1. conn \in Conns /\ conn # None /\ Packets(queue[conn]) = {}
            BY EmptyPackets DEF Settled, Ordering, TypeInv, LocalOK, ClientTypeOK
        <2>2. \A m \in Announcements : Told(m) => retained[m.topic] = m.payload
            BY <2>1 DEF Announced, ToldFirst, Brings, Settled
        <2>3. retained["status"] = "online"
            <3>1. Told(Status("online")) /\ Status("online") \in Announcements
                BY DEF Told, ToldOnline, Announcements
            <3> QED
                BY <2>2, <3>1 DEF Status
        <2>4. ASSUME NEW i \in DOMAIN DiscoveryTopics PROVE retained[DiscoveryTopics[i]] = "config"
            <3>1. i \in 1 .. Len(DiscoveryTopics) /\ Len(DiscoveryTopics) \in Nat
                BY DiscoveryTopicsAssumption, LenProperties
            <3>2. ToldEntity(i)
                BY <3>1 DEF ToldEntity, Announced, Announcing
            <3>3. Told(DiscoveryMsg(i)) /\ DiscoveryMsg(i) \in Announcements
                BY <3>1, <3>2 DEF Told, Announcements
            <3> QED
                BY <2>2, <3>3 DEF DiscoveryMsg
        <2> QED
            BY <2>3, <2>4
    <1> QED
        BY <1>1, AnnouncedInit, AnnouncedStep, OrderingInit, OrderingStep, PTL DEF Spec

-----------------------------------------------------------------------------
(* Who speaks, and how a session ends. *)

\* A call that waits for the broker has a connection; from the publish of
\* "online" on, the process has published something.
Speaking ==
    /\ pc \in {"connack", "write"} => conn # None
    /\ phase \in {"online", "discovery", "capture", "receive", "state", "offline"} => attempt # 0
    /\ phase = "offline" => msg = Status("offline")
    /\ phase \in {"close", "exiting", "down"} /\ exit = "ok" => attempt # 0

LEMMA SpeakingStep == Speaking /\ Calling /\ TypeInv /\ [Next]_vars => Speaking'
    <1> SUFFICES ASSUME Speaking, Calling, Writing, ProcessTypeOK, opened \in Nat, [Next]_vars
                 PROVE  Speaking'
        BY MaxConnsAssumption DEF TypeInv, LocalOK, ClientTypeOK
    <1>1. CASE Start \/ Connected \/ ConnectFailed \/ SetupFails \/ DiscoveryDone \/ PublishFailed
                \/ LoopTop \/ ReceiveNothing \/ ReceiveFails \/ EndOfFile \/ StatePublished
                \/ OfflineDone \/ CloseClient
        BY <1>1
           DEF Start, Connected, ConnectFailed, SetupFails, DiscoveryDone, PublishFailed, LoopTop,
               ReceiveNothing, ReceiveFails, EndOfFile, StatePublished, OfflineDone, CloseClient,
               CloseConn, Leave, Returned, allVars, clientVars, Calling, Speaking
    <1>2. CASE PublishOnline \/ PublishDiscovery \/ PublishOffline \/ Receive
        BY <1>2
           DEF PublishOnline, PublishDiscovery, PublishOffline, Receive, Publish, CallPublish, Speaking
    <1>3. CASE Exit \/ Panic \/ Kill \/ Restart
        BY <1>3 DEF Exit, Panic, Kill, Die, Restart, Calling, Speaking
    <1>4. CASE DialOk /\ UNCHANGED processVars
        <2>1. conn' = opened + 1 /\ opened + 1 \in 1 .. MaxConns /\ UNCHANGED <<attempt, msg>>
            BY <1>4, MaxConnsAssumption DEF DialOk
        <2> QED
            BY <1>4, <2>1, NoneAssumption DEF processVars, Speaking, Status
    <1>5. CASE (DialFails \/ DialWithoutPassword \/ ConnackOk \/ ConnackFails) /\ UNCHANGED processVars
        BY <1>5
           DEF DialFails, DialWithoutPassword, ConnackOk, ConnackFails, Return, processVars,
               Speaking, Status
    <1>6. CASE (WriteSteps \/ GoroutineSteps \/ StrayWrites) /\ UNCHANGED processVars
        BY <1>6
           DEF WriteSteps, WriteOk, WriteFails, Retry, GiveUp, Return, GoroutineSteps,
               WriterWrites, WriterGivesUp, StrayWrites, processVars, Speaking, Status
    <1>7. CASE Broker \/ Sigterm \/ OfflineTimeout \/ UNCHANGED vars
        BY <1>7
           DEF Broker, Sigterm, OfflineTimeout, vars, allVars, clientVars, processVars, Speaking, Status
    <1> QED
        BY <1>1, <1>2, <1>3, <1>4, <1>5, <1>6, <1>7
           DEF Next, Main, MainStep, ClientStep, ConnectSteps, Goroutine, Stray

\* Only the connection opened last, once its session was accepted, carries
\* messages; before that, at most one session does.
Mute(q) == \A p \in Packets(q) : p.type # "publish"

OneSpeaker ==
    /\ \A c \in Conns : server[c] # "session" => Mute(queue[c])
    /\ opened \in Conns /\ ack[opened] = "accepted" =>
          \A d \in Conns : d # opened => Mute(queue[d])

LEMMA OwnMute ==
    /\ Mute(<<>>) /\ Mute(<<DisconnectPacket>>)
    /\ \A c \in Conns : Mute(<<ConnectPacket(ClientID(c))>>)
    BY EmptyPackets, OnePacket DEF Mute, DisconnectPacket, ConnectPacket

LEMMA TailMute == ASSUME NEW q, IsQueue(q), q # <<>>, Mute(q) PROVE Mute(Tail(q))
    BY TailPackets DEF Mute

LEMMA SpeakerBroker ==
    ASSUME OneSpeaker, Sessions, NetTypeOK, BrokerNext, opened' = opened PROVE OneSpeaker'
    <1> USE OwnMute
    <1> USE DEF NetTypeOK
    <1>1. ASSUME NEW c \in Conns, BrokerConnect(c) PROVE OneSpeaker'
        <2>1. queue[c] # <<>> /\ Head(queue[c]).type = "connect" /\ IsQueue(queue[c])
            BY <1>1 DEF BrokerConnect, Arrived
        <2>2. Head(queue[c]).id = "device"
            BY <2>1, QueueHeadTail DEF IsPacket, Identifiers, ClientID
        <2>3. Mute(queue[c]) /\ queue'[c] = Tail(queue[c])
            BY <1>1 DEF BrokerConnect, OneSpeaker
        <2>4. Mute(queue'[c])
            BY <2>1, <2>3, TailMute
        <2>5. \A d \in Conns : d # c =>
                  queue'[d] = <<>> \/ (queue'[d] = queue[d] /\ server[d] # "session")
            BY <1>1, <2>2 DEF BrokerConnect, Sessions
        <2>6. \A d \in Conns : Mute(queue'[d])
            BY <2>4, <2>5 DEF OneSpeaker
        <2> QED
            BY <2>6 DEF OneSpeaker, Mute, Packets
    <1>2. ASSUME NEW c \in Conns, BrokerPublish(c) PROVE OneSpeaker'
        <2>1. queue[c] # <<>> /\ IsQueue(queue[c]) /\ queue'[c] = Tail(queue[c])
            BY <1>2 DEF BrokerPublish, Arrived
        <2>2. \A d \in Conns : d # c => queue'[d] = queue[d]
            BY <1>2 DEF BrokerPublish
        <2>3. \A d \in Conns : Mute(queue[d]) => Mute(queue'[d])
            BY <2>1, <2>2, TailMute
        <2>4. UNCHANGED <<server, ack, opened>>
            BY <1>2 DEF BrokerPublish
        <2> QED
            BY <2>3, <2>4 DEF OneSpeaker, Mute, Packets
    <1>3. ASSUME NEW c \in Conns, Shut(c) PROVE OneSpeaker'
        <2>1. \A d \in Conns : \/ queue'[d] = <<>>
                               \/ queue'[d] = queue[d] /\ server'[d] = server[d]
            BY <1>3 DEF Shut
        <2>2. UNCHANGED <<ack, opened>>
            BY <1>3 DEF Shut
        <2> QED
            BY <2>1, <2>2 DEF OneSpeaker, Mute, Packets
    <1>4. CASE BrokerCrash
        <2>1. \A d \in Conns : queue'[d] = <<>>
            BY <1>4 DEF BrokerCrash
        <2> QED
            BY <2>1 DEF OneSpeaker, Mute, Packets
    <1>5. CASE (\E c \in Conns : LoseLink(c)) \/ BrokerStart
        BY <1>5 DEF LoseLink, BrokerStart, netVars, OneSpeaker, Mute, Packets
    <1> QED
        BY <1>1, <1>2, <1>3, <1>4, <1>5
           DEF BrokerNext, BrokerServe, BrokerRefuse, BrokerDisconnect, BrokerSeesClose,
               KeepAliveExpires

\* A step of the process that publishes does so on an accepted session.
LEMMA SpeakerClient ==
    ASSUME OneSpeaker, Ordering, Latest, Speaking, ~Broker, [Next]_vars PROVE OneSpeaker'
    <1>1. /\ NetTypeOK /\ opened \in Nat
          /\ \A c \in Conns : IsQueue(queue[c])
        BY MaxConnsAssumption DEF Ordering, TypeInv, LocalOK, ClientTypeOK, NetTypeOK
    <1>2. \/ (DialOk \/ DialWithoutPassword) /\ opened' = opened + 1 /\ opened + 1 \in Conns
          \/ ~(DialOk \/ DialWithoutPassword) /\ opened' = opened
        <2>1. CASE DialOk \/ DialWithoutPassword
            BY <1>1, <2>1, MaxConnsAssumption DEF DialOk, DialWithoutPassword, Conns
        <2>2. CASE ConnackFails \/ WriterWrites \/ StrayWrites \/ CloseClient
            BY <1>1, <2>2
               DEF ConnackFails, WriterWrites, StrayWrites, CloseClient, DialOk, DialWithoutPassword
        <2> QED
            BY <1>1, <2>1, <2>2, NetSteps DEF DialOk, DialWithoutPassword
    <1>3. /\ ack' = ack
          /\ \A c \in Conns : server[c] = "session" => server'[c] = "session"
        <2>1. CASE DialOk \/ DialWithoutPassword
            <3>1. server[opened + 1] # "session" \/ opened + 1 \notin Conns
                BY <1>1 DEF Ordering, Sessions
            <3> QED
                BY <1>1, <2>1, <3>1 DEF DialOk, DialWithoutPassword, NetTypeOK
        <2>2. CASE ConnackFails \/ WriterWrites \/ StrayWrites \/ CloseClient
            BY <2>2 DEF ConnackFails, WriterWrites, StrayWrites, CloseClient
        <2> QED
            BY <2>1, <2>2, NetSteps
    <1>4. (WriterWrites \/ (StrayWrites /\ conn # None)) /\ conn \in Conns
              => ack[conn] = "accepted" /\ conn = opened
        BY DEF WriterWrites, StrayWrites, Ordering, Abandoned, Established, Latest, Speaking
    <1>5. \A c \in Conns : ack[c] = "accepted" /\ Deliverable(c) => server[c] = "session"
        BY DEF Deliverable, Ordering, Sessions
    <1>6. \A c \in Conns : Mute(queue[c]) =>
              \/ Mute(queue'[c])
              \/ c = opened /\ ack[c] = "accepted" /\ server[c] = "session" /\ opened' = opened
        <2> SUFFICES ASSUME NEW c \in Conns, Mute(queue[c])
                     PROVE  \/ Mute(queue'[c])
                            \/ /\ c = opened /\ ack[c] = "accepted" /\ server[c] = "session"
                               /\ opened' = opened
            OBVIOUS
        <2>1. CASE queue'[c] = queue[c] \/ queue'[c] = <<>>
            BY <2>1, OwnMute
        <2>2. CASE queue[c] # <<>> /\ queue'[c] = Tail(queue[c])
            BY <1>1, <2>2, TailMute
        <2>3. CASE queue'[c] = Append(queue[c], DisconnectPacket)
            BY <1>1, <2>3, AppendPackets DEF Mute, DisconnectPacket
        <2>4. CASE (WriterWrites \/ (StrayWrites /\ conn # None)) /\ c = conn /\ Deliverable(c)
            <3>1. opened' = opened
                BY <2>4 DEF WriterWrites, StrayWrites
            <3> QED
                BY <1>4, <1>5, <2>4, <3>1
        <2>5. CASE queue'[c] = <<ConnectPacket(ClientID(c))>> \/ queue'[c] = <<DisconnectPacket>>
            BY <2>5, OwnMute
        <2> QED
            BY <1>1, <2>1, <2>2, <2>3, <2>4, <2>5, QueueSteps
    <1>7. \A c \in Conns : server'[c] # "session" => Mute(queue'[c])
        BY <1>3, <1>6 DEF OneSpeaker
    <1>8. ASSUME opened' \in Conns, ack[opened'] = "accepted", NEW d \in Conns, d # opened'
          PROVE  Mute(queue'[d])
        <2>1. opened' = opened
            <3>1. opened + 1 \in Conns => ack[opened + 1] = "none"
                BY <1>1 DEF Ordering, Sessions
            <3> QED
                BY <1>2, <1>8, <3>1
        <2> QED
            BY <1>6, <1>8, <2>1 DEF OneSpeaker
    <1> QED
        BY <1>3, <1>7, <1>8 DEF OneSpeaker, Mute, Packets

\* DISCONNECT is the last packet of a connection the client has closed.
NoDisconnect(q) == \A p \in Packets(q) : p.type # "disconnect"

LastOnly(q) == \A i \in 1 .. Len(q) : i < Len(q) => q[i].type # "disconnect"

LastDisconnect ==
    /\ \A c \in Conns : LastOnly(queue[c])
    /\ conn \in Conns /\ conn # None => NoDisconnect(queue[conn])

LEMMA ShortLastOnly == LastOnly(<<>>) /\ \A p : LastOnly(<<p>>)
    <1>1. Len(<<>>) = 0 /\ \A p : Len(<<p>>) = 1
        OBVIOUS
    <1> QED
        BY <1>1 DEF LastOnly

LEMMA AppendLastOnly ==
    ASSUME NEW q, IsQueue(q), NoDisconnect(q), NEW p PROVE LastOnly(Append(q, p))
    <1> DEFINE a == Append(q, p)
    <1>1. Len(q) \in Nat /\ Len(a) = Len(q) + 1 /\ \A i \in 1 .. Len(q) : a[i] = q[i]
        BY AppendIndices
    <1> HIDE DEF a
    <1>2. \A i \in 1 .. Len(a) : i < Len(a) => i \in 1 .. Len(q)
        BY <1>1
    <1>3. LastOnly(a)
        BY <1>1, <1>2 DEF LastOnly, NoDisconnect, Packets
    <1> QED
        BY <1>3 DEF a

LEMMA TailLastOnly ==
    ASSUME NEW q, IsQueue(q), q # <<>>, LastOnly(q)
    PROVE  /\ LastOnly(Tail(q))
           /\ Head(q).type = "disconnect" => Packets(q) = {Head(q)}
    <1> DEFINE a == Tail(q)
    <1>1. /\ Len(q) \in Nat /\ Len(q) > 0 /\ Head(q) = q[1] /\ Len(a) = Len(q) - 1
          /\ \A i \in 1 .. Len(a) : a[i] = q[i + 1]
        BY TailIndices
    <1> HIDE DEF a
    <1>2. \A i \in 1 .. Len(a) : i + 1 \in 1 .. Len(q) /\ (i < Len(a) => i + 1 < Len(q))
        BY <1>1
    <1>3. LastOnly(a)
        BY <1>1, <1>2 DEF LastOnly
    <1>4. ASSUME Head(q).type = "disconnect" PROVE Packets(q) = {Head(q)}
        <2>1. 1 \in 1 .. Len(q) /\ q[1].type = "disconnect"
            BY <1>1, <1>4
        <2>2. ~(1 < Len(q))
            BY <2>1 DEF LastOnly
        <2>3. 1 .. Len(q) = {1}
            BY <1>1, <2>2
        <2> QED
            BY <1>1, <2>3 DEF Packets
    <1> QED
        BY <1>3, <1>4 DEF a

LEMMA LastDisconnectStep ==
    ASSUME LastDisconnect, Latest, TypeInv, [Next]_vars PROVE LastDisconnect'
    <1>1. NetTypeOK /\ opened \in Nat /\ \A c \in Conns : IsQueue(queue[c])
        BY MaxConnsAssumption DEF TypeInv, LocalOK, ClientTypeOK, NetTypeOK
    <1>2. CloseClient \/ WriterWrites \/ StrayWrites => conn' = None \/ conn' = conn
        BY DEF CloseClient, CloseConn, WriterWrites, StrayWrites
    <1>3. ASSUME NEW c \in Conns PROVE LastOnly(queue'[c])
        <2>1. CASE queue'[c] = queue[c] \/ queue'[c] = <<>>
            BY <2>1, ShortLastOnly DEF LastDisconnect
        <2>2. CASE queue[c] # <<>> /\ queue'[c] = Tail(queue[c])
            BY <1>1, <2>2, TailLastOnly DEF LastDisconnect
        <2>3. CASE CloseClient /\ c = conn /\ queue'[c] = Append(queue[c], DisconnectPacket)
            <3>1. CASE conn = None
                BY <2>3, <3>1, ShortLastOnly DEF CloseClient, CloseConn, LastDisconnect
            <3>2. CASE conn # None
                BY <1>1, <2>3, <3>2, AppendLastOnly DEF LastDisconnect
            <3> QED
                BY <3>1, <3>2
        <2>4. CASE /\ WriterWrites \/ (StrayWrites /\ conn # None)
                   /\ c = conn /\ \E p : queue'[c] = Append(queue[c], p)
            <3>1. CASE conn # None
                BY <1>1, <2>4, <3>1, AppendLastOnly DEF LastDisconnect
            <3>2. CASE conn = None
                BY <2>4, <3>2, NoneAssumption DEF Conns
            <3> QED
                BY <3>1, <3>2
        <2>5. CASE queue'[c] = <<ConnectPacket(ClientID(c))>> \/ queue'[c] = <<DisconnectPacket>>
            BY <2>5, ShortLastOnly
        <2> QED
            BY <1>1, <2>1, <2>2, <2>3, <2>4, <2>5, QueueSteps
    <1>4. ASSUME conn' \in Conns, conn' # None PROVE NoDisconnect(queue'[conn'])
        <2>1. CASE DialOk
            <3>1. queue'[conn'] = <<ConnectPacket(ClientID(opened + 1))>>
                BY <1>1, <1>4, <2>1 DEF DialOk, NetTypeOK
            <3> QED
                BY <3>1, OnePacket DEF NoDisconnect, ConnectPacket
        <2>2. CASE ~DialOk
            <3>1. conn' = conn /\ ~CloseClient
                BY <1>4, <2>2, ConnSteps
            <3>2. NoDisconnect(queue[conn]) /\ ~DialWithoutPassword
                BY <1>4, <3>1 DEF LastDisconnect, DialWithoutPassword, Latest
            <3>3. CASE queue'[conn] = queue[conn] \/ queue'[conn] = <<>>
                BY <3>1, <3>2, <3>3, EmptyPackets DEF NoDisconnect
            <3>4. CASE queue[conn] # <<>> /\ queue'[conn] = Tail(queue[conn])
                BY <1>1, <1>4, <3>1, <3>2, <3>4, TailPackets DEF NoDisconnect
            <3>5. CASE \E m : queue'[conn] = Append(queue[conn], PublishPacket(m))
                BY <1>1, <1>4, <3>1, <3>2, <3>5, AppendPackets DEF NoDisconnect, PublishPacket
            <3> QED
                BY <1>1, <1>4, <2>2, <3>1, <3>2, <3>3, <3>4, <3>5, QueueSteps
        <2> QED
            BY <2>1, <2>2
    <1> QED
        BY <1>3, <1>4 DEF LastDisconnect, LastOnly, NoDisconnect, Packets

\* When the session of the connection in use ends, its will is fired, and
\* nothing on another connection is there to contradict it.
EndedOffline ==
    /\ conn \in Conns /\ conn # None /\ ack[conn] = "accepted"
    /\ server[conn] # "session" /\ crashes = 0
    => retained["status"] = "offline"

\* What the broker does to a connection c whose session was accepted, when c is
\* the only one that carries messages: it serves it, or ends it.
LEMMA AcceptedBroker ==
    ASSUME BrokerNext, OneSpeaker, Sessions, NetTypeOK, NEW c \in Conns, c = opened,
           ack[c] = "accepted"
    PROVE  \/ BrokerPublish(c)
           \/ BrokerDisconnect(c)
           \/ crashes' # 0
           \/ /\ server[c] = "session" /\ server'[c] # "session"
              /\ retained'["status"] = "offline" /\ retained'["state"] = retained["state"]
           \/ /\ server'[c] = server[c] /\ queue'[c] = queue[c]
              /\ retained' = retained \/ retained'["status"] = "offline"
              /\ retained'["state"] = retained["state"]
              /\ c \in lost => c \in lost'
    <1> USE DEF NetTypeOK
    <1>1. ASSUME NEW S, FireWills(S), S # {}
          PROVE  retained'["status"] = "offline" /\ retained'["state"] = retained["state"]
        BY <1>1 DEF FireWills, Topics
    <1>2. server[c] # "open"
        BY DEF Sessions
    <1>3. ASSUME NEW d \in Conns, BrokerConnect(d)
          PROVE  \/ /\ server[c] = "session" /\ server'[c] # "session"
                    /\ retained'["status"] = "offline" /\ retained'["state"] = retained["state"]
                 \/ /\ server'[c] = server[c] /\ queue'[c] = queue[c] /\ lost' = lost
                    /\ retained' = retained \/ retained'["status"] = "offline"
                    /\ retained'["state"] = retained["state"]
        <2>1. d # c /\ queue[d] # <<>> /\ Head(queue[d]).type = "connect" /\ IsQueue(queue[d])
            BY <1>2, <1>3 DEF BrokerConnect, Arrived
        <2>2. Head(queue[d]).id = "device"
            BY <2>1, QueueHeadTail DEF IsPacket, Identifiers, ClientID
        <2> DEFINE old == {e \in Conns : server[e] = "session" /\ ident[e] = Head(queue[d]).id}
        <2>3. /\ server'[c] = IF c \in old THEN "closed" ELSE server[c]
              /\ queue'[c] = IF c \in old THEN <<>> ELSE queue[c]
              /\ FireWills(old) /\ lost' = lost
            BY <1>3, <2>1 DEF BrokerConnect
        <2>4. server[c] = "session" <=> c \in old
            BY <2>2 DEF Sessions
        <2> HIDE DEF old
        <2>5. CASE server[c] = "session"
            BY <1>1, <2>3, <2>4, <2>5
        <2>6. CASE server[c] # "session"
            <3>1. CASE old = {}
                BY <2>3, <2>4, <2>6, <3>1 DEF FireWills
            <3>2. CASE old # {}
                BY <1>1, <2>3, <2>4, <2>6, <3>2
            <3> QED
                BY <3>1, <3>2
        <2> QED
            BY <2>5, <2>6
    <1>4. ASSUME NEW d \in Conns, BrokerPublish(d) PROVE d = c
        <2>1. queue[d] # <<>> /\ Head(queue[d]).type = "publish" /\ IsQueue(queue[d])
            BY <1>4 DEF BrokerPublish, Arrived
        <2>2. ~Mute(queue[d])
            BY <2>1, TailPackets DEF Mute
        <2> QED
            BY <2>2 DEF OneSpeaker
    <1>5. ASSUME NEW d \in Conns, d # c, Shut(d), UNCHANGED retained \/ FireWills(Will(d))
          PROVE  /\ server'[c] = server[c] /\ queue'[c] = queue[c] /\ lost' = lost
                 /\ retained' = retained \/ retained'["status"] = "offline"
                 /\ retained'["state"] = retained["state"]
        <2>1. server'[c] = server[c] /\ queue'[c] = queue[c] /\ lost' = lost
            BY <1>5 DEF Shut
        <2>2. retained' = retained \/ (FireWills(Will(d)) /\ Will(d) # {})
            BY <1>5 DEF FireWills
        <2> QED
            BY <1>1, <2>1, <2>2
    <1>6. ASSUME BrokerSeesClose(c) \/ KeepAliveExpires(c)
          PROVE  /\ server[c] = "session" /\ server'[c] # "session"
                 /\ retained'["status"] = "offline" /\ retained'["state"] = retained["state"]
        <2>1. /\ server[c] = "session" /\ server'[c] = "closed" /\ FireWills(Will(c))
            BY <1>2, <1>6 DEF BrokerSeesClose, KeepAliveExpires, Shut
        <2>2. Will(c) # {}
            BY <2>1 DEF Will
        <2> QED
            BY <1>1, <2>1, <2>2
    <1>7. ~BrokerRefuse(c)
        BY <1>2 DEF BrokerRefuse
    <1>8. ASSUME NEW d \in Conns, LoseLink(d)
          PROVE  server'[c] = server[c] /\ queue'[c] = queue[c] /\ retained' = retained
                 /\ (c \in lost => c \in lost')
        BY <1>8 DEF LoseLink
    <1>9. ASSUME BrokerStart PROVE UNCHANGED <<server, queue, retained, lost>>
        BY <1>9 DEF BrokerStart, netVars
    <1>10. ASSUME BrokerCrash PROVE crashes' = 1
        BY <1>10 DEF BrokerCrash
    <1>11. CASE \E d \in Conns : d # c /\ (BrokerRefuse(d) \/ BrokerDisconnect(d) \/ BrokerSeesClose(d)
                                             \/ KeepAliveExpires(d))
        BY <1>5, <1>11 DEF BrokerRefuse, BrokerDisconnect, BrokerSeesClose, KeepAliveExpires
    <1>12. CASE BrokerRefuse(c) \/ BrokerDisconnect(c) \/ BrokerSeesClose(c) \/ KeepAliveExpires(c)
        BY <1>6, <1>7, <1>12
    <1>13. CASE \E d \in Conns : BrokerConnect(d)
        BY <1>3, <1>13
    <1>14. CASE (\E d \in Conns : BrokerPublish(d) \/ LoseLink(d)) \/ BrokerCrash \/ BrokerStart
        BY <1>4, <1>8, <1>9, <1>10, <1>14
    <1> QED
        BY <1>11, <1>12, <1>13, <1>14 DEF BrokerNext, BrokerServe

LEMMA CrashesGrow ==
    ASSUME [Next]_vars, crashes \in {0, 1}, crashes' = 0 PROVE crashes = 0
    <1>1. CASE MainStep \/ Receive
        BY <1>1
           DEF MainStep, Start, Connected, ConnectFailed, SetupFails, PublishOnline,
               PublishDiscovery, DiscoveryDone, PublishFailed, LoopTop, ReceiveNothing,
               ReceiveFails, EndOfFile, StatePublished, PublishOffline, OfflineDone,
               CloseClient, Exit, Leave, Publish, Die, Receive, allVars, brokerVars
    <1>2. CASE Panic \/ Kill \/ Sigterm \/ OfflineTimeout \/ Restart \/ UNCHANGED vars
        BY <1>2
           DEF Panic, Kill, Die, Sigterm, OfflineTimeout, Restart, vars, allVars, brokerVars
    <1>3. CASE ConnectSteps \/ WriteSteps \/ GoroutineSteps \/ StrayWrites
        BY <1>3
           DEF ConnectSteps, DialOk, DialFails, DialWithoutPassword, ConnackOk, ConnackFails,
               WriteSteps, WriteOk, WriteFails, GoroutineSteps, WriterWrites, WriterGivesUp,
               StrayWrites, brokerVars
    <1>4. CASE BrokerNext
        BY <1>4
           DEF BrokerNext, BrokerServe, BrokerConnect, BrokerRefuse, BrokerPublish,
               BrokerDisconnect, BrokerSeesClose, KeepAliveExpires, LoseLink, BrokerCrash,
               BrokerStart, Shut
    <1> QED
        BY <1>1, <1>2, <1>3, <1>4 DEF Next, Main, ClientStep, Goroutine, Stray, Broker

LEMMA EndedOfflineStep ==
    ASSUME EndedOffline, OneSpeaker, LastDisconnect, Latest, Ordering, [Next]_vars
    PROVE  EndedOffline'
    <1> SUFFICES ASSUME conn' \in Conns, conn' # None, ack'[conn'] = "accepted",
                        server'[conn'] # "session", crashes' = 0
                 PROVE  retained'["status"] = "offline"
        BY DEF EndedOffline
    <1>1. /\ NetTypeOK /\ opened \in Nat /\ Sessions /\ crashes = 0
          /\ \A c \in Conns : IsQueue(queue[c])
        BY MaxConnsAssumption, CrashesGrow DEF Ordering, TypeInv, LocalOK, ClientTypeOK, NetTypeOK
    <1>2. CASE DialOk
        BY <1>1, <1>2 DEF DialOk, Sessions
    <1>3. CASE ~DialOk
        <2>1. conn' = conn /\ conn = opened
            BY <1>3, ConnSteps DEF Latest
        <2>2. CASE Broker
            <3>1. ack[conn] = "accepted"
                <4>1. CASE BrokerConnect(conn)
                    BY <1>1, <2>1, <4>1 DEF BrokerConnect
                <4>2. CASE ~BrokerConnect(conn)
                    <5>1. ASSUME NEW d \in Conns, d # conn, BrokerConnect(d) PROVE ack'[conn] = ack[conn]
                        BY <1>1, <2>1, <5>1 DEF BrokerConnect, NetTypeOK
                    <5>2. CASE ack' = ack
                        BY <2>1, <5>2
                    <5>3. ack' = ack \/ \E d \in Conns : BrokerConnect(d)
                        BY <2>2
                           DEF Broker, BrokerNext, BrokerServe, BrokerRefuse, BrokerPublish,
                               BrokerDisconnect, BrokerSeesClose, KeepAliveExpires, LoseLink,
                               BrokerCrash, BrokerStart, Shut, netVars
                    <5> QED
                        BY <2>1, <4>2, <5>1, <5>2, <5>3
                <4> QED
                    BY <4>1, <4>2
            <3>2. ~BrokerPublish(conn)
                BY <2>1 DEF BrokerPublish
            <3>3. ~BrokerDisconnect(conn)
                <4>1. queue[conn] # <<>> => Head(queue[conn]) \in Packets(queue[conn])
                    BY <1>1, <2>1, TailPackets
                <4> QED
                    BY <2>1, <4>1 DEF BrokerDisconnect, Arrived, LastDisconnect, NoDisconnect
            <3>4. \/ retained'["status"] = "offline"
                  \/ server'[conn] = server[conn] /\ retained' = retained
                BY <1>1, <2>1, <2>2, <3>1, <3>2, <3>3, AcceptedBroker DEF Broker
            <3> QED
                BY <1>1, <2>1, <3>1, <3>4 DEF EndedOffline
        <2>3. CASE WriterWrites \/ StrayWrites
            BY <1>1, <2>1, <2>3 DEF WriterWrites, StrayWrites, EndedOffline
        <2>4. CASE UNCHANGED <<server, ident, queue, lost, ack, retained, crashes>>
            BY <1>1, <2>1, <2>4 DEF EndedOffline
        <2> QED
            BY <2>1, <2>2, <2>3, <2>4, NetKept
    <1> QED
        BY <1>2, <1>3

-----------------------------------------------------------------------------
(* The last state of a replay. *)

\* The newest state was written, and nothing was published after it.
StateDone ==
    /\ attempt # 0 /\ msg.topic = "state"
    /\ \/ phase = "state" /\ Done
       \/ phase \in {"capture", "receive"}
       \/ phase \in {"close", "exiting", "down"} /\ exit = "ok"

\* It is at the broker, or on its way on the session of the connection opened
\* last, or that session ended and shows the process offline.
StateEnds ==
    StateDone /\ crashes = 0 =>
        /\ opened \in Conns /\ ack[opened] = "accepted"
        /\ \/ retained["state"] = version
           \/ server[opened] = "session" /\ (opened \in lost \/ Holds(queue[opened]))
           \/ server[opened] # "session" /\ retained["status"] = "offline"

LEMMA StateDoneMain ==
    ASSUME Announcing, Speaking, Calling, ProcessTypeOK, MainStep \/ Receive, StateDone'
    PROVE  /\ StateDone /\ UNCHANGED <<version, opened, server, lost, ack, retained>>
           /\ UNCHANGED queue \/ CloseClient
    <1>1. CASE Start \/ Connected \/ ConnectFailed \/ SetupFails \/ PublishFailed
                \/ PublishOnline \/ PublishDiscovery \/ PublishOffline \/ Receive
        BY <1>1
           DEF Start, Connected, ConnectFailed, SetupFails, PublishFailed, Leave, PublishOnline,
               PublishDiscovery, PublishOffline, Receive, Publish, CallPublish, StateDone, Done
    <1>2. CASE DiscoveryDone
        <2>1. msg' = msg /\ phase \in {"online", "discovery"}
            BY <1>2 DEF DiscoveryDone, allVars, clientVars
        <2>2. msg.topic # "state"
            BY <2>1, DiscoveryTopicsAssumption, LenProperties DEF Announcing, Status, DiscoveryMsg
        <2> QED
            BY <2>1, <2>2 DEF StateDone
    <1>3. CASE OfflineDone
        BY <1>3 DEF OfflineDone, Leave, allVars, clientVars, Speaking, Status, StateDone
    <1>4. CASE LoopTop \/ ReceiveNothing \/ ReceiveFails \/ EndOfFile \/ StatePublished
        BY <1>4
           DEF LoopTop, ReceiveNothing, ReceiveFails, EndOfFile, StatePublished, Leave, Returned,
               allVars, brokerVars, netVars, clientVars, StateDone, Done
    <1>5. CASE CloseClient \/ Exit
        BY <1>5 DEF CloseClient, Exit, Die, StateDone
    <1> QED
        BY <1>1, <1>2, <1>3, <1>4, <1>5 DEF MainStep

LEMMA StateDoneClient ==
    ASSUME Calling, ConnectSteps \/ WriteSteps \/ GoroutineSteps \/ StrayWrites,
           UNCHANGED processVars, StateDone'
    PROVE  \/ WriterWrites /\ phase = "state" /\ UNCHANGED version
           \/ /\ StateDone /\ UNCHANGED <<version, opened, server, lost, ack, retained>>
              /\ UNCHANGED queue \/ StrayWrites
    <1>1. CASE WriterWrites
        BY <1>1 DEF WriterWrites, Calling, processVars, StateDone
    <1>2. CASE StrayWrites
        BY <1>2 DEF StrayWrites, processVars, StateDone, Done
    <1>3. CASE WriterGivesUp \/ WriteOk
        BY <1>3
           DEF WriterGivesUp, WriteOk, Return, brokerVars, netVars, processVars, Calling, StateDone, Done
    <1>4. CASE WriteFails
        BY <1>4 DEF WriteFails, Retry, GiveUp, Return, processVars, Calling, StateDone, Done
    <1>5. CASE DialOk \/ DialFails \/ DialWithoutPassword \/ ConnackFails
        BY <1>5
           DEF DialOk, DialFails, DialWithoutPassword, ConnackFails, Return, processVars,
               Calling, StateDone, Done
    <1>6. CASE ConnackOk
        BY <1>6 DEF ConnackOk, Return, processVars, Calling, StateDone, Done
    <1> QED
        BY <1>1, <1>2, <1>3, <1>4, <1>5, <1>6 DEF ConnectSteps, WriteSteps, GoroutineSteps

LEMMA StateDoneStep ==
    ASSUME Announcing, Speaking, Calling, ProcessTypeOK, [Next]_vars, StateDone'
    PROVE  \/ WriterWrites /\ phase = "state" /\ UNCHANGED version
           \/ StateDone /\ Broker /\ UNCHANGED <<version, opened>>
           \/ /\ StateDone /\ UNCHANGED <<version, opened, server, lost, ack, retained>>
              /\ UNCHANGED queue \/ CloseClient \/ StrayWrites
    <1>1. CASE MainStep \/ Receive
        BY <1>1, StateDoneMain
    <1>2. CASE (ConnectSteps \/ WriteSteps \/ GoroutineSteps \/ StrayWrites) /\ UNCHANGED processVars
        BY <1>2, StateDoneClient
    <1>3. CASE Panic \/ Kill \/ Restart
        BY <1>3 DEF Panic, Kill, Die, Restart, StateDone, Done
    <1>4. CASE Broker
        BY <1>4 DEF Broker, clientVars, processVars, StateDone, Done
    <1>5. CASE Sigterm \/ OfflineTimeout \/ UNCHANGED vars
        BY <1>5
           DEF Sigterm, OfflineTimeout, vars, allVars, brokerVars, netVars, clientVars, processVars,
               StateDone, Done
    <1> QED
        BY <1>1, <1>2, <1>3, <1>4, <1>5 DEF Next, Main, ClientStep, Goroutine, Stray

LEMMA HoldsPackets ==
    ASSUME NEW q PROVE Holds(q) <=> \E p \in Packets(q) : CarriesState(p) /\ p.msg.payload = version
    BY DEF Holds, Packets

LEMMA HoldsAppend ==
    ASSUME NEW q, IsQueue(q), Holds(q), NEW p PROVE Holds(Append(q, p))
    <1>1. PICK r \in Packets(q) : CarriesState(r) /\ r.msg.payload = version
        BY HoldsPackets
    <1>2. r \in Packets(Append(q, p))
        BY AppendPackets
    <1> QED
        BY <1>1, <1>2, HoldsPackets

LEMMA HoldsEnqueue ==
    ASSUME NetTypeOK, NEW c \in Conns, Holds(queue[c]), NEW d, NEW p
    PROVE  Holds(Enqueue(d, p)[c])
    <1>1. DOMAIN queue = Conns /\ IsQueue(queue[c]) /\ Holds(Append(queue[c], p))
        BY HoldsAppend DEF NetTypeOK
    <1>2. CASE c = d
        BY <1>1, <1>2, Deliverable(d) \/ ~Deliverable(d) DEF Enqueue
    <1>3. CASE c # d
        BY <1>1, <1>3 DEF Enqueue
    <1> QED
        BY <1>2, <1>3

LEMMA AckKept ==
    ASSUME BrokerNext, NetTypeOK, NEW c \in Conns, ack[c] = "accepted" PROVE ack'[c] = "accepted"
    BY DEF BrokerNext, BrokerServe, BrokerConnect, BrokerRefuse, BrokerPublish, BrokerDisconnect,
           BrokerSeesClose, KeepAliveExpires, LoseLink, BrokerCrash, BrokerStart, Shut, netVars,
           NetTypeOK

Ends(c) ==
    \/ retained["state"] = version
    \/ server[c] = "session" /\ (c \in lost \/ Holds(queue[c]))
    \/ server[c] # "session" /\ retained["status"] = "offline"

LEMMA EndsWritten ==
    ASSUME Ordering, EndedOffline, Publishing, WriterWrites, UNCHANGED version, phase = "state",
           crashes = 0, NEW c \in Conns, c = conn, c # None
    PROVE  ack[c] = "accepted" /\ Ends(c)'
    <1> DEFINE p == PublishPacket(msg)
    <1>1. /\ IsQueue(queue[c]) /\ DOMAIN queue = Conns
          /\ UNCHANGED <<server, lost, retained>>
        BY DEF WriterWrites, Ordering, TypeInv, LocalOK, NetTypeOK
    <1>2. ack[c] = "accepted" /\ server[c] # "open"
        BY DEF WriterWrites, Ordering, Established, Sessions
    <1>3. CarriesState(p) /\ p.msg.payload = version
        BY DEF Publishing, CarriesState, PublishPacket, State
    <1> HIDE DEF p
    <1>4. CASE Deliverable(c)
        <2>1. queue'[c] = Append(queue[c], p)
            BY <1>1, <1>4 DEF WriterWrites, Enqueue, p
        <2>2. \E r \in Packets(queue'[c]) : CarriesState(r) /\ r.msg.payload = version
            BY <1>1, <1>3, <2>1, AppendPackets
        <2>3. \E i \in 1 .. Len(queue'[c]) : CarriesState(queue'[c][i]) /\ queue'[c][i].msg.payload = version
            BY <2>2 DEF Packets
        <2>4. server[c] = "session"
            BY <1>2, <1>4 DEF Deliverable
        <2> QED
            BY <1>1, <1>2, <2>3, <2>4 DEF Ends, Holds
    <1>5. CASE ~Deliverable(c) /\ server[c] = "session"
        BY <1>1, <1>2, <1>5 DEF Deliverable, Ends
    <1>6. CASE server[c] # "session"
        BY <1>1, <1>2, <1>6 DEF EndedOffline, Ends
    <1> QED
        BY <1>4, <1>5, <1>6

LEMMA EndsBroker ==
    ASSUME Ordering, OneSpeaker, LastDisconnect, BrokerNext, UNCHANGED version, crashes' = 0,
           NEW c \in Conns, c = opened, ack[c] = "accepted", Ends(c)
    PROVE  Ends(c)'
    <1>1. NetTypeOK /\ Sessions /\ IsQueue(queue[c]) /\ server[c] # "open"
        BY DEF Ordering, TypeInv, LocalOK, NetTypeOK, Sessions
    <1>2. CASE BrokerPublish(c)
        <2>1. server[c] = "session" /\ server' = server
            BY <1>2 DEF BrokerPublish
        <2>2. Reaches(c)
            BY <2>1 DEF Ends, Reaches
        <2>3. Reaches(c)'
            BY <1>2, <2>2, ReachesServed
        <2> QED
            BY <2>1, <2>3 DEF Ends, Reaches
    <1>3. CASE BrokerDisconnect(c)
        <2>1. /\ queue[c] # <<>> /\ Head(queue[c]).type = "disconnect" /\ c \notin lost
              /\ server[c] = "session" /\ retained' = retained
            BY <1>1, <1>3 DEF BrokerDisconnect, Arrived
        <2>2. Packets(queue[c]) = {Head(queue[c])}
            BY <1>1, <2>1, TailLastOnly DEF LastDisconnect
        <2>3. ~Holds(queue[c])
            BY <2>1, <2>2, HoldsPackets DEF CarriesState
        <2> QED
            BY <2>1, <2>3 DEF Ends
    <1>4. CASE server'[c] # "session" /\ retained'["status"] = "offline"
        BY <1>4 DEF Ends
    <1>5. CASE /\ server'[c] = server[c] /\ queue'[c] = queue[c]
               /\ retained' = retained \/ retained'["status"] = "offline"
               /\ retained'["state"] = retained["state"]
               /\ c \in lost => c \in lost'
        BY <1>5 DEF Ends, Holds
    <1> QED
        BY <1>1, <1>2, <1>3, <1>4, <1>5, AcceptedBroker

LEMMA EndsKept ==
    ASSUME NetTypeOK, UNCHANGED <<version, server, lost, retained>>,
           UNCHANGED queue \/ CloseClient \/ StrayWrites, NEW c \in Conns, Ends(c)
    PROVE  Ends(c)'
    <1>1. UNCHANGED queue \/ \E d : \E p : queue' = Enqueue(d, p)
        BY DEF CloseClient, CloseConn, StrayWrites
    <1>2. Holds(queue[c]) => Holds(queue'[c])
        BY <1>1, HoldsEnqueue
    <1> QED
        BY <1>2 DEF Ends, Holds

LEMMA StateEndsStep ==
    ASSUME StateEnds, EndedOffline, OneSpeaker, LastDisconnect, Latest, Announcing, Speaking,
           Publishing, Ordering, [Next]_vars
    PROVE  StateEnds'
    <1> SUFFICES ASSUME StateDone', crashes' = 0
                 PROVE  opened' \in Conns /\ ack'[opened'] = "accepted" /\ Ends(opened)'
        BY DEF StateEnds, Ends
    <1>1. NetTypeOK /\ ProcessTypeOK /\ Calling /\ conn \in Conns \cup {None} /\ crashes = 0
        BY CrashesGrow DEF Ordering, TypeInv, LocalOK, ClientTypeOK, NetTypeOK
    <1>2. StateDone => opened \in Conns /\ ack[opened] = "accepted" /\ Ends(opened)
        BY <1>1 DEF StateEnds, Ends
    <1>3. CASE WriterWrites /\ phase = "state" /\ UNCHANGED version
        <2>1. /\ conn \in Conns /\ conn # None /\ conn = opened
              /\ UNCHANGED <<opened, ack>>
            BY <1>1, <1>3 DEF WriterWrites, Speaking, Latest
        <2>2. \A c \in Conns : c = conn => ack[c] = "accepted" /\ Ends(c)'
            BY <1>1, <1>3, <2>1, EndsWritten
        <2> QED
            BY <2>1, <2>2 DEF Ends
    <1>4. CASE StateDone /\ Broker /\ UNCHANGED <<version, opened>>
        <2>1. \A c \in Conns : c = opened => ack'[c] = "accepted" /\ Ends(c)'
            BY <1>1, <1>2, <1>4, EndsBroker, AckKept DEF Broker
        <2> QED
            BY <1>2, <1>4, <2>1 DEF Ends
    <1>5. CASE /\ StateDone /\ UNCHANGED <<version, opened, server, lost, ack, retained>>
               /\ UNCHANGED queue \/ CloseClient \/ StrayWrites
        <2>1. \A c \in Conns : c = opened => Ends(c)'
            BY <1>1, <1>2, <1>5, EndsKept
        <2> QED
            BY <1>2, <1>5, <2>1 DEF Ends
    <1> QED
        BY <1>1, <1>3, <1>4, <1>5, StateDoneStep

\* What a replay needs from one step to the next.
Replaying ==
    Latest /\ Announcing /\ Speaking /\ Publishing /\ OneSpeaker /\ LastDisconnect
    /\ EndedOffline /\ StateEnds

LEMMA ReplayingInit == Init => Replaying
    <1> SUFFICES ASSUME Init PROVE Replaying
        OBVIOUS
    <1>1. Latest /\ Announcing /\ Speaking /\ Publishing /\ EndedOffline /\ StateEnds
        BY DEF Init, ClientInit, Latest, Announcing, Speaking, Publishing, EndedOffline, StateEnds,
               StateDone
    <1>2. \A c \in Conns : queue[c] = <<>>
        BY DEF Init, BrokerInit
    <1>3. OneSpeaker
        BY <1>2, OwnMute DEF OneSpeaker
    <1>4. LastDisconnect
        BY <1>2, ShortLastOnly, EmptyPackets DEF LastDisconnect, NoDisconnect
    <1> QED
        BY <1>1, <1>3, <1>4 DEF Replaying

LEMMA ReplayingStep == Replaying /\ Ordering /\ [Next]_vars => Replaying'
    <1> SUFFICES ASSUME Replaying, Ordering, [Next]_vars PROVE Replaying'
        OBVIOUS
    <1>1. TypeInv /\ NetTypeOK /\ Calling /\ ProcessTypeOK /\ Sessions
        BY DEF Ordering, TypeInv, LocalOK
    <1>2. Latest' /\ Announcing' /\ Speaking' /\ Publishing'
        BY <1>1, LatestStep, AnnouncingStep, SpeakingStep, PublishingStep DEF Replaying
    <1>3. OneSpeaker'
        <2>1. CASE Broker
            BY <1>1, <2>1, SpeakerBroker DEF Replaying, Broker, clientVars
        <2>2. CASE ~Broker
            BY <2>2, SpeakerClient DEF Replaying
        <2> QED
            BY <2>1, <2>2
    <1>4. LastDisconnect' /\ EndedOffline'
        BY <1>1, LastDisconnectStep, EndedOfflineStep DEF Replaying
    <1>5. StateEnds'
        BY StateEndsStep DEF Replaying
    <1> QED
        BY <1>2, <1>3, <1>4, <1>5 DEF Replaying

\* A replay that ended well and was not shown offline has left its last state at
\* the broker: Close writes DISCONNECT after the last publish and on the same
\* connection (closeConnection), and a session that ends in any other way shows
\* the process offline.
THEOREM ReplayCorrect == Spec => []FileReplayComplete
    <1>1. Replaying /\ Ordering => FileReplayComplete
        <2> SUFFICES ASSUME Replaying, Ordering, phase = "down", exit = "ok", msg.topic = "state",
                            \A c \in Conns : server[c] \in {"none", "closed"},
                            retained["status"] = "online", crashes = 0
                     PROVE  retained["state"] = version
            BY DEF FileReplayComplete
        <2>1. StateDone
            BY DEF StateDone, Replaying, Speaking
        <2> QED
            BY <2>1 DEF Replaying, StateEnds
    <1> QED
        BY <1>1, ReplayingInit, ReplayingStep, OrderingInit, OrderingStep, PTL DEF Spec

=============================================================================
