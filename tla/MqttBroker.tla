------------------------------ MODULE MqttBroker ------------------------------
(***************************************************************************)
(* The network between the bridge and the MQTT broker, and the broker, as  *)
(* far as src/internal/mqtt/client.go depends on them.  Neither is part of *)
(* the repository: they are modelled from how the client uses them (MQTT   *)
(* 3.1.1, clean sessions, QoS 0, retained messages, a retained Last Will). *)
(*                                                                         *)
(* Every TCP connection the process ever opens is a number.  Packets on a  *)
(* connection arrive in order; a connection may be lost silently.          *)
(***************************************************************************)
EXTENDS Integers, Sequences

CONSTANTS
    MaxConns,        \* bound: connections opened in a behaviour
    DiscoveryTopics, \* sequence of the Home Assistant discovery topics
    MaxVersion,      \* bound: state messages the dongle sends
    BrokerMayCrash,  \* whether the broker may restart
    None

ASSUME MaxConnsAssumption == MaxConns \in Nat
ASSUME NoneAssumption == None \notin 1 .. MaxConns
ASSUME MaxVersionAssumption == MaxVersion \in Nat
ASSUME DiscoveryTopicsAssumption ==
    /\ DiscoveryTopics \in Seq(STRING)
    /\ \A i \in DOMAIN DiscoveryTopics : DiscoveryTopics[i] \notin {"status", "state"}

VARIABLES
    client,     \* client end of a connection: none, open, closed
    server,     \* broker end: none, open, session, closed
    ident,      \* client identifier of the session on a connection
    queue,      \* packets on their way to the broker
    lost,       \* connections whose packets no longer pass, unnoticed
    ack,        \* the CONNACK sent on a connection
    retained,   \* the broker's retained message per topic
    brokerUp, crashes

netVars == <<client, server, ident, queue, lost, ack>>
brokerVars == <<netVars, retained, brokerUp, crashes>>

Conns == 1 .. MaxConns
Topics == {"status", "state"} \cup {DiscoveryTopics[i] : i \in DOMAIN DiscoveryTopics}

ConnectPacket(id) == [type |-> "connect", id |-> id]
DisconnectPacket == [type |-> "disconnect"]
PublishPacket(m) == [type |-> "publish", msg |-> m]

BrokerInit ==
    /\ client = [c \in Conns |-> "none"]
    /\ server = [c \in Conns |-> "none"]
    /\ ident = [c \in Conns |-> None]
    /\ queue = [c \in Conns |-> <<>>]
    /\ lost = {}
    /\ ack = [c \in Conns |-> "none"]
    /\ retained = [t \in Topics |-> IF t = "state" THEN 0 ELSE "none"]
    /\ brokerUp = TRUE
    /\ crashes = 0

\* The Last Will of the sessions S is published: retained "offline".
FireWills(S) ==
    retained' = IF S = {} THEN retained ELSE [retained EXCEPT !["status"] = "offline"]

Arrived(c, type) ==
    /\ brokerUp /\ c \notin lost
    /\ queue[c] # <<>> /\ Head(queue[c]).type = type

\* CONNECT opens a session and takes over one of the same client identifier,
\* which ends without a DISCONNECT.
BrokerConnect(c) ==
    /\ Arrived(c, "connect") /\ server[c] = "open"
    /\ LET old == {d \in Conns : server[d] = "session" /\ ident[d] = Head(queue[c]).id}
       IN  /\ server' = [d \in Conns |-> IF d = c THEN "session"
                                         ELSE IF d \in old THEN "closed" ELSE server[d]]
           /\ queue' = [d \in Conns |-> IF d = c THEN Tail(queue[c])
                                        ELSE IF d \in old THEN <<>> ELSE queue[d]]
           /\ FireWills(old)
    /\ ident' = [ident EXCEPT ![c] = Head(queue[c]).id]
    /\ ack' = [ack EXCEPT ![c] = "accepted"]
    /\ UNCHANGED <<client, lost, brokerUp, crashes>>

BrokerPublish(c) ==
    /\ Arrived(c, "publish") /\ server[c] = "session"
    /\ retained' = [retained EXCEPT ![Head(queue[c]).msg.topic] = Head(queue[c]).msg.payload]
    /\ queue' = [queue EXCEPT ![c] = Tail(@)]
    /\ UNCHANGED <<client, server, ident, lost, ack, brokerUp, crashes>>

\* The broker's end of c is closed; the packets on their way are dropped.
Shut(c) ==
    /\ server' = [server EXCEPT ![c] = "closed"]
    /\ queue' = [queue EXCEPT ![c] = <<>>]
    /\ UNCHANGED <<client, ident, lost, ack, brokerUp, crashes>>

Will(c) == {d \in {c} : server[d] = "session"}

\* DISCONNECT ends the session and discards its will.
BrokerDisconnect(c) ==
    /\ Arrived(c, "disconnect") /\ server[c] \in {"open", "session"}
    /\ Shut(c)
    /\ UNCHANGED retained

\* The client closed the connection and everything it wrote was read.
BrokerSeesClose(c) ==
    /\ brokerUp /\ c \notin lost
    /\ client[c] = "closed" /\ server[c] \in {"open", "session"} /\ queue[c] = <<>>
    /\ Shut(c)
    /\ FireWills(Will(c))

\* Nothing arrived for one and a half keep-alive periods; the client sends
\* no PINGREQ, so a quiet healthy connection expires as well.
KeepAliveExpires(c) ==
    /\ brokerUp
    /\ server[c] \in {"open", "session"} /\ (queue[c] = <<>> \/ c \in lost)
    /\ Shut(c)
    /\ FireWills(Will(c))

\* The broker answers CONNECT with a refusal.
BrokerRefuse(c) ==
    /\ Arrived(c, "connect") /\ server[c] = "open"
    /\ Shut(c)
    /\ UNCHANGED retained

\* The broker restarts: its connections end, retained messages survive, and
\* the wills of its sessions may or may not be published.
BrokerCrash ==
    /\ BrokerMayCrash /\ brokerUp /\ crashes = 0
    /\ brokerUp' = FALSE
    /\ crashes' = 1
    /\ server' = [c \in Conns |-> IF server[c] = "none" THEN "none" ELSE "closed"]
    /\ queue' = [c \in Conns |-> <<>>]
    /\ \E S \in SUBSET {c \in Conns : server[c] = "session"} : FireWills(S)
    /\ UNCHANGED <<client, ident, lost, ack>>

BrokerStart ==
    /\ ~brokerUp
    /\ brokerUp' = TRUE
    /\ UNCHANGED <<netVars, retained, crashes>>

\* A connection silently stops carrying packets.
LoseLink(c) ==
    /\ client[c] = "open" /\ server[c] \in {"open", "session"} /\ c \notin lost
    /\ lost' = lost \cup {c}
    /\ UNCHANGED <<client, server, ident, queue, ack, retained, brokerUp, crashes>>

\* What the broker does of its own accord in the end: it serves what arrives
\* and gives up connections that are dead.
BrokerServe(c) ==
    \/ BrokerConnect(c) \/ BrokerRefuse(c) \/ BrokerPublish(c)
    \/ BrokerDisconnect(c) \/ BrokerSeesClose(c)
    \/ c \in lost /\ KeepAliveExpires(c)

BrokerNext ==
    \/ \E c \in Conns : BrokerServe(c) \/ KeepAliveExpires(c) \/ LoseLink(c)
    \/ BrokerCrash \/ BrokerStart
=============================================================================
