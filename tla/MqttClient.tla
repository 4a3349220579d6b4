------------------------------ MODULE MqttClient ------------------------------
(***************************************************************************)
(* src/internal/mqtt/client.go: Connect, PublishJSON, writePacket and      *)
(* Close, between the points where other goroutines, the network or the    *)
(* context can interfere.  pc is where the caller's goroutine is inside    *)
(* the client; result is what the last call returned.                      *)
(***************************************************************************)
EXTENDS MqttBroker

VARIABLES
    conn,       \* Client.conn: a connection, or None for nil
    opened,     \* how many connections were opened so far
    pc,         \* idle, dial, connack, write
    attempt,    \* 0 in a plain Connect, else PublishJSON's first or second write
    msg,        \* the message being published
    writer,     \* writePacket's goroutine: none, ready, stuck, ok, error
    stray,      \* message of an abandoned writePacket whose goroutine has not
                \* yet read c.conn, or None
    result,     \* none, ok, error
    ctxDone,    \* whether the context of the call is done
    panicked    \* a write through a nil connection

clientVars == <<conn, opened, pc, attempt, msg, writer, stray, result, ctxDone, panicked>>
allVars == <<brokerVars, clientVars>>

\* Mutant: a client identifier for every connection.
ClientIDPerConnection(c) == c

\* main.go takes the client identifier from the configuration: it is the same
\* for every connection and every process.
ClientID(c) == "device"

ClientInit ==
    /\ conn = None /\ opened = 0
    /\ pc = "idle" /\ attempt = 0 /\ msg = None
    /\ writer = "none" /\ stray = None
    /\ result = "none" /\ ctxDone = FALSE /\ panicked = FALSE

Return(r) ==
    /\ pc' = "idle"
    /\ result' = r

\* writeFull on connection c: the packet is on its way; or it is buffered and
\* lost, or refused, when the other end is gone; or it finds no room.
Deliverable(c) == server[c] \in {"open", "session"} /\ c \notin lost
Enqueue(c, p) == [queue EXCEPT ![c] = IF Deliverable(c) THEN Append(@, p) ELSE @]

\* Client.Close: DISCONNECT, then close, whatever the write returns.  A write that
\* finds no room holds Close until TCP gives the peer up; the step is taken then,
\* for the process does nothing in between and nothing of it is delivered.
CloseConn ==
    IF conn = None THEN UNCHANGED <<client, queue, conn>>
    ELSE /\ queue' = Enqueue(conn, DisconnectPacket)
         /\ client' = [client EXCEPT ![conn] = "closed"]
         /\ conn' = None

\* PublishJSON is called: connect first when there is no connection.
CallPublish(m) ==
    /\ pc = "idle"
    /\ msg' = m
    /\ attempt' = 1
    /\ result' = "none"
    /\ IF conn = None THEN pc' = "dial" /\ UNCHANGED writer
                      ELSE pc' = "write" /\ writer' = "ready"

-----------------------------------------------------------------------------
(* Connect. *)

\* The dial succeeds and CONNECT is written.
DialOk ==
    /\ pc = "dial" /\ ~ctxDone /\ brokerUp /\ opened < MaxConns
    /\ LET n == opened + 1
       IN  /\ opened' = n
           /\ conn' = n
           /\ client' = [client EXCEPT ![n] = "open"]
           /\ server' = [server EXCEPT ![n] = "open"]
           /\ queue' = [queue EXCEPT ![n] = <<ConnectPacket(ClientID(n))>>]
    /\ pc' = "connack"
    /\ UNCHANGED <<ident, lost, ack, retained, brokerUp, crashes,
                   attempt, msg, writer, stray, result, ctxDone, panicked>>

\* The dial fails, or the context is done.
DialFails ==
    /\ pc = "dial"
    /\ Return("error")
    /\ UNCHANGED <<brokerVars, conn, opened, attempt, msg, writer, stray, ctxDone, panicked>>

\* The dial succeeds but the password cannot be read (or has no user name):
\* the connection is closed with a DISCONNECT and no CONNECT.
DialWithoutPassword ==
    /\ pc = "dial" /\ ~ctxDone /\ brokerUp /\ opened < MaxConns
    /\ LET n == opened + 1
       IN  /\ opened' = n
           /\ client' = [client EXCEPT ![n] = "closed"]
           /\ server' = [server EXCEPT ![n] = "open"]
           /\ queue' = [queue EXCEPT ![n] = <<DisconnectPacket>>]
    /\ Return("error")
    /\ UNCHANGED <<ident, lost, ack, retained, brokerUp, crashes,
                   conn, attempt, msg, writer, stray, ctxDone, panicked>>

\* CONNACK accepts: Connect returns, and PublishJSON goes on to write.
ConnackOk ==
    /\ pc = "connack" /\ ack[conn] = "accepted"
    /\ IF attempt = 0 THEN Return("ok") /\ UNCHANGED writer
                      ELSE pc' = "write" /\ writer' = "ready" /\ UNCHANGED result
    /\ UNCHANGED <<brokerVars, conn, opened, attempt, msg, stray, ctxDone, panicked>>

\* The read of CONNACK fails, or CONNACK refuses.  The read has no deadline
\* and does not look at the context: it fails when TCP gives the peer up.
ConnackFails ==
    /\ pc = "connack" /\ ~Deliverable(conn)
    /\ CloseConn
    /\ Return("error")
    /\ UNCHANGED <<server, ident, lost, ack, retained, brokerUp, crashes,
                   opened, attempt, msg, writer, stray, ctxDone, panicked>>

-----------------------------------------------------------------------------
(* writePacket. *)

\* The goroutine reads c.conn and writes.
WriterWrites ==
    /\ pc = "write" /\ writer = "ready"
    /\ queue' = Enqueue(conn, PublishPacket(msg))
    /\ \/ writer' = "ok"
       \/ ~Deliverable(conn) /\ writer' \in {"error", "stuck"}
    /\ UNCHANGED <<client, server, ident, lost, ack, retained, brokerUp, crashes,
                   conn, opened, pc, attempt, msg, stray, result, ctxDone, panicked>>

\* TCP gives up a write that found no room.
WriterGivesUp ==
    /\ pc = "write" /\ writer = "stuck"
    /\ writer' = "error"
    /\ UNCHANGED <<brokerVars, conn, opened, pc, attempt, msg, stray, result, ctxDone, panicked>>

\* Mutant: success is reported before the goroutine has written.
WriteOkEarly ==
    /\ pc = "write" /\ writer \in {"ready", "ok"}
    /\ Return("ok")
    /\ writer' = "none"
    /\ UNCHANGED <<brokerVars, conn, opened, attempt, msg, stray, ctxDone, panicked>>

\* Mutant: the goroutine is not waited for, and writes later.
WriteOkDetached ==
    /\ pc = "write" /\ writer \in {"ready", "ok"}
    /\ Return("ok")
    /\ writer' = "none"
    /\ stray' = IF writer = "ready" THEN msg ELSE stray
    /\ UNCHANGED <<brokerVars, conn, opened, attempt, msg, ctxDone, panicked>>

\* select sees the goroutine's success.
WriteOk ==
    /\ pc = "write" /\ writer = "ok"
    /\ Return("ok")
    /\ writer' = "none"
    /\ UNCHANGED <<brokerVars, conn, opened, attempt, msg, stray, ctxDone, panicked>>

\* Mutant: the stale connection is closed with a DISCONNECT.
RetryDisconnects ==
    /\ attempt = 1
    /\ queue' = Enqueue(conn, DisconnectPacket)
    /\ client' = [client EXCEPT ![conn] = "closed"]
    /\ conn' = None
    /\ pc' = "dial" /\ attempt' = 2
    /\ UNCHANGED result

\* Mutant: the write is retried without a limit.
RetryForever ==
    /\ client' = [client EXCEPT ![conn] = "closed"]
    /\ conn' = None
    /\ pc' = "dial" /\ attempt' = attempt + 1
    /\ UNCHANGED <<queue, result>>

\* The first write failed: close without DISCONNECT, connect again.
Retry ==
    /\ attempt = 1
    /\ client' = [client EXCEPT ![conn] = "closed"]
    /\ conn' = None
    /\ pc' = "dial" /\ attempt' = 2
    /\ UNCHANGED <<queue, result>>

\* The second write failed: the error is returned, the connection stays.
GiveUp ==
    /\ attempt = 2
    /\ Return("error")
    /\ UNCHANGED <<client, queue, conn, attempt>>

\* select sees the goroutine's error, or the context; select chooses freely
\* when both are there, and an abandoned goroutine lives on.
WriteFails ==
    /\ pc = "write"
    /\ \/ writer = "error" /\ stray' = stray
       \/ ctxDone /\ stray' = IF writer = "ready" THEN msg ELSE stray
    /\ Retry \/ GiveUp
    /\ writer' = "none"
    /\ UNCHANGED <<server, ident, lost, ack, retained, brokerUp, crashes,
                   opened, msg, ctxDone, panicked>>

\* An abandoned goroutine reads c.conn now: nil, or whatever it is by then.
StrayWrites ==
    /\ stray # None
    /\ stray' = None
    /\ IF conn = None THEN panicked' = TRUE /\ UNCHANGED queue
       ELSE queue' = Enqueue(conn, PublishPacket(stray)) /\ UNCHANGED panicked
    /\ UNCHANGED <<client, server, ident, lost, ack, retained, brokerUp, crashes,
                   conn, opened, pc, attempt, msg, writer, result, ctxDone>>

ConnectSteps == DialOk \/ DialFails \/ DialWithoutPassword \/ ConnackOk \/ ConnackFails
WriteSteps == WriteOk \/ WriteFails
GoroutineSteps == WriterWrites \/ WriterGivesUp
=============================================================================
