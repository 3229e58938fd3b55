---------------------------- MODULE ServerSession ----------------------------
(***************************************************************************)
(* A server session with several clients: type QServerSession of           *)
(* quiclylib/server_session.go, the connections it makes and the engine's  *)
(* map they share.  A connection is named by its id.  Its two handlers,    *)
(* its streams and its Close are seen as far as other connections notice;  *)
(* ServerConnection has them in detail.                                    *)
(*                                                                         *)
(* Three locks: the engine's global_lock (call, callback, leaked), the     *)
(* session's exclusiveLock (sessionLock) and each connection's             *)
(* streamsLock, which its Close keeps until its streams are told, and the  *)
(* reader of the socket while it waits for room in the queue.              *)
(***************************************************************************)
EXTENDS EngineTable, Sequences

CONSTANTS
    Hosts,      \* addresses without their port, as addrToHash sees them
    HostOf,     \* the host of each peer
    Gatherings, \* bound: the clients that may come together: [come |-> who,
                \* retry |-> who of them sends more than one packet]
    Streams,    \* ids of streams: every client starts with the same ones
    QueueCap,   \* capacity of a connection's incomingQueue (4092)
    AcceptCap   \* capacity of connAcceptQueue (2048)

ASSUME SessionAssumption ==
    /\ HostOf \in [Peers -> Hosts]
    /\ Gatherings \subseteq [come : SUBSET Peers, retry : SUBSET Peers]
    /\ {QueueCap, AcceptCap} \subseteq Nat \ {0}

VARIABLES
    \* --- the session ---
    table,        \* s.connections: the connection of each host, or None
    closeStage,   \* Close of the session: "no", "closing", "waiting", "closed"
    closeTodo,    \* connections it has still to close
    cancelled,    \* s.Ctx is done
    sessionLock,  \* who holds exclusiveLock across steps: "scan" (a lookup),
                  \* "close" or None
    offered,      \* connections in s.connAcceptQueue
    onOpen,       \* the application gave the session an OnConnectionOpen
    reader,       \* connectionInHandler: <<"read">>, <<"ended">>, or "lock" or
                  \* "push" with the packet's address and its connection
    clients,      \* which clients there are
    came,         \* history: the peers a packet came from
    \* --- its connections ---
    stage,        \* "none" (not started), "live", "closing" (Close waits for
                  \* the streams), "linger" (for the handlers, and 2 s) or
                  \* "unmapped" (QuiclyClose was called)
    returnAddr,   \* r.returnAddr
    done,         \* connections whose context is cancelled
    inbox,        \* r.incomingQueue: the address each packet came from
    handlers,     \* connectionProcess and connectionOutgoing: "new" (the
                  \* second waits for accepted), "run" (one of them or both),
                  \* "stuck" (the first has ended, the second waits) or "end"
    streams,      \* r.streams
    registry,     \* ids in the registry
    \* --- the engine, beyond its map ---
    engStreams,   \* streams each engine connection holds open
    callback,     \* the callback it is in, with its id and stream, or None
    scan,         \* connections a lookup of the session has still to ask
    leaked        \* a panic left a callback: global_lock is held for ever

sessionVars == <<table, closeStage, closeTodo, cancelled, offered>>
readVars == <<reader, clients, came, onOpen>>
connVars == <<returnAddr, registry>>
callbackVars == <<callback, scan>>
vars == <<engineVars, sessionVars, readVars, connVars, handlers, callbackVars,
          sessionLock, stage, done, inbox, streams, engStreams, leaked>>

EngineIdle == LockIsFree /\ callback = None /\ ~leaked
TableGone == closeStage \in {"waiting", "closed"}
InTable(h) == \E k \in Hosts : table[k] = h

\* streamsLock of a connection.
LockFree(h) == stage[h] # "closing" /\ ~(reader[1] = "push" /\ reader[3] = h)

\* A connection object that no variable refers to.
Unused(h) ==
    /\ stage[h] = "none"
    /\ Len(reader) = 3 => reader[3] # h

Init ==
    /\ EngineInit
    /\ table = [k \in Hosts |-> None]
    /\ closeStage = "no" /\ closeTodo = {} /\ cancelled = FALSE
    /\ sessionLock = None /\ offered = 0 /\ onOpen \in BOOLEAN
    /\ reader = <<"read">> /\ clients \in Gatherings /\ came = {}
    /\ stage = [h \in Ids |-> "none"]
    /\ returnAddr = [h \in Ids |-> None]
    /\ done = {} /\ inbox = [h \in Ids |-> <<>>]
    /\ handlers = [h \in Ids |-> "end"]
    /\ streams = [h \in Ids |-> {}] /\ registry = {}
    /\ engStreams = [c \in Conns |-> {}]
    /\ callback = None /\ scan = {} /\ leaked = FALSE

-----------------------------------------------------------------------------
(* The reader of the socket *)

\* Defect: one key for every address.
KeyOfNone(p) == CHOOSE k \in Hosts : TRUE

\* addrToHash.
KeyOf(p) == HostOf[p]

\* connectionAdd finds a connection that has not been closed.
Known(p) == table[KeyOf(p)] # None /\ stage[table[KeyOf(p)]] # "none"

MaySend(p) == p \in clients.come /\ (p \in clients.retry \/ p \notin came)

\* QServerConnection.init.
Start(h, p) ==
    /\ stage' = [stage EXCEPT ![h] = "live"]
    /\ returnAddr' = [returnAddr EXCEPT ![h] = p]
    /\ registry' = registry \cup {h}
    /\ handlers' = [handlers EXCEPT ![h] = "new"]

\* A packet comes from a host that is known.
AddFound(p) ==
    /\ reader = <<"read">> /\ MaySend(p)
    /\ sessionLock = None
    /\ Known(p)
    /\ reader' = <<"lock", p, table[KeyOf(p)]>>
    /\ came' = came \cup {p}
    /\ UNCHANGED <<engineVars, sessionVars, connVars, handlers, callbackVars,
                   clients, onOpen, sessionLock, stage, done, inbox, streams,
                   engStreams, leaked>>

\* connectionAdd makes a new connection.  A table that is gone cannot be
\* written: the panic ends the reader, which cancels the session's context, and
\* leaves a connection nobody knows.
AddNew(p) ==
    /\ reader = <<"read">> /\ MaySend(p)
    /\ sessionLock = None
    /\ ~Known(p)
    /\ \E h \in Ids : Unused(h)
    /\ LET h == CHOOSE h \in Ids : Unused(h) IN
       /\ Start(h, p)
       /\ IF TableGone
            THEN /\ reader' = <<"ended">>
                 /\ cancelled' = TRUE
                 /\ UNCHANGED table
            ELSE /\ reader' = <<"lock", p, h>>
                 /\ table' = [table EXCEPT ![KeyOf(p)] = h]
                 /\ UNCHANGED cancelled
    /\ came' = came \cup {p}
    /\ UNCHANGED <<engineVars, closeStage, closeTodo, offered,
                   callbackVars, clients, onOpen, sessionLock, done, inbox,
                   streams, engStreams, leaked>>

\* The top of the loop: the context is looked at before each read.
NextRead == reader' = IF cancelled THEN <<"ended">> ELSE <<"read">>

\* receiveIncomingPacket takes streamsLock,
InLock ==
    /\ reader[1] = "lock"
    /\ LockFree(reader[3])
    /\ IF stage[reader[3]] = "none"
         THEN NextRead
         ELSE reader' = <<"push", reader[2], reader[3]>>
    /\ UNCHANGED <<engineVars, sessionVars, clients, came, onOpen, connVars,
                   handlers, callbackVars, sessionLock, stage, done, inbox,
                   streams, engStreams, leaked>>

\* Defect: the packet of a full queue is waited for even when the queue is shut.
InPushShut ==
    /\ reader[1] = "push"
    /\ LET h == reader[3] IN
       /\ stage[h] = "live"
       /\ Len(inbox[h]) < QueueCap
       /\ inbox' = [inbox EXCEPT ![h] = Append(@, reader[2])]
    /\ NextRead
    /\ UNCHANGED <<engineVars, sessionVars, clients, came, onOpen, connVars,
                   handlers, callbackVars, sessionLock, stage, done, streams,
                   engStreams, leaked>>

\* and waits for room in the queue, which drops the packet if it is closed.
InPush ==
    /\ reader[1] = "push"
    /\ LET h == reader[3] IN
       IF stage[h] = "live"
         THEN /\ Len(inbox[h]) < QueueCap
              /\ inbox' = [inbox EXCEPT ![h] = Append(@, reader[2])]
         ELSE UNCHANGED inbox
    /\ NextRead
    /\ UNCHANGED <<engineVars, sessionVars, clients, came, onOpen, connVars,
                   handlers, callbackVars, sessionLock, stage, done, streams,
                   engStreams, leaked>>

ReaderStep == InLock \/ InPush

-----------------------------------------------------------------------------
(* connectionProcess and connectionOutgoing *)

\* A handler ends: the context is cancelled, and the other follows if it looks.
HandlerEnds(h) ==
    /\ done' = done \cup {h}
    /\ handlers' = IF handlers[h] = "new"
                     THEN [handlers EXCEPT ![h] = "stuck"] ELSE handlers

\* The context is cancelled.  connectionOutgoing does not look at it until a
\* packet has been accepted.
HandlerStop(h) ==
    /\ h \in done
    /\ call # None => call[2] # h
    /\ \/ /\ handlers[h] = "new"
          /\ handlers' = [handlers EXCEPT ![h] = "stuck"]
       \/ /\ handlers[h] = "run"
          /\ handlers' = [handlers EXCEPT ![h] = "end"]
    /\ UNCHANGED <<engineVars, sessionVars, readVars, connVars, callbackVars,
                   sessionLock, stage, done, inbox, streams, engStreams,
                   leaked>>

\* A packet of the batch goes to the engine.
HandlePacket(h) ==
    /\ handlers[h] \in {"new", "run"}
    /\ EngineIdle
    /\ inbox[h] # <<>>
    /\ ProcessMsg(h, Head(inbox[h]))
    /\ inbox' = [inbox EXCEPT ![h] = Tail(@)]
    /\ UNCHANGED <<sessionVars, readVars, connVars, handlers, callbackVars,
                   sessionLock, stage, done, streams, engStreams, leaked>>

\* flushOutgoingQueue: the engine does not know the id (no packet was accepted
\* yet, or the connection has gone) or fails, and the handler ends; or quicly
\* ends the connection.  Sending, or nothing to send, changes nothing here.
Flush(h) ==
    /\ handlers[h] \in {"new", "run"}
    /\ EngineIdle
    /\ \/ HandlerEnds(h) /\ UNCHANGED engineVars
       \/ SendEnds(h) /\ UNCHANGED <<handlers, done>>
    /\ UNCHANGED <<sessionVars, readVars, connVars, callbackVars, sessionLock,
                   stage, inbox, streams, engStreams, leaked>>

-----------------------------------------------------------------------------
(* The engine at work on a packet, and what it calls back *)

\* The id get_connection_uuid finds for a connection, if the registry knows it.
Callback(kind, c, s) ==
    LET known == {i \in registry : map[i] = c}
    IN  callback' = IF known = {} THEN None
                    ELSE <<kind, CHOOSE i \in known : TRUE, s>>

\* The handler has seen a packet taken: r.accepted.
Accepted ==
    handlers' = IF call' = None /\ handlers[call[2]] = "new"
                  THEN [handlers EXCEPT ![call[2]] = "run"] ELSE handlers

EngineSweeps ==
    /\ callback = None /\ ~leaked
    /\ \E i \in Ids : Sweep(i)
    /\ UNCHANGED <<sessionVars, readVars, connVars, handlers, callbackVars,
                   sessionLock, stage, done, inbox, streams, engStreams,
                   leaked>>

\* The packet changes no stream, opens one, or resets one.
EngineReceives(c) ==
    /\ callback = None /\ ~leaked
    /\ Receive(c)
    /\ \/ UNCHANGED <<engStreams, callback>>
       \/ \E s \in Streams \ engStreams[c] :
             /\ engStreams' = [engStreams EXCEPT ![c] = @ \cup {s}]
             /\ Callback("open", c, s)
       \/ \E s \in engStreams[c] :
             /\ engStreams' = [engStreams EXCEPT ![c] = @ \ {s}]
             /\ Callback("close", c, s)
    /\ Accepted
    /\ UNCHANGED <<sessionVars, readVars, connVars, scan,
                   sessionLock, stage, done, inbox, streams, leaked>>

EngineAccepts ==
    /\ callback = None /\ ~leaked
    /\ \E c \in Conns : Fresh(c)
    /\ LET c == CHOOSE c \in Conns : Fresh(c) IN
       AcceptConn(c) /\ engStreams' = [engStreams EXCEPT ![c] = {}]
    /\ Accepted
    /\ UNCHANGED <<sessionVars, readVars, connVars, callbackVars,
                   sessionLock, stage, done, inbox, streams, leaked>>

\* The peer closes: the id has left the map when quicly destroys the streams,
\* so that nobody is told of them.
EngineCloses(c) ==
    /\ callback = None /\ ~leaked
    /\ PeerCloses(c)
    /\ engStreams' = [engStreams EXCEPT ![c] = {}]
    /\ Accepted
    /\ UNCHANGED <<sessionVars, readVars, connVars, callbackVars,
                   sessionLock, stage, done, inbox, streams, leaked>>

EngineRefuses ==
    /\ callback = None /\ ~leaked
    /\ Refuse \/ \E c \in Conns : ReceiveFails(c)
    /\ UNCHANGED <<sessionVars, readVars, connVars, handlers, callbackVars,
                   sessionLock, stage, done, inbox, streams, engStreams,
                   leaked>>

\* quicly_free: a callback for each stream, then the end.
EngineFrees ==
    /\ callback = None /\ ~leaked
    /\ call # None /\ call[1] = "free"
    /\ LET c == map[call[2]] IN
       IF engStreams[c] = {}
         THEN FreeConn /\ UNCHANGED <<engStreams, callback>>
         ELSE \E s \in engStreams[c] :
                 /\ engStreams' = [engStreams EXCEPT ![c] = @ \ {s}]
                 /\ Callback("close", c, s)
                 /\ UNCHANGED engineVars
    /\ UNCHANGED <<sessionVars, readVars, connVars, handlers, scan,
                   sessionLock, stage, done, inbox, streams, leaked>>

EngineStep ==
    \/ EngineSweeps \/ EngineAccepts \/ EngineRefuses \/ EngineFrees
    \/ \E c \in Conns : EngineReceives(c) \/ EngineCloses(c)

-----------------------------------------------------------------------------
(* The callbacks *)

In(kind) == callback # None /\ callback[1] = kind

\* A panic goes through the engine's frames to the handler that recovers it.
Panics(h) == leaked' = TRUE /\ callback' = None /\ HandlerEnds(h)

\* OnStreamOpen: a connection without streams is offered to the session's
\* Accept, which waits for room, and to OnConnectionOpen: a call of nil, if
\* there is none, that panics.
OnStreamOpen ==
    /\ In("open")
    /\ LET h == callback[2] IN
       /\ IF streams[h] = {}
            THEN /\ offered < AcceptCap
                 /\ offered' = offered + 1
            ELSE UNCHANGED offered
       /\ IF streams[h] = {} /\ ~onOpen
            THEN Panics(h)
            ELSE /\ callback' = <<"enter", h, callback[3]>>
                 /\ UNCHANGED <<leaked, handlers, done>>
    /\ UNCHANGED <<engineVars, table, closeStage, closeTodo, cancelled,
                   readVars, connVars, scan, sessionLock, stage, inbox,
                   streams, engStreams>>

\* The stream is entered and queued for Accept; a queue that is closed panics.
OnStreamEnter ==
    /\ In("enter")
    /\ LET h == callback[2] IN
       /\ LockFree(h)
       /\ streams' = [streams EXCEPT ![h] = @ \cup {callback[3]}]
       /\ IF stage[h] = "live"
            THEN /\ callback' = <<"look", h, callback[3]>>
                 /\ UNCHANGED <<leaked, handlers, done>>
            ELSE Panics(h)
    /\ UNCHANGED <<engineVars, sessionVars, readVars, connVars,
                   scan, sessionLock, stage, inbox, engStreams>>

\* The session looks the stream up, by its id, in all its connections,
OnStreamLook ==
    /\ In("look")
    /\ sessionLock = None
    /\ sessionLock' = "scan"
    /\ scan' = {h \in Ids : InTable(h)}
    /\ callback' = <<"scan", callback[2], callback[3]>>
    /\ UNCHANGED <<engineVars, sessionVars, readVars, connVars, handlers,
                   stage, done, inbox, streams, engStreams, leaked>>

\* Defect: the lookup that finds the stream keeps exclusiveLock.
OnStreamScanKeep ==
    /\ In("scan")
    /\ \E g \in scan :
          /\ LockFree(g)
          /\ IF callback[3] \in streams[g]
               THEN scan' = {} /\ callback' = None
               ELSE scan' = scan \ {g} /\ UNCHANGED callback
    /\ UNCHANGED <<engineVars, sessionVars, readVars, connVars, handlers,
                   sessionLock, stage, done, inbox, streams, engStreams,
                   leaked>>

\* taking the streamsLock of each, with exclusiveLock and global_lock held;
\* the first that has a stream of this id is told, and if none has it panics.
OnStreamScan ==
    /\ In("scan")
    /\ \/ \E g \in scan :
             /\ LockFree(g)
             /\ IF callback[3] \in streams[g]
                  THEN scan' = {} /\ callback' = None /\ sessionLock' = None
                  ELSE scan' = scan \ {g} /\ UNCHANGED <<callback, sessionLock>>
             /\ UNCHANGED <<leaked, handlers, done>>
       \/ /\ scan = {}
          /\ Panics(callback[2])
          /\ sessionLock' = None
          /\ UNCHANGED scan
    /\ UNCHANGED <<engineVars, sessionVars, readVars, connVars,
                   stage, inbox, streams, engStreams>>

\* OnStreamClose: the stream is told and removed; the last one ends the
\* connection.
OnStreamClose ==
    /\ In("close")
    /\ LET h == callback[2] IN
       /\ LockFree(h)
       /\ streams' = [streams EXCEPT ![h] = @ \ {callback[3]}]
       /\ done' = IF callback[3] \in streams[h] /\ streams'[h] = {}
                    THEN done \cup {h} ELSE done
    /\ callback' = None
    /\ UNCHANGED <<engineVars, sessionVars, readVars, connVars, handlers, scan,
                   sessionLock, stage, inbox, engStreams, leaked>>

CallbackStep == OnStreamOpen \/ OnStreamEnter \/ OnStreamLook \/ OnStreamScan
                \/ OnStreamClose

-----------------------------------------------------------------------------
(* A connection that closes *)

\* Close of a stream, by the application or by Close: QuiclyCloseStream.
StreamReset(h) ==
    /\ EngineIdle
    /\ map[h] # None
    /\ \E s \in streams[h] \cap engStreams[map[h]] :
          /\ engStreams' = [engStreams EXCEPT ![map[h]] = @ \ {s}]
          /\ Callback("close", map[h], s)
    /\ UNCHANGED <<engineVars, sessionVars, readVars, connVars, handlers, scan,
                   sessionLock, stage, done, inbox, streams, leaked>>

HandlersEnded(h) == handlers[h] = "end"

\* Close passes its guard: the flag, the context, and the lock is kept.
BeginClose(h) ==
    /\ stage' = [stage EXCEPT ![h] = "closing"]
    /\ done' = done \cup {h}

\* By the application, or by the connection itself when its handlers have ended.
ConnClose(h) ==
    /\ stage[h] = "live"
    /\ LockFree(h)
    /\ BeginClose(h)
    /\ UNCHANGED <<engineVars, sessionVars, readVars, connVars, handlers,
                   callbackVars, sessionLock, inbox, streams, engStreams,
                   leaked>>

\* Defect: the connection leaves the table before it lingers.
CloseShutDeletes(h) ==
    /\ stage[h] = "closing"
    /\ streams[h] = {}
    /\ stage' = [stage EXCEPT ![h] = "linger"]
    /\ table' = [k \in Hosts |-> IF table[k] = h THEN None ELSE table[k]]
    /\ UNCHANGED <<engineVars, closeStage, closeTodo, cancelled, offered,
                   readVars, connVars, handlers, callbackVars, sessionLock,
                   done, inbox, streams, engStreams, leaked>>

\* Defect: the lock is kept until the handlers have ended.
CloseShutLate(h) ==
    /\ stage[h] = "closing"
    /\ streams[h] = {}
    /\ HandlersEnded(h)
    /\ stage' = [stage EXCEPT ![h] = "linger"]
    /\ UNCHANGED <<engineVars, sessionVars, readVars, connVars, handlers,
                   callbackVars, sessionLock, done, inbox, streams,
                   engStreams, leaked>>

\* The streams have been told: both queues are closed and the lock goes.
CloseShut(h) ==
    /\ stage[h] = "closing"
    /\ streams[h] = {}
    /\ stage' = [stage EXCEPT ![h] = "linger"]
    /\ UNCHANGED <<engineVars, sessionVars, readVars, connVars, handlers,
                   callbackVars, sessionLock, done, inbox, streams,
                   engStreams, leaked>>

\* The handlers have ended and 2 s have passed: QuiclyClose.
CloseEngine(h) ==
    /\ stage[h] = "linger"
    /\ HandlersEnded(h)
    /\ EngineIdle
    /\ IF map[h] = None THEN UNCHANGED <<engineVars, engStreams>>
       ELSE CloseConn(h) /\ engStreams' = [engStreams EXCEPT ![map[h]] = {}]
    /\ stage' = [stage EXCEPT ![h] = "unmapped"]
    /\ UNCHANGED <<sessionVars, readVars, connVars, handlers, callbackVars,
                   sessionLock, done, inbox, streams, leaked>>

\* Defect: the connection is deleted when its queues are closed already.
CloseDeleteEarly(h) ==
    /\ stage[h] \in {"linger", "unmapped"}
    /\ HandlersEnded(h)
    /\ sessionLock = None
    /\ IF InTable(h)
         THEN /\ table' = [k \in Hosts |-> IF table[k] = h THEN None
                                                           ELSE table[k]]
              /\ registry' = registry \ {h}
         ELSE UNCHANGED <<table, registry>>
    /\ stage' = [stage EXCEPT ![h] = "none"]
    /\ returnAddr' = [returnAddr EXCEPT ![h] = None]
    /\ inbox' = [inbox EXCEPT ![h] = <<>>]
    /\ done' = done \ {h}
    /\ UNCHANGED <<engineVars, closeStage, closeTodo, cancelled, offered,
                   readVars, handlers, callbackVars, sessionLock, streams,
                   engStreams, leaked>>

\* connectionDelete, and the connection is not started any more.
CloseDelete(h) ==
    /\ stage[h] = "unmapped"
    /\ sessionLock = None
    /\ IF InTable(h)
         THEN /\ table' = [k \in Hosts |-> IF table[k] = h THEN None
                                                           ELSE table[k]]
              /\ registry' = registry \ {h}
         ELSE UNCHANGED <<table, registry>>
    /\ stage' = [stage EXCEPT ![h] = "none"]
    /\ returnAddr' = [returnAddr EXCEPT ![h] = None]
    /\ inbox' = [inbox EXCEPT ![h] = <<>>]
    /\ done' = done \ {h}
    /\ UNCHANGED <<engineVars, closeStage, closeTodo, cancelled, offered,
                   readVars, handlers, callbackVars, sessionLock, streams,
                   engStreams, leaked>>

CloseStep(h) == CloseShut(h) \/ CloseEngine(h) \/ CloseDelete(h)

-----------------------------------------------------------------------------
(* The session's Accept and Close *)

Accept ==
    /\ offered > 0
    /\ offered' = offered - 1
    /\ UNCHANGED <<engineVars, table, closeStage, closeTodo, cancelled,
                   readVars, connVars, handlers, callbackVars, sessionLock,
                   stage, done, inbox, streams, engStreams, leaked>>

\* The context the application passed to Listen is cancelled.  Before Close it
\* would only end the packets, which may come no more anyway.
Cancel ==
    /\ closeStage # "no"
    /\ ~cancelled
    /\ cancelled' = TRUE
    /\ UNCHANGED <<engineVars, table, closeStage, closeTodo, offered,
                   readVars, connVars, handlers, callbackVars, sessionLock,
                   stage, done, inbox, streams, engStreams, leaked>>

SessionClose ==
    /\ closeStage = "no"
    /\ sessionLock = None
    /\ sessionLock' = "close"
    /\ closeStage' = "closing"
    /\ closeTodo' = {h \in Ids : InTable(h)}
    /\ UNCHANGED <<engineVars, table, cancelled, offered, readVars,
                   connVars, handlers, callbackVars, stage, done, inbox,
                   streams, engStreams, leaked>>

\* Close of one connection, which first takes its streamsLock.
SessionCloseConn(h) ==
    /\ closeStage = "closing"
    /\ h \in closeTodo
    /\ LockFree(h)
    /\ IF stage[h] = "live" THEN BeginClose(h) ELSE UNCHANGED <<stage, done>>
    /\ closeTodo' = closeTodo \ {h}
    /\ UNCHANGED <<engineVars, table, closeStage, cancelled, offered,
                   readVars, connVars, handlers, callbackVars, sessionLock,
                   inbox, streams, engStreams, leaked>>

\* Defect: exclusiveLock is kept.
SessionCloseDropKeep ==
    /\ closeStage = "closing"
    /\ closeTodo = {}
    /\ table' = [k \in Hosts |-> None]
    /\ closeStage' = "waiting"
    /\ UNCHANGED <<engineVars, closeTodo, cancelled, offered, readVars,
                   connVars, handlers, callbackVars, sessionLock, stage, done,
                   inbox, streams, engStreams, leaked>>

SessionCloseDrop ==
    /\ closeStage = "closing"
    /\ closeTodo = {}
    /\ table' = [k \in Hosts |-> None]
    /\ sessionLock' = None
    /\ closeStage' = "waiting"
    /\ UNCHANGED <<engineVars, closeTodo, cancelled, offered, readVars,
                   connVars, handlers, callbackVars, stage, done, inbox,
                   streams, engStreams, leaked>>

\* The reader has ended: the socket is closed.
SessionCloseEnd ==
    /\ closeStage = "waiting"
    /\ reader = <<"ended">>
    /\ closeStage' = "closed"
    /\ UNCHANGED <<engineVars, table, closeTodo, cancelled, offered,
                   readVars, connVars, handlers, callbackVars, sessionLock,
                   stage, done, inbox, streams, engStreams, leaked>>

SessionCloseStep ==
    SessionCloseDrop \/ SessionCloseEnd \/ \E h \in Ids : SessionCloseConn(h)

-----------------------------------------------------------------------------
Next ==
    \/ \E p \in Peers : AddFound(p) \/ AddNew(p)
    \/ ReaderStep
    \/ \E h \in Ids : \/ HandlerStop(h) \/ HandlePacket(h) \/ Flush(h)
                      \/ StreamReset(h) \/ ConnClose(h) \/ CloseStep(h)
    \/ EngineStep
    \/ CallbackStep
    \/ Accept \/ Cancel
    \/ SessionClose \/ SessionCloseStep

Spec == Init /\ [][Next]_vars

\* What a connection does a bounded number of times in its life, and a session's
\* Close in its own.
Ending ==
    \/ \E h \in Ids : \/ HandlerStop(h) \/ CloseStep(h)
                      \/ map[h] = None /\ Flush(h)
                      \/ HandlersEnded(h) /\ ConnClose(h)
    \/ SessionCloseStep

\* Goroutines run, mutexes and channels let nobody starve, and a datagram has an
\* end.  A flush ends the handler of an id the engine does not know; the others
\* need not.  Traffic leaves the 5 ms a batch needs.  A client that retries does
\* so for ever.  Nothing else the environment or the application does is owed:
\* no Accept, no Close, no Cancel.
FairSpec ==
    /\ Spec
    /\ SF_vars(\E p \in clients.retry : AddFound(p) \/ AddNew(p))
    /\ SF_vars(ReaderStep)
    /\ SF_vars(\E h \in Ids : HandlePacket(h))
    /\ SF_vars(Ending)
    /\ SF_vars(EngineSweeps \/ EngineFrees \/ (EngineStep /\ call' = None))
    /\ SF_vars(CallbackStep)

-----------------------------------------------------------------------------
(* Safety *)

SessionTypeOK ==
    /\ table \in [Hosts -> Ids \cup {None}]
    /\ closeStage \in {"no", "closing", "waiting", "closed"}
    /\ closeTodo \subseteq Ids
    /\ cancelled \in BOOLEAN
    /\ sessionLock \in {"scan", "close", None}
    /\ offered \in 0..AcceptCap
    /\ onOpen \in BOOLEAN

ReaderTypeOK ==
    /\ reader \in {<<"read">>, <<"ended">>}
                  \cup ({"lock", "push"} \X Peers \X Ids)
    /\ clients \in Gatherings
    /\ came \subseteq Peers

ConnTypeOK ==
    /\ stage \in [Ids -> {"none", "live", "closing", "linger", "unmapped"}]
    /\ returnAddr \in [Ids -> Peers \cup {None}]
    /\ done \subseteq Ids
    /\ registry \subseteq Ids
    /\ inbox \in [Ids -> Seq(Peers)]
    /\ \A h \in Ids : Len(inbox[h]) <= QueueCap
    /\ handlers \in [Ids -> {"new", "run", "stuck", "end"}]
    /\ streams \in [Ids -> SUBSET Streams]

CallbackTypeOK ==
    /\ engStreams \in [Conns -> SUBSET Streams]
    /\ callback \in {None} \cup ({"open", "enter", "look", "scan", "close"}
                                 \X Ids \X Streams)
    /\ scan \subseteq Ids
    /\ leaked \in BOOLEAN

TypeOK == EngineTypeOK /\ SessionTypeOK /\ ReaderTypeOK /\ ConnTypeOK
          /\ CallbackTypeOK

\* The engine never knows an id whose Go connection is over: while a connection
\* is in the map its callbacks find it in the registry, and Close has not come
\* to QuiclyClose.
MappedHasConnection ==
    \A h \in Ids : map[h] # None =>
        stage[h] \in {"live", "closing", "linger"} /\ h \in registry

\* A host is never served by two connections at a time, through the linger of
\* the first: a session's Close has dropped the table before that may be.
OneConnectionPerHost ==
    \A g, h \in Ids :
        \/ g = h \/ TableGone
        \/ "none" \in {stage[g], stage[h]}
        \/ HostOf[returnAddr[g]] # HostOf[returnAddr[h]]

Neighbours(p) == {q \in came : HostOf[q] = HostOf[p]} \ {p}

\* What a connection of the engine sends goes to the address it was accepted
\* from, unless two clients of one host have come.
AnswersGoHome ==
    \A h \in Ids : map[h] # None =>
        \/ returnAddr[h] = peer[map[h]]
        \/ Neighbours(peer[map[h]]) # {}

\* quicly never holds an open connection that no id leads to, unless two clients
\* of one host have come: add_connection replaces what is under the id.
LiveIsTracked ==
    \A c \in Conns : state[c] = "open" =>
        \/ \E i \in Ids : map[i] = c
        \/ Neighbours(peer[c]) # {}

-----------------------------------------------------------------------------
(* Liveness: each property lists every way to hang, by its name. *)

\* A closing connection is in the map, and the sweep goes round it.
SweepWedge == /\ Processing
              /\ \E i \in Tracked : state[map[i]] = "closing"

\* A Close holds streamsLock, and its streams are told under that lock.
CloseWedge == \E h \in Ids : stage[h] = "closing" /\ streams[h] # {}

\* The reader holds streamsLock and waits for a handler that waits for the
\* engine, or has ended and its Close waits for the lock.
FullWedge ==
    /\ reader[1] = "push"
    /\ LET h == reader[3] IN
       /\ stage[h] = "live" /\ Len(inbox[h]) = QueueCap
       /\ ~EngineIdle \/ handlers[h] \in {"stuck", "end"}

\* The application does not call Accept.
AcceptWedge == In("open") /\ offered = AcceptCap

\* The first flush came before the first packet was accepted: one handler has
\* ended, the other waits, and the connection is never closed.
NeverAccepted == \E h \in Ids : InTable(h) /\ handlers[h] = "stuck"

\* The reader sleeps in ReadFromUDP, which has no deadline.
NoPacket == reader = <<"read">> /\ sessionLock = None

EngineStuck == leaked \/ SweepWedge \/ AcceptWedge

\* Whoever takes global_lock gives it back.
EngineReturns ==
    <>[]~EngineIdle => <>[](EngineStuck \/ CloseWedge \/ FullWedge)

\* The reader of the socket comes back to it, for the other clients.
ReaderReturns ==
    <>[](reader[1] \in {"lock", "push"}) => <>[](CloseWedge \/ FullWedge)

\* The session's Close returns, if packets go on coming: it is the panic of the
\* reader, which finds no table, that ends the wait.
SessionCloseReturns ==
    <>[](closeStage \in {"closing", "waiting"}) =>
        <>[](CloseWedge \/ FullWedge \/ NoPacket)

HasConnection == \E i \in Tracked : state[map[i]] = "open"

\* A client that is alone and tries for ever gets a connection, again and again
\* if it loses it, as long as the session is open.
ClientGetsThrough ==
    /\ \E p \in Peers : clients = [come |-> {p}, retry |-> {p}]
    /\ <>[]~HasConnection
    => <>[](\/ EngineStuck \/ CloseWedge \/ FullWedge \/ NeverAccepted
            \/ closeStage # "no")

=============================================================================
