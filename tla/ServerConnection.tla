-------------------------- MODULE ServerConnection --------------------------
(***************************************************************************)
(* The life of a connection on the server: type QServerConnection of       *)
(* quiclylib/server_connection.go, from the end of init to the end of      *)
(* Close.  Its goroutines are the session's reader of the socket, which    *)
(* hands it packets, connectionProcess and connectionOutgoing, the         *)
(* goroutine of init that closes the connection when both have ended, the  *)
(* goroutine each Close leaves behind, one per stream being closed and a   *)
(* caller of Accept.                                                       *)
(*                                                                         *)
(* Two locks matter: streamsLock, which Close hands to the goroutine it    *)
(* starts, and the engine's global_lock, held while the engine calls back, *)
(* frees the connection or processes a datagram (procPc "input").  The two *)
(* streams of goroutines that meet here are in ServerSession (who creates  *)
(* connections) and QStream (what a stream does while it syncs).           *)
(*                                                                         *)
(* The engine accepts a connection for r.id whenever a packet comes from   *)
(* an address no connection in its map has: for the first packet, for a    *)
(* packet of another client of the same host, or after the peer's close.   *)
(* The new one takes the place of the old one, and its stream ids start    *)
(* afresh, while r.streams stays as it is: a QStream is written <<id, n>>  *)
(* here, for the acceptance it was opened under.                           *)
(***************************************************************************)
EXTENDS Naturals, Sequences, FiniteSets, SequencesExt

CONSTANTS
    Users,       \* goroutines of the application that call Close, once, of the
                 \* connection or of the session
    Streams,     \* ids of the streams a peer may open, each once
    QueueCap,    \* capacity of incomingQueue (4092 in the code)
    AcceptCap,   \* capacity of streamAcceptQueue (256 in the code)
    MaxPackets,  \* bound: packets the socket brings for this connection
    MaxAccepts   \* bound: engine connections accepted for its id

ASSUME ServerConnectionAssumption ==
    {QueueCap, AcceptCap, MaxPackets, MaxAccepts} \subseteq Nat \ {0}

None == "none"
Reader == "reader"
Own == "auto"                   \* the goroutine of init
Callers == Users \cup {Own}
QStreams == Streams \X (1..MaxAccepts)
Closings == QStreams \X {"app", "conn"}  \* a Close of a QStream, who called it

VARIABLES
    started, closing,  \* r.started, r.closing
    done,        \* r.Ctx is cancelled
    shut,        \* both queues are closed
    registered,  \* the connection is in the registry
    onOpen,      \* the application gave the session an OnConnectionOpen
    table,       \* what the session's table did with it: "has" it, "deleted"
                 \* it, or was "dropped" with it
    accepted,    \* r.accepted: the engine has taken a packet
    mapped,      \* the engine maps r.id to a connection
    dying,       \* quicly has closed that connection on its side
    engOpen,     \* its streams whose sending side is open
    used,        \* its streams so far
    accepts,     \* history: connections the engine accepted for r.id
    callback,    \* the callback the engine is in, with its stream: one or none
    freeing,     \* quicly_free is destroying the connection's streams
    leaked,      \* a panic left a callback: nobody will release global_lock
    streams,     \* r.streams
    opened,      \* history: every QStream that was in it
    told,        \* QStreams that have been called OnClosed
    lock,        \* who holds streamsLock across steps, or None
    qlen,        \* packets in incomingQueue
    backlog,     \* r.streamAcceptQueue
    inPc,        \* where the reader of the socket is with this connection
    procPc, buf, \* where connectionProcess is, and how many packets it buffers
    outPc,       \* where connectionOutgoing is
    clPc,        \* where each Close is
    stPc,        \* where the Close of each stream is, by who called it
    packets,     \* history: packets the socket brought
    crashed      \* a goroutine panicked and nothing recovered it

life     == <<started, closing, registered, table, shut, onOpen>>
link     == <<mapped, dying, engOpen, used, accepts>>
eng      == <<link, callback, freeing, leaked>>
held     == <<streams, opened, told, backlog>>
reader   == <<inPc, packets>>
handlers == <<procPc, buf, outPc, accepted>>
closers  == <<clPc, stPc>>
vars == <<life, eng, held, reader, handlers, closers, lock, qlen, done,
          crashed>>

\* global_lock is free: the engine calls nobody back, frees no connection and is
\* not in QuiclyProcessMsg, and no panic has left one of these.
EngineFree == /\ callback = {} /\ ~freeing /\ ~leaked
              /\ procPc \notin {"sweep", "input"}
\* r.id leaves the engine's map.
Unmap == /\ mapped' = FALSE /\ dying' = FALSE /\ engOpen' = {} /\ used' = {}
         /\ UNCHANGED accepts
\* The QStream that r.streams has for an id, if any.
Entry(s) == {k \in streams : k[1] = s}
LockFree == lock = None
Running == ~crashed /\ UNCHANGED crashed
HandlersEnded == procPc = "done" /\ outPc = "done"

\* After init, with the packet that made the session create the connection.
Init ==
    /\ started = TRUE /\ closing = FALSE /\ done = FALSE
    /\ shut = FALSE /\ registered = TRUE /\ table = "has"
    /\ accepted = FALSE /\ onOpen \in BOOLEAN
    /\ mapped = FALSE /\ dying = FALSE /\ engOpen = {} /\ used = {}
    /\ accepts = 0
    /\ callback = {} /\ freeing = FALSE /\ leaked = FALSE
    /\ streams = {} /\ opened = {} /\ told = {} /\ lock = None
    /\ qlen = 0 /\ backlog = <<>>
    /\ inPc = "lock" /\ procPc = "select" /\ buf = 0 /\ outPc = "accept"
    /\ clPc = [c \in Callers |-> IF c = Own THEN "await" ELSE "idle"]
    /\ stPc = [k \in Closings |-> "no"]
    /\ packets = 1
    /\ crashed = FALSE

-----------------------------------------------------------------------------
(* The reader of the socket: receiveIncomingPacket *)

\* connectionAdd finds a connection that is not closed: in the table.
InPacket ==
    /\ Running
    /\ inPc = "idle"
    /\ packets < MaxPackets
    /\ table = "has" /\ started
    /\ packets' = packets + 1
    /\ inPc' = "lock"
    /\ UNCHANGED <<life, eng, held, handlers, closers, lock, qlen, done>>

InLock ==
    /\ Running
    /\ inPc = "lock"
    /\ LockFree
    /\ IF started THEN lock' = Reader /\ inPc' = "push"
                  ELSE inPc' = "idle" /\ UNCHANGED lock
    /\ UNCHANGED <<life, eng, held, packets, handlers, closers, qlen, done>>

\* Defect: the queue is taken to be unbounded.
InPushUnbounded ==
    /\ Running
    /\ inPc = "push"
    /\ qlen' = IF shut THEN qlen ELSE qlen + 1
    /\ lock' = None
    /\ inPc' = "idle"
    /\ UNCHANGED <<life, eng, held, packets, handlers, closers, done>>

\* Defect: the panic of a send on a closed queue leaves streamsLock held.
InPushHeld ==
    /\ Running
    /\ inPc = "push"
    /\ IF shut
         THEN UNCHANGED <<qlen, lock>>
         ELSE qlen < QueueCap /\ qlen' = qlen + 1 /\ lock' = None
    /\ inPc' = "idle"
    /\ UNCHANGED <<life, eng, held, packets, handlers, closers, done>>

\* The send waits for room with streamsLock held; on a closed queue it panics,
\* which drops the packet and is recovered.
InPush ==
    /\ Running
    /\ inPc = "push"
    /\ IF shut THEN UNCHANGED qlen
               ELSE qlen < QueueCap /\ qlen' = qlen + 1
    /\ lock' = None
    /\ inPc' = "idle"
    /\ UNCHANGED <<life, eng, held, packets, handlers, closers, done>>

-----------------------------------------------------------------------------
(* connectionProcess *)

ProcEnd == procPc' = "done" /\ done' = TRUE

ProcStop ==
    /\ Running
    /\ procPc = "select"
    /\ done
    /\ ProcEnd
    /\ UNCHANGED <<life, eng, held, reader, buf, outPc, accepted, closers,
                   lock, qlen>>

\* A closed and empty queue yields nil packets, which change nothing.
ProcTake ==
    /\ Running
    /\ procPc = "select"
    /\ qlen > 0
    /\ qlen' = qlen - 1
    /\ buf' = buf + 1
    /\ UNCHANGED <<life, eng, held, reader, procPc, outPc, accepted, closers,
                   lock, done>>

\* 5 ms without a packet.
ProcTimer ==
    /\ Running
    /\ procPc = "select"
    /\ procPc' = "batch"
    /\ UNCHANGED <<life, eng, held, reader, buf, outPc, accepted, closers,
                   lock, qlen, done>>

\* QuiclyProcessMsg for the next packet of the batch: its sweep never gets past
\* a connection that is closing (see Sweep of EngineTable), and global_lock
\* stays taken.
ProcMsg ==
    /\ Running
    /\ procPc = "batch" /\ buf > 0
    /\ EngineFree
    /\ buf' = buf - 1
    /\ procPc' = IF dying THEN "sweep" ELSE "input"
    /\ UNCHANGED <<life, eng, held, reader, outPc, accepted, closers, lock,
                   qlen, done>>

\* A packet of the datagram comes from an address that no connection in the map
\* has: the engine accepts one and maps r.id to it, whatever r.id stood for.
Accepts ==
    /\ accepts < MaxAccepts
    /\ accepts' = accepts + 1
    /\ mapped' = TRUE /\ dying' = FALSE /\ engOpen' = {} /\ used' = {}
    /\ UNCHANGED callback

\* It opens a stream.
Opens(s) ==
    /\ mapped /\ s \notin used
    /\ used' = used \cup {s}
    /\ engOpen' = engOpen \cup {s}
    /\ callback' = {<<"open", s>>}
    /\ UNCHANGED <<mapped, dying, accepts>>

\* It resets a stream, or stops its sending.
Resets(s) ==
    /\ mapped /\ s \in engOpen
    /\ engOpen' = engOpen \ {s}
    /\ callback' = {<<"close", s>>}
    /\ UNCHANGED <<mapped, dying, used, accepts>>

\* The peer closes the connection: its id leaves the map, nobody is told.
Leaves == mapped /\ Unmap /\ UNCHANGED callback

ProcReceive ==
    /\ Running
    /\ procPc = "input"
    /\ callback = {}
    /\ Accepts \/ Leaves \/ \E s \in Streams : Opens(s) \/ Resets(s)
    /\ UNCHANGED <<life, freeing, leaked, held, reader, handlers, closers, lock,
                   qlen, done>>

\* The datagram ends: taken, or refused with its last packet.  A packet that
\* quicly fails on leaves the connection closing.  (NOT_OPEN, which would end
\* the handler, is none of the results.)
ProcDone ==
    /\ Running
    /\ procPc = "input"
    /\ callback = {}
    /\ procPc' = "batch"
    /\ accepted' \in {accepted, TRUE}
    /\ dying' \in {dying, mapped}
    /\ UNCHANGED <<life, mapped, engOpen, used, accepts, callback, freeing,
                   leaked, held, reader, buf, outPc, closers, lock, qlen, done>>

\* flushOutgoingQueue: nothing to send, datagrams to write, a failure, the end
\* of the connection; or the engine does not know it.
ProcFlush ==
    /\ Running
    /\ procPc = "batch" /\ buf = 0
    /\ EngineFree
    /\ \/ ProcEnd /\ UNCHANGED freeing
       \/ /\ mapped
          /\ \/ procPc' \in {"select", "write"} /\ UNCHANGED freeing
             \/ procPc' = "freed" /\ freeing' = TRUE
          /\ UNCHANGED done
    /\ UNCHANGED <<life, link, callback, leaked, held, reader, buf, outPc,
                   accepted, closers, lock, qlen>>

\* The freed connection: an error, unless quicly_send left no datagram.
ProcFreed ==
    /\ Running
    /\ procPc = "freed"
    /\ EngineFree
    /\ \/ ProcEnd
       \/ procPc' = "select" /\ UNCHANGED done
    /\ UNCHANGED <<life, eng, held, reader, buf, outPc, accepted, closers,
                   lock, qlen>>

ProcWrite ==
    /\ Running
    /\ procPc = "write"
    /\ LockFree
    /\ procPc' = "select"
    /\ UNCHANGED <<life, eng, held, reader, buf, outPc, accepted, closers,
                   lock, qlen, done>>

ProcStep == ProcTake \/ ProcTimer \/ ProcMsg \/ ProcDone \/ ProcFlush
            \/ ProcFreed \/ ProcWrite

-----------------------------------------------------------------------------
(* connectionOutgoing *)

\* The wait for the first packet taken does not look at the context.
OutAccepted ==
    /\ Running
    /\ outPc = "accept"
    /\ accepted
    /\ outPc' = "loop"
    /\ UNCHANGED <<life, eng, held, reader, procPc, buf, accepted, closers,
                   lock, qlen, done>>

OutLoop ==
    /\ Running
    /\ outPc = "loop"
    /\ outPc' = IF done THEN "done" ELSE "flush"
    /\ UNCHANGED <<life, eng, held, reader, procPc, buf, accepted, closers,
                   lock, qlen, done>>

OutEnd == outPc' = "done" /\ done' = TRUE

\* A failure to send is tried again; a connection that is gone ends the loop.
OutFlush ==
    /\ Running
    /\ outPc = "flush"
    /\ EngineFree
    /\ IF mapped
         THEN /\ \/ outPc' \in {"loop", "write"} /\ UNCHANGED freeing
                 \/ outPc' = "freed" /\ freeing' = TRUE
              /\ UNCHANGED done
         ELSE OutEnd /\ UNCHANGED freeing
    /\ UNCHANGED <<life, link, callback, leaked, held, reader, procPc, buf,
                   accepted, closers, lock, qlen>>

OutFreed ==
    /\ Running
    /\ outPc = "freed"
    /\ EngineFree
    /\ \/ OutEnd
       \/ outPc' = "loop" /\ UNCHANGED done
    /\ UNCHANGED <<life, eng, held, reader, procPc, buf, accepted, closers,
                   lock, qlen>>

OutWrite ==
    /\ Running
    /\ outPc = "write"
    /\ LockFree
    /\ outPc' = "loop"
    /\ UNCHANGED <<life, eng, held, reader, procPc, buf, accepted, closers,
                   lock, qlen, done>>

OutStep == OutAccepted \/ OutLoop \/ OutFlush \/ OutFreed \/ OutWrite

-----------------------------------------------------------------------------
(* The callbacks of the engine, under global_lock *)

\* Defect: a cancelled connection enters no new stream, but offers it.
OnStreamOpenDone(s) ==
    /\ Running
    /\ callback = {<<"open", s>>}
    /\ LockFree
    /\ IF done
         THEN UNCHANGED <<streams, opened>>
         ELSE /\ streams' = (streams \ Entry(s)) \cup {<<s, accepts>>}
              /\ opened' = opened \cup {<<s, accepts>>}
    /\ callback' = {<<"queue", s>>}
    /\ UNCHANGED <<life, link, freeing, leaked, told, backlog, reader, handlers,
                   closers, lock, qlen, done>>

\* OnStreamOpen enters the stream, in the place of any other with its id.  A
\* connection without streams is offered to the session's Accept first, in a
\* queue of 2048 taken to have room, and to OnConnectionOpen: a call of nil, if
\* there is none, that panics through the engine's frames.  connectionProcess
\* recovers, global_lock stays held.
OnStreamOpen(s) ==
    /\ Running
    /\ callback = {<<"open", s>>}
    /\ IF streams = {} /\ ~onOpen
         THEN /\ leaked' = TRUE
              /\ callback' = {}
              /\ ProcEnd
              /\ UNCHANGED <<streams, opened>>
         ELSE /\ LockFree
              /\ streams' = (streams \ Entry(s)) \cup {<<s, accepts>>}
              /\ opened' = opened \cup {<<s, accepts>>}
              /\ callback' = {<<"queue", s>>}
              /\ UNCHANGED <<leaked, procPc, done>>
    /\ UNCHANGED <<life, link, freeing, told, backlog, reader, buf, outPc,
                   accepted, closers, lock, qlen>>

\* The stream is queued for Accept.  On a closed queue the send panics, too.
OnStreamQueue(s) ==
    /\ Running
    /\ callback = {<<"queue", s>>}
    /\ IF shut
         THEN /\ leaked' = TRUE
              /\ callback' = {}
              /\ ProcEnd
              /\ UNCHANGED backlog
         ELSE /\ Len(backlog) < AcceptCap
              /\ backlog' = Append(backlog, <<s, accepts>>)
              /\ callback' = {<<"tell", s>>}
              /\ UNCHANGED <<leaked, procPc, done>>
    /\ UNCHANGED <<life, link, freeing, streams, opened, told, reader, buf,
                   outPc, accepted, closers, lock, qlen>>

\* The session's OnStreamOpen looks the stream up again.  It panics when it
\* finds none, which is when the session's table is gone.
OnStreamTell(s) ==
    /\ Running
    /\ callback = {<<"tell", s>>}
    /\ callback' = {}
    /\ IF table = "has" THEN LockFree /\ UNCHANGED <<leaked, procPc, done>>
                 ELSE leaked' = TRUE /\ ProcEnd
    /\ UNCHANGED <<life, link, freeing, held, reader, buf, outPc, accepted,
                   closers, lock, qlen>>

\* OnStreamClose finds the stream, in a critical section of its own,
OnStreamClose(s) ==
    /\ Running
    /\ callback = {<<"close", s>>}
    /\ LockFree
    /\ callback' = IF Entry(s) # {} THEN {<<"found", s>>} ELSE {}
    /\ UNCHANGED <<life, link, freeing, leaked, held, reader, handlers, closers,
                   lock, qlen, done>>

\* tells it, without a lock,
OnStreamClosed(s) ==
    /\ Running
    /\ callback = {<<"found", s>>}
    /\ told' = told \cup Entry(s)
    /\ callback' = {<<"drop", s>>}
    /\ UNCHANGED <<life, link, freeing, leaked, streams, opened, backlog,
                   reader, handlers, closers, lock, qlen, done>>

\* Defect: the last stream's end does not cancel the context.
OnStreamDropKeep(s) ==
    /\ Running
    /\ callback = {<<"drop", s>>}
    /\ LockFree
    /\ streams' = streams \ Entry(s)
    /\ callback' = {}
    /\ UNCHANGED <<life, link, freeing, leaked, opened, told, backlog, reader,
                   handlers, closers, lock, qlen, done>>

\* and removes it; without streams the connection ends.
OnStreamDrop(s) ==
    /\ Running
    /\ callback = {<<"drop", s>>}
    /\ LockFree
    /\ streams' = streams \ Entry(s)
    /\ done' = (done \/ streams' = {})
    /\ callback' = {}
    /\ UNCHANGED <<life, link, freeing, leaked, opened, told, backlog, reader,
                   handlers, closers, lock, qlen>>

CallbackStep(s) == OnStreamOpen(s) \/ OnStreamQueue(s) \/ OnStreamTell(s)
                   \/ OnStreamClose(s) \/ OnStreamClosed(s) \/ OnStreamDrop(s)

\* quicly_free destroys the streams, then the id leaves the map.
FreeStream ==
    /\ Running
    /\ freeing /\ callback = {}
    /\ \E s \in engOpen :
          engOpen' = engOpen \ {s} /\ callback' = {<<"close", s>>}
    /\ UNCHANGED <<life, mapped, dying, used, accepts, freeing, leaked, held,
                   reader, handlers, closers, lock, qlen, done>>

FreeConnection ==
    /\ Running
    /\ freeing /\ callback = {} /\ engOpen = {}
    /\ Unmap
    /\ freeing' = FALSE
    /\ UNCHANGED <<life, callback, leaked, held, reader, handlers, closers,
                   lock, qlen, done>>

-----------------------------------------------------------------------------
(* A stream that closes: QStream.Close *)

\* The application got the stream from Accept or from a callback.
StreamClose(k) ==
    /\ Running
    /\ \/ stPc[k] = "no" /\ k[2] = "app" /\ k[1] \in opened
       \/ stPc[k] = "check"
    /\ stPc' = [stPc EXCEPT ![k] = IF k[1] \in told THEN "done" ELSE "sync"]
    /\ UNCHANGED <<life, eng, held, reader, handlers, clPc, lock, qlen, done>>

StreamSynced(k) ==
    /\ Running
    /\ stPc[k] = "sync"
    /\ stPc' = [stPc EXCEPT ![k] = "reset"]
    /\ UNCHANGED <<life, eng, held, reader, handlers, clPc, lock, qlen, done>>

\* Defect: the engine resets the stream and does not call back.
StreamResetSilent(k) ==
    /\ Running
    /\ stPc[k] = "reset"
    /\ EngineFree
    /\ engOpen' = engOpen \ {k[1][1]}
    /\ stPc' = [stPc EXCEPT ![k] = "flush"]
    /\ UNCHANGED <<life, mapped, dying, used, accepts, callback, freeing,
                   leaked, held, reader, handlers, clPc, lock, qlen, done>>

\* QuiclyCloseStream calls back if it closes the sending side, be it that of a
\* later connection's stream with this id.
StreamReset(k) ==
    /\ Running
    /\ stPc[k] = "reset"
    /\ EngineFree
    /\ IF mapped /\ k[1][1] \in engOpen
         THEN /\ engOpen' = engOpen \ {k[1][1]}
              /\ callback' = {<<"close", k[1][1]>>}
         ELSE UNCHANGED <<engOpen, callback>>
    /\ stPc' = [stPc EXCEPT ![k] = "flush"]
    /\ UNCHANGED <<life, mapped, dying, used, accepts, freeing, leaked, held,
                   reader, handlers, clPc, lock, qlen, done>>

\* flushOutgoingQueue: the engine's part, then the writing under streamsLock.
StreamFlush(k) ==
    /\ Running
    /\ stPc[k] = "flush"
    /\ EngineFree
    /\ \/ /\ mapped
          /\ stPc' = [stPc EXCEPT ![k] = "write"]
          /\ UNCHANGED freeing
       \/ /\ stPc' = [stPc EXCEPT ![k] = "wait"]
          /\ freeing' \in {FALSE, mapped}
    /\ UNCHANGED <<life, link, callback, leaked, held, reader, handlers, clPc,
                   lock, qlen, done>>

StreamWrite(k) ==
    /\ Running
    /\ stPc[k] = "write"
    /\ LockFree
    /\ stPc' = [stPc EXCEPT ![k] = "wait"]
    /\ UNCHANGED <<life, eng, held, reader, handlers, clPc, lock, qlen, done>>

StreamClosed(k) ==
    /\ Running
    /\ stPc[k] = "wait"
    /\ k[1] \in told
    /\ stPc' = [stPc EXCEPT ![k] = "done"]
    /\ UNCHANGED <<life, eng, held, reader, handlers, clPc, lock, qlen, done>>

StreamStep(k) == StreamReset(k) \/ StreamFlush(k) \/ StreamWrite(k)
                 \/ StreamClosed(k)

-----------------------------------------------------------------------------
(* Close *)

AutoClose ==
    /\ Running
    /\ clPc[Own] = "await"
    /\ HandlersEnded
    /\ clPc' = [clPc EXCEPT ![Own] = "idle"]
    /\ UNCHANGED <<life, eng, held, reader, handlers, stPc, lock, qlen, done>>

\* The guard under streamsLock, the flag and the context; a goroutine for each
\* stream, and one that inherits the lock.  The session's own Close calls it
\* for every connection, then drops its table; its lock, which all who read the
\* table take, makes this one step for them.
CloseCall(c) ==
    /\ Running
    /\ clPc[c] = "idle"
    /\ LockFree
    /\ IF started /\ ~closing
         THEN /\ closing' = TRUE /\ done' = TRUE
              /\ lock' = c
              /\ stPc' = [k \in Closings |->
                            IF k \in streams \X {"conn"} THEN "check"
                                                         ELSE stPc[k]]
              /\ clPc' = [clPc EXCEPT ![c] = "join"]
         ELSE /\ clPc' = [clPc EXCEPT ![c] = "done"]
              /\ UNCHANGED <<closing, done, lock, stPc>>
    /\ \/ UNCHANGED table
       \/ c \in Users /\ table = "has" /\ table' = "dropped"
    /\ UNCHANGED <<started, registered, shut, onOpen, eng, held, reader,
                   handlers, qlen>>

\* The streams have closed: safeClose of both queues, and the lock goes.  Its
\* deferred recover does not recover: a queue closed before ends the process.
CloseShut(c) ==
    /\ ~crashed
    /\ clPc[c] = "join"
    /\ \A s \in QStreams : stPc[<<s, "conn">>] \in {"no", "done"}
    /\ crashed' = shut
    /\ shut' = TRUE
    /\ lock' = None
    /\ clPc' = [clPc EXCEPT ![c] = "handlers"]
    /\ UNCHANGED <<started, closing, registered, table, onOpen, eng, held,
                   reader, handlers, stPc, qlen, done>>

\* Defect: the handlers are not waited for.
CloseHandlersNone(c) ==
    /\ Running
    /\ clPc[c] = "handlers"
    /\ clPc' = [clPc EXCEPT ![c] = "engine"]
    /\ UNCHANGED <<life, eng, held, reader, handlers, stPc, lock, qlen, done>>

\* Both handlers have ended, and 2 s have passed.
CloseHandlers(c) ==
    /\ Running
    /\ clPc[c] = "handlers"
    /\ HandlersEnded
    /\ clPc' = [clPc EXCEPT ![c] = "engine"]
    /\ UNCHANGED <<life, eng, held, reader, handlers, stPc, lock, qlen, done>>

\* connectionDelete removes from the registry what it finds in the table.
Delete ==
    IF table = "has" THEN registered' = FALSE /\ table' = "deleted"
                     ELSE UNCHANGED <<registered, table>>

\* QuiclyClose, then connectionDelete.
CloseEngine(c) ==
    /\ Running
    /\ \/ /\ clPc[c] = "engine"
          /\ EngineFree
          /\ Unmap
          /\ clPc' = [clPc EXCEPT ![c] = "registry"]
          /\ UNCHANGED <<registered, table>>
       \/ /\ clPc[c] = "registry"
          /\ Delete
          /\ clPc' = [clPc EXCEPT ![c] = "flag"]
          /\ UNCHANGED link
    /\ UNCHANGED <<started, closing, shut, onOpen, callback, freeing, leaked,
                   held, reader, handlers, stPc, lock, qlen, done>>

\* The deferred function: closing first, started after it.
CloseFlag(c) ==
    /\ Running
    /\ \/ /\ clPc[c] = "flag"
          /\ closing' = FALSE
          /\ clPc' = [clPc EXCEPT ![c] = "flag2"]
          /\ UNCHANGED started
       \/ /\ clPc[c] = "flag2"
          /\ started' = FALSE
          /\ clPc' = [clPc EXCEPT ![c] = "done"]
          /\ UNCHANGED closing
    /\ UNCHANGED <<registered, table, shut, onOpen, eng, held, reader, handlers,
                   stPc, lock, qlen, done>>

\* Every step of the goroutine that Close leaves behind, but the one that
\* closes the queues.
CloseStep(c) == CloseHandlers(c) \/ CloseEngine(c) \/ CloseFlag(c)

-----------------------------------------------------------------------------
(* Accept *)

\* Accept takes a stream that waits.  With the context cancelled it may return
\* an error instead, and from a closed and empty queue nil; both change nothing.
Accept ==
    /\ Running
    /\ backlog # <<>>
    /\ backlog' = Tail(backlog)
    /\ UNCHANGED <<life, eng, streams, opened, told, reader, handlers, closers,
                   lock, qlen, done>>

-----------------------------------------------------------------------------
Next ==
    \/ InPacket \/ InLock \/ InPush
    \/ ProcStop \/ ProcReceive \/ ProcStep
    \/ OutStep
    \/ \E s \in Streams : CallbackStep(s)
    \/ \E k \in Closings : StreamClose(k) \/ StreamSynced(k) \/ StreamStep(k)
    \/ FreeStream \/ FreeConnection
    \/ AutoClose
    \/ \E c \in Callers : CloseCall(c) \/ CloseShut(c) \/ CloseStep(c)
    \/ Accept

Spec == Init /\ [][Next]_vars

\* The engine still takes acknowledgements for the QStream: it is the one its
\* connection's callbacks find, and somebody feeds the engine packets.
Served(k) ==
    /\ mapped /\ ~dying /\ k[2] = accepts
    /\ k \in streams
    /\ procPc # "done"

\* The steps that come a bounded number of times, whoever takes them.
BoundedStep ==
    \/ InLock \/ InPush \/ ProcStop
    \/ FreeStream \/ FreeConnection \/ \E s \in Streams : CallbackStep(s)
    \/ \E k \in Closings :
          StreamStep(k) \/ (stPc[k] = "check" /\ StreamClose(k))
    \/ AutoClose \/ CloseCall(Own)
    \/ \E c \in Callers : CloseShut(c) \/ CloseStep(c)

\* Every goroutine the connection started runs, a datagram has an end, and no
\* waiter for a lock waits for ever while others get it.  Goroutines that only
\* have a bounded number of steps share a condition: none of them is left
\* waiting.  A sync ends while the engine serves the stream (CloseReturns of
\* QStream); the application's calls may never come.
Fairness ==
    /\ SF_vars(BoundedStep)
    /\ SF_vars(ProcStep)
    /\ SF_vars(OutStep)
    /\ WF_vars(\E k \in Closings : Served(k[1]) /\ StreamSynced(k))

FairSpec == Spec /\ Fairness

-----------------------------------------------------------------------------
(* Properties *)

TypeOK ==
    /\ {started, closing, done, shut, registered, onOpen, accepted, mapped,
        dying, freeing, leaked, crashed} \subseteq BOOLEAN
    /\ table \in {"has", "deleted", "dropped"}
    /\ engOpen \subseteq used /\ used \subseteq Streams
    /\ accepts \in 0..MaxAccepts
    /\ callback \subseteq {"open", "queue", "tell", "close", "found", "drop"}
                     \X Streams
    /\ streams \subseteq opened /\ told \subseteq opened
    /\ opened \subseteq QStreams
    /\ lock \in Callers \cup {Reader, None}
    /\ qlen \in 0..QueueCap /\ buf \in 0..MaxPackets
    /\ backlog \in Seq(QStreams) /\ Len(backlog) <= AcceptCap
    /\ inPc \in {"idle", "lock", "push"}
    /\ procPc \in {"select", "batch", "sweep", "input", "write", "freed",
                   "done"}
    /\ outPc \in {"accept", "loop", "flush", "write", "freed", "done"}
    /\ clPc \in [Callers -> {"await", "idle", "join", "handlers", "engine",
                             "registry", "flag", "flag2", "done"}]
    /\ stPc \in [Closings -> {"no", "check", "sync", "reset", "flush", "write",
                              "wait", "done"}]
    /\ packets \in 1..MaxPackets

\* Between two callbacks the connection has exactly those streams of the engine
\* connection its id stands for that the engine holds open, whoever closed one
\* and however: none is kept that the engine gave up, none is unknown to the
\* callbacks that will come for it.  What a connection lost or replaced had open
\* stays beside them, but never under the id of one of them.  Only the panic
\* for want of an OnConnectionOpen leaves a stream unknown.
StreamsAgree ==
    mapped /\ callback = {} /\ (leaked => onOpen) =>
        /\ {k \in streams : k[2] = accepts} = engOpen \X {accepts}
        /\ \A k \in streams : k[1] \in engOpen => k[2] = accepts

\* A connection that says it is closed (IsClosed) has left nothing behind: not
\* in the engine, no handler, no open queue, and not in the registry, unless
\* the session had dropped its table first.
ClosedIsClean ==
    ~started => /\ ~mapped
                /\ (registered => table = "dropped")
                /\ HandlersEnded /\ shut /\ EngineFree

\* Close found a stream open: the callback that would tell the stream waits for
\* the lock Close keeps until the stream is told.
CloseWedge ==
    /\ lock \in Callers
    /\ \E s \in QStreams : stPc[<<s, "conn">>] \notin {"no", "check", "done"}

\* The reader waits with the lock for room that only a handler that waits for
\* the lock, or has ended, could make.
QueueWedge == lock = Reader /\ ~shut /\ qlen = QueueCap

\* Nobody accepts the streams that wait.
AcceptJam == Len(backlog) = AcceptCap

\* The second handler waits for a first packet that the engine never took.
NeverAccepted == outPc = "accept" /\ ~accepted

\* QuiclyProcessMsg never returns: it found the connection closing.
SweepWedge == procPc = "sweep"

\* Nobody waits for ever in a callback, with global_lock, but for a Close that
\* found an open stream, a full queue or an application that does not accept.
EngineAnswers ==
    <>[](callback # {})
        => <>[](crashed \/ CloseWedge \/ QueueWedge \/ AcceptJam)

\* The context is cancelled, or the last stream has gone.
Over == done \/ (opened # {} /\ streams = {} /\ callback = {})

\* A connection that is over, by Close, with its last stream or because a
\* handler has ended, closes, but for the named reasons.
ConnectionEnds ==
    <>[](started /\ Over)
        => <>[](\/ crashed \/ leaked \/ NeverAccepted
               \/ CloseWedge \/ QueueWedge \/ AcceptJam \/ SweepWedge)

\* The session finds the stream whose opening it is told of, which its panic
\* asserts, unless it closes: then the table may be gone by now.
OpenFindsStream ==
    \A s \in Streams :
       callback = {<<"tell", s>>} /\ table # "dropped"
           => table = "has" /\ Entry(s) # {}

=============================================================================
