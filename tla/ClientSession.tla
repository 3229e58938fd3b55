--------------------------- MODULE ClientSession ---------------------------
(***************************************************************************)
(* The life of a client session: type QClientSession of                    *)
(* quiclylib/client_connection.go, from the first OpenStream to the end of *)
(* Close.  Its goroutines are the callers of OpenStream and Close, the two *)
(* handlers that read the socket and run the engine, the goroutine that    *)
(* closes the session when both handlers have ended, one goroutine per     *)
(* stream being closed and one per Close that got past its guard.          *)
(*                                                                         *)
(* Two locks matter: the session's streamsLock, and the engine's           *)
(* global_lock, which the bindings hold while they call back into the      *)
(* session (callback), free a connection (freeing) or process a datagram   *)
(* (procPc "input").  What a stream does while it syncs is in QStream;     *)
(* here a sync just takes some time.                                       *)
(*                                                                         *)
(* A session that has closed may connect again, under the same id.  The    *)
(* engine then has a new connection, whose stream ids start afresh, while  *)
(* QStreams of the old one may still be about: a QStream is written        *)
(* <<id, n>> here, for the connection it was opened on.                    *)
(***************************************************************************)
EXTENDS Naturals, FiniteSets

CONSTANTS
    Openers,      \* goroutines of the application that call OpenStream
    Users,        \* goroutines of the application that call Close, once
    Streams,      \* ids of the streams a connection may open, each once
    PeerStreams,  \* ids of the streams its peer may open, each once
    QueueCap,     \* capacity of incomingQueue (1024 in the code)
    MaxBatch,     \* bound: packets buffered for one QuiclyProcessMsg round
    MaxConnects   \* bound: how often connect reaches the engine

None == "none"
Autos == 1..MaxConnects          \* the closing goroutine of each connect
Callers == Users \cup Autos
Ids == Streams \cup PeerStreams
QStreams == Streams \X Autos     \* the QStreams of the session's connections

ASSUME ClientAssumption ==
    /\ {QueueCap, MaxBatch} \subseteq Nat \ {0} /\ MaxConnects \in Nat
    /\ None \notin Openers
    /\ Users \cap Autos = {} /\ Streams \cap PeerStreams = {}

VARIABLES
    connected, closing,  \* s.connected, s.closing
    ctx,          \* s.Ctx: "none", "live" or "done"
    queue,        \* s.incomingQueue: "none", "open" or "closed"; the socket is
                  \* closed with it
    qlen,         \* packets in it
    registered,   \* the session is in the registry
    mapped,       \* the engine maps the session's id to a connection
    dying,        \* quicly has closed that connection on its side
    engOpen,      \* its streams whose sending side is open
    used,         \* its streams so far
    streams,      \* s.streams
    told,         \* QStreams that have been called OnClosed
    lock,         \* the opener that holds streamsLock across steps, or None
    callback,     \* the callback the engine is in, with its stream: one or none
    freeing,      \* quicly_free is destroying the connection's streams
    opPc, opSt,   \* where each opener is, and its new QStream
    inPc, procPc, \* where the two handlers are
    buf,          \* packets connectionProcessHandler has buffered
    clPc, clSet,  \* where each caller of Close is, its copy of the streams
    stPc,         \* where the Close of each QStream is: "none" before
                  \* OpenStream has returned it, "no" before it is called
    connects,     \* history: how often the session connected
    crashed       \* a goroutine panicked and nothing recovered it

flags   == <<connected, closing, ctx, queue, registered, connects>>
link    == <<mapped, dying, engOpen, used>>
engine  == <<link, callback, freeing>>
members == <<streams, told>>
openers == <<opPc, opSt, lock>>
handler == <<inPc, procPc, qlen, buf>>
closers == <<clPc, clSet>>
vars == <<flags, engine, members, openers, handler, closers, stPc, crashed>>

\* global_lock is held while the engine calls back, frees a connection or is in
\* QuiclyProcessMsg.
EngineFree == callback = {} /\ ~freeing /\ procPc \notin {"sweep", "input"}
\* The engine calls back by the id's entry in the registry, if there is one.
CallBack(kind, s) == callback' = IF registered THEN {<<kind, s>>} ELSE {}
\* The id leaves the engine's map.
Unmap == mapped' = FALSE /\ dying' = FALSE /\ engOpen' = {} /\ used' = {}
\* Nothing runs after a panic that nothing recovered.
Running == ~crashed /\ UNCHANGED crashed
HandlersEnded == {inPc, procPc} \subseteq {"none", "done"}

Init ==
    /\ connected = FALSE /\ closing = FALSE
    /\ ctx = "none" /\ queue = "none" /\ qlen = 0
    /\ registered = FALSE
    /\ mapped = FALSE /\ dying = FALSE /\ engOpen = {} /\ used = {}
    /\ streams = {} /\ told = {}
    /\ lock = None /\ callback = {} /\ freeing = FALSE
    /\ opPc = [o \in Openers |-> "idle"]
    /\ opSt = [o \in Openers |-> <<>>]
    /\ inPc = "none" /\ procPc = "none" /\ buf = 0
    /\ clPc = [c \in Callers |-> IF c \in Users THEN "idle" ELSE "none"]
    /\ clSet = [c \in Callers |-> {}]
    /\ stPc = [k \in QStreams |-> "none"]
    /\ connects = 0
    /\ crashed = FALSE

-----------------------------------------------------------------------------
(* OpenStream *)

\* Defect: OpenStream keeps streamsLock while the engine opens the stream.
OpenLockKeep(o) ==
    /\ Running
    /\ opPc[o] = "idle"
    /\ lock = None
    /\ connected \/ connects < MaxConnects
    /\ opPc' = [opPc EXCEPT ![o] = IF connected THEN "open" ELSE "connect"]
    /\ lock' = o
    /\ ctx' = IF queue = "none" THEN "live" ELSE ctx
    /\ queue' = IF queue = "none" THEN "open" ELSE queue
    /\ UNCHANGED <<connected, closing, registered, connects, engine, members,
                   opSt, handler, closers, stPc>>

\* connect under streamsLock: init leaves the context and the queue of an
\* earlier connection as they are.
OpenLock(o) ==
    /\ Running
    /\ opPc[o] = "idle"
    /\ lock = None
    /\ IF connected
         THEN /\ opPc' = [opPc EXCEPT ![o] = "open"]
              /\ UNCHANGED <<lock, ctx, queue>>
         ELSE /\ connects < MaxConnects
              /\ opPc' = [opPc EXCEPT ![o] = "connect"]
              /\ lock' = o
              /\ ctx' = IF queue = "none" THEN "live" ELSE ctx
              /\ queue' = IF queue = "none" THEN "open" ELSE queue
    /\ UNCHANGED <<connected, closing, registered, connects, engine, members,
                   opSt, handler, closers, stPc>>

\* QuiclyConnect fails, and with it OpenStream.
OpenRefused(o) ==
    /\ Running
    /\ opPc[o] = "connect"
    /\ EngineFree
    /\ opPc' = [opPc EXCEPT ![o] = "idle"]
    /\ lock' = None
    /\ UNCHANGED <<flags, engine, members, opSt, handler, closers, stPc>>

\* QuiclyConnect: the id stands for a new connection, without streams.
OpenConnect(o) ==
    /\ Running
    /\ opPc[o] = "connect"
    /\ EngineFree
    /\ mapped' = TRUE /\ dying' = FALSE /\ engOpen' = {} /\ used' = {}
    /\ connects' = connects + 1
    /\ opPc' = [opPc EXCEPT ![o] = "register"]
    /\ UNCHANGED <<connected, closing, ctx, queue, registered, callback,
                   freeing, members, opSt, lock, handler, closers, stPc>>

\* The engine is free again before the registry knows the id,
OpenRegister(o) ==
    /\ Running
    /\ opPc[o] = "register"
    /\ registered' = TRUE
    /\ opPc' = [opPc EXCEPT ![o] = "up"]
    /\ UNCHANGED <<connected, closing, ctx, queue, connects, engine, members,
                   opSt, lock, handler, closers, stPc>>

\* and the registry knows it before the session says that it is connected,
OpenUp(o) ==
    /\ Running
    /\ opPc[o] = "up"
    /\ connected' = TRUE
    /\ opPc' = [opPc EXCEPT ![o] = "start"]
    /\ UNCHANGED <<closing, ctx, queue, registered, connects, engine, members,
                   opSt, lock, handler, closers, stPc>>

\* then that it is not closing; the goroutines start.
OpenStart(o) ==
    /\ Running
    /\ opPc[o] = "start"
    /\ closing' = FALSE
    /\ inPc' = "loop" /\ procPc' = "loop" /\ buf' = 0
    /\ clPc' = [clPc EXCEPT ![connects] = "await"]
    /\ opPc' = [opPc EXCEPT ![o] = "told"]
    /\ UNCHANGED <<connected, ctx, queue, registered, connects, engine, members,
                   opSt, lock, qlen, clSet, stPc>>

\* OnConnectionOpen has returned, and the lock goes.
OpenTold(o) ==
    /\ Running
    /\ opPc[o] = "told"
    /\ opPc' = [opPc EXCEPT ![o] = "open"]
    /\ lock' = None
    /\ UNCHANGED <<flags, engine, members, opSt, handler, closers, stPc>>

\* QuiclyOpenStream opens the stream and calls back, or refuses.
OpenEngine(o) ==
    /\ Running
    /\ opPc[o] = "open"
    /\ EngineFree
    /\ \/ /\ mapped
          /\ \E s \in Streams \ used :
                /\ used' = used \cup {s}
                /\ engOpen' = engOpen \cup {s}
                /\ opSt' = [opSt EXCEPT ![o] = <<s, connects>>]
                /\ CallBack("open", s)
          /\ opPc' = [opPc EXCEPT ![o] =
                         IF registered THEN "opening" ELSE "add"]
       \/ /\ opPc' = [opPc EXCEPT ![o] = "idle"]
          /\ UNCHANGED <<used, engOpen, opSt, callback>>
    /\ UNCHANGED <<flags, mapped, dying, freeing, members, lock, handler,
                   closers, stPc>>

\* OnStreamOpen: the stream is not in s.streams yet, or an old one is, which is
\* just logged.
OnStreamOpen(o) ==
    /\ Running
    /\ opPc[o] = "opening"
    /\ lock = None
    /\ callback' = {}
    /\ opPc' = [opPc EXCEPT ![o] = "add"]
    /\ UNCHANGED <<flags, link, freeing, members, opSt, lock, handler, closers,
                   stPc>>

\* The new QStream takes the place of any other with its id.
OpenAdd(o) ==
    /\ Running
    /\ opPc[o] = "add"
    /\ lock = None
    /\ streams' = {k \in streams : k[1] # opSt[o][1]} \cup {opSt[o]}
    /\ stPc' = [stPc EXCEPT ![opSt[o]] = "no"]
    /\ opSt' = [opSt EXCEPT ![o] = <<>>]
    /\ opPc' = [opPc EXCEPT ![o] = "idle"]
    /\ UNCHANGED <<flags, engine, told, lock, handler, closers>>

OpenStep(o) == OpenRefused(o) \/ OpenConnect(o) \/ OpenRegister(o)
               \/ OpenUp(o) \/ OpenStart(o) \/ OpenTold(o) \/ OpenEngine(o)
               \/ OnStreamOpen(o) \/ OpenAdd(o)

-----------------------------------------------------------------------------
(* A stream that closes *)

\* OnStreamClose, under both locks: only a QStream that is in s.streams is told,
\* and without streams the session ends.
OnStreamClose(s) ==
    /\ Running
    /\ callback = {<<"close", s>>}
    /\ lock = None
    /\ callback' = {}
    /\ streams' = {k \in streams : k[1] # s}
    /\ told' = told \cup {k \in streams : k[1] = s}
    /\ ctx' = IF streams' = {} THEN "done" ELSE ctx
    /\ stPc' = [k \in QStreams |->
                  IF stPc[k] = "calling" THEN "flush" ELSE stPc[k]]
    /\ UNCHANGED <<connected, closing, queue, registered, connects, link,
                   freeing, openers, handler, closers>>

\* QStream.Close: the caller has had the QStream from OpenStream.
StreamClose(k) ==
    /\ Running
    /\ stPc[k] = "no"
    /\ stPc' = [stPc EXCEPT ![k] = IF k \in told THEN "done" ELSE "sync"]
    /\ UNCHANGED <<flags, engine, members, openers, handler, closers>>

StreamSynced(k) ==
    /\ Running
    /\ stPc[k] = "sync"
    /\ stPc' = [stPc EXCEPT ![k] = "reset"]
    /\ UNCHANGED <<flags, engine, members, openers, handler, closers>>

\* QuiclyCloseStream calls back if it closes the sending side, be it that of a
\* later connection's stream with this id.
StreamReset(k) ==
    /\ Running
    /\ stPc[k] = "reset"
    /\ EngineFree
    /\ IF mapped /\ k[1] \in engOpen
         THEN /\ engOpen' = engOpen \ {k[1]}
              /\ CallBack("close", k[1])
              /\ stPc' = [stPc EXCEPT ![k] =
                             IF registered THEN "calling" ELSE "flush"]
         ELSE /\ stPc' = [stPc EXCEPT ![k] = "flush"]
              /\ UNCHANGED <<engOpen, callback>>
    /\ UNCHANGED <<flags, mapped, dying, used, freeing, members, openers,
                   handler, closers>>

\* flushOutgoingQueue: the engine may find the connection's time is over.
StreamFlush(k) ==
    /\ Running
    /\ stPc[k] = "flush"
    /\ EngineFree
    /\ stPc' = [stPc EXCEPT ![k] = "wait"]
    /\ freeing' \in {FALSE, mapped}
    /\ UNCHANGED <<flags, link, callback, members, openers, handler, closers>>

StreamClosed(k) ==
    /\ Running
    /\ stPc[k] = "wait"
    /\ k \in told
    /\ stPc' = [stPc EXCEPT ![k] = "done"]
    /\ UNCHANGED <<flags, engine, members, openers, handler, closers>>

StreamStep(k) == StreamReset(k) \/ StreamFlush(k) \/ StreamClosed(k)

-----------------------------------------------------------------------------
(* The engine frees a connection: each open stream is destroyed, then the id *)
(* leaves the map *)

FreeStream ==
    /\ Running
    /\ freeing
    /\ callback = {}
    /\ \E s \in engOpen :
          /\ engOpen' = engOpen \ {s}
          /\ CallBack("close", s)
    /\ UNCHANGED <<flags, mapped, dying, used, freeing, members, openers,
                   handler, closers, stPc>>

FreeConnection ==
    /\ Running
    /\ freeing
    /\ callback = {}
    /\ engOpen = {}
    /\ Unmap
    /\ freeing' = FALSE
    /\ UNCHANGED <<flags, callback, members, openers, handler, closers, stPc>>

-----------------------------------------------------------------------------
(* connectionInHandler *)

\* Defect: the context is not looked at.
InTopBlind ==
    /\ Running
    /\ inPc = "loop"
    /\ inPc' = "read"
    /\ UNCHANGED <<flags, engine, members, openers, procPc, qlen, buf, closers,
                   stPc>>

\* The context is looked at once before each packet.
InTop ==
    /\ Running
    /\ inPc = "loop"
    /\ inPc' = IF ctx = "done" THEN "done" ELSE "read"
    /\ UNCHANGED <<flags, engine, members, openers, procPc, qlen, buf, closers,
                   stPc>>

\* No packet within a second, or the socket is closed.
InNothing ==
    /\ Running
    /\ inPc = "read"
    /\ inPc' = "loop"
    /\ UNCHANGED <<flags, engine, members, openers, procPc, qlen, buf, closers,
                   stPc>>

InPacket ==
    /\ Running
    /\ inPc = "read"
    /\ queue = "open"
    /\ inPc' = "push"
    /\ UNCHANGED <<flags, engine, members, openers, procPc, qlen, buf, closers,
                   stPc>>

\* Defect: the queue is taken to be unbounded.
InPushUnbounded ==
    /\ Running
    /\ inPc = "push"
    /\ IF queue = "closed"
         THEN inPc' = "done" /\ ctx' = "done" /\ UNCHANGED qlen
         ELSE qlen' = qlen + 1 /\ inPc' = "loop" /\ UNCHANGED ctx
    /\ UNCHANGED <<connected, closing, queue, registered, connects, engine,
                   members, openers, procPc, buf, closers, stPc>>

\* The send on a closed queue panics; the handler recovers and ends.
InPush ==
    /\ Running
    /\ inPc = "push"
    /\ IF queue = "closed"
         THEN inPc' = "done" /\ ctx' = "done" /\ UNCHANGED qlen
         ELSE /\ qlen < QueueCap
              /\ qlen' = qlen + 1
              /\ inPc' = "loop"
              /\ UNCHANGED ctx
    /\ UNCHANGED <<connected, closing, queue, registered, connects, engine,
                   members, openers, procPc, buf, closers, stPc>>

InStep == InTop \/ InNothing \/ InPush

-----------------------------------------------------------------------------
(* connectionProcessHandler *)

ProcEnd == procPc' = "done" /\ buf' = 0 /\ ctx' = "done"

ProcStop ==
    /\ Running
    /\ procPc = "loop"
    /\ ctx = "done"
    /\ ProcEnd
    /\ UNCHANGED <<connected, closing, queue, registered, connects, engine,
                   members, openers, inPc, qlen, closers, stPc>>

ProcTake ==
    /\ Running
    /\ procPc = "loop"
    /\ qlen > 0 /\ buf < MaxBatch
    /\ qlen' = qlen - 1
    /\ buf' = buf + 1
    /\ UNCHANGED <<flags, engine, members, openers, inPc, procPc, closers,
                   stPc>>

\* A closed and empty queue yields a nil packet: a panic, recovered.
ProcNil ==
    /\ Running
    /\ procPc = "loop"
    /\ queue = "closed" /\ qlen = 0
    /\ ProcEnd
    /\ UNCHANGED <<connected, closing, queue, registered, connects, engine,
                   members, openers, inPc, qlen, closers, stPc>>

\* 5 ms without a packet: what has been buffered is processed.
ProcTimer ==
    /\ Running
    /\ procPc = "loop"
    /\ procPc' = "batch"
    /\ UNCHANGED <<flags, engine, members, openers, inPc, qlen, buf, closers,
                   stPc>>

\* The next packet; a session without streams drops them all.
ProcNext ==
    /\ Running
    /\ procPc = "batch"
    /\ IF buf = 0 \/ streams = {}
         THEN procPc' = "flush" /\ buf' = 0
         ELSE procPc' = "packet" /\ buf' = buf - 1
    /\ UNCHANGED <<flags, engine, members, openers, inPc, qlen, closers, stPc>>

\* QuiclyProcessMsg: its sweep never gets past a connection that is closing (see
\* Sweep of EngineTable), and global_lock stays taken.
ProcPacket ==
    /\ Running
    /\ procPc = "packet"
    /\ EngineFree
    /\ procPc' = IF dying THEN "sweep" ELSE "input"
    /\ UNCHANGED <<flags, engine, members, openers, inPc, qlen, buf, closers,
                   stPc>>

\* A packet of the datagram: the peer resets a stream, opens one, or closes the
\* connection; or quicly_receive fails, having closed it on this side.
ProcReceive ==
    /\ Running
    /\ procPc = "input"
    /\ callback = {}
    /\ mapped
    /\ \/ /\ \E s \in engOpen :
                engOpen' = engOpen \ {s} /\ CallBack("close", s)
          /\ UNCHANGED <<mapped, dying, used, procPc>>
       \/ /\ \E s \in PeerStreams \ used :
                /\ engOpen' = engOpen \cup {s} /\ used' = used \cup {s}
                /\ CallBack("open", s)
          /\ UNCHANGED <<mapped, dying, procPc>>
       \/ Unmap /\ UNCHANGED <<callback, procPc>>
       \/ /\ dying' = TRUE /\ procPc' = "batch"
          /\ UNCHANGED <<mapped, engOpen, used, callback>>
    /\ UNCHANGED <<flags, freeing, members, openers, inPc, qlen, buf, closers,
                   stPc>>

\* OnStreamOpen of a stream of the peer's, which s.streams never has.
OnPeerOpen(s) ==
    /\ Running
    /\ callback = {<<"open", s>>}
    /\ lock = None
    /\ callback' = {}
    /\ UNCHANGED <<flags, link, freeing, members, openers, handler, closers,
                   stPc>>

\* The datagram's end, or a packet that says nothing of all this.
ProcDone ==
    /\ Running
    /\ procPc = "input"
    /\ callback = {}
    /\ procPc' = "batch"
    /\ UNCHANGED <<flags, engine, members, openers, inPc, qlen, buf, closers,
                   stPc>>

\* flushOutgoingQueue: all is well, or the call fails and the handler ends, or
\* the engine frees the connection, which fails too.
ProcFlush ==
    /\ Running
    /\ procPc = "flush"
    /\ EngineFree
    /\ \/ mapped /\ procPc' = "loop" /\ UNCHANGED <<ctx, buf, freeing>>
       \/ ProcEnd /\ UNCHANGED freeing
       \/ /\ mapped /\ freeing' = TRUE
          /\ procPc' = "freed" /\ UNCHANGED <<ctx, buf>>
    /\ UNCHANGED <<connected, closing, queue, registered, connects, link,
                   callback, members, openers, inPc, qlen, closers, stPc>>

ProcFreed ==
    /\ Running
    /\ procPc = "freed"
    /\ EngineFree
    /\ ProcEnd
    /\ UNCHANGED <<connected, closing, queue, registered, connects, engine,
                   members, openers, inPc, qlen, closers, stPc>>

ProcStep == ProcTake \/ ProcNil \/ ProcTimer \/ ProcNext \/ ProcPacket
            \/ ProcDone \/ ProcFlush \/ ProcFreed

-----------------------------------------------------------------------------
(* Close *)

\* The goroutine of connect calls Close when both handlers have ended.
AutoClose(c) ==
    /\ Running
    /\ clPc[c] = "await"
    /\ HandlersEnded
    /\ clPc' = [clPc EXCEPT ![c] = "idle"]
    /\ UNCHANGED <<flags, engine, members, openers, handler, clSet, stPc>>

\* The guard, without the lock.
CloseCheck(c) ==
    /\ Running
    /\ clPc[c] = "idle"
    /\ clPc' = [clPc EXCEPT ![c] =
                   IF connected /\ ~closing THEN "lock" ELSE "done"]
    /\ UNCHANGED <<flags, engine, members, openers, handler, clSet, stPc>>

\* Under streamsLock: the flag, the context, the copy of the streams; then a
\* goroutine for each of them, and one that waits for them.
CloseLock(c) ==
    /\ Running
    /\ clPc[c] = "lock"
    /\ lock = None
    /\ closing' = TRUE
    /\ ctx' = "done"
    /\ clSet' = [clSet EXCEPT ![c] = streams]
    /\ stPc' = [k \in QStreams |->
                  IF k \in streams /\ stPc[k] = "no" THEN "sync" ELSE stPc[k]]
    /\ clPc' = [clPc EXCEPT ![c] = "join"]
    /\ UNCHANGED <<connected, queue, registered, connects, engine, members,
                   openers, handler>>

\* Defect: the streams are closed, but not waited for.
CloseJoinNone(c) ==
    /\ Running
    /\ clPc[c] = "join"
    /\ clPc' = [clPc EXCEPT ![c] = "shut"]
    /\ UNCHANGED <<flags, engine, members, openers, handler, clSet, stPc>>

CloseJoin(c) ==
    /\ Running
    /\ clPc[c] = "join"
    /\ \A k \in clSet[c] : stPc[k] = "done"
    /\ clPc' = [clPc EXCEPT ![c] = "shut"]
    /\ UNCHANGED <<flags, engine, members, openers, handler, clSet, stPc>>

\* safeClose: its deferred recover does not recover, so a queue closed before
\* ends the process.
CloseShut(c) ==
    /\ ~crashed
    /\ clPc[c] = "shut"
    /\ lock = None
    /\ crashed' = (queue = "closed")
    /\ queue' = "closed"
    /\ clPc' = [clPc EXCEPT ![c] = "handlers"]
    /\ UNCHANGED <<connected, closing, ctx, registered, connects, engine,
                   members, openers, handler, clSet, stPc>>

\* Defect: the handlers are not waited for.
CloseHandlersNone(c) ==
    /\ Running
    /\ clPc[c] = "handlers"
    /\ clPc' = [clPc EXCEPT ![c] = "engine"]
    /\ UNCHANGED <<flags, engine, members, openers, handler, clSet, stPc>>

CloseHandlers(c) ==
    /\ Running
    /\ clPc[c] = "handlers"
    /\ HandlersEnded
    /\ clPc' = [clPc EXCEPT ![c] = "engine"]
    /\ UNCHANGED <<flags, engine, members, openers, handler, clSet, stPc>>

\* QuiclyClose, then RemoveConnection.
CloseEngine(c) ==
    /\ Running
    /\ \/ /\ clPc[c] = "engine"
          /\ EngineFree
          /\ Unmap
          /\ clPc' = [clPc EXCEPT ![c] = "registry"]
          /\ UNCHANGED registered
       \/ /\ clPc[c] = "registry"
          /\ registered' = FALSE
          /\ clPc' = [clPc EXCEPT ![c] = "flag"]
          /\ UNCHANGED link
    /\ UNCHANGED <<connected, closing, ctx, queue, connects, callback, freeing,
                   members, openers, handler, clSet, stPc>>

\* Defect: only closing is reset.
CloseFlagHalf(c) ==
    /\ Running
    /\ clPc[c] = "flag"
    /\ closing' = FALSE
    /\ clPc' = [clPc EXCEPT ![c] = "done"]
    /\ UNCHANGED <<connected, ctx, queue, registered, connects, engine,
                   members, openers, handler, clSet, stPc>>

\* The deferred function: closing first, connected after it.
CloseFlag(c) ==
    /\ Running
    /\ \/ /\ clPc[c] = "flag"
          /\ closing' = FALSE
          /\ clPc' = [clPc EXCEPT ![c] = "flag2"]
          /\ UNCHANGED connected
       \/ /\ clPc[c] = "flag2"
          /\ connected' = FALSE
          /\ clPc' = [clPc EXCEPT ![c] = "done"]
          /\ UNCHANGED closing
    /\ UNCHANGED <<ctx, queue, registered, connects, engine, members, openers,
                   handler, clSet, stPc>>

\* Every step of Close but the one that closes the queue.
CloseStep(c) == AutoClose(c) \/ CloseLock(c) \/ CloseJoin(c)
                \/ CloseHandlers(c) \/ CloseEngine(c) \/ CloseFlag(c)

-----------------------------------------------------------------------------
Next ==
    \/ \E o \in Openers : OpenLock(o) \/ OpenStep(o)
    \/ \E s \in Ids : OnStreamClose(s)
    \/ \E s \in PeerStreams : OnPeerOpen(s)
    \/ \E k \in QStreams : StreamClose(k) \/ StreamSynced(k) \/ StreamStep(k)
    \/ FreeStream \/ FreeConnection
    \/ InStep \/ InPacket
    \/ ProcStop \/ ProcReceive \/ ProcStep
    \/ \E c \in Callers : CloseCheck(c) \/ CloseStep(c) \/ CloseShut(c)

Spec == Init /\ [][Next]_vars

\* The engine still takes acknowledgements for the QStream: it is the one its
\* connection's callbacks find, and somebody feeds the engine packets.
Served(k) ==
    /\ mapped /\ ~dying /\ k[2] = connects
    /\ k \in streams
    /\ procPc # "done"

\* Every goroutine the session started runs, and a datagram has an end.  A
\* select takes the cancelled context in the end.  A sync ends while the engine
\* serves the stream (CloseReturns of QStream); the application's calls may
\* never come, and what it does in OnConnectionOpen returns.
Fairness ==
    /\ \A o \in Openers : SF_vars(OpenStep(o))
    /\ \A s \in Ids : WF_vars(OnStreamClose(s))
    /\ \A s \in PeerStreams : WF_vars(OnPeerOpen(s))
    /\ \A k \in QStreams :
          /\ WF_vars(Served(k) /\ StreamSynced(k))
          /\ SF_vars(StreamStep(k))
    /\ WF_vars(FreeStream \/ FreeConnection)
    /\ WF_vars(InStep)
    /\ SF_vars(ProcStep)
    /\ SF_vars(ProcStop)
    /\ \A c \in Callers :
          /\ SF_vars(CloseStep(c))
          /\ WF_vars(c \in Autos /\ CloseCheck(c))
          /\ WF_vars(CloseShut(c))

FairSpec == Spec /\ Fairness

-----------------------------------------------------------------------------
(* Properties *)

TypeOK ==
    /\ {connected, closing, registered, mapped, dying, freeing, crashed}
         \subseteq BOOLEAN
    /\ ctx \in {"none", "live", "done"}
    /\ queue \in {"none", "open", "closed"}
    /\ qlen \in 0..QueueCap /\ buf \in 0..MaxBatch
    /\ engOpen \subseteq used /\ used \subseteq Ids
    /\ streams \subseteq QStreams /\ told \subseteq QStreams
    /\ lock \in Openers \cup {None}
    /\ callback \subseteq {"open", "close"} \X Ids
    /\ opPc \in [Openers -> {"idle", "connect", "register", "up", "start",
                             "told", "open", "opening", "add"}]
    /\ opSt \in [Openers -> QStreams \cup {<<>>}]
    /\ inPc \in {"none", "loop", "read", "push", "done"}
    /\ procPc \in {"none", "loop", "batch", "packet", "sweep", "input", "flush",
                   "freed", "done"}
    /\ clPc \in [Callers -> {"none", "await", "idle", "lock", "join", "shut",
                             "handlers", "engine", "registry", "flag", "flag2",
                             "done"}]
    /\ clSet \in [Callers -> SUBSET QStreams]
    /\ stPc \in [QStreams -> {"none", "no", "sync", "reset", "calling", "flush",
                              "wait", "done"}]
    /\ connects \in 0..MaxConnects

\* connect takes global_lock while it holds streamsLock, and the callbacks
\* take streamsLock under global_lock; yet whoever holds streamsLock and still
\* needs the engine finds it free, so the two orders never meet.
NoLockCycle ==
    \A o \in Openers :
        lock = o /\ opPc[o] \in {"connect", "open"} => EngineFree

\* An opener has a new connection, of which the session does not tell yet; it
\* holds streamsLock.
Connecting == \E o \in Openers : opPc[o] \in {"register", "up"}

\* A session that says it is closed (IsClosed) has left nothing behind: no
\* handler, no open queue, nothing in the engine or in the registry, unless it
\* is being connected anew.
ClosedIsClean ==
    connects > 0 /\ ~connected =>
        /\ HandlersEnded
        /\ Connecting \/ (~mapped /\ ~registered /\ queue = "closed")

\* Close lets go in order.  The queue and the socket are shut only after every
\* stream it saw has been told that it is closed; the registry forgets the
\* session only after the engine has, or a callback would find nobody and a
\* stream would be closed untold.  Only a connection that has just been made
\* waits for its entry.
CloseInOrder ==
    /\ \A c \in Callers :
          clPc[c] \in {"shut", "handlers", "engine", "registry", "flag",
                       "flag2", "done"}
              => clSet[c] \subseteq told
    /\ mapped => registered \/ \E o \in Openers : opPc[o] = "register"

\* Why a QStream's Close may never return: the engine will tell it nothing, or
\* takes no acknowledgements for it while it waits for them.
Stuck(k) ==
    \/ /\ stPc[k] = "wait" /\ k \notin told
       /\ ~mapped \/ k[1] \notin engOpen \/ k \notin streams
    \/ stPc[k] = "sync" /\ ~Served(k)

\* connectionInHandler waits for room in a queue nobody empties any more.
QueueJam == inPc = "push" /\ qlen = QueueCap /\ procPc = "done"

\* QuiclyProcessMsg never returns: it found the connection closing.
SweepWedge == procPc = "sweep"

\* Both handlers end once the context is cancelled, unless the one that reads
\* the socket is stuck on a full queue, or the other one in the engine.
HandlersStop ==
    <>[](ctx = "done" /\ ~HandlersEnded)
        => <>[](crashed \/ QueueJam \/ SweepWedge)

\* A session whose context is cancelled, by Close or with its last stream,
\* closes; only the queue, the sweep, or a stream whose own Close never returns
\* can hold it for ever.
SessionEnds ==
    <>[](connected /\ ctx = "done")
        => <>[]( \/ crashed \/ QueueJam \/ SweepWedge
                \/ \E k \in QStreams : Stuck(k))

=============================================================================
