----------------------- MODULE ServerConnectionProofs -----------------------
(***************************************************************************)
(* What holds of a connection of the server for any number of streams,     *)
(* packets and callers of Close and any capacity of its queues.            *)
(*                                                                         *)
(* Two invariants carry it.  AgreeInv says, for each point at which a      *)
(* callback waits, by which stream the connection differs from the engine  *)
(* connection its id stands for; that one may be replaced at any packet,   *)
(* and what is left of the old ones has the number of an earlier           *)
(* acceptance.  CleanInv says what a Close that got so far has left        *)
(* behind, and that nothing brings it back: once both handlers have ended  *)
(* and the engine has forgotten the connection, no step calls back or      *)
(* accepts any more (Quiet).                                               *)
(***************************************************************************)
EXTENDS ServerConnection, TLAPS

-----------------------------------------------------------------------------
(* The invariants *)

Kinds == {"open", "queue", "tell", "close", "found", "drop"}

\* A packet is with the reader, in the queue or in the batch, or was dropped.
CountInv == qlen + buf + (IF inPc = "idle" THEN 0 ELSE 1) <= packets

\* The stream of that id is open, and the connection does not have its QStream
\* yet; or it has been closed, and the connection may still have it.
Opening(s) == <<"open", s>> \in callback
Shutting(s) == \E x \in {"close", "found", "drop"} : <<x, s>> \in callback

\* A stream is on one side only while a callback is about to put that right.
MatchInv ==
    mapped /\ (leaked => onOpen) =>
        \A s \in Streams :
           \/ Opening(s) \/ Shutting(s)
           \/ s \in engOpen <=> <<s, accepts>> \in streams

\* The engine is in one place at a time, and calls back only for a connection it
\* has under the id; of two QStreams with an id, the younger is in r.streams.
AgreeInv ==
    /\ ~mapped => callback = {} /\ ~freeing /\ engOpen = {}
    /\ procPc = "input" => ~freeing
    /\ mapped => accepts # 0
    /\ \A k \in opened : k[2] <= accepts
    /\ \A k, l \in streams : k[1] = l[1] => k = l
    /\ \A s \in Streams :
          /\ Opening(s) => s \in engOpen
          /\ Shutting(s) => s \notin engOpen
          /\ <<"queue", s>> \in callback \/ <<"tell", s>> \in callback =>
                <<s, accepts>> \in streams
    /\ MatchInv

Types == TypeOK /\ CountInv /\ AgreeInv

\* The connection is out of reach: nobody is left to give the engine a packet,
\* the engine does not know the connection and is not calling back.
Gone == HandlersEnded /\ ~mapped /\ EngineFree

\* What a Close has done so far stays done.
CleanInv ==
    /\ ClosedIsClean
    /\ table = "deleted" => Gone /\ ~registered
    /\ \A c \in Callers :
          /\ clPc[c] \in {"handlers", "engine", "registry", "flag", "flag2"} =>
                shut
          /\ clPc[c] \in {"engine", "registry", "flag", "flag2"} =>
                HandlersEnded
          /\ clPc[c] \in {"registry", "flag", "flag2"} => Gone
          /\ clPc[c] \in {"flag", "flag2"} =>
                (registered => table = "dropped")

Inv == Types /\ CleanInv

-----------------------------------------------------------------------------
(* Types *)

LEMMA Sizes == /\ QueueCap \in Nat /\ AcceptCap \in Nat
               /\ MaxPackets \in Nat /\ MaxAccepts \in Nat
  BY ServerConnectionAssumption

LEMMA TypeKept == ASSUME Types, [Next]_vars PROVE TypeOK'
  <1>1. CASE InPacket
    <2>1. packets' \in 1..MaxPackets
      BY <1>1, Sizes DEF InPacket, Types, TypeOK
    <2>2. QED
      BY <1>1, <2>1
      DEF InPacket, Running, Types, TypeOK, life, link, eng, held, handlers,
          closers
  <1>2. CASE InLock
    BY <1>2, ServerConnectionAssumption
    DEF InLock, Running, Types, TypeOK, life, link, eng, held, reader, handlers,
        closers
  <1>3. CASE InPush
    <2>1. qlen' \in 0..QueueCap
      BY <1>3, Sizes DEF InPush, Types, TypeOK
    <2>2. QED
      BY <1>3, <2>1
      DEF InPush, Running, Types, TypeOK, life, link, eng, held, handlers,
          closers
  <1>4. CASE ProcStop
    BY <1>4
    DEF ProcStop, Running, Types, TypeOK, ProcEnd, life, link, eng, held,
        reader,
        handlers, closers
  <1>5. CASE ProcTake
    <2>1. qlen' \in 0..QueueCap /\ buf' \in 0..MaxPackets
      BY <1>5, Sizes DEF ProcTake, Types, TypeOK, CountInv
    <2>2. QED
      BY <1>5, <2>1
      DEF ProcTake, Running, Types, TypeOK, life, link, eng, held, reader,
          closers
  <1>6. CASE ProcTimer
    BY <1>6
    DEF ProcTimer, Running, Types, TypeOK, life, link, eng, held, reader,
        handlers, closers
  <1>7. CASE ProcMsg
    <2>1. buf' \in 0..MaxPackets
      BY <1>7, Sizes DEF ProcMsg, Types, TypeOK
    <2>2. procPc' \in {"sweep", "input"}
      BY <1>7 DEF ProcMsg
    <2>3. QED
      BY <1>7, <2>1, <2>2
      DEF ProcMsg, Running, Types, TypeOK, life, link, eng, held, reader,
          closers
  <1>39. CASE ProcReceive
    <2> DEFINE Effect == /\ {mapped', dying'} \subseteq BOOLEAN
                         /\ used' \subseteq Streams
                         /\ engOpen' \subseteq used'
                         /\ accepts' \in 0..MaxAccepts
                         /\ callback' \subseteq Kinds \X Streams
    <2>1. Effect
      <3>1. CASE Accepts
        <4>1. accepts' \in 0..MaxAccepts
          BY <3>1, Sizes DEF Accepts, Types, TypeOK
        <4>2. /\ mapped' = TRUE /\ dying' = FALSE
              /\ engOpen' = {} /\ used' = {} /\ callback' = callback
          BY <3>1 DEF Accepts
        <4>3. callback \subseteq Kinds \X Streams
          BY DEF Types, TypeOK, Kinds
        <4>4. QED
          BY <4>1, <4>2, <4>3
      <3>2. CASE Leaves
        BY <3>2 DEF Leaves, Unmap, Types, TypeOK, Kinds
      <3>3. ASSUME NEW s \in Streams, Opens(s) \/ Resets(s)
            PROVE  Effect
        BY <3>3 DEF Opens, Resets, Types, TypeOK, Kinds
      <3>4. QED
        BY <1>39, <3>1, <3>2, <3>3 DEF ProcReceive
    <2>2. UNCHANGED <<life, freeing, leaked, held, reader, handlers, closers,
                      lock, qlen, done, crashed>>
      BY <1>39 DEF ProcReceive, Running
    <2>3. QED
      BY <2>1, <2>2
      DEF Types, TypeOK, Kinds, life, held, reader, handlers, closers
  <1>40. CASE ProcDone
    <2>1. {accepted', dying'} \subseteq BOOLEAN
      BY <1>40 DEF ProcDone, Types, TypeOK
    <2>2. QED
      BY <1>40, <2>1
      DEF ProcDone, Running, Types, TypeOK, life, held, reader, closers
  <1>8. CASE ProcFlush
    <2>1. /\ freeing' \in BOOLEAN /\ done' \in BOOLEAN
          /\ procPc' \in {"select", "batch", "sweep", "input", "write", "freed",
                     "done"}
      BY <1>8 DEF ProcFlush, ProcEnd, Types, TypeOK
    <2>2. UNCHANGED <<life, link, callback, leaked, held, reader, buf,
                      outPc, accepted, closers, lock, qlen, crashed>>
      BY <1>8 DEF ProcFlush, Running
    <2>3. QED
      BY <2>1, <2>2 DEF Types, TypeOK, life, link, held, reader, closers
  <1>9. CASE ProcFreed
    <2>1. /\ done' \in BOOLEAN
          /\ procPc' \in {"select", "batch", "sweep", "input", "write", "freed",
                     "done"}
      BY <1>9 DEF ProcFreed, ProcEnd, Types, TypeOK
    <2>2. UNCHANGED <<life, eng, held, reader, buf, outPc, accepted, closers,
                      lock, qlen, crashed>>
      BY <1>9 DEF ProcFreed, Running
    <2>3. QED
      BY <2>1, <2>2 DEF Types, TypeOK, life, eng, link, held, reader, closers
  <1>10. CASE ProcWrite
    BY <1>10
    DEF ProcWrite, Running, Types, TypeOK, life, link, eng, held, reader,
        handlers, closers
  <1>11. CASE OutAccepted
    BY <1>11
    DEF OutAccepted, Running, Types, TypeOK, life, link, eng, held, reader,
        handlers, closers
  <1>12. CASE OutLoop
    BY <1>12
    DEF OutLoop, Running, Types, TypeOK, life, link, eng, held, reader,
        handlers,
        closers
  <1>13. CASE OutFlush
    <2>1. /\ freeing' \in BOOLEAN /\ done' \in BOOLEAN
          /\ outPc' \in {"accept", "loop", "flush", "write", "freed", "done"}
      BY <1>13 DEF OutFlush, OutEnd, Types, TypeOK
    <2>2. UNCHANGED <<life, link, callback, leaked, held, reader, procPc,
                      buf, accepted, closers, lock, qlen, crashed>>
      BY <1>13 DEF OutFlush, Running
    <2>3. QED
      BY <2>1, <2>2 DEF Types, TypeOK, life, link, held, reader, closers
  <1>14. CASE OutFreed
    <2>1. /\ done' \in BOOLEAN
          /\ outPc' \in {"accept", "loop", "flush", "write", "freed", "done"}
      BY <1>14 DEF OutFreed, OutEnd, Types, TypeOK
    <2>2. UNCHANGED <<life, eng, held, reader, procPc, buf, accepted,
                      closers, lock, qlen, crashed>>
      BY <1>14 DEF OutFreed, Running
    <2>3. QED
      BY <2>1, <2>2 DEF Types, TypeOK, life, eng, link, held, reader, closers
  <1>15. CASE OutWrite
    BY <1>15
    DEF OutWrite, Running, Types, TypeOK, life, link, eng, held, reader,
        handlers, closers
  <1>16. ASSUME NEW s \in Streams, OnStreamOpen(s)
        PROVE  TypeOK'
    <2>1. mapped /\ accepts \in 1..MaxAccepts
      <3>1. <<"open", s>> \in callback
        BY <1>16 DEF OnStreamOpen
      <3>2. mapped /\ accepts # 0
        BY <3>1 DEF Types, AgreeInv
      <3>3. QED
        BY <3>2, Sizes DEF Types, TypeOK
    <2>2. <<s, accepts>> \in QStreams
      BY <2>1 DEF QStreams
    <2>3. CASE streams = {} /\ ~onOpen
      BY <1>16, <2>3
      DEF OnStreamOpen, Running, Types, TypeOK, ProcEnd, life, link, eng, held,
          reader, handlers, closers
    <2>4. CASE ~(streams = {} /\ ~onOpen)
      <3>1. /\ opened' = opened \cup {<<s, accepts>>}
            /\ streams' \subseteq streams \cup {<<s, accepts>>}
        BY <1>16, <2>4 DEF OnStreamOpen
      <3>2. /\ streams' \subseteq opened' /\ told \subseteq opened'
            /\ opened' \subseteq QStreams
        BY <2>2, <3>1 DEF Types, TypeOK
      <3>3. /\ callback' = {<<"queue", s>>}
            /\ UNCHANGED <<leaked, procPc, done>>
            /\ UNCHANGED <<life, link, freeing, told, backlog, reader, buf,
                           outPc, accepted, closers, lock, qlen, crashed>>
        BY <1>16, <2>4 DEF OnStreamOpen, Running
      <3>4. QED
        BY <3>2, <3>3 DEF Types, TypeOK, life, link, reader, closers
    <2>5. QED
      BY <2>3, <2>4
  <1>17. ASSUME NEW s \in Streams, OnStreamQueue(s)
        PROVE  TypeOK'
    <2>1. backlog' \in Seq(QStreams) /\ Len(backlog') <= AcceptCap
      <3>1. backlog \in Seq(QStreams) /\ Len(backlog) <= AcceptCap
        BY DEF Types, TypeOK
      <3>2. <<s, accepts>> \in QStreams
        <4>1. <<"queue", s>> \in callback
          BY <1>17 DEF OnStreamQueue
        <4>2. <<s, accepts>> \in streams
          BY <4>1 DEF Types, AgreeInv
        <4>3. QED
          BY <4>2 DEF Types, TypeOK
      <3>3. CASE backlog' = backlog
        BY <3>1, <3>3
      <3>4. CASE /\ Len(backlog) < AcceptCap
                 /\ backlog' = Append(backlog, <<s, accepts>>)
        <4>1. PICK k \in QStreams : k = <<s, accepts>>
          BY <3>2
        <4>2. /\ Append(backlog, k) \in Seq(QStreams)
              /\ Len(Append(backlog, k)) = Len(backlog) + 1
              /\ Len(backlog) \in Nat
          BY <3>1
        <4>3. QED
          BY <3>4, <4>1, <4>2, Sizes
      <3>5. QED
        BY <1>17, <3>3, <3>4 DEF OnStreamQueue
    <2>2. /\ callback' \subseteq Kinds \X Streams
          /\ leaked' \in BOOLEAN /\ done' \in BOOLEAN
          /\ procPc' \in {"select", "batch", "sweep", "input", "write", "freed",
                         "done"}
      <3>1. callback' \in {{}, {<<"tell", s>>}}
        BY <1>17 DEF OnStreamQueue
      <3>2. UNCHANGED <<leaked, procPc, done>> \/ (leaked' = TRUE /\ ProcEnd)
        BY <1>17 DEF OnStreamQueue
      <3>3. callback' \subseteq Kinds \X Streams
        BY <3>1 DEF Kinds
      <3>4. CASE UNCHANGED <<leaked, procPc, done>>
        BY <3>3, <3>4 DEF Types, TypeOK
      <3>5. CASE leaked' = TRUE /\ ProcEnd
        BY <3>3, <3>5 DEF ProcEnd
      <3>6. QED
        BY <3>2, <3>4, <3>5
    <2>3. UNCHANGED <<life, link, freeing, streams, opened, told, reader, buf,
                      outPc, accepted, closers, lock, qlen, crashed>>
      BY <1>17 DEF OnStreamQueue, Running
    <2>4. QED
      BY <2>1, <2>2, <2>3
      DEF Types, TypeOK, Kinds, life, link, reader, closers
  <1>18. ASSUME NEW s \in Streams, OnStreamTell(s)
        PROVE  TypeOK'
    <2>1. /\ leaked' \in BOOLEAN /\ done' \in BOOLEAN /\ callback' = {}
          /\ procPc' \in {"select", "batch", "sweep", "input", "write", "freed",
                     "done"}
      BY <1>18 DEF OnStreamTell, ProcEnd, Types, TypeOK
    <2>2. UNCHANGED <<life, link, freeing, held, reader, buf, outPc,
                      accepted, closers, lock, qlen, crashed>>
      BY <1>18 DEF OnStreamTell, Running
    <2>3. QED
      BY <2>1, <2>2 DEF Types, TypeOK, life, link, held, reader, closers
  <1>19. ASSUME NEW s \in Streams, OnStreamClose(s)
        PROVE  TypeOK'
    BY <1>19
    DEF OnStreamClose, Running, Types, TypeOK, life, link, eng, held, reader,
        handlers, closers
  <1>20. ASSUME NEW s \in Streams, OnStreamClosed(s)
        PROVE  TypeOK'
    <2>1. told' \subseteq opened
      BY <1>20 DEF OnStreamClosed, Entry, Types, TypeOK
    <2>2. QED
      BY <1>20, <2>1
      DEF OnStreamClosed, Running, Types, TypeOK, life, link, reader, handlers,
          closers
  <1>21. ASSUME NEW s \in Streams, OnStreamDrop(s)
        PROVE  TypeOK'
    BY <1>21
    DEF OnStreamDrop, Running, Types, TypeOK, life, link, eng, held, reader,
        handlers, closers
  <1>22. ASSUME NEW k \in Closings, StreamClose(k)
        PROVE  TypeOK'
    <2>1. stPc' \in [Closings -> {"no", "check", "sync", "reset", "flush",
                                "write", "wait", "done"}]
      BY <1>22 DEF StreamClose, Types, TypeOK
    <2>2. QED
      BY <1>22, <2>1
      DEF StreamClose, Running, Types, TypeOK, life, link, eng, held,
          reader, handlers
  <1>23. ASSUME NEW k \in Closings, StreamSynced(k)
        PROVE  TypeOK'
    <2>1. stPc' \in [Closings -> {"no", "check", "sync", "reset", "flush",
                                "write", "wait", "done"}]
      BY <1>23 DEF StreamSynced, Types, TypeOK
    <2>2. QED
      BY <1>23, <2>1
      DEF StreamSynced, Running, Types, TypeOK, life, link, eng, held,
          reader, handlers
  <1>24. ASSUME NEW k \in Closings, StreamReset(k)
        PROVE  TypeOK'
    <2>1. stPc' \in [Closings -> {"no", "check", "sync", "reset", "flush",
                                "write", "wait", "done"}]
      BY <1>24 DEF StreamReset, Types, TypeOK
    <2>2. QED
      BY <1>24, <2>1
      DEF StreamReset, Running, Types, TypeOK, life, link, held, reader,
          handlers
  <1>25. ASSUME NEW k \in Closings, StreamFlush(k)
        PROVE  TypeOK'
    <2>1. freeing' \in BOOLEAN
      BY <1>25 DEF StreamFlush, Types, TypeOK
    <2>2. stPc' \in [Closings -> {"no", "check", "sync", "reset", "flush",
                                "write", "wait", "done"}]
      BY <1>25 DEF StreamFlush, Types, TypeOK
    <2>3. QED
      BY <1>25, <2>1, <2>2
      DEF StreamFlush, Running, Types, TypeOK, life, link, held, reader,
          handlers
  <1>26. ASSUME NEW k \in Closings, StreamWrite(k)
        PROVE  TypeOK'
    <2>1. stPc' \in [Closings -> {"no", "check", "sync", "reset", "flush",
                                "write", "wait", "done"}]
      BY <1>26 DEF StreamWrite, Types, TypeOK
    <2>2. QED
      BY <1>26, <2>1
      DEF StreamWrite, Running, Types, TypeOK, life, link, eng, held,
          reader, handlers
  <1>27. ASSUME NEW k \in Closings, StreamClosed(k)
        PROVE  TypeOK'
    <2>1. stPc' \in [Closings -> {"no", "check", "sync", "reset", "flush",
                                "write", "wait", "done"}]
      BY <1>27 DEF StreamClosed, Types, TypeOK
    <2>2. QED
      BY <1>27, <2>1
      DEF StreamClosed, Running, Types, TypeOK, life, link, eng, held,
          reader, handlers
  <1>28. CASE FreeStream
    BY <1>28
    DEF FreeStream, Running, Types, TypeOK, life, link, eng, held, reader,
        handlers, closers
  <1>29. CASE FreeConnection
    <2>1. /\ mapped' = FALSE /\ dying' = FALSE /\ freeing' = FALSE
          /\ engOpen' = {} /\ used' = {} /\ accepts' = accepts
      BY <1>29 DEF FreeConnection, Unmap
    <2>2. UNCHANGED <<life, callback, leaked, held, reader, handlers, closers,
                      lock, qlen, done, crashed>>
      BY <1>29 DEF FreeConnection, Running
    <2>3. {mapped', dying', freeing', leaked', crashed'} \subseteq BOOLEAN
      BY <2>1, <2>2 DEF Types, TypeOK
    <2>4. QED
      BY <2>1, <2>2, <2>3
      DEF Types, TypeOK, life, held, reader, handlers, closers
  <1>30. CASE AutoClose
    <2>1. clPc' \in [Callers -> {"await", "idle", "join", "handlers", "engine",
                               "registry", "flag", "flag2", "done"}]
      BY <1>30 DEF AutoClose, Types, TypeOK
    <2>2. QED
      BY <1>30, <2>1
      DEF AutoClose, Running, Types, TypeOK, life, link, eng, held, reader,
          handlers
  <1>31. ASSUME NEW c \in Callers, CloseCall(c)
        PROVE  TypeOK'
    <2>1. stPc' \in [Closings -> {"no", "check", "sync", "reset", "flush",
                                "write", "wait", "done"}]
      BY <1>31 DEF CloseCall, Types, TypeOK
    <2>2. clPc' \in [Callers -> {"await", "idle", "join", "handlers", "engine",
                               "registry", "flag", "flag2", "done"}]
      BY <1>31 DEF CloseCall, Types, TypeOK
    <2>3. /\ closing' \in BOOLEAN /\ done' \in BOOLEAN
          /\ table' \in {"has", "deleted", "dropped"}
          /\ lock' \in Callers \cup {Reader, None}
      BY <1>31 DEF CloseCall, Types, TypeOK
    <2>4. UNCHANGED <<started, registered, shut, onOpen, eng, held, reader,
                      handlers, qlen, crashed>>
      BY <1>31 DEF CloseCall, Running
    <2>5. QED
      BY <2>1, <2>2, <2>3, <2>4
      DEF Types, TypeOK, link, eng, held, reader, handlers
  <1>32. ASSUME NEW c \in Callers, CloseShut(c)
        PROVE  TypeOK'
    <2>1. clPc' \in [Callers -> {"await", "idle", "join", "handlers", "engine",
                               "registry", "flag", "flag2", "done"}]
      BY <1>32 DEF CloseShut, Types, TypeOK
    <2>2. QED
      BY <1>32, <2>1
      DEF CloseShut, Running, Types, TypeOK, link, eng, held, reader, handlers
  <1>33. ASSUME NEW c \in Callers, CloseHandlers(c)
        PROVE  TypeOK'
    <2>1. clPc' \in [Callers -> {"await", "idle", "join", "handlers", "engine",
                               "registry", "flag", "flag2", "done"}]
      BY <1>33 DEF CloseHandlers, Types, TypeOK
    <2>2. QED
      BY <1>33, <2>1
      DEF CloseHandlers, Running, Types, TypeOK, life, link, eng, held,
          reader, handlers
  <1>34. ASSUME NEW c \in Callers, CloseEngine(c)
        PROVE  TypeOK'
    <2>1. clPc' \in [Callers -> {"await", "idle", "join", "handlers", "engine",
                               "registry", "flag", "flag2", "done"}]
      BY <1>34 DEF CloseEngine, Types, TypeOK
    <2>2. /\ mapped' \in BOOLEAN /\ dying' \in BOOLEAN
          /\ used' \subseteq Streams /\ engOpen' \subseteq used'
          /\ accepts' \in 0..MaxAccepts
          /\ table' \in {"has", "deleted", "dropped"}
          /\ registered' \in BOOLEAN
      BY <1>34 DEF CloseEngine, Delete, Unmap, link, Types, TypeOK
    <2>3. QED
      BY <1>34, <2>1, <2>2
      DEF CloseEngine, Running, Types, TypeOK, held, reader, handlers
  <1>35. ASSUME NEW c \in Callers, CloseFlag(c)
        PROVE  TypeOK'
    <2>1. clPc' \in [Callers -> {"await", "idle", "join", "handlers", "engine",
                               "registry", "flag", "flag2", "done"}]
      BY <1>35 DEF CloseFlag, Types, TypeOK
    <2>2. closing' \in BOOLEAN /\ started' \in BOOLEAN
      BY <1>35 DEF CloseFlag, Types, TypeOK
    <2>3. QED
      BY <1>35, <2>1, <2>2
      DEF CloseFlag, Running, Types, TypeOK, link, eng, held, reader, handlers
  <1>36. CASE Accept
    <2>1. backlog' \in Seq(QStreams) /\ Len(backlog') <= AcceptCap
      BY <1>36, Sizes DEF Accept, Types, TypeOK
    <2>2. QED
      BY <1>36, <2>1
      DEF Accept, Running, Types, TypeOK, life, link, eng, reader, handlers,
          closers
  <1>37. CASE UNCHANGED vars
    BY <1>37
    DEF Types, TypeOK, vars, life, link, eng, held, reader, handlers, closers
  <1>38. QED
    BY <1>1, <1>2, <1>3, <1>4, <1>5, <1>6, <1>7, <1>8, <1>9, <1>10, <1>11,
       <1>12, <1>13, <1>14, <1>15, <1>16, <1>17, <1>18, <1>19, <1>20,
       <1>21, <1>22, <1>23, <1>24, <1>25, <1>26, <1>27, <1>28, <1>29,
       <1>30, <1>31, <1>32, <1>33, <1>34, <1>35, <1>36, <1>37, <1>39, <1>40
    DEF Next, ProcStep, OutStep, CallbackStep, StreamStep, CloseStep

\* Each packet is counted once.
LEMMA CountKept == ASSUME Types, [Next]_vars PROVE CountInv'
  <1> USE Sizes DEF Types, TypeOK, CountInv
  <1>1. CASE InPacket
    <2>1. /\ packets' = packets + 1 /\ inPc = "idle" /\ inPc' = "lock"
          /\ UNCHANGED <<qlen, buf>>
      BY <1>1 DEF InPacket, handlers
    <2>2. qlen \in Nat /\ buf \in Nat /\ packets \in Nat
      OBVIOUS
    <2>3. qlen + buf <= packets
      BY <2>1, <2>2
    <2>4. QED
      BY <2>1, <2>2, <2>3
  <1>2. CASE InLock
    BY <1>2 DEF InLock, handlers
  <1>3. CASE InPush
    BY <1>3 DEF InPush, handlers
  <1>4. CASE ProcTake
    BY <1>4 DEF ProcTake, reader
  <1>5. CASE ProcMsg
    BY <1>5 DEF ProcMsg, reader
  <1>6. CASE UNCHANGED <<qlen, buf, reader>>
    BY <1>6 DEF reader
  <1>7. ASSUME \/ ProcStop \/ ProcTimer \/ ProcReceive \/ ProcDone
               \/ ProcFlush \/ ProcFreed \/ ProcWrite
        PROVE  UNCHANGED <<qlen, buf, reader>>
    BY <1>7
    DEF ProcStop, ProcTimer, ProcReceive, ProcDone, ProcFlush, ProcFreed,
        ProcWrite, handlers
  <1>8. ASSUME OutStep \/ FreeStream \/ FreeConnection \/ AutoClose \/ Accept
        PROVE  UNCHANGED <<qlen, buf, reader>>
    BY <1>8
    DEF OutStep, OutAccepted, OutLoop, OutFlush, OutFreed, OutWrite, FreeStream,
        FreeConnection, AutoClose, Accept, handlers
  <1>9. ASSUME NEW s \in Streams, CallbackStep(s)
        PROVE  UNCHANGED <<qlen, buf, reader>>
    BY <1>9
    DEF CallbackStep, OnStreamOpen, OnStreamQueue, OnStreamTell, OnStreamClose,
        OnStreamClosed, OnStreamDrop, handlers
  <1>10. ASSUME NEW k \in Closings,
                StreamClose(k) \/ StreamSynced(k) \/ StreamStep(k)
         PROVE  UNCHANGED <<qlen, buf, reader>>
    BY <1>10
    DEF StreamClose, StreamSynced, StreamStep, StreamReset, StreamFlush,
        StreamWrite, StreamClosed, handlers
  <1>11. ASSUME NEW c \in Callers, CloseCall(c) \/ CloseShut(c) \/ CloseStep(c)
         PROVE  UNCHANGED <<qlen, buf, reader>>
    BY <1>11
    DEF CloseCall, CloseShut, CloseStep, CloseHandlers, CloseEngine, CloseFlag,
        handlers
  <1>12. CASE UNCHANGED vars
    BY <1>6, <1>12 DEF vars, handlers
  <1>13. QED
    BY <1>1, <1>2, <1>3, <1>4, <1>5, <1>6, <1>7, <1>8, <1>9, <1>10, <1>11, <1>12
    DEF Next, ProcStep

-----------------------------------------------------------------------------
(* The engine and the connection *)

agreeVars == <<link, callback, freeing, leaked, onOpen, streams, opened>>

\* A stream's number is that of the latest acceptance at most.
LEMMA Numbers ==
    ASSUME Types, NEW s \in Streams, NEW n \in Nat, n > accepts
    PROVE  <<s, n>> \notin streams
  <1>1. SUFFICES ASSUME <<s, n>> \in streams PROVE FALSE
    OBVIOUS
  <1>2. <<s, n>> \in opened
    BY <1>1 DEF Types, TypeOK
  <1>3. n <= accepts
    BY <1>2 DEF Types, AgreeInv
  <1>4. QED
    BY <1>3, Sizes DEF Types, TypeOK

\* The engine gives up a stream, and calls back.
LEMMA AgreeReset ==
    ASSUME Types, NEW s \in engOpen, mapped, callback = {},
           engOpen' = engOpen \ {s}, callback' = {<<"close", s>>},
           UNCHANGED <<mapped, accepts, leaked, onOpen, streams, opened>>,
           procPc' = "input" => ~freeing'
    PROVE  AgreeInv'
  <1>1. \A q \in Streams : /\ ~Opening(q)'
                           /\ Shutting(q)' <=> q = s
    BY DEF Opening, Shutting
  <1>2. MatchInv'
    <2>1. SUFFICES ASSUME (leaked => onOpen), NEW q \in Streams, q # s
                   PROVE  q \in engOpen <=> <<q, accepts>> \in streams
      BY <1>1 DEF MatchInv
    <2>2. ~Opening(q) /\ ~Shutting(q)
      BY DEF Opening, Shutting
    <2>3. QED
      BY <2>1, <2>2 DEF Types, AgreeInv, MatchInv
  <1>3. QED
    BY <1>1, <1>2 DEF Types, AgreeInv

\* What a packet does.
LEMMA AgreeReceive == ASSUME Types, ProcReceive PROVE AgreeInv'
  <1>1. /\ callback = {} /\ ~freeing
        /\ UNCHANGED <<freeing, leaked, onOpen, streams, opened, procPc>>
    BY DEF ProcReceive, Types, AgreeInv, life, held, handlers
  <1>2. \A s \in Streams : ~Opening(s) /\ ~Shutting(s)
    BY <1>1 DEF Opening, Shutting
  <1>3. CASE Accepts
    <2>1. /\ callback' = {} /\ mapped' /\ engOpen' = {}
          /\ accepts' = accepts + 1
      BY <1>1, <1>3 DEF Accepts
    <2>2. accepts \in Nat
      BY Sizes DEF Types, TypeOK
    <2>3. \A s \in Streams : <<s, accepts'>> \notin streams
      BY <2>1, <2>2, Numbers
    <2>4. \A k \in opened : k[2] <= accepts + 1
      <3>1. SUFFICES ASSUME NEW k \in opened PROVE k[2] <= accepts + 1
        OBVIOUS
      <3>2. k[2] <= accepts
        BY DEF Types, AgreeInv
      <3>3. k[2] \in 1..MaxAccepts
        BY DEF Types, TypeOK, QStreams
      <3>4. QED
        BY <2>2, <3>2, <3>3, Sizes
    <2>5. \A s \in Streams : ~Opening(s)' /\ ~Shutting(s)'
      BY <2>1 DEF Opening, Shutting
    <2>6. MatchInv'
      BY <1>1, <2>1, <2>3 DEF MatchInv
    <2>7. accepts' # 0
      BY <2>1, <2>2
    <2>8. QED
      BY <1>1, <2>1, <2>4, <2>5, <2>6, <2>7 DEF Types, AgreeInv
  <1>4. CASE Leaves
    <2>1. callback' = {} /\ ~mapped' /\ engOpen' = {} /\ accepts' = accepts
      BY <1>1, <1>4 DEF Leaves, Unmap
    <2>2. \A s \in Streams : ~Opening(s)' /\ ~Shutting(s)'
      BY <2>1 DEF Opening, Shutting
    <2>3. MatchInv'
      BY <2>1 DEF MatchInv
    <2>4. QED
      BY <1>1, <2>1, <2>2, <2>3 DEF Types, AgreeInv
  <1>5. ASSUME NEW s \in Streams, Opens(s)
        PROVE  AgreeInv'
    <2>1. /\ mapped /\ mapped' /\ accepts' = accepts
          /\ engOpen' = engOpen \cup {s} /\ callback' = {<<"open", s>>}
      BY <1>5 DEF Opens
    <2>2. \A q \in Streams : /\ Opening(q)' <=> q = s
                             /\ ~Shutting(q)'
      BY <2>1 DEF Opening, Shutting
    <2>3. MatchInv'
      <3>1. SUFFICES ASSUME (leaked => onOpen), NEW q \in Streams, q # s
                     PROVE  q \in engOpen <=> <<q, accepts>> \in streams
        BY <1>1, <2>1, <2>2 DEF MatchInv
      <3>2. QED
        BY <1>2, <2>1, <3>1 DEF Types, AgreeInv, MatchInv
    <2>4. QED
      BY <1>1, <2>1, <2>2, <2>3 DEF Types, AgreeInv
  <1>6. ASSUME NEW s \in Streams, Resets(s)
        PROVE  AgreeInv'
    BY <1>1, <1>6, AgreeReset DEF Resets
  <1>7. QED
    BY <1>3, <1>4, <1>5, <1>6 DEF ProcReceive

\* What a callback does, from one of the points at which it waits to the next.
LEMMA AgreeCallback ==
    ASSUME Types, NEW s \in Streams, CallbackStep(s)
    PROVE  AgreeInv'
  <1>1. /\ mapped /\ accepts # 0
        /\ UNCHANGED <<mapped, accepts, engOpen, freeing, onOpen>>
        /\ procPc' = "input" => procPc = "input"
    BY DEF CallbackStep, OnStreamOpen, OnStreamQueue, OnStreamTell,
           OnStreamClose, OnStreamClosed, OnStreamDrop, ProcEnd, Types,
           AgreeInv, link, life, handlers
  <1>2. PICK x \in Kinds : callback = {<<x, s>>}
    BY DEF CallbackStep, OnStreamOpen, OnStreamQueue, OnStreamTell,
           OnStreamClose, OnStreamClosed, OnStreamDrop, Kinds
  <1>3. \A q \in Streams : q # s => ~Opening(q) /\ ~Shutting(q)
    BY <1>2 DEF Opening, Shutting
  <1>4. \A q \in Streams :
           q # s /\ (leaked => onOpen) =>
              (q \in engOpen <=> <<q, accepts>> \in streams)
    BY <1>1, <1>3 DEF Types, AgreeInv, MatchInv
  <1>5. CASE OnStreamOpen(s)
    <2>1. s \in engOpen
      <3>1. Opening(s)
        BY <1>5 DEF OnStreamOpen, Opening
      <3>2. QED
        BY <3>1 DEF Types, AgreeInv
    <2>2. CASE streams = {} /\ ~onOpen
      <3>1. /\ leaked' /\ ~onOpen' /\ callback' = {}
            /\ UNCHANGED <<streams, opened>>
        BY <1>1, <1>5, <2>2 DEF OnStreamOpen
      <3>2. \A q \in Streams : ~Opening(q)' /\ ~Shutting(q)'
        BY <3>1 DEF Opening, Shutting
      <3>3. MatchInv'
        BY <3>1 DEF MatchInv
      <3>4. QED
        BY <1>1, <3>1, <3>2, <3>3 DEF Types, AgreeInv
    <2>3. CASE ~(streams = {} /\ ~onOpen)
      <3>1. /\ leaked' = leaked /\ callback' = {<<"queue", s>>}
            /\ streams' = (streams \ Entry(s)) \cup {<<s, accepts>>}
            /\ opened' = opened \cup {<<s, accepts>>}
        BY <1>5, <2>3 DEF OnStreamOpen
      <3>2. \A q \in Streams : ~Opening(q)' /\ ~Shutting(q)'
        BY <3>1 DEF Opening, Shutting
      <3>3. \A q \in Streams :
               q # s => (<<q, accepts>> \in streams'
                            <=> <<q, accepts>> \in streams)
        BY <3>1 DEF Entry
      <3>4. <<s, accepts>> \in streams'
        BY <3>1
      <3>5. MatchInv'
        <4>1. SUFFICES ASSUME (leaked => onOpen), NEW q \in Streams
                       PROVE  q \in engOpen <=> <<q, accepts>> \in streams'
          BY <1>1, <3>1 DEF MatchInv
        <4>2. CASE q = s
          BY <2>1, <3>4, <4>2
        <4>3. CASE q # s
          BY <1>4, <3>3, <4>1, <4>3
        <4>4. QED
          BY <4>2, <4>3
      <3>6. \A k, l \in streams' : k[1] = l[1] => k = l
        BY <3>1 DEF Entry, Types, AgreeInv
      <3>7. \A k \in opened' : k[2] <= accepts
        <4>1. accepts <= accepts
          BY Sizes DEF Types, TypeOK
        <4>2. QED
          BY <3>1, <4>1 DEF Types, AgreeInv
      <3>8. QED
        BY <1>1, <3>1, <3>2, <3>4, <3>5, <3>6, <3>7 DEF Types, AgreeInv
    <2>4. QED
      BY <2>2, <2>3
  <1>6. CASE OnStreamQueue(s) \/ OnStreamTell(s)
    <2>1. \/ callback = {<<"queue", s>>}
          \/ callback = {<<"tell", s>>}
      BY <1>6 DEF OnStreamQueue, OnStreamTell
    <2>2. /\ UNCHANGED <<streams, opened>>
          /\ leaked' \in {leaked, TRUE}
          /\ callback' \in {{}, {<<"tell", s>>}}
      BY <1>6 DEF OnStreamQueue, OnStreamTell, held
    <2>3. <<s, accepts>> \in streams
      BY <2>1 DEF Types, AgreeInv
    <2>4. ~Opening(s) /\ ~Shutting(s)
      BY <2>1 DEF Opening, Shutting
    <2>5. \A q \in Streams : ~Opening(q)' /\ ~Shutting(q)'
      BY <2>2 DEF Opening, Shutting
    <2>6. leaked \in BOOLEAN
      BY DEF Types, TypeOK
    <2>7. MatchInv'
      <3>1. SUFFICES ASSUME (leaked' => onOpen), NEW q \in Streams
                     PROVE  q \in engOpen <=> <<q, accepts>> \in streams
        BY <1>1, <2>2 DEF MatchInv
      <3>2. leaked => onOpen
        BY <2>2, <2>6, <3>1
      <3>3. QED
        BY <1>1, <1>3, <2>4, <3>2 DEF Types, AgreeInv, MatchInv
    <2>8. \A q \in Streams :
             <<"queue", q>> \in callback' \/ <<"tell", q>> \in callback'
                => q = s
      BY <2>2
    <2>9. QED
      BY <1>1, <2>2, <2>3, <2>5, <2>7, <2>8 DEF Types, AgreeInv
  <1>7. CASE OnStreamClose(s) \/ OnStreamClosed(s) \/ OnStreamDrop(s)
    <2>1. s \notin engOpen
      <3>1. Shutting(s)
        BY <1>7 DEF OnStreamClose, OnStreamClosed, OnStreamDrop, Shutting
      <3>2. QED
        BY <3>1 DEF Types, AgreeInv
    <2>2. /\ leaked' = leaked /\ opened' = opened
          /\ \/ callback' \in {{<<"found", s>>}, {<<"drop", s>>}}
                /\ streams' = streams
             \/ callback' = {} /\ streams' = streams \ Entry(s)
      <3>1. CASE OnStreamClose(s)
        <4>1. Entry(s) = {} => streams = streams \ Entry(s)
          OBVIOUS
        <4>2. QED
          BY <3>1, <4>1 DEF OnStreamClose, held
      <3>2. CASE OnStreamClosed(s) \/ OnStreamDrop(s)
        BY <3>2 DEF OnStreamClosed, OnStreamDrop
      <3>3. QED
        BY <1>7, <3>1, <3>2
    <2>3. \A q \in Streams : /\ ~Opening(q)'
                             /\ Shutting(q)' => q = s
                             /\ callback' # {} => Shutting(s)'
      BY <2>2 DEF Opening, Shutting
    <2>4. /\ \A q \in Streams :
                q # s => (<<q, accepts>> \in streams'
                             <=> <<q, accepts>> \in streams)
          /\ callback' = {} => <<s, accepts>> \notin streams'
          /\ streams' \subseteq streams
      BY <2>2 DEF Entry
    <2>5. MatchInv'
      <3>1. SUFFICES ASSUME (leaked => onOpen), NEW q \in Streams,
                            ~Shutting(q)'
                     PROVE  q \in engOpen <=> <<q, accepts>> \in streams'
        BY <1>1, <2>2 DEF MatchInv
      <3>2. CASE q = s
        BY <2>1, <2>3, <2>4, <3>1, <3>2
      <3>3. CASE q # s
        BY <1>4, <2>4, <3>1, <3>3
      <3>4. QED
        BY <3>2, <3>3
    <2>6. \A q \in Streams :
             <<"queue", q>> \notin callback' /\ <<"tell", q>> \notin callback'
      BY <2>2
    <2>7. QED
      BY <1>1, <2>1, <2>2, <2>3, <2>4, <2>5, <2>6 DEF Types, AgreeInv
  <1>8. QED
    BY <1>5, <1>6, <1>7 DEF CallbackStep

\* A step that leaves the streams as they are, and may start to free.
LEMMA AgreeSame ==
    ASSUME Types, UNCHANGED <<mapped, engOpen, accepts, callback, leaked,
                              onOpen, streams, opened>>,
           ~mapped \/ procPc' = "input" => ~freeing'
    PROVE  AgreeInv'
  BY DEF Types, AgreeInv, MatchInv, Opening, Shutting

\* The engine forgets the connection.
LEMMA AgreeUnmap ==
    ASSUME Types, Unmap, callback' = {}, ~freeing',
           UNCHANGED <<streams, opened>>
    PROVE  AgreeInv'
  BY DEF Unmap, Types, AgreeInv, MatchInv, Opening, Shutting

LEMMA AgreeKept == ASSUME Types, [Next]_vars PROVE AgreeInv'
  <1>1. CASE ProcReceive
    BY <1>1, AgreeReceive
  <1>2. ASSUME NEW s \in Streams, CallbackStep(s)
        PROVE  AgreeInv'
    BY <1>2, AgreeCallback
  <1>3. CASE FreeStream
    <2>1. PICK s \in engOpen :
             engOpen' = engOpen \ {s} /\ callback' = {<<"close", s>>}
      BY <1>3 DEF FreeStream
    <2>2. mapped /\ freeing /\ callback = {} /\ procPc' # "input"
      BY <1>3 DEF FreeStream, Types, AgreeInv, handlers
    <2>3. UNCHANGED <<mapped, accepts, leaked, onOpen, streams, opened>>
      BY <1>3 DEF FreeStream, life, held
    <2>4. QED
      BY <2>1, <2>2, <2>3, AgreeReset
  <1>4. CASE FreeConnection
    BY <1>4, AgreeUnmap DEF FreeConnection, held
  <1>5. ASSUME NEW k \in Closings, StreamReset(k)
        PROVE  AgreeInv'
    <2>1. /\ callback = {} /\ ~freeing /\ freeing' = freeing
          /\ UNCHANGED <<mapped, accepts, leaked, onOpen, streams, opened>>
      BY <1>5 DEF StreamReset, EngineFree, life, held
    <2>2. CASE mapped /\ k[1][1] \in engOpen
      <3>1. /\ engOpen' = engOpen \ {k[1][1]}
            /\ callback' = {<<"close", k[1][1]>>}
        BY <1>5, <2>2 DEF StreamReset
      <3>2. QED
        BY <2>1, <2>2, <3>1, AgreeReset
    <2>3. CASE ~(mapped /\ k[1][1] \in engOpen)
      BY <1>5, <2>1, <2>3, AgreeSame DEF StreamReset
    <2>4. QED
      BY <2>2, <2>3
  <1>6. CASE ProcMsg
    <2>1. ~freeing /\ freeing' = freeing
      BY <1>6 DEF ProcMsg, EngineFree, eng
    <2>2. QED
      BY <1>6, <2>1, AgreeSame DEF ProcMsg, life, eng, link, held
  <1>7. CASE ProcDone
    <2>1. ~freeing /\ freeing' = freeing
      BY <1>7 DEF ProcDone, Types, AgreeInv
    <2>2. QED
      BY <1>7, <2>1, AgreeSame DEF ProcDone, life, held
  <1>8. CASE ProcFlush
    <2>1. (~mapped => ~freeing') /\ procPc' # "input"
      BY <1>8 DEF ProcFlush, ProcEnd, EngineFree
    <2>2. QED
      BY <1>8, <2>1, AgreeSame DEF ProcFlush, life, link, held
  <1>9. CASE OutFlush
    <2>1. (~mapped => ~freeing') /\ procPc' # "input"
      BY <1>9 DEF OutFlush, EngineFree
    <2>2. QED
      BY <1>9, <2>1, AgreeSame DEF OutFlush, life, link, held
  <1>10. ASSUME NEW k \in Closings, StreamFlush(k)
         PROVE  AgreeInv'
    <2>1. (~mapped => ~freeing') /\ procPc' # "input"
      <3>1. ~freeing /\ procPc # "input" /\ procPc' = procPc
        BY <1>10 DEF StreamFlush, EngineFree, handlers
      <3>2. freeing' = freeing \/ freeing' \in {FALSE, mapped}
        BY <1>10 DEF StreamFlush
      <3>3. ~mapped => freeing' = FALSE
        <4>1. freeing \in BOOLEAN /\ mapped \in BOOLEAN
          BY DEF Types, TypeOK
        <4>2. CASE freeing' = freeing
          BY <3>1, <4>1, <4>2
        <4>3. CASE freeing' \in {FALSE, mapped}
          BY <4>1, <4>3
        <4>4. QED
          BY <3>2, <4>2, <4>3
      <3>4. QED
        BY <3>1, <3>3
    <2>2. QED
      BY <1>10, <2>1, AgreeSame DEF StreamFlush, life, link, held
  <1>11. ASSUME NEW c \in Callers, CloseEngine(c)
         PROVE  AgreeInv'
    <2>1. CASE UNCHANGED link
      <3>1. UNCHANGED <<freeing, procPc>>
        BY <1>11 DEF CloseEngine, handlers
      <3>2. ~mapped \/ procPc = "input" => ~freeing
        BY DEF Types, AgreeInv
      <3>3. QED
        BY <1>11, <2>1, <3>1, <3>2, AgreeSame DEF CloseEngine, link, held
    <2>2. CASE Unmap /\ EngineFree
      BY <1>11, <2>2, AgreeUnmap DEF CloseEngine, EngineFree, held
    <2>3. QED
      BY <1>11, <2>1, <2>2 DEF CloseEngine
  <1>12. ASSUME UNCHANGED agreeVars, procPc' = "input" => procPc = "input"
         PROVE  AgreeInv'
    <2>1. ~mapped \/ procPc' = "input" => ~freeing'
      BY <1>12 DEF agreeVars, Types, AgreeInv
    <2>2. QED
      BY <1>12, <2>1, AgreeSame DEF agreeVars, link
  <1>13. ASSUME \/ InPacket \/ InLock \/ InPush
                \/ ProcStop \/ ProcTake \/ ProcTimer \/ ProcFreed \/ ProcWrite
         PROVE  UNCHANGED agreeVars /\ (procPc' = "input" => procPc = "input")
    BY <1>13
    DEF InPacket, InLock, InPush, ProcStop, ProcTake, ProcTimer, ProcFreed,
        ProcWrite, ProcEnd, agreeVars, eng, held, life, handlers
  <1>14. ASSUME \/ OutAccepted \/ OutLoop \/ OutFreed \/ OutWrite
                \/ AutoClose \/ Accept
         PROVE  UNCHANGED agreeVars /\ (procPc' = "input" => procPc = "input")
    BY <1>14
    DEF OutAccepted, OutLoop, OutFreed, OutWrite, AutoClose, Accept, agreeVars,
        eng, held, life, handlers
  <1>15. ASSUME NEW k \in Closings,
                \/ StreamClose(k) \/ StreamSynced(k) \/ StreamWrite(k)
                \/ StreamClosed(k)
         PROVE  UNCHANGED agreeVars /\ (procPc' = "input" => procPc = "input")
    BY <1>15
    DEF StreamClose, StreamSynced, StreamWrite, StreamClosed, agreeVars, eng,
        held, life, handlers
  <1>16. ASSUME NEW c \in Callers,
                \/ CloseCall(c) \/ CloseShut(c) \/ CloseHandlers(c)
                \/ CloseFlag(c)
         PROVE  UNCHANGED agreeVars /\ (procPc' = "input" => procPc = "input")
    BY <1>16
    DEF CloseCall, CloseShut, CloseHandlers, CloseFlag, agreeVars, eng, held,
        life, handlers
  <1>17. CASE UNCHANGED vars
    BY <1>12, <1>17 DEF vars, agreeVars, eng, held, life, handlers
  <1>18. QED
    BY <1>1, <1>2, <1>3, <1>4, <1>5, <1>6, <1>7, <1>8, <1>9, <1>10, <1>11,
       <1>12, <1>13, <1>14, <1>15, <1>16, <1>17
    DEF Next, ProcStep, OutStep, StreamStep, CloseStep

-----------------------------------------------------------------------------
(* What a Close leaves behind *)

\* A handler that has ended does nothing more.
LEMMA HandlersRest ==
    ASSUME HandlersEnded, ProcStop \/ ProcReceive \/ ProcStep \/ OutStep
    PROVE  FALSE
  BY DEF HandlersEnded, ProcStop, ProcStep, ProcTake, ProcTimer, ProcMsg,
         ProcReceive, ProcDone, ProcFlush, ProcFreed, ProcWrite, OutStep,
         OutAccepted, OutLoop, OutFlush, OutFreed, OutWrite

\* Handlers that have ended stay so.
LEMMA HandlersStay == ASSUME HandlersEnded, [Next]_vars PROVE HandlersEnded'
  <1>1. ~(ProcStop \/ ProcReceive \/ ProcStep \/ OutStep)
    BY HandlersRest
  <1>2. CASE InPacket \/ InLock \/ InPush
    BY <1>2 DEF InPacket, InLock, InPush, HandlersEnded, handlers
  <1>3. ASSUME NEW s \in Streams, CallbackStep(s)
        PROVE  HandlersEnded'
    BY <1>3
    DEF CallbackStep, OnStreamOpen, OnStreamQueue, OnStreamTell, OnStreamClose,
        OnStreamClosed, OnStreamDrop, ProcEnd, HandlersEnded, handlers
  <1>4. ASSUME NEW k \in Closings,
               StreamClose(k) \/ StreamSynced(k) \/ StreamStep(k)
        PROVE  HandlersEnded'
    BY <1>4
    DEF StreamClose, StreamSynced, StreamStep, StreamReset, StreamFlush,
        StreamWrite, StreamClosed, HandlersEnded, handlers
  <1>5. CASE FreeStream \/ FreeConnection \/ AutoClose \/ Accept
    BY <1>5
    DEF FreeStream, FreeConnection, AutoClose, Accept, HandlersEnded, handlers
  <1>6. ASSUME NEW c \in Callers, CloseCall(c) \/ CloseShut(c) \/ CloseStep(c)
        PROVE  HandlersEnded'
    BY <1>6
    DEF CloseCall, CloseShut, CloseStep, CloseHandlers, CloseEngine, CloseFlag,
        HandlersEnded, handlers
  <1>7. CASE UNCHANGED vars
    BY <1>7 DEF vars, HandlersEnded, handlers
  <1>8. QED
    BY <1>1, <1>2, <1>3, <1>4, <1>5, <1>6, <1>7 DEF Next

\* A connection out of reach stays so.
LEMMA Quiet == ASSUME Gone, Types, [Next]_vars PROVE Gone'
  <1>1. HandlersEnded'
    BY HandlersStay DEF Gone
  <1>2. ~(ProcStop \/ ProcReceive \/ ProcStep \/ OutStep)
    BY HandlersRest DEF Gone
  <1>3. CASE UNCHANGED eng
    <2>1. procPc' = "done"
      BY <1>1 DEF HandlersEnded
    <2>2. QED
      BY <1>1, <1>3, <2>1 DEF eng, link, Gone, EngineFree
  <1>4. ASSUME InPacket \/ InLock \/ InPush \/ AutoClose \/ Accept
        PROVE  Gone'
    BY <1>3, <1>4 DEF InPacket, InLock, InPush, AutoClose, Accept
  <1>5. ~(FreeStream \/ FreeConnection)
    BY DEF FreeStream, FreeConnection, Gone, EngineFree
  <1>6. \A s \in Streams : ~CallbackStep(s)
    BY DEF CallbackStep, OnStreamOpen, OnStreamQueue, OnStreamTell,
           OnStreamClose, OnStreamClosed, OnStreamDrop, Gone, EngineFree
  <1>7. ASSUME NEW k \in Closings,
               StreamClose(k) \/ StreamSynced(k) \/ StreamStep(k)
        PROVE  Gone'
    <2>1. CASE StreamClose(k) \/ StreamSynced(k) \/ StreamWrite(k)
               \/ StreamClosed(k)
      BY <1>3, <2>1 DEF StreamClose, StreamSynced, StreamWrite, StreamClosed
    <2>2. CASE StreamReset(k)
      BY <1>1, <2>2 DEF StreamReset, Gone, EngineFree, handlers
    <2>3. CASE StreamFlush(k)
      <3>1. freeing' = FALSE
        <4>1. freeing' = freeing \/ freeing' \in {FALSE, mapped}
          BY <2>3 DEF StreamFlush
        <4>2. ~freeing /\ ~mapped
          BY DEF Gone, EngineFree
        <4>3. freeing \in BOOLEAN /\ mapped \in BOOLEAN
          BY DEF Types, TypeOK
        <4>4. QED
          BY <4>1, <4>2, <4>3
      <3>2. QED
        BY <1>1, <2>3, <3>1 DEF StreamFlush, Gone, EngineFree, link, handlers
    <2>4. QED
      BY <1>7, <2>1, <2>2, <2>3 DEF StreamStep
  <1>8. ASSUME NEW c \in Callers, CloseCall(c) \/ CloseShut(c) \/ CloseStep(c)
        PROVE  Gone'
    <2>1. CASE CloseEngine(c)
      BY <1>1, <2>1 DEF CloseEngine, Gone, EngineFree, Unmap, link, handlers
    <2>2. CASE CloseCall(c) \/ CloseShut(c) \/ CloseHandlers(c) \/ CloseFlag(c)
      BY <1>3, <2>2 DEF CloseCall, CloseShut, CloseHandlers, CloseFlag
    <2>3. QED
      BY <1>8, <2>1, <2>2 DEF CloseStep
  <1>9. CASE UNCHANGED vars
    BY <1>3, <1>9 DEF vars
  <1>10. QED
    BY <1>2, <1>4, <1>5, <1>6, <1>7, <1>8, <1>9 DEF Next

cleanVars == <<started, table, registered, shut, clPc>>

\* A step that is not one of a Close.
LEMMA CleanMoves ==
    ASSUME Types, CleanInv, [Next]_vars, UNCHANGED cleanVars
    PROVE  CleanInv'
  <1>1. HandlersEnded => HandlersEnded'
    BY HandlersStay
  <1>2. Gone => Gone'
    BY Quiet
  <1>3. ClosedIsClean'
    <2>1. ASSUME ~started
          PROVE  Gone'
      BY <1>2, <2>1 DEF CleanInv, ClosedIsClean, Gone
    <2>2. QED
      BY <2>1 DEF CleanInv, ClosedIsClean, Gone, cleanVars
  <1>4. QED
    BY <1>1, <1>2, <1>3 DEF CleanInv, cleanVars

\* What the step of a Close does.
LEMMA CleanClose ==
    ASSUME Types, CleanInv, NEW c \in Callers, [Next]_vars,
           \/ AutoClose /\ c = Own
           \/ CloseCall(c) \/ CloseShut(c) \/ CloseStep(c)
    PROVE  CleanInv'
  <1>1. HandlersEnded => HandlersEnded'
    BY HandlersStay
  <1>2. Gone => Gone'
    BY Quiet
  <1>3. \A d \in Callers : d # c => clPc'[d] = clPc[d]
    BY DEF AutoClose, CloseCall, CloseShut, CloseStep, CloseHandlers,
           CloseEngine, CloseFlag, Types, TypeOK
  <1>4. /\ shut => shut'
        /\ registered' => registered
        /\ \/ table' \in {table, "dropped"}
           \/ table' = "deleted" /\ ~registered' /\ clPc[c] = "registry"
        /\ table = "dropped" => table' = "dropped"
    <2>1. CASE AutoClose \/ CloseHandlers(c) \/ CloseFlag(c)
      BY <2>1 DEF AutoClose, CloseHandlers, CloseFlag, life
    <2>2. CASE CloseCall(c) \/ CloseShut(c)
      BY <2>2 DEF CloseCall, CloseShut
    <2>3. CASE CloseEngine(c)
      <3>1. CASE UNCHANGED <<registered, table>>
        BY <2>3, <3>1 DEF CloseEngine
      <3>2. CASE clPc[c] = "registry" /\ Delete
        BY <2>3, <3>2 DEF CloseEngine, Delete
      <3>3. QED
        BY <2>3, <3>1, <3>2 DEF CloseEngine
    <2>4. QED
      BY <2>1, <2>2, <2>3 DEF CloseStep
  <1>5. /\ started' = started \/ clPc[c] = "flag2"
        /\ \/ clPc'[c] \in {"idle", "join", "done"}
           \/ clPc'[c] = "handlers" /\ shut'
           \/ clPc'[c] = "engine" /\ clPc[c] = "handlers" /\ HandlersEnded
           \/ clPc'[c] = "registry" /\ clPc[c] = "engine"
              /\ ~mapped' /\ EngineFree'
           \/ clPc'[c] = "flag" /\ clPc[c] = "registry"
              /\ (table = "has" => ~registered')
           \/ clPc'[c] = "flag2" /\ clPc[c] = "flag"
    BY DEF AutoClose, CloseCall, CloseShut, CloseStep, CloseHandlers,
           CloseEngine, CloseFlag, Delete, Unmap, Types, TypeOK, life,
           EngineFree, handlers
  <1>6. table' = "deleted" => Gone' /\ ~registered'
    BY <1>2, <1>4 DEF CleanInv
  <1>7. ASSUME ~started'
        PROVE  shut' /\ Gone' /\ (registered' => table' = "dropped")
    <2>1. CASE ~started
      BY <1>2, <1>4, <2>1 DEF CleanInv, ClosedIsClean, Gone
    <2>2. CASE clPc[c] = "flag2"
      BY <1>2, <1>4, <2>2 DEF CleanInv
    <2>3. QED
      BY <1>5, <1>7, <2>1, <2>2
  <1>8. ASSUME NEW d \in Callers
        PROVE  /\ clPc'[d] \in {"handlers", "engine", "registry", "flag",
                                "flag2"} => shut'
               /\ clPc'[d] \in {"engine", "registry", "flag", "flag2"} =>
                     HandlersEnded'
               /\ clPc'[d] \in {"registry", "flag", "flag2"} => Gone'
               /\ clPc'[d] \in {"flag", "flag2"} =>
                     (registered' => table' = "dropped")
    <2>1. CASE d # c
      BY <1>1, <1>2, <1>3, <1>4, <2>1 DEF CleanInv
    <2>2. CASE d = c
      <3>1. table \in {"has", "deleted", "dropped"}
        BY DEF Types, TypeOK
      <3>2. clPc[c] = "engine" => HandlersEnded'
        BY <1>1 DEF CleanInv
      <3>3. clPc[c] \in {"registry", "flag"} => shut' /\ Gone'
        BY <1>2, <1>4 DEF CleanInv
      <3>4. clPc[c] \in {"handlers", "engine"} => shut'
        BY <1>4 DEF CleanInv
      <3>5. clPc[c] = "flag" => (registered' => table' = "dropped")
        BY <1>4 DEF CleanInv
      <3>6. table # "has" => (registered' => table' = "dropped")
        BY <1>4, <3>1 DEF CleanInv
      <3>7. Gone' = (HandlersEnded' /\ ~mapped' /\ EngineFree')
        BY DEF Gone
      <3>8. QED
        BY <1>1, <1>5, <2>2, <3>2, <3>3, <3>4, <3>5, <3>6, <3>7
    <2>3. QED
      BY <2>1, <2>2
  <1>9. QED
    BY <1>6, <1>7, <1>8 DEF CleanInv, ClosedIsClean, Gone

LEMMA CleanKept == ASSUME Types, CleanInv, [Next]_vars PROVE CleanInv'
  <1>1. CASE AutoClose
    BY <1>1, CleanClose DEF Callers
  <1>2. ASSUME NEW c \in Callers, CloseCall(c) \/ CloseShut(c) \/ CloseStep(c)
        PROVE  CleanInv'
    BY <1>2, CleanClose
  <1>3. ASSUME \/ InPacket \/ InLock \/ InPush
               \/ ProcStop \/ ProcReceive \/ ProcStep \/ OutStep
        PROVE  UNCHANGED cleanVars
    BY <1>3
    DEF InPacket, InLock, InPush, ProcStop, ProcStep, ProcTake, ProcTimer,
        ProcMsg, ProcReceive, ProcDone, ProcFlush, ProcFreed, ProcWrite,
        OutStep, OutAccepted, OutLoop, OutFlush, OutFreed, OutWrite, cleanVars,
        life, closers
  <1>4. ASSUME NEW s \in Streams, CallbackStep(s)
        PROVE  UNCHANGED cleanVars
    BY <1>4
    DEF CallbackStep, OnStreamOpen, OnStreamQueue, OnStreamTell, OnStreamClose,
        OnStreamClosed, OnStreamDrop, cleanVars, life, closers
  <1>5. ASSUME NEW k \in Closings,
               StreamClose(k) \/ StreamSynced(k) \/ StreamStep(k)
        PROVE  UNCHANGED cleanVars
    BY <1>5
    DEF StreamClose, StreamSynced, StreamStep, StreamReset, StreamFlush,
        StreamWrite, StreamClosed, cleanVars, life
  <1>6. ASSUME FreeStream \/ FreeConnection \/ Accept \/ UNCHANGED vars
        PROVE  UNCHANGED cleanVars
    BY <1>6
    DEF FreeStream, FreeConnection, Accept, vars, cleanVars, life, closers
  <1>7. QED
    BY <1>1, <1>2, <1>3, <1>4, <1>5, <1>6, CleanMoves DEF Next

-----------------------------------------------------------------------------
(* The theorems *)

LEMMA InvStart == ASSUME Init PROVE Inv
  <1>1. TypeOK
    <2>1. /\ {started, closing, done, shut, registered, onOpen, accepted,
              mapped, dying, freeing, leaked, crashed} \subseteq BOOLEAN
      BY DEF Init
    <2>2. /\ qlen \in 0..QueueCap /\ buf \in 0..MaxPackets
          /\ packets \in 1..MaxPackets /\ accepts \in 0..MaxAccepts
      <3>1. MaxPackets # 0
        BY ServerConnectionAssumption
      <3>2. \A n \in Nat : 0 \in 0..n /\ (n # 0 => 1 \in 1..n)
        OBVIOUS
      <3>3. QED
        BY <3>1, <3>2, Sizes DEF Init
    <2>3. backlog \in Seq(QStreams) /\ Len(backlog) <= AcceptCap
      BY Sizes DEF Init
    <2>4. QED
      BY <2>1, <2>2, <2>3 DEF Init, TypeOK
  <1>2. CountInv
    BY DEF Init, CountInv
  <1>3. AgreeInv
    BY DEF Init, AgreeInv, MatchInv, Opening, Shutting
  <1>4. CleanInv
    <2>1. \A c \in Callers : clPc[c] \in {"await", "idle"}
      BY DEF Init
    <2>2. QED
      BY <2>1 DEF Init, CleanInv, ClosedIsClean
  <1>5. QED
    BY <1>1, <1>2, <1>3, <1>4 DEF Inv, Types

THEOREM InvCorrect == Spec => []Inv
  <1>1. Init => Inv
    BY InvStart
  <1>2. Inv /\ [Next]_vars => Inv'
    BY TypeKept, CountKept, AgreeKept, CleanKept DEF Inv, Types
  <1>3. QED
    BY <1>1, <1>2, PTL DEF Spec

\* The connection, its callbacks and its queues stay within their types and
\* capacities.
THEOREM TypeCorrect == Spec => []TypeOK
  <1>1. Inv => TypeOK
    BY DEF Inv, Types
  <1>2. QED
    BY <1>1, InvCorrect, PTL

\* Between two callbacks the connection has just those streams of the engine
\* connection in the map that are open, and of what earlier ones left behind
\* nothing under the id of one of them.
THEOREM AgreeCorrect == Spec => []StreamsAgree
  <1>1. ASSUME Inv, mapped, callback = {}, leaked => onOpen
        PROVE  /\ {k \in streams : k[2] = accepts} = engOpen \X {accepts}
               /\ \A k \in streams : k[1] \in engOpen => k[2] = accepts
    <2>1. \A s \in Streams : ~Opening(s) /\ ~Shutting(s)
      BY <1>1 DEF Opening, Shutting
    <2>2. \A s \in Streams : s \in engOpen <=> <<s, accepts>> \in streams
      BY <1>1, <2>1 DEF Inv, Types, AgreeInv, MatchInv
    <2>3. engOpen \subseteq Streams
      BY <1>1 DEF Inv, Types, TypeOK
    <2>4. \A k \in streams : k[1] \in Streams /\ k = <<k[1], k[2]>>
      BY <1>1 DEF Inv, Types, TypeOK, QStreams
    <2>5. {k \in streams : k[2] = accepts} = engOpen \X {accepts}
      BY <2>2, <2>3, <2>4
    <2>6. ASSUME NEW k \in streams, k[1] \in engOpen
          PROVE  k[2] = accepts
      <3>1. <<k[1], accepts>> \in streams
        BY <2>2, <2>3, <2>6
      <3>2. k = <<k[1], accepts>>
        BY <1>1, <3>1 DEF Inv, Types, AgreeInv
      <3>3. QED
        BY <3>2
    <2>7. QED
      BY <2>5, <2>6
  <1>2. Inv => StreamsAgree
    BY <1>1 DEF StreamsAgree
  <1>3. QED
    BY <1>2, InvCorrect, PTL

\* A connection that says it is closed has left nothing behind.
THEOREM CleanCorrect == Spec => []ClosedIsClean
  <1>1. Inv => ClosedIsClean
    BY DEF Inv, CleanInv
  <1>2. QED
    BY <1>1, InvCorrect, PTL

\* The lookup that panics when it finds nothing finds the stream, unless the
\* session has dropped its table.
THEOREM FindsCorrect == Spec => []OpenFindsStream
  <1>1. ASSUME Inv, NEW s \in Streams, callback = {<<"tell", s>>},
               table # "dropped"
        PROVE  table = "has" /\ Entry(s) # {}
    <2>1. <<"tell", s>> \in callback
      BY <1>1
    <2>2. Entry(s) # {}
      <3>1. <<s, accepts>> \in streams
        BY <1>1, <2>1 DEF Inv, Types, AgreeInv
      <3>2. QED
        BY <3>1 DEF Entry
    <2>3. table # "deleted"
      BY <1>1, <2>1 DEF Inv, CleanInv, Gone, EngineFree
    <2>4. QED
      BY <1>1, <2>2, <2>3 DEF Inv, Types, TypeOK
  <1>2. Inv => OpenFindsStream
    BY <1>1 DEF OpenFindsStream
  <1>3. QED
    BY <1>2, InvCorrect, PTL

=============================================================================
