------------------------- MODULE ClientSessionProofs -------------------------
(***************************************************************************)
(* What holds of a client's session for any number of goroutines, streams  *)
(* and connects.                                                           *)
(*                                                                         *)
(* The heart of it is that the engine maps the session only while it is    *)
(* connected, or is being connected by an opener that holds streamsLock    *)
(* (MapInv): whoever connects has found the session not connected, so no   *)
(* callback can be on its way and no handler is in the engine.  That       *)
(* needs, in turn, that at most one Close is past the closing of the queue *)
(* (OneInv), since the second one panics there, and what that one has done *)
(* (StageInv, CleanInv).                                                   *)
(***************************************************************************)
EXTENDS ClientSession, TLAPS

-----------------------------------------------------------------------------
(* The invariants *)

\* Where an opener holds streamsLock.
Holding == {"connect", "register", "up", "start", "told"}

\* Who is connecting has the lock and found the session not connected; a new
\* QStream is one the engine opened.
OpenInv ==
    /\ \A o \in Openers : lock = o <=> opPc[o] \in Holding
    /\ \A o \in Openers : opPc[o] = "connect" => connects < MaxConnects
    /\ \A o \in Openers :
          opPc[o] \in {"connect", "register", "up"} => ~connected
    /\ \A o \in Openers :
          opPc[o] \in {"register", "up", "start"} => connects > 0
    /\ \A o \in Openers :
          opPc[o] \in {"opening", "add"} => opSt[o] \in QStreams

Types == TypeOK /\ OpenInv

Registering == \E o \in Openers : opPc[o] = "register"

\* Only a connection in the map makes the engine call back, and it is that of a
\* session that is connected and registered, or is about to be.
MapInv ==
    /\ ~mapped => callback = {} /\ ~freeing
    /\ mapped => connects > 0
    /\ mapped => connected \/ Connecting
    /\ mapped => registered \/ Registering
    /\ freeing => procPc \notin {"sweep", "input"}

\* A Close that has closed the queue and has not reset the flags.
Past == {"handlers", "engine", "registry", "flag", "flag2"}

\* What such a Close has done so far stays done.
StageInv ==
    /\ \A c \in Callers : clPc[c] \in Past \ {"handlers"} => HandlersEnded
    /\ \A c \in Callers : clPc[c] \in {"registry", "flag", "flag2"} => ~mapped
    /\ \A c \in Callers : clPc[c] \in {"flag", "flag2"} => ~registered

\* A session that is not connected has no handlers, and unless it is being
\* connected nothing in the engine or the registry.
CleanInv ==
    ~connected =>
        /\ HandlersEnded
        /\ connects > 0 /\ ~Connecting =>
              ~mapped /\ ~registered /\ queue = "closed"

\* One Close at most gets past the closing of the queue; it finds the session
\* connected, and the goroutines of a new connection start without it.
OneInv ==
    /\ \A c \in Callers : clPc[c] \in {"lock", "join", "shut"} =>
                             connected \/ queue = "closed"
    /\ \A c \in Callers : clPc[c] \in Past => connected /\ queue = "closed"
    /\ \A c, d \in Callers : clPc[c] \in Past /\ clPc[d] \in Past => c = d
    /\ \A o \in Openers :
          opPc[o] = "start" =>
              connected /\ \A c \in Callers : clPc[c] \notin Past

LifeInv == StageInv /\ CleanInv /\ (crashed \/ OneInv)

\* connect has not started its closing goroutine yet.
Starting == \E o \in Openers : opPc[o] \in {"register", "up", "start"}

\* A QStream's Close ends when it has been told, and Close goes on when those of
\* its streams have ended.
ToldInv ==
    /\ \A k \in QStreams : stPc[k] = "done" => k \in told
    /\ \A c \in Callers :
          clPc[c] \in {"none", "await", "idle", "lock"} => clSet[c] = {}
    /\ \A c \in Callers :
          clPc[c] \in Past \cup {"shut", "done"} => clSet[c] \subseteq told
    /\ \A c \in Autos : c > connects => clPc[c] = "none"
    /\ \A c \in Autos : c = connects /\ Starting => clPc[c] = "none"

Inv == Types /\ MapInv /\ LifeInv /\ ToldInv

-----------------------------------------------------------------------------
(* Types *)

LEMMA TypeKept == ASSUME Types, MapInv, [Next]_vars PROVE TypeOK'
  <1>1. ASSUME NEW o \in Openers, OpenLock(o)
        PROVE  TypeOK'
    BY <1>1, ClientAssumption
    DEF OpenLock, Running, Types, TypeOK, flags, link, engine, members,
        openers, handler, closers
  <1>2. ASSUME NEW o \in Openers, OpenRefused(o)
        PROVE  TypeOK'
    BY <1>2
    DEF OpenRefused, Running, Types, TypeOK, flags, link, engine, members,
        openers, handler, closers
  <1>3. ASSUME NEW o \in Openers, OpenConnect(o)
        PROVE  TypeOK'
    <2>1. connects + 1 \in 0..MaxConnects
      BY <1>3, ClientAssumption DEF OpenConnect, Types, TypeOK, OpenInv
    <2>2. /\ {connected, closing, registered, mapped, dying, freeing,
              crashed}' \subseteq BOOLEAN
          /\ engOpen' \subseteq used' /\ used' \subseteq Ids
      BY <1>3 DEF OpenConnect, Running, Types, TypeOK
    <2>3. QED
      BY <1>3, <2>1, <2>2
      DEF OpenConnect, Running, Types, TypeOK, members, handler, closers
  <1>4. ASSUME NEW o \in Openers, OpenRegister(o)
        PROVE  TypeOK'
    BY <1>4
    DEF OpenRegister, Running, Types, TypeOK, flags, link, engine, members,
        openers, handler, closers
  <1>5. ASSUME NEW o \in Openers, OpenUp(o)
        PROVE  TypeOK'
    BY <1>5
    DEF OpenUp, Running, Types, TypeOK, flags, link, engine, members, openers,
        handler, closers
  <1>6. ASSUME NEW o \in Openers, OpenStart(o)
        PROVE  TypeOK'
    <2>1. clPc' \in [Callers -> {"none", "await", "idle", "lock", "join",
                                 "shut", "handlers", "engine", "registry",
                                 "flag", "flag2", "done"}]
      BY <1>6 DEF OpenStart, Types, TypeOK
    <2>2. 0 \in 0..MaxBatch
      BY ClientAssumption
    <2>3. QED
      BY <1>6, <2>1, <2>2
      DEF OpenStart, Running, Types, TypeOK, link, engine, members
  <1>7. ASSUME NEW o \in Openers, OpenTold(o)
        PROVE  TypeOK'
    BY <1>7
    DEF OpenTold, Running, Types, TypeOK, flags, link, engine, members,
        openers, handler, closers
  <1>8. ASSUME NEW o \in Openers, OpenEngine(o)
        PROVE  TypeOK'
    <2>1. CASE UNCHANGED <<used, engOpen, opSt, callback>>
      BY <1>8, <2>1
      DEF OpenEngine, Running, Types, TypeOK, flags, members, handler, closers
    <2>2. ASSUME mapped, NEW s \in Streams \ used,
                 used' = used \cup {s}, engOpen' = engOpen \cup {s},
                 opSt' = [opSt EXCEPT ![o] = <<s, connects>>],
                 CallBack("open", s)
          PROVE  TypeOK'
      <3>1. <<s, connects>> \in QStreams /\ s \in Ids
        BY <2>2, ClientAssumption
        DEF Types, TypeOK, MapInv, QStreams, Autos, Ids
      <3>2. callback' \subseteq {"open", "close"} \X Ids
        BY <2>2, <3>1 DEF CallBack
      <3>3. opSt' \in [Openers -> QStreams \cup {<<>>}]
        BY <2>2, <3>1 DEF Types, TypeOK
      <3>4. opPc' \in [Openers -> {"idle", "connect", "register", "up",
                                   "start", "told", "open", "opening", "add"}]
        BY <1>8 DEF OpenEngine, Types, TypeOK
      <3>5. engOpen' \subseteq used' /\ used' \subseteq Ids
        BY <2>2, <3>1 DEF Types, TypeOK
      <3>6. QED
        BY <1>8, <3>2, <3>3, <3>4, <3>5
        DEF OpenEngine, Running, Types, TypeOK, flags, members, handler,
            closers
    <2>3. QED
      BY <1>8, <2>1, <2>2 DEF OpenEngine
  <1>9. ASSUME NEW o \in Openers, OnStreamOpen(o)
        PROVE  TypeOK'
    BY <1>9
    DEF OnStreamOpen, Running, Types, TypeOK, flags, link, engine, members,
        openers, handler, closers
  <1>10. ASSUME NEW o \in Openers, OpenAdd(o)
        PROVE  TypeOK'
    <2>1. opSt[o] \in QStreams
      BY <1>10 DEF OpenAdd, Types, OpenInv
    <2>2. /\ opSt' \in [Openers -> QStreams \cup {<<>>}]
          /\ streams' \subseteq QStreams
      BY <1>10, <2>1 DEF OpenAdd, Types, TypeOK
    <2>3. QED
      BY <1>10, <2>1, <2>2
      DEF OpenAdd, Running, Types, TypeOK, flags, link, engine, handler,
          closers
  <1>11. ASSUME NEW s \in Ids, OnStreamClose(s)
        PROVE  TypeOK'
    <2>1. /\ streams' \subseteq QStreams /\ told' \subseteq QStreams
          /\ ctx' \in {"none", "live", "done"}
      BY <1>11 DEF OnStreamClose, Types, TypeOK
    <2>2. stPc' \in [QStreams -> {"none", "no", "sync", "reset", "calling",
                                 "flush", "wait", "done"}]
      BY <1>11 DEF OnStreamClose, Types, TypeOK
    <2>3. QED
      BY <1>11, <2>1, <2>2
      DEF OnStreamClose, Running, Types, TypeOK, link, openers, handler,
          closers
  <1>12. ASSUME NEW s \in PeerStreams, OnPeerOpen(s)
        PROVE  TypeOK'
    BY <1>12
    DEF OnPeerOpen, Running, Types, TypeOK, flags, link, engine, members,
        openers, handler, closers
  <1>13. ASSUME NEW k \in QStreams, StreamClose(k)
        PROVE  TypeOK'
    BY <1>13
    DEF StreamClose, Running, Types, TypeOK, flags, link, engine, members,
        openers, handler, closers
  <1>14. ASSUME NEW k \in QStreams, StreamSynced(k)
        PROVE  TypeOK'
    BY <1>14
    DEF StreamSynced, Running, Types, TypeOK, flags, link, engine, members,
        openers, handler, closers
  <1>15. ASSUME NEW k \in QStreams, StreamReset(k)
        PROVE  TypeOK'
    <2>1. engOpen' \subseteq used /\ used' = used
      BY <1>15 DEF StreamReset, Types, TypeOK
    <2>2. k[1] \in Ids
      BY DEF QStreams, Ids
    <2>3. callback' \subseteq {"open", "close"} \X Ids
      BY <1>15, <2>2 DEF StreamReset, CallBack, Types, TypeOK
    <2>4. stPc' \in [QStreams -> {"none", "no", "sync", "reset", "calling",
                                 "flush", "wait", "done"}]
      BY <1>15 DEF StreamReset, Types, TypeOK
    <2>5. QED
      BY <1>15, <2>1, <2>3, <2>4
      DEF StreamReset, Running, Types, TypeOK, flags, members, openers,
          handler, closers
  <1>16. ASSUME NEW k \in QStreams, StreamFlush(k)
        PROVE  TypeOK'
    <2>1. freeing' \in BOOLEAN
      BY <1>16 DEF StreamFlush, Types, TypeOK
    <2>2. QED
      BY <1>16, <2>1
      DEF StreamFlush, Running, Types, TypeOK, flags, link, members, openers,
          handler, closers
  <1>17. ASSUME NEW k \in QStreams, StreamClosed(k)
        PROVE  TypeOK'
    BY <1>17
    DEF StreamClosed, Running, Types, TypeOK, flags, link, engine, members,
        openers, handler, closers
  <1>18. ASSUME NEW c \in Callers, CloseCheck(c)
        PROVE  TypeOK'
    BY <1>18
    DEF CloseCheck, Running, Types, TypeOK, flags, link, engine, members,
        openers, handler, closers
  <1>19. ASSUME NEW c \in Callers, AutoClose(c)
        PROVE  TypeOK'
    BY <1>19
    DEF AutoClose, Running, Types, TypeOK, flags, link, engine, members,
        openers, handler, closers
  <1>20. ASSUME NEW c \in Callers, CloseLock(c)
        PROVE  TypeOK'
    BY <1>20
    DEF CloseLock, Running, Types, TypeOK, flags, link, engine, members,
        openers, handler, closers
  <1>21. ASSUME NEW c \in Callers, CloseJoin(c)
        PROVE  TypeOK'
    BY <1>21
    DEF CloseJoin, Running, Types, TypeOK, flags, link, engine, members,
        openers, handler, closers
  <1>22. ASSUME NEW c \in Callers, CloseHandlers(c)
        PROVE  TypeOK'
    BY <1>22
    DEF CloseHandlers, Running, Types, TypeOK, flags, link, engine, members,
        openers, handler, closers
  <1>23. ASSUME NEW c \in Callers, CloseEngine(c)
        PROVE  TypeOK'
    <2>1. clPc' \in [Callers -> {"none", "await", "idle", "lock", "join",
                                 "shut", "handlers", "engine", "registry",
                                 "flag", "flag2", "done"}]
      BY <1>23 DEF CloseEngine, Types, TypeOK
    <2>2. /\ {mapped, dying, registered}' \subseteq BOOLEAN
          /\ engOpen' \subseteq used' /\ used' \subseteq Ids
      BY <1>23 DEF CloseEngine, Unmap, link, Types, TypeOK
    <2>3. QED
      BY <1>23, <2>1, <2>2
      DEF CloseEngine, Running, Types, TypeOK, members, openers, handler
  <1>24. ASSUME NEW c \in Callers, CloseFlag(c)
        PROVE  TypeOK'
    <2>1. clPc' \in [Callers -> {"none", "await", "idle", "lock", "join",
                                 "shut", "handlers", "engine", "registry",
                                 "flag", "flag2", "done"}]
      BY <1>24 DEF CloseFlag, Types, TypeOK
    <2>2. {connected, closing}' \subseteq BOOLEAN
      BY <1>24 DEF CloseFlag, Types, TypeOK
    <2>3. QED
      BY <1>24, <2>1, <2>2
      DEF CloseFlag, Running, Types, TypeOK, link, engine, members, openers,
          handler
  <1>25. ASSUME NEW c \in Callers, CloseShut(c)
        PROVE  TypeOK'
    BY <1>25
    DEF CloseShut, Running, Types, TypeOK, flags, link, engine, members,
        openers, handler, closers
  <1>26. CASE FreeStream
    <2>1. engOpen' \subseteq used
      BY <1>26 DEF FreeStream, Types, TypeOK
    <2>2. callback' \subseteq {"open", "close"} \X Ids
      BY <1>26 DEF FreeStream, CallBack, Types, TypeOK
    <2>3. QED
      BY <1>26, <2>1, <2>2
      DEF FreeStream, Running, Types, TypeOK, flags, members, openers,
          handler, closers
  <1>27. CASE FreeConnection
    <2>1. /\ mapped' = FALSE /\ dying' = FALSE /\ freeing' = FALSE
          /\ engOpen' = {} /\ used' = {}
      BY <1>27 DEF FreeConnection, Unmap
    <2>2. UNCHANGED <<flags, callback, members, openers, handler, closers, stPc,
                      crashed>>
      BY <1>27 DEF FreeConnection, Running
    <2>3. {mapped', dying', freeing', crashed'} \subseteq BOOLEAN
      BY <2>1, <2>2 DEF Types, TypeOK
    <2>4. QED
      BY <2>1, <2>2, <2>3
      DEF Types, TypeOK, flags, members, openers, handler, closers
  <1>28. CASE InTop
    BY <1>28
    DEF InTop, Running, Types, TypeOK, flags, link, engine, members, openers,
        handler, closers
  <1>29. CASE InNothing
    BY <1>29
    DEF InNothing, Running, Types, TypeOK, flags, link, engine, members,
        openers, handler, closers
  <1>30. CASE InPacket
    BY <1>30
    DEF InPacket, Running, Types, TypeOK, flags, link, engine, members,
        openers, handler, closers
  <1>31. CASE InPush
    BY <1>31, ClientAssumption
    DEF InPush, Running, Types, TypeOK, flags, link, engine, members, openers,
        handler, closers
  <1>32. CASE ProcStop
    BY <1>32, ClientAssumption
    DEF ProcStop, Running, Types, TypeOK, ProcEnd, flags, link, engine,
        members, openers, handler, closers
  <1>33. CASE ProcTake
    BY <1>33, ClientAssumption
    DEF ProcTake, Running, Types, TypeOK, flags, link, engine, members,
        openers, handler, closers
  <1>34. CASE ProcNil
    BY <1>34, ClientAssumption
    DEF ProcNil, Running, Types, TypeOK, ProcEnd, flags, link, engine, members,
        openers, handler, closers
  <1>35. CASE ProcTimer
    BY <1>35
    DEF ProcTimer, Running, Types, TypeOK, flags, link, engine, members,
        openers, handler, closers
  <1>36. CASE ProcNext
    BY <1>36, ClientAssumption
    DEF ProcNext, Running, Types, TypeOK, flags, link, engine, members,
        openers, handler, closers
  <1>37. CASE ProcPacket
    BY <1>37
    DEF ProcPacket, Running, Types, TypeOK, flags, link, engine, members,
        openers, handler, closers
  <1>38. CASE ProcReceive
    <2>1. engOpen' \subseteq used' /\ used' \subseteq Ids
      BY <1>38 DEF ProcReceive, Unmap, Types, TypeOK, Ids
    <2>2. callback' \subseteq {"open", "close"} \X Ids
      <3>1. \A s \in engOpen : s \in Ids
        BY DEF Types, TypeOK
      <3>2. \A s \in Ids, kind \in {"open", "close"} :
                CallBack(kind, s) =>
                    callback' \subseteq {"open", "close"} \X Ids
        BY DEF CallBack
      <3>3. PeerStreams \subseteq Ids
        BY DEF Ids
      <3>4. \/ callback' = callback
            \/ \E s \in engOpen : CallBack("close", s)
            \/ \E s \in PeerStreams : CallBack("open", s)
        BY <1>38 DEF ProcReceive
      <3>5. QED
        BY <3>1, <3>2, <3>3, <3>4 DEF Types, TypeOK
    <2>3. mapped' \in BOOLEAN /\ dying' \in BOOLEAN
      BY <1>38 DEF ProcReceive, Unmap, Types, TypeOK
    <2>4. /\ procPc' \in {procPc, "batch"}
          /\ UNCHANGED <<flags, freeing, members, openers, inPc, qlen, buf,
                        closers, stPc, crashed>>
      BY <1>38 DEF ProcReceive, Running
    <2>5. QED
      BY <2>1, <2>2, <2>3, <2>4
      DEF Types, TypeOK, flags, members, openers, closers
  <1>39. CASE ProcDone
    BY <1>39
    DEF ProcDone, Running, Types, TypeOK, flags, link, engine, members,
        openers, handler, closers
  <1>40. CASE ProcFlush
    <2>1. 0 \in 0..MaxBatch
      BY ClientAssumption
    <2>2. /\ freeing' \in BOOLEAN /\ ctx' \in {"none", "live", "done"}
          /\ procPc' \in {"loop", "freed", "done"} /\ buf' \in 0..MaxBatch
      BY <1>40, <2>1 DEF ProcFlush, ProcEnd, Types, TypeOK
    <2>3. QED
      BY <1>40, <2>2
      DEF ProcFlush, Running, Types, TypeOK, link, members, openers, closers
  <1>41. CASE ProcFreed
    BY <1>41, ClientAssumption
    DEF ProcFreed, Running, Types, TypeOK, ProcEnd, flags, link, engine,
        members, openers, handler, closers
  <1>42. CASE UNCHANGED vars
    BY <1>42
    DEF Types, TypeOK, vars, flags, link, engine, members, openers, handler,
        closers
  <1>43. QED
    BY <1>1, <1>2, <1>3, <1>4, <1>5, <1>6, <1>7, <1>8, <1>9, <1>10, <1>11,
       <1>12, <1>13, <1>14, <1>15, <1>16, <1>17, <1>18, <1>19, <1>20, <1>21,
       <1>22, <1>23, <1>24, <1>25, <1>26, <1>27, <1>28, <1>29, <1>30, <1>31,
       <1>32, <1>33, <1>34, <1>35, <1>36, <1>37, <1>38, <1>39, <1>40, <1>41,
       <1>42
    DEF Next, OpenStep, StreamStep, InStep, ProcStep, CloseStep

-----------------------------------------------------------------------------
(* Openers *)

openVars == <<opPc, opSt, lock, connected, connects>>

LEMMA OpenKept ==
    ASSUME Types, MapInv, [Next]_vars
    PROVE  OpenInv'
  <1>1. ASSUME NEW o \in Openers, OpenLock(o)
        PROVE  OpenInv'
    BY <1>1, ClientAssumption
    DEF OpenLock, Types, TypeOK, OpenInv, Holding, engine
  <1>2. ASSUME NEW o \in Openers, OpenRefused(o) \/ OpenTold(o)
        PROVE  OpenInv'
    BY <1>2, ClientAssumption
    DEF OpenRefused, OpenTold, Types, TypeOK, OpenInv, Holding, flags
  <1>3. ASSUME NEW o \in Openers,
               \/ OpenConnect(o) \/ OpenRegister(o) \/ OpenUp(o)
               \/ OpenStart(o)
        PROVE  OpenInv'
    <2>1. /\ lock = o /\ UNCHANGED <<lock, opSt>>
          /\ \A p \in Openers : p # o => opPc'[p] = opPc[p]
                                          /\ opPc[p] \notin Holding
      BY <1>3
      DEF OpenConnect, OpenRegister, OpenUp, OpenStart, Types, TypeOK, OpenInv,
          Holding, openers
    <2>2. /\ opPc'[o] \in {"register", "up", "start", "told"}
          /\ opPc'[o] \in {"register", "up"} => ~connected'
          /\ connects' > 0
      BY <1>3, ClientAssumption
      DEF OpenConnect, OpenRegister, OpenUp, OpenStart, Types, TypeOK, OpenInv,
          flags
    <2>3. QED
      BY <2>1, <2>2 DEF Types, OpenInv, Holding
  <1>4. ASSUME NEW o \in Openers, OpenEngine(o)
        PROVE  OpenInv'
    <2>1. /\ UNCHANGED <<lock, connected, connects>>
          /\ \A p \in Openers : p # o => opPc'[p] = opPc[p]
                                          /\ opSt'[p] = opSt[p]
          /\ opPc[o] = "open" /\ opPc'[o] \in {"idle", "opening", "add"}
      BY <1>4 DEF OpenEngine, Types, TypeOK, flags
    <2>2. opPc'[o] \in {"opening", "add"} => opSt'[o] \in QStreams
      BY <1>4, ClientAssumption
      DEF OpenEngine, Types, TypeOK, MapInv, QStreams, Autos
    <2>3. QED
      BY <2>1, <2>2 DEF Types, OpenInv, Holding
  <1>5. ASSUME NEW o \in Openers, OnStreamOpen(o) \/ OpenAdd(o)
        PROVE  OpenInv'
    <2>1. /\ UNCHANGED <<lock, connected, connects>>
          /\ \A p \in Openers : p # o => opPc'[p] = opPc[p]
                                          /\ opSt'[p] = opSt[p]
          /\ opPc[o] \in {"opening", "add"} /\ opPc'[o] \in {"idle", "add"}
          /\ opPc'[o] = "add" => opSt'[o] = opSt[o]
      BY <1>5 DEF OnStreamOpen, OpenAdd, Types, TypeOK, flags
    <2>2. QED
      BY <2>1 DEF Types, OpenInv, Holding
  <1>6. ASSUME NEW c \in Callers, CloseFlag(c)
        PROVE  OpenInv'
    BY <1>6 DEF CloseFlag, Types, OpenInv, openers
  <1>7. CASE UNCHANGED openVars
    BY <1>7 DEF Types, OpenInv, openVars
  <1>8. ASSUME NEW s \in Ids, OnStreamClose(s)
        PROVE  UNCHANGED openVars
    BY <1>8 DEF OnStreamClose, openVars, openers
  <1>9. ASSUME NEW s \in PeerStreams, OnPeerOpen(s)
        PROVE  UNCHANGED openVars
    BY <1>9 DEF OnPeerOpen, openVars, flags, openers
  <1>10. ASSUME NEW k \in QStreams,
                StreamClose(k) \/ StreamSynced(k) \/ StreamStep(k)
         PROVE  UNCHANGED openVars
    BY <1>10
    DEF StreamClose, StreamSynced, StreamStep, StreamReset, StreamFlush,
        StreamClosed, openVars, flags, openers
  <1>11. ASSUME FreeStream \/ FreeConnection \/ InStep \/ InPacket
         PROVE  UNCHANGED openVars
    BY <1>11
    DEF FreeStream, FreeConnection, InStep, InTop, InNothing, InPush, InPacket,
        openVars, flags, openers
  <1>12. ASSUME ProcStop \/ ProcReceive \/ ProcStep
         PROVE  UNCHANGED openVars
    BY <1>12
    DEF ProcStop, ProcReceive, ProcStep, ProcTake, ProcNil, ProcTimer, ProcNext,
        ProcPacket, ProcDone, ProcFlush, ProcFreed, openVars, flags, openers
  <1>13. ASSUME NEW c \in Callers,
                \/ CloseCheck(c) \/ AutoClose(c) \/ CloseLock(c)
                \/ CloseJoin(c) \/ CloseHandlers(c) \/ CloseEngine(c)
                \/ CloseShut(c)
         PROVE  UNCHANGED openVars
    BY <1>13
    DEF CloseCheck, AutoClose, CloseLock, CloseJoin, CloseHandlers, CloseEngine,
        CloseShut, openVars, flags, openers
  <1>14. CASE UNCHANGED vars
    BY <1>7, <1>14 DEF vars, flags, openers, openVars
  <1>15. QED
    BY <1>1, <1>2, <1>3, <1>4, <1>5, <1>6, <1>7, <1>8, <1>9, <1>10, <1>11,
       <1>12, <1>13, <1>14
    DEF Next, OpenStep, CloseStep

\* The openers' other steps connect nothing.
LEMMA OpenOther ==
    ASSUME Types, NEW o \in Openers,
           \/ OpenLock(o) \/ OpenRefused(o) \/ OpenTold(o) \/ OpenEngine(o)
           \/ OnStreamOpen(o) \/ OpenAdd(o)
    PROVE  \A p \in Openers :
               opPc'[p] = opPc[p]
               \/ {opPc[p], opPc'[p]} \cap {"register", "up", "start"} = {}
  BY DEF OpenLock, OpenRefused, OpenTold, OpenEngine, OnStreamOpen, OpenAdd,
         Types, TypeOK

-----------------------------------------------------------------------------
(* The engine *)

mapVars == <<mapped, callback, freeing, connected, registered, connects, opPc,
             procPc>>

LEMMA MapKept ==
    ASSUME Types, MapInv, LifeInv, [Next]_vars
    PROVE  MapInv'
  <1>1. ASSUME NEW o \in Openers, OpenConnect(o)
        PROVE  MapInv'
    <2>1. opPc'[o] = "register" /\ connects' > 0 /\ mapped'
      BY <1>1, ClientAssumption DEF OpenConnect, Types, TypeOK
    <2>2. ~freeing'
      BY <1>1 DEF OpenConnect, EngineFree
    <2>3. QED
      BY <2>1, <2>2 DEF MapInv, Connecting, Registering
  <1>2. ASSUME NEW o \in Openers, OpenRegister(o) \/ OpenUp(o) \/ OpenStart(o)
        PROVE  MapInv'
    <2>1. /\ UNCHANGED <<mapped, callback, freeing, connects>>
          /\ \A p \in Openers : p # o => opPc'[p] = opPc[p]
                                          /\ opPc[p] \notin Holding
      BY <1>2
      DEF OpenRegister, OpenUp, OpenStart, Types, TypeOK, OpenInv, Holding,
          engine, link
    <2>2. \/ opPc'[o] = "up" /\ registered' /\ UNCHANGED connected
          \/ opPc[o] = "up" /\ connected' /\ UNCHANGED registered
          \/ opPc[o] = "start" /\ UNCHANGED <<connected, registered>>
      BY <1>2 DEF OpenRegister, OpenUp, OpenStart, Types, TypeOK
    <2>3. mapped => connected' \/ Connecting'
      BY <2>1, <2>2 DEF MapInv, Connecting, Holding
    <2>4. mapped => registered' \/ Registering'
      BY <2>1, <2>2 DEF MapInv, Registering, Holding
    <2>5. procPc' \in {procPc, "loop"}
      BY <1>2 DEF OpenRegister, OpenUp, OpenStart, handler
    <2>6. QED
      BY <2>1, <2>3, <2>4, <2>5 DEF MapInv
  <1>3. ASSUME NEW o \in Openers,
               \/ OpenLock(o) \/ OpenRefused(o) \/ OpenTold(o)
               \/ OpenEngine(o) \/ OnStreamOpen(o) \/ OpenAdd(o)
        PROVE  MapInv'
    <2>1. (Connecting' <=> Connecting) /\ (Registering' <=> Registering)
      BY <1>3, OpenOther DEF Connecting, Registering
    <2>2. /\ UNCHANGED <<mapped, connected, registered, connects, freeing,
                         procPc>>
          /\ callback' = {} \/ callback' = callback \/ mapped
      BY <1>3
      DEF OpenLock, OpenRefused, OpenTold, OpenEngine, OnStreamOpen, OpenAdd,
          flags, engine, link, handler
    <2>3. QED
      BY <2>1, <2>2 DEF MapInv
  <1>4. ASSUME UNCHANGED <<connected, registered, connects, opPc>>,
               mapped' => mapped,
               ~mapped' => callback' = {} /\ ~freeing',
               freeing' => procPc' \notin {"sweep", "input"}
        PROVE  MapInv'
    BY <1>4 DEF MapInv, Connecting, Registering
  <1>5. ASSUME NEW s \in Ids, OnStreamClose(s)
        PROVE  MapInv'
    BY <1>4, <1>5 DEF OnStreamClose, MapInv, link, openers, handler
  <1>6. ASSUME NEW s \in PeerStreams, OnPeerOpen(s)
        PROVE  MapInv'
    BY <1>4, <1>6 DEF OnPeerOpen, MapInv, flags, link, openers, handler
  <1>7. ASSUME NEW k \in QStreams, StreamReset(k)
        PROVE  MapInv'
    BY <1>4, <1>7 DEF StreamReset, MapInv, EngineFree, flags, openers, handler
  <1>8. ASSUME NEW k \in QStreams, StreamFlush(k)
        PROVE  MapInv'
    <2>1. ~mapped => ~freeing'
      BY <1>8 DEF StreamFlush, Types, TypeOK
    <2>2. QED
      BY <1>4, <1>8, <2>1
      DEF StreamFlush, EngineFree, MapInv, flags, link, openers, handler
  <1>9. CASE FreeStream \/ FreeConnection
    BY <1>4, <1>9
    DEF FreeStream, FreeConnection, Unmap, MapInv, flags, openers, handler
  <1>10. CASE ProcReceive
    <2>1. /\ UNCHANGED <<connected, registered, connects, opPc, freeing>>
          /\ ~mapped' => callback' = {} /\ procPc' = "input"
          /\ procPc = "input" /\ mapped
      BY <1>10 DEF ProcReceive, Unmap, flags, openers
    <2>2. ~freeing
      BY <2>1 DEF MapInv
    <2>3. QED
      BY <1>4, <2>1, <2>2
  <1>11. CASE ProcFlush
    BY <1>4, <1>11 DEF ProcFlush, ProcEnd, MapInv, link, openers
  <1>12. ASSUME NEW c \in Callers, CloseEngine(c)
         PROVE  MapInv'
    <2>1. UNCHANGED <<callback, freeing, procPc>>
      BY <1>12 DEF CloseEngine, handler
    <2>2. CASE mapped' = FALSE /\ EngineFree
      BY <2>1, <2>2 DEF MapInv, EngineFree
    <2>3. CASE clPc[c] = "registry" /\ UNCHANGED mapped
      BY <2>1, <2>3 DEF MapInv, LifeInv, StageInv
    <2>4. QED
      BY <1>12, <2>2, <2>3 DEF CloseEngine, Unmap, link
  <1>13. ASSUME NEW c \in Callers, CloseFlag(c)
         PROVE  MapInv'
    BY <1>13 DEF CloseFlag, MapInv, LifeInv, StageInv, engine, link, handler
  <1>14. CASE UNCHANGED mapVars
    BY <1>14 DEF MapInv, Connecting, Registering, mapVars
  <1>15. ASSUME NEW k \in QStreams,
                StreamClose(k) \/ StreamSynced(k) \/ StreamClosed(k)
         PROVE  UNCHANGED mapVars
    BY <1>15
    DEF StreamClose, StreamSynced, StreamClosed, mapVars, flags, engine, link,
        openers, handler
  <1>16. ASSUME InStep \/ InPacket
         PROVE  UNCHANGED mapVars
    BY <1>16
    DEF InStep, InTop, InNothing, InPush, InPacket, mapVars, flags, engine,
        link, openers
  <1>17. ASSUME \/ ProcStop \/ ProcTake \/ ProcNil \/ ProcTimer \/ ProcNext
                \/ ProcPacket \/ ProcDone \/ ProcFreed
         PROVE  MapInv'
    <2>1. UNCHANGED <<mapped, callback, freeing, connected, registered,
                      connects, opPc>>
      BY <1>17
      DEF ProcStop, ProcTake, ProcNil, ProcTimer, ProcNext, ProcPacket,
          ProcDone, ProcFreed, flags, engine, link, openers
    <2>2. procPc' \in {"sweep", "input"} => ~freeing
      BY <1>17
      DEF ProcStop, ProcTake, ProcNil, ProcTimer, ProcNext, ProcPacket,
          ProcDone, ProcFreed, ProcEnd, EngineFree
    <2>3. QED
      BY <1>4, <2>1, <2>2 DEF MapInv
  <1>18. ASSUME NEW c \in Callers,
                \/ CloseCheck(c) \/ AutoClose(c) \/ CloseLock(c)
                \/ CloseJoin(c) \/ CloseHandlers(c) \/ CloseShut(c)
         PROVE  UNCHANGED mapVars
    BY <1>18
    DEF CloseCheck, AutoClose, CloseLock, CloseJoin, CloseHandlers, CloseShut,
        mapVars, flags, engine, link, openers, handler
  <1>19. CASE UNCHANGED vars
    BY <1>14, <1>19 DEF vars, flags, engine, link, openers, handler, mapVars
  <1>20. QED
    BY <1>1, <1>2, <1>3, <1>5, <1>6, <1>7, <1>8, <1>9, <1>10, <1>11, <1>12,
       <1>13, <1>14, <1>15, <1>16, <1>17, <1>18, <1>19
    DEF Next, OpenStep, StreamStep, ProcStep, CloseStep

-----------------------------------------------------------------------------
(* Close *)

lifeVars == <<connected, queue, registered, connects, inPc, procPc, clPc,
              crashed>>

\* A handler that has ended does nothing more.
LEMMA HandlersRest ==
    ASSUME HandlersEnded, InStep \/ InPacket \/ ProcStop \/ ProcReceive
                          \/ ProcStep
    PROVE  FALSE
  BY DEF HandlersEnded, InStep, InTop, InNothing, InPush, InPacket, ProcStop,
         ProcReceive, ProcStep, ProcTake, ProcNil, ProcTimer, ProcNext,
         ProcPacket, ProcDone, ProcFlush, ProcFreed

\* A step that puts nothing in the map, connects nothing and touches nothing
\* else of a Close.
LEMMA LifeMoves ==
    ASSUME LifeInv, UNCHANGED lifeVars, mapped' => mapped,
           \A p \in Openers :
               opPc'[p] = opPc[p]
               \/ {opPc[p], opPc'[p]} \cap {"register", "up", "start"} = {}
    PROVE  LifeInv'
  <1>1. Connecting' <=> Connecting
    BY DEF Connecting
  <1>2. \A p \in Openers : opPc'[p] = "start" => opPc[p] = "start"
    OBVIOUS
  <1>3. StageInv' /\ (crashed \/ OneInv')
    BY <1>2 DEF LifeInv, StageInv, OneInv, HandlersEnded, lifeVars
  <1>4. CleanInv'
    BY <1>1 DEF LifeInv, CleanInv, HandlersEnded, lifeVars
  <1>5. QED
    BY <1>3, <1>4 DEF LifeInv, lifeVars

\* connect finds no Close past the queue, since it found the session not
\* connected, or since none has got past it.
LEMMA LifeConnect ==
    ASSUME Types, LifeInv, NEW o \in Openers,
           \/ OpenConnect(o) \/ OpenRegister(o) \/ OpenUp(o) \/ OpenStart(o)
    PROVE  LifeInv'
  <1>1. ~crashed /\ OneInv
    BY DEF OpenConnect, OpenRegister, OpenUp, OpenStart, Running, LifeInv
  <1>2. \A c \in Callers : clPc[c] \notin Past
    BY <1>1
    DEF OneInv, Types, OpenInv, OpenConnect, OpenRegister, OpenUp, OpenStart
  <1>3. \A c \in Callers : clPc'[c] = clPc[c] \/ clPc'[c] = "await"
    BY DEF OpenConnect, OpenRegister, OpenUp, OpenStart, Types, TypeOK, closers
  <1>4. \A c \in Callers : clPc'[c] \notin Past
    BY <1>2, <1>3 DEF Past
  <1>5. connected => connected'
    BY DEF OpenConnect, OpenRegister, OpenUp, OpenStart
  <1>6. queue' = queue
    BY DEF OpenConnect, OpenRegister, OpenUp, OpenStart
  <1>7. StageInv' /\ OneInv'
    <2>1. StageInv'
      BY <1>4 DEF StageInv, Past
    <2>2. \A c \in Callers : clPc'[c] \in {"lock", "join", "shut"} =>
                                connected' \/ queue' = "closed"
      BY <1>1, <1>3, <1>5, <1>6 DEF OneInv
    <2>3. \A p \in Openers : opPc'[p] = "start" => connected'
      <3>1. \A p \in Openers : opPc'[p] = "start" =>
                                 opPc[p] = "start" \/ OpenUp(o)
        BY DEF OpenConnect, OpenRegister, OpenUp, OpenStart, Types, TypeOK
      <3>2. OpenUp(o) => connected'
        BY DEF OpenUp
      <3>3. QED
        BY <1>1, <1>5, <3>1, <3>2 DEF OneInv
    <2>4. QED
      BY <1>4, <2>1, <2>2, <2>3 DEF OneInv
  <1>8. CleanInv'
    <2>1. CASE OpenConnect(o) \/ OpenRegister(o)
      <3>1. Connecting'
        BY <2>1 DEF OpenConnect, OpenRegister, Types, TypeOK, Connecting
      <3>2. ~connected /\ UNCHANGED <<inPc, procPc>>
        BY <2>1 DEF OpenConnect, OpenRegister, Types, OpenInv, handler
      <3>3. QED
        BY <3>1, <3>2 DEF LifeInv, CleanInv, HandlersEnded
    <2>2. CASE OpenUp(o)
      BY <2>2 DEF OpenUp, CleanInv
    <2>3. CASE OpenStart(o)
      BY <1>1, <2>3 DEF OpenStart, OneInv, CleanInv
    <2>4. QED
      BY <2>1, <2>2, <2>3
  <1>9. QED
    BY <1>7, <1>8 DEF LifeInv

\* A Close takes a step of its own.
LEMMA LifeClose ==
    ASSUME Types, LifeInv, NEW c \in Callers,
           \/ CloseCheck(c) \/ AutoClose(c) \/ CloseLock(c) \/ CloseJoin(c)
           \/ CloseHandlers(c)
    PROVE  LifeInv'
  <1>1. /\ UNCHANGED <<connected, queue, registered, connects, inPc, procPc,
                       crashed, mapped, opPc>>
        /\ \A d \in Callers : d # c => clPc'[d] = clPc[d]
        /\ ~crashed
    BY DEF CloseCheck, AutoClose, CloseLock, CloseJoin, CloseHandlers, Running,
           Types, TypeOK, flags, engine, link, handler, openers
  <1>2. \/ clPc'[c] \in {"idle", "done"}
        \/ clPc'[c] = "lock" /\ connected
        \/ clPc'[c] \in {"join", "shut"} /\ clPc[c] \in {"lock", "join"}
        \/ clPc'[c] = "engine" /\ clPc[c] = "handlers" /\ HandlersEnded
    BY DEF CloseCheck, AutoClose, CloseLock, CloseJoin, CloseHandlers, Types,
           TypeOK
  <1>3. StageInv'
    BY <1>1, <1>2 DEF LifeInv, StageInv, HandlersEnded, Past
  <1>4. CleanInv'
    BY <1>1 DEF LifeInv, CleanInv, HandlersEnded, Connecting
  <1>5. OneInv'
    <2>1. \A d \in Callers : clPc'[d] \in Past => clPc[d] \in Past
      BY <1>1, <1>2 DEF Past
    <2>2. QED
      BY <1>1, <1>2, <2>1 DEF LifeInv, OneInv
  <1>6. QED
    BY <1>3, <1>4, <1>5 DEF LifeInv

\* The queue is closed, or was and the process ends.
LEMMA LifeShut ==
    ASSUME Types, LifeInv, NEW c \in Callers, CloseShut(c)
    PROVE  LifeInv'
  <1>1. /\ UNCHANGED <<connected, registered, connects, inPc, procPc, mapped,
                       opPc>>
        /\ \A d \in Callers : d # c => clPc'[d] = clPc[d]
        /\ clPc[c] = "shut" /\ clPc'[c] = "handlers" /\ queue' = "closed"
        /\ ~crashed /\ crashed' = (queue = "closed")
    BY DEF CloseShut, Types, TypeOK, engine, link, handler, openers
  <1>2. StageInv'
    BY <1>1 DEF LifeInv, StageInv, HandlersEnded, Past
  <1>3. CleanInv'
    BY <1>1 DEF LifeInv, CleanInv, HandlersEnded, Connecting
  <1>4. ASSUME ~crashed'
        PROVE  OneInv'
    <2>1. queue # "closed" /\ OneInv
      BY <1>1, <1>4 DEF LifeInv
    <2>2. connected /\ \A d \in Callers : clPc[d] \notin Past
      BY <1>1, <2>1 DEF OneInv
    <2>3. \A o \in Openers : opPc[o] # "start"
      BY ClientAssumption DEF CloseShut, Types, OpenInv, Holding
    <2>4. QED
      BY <1>1, <2>2, <2>3 DEF OneInv
  <1>5. QED
    BY <1>2, <1>3, <1>4 DEF LifeInv

\* The engine, the registry and the flags let the session go.
LEMMA LifeEnd ==
    ASSUME Types, LifeInv, NEW c \in Callers,
           CloseEngine(c) \/ CloseFlag(c)
    PROVE  LifeInv'
  <1>1. /\ UNCHANGED <<queue, connects, inPc, procPc, crashed, opPc>>
        /\ \A d \in Callers : d # c => clPc'[d] = clPc[d]
        /\ ~crashed /\ clPc[c] \in Past /\ clPc[c] # "handlers"
        /\ \/ /\ clPc'[c] \in Past /\ clPc'[c] # "handlers"
              /\ connected' = connected
           \/ clPc'[c] = "done" /\ clPc[c] = "flag2" /\ ~connected'
        /\ mapped' => mapped
        /\ registered' => registered
        /\ clPc'[c] \in {"registry", "flag", "flag2"} =>
              ~mapped' \/ clPc[c] \in {"registry", "flag", "flag2"}
        /\ clPc'[c] \in {"flag", "flag2"} =>
              ~registered' \/ clPc[c] \in {"flag", "flag2"}
    BY DEF CloseEngine, CloseFlag, Unmap, Running, Types, TypeOK, Past, engine,
           link, handler, openers
  <1>2. OneInv
    BY <1>1 DEF LifeInv
  <1>3. \A d \in Callers : d # c => clPc[d] \notin Past /\ clPc'[d] \notin Past
    BY <1>1, <1>2 DEF OneInv
  <1>4. StageInv'
    BY <1>1, <1>3 DEF LifeInv, StageInv, HandlersEnded, Past
  <1>5. queue = "closed" /\ connected
    BY <1>1, <1>2 DEF OneInv
  <1>6. CleanInv'
    <2>1. CASE connected' = connected
      BY <1>5, <2>1 DEF CleanInv
    <2>2. CASE clPc'[c] = "done" /\ clPc[c] = "flag2"
      BY <1>1, <1>5, <2>2
      DEF LifeInv, StageInv, CleanInv, HandlersEnded, Past
    <2>3. QED
      BY <1>1, <2>1, <2>2
  <1>7. OneInv'
    BY <1>1, <1>2, <1>3, <1>5 DEF OneInv, Past
  <1>8. QED
    BY <1>4, <1>6, <1>7 DEF LifeInv

LEMMA LifeKept ==
    ASSUME Types, LifeInv, [Next]_vars
    PROVE  LifeInv'
  <1>1. ASSUME NEW o \in Openers, OpenLock(o)
        PROVE  LifeInv'
    <2>1. /\ queue' = queue \/ queue = "none"
          /\ UNCHANGED <<connected, registered, connects, inPc, procPc, clPc,
                         crashed, mapped>>
      BY <1>1 DEF OpenLock, Running, engine, link, handler, closers
    <2>2. queue = "closed" => queue' = "closed"
      BY <2>1
    <2>3. /\ Connecting' <=> Connecting
          /\ \A p \in Openers : opPc'[p] = "start" => opPc[p] = "start"
      BY <1>1, OpenOther DEF Connecting
    <2>4. StageInv' /\ (crashed \/ OneInv')
      BY <2>1, <2>2, <2>3 DEF LifeInv, StageInv, OneInv, HandlersEnded
    <2>5. CleanInv'
      BY <2>1, <2>2, <2>3 DEF LifeInv, CleanInv, HandlersEnded
    <2>6. QED
      BY <2>1, <2>4, <2>5 DEF LifeInv
  <1>2. ASSUME NEW o \in Openers,
               \/ OpenConnect(o) \/ OpenRegister(o) \/ OpenUp(o)
               \/ OpenStart(o)
        PROVE  LifeInv'
    BY <1>2, LifeConnect
  <1>3. ASSUME NEW o \in Openers,
               \/ OpenRefused(o) \/ OpenTold(o) \/ OpenEngine(o)
               \/ OnStreamOpen(o) \/ OpenAdd(o)
        PROVE  LifeInv'
    <2>1. UNCHANGED lifeVars /\ mapped' = mapped
      BY <1>3
      DEF OpenRefused, OpenTold, OpenEngine, OnStreamOpen, OpenAdd, Running,
          lifeVars, flags, engine, link, handler, closers
    <2>2. QED
      BY <1>3, <2>1, OpenOther, LifeMoves
  <1>4. ASSUME UNCHANGED lifeVars, UNCHANGED opPc, mapped' => mapped
        PROVE  LifeInv'
    BY <1>4, LifeMoves
  <1>5. ASSUME NEW s \in Ids, OnStreamClose(s)
        PROVE  LifeInv'
    BY <1>4, <1>5
    DEF OnStreamClose, Running, lifeVars, link, handler, closers, openers
  <1>6. ASSUME NEW s \in PeerStreams, OnPeerOpen(s)
        PROVE  LifeInv'
    BY <1>4, <1>6
    DEF OnPeerOpen, Running, lifeVars, flags, link, handler, closers, openers
  <1>7. ASSUME NEW k \in QStreams,
               StreamClose(k) \/ StreamSynced(k) \/ StreamStep(k)
        PROVE  LifeInv'
    <2>1. UNCHANGED lifeVars /\ UNCHANGED <<opPc, mapped>>
      BY <1>7
      DEF StreamClose, StreamSynced, StreamStep, StreamReset, StreamFlush,
          StreamClosed, Running, lifeVars, flags, engine, link, handler,
          closers, openers
    <2>2. QED
      BY <1>4, <2>1
  <1>8. CASE FreeStream \/ FreeConnection
    <2>1. UNCHANGED lifeVars /\ UNCHANGED opPc /\ (mapped' => mapped)
      BY <1>8
      DEF FreeStream, FreeConnection, Unmap, Running, lifeVars, flags, handler,
          closers, openers
    <2>2. QED
      BY <1>4, <2>1
  <1>9. CASE InStep \/ InPacket \/ ProcStop \/ ProcReceive \/ ProcStep
    <2>1. ~HandlersEnded
      BY <1>9, HandlersRest
    <2>2. /\ UNCHANGED <<connected, queue, registered, connects, clPc, crashed,
                         opPc>>
          /\ mapped' => mapped
      <3>1. CASE InStep \/ InPacket \/ ProcStop
        BY <3>1
        DEF InStep, InTop, InNothing, InPush, InPacket, ProcStop, Running,
            flags, engine, link, closers, openers
      <3>2. CASE ProcReceive
        BY <3>2 DEF ProcReceive, Running, flags, closers, openers
      <3>3. CASE ProcStep
        BY <3>3
        DEF ProcStep, ProcTake, ProcNil, ProcTimer, ProcNext, ProcPacket,
            ProcDone, ProcFlush, ProcFreed, Running, flags, engine, link,
            closers, openers
      <3>4. QED
        BY <1>9, <3>1, <3>2, <3>3
    <2>3. StageInv'
      BY <2>1, <2>2 DEF LifeInv, StageInv
    <2>4. CleanInv'
      BY <2>1, <2>2 DEF LifeInv, CleanInv
    <2>5. crashed \/ OneInv'
      BY <2>2 DEF LifeInv, OneInv
    <2>6. QED
      BY <2>2, <2>3, <2>4, <2>5 DEF LifeInv
  <1>10. ASSUME NEW c \in Callers, CloseCheck(c) \/ CloseStep(c) \/ CloseShut(c)
         PROVE  LifeInv'
    BY <1>10, LifeClose, LifeShut, LifeEnd DEF CloseStep
  <1>11. CASE UNCHANGED vars
    <2>1. UNCHANGED lifeVars /\ UNCHANGED <<opPc, mapped>>
      BY <1>11
      DEF vars, lifeVars, flags, engine, link, handler, closers, openers
    <2>2. QED
      BY <1>4, <2>1
  <1>12. QED
    BY <1>1, <1>2, <1>3, <1>5, <1>6, <1>7, <1>8, <1>9, <1>10, <1>11
    DEF Next, OpenStep

-----------------------------------------------------------------------------
(* Who has been told *)

LEMMA ToldKept ==
    ASSUME Types, ToldInv, [Next]_vars
    PROVE  ToldInv'
  <1>1. ASSUME NEW o \in Openers, OpenConnect(o)
        PROVE  ToldInv'
    <2>1. /\ connects' = connects + 1 /\ connects \in Nat
          /\ UNCHANGED <<stPc, told, clSet, clPc>>
      BY <1>1, ClientAssumption
      DEF OpenConnect, Types, TypeOK, members, closers
    <2>2. /\ \A c \in Autos : c > connects' => c > connects
          /\ \A c \in Autos : c = connects' => c > connects
      BY <2>1, ClientAssumption DEF Autos
    <2>3. QED
      BY <2>1, <2>2 DEF ToldInv
  <1>2. ASSUME NEW o \in Openers, OpenRegister(o) \/ OpenUp(o)
        PROVE  ToldInv'
    <2>1. /\ UNCHANGED <<stPc, told, clSet, clPc, connects>> /\ Starting
      BY <1>2 DEF OpenRegister, OpenUp, members, closers, Starting
    <2>2. QED
      BY <2>1 DEF ToldInv
  <1>3. ASSUME NEW o \in Openers, OpenStart(o)
        PROVE  ToldInv'
    <2>1. /\ UNCHANGED <<stPc, told, clSet, connects>> /\ Starting
          /\ \A c \in Callers :
                clPc'[c] = IF c = connects THEN "await" ELSE clPc[c]
      BY <1>3 DEF OpenStart, Types, TypeOK, members, Starting
    <2>2. connects \in Autos
      BY <1>3, ClientAssumption DEF OpenStart, Types, TypeOK, OpenInv, Autos
    <2>3. ~Starting'
      <3>1. lock = o
        BY <1>3 DEF OpenStart, Types, OpenInv, Holding
      <3>2. \A p \in Openers : p # o => opPc[p] \notin Holding
        BY <3>1 DEF Types, OpenInv
      <3>3. \A p \in Openers : opPc'[p] \notin {"register", "up", "start"}
        BY <1>3, <3>2 DEF OpenStart, Types, TypeOK, Holding
      <3>4. QED
        BY <3>3 DEF Starting
    <2>4. clSet[connects] = {}
      BY <2>1, <2>2 DEF ToldInv, Callers
    <2>5. \A c \in Autos : c > connects => c # connects
      BY ClientAssumption DEF Types, TypeOK, Autos
    <2>6. \A c \in Autos : c \in Callers
      BY DEF Callers
    <2>7. QED
      BY <2>1, <2>3, <2>4, <2>5, <2>6 DEF ToldInv, Past
  <1>4. ASSUME NEW s \in Ids, OnStreamClose(s)
        PROVE  ToldInv'
    <2>1. /\ UNCHANGED <<clPc, clSet, connects, opPc>> /\ told \subseteq told'
          /\ \A k \in QStreams : stPc'[k] = "done" => stPc[k] = "done"
      BY <1>4 DEF OnStreamClose, Types, TypeOK, closers, openers
    <2>2. QED
      BY <2>1 DEF ToldInv, Starting
  <1>5. ASSUME NEW k \in QStreams,
               StreamClose(k) \/ StreamSynced(k) \/ StreamStep(k)
        PROVE  ToldInv'
    <2>1. UNCHANGED <<clPc, clSet, connects, told, opPc>>
      BY <1>5
      DEF StreamClose, StreamSynced, StreamStep, StreamReset, StreamFlush,
          StreamClosed, flags, members, closers, openers
    <2>2. \A l \in QStreams :
              stPc'[l] = "done" => stPc[l] = "done" \/ l \in told
      BY <1>5
      DEF StreamClose, StreamSynced, StreamStep, StreamReset, StreamFlush,
          StreamClosed, Types, TypeOK
    <2>3. QED
      BY <2>1, <2>2 DEF ToldInv, Starting
  <1>6. ASSUME NEW o \in Openers, OpenAdd(o)
        PROVE  ToldInv'
    <2>1. /\ UNCHANGED <<clPc, clSet, connects, told>>
          /\ \A k \in QStreams : stPc'[k] = "done" => stPc[k] = "done"
      BY <1>6 DEF OpenAdd, Types, TypeOK, flags, closers
    <2>2. Starting' <=> Starting
      BY <1>6, OpenOther DEF Starting
    <2>3. QED
      BY <2>1, <2>2 DEF ToldInv
  <1>7. ASSUME NEW c \in Callers, CloseLock(c)
        PROVE  ToldInv'
    <2>1. /\ UNCHANGED <<connects, told, opPc>>
          /\ \A d \in Callers : d # c => clPc'[d] = clPc[d]
                                         /\ clSet'[d] = clSet[d]
          /\ clPc[c] = "lock" /\ clPc'[c] = "join"
          /\ \A k \in QStreams : stPc'[k] = "done" => stPc[k] = "done"
      BY <1>7 DEF CloseLock, Types, TypeOK, members, openers
    <2>2. \A d \in Autos : d \in Callers
      BY DEF Callers
    <2>3. QED
      BY <2>1, <2>2 DEF ToldInv, Past, Starting
  <1>8. ASSUME NEW c \in Callers,
               \/ CloseCheck(c) \/ AutoClose(c) \/ CloseJoin(c)
               \/ CloseHandlers(c) \/ CloseEngine(c) \/ CloseFlag(c)
               \/ CloseShut(c)
        PROVE  ToldInv'
    <2>1. /\ UNCHANGED <<connects, told, clSet, stPc, opPc>>
          /\ \A d \in Callers : d # c => clPc'[d] = clPc[d]
          /\ clPc[c] # "none"
      BY <1>8
      DEF CloseCheck, AutoClose, CloseJoin, CloseHandlers, CloseEngine,
          CloseFlag, CloseShut, Types, TypeOK, flags, members, openers
    <2>2. \/ /\ clPc[c] \in {"await", "idle"}
             /\ clPc'[c] \in {"idle", "lock", "done"}
          \/ /\ clPc[c] = "join" /\ clPc'[c] = "shut"
             /\ \A k \in clSet[c] : stPc[k] = "done"
          \/ /\ clPc[c] \in Past \cup {"shut"}
             /\ clPc'[c] \in Past \cup {"done"}
      BY <1>8
      DEF CloseCheck, AutoClose, CloseJoin, CloseHandlers, CloseEngine,
          CloseFlag, CloseShut, Types, TypeOK, Past
    <2>3. clSet[c] \subseteq QStreams
      BY DEF Types, TypeOK
    <2>4. /\ clPc'[c] \in {"none", "await", "idle", "lock"} => clSet[c] = {}
          /\ clPc'[c] \in Past \cup {"shut", "done"} => clSet[c] \subseteq told
      BY <2>2, <2>3 DEF ToldInv, Past
    <2>5. \A d \in Autos : d \in Callers
      BY DEF Callers
    <2>6. QED
      BY <2>1, <2>4, <2>5 DEF ToldInv, Starting
  <1>9. ASSUME UNCHANGED <<stPc, told, closers, connects>>,
               Starting' <=> Starting
        PROVE  ToldInv'
    BY <1>9 DEF ToldInv, closers
  <1>10. ASSUME NEW o \in Openers,
                \/ OpenLock(o) \/ OpenRefused(o) \/ OpenTold(o)
                \/ OpenEngine(o) \/ OnStreamOpen(o)
         PROVE  ToldInv'
    <2>1. UNCHANGED <<stPc, told, closers, connects>>
      BY <1>10
      DEF OpenLock, OpenRefused, OpenTold, OpenEngine, OnStreamOpen, flags,
          members
    <2>2. Starting' <=> Starting
      BY <1>10, OpenOther DEF Starting
    <2>3. QED
      BY <1>9, <2>1, <2>2
  <1>11. CASE UNCHANGED <<stPc, told, closers, connects, opPc>>
    BY <1>9, <1>11 DEF Starting
  <1>12. ASSUME NEW s \in PeerStreams, OnPeerOpen(s)
         PROVE  UNCHANGED <<stPc, told, closers, connects, opPc>>
    BY <1>12 DEF OnPeerOpen, flags, members, openers
  <1>13. ASSUME FreeStream \/ FreeConnection \/ InStep \/ InPacket
         PROVE  UNCHANGED <<stPc, told, closers, connects, opPc>>
    BY <1>13
    DEF FreeStream, FreeConnection, InStep, InTop, InNothing, InPush, InPacket,
        flags, members, openers
  <1>14. ASSUME ProcStop \/ ProcReceive \/ ProcStep
         PROVE  UNCHANGED <<stPc, told, closers, connects, opPc>>
    BY <1>14
    DEF ProcStop, ProcReceive, ProcStep, ProcTake, ProcNil, ProcTimer, ProcNext,
        ProcPacket, ProcDone, ProcFlush, ProcFreed, flags, members, openers
  <1>15. CASE UNCHANGED vars
    BY <1>11, <1>15 DEF vars, flags, members, openers
  <1>16. QED
    BY <1>1, <1>2, <1>3, <1>4, <1>5, <1>6, <1>7, <1>8, <1>10, <1>11, <1>12,
       <1>13, <1>14, <1>15
    DEF Next, OpenStep, CloseStep

-----------------------------------------------------------------------------
(* The theorems *)

LEMMA InvStart == ASSUME Init PROVE Inv
  <1>1. TypeOK
    <2>1. /\ {connected, closing, registered, mapped, dying, freeing, crashed}
               \subseteq BOOLEAN
      BY DEF Init
    <2>2. qlen \in 0..QueueCap /\ buf \in 0..MaxBatch
          /\ connects \in 0..MaxConnects
      <3>1. \A n \in Nat : 0 \in 0..n
        OBVIOUS
      <3>2. QED
        BY <3>1, ClientAssumption DEF Init
    <2>3. clPc \in [Callers -> {"idle", "none"}]
      BY DEF Init
    <2>4. QED
      BY <2>1, <2>2, <2>3 DEF Init, TypeOK
  <1>2. OpenInv /\ MapInv
    BY ClientAssumption DEF Init, OpenInv, MapInv, Holding
  <1>3. \A c \in Callers : clPc[c] \in {"idle", "none"} /\ clSet[c] = {}
    BY DEF Init
  <1>4. \A c \in Autos : clPc[c] = "none"
    BY ClientAssumption DEF Init, Callers
  <1>5. connects = 0 /\ ~(connects > 0) /\ HandlersEnded
    BY DEF Init, HandlersEnded
  <1>6. \A o \in Openers : opPc[o] = "idle"
    BY DEF Init
  <1>7. LifeInv
    BY <1>3, <1>5, <1>6 DEF LifeInv, StageInv, OneInv, CleanInv, Past
  <1>8. ToldInv
    BY <1>3, <1>4 DEF Init, ToldInv, Past
  <1>9. QED
    BY <1>1, <1>2, <1>7, <1>8 DEF Inv, Types

LEMMA InvKept == ASSUME Inv, [Next]_vars PROVE Inv'
  BY TypeKept, OpenKept, MapKept, LifeKept, ToldKept DEF Inv, Types

\* Every field stays in its range, the queue within its capacity, and the
\* engine's open streams are streams of its connection.
THEOREM TypeCorrect == Spec => []TypeOK
  <1>1. Inv => TypeOK
    BY DEF Inv, Types
  <1>2. QED
    BY <1>1, InvStart, InvKept, PTL DEF Spec

\* connect holds streamsLock while it waits for the engine, and callbacks want
\* streamsLock while they hold the engine, but never at the same time.
THEOREM LocksCorrect == Spec => []NoLockCycle
  <1>1. ASSUME Inv, NEW o \in Openers, lock = o,
               opPc[o] \in {"connect", "open"}
        PROVE  EngineFree
    <2>1. opPc[o] = "connect" /\ ~connected
      BY <1>1 DEF Inv, Types, OpenInv, Holding
    <2>2. ~Connecting
      BY <1>1, <2>1 DEF Inv, Types, OpenInv, Holding, Connecting
    <2>3. callback = {} /\ ~freeing
      BY <1>1, <2>1, <2>2 DEF Inv, MapInv
    <2>4. procPc \notin {"sweep", "input"}
      BY <1>1, <2>1 DEF Inv, LifeInv, CleanInv, HandlersEnded
    <2>5. QED
      BY <2>3, <2>4 DEF EngineFree
  <1>2. Inv => NoLockCycle
    BY <1>1 DEF NoLockCycle
  <1>3. QED
    BY <1>2, InvStart, InvKept, PTL DEF Spec

\* A session that says it is closed has no handler at work, and unless an opener
\* is connecting it anew, nothing in the engine, in the registry or open.
THEOREM CleanCorrect == Spec => []ClosedIsClean
  <1>1. Inv => ClosedIsClean
    BY DEF Inv, LifeInv, CleanInv, ClosedIsClean
  <1>2. QED
    BY <1>1, InvStart, InvKept, PTL DEF Spec

\* Close shuts the queue after its streams have been told, and the engine lets
\* the session go before the registry does; the registry is late only for a
\* connection that has just been made.
THEOREM OrderCorrect == Spec => []CloseInOrder
  <1>1. Inv => CloseInOrder
    BY DEF Inv, MapInv, ToldInv, CloseInOrder, Past, Registering
  <1>2. QED
    BY <1>1, InvStart, InvKept, PTL DEF Spec

=============================================================================
