------------------------- MODULE ServerSessionProofs -------------------------
(***************************************************************************)
(* What holds of a server session for any number of clients, hosts,        *)
(* connections, streams and any capacity of the queues.                    *)
(*                                                                         *)
(* The session is one of the engine's callers (SessionRefinesEngine), so   *)
(* what EngineTableProofs has of the map holds here too: no id leads to    *)
(* memory that was freed.  None of the properties of the session is        *)
(* inductive.  They follow from Inv:                                       *)
(*   LifeInv   the map knows an id only while its connection is active,    *)
(*             and the handlers end before QuiclyClose;                    *)
(*   TableInv  as long as Close has not dropped the table, a connection    *)
(*             that is started is the one the table has for its host;      *)
(*   HostInv   the packets of a connection, and with them the callers of   *)
(*             the engine and what the map has, come from its host.        *)
(***************************************************************************)
EXTENDS ServerSession, EngineTableProofs

SessionTypes ==
    SessionTypeOK /\ ReaderTypeOK /\ ConnTypeOK /\ CallbackTypeOK

-----------------------------------------------------------------------------
(* Types *)

\* A reader with a packet in its hands has an address and a connection.
LEMMA ReaderParts ==
    ASSUME ReaderTypeOK, reader[1] \in {"lock", "push"}
    PROVE  reader[2] \in Peers /\ reader[3] \in Ids
  BY DEF ReaderTypeOK

\* A callback has the id of a connection and a stream.
LEMMA CallbackParts ==
    ASSUME CallbackTypeOK, callback # None
    PROVE  callback[2] \in Ids /\ callback[3] \in Streams
  BY DEF CallbackTypeOK

\* The engine calls back for a stream and an id of the registry.
LEMMA CallbackTyped ==
    ASSUME ConnTypeOK, CallbackTypeOK, NEW kind \in {"open", "close"},
           NEW c, NEW s \in Streams, Callback(kind, c, s)
    PROVE  callback' \in {None}
             \cup ({"open", "enter", "look", "scan", "close"} \X Ids \X Streams)
  <1>1. \A i \in {i \in registry : map[i] = c} : i \in Ids
    BY DEF ConnTypeOK
  <1>2. CASE {i \in registry : map[i] = c} = {}
    BY <1>2 DEF Callback
  <1>3. CASE {i \in registry : map[i] = c} # {}
    <2>1. (CHOOSE i \in {i \in registry : map[i] = c} : TRUE) \in Ids
      BY <1>1, <1>3
    <2>2. QED
      BY <1>3, <2>1 DEF Callback
  <1>4. QED
    BY <1>2, <1>3

\* A handler that ends keeps the types of what it changes.
LEMMA HandlerEndsTyped ==
    ASSUME ConnTypeOK, NEW h \in Ids, HandlerEnds(h)
    PROVE  /\ done' \subseteq Ids
           /\ handlers' \in [Ids -> {"new", "run", "stuck", "end"}]
  BY DEF HandlerEnds, ConnTypeOK

\* The session that starts.
LEMMA SessionStart == ASSUME Init PROVE SessionTypes
  <1>1. SessionTypeOK
    <2>1. AcceptCap \in Nat
      BY SessionAssumption
    <2>2. /\ table = [k \in Hosts |-> None]
          /\ closeStage = "no" /\ closeTodo = {} /\ cancelled = FALSE
          /\ sessionLock = None /\ offered = 0
      BY DEF Init
    <2>3. table \in [Hosts -> Ids \cup {None}] /\ offered \in 0..AcceptCap
      BY <2>1, <2>2
    <2>4. closeTodo \subseteq Ids
      BY <2>2
    <2>5. /\ closeStage \in {"no", "closing", "waiting", "closed"}
          /\ cancelled \in BOOLEAN
          /\ sessionLock \in {"scan", "close", None}
      BY <2>2
    <2>6. onOpen \in BOOLEAN
      BY DEF Init
    <2>7. QED
      BY <2>3, <2>4, <2>5, <2>6 DEF SessionTypeOK
  <1>2. ReaderTypeOK
    BY DEF Init, ReaderTypeOK
  <1>3. ConnTypeOK
    <2>1. <<>> \in Seq(Peers) /\ Len(<<>>) = 0 /\ 0 <= QueueCap
      BY SessionAssumption
    <2>2. inbox = [h \in Ids |-> <<>>]
      BY DEF Init
    <2>3. /\ inbox \in [Ids -> Seq(Peers)]
          /\ \A h \in Ids : Len(inbox[h]) <= QueueCap
      BY <2>1, <2>2
    <2>4. QED
      BY <2>3 DEF Init, ConnTypeOK
  <1>4. CallbackTypeOK
    BY DEF Init, CallbackTypeOK
  <1>5. QED
    BY <1>1, <1>2, <1>3, <1>4 DEF SessionTypes

\* A step of the reader keeps the types.
LEMMA ReaderTypes ==
    ASSUME SessionTypes, NEW p \in Peers,
           AddFound(p) \/ AddNew(p) \/ InLock \/ InPush
    PROVE  SessionTypes'
  <1>1. SessionTypeOK /\ ReaderTypeOK /\ ConnTypeOK /\ CallbackTypeOK
    BY DEF SessionTypes
  <1>2. KeyOf(p) \in Hosts
    BY SessionAssumption DEF KeyOf
  <1>3. CASE AddFound(p)
    <2>1. table[KeyOf(p)] \in Ids
      BY <1>1, <1>2, <1>3 DEF AddFound, Known, SessionTypeOK
    <2>2. ReaderTypeOK'
      BY <1>1, <1>3, <2>1 DEF AddFound, ReaderTypeOK
    <2>3. QED
      BY <1>1, <1>3, <2>2
      DEF AddFound, SessionTypes, SessionTypeOK, ConnTypeOK, CallbackTypeOK,
          sessionVars, connVars, callbackVars
  <1>4. CASE AddNew(p)
    <2> DEFINE h == CHOOSE h \in Ids : Unused(h)
    <2>1. h \in Ids
      BY <1>4 DEF AddNew
    <2>2. /\ Start(h, p)
          /\ came' = came \cup {p}
          /\ \/ reader' = <<"ended">> /\ cancelled' = TRUE /\ table' = table
             \/ /\ reader' = <<"lock", p, h>>
                /\ table' = [table EXCEPT ![KeyOf(p)] = h]
                /\ cancelled' = cancelled
          /\ UNCHANGED <<closeStage, closeTodo, offered, callbackVars, clients,
                         onOpen, sessionLock, done, inbox, streams, engStreams,
                         leaked>>
      BY <1>4 DEF AddNew
    <2> HIDE DEF h
    <2>3. ReaderTypeOK'
      BY <1>1, <2>1, <2>2 DEF ReaderTypeOK
    <2>4. SessionTypeOK'
      BY <1>1, <1>2, <2>1, <2>2 DEF SessionTypeOK
    <2>5. ConnTypeOK'
      BY <1>1, <2>1, <2>2 DEF ConnTypeOK, Start
    <2>6. CallbackTypeOK'
      BY <1>1, <2>2 DEF CallbackTypeOK, callbackVars
    <2>7. QED
      BY <2>3, <2>4, <2>5, <2>6 DEF SessionTypes
  <1>5. CASE InLock
    <2>1. reader[2] \in Peers /\ reader[3] \in Ids
      BY <1>1, <1>5, ReaderParts DEF InLock
    <2>2. ReaderTypeOK'
      BY <1>1, <1>5, <2>1 DEF InLock, NextRead, ReaderTypeOK
    <2>3. QED
      BY <1>1, <1>5, <2>2
      DEF InLock, SessionTypes, SessionTypeOK, ConnTypeOK, CallbackTypeOK,
          sessionVars, connVars, callbackVars
  <1>6. CASE InPush
    <2> DEFINE h == reader[3]
    <2>1. reader[2] \in Peers /\ h \in Ids
      BY <1>1, <1>6, ReaderParts DEF InPush
    <2>2. ReaderTypeOK'
      BY <1>1, <1>6 DEF InPush, NextRead, ReaderTypeOK
    <2>3. \/ inbox' = inbox
          \/ /\ Len(inbox[h]) < QueueCap
             /\ inbox' = [inbox EXCEPT ![h] = Append(inbox[h], reader[2])]
      BY <1>6 DEF InPush
    <2>4. /\ inbox' \in [Ids -> Seq(Peers)]
          /\ \A g \in Ids : Len(inbox'[g]) <= QueueCap
      <3>1. CASE inbox' = inbox
        BY <1>1, <3>1 DEF ConnTypeOK
      <3>2. CASE /\ Len(inbox[h]) < QueueCap
                 /\ inbox' = [inbox EXCEPT ![h] = Append(inbox[h], reader[2])]
        <4>1. inbox[h] \in Seq(Peers)
          BY <1>1, <2>1 DEF ConnTypeOK
        <4>2. /\ Append(inbox[h], reader[2]) \in Seq(Peers)
              /\ Len(Append(inbox[h], reader[2])) = Len(inbox[h]) + 1
              /\ Len(inbox[h]) \in Nat
          BY <2>1, <4>1
        <4>3. Len(Append(inbox[h], reader[2])) <= QueueCap
          BY <3>2, <4>2, SessionAssumption
        <4>4. QED
          BY <1>1, <2>1, <3>2, <4>2, <4>3 DEF ConnTypeOK
      <3>3. QED
        BY <2>3, <3>1, <3>2
    <2>5. QED
      BY <1>1, <1>6, <2>2, <2>4
      DEF InPush, SessionTypes, SessionTypeOK, ConnTypeOK, CallbackTypeOK,
          sessionVars, connVars, callbackVars
  <1>7. QED
    BY <1>3, <1>4, <1>5, <1>6

\* A step of a handler, or of a connection that closes, keeps the types.
LEMMA ConnTypes ==
    ASSUME SessionTypes, NEW h \in Ids,
           \/ HandlerStop(h) \/ HandlePacket(h) \/ Flush(h)
           \/ StreamReset(h) \/ ConnClose(h) \/ CloseStep(h)
    PROVE  SessionTypes'
  <1>1. SessionTypeOK /\ ReaderTypeOK /\ ConnTypeOK /\ CallbackTypeOK
    BY DEF SessionTypes
  <1> USE DEF SessionTypes, SessionTypeOK, ReaderTypeOK, ConnTypeOK,
              CallbackTypeOK, sessionVars, readVars, connVars, callbackVars
  <1>2. CASE HandlerStop(h)
    BY <1>1, <1>2 DEF HandlerStop
  <1>3. CASE HandlePacket(h)
    <2>1. inbox[h] \in Seq(Peers) /\ inbox[h] # <<>>
      BY <1>1, <1>3 DEF HandlePacket
    <2>2. Tail(inbox[h]) \in Seq(Peers) /\ Len(Tail(inbox[h])) <= QueueCap
      BY <1>1, <2>1, SessionAssumption
    <2>3. inbox' = [inbox EXCEPT ![h] = Tail(inbox[h])]
      BY <1>3 DEF HandlePacket
    <2>4. inbox' \in [Ids -> Seq(Peers)]
          /\ \A g \in Ids : Len(inbox'[g]) <= QueueCap
      BY <1>1, <2>2, <2>3
    <2>5. QED
      BY <1>1, <1>3, <2>4 DEF HandlePacket
  <1>4. CASE Flush(h)
    <2>1. /\ done' \subseteq Ids
          /\ handlers' \in [Ids -> {"new", "run", "stuck", "end"}]
      BY <1>1, <1>4, HandlerEndsTyped DEF Flush
    <2>2. QED
      BY <1>1, <1>4, <2>1 DEF Flush
  <1>5. CASE StreamReset(h)
    <2>1. PICK s \in streams[h] \cap engStreams[map[h]] :
            /\ engStreams' = [engStreams EXCEPT ![map[h]] = @ \ {s}]
            /\ Callback("close", map[h], s)
      BY <1>5 DEF StreamReset
    <2>2. s \in Streams
      BY <1>1, <2>1
    <2>3. callback' \in {None}
             \cup ({"open", "enter", "look", "scan", "close"} \X Ids \X Streams)
      BY <1>1, <2>1, <2>2, CallbackTyped
    <2>4. engStreams' \in [Conns -> SUBSET Streams]
      BY <1>1, <2>1
    <2>5. QED
      BY <1>1, <1>5, <2>3, <2>4 DEF StreamReset
  <1>6. CASE ConnClose(h)
    BY <1>1, <1>6 DEF ConnClose, BeginClose
  <1>7. CASE CloseShut(h)
    BY <1>1, <1>7 DEF CloseShut
  <1>8. CASE CloseEngine(h)
    BY <1>1, <1>8 DEF CloseEngine
  <1>9. CASE CloseDelete(h)
    <2>1. /\ table' \in [Hosts -> Ids \cup {None}]
          /\ registry' \subseteq Ids
      BY <1>1, <1>9 DEF CloseDelete
    <2>2. /\ inbox' \in [Ids -> Seq(Peers)]
          /\ \A g \in Ids : Len(inbox'[g]) <= QueueCap
      BY <1>1, <1>9, SessionAssumption DEF CloseDelete
    <2>3. QED
      BY <1>1, <1>9, <2>1, <2>2 DEF CloseDelete
  <1>10. QED
    BY <1>2, <1>3, <1>4, <1>5, <1>6, <1>7, <1>8, <1>9 DEF CloseStep

\* A step of the engine keeps the types.
LEMMA EngineTypes ==
    ASSUME SessionTypes, EngineInv, EngineStep
    PROVE  SessionTypes'
  <1>1. SessionTypeOK /\ ReaderTypeOK /\ ConnTypeOK /\ CallbackTypeOK
    BY DEF SessionTypes
  <1> USE DEF SessionTypes, SessionTypeOK, ReaderTypeOK, ConnTypeOK,
              CallbackTypeOK, sessionVars, readVars, connVars, callbackVars
  <1>2. Accepted => handlers' \in [Ids -> {"new", "run", "stuck", "end"}]
    BY <1>1 DEF Accepted
  <1>3. CASE EngineSweeps
    BY <1>1, <1>3 DEF EngineSweeps
  <1>4. CASE EngineAccepts
    BY <1>1, <1>2, <1>4 DEF EngineAccepts
  <1>5. CASE EngineRefuses
    BY <1>1, <1>5 DEF EngineRefuses
  <1>6. CASE EngineFrees
    <2>1. /\ callback' \in {None}
             \cup ({"open", "enter", "look", "scan", "close"} \X Ids \X Streams)
          /\ engStreams' \in [Conns -> SUBSET Streams]
      <3>1. CASE engStreams[map[call[2]]] = {}
        BY <1>1, <1>6, <3>1 DEF EngineFrees
      <3>2. CASE \E s \in engStreams[map[call[2]]] :
                   /\ engStreams' = [engStreams EXCEPT ![map[call[2]]] = @ \ {s}]
                   /\ Callback("close", map[call[2]], s)
        <4>1. PICK s \in engStreams[map[call[2]]] :
                /\ engStreams' = [engStreams EXCEPT ![map[call[2]]] = @ \ {s}]
                /\ Callback("close", map[call[2]], s)
          BY <3>2
        <4>2. map[call[2]] \in Conns
          BY <1>6
          DEF EngineFrees, EngineInv, EngineTypeOK, NoDangling, FreeHasConn
        <4>3. s \in Streams
          BY <1>1, <4>1, <4>2
        <4>4. QED
          BY <1>1, <4>1, <4>3, CallbackTyped
      <3>3. QED
        BY <1>6, <3>1, <3>2 DEF EngineFrees
    <2>2. QED
      BY <1>1, <1>6, <2>1 DEF EngineFrees
  <1>7. CASE \E c \in Conns : EngineReceives(c)
    <2>1. PICK c \in Conns : EngineReceives(c)
      BY <1>7
    <2>2. /\ callback' \in {None}
             \cup ({"open", "enter", "look", "scan", "close"} \X Ids \X Streams)
          /\ engStreams' \in [Conns -> SUBSET Streams]
      <3>1. CASE UNCHANGED <<engStreams, callback>>
        BY <1>1, <3>1
      <3>2. CASE \E s \in Streams \ engStreams[c] :
                   /\ engStreams' = [engStreams EXCEPT ![c] = @ \cup {s}]
                   /\ Callback("open", c, s)
        BY <1>1, <3>2, CallbackTyped
      <3>3. CASE \E s \in engStreams[c] :
                   /\ engStreams' = [engStreams EXCEPT ![c] = @ \ {s}]
                   /\ Callback("close", c, s)
        <4>1. PICK s \in engStreams[c] :
                /\ engStreams' = [engStreams EXCEPT ![c] = @ \ {s}]
                /\ Callback("close", c, s)
          BY <3>3
        <4>2. s \in Streams
          BY <1>1, <4>1
        <4>3. QED
          BY <1>1, <4>1, <4>2, CallbackTyped
      <3>4. QED
        BY <2>1, <3>1, <3>2, <3>3 DEF EngineReceives
    <2>3. QED
      BY <1>1, <1>2, <2>1, <2>2 DEF EngineReceives
  <1>8. CASE \E c \in Conns : EngineCloses(c)
    BY <1>1, <1>2, <1>8 DEF EngineCloses
  <1>9. QED
    BY <1>3, <1>4, <1>5, <1>6, <1>7, <1>8 DEF EngineStep

\* A step of a callback keeps the types.
LEMMA CallbackTypes ==
    ASSUME SessionTypes, CallbackStep
    PROVE  SessionTypes'
  <1>1. SessionTypeOK /\ ReaderTypeOK /\ ConnTypeOK /\ CallbackTypeOK
    BY DEF SessionTypes
  <1>2. callback # None
    BY DEF CallbackStep, OnStreamOpen, OnStreamEnter, OnStreamLook,
           OnStreamScan, OnStreamClose, In
  <1>3. callback[2] \in Ids /\ callback[3] \in Streams
    BY <1>1, <1>2, CallbackParts
  <1> USE DEF SessionTypes, SessionTypeOK, ReaderTypeOK, ConnTypeOK,
              CallbackTypeOK, sessionVars, readVars, connVars, callbackVars
  <1>4. CASE OnStreamOpen
    <2>1. offered' \in 0..AcceptCap
      BY <1>1, <1>4, SessionAssumption DEF OnStreamOpen
    <2>2. /\ done' \subseteq Ids
          /\ handlers' \in [Ids -> {"new", "run", "stuck", "end"}]
          /\ callback' \in {None}
             \cup ({"open", "enter", "look", "scan", "close"} \X Ids \X Streams)
          /\ leaked' \in BOOLEAN
      <3>1. CASE Panics(callback[2])
        BY <1>1, <1>3, <3>1, HandlerEndsTyped DEF Panics
      <3>2. CASE /\ callback' = <<"enter", callback[2], callback[3]>>
                 /\ UNCHANGED <<leaked, handlers, done>>
        BY <1>1, <1>3, <3>2
      <3>3. QED
        BY <1>4, <3>1, <3>2 DEF OnStreamOpen
    <2>3. QED
      BY <1>1, <1>4, <2>1, <2>2 DEF OnStreamOpen
  <1>5. CASE OnStreamEnter
    <2>1. /\ done' \subseteq Ids
          /\ handlers' \in [Ids -> {"new", "run", "stuck", "end"}]
          /\ callback' \in {None}
             \cup ({"open", "enter", "look", "scan", "close"} \X Ids \X Streams)
          /\ leaked' \in BOOLEAN
      <3>1. CASE Panics(callback[2])
        BY <1>1, <1>3, <3>1, HandlerEndsTyped DEF Panics
      <3>2. CASE /\ callback' = <<"look", callback[2], callback[3]>>
                 /\ UNCHANGED <<leaked, handlers, done>>
        BY <1>1, <1>3, <3>2
      <3>3. QED
        BY <1>5, <3>1, <3>2 DEF OnStreamEnter
    <2>2. streams' \in [Ids -> SUBSET Streams]
      BY <1>1, <1>3, <1>5 DEF OnStreamEnter
    <2>3. QED
      BY <1>1, <1>5, <2>1, <2>2 DEF OnStreamEnter
  <1>6. CASE OnStreamLook
    BY <1>1, <1>3, <1>6 DEF OnStreamLook
  <1>7. CASE OnStreamScan
    BY <1>1, <1>3, <1>7 DEF OnStreamScan, Panics, HandlerEnds
  <1>8. CASE OnStreamClose
    BY <1>1, <1>3, <1>8 DEF OnStreamClose
  <1>9. QED
    BY <1>4, <1>5, <1>6, <1>7, <1>8 DEF CallbackStep

\* A step of the session's Accept, Close or context keeps the types.
LEMMA CloseTypes ==
    ASSUME SessionTypes, Accept \/ Cancel \/ SessionClose \/ SessionCloseStep
    PROVE  SessionTypes'
  <1>1. SessionTypeOK /\ ReaderTypeOK /\ ConnTypeOK /\ CallbackTypeOK
    BY DEF SessionTypes
  <1> USE DEF SessionTypes, SessionTypeOK, ReaderTypeOK, ConnTypeOK,
              CallbackTypeOK, readVars, connVars, callbackVars
  <1>2. CASE Accept
    BY <1>1, <1>2, SessionAssumption DEF Accept
  <1>3. CASE Cancel
    BY <1>1, <1>3 DEF Cancel
  <1>4. CASE SessionClose
    BY <1>1, <1>4 DEF SessionClose
  <1>5. CASE \E h \in Ids : SessionCloseConn(h)
    BY <1>1, <1>5 DEF SessionCloseConn, BeginClose
  <1>6. CASE SessionCloseDrop
    BY <1>1, <1>6 DEF SessionCloseDrop
  <1>7. CASE SessionCloseEnd
    BY <1>1, <1>7 DEF SessionCloseEnd
  <1>8. QED
    BY <1>2, <1>3, <1>4, <1>5, <1>6, <1>7 DEF SessionCloseStep

-----------------------------------------------------------------------------
(* The engine *)

\* Every step of the session uses the engine as one of its callers may, or
\* leaves it alone: ServerSession implements EngineTable.
LEMMA SessionUsesEngine ==
    ASSUME SessionTypes, Next
    PROVE  [EngineNext]_engineVars
  <1>1. CASE \E p \in Peers : AddFound(p) \/ AddNew(p)
    BY <1>1 DEF AddFound, AddNew
  <1>2. CASE ReaderStep
    BY <1>2 DEF ReaderStep, InLock, InPush
  <1>3. ASSUME NEW h \in Ids,
               \/ HandlerStop(h) \/ HandlePacket(h) \/ Flush(h)
               \/ StreamReset(h) \/ ConnClose(h) \/ CloseStep(h)
        PROVE  [EngineNext]_engineVars
    <2>1. CASE HandlerStop(h) \/ StreamReset(h) \/ ConnClose(h)
      BY <2>1 DEF HandlerStop, StreamReset, ConnClose
    <2>2. CASE HandlePacket(h)
      <3>1. Head(inbox[h]) \in Peers
        BY <2>2 DEF HandlePacket, SessionTypes, ConnTypeOK
      <3>2. ProcessMsg(h, Head(inbox[h]))
        BY <2>2 DEF HandlePacket
      <3>3. QED
        BY <3>1, <3>2 DEF EngineNext
    <2>3. CASE Flush(h)
      BY <2>3 DEF Flush, EngineNext
    <2>4. CASE CloseStep(h)
      BY <2>4 DEF CloseStep, CloseShut, CloseEngine, CloseDelete, EngineNext,
                  engineVars
    <2>5. QED
      BY <1>3, <2>1, <2>2, <2>3, <2>4
  <1>4. CASE EngineStep
    <2>1. CASE EngineSweeps
      BY <2>1 DEF EngineSweeps, EngineNext
    <2>2. CASE EngineAccepts
      <3> DEFINE c == CHOOSE c \in Conns : Fresh(c)
      <3>1. c \in Conns /\ AcceptConn(c)
        BY <2>2 DEF EngineAccepts
      <3>2. QED
        BY <3>1 DEF EngineNext
    <2>3. CASE EngineRefuses
      BY <2>3 DEF EngineRefuses, EngineNext
    <2>4. CASE EngineFrees
      BY <2>4 DEF EngineFrees, EngineNext
    <2>5. CASE \E c \in Conns : EngineReceives(c) \/ EngineCloses(c)
      BY <2>5 DEF EngineReceives, EngineCloses, EngineNext
    <2>6. QED
      BY <1>4, <2>1, <2>2, <2>3, <2>4, <2>5 DEF EngineStep
  <1>5. CASE CallbackStep
    BY <1>5 DEF CallbackStep, OnStreamOpen, OnStreamEnter, OnStreamLook,
                OnStreamScan, OnStreamClose
  <1>6. CASE Accept \/ Cancel \/ SessionClose \/ SessionCloseStep
    BY <1>6 DEF Accept, Cancel, SessionClose, SessionCloseStep,
                SessionCloseConn, SessionCloseDrop, SessionCloseEnd
  <1>7. QED
    BY <1>1, <1>2, <1>3, <1>4, <1>5, <1>6 DEF Next

\* The types hold in every state, and so does what EngineTableProofs shows.
LEMMA SessionTypeSteps ==
    ASSUME SessionTypes, EngineInv, [Next]_vars
    PROVE  SessionTypes' /\ EngineInv' /\ [EngineNext]_engineVars
  <1>1. [EngineNext]_engineVars
    BY SessionUsesEngine DEF vars
  <1>2. EngineInv'
    BY <1>1, EngineSteps
  <1>3. SessionTypes'
    <2>1. CASE UNCHANGED vars
      BY <2>1
      DEF vars, SessionTypes, SessionTypeOK, ReaderTypeOK, ConnTypeOK,
          CallbackTypeOK, sessionVars, readVars, connVars, callbackVars
    <2>2. CASE Next
      <3>1. CASE \E p \in Peers : AddFound(p) \/ AddNew(p)
        BY <3>1, ReaderTypes
      <3>2. CASE ReaderStep
        <4>1. \E p \in Peers : TRUE
          BY <3>2, ReaderParts
          DEF ReaderStep, InLock, InPush, SessionTypes
        <4>2. QED
          BY <3>2, <4>1, ReaderTypes DEF ReaderStep
      <3>3. CASE \E h \in Ids : \/ HandlerStop(h) \/ HandlePacket(h) \/ Flush(h)
                                \/ StreamReset(h) \/ ConnClose(h) \/ CloseStep(h)
        BY <3>3, ConnTypes
      <3>4. CASE EngineStep
        BY <3>4, EngineTypes
      <3>5. CASE CallbackStep
        BY <3>5, CallbackTypes
      <3>6. CASE Accept \/ Cancel \/ SessionClose \/ SessionCloseStep
        BY <3>6, CloseTypes
      <3>7. QED
        BY <2>2, <3>1, <3>2, <3>3, <3>4, <3>5, <3>6 DEF Next
    <2>3. QED
      BY <2>1, <2>2
  <1>4. QED
    BY <1>1, <1>2, <1>3

\* The type invariant of a session, for any number of clients and connections.
THEOREM SessionTypeCorrect == Spec => []TypeOK
  <1>1. Init => SessionTypes /\ EngineInv
    BY SessionStart, EngineStart DEF Init
  <1>2. SessionTypes /\ EngineInv /\ [Next]_vars => (SessionTypes /\ EngineInv)'
    BY SessionTypeSteps
  <1>3. SessionTypes /\ EngineInv => TypeOK
    BY DEF SessionTypes, EngineInv, TypeOK
  <1>4. QED
    BY <1>1, <1>2, <1>3, PTL DEF Spec

\* The session, its connections and their handlers use the engine's map only as
\* EngineTable lets any caller use it.
THEOREM SessionRefinesEngine == Spec => EngineSpec
  <1>1. Init => SessionTypes /\ EngineInv /\ EngineInit
    BY SessionStart, EngineStart DEF Init
  <1>2. SessionTypes /\ EngineInv /\ [Next]_vars
        => (SessionTypes /\ EngineInv)' /\ [EngineNext]_engineVars
    BY SessionTypeSteps
  <1>3. QED
    BY <1>1, <1>2, PTL DEF Spec, EngineSpec

-----------------------------------------------------------------------------
(* The life of a connection *)

\* Between init and QuiclyClose.
Active(h) == stage[h] \in {"live", "closing", "linger"}

\* The registry, the handlers, the engine's map and whoever is in the engine
\* know a connection only in that time.
LifeInv ==
    /\ \A h \in Ids : Active(h) => h \in registry
    /\ \A h \in Ids : handlers[h] # "end" => Active(h)
    /\ \A h \in Ids : map[h] # None => Active(h)
    /\ call # None => Active(call[2])

lifeVars == <<stage, registry, handlers, map, call>>

\* The types the proofs below rest on.
Types == SessionTypes /\ EngineInv

\* What the proofs about connections use of the types.
LEMMA TypeFacts ==
    ASSUME Types
    PROVE  /\ stage \in [Ids -> {"none", "live", "closing", "linger",
                                 "unmapped"}]
           /\ returnAddr \in [Ids -> Peers \cup {None}]
           /\ handlers \in [Ids -> {"new", "run", "stuck", "end"}]
           /\ inbox \in [Ids -> Seq(Peers)]
           /\ table \in [Hosts -> Ids \cup {None}]
           /\ map \in [Ids -> Conns \cup {None}]
           /\ state \in [Conns -> States]
           /\ peer \in [Conns -> Peers \cup {None}]
           /\ registry \subseteq Ids
           /\ came \subseteq Peers
           /\ call # None => call[2] \in Ids
           /\ callback # None => callback[2] \in Ids
  BY CallbackParts
  DEF Types, SessionTypes, SessionTypeOK, ReaderTypeOK, ConnTypeOK,
      EngineInv, EngineTypeOK, FreeHasConn

\* The end of a handler leaves it running or ended, as it was.
LEMMA LifeHandlerEnds ==
    ASSUME Types, LifeInv, NEW h \in Ids, HandlerEnds(h),
           UNCHANGED <<stage, registry, map, call>>
    PROVE  LifeInv'
  BY TypeFacts DEF HandlerEnds, LifeInv, Active

\* Of the steps of the whole specification only these touch what LifeInv is
\* about.
LEMMA LifeSteps ==
    ASSUME Next
    PROVE  \/ UNCHANGED lifeVars
           \/ \E p \in Peers : AddNew(p)
           \/ \E h \in Ids : \/ HandlerStop(h) \/ HandlePacket(h) \/ Flush(h)
                             \/ ConnClose(h) \/ CloseStep(h)
                             \/ SessionCloseConn(h)
           \/ EngineAccepts \/ EngineRefuses \/ EngineFrees
           \/ \E c \in Conns : EngineReceives(c) \/ EngineCloses(c)
           \/ OnStreamOpen \/ OnStreamEnter \/ OnStreamScan
  <1>1. CASE \E p \in Peers : AddFound(p)
    BY <1>1 DEF AddFound, lifeVars, engineVars, connVars
  <1>2. CASE ReaderStep
    BY <1>2 DEF ReaderStep, InLock, InPush, lifeVars, engineVars, connVars
  <1>3. CASE \E h \in Ids : StreamReset(h)
    BY <1>3 DEF StreamReset, lifeVars, engineVars, connVars
  <1>4. CASE EngineSweeps
    BY <1>4 DEF EngineSweeps, Sweep, lifeVars, connVars
  <1>5. CASE OnStreamLook \/ OnStreamClose
    BY <1>5 DEF OnStreamLook, OnStreamClose, lifeVars, engineVars, connVars
  <1>6. CASE Accept \/ Cancel \/ SessionClose \/ SessionCloseDrop
             \/ SessionCloseEnd
    BY <1>6
    DEF Accept, Cancel, SessionClose, SessionCloseDrop, SessionCloseEnd,
        lifeVars, engineVars, connVars
  <1>7. QED
    BY <1>1, <1>2, <1>3, <1>4, <1>5, <1>6
    DEF Next, EngineStep, CallbackStep, SessionCloseStep

\* A connection is known to the registry, the handlers and the engine only
\* while it is active.
LEMMA LifeKept ==
    ASSUME Types, LifeInv, [Next]_vars
    PROVE  LifeInv'
  <1>1. CASE UNCHANGED lifeVars
    BY <1>1 DEF lifeVars, LifeInv, Active
  <1>2. ASSUME NEW p \in Peers, AddNew(p)
        PROVE  LifeInv'
    <2> DEFINE h == CHOOSE h \in Ids : Unused(h)
    <2>1. h \in Ids /\ Start(h, p) /\ UNCHANGED <<map, call>>
      BY <1>2 DEF AddNew, engineVars
    <2> HIDE DEF h
    <2>2. QED
      BY <2>1, TypeFacts DEF Start, LifeInv, Active
  <1>3. ASSUME NEW h \in Ids, HandlerStop(h)
        PROVE  LifeInv'
    BY <1>3, TypeFacts DEF HandlerStop, LifeInv, Active, engineVars, connVars
  <1>4. ASSUME NEW h \in Ids, HandlePacket(h)
        PROVE  LifeInv'
    BY <1>4, TypeFacts
    DEF HandlePacket, ProcessMsg, LifeInv, Active, connVars
  <1>5. ASSUME NEW h \in Ids, Flush(h)
        PROVE  LifeInv'
    <2>1. CASE HandlerEnds(h) /\ UNCHANGED engineVars
      BY <1>5, <2>1, LifeHandlerEnds DEF Flush, engineVars, connVars
    <2>2. CASE SendEnds(h) /\ UNCHANGED <<handlers, done>>
      BY <1>5, <2>2, TypeFacts DEF Flush, SendEnds, LifeInv, Active, connVars
    <2>3. QED
      BY <1>5, <2>1, <2>2 DEF Flush
  <1>6. ASSUME NEW h \in Ids, ConnClose(h) \/ SessionCloseConn(h)
        PROVE  LifeInv'
    <2>1. /\ UNCHANGED <<registry, handlers, map, call>>
          /\ \/ UNCHANGED stage
             \/ stage[h] = "live" /\ stage' = [stage EXCEPT ![h] = "closing"]
      BY <1>6 DEF ConnClose, SessionCloseConn, BeginClose, engineVars, connVars
    <2>2. QED
      BY <2>1, TypeFacts DEF LifeInv, Active
  <1>7. ASSUME NEW h \in Ids, CloseStep(h)
        PROVE  LifeInv'
    <2>1. CASE CloseShut(h)
      BY <2>1, TypeFacts DEF CloseShut, LifeInv, Active, engineVars, connVars
    <2>2. CASE CloseEngine(h)
      <3>1. /\ handlers[h] = "end" /\ call = None /\ call' = None
            /\ stage' = [stage EXCEPT ![h] = "unmapped"]
            /\ UNCHANGED <<registry, handlers>>
        BY <2>2
        DEF CloseEngine, HandlersEnded, EngineIdle, LockIsFree, CloseConn,
            engineVars, connVars
      <3>2. map' = [map EXCEPT ![h] = None]
        <4>1. CASE map[h] = None
          BY <2>2, <4>1, TypeFacts DEF CloseEngine, engineVars
        <4>2. CASE map[h] # None
          BY <2>2, <4>2 DEF CloseEngine, CloseConn
        <4>3. QED
          BY <4>1, <4>2
      <3>3. QED
        BY <3>1, <3>2, TypeFacts DEF LifeInv, Active
    <2>3. CASE CloseDelete(h)
      <3>1. /\ stage[h] = "unmapped"
            /\ stage' = [stage EXCEPT ![h] = "none"]
            /\ registry' = registry \/ registry' = registry \ {h}
            /\ UNCHANGED <<handlers, map, call>>
        BY <2>3 DEF CloseDelete, engineVars
      <3>2. QED
        BY <3>1, TypeFacts DEF LifeInv, Active
    <2>4. QED
      BY <1>7, <2>1, <2>2, <2>3 DEF CloseStep
  <1>8. CASE \/ EngineAccepts \/ EngineRefuses \/ EngineFrees
             \/ \E c \in Conns : EngineReceives(c) \/ EngineCloses(c)
    <2>1. call # None /\ call[2] \in Ids /\ Active(call[2])
      BY <1>8, TypeFacts
      DEF EngineAccepts, EngineRefuses, EngineFrees, EngineReceives,
          EngineCloses, Refuse, ReceiveFails, Receive, PeerCloses, AcceptConn,
          Swept, Processing, LifeInv
    <2>2. UNCHANGED <<stage, registry>> /\ call' \in {call, None}
      BY <1>8
      DEF EngineAccepts, EngineRefuses, EngineFrees, EngineReceives,
          EngineCloses, Refuse, ReceiveFails, Receive, PeerCloses, AcceptConn,
          FreeConn, NextPacket, connVars, engineVars
    <2>3. \A h \in Ids : handlers'[h] # "end" => handlers[h] # "end"
      BY <1>8, <2>1, TypeFacts
      DEF EngineAccepts, EngineRefuses, EngineFrees, EngineReceives,
          EngineCloses, Accepted
    <2>4. \A h \in Ids : map'[h] # None => map[h] # None \/ h = call[2]
      BY <1>8, <2>1, TypeFacts
      DEF EngineAccepts, EngineRefuses, EngineFrees, EngineReceives,
          EngineCloses, Refuse, ReceiveFails, Receive, PeerCloses, AcceptConn,
          FreeConn, engineVars
    <2>5. QED
      BY <2>1, <2>2, <2>3, <2>4 DEF LifeInv, Active
  <1>9. CASE OnStreamOpen \/ OnStreamEnter \/ OnStreamScan
    <2>1. callback # None /\ callback[2] \in Ids
      BY <1>9, TypeFacts DEF OnStreamOpen, OnStreamEnter, OnStreamScan, In
    <2>2. /\ UNCHANGED <<stage, registry, map, call>>
          /\ HandlerEnds(callback[2]) \/ UNCHANGED handlers
      BY <1>9
      DEF OnStreamOpen, OnStreamEnter, OnStreamScan, Panics, engineVars,
          connVars
    <2>3. CASE HandlerEnds(callback[2])
      BY <2>1, <2>2, <2>3, LifeHandlerEnds
    <2>4. CASE UNCHANGED handlers
      BY <1>1, <2>2, <2>4 DEF lifeVars
    <2>5. QED
      BY <2>2, <2>3, <2>4
  <1>10. CASE UNCHANGED vars
    BY <1>1, <1>10 DEF vars, lifeVars, engineVars, connVars
  <1>11. QED
    BY <1>1, <1>2, <1>3, <1>4, <1>5, <1>6, <1>7, <1>8, <1>9, <1>10, LifeSteps

\* A session that starts knows no connection.
LEMMA LifeStart == ASSUME Init PROVE LifeInv
  BY DEF Init, EngineInit, LifeInv, Active

\* The engine never knows an id whose Go connection is over, so that every
\* callback finds its connection in the registry (QuiclyClose before
\* connectionDelete in Close, add_connection under the id of a handler).
THEOREM MappedCorrect == Spec => []MappedHasConnection
  <1>1. Init => Types /\ LifeInv
    BY SessionStart, EngineStart, LifeStart DEF Init, Types
  <1>2. Types /\ LifeInv /\ [Next]_vars => (Types /\ LifeInv)'
    BY SessionTypeSteps, LifeKept DEF Types
  <1>3. Types /\ LifeInv => MappedHasConnection
    BY DEF LifeInv, Active, MappedHasConnection
  <1>4. QED
    BY <1>1, <1>2, <1>3, PTL DEF Spec

-----------------------------------------------------------------------------
(* One host, one connection *)

\* What the session's table leads to is a connection of that host that has not
\* ended, and until Close drops the table it leads to every one.
TableInv ==
    /\ \A k \in Hosts :
          table[k] # None => /\ stage[table[k]] # "none"
                             /\ HostOf[returnAddr[table[k]]] = k
    /\ \A h \in Ids : stage[h] # "none" => returnAddr[h] \in Peers
    /\ TableGone \/ \A h \in Ids :
          stage[h] # "none" => table[HostOf[returnAddr[h]]] = h

tableVars == <<table, returnAddr, closeStage>>

\* A step that moves connections on, but starts and ends none, keeps it.
LEMMA TableMoves ==
    ASSUME TableInv, UNCHANGED tableVars,
           \A h \in Ids : stage'[h] = "none" <=> stage[h] = "none",
           Types
    PROVE  TableInv'
  BY TypeFacts DEF TableInv, tableVars, TableGone

\* Every other step starts or ends a connection, or drops the table.
LEMMA TableSteps ==
    ASSUME Types, Next
    PROVE  \/ /\ UNCHANGED tableVars
              /\ \A h \in Ids : stage'[h] = "none" <=> stage[h] = "none"
           \/ \E p \in Peers : AddNew(p)
           \/ \E h \in Ids : CloseDelete(h)
           \/ SessionClose \/ SessionCloseDrop \/ SessionCloseEnd
  <1> USE DEF tableVars, sessionVars, connVars
  <1>1. CASE \E p \in Peers : AddFound(p)
    BY <1>1 DEF AddFound
  <1>2. CASE ReaderStep
    BY <1>2 DEF ReaderStep, InLock, InPush
  <1>3. ASSUME NEW h \in Ids,
               \/ HandlerStop(h) \/ HandlePacket(h) \/ Flush(h)
               \/ StreamReset(h)
        PROVE  UNCHANGED <<tableVars, stage>>
    BY <1>3 DEF HandlerStop, HandlePacket, Flush, StreamReset
  <1>4. ASSUME NEW h \in Ids,
               \/ ConnClose(h) \/ CloseShut(h) \/ CloseEngine(h)
               \/ SessionCloseConn(h)
        PROVE  /\ UNCHANGED tableVars
               /\ \A g \in Ids : stage'[g] = "none" <=> stage[g] = "none"
    <2>1. /\ UNCHANGED tableVars
          /\ \/ UNCHANGED stage
             \/ /\ stage[h] # "none"
                /\ \/ stage' = [stage EXCEPT ![h] = "closing"]
                   \/ stage' = [stage EXCEPT ![h] = "linger"]
                   \/ stage' = [stage EXCEPT ![h] = "unmapped"]
      BY <1>4
      DEF ConnClose, CloseShut, CloseEngine, SessionCloseConn, BeginClose
    <2>2. QED
      BY <2>1, TypeFacts
  <1>5. CASE EngineStep
    BY <1>5
    DEF EngineStep, EngineSweeps, EngineAccepts, EngineRefuses, EngineFrees,
        EngineReceives, EngineCloses
  <1>6. CASE CallbackStep
    BY <1>6
    DEF CallbackStep, OnStreamOpen, OnStreamEnter, OnStreamLook, OnStreamScan,
        OnStreamClose
  <1>7. CASE Accept \/ Cancel
    BY <1>7 DEF Accept, Cancel
  <1>8. QED
    BY <1>1, <1>2, <1>3, <1>4, <1>5, <1>6, <1>7
    DEF Next, CloseStep, SessionCloseStep

\* The table leads to the connections of the hosts.
LEMMA TableKept ==
    ASSUME Types, TableInv, [Next]_vars
    PROVE  TableInv'
  <1>1. CASE /\ UNCHANGED tableVars
             /\ \A h \in Ids : stage'[h] = "none" <=> stage[h] = "none"
    BY <1>1, TableMoves
  <1>2. ASSUME NEW p \in Peers, AddNew(p)
        PROVE  TableInv'
    <2> DEFINE h == CHOOSE h \in Ids : Unused(h)
    <2> DEFINE k == KeyOf(p)
    <2>1. /\ h \in Ids /\ stage[h] = "none" /\ Start(h, p) /\ ~Known(p)
          /\ closeStage' = closeStage
          /\ IF TableGone THEN UNCHANGED table
                          ELSE table' = [table EXCEPT ![k] = h]
      BY <1>2 DEF AddNew, Unused
    <2> HIDE DEF h
    <2>2. /\ \A g \in Ids : stage'[g] = IF g = h THEN "live" ELSE stage[g]
          /\ \A g \in Ids :
                returnAddr'[g] = IF g = h THEN p ELSE returnAddr[g]
      BY <2>1, TypeFacts DEF Start
    <2>3. k \in Hosts /\ k = HostOf[p]
      BY SessionAssumption DEF KeyOf
    <2>4. table[k] = None
      BY <2>1, <2>3, TypeFacts DEF TableInv, Known
    <2>5. \A j \in Hosts : table[j] # h /\ table[j] \in Ids \cup {None}
      BY <2>1, TypeFacts, EngineAssumption DEF TableInv
    <2>6. CASE TableGone
      <3>1. table' = table /\ TableGone'
        BY <2>1, <2>6 DEF TableGone
      <3>2. \A j \in Hosts : table[j] # None =>
               /\ stage'[table[j]] # "none"
               /\ HostOf[returnAddr'[table[j]]] = j
        BY <2>2, <2>5 DEF TableInv
      <3>3. \A g \in Ids : stage'[g] # "none" => returnAddr'[g] \in Peers
        BY <2>2 DEF TableInv
      <3>4. QED
        BY <3>1, <3>2, <3>3 DEF TableInv
    <2>7. CASE ~TableGone
      <3>1. \A j \in Hosts : table'[j] = IF j = k THEN h ELSE table[j]
        BY <2>1, <2>7, TypeFacts
      <3>2. \A j \in Hosts : table'[j] # None =>
               /\ stage'[table'[j]] # "none"
               /\ HostOf[returnAddr'[table'[j]]] = j
        BY <2>1, <2>2, <2>3, <2>5, <3>1 DEF TableInv
      <3>3. \A g \in Ids : stage'[g] # "none" => returnAddr'[g] \in Peers
        BY <2>2 DEF TableInv
      <3>4. ASSUME NEW g \in Ids, stage'[g] # "none"
            PROVE  table'[HostOf[returnAddr'[g]]] = g
        <4>1. CASE g = h
          BY <2>2, <2>3, <3>1, <4>1
        <4>2. CASE g # h
          <5>1. table[HostOf[returnAddr[g]]] = g /\ returnAddr[g] \in Peers
            BY <2>2, <2>7, <3>4, <4>2 DEF TableInv
          <5>2. HostOf[returnAddr[g]] \in Hosts /\ HostOf[returnAddr[g]] # k
            BY <2>4, <5>1, SessionAssumption, EngineAssumption
          <5>3. QED
            BY <2>2, <3>1, <4>2, <5>1, <5>2
        <4>3. QED
          BY <4>1, <4>2
      <3>5. QED
        BY <3>2, <3>3, <3>4 DEF TableInv
    <2>8. QED
      BY <2>6, <2>7
  <1>3. ASSUME NEW h \in Ids, CloseDelete(h)
        PROVE  TableInv'
    <2>1. /\ stage' = [stage EXCEPT ![h] = "none"]
          /\ returnAddr' = [returnAddr EXCEPT ![h] = None]
          /\ closeStage' = closeStage
      BY <1>3 DEF CloseDelete
    <2>2. \A g \in Ids : g # h => stage'[g] = stage[g]
                                  /\ returnAddr'[g] = returnAddr[g]
      BY <2>1, TypeFacts
    <2>3. stage'[h] = "none"
      BY <2>1, TypeFacts
    <2>4. \A k \in Hosts :
             table'[k] = IF table[k] = h THEN None ELSE table[k]
      BY <1>3, TypeFacts DEF CloseDelete, InTable
    <2>5. \A k \in Hosts : table'[k] # None =>
             /\ stage'[table'[k]] # "none"
             /\ HostOf[returnAddr'[table'[k]]] = k
      BY <2>2, <2>4, TypeFacts DEF TableInv
    <2>6. \A g \in Ids : stage'[g] # "none" => returnAddr'[g] \in Peers
      BY <2>2, <2>3 DEF TableInv
    <2>7. ASSUME ~TableGone, NEW g \in Ids, stage'[g] # "none"
          PROVE  table'[HostOf[returnAddr'[g]]] = g
      <3>1. g # h /\ stage[g] # "none" /\ returnAddr'[g] = returnAddr[g]
        BY <2>2, <2>3, <2>7
      <3>2. table[HostOf[returnAddr[g]]] = g /\ returnAddr[g] \in Peers
        BY <2>7, <3>1 DEF TableInv
      <3>3. HostOf[returnAddr[g]] \in Hosts
        BY <3>2, SessionAssumption
      <3>4. QED
        BY <2>4, <3>1, <3>2, <3>3
    <2>8. QED
      BY <2>1, <2>5, <2>6, <2>7 DEF TableInv, TableGone
  <1>4. CASE SessionCloseDrop
    <2>1. \A k \in Hosts : table'[k] = None
      BY <1>4 DEF SessionCloseDrop
    <2>2. TableGone' /\ UNCHANGED <<stage, returnAddr>>
      BY <1>4 DEF SessionCloseDrop, TableGone, connVars
    <2>3. QED
      BY <2>1, <2>2 DEF TableInv
  <1>5. CASE SessionClose \/ SessionCloseEnd
    <2>1. UNCHANGED <<table, stage, returnAddr>> /\ (TableGone => TableGone')
          /\ (TableGone' => TableGone)
      BY <1>5 DEF SessionClose, SessionCloseEnd, TableGone, connVars
    <2>2. QED
      BY <2>1 DEF TableInv
  <1>6. CASE UNCHANGED vars
    BY <1>1, <1>6 DEF vars, tableVars, sessionVars, connVars
  <1>7. QED
    BY <1>1, <1>2, <1>3, <1>4, <1>5, <1>6, TableSteps

\* A table that is empty.
LEMMA TableStart == ASSUME Init PROVE TableInv
  BY DEF Init, TableInv

\* A host is never served by two connections at a time (connectionAdd, under
\* exclusiveLock, against connectionDelete at the end of Close), until the
\* session's own Close has dropped its table.
THEOREM OneConnectionCorrect == Spec => []OneConnectionPerHost
  <1>1. Init => Types /\ TableInv
    BY SessionStart, EngineStart, TableStart DEF Init, Types
  <1>2. Types /\ TableInv /\ [Next]_vars => (Types /\ TableInv)'
    BY SessionTypeSteps, TableKept DEF Types
  <1>3. Types /\ TableInv => OneConnectionPerHost
    BY DEF TableInv, OneConnectionPerHost
  <1>4. QED
    BY <1>1, <1>2, <1>3, PTL DEF Spec

-----------------------------------------------------------------------------
(* Whose packets a connection gets *)

\* A packet came from an address of the host a connection answers to.
SameHost(p, h) == p \in came /\ HostOf[p] = HostOf[returnAddr[h]]

\* Every packet on its way to a connection, from the reader through the queue
\* into the engine, is of the connection's host, and so is the connection the
\* engine accepted for it.
HostInv ==
    /\ \A h \in Ids : stage[h] # "none" => returnAddr[h] \in came
    /\ \A h \in Ids : stage[h] = "none" => inbox[h] = <<>>
    /\ \A h \in Ids : \A n \in 1..Len(inbox[h]) : SameHost(inbox[h][n], h)
    /\ reader[1] \in {"lock", "push"} =>
          /\ reader[2] \in came
          /\ stage[reader[3]] # "none" => SameHost(reader[2], reader[3])
    /\ call # None /\ call[1] = "process" => SameHost(call[3], call[2])
    /\ \A h \in Ids : map[h] # None => SameHost(peer[map[h]], h)

hostVars == <<returnAddr, came, inbox, reader, call, map, peer>>

\* The invariants of this module together.
Inv == Types /\ LifeInv /\ TableInv /\ HostInv

\* A step that moves connections on, but starts and ends none, keeps it.
LEMMA HostMoves ==
    ASSUME Types, HostInv, UNCHANGED hostVars,
           \A h \in Ids : stage'[h] = "none" <=> stage[h] = "none"
    PROVE  HostInv'
  <1>1. reader[1] \in {"lock", "push"} => reader[3] \in Ids
    BY ReaderParts DEF Types, SessionTypes
  <1>2. QED
    BY <1>1, TypeFacts DEF HostInv, SameHost, hostVars

\* The packets of a queue with one more, and with the first one gone.
LEMMA QueueParts ==
    ASSUME NEW q \in Seq(Peers)
    PROVE  /\ \A p \in Peers : \A n \in 1..Len(Append(q, p)) :
                 \/ Append(q, p)[n] = p
                 \/ n \in 1..Len(q) /\ Append(q, p)[n] = q[n]
           /\ q # <<>> =>
                 /\ 1 \in 1..Len(q) /\ Head(q) = q[1] /\ Head(q) \in Peers
                 /\ \A n \in 1..Len(Tail(q)) :
                       n + 1 \in 1..Len(q) /\ Tail(q)[n] = q[n + 1]
  OBVIOUS

\* The reader brings packets of the connection's host.
LEMMA HostReader ==
    ASSUME Inv, NEW p \in Peers,
           AddFound(p) \/ AddNew(p) \/ InLock \/ InPush
    PROVE  HostInv'
  <1>1. Types /\ LifeInv /\ TableInv /\ HostInv
    BY DEF Inv
  <1>2. KeyOf(p) \in Hosts /\ KeyOf(p) = HostOf[p]
    BY SessionAssumption DEF KeyOf
  <1>3. CASE AddFound(p)
    <2> DEFINE h == table[KeyOf(p)]
    <2>1. /\ h # None /\ stage[h] # "none" /\ h \in Ids
          /\ reader' = <<"lock", p, h>> /\ came' = came \cup {p}
          /\ UNCHANGED <<stage, returnAddr, inbox, call, map, peer>>
      BY <1>1, <1>2, <1>3, TypeFacts
      DEF AddFound, Known, engineVars, connVars
    <2>2. HostOf[returnAddr[h]] = HostOf[p]
      BY <1>1, <1>2, <2>1 DEF TableInv
    <2>3. QED
      BY <1>1, <2>1, <2>2, TypeFacts DEF HostInv, SameHost
  <1>4. CASE AddNew(p)
    <2> DEFINE h == CHOOSE h \in Ids : Unused(h)
    <2>1. /\ h \in Ids /\ stage[h] = "none" /\ Start(h, p)
          /\ reader' = <<"ended">> \/ reader' = <<"lock", p, h>>
          /\ came' = came \cup {p}
          /\ UNCHANGED <<inbox, call, map, peer>>
      BY <1>4 DEF AddNew, Unused, engineVars
    <2> HIDE DEF h
    <2>2. /\ \A g \in Ids : stage'[g] = IF g = h THEN "live" ELSE stage[g]
          /\ \A g \in Ids :
                returnAddr'[g] = IF g = h THEN p ELSE returnAddr[g]
      BY <1>1, <2>1, TypeFacts DEF Start
    <2>3. inbox[h] = <<>> /\ map[h] = None /\ (call # None => call[2] # h)
      BY <1>1, <2>1 DEF HostInv, LifeInv, Active
    <2>4. \A g \in Ids : g # h => \A q : SameHost(q, g) => SameHost(q, g)'
      BY <2>1, <2>2 DEF SameHost
    <2>5. /\ \A g \in Ids : stage'[g] # "none" => returnAddr'[g] \in came'
          /\ \A g \in Ids : stage'[g] = "none" => inbox'[g] = <<>>
      BY <1>1, <2>1, <2>2 DEF HostInv
    <2>6. \A g \in Ids : \A n \in 1..Len(inbox'[g]) : SameHost(inbox[g][n], g)'
      <3>1. SUFFICES ASSUME NEW g \in Ids, NEW n \in 1..Len(inbox[g])
                     PROVE  SameHost(inbox[g][n], g)'
        BY <2>1
      <3>2. g # h
        BY <2>3, <3>1
      <3>3. SameHost(inbox[g][n], g)
        BY <1>1, <3>1 DEF HostInv
      <3>4. QED
        BY <2>1, <2>2, <3>2, <3>3 DEF SameHost
    <2>7. reader'[1] \in {"lock", "push"} =>
             /\ reader'[2] \in came'
             /\ stage'[reader'[3]] # "none" => SameHost(reader[2], reader[3])'
      BY <2>1, <2>2 DEF SameHost
    <2>8. call' # None /\ call'[1] = "process" => SameHost(call[3], call[2])'
      BY <1>1, <2>1, <2>2, <2>3, TypeFacts DEF HostInv, SameHost
    <2>9. \A g \in Ids : map'[g] # None => SameHost(peer[map[g]], g)'
      BY <1>1, <2>1, <2>2, <2>3 DEF HostInv, SameHost
    <2>10. QED
      BY <2>5, <2>6, <2>7, <2>8, <2>9 DEF HostInv
  <1>5. CASE InLock
    <2>1. /\ UNCHANGED <<stage, returnAddr, came, inbox, call, map, peer>>
          /\ \/ reader' \in {<<"read">>, <<"ended">>}
             \/ reader' = <<"push", reader[2], reader[3]>>
          /\ reader[1] = "lock"
      BY <1>5 DEF InLock, NextRead, engineVars, connVars
    <2>2. QED
      BY <1>1, <2>1 DEF HostInv, SameHost
  <1>6. CASE InPush
    <2> DEFINE h == reader[3]
    <2>1. /\ UNCHANGED <<stage, returnAddr, came, call, map, peer>>
          /\ reader' \in {<<"read">>, <<"ended">>}
          /\ reader[1] = "push"
          /\ \/ inbox' = inbox
             \/ /\ stage[h] = "live"
                /\ inbox' = [inbox EXCEPT ![h] = Append(inbox[h], reader[2])]
      BY <1>6 DEF InPush, NextRead, engineVars, connVars
    <2>2. reader[2] \in Peers /\ h \in Ids
      BY <1>1, <2>1, ReaderParts DEF Types, SessionTypes
    <2>3. CASE inbox' = inbox
      BY <1>1, <2>1, <2>3 DEF HostInv, SameHost
    <2>4. CASE /\ stage[h] = "live"
               /\ inbox' = [inbox EXCEPT ![h] = Append(inbox[h], reader[2])]
      <3>1. SameHost(reader[2], h)
        BY <1>1, <2>1, <2>4 DEF HostInv
      <3>2. \A g \in Ids : inbox'[g] = IF g = h THEN Append(inbox[h], reader[2])
                                                ELSE inbox[g]
        BY <1>1, <2>4, TypeFacts
      <3>3. \A g \in Ids : \A n \in 1..Len(inbox'[g]) :
               SameHost(inbox'[g][n], g)
        <4>1. SUFFICES ASSUME NEW g \in Ids, NEW n \in 1..Len(inbox'[g])
                       PROVE  SameHost(inbox'[g][n], g)
          OBVIOUS
        <4>2. CASE g = h
          <5>1. inbox[h] \in Seq(Peers)
            BY <1>1, <2>2, TypeFacts
          <5>2. inbox'[g] = Append(inbox[h], reader[2])
            BY <3>2, <4>1, <4>2
          <5>3. n \in 1..Len(Append(inbox[h], reader[2]))
            BY <4>1, <5>2
          <5>4. \/ Append(inbox[h], reader[2])[n] = reader[2]
                \/ /\ n \in 1..Len(inbox[h])
                   /\ Append(inbox[h], reader[2])[n] = inbox[h][n]
            BY <2>2, <5>1, <5>3, QueueParts
          <5>5. QED
            BY <1>1, <2>2, <3>1, <4>2, <5>2, <5>4 DEF HostInv
        <4>3. CASE g # h
          BY <1>1, <3>2, <4>1, <4>3 DEF HostInv
        <4>4. QED
          BY <4>2, <4>3
      <3>4. \A g \in Ids : stage[g] = "none" => inbox'[g] = <<>>
        BY <1>1, <2>4, <3>2 DEF HostInv
      <3>5. QED
        BY <1>1, <2>1, <3>3, <3>4 DEF HostInv, SameHost
    <2>5. QED
      BY <2>1, <2>3, <2>4
  <1>7. QED
    BY <1>3, <1>4, <1>5, <1>6

\* A packet that goes to the engine, and a connection that begins to free.
LEMMA HostHandler ==
    ASSUME Inv, NEW h \in Ids, HandlePacket(h) \/ Flush(h)
    PROVE  HostInv'
  <1>1. Types /\ LifeInv /\ TableInv /\ HostInv
    BY DEF Inv
  <1>2. inbox[h] \in Seq(Peers)
    BY <1>1, TypeFacts
  <1>3. UNCHANGED <<stage, returnAddr, came, reader, map, peer>>
    BY DEF HandlePacket, Flush, ProcessMsg, SendEnds, engineVars, readVars,
           connVars
  <1>4. CASE HandlePacket(h)
    <2>1. /\ inbox[h] # <<>>
          /\ call' = <<"process", h, Head(inbox[h])>>
          /\ inbox' = [inbox EXCEPT ![h] = Tail(inbox[h])]
      BY <1>4 DEF HandlePacket, ProcessMsg
    <2>2. SameHost(Head(inbox[h]), h)
      BY <1>1, <1>2, <2>1, QueueParts DEF HostInv
    <2>3. \A g \in Ids : inbox'[g] = IF g = h THEN Tail(inbox[h])
                                              ELSE inbox[g]
      BY <1>1, <2>1, TypeFacts
    <2>4. \A g \in Ids : \A n \in 1..Len(inbox'[g]) : SameHost(inbox'[g][n], g)
      <3>1. SUFFICES ASSUME NEW g \in Ids, NEW n \in 1..Len(inbox'[g])
                     PROVE  SameHost(inbox'[g][n], g)
        OBVIOUS
      <3>2. CASE g = h
        <4>1. inbox'[g] = Tail(inbox[h])
          BY <2>3, <3>2
        <4>2. n + 1 \in 1..Len(inbox[h]) /\ Tail(inbox[h])[n] = inbox[h][n + 1]
          BY <1>2, <2>1, <3>1, <4>1, QueueParts
        <4>3. QED
          BY <1>1, <3>2, <4>1, <4>2 DEF HostInv
      <3>3. CASE g # h
        BY <1>1, <2>3, <3>1, <3>3 DEF HostInv
      <3>4. QED
        BY <3>2, <3>3
    <2>5. \A g \in Ids : stage[g] = "none" => inbox'[g] = <<>>
      BY <1>1, <2>1, <2>3 DEF HostInv
    <2>6. call'[3] = Head(inbox[h]) /\ call'[2] = h
      BY <2>1
    <2>7. QED
      BY <1>1, <1>3, <2>2, <2>4, <2>5, <2>6 DEF HostInv, SameHost
  <1>5. CASE Flush(h)
    <2>1. inbox' = inbox /\ (call' = call \/ call' = <<"free", h, None>>)
      BY <1>5 DEF Flush, SendEnds, engineVars
    <2>2. QED
      BY <1>1, <1>3, <2>1 DEF HostInv, SameHost
  <1>6. QED
    BY <1>4, <1>5

\* A connection that ends: nothing of it is left that a packet could come to.
LEMMA HostDelete ==
    ASSUME Inv, NEW h \in Ids, CloseDelete(h)
    PROVE  HostInv'
  <1>1. Types /\ LifeInv /\ TableInv /\ HostInv
    BY DEF Inv
  <1>2. /\ stage[h] = "unmapped"
        /\ stage' = [stage EXCEPT ![h] = "none"]
        /\ returnAddr' = [returnAddr EXCEPT ![h] = None]
        /\ inbox' = [inbox EXCEPT ![h] = <<>>]
        /\ UNCHANGED <<came, reader, call, map, peer>>
    BY DEF CloseDelete, engineVars, readVars
  <1>3. map[h] = None /\ (call # None => call[2] # h)
    BY <1>1, <1>2 DEF LifeInv, Active
  <1>4. /\ stage'[h] = "none" /\ inbox'[h] = <<>>
        /\ \A g \in Ids : g # h => /\ stage'[g] = stage[g]
                                   /\ returnAddr'[g] = returnAddr[g]
                                   /\ inbox'[g] = inbox[g]
    BY <1>1, <1>2, TypeFacts
  <1>5. \A g \in Ids : g # h => \A q : SameHost(q, g) => SameHost(q, g)'
    BY <1>2, <1>4 DEF SameHost
  <1>6. \A g \in Ids : \A n \in 1..Len(inbox'[g]) : SameHost(inbox[g][n], g)'
    <2>1. SUFFICES ASSUME NEW g \in Ids, NEW n \in 1..Len(inbox'[g])
                   PROVE  SameHost(inbox[g][n], g)'
      OBVIOUS
    <2>2. g # h
      BY <1>4, <2>1
    <2>3. SameHost(inbox[g][n], g) /\ inbox'[g] = inbox[g]
      BY <1>1, <1>4, <2>1, <2>2 DEF HostInv
    <2>4. QED
      BY <1>2, <1>4, <2>2, <2>3 DEF SameHost
  <1>7. reader'[1] \in {"lock", "push"} =>
           /\ reader'[2] \in came'
           /\ stage'[reader'[3]] # "none" => SameHost(reader[2], reader[3])'
    <2>1. reader[1] \in {"lock", "push"} => reader[3] \in Ids
      BY <1>1, ReaderParts DEF Types, SessionTypes
    <2>2. QED
      BY <1>1, <1>2, <1>4, <2>1 DEF HostInv, SameHost
  <1>8. call' # None /\ call'[1] = "process" => SameHost(call[3], call[2])'
    BY <1>1, <1>2, <1>3, <1>4, TypeFacts DEF HostInv, SameHost
  <1>9. \A g \in Ids : map'[g] # None => SameHost(peer[map[g]], g)'
    BY <1>1, <1>2, <1>3, <1>4 DEF HostInv, SameHost
  <1>10. /\ \A g \in Ids : stage'[g] # "none" => returnAddr'[g] \in came'
         /\ \A g \in Ids : stage'[g] = "none" => inbox'[g] = <<>>
    BY <1>1, <1>2, <1>4 DEF HostInv
  <1>11. QED
    BY <1>6, <1>7, <1>8, <1>9, <1>10 DEF HostInv

\* The engine enters a connection of the packet's host, or takes one out.
LEMMA HostEngine ==
    ASSUME Inv, UNCHANGED <<stage, returnAddr, came, inbox, reader>>,
           call' \in {call, None},
           \/ /\ UNCHANGED peer
              /\ \A h \in Ids : map'[h] \in {map[h], None}
           \/ \E c \in Conns : AcceptConn(c)
    PROVE  HostInv'
  <1>1. Types /\ LifeInv /\ TableInv /\ HostInv
    BY DEF Inv
  <1>2. CASE UNCHANGED peer /\ \A h \in Ids : map'[h] \in {map[h], None}
    BY <1>1, <1>2 DEF HostInv, SameHost
  <1>3. CASE \E c \in Conns : AcceptConn(c)
    <2>1. PICK c \in Conns : AcceptConn(c)
      BY <1>3
    <2>2. /\ call # None /\ call[1] = "process" /\ call[2] \in Ids
          /\ \A h \in Ids : map[h] # c
          /\ map' = [map EXCEPT ![call[2]] = c]
          /\ peer' = [peer EXCEPT ![c] = call[3]]
      BY <1>1, <2>1, TypeFacts DEF AcceptConn, Swept, Processing, Fresh
    <2>3. /\ \A h \in Ids : map'[h] = IF h = call[2] THEN c ELSE map[h]
          /\ \A d \in Conns : peer'[d] = IF d = c THEN call[3] ELSE peer[d]
      BY <1>1, <2>2, TypeFacts
    <2>4. SameHost(call[3], call[2])
      BY <1>1, <2>2 DEF HostInv
    <2>5. ASSUME NEW h \in Ids, map'[h] # None
          PROVE  SameHost(peer'[map'[h]], h)
      <3>1. CASE h = call[2]
        BY <2>3, <2>4, <3>1
      <3>2. CASE h # call[2]
        BY <1>1, <2>2, <2>3, <2>5, <3>2, TypeFacts DEF HostInv
      <3>3. QED
        BY <3>1, <3>2
    <2>6. QED
      BY <1>1, <2>5 DEF HostInv, SameHost
  <1>4. QED
    BY <1>2, <1>3

\* What a step of the engine does to its map.
LEMMA EngineMoves ==
    ASSUME Types, EngineStep
    PROVE  /\ UNCHANGED <<stage, returnAddr, came, inbox, reader>>
           /\ call' \in {call, None}
           /\ \/ /\ UNCHANGED peer
                 /\ \A h \in Ids : map'[h] \in {map[h], None}
              \/ \E c \in Conns : AcceptConn(c)
  <1>1. UNCHANGED <<stage, returnAddr, came, inbox, reader>>
    BY DEF EngineStep, EngineSweeps, EngineAccepts, EngineRefuses,
           EngineFrees, EngineReceives, EngineCloses, readVars, connVars
  <1>2. CASE EngineAccepts
    <2>1. \E c \in Conns : AcceptConn(c)
      BY <1>2 DEF EngineAccepts
    <2>2. call' \in {call, None}
      BY <2>1 DEF AcceptConn, NextPacket
    <2>3. QED
      BY <1>1, <2>1, <2>2
  <1>3. CASE EngineSweeps \/ EngineRefuses \/ EngineFrees
             \/ \E c \in Conns : EngineReceives(c) \/ EngineCloses(c)
    <2>1. call' \in {call, None} /\ UNCHANGED peer
      BY <1>3
      DEF EngineSweeps, EngineRefuses, EngineFrees, EngineReceives,
          EngineCloses, Sweep, Refuse, ReceiveFails, Receive, PeerCloses,
          FreeConn, NextPacket, engineVars
    <2>2. \A h \in Ids : map'[h] \in {map[h], None}
      BY <1>3, TypeFacts
      DEF EngineSweeps, EngineRefuses, EngineFrees, EngineReceives,
          EngineCloses, Sweep, Refuse, ReceiveFails, Receive, PeerCloses,
          FreeConn, engineVars
    <2>3. QED
      BY <1>1, <2>1, <2>2
  <1>4. QED
    BY <1>2, <1>3 DEF EngineStep

\* A packet is for the connection it is given to, in every step.
LEMMA HostKept ==
    ASSUME Inv, [Next]_vars
    PROVE  HostInv'
  <1>1. Types /\ LifeInv /\ TableInv /\ HostInv
    BY DEF Inv
  <1>2. CASE UNCHANGED vars
    BY <1>1, <1>2, HostMoves
    DEF vars, hostVars, engineVars, readVars, connVars
  <1>3. CASE \E p \in Peers : AddFound(p) \/ AddNew(p)
    BY <1>3, HostReader
  <1>4. CASE ReaderStep
    <2>1. \E p \in Peers : TRUE
      BY <1>1, <1>4, ReaderParts
      DEF ReaderStep, InLock, InPush, Types, SessionTypes
    <2>2. QED
      BY <1>4, <2>1, HostReader DEF ReaderStep
  <1>5. ASSUME NEW h \in Ids,
               HandlerStop(h) \/ StreamReset(h) \/ ConnClose(h) \/ CloseShut(h)
               \/ SessionCloseConn(h)
        PROVE  HostInv'
    <2>1. /\ UNCHANGED hostVars
          /\ \/ UNCHANGED stage
             \/ /\ stage[h] # "none"
                /\ \/ stage' = [stage EXCEPT ![h] = "closing"]
                   \/ stage' = [stage EXCEPT ![h] = "linger"]
      BY <1>5
      DEF HandlerStop, StreamReset, ConnClose, CloseShut, SessionCloseConn,
          BeginClose, hostVars, engineVars, readVars, connVars
    <2>2. \A g \in Ids : stage'[g] = "none" <=> stage[g] = "none"
      BY <1>1, <2>1, TypeFacts
    <2>3. QED
      BY <1>1, <2>1, <2>2, HostMoves
  <1>6. CASE \E h \in Ids : HandlePacket(h) \/ Flush(h)
    BY <1>6, HostHandler
  <1>7. CASE \E h \in Ids : CloseDelete(h)
    BY <1>7, HostDelete
  <1>8. ASSUME NEW h \in Ids, CloseEngine(h)
        PROVE  HostInv'
    <2>1. /\ UNCHANGED <<returnAddr, came, inbox, reader, call, peer>>
          /\ map' = map \/ map' = [map EXCEPT ![h] = None]
          /\ stage[h] = "linger"
          /\ stage' = [stage EXCEPT ![h] = "unmapped"]
      BY <1>8 DEF CloseEngine, CloseConn, engineVars, readVars, connVars
    <2>2. /\ \A g \in Ids : stage'[g] = "none" <=> stage[g] = "none"
          /\ \A g \in Ids : map'[g] \in {map[g], None}
      BY <1>1, <2>1, TypeFacts
    <2>3. reader[1] \in {"lock", "push"} => reader[3] \in Ids
      BY <1>1, ReaderParts DEF Types, SessionTypes
    <2>4. QED
      BY <1>1, <2>1, <2>2, <2>3 DEF HostInv, SameHost
  <1>9. CASE EngineStep
    BY <1>1, <1>9, EngineMoves, HostEngine
  <1>10. CASE CallbackStep
    <2>1. UNCHANGED hostVars /\ UNCHANGED stage
      BY <1>10
      DEF CallbackStep, OnStreamOpen, OnStreamEnter, OnStreamLook,
          OnStreamScan, OnStreamClose, hostVars, engineVars, readVars, connVars
    <2>2. QED
      BY <1>1, <2>1, HostMoves
  <1>11. CASE Accept \/ Cancel \/ SessionClose \/ SessionCloseDrop
              \/ SessionCloseEnd
    <2>1. UNCHANGED hostVars /\ UNCHANGED stage
      BY <1>11
      DEF Accept, Cancel, SessionClose, SessionCloseDrop, SessionCloseEnd,
          hostVars, engineVars, readVars, connVars
    <2>2. QED
      BY <1>1, <2>1, HostMoves
  <1>12. QED
    BY <1>2, <1>3, <1>4, <1>5, <1>6, <1>7, <1>8, <1>9, <1>10, <1>11
    DEF Next, CloseStep, SessionCloseStep

\* Nobody has sent anything to a session that starts.
LEMMA HostStart == ASSUME Init PROVE HostInv
  BY DEF Init, EngineInit, HostInv

\* All the invariants hold together.
LEMMA InvStart == ASSUME Init PROVE Inv
  BY SessionStart, EngineStart, LifeStart, TableStart, HostStart
  DEF Init, Inv, Types

LEMMA InvKept == ASSUME Inv, [Next]_vars PROVE Inv'
  BY SessionTypeSteps, LifeKept, TableKept, HostKept DEF Inv, Types

\* What a connection of the engine sends goes to the address it was accepted
\* from (flushOutgoingQueue writes to r.returnAddr), unless two clients of one
\* host have come (addrToHash leaves the port out).
THEOREM AnswersCorrect == Spec => []AnswersGoHome
  <1>1. ASSUME Inv
        PROVE  AnswersGoHome
    <2>1. SUFFICES ASSUME NEW h \in Ids, map[h] # None,
                          returnAddr[h] # peer[map[h]]
                   PROVE  Neighbours(peer[map[h]]) # {}
      BY DEF AnswersGoHome
    <2>2. returnAddr[h] \in came
      BY <1>1, <2>1 DEF Inv, LifeInv, Active, HostInv
    <2>3. HostOf[peer[map[h]]] = HostOf[returnAddr[h]]
      BY <1>1, <2>1 DEF Inv, HostInv, SameHost
    <2>4. returnAddr[h] \in Neighbours(peer[map[h]])
      BY <2>1, <2>2, <2>3 DEF Neighbours
    <2>5. QED
      BY <2>4
  <1>2. Init => Inv
    BY InvStart
  <1>3. Inv /\ [Next]_vars => Inv'
    BY InvKept
  <1>4. Inv => AnswersGoHome
    BY <1>1
  <1>5. QED
    BY <1>2, <1>3, <1>4, PTL DEF Spec

-----------------------------------------------------------------------------
(* No connection is lost *)

\* An id that is replaced was that of a neighbour's connection.
LEMMA LiveAccept ==
    ASSUME Inv, LiveIsTracked, came' = came, NEW c \in Conns, AcceptConn(c)
    PROVE  LiveIsTracked'
  <1> DEFINE h == call[2]
  <1>1. Types /\ HostInv
    BY DEF Inv
  <1>2. /\ call # None /\ call[1] = "process" /\ h \in Ids
        /\ Unknown /\ Fresh(c)
        /\ state' = [state EXCEPT ![c] = "open"]
        /\ peer' = [peer EXCEPT ![c] = call[3]]
        /\ map' = [map EXCEPT ![h] = c]
    BY <1>1, TypeFacts DEF AcceptConn, Swept, Processing
  <1>3. /\ \A d \in Conns : d # c => state'[d] = state[d] /\ peer'[d] = peer[d]
        /\ \A i \in Ids : map'[i] = IF i = h THEN c ELSE map[i]
    BY <1>1, <1>2, TypeFacts
  <1>4. SUFFICES ASSUME NEW d \in Conns, state'[d] = "open"
                 PROVE  \/ \E i \in Ids : map'[i] = d
                        \/ Neighbours(peer[d])' # {}
    BY DEF LiveIsTracked
  <1>5. CASE d = c
    BY <1>2, <1>3, <1>5
  <1>6. CASE d # c /\ map[h] # d
    <2>1. \/ \E i \in Ids : map[i] = d
          \/ Neighbours(peer[d]) # {}
      BY <1>3, <1>4, <1>6 DEF LiveIsTracked
    <2>2. Neighbours(peer[d])' = Neighbours(peer[d])
      BY <1>3, <1>6 DEF Neighbours
    <2>3. QED
      BY <1>3, <1>6, <2>1, <2>2
  <1>7. CASE d # c /\ map[h] = d
    <2>1. SameHost(peer[d], h) /\ SameHost(call[3], h)
      BY <1>1, <1>2, <1>4, <1>7, EngineAssumption DEF HostInv
    <2>2. peer[d] # call[3]
      BY <1>2, <1>7 DEF Unknown, IsDestination
    <2>3. call[3] \in Neighbours(peer[d])'
      BY <1>3, <1>7, <2>1, <2>2 DEF Neighbours, SameHost
    <2>4. QED
      BY <2>3
  <1>8. QED
    BY <1>5, <1>6, <1>7

\* A step that takes an id out of the map takes the connection with it.
LEMMA LiveLeaves ==
    ASSUME Types, LiveIsTracked, UNCHANGED peer, came \subseteq came',
           \A d \in Conns : state'[d] = "open" => state[d] = "open",
           \A i \in Ids : \/ map'[i] = map[i]
                          \/ map[i] \in Conns => state'[map[i]] # "open"
    PROVE  LiveIsTracked'
  <1>1. SUFFICES ASSUME NEW d \in Conns, state'[d] = "open"
                 PROVE  \/ \E i \in Ids : map'[i] = d
                        \/ Neighbours(peer[d])' # {}
    BY DEF LiveIsTracked
  <1>2. \/ \E i \in Ids : map[i] = d
        \/ Neighbours(peer[d]) # {}
    BY <1>1 DEF LiveIsTracked
  <1>3. Neighbours(peer[d]) \subseteq Neighbours(peer[d])'
    BY DEF Neighbours
  <1>4. ASSUME NEW i \in Ids, map[i] = d
        PROVE  map'[i] = d
    BY <1>1, <1>4
  <1>5. QED
    BY <1>2, <1>3, <1>4

\* Every open connection stays reachable, or is a neighbour's.
LEMMA LiveKept ==
    ASSUME Inv, LiveIsTracked, [Next]_vars
    PROVE  LiveIsTracked'
  <1>1. Types
    BY DEF Inv
  <1>2. CASE UNCHANGED <<map, state, peer>> /\ came \subseteq came'
    BY <1>1, <1>2, LiveLeaves
  <1>3. CASE \E c \in Conns : AcceptConn(c) /\ came' = came
    BY <1>3, LiveAccept
  <1>4. CASE \E h \in Ids : CloseEngine(h)
    <2>1. PICK h \in Ids : CloseEngine(h)
      BY <1>4
    <2>2. CASE map[h] = None
      BY <1>2, <2>1, <2>2 DEF CloseEngine, engineVars, readVars
    <2>3. CASE CloseConn(h)
      <3>1. /\ map' = [map EXCEPT ![h] = None]
            /\ state' = [state EXCEPT ![map[h]] = "abandoned"]
            /\ UNCHANGED <<peer, came>>
        BY <2>1, <2>3 DEF CloseEngine, CloseConn, readVars
      <3>2. /\ \A d \in Conns : state'[d] = "open" => state[d] = "open"
            /\ \A i \in Ids : \/ map'[i] = map[i]
                              \/ map[i] \in Conns => state'[map[i]] # "open"
        BY <1>1, <3>1, TypeFacts
      <3>3. QED
        BY <1>1, <3>1, <3>2, LiveLeaves
    <2>4. QED
      BY <2>1, <2>2, <2>3 DEF CloseEngine
  <1>5. CASE /\ came' = came
             /\ Refuse \/ FreeConn
                \/ \E c \in Conns : ReceiveFails(c) \/ Receive(c) \/ PeerCloses(c)
    <2>1. UNCHANGED peer
      BY <1>5 DEF Refuse, FreeConn, ReceiveFails, Receive, PeerCloses
    <2>2. \A d \in Conns : state'[d] = "open" => state[d] = "open"
      BY <1>1, <1>5, TypeFacts
      DEF Refuse, FreeConn, ReceiveFails, Receive, PeerCloses
    <2>3. \A i \in Ids : \/ map'[i] = map[i]
                         \/ map[i] \in Conns => state'[map[i]] # "open"
      BY <1>1, <1>5, TypeFacts
      DEF Refuse, FreeConn, ReceiveFails, Receive, PeerCloses
    <2>4. QED
      BY <1>1, <1>5, <2>1, <2>2, <2>3, LiveLeaves
  <1>6. CASE EngineStep
    <2>1. came' = came
      BY <1>1, <1>6, EngineMoves
    <2>2. CASE EngineAccepts
      BY <1>3, <2>1, <2>2 DEF EngineAccepts
    <2>3. CASE EngineSweeps \/ (EngineFrees /\ UNCHANGED engineVars)
      BY <1>2, <2>1, <2>3 DEF EngineSweeps, Sweep, engineVars
    <2>4. CASE EngineRefuses
      BY <1>5, <2>1, <2>4 DEF EngineRefuses
    <2>5. CASE EngineFrees
      <3>1. FreeConn \/ UNCHANGED engineVars
        BY <2>5 DEF EngineFrees
      <3>2. QED
        BY <1>5, <2>1, <2>3, <2>5, <3>1
    <2>6. CASE \E c \in Conns : EngineReceives(c) \/ EngineCloses(c)
      <3>1. \E c \in Conns : Receive(c) \/ PeerCloses(c)
        BY <2>6 DEF EngineReceives, EngineCloses
      <3>2. QED
        BY <1>5, <2>1, <3>1
    <2>7. QED
      BY <1>6, <2>2, <2>3, <2>4, <2>5, <2>6 DEF EngineStep
  <1>7. CASE /\ ~EngineStep /\ ~\E h \in Ids : CloseEngine(h)
             /\ [Next]_vars
    <2>1. CASE UNCHANGED vars
      BY <1>2, <2>1 DEF vars, engineVars, readVars
    <2>2. CASE \E p \in Peers : AddFound(p) \/ AddNew(p)
      BY <1>2, <2>2 DEF AddFound, AddNew, engineVars
    <2>3. CASE ReaderStep
      BY <1>2, <2>3 DEF ReaderStep, InLock, InPush, engineVars
    <2>4. CASE \E h \in Ids : \/ HandlerStop(h) \/ HandlePacket(h) \/ Flush(h)
                              \/ StreamReset(h) \/ ConnClose(h) \/ CloseShut(h)
                              \/ CloseDelete(h) \/ SessionCloseConn(h)
      BY <1>2, <2>4
      DEF HandlerStop, HandlePacket, Flush, StreamReset, ConnClose, CloseShut,
          CloseDelete, SessionCloseConn, ProcessMsg, SendEnds, engineVars,
          readVars
    <2>5. CASE CallbackStep
      BY <1>2, <2>5
      DEF CallbackStep, OnStreamOpen, OnStreamEnter, OnStreamLook,
          OnStreamScan, OnStreamClose, engineVars, readVars
    <2>6. CASE Accept \/ Cancel \/ SessionClose \/ SessionCloseDrop
               \/ SessionCloseEnd
      BY <1>2, <2>6
      DEF Accept, Cancel, SessionClose, SessionCloseDrop, SessionCloseEnd,
          engineVars, readVars
    <2>7. QED
      BY <1>7, <2>1, <2>2, <2>3, <2>4, <2>5, <2>6
      DEF Next, CloseStep, SessionCloseStep
  <1>8. QED
    BY <1>4, <1>6, <1>7

\* quicly never holds an open connection that no id leads to, unless two clients
\* of one host have come: add_connection enters under the id of the handler,
\* whatever is there.
THEOREM TrackedCorrect == Spec => []LiveIsTracked
  <1>1. Init => Inv /\ LiveIsTracked
    BY InvStart DEF Init, EngineInit, LiveIsTracked
  <1>2. Inv /\ LiveIsTracked /\ [Next]_vars => (Inv /\ LiveIsTracked)'
    BY InvKept, LiveKept
  <1>3. QED
    BY <1>1, <1>2, PTL DEF Spec

=============================================================================
