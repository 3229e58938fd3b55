-------------------------- MODULE EngineTableProofs --------------------------
(***************************************************************************)
(* What holds of the engine's map whoever calls its functions, in whatever *)
(* order, for any number of ids, connections and addresses.                *)
(*                                                                         *)
(* NoDangling is not inductive: freeing the connection of one id is only   *)
(* safe if no other id shares it (OneId), and FreeConn frees what the id   *)
(* it was called with still maps to (FreeHasConn), since nobody else gets  *)
(* global_lock in between.                                                 *)
(***************************************************************************)
EXTENDS EngineTable, TLAPS

\* The call that frees a connection was given an id that is tracked.
FreeHasConn ==
    call # None => call[1] \in {"process", "free"} /\ call[2] \in Ids
                   /\ (call[1] = "free" => map[call[2]] # None)

EngineInv == EngineTypeOK /\ NoDangling /\ OneId /\ FreeHasConn

\* A call of the bindings has an id and an address.
LEMMA CallParts ==
    ASSUME EngineTypeOK, call # None
    PROVE  /\ call[1] \in {"process", "free"}
           /\ call[2] \in Ids
           /\ call[3] \in Peers \cup {None}
  BY DEF EngineTypeOK, Calls

\* The invariant holds of an engine that was just started.
LEMMA EngineStart == ASSUME EngineInit PROVE EngineInv
  BY EngineAssumption
  DEF EngineInit, EngineInv, EngineTypeOK, NoDangling, OneId, FreeHasConn,
      States

\* A step that allocates an object and enters it under an id keeps the map
\* sound: nothing refers to an object that is fresh.
LEMMA EnterKeeps ==
    ASSUME EngineInv, NEW id \in Ids, NEW c \in Conns,
           Fresh(c),
           map' = [map EXCEPT ![id] = c],
           state' = [state EXCEPT ![c] = "open"]
    PROVE  NoDangling' /\ OneId'
  <1>1. map \in [Ids -> Conns \cup {None}] /\ state \in [Conns -> States]
    BY DEF EngineInv, EngineTypeOK
  <1>2. \A i \in Ids : map'[i] = IF i = id THEN c ELSE map[i]
    BY <1>1
  <1>3. \A d \in Conns : state'[d] = IF d = c THEN "open" ELSE state[d]
    BY <1>1
  <1>4. \A i \in Ids : map[i] # c
    BY DEF Fresh
  <1>5. NoDangling'
    BY <1>1, <1>2, <1>3, <1>4 DEF EngineInv, NoDangling
  <1>6. OneId'
    BY <1>2, <1>4 DEF EngineInv, OneId
  <1>7. QED
    BY <1>5, <1>6

\* A step that takes an id out of the map and gives its connection up, or
\* frees it, keeps the map sound: no other id leads to that connection.
LEMMA LeaveKeeps ==
    ASSUME EngineInv, NEW id \in Ids, map[id] # None,
           NEW s \in States,
           map' = [map EXCEPT ![id] = None],
           state' = [state EXCEPT ![map[id]] = s]
    PROVE  NoDangling' /\ OneId'
  <1>1. map \in [Ids -> Conns \cup {None}] /\ state \in [Conns -> States]
    BY DEF EngineInv, EngineTypeOK
  <1>2. \A i \in Ids : map'[i] = IF i = id THEN None ELSE map[i]
    BY <1>1
  <1>3. \A d \in Conns : state'[d] = IF d = map[id] THEN s ELSE state[d]
    BY <1>1
  <1>4. \A i \in Ids : i # id /\ map[i] # None => map[i] # map[id]
    BY DEF EngineInv, OneId
  <1>5. NoDangling'
    BY <1>1, <1>2, <1>3, <1>4 DEF EngineInv, NoDangling
  <1>6. OneId'
    BY <1>2 DEF EngineInv, OneId
  <1>7. QED
    BY <1>5, <1>6

\* Every function of the bindings keeps the invariant.
LEMMA EngineSteps ==
    ASSUME EngineInv, [EngineNext]_engineVars
    PROVE  EngineInv'
  <1>1. EngineTypeOK /\ NoDangling /\ OneId /\ FreeHasConn
    BY DEF EngineInv
  <1>2. /\ map \in [Ids -> Conns \cup {None}]
        /\ state \in [Conns -> States]
        /\ peer \in [Conns -> Peers \cup {None}]
        /\ todo \subseteq Ids
    BY <1>1 DEF EngineTypeOK
  <1>3. CASE \E id \in Ids, p \in Peers : ProcessMsg(id, p)
    <2>1. PICK id \in Ids, p \in Peers : ProcessMsg(id, p)
      BY <1>3
    <2>2. call' = <<"process", id, p>> /\ UNCHANGED <<map, state, peer>>
      BY <2>1 DEF ProcessMsg
    <2>3. todo' \subseteq Ids
      BY <2>1 DEF ProcessMsg, Tracked
    <2>4. EngineTypeOK' /\ FreeHasConn'
      BY <1>2, <2>2, <2>3 DEF EngineTypeOK, Calls, FreeHasConn
    <2>5. NoDangling' /\ OneId'
      BY <1>1, <2>2 DEF NoDangling, OneId
    <2>6. QED
      BY <2>4, <2>5 DEF EngineInv
  <1>4. CASE \E i \in Ids : Sweep(i)
    <2>1. PICK i \in Ids : Sweep(i)
      BY <1>4
    <2>2. UNCHANGED <<map, state, peer, call>>
      BY <2>1 DEF Sweep
    <2>3. todo' \subseteq Ids
      BY <1>2, <2>1 DEF Sweep, Tracked
    <2>4. QED
      BY <1>1, <2>2, <2>3
      DEF EngineInv, EngineTypeOK, NoDangling, OneId, FreeHasConn
  <1>5. CASE \E c \in Conns : Receive(c)
    <2>1. PICK c \in Conns : Receive(c)
      BY <1>5
    <2>2. UNCHANGED <<map, state, peer, todo>> /\ call' \in {call, None}
      BY <2>1 DEF Receive, NextPacket
    <2>3. QED
      BY <1>1, <2>2
      DEF EngineInv, EngineTypeOK, NoDangling, OneId, FreeHasConn
  <1>6. CASE \E c \in Conns : ReceiveFails(c)
    <2>1. PICK c \in Conns : ReceiveFails(c)
      BY <1>6
    <2>2. /\ UNCHANGED <<map, peer, todo>>
          /\ state' = [state EXCEPT ![c] = "closing"]
          /\ call' = None
      BY <2>1 DEF ReceiveFails
    <2>3. EngineTypeOK' /\ FreeHasConn'
      BY <1>1, <2>2 DEF EngineTypeOK, FreeHasConn, States
    <2>4. \A d \in Conns : state'[d] \in {state[d], "closing"}
      BY <1>2, <2>2
    <2>5. NoDangling' /\ OneId'
      BY <1>1, <1>2, <2>2, <2>4 DEF NoDangling, OneId
    <2>6. QED
      BY <2>3, <2>5 DEF EngineInv
  <1>7. CASE \E c \in Conns : PeerCloses(c)
    <2>1. PICK c \in Conns : PeerCloses(c)
      BY <1>7
    <2>2. PICK i \in Ids : map[i] = c /\ map' = [map EXCEPT ![i] = None]
      BY <2>1 DEF PeerCloses
    <2>3. /\ state' = [state EXCEPT ![c] = "abandoned"]
          /\ call' \in {call, None}
          /\ call[1] = "process"
          /\ UNCHANGED <<peer, todo>>
      BY <2>1 DEF PeerCloses, NextPacket, Swept, Processing
    <2>4. EngineTypeOK'
      BY <1>1, <2>2, <2>3 DEF EngineTypeOK, States
    <2>5. FreeHasConn'
      BY <1>1, <2>3 DEF FreeHasConn
    <2>6. map[i] # None
      BY <2>2, EngineAssumption
    <2>7. NoDangling' /\ OneId'
      BY <2>2, <2>3, <2>6, LeaveKeeps DEF States, EngineInv
    <2>8. QED
      BY <2>4, <2>5, <2>7 DEF EngineInv
  <1>8. CASE \E c \in Conns : AcceptConn(c)
    <2>1. PICK c \in Conns : AcceptConn(c)
      BY <1>8
    <2>2. /\ state' = [state EXCEPT ![c] = "open"]
          /\ peer' = [peer EXCEPT ![c] = call[3]]
          /\ map' = [map EXCEPT ![call[2]] = c]
          /\ call' \in {call, None}
          /\ call # None /\ call[1] = "process"
          /\ todo' = todo
          /\ Fresh(c)
      BY <2>1 DEF AcceptConn, NextPacket, Swept, Processing
    <2>3. call[2] \in Ids /\ call[3] \in Peers \cup {None}
      BY <1>1, <2>2, CallParts
    <2>4. EngineTypeOK'
      BY <1>1, <2>2, <2>3 DEF EngineTypeOK, States
    <2>5. FreeHasConn'
      BY <1>1, <2>2, <2>3 DEF FreeHasConn
    <2>6. NoDangling' /\ OneId'
      BY <2>2, <2>3, EnterKeeps
    <2>7. QED
      BY <2>4, <2>5, <2>6 DEF EngineInv
  <1>9. CASE Refuse
    <2>1. UNCHANGED <<map, state, peer, todo>> /\ call' = None
      BY <1>9 DEF Refuse
    <2>2. QED
      BY <1>1, <2>1
      DEF EngineInv, EngineTypeOK, NoDangling, OneId, FreeHasConn
  <1>10. CASE \E id \in Ids, c \in Conns, p \in Peers : Connect(id, c, p)
    <2>1. PICK id \in Ids, c \in Conns, p \in Peers : Connect(id, c, p)
      BY <1>10
    <2>2. /\ state' = [state EXCEPT ![c] = "open"]
          /\ peer' = [peer EXCEPT ![c] = p]
          /\ map' = [map EXCEPT ![id] = c]
          /\ UNCHANGED <<call, todo>>
          /\ call = None
          /\ Fresh(c)
      BY <2>1 DEF Connect, LockIsFree
    <2>3. EngineTypeOK' /\ FreeHasConn'
      BY <1>1, <2>2 DEF EngineTypeOK, FreeHasConn, States
    <2>4. NoDangling' /\ OneId'
      BY <2>2, EnterKeeps
    <2>5. QED
      BY <2>3, <2>4 DEF EngineInv
  <1>11. CASE \E id \in Ids : SendEnds(id)
    <2>1. PICK id \in Ids : SendEnds(id)
      BY <1>11
    <2>2. /\ call' = <<"free", id, None>>
          /\ map[id] # None
          /\ UNCHANGED <<map, state, peer, todo>>
      BY <2>1 DEF SendEnds
    <2>3. EngineTypeOK' /\ FreeHasConn'
      BY <1>1, <2>2 DEF EngineTypeOK, Calls, FreeHasConn
    <2>4. NoDangling' /\ OneId'
      BY <1>1, <2>2 DEF NoDangling, OneId
    <2>5. QED
      BY <2>3, <2>4 DEF EngineInv
  <1>12. CASE \E id \in Ids : CloseConn(id)
    <2>1. PICK id \in Ids : CloseConn(id)
      BY <1>12
    <2>2. /\ map[id] # None
          /\ map' = [map EXCEPT ![id] = None]
          /\ state' = [state EXCEPT ![map[id]] = "abandoned"]
          /\ UNCHANGED <<peer, call, todo>>
          /\ call = None
      BY <2>1 DEF CloseConn, LockIsFree
    <2>3. EngineTypeOK' /\ FreeHasConn'
      BY <1>1, <2>2 DEF EngineTypeOK, FreeHasConn, States
    <2>4. NoDangling' /\ OneId'
      BY <2>2, LeaveKeeps DEF States
    <2>5. QED
      BY <2>3, <2>4 DEF EngineInv
  <1>13. CASE FreeConn
    <2>1. /\ call # None /\ call[1] = "free"
          /\ state' = [state EXCEPT ![map[call[2]]] = "freed"]
          /\ map' = [map EXCEPT ![call[2]] = None]
          /\ call' = None
          /\ UNCHANGED <<peer, todo>>
      BY <1>13 DEF FreeConn
    <2>2. call[2] \in Ids /\ map[call[2]] # None
      BY <1>1, <2>1 DEF FreeHasConn
    <2>3. EngineTypeOK' /\ FreeHasConn'
      BY <1>1, <2>1, <2>2 DEF EngineTypeOK, FreeHasConn, States
    <2>4. NoDangling' /\ OneId'
      BY <2>1, <2>2, LeaveKeeps DEF States
    <2>5. QED
      BY <2>3, <2>4 DEF EngineInv
  <1>14. CASE UNCHANGED engineVars
    BY <1>1, <1>14
    DEF engineVars, EngineInv, EngineTypeOK, NoDangling, OneId, FreeHasConn
  <1>15. QED
    BY <1>3, <1>4, <1>5, <1>6, <1>7, <1>8, <1>9, <1>10, <1>11, <1>12, <1>13,
       <1>14 DEF EngineNext

\* The invariant holds in every state of an engine with any callers.
THEOREM EngineInvariant == EngineSpec => []EngineInv
  <1>1. EngineInit => EngineInv
    BY EngineStart
  <1>2. EngineInv /\ [EngineNext]_engineVars => EngineInv'
    BY EngineSteps
  <1>3. QED
    BY <1>1, <1>2, PTL DEF EngineSpec

\* The types of the engine's variables, whoever calls its functions.
THEOREM EngineTypeCorrect == EngineSpec => []EngineTypeOK
  BY EngineInvariant, PTL DEF EngineInv

\* No id ever leads to a connection that was freed or given up
\* (get_connection and every use of what it returns), whoever calls.
THEOREM MapCorrect == EngineSpec => [](NoDangling /\ OneId)
  BY EngineInvariant, PTL DEF EngineInv

-----------------------------------------------------------------------------
(* The engine needs no more of its map than hashmap.h promises *)

EngineMap == INSTANCE KeyedMap
             WITH Items <- Ids \X Conns, value <- map, oom <- FALSE

\* The keys and values of the map are the ids and the connections.
LEMMA EngineKeys ==
    ASSUME Conns # {}
    PROVE  EngineMap!Keys = Ids /\ (Ids # {} => EngineMap!Values = Conns)
  <1>1. PICK c \in Conns : TRUE
    OBVIOUS
  <1>2. \A i \in Ids : <<i, c>> \in Ids \X Conns /\ <<i, c>>[1] = i
    OBVIOUS
  <1>3. EngineMap!Keys = Ids
    BY <1>2 DEF EngineMap!Keys
  <1>4. ASSUME NEW i \in Ids PROVE EngineMap!Values = Conns
    <2>1. \A d \in Conns : <<i, d>> \in Ids \X Conns /\ <<i, d>>[2] = d
      OBVIOUS
    <2>2. QED
      BY <2>1 DEF EngineMap!Values
  <1>5. QED
    BY <1>3, <1>4

\* A step that enters one connection is a set of the map.
LEMMA EnterIsSet ==
    ASSUME EngineTypeOK, Conns # {}, NEW id \in Ids, NEW c \in Conns,
           map' = [map EXCEPT ![id] = c]
    PROVE  EngineMap!Next
  <1>1. map \in [Ids -> Conns \cup {None}]
    BY DEF EngineTypeOK
  <1>2. EngineMap!Keys = Ids /\ EngineMap!Values = Conns
    BY EngineKeys
  <1>3. EngineMap!Set(id, c)
    BY <1>1, <1>2 DEF EngineMap!Set, EngineMap!Becomes
  <1>4. /\ <<id, c>> \in Ids \X Conns
        /\ <<id, c>>[1] = id /\ <<id, c>>[2] = c
    OBVIOUS
  <1>5. QED
    BY <1>3, <1>4 DEF EngineMap!Next

\* A step that takes one id out is a delete.
LEMMA LeaveIsDelete ==
    ASSUME EngineTypeOK, Conns # {}, NEW id \in Ids,
           map' = [map EXCEPT ![id] = None]
    PROVE  EngineMap!Next
  <1>1. map \in [Ids -> Conns \cup {None}]
    BY DEF EngineTypeOK
  <1>2. EngineMap!Keys = Ids /\ EngineMap!Values = Conns
    BY EngineKeys
  <1>3. EngineMap!Delete(id)
    BY <1>1, <1>2 DEF EngineMap!Delete, EngineMap!Becomes
  <1>4. QED
    BY <1>2, <1>3 DEF EngineMap!Next

\* Each step of the bindings, whoever calls, is one set (add_connection), one
\* delete (delete_connection) or none of their map: MapCorrect asks no more of
\* the map than what hashmap.h promises of one that does not run out of memory.
THEOREM EngineUsesMap == ASSUME Conns # {} PROVE EngineSpec => EngineMap!Spec
  <1>1. EngineInit => EngineMap!Init
    BY EngineKeys DEF EngineInit, EngineMap!Init
  <1>2. ASSUME EngineInv, [EngineNext]_engineVars
        PROVE  [EngineMap!Next]_<<map, FALSE>>
    <2>1. EngineTypeOK
      BY <1>2 DEF EngineInv
    <2>2. CASE \E c \in Conns : PeerCloses(c)
      BY <2>1, <2>2, LeaveIsDelete DEF PeerCloses
    <2>3. CASE \E c \in Conns : AcceptConn(c)
      <3>1. PICK c \in Conns : AcceptConn(c)
        BY <2>3
      <3>2. call # None /\ map' = [map EXCEPT ![call[2]] = c]
        BY <3>1 DEF AcceptConn, Swept, Processing
      <3>3. QED
        BY <2>1, <3>2, CallParts, EnterIsSet
    <2>4. CASE \E id \in Ids, c \in Conns, p \in Peers : Connect(id, c, p)
      BY <2>1, <2>4, EnterIsSet DEF Connect
    <2>5. CASE \E id \in Ids : CloseConn(id)
      BY <2>1, <2>5, LeaveIsDelete DEF CloseConn
    <2>6. CASE FreeConn
      <3>1. call # None /\ map' = [map EXCEPT ![call[2]] = None]
        BY <2>6 DEF FreeConn
      <3>2. QED
        BY <2>1, <3>1, CallParts, LeaveIsDelete
    <2>7. CASE UNCHANGED map
      BY <2>7
    <2>8. QED
      BY <1>2, <2>2, <2>3, <2>4, <2>5, <2>6, <2>7
      DEF EngineNext, engineVars, ProcessMsg, Sweep, Receive, ReceiveFails,
          Refuse, SendEnds
  <1>3. QED
    BY <1>1, <1>2, EngineInvariant, PTL DEF EngineSpec, EngineMap!Spec

=============================================================================
