----------------------------- MODULE EngineTable -----------------------------
(***************************************************************************)
(* The bindings' map of connections: which engine connection each id of    *)
(* the Go side stands for, and what the functions of bindings_linux.cpp do *)
(* to it.  Every function holds global_lock from its first statement to    *)
(* its last; one that calls back into Go in between, or loops, takes       *)
(* several steps here, and `call` says which one it is.                    *)
(*                                                                         *)
(* quicly is seen as the bindings see it: a connection object is open,     *)
(* closing (quicly_get_state is CLOSING or later) or freed.  One that is   *)
(* closed and in the map no longer is "abandoned": nobody can send its     *)
(* last packets or free it any more.  The actions are the operations only; *)
(* the modules that extend this one say who calls them and when.  The map  *)
(* itself is a function here, which ConnHashMap implements.                *)
(***************************************************************************)
EXTENDS Naturals, FiniteSets

CONSTANTS
    Ids,      \* ids the Go side gives its connections
    Conns,    \* connection objects of quicly
    Peers,    \* addresses, with their port, datagrams come from
    None      \* no connection, no call, no address

ASSUME EngineAssumption == None \notin Ids \cup Conns \cup Peers

VARIABLES
    map,      \* connections_map: the connection of each id, or None
    state,    \* the state of each connection object
    peer,     \* the address each connection was accepted from
    call,     \* the function that holds global_lock, with the id and the
              \* address it was given; None if the lock is free
    todo      \* ids the sweep of QuiclyProcessMsg has still to look at

engineVars == <<map, state, peer, call, todo>>

States == {"none", "open", "closing", "freed", "abandoned"}
Calls == {"process", "free"} \X Ids \X (Peers \cup {None})

Tracked == {i \in Ids : map[i] # None}
LockIsFree == call = None

\* An object that can be allocated: nothing refers to it.
Fresh(c) == state[c] # "open" /\ \A i \in Ids : map[i] # c

EngineInit ==
    /\ map = [i \in Ids |-> None]
    /\ state = [c \in Conns |-> "none"]
    /\ peer = [c \in Conns |-> None]
    /\ call = None
    /\ todo = {}

-----------------------------------------------------------------------------
(* QuiclyProcessMsg *)

\* global_lock is taken, and the sweep starts with every id that is tracked.
ProcessMsg(id, p) ==
    /\ LockIsFree
    /\ call' = <<"process", id, p>>
    /\ todo' = Tracked
    /\ UNCHANGED <<map, state, peer>>

Processing == call # None /\ call[1] = "process"

\* One turn of the sweep.  For a connection that is closing the code deletes an
\* entry with the address of its own pointer for a key, which the map does not
\* have, and starts from the first entry again.
Sweep(i) ==
    /\ Processing
    /\ i \in todo
    /\ todo' = IF state[map[i]] = "closing" THEN Tracked ELSE todo \ {i}
    /\ UNCHANGED <<map, state, peer, call>>

Swept == Processing /\ todo = {}

\* A packet of a connection in the map: the address stands for what
\* quicly_is_destination compares (a client has a socket for each connection).
IsDestination(c) == c \in Conns /\ peer[c] = call[3]
                    /\ \E i \in Ids : map[i] = c

\* Defect: a client's second packet is taken for another first one.
UnknownBlind == TRUE

Unknown == \A c \in Conns : ~IsDestination(c)

\* The next packet of the datagram, or the end.
NextPacket == call' \in {call, None}

\* quicly_receive takes the packet.
Receive(c) ==
    /\ Swept
    /\ IsDestination(c)
    /\ NextPacket
    /\ UNCHANGED <<map, state, peer, todo>>

\* quicly_receive fails: quicly has closed the connection on its side, and the
\* rest of the datagram is left.
ReceiveFails(c) ==
    /\ Swept
    /\ IsDestination(c)
    /\ state' = [state EXCEPT ![c] = "closing"]
    /\ call' = None
    /\ UNCHANGED <<map, peer, todo>>

\* The packet is the peer's close: on_connection_close removes the id.
PeerCloses(c) ==
    /\ Swept
    /\ IsDestination(c)
    /\ \E i \in Ids : map[i] = c /\ map' = [map EXCEPT ![i] = None]
    /\ state' = [state EXCEPT ![c] = "abandoned"]
    /\ NextPacket
    /\ UNCHANGED <<peer, todo>>

\* A packet of no connection in the map: quicly_accept makes a new one, which
\* add_connection enters under the caller's id, whatever is there.
AcceptConn(c) ==
    /\ Swept
    /\ Unknown
    /\ Fresh(c)
    /\ state' = [state EXCEPT ![c] = "open"]
    /\ peer' = [peer EXCEPT ![c] = call[3]]
    /\ map' = [map EXCEPT ![call[2]] = c]
    /\ NextPacket
    /\ UNCHANGED todo

\* quicly_accept refuses it, or it cannot be decoded.
Refuse ==
    /\ Swept
    /\ call' = None
    /\ UNCHANGED <<map, state, peer, todo>>

-----------------------------------------------------------------------------
(* The other functions *)

\* QuiclyConnect, on the client.
Connect(id, c, p) ==
    /\ LockIsFree
    /\ Fresh(c)
    /\ state' = [state EXCEPT ![c] = "open"]
    /\ peer' = [peer EXCEPT ![c] = p]
    /\ map' = [map EXCEPT ![id] = c]
    /\ UNCHANGED <<call, todo>>

\* QuiclyOutgoingMsgQueue, when quicly_send says that the connection has ended:
\* quicly_free calls back for its streams while the id is still known,
SendEnds(id) ==
    /\ LockIsFree
    /\ map[id] # None
    /\ call' = <<"free", id, None>>
    /\ UNCHANGED <<map, state, peer, todo>>

\* Defect: the id of a connection that was freed stays in the map.
FreeConnKeep ==
    /\ call # None /\ call[1] = "free"
    /\ state' = [state EXCEPT ![map[call[2]]] = "freed"]
    /\ call' = None
    /\ UNCHANGED <<map, peer, todo>>

\* then the object and the id go.
FreeConn ==
    /\ call # None /\ call[1] = "free"
    /\ state' = [state EXCEPT ![map[call[2]]] = "freed"]
    /\ map' = [map EXCEPT ![call[2]] = None]
    /\ call' = None
    /\ UNCHANGED <<peer, todo>>

\* QuiclyClose: the id goes before quicly_close, and with it the last way to
\* send the close and to free the object.
CloseConn(id) ==
    /\ LockIsFree
    /\ map[id] # None
    /\ map' = [map EXCEPT ![id] = None]
    /\ state' = [state EXCEPT ![map[id]] = "abandoned"]
    /\ UNCHANGED <<peer, call, todo>>

-----------------------------------------------------------------------------
\* Any caller may call any function whenever the lock is free.
EngineNext ==
    \/ \E id \in Ids, p \in Peers : ProcessMsg(id, p)
    \/ \E i \in Ids : Sweep(i)
    \/ \E c \in Conns : \/ Receive(c) \/ ReceiveFails(c) \/ PeerCloses(c)
                        \/ AcceptConn(c)
    \/ Refuse
    \/ \E id \in Ids, c \in Conns, p \in Peers : Connect(id, c, p)
    \/ \E id \in Ids : SendEnds(id) \/ CloseConn(id)
    \/ FreeConn

EngineSpec == EngineInit /\ [][EngineNext]_engineVars

-----------------------------------------------------------------------------
(* Properties *)

EngineTypeOK ==
    /\ map \in [Ids -> Conns \cup {None}]
    /\ state \in [Conns -> States]
    /\ peer \in [Conns -> Peers \cup {None}]
    /\ call \in Calls \cup {None}
    /\ todo \subseteq Ids

\* No id leads to memory that was freed, and none to a connection somebody has
\* given up: every function uses what get_connection returns unchecked.
NoDangling ==
    \A i \in Ids : map[i] # None => state[map[i]] \in {"open", "closing"}

\* No two ids share a connection: get_connection_uuid answers with the first it
\* finds, and a callback would go to the wrong session.
OneId ==
    \A i, j \in Ids : map[i] # None /\ map[i] = map[j] => i = j

=============================================================================
