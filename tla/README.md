# A TLA+ verification project for quicly-go

quicly-go gives Go programs QUIC streams: a Go package (`quiclylib/`) with
sessions, connections and streams, over quicly, a C library, through a C++ file
of bindings (`internal/linux/amd64/bindings/bindings_linux.cpp`).  The protocol
itself is quicly's.  What is quicly-go's own, and what this project is about, is
the machinery in between: goroutines, channels, two kinds of locks, callbacks
from C into Go, timers and the closing of all that in some order.

All paths below are relative to `src/`.

## 1. Inventory

### The parts, their state and their operations

| part | state | operations | who calls them |
|---|---|---|---|
| stream, `quiclylib/stream.go` | two byte buffers with a lock each, two channels of tokens (512), byte counters, deadlines, `closed` | `Write`, `Read`, `Close`, `Sync`, deadlines; goroutine `flushToStream`; callbacks `OnReceived`, `OnSentBytes`, `OnAckedSentBytes`, `OnClosed` | application; the engine's callbacks |
| client session, `quiclylib/client_connection.go` | `connected`, `closing`, context, `incomingQueue`, `streams`, `streamsLock` | `OpenStream` (which connects), `GetStream`, `Close`; `connectionInHandler`, `connectionProcessHandler`; `OnStreamOpen`, `OnStreamClose` | application, own goroutines, engine |
| server session, `quiclylib/server_session.go` | table address hash to connection, `connAcceptQueue`, one global `exclusiveLock` | `Accept`, `Close`; `connectionInHandler`; `OnStreamOpen`, `connectionDelete` | application, own goroutine, connections |
| server connection, `quiclylib/server_connection.go` | `started`, `closing`, `accepted`, context, `incomingQueue` (4092), `streamAcceptQueue` (256), `streams`, `streamsLock` | `Accept`, `Close`; `receiveIncomingPacket`, `connectionProcess`, `connectionOutgoing`; `OnStreamOpen`, `OnStreamClose` | session, application, engine |
| registry, `internal/registry.go` | map id to session | `RegisterConnection`, `GetConnection`, `RemoveConnection` | sessions; callbacks |
| engine bindings, `bindings_linux.cpp`, `callbacks.go` | `global_lock`, map id to connection, one buffer for datagrams | `QuiclyConnect`, `QuiclyProcessMsg`, `QuiclyOutgoingMsgQueue`, `QuiclyOpenStream`, `QuiclyWriteStream`, `QuiclyCloseStream`, `QuiclyClose`; callbacks to Go | sessions, streams |
| stream scheduler, end of `bindings_linux.cpp` | two intrusive lists of streams | `can_send`, `do_send`, `update_state` | quicly, under `global_lock` |
| connection map, `hashmap.c` | robin-hood table | `set`, `get`, `delete`, `iter`, resize | bindings |

Outside the core: `quicly.go`, `options.go`, `types`, `errors` (API and
constants), the generated cgo glue, the twins of the bindings for macOS and
Windows, the headers of quicly, picotls and OpenSSL, `tester/` and the build
scripts.  PROJECT.json lists each with the reason it is left out.

### How they interact

A stream's `Write` fills a buffer; `flushToStream` passes chunks to
`QuiclyWriteStream` and asks the session to flush; the session asks the engine
for datagrams and writes them to its socket.  In the other direction the
session's reader queues packets, a handler passes them in batches to
`QuiclyProcessMsg`, and the engine calls back into Go, *with `global_lock`
held*: a stream opened, closed, received, sent, was acknowledged.  The callback
finds the session in the registry, the stream in the session's map under
`streamsLock`, and runs the handler of the stream or the session.

So two locks are taken in the order `global_lock`, `streamsLock` by every
callback; any code that holds `streamsLock` while it waits for the engine, or
for something a callback must do, is a hazard.  Closing is where that happens.
`Close` cancels the context, starts a goroutine per stream, waits for them,
closes queues, waits for the handlers, and only then drops the connection from
the engine and the registry; and both session kinds close themselves when their
handlers end, so there may always be a second Close.

### What is hard

 * *interleaving*: `Close` against callbacks, against the second `Close`,
   against a stream that opens; `Read` and `Write` against their callbacks;
 * *lost wakeups*: tokens in channels that may be full, sent from goroutines;
 * *queues at their limit*: senders that wait with a lock held;
 * *ordering*: engine, registry, table and streams forget a connection in
   separate steps; a callback may come between any two;
 * *liveness*: every wait in a Close depends on another goroutine;
 * *panics* through C frames, which leave `global_lock` held.

Nothing is persisted and there is no crash recovery; loss and retransmission are
quicly's, seen here only as callbacks.

### What makes each part correct

 * stream: what the engine gets is what was written, in order, without gap;
   what `Read` returns is what came; no reader sleeps over bytes; `Close`
   returns, and resets only what was acknowledged;
 * scheduler: a stream with data is in exactly one list, and gets its turn;
   the loop ends;
 * sessions and connections: what is closed has left nothing in the engine, the
   registry and the queues; callbacks find who they are for; the engine and the
   Go side agree which streams are open; Close ends; no queue is closed twice.

The hazards, each at its line with the properties that cover it, are in
PROJECT.json.

## 2. Modules

| module | models | abstract spec | proofs |
|---|---|---|---|
| `QStream` | a stream with its callers, flusher and callbacks | `BytePipe`, twice | `QStreamProofs` |
| `BytePipe` | what a direction of a stream promises | | |
| `StreamScheduler` | the scheduler, with the part of quicly it looks at | | `StreamSchedulerProofs` |
| `ClientSession` | the client's session from connect to Close, again | | `ClientSessionProofs` |
| `ServerConnection` | a connection of the server from creation to Close | | `ServerConnectionProofs` |
| `EngineTable` | the engine's map of connections under `global_lock`, for any callers | | `EngineTableProofs` |
| `ServerSession` | one session, several clients, the engine's map between them | `EngineTable` | `ServerSessionProofs` |
| `ConnHashMap` | `hashmap.c`, the table under the engine's map | `KeyedMap` | `ConnHashMapProofs` |
| `KeyedMap` | what a map promises: set, get, delete, iterate | | |
| `Induction` | induction and recursion over the natural numbers, for the proofs | | |
| `MC...` | sets of model values and symmetry for TLC | | |

`ServerSession` EXTENDS `EngineTable` and composes it with the session, its
connections and the callbacks; `ConnHashMap` is what stands under the variable
`map` of `EngineTable`.

### QStream

Bytes are numbered by position, so that a gap, a duplicate or a wrong order is
visible.  `written`, `flushed`, `handed`, `received`, `returned` and `dropped`
are histories.  The engine's side is one of `"open"`, `"reset"` (the stream was
told it is closed) and `"lost"` (the connection's map entry is gone and nobody is
told any more), with counters of what was emitted and acknowledged; a callback is
one atomic step because it runs under `global_lock` and does not wait for
anything but the buffer's lock.  Program counters follow `flushToStream`
(top, tick, sync, push), each writer, the reader and `Close` through every point
at which another goroutine can come in.  The three timers (the flusher's tick,
the deadlines of `Write` and `Read`) may fire whenever their `select` waits.
`Write`'s timer is modelled as the code computes it: `time.Now().Sub(deadline)`
is negative before the deadline and never elapses when there is none.

`BytePipe` is one direction as its users think of it: bytes go in, a prefix
comes out in order.  `Egress!Spec` (written and handed) and `Ingress!Spec`
(received and returned) are checked as refinements.

### StreamScheduler

The lists are sequences.  Units of data per stream (fresh, lost, in flight) and
credits stand for what `quicly_stream_can_send`, `quicly_is_blocked` and
`quicly_send_stream` look at.  A callback is a step; the loop of `do_send` is a
step per iteration, with what quicly answers chosen each time: sent, buffer full,
error, or "no more" (`quicly_can_send_data`).

### ClientSession

The state is the session's flags, context, queue and streams, the engine's view
(`mapped`, `dying`, `engOpen`, `used`, `freeing`, `callback`), the registry entry
and program counters for: goroutines that open streams (the first connects), the
two handlers, the goroutine connect leaves behind to close the session, callers
of Close, and the Close of each stream.  `streamsLock` is a variable where it is
held across steps.  `global_lock` is `EngineFree`: no callback is running, no
connection is being freed, and `QuiclyProcessMsg` is not at work.  A callback
that a step of the engine starts is a step of its own, since it waits for
`streamsLock`.

`connect` is followed step by step, as others can see it: `QuiclyConnect`
(`OpenConnect`), which gives `global_lock` back, the registry entry
(`OpenRegister`), `connected` (`OpenUp`), `closing` and the goroutines
(`OpenStart`), and `OnConnectionOpen` (`OpenTold`), which runs under
`streamsLock` and is taken to return without calling the session.

A handler buffers packets until its timer fires and passes them on one by one,
or drops the rest if the session has no streams.  `QuiclyProcessMsg` begins with
the sweep: if quicly has closed the connection on its side (`dying`), it never
ends (`SweepWedge`, see `EngineTable`), with `global_lock` held.  Otherwise the
packets of the datagram follow (`ProcReceive`): each resets a stream, opens one
of the peer's, closes the connection, or fails in quicly, which leaves the
connection closing.  The sweep here meets the session's own connection only; that
it goes over those of all the others is in `ServerSession`.

A session that has closed can connect again under its old id, with its old
queue, closed, and its old context, cancelled.  The engine has a new connection,
whose stream ids start afresh, while QStreams of the first are still about and
reset or flush by id: a QStream is therefore a pair `<<id, n>>`, for the `n`-th
connection.

### ServerConnection

The same for the server, with the differences of the code: the reader waits for
room *with* `streamsLock`; the second handler waits for `accepted`; a stream that
opens is offered to the session, queued for `Accept` and looked up again through
the session, three waits in one callback (`callback` holds where it is); `Close`
gives `streamsLock` to its goroutine.  A panic in a callback sets `leaked`:
`global_lock` is never released (C++ frames are unwound without running the
`lock_guard`).  `crashed` is a panic that nothing recovers: it ends the process,
so every action needs `~crashed`.  `safeClose` does `defer recover()`, and a
`recover` that is itself the deferred call recovers nothing, so closing a closed
queue is a crash.  The session's own `Close` appears as its effect on one
connection: a Close, then a dropped table (`table`).

`OnStreamOpen` calls `OnConnectionOpen` of a connection without streams unchecked
(server_connection.go:308).  `onOpen` says whether the application set one; if it
did not, the call panics under `global_lock`, before the stream is entered.  One
that is set is taken to return without calling the connection.

`ProcMsg` is `QuiclyProcessMsg` with its sweep, as in `ClientSession`;
`ProcReceive` is a packet of the datagram and `ProcDone` its end, which sets
`accepted` only if no packet was refused.  The engine accepts a connection
whenever no connection in its map is the packet's destination (`Accepts`): for
the first packet, for another client of the same host, or for a packet behind the
peer's close in the same batch.  `add_connection` overwrites what the id led to,
and `r.streams` stays as it is.  A QStream is `<<id, n>>` here as well, for the
`n`-th acceptance; one of an earlier acceptance stays in `r.streams` until the
new connection opens a stream with its id, and if it opens none, Close waits for
the old one for ever (`CloseWedge`).

### EngineTable

The C++ side of the bindings as far as several connections share it: `map` (id
to connection), what became of each connection (`state`: open, closing on
quicly's side, freed, or abandoned, that is, alive with nobody left who could
send for it or free it), the address each was accepted from, and the call that
holds `global_lock`.  `QuiclyProcessMsg` is a call of several steps: the sweep
over closing connections, a turn per step (`todo`), then packet after packet,
each for a connection that is there (`Receive`, `ReceiveFails`, `PeerCloses`) or
accepted as a new one.  `add_connection` writes under the id of the handler that
came, whatever the id led to.  `QuiclyOutgoingMsgQueue` is `SendEnds` and
`FreeConn`, because `quicly_free` calls back while the id is still known.
`QuiclyClose` takes the id away before quicly has sent anything.

The sweep deletes an entry with the address of a local pointer as key, so that
nothing is deleted and it begins again: `Sweep` says so, and liveness names it
(`SweepWedge`).

### ServerSession

The engine of `EngineTable` with its callers.  A connection is named by its id.
Of each connection the module keeps what the others notice: the stage of its
life (`stage`: not started, live, closing with `streamsLock` held, lingering for
its handlers and for two seconds, unmapped), the address it answers to, its queue
of packets, whether its two handlers run, and its streams.  The reader of the
socket is two steps per packet (`lock`: it has found or made the connection;
`push`: it holds that connection's `streamsLock` and waits for room), which is
where a Close comes between.  A callback is followed through the points at which
it waits: the offer to the session's `Accept`, the connection's lock, the
session's lock, the lock of every connection in the lookup (`scan`), or a panic,
which leaves `global_lock` held (`leaked`); one of the panics is the call of an
`OnConnectionOpen` that is not there (`onOpen`).  `table` is keyed by `HostOf`, the
address without its port, as `addrToHash` has it.  Close of the session takes
its lock, closes each connection, drops the table and waits for the reader.

Three things are simplified.  A connection's own streams queue is left to
`ServerConnection`: here it is only closed or not.  The two handlers of a
connection share one variable, whose values say which of them is left.  The
application cancels the context of `Listen` only when Close has begun; before
that it would only stop the packets, which may stop anyway.

### ConnHashMap

`hashmap.c` as the bindings use it: buckets with the distance from the home of
their entry (`dib`), insertion that robs the rich, deletion that shifts back,
growth at 60% and shrinking at 10% with re-insertion, each of which may fail for
want of memory.  One operation is one step, as `global_lock` makes it; an
insertion is a recursive function over the steps of its probe, which carries the
displaced entry along.  `KeyedMap` is a function from ids to connections; the
refinement maps the buckets to what `hashmap_get` answers for each id.
`hashmap_iter` is the operator `Iteration`, a recursive function over the cursor.

## 3. Runs

| run | question | bounds | distinct states |
|---|---|---|---|
| `stream_egress` | sending: no gap, no lost wakeup, reset only what is acknowledged, refines a pipe | 1 writer, buffers of 0 to 2, 3 bytes, chunk 1, tokens 2, 1 byte sent again | 1.0 M |
| `stream_live` | the flusher goes on, Write and Close return | buffers of 1 and 3, 3 bytes, tokens 1 | 160 k |
| `stream_ingress` | receiving: no loss but by a close, wakeups, Read returns, refines a pipe | buffers of 0 to 2 with cap up to 1 more, tokens 1, 3 bytes | 150 k |
| `scheduler` | lists intact and complete, the loop ends, streams are served | 2 streams, 2 units waiting, 1 in flight, credits up to 2 | 43 k |
| `client_safe` | in which order Close takes things apart, what it leaves behind, who holds which lock, when the session connects again | 2 openers (symmetric), 1 user, 1 stream and 1 of the peer's, 2 connects, queue and batch of 1 | 3.9 M |
| `client_live` | a cancelled session ends | 1 opener, 1 user, 1 stream and 1 of the peer's, 1 connect, queue and batch of 1 | 106 k |
| `server_safe` | callbacks find their stream, engine and connection agree, what is closed is clean, when the engine accepts again | 1 user, 1 stream, 2 packets, 2 acceptances, queues of 1 | 1.9 M |
| `server_live` | `global_lock` is released, a connection that is over ends | 1 user, 1 stream, 3 packets, 1 acceptance, queues of 1 | 363 k |
| `session_safe` | which client is served by which connection, what the engine's map leads to | 2 ids, 3 engine connections, 3 clients of 2 hosts two at a time, 1 stream, queues of 1 | 2.2 M |
| `session_live` | the engine and the reader come back, the session's Close returns, a client gets through | 2 ids, 2 engine connections, a client alone or two neighbours, queues of 1 | 106 k |
| `hash_map` | the table is a map, through growth, shrinking and their failure | 10 ids that collide, 2 connections, tables of 16 and 32 | 5.6 k |

Those of the client's session and of the server's connection:

 * `ClosedIsClean` of the client excepts an opener that has a new connection and
   has not said so yet (`Connecting`): `IsClosed` is still true then, though the
   engine maps the id.  `CloseInOrder` excepts the moment between `QuiclyConnect`
   and `RegisterConnection`, when a callback would find nobody.  Both moments are
   harmless, because the new connection has no stream yet; a flush by an old
   QStream may free it in there.
 * `StreamsAgree` compares the streams of the latest acceptance with what the
   engine holds open.  Those of a connection that was lost or replaced may stay
   beside them, but never under the id of an open one.  It excepts the panic for
   want of an `OnConnectionOpen`, which leaves the stream unknown.
 * `ConnectionEnds` and `SessionEnds` name the sweep among the ways to hang.

The properties of the session, where they are not what one would expect first:

 * `OneConnectionPerHost` holds through the linger: a host that comes back in
   those two seconds is given the closed connection again, which drops its
   packets (`ClientGetsThrough` shows that it still gets through in the end).
 * `AnswersGoHome` and `LiveIsTracked` except two clients of one host, and need
   to.  The second client is given the connection of the first: it is answered
   at the first one's port, and its engine connection replaces the first under
   the same id, which nobody can close any more.
 * `SessionCloseReturns` needs packets that go on coming (`NoPacket`): Close
   waits for a reader that sleeps in `ReadFromUDP`, and what ends it is the panic
   of its write into the dropped table.
 * `OpenFindsStream` excepts a table that Close has dropped: the callback then
   finds nobody and panics.

One violation run, of a property that a comment of the code states:

| run | property | what happens |
|---|---|---|
| `scheduler_blocked` | `BlockedNeedsCredit` | a stream that is parked for lack of connection credit stays parked when its data is declared lost, though a retransmission needs none |

### Disagreements without a run of their own

Met while modelling; the first three and the two about the engine's map are named
cases of the models.

 * Two calls of `Close` can pass the unlocked guard (client_connection.go:370);
   the second closes a closed queue.  `safeClose` (lib_linux.go:142) does
   `defer recover()`, which recovers nothing, so the process ends (`crashed`).
   The server's `Close` clears `closing` before `started`
   (server_connection.go:399) and has that window in one connection as well.
 * `Close` of a server connection holds `streamsLock` until its streams are told,
   by a callback that needs the lock (server_connection.go:408; `CloseWedge`).
 * A stream that opens while the session closes is looked up in a table that has
   been dropped (server_session.go:202, :260), and the callback panics.
 * `Accept` of a connection returns no stream and no error when it receives from
   the closed queue (server_connection.go:362, against types.go:34).
 * A connection whose last stream ends within a batch is offered to the session's
   `Accept` a second time (server_connection.go:306), and `OnConnectionOpen` is
   called again, without a look whether there is one (:308), which
   client_connection.go:104 and server_session.go:205 have for theirs.
 * A second acceptance under an id (bindings_linux.cpp:669) leaves the streams of
   the first connection in `r.streams`; a Close then waits for callbacks that
   nobody will make, with `streamsLock` held.
 * The sweep of `QuiclyProcessMsg` (bindings_linux.cpp:609) passes `&e`, the
   address of a pointer, as the key to delete, and never gets past a connection
   that is closing.
 * All sends share one static buffer for datagrams (bindings_linux.cpp:703) that
   is read after `global_lock` is released: another send may overwrite it.
 * `QuiclyCloseEngine` frees the map and does not look for connections that are
   left (bindings_linux.cpp:305); their handlers then look up an id in no map.

### Why the bounds are enough

Queues and channels are bounded by 1 or 2 instead of 256, 512 and 4092: what
matters is empty, partly full and full, and each is reached.  Three bytes with
chunks of one give a chunk in flight, one in the buffer and one handed over at
once.  The stream of the session's (`Streams`) and the one of the peer's
(`PeerStreams`) are the two a client's connection has at a time; the peer's is
what makes the engine call back about a stream the session does not know.  On
the server a datagram holds any number of packets, each of which may accept,
open, reset or close, so one datagram opens the stream and ends it again; what a
second one adds is a handler that comes back to the engine after a flush, a full
queue behind it and a Close in between.  A batch of one packet on the client
(`MaxBatch`) leaves the other packets in the queue, and the code looks at the
same things before each.

The second connect and the second acceptance (`MaxConnects`, `MaxAccepts`) show
what a session or a connection keeps of an earlier engine connection: both use
the same stream id, so that `streams` may be empty, may hold the stream of the
connection the engine has now, or one that only shares its id.  Two different
ids on one connection of the server are not in these runs (with two acceptances
they are beyond TLC); the invariants are proved for any number of them.  One
caller of Close beside the session's own makes the two Closes that can meet.

In `ServerSession`, two ids and three engine connections let a connection be
replaced by a neighbour's, closed and made again with the same id free or taken.
`Gatherings` lists which clients come together and who of them sends more than
one packet: neighbours of one host (one retries for ever), or strangers.  Three
clients at once add no lock and no table entry that two do not have.  The hash
table has ten ids because the smallest table has 16 buckets, grows with the
tenth and shrinks back from 32 when three are left: the ids are chosen so that
runs of equal and adjacent homes cross the end of the table, two share the whole
hash, and two collide only before it grows.

Counters that only grow are bounded by
guards, never by a constraint, so the runs are complete for their constants.

### Fairness

A goroutine that was started runs: weak fairness for its steps, strong where the
step waits for a lock, a channel with several receivers or a `select` with
several cases ready, since Go's mutex does not starve a waiter and `select`
chooses at random.  The engine frees and calls back to the end, because it does
so within one C call.  Not assumed: that the application calls anything, closes
a stream or accepts one; that the peer sends; that a send of a datagram succeeds.
A datagram ends: `ProcDone` is fair, the packets of a datagram are not owed.  In
`ServerConnection` the steps of which there is only a bounded number in any
behaviour share one strong fairness condition (`BoundedStep`): if one of them
stayed enabled again and again, the others would run out and its turn come, so
this is as strong as a condition for each of them.
In `ServerSession` the steps are grouped: six strong fairness conditions, for a
client that retries for ever, the reader, the handlers with a packet, what a
connection and Close do at their end, the engine inside a call, and the
callbacks.  Each group is fair as a whole because its members end or take turns
under locks and channels that do not starve a waiter.  The 5 ms a batch waits are
assumed to pass: the timer is made anew for every packet, so traffic without a
pause would starve it.  No Accept, Close or Cancel is assumed.

`StreamSynced` is fair only while the engine still serves the stream, which is
what `CloseReturns` of `QStream` shows of a wire that delivers.

Where a wait can be for ever the liveness property says so by name
(`CloseWedge`, `QueueWedge`, `AcceptJam`, `NeverAccepted`, `QueueJam`, `Stuck`,
`SweepWedge`, and `leaked` or `crashed` after a panic; for a session
`SweepWedge`, `CloseWedge`, `FullWedge`, `AcceptWedge`, `NeverAccepted`,
`NoPacket`).  `EngineAnswers`, `ConnectionEnds`, `SessionEnds`, `EngineReturns`,
`ReaderReturns` and `SessionCloseReturns` say that within the model there is no
other way to hang: each name is a reachable defect or a duty of the application,
and the property fails as soon as a change adds one. `EngineAnswers` is about
callbacks only, so it needs neither the sweep nor the panics, which leave no
callback behind.  `Stuck` has two cases: a stream the engine will tell nothing
any more, and one that waits for acknowledgements when nobody takes packets to
the engine, because the handler has ended or quicly has closed the connection.

## 4. Proofs

`QStreamProofs` proves about `QStream`, for every number of writers, every set
of buffer sizes, chunk size, channel capacity and bound:

 * `TypeCorrect`: `TypeOK`, and that a `Read` in its loop has room left;
 * `EgressCorrect`: `EgressNoGap`;
 * `IngressCorrect`: `IngressNoGap`;
 * `ReaderCorrect`: `ReaderWakeup`;
 * `WriterCorrect`: `WriterWakeup`;
 * `CloseCorrect`: `CloseAfterAck`;
 * `EgressRefines`, `IngressRefines`: each direction implements `BytePipe`.

They assume `QStreamAssumption` (the sizes are numbers, the capacities positive),
which TLC evaluates in each run.

The arguments: `TypeInv` is inductive by itself; `ReadRoom` is in it because the
length of the copy a `Read` makes is only a number when the loop has room left.
`EgressInv` says where each byte of the sending direction is: flushed, in the
chunk, or in the buffer, whose concatenation is what was written; that the
engine was handed a prefix of what was flushed; that before it is reset it was
handed all of it (`handed = flushed`, without which a chunk appended after a
rejected one would make a gap); and at which points of the flusher the chunk is
empty.  `IngressInv` is the same for what was returned, dropped, taken and
buffered, with the fact that only a close drops.  The wakeup proof needs where
the reader is and that every notifier still to come carries a token.  The proofs
keep concatenation closed under the name `++` and use its laws as a lemma
(`ByteSeq`): `EgressSteps` and `IngressSteps` reduce the steps of the whole
specification to the few that touch a direction.  The two refinements follow
from the same invariants: a step that adds to what came out adds a prefix of
what went in, because it did so before and after.  `CloseAfterAck` needs that
Close never counts more than was written (`CloseInv`).

`StreamSchedulerProofs` proves about `StreamScheduler`, for any number of
streams and any amounts of data and credit, `TypeOK` (`ListsCorrect`),
`NoStreamForgotten` (`NoneForgotten`) and `SendbufFullAssert`
(`AssertionHolds`).  The invariant is that the lists are right only together:
each is without repetition, they share no stream (`Apart`), and what is linked
has something to send (`Listed`), since a stream is linked only if it is in no
list and unlinked from one place.  What linking and unlinking do to such lists
are lemmas (`ListAppend`, `ListTail`, `ListConcat`, `ListUnlink`).  It assumes
`SchedulerAssumption`.

Two more theorems are about the loop of `do_send`, which holds `global_lock`.
`LoopShrinks`: if there are finitely many streams, each iteration that goes on
leaves less `Work`, which is the units of data still to send and to send again
and the length of the active list.  A stream goes to the back of that
list only if something of it was sent, so the loop ends by itself after at most
as many iterations.  `WaitersAdvance`: while the loop goes on, every stream that
waits in the active list comes one place forward (round robin).  They are the
part of `LoopEnds` and `Served` that needs no fairness; the two liveness
properties themselves are only model-checked.

`ClientSessionProofs` proves about `ClientSession`, for any number of
goroutines, streams and connects, `TypeOK` (`TypeCorrect`), `NoLockCycle`
(`LocksCorrect`), `ClosedIsClean` (`CleanCorrect`) and `CloseInOrder`
(`OrderCorrect`).  What carries it is `MapInv`: the engine maps the id only
while the session is connected and registered, or while an opener is about to
make it so (`Registering`, `Connecting`), and without a connection in the map
nothing calls back or is freed.  Whoever connects holds `streamsLock` and has
found the session not connected (`OpenInv`), so no callback can be on its way to
that lock.  `CleanInv` is `ClosedIsClean` with the handlers, which have ended
before connect may start them anew.  `MapInv` needs `StageInv` (what a Close has
done stays done), which needs `OneInv`: at most one Close is past the closing of
the queue, since a second one panics there.  It assumes `ClientAssumption`.

`ServerConnectionProofs` proves about `ServerConnection`, for any number of
streams, packets and callers of Close and any capacity of the queues, `TypeOK`
(`TypeCorrect`), `StreamsAgree` (`AgreeCorrect`), `ClosedIsClean`
(`CleanCorrect`) and `OpenFindsStream` (`FindsCorrect`), for any number of
acceptances.  `MatchInv` says that a stream is on one side only, in the engine
or in `r.streams` under the latest acceptance, while a callback is about to put
that right; `AgreeInv` adds on which side it then is, that nothing calls back
for an id that is not mapped, that no QStream is younger than the latest
acceptance and that `r.streams` has one for each id.  `CleanInv` says what a
Close that has got so far left behind; unlike the client's it does not need that
there is only one, because nothing a server connection lets go comes back: once
its handlers have ended and the engine has forgotten it, no step calls back any
more (`Quiet`).  It assumes `ServerConnectionAssumption`.

`EngineTableProofs` proves `NoDangling` for any ids, connections and callers
(`MapCorrect`).  It is not inductive: a connection with two ids would be freed
under one and found under the other, and `quicly_free` must still find the
connection it works on.  `EngineInv` adds the types, `OneId` and `FreeHasConn`.
`EngineUsesMap` says that each step is one set or one delete of the map or none,
that is, a step of `KeyedMap`; with `ImplementsMap` below, the hash table does
for the engine what `EngineTable` takes the map for.  What is left out between
the two is a set that finds no memory, which `add_connection` does not look at:
`KeyedMap` and `ConnHashMap` have it, `EngineTable` does not.

`ServerSessionProofs` proves about `ServerSession`, for any number of clients,
hosts, connections and streams and any capacity of the queues:

 * `SessionTypeCorrect`: the types, and that no queue exceeds its capacity;
 * `SessionRefinesEngine`: whatever the session does, the engine takes only the
   steps of `EngineTable`, so that what is proved of the map holds in it;
 * `MappedCorrect`: `MappedHasConnection`;
 * `OneConnectionCorrect`: `OneConnectionPerHost`;
 * `AnswersCorrect`: `AnswersGoHome`;
 * `TrackedCorrect`: `LiveIsTracked`.

The invariant `Inv` is in parts.  `LifeInv` ties the engine to the life of a
connection: a mapped id, a handler that runs and a call in progress mean that the
connection is active, so `QuiclyClose`, which comes after both handlers, takes
away the last way to it.  `TableInv` says that until Close drops it the table has
every started connection under its own host: two connections of a host would be
the same entry.  `HostInv` follows a packet: from the reader into the queue, from
the queue into the call, from the call into `peer`, it always comes from the host
of the connection it is with.  `AnswersGoHome` is then `HostInv` and the fact
that two addresses of one host are neighbours; `LiveIsTracked` needs the same at
the one step that replaces an id.  They assume `EngineAssumption` and
`SessionAssumption`, which TLC evaluates.

`ConnHashMapProofs` proves about `ConnHashMap`, for any finite set of ids and
connections, any hashes (all the same, if need be) and any first capacity above
one:

 * `AlwaysTableSound`: `TableSound`;
 * `AlwaysIterationComplete`: `IterationComplete`;
 * `ImplementsMap`: `MapSpec`, that the table implements `KeyedMap`.

They assume `HashMapAssumption`, which TLC evaluates.  `TableInv` says that the
table has been doubled a number of times that the number of ids bounds, that its
load is at most 60%, and that it is `Sound`: each entry lies where its `dib` says
(`Placed`), the bucket before an entry that is not at home holds one that is at
most one step nearer to its own home (`Ordered`), and no key is there twice
(`Unique`).  From `Ordered` follows, backwards from an entry to its home, that all
buckets on the way are used and by entries as far from home (`RunBefore`);
so a probe that meets an empty bucket has passed every place its key could be at
(`ProbeFinds`), and with an empty bucket left no entry is farther than the length
of the table from home (`DibBounded`), which is why no probe goes round twice.

`Sound` is what each loop keeps, and each has an invariant of its own.  While an
insertion carries an entry along, the table together with that entry stores what
it did with the new pair, and the entry may be put down where the probe stands
(`ProbeInv`).  For a key that is there the probe changes nothing before it meets
it (`Seeking`): if it took a bucket before that, the key would be there twice.
`resize0` has moved the entries of the buckets so far (`Moved`).  A deletion shifts
the run behind the hole as a whole, and stops at an entry at home, which would
leave `Placed` if it moved (`CloseSound`).  The load factors are what lets the
invariant survive a growth and a shrinking (`LoadFactors`): a halved table has
room for what is left, and a doubled one for one entry more.

These are inductions over the steps of loops.  The library's theorems on
induction take an operator, which the provers cannot instantiate; `Induction`
proves one that takes a set of numbers instead (`SetInduction`), from the
well-foundedness of the strict subset ordering, and from it that a recursive
function over the numbers is defined (`Recursion`, `FiniteRecursion`), which is
needed for the functions in `Insert`, `Resize`, `Iteration` and `PowerOf2`.

Only model-checked: everything with fairness.  Every safety property of the runs
is a theorem.

## 5. Not modelled, and the plan

What could come next: the pointers of the scheduler's lists (`linklist.h`),
under the sequences of `StreamScheduler`; `ServerSession` with the streams queue
of `ServerConnection` in it, which takes a smaller instance than the one that is
checked.

Left out for good:

 * The shared buffer of datagrams: it harms only bytes on the wire, and no state
   here tells a spoiled datagram from a lost one.
 * `QuiclyInitializeEngine` and `QuiclyCloseEngine`: one call at either end of
   the program.  `QuiclySendDatagram` and `hashmap_clear`, `hashmap_scan`,
   `hashmap_probe`: nothing calls them.
 * When quicly sends the last datagram of a connection it has closed on its side
   (`dying`), it may already destroy the streams, which the models leave to
   `quicly_free`; quicly's sources are not in the repository, and the sweep holds
   `global_lock` from the next packet on.
 * The protocol (quicly), TLS, address parsing, the cgo conversions, the content
   of packets, logging.  `GetStream`, `Addr`, `LocalAddr`, `RemoteAddr` and the
   other getters change nothing.
 * The bindings for macOS and Windows, which repeat the code modelled here, and
   the headers of OpenSSL, picotls and quicly, which come three times, once for
   each platform.  They are nearly all of the repository's lines; the logic of
   quicly-go is in the nine files of section 1, about 3500 lines.

The engine's 64-bit counters are modelled modulo `CounterMod`; no run reaches
it.

## 6. Running

    tlc -workers 2 -config ServerSessionSafe.cfg MCServerSession.tla
    tlapm QStreamProofs.tla
    tlapm EngineTableProofs.tla
    tlapm ServerSessionProofs.tla
    tlapm StreamSchedulerProofs.tla
    tlapm ClientSessionProofs.tla
    tlapm ServerConnectionProofs.tla
    tlapm ConnHashMapProofs.tla
