-------------------------- MODULE StreamScheduler --------------------------
(***************************************************************************)
(* The stream scheduler the bindings give to quicly: can_send, do_send and *)
(* update_state at the end of bindings_linux.cpp, over two intrusive lists *)
(* of streams.  Everything here runs under global_lock, so a callback is   *)
(* one step; only the loop of do_send, whose iterations depend on what     *)
(* quicly_send_stream answers, is a step per iteration.                    *)
(*                                                                         *)
(* quicly is modelled by what its header says of the calls made here.  A   *)
(* unit of data is what one STREAM frame carries: fresh when it was never  *)
(* sent (it needs stream and connection credit), lost when it must be sent *)
(* again (it needs neither), in flight in between.                         *)
(***************************************************************************)
EXTENDS Integers, Sequences, FiniteSets, SequencesExt

CONSTANTS
    Streams,     \* streams of the connection
    MaxFresh,    \* bound: units waiting in a stream's send buffer
    MaxFlight,   \* bound: units of a stream sent and not acknowledged
    MaxWindow,   \* bound: unused MAX_STREAM_DATA of a stream, in units
    MaxCredit    \* bound: unused MAX_DATA of the connection, in units

ASSUME SchedulerAssumption ==
    /\ MaxFresh \in Nat /\ MaxFlight \in Nat
    /\ MaxWindow \in Nat /\ MaxCredit \in Nat

VARIABLES
    active,      \* sched->active, first to last
    blocked,     \* sched->blocked
    fresh, lost, flight,   \* units of each stream
    window,      \* unused stream credit
    credit,      \* unused connection credit
    pc,          \* "idle", or "sending" inside the loop of do_send
    saturated,   \* conn_is_blocked, the local of do_send
    failed,      \* history: streams whose last send failed
    turn         \* history: the last stream quicly_send_stream was called for
                 \* that answered OK or SENDBUF_FULL

lists == <<active, blocked>>
data  == <<fresh, lost, flight, window, credit>>
vars  == <<lists, data, pc, saturated, failed, turn>>

None == "none"
Linked(s) == s \in ToSet(active) \cup ToSet(blocked)

\* quicly_is_blocked
IsBlocked == credit = 0

\* quicly_stream_can_send: at the stream's level fresh data counts as far as
\* its window goes, below it only what is to be sent again.
CanSend(s, atStreamLevel) ==
    \/ lost[s] > 0
    \/ atStreamLevel /\ fresh[s] > 0 /\ window[s] > 0

Init ==
    /\ active = <<>> /\ blocked = <<>>
    /\ fresh = [s \in Streams |-> 0]
    /\ lost = [s \in Streams |-> 0]
    /\ flight = [s \in Streams |-> 0]
    /\ window \in [Streams -> 0..MaxWindow]
    /\ credit \in 0..MaxCredit
    /\ pc = "idle"
    /\ saturated = FALSE
    /\ failed = {}
    /\ turn = None

-----------------------------------------------------------------------------
(* The list operations *)

\* quicly_linklist_insert_list(&sched->active, &sched->blocked): what was
\* blocked goes to the front.
Splice ==
    /\ active' = blocked \o active
    /\ blocked' = <<>>

\* Defect: a stream is linked without a look at whether it already is.
LinkTwice(from, s, connIsBlocked) ==
    IF connIsBlocked /\ ~CanSend(s, FALSE)'
      THEN active' = from /\ blocked' = Append(blocked, s)
      ELSE active' = Append(from, s) /\ blocked' = blocked

\* Defect: a stream goes to the front of its list.
LinkFirst(from, s, connIsBlocked) ==
    IF s \in ToSet(from) \cup ToSet(blocked)
      THEN active' = from /\ blocked' = blocked
      ELSE IF connIsBlocked /\ ~CanSend(s, FALSE)'
             THEN active' = from /\ blocked' = <<s>> \o blocked
             ELSE active' = <<s>> \o from /\ blocked' = blocked

\* link_stream, when `from` is left of the active list.  A stream that is
\* linked stays where it is; otherwise the state the call leaves it in decides.
Link(from, s, connIsBlocked) ==
    IF s \in ToSet(from) \cup ToSet(blocked)
      THEN active' = from /\ blocked' = blocked
      ELSE IF connIsBlocked /\ ~CanSend(s, FALSE)'
             THEN active' = from /\ blocked' = Append(blocked, s)
             ELSE active' = Append(from, s) /\ blocked' = blocked

\* quicly_linklist_unlink, on the list that has s if one does.
Unlink(list, s) ==
    IF s \in ToSet(list)
      THEN RemoveAt(list, CHOOSE i \in DOMAIN list : list[i] = s)
      ELSE list

\* Defect: a stream with nothing to send stays linked.
UpdateStateKeep(s) ==
    /\ IF CanSend(s, TRUE)'
         THEN Link(active, s, IsBlocked)
         ELSE UNCHANGED lists
    /\ failed' = failed \ {s}

\* update_state: quicly calls it whenever what a stream has to send changes.
UpdateState(s) ==
    /\ IF CanSend(s, TRUE)'
         THEN Link(active, s, IsBlocked)
         ELSE active' = Unlink(active, s) /\ blocked' = Unlink(blocked, s)
    /\ failed' = failed \ {s}

-----------------------------------------------------------------------------
(* What happens to a stream between two calls of do_send *)

Quiet == pc = "idle" /\ UNCHANGED <<pc, saturated, turn>>

\* QuiclyWriteStream puts a unit in the send buffer.
WriteStream(s) ==
    /\ Quiet
    /\ fresh[s] < MaxFresh
    /\ fresh' = [fresh EXCEPT ![s] = @ + 1]
    /\ UNCHANGED <<lost, flight, window, credit>>
    /\ UpdateState(s)

\* A unit in flight, or one given up for lost, is acknowledged.
Acked(s) ==
    /\ Quiet
    /\ \/ /\ flight[s] > 0
          /\ flight' = [flight EXCEPT ![s] = @ - 1]
          /\ UNCHANGED lost
       \/ /\ lost[s] > 0
          /\ lost' = [lost EXCEPT ![s] = @ - 1]
          /\ UNCHANGED flight
    /\ UNCHANGED <<fresh, window, credit>>
    /\ UpdateState(s)

\* Loss detection or a probe timeout gives up on a unit in flight.
DeclareLost(s) ==
    /\ Quiet
    /\ flight[s] > 0
    /\ flight' = [flight EXCEPT ![s] = @ - 1]
    /\ lost' = [lost EXCEPT ![s] = @ + 1]
    /\ UNCHANGED <<fresh, window, credit>>
    /\ UpdateState(s)

\* A MAX_STREAM_DATA frame.
MaxStreamData(s) ==
    /\ Quiet
    /\ window[s] < MaxWindow
    /\ window' = [window EXCEPT ![s] = @ + 1]
    /\ UNCHANGED <<fresh, lost, flight, credit>>
    /\ UpdateState(s)

\* QuiclyCloseStream resets the stream: nothing of it is sent again.
ResetStream(s) ==
    /\ Quiet
    /\ fresh' = [fresh EXCEPT ![s] = 0]
    /\ lost' = [lost EXCEPT ![s] = 0]
    /\ flight' = [flight EXCEPT ![s] = 0]
    /\ UNCHANGED <<window, credit>>
    /\ UpdateState(s)

\* A MAX_DATA frame; no stream is told.
MaxData ==
    /\ Quiet
    /\ credit < MaxCredit
    /\ credit' = credit + 1
    /\ UNCHANGED <<lists, fresh, lost, flight, window, failed>>

-----------------------------------------------------------------------------
(* can_send and do_send *)

\* can_send moves what is blocked to the active list unless the connection
\* is saturated.
CanSendCall ==
    /\ Quiet
    /\ ~IsBlocked
    /\ Splice
    /\ UNCHANGED <<data, failed>>

DoSend ==
    /\ pc = "idle"
    /\ pc' = "sending"
    /\ IF IsBlocked THEN UNCHANGED lists ELSE Splice
    /\ saturated' = IsBlocked
    /\ UNCHANGED <<data, failed, turn>>

\* The stream the loop has reached.
First(s) == pc = "sending" /\ active # <<>> /\ s = Head(active)

\* The first active stream waits for connection credit: on to the next.
SendBlocked(s) ==
    /\ First(s)
    /\ saturated /\ ~CanSend(s, FALSE)
    /\ active' = Tail(active)
    /\ blocked' = Append(blocked, s)
    /\ UNCHANGED <<data, pc, saturated, failed, turn>>

Sendable(s) == First(s) /\ (~saturated \/ CanSend(s, FALSE))

\* quicly_send_stream puts in the packet what is lost first, then what is
\* fresh as far as both credits go, and may find nothing.
Emit(s) ==
    \/ /\ lost[s] > 0
       /\ flight[s] < MaxFlight
       /\ lost' = [lost EXCEPT ![s] = @ - 1]
       /\ flight' = [flight EXCEPT ![s] = @ + 1]
       /\ UNCHANGED <<fresh, window, credit>>
    \/ /\ lost[s] = 0
       /\ fresh[s] > 0 /\ window[s] > 0 /\ credit > 0
       /\ flight[s] < MaxFlight
       /\ fresh' = [fresh EXCEPT ![s] = @ - 1]
       /\ flight' = [flight EXCEPT ![s] = @ + 1]
       /\ window' = [window EXCEPT ![s] = @ - 1]
       /\ credit' = credit - 1
       /\ UNCHANGED lost
    \/ /\ lost[s] = 0
       /\ fresh[s] = 0 \/ window[s] = 0 \/ credit = 0
       /\ UNCHANGED data

\* Defect: a stream that was sent for is not linked again.
SendForget(s) ==
    /\ Sendable(s)
    /\ Emit(s)
    /\ saturated' = (credit' = 0)
    /\ active' = Tail(active)
    /\ turn' = s
    /\ UNCHANGED <<blocked, pc, failed>>

\* Defect: conn_is_blocked is not read again after a send.
SendStale(s) ==
    /\ Sendable(s)
    /\ Emit(s)
    /\ UNCHANGED saturated
    /\ IF CanSend(s, TRUE)'
         THEN Link(Tail(active), s, saturated)
         ELSE active' = Tail(active) /\ UNCHANGED blocked
    /\ turn' = s
    /\ UNCHANGED <<pc, failed>>

\* One iteration that sends, and links the stream again if it has more.
Send(s) ==
    /\ Sendable(s)
    /\ Emit(s)
    /\ saturated' = (credit' = 0)
    /\ IF CanSend(s, TRUE)'
         THEN Link(Tail(active), s, credit' = 0)
         ELSE active' = Tail(active) /\ UNCHANGED blocked
    /\ turn' = s
    /\ UNCHANGED <<pc, failed>>

\* QUICLY_ERROR_SENDBUF_FULL: the stream goes back, at the end.
SendFull(s) ==
    /\ Sendable(s)
    /\ UNCHANGED <<data, saturated, failed>>
    /\ turn' = s
    /\ Link(Tail(active), s, saturated)
    /\ pc' = "idle"

\* Any other error: the loop ends and the stream stays unlinked.
SendFails(s) ==
    /\ Sendable(s)
    /\ active' = Tail(active)
    /\ failed' = failed \cup {s}
    /\ pc' = "idle"
    /\ UNCHANGED <<blocked, data, saturated, turn>>

\* quicly_can_send_data: the packets of this call are full.
SendStop ==
    /\ pc = "sending"
    /\ active # <<>>
    /\ pc' = "idle"
    /\ UNCHANGED <<lists, data, saturated, failed, turn>>

SendDone ==
    /\ pc = "sending"
    /\ active = <<>>
    /\ pc' = "idle"
    /\ UNCHANGED <<lists, data, saturated, failed, turn>>

-----------------------------------------------------------------------------
Next ==
    \/ \E s \in Streams :
          WriteStream(s) \/ Acked(s) \/ DeclareLost(s) \/ MaxStreamData(s)
          \/ ResetStream(s)
          \/ SendBlocked(s) \/ Send(s) \/ SendFull(s) \/ SendFails(s)
    \/ MaxData
    \/ CanSendCall
    \/ DoSend \/ SendStop \/ SendDone

Spec == Init /\ [][Next]_vars

\* The connection's goroutine asks for packets again and again; the loop
\* runs; what is in flight is acknowledged or declared lost; and a frame goes
\* out now and then.
Fairness ==
    /\ WF_vars(DoSend)
    /\ WF_vars(SendStop \/ SendDone
               \/ \E s \in Streams : SendBlocked(s) \/ Send(s))
    /\ SF_vars(\E s \in Streams : Send(s))
    /\ \A s \in Streams : SF_vars(Acked(s) \/ DeclareLost(s))

FairSpec == Spec /\ Fairness

-----------------------------------------------------------------------------
(* Properties *)

\* An intrusive link is in one list, once; and flow control is respected.
TypeOK ==
    /\ active \in Seq(Streams) /\ blocked \in Seq(Streams)
    /\ IsInjective(active \o blocked)
    /\ fresh \in [Streams -> 0..MaxFresh]
    /\ lost \in [Streams -> Nat] /\ flight \in [Streams -> 0..MaxFlight]
    /\ window \in [Streams -> 0..MaxWindow]
    /\ credit \in 0..MaxCredit
    /\ pc \in {"idle", "sending"}
    /\ saturated \in BOOLEAN
    /\ failed \subseteq Streams
    /\ turn \in Streams \cup {None}

\* A stream that has something to send, now or once the connection gets
\* credit, is in one of the lists, unless quicly_send_stream failed on it: no
\* stream falls out of the scheduler between a callback and the loop.
NoStreamForgotten ==
    \A s \in Streams : CanSend(s, TRUE) => Linked(s) \/ s \in failed

\* The assertion of do_send: the stream it took from the active list can
\* still send, at the stream's level, when the send buffer is full.
SendbufFullAssert ==
    \A s \in Streams : Sendable(s) => CanSend(s, TRUE)

\* The comment on the scheduler's state: `blocked' holds the streams that are
\* blocked by the connection-level flow control.
BlockedNeedsCredit ==
    \A s \in ToSet(blocked) : IsBlocked => ~CanSend(s, FALSE)

\* The loop of do_send, which runs under global_lock, ends by itself even when
\* quicly_can_send_data never stops it.
LoopEnds == pc = "sending" ~> pc = "idle"

\* Round robin: the turn of a stream that can send comes, unless the connection
\* runs out of credit or the send fails.  It may find the send buffer full
\* then, and waits for another round.
Served ==
    \A s \in Streams :
        CanSend(s, TRUE) ~> turn = s \/ ~CanSend(s, TRUE) \/ IsBlocked
                            \/ s \in failed

=============================================================================
