------------------------------ MODULE QStream ------------------------------
(***************************************************************************)
(* One QUIC stream as the Go side sees it: type QStream of                 *)
(* quiclylib/stream.go.  The application's goroutines call Write, Read and *)
(* Close; the goroutine flushToStream carries what was written to the C    *)
(* engine; the engine's callbacks (OnReceived, OnSentBytes,                *)
(* OnAckedSentBytes, OnClosed) run one at a time, under the engine's       *)
(* global_lock.  A byte is the number of its position in its direction, so *)
(* an order, a gap or a duplicate shows.                                   *)
(*                                                                         *)
(* The engine is modelled by what the bindings do with it: "open" while    *)
(* the connection is mapped and the stream's sending side is open, "reset" *)
(* once the sending side is closed (the stream is told: OnClosed), "lost"  *)
(* once the connection's map entry is gone (nobody is told any more).      *)
(***************************************************************************)
EXTENDS Integers, Sequences, FiniteSets, SequencesExt

CONSTANTS
    Writers,      \* goroutines of the application that call Write
    WriteSizes,   \* lengths of the buffers given to Write
    ReadSizes,    \* lengths of the buffers given to Read
    ReadSlack,    \* cap(buffer) - len(buffer) of the buffers given to Read
    FlushMax,     \* most bytes a flush takes (32*1024 in the code)
    SentCap,      \* capacity of sentBytesCh (512 in the code)
    UpdateCap,    \* capacity of bufferUpdateCh (512 in the code)
    CounterMod,   \* the byte counters are computed modulo this (2^64)
    MaxWritten,   \* bound: bytes the application writes
    MaxResent,    \* bound: bytes the engine sends again
    MaxReceived   \* bound: bytes the peer sends

ASSUME QStreamAssumption ==
    /\ WriteSizes \subseteq Nat
    /\ ReadSizes \subseteq Nat
    /\ ReadSlack \subseteq Nat
    /\ FlushMax \in Nat \ {0}
    /\ SentCap \in Nat \ {0}
    /\ UpdateCap \in Nat \ {0}
    /\ CounterMod \in Nat \ {0}
    /\ MaxWritten \in Nat /\ MaxResent \in Nat /\ MaxReceived \in Nat

VARIABLES
    closed,       \* s.closed
    engine,       \* "open", "reset" or "lost"
    \* --- sending ---
    written,      \* history: every byte Write accepted
    outBuf,       \* s.streamOutBuf
    chunk,        \* the bytes the flusher took and has not handed over
    flushed,      \* history: every byte passed to QuiclyWriteStream
    handed,       \* history: those the engine took for transmission
    emitted,      \* how many of them the engine has sent at least once
    sentBytes,    \* s.sentBytes (a retransmission counts again)
    ackedBytes,   \* s.ackedBytes
    sendTokens,   \* tokens in s.sentBytesCh
    flPc,         \* where flushToStream is
    wrPc,         \* where each writer is
    wrLen,        \* length of the buffer each writer passed
    wrDeadline,   \* s.writeDeadline is not zero
    \* --- receiving ---
    received,     \* history: every byte OnReceived accepted
    inBuf,        \* s.streamInBuf
    updTokens,    \* tokens in s.bufferUpdateCh
    notifiers,    \* goroutines of OnReceived about to send a token
    rdPc,         \* where the reader is
    rdLen, rdCap, \* len and cap of the buffer passed to Read
    rdBuf,        \* what this Read has put in it so far
    returned,     \* history: every byte a Read returned
    dropped,      \* history: bytes a Read took and returned 0 for
    \* --- closing ---
    clPc,         \* where Close is
    clWritten,    \* history: bytes written when Close was called
    clUnsent      \* history: Sync returned because nothing was sent yet

sendVars == <<written, outBuf, chunk, flushed, handed, sendTokens, flPc>>
callVars == <<wrPc, wrLen, wrDeadline>>
wireVars == <<emitted, sentBytes, ackedBytes>>
recvVars == <<received, inBuf, updTokens, notifiers,
              rdPc, rdLen, rdCap, rdBuf, returned, dropped>>
closeVars == <<clPc, clWritten, clUnsent>>
vars == <<closed, engine, sendVars, callVars, wireVars, recvVars, closeVars>>

Lesser(a, b) == IF a < b THEN a ELSE b
Taken(buf, n) == SubSeq(buf, 1, Lesser(n, Len(buf)))
\* Defect: the rest starts with the last byte taken.
RestOverlap(buf, n) == SubSeq(buf, Lesser(n, Len(buf)), Len(buf))
Rest(buf, n)  == SubSeq(buf, Lesser(n, Len(buf)) + 1, Len(buf))

\* The bytes numbered from+1 to from+n.
Fresh(from, n) == [i \in 1..n |-> from + i]

writtenBytes == Len(written)     \* s.writtenBytes, counted with the append

Init ==
    /\ closed = FALSE
    /\ engine = "open"
    /\ written = <<>> /\ outBuf = <<>> /\ chunk = <<>>
    /\ flushed = <<>> /\ handed = <<>>
    /\ emitted = 0 /\ sentBytes = 0 /\ ackedBytes = 0
    /\ sendTokens = 0
    /\ flPc = "top"
    /\ wrPc = [w \in Writers |-> "idle"]
    /\ wrLen = [w \in Writers |-> 0]
    /\ wrDeadline = FALSE
    /\ received = <<>> /\ inBuf = <<>> /\ returned = <<>> /\ dropped = <<>>
    /\ updTokens = 0 /\ notifiers = 0
    /\ rdPc = "idle" /\ rdLen = 0 /\ rdCap = 0 /\ rdBuf = <<>>
    /\ clPc = "idle" /\ clWritten = 0 /\ clUnsent = FALSE

-----------------------------------------------------------------------------
(* Write *)

\* A closed stream refuses the call; between this test and the append the
\* stream may still close.
WriteCall(w, n) ==
    /\ wrPc[w] = "idle"
    /\ ~closed
    /\ writtenBytes + n <= MaxWritten
    /\ wrPc' = [wrPc EXCEPT ![w] = "append"]
    /\ wrLen' = [wrLen EXCEPT ![w] = n]
    /\ UNCHANGED <<closed, engine, sendVars, wireVars, recvVars, closeVars,
                   wrDeadline>>

\* The append under outBufferLock, then the select: time.After of
\* Now - writeDeadline fires sooner or later for any deadline but the zero
\* one, for which it is centuries away.
WriteAppend(w) ==
    LET data == Fresh(writtenBytes, wrLen[w]) IN
    /\ wrPc[w] = "append"
    /\ writtenBytes + wrLen[w] <= MaxWritten
    /\ written' = written \o data
    /\ outBuf' = outBuf \o data
    /\ wrPc' = [wrPc EXCEPT ![w] = IF wrDeadline THEN "timed" ELSE "wait"]
    /\ UNCHANGED <<closed, engine, chunk, flushed, handed, sendTokens, flPc,
                   wrLen, wrDeadline, wireVars, recvVars, closeVars>>

WriteToken(w) ==
    /\ wrPc[w] \in {"wait", "timed"}
    /\ sendTokens > 0
    /\ sendTokens' = sendTokens - 1
    /\ wrPc' = [wrPc EXCEPT ![w] = "idle"]
    /\ UNCHANGED <<closed, engine, written, outBuf, chunk, flushed, handed,
                   flPc, wrLen, wrDeadline, wireVars, recvVars, closeVars>>

WriteTimeout(w) ==
    /\ wrPc[w] = "timed"
    /\ wrPc' = [wrPc EXCEPT ![w] = "idle"]
    /\ UNCHANGED <<closed, engine, sendVars, wrLen, wrDeadline, wireVars,
                   recvVars, closeVars>>

\* SetDeadline or SetWriteDeadline, with the zero time or another.
SetWriteDeadline ==
    /\ wrDeadline' = ~wrDeadline
    /\ UNCHANGED <<closed, engine, sendVars, wrPc, wrLen, wireVars, recvVars,
                   closeVars>>

-----------------------------------------------------------------------------
(* flushToStream *)

FlushTop ==
    /\ flPc = "top"
    /\ flPc' = IF closed THEN "done" ELSE "tick"
    /\ UNCHANGED <<closed, engine, written, outBuf, chunk, flushed, handed,
                   sendTokens, callVars, wireVars, recvVars, closeVars>>

\* A millisecond later: nothing to send, or the pop under outBufferLock.
FlushEmpty ==
    /\ flPc = "tick"
    /\ outBuf = <<>>
    /\ flPc' = "top"
    /\ UNCHANGED <<closed, engine, written, outBuf, chunk, flushed, handed,
                   sendTokens, callVars, wireVars, recvVars, closeVars>>

\* Defect: the pop leaves the bytes in the buffer.
FlushPeek ==
    /\ flPc = "tick"
    /\ outBuf # <<>>
    /\ chunk' = Taken(outBuf, FlushMax)
    /\ flPc' = "have"
    /\ UNCHANGED <<closed, engine, written, outBuf, flushed, handed, sendTokens,
                   callVars, wireVars, recvVars, closeVars>>

FlushPop ==
    /\ flPc = "tick"
    /\ outBuf # <<>>
    /\ chunk' = Taken(outBuf, FlushMax)
    /\ outBuf' = Rest(outBuf, FlushMax)
    /\ flPc' = "have"
    /\ UNCHANGED <<closed, engine, written, flushed, handed, sendTokens,
                   callVars, wireVars, recvVars, closeVars>>

\* The stream closed since: the flusher ends and its chunk goes nowhere.
FlushCheck ==
    /\ flPc = "have"
    /\ flPc' = IF closed THEN "done" ELSE "call"
    /\ UNCHANGED <<closed, engine, written, outBuf, chunk, flushed, handed,
                   sendTokens, callVars, wireVars, recvVars, closeVars>>

\* Defect: a write the engine refuses is skipped, and its token with it.
FlushWriteSkip ==
    /\ flPc = "call"
    /\ flushed' = flushed \o chunk
    /\ handed' = IF engine = "open" THEN handed \o chunk ELSE handed
    /\ chunk' = <<>>
    /\ flPc' = IF engine = "open" THEN "push" ELSE "top"
    /\ UNCHANGED <<closed, engine, written, outBuf, sendTokens, callVars,
                   wireVars, recvVars, closeVars>>

\* QuiclyWriteStream: an engine whose sending side is closed answers OK and
\* takes nothing, a lost one answers an error that is only logged.
FlushWrite ==
    /\ flPc = "call"
    /\ flushed' = flushed \o chunk
    /\ handed' = IF engine = "open" THEN handed \o chunk ELSE handed
    /\ chunk' = <<>>
    /\ flPc' = IF (ackedBytes - sentBytes) % CounterMod > ackedBytes \div 2
               THEN "sync" ELSE "push"
    /\ UNCHANGED <<closed, engine, written, outBuf, sendTokens, callVars,
                   wireVars, recvVars, closeVars>>

\* Defect: the comparison is the other way round.
FlushSyncSwapped ==
    /\ flPc = "sync"
    /\ closed \/ ~(writtenBytes > 0 /\ sentBytes > 0 /\ sentBytes > ackedBytes)
    /\ flPc' = "push"
    /\ UNCHANGED <<closed, engine, written, outBuf, chunk, flushed, handed,
                   sendTokens, callVars, wireVars, recvVars, closeVars>>

\* waitSentBytes spins while more is acknowledged than was sent.
FlushSync ==
    /\ flPc = "sync"
    /\ closed \/ ~(writtenBytes > 0 /\ sentBytes > 0 /\ sentBytes < ackedBytes)
    /\ flPc' = "push"
    /\ UNCHANGED <<closed, engine, written, outBuf, chunk, flushed, handed,
                   sendTokens, callVars, wireVars, recvVars, closeVars>>

\* The token for a writer; a full channel blocks the flusher.
FlushPush ==
    /\ flPc = "push"
    /\ sendTokens < SentCap
    /\ sendTokens' = sendTokens + 1
    /\ flPc' = "top"
    /\ UNCHANGED <<closed, engine, written, outBuf, chunk, flushed, handed,
                   callVars, wireVars, recvVars, closeVars>>

Flush == FlushTop \/ FlushEmpty \/ FlushPop \/ FlushCheck \/ FlushWrite
         \/ FlushSync \/ FlushPush

-----------------------------------------------------------------------------
(* The engine's callbacks, and what the engine does between them *)

\* on_sent_bytes: n new bytes leave in packets.
EngineSend(n) ==
    /\ engine # "lost"
    /\ emitted + n <= Len(handed)
    /\ emitted' = emitted + n
    /\ sentBytes' = sentBytes + n
    /\ UNCHANGED <<closed, engine, ackedBytes, sendVars, callVars, recvVars,
                   closeVars>>

\* on_sent_bytes again, for bytes no acknowledgement has come for.
EngineResend(n) ==
    /\ engine # "lost"
    /\ n <= emitted - ackedBytes
    /\ sentBytes + n - emitted <= MaxResent
    /\ sentBytes' = sentBytes + n
    /\ UNCHANGED <<closed, engine, emitted, ackedBytes, sendVars, callVars,
                   recvVars, closeVars>>

\* on_acked_sent_bytes
EngineAck(n) ==
    /\ engine # "lost"
    /\ ackedBytes + n <= emitted
    /\ ackedBytes' = ackedBytes + n
    /\ UNCHANGED <<closed, engine, emitted, sentBytes, sendVars, callVars,
                   recvVars, closeVars>>

\* The peer stops or resets the stream, or the engine destroys it: OnClosed,
\* once, because the sending side is closed with it.
OnClosed ==
    /\ engine = "open"
    /\ engine' = "reset"
    /\ closed' = TRUE
    /\ UNCHANGED <<sendVars, callVars, wireVars, recvVars, closeVars>>

\* The connection leaves the engine's map; no callback reaches the stream.
EngineLose ==
    /\ engine # "lost"
    /\ engine' = "lost"
    /\ UNCHANGED <<closed, sendVars, callVars, wireVars, recvVars, closeVars>>

\* Defect: only a reader already asleep is woken.
OnReceivedSignal(n) ==
    LET data == Fresh(Len(received), n) IN
    /\ engine # "lost"
    /\ ~closed
    /\ Len(received) + n <= MaxReceived
    /\ received' = received \o data
    /\ inBuf' = inBuf \o data
    /\ notifiers' = notifiers + (IF rdPc = "select" THEN 1 ELSE 0)
    /\ UNCHANGED <<closed, engine, updTokens, rdPc, rdLen, rdCap, rdBuf,
                   returned, dropped, sendVars, callVars, wireVars, closeVars>>

\* OnReceived drops the data of a closed stream, else appends it under
\* inBufferLock and starts a goroutine to send the token.
OnReceived(n) ==
    LET data == Fresh(Len(received), n) IN
    /\ engine # "lost"
    /\ ~closed
    /\ Len(received) + n <= MaxReceived
    /\ received' = received \o data
    /\ inBuf' = inBuf \o data
    /\ notifiers' = notifiers + 1
    /\ UNCHANGED <<closed, engine, updTokens, rdPc, rdLen, rdCap, rdBuf,
                   returned, dropped, sendVars, callVars, wireVars, closeVars>>

Notify ==
    /\ notifiers > 0
    /\ updTokens < UpdateCap
    /\ notifiers' = notifiers - 1
    /\ updTokens' = updTokens + 1
    /\ UNCHANGED <<closed, engine, received, inBuf, rdPc, rdLen, rdCap, rdBuf,
                   returned, dropped, sendVars, callVars, wireVars, closeVars>>

-----------------------------------------------------------------------------
(* Read *)

ReadCall(len, cap) ==
    /\ rdPc = "idle"
    /\ ~closed
    /\ rdLen' = len /\ rdCap' = cap
    /\ rdPc' = "quick"
    /\ UNCHANGED <<closed, engine, received, inBuf, updTokens, notifiers, rdBuf,
                   returned, dropped, sendVars, callVars, wireVars, closeVars>>

room == rdLen - Len(rdBuf)       \* len(buffRd[total:])

\* Defect: every take starts again at the front of the caller's buffer.
ReadTakeFront(return) ==
    LET data == Taken(inBuf, room) \o rdBuf IN
    /\ inBuf' = Rest(inBuf, room)
    /\ IF return
       THEN /\ returned' = returned \o data
            /\ rdBuf' = <<>>
            /\ rdPc' = "idle"
       ELSE /\ rdBuf' = data
            /\ rdPc' = "loop"
            /\ UNCHANGED returned

\* streamInBuf.Read(buffRd[total:]) under inBufferLock; the call returns
\* what it has when `return` holds.
ReadTake(return) ==
    LET data == rdBuf \o Taken(inBuf, room) IN
    /\ inBuf' = Rest(inBuf, room)
    /\ IF return
       THEN /\ returned' = returned \o data
            /\ rdBuf' = <<>>
            /\ rdPc' = "idle"
       ELSE /\ rdBuf' = data
            /\ rdPc' = "loop"
            /\ UNCHANGED returned

total == Len(rdBuf) + Lesser(room, Len(inBuf))

ReadQuick ==
    /\ rdPc = "quick"
    /\ ReadTake(inBuf # <<>> /\ total >= rdCap)
    /\ UNCHANGED <<closed, engine, received, updTokens, notifiers, rdLen, rdCap,
                   dropped, sendVars, callVars, wireVars, closeVars>>

\* The head of the loop: a stream closed meanwhile returns 0 bytes, and what
\* this call had already taken is gone.
ReadLoop ==
    /\ rdPc = "loop"
    /\ IF closed
       THEN /\ rdPc' = "idle"
            /\ dropped' = dropped \o rdBuf
            /\ rdBuf' = <<>>
       ELSE /\ rdPc' = "select"
            /\ UNCHANGED <<dropped, rdBuf>>
    /\ UNCHANGED <<closed, engine, received, inBuf, updTokens, notifiers, rdLen,
                   rdCap, returned, sendVars, callVars, wireVars, closeVars>>

ReadToken ==
    /\ rdPc = "select"
    /\ updTokens > 0
    /\ updTokens' = updTokens - 1
    /\ rdPc' = "got"
    /\ UNCHANGED <<closed, engine, received, inBuf, notifiers, rdLen, rdCap,
                   rdBuf, returned, dropped, sendVars, callVars, wireVars,
                   closeVars>>

ReadGot ==
    /\ rdPc = "got"
    /\ ReadTake(total = rdCap)
    /\ UNCHANGED <<closed, engine, received, updTokens, notifiers, rdLen, rdCap,
                   dropped, sendVars, callVars, wireVars, closeVars>>

\* Defect: a timeout answers 0 bytes, whatever was taken before it.
ReadTimeoutEmpty ==
    /\ rdPc = "select"
    /\ rdPc' = "idle"
    /\ rdBuf' = <<>>
    /\ UNCHANGED <<closed, engine, received, inBuf, updTokens, notifiers, rdLen,
                   rdCap, returned, dropped, sendVars, callVars, wireVars,
                   closeVars>>

\* Defect: a Read that has nothing at its deadline waits for another one.
ReadTimeoutAgain ==
    /\ rdPc = "select"
    /\ ReadTake(total > 0)
    /\ UNCHANGED <<closed, engine, received, updTokens, notifiers, rdLen, rdCap,
                   dropped, sendVars, callVars, wireVars, closeVars>>

\* The read deadline is never unlimited: 3 seconds unless one is set.
ReadTimeout ==
    /\ rdPc = "select"
    /\ ReadTake(TRUE)
    /\ UNCHANGED <<closed, engine, received, updTokens, notifiers, rdLen, rdCap,
                   dropped, sendVars, callVars, wireVars, closeVars>>

ReadStep == ReadQuick \/ ReadLoop \/ ReadToken \/ ReadGot \/ ReadTimeout

-----------------------------------------------------------------------------
(* Close *)

CloseCall ==
    /\ clPc = "idle"
    /\ ~closed
    /\ clPc' = "sync"
    /\ clWritten' = writtenBytes
    /\ UNCHANGED <<closed, engine, clUnsent, sendVars, callVars, wireVars,
                   recvVars>>

\* Defect: Sync waits for the bytes to be sent, not acknowledged.
CloseSyncSent ==
    /\ clPc = "sync"
    /\ ~(writtenBytes > 0 /\ sentBytes > 0 /\ writtenBytes > sentBytes)
    /\ clUnsent' = (sentBytes = 0)
    /\ clPc' = "reset"
    /\ UNCHANGED <<closed, engine, clWritten, sendVars, callVars, wireVars,
                   recvVars>>

\* Sync: wait until all is acknowledged, unless nothing has been sent.
CloseSync ==
    /\ clPc = "sync"
    /\ ~(writtenBytes > 0 /\ sentBytes > 0 /\ writtenBytes > ackedBytes)
    /\ clUnsent' = (sentBytes = 0)
    /\ clPc' = "reset"
    /\ UNCHANGED <<closed, engine, clWritten, sendVars, callVars, wireVars,
                   recvVars>>

\* Defect: the reset of the sending side is not reported to the stream.
CloseResetSilent ==
    /\ clPc = "reset"
    /\ engine' = IF engine = "open" THEN "reset" ELSE engine
    /\ clPc' = "wait"
    /\ UNCHANGED <<closed, clWritten, clUnsent, sendVars, callVars, wireVars,
                   recvVars>>

\* QuiclyCloseStream resets the stream and calls back OnClosed if its sending
\* side is still open; the flush that follows leaves no trace here.
CloseReset ==
    /\ clPc = "reset"
    /\ engine' = IF engine = "open" THEN "reset" ELSE engine
    /\ closed' = (closed \/ engine = "open")
    /\ clPc' = "wait"
    /\ UNCHANGED <<clWritten, clUnsent, sendVars, callVars, wireVars, recvVars>>

CloseReturn ==
    /\ clPc = "wait"
    /\ closed
    /\ clPc' = "done"
    /\ UNCHANGED <<closed, engine, clWritten, clUnsent, sendVars, callVars,
                   wireVars, recvVars>>

CloseStep == CloseSync \/ CloseReset \/ CloseReturn

-----------------------------------------------------------------------------
WriteStep(w) == WriteAppend(w) \/ WriteToken(w) \/ WriteTimeout(w)

Next ==
    \/ \E w \in Writers : WriteStep(w) \/ \E n \in WriteSizes : WriteCall(w, n)
    \/ SetWriteDeadline
    \/ Flush
    \/ \E n \in 1..MaxWritten :
          EngineSend(n) \/ EngineResend(n) \/ EngineAck(n)
    \/ OnClosed
    \/ EngineLose
    \/ \E n \in 1..MaxReceived : OnReceived(n)
    \/ Notify
    \/ \E n \in ReadSizes, k \in ReadSlack : ReadCall(n, n + k)
    \/ ReadStep
    \/ CloseCall
    \/ CloseStep

Spec == Init /\ [][Next]_vars

\* What the Go runtime schedules: every started goroutine runs, every timer
\* that is armed fires.
GoFairness ==
    /\ WF_vars(Flush)
    /\ WF_vars(Notify)
    /\ WF_vars(ReadStep)
    /\ SF_vars(ReadTimeout)
    /\ WF_vars(CloseStep)
    /\ \A w \in Writers : WF_vars(WriteStep(w))

\* What QUIC promises while the connection lives: data is sent and
\* acknowledged in the end.
WireFairness ==
    /\ WF_vars(\E n \in 1..MaxWritten : EngineSend(n))
    /\ WF_vars(\E n \in 1..MaxWritten : EngineAck(n))

FairSpec == Spec /\ GoFairness /\ WireFairness

-----------------------------------------------------------------------------
(* Safety *)

SendTypes ==
    /\ written \in Seq(Nat) /\ outBuf \in Seq(Nat) /\ chunk \in Seq(Nat)
    /\ flushed \in Seq(Nat) /\ handed \in Seq(Nat)
    /\ sendTokens \in 0..SentCap
    /\ flPc \in {"top", "tick", "have", "call", "sync", "push", "done"}

CallTypes ==
    /\ wrPc \in [Writers -> {"idle", "append", "wait", "timed"}]
    /\ wrLen \in [Writers -> WriteSizes \cup {0}]
    /\ wrDeadline \in BOOLEAN

WireTypes == emitted \in Nat /\ sentBytes \in Nat /\ ackedBytes \in Nat

RecvTypes ==
    /\ received \in Seq(Nat) /\ inBuf \in Seq(Nat) /\ rdBuf \in Seq(Nat)
    /\ returned \in Seq(Nat) /\ dropped \in Seq(Nat)
    /\ updTokens \in 0..UpdateCap
    /\ notifiers \in Nat
    /\ rdPc \in {"idle", "quick", "loop", "select", "got"}
    /\ rdLen \in Nat /\ rdCap \in Nat

CloseTypes ==
    /\ clPc \in {"idle", "sync", "reset", "wait", "done"}
    /\ clWritten \in Nat
    /\ clUnsent \in BOOLEAN

\* Every variable holds a value of its kind, and no channel more than its
\* capacity.
TypeOK ==
    /\ closed \in BOOLEAN /\ engine \in {"open", "reset", "lost"}
    /\ SendTypes /\ CallTypes /\ WireTypes /\ RecvTypes /\ CloseTypes

\* The engine transmits a prefix of what the application wrote, in order and
\* without a gap, even after the stream was reset or the connection lost
\* under the flusher's feet; and while the engine takes data, every other
\* byte is still in the flusher's hand or in the buffer.
EgressNoGap ==
    /\ IsPrefix(handed, written)
    /\ engine = "open" => handed \o chunk \o outBuf = written

\* Read returns a prefix of what the peer sent, across quick reads, wake-ups,
\* timeouts and buffers with spare capacity; until the stream closes, every
\* other byte is in the current Read's buffer or in the stream's.
IngressNoGap ==
    /\ IsPrefix(returned, received)
    /\ ~closed => returned \o rdBuf \o inBuf = received

\* A reader asleep in its select with room in its buffer has been, or is
\* about to be, sent a token for the bytes that wait: no wake-up is lost.
ReaderWakeup ==
    rdPc \in {"loop", "select"} /\ room > 0 /\ inBuf # <<>>
        => updTokens + notifiers > 0

\* A lone writer without a deadline whose buffer was not empty is never
\* stranded while the stream is open: its bytes are still to be flushed, or
\* being flushed, or its token is there.
WriterWakeup ==
    \A w \in Writers :
        /\ Writers = {w}
        /\ wrPc[w] = "wait"
        /\ wrLen[w] > 0
        /\ ~closed
        => \/ sendTokens > 0
           \/ outBuf # <<>>
           \/ flPc \in {"have", "call", "sync", "push"}

\* Close resets the stream only when the peer has acknowledged all that was
\* written before the call, or when nothing at all had been sent.
CloseAfterAck ==
    clPc \in {"reset", "wait", "done"} /\ ~clUnsent => ackedBytes >= clWritten

\* What the engine transmits and acknowledges bounds the counters: nothing is
\* acknowledged that was not sent, so neither waitSentBytes nor the unsigned
\* subtraction before it can hold the flusher.
CountersOrdered ==
    /\ ackedBytes <= emitted
    /\ emitted <= sentBytes
    /\ emitted <= Len(handed)

-----------------------------------------------------------------------------
(* The abstract specifications this module implements *)

Egress == INSTANCE BytePipe
            WITH in <- written, out <- handed, up <- engine = "open"
Ingress == INSTANCE BytePipe
            WITH in <- received, out <- returned, up <- ~closed

\* The sending direction, from Write to the engine, is a FIFO byte pipe.
EgressIsPipe == Egress!Spec

\* The receiving direction, from the engine's callback to Read, is a FIFO
\* byte pipe.
IngressIsPipe == Ingress!Spec

-----------------------------------------------------------------------------
(* Liveness *)

\* Every Read returns: with a full buffer, at its deadline or at the close.
ReadReturns == rdPc # "idle" ~> rdPc = "idle"

\* Written bytes reach the engine unless the stream closes or the flusher is
\* stuck on a channel full of tokens no writer takes.
EgressProgress ==
    outBuf # <<>> ~> \/ outBuf = <<>>
                     \/ closed
                     \/ flPc = "push" /\ sendTokens = SentCap

\* A Write that waits returns, or the stream closes under it; with one writer
\* and buffers that are not empty.
WriteReturns ==
    \A w \in Writers :
        wrPc[w] \in {"wait", "timed"} /\ wrLen[w] > 0
            ~> wrPc[w] = "idle" \/ closed

\* Close hangs for ever only for one of three reasons: the connection left
\* the engine without a word to the stream; the stream was closed with bytes
\* that will never be acknowledged; the flusher is stuck on a full channel.
CloseReturns ==
    <>[](clPc \in {"sync", "reset", "wait"})
        => <>[](\/ engine = "lost"
                \/ closed /\ writtenBytes > ackedBytes
                \/ flPc = "push" /\ sendTokens = SentCap)

=============================================================================
