--------------------------- MODULE QStreamProofs ---------------------------
(***************************************************************************)
(* What holds of one stream for every buffer size, channel capacity and    *)
(* number of writers.                                                      *)
(***************************************************************************)
EXTENDS QStream, SequenceTheorems, TLAPS

USE DEF writtenBytes

-----------------------------------------------------------------------------
(* Lemmas about the helpers *)

\* Concatenation under another name: its definition stays closed in most
\* proofs, which then use only the facts of ByteSeq.
s ++ t == s \o t

\* Sequences of bytes under concatenation: closed, with a unit, associative,
\* with lengths that add.
LEMMA ByteSeq ==
    /\ <<>> \in Seq(Nat) /\ Len(<<>>) = 0
    /\ \A s \in Seq(Nat) : /\ Len(s) \in Nat
                           /\ s ++ <<>> = s /\ <<>> ++ s = s
                           /\ Len(s) = 0 => s = <<>>
    /\ \A s, t \in Seq(Nat) : s ++ t \in Seq(Nat) /\ Len(s ++ t) = Len(s) + Len(t)
    /\ \A s, t, u \in Seq(Nat) : (s ++ t) ++ u = s ++ (t ++ u)
<1>1. <<>> \in Seq(Nat) /\ Len(<<>>) = 0
  OBVIOUS
<1>2. ASSUME NEW s \in Seq(Nat)
      PROVE  /\ Len(s) \in Nat
             /\ s ++ <<>> = s /\ <<>> ++ s = s
             /\ Len(s) = 0 => s = <<>>
  BY LenProperties, ConcatEmptySeq, EmptySeq DEF ++
<1>3. ASSUME NEW s \in Seq(Nat), NEW t \in Seq(Nat)
      PROVE  s ++ t \in Seq(Nat) /\ Len(s ++ t) = Len(s) + Len(t)
  BY ConcatProperties DEF ++
<1>4. \A s, t, u \in Seq(Nat) : (s ++ t) ++ u = s ++ (t ++ u)
  BY ConcatAssociative DEF ++
<1>5. QED BY <1>1, <1>2, <1>3, <1>4

\* A buffer is what is taken from it followed by the rest.
LEMMA TakenRest ==
    ASSUME NEW s \in Seq(Nat), NEW n \in Nat
    PROVE  /\ Taken(s, n) \in Seq(Nat)
           /\ Rest(s, n) \in Seq(Nat)
           /\ Taken(s, n) ++ Rest(s, n) = s
<1> DEFINE m == Lesser(n, Len(s))
<1>1. m \in 0..Len(s)
  BY LenProperties DEF Lesser
<1>2. \A i \in 1..Len(s) : s[i] \in Nat
  BY ElementOfSeq
<1>3. Taken(s, n) \in Seq(Nat)
  BY <1>1, <1>2, SubSeqProperties DEF Taken
<1>4. Rest(s, n) \in Seq(Nat)
  BY <1>1, <1>2, SubSeqProperties DEF Rest
<1>5. SubSeq(s, 1, m) ++ SubSeq(s, m + 1, Len(s)) = SubSeq(s, 1, Len(s))
  <2> HIDE DEF m
  <2>1. /\ Len(s) \in Nat /\ 1 \in 1..Len(s) + 1
        /\ m \in 1 - 1..Len(s) /\ Len(s) \in m..Len(s)
    BY <1>1, LenProperties
  <2>2. QED BY <2>1, ConcatAdjacentSubSeq DEF ++
<1>6. QED
  BY <1>3, <1>4, <1>5, SubSeqFull DEF Taken, Rest, ++

\* New bytes are a sequence of numbers.
LEMMA FreshIsSeq ==
    ASSUME NEW from \in Nat, NEW n \in Nat
    PROVE  Fresh(from, n) \in Seq(Nat)
  BY DEF Fresh

\* A sequence is a prefix of itself with something after it.
LEMMA PrefixOfConcat ==
    ASSUME NEW s \in Seq(Nat), NEW t \in Seq(Nat)
    PROVE  IsPrefix(s, s ++ t)
<1>1. SubSeq(s, 1, Len(s)) = SubSeq(s ++ t, 1, Len(s))
  <2>1. CASE Len(s) = 0
    BY <2>1, SubSeqEmpty
  <2>2. CASE Len(s) # 0
    BY <2>2, SubSeqOfConcat1, LenProperties DEF ++
  <2>3. QED BY <2>1, <2>2
<1>2. QED
  BY <1>1, ConcatProperties, LenProperties DEF IsPrefix, ++

\* A prefix of a sequence is one followed by something, and conversely.
LEMMA PrefixIsConcat ==
    ASSUME NEW s \in Seq(Nat), NEW t \in Seq(Nat), IsPrefix(s, t)
    PROVE  \E u \in Seq(Nat) : t = s ++ u
<1> DEFINE u == SubSeq(t, Len(s) + 1, Len(t))
<1>1. Len(s) \in 0..Len(t)
  BY LenProperties DEF IsPrefix
<1>2. u \in Seq(Nat)
  BY <1>1, ElementOfSeq, SubSeqProperties
<1>3. SubSeq(t, 1, Len(s)) ++ u = SubSeq(t, 1, Len(t))
  <2>1. /\ Len(t) \in Nat /\ 1 \in 1..Len(t) + 1
        /\ Len(s) \in 1 - 1..Len(t) /\ Len(t) \in Len(s)..Len(t)
    BY <1>1, LenProperties
  <2>2. QED BY <2>1, ConcatAdjacentSubSeq DEF ++
<1>4. s = SubSeq(t, 1, Len(s))
  BY SubSeqFull DEF IsPrefix
<1>5. t = s ++ u
  BY <1>3, <1>4, SubSeqFull
<1>6. QED BY <1>2, <1>5

\* A prefix stays one when the longer sequence grows.
LEMMA PrefixGrows ==
    ASSUME NEW s \in Seq(Nat), NEW t \in Seq(Nat), NEW v \in Seq(Nat),
           IsPrefix(s, t)
    PROVE  IsPrefix(s, t ++ v)
<1>1. PICK u \in Seq(Nat) : t = s ++ u
  BY PrefixIsConcat
<1>2. t ++ v = s ++ (u ++ v)
  BY <1>1, ByteSeq
<1>3. u ++ v \in Seq(Nat)
  BY ByteSeq
<1>4. QED BY <1>2, <1>3, PrefixOfConcat

-----------------------------------------------------------------------------
(* Type correctness *)

\* A Read holds no more than its buffer has room for, and nothing before its
\* first take or after its return.
ReadRoom ==
    /\ Len(rdBuf) <= rdLen
    /\ rdPc \in {"idle", "quick"} => rdBuf = <<>>

TypeInv == TypeOK /\ ReadRoom

\* Taking what fits from the buffer moves bytes and loses none, whether the
\* call returns them or keeps them.
LEMMA ReadTakeMoves ==
    ASSUME RecvTypes, ReadRoom, NEW return, ReadTake(return)
    PROVE  /\ inBuf' \in Seq(Nat) /\ rdBuf' \in Seq(Nat)
           /\ returned' \in Seq(Nat)
           /\ returned' ++ (rdBuf' ++ inBuf') = returned ++ (rdBuf ++ inBuf)
           /\ \E u \in Seq(Nat) : returned' = returned ++ u
           /\ rdPc' \in {"idle", "loop"}
           /\ Len(rdBuf') <= rdLen
           /\ rdPc' = "idle" => rdBuf' = <<>>
<1> DEFINE take == Taken(inBuf, room)
           data == rdBuf ++ take
           rest == Rest(inBuf, room)
<1>1. /\ inBuf \in Seq(Nat) /\ rdBuf \in Seq(Nat) /\ returned \in Seq(Nat)
      /\ rdLen \in Nat /\ Len(rdBuf) \in Nat /\ Len(rdBuf) <= rdLen
  BY ByteSeq DEF RecvTypes, ReadRoom
<1>2. room \in Nat
  BY <1>1 DEF room
<1>3. take \in Seq(Nat) /\ rest \in Seq(Nat) /\ take ++ rest = inBuf
  BY <1>1, <1>2, TakenRest
<1>4. Len(take) <= room
  <2>1. /\ Lesser(room, Len(inBuf)) \in Nat
        /\ Lesser(room, Len(inBuf)) <= room
        /\ Lesser(room, Len(inBuf)) <= Len(inBuf)
    <3>1. Len(inBuf) \in Nat
      BY <1>1, LenProperties
    <3>2. QED BY <1>2, <3>1 DEF Lesser
  <2>2. \A i \in 1..Lesser(room, Len(inBuf)) : inBuf[i] \in Nat
    <3>1. Len(inBuf) \in Nat
      BY <1>1, LenProperties
    <3>2. QED BY <1>1, <2>1, <3>1, ElementOfSeq
  <2>3. Len(take) = IF 1 <= Lesser(room, Len(inBuf))
                    THEN Lesser(room, Len(inBuf)) - 1 + 1 ELSE 0
    BY <2>1, <2>2, SubSeqProperties DEF Taken
  <2>4. QED BY <2>1, <2>3, <1>2
<1> HIDE DEF take, rest
<1>5. data \in Seq(Nat) /\ Len(data) <= rdLen
  <2>1. data \in Seq(Nat) /\ Len(data) = Len(rdBuf) + Len(take)
    BY <1>1, <1>3, ByteSeq
  <2>2. Len(take) \in Nat
    BY <1>3, LenProperties
  <2>3. QED BY <1>1, <1>4, <2>1, <2>2 DEF room
<1>6. data ++ rest = rdBuf ++ inBuf
  BY <1>1, <1>3, ByteSeq
<1>7. inBuf' = rest
  BY DEF ReadTake, rest
<1>8. \/ returned' = returned ++ data /\ rdBuf' = <<>> /\ rdPc' = "idle"
      \/ returned' = returned /\ rdBuf' = data /\ rdPc' = "loop"
  BY DEF ReadTake, take, ++
<1> HIDE DEF data
<1>9. (returned ++ data) ++ rest = returned ++ (rdBuf ++ inBuf)
  <2>1. (returned ++ data) ++ rest = returned ++ (data ++ rest)
    BY <1>1, <1>3, <1>5, ByteSeq
  <2>2. QED BY <1>6, <2>1
<1>10. CASE returned' = returned ++ data /\ rdBuf' = <<>> /\ rdPc' = "idle"
  <2>1. returned' \in Seq(Nat) /\ rdBuf' \in Seq(Nat) /\ Len(rdBuf') = 0
    BY <1>1, <1>5, <1>10, ByteSeq
  <2>2. rdBuf' ++ inBuf' = rest
    BY <1>3, <1>7, <1>10, ByteSeq
  <2>3. returned' ++ (rdBuf' ++ inBuf') = returned ++ (rdBuf ++ inBuf)
    BY <1>9, <1>10, <2>2
  <2>4. \E u \in Seq(Nat) : returned' = returned ++ u
    BY <1>5, <1>10
  <2>5. inBuf' \in Seq(Nat) /\ Len(rdBuf') <= rdLen
    BY <1>1, <1>3, <1>7, <2>1
  <2>6. QED BY <1>10, <2>1, <2>3, <2>4, <2>5
<1>11. CASE returned' = returned /\ rdBuf' = data /\ rdPc' = "loop"
  <2>1. returned' = returned ++ <<>> /\ <<>> \in Seq(Nat)
    BY <1>1, <1>11, ByteSeq
  <2>2. returned' ++ (rdBuf' ++ inBuf') = returned ++ (rdBuf ++ inBuf)
    BY <1>6, <1>7, <1>11
  <2>3. QED BY <1>1, <1>3, <1>5, <1>7, <1>11, <2>1, <2>2
<1>12. QED BY <1>8, <1>10, <1>11

\* The groups of variables an action leaves alone keep their types.
LEMMA Untouched ==
    /\ SendTypes /\ UNCHANGED sendVars => SendTypes'
    /\ CallTypes /\ UNCHANGED callVars => CallTypes'
    /\ WireTypes /\ UNCHANGED wireVars => WireTypes'
    /\ RecvTypes /\ ReadRoom /\ UNCHANGED recvVars => RecvTypes' /\ ReadRoom'
    /\ CloseTypes /\ UNCHANGED closeVars => CloseTypes'
<1>1. SendTypes /\ UNCHANGED sendVars => SendTypes'
  BY DEF SendTypes, sendVars
<1>2. CallTypes /\ UNCHANGED callVars => CallTypes'
  BY DEF CallTypes, callVars
<1>3. WireTypes /\ UNCHANGED wireVars => WireTypes'
  BY DEF WireTypes, wireVars
<1>4. RecvTypes /\ ReadRoom /\ UNCHANGED recvVars => RecvTypes' /\ ReadRoom'
  BY DEF RecvTypes, ReadRoom, recvVars
<1>5. CloseTypes /\ UNCHANGED closeVars => CloseTypes'
  BY DEF CloseTypes, closeVars
<1>6. QED BY <1>1, <1>2, <1>3, <1>4, <1>5

\* Every step of Read keeps the types and the room.
LEMMA ReadStepTypes ==
    ASSUME RecvTypes, ReadRoom, ReadStep
    PROVE  RecvTypes' /\ ReadRoom'
<1>1. ASSUME NEW return, ReadTake(return),
             UNCHANGED <<received, notifiers, updTokens, rdLen, rdCap, dropped>>
      PROVE  RecvTypes' /\ ReadRoom'
  <2>1. /\ inBuf' \in Seq(Nat) /\ rdBuf' \in Seq(Nat)
        /\ returned' \in Seq(Nat)
        /\ rdPc' \in {"idle", "loop"}
        /\ Len(rdBuf') <= rdLen
        /\ rdPc' = "idle" => rdBuf' = <<>>
    BY <1>1, ReadTakeMoves
  <2>2. QED BY <1>1, <2>1 DEF RecvTypes, ReadRoom
<1>2. CASE ReadQuick
  BY <1>1, <1>2 DEF ReadQuick
<1>3. CASE ReadGot
  BY <1>1, <1>3 DEF ReadGot
<1>4. CASE ReadTimeout
  BY <1>1, <1>4 DEF ReadTimeout
<1>5. CASE ReadLoop
  <2>1. /\ dropped \in Seq(Nat) /\ rdBuf \in Seq(Nat) /\ rdLen \in Nat
        /\ dropped ++ rdBuf \in Seq(Nat) /\ <<>> \in Seq(Nat)
        /\ Len(<<>>) = 0 /\ Len(rdBuf) <= rdLen
    BY ByteSeq DEF RecvTypes, ReadRoom
  <2>2. /\ dropped' \in Seq(Nat)
        /\ rdBuf' \in Seq(Nat) /\ Len(rdBuf') <= rdLen
    <3>1. CASE closed
      <4>1. dropped' = dropped ++ rdBuf /\ rdBuf' = <<>>
        BY <1>5, <3>1 DEF ReadLoop, ++
      <4>2. QED BY <2>1, <4>1
    <3>2. CASE ~closed
      <4>1. dropped' = dropped /\ rdBuf' = rdBuf
        BY <1>5, <3>2 DEF ReadLoop
      <4>2. QED BY <2>1, <4>1
    <3>3. QED BY <3>1, <3>2
  <2>3. rdPc' = "idle" => rdBuf' = <<>>
    BY <1>5 DEF ReadLoop
  <2>4. QED BY <1>5, <2>2, <2>3 DEF ReadLoop, RecvTypes, ReadRoom
<1>6. CASE ReadToken
  BY <1>6, QStreamAssumption DEF ReadToken, RecvTypes, ReadRoom
<1>7. QED BY <1>2, <1>3, <1>4, <1>5, <1>6 DEF ReadStep

\* Every step keeps the types and the room.
LEMMA TypeStep == TypeInv /\ [Next]_vars => TypeInv'
<1> SUFFICES ASSUME TypeInv, [Next]_vars
             PROVE  TypeInv'
  OBVIOUS
<1> USE DEF TypeInv, TypeOK
<1>1. ASSUME NEW w \in Writers, NEW n \in WriteSizes, WriteCall(w, n)
      PROVE  TypeInv'
  <2>1. CallTypes'
    BY <1>1 DEF WriteCall, CallTypes
  <2>2. QED BY <1>1, <2>1, Untouched DEF WriteCall
<1>2. ASSUME NEW w \in Writers, WriteAppend(w)
      PROVE  TypeInv'
  <2>1. wrLen[w] \in WriteSizes \cup {0}
    BY DEF CallTypes
  <2>2. Fresh(writtenBytes, wrLen[w]) \in Seq(Nat)
    BY <2>1, FreshIsSeq, ByteSeq, QStreamAssumption DEF SendTypes
  <2>3. SendTypes'
    BY <1>2, <2>2, ByteSeq DEF WriteAppend, SendTypes, ++
  <2>4. CallTypes'
    BY <1>2 DEF WriteAppend, CallTypes
  <2>5. QED BY <1>2, <2>3, <2>4, Untouched DEF WriteAppend
<1>3. ASSUME NEW w \in Writers, WriteToken(w)
      PROVE  TypeInv'
  <2>1. SendTypes' /\ CallTypes'
    BY <1>3, QStreamAssumption DEF WriteToken, SendTypes, CallTypes
  <2>2. QED BY <1>3, <2>1, Untouched DEF WriteToken
<1>4. ASSUME NEW w \in Writers, WriteTimeout(w)
      PROVE  TypeInv'
  <2>1. CallTypes'
    BY <1>4 DEF WriteTimeout, CallTypes
  <2>2. QED BY <1>4, <2>1, Untouched DEF WriteTimeout
<1>5. CASE SetWriteDeadline
  <2>1. CallTypes'
    BY <1>5 DEF SetWriteDeadline, CallTypes
  <2>2. QED BY <1>5, <2>1, Untouched DEF SetWriteDeadline
<1>6. CASE Flush
  <2>1. /\ SendTypes'
        /\ UNCHANGED <<closed, engine, callVars, wireVars, recvVars, closeVars>>
    <3>1. CASE FlushTop
      BY <3>1 DEF FlushTop, SendTypes
    <3>2. CASE FlushEmpty
      BY <3>2 DEF FlushEmpty, SendTypes
    <3>3. CASE FlushPop
      BY <3>3, TakenRest, QStreamAssumption DEF FlushPop, SendTypes
    <3>4. CASE FlushCheck
      BY <3>4 DEF FlushCheck, SendTypes
    <3>5. CASE FlushWrite
      <4>1. flPc' \in {"sync", "push"}
        BY <3>5 DEF FlushWrite
      <4>2. QED BY <3>5, <4>1, ByteSeq DEF FlushWrite, SendTypes, ++
    <3>6. CASE FlushSync
      BY <3>6 DEF FlushSync, SendTypes
    <3>7. CASE FlushPush
      BY <3>7, QStreamAssumption DEF FlushPush, SendTypes
    <3>8. QED BY <1>6, <3>1, <3>2, <3>3, <3>4, <3>5, <3>6, <3>7 DEF Flush
  <2>2. QED BY <2>1, Untouched
<1>7. ASSUME NEW n \in 1..MaxWritten,
             EngineSend(n) \/ EngineResend(n) \/ EngineAck(n)
      PROVE  TypeInv'
  <2>1. WireTypes'
    BY <1>7 DEF EngineSend, EngineResend, EngineAck, WireTypes
  <2>2. UNCHANGED <<closed, engine, sendVars, callVars, recvVars, closeVars>>
    BY <1>7 DEF EngineSend, EngineResend, EngineAck
  <2>3. QED BY <2>1, <2>2, Untouched
<1>8. CASE OnClosed
  BY <1>8, Untouched DEF OnClosed
<1>9. CASE EngineLose
  BY <1>9, Untouched DEF EngineLose
<1>10. ASSUME NEW n \in 1..MaxReceived, OnReceived(n)
       PROVE  TypeInv'
  <2>1. Fresh(Len(received), n) \in Seq(Nat)
    BY ByteSeq, FreshIsSeq DEF RecvTypes
  <2>2. RecvTypes' /\ ReadRoom'
    BY <1>10, <2>1, ByteSeq DEF OnReceived, RecvTypes, ReadRoom, ++
  <2>3. QED BY <1>10, <2>2, Untouched DEF OnReceived
<1>11. CASE Notify
  <2>1. RecvTypes' /\ ReadRoom'
    BY <1>11, QStreamAssumption DEF Notify, RecvTypes, ReadRoom
  <2>2. QED BY <1>11, <2>1, Untouched DEF Notify
<1>12. ASSUME NEW n \in ReadSizes, NEW k \in ReadSlack, ReadCall(n, n + k)
       PROVE  TypeInv'
  <2>1. RecvTypes' /\ ReadRoom'
    BY <1>12, ByteSeq, QStreamAssumption
       DEF ReadCall, RecvTypes, ReadRoom
  <2>2. QED BY <1>12, <2>1, Untouched DEF ReadCall
<1>13. CASE ReadStep
  <2>1. UNCHANGED <<closed, engine, sendVars, callVars, wireVars, closeVars>>
    BY <1>13 DEF ReadStep, ReadQuick, ReadLoop, ReadToken, ReadGot, ReadTimeout
  <2>2. QED BY <1>13, <2>1, ReadStepTypes, Untouched
<1>14. CASE CloseCall \/ CloseStep
  <2>1. UNCHANGED <<sendVars, callVars, wireVars, recvVars>>
    BY <1>14 DEF CloseCall, CloseStep, CloseSync, CloseReset, CloseReturn
  <2>2. /\ CloseTypes' /\ closed' \in BOOLEAN
        /\ engine' \in {"open", "reset", "lost"}
    <3>1. writtenBytes \in Nat
      BY ByteSeq DEF SendTypes
    <3>2. QED
      BY <1>14, <3>1
         DEF CloseCall, CloseStep, CloseSync, CloseReset, CloseReturn, CloseTypes
  <2>3. QED BY <2>1, <2>2, Untouched
<1>15. CASE UNCHANGED vars
  BY <1>15, Untouched DEF vars
<1>16. QED
  BY <1>1, <1>2, <1>3, <1>4, <1>5, <1>6, <1>7, <1>8, <1>9, <1>10, <1>11, <1>12,
     <1>13, <1>14, <1>15 DEF Next, WriteStep

\* The initial values have the types and leave the room.
LEMMA InitTypes == Init => TypeInv
<1> SUFFICES ASSUME Init PROVE TypeInv
  OBVIOUS
<1>1. WireTypes /\ CloseTypes
  BY DEF Init, WireTypes, CloseTypes
<1>2. RecvTypes /\ ReadRoom
  BY ByteSeq, QStreamAssumption DEF Init, RecvTypes, ReadRoom
<1>3. SendTypes
  BY ByteSeq, QStreamAssumption DEF Init, SendTypes
<1>4. CallTypes
  BY DEF Init, CallTypes
<1>5. QED BY <1>1, <1>2, <1>3, <1>4 DEF Init, TypeInv, TypeOK

\* Every variable of a stream keeps its type, no channel overflows, and no
\* Read writes past the buffer it was given.
THEOREM TypeCorrect == Spec => [](TypeOK /\ ReadRoom)
  BY InitTypes, TypeStep, PTL DEF Spec, TypeInv

-----------------------------------------------------------------------------
(* The sending direction *)

\* Between the buffer, the flusher's hand and the engine every byte is in one
\* place, in order; the engine stops taking for ever the first time it
\* refuses; and an engine that takes data belongs to a stream that is open.
EgressInv ==
    /\ flushed ++ (chunk ++ outBuf) = written
    /\ IsPrefix(handed, flushed)
    /\ engine = "open" => handed = flushed /\ ~closed
    /\ flPc \in {"top", "tick", "sync", "push"} => chunk = <<>>

\* The steps that touch the sending direction; every other one leaves it.
LEMMA EgressSteps ==
    ASSUME [Next]_vars
    PROVE  \/ \E w \in Writers : WriteAppend(w)
           \/ Flush
           \/ OnClosed \/ EngineLose \/ CloseReset
           \/ UNCHANGED <<closed, engine, written, outBuf, chunk, flushed,
                          handed, flPc>>
<1>1. CASE UNCHANGED vars
  BY <1>1 DEF vars, sendVars
<1>2. ASSUME NEW w \in Writers, NEW n \in WriteSizes,
             WriteCall(w, n) \/ WriteToken(w) \/ WriteTimeout(w)
      PROVE  UNCHANGED <<closed, engine, written, outBuf, chunk, flushed,
                         handed, flPc>>
  BY <1>2 DEF WriteCall, WriteToken, WriteTimeout, sendVars
<1>3. ASSUME NEW w \in Writers, WriteToken(w) \/ WriteTimeout(w)
      PROVE  UNCHANGED <<closed, engine, written, outBuf, chunk, flushed,
                         handed, flPc>>
  BY <1>3 DEF WriteToken, WriteTimeout, sendVars
<1>4. ASSUME NEW n \in Nat, EngineSend(n) \/ EngineResend(n) \/ EngineAck(n)
      PROVE  UNCHANGED <<closed, engine, written, outBuf, chunk, flushed,
                         handed, flPc>>
  BY <1>4 DEF EngineSend, EngineResend, EngineAck, sendVars
<1>5. ASSUME NEW n, NEW m,
             \/ OnReceived(n) \/ ReadCall(n, m) \/ ReadStep \/ Notify
             \/ SetWriteDeadline \/ CloseCall \/ CloseSync \/ CloseReturn
      PROVE  UNCHANGED <<closed, engine, written, outBuf, chunk, flushed,
                         handed, flPc>>
  BY <1>5 DEF OnReceived, ReadCall, ReadStep, ReadQuick, ReadLoop, ReadToken,
              ReadGot, ReadTimeout, Notify, SetWriteDeadline, CloseCall,
              CloseSync, CloseReturn, sendVars
<1>6. QED
  BY <1>1, <1>2, <1>3, <1>4, <1>5 DEF Next, WriteStep, CloseStep

\* Write adds its bytes at the end.
LEMMA EgressAppend ==
    ASSUME TypeInv, EgressInv, NEW w \in Writers, WriteAppend(w)
    PROVE  flushed ++ (chunk ++ outBuf') = written'
<1>1. /\ written \in Seq(Nat) /\ outBuf \in Seq(Nat) /\ chunk \in Seq(Nat)
      /\ flushed \in Seq(Nat) /\ wrLen[w] \in WriteSizes \cup {0}
  BY DEF TypeInv, TypeOK, SendTypes, CallTypes
<1>2. Fresh(writtenBytes, wrLen[w]) \in Seq(Nat)
  BY <1>1, FreshIsSeq, ByteSeq, QStreamAssumption
<1>3. PICK data \in Seq(Nat) :
         written' = written ++ data /\ outBuf' = outBuf ++ data
  BY <1>2 DEF WriteAppend, ++
<1>4. flushed ++ (chunk ++ outBuf) = written
  BY DEF EgressInv
<1>5. PICK x \in Seq(Nat) : x = chunk ++ outBuf
  BY <1>1, ByteSeq
<1>6. x ++ data = chunk ++ (outBuf ++ data)
  BY <1>1, <1>5, ByteSeq
<1>7. (flushed ++ x) ++ data = flushed ++ (x ++ data)
  BY <1>1, <1>5, ByteSeq
<1>8. QED BY <1>3, <1>4, <1>5, <1>6, <1>7

\* Every step keeps each byte of the sending direction in one place.
LEMMA EgressStep ==
    ASSUME TypeInv, EgressInv, [Next]_vars
    PROVE  EgressInv'
<1> USE DEF EgressInv
<1>t. /\ written \in Seq(Nat) /\ outBuf \in Seq(Nat) /\ chunk \in Seq(Nat)
      /\ flushed \in Seq(Nat) /\ handed \in Seq(Nat)
  BY DEF TypeInv, TypeOK, SendTypes
<1>1. ASSUME NEW w \in Writers, WriteAppend(w)
      PROVE  EgressInv'
  BY <1>1, EgressAppend DEF WriteAppend
<1>2. CASE Flush
  <2>1. CASE FlushTop \/ FlushEmpty \/ FlushSync \/ FlushPush
    <3>1. /\ UNCHANGED <<closed, engine, written, outBuf, chunk, flushed, handed>>
          /\ flPc \in {"top", "tick", "sync", "push"}
      BY <2>1 DEF FlushTop, FlushEmpty, FlushSync, FlushPush
    <3>2. QED BY <3>1
  <2>2. CASE FlushPop
    <3>1. chunk = <<>> /\ chunk' ++ outBuf' = outBuf
      BY <1>t, <2>2, TakenRest, QStreamAssumption DEF FlushPop
    <3>2. flushed' ++ (chunk' ++ outBuf') = written'
      BY <1>t, <2>2, <3>1, ByteSeq DEF FlushPop
    <3>3. QED BY <2>2, <3>2 DEF FlushPop
  <2>3. CASE FlushCheck
    BY <2>3 DEF FlushCheck
  <2>4. CASE FlushWrite
    <3>1. flushed' = flushed ++ chunk /\ chunk' = <<>> /\ outBuf' = outBuf
      BY <2>4 DEF FlushWrite, ++
    <3>2. flushed' \in Seq(Nat) /\ chunk' ++ outBuf' = outBuf
      BY <1>t, <3>1, ByteSeq
    <3>3. (flushed ++ chunk) ++ outBuf = flushed ++ (chunk ++ outBuf)
      BY <1>t, ByteSeq
    <3>4. flushed' ++ (chunk' ++ outBuf') = written
      BY <3>1, <3>2, <3>3
    <3>5. IsPrefix(handed, flushed')
      BY <1>t, <3>1, PrefixGrows
    <3>6. CASE engine = "open"
      <4>1. handed' = flushed'
        BY <2>4, <3>6 DEF FlushWrite, ++
      <4>2. IsPrefix(handed', flushed')
        BY <3>2, <4>1, ByteSeq DEF IsPrefix
      <4>3. QED BY <2>4, <3>1, <3>4, <4>1, <4>2 DEF FlushWrite
    <3>7. CASE engine # "open"
      <4>1. handed' = handed
        BY <2>4, <3>7 DEF FlushWrite
      <4>2. QED BY <2>4, <3>1, <3>4, <3>5, <3>7, <4>1 DEF FlushWrite
    <3>8. QED BY <3>6, <3>7
  <2>5. QED BY <1>2, <2>1, <2>2, <2>3, <2>4 DEF Flush
<1>3. CASE OnClosed \/ EngineLose \/ CloseReset
  BY <1>3 DEF OnClosed, EngineLose, CloseReset, sendVars
<1>4. CASE UNCHANGED <<closed, engine, written, outBuf, chunk, flushed, handed,
                       flPc>>
  BY <1>4
<1>5. QED BY <1>1, <1>2, <1>3, <1>4, EgressSteps

\* The engine transmits a prefix of what was written, without a gap, for
\* every flush size and number of writers, whenever the stream closes.
THEOREM EgressCorrect == Spec => []EgressNoGap
<1>1. Init => TypeInv /\ EgressInv
  <2>1. IsPrefix(<<>>, <<>>)
    BY ByteSeq DEF IsPrefix
  <2>2. QED BY <2>1, InitTypes, ByteSeq DEF Init, EgressInv
<1>2. TypeInv /\ EgressInv /\ [Next]_vars => TypeInv' /\ EgressInv'
  BY TypeStep, EgressStep
<1>3. TypeInv /\ EgressInv => EgressNoGap
  <2> SUFFICES ASSUME TypeInv, EgressInv PROVE EgressNoGap
    OBVIOUS
  <2>1. /\ outBuf \in Seq(Nat) /\ chunk \in Seq(Nat)
        /\ flushed \in Seq(Nat) /\ handed \in Seq(Nat)
    BY DEF TypeInv, TypeOK, SendTypes
  <2>2. chunk ++ outBuf \in Seq(Nat)
    BY <2>1, ByteSeq
  <2>3. IsPrefix(handed, written)
    BY <2>1, <2>2, PrefixGrows DEF EgressInv
  <2>4. engine = "open" => (handed ++ chunk) ++ outBuf = written
    <3>1. (flushed ++ chunk) ++ outBuf = flushed ++ (chunk ++ outBuf)
      BY <2>1, ByteSeq
    <3>2. QED BY <3>1 DEF EgressInv
  <2>5. QED BY <2>3, <2>4 DEF EgressNoGap, ++
<1>4. QED BY <1>1, <1>2, <1>3, PTL DEF Spec

-----------------------------------------------------------------------------
(* The receiving direction *)

\* What was returned, what a Read lost to the close, what it holds and what
\* waits are the bytes received, in order; only a close makes a Read lose.
IngressInv ==
    /\ returned ++ (dropped ++ (rdBuf ++ inBuf)) = received
    /\ dropped # <<>> => closed /\ rdPc = "idle"

\* The steps that touch the receiving direction; every other one leaves it.
LEMMA IngressSteps ==
    ASSUME [Next]_vars
    PROVE  \/ \E n \in 1..MaxReceived : OnReceived(n)
           \/ \E n \in ReadSizes, k \in ReadSlack : ReadCall(n, n + k)
           \/ ReadStep
           \/ Notify
           \/ UNCHANGED recvVars /\ (closed => closed')
<1>1. ASSUME UNCHANGED vars
      PROVE  UNCHANGED recvVars /\ (closed => closed')
  BY <1>1 DEF vars
<1>2. ASSUME NEW w \in Writers, NEW n \in WriteSizes, WriteCall(w, n)
      PROVE  UNCHANGED recvVars /\ (closed => closed')
  BY <1>2 DEF WriteCall
<1>3. ASSUME NEW w \in Writers, WriteStep(w)
      PROVE  UNCHANGED recvVars /\ (closed => closed')
  BY <1>3 DEF WriteStep, WriteAppend, WriteToken, WriteTimeout
<1>4. ASSUME NEW n, EngineSend(n) \/ EngineResend(n) \/ EngineAck(n)
      PROVE  UNCHANGED recvVars /\ (closed => closed')
  BY <1>4 DEF EngineSend, EngineResend, EngineAck
<1>5. ASSUME Flush
      PROVE  UNCHANGED recvVars /\ (closed => closed')
  BY <1>5 DEF Flush, FlushTop, FlushEmpty, FlushPop, FlushCheck, FlushWrite,
              FlushSync, FlushPush
<1>6. ASSUME SetWriteDeadline \/ OnClosed \/ EngineLose \/ CloseCall \/ CloseStep
      PROVE  UNCHANGED recvVars /\ (closed => closed')
  <2>1. CASE CloseReset
    <3>1. UNCHANGED recvVars
      BY <2>1 DEF CloseReset
    <3>2. closed => closed'
      BY <2>1, Zenon DEF CloseReset
    <3>3. QED BY <3>1, <3>2
  <2>2. CASE ~CloseReset
    BY <1>6, <2>2 DEF SetWriteDeadline, OnClosed, EngineLose, CloseCall,
                      CloseStep, CloseSync, CloseReturn
  <2>3. QED BY <2>1, <2>2
<1>7. QED BY <1>1, <1>2, <1>3, <1>4, <1>5, <1>6 DEF Next

\* Every step keeps the bytes of the receiving direction in order.
LEMMA IngressStep ==
    ASSUME TypeInv, IngressInv, [Next]_vars
    PROVE  IngressInv'
<1>t. /\ received \in Seq(Nat) /\ inBuf \in Seq(Nat) /\ rdBuf \in Seq(Nat)
      /\ returned \in Seq(Nat) /\ dropped \in Seq(Nat)
  BY DEF TypeInv, TypeOK, RecvTypes
<1>1. ASSUME NEW n \in 1..MaxReceived, OnReceived(n)
      PROVE  IngressInv'
  <2>1. Fresh(Len(received), n) \in Seq(Nat)
    BY <1>t, LenProperties, FreshIsSeq
  <2>2. PICK data \in Seq(Nat) :
           received' = received ++ data /\ inBuf' = inBuf ++ data
    BY <1>1, <2>1 DEF OnReceived, ++
  <2>3. dropped = <<>>
    BY <1>1 DEF OnReceived, IngressInv
  <2>4. returned ++ (rdBuf ++ inBuf) = received
    BY <1>t, <2>3, ByteSeq DEF IngressInv
  <2>5. PICK x \in Seq(Nat) : x = rdBuf ++ inBuf
    BY <1>t, ByteSeq
  <2>6. x ++ data = rdBuf ++ (inBuf ++ data)
    BY <1>t, <2>5, ByteSeq
  <2>7. (returned ++ x) ++ data = returned ++ (x ++ data)
    BY <1>t, <2>5, ByteSeq
  <2>8. returned ++ (rdBuf ++ inBuf') = received'
    BY <2>2, <2>4, <2>5, <2>6, <2>7
  <2>9. rdBuf ++ inBuf' \in Seq(Nat)
    BY <1>t, <2>2, ByteSeq
  <2>10. dropped ++ (rdBuf ++ inBuf') = rdBuf ++ inBuf'
    BY <2>3, <2>9, ByteSeq
  <2>11. UNCHANGED <<returned, dropped, rdBuf>>
    BY <1>1 DEF OnReceived
  <2>12. QED BY <2>3, <2>8, <2>10, <2>11 DEF IngressInv
<1>2. ASSUME NEW n \in ReadSizes, NEW k \in ReadSlack, ReadCall(n, n + k)
      PROVE  IngressInv'
  BY <1>2 DEF ReadCall, IngressInv
<1>3. CASE ReadStep
  <2>1. dropped = <<>>
    BY <1>3 DEF IngressInv, ReadStep, ReadQuick, ReadLoop, ReadToken, ReadGot,
                ReadTimeout, ReadTake
  <2>2. returned ++ (rdBuf ++ inBuf) = received
    BY <1>t, <2>1, ByteSeq DEF IngressInv
  <2>3. ASSUME NEW return, ReadTake(return), UNCHANGED <<received, dropped>>
        PROVE  IngressInv'
    <3>1. /\ inBuf' \in Seq(Nat) /\ rdBuf' \in Seq(Nat)
          /\ returned' ++ (rdBuf' ++ inBuf') = received
      BY <2>2, <2>3, ReadTakeMoves DEF TypeInv, TypeOK
    <3>2. dropped' ++ (rdBuf' ++ inBuf') = rdBuf' ++ inBuf'
      BY <2>1, <2>3, <3>1, ByteSeq
    <3>3. QED BY <2>1, <2>3, <3>1, <3>2 DEF IngressInv
  <2>4. CASE ReadQuick \/ ReadGot \/ ReadTimeout
    BY <2>3, <2>4 DEF ReadQuick, ReadGot, ReadTimeout
  <2>5. CASE ReadToken
    BY <2>5, <2>1 DEF ReadToken, IngressInv
  <2>6. CASE ReadLoop /\ closed
    <3>1. /\ dropped' = dropped ++ rdBuf /\ rdBuf' = <<>> /\ rdPc' = "idle"
          /\ UNCHANGED <<closed, received, inBuf, returned>>
      BY <2>6 DEF ReadLoop, ++
    <3>2. dropped' = rdBuf /\ rdBuf' ++ inBuf' = inBuf
      BY <1>t, <2>1, <3>1, ByteSeq
    <3>3. QED BY <2>2, <2>6, <3>1, <3>2 DEF IngressInv
  <2>7. CASE ReadLoop /\ ~closed
    BY <2>7, <2>1 DEF ReadLoop, IngressInv
  <2>8. QED BY <1>3, <2>4, <2>5, <2>6, <2>7 DEF ReadStep
<1>4. CASE Notify
  BY <1>4 DEF Notify, IngressInv
<1>5. CASE UNCHANGED recvVars /\ (closed => closed')
  BY <1>5 DEF recvVars, IngressInv
<1>6. QED BY <1>1, <1>2, <1>3, <1>4, <1>5, IngressSteps

\* Read returns a prefix of what was received, whatever the sizes of the
\* buffers and however Read, callbacks and close interleave.
THEOREM IngressCorrect == Spec => []IngressNoGap
<1>1. Init => TypeInv /\ IngressInv
  BY InitTypes, ByteSeq DEF Init, IngressInv
<1>2. TypeInv /\ IngressInv /\ [Next]_vars => TypeInv' /\ IngressInv'
  BY TypeStep, IngressStep
<1>3. TypeInv /\ IngressInv => IngressNoGap
  <2> SUFFICES ASSUME TypeInv, IngressInv PROVE IngressNoGap
    OBVIOUS
  <2>1. /\ inBuf \in Seq(Nat) /\ rdBuf \in Seq(Nat)
        /\ returned \in Seq(Nat) /\ dropped \in Seq(Nat)
    BY DEF TypeInv, TypeOK, RecvTypes
  <2>2. rdBuf ++ inBuf \in Seq(Nat) /\ dropped ++ (rdBuf ++ inBuf) \in Seq(Nat)
    BY <2>1, ByteSeq
  <2>3. IsPrefix(returned, received)
    BY <2>1, <2>2, PrefixOfConcat DEF IngressInv
  <2>4. ASSUME ~closed
        PROVE  (returned ++ rdBuf) ++ inBuf = received
    <3>1. dropped = <<>>
      BY <2>4 DEF IngressInv
    <3>2. returned ++ (rdBuf ++ inBuf) = received
      BY <2>2, <3>1, ByteSeq DEF IngressInv
    <3>3. (returned ++ rdBuf) ++ inBuf = returned ++ (rdBuf ++ inBuf)
      BY <2>1, ByteSeq
    <3>4. QED BY <3>2, <3>3
  <2>5. QED BY <2>3, <2>4 DEF IngressNoGap, ++
<1>4. QED BY <1>1, <1>2, <1>3, PTL DEF Spec

-----------------------------------------------------------------------------
(* Wake-ups *)

\* A take that leaves bytes behind has filled the caller's buffer.
LEMMA ReadTakeFills ==
    ASSUME RecvTypes, ReadRoom, NEW return, ReadTake(return),
           rdPc' = "loop", inBuf' # <<>>
    PROVE  rdLen - Len(rdBuf') = 0
<1>1. /\ inBuf \in Seq(Nat) /\ rdBuf \in Seq(Nat) /\ rdLen \in Nat
      /\ Len(rdBuf) \in Nat /\ Len(inBuf) \in Nat /\ room \in Nat
  <2>1. Len(rdBuf) \in Nat /\ Len(inBuf) \in Nat
    BY LenProperties DEF RecvTypes
  <2>2. QED BY <2>1 DEF RecvTypes, ReadRoom, room
<1>2. inBuf' = SubSeq(inBuf, Lesser(room, Len(inBuf)) + 1, Len(inBuf))
  BY DEF ReadTake, Rest
<1>3. room < Len(inBuf)
  <2> SUFFICES ASSUME ~(room < Len(inBuf)) PROVE FALSE
    OBVIOUS
  <2>1. Lesser(room, Len(inBuf)) = Len(inBuf)
    BY <1>1 DEF Lesser
  <2>2. inBuf' = <<>>
    BY <1>1, <1>2, <2>1, SubSeqEmpty
  <2>3. QED BY <2>2
<1>4. rdBuf' = rdBuf ++ SubSeq(inBuf, 1, room)
  <2>1. Lesser(room, Len(inBuf)) = room
    BY <1>3 DEF Lesser
  <2>2. QED BY <2>1 DEF ReadTake, Taken, ++
<1>5. SubSeq(inBuf, 1, room) \in Seq(Nat) /\ Len(SubSeq(inBuf, 1, room)) = room
  <2>1. \A i \in 1..room : inBuf[i] \in Nat
    BY <1>1, <1>3, ElementOfSeq
  <2>2. QED BY <1>1, <2>1, SubSeqProperties
<1>6. Len(rdBuf') = Len(rdBuf) + room
  <2>1. /\ rdBuf \in Seq(Nat) /\ SubSeq(inBuf, 1, room) \in Seq(Nat)
        /\ Len(SubSeq(inBuf, 1, room)) = room
    BY <1>1, <1>5
  <2>2. QED BY <2>1, <1>4, ConcatProperties DEF ++
<1>7. QED BY <1>1, <1>6 DEF room

\* A reader that sleeps while bytes wait that it has room for has a token, or
\* a goroutine that will send it one.
THEOREM ReaderCorrect == Spec => []ReaderWakeup
<1>1. Init => TypeInv /\ ReaderWakeup
  BY InitTypes DEF Init, ReaderWakeup
<1>2. ASSUME TypeInv, ReaderWakeup, [Next]_vars
      PROVE  ReaderWakeup'
  <2>t. /\ updTokens \in Nat /\ notifiers \in Nat /\ UpdateCap \in Nat
        /\ RecvTypes /\ ReadRoom
    <3>1. UpdateCap \in Nat
      BY QStreamAssumption
    <3>2. QED BY <1>2, <3>1 DEF TypeInv, TypeOK, RecvTypes
  <2>1. ASSUME NEW n \in 1..MaxReceived, OnReceived(n)
        PROVE  ReaderWakeup'
    BY <2>1, <2>t DEF OnReceived, ReaderWakeup
  <2>2. ASSUME NEW n \in ReadSizes, NEW k \in ReadSlack, ReadCall(n, n + k)
        PROVE  ReaderWakeup'
    BY <2>2 DEF ReadCall, ReaderWakeup
  <2>3. ASSUME NEW return, ReadTake(return), UNCHANGED rdLen
        PROVE  ReaderWakeup'
    <3>1. rdPc' \in {"idle", "loop"}
      BY <2>3, <2>t, ReadTakeMoves
    <3>2. QED BY <2>3, <2>t, <3>1, ReadTakeFills DEF ReaderWakeup, room
  <2>4. CASE ReadQuick \/ ReadGot \/ ReadTimeout
    BY <2>3, <2>4 DEF ReadQuick, ReadGot, ReadTimeout
  <2>5. CASE ReadLoop
    <3>1. rdPc' = "select" => UNCHANGED rdBuf
      BY <2>5 DEF ReadLoop
    <3>2. /\ rdPc = "loop" /\ rdPc' \in {"idle", "select"}
          /\ UNCHANGED <<rdLen, inBuf, updTokens, notifiers>>
      BY <2>5 DEF ReadLoop
    <3>3. QED BY <1>2, <3>1, <3>2 DEF ReaderWakeup, room
  <2>6. CASE ReadToken
    BY <2>6 DEF ReadToken, ReaderWakeup
  <2>7. CASE Notify
    BY <2>7, <2>t DEF Notify, ReaderWakeup, room
  <2>8. CASE UNCHANGED recvVars
    <3>1. UNCHANGED <<rdPc, rdLen, rdBuf, inBuf, updTokens, notifiers>>
      BY <2>8 DEF recvVars
    <3>2. QED BY <1>2, <3>1 DEF ReaderWakeup, room
  <2>9. QED
    BY <1>2, <2>1, <2>2, <2>4, <2>5, <2>6, <2>7, <2>8, IngressSteps DEF ReadStep
<1>3. QED BY <1>1, <1>2, TypeStep, PTL DEF Spec

\* Every writer has passed a buffer of some length.
LEMMA WriteLength ==
    ASSUME TypeInv, NEW w \in Writers
    PROVE  wrLen[w] \in Nat
<1>1. WriteSizes \cup {0} \subseteq Nat
  BY QStreamAssumption
<1>2. wrLen[w] \in WriteSizes \cup {0}
  BY DEF TypeInv, TypeOK, CallTypes
<1>3. QED BY <1>1, <1>2

\* There are as many new bytes as were asked for.
LEMMA FreshLength ==
    ASSUME NEW from \in Nat, NEW n \in Nat
    PROVE  Len(Fresh(from, n)) = n
<1>1. Fresh(from, n) \in Seq(Nat) /\ DOMAIN Fresh(from, n) = 1..n
  BY FreshIsSeq DEF Fresh
<1>2. DOMAIN Fresh(from, n) = 1..Len(Fresh(from, n))
      /\ Len(Fresh(from, n)) \in Nat
  BY <1>1, LenProperties
<1>3. QED BY <1>1, <1>2

\* A lone writer that waits has bytes or a token on their way to it.
THEOREM WriterCorrect == Spec => []WriterWakeup
<1>1. Init => TypeInv /\ WriterWakeup
  BY InitTypes DEF Init, WriterWakeup
<1>2. ASSUME TypeInv, WriterWakeup, [Next]_vars
      PROVE  WriterWakeup'
  <2>t. /\ outBuf \in Seq(Nat) /\ sendTokens \in Nat
        /\ wrPc \in [Writers -> {"idle", "append", "wait", "timed"}]
        /\ wrLen \in [Writers -> WriteSizes \cup {0}]
        /\ WriteSizes \cup {0} \subseteq Nat
    <3>1. SentCap \in Nat /\ WriteSizes \cup {0} \subseteq Nat
      BY QStreamAssumption
    <3>2. QED BY <1>2, <3>1 DEF TypeInv, TypeOK, SendTypes, CallTypes
  <2>1. ASSUME NEW w \in Writers, NEW n \in WriteSizes, WriteCall(w, n)
        PROVE  WriterWakeup'
    BY <1>2, <2>1, <2>t DEF WriteCall, WriterWakeup, sendVars
  <2>2. ASSUME NEW w \in Writers, WriteAppend(w)
        PROVE  WriterWakeup'
    <3>1. wrLen[w] \in Nat /\ Len(written) \in Nat
      BY <1>2, WriteLength, LenProperties DEF TypeInv, TypeOK, SendTypes
    <3>2. PICK data \in Seq(Nat) :
             outBuf' = outBuf ++ data /\ Len(data) = wrLen[w]
      <4>1. /\ Fresh(writtenBytes, wrLen[w]) \in Seq(Nat)
            /\ Len(Fresh(writtenBytes, wrLen[w])) = wrLen[w]
        BY <3>1, FreshIsSeq, FreshLength
      <4>2. QED BY <2>2, <4>1 DEF WriteAppend, ++
    <3>3. wrLen[w] > 0 => outBuf' # <<>>
      <4>1. /\ Len(outBuf ++ data) = Len(outBuf) + Len(data)
            /\ Len(outBuf) \in Nat
        BY <2>t, ByteSeq
      <4>2. Len(outBuf') = Len(outBuf) + wrLen[w]
        BY <3>2, <4>1
      <4>3. Len(<<>>) = 0
        BY ByteSeq
      <4>4. QED BY <3>1, <4>1, <4>2, <4>3
    <3>4. wrLen' = wrLen
      BY <2>2 DEF WriteAppend
    <3>5. \A v \in Writers : Writers = {v} => v = w
      OBVIOUS
    <3>6. QED BY <3>3, <3>4, <3>5 DEF WriterWakeup
  <2>3. ASSUME NEW w \in Writers, WriteToken(w) \/ WriteTimeout(w)
        PROVE  WriterWakeup'
    <3>1. \A v \in Writers : Writers = {v} => v = w
      OBVIOUS
    <3>2. wrPc'[w] = "idle"
      BY <2>3, <2>t DEF WriteToken, WriteTimeout
    <3>3. QED BY <3>1, <3>2 DEF WriterWakeup
  <2>4. CASE Flush
    <3>1. UNCHANGED <<closed, wrPc, wrLen>>
      BY <2>4 DEF Flush, FlushTop, FlushEmpty, FlushPop, FlushCheck, FlushWrite,
                  FlushSync, FlushPush, callVars
    <3>2. CASE FlushTop \/ FlushEmpty
      <4>1. UNCHANGED <<outBuf, sendTokens>> /\ flPc \in {"top", "tick"}
        BY <3>2 DEF FlushTop, FlushEmpty
      <4>2. QED BY <1>2, <3>1, <4>1 DEF WriterWakeup
    <3>3. CASE FlushPop \/ FlushWrite \/ FlushSync
      <4>1. flPc' \in {"have", "sync", "push"}
        BY <3>3 DEF FlushPop, FlushWrite, FlushSync
      <4>2. QED BY <4>1 DEF WriterWakeup
    <3>4. CASE FlushCheck
      <4>1. closed \/ flPc' = "call"
        BY <3>4 DEF FlushCheck
      <4>2. QED BY <3>1, <4>1 DEF WriterWakeup
    <3>5. CASE FlushPush
      <4>1. sendTokens' > 0
        BY <2>t, <3>5 DEF FlushPush
      <4>2. QED BY <4>1 DEF WriterWakeup
    <3>6. QED BY <2>4, <3>2, <3>3, <3>4, <3>5 DEF Flush
  <2>5. CASE /\ UNCHANGED <<sendTokens, outBuf, flPc, wrPc, wrLen>>
             /\ closed => closed'
    BY <1>2, <2>5 DEF WriterWakeup
  <2>6. ASSUME NEW n, NEW m,
               \/ EngineSend(n) \/ EngineResend(n) \/ EngineAck(n)
               \/ OnReceived(n) \/ ReadCall(n, m) \/ ReadStep \/ Notify
        PROVE  WriterWakeup'
    BY <2>5, <2>6
       DEF EngineSend, EngineResend, EngineAck, OnReceived, ReadCall, ReadStep,
           ReadQuick, ReadLoop, ReadToken, ReadGot, ReadTimeout, Notify,
           sendVars, callVars
  <2>7. CASE SetWriteDeadline \/ OnClosed \/ EngineLose
    BY <2>5, <2>7 DEF SetWriteDeadline, OnClosed, EngineLose, sendVars, callVars
  <2>8. CASE CloseCall \/ CloseSync \/ CloseReturn
    BY <2>5, <2>8 DEF CloseCall, CloseSync, CloseReturn, sendVars, callVars
  <2>9. CASE CloseReset
    <3>1. closed => closed'
      BY <2>9, Zenon DEF CloseReset
    <3>2. QED BY <2>5, <2>9, <3>1 DEF CloseReset, sendVars, callVars
  <2>10. CASE UNCHANGED vars
    BY <2>5, <2>10 DEF vars, sendVars, callVars
  <2>11. QED
    BY <1>2, <2>1, <2>2, <2>3, <2>4, <2>6, <2>7, <2>8, <2>9, <2>10
       DEF Next, WriteStep, CloseStep
<1>3. QED BY <1>1, <1>2, TypeStep, PTL DEF Spec

-----------------------------------------------------------------------------
(* Close *)

\* Close counts no more than was written, and what it waited for does not
\* change again.
CloseInv == clWritten <= Len(written) /\ CloseAfterAck

\* Whatever is written, sent and acknowledged while Close waits: it resets a
\* stream of which something was sent only when all is acknowledged.
THEOREM CloseCorrect == Spec => []CloseAfterAck
<1>1. Init => TypeInv /\ CloseInv
  BY InitTypes, ByteSeq DEF Init, CloseInv, CloseAfterAck
<1>2. ASSUME TypeInv, CloseInv, [Next]_vars
      PROVE  CloseInv'
  <2>t. /\ ackedBytes \in Nat /\ clWritten \in Nat /\ Len(written) \in Nat
        /\ written \in Seq(Nat)
    <3>1. written \in Seq(Nat)
      BY <1>2 DEF TypeInv, TypeOK, SendTypes
    <3>2. QED
      BY <1>2, <3>1, LenProperties DEF TypeInv, TypeOK, WireTypes, CloseTypes
  <2>1. CASE CloseSync
    <3>1. /\ ~(Len(written) > 0 /\ sentBytes > 0 /\ Len(written) > ackedBytes)
          /\ ~clUnsent' => sentBytes # 0
          /\ sentBytes \in Nat
          /\ UNCHANGED <<written, ackedBytes, clWritten>>
      BY <1>2, <2>1
         DEF CloseSync, TypeInv, TypeOK, WireTypes, sendVars, wireVars
    <3>2. ~clUnsent' => ackedBytes >= clWritten
      BY <1>2, <2>t, <3>1 DEF CloseInv
    <3>3. QED BY <1>2, <3>1, <3>2 DEF CloseInv, CloseAfterAck
  <2>2. CASE CloseCall
    BY <1>2, <2>2, <2>t DEF CloseCall, CloseInv, CloseAfterAck, sendVars
  <2>3. CASE CloseReset \/ CloseReturn
    BY <1>2, <2>3
       DEF CloseReset, CloseReturn, CloseInv, CloseAfterAck, sendVars, wireVars
  <2>4. ASSUME NEW n \in 1..MaxWritten, EngineAck(n)
        PROVE  CloseInv'
    BY <1>2, <2>4, <2>t DEF EngineAck, CloseInv, CloseAfterAck, sendVars,
                            closeVars
  <2>5. ASSUME NEW w \in Writers, WriteAppend(w)
        PROVE  CloseInv'
    <3>1. wrLen[w] \in Nat
      BY <1>2, WriteLength
    <3>2. PICK data \in Seq(Nat) : written' = written ++ data
      <4>1. Fresh(writtenBytes, wrLen[w]) \in Seq(Nat)
        BY <2>t, <3>1, FreshIsSeq
      <4>2. QED BY <2>5, <4>1 DEF WriteAppend, ++
    <3>3. Len(written') = Len(written) + Len(data) /\ Len(data) \in Nat
      BY <2>t, <3>2, ByteSeq
    <3>4. clWritten' <= Len(written')
      BY <1>2, <2>5, <2>t, <3>3 DEF WriteAppend, CloseInv, closeVars
    <3>5. CloseAfterAck'
      BY <1>2, <2>5
         DEF WriteAppend, CloseInv, CloseAfterAck, wireVars, closeVars
    <3>6. QED BY <3>4, <3>5 DEF CloseInv
  <2>6. CASE UNCHANGED <<written, ackedBytes, closeVars>>
    BY <1>2, <2>6 DEF CloseInv, CloseAfterAck, closeVars
  <2>7. ASSUME NEW n, NEW m,
               \/ EngineSend(n) \/ EngineResend(n)
               \/ OnReceived(n) \/ ReadCall(n, m) \/ ReadStep \/ Notify
        PROVE  UNCHANGED <<written, ackedBytes, closeVars>>
    BY <2>7
       DEF EngineSend, EngineResend, OnReceived, ReadCall, ReadStep, ReadQuick,
           ReadLoop, ReadToken, ReadGot, ReadTimeout, Notify, sendVars, wireVars
  <2>8. ASSUME NEW w, NEW n, WriteCall(w, n) \/ WriteToken(w) \/ WriteTimeout(w)
        PROVE  UNCHANGED <<written, ackedBytes, closeVars>>
    BY <2>8 DEF WriteCall, WriteToken, WriteTimeout, sendVars, wireVars
  <2>9. ASSUME Flush \/ SetWriteDeadline \/ OnClosed \/ EngineLose
        PROVE  UNCHANGED <<written, ackedBytes, closeVars>>
    BY <2>9
       DEF Flush, FlushTop, FlushEmpty, FlushPop, FlushCheck, FlushWrite,
           FlushSync, FlushPush, SetWriteDeadline, OnClosed, EngineLose,
           sendVars, wireVars
  <2>10. CASE UNCHANGED vars
    BY <2>6, <2>10 DEF vars, sendVars, wireVars
  <2>11. QED
    BY <1>2, <2>1, <2>2, <2>3, <2>4, <2>5, <2>6, <2>7, <2>8, <2>9, <2>10
       DEF Next, WriteStep, CloseStep
<1>3. CloseInv => CloseAfterAck
  BY DEF CloseInv
<1>4. QED BY <1>1, <1>2, <1>3, TypeStep, PTL DEF Spec

-----------------------------------------------------------------------------
(* The pipes *)

\* The pipes mean the same by a prefix.
LEMMA SamePrefix ==
    ASSUME NEW s, NEW t
    PROVE  /\ Egress!IsPrefix(s, t) <=> IsPrefix(s, t)
           /\ Egress!IsStrictPrefix(s, t) <=> IsStrictPrefix(s, t)
           /\ Ingress!IsPrefix(s, t) <=> IsPrefix(s, t)
           /\ Ingress!IsStrictPrefix(s, t) <=> IsStrictPrefix(s, t)
  BY DEF IsPrefix, IsStrictPrefix, Egress!IsPrefix, Egress!IsStrictPrefix,
         Ingress!IsPrefix, Ingress!IsStrictPrefix

\* What is added to a sequence makes it longer, or is empty.
LEMMA Extends ==
    ASSUME NEW s \in Seq(Nat), NEW u \in Seq(Nat)
    PROVE  s ++ u = s \/ IsStrictPrefix(s, s ++ u)
  BY PrefixOfConcat DEF IsStrictPrefix

\* Write, the flusher and the engine's end of the stream together are a FIFO
\* pipe that is up while the engine takes data.
THEOREM EgressRefines == Spec => EgressIsPipe
<1>1. Init => TypeInv /\ EgressInv
  <2>1. IsPrefix(<<>>, <<>>)
    BY ByteSeq DEF IsPrefix
  <2>2. QED BY <2>1, InitTypes, ByteSeq DEF Init, EgressInv
<1>2. TypeInv /\ EgressInv /\ [Next]_vars => TypeInv' /\ EgressInv'
  BY TypeStep, EgressStep
<1>3. Init => Egress!Init
  BY DEF Init, Egress!Init
<1>4. ASSUME TypeInv, EgressInv, TypeInv', EgressInv', [Next]_vars
      PROVE  [Egress!Next]_(Egress!vars)
  <2>t. /\ written \in Seq(Nat) /\ handed \in Seq(Nat) /\ chunk \in Seq(Nat)
        /\ flushed \in Seq(Nat)
    BY <1>4 DEF TypeInv, TypeOK, SendTypes
  <2>1. ASSUME NEW w \in Writers, WriteAppend(w)
        PROVE  [Egress!Next]_(Egress!vars)
    <3>1. wrLen[w] \in Nat
      BY <1>4, WriteLength
    <3>2. PICK data \in Seq(Nat) : written' = written ++ data
      <4>1. Fresh(writtenBytes, wrLen[w]) \in Seq(Nat)
        BY <2>t, <3>1, FreshIsSeq, LenProperties
      <4>2. QED BY <2>1, <4>1 DEF WriteAppend, ++
    <3>3. written' = written \/ IsStrictPrefix(written, written')
      BY <2>t, <3>2, Extends
    <3>4. UNCHANGED <<handed, engine>>
      BY <2>1 DEF WriteAppend
    <3>5. QED BY <3>3, <3>4, SamePrefix DEF Egress!Next, Egress!Put, Egress!vars
  <2>2. CASE Flush
    <3>1. UNCHANGED <<written, engine>>
      BY <2>2 DEF Flush, FlushTop, FlushEmpty, FlushPop, FlushCheck, FlushWrite,
                  FlushSync, FlushPush
    <3>2. handed' = handed \/ handed' = handed ++ chunk
      BY <2>2 DEF Flush, FlushTop, FlushEmpty, FlushPop, FlushCheck, FlushWrite,
                  FlushSync, FlushPush, ++
    <3>3. handed' = handed \/ IsStrictPrefix(handed, handed')
      BY <2>t, <3>2, Extends
    <3>4. IsPrefix(handed', written)
      <4>1. /\ handed' \in Seq(Nat) /\ flushed' \in Seq(Nat)
            /\ chunk' \in Seq(Nat) /\ outBuf' \in Seq(Nat)
        BY <1>4 DEF TypeInv, TypeOK, SendTypes
      <4>2. chunk' ++ outBuf' \in Seq(Nat)
        BY <4>1, ByteSeq
      <4>3. /\ IsPrefix(handed', flushed')
            /\ written' = flushed' ++ (chunk' ++ outBuf')
        BY <1>4 DEF EgressInv
      <4>4. QED BY <3>1, <4>1, <4>2, <4>3, PrefixGrows
    <3>5. QED BY <3>1, <3>3, <3>4, SamePrefix DEF Egress!Next, Egress!Take, Egress!vars
  <2>3. CASE OnClosed \/ EngineLose \/ CloseReset
    <3>1. UNCHANGED <<written, handed>>
      BY <2>3 DEF OnClosed, EngineLose, CloseReset, sendVars
    <3>2. engine' = engine \/ engine' # "open"
      BY <2>3 DEF OnClosed, EngineLose, CloseReset
    <3>3. QED BY <3>1, <3>2 DEF Egress!Next, Egress!Shut, Egress!vars
  <2>4. CASE UNCHANGED <<engine, written, handed>>
    BY <2>4 DEF Egress!vars
  <2>5. QED BY <1>4, <2>1, <2>2, <2>3, <2>4, EgressSteps
<1>5. QED BY <1>1, <1>2, <1>3, <1>4, PTL DEF Spec, EgressIsPipe, Egress!Spec

\* The engine's callback, the buffer and Read together are a FIFO pipe that is
\* up until the stream is closed.
THEOREM IngressRefines == Spec => IngressIsPipe
<1>1. Init => TypeInv /\ IngressInv
  BY InitTypes, ByteSeq DEF Init, IngressInv
<1>2. TypeInv /\ IngressInv /\ [Next]_vars => TypeInv' /\ IngressInv'
  BY TypeStep, IngressStep
<1>3. Init => Ingress!Init
  BY DEF Init, Ingress!Init
<1>4. ASSUME TypeInv, IngressInv, TypeInv', IngressInv', [Next]_vars
      PROVE  [Ingress!Next]_(Ingress!vars)
  <2>t. received \in Seq(Nat) /\ returned \in Seq(Nat)
    BY <1>4 DEF TypeInv, TypeOK, RecvTypes
  <2>1. ASSUME NEW n \in 1..MaxReceived, OnReceived(n)
        PROVE  [Ingress!Next]_(Ingress!vars)
    <3>1. PICK data \in Seq(Nat) : received' = received ++ data
      <4>1. Fresh(Len(received), n) \in Seq(Nat)
        BY <2>t, LenProperties, FreshIsSeq
      <4>2. QED BY <2>1, <4>1 DEF OnReceived, ++
    <3>2. received' = received \/ IsStrictPrefix(received, received')
      BY <2>t, <3>1, Extends
    <3>3. UNCHANGED <<returned, closed>>
      BY <2>1 DEF OnReceived
    <3>4. QED BY <3>2, <3>3, SamePrefix DEF Ingress!Next, Ingress!Put, Ingress!vars
  <2>2. CASE ReadStep
    <3>1. UNCHANGED <<received, closed>>
      BY <2>2 DEF ReadStep, ReadQuick, ReadLoop, ReadToken, ReadGot, ReadTimeout
    <3>2. \E u \in Seq(Nat) : returned' = returned ++ u
      <4>1. ASSUME NEW return, ReadTake(return)
            PROVE  \E u \in Seq(Nat) : returned' = returned ++ u
        BY <1>4, <4>1, ReadTakeMoves DEF TypeInv, TypeOK
      <4>2. CASE ReadQuick \/ ReadGot \/ ReadTimeout
        BY <4>1, <4>2 DEF ReadQuick, ReadGot, ReadTimeout
      <4>3. CASE UNCHANGED returned
        BY <2>t, <4>3, ByteSeq
      <4>4. QED BY <2>2, <4>2, <4>3 DEF ReadStep, ReadLoop, ReadToken
    <3>3. returned' = returned \/ IsStrictPrefix(returned, returned')
      BY <2>t, <3>2, Extends
    <3>4. IsPrefix(returned', received)
      <4>1. /\ returned' \in Seq(Nat) /\ dropped' \in Seq(Nat)
            /\ rdBuf' \in Seq(Nat) /\ inBuf' \in Seq(Nat)
        BY <1>4 DEF TypeInv, TypeOK, RecvTypes
      <4>2. dropped' ++ (rdBuf' ++ inBuf') \in Seq(Nat)
        BY <4>1, ByteSeq
      <4>3. received' = returned' ++ (dropped' ++ (rdBuf' ++ inBuf'))
        BY <1>4 DEF IngressInv
      <4>4. QED BY <3>1, <4>1, <4>2, <4>3, PrefixOfConcat
    <3>5. QED BY <3>1, <3>3, <3>4, SamePrefix DEF Ingress!Next, Ingress!Take, Ingress!vars
  <2>3. CASE UNCHANGED <<received, returned>> /\ (closed => closed')
    <3>1. CASE closed' = closed
      BY <2>3, <3>1 DEF Ingress!vars
    <3>2. CASE closed' = TRUE /\ closed = FALSE
      BY <2>3, <3>2 DEF Ingress!Next, Ingress!Shut
    <3>3. closed \in BOOLEAN /\ closed' \in BOOLEAN
      BY <1>4 DEF TypeInv, TypeOK
    <3>4. QED BY <2>3, <3>1, <3>2, <3>3
  <2>4. ASSUME NEW n, NEW m, ReadCall(n, m) \/ Notify
        PROVE  [Ingress!Next]_(Ingress!vars)
    BY <2>3, <2>4 DEF ReadCall, Notify
  <2>5. QED
    BY <1>4, <2>1, <2>2, <2>3, <2>4, IngressSteps DEF recvVars
<1>5. QED BY <1>1, <1>2, <1>3, <1>4, PTL DEF Spec, IngressIsPipe, Ingress!Spec

=============================================================================
