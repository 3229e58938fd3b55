------------------------ MODULE StreamSchedulerProofs ------------------------
(***************************************************************************)
(* What holds of the scheduler's lists for any number of streams and any    *)
(* amount of data and credit.                                              *)
(*                                                                         *)
(* A stream is relinked only if it is in no list, and unlinked from one    *)
(* place, so that the lists are right only together: each is free of       *)
(* repetitions, they share no stream, and what is linked has something to  *)
(* send (Listed).  NoStreamForgotten and the assertion of do_send follow.  *)
(*                                                                         *)
(* The last theorems are about the loop of do_send: each iteration leaves   *)
(* less to do, and brings every stream that waits one place forward.       *)
(***************************************************************************)
EXTENDS StreamScheduler, FiniteSetTheorems, TLAPS

-----------------------------------------------------------------------------
(* Lists without repetition *)

\* A list of streams, each of them once.
IsList(q) ==
    /\ q \in Seq(Streams)
    /\ \A i, j \in 1..Len(q) : q[i] = q[j] => i = j

\* The streams of a list.
LEMMA ListSet ==
    ASSUME NEW q \in Seq(Streams)
    PROVE  /\ ToSet(q) = {q[i] : i \in 1..Len(q)}
           /\ ToSet(q) \subseteq Streams
  BY DEF ToSet

\* A new stream at the end.
LEMMA ListAppend ==
    ASSUME NEW q, IsList(q), NEW s \in Streams, s \notin ToSet(q)
    PROVE  IsList(Append(q, s)) /\ ToSet(Append(q, s)) = ToSet(q) \cup {s}
  <1> DEFINE r == Append(q, s)
  <1>1. /\ q \in Seq(Streams) /\ r \in Seq(Streams)
        /\ Len(r) = Len(q) + 1 /\ Len(q) \in Nat
        /\ \A i \in 1..Len(q) : r[i] = q[i]
        /\ r[Len(q) + 1] = s
    BY DEF IsList
  <1> HIDE DEF r
  <1>2. \A i \in 1..Len(q) : r[i] # s
    BY <1>1, ListSet
  <1>3. \A i \in 1..Len(r) : i \in 1..Len(q) \/ i = Len(q) + 1
    BY <1>1
  <1>4. IsList(r)
    BY <1>1, <1>2, <1>3 DEF IsList
  <1>5. ToSet(r) = ToSet(q) \cup {s}
    <2>1. ToSet(r) \subseteq ToSet(q) \cup {s}
      BY <1>1, <1>3, ListSet
    <2>2. ToSet(q) \cup {s} \subseteq ToSet(r)
      <3>1. 1..Len(q) \subseteq 1..Len(r) /\ Len(q) + 1 \in 1..Len(r)
        BY <1>1
      <3>2. QED
        BY <1>1, <3>1, ListSet
    <2>3. QED
      BY <2>1, <2>2
  <1>6. QED
    BY <1>4, <1>5 DEF r

\* The first stream goes.
LEMMA ListTail ==
    ASSUME NEW q, IsList(q), q # <<>>
    PROVE  /\ IsList(Tail(q))
           /\ Head(q) \in Streams
           /\ Head(q) \in ToSet(q)
           /\ ToSet(Tail(q)) = ToSet(q) \ {Head(q)}
  <1> DEFINE r == Tail(q)
  <1>1. /\ q \in Seq(Streams) /\ r \in Seq(Streams)
        /\ Len(q) \in Nat /\ Len(q) > 0 /\ Len(r) = Len(q) - 1
        /\ \A i \in 1..Len(r) : r[i] = q[i + 1]
        /\ Head(q) = q[1]
    BY DEF IsList
  <1> HIDE DEF r
  <1>2. \A i \in 1..Len(r) : i + 1 \in 1..Len(q) /\ i + 1 # 1
    BY <1>1
  <1>3. \A i \in 1..Len(q) : i # 1 => i - 1 \in 1..Len(r) /\ (i - 1) + 1 = i
    BY <1>1
  <1>4. IsList(r)
    <2>1. SUFFICES ASSUME NEW i \in 1..Len(r), NEW j \in 1..Len(r), r[i] = r[j]
                   PROVE  i = j
      BY <1>1 DEF IsList
    <2>2. q[i + 1] = q[j + 1]
      BY <1>1, <2>1
    <2>3. i + 1 = j + 1
      BY <1>2, <2>2 DEF IsList
    <2>4. QED
      BY <1>1, <2>3
  <1>5. 1 \in 1..Len(q)
    BY <1>1
  <1>6. q[1] \in Streams /\ q[1] \in ToSet(q)
    BY <1>1, <1>5, ListSet
  <1>7. ToSet(r) = ToSet(q) \ {q[1]}
    <2>1. ASSUME NEW i \in 1..Len(r)
          PROVE  r[i] \in ToSet(q) \ {q[1]}
      BY <1>1, <1>2, <1>5, ListSet DEF IsList
    <2>2. ASSUME NEW i \in 1..Len(q), q[i] # q[1]
          PROVE  q[i] \in ToSet(r)
      <3>1. i # 1
        BY <2>2
      <3>2. i - 1 \in 1..Len(r) /\ r[i - 1] = q[i]
        BY <1>1, <1>3, <3>1
      <3>3. QED
        BY <1>1, <3>2, ListSet
    <2>3. QED
      BY <1>1, <2>1, <2>2, ListSet
  <1>8. QED
    BY <1>1, <1>4, <1>6, <1>7 DEF r

\* One list before another.
LEMMA ListConcat ==
    ASSUME NEW p, IsList(p), NEW q, IsList(q), ToSet(p) \cap ToSet(q) = {}
    PROVE  IsList(p \o q) /\ ToSet(p \o q) = ToSet(p) \cup ToSet(q)
  <1> DEFINE r == p \o q
  <1>1. /\ p \in Seq(Streams) /\ q \in Seq(Streams) /\ r \in Seq(Streams)
        /\ Len(p) \in Nat /\ Len(q) \in Nat /\ Len(r) = Len(p) + Len(q)
        /\ \A i \in 1..Len(p) : r[i] = p[i]
        /\ \A i \in 1..Len(q) : r[Len(p) + i] = q[i]
    BY DEF IsList
  <1> HIDE DEF r
  <1>2. \A i \in 1..Len(r) :
          \/ i \in 1..Len(p) /\ r[i] = p[i]
          \/ /\ i \notin 1..Len(p)
             /\ i - Len(p) \in 1..Len(q) /\ r[i] = q[i - Len(p)]
    <2>1. SUFFICES ASSUME NEW i \in 1..Len(r), i \notin 1..Len(p)
                   PROVE  i - Len(p) \in 1..Len(q) /\ r[i] = q[i - Len(p)]
      BY <1>1
    <2>2. i - Len(p) \in 1..Len(q) /\ Len(p) + (i - Len(p)) = i
      BY <1>1, <2>1
    <2>3. QED
      BY <1>1, <2>2
  <1>3. /\ \A i \in 1..Len(p) : i \in 1..Len(r)
        /\ \A i \in 1..Len(q) : Len(p) + i \in 1..Len(r)
    BY <1>1
  <1>4. ASSUME NEW i \in 1..Len(p), NEW j \in 1..Len(q)
        PROVE  p[i] # q[j]
    <2>1. p[i] \in ToSet(p)
      BY <1>1, ListSet
    <2>2. q[j] \in ToSet(q)
      BY <1>1, ListSet
    <2>3. QED
      BY <2>1, <2>2
  <1>5. IsList(r)
    <2>1. SUFFICES ASSUME NEW i \in 1..Len(r), NEW j \in 1..Len(r), r[i] = r[j]
                   PROVE  i = j
      BY <1>1 DEF IsList
    <2>2. CASE i \in 1..Len(p) /\ j \in 1..Len(p)
      BY <1>1, <2>1, <2>2 DEF IsList
    <2>3. CASE i \notin 1..Len(p) /\ j \notin 1..Len(p)
      <3>1. i - Len(p) = j - Len(p)
        BY <1>2, <2>1, <2>3 DEF IsList
      <3>2. QED
        BY <1>1, <3>1
    <2>4. QED
      BY <1>2, <1>4, <2>1, <2>2, <2>3
  <1>6. ToSet(r) = ToSet(p) \cup ToSet(q)
    <2>1. ToSet(r) \subseteq ToSet(p) \cup ToSet(q)
      BY <1>1, <1>2, ListSet
    <2>2. ToSet(p) \subseteq ToSet(r)
      BY <1>1, <1>3, ListSet
    <2>3. ToSet(q) \subseteq ToSet(r)
      BY <1>1, <1>3, ListSet
    <2>4. QED
      BY <2>1, <2>2, <2>3
  <1>7. QED
    BY <1>5, <1>6 DEF r

\* A stream is taken out.
LEMMA ListUnlink ==
    ASSUME NEW q, IsList(q), NEW s
    PROVE  IsList(Unlink(q, s)) /\ ToSet(Unlink(q, s)) = ToSet(q) \ {s}
  <1>1. CASE s \notin ToSet(q)
    BY <1>1 DEF Unlink
  <1>2. CASE s \in ToSet(q)
    <2> DEFINE at == CHOOSE i \in DOMAIN q : q[i] = s
               r == RemoveAt(q, at)
    <2>1. /\ q \in Seq(Streams) /\ Len(q) \in Nat
          /\ at \in 1..Len(q) /\ q[at] = s
      <3>1. q \in Seq(Streams) /\ DOMAIN q = 1..Len(q) /\ Len(q) \in Nat
        BY DEF IsList
      <3>2. \E i \in DOMAIN q : q[i] = s
        BY <1>2 DEF ToSet
      <3>3. at \in DOMAIN q /\ q[at] = s
        BY <3>2
      <3>4. QED
        BY <3>1, <3>3
    <2>2. Unlink(q, s) = r
      BY <1>2 DEF Unlink
    <2> HIDE DEF at
    <2>3. /\ r \in Seq(Streams)
          /\ Len(r) = Len(q) - 1
          /\ \A i \in 1..Len(r) : r[i] = IF i < at THEN q[i] ELSE q[i + 1]
      <3>1. /\ SubSeq(q, 1, at - 1) \in Seq(Streams)
            /\ Len(SubSeq(q, 1, at - 1)) = at - 1
            /\ \A i \in 1..at - 1 : SubSeq(q, 1, at - 1)[i] = q[i]
        BY <2>1
      <3>2. /\ SubSeq(q, at + 1, Len(q)) \in Seq(Streams)
            /\ Len(SubSeq(q, at + 1, Len(q))) = Len(q) - at
            /\ \A i \in 1..Len(q) - at :
                  SubSeq(q, at + 1, Len(q))[i] = q[at + i]
        BY <2>1
      <3> DEFINE front == SubSeq(q, 1, at - 1)
                 back  == SubSeq(q, at + 1, Len(q))
      <3>3. r = front \o back
        BY DEF RemoveAt
      <3> HIDE DEF front, back, r
      <3>4. /\ front \in Seq(Streams) /\ Len(front) = at - 1
            /\ back \in Seq(Streams) /\ Len(back) = Len(q) - at
        BY <3>1, <3>2 DEF front, back
      <3>5. /\ r \in Seq(Streams) /\ Len(r) = Len(q) - 1
            /\ \A i \in 1..Len(r) : r[i] = IF i <= Len(front) THEN front[i]
                                           ELSE back[i - Len(front)]
        BY <2>1, <3>3, <3>4
      <3>6. ASSUME NEW i \in 1..Len(r)
            PROVE  r[i] = IF i < at THEN q[i] ELSE q[i + 1]
        <4>1. CASE i < at
          <5>1. i \in 1..at - 1 /\ i <= Len(front)
            BY <2>1, <3>4, <4>1
          <5>2. QED
            BY <3>1, <3>5, <4>1, <5>1 DEF front
        <4>2. CASE ~(i < at)
          <5>1. /\ ~(i <= Len(front)) /\ i - Len(front) = i - at + 1
                /\ i - at + 1 \in 1..Len(q) - at
                /\ at + (i - at + 1) = i + 1
            BY <2>1, <3>4, <3>5, <4>2
          <5>2. r[i] = back[i - at + 1]
            BY <3>5, <5>1
          <5>3. back[i - at + 1] = q[at + (i - at + 1)]
            BY <3>2, <5>1 DEF back
          <5>4. QED
            BY <4>2, <5>1, <5>2, <5>3
        <4>3. QED
          BY <4>1, <4>2
      <3>7. QED
        BY <3>5, <3>6
    <2> HIDE DEF r
    <2> DEFINE from == [i \in 1..Len(r) |-> IF i < at THEN i ELSE i + 1]
    <2>4. \A i \in 1..Len(r) :
            /\ from[i] \in 1..Len(q) /\ from[i] # at
            /\ r[i] = q[from[i]]
      BY <2>1, <2>3
    <2>5. \A i, j \in 1..Len(r) : from[i] = from[j] => i = j
      BY <2>1, <2>3
    <2>6. ASSUME NEW i \in 1..Len(q), i # at
          PROVE  \E j \in 1..Len(r) : r[j] = q[i]
      <3>1. CASE i < at
        <4>1. i \in 1..Len(r) /\ r[i] = q[i]
          BY <2>1, <2>3, <3>1
        <4>2. QED
          BY <4>1
      <3>2. CASE i > at
        <4>1. i - 1 \in 1..Len(r) /\ ~(i - 1 < at) /\ (i - 1) + 1 = i
          BY <2>1, <2>3, <3>2
        <4>2. r[i - 1] = q[i]
          BY <2>3, <4>1
        <4>3. QED
          BY <4>1, <4>2
      <3>3. QED
        BY <2>1, <2>6, <3>1, <3>2
    <2> HIDE DEF from
    <2>7. IsList(r)
      <3>1. \A i, j \in 1..Len(r) : r[i] = r[j] => from[i] = from[j]
        BY <2>4 DEF IsList
      <3>2. QED
        BY <2>3, <2>5, <3>1 DEF IsList
    <2>8. \A i \in 1..Len(q) : q[i] = s => i = at
      BY <2>1 DEF IsList
    <2>9. ToSet(r) = ToSet(q) \ {s}
      <3>1. \A i \in 1..Len(r) : r[i] \in ToSet(q) /\ r[i] # s
        BY <2>1, <2>4, <2>8, ListSet
      <3>2. \A i \in 1..Len(q) : q[i] # s => q[i] \in ToSet(r)
        BY <2>1, <2>3, <2>6, ListSet
      <3>3. QED
        BY <2>1, <2>3, <3>1, <3>2, ListSet
    <2>10. QED
      BY <2>2, <2>7, <2>9
  <1>3. QED
    BY <1>1, <1>2

-----------------------------------------------------------------------------
(* The scheduler's lists *)

DataOK ==
    /\ fresh \in [Streams -> 0..MaxFresh]
    /\ lost \in [Streams -> Nat]
    /\ flight \in [Streams -> 0..MaxFlight]
    /\ window \in [Streams -> 0..MaxWindow]
    /\ credit \in 0..MaxCredit
    /\ pc \in {"idle", "sending"}
    /\ saturated \in BOOLEAN
    /\ failed \subseteq Streams
    /\ turn \in Streams \cup {None}

\* The two lists share no stream.
Apart(a, b) == IsList(a) /\ IsList(b) /\ ToSet(a) \cap ToSet(b) = {}

\* Exactly the streams with something to send are linked, but for those whose
\* send failed.
Listed ==
    /\ \A s \in Streams : Linked(s) => CanSend(s, TRUE)
    /\ NoStreamForgotten

Inv == DataOK /\ Apart(active, blocked) /\ Listed

\* link_stream leaves the lists apart and the stream in one of them.
LEMMA LinkKeeps ==
    ASSUME NEW from, Apart(from, blocked), NEW s \in Streams,
           NEW connIsBlocked, Link(from, s, connIsBlocked)
    PROVE  /\ Apart(active', blocked')
           /\ ToSet(active') \cup ToSet(blocked')
                = ToSet(from) \cup ToSet(blocked) \cup {s}
  <1>1. CASE s \in ToSet(from) \cup ToSet(blocked)
    BY <1>1 DEF Link
  <1>2. CASE s \notin ToSet(from) \cup ToSet(blocked)
    <2>1. \/ active' = from /\ blocked' = Append(blocked, s)
          \/ active' = Append(from, s) /\ blocked' = blocked
      BY <1>2 DEF Link
    <2>2. /\ IsList(Append(from, s))
          /\ ToSet(Append(from, s)) = ToSet(from) \cup {s}
          /\ IsList(Append(blocked, s))
          /\ ToSet(Append(blocked, s)) = ToSet(blocked) \cup {s}
      BY <1>2, ListAppend DEF Apart
    <2>3. CASE active' = from /\ blocked' = Append(blocked, s)
      <3>1. /\ ToSet(active') = ToSet(from) /\ IsList(active')
            /\ ToSet(blocked') = ToSet(blocked) \cup {s} /\ IsList(blocked')
        BY <2>2, <2>3 DEF Apart
      <3>2. QED
        BY <1>2, <3>1 DEF Apart
    <2>4. CASE active' = Append(from, s) /\ blocked' = blocked
      <3>1. /\ ToSet(active') = ToSet(from) \cup {s} /\ IsList(active')
            /\ ToSet(blocked') = ToSet(blocked) /\ IsList(blocked')
        BY <2>2, <2>4 DEF Apart
      <3>2. QED
        BY <1>2, <3>1 DEF Apart
    <2>5. QED
      BY <2>1, <2>3, <2>4
  <1>3. QED
    BY <1>1, <1>2

\* update_state keeps the lists, if the other streams have what they had.
LEMMA UpdateKeeps ==
    ASSUME Inv, NEW s \in Streams, UpdateState(s),
           \A t \in Streams \ {s} : CanSend(t, TRUE)' <=> CanSend(t, TRUE)
    PROVE  Apart(active, blocked)' /\ Listed'
  <1> DEFINE old == ToSet(active) \cup ToSet(blocked)
             new == ToSet(active') \cup ToSet(blocked')
  <1>1. /\ Apart(active, blocked)'
        /\ new = IF CanSend(s, TRUE)' THEN old \cup {s} ELSE old \ {s}
    <2>1. CASE CanSend(s, TRUE)'
      <3>1. Link(active, s, IsBlocked)
        BY <2>1 DEF UpdateState
      <3>2. QED
        BY <2>1, <3>1, LinkKeeps DEF Inv
    <2>2. CASE ~CanSend(s, TRUE)'
      <3>1. active' = Unlink(active, s) /\ blocked' = Unlink(blocked, s)
        BY <2>2 DEF UpdateState
      <3>2. /\ IsList(active') /\ ToSet(active') = ToSet(active) \ {s}
            /\ IsList(blocked') /\ ToSet(blocked') = ToSet(blocked) \ {s}
        BY <3>1, ListUnlink DEF Inv, Apart
      <3>3. QED
        BY <2>2, <3>2 DEF Inv, Apart
    <2>3. QED
      BY <2>1, <2>2
  <1>2. failed' = failed \ {s}
    BY DEF UpdateState
  <1>3. ASSUME NEW t \in Streams
        PROVE  /\ t \in new => CanSend(t, TRUE)'
               /\ CanSend(t, TRUE)' => t \in new \/ t \in failed'
    <2>1. CASE t = s
      BY <1>1, <2>1
    <2>2. CASE t # s
      <3>1. t \in new <=> t \in old
        <4> HIDE DEF old, new
        <4>1. new = old \cup {s} \/ new = old \ {s}
          BY <1>1
        <4>2. QED
          BY <2>2, <4>1
      <3>2. /\ t \in old => CanSend(t, TRUE)
            /\ CanSend(t, TRUE) => t \in old \/ t \in failed
        BY DEF Inv, Listed, NoStreamForgotten, Linked
      <3>3. QED
        BY <1>2, <2>2, <3>1, <3>2
    <2>3. QED
      BY <2>1, <2>2
  <1>4. QED
    BY <1>1, <1>3 DEF Listed, NoStreamForgotten, Linked

\* A step that moves streams from list to list keeps them.
LEMMA MoveKeeps ==
    ASSUME Inv, Apart(active, blocked)',
           ToSet(active') \cup ToSet(blocked')
             = ToSet(active) \cup ToSet(blocked),
           UNCHANGED <<fresh, lost, window, failed>>
    PROVE  Listed'
  BY DEF Inv, Listed, NoStreamForgotten, Linked, CanSend

\* What was blocked goes to the front of the active list.
LEMMA SpliceKeeps ==
    ASSUME Inv, Splice
    PROVE  /\ Apart(active, blocked)'
           /\ ToSet(active') \cup ToSet(blocked')
                = ToSet(active) \cup ToSet(blocked)
  <1>1. active' = blocked \o active /\ blocked' = <<>>
    BY DEF Splice
  <1>2. /\ IsList(active')
        /\ ToSet(active') = ToSet(blocked) \cup ToSet(active)
    BY <1>1, ListConcat DEF Inv, Apart
  <1>3. IsList(<<>>) /\ ToSet(<<>>) = {}
    BY DEF IsList, ToSet
  <1>4. QED
    BY <1>1, <1>2, <1>3 DEF Apart

\* The loop takes the first active stream.
LEMMA FirstParts ==
    ASSUME Inv, NEW s \in Streams, First(s)
    PROVE  /\ IsList(Tail(active))
           /\ s \in ToSet(active)
           /\ ToSet(Tail(active)) = ToSet(active) \ {s}
           /\ Apart(Tail(active), blocked)
           /\ s \notin ToSet(blocked)
           /\ CanSend(s, TRUE)
  <1>1. IsList(active) /\ active # <<>> /\ s = Head(active)
    BY DEF Inv, Apart, First
  <1>2. /\ IsList(Tail(active)) /\ s \in ToSet(active)
        /\ ToSet(Tail(active)) = ToSet(active) \ {s}
    BY <1>1, ListTail
  <1>3. QED
    BY <1>2 DEF Inv, Apart, Listed, Linked

-----------------------------------------------------------------------------
(* The steps *)

\* The callbacks, each of which ends with update_state.
LEMMA CallbackKeeps ==
    ASSUME Inv, NEW s \in Streams,
           \/ WriteStream(s) \/ Acked(s) \/ DeclareLost(s)
           \/ MaxStreamData(s) \/ ResetStream(s)
    PROVE  Inv'
  <1>1. UpdateState(s) /\ UNCHANGED <<pc, saturated, turn>>
    BY DEF WriteStream, Acked, DeclareLost, MaxStreamData, ResetStream, Quiet
  <1>2. DataOK'
    <2>1. failed' \subseteq Streams
      BY <1>1 DEF UpdateState, Inv, DataOK
    <2>2. CASE WriteStream(s)
      BY <1>1, <2>1, <2>2, SchedulerAssumption DEF WriteStream, Inv, DataOK
    <2>3. CASE Acked(s)
      BY <1>1, <2>1, <2>3, SchedulerAssumption DEF Acked, Inv, DataOK
    <2>4. CASE DeclareLost(s)
      BY <1>1, <2>1, <2>4, SchedulerAssumption DEF DeclareLost, Inv, DataOK
    <2>5. CASE MaxStreamData(s)
      BY <1>1, <2>1, <2>5, SchedulerAssumption DEF MaxStreamData, Inv, DataOK
    <2>6. CASE ResetStream(s)
      BY <1>1, <2>1, <2>6, SchedulerAssumption DEF ResetStream, Inv, DataOK
    <2>7. QED
      BY <2>2, <2>3, <2>4, <2>5, <2>6
  <1>3. ASSUME NEW t \in Streams, t # s
        PROVE  /\ fresh'[t] = fresh[t] /\ lost'[t] = lost[t]
               /\ window'[t] = window[t]
    BY <1>3
    DEF WriteStream, Acked, DeclareLost, MaxStreamData, ResetStream, Inv, DataOK
  <1>4. \A t \in Streams \ {s} : CanSend(t, TRUE)' <=> CanSend(t, TRUE)
    BY <1>3 DEF CanSend
  <1>5. QED
    BY <1>1, <1>2, <1>4, UpdateKeeps DEF Inv

\* What quicly_send_stream does to the data is about its own stream.
LEMMA EmitParts ==
    ASSUME DataOK, NEW s \in Streams, Emit(s)
    PROVE  /\ fresh' \in [Streams -> 0..MaxFresh]
           /\ lost' \in [Streams -> Nat]
           /\ flight' \in [Streams -> 0..MaxFlight]
           /\ window' \in [Streams -> 0..MaxWindow]
           /\ credit' \in 0..MaxCredit
           /\ \A t \in Streams \ {s} : CanSend(t, TRUE)' <=> CanSend(t, TRUE)
  <1>1. CASE /\ lost[s] > 0 /\ flight[s] < MaxFlight
             /\ lost' = [lost EXCEPT ![s] = @ - 1]
             /\ flight' = [flight EXCEPT ![s] = @ + 1]
             /\ UNCHANGED <<fresh, window, credit>>
    BY <1>1, SchedulerAssumption DEF DataOK, CanSend
  <1>2. CASE /\ fresh[s] > 0 /\ window[s] > 0 /\ credit > 0
             /\ flight[s] < MaxFlight
             /\ fresh' = [fresh EXCEPT ![s] = @ - 1]
             /\ flight' = [flight EXCEPT ![s] = @ + 1]
             /\ window' = [window EXCEPT ![s] = @ - 1]
             /\ credit' = credit - 1
             /\ UNCHANGED lost
    BY <1>2, SchedulerAssumption DEF DataOK, CanSend
  <1>3. CASE UNCHANGED data
    BY <1>3 DEF DataOK, CanSend, data
  <1>4. QED
    BY <1>1, <1>2, <1>3 DEF Emit

\* An iteration of the loop.
LEMMA SendKeeps ==
    ASSUME Inv, NEW s \in Streams, Send(s)
    PROVE  Inv'
  <1>1. Apart(Tail(active), blocked) /\ First(s)
    BY FirstParts DEF Send, Sendable
  <1>2. DataOK'
    BY EmitParts DEF Send, Inv, DataOK
  <1> DEFINE rest == (ToSet(active) \cup ToSet(blocked)) \ {s}
             new == ToSet(active') \cup ToSet(blocked')
  <1>3. ToSet(Tail(active)) \cup ToSet(blocked) = rest
    BY <1>1, FirstParts
  <1>4. /\ Apart(active, blocked)'
        /\ new = IF CanSend(s, TRUE)' THEN rest \cup {s} ELSE rest
    <2>1. CASE CanSend(s, TRUE)'
      <3>1. Link(Tail(active), s, credit' = 0)
        BY <2>1 DEF Send
      <3>2. QED
        BY <1>1, <1>3, <2>1, <3>1, LinkKeeps
    <2>2. CASE ~CanSend(s, TRUE)'
      BY <1>1, <1>3, <2>2 DEF Send
    <2>3. QED
      BY <2>1, <2>2
  <1>5. failed' = failed
    BY DEF Send
  <1>6. ASSUME NEW t \in Streams
        PROVE  /\ t \in new => CanSend(t, TRUE)'
               /\ CanSend(t, TRUE)' => t \in new \/ t \in failed'
    <2>1. CASE t = s
      BY <1>4, <2>1
    <2>2. CASE t # s
      <3>1. CanSend(t, TRUE)' <=> CanSend(t, TRUE)
        BY <2>2, EmitParts DEF Send, Inv
      <3>2. /\ t \in rest => CanSend(t, TRUE)
            /\ CanSend(t, TRUE) => t \in rest \/ t \in failed
        BY <2>2 DEF Inv, Listed, NoStreamForgotten, Linked
      <3>3. t \in new <=> t \in rest
        <4> HIDE DEF rest, new
        <4>1. new = rest \cup {s} \/ new = rest
          BY <1>4
        <4>2. QED
          BY <2>2, <4>1
      <3>4. QED
        BY <1>5, <3>1, <3>2, <3>3
    <2>3. QED
      BY <2>1, <2>2
  <1>7. QED
    BY <1>2, <1>4, <1>6 DEF Inv, Listed, NoStreamForgotten, Linked

\* The other ways out of an iteration.
LEMMA LoopKeeps ==
    ASSUME Inv, NEW s \in Streams,
           SendBlocked(s) \/ SendFull(s) \/ SendFails(s)
    PROVE  Inv'
  <1>1. First(s)
    BY DEF SendBlocked, SendFull, SendFails, Sendable
  <1>2. DataOK'
    BY DEF SendBlocked, SendFull, SendFails, Inv, DataOK, data
  <1>3. CASE SendBlocked(s)
    <2>1. active' = Tail(active) /\ blocked' = Append(blocked, s)
      BY <1>3 DEF SendBlocked
    <2>2. IsList(blocked') /\ ToSet(blocked') = ToSet(blocked) \cup {s}
      BY <1>1, <2>1, FirstParts, ListAppend DEF Inv, Apart
    <2>3. Apart(active, blocked)'
      BY <1>1, <2>1, <2>2, FirstParts DEF Inv, Apart
    <2>4. ToSet(active') \cup ToSet(blocked')
          = ToSet(active) \cup ToSet(blocked)
      BY <1>1, <2>1, <2>2, FirstParts
    <2>5. UNCHANGED <<fresh, lost, window, failed>>
      BY <1>3 DEF SendBlocked, data
    <2>6. QED
      BY <1>2, <2>3, <2>4, <2>5, MoveKeeps DEF Inv
  <1>4. CASE SendFull(s)
    <2>1. Link(Tail(active), s, saturated)
      BY <1>4 DEF SendFull
    <2>2. /\ Apart(active, blocked)'
          /\ ToSet(active') \cup ToSet(blocked')
               = ToSet(Tail(active)) \cup ToSet(blocked) \cup {s}
      BY <1>1, <2>1, FirstParts, LinkKeeps
    <2>3. ToSet(active') \cup ToSet(blocked')
          = ToSet(active) \cup ToSet(blocked)
      BY <1>1, <2>2, FirstParts
    <2>4. UNCHANGED <<fresh, lost, window, failed>>
      BY <1>4 DEF SendFull, data
    <2>5. QED
      BY <1>2, <2>2, <2>3, <2>4, MoveKeeps DEF Inv
  <1>5. CASE SendFails(s)
    <2>1. /\ active' = Tail(active) /\ blocked' = blocked
          /\ failed' = failed \cup {s}
          /\ UNCHANGED <<fresh, lost, window>>
      BY <1>5 DEF SendFails, data
    <2>2. Apart(active, blocked)'
      BY <1>1, <2>1, FirstParts
    <2>3. ToSet(active') = ToSet(active) \ {s}
      BY <1>1, <2>1, FirstParts
    <2>4. \A t \in Streams : CanSend(t, TRUE)' <=> CanSend(t, TRUE)
      BY <2>1 DEF CanSend
    <2>5. Listed'
      BY <2>1, <2>3, <2>4 DEF Inv, Listed, NoStreamForgotten, Linked
    <2>6. QED
      BY <1>2, <2>2, <2>5 DEF Inv
  <1>6. QED
    BY <1>3, <1>4, <1>5

\* Steps of no stream.
LEMMA OtherKeeps ==
    ASSUME Inv, MaxData \/ CanSendCall \/ DoSend \/ SendStop \/ SendDone
                \/ UNCHANGED vars
    PROVE  Inv'
  <1>1. DataOK'
    <2>1. CASE MaxData
      BY <2>1, SchedulerAssumption DEF MaxData, Quiet, Inv, DataOK
    <2>2. CASE CanSendCall
      BY <2>2 DEF CanSendCall, Quiet, data, Inv, DataOK
    <2>3. CASE DoSend
      <3>1. saturated' \in BOOLEAN
        BY <2>3 DEF DoSend, IsBlocked
      <3>2. QED
        BY <2>3, <3>1 DEF DoSend, data, Inv, DataOK
    <2>4. CASE SendStop \/ SendDone
      BY <2>4 DEF SendStop, SendDone, data, Inv, DataOK
    <2>5. CASE UNCHANGED vars
      BY <2>5 DEF vars, data, Inv, DataOK
    <2>6. QED
      BY <2>1, <2>2, <2>3, <2>4, <2>5
  <1>2. Splice \/ UNCHANGED lists
    BY DEF MaxData, CanSendCall, DoSend, SendStop, SendDone, lists, vars
  <1>3. UNCHANGED <<fresh, lost, window, failed>>
    BY DEF MaxData, CanSendCall, DoSend, SendStop, SendDone, data, vars
  <1>4. CASE Splice
    BY <1>1, <1>3, <1>4, SpliceKeeps, MoveKeeps DEF Inv
  <1>5. CASE UNCHANGED lists
    <2>1. Apart(active, blocked)'
      BY <1>5 DEF Inv, Apart, lists
    <2>2. ToSet(active') \cup ToSet(blocked')
          = ToSet(active) \cup ToSet(blocked)
      BY <1>5 DEF lists
    <2>3. QED
      BY <1>1, <1>3, <2>1, <2>2, MoveKeeps DEF Inv
  <1>6. QED
    BY <1>2, <1>4, <1>5

LEMMA InvStart == ASSUME Init PROVE Inv
  <1>1. DataOK
    <2>1. \A n \in Nat : 0 \in 0..n
      OBVIOUS
    <2>2. QED
      BY <2>1, SchedulerAssumption DEF Init, DataOK
  <1>2. IsList(<<>>) /\ ToSet(<<>>) = {}
    BY DEF IsList, ToSet
  <1>3. Listed
    BY <1>2 DEF Init, Listed, NoStreamForgotten, Linked, CanSend
  <1>4. QED
    BY <1>1, <1>2, <1>3 DEF Init, Inv, Apart

LEMMA InvKept == ASSUME Inv, [Next]_vars PROVE Inv'
  BY CallbackKeeps, SendKeeps, LoopKeeps, OtherKeeps DEF Next

-----------------------------------------------------------------------------
(* The theorems *)

\* Two lists that are apart are one list without repetition.
LEMMA InvTyped == ASSUME Inv PROVE TypeOK
  <1>1. IsList(active \o blocked)
    BY ListConcat DEF Inv, Apart
  <1>2. IsInjective(active \o blocked)
    <2>1. DOMAIN (active \o blocked) = 1..Len(active \o blocked)
      BY <1>1 DEF IsList
    <2>2. QED
      BY <1>1, <2>1 DEF IsList, IsInjective
  <1>3. QED
    BY <1>2 DEF Inv, DataOK, Apart, IsList, TypeOK

\* No stream is linked twice, whatever the callbacks and the loop do: the lists
\* of bindings_linux.cpp stay intrusive.
THEOREM ListsCorrect == Spec => []TypeOK
  <1>1. QED
    BY InvStart, InvKept, InvTyped, PTL DEF Spec

\* A stream that has something to send is in one of the lists, unless the last
\* attempt to send it failed.
THEOREM NoneForgotten == Spec => []NoStreamForgotten
  <1>1. Inv => NoStreamForgotten
    BY DEF Inv, Listed
  <1>2. QED
    BY <1>1, InvStart, InvKept, PTL DEF Spec

\* The assertion of do_send: the stream it has taken can send.
THEOREM AssertionHolds == Spec => []SendbufFullAssert
  <1>1. Inv => SendbufFullAssert
    BY FirstParts DEF SendbufFullAssert, Sendable
  <1>2. QED
    BY <1>1, InvStart, InvKept, PTL DEF Spec

-----------------------------------------------------------------------------
(* The loop of do_send *)

\* An iteration after which the loop goes on.
LoopStep == pc = "sending" /\ pc' = "sending"

\* What is left to send, unit by unit, and to look at: each stream's units are
\* numbered from 1.
Units == UNION {{s} \X (1..fresh[s] + lost[s]) : s \in Streams}
Work == Cardinality(Units) + Len(active)

\* Which units there are.
LEMMA UnitsAre ==
    \A t, i : <<t, i>> \in Units <=>
              t \in Streams /\ i \in 1..fresh[t] + lost[t]
  BY DEF Units

\* Finitely many streams have finitely many units to send.
LEMMA UnitsFinite ==
    ASSUME IsFiniteSet(Streams), DataOK
    PROVE  IsFiniteSet(Units) /\ Cardinality(Units) \in Nat
  <1> DEFINE of == [s \in Streams |-> {s} \X (1..fresh[s] + lost[s])]
             all == {of[s] : s \in Streams}
  <1>1. IsFiniteSet(all)
    <2>1. of \in Surjection(Streams, all)
      BY DEF Surjection
    <2>2. QED
      <3> HIDE DEF of, all
      <3>1. QED
        BY <2>1, FS_Surjection
  <1>2. ASSUME NEW s \in Streams PROVE IsFiniteSet(of[s])
    <2>1. fresh[s] + lost[s] \in Int /\ 1 \in Int
      BY DEF DataOK
    <2>2. IsFiniteSet(1..fresh[s] + lost[s])
      BY <2>1, FS_Interval
    <2>3. IsFiniteSet({s} \X (1..fresh[s] + lost[s]))
      BY <2>2, FS_Singleton, FS_Product
    <2>4. QED
      BY <2>3
  <1>3. Units = UNION all
    BY DEF Units
  <1>4. IsFiniteSet(UNION all)
    <2>1. \A T \in all : IsFiniteSet(T)
      BY <1>2
    <2>2. QED
      <3> HIDE DEF all
      <3>1. QED
        BY <1>1, <2>1, FS_UNION
  <1>5. QED
    BY <1>3, <1>4, FS_CardinalityType

\* What is sent is one unit less to send.
LEMMA EmitShrinks ==
    ASSUME Inv, NEW s \in Streams, Emit(s), CanSend(s, TRUE)
    PROVE  \/ \E u \in Units : Units' = Units \ {u}
           \/ UNCHANGED data /\ lost[s] = 0 /\ credit = 0
  <1>1. \A t \in Streams : fresh[t] \in Nat /\ lost[t] \in Nat
    BY SchedulerAssumption DEF Inv, DataOK
  <1>2. window[s] \in Nat /\ credit \in Nat
    BY SchedulerAssumption DEF Inv, DataOK
  <1>3. fresh \in [Streams -> Nat] /\ lost \in [Streams -> Nat]
    BY <1>1 DEF Inv, DataOK
  <1> DEFINE n == fresh[s] + lost[s]
             u == <<s, n>>
  <1>4. ASSUME n > 0, fresh'[s] + lost'[s] = n - 1,
               \A t \in Streams \ {s} :
                  fresh'[t] = fresh[t] /\ lost'[t] = lost[t]
        PROVE  u \in Units /\ Units' = Units \ {u}
    <2>1. n \in Nat
      BY <1>1
    <2>2. u \in Units
      BY <1>4, <2>1, UnitsAre
    <2>3. ASSUME NEW t, NEW i
          PROVE  <<t, i>> \in Units' <=> <<t, i>> \in Units \ {u}
      <3>1. <<t, i>> \in Units' <=>
            t \in Streams /\ i \in 1..fresh'[t] + lost'[t]
        BY DEF Units
      <3>2. <<t, i>> \in Units <=> t \in Streams /\ i \in 1..fresh[t] + lost[t]
        BY UnitsAre
      <3>3. CASE t = s
        <4>1. i \in 1..n - 1 <=> i \in 1..n /\ i # n
          BY <2>1
        <4>2. <<t, i>> = u <=> i = n
          BY <3>3
        <4>3. QED
          BY <1>4, <3>1, <3>2, <3>3, <4>1, <4>2
      <3>4. CASE t # s
        BY <1>4, <3>1, <3>2, <3>4
      <3>5. QED
        BY <3>3, <3>4
    <2>4. /\ \A x \in Units : \E t, i : x = <<t, i>>
          /\ \A x \in Units' : \E t, i : x = <<t, i>>
      BY DEF Units
    <2>5. QED
      BY <2>2, <2>3, <2>4
  <1> HIDE DEF u
  <1>5. CASE /\ lost[s] > 0 /\ lost' = [lost EXCEPT ![s] = @ - 1]
             /\ fresh' = fresh
    <2>1. /\ n > 0 /\ fresh'[s] + lost'[s] = n - 1
          /\ \A t \in Streams \ {s} :
                fresh'[t] = fresh[t] /\ lost'[t] = lost[t]
      BY <1>1, <1>3, <1>5
    <2>2. QED
      BY <1>4, <2>1
  <1>6. CASE /\ fresh[s] > 0 /\ fresh' = [fresh EXCEPT ![s] = @ - 1]
             /\ lost' = lost
    <2>1. /\ n > 0 /\ fresh'[s] + lost'[s] = n - 1
          /\ \A t \in Streams \ {s} :
                fresh'[t] = fresh[t] /\ lost'[t] = lost[t]
      BY <1>1, <1>3, <1>6
    <2>2. QED
      BY <1>4, <2>1
  <1>7. CASE /\ lost[s] = 0
             /\ fresh[s] = 0 \/ window[s] = 0 \/ credit = 0
             /\ UNCHANGED data
    BY <1>1, <1>2, <1>7 DEF CanSend
  <1>8. QED
    BY <1>5, <1>6, <1>7 DEF Emit

\* What an iteration leaves of the active list: all of it but its head, which
\* may be behind the others again.
LEMMA ActiveMoves ==
    ASSUME Inv, NEW s \in Streams, SendBlocked(s) \/ Send(s)
    PROVE  active' = Tail(active) \/ active' = Append(Tail(active), s)
  BY DEF SendBlocked, Send, Link

\* The head goes behind the others only if something of it was sent.
LEMMA SendShrinks ==
    ASSUME Inv, NEW s \in Streams, SendBlocked(s) \/ Send(s)
    PROVE  \/ \E u \in Units : Units' = Units \ {u}
           \/ Units' = Units /\ active' = Tail(active)
  <1>1. CASE SendBlocked(s)
    BY <1>1 DEF SendBlocked, data, Units
  <1>2. CASE Send(s)
    <2>1. First(s) /\ Emit(s)
      BY <1>2 DEF Send, Sendable
    <2>2. CanSend(s, TRUE)
      BY <2>1, FirstParts
    <2>3. CASE UNCHANGED data /\ lost[s] = 0 /\ credit = 0
      <3>1. Units' = Units
        BY <2>3 DEF data, Units
      <3>2. credit' = 0 /\ ~CanSend(s, FALSE)'
        BY <2>3 DEF data, CanSend
      <3>3. active' = Tail(active)
        BY <1>2, <3>2 DEF Send, Link
      <3>4. QED
        BY <3>1, <3>3
    <2>4. QED
      BY <2>1, <2>2, <2>3, EmitShrinks
  <1>3. QED
    BY <1>1, <1>2

\* Only an iteration that blocks or sends the first stream goes on.
LEMMA LoopSteps ==
    ASSUME Next, LoopStep
    PROVE  \E s \in Streams : SendBlocked(s) \/ Send(s)
  BY DEF Next, LoopStep, WriteStream, Acked, DeclareLost, MaxStreamData,
         ResetStream, SendFull, SendFails, MaxData, CanSendCall, DoSend,
         SendStop, SendDone, Quiet

\* The loop of do_send runs under global_lock: each iteration leaves less work,
\* so that it ends by itself after at most as many as there is work, whatever
\* quicly_can_send_data says.
THEOREM LoopShrinks ==
    ASSUME IsFiniteSet(Streams)
    PROVE  Spec => [][LoopStep => Work \in Nat /\ Work' < Work]_vars
  <1>1. ASSUME Inv, Inv', Next, LoopStep
        PROVE  Work \in Nat /\ Work' < Work
    <2>1. PICK s \in Streams : SendBlocked(s) \/ Send(s)
      BY <1>1, LoopSteps
    <2>2. active \in Seq(Streams) /\ active # <<>> /\ s = Head(active)
      BY <1>1, <2>1 DEF SendBlocked, Send, Sendable, First, Inv, Apart, IsList
    <2>3. /\ Len(active) \in Nat /\ Len(active) > 0
          /\ Len(Tail(active)) = Len(active) - 1
          /\ Len(Append(Tail(active), s)) = Len(active)
      BY <2>2
    <2>4. IsFiniteSet(Units) /\ Cardinality(Units) \in Nat
      BY <1>1, UnitsFinite DEF Inv
    <2>5. CASE \E u \in Units : Units' = Units \ {u}
      <3>1. Cardinality(Units') = Cardinality(Units) - 1
        BY <2>4, <2>5, FS_RemoveElement
      <3>2. Len(active') \in Nat /\ Len(active') <= Len(active)
        BY <1>1, <2>1, <2>3, ActiveMoves
      <3>3. QED
        BY <2>3, <2>4, <3>1, <3>2 DEF Work
    <2>6. CASE Units' = Units /\ active' = Tail(active)
      BY <2>3, <2>4, <2>6 DEF Work
    <2>7. QED
      BY <1>1, <2>1, <2>5, <2>6, SendShrinks
  <1>2. Inv /\ Inv' /\ [Next]_vars
        => [LoopStep => Work \in Nat /\ Work' < Work]_vars
    BY <1>1
  <1>3. QED
    BY <1>2, InvStart, InvKept, PTL DEF Spec

\* Round robin: while the loop goes on, every stream that waits in the active
\* list comes one place forward, so none is sent for twice before it.
THEOREM WaitersAdvance ==
    Spec => [][LoopStep => \A i \in 2..Len(active) :
                              i - 1 \in 1..Len(active')
                              /\ active'[i - 1] = active[i]]_vars
  <1>1. ASSUME Inv, Next, LoopStep, NEW i \in 2..Len(active)
        PROVE  i - 1 \in 1..Len(active') /\ active'[i - 1] = active[i]
    <2>1. PICK s \in Streams : SendBlocked(s) \/ Send(s)
      BY <1>1, LoopSteps
    <2>2. active \in Seq(Streams) /\ active # <<>>
      BY <1>1, <2>1 DEF SendBlocked, Send, Sendable, First, Inv, Apart, IsList
    <2> DEFINE q == Tail(active)
    <2>3. /\ q \in Seq(Streams) /\ Len(q) = Len(active) - 1
          /\ Len(active) \in Nat /\ i - 1 \in 1..Len(q)
          /\ q[i - 1] = active[i]
      BY <2>2
    <2> HIDE DEF q
    <2>4. CASE active' = q
      BY <2>3, <2>4
    <2>5. CASE active' = Append(q, s)
      <3>1. /\ Len(Append(q, s)) = Len(q) + 1
            /\ Append(q, s)[i - 1] = q[i - 1]
        BY <2>3
      <3>2. i - 1 \in 1..Len(q) + 1
        BY <2>3
      <3>3. QED
        BY <2>3, <2>5, <3>1, <3>2
    <2>6. QED
      BY <1>1, <2>1, <2>4, <2>5, ActiveMoves DEF q
  <1>2. Inv /\ [Next]_vars
        => [LoopStep => \A i \in 2..Len(active) :
                           i - 1 \in 1..Len(active')
                           /\ active'[i - 1] = active[i]]_vars
    BY <1>1
  <1>3. QED
    BY <1>2, InvStart, InvKept, PTL DEF Spec

=============================================================================
