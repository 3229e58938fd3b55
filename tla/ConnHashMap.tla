----------------------------- MODULE ConnHashMap -----------------------------
(***************************************************************************)
(* The table under the engine's map of connections: bindings/hashmap.c, an *)
(* open-addressed table with robin-hood probing, as hashmap_new sets it up *)
(* for QuiclyInitializeEngine.  A key is an id, a value a connection.      *)
(*                                                                         *)
(* A bucket's dib is 0 if it is empty, and else one more than its distance *)
(* from the bucket its key hashes to.  The calls are made under the        *)
(* engine's global_lock, so each is one step.  Nobody reads what a set or a *)
(* delete returns.                                                         *)
(***************************************************************************)
EXTENDS Integers, Sequences, FiniteSets

CONSTANTS
    Items,    \* the pairs of an id and a connection that are stored
    None,     \* no id, no connection
    HashOf,   \* the hash of each id: the id itself, clipped to 48 bits
    Cap       \* the capacity of a new map (16)

Keys == {item[1] : item \in Items}
Values == {item[2] : item \in Items}

ASSUME HashMapAssumption ==
    /\ IsFiniteSet(Items) /\ Items \subseteq Keys \X Values
    /\ Cap \in Nat /\ Cap > 1
    /\ HashOf \in [Keys -> Nat]
    /\ None \notin Keys \cup Values

VARIABLES
    buckets,  \* the buckets, numbered from 0
    count,    \* map->count
    oom       \* map->oom: the last item found no memory and was not stored

vars == <<buckets, count, oom>>

Empty == [key |-> None, val |-> None, dib |-> 0]
New(n) == [i \in 0..n - 1 |-> Empty]
Size(b) == Cardinality(DOMAIN b)
GrowAt(n) == (n * 60) \div 100
ShrinkAt(n) == (n * 10) \div 100

\* The bucket a probe for key k looks at after j steps.
Slot(b, k, j) == (HashOf[k] + j) % Size(b)

Init == buckets = New(Cap) /\ count = 0 /\ oom = FALSE

-----------------------------------------------------------------------------
(* Finding a key *)

\* The first of the steps at which a probe stops.
First(steps, Stops(_)) ==
    CHOOSE j \in steps : Stops(j) /\ \A i \in steps : i < j => ~Stops(i)

\* Where the probe for k ends: at an empty bucket or at k.
Probe(b, k) ==
    LET Stops(j) == b[Slot(b, k, j)].dib = 0 \/ b[Slot(b, k, j)].key = k
    IN  Slot(b, k, First(0..Size(b) - 1, Stops))

\* hashmap_get: an empty bucket has no value.
Get(b, k) == b[Probe(b, k)].val

\* hashmap_iter, from a cursor of 0 to the end.
Iteration(b) ==
    LET seen[i \in 0..Size(b)] ==
            IF i = 0 THEN <<>>
            ELSE IF b[i - 1].dib = 0 THEN seen[i - 1]
            ELSE Append(seen[i - 1], b[i - 1])
    IN  seen[Size(b)]

-----------------------------------------------------------------------------
(* Inserting an item *)

\* One step of the probe that inserts: [at |-> the buckets, hand |-> the entry
\* being carried, old |-> the value it replaced, done |-> it has been put down].
\* An entry that is farther from home than the one it meets takes its place.
Carry(probe, j) ==
    LET here   == Slot(probe.at, probe.home, j)
        bucket == probe.at[here]
        hand   == probe.hand
        next   == [probe EXCEPT !.hand.dib = @ + 1]
    IN  IF probe.done THEN probe
        ELSE IF bucket.dib = 0 THEN
            [probe EXCEPT !.at[here] = hand, !.done = TRUE]
        ELSE IF bucket.key = hand.key THEN
            [probe EXCEPT !.at[here].val = hand.val,
                          !.old = bucket.val,
                          !.done = TRUE]
        ELSE IF bucket.dib < hand.dib THEN
            [probe EXCEPT !.at[here] = hand,
                          !.hand = [bucket EXCEPT !.dib = @ + 1]]
        ELSE next

\* The probe that puts an item into b.
Insert(b, k, v) ==
    LET probe[j \in 0..Size(b)] ==
            IF j = 0
              THEN [at |-> b, home |-> k, old |-> None, done |-> FALSE,
                    hand |-> [key |-> k, val |-> v, dib |-> 1]]
              ELSE Carry(probe[j - 1], j - 1)
    IN  probe[Size(b)]

\* Defect: the loop over the old buckets ends with the new capacity.
ResizeShort(b, n) ==
    LET new[i \in 0..n] ==
            IF i = 0 THEN New(n)
            ELSE IF i > Size(b) THEN new[i - 1]
            ELSE IF b[i - 1].dib = 0 THEN new[i - 1]
            ELSE Insert(new[i - 1], b[i - 1].key, b[i - 1].val).at
    IN  new[n]

\* resize0: every entry, in the order of the old buckets, goes to a new table.
Resize(b, n) ==
    LET new[i \in 0..Size(b)] ==
            IF i = 0 THEN New(n)
            ELSE IF b[i - 1].dib = 0 THEN new[i - 1]
            ELSE Insert(new[i - 1], b[i - 1].key, b[i - 1].val).at
    IN  new[Size(b)]

Grows(b) == count >= GrowAt(Size(b))

\* hashmap_set: a table that is full grows first, even for a key it has.
Set(k, v) ==
    LET room  == IF Grows(buckets) THEN Resize(buckets, 2 * Size(buckets))
                                   ELSE buckets
        probe == Insert(room, k, v)
    IN  /\ buckets' = probe.at
        /\ count' = IF probe.old = None THEN count + 1 ELSE count
        /\ oom' = FALSE

\* There is no memory to grow.
SetFails ==
    /\ Grows(buckets)
    /\ oom' = TRUE
    /\ UNCHANGED <<buckets, count>>

-----------------------------------------------------------------------------
(* Deleting a key *)

\* Defect: the hole is left as it is.
CloseOpen(b, hole) == [b EXCEPT ![hole] = Empty]

\* Defect: entries that are at home move, too.
CloseTooFar(b, hole) ==
    LET n    == Size(b)
        run  == First(1..n, LAMBDA j : b[(hole + j) % n].dib = 0)
        Back(i) == (i - hole + n) % n
    IN  [i \in DOMAIN b |->
            IF Back(i) >= run THEN b[i]
            ELSE IF Back(i) = run - 1 THEN Empty
            ELSE [b[(i + 1) % n] EXCEPT !.dib = @ - 1]]

\* The entries behind a hole move back by one, up to one that is at home.
Close(b, hole) ==
    LET n    == Size(b)
        run  == First(1..n, LAMBDA j : b[(hole + j) % n].dib <= 1)
        Back(i) == (i - hole + n) % n
    IN  [i \in DOMAIN b |->
            IF Back(i) >= run THEN b[i]
            ELSE IF Back(i) = run - 1 THEN Empty
            ELSE [b[(i + 1) % n] EXCEPT !.dib = @ - 1]]

\* hashmap_delete, which shrinks the table if there is memory for a new one.
Delete(k) ==
    LET place  == Probe(buckets, k)
        closed == Close(buckets, place)
        n      == Size(buckets)
    IN  /\ oom' = FALSE
        /\ IF buckets[place].dib = 0 THEN UNCHANGED <<buckets, count>>
           ELSE /\ count' = count - 1
                /\ \/ buckets' = closed
                   \/ /\ n > Cap /\ count' <= ShrinkAt(n)
                      /\ buckets' = Resize(closed, n \div 2)

Next ==
    \/ \E item \in Items : Set(item[1], item[2])
    \/ SetFails
    \/ \E k \in Keys : Delete(k)

Spec == Init /\ [][Next]_vars

-----------------------------------------------------------------------------
(* Properties *)

Occupied == {i \in DOMAIN buckets : buckets[i].dib # 0}

PowerOf2[p \in Nat] == IF p = 0 THEN 1 ELSE 2 * PowerOf2[p - 1]

\* The table has doubled a number of times, which is what its mask relies on.
TypeOK ==
    /\ \E p \in 0..Cardinality(Keys) :
          DOMAIN buckets = 0..Cap * PowerOf2[p] - 1
    /\ \A i \in Occupied : <<buckets[i].key, buckets[i].val>> \in Items
    /\ \A i \in DOMAIN buckets \ Occupied : buckets[i] = Empty
    /\ count = Cardinality(Occupied)
    /\ oom \in BOOLEAN

\* An entry is as far from home as its dib says, with no empty bucket and no
\* entry nearer to its own home on the way.
RobinHood ==
    \A i \in Occupied :
        LET here   == buckets[i]
            before == buckets[(i - 1) % Size(buckets)]
        IN  /\ Slot(buckets, here.key, here.dib - 1) = i
            /\ here.dib > 1 => before.dib >= here.dib - 1

\* The load never exceeds 60%, which is what ends every probe.
LoadBounded == count <= GrowAt(Size(buckets))

\* What hashmap_get and hashmap_delete rely on when they stop at the first empty
\* bucket, through growing, shrinking and failing to: every entry can be reached
\* from its home, there is an empty bucket, and the count is that of the entries.
TableSound == TypeOK /\ RobinHood /\ LoadBounded

\* get_connection_uuid and the sweep of QuiclyProcessMsg see every connection,
\* once, and what they see is what get_connection finds.
IterationComplete ==
    LET seen == Iteration(buckets) IN
    /\ {seen[n].key : n \in DOMAIN seen} =
       {k \in Keys : Get(buckets, k) # None}
    /\ \A n \in DOMAIN seen : /\ seen[n].val = Get(buckets, seen[n].key)
                              /\ \A m \in 1..n - 1 : seen[m].key # seen[n].key

\* The table is a map: see KeyedMap.
Map == INSTANCE KeyedMap WITH value <- [k \in Keys |-> Get(buckets, k)]
MapSpec == Map!Spec

=============================================================================
