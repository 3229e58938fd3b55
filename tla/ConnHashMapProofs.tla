------------------------- MODULE ConnHashMapProofs -------------------------
(***************************************************************************)
(* Theorems about ConnHashMap: its invariants, and that it is a map, for    *)
(* any set of ids, any hashes and any first capacity.                      *)
(*                                                                         *)
(* A table of n buckets is Sound if each entry is where its dib says, the   *)
(* bucket before an entry that is not at home holds one that is at most one *)
(* step nearer to its own, and no key is there twice.  The loops of the    *)
(* code keep that, each with an invariant of its own: the probe that        *)
(* inserts (ProbeInv, Seeking), the move to a new table (Moved), and the   *)
(* entries that follow a hole (CloseSound).  With the load factor, which    *)
(* leaves an empty bucket (Roomy), a probe that ends at an empty bucket has *)
(* seen all places where its key could be (ProbeFinds).                    *)
(***************************************************************************)
EXTENDS ConnHashMap, Induction

-----------------------------------------------------------------------------
(* Powers of two *)

\* The recursive definition of the powers of two holds.
LEMMA PowerOf2Rule ==
    /\ PowerOf2[0] = 1
    /\ \A p \in Nat : PowerOf2[p + 1] = 2 * PowerOf2[p]
    /\ \A p \in Nat : PowerOf2[p] \in Nat
<1> DEFINE Is(f) == f = [p \in Nat |-> IF p = 0 THEN 1 ELSE 2 * f[p - 1]]
           step == [x \in Nat \X Nat |-> 2 * x[1]]
<1>1. PowerOf2 = CHOOSE f : Is(f)
  BY Zenon DEF PowerOf2
<1>2. PICK f \in [Nat -> Nat] : Unfolds(f, 1, step)
  <2>1. step \in [Nat \X Nat -> Nat] /\ 1 \in Nat
    OBVIOUS
  <2> HIDE DEF step
  <2> QED
    BY <2>1, Recursion
<1>3. ASSUME NEW p \in Nat
      PROVE  f[p] = IF p = 0 THEN 1 ELSE 2 * f[p - 1]
  <2>1. CASE p # 0
    <3>1. p - 1 \in Nat /\ (p - 1) + 1 = p
      BY <2>1
    <3>2. f[(p - 1) + 1] = 2 * f[p - 1]
      BY <1>2, <3>1 DEF Unfolds
    <3> QED
      BY <2>1, <3>1, <3>2
  <2> QED
    BY <1>2, <2>1 DEF Unfolds
<1>4. Is(f)
  <2>1. f = [p \in Nat |-> f[p]]
    OBVIOUS
  <2> QED
    BY <1>3, <2>1
<1>5. Is(PowerOf2)
  <2> HIDE DEF Is
  <2> QED
    BY <1>1, <1>4, Zenon
<1>6. /\ PowerOf2[0] = 1
      /\ \A p \in Nat : PowerOf2[p + 1] = 2 * PowerOf2[p]
  <2>1. \A p \in Nat : p + 1 # 0 /\ (p + 1) - 1 = p /\ p + 1 \in Nat
    OBVIOUS
  <2> QED
    BY <1>5, <2>1
<1> DEFINE S == {p \in Nat : PowerOf2[p] \in Nat}
<1>7. \A p \in Nat : p \in S
  <2>1. 0 \in S /\ \A p \in Nat : p \in S => p + 1 \in S
    BY <1>6
  <2> HIDE DEF S
  <2> QED
    BY <2>1, SetInduction
<1> QED
  BY <1>6, <1>7
-----------------------------------------------------------------------------
(* Positions in a table of n buckets *)

\* The bucket after i, and the one before.
After(n, i) == IF i = n - 1 THEN 0 ELSE i + 1
Before(n, i) == IF i = 0 THEN n - 1 ELSE i - 1

\* The remainder of a division lies in the table, and is what is left.
LEMMA Remainder ==
    ASSUME NEW n \in Nat, n > 0, NEW a \in Int
    PROVE  /\ (a % n) \in 0..n - 1
           /\ (a \div n) \in Int
           /\ a = n * (a \div n) + (a % n)
OBVIOUS

\* What is left and lies in the table is the remainder.
LEMMA RemainderIs ==
    ASSUME NEW n \in Nat, n > 0, NEW a \in Int, NEW q \in Int,
           NEW r \in 0..n - 1, a = n * q + r
    PROVE  a % n = r
OBVIOUS

\* A step of a probe goes to the bucket after, round the end of the table.
LEMMA RemainderAfter ==
    ASSUME NEW n \in Nat, n > 0, NEW a \in Int
    PROVE  (a + 1) % n = After(n, a % n)
<1> DEFINE q == a \div n
           r == a % n
<1>1. r \in 0..n - 1 /\ q \in Int /\ a = n * q + r
  BY Remainder
<1> HIDE DEF q, r
<1>2. CASE r = n - 1
  <2>1. n * (q + 1) = n * q + n
    BY <1>1
  <2>2. a + 1 = n * (q + 1) + 0
    BY <1>1, <1>2, <2>1
  <2>3. (a + 1) % n = 0
    BY <1>1, <2>2, RemainderIs
  <2> QED
    BY <1>2, <2>3 DEF After, r
<1>3. CASE r # n - 1
  <2>1. a + 1 = n * q + (r + 1) /\ r + 1 \in 0..n - 1
    BY <1>1, <1>3
  <2>2. (a + 1) % n = r + 1
    BY <1>1, <2>1, RemainderIs
  <2> QED
    BY <1>3, <2>2 DEF After, r
<1> QED
  BY <1>2, <1>3

\* A number that is short by at most a table's length.
LEMMA RemainderNear ==
    ASSUME NEW n \in Nat, n > 0, NEW a \in (0 - n)..(2 * n - 1)
    PROVE  a % n = IF a < 0 THEN a + n ELSE IF a < n THEN a ELSE a - n
<1>1. CASE a < 0
  <2>1. a = n * (0 - 1) + (a + n) /\ a + n \in 0..n - 1
    BY <1>1
  <2> QED
    BY <1>1, <2>1, RemainderIs
<1>2. CASE a >= 0 /\ a < n
  <2>1. a = n * 0 + a /\ a \in 0..n - 1
    BY <1>2
  <2> QED
    BY <1>2, <2>1, RemainderIs
<1>3. CASE a >= n
  <2>1. a = n * 1 + (a - n) /\ a - n \in 0..n - 1
    BY <1>3
  <2> QED
    BY <1>3, <2>1, RemainderIs
<1> QED
  BY <1>1, <1>2, <1>3

\* The bucket before, as hashmap_delete's mask finds it.
LEMMA RemainderBefore ==
    ASSUME NEW n \in Nat, n > 0, NEW i \in 0..n - 1
    PROVE  (i - 1) % n = Before(n, i)
BY RemainderNear DEF Before

\* n steps from anywhere visit every bucket.
LEMMA EveryBucketVisited ==
    ASSUME NEW n \in Nat, n > 0, NEW h \in Nat, NEW i \in 0..n - 1
    PROVE  \E j \in 0..n - 1 : (h + j) % n = i
<1> DEFINE q == h \div n
           r == h % n
<1>1. r \in 0..n - 1 /\ q \in Int /\ h = n * q + r
  BY Remainder
<1> HIDE DEF q, r
<1>2. CASE i >= r
  <2> DEFINE j == i - r
  <2>1. j \in 0..n - 1 /\ h + j = n * q + i
    BY <1>1, <1>2
  <2>2. (h + j) % n = i
    <3> HIDE DEF j
    <3>1. h + j \in Int
      BY <2>1
    <3> QED
      BY <1>1, <2>1, <3>1, RemainderIs
  <2> QED
    BY <2>1, <2>2
<1>3. CASE i < r
  <2>1. n * (q + 1) = n * q + n
    BY <1>1
  <2> DEFINE j == i - r + n
  <2>2. j \in 0..n - 1
    BY <1>1, <1>3
  <2>3. h + j = n * (q + 1) + i
    BY <1>1, <2>1
  <2>4. (h + j) % n = i
    <3> HIDE DEF j
    <3>1. q + 1 \in Int /\ h + j \in Int
      BY <1>1, <2>2
    <3> QED
      BY <2>3, <3>1, RemainderIs
  <2> QED
    BY <2>2, <2>4
<1> QED
  BY <1>1, <1>2, <1>3

-----------------------------------------------------------------------------
(* A table that is sound *)

\* The bucket j steps from the home of k in a table of n.
At(n, k, j) == (HashOf[k] + j) % n

Bucket == [key : Keys \cup {None}, val : Values \cup {None}, dib : Nat]
Used(b, n) == {i \in 0..n - 1 : b[i].dib # 0}
Stored(b, n) == {<<b[i].key, b[i].val>> : i \in Used(b, n)}

Shaped(b, n) ==
    /\ b \in [0..n - 1 -> Bucket]
    /\ \A i \in 0..n - 1 : b[i].dib = 0 => b[i] = Empty
    /\ \A i \in 0..n - 1 : b[i].dib # 0 => <<b[i].key, b[i].val>> \in Items
Placed(b, n) ==
    \A i \in 0..n - 1 : b[i].dib # 0 => At(n, b[i].key, b[i].dib - 1) = i
Ordered(b, n) ==
    \A i \in 0..n - 1 :
        b[i].dib > 1 => b[Before(n, i)].dib >= b[i].dib - 1
Unique(b, n) ==
    \A i, j \in 0..n - 1 :
        b[i].dib # 0 /\ b[j].dib # 0 /\ b[i].key = b[j].key => i = j

Sound(b, n) ==
    Shaped(b, n) /\ Placed(b, n) /\ Ordered(b, n) /\ Unique(b, n)
Roomy(b, n) == \E i \in 0..n - 1 : b[i].dib = 0

\* An item is an id and a connection.
LEMMA ItemParts ==
    ASSUME NEW k, NEW v, <<k, v>> \in Items
    PROVE  k \in Keys /\ v \in Values
BY DEF Keys, Values

\* Hashes are natural numbers.
LEMMA HashType == ASSUME NEW k \in Keys PROVE HashOf[k] \in Nat
BY HashMapAssumption

\* An empty bucket has neither an id nor a connection.
LEMMA NoneApart == None \notin Keys /\ None \notin Values
BY HashMapAssumption

\* A probe stays in the table.
LEMMA AtType ==
    ASSUME NEW n \in Nat, n > 0, NEW k \in Keys, NEW j \in Int
    PROVE  At(n, k, j) \in 0..n - 1
<1>1. HashOf[k] + j \in Int
  BY HashType
<1> QED
  BY <1>1, Remainder DEF At

\* A step of a probe goes to the next bucket.
LEMMA AtNext ==
    ASSUME NEW n \in Nat, n > 0, NEW k \in Keys, NEW j \in Int
    PROVE  At(n, k, j + 1) = After(n, At(n, k, j))
<1>1. HashOf[k] + j \in Int /\ HashOf[k] + (j + 1) = (HashOf[k] + j) + 1
  BY HashType
<1> QED
  BY <1>1, RemainderAfter DEF At

\* A probe of n steps visits every bucket, from whatever home.
LEMMA AtEvery ==
    ASSUME NEW n \in Nat, n > 0, NEW k \in Keys, NEW i \in 0..n - 1
    PROVE  \E j \in 0..n - 1 : At(n, k, j) = i
BY HashType, EveryBucketVisited DEF At

\* The number of buckets is what Size counts.
LEMMA SizeIs ==
    ASSUME NEW n \in Nat, NEW b, DOMAIN b = 0..n - 1
    PROVE  Size(b) = n
<1>1. Cardinality(0..n - 1) = n
  BY FS_Interval
<1> QED
  BY <1>1 DEF Size

\* The model's Slot is At in a table of that size.
LEMMA SlotIs ==
    ASSUME NEW n \in Nat, NEW b, Size(b) = n, NEW k, NEW j
    PROVE  Slot(b, k, j) = At(n, k, j)
BY DEF Slot, At

\* All buckets from the home of an entry to the entry hold entries that are at
\* least as far from their home.
LEMMA RunBefore ==
    ASSUME NEW n \in Nat, n > 0, NEW b, Sound(b, n), NEW i \in Used(b, n)
    PROVE  \A j \in 0..b[i].dib - 1 : b[At(n, b[i].key, j)].dib >= j + 1
<1> DEFINE k == b[i].key
           d == b[i].dib
           S == {m \in Nat : m <= d - 1 => b[At(n, k, d - 1 - m)].dib >= d - m}
<1>1. i \in 0..n - 1 /\ d \in Nat \ {0} /\ k \in Keys
  BY ItemParts DEF Sound, Shaped, Used, Bucket
<1>2. \A p \in 0..n - 1 : b[p].dib \in Nat
  BY DEF Sound, Shaped, Bucket
<1>3. 0 \in S
  <2>1. At(n, k, d - 1) = i
    BY <1>1 DEF Sound, Placed
  <2>2. d - 1 - 0 = d - 1
    BY <1>1
  <2> QED
    BY <1>1, <2>1, <2>2
<1>4. ASSUME NEW m \in Nat, m \in S PROVE m + 1 \in S
  <2> SUFFICES ASSUME m + 1 <= d - 1
               PROVE  b[At(n, k, d - 1 - (m + 1))].dib >= d - (m + 1)
    OBVIOUS
  <2> DEFINE q == At(n, k, d - 1 - (m + 1))
             p == At(n, k, d - 1 - m)
  <2>1. b[p].dib >= d - m
    BY <1>1, <1>4
  <2>2. /\ d - 1 - (m + 1) \in Int
        /\ (d - 1 - (m + 1)) + 1 = d - 1 - m
        /\ d - 1 - m \in Int
    BY <1>1
  <2>3. p = After(n, q) /\ q \in 0..n - 1 /\ p \in 0..n - 1
    BY <1>1, <2>2, AtNext, AtType
  <2> HIDE DEF p, q
  <2>4. Before(n, p) = q
    BY <2>3 DEF After, Before
  <2>5. b[p].dib > 1
    BY <1>1, <1>2, <2>1, <2>3
  <2>6. b[q].dib >= b[p].dib - 1
    BY <2>3, <2>4, <2>5 DEF Sound, Ordered
  <2>7. b[q].dib >= d - (m + 1)
    BY <1>1, <1>2, <2>1, <2>3, <2>6
  <2> QED
    BY <2>7 DEF q
<1>5. \A m \in Nat : m \in S
  <2> HIDE DEF S
  <2> QED
    BY <1>3, <1>4, SetInduction
<1> SUFFICES ASSUME NEW j \in 0..d - 1 PROVE b[At(n, k, j)].dib >= j + 1
  OBVIOUS
<1>6. d - 1 - j \in Nat /\ d - 1 - j <= d - 1
  BY <1>1
<1>7. d - 1 - (d - 1 - j) = j /\ d - (d - 1 - j) = j + 1
  BY <1>1
<1>8. b[At(n, k, d - 1 - (d - 1 - j))].dib >= d - (d - 1 - j)
  BY <1>5, <1>6
<1> QED
  BY <1>7, <1>8

\* While there is an empty bucket no entry is a whole turn from home.
LEMMA DibBounded ==
    ASSUME NEW n \in Nat, n > 0, NEW b, Sound(b, n), Roomy(b, n),
           NEW i \in Used(b, n)
    PROVE  b[i].dib <= n
<1>1. /\ i \in 0..n - 1 /\ b[i].dib \in Nat \ {0} /\ b[i].key \in Keys
  BY ItemParts DEF Sound, Shaped, Used, Bucket
<1>2. PICK e \in 0..n - 1 : b[e].dib = 0
  BY DEF Roomy
<1>3. PICK j \in 0..n - 1 : At(n, b[i].key, j) = e
  BY <1>1, AtEvery
<1>4. j \in 0..b[i].dib - 1 => b[e].dib >= j + 1
  BY <1>3, RunBefore
<1> QED
  BY <1>1, <1>2, <1>4

-----------------------------------------------------------------------------
(* Finding a key *)

\* A probe stops at the first bucket that is empty or has the key: there is one,
\* and the key is nowhere if it is an empty one.
LEMMA ProbeFinds ==
    ASSUME NEW n \in Nat, n > 0, NEW b, Sound(b, n), Roomy(b, n), NEW k \in Keys
    PROVE  /\ Probe(b, k) \in 0..n - 1
           /\ b[Probe(b, k)].dib # 0 => b[Probe(b, k)].key = k
           /\ b[Probe(b, k)].dib = 0 => \A i \in Used(b, n) : b[i].key # k
<1> DEFINE Stops(j) == b[At(n, k, j)].dib = 0 \/ b[At(n, k, j)].key = k
           Ends(j) == Stops(j) /\ \A i \in 0..n - 1 : i < j => ~Stops(i)
           T == {j \in 0..n - 1 : Stops(j)}
           stop == CHOOSE j \in 0..n - 1 : Ends(j)
<1>1. Size(b) = n
  BY SizeIs DEF Sound, Shaped
<1>2. Probe(b, k) = At(n, k, stop)
  BY <1>1, Zenon DEF Probe, First, Slot, At
<1>3. \A i \in 0..n - 1 : b[i].dib \in Nat
  BY DEF Sound, Shaped, Bucket
<1>4. \E j \in 0..n - 1 : Ends(j)
  <2>1. PICK e \in 0..n - 1 : b[e].dib = 0
    BY DEF Roomy
  <2>2. PICK j \in 0..n - 1 : At(n, k, j) = e
    BY AtEvery
  <2>3. T \subseteq Nat /\ T # {}
    BY <2>1, <2>2
  <2>4. PICK m \in T : \A t \in T : m <= t
    <3> HIDE DEF T
    <3> QED
      BY <2>3, LeastElement
  <2>5. \A i \in 0..n - 1 : i < m => ~Stops(i)
    BY <2>4
  <2> QED
    BY <2>4, <2>5
<1>5. stop \in 0..n - 1 /\ Ends(stop)
  <2> HIDE DEF Ends
  <2> QED
    BY <1>4, Zenon
<1>6. At(n, k, stop) \in 0..n - 1
  BY <1>5, AtType
<1>7. ASSUME NEW i \in Used(b, n), b[i].key = k, b[At(n, k, stop)].dib = 0
      PROVE  FALSE
  <2> HIDE DEF stop
  <2>1. i \in 0..n - 1 /\ b[i].dib \in 1..n
    BY <1>3, DibBounded DEF Used
  <2>2. At(n, k, b[i].dib - 1) = i
    BY <1>7, <2>1 DEF Sound, Placed
  <2>3. Stops(b[i].dib - 1) /\ b[i].dib - 1 \in 0..n - 1
    BY <1>7, <2>1, <2>2
  <2>4. stop <= b[i].dib - 1
    BY <1>5, <2>1, <2>3
  <2>5. stop \in 0..b[i].dib - 1
    BY <1>5, <2>1, <2>4
  <2>6. b[At(n, k, stop)].dib >= stop + 1
    BY <1>7, <2>5, RunBefore
  <2> QED
    BY <1>5, <1>7, <2>6
<1>8. b[At(n, k, stop)].dib # 0 => b[At(n, k, stop)].key = k
  BY <1>5
<1> QED
  BY <1>2, <1>6, <1>7, <1>8

\* What is found for a key is what is stored under it.
LEMMA GetFinds ==
    ASSUME NEW n \in Nat, n > 0, NEW b, Sound(b, n), Roomy(b, n), NEW k \in Keys
    PROVE  /\ \A v : <<k, v>> \in Stored(b, n) => Get(b, k) = v
           /\ (\A v : <<k, v>> \notin Stored(b, n)) => Get(b, k) = None
           /\ Get(b, k) # None => <<k, Get(b, k)>> \in Stored(b, n)
<1> DEFINE p == Probe(b, k)
<1>1. /\ p \in 0..n - 1
      /\ b[p].dib # 0 => b[p].key = k
      /\ b[p].dib = 0 => \A i \in Used(b, n) : b[i].key # k
  BY ProbeFinds
<1>2. Get(b, k) = b[p].val
  BY DEF Get
<1> HIDE DEF p
<1>3. CASE b[p].dib = 0
  <2>1. b[p].val = None
    BY <1>1, <1>3 DEF Sound, Shaped, Empty
  <2>2. \A v : <<k, v>> \notin Stored(b, n)
    BY <1>1, <1>3 DEF Stored
  <2> QED
    BY <1>2, <2>1, <2>2
<1>4. CASE b[p].dib # 0
  <2>1. p \in Used(b, n) /\ b[p].key = k
    BY <1>1, <1>4 DEF Used
  <2>2. <<k, b[p].val>> \in Stored(b, n)
    BY <2>1 DEF Stored
  <2>3. ASSUME NEW v, <<k, v>> \in Stored(b, n) PROVE b[p].val = v
    <3>1. PICK i \in Used(b, n) : b[i].key = k /\ b[i].val = v
      BY <2>3 DEF Stored
    <3>2. i = p
      BY <2>1, <3>1 DEF Sound, Unique, Used
    <3> QED
      BY <3>1, <3>2
  <2> QED
    BY <1>2, <2>2, <2>3
<1> QED
  BY <1>3, <1>4

-----------------------------------------------------------------------------
(* The probe that inserts *)

Start(b, k, v) == [at |-> b, home |-> k, old |-> None, done |-> FALSE,
                   hand |-> [key |-> k, val |-> v, dib |-> 1]]

\* What a step of the probe does, field by field.
Probes(n, k) == [at : [0..n - 1 -> Bucket], home : {k}, hand : Bucket,
                 old : Values \cup {None}, done : BOOLEAN]

\* A probe that has put its entry down does no more.
LEMMA CarryDone ==
    ASSUME NEW p, NEW j, p.done
    PROVE  Carry(p, j) = p
BY DEF Carry

CarryResult(n, k, p, h, q) ==
    /\ q \in Probes(n, k)
    /\ p.at[h].dib = 0 =>
         q.at = [p.at EXCEPT ![h] = p.hand] /\ q.old = p.old /\ q.done
    /\ p.at[h].dib # 0 /\ p.at[h].key = p.hand.key =>
         /\ q.at = [p.at EXCEPT ![h] = [p.at[h] EXCEPT !.val = p.hand.val]]
         /\ q.old = p.at[h].val /\ q.done
    /\ /\ p.at[h].dib # 0 /\ p.at[h].key # p.hand.key
       /\ p.at[h].dib < p.hand.dib
       => /\ q.at = [p.at EXCEPT ![h] = p.hand] /\ q.old = p.old
          /\ q.hand = [p.at[h] EXCEPT !.dib = @ + 1] /\ ~q.done
    /\ /\ p.at[h].dib # 0 /\ p.at[h].key # p.hand.key
       /\ ~(p.at[h].dib < p.hand.dib)
       => /\ q.at = p.at /\ q.old = p.old
          /\ q.hand = [p.hand EXCEPT !.dib = @ + 1] /\ ~q.done

\* The four things a step of the inserting probe may do: see CarryResult.
LEMMA CarryDoes ==
    ASSUME NEW n \in Nat, n > 0, NEW k \in Keys, NEW p \in Probes(n, k),
           NEW j \in Nat, ~p.done, NEW h, h = At(n, k, j),
           NEW q, q = Carry(p, j)
    PROVE  CarryResult(n, k, p, h, q)
<1> DEFINE bucket == p.at[h]
           hand   == p.hand
           put    == [p.at EXCEPT ![h] = hand]
<1>1. h \in 0..n - 1
  BY AtType
<1>2. Slot(p.at, p.home, j) = h
  <2>1. Size(p.at) = n /\ p.home = k
    BY SizeIs DEF Probes
  <2> QED
    BY <2>1, SlotIs
<1>3. bucket \in Bucket /\ hand \in Bucket /\ put \in [0..n - 1 -> Bucket]
  BY <1>1 DEF Probes
<1>4. CASE bucket.dib = 0
  <2>1. q = [p EXCEPT !.at[h] = hand, !.done = TRUE]
    BY <1>2, <1>4 DEF Carry
  <2> QED
    BY <1>1, <1>3, <1>4, <2>1 DEF Probes, CarryResult
<1>5. CASE bucket.dib # 0 /\ bucket.key = hand.key
  <2>1. q = [p EXCEPT !.at[h].val = hand.val, !.old = bucket.val,
                      !.done = TRUE]
    BY <1>2, <1>5 DEF Carry
  <2>2. [p.at EXCEPT ![h] = [bucket EXCEPT !.val = hand.val]]
          \in [0..n - 1 -> Bucket]
    BY <1>1, <1>3 DEF Probes, Bucket
  <2>3. bucket.val \in Values \cup {None}
    BY <1>3 DEF Bucket
  <2>4. /\ q.at = [p.at EXCEPT ![h] = [bucket EXCEPT !.val = hand.val]]
        /\ q.old = bucket.val /\ q.done = TRUE /\ q.hand = p.hand
        /\ q.home = p.home
    BY <2>1 DEF Probes
  <2>5. q \in Probes(n, k)
    BY <2>1, <2>2, <2>3 DEF Probes
  <2> QED
    BY <1>5, <2>4, <2>5 DEF CarryResult
<1>6. CASE bucket.dib # 0 /\ bucket.key # hand.key /\ bucket.dib < hand.dib
  <2>1. q = [p EXCEPT !.at[h] = hand,
                      !.hand = [bucket EXCEPT !.dib = @ + 1]]
    BY <1>2, <1>6 DEF Carry
  <2>2. [bucket EXCEPT !.dib = @ + 1] \in Bucket
    BY <1>3, SMTT(20) DEF Bucket
  <2> QED
    BY <1>1, <1>3, <1>6, <2>1, <2>2 DEF Probes, CarryResult
<1>7. CASE bucket.dib # 0 /\ bucket.key # hand.key /\ ~(bucket.dib < hand.dib)
  <2>1. q = [p EXCEPT !.hand.dib = @ + 1]
    BY <1>2, <1>7 DEF Carry
  <2>2. [hand EXCEPT !.dib = @ + 1] \in Bucket
    BY <1>3 DEF Bucket
  <2> QED
    BY <1>3, <1>7, <2>1, <2>2 DEF Probes, CarryResult
<1> QED
  BY <1>4, <1>5, <1>6, <1>7 DEF CarryResult

\* A step of the inserting probe keeps the types of its fields.
LEMMA CarryType ==
    ASSUME NEW n \in Nat, n > 0, NEW k \in Keys, NEW p \in Probes(n, k),
           NEW j \in Nat
    PROVE  Carry(p, j) \in Probes(n, k)
<1>1. CASE p.done
  BY <1>1, CarryDone
<1>2. CASE ~p.done
  <2>1. CarryResult(n, k, p, At(n, k, j), Carry(p, j))
    BY <1>2, CarryDoes, Zenon
  <2> QED
    BY <2>1 DEF CarryResult
<1> QED
  BY <1>1, <1>2

\* An insertion is a run of n steps.
Runs(g, s, n) ==
    g = [j \in 0..n |-> IF j = 0 THEN s ELSE Carry(g[j - 1], j - 1)]

InsertRun(probe, n, b, k, v) ==
    /\ probe[0] = Start(b, k, v)
    /\ \A j \in 0..n - 1 : probe[j + 1] = Carry(probe[j], j)
    /\ Insert(b, k, v) = probe[n]

\* The recursion of Insert is defined: there is a run of n steps, from Start.
LEMMA InsertRuns ==
    ASSUME NEW n \in Nat, n > 0, NEW b \in [0..n - 1 -> Bucket],
           NEW k \in Keys, NEW v \in Values
    PROVE  \E probe \in [0..n -> Probes(n, k)] : InsertRun(probe, n, b, k, v)
<1> DEFINE s == Start(b, k, v)
           X == Probes(n, k)
           step == [x \in X \X Nat |-> Carry(x[1], x[2])]
           probe == CHOOSE g : Runs(g, s, n)
<1>1. Insert(b, k, v) = probe[n]
  <2>1. Size(b) = n
    BY SizeIs
  <2> QED
    BY <2>1, Zenon DEF Insert, Start, Runs
<1>2. s \in X
  BY DEF Start, Probes, Bucket
<1>3. PICK f \in [0..n -> X] : UnfoldsTo(f, s, step, n)
  <2>1. step \in [X \X Nat -> X]
    <3>1. \A x \in X \X Nat : Carry(x[1], x[2]) \in X
      BY CarryType
    <3> QED
      BY <3>1
  <2> HIDE DEF X, s, step
  <2> QED
    BY <1>2, <2>1, FiniteRecursion
<1>4. Runs(f, s, n)
  <2>1. ASSUME NEW j \in 0..n, j # 0
        PROVE  step[<<f[j - 1], j - 1>>] = Carry(f[j - 1], j - 1)
    <3>1. j - 1 \in Nat /\ f[j - 1] \in X
      BY <1>3, <2>1
    <3> QED
      BY <3>1
  <2> HIDE DEF s, step
  <2> QED
    BY <1>3, <2>1 DEF UnfoldsTo, Runs
<1>5. Runs(probe, s, n)
  BY <1>4, Zenon
<1> HIDE DEF probe
<1>6. probe[0] = s
  <2>1. 0 \in 0..n
    OBVIOUS
  <2> QED
    BY <1>5, <2>1 DEF Runs
<1>7. ASSUME NEW j \in 0..n - 1 PROVE probe[j + 1] = Carry(probe[j], j)
  <2>1. j + 1 \in 0..n /\ j + 1 # 0 /\ (j + 1) - 1 = j
    OBVIOUS
  <2> QED
    BY <1>5, <2>1 DEF Runs
<1> DEFINE S == {j \in Nat : j <= n => probe[j] \in X}
<1>8. \A j \in Nat : j \in S
  <2>1. 0 \in S
    BY <1>2, <1>6
  <2>2. ASSUME NEW j \in Nat, j \in S PROVE j + 1 \in S
    BY <1>7, <2>2, CarryType
  <2> HIDE DEF S
  <2> QED
    BY <2>1, <2>2, SetInduction
<1>9. probe \in [0..n -> X]
  <2>1. \A j \in 0..n : probe[j] \in X
    BY <1>8
  <2> QED
    BY <1>5, <2>1 DEF Runs
<1> QED
  BY <1>1, <1>6, <1>7, <1>9 DEF InsertRun

\* An insertion ends with a table of the same length.
LEMMA InsertType ==
    ASSUME NEW n \in Nat, n > 0, NEW b \in [0..n - 1 -> Bucket],
           NEW k \in Keys, NEW v \in Values
    PROVE  Insert(b, k, v) \in Probes(n, k)
BY InsertRuns DEF InsertRun

\* An entry that is farther from home than what it takes the place of fits in.
LEMMA PutSound ==
    ASSUME NEW n \in Nat, n > 1, NEW b, Sound(b, n), NEW h \in 0..n - 1,
           NEW entry \in Bucket, <<entry.key, entry.val>> \in Items,
           b[h].dib < entry.dib, At(n, entry.key, entry.dib - 1) = h,
           entry.dib > 1 => b[Before(n, h)].dib >= entry.dib - 1,
           \A i \in Used(b, n) : i # h => b[i].key # entry.key
    PROVE  Sound([b EXCEPT ![h] = entry], n)
<1> DEFINE c == [b EXCEPT ![h] = entry]
<1>1. /\ b \in [0..n - 1 -> Bucket] /\ c \in [0..n - 1 -> Bucket]
      /\ c[h] = entry /\ \A i \in 0..n - 1 : i # h => c[i] = b[i]
      /\ \A i \in 0..n - 1 : b[i].dib \in Nat /\ c[i].dib \in Nat
  BY DEF Sound, Shaped, Bucket
<1>2. entry.dib \in Nat /\ entry.dib # 0
  BY <1>1
<1> HIDE DEF c
<1>3. Shaped(c, n)
  BY <1>1, <1>2 DEF Sound, Shaped
<1>4. Placed(c, n)
  BY <1>1 DEF Sound, Placed
<1>5. Ordered(c, n)
  <2> SUFFICES ASSUME NEW i \in 0..n - 1, c[i].dib > 1
               PROVE  c[Before(n, i)].dib >= c[i].dib - 1
    BY DEF Ordered
  <2>1. Before(n, i) \in 0..n - 1 /\ Before(n, i) # i
    BY DEF Before
  <2>2. CASE i = h
    BY <1>1, <2>1, <2>2
  <2>3. CASE i # h
    <3>1. b[Before(n, i)].dib >= b[i].dib - 1
      BY <1>1, <2>3 DEF Sound, Ordered
    <3> QED
      BY <1>1, <2>1, <2>3, <3>1, SMTT(20)
  <2> QED
    BY <2>2, <2>3
<1>6. Unique(c, n)
  BY <1>1, <1>2 DEF Sound, Unique, Used
<1> QED
  BY <1>3, <1>4, <1>5, <1>6 DEF Sound, c

\* Putting an entry into a bucket uses that bucket.
LEMMA PutUsed ==
    ASSUME NEW n \in Nat, NEW b, Sound(b, n), NEW h \in 0..n - 1,
           NEW entry \in Bucket, entry.dib # 0
    PROVE  Used([b EXCEPT ![h] = entry], n) = Used(b, n) \cup {h}
BY DEF Used, Sound, Shaped

\* Putting an entry into a bucket stores its pair, in place of what was there.
LEMMA PutStored ==
    ASSUME NEW n \in Nat, NEW b, Sound(b, n), NEW h \in 0..n - 1,
           NEW entry \in Bucket, entry.dib # 0
    PROVE  LET c == [b EXCEPT ![h] = entry]
               pair == <<entry.key, entry.val>>
           IN  /\ b[h].dib = 0 => Stored(c, n) = Stored(b, n) \cup {pair}
               /\ b[h].dib # 0 =>
                    Stored(c, n) \cup {<<b[h].key, b[h].val>>} =
                    Stored(b, n) \cup {pair}
<1> DEFINE c == [b EXCEPT ![h] = entry]
           pair == <<entry.key, entry.val>>
           U == Used(b, n)
<1>1. /\ Used(c, n) = U \cup {h}
      /\ c[h] = entry /\ \A i \in U : i # h => c[i] = b[i]
      /\ h \in U <=> b[h].dib # 0
  BY PutUsed DEF Used, Sound, Shaped
<1> HIDE DEF c, U
<1>2. ASSUME b[h].dib = 0 PROVE Stored(c, n) = Stored(b, n) \cup {pair}
  BY <1>1, <1>2 DEF Stored, U
<1>3. ASSUME b[h].dib # 0
      PROVE  Stored(c, n) \cup {<<b[h].key, b[h].val>>} =
             Stored(b, n) \cup {pair}
  BY <1>1, <1>3 DEF Stored, U
<1> QED
  BY <1>2, <1>3 DEF c

\* Where the probe of a new key has got to: all that was stored, and the new
\* pair, are in the table or in the hand, which fits where it is looking now.
Carrying(b, n, k, v, p, j) ==
    /\ Used(p.at, n) = Used(b, n)
    /\ \A m \in 0..j - 1 : At(n, k, m) \in Used(b, n)
    /\ <<p.hand.key, p.hand.val>> \in Items
    /\ p.hand.dib > 0
    /\ At(n, p.hand.key, p.hand.dib - 1) = At(n, k, j)
    /\ p.hand.dib > 1 => p.at[Before(n, At(n, k, j))].dib >= p.hand.dib - 1
    /\ \A i \in Used(b, n) : p.at[i].key # p.hand.key
    /\ Stored(p.at, n) \cup {<<p.hand.key, p.hand.val>>} =
       Stored(b, n) \cup {<<k, v>>}
PutDown(b, n, k, v, p) ==
    /\ Stored(p.at, n) = Stored(b, n) \cup {<<k, v>>}
    /\ \E e \in 0..n - 1 : /\ e \notin Used(b, n)
                           /\ Used(p.at, n) = Used(b, n) \cup {e}
ProbeInv(b, n, k, v, p, j) ==
    /\ p \in Probes(n, k) /\ Sound(p.at, n) /\ p.old = None
    /\ IF p.done THEN PutDown(b, n, k, v, p) ELSE Carrying(b, n, k, v, p, j)

\* While the key is new, a step of the probe keeps the table and the entry in
\* hand, together, what the table was with the new pair.
LEMMA ProbeStep ==
    ASSUME NEW n \in Nat, n > 1, NEW b, NEW k \in Keys, NEW v, NEW p,
           NEW j \in Nat, ProbeInv(b, n, k, v, p, j)
    PROVE  ProbeInv(b, n, k, v, Carry(p, j), j + 1)
<1>0. PICK q, h : q = Carry(p, j) /\ h = At(n, k, j)
  OBVIOUS
<1> DEFINE bucket == p.at[h]
           hand == p.hand
           put == [p.at EXCEPT ![h] = hand]
<1> SUFFICES ProbeInv(b, n, k, v, q, j + 1)
  BY <1>0
<1>1. CASE p.done
  BY <1>0, <1>1, CarryDone DEF ProbeInv
<1>2. CASE ~p.done
  <2>1. /\ p \in Probes(n, k) /\ Sound(p.at, n) /\ p.old = None
        /\ Carrying(b, n, k, v, p, j)
    BY <1>2 DEF ProbeInv
  <2>0. h \in 0..n - 1
    BY <1>0, AtType
  <2>2. h \in 0..n - 1 /\ hand \in Bucket /\ bucket \in Bucket
    BY <2>0, <2>1 DEF Probes
  <2>3. /\ hand.dib \in Nat /\ hand.dib > 0 /\ hand.key \in Keys
        /\ bucket.dib \in Nat
    BY <2>1, <2>2, ItemParts DEF Carrying, Bucket
  <2>4. At(n, k, j + 1) = After(n, h) /\ Before(n, After(n, h)) = h
    <3>1. At(n, k, j + 1) = After(n, h)
      BY <1>0, AtNext
    <3>2. Before(n, After(n, h)) = h
      BY <2>2 DEF After, Before
    <3> QED
      BY <3>1, <3>2
  <2>5. CarryResult(n, k, p, h, q)
    <3>1. n > 0
      OBVIOUS
    <3> QED
      BY <1>0, <1>2, <2>1, <3>1, CarryDoes, Zenon
  <2>6. ASSUME bucket.dib < hand.dib PROVE Sound(put, n)
    <3>1. \A i \in Used(p.at, n) : i # h => p.at[i].key # hand.key
      BY <2>1 DEF Carrying
    <3> QED
      BY <1>0, <2>1, <2>2, <2>6, <3>1, PutSound DEF Carrying
  <2>7. CASE bucket.dib = 0
    <3>1. q.at = put /\ q.old = None /\ q.done
      BY <2>1, <2>5, <2>7 DEF CarryResult
    <3>2. Sound(put, n)
      BY <2>3, <2>6, <2>7
    <3>3. Used(put, n) = Used(b, n) \cup {h} /\ h \notin Used(b, n)
      BY <2>1, <2>2, <2>3, <2>7, PutUsed DEF Carrying, Used
    <3>4. Stored(put, n) = Stored(b, n) \cup {<<k, v>>}
      BY <2>1, <2>2, <2>3, <2>7, PutStored DEF Carrying
    <3>5. PutDown(b, n, k, v, q)
      BY <2>2, <3>1, <3>3, <3>4 DEF PutDown
    <3> QED
      BY <2>5, <3>1, <3>2, <3>5 DEF ProbeInv, CarryResult
  <2>8. CASE bucket.dib # 0
    <3>1. h \in Used(b, n) /\ bucket.key # hand.key
      BY <2>1, <2>2, <2>8 DEF Carrying, Used
    <3>2. \A m \in 0..(j + 1) - 1 : At(n, k, m) \in Used(b, n)
      <4>1. \A m \in 0..(j + 1) - 1 : m \in 0..j - 1 \/ m = j
        OBVIOUS
      <4> QED
        BY <1>0, <2>1, <3>1, <4>1 DEF Carrying
    <3>3. CASE bucket.dib < hand.dib
      <4>1. /\ q.at = put /\ q.old = None /\ ~q.done
            /\ q.hand = [bucket EXCEPT !.dib = @ + 1]
        BY <2>1, <2>5, <2>8, <3>1, <3>3 DEF CarryResult
      <4>2. /\ q.hand.key = bucket.key /\ q.hand.val = bucket.val
            /\ q.hand.dib = bucket.dib + 1
        BY <2>2, <4>1 DEF Bucket
      <4>3. Used(put, n) = Used(b, n)
        <5>1. Used(put, n) = Used(p.at, n) \cup {h}
          BY <2>1, <2>2, <2>3, PutUsed
        <5> QED
          BY <2>1, <3>1, <5>1 DEF Carrying
      <4>4. <<bucket.key, bucket.val>> \in Items /\ bucket.key \in Keys
        BY <2>1, <2>2, <2>8, ItemParts DEF Sound, Shaped
      <4>5. At(n, bucket.key, (bucket.dib + 1) - 1) = At(n, k, j + 1)
        <5>1. At(n, bucket.key, bucket.dib - 1) = h
          BY <2>1, <2>2, <2>8 DEF Sound, Placed
        <5>2. At(n, bucket.key, (bucket.dib - 1) + 1) = After(n, h)
          BY <2>3, <4>4, <5>1, AtNext
        <5>3. (bucket.dib - 1) + 1 = (bucket.dib + 1) - 1
          BY <2>3
        <5> QED
          BY <2>4, <5>2, <5>3
      <4>6. put[h] = hand
        BY <2>1, <2>2 DEF Probes
      <4>7. put[Before(n, At(n, k, j + 1))].dib >= (bucket.dib + 1) - 1
        BY <2>3, <2>4, <3>3, <4>6
      <4>8. ASSUME NEW i \in Used(b, n) PROVE put[i].key # bucket.key
        <5>1. i \in 0..n - 1 /\ i \in Used(p.at, n)
          BY <2>1 DEF Carrying, Used
        <5>2. CASE i = h
          BY <3>1, <4>6, <5>2
        <5>3. CASE i # h
          <6>1. put[i] = p.at[i]
            BY <2>1, <5>1, <5>3 DEF Probes
          <6> QED
            BY <2>1, <2>2, <2>8, <5>1, <5>3, <6>1 DEF Sound, Unique, Used
        <5> QED
          BY <5>2, <5>3
      <4>9. Stored(put, n) \cup {<<bucket.key, bucket.val>>} =
            Stored(b, n) \cup {<<k, v>>}
        BY <2>1, <2>2, <2>3, <2>8, PutStored DEF Carrying
      <4>10. Carrying(b, n, k, v, q, j + 1)
        BY <2>3, <3>2, <4>1, <4>2, <4>3, <4>4, <4>5, <4>7, <4>8, <4>9
           DEF Carrying
      <4> QED
        BY <2>5, <2>6, <3>3, <4>1, <4>10 DEF ProbeInv, CarryResult
    <3>4. CASE ~(bucket.dib < hand.dib)
      <4>1. /\ q.at = p.at /\ q.old = None /\ ~q.done
            /\ q.hand = [hand EXCEPT !.dib = @ + 1]
        BY <2>1, <2>5, <2>8, <3>1, <3>4 DEF CarryResult
      <4>2. /\ q.hand.key = hand.key /\ q.hand.val = hand.val
            /\ q.hand.dib = hand.dib + 1
        BY <2>2, <4>1 DEF Bucket
      <4>3. At(n, hand.key, (hand.dib + 1) - 1) = At(n, k, j + 1)
        <5>1. At(n, hand.key, (hand.dib - 1) + 1) = After(n, h)
          BY <1>0, <2>1, <2>3, AtNext DEF Carrying
        <5>2. (hand.dib - 1) + 1 = (hand.dib + 1) - 1
          BY <2>3
        <5> QED
          BY <2>4, <5>1, <5>2
      <4>4. p.at[Before(n, At(n, k, j + 1))].dib >= (hand.dib + 1) - 1
        BY <2>3, <2>4, <3>4
      <4>5. Carrying(b, n, k, v, q, j + 1)
        BY <2>1, <2>3, <3>2, <4>1, <4>2, <4>3, <4>4 DEF Carrying
      <4> QED
        BY <2>1, <2>5, <4>1, <4>5 DEF ProbeInv, CarryResult
    <3> QED
      BY <3>3, <3>4
  <2> QED
    BY <2>3, <2>7, <2>8
<1> QED
  BY <1>1, <1>2

\* A new key is put down before the probe has come round, since there is an
\* empty bucket.
LEMMA InsertNew ==
    ASSUME NEW n \in Nat, n > 1, NEW b, Sound(b, n), Roomy(b, n),
           NEW k \in Keys, NEW v, <<k, v>> \in Items,
           \A i \in Used(b, n) : b[i].key # k
    PROVE  LET r == Insert(b, k, v) IN
           /\ r \in Probes(n, k) /\ Sound(r.at, n) /\ r.old = None
           /\ PutDown(b, n, k, v, r)
<1>1. n > 0 /\ b \in [0..n - 1 -> Bucket] /\ v \in Values
  BY ItemParts DEF Sound, Shaped
<1>2. PICK probe : InsertRun(probe, n, b, k, v)
  BY <1>1, InsertRuns
<1> DEFINE S == {j \in Nat : j <= n => ProbeInv(b, n, k, v, probe[j], j)}
<1>3. 0 \in S
  <2> DEFINE s == Start(b, k, v)
  <2>1. /\ s.at = b /\ s.old = None /\ ~s.done /\ s.hand.key = k
        /\ s.hand.val = v /\ s.hand.dib = 1
    BY DEF Start
  <2>2. s \in Probes(n, k)
    BY ItemParts DEF Start, Probes, Bucket, Sound, Shaped
  <2> HIDE DEF s
  <2>3. 1 - 1 = 0 /\ 0..0 - 1 = {}
    OBVIOUS
  <2>4. Carrying(b, n, k, v, s, 0)
    BY <2>1, <2>3 DEF Carrying
  <2>5. ProbeInv(b, n, k, v, s, 0)
    BY <2>1, <2>2, <2>4 DEF ProbeInv
  <2> QED
    BY <1>2, <2>5 DEF s, InsertRun
<1>4. ASSUME NEW j \in Nat, j \in S PROVE j + 1 \in S
  <2> SUFFICES ASSUME j + 1 <= n
               PROVE  ProbeInv(b, n, k, v, probe[j + 1], j + 1)
    OBVIOUS
  <2>1. j \in 0..n - 1 /\ ProbeInv(b, n, k, v, probe[j], j)
    BY <1>4
  <2>2. probe[j + 1] = Carry(probe[j], j)
    BY <1>2, <2>1 DEF InsertRun
  <2>3. ProbeInv(b, n, k, v, Carry(probe[j], j), j + 1)
    BY <2>1, ProbeStep
  <2> QED
    BY <2>2, <2>3
<1>5. n \in S
  <2> HIDE DEF S
  <2> QED
    BY <1>3, <1>4, SetInduction
<1>6. ProbeInv(b, n, k, v, probe[n], n)
  BY <1>5
<1>7. ASSUME ~probe[n].done PROVE FALSE
  <2>1. \A m \in 0..n - 1 : At(n, k, m) \in Used(b, n)
    BY <1>6, <1>7 DEF ProbeInv, Carrying
  <2>2. PICK e \in 0..n - 1 : b[e].dib = 0
    BY DEF Roomy
  <2>3. PICK m \in 0..n - 1 : At(n, k, m) = e
    BY <1>1, AtEvery
  <2> QED
    BY <2>1, <2>2, <2>3 DEF Used
<1> QED
  BY <1>2, <1>6, <1>7 DEF ProbeInv, InsertRun

\* The probe of a key that is there meets it before an entry nearer to its home.
Seeking(b, n, k, v, i, p, j) ==
    /\ p \in Probes(n, k)
    /\ IF p.done
       THEN /\ p.at = [b EXCEPT ![i] = [b[i] EXCEPT !.val = v]]
            /\ p.old = b[i].val
       ELSE /\ p.at = b /\ j < b[i].dib
            /\ p.hand = [key |-> k, val |-> v, dib |-> j + 1]

\* While the key is in the table, a step gets nearer to it and changes nothing,
\* until it replaces the value.
LEMMA SeekStep ==
    ASSUME NEW n \in Nat, n > 0, NEW b, Sound(b, n), NEW k \in Keys, NEW v,
           NEW i \in Used(b, n), b[i].key = k, NEW p, NEW j \in Nat,
           Seeking(b, n, k, v, i, p, j)
    PROVE  Seeking(b, n, k, v, i, Carry(p, j), j + 1)
<1>0. PICK q, h : q = Carry(p, j) /\ h = At(n, k, j)
  OBVIOUS
<1> SUFFICES Seeking(b, n, k, v, i, q, j + 1)
  BY <1>0
<1>1. CASE p.done
  BY <1>0, <1>1, CarryDone DEF Seeking
<1>2. CASE ~p.done
  <2>1. /\ p \in Probes(n, k) /\ p.at = b /\ j < b[i].dib
        /\ p.hand = [key |-> k, val |-> v, dib |-> j + 1]
        /\ p.hand.key = k /\ p.hand.val = v /\ p.hand.dib = j + 1
    BY <1>2 DEF Seeking
  <2>2. CarryResult(n, k, p, h, q)
    BY <1>0, <1>2, <2>1, CarryDoes, Zenon
  <2>3. h \in 0..n - 1
    BY <1>0, AtType
  <2>4. /\ i \in 0..n - 1 /\ b[i].dib \in Nat /\ b[h].dib \in Nat
    BY <2>3 DEF Used, Sound, Shaped, Bucket
  <2>5. b[h].dib >= j + 1
    <3>1. j \in 0..b[i].dib - 1
      BY <2>1, <2>4
    <3> QED
      BY <1>0, <3>1, RunBefore
  <2>6. CASE b[h].key = k
    <3>1. h = i
      BY <2>3, <2>4, <2>5, <2>6 DEF Sound, Unique, Used
    <3>2. /\ q \in Probes(n, k) /\ q.done /\ q.old = b[i].val
          /\ q.at = [b EXCEPT ![i] = [b[i] EXCEPT !.val = v]]
      BY <2>1, <2>2, <2>4, <2>5, <2>6, <3>1 DEF CarryResult
    <3> QED
      BY <3>2 DEF Seeking
  <2>7. CASE b[h].key # k
    <3>1. /\ q \in Probes(n, k) /\ ~q.done /\ q.at = b
          /\ q.hand = [p.hand EXCEPT !.dib = @ + 1]
      BY <2>1, <2>2, <2>4, <2>5, <2>7 DEF CarryResult
    <3>2. q.hand = [key |-> k, val |-> v, dib |-> (j + 1) + 1]
      BY <2>1, <3>1
    <3>3. j # b[i].dib - 1
      BY <1>0, <2>4, <2>7 DEF Sound, Placed, Used
    <3>4. j + 1 < b[i].dib
      BY <2>1, <2>4, <3>3
    <3> QED
      BY <3>1, <3>2, <3>4 DEF Seeking
  <2> QED
    BY <2>6, <2>7
<1> QED
  BY <1>1, <1>2

\* Inserting a key that is in the table changes its value and nothing else.
LEMMA InsertOld ==
    ASSUME NEW n \in Nat, n > 1, NEW b, Sound(b, n), Roomy(b, n),
           NEW k \in Keys, NEW v, <<k, v>> \in Items,
           NEW i \in Used(b, n), b[i].key = k
    PROVE  LET r == Insert(b, k, v) IN
           /\ r.at = [b EXCEPT ![i] = [b[i] EXCEPT !.val = v]]
           /\ r.old = b[i].val
<1>1. n > 0 /\ b \in [0..n - 1 -> Bucket] /\ v \in Values
  BY ItemParts DEF Sound, Shaped
<1>2. PICK probe : InsertRun(probe, n, b, k, v)
  BY <1>1, InsertRuns
<1> DEFINE S == {j \in Nat : j <= n => Seeking(b, n, k, v, i, probe[j], j)}
<1>3. b[i].dib \in 1..n
  <2>1. b[i].dib <= n
    BY <1>1, DibBounded
  <2> QED
    BY <2>1 DEF Sound, Shaped, Bucket, Used
<1>4. 0 \in S
  <2>1. Start(b, k, v) \in Probes(n, k)
    BY ItemParts DEF Start, Probes, Bucket, Sound, Shaped
  <2>2. Seeking(b, n, k, v, i, Start(b, k, v), 0)
    BY <1>3, <2>1 DEF Seeking, Start
  <2> QED
    BY <1>2, <2>2 DEF InsertRun
<1>5. ASSUME NEW j \in Nat, j \in S PROVE j + 1 \in S
  <2> SUFFICES ASSUME j + 1 <= n
               PROVE  Seeking(b, n, k, v, i, probe[j + 1], j + 1)
    OBVIOUS
  <2>1. j \in 0..n - 1 /\ Seeking(b, n, k, v, i, probe[j], j)
    BY <1>5
  <2>2. probe[j + 1] = Carry(probe[j], j)
    BY <1>2, <2>1 DEF InsertRun
  <2>3. Seeking(b, n, k, v, i, Carry(probe[j], j), j + 1)
    BY <1>1, <2>1, SeekStep
  <2> QED
    BY <2>2, <2>3
<1>6. n \in S
  <2> HIDE DEF S
  <2> QED
    BY <1>4, <1>5, SetInduction
<1> QED
  BY <1>2, <1>3, <1>6 DEF Seeking, InsertRun


\* What is stored under k becomes v; what is stored under other keys stays.
Updated(before, after, k, v) ==
    \A x, y : <<x, y>> \in after <=>
              IF x = k THEN y = v ELSE <<x, y>> \in before
Sets(b, n, c, k, v) == Updated(Stored(b, n), Stored(c, n), k, v)

\* An insertion sets the value of its key, and says whether the key was new.
LEMMA InsertSets ==
    ASSUME NEW n \in Nat, n > 1, NEW b, Sound(b, n), Roomy(b, n),
           NEW k \in Keys, NEW v, <<k, v>> \in Items,
           NEW r, r = Insert(b, k, v)
    PROVE  /\ Sound(r.at, n) /\ Sets(b, n, r.at, k, v)
           /\ r.old = None => \E e \in 0..n - 1 :
                                 /\ e \notin Used(b, n)
                                 /\ Used(r.at, n) = Used(b, n) \cup {e}
           /\ r.old # None => Used(r.at, n) = Used(b, n)
<1>1. CASE \A i \in Used(b, n) : b[i].key # k
  <2>1. /\ Sound(r.at, n) /\ r.old = None /\ PutDown(b, n, k, v, r)
    BY <1>1, InsertNew
  <2>2. \A y : <<k, y>> \notin Stored(b, n)
    BY <1>1 DEF Stored
  <2>3. Sets(b, n, r.at, k, v)
    BY <2>1, <2>2 DEF PutDown, Sets, Updated
  <2> QED
    BY <2>1, <2>3 DEF PutDown
<1>2. CASE \E i \in Used(b, n) : b[i].key = k
  <2>1. PICK i \in Used(b, n) : b[i].key = k
    BY <1>2
  <2> DEFINE c == [b EXCEPT ![i] = [b[i] EXCEPT !.val = v]]
  <2>2. r.at = c /\ r.old = b[i].val
    BY <2>1, InsertOld
  <2>3. /\ i \in 0..n - 1 /\ b \in [0..n - 1 -> Bucket] /\ b[i] \in Bucket
        /\ c \in [0..n - 1 -> Bucket]
        /\ c[i].key = k /\ c[i].val = v /\ c[i].dib = b[i].dib
        /\ \A j \in 0..n - 1 : j # i => c[j] = b[j]
    BY <2>1, ItemParts DEF Sound, Shaped, Used, Bucket
  <2> HIDE DEF c
  <2>4. \A j \in 0..n - 1 : c[j].key = b[j].key /\ c[j].dib = b[j].dib
    BY <2>1, <2>3
  <2>5. Used(c, n) = Used(b, n)
    BY <2>4 DEF Used
  <2>6. Sound(c, n)
    <3>1. Shaped(c, n)
      BY <2>1, <2>3, <2>4 DEF Sound, Shaped, Used
    <3>2. Placed(c, n)
      BY <2>4 DEF Sound, Placed
    <3>3. Ordered(c, n)
      <4>1. \A j \in 0..n - 1 : Before(n, j) \in 0..n - 1
        BY DEF Before
      <4> QED
        BY <2>4, <4>1 DEF Sound, Ordered
    <3>4. Unique(c, n)
      BY <2>4 DEF Sound, Unique
    <3> QED
      BY <3>1, <3>2, <3>3, <3>4 DEF Sound
  <2>7. Sets(b, n, c, k, v)
    <3> SUFFICES ASSUME NEW x, NEW y
                 PROVE  <<x, y>> \in Stored(c, n) <=>
                        IF x = k THEN y = v ELSE <<x, y>> \in Stored(b, n)
      BY Zenon DEF Sets, Updated
    <3>1. \A j \in Used(b, n) : b[j].key = k => j = i
      BY <2>1 DEF Sound, Unique, Used
    <3>2. <<x, y>> \in Stored(c, n) <=>
          \E j \in Used(b, n) : x = c[j].key /\ y = c[j].val
      BY <2>5 DEF Stored
    <3>3. <<x, y>> \in Stored(b, n) <=>
          \E j \in Used(b, n) : x = b[j].key /\ y = b[j].val
      BY DEF Stored
    <3>4. CASE x = k
      BY <2>1, <2>3, <2>4, <3>1, <3>2, <3>4 DEF Used
    <3>5. CASE x # k
      BY <2>1, <2>3, <2>4, <3>1, <3>2, <3>3, <3>5 DEF Used
    <3> QED
      BY <3>4, <3>5
  <2>8. r.old # None
    <3>1. <<b[i].key, b[i].val>> \in Items
      BY <2>1 DEF Sound, Shaped, Used
    <3> QED
      BY <2>2, <3>1, ItemParts, NoneApart
  <2> QED
    BY <2>2, <2>5, <2>6, <2>7, <2>8
<1> QED
  BY <1>1, <1>2

-----------------------------------------------------------------------------
(* Moving to another table *)

\* A table has an empty bucket if it has fewer entries than buckets.
LEMMA UsedFinite ==
    ASSUME NEW n \in Nat, NEW b
    PROVE  /\ IsFiniteSet(Used(b, n)) /\ Cardinality(Used(b, n)) \in Nat
           /\ Cardinality(Used(b, n)) <= n
           /\ Cardinality(Used(b, n)) < n => Roomy(b, n)
<1>1. IsFiniteSet(0..n - 1) /\ Cardinality(0..n - 1) = n
  BY FS_Interval
<1>2. Used(b, n) \in SUBSET (0..n - 1)
  BY DEF Used
<1>3. /\ IsFiniteSet(Used(b, n))
      /\ Cardinality(Used(b, n)) <= Cardinality(0..n - 1)
  BY <1>1, <1>2, FS_Subset
<1>4. Cardinality(Used(b, n)) \in Nat
  BY <1>3, FS_CardinalityType
<1>5. Cardinality(Used(b, n)) < n => Roomy(b, n)
  <2> SUFFICES ASSUME ~Roomy(b, n), Cardinality(Used(b, n)) < n PROVE FALSE
    OBVIOUS
  <2>1. Used(b, n) = 0..n - 1
    BY DEF Used, Roomy
  <2> QED
    BY <1>1, <2>1
<1> QED
  BY <1>1, <1>3, <1>4, <1>5

\* An empty table.
LEMMA NewSound ==
    ASSUME NEW n \in Nat, n > 0
    PROVE  Sound(New(n), n) /\ Used(New(n), n) = {} /\ Stored(New(n), n) = {}
<1>1. /\ New(n) \in [0..n - 1 -> Bucket]
      /\ \A i \in 0..n - 1 : New(n)[i] = Empty
  BY DEF New, Empty, Bucket
<1>2. Empty.dib = 0
  BY DEF Empty
<1>3. Used(New(n), n) = {}
  BY <1>1, <1>2 DEF Used
<1> QED
  BY <1>1, <1>2, <1>3
     DEF Sound, Shaped, Placed, Ordered, Unique, Stored

\* What the loop of resize0 does at an old bucket.
Move(b, t, i) == IF b[i].dib = 0 THEN t
                 ELSE Insert(t, b[i].key, b[i].val).at

ResizeRun(new, n, b, m) ==
    /\ new[0] = New(m)
    /\ \A i \in 0..n - 1 : new[i + 1] = Move(b, new[i], i)
    /\ Resize(b, m) = new[n]

\* The recursion of Resize is defined: one Move for each old bucket.
LEMMA ResizeRuns ==
    ASSUME NEW n \in Nat, NEW b, Shaped(b, n), NEW m \in Nat, m > 0
    PROVE  \E new : ResizeRun(new, n, b, m)
<1> DEFINE X == [0..m - 1 -> Bucket]
           Is(g) == g = [i \in 0..n |->
                            IF i = 0 THEN New(m)
                            ELSE IF b[i - 1].dib = 0 THEN g[i - 1]
                            ELSE Insert(g[i - 1],
                                         b[i - 1].key, b[i - 1].val).at]
           step == [x \in X \X Nat |->
                       IF x[2] < n THEN Move(b, x[1], x[2]) ELSE x[1]]
           new == CHOOSE g : Is(g)
<1>1. Resize(b, m) = new[n]
  <2>1. Size(b) = n
    BY SizeIs DEF Shaped
  <2> QED
    BY <2>1, Zenon DEF Resize
<1>2. New(m) \in X
  BY DEF New, Empty, Bucket
<1>3. PICK f \in [0..n -> X] : UnfoldsTo(f, New(m), step, n)
  <2>1. ASSUME NEW t \in X, NEW i \in 0..n - 1 PROVE Move(b, t, i) \in X
    <3>1. CASE b[i].dib # 0
      <4>1. b[i].key \in Keys /\ b[i].val \in Values
        BY <3>1, ItemParts DEF Shaped
      <4>2. Insert(t, b[i].key, b[i].val) \in Probes(m, b[i].key)
        BY <4>1, InsertType
      <4> QED
        BY <3>1, <4>2 DEF Move, Probes
    <3> QED
      BY <3>1 DEF Move
  <2>2. step \in [X \X Nat -> X]
    <3>1. ASSUME NEW x \in X \X Nat
          PROVE  (IF x[2] < n THEN Move(b, x[1], x[2]) ELSE x[1]) \in X
      <4>1. x[1] \in X /\ x[2] \in Nat
        OBVIOUS
      <4> HIDE DEF X
      <4>2. CASE x[2] < n
        <5>1. x[2] \in 0..n - 1
          BY <4>1, <4>2
        <5> QED
          BY <2>1, <4>1, <4>2, <5>1
      <4> QED
        BY <4>1, <4>2
    <3> HIDE DEF X
    <3> QED
      BY <3>1
  <2> HIDE DEF X, step
  <2> QED
    BY <1>2, <2>2, FiniteRecursion
<1>4. Is(f)
  <2>1. ASSUME NEW i \in 0..n, i # 0
        PROVE  step[<<f[i - 1], i - 1>>] =
               IF b[i - 1].dib = 0 THEN f[i - 1]
               ELSE Insert(f[i - 1], b[i - 1].key, b[i - 1].val).at
    <3>1. i - 1 \in Nat /\ i - 1 < n /\ f[i - 1] \in X
      BY <1>3, <2>1
    <3> HIDE DEF X
    <3>2. step[<<f[i - 1], i - 1>>] = Move(b, f[i - 1], i - 1)
      BY <3>1
    <3> QED
      BY <3>2 DEF Move
  <2> HIDE DEF step
  <2> QED
    BY <1>3, <2>1 DEF UnfoldsTo
<1>5. Is(new)
  <2> HIDE DEF Is
  <2> QED
    BY <1>4, Zenon
<1> HIDE DEF new
<1>6. new[0] = New(m)
  <2>1. 0 \in 0..n
    OBVIOUS
  <2> QED
    BY <1>5, <2>1
<1>7. ASSUME NEW i \in 0..n - 1 PROVE new[i + 1] = Move(b, new[i], i)
  <2>1. i + 1 \in 0..n /\ i + 1 # 0 /\ (i + 1) - 1 = i
    OBVIOUS
  <2> QED
    BY <1>5, <2>1 DEF Move
<1> QED
  BY <1>1, <1>6, <1>7 DEF ResizeRun

\* The entries of the first i buckets have moved.
Moved(b, n, m, t, i) ==
    /\ Sound(t, m)
    /\ Stored(t, m) =
       {<<b[x].key, b[x].val>> : x \in {y \in Used(b, n) : y < i}}
    /\ Cardinality(Used(t, m)) = Cardinality({y \in Used(b, n) : y < i})

\* Moving one more entry keeps the new table sound, with the pairs moved so far.
LEMMA MoveStep ==
    ASSUME NEW n \in Nat, NEW b, Sound(b, n), NEW m \in Nat, m > 1,
           Cardinality(Used(b, n)) < m, NEW i \in 0..n - 1, NEW t,
           Moved(b, n, m, t, i)
    PROVE  Moved(b, n, m, Move(b, t, i), i + 1)
<1> DEFINE done(j) == {y \in Used(b, n) : y < j}
<1>1. CASE b[i].dib = 0
  <2>1. done(i + 1) = done(i)
    BY <1>1 DEF Used
  <2> QED
    BY <1>1, <2>1 DEF Moved, Move
<1>2. CASE b[i].dib # 0
  <2>1. i \in Used(b, n) /\ done(i + 1) = done(i) \cup {i} /\ i \notin done(i)
    BY <1>2 DEF Used
  <2>2. /\ IsFiniteSet(Used(b, n)) /\ Cardinality(Used(b, n)) \in Nat
        /\ done(i) \in SUBSET Used(b, n)
    BY UsedFinite
  <2> HIDE DEF done
  <2>3. /\ IsFiniteSet(done(i)) /\ Cardinality(done(i)) \in Nat
        /\ Cardinality(done(i)) <= Cardinality(Used(b, n))
    BY <2>2, FS_Subset, FS_CardinalityType
  <2>4. /\ Sound(t, m) /\ Cardinality(Used(t, m)) = Cardinality(done(i))
        /\ Stored(t, m) = {<<b[x].key, b[x].val>> : x \in done(i)}
    BY DEF Moved, done
  <2>5. Roomy(t, m)
    BY <2>2, <2>3, <2>4, UsedFinite
  <2>6. <<b[i].key, b[i].val>> \in Items /\ b[i].key \in Keys
    BY <1>2, ItemParts DEF Sound, Shaped
  <2>7. \A y \in Used(t, m) : t[y].key # b[i].key
    <3> SUFFICES ASSUME NEW y \in Used(t, m), t[y].key = b[i].key
                 PROVE  FALSE
      OBVIOUS
    <3>1. <<t[y].key, t[y].val>> \in Stored(t, m)
      BY DEF Stored
    <3>2. PICK x \in done(i) : <<t[y].key, t[y].val>> = <<b[x].key, b[x].val>>
      BY <2>4, <3>1
    <3>3. x = i
      BY <2>1, <2>2, <3>2 DEF Sound, Unique, Used
    <3> QED
      BY <2>1, <3>2, <3>3
  <2> DEFINE r == Insert(t, b[i].key, b[i].val)
  <2>8. Sound(r.at, m) /\ PutDown(t, m, b[i].key, b[i].val, r)
    BY <2>4, <2>5, <2>6, <2>7, InsertNew
  <2> HIDE DEF r
  <2>9. PICK e \in 0..m - 1 : /\ e \notin Used(t, m)
                              /\ Used(r.at, m) = Used(t, m) \cup {e}
    BY <2>8 DEF PutDown
  <2>10. Cardinality(Used(r.at, m)) = Cardinality(Used(t, m)) + 1
    BY <2>9, UsedFinite, FS_AddElement
  <2>11. Cardinality(done(i + 1)) = Cardinality(done(i)) + 1
    BY <2>1, <2>3, FS_AddElement
  <2>12. Stored(r.at, m) = {<<b[x].key, b[x].val>> : x \in done(i + 1)}
    BY <2>1, <2>4, <2>8 DEF PutDown
  <2>13. Move(b, t, i) = r.at
    BY <1>2 DEF Move, r
  <2> QED
    BY <2>4, <2>8, <2>10, <2>11, <2>12, <2>13 DEF Moved, done
<1> QED
  BY <1>1, <1>2

\* A table of any size that has room for one more takes over all entries.
LEMMA ResizeSound ==
    ASSUME NEW n \in Nat, NEW b, Sound(b, n), NEW m \in Nat, m > 1,
           Cardinality(Used(b, n)) < m, NEW c, c = Resize(b, m)
    PROVE  /\ Sound(c, m) /\ Stored(c, m) = Stored(b, n)
           /\ Cardinality(Used(c, m)) = Cardinality(Used(b, n))
<1>1. m > 0 /\ Shaped(b, n)
  BY DEF Sound
<1>2. PICK new : ResizeRun(new, n, b, m)
  BY <1>1, ResizeRuns
<1> DEFINE S == {i \in Nat : i <= n => Moved(b, n, m, new[i], i)}
<1>3. 0 \in S
  <2>1. {y \in Used(b, n) : y < 0} = {}
    BY DEF Used
  <2>2. Moved(b, n, m, New(m), 0)
    BY <1>1, <2>1, NewSound DEF Moved
  <2> QED
    BY <1>2, <2>2 DEF ResizeRun
<1>4. ASSUME NEW i \in Nat, i \in S PROVE i + 1 \in S
  <2> SUFFICES ASSUME i + 1 <= n PROVE Moved(b, n, m, new[i + 1], i + 1)
    OBVIOUS
  <2>1. i \in 0..n - 1 /\ Moved(b, n, m, new[i], i)
    BY <1>4
  <2>2. new[i + 1] = Move(b, new[i], i)
    BY <1>2, <2>1 DEF ResizeRun
  <2> QED
    BY <2>1, <2>2, MoveStep
<1>5. n \in S
  <2> HIDE DEF S
  <2> QED
    BY <1>3, <1>4, SetInduction
<1>6. {y \in Used(b, n) : y < n} = Used(b, n)
  BY DEF Used
<1>7. Moved(b, n, m, new[n], n)
  BY <1>5
<1> QED
  BY <1>2, <1>6, <1>7 DEF Moved, ResizeRun, Stored

-----------------------------------------------------------------------------
(* Closing the hole a deletion leaves *)

\* The bucket t steps behind a hole, and how far behind it a bucket is.
Behind(n, hole, t) == IF hole + t < n THEN hole + t ELSE hole + t - n
Gap(n, hole, i) == IF i >= hole THEN i - hole ELSE i - hole + n

\* Where the entries that move back end: at an entry that is at home, or at an
\* empty bucket, before it comes round to the hole.
LEMMA CloseRun ==
    ASSUME NEW n \in Nat, n > 1, NEW b, Sound(b, n), Roomy(b, n),
           NEW hole \in Used(b, n)
    PROVE  \E run \in 1..n - 1 :
              /\ b[Behind(n, hole, run)].dib <= 1
              /\ \A t \in 1..run - 1 : b[Behind(n, hole, t)].dib > 1
              /\ Close(b, hole) =
                   [i \in 0..n - 1 |->
                       IF Gap(n, hole, i) >= run THEN b[i]
                       ELSE IF Gap(n, hole, i) = run - 1 THEN Empty
                       ELSE [b[After(n, i)] EXCEPT !.dib = @ - 1]]
<1> DEFINE Stops(j) == b[(hole + j) % n].dib <= 1
           Ends(j) == Stops(j) /\ \A i \in 1..n : i < j => ~Stops(i)
           T == {j \in 1..n : Stops(j)}
           run == CHOOSE j \in 1..n : Ends(j)
<1>1. Size(b) = n /\ DOMAIN b = 0..n - 1
  BY SizeIs DEF Sound, Shaped
<1>2. Close(b, hole) =
        [i \in 0..n - 1 |->
            IF (i - hole + n) % n >= run THEN b[i]
            ELSE IF (i - hole + n) % n = run - 1 THEN Empty
            ELSE [b[(i + 1) % n] EXCEPT !.dib = @ - 1]]
  BY <1>1, Zenon DEF Close, First
<1>3. hole \in 0..n - 1 /\ b[hole].dib # 0
  BY DEF Used
<1>4. \A i \in 0..n - 1 : b[i].dib \in Nat
  BY DEF Sound, Shaped, Bucket
<1>5. \A i \in 0..n - 1 : /\ (i - hole + n) % n = Gap(n, hole, i)
                          /\ (i + 1) % n = After(n, i)
  <2> TAKE i \in 0..n - 1
  <2>1. /\ i - hole + n \in (0 - n)..(2 * n - 1)
        /\ i + 1 \in (0 - n)..(2 * n - 1) /\ n > 0
    BY <1>3
  <2>2. /\ (i - hole + n) % n = IF i - hole + n < n THEN i - hole + n
                                ELSE i - hole + n - n
        /\ (i + 1) % n = IF i + 1 < n THEN i + 1 ELSE i + 1 - n
    BY <1>3, <2>1, RemainderNear
  <2> QED
    BY <1>3, <2>2 DEF Gap, After
<1>6. \A t \in 0..n - 1 : (hole + t) % n = Behind(n, hole, t)
  <2> TAKE t \in 0..n - 1
  <2>1. hole + t \in (0 - n)..(2 * n - 1) /\ n > 0
    BY <1>3
  <2> QED
    BY <1>3, <2>1, RemainderNear DEF Behind
<1>7. PICK e \in 1..n - 1 : b[(hole + e) % n].dib = 0
  <2>1. PICK z \in 0..n - 1 : b[z].dib = 0
    BY DEF Roomy
  <2>2. PICK t \in 0..n - 1 : (hole + t) % n = z
    <3>1. hole \in Nat /\ n > 0
      BY <1>3
    <3> QED
      BY <3>1, EveryBucketVisited
  <2>3. t # 0
    <3>1. (hole + t) % n = Behind(n, hole, t)
      BY <1>6
    <3>2. t = 0 => Behind(n, hole, t) = hole
      BY <1>3 DEF Behind
    <3> QED
      BY <1>3, <2>1, <2>2, <3>1, <3>2
  <2> QED
    BY <2>1, <2>2, <2>3
<1>8. \E j \in 1..n : Ends(j)
  <2>1. T \subseteq Nat /\ e \in T
    BY <1>7
  <2>2. PICK m \in T : \A j \in T : m <= j
    <3> HIDE DEF T
    <3> QED
      BY <2>1, LeastElement
  <2>3. \A i \in 1..n : i < m => ~Stops(i)
    BY <2>2
  <2> QED
    BY <2>2, <2>3
<1>9. run \in 1..n /\ Ends(run)
  <2> HIDE DEF Ends
  <2> QED
    BY <1>8, Zenon
<1> HIDE DEF run
<1>10. run \in 1..n - 1
  BY <1>7, <1>9
<1>11. /\ b[Behind(n, hole, run)].dib <= 1
       /\ \A t \in 1..run - 1 : b[Behind(n, hole, t)].dib > 1
  <2>1. b[Behind(n, hole, run)].dib <= 1
    BY <1>6, <1>9, <1>10
  <2>2. ASSUME NEW t \in 1..run - 1 PROVE b[Behind(n, hole, t)].dib > 1
    <3>1. t \in 1..n /\ t < run /\ t \in 0..n - 1
      BY <1>10
    <3>2. ~Stops(t)
      BY <1>9, <3>1
    <3>3. Behind(n, hole, t) \in 0..n - 1
      BY <1>3, <3>1 DEF Behind
    <3> QED
      BY <1>4, <1>6, <3>1, <3>2, <3>3
  <2> QED
    BY <2>1, <2>2
<1>12. Close(b, hole) =
        [i \in 0..n - 1 |->
            IF Gap(n, hole, i) >= run THEN b[i]
            ELSE IF Gap(n, hole, i) = run - 1 THEN Empty
            ELSE [b[After(n, i)] EXCEPT !.dib = @ - 1]]
  BY <1>2, <1>5
<1> QED
  BY <1>10, <1>11, <1>12

\* Closing a hole removes the pair of its key, and the table stays sound.
LEMMA CloseSound ==
    ASSUME NEW n \in Nat, n > 1, NEW b, Sound(b, n), Roomy(b, n),
           NEW hole \in Used(b, n), NEW c, c = Close(b, hole)
    PROVE  /\ Sound(c, n)
           /\ \E e \in Used(b, n) : Used(c, n) = Used(b, n) \ {e}
           /\ \A x, y : <<x, y>> \in Stored(c, n) <=>
                        <<x, y>> \in Stored(b, n) /\ x # b[hole].key
<1>1. PICK run \in 1..n - 1 :
         /\ b[Behind(n, hole, run)].dib <= 1
         /\ \A t \in 1..run - 1 : b[Behind(n, hole, t)].dib > 1
         /\ c = [i \in 0..n - 1 |->
                    IF Gap(n, hole, i) >= run THEN b[i]
                    ELSE IF Gap(n, hole, i) = run - 1 THEN Empty
                    ELSE [b[After(n, i)] EXCEPT !.dib = @ - 1]]
  BY CloseRun
<1> DEFINE G(i) == Gap(n, hole, i)
           last == Behind(n, hole, run - 1)
<1>2. /\ hole \in 0..n - 1 /\ b[hole].dib # 0
      /\ b \in [0..n - 1 -> Bucket]
      /\ \A i \in 0..n - 1 : b[i].dib \in Nat
  BY DEF Used, Sound, Shaped, Bucket
<1>3. \A i \in 0..n - 1 :
         /\ G(i) \in 0..n - 1 /\ i = Behind(n, hole, G(i))
         /\ G(i) = 0 <=> i = hole
         /\ After(n, i) \in 0..n - 1 /\ Before(n, i) \in 0..n - 1
         /\ Before(n, After(n, i)) = i /\ After(n, Before(n, i)) = i
         /\ G(i) < n - 1 => G(After(n, i)) = G(i) + 1
         /\ G(Before(n, i)) = IF G(i) = 0 THEN n - 1 ELSE G(i) - 1
  BY <1>2 DEF Gap, Behind, After, Before
<1>4. last \in 0..n - 1 /\ G(last) = run - 1
  BY <1>2 DEF Gap, Behind
<1> HIDE DEF last
<1>5. \A i \in 0..n - 1 : G(i) = run - 1 => i = last
  BY <1>3 DEF last
<1>6. \A i \in 0..n - 1 : G(i) \in 1..run - 1 => b[i].dib > 1
  BY <1>1, <1>3
<1>7. \A i \in 0..n - 1 : G(i) = run => b[i].dib <= 1
  BY <1>1, <1>3
<1>8. \A i \in 0..n - 1 : G(i) < run => b[i].dib # 0
  <2> SUFFICES ASSUME NEW i \in 0..n - 1, G(i) < run PROVE b[i].dib # 0
    OBVIOUS
  <2>1. G(i) \in 0..n - 1 /\ run \in 1..n - 1
    BY <1>1, <1>3
  <2>2. CASE G(i) = 0
    BY <1>2, <1>3, <2>2
  <2>3. CASE G(i) # 0
    <3>1. G(i) \in 1..run - 1
      BY <2>1, <2>3
    <3> QED
      BY <1>6, <3>1
  <2> QED
    BY <2>2, <2>3
<1> HIDE DEF G
<1>9. ASSUME NEW i \in 0..n - 1
      PROVE  /\ G(i) >= run => c[i] = b[i]
             /\ G(i) = run - 1 => c[i] = Empty
             /\ G(i) < run - 1 =>
                  /\ c[i] = [b[After(n, i)] EXCEPT !.dib = @ - 1]
                  /\ c[i].key = b[After(n, i)].key
                  /\ c[i].val = b[After(n, i)].val
                  /\ c[i].dib = b[After(n, i)].dib - 1
                  /\ G(After(n, i)) \in 1..run - 1
                  /\ b[After(n, i)].dib > 1
  <2>1. G(i) \in 0..n - 1 /\ After(n, i) \in 0..n - 1
    BY <1>3
  <2>2. G(i) >= run => c[i] = b[i]
    BY <1>1 DEF G
  <2>3. G(i) = run - 1 => c[i] = Empty
    BY <1>1, <2>1 DEF G
  <2>4. ASSUME G(i) < run - 1
        PROVE  /\ c[i] = [b[After(n, i)] EXCEPT !.dib = @ - 1]
               /\ G(After(n, i)) \in 1..run - 1
    <3>1. c[i] = [b[After(n, i)] EXCEPT !.dib = @ - 1]
      BY <1>1, <2>1, <2>4 DEF G
    <3> QED
      BY <1>3, <2>1, <2>4, <3>1
  <2>5. b[After(n, i)] \in Bucket
    BY <1>2, <2>1
  <2> QED
    BY <1>6, <2>1, <2>2, <2>3, <2>4, <2>5 DEF Bucket
<1>10. Empty \in Bucket /\ Empty.dib = 0
  BY DEF Empty, Bucket
<1>11. ASSUME NEW i \in 0..n - 1
       PROVE  /\ c[i] \in Bucket /\ c[i].dib \in Nat
              /\ c[i].dib = 0 => c[i] = Empty
  <2>1. G(i) \in 0..n - 1 /\ After(n, i) \in 0..n - 1
    BY <1>3
  <2>2. CASE G(i) >= run
    <3>1. c[i] = b[i] /\ b[i] \in Bucket
      BY <1>2, <1>9, <2>2
    <3> QED
      BY <3>1 DEF Sound, Shaped, Bucket
  <2>3. CASE G(i) = run - 1
    <3>1. c[i] = Empty
      BY <1>9, <2>3, Zenon
    <3> QED
      BY <1>10, <3>1
  <2>4. CASE G(i) < run - 1
    <3> DEFINE e == b[After(n, i)]
    <3>1. e \in Bucket
      BY <1>2, <2>1
    <3>2. c[i] = [e EXCEPT !.dib = @ - 1] /\ e.dib > 1
      BY <1>9, <2>4
    <3> HIDE DEF e
    <3> QED
      BY <3>1, <3>2 DEF Bucket
  <2>5. run \in 1..n - 1
    BY <1>1
  <2> QED
    BY <2>1, <2>2, <2>3, <2>4, <2>5
\* Which bucket of b an entry of c comes from.
<1> DEFINE From(i) == IF G(i) >= run THEN i ELSE After(n, i)
<1>12. ASSUME NEW i \in 0..n - 1
       PROVE  /\ c[i].dib # 0 <=> b[i].dib # 0 /\ i # last
              /\ c[i].dib # 0 =>
                   /\ From(i) \in 0..n - 1 /\ From(i) # hole
                   /\ b[From(i)].dib # 0
                   /\ c[i].key = b[From(i)].key /\ c[i].val = b[From(i)].val
                   /\ IF G(i) >= run THEN c[i].dib = b[From(i)].dib
                      ELSE G(i) < run - 1 /\ c[i].dib = b[From(i)].dib - 1
  <2>1. G(i) \in 0..n - 1 /\ After(n, i) \in 0..n - 1 /\ run \in 1..n - 1
    BY <1>1, <1>3
  <2>2. CASE G(i) >= run
    <3>1. i # last /\ i # hole
      BY <1>3, <1>4, <2>1, <2>2
    <3> QED
      BY <1>9, <2>2, <3>1
  <2>3. CASE G(i) = run - 1
    BY <1>5, <1>9, <1>10, <2>3
  <2>4. CASE G(i) < run - 1
    <3>1. /\ c[i].dib = b[After(n, i)].dib - 1 /\ b[After(n, i)].dib > 1
          /\ G(After(n, i)) \in 1..run - 1
          /\ c[i].key = b[After(n, i)].key /\ c[i].val = b[After(n, i)].val
      BY <1>9, <2>4
    <3>2. i # last /\ b[i].dib # 0
      BY <1>4, <1>8, <2>1, <2>4
    <3>3. After(n, i) # hole /\ ~(G(i) >= run)
      BY <1>3, <2>1, <2>4, <3>1
    <3>4. b[After(n, i)].dib \in Nat
      BY <1>2, <2>1
    <3> QED
      BY <2>1, <2>4, <3>1, <3>2, <3>3, <3>4
  <2> QED
    BY <2>1, <2>2, <2>3, <2>4
<1> HIDE DEF From
<1>13. Shaped(c, n)
  <2>1. c \in [0..n - 1 -> Bucket]
    BY <1>1, <1>11
  <2>2. \A i \in 0..n - 1 : c[i].dib # 0 => <<c[i].key, c[i].val>> \in Items
    BY <1>12 DEF Sound, Shaped
  <2> QED
    BY <1>11, <2>1, <2>2 DEF Shaped
<1>14. Placed(c, n)
  <2> SUFFICES ASSUME NEW i \in 0..n - 1, c[i].dib # 0
               PROVE  At(n, c[i].key, c[i].dib - 1) = i
    BY DEF Placed
  <2> DEFINE z == From(i)
  <2>1. /\ z \in 0..n - 1 /\ b[z].dib # 0 /\ c[i].key = b[z].key
        /\ IF G(i) >= run THEN c[i].dib = b[z].dib
           ELSE G(i) < run - 1 /\ c[i].dib = b[z].dib - 1
    BY <1>12
  <2>2. At(n, b[z].key, b[z].dib - 1) = z
    BY <2>1 DEF Sound, Placed
  <2>3. CASE G(i) >= run
    BY <2>1, <2>2, <2>3 DEF From
  <2>4. CASE ~(G(i) >= run)
    <3>1. z = After(n, i) /\ c[i].dib = b[z].dib - 1 /\ b[z].dib \in Nat
      BY <1>2, <2>1, <2>4 DEF From
    <3> HIDE DEF z
    <3>2. b[z].key \in Keys /\ n > 0
      <4>1. <<b[z].key, b[z].val>> \in Items
        BY <2>1, <3>1 DEF Sound, Shaped
      <4> QED
        BY <4>1, ItemParts
    <3> DEFINE q == At(n, b[z].key, (b[z].dib - 1) - 1)
    <3>3. /\ (b[z].dib - 1) - 1 \in Int
          /\ ((b[z].dib - 1) - 1) + 1 = b[z].dib - 1
      BY <3>1
    <3>4. q \in 0..n - 1 /\ After(n, q) = z
      BY <2>2, <3>2, <3>3, AtNext, AtType
    <3> HIDE DEF q
    <3>5. q = i
      BY <1>3, <3>1, <3>4
    <3> QED
      BY <2>1, <3>1, <3>5 DEF q
  <2> QED
    BY <2>3, <2>4
<1>15. Ordered(c, n)
  <2> SUFFICES ASSUME NEW i \in 0..n - 1, c[i].dib > 1
               PROVE  c[Before(n, i)].dib >= c[i].dib - 1
    BY DEF Ordered
  <2> DEFINE p == Before(n, i)
             a == After(n, i)
  <2>1. /\ p \in 0..n - 1 /\ a \in 0..n - 1 /\ G(i) \in 0..n - 1
        /\ After(n, p) = i /\ Before(n, a) = i
        /\ G(p) = IF G(i) = 0 THEN n - 1 ELSE G(i) - 1
    BY <1>3
  <2>2. \A z \in 0..n - 1 : b[z].dib > 1 =>
                              b[Before(n, z)].dib >= b[z].dib - 1
    BY DEF Sound, Ordered
  <2>3. G(i) # run - 1 /\ G(i) # run /\ run \in 1..n - 1
    <3>1. run \in 1..n - 1
      BY <1>1
    <3>2. G(i) # run - 1
      <4>1. G(i) = run - 1 => c[i] = Empty
        BY <1>9, Zenon
      <4> QED
        BY <1>10, <4>1
    <3>3. G(i) # run
      <4> SUFFICES ASSUME G(i) = run PROVE FALSE
        OBVIOUS
      <4>1. c[i] = b[i]
        <5>1. G(i) >= run
          BY <3>1
        <5> QED
          BY <1>9, <5>1
      <4>2. b[i].dib <= 1 /\ b[i].dib \in Nat
        BY <1>2, <1>7
      <4> QED
        BY <4>1, <4>2
    <3> QED
      BY <3>1, <3>2, <3>3
  <2> HIDE DEF p, a
  <2>4. b[i].dib \in Nat /\ b[a].dib \in Nat /\ b[p].dib \in Nat
    BY <1>2, <2>1
  <2>5. b[i].dib > 1 => b[p].dib >= b[i].dib - 1
    BY <2>2 DEF p
  <2>6. CASE G(i) > run
    <3>1. G(i) >= run /\ G(p) >= run
      BY <2>1, <2>3, <2>6
    <3>2. c[i] = b[i] /\ c[p] = b[p]
      BY <1>9, <2>1, <3>1
    <3> QED
      BY <2>5, <3>2 DEF p
  <2>7. CASE G(i) < run - 1
    <3>1. c[i].dib = b[a].dib - 1 /\ b[a].dib > 1
      BY <1>9, <2>7 DEF a
    <3>2. b[i].dib >= c[i].dib
      BY <2>1, <2>2, <3>1
    <3>3. CASE G(i) = 0
      <4>1. G(p) >= run
        BY <2>1, <2>3, <3>3
      <4>2. c[p] = b[p]
        BY <1>9, <2>1, <4>1
      <4> QED
        BY <2>4, <2>5, <3>1, <3>2, <4>2 DEF p
    <3>4. CASE G(i) # 0
      <4>1. G(p) < run - 1
        BY <2>1, <2>3, <2>7, <3>4
      <4>2. c[p].dib = b[After(n, p)].dib - 1
        BY <1>9, <2>1, <4>1
      <4> QED
        BY <2>1, <2>4, <3>1, <3>2, <4>2 DEF p
    <3> QED
      BY <3>3, <3>4
  <2> QED
    BY <2>1, <2>3, <2>6, <2>7
<1>16. Unique(c, n)
  <2> SUFFICES ASSUME NEW i \in 0..n - 1, NEW j \in 0..n - 1,
                      c[i].dib # 0, c[j].dib # 0, c[i].key = c[j].key
               PROVE  i = j
    BY DEF Unique
  <2>1. From(i) = From(j)
    BY <1>12 DEF Sound, Unique
  <2>2. /\ G(i) >= run \/ (G(i) < run - 1 /\ G(i) \in 0..n - 1)
        /\ G(j) >= run \/ (G(j) < run - 1 /\ G(j) \in 0..n - 1)
    BY <1>3, <1>12
  <2>3. /\ G(i) < run - 1 => G(After(n, i)) = G(i) + 1
        /\ G(j) < run - 1 => G(After(n, j)) = G(j) + 1
        /\ Before(n, After(n, i)) = i /\ Before(n, After(n, j)) = j
    BY <1>3, <2>2
  <2> QED
    BY <2>1, <2>2, <2>3 DEF From
<1>17. last \in Used(b, n) /\ Used(c, n) = Used(b, n) \ {last}
  <2>1. b[last].dib # 0
    BY <1>4, <1>8
  <2> QED
    BY <1>4, <1>12, <2>1 DEF Used
<1>18. ASSUME NEW x, NEW y
       PROVE  <<x, y>> \in Stored(c, n) <=>
              <<x, y>> \in Stored(b, n) /\ x # b[hole].key
  <2>1. ASSUME <<x, y>> \in Stored(c, n)
        PROVE  <<x, y>> \in Stored(b, n) /\ x # b[hole].key
    <3>1. PICK i \in 0..n - 1 : c[i].dib # 0 /\ x = c[i].key /\ y = c[i].val
      BY <2>1 DEF Stored, Used
    <3>2. /\ From(i) \in 0..n - 1 /\ From(i) # hole /\ b[From(i)].dib # 0
          /\ x = b[From(i)].key /\ y = b[From(i)].val
      BY <1>12, <3>1
    <3>3. x # b[hole].key
      BY <1>2, <3>2 DEF Sound, Unique
    <3> QED
      BY <3>2, <3>3 DEF Stored, Used
  <2>2. ASSUME <<x, y>> \in Stored(b, n), x # b[hole].key
        PROVE  <<x, y>> \in Stored(c, n)
    <3>1. PICK z \in 0..n - 1 : b[z].dib # 0 /\ x = b[z].key /\ y = b[z].val
      BY <2>2 DEF Stored, Used
    <3>2. CASE G(z) >= run
      <4>1. c[z] = b[z]
        BY <1>9, <3>2
      <4> QED
        BY <3>1, <4>1 DEF Stored, Used
    <3>3. CASE G(z) < run
      <4> DEFINE i == Before(n, z)
      <4>1. i \in 0..n - 1 /\ After(n, i) = z /\ G(z) \in 0..n - 1
        BY <1>3
      <4>2. G(z) # 0
        BY <1>3, <2>2, <3>1
      <4>3. G(i) = G(z) - 1
        BY <1>3, <4>2
      <4> HIDE DEF i
      <4>4. G(i) < run - 1
        BY <3>3, <4>1, <4>3
      <4>5. /\ c[i].key = b[z].key /\ c[i].val = b[z].val
            /\ c[i].dib = b[z].dib - 1 /\ b[z].dib > 1
        BY <1>9, <4>1, <4>4
      <4>6. c[i].dib # 0
        BY <1>2, <4>5
      <4> QED
        BY <3>1, <4>1, <4>5, <4>6 DEF Stored, Used
    <3> QED
      BY <1>3, <3>2, <3>3
  <2> QED
    BY <2>1, <2>2
<1> QED
  BY <1>13, <1>14, <1>15, <1>16, <1>17, <1>18 DEF Sound

-----------------------------------------------------------------------------
(* The table through the calls *)

\* The lengths a table can have.
Length(p) == Cap * PowerOf2[p]

\* A table of n buckets with c entries, as the calls leave it.
Fits(b, c, n) ==
    Sound(b, n) /\ c = Cardinality(Used(b, n)) /\ c <= GrowAt(n)

TableInv ==
    /\ \E p \in 0..Cardinality(Keys) : Fits(buckets, count, Length(p))
    /\ oom \in BOOLEAN

\* The load factors of hashmap.c leave an empty bucket, and room for one more
\* entry after a doubling and for all entries after a halving.
LEMMA LoadFactors ==
    ASSUME NEW n \in Nat, n > 1
    PROVE  /\ GrowAt(n) \in Nat /\ GrowAt(n) < n
           /\ GrowAt(n) + 1 <= GrowAt(2 * n)
           /\ ShrinkAt(2 * n) <= GrowAt(n) /\ ShrinkAt(2 * n) \in Nat
           /\ \A m \in Nat : 2 * m <= n => m <= GrowAt(n)
BY DEF GrowAt, ShrinkAt

\* A power of two exceeds its exponent.
LEMMA PowerExceeds == \A p \in Nat : PowerOf2[p] >= p + 1
<1> DEFINE S == {p \in Nat : PowerOf2[p] >= p + 1}
<1>1. 0 \in S /\ \A p \in Nat : p \in S => p + 1 \in S
  BY PowerOf2Rule
<1>2. \A p \in Nat : p \in S
  <2> HIDE DEF S
  <2> QED
    BY <1>1, SetInduction
<1> QED
  BY <1>2

\* A table is never shorter than it was first, and each doubling doubles it.
LEMMA Lengths ==
    ASSUME NEW p \in Nat
    PROVE  /\ Length(p) \in Nat /\ Length(p) > 1
           /\ Length(p) >= 2 * (p + 1) /\ Length(p) >= Cap
           /\ Length(p + 1) = 2 * Length(p)
           /\ Length(0) = Cap
<1>1. /\ PowerOf2[p] \in Nat /\ PowerOf2[p] >= p + 1
      /\ PowerOf2[p + 1] = 2 * PowerOf2[p] /\ PowerOf2[0] = 1
  BY PowerOf2Rule, PowerExceeds
<1>2. Cap \in Nat /\ Cap > 1
  BY HashMapAssumption
<1> DEFINE P == PowerOf2[p]
<1>3. P \in Nat /\ P >= 1 /\ P >= p + 1
  BY <1>1
<1>4. PowerOf2[p + 1] = 2 * P
  BY <1>1
<1> HIDE DEF P
<1>5. Cap * P \in Nat /\ Cap * P >= 2 * P /\ Cap * P >= Cap
  BY <1>2, <1>3
<1>6. Cap * (2 * P) = 2 * (Cap * P)
  BY <1>2, <1>3
<1>7. Cap * 1 = Cap
  BY <1>2
<1>8. Length(p) = Cap * P /\ Length(0) = Cap
  BY <1>1, <1>7 DEF Length, P
<1>9. Length(p + 1) = 2 * Length(p)
  BY <1>4, <1>6, <1>8 DEF Length
<1> QED
  BY <1>2, <1>3, <1>5, <1>8, <1>9

\* A table holds an entry for each of its keys, so no more than there are ids.
LEMMA EntriesBounded ==
    ASSUME NEW n \in Nat, NEW b, Sound(b, n)
    PROVE  /\ Cardinality(Keys) \in Nat
           /\ Cardinality(Used(b, n)) <= Cardinality(Keys)
<1>1. IsFiniteSet(Keys)
  <2> DEFINE first == [item \in Items |-> item[1]]
  <2>1. first \in Surjection(Items, Keys)
    BY DEF Surjection, Keys
  <2>2. IsFiniteSet(Items)
    BY HashMapAssumption
  <2> HIDE DEF first
  <2> QED
    BY <2>1, <2>2, FS_Surjection
<1>2. [i \in Used(b, n) |-> b[i].key] \in Injection(Used(b, n), Keys)
  <2>1. \A i \in Used(b, n) : b[i].key \in Keys
    BY ItemParts DEF Used, Sound, Shaped
  <2>2. \A i, j \in Used(b, n) : b[i].key = b[j].key => i = j
    BY DEF Used, Sound, Unique
  <2> QED
    BY <2>1, <2>2 DEF Injection, IsInjective
<1> QED
  BY <1>1, <1>2, FS_Injection, FS_CardinalityType

\* What the calls rely on when they probe.
LEMMA FitsRoom ==
    ASSUME NEW n \in Nat, n > 1, NEW b, NEW c, Fits(b, c, n)
    PROVE  /\ Size(b) = n /\ Roomy(b, n) /\ c \in Nat /\ c < n
           /\ DOMAIN b = 0..n - 1
<1>1. DOMAIN b = 0..n - 1
  BY DEF Fits, Sound, Shaped
<1>2. /\ Cardinality(Used(b, n)) \in Nat
      /\ Cardinality(Used(b, n)) < n => Roomy(b, n)
  BY UsedFinite
<1>3. GrowAt(n) \in Nat /\ GrowAt(n) < n
  BY LoadFactors
<1>4. c \in Nat /\ c < n /\ Roomy(b, n)
  BY <1>2, <1>3 DEF Fits
<1> QED
  BY <1>1, <1>4, SizeIs

\* hashmap_set sets the value of its key, whether the table grows or not.
LEMMA SetStep ==
    ASSUME NEW p \in 0..Cardinality(Keys), Fits(buckets, count, Length(p)),
           NEW k \in Keys, NEW v, <<k, v>> \in Items, Set(k, v)
    PROVE  \E q \in 0..Cardinality(Keys) :
              /\ Fits(buckets', count', Length(q))
              /\ Updated(Stored(buckets, Length(p)),
                         Stored(buckets', Length(q)), k, v)
<1> DEFINE n == Length(p)
           grows == Grows(buckets)
           q == IF grows THEN p + 1 ELSE p
           m == Length(q)
           room == IF grows THEN Resize(buckets, 2 * Size(buckets)) ELSE buckets
           probe == Insert(room, k, v)
<1>1. n \in Nat /\ n > 1 /\ p \in Nat /\ n >= 2 * (p + 1)
  BY Lengths
<1>2. Size(buckets) = n /\ Roomy(buckets, n) /\ count \in Nat /\ count < n
  BY <1>1, FitsRoom
<1>3. /\ Sound(buckets, n) /\ count = Cardinality(Used(buckets, n))
      /\ count <= GrowAt(n)
  BY DEF Fits
<1>4. /\ GrowAt(n) \in Nat /\ GrowAt(n) < n /\ p + 1 <= GrowAt(n)
      /\ GrowAt(n) + 1 <= GrowAt(2 * n)
  <2> HIDE DEF n
  <2>1. \A j \in Nat : 2 * j <= n => j <= GrowAt(n)
    BY <1>1, LoadFactors
  <2>2. p + 1 \in Nat /\ 2 * (p + 1) <= n
    BY <1>1
  <2>3. /\ GrowAt(n) \in Nat /\ GrowAt(n) < n
        /\ GrowAt(n) + 1 <= GrowAt(2 * n)
    BY <1>1, LoadFactors
  <2> QED
    BY <2>1, <2>2, <2>3
<1>5. grows <=> count >= GrowAt(n)
  BY <1>2 DEF Grows
<1>6. Length(p + 1) = 2 * n /\ p + 1 \in Nat
  BY <1>1, Lengths
<1>7. q \in 0..Cardinality(Keys) /\ m \in Nat /\ m > 1
  <2>1. CASE grows
    <3>1. p + 1 <= Cardinality(Keys) /\ Cardinality(Keys) \in Nat
      BY <1>1, <1>2, <1>3, <1>4, <1>5, <2>1, EntriesBounded
    <3> QED
      BY <1>1, <1>6, <2>1, <3>1
  <2>2. CASE ~grows
    BY <1>1, <2>2
  <2> QED
    BY <2>1, <2>2
<1>8. /\ Sound(room, m) /\ Stored(room, m) = Stored(buckets, n)
      /\ Cardinality(Used(room, m)) = count /\ count + 1 <= GrowAt(m)
  <2>1. CASE grows
    <3>1. m = 2 * n /\ room = Resize(buckets, 2 * n) /\ count < m
      BY <1>1, <1>2, <1>6, <2>1
    <3> HIDE DEF room, m
    <3>2. /\ Sound(room, m) /\ Stored(room, m) = Stored(buckets, n)
          /\ Cardinality(Used(room, m)) = count
      BY <1>1, <1>3, <1>7, <3>1, ResizeSound
    <3>3. GrowAt(m) = GrowAt(2 * n)
      BY <3>1
    <3>4. GrowAt(m) \in Int
      BY <1>7, LoadFactors
    <3> QED
      BY <1>2, <1>3, <1>4, <3>2, <3>3, <3>4
  <2>2. CASE ~grows
    <3>1. m = n /\ room = buckets
      BY <2>2
    <3> HIDE DEF room, m
    <3> QED
      BY <1>2, <1>3, <1>4, <1>5, <2>2, <3>1
  <2> QED
    BY <2>1, <2>2
<1>9. /\ buckets' = probe.at
      /\ count' = IF probe.old = None THEN count + 1 ELSE count
  BY DEF Set
<1> HIDE DEF n, grows, q, m, room
<1>10. Roomy(room, m)
  BY <1>2, <1>7, <1>8, UsedFinite, LoadFactors
<1>12. /\ Sound(probe.at, m) /\ Sets(room, m, probe.at, k, v)
       /\ probe.old = None => \E e \in 0..m - 1 :
                                 /\ e \notin Used(room, m)
                                 /\ Used(probe.at, m) = Used(room, m) \cup {e}
       /\ probe.old # None => Used(probe.at, m) = Used(room, m)
  BY <1>7, <1>8, <1>10, InsertSets
<1> HIDE DEF probe
<1>13. count' = Cardinality(Used(buckets', m)) /\ count' <= GrowAt(m)
  <2>1. CASE probe.old = None
    <3>1. Cardinality(Used(probe.at, m)) = count + 1
      BY <1>7, <1>8, <1>12, <2>1, UsedFinite, FS_AddElement
    <3> QED
      BY <1>8, <1>9, <2>1, <3>1
  <2>2. CASE probe.old # None
    <3>1. count <= GrowAt(m)
      BY <1>2, <1>7, <1>8, LoadFactors
    <3> QED
      BY <1>8, <1>9, <1>12, <2>2, <3>1
  <2> QED
    BY <2>1, <2>2
<1>14. Fits(buckets', count', m)
  BY <1>9, <1>12, <1>13 DEF Fits
<1>15. Updated(Stored(buckets, n), Stored(buckets', m), k, v)
  <2>1. Stored(room, m) = Stored(buckets, n) /\ buckets' = probe.at
    BY <1>8, <1>9
  <2>2. Sets(room, m, probe.at, k, v)
    BY <1>12
  <2> QED
    BY <2>1, <2>2 DEF Sets
<1> QED
  BY <1>7, <1>14, <1>15 DEF m, n

Removed(before, after, k) ==
    \A x, y : <<x, y>> \in after <=> <<x, y>> \in before /\ x # k

\* hashmap_delete removes its key if it is there, whether the table shrinks or
\* not.
LEMMA DeleteStep ==
    ASSUME NEW p \in 0..Cardinality(Keys), Fits(buckets, count, Length(p)),
           NEW k \in Keys, Delete(k)
    PROVE  \E q \in 0..Cardinality(Keys) :
              /\ Fits(buckets', count', Length(q))
              /\ Removed(Stored(buckets, Length(p)),
                         Stored(buckets', Length(q)), k)
<1> DEFINE n == Length(p)
           place == Probe(buckets, k)
           closed == Close(buckets, place)
<1>1. n \in Nat /\ n > 1 /\ n > 0 /\ p \in Nat
  BY Lengths
<1>2. Size(buckets) = n /\ Roomy(buckets, n) /\ count \in Nat /\ count < n
  BY <1>1, FitsRoom
<1>3. /\ Sound(buckets, n) /\ count = Cardinality(Used(buckets, n))
      /\ count <= GrowAt(n)
  BY DEF Fits
<1>4. GrowAt(n) \in Nat
  BY <1>1, LoadFactors
<1>5. /\ place \in 0..n - 1
      /\ buckets[place].dib # 0 => buckets[place].key = k
      /\ buckets[place].dib = 0 =>
           \A i \in Used(buckets, n) : buckets[i].key # k
  <2> HIDE DEF n
  <2> QED
    BY <1>1, <1>2, <1>3, ProbeFinds
<1>6. IF buckets[place].dib = 0 THEN UNCHANGED <<buckets, count>>
      ELSE /\ count' = count - 1
           /\ \/ buckets' = closed
              \/ /\ n > Cap /\ count' <= ShrinkAt(n)
                 /\ buckets' = Resize(closed, n \div 2)
  BY <1>2 DEF Delete
<1> HIDE DEF place
<1>7. CASE buckets[place].dib = 0
  <2>1. buckets' = buckets /\ count' = count
    BY <1>6, <1>7
  <2>2. Removed(Stored(buckets, n), Stored(buckets, n), k)
    <3> HIDE DEF n
    <3> QED
      BY <1>5, <1>7 DEF Removed, Stored
  <2> QED
    BY <2>1, <2>2
<1>8. CASE buckets[place].dib # 0
  <2>1. place \in Used(buckets, n) /\ buckets[place].key = k
    BY <1>5, <1>8 DEF Used
  <2>2. /\ Sound(closed, n)
        /\ \E e \in Used(buckets, n) :
              Used(closed, n) = Used(buckets, n) \ {e}
        /\ Removed(Stored(buckets, n), Stored(closed, n), k)
    <3> HIDE DEF n, closed
    <3>1. closed = Close(buckets, place)
      BY DEF closed
    <3>2. /\ Sound(closed, n)
          /\ \E e \in Used(buckets, n) :
                Used(closed, n) = Used(buckets, n) \ {e}
          /\ \A x, y : <<x, y>> \in Stored(closed, n) <=>
                       <<x, y>> \in Stored(buckets, n)
                       /\ x # buckets[place].key
      BY <1>1, <1>2, <1>3, <2>1, <3>1, CloseSound
    <3> QED
      BY <2>1, <3>2 DEF Removed
  <2> HIDE DEF closed
  <2>3. Cardinality(Used(closed, n)) = count - 1 /\ count - 1 \in Nat
    <3>1. PICK e \in Used(buckets, n) : Used(closed, n) = Used(buckets, n) \ {e}
      BY <2>2
    <3>2. IsFiniteSet(Used(buckets, n)) /\ Cardinality(Used(closed, n)) \in Nat
      BY <1>1, UsedFinite
    <3>3. Cardinality(Used(buckets, n) \ {e}) = count - 1
      BY <1>3, <3>1, <3>2, FS_RemoveElement
    <3> QED
      BY <3>1, <3>2, <3>3
  <2>4. CASE buckets' = closed /\ count' = count - 1
    <3>1. Fits(buckets', count', n)
      BY <1>2, <1>3, <1>4, <2>2, <2>3, <2>4 DEF Fits
    <3>2. Removed(Stored(buckets, n), Stored(buckets', n), k)
      BY <2>2, <2>4
    <3> QED
      BY <3>1, <3>2
  <2>5. CASE /\ count' = count - 1 /\ n > Cap /\ count' <= ShrinkAt(n)
             /\ buckets' = Resize(closed, n \div 2)
    <3> DEFINE m == Length(p - 1)
    <3>1. p # 0
      BY <1>1, <2>5, Lengths, HashMapAssumption
    <3>2. p - 1 \in Nat /\ (p - 1) + 1 = p /\ p - 1 \in 0..Cardinality(Keys)
      <4>1. Cardinality(Keys) \in Nat
        BY <1>1, <1>3, EntriesBounded
      <4> QED
        BY <1>1, <3>1, <4>1
    <3>3. m \in Nat /\ m > 1 /\ n = 2 * m
      BY <3>2, Lengths
    <3>4. /\ ShrinkAt(n) <= GrowAt(m) /\ ShrinkAt(n) \in Nat
          /\ GrowAt(m) \in Nat /\ GrowAt(m) < m
      <4> HIDE DEF m, n
      <4> QED
        BY <3>3, LoadFactors
    <3> HIDE DEF m, n
    <3>5. n \div 2 = m
      BY <3>3
    <3>6. count' \in Nat /\ count' <= GrowAt(m) /\ count' < m
      BY <2>3, <2>5, <3>3, <3>4
    <3>7. /\ Sound(buckets', m) /\ Stored(buckets', m) = Stored(closed, n)
          /\ Cardinality(Used(buckets', m)) = count'
      <4>1. /\ buckets' = Resize(closed, m)
            /\ Cardinality(Used(closed, n)) = count'
        BY <2>3, <2>5, <3>5
      <4>2. Cardinality(Used(closed, n)) < m
        BY <3>6, <4>1
      <4> QED
        BY <1>1, <2>2, <3>3, <4>1, <4>2, ResizeSound
    <3>8. Fits(buckets', count', m)
      BY <3>6, <3>7 DEF Fits
    <3>9. Removed(Stored(buckets, n), Stored(buckets', m), k)
      BY <2>2, <3>7
    <3> QED
      BY <3>2, <3>8, <3>9 DEF m, n
  <2> QED
    BY <1>6, <1>8, <2>4, <2>5
<1> QED
  BY <1>7, <1>8

-----------------------------------------------------------------------------
(* The theorems *)

\* A new table is empty and sound.
LEMMA InitFits ==
    ASSUME Init
    PROVE  0 \in 0..Cardinality(Keys) /\ Fits(buckets, count, Length(0))
<1>1. Cap \in Nat /\ Cap > 1 /\ Length(0) = Cap
  BY HashMapAssumption, Lengths
<1>2. Sound(New(Cap), Cap) /\ Used(New(Cap), Cap) = {}
  BY <1>1, NewSound
<1>3. Cardinality({}) = 0 /\ GrowAt(Cap) >= 0
  BY <1>1, FS_EmptySet, LoadFactors
<1>4. 0 \in 0..Cardinality(Keys)
  <2>1. Cardinality(Keys) \in Nat
    BY <1>1, <1>2, EntriesBounded
  <2> QED
    BY <2>1
<1> QED
  BY <1>1, <1>2, <1>3, <1>4 DEF Init, Fits

\* The invariant of the table, kept by every call.
LEMMA TableInvHolds == Spec => []TableInv
<1>1. Init => TableInv
  BY InitFits DEF TableInv, Init
<1>2. TableInv /\ [Next]_vars => TableInv'
  <2> SUFFICES ASSUME TableInv, [Next]_vars PROVE TableInv'
    OBVIOUS
  <2>1. PICK p \in 0..Cardinality(Keys) : Fits(buckets, count, Length(p))
    BY DEF TableInv
  <2>2. oom' \in BOOLEAN
    BY DEF TableInv, Next, vars, Set, SetFails, Delete
  <2>3. ASSUME NEW item \in Items, Set(item[1], item[2])
        PROVE  \E q \in 0..Cardinality(Keys) :
                  Fits(buckets', count', Length(q))
    <3>1. item = <<item[1], item[2]>> /\ item[1] \in Keys
      BY HashMapAssumption
    <3> QED
      BY <2>1, <2>3, <3>1, SetStep
  <2>4. ASSUME NEW k \in Keys, Delete(k)
        PROVE  \E q \in 0..Cardinality(Keys) :
                  Fits(buckets', count', Length(q))
    BY <2>1, <2>4, DeleteStep
  <2>5. CASE SetFails \/ UNCHANGED vars
    BY <2>1, <2>2, <2>5 DEF TableInv, SetFails, vars
  <2> QED
    BY <2>2, <2>3, <2>4, <2>5 DEF TableInv, Next
<1> QED
  BY <1>1, <1>2, PTL DEF Spec

\* The table is sound after every call, through growing, shrinking and failing
\* to: every entry of hashmap.c can be reached from its home, there is an empty
\* bucket, and the count is that of the entries.
THEOREM AlwaysTableSound == Spec => []TableSound
<1>1. TableInv => TableSound
  <2> SUFFICES ASSUME NEW p \in 0..Cardinality(Keys),
                      Fits(buckets, count, Length(p)), oom \in BOOLEAN
               PROVE  TableSound
    BY DEF TableInv
  <2> DEFINE n == Length(p)
  <2>1. n \in Nat /\ n > 1 /\ n > 0
    BY Lengths
  <2>2. DOMAIN buckets = 0..n - 1 /\ Size(buckets) = n
    BY <2>1, FitsRoom
  <2>3. /\ Sound(buckets, n) /\ count = Cardinality(Used(buckets, n))
        /\ count <= GrowAt(n)
    BY DEF Fits
  <2>4. Occupied = Used(buckets, n)
    BY <2>2 DEF Occupied, Used
  <2>5. TypeOK
    <3>1. \A i \in Occupied : <<buckets[i].key, buckets[i].val>> \in Items
      BY <2>3, <2>4 DEF Sound, Shaped, Used
    <3>2. \A i \in DOMAIN buckets \ Occupied : buckets[i] = Empty
      BY <2>2, <2>3, <2>4 DEF Sound, Shaped, Used
    <3>3. \E q \in 0..Cardinality(Keys) :
             DOMAIN buckets = 0..Cap * PowerOf2[q] - 1
      BY <2>2 DEF Length
    <3> QED
      BY <2>3, <2>4, <3>1, <3>2, <3>3 DEF TypeOK
  <2>6. RobinHood
    <3> HIDE DEF n
    <3>1. ASSUME NEW i \in Occupied
          PROVE  /\ Slot(buckets, buckets[i].key, buckets[i].dib - 1) = i
                 /\ buckets[i].dib > 1 =>
                      buckets[(i - 1) % Size(buckets)].dib >= buckets[i].dib - 1
      <4>1. i \in 0..n - 1 /\ buckets[i].dib # 0
        BY <2>4, <3>1 DEF Used
      <4>2. At(n, buckets[i].key, buckets[i].dib - 1) = i
        BY <2>3, <4>1 DEF Sound, Placed
      <4>3. (i - 1) % n = Before(n, i)
        BY <2>1, <4>1, RemainderBefore
      <4>4. buckets[i].dib > 1 =>
              buckets[Before(n, i)].dib >= buckets[i].dib - 1
        BY <2>3, <4>1 DEF Sound, Ordered
      <4> QED
        BY <2>1, <2>2, <4>2, <4>3, <4>4, SlotIs
    <3> QED
      BY <3>1, Zenon DEF RobinHood
  <2>7. LoadBounded
    BY <2>2, <2>3 DEF LoadBounded
  <2> QED
    BY <2>5, <2>6, <2>7 DEF TableSound
<1> QED
  BY <1>1, TableInvHolds, PTL

-----------------------------------------------------------------------------
(* What an iteration sees *)

Step(b, s, i) == IF b[i].dib = 0 THEN s ELSE Append(s, b[i])

\* The buckets seen before the cursor has reached i.
Seen(b, n, s, i) ==
    /\ s \in Seq(Bucket)
    /\ \A m \in 1..Len(s) :
          \E z \in Used(b, n) : z < i /\ s[m] = b[z]
    /\ \A z \in Used(b, n) : z < i => \E m \in 1..Len(s) : s[m] = b[z]
    /\ \A m \in 1..Len(s) : \A o \in 1..m - 1 : s[o].key # s[m].key

Iterates(g, n, b) ==
    g = [i \in 0..n |->
            IF i = 0 THEN <<>>
            ELSE IF b[i - 1].dib = 0 THEN g[i - 1]
            ELSE Append(g[i - 1], b[i - 1])]

\* hashmap_iter gives the entries before its cursor, each once.
LEMMA IterationSees ==
    ASSUME NEW n \in Nat, n > 0, NEW b, Sound(b, n), NEW s, s = Iteration(b)
    PROVE  Seen(b, n, s, n)
<1> DEFINE X == Seq(Bucket)
           step == [x \in X \X Nat |->
                       IF x[2] < n THEN Step(b, x[1], x[2]) ELSE x[1]]
           g == CHOOSE f : Iterates(f, n, b)
<1>1. b \in [0..n - 1 -> Bucket]
  BY DEF Sound, Shaped
<1>2. s = g[n]
  <2>1. Size(b) = n
    BY <1>1, SizeIs
  <2> QED
    BY <2>1, Zenon DEF Iteration, Iterates
<1>3. PICK f \in [0..n -> X] : UnfoldsTo(f, <<>>, step, n)
  <2>1. <<>> \in X
    OBVIOUS
  <2>2. ASSUME NEW x \in X \X Nat
        PROVE  (IF x[2] < n THEN Step(b, x[1], x[2]) ELSE x[1]) \in X
    <3>1. x[1] \in X /\ x[2] \in Nat
      OBVIOUS
    <3>2. x[2] < n => b[x[2]] \in Bucket
      <4>1. x[2] < n => x[2] \in 0..n - 1
        BY <3>1
      <4> QED
        BY <1>1, <4>1
    <3>3. x[2] < n => Append(x[1], b[x[2]]) \in X
      BY <3>1, <3>2
    <3> QED
      BY <3>1, <3>3 DEF Step
  <2>3. step \in [X \X Nat -> X]
    BY <2>2
  <2> HIDE DEF X, step
  <2> QED
    BY <2>1, <2>3, FiniteRecursion
<1>4. Iterates(f, n, b)
  <2>1. ASSUME NEW j \in 0..n, j # 0
        PROVE  step[<<f[j - 1], j - 1>>] = Step(b, f[j - 1], j - 1)
    <3>1. j - 1 \in Nat /\ f[j - 1] \in X /\ j - 1 < n
      BY <1>3, <2>1
    <3> HIDE DEF X
    <3>2. <<f[j - 1], j - 1>> \in X \X Nat
      BY <3>1
    <3> QED
      BY <3>1, <3>2
  <2> HIDE DEF step
  <2> QED
    BY <1>3, <2>1 DEF UnfoldsTo, Iterates, Step
<1>5. Iterates(g, n, b)
  BY <1>4, Zenon
<1> HIDE DEF g
<1>6. g[0] = <<>> /\ \A i \in 0..n - 1 : g[i + 1] = Step(b, g[i], i)
  <2>1. 0 \in 0..n
    OBVIOUS
  <2>2. \A i \in 0..n - 1 : i + 1 \in 0..n /\ i + 1 # 0 /\ (i + 1) - 1 = i
    OBVIOUS
  <2> QED
    BY <1>5, <2>1, <2>2 DEF Iterates, Step
<1> DEFINE S == {i \in Nat : i <= n => Seen(b, n, g[i], i)}
<1>7. 0 \in S
  <2>1. \A z \in Used(b, n) : ~(z < 0)
    BY DEF Used
  <2>2. Len(<<>>) = 0 /\ <<>> \in Seq(Bucket) /\ 1..0 = {}
    OBVIOUS
  <2>3. Seen(b, n, <<>>, 0)
    BY <2>1, <2>2 DEF Seen
  <2> QED
    BY <1>6, <2>3
<1>8. ASSUME NEW i \in Nat, i \in S PROVE i + 1 \in S
  <2> SUFFICES ASSUME i + 1 <= n PROVE Seen(b, n, g[i + 1], i + 1)
    OBVIOUS
  <2> DEFINE r == g[i]
             t == g[i + 1]
  <2>1. i \in 0..n - 1 /\ Seen(b, n, r, i) /\ b[i] \in Bucket
    BY <1>1, <1>8
  <2>2. t = Step(b, r, i)
    BY <1>6, <2>1
  <2> HIDE DEF r, t
  <2>3. CASE b[i].dib = 0
    <3>1. t = r
      BY <2>2, <2>3 DEF Step
    <3>2. \A z \in Used(b, n) : z < i + 1 <=> z < i
      <4> SUFFICES ASSUME NEW z \in Used(b, n) PROVE z < i + 1 <=> z < i
        OBVIOUS
      <4>1. z \in 0..n - 1 /\ z # i
        BY <2>3 DEF Used
      <4> QED
        BY <2>1, <4>1
    <3>3. Seen(b, n, r, i + 1)
      BY <2>1, <3>2 DEF Seen
    <3> QED
      BY <3>1, <3>3 DEF t
  <2>4. CASE b[i].dib # 0
    <3>1. /\ i \in Used(b, n) /\ r \in Seq(Bucket) /\ Len(r) \in Nat
          /\ t = Append(r, b[i])
      BY <2>1, <2>2, <2>4 DEF Step, Used, Seen
    <3>2. /\ t \in Seq(Bucket) /\ Len(t) = Len(r) + 1
          /\ t[Len(r) + 1] = b[i]
          /\ \A m \in 1..Len(r) : t[m] = r[m]
      BY <2>1, <3>1
    <3>3. \A z \in Used(b, n) : z < i + 1 <=> z < i \/ z = i
      BY <2>1 DEF Used
    <3>4. \A m \in 1..Len(t) : m # Len(r) + 1 => m \in 1..Len(r)
      <4>1. Len(r) \in Nat /\ Len(t) = Len(r) + 1
        BY <3>1, <3>2
      <4> QED
        BY <4>1
    <3>5. \A m \in 1..Len(t) :
             \E z \in Used(b, n) : z < i + 1 /\ t[m] = b[z]
      <4> SUFFICES ASSUME NEW m \in 1..Len(t)
                   PROVE  \E z \in Used(b, n) : z < i + 1 /\ t[m] = b[z]
        OBVIOUS
      <4>1. CASE m = Len(r) + 1
        BY <3>1, <3>2, <3>3, <4>1
      <4>2. CASE m # Len(r) + 1
        <5>1. m \in 1..Len(r)
          BY <3>4, <4>2
        <5>2. PICK z \in Used(b, n) : z < i /\ r[m] = b[z]
          BY <2>1, <5>1 DEF Seen
        <5> QED
          BY <3>2, <3>3, <5>1, <5>2
      <4> QED
        BY <4>1, <4>2
    <3>6. ASSUME NEW z \in Used(b, n), z < i + 1
          PROVE  \E m \in 1..Len(t) : t[m] = b[z]
      <4>1. CASE z = i
        <5>1. Len(r) + 1 \in 1..Len(t)
          BY <3>1, <3>2
        <5> QED
          BY <3>2, <4>1, <5>1
      <4>2. CASE z # i
        <5>1. PICK m \in 1..Len(r) : r[m] = b[z]
          BY <2>1, <3>3, <3>6, <4>2 DEF Seen
        <5>2. m \in 1..Len(t)
          BY <3>1, <3>2
        <5> QED
          BY <3>2, <5>1, <5>2
      <4> QED
        BY <4>1, <4>2
    <3>7. ASSUME NEW m \in 1..Len(t), NEW o \in 1..m - 1
          PROVE  t[o].key # t[m].key
      <4>1. o \in 1..Len(r)
        BY <3>1, <3>2
      <4>2. CASE m = Len(r) + 1
        <5>1. PICK z \in Used(b, n) : z < i /\ r[o] = b[z]
          BY <2>1, <4>1 DEF Seen
        <5>2. z \in 0..n - 1 /\ b[z].dib # 0 /\ z # i
          BY <2>1, <5>1 DEF Used
        <5>3. b[z].key # b[i].key
          BY <2>1, <2>4, <5>2 DEF Sound, Unique
        <5> QED
          BY <3>2, <4>1, <4>2, <5>1, <5>3
      <4>3. CASE m # Len(r) + 1
        <5>1. m \in 1..Len(r)
          BY <3>4, <4>3
        <5>2. r[o].key # r[m].key
          BY <2>1, <5>1 DEF Seen
        <5> QED
          BY <3>2, <4>1, <5>1, <5>2
      <4> QED
        BY <4>2, <4>3
    <3>8. Seen(b, n, t, i + 1)
      BY <3>2, <3>5, <3>6, <3>7 DEF Seen
    <3> QED
      BY <3>8 DEF t
  <2> QED
    BY <2>3, <2>4
<1>9. n \in S
  <2> HIDE DEF S
  <2> QED
    BY <1>7, <1>8, SetInduction
<1> QED
  BY <1>2, <1>9

\* What is stored is a pair of an id and a connection.
LEMMA PairTypes ==
    ASSUME NEW n \in Nat, NEW b, Sound(b, n), NEW x, NEW y,
           <<x, y>> \in Stored(b, n)
    PROVE  x \in Keys /\ y \in Values /\ y # None
<1>1. PICK i \in 0..n - 1 : b[i].dib # 0 /\ x = b[i].key /\ y = b[i].val
  BY DEF Stored, Used
<1>2. <<x, y>> \in Items
  BY <1>1 DEF Sound, Shaped
<1> QED
  BY <1>2, ItemParts, NoneApart

\* Between any two calls an iteration sees every id that has a connection, once,
\* with the connection a lookup finds.
THEOREM AlwaysIterationComplete == Spec => []IterationComplete
<1>1. TableInv => IterationComplete
  <2> SUFFICES ASSUME NEW p \in 0..Cardinality(Keys),
                      Fits(buckets, count, Length(p))
               PROVE  IterationComplete
    BY DEF TableInv
  <2> DEFINE n == Length(p)
             seen == Iteration(buckets)
  <2>1. n \in Nat /\ n > 1 /\ n > 0
    BY Lengths
  <2>2. Sound(buckets, n) /\ Roomy(buckets, n)
    BY <2>1, FitsRoom DEF Fits
  <2> HIDE DEF n
  <2>3. Seen(buckets, n, seen, n)
    BY <2>1, <2>2, IterationSees
  <2> HIDE DEF seen
  <2>4. seen \in Seq(Bucket) /\ DOMAIN seen = 1..Len(seen)
    BY <2>3 DEF Seen
  <2>5. ASSUME NEW m \in DOMAIN seen
        PROVE  /\ seen[m].key \in Keys
               /\ seen[m].val = Get(buckets, seen[m].key)
               /\ Get(buckets, seen[m].key) # None
    <3>1. PICK z \in Used(buckets, n) : seen[m] = buckets[z]
      BY <2>3, <2>4 DEF Seen
    <3>2. <<seen[m].key, seen[m].val>> \in Stored(buckets, n)
      BY <3>1 DEF Stored
    <3>3. seen[m].key \in Keys /\ seen[m].val # None
      BY <2>1, <2>2, <3>2, PairTypes
    <3>4. Get(buckets, seen[m].key) = seen[m].val
      BY <2>1, <2>2, <3>2, <3>3, GetFinds
    <3> QED
      BY <3>3, <3>4
  <2>6. ASSUME NEW k \in Keys, Get(buckets, k) # None
        PROVE  \E m \in DOMAIN seen : seen[m].key = k
    <3>1. <<k, Get(buckets, k)>> \in Stored(buckets, n)
      BY <2>1, <2>2, <2>6, GetFinds
    <3>2. PICK z \in Used(buckets, n) : buckets[z].key = k
      BY <3>1 DEF Stored
    <3>3. z < n
      BY <2>1 DEF Used
    <3> QED
      BY <2>3, <2>4, <3>2, <3>3 DEF Seen
  <2>7. {seen[m].key : m \in DOMAIN seen} =
        {k \in Keys : Get(buckets, k) # None}
    BY <2>5, <2>6
  <2>8. \A m \in DOMAIN seen : \A o \in 1..m - 1 : seen[o].key # seen[m].key
    BY <2>3, <2>4 DEF Seen
  <2> QED
    BY <2>5, <2>7, <2>8 DEF IterationComplete, seen
<1> QED
  BY <1>1, TableInvHolds, PTL

-----------------------------------------------------------------------------
(* The table is a map *)

\* A lookup finds a connection or none.
LEMMA GetType ==
    ASSUME NEW n \in Nat, n > 0, NEW b, Sound(b, n), Roomy(b, n), NEW k \in Keys
    PROVE  Get(b, k) \in Values \cup {None}
BY GetFinds, PairTypes

\* Two tables, of whatever lengths, that have the same values for a key find the
\* same under it.
LEMMA GetSame ==
    ASSUME NEW n \in Nat, n > 0, NEW b, Sound(b, n), Roomy(b, n),
           NEW m \in Nat, m > 0, NEW c, Sound(c, m), Roomy(c, m),
           NEW k \in Keys,
           \A y : <<k, y>> \in Stored(c, m) <=> <<k, y>> \in Stored(b, n)
    PROVE  Get(c, k) = Get(b, k)
<1>1. /\ \A v : <<k, v>> \in Stored(b, n) => Get(b, k) = v
      /\ (\A v : <<k, v>> \notin Stored(b, n)) => Get(b, k) = None
  BY GetFinds
<1>2. /\ \A v : <<k, v>> \in Stored(c, m) => Get(c, k) = v
      /\ (\A v : <<k, v>> \notin Stored(c, m)) => Get(c, k) = None
  BY GetFinds
<1>3. CASE \E v : <<k, v>> \in Stored(b, n)
  BY <1>1, <1>2, <1>3
<1>4. CASE \A v : <<k, v>> \notin Stored(b, n)
  BY <1>1, <1>2, <1>4
<1> QED
  BY <1>3, <1>4

\* A call after which one key alone has another value is a step of the map.
LEMMA MapBecomes ==
    ASSUME NEW p \in 0..Cardinality(Keys), Fits(buckets, count, Length(p)),
           NEW q \in 0..Cardinality(Keys), Fits(buckets', count', Length(q)),
           NEW k \in Keys, NEW v, oom' = FALSE,
           Get(buckets', k) = v,
           \A j \in Keys \ {k} : \A y :
              <<j, y>> \in Stored(buckets', Length(q)) <=>
              <<j, y>> \in Stored(buckets, Length(p))
    PROVE  Map!Becomes(k, v)
<1> DEFINE n == Length(p)
           m == Length(q)
<1>1. /\ n \in Nat /\ n > 1 /\ n > 0
      /\ m \in Nat /\ m > 1 /\ m > 0
  <2>1. \A r \in Nat : Length(r) \in Nat /\ Length(r) > 1
    BY Lengths
  <2>2. p \in Nat /\ q \in Nat
    OBVIOUS
  <2>3. n \in Nat /\ n > 1 /\ m \in Nat /\ m > 1
    BY <2>1, <2>2
  <2> QED
    BY <2>3
<1>2. /\ Sound(buckets, n) /\ Roomy(buckets, n)
      /\ Sound(buckets', m) /\ Roomy(buckets', m)
  BY <1>1, FitsRoom DEF Fits
<1> HIDE DEF n, m
<1>3. \A j \in Keys \ {k} : Get(buckets', j) = Get(buckets, j)
  BY <1>1, <1>2, GetSame DEF n, m
<1>4. \A j \in Keys : Get(buckets', j) \in Values \cup {None}
  BY <1>1, <1>2, GetType
<1>5. Keys = Map!Keys /\ Values = Map!Values
  BY DEF Keys, Values, Map!Keys, Map!Values
<1> QED
  BY <1>3, <1>4, <1>5 DEF Map!Becomes

\* The hash table implements the map of hashmap.h: a set changes the value of
\* its key, a delete removes it, and neither touches another key, in whatever
\* bucket it lies and whether the table is moved or not.
THEOREM ImplementsMap == Spec => MapSpec
<1> DEFINE value == [k \in Keys |-> Get(buckets, k)]
<1>1. Init => Map!Init
  <2> SUFFICES ASSUME Init PROVE Map!Init
    OBVIOUS
  <2>1. \A k \in Keys : Get(buckets, k) = None
    <3>1. Cap \in Nat /\ Cap > 0 /\ Cap > 1
      BY HashMapAssumption
    <3>2. Sound(buckets, Cap) /\ Stored(buckets, Cap) = {}
      BY <3>1, NewSound DEF Init
    <3>3. Roomy(buckets, Cap)
      BY <3>1, InitFits, FitsRoom, Lengths
    <3> QED
      BY <3>1, <3>2, <3>3, GetFinds
  <2> QED
    BY <2>1 DEF Init, Map!Init, Keys, Map!Keys
<1>2. TableInv /\ [Next]_vars => [Map!Next]_<<value, oom>>
  <2> SUFFICES ASSUME TableInv, [Next]_vars
               PROVE  [Map!Next]_<<value, oom>>
    OBVIOUS
  <2>1. PICK p \in 0..Cardinality(Keys) : Fits(buckets, count, Length(p))
    BY DEF TableInv
  <2>2. ASSUME NEW item \in Items, Set(item[1], item[2])
        PROVE  Map!Becomes(item[1], item[2])
    <3> DEFINE k == item[1]
               v == item[2]
    <3>1. <<k, v>> \in Items /\ k \in Keys
      BY HashMapAssumption
    <3> HIDE DEF k, v
    <3>2. PICK q \in 0..Cardinality(Keys) :
             /\ Fits(buckets', count', Length(q))
             /\ Updated(Stored(buckets, Length(p)),
                        Stored(buckets', Length(q)), k, v)
      BY <2>1, <2>2, <3>1, SetStep DEF k, v
    <3>3. Length(q) \in Nat /\ Length(q) > 1 /\ Length(q) > 0
      BY Lengths
    <3>4. Sound(buckets', Length(q)) /\ Roomy(buckets', Length(q))
      BY <3>2, <3>3, FitsRoom DEF Fits
    <3>5. <<k, v>> \in Stored(buckets', Length(q))
      BY <3>2, Zenon DEF Updated
    <3>6. Get(buckets', k) = v
      BY <3>1, <3>3, <3>4, <3>5, GetFinds
    <3>7. \A j \in Keys \ {k} : \A y :
             <<j, y>> \in Stored(buckets', Length(q)) <=>
             <<j, y>> \in Stored(buckets, Length(p))
      BY <3>2, Zenon DEF Updated
    <3>8. oom' = FALSE
      BY <2>2 DEF Set
    <3>9. Map!Becomes(k, v)
      BY <2>1, <3>1, <3>2, <3>6, <3>7, <3>8, MapBecomes
    <3> QED
      BY <3>9 DEF k, v
  <2>3. ASSUME NEW k \in Keys, Delete(k)
        PROVE  Map!Becomes(k, None)
    <3>1. PICK q \in 0..Cardinality(Keys) :
             /\ Fits(buckets', count', Length(q))
             /\ Removed(Stored(buckets, Length(p)),
                        Stored(buckets', Length(q)), k)
      BY <2>1, <2>3, DeleteStep
    <3>2. Length(q) \in Nat /\ Length(q) > 1 /\ Length(q) > 0
      BY Lengths
    <3>3. Sound(buckets', Length(q)) /\ Roomy(buckets', Length(q))
      BY <3>1, <3>2, FitsRoom DEF Fits
    <3>4. \A y : <<k, y>> \notin Stored(buckets', Length(q))
      BY <3>1, Zenon DEF Removed
    <3>5. Get(buckets', k) = None
      BY <3>2, <3>3, <3>4, GetFinds
    <3>6. \A j \in Keys \ {k} : \A y :
             <<j, y>> \in Stored(buckets', Length(q)) <=>
             <<j, y>> \in Stored(buckets, Length(p))
      BY <3>1, Zenon DEF Removed
    <3>7. oom' = FALSE
      BY <2>3 DEF Delete
    <3> QED
      BY <2>1, <3>1, <3>5, <3>6, <3>7, MapBecomes
  <2>4. CASE \E item \in Items : Set(item[1], item[2])
    BY <2>2, <2>4 DEF Map!Next, Map!Set
  <2>5. CASE SetFails
    BY <2>5 DEF SetFails, Map!Next, Map!SetFails
  <2>6. CASE \E k \in Keys : Delete(k)
    <3>1. Keys = Map!Keys
      BY DEF Keys, Map!Keys
    <3> QED
      BY <2>3, <2>6, <3>1 DEF Map!Next, Map!Delete
  <2>7. CASE UNCHANGED vars
    BY <2>7 DEF vars
  <2> QED
    BY <2>4, <2>5, <2>6, <2>7 DEF Next
<1> QED
  BY <1>1, <1>2, TableInvHolds, PTL DEF Spec, MapSpec, Map!Spec
=============================================================================
