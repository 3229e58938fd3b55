------------------------------ MODULE KeyedMap ------------------------------
(***************************************************************************)
(* What hashmap.h promises of a map: a value for each key, which only a     *)
(* call for that key changes, and a flag if a call found no memory.        *)
(***************************************************************************)
CONSTANTS
    Items,   \* the pairs of a key and a value that may be stored
    None     \* no value

Keys == {item[1] : item \in Items}
Values == {item[2] : item \in Items}

VARIABLES
    value,   \* the value of each key, or None
    oom      \* the last item was not stored

Init == value = [k \in Keys |-> None] /\ oom = FALSE

\* Only the value of k changes, to v.
Becomes(k, v) ==
    /\ value'[k] = v
    /\ \A j \in Keys \ {k} : value'[j] = value[j]
    /\ value' \in [Keys -> Values \cup {None}]
    /\ oom' = FALSE

Set(k, v) == Becomes(k, v)

Delete(k) == Becomes(k, None)

SetFails == oom' = TRUE /\ UNCHANGED value

Next ==
    \/ \E item \in Items : Set(item[1], item[2])
    \/ SetFails
    \/ \E k \in Keys : Delete(k)

Spec == Init /\ [][Next]_<<value, oom>>

=============================================================================
