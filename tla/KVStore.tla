------------------------------ MODULE KVStore ------------------------------
(***************************************************************************)
(* What a key-value store promises its clients: a write takes effect once, *)
(* at one moment, and nothing else changes what a key holds.               *)
(***************************************************************************)
CONSTANTS
    Key,
    Write             \* records with at least the fields key and val

VARIABLES
    kv,               \* what each key holds
    done              \* the writes that took effect

Perform(w) ==
    /\ w \notin done
    /\ kv' = [kv EXCEPT ![w.key] = w.val]
    /\ done' = done \cup {w}

Init == done = {} /\ DOMAIN kv = Key

Next == \E w \in Write : Perform(w)

Spec == Init /\ [][Next]_<<kv, done>>
============================================================================
