----------------------------- MODULE BlobStore -----------------------------
(***************************************************************************)
(* What blob storage promises: a load that succeeds returns exactly what   *)
(* the last successful store under that key was given, padded with the     *)
(* zeroes of the caller's buffer, and no call on one key touches another.  *)
(* AiaStorage implements it for the shared secret and the topic root.      *)
(***************************************************************************)
EXTENDS Naturals

CONSTANTS Key, OtherKey, Byte, NUL, Size

VARIABLES
    contents,   \* for each key, how many bytes it holds and which
    reply       \* the last call and its answer

vars == <<contents, reply>>

Bytes(n) == [0 .. n - 1 -> Byte]

\* The bytes of c, padded to n.
Padded(c, n) == [i \in 0 .. n - 1 |-> IF i < c.len THEN c.bytes[i] ELSE NUL]

Init == /\ contents = [k \in Key |-> [len |-> 0, bytes |-> <<>>]]
        /\ reply = [call |-> "none"]

Store(k, n, bytes, ok) ==
    /\ ok => k \in Key
    /\ contents' = IF ok THEN [contents EXCEPT ![k] = [len |-> n, bytes |-> bytes]]
                         ELSE contents
    /\ reply' = [call |-> "store", key |-> k, ok |-> ok, stored |-> IF ok THEN bytes ELSE <<>>]

Load(k, n, ok) ==
    /\ ok => k \in Key /\ contents[k].len <= n
    /\ reply' = [call |-> "load", key |-> k, ok |-> ok,
                 loaded |-> IF ok THEN Padded(contents[k], n) ELSE <<>>]
    /\ UNCHANGED contents

Exists(k) ==
    /\ reply' = [call |-> "exists", key |-> k, ok |-> k \in Key,
                 size |-> IF k \in Key THEN contents[k].len ELSE 0]
    /\ UNCHANGED contents

Lose == Init'

Next ==
    \/ \E k \in Key \cup {OtherKey} :
        \/ \E n \in Size, ok \in BOOLEAN :
            \/ \E bytes \in Bytes(n) : Store(k, n, bytes, ok)
            \/ Load(k, n, ok)
        \/ Exists(k)
    \/ Lose

Spec == Init /\ [][Next]_vars
===========================================================================
