------------------------------ MODULE Metering ------------------------------
(***************************************************************************)
(* What traffic accounting promises about one counter stream, without     *)
(* collectors, cursors or restarts: bytes are carried, and a byte that    *)
(* was carried may later be credited to its user, once.  TrafficLedger    *)
(* with a single collector implements this.                               *)
(***************************************************************************)
EXTENDS Naturals

CONSTANT Streams            \* the counter streams that are metered

VARIABLES carried,          \* bytes the nodes carried, per stream
          credited          \* bytes added to users.upload / users.download

vars == <<carried, credited>>

Init == /\ carried = [k \in Streams |-> 0]
        /\ credited = [k \in Streams |-> 0]

\* A node carries more bytes of stream k.
Carry(k) == /\ carried'[k] \in Nat /\ carried'[k] > carried[k]
            /\ carried' = [carried EXCEPT ![k] = carried'[k]]
            /\ UNCHANGED credited

\* Some of the bytes that were carried and not credited yet are credited.
Credit(k) == /\ credited'[k] \in credited[k] + 1 .. carried[k]
             /\ credited' = [credited EXCEPT ![k] = credited'[k]]
             /\ UNCHANGED carried

Next == \E k \in Streams : Carry(k) \/ Credit(k)

Spec == Init /\ [][Next]_vars
=============================================================================
