------------------------------ MODULE MCWakeRetry ------------------------------
(***************************************************************************)
(* Small instances of WakeRetry: two listeners of one role, of which one   *)
(* watches a second stream, and messages of one or of both streams.        *)
(***************************************************************************)
EXTENDS WakeRetry, TLC

CONSTANTS l1, l2, k1, k2, m1, m2

Shared == (l1 :> {k1}) @@ (l2 :> {k1, k2})

OneStream == [m \in Msg |-> k1]
TwoStreams == (m1 :> k1) @@ (m2 :> k2)

InOrder == [m \in Msg |-> IF m = m1 THEN 1 ELSE 2]
Alike == [m \in Msg |-> 1]
===============================================================================
