---------------------------- MODULE MCRestoreGate ----------------------------
(* An application on two databases and a worker on the first; an old release   *)
(* without the first file, and a new one that added it and edited the third.   *)
(* The restored server may change its address.                                 *)
EXTENDS RestoreGate

CONSTANTS app, worker, governance, identity, old, new, c1, c2, c3, c3x,
          d1, d2, a1, a2, a3

Targets_Of ==
    [p \in {app, worker} |->
       IF p = app THEN <<governance, identity>> ELSE <<governance>>]
Files_Of ==
    [r \in {old, new} |-> IF r = old THEN <<None, c2, c3x>> ELSE <<c1, c2, c3>>]
Declaration_Of == [s \in Side |-> IF s = "source" THEN d1 ELSE d2]
Addresses_Of == [s \in Side |-> IF s = "source" THEN {a1} ELSE {a2, a3}]

=============================================================================
