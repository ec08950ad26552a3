---------------------------- MODULE MCDeviceRig -----------------------------
(* Two rigs in either order: one of every kind, and phase2, which resets the   *)
(* C64 and loads its own image over whatever the other one left.               *)
EXTENDS DeviceRig

CONSTANTS r1, r2

Pair(k1, k2) == [r \in Rigs |-> IF r = r1 THEN k1 ELSE k2]

Fleet == {Pair(k, "phase2") : k \in Kinds}
\* A rig that fetches more than once in a boot.
Stale == {Pair("m3_demo", "phase2")}
\* A rig whose second build runs TLS on the 6510.
Hasty == {Pair("m3_ab", "phase2")}
Untold == Stale \cup Hasty
=============================================================================
