--------------------------- MODULE MCTlsHandshake ---------------------------
(* The TLS client for TLC.                                                 *)
EXTENDS TlsHandshake

CONSTANTS k1, k2
MCKeys == {k1, k2}

Policy(mode) == [mode |-> mode, stored |-> k1, armed |-> FALSE, override |-> k2, pin |-> k1,
                 warn |-> FALSE, bundled |-> FALSE, bundle |-> k1]
Enforcing == {Policy("store")}
AllPolicies == {Policy(m) : m \in {"store", "first", "none"}}
Curveless == {k2}
AllFaults == FaultKinds
Noise == {"junk", "ccs"}
=============================================================================
