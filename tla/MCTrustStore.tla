---------------------------- MODULE MCTrustStore ----------------------------
(* The trust store for TLC: generations modulo 4, so that they wrap.       *)
EXTENDS TrustMirror, TLC

CONSTANTS h1, h2, p1, p2

MCHosts == {h1, h2}
MCPins == {p1, p2}
MCSymmetry == Permutations(MCHosts) \cup Permutations(MCPins)
NoMedia == {}

\* The user has a second stick, used on its own: one save made on it.
OneSave == {[s \in Slots |-> IF s = 0 THEN Image(1, [NoRecords EXCEPT ![h] = p])
                             ELSE Absent] : h \in MCHosts, p \in MCPins}
\* Sticks another version of the program wrote, or on which the first save tore.
OtherMedia == OneSave \cup
    {[s \in Slots |-> IF s = 0 THEN Unknown ELSE Image(1, NoRecords)],
     [s \in Slots |-> IF s = 0 THEN Partial ELSE Absent]}
=============================================================================
