---------------------------- MODULE MCTrustPolicy ----------------------------
(* The trust policy for TLC: two hosts of the operator's choosing and the   *)
(* build host, three keys, one of another curve, and bundles good and bad.   *)
EXTENDS TrustPolicy

CONSTANTS h1, h2, h3, k1, k2, k3
MCHosts == {h1, h2, h3}
ThreeKeys == {k1, k2, k3}

\* A new medium, and one on which both hosts have been recorded.
TwoStores == {[h \in Hosts |-> NoKey], [h \in Hosts |-> IF h = h3 THEN NoKey ELSE k1]}

Bundle(good) == [body |-> [pins |-> [h \in Hosts |-> IF h = h1 THEN k1 ELSE NoKey], old |-> FALSE],
                 format |-> TRUE, sig |-> good]
Aged == [Bundle(TRUE) EXCEPT !.body.old = TRUE]
Torn == [Bundle(TRUE) EXCEPT !.format = FALSE]
AnyBundle == {Bundle(TRUE), Bundle(FALSE), Aged, Torn}
=============================================================================
