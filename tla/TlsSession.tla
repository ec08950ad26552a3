----------------------------- MODULE TlsSession -----------------------------
(***************************************************************************)
(* What the TLS client promises the code around it, with no messages,      *)
(* records, keys or retries: one call of tls_connect judges one leaf at    *)
(* most, the hook's verdict is about that leaf and the policy of this very *)
(* connection, and only a positive verdict opens it.  TlsHandshake         *)
(* implements this module; TrustPolicy is built on it.                     *)
(***************************************************************************)
EXTENDS CertPin

CONSTANTS Keys, NoKey, OtherCurve, Policies

VARIABLES
    phase,                  \* where the session is
    policy,                 \* what trust_pre left for the hook
    cert_pin_status,        \* the hook's verdict
    seen,                   \* the key of the last leaf: tp_got
    tls_reached_connected

sessionVars == <<phase, policy, cert_pin_status, seen, tls_reached_connected>>

SessionInit ==
    /\ phase = "closed" /\ policy \in Policies
    /\ cert_pin_status = "none" /\ seen = NoKey /\ tls_reached_connected = FALSE

\* tls_connect is called.  The verdict on the last connection is still there.
Begin ==
    /\ phase = "closed"
    /\ phase' = "hello"
    /\ policy' \in Policies
    /\ tls_reached_connected' = FALSE
    /\ UNCHANGED <<cert_pin_status, seen>>

\* cert_pin_hs_keys: nothing of this connection has been judged.
Keyed ==
    /\ phase = "hello"
    /\ phase' = "flight"
    /\ cert_pin_status' = "none"
    /\ UNCHANGED <<policy, seen, tls_reached_connected>>

\* cert_pin_check sees the leaf, the only one.
Judge(k, named) ==
    /\ phase = "flight" /\ cert_pin_status = "none"
    /\ seen' = k
    /\ cert_pin_status' = PinVerdict(policy, k, k \notin OtherCurve)
    /\ phase' = IF CertPinCheck(policy, k, k \notin OtherCurve, named) THEN "flight" ELSE "closed"
    /\ UNCHANGED <<policy, tls_reached_connected>>

\* The Finished messages are exchanged.
Open ==
    /\ phase = "flight" /\ CertPinRequire(cert_pin_status)
    /\ phase' = "open"
    /\ tls_reached_connected' = TRUE
    /\ UNCHANGED <<policy, cert_pin_status, seen>>

\* tls_connect fails, or tls_close is called.
End ==
    /\ phase # "closed"
    /\ phase' = "closed"
    /\ UNCHANGED <<policy, cert_pin_status, seen, tls_reached_connected>>

SessionNext ==
    \/ Begin \/ Keyed \/ Open \/ End
    \/ \E k \in Keys \cup {NoKey}, named \in BOOLEAN : Judge(k, named)

Spec == SessionInit /\ [][SessionNext]_sessionVars
=============================================================================
