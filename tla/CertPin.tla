------------------------------- MODULE CertPin -------------------------------
(***************************************************************************)
(* The certificate hook of the trust-store build (src/cert_pin.s): what    *)
(* cert_pin_check decides about the leaf certificate of a handshake, and   *)
(* what cert_pin_require lets through before the client's Finished.        *)
(***************************************************************************)

\* tp_mode: what trust_pre prepared the connection for.
Modes == {"none", "store", "first", "unpinned", "pin"}

\* cert_pin_status.  The first group is positive and lets the Finished go out.
Positive == {"match", "first", "accept", "unpinned", "pinwarn"}
Verdicts == Positive \cup {"none", "changed", "refused"}

(* The verdict on a leaf with public key `got`, under the policy p:        *)
(* p.stored is the pin of ts_rec, p.override the key the user accepted     *)
(* (armed or not), p.pin the build pin, p.warn HTTPS_PIN_WARN.             *)
PinVerdict(p, got, p256) ==
    IF ~p256 THEN "refused"
    ELSE IF p.mode \in {"first", "unpinned"} THEN p.mode
    ELSE IF p.mode = "store" THEN
        IF got = p.stored THEN "match"
        ELSE IF p.armed /\ got = p.override THEN "accept" ELSE "changed"
    ELSE IF p.mode = "pin" THEN
        IF got = p.pin THEN "match" ELSE IF p.warn THEN "pinwarn" ELSE "refused"
    ELSE "refused"

\* A leaf other than the one the signed bundle names is reported, not refused.
BundleWarns(p, got, p256) ==
    PinVerdict(p, got, p256) \in Positive /\ p.bundled /\ got # p.bundle

\* cert_pin_check returns C=0: the verdict stands and the name matches.
CertPinCheck(p, got, p256, named) == PinVerdict(p, got, p256) \in Positive /\ named

CertPinRequire(status) == status \in Positive
=============================================================================
