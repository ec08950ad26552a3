----------------------------- MODULE TrustPolicy -----------------------------
(***************************************************************************)
(* One fetch after another under the trust policy (trust_policy.s,         *)
(* trust_bundle.s, do_https_get of boot.s): what the operator types at the *)
(* prompt and answers to the questions, what trust_pre prepares for the    *)
(* hook, what trust_post records and arms, the redial.  The TLS client is  *)
(* the session TlsSession promises; the store is one table, loaded and     *)
(* saved as TrustRegister promises.                                        *)
(***************************************************************************)
EXTENDS Integers

CONSTANTS
    Hosts, NoHost, Keys, NoKey,
    OtherCurve,   \* the keys that are not P-256 keys
    BuildHost,    \* HTTPS_HOST of a pinned build, or NoHost
    BuildPin,     \* HTTPS_PIN_SPKI
    PinWarn,      \* HTTPS_PIN_WARN
    Cold,         \* the policy runs from the cold bank, which may refuse
    Stores,       \* tables a medium may hold from earlier sessions
    Bundles,      \* contents TRUST.P may have
    NoBundle,     \* no such file
    MaxFetches

\* A bundle: `format` is right or not, `sig` verifies or not; the body is signed.
Bodies == [pins : [Hosts -> Keys \cup {NoKey}], old : BOOLEAN]
ASSUME Assumptions ==
    /\ NoKey \notin Keys /\ NoHost \notin Hosts /\ OtherCurve \subseteq Keys
    /\ BuildHost \in Hosts \cup {NoHost} /\ BuildPin \in Keys
    /\ PinWarn \in BOOLEAN /\ Cold \in BOOLEAN /\ MaxFetches \in Nat
    /\ Bundles \subseteq [body : Bodies, format : BOOLEAN, sig : BOOLEAN]
    /\ NoBundle \notin Bundles /\ Stores \subseteq [Hosts -> Keys \cup {NoKey}]

VARIABLES
    pc,           \* where do_https_get is
    host,         \* tls_hostname
    tp_mode, tp_bwarn,
    ts_rec,       \* the stored pin trust_store_lookup found
    tp_ovr_armed, tp_override, tp_ovr_key,
    tb_found, tb_spki,
    tb_loaded,    \* what of TRUST.P is in the ring, or NoBundle
    tb_judged,    \* the body tb_digest is of, with tb_verdict
    phase, cert_pin_status, tp_got, tls_reached_connected,  \* the TLS session
    store, file,  \* the medium: the store's table, TRUST.P
    fetch,        \* history: number of this fetch
    answers,      \* history: questions of this fetch answered with yes
    consent       \* history: the last key accepted on retry, for whom and when

session == <<phase, cert_pin_status, tp_got, tls_reached_connected>>
armed == <<tp_ovr_armed, tp_override, tp_ovr_key>>
bundle == <<tb_found, tb_spki, tb_loaded, tb_judged>>
medium == <<store, file>>
history == <<fetch, answers, consent>>
vars == <<pc, host, tp_mode, tp_bwarn, ts_rec, armed, bundle, session, medium, history>>

Policy == [mode |-> tp_mode, stored |-> ts_rec, armed |-> tp_ovr_armed, override |-> tp_override,
           pin |-> BuildPin, warn |-> PinWarn, bundled |-> tb_found, bundle |-> tb_spki]
MaybeKey == Keys \cup {NoKey}
Tls == INSTANCE TlsSession WITH
    seen <- tp_got, policy <- Policy,
    Policies <- [mode : {"none", "store", "first", "unpinned", "pin"}, stored : MaybeKey,
                 armed : BOOLEAN, override : MaybeKey, pin : MaybeKey, warn : BOOLEAN,
                 bundled : BOOLEAN, bundle : MaybeKey]

NotJudged == [body |-> NoBundle, verdict |-> "none"]
NoConsent == [host |-> NoHost, key |-> NoKey, fetch |-> 0]

-----------------------------------------------------------------------------
(* The menu *)

\* https_target_prompt: a refused entry dials nothing and leaves the policy alone.
Prompt ==
    /\ pc = "menu"
    /\ \/ /\ fetch < MaxFetches
          /\ host' \in Hosts
          /\ pc' = "pre"
          /\ fetch' = fetch + 1
          /\ answers' = {}
       \/ UNCHANGED <<host, pc, fetch, answers>>
    /\ tls_reached_connected' = FALSE
    /\ UNCHANGED <<tp_mode, tp_bwarn, ts_rec, armed, bundle, phase, cert_pin_status, tp_got,
                   medium, consent>>

\* 'Q' and RUN, or a reset: trust_state_init.
Boot ==
    /\ pc' = "menu"
    /\ tp_mode' = "none" /\ tp_bwarn' = FALSE /\ tp_got' = NoKey
    /\ tp_ovr_armed' = FALSE /\ tp_override' = NoKey /\ tp_ovr_key' = NoHost
    /\ tb_found' = FALSE /\ tb_spki' = NoKey /\ tb_loaded' = NoBundle
    /\ tb_judged' = [tb_judged EXCEPT !.verdict = "none"]
    /\ phase' = "closed" /\ tls_reached_connected' = FALSE /\ consent' = NoConsent
    /\ UNCHANGED <<host, ts_rec, cert_pin_status, medium, fetch, answers>>

\* The operator puts in another stick, deletes the store or replaces TRUST.P.
ChangeMedium ==
    /\ pc = "menu"
    /\ \/ store' \in Stores /\ UNCHANGED file
       \/ file' \in Bundles \cup {NoBundle} /\ UNCHANGED store
    /\ UNCHANGED <<pc, host, tp_mode, tp_bwarn, ts_rec, armed, bundle, session, history>>

-----------------------------------------------------------------------------
(* trust_pre *)

\* tp_ask_unpinned: Y sets the mode for this one fetch.  mode is tp_mode so far.
AskUnpinned(mode, yes) ==
    /\ tp_mode' = IF yes THEN "unpinned" ELSE mode
    /\ answers' = IF yes THEN answers \cup {"unpinned"} ELSE answers

Cleared == cert_pin_status' = "none" /\ tp_bwarn' = FALSE /\ tb_found' = FALSE

\* The build pin: no store, no bundle, and an armed accept is gone.
PreBuildPin ==
    /\ pc = "pre" /\ host = BuildHost
    /\ Cleared /\ tb_loaded' = NoBundle
    /\ tp_ovr_armed' = FALSE
    /\ tp_mode' = "pin"
    /\ pc' = "bundle"
    /\ UNCHANGED <<host, ts_rec, tp_override, tp_ovr_key, tb_spki, tb_judged, phase, tp_got,
                   tls_reached_connected, medium, history>>

\* The load fails: nothing is dialled unless the operator says so.
PreLoadFails ==
    /\ pc = "pre" /\ host # BuildHost
    /\ Cleared /\ tb_loaded' = NoBundle
    /\ tp_ovr_armed' = FALSE
    /\ \E yes \in BOOLEAN : AskUnpinned("none", yes) /\ pc' = IF yes THEN "bundle" ELSE "menu"
    /\ UNCHANGED <<host, ts_rec, tp_override, tp_ovr_key, tb_spki, tb_judged, phase, tp_got,
                   tls_reached_connected, medium, fetch, consent>>

\* Faulty: an accept armed for one host serves another.
AnyHost == tp_ovr_armed

\* An armed accept belongs to one host.
SameHost == tp_ovr_armed /\ tp_ovr_key = host

\* The store is loaded; TRUST.P is read, if it can be.
PreLoaded ==
    /\ pc = "pre" /\ host # BuildHost
    /\ Cleared
    /\ tp_ovr_armed' = SameHost
    /\ IF store[host] = NoKey THEN tp_mode' = "first" /\ UNCHANGED ts_rec
       ELSE tp_mode' = "store" /\ ts_rec' = store[host]
    /\ tb_loaded' \in {file, NoBundle}
    /\ pc' = "bundle"
    /\ UNCHANGED <<host, tp_override, tp_ovr_key, tb_spki, tb_judged, phase, tp_got,
                   tls_reached_connected, medium, history>>

-----------------------------------------------------------------------------
(* trust_bundle, the dial *)

\* The verdict on the signature is kept for the digest of the body.
Verdict(b) ==
    IF tb_judged.body = b.body /\ tb_judged.verdict # "none" THEN tb_judged.verdict
    ELSE IF b.sig THEN "good" ELSE "bad"

\* trust_bundle: structure, signature, generation, this host's record.
TrustBundle ==
    /\ pc = "bundle"
    /\ pc' = "dial"
    /\ LET b == tb_loaded IN
       IF b = NoBundle \/ (b # NoBundle /\ ~b.format)
         THEN UNCHANGED <<tb_found, tb_spki, tb_judged>>
         ELSE /\ tb_judged' = [body |-> b.body, verdict |-> Verdict(b)]
              /\ IF Verdict(b) = "good" /\ ~b.body.old /\ b.body.pins[host] # NoKey
                   THEN tb_found' = TRUE /\ tb_spki' = b.body.pins[host]
                   ELSE UNCHANGED <<tb_found, tb_spki>>
    /\ tb_loaded' = NoBundle
    /\ UNCHANGED <<host, tp_mode, tp_bwarn, ts_rec, armed, session, medium, history>>

\* The cold bank refuses trust_bundle: there is no bundle for this fetch.
BundleRefused ==
    /\ Cold /\ pc = "bundle"
    /\ pc' = "dial"
    /\ UNCHANGED <<host, tp_mode, tp_bwarn, ts_rec, armed, bundle, session, medium, history>>

fixed == <<host, tp_mode, ts_rec, armed, bundle, medium, history>>

DialFails ==
    /\ pc = "dial"
    /\ pc' = "post"
    /\ UNCHANGED <<fixed, tp_bwarn, session>>

Dial ==
    /\ pc = "dial"
    /\ pc' = "tls"
    /\ UNCHANGED <<fixed, tp_bwarn>>
    /\ Tls!Begin

\* tls_connect, the request and the response, tls_close.
Connection ==
    /\ pc = "tls"
    /\ UNCHANGED fixed
    /\ \/ (Tls!Keyed \/ Tls!Open) /\ UNCHANGED tp_bwarn
       \/ \E k \in Keys, named \in BOOLEAN :
             /\ Tls!Judge(k, named)
             /\ tp_bwarn' = (tp_bwarn \/ Tls!BundleWarns(Policy, k, k \notin OtherCurve))
       \/ Tls!End /\ UNCHANGED tp_bwarn
    /\ pc' = IF phase' = "closed" THEN "post" ELSE "tls"

-----------------------------------------------------------------------------
(* trust_post *)

Reached == pc = "post" /\ tp_mode # "unpinned" /\ tls_reached_connected

\* @done: nothing is sticky.
Done(isArmed) ==
    /\ tp_ovr_armed' = isArmed
    /\ tp_mode' = "none"
    /\ pc' = "menu"

rest == <<host, tp_bwarn, ts_rec, bundle, session, file, fetch>>

\* Faulty: a connection that got past the hook is recorded, completed or not.
RecordsUnfinished == pc = "post" /\ tp_mode # "unpinned" /\ cert_pin_status \in {"accept", "first"}

\* First use, or the accepted key: it is recorded.  A key the bundle disagrees
\* with is recorded only if the operator says so.
Records == Reached /\ cert_pin_status \in {"accept", "first"}

\* tp_record: a save that fails is reported; it may have taken effect or not.
PostRecord ==
    /\ Records
    /\ answers' = IF tp_bwarn /\ cert_pin_status = "first" THEN answers \cup {"record"} ELSE answers
    /\ \/ store' = [store EXCEPT ![host] = tp_got]
       \/ UNCHANGED store
    /\ Done(FALSE)
    /\ UNCHANGED <<rest, tp_override, tp_ovr_key, consent>>

\* Nothing to record: another verdict, no consent, a failure, an unpinned fetch.
PostNothing ==
    /\ pc = "post"
    /\ \/ tp_mode = "unpinned"
       \/ Reached /\ (cert_pin_status = "first" => tp_bwarn) /\ cert_pin_status # "accept"
       \/ ~tls_reached_connected /\ tp_mode # "unpinned" /\ cert_pin_status # "changed"
    /\ Done(FALSE)
    /\ UNCHANGED <<rest, tp_override, tp_ovr_key, answers, consent, store>>

Changed ==
    pc = "post" /\ tp_mode # "unpinned" /\ ~tls_reached_connected /\ cert_pin_status = "changed"

\* tp_changed, A: exactly this key, for exactly this host, on the next attempt.
PostArm ==
    /\ Changed
    /\ tp_override' = tp_got
    /\ tp_ovr_key' = host
    /\ Done(TRUE)
    /\ answers' = answers \cup {"accept"}
    /\ consent' = [host |-> host, key |-> tp_got, fetch |-> fetch]
    /\ UNCHANGED <<rest, store>>

\* Faulty: the redial is made with the mode of the first dial.
RedialAsBefore ==
    /\ Changed
    /\ tp_ovr_armed' = FALSE
    /\ pc' = "dial"
    /\ answers' = answers \cup {"unpinned"}
    /\ UNCHANGED <<rest, tp_mode, tp_override, tp_ovr_key, consent, store>>

\* tp_changed, another key and Y: this fetch is dialled again.
PostRedial ==
    /\ Changed
    /\ tp_ovr_armed' = FALSE
    /\ AskUnpinned(tp_mode, TRUE)
    /\ pc' = "dial"
    /\ UNCHANGED <<rest, tp_override, tp_ovr_key, consent, store>>

PostGiveUp ==
    /\ Changed
    /\ Done(FALSE)
    /\ UNCHANGED <<rest, tp_override, tp_ovr_key, answers, consent, store>>

\* The cold bank refuses trust_pre or trust_post: mode and accept are consumed.
ColdRefused ==
    /\ Cold /\ pc \in {"pre", "post"}
    /\ Done(FALSE)
    /\ UNCHANGED <<rest, tp_override, tp_ovr_key, answers, consent, store>>

-----------------------------------------------------------------------------

Init ==
    /\ pc = "menu" /\ host = NoHost
    /\ tp_mode = "none" /\ tp_bwarn = FALSE /\ ts_rec = NoKey
    /\ tp_ovr_armed = FALSE /\ tp_override = NoKey /\ tp_ovr_key = NoHost
    /\ tb_found = FALSE /\ tb_spki = NoKey /\ tb_loaded = NoBundle /\ tb_judged = NotJudged
    /\ phase = "closed" /\ cert_pin_status = "none" /\ tp_got = NoKey
    /\ tls_reached_connected = FALSE
    /\ store \in Stores /\ file \in Bundles \cup {NoBundle}
    /\ fetch = 0 /\ answers = {} /\ consent = NoConsent

Pre == PreBuildPin \/ PreLoadFails \/ PreLoaded
Post == PostRecord \/ PostNothing \/ PostArm \/ PostRedial \/ PostGiveUp
Fetch == Pre \/ TrustBundle \/ BundleRefused \/ DialFails \/ Dial \/ Connection \/ Post \/ ColdRefused
Next == Fetch \/ Prompt \/ Boot \/ ChangeMedium

Spec == Init /\ [][Next]_vars
\* The program runs on, tls_connect returns, and the operator answers.
FairSpec == Spec /\ WF_vars(Fetch)

-----------------------------------------------------------------------------
(* Properties *)

\* The operator accepted the key of this connection for this host, in the
\* fetch right before this one, and the machine was not restarted since.
Consented == consent = [host |-> host, key |-> tp_got, fetch |-> fetch - 1]

\* No request goes to a server whose key is not the stored one, unless the
\* host is new, or the operator accepted exactly this key for exactly this
\* host one fetch ago, or waived the check in this very fetch; and nothing
\* the operator says reaches a build pin.
NoSilentKey ==
    phase = "open" =>
        /\ tp_got \notin OtherCurve
        /\ IF host = BuildHost THEN tp_got = BuildPin \/ PinWarn
           ELSE store[host] \in {tp_got, NoKey} \/ Consented \/ "unpinned" \in answers

\* A fetch changes the store only by the key its completed handshake showed,
\* for its own host, never after a waiver, never in place of another key
\* without consent, and never against the bundle without a word.
RecordedOnPurpose ==
    [][pc = "post" /\ store' # store =>
        /\ store' = [store EXCEPT ![host] = tp_got] /\ host # BuildHost
        /\ tls_reached_connected /\ tp_got \notin OtherCurve
        /\ "unpinned" \notin answers
        /\ store[host] # NoKey => Consented
        /\ store[host] = NoKey /\ tb_found /\ tb_spki # tp_got => "record" \in answers']_vars

\* Every fetch comes back to the menu, the redial included.
FetchEnds == pc # "menu" ~> pc = "menu"
=============================================================================
