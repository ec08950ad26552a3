------------------------- MODULE TrustPolicyProofs --------------------------
(* Proofs about the trust policy, for any hosts, keys, bundles, build pin and *)
(* number of fetches.                                                         *)
EXTENDS TrustPolicy, TLAPS

MaybeHost == Hosts \cup {NoHost}
Statuses == {"match", "first", "accept", "unpinned", "pinwarn", "none", "changed", "refused"}

\* The types the argument needs: whose key, which host, how many fetches.
TypeInv ==
    /\ pc \in {"menu", "pre", "bundle", "dial", "tls", "post"}
    /\ pc # "menu" => host \in Hosts
    /\ tp_mode \in {"none", "store", "first", "unpinned", "pin"}
    /\ tp_bwarn \in BOOLEAN /\ tb_found \in BOOLEAN
    /\ tp_ovr_armed \in BOOLEAN /\ tls_reached_connected \in BOOLEAN
    /\ phase \in {"closed", "hello", "flight", "open"}
    /\ cert_pin_status \in Statuses
    /\ store \in [Hosts -> MaybeKey]
    /\ fetch \in Nat
    /\ pc = "pre" => answers = {}

\* Between trust_pre and trust_post.
Prepared == pc \in {"bundle", "dial", "tls", "post"}

\* tp_mode is what the medium and the operator say about this fetch's host.
ModeInv ==
    Prepared =>
        /\ tp_mode # "none"
        /\ tp_mode = "pin" <=> host = BuildHost
        /\ tp_mode = "store" => store[host] = ts_rec /\ ts_rec # NoKey
        /\ tp_mode = "first" => store[host] = NoKey
        /\ tp_mode = "unpinned" <=> "unpinned" \in answers

\* An accept that is armed is one the operator gave, to the fetch before this
\* one, and once trust_pre is through, for this fetch's host.
ArmedInv ==
    tp_ovr_armed =>
        /\ consent = [host |-> tp_ovr_key, key |-> tp_override,
                      fetch |-> IF pc = "menu" THEN fetch ELSE fetch - 1]
        /\ Prepared => tp_ovr_key = host

\* The verdict is the hook's, on the leaf of this connection.
Judged ==
    /\ tp_got \in Keys
    /\ cert_pin_status = Tls!PinVerdict(Policy, tp_got, tp_got \notin OtherCurve)
    /\ cert_pin_status \in Tls!Positive /\ tb_found /\ tp_got # tb_spki => tp_bwarn

\* What is known of the session at each point of the fetch.  A redial starts
\* with the verdict of the first dial still in cert_pin_status, so only the
\* key exchange of this very connection makes the verdict this connection's.
SessionInv ==
    /\ phase # "closed" <=> pc = "tls"
    /\ pc = "pre" => ~tls_reached_connected
    /\ pc = "bundle" => ~tls_reached_connected /\ cert_pin_status = "none"
    /\ pc = "dial" => ~tls_reached_connected
    /\ pc = "dial" /\ tp_mode # "unpinned" => cert_pin_status = "none"
    /\ pc \in {"tls", "post"} /\ tp_mode # "unpinned" => cert_pin_status = "none" \/ Judged
    /\ phase \in {"flight", "open"} => cert_pin_status = "none" \/ Judged
    /\ phase \in {"hello", "flight"} => ~tls_reached_connected
    /\ phase = "open" => tls_reached_connected
    /\ pc \in {"tls", "post"} /\ tls_reached_connected =>
           Judged /\ cert_pin_status \in Tls!Positive

PolicyInv == TypeInv /\ ModeInv /\ ArmedInv /\ SessionInv

-----------------------------------------------------------------------------
\* What each verdict of the hook says about the policy and the key.
LEMMA VerdictMeans ==
    ASSUME NEW k, NEW v, tp_mode \in {"none", "store", "first", "unpinned", "pin"},
           v = Tls!PinVerdict(Policy, k, k \notin OtherCurve)
    PROVE  /\ v \in Statuses /\ v # "none"
           /\ v \in Tls!Positive => k \notin OtherCurve /\ tp_mode # "none"
           /\ v = "changed" => tp_mode = "store"
           /\ v = "first" <=> tp_mode = "first" /\ k \notin OtherCurve
           /\ v = "accept" => tp_mode = "store" /\ tp_ovr_armed /\ k = tp_override
           /\ v \in Tls!Positive /\ tp_mode = "store" =>
                  k = ts_rec \/ (tp_ovr_armed /\ k = tp_override)
           /\ v \in Tls!Positive /\ tp_mode = "pin" => k = BuildPin \/ PinWarn
BY DEF Tls!PinVerdict, Tls!Positive, Policy, Statuses

LEMMA PolicyInitial == Init => PolicyInv
<1> SUFFICES ASSUME Init PROVE PolicyInv
    OBVIOUS
<1>1. store \in [Hosts -> MaybeKey]
    BY Assumptions DEF Init, MaybeKey
<1>2. TypeInv
    BY <1>1 DEF Init, TypeInv, Statuses
<1>3. ModeInv /\ ArmedInv /\ SessionInv
    BY DEF Init, ModeInv, ArmedInv, SessionInv, Prepared
<1> QED BY <1>2, <1>3 DEF PolicyInv

\* Between fetches: the prompt, a restart, another medium.
LEMMA MenuKeeps ==
    ASSUME PolicyInv, Prompt \/ Boot \/ ChangeMedium
    PROVE  PolicyInv'
<1> USE DEF PolicyInv
<1>1. CASE Prompt
    <2>0. /\ fetch' \in Nat /\ pc' \in {"menu", "pre"}
          /\ pc' # "menu" => host' \in Hosts /\ answers' = {}
        BY <1>1 DEF Prompt, TypeInv
    <2>1. TypeInv'
        BY <1>1, <2>0 DEF Prompt, TypeInv, medium, bundle, armed
    <2>2. ModeInv' /\ SessionInv'
        BY <1>1 DEF Prompt, ModeInv, SessionInv, Prepared, TypeInv
    <2>3. ArmedInv'
        BY <1>1 DEF Prompt, ArmedInv, Prepared, armed, TypeInv
    <2> QED BY <2>1, <2>2, <2>3
<1>2. CASE Boot
    <2>1. TypeInv'
        BY <1>2 DEF Boot, TypeInv, medium
    <2>2. ModeInv' /\ SessionInv' /\ ArmedInv'
        BY <1>2 DEF Boot, ModeInv, SessionInv, ArmedInv, Prepared
    <2> QED BY <2>1, <2>2
<1>3. CASE ChangeMedium
    <2>1. store' \in [Hosts -> MaybeKey]
        BY <1>3, Assumptions DEF ChangeMedium, TypeInv, MaybeKey
    <2>2. TypeInv'
        BY <1>3, <2>1 DEF ChangeMedium, TypeInv, bundle, session, armed, history
    <2>3. ModeInv' /\ SessionInv' /\ ArmedInv'
        BY <1>3 DEF ChangeMedium, ModeInv, SessionInv, ArmedInv, Prepared, armed, session, history, TypeInv
    <2> QED BY <2>2, <2>3
<1> QED BY <1>1, <1>2, <1>3

\* trust_pre: the mode is chosen, and an accept for another host is dropped.
LEMMA PreKeeps ==
    ASSUME PolicyInv, Pre
    PROVE  PolicyInv'
<1> USE DEF PolicyInv
<1>1. pc = "pre" /\ Cleared /\ (pc' = "bundle" \/ pc' = "menu")
    BY DEF Pre, PreBuildPin, PreLoadFails, PreLoaded
<1>2. store' = store /\ host' = host /\ fetch' = fetch /\ phase' = phase
      /\ tls_reached_connected' = tls_reached_connected /\ consent' = consent
      /\ tp_override' = tp_override /\ tp_ovr_key' = tp_ovr_key
    BY DEF Pre, PreBuildPin, PreLoadFails, PreLoaded, medium, history
<1>3. tp_mode' \in {"none", "store", "first", "unpinned", "pin"}
    BY DEF Pre, PreBuildPin, PreLoadFails, PreLoaded, AskUnpinned
<1>4. tp_ovr_armed' \in BOOLEAN /\ (tp_ovr_armed' => tp_ovr_armed /\ tp_ovr_key = host /\ pc' = "bundle")
    BY DEF Pre, PreBuildPin, PreLoadFails, PreLoaded, SameHost, TypeInv
<1>5. TypeInv'
    BY <1>1, <1>2, <1>3, <1>4 DEF TypeInv, Cleared, Statuses
<1>6. ArmedInv'
    BY <1>1, <1>2, <1>4 DEF ArmedInv
<1>7. SessionInv'
    BY <1>1, <1>2 DEF SessionInv, Cleared
<1>8. ModeInv'
    <2>0. host \in Hosts /\ answers = {}
        BY <1>1 DEF TypeInv
    <2>1. CASE PreBuildPin
        BY <2>0, <2>1 DEF PreBuildPin, ModeInv, Prepared, history
    <2>2. CASE PreLoadFails
        BY <2>0, <2>2 DEF PreLoadFails, ModeInv, Prepared, AskUnpinned
    <2>3. CASE PreLoaded
        BY <2>0, <2>3 DEF PreLoaded, ModeInv, Prepared, history, medium
    <2> QED BY <2>1, <2>2, <2>3 DEF Pre
<1> QED BY <1>5, <1>6, <1>7, <1>8

\* The bundle and the dial: they leave mode, accept and medium alone.
LEMMA DialKeeps ==
    ASSUME PolicyInv, TrustBundle \/ BundleRefused \/ DialFails \/ Dial
    PROVE  PolicyInv'
<1> USE DEF PolicyInv
<1>1. /\ store' = store /\ host' = host /\ fetch' = fetch /\ consent' = consent /\ answers' = answers
      /\ tp_mode' = tp_mode /\ ts_rec' = ts_rec /\ tp_bwarn' = tp_bwarn
      /\ tp_ovr_armed' = tp_ovr_armed /\ tp_override' = tp_override /\ tp_ovr_key' = tp_ovr_key
      /\ cert_pin_status' = cert_pin_status
      /\ Prepared /\ Prepared'
    BY DEF TrustBundle, BundleRefused, DialFails, Dial, Tls!Begin, Prepared, fixed, medium, history,
           armed, session
<1>2. pc \in {"bundle", "dial"} /\ pc' \in {"dial", "tls", "post"}
    BY DEF TrustBundle, BundleRefused, DialFails, Dial
<1>3. /\ tb_found' \in BOOLEAN /\ tls_reached_connected' = FALSE
      /\ phase' \in {"closed", "hello"} /\ (phase' = "hello" <=> pc' = "tls")
    BY <1>2 DEF TrustBundle, BundleRefused, DialFails, Dial, Tls!Begin, fixed, session, TypeInv, SessionInv,
           bundle
<1>4. TypeInv'
    BY <1>1, <1>2, <1>3 DEF TypeInv
<1>5. ModeInv' /\ ArmedInv'
    BY <1>1, <1>2 DEF ModeInv, ArmedInv, Prepared
<1>6. pc = "bundle" => pc' = "dial"
    BY DEF TrustBundle, BundleRefused, DialFails, Dial
<1>7. SessionInv'
    BY <1>1, <1>2, <1>3, <1>6 DEF SessionInv
<1> QED BY <1>4, <1>5, <1>7

\* The TLS session: the verdict becomes this connection's when its keys are
\* derived, and only a positive one opens it.
LEMMA ConnectionKeeps ==
    ASSUME PolicyInv, Connection
    PROVE  PolicyInv'
<1> USE DEF PolicyInv
<1>1. /\ store' = store /\ host' = host /\ fetch' = fetch /\ consent' = consent /\ answers' = answers
      /\ tp_mode' = tp_mode /\ ts_rec' = ts_rec /\ tb_found' = tb_found /\ tb_spki' = tb_spki
      /\ tp_ovr_armed' = tp_ovr_armed /\ tp_override' = tp_override /\ tp_ovr_key' = tp_ovr_key
      /\ pc = "tls" /\ pc' \in {"tls", "post"} /\ (pc' = "tls" <=> phase' # "closed")
    BY DEF Connection, fixed, medium, history, armed, bundle
<1>2. Policy' = Policy
    BY <1>1 DEF Policy
<1>3. ModeInv' /\ ArmedInv'
    BY <1>1 DEF ModeInv, ArmedInv, Prepared
<1>4. CASE Tls!Keyed /\ UNCHANGED tp_bwarn
    <2>1. phase = "hello" /\ phase' = "flight" /\ cert_pin_status' = "none" /\ tp_got' = tp_got
          /\ tls_reached_connected' = tls_reached_connected
        BY <1>4 DEF Tls!Keyed
    <2>2. TypeInv'
        BY <1>1, <1>4, <2>1 DEF TypeInv, Statuses
    <2>3. SessionInv'
        BY <1>1, <2>1 DEF SessionInv
    <2> QED BY <1>3, <2>2, <2>3
<1>5. CASE Tls!Open /\ UNCHANGED tp_bwarn
    <2>1. phase = "flight" /\ phase' = "open" /\ cert_pin_status' = cert_pin_status /\ tp_got' = tp_got
          /\ tls_reached_connected' = TRUE /\ cert_pin_status \in Tls!Positive
        BY <1>5 DEF Tls!Open, Tls!CertPinRequire
    <2>2. TypeInv'
        BY <1>1, <1>5, <2>1 DEF TypeInv
    <2>3. Judged
        BY <2>1 DEF SessionInv, Tls!Positive
    <2>4. Judged'
        BY <1>1, <1>2, <1>5, <2>1, <2>3 DEF Judged, Tls!PinVerdict, Tls!Positive
    <2>5. SessionInv'
        BY <1>1, <2>1, <2>4 DEF SessionInv, Tls!Positive
    <2> QED BY <1>3, <2>2, <2>5
<1>6. ASSUME NEW k \in Keys, NEW named \in BOOLEAN, Tls!Judge(k, named),
             tp_bwarn' = (tp_bwarn \/ Tls!BundleWarns(Policy, k, k \notin OtherCurve))
      PROVE  PolicyInv'
    <2>1. /\ phase = "flight" /\ phase' \in {"flight", "closed"} /\ tp_got' = k
          /\ cert_pin_status' = Tls!PinVerdict(Policy, k, k \notin OtherCurve)
          /\ tls_reached_connected' = tls_reached_connected
        BY <1>6 DEF Tls!Judge
    <2>2. cert_pin_status' \in Statuses
        BY <2>1, VerdictMeans DEF TypeInv
    <2>3. tp_bwarn' \in BOOLEAN
        BY <1>6 DEF TypeInv, Tls!BundleWarns
    <2>4. TypeInv'
        BY <1>1, <2>1, <2>2, <2>3 DEF TypeInv
    <2>5. cert_pin_status' \in Tls!Positive /\ tb_found /\ k # tb_spki => tp_bwarn'
        BY <1>6, <2>1 DEF Tls!BundleWarns, Policy
    <2>6. Judged'
        BY <1>1, <1>2, <2>1, <2>5 DEF Judged, Tls!PinVerdict, Tls!Positive
    <2>7. ~tls_reached_connected
        BY <2>1 DEF SessionInv
    <2>8. SessionInv'
        BY <1>1, <2>1, <2>6, <2>7 DEF SessionInv
    <2> QED BY <1>3, <2>4, <2>8
<1>7. CASE Tls!End /\ UNCHANGED tp_bwarn
    <2>1. phase' = "closed" /\ cert_pin_status' = cert_pin_status /\ tp_got' = tp_got
          /\ tls_reached_connected' = tls_reached_connected
        BY <1>7 DEF Tls!End
    <2>2. TypeInv'
        BY <1>1, <1>7, <2>1 DEF TypeInv
    <2>3. Judged => Judged'
        BY <1>1, <1>2, <1>7, <2>1 DEF Judged, Tls!PinVerdict, Tls!Positive
    <2>4. SessionInv'
        BY <1>1, <2>1, <2>3 DEF SessionInv, Tls!Positive
    <2> QED BY <1>3, <2>2, <2>4
<1> QED BY <1>4, <1>5, <1>6, <1>7 DEF Connection

\* trust_post and the refusals of the cold bank.
LEMMA PostKeeps ==
    ASSUME PolicyInv, Post \/ ColdRefused
    PROVE  PolicyInv'
<1> USE DEF PolicyInv
<1>1. /\ host' = host /\ fetch' = fetch /\ phase' = phase /\ phase = "closed"
      /\ tp_bwarn' = tp_bwarn /\ tb_found' = tb_found /\ ts_rec' = ts_rec
      /\ cert_pin_status' = cert_pin_status /\ tls_reached_connected' = tls_reached_connected
      /\ pc \in {"pre", "post"}
    BY DEF Post, PostRecord, PostNothing, PostArm, PostRedial, PostGiveUp, ColdRefused, rest, session,
           bundle, SessionInv, Records, Reached, Changed
<1>2. store' \in [Hosts -> MaybeKey]
    <2>1. CASE PostRecord
        <3>1. tp_got \in Keys
            BY <1>1, <2>1 DEF PostRecord, Records, Reached, SessionInv, Judged
        <3> QED BY <2>1, <3>1 DEF PostRecord, TypeInv, MaybeKey
    <2>2. CASE ~PostRecord
        BY <2>2 DEF Post, PostNothing, PostArm, PostRedial, PostGiveUp, ColdRefused, TypeInv
    <2> QED BY <2>1, <2>2
<1>3. CASE PostRedial
    <2>1. pc = "post" /\ pc' = "dial" /\ tp_ovr_armed' = FALSE /\ tp_mode' = "unpinned"
          /\ "unpinned" \in answers' /\ store' = store /\ ~tls_reached_connected
          /\ cert_pin_status = "changed" /\ tp_mode # "unpinned"
        BY <1>3 DEF PostRedial, AskUnpinned, Changed
    <2>2. host # BuildHost
        <3>1. Judged
            BY <2>1 DEF SessionInv
        <3>2. tp_mode = "store"
            BY <2>1, <3>1, VerdictMeans DEF Judged, TypeInv
        <3> QED BY <2>1, <3>2 DEF ModeInv, Prepared
    <2>3. TypeInv'
        BY <1>1, <1>2, <2>1 DEF TypeInv
    <2>4. ModeInv' /\ ArmedInv' /\ SessionInv'
        BY <1>1, <2>1, <2>2 DEF ModeInv, ArmedInv, SessionInv, Prepared
    <2> QED BY <2>3, <2>4
<1>4. CASE ~PostRedial
    <2>1. pc' = "menu" /\ tp_mode' = "none" /\ tp_ovr_armed' \in BOOLEAN
        BY <1>4 DEF Post, PostRecord, PostNothing, PostArm, PostGiveUp, ColdRefused, Done
    <2>2. TypeInv'
        BY <1>1, <1>2, <2>1 DEF TypeInv
    <2>3. ModeInv' /\ SessionInv'
        BY <1>1, <2>1 DEF ModeInv, SessionInv, Prepared
    <2>4. ArmedInv'
        BY <1>1, <1>4, <2>1 DEF Post, PostRecord, PostNothing, PostArm, PostGiveUp, ColdRefused, Done,
            ArmedInv, Prepared
    <2> QED BY <2>2, <2>3, <2>4
<1> QED BY <1>3, <1>4

\* The invariant the two results rest on.
LEMMA PolicyInvariant == Spec => []PolicyInv
<1>1. PolicyInv /\ [Next]_vars => PolicyInv'
    <2> SUFFICES ASSUME PolicyInv, [Next]_vars PROVE PolicyInv'
        OBVIOUS
    <2>1. CASE Next
        BY <2>1, MenuKeeps, PreKeeps, DialKeeps, ConnectionKeeps, PostKeeps DEF Next, Fetch
    <2>2. CASE UNCHANGED vars
        BY <2>2 DEF vars, armed, bundle, session, medium, history, PolicyInv, TypeInv, ModeInv, ArmedInv,
            SessionInv, Prepared, Judged, Policy, Tls!PinVerdict, Tls!Positive
    <2> QED BY <2>1, <2>2
<1> QED BY <1>1, PolicyInitial, PTL DEF Spec

-----------------------------------------------------------------------------
\* do_https_get sends no request to a server whose key is neither stored, nor
\* new, nor accepted or waived by the operator, however the fetches before it
\* went.
THEOREM NeverSilent == Spec => []NoSilentKey
<1>1. PolicyInv => NoSilentKey
    <2> SUFFICES ASSUME PolicyInv, phase = "open"
                 PROVE  /\ tp_got \notin OtherCurve
                        /\ IF host = BuildHost THEN tp_got = BuildPin \/ PinWarn
                           ELSE store[host] \in {tp_got, NoKey} \/ Consented \/ "unpinned" \in answers
        BY DEF NoSilentKey
    <2>1. pc = "tls" /\ Judged /\ cert_pin_status \in Tls!Positive
        BY DEF PolicyInv, SessionInv
    <2>2. /\ tp_got \notin OtherCurve /\ tp_mode # "none"
          /\ tp_mode = "store" => tp_got = ts_rec \/ (tp_ovr_armed /\ tp_got = tp_override)
          /\ tp_mode = "pin" => tp_got = BuildPin \/ PinWarn
        BY <2>1, VerdictMeans DEF PolicyInv, TypeInv, Judged
    <2>3. tp_ovr_armed => consent = [host |-> host, key |-> tp_override, fetch |-> fetch - 1]
        BY <2>1 DEF PolicyInv, ArmedInv, Prepared
    <2>4. CASE tp_mode = "store"
        BY <2>1, <2>2, <2>3, <2>4 DEF PolicyInv, ModeInv, Prepared, Consented
    <2>5. CASE tp_mode # "store"
        BY <2>1, <2>2, <2>5 DEF PolicyInv, ModeInv, Prepared, TypeInv
    <2> QED BY <2>4, <2>5
<1> QED BY <1>1, PolicyInvariant, PTL

\* trust_post writes the store on purpose only: the key a completed handshake
\* showed, for the fetch's own host, in place of another only with consent.
THEOREM OnlyOnPurpose == Spec => RecordedOnPurpose
<1>1. PolicyInv /\ [Next]_vars =>
        [pc = "post" /\ store' # store =>
            /\ store' = [store EXCEPT ![host] = tp_got] /\ host # BuildHost
            /\ tls_reached_connected /\ tp_got \notin OtherCurve
            /\ "unpinned" \notin answers
            /\ store[host] # NoKey => Consented
            /\ store[host] = NoKey /\ tb_found /\ tb_spki # tp_got => "record" \in answers']_vars
    <2> SUFFICES ASSUME PolicyInv, Next, pc = "post", store' # store
                 PROVE  /\ store' = [store EXCEPT ![host] = tp_got] /\ host # BuildHost
                        /\ tls_reached_connected /\ tp_got \notin OtherCurve
                        /\ "unpinned" \notin answers
                        /\ store[host] # NoKey => Consented
                        /\ store[host] = NoKey /\ tb_found /\ tb_spki # tp_got => "record" \in answers'
        BY DEF vars, medium
    <2>1. PostRecord /\ store' = [store EXCEPT ![host] = tp_got]
        BY DEF Next, Fetch, Prompt, Boot, ChangeMedium, Pre, PreBuildPin, PreLoadFails, PreLoaded, TrustBundle,
           BundleRefused, DialFails, Dial, Connection, Post, PostRecord, PostNothing, PostArm, PostRedial,
           PostGiveUp, ColdRefused, medium
    <2>2. /\ tls_reached_connected /\ tp_mode # "unpinned" /\ cert_pin_status \in {"accept", "first"}
          /\ tp_bwarn /\ cert_pin_status = "first" => "record" \in answers'
        BY <2>1 DEF PostRecord, Records, Reached
    <2>3. Judged /\ cert_pin_status \in Tls!Positive
        BY <2>2 DEF PolicyInv, SessionInv
    <2>4. /\ tp_got \notin OtherCurve
          /\ cert_pin_status = "first" => tp_mode = "first"
          /\ cert_pin_status = "accept" => tp_mode = "store" /\ tp_ovr_armed /\ tp_got = tp_override
        BY <2>3, VerdictMeans DEF PolicyInv, TypeInv, Judged
    <2>5. tp_ovr_armed => consent = [host |-> host, key |-> tp_override, fetch |-> fetch - 1]
        BY DEF PolicyInv, ArmedInv, Prepared
    <2>6. /\ host # BuildHost /\ "unpinned" \notin answers
          /\ tp_mode = "store" => store[host] # NoKey
          /\ tp_mode = "first" => store[host] = NoKey
        BY <2>2, <2>4 DEF PolicyInv, ModeInv, Prepared
    <2>7. tb_found /\ tb_spki # tp_got => tp_bwarn
        BY <2>3 DEF Judged
    <2> QED BY <2>1, <2>2, <2>4, <2>5, <2>6, <2>7 DEF Consented
<1> QED BY <1>1, PolicyInvariant, PTL DEF Spec, RecordedOnPurpose
=============================================================================
