----------------------------- MODULE TlsHandshake -----------------------------
(***************************************************************************)
(* The TLS 1.3 client of the UCI build: tls_connect and the data calls     *)
(* (src/tls13.s) over the record layer (src/tls_record_io.s,               *)
(* src/tls_record.s), with the message gate (src/tls_hs_seq.inc), the      *)
(* hand-over of messages by the deframer (src/tls_deframe.s) and the       *)
(* certificate hook (src/cert_pin.s).                                      *)
(*                                                                         *)
(* Cryptography is symbolic: a transcript hash is the sequence hashed, a   *)
(* traffic key is the connection and epoch it was derived for, a record    *)
(* opens only under the key and sequence number it was sealed with.  The   *)
(* server and the network are the environment: the server holds the keys   *)
(* and follows the protocol or not (Honest), the network may damage,       *)
(* repeat and insert records (Faults).                                     *)
(***************************************************************************)
EXTENDS Integers, Sequences, CertPin

CONSTANTS
    Keys,        \* public keys of leaf certificates
    NoKey,       \* no public key
    OtherCurve,  \* the keys that are not P-256 keys
    Policies,    \* what trust_pre can leave for the hook
    Honest,      \* the server sends the messages of the protocol in order
    Faults,      \* what the network can do: a subset of FaultKinds
    MaxConn, MaxFaults, MaxFlight, MaxCoalesce, MaxSends,
    PollBudget   \* failed polls before a receive gives up: 65536 in the program

FaultKinds == {"damage", "tamper", "replay", "junk", "ccs", "alert", "short", "zeros"}

ASSUME Assumptions ==
    /\ NoKey \notin Keys /\ OtherCurve \subseteq Keys
    /\ Honest \in BOOLEAN /\ Faults \subseteq FaultKinds
    /\ {MaxConn, MaxFaults, MaxFlight, MaxCoalesce, MaxSends} \subseteq Nat
    /\ PollBudget \in Nat \ {0}

VARIABLES
    tls_state, tls_last_state, tls_reached_connected,
    pc,              \* where tls_connect is; "open" once it has returned C=0
    conn,            \* number of this connection: its ephemeral key pair
    shared,          \* the connection the ECDHE secret was agreed for
    transcript,      \* the running hash: the messages folded into it
    tls_transcript,  \* the last hash taken
    keys,            \* connections the handshake and traffic keys belong to
    tls_c_hs_secret, \* <<connection, epoch>> of the secret in that buffer
    tls_read_seq, tls_write_seq,
    ring,            \* what the server and the network sent and was not read
    reader,          \* the record whose header has been read, or NoRecord
    df,              \* the deframer: rest of the record, message in progress
    pubkey,          \* ecdsa_pubkey
    cert_pin_status, policy,
    polls,           \* sh_timeout, enc_timeout
    sent,            \* history: nonces used, <<connection, epoch, sequence>>
    got,             \* history: application records handed to the caller
    srv,             \* the server
    faults           \* faults the network has committed

session == <<tls_state, tls_last_state, tls_reached_connected, pc, conn, policy>>
secrets == <<shared, transcript, tls_transcript, keys, tls_c_hs_secret, pubkey, cert_pin_status>>
reading == <<tls_read_seq, ring, reader, df, polls, got>>
vars == <<session, secrets, reading, tls_write_seq, sent, srv, faults>>

-----------------------------------------------------------------------------
(* States, messages, records *)

IDLE == 0
CLIENT_HELLO == 1
SERVER_HELLO == 2
ENCRYPTED_EXT == 3
CERTIFICATE == 4
CERT_VERIFY == 5
FINISHED == 6
CONNECTED == 7
ERROR == 255
States == (IDLE .. CONNECTED) \cup {ERROR}

Conns == 0 .. MaxConn     \* 0: no connection
Epochs == {"none", "hs", "app"}
HsTypes == {"ch", "sh", "ee", "cert", "cv", "fin", "cfin", "nst"}

\* What a transcript hash depends on, and a message: `over` is the transcript
\* a CertificateVerify signs or a Finished authenticates.
Item == [t : HsTypes, conn : Conns, key : Keys \cup {NoKey}, named : BOOLEAN]
Msg == [t : HsTypes, conn : Conns, key : Keys \cup {NoKey}, named : BOOLEAN, over : Seq(Item)]
ItemOf(m) == [t |-> m.t, conn |-> m.conn, key |-> m.key, named |-> m.named]
Plain(t, c) == [t |-> t, conn |-> c, key |-> NoKey, named |-> FALSE, over |-> <<>>]
NoMsg == Plain("nst", 0)

Frag == [m : Msg, part : {"whole", "first", "last"}]
NoEpoch == <<0, "none">>
Record == [outer : {"none", "hs", "alert", "ccs", "app"}, key : Conns \X Epochs, seq : Nat,
           inner : {"hs", "alert", "app", "short", "zeros"}, frags : Seq(Frag)]
PlainRecord(outer, frags) ==
    [outer |-> outer, key |-> NoEpoch, seq |-> 0, inner |-> "hs", frags |-> frags]
NoRecord == PlainRecord("none", <<>>)
Spoilt(r) == [r EXCEPT !.key = NoEpoch, !.frags = <<>>]

\* The ring holds headers, bodies and stray bytes no header can start with.
Unit == [u : {"head", "body", "junk"}, r : Record]
Units(r) == <<[u |-> "head", r |-> r], [u |-> "body", r |-> r]>>

Places == {"idle", "hello", "server_hello", "keys", "encrypted", "finished",
           "traffic", "open", "failed"}
NoFrags == [frags |-> <<>>, cur |-> NoMsg]
NoServer == [on |-> FALSE, tr |-> <<>>, out |-> <<>>, half |-> NoMsg,
             hsSeq |-> 0, appSeq |-> 0, app |-> <<>>, last |-> NoRecord]

-----------------------------------------------------------------------------
(* Leaving tls_connect, and the record layer's failures *)

\* @error of tls_connect and tls_rec_latch: the first failure is kept.
Fail ==
    /\ tls_last_state' = tls_state
    /\ tls_state' = ERROR
    /\ pc' = IF pc = "open" THEN "open" ELSE "failed"
    /\ UNCHANGED <<tls_reached_connected, conn, policy>>

\* Faulty: the budget is never counted down.
TickUncounted == UNCHANGED <<polls, session>>

\* A receive that got nothing: it is repeated until the budget is spent.
Tick ==
    /\ polls' = polls + 1
    /\ IF polls + 1 = PollBudget THEN Fail ELSE UNCHANGED session

\* tls_rec_frame_fail: before the keys the reader starts again at the next
\* byte; after, the stream cannot be trusted any more.
FrameFail ==
    IF tls_state < ENCRYPTED_EXT THEN Tick ELSE Fail /\ UNCHANGED polls

\* tls_select_keys, for reading and for writing.
Select == IF tls_state >= CONNECTED THEN <<keys.app, "app">> ELSE <<keys.hs, "hs">>

\* Faulty: the counter is advanced by a send that succeeds, and this one failed.
SealUncounted ==
    /\ sent' = Append(sent, <<Select[1], Select[2], tls_write_seq>>)
    /\ UNCHANGED tls_write_seq

\* tls_record_encrypt and the send after it: the number is spent either way.
Seal ==
    /\ sent' = Append(sent, <<Select[1], Select[2], tls_write_seq>>)
    /\ tls_write_seq' = tls_write_seq + 1

-----------------------------------------------------------------------------
(* tls_connect, up to the ServerHello *)

\* Faulty: bytes and a half-read record of the last connection survive.
KeepStream == UNCHANGED <<ring, reader>>

\* The stream part of tls_rx_reset.
DropStream == ring' = <<>> /\ reader' = NoRecord

\* tls_rx_reset, the ephemeral key pair; trust_pre has prepared the policy.
TlsConnect ==
    /\ pc \in {"idle", "failed"}
    /\ conn < MaxConn
    /\ \E p \in Policies : policy' = p
    /\ conn' = conn + 1
    /\ tls_state' = CLIENT_HELLO
    /\ tls_last_state' = IDLE
    /\ tls_reached_connected' = FALSE
    /\ pc' = "hello"
    /\ DropStream
    /\ tls_read_seq' = 0
    /\ tls_write_seq' = 0
    /\ srv' = NoServer
    /\ got' = <<>>
    /\ UNCHANGED <<secrets, df, polls, sent, faults>>

\* tls_send_client_hello; the hello is folded once it has been sent.
SendClientHello ==
    /\ pc = "hello"
    /\ \/ /\ transcript' = <<ItemOf(Plain("ch", conn))>>
          /\ srv' = [NoServer EXCEPT !.on = TRUE, !.tr = transcript']
          /\ tls_state' = SERVER_HELLO
          /\ pc' = "server_hello"
          /\ polls' = 0
          /\ UNCHANGED <<tls_last_state, tls_reached_connected, conn, policy>>
       \/ /\ transcript' = <<>>
          /\ Fail
          /\ UNCHANGED <<srv, polls>>
    /\ UNCHANGED <<shared, tls_transcript, keys, tls_c_hs_secret, pubkey, cert_pin_status,
                   tls_read_seq, ring, reader, df, got, tls_write_seq, sent, faults>>

\* Faulty: the verdict on the last connection's leaf is not cleared.
KeysKeepVerdict ==
    /\ pc = "keys"
    /\ tls_transcript' = transcript
    /\ keys' = [keys EXCEPT !.hs = shared]
    /\ tls_c_hs_secret' = <<shared, "hs">>
    /\ df' = NoFrags
    /\ tls_state' = ENCRYPTED_EXT
    /\ pc' = "encrypted"
    /\ polls' = 0
    /\ UNCHANGED <<tls_last_state, tls_reached_connected, conn, policy, shared, transcript,
                   pubkey, cert_pin_status, tls_read_seq, ring, reader, got, tls_write_seq, sent,
                   srv, faults>>

\* The keys: the hook's verdict is cleared, the deframer emptied.  The derivation
\* has one exit, C=0, so @error of tls_connect is never reached from here.
DeriveHandshakeKeys ==
    /\ pc = "keys"
    /\ tls_transcript' = transcript
    /\ cert_pin_status' = "none"
    /\ keys' = [keys EXCEPT !.hs = shared]
    /\ tls_c_hs_secret' = <<shared, "hs">>
    /\ df' = NoFrags
    /\ tls_state' = ENCRYPTED_EXT
    /\ pc' = "encrypted"
    /\ polls' = 0
    /\ UNCHANGED <<tls_last_state, tls_reached_connected, conn, policy, shared, transcript,
                   pubkey, tls_read_seq, ring, reader, got, tls_write_seq, sent, srv, faults>>

-----------------------------------------------------------------------------
(* Reading records: tls_recv_record, tls_record_recv_and_decrypt *)

\* Faulty: the caller goes on reading after a failure was latched.
ReceivingAfterError ==
    \/ pc = "server_hello"
    \/ pc = "encrypted" /\ df.frags = <<>>
    \/ pc = "open"

\* A caller in a position to read: the connecting loops, and an open connection
\* whose state http_recv_tick has found to be no error.
Receiving ==
    \/ pc = "server_hello"
    \/ pc = "encrypted" /\ df.frags = <<>>
    \/ pc = "open" /\ tls_state = CONNECTED

stream == <<tls_read_seq, ring, reader, df, got>>

\* net_recv_byte has nothing: the bytes have not arrived, or never will.
Incomplete ==
    /\ Receiving /\ pc # "open"
    /\ Tick
    /\ UNCHANGED <<secrets, stream, tls_write_seq, sent, srv, faults>>

ReadHeader ==
    /\ Receiving /\ reader = NoRecord /\ ring # <<>>
    /\ Head(ring).u = "head"
    /\ reader' = Head(ring).r
    /\ ring' = Tail(ring)
    /\ UNCHANGED <<session, secrets, tls_read_seq, df, polls, got, tls_write_seq, sent, srv, faults>>

\* The byte cannot start a record: type, version or length is out of range.
BadHeader ==
    /\ Receiving /\ reader = NoRecord /\ ring # <<>>
    /\ Head(ring).u # "head"
    /\ ring' = Tail(ring)
    /\ FrameFail
    /\ UNCHANGED <<secrets, tls_read_seq, reader, df, got, tls_write_seq, sent, srv, faults>>

\* The record the reader has completed with the bytes at the head of the ring.
Complete == Receiving /\ reader # NoRecord /\ ring # <<>>
Arrived == IF Head(ring) = [u |-> "body", r |-> reader] THEN reader ELSE Spoilt(reader)
Take == reader' = NoRecord /\ ring' = Tail(ring)

SkipCcs ==
    /\ Complete
    /\ Arrived.outer = "ccs" /\ tls_state < CONNECTED
    /\ Take
    /\ UNCHANGED <<session, secrets, tls_read_seq, df, polls, got, tls_write_seq, sent, srv, faults>>

IsFrameError(r) ==
    \/ r.outer = "ccs" /\ tls_state >= CONNECTED
    \/ r.outer # "ccs" /\ tls_state >= ENCRYPTED_EXT /\ (r.outer # "app" \/ r.inner = "short")

\* Faulty: a record opens under its key whatever its number.
OpensAnySeq(r) == r.key = Select /\ r.inner # "zeros"

\* aead_decrypt succeeds and the plaintext has a non-zero byte.
Opens(r) == r.key = Select /\ r.seq = tls_read_seq /\ r.inner # "zeros"

FrameError ==
    /\ Complete
    /\ IsFrameError(Arrived)
    /\ Take
    /\ FrameFail
    /\ UNCHANGED <<secrets, tls_read_seq, df, got, tls_write_seq, sent, srv, faults>>

Protected(r) == tls_state >= ENCRYPTED_EXT /\ r.outer # "ccs" /\ ~IsFrameError(r)

\* tls_rec_auth_fail: the number is not advanced, the connection is over.
AuthError ==
    /\ Complete
    /\ Protected(Arrived) /\ ~Opens(Arrived)
    /\ Take
    /\ Fail
    /\ UNCHANGED <<secrets, tls_read_seq, df, polls, got, tls_write_seq, sent, srv, faults>>

\* tls_recv_server_hello: one plaintext record holding a ServerHello.
IsServerHello(r) ==
    /\ r.outer = "hs" /\ Len(r.frags) = 1
    /\ r.frags[1].part = "whole" /\ r.frags[1].m.t = "sh"

\* A share that was not made for this connection may drive the secret to zero,
\* which tls_ecdh_compute_shared refuses after the hello has been folded.
RecvServerHello ==
    /\ Complete
    /\ pc = "server_hello"
    /\ Arrived.outer # "ccs"
    /\ Take
    /\ IF IsServerHello(Arrived)
         THEN LET m == Arrived.frags[1].m IN
              /\ transcript' = Append(transcript, ItemOf(m))
              /\ shared' = IF m.conn = conn THEN conn ELSE 0
              /\ \/ /\ pc' = "keys"
                    /\ UNCHANGED <<tls_state, tls_last_state, tls_reached_connected, conn, policy>>
                 \/ m.conn # conn /\ Fail
         ELSE Fail /\ UNCHANGED <<transcript, shared>>
    /\ UNCHANGED <<tls_transcript, keys, tls_c_hs_secret, pubkey, cert_pin_status,
                   tls_read_seq, df, polls, got, tls_write_seq, sent, srv, faults>>

\* tls_recv_encrypted gets a record for the deframer.
RecvEncrypted ==
    /\ Complete
    /\ pc = "encrypted"
    /\ Protected(Arrived) /\ Opens(Arrived)
    /\ Take
    /\ tls_read_seq' = tls_read_seq + 1
    /\ IF Arrived.inner = "hs"
         THEN df' = [df EXCEPT !.frags = Arrived.frags] /\ UNCHANGED session
         ELSE Fail /\ UNCHANGED df
    /\ UNCHANGED <<secrets, polls, got, tls_write_seq, sent, srv, faults>>

\* tls_recv: application data goes to the caller, anything else is dropped.
TlsRecv ==
    /\ Complete
    /\ pc = "open"
    /\ Protected(Arrived) /\ Opens(Arrived)
    /\ Take
    /\ tls_read_seq' = tls_read_seq + 1
    /\ got' = IF Arrived.inner = "app" THEN Append(got, tls_read_seq) ELSE got
    /\ UNCHANGED <<session, secrets, df, polls, tls_write_seq, sent, srv, faults>>

-----------------------------------------------------------------------------
(* The server's flight: tls_deframe_pump and the handlers *)

\* tls_hs_allowed: the one message type each state allows.
Allowed(s) ==
    IF s = ENCRYPTED_EXT THEN "ee" ELSE IF s = CERTIFICATE THEN "cert"
    ELSE IF s = CERT_VERIFY THEN "cv" ELSE "fin"

\* Faulty: the message of the next state is accepted too.
GateSkipsOne(t) == tls_state \in ENCRYPTED_EXT .. FINISHED /\ t \in {Allowed(tls_state), Allowed(tls_state + 1)}

\* TLS_HS_SEQ_CHECK.
Gate(t) == tls_state \in ENCRYPTED_EXT .. FINISHED /\ t = Allowed(tls_state)

\* The leaf's key and name, as x509_extract_pubkey finds them, judged by the hook.
CertificateHolds(m) == CertPinCheck(policy, m.key, m.key \notin OtherCurve, m.named)

\* The signature is by the leaf's key and over the hash h.
CertVerifyHolds(m, h) == m.key = pubkey /\ m.over = h

\* The MAC is under this connection's handshake secret and over the hash h.
FinishedHolds(m, h) == m.conn # 0 /\ <<m.conn, "hs">> = tls_c_hs_secret /\ m.over = h

\* Faulty: signature and MAC are checked, but not against this transcript.
HandlerNoTranscript(m, h) ==
    \/ m.t = "ee"
    \/ m.t = "cert" /\ CertificateHolds(m)
    \/ m.t = "cv" /\ CertVerifyHolds(m, m.over)
    \/ m.t = "fin" /\ FinishedHolds(m, m.over)

\* tls_handle_certificate, tls_handle_cert_verify, tls_verify_finished, against
\* the hash h taken when the header of the message was read.
Handler(m, h) ==
    \/ m.t = "ee"
    \/ m.t = "cert" /\ CertificateHolds(m)
    \/ m.t = "cv" /\ CertVerifyHolds(m, h)
    \/ m.t = "fin" /\ FinishedHolds(m, h)

\* df_dispatch, and the move of tls_connect to the next message.
Dispatch(m, h) ==
    /\ IF m.t = "cert"
         THEN /\ pubkey' = m.key
              /\ cert_pin_status' = PinVerdict(policy, m.key, m.key \notin OtherCurve)
         ELSE UNCHANGED <<pubkey, cert_pin_status>>
    /\ IF Handler(m, h)
         THEN /\ IF tls_state = FINISHED
                   THEN pc' = "finished" /\ UNCHANGED <<tls_state, polls>>
                   ELSE tls_state' = tls_state + 1 /\ polls' = 0 /\ UNCHANGED pc
              /\ UNCHANGED <<tls_last_state, tls_reached_connected, conn, policy>>
         ELSE Fail /\ UNCHANGED polls

pumped == <<shared, keys, tls_c_hs_secret, tls_read_seq, ring, reader, got,
            tls_write_seq, sent, srv, faults>>

Pumping == pc = "encrypted" /\ df.frags # <<>>
NextFrag == Head(df.frags)
NewMessage == Pumping /\ df.cur = NoMsg

\* The header is complete and the gate refuses the message.
PumpRefuse ==
    /\ NewMessage
    /\ NextFrag.part = "last" \/ ~Gate(NextFrag.m.t)
    /\ Fail
    /\ UNCHANGED <<transcript, tls_transcript, pubkey, cert_pin_status, df, polls, pumped>>

\* A message that is whole in the record, or that starts in it and goes on in
\* the next one.  The hash is taken before any byte of it is folded.
PumpHeader ==
    /\ NewMessage
    /\ NextFrag.part # "last" /\ Gate(NextFrag.m.t)
    /\ tls_transcript' = transcript
    /\ transcript' = Append(transcript, ItemOf(NextFrag.m))
    /\ IF NextFrag.part = "whole"
         THEN df' = [df EXCEPT !.frags = Tail(@)] /\ Dispatch(NextFrag.m, transcript)
         ELSE /\ df' = [frags |-> Tail(df.frags), cur |-> NextFrag.m]
              /\ UNCHANGED <<session, pubkey, cert_pin_status, polls>>
    /\ UNCHANGED pumped

\* The rest of the message: the hash taken at its header is still the one.
PumpRest ==
    /\ Pumping /\ df.cur # NoMsg
    /\ df' = [frags |-> Tail(df.frags), cur |-> NoMsg]
    /\ Dispatch(df.cur, tls_transcript)
    /\ UNCHANGED <<transcript, tls_transcript, pumped>>

-----------------------------------------------------------------------------
(* The end of tls_connect, and the data calls *)

\* cert_pin_send_finished: nothing is sent without a positive verdict.
SendFinished ==
    /\ pc = "finished"
    /\ tls_transcript' = transcript
    /\ IF CertPinRequire(cert_pin_status)
         THEN /\ transcript' = Append(transcript, ItemOf(Plain("cfin", tls_c_hs_secret[1])))
              /\ Seal
              /\ \/ /\ pc' = "traffic"
                    /\ UNCHANGED <<tls_state, tls_last_state, tls_reached_connected, conn, policy>>
                 \/ Fail
         ELSE Fail /\ UNCHANGED <<transcript, tls_write_seq, sent>>
    /\ UNCHANGED <<shared, keys, tls_c_hs_secret, pubkey, cert_pin_status, reading, srv, faults>>

\* tls_seq_reset.
SeqReset == tls_read_seq' = 0 /\ tls_write_seq' = 0

\* tls_derive_traffic_keys overwrites the handshake secrets in place; its one
\* exit is C=0, too.
DeriveTrafficKeys ==
    /\ pc = "traffic"
    /\ keys' = [keys EXCEPT !.app = shared]
    /\ tls_c_hs_secret' = <<shared, "app">>
    /\ SeqReset
    /\ tls_state' = CONNECTED
    /\ tls_reached_connected' = TRUE
    /\ pc' = "open"
    /\ UNCHANGED <<tls_last_state, conn, policy, shared, transcript, tls_transcript, pubkey,
                   cert_pin_status, ring, reader, df, polls, got, sent, srv, faults>>

\* tls_send, whether or not the stack takes the record.
TlsSend ==
    /\ pc = "open" /\ tls_state = CONNECTED
    /\ tls_write_seq < MaxSends
    /\ Seal
    /\ UNCHANGED <<session, secrets, reading, srv, faults>>

TlsClose ==
    /\ pc = "open"
    /\ tls_state' = IDLE
    /\ pc' = "idle"
    /\ UNCHANGED <<tls_last_state, tls_reached_connected, conn, policy, secrets, reading,
                   tls_write_seq, sent, srv, faults>>

-----------------------------------------------------------------------------
(* The environment: the server, the network *)

client == <<session, secrets, tls_read_seq, reader, df, polls, got, tls_write_seq, sent>>
Serving == srv.on /\ pc \notin {"idle", "failed"}
Room == Len(ring) < MaxFlight

\* The messages a server can send next.  One that follows the protocol sends
\* them in order, each over the transcript so far, and signs with the key of
\* its certificate.
Flight == <<"sh", "ee", "cert", "cv", "fin">>
Message(t, key, named, over) ==
    [t |-> t, conn |-> conn, key |-> key, named |-> named, over |-> over]
Offers ==
    {m \in {Message(t, k, n, o) : t \in {"ee", "cert", "cv", "fin", "nst"},
                                  k \in Keys \cup {NoKey}, n \in BOOLEAN, o \in {srv.tr, <<>>}} :
        /\ m.t \in {"cert", "cv"} <=> m.key # NoKey
        /\ m.named => m.t = "cert"
        /\ m.t \notin {"cv", "fin"} => m.over = <<>>
        /\ Honest => /\ Len(srv.tr) \in 2 .. 5 /\ m.t = Flight[Len(srv.tr)]
                     /\ m.t \in {"cv", "fin"} => m.over = srv.tr
                     /\ m.t = "cv" => m.key = srv.tr[4].key}

ServerHello ==
    /\ Serving /\ Room
    /\ Len(srv.tr) = 1
    /\ \E m \in {Plain("sh", conn)} \cup (IF Honest THEN {} ELSE {Plain("sh", 0), Plain("ee", conn)}) :
        LET r == PlainRecord("hs", <<[m |-> m, part |-> "whole"]>>) IN
        /\ srv' = [srv EXCEPT !.tr = Append(@, ItemOf(m)), !.last = r]
        /\ ring' = ring \o Units(r)
    /\ UNCHANGED <<client, faults>>

\* The messages are packed into records at any boundary.
ServerQueue ==
    /\ Serving /\ Room
    /\ Len(srv.tr) > 1 /\ Len(srv.out) < MaxCoalesce
    /\ IF srv.half = NoMsg
         THEN \E m \in Offers, p \in {"whole", "first"} :
                srv' = [srv EXCEPT !.tr = Append(@, ItemOf(m)), !.half = IF p = "first" THEN m ELSE NoMsg,
                                   !.out = Append(@, [m |-> m, part |-> p])]
         ELSE srv' = [srv EXCEPT !.out = Append(@, [m |-> srv.half, part |-> "last"]), !.half = NoMsg]
    /\ UNCHANGED <<client, ring, faults>>

ServerFlush ==
    /\ Serving /\ Room
    /\ srv.out # <<>>
    /\ LET r == [outer |-> "app", key |-> <<conn, "hs">>, seq |-> srv.hsSeq, inner |-> "hs",
                 frags |-> srv.out] IN
       /\ srv' = [srv EXCEPT !.out = <<>>, !.hsSeq = @ + 1, !.last = r]
       /\ ring' = ring \o Units(r)
    /\ UNCHANGED <<client, faults>>

\* Tickets, alerts and data, as soon as the server's flight has been sent.
ServerData ==
    /\ Serving /\ Room
    /\ srv.out = <<>> /\ srv.half = NoMsg /\ Len(srv.tr) >= 6
    /\ srv.appSeq < MaxSends
    /\ \E i \in {"hs", "app", "alert"} :
        LET r == [outer |-> "app", key |-> <<conn, "app">>, seq |-> srv.appSeq, inner |-> i,
                  frags |-> <<>>] IN
        /\ srv' = [srv EXCEPT !.appSeq = @ + 1, !.last = r,
                              !.app = IF i = "app" THEN Append(@, srv.appSeq) ELSE @]
        /\ ring' = ring \o Units(r)
    /\ UNCHANGED <<client, faults>>

Inserted(k) ==
    IF k = "junk" THEN <<[u |-> "junk", r |-> NoRecord]>>
    ELSE Units(IF k = "replay" THEN srv.last
               ELSE IF k \in {"ccs", "alert"} THEN PlainRecord(k, <<>>)
               ELSE [outer |-> "app", key |-> <<conn, "hs">>, seq |-> srv.hsSeq, inner |-> k,
                     frags |-> <<>>])

\* A ServerHello, which nothing protects yet, with another byte in it: the
\* key share is still the server's.
Altered == PlainRecord("hs", <<[m |-> [Plain("sh", conn) EXCEPT !.named = TRUE], part |-> "whole"]>>)

Network ==
    /\ Serving
    /\ faults < MaxFaults
    /\ \/ Room /\ \E k \in Faults \ {"damage", "tamper"} :
              /\ k = "replay" => srv.last # NoRecord
              /\ ring' = ring \o Inserted(k)
       \/ /\ "damage" \in Faults
          /\ \E i \in 1 .. Len(ring) :
                /\ ring[i].u = "body"
                /\ ring' = [ring EXCEPT ![i].r = Spoilt(@)]
       \/ /\ "tamper" \in Faults
          /\ \E i \in 1 .. Len(ring) - 1 :
                /\ ring[i].u = "head" /\ ring[i].r.outer = "hs"
                /\ ring' = [ring EXCEPT ![i].r = Altered, ![i + 1].r = Altered]
    /\ faults' = faults + 1
    /\ UNCHANGED <<client, srv>>

-----------------------------------------------------------------------------

Init ==
    /\ tls_state = IDLE /\ tls_last_state = IDLE /\ tls_reached_connected = FALSE
    /\ pc = "idle" /\ conn = 0 /\ policy \in Policies
    /\ shared = 0 /\ transcript = <<>> /\ tls_transcript = <<>>
    /\ keys = [hs |-> 0, app |-> 0] /\ tls_c_hs_secret = NoEpoch
    /\ pubkey = NoKey /\ cert_pin_status = "none"
    /\ tls_read_seq = 0 /\ tls_write_seq = 0
    /\ ring = <<>> /\ reader = NoRecord /\ df = NoFrags /\ polls = 0
    /\ sent = <<>> /\ got = <<>> /\ srv = NoServer /\ faults = 0

Receive ==
    \/ Incomplete \/ ReadHeader \/ BadHeader \/ SkipCcs \/ FrameError \/ AuthError
    \/ RecvServerHello \/ RecvEncrypted \/ TlsRecv
Pump == PumpRefuse \/ PumpHeader \/ PumpRest
Call == TlsConnect \/ TlsSend \/ TlsClose
\* What tls_connect does of its own accord, once called.
Proceed == SendClientHello \/ DeriveHandshakeKeys \/ SendFinished \/ DeriveTrafficKeys
Server == ServerHello \/ ServerQueue \/ ServerFlush \/ ServerData

Next == Receive \/ Pump \/ Call \/ Proceed \/ Server \/ Network

Spec == Init /\ [][Next]_vars
\* The processor runs on: a called tls_connect takes its next step, a poll of
\* an empty ring included.
FairSpec == Spec /\ WF_vars(Proceed) /\ WF_vars(Pump) /\ WF_vars(Receive)

-----------------------------------------------------------------------------
(* Properties *)

\* What tls_state is at each point of tls_connect, and after it.
StatesAt(p) ==
    IF p = "idle" THEN {IDLE} ELSE IF p = "hello" THEN {CLIENT_HELLO}
    ELSE IF p \in {"server_hello", "keys"} THEN {SERVER_HELLO}
    ELSE IF p = "encrypted" THEN ENCRYPTED_EXT .. FINISHED
    ELSE IF p \in {"finished", "traffic"} THEN {FINISHED}
    ELSE IF p = "open" THEN {CONNECTED, ERROR} ELSE {ERROR}
SessionType ==
    /\ tls_state \in States /\ tls_last_state \in States /\ tls_reached_connected \in BOOLEAN
    /\ pc \in Places /\ conn \in Conns /\ policy \in Policies
    /\ tls_state \in StatesAt(pc)
SecretType ==
    /\ shared \in Conns /\ transcript \in Seq(Item) /\ tls_transcript \in Seq(Item)
    /\ keys \in [hs : Conns, app : Conns] /\ tls_c_hs_secret \in Conns \X Epochs
    /\ pubkey \in Keys \cup {NoKey} /\ cert_pin_status \in Verdicts
DfType == [frags : Seq(Frag), cur : Msg]
ReadType ==
    /\ tls_read_seq \in Nat /\ ring \in Seq(Unit) /\ reader \in Record
    /\ df \in DfType /\ polls \in Nat /\ got \in Seq(Nat)
WriteType == tls_write_seq \in Nat /\ sent \in Seq(Conns \X Epochs \X Nat)
SrvType == [on : BOOLEAN, tr : Seq(Item), out : Seq(Frag), half : Msg,
            hsSeq : Nat, appSeq : Nat, app : Seq(Nat), last : Record]
TypeOK == SessionType /\ SecretType /\ ReadType /\ WriteType /\ srv \in SrvType /\ faults \in Nat

\* The leaf of this connection is one the hook lets through.
Acceptable(leaf) == CertPinCheck(policy, leaf.key, leaf.key \notin OtherCurve, leaf.named)

\* The transcript s holds the first n messages of a handshake, in order.
Expected(i) == IF i = 1 THEN "ch" ELSE IF i = 2 THEN "sh" ELSE IF i = 7 THEN "cfin" ELSE Allowed(i)
InOrder(s, n) == Len(s) = n /\ \A i \in 1 .. n : s[i].t = Expected(i)

\* The whole flight was seen, in order; the hook passed the leaf, the leaf's
\* key signed the CertificateVerify, and the Finished is of this connection.
Authentic ==
    /\ InOrder(transcript, 7)
    /\ Acceptable(transcript[4]) /\ cert_pin_status \in Positive
    /\ transcript[4].key = pubkey /\ transcript[5].key = pubkey
    /\ transcript[6].conn = conn /\ transcript[7].conn = conn /\ shared = conn
    /\ transcript = Append(tls_transcript, transcript[7])

\* Nothing leaves under the keys of a connection, the client's Finished
\* included, before its whole handshake has been authenticated: whatever
\* order, packing, repetition or damage the messages arrive with.
NothingBeforeAuthentication ==
    sent # <<>> /\ sent[Len(sent)][1] = conn => Authentic

\* Both ends hash the same handshake when the client derives traffic keys.
Agreement ==
    pc = "open" => /\ Len(srv.tr) >= 6
                   /\ SubSeq(transcript, 1, 6) = SubSeq(srv.tr, 1, 6)

\* A nonce is used once: the counters restart only together with new keys,
\* across the epochs of a connection, failed sends and reconnections.
NonceOnce == \A i, j \in 1 .. Len(sent) : i # j => sent[i] # sent[j]

\* What tls_recv hands out is what the server sent, in order, none missing
\* and none twice.
AppDataIntact ==
    /\ Len(got) <= Len(srv.app)
    /\ got = SubSeq(srv.app, 1, Len(got))

\* A server that follows the protocol, however it packs its messages, is
\* turned away only for a leaf the hook refuses, a send the stack refuses or
\* a spent budget: nothing of an earlier connection gets in the way.
HonestServed ==
    Honest /\ faults = 0 =>
        /\ pc = "failed" =>
             \/ polls = PollBudget
             \/ tls_last_state = CLIENT_HELLO
             \/ tls_last_state = CERTIFICATE /\ ~Acceptable(transcript[4])
             \/ tls_last_state = FINISHED /\ Len(transcript) = 7
        /\ pc = "open" => tls_state # ERROR

\* The state a failure hit is kept for the report until the next attempt, and
\* CONNECTED there names a failure in the application data.
ErrorKept ==
    [][/\ tls_state = ERROR /\ conn' = conn =>
            tls_last_state' = tls_last_state /\ tls_state' \in {ERROR, IDLE}
       /\ tls_last_state' = CONNECTED => tls_reached_connected']_vars

\* tls_connect returns: whatever the server does or omits, and wherever it stops.
ConnectReturns == pc = "hello" ~> pc \in {"open", "failed"}

\* The client keeps its promise to the code around it: one verdict for each
\* connection, on its own leaf under its own policy, before it opens, and none
\* left over from the connection before.
Session == INSTANCE TlsSession WITH
    seen <- pubkey,
    phase <- IF pc \in {"idle", "failed"} THEN "closed" ELSE IF pc = "open" THEN "open"
             ELSE IF pc \in {"hello", "server_hello", "keys"} THEN "hello" ELSE "flight"
ImplementsSession == Session!Spec
=============================================================================
