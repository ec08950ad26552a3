------------------------- MODULE TlsHandshakeProofs -------------------------
(* Proofs about the TLS client: for every number of connections, every set   *)
(* of keys and policies, every packing of the messages into records and      *)
(* every behaviour of the server and the network the model allows.           *)
EXTENDS TlsHandshake, SequenceTheorems, TLAPS

-----------------------------------------------------------------------------
(* Types *)

LEMMA PlainType ==
    ASSUME NEW t \in HsTypes, NEW c \in Conns
    PROVE  Plain(t, c) \in Msg
BY DEF Plain, Msg

LEMMA ItemType ==
    ASSUME NEW m \in Msg
    PROVE  ItemOf(m) \in Item
BY DEF ItemOf, Msg, Item

LEMMA Constants ==
    /\ 0 \in Conns /\ NoMsg \in Msg /\ NoEpoch \in Conns \X Epochs
    /\ NoRecord \in Record /\ NoFrags \in DfType
<1>1. 0 \in Conns
    BY Assumptions DEF Conns
<1>2. NoMsg \in Msg
    BY <1>1, PlainType DEF NoMsg, HsTypes
<1>3. NoEpoch \in Conns \X Epochs
    BY <1>1 DEF NoEpoch, Epochs
<1>4. NoRecord \in Record
    BY <1>3 DEF NoRecord, PlainRecord, Record
<1>5. NoFrags \in DfType
    BY <1>2 DEF NoFrags, DfType
<1> QED BY <1>1, <1>2, <1>3, <1>4, <1>5

LEMMA RecordType ==
    ASSUME NEW o \in {"hs", "alert", "ccs", "app"}, NEW f \in Seq(Frag)
    PROVE  PlainRecord(o, f) \in Record
BY Constants DEF PlainRecord, Record

LEMMA SpoiltType ==
    ASSUME NEW r \in Record
    PROVE  Spoilt(r) \in Record
<1>1. <<>> \in Seq(Frag)
    OBVIOUS
<1> QED BY <1>1, Constants, Zenon DEF Spoilt, Record

LEMMA UnitsType ==
    ASSUME NEW r \in Record
    PROVE  Units(r) \in Seq(Unit)
BY DEF Units, Unit

LEMMA VerdictType ==
    ASSUME NEW p, NEW k, NEW c
    PROVE  PinVerdict(p, k, c) \in Verdicts
BY DEF PinVerdict, Verdicts, Positive

LEMMA StateNumbers ==
    /\ States = (0 .. 7) \cup {255}
    /\ IDLE = 0 /\ CLIENT_HELLO = 1 /\ SERVER_HELLO = 2 /\ ENCRYPTED_EXT = 3
    /\ CERTIFICATE = 4 /\ CERT_VERIFY = 5 /\ FINISHED = 6 /\ CONNECTED = 7 /\ ERROR = 255
BY DEF States, IDLE, CLIENT_HELLO, SERVER_HELLO, ENCRYPTED_EXT, CERTIFICATE, CERT_VERIFY,
   FINISHED, CONNECTED, ERROR

LEMMA NoServerType == NoServer \in SrvType
BY Constants DEF NoServer, SrvType

LEMMA TypeInit == Init => TypeOK
<1> SUFFICES ASSUME Init PROVE TypeOK
    OBVIOUS
<1>1. SessionType
  <2>1. tls_state \in States /\ tls_last_state \in States
    BY StateNumbers DEF Init
  <2>2. pc \in Places /\ conn \in Conns /\ policy \in Policies /\ tls_reached_connected \in BOOLEAN
    BY Constants DEF Init, Places
  <2>3. tls_state \in StatesAt(pc)
    BY DEF Init, StatesAt
  <2> QED BY <2>1, <2>2, <2>3 DEF SessionType
<1>2. SecretType
    BY Constants DEF Init, SecretType, Verdicts
<1>3. ReadType /\ WriteType
    BY Constants DEF Init, ReadType, WriteType
<1>4. srv \in SrvType /\ faults \in Nat
    BY NoServerType DEF Init
<1> QED BY <1>1, <1>2, <1>3, <1>4 DEF TypeOK

(* What the shared parts of the receiving actions keep. *)
LEMMA FailType == SessionType /\ Fail => SessionType'
<1> SUFFICES ASSUME SessionType, Fail PROVE SessionType'
    OBVIOUS
<1>1. pc' \in Places /\ tls_state' = ERROR /\ tls_last_state' = tls_state
    BY DEF Fail, Places
<1>2. tls_state' \in StatesAt(pc')
    BY <1>1 DEF Fail, StatesAt
<1> QED BY <1>1, <1>2, StateNumbers DEF SessionType, Fail

LEMMA TickType == SessionType /\ polls \in Nat /\ Tick => SessionType' /\ polls' \in Nat
<1> SUFFICES ASSUME SessionType, polls \in Nat, Tick PROVE SessionType' /\ polls' \in Nat
    OBVIOUS
<1>1. CASE polls + 1 = PollBudget
    BY <1>1, FailType DEF Tick
<1>2. CASE polls + 1 # PollBudget
    BY <1>2 DEF Tick, session, SessionType
<1> QED BY <1>1, <1>2

LEMMA FrameFailType == SessionType /\ polls \in Nat /\ FrameFail => SessionType' /\ polls' \in Nat
BY TickType, FailType DEF FrameFail

LEMMA RingHead ==
    ASSUME ReadType, ring # <<>>
    PROVE  /\ Head(ring).r \in Record /\ Tail(ring) \in Seq(Unit)
           /\ Arrived \in Record
<1>1. Head(ring) \in Unit /\ Tail(ring) \in Seq(Unit)
    BY HeadTailProperties DEF ReadType
<1>2. Head(ring).r \in Record
    BY <1>1 DEF Unit
<1>3. Arrived \in Record
    BY SpoiltType DEF Arrived, ReadType
<1> QED BY <1>1, <1>2, <1>3

LEMMA TypeReceive == TypeOK /\ Receive => TypeOK'
<1> SUFFICES ASSUME TypeOK, Receive PROVE TypeOK'
    OBVIOUS
<1> USE DEF TypeOK
<1>0. /\ secrets' = secrets => SecretType'
      /\ session' = session => SessionType'
      /\ <<tls_write_seq', sent', srv', faults'>> = <<tls_write_seq, sent, srv, faults>>
            => WriteType' /\ srv' \in SrvType /\ faults' \in Nat
    BY DEF secrets, SecretType, session, SessionType, WriteType
<1>1. CASE Incomplete
  <2>1. SessionType' /\ polls' \in Nat
    BY <1>1, TickType DEF Incomplete, ReadType
  <2>2. ReadType'
    BY <1>1, <2>1 DEF Incomplete, stream, ReadType
  <2> QED BY <1>0, <1>1, <2>1, <2>2 DEF Incomplete
<1>2. CASE ReadHeader
  <2>1. ReadType'
    BY <1>2, RingHead DEF ReadHeader, ReadType
  <2> QED BY <1>0, <1>2, <2>1 DEF ReadHeader
<1>3. CASE BadHeader
  <2>1. SessionType' /\ polls' \in Nat
    BY <1>3, FrameFailType DEF BadHeader, ReadType
  <2>2. ReadType'
    BY <1>3, <2>1, RingHead DEF BadHeader, ReadType
  <2> QED BY <1>0, <1>3, <2>1, <2>2 DEF BadHeader
<1>4. CASE SkipCcs
  <2>1. ReadType'
    BY <1>4, RingHead, Constants DEF SkipCcs, Complete, Take, ReadType
  <2> QED BY <1>0, <1>4, <2>1 DEF SkipCcs
<1>5. CASE FrameError
  <2>1. SessionType' /\ polls' \in Nat
    BY <1>5, FrameFailType DEF FrameError, ReadType
  <2>2. ReadType'
    BY <1>5, <2>1, RingHead, Constants DEF FrameError, Complete, Take, ReadType
  <2> QED BY <1>0, <1>5, <2>1, <2>2 DEF FrameError
<1>6. CASE AuthError
  <2>1. ReadType'
    BY <1>6, RingHead, Constants DEF AuthError, Complete, Take, ReadType
  <2> QED BY <1>0, <1>6, <2>1, FailType DEF AuthError
<1>7. CASE RecvServerHello
  <2>1. ReadType'
    BY <1>7, RingHead, Constants DEF RecvServerHello, Complete, Take, ReadType
  <2>2. Arrived.frags \in Seq(Frag)
    BY <1>7, RingHead DEF RecvServerHello, Complete, Record
  <2>3. CASE IsServerHello(Arrived)
    <3>1. Arrived.frags[1] \in Frag
      BY <2>2, <2>3 DEF IsServerHello
    <3>2. ItemOf(Arrived.frags[1].m) \in Item
      BY <3>1, ItemType DEF Frag
    <3>3. SessionType'
      <4>1. CASE /\ pc' = "keys"
                 /\ UNCHANGED <<tls_state, tls_last_state, tls_reached_connected, conn, policy>>
        <5>1. pc' \in Places
          BY <4>1 DEF Places
        <5>2. tls_state' \in StatesAt(pc')
          BY <1>7, <4>1 DEF RecvServerHello, SessionType, StatesAt
        <5> QED BY <4>1, <5>1, <5>2 DEF SessionType
      <4>2. CASE Fail
        BY <1>7, <4>2, FailType DEF RecvServerHello
      <4> QED BY <1>7, <2>3, <4>1, <4>2 DEF RecvServerHello
    <3>4. transcript' \in Seq(Item) /\ shared' \in Conns
      <4>1. /\ transcript' = Append(transcript, ItemOf(Arrived.frags[1].m))
            /\ shared' \in {conn, 0}
        BY <1>7, <2>3 DEF RecvServerHello
      <4>2. transcript \in Seq(Item) /\ conn \in Conns
        BY DEF SecretType, SessionType
      <4> QED BY <3>2, <4>1, <4>2, Constants
    <3>5. SecretType'
      BY <1>7, <3>4 DEF RecvServerHello, SecretType
    <3> QED BY <1>0, <1>7, <2>1, <3>3, <3>5 DEF RecvServerHello
  <2>4. CASE ~IsServerHello(Arrived)
    <3>1. SessionType'
      BY <1>7, <2>4, FailType DEF RecvServerHello
    <3>2. SecretType'
      BY <1>7, <2>4 DEF RecvServerHello, SecretType
    <3> QED BY <1>0, <1>7, <2>1, <3>1, <3>2 DEF RecvServerHello
  <2> QED BY <2>3, <2>4
<1>8. CASE RecvEncrypted
  <2>2. Arrived.frags \in Seq(Frag)
    BY <1>8, RingHead DEF RecvEncrypted, Complete, Record
  <2>3. SessionType' /\ df' \in DfType
    <3>1. CASE Arrived.inner = "hs"
      BY <1>8, <2>2, <3>1, <1>0 DEF RecvEncrypted, ReadType, DfType
    <3>2. CASE Arrived.inner # "hs"
      BY <1>8, <3>2, FailType DEF RecvEncrypted, ReadType
    <3> QED BY <3>1, <3>2
  <2>4. ReadType'
    BY <1>8, <2>3, RingHead, Constants DEF RecvEncrypted, Complete, Take, ReadType
  <2> QED BY <1>0, <1>8, <2>3, <2>4 DEF RecvEncrypted
<1>9. CASE TlsRecv
  <2>1. got' \in Seq(Nat)
    BY <1>9 DEF TlsRecv, ReadType
  <2>2. ReadType'
    BY <1>9, <2>1, RingHead, Constants DEF TlsRecv, Complete, Take, ReadType
  <2> QED BY <1>0, <1>9, <2>2 DEF TlsRecv
<1> QED BY <1>1, <1>2, <1>3, <1>4, <1>5, <1>6, <1>7, <1>8, <1>9 DEF Receive

LEMMA DispatchType ==
    ASSUME TypeOK, pc = "encrypted", NEW m \in Msg, NEW h, Dispatch(m, h)
    PROVE  /\ SessionType' /\ polls' \in Nat
           /\ pubkey' \in Keys \cup {NoKey} /\ cert_pin_status' \in Verdicts
<1>1. pubkey' \in Keys \cup {NoKey} /\ cert_pin_status' \in Verdicts
    BY VerdictType DEF TypeOK, SecretType, Dispatch, Msg
<1>0. tls_state \in 3 .. 6
    BY StateNumbers DEF TypeOK, SessionType, StatesAt
<1>2. CASE Handler(m, h) /\ tls_state = FINISHED
  <2>1. pc' = "finished" /\ tls_state' = tls_state /\ polls' = polls
    BY <1>2 DEF Dispatch
  <2>2. pc' \in Places /\ tls_state' \in StatesAt(pc')
    BY <1>2, <2>1 DEF Places, StatesAt
  <2> QED BY <1>1, <1>2, <2>1, <2>2 DEF Dispatch, TypeOK, SessionType, ReadType
<1>3. CASE Handler(m, h) /\ tls_state # FINISHED
  <2>1. tls_state' = tls_state + 1 /\ polls' = 0 /\ pc' = pc
    BY <1>3 DEF Dispatch
  <2>2. tls_state' \in States /\ tls_state' \in StatesAt(pc')
    BY <1>0, <1>3, <2>1, StateNumbers DEF StatesAt
  <2> QED BY <1>1, <1>3, <2>1, <2>2 DEF Dispatch, TypeOK, SessionType
<1>4. CASE ~Handler(m, h)
    BY <1>1, <1>4, FailType DEF Dispatch, TypeOK, ReadType
<1> QED BY <1>2, <1>3, <1>4

LEMMA TypePump == TypeOK /\ Pump => TypeOK'
<1> SUFFICES ASSUME TypeOK, Pump PROVE TypeOK'
    OBVIOUS
<1>1. Pumping
    BY DEF Pump, PumpRefuse, PumpHeader, PumpRest, NewMessage
<1>2. Tail(df.frags) \in Seq(Frag) /\ NextFrag \in Frag /\ df.cur \in Msg
  <2>1. df.frags \in Seq(Frag) /\ df.frags # <<>> /\ df.cur \in Msg
    BY <1>1 DEF TypeOK, ReadType, DfType, Pumping
  <2> QED BY <2>1, HeadTailProperties DEF NextFrag
<1>3. NextFrag.m \in Msg
    BY <1>2 DEF Frag
<1>4. UNCHANGED pumped
    BY DEF Pump, PumpRefuse, PumpHeader, PumpRest
<1>5. WriteType' /\ srv' \in SrvType /\ faults' \in Nat
    BY <1>4 DEF TypeOK, WriteType, pumped
<1>6. df' \in DfType
  <2>0. df \in DfType
    BY DEF TypeOK, ReadType
  <2>1. \/ df' = df \/ df' = [frags |-> Tail(df.frags), cur |-> NextFrag.m]
        \/ df' = [df EXCEPT !.frags = Tail(df.frags)] \/ df' = [frags |-> Tail(df.frags), cur |-> NoMsg]
    BY DEF Pump, PumpRefuse, PumpHeader, PumpRest
  <2>2. /\ [frags |-> Tail(df.frags), cur |-> NextFrag.m] \in DfType
        /\ [frags |-> Tail(df.frags), cur |-> NoMsg] \in DfType
    BY <1>2, <1>3, Constants DEF DfType
  <2>3. [df EXCEPT !.frags = Tail(df.frags)] \in DfType
    BY <1>2, <2>0 DEF DfType
  <2> QED BY <2>0, <2>1, <2>2, <2>3
<1>7. transcript' \in Seq(Item) /\ tls_transcript' \in Seq(Item)
  <2>0. transcript \in Seq(Item) /\ tls_transcript \in Seq(Item) /\ ItemOf(NextFrag.m) \in Item
    BY <1>3, ItemType DEF TypeOK, SecretType
  <2>1. /\ transcript' \in {transcript, Append(transcript, ItemOf(NextFrag.m))}
        /\ tls_transcript' \in {tls_transcript, transcript}
    BY DEF Pump, PumpRefuse, PumpHeader, PumpRest
  <2> QED BY <2>0, <2>1, SMTT(30)
<1>8. /\ SessionType' /\ polls' \in Nat
      /\ pubkey' \in Keys \cup {NoKey} /\ cert_pin_status' \in Verdicts
  <2>1. CASE PumpRefuse
    BY <2>1, FailType DEF PumpRefuse, TypeOK, SecretType, ReadType
  <2>2. CASE PumpHeader /\ NextFrag.part = "whole"
    BY <1>1, <1>3, <2>2, DispatchType DEF PumpHeader, Pumping
  <2>3. CASE PumpHeader /\ NextFrag.part # "whole"
    BY <2>3 DEF PumpHeader, TypeOK, SessionType, session, SecretType, ReadType
  <2>4. CASE PumpRest
    BY <1>1, <1>2, <2>4, DispatchType DEF PumpRest, Pumping
  <2> QED BY <2>1, <2>2, <2>3, <2>4 DEF Pump
<1>9. SecretType' /\ ReadType'
    BY <1>4, <1>6, <1>7, <1>8 DEF TypeOK, SecretType, ReadType, pumped
<1> QED BY <1>5, <1>8, <1>9 DEF TypeOK

LEMMA TypeCall == TypeOK /\ (Call \/ Proceed) => TypeOK'
<1> SUFFICES ASSUME TypeOK, Call \/ Proceed PROVE TypeOK'
    OBVIOUS
<1> USE DEF TypeOK
<1>s. Select \in Conns \X Epochs
    BY DEF Select, SecretType, Epochs
<1>w. ASSUME Seal PROVE WriteType'
  <2>1. <<Select[1], Select[2], tls_write_seq>> \in Conns \X Epochs \X Nat
    BY <1>s DEF WriteType
  <2> QED BY <1>w, <2>1 DEF Seal, WriteType
<1>1. CASE TlsConnect
  <2>1. conn + 1 \in Conns
    BY <1>1, Assumptions DEF TlsConnect, SessionType, Conns
  <2>2. tls_state' = CLIENT_HELLO /\ pc' = "hello" /\ tls_last_state' = IDLE /\ conn' = conn + 1
    BY <1>1 DEF TlsConnect
  <2>3. pc' \in Places /\ tls_state' \in StatesAt(pc') /\ tls_state' \in States /\ tls_last_state' \in States
    BY <2>2, StateNumbers DEF Places, StatesAt
  <2>4. SessionType'
    BY <1>1, <2>1, <2>2, <2>3 DEF TlsConnect, SessionType
  <2>5. ReadType' /\ WriteType'
    BY <1>1, Constants DEF TlsConnect, DropStream, ReadType, WriteType
  <2>6. SecretType'
    BY <1>1 DEF TlsConnect, secrets, SecretType
  <2>7. srv' \in SrvType /\ faults' \in Nat
    BY <1>1, NoServerType DEF TlsConnect
  <2> QED BY <2>4, <2>5, <2>6, <2>7
<1>2. CASE TlsSend
  <2>1. WriteType'
    BY <1>2, <1>w DEF TlsSend
  <2> QED BY <1>2, <2>1 DEF TlsSend, session, SessionType, secrets, SecretType, reading, ReadType
<1>3. CASE TlsClose
  <2>1. pc' \in Places /\ tls_state' \in StatesAt(pc') /\ tls_state' \in States
    BY <1>3, StateNumbers DEF TlsClose, Places, StatesAt
  <2>2. SessionType'
    BY <1>3, <2>1 DEF TlsClose, SessionType
  <2> QED BY <1>3, <2>2 DEF TlsClose, WriteType, secrets, SecretType, reading, ReadType
<1>4. CASE SendClientHello
  <2>1. ItemOf(Plain("ch", conn)) \in Item
    BY PlainType, ItemType DEF SessionType, HsTypes
  <2>0. <<ItemOf(Plain("ch", conn))>> \in Seq(Item) /\ <<>> \in Seq(Item)
    BY <2>1
  <2>2. transcript' \in Seq(Item)
    BY <1>4, <2>0 DEF SendClientHello
  <2>3. SecretType'
    BY <1>4, <2>2 DEF SendClientHello, SecretType
  <2>4. SessionType' /\ srv' \in SrvType /\ polls' \in Nat
    <3>1. CASE Fail /\ UNCHANGED <<srv, polls>>
      BY <3>1, FailType DEF ReadType
    <3>2. CASE /\ srv' = [NoServer EXCEPT !.on = TRUE, !.tr = transcript']
               /\ tls_state' = SERVER_HELLO
               /\ pc' = "server_hello"
               /\ polls' = 0
               /\ UNCHANGED <<tls_last_state, tls_reached_connected, conn, policy>>
      <4>1. pc' \in Places /\ tls_state' \in StatesAt(pc') /\ tls_state' \in States
        BY <3>2, StateNumbers DEF Places, StatesAt
      <4>2. srv' \in SrvType
        BY <2>2, <3>2, NoServerType DEF SrvType
      <4> QED BY <3>2, <4>1, <4>2 DEF SessionType
    <3> QED BY <1>4, <3>1, <3>2 DEF SendClientHello
  <2>5. ReadType' /\ WriteType'
    BY <1>4, <2>4 DEF SendClientHello, ReadType, WriteType
  <2> QED BY <1>4, <2>3, <2>4, <2>5 DEF SendClientHello
<1>5. CASE DeriveHandshakeKeys
  <2>1. pc' \in Places /\ tls_state' \in StatesAt(pc') /\ tls_state' \in States
    BY <1>5, StateNumbers DEF DeriveHandshakeKeys, Places, StatesAt
  <2>2. SessionType'
    BY <1>5, <2>1 DEF DeriveHandshakeKeys, SessionType
  <2>3. /\ cert_pin_status' \in Verdicts /\ tls_c_hs_secret' \in Conns \X Epochs
        /\ keys' \in [hs : Conns, app : Conns] /\ tls_transcript' \in Seq(Item)
    BY <1>5 DEF DeriveHandshakeKeys, SecretType, Verdicts, Epochs
  <2>4. SecretType'
    BY <1>5, <2>3 DEF DeriveHandshakeKeys, SecretType
  <2>5. ReadType' /\ WriteType'
    BY <1>5, Constants DEF DeriveHandshakeKeys, ReadType, WriteType
  <2> QED BY <1>5, <2>2, <2>4, <2>5 DEF DeriveHandshakeKeys
<1>6. CASE SendFinished
  <2>0. transcript \in Seq(Item) /\ ItemOf(Plain("cfin", tls_c_hs_secret[1])) \in Item
    BY PlainType, ItemType DEF SecretType, HsTypes
  <2>1. /\ transcript' \in {transcript, Append(transcript, ItemOf(Plain("cfin", tls_c_hs_secret[1])))}
        /\ tls_transcript' = transcript
    BY <1>6 DEF SendFinished
  <2>2. transcript' \in Seq(Item) /\ tls_transcript' \in Seq(Item)
    BY <2>0, <2>1
  <2>3. SecretType'
    BY <1>6, <2>2 DEF SendFinished, SecretType
  <2>4. WriteType'
    BY <1>6, <1>w DEF SendFinished, WriteType
  <2>5. SessionType'
    <3>1. CASE Fail
      BY <3>1, FailType
    <3>2. CASE /\ pc' = "traffic"
               /\ UNCHANGED <<tls_state, tls_last_state, tls_reached_connected, conn, policy>>
      <4>1. pc' \in Places /\ tls_state' \in StatesAt(pc')
        BY <1>6, <3>2 DEF SendFinished, Places, StatesAt, SessionType
      <4> QED BY <3>2, <4>1 DEF SessionType
    <3> QED BY <1>6, <3>1, <3>2 DEF SendFinished
  <2>6. ReadType'
    BY <1>6 DEF SendFinished, ReadType, reading
  <2> QED BY <1>6, <2>3, <2>4, <2>5, <2>6 DEF SendFinished
<1>7. CASE DeriveTrafficKeys
  <2>1. pc' \in Places /\ tls_state' \in StatesAt(pc') /\ tls_state' \in States
    BY <1>7, StateNumbers DEF DeriveTrafficKeys, Places, StatesAt
  <2>2. SessionType'
    BY <1>7, <2>1 DEF DeriveTrafficKeys, SessionType
  <2>3. tls_c_hs_secret' \in Conns \X Epochs /\ keys' \in [hs : Conns, app : Conns]
    BY <1>7 DEF DeriveTrafficKeys, SecretType, Epochs
  <2>4. SecretType'
    BY <1>7, <2>3 DEF DeriveTrafficKeys, SecretType
  <2>5. ReadType' /\ WriteType'
    BY <1>7 DEF DeriveTrafficKeys, SeqReset, ReadType, WriteType
  <2> QED BY <1>7, <2>2, <2>4, <2>5 DEF DeriveTrafficKeys
<1> QED BY <1>1, <1>2, <1>3, <1>4, <1>5, <1>6, <1>7 DEF Call, Proceed

LEMMA TypeEnvironment == TypeOK /\ (Server \/ Network) => TypeOK'
<1> SUFFICES ASSUME TypeOK, Server \/ Network PROVE TypeOK'
    OBVIOUS
<1>0. conn \in Conns /\ ring \in Seq(Unit) /\ srv \in SrvType /\ faults \in Nat
    BY SMTT(30) DEF TypeOK, SessionType, ReadType
<1>1. UNCHANGED client
    BY DEF Server, ServerHello, ServerQueue, ServerFlush, ServerData, Network
<1>2. SUFFICES ring' \in Seq(Unit) /\ srv' \in SrvType /\ faults' \in Nat
  <2>1. SessionType' /\ SecretType' /\ WriteType'
    BY <1>1 DEF TypeOK, client, session, secrets, SessionType, SecretType, WriteType
  <2>2. ring' \in Seq(Unit) => ReadType'
    BY <1>1 DEF TypeOK, client, ReadType
  <2> QED BY <2>1, <2>2 DEF TypeOK
<1>u. ASSUME NEW r \in Record PROVE ring \o Units(r) \in Seq(Unit)
    BY <1>0, UnitsType
<1>f. /\ srv.tr \in Seq(Item) /\ srv.out \in Seq(Frag) /\ srv.half \in Msg /\ srv.hsSeq \in Nat
      /\ srv.appSeq \in Nat /\ srv.app \in Seq(Nat) /\ srv.last \in Record
    BY <1>0 DEF SrvType
<1>3. CASE ServerHello
  <2>1. PICK m \in {Plain("sh", conn)} \cup (IF Honest THEN {} ELSE {Plain("sh", 0), Plain("ee", conn)}) :
        LET r == PlainRecord("hs", <<[m |-> m, part |-> "whole"]>>) IN
        /\ srv' = [srv EXCEPT !.tr = Append(@, ItemOf(m)), !.last = r]
        /\ ring' = ring \o Units(r)
    BY <1>3 DEF ServerHello
  <2>2. m \in Msg
    BY <1>0, <2>1, Constants, PlainType DEF HsTypes
  <2> DEFINE f == <<[m |-> m, part |-> "whole"]>>
  <2>3. f \in Seq(Frag)
    BY <2>2 DEF Frag
  <2>4. PlainRecord("hs", f) \in Record
    BY <2>3, RecordType
  <2>5. Append(srv.tr, ItemOf(m)) \in Seq(Item)
    BY <1>f, <2>2, ItemType
  <2>6. srv' \in SrvType
    BY <1>0, <2>1, <2>4, <2>5 DEF SrvType
  <2> QED BY <1>0, <1>3, <1>u, <2>1, <2>4, <2>6 DEF ServerHello
<1>4. CASE ServerQueue
  <2>1. CASE srv.half = NoMsg
    <3>1. PICK m \in Offers, p \in {"whole", "first"} :
            srv' = [srv EXCEPT !.tr = Append(@, ItemOf(m)), !.half = IF p = "first" THEN m ELSE NoMsg,
                               !.out = Append(@, [m |-> m, part |-> p])]
      BY <1>4, <2>1 DEF ServerQueue
    <3>2. m \in Msg
      <4>1. m \in {Message(t, k, n, o) : t \in {"ee", "cert", "cv", "fin", "nst"},
                       k \in Keys \cup {NoKey}, n \in BOOLEAN, o \in {srv.tr, <<>>}}
        BY DEF Offers
      <4>2. PICK t \in {"ee", "cert", "cv", "fin", "nst"}, k \in Keys \cup {NoKey}, n \in BOOLEAN,
                 o \in {srv.tr, <<>>} : m = Message(t, k, n, o)
        BY <4>1
      <4>3. t \in HsTypes /\ o \in Seq(Item)
        <5>1. <<>> \in Seq(Item)
          OBVIOUS
        <5>2. o \in Seq(Item)
          BY <1>f, <5>1
        <5> QED BY <5>2 DEF HsTypes
      <4> QED BY <1>0, <4>2, <4>3 DEF Message, Msg
    <3>3. Append(srv.tr, ItemOf(m)) \in Seq(Item)
      BY <1>f, <3>2, ItemType
    <3>4. [m |-> m, part |-> p] \in Frag
      BY <3>2 DEF Frag
    <3>5. Append(srv.out, [m |-> m, part |-> p]) \in Seq(Frag)
      BY <1>f, <3>4
    <3>6. (IF p = "first" THEN m ELSE NoMsg) \in Msg
      BY <3>2, Constants
    <3>7. srv' \in SrvType
      BY <1>0, <3>1, <3>3, <3>5, <3>6 DEF SrvType
    <3> QED BY <1>0, <1>4, <3>7, ZenonT(40) DEF ServerQueue
  <2>2. CASE srv.half # NoMsg
    <3>1. [m |-> srv.half, part |-> "last"] \in Frag
      BY <1>f DEF Frag
    <3>2. Append(srv.out, [m |-> srv.half, part |-> "last"]) \in Seq(Frag)
      BY <1>f, <3>1
    <3>3. srv' \in SrvType
      BY <1>0, <1>4, <2>2, <3>2, Constants DEF ServerQueue, SrvType
    <3> QED BY <1>0, <1>4, <3>3 DEF ServerQueue
  <2> QED BY <2>1, <2>2
<1>5. CASE ServerFlush
  <2> DEFINE r == [outer |-> "app", key |-> <<conn, "hs">>, seq |-> srv.hsSeq, inner |-> "hs",
                   frags |-> srv.out]
  <2>1. r \in Record
    BY <1>0, <1>f DEF Record, Epochs
  <2>2. srv' \in SrvType
    <3>1. srv' = [srv EXCEPT !.out = <<>>, !.hsSeq = srv.hsSeq + 1, !.last = r]
      BY <1>5 DEF ServerFlush
    <3>2. <<>> \in Seq(Frag) /\ srv.hsSeq + 1 \in Nat
      BY <1>f
    <3> HIDE DEF r
    <3> QED BY <1>0, <2>1, <3>1, <3>2 DEF SrvType
  <2> QED BY <1>0, <1>5, <1>u, <2>1, <2>2 DEF ServerFlush
<1>6. CASE ServerData
  <2>1. PICK i \in {"hs", "app", "alert"} :
        LET r == [outer |-> "app", key |-> <<conn, "app">>, seq |-> srv.appSeq, inner |-> i,
                  frags |-> <<>>] IN
        /\ srv' = [srv EXCEPT !.appSeq = @ + 1, !.last = r,
                              !.app = IF i = "app" THEN Append(@, srv.appSeq) ELSE @]
        /\ ring' = ring \o Units(r)
    BY <1>6 DEF ServerData
  <2> DEFINE r == [outer |-> "app", key |-> <<conn, "app">>, seq |-> srv.appSeq, inner |-> i,
                   frags |-> <<>>]
  <2>2. r \in Record
    BY <1>0, <1>f DEF Record, Epochs
  <2>3. (IF i = "app" THEN Append(srv.app, srv.appSeq) ELSE srv.app) \in Seq(Nat)
    BY <1>f
  <2>4. srv' \in SrvType
    <3> DEFINE a == IF i = "app" THEN Append(srv.app, srv.appSeq) ELSE srv.app
    <3>1. srv' = [srv EXCEPT !.appSeq = srv.appSeq + 1, !.last = r, !.app = a]
      BY <2>1
    <3>2. srv.appSeq + 1 \in Nat /\ a \in Seq(Nat)
      BY <1>f, <2>3
    <3> HIDE DEF r, a
    <3> QED BY <1>0, <2>2, <3>1, <3>2 DEF SrvType
  <2>5. ring' = ring \o Units(r)
    BY <2>1
  <2> HIDE DEF r
  <2> QED BY <1>0, <1>6, <1>u, <2>2, <2>4, <2>5 DEF ServerData
<1>7. CASE Network
  <2>0. srv' \in SrvType /\ faults' \in Nat
    BY <1>0, <1>7 DEF Network
  <2>a. ASSUME NEW i \in 1 .. Len(ring), NEW r \in Record PROVE [ring EXCEPT ![i].r = r] \in Seq(Unit)
    <3>1. ring[i] \in Unit
      BY <1>0
    <3> DEFINE v == [ring[i] EXCEPT !.r = r]
    <3>2. v \in Unit
      BY <3>1 DEF Unit
    <3>3. [ring EXCEPT ![i].r = r] = [ring EXCEPT ![i] = v]
      OBVIOUS
    <3> HIDE DEF v
    <3>4. [ring EXCEPT ![i] = v] \in Seq(Unit)
      BY <1>0, <3>2
    <3> QED BY <3>3, <3>4
  <2>1. CASE Room /\ \E k \in Faults \ {"damage", "tamper"} : ring' = ring \o Inserted(k)
    <3>1. PICK k \in Faults \ {"damage", "tamper"} : ring' = ring \o Inserted(k)
      BY <2>1
    <3>2. Inserted(k) \in Seq(Unit)
      <4>1. CASE k = "junk"
        <5>1. [u |-> "junk", r |-> NoRecord] \in Unit
          BY Constants DEF Unit
        <5> QED BY <4>1, <5>1 DEF Inserted
      <4>2. CASE k = "replay"
        BY <4>2, <1>f, UnitsType DEF Inserted
      <4>3. CASE k \in {"ccs", "alert"}
        <5>0. <<>> \in Seq(Frag) /\ k \in {"hs", "alert", "ccs", "app"}
          BY <4>3
        <5>1. PlainRecord(k, <<>>) \in Record
          BY <5>0, RecordType
        <5> QED BY <4>3, <5>1, UnitsType DEF Inserted
      <4>4. CASE k \in {"short", "zeros"}
        <5>1. [outer |-> "app", key |-> <<conn, "hs">>, seq |-> srv.hsSeq, inner |-> k,
               frags |-> <<>>] \in Record
          BY <4>4, <1>0, <1>f DEF Record, Epochs
        <5> QED BY <4>4, <5>1, UnitsType DEF Inserted
      <4> QED BY <3>1, <4>1, <4>2, <4>3, <4>4, Assumptions DEF FaultKinds
    <3> QED BY <1>0, <2>0, <3>1, <3>2
  <2>2. CASE \E i \in 1 .. Len(ring) : ring' = [ring EXCEPT ![i].r = Spoilt(ring[i].r)]
    <3>1. PICK i \in 1 .. Len(ring) : ring' = [ring EXCEPT ![i].r = Spoilt(ring[i].r)]
      BY <2>2
    <3>0. ring[i] \in Unit
      BY <1>0
    <3>2. ring[i].r \in Record
      BY <3>0 DEF Unit
    <3> QED BY <2>0, <2>a, <3>1, <3>2, SpoiltType
  <2>3. CASE \E i \in 1 .. Len(ring) - 1 : ring' = [ring EXCEPT ![i].r = Altered, ![i + 1].r = Altered]
    <3>1. PICK i \in 1 .. Len(ring) - 1 : ring' = [ring EXCEPT ![i].r = Altered, ![i + 1].r = Altered]
      BY <2>3
    <3>2. Altered \in Record
      <4>1. [Plain("sh", conn) EXCEPT !.named = TRUE] \in Msg
        <5>1. Plain("sh", conn) \in Msg
          BY <1>0, PlainType DEF HsTypes
        <5> QED BY <5>1, Zenon DEF Msg
      <4>2. <<[m |-> [Plain("sh", conn) EXCEPT !.named = TRUE], part |-> "whole"]>> \in Seq(Frag)
        BY <4>1 DEF Frag
      <4> QED BY <4>2, RecordType DEF Altered
    <3>3. ring[i] \in Unit /\ ring[i + 1] \in Unit
      BY <1>0
    <3>4. [ring[i] EXCEPT !.r = Altered] \in Unit /\ [ring[i + 1] EXCEPT !.r = Altered] \in Unit
      BY <3>2, <3>3 DEF Unit
    <3>5. ring' = [ring EXCEPT ![i] = [ring[i] EXCEPT !.r = Altered], ![i + 1] = [ring[i + 1] EXCEPT !.r = Altered]]
      BY <3>1, <1>0
    <3> QED BY <1>0, <2>0, <3>4, <3>5
  <2> QED BY <1>7, <2>1, <2>2, <2>3 DEF Network
<1> QED BY <1>3, <1>4, <1>5, <1>6, <1>7 DEF Server

\* Every variable of the client, the server and the network keeps its type, and
\* tls_state always is the one that belongs to the point tls_connect has reached.
THEOREM TypeCorrect == Spec => []TypeOK
<1>1. TypeOK /\ [Next]_vars => TypeOK'
  <2> SUFFICES ASSUME TypeOK, [Next]_vars PROVE TypeOK'
    OBVIOUS
  <2>1. CASE UNCHANGED vars
    BY <2>1 DEF vars, session, secrets, reading, TypeOK, SessionType, SecretType, ReadType, WriteType
  <2> QED BY <2>1, TypeReceive, TypePump, TypeCall, TypeEnvironment DEF Next
<1> QED BY TypeInit, <1>1, PTL DEF Spec
-----------------------------------------------------------------------------
(* The invariant: what has been established at each point of tls_connect *)

Leaf == Acceptable(transcript[4]) /\ cert_pin_status \in Positive /\ pubkey = transcript[4].key
Signed == transcript[5].key = pubkey
HsSecret == keys.hs = shared /\ tls_c_hs_secret = <<shared, "hs">>

EncryptedInv ==
    /\ IF df.cur = NoMsg THEN InOrder(transcript, tls_state - 1)
       ELSE /\ InOrder(transcript, tls_state) /\ Gate(df.cur.t)
            /\ transcript = Append(tls_transcript, ItemOf(df.cur))
    /\ tls_state >= CERT_VERIFY => Leaf
    /\ tls_state >= FINISHED => Signed
    /\ shared \in {0, conn} /\ HsSecret

FinishedInv ==
    /\ InOrder(transcript, 6) /\ Leaf /\ Signed
    /\ transcript[6].conn = conn /\ shared = conn /\ HsSecret

PlaceInv ==
    /\ pc = "server_hello" => InOrder(transcript, 1)
    /\ pc = "keys" => InOrder(transcript, 2) /\ shared \in {0, conn}
    /\ pc = "encrypted" => EncryptedInv
    /\ pc = "finished" => FinishedInv
    /\ pc \in {"traffic", "open"} => Authentic
    /\ pc = "open" => keys.app = conn

\* No nonce has been used on this connection.
Quiet == \A i \in 1 .. Len(sent) : sent[i][1] < conn

SentInv ==
    /\ \A i \in 1 .. Len(sent) : sent[i][1] <= conn
    /\ Quiet \/ Authentic
    /\ pc \in {"hello", "server_hello", "keys", "encrypted", "finished"} => Quiet

NonceInv ==
    /\ NonceOnce
    /\ pc = "traffic" => \A i \in 1 .. Len(sent) : sent[i][1] = conn => sent[i][2] = "hs"
    /\ pc = "open" => \A i \in 1 .. Len(sent) :
                        sent[i][1] = conn /\ sent[i][2] = "app" => sent[i][3] < tls_write_seq

HandshakeInv == PlaceInv /\ SentInv

-----------------------------------------------------------------------------
(* The invariant is kept *)

Before == {"hello", "server_hello", "keys", "encrypted", "finished"}

LEMMA Keeps ==
    HandshakeInv /\ UNCHANGED <<session, secrets, sent>> /\ df'.cur = df.cur => HandshakeInv'
<1> SUFFICES ASSUME HandshakeInv, UNCHANGED <<session, secrets, sent>>, df'.cur = df.cur
             PROVE  HandshakeInv'
    OBVIOUS
<1> USE DEF session, secrets
<1>1. \A n : InOrder(transcript', n) <=> InOrder(transcript, n)
    BY DEF InOrder
<1>2. (Leaf' <=> Leaf) /\ (Signed' <=> Signed) /\ (HsSecret' <=> HsSecret)
    BY DEF Leaf, Signed, HsSecret, Acceptable
<1>3. Authentic' <=> Authentic
    BY <1>1 DEF Authentic, Acceptable
<1>4. (EncryptedInv' <=> EncryptedInv) /\ (FinishedInv' <=> FinishedInv)
    BY <1>1, <1>2 DEF EncryptedInv, FinishedInv, Gate
<1>5. PlaceInv'
    BY <1>1, <1>3, <1>4 DEF HandshakeInv, PlaceInv
<1>6. SentInv'
    BY <1>3 DEF HandshakeInv, SentInv, Quiet
<1> QED BY <1>5, <1>6 DEF HandshakeInv

LEMMA FailKeeps == HandshakeInv /\ Fail /\ UNCHANGED <<secrets, sent>> => HandshakeInv'
<1> SUFFICES ASSUME HandshakeInv, Fail, UNCHANGED <<secrets, sent>> PROVE HandshakeInv'
    OBVIOUS
<1> USE DEF secrets
<1>0. pc' = (IF pc = "open" THEN "open" ELSE "failed") /\ conn' = conn /\ policy' = policy
    BY DEF Fail
<1>1. Authentic' <=> Authentic
    BY <1>0 DEF Authentic, Acceptable, InOrder
<1>2. PlaceInv'
    BY <1>0, <1>1 DEF HandshakeInv, PlaceInv
<1>3. SentInv'
    BY <1>0, <1>1 DEF HandshakeInv, SentInv, Quiet
<1> QED BY <1>2, <1>3 DEF HandshakeInv

(* A failure before anything was sent leaves nothing to be shown. *)
LEMMA FailBefore == HandshakeInv /\ pc \in Before /\ Fail /\ sent' = sent => HandshakeInv'
<1> SUFFICES ASSUME HandshakeInv, pc \in Before, Fail, sent' = sent PROVE HandshakeInv'
    OBVIOUS
<1>0. pc' = "failed" /\ conn' = conn
    BY DEF Fail, Before
<1>1. PlaceInv'
    BY <1>0 DEF PlaceInv
<1>2. SentInv'
    BY <1>0 DEF HandshakeInv, SentInv, Quiet, Before
<1> QED BY <1>1, <1>2 DEF HandshakeInv

LEMMA TickKeeps == HandshakeInv /\ Tick /\ UNCHANGED <<secrets, sent>> /\ df'.cur = df.cur => HandshakeInv'
BY Keeps, FailKeeps DEF Tick

LEMMA FrameFailKeeps ==
    HandshakeInv /\ FrameFail /\ UNCHANGED <<secrets, sent>> /\ df'.cur = df.cur => HandshakeInv'
BY TickKeeps, FailKeeps DEF FrameFail

(* A message folded into the transcript. *)
LEMMA Fold ==
    ASSUME NEW s \in Seq(Item), NEW n \in Nat, InOrder(s, n), NEW x \in Item, x.t = Expected(n + 1)
    PROVE  /\ InOrder(Append(s, x), n + 1)
           /\ Append(s, x)[n + 1] = x
           /\ \A i \in 1 .. n : Append(s, x)[i] = s[i]
<1>1. Len(s) = n /\ \A i \in 1 .. n : s[i].t = Expected(i)
    BY DEF InOrder
<1>2. /\ Len(Append(s, x)) = n + 1 /\ Append(s, x)[n + 1] = x
      /\ \A i \in 1 .. n : Append(s, x)[i] = s[i]
    BY <1>1
<1>3. \A i \in 1 .. n + 1 : Append(s, x)[i].t = Expected(i)
  <2> TAKE i \in 1 .. n + 1
  <2>1. i = n + 1 \/ i \in 1 .. n
    OBVIOUS
  <2> QED BY <1>1, <1>2, <2>1
<1> QED BY <1>2, <1>3 DEF InOrder

LEMMA InvReceive == TypeOK /\ HandshakeInv /\ Receive => HandshakeInv'
<1> SUFFICES ASSUME TypeOK, HandshakeInv, Receive PROVE HandshakeInv'
    OBVIOUS
<1>1. CASE Incomplete
    BY <1>1, TickKeeps DEF Incomplete, stream
<1>2. CASE ReadHeader \/ SkipCcs \/ TlsRecv
    BY <1>2, Keeps DEF ReadHeader, SkipCcs, TlsRecv
<1>3. CASE BadHeader \/ FrameError
    BY <1>3, FrameFailKeeps DEF BadHeader, FrameError
<1>4. CASE AuthError
    BY <1>4, FailKeeps DEF AuthError
<1>5. CASE RecvEncrypted
  <2>1. CASE Arrived.inner = "hs"
    <3>1. df' = [df EXCEPT !.frags = Arrived.frags] /\ UNCHANGED <<session, secrets, sent>>
      BY <1>5, <2>1 DEF RecvEncrypted
    <3>2. df'.cur = df.cur
      BY <3>1 DEF TypeOK, ReadType, DfType
    <3> QED BY <3>1, <3>2, Keeps
  <2>2. CASE Arrived.inner # "hs"
    BY <1>5, <2>2, FailKeeps DEF RecvEncrypted
  <2> QED BY <2>1, <2>2
<1>6. CASE RecvServerHello /\ Fail
    BY <1>6, FailBefore DEF RecvServerHello, Before
<1>7. CASE RecvServerHello /\ IsServerHello(Arrived) /\ ~Fail
  <2> DEFINE m == Arrived.frags[1].m
  <2>1. /\ transcript' = Append(transcript, ItemOf(m)) /\ shared' \in {0, conn}
        /\ pc = "server_hello" /\ pc' = "keys" /\ conn' = conn /\ sent' = sent
    BY <1>7 DEF RecvServerHello
  <2>2. ItemOf(m) \in Item /\ ItemOf(m).t = "sh"
    <3>1. Arrived.frags \in Seq(Frag)
      BY <1>7, RingHead DEF RecvServerHello, Complete, Record, TypeOK
    <3>2. Arrived.frags[1] \in Frag /\ m.t = "sh"
      BY <1>7, <3>1 DEF IsServerHello
    <3> QED BY <3>2, ItemType DEF Frag, ItemOf
  <2> HIDE DEF m
  <2>3. transcript \in Seq(Item) /\ InOrder(transcript, 1)
    BY <2>1 DEF TypeOK, SecretType, HandshakeInv, PlaceInv
  <2>4. ItemOf(m).t = Expected(1 + 1)
    BY <2>2 DEF Expected
  <2>5. InOrder(transcript', 1 + 1)
    BY <2>1, <2>2, <2>3, <2>4, Fold
  <2>6. InOrder(transcript', 2)
    BY <2>5
  <2>7. PlaceInv'
    BY <2>1, <2>6 DEF PlaceInv
  <2>8. SentInv'
    BY <2>1 DEF HandshakeInv, SentInv, Quiet
  <2> QED BY <2>7, <2>8 DEF HandshakeInv
<1> QED BY <1>1, <1>2, <1>3, <1>4, <1>5, <1>6, <1>7 DEF Receive, RecvServerHello

LEMMA GateType ==
    ASSUME TypeOK, NEW t, Gate(t)
    PROVE  tls_state \in 3 .. 6 /\ t = Expected(tls_state) /\ t # "nst"
BY StateNumbers DEF TypeOK, SessionType, Gate, Expected, Allowed

(* The message m, the last one of the transcript, has been handed over. *)
LEMMA InvDispatch ==
    ASSUME TypeOK, HandshakeInv, pc = "encrypted", NEW m \in Msg, NEW h, Gate(m.t), Dispatch(m, h),
           InOrder(transcript', tls_state), transcript'[tls_state] = ItemOf(m),
           tls_state >= CERT_VERIFY => transcript'[4] = transcript[4],
           tls_state >= FINISHED => transcript'[5] = transcript[5],
           df'.cur = NoMsg, UNCHANGED <<shared, keys, tls_c_hs_secret, sent>>
    PROVE  HandshakeInv'
<1>1. /\ tls_state \in 3 .. 6 /\ (tls_state = 4 <=> m.t = "cert")
      /\ (tls_state = 5 <=> m.t = "cv") /\ (tls_state = 6 <=> m.t = "fin")
    BY GateType DEF Expected, Allowed, ENCRYPTED_EXT, CERTIFICATE, CERT_VERIFY
<1>2. EncryptedInv /\ Quiet
    BY DEF HandshakeInv, PlaceInv, SentInv
<1>3. CASE ~Handler(m, h)
    BY <1>3, FailBefore DEF Dispatch, Before
<1>4. CASE Handler(m, h)
  <2>0. conn' = conn /\ policy' = policy
    BY <1>4 DEF Dispatch
  <2>1. SentInv' \/ pc' \notin Before
    BY <1>2, <2>0 DEF HandshakeInv, SentInv, Quiet, Before
  <2>2. tls_state = 4 => Leaf'
    <3> SUFFICES ASSUME tls_state = 4 PROVE Leaf'
      OBVIOUS
    <3>1. /\ pubkey' = m.key
          /\ cert_pin_status' = PinVerdict(policy, m.key, m.key \notin OtherCurve)
          /\ CertPinCheck(policy, m.key, m.key \notin OtherCurve, m.named)
      BY <1>1, <1>4 DEF Dispatch, Handler, CertificateHolds, CertVerifyHolds, FinishedHolds
    <3>2. transcript'[4].key = m.key /\ transcript'[4].named = m.named
      BY DEF ItemOf
    <3>3. Acceptable(transcript[4])'
      BY <2>0, <3>1, <3>2 DEF Acceptable
    <3>4. cert_pin_status' \in Positive
      BY <3>1 DEF CertPinCheck
    <3> QED BY <3>1, <3>2, <3>3, <3>4 DEF Leaf
  <2>3. tls_state >= 5 => Leaf' /\ pubkey' = pubkey
    <3> SUFFICES ASSUME tls_state >= 5 PROVE Leaf' /\ pubkey' = pubkey
      OBVIOUS
    <3>1. UNCHANGED <<pubkey, cert_pin_status>> /\ transcript'[4] = transcript[4]
      BY <1>1, StateNumbers DEF Dispatch
    <3> QED BY <1>2, <2>0, <3>1, StateNumbers DEF EncryptedInv, Leaf, Acceptable
  <2>4. tls_state = 5 => Signed'
    BY <1>1, <1>4, <2>3 DEF Handler, CertificateHolds, CertVerifyHolds, FinishedHolds, ItemOf, Signed
  <2>5. tls_state = 6 => Signed'
    BY <1>2, <2>3, StateNumbers DEF EncryptedInv, Signed
  <2>6. shared' \in {0, conn'} /\ HsSecret'
    BY <1>2, <2>0 DEF EncryptedInv, HsSecret
  <2>7. CASE tls_state = 6
    <3>1. pc' = "finished"
      BY <1>4, <2>7, StateNumbers DEF Dispatch
    <3>2. m.conn # 0 /\ <<m.conn, "hs">> = tls_c_hs_secret
      BY <1>1, <1>4, <2>7 DEF Handler, CertVerifyHolds, FinishedHolds
    <3>3. m.conn = shared /\ shared = conn
      BY <1>2, <3>2 DEF EncryptedInv, HsSecret
    <3>4. transcript'[6].conn = conn' /\ shared' = conn'
      BY <2>0, <2>7, <3>3 DEF ItemOf
    <3>5. FinishedInv'
      BY <2>3, <2>5, <2>6, <2>7, <3>4 DEF FinishedInv
    <3> QED BY <2>1, <3>1, <3>5 DEF HandshakeInv, PlaceInv, Before
  <2>8. CASE tls_state \in 3 .. 5
    <3>1. pc' = "encrypted" /\ tls_state' = tls_state + 1
      BY <1>4, <2>8, StateNumbers DEF Dispatch
    <3>2. InOrder(transcript', tls_state' - 1)
      <4>1. tls_state' - 1 = tls_state
        BY <2>8, <3>1
      <4> QED BY <4>1
    <3>3. EncryptedInv'
      BY <2>2, <2>3, <2>4, <2>6, <2>8, <3>1, <3>2, StateNumbers DEF EncryptedInv
    <3> QED BY <2>1, <3>1, <3>3 DEF HandshakeInv, PlaceInv, Before
  <2> QED BY <1>1, <2>7, <2>8
<1> QED BY <1>3, <1>4

LEMMA InvPump == TypeOK /\ HandshakeInv /\ Pump => HandshakeInv'
<1> SUFFICES ASSUME TypeOK, HandshakeInv, Pump PROVE HandshakeInv'
    OBVIOUS
<1>0. pc = "encrypted" /\ df.frags # <<>> /\ UNCHANGED <<shared, keys, tls_c_hs_secret, sent>>
    BY DEF Pump, PumpRefuse, PumpHeader, PumpRest, NewMessage, Pumping, pumped
<1>1. EncryptedInv
    BY <1>0 DEF HandshakeInv, PlaceInv
<1>2. NextFrag \in Frag /\ NextFrag.m \in Msg /\ df.cur \in Msg /\ df \in DfType
  <2>1. df.frags \in Seq(Frag) /\ df.cur \in Msg /\ df \in DfType
    BY DEF TypeOK, ReadType, DfType
  <2>2. NextFrag \in Frag
    BY <1>0, <2>1, HeadTailProperties DEF NextFrag
  <2> QED BY <2>1, <2>2 DEF Frag
<1>3. transcript \in Seq(Item) /\ tls_transcript \in Seq(Item)
    BY DEF TypeOK, SecretType
<1>4. CASE PumpRefuse
    BY <1>0, <1>4, FailBefore DEF PumpRefuse, Before
<1>5. CASE PumpHeader
  <2> DEFINE m == NextFrag.m
  <2>1. /\ df.cur = NoMsg /\ Gate(m.t) /\ tls_transcript' = transcript
        /\ transcript' = Append(transcript, ItemOf(m))
    BY <1>5 DEF PumpHeader, NewMessage
  <2>2. tls_state \in 3 .. 6 /\ m.t = Expected(tls_state) /\ m.t # "nst"
    BY <2>1, GateType
  <2> DEFINE n == tls_state - 1
  <2>3. n \in Nat /\ n + 1 = tls_state /\ InOrder(transcript, n)
    BY <1>1, <2>1, <2>2 DEF EncryptedInv
  <2>4. ItemOf(m) \in Item /\ ItemOf(m).t = m.t
    BY <1>2, ItemType DEF ItemOf
  <2>5. ItemOf(m).t = Expected(n + 1)
    BY <2>2, <2>3, <2>4
  <2> HIDE DEF n, m
  <2>6. /\ InOrder(transcript', n + 1) /\ transcript'[n + 1] = ItemOf(m)
        /\ \A i \in 1 .. n : transcript'[i] = transcript[i]
    BY <1>3, <2>1, <2>3, <2>4, <2>5, Fold, ZenonT(40)
  <2>7. /\ InOrder(transcript', tls_state) /\ transcript'[tls_state] = ItemOf(m)
        /\ tls_state >= CERT_VERIFY => transcript'[4] = transcript[4]
        /\ tls_state >= FINISHED => transcript'[5] = transcript[5]
    <3>1. InOrder(transcript', n + 1) => InOrder(transcript', tls_state)
      BY <2>3, <2>2 DEF n
    <3>2. 4 \in 1 .. n \/ tls_state < 5
      BY <2>2, <2>3
    <3>3. 5 \in 1 .. n \/ tls_state < 6
      BY <2>2, <2>3
    <3> QED BY <2>2, <2>3, <2>6, <3>1, <3>2, <3>3, StateNumbers
  <2>8. CASE NextFrag.part = "whole"
    <3>1. df'.cur = NoMsg /\ Dispatch(m, transcript)
      BY <1>2, <1>5, <2>1, <2>8 DEF PumpHeader, DfType, m
    <3>2. m \in Msg
      BY <1>2 DEF m
    <3> QED BY <1>0, <2>1, <2>7, <3>1, <3>2, InvDispatch
  <2>9. CASE NextFrag.part # "whole"
    <3>1. df'.cur = m /\ UNCHANGED <<session, pubkey, cert_pin_status>>
      BY <1>5, <2>9 DEF PumpHeader, m
    <3>2. m # NoMsg
      BY <2>2 DEF NoMsg, Plain
    <3>3. (tls_state >= CERT_VERIFY => Leaf') /\ (tls_state >= FINISHED => Signed') /\ HsSecret'
      <4>1. tls_state >= CERT_VERIFY => Leaf'
        BY <1>1, <2>7, <3>1 DEF EncryptedInv, Leaf, Acceptable, session
      <4>2. tls_state >= FINISHED => Signed'
        BY <1>1, <2>7, <3>1 DEF EncryptedInv, Signed
      <4>3. HsSecret'
        BY <1>0, <1>1 DEF EncryptedInv, HsSecret
      <4> QED BY <4>1, <4>2, <4>3
    <3>4. UNCHANGED <<tls_state, pc, conn, policy>>
      BY <3>1 DEF session
    <3>5. InOrder(transcript', tls_state') /\ Gate(df.cur.t)'
      BY <2>1, <2>7, <3>1, <3>4 DEF Gate
    <3>6. EncryptedInv'
      BY <1>0, <1>1, <2>1, <3>1, <3>2, <3>3, <3>4, <3>5 DEF EncryptedInv
    <3>7. SentInv'
      BY <1>0, <3>4 DEF HandshakeInv, SentInv, Quiet
    <3> QED BY <1>0, <3>4, <3>6, <3>7 DEF HandshakeInv, PlaceInv
  <2> QED BY <2>8, <2>9
<1>6. CASE PumpRest
  <2>1. /\ df.cur # NoMsg /\ df'.cur = NoMsg /\ Dispatch(df.cur, tls_transcript)
        /\ transcript' = transcript
    BY <1>6 DEF PumpRest
  <2>2. /\ InOrder(transcript, tls_state) /\ Gate(df.cur.t)
        /\ transcript = Append(tls_transcript, ItemOf(df.cur))
    BY <1>1, <2>1 DEF EncryptedInv
  <2>3. transcript'[tls_state] = ItemOf(df.cur)
    BY <1>3, <2>1, <2>2 DEF InOrder
  <2>4. InOrder(transcript', tls_state)
    BY <2>1, <2>2
  <2> QED BY <1>0, <1>2, <2>1, <2>2, <2>3, <2>4, InvDispatch
<1> QED BY <1>4, <1>5, <1>6 DEF Pump

(* The message is sealed for this connection. *)
LEMMA SealKeeps ==
    ASSUME TypeOK, Seal, Select[1] = conn, conn' = conn,
           \A i \in 1 .. Len(sent) : sent[i][1] <= conn
    PROVE  \A i \in 1 .. Len(sent') : sent'[i][1] <= conn'
<1> DEFINE e == <<Select[1], Select[2], tls_write_seq>>
<1>1. sent' = Append(sent, e) /\ e[1] = conn /\ conn \in Nat
    BY Assumptions DEF Seal, TypeOK, SessionType, Conns
<1>2. sent \in Seq(Conns \X Epochs \X Nat)
    BY DEF TypeOK, WriteType
<1> HIDE DEF e
<1> TAKE i \in 1 .. Len(sent')
<1>3. i = Len(sent) + 1 \/ i \in 1 .. Len(sent)
    BY <1>1, <1>2
<1> QED BY <1>1, <1>2, <1>3

LEMMA AuthenticKeeps ==
    Authentic /\ UNCHANGED <<shared, transcript, tls_transcript, pubkey, cert_pin_status, conn, policy>>
    => Authentic'
BY DEF Authentic, Acceptable

LEMMA InvCall == TypeOK /\ HandshakeInv /\ (Call \/ Proceed) => HandshakeInv'
<1> SUFFICES ASSUME TypeOK, HandshakeInv, Call \/ Proceed PROVE HandshakeInv'
    OBVIOUS
<1>0. transcript \in Seq(Item) /\ conn \in Nat
    BY Assumptions DEF TypeOK, SecretType, SessionType, Conns
<1>1. CASE TlsConnect
  <2>1. pc' = "hello" /\ conn' = conn + 1 /\ sent' = sent
    BY <1>1 DEF TlsConnect
  <2>2. \A i \in 1 .. Len(sent) : sent[i][1] \in Nat
    BY Assumptions, SMTT(30) DEF TypeOK, WriteType, Conns
  <2>3. Quiet'
    BY <1>0, <2>1, <2>2 DEF HandshakeInv, SentInv, Quiet
  <2>4. SentInv'
    BY <1>0, <2>1, <2>2, <2>3 DEF SentInv, Quiet
  <2> QED BY <2>1, <2>4 DEF HandshakeInv, PlaceInv
<1>2. CASE SendClientHello
  <2>1. pc = "hello" /\ sent' = sent
    BY <1>2 DEF SendClientHello
  <2>2. CASE Fail
    BY <2>1, <2>2, FailBefore DEF Before
  <2>3. CASE ~Fail
    <3>1. transcript' = <<ItemOf(Plain("ch", conn))>> /\ pc' = "server_hello" /\ conn' = conn
      BY <1>2, <2>3 DEF SendClientHello
    <3>2. InOrder(transcript', 1)
      BY <3>1 DEF InOrder, Expected, ItemOf, Plain
    <3>3. PlaceInv'
      BY <3>1, <3>2 DEF PlaceInv
    <3>4. SentInv'
      BY <2>1, <3>1 DEF HandshakeInv, SentInv, Quiet
    <3> QED BY <3>3, <3>4 DEF HandshakeInv
  <2> QED BY <2>2, <2>3
<1>3. CASE DeriveHandshakeKeys
  <2>1. /\ pc = "keys" /\ pc' = "encrypted" /\ tls_state' = 3 /\ df' = NoFrags
        /\ UNCHANGED <<transcript, shared, conn, sent>>
    BY <1>3, StateNumbers DEF DeriveHandshakeKeys
  <2>2. HsSecret'
    BY <1>3 DEF DeriveHandshakeKeys, HsSecret, TypeOK, SecretType
  <2>3. InOrder(transcript', tls_state' - 1) /\ shared' \in {0, conn'}
    BY <2>1 DEF HandshakeInv, PlaceInv
  <2>4. EncryptedInv'
    BY <2>1, <2>2, <2>3, StateNumbers DEF EncryptedInv, NoFrags
  <2>5. SentInv'
    BY <2>1 DEF HandshakeInv, SentInv, Quiet
  <2> QED BY <2>1, <2>4, <2>5 DEF HandshakeInv, PlaceInv
<1>4. CASE SendFinished
  <2>1. pc = "finished" /\ FinishedInv /\ tls_transcript' = transcript
    BY <1>4 DEF SendFinished, HandshakeInv, PlaceInv
  <2>2. CASE ~CertPinRequire(cert_pin_status)
    BY <1>4, <2>1, <2>2, FailBefore DEF SendFinished, Before
  <2>3. CASE CertPinRequire(cert_pin_status)
    <3> DEFINE x == ItemOf(Plain("cfin", tls_c_hs_secret[1]))
    <3>1. /\ transcript' = Append(transcript, x) /\ Seal
          /\ UNCHANGED <<shared, keys, pubkey, cert_pin_status, conn, policy>>
      BY <1>4, <2>3 DEF SendFinished, Fail
    <3>2. pc' \in {"traffic", "failed"}
      BY <1>4, <2>1, <2>3 DEF SendFinished, Fail
    <3>3. x \in Item /\ x.conn = conn /\ x.t = Expected(6 + 1)
      <4>1. tls_c_hs_secret[1] = conn /\ conn \in Conns
        BY <2>1 DEF FinishedInv, HsSecret, TypeOK, SessionType
      <4>2. x \in Item
        BY <4>1, PlainType, ItemType DEF HsTypes
      <4> QED BY <4>1, <4>2 DEF ItemOf, Plain, Expected
    <3> HIDE DEF x
    <3>4. /\ InOrder(transcript', 6 + 1) /\ transcript'[6 + 1] = x
          /\ \A i \in 1 .. 6 : transcript'[i] = transcript[i]
      <4>1. InOrder(transcript, 6) /\ 6 \in Nat
        BY <2>1 DEF FinishedInv
      <4>2. /\ InOrder(Append(transcript, x), 6 + 1) /\ Append(transcript, x)[6 + 1] = x
            /\ \A i \in 1 .. 6 : Append(transcript, x)[i] = transcript[i]
        BY <1>0, <3>3, <4>1, Fold, ZenonT(40)
      <4> QED BY <3>1, <4>2
    <3>5. InOrder(transcript', 7) /\ transcript'[7] = x
      BY <3>4
    <3>6. Authentic'
      <4>1. \A i \in {4, 5, 6} : transcript'[i] = transcript[i]
        BY <3>4
      <4>2. Acceptable(transcript[4])' /\ cert_pin_status' \in Positive
        <5>1. Acceptable(transcript[4]) /\ cert_pin_status \in Positive
          BY <2>1 DEF FinishedInv, Leaf
        <5>2. transcript'[4] = transcript[4]
          BY <4>1
        <5> QED BY <3>1, <5>1, <5>2 DEF Acceptable
      <4>3. /\ transcript'[4].key = pubkey' /\ transcript'[5].key = pubkey'
            /\ transcript'[6].conn = conn' /\ shared' = conn'
        BY <2>1, <3>1, <4>1 DEF FinishedInv, Leaf, Signed
      <4>4. transcript'[7].conn = conn' /\ transcript' = Append(tls_transcript', transcript'[7])
        BY <2>1, <3>1, <3>3, <3>5
      <4> QED BY <3>5, <4>2, <4>3, <4>4 DEF Authentic
    <3>7. Select[1] = conn
      BY <2>1, StateNumbers DEF Select, FinishedInv, HsSecret, TypeOK, SessionType, StatesAt
    <3>8. SentInv'
      <4>1. \A i \in 1 .. Len(sent') : sent'[i][1] <= conn'
        BY <3>1, <3>7, SealKeeps DEF HandshakeInv, SentInv
      <4> QED BY <3>2, <3>6, <4>1 DEF SentInv
    <3>9. PlaceInv'
      BY <3>2, <3>6 DEF PlaceInv
    <3> QED BY <3>8, <3>9 DEF HandshakeInv
  <2> QED BY <2>2, <2>3
<1>5. CASE DeriveTrafficKeys
  <2>1. pc = "traffic" /\ pc' = "open" /\ conn' = conn /\ sent' = sent /\ Authentic'
    BY <1>5, AuthenticKeeps DEF DeriveTrafficKeys, HandshakeInv, PlaceInv
  <2>2. keys'.app = conn'
    BY <1>5, <2>1 DEF DeriveTrafficKeys, Authentic, TypeOK, SecretType
  <2>3. SentInv'
    BY <2>1 DEF HandshakeInv, SentInv, Quiet
  <2> QED BY <2>1, <2>2, <2>3 DEF HandshakeInv, PlaceInv
<1>6. CASE TlsSend
  <2>1. /\ pc = "open" /\ pc' = "open" /\ conn' = conn /\ keys' = keys /\ Seal
        /\ tls_state = CONNECTED /\ Authentic'
    BY <1>6, AuthenticKeeps DEF TlsSend, session, secrets, HandshakeInv, PlaceInv
  <2>2. Select[1] = conn /\ keys'.app = conn'
    BY <2>1, StateNumbers DEF Select, HandshakeInv, PlaceInv
  <2>3. SentInv'
    BY <2>1, <2>2, SealKeeps DEF HandshakeInv, SentInv
  <2> QED BY <2>1, <2>2, <2>3 DEF HandshakeInv, PlaceInv
<1>7. CASE TlsClose
  <2>1. pc' = "idle" /\ conn' = conn /\ sent' = sent /\ (Authentic => Authentic')
    BY <1>7, AuthenticKeeps DEF TlsClose, secrets
  <2>2. SentInv'
    BY <2>1 DEF HandshakeInv, SentInv, Quiet
  <2> QED BY <2>1, <2>2 DEF HandshakeInv, PlaceInv
<1> QED BY <1>1, <1>2, <1>3, <1>4, <1>5, <1>6, <1>7 DEF Call, Proceed

LEMMA InvInit == Init => HandshakeInv
<1> SUFFICES ASSUME Init PROVE HandshakeInv
    OBVIOUS
<1>1. pc = "idle" /\ sent = <<>>
    BY DEF Init
<1>2. SentInv
    BY <1>1 DEF SentInv, Quiet
<1> QED BY <1>1, <1>2 DEF HandshakeInv, PlaceInv

\* At every point of tls_connect the messages accepted so far are the ones the
\* protocol asks for, each checked, and no key has been used before they all were.
THEOREM HandshakeOrder == Spec => []HandshakeInv
<1>1. TypeOK /\ HandshakeInv /\ [Next]_vars => HandshakeInv'
  <2> SUFFICES ASSUME TypeOK, HandshakeInv, [Next]_vars PROVE HandshakeInv'
    OBVIOUS
  <2>1. CASE UNCHANGED vars
    BY <2>1, Keeps DEF vars, reading
  <2>2. CASE Server \/ Network
    <3>1. UNCHANGED client
      BY <2>2 DEF Server, ServerHello, ServerQueue, ServerFlush, ServerData, Network
    <3> QED BY <3>1, Keeps DEF client
  <2> QED BY <2>1, <2>2, InvReceive, InvPump, InvCall DEF Next
<1> QED BY InvInit, TypeCorrect, <1>1, PTL DEF Spec

\* No record leaves under the keys of a connection before its server has been
\* authenticated: the client's Finished (cert_pin_send_finished) and every tls_send.
THEOREM AuthenticatedFirst == Spec => []NothingBeforeAuthentication
<1>1. TypeOK /\ HandshakeInv => NothingBeforeAuthentication
  <2> SUFFICES ASSUME TypeOK, HandshakeInv, sent # <<>>, sent[Len(sent)][1] = conn PROVE Authentic
    BY DEF NothingBeforeAuthentication
  <2>1. Len(sent) \in 1 .. Len(sent)
    BY DEF TypeOK, WriteType
  <2>2. ~Quiet
    BY <2>1, Assumptions DEF Quiet, TypeOK, SessionType, Conns
  <2> QED BY <2>2 DEF HandshakeInv, SentInv
<1> QED BY <1>1, TypeCorrect, HandshakeOrder, PTL

-----------------------------------------------------------------------------
(* Nonces *)

LEMMA NonceKeeps ==
    ASSUME NonceInv, sent' = sent,
           pc' \notin {"traffic", "open"} \/ UNCHANGED <<pc, conn, tls_write_seq>>
    PROVE  NonceInv'
BY DEF NonceInv, NonceOnce

LEMMA NonceFail == NonceInv /\ Fail /\ UNCHANGED <<sent, tls_write_seq>> => NonceInv'
BY NonceKeeps DEF Fail

LEMMA NonceFrame ==
    NonceInv /\ (UNCHANGED session \/ Fail) /\ UNCHANGED <<sent, tls_write_seq>> => NonceInv'
BY NonceKeeps, NonceFail DEF session

LEMMA NonceFresh ==
    ASSUME TypeOK, NonceInv, NEW e \in Conns \X Epochs \X Nat,
           \A i \in 1 .. Len(sent) : sent[i] # e, sent' = Append(sent, e)
    PROVE  /\ NonceOnce'
           /\ \A i \in 1 .. Len(sent') : sent'[i] = e \/ \E j \in 1 .. Len(sent) : sent'[i] = sent[j]
<1>1. sent \in Seq(Conns \X Epochs \X Nat)
    BY DEF TypeOK, WriteType
<1>2. /\ Len(sent') = Len(sent) + 1 /\ sent'[Len(sent) + 1] = e
      /\ \A i \in 1 .. Len(sent) : sent'[i] = sent[i]
      /\ Len(sent) \in Nat
    BY <1>1
<1>3. \A i \in 1 .. Len(sent') : i = Len(sent) + 1 \/ i \in 1 .. Len(sent)
    BY <1>2
<1>4. NonceOnce'
    BY <1>2, <1>3 DEF NonceInv, NonceOnce
<1> QED BY <1>2, <1>3, <1>4

LEMMA NonceStep == TypeOK /\ HandshakeInv /\ NonceInv /\ [Next]_vars => NonceInv'
<1> SUFFICES ASSUME TypeOK, HandshakeInv, NonceInv, [Next]_vars PROVE NonceInv'
    OBVIOUS
<1>0. conn \in Nat /\ Select \in Conns \X Epochs /\ tls_write_seq \in Nat
    BY Assumptions DEF TypeOK, SessionType, SecretType, WriteType, Conns, Select, Epochs
<1>1. CASE UNCHANGED vars
    BY <1>1, NonceFrame DEF vars
<1>2. CASE Server \/ Network
  <2>1. UNCHANGED client
    BY <1>2 DEF Server, ServerHello, ServerQueue, ServerFlush, ServerData, Network
  <2> QED BY <2>1, NonceFrame DEF client
<1>3. CASE Receive
  <2>1. CASE RecvServerHello /\ ~Fail
    BY <2>1, NonceKeeps DEF RecvServerHello
  <2>2. CASE ~RecvServerHello \/ Fail
    <3>1. UNCHANGED <<sent, tls_write_seq>>
      BY <1>3 DEF Receive, Incomplete, ReadHeader, BadHeader, SkipCcs, FrameError, AuthError,
                  RecvServerHello, RecvEncrypted, TlsRecv
    <3>2. UNCHANGED session \/ Fail
      BY <1>3, <2>2 DEF Receive, Incomplete, ReadHeader, BadHeader, SkipCcs, FrameError, AuthError,
                        RecvEncrypted, TlsRecv, FrameFail, Tick
    <3> QED BY <3>1, <3>2, NonceFrame
  <2> QED BY <2>1, <2>2
<1>4. CASE Pump
  <2>1. sent' = sent /\ pc' \notin {"traffic", "open"}
    BY <1>4 DEF Pump, PumpRefuse, PumpHeader, PumpRest, NewMessage, Pumping, Dispatch, Fail,
                pumped, session
  <2> QED BY <2>1, NonceKeeps
<1>5. CASE TlsConnect \/ SendClientHello \/ DeriveHandshakeKeys \/ TlsClose
  <2>1. sent' = sent /\ pc' \notin {"traffic", "open"}
    BY <1>5 DEF TlsConnect, SendClientHello, DeriveHandshakeKeys, TlsClose, Fail
  <2> QED BY <2>1, NonceKeeps
<1>6. CASE SendFinished
  <2>1. pc = "finished" /\ FinishedInv /\ Quiet
    BY <1>6 DEF SendFinished, HandshakeInv, PlaceInv, SentInv
  <2>2. CASE ~CertPinRequire(cert_pin_status)
    BY <1>6, <2>2, NonceFail DEF SendFinished
  <2>3. CASE CertPinRequire(cert_pin_status)
    <3> DEFINE e == <<Select[1], Select[2], tls_write_seq>>
    <3>1. e \in Conns \X Epochs \X Nat /\ e[1] = conn /\ e[2] = "hs"
      BY <1>0, <2>1, StateNumbers DEF Select, FinishedInv, HsSecret, TypeOK, SessionType, StatesAt
    <3>2. sent' = Append(sent, e) /\ pc' \in {"traffic", "failed"} /\ conn' = conn
      BY <1>6, <2>1, <2>3 DEF SendFinished, Seal, Fail
    <3> HIDE DEF e
    <3>3. \A i \in 1 .. Len(sent) : sent[i][1] # conn
      BY <1>0, <2>1 DEF Quiet
    <3>4. \A i \in 1 .. Len(sent) : sent[i] # e
      BY <3>1, <3>3
    <3>5. /\ NonceOnce'
          /\ \A i \in 1 .. Len(sent') : sent'[i] = e \/ \E j \in 1 .. Len(sent) : sent'[i] = sent[j]
      BY <3>1, <3>2, <3>4, NonceFresh
    <3>6. \A i \in 1 .. Len(sent') : sent'[i][1] = conn' => sent'[i][2] = "hs"
      BY <3>1, <3>2, <3>3, <3>5
    <3> QED BY <3>2, <3>5, <3>6 DEF NonceInv
  <2> QED BY <2>2, <2>3
<1>7. CASE DeriveTrafficKeys
  <2>1. /\ pc = "traffic" /\ pc' = "open" /\ UNCHANGED <<sent, conn>>
        /\ \A i \in 1 .. Len(sent) : sent[i][1] = conn => sent[i][2] = "hs"
    BY <1>7 DEF DeriveTrafficKeys, NonceInv
  <2>2. \A i \in 1 .. Len(sent') : ~(sent'[i][1] = conn' /\ sent'[i][2] = "app")
    BY <2>1
  <2> QED BY <2>1, <2>2 DEF NonceInv, NonceOnce
<1>8. CASE TlsSend
  <2> DEFINE e == <<Select[1], Select[2], tls_write_seq>>
  <2>1. /\ pc = "open" /\ keys.app = conn
        /\ UNCHANGED <<pc, conn>> /\ sent' = Append(sent, e) /\ tls_write_seq' = tls_write_seq + 1
    BY <1>8 DEF TlsSend, Seal, session, HandshakeInv, PlaceInv
  <2>2. e \in Conns \X Epochs \X Nat /\ e[1] = conn /\ e[2] = "app" /\ e[3] = tls_write_seq
    BY <1>0, <1>8, <2>1, StateNumbers DEF TlsSend, Select
  <2> HIDE DEF e
  <2>3. \A i \in 1 .. Len(sent) : sent[i][1] = conn /\ sent[i][2] = "app" => sent[i][3] < tls_write_seq
    BY <2>1 DEF NonceInv
  <2>4. \A i \in 1 .. Len(sent) : sent[i][3] \in Nat
    BY DEF TypeOK, WriteType
  <2>5. \A i \in 1 .. Len(sent) : sent[i] # e
    BY <1>0, <2>2, <2>3, <2>4
  <2>6. /\ NonceOnce'
        /\ \A i \in 1 .. Len(sent') : sent'[i] = e \/ \E j \in 1 .. Len(sent) : sent'[i] = sent[j]
    BY <2>1, <2>2, <2>5, NonceFresh
  <2>7. \A i \in 1 .. Len(sent') :
            sent'[i][1] = conn' /\ sent'[i][2] = "app" => sent'[i][3] < tls_write_seq'
    BY <1>0, <2>1, <2>2, <2>3, <2>4, <2>6
  <2> QED BY <2>1, <2>6, <2>7 DEF NonceInv
<1> QED BY <1>1, <1>2, <1>3, <1>4, <1>5, <1>6, <1>7, <1>8 DEF Next, Call, Proceed

\* No nonce is ever used twice: over any number of connections, epochs and sends,
\* those the stack refused included (tls_record_encrypt, tls_seq_reset).
THEOREM NoncesOnce == Spec => []NonceOnce
<1>1. Init => NonceInv
    BY DEF Init, NonceInv, NonceOnce
<1>2. NonceInv => NonceOnce
    BY DEF NonceInv
<1> QED BY <1>1, <1>2, NonceStep, TypeCorrect, HandshakeOrder, PTL DEF Spec
-----------------------------------------------------------------------------
(* The session the code around the client sees *)

\* The hook has not been asked before the Certificate is handed over.
Unjudged == pc = "encrypted" /\ tls_state < CERT_VERIFY => cert_pin_status = "none"

Phase(p) ==
    IF p \in {"idle", "failed"} THEN "closed" ELSE IF p = "open" THEN "open"
    ELSE IF p \in {"hello", "server_hello", "keys"} THEN "hello" ELSE "flight"

(* The variables of the session, and a step that leaves them alone or ends it. *)
Rest == <<policy, cert_pin_status, pubkey, tls_reached_connected>>

LEMMA SessionStutters ==
    ASSUME UNCHANGED Rest, Phase(pc') = Phase(pc)
    PROVE  [Session!SessionNext]_(Session!sessionVars)
BY DEF Rest, Phase, Session!sessionVars

LEMMA SessionEnds ==
    ASSUME UNCHANGED Rest, Phase(pc') = "closed", Phase(pc) # "closed"
    PROVE  [Session!SessionNext]_(Session!sessionVars)
<1>1. Session!End
    BY DEF Rest, Phase, Session!End
<1> QED BY <1>1 DEF Session!SessionNext

LEMMA FailEnds ==
    ASSUME TypeOK, Fail, UNCHANGED <<pubkey, cert_pin_status>>, pc \notin {"idle", "failed"}
    PROVE  [Session!SessionNext]_(Session!sessionVars)
<1>1. UNCHANGED Rest
    BY DEF Fail, Rest
<1>2. CASE pc = "open"
    BY <1>1, <1>2, SessionStutters DEF Fail, Phase
<1>3. CASE pc # "open"
  <2>1. Phase(pc') = "closed" /\ Phase(pc) # "closed"
    BY <1>3 DEF Fail, Phase
  <2> QED BY <1>1, <2>1, SessionEnds
<1> QED BY <1>2, <1>3

\* A message handed over is the leaf, on which the hook has its one say, or changes
\* nothing of the session unless it is refused.
LEMMA DispatchSession ==
    ASSUME TypeOK, Unjudged, pc = "encrypted", NEW m \in Msg, NEW h, Gate(m.t), Dispatch(m, h)
    PROVE  [Session!SessionNext]_(Session!sessionVars) /\ Unjudged'
<1>1. tls_state \in 3 .. 6 /\ (m.t = "cert" <=> tls_state = 4)
    BY GateType DEF Expected, Allowed, ENCRYPTED_EXT, CERTIFICATE, CERT_VERIFY
<1>2. CASE m.t # "cert"
  <2>1. UNCHANGED <<pubkey, cert_pin_status>>
    BY <1>2 DEF Dispatch
  <2>2. CASE ~Handler(m, h)
    <3>1. Fail
      BY <2>2 DEF Dispatch
    <3>2. pc' = "failed"
      BY <3>1 DEF Fail
    <3> QED BY <2>1, <3>1, <3>2, FailEnds DEF Unjudged
  <2>3. CASE Handler(m, h)
    <3>1. /\ UNCHANGED <<tls_last_state, tls_reached_connected, conn, policy>>
          /\ \/ pc' = "finished"
             \/ pc' = pc /\ tls_state' = tls_state + 1
      BY <2>3 DEF Dispatch
    <3>2. Phase(pc') = Phase(pc)
      BY <3>1 DEF Phase
    <3>3. Unjudged'
      BY <1>1, <1>2, <2>1, <3>1, StateNumbers DEF Unjudged
    <3> QED BY <2>1, <3>1, <3>2, <3>3, SessionStutters DEF Rest
  <2> QED BY <2>2, <2>3
<1>3. CASE m.t = "cert"
  <2>1. cert_pin_status = "none"
    BY <1>1, <1>3, StateNumbers DEF Unjudged
  <2>2. /\ pubkey' = m.key
        /\ cert_pin_status' = PinVerdict(policy, m.key, m.key \notin OtherCurve)
    BY <1>3 DEF Dispatch
  <2>3. Handler(m, h) <=> CertPinCheck(policy, m.key, m.key \notin OtherCurve, m.named)
    BY <1>3 DEF Handler, CertificateHolds
  <2>4. /\ UNCHANGED <<tls_reached_connected, policy>>
        /\ IF Handler(m, h) THEN pc' = pc /\ tls_state' = 5 ELSE pc' = "failed"
    BY <1>1, <1>3, StateNumbers DEF Dispatch, Fail
  <2>5. m.key \in Keys \cup {NoKey} /\ m.named \in BOOLEAN
    BY DEF Msg
  <2>6. Session!Judge(m.key, m.named)
    BY <2>1, <2>2, <2>3, <2>4
    DEF Session!Judge, Session!PinVerdict, Session!CertPinCheck, Session!Positive,
        PinVerdict, CertPinCheck, Positive
  <2>7. Unjudged'
    BY <2>4, StateNumbers DEF Unjudged
  <2> QED BY <2>5, <2>6, <2>7 DEF Session!SessionNext
<1> QED BY <1>2, <1>3

LEMMA UnjudgedKeeps ==
    ASSUME Unjudged, cert_pin_status' = cert_pin_status, pc' # "encrypted" \/ UNCHANGED <<pc, tls_state>>
    PROVE  Unjudged'
BY DEF Unjudged

LEMMA SessionStep ==
    ASSUME TypeOK, HandshakeInv, Unjudged, [Next]_vars
    PROVE  [Session!SessionNext]_(Session!sessionVars) /\ Unjudged'
<1> DEFINE Goal == [Session!SessionNext]_(Session!sessionVars) /\ Unjudged'
<1>0. ASSUME UNCHANGED <<session, pubkey, cert_pin_status>>
      PROVE  Goal
    BY <1>0, SessionStutters, UnjudgedKeeps DEF session, Rest
<1>f. ASSUME Fail, UNCHANGED <<pubkey, cert_pin_status>>, pc \notin {"idle", "failed"}
      PROVE  Goal
    BY <1>f, FailEnds, UnjudgedKeeps DEF Fail
<1>1. CASE UNCHANGED vars
    BY <1>1, <1>0 DEF vars, secrets
<1>2. CASE Server \/ Network
  <2>1. UNCHANGED client
    BY <1>2 DEF Server, ServerHello, ServerQueue, ServerFlush, ServerData, Network
  <2> QED BY <1>0, <2>1 DEF client, secrets
<1>3. CASE Receive
  <2>1. Receiving /\ UNCHANGED <<pubkey, cert_pin_status>>
    BY <1>3 DEF Receive, Incomplete, ReadHeader, BadHeader, SkipCcs, FrameError, AuthError,
                RecvServerHello, RecvEncrypted, TlsRecv, Complete, secrets
  <2>2. pc \notin {"idle", "failed"}
    BY <2>1 DEF Receiving
  <2>3. CASE RecvServerHello /\ ~Fail
    <3>1. /\ pc = "server_hello" /\ pc' = "keys"
          /\ UNCHANGED <<tls_reached_connected, policy>>
      BY <2>3 DEF RecvServerHello
    <3>2. Phase(pc') = Phase(pc)
      BY <3>1 DEF Phase
    <3> QED BY <2>1, <3>1, <3>2, SessionStutters, UnjudgedKeeps DEF Rest
  <2>4. CASE ~(RecvServerHello /\ ~Fail)
    <3>1. UNCHANGED session \/ Fail
      BY <1>3, <2>4 DEF Receive, Incomplete, ReadHeader, BadHeader, SkipCcs, FrameError, AuthError,
                        RecvEncrypted, TlsRecv, FrameFail, Tick
    <3> QED BY <1>0, <1>f, <2>1, <2>2, <3>1
  <2> QED BY <2>3, <2>4
<1>4. CASE Pump
  <2>0. Pumping /\ pc = "encrypted" /\ EncryptedInv
    BY <1>4 DEF Pump, PumpRefuse, PumpHeader, PumpRest, NewMessage, Pumping, HandshakeInv, PlaceInv
  <2>1. NextFrag.m \in Msg /\ df.cur \in Msg
    <3>1. df.frags \in Seq(Frag) /\ df.cur \in Msg
      BY DEF TypeOK, ReadType, DfType
    <3>2. NextFrag \in Frag
      BY <2>0, <3>1, HeadTailProperties DEF Pumping, NextFrag
    <3> QED BY <3>1, <3>2 DEF Frag
  <2>2. CASE PumpRefuse
    BY <1>f, <2>0, <2>2 DEF PumpRefuse
  <2>3. CASE PumpHeader /\ NextFrag.part = "whole"
    BY <2>0, <2>1, <2>3, DispatchSession DEF PumpHeader
  <2>4. CASE PumpHeader /\ NextFrag.part # "whole"
    BY <1>0, <2>4 DEF PumpHeader
  <2>5. CASE PumpRest
    <3>1. df.cur # NoMsg /\ Dispatch(df.cur, tls_transcript)
      BY <2>5 DEF PumpRest
    <3>2. Gate(df.cur.t)
      BY <2>0, <3>1 DEF EncryptedInv
    <3> QED BY <2>0, <2>1, <3>1, <3>2, DispatchSession
  <2> QED BY <1>4, <2>2, <2>3, <2>4, <2>5 DEF Pump
<1>5. CASE TlsConnect
  <2>1. Session!Begin
    BY <1>5 DEF TlsConnect, secrets, Session!Begin
  <2>2. Unjudged'
    BY <1>5 DEF TlsConnect, Unjudged
  <2> QED BY <2>1, <2>2 DEF Session!SessionNext
<1>6. CASE SendClientHello
  <2>1. pc = "hello" /\ UNCHANGED <<pubkey, cert_pin_status>>
    BY <1>6 DEF SendClientHello
  <2>2. CASE Fail
    BY <1>f, <2>1, <2>2
  <2>3. CASE ~Fail
    <3>1. pc' = "server_hello" /\ UNCHANGED <<tls_reached_connected, policy>>
      BY <1>6, <2>3 DEF SendClientHello
    <3>2. Phase(pc') = Phase(pc)
      BY <2>1, <3>1 DEF Phase
    <3> QED BY <2>1, <3>1, <3>2, SessionStutters, UnjudgedKeeps DEF Rest
  <2> QED BY <2>2, <2>3
<1>7. CASE DeriveHandshakeKeys
  <2>1. Session!Keyed
    BY <1>7 DEF DeriveHandshakeKeys, Session!Keyed
  <2>2. Unjudged'
    BY <1>7 DEF DeriveHandshakeKeys, Unjudged
  <2> QED BY <2>1, <2>2 DEF Session!SessionNext
<1>8. CASE SendFinished
  <2>1. pc = "finished" /\ UNCHANGED <<pubkey, cert_pin_status>>
    BY <1>8 DEF SendFinished
  <2>2. CASE Fail
    BY <1>f, <2>1, <2>2
  <2>3. CASE ~Fail
    <3>1. pc' = "traffic" /\ UNCHANGED <<tls_reached_connected, policy>>
      BY <1>8, <2>3 DEF SendFinished
    <3>2. Phase(pc') = Phase(pc)
      BY <2>1, <3>1 DEF Phase
    <3> QED BY <2>1, <3>1, <3>2, SessionStutters, UnjudgedKeeps DEF Rest
  <2> QED BY <2>2, <2>3
<1>9. CASE DeriveTrafficKeys
  <2>1. pc = "traffic" /\ cert_pin_status \in Positive
    BY <1>9 DEF DeriveTrafficKeys, HandshakeInv, PlaceInv, Authentic
  <2>2. Session!Open
    BY <1>9, <2>1 DEF DeriveTrafficKeys, Session!Open, Session!CertPinRequire, Session!Positive, Positive
  <2>3. Unjudged'
    BY <1>9 DEF DeriveTrafficKeys, Unjudged
  <2> QED BY <2>2, <2>3 DEF Session!SessionNext
<1>10. CASE TlsSend
    BY <1>10, <1>0 DEF TlsSend, secrets
<1>11. CASE TlsClose
  <2>1. UNCHANGED Rest /\ Phase(pc') = "closed" /\ Phase(pc) # "closed" /\ pc' # "encrypted"
    BY <1>11 DEF TlsClose, secrets, Rest, Phase
  <2> QED BY <2>1, SessionEnds, UnjudgedKeeps DEF Rest
<1> QED BY <1>1, <1>2, <1>3, <1>4, <1>5, <1>6, <1>7, <1>8, <1>9, <1>10, <1>11
    DEF Next, Call, Proceed

\* The client implements the session the trust policy is built on: every step of
\* tls_connect and of the data calls is a step of TlsSession or changes nothing of
\* it, so a connection has one verdict, on its own leaf and under its own policy,
\* and opens only after a positive one.
THEOREM SessionImplemented == Spec => ImplementsSession
<1>1. Init => Session!SessionInit
    BY DEF Init, Session!SessionInit
<1>2. Init => Unjudged
    BY DEF Init, Unjudged
<1>3. TypeOK /\ HandshakeInv /\ Unjudged /\ [Next]_vars
        => [Session!SessionNext]_(Session!sessionVars) /\ Unjudged'
    BY SessionStep
<1> QED BY <1>1, <1>2, <1>3, TypeCorrect, HandshakeOrder, PTL DEF Spec, ImplementsSession, Session!Spec

-----------------------------------------------------------------------------
(* What a failure leaves for the report *)

\* CONNECTED is reached in no other way than by deriving the traffic keys.
Reached ==
    /\ tls_state = CONNECTED => tls_reached_connected
    /\ tls_last_state = CONNECTED => tls_reached_connected

Report ==
    /\ tls_state = ERROR /\ conn' = conn =>
            tls_last_state' = tls_last_state /\ tls_state' \in {ERROR, IDLE}
    /\ tls_last_state' = CONNECTED => tls_reached_connected'

LEMMA ReportStep ==
    ASSUME TypeOK, Reached, [Next]_vars
    PROVE  Reached' /\ Report
<1>0. ASSUME UNCHANGED <<tls_state, tls_last_state, tls_reached_connected>>
      PROVE  Reached' /\ Report
    BY <1>0 DEF Reached, Report
<1>f. ASSUME Fail, tls_state # ERROR
      PROVE  Reached' /\ Report
    BY <1>f, StateNumbers DEF Fail, Reached, Report
<1>s. \A p : pc = p /\ p \in {"hello", "server_hello", "keys", "encrypted", "finished", "traffic"}
             => tls_state \in 1 .. 6
    BY StateNumbers DEF TypeOK, SessionType, StatesAt
<1>n. \A s \in 1 .. 7 : s # ERROR
    BY StateNumbers
<1>1. CASE UNCHANGED vars
    BY <1>1, <1>0 DEF vars, session
<1>2. CASE Server \/ Network
  <2>1. UNCHANGED client
    BY <1>2 DEF Server, ServerHello, ServerQueue, ServerFlush, ServerData, Network
  <2> QED BY <1>0, <2>1 DEF client, session
<1>3. CASE Receive
  <2>1. Receiving
    BY <1>3 DEF Receive, Incomplete, ReadHeader, BadHeader, SkipCcs, FrameError, AuthError,
                RecvServerHello, RecvEncrypted, TlsRecv, Complete
  <2>2. tls_state # ERROR
    BY <1>s, <1>n, <2>1, StateNumbers DEF Receiving
  <2>3. UNCHANGED <<tls_state, tls_last_state, tls_reached_connected>> \/ Fail
    BY <1>3 DEF Receive, Incomplete, ReadHeader, BadHeader, SkipCcs, FrameError, AuthError,
                RecvServerHello, RecvEncrypted, TlsRecv, FrameFail, Tick, session
  <2> QED BY <1>0, <1>f, <2>2, <2>3
<1>4. CASE Pump
  <2>1. tls_state \in 3 .. 6
    BY <1>4, StateNumbers DEF Pump, PumpRefuse, PumpHeader, PumpRest, NewMessage, Pumping, TypeOK,
                              SessionType, StatesAt
  <2>2. \/ Fail
        \/ UNCHANGED <<tls_state, tls_last_state, tls_reached_connected>>
        \/ /\ tls_state' = tls_state + 1 /\ tls_state # FINISHED
           /\ UNCHANGED <<tls_last_state, tls_reached_connected>>
    BY <1>4 DEF Pump, PumpRefuse, PumpHeader, PumpRest, Dispatch, session
  <2>3. tls_state # ERROR
    BY <2>1, StateNumbers
  <2>4. ASSUME tls_state' = tls_state + 1, tls_state # FINISHED,
               UNCHANGED <<tls_last_state, tls_reached_connected>>
        PROVE  Reached' /\ Report
    BY <2>1, <2>4, StateNumbers DEF Reached, Report
  <2> QED BY <1>0, <1>f, <2>2, <2>3, <2>4
<1>5. CASE TlsConnect
  <2>1. conn' # conn
    BY <1>5, Assumptions DEF TlsConnect, TypeOK, SessionType, Conns
  <2> QED BY <1>5, <2>1, StateNumbers DEF TlsConnect, Reached, Report
<1>6. CASE SendClientHello \/ DeriveHandshakeKeys \/ SendFinished
  <2>1. tls_state # ERROR
    BY <1>6, <1>s, <1>n DEF SendClientHello, DeriveHandshakeKeys, SendFinished
  <2>2. \/ Fail
        \/ /\ UNCHANGED <<tls_last_state, tls_reached_connected>>
           /\ tls_state' \in {tls_state, SERVER_HELLO, ENCRYPTED_EXT}
    BY <1>6 DEF SendClientHello, DeriveHandshakeKeys, SendFinished
  <2>3. ASSUME UNCHANGED <<tls_last_state, tls_reached_connected>>,
               tls_state' \in {tls_state, SERVER_HELLO, ENCRYPTED_EXT}
        PROVE  Reached' /\ Report
    BY <2>1, <2>3, StateNumbers DEF Reached, Report
  <2> QED BY <1>f, <2>1, <2>2, <2>3
<1>7. CASE DeriveTrafficKeys
  <2>1. tls_state # ERROR
    BY <1>7, <1>s, <1>n DEF DeriveTrafficKeys
  <2> QED BY <1>7, <2>1 DEF DeriveTrafficKeys, Reached, Report
<1>8. CASE TlsSend
    BY <1>8, <1>0 DEF TlsSend, session
<1>9. CASE TlsClose
    BY <1>9, StateNumbers DEF TlsClose, Reached, Report
<1> QED BY <1>1, <1>2, <1>3, <1>4, <1>5, <1>6, <1>7, <1>8, <1>9 DEF Next, Call, Proceed

\* The state in which the first failure of a connection struck is never written
\* over before the next tls_connect, and CONNECTED among those states means that
\* the connection had been opened (tls_rec_latch, @error).
THEOREM FirstFailureKept == Spec => ErrorKept
<1>1. Init => Reached
    BY StateNumbers DEF Init, Reached
<1>2. TypeOK /\ Reached /\ [Next]_vars => Reached' /\ Report
    BY ReportStep
<1> QED BY <1>1, <1>2, TypeCorrect, PTL DEF Spec, ErrorKept, Report
-----------------------------------------------------------------------------
(* What is under way between the server and the client *)

InFlight(s) == {s[i].r : i \in 1 .. Len(s)}
Flying == InFlight(ring) \cup {reader, srv.last}

LEMMA FlightTail ==
    ASSUME NEW s \in Seq(Unit), s # <<>>
    PROVE  InFlight(Tail(s)) \subseteq InFlight(s) /\ Head(s).r \in InFlight(s)
<1>1. /\ Len(s) \in Nat /\ Len(s) >= 1 /\ Len(Tail(s)) = Len(s) - 1 /\ Head(s) = s[1]
      /\ \A i \in 1 .. Len(s) - 1 : Tail(s)[i] = s[i + 1] /\ i + 1 \in 1 .. Len(s)
    OBVIOUS
<1>2. 1 \in 1 .. Len(s)
    BY <1>1
<1>3. \A x \in InFlight(Tail(s)) : x \in InFlight(s)
  <2> TAKE x \in InFlight(Tail(s))
  <2>1. PICK i \in 1 .. Len(s) - 1 : x = Tail(s)[i].r
    BY <1>1 DEF InFlight
  <2> QED BY <1>1, <2>1 DEF InFlight
<1> QED BY <1>1, <1>2, <1>3 DEF InFlight

LEMMA FlightGrows ==
    ASSUME NEW s \in Seq(Unit), NEW t \in Seq(Unit), NEW S, \A i \in 1 .. Len(t) : t[i].r \in S
    PROVE  InFlight(s \o t) \subseteq InFlight(s) \cup S
<1>1. /\ Len(s) \in Nat /\ Len(t) \in Nat /\ Len(s \o t) = Len(s) + Len(t)
      /\ \A i \in 1 .. Len(s) : (s \o t)[i] = s[i]
      /\ \A i \in Len(s) + 1 .. Len(s) + Len(t) : (s \o t)[i] = t[i - Len(s)] /\ i - Len(s) \in 1 .. Len(t)
    OBVIOUS
<1> SUFFICES ASSUME NEW i \in 1 .. Len(s \o t) PROVE (s \o t)[i].r \in InFlight(s) \cup S
    BY DEF InFlight
<1>2. i \in 1 .. Len(s) \/ i \in Len(s) + 1 .. Len(s) + Len(t)
    BY <1>1
<1> QED BY <1>1, <1>2 DEF InFlight

LEMMA FlightUnits ==
    ASSUME NEW s \in Seq(Unit), NEW r \in Record
    PROVE  InFlight(s \o Units(r)) \subseteq InFlight(s) \cup {r}
<1>1. Units(r) \in Seq(Unit)
    BY UnitsType
<1>2. \A i \in 1 .. Len(Units(r)) : Units(r)[i].r \in {r}
    BY DEF Units
<1> QED BY <1>1, <1>2, FlightGrows

\* A record put in the place of another: damage and tampering.
LEMMA FlightPut ==
    ASSUME NEW s \in Seq(Unit), NEW i \in 1 .. Len(s), NEW r \in Record
    PROVE  /\ [s EXCEPT ![i].r = r] \in Seq(Unit)
           /\ Len([s EXCEPT ![i].r = r]) = Len(s)
           /\ InFlight([s EXCEPT ![i].r = r]) \subseteq InFlight(s) \cup {r}
<1> DEFINE t == [s EXCEPT ![i].r = r]
<1>1. DOMAIN s = 1 .. Len(s) /\ Len(s) \in Nat /\ \A j \in 1 .. Len(s) : s[j] \in Unit
    OBVIOUS
<1>2. [s[i] EXCEPT !.r = r] \in Unit /\ [s[i] EXCEPT !.r = r].r = r
    BY <1>1 DEF Unit
<1>3. t = [j \in 1 .. Len(s) |-> IF j = i THEN [s[i] EXCEPT !.r = r] ELSE s[j]]
    BY <1>1
<1> HIDE DEF t
<1>4. \A j \in 1 .. Len(s) : t[j] \in Unit
    BY <1>1, <1>2, <1>3
<1>5. t \in Seq(Unit) /\ Len(t) = Len(s)
    BY <1>1, <1>3, <1>4
<1>6. \A j \in 1 .. Len(s) : t[j].r \in InFlight(s) \cup {r}
    BY <1>1, <1>2, <1>3 DEF InFlight
<1>7. InFlight(t) \subseteq InFlight(s) \cup {r}
    BY <1>5, <1>6 DEF InFlight
<1> QED BY <1>5, <1>7 DEF t

\* What the network and the server's handshake add: no application record.
Foreign == {r \in Record : r.key[2] # "app" /\ \A i \in 1 .. Len(r.frags) : r.frags[i].m.t # "fin"}

LEMMA ForeignRecords ==
    /\ NoRecord \in Foreign
    /\ \A r \in Record : Spoilt(r) \in Foreign
    /\ \A o \in {"hs", "alert", "ccs", "app"} : PlainRecord(o, <<>>) \in Foreign
<1>1. NoRecord \in Foreign
    BY Constants DEF Foreign, NoRecord, PlainRecord, NoEpoch
<1>2. \A r \in Record : Spoilt(r) \in Foreign
  <2> TAKE r \in Record
  <2>1. Spoilt(r) \in Record
    BY SpoiltType
  <2>2. Spoilt(r).key = NoEpoch /\ Spoilt(r).frags = <<>>
    BY DEF Spoilt, Record
  <2> QED BY <2>1, <2>2 DEF Foreign, NoEpoch
<1>3. \A o \in {"hs", "alert", "ccs", "app"} : PlainRecord(o, <<>>) \in Foreign
  <2> TAKE o \in {"hs", "alert", "ccs", "app"}
  <2>0. <<>> \in Seq(Frag)
    OBVIOUS
  <2>1. PlainRecord(o, <<>>) \in Record
    BY <2>0, RecordType
  <2> QED BY <2>1 DEF Foreign, PlainRecord, NoEpoch
<1> QED BY <1>1, <1>2, <1>3

LEMMA FlyingReceive ==
    ASSUME TypeOK, Receive
    PROVE  Flying' \subseteq Flying \cup {NoRecord} /\ UNCHANGED <<srv, conn>>
<1>0. ring \in Seq(Unit)
    BY DEF TypeOK, ReadType
<1>1. UNCHANGED <<srv, conn>>
    BY DEF Receive, Incomplete, ReadHeader, BadHeader, SkipCcs, FrameError, AuthError,
           RecvServerHello, RecvEncrypted, TlsRecv, FrameFail, Tick, Fail, session
<1>2. \/ UNCHANGED <<ring, reader>>
      \/ ring # <<>> /\ ring' = Tail(ring) /\ reader' \in {reader, NoRecord, Head(ring).r}
    BY DEF Receive, Incomplete, ReadHeader, BadHeader, SkipCcs, FrameError, AuthError,
           RecvServerHello, RecvEncrypted, TlsRecv, Complete, Take, stream
<1>3. InFlight(ring') \subseteq InFlight(ring) /\ reader' \in {reader, NoRecord} \cup InFlight(ring)
    BY <1>0, <1>2, FlightTail
<1> QED BY <1>1, <1>3 DEF Flying

LEMMA FlyingNetwork ==
    ASSUME TypeOK, Network
    PROVE  Flying' \subseteq Flying \cup Foreign /\ UNCHANGED <<srv, conn, reader>>
<1>0. ring \in Seq(Unit) /\ conn \in Conns /\ srv.last \in Record /\ srv.hsSeq \in Nat
    BY DEF TypeOK, ReadType, SessionType, SrvType
<1>1. UNCHANGED <<srv, conn, reader>>
    BY DEF Network, client, session
<1>2. SUFFICES InFlight(ring') \subseteq Flying \cup Foreign
    BY <1>1 DEF Flying
<1>3. CASE \E k \in Faults \ {"damage", "tamper"} : ring' = ring \o Inserted(k)
  <2>1. PICK k \in Faults \ {"damage", "tamper"} : ring' = ring \o Inserted(k)
    BY <1>3
  <2>2. CASE k = "junk"
    <3> DEFINE t == <<[u |-> "junk", r |-> NoRecord]>>
    <3>1. t \in Seq(Unit) /\ \A i \in 1 .. Len(t) : t[i].r \in {NoRecord}
      BY Constants DEF Unit
    <3>2. ring' = ring \o t
      BY <2>1, <2>2 DEF Inserted
    <3> HIDE DEF t
    <3>3. InFlight(ring') \subseteq InFlight(ring) \cup {NoRecord}
      BY <1>0, <3>1, <3>2, FlightGrows
    <3> QED BY <3>3, ForeignRecords DEF Flying
  <2>3. CASE k = "replay"
    <3>1. ring' = ring \o Units(srv.last)
      BY <2>1, <2>3 DEF Inserted
    <3> QED BY <1>0, <3>1, FlightUnits DEF Flying
  <2>4. CASE k \in {"ccs", "alert"}
    <3>1. ring' = ring \o Units(PlainRecord(k, <<>>))
      BY <2>1, <2>4 DEF Inserted
    <3>2. PlainRecord(k, <<>>) \in Foreign
      BY <2>4, ForeignRecords
    <3>3. PlainRecord(k, <<>>) \in Record
      BY <3>2 DEF Foreign
    <3>4. InFlight(ring') \subseteq InFlight(ring) \cup {PlainRecord(k, <<>>)}
      BY <1>0, <3>1, <3>3, FlightUnits
    <3> QED BY <3>2, <3>4 DEF Flying
  <2>5. CASE k \in {"short", "zeros"}
    <3> DEFINE r == [outer |-> "app", key |-> <<conn, "hs">>, seq |-> srv.hsSeq, inner |-> k,
                     frags |-> <<>>]
    <3>1. ring' = ring \o Units(r)
      BY <2>1, <2>5 DEF Inserted
    <3>2. r \in Foreign
      BY <1>0, <2>5 DEF Foreign, Record, Epochs
    <3> HIDE DEF r
    <3>3. r \in Record
      BY <3>2 DEF Foreign
    <3>4. InFlight(ring') \subseteq InFlight(ring) \cup {r}
      BY <1>0, <3>1, <3>3, FlightUnits
    <3> QED BY <3>2, <3>4 DEF Flying
  <2> QED BY <2>1, <2>2, <2>3, <2>4, <2>5, Assumptions DEF FaultKinds
<1>4. CASE \E i \in 1 .. Len(ring) : ring' = [ring EXCEPT ![i].r = Spoilt(@)]
  <2>1. PICK i \in 1 .. Len(ring) : ring' = [ring EXCEPT ![i].r = Spoilt(@)]
    BY <1>4
  <2>0. ring[i] \in Unit
    BY <1>0, <2>1
  <2>2. ring[i].r \in Record
    BY <2>0 DEF Unit
  <2> DEFINE x == Spoilt(ring[i].r)
  <2>3. ring' = [ring EXCEPT ![i].r = x]
    BY <2>1
  <2>4. x \in Record /\ x \in Foreign
    BY <2>2, SpoiltType, ForeignRecords
  <2> HIDE DEF x
  <2>5. InFlight(ring') \subseteq InFlight(ring) \cup {x}
    BY <1>0, <2>3, <2>4, FlightPut
  <2> QED BY <2>4, <2>5 DEF Flying
<1>5. CASE \E i \in 1 .. Len(ring) - 1 : ring' = [ring EXCEPT ![i].r = Altered, ![i + 1].r = Altered]
  <2>1. PICK i \in 1 .. Len(ring) - 1 : ring' = [ring EXCEPT ![i].r = Altered, ![i + 1].r = Altered]
    BY <1>5
  <2>2. Altered \in Record /\ Altered \in Foreign
    <3> DEFINE m == [Plain("sh", conn) EXCEPT !.named = TRUE]
               f == <<[m |-> m, part |-> "whole"]>>
    <3>1. m \in Msg /\ m.t = "sh"
      BY <1>0, PlainType DEF Msg, HsTypes, Plain
    <3> HIDE DEF m
    <3>2. f \in Seq(Frag) /\ Len(f) = 1 /\ f[1].m = m
      BY <3>1 DEF Frag
    <3>3. Altered = PlainRecord("hs", f)
      BY DEF Altered, m
    <3> HIDE DEF f
    <3>4. Altered \in Record
      BY <3>2, <3>3, RecordType
    <3>5. Altered.key = NoEpoch /\ Altered.frags = f
      BY <3>3 DEF PlainRecord
    <3>6. \A j \in 1 .. Len(f) : f[j].m.t # "fin"
      BY <3>1, <3>2
    <3> QED BY <3>4, <3>5, <3>6 DEF Foreign, NoEpoch
  <2>3. i \in 1 .. Len(ring) /\ i + 1 \in 1 .. Len(ring)
    BY <1>0, <2>1
  <2> DEFINE s == [ring EXCEPT ![i].r = Altered]
  <2>4. s \in Seq(Unit) /\ Len(s) = Len(ring) /\ InFlight(s) \subseteq InFlight(ring) \cup {Altered}
    BY <1>0, <2>2, <2>3, FlightPut
  <2>5. ring' = [s EXCEPT ![i + 1].r = Altered]
    BY <2>1
  <2> HIDE DEF s
  <2>6. InFlight(ring') \subseteq InFlight(s) \cup {Altered}
    BY <2>2, <2>3, <2>4, <2>5, FlightPut
  <2> QED BY <2>2, <2>4, <2>6 DEF Flying
<1> QED BY <1>3, <1>4, <1>5 DEF Network
-----------------------------------------------------------------------------
(* Application data *)

\* A connection starts with nothing under way.
Clean == pc = "hello" => srv = NoServer /\ ring = <<>> /\ reader = NoRecord

\* A record under the server's traffic key is one it has sent, and its number is on
\* the server's list if and only if it carries data.
Listed(n) == \E i \in 1 .. Len(srv.app) : srv.app[i] = n
DataRecord(r) ==
    r.key = <<conn, "app">> => r.seq < srv.appSeq /\ (r.inner = "app" <=> Listed(r.seq))

Ascending ==
    /\ \A i \in 1 .. Len(srv.app) : srv.app[i] < srv.appSeq
    /\ \A i, j \in 1 .. Len(srv.app) : i < j => srv.app[i] < srv.app[j]

\* The caller has the beginning of the list: while the connection is open, just the
\* numbers the read counter has passed.
Handed ==
    /\ Len(got) <= Len(srv.app)
    /\ \A i \in 1 .. Len(got) : got[i] = srv.app[i]
    /\ pc \notin {"open", "idle", "failed"} => got = <<>>
    /\ pc = "open" => /\ tls_read_seq <= srv.appSeq
                      /\ \A i \in 1 .. Len(srv.app) : srv.app[i] < tls_read_seq <=> i <= Len(got)

DataInv == Clean /\ (\A r \in Flying : DataRecord(r)) /\ Ascending /\ Handed

LEMMA DataTypes ==
    ASSUME TypeOK
    PROVE  /\ srv.app \in Seq(Nat) /\ srv.appSeq \in Nat /\ got \in Seq(Nat) /\ tls_read_seq \in Nat
           /\ Len(srv.app) \in Nat /\ Len(got) \in Nat
           /\ \A i \in 1 .. Len(srv.app) : srv.app[i] \in Nat
           /\ reader \in Record /\ srv.last \in Record /\ srv \in SrvType /\ ring \in Seq(Unit)
           /\ conn \in Conns
BY DEF TypeOK, SrvType, ReadType, SessionType

LEMMA ForeignData ==
    ASSUME NEW r \in Foreign
    PROVE  DataRecord(r)
BY DEF Foreign, DataRecord

\* A step that neither sends nor hands out application data.
LEMMA DataKeeps ==
    ASSUME DataInv, Flying' \subseteq Flying \cup Foreign, conn' = conn, got' = got,
           srv'.app = srv.app, srv'.appSeq = srv.appSeq,
           pc' # "open" \/ UNCHANGED <<pc, tls_read_seq>>,
           pc' \in {"open", "idle", "failed"} \/ pc \notin {"open", "idle", "failed"},
           pc' # "hello" \/ UNCHANGED <<pc, srv, ring, reader>>
    PROVE  DataInv'
<1>1. \A r : DataRecord(r) => (r.key = <<conn', "app">> => r.seq < srv'.appSeq
            /\ (r.inner = "app" <=> \E i \in 1 .. Len(srv'.app) : srv'.app[i] = r.seq))
    BY DEF DataRecord, Listed
<1>2. \A r \in Flying \cup Foreign : DataRecord(r)
    BY ForeignData DEF DataInv
<1>3. (\A r \in Flying : DataRecord(r))'
    BY <1>1, <1>2 DEF DataRecord, Listed
<1>4. Ascending'
    BY DEF DataInv, Ascending
<1>5. Handed'
  <2>1. /\ Len(got') <= Len(srv'.app)
        /\ \A i \in 1 .. Len(got') : got'[i] = srv'.app[i]
    BY DEF DataInv, Handed
  <2>2. pc' \notin {"open", "idle", "failed"} => got' = <<>>
    BY DEF DataInv, Handed
  <2>3. pc' = "open" => /\ tls_read_seq' <= srv'.appSeq
                        /\ \A i \in 1 .. Len(srv'.app) : srv'.app[i] < tls_read_seq' <=> i <= Len(got')
    BY DEF DataInv, Handed
  <2> QED BY <2>1, <2>2, <2>3 DEF Handed
<1>6. Clean'
    BY DEF DataInv, Clean
<1> QED BY <1>3, <1>4, <1>5, <1>6 DEF DataInv

LEMMA DataServer ==
    ASSUME TypeOK, DataInv, Server
    PROVE  DataInv'
<1>0. UNCHANGED client /\ Serving
    BY DEF Server, ServerHello, ServerQueue, ServerFlush, ServerData
<1>1. UNCHANGED <<pc, conn, got, tls_read_seq, reader>>
    BY <1>0 DEF client, session
<1>2. pc # "hello"
    BY <1>0 DEF DataInv, Clean, Serving, NoServer
<1>3. ASSUME NEW r \in Record, r.key[2] # "app", ring' = ring \o Units(r), srv'.last = r,
             srv'.app = srv.app, srv'.appSeq = srv.appSeq
      PROVE  DataInv'
  <2>1. Flying' \subseteq Flying \cup {r}
    BY <1>1, <1>3, FlightUnits, DataTypes DEF Flying
  <2>2. DataRecord(r)
    BY <1>3 DEF DataRecord
  <2>3. \A x : DataRecord(x) => DataRecord(x)'
    BY <1>1, <1>3 DEF DataRecord, Listed
  <2>4. (\A x \in Flying : DataRecord(x))'
    BY <2>1, <2>2, <2>3 DEF DataInv
  <2>5. Ascending'
    BY <1>3 DEF DataInv, Ascending
  <2>6. Handed'
    BY <1>1, <1>3 DEF DataInv, Handed
  <2>7. Clean'
    BY <1>1, <1>2 DEF Clean
  <2> QED BY <2>4, <2>5, <2>6, <2>7 DEF DataInv
<1>4. CASE ServerHello
  <2>1. PICK m \in {Plain("sh", conn)} \cup (IF Honest THEN {} ELSE {Plain("sh", 0), Plain("ee", conn)}) :
            LET r == PlainRecord("hs", <<[m |-> m, part |-> "whole"]>>) IN
            /\ srv' = [srv EXCEPT !.tr = Append(@, ItemOf(m)), !.last = r]
            /\ ring' = ring \o Units(r)
    BY <1>4 DEF ServerHello
  <2> DEFINE f == <<[m |-> m, part |-> "whole"]>>
             r == PlainRecord("hs", f)
  <2>2. m \in Msg
    BY DataTypes, Constants, PlainType DEF HsTypes
  <2>3. f \in Seq(Frag)
    BY <2>2 DEF Frag
  <2>4. srv' = [srv EXCEPT !.tr = Append(@, ItemOf(m)), !.last = r] /\ ring' = ring \o Units(r)
    BY <2>1
  <2> HIDE DEF f
  <2>5. r \in Record /\ r.key = NoEpoch
    BY <2>3, RecordType DEF PlainRecord
  <2> HIDE DEF r
  <2>6. srv'.last = r /\ srv'.app = srv.app /\ srv'.appSeq = srv.appSeq
    BY <2>4, DataTypes DEF SrvType
  <2> QED BY <1>3, <2>4, <2>5, <2>6 DEF NoEpoch
<1>5. CASE ServerQueue
  <2>1. ring' = ring /\ srv'.app = srv.app /\ srv'.appSeq = srv.appSeq /\ srv'.last = srv.last
    BY <1>5, DataTypes DEF ServerQueue, SrvType
  <2>2. Flying' = Flying
    BY <1>1, <2>1 DEF Flying
  <2> QED BY <1>1, <1>2, <2>1, <2>2, DataKeeps, SMTT(30)
<1>6. CASE ServerFlush
  <2> DEFINE r == [outer |-> "app", key |-> <<conn, "hs">>, seq |-> srv.hsSeq, inner |-> "hs",
                   frags |-> srv.out]
  <2>1. srv' = [srv EXCEPT !.out = <<>>, !.hsSeq = @ + 1, !.last = r] /\ ring' = ring \o Units(r)
    BY <1>6 DEF ServerFlush
  <2>2. r \in Record /\ r.key[2] # "app"
    BY DataTypes DEF SrvType, Record, Epochs
  <2> HIDE DEF r
  <2>3. srv'.last = r /\ srv'.app = srv.app /\ srv'.appSeq = srv.appSeq
    BY <2>1, DataTypes DEF SrvType
  <2> QED BY <1>3, <2>1, <2>2, <2>3
<1>7. CASE ServerData
  <2>1. PICK k \in {"hs", "app", "alert"} :
            LET r == [outer |-> "app", key |-> <<conn, "app">>, seq |-> srv.appSeq, inner |-> k,
                      frags |-> <<>>] IN
            /\ srv' = [srv EXCEPT !.appSeq = @ + 1, !.last = r,
                                  !.app = IF k = "app" THEN Append(@, srv.appSeq) ELSE @]
            /\ ring' = ring \o Units(r)
    BY <1>7 DEF ServerData
  <2> DEFINE r == [outer |-> "app", key |-> <<conn, "app">>, seq |-> srv.appSeq, inner |-> k,
                   frags |-> <<>>]
             q == srv.appSeq
             a == srv.app
  <2>2. /\ srv' = [srv EXCEPT !.appSeq = @ + 1, !.last = r,
                              !.app = IF k = "app" THEN Append(@, srv.appSeq) ELSE @]
        /\ ring' = ring \o Units(r)
    BY <2>1
  <2>3. r \in Record /\ r.key = <<conn, "app">> /\ r.seq = q /\ r.inner = k
    BY DataTypes DEF Record, Epochs
  <2> HIDE DEF r
  <2>4. srv'.last = r /\ srv'.appSeq = q + 1 /\ srv'.app = IF k = "app" THEN Append(a, q) ELSE a
    BY <2>2, DataTypes DEF SrvType
  <2>5. /\ a \in Seq(Nat) /\ q \in Nat /\ Len(a) \in Nat /\ \A i \in 1 .. Len(a) : a[i] \in Nat
        /\ \A i \in 1 .. Len(a) : a[i] < q
        /\ \A i, j \in 1 .. Len(a) : i < j => a[i] < a[j]
    BY DataTypes DEF DataInv, Ascending
  <2>6. /\ Len(srv'.app) = IF k = "app" THEN Len(a) + 1 ELSE Len(a)
        /\ \A i \in 1 .. Len(a) : srv'.app[i] = a[i]
        /\ k = "app" => srv'.app[Len(a) + 1] = q
    BY <2>4, <2>5
  <2>7. Flying' \subseteq Flying \cup {r}
    BY <1>1, <2>2, <2>3, <2>4, FlightUnits, DataTypes DEF Flying
  <2> HIDE DEF q, a
  <2>8. \A i \in 1 .. Len(srv'.app) : i \in 1 .. Len(a) \/ (k = "app" /\ i = Len(a) + 1)
    BY <2>5, <2>6
  <2>9. Ascending'
    BY <2>4, <2>5, <2>6, <2>8 DEF Ascending
  <2>10. \A n \in Nat : n < q => (Listed(n)' <=> Listed(n))
    <3> TAKE n \in Nat
    <3>1. SUFFICES ASSUME n < q PROVE Listed(n)' <=> Listed(n)
      OBVIOUS
    <3>2. Listed(n) => Listed(n)'
      <4>1. \A i \in 1 .. Len(a) : i \in 1 .. Len(srv'.app)
        BY <2>5, <2>6
      <4> QED BY <2>6, <4>1 DEF Listed, a
    <3>3. Listed(n)' => Listed(n)
      BY <2>5, <2>6, <2>8, <3>1, SMTT(30) DEF Listed, a
    <3> QED BY <3>2, <3>3
  <2>11. (\E i \in 1 .. Len(srv'.app) : srv'.app[i] = q) <=> k = "app"
    <3>1. k = "app" => Len(a) + 1 \in 1 .. Len(srv'.app)
      BY <2>5, <2>6
    <3>2. \A i \in 1 .. Len(a) : a[i] # q
      BY <2>5
    <3> QED BY <2>5, <2>6, <2>8, <3>1, <3>2
  <2>12. ASSUME NEW x \in Flying' PROVE DataRecord(x)'
    <3>1. CASE x = r
      BY <1>1, <2>3, <2>4, <2>5, <2>11, <3>1 DEF DataRecord, Listed
    <3>2. CASE x \in Flying
      <4>1. DataRecord(x)
        BY <3>2 DEF DataInv
      <4>2. x \in Record
        <5>1. \A i \in 1 .. Len(ring) : ring[i] \in Unit
          BY DataTypes
        <5>2. InFlight(ring) \subseteq Record
          BY <5>1 DEF InFlight, Unit
        <5> QED BY <3>2, <5>2, DataTypes DEF Flying
      <4>3. x.seq \in Nat
        BY <4>2 DEF Record
      <4>4. CASE x.key = <<conn, "app">>
        <5>1. x.seq < q /\ (x.inner = "app" <=> Listed(x.seq))
          BY <4>1, <4>4 DEF DataRecord, q
        <5>2. x.seq < q + 1
          BY <2>5, <4>3, <5>1
        <5>3. Listed(x.seq)' <=> Listed(x.seq)
          BY <2>10, <4>3, <5>1
        <5> QED BY <2>4, <5>1, <5>2, <5>3 DEF DataRecord, Listed
      <4>5. CASE x.key # <<conn, "app">>
        BY <1>1, <4>5 DEF DataRecord
      <4> QED BY <4>4, <4>5
    <3> QED BY <2>7, <2>12, <3>1, <3>2
  <2>13. Handed'
    <3>0. /\ Len(got) \in Nat /\ Len(got) <= Len(a) /\ \A i \in 1 .. Len(got) : got[i] = a[i]
          /\ tls_read_seq \in Nat
          /\ pc \notin {"open", "idle", "failed"} => got = <<>>
          /\ pc = "open" => /\ tls_read_seq <= q
                            /\ \A i \in 1 .. Len(a) : a[i] < tls_read_seq <=> i <= Len(got)
      BY DataTypes DEF DataInv, Handed, a, q
    <3>1. Len(got) <= Len(srv'.app) /\ \A i \in 1 .. Len(got) : got[i] = srv'.app[i]
      BY <2>5, <2>6, <3>0
    <3>2. pc = "open" => tls_read_seq <= q + 1
      BY <2>5, <3>0
    <3>3. pc = "open" => \A i \in 1 .. Len(srv'.app) : srv'.app[i] < tls_read_seq <=> i <= Len(got)
      <4> SUFFICES ASSUME pc = "open", NEW i \in 1 .. Len(srv'.app)
                   PROVE  srv'.app[i] < tls_read_seq <=> i <= Len(got)
        OBVIOUS
      <4>1. CASE i \in 1 .. Len(a)
        BY <2>6, <3>0, <4>1
      <4>2. CASE k = "app" /\ i = Len(a) + 1
        BY <2>5, <2>6, <3>0, <4>2
      <4> QED BY <2>8, <4>1, <4>2
    <3> QED BY <1>1, <2>4, <3>0, <3>1, <3>2, <3>3 DEF Handed
  <2>14. Clean'
    BY <1>1, <1>2 DEF Clean
  <2> QED BY <2>9, <2>12, <2>13, <2>14 DEF DataInv
<1> QED BY <1>4, <1>5, <1>6, <1>7 DEF Server

\* tls_recv opens only the record whose number is next: the next one on the list,
\* or one that is not on it.
LEMMA DataRecv ==
    ASSUME TypeOK, HandshakeInv, DataInv, TlsRecv
    PROVE  DataInv'
<1> DEFINE q == tls_read_seq
           a == srv.app
           n == Len(got)
<1>1. /\ pc = "open" /\ tls_state = CONNECTED /\ Opens(Arrived) /\ tls_read_seq' = q + 1
      /\ got' = (IF Arrived.inner = "app" THEN Append(got, q) ELSE got)
      /\ UNCHANGED <<pc, conn, srv>>
    BY DEF TlsRecv, Complete, Receiving, session
<1>2. keys.app = conn
    BY <1>1 DEF HandshakeInv, PlaceInv
<1>3. Arrived.key = <<conn, "app">> /\ Arrived.seq = q
    BY <1>1, <1>2, StateNumbers DEF Opens, Select
<1>4. Arrived = reader
    BY <1>3, DataTypes DEF Arrived, Spoilt, NoEpoch, Record
<1>5. q < srv.appSeq /\ (Arrived.inner = "app" <=> Listed(q))
    BY <1>3, <1>4 DEF DataInv, Flying, DataRecord
<1>6. /\ a \in Seq(Nat) /\ Len(a) \in Nat /\ q \in Nat /\ n \in Nat /\ got \in Seq(Nat)
      /\ \A i \in 1 .. Len(a) : a[i] \in Nat
      /\ \A i, j \in 1 .. Len(a) : i < j => a[i] < a[j]
      /\ n <= Len(a) /\ \A i \in 1 .. n : got[i] = a[i]
      /\ \A i \in 1 .. Len(a) : a[i] < q <=> i <= n
      /\ srv.appSeq \in Nat
    BY <1>1, DataTypes DEF DataInv, Ascending, Handed
<1>7. (\A x \in Flying : DataRecord(x))'
  <2>1. Flying' \subseteq Flying \cup {NoRecord}
    BY FlyingReceive DEF Receive
  <2>2. \A x : DataRecord(x) => DataRecord(x)'
    BY <1>1 DEF DataRecord, Listed
  <2>3. DataRecord(NoRecord)
    BY ForeignRecords, ForeignData
  <2> QED BY <2>1, <2>2, <2>3 DEF DataInv
<1>8. Ascending' /\ Clean'
    BY <1>1 DEF DataInv, Ascending, Clean
<1> HIDE DEF q, a, n
<1>9. Handed'
  <2>1. tls_read_seq' <= srv'.appSeq
    BY <1>1, <1>5, <1>6
  <2>2. CASE Arrived.inner = "app"
    <3>1. PICK k \in 1 .. Len(a) : a[k] = q
      BY <1>5, <2>2 DEF Listed, a
    <3>2. k > n
      BY <1>6, <3>1
    <3>3. k = n + 1
      <4>1. SUFFICES ASSUME k > n + 1 PROVE FALSE
        BY <1>6, <3>1, <3>2
      <4>2. n + 1 \in 1 .. Len(a) /\ n + 1 < k
        BY <1>6, <3>1, <4>1
      <4>3. a[n + 1] < q
        BY <1>6, <3>1, <4>2
      <4> QED BY <1>6, <4>2, <4>3
    <3>4. got' = Append(got, q)
      BY <1>1, <2>2
    <3>5. /\ Len(got') = n + 1 /\ got'[n + 1] = q
          /\ \A i \in 1 .. n : got'[i] = got[i]
      BY <1>6, <3>4 DEF n
    <3>6. n + 1 <= Len(a) /\ \A i \in 1 .. n + 1 : got'[i] = a[i]
      BY <1>6, <3>1, <3>3, <3>5, SMTT(30)
    <3>7. \A i \in 1 .. Len(a) : a[i] < q + 1 <=> i <= n + 1
      <4> TAKE i \in 1 .. Len(a)
      <4>1. CASE i <= n
        BY <1>6, <4>1, SMTT(30)
      <4>2. CASE i = n + 1
        BY <1>6, <3>1, <3>3, <4>2
      <4>3. CASE i > n + 1
        <5>1. q < a[i]
          BY <1>6, <3>1, <3>3, <4>3
        <5> QED BY <1>6, <4>3, <5>1
      <4> QED BY <1>6, <4>1, <4>2, <4>3
    <3> QED BY <1>1, <2>1, <3>5, <3>6, <3>7 DEF Handed, a, q
  <2>3. CASE Arrived.inner # "app"
    <3>1. got' = got
      BY <1>1, <2>3
    <3>2. \A i \in 1 .. Len(a) : a[i] # q
      BY <1>5, <2>3 DEF Listed, a
    <3>3. \A i \in 1 .. Len(a) : a[i] < q + 1 <=> a[i] < q
      BY <1>6, <3>2
    <3>4. \A i \in 1 .. Len(a) : a[i] < q + 1 <=> i <= n
      BY <1>6, <3>3
    <3> QED BY <1>1, <1>6, <2>1, <3>1, <3>4 DEF Handed, a, n, q
  <2> QED BY <2>2, <2>3
<1> QED BY <1>7, <1>8, <1>9 DEF DataInv

\* Nothing of an earlier connection is under way when the hello is sent.
LEMMA DataConnect ==
    ASSUME TypeOK, DataInv, TlsConnect \/ SendClientHello
    PROVE  DataInv'
<1>1. CASE TlsConnect
  <2>1. pc' = "hello" /\ ring' = <<>> /\ reader' = NoRecord /\ srv' = NoServer /\ got' = <<>>
    BY <1>1 DEF TlsConnect, DropStream
  <2>2. Flying' \subseteq {NoRecord}
    BY <2>1 DEF Flying, InFlight, NoServer
  <2>3. DataRecord(NoRecord)'
    BY DEF DataRecord, NoRecord, PlainRecord, NoEpoch
  <2>4. srv'.app = <<>> /\ srv'.appSeq = 0
    BY <2>1 DEF NoServer
  <2>5. Ascending' /\ Handed' /\ Clean'
    BY <2>1, <2>4 DEF Ascending, Handed, Clean
  <2>6. (\A x \in Flying : DataRecord(x))'
    BY <2>2, <2>3
  <2> QED BY <2>5, <2>6 DEF DataInv
<1>2. CASE SendClientHello
  <2>1. /\ pc = "hello" /\ UNCHANGED <<ring, reader, got, conn, tls_read_seq>>
        /\ pc' \in {"server_hello", "failed"}
        /\ srv' = srv \/ srv' = [NoServer EXCEPT !.on = TRUE, !.tr = transcript']
    BY <1>2 DEF SendClientHello, Fail
  <2>2. srv = NoServer
    BY <2>1 DEF DataInv, Clean
  <2>3. srv'.app = srv.app /\ srv'.appSeq = srv.appSeq /\ srv'.last = srv.last
    BY <2>1, <2>2 DEF NoServer
  <2>4. Flying' = Flying
    BY <2>1, <2>3 DEF Flying
  <2> QED BY <2>1, <2>3, <2>4, DataKeeps
<1> QED BY <1>1, <1>2

LEMMA DataStep ==
    ASSUME TypeOK, HandshakeInv, DataInv, [Next]_vars
    PROVE  DataInv'
<1>0. ASSUME UNCHANGED <<ring, reader, srv, conn, got>>,
             pc' # "open" \/ UNCHANGED <<pc, tls_read_seq>>,
             pc' \in {"open", "idle", "failed"} \/ pc \notin {"open", "idle", "failed"},
             pc' # "hello" \/ pc' = pc
      PROVE  DataInv'
  <2>1. Flying' = Flying
    BY <1>0 DEF Flying
  <2> QED BY <1>0, <2>1, DataKeeps
<1>1. CASE UNCHANGED vars
  <2>1. UNCHANGED <<ring, reader, srv, conn, got, pc, tls_read_seq>>
    BY <1>1 DEF vars, session, reading
  <2> QED BY <1>0, <2>1
<1>2. CASE Server
    BY <1>2, DataServer
<1>3. CASE Network
  <2>1. Flying' \subseteq Flying \cup Foreign /\ UNCHANGED <<srv, conn, reader>>
    BY <1>3, FlyingNetwork
  <2>2. UNCHANGED <<pc, got, tls_read_seq>> /\ Serving
    BY <1>3 DEF Network, client, session
  <2>3. pc # "hello"
    BY <2>2 DEF DataInv, Clean, Serving, NoServer
  <2> QED BY <2>1, <2>2, <2>3, DataKeeps
<1>4. CASE TlsRecv
    BY <1>4, DataRecv
<1>5. CASE Receive /\ ~TlsRecv
  <2>1. Flying' \subseteq Flying \cup Foreign /\ UNCHANGED <<srv, conn>>
    BY <1>5, FlyingReceive, ForeignRecords
  <2>2. Receiving /\ got' = got
    BY <1>5 DEF Receive, Incomplete, ReadHeader, BadHeader, SkipCcs, FrameError, AuthError,
                RecvServerHello, RecvEncrypted, Complete, stream
  <2>3. pc' \in {pc, "failed", "keys"} /\ (pc' = "keys" => pc = "server_hello")
    BY <1>5, <2>2 DEF Receive, Incomplete, ReadHeader, BadHeader, SkipCcs, FrameError, AuthError,
                RecvServerHello, RecvEncrypted, Receiving, FrameFail, Tick, Fail, session
  <2>4. pc' # "open" \/ UNCHANGED <<pc, tls_read_seq>>
    BY <1>5, <2>2, <2>3 DEF Receive, Incomplete, ReadHeader, BadHeader, SkipCcs, FrameError, AuthError,
                RecvServerHello, RecvEncrypted, Receiving, stream
  <2>5. pc # "hello" /\ pc \notin {"idle", "failed"}
    BY <2>2 DEF Receiving
  <2>6. pc' \in {"open", "idle", "failed"} \/ pc \notin {"open", "idle", "failed"}
    BY <2>3, <2>5
  <2>7. pc' # "hello"
    BY <2>3, <2>5
  <2> QED BY <2>1, <2>2, <2>4, <2>6, <2>7, DataKeeps
<1>6. CASE Pump
  <2>1. UNCHANGED <<ring, reader, srv, got>> /\ pc = "encrypted"
    BY <1>6 DEF Pump, PumpRefuse, PumpHeader, PumpRest, NewMessage, Pumping, pumped
  <2>2. conn' = conn /\ pc' \in {"encrypted", "finished", "failed"}
    BY <1>6, <2>1 DEF Pump, PumpRefuse, PumpHeader, PumpRest, Dispatch, Fail, session
  <2> QED BY <1>0, <2>1, <2>2
<1>7. CASE TlsConnect \/ SendClientHello
    BY <1>7, DataConnect
<1>8. CASE DeriveHandshakeKeys \/ SendFinished
  <2>1. /\ UNCHANGED <<ring, reader, srv, conn, got>> /\ pc \in {"keys", "finished"}
        /\ pc' \in {"encrypted", "traffic", "failed"}
    BY <1>8 DEF DeriveHandshakeKeys, SendFinished, reading, Fail
  <2> QED BY <1>0, <2>1
<1>9. CASE DeriveTrafficKeys
  <2>1. /\ pc = "traffic" /\ pc' = "open" /\ tls_read_seq' = 0
        /\ UNCHANGED <<ring, reader, srv, conn, got>>
    BY <1>9 DEF DeriveTrafficKeys, SeqReset
  <2>2. got = <<>>
    BY <2>1 DEF DataInv, Handed
  <2>3. Handed'
    <3>1. \A i \in 1 .. Len(srv.app) : ~(srv.app[i] < 0) /\ ~(i <= 0)
      BY DataTypes
    <3>2. 0 <= srv.appSeq /\ Len(got) = 0 /\ 0 <= Len(srv.app)
      BY <2>2, DataTypes
    <3> QED BY <2>1, <2>2, <3>1, <3>2 DEF Handed
  <2>4. Flying' = Flying
    BY <2>1 DEF Flying
  <2>5. (\A x \in Flying : DataRecord(x))' /\ Ascending' /\ Clean'
    BY <2>1, <2>4 DEF DataInv, DataRecord, Listed, Ascending, Clean
  <2> QED BY <2>3, <2>5 DEF DataInv
<1>10. CASE TlsSend \/ TlsClose
  <2>1. /\ UNCHANGED <<ring, reader, srv, conn, got, tls_read_seq>> /\ pc = "open"
        /\ pc' \in {pc, "idle"}
    BY <1>10 DEF TlsSend, TlsClose, reading, session
  <2> QED BY <1>0, <2>1
<1> QED BY <1>1, <1>2, <1>3, <1>4, <1>5, <1>6, <1>7, <1>8, <1>9, <1>10 DEF Next, Call, Proceed

LEMMA DataInitial == Init => DataInv
<1> SUFFICES ASSUME Init PROVE DataInv
    OBVIOUS
<1>1. pc = "idle" /\ ring = <<>> /\ reader = NoRecord /\ srv = NoServer /\ got = <<>>
    BY DEF Init
<1>2. Flying \subseteq {NoRecord}
    BY <1>1 DEF Flying, InFlight, NoServer
<1>3. DataRecord(NoRecord)
    BY DEF DataRecord, NoRecord, PlainRecord, NoEpoch
<1>4. srv.app = <<>> /\ srv.appSeq = 0
    BY <1>1 DEF NoServer
<1>5. Ascending /\ Handed /\ Clean
    BY <1>1, <1>4 DEF Ascending, Handed, Clean
<1> QED BY <1>2, <1>3, <1>5 DEF DataInv

\* Two sequences that agree up to n have the same beginning.
LEMMA SameStart ==
    ASSUME NEW S, NEW s \in Seq(S), NEW t \in Seq(S), NEW n \in Nat, n <= Len(s), n <= Len(t),
           \A i \in 1 .. n : s[i] = t[i]
    PROVE  SubSeq(s, 1, n) = SubSeq(t, 1, n)
<1>1. /\ SubSeq(s, 1, n) \in Seq(S) /\ SubSeq(t, 1, n) \in Seq(S)
      /\ Len(SubSeq(s, 1, n)) = n /\ Len(SubSeq(t, 1, n)) = n
      /\ \A i \in 1 .. n : SubSeq(s, 1, n)[i] = s[i] /\ SubSeq(t, 1, n)[i] = t[i]
    OBVIOUS
<1> QED BY <1>1

\* What tls_recv hands out is what the server sent, in its order, none missing in
\* between and none twice: over any records the network inserts, repeats or damages,
\* and whatever an earlier connection left behind.
THEOREM DataIntact == Spec => []AppDataIntact
<1>1. TypeOK /\ DataInv => AppDataIntact
  <2> SUFFICES ASSUME TypeOK, DataInv PROVE AppDataIntact
    OBVIOUS
  <2>1. /\ Len(got) <= Len(srv.app) /\ \A i \in 1 .. Len(got) : got[i] = srv.app[i]
        /\ srv.app \in Seq(Nat) /\ got \in Seq(Nat) /\ Len(got) \in Nat
    BY DataTypes DEF DataInv, Handed
  <2>2. SubSeq(got, 1, Len(got)) = SubSeq(srv.app, 1, Len(got))
    BY <2>1, SameStart
  <2>3. SubSeq(got, 1, Len(got)) = got
    BY <2>1
  <2> QED BY <2>1, <2>2, <2>3 DEF AppDataIntact
<1>2. TypeOK /\ HandshakeInv /\ DataInv /\ [Next]_vars => DataInv'
    BY DataStep
<1> QED BY <1>1, <1>2, DataInitial, TypeCorrect, HandshakeOrder, PTL DEF Spec
-----------------------------------------------------------------------------
(* Agreement on the handshake *)

\* The server whose transcript is tr has made the Finished m: over nothing, or over
\* its transcript up to the point at which it folded m.
KnownIn(m, tr) ==
    m.t = "fin" => \/ m.over = <<>>
                   \/ /\ Len(m.over) < Len(tr)
                      /\ \A i \in 1 .. Len(m.over) : m.over[i] = tr[i]
                      /\ tr[Len(m.over) + 1] = ItemOf(m)
FragsKnown(f, tr) == \A i \in 1 .. Len(f) : KnownIn(f[i].m, tr)

Agreed == Len(srv.tr) >= 6 /\ \A i \in 1 .. 6 : transcript[i] = srv.tr[i]
After == {"finished", "traffic", "open"}

AgreeInv ==
    /\ \A r \in Flying : FragsKnown(r.frags, srv.tr)
    /\ FragsKnown(srv.out, srv.tr) /\ KnownIn(srv.half, srv.tr)
    /\ pc = "encrypted" => FragsKnown(df.frags, srv.tr) /\ KnownIn(df.cur, srv.tr)
    /\ pc \in After => Agreed

LEMMA OneOnly ==
    ASSUME NEW n, n = 1
    PROVE  \A i \in 1 .. n : i = 1
OBVIOUS

LEMMA FiveAndOne ==
    ASSUME NEW n \in Nat, n + 1 = 6
    PROVE  n = 5
OBVIOUS

LEMMA LastOfAppend ==
    ASSUME NEW s \in Seq(Item), NEW x \in Item
    PROVE  Append(s, x)[Len(s) + 1] = x
OBVIOUS

LEMMA FlyingRecords ==
    ASSUME TypeOK
    PROVE  Flying \subseteq Record
<1>1. \A i \in 1 .. Len(ring) : ring[i] \in Unit
    BY DataTypes
<1>2. InFlight(ring) \subseteq Record
    BY <1>1 DEF InFlight, Unit
<1> QED BY <1>2, DataTypes DEF Flying

\* What the server made is not unmade by what it makes next.
LEMMA KnownGrows ==
    ASSUME NEW m \in Msg, NEW tr \in Seq(Item), NEW x \in Item, KnownIn(m, tr)
    PROVE  KnownIn(m, Append(tr, x))
<1>1. Len(m.over) \in Nat /\ Len(tr) \in Nat
    BY DEF Msg
<1>2. Len(Append(tr, x)) = Len(tr) + 1 /\ \A i \in 1 .. Len(tr) : Append(tr, x)[i] = tr[i]
    BY <1>1
<1> QED BY <1>1, <1>2 DEF KnownIn

LEMMA FragsGrow ==
    ASSUME NEW f \in Seq(Frag), NEW tr \in Seq(Item), NEW x \in Item, FragsKnown(f, tr)
    PROVE  FragsKnown(f, Append(tr, x))
<1>1. \A i \in 1 .. Len(f) : f[i].m \in Msg
  <2> TAKE i \in 1 .. Len(f)
  <2>1. f[i] \in Frag
    OBVIOUS
  <2> QED BY <2>1 DEF Frag
<1> QED BY <1>1, KnownGrows DEF FragsKnown

LEMMA FragsAppend ==
    ASSUME NEW f \in Seq(Frag), NEW g \in Frag, NEW tr, FragsKnown(f, tr), KnownIn(g.m, tr)
    PROVE  FragsKnown(Append(f, g), tr)
<1>1. /\ Len(Append(f, g)) = Len(f) + 1 /\ Append(f, g)[Len(f) + 1] = g /\ Len(f) \in Nat
      /\ \A i \in 1 .. Len(f) : Append(f, g)[i] = f[i]
    OBVIOUS
<1>2. \A i \in 1 .. Len(f) + 1 : i \in 1 .. Len(f) \/ i = Len(f) + 1
    BY <1>1
<1> QED BY <1>1, <1>2 DEF FragsKnown

LEMMA FragsTail ==
    ASSUME NEW f \in Seq(Frag), f # <<>>, NEW tr, FragsKnown(f, tr)
    PROVE  FragsKnown(Tail(f), tr) /\ KnownIn(Head(f).m, tr)
<1>1. /\ Len(f) \in Nat /\ 1 \in 1 .. Len(f) /\ Len(Tail(f)) = Len(f) - 1 /\ Head(f) = f[1]
      /\ \A i \in 1 .. Len(f) - 1 : Tail(f)[i] = f[i + 1] /\ i + 1 \in 1 .. Len(f)
    OBVIOUS
<1> QED BY <1>1 DEF FragsKnown

LEMMA ForeignKnown ==
    ASSUME NEW tr
    PROVE  /\ \A r \in Foreign : FragsKnown(r.frags, tr)
           /\ FragsKnown(<<>>, tr) /\ KnownIn(NoMsg, tr)
BY DEF Foreign, FragsKnown, KnownIn, NoMsg, Plain

LEMMA AgreeKeeps ==
    ASSUME AgreeInv, Flying' \subseteq Flying \cup Foreign, UNCHANGED srv,
           pc' # "encrypted" \/ UNCHANGED <<pc, df>>,
           pc' \notin After \/ (pc \in After /\ \A i \in 1 .. 6 : transcript'[i] = transcript[i])
    PROVE  AgreeInv'
<1>1. \A r \in Flying' : FragsKnown(r.frags, srv'.tr)
    BY ForeignKnown DEF AgreeInv
<1>2. FragsKnown(srv'.out, srv'.tr) /\ KnownIn(srv'.half, srv'.tr)
    BY DEF AgreeInv
<1>3. pc' = "encrypted" => FragsKnown(df'.frags, srv'.tr) /\ KnownIn(df'.cur, srv'.tr)
    BY DEF AgreeInv
<1>4. pc' \in After => Agreed'
    BY DEF AgreeInv, Agreed
<1> QED BY <1>1, <1>2, <1>3, <1>4 DEF AgreeInv

\* The server folds another message.
LEMMA AgreeExtends ==
    ASSUME TypeOK, AgreeInv, UNCHANGED client, NEW x \in Item, srv'.tr = Append(srv.tr, x),
           \A r \in Flying' : r \in Flying \/ FragsKnown(r.frags, srv'.tr),
           FragsKnown(srv'.out, srv'.tr), KnownIn(srv'.half, srv'.tr)
    PROVE  AgreeInv'
<1>0. UNCHANGED <<pc, df, transcript>>
    BY DEF client, session, secrets
<1>1. srv.tr \in Seq(Item) /\ df.frags \in Seq(Frag) /\ df.cur \in Msg
    BY DEF TypeOK, SrvType, ReadType, DfType
<1>2. \A r \in Flying' : FragsKnown(r.frags, srv'.tr)
  <2> TAKE r \in Flying'
  <2>1. CASE r \in Flying
    <3>1. r.frags \in Seq(Frag)
      BY <2>1, FlyingRecords DEF Record
    <3> QED BY <1>1, <2>1, <3>1, FragsGrow DEF AgreeInv
  <2> QED BY <2>1
<1>3. pc' = "encrypted" => FragsKnown(df'.frags, srv'.tr) /\ KnownIn(df'.cur, srv'.tr)
    BY <1>0, <1>1, FragsGrow, KnownGrows DEF AgreeInv
<1>4. pc' \in After => Agreed'
  <2>1. /\ Len(srv.tr) \in Nat /\ Len(srv'.tr) = Len(srv.tr) + 1
        /\ \A i \in 1 .. Len(srv.tr) : srv'.tr[i] = srv.tr[i]
    BY <1>1
  <2> QED BY <1>0, <2>1 DEF AgreeInv, Agreed
<1> QED BY <1>2, <1>3, <1>4 DEF AgreeInv

LEMMA AgreeServer ==
    ASSUME TypeOK, AgreeInv, Server
    PROVE  AgreeInv'
<1>0. UNCHANGED client
    BY DEF Server, ServerHello, ServerQueue, ServerFlush, ServerData
<1>1. UNCHANGED <<pc, df, transcript, reader>>
    BY <1>0 DEF client, session, secrets
<1>2. /\ srv \in SrvType /\ srv.tr \in Seq(Item) /\ srv.out \in Seq(Frag) /\ srv.half \in Msg
      /\ conn \in Conns /\ ring \in Seq(Unit) /\ Len(srv.tr) \in Nat
    BY DEF TypeOK, SrvType, SessionType, ReadType
<1>3. CASE ServerHello
  <2>1. PICK m \in {Plain("sh", conn)} \cup (IF Honest THEN {} ELSE {Plain("sh", 0), Plain("ee", conn)}) :
            LET r == PlainRecord("hs", <<[m |-> m, part |-> "whole"]>>) IN
            /\ srv' = [srv EXCEPT !.tr = Append(@, ItemOf(m)), !.last = r]
            /\ ring' = ring \o Units(r)
    BY <1>3 DEF ServerHello
  <2> DEFINE f == <<[m |-> m, part |-> "whole"]>>
             r == PlainRecord("hs", f)
  <2>2. m \in Msg /\ m.t # "fin"
    <3>1. m \in Msg
      BY <1>2, Constants, PlainType DEF HsTypes
    <3> QED BY <3>1 DEF Plain
  <2>3. f \in Seq(Frag) /\ Len(f) = 1 /\ f[1].m = m
    BY <2>2 DEF Frag
  <2>4. srv' = [srv EXCEPT !.tr = Append(@, ItemOf(m)), !.last = r] /\ ring' = ring \o Units(r)
    BY <2>1
  <2>5. ItemOf(m) \in Item
    BY <2>2, ItemType
  <2> HIDE DEF f
  <2>6. r \in Record /\ r.frags = f
    BY <2>3, RecordType DEF PlainRecord
  <2> HIDE DEF r
  <2>7. /\ srv'.last = r /\ srv'.tr = Append(srv.tr, ItemOf(m))
        /\ srv'.out = srv.out /\ srv'.half = srv.half
    BY <1>2, <2>4 DEF SrvType
  <2>8. FragsKnown(r.frags, srv'.tr)
    <3>0. Len(r.frags) = 1
      BY <2>3, <2>6
    <3>1. \A i \in 1 .. Len(r.frags) : i = 1
      BY <3>0, OneOnly
    <3>2. r.frags[1].m = m
      BY <2>3, <2>6
    <3>3. KnownIn(m, srv'.tr)
      BY <2>2 DEF KnownIn
    <3> QED BY <3>1, <3>2, <3>3 DEF FragsKnown
  <2>9. Flying' \subseteq Flying \cup {r}
    BY <1>1, <1>2, <2>4, <2>6, <2>7, FlightUnits DEF Flying
  <2>10. FragsKnown(srv'.out, srv'.tr) /\ KnownIn(srv'.half, srv'.tr)
    BY <1>2, <2>5, <2>7, FragsGrow, KnownGrows DEF AgreeInv
  <2> QED BY <1>0, <2>5, <2>7, <2>8, <2>9, <2>10, AgreeExtends
<1>4. CASE ServerQueue /\ srv.half = NoMsg
  <2>1. PICK m \in Offers, p \in {"whole", "first"} :
                srv' = [srv EXCEPT !.tr = Append(@, ItemOf(m)), !.half = IF p = "first" THEN m ELSE NoMsg,
                                   !.out = Append(@, [m |-> m, part |-> p])]
    BY <1>4 DEF ServerQueue
  <2>2. m \in Msg /\ (m.t = "fin" => m.over \in {srv.tr, <<>>})
    <3>1. PICK t \in {"ee", "cert", "cv", "fin", "nst"}, k \in Keys \cup {NoKey}, n \in BOOLEAN,
               o \in {srv.tr, <<>>} : m = Message(t, k, n, o)
      BY DEF Offers
    <3>2. <<>> \in Seq(Item)
      OBVIOUS
    <3>3. t \in HsTypes /\ o \in Seq(Item)
      BY <1>2, <3>2 DEF HsTypes
    <3> QED BY <1>2, <3>1, <3>3 DEF Message, Msg
  <2> DEFINE g == [m |-> m, part |-> p]
  <2>3. g \in Frag /\ g.m = m /\ ItemOf(m) \in Item
    BY <2>2, ItemType DEF Frag
  <2>4. /\ srv'.last = srv.last /\ srv'.tr = Append(srv.tr, ItemOf(m))
        /\ srv'.out = Append(srv.out, g) /\ srv'.half \in {m, NoMsg} /\ ring' = ring
    BY <1>2, <1>4, <2>1 DEF SrvType, ServerQueue
  <2> HIDE DEF g
  <2>5. KnownIn(m, srv'.tr)
    <3>1. SUFFICES ASSUME m.t = "fin", m.over = srv.tr PROVE KnownIn(m, srv'.tr)
      BY <2>2 DEF KnownIn
    <3>2. /\ Len(srv'.tr) = Len(srv.tr) + 1 /\ srv'.tr[Len(srv.tr) + 1] = ItemOf(m)
          /\ \A i \in 1 .. Len(srv.tr) : srv'.tr[i] = srv.tr[i]
      BY <1>2, <2>3, <2>4
    <3>3. Len(srv.tr) < Len(srv.tr) + 1
      BY <1>2
    <3> QED BY <3>1, <3>2, <3>3 DEF KnownIn
  <2>6. FragsKnown(srv.out, srv'.tr)
    BY <1>2, <2>3, <2>4, FragsGrow DEF AgreeInv
  <2>7. FragsKnown(srv'.out, srv'.tr)
    BY <1>2, <2>3, <2>4, <2>5, <2>6, FragsAppend
  <2>8. KnownIn(srv'.half, srv'.tr)
    BY <2>4, <2>5, ForeignKnown
  <2>9. Flying' = Flying
    BY <1>1, <2>4 DEF Flying
  <2> QED BY <1>0, <2>3, <2>4, <2>7, <2>8, <2>9, AgreeExtends, SMTT(30)
<1>5. CASE ServerQueue /\ srv.half # NoMsg
  <2> DEFINE g == [m |-> srv.half, part |-> "last"]
  <2>1. srv' = [srv EXCEPT !.out = Append(@, g), !.half = NoMsg] /\ ring' = ring
    BY <1>5 DEF ServerQueue
  <2>2. g \in Frag /\ g.m = srv.half
    BY <1>2 DEF Frag
  <2> HIDE DEF g
  <2>3. /\ srv'.last = srv.last /\ srv'.tr = srv.tr /\ srv'.out = Append(srv.out, g)
        /\ srv'.half = NoMsg
    BY <1>2, <2>1 DEF SrvType
  <2>4. FragsKnown(srv'.out, srv'.tr) /\ KnownIn(srv'.half, srv'.tr)
    BY <1>2, <2>2, <2>3, FragsAppend, ForeignKnown DEF AgreeInv
  <2>5. Flying' = Flying
    BY <1>1, <2>1, <2>3 DEF Flying
  <2> QED BY <1>1, <2>3, <2>4, <2>5 DEF AgreeInv, Agreed
<1>6. CASE ServerFlush \/ ServerData
  <2>1. PICK r \in Record : /\ ring' = ring \o Units(r) /\ srv'.last = r /\ srv'.tr = srv.tr
                            /\ srv'.half = srv.half /\ srv'.out \in {srv.out, <<>>}
                            /\ r.frags \in {srv.out, <<>>}
    <3>1. CASE ServerFlush
      <4> DEFINE r == [outer |-> "app", key |-> <<conn, "hs">>, seq |-> srv.hsSeq, inner |-> "hs",
                       frags |-> srv.out]
      <4>1. srv' = [srv EXCEPT !.out = <<>>, !.hsSeq = @ + 1, !.last = r] /\ ring' = ring \o Units(r)
        BY <3>1 DEF ServerFlush
      <4>2. r \in Record /\ r.frags = srv.out
        BY <1>2 DEF SrvType, Record, Epochs
      <4> HIDE DEF r
      <4>3. srv'.last = r /\ srv'.tr = srv.tr /\ srv'.half = srv.half /\ srv'.out = <<>>
        BY <1>2, <4>1 DEF SrvType
      <4> QED BY <4>1, <4>2, <4>3
    <3>2. CASE ServerData
      <4>1. PICK k \in {"hs", "app", "alert"} :
            LET r == [outer |-> "app", key |-> <<conn, "app">>, seq |-> srv.appSeq, inner |-> k,
                      frags |-> <<>>] IN
            /\ srv' = [srv EXCEPT !.appSeq = @ + 1, !.last = r,
                                  !.app = IF k = "app" THEN Append(@, srv.appSeq) ELSE @]
            /\ ring' = ring \o Units(r)
        BY <3>2 DEF ServerData
      <4> DEFINE r == [outer |-> "app", key |-> <<conn, "app">>, seq |-> srv.appSeq, inner |-> k,
                       frags |-> <<>>]
      <4>2. r \in Record /\ r.frags = <<>>
        BY <1>2 DEF SrvType, Record, Epochs
      <4>3. /\ srv' = [srv EXCEPT !.appSeq = @ + 1, !.last = r,
                                  !.app = IF k = "app" THEN Append(@, srv.appSeq) ELSE @]
            /\ ring' = ring \o Units(r)
        BY <4>1
      <4> HIDE DEF r
      <4>4. srv'.last = r /\ srv'.tr = srv.tr /\ srv'.half = srv.half /\ srv'.out = srv.out
        BY <1>2, <4>3 DEF SrvType
      <4> QED BY <4>2, <4>3, <4>4
    <3> QED BY <1>6, <3>1, <3>2
  <2>2. FragsKnown(r.frags, srv.tr) /\ FragsKnown(srv'.out, srv.tr)
    BY <2>1, ForeignKnown DEF AgreeInv
  <2>3. Flying' \subseteq Flying \cup {r}
    BY <1>1, <1>2, <2>1, FlightUnits DEF Flying
  <2>4. \A x \in Flying' : FragsKnown(x.frags, srv'.tr)
    BY <2>1, <2>2, <2>3 DEF AgreeInv
  <2> QED BY <1>1, <2>1, <2>2, <2>4 DEF AgreeInv, Agreed
<1> QED BY <1>3, <1>4, <1>5, <1>6 DEF Server

\* The Finished that is accepted is over the client's own transcript, so the
\* server had folded the same five messages before it, and it after them.
LEMMA FinishedAgrees ==
    ASSUME TypeOK, NEW m \in Msg, NEW h \in Seq(Item), m.t = "fin", KnownIn(m, srv.tr),
           FinishedHolds(m, h), Len(h) = 5, transcript' = Append(h, ItemOf(m)), srv' = srv
    PROVE  Agreed'
<1>1. m.over = h /\ h # <<>>
    BY DEF FinishedHolds
<1>2. 5 < Len(srv.tr) /\ (\A i \in 1 .. 5 : h[i] = srv.tr[i]) /\ srv.tr[6] = ItemOf(m)
  <2>1. /\ Len(h) < Len(srv.tr) /\ (\A i \in 1 .. Len(h) : h[i] = srv.tr[i])
        /\ srv.tr[Len(h) + 1] = ItemOf(m)
    BY <1>1 DEF KnownIn
  <2>2. Len(h) + 1 = 6
    OBVIOUS
  <2> QED BY <2>1, <2>2
<1>3. (\A i \in 1 .. 5 : transcript'[i] = h[i]) /\ transcript'[6] = ItemOf(m)
  <2> DEFINE x == ItemOf(m)
  <2>1. x \in Item /\ transcript' = Append(h, x)
    BY ItemType
  <2> HIDE DEF x
  <2>2. \A i \in 1 .. 5 : Append(h, x)[i] = h[i]
    BY <2>1
  <2>3. Append(h, x)[6] = x
    <3>1. Append(h, x)[Len(h) + 1] = x
      BY <2>1, LastOfAppend
    <3>2. Len(h) + 1 = 6
      OBVIOUS
    <3> QED BY <3>1, <3>2
  <2>4. transcript'[6] = x
    BY <2>1, <2>3
  <2> QED BY <2>1, <2>2, <2>4 DEF x
<1>4. Len(srv.tr) \in Nat
    BY DEF TypeOK, SrvType
<1>5. \A i \in 1 .. 6 : i \in 1 .. 5 \/ i = 6
    OBVIOUS
<1>6. \A i \in 1 .. 6 : transcript'[i] = srv.tr[i]
    BY <1>2, <1>3, <1>5
<1>7. Len(srv.tr) >= 6
    BY <1>2, <1>4
<1> QED BY <1>6, <1>7 DEF Agreed

LEMMA AgreePump ==
    ASSUME TypeOK, HandshakeInv, AgreeInv, Pump
    PROVE  AgreeInv'
<1>0. /\ pc = "encrypted" /\ df.frags # <<>> /\ EncryptedInv
      /\ FragsKnown(df.frags, srv.tr) /\ KnownIn(df.cur, srv.tr)
      /\ UNCHANGED <<ring, reader, srv>>
    BY DEF Pump, PumpRefuse, PumpHeader, PumpRest, NewMessage, Pumping, pumped, HandshakeInv,
           PlaceInv, AgreeInv
<1>1. df \in DfType /\ df.frags \in Seq(Frag) /\ df.cur \in Msg /\ transcript \in Seq(Item)
      /\ tls_transcript \in Seq(Item)
    BY DEF TypeOK, ReadType, DfType, SecretType
<1>2. NextFrag.m \in Msg /\ KnownIn(NextFrag.m, srv.tr) /\ FragsKnown(Tail(df.frags), srv.tr)
  <2>1. NextFrag \in Frag
    BY <1>0, <1>1, HeadTailProperties DEF NextFrag
  <2> QED BY <1>0, <1>1, <2>1, FragsTail DEF NextFrag, Frag
<1>3. FragsKnown(df'.frags, srv.tr) /\ KnownIn(df'.cur, srv.tr)
  <2>1. /\ df'.frags \in {df.frags, Tail(df.frags)}
        /\ df'.cur \in {df.cur, NextFrag.m, NoMsg}
    BY <1>1 DEF Pump, PumpRefuse, PumpHeader, PumpRest, DfType
  <2> QED BY <1>0, <1>2, <2>1, ForeignKnown
<1>4. Flying' = Flying
    BY <1>0 DEF Flying
<1>5. ASSUME NEW m \in Msg, NEW h \in Seq(Item), Dispatch(m, h), Gate(m.t), KnownIn(m, srv.tr),
             tls_state = 6 => Len(h) = 5, transcript' = Append(h, ItemOf(m))
      PROVE  pc' \in After => Agreed'
  <2>1. SUFFICES ASSUME pc' \in After PROVE Agreed'
    OBVIOUS
  <2>2. Handler(m, h) /\ tls_state = 6
    BY <1>0, <1>5, <2>1, StateNumbers DEF Dispatch, Fail, After
  <2>3. m.t = "fin"
    BY <1>5, <2>2, StateNumbers DEF Gate, Allowed
  <2>4. FinishedHolds(m, h)
    BY <2>2, <2>3 DEF Handler
  <2> QED BY <1>0, <1>5, <2>2, <2>3, <2>4, FinishedAgrees
<1>6. pc' \in After => Agreed'
  <2>1. CASE PumpRefuse
    BY <1>0, <2>1 DEF PumpRefuse, Fail, After
  <2>2. CASE PumpHeader /\ NextFrag.part = "whole"
    <3>1. /\ Dispatch(NextFrag.m, transcript) /\ Gate(NextFrag.m.t) /\ df.cur = NoMsg
          /\ transcript' = Append(transcript, ItemOf(NextFrag.m))
      BY <2>2 DEF PumpHeader, NewMessage
    <3>2. tls_state = 6 => Len(transcript) = 5
      BY <1>0, <3>1 DEF EncryptedInv, InOrder
    <3> QED BY <1>1, <1>2, <1>5, <3>1, <3>2
  <2>3. CASE PumpHeader /\ NextFrag.part # "whole"
    BY <1>0, <2>3 DEF PumpHeader, session, After
  <2>4. CASE PumpRest
    <3>1. /\ Dispatch(df.cur, tls_transcript) /\ df.cur # NoMsg /\ transcript' = transcript
      BY <2>4 DEF PumpRest
    <3>2. /\ Gate(df.cur.t) /\ InOrder(transcript, tls_state)
          /\ transcript = Append(tls_transcript, ItemOf(df.cur))
      BY <1>0, <3>1 DEF EncryptedInv
    <3>3. tls_state = 6 => Len(tls_transcript) = 5
      <4>1. ItemOf(df.cur) \in Item
        BY <1>1, ItemType
      <4>2. Len(transcript) = Len(tls_transcript) + 1 /\ Len(tls_transcript) \in Nat
        BY <1>1, <3>2, <4>1
      <4>3. Len(transcript) = tls_state
        BY <3>2 DEF InOrder
      <4>4. SUFFICES ASSUME tls_state = 6 PROVE Len(tls_transcript) = 5
        OBVIOUS
      <4>5. Len(tls_transcript) + 1 = 6
        BY <4>2, <4>3, <4>4
      <4> QED BY <4>2, <4>5, FiveAndOne
    <3> QED BY <1>0, <1>1, <1>5, <3>1, <3>2, <3>3
  <2> QED BY <2>1, <2>2, <2>3, <2>4 DEF Pump
<1> QED BY <1>0, <1>3, <1>4, <1>6 DEF AgreeInv

LEMMA AgreeStep ==
    ASSUME TypeOK, HandshakeInv, DataInv, AgreeInv, [Next]_vars
    PROVE  AgreeInv'
<1>0. ASSUME UNCHANGED <<ring, reader, srv>>, pc' # "encrypted" \/ UNCHANGED <<pc, df>>,
             pc' \notin After \/ (pc \in After /\ \A i \in 1 .. 6 : transcript'[i] = transcript[i])
      PROVE  AgreeInv'
  <2>1. Flying' = Flying
    BY <1>0 DEF Flying
  <2> QED BY <1>0, <2>1, AgreeKeeps
<1>1. CASE UNCHANGED vars
  <2>1. UNCHANGED <<ring, reader, srv, pc, df, transcript>>
    BY <1>1 DEF vars, session, reading, secrets
  <2> QED BY <1>0, <2>1
<1>2. CASE Server
    BY <1>2, AgreeServer
<1>3. CASE Network
  <2>1. Flying' \subseteq Flying \cup Foreign /\ UNCHANGED srv
    BY <1>3, FlyingNetwork
  <2>2. UNCHANGED <<pc, df, transcript>>
    BY <1>3 DEF Network, client, session, secrets
  <2> QED BY <2>1, <2>2, AgreeKeeps
<1>4. CASE RecvEncrypted
  <2>1. Flying' \subseteq Flying \cup Foreign /\ UNCHANGED srv
    BY <1>4, FlyingReceive, ForeignRecords DEF Receive
  <2>2. /\ pc = "encrypted" /\ pc' \in {"encrypted", "failed"}
        /\ df' \in {df, [df EXCEPT !.frags = Arrived.frags]}
    BY <1>4 DEF RecvEncrypted, Fail, session
  <2>3. FragsKnown(df.frags, srv.tr) /\ KnownIn(df.cur, srv.tr) /\ FragsKnown(reader.frags, srv.tr)
    BY <2>2 DEF AgreeInv, Flying
  <2>4. FragsKnown(Arrived.frags, srv.tr)
    <3>1. Spoilt(reader).frags = <<>>
      BY DataTypes DEF Spoilt, Record
    <3> QED BY <2>3, <3>1, ForeignKnown DEF Arrived
  <2>5. FragsKnown(df'.frags, srv.tr) /\ KnownIn(df'.cur, srv.tr)
    <3>1. df \in DfType
      BY DEF TypeOK, ReadType
    <3>2. df'.frags \in {df.frags, Arrived.frags} /\ df'.cur = df.cur
      BY <2>2, <3>1 DEF DfType
    <3> QED BY <2>3, <2>4, <3>2
  <2>6. \A r \in Flying' : FragsKnown(r.frags, srv.tr)
    BY <2>1, ForeignKnown DEF AgreeInv
  <2> QED BY <2>1, <2>2, <2>5, <2>6 DEF AgreeInv, After
<1>5. CASE Receive /\ ~RecvEncrypted
  <2>1. Flying' \subseteq Flying \cup Foreign /\ UNCHANGED srv
    BY <1>5, FlyingReceive, ForeignRecords
  <2>2. Receiving /\ df' = df
    BY <1>5 DEF Receive, Incomplete, ReadHeader, BadHeader, SkipCcs, FrameError, AuthError,
                RecvServerHello, TlsRecv, Complete, stream
  <2>3. pc' \in {pc, "failed", "keys"}
    BY <1>5, <2>2 DEF Receive, Incomplete, ReadHeader, BadHeader, SkipCcs, FrameError, AuthError,
                RecvServerHello, TlsRecv, FrameFail, Tick, Fail, session
  <2>4. pc' \in After => pc \in After /\ transcript' = transcript
    BY <1>5, <2>2, <2>3 DEF Receive, Incomplete, ReadHeader, BadHeader, SkipCcs, FrameError, AuthError,
                RecvServerHello, TlsRecv, secrets, After
  <2>5. pc' # "encrypted" \/ UNCHANGED <<pc, df>>
    BY <2>2, <2>3
  <2> QED BY <2>1, <2>4, <2>5, AgreeKeeps
<1>6. CASE Pump
    BY <1>6, AgreePump
<1>7. CASE TlsConnect
  <2>1. pc' = "hello" /\ ring' = <<>> /\ reader' = NoRecord /\ srv' = NoServer
    BY <1>7 DEF TlsConnect, DropStream
  <2>2. Flying' \subseteq {NoRecord}
    BY <2>1 DEF Flying, InFlight, NoServer
  <2>3. srv'.out = <<>> /\ srv'.half = NoMsg
    BY <2>1 DEF NoServer
  <2>4. \A r \in Flying' : FragsKnown(r.frags, srv'.tr)
    BY <2>2, ForeignRecords, ForeignKnown
  <2> QED BY <2>1, <2>3, <2>4, ForeignKnown DEF AgreeInv, After
<1>8. CASE SendClientHello
  <2>1. /\ pc = "hello" /\ UNCHANGED <<ring, reader>> /\ pc' \in {"server_hello", "failed"}
        /\ srv' = srv \/ srv' = [NoServer EXCEPT !.on = TRUE, !.tr = transcript']
    BY <1>8 DEF SendClientHello, Fail
  <2>2. srv = NoServer /\ ring = <<>> /\ reader = NoRecord
    BY <2>1 DEF DataInv, Clean
  <2>3. srv'.out = <<>> /\ srv'.half = NoMsg /\ srv'.last = NoRecord
    <3>1. NoServer.out = <<>> /\ NoServer.half = NoMsg /\ NoServer.last = NoRecord
      BY DEF NoServer
    <3>2. CASE srv' = srv
      BY <2>2, <3>1, <3>2
    <3>3. CASE srv' = [NoServer EXCEPT !.on = TRUE, !.tr = transcript']
      <4>1. srv' = [on |-> TRUE, tr |-> transcript', out |-> <<>>, half |-> NoMsg,
                    hsSeq |-> 0, appSeq |-> 0, app |-> <<>>, last |-> NoRecord]
        BY <3>3 DEF NoServer
      <4> QED BY <4>1
    <3> QED BY <2>1, <3>2, <3>3
  <2>4. Flying' \subseteq {NoRecord}
    BY <2>1, <2>2, <2>3 DEF Flying, InFlight
  <2>5. \A r \in Flying' : FragsKnown(r.frags, srv'.tr)
    BY <2>4, ForeignRecords, ForeignKnown
  <2> QED BY <2>1, <2>3, <2>5, ForeignKnown DEF AgreeInv, After
<1>9. CASE DeriveHandshakeKeys
  <2>1. UNCHANGED <<ring, reader, srv>> /\ pc' = "encrypted" /\ df' = NoFrags
    BY <1>9 DEF DeriveHandshakeKeys
  <2>2. Flying' = Flying
    BY <2>1 DEF Flying
  <2>3. df'.frags = <<>> /\ df'.cur = NoMsg
    BY <2>1 DEF NoFrags
  <2> QED BY <2>1, <2>2, <2>3, ForeignKnown DEF AgreeInv, After
<1>10. CASE SendFinished
  <2>1. /\ pc = "finished" /\ pc' \in {"traffic", "failed"} /\ UNCHANGED <<ring, reader, srv>>
        /\ pc' = "traffic" => transcript' = Append(transcript, ItemOf(Plain("cfin", tls_c_hs_secret[1])))
    BY <1>10 DEF SendFinished, reading, Fail
  <2>2. transcript \in Seq(Item) /\ Len(transcript) = 6
    BY <2>1 DEF TypeOK, SecretType, HandshakeInv, PlaceInv, FinishedInv, InOrder
  <2>3. ItemOf(Plain("cfin", tls_c_hs_secret[1])) \in Item
    <3>1. tls_c_hs_secret[1] \in Conns
      BY DEF TypeOK, SecretType
    <3> QED BY <3>1, PlainType, ItemType DEF HsTypes
  <2>4. pc' = "traffic" => \A i \in 1 .. 6 : transcript'[i] = transcript[i]
    BY <2>1, <2>2, <2>3
  <2> QED BY <1>0, <2>1, <2>4 DEF After
<1>11. CASE DeriveTrafficKeys \/ TlsSend \/ TlsClose
  <2>1. /\ UNCHANGED <<ring, reader, srv, transcript>> /\ pc \in After /\ pc' # "encrypted"
    BY <1>11 DEF DeriveTrafficKeys, TlsSend, TlsClose, reading, session, secrets, After
  <2> QED BY <1>0, <2>1
<1> QED BY <1>1, <1>2, <1>3, <1>4, <1>5, <1>6, <1>7, <1>8, <1>9, <1>10, <1>11 DEF Next, Call, Proceed

LEMMA AgreeInitial == Init => AgreeInv
<1> SUFFICES ASSUME Init PROVE AgreeInv
    OBVIOUS
<1>1. pc = "idle" /\ ring = <<>> /\ reader = NoRecord /\ srv = NoServer
    BY DEF Init
<1>2. Flying \subseteq {NoRecord}
    BY <1>1 DEF Flying, InFlight, NoServer
<1>3. srv.out = <<>> /\ srv.half = NoMsg
    BY <1>1 DEF NoServer
<1>4. \A r \in Flying : FragsKnown(r.frags, srv.tr)
    BY <1>2, ForeignRecords, ForeignKnown
<1> QED BY <1>1, <1>3, <1>4, ForeignKnown DEF AgreeInv, After

\* When the client opens the connection both ends have hashed the same handshake:
\* the hello, the server's hello and the whole flight, in whatever pieces and among
\* whatever else they arrived.  An altered hello is found out by the Finished.
THEOREM BothAgree == Spec => []Agreement
<1>1. TypeOK /\ HandshakeInv /\ AgreeInv => Agreement
  <2> SUFFICES ASSUME TypeOK, HandshakeInv, AgreeInv, pc = "open"
               PROVE  Len(srv.tr) >= 6 /\ SubSeq(transcript, 1, 6) = SubSeq(srv.tr, 1, 6)
    BY DEF Agreement
  <2>1. Len(srv.tr) >= 6 /\ \A i \in 1 .. 6 : transcript[i] = srv.tr[i]
    BY DEF AgreeInv, Agreed, After
  <2>2. transcript \in Seq(Item) /\ srv.tr \in Seq(Item)
    BY DEF TypeOK, SecretType, SrvType
  <2>3. Len(transcript) = 7
    BY DEF HandshakeInv, PlaceInv, Authentic, InOrder
  <2>4. 6 <= Len(transcript) /\ 6 <= Len(srv.tr) /\ 6 \in Nat
    BY <2>1, <2>2, <2>3
  <2>5. SubSeq(transcript, 1, 6) = SubSeq(srv.tr, 1, 6)
    BY <2>1, <2>2, <2>4, SameStart
  <2> QED BY <2>1, <2>5
<1>2. TypeOK /\ HandshakeInv /\ DataInv /\ AgreeInv /\ [Next]_vars => AgreeInv' /\ DataInv'
    BY AgreeStep, DataStep
<1> QED BY <1>1, <1>2, DataInitial, AgreeInitial, TypeCorrect, HandshakeOrder, PTL DEF Spec

-----------------------------------------------------------------------------
(* A server that follows the protocol, over a network that commits no fault: *)
(* all it ever sent on this connection is on record, and the client has taken *)
(* a beginning of it.                                                         *)

Calm == Honest /\ faults = 0
Live == {"server_hello", "keys", "encrypted"} \cup After

\* A message of the flight by its place in the transcript.  The flight lies along a
\* line of half messages, the one of place p from 2p to 2p + 2, and a fragment
\* reaches from one point of the line to another.
Pos(t) == IF t = "ee" THEN 3 ELSE IF t = "cert" THEN 4 ELSE IF t = "cv" THEN 5 ELSE 6
From(f) == IF f.part = "last" THEN 2 * Pos(f.m.t) + 1 ELSE 2 * Pos(f.m.t)
To(f) == IF f.part = "first" THEN 2 * Pos(f.m.t) + 1 ELSE 2 * Pos(f.m.t) + 2
Spans(s, a, b) ==
    IF s = <<>> THEN a = b
    ELSE /\ From(s[1]) = a /\ To(s[Len(s)]) = b
         /\ \A i \in 1 .. Len(s) - 1 : To(s[i]) = From(s[i + 1])

\* The message m is the one the server folded into tr at its place.
Made(m, tr) ==
    /\ m.t \in {"ee", "cert", "cv", "fin"} /\ m.conn = tr[1].conn
    /\ Pos(m.t) <= Len(tr) /\ tr[Pos(m.t)] = ItemOf(m)
    /\ m.t \in {"cv", "fin"} =>
         Len(m.over) = Pos(m.t) - 1 /\ \A i \in 1 .. Pos(m.t) - 1 : m.over[i] = tr[i]
    /\ m.t = "cv" => m.key = tr[4].key
AllMade(s, tr) == \A i \in 1 .. Len(s) : Made(s[i].m, tr)

\* The sequence s is a beginning of t.
Grown(s, t) == Len(s) <= Len(t) /\ \A i \in 1 .. Len(s) : t[i] = s[i]

\* The units q, behind a header r already read, are those of the records a to b - 1.
Lined(q, r, rec, a, b) ==
    /\ a <= b
    /\ IF r = NoRecord
       THEN /\ Len(q) = 2 * (b - a)
            /\ \A j \in 1 .. b - a : /\ q[2 * j - 1] = [u |-> "head", r |-> rec[a + j - 1]]
                                     /\ q[2 * j] = [u |-> "body", r |-> rec[a + j - 1]]
       ELSE /\ a < b /\ r = rec[a] /\ Len(q) = 2 * (b - a) - 1
            /\ q[1] = [u |-> "body", r |-> rec[a]]
            /\ \A j \in 1 .. b - a - 1 : /\ q[2 * j] = [u |-> "head", r |-> rec[a + j]]
                                         /\ q[2 * j + 1] = [u |-> "body", r |-> rec[a + j]]

\* How far the server is along the line, and the client.
ServerAt == IF srv.half = NoMsg THEN 2 * Len(srv.tr) + 2 ELSE 2 * Len(srv.tr) + 1
ClientAt == IF df.cur = NoMsg THEN 2 * Len(transcript) + 2 ELSE 2 * Len(transcript) + 1

\* The records the server has sent: its hello, those of its flight, its data; and how
\* many of them the client has taken.
Total == IF Len(srv.tr) = 1 THEN 0 ELSE 1 + srv.hsSeq + srv.appSeq
Taken == IF pc = "server_hello" THEN 0
         ELSE IF pc = "open" THEN 1 + srv.hsSeq + tls_read_seq ELSE 1 + tls_read_seq
Hello == PlainRecord("hs", <<[m |-> Plain("sh", conn), part |-> "whole"]>>)
FlightRecord(r, k, at) ==
    /\ r.outer = "app" /\ r.key = <<conn, "hs">> /\ r.seq = k - 1 /\ r.inner = "hs"
    /\ r.frags # <<>> /\ AllMade(r.frags, srv.tr) /\ Spans(r.frags, at[k], at[k + 1])
LateRecord(r, k) ==
    /\ r.outer = "app" /\ r.key = <<conn, "app">> /\ r.seq = k - 1 - srv.hsSeq
    /\ r.inner \in {"hs", "app", "alert"}
SentOk(rec, at) ==
    /\ Total > 0 => rec[0] = Hello
    /\ \A k \in 1 .. Total - 1 :
         IF k <= srv.hsSeq THEN FlightRecord(rec[k], k, at) ELSE LateRecord(rec[k], k)

\* What the server holds back starts where the last record of the flight ended.
FlightDone == Len(srv.tr) = 6 /\ srv.out = <<>> /\ srv.half = NoMsg
ServerOk(at) ==
    /\ Len(srv.tr) \in 1 .. 6 /\ srv.tr[1].conn = conn
    /\ Len(srv.tr) = 1 => srv.hsSeq = 0 /\ srv.appSeq = 0 /\ srv.out = <<>> /\ srv.half = NoMsg
    /\ Len(srv.tr) > 1 => /\ Spans(srv.out, at[srv.hsSeq + 1], ServerAt)
                          /\ srv.tr[2] = ItemOf(Plain("sh", conn))
    /\ AllMade(srv.out, srv.tr)
    /\ srv.half # NoMsg => Made(srv.half, srv.tr) /\ Pos(srv.half.t) = Len(srv.tr)
    /\ srv.appSeq > 0 => FlightDone

\* What the client holds starts where it stands and ends where the next record begins.
SameSoFar == Grown(transcript, srv.tr)
ClientOk(at) ==
    /\ pc \notin After => SameSoFar
    /\ pc \in {"server_hello", "keys"} => tls_read_seq = 0
    /\ pc \in {"keys", "encrypted"} => shared = conn
    /\ pc = "encrypted" => /\ tls_read_seq <= srv.hsSeq
                           /\ AllMade(df.frags, srv.tr)
                           /\ Spans(df.frags, ClientAt, at[tls_read_seq + 1])
                           /\ df.cur # NoMsg => Made(df.cur, srv.tr)
    /\ pc \in After => FlightDone
    /\ pc \in {"finished", "traffic"} => tls_read_seq = srv.hsSeq
    /\ tls_state # ERROR

\* The connection has run its course so far.
Course(rec, at) ==
    /\ rec \in [Nat -> Record] /\ at \in [Nat -> Nat] /\ at[1] = 6
    /\ SentOk(rec, at) /\ ServerOk(at) /\ ClientOk(at)
    /\ Lined(ring, reader, rec, Taken, Total)

\* While the connection lives there is such a record of it: rec[k] is what the server
\* sent as record k, at[k] the point of the line at which the flight's record k begins.
HonestInv ==
    /\ pc \in Live \cup {"hello"} => conn > 0
    /\ pc = "hello" => tls_read_seq = 0
    /\ Calm /\ pc \in Live => \E rec \in [Nat -> Record], at \in [Nat -> Nat] : Course(rec, at)
    /\ HonestServed

LEMMA FromTo ==
    ASSUME NEW f, Made(f.m, srv.tr), f.part \in {"whole", "first", "last"}
    PROVE  /\ Pos(f.m.t) \in 3 .. 6 /\ From(f) \in 6 .. 13 /\ To(f) \in 7 .. 14 /\ From(f) < To(f)
BY DEF Pos, From, To, Made

\* Fragments taken from the front and put at the end.
LEMMA SpansTail ==
    ASSUME NEW s \in Seq(Frag), s # <<>>, NEW a \in Nat, NEW b \in Nat, Spans(s, a, b)
    PROVE  From(Head(s)) = a /\ Spans(Tail(s), To(Head(s)), b)
<1>1. /\ Len(s) \in Nat /\ Len(s) >= 1 /\ Head(s) = s[1] /\ Tail(s) \in Seq(Frag)
      /\ Len(Tail(s)) = Len(s) - 1
      /\ \A i \in 1 .. Len(s) - 1 : Tail(s)[i] = s[i + 1]
    OBVIOUS
<1>2. /\ From(s[1]) = a /\ To(s[Len(s)]) = b
      /\ \A i \in 1 .. Len(s) - 1 : To(s[i]) = From(s[i + 1])
    BY DEF Spans
<1>3. CASE Len(s) = 1
  <2>1. Tail(s) = <<>>
    <3> DEFINE t == Tail(s)
    <3>1. t \in Seq(Frag) /\ Len(t) = 0
      BY <1>1, <1>3
    <3> HIDE DEF t
    <3>2. t = <<>>
      BY <3>1
    <3> QED BY <3>2 DEF t
  <2> QED BY <1>1, <1>2, <1>3, <2>1 DEF Spans
<1>4. CASE Len(s) > 1
  <2>1. Tail(s) # <<>>
    <3> DEFINE t == Tail(s)
    <3>1. Len(t) # 0
      BY <1>1, <1>4
    <3> HIDE DEF t
    <3>2. t # <<>>
      BY <3>1
    <3> QED BY <3>2 DEF t
  <2>2. /\ Tail(s)[1] = s[2] /\ Tail(s)[Len(Tail(s))] = s[Len(s)]
    <3>1. 1 \in 1 .. Len(s) - 1 /\ Len(s) - 1 \in 1 .. Len(s) - 1 /\ 1 + 1 = 2 /\ (Len(s) - 1) + 1 = Len(s)
      BY <1>1, <1>4
    <3> QED BY <1>1, <3>1
  <2>3. From(s[2]) = To(s[1])
    <3>1. 1 \in 1 .. Len(s) - 1 /\ 1 + 1 = 2
      BY <1>1, <1>4
    <3> QED BY <1>2, <3>1
  <2>4. \A i \in 1 .. Len(Tail(s)) - 1 : To(Tail(s)[i]) = From(Tail(s)[i + 1])
    <3> TAKE i \in 1 .. Len(Tail(s)) - 1
    <3>1. i \in 1 .. Len(s) - 1 /\ i + 1 \in 1 .. Len(s) - 1
      BY <1>1
    <3> QED BY <1>1, <1>2, <3>1
  <2> QED BY <1>1, <1>2, <2>1, <2>2, <2>3, <2>4 DEF Spans
<1> QED BY <1>1, <1>3, <1>4

LEMMA SpansAppend ==
    ASSUME NEW s \in Seq(Frag), NEW f \in Frag, NEW a, NEW b, Spans(s, a, b), From(f) = b
    PROVE  Spans(Append(s, f), a, To(f))
<1> DEFINE t == Append(s, f)
<1>1. /\ Len(s) \in Nat /\ Len(t) = Len(s) + 1 /\ t[Len(s) + 1] = f /\ t # <<>>
      /\ \A i \in 1 .. Len(s) : t[i] = s[i]
    OBVIOUS
<1> HIDE DEF t
<1>2. CASE s = <<>>
  <2>1. Len(s) = 0 /\ a = b
    BY <1>2 DEF Spans
  <2>2. t[1] = f /\ Len(t) = 1
    BY <1>1, <2>1
  <2>3. \A i \in 1 .. Len(t) - 1 : FALSE
    BY <2>2
  <2>4. Spans(t, a, To(f))
    BY <1>1, <2>1, <2>2, <2>3 DEF Spans
  <2> QED BY <2>4 DEF t
<1>3. CASE s # <<>>
  <2>0. Len(s) >= 1
    BY <1>3
  <2>1. /\ From(s[1]) = a /\ To(s[Len(s)]) = b
        /\ \A i \in 1 .. Len(s) - 1 : To(s[i]) = From(s[i + 1])
    BY <1>3 DEF Spans
  <2>2. t[1] = s[1] /\ t[Len(s)] = s[Len(s)] /\ t[Len(t)] = f
    BY <1>1, <2>0
  <2>3. \A i \in 1 .. Len(t) - 1 : To(t[i]) = From(t[i + 1])
    <3> TAKE i \in 1 .. Len(t) - 1
    <3>1. CASE i = Len(s)
      BY <1>1, <2>1, <2>2, <3>1
    <3>2. CASE i # Len(s)
      <4>1. i \in 1 .. Len(s) - 1 /\ i \in 1 .. Len(s) /\ i + 1 \in 1 .. Len(s)
        BY <1>1, <3>2
      <4> QED BY <1>1, <2>1, <4>1
    <3> QED BY <3>1, <3>2
  <2>4. Spans(t, a, To(f))
    BY <1>1, <2>1, <2>2, <2>3 DEF Spans
  <2> QED BY <2>4 DEF t
<1> QED BY <1>2, <1>3

\* What has been folded stays folded.
LEMMA GrownAppend ==
    ASSUME NEW s \in Seq(Item), NEW x \in Item
    PROVE  /\ Append(s, x) \in Seq(Item) /\ Grown(s, Append(s, x)) /\ Len(s) \in Nat
           /\ Len(Append(s, x)) = Len(s) + 1 /\ Append(s, x)[Len(s) + 1] = x
BY DEF Grown

LEMMA GrownSame ==
    ASSUME NEW s \in Seq(Item)
    PROVE  Grown(s, s)
<1>1. Len(s) \in Nat
    OBVIOUS
<1> QED BY <1>1 DEF Grown

LEMMA GrownOn ==
    ASSUME NEW s \in Seq(Item), NEW t \in Seq(Item), NEW u \in Seq(Item), Grown(s, t), Grown(t, u)
    PROVE  Grown(s, u)
<1>1. Len(s) \in Nat /\ Len(t) \in Nat /\ Len(u) \in Nat
    OBVIOUS
<1>2. Len(s) <= Len(t) /\ Len(t) <= Len(u)
    BY DEF Grown
<1>3. Len(s) <= Len(u) /\ \A i \in 1 .. Len(s) : i \in 1 .. Len(t)
    BY <1>1, <1>2
<1> QED BY <1>3 DEF Grown

LEMMA MadeGrows ==
    ASSUME NEW m \in Msg, NEW tr \in Seq(Item), NEW to \in Seq(Item), Grown(tr, to), Made(m, tr)
    PROVE  Made(m, to)
<1>1. Pos(m.t) \in 3 .. 6 /\ Len(tr) \in Nat /\ Len(to) \in Nat /\ Pos(m.t) <= Len(tr)
    BY DEF Pos, Made
<1>2. Len(tr) <= Len(to) /\ \A i \in 1 .. Len(tr) : to[i] = tr[i]
    BY DEF Grown
<1>3. /\ 1 \in 1 .. Len(tr) /\ Pos(m.t) \in 1 .. Len(tr) /\ (m.t = "cv" => 4 \in 1 .. Len(tr))
      /\ \A i \in 1 .. Pos(m.t) - 1 : i \in 1 .. Len(tr)
    BY <1>1 DEF Pos
<1>4. /\ Pos(m.t) <= Len(to) /\ to[Pos(m.t)] = tr[Pos(m.t)]
      /\ m.t = "cv" => to[4] = tr[4]
      /\ to[1] = tr[1]
      /\ \A i \in 1 .. Pos(m.t) - 1 : to[i] = tr[i]
    BY <1>1, <1>2, <1>3
<1> HIDE DEF Pos
<1> QED BY <1>4 DEF Made

LEMMA AllMadeGrows ==
    ASSUME NEW s \in Seq(Frag), NEW tr \in Seq(Item), NEW to \in Seq(Item), Grown(tr, to), AllMade(s, tr)
    PROVE  AllMade(s, to)
<1>1. \A i \in 1 .. Len(s) : s[i].m \in Msg
  <2> TAKE i \in 1 .. Len(s)
  <2>1. s[i] \in Frag
    OBVIOUS
  <2> QED BY <2>1 DEF Frag
<1> QED BY <1>1, MadeGrows DEF AllMade

LEMMA AllMadeAppend ==
    ASSUME NEW s \in Seq(Frag), NEW f \in Frag, NEW tr, AllMade(s, tr), Made(f.m, tr)
    PROVE  AllMade(Append(s, f), tr)
<1>1. /\ Len(Append(s, f)) = Len(s) + 1 /\ Append(s, f)[Len(s) + 1] = f /\ Len(s) \in Nat
      /\ \A i \in 1 .. Len(s) : Append(s, f)[i] = s[i]
    OBVIOUS
<1>2. \A i \in 1 .. Len(s) + 1 : i \in 1 .. Len(s) \/ i = Len(s) + 1
    BY <1>1
<1> QED BY <1>1, <1>2 DEF AllMade

LEMMA AllMadeTail ==
    ASSUME NEW s \in Seq(Frag), s # <<>>, NEW tr, AllMade(s, tr)
    PROVE  AllMade(Tail(s), tr) /\ Made(Head(s).m, tr)
<1>1. /\ Len(s) \in Nat /\ 1 \in 1 .. Len(s) /\ Len(Tail(s)) = Len(s) - 1 /\ Head(s) = s[1]
      /\ \A i \in 1 .. Len(s) - 1 : Tail(s)[i] = s[i + 1] /\ i + 1 \in 1 .. Len(s)
    OBVIOUS
<1> QED BY <1>1 DEF AllMade

(* The units in the ring. *)
LEMMA LinedHead ==
    ASSUME NEW q \in Seq(Unit), q # <<>>, NEW rec, NEW a \in Nat, NEW b \in Nat,
           Lined(q, NoRecord, rec, a, b)
    PROVE  /\ a < b /\ Head(q) = [u |-> "head", r |-> rec[a]]
           /\ rec[a] # NoRecord => Lined(Tail(q), rec[a], rec, a, b)
<1>1. /\ a <= b /\ Len(q) = 2 * (b - a)
      /\ \A j \in 1 .. b - a : /\ q[2 * j - 1] = [u |-> "head", r |-> rec[a + j - 1]]
                               /\ q[2 * j] = [u |-> "body", r |-> rec[a + j - 1]]
    BY DEF Lined
<1>2. /\ Len(q) \in Nat /\ Len(q) >= 1 /\ Head(q) = q[1] /\ Len(Tail(q)) = Len(q) - 1
      /\ \A i \in 1 .. Len(q) - 1 : Tail(q)[i] = q[i + 1]
    OBVIOUS
<1>3. a < b
    BY <1>1, <1>2
<1>4. q[1] = [u |-> "head", r |-> rec[a]] /\ q[2] = [u |-> "body", r |-> rec[a]]
  <2>1. 1 \in 1 .. b - a /\ 2 * 1 - 1 = 1 /\ 2 * 1 = 2 /\ a + 1 - 1 = a
    BY <1>3
  <2> QED BY <1>1, <2>1
<1>5. Tail(q)[1] = [u |-> "body", r |-> rec[a]]
  <2>1. 1 \in 1 .. Len(q) - 1 /\ 1 + 1 = 2
    BY <1>1, <1>3
  <2> QED BY <1>2, <1>4, <2>1
<1>6. \A j \in 1 .. b - a - 1 : /\ Tail(q)[2 * j] = [u |-> "head", r |-> rec[a + j]]
                                /\ Tail(q)[2 * j + 1] = [u |-> "body", r |-> rec[a + j]]
  <2> TAKE j \in 1 .. b - a - 1
  <2>1. /\ j + 1 \in 1 .. b - a /\ 2 * (j + 1) - 1 = 2 * j + 1 /\ 2 * (j + 1) = 2 * j + 1 + 1
        /\ a + (j + 1) - 1 = a + j /\ 2 * j \in 1 .. Len(q) - 1 /\ 2 * j + 1 \in 1 .. Len(q) - 1
    BY <1>1, <1>3
  <2>2. /\ q[2 * (j + 1) - 1] = [u |-> "head", r |-> rec[a + (j + 1) - 1]]
        /\ q[2 * (j + 1)] = [u |-> "body", r |-> rec[a + (j + 1) - 1]]
    BY <1>1, <2>1
  <2>3. Tail(q)[2 * j] = q[2 * j + 1] /\ Tail(q)[2 * j + 1] = q[2 * j + 1 + 1]
    BY <1>2, <2>1
  <2> QED BY <2>1, <2>2, <2>3
<1>7. Len(Tail(q)) = 2 * (b - a) - 1
    BY <1>1, <1>2
<1>8. ASSUME rec[a] # NoRecord PROVE Lined(Tail(q), rec[a], rec, a, b)
    BY <1>1, <1>3, <1>5, <1>6, <1>7, <1>8 DEF Lined
<1> QED BY <1>2, <1>3, <1>4, <1>8

LEMMA LinedTake ==
    ASSUME NEW q \in Seq(Unit), NEW r, r # NoRecord, NEW rec, NEW a \in Nat, NEW b \in Nat,
           Lined(q, r, rec, a, b)
    PROVE  /\ q # <<>> /\ a < b /\ r = rec[a] /\ Head(q) = [u |-> "body", r |-> rec[a]]
           /\ Lined(Tail(q), NoRecord, rec, a + 1, b)
<1>1. /\ a < b /\ r = rec[a] /\ Len(q) = 2 * (b - a) - 1
      /\ q[1] = [u |-> "body", r |-> rec[a]]
      /\ \A j \in 1 .. b - a - 1 : /\ q[2 * j] = [u |-> "head", r |-> rec[a + j]]
                                   /\ q[2 * j + 1] = [u |-> "body", r |-> rec[a + j]]
    BY DEF Lined
<1>2. q # <<>>
    BY <1>1
<1>3. /\ Len(q) \in Nat /\ Head(q) = q[1] /\ Len(Tail(q)) = Len(q) - 1
      /\ \A i \in 1 .. Len(q) - 1 : Tail(q)[i] = q[i + 1]
    BY <1>2
<1>4. \A j \in 1 .. b - (a + 1) : /\ Tail(q)[2 * j - 1] = [u |-> "head", r |-> rec[(a + 1) + j - 1]]
                                  /\ Tail(q)[2 * j] = [u |-> "body", r |-> rec[(a + 1) + j - 1]]
  <2> TAKE j \in 1 .. b - (a + 1)
  <2>1. /\ j \in 1 .. b - a - 1 /\ (a + 1) + j - 1 = a + j /\ (2 * j - 1) + 1 = 2 * j
        /\ 2 * j \in 1 .. Len(q) - 1 /\ 2 * j - 1 \in 1 .. Len(q) - 1
    BY <1>1
  <2>2. Tail(q)[2 * j - 1] = q[(2 * j - 1) + 1] /\ Tail(q)[2 * j] = q[2 * j + 1]
    BY <1>3, <2>1
  <2> QED BY <1>1, <2>1, <2>2
<1>5. Len(Tail(q)) = 2 * (b - (a + 1)) /\ a + 1 <= b
    BY <1>1, <1>3
<1> QED BY <1>1, <1>2, <1>3, <1>4, <1>5 DEF Lined

LEMMA NotLast ==
    ASSUME NEW a \in Nat, NEW b \in Nat, NEW j \in 1 .. b + 1 - a - 1, j # b - a
    PROVE  j \in Nat /\ 1 <= j /\ j <= b - a - 1
OBVIOUS

LEMMA LinedPut ==
    ASSUME NEW q \in Seq(Unit), NEW r, NEW rec, NEW new, NEW a \in Nat, NEW b \in Nat,
           Lined(q, r, rec, a, b), \A k \in a .. b - 1 : new[k] = rec[k],
           NEW x \in Record, new[b] = x
    PROVE  Lined(q \o Units(x), r, new, a, b + 1)
<1> DEFINE n == Len(q)
           t == q \o Units(x)
           h == [u |-> "head", r |-> x]
           d == [u |-> "body", r |-> x]
<1>1. /\ n \in Nat /\ Len(t) = n + 2 /\ t[n + 1] = h /\ t[n + 2] = d
      /\ \A i \in 1 .. n : t[i] = q[i]
  <2>1. Units(x) = <<h, d>> /\ Units(x) \in Seq(Unit)
    BY UnitsType DEF Units
  <2> HIDE DEF h, d
  <2>2. Len(Units(x)) = 2 /\ Units(x)[1] = h /\ Units(x)[2] = d
    BY <2>1
  <2>3. /\ n \in Nat /\ Len(t) = n + Len(Units(x))
        /\ \A i \in 1 .. n : t[i] = q[i]
        /\ \A i \in n + 1 .. n + Len(Units(x)) : t[i] = Units(x)[i - n]
    BY <2>1
  <2> HIDE DEF n, t
  <2>4. n + 1 \in n + 1 .. n + 2 /\ n + 2 \in n + 1 .. n + 2 /\ (n + 1) - n = 1 /\ (n + 2) - n = 2
    BY <2>3
  <2> QED BY <2>2, <2>3, <2>4
<1> HIDE DEF n, t, h, d
<1>2. CASE r = NoRecord
  <2>1. /\ a <= b /\ n = 2 * (b - a)
        /\ \A j \in 1 .. b - a : /\ q[2 * j - 1] = [u |-> "head", r |-> rec[a + j - 1]]
                                 /\ q[2 * j] = [u |-> "body", r |-> rec[a + j - 1]]
    BY <1>2 DEF Lined, n
  <2>2. \A j \in 1 .. b + 1 - a : /\ t[2 * j - 1] = [u |-> "head", r |-> new[a + j - 1]]
                                  /\ t[2 * j] = [u |-> "body", r |-> new[a + j - 1]]
    <3> TAKE j \in 1 .. b + 1 - a
    <3>1. CASE j = b + 1 - a
      <4>1. 2 * j - 1 = n + 1 /\ 2 * j = n + 2 /\ a + j - 1 = b
        BY <2>1, <3>1
      <4> QED BY <1>1, <4>1 DEF h, d
    <3>2. CASE j # b + 1 - a
      <4>1. /\ j \in 1 .. b - a /\ 2 * j - 1 \in 1 .. n /\ 2 * j \in 1 .. n
            /\ a + j - 1 \in a .. b - 1
        BY <2>1, <3>2
      <4> QED BY <1>1, <2>1, <4>1
    <3> QED BY <3>1, <3>2
  <2>3. Len(t) = 2 * (b + 1 - a) /\ a <= b + 1
    BY <1>1, <2>1
  <2>4. Lined(t, r, new, a, b + 1)
    BY <1>2, <2>2, <2>3 DEF Lined
  <2> QED BY <2>4 DEF t
<1>3. CASE r # NoRecord
  <2>1. /\ a < b /\ r = rec[a] /\ n = 2 * (b - a) - 1
        /\ q[1] = [u |-> "body", r |-> rec[a]]
        /\ \A j \in 1 .. b - a - 1 : /\ q[2 * j] = [u |-> "head", r |-> rec[a + j]]
                                     /\ q[2 * j + 1] = [u |-> "body", r |-> rec[a + j]]
    BY <1>3 DEF Lined, n
  <2>2. \A j \in 1 .. b + 1 - a - 1 : /\ t[2 * j] = [u |-> "head", r |-> new[a + j]]
                                      /\ t[2 * j + 1] = [u |-> "body", r |-> new[a + j]]
    <3> TAKE j \in 1 .. b + 1 - a - 1
    <3>1. CASE j = b - a
      <4>1. 2 * j = n + 1 /\ 2 * j + 1 = n + 2 /\ a + j = b
        BY <2>1, <3>1
      <4> QED BY <1>1, <4>1 DEF h, d
    <3>2. CASE j # b - a
      <4>0. j \in Nat /\ 1 <= j /\ j <= b - a - 1
        BY <3>2, NotLast
      <4>1. /\ j \in 1 .. b - a - 1 /\ 2 * j + 1 \in 1 .. n /\ 2 * j \in 1 .. n
            /\ a + j \in a .. b - 1
        BY <1>1, <2>1, <4>0
      <4> QED BY <1>1, <2>1, <4>1
    <3> QED BY <3>1, <3>2
  <2>3. Len(t) = 2 * (b + 1 - a) - 1 /\ a < b + 1 /\ a <= b + 1 /\ a \in a .. b - 1 /\ 1 \in 1 .. n
    <3>1. 1 <= b - a /\ b - a \in Nat
      BY <2>1
    <3>2. n + 2 = 2 * (b + 1 - a) - 1 /\ 1 <= n
      BY <2>1, <3>1
    <3> QED BY <1>1, <2>1, <3>1, <3>2
  <2>5. t[1] = [u |-> "body", r |-> new[a]] /\ r = new[a]
    BY <1>1, <2>1, <2>3
  <2>4. Lined(t, r, new, a, b + 1)
    <3> DEFINE c == b + 1
    <3>1. /\ a < c /\ a <= c /\ Len(t) = 2 * (c - a) - 1 /\ t[1] = [u |-> "body", r |-> new[a]] /\ r = new[a]
          /\ \A j \in 1 .. c - a - 1 : /\ t[2 * j] = [u |-> "head", r |-> new[a + j]]
                                       /\ t[2 * j + 1] = [u |-> "body", r |-> new[a + j]]
      <4>1. \A j \in 1 .. c - a - 1 : /\ t[2 * j] = [u |-> "head", r |-> new[a + j]]
                                     /\ t[2 * j + 1] = [u |-> "body", r |-> new[a + j]]
        BY <2>2
      <4>2. a < c /\ a <= c /\ Len(t) = 2 * (c - a) - 1
        BY <2>3
      <4> QED BY <2>5, <4>1, <4>2
    <3> HIDE DEF c
    <3>2. Lined(t, r, new, a, c)
      BY <1>3, <3>1 DEF Lined
    <3> QED BY <3>2 DEF c
  <2> QED BY <2>4 DEF t
<1> QED BY <1>2, <1>3

LEMMA CourseTypes ==
    ASSUME TypeOK
    PROVE  /\ srv \in SrvType /\ srv.tr \in Seq(Item) /\ srv.out \in Seq(Frag) /\ srv.half \in Msg
           /\ Len(srv.tr) \in Nat /\ srv.hsSeq \in Nat /\ srv.appSeq \in Nat /\ tls_read_seq \in Nat
           /\ Total \in Nat /\ Taken \in Nat /\ conn \in Conns /\ conn \in Nat /\ ring \in Seq(Unit)
           /\ reader \in Record /\ transcript \in Seq(Item) /\ tls_transcript \in Seq(Item)
           /\ Len(transcript) \in Nat /\ df \in DfType /\ df.frags \in Seq(Frag) /\ df.cur \in Msg
           /\ ServerAt \in Nat /\ ClientAt \in Nat
<1>1. /\ srv \in SrvType /\ srv.tr \in Seq(Item) /\ srv.out \in Seq(Frag) /\ srv.half \in Msg
      /\ Len(srv.tr) \in Nat /\ srv.hsSeq \in Nat /\ srv.appSeq \in Nat /\ tls_read_seq \in Nat
      /\ conn \in Conns /\ ring \in Seq(Unit)
      /\ reader \in Record /\ transcript \in Seq(Item) /\ tls_transcript \in Seq(Item)
      /\ Len(transcript) \in Nat /\ df \in DfType /\ df.frags \in Seq(Frag) /\ df.cur \in Msg
    BY DEF TypeOK, SrvType, ReadType, SessionType, SecretType, DfType
<1>2. Total \in Nat /\ Taken \in Nat /\ ServerAt \in Nat /\ ClientAt \in Nat
  <2>1. /\ Len(srv.tr) \in Nat /\ srv.hsSeq \in Nat /\ srv.appSeq \in Nat /\ tls_read_seq \in Nat
        /\ Len(transcript) \in Nat
    BY <1>1
  <2>2. Total \in Nat
    BY <2>1 DEF Total
  <2>3. Taken \in Nat
    BY <2>1 DEF Taken
  <2>4. ServerAt \in Nat
    BY <2>1 DEF ServerAt
  <2>5. ClientAt \in Nat
    BY <2>1 DEF ClientAt
  <2> QED BY <2>2, <2>3, <2>4, <2>5
<1>3. conn \in Nat
    BY <1>1, Assumptions DEF Conns
<1> QED BY <1>1, <1>2, <1>3

\* What the server made does not depend on what the client does.
LEMMA ServerSame ==
    ASSUME UNCHANGED <<srv, conn>>, NEW rec, NEW at, NEW s, SentOk(rec, at), ServerOk(at)
    PROVE  /\ SentOk(rec, at)' /\ ServerOk(at)' /\ Total' = Total /\ (FlightDone' <=> FlightDone)
           /\ AllMade(s, srv.tr) => AllMade(s, srv.tr)'
<1>1. \A m, tr : Made(m, tr)' <=> Made(m, tr)
    BY DEF Made
<1>2. /\ \A x : AllMade(x, srv.tr)' <=> AllMade(x, srv.tr)
      /\ Total' = Total /\ (FlightDone' <=> FlightDone) /\ ServerAt' = ServerAt /\ Hello' = Hello
    BY <1>1 DEF AllMade, Total, FlightDone, ServerAt, Hello
<1>3. \A r, k : /\ FlightRecord(r, k, at)' <=> FlightRecord(r, k, at)
                /\ LateRecord(r, k)' <=> LateRecord(r, k)
    BY <1>2 DEF FlightRecord, LateRecord
<1>4. SentOk(rec, at)'
    BY <1>2, <1>3 DEF SentOk
<1>5. ServerOk(at)'
    BY <1>1, <1>2 DEF ServerOk
<1> QED BY <1>2, <1>4, <1>5

\* The three ways a step can end: the course goes on, the client gives up for a reason
\* it may have, or the network has committed a fault.
LEMMA StaysLive ==
    ASSUME HonestInv, conn' = conn, pc \in Live, pc' \in Live,
           NEW rec \in [Nat -> Record], NEW at \in [Nat -> Nat], Calm' => Course(rec, at)'
    PROVE  HonestInv'
<1>1. pc' # "hello" /\ pc' # "failed"
    BY DEF Live, After
<1>2. conn' > 0
    BY DEF HonestInv
<1>3. Calm' => (\E r \in [Nat -> Record], a \in [Nat -> Nat] : Course(r, a))'
    OBVIOUS
<1>4. HonestServed'
  <2>1. Calm' => tls_state' # ERROR
    BY DEF Course, ClientOk
  <2> QED BY <1>1, <2>1 DEF HonestServed, Calm
<1> QED BY <1>1, <1>2, <1>3, <1>4 DEF HonestInv

LEMMA GivesUp ==
    ASSUME pc' = "failed", Calm' => \/ polls' = PollBudget
                                    \/ tls_last_state' = CLIENT_HELLO
                                    \/ tls_last_state' = CERTIFICATE /\ ~Acceptable(transcript[4])'
                                    \/ tls_last_state' = FINISHED /\ Len(transcript') = 7
    PROVE  HonestInv'
BY DEF HonestInv, HonestServed, Calm, Live, After

\* The record that is next is one the client waits for.
LEMMA NextRecord ==
    ASSUME TypeOK, HandshakeInv, NEW rec, NEW at, Course(rec, at), Receiving, Taken < Total
    PROVE  /\ rec[Taken] # NoRecord /\ rec[Taken] \in Record
           /\ pc = "server_hello" => rec[Taken] = Hello
           /\ pc = "encrypted" => Taken \in 1 .. srv.hsSeq /\ FlightRecord(rec[Taken], Taken, at)
           /\ pc = "open" => LateRecord(rec[Taken], Taken)
<1>0. /\ Total \in Nat /\ Taken \in Nat /\ srv.hsSeq \in Nat /\ srv.appSeq \in Nat /\ Len(srv.tr) \in Nat
      /\ tls_read_seq \in Nat /\ Len(transcript) \in Nat /\ rec \in [Nat -> Record]
    BY CourseTypes DEF Course
<1>1. pc \in {"server_hello", "encrypted", "open"}
    BY DEF Receiving
<1>2. CASE pc = "server_hello"
  <2>1. rec[Taken] = Hello
    BY <1>0, <1>2 DEF Course, SentOk, Taken
  <2>2. Hello # NoRecord
    BY DEF Hello, NoRecord, PlainRecord
  <2> QED BY <1>0, <1>2, <2>1, <2>2
<1>3. CASE pc = "encrypted"
  <2>1. /\ Taken = 1 + tls_read_seq /\ tls_read_seq <= srv.hsSeq /\ df.frags = <<>>
        /\ Spans(df.frags, ClientAt, at[tls_read_seq + 1])
    BY <1>3 DEF Taken, Course, ClientOk, Receiving
  <2>2. Taken <= srv.hsSeq
    <3>1. SUFFICES ASSUME ~(Taken <= srv.hsSeq) PROVE FALSE
      OBVIOUS
    <3>2. tls_read_seq = srv.hsSeq
      BY <1>0, <2>1, <3>1
    <3>3. srv.appSeq > 0
      BY <1>0, <2>1, <3>2 DEF Total
    <3>4. FlightDone /\ Len(srv.tr) = 6
      BY <3>3 DEF Course, ServerOk, FlightDone
    <3>5. at[srv.hsSeq + 1] = 14
      BY <3>4 DEF Course, ServerOk, FlightDone, Spans, ServerAt
    <3>6. ClientAt = 14
      BY <2>1, <3>2, <3>5 DEF Spans
    <3>7. df.cur = NoMsg /\ Len(transcript) = 6
      <4>1. \A n \in Nat : 2 * n + 1 # 14 /\ (2 * n + 2 = 14 => n = 6)
        OBVIOUS
      <4> QED BY <1>0, <3>6, <4>1 DEF ClientAt
    <3>8. Len(transcript) = tls_state - 1 /\ tls_state \in 3 .. 6
      BY <1>3, <3>7, StateNumbers DEF HandshakeInv, PlaceInv, EncryptedInv, InOrder, TypeOK, SessionType, StatesAt
    <3>9. \A n \in 3 .. 6 : n - 1 # 6
      OBVIOUS
    <3> QED BY <3>7, <3>8, <3>9
  <2>3. FlightRecord(rec[Taken], Taken, at)
    <3>1. Taken \in 1 .. Total - 1
      BY <1>0, <2>1
    <3> QED BY <2>2, <3>1 DEF Course, SentOk
  <2>4. rec[Taken] # NoRecord
    BY <2>3 DEF FlightRecord, NoRecord, PlainRecord
  <2> QED BY <1>0, <1>3, <2>1, <2>2, <2>3, <2>4
<1>4. CASE pc = "open"
  <2>1. Taken = 1 + srv.hsSeq + tls_read_seq
    BY <1>4 DEF Taken
  <2>2. Taken \in 1 .. Total - 1 /\ ~(Taken <= srv.hsSeq)
    BY <1>0, <2>1
  <2>3. LateRecord(rec[Taken], Taken)
    BY <2>2 DEF Course, SentOk
  <2>4. rec[Taken] # NoRecord
    BY <2>3 DEF LateRecord, NoRecord, PlainRecord
  <2> QED BY <1>0, <1>4, <2>1, <2>2, <2>3, <2>4
<1> QED BY <1>1, <1>2, <1>3, <1>4

LEMMA ArrivedNext ==
    ASSUME TypeOK, NEW rec, NEW at, Course(rec, at), Complete
    PROVE  /\ Taken < Total /\ Arrived = rec[Taken] /\ reader = rec[Taken]
           /\ Lined(Tail(ring), NoRecord, rec, Taken + 1, Total)
<1>1. /\ reader # NoRecord /\ ring \in Seq(Unit) /\ Taken \in Nat /\ Total \in Nat
      /\ Lined(ring, reader, rec, Taken, Total)
    BY CourseTypes DEF Complete, Course
<1>2. /\ Taken < Total /\ reader = rec[Taken] /\ Head(ring) = [u |-> "body", r |-> rec[Taken]]
      /\ Lined(Tail(ring), NoRecord, rec, Taken + 1, Total)
    BY <1>1, LinedTake
<1> QED BY <1>2 DEF Arrived

\* What arrives is neither out of place nor damaged.
LEMMA Welcome ==
    ASSUME TypeOK, HandshakeInv, NEW rec, NEW at, Course(rec, at), Complete
    PROVE  /\ Arrived.outer # "ccs"
           /\ ~IsFrameError(Arrived)
           /\ Protected(Arrived) => Opens(Arrived)
           /\ pc = "server_hello" => Arrived = Hello
           /\ pc = "encrypted" => Taken \in 1 .. srv.hsSeq /\ FlightRecord(Arrived, Taken, at)
<1>1. /\ Taken < Total /\ Arrived = rec[Taken] /\ Receiving
    BY ArrivedNext DEF Complete
<1>2. /\ pc = "server_hello" => Arrived = Hello
      /\ pc = "encrypted" => Taken \in 1 .. srv.hsSeq /\ FlightRecord(Arrived, Taken, at)
      /\ pc = "open" => LateRecord(Arrived, Taken)
    BY <1>1, NextRecord
<1>3. /\ srv.hsSeq \in Nat /\ tls_read_seq \in Nat
    BY CourseTypes
<1>4. CASE pc = "server_hello"
  <2>1. tls_state = 2 /\ Arrived.outer = "hs"
    BY <1>2, <1>4, StateNumbers DEF TypeOK, SessionType, StatesAt, Hello, PlainRecord
  <2> QED BY <1>2, <1>4, <2>1, StateNumbers DEF IsFrameError, Protected
<1>5. CASE pc = "encrypted"
  <2>1. /\ tls_state \in 3 .. 6 /\ shared = conn /\ keys.hs = shared /\ Taken = 1 + tls_read_seq
    BY <1>5, StateNumbers DEF TypeOK, SessionType, StatesAt, HandshakeInv, PlaceInv, EncryptedInv, HsSecret,
           Course, ClientOk, Taken
  <2>2. /\ Arrived.outer = "app" /\ Arrived.inner = "hs" /\ Arrived.key = <<conn, "hs">>
        /\ Arrived.seq = Taken - 1
    BY <1>2, <1>5 DEF FlightRecord
  <2>3. Arrived.seq = tls_read_seq
    BY <1>3, <2>1, <2>2
  <2>4. Select = <<conn, "hs">>
    BY <2>1, StateNumbers DEF Select
  <2> QED BY <1>2, <1>5, <2>1, <2>2, <2>3, <2>4, StateNumbers DEF IsFrameError, Protected, Opens
<1>6. CASE pc = "open"
  <2>1. /\ tls_state = 7 /\ keys.app = conn /\ Taken = 1 + srv.hsSeq + tls_read_seq
    BY <1>1, <1>6, StateNumbers DEF Receiving, HandshakeInv, PlaceInv, Taken
  <2>2. /\ Arrived.outer = "app" /\ Arrived.inner \in {"hs", "app", "alert"} /\ Arrived.key = <<conn, "app">>
        /\ Arrived.seq = Taken - 1 - srv.hsSeq
    BY <1>2, <1>6 DEF LateRecord
  <2>3. Arrived.seq = tls_read_seq
    BY <1>3, <2>1, <2>2
  <2>4. Select = <<conn, "app">>
    BY <2>1, StateNumbers DEF Select
  <2> QED BY <1>2, <1>6, <2>1, <2>2, <2>3, <2>4, StateNumbers DEF IsFrameError, Protected, Opens
<1> QED BY <1>1, <1>4, <1>5, <1>6 DEF Receiving

LEMMA Stormy ==
    ASSUME HonestInv, ~Calm', conn' = conn, pc' # "hello",
           pc' \in Live => pc \in Live \cup {"hello"}
    PROVE  HonestInv'
BY DEF HonestInv, HonestServed, Calm

LEMMA ClientSame ==
    ASSUME UNCHANGED <<srv, conn, pc, transcript, tls_read_seq, shared, df, tls_state>>,
           NEW at, ClientOk(at)
    PROVE  ClientOk(at)' /\ Taken' = Taken
<1>1. \A m, tr : Made(m, tr)' <=> Made(m, tr)
    BY DEF Made
<1>2. /\ \A x : AllMade(x, srv.tr)' <=> AllMade(x, srv.tr)
      /\ (FlightDone' <=> FlightDone) /\ ClientAt' = ClientAt /\ (SameSoFar' <=> SameSoFar) /\ Taken' = Taken
    BY <1>1 DEF AllMade, FlightDone, ClientAt, SameSoFar, Taken
<1> QED BY <1>1, <1>2 DEF ClientOk

LEMMA CourseSame ==
    ASSUME UNCHANGED <<srv, conn, pc, transcript, tls_read_seq, shared, df, tls_state, ring, reader>>,
           NEW rec, NEW at, Course(rec, at)
    PROVE  Course(rec, at)'
<1>1. SentOk(rec, at)' /\ ServerOk(at)' /\ Total' = Total
    BY ServerSame DEF Course
<1>2. ClientOk(at)' /\ Taken' = Taken
    BY ClientSame DEF Course
<1> QED BY <1>1, <1>2 DEF Course

\* Whatever the client reads is the next record, whole, and opens.
LEMMA HonestReceive ==
    ASSUME TypeOK, HandshakeInv, HonestInv, Receive
    PROVE  HonestInv'
<1>0. /\ Receiving /\ pc \in Live /\ UNCHANGED <<srv, conn, faults>> /\ (Calm' <=> Calm)
      /\ pc' \in {pc, "failed", "keys"}
  <2>1. Receiving
    BY DEF Receive, Incomplete, ReadHeader, BadHeader, SkipCcs, FrameError, AuthError, RecvServerHello,
           RecvEncrypted, TlsRecv, Complete
  <2>2. /\ UNCHANGED <<srv, conn, faults>> /\ pc' \in {pc, "failed", "keys"}
    BY <2>1 DEF Receive, Incomplete, ReadHeader, BadHeader, SkipCcs, FrameError, AuthError, RecvServerHello,
           RecvEncrypted, TlsRecv, FrameFail, Tick, Fail, session
  <2>3. pc \in Live
    BY <2>1 DEF Receiving, Live, After
  <2> QED BY <2>1, <2>2, <2>3 DEF Calm
<1>1. CASE ~Calm
  <2>1. pc' # "hello"
    BY <1>0 DEF Live, After
  <2> QED BY <1>0, <1>1, <2>1, Stormy
<1>2. SUFFICES ASSUME Calm PROVE HonestInv'
    BY <1>1
<1>3. PICK rec \in [Nat -> Record], at \in [Nat -> Nat] : Course(rec, at)
    BY <1>0, <1>2 DEF HonestInv
<1>4. SentOk(rec, at)' /\ ServerOk(at)' /\ Total' = Total
    BY <1>0, <1>3, ServerSame DEF Course
<1>t. /\ ring \in Seq(Unit) /\ Taken \in Nat /\ Total \in Nat /\ srv.hsSeq \in Nat /\ tls_read_seq \in Nat
      /\ Len(transcript) \in Nat /\ transcript \in Seq(Item) /\ df \in DfType /\ df.frags \in Seq(Frag)
      /\ Lined(ring, reader, rec, Taken, Total) /\ at[1] = 6
    BY <1>3, CourseTypes DEF Course
<1>5. CASE Incomplete
  <2>1. CASE polls + 1 = PollBudget
    <3>1. Fail /\ polls' = PollBudget /\ pc # "open"
      BY <1>5, <2>1 DEF Incomplete, Tick
    <3>2. pc' = "failed"
      BY <3>1 DEF Fail
    <3> QED BY <3>1, <3>2, GivesUp
  <2>2. CASE polls + 1 # PollBudget
    <3>1. UNCHANGED <<srv, conn, pc, transcript, tls_read_seq, shared, df, tls_state, ring, reader>>
      BY <1>5, <2>2 DEF Incomplete, Tick, session, secrets, stream
    <3>2. Course(rec, at)'
      BY <1>3, <3>1, CourseSame
    <3> QED BY <1>0, <1>3, <3>1, <3>2, StaysLive
  <2> QED BY <2>1, <2>2
<1>6. CASE ReadHeader
  <2>1. /\ reader = NoRecord /\ ring # <<>> /\ reader' = Head(ring).r /\ ring' = Tail(ring)
        /\ UNCHANGED <<srv, conn, pc, transcript, tls_read_seq, shared, df, tls_state>>
    BY <1>6 DEF ReadHeader, session, secrets
  <2>2. /\ Taken < Total /\ Head(ring) = [u |-> "head", r |-> rec[Taken]]
        /\ rec[Taken] # NoRecord => Lined(Tail(ring), rec[Taken], rec, Taken, Total)
    BY <1>t, <2>1, LinedHead
  <2>3. rec[Taken] # NoRecord
    BY <1>0, <1>3, <2>2, NextRecord
  <2>4. Lined(ring', reader', rec, Taken, Total)
    BY <2>1, <2>2, <2>3
  <2>5. ClientOk(at)' /\ Taken' = Taken
    BY <1>3, <2>1, ClientSame DEF Course
  <2>6. Course(rec, at)'
    BY <1>3, <1>4, <2>4, <2>5, <1>t DEF Course
  <2> QED BY <1>0, <1>3, <2>1, <2>6, StaysLive
<1>7. CASE BadHeader
  <2>1. reader = NoRecord /\ ring # <<>> /\ Head(ring).u # "head"
    BY <1>7 DEF BadHeader
  <2>2. Head(ring) = [u |-> "head", r |-> rec[Taken]]
    BY <1>t, <2>1, LinedHead
  <2> QED BY <2>1, <2>2
<1>8. CASE SkipCcs \/ FrameError \/ AuthError
  <2>1. Complete
    BY <1>8 DEF SkipCcs, FrameError, AuthError
  <2> QED BY <1>3, <1>8, <2>1, Welcome DEF SkipCcs, FrameError, AuthError
<1>9. ASSUME Complete
      PROVE  /\ Lined(Tail(ring), NoRecord, rec, Taken + 1, Total)
             /\ Arrived.outer # "ccs"
             /\ pc = "server_hello" => Arrived = Hello
             /\ pc = "encrypted" => Taken \in 1 .. srv.hsSeq /\ FlightRecord(Arrived, Taken, at)
    BY <1>3, <1>9, ArrivedNext, Welcome
<1>10. CASE RecvServerHello
  <2>1. /\ Complete /\ pc = "server_hello" /\ reader' = NoRecord /\ ring' = Tail(ring)
        /\ UNCHANGED <<tls_read_seq, df>>
    BY <1>10 DEF RecvServerHello, Take
  <2>2. Arrived = Hello
    BY <1>9, <2>1
  <2> DEFINE m == Plain("sh", conn)
  <2>3. IsServerHello(Arrived) /\ Arrived.frags[1].m = m
    BY <2>2 DEF IsServerHello, Hello, PlainRecord, Plain
  <2>c. m.conn = conn
    BY DEF Plain
  <2>4. /\ transcript' = Append(transcript, ItemOf(m)) /\ shared' = conn
        /\ pc' = "keys" /\ tls_state' = tls_state
    <3> HIDE DEF m
    <3> QED BY <1>10, <2>3, <2>c DEF RecvServerHello
  <2>5. shared' = conn
    BY <2>4
  <2>6. /\ Taken = 0 /\ Taken' = 1 /\ tls_read_seq' = 0
    BY <1>3, <2>1, <2>4 DEF Taken, Course, ClientOk
  <2>7. Lined(ring', reader', rec, Taken', Total')
    BY <1>4, <1>9, <2>1, <2>6
  <2>8. SameSoFar'
    <3>1. /\ Len(transcript) = 1 /\ SameSoFar
      BY <1>3, <2>1 DEF HandshakeInv, PlaceInv, InOrder, Course, ClientOk, After
    <3>2. Len(srv.tr) \in Nat /\ srv.tr[2] = ItemOf(m) /\ Len(srv.tr) >= 2
      <4>1. Total > 0
        BY <1>3, <1>t, <2>1, ArrivedNext
      <4>2. Len(srv.tr) # 1 /\ Len(srv.tr) \in 1 .. 6
        BY <1>3, <4>1 DEF Total, Course, ServerOk
      <4>3. \A n \in 1 .. 6 : n # 1 => n \in Nat /\ n > 1 /\ n >= 2
        OBVIOUS
      <4>4. Len(srv.tr) \in Nat /\ Len(srv.tr) > 1 /\ Len(srv.tr) >= 2
        BY <4>2, <4>3
      <4>5. srv.tr[2] = ItemOf(m)
        BY <1>3, <4>4 DEF Course, ServerOk
      <4> QED BY <4>4, <4>5
    <3>3. ItemOf(m) \in Item
      BY CourseTypes, PlainType, ItemType DEF HsTypes
    <3> HIDE DEF m
    <3>4. Len(transcript') = 2 /\ transcript'[1] = transcript[1] /\ transcript'[2] = ItemOf(m)
      <4>1. /\ Len(transcript') = Len(transcript) + 1 /\ transcript'[Len(transcript) + 1] = ItemOf(m)
            /\ \A i \in 1 .. Len(transcript) : transcript'[i] = transcript[i]
        BY <1>t, <2>4, <3>3
      <4>2. Len(transcript) + 1 = 2 /\ 1 \in 1 .. Len(transcript)
        BY <3>1
      <4> QED BY <4>1, <4>2
    <3>5. transcript[1] = srv.tr[1]
      BY <3>1 DEF SameSoFar, Grown
    <3>6. \A i \in 1 .. 2 : i = 1 \/ i = 2
      OBVIOUS
    <3> QED BY <1>0, <3>2, <3>4, <3>5, <3>6 DEF SameSoFar, Grown
  <2>9. ClientOk(at)'
    <3>1. tls_state # ERROR
      BY <1>3 DEF Course, ClientOk
    <3> QED BY <1>0, <2>4, <2>5, <2>6, <2>8, <3>1 DEF ClientOk, After
  <2>10. Course(rec, at)'
    BY <1>3, <1>4, <2>7, <2>9, <1>t DEF Course
  <2> QED BY <1>0, <1>3, <2>4, <2>10, StaysLive DEF Live
<1>11. CASE RecvEncrypted
  <2>1. /\ Complete /\ pc = "encrypted" /\ reader' = NoRecord /\ ring' = Tail(ring)
        /\ tls_read_seq' = tls_read_seq + 1 /\ UNCHANGED <<transcript, shared>> /\ df.frags = <<>>
    BY <1>11 DEF RecvEncrypted, Take, secrets, Complete, Receiving
  <2>2. Taken \in 1 .. srv.hsSeq /\ FlightRecord(Arrived, Taken, at) /\ Taken = 1 + tls_read_seq
    BY <1>9, <2>1 DEF Taken
  <2>3. df' = [df EXCEPT !.frags = Arrived.frags] /\ UNCHANGED <<pc, tls_state>>
    BY <1>11, <2>2 DEF RecvEncrypted, FlightRecord, session
  <2>4. df'.frags = Arrived.frags /\ df'.cur = df.cur
    BY <1>t, <2>3 DEF DfType
  <2>5. Taken' = Taken + 1
    BY <1>t, <2>1, <2>2, <2>3 DEF Taken
  <2>6. Lined(ring', reader', rec, Taken', Total')
    BY <1>4, <1>9, <2>1, <2>5
  <2>7. AllMade(df.frags, srv.tr)' /\ (df'.cur # NoMsg => Made(df.cur, srv.tr)')
    <3>1. AllMade(Arrived.frags, srv.tr) /\ (df.cur # NoMsg => Made(df.cur, srv.tr))
      BY <1>3, <2>1, <2>2 DEF FlightRecord, Course, ClientOk
    <3>2. /\ \A s : AllMade(s, srv.tr) => AllMade(s, srv.tr)'
          /\ \A m : Made(m, srv.tr) => Made(m, srv.tr)'
      BY <1>0 DEF AllMade, Made
    <3> QED BY <2>4, <3>1, <3>2
  <2>8. Spans(df'.frags, ClientAt', at[tls_read_seq' + 1])
    <3>1. ClientAt' = ClientAt
      BY <2>1, <2>4 DEF ClientAt
    <3>2. ClientAt = at[tls_read_seq + 1]
      BY <1>3, <2>1 DEF Course, ClientOk, Spans
    <3>3. tls_read_seq + 1 = Taken /\ tls_read_seq' + 1 = Taken + 1
      BY <1>t, <2>1, <2>2
    <3>4. Spans(Arrived.frags, at[Taken], at[Taken + 1])
      BY <2>2 DEF FlightRecord
    <3> QED BY <2>4, <3>1, <3>2, <3>3, <3>4
  <2>9. ClientOk(at)'
    <3>1. SameSoFar' /\ shared' = conn' /\ tls_state' # ERROR
      BY <1>0, <1>3, <2>1, <2>3 DEF Course, ClientOk, SameSoFar, Grown, After
    <3>2. tls_read_seq' <= srv'.hsSeq
      BY <1>0, <1>t, <2>1, <2>2
    <3>3. pc' = "encrypted"
      BY <2>1, <2>3
    <3> QED BY <2>7, <2>8, <3>1, <3>2, <3>3 DEF ClientOk, After
  <2>10. Course(rec, at)'
    BY <1>3, <1>4, <2>6, <2>9, <1>t DEF Course
  <2> QED BY <1>0, <1>3, <2>3, <2>10, StaysLive DEF Live
<1>12. CASE TlsRecv
  <2>1. /\ Complete /\ pc = "open" /\ reader' = NoRecord /\ ring' = Tail(ring)
        /\ tls_read_seq' = tls_read_seq + 1 /\ UNCHANGED <<pc, tls_state>>
    BY <1>12 DEF TlsRecv, Take, secrets, session
  <2>2. Taken' = Taken + 1
    <3>1. Taken = 1 + srv.hsSeq + tls_read_seq /\ Taken' = 1 + srv.hsSeq + (tls_read_seq + 1)
      BY <1>0, <2>1 DEF Taken
    <3>2. srv.hsSeq \in Nat /\ tls_read_seq \in Nat
      BY <1>t
    <3> QED BY <3>1, <3>2
  <2>3. Lined(ring', reader', rec, Taken', Total')
    BY <1>4, <1>9, <2>1, <2>2
  <2>4. FlightDone' /\ tls_state' # ERROR
    BY <1>0, <1>3, <2>1 DEF Course, ClientOk, After, FlightDone
  <2>5. ClientOk(at)'
    BY <2>1, <2>4 DEF ClientOk, After
  <2>6. Course(rec, at)'
    BY <1>3, <1>4, <2>3, <2>5, <1>t DEF Course
  <2> QED BY <1>0, <1>3, <2>1, <2>6, StaysLive
<1> QED BY <1>5, <1>6, <1>7, <1>8, <1>10, <1>11, <1>12 DEF Receive

LEMMA AtMost ==
    ASSUME NEW a \in Nat, NEW b \in Nat, NEW c \in Nat, a <= b, b <= c
    PROVE  a <= c /\ a + 1 \in 0 .. b + 1
OBVIOUS

LEMMA AtMostItself ==
    ASSUME NEW a \in Nat
    PROVE  a <= a /\ 1 \in 0 .. a + 1
OBVIOUS

\* The server moves on: what the client has of its flight stays what it was.
LEMMA ServerMoves ==
    ASSUME TypeOK, UNCHANGED client, NEW rec, NEW at, Course(rec, at),
           NEW new \in [Nat -> Record], NEW to \in [Nat -> Nat], SentOk(new, to)', ServerOk(to)',
           srv'.tr \in Seq(Item), Grown(srv.tr, srv'.tr),
           srv'.hsSeq \in Nat, srv.hsSeq <= srv'.hsSeq,
           pc \in After => FlightDone' /\ srv'.hsSeq = srv.hsSeq,
           \A k \in 0 .. srv.hsSeq + 1 : to[k] = at[k],
           Lined(ring', reader, new, Taken, Total')
    PROVE  Course(new, to)'
<1>0. /\ UNCHANGED <<conn, pc, transcript, tls_read_seq, shared, df, tls_state, reader>>
    BY DEF client, session, secrets
<1>t. /\ srv.tr \in Seq(Item) /\ df.frags \in Seq(Frag) /\ df.cur \in Msg /\ srv.hsSeq \in Nat
      /\ tls_read_seq \in Nat /\ Len(srv.tr) \in Nat /\ transcript \in Seq(Item)
    BY CourseTypes
<1>1. ClientOk(at) /\ at[1] = 6
    BY DEF Course
<1>2. Taken' = Taken
    BY <1>0 DEF Taken, After
<1>3. to[1] = 6
  <2>1. 1 \in 0 .. srv.hsSeq + 1
    BY <1>t, AtMostItself
  <2> QED BY <1>1, <2>1
<1>4. pc \notin After => SameSoFar'
    BY <1>0, <1>1, <1>t, GrownOn DEF ClientOk, SameSoFar
<1>5. ASSUME pc = "encrypted"
      PROVE  /\ tls_read_seq' <= srv'.hsSeq
             /\ AllMade(df'.frags, srv'.tr)
             /\ Spans(df'.frags, ClientAt', to[tls_read_seq' + 1])
             /\ df'.cur # NoMsg => Made(df'.cur, srv'.tr)
  <2>1. /\ tls_read_seq <= srv.hsSeq /\ AllMade(df.frags, srv.tr)
        /\ Spans(df.frags, ClientAt, at[tls_read_seq + 1])
        /\ df.cur # NoMsg => Made(df.cur, srv.tr)
    BY <1>1, <1>5 DEF ClientOk
  <2>2. tls_read_seq <= srv'.hsSeq /\ tls_read_seq + 1 \in 0 .. srv.hsSeq + 1
    BY <1>t, <2>1, AtMost
  <2>3. AllMade(df.frags, srv'.tr) /\ (df.cur # NoMsg => Made(df.cur, srv'.tr))
    BY <1>t, <2>1, AllMadeGrows, MadeGrows
  <2>4. ClientAt' = ClientAt
    BY <1>0 DEF ClientAt
  <2> QED BY <1>0, <2>1, <2>2, <2>3, <2>4
<1>6. ClientOk(to)'
  <2>1. pc' \in After => FlightDone'
    BY <1>0
  <2>2. pc' \in {"finished", "traffic"} => tls_read_seq' = srv'.hsSeq
    BY <1>0, <1>1 DEF ClientOk, After
  <2>3. /\ pc' \in {"server_hello", "keys"} => tls_read_seq' = 0
        /\ pc' \in {"keys", "encrypted"} => shared' = conn'
        /\ tls_state' # ERROR
    BY <1>0, <1>1 DEF ClientOk
  <2> QED BY <1>0, <1>4, <1>5, <2>1, <2>2, <2>3 DEF ClientOk
<1>7. Lined(ring', reader', new, Taken', Total')
    BY <1>0, <1>2
<1> QED BY <1>3, <1>6, <1>7 DEF Course

\* The records sent before stay as they were.
LEMMA SentGrows ==
    ASSUME TypeOK, NEW rec \in [Nat -> Record], NEW at, SentOk(rec, at), conn' = conn,
           srv'.tr \in Seq(Item), Grown(srv.tr, srv'.tr)
    PROVE  \A k \in 1 .. Total - 1 : k <= srv.hsSeq => FlightRecord(rec[k], k, at)'
<1>0. /\ srv.tr \in Seq(Item) /\ Total \in Nat
    BY CourseTypes
<1> TAKE k \in 1 .. Total - 1
<1> HAVE k <= srv.hsSeq
<1>1. FlightRecord(rec[k], k, at)
    BY DEF SentOk
<1>2. rec[k].frags \in Seq(Frag)
  <2>1. rec[k] \in Record
    BY <1>0
  <2> QED BY <2>1 DEF Record
<1>3. AllMade(rec[k].frags, srv'.tr)
    BY <1>0, <1>1, <1>2, AllMadeGrows DEF FlightRecord
<1> QED BY <1>1, <1>3 DEF FlightRecord

\* The server's steps.
LEMMA HonestHello ==
    ASSUME TypeOK, Calm, NEW rec \in [Nat -> Record], NEW at \in [Nat -> Nat], Course(rec, at), ServerHello
    PROVE  \E new \in [Nat -> Record], to \in [Nat -> Nat] : Course(new, to)'
<1>0. /\ UNCHANGED client /\ Len(srv.tr) = 1 /\ conn' = conn
    BY DEF ServerHello, client, session
<1>t. /\ srv \in SrvType /\ srv.tr \in Seq(Item) /\ conn \in Conns /\ srv.hsSeq \in Nat /\ Taken \in Nat
      /\ ring \in Seq(Unit)
    BY CourseTypes
<1> DEFINE m == Plain("sh", conn)
           x == ItemOf(m)
           g == Append(srv.tr, x)
           l == Hello
<1>1. /\ srv' = [srv EXCEPT !.tr = g, !.last = l]
      /\ ring' = ring \o Units(l)
  <2>1. PICK z \in {Plain("sh", conn)} : LET r == PlainRecord("hs", <<[m |-> z, part |-> "whole"]>>) IN
            /\ srv' = [srv EXCEPT !.tr = Append(@, ItemOf(z)), !.last = r]
            /\ ring' = ring \o Units(r)
    BY DEF ServerHello, Calm
  <2>2. z = Plain("sh", conn)
    BY <2>1
  <2> QED BY <2>1, <2>2 DEF Hello
<1>2. x \in Item /\ l \in Record
  <2>1. m \in Msg
    BY <1>t, PlainType DEF HsTypes
  <2>2. <<[m |-> m, part |-> "whole"]>> \in Seq(Frag)
    BY <2>1 DEF Frag
  <2> QED BY <2>1, <2>2, ItemType, RecordType DEF Hello
<1> HIDE DEF x
<1>5. /\ g \in Seq(Item) /\ Grown(srv.tr, g) /\ Len(g) = 2 /\ g[2] = x
  <2>1. g \in Seq(Item) /\ Grown(srv.tr, g) /\ Len(g) = Len(srv.tr) + 1 /\ g[Len(srv.tr) + 1] = x
    BY <1>t, <1>2, GrownAppend
  <2>2. Len(srv.tr) + 1 = 2
    BY <1>0
  <2> QED BY <2>1, <2>2
<1> HIDE DEF g, l
<1>3. /\ srv'.tr = g /\ srv'.out = srv.out /\ srv'.half = srv.half
      /\ srv'.hsSeq = srv.hsSeq /\ srv'.appSeq = srv.appSeq
    BY <1>1, <1>t DEF SrvType
<1>4. /\ srv.hsSeq = 0 /\ srv.appSeq = 0 /\ srv.out = <<>> /\ srv.half = NoMsg /\ Total = 0
      /\ at[1] = 6 /\ Lined(ring, reader, rec, Taken, Total) /\ srv.tr[1].conn = conn
    BY <1>0 DEF Course, ServerOk, Total
<1>4a. pc \notin After
    BY <1>0 DEF Course, ClientOk, FlightDone
<1>6. Total' = 1 /\ ServerAt' = 6 /\ Hello' = l
  <2>1. Len(srv'.tr) = 2 /\ srv'.hsSeq = 0 /\ srv'.appSeq = 0 /\ srv'.half = NoMsg
    BY <1>3, <1>4, <1>5
  <2>2. Total' = 1
    BY <2>1 DEF Total
  <2>3. ServerAt' = 6
    BY <2>1 DEF ServerAt
  <2> QED BY <1>0, <2>2, <2>3 DEF Hello, l
<1>7. PICK new \in [Nat -> Record] : new[0] = l
  <2>1. [rec EXCEPT ![0] = l] \in [Nat -> Record] /\ [rec EXCEPT ![0] = l][0] = l
    BY <1>2
  <2> QED BY <2>1
<1>8. SentOk(new, at)'
  <2>1. \A k \in 1 .. 1 - 1 : FALSE
    OBVIOUS
  <2> QED BY <1>6, <1>7, <2>1 DEF SentOk
<1>9. ServerOk(at)'
  <2>1. AllMade(srv'.out, srv'.tr)
    <3>1. srv'.out = <<>> /\ Len(<<>>) = 0
      BY <1>3, <1>4
    <3> QED BY <3>1 DEF AllMade
  <2>2. srv'.tr[2] = ItemOf(Plain("sh", conn'))
    BY <1>0, <1>3, <1>5 DEF x
  <2>3. Spans(srv'.out, at[srv'.hsSeq + 1], ServerAt')
    <3>1. srv'.hsSeq + 1 = 1 /\ srv'.out = <<>>
      BY <1>3, <1>4
    <3> QED BY <1>4, <1>6, <3>1 DEF Spans
  <2>4. srv'.half = NoMsg /\ srv'.appSeq = 0 /\ Len(srv'.tr) = 2
    BY <1>3, <1>4, <1>5
  <2>5. srv'.tr[1].conn = conn'
    <3>1. 1 \in 1 .. Len(srv.tr)
      BY <1>0
    <3> QED BY <1>0, <1>3, <1>4, <1>5, <3>1 DEF Grown
  <2>6. 2 \in 1 .. 6 /\ 2 # 1 /\ ~(0 > 0)
    OBVIOUS
  <2> QED BY <2>1, <2>2, <2>3, <2>4, <2>5, <2>6 DEF ServerOk
<1>10. Lined(ring', reader, new, Taken, Total')
  <2>1. Lined(ring, reader, rec, Taken, 0)
    BY <1>4
  <2>4. Taken \in Nat => \A k \in Taken .. 0 - 1 : FALSE
    OBVIOUS
  <2>2. Lined(ring \o Units(l), reader, new, Taken, 0 + 1)
    BY <1>t, <1>2, <1>7, <2>1, <2>4, LinedPut
  <2>3. 0 + 1 = 1
    OBVIOUS
  <2> QED BY <1>1, <1>6, <2>2, <2>3
<1>11. Course(new, at)'
  <2>1. srv'.hsSeq \in Nat /\ srv.hsSeq <= srv'.hsSeq
    BY <1>3, <1>t, AtMostItself
  <2>2. srv'.tr \in Seq(Item) /\ Grown(srv.tr, srv'.tr)
    BY <1>3, <1>5
  <2> HIDE DEF Course
  <2> QED BY <1>0, <1>4a, <1>7, <1>8, <1>9, <1>10, <2>1, <2>2, ServerMoves DEF After
<1> QED BY <1>7, <1>11

LEMMA Several ==
    ASSUME NEW a \in Nat, a > 1
    PROVE  a # 1 /\ 1 \in 1 .. a /\ 2 \in 1 .. a /\ (a \in 1 .. 6 => a \in 2 .. 6)
OBVIOUS

LEMMA TwoToSix ==
    ASSUME NEW a \in 2 .. 6
    PROVE  a # 1 /\ a \in 1 .. 6 /\ a \in Nat
OBVIOUS

LEMMA TwoToFive ==
    ASSUME NEW n, n \in 2 .. 5, NEW b, b = n + 1
    PROVE  n \in {2, 3, 4, 5} /\ b \in 2 .. 6 /\ n # 6 /\ 1 \in 1 .. n
OBVIOUS

LEMMA FlightOrder == Flight[2] = "ee" /\ Flight[3] = "cert" /\ Flight[4] = "cv" /\ Flight[5] = "fin"
BY DEF Flight

\* The server puts a fragment behind those it has not sent.
LEMMA QueueMoves ==
    ASSUME TypeOK, NEW rec \in [Nat -> Record], NEW at \in [Nat -> Nat], Course(rec, at), UNCHANGED <<client, ring>>,
           NEW f \in Frag, Made(f.m, srv'.tr), From(f) = ServerAt, To(f) = ServerAt',
           srv'.tr \in Seq(Item), Grown(srv.tr, srv'.tr), Len(srv.tr) > 1, Len(srv'.tr) \in 2 .. 6,
           srv'.out = Append(srv.out, f), srv'.hsSeq = srv.hsSeq, srv'.appSeq = srv.appSeq,
           srv'.half # NoMsg => srv'.half = f.m /\ Pos(f.m.t) = Len(srv'.tr),
           ~FlightDone
    PROVE  Course(rec, at)'
<1>0. UNCHANGED <<conn, reader>>
    BY DEF client, session
<1>t. /\ srv.tr \in Seq(Item) /\ srv.out \in Seq(Frag) /\ Len(srv.tr) \in Nat /\ srv.hsSeq \in Nat
      /\ srv.appSeq \in Nat /\ Total \in Nat
    BY CourseTypes
<1>1. /\ SentOk(rec, at) /\ ServerOk(at) /\ ClientOk(at) /\ Lined(ring, reader, rec, Taken, Total)
    BY DEF Course
<1>n. Len(srv'.tr) # 1 /\ Len(srv.tr) # 1 /\ Len(srv'.tr) \in 1 .. 6
    BY <1>t, Several, TwoToSix
<1>2. pc \notin After /\ ~(srv.appSeq > 0)
    BY <1>1 DEF ServerOk, ClientOk
<1>3. Total' = Total
    BY <1>n DEF Total
<1>4. SentOk(rec, at)'
  <2>1. \A k \in 1 .. Total - 1 : k <= srv.hsSeq => FlightRecord(rec[k], k, at)'
    BY <1>0, <1>1, SentGrows
  <2>2. \A k \in 1 .. Total - 1 : ~(k <= srv.hsSeq) => LateRecord(rec[k], k)'
    BY <1>0, <1>1 DEF SentOk, LateRecord
  <2>3. Hello' = Hello
    BY <1>0 DEF Hello
  <2> QED BY <1>1, <1>3, <2>1, <2>2, <2>3 DEF SentOk
<1>5. ServerOk(at)'
  <2>1. AllMade(srv.out, srv.tr)
    BY <1>1 DEF ServerOk
  <2>2. AllMade(srv.out, srv'.tr)
    BY <1>t, <2>1, AllMadeGrows
  <2>3. AllMade(srv'.out, srv'.tr)
    BY <1>t, <2>2, AllMadeAppend
  <2>4. Spans(srv'.out, at[srv'.hsSeq + 1], ServerAt')
    <3>1. Spans(srv.out, at[srv.hsSeq + 1], ServerAt)
      BY <1>1 DEF ServerOk
    <3> QED BY <1>t, <3>1, SpansAppend
  <2>5. srv'.tr[2] = ItemOf(Plain("sh", conn')) /\ srv'.tr[1].conn = conn'
    <3>1. srv.tr[2] = ItemOf(Plain("sh", conn)) /\ srv.tr[1].conn = conn
      BY <1>1 DEF ServerOk
    <3>2. 1 \in 1 .. Len(srv.tr) /\ 2 \in 1 .. Len(srv.tr)
      BY <1>t, Several
    <3> QED BY <1>0, <3>1, <3>2 DEF Grown
  <2>6. srv'.half # NoMsg => Made(srv'.half, srv'.tr) /\ Pos(srv'.half.t) = Len(srv'.tr)
    OBVIOUS
  <2>7. ~(srv'.appSeq > 0)
    BY <1>2
  <2> QED BY <1>n, <2>3, <2>4, <2>5, <2>6, <2>7 DEF ServerOk
<1>6. Lined(ring', reader, rec, Taken, Total')
    BY <1>1, <1>3
<1>7. srv'.hsSeq \in Nat /\ srv.hsSeq <= srv'.hsSeq
    BY <1>t, AtMostItself
<1> QED BY <1>2, <1>4, <1>5, <1>6, <1>7, ServerMoves

LEMMA HonestQueue ==
    ASSUME TypeOK, Calm, NEW rec \in [Nat -> Record], NEW at \in [Nat -> Nat], Course(rec, at), ServerQueue
    PROVE  Course(rec, at)'
<1>0. /\ UNCHANGED <<client, ring>> /\ Len(srv.tr) > 1
    BY DEF ServerQueue
<1>t. /\ srv \in SrvType /\ srv.tr \in Seq(Item) /\ srv.out \in Seq(Frag) /\ srv.half \in Msg
      /\ Len(srv.tr) \in Nat /\ srv.hsSeq \in Nat /\ conn \in Conns
    BY CourseTypes
<1>1. ServerOk(at)
    BY DEF Course
<1>2. srv.tr[1].conn = conn /\ Len(srv.tr) \in 1 .. 6
    BY <1>1 DEF ServerOk
<1>3. CASE srv.half = NoMsg
  <2>1. PICK m \in Offers, p \in {"whole", "first"} :
                srv' = [srv EXCEPT !.tr = Append(@, ItemOf(m)), !.half = IF p = "first" THEN m ELSE NoMsg,
                                   !.out = Append(@, [m |-> m, part |-> p])]
    BY <1>3 DEF ServerQueue
  <2>2. /\ Len(srv.tr) \in 2 .. 5 /\ m.t = Flight[Len(srv.tr)]
        /\ m.t \in {"cv", "fin"} => m.over = srv.tr
        /\ m.t = "cv" => m.key = srv.tr[4].key
    BY DEF Offers, Calm
  <2>3. m \in Msg /\ m.conn = conn
    <3>1. PICK t \in {"ee", "cert", "cv", "fin", "nst"}, k \in Keys \cup {NoKey}, n \in BOOLEAN, o \in {srv.tr, <<>>} :
              m = Message(t, k, n, o)
      BY DEF Offers
    <3>2. <<>> \in Seq(Item)
      OBVIOUS
    <3>3. o \in Seq(Item) /\ t \in HsTypes
      BY <1>t, <3>1, <3>2 DEF HsTypes
    <3> QED BY <1>t, <3>1, <3>3 DEF Message, Msg
  <2> DEFINE f == [m |-> m, part |-> p]
             x == ItemOf(m)
             h == IF p = "first" THEN m ELSE NoMsg
             g == Append(srv.tr, x)
             o == Append(srv.out, f)
             n == Len(srv.tr)
  <2>4. f \in Frag /\ x \in Item /\ f.m = m /\ f.part = p
    BY <2>3, ItemType DEF Frag
  <2>5. srv' = [srv EXCEPT !.tr = g, !.half = h, !.out = o]
    BY <2>1
  <2>6. /\ g \in Seq(Item) /\ Grown(srv.tr, g) /\ n \in Nat /\ Len(g) = n + 1 /\ g[n + 1] = x
    <3> HIDE DEF x
    <3> QED BY <1>t, <2>4, GrownAppend
  <2>7. n \in {2, 3, 4, 5} /\ Len(g) \in 2 .. 6 /\ n # 6 /\ 1 \in 1 .. n
    BY <2>2, <2>6, TwoToFive
  <2> HIDE DEF f, h, x, g, o, n
  <2>8. /\ srv'.tr = g /\ srv'.out = o /\ srv'.half = h
        /\ srv'.hsSeq = srv.hsSeq /\ srv'.appSeq = srv.appSeq
    BY <1>t, <2>5 DEF SrvType
  <2>9. Pos(m.t) = n + 1 /\ m.t \in {"ee", "cert", "cv", "fin"} /\ (m.t = "cv" => n = 4)
    <3>1. /\ n = 2 => m.t = "ee"
          /\ n = 3 => m.t = "cert"
          /\ n = 4 => m.t = "cv"
          /\ n = 5 => m.t = "fin"
      BY <2>2, FlightOrder DEF n
    <3> QED BY <2>7, <3>1 DEF Pos
  <2>10. Made(m, g)
    <3>1. Pos(m.t) <= Len(g) /\ g[Pos(m.t)] = ItemOf(m)
      BY <2>6, <2>9 DEF x
    <3>2. m.t \in {"cv", "fin"} =>
            Len(m.over) = Pos(m.t) - 1 /\ \A i \in 1 .. Pos(m.t) - 1 : m.over[i] = g[i]
      <4>1. Pos(m.t) - 1 = n
        BY <2>6, <2>9
      <4>2. \A i \in 1 .. n : srv.tr[i] = g[i]
        BY <2>6 DEF Grown, n
      <4> QED BY <2>2, <4>1, <4>2 DEF n
    <3>3. m.t = "cv" => m.key = g[4].key
      <4>1. m.t = "cv" => 4 \in 1 .. n
        BY <2>9
      <4>2. \A i \in 1 .. n : srv.tr[i] = g[i]
        BY <2>6 DEF Grown, n
      <4> QED BY <2>2, <4>1, <4>2
    <3>4. m.conn = g[1].conn
      <4>1. 1 \in 1 .. n
        BY <2>7
      <4>2. g[1] = srv.tr[1]
        BY <2>6, <4>1 DEF Grown, n
      <4> QED BY <1>2, <2>3, <4>2
    <3> HIDE DEF Pos
    <3> QED BY <2>9, <3>1, <3>2, <3>3, <3>4 DEF Made
  <2>11. From(f) = ServerAt /\ To(f) = ServerAt'
    <3>1. ServerAt = 2 * n + 2
      BY <1>3 DEF ServerAt, n
    <3>2. From(f) = 2 * (n + 1)
      BY <2>4, <2>9 DEF From
    <3>3. 2 * (n + 1) = 2 * n + 2
      BY <2>6
    <3>4. CASE p = "first"
      <4>1. srv'.half # NoMsg
        BY <2>8, <2>9, <3>4 DEF h, NoMsg, Plain
      <4>2. To(f) = 2 * (n + 1) + 1
        BY <2>4, <2>9, <3>4 DEF To
      <4>3. ServerAt' = 2 * (n + 1) + 1
        BY <2>6, <2>8, <4>1 DEF ServerAt
      <4> QED BY <3>1, <3>2, <3>3, <4>2, <4>3
    <3>5. CASE p = "whole"
      <4>1. srv'.half = NoMsg
        BY <2>8, <3>5 DEF h
      <4>2. To(f) = 2 * (n + 1) + 2
        BY <2>4, <2>9, <3>5 DEF To
      <4>3. ServerAt' = 2 * (n + 1) + 2
        BY <2>6, <2>8, <4>1 DEF ServerAt
      <4> QED BY <3>1, <3>2, <3>3, <4>2, <4>3
    <3> QED BY <3>4, <3>5
  <2>12. srv'.half # NoMsg => srv'.half = f.m /\ Pos(f.m.t) = Len(srv'.tr)
    BY <2>4, <2>6, <2>8, <2>9 DEF h
  <2>13. ~FlightDone
    BY <2>7 DEF FlightDone, n
  <2>14. srv'.out = Append(srv.out, f)
    BY <2>8 DEF o
  <2>15. srv'.tr \in Seq(Item) /\ Grown(srv.tr, srv'.tr) /\ Len(srv'.tr) \in 2 .. 6 /\ Made(f.m, srv'.tr)
    BY <2>4, <2>6, <2>7, <2>8, <2>10
  <2> QED BY <1>0, <2>4, <2>8, <2>11, <2>12, <2>13, <2>14, <2>15, QueueMoves
<1>4. CASE srv.half # NoMsg
  <2> DEFINE f == [m |-> srv.half, part |-> "last"]
             o == Append(srv.out, f)
  <2>1. srv' = [srv EXCEPT !.out = o, !.half = NoMsg]
    BY <1>4 DEF ServerQueue
  <2>2. f \in Frag /\ f.m = srv.half /\ f.part = "last"
    BY <1>t DEF Frag
  <2> HIDE DEF f, o
  <2>3. /\ srv'.tr = srv.tr /\ srv'.out = o /\ srv'.half = NoMsg
        /\ srv'.hsSeq = srv.hsSeq /\ srv'.appSeq = srv.appSeq
    BY <1>t, <2>1 DEF SrvType
  <2>4. Made(srv.half, srv.tr) /\ Pos(srv.half.t) = Len(srv.tr)
    BY <1>1, <1>4 DEF ServerOk
  <2>5. From(f) = ServerAt /\ To(f) = ServerAt'
    <3>1. From(f) = 2 * Len(srv.tr) + 1 /\ To(f) = 2 * Len(srv.tr) + 2
      BY <2>2, <2>4 DEF From, To
    <3>2. ServerAt = 2 * Len(srv.tr) + 1 /\ ServerAt' = 2 * Len(srv.tr) + 2
      BY <1>4, <2>3 DEF ServerAt
    <3> QED BY <3>1, <3>2
  <2>6. Len(srv'.tr) \in 2 .. 6
    BY <1>0, <1>2, <1>t, <2>3, Several
  <2>7. ~FlightDone
    BY <1>4 DEF FlightDone
  <2>8. srv'.out = Append(srv.out, f)
    BY <2>3 DEF o
  <2>9. srv'.tr \in Seq(Item) /\ Grown(srv.tr, srv'.tr) /\ Made(f.m, srv'.tr)
    BY <1>t, <2>2, <2>3, <2>4, GrownSame
  <2> QED BY <1>0, <2>2, <2>3, <2>5, <2>6, <2>7, <2>8, <2>9, QueueMoves
<1> QED BY <1>3, <1>4

LEMMA Sums ==
    ASSUME NEW h \in Nat, NEW a \in Nat
    PROVE  h + 1 \in Nat /\ 1 + h + a \in Nat
OBVIOUS

LEMMA OneMore ==
    ASSUME NEW h \in Nat, NEW a \in Nat, NEW n \in Nat, n = 1 + h + a
    PROVE  /\ 1 + h + (a + 1) = n + 1 /\ n > 0 /\ n + 1 > 0 /\ 0 # n
           /\ n - 1 - h = a /\ ~(n <= h)
           /\ \A k \in 1 .. (n + 1) - 1 : k \in 1 .. n - 1 \/ k = n
           /\ \A k \in 1 .. n - 1 : k \in Nat /\ k # n
           /\ \A x \in Nat : \A k \in x .. n - 1 : k \in Nat /\ k # n
OBVIOUS

LEMMA MoreRecords ==
    ASSUME NEW f \in [Nat -> Record], NEW n \in Nat, NEW x \in Record
    PROVE  \E g \in [Nat -> Record] : g[n] = x /\ \A k \in Nat : k # n => g[k] = f[k]
<1>1. /\ [f EXCEPT ![n] = x] \in [Nat -> Record] /\ [f EXCEPT ![n] = x][n] = x
      /\ \A k \in Nat : k # n => [f EXCEPT ![n] = x][k] = f[k]
    OBVIOUS
<1> QED BY <1>1

LEMMA MorePoints ==
    ASSUME NEW f \in [Nat -> Nat], NEW n \in Nat, NEW x \in Nat
    PROVE  \E g \in [Nat -> Nat] : g[n] = x /\ \A k \in Nat : k # n => g[k] = f[k]
<1>1. /\ [f EXCEPT ![n] = x] \in [Nat -> Nat] /\ [f EXCEPT ![n] = x][n] = x
      /\ \A k \in Nat : k # n => [f EXCEPT ![n] = x][k] = f[k]
    OBVIOUS
<1> QED BY <1>1

\* Another record of the flight, and the point at which the one behind it begins.
LEMMA HonestFlush ==
    ASSUME TypeOK, NEW rec \in [Nat -> Record], NEW at \in [Nat -> Nat], Course(rec, at), ServerFlush
    PROVE  \E new \in [Nat -> Record], to \in [Nat -> Nat] : Course(new, to)'
<1>t. /\ srv \in SrvType /\ srv.tr \in Seq(Item) /\ srv.out \in Seq(Frag) /\ srv.hsSeq \in Nat
      /\ Total \in Nat /\ Taken \in Nat /\ ring \in Seq(Unit) /\ conn \in Conns /\ ServerAt \in Nat
      /\ Len(srv.tr) \in Nat
    BY CourseTypes
<1>n. PICK n \in Nat : n = srv.hsSeq + 1
  <2>1. srv.hsSeq + 1 \in Nat
    BY <1>t, Sums
  <2> QED BY <2>1
<1>2. PICK r \in Record : r = [outer |-> "app", key |-> <<conn, "hs">>, seq |-> srv.hsSeq, inner |-> "hs",
                              frags |-> srv.out]
  <2>1. [outer |-> "app", key |-> <<conn, "hs">>, seq |-> srv.hsSeq, inner |-> "hs", frags |-> srv.out] \in Record
    BY <1>t DEF Record, Epochs
  <2> QED BY <2>1
<1>0. /\ UNCHANGED client /\ srv.out # <<>> /\ conn' = conn
      /\ srv' = [srv EXCEPT !.out = <<>>, !.hsSeq = n, !.last = r] /\ ring' = ring \o Units(r)
    BY <1>n, <1>2 DEF ServerFlush, client, session
<1>1. /\ SentOk(rec, at) /\ ServerOk(at) /\ ClientOk(at) /\ Lined(ring, reader, rec, Taken, Total)
    BY DEF Course
<1>r. /\ r.outer = "app" /\ r.key = <<conn, "hs">> /\ r.seq = srv.hsSeq /\ r.inner = "hs"
      /\ r.frags = srv.out
    BY <1>2
<1>3. /\ srv'.tr = srv.tr /\ srv'.out = <<>> /\ srv'.half = srv.half
      /\ srv'.hsSeq = n /\ srv'.appSeq = srv.appSeq
    BY <1>0, <1>t DEF SrvType
<1>4. /\ Len(srv.tr) \in 1 .. 6 /\ Len(srv.tr) # 1 /\ ~FlightDone /\ ~(srv.appSeq > 0) /\ pc \notin After
    BY <1>0, <1>1 DEF ServerOk, FlightDone, ClientOk
<1>5. srv.appSeq = 0
  <2>1. srv.appSeq \in Nat
    BY CourseTypes
  <2>2. \A a \in Nat : ~(a > 0) => a = 0
    OBVIOUS
  <2> QED BY <1>4, <2>1, <2>2
<1>6. /\ n \in Nat /\ srv.hsSeq <= n /\ n + 1 = srv.hsSeq + 2 /\ n - 1 = srv.hsSeq
      /\ \A k \in 1 .. srv.hsSeq : k \in 0 .. n /\ k + 1 \in 0 .. n /\ k <= srv.hsSeq
      /\ n \in 0 .. n /\ \A k \in 0 .. n : k \in Nat /\ k # n + 1
      /\ \A k \in 1 .. (n + 1) - 1 : k \in 1 .. srv.hsSeq \/ k = n
      /\ \A k \in 1 .. (n + 1) - 1 : k <= n
      /\ \A a \in Nat : \A k \in a .. n - 1 : k \in Nat /\ k # n
      /\ \A k \in 1 .. srv.hsSeq : k \in Nat /\ k # n /\ k \in 1 .. n - 1
      /\ 0 # n /\ n > 0 /\ 1 + srv.hsSeq + 0 = n /\ 1 + n + 0 = n + 1 /\ n + 1 > 0
  <2>1. srv.hsSeq \in Nat
    BY <1>t
  <2>2. \A h \in Nat :
      /\ h + 1 \in Nat /\ h <= h + 1 /\ (h + 1) + 1 = h + 2 /\ (h + 1) - 1 = h
      /\ \A k \in 1 .. h : k \in 0 .. h + 1 /\ k + 1 \in 0 .. h + 1 /\ k <= h
      /\ h + 1 \in 0 .. h + 1 /\ \A k \in 0 .. h + 1 : k \in Nat /\ k # (h + 1) + 1
      /\ \A k \in 1 .. ((h + 1) + 1) - 1 : k \in 1 .. h \/ k = h + 1
      /\ \A k \in 1 .. ((h + 1) + 1) - 1 : k <= h + 1
      /\ \A a \in Nat : \A k \in a .. (h + 1) - 1 : k \in Nat /\ k # h + 1
      /\ \A k \in 1 .. h : k \in Nat /\ k # h + 1 /\ k \in 1 .. (h + 1) - 1
      /\ 0 # h + 1 /\ h + 1 > 0 /\ 1 + h + 0 = h + 1 /\ 1 + (h + 1) + 0 = (h + 1) + 1 /\ (h + 1) + 1 > 0
    OBVIOUS
  <2> QED BY <1>n, <2>1, <2>2
<1>7. Total = n /\ Total' = n + 1 /\ Hello' = Hello /\ ServerAt' = ServerAt
  <2>1. Total = 1 + srv.hsSeq + 0 /\ Total' = 1 + n + 0
    BY <1>3, <1>4, <1>5 DEF Total
  <2>2. Hello' = Hello /\ ServerAt' = ServerAt
    BY <1>0, <1>3 DEF Hello, ServerAt
  <2> QED BY <1>6, <2>1, <2>2
<1>8. PICK new \in [Nat -> Record] : new[n] = r /\ \A k \in Nat : k # n => new[k] = rec[k]
  <2>1. \A q \in Nat, x \in Record :
          \E new \in [Nat -> Record] : new[q] = x /\ \A k \in Nat : k # q => new[k] = rec[k]
    BY MoreRecords
  <2> QED BY <2>1
<1>9. PICK to \in [Nat -> Nat] : to[n + 1] = ServerAt /\ \A k \in Nat : k # n + 1 => to[k] = at[k]
  <2>1. n + 1 \in Nat
    BY <1>6
  <2>2. ServerAt \in Nat
    BY <1>t
  <2>3. \A q \in Nat, p \in Nat : \E to \in [Nat -> Nat] : to[q] = p /\ \A k \in Nat : k # q => to[k] = at[k]
    BY MorePoints
  <2> QED BY <2>1, <2>2, <2>3
<1>10. \A k \in 0 .. n : to[k] = at[k]
    BY <1>6, <1>9
<1>11. SentOk(new, to)'
  <2>1. new[0] = Hello
    <3>1. rec[0] = Hello
      BY <1>1, <1>6, <1>7 DEF SentOk
    <3> QED BY <1>6, <1>8, <3>1
  <2>2. ASSUME NEW k \in 1 .. srv.hsSeq PROVE FlightRecord(new[k], k, to)'
    <3>1. FlightRecord(rec[k], k, at)
      BY <1>1, <1>6, <1>7 DEF SentOk
    <3>2. new[k] = rec[k] /\ to[k] = at[k] /\ to[k + 1] = at[k + 1]
      BY <1>6, <1>8, <1>10
    <3> QED BY <1>0, <1>3, <3>1, <3>2 DEF FlightRecord
  <2>3. FlightRecord(new[n], n, to)'
    <3>1. AllMade(srv.out, srv.tr) /\ Spans(srv.out, at[n], ServerAt)
      <4>1. Len(srv.tr) > 1
        <5>1. \A a \in 1 .. 6 : a # 1 => a > 1
          OBVIOUS
        <5> QED BY <1>4, <5>1
      <4> QED BY <1>1, <1>n, <4>1 DEF ServerOk
    <3>2. to[n] = at[n] /\ to[n + 1] = ServerAt
      BY <1>6, <1>9, <1>10
    <3>3. r.seq = n - 1
      BY <1>r, <1>6
    <3>4. new[n] = r /\ conn' = conn /\ srv'.tr = srv.tr /\ srv.out # <<>>
      BY <1>0, <1>3, <1>8
    <3> QED BY <1>r, <3>1, <3>2, <3>3, <3>4 DEF FlightRecord
  <2>4. \A k \in 1 .. Total' - 1 : k <= srv'.hsSeq /\ FlightRecord(new[k], k, to)'
    BY <1>3, <1>6, <1>7, <2>2, <2>3
  <2> QED BY <1>7, <2>1, <2>4 DEF SentOk
<1>12. ServerOk(to)'
  <2>1. AllMade(srv'.out, srv'.tr)
    <3>1. srv'.out = <<>> /\ Len(<<>>) = 0
      BY <1>3
    <3> QED BY <3>1 DEF AllMade
  <2>2. Spans(srv'.out, to[srv'.hsSeq + 1], ServerAt')
    BY <1>3, <1>7, <1>9 DEF Spans
  <2>3. /\ Len(srv.tr) > 1 => srv.tr[2] = ItemOf(Plain("sh", conn))
        /\ srv.tr[1].conn = conn
        /\ srv.half # NoMsg => Made(srv.half, srv.tr) /\ Pos(srv.half.t) = Len(srv.tr)
    BY <1>1 DEF ServerOk
  <2>4. ~(srv'.appSeq > 0)
    BY <1>3, <1>4
  <2>5. /\ Len(srv'.tr) > 1 => srv'.tr[2] = ItemOf(Plain("sh", conn'))
        /\ srv'.tr[1].conn = conn'
        /\ srv'.half # NoMsg => Made(srv'.half, srv'.tr) /\ Pos(srv'.half.t) = Len(srv'.tr)
        /\ Len(srv'.tr) \in 1 .. 6 /\ Len(srv'.tr) # 1
    BY <1>0, <1>3, <1>4, <2>3
  <2> QED BY <2>1, <2>2, <2>4, <2>5 DEF ServerOk
<1>13. Lined(ring', reader, new, Taken, Total')
  <2>1. \A k \in Taken .. n - 1 : new[k] = rec[k]
    BY <1>t, <1>6, <1>8
  <2>2. Lined(ring, reader, rec, Taken, n)
    BY <1>1, <1>7
  <2>3. Lined(ring \o Units(r), reader, new, Taken, n + 1)
    BY <1>t, <1>8, <2>1, <2>2, LinedPut
  <2> QED BY <1>0, <1>7, <2>3
<1>14. Course(new, to)'
  <2>1. srv'.tr \in Seq(Item) /\ Grown(srv.tr, srv'.tr)
    BY <1>3, <1>t, GrownSame
  <2>2. srv'.hsSeq \in Nat /\ srv.hsSeq <= srv'.hsSeq
    BY <1>3, <1>6
  <2>3. \A k \in 0 .. srv.hsSeq + 1 : to[k] = at[k]
    BY <1>n, <1>10
  <2> QED BY <1>0, <1>4, <1>11, <1>12, <1>13, <2>1, <2>2, <2>3, ServerMoves
<1> QED BY <1>14

LEMMA HonestData ==
    ASSUME TypeOK, NEW rec \in [Nat -> Record], NEW at \in [Nat -> Nat], Course(rec, at), ServerData
    PROVE  \E new \in [Nat -> Record], to \in [Nat -> Nat] : Course(new, to)'
<1>1. PICK i \in {"hs", "app", "alert"} :
        LET r == [outer |-> "app", key |-> <<conn, "app">>, seq |-> srv.appSeq, inner |-> i,
                  frags |-> <<>>] IN
        /\ srv' = [srv EXCEPT !.appSeq = @ + 1, !.last = r,
                              !.app = IF i = "app" THEN Append(@, srv.appSeq) ELSE @]
        /\ ring' = ring \o Units(r)
    BY DEF ServerData
<1>t. /\ srv \in SrvType /\ srv.tr \in Seq(Item) /\ srv.hsSeq \in Nat /\ srv.appSeq \in Nat
      /\ Total \in Nat /\ Taken \in Nat /\ ring \in Seq(Unit) /\ conn \in Conns /\ Len(srv.tr) \in Nat
    BY CourseTypes
<1>n. PICK n \in Nat : n = 1 + srv.hsSeq + srv.appSeq
  <2>1. 1 + srv.hsSeq + srv.appSeq \in Nat
    BY <1>t, Sums
  <2> QED BY <2>1
<1>2. PICK r \in Record : r = [outer |-> "app", key |-> <<conn, "app">>, seq |-> srv.appSeq, inner |-> i,
                              frags |-> <<>>]
  <2>1. [outer |-> "app", key |-> <<conn, "app">>, seq |-> srv.appSeq, inner |-> i, frags |-> <<>>] \in Record
    BY <1>t DEF Record, Epochs
  <2> QED BY <2>1
<1> DEFINE a == srv.appSeq + 1
           d == IF i = "app" THEN Append(srv.app, srv.appSeq) ELSE srv.app
<1>0. /\ UNCHANGED client /\ srv.out = <<>> /\ srv.half = NoMsg /\ Len(srv.tr) >= 6 /\ conn' = conn
      /\ srv' = [srv EXCEPT !.appSeq = a, !.last = r, !.app = d] /\ ring' = ring \o Units(r)
    BY <1>1, <1>2 DEF ServerData, client, session
<1>r. /\ r.outer = "app" /\ r.key = <<conn, "app">> /\ r.seq = srv.appSeq
      /\ r.inner \in {"hs", "app", "alert"}
    BY <1>2
<1> HIDE DEF a, d
<1>3. /\ srv'.tr = srv.tr /\ srv'.out = srv.out /\ srv'.half = srv.half
      /\ srv'.hsSeq = srv.hsSeq /\ srv'.appSeq = a
    BY <1>0, <1>t DEF SrvType
<1>4. /\ SentOk(rec, at) /\ ServerOk(at) /\ ClientOk(at) /\ Lined(ring, reader, rec, Taken, Total)
    BY DEF Course
<1>5. Len(srv.tr) = 6 /\ FlightDone /\ FlightDone'
  <2>1. Len(srv.tr) \in 1 .. 6
    BY <1>4 DEF ServerOk
  <2>2. \A x \in 1 .. 6 : x >= 6 => x = 6
    OBVIOUS
  <2> QED BY <1>0, <1>3, <2>1, <2>2 DEF FlightDone
<1>6. /\ n \in Nat /\ 1 + srv.hsSeq + a = n + 1 /\ n > 0 /\ n + 1 > 0 /\ 0 # n
      /\ n - 1 - srv.hsSeq = srv.appSeq /\ ~(n <= srv.hsSeq)
      /\ \A k \in 1 .. (n + 1) - 1 : k \in 1 .. n - 1 \/ k = n
      /\ \A k \in 1 .. n - 1 : k \in Nat /\ k # n
      /\ \A x \in Nat : \A k \in x .. n - 1 : k \in Nat /\ k # n
  <2>1. srv.hsSeq \in Nat /\ srv.appSeq \in Nat
    BY <1>t
  <2>2. \A h \in Nat, b \in Nat : n = 1 + h + b =>
          /\ 1 + h + (b + 1) = n + 1 /\ n > 0 /\ n + 1 > 0 /\ 0 # n
          /\ n - 1 - h = b /\ ~(n <= h)
          /\ \A k \in 1 .. (n + 1) - 1 : k \in 1 .. n - 1 \/ k = n
          /\ \A k \in 1 .. n - 1 : k \in Nat /\ k # n
          /\ \A x \in Nat : \A k \in x .. n - 1 : k \in Nat /\ k # n
    BY OneMore
  <2> QED BY <1>n, <2>1, <2>2 DEF a
<1>7. Total = n /\ Total' = n + 1 /\ Hello' = Hello /\ ServerAt' = ServerAt
  <2>1. Len(srv.tr) # 1
    BY <1>5
  <2>2. Total = n /\ Total' = 1 + srv.hsSeq + a
    BY <1>n, <1>3, <2>1 DEF Total
  <2>3. Hello' = Hello /\ ServerAt' = ServerAt
    BY <1>0, <1>3 DEF Hello, ServerAt
  <2> QED BY <1>6, <2>2, <2>3
<1>8. PICK new \in [Nat -> Record] : new[n] = r /\ \A k \in Nat : k # n => new[k] = rec[k]
  <2>1. \A q \in Nat, x \in Record :
          \E new \in [Nat -> Record] : new[q] = x /\ \A k \in Nat : k # q => new[k] = rec[k]
    BY MoreRecords
  <2> QED BY <2>1
<1>9. SentOk(new, at)'
  <2>1. new[0] = Hello
    <3>1. rec[0] = Hello
      BY <1>4, <1>6, <1>7 DEF SentOk
    <3> QED BY <1>6, <1>8, <3>1
  <2>2. ASSUME NEW k \in 1 .. n - 1
        PROVE  (IF k <= srv.hsSeq THEN FlightRecord(new[k], k, at) ELSE LateRecord(new[k], k))'
    <3>1. IF k <= srv.hsSeq THEN FlightRecord(rec[k], k, at) ELSE LateRecord(rec[k], k)
      BY <1>4, <1>7 DEF SentOk
    <3>2. new[k] = rec[k]
      BY <1>6, <1>8
    <3> QED BY <1>0, <1>3, <3>1, <3>2 DEF FlightRecord, LateRecord
  <2>3. ~(n <= srv'.hsSeq) /\ LateRecord(new[n], n)'
    <3>1. new[n] = r /\ conn' = conn /\ srv'.hsSeq = srv.hsSeq
      BY <1>0, <1>3, <1>8
    <3>2. ~(n <= srv.hsSeq) /\ r.seq = n - 1 - srv.hsSeq
      BY <1>r, <1>6
    <3> QED BY <1>r, <3>1, <3>2 DEF LateRecord
  <2>4. \A k \in 1 .. Total' - 1 :
          (IF k <= srv.hsSeq THEN FlightRecord(new[k], k, at) ELSE LateRecord(new[k], k))'
    BY <1>6, <1>7, <2>2, <2>3
  <2> QED BY <1>7, <2>1, <2>4 DEF SentOk
<1>10. ServerOk(at)'
  <2>1. Len(srv.tr) # 1 /\ Len(srv.tr) \in 1 .. 6
    BY <1>5
  <2> QED BY <1>0, <1>3, <1>4, <1>5, <1>7, <2>1 DEF ServerOk
<1>11. Lined(ring', reader, new, Taken, Total')
  <2>1. \A k \in Taken .. n - 1 : new[k] = rec[k]
    BY <1>t, <1>6, <1>8
  <2>2. Lined(ring, reader, rec, Taken, n)
    BY <1>4, <1>7
  <2>3. Lined(ring \o Units(r), reader, new, Taken, n + 1)
    BY <1>t, <1>8, <2>1, <2>2, LinedPut
  <2> QED BY <1>0, <1>7, <2>3
<1>12. Course(new, at)'
  <2>1. srv'.tr \in Seq(Item) /\ Grown(srv.tr, srv'.tr)
    BY <1>3, <1>t, GrownSame
  <2>2. srv'.hsSeq \in Nat /\ srv.hsSeq <= srv'.hsSeq
    BY <1>3, <1>t, AtMostItself
  <2> QED BY <1>0, <1>3, <1>5, <1>9, <1>10, <1>11, <2>1, <2>2, ServerMoves
<1> QED BY <1>12

\* What the server sends keeps the course.
LEMMA HonestServer ==
    ASSUME TypeOK, DataInv, HonestInv, Server
    PROVE  HonestInv'
<1>0. Serving /\ UNCHANGED <<client, faults>>
    BY DEF Server, ServerHello, ServerQueue, ServerFlush, ServerData
<1>1. UNCHANGED <<pc, conn>> /\ (Calm' <=> Calm)
    BY <1>0 DEF client, session, Calm
<1>2. pc \in Live
  <2>1. pc # "hello"
    <3>1. ~NoServer.on
      BY DEF NoServer
    <3> QED BY <1>0, <3>1 DEF DataInv, Clean, Serving
  <2> QED BY <1>0, <2>1 DEF TypeOK, SessionType, Places, Serving, Live, After
<1>3. pc # "hello"
    BY <1>2 DEF Live, After
<1>4. CASE ~Calm
    BY <1>1, <1>2, <1>3, <1>4, Stormy
<1>5. CASE Calm
  <2>1. PICK rec \in [Nat -> Record], at \in [Nat -> Nat] : Course(rec, at)
    BY <1>2, <1>5 DEF HonestInv
  <2>2. PICK new \in [Nat -> Record], to \in [Nat -> Nat] : Course(new, to)'
    BY <1>5, <2>1, HonestHello, HonestQueue, HonestFlush, HonestData DEF Server
  <2> QED BY <1>1, <1>2, <2>2, StaysLive
<1> QED BY <1>4, <1>5

LEMMA Fourth ==
    ASSUME NEW a, a = 4
    PROVE  4 \in 1 .. a
OBVIOUS

\* Nothing lies behind the Finished.
LEMMA NothingAfter ==
    ASSUME NEW s \in Seq(Frag), AllMade(s, srv.tr), NEW b, Spans(s, 14, b)
    PROVE  s = <<>> /\ b = 14
<1>1. s = <<>>
  <2>1. SUFFICES ASSUME s # <<>> PROVE FALSE
    OBVIOUS
  <2>2. 1 \in 1 .. Len(s) /\ s[1] \in Frag
    BY <2>1
  <2>3. From(s[1]) = 14 /\ Made(s[1].m, srv.tr) /\ s[1].part \in {"whole", "first", "last"}
    BY <2>1, <2>2 DEF Spans, AllMade, Frag
  <2>4. From(s[1]) \in 6 .. 13
    BY <2>3, FromTo
  <2>5. ~(14 \in 6 .. 13)
    OBVIOUS
  <2> QED BY <2>3, <2>4, <2>5
<1> QED BY <1>1 DEF Spans

\* The client has the whole flight: then it has been sent, and every record of it taken.
LEMMA WholeFlight ==
    ASSUME TypeOK, NEW rec \in [Nat -> Record], NEW at \in [Nat -> Nat], SentOk(rec, at), ServerOk(at),
           tls_read_seq <= srv.hsSeq, Len(srv.tr) = 6,
           NEW s \in Seq(Frag), AllMade(s, srv.tr), Spans(s, 14, at[tls_read_seq + 1])
    PROVE  tls_read_seq = srv.hsSeq /\ FlightDone
<1>t. /\ srv.hsSeq \in Nat /\ srv.appSeq \in Nat /\ tls_read_seq \in Nat /\ srv.out \in Seq(Frag)
    BY CourseTypes
<1>1. at[tls_read_seq + 1] = 14
    BY NothingAfter
<1>2. tls_read_seq = srv.hsSeq
  <2>1. SUFFICES ASSUME tls_read_seq # srv.hsSeq PROVE FALSE
    OBVIOUS
  <2>2. \A r \in Nat, h \in Nat, a \in Nat : r <= h /\ r # h =>
            r + 1 \in Nat /\ r + 1 <= h /\ r + 1 \in 1 .. (1 + h + a) - 1
    OBVIOUS
  <2>3. PICK k \in Nat : k = tls_read_seq + 1
    <3>1. tls_read_seq + 1 \in Nat
      BY <1>t, Sums
    <3> QED BY <3>1
  <2>4. k <= srv.hsSeq /\ k \in 1 .. (1 + srv.hsSeq + srv.appSeq) - 1
    BY <1>t, <2>1, <2>2, <2>3
  <2>5. Total = 1 + srv.hsSeq + srv.appSeq
    <3>1. Len(srv.tr) # 1
      OBVIOUS
    <3> QED BY <3>1 DEF Total
  <2>6. FlightRecord(rec[k], k, at)
    BY <2>4, <2>5 DEF SentOk
  <2>7. rec[k].frags \in Seq(Frag)
    <3>1. rec[k] \in Record
      OBVIOUS
    <3> QED BY <3>1 DEF Record
  <2>8. /\ rec[k].frags # <<>> /\ AllMade(rec[k].frags, srv.tr) /\ Spans(rec[k].frags, 14, at[k + 1])
    BY <1>1, <2>3, <2>6 DEF FlightRecord
  <2> QED BY <2>7, <2>8, NothingAfter
<1>3. /\ Spans(srv.out, 14, ServerAt) /\ AllMade(srv.out, srv.tr)
  <2>1. Len(srv.tr) > 1
    OBVIOUS
  <2> QED BY <1>1, <1>2, <2>1 DEF ServerOk
<1>4. srv.out = <<>> /\ ServerAt = 14
    BY <1>3, <1>t, NothingAfter
<1>5. srv.half = NoMsg
  <2>1. 2 * 6 + 1 # 14
    OBVIOUS
  <2> QED BY <1>4, <2>1 DEF ServerAt
<1> QED BY <1>2, <1>4, <1>5 DEF FlightDone

LEMMA PumpGoesOn ==
    ASSUME NEW rec, NEW at, Course(rec, at), pc = "encrypted",
           UNCHANGED <<srv, conn, pc, ring, reader, tls_read_seq, shared>>, tls_state' # ERROR,
           Grown(transcript', srv.tr), AllMade(df'.frags, srv.tr),
           Spans(df'.frags, ClientAt', at[tls_read_seq + 1]), df'.cur # NoMsg => Made(df'.cur, srv.tr)
    PROVE  Course(rec, at)'
<1>1. SentOk(rec, at)' /\ ServerOk(at)' /\ Total' = Total
    BY ServerSame DEF Course
<1>2. Taken' = Taken
    BY DEF Taken
<1>3. ClientOk(at) /\ Lined(ring, reader, rec, Taken, Total) /\ at[1] = 6
      /\ rec \in [Nat -> Record] /\ at \in [Nat -> Nat]
    BY DEF Course
<1>4. ClientOk(at)'
    BY <1>3 DEF ClientOk, After, SameSoFar
<1> QED BY <1>1, <1>2, <1>3, <1>4 DEF Course

LEMMA PumpFinishes ==
    ASSUME TypeOK, NEW rec, NEW at, Course(rec, at), pc = "encrypted", pc' = "finished",
           UNCHANGED <<srv, conn, ring, reader, tls_read_seq, shared>>, tls_state' # ERROR,
           Len(srv.tr) = 6, df'.frags \in Seq(Frag), AllMade(df'.frags, srv.tr),
           Spans(df'.frags, 14, at[tls_read_seq + 1])
    PROVE  Course(rec, at)'
<1>1. SentOk(rec, at)' /\ ServerOk(at)' /\ Total' = Total
    BY ServerSame DEF Course
<1>2. Taken' = Taken
    BY DEF Taken
<1>3. /\ ClientOk(at) /\ SentOk(rec, at) /\ ServerOk(at) /\ Lined(ring, reader, rec, Taken, Total) /\ at[1] = 6
      /\ rec \in [Nat -> Record] /\ at \in [Nat -> Nat]
    BY DEF Course
<1>4. tls_read_seq <= srv.hsSeq
    BY <1>3 DEF ClientOk
<1>5. tls_read_seq = srv.hsSeq /\ FlightDone
    BY <1>3, <1>4, WholeFlight
<1>6. FlightDone'
    BY <1>5 DEF FlightDone
<1>7. ClientOk(at)'
    BY <1>5, <1>6 DEF ClientOk, After
<1> QED BY <1>1, <1>2, <1>3, <1>7 DEF Course

LEMMA SameSeq ==
    ASSUME NEW s \in Seq(Item), NEW t \in Seq(Item), Len(s) = Len(t), \A i \in 1 .. Len(s) : s[i] = t[i]
    PROVE  s = t
OBVIOUS

\* The handler turns away nothing but a leaf that is not acceptable.
LEMMA HonestHandler ==
    ASSUME TypeOK, HsSecret, NEW m \in Msg, NEW h \in Seq(Item), Made(m, srv.tr), Grown(h, srv.tr),
           Len(h) = Pos(m.t) - 1, srv.tr[1].conn = conn, shared = conn, conn > 0,
           m.t = "cv" => pubkey = h[4].key
    PROVE  Handler(m, h) \/ (m.t = "cert" /\ ~CertificateHolds(m))
<1>t. conn \in Nat /\ m.over \in Seq(Item)
    BY CourseTypes DEF Msg
<1>1. m.t \in {"ee", "cert", "cv", "fin"} /\ m.conn = conn
    BY DEF Made
<1>2. m.t \in {"cv", "fin"} => m.over = h
  <2>1. SUFFICES ASSUME m.t \in {"cv", "fin"} PROVE m.over = h
    OBVIOUS
  <2>2. Len(m.over) = Len(h) /\ \A i \in 1 .. Len(h) : m.over[i] = srv.tr[i]
    BY <2>1 DEF Made
  <2>3. \A i \in 1 .. Len(h) : h[i] = srv.tr[i]
    BY DEF Grown
  <2> QED BY <1>t, <2>2, <2>3, SameSeq
<1>3. CASE m.t = "cv"
  <2>1. Len(h) = 4
    BY <1>3 DEF Pos
  <2>2. h[4] = srv.tr[4]
    <3>1. 4 \in 1 .. Len(h)
      BY <2>1, Fourth
    <3> QED BY <3>1 DEF Grown
  <2>3. m.key = pubkey
    BY <1>3, <2>2 DEF Made
  <2> QED BY <1>2, <1>3, <2>3 DEF Handler, CertVerifyHolds
<1>4. CASE m.t = "fin"
  <2>1. m.conn # 0
    BY <1>t, <1>1
  <2>2. <<m.conn, "hs">> = tls_c_hs_secret
    BY <1>1 DEF HsSecret
  <2> QED BY <1>2, <1>4, <2>1, <2>2 DEF Handler, FinishedHolds
<1> QED BY <1>1, <1>3, <1>4 DEF Handler

\* Where the next fragment lies tells its part and the place of its message.
LEMMA EvenPoint ==
    ASSUME NEW p \in 3 .. 6, NEW n \in Nat
    PROVE  /\ 2 * p + 1 # 2 * n + 2 /\ 2 * p # 2 * n + 1
           /\ 2 * p = 2 * n + 2 => p = n + 1
           /\ 2 * p + 1 = 2 * n + 1 => p = n
OBVIOUS

LEMMA Sixth ==
    ASSUME NEW k \in 1 .. 6, 6 <= k
    PROVE  k = 6
OBVIOUS

LEMMA ItemFields ==
    ASSUME NEW m
    PROVE  ItemOf(m).key = m.key /\ ItemOf(m).named = m.named
BY DEF ItemOf

LEMMA NextPlace ==
    ASSUME TypeOK, NEW f \in Frag, Made(f.m, srv.tr), From(f) = ClientAt, NEW n \in Nat, n = Len(transcript)
    PROVE  /\ df.cur = NoMsg => f.part # "last" /\ Pos(f.m.t) = n + 1
           /\ df.cur # NoMsg => f.part = "last" /\ Pos(f.m.t) = n
<1>1. f.part \in {"whole", "first", "last"}
    BY DEF Frag
<1>2. Pos(f.m.t) \in 3 .. 6
    BY <1>1, FromTo
<1>3. /\ df.cur = NoMsg => ClientAt = 2 * n + 2
      /\ df.cur # NoMsg => ClientAt = 2 * n + 1
    BY DEF ClientAt
<1>4. /\ f.part = "last" => From(f) = 2 * Pos(f.m.t) + 1
      /\ f.part # "last" => From(f) = 2 * Pos(f.m.t)
    BY DEF From
<1> HIDE DEF Pos
<1> QED BY <1>1, <1>2, <1>3, <1>4, EvenPoint

LEMMA PlaceGate ==
    ASSUME NEW m, m.t \in {"ee", "cert", "cv", "fin"}, tls_state \in 3 .. 6
    PROVE  Gate(m.t) <=> Pos(m.t) = tls_state
<1>1. tls_state \in {3, 4, 5, 6}
    OBVIOUS
<1>2. Gate(m.t) <=> m.t = Allowed(tls_state)
    BY StateNumbers DEF Gate
<1> QED BY <1>1, <1>2, StateNumbers DEF Allowed, Pos

\* One message handed to its handler, whole or at its last piece.
LEMMA HonestDispatch ==
    ASSUME TypeOK, HandshakeInv, HonestInv, Calm, NEW rec \in [Nat -> Record], NEW at \in [Nat -> Nat],
           Course(rec, at), pc = "encrypted", UNCHANGED <<srv, ring, reader, tls_read_seq, shared, faults>>,
           NEW m \in Msg, NEW h \in Seq(Item), Dispatch(m, h), Made(m, srv.tr), Pos(m.t) = tls_state,
           transcript' = Append(h, ItemOf(m)), Len(h) = tls_state - 1, Grown(h, srv.tr),
           tls_state >= CERT_VERIFY => pubkey = h[4].key,
           df'.cur = NoMsg, df'.frags \in Seq(Frag), AllMade(df'.frags, srv.tr),
           Spans(df'.frags, 2 * tls_state + 2, at[tls_read_seq + 1])
    PROVE  HonestInv'
<1>t. /\ srv.tr \in Seq(Item) /\ conn \in Nat /\ Len(srv.tr) \in Nat
    BY CourseTypes
<1>0. /\ tls_state \in 3 .. 6 /\ HsSecret
    BY StateNumbers DEF TypeOK, SessionType, StatesAt, HandshakeInv, PlaceInv, EncryptedInv
<1>1. /\ ServerOk(at) /\ ClientOk(at)
    BY DEF Course
<1>2. shared = conn /\ conn > 0 /\ srv.tr[1].conn = conn /\ Len(srv.tr) \in 1 .. 6
    BY <1>1 DEF ClientOk, ServerOk, HonestInv, Live
<1>3. Handler(m, h) \/ (m.t = "cert" /\ ~CertificateHolds(m))
  <2>1. m.t = "cv" => pubkey = h[4].key
    BY <1>0, StateNumbers DEF Pos
  <2> QED BY <1>0, <1>2, <2>1, HonestHandler
<1>4. /\ conn' = conn /\ policy' = policy
    BY DEF Dispatch, Fail
<1>5. /\ Len(transcript') = tls_state /\ transcript'[tls_state] = ItemOf(m) /\ Grown(transcript', srv.tr)
  <2> DEFINE x == ItemOf(m)
  <2>1. x \in Item /\ srv.tr[tls_state] = x /\ tls_state <= Len(srv.tr)
    BY ItemType DEF Made
  <2> HIDE DEF x
  <2>2. /\ Len(transcript') = Len(h) + 1 /\ transcript'[Len(h) + 1] = x
        /\ \A i \in 1 .. Len(h) : transcript'[i] = h[i]
    <3>1. transcript' = Append(h, x)
      BY DEF x
    <3>2. Grown(h, Append(h, x)) /\ Len(Append(h, x)) = Len(h) + 1 /\ Append(h, x)[Len(h) + 1] = x
      BY <2>1, GrownAppend
    <3> QED BY <3>1, <3>2 DEF Grown
  <2>3. Len(h) + 1 = tls_state
    BY <1>0
  <2>4. \A i \in 1 .. tls_state : i \in 1 .. Len(h) \/ i = tls_state
    BY <1>0
  <2>5. \A i \in 1 .. Len(h) : srv.tr[i] = h[i]
    BY DEF Grown
  <2> QED BY <2>1, <2>2, <2>3, <2>4, <2>5 DEF Grown, x
<1>6. CASE ~Handler(m, h)
  <2>1. m.t = "cert" /\ ~CertificateHolds(m) /\ tls_state = 4
    BY <1>3, <1>6 DEF Pos
  <2>2. tls_last_state' = CERTIFICATE /\ pc' = "failed"
    BY <1>6, <2>1, StateNumbers DEF Dispatch, Fail
  <2>3. transcript'[4] = ItemOf(m)
    BY <1>5, <2>1
  <2>4. ~Acceptable(transcript[4])'
    <3>1. transcript'[4].key = m.key /\ transcript'[4].named = m.named
      BY <2>3, ItemFields
    <3>2. ~CertPinCheck(policy, m.key, m.key \notin OtherCurve, m.named)
      BY <2>1 DEF CertificateHolds
    <3> QED BY <1>4, <3>1, <3>2 DEF Acceptable
  <2> QED BY <2>2, <2>4, GivesUp
<1>7. CASE Handler(m, h) /\ tls_state # FINISHED
  <2>1. pc' = pc /\ tls_state' = tls_state + 1
    BY <1>7 DEF Dispatch
  <2>2. tls_state' # ERROR
    BY <1>0, <2>1, StateNumbers
  <2>3. ClientAt' = 2 * tls_state + 2
    BY <1>5 DEF ClientAt
  <2>4. Course(rec, at)'
    BY <1>4, <1>5, <2>1, <2>2, <2>3, PumpGoesOn
  <2> QED BY <1>4, <2>1, <2>4, StaysLive DEF Live
<1>8. CASE Handler(m, h) /\ tls_state = FINISHED
  <2>1. pc' = "finished" /\ tls_state' = tls_state
    BY <1>8 DEF Dispatch
  <2>2. tls_state' # ERROR /\ tls_state = 6
    BY <1>8, <2>1, StateNumbers
  <2>3. Len(srv.tr) = 6
    <3>1. 6 <= Len(srv.tr)
      BY <2>2 DEF Made
    <3> QED BY <1>2, <3>1, Sixth
  <2>4. 2 * tls_state + 2 = 14
    BY <2>2
  <2>5. Course(rec, at)'
    BY <1>4, <2>1, <2>2, <2>3, <2>4, PumpFinishes
  <2> QED BY <1>4, <2>1, <2>5, StaysLive DEF Live, After
<1> QED BY <1>6, <1>7, <1>8

\* The gate lets every message through, since the client stands where it begins.
LEMMA HonestPump ==
    ASSUME TypeOK, HandshakeInv, HonestInv, Pump
    PROVE  HonestInv'
<1>0. /\ pc = "encrypted" /\ df.frags # <<>> /\ EncryptedInv
      /\ UNCHANGED <<srv, ring, reader, tls_read_seq, shared, faults, conn>>
      /\ pc' \in {"encrypted", "finished", "failed"} /\ (Calm' <=> Calm)
  <2>1. pc = "encrypted" /\ df.frags # <<>> /\ UNCHANGED <<srv, ring, reader, tls_read_seq, shared, faults>>
    BY DEF Pump, PumpRefuse, PumpHeader, PumpRest, NewMessage, Pumping, pumped
  <2>2. conn' = conn /\ pc' \in {"encrypted", "finished", "failed"}
    BY <2>1 DEF Pump, PumpRefuse, PumpHeader, PumpRest, Dispatch, Fail, session
  <2> QED BY <2>1, <2>2 DEF HandshakeInv, PlaceInv, Calm
<1>1. CASE ~Calm
    BY <1>0, <1>1, Stormy DEF Live
<1>2. SUFFICES ASSUME Calm PROVE HonestInv'
    BY <1>1
<1>3. PICK rec \in [Nat -> Record], at \in [Nat -> Nat] : Course(rec, at)
    BY <1>0, <1>2 DEF HonestInv, Live
<1>t. /\ df \in DfType /\ df.frags \in Seq(Frag) /\ df.cur \in Msg /\ transcript \in Seq(Item)
      /\ tls_transcript \in Seq(Item) /\ tls_read_seq \in Nat /\ Len(transcript) \in Nat
      /\ ClientAt \in Nat /\ srv.tr \in Seq(Item)
    BY CourseTypes
<1>s. tls_state \in 3 .. 6
    BY <1>0, StateNumbers DEF TypeOK, SessionType, StatesAt
<1>4. /\ AllMade(df.frags, srv.tr) /\ Spans(df.frags, ClientAt, at[tls_read_seq + 1])
      /\ df.cur # NoMsg => Made(df.cur, srv.tr)
      /\ Grown(transcript, srv.tr)
    BY <1>0, <1>3 DEF Course, ClientOk, SameSoFar, After
<1> DEFINE f == NextFrag
           rest == Tail(df.frags)
<1>5. /\ f \in Frag /\ f.m \in Msg /\ rest \in Seq(Frag) /\ f.part \in {"whole", "first", "last"}
  <2>1. f \in Frag /\ rest \in Seq(Frag)
    BY <1>0, <1>t, HeadTailProperties DEF NextFrag
  <2> QED BY <2>1 DEF Frag
<1>6. /\ From(f) = ClientAt /\ Spans(rest, To(f), at[tls_read_seq + 1])
      /\ AllMade(rest, srv.tr) /\ Made(f.m, srv.tr)
  <2>1. at[tls_read_seq + 1] \in Nat
    <3>1. tls_read_seq + 1 \in Nat
      BY <1>t, Sums
    <3> QED BY <3>1
  <2> QED BY <1>0, <1>t, <1>4, <2>1, SpansTail, AllMadeTail DEF NextFrag
<1> HIDE DEF f, rest
<1>7. PICK n \in Nat : n = Len(transcript)
    BY <1>t
<1>8. /\ df.cur = NoMsg => f.part # "last" /\ Pos(f.m.t) = n + 1
      /\ df.cur # NoMsg => f.part = "last" /\ Pos(f.m.t) = n
    BY <1>5, <1>6, <1>7, NextPlace
<1>9. /\ df.cur = NoMsg => n = tls_state - 1
      /\ df.cur # NoMsg => n = tls_state
    BY <1>0, <1>7 DEF EncryptedInv, InOrder
<1>10. df.cur = NoMsg => Pos(f.m.t) = tls_state /\ Gate(f.m.t)
  <2>1. SUFFICES ASSUME df.cur = NoMsg PROVE Pos(f.m.t) = tls_state /\ Gate(f.m.t)
    OBVIOUS
  <2>2. Pos(f.m.t) = (tls_state - 1) + 1
    BY <1>8, <1>9, <2>1
  <2>3. (tls_state - 1) + 1 = tls_state
    BY <1>s
  <2>4. f.m.t \in {"ee", "cert", "cv", "fin"}
    BY <1>6 DEF Made
  <2> QED BY <1>s, <2>2, <2>3, <2>4, PlaceGate
<1>11. tls_state >= CERT_VERIFY => pubkey = transcript[4].key
    BY <1>0 DEF EncryptedInv, Leaf
<1>12. CASE PumpRefuse
    BY <1>8, <1>10, <1>12 DEF PumpRefuse, NewMessage, f
<1>13. CASE PumpHeader /\ NextFrag.part = "whole"
  <2>1. /\ df.cur = NoMsg /\ Dispatch(f.m, transcript) /\ transcript' = Append(transcript, ItemOf(f.m))
        /\ df' = [df EXCEPT !.frags = rest]
    BY <1>13 DEF PumpHeader, NewMessage, f, rest
  <2>2. df'.frags = rest /\ df'.cur = NoMsg
    BY <1>t, <2>1 DEF DfType
  <2>3. Len(transcript) = tls_state - 1 /\ Pos(f.m.t) = tls_state
    BY <1>7, <1>9, <1>10, <2>1
  <2>4. To(f) = 2 * tls_state + 2
    BY <1>13, <2>3 DEF To, f
  <2>5. /\ df'.frags \in Seq(Frag) /\ AllMade(df'.frags, srv.tr)
        /\ Spans(df'.frags, 2 * tls_state + 2, at[tls_read_seq + 1])
    BY <1>5, <1>6, <2>2, <2>4
  <2> QED BY <1>0, <1>2, <1>3, <1>t, <1>4, <1>5, <1>6, <1>11, <2>1, <2>2, <2>3, <2>5, HonestDispatch
<1>14. CASE PumpHeader /\ NextFrag.part # "whole"
  <2>1. /\ df.cur = NoMsg /\ transcript' = Append(transcript, ItemOf(f.m))
        /\ df' = [frags |-> rest, cur |-> f.m] /\ UNCHANGED <<pc, tls_state>>
    BY <1>14 DEF PumpHeader, NewMessage, f, rest, session
  <2>2. df'.frags = rest /\ df'.cur = f.m
    BY <2>1
  <2>3. f.part = "first" /\ Pos(f.m.t) = n + 1
    BY <1>5, <1>8, <1>14, <2>1 DEF f
  <2>4. f.m # NoMsg
    <3>1. f.m.t # "nst" /\ NoMsg.t = "nst"
      BY <1>6 DEF Made, NoMsg, Plain
    <3> QED BY <3>1
  <2>5. Len(transcript') = n + 1 /\ Grown(transcript', srv.tr)
    <3> DEFINE x == ItemOf(f.m)
    <3>1. x \in Item /\ srv.tr[n + 1] = x /\ n + 1 <= Len(srv.tr)
      BY <1>5, <1>6, <2>3, ItemType DEF Made
    <3> HIDE DEF x
    <3>2. /\ Len(transcript') = n + 1 /\ transcript'[n + 1] = x
          /\ \A i \in 1 .. n : transcript'[i] = transcript[i]
      BY <1>t, <1>7, <2>1, <3>1 DEF x
    <3>3. \A i \in 1 .. n + 1 : i \in 1 .. n \/ i = n + 1
      OBVIOUS
    <3>4. \A i \in 1 .. n : srv.tr[i] = transcript[i]
      BY <1>4, <1>7 DEF Grown
    <3> QED BY <3>1, <3>2, <3>3, <3>4 DEF Grown
  <2>6. ClientAt' = To(f)
    <3>1. To(f) = 2 * (n + 1) + 1
      BY <2>3 DEF To
    <3>2. ClientAt' = 2 * (n + 1) + 1
      BY <2>2, <2>4, <2>5 DEF ClientAt
    <3> QED BY <3>1, <3>2
  <2>7. tls_state' # ERROR
    BY <1>s, <2>1, StateNumbers
  <2>8. Course(rec, at)'
    BY <1>0, <1>3, <1>6, <2>1, <2>2, <2>5, <2>6, <2>7, PumpGoesOn
  <2> QED BY <1>0, <1>3, <2>1, <2>8, StaysLive DEF Live
<1>15. CASE PumpRest
  <2>1. /\ df.cur # NoMsg /\ Dispatch(df.cur, tls_transcript) /\ transcript' = transcript
        /\ df' = [frags |-> rest, cur |-> NoMsg]
    BY <1>15 DEF PumpRest, rest
  <2>2. df'.frags = rest /\ df'.cur = NoMsg
    BY <2>1
  <2>3. /\ Gate(df.cur.t) /\ transcript = Append(tls_transcript, ItemOf(df.cur)) /\ Len(transcript) = tls_state
    BY <1>0, <2>1 DEF EncryptedInv, InOrder
  <2>4. Made(df.cur, srv.tr) /\ Pos(df.cur.t) = tls_state
    <3>1. Made(df.cur, srv.tr) /\ df.cur.t \in {"ee", "cert", "cv", "fin"}
      BY <1>4, <2>1 DEF Made
    <3> QED BY <1>s, <2>3, <3>1, PlaceGate
  <2>5. To(f) = 2 * tls_state + 2
    <3>1. Pos(f.m.t) = tls_state /\ f.part = "last"
      BY <1>8, <1>9, <2>1
    <3> QED BY <3>1 DEF To
  <2>6. ItemOf(df.cur) \in Item
    BY <1>t, ItemType
  <2>7. /\ Len(transcript) = Len(tls_transcript) + 1 /\ Len(tls_transcript) \in Nat
        /\ Grown(tls_transcript, transcript)
    BY <1>t, <2>3, <2>6, GrownAppend
  <2>8. Len(tls_transcript) = tls_state - 1
    <3>1. \A a \in Nat : \A b : b = a + 1 => a = b - 1
      OBVIOUS
    <3> QED BY <2>3, <2>7, <3>1
  <2>9. Grown(tls_transcript, srv.tr)
    BY <1>t, <1>4, <2>7, GrownOn
  <2>10. tls_state >= CERT_VERIFY => pubkey = tls_transcript[4].key
    <3>1. SUFFICES ASSUME tls_state >= CERT_VERIFY PROVE pubkey = tls_transcript[4].key
      OBVIOUS
    <3>2. 4 \in 1 .. Len(tls_transcript)
      <4>1. \A s \in 3 .. 6 : s >= 5 => 4 \in 1 .. s - 1
        OBVIOUS
      <4> QED BY <1>s, <2>8, <3>1, <4>1, StateNumbers
    <3>3. transcript[4] = tls_transcript[4]
      BY <2>7, <3>2 DEF Grown
    <3> QED BY <1>11, <3>1, <3>3
  <2>11. /\ df'.frags \in Seq(Frag) /\ AllMade(df'.frags, srv.tr)
         /\ Spans(df'.frags, 2 * tls_state + 2, at[tls_read_seq + 1])
    BY <1>5, <1>6, <2>2, <2>5
  <2>12. transcript' = Append(tls_transcript, ItemOf(df.cur))
    BY <2>1, <2>3
  <2> QED BY <1>0, <1>2, <1>3, <1>t, <2>1, <2>2, <2>4, <2>8, <2>9, <2>10, <2>11, <2>12, HonestDispatch
<1> QED BY <1>12, <1>13, <1>14, <1>15 DEF Pump

\* A hello sent starts a record with nothing on it: tls_rx_reset has emptied the stream.
LEMMA HonestBegins ==
    ASSUME TypeOK, DataInv, HonestInv, SendClientHello
    PROVE  HonestInv'
<1>0. /\ pc = "hello" /\ srv = NoServer /\ ring = <<>> /\ reader = NoRecord /\ tls_read_seq = 0 /\ conn > 0
      /\ UNCHANGED <<conn, tls_read_seq, ring, reader, faults>>
    BY DEF SendClientHello, DataInv, Clean, HonestInv, Fail
<1>t. conn \in Conns
    BY CourseTypes
<1>1. CASE pc' = "failed"
  <2>1. tls_last_state' = tls_state /\ tls_state = CLIENT_HELLO
    BY <1>0, <1>1 DEF SendClientHello, Fail, TypeOK, SessionType, StatesAt
  <2> QED BY <1>1, <2>1, GivesUp
<1>2. CASE pc' # "failed"
  <2>1. /\ transcript' = <<ItemOf(Plain("ch", conn))>>
        /\ srv' = [NoServer EXCEPT !.on = TRUE, !.tr = transcript']
        /\ tls_state' = SERVER_HELLO /\ pc' = "server_hello"
    BY <1>0, <1>2 DEF SendClientHello, Fail
  <2>2. srv' = [on |-> TRUE, tr |-> transcript', out |-> <<>>, half |-> NoMsg,
                hsSeq |-> 0, appSeq |-> 0, app |-> <<>>, last |-> NoRecord]
    BY <2>1 DEF NoServer
  <2>3. /\ srv'.tr = transcript' /\ srv'.out = <<>> /\ srv'.half = NoMsg /\ srv'.hsSeq = 0 /\ srv'.appSeq = 0
    BY <2>2
  <2>4. /\ transcript' \in Seq(Item) /\ Len(transcript') = 1 /\ transcript'[1].conn = conn
    <3> DEFINE x == ItemOf(Plain("ch", conn))
    <3>1. x \in Item /\ x.conn = conn
      <4>1. Plain("ch", conn) \in Msg
        BY <1>t, PlainType DEF HsTypes
      <4> QED BY <4>1, ItemType DEF ItemOf, Plain
    <3>2. transcript' = <<x>>
      BY <2>1
    <3> HIDE DEF x
    <3> QED BY <3>1, <3>2
  <2>5. PICK rec \in [Nat -> Record], at \in [Nat -> Nat] : at[1] = 6
    <3>1. [k \in Nat |-> NoRecord] \in [Nat -> Record] /\ [k \in Nat |-> 6] \in [Nat -> Nat]
          /\ [k \in Nat |-> 6][1] = 6
      BY Constants
    <3> QED BY <3>1
  <2>6. Total' = 0 /\ Taken' = 0
    BY <2>1, <2>3, <2>4 DEF Total, Taken
  <2>7. SentOk(rec, at)'
    <3>1. ~(0 > 0) /\ \A k \in 1 .. 0 - 1 : FALSE
      OBVIOUS
    <3> QED BY <2>6, <3>1 DEF SentOk
  <2>8. ServerOk(at)'
    <3>1. AllMade(srv'.out, srv'.tr)
      <4>1. Len(<<>>) = 0 /\ \A k \in 1 .. 0 : FALSE
        OBVIOUS
      <4> QED BY <2>3, <4>1 DEF AllMade
    <3>2. Len(srv'.tr) = 1 /\ 1 \in 1 .. 6 /\ ~(1 > 1) /\ srv'.tr[1].conn = conn' /\ ~(0 > 0)
      BY <1>0, <2>3, <2>4
    <3> QED BY <2>3, <3>1, <3>2 DEF ServerOk
  <2>9. ClientOk(at)'
    <3>1. SameSoFar'
      BY <2>3, <2>4, GrownSame DEF SameSoFar
    <3> QED BY <1>0, <2>1, <3>1, StateNumbers DEF ClientOk, After
  <2>10. Lined(ring', reader', rec, Taken', Total')
    <3>1. ring' = <<>> /\ reader' = NoRecord /\ Len(<<>>) = 2 * (0 - 0) /\ 0 <= 0
          /\ \A j \in 1 .. 0 - 0 : FALSE
      BY <1>0
    <3> QED BY <2>6, <3>1 DEF Lined
  <2>11. Course(rec, at)'
    BY <2>5, <2>7, <2>8, <2>9, <2>10 DEF Course
  <2>12. conn' > 0 /\ pc' # "hello" /\ pc' # "failed" /\ pc' # "open"
    BY <1>0, <2>1
  <2>13. HonestServed'
    BY <2>12 DEF HonestServed
  <2> QED BY <2>5, <2>11, <2>12, <2>13 DEF HonestInv
<1> QED BY <1>1, <1>2

LEMMA HonestKeys ==
    ASSUME TypeOK, HandshakeInv, NEW rec \in [Nat -> Record], NEW at \in [Nat -> Nat], Course(rec, at),
           DeriveHandshakeKeys
    PROVE  Course(rec, at)'
<1>0. /\ pc = "keys" /\ pc' = "encrypted" /\ df' = NoFrags /\ tls_state' = ENCRYPTED_EXT
      /\ UNCHANGED <<srv, conn, shared, transcript, tls_read_seq, ring, reader>>
    BY DEF DeriveHandshakeKeys
<1>1. SentOk(rec, at)' /\ ServerOk(at)' /\ Total' = Total
    BY <1>0, ServerSame DEF Course
<1>2. ClientOk(at) /\ Lined(ring, reader, rec, Taken, Total) /\ at[1] = 6
    BY DEF Course
<1>3. tls_read_seq = 0 /\ shared = conn /\ SameSoFar
    BY <1>0, <1>2 DEF ClientOk, After
<1>4. Taken' = Taken
    BY <1>0 DEF Taken
<1>5. df'.frags = <<>> /\ df'.cur = NoMsg /\ Len(transcript) = 2
    BY <1>0 DEF NoFrags, HandshakeInv, PlaceInv, InOrder
<1>6. Spans(df'.frags, ClientAt', at[tls_read_seq' + 1])
  <2>1. ClientAt' = 6
    BY <1>0, <1>5 DEF ClientAt
  <2>2. tls_read_seq' + 1 = 1
    BY <1>0, <1>3
  <2> QED BY <1>2, <1>5, <2>1, <2>2 DEF Spans
<1>7. AllMade(df'.frags, srv'.tr)
  <2>1. Len(<<>>) = 0 /\ \A k \in 1 .. 0 : FALSE
    OBVIOUS
  <2> QED BY <1>5, <2>1 DEF AllMade
<1>8. tls_read_seq' <= srv'.hsSeq
  <2>1. srv.hsSeq \in Nat /\ \A h \in Nat : 0 <= h
    BY CourseTypes
  <2> QED BY <1>0, <1>3, <2>1
<1>9. SameSoFar' /\ tls_state' # ERROR
    BY <1>0, <1>3, StateNumbers DEF SameSoFar
<1>10. ClientOk(at)'
    BY <1>0, <1>3, <1>5, <1>6, <1>7, <1>8, <1>9 DEF ClientOk, After
<1> QED BY <1>0, <1>1, <1>2, <1>4, <1>10 DEF Course

LEMMA HonestOpens ==
    ASSUME TypeOK, NEW rec \in [Nat -> Record], NEW at \in [Nat -> Nat], Course(rec, at),
           \/ /\ pc = "finished" /\ pc' = "traffic" /\ UNCHANGED <<tls_read_seq, tls_state>>
           \/ /\ pc = "traffic" /\ pc' = "open" /\ tls_read_seq' = 0 /\ tls_state' = CONNECTED,
           UNCHANGED <<srv, conn, ring, reader>>
    PROVE  Course(rec, at)'
<1>1. SentOk(rec, at)' /\ ServerOk(at)' /\ Total' = Total
    BY ServerSame DEF Course
<1>2. ClientOk(at) /\ Lined(ring, reader, rec, Taken, Total) /\ at[1] = 6
    BY DEF Course
<1>3. tls_read_seq = srv.hsSeq /\ FlightDone /\ tls_state # ERROR
    BY <1>2 DEF ClientOk, After
<1>4. FlightDone' /\ tls_state' # ERROR
    BY <1>3, StateNumbers DEF FlightDone
<1>5. Taken' = Taken
  <2>1. srv.hsSeq \in Nat /\ \A h \in Nat : 1 + h + 0 = 1 + h
    BY CourseTypes
  <2> QED BY <1>3, <2>1 DEF Taken
<1>6. ClientOk(at)'
    BY <1>3, <1>4 DEF ClientOk, After
<1> QED BY <1>1, <1>2, <1>5, <1>6 DEF Course

LEMMA HonestCall ==
    ASSUME TypeOK, HandshakeInv, DataInv, HonestInv, Call \/ Proceed
    PROVE  HonestInv'
<1>1. CASE TlsConnect
  <2>1. pc' = "hello" /\ tls_read_seq' = 0 /\ conn' = conn + 1
    BY <1>1 DEF TlsConnect
  <2>2. conn' > 0
    <3>1. conn \in Nat /\ \A c \in Nat : c + 1 > 0
      BY CourseTypes
    <3> QED BY <2>1, <3>1
  <2> QED BY <2>1, <2>2 DEF HonestInv, HonestServed, Live, After
<1>2. CASE SendClientHello
    BY <1>2, HonestBegins
<1>3. CASE TlsClose
  <2>1. pc' = "idle"
    BY <1>3 DEF TlsClose
  <2> QED BY <2>1 DEF HonestInv, HonestServed, Live, After
<1>4. SUFFICES ASSUME DeriveHandshakeKeys \/ SendFinished \/ DeriveTrafficKeys \/ TlsSend
               PROVE  HonestInv'
    BY <1>1, <1>2, <1>3 DEF Call, Proceed
<1>5. /\ pc \in Live /\ pc' \in (Live \cup {"failed"}) /\ pc' # "hello"
      /\ UNCHANGED <<conn, faults, srv, ring, reader>> /\ (Calm' <=> Calm)
  <2>1. /\ pc \in {"keys", "finished", "traffic", "open"} /\ pc' \in {"encrypted", "traffic", "open", "failed"}
        /\ UNCHANGED <<conn, faults, srv, ring, reader>>
    BY <1>4 DEF DeriveHandshakeKeys, SendFinished, DeriveTrafficKeys, TlsSend, Fail, reading, session
  <2> QED BY <2>1 DEF Live, After, Calm
<1>6. CASE ~Calm
    BY <1>5, <1>6, Stormy
<1>7. CASE Calm
  <2>1. PICK rec \in [Nat -> Record], at \in [Nat -> Nat] : Course(rec, at)
    BY <1>5, <1>7 DEF HonestInv
  <2>2. CASE SendFinished /\ pc' = "failed"
    <3>1. pc = "finished" /\ tls_last_state' = tls_state /\ tls_state = FINISHED
      BY <2>2 DEF SendFinished, Fail, TypeOK, SessionType, StatesAt
    <3>2. /\ transcript \in Seq(Item) /\ Len(transcript) = 6 /\ CertPinRequire(cert_pin_status)
      BY <3>1, CourseTypes DEF HandshakeInv, PlaceInv, FinishedInv, InOrder, Leaf, CertPinRequire
    <3>3. transcript' = Append(transcript, ItemOf(Plain("cfin", tls_c_hs_secret[1])))
      BY <2>2, <3>2 DEF SendFinished
    <3>4. ItemOf(Plain("cfin", tls_c_hs_secret[1])) \in Item
      <4>1. tls_c_hs_secret[1] \in Conns
        BY DEF TypeOK, SecretType
      <4> QED BY <4>1, PlainType, ItemType DEF HsTypes
    <3>5. Len(transcript') = 7
      <4>1. Len(transcript') = Len(transcript) + 1
        BY <3>2, <3>3, <3>4, GrownAppend
      <4> QED BY <3>2, <4>1
    <3> QED BY <2>2, <3>1, <3>5, GivesUp
  <2>3. ASSUME pc' # "failed" PROVE Course(rec, at)'
    <3>1. CASE DeriveHandshakeKeys
      BY <2>1, <3>1, HonestKeys
    <3>2. CASE SendFinished
      <4>1. pc = "finished" /\ pc' = "traffic" /\ UNCHANGED <<tls_read_seq, tls_state>>
        BY <2>3, <3>2 DEF SendFinished, Fail, reading
      <4> QED BY <1>5, <2>1, <4>1, HonestOpens
    <3>3. CASE DeriveTrafficKeys
      <4>1. pc = "traffic" /\ pc' = "open" /\ tls_read_seq' = 0 /\ tls_state' = CONNECTED
        BY <3>3 DEF DeriveTrafficKeys, SeqReset
      <4> QED BY <1>5, <2>1, <4>1, HonestOpens
    <3>4. CASE TlsSend
      <4>1. UNCHANGED <<srv, conn, pc, transcript, tls_read_seq, shared, df, tls_state, ring, reader>>
        BY <3>4 DEF TlsSend, session, secrets, reading
      <4> QED BY <2>1, <4>1, CourseSame
    <3> QED BY <1>4, <3>1, <3>2, <3>3, <3>4
  <2>4. CASE pc' # "failed"
    BY <1>5, <2>1, <2>3, <2>4, StaysLive
  <2>5. pc' = "failed" => SendFinished
    BY <1>4 DEF DeriveHandshakeKeys, DeriveTrafficKeys, TlsSend, session
  <2> QED BY <2>2, <2>4, <2>5
<1> QED BY <1>6, <1>7

LEMMA HonestStutters ==
    ASSUME HonestInv, UNCHANGED vars
    PROVE  HonestInv'
<1>0. /\ UNCHANGED <<srv, conn, pc, transcript, tls_read_seq, shared, df, tls_state, ring, reader>>
      /\ UNCHANGED <<faults, polls, tls_last_state, policy>>
    BY DEF vars, session, secrets, reading
<1>1. Calm' <=> Calm
    BY <1>0 DEF Calm
<1>2. CASE pc \in Live /\ Calm
  <2>1. PICK rec \in [Nat -> Record], at \in [Nat -> Nat] : Course(rec, at)
    BY <1>2 DEF HonestInv
  <2>2. Course(rec, at)'
    BY <1>0, <2>1, CourseSame
  <2> QED BY <1>0, <1>2, <2>2, StaysLive
<1>3. CASE ~(pc \in Live /\ Calm)
    BY <1>0, <1>1, <1>3 DEF HonestInv, HonestServed, Acceptable
<1> QED BY <1>2, <1>3

LEMMA HonestStep ==
    ASSUME TypeOK, HandshakeInv, DataInv, HonestInv, [Next]_vars
    PROVE  HonestInv'
<1>1. CASE Network
  <2>1. Serving /\ UNCHANGED <<pc, conn>> /\ faults' = faults + 1
    BY <1>1 DEF Network, client, session
  <2>2. pc # "hello"
    <3>1. ~NoServer.on
      BY DEF NoServer
    <3> QED BY <2>1, <3>1 DEF DataInv, Clean, Serving
  <2>3. ~Calm'
    <3>1. faults \in Nat /\ \A n \in Nat : n + 1 # 0
      BY DEF TypeOK
    <3> QED BY <2>1, <3>1 DEF Calm
  <2> QED BY <2>1, <2>2, <2>3, Stormy
<1> QED BY <1>1, HonestReceive, HonestPump, HonestCall, HonestServer, HonestStutters DEF Next

LEMMA HonestInitial == Init => HonestInv
BY DEF Init, HonestInv, HonestServed, Live, After

\* A server that follows the protocol is turned away only for a leaf the hook refuses,
\* a send the stack refuses or a spent budget: for every number of connections, every
\* packing of its messages into records, and every moment at which they arrive.
THEOREM HonestIsServed == Spec => []HonestServed
<1>1. HonestInv => HonestServed
    BY DEF HonestInv
<1>2. TypeOK /\ HandshakeInv /\ DataInv /\ HonestInv /\ [Next]_vars => HonestInv' /\ DataInv'
    BY HonestStep, DataStep
<1> QED BY <1>1, <1>2, DataInitial, HonestInitial, TypeCorrect, HandshakeOrder, PTL DEF Spec
=============================================================================
