------------------------------- MODULE UciNet -------------------------------
(* The TCP adapter over the Ultimate's command interface (src/net/uci/      *)
(* net.s, uci_cmd.s). Every call is a transaction: wait for the interface,  *)
(* write the command, push it, wait for the reply, read it, accept it. Each *)
(* wait ends after five seconds of the CIA's clock whatever the firmware    *)
(* does, so a call may give up on a command the firmware still completes.   *)
(* The receive ring carries bytes <<connection, position>>, and the bytes   *)
(* to send are positions in what the callers asked to send.                 *)
EXTENDS UciDevice, FiniteSets

CONSTANTS
    RingSize,   \* TCP_RECV_BUF_SIZE, 4096
    ReadChunk,  \* UCI_READ_CHUNK_MAX, 512
    SendChunk,  \* UCI_DATA_QUEUE_MAX, 800
    MaxIface,   \* NET_DHCP_MAX_IFACE, 4
    Ids,        \* the firmware's socket numbers; 0 is none
    MaxConn,    \* how many connections the firmware opens
    MaxBytes,   \* how many bytes the peer of a connection sends
    MaxSend,    \* the longest send
    MaxAsked,   \* how many bytes are sent on one connection
    MaxResets,  \* how often the C64 is reset
    Wedges      \* may a drain run out its time?

ASSUME Sizes ==
    /\ RingSize \in Nat \ {0, 1}
    /\ ReadChunk \in Nat \ {0} /\ SendChunk \in Nat \ {0} /\ MaxIface \in Nat \ {0}
    /\ Ids \subseteq Nat \ {0} /\ IsFiniteSet(Ids)
    /\ {MaxConn, MaxBytes, MaxSend, MaxAsked, MaxResets} \subseteq Nat
    /\ Wedges \in BOOLEAN

VARIABLES
    dev,                                        \* the command interface
    fd, made, got, wire,                        \* the firmware's sockets; of the latest: bytes read, written
    call, pc, why, carry,                       \* the adapter call and where it is
    net_tcp_state, net_last_error, uci_socket_id,
    head, tail, tcp_recv_buf, tcp_recv_overflow,
    arg,                                        \* the call's own: lengths, pointers, indices
    session, net_initialized,                   \* where the program is between calls
    conn, taken, asked, short,                  \* history: this connection, what was read, sent
    resets

fwVars == <<fd, made, got, wire>>
tcpVars == <<net_tcp_state, net_last_error, uci_socket_id>>
ringVars == <<head, tail, tcp_recv_buf, tcp_recv_overflow>>
callVars == <<call, pc, why, carry>>
progVars == <<session, net_initialized>>
histVars == <<conn, taken, asked, short>>
vars == <<dev, fwVars, tcpVars, ringVars, callVars, arg, progVars, histVars, resets>>

\* What one call leaves of these no other call reads.
NoArg == [uci_req_len |-> 0, uci_send_rem |-> 0, uci_send_ptr |-> 0, iface_idx |-> 0, cl_err_in |-> "ok"]
NoByte == <<0, 0>>
Least(a, b) == IF a <= b THEN a ELSE b

----------------------------------------------------------------------------
(* The ring.                                                               *)

Used == (tail + RingSize - head) % RingSize
Room == (head + RingSize - tail - 1) % RingSize
RingAt(i) == tcp_recv_buf[(head + i) % RingSize]

----------------------------------------------------------------------------
(* The power-on state, and the state a reset of the C64 leaves.            *)

Booted ==
    /\ call' = "none" /\ pc' = "idle" /\ why' = "none" /\ carry' = 0
    /\ net_tcp_state' = "closed" /\ net_last_error' = "ok" /\ uci_socket_id' = 0
    /\ head' = 0 /\ tail' = 0 /\ tcp_recv_overflow' = FALSE
    /\ tcp_recv_buf' = [i \in 0..RingSize-1 |-> NoByte]
    /\ arg' = NoArg
    /\ session' = "none" /\ net_initialized' = FALSE
    /\ conn' = 0 /\ taken' = 0 /\ asked' = 0 /\ short' = FALSE

Init ==
    /\ dev = Quiet
    /\ fd = [i \in Ids |-> 0] /\ made = 0
    /\ got = 0 /\ wire = <<>>
    /\ call = "none" /\ pc = "idle" /\ why = "none" /\ carry = 0
    /\ net_tcp_state = "closed" /\ net_last_error = "ok" /\ uci_socket_id = 0
    /\ head = 0 /\ tail = 0 /\ tcp_recv_overflow = FALSE
    /\ tcp_recv_buf = [i \in 0..RingSize-1 |-> NoByte]
    /\ arg = NoArg
    /\ session = "none" /\ net_initialized = FALSE
    /\ conn = 0 /\ taken = 0 /\ asked = 0 /\ short = FALSE
    /\ resets = 0

\* The C64 is reset; the firmware, its task and its sockets go on.
Restart ==
    /\ resets < MaxResets
    /\ resets' = resets + 1
    /\ Booted
    /\ dev' = Disown(dev)
    /\ UNCHANGED fwVars

----------------------------------------------------------------------------
(* How a call ends, and what its caller goes on to: after a failed send or  *)
(* a failed handshake the callers do nothing but close.                     *)

Return(c) ==
    /\ pc' = "idle" /\ carry' = c /\ why' = "none" /\ UNCHANGED call
    /\ session' = IF call = "connect" THEN (IF c = 0 THEN "open" ELSE "none")
                  ELSE IF call = "close" THEN "none"
                  ELSE IF call = "send" /\ c = 1 THEN "broken"
                  ELSE session
    /\ net_initialized' = (net_initialized \/ (call = "dhcp" /\ c = 0))

GoOn(to) == pc' = to /\ UNCHANGED <<call, why, carry, progVars>>

\* The call is lost: abort the transaction, then return C=1 (uci_txn_bail).
Bail == pc' = "abort" /\ why' = "bail" /\ UNCHANGED <<call, carry, progVars>>

Enter(name, at, reason, with) ==
    /\ pc = "idle"
    /\ arg' = with
    /\ call' = name /\ pc' = at /\ why' = reason /\ carry' = 0
    /\ UNCHANGED <<dev, fwVars, progVars, resets>>

BetweenFetches == session = "none" /\ ~(call = "init" /\ carry = 0)

----------------------------------------------------------------------------
(* The calls.                                                              *)

\* net_init: abort whatever a warm reset left in flight, and wait for the reset.
NetInit ==
    /\ BetweenFetches
    /\ Enter("init", "abort", "init", NoArg)
    /\ UNCHANGED <<tcpVars, ringVars, histVars>>

\* net_dhcp_acquire, which do_net_init calls next.
NetDhcpAcquire ==
    /\ call = "init" /\ carry = 0
    /\ Enter("dhcp", "wait", "none", NoArg)
    /\ UNCHANGED <<tcpVars, ringVars, histVars>>

\* net_tcp_connect: an empty ring and no error for the new connection.
NetTcpConnect ==
    /\ BetweenFetches /\ net_initialized
    /\ Enter("connect", "wait", "none", NoArg)
    /\ head' = 0 /\ tail' = 0 /\ tcp_recv_overflow' = FALSE
    /\ net_last_error' = "ok"
    /\ conn' = 0 /\ taken' = 0 /\ asked' = 0 /\ short' = FALSE
    /\ UNCHANGED <<net_tcp_state, uci_socket_id, tcp_recv_buf>>

\* net_tcp_send of n bytes, the next ones.
NetTcpSend(n) ==
    /\ session = "open" /\ asked + n <= MaxAsked
    /\ Enter("send", "wait", "none", [NoArg EXCEPT !.uci_send_rem = n, !.uci_send_ptr = asked])
    /\ asked' = asked + n
    /\ UNCHANGED <<tcpVars, ringVars, conn, taken, short>>

\* Mutant of NetPoll: the request is always the full chunk.
PollFullChunk ==
    /\ session # "broken" /\ net_tcp_state = "connected" /\ Room > 0
    /\ Enter("poll", "wait", "none", [NoArg EXCEPT !.uci_req_len = ReadChunk])
    /\ UNCHANGED <<tcpVars, ringVars, histVars>>

\* net_poll asks for no more than the ring has room for, and for nothing when it is full.
NetPoll ==
    /\ session # "broken"
    /\ net_tcp_state = "connected"
    /\ Room > 0
    /\ Enter("poll", "wait", "none", [NoArg EXCEPT !.uci_req_len = Least(Room, ReadChunk)])
    /\ UNCHANGED <<tcpVars, ringVars, histVars>>

NetTcpClose ==
    /\ session \in {"open", "broken"}
    /\ Enter("close", "wait", "none", [NoArg EXCEPT !.cl_err_in = net_last_error])
    /\ UNCHANGED <<tcpVars, ringVars, histVars>>

\* net_recv_byte takes the ring's oldest byte.
NetRecvByte ==
    /\ pc = "idle" /\ session = "open" /\ head # tail
    /\ head' = (head + 1) % RingSize
    /\ taken' = taken + 1
    /\ UNCHANGED <<dev, fwVars, tcpVars, tail, tcp_recv_buf, tcp_recv_overflow, callVars, arg,
                   progVars, conn, asked, short, resets>>

----------------------------------------------------------------------------
(* The stages of a transaction.                                            *)

\* Mutant of EntryOpen: every call waits for CMD_BUSY only.
EntryNotBusy == NotBusy(dev)

\* net_poll waits for CMD_BUSY only (uci_wait_not_busy), every other call for uci_wait_idle.
EntryOpen == IF call = "poll" THEN NotBusy(dev) ELSE FullyIdle(dev)

EntryPasses ==
    /\ pc = "wait" /\ EntryOpen
    /\ GoOn("head")
    /\ UNCHANGED <<dev, fwVars, tcpVars, ringVars, arg, histVars, resets>>

\* Mutant of Expired: the clock never runs.
NeverExpires(seen) == FALSE

\* Five seconds have gone and the last read of $DF1C still was not what the wait wants.
Expired(seen) == ~seen

EntryExpires ==
    /\ pc = "wait" /\ Expired(EntryOpen)
    /\ net_last_error' = "timeout"
    /\ net_tcp_state' = CASE call = "poll" -> "error"
                          [] call = "connect" -> "connect_fail"
                          [] OTHER -> net_tcp_state
    /\ CASE call = "connect" -> Bail
         [] call = "close" -> pc' = "abort" /\ why' = "retry" /\ UNCHANGED <<call, carry, progVars>>
         [] OTHER -> Return(1)
    /\ UNCHANGED <<dev, fwVars, uci_socket_id, ringVars, arg, histVars, resets>>

\* A send's next chunk.
ChunkLen == Least(arg.uci_send_rem, SendChunk)

Command ==
    [op |-> call,
     id |-> IF call \in {"send", "poll", "close"} THEN uci_socket_id ELSE 0,
     arg |-> CASE call = "poll" -> arg.uci_req_len
               [] call = "send" -> ChunkLen
               [] call = "dhcp" -> arg.iface_idx
               [] OTHER -> 0,
     from |-> IF call = "send" THEN arg.uci_send_ptr ELSE 0]

\* The bytes of a command are written one at a time; the firmware may act between any two.
WriteCommand(part) ==
    /\ pc = IF part = 1 THEN "head" ELSE "tail"
    /\ dev' = Write(dev, Command, part)
    /\ GoOn(IF part = 1 THEN "tail" ELSE "push")
    /\ UNCHANGED <<fwVars, tcpVars, ringVars, arg, histVars, resets>>

UciPushWait ==
    /\ pc = "push"
    /\ dev' = PushCommand(ClearError(dev))
    /\ GoOn("reply")
    /\ UNCHANGED <<fwVars, tcpVars, ringVars, arg, histVars, resets>>

\* Mutant of ReplySeen: the wait is for CMD_BUSY to clear.
SeenNotBusy == NotBusy(dev)

ReplySeen == Answered(dev)

ReplyComes ==
    /\ pc = "reply" /\ ReplySeen
    /\ GoOn("read")
    /\ UNCHANGED <<dev, fwVars, tcpVars, ringVars, arg, histVars, resets>>

\* Mutant of ReplyExpires: the connect returns without an abort.
ExpiresUnaborted ==
    /\ pc = "reply" /\ Expired(ReplySeen)
    /\ net_last_error' = "timeout"
    /\ net_tcp_state' = IF call = "connect" THEN "connect_fail" ELSE net_tcp_state
    /\ IF call = "connect" THEN Return(1) ELSE Bail
    /\ dev' = Disown(dev)
    /\ UNCHANGED <<fwVars, uci_socket_id, ringVars, arg, histVars, resets>>

ReplyExpires ==
    /\ pc = "reply" /\ Expired(ReplySeen)
    /\ net_last_error' = "timeout"
    /\ net_tcp_state' = CASE call = "poll" -> "error"
                          [] call = "connect" -> "connect_fail"
                          [] OTHER -> net_tcp_state
    /\ IF call \in {"poll", "dhcp"} THEN Return(1) ELSE Bail
    /\ dev' = Disown(dev)
    /\ UNCHANGED <<fwVars, uci_socket_id, ringVars, arg, histVars, resets>>

----------------------------------------------------------------------------
(* Reading the reply: uci_check_err, the reads, both drains and uci_ack.    *)
(* The firmware writes nothing while a reply is valid and no abort pends,   *)
(* so these are one step. A drain that runs out its time (w) leaves the     *)
(* reply unaccepted.                                                        *)

\* uci_check_err: the push met an interface that was not idle; the bit is cleared on the way.
Rejected == dev.error

\* uci_read_resp_bytes, and net_poll's own reads: what DATA_AV shows is final.
Reply == Staged(dev)

Drained(w) == dev' = IF w THEN Disown(ClearError(dev)) ELSE DataAccept(ClearError(dev))
DrainError(w, otherwise) == net_last_error' = IF w THEN "timeout" ELSE otherwise

\* The copy into the ring: as many as were asked for, and no more than there is room for.
RingStore(bytes) ==
    LET n == Least(Least(Len(bytes), arg.uci_req_len), Room)
    IN  /\ tcp_recv_buf' = [i \in 0..RingSize-1 |->
                              LET at == (i + RingSize - tail) % RingSize
                              IN  IF at < n THEN bytes[at + 1] ELSE tcp_recv_buf[i]]
        /\ tail' = (tail + n) % RingSize
        /\ tcp_recv_overflow' = (tcp_recv_overflow \/ n < Least(Len(bytes), arg.uci_req_len))

\* net_poll: an error, no header, end of file, data, nothing yet, or a dead socket.
PollReply(w) ==
    /\ pc = "read" /\ call = "poll"
    /\ Drained(w)
    /\ DrainError(w, IF Rejected THEN "read" ELSE net_last_error)
    /\ RingStore(IF Rejected \/ Reply.kind # "data" THEN <<>> ELSE Reply.val)
    /\ net_tcp_state' = IF w \/ Rejected \/ Reply.kind = "dead" THEN "error"
                        ELSE IF Reply.kind = "eof" THEN "closed"
                        ELSE net_tcp_state
    /\ Return(0)
    /\ UNCHANGED <<fwVars, uci_socket_id, head, arg, histVars, resets>>

ConnectReply(w) ==
    LET id == IF Reply.kind = "socket" THEN Reply.val[1] ELSE 0
    IN  /\ pc = "read" /\ call = "connect"
        /\ Drained(w)
        /\ uci_socket_id' = IF Rejected THEN uci_socket_id ELSE id
        /\ DrainError(w, IF Rejected THEN "connect" ELSE IF id = 0 THEN "no_socket" ELSE net_last_error)
        /\ net_tcp_state' = IF Rejected THEN net_tcp_state
                            ELSE IF w \/ id = 0 THEN "connect_fail"
                            ELSE "connected"
        /\ conn' = IF Rejected \/ w \/ id = 0 THEN conn ELSE fd[id]
        /\ IF w THEN Bail ELSE Return(IF Rejected \/ id = 0 THEN 1 ELSE 0)
        /\ UNCHANGED <<fwVars, ringVars, arg, taken, asked, short, resets>>

\* Mutant of SendReply: the source advances by the chunk asked for.
AdvanceByChunk(w) ==
    LET counted == Reply.kind = "count" /\ ~Rejected
        n == ChunkLen
        rem == arg.uci_send_rem - n
    IN  /\ pc = "read" /\ call = "send"
        /\ Drained(w)
        /\ DrainError(w, net_last_error)
        /\ arg' = [arg EXCEPT !.uci_send_rem = rem, !.uci_send_ptr = @ + n]
        /\ IF w THEN Bail ELSE IF ~counted THEN Return(1) ELSE IF rem = 0 THEN Return(0) ELSE GoOn("wait")
        /\ UNCHANGED <<fwVars, net_tcp_state, uci_socket_id, ringVars, histVars, resets>>

\* net_tcp_send: no two-byte count, or a negative one, is a failed send; the source
\* advances by what was written, and nothing written ends the call with C=0.
SendReply(w) ==
    LET counted == Reply.kind = "count" /\ ~Rejected
        n == IF counted THEN Reply.val[1] ELSE 0
        rem == arg.uci_send_rem - n
    IN  /\ pc = "read" /\ call = "send"
        /\ Drained(w)
        /\ DrainError(w, IF Rejected THEN "send" ELSE IF n = 0 THEN "short_write" ELSE net_last_error)
        /\ arg' = IF w THEN arg ELSE [arg EXCEPT !.uci_send_rem = rem, !.uci_send_ptr = @ + n]
        /\ short' = (short \/ (~w /\ counted /\ n = 0))
        /\ IF w THEN Bail
           ELSE IF ~counted THEN Return(1)
           ELSE IF n = 0 \/ rem = 0 THEN Return(0)
           ELSE GoOn("wait")
        /\ UNCHANGED <<fwVars, net_tcp_state, uci_socket_id, ringVars, conn, taken, asked, resets>>

CloseReply(w) ==
    /\ pc = "read" /\ call = "close"
    /\ Drained(w)
    /\ DrainError(w, net_last_error)
    /\ IF w THEN Bail /\ UNCHANGED net_tcp_state
            ELSE Return(0) /\ net_tcp_state' = "closed"
    /\ UNCHANGED <<fwVars, uci_socket_id, ringVars, arg, histVars, resets>>

\* net_dhcp_acquire: the first interface with a full and non-zero record.
DhcpReply(w) ==
    LET leased == Reply.kind = "lease" /\ ~Rejected
        more == arg.iface_idx + 1 < MaxIface
    IN  /\ pc = "read" /\ call = "dhcp"
        /\ Drained(w)
        /\ DrainError(w, IF leased THEN "ok" ELSE IF Rejected THEN "command" ELSE "no_ip")
        /\ arg' = IF w \/ leased THEN arg ELSE [arg EXCEPT !.iface_idx = @ + 1]
        /\ IF ~w /\ leased THEN Return(0) ELSE IF w \/ ~more THEN Return(1) ELSE GoOn("wait")
        /\ UNCHANGED <<fwVars, net_tcp_state, uci_socket_id, ringVars, histVars, resets>>

----------------------------------------------------------------------------
(* uci_abort: ABORT, then the wait for the firmware's reset.                *)

UciAbort ==
    /\ pc = "abort"
    /\ dev' = Abort(dev)
    /\ GoOn("abort_wait")
    /\ UNCHANGED <<fwVars, tcpVars, ringVars, arg, histVars, resets>>

AbortSeen == FullyIdle(dev)

\* net_init zeroes its state; a bail returns C=1; the close goes on to its command.
AbortLands ==
    /\ pc = "abort_wait" /\ AbortSeen
    /\ net_last_error' = CASE why = "init" -> "ok" [] why = "retry" -> arg.cl_err_in [] OTHER -> net_last_error
    /\ net_tcp_state' = IF why = "init" \/ (why = "bail" /\ call = "close") THEN "closed" ELSE net_tcp_state
    /\ CASE why = "init" -> Return(0) [] why = "retry" -> GoOn("head") [] OTHER -> Return(1)
    /\ UNCHANGED <<dev, fwVars, uci_socket_id, ringVars, arg, histVars, resets>>

AbortExpires ==
    /\ pc = "abort_wait" /\ Expired(AbortSeen)
    /\ net_last_error' = "timeout"
    /\ net_tcp_state' = IF call = "close" THEN "closed" ELSE net_tcp_state
    /\ Return(1)
    /\ UNCHANGED <<dev, fwVars, uci_socket_id, ringVars, arg, histVars, resets>>

----------------------------------------------------------------------------
(* The firmware and the peers.                                             *)

Task(op) == dev.exec # <<>> /\ dev.exec[1].op = op
Serial == LET id == dev.exec[1].id IN IF id \in Ids THEN fd[id] ELSE 0
Untouched == UNCHANGED <<tcpVars, ringVars, callVars, arg, progVars, histVars, resets>>

TaskTakes ==
    /\ TaskFree(dev)
    /\ dev' = IF Head(dev.queue) = "abort" THEN Reset(dev) ELSE TakeCommand(dev)
    /\ UNCHANGED fwVars /\ Untouched

\* TCP_CONNECT: a name that does not resolve, a peer that does not answer, or a socket.
TaskConnects ==
    /\ Task("connect")
    /\ \/ /\ dev' = Validate(dev, "empty", <<>>)
          /\ UNCHANGED fwVars
       \/ \E i \in Ids :
            /\ fd[i] = 0 /\ \A j \in Ids : fd[j] = 0 => i <= j   \* lwIP takes the lowest that is free
            /\ made < MaxConn
            /\ made' = made + 1
            /\ fd' = [fd EXCEPT ![i] = made + 1]
            /\ got' = 0 /\ wire' = <<>>
            /\ dev' = Validate(dev, "socket", <<i>>)
    /\ Untouched

\* SOCKET_READ: some of what has arrived, up to the length asked for; nothing yet; the end,
\* at which the socket closes itself; or a socket that is dead (reset, or not ours).
TaskReads ==
    /\ Task("poll")
    /\ LET s == Serial
       IN  \/ dev' = Validate(dev, "dead", <<>>) /\ UNCHANGED fwVars
           \/ s # 0 /\ dev' = Validate(dev, "idle", <<>>) /\ UNCHANGED fwVars
           \/ /\ s # 0
              /\ fd' = [fd EXCEPT ![dev.exec[1].id] = 0]
              /\ dev' = Validate(dev, "eof", <<>>)
              /\ UNCHANGED <<made, got, wire>>
           \/ \E n \in 1..dev.exec[1].arg :
                /\ s # 0 /\ got + n <= MaxBytes
                /\ got' = got + n
                /\ dev' = Validate(dev, "data", [i \in 1..n |-> <<s, got + i>>])
                /\ UNCHANGED <<fd, made, wire>>
    /\ Untouched

\* SOCKET_WRITE: all of it, some of it, none, or an error.
TaskWrites ==
    /\ Task("send")
    /\ LET s == Serial
           c == dev.exec[1]
       IN  \/ dev' = Validate(dev, "failed", <<>>) /\ UNCHANGED fwVars
           \/ \E n \in 0..c.arg :
                /\ s # 0
                /\ wire' = wire \o [i \in 1..n |-> <<s, c.from + i>>]
                /\ dev' = Validate(dev, "count", <<n>>)
                /\ UNCHANGED <<fd, made, got>>
    /\ Untouched

TaskCloses ==
    /\ Task("close")
    /\ fd' = [i \in Ids |-> IF i = dev.exec[1].id THEN 0 ELSE fd[i]]
    /\ dev' = Validate(dev, "done", <<>>)
    /\ UNCHANGED <<made, got, wire>> /\ Untouched

\* GET_IPADDR: a lease, a zero record, or an empty reply for an interface that is not there.
\* A buffer that holds no whole command gets an empty reply too.
TaskTellsLease ==
    /\ Task("dhcp") \/ Task("null")
    /\ \E kind \in {"lease", "zero", "empty"} :
         /\ Task("null") => kind = "empty"
         /\ dev' = Validate(dev, kind, <<>>)
    /\ UNCHANGED fwVars /\ Untouched

----------------------------------------------------------------------------
Program ==
    \/ NetInit \/ NetDhcpAcquire \/ NetTcpConnect \/ NetPoll \/ NetTcpClose \/ NetRecvByte
    \/ \E n \in 1..MaxSend : NetTcpSend(n)

Adapter ==
    \/ EntryPasses \/ EntryExpires
    \/ \E part \in 1..2 : WriteCommand(part)
    \/ UciPushWait \/ ReplyComes \/ ReplyExpires
    \/ \E w \in {FALSE, Wedges} :
         PollReply(w) \/ ConnectReply(w) \/ SendReply(w) \/ CloseReply(w) \/ DhcpReply(w)
    \/ UciAbort \/ AbortLands \/ AbortExpires

Firmware ==
    TaskTakes \/ TaskConnects \/ TaskReads \/ TaskWrites \/ TaskCloses \/ TaskTellsLease

Next == Program \/ Adapter \/ Firmware \/ Restart

Spec == Init /\ [][Next]_vars

\* The processor runs and its clock ticks; the firmware task may be stuck for ever.
FairSpec == Spec /\ WF_vars(Adapter)
----------------------------------------------------------------------------
Polling == call = "poll" /\ pc # "idle"

\* The ring carries this connection's bytes in order, without a hole: what the firmware
\* counts as delivered was read or is in the ring, until the adapter reports an error, and
\* when it reports the end of the stream as well (net_poll's request clamp, its error exits
\* and its end-of-file exit, after any timeout, late reply or abort).
StreamIntact ==
    session # "none" =>
        /\ \A i \in 0..Used-1 : RingAt(i) = <<conn, taken + i + 1>>
        /\ (net_tcp_state \in {"connected", "closed"} /\ ~Polling) => got = taken + Used

\* No push ever meets an interface that is not idle, and the reply a call reads is the reply
\* to the command this call pushed, never a late one to a command given up (uci_wait_idle's
\* mask, uci_wait_reply, uci_ack on every exit, uci_txn_bail).
ReplyIsMine ==
    /\ ~dev.error
    /\ pc = "read" => dev.state = "valid" /\ ~dev.abort /\ dev.mine /\ dev.reply.op = call

\* What reached the peer is the bytes the program sent, in order and once each; and a send
\* that returned C=0 sent everything, unless it left SHORT_WRITE behind (net_tcp_send).
SentOnce ==
    (session # "none" /\ ~short) =>
        /\ wire = [i \in 1..Len(wire) |-> <<conn, i>>]
        /\ (session = "open" /\ pc = "idle") => Len(wire) = asked

\* When net_tcp_close returns C=0 the firmware has closed this connection's socket, and
\* net_last_error is what the caller came in with, retried or not (#243).
CloseCloses ==
    (pc = "idle" /\ call = "close" /\ carry = 0) =>
        (\A i \in Ids : fd[i] # conn) /\ net_last_error = arg.cl_err_in

\* A connect or a close that returns, and every call after which the program goes on, leaves
\* the interface idle or with a reset on its way, never held by a forgotten transaction (#221).
LeftClean ==
    (pc = "idle" /\ (call \in {"connect", "close"} \/ (call \in {"init", "dhcp", "send"} /\ carry = 0))) =>
        FullyIdle(dev) \/ dev.abort

\* Every call returns, whatever the firmware does: each wait is bounded and each loop ends.
CallsReturn == (pc # "idle") ~> (pc = "idle")

=============================================================================
